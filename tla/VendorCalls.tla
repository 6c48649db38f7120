----------------------------- MODULE VendorCalls -----------------------------
(***************************************************************************)
(* The operations of the wrappers for AMD (HIP, hipBLASLt, hiprtc),        *)
(* Qualcomm (QNN), AWS Neuron, Vulkan and Level Zero as sequences of       *)
(* steps.  Only HIP has a current device per thread; the others name their *)
(* context in every call.                                                  *)
(***************************************************************************)
EXTENDS CallSteps, Sequences

(* HIP: opening a device retains nothing, so closing it releases nothing.  *)
HipOpen == New("none", "HipDevice", <<Call, Call, Call, Bind>>)
HipQuery == Use("HipDevice", <<Call>>)
HipDeviceStruct == Struct(FALSE, {})

HipStreamNew == New("HipDevice", "HipStream", <<Bind, MakeHere("stream")>>)
HipStreamCall == Use("HipStream", <<Call>>)
HipStreamStruct == Struct(TRUE, {"stream"})

(* Unlike CUDA's Event::new, this one binds first.                         *)
HipEventNew == New("HipDevice", "HipEvent", <<Bind, MakeHere("event")>>)
HipEventCall == Use("HipEvent", <<Call>>)
HipEventStruct == Struct(TRUE, {"event"})

HipAlloc == New("HipStream", "HipBuf", <<Call, Make("memory")>>)
HipCopy == Use("HipBuf", <<Call, Call>>)
HipBufStruct == Struct(TRUE, {"memory"})

HipModuleLoad == New("HipDevice", "HipModule", <<Bind, MakeHere("module")>>)
HipModuleFunction == New("HipModule", "HipFunction", <<Call, Call>>)
HipLaunch == Use("HipFunction", <<Call>>)
HipModuleStruct == Struct(TRUE, {"module"})
HipFunctionStruct == Struct(TRUE, {})

(* hiprtc: the program is destroyed on every path.                         *)
HiprtcCompile ==
    Use("none", <<Call, Call, Make("program"), CallElse({"program"}),
                  CallElse({"program"}), Free("program")>>)

(* hipBLASLt.                                                              *)
HipBlasNew == New("HipDevice", "HipBlasLt", <<Bind, Call, MakeHere("handle")>>)
HipMatmulDescNew == New("none", "HipMatmulDesc", <<Call, Make("matmul desc")>>)
HipMatmulDescSet == Use("HipMatmulDesc", <<Call, Call, Call>>)
HipLayoutNew == New("none", "HipMatrixLayout", <<Call, Make("layout")>>)
HipLayoutSet == Use("HipMatrixLayout", <<Call, Call, Call>>)
HipPreferenceNew == New("none", "HipPreference", <<Call, Make("preference")>>)
HipPreferenceSet == Use("HipPreference", <<Call, Call>>)
HipHeuristic == Use("HipBlasLt", <<Call, Call, Call>>)
HipMatmul == Use("HipBlasLt", <<Call, CallHere>>)
HipBlasStruct == Struct(TRUE, {"handle"})
HipMatmulDescStruct == Struct(FALSE, {"matmul desc"})
HipLayoutStruct == Struct(FALSE, {"layout"})
HipPreferenceStruct == Struct(FALSE, {"preference"})

(* QNN: a backend, a device on it, a context on that, a graph in that; a   *)
(* graph is freed with its context.                                        *)
QnnBackendNew == New("none", "QnnBackend", <<Call, Make("backend")>>)
QnnVersion == Use("QnnBackend", <<Call, Call>>)
QnnDeviceNew == New("QnnBackend", "QnnDevice", <<Call, Make("device")>>)
QnnContextNew == New("QnnDevice", "QnnContext", <<Call, Make("context")>>)
QnnContextLoad == New("QnnDevice", "QnnContext", <<Call, Make("context")>>)
QnnContextSave == Use("QnnContext", <<Call, Call, Call>>)
QnnGraphNew == New("QnnContext", "QnnGraph", <<Call, Call, Call>>)
QnnGraphCall == Use("QnnGraph", <<Call, Call, Call>>)
QnnBackendStruct == Struct(FALSE, {"backend"})
QnnDeviceStruct == Struct(TRUE, {"device"})
QnnContextStruct == Struct(TRUE, {"context"})
QnnGraphStruct == Struct(TRUE, {})

(* Neuron: a symbol the library lacks is an error of the call.             *)
NeuronLoad == New("none", "NeuronModel", <<Call, Call, Make("model")>>)
NeuronExecute == Use("NeuronModel", <<Call, Call>>)
TensorSetNew == New("none", "TensorSet", <<Call, Call, Make("tensor set")>>)
TensorSetAdd == Use("TensorSet", <<Call, Call>>)
NeuronModelStruct == Struct(FALSE, {"model"})
TensorSetStruct == Struct(FALSE, {"tensor set"})

(* Vulkan: no error path releases what the function made before; buffers   *)
(* and pipelines hold a copy of the device's handle, not the device.       *)
VkContextNew ==
    New("none", "VkContext",
        <<Call, Call, Call, Call, Make("device"), Make("command pool")>>)
RunCommands ==
    Use("VkContext",
        <<Make("command buffer"), Call, Call, Call, Call, Free("command buffer")>>)
VkBufferAlloc ==
    New("VkContext", "VkBuffer", <<Make("buffer"), Call, Make("memory"), Call>>)
VkBufferAccess == Use("VkBuffer", <<Call, Call>>)
WithBindings ==
    New("VkContext", "VkPipeline",
        <<Make("module"), Make("set layout"), Make("descriptor pool"), Call,
          Make("layout"), Make("pipeline")>>)
VkContextStruct == Struct(FALSE, {"device", "command pool"})
VkBufferStruct == Struct(FALSE, {"buffer", "memory"})
VkPipelineStruct ==
    Struct(FALSE, {"module", "set layout", "descriptor pool", "layout", "pipeline"})

(* Mutant: the queue is forgotten on the last error path.                  *)
ZeContextNewLeaky ==
    New("none", "ZeContext",
        <<Call, Call, Make("context"),
          MakeElse("queue", {"context"}),
          MakeElse("list", {"context"})>>)

(* Level Zero: the context's constructor releases on every error path;     *)
(* what is made in a context holds its handle only.                        *)
ZeContextNew ==
    New("none", "ZeContext",
        <<Call, Call, Make("context"),
          MakeElse("queue", {"context"}),
          MakeElse("list", {"queue", "context"})>>)
AllocDevice == New("ZeContext", "ZeBuffer", <<Make("memory")>>)
AllocShared == New("ZeContext", "ZeBuffer", <<Make("memory")>>)
LoadSpirv == New("ZeContext", "ZeModule", <<Make("module")>>)
ZeKernelNew == New("ZeModule", "ZeKernel", <<Call, Make("kernel")>>)
ZePipelineNew ==
    New("ZeContext", "ZePipeline",
        <<Make("module"), Own("module"), Call, Make("kernel")>>)
ZeContextStruct == Struct(FALSE, {"context", "queue", "list"})
ZeBufferStruct == Struct(FALSE, {"memory"})
ZeModuleStruct == Struct(FALSE, {"module"})
ZeKernelStruct == Struct(FALSE, {"kernel"})
ZePipelineStruct == Struct(FALSE, {"module", "kernel"})

VendorOps ==
    [HipOpen |-> HipOpen, HipQuery |-> HipQuery,
     HipStreamNew |-> HipStreamNew, HipStreamCall |-> HipStreamCall,
     HipEventNew |-> HipEventNew, HipEventCall |-> HipEventCall,
     HipAlloc |-> HipAlloc, HipCopy |-> HipCopy,
     HipModuleLoad |-> HipModuleLoad, HipModuleFunction |-> HipModuleFunction,
     HipLaunch |-> HipLaunch, HiprtcCompile |-> HiprtcCompile,
     HipBlasNew |-> HipBlasNew, HipMatmulDescNew |-> HipMatmulDescNew,
     HipMatmulDescSet |-> HipMatmulDescSet, HipLayoutNew |-> HipLayoutNew,
     HipLayoutSet |-> HipLayoutSet, HipPreferenceNew |-> HipPreferenceNew,
     HipPreferenceSet |-> HipPreferenceSet, HipHeuristic |-> HipHeuristic,
     HipMatmul |-> HipMatmul,
     QnnBackendNew |-> QnnBackendNew, QnnVersion |-> QnnVersion,
     QnnDeviceNew |-> QnnDeviceNew, QnnContextNew |-> QnnContextNew,
     QnnContextLoad |-> QnnContextLoad, QnnContextSave |-> QnnContextSave,
     QnnGraphNew |-> QnnGraphNew, QnnGraphCall |-> QnnGraphCall,
     NeuronLoad |-> NeuronLoad, NeuronExecute |-> NeuronExecute,
     TensorSetNew |-> TensorSetNew, TensorSetAdd |-> TensorSetAdd,
     VkContextNew |-> VkContextNew, RunCommands |-> RunCommands,
     VkBufferAlloc |-> VkBufferAlloc, VkBufferAccess |-> VkBufferAccess,
     WithBindings |-> WithBindings,
     ZeContextNew |-> ZeContextNew, AllocDevice |-> AllocDevice,
     AllocShared |-> AllocShared, LoadSpirv |-> LoadSpirv,
     ZeKernelNew |-> ZeKernelNew, ZePipelineNew |-> ZePipelineNew]

VendorTypes ==
    [HipDevice |-> HipDeviceStruct, HipStream |-> HipStreamStruct,
     HipEvent |-> HipEventStruct, HipBuf |-> HipBufStruct,
     HipModule |-> HipModuleStruct, HipFunction |-> HipFunctionStruct,
     HipBlasLt |-> HipBlasStruct, HipMatmulDesc |-> HipMatmulDescStruct,
     HipMatrixLayout |-> HipLayoutStruct, HipPreference |-> HipPreferenceStruct,
     QnnBackend |-> QnnBackendStruct, QnnDevice |-> QnnDeviceStruct,
     QnnContext |-> QnnContextStruct, QnnGraph |-> QnnGraphStruct,
     NeuronModel |-> NeuronModelStruct, TensorSet |-> TensorSetStruct,
     VkContext |-> VkContextStruct, VkBuffer |-> VkBufferStruct,
     VkPipeline |-> VkPipelineStruct, ZeContext |-> ZeContextStruct,
     ZeBuffer |-> ZeBufferStruct, ZeModule |-> ZeModuleStruct,
     ZeKernel |-> ZeKernelStruct, ZePipeline |-> ZePipelineStruct]

==============================================================================
