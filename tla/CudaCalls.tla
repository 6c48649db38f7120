------------------------------ MODULE CudaCalls ------------------------------
(***************************************************************************)
(* The operations of the CUDA driver wrapper (drv.rs, graph.rs,            *)
(* advanced.rs, kernel.rs) as sequences of steps; CallSteps has the words. *)
(* Memory and copies on a stream are StreamOrder's and StagedCopy's.       *)
(***************************************************************************)
EXTENDS CallSteps, Sequences

(* Device: the primary context of an ordinal, retained once per value.     *)
DeviceOpen == New("none", "Device", <<Call, Call, Make("context"), TryBind>>)
DeviceBind == Use("Device", <<Bind>>)
DeviceQuery == Use("Device", <<Call>>)
EnablePeerAccess == Use("Device", <<Bind, CallHere>>)
DeviceStruct == Struct(FALSE, {"context"})

(* Mutants: a stream created without binding first; a struct              *)
(* whose device field is dropped.                                          *)
StreamBuildUnbound == New("Device", "Stream", <<CallHere, MakeHere("stream")>>)
StreamStructBare == Struct(FALSE, {"stream"})

(* Stream, and the ring of pinned slots its first staged copy creates.     *)
StreamBuild == New("Device", "Stream", <<Bind, CallHere, MakeHere("stream")>>)
StreamCall == Use("Stream", <<Call>>)
StageRing ==
    New("Stream", "StageRing",
        <<MakeHere("slot 1"), MakeHereElse("event 1", {"slot 1"}),
          MakeHere("slot 2"), MakeHereElse("event 2", {"slot 2"}),
          MakeHere("slot 3"), MakeHereElse("event 3", {"slot 3"}),
          MakeHere("slot 4"), MakeHereElse("event 4", {"slot 4"})>>)
StreamStruct == Struct(TRUE, {"stream"})
StageRingStruct ==
    Struct(TRUE, {"slot 1", "event 1", "slot 2", "event 2",
                  "slot 3", "event 3", "slot 4", "event 4"})

(* Event and TimingEvent: created in whatever context the thread has.      *)
EventNew == New("Device", "Event", <<MakeHere("event")>>)
EventCall == Use("Event", <<Call>>)
EventStruct == Struct(TRUE, {"event"})

(* AsyncMemPool, PinnedBuf.                                                *)
AsyncPoolNew == New("Device", "AsyncMemPool", <<Make("pool"), Own("pool"), Call>>)
AsyncPoolCall == Use("AsyncMemPool", <<Call>>)
AsyncPoolStruct == Struct(TRUE, {"pool"})
PinnedAlloc == New("Device", "PinnedBuf", <<Bind, Call, MakeHere("pinned memory")>>)
PinnedStruct == Struct(TRUE, {"pinned memory"})

(* Module, and the functions looked up in it.                              *)
ModuleLoad == New("Device", "Module", <<Bind, MakeHere("module")>>)
ModuleGlobal == Use("Module", <<Call, Call>>)
ModuleFunction == New("Module", "Function", <<Call, Call>>)
FunctionLaunch == Use("Function", <<Call>>)
FunctionQuery == Use("Function", <<Call>>)
ModuleStruct == Struct(TRUE, {"module"})
FunctionStruct == Struct(TRUE, {})

(* Capture borrows its stream; end_capture ends the driver's capture also  *)
(* when it returns an error instead of a graph; the guard is disarmed only *)
(* after the success.                                                      *)
CaptureBegin == New("Stream", "Capture", <<Make("capture")>>)
CaptureEnd ==
    Turn("Capture", {"capture"}, "CapturedGraph",
         <<Call, Free("capture"), Make("graph"), Forget("capture")>>)
CaptureStruct == Struct(TRUE, {"capture"})
CapturedGraphStruct == Struct(FALSE, {"graph"})

(* GraphExec::new consumes the captured graph: it destroys it by hand and  *)
(* forgets the value, which otherwise destroys it on the error paths.  The *)
(* executable graph keeps its device; in a line it stands on the stream of *)
(* the capture, and keeps the device through it.                           *)
GraphInstantiate ==
    Turn("CapturedGraph", {"graph"}, "GraphExec",
         <<Bind, Make("exec"), Free("graph"), Forget("graph")>>)
GraphLaunch == Use("GraphExec", <<Call>>)
GraphExecStruct == Struct(TRUE, {"exec"})

(* Virtual memory, multicast teams, green contexts.                        *)
PhysicalNew ==
    New("Device", "PhysicalAlloc",
        <<Bind, Call, Call, Call, Make("allocation")>>)
VirtualMap ==
    New("PhysicalAlloc", "VirtualRange",
        <<Bind, Call, Call, MakeHere("range"), Make("mapping"), CallHere>>)
MulticastNew == New("none", "MulticastTeam", <<Call, Call, Make("team")>>)
MulticastCall == Use("MulticastTeam", <<Call, Call>>)
GreenSplit ==
    New("Device", "GreenContext",
        <<Bind, Call, Call, Call, Make("green context")>>)
GreenStream == New("GreenContext", "GreenStream", <<Call, Make("green stream")>>)
PhysicalStruct == Struct(TRUE, {"allocation"})
VirtualStruct == Struct(TRUE, {"range", "mapping"})
MulticastStruct == Struct(FALSE, {})
GreenContextStruct == Struct(TRUE, {"green context"})
GreenStreamStruct == Struct(FALSE, {})

(* nvrtc: the error paths after the compilation leave the program behind.  *)
NvrtcCompile ==
    Use("none", <<Call, Call, Make("program"), CallElse({"program"}),
                  Call, Call, Free("program")>>)

CudaOps ==
    [DeviceOpen |-> DeviceOpen, DeviceBind |-> DeviceBind,
     DeviceQuery |-> DeviceQuery, EnablePeerAccess |-> EnablePeerAccess,
     StreamBuild |-> StreamBuild, StreamCall |-> StreamCall,
     StageRing |-> StageRing, EventNew |-> EventNew, EventCall |-> EventCall,
     AsyncPoolNew |-> AsyncPoolNew, AsyncPoolCall |-> AsyncPoolCall,
     PinnedAlloc |-> PinnedAlloc, ModuleLoad |-> ModuleLoad,
     ModuleGlobal |-> ModuleGlobal, ModuleFunction |-> ModuleFunction,
     FunctionLaunch |-> FunctionLaunch, FunctionQuery |-> FunctionQuery,
     CaptureBegin |-> CaptureBegin, CaptureEnd |-> CaptureEnd, GraphInstantiate |-> GraphInstantiate,
     GraphLaunch |-> GraphLaunch, PhysicalNew |-> PhysicalNew,
     VirtualMap |-> VirtualMap, MulticastNew |-> MulticastNew,
     MulticastCall |-> MulticastCall, GreenSplit |-> GreenSplit,
     GreenStream |-> GreenStream, NvrtcCompile |-> NvrtcCompile]

CudaTypes ==
    [Device |-> DeviceStruct, Stream |-> StreamStruct,
     StageRing |-> StageRingStruct, Event |-> EventStruct,
     AsyncMemPool |-> AsyncPoolStruct, PinnedBuf |-> PinnedStruct,
     Module |-> ModuleStruct, Function |-> FunctionStruct,
     Capture |-> CaptureStruct, CapturedGraph |-> CapturedGraphStruct,
     GraphExec |-> GraphExecStruct, PhysicalAlloc |-> PhysicalStruct,
     VirtualRange |-> VirtualStruct, MulticastTeam |-> MulticastStruct,
     GreenContext |-> GreenContextStruct, GreenStream |-> GreenStreamStruct]

==============================================================================
