----------------------------- MODULE LibraryCalls -----------------------------
(***************************************************************************)
(* The operations of the wrappers around CUDA's libraries (cuBLASLt,       *)
(* cuDNN, cuSPARSE, cuSOLVER, cuTENSOR, cuFFT, cuRAND, NCCL) as sequences  *)
(* of steps.  A library's work is enqueued in the thread's current         *)
(* context, which must be the one its handle was made in.  Which handle a  *)
(* stream gets, and what a handle is set to, is LibraryHandles' matter.    *)
(***************************************************************************)
EXTENDS CallSteps, Sequences

(* The handle of a library: bind, find the library, create.                *)
LibraryHandle(type, what) ==
    New("Device", type, <<Bind, Call, MakeHere(what)>>)

(* A descriptor that lives outside every context, and a call on it.        *)
Description(type, what) == New("none", type, <<Call, Make(what)>>)
Adjust(type) == Use(type, <<Call, Call>>)

(* Work that a library enqueues through one of its objects.                *)
Work(type) == Use(type, <<Call, CallHere>>)

(* cuBLASLt: a handle, three kinds of descriptors, the heuristic, matmul.  *)
BlasNew == LibraryHandle("BlasLt", "handle")
MatmulDescNew == Description("MatmulDesc", "matmul desc")
MatmulDescSet == Use("MatmulDesc", <<Call, Call, Call>>)
MatrixLayoutNew == Description("MatrixLayout", "layout")
MatrixLayoutSet == Use("MatrixLayout", <<Call, Call, Call>>)
PreferenceNew == Description("Preference", "preference")
PreferenceSet == Adjust("Preference")
BlasHeuristic == Use("BlasLt", <<Call, Call, Call>>)
BlasMatmul == Work("BlasLt")
BlasStruct == Struct(TRUE, {"handle"})
MatmulDescStruct == Struct(FALSE, {"matmul desc"})
MatrixLayoutStruct == Struct(FALSE, {"layout"})
PreferenceStruct == Struct(FALSE, {"preference"})

(* cuDNN: a handle, and backend descriptors, which do not keep one.        *)
DnnNew == LibraryHandle("CudnnHandle", "dnn handle")
DnnDescriptorNew == Description("BackendDescr", "descriptor")
DnnDescriptorSet == Adjust("BackendDescr")
DnnDescriptorFinalize == Adjust("BackendDescr")
DnnDescriptorGet == Use("BackendDescr", <<Call, Call, Call>>)
DnnExecute == Use("CudnnHandle", <<Call, Call, CallHere>>)
DnnStruct == Struct(TRUE, {"dnn handle"})
DnnDescriptorStruct == Struct(FALSE, {"descriptor"})

(* cuSPARSE: a handle, and matrices described over a buffer's address.     *)
SparseNew == LibraryHandle("CusparseHandle", "sparse handle")
DenseMatrix == New("Buffer", "DnMat", <<Call, Call, Make("dense matrix")>>)
SparseMatrix == New("Buffer", "SpMatCsr", <<Call, Call, Make("sparse matrix")>>)
SparseSizes == Use("CusparseHandle", <<Call, Call, Call>>)
Spmm == Use("CusparseHandle", <<Call, Call, CallHere>>)
Sddmm == Use("CusparseHandle", <<Call, Call, CallHere>>)
SparseStruct == Struct(TRUE, {"sparse handle"})
DenseStruct == Struct(FALSE, {"dense matrix"})
SparseMatrixStruct == Struct(FALSE, {"sparse matrix"})
BufferAlloc == New("Stream", "Buffer", <<Call, Make("memory")>>)
BufferStruct == Struct(TRUE, {"memory"})

(* cuSOLVER: the factorisations and the sizes of their workspaces.         *)
SolverNew == LibraryHandle("CusolverDnHandle", "solver handle")
SolverSingle == Work("CusolverDnHandle")
SolverDouble == Work("CusolverDnHandle")
SolverStruct == Struct(TRUE, {"solver handle"})

(* cuTENSOR: a plan needs an operation and a preference made before it.    *)
TensorNew == LibraryHandle("CutensorHandle", "tensor handle")
TensorDescrNew ==
    New("CutensorHandle", "TensorDescr", <<Call, Call, Make("tensor")>>)
ContractBuild ==
    New("CutensorHandle", "Contract",
        <<Call, Call, Make("operation"), Make("plan preference"), Call,
          Make("plan")>>)
ContractRun == Work("Contract")
TensorStruct == Struct(TRUE, {"tensor handle"})
TensorDescrStruct == Struct(TRUE, {"tensor"})
ContractStruct == Struct(TRUE, {"operation", "plan preference", "plan"})

(* cuFFT: the plan is made, then given its stream.                         *)
FftPlan1d == New("Stream", "FftPlan", <<Call, MakeHere("plan"), Call>>)
FftPlanMany == New("Stream", "FftPlan", <<Call, MakeHere("plan"), Call>>)
FftExec == Use("FftPlan", <<Call, Call, CallHere>>)
FftStruct == Struct(TRUE, {"plan"})

(* cuRAND: the generator is made, given its stream, then its seed.         *)
RngWithType ==
    New("Device", "Rng", <<Bind, Call, MakeHere("generator"), Call, Call>>)
RngSet == Adjust("Rng")
RngFill == Work("Rng")
RngStruct == Struct(FALSE, {"generator"})

(* NCCL: the communicators of two devices are made inside a group, which   *)
(* only ncclGroupEnd closes.                                               *)
FromDevices ==
    New("Device", "CommGroup",
        <<Call, Call, Make("group"),
          Bind, MakeHere("comm 1"), Own("comm 1"),
          BindOther, Make("comm 2"), Own("comm 2"),
          Free("group"), Call>>)
FromRank == New("Device", "RankGroup", <<Call, Bind, MakeHere("comm 1")>>)
AllReduce == Use("RankGroup", <<Call, Call, Bind, Call, CallHere>>)
Gather == Use("RankGroup", <<Call, Call, Bind, Call, CallHere>>)

(* The closure may return an error, which waits for the end of the group,  *)
(* or panic, which does not.                                               *)
Grouped ==
    LET Closure == Call
    IN  Use("RankGroup", <<Call, Make("group"), Closure, Free("group"), Call, Call>>)

CommStruct == Struct(TRUE, {"comm 1", "comm 2"})
RankStruct == Struct(TRUE, {"comm 1"})

LibraryOps ==
    [BlasNew |-> BlasNew, MatmulDescNew |-> MatmulDescNew,
     MatmulDescSet |-> MatmulDescSet, MatrixLayoutNew |-> MatrixLayoutNew,
     MatrixLayoutSet |-> MatrixLayoutSet, PreferenceNew |-> PreferenceNew,
     PreferenceSet |-> PreferenceSet, BlasHeuristic |-> BlasHeuristic,
     BlasMatmul |-> BlasMatmul, DnnNew |-> DnnNew,
     DnnDescriptorNew |-> DnnDescriptorNew,
     DnnDescriptorSet |-> DnnDescriptorSet,
     DnnDescriptorFinalize |-> DnnDescriptorFinalize,
     DnnDescriptorGet |-> DnnDescriptorGet, DnnExecute |-> DnnExecute,
     SparseNew |-> SparseNew, DenseMatrix |-> DenseMatrix,
     SparseMatrix |-> SparseMatrix, SparseSizes |-> SparseSizes,
     Spmm |-> Spmm, Sddmm |-> Sddmm, BufferAlloc |-> BufferAlloc,
     SolverNew |-> SolverNew, SolverSingle |-> SolverSingle,
     SolverDouble |-> SolverDouble, TensorNew |-> TensorNew,
     TensorDescrNew |-> TensorDescrNew, ContractBuild |-> ContractBuild,
     ContractRun |-> ContractRun, FftPlan1d |-> FftPlan1d,
     FftPlanMany |-> FftPlanMany, FftExec |-> FftExec,
     RngWithType |-> RngWithType, RngSet |-> RngSet, RngFill |-> RngFill,
     FromDevices |-> FromDevices, FromRank |-> FromRank,
     AllReduce |-> AllReduce, Gather |-> Gather, Grouped |-> Grouped]

LibraryTypes ==
    [BlasLt |-> BlasStruct, MatmulDesc |-> MatmulDescStruct,
     MatrixLayout |-> MatrixLayoutStruct, Preference |-> PreferenceStruct,
     CudnnHandle |-> DnnStruct, BackendDescr |-> DnnDescriptorStruct,
     CusparseHandle |-> SparseStruct, DnMat |-> DenseStruct,
     SpMatCsr |-> SparseMatrixStruct, Buffer |-> BufferStruct,
     CusolverDnHandle |-> SolverStruct, CutensorHandle |-> TensorStruct,
     TensorDescr |-> TensorDescrStruct, Contract |-> ContractStruct,
     FftPlan |-> FftStruct, Rng |-> RngStruct, CommGroup |-> CommStruct,
     RankGroup |-> RankStruct]

===============================================================================
