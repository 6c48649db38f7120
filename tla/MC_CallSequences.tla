-------------------------- MODULE MC_CallSequences --------------------------
(* Every operation of the three tables.                                    *)
EXTENDS CallSequences, CudaCalls, LibraryCalls, VendorCalls, TLC

AllOps == CudaOps @@ LibraryOps @@ VendorOps
AllTypes == CudaTypes @@ LibraryTypes @@ VendorTypes

(* What the source leaves behind when a step fails (README, Findings).     *)
LeakyOps ==
    {"StageRing", "CaptureEnd", "VirtualMap", "MulticastNew", "GreenStream",
     "NvrtcCompile", "ContractBuild", "FftPlan1d", "FftPlanMany",
     "RngWithType", "FromDevices", "Grouped", "VkContextNew",
     "VkBufferAlloc", "WithBindings", "RunCommands"}

(* The operations that work in whatever context the thread has.            *)
UnboundOps ==
    {"EventNew", "StageRing", "FftPlan1d", "FftPlanMany", "FftExec",
     "BlasMatmul", "DnnExecute", "Spmm", "Sddmm", "SolverSingle",
     "SolverDouble", "ContractRun", "RngFill", "HipMatmul"}

(* The types without a field that keeps what they were made on.            *)
OrphanTypes ==
    {"CapturedGraph", "Rng", "DnMat", "SpMatCsr", "GreenStream", "VkBuffer",
     "VkPipeline", "ZeBuffer", "ZeModule", "ZeKernel", "ZePipeline"}

(* The types whose values keep the device of their line alive: all but the *)
(* orphans and what is made on one.                                        *)
RootTypes == DOMAIN AllTypes \ (OrphanTypes \cup {"GraphExec"})

(* The hypotheses of the theorems about the three properties, of every     *)
(* operation of the tables; the exceptions listed above are no more than   *)
(* there are.                                                              *)
TablesFit ==
    /\ \A n \in DOMAIN Ops : n \in Leaky <=> ~Tidy(Ops[n])
    /\ \A n \in DOMAIN Ops : n \in Unbound <=> ~BindsFirst(Ops[n], RootTypes)
    /\ KeepTheRoot(RootTypes) /\ RootTypes \subseteq DOMAIN Types \ {"nothing"}
    /\ KeptOrOrphan

=============================================================================
