------------------------- MODULE MC_ComputeDevices --------------------------
(***************************************************************************)
(* Instances of ComputeDevices for TLC.  A Vulkan or a Metal context can   *)
(* be shared by threads, the others have one caller; two threads share     *)
(* Metal's in the run that passes, and Vulkan's in                         *)
(* MC_ComputeDevicesShared.cfg.  The driver calls in                       *)
(* SafeFailures fail in the run that passes: after any other failure the   *)
(* code returns with its work at the GPU or still in the list.             *)
(***************************************************************************)
EXTENDS ComputeDevices, TLC

CONSTANTS c1, c2

AllApis == {"vulkan", "dx12", "levelzero", "metal", "opengl"}
OneOrShared == [a \in AllApis |-> IF a = "metal" THEN {c1, c2} ELSE {c1}]

SafeFailures ==
  {"vulkan"} \X {"alloc", "record", "submit", "read"}
    \cup {"dx12"} \X {"alloc", "begin", "close", "read"}
    \cup {"levelzero"} \X {"alloc", "append", "submit", "reset"}
    \cup {"metal", "opengl"} \X {"alloc"}

VulkanOnly == {"vulkan"}
SharedVulkan == [a \in VulkanOnly |-> {c1, c2}]
=============================================================================
