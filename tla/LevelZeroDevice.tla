-------------------------- MODULE LevelZeroDevice ---------------------------
(***************************************************************************)
(* The Level Zero implementation of ComputeDevice                          *)
(* (ironaccelerator-levelzero/src/compute.rs).  Buffers are shared USM, so *)
(* an upload or a download is a copy by the host.  A dispatch appends to   *)
(* the context's one command list, closes it, executes it, synchronizes    *)
(* the queue and resets the list; an error in between returns at once and  *)
(* leaves the list as it is.  The context is neither Send nor Sync.        *)
(***************************************************************************)
EXTENDS GpuWork

\* upload: alloc_shared and a copy; download: a copy.
HostCopy(t) ==
  /\ pc[t] = "alloc" /\ Staged(call[t])
  /\ \/ LET b == call[t].buf IN
        /\ mem' = IF call[t].op = "upload" THEN [mem EXCEPT ![b] = Fresh(call[t].arg)] ELSE mem
        /\ staging' = [staging EXCEPT ![t] = IF call[t].op = "download" THEN mem[b] ELSE None]
        /\ landed' = landed \cup {t}
        /\ Goto(t, "done")
        /\ UNCHANGED <<api, call, queue, list, bound, fence, result, made>>
     \/ call[t].op = "upload" /\ Fails(t, "alloc")

\* zeKernelSetGroupSize, zeKernelSetArgumentValue and
\* zeCommandListAppendLaunchKernel, which takes the arguments as they are set
\* now.  A closed list takes no commands.
AppendLaunchKernel(t) ==
  /\ pc[t] = "alloc" /\ call[t].op = "dispatch"
  /\ \/ /\ list.open
        /\ list' = [list EXCEPT !.works = Append(@, Work(t))]
        /\ Goto(t, "close")
        /\ UNCHANGED <<api, call, mem, staging, queue, bound, fence, landed, result, made>>
     \/ ~list.open /\ End(t, FALSE) /\ UNCHANGED list
     \/ Fails(t, "append")

Close(t) ==
  /\ pc[t] = "close"
  /\ \/ /\ list' = [list EXCEPT !.open = FALSE]
        /\ Goto(t, "submit")
        /\ UNCHANGED <<api, call, mem, staging, queue, bound, fence, landed, result, made>>
     \/ Fails(t, "close")

ExecuteCommandLists(t) ==
  /\ pc[t] = "submit"
  /\ \/ /\ queue' = queue \o list.works
        /\ Goto(t, "wait")
        /\ UNCHANGED <<api, call, mem, staging, list, bound, fence, landed, result, made>>
     \/ Fails(t, "submit")

Synchronize(t) ==
  /\ pc[t] = "wait"
  /\ \/ /\ queue = <<>>
        /\ Goto(t, "reset")
        /\ UNCHANGED <<api, call, mem, staging, queue, list, bound, fence, landed, result, made>>
     \/ Fails(t, "wait")

\* Mutant: the list is opened again with its commands.
ResetKept(t) ==
  /\ pc[t] = "reset"
  /\ list' = [list EXCEPT !.open = TRUE]
  /\ End(t, TRUE)

\* The result of zeCommandListReset is ignored.
Reset(t) ==
  /\ pc[t] = "reset"
  /\ \/ list' = [open |-> TRUE, works |-> <<>>]
     \/ CanFail("reset") /\ UNCHANGED list
  /\ End(t, TRUE)

Finish(t) == pc[t] = "done" /\ End(t, TRUE) /\ UNCHANGED list

CallStep(t) ==
  \/ DeviceBuffer(t) \/ HostCopy(t) \/ AppendLaunchKernel(t) \/ Close(t)
  \/ ExecuteCommandLists(t) \/ Synchronize(t) \/ Reset(t) \/ Finish(t)
=============================================================================
