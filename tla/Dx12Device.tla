----------------------------- MODULE Dx12Device -----------------------------
(***************************************************************************)
(* The Direct3D 12 implementation of ComputeDevice (ironaccelerator-dx12/  *)
(* src/compute.rs).  The context has one command list and one allocator,   *)
(* reset at the beginning of each call, and a fence: end_and_wait submits  *)
(* the list, has the queue signal the next value and spins until the fence *)
(* has reached it.  The context is Send and not Sync: one caller.          *)
(***************************************************************************)
EXTENDS GpuWork

\* upload_buffer or readback_buffer, write, and for an upload device_buffer.
Stage(t) ==
  /\ pc[t] = "alloc" /\ Staged(call[t])
  /\ \/ /\ staging' = [staging EXCEPT ![t] =
                         IF call[t].op = "upload" THEN Fresh(call[t].arg) ELSE Fresh(Uninit)]
        /\ Goto(t, "begin")
        /\ UNCHANGED <<api, call, mem, queue, list, bound, fence, landed, result, made>>
     \/ Fails(t, "alloc")

\* A dispatch stages nothing.
ToRecord(t) == pc[t] = "begin" \/ (pc[t] = "alloc" /\ call[t].op = "dispatch")

\* begin: Reset of the allocator, refused while the list records, and of the list.
BeginList(t) ==
  /\ ToRecord(t)
  /\ \/ /\ ~list.open
        /\ list' = [open |-> TRUE, works |-> <<>>]
        /\ Goto(t, "record")
        /\ UNCHANGED <<api, call, mem, staging, queue, bound, fence, landed, result, made>>
     \/ list.open /\ End(t, FALSE) /\ UNCHANGED list
     \/ Fails(t, "begin")

\* Barriers, the copy or the dispatch with its root UAVs: no call that can fail.
Record(t) ==
  /\ pc[t] = "record"
  /\ list' = [list EXCEPT !.works = Append(@, Work(t))]
  /\ Goto(t, "close")
  /\ UNCHANGED <<api, call, mem, staging, queue, bound, fence, landed, result, made>>

\* A Close that fails leaves the list recording.
Close(t) ==
  /\ pc[t] = "close"
  /\ \/ /\ list' = [list EXCEPT !.open = FALSE]
        /\ Goto(t, "submit")
        /\ UNCHANGED <<api, call, mem, staging, queue, bound, fence, landed, result, made>>
     \/ Fails(t, "close")

ExecuteCommandLists(t) ==
  /\ pc[t] = "submit"
  /\ queue' = queue \o list.works
  /\ Goto(t, "signal")
  /\ UNCHANGED <<api, call, mem, staging, list, bound, fence, landed, result, made>>

\* Mutant: the queue signals the last value, the host waits for the next.
SignalLast(t) ==
  /\ pc[t] = "signal"
  /\ queue' = Append(queue, [by |-> t, call |-> None, signal |-> fence.next - 1])
  /\ fence' = [fence EXCEPT !.next = @ + 1]
  /\ Goto(t, "wait")
  /\ UNCHANGED <<api, call, mem, staging, list, bound, landed, result, made>>

\* The value is taken before Signal is known to have succeeded.
Signal(t) ==
  /\ pc[t] = "signal"
  /\ \/ /\ queue' = Append(queue, [by |-> t, call |-> None, signal |-> fence.next])
        /\ fence' = [fence EXCEPT !.next = @ + 1]
        /\ Goto(t, "wait")
        /\ UNCHANGED <<api, call, mem, staging, list, bound, landed, result, made>>
     \/ /\ CanFail("signal")
        /\ fence' = [fence EXCEPT !.next = @ + 1]
        /\ Goto(t, "failed")
        /\ UNCHANGED <<api, call, mem, staging, queue, list, bound, landed, result, made>>

\* Mutant: the value to wait for is read after it was increased.
SpinWaitNext(t) ==
  /\ pc[t] = "wait"
  /\ fence.done >= fence.next
  /\ Goto(t, IF call[t].op = "download" THEN "read" ELSE "done")
  /\ UNCHANGED <<api, call, mem, staging, queue, list, bound, fence, landed, result, made>>

\* Spins until the completed value is the one it had signalled.  That of a
\* device that has been removed is UINT64_MAX.
SpinWait(t) ==
  /\ pc[t] = "wait"
  /\ fence.done >= fence.next - 1 \/ CanFail("device")
  /\ Goto(t, IF call[t].op = "download" THEN "read" ELSE "done")
  /\ UNCHANGED <<api, call, mem, staging, queue, list, bound, fence, landed, result, made>>

Finish(t) ==
  /\ pc[t] \in {"read", "done", "failed"}
  /\ \/ End(t, pc[t] # "failed") /\ UNCHANGED list
     \/ pc[t] = "read" /\ Fails(t, "read")

CallStep(t) ==
  \/ DeviceBuffer(t) \/ Stage(t) \/ BeginList(t) \/ Record(t) \/ Close(t)
  \/ ExecuteCommandLists(t) \/ Signal(t) \/ SpinWait(t) \/ Finish(t)
=============================================================================
