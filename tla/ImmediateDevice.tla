-------------------------- MODULE ImmediateDevice ---------------------------
(***************************************************************************)
(* The Metal and OpenGL implementations of ComputeDevice                   *)
(* (ironaccelerator-metal/src, ironaccelerator-opengl/src/compute.rs).     *)
(* Metal: buffers are shared storage the host copies in and out of, and a  *)
(* dispatch is a command buffer of its own, committed and waited for; the  *)
(* context may be shared by threads.  OpenGL: the calls are commands of    *)
(* one stream, in which the driver keeps the order; a dispatch returns     *)
(* without waiting, a download waits for what was issued before it.        *)
(***************************************************************************)
EXTENDS GpuWork

Metal(t) == api = "metal" /\ pc[t] = "alloc"
OpenGL(t) == api = "opengl" /\ pc[t] = "alloc"

\* The host's copy; only the upload's new_buffer can fail.
HostCopy(t) ==
  /\ Metal(t) /\ Staged(call[t])
  /\ \/ LET b == call[t].buf IN
        /\ mem' = IF call[t].op = "upload" THEN [mem EXCEPT ![b] = Fresh(call[t].arg)] ELSE mem
        /\ staging' = [staging EXCEPT ![t] = IF call[t].op = "download" THEN mem[b] ELSE None]
        /\ landed' = landed \cup {t}
        /\ Goto(t, "done")
        /\ UNCHANGED <<api, call, queue, list, bound, fence, result, made>>
     \/ call[t].op = "upload" /\ Fails(t, "alloc")

\* Queue::scope: encode and commit.
Commit(t) ==
  /\ Metal(t) /\ call[t].op = "dispatch"
  /\ queue' = Append(queue, Work(t))
  /\ Goto(t, "wait")
  /\ UNCHANGED <<api, call, mem, staging, list, bound, fence, landed, result, made>>

\* wait_until_completed: of this command buffer.  One that ended in an error
\* has completed too; its status is not read.
WaitUntilCompleted(t) ==
  /\ pc[t] = "wait" /\ (t \in landed \/ CanFail("device"))
  /\ Goto(t, "done")
  /\ UNCHANGED <<api, call, mem, staging, queue, list, bound, fence, landed, result, made>>

\* glBufferData with the caller's bytes, or the binding of the buffers and
\* glDispatchCompute: the command is in the stream and the call over.
Issue(t) ==
  /\ OpenGL(t) /\ call[t].op \in {"upload", "dispatch"}
  /\ \/ /\ queue' = Append(queue, Work(t))
        /\ landed' = landed \cup {t}
        /\ Goto(t, "done")
        /\ UNCHANGED <<api, call, mem, staging, list, bound, fence, result, made>>
     \/ call[t].op = "upload" /\ Fails(t, "alloc")

\* read_bytes: glGetBufferSubData.  The barrier of the dispatch before is not
\* one for buffer updates, and a shader's writes may not be seen.
ReadBytes(t) ==
  /\ OpenGL(t) /\ call[t].op = "download"
  /\ queue = <<>>
  /\ LET b == call[t].buf IN
     \/ staging' = [staging EXCEPT ![t] = mem[b]]
     \/ CanFail("coherence") /\ staging' = [staging EXCEPT ![t] = Fresh(mem[b].data)]
  /\ landed' = landed \cup {t}
  /\ Goto(t, "done")
  /\ UNCHANGED <<api, call, mem, queue, list, bound, fence, result, made>>

Finish(t) == pc[t] = "done" /\ End(t, TRUE) /\ UNCHANGED list

CallStep(t) ==
  \/ DeviceBuffer(t) \/ HostCopy(t) \/ Commit(t) \/ WaitUntilCompleted(t)
  \/ Issue(t) \/ ReadBytes(t) \/ Finish(t)
=============================================================================
