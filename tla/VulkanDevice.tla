---------------------------- MODULE VulkanDevice ----------------------------
(***************************************************************************)
(* The Vulkan implementation of ComputeDevice (ironaccelerator-vulkan/src/ *)
(* compute.rs).  Every submitting call goes through run_commands: a new    *)
(* command buffer, recorded, submitted and waited for with                 *)
(* vkQueueWaitIdle.  A call that fails leaves its command buffer in the    *)
(* pool.  A dispatch writes the pipeline's one descriptor set first.       *)
(***************************************************************************)
EXTENDS GpuWork

\* Buffer::host_visible and write_bytes; for a download the buffer to copy into.
Stage(t) ==
  /\ pc[t] = "alloc" /\ Staged(call[t])
  /\ \/ /\ staging' = [staging EXCEPT ![t] =
                         IF call[t].op = "upload" THEN Fresh(call[t].arg) ELSE Fresh(Uninit)]
        /\ Goto(t, "record")
        /\ UNCHANGED <<api, call, mem, queue, list, bound, fence, landed, result, made>>
     \/ Fails(t, "alloc")

\* bind_buffers: vkUpdateDescriptorSets.
Bind(t) ==
  /\ pc[t] = "alloc" /\ call[t].op = "dispatch"
  /\ bound' = [bound EXCEPT ![call[t].arg] = call[t].buf]
  /\ Goto(t, "record")
  /\ UNCHANGED <<api, call, mem, staging, queue, list, fence, landed, result, made>>

\* vkAllocateCommandBuffers, vkBeginCommandBuffer, the recording and
\* vkEndCommandBuffer: the command buffer is this call's alone.
Record(t) ==
  /\ pc[t] = "record"
  /\ \/ /\ Goto(t, "submit")
        /\ UNCHANGED <<api, call, mem, staging, queue, list, bound, fence, landed, result, made>>
     \/ Fails(t, "record")

QueueSubmit(t) ==
  /\ pc[t] = "submit"
  /\ \/ /\ queue' = Append(queue, Work(t))
        /\ Goto(t, "wait")
        /\ UNCHANGED <<api, call, mem, staging, list, bound, fence, landed, result, made>>
     \/ Fails(t, "submit")

\* Mutant: run_commands does not wait.
NoWait(t) ==
  /\ pc[t] = "wait"
  /\ Goto(t, IF call[t].op = "download" THEN "read" ELSE "done")
  /\ UNCHANGED <<api, call, mem, staging, queue, list, bound, fence, landed, result, made>>

\* vkQueueWaitIdle waits for all work of the queue, or fails before.
WaitIdle(t) ==
  /\ pc[t] = "wait"
  /\ \/ /\ queue = <<>>
        /\ Goto(t, IF call[t].op = "download" THEN "read" ELSE "done")
        /\ UNCHANGED <<api, call, mem, staging, queue, list, bound, fence, landed, result, made>>
     \/ Fails(t, "wait")

\* The return; a download maps its staging buffer before.
Finish(t) ==
  /\ pc[t] \in {"read", "done"}
  /\ \/ End(t, TRUE) /\ UNCHANGED list
     \/ pc[t] = "read" /\ Fails(t, "read")

CallStep(t) ==
  DeviceBuffer(t) \/ Stage(t) \/ Bind(t) \/ Record(t) \/ QueueSubmit(t) \/ WaitIdle(t) \/ Finish(t)
=============================================================================
