----------------------------- MODULE StagedCopy -----------------------------
(***************************************************************************)
(* Host-to-device copies on one CUDA stream (ironaccelerator-cuda/src/     *)
(* drv.rs: Stream, StageRing and the copy methods of DeviceBuf).           *)
(*                                                                         *)
(* A large pageable source is copied chunk by chunk into a ring of pinned  *)
(* slots, and the GPU reads each slot later, in stream order.  Nothing but *)
(* an event per slot keeps the host from overwriting a slot the GPU has    *)
(* not read.  The blocking copies do not go through the stream at all:     *)
(* only a drain orders them after what the stream still has to do.         *)
(*                                                                         *)
(* Each caller is a thread with one DeviceBuf (the methods take &mut self, *)
(* so no two threads write one buffer); the stream and its ring are shared.*)
(* The GPU runs the stream's commands one at a time, in order, whenever it *)
(* likes.  Data is a record saying whose call produced which chunk.        *)
(***************************************************************************)
EXTENDS Integers, Sequences

CONSTANTS
  Callers,   \* threads, each with a DeviceBuf of its own
  NSlots,    \* STAGE_SLOTS
  Chunks,    \* chunks of STAGE_CHUNK bytes in a buffer
  MaxCalls,  \* bound: writing calls of one caller
  MayFail,   \* the places of the code whose driver call may return an error
  NoCaller, NoSlot, Blank, Torn

Slots == 0 .. NSlots - 1
Chunk == 1 .. Chunks
Data == [buf : Callers, chunk : Chunk, call : 1 .. MaxCalls]

ASSUME StagedAssumption ==
  /\ NSlots \in Nat \ {0} /\ Chunks \in Nat \ {0} /\ MaxCalls \in Nat
  /\ NoCaller \notin Callers /\ NoSlot \notin Slots
  /\ Blank \notin Data /\ Torn \notin Data

VARIABLES
  stream,    \* "open", then the steps of its Drop: "draining", "destroyed", "freed"
  legacy,    \* legacy_ordered: created without CU_STREAM_NON_BLOCKING
  queue,     \* commands the GPU has still to run: the data meant, the slot read
  dev,       \* dev[c][k]: chunk k of caller c's device buffer
  ready,     \* the OnceCell holds the ring
  slot,      \* slot[s]: what pinned slot s holds
  armed,     \* armed[s]: the event of slot s is recorded and not waited on
  event,     \* event[s]: commands still to run before the event of s fires
  cursor,    \* the next slot
  lock,      \* holder of the ring's mutex
  pc, op,    \* where a caller is, and in which call
  off,       \* chunks the call has enqueued
  ahead,     \* commands a synchronizing caller still waits for
  calls,     \* writing calls made so far
  expected   \* what the calls made so far, in order, put in each buffer

ringVars == <<ready, slot, armed, event, cursor, lock>>
vars == <<stream, legacy, queue, dev, ringVars, pc, op, off, ahead, calls, expected>>

Init ==
  /\ stream = "open" /\ legacy \in BOOLEAN
  /\ queue = <<>>
  /\ dev = [c \in Callers |-> [k \in Chunk |-> Blank]]
  /\ expected = dev
  /\ ready = FALSE
  /\ slot = [s \in Slots |-> Blank]
  /\ armed = [s \in Slots |-> FALSE]
  /\ event = [s \in Slots |-> 0]
  /\ cursor = 0
  /\ lock = NoCaller
  /\ pc = [c \in Callers |-> "idle"]
  /\ op = [c \in Callers |-> "none"]
  /\ off = [c \in Callers |-> 0]
  /\ ahead = [c \in Callers |-> 0]
  /\ calls = [c \in Callers |-> 0]

(***************************************************************************)
(* The GPU.                                                                *)
(***************************************************************************)
CountDown(n) == IF n > 0 THEN n - 1 ELSE 0

Carried(cmd) == IF cmd.from = NoSlot THEN cmd.data ELSE slot[cmd.from]

\* The stream's oldest command runs; a DMA carries what its slot holds now.
GpuStep ==
  /\ queue # <<>>
  /\ LET d == Head(queue).data
     IN dev' = [dev EXCEPT ![d.buf][d.chunk] = Carried(Head(queue))]
  /\ queue' = Tail(queue)
  /\ event' = [s \in Slots |-> CountDown(event[s])]
  /\ ahead' = [c \in Callers |-> CountDown(ahead[c])]
  /\ UNCHANGED <<stream, legacy, ready, slot, armed, cursor, lock, pc, op, off, calls, expected>>

(***************************************************************************)
(* Calls.                                                                  *)
(***************************************************************************)
Goto(c, place) == pc' = [pc EXCEPT ![c] = place]

Calling(c, kind, place) ==
  /\ stream = "open" /\ pc[c] = "idle"
  /\ Goto(c, place)
  /\ op' = [op EXCEPT ![c] = kind]

Counted(c) ==
  /\ calls[c] < MaxCalls
  /\ calls' = [calls EXCEPT ![c] = @ + 1]

\* Mutant: the guard outlives the call.
ReturnHoldingLock(c) ==
  /\ Goto(c, "idle")
  /\ op' = [op EXCEPT ![c] = "none"]
  /\ off' = [off EXCEPT ![c] = 0]
  /\ ahead' = [ahead EXCEPT ![c] = 0]
  /\ UNCHANGED lock

\* The call is left, by its end or by a ?: the mutex guard is dropped.
Return(c) ==
  /\ Goto(c, "idle")
  /\ op' = [op EXCEPT ![c] = "none"]
  /\ off' = [off EXCEPT ![c] = 0]
  /\ ahead' = [ahead EXCEPT ![c] = 0]
  /\ lock' = IF lock = c THEN NoCaller ELSE lock

Written(c, k, n) == [buf |-> c, chunk |-> k, call |-> n]

Enqueue(d, s) ==
  /\ queue' = Append(queue, [data |-> d, from |-> s])
  /\ expected' = [expected EXCEPT ![d.buf][d.chunk] = d]

\* A memset, a kernel or a copy below the staging threshold puts chunk k on
\* the stream (cuMemcpyHtoDAsync has consumed a pageable source on return).
AsyncWrite(c, k) ==
  /\ stream = "open" /\ pc[c] = "idle"
  /\ Counted(c)
  /\ Enqueue(Written(c, k, calls[c] + 1), NoSlot)
  /\ UNCHANGED <<stream, legacy, dev, ringVars, pc, op, off, ahead>>

(***************************************************************************)
(* The staged copy: copy_from_host ("async") or copy_from_host_sync        *)
(* ("sync") of a buffer above the threshold.                               *)
(***************************************************************************)
StagedCall(c, kind) ==
  /\ Calling(c, kind, "ring")
  /\ Counted(c)
  /\ UNCHANGED <<stream, legacy, queue, dev, ringVars, off, ahead, expected>>

\* stage_ring: the OnceCell runs the allocations once.
StageRing(c) ==
  /\ pc[c] = "ring"
  /\ ready' = TRUE
  /\ Goto(c, "lock")
  /\ UNCHANGED <<stream, legacy, queue, dev, slot, armed, event, cursor, lock,
                 op, off, ahead, calls, expected>>

LockRing(c) ==
  /\ pc[c] = "lock" /\ lock = NoCaller
  /\ lock' = c
  /\ Goto(c, "chunk")
  /\ UNCHANGED <<stream, legacy, queue, dev, ready, slot, armed, event, cursor,
                 op, off, ahead, calls, expected>>

Filling(c) ==
  /\ Goto(c, "copying")
  /\ slot' = [slot EXCEPT ![cursor] = Torn]

\* Mutant: the armed flag is not looked at.
NextChunkUnguarded(c) ==
  /\ pc[c] = "chunk" /\ off[c] < Chunks
  /\ Filling(c)
  /\ UNCHANGED <<stream, legacy, queue, dev, ready, armed, event, cursor, lock,
                 op, off, ahead, calls, expected>>

NextChunk(c) ==
  /\ pc[c] = "chunk" /\ off[c] < Chunks
  /\ \/ armed[cursor] /\ Goto(c, "wait") /\ UNCHANGED slot
     \/ ~armed[cursor] /\ Filling(c)
  /\ UNCHANGED <<stream, legacy, queue, dev, ready, armed, event, cursor, lock,
                 op, off, ahead, calls, expected>>

\* cuEventSynchronize returned.
SlotDrained(c) ==
  /\ pc[c] = "wait" /\ event[cursor] = 0
  /\ armed' = [armed EXCEPT ![cursor] = FALSE]
  /\ Filling(c)
  /\ UNCHANGED <<stream, legacy, queue, dev, ready, event, cursor, lock,
                 op, off, ahead, calls, expected>>

WideCopyDone(c) ==
  /\ pc[c] = "copying"
  /\ slot' = [slot EXCEPT ![cursor] = Written(c, off[c] + 1, calls[c])]
  /\ Goto(c, "enqueue")
  /\ UNCHANGED <<stream, legacy, queue, dev, ready, armed, event, cursor, lock,
                 op, off, ahead, calls, expected>>

EnqueueChunk(c) ==
  /\ pc[c] = "enqueue"
  /\ Enqueue(Written(c, off[c] + 1, calls[c]), cursor)
  /\ Goto(c, "record")
  /\ UNCHANGED <<stream, legacy, dev, ringVars, op, off, ahead, calls>>

\* The code counts on and takes the cursor modulo STAGE_SLOTS.
After(s) == (s + 1) % NSlots

RecordEvent(c) ==
  /\ pc[c] = "record"
  /\ event' = [event EXCEPT ![cursor] = Len(queue)]
  /\ armed' = [armed EXCEPT ![cursor] = TRUE]
  /\ cursor' = After(cursor)
  /\ off' = [off EXCEPT ![c] = @ + 1]
  /\ Goto(c, "chunk")
  /\ UNCHANGED <<stream, legacy, queue, dev, ready, slot, lock, op, ahead, calls, expected>>

\* All chunks are on the stream.
StagedReturn(c) ==
  /\ pc[c] = "chunk" /\ off[c] = Chunks
  /\ op[c] = "async"
  /\ Return(c)
  /\ UNCHANGED <<stream, legacy, queue, dev, ready, slot, armed, event, cursor, calls, expected>>

\* Mutant: it returns as the asynchronous copy does, waiting for nothing.
StagedSyncUnordered(c) ==
  /\ pc[c] = "chunk" /\ off[c] = Chunks
  /\ op[c] = "sync"
  /\ lock' = NoCaller
  /\ Goto(c, "synchronize")
  /\ UNCHANGED <<stream, legacy, queue, dev, ready, slot, armed, event, cursor,
                 op, off, ahead, calls, expected>>

\* copy_from_host_sync goes on to Stream::synchronize.
StagedSync(c) ==
  /\ pc[c] = "chunk" /\ off[c] = Chunks
  /\ op[c] = "sync"
  /\ lock' = NoCaller
  /\ ahead' = [ahead EXCEPT ![c] = Len(queue)]
  /\ Goto(c, "synchronize")
  /\ UNCHANGED <<stream, legacy, queue, dev, ready, slot, armed, event, cursor,
                 op, off, calls, expected>>

Synchronized(c) ==
  /\ pc[c] = "synchronize" /\ ahead[c] = 0
  /\ Return(c)
  /\ UNCHANGED <<stream, legacy, queue, dev, ready, slot, armed, event, cursor, calls, expected>>

(***************************************************************************)
(* The blocking copies, outside the stream: copy_from_host_blocking        *)
(* ("write") and copy_to_host_blocking ("read").  A non-blocking stream is *)
(* drained first; for a legacy-ordered one the driver's copy itself waits  *)
(* for what the stream held when it was called.                            *)
(***************************************************************************)
\* Mutant: every stream is taken to be legacy-ordered, none is drained.
BlockingCallUndrained(c, kind) ==
  /\ Calling(c, kind, "transfer")
  /\ ahead' = [ahead EXCEPT ![c] = Len(queue)]
  /\ IF kind = "write" THEN Counted(c) ELSE UNCHANGED calls
  /\ UNCHANGED <<stream, legacy, queue, dev, ringVars, off, expected>>

BlockingCall(c, kind) ==
  /\ Calling(c, kind, IF legacy THEN "transfer" ELSE "drain")
  /\ ahead' = [ahead EXCEPT ![c] = Len(queue)]
  /\ IF kind = "write" THEN Counted(c) ELSE UNCHANGED calls
  /\ UNCHANGED <<stream, legacy, queue, dev, ringVars, off, expected>>

Drained(c) ==
  /\ pc[c] = "drain" /\ ahead[c] = 0
  /\ Goto(c, "transfer")
  /\ UNCHANGED <<stream, legacy, queue, dev, ringVars, op, off, ahead, calls, expected>>

Ordered(c) == pc[c] = "transfer" /\ (legacy => ahead[c] = 0)

Contents(c) == [k \in Chunk |-> Written(c, k, calls[c])]

Transfer(c) ==
  /\ Ordered(c)
  /\ IF op[c] = "write"
       THEN /\ dev' = [dev EXCEPT ![c] = Contents(c)]
            /\ expected' = [expected EXCEPT ![c] = Contents(c)]
       ELSE UNCHANGED <<dev, expected>>
  /\ Return(c)
  /\ UNCHANGED <<stream, legacy, queue, ready, slot, armed, event, cursor, calls>>

(***************************************************************************)
(* A driver call returns an error, and the ? leaves the call there.        *)
(***************************************************************************)
Fail(c) ==
  /\ pc[c] \in MayFail
  /\ pc[c] = "ring" => ~ready
  /\ Return(c)
  /\ UNCHANGED <<stream, legacy, queue, dev, ready, slot, armed, event, cursor, calls, expected>>

(***************************************************************************)
(* Drop of the Stream: every DeviceBuf holds it, so no call is under way.  *)
(***************************************************************************)
Close ==
  /\ stream = "open" /\ \A c \in Callers : pc[c] = "idle"
  /\ stream' = IF ready THEN "draining" ELSE "destroyed"
  /\ UNCHANGED <<legacy, queue, dev, ringVars, pc, op, off, ahead, calls, expected>>

\* The result of this synchronize is discarded.
CloseDrained ==
  /\ stream = "draining" /\ (queue = <<>> \/ "close" \in MayFail)
  /\ stream' = "destroyed"
  /\ UNCHANGED <<legacy, queue, dev, ringVars, pc, op, off, ahead, calls, expected>>

FreeRing ==
  /\ stream = "destroyed"
  /\ stream' = "freed"
  /\ slot' = [s \in Slots |-> Torn]
  /\ UNCHANGED <<legacy, queue, dev, ready, armed, event, cursor, lock,
                 pc, op, off, ahead, calls, expected>>

\* Nothing is left to do.
Finished == stream = "freed" /\ queue = <<>> /\ UNCHANGED vars

Step(c) ==
  \/ StageRing(c) \/ LockRing(c) \/ NextChunk(c) \/ SlotDrained(c)
  \/ WideCopyDone(c) \/ EnqueueChunk(c) \/ RecordEvent(c)
  \/ StagedReturn(c) \/ StagedSync(c) \/ Synchronized(c)
  \/ Drained(c) \/ Transfer(c)

Next ==
  \/ GpuStep
  \/ \E c \in Callers :
       \/ \E k \in Chunk : AsyncWrite(c, k)
       \/ \E kind \in {"async", "sync"} : StagedCall(c, kind)
       \/ \E kind \in {"write", "read"} : BlockingCall(c, kind)
       \/ Step(c)
       \/ Fail(c)
  \/ Close \/ CloseDrained \/ FreeRing \/ Finished

Spec == Init /\ [][Next]_vars

(***************************************************************************)
(* The GPU runs what it is given, a thread inside a call runs, and         *)
(* parking_lot's mutex is eventually fair.                                 *)
(***************************************************************************)
Fairness ==
  /\ WF_vars(GpuStep)
  /\ \A c \in Callers : WF_vars(Step(c)) /\ SF_vars(LockRing(c))

FairSpec == Spec /\ Fairness

(***************************************************************************)
(* Properties.                                                             *)
(***************************************************************************)
Places == {"idle", "ring", "lock", "chunk", "wait", "copying", "enqueue",
           "record", "synchronize", "drain", "transfer"}

\* Every variable keeps its type; the cursor stays inside the ring.
TypeOK ==
  /\ stream \in {"open", "draining", "destroyed", "freed"}
  /\ legacy \in BOOLEAN /\ ready \in BOOLEAN
  /\ queue \in Seq([data : Data, from : Slots \cup {NoSlot}])
  /\ dev \in [Callers -> [Chunk -> Data \cup {Blank, Torn}]]
  /\ expected \in [Callers -> [Chunk -> Data \cup {Blank}]]
  /\ slot \in [Slots -> Data \cup {Blank, Torn}]
  /\ armed \in [Slots -> BOOLEAN]
  /\ event \in [Slots -> Nat]
  /\ cursor \in Slots
  /\ lock \in Callers \cup {NoCaller}
  /\ pc \in [Callers -> Places]
  /\ op \in [Callers -> {"none", "async", "sync", "write", "read"}]
  /\ off \in [Callers -> 0 .. Chunks]
  /\ ahead \in [Callers -> Nat]
  /\ calls \in [Callers -> 0 .. MaxCalls]

\* "Do not overwrite a chunk the GPU is still reading": until the GPU has run
\* the DMA of a chunk, its pinned slot holds that chunk whole, whoever uses
\* the ring meanwhile, whichever call of whichever caller fails, and while
\* the Stream is dropped.
SlotIntact ==
  \A i \in 1 .. Len(queue) : queue[i].from # NoSlot => slot[queue[i].from] = queue[i].data

\* The blocking copies run outside the stream, yet a read returns (and a write
\* replaces) what the caller's own earlier calls put in the buffer: the drain,
\* or the legacy ordering, puts the transfer after them.
TransferInProgramOrder ==
  \A c \in Callers : Ordered(c) => dev[c] = expected[c]

\* copy_from_host_sync returns with its data, and that of every earlier call
\* of the caller, in device memory.
SyncCopyArrived ==
  \A c \in Callers : pc[c] = "synchronize" /\ ahead[c] = 0 => dev[c] = expected[c]

\* Nobody waits for what cannot come: the commands a caller synchronizes with
\* and those before a slot's event are still on the stream, and the mutex of
\* the ring is held by a caller inside the copy loop, whatever call has failed.
AwaitedIsUnderWay ==
  \A c \in Callers :
    /\ ahead[c] <= Len(queue)
    /\ pc[c] = "wait" => event[cursor] <= Len(queue)
    /\ pc[c] = "lock" /\ lock # NoCaller =>
         pc[lock] \in {"chunk", "wait", "copying", "enqueue", "record"}

\* Every call returns: a full ring waits for the GPU only, and a caller that
\* leaves by an error does not keep the ring from the others.
CallsReturn == \A c \in Callers : pc[c] # "idle" ~> pc[c] = "idle"
=============================================================================
