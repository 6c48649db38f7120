------------------------- MODULE StagedCopy_proofs --------------------------
(***************************************************************************)
(* Proofs about StagedCopy, for any number of callers, slots, chunks and   *)
(* calls: no pinned slot is overwritten while the GPU may still read it,   *)
(* and the copies outside the stream see program order.                    *)
(*                                                                         *)
(* Assumed (EventsRecorded): no driver error between a chunk's DMA and the *)
(* record of its event, nor in the drain of a Stream that is dropped; the  *)
(* configuration MC_StagedCopyRecord.cfg shows what the first would do.    *)
(* Nothing is assumed of what a caller waits for (WaitsEnd).               *)
(***************************************************************************)
EXTENDS StagedCopy, TLAPS

\* The two driver calls whose error is not recovered from.
EventsRecorded == "record" \notin MayFail /\ "close" \notin MayFail

Holding == {"chunk", "wait", "copying", "enqueue", "record"}
Staged == Holding \cup {"ring", "lock", "synchronize"}

(***************************************************************************)
(* The inductive invariant.                                                *)
(***************************************************************************)

\* What a caller inside a call has done: a writing call is counted, and while
\* one chunk is under way there is a chunk left.
InCall ==
  \A c \in Callers :
    /\ pc[c] \in Staged => op[c] \in {"async", "sync"}
    /\ pc[c] # "idle" /\ op[c] # "read" => calls[c] >= 1
    /\ pc[c] \in {"wait", "copying", "enqueue", "record"} => off[c] < Chunks

\* The mutex is held between its lock and the end of the copy, by one caller.
LockHeld == \A c \in Callers : pc[c] \in Holding <=> lock = c

\* The ring is used only once it exists, and the Stream dropped only when no
\* call is under way.
Lifetime ==
  /\ ~ready => \A c \in Callers : pc[c] \notin Holding \cup {"lock"}
  /\ ~ready => \A i \in 1 .. Len(queue) : queue[i].from = NoSlot
  /\ stream # "open" => \A c \in Callers : pc[c] = "idle"
  /\ stream \in {"destroyed", "freed"} => \A i \in 1 .. Len(queue) : queue[i].from = NoSlot

Recording == \E c \in Callers : pc[c] = "record"

\* A queued DMA's slot holds its chunk, and the slot's event fires only after
\* the DMA has run; just before the event is recorded the lock protects it.
Guarded ==
  \A i \in 1 .. Len(queue) : queue[i].from # NoSlot =>
    /\ slot[queue[i].from] = queue[i].data
    /\ \/ armed[queue[i].from] /\ event[queue[i].from] >= i
       \/ queue[i].from = cursor /\ Recording

\* The slot under the cursor, as the holder of the lock fills it.
Filled ==
  \A c \in Callers :
    /\ pc[c] \in {"copying", "enqueue"} => ~armed[cursor]
    /\ pc[c] = "enqueue" => slot[cursor] = Written(c, off[c] + 1, calls[c])

TypeInv == TypeOK /\ InCall

\* Command i of the stream writes chunk k of caller c's buffer.
Targets(i, c, k) == queue[i].data.buf = c /\ queue[i].data.chunk = k

\* The last command for a chunk carries what program order expects there; with
\* no command left the chunk holds it.
Latest ==
  \A c \in Callers, k \in Chunk :
    /\ (\A i \in 1 .. Len(queue) : ~Targets(i, c, k)) => dev[c][k] = expected[c][k]
    /\ \A i \in 1 .. Len(queue) :
         Targets(i, c, k) /\ (\A j \in i + 1 .. Len(queue) : ~Targets(j, c, k))
           => queue[i].data = expected[c][k]

\* A caller that waits for the stream waits for all its own commands, and one
\* whose drain has ended has none left.
Awaited ==
  \A c \in Callers :
    /\ pc[c] \in {"drain", "transfer", "synchronize"} =>
         \A i \in 1 .. Len(queue) : queue[i].data.buf = c => i <= ahead[c]
    /\ pc[c] = "transfer" /\ ~legacy => ahead[c] = 0

(***************************************************************************)
(* Types.                                                                  *)
(***************************************************************************)
LEMMA CursorWraps == ASSUME NEW s \in Slots PROVE After(s) \in Slots
BY StagedAssumption DEF Slots, After

LEMMA WrittenIsData ==
  ASSUME NEW c \in Callers, NEW k \in Chunk, NEW n \in 1 .. MaxCalls
  PROVE  /\ Written(c, k, n) \in Data
         /\ Written(c, k, n).buf = c
         /\ Written(c, k, n).chunk = k
BY DEF Written, Data

LEMMA TypeInit == Init => TypeInv
<1> SUFFICES ASSUME Init PROVE TypeInv
  OBVIOUS
<1>1. 0 \in Slots
  BY StagedAssumption DEF Slots
<1>2. queue \in Seq([data : Data, from : Slots \cup {NoSlot}])
  BY DEF Init
<1>3. /\ dev \in [Callers -> [Chunk -> Data \cup {Blank, Torn}]]
      /\ expected \in [Callers -> [Chunk -> Data \cup {Blank}]]
  BY DEF Init
<1>4. TypeOK
  <2>1. /\ stream \in {"open", "draining", "destroyed", "freed"}
        /\ legacy \in BOOLEAN /\ ready \in BOOLEAN
        /\ cursor \in Slots /\ lock \in Callers \cup {NoCaller}
    BY <1>1 DEF Init
  <2>2. /\ slot \in [Slots -> Data \cup {Blank, Torn}]
        /\ armed \in [Slots -> BOOLEAN]
        /\ event \in [Slots -> Nat]
    BY DEF Init
  <2>3. /\ pc \in [Callers -> Places]
        /\ op \in [Callers -> {"none", "async", "sync", "write", "read"}]
    BY DEF Init, Places
  <2>4. /\ off \in [Callers -> 0 .. Chunks]
        /\ ahead \in [Callers -> Nat]
        /\ calls \in [Callers -> 0 .. MaxCalls]
    BY StagedAssumption DEF Init
  <2> QED BY <1>2, <1>3, <2>1, <2>2, <2>3, <2>4 DEF TypeOK
<1>5. InCall
  BY DEF Init, InCall, Staged, Holding
<1> QED BY <1>4, <1>5 DEF TypeInv

\* The stream as a sequence: its oldest command, and what is left of it.
LEMMA FirstAndRest ==
  ASSUME NEW S, NEW q \in Seq(S), q # <<>>
  PROVE  /\ Head(q) \in S /\ Head(q) = q[1]
         /\ Tail(q) \in Seq(S)
         /\ Len(q) \in Nat \ {0}
         /\ Len(Tail(q)) = Len(q) - 1
         /\ \A i \in 1 .. Len(Tail(q)) : Tail(q)[i] = q[i + 1]
OBVIOUS

LEMMA CountsDown == \A n \in Nat : CountDown(n) \in Nat
BY DEF CountDown

\* The chunk under way is a chunk of a counted call.
LEMMA OneUnderWay ==
  ASSUME TypeInv, NEW c \in Callers, pc[c] \in {"copying", "enqueue", "record"}
  PROVE  calls[c] \in 1 .. MaxCalls /\ off[c] + 1 \in Chunk
<1>1. op[c] # "read" /\ off[c] < Chunks
  BY DEF TypeInv, InCall, Staged, Holding
<1>2. calls[c] >= 1
  BY <1>1 DEF TypeInv, InCall
<1>3. calls[c] \in 0 .. MaxCalls /\ off[c] \in 0 .. Chunks
  BY DEF TypeInv, TypeOK
<1> QED BY StagedAssumption, <1>1, <1>2, <1>3 DEF Chunk

LEMMA CountedTypes ==
  ASSUME TypeInv, NEW c \in Callers, Counted(c)
  PROVE  calls' \in [Callers -> 0 .. MaxCalls]
<1>1. calls \in [Callers -> 0 .. MaxCalls] /\ calls[c] < MaxCalls
  BY DEF TypeInv, TypeOK, Counted
<1>2. calls[c] + 1 \in 0 .. MaxCalls
  BY StagedAssumption, <1>1
<1> QED BY <1>1, <1>2 DEF Counted

\* What leaving a call does to the types.
LEMMA ReturnTypes ==
  ASSUME TypeInv, NEW c \in Callers, Return(c), UNCHANGED calls
  PROVE  /\ pc' \in [Callers -> Places]
         /\ op' \in [Callers -> {"none", "async", "sync", "write", "read"}]
         /\ off' \in [Callers -> 0 .. Chunks]
         /\ ahead' \in [Callers -> Nat]
         /\ lock' \in Callers \cup {NoCaller}
         /\ InCall'
BY StagedAssumption DEF TypeInv, TypeOK, Return, Goto, InCall, Staged, Holding, Places

LEMMA TypeStep == TypeInv /\ [Next]_vars => TypeInv'
<1> SUFFICES ASSUME TypeInv, [Next]_vars PROVE TypeInv'
  OBVIOUS
<1> USE StagedAssumption
<1>1. CASE GpuStep
  <2>1. PICK h \in [data : Data, from : Slots \cup {NoSlot}] : h = Head(queue)
    BY <1>1, FirstAndRest DEF GpuStep, TypeInv, TypeOK
  <2>2. Carried(h) \in Data \cup {Blank, Torn}
    BY <2>1 DEF Carried, TypeInv, TypeOK
  <2>3. dev' = [dev EXCEPT ![h.data.buf][h.data.chunk] = Carried(h)]
    BY <1>1, <2>1 DEF GpuStep
  <2>4. dev' \in [Callers -> [Chunk -> Data \cup {Blank, Torn}]]
    BY <2>2, <2>3 DEF TypeInv, TypeOK, Data
  <2>5. queue' \in Seq([data : Data, from : Slots \cup {NoSlot}])
    BY <1>1, FirstAndRest DEF GpuStep, TypeInv, TypeOK
  <2>6. event' \in [Slots -> Nat] /\ ahead' \in [Callers -> Nat]
    BY <1>1, CountsDown DEF GpuStep, TypeInv, TypeOK
  <2> QED BY <1>1, <2>4, <2>5, <2>6 DEF GpuStep, TypeInv, TypeOK, InCall
<1>2. ASSUME NEW c \in Callers, NEW k \in Chunk, AsyncWrite(c, k) PROVE TypeInv'
  <2>1. calls[c] + 1 \in 1 .. MaxCalls
    BY <1>2 DEF AsyncWrite, Counted, TypeInv, TypeOK
  <2>2. Written(c, k, calls[c] + 1) \in Data
    BY <2>1, WrittenIsData
  <2>3. queue' \in Seq([data : Data, from : Slots \cup {NoSlot}])
    BY <1>2, <2>2 DEF AsyncWrite, Enqueue, TypeInv, TypeOK
  <2>4. expected' \in [Callers -> [Chunk -> Data \cup {Blank}]]
    BY <1>2, <2>2 DEF AsyncWrite, Enqueue, TypeInv, TypeOK, Data
  <2>5. TypeOK'
    BY <1>2, <2>3, <2>4, CountedTypes DEF AsyncWrite, TypeInv, TypeOK, ringVars
  <2>6. InCall'
    BY <1>2 DEF AsyncWrite, Counted, TypeInv, TypeOK, InCall
  <2> QED BY <2>5, <2>6 DEF TypeInv
<1>3. ASSUME NEW c \in Callers, NEW kind \in {"async", "sync"}, StagedCall(c, kind) PROVE TypeInv'
  <2>1. TypeOK'
    BY <1>3 DEF StagedCall, Calling, Counted, Goto, TypeInv, TypeOK, ringVars, Places
  <2>2. InCall'
    BY <1>3 DEF StagedCall, Calling, Counted, Goto, TypeInv, TypeOK, InCall, Staged, Holding
  <2> QED BY <2>1, <2>2 DEF TypeInv
<1>4. ASSUME NEW c \in Callers, NEW kind \in {"write", "read"}, BlockingCall(c, kind) PROVE TypeInv'
  <2>1. Len(queue) \in Nat
    BY DEF TypeInv, TypeOK
  <2>2. calls' \in [Callers -> 0 .. MaxCalls]
    <3>1. CASE kind = "write"
      BY <1>4, <3>1, CountedTypes DEF BlockingCall
    <3>2. CASE kind # "write"
      BY <1>4, <3>2 DEF BlockingCall, TypeInv, TypeOK
    <3> QED BY <3>1, <3>2
  <2>3. TypeOK'
    BY <1>4, <2>1, <2>2 DEF BlockingCall, Calling, Goto, TypeInv, TypeOK, ringVars, Places
  <2>4. InCall'
    BY <1>4 DEF BlockingCall, Calling, Counted, Goto, TypeInv, TypeOK, InCall, Staged, Holding
  <2> QED BY <2>3, <2>4 DEF TypeInv
<1>5. ASSUME NEW c \in Callers, Step(c) PROVE TypeInv'
  <2>1. CASE StageRing(c)
    BY <2>1 DEF StageRing, Goto, TypeInv, TypeOK, InCall, Staged, Holding, Places
  <2>2. CASE LockRing(c)
    BY <2>2 DEF LockRing, Goto, TypeInv, TypeOK, InCall, Staged, Holding, Places
  <2>3. CASE NextChunk(c)
    BY <2>3 DEF NextChunk, Filling, Goto, TypeInv, TypeOK, InCall, Staged, Holding, Places
  <2>4. CASE SlotDrained(c)
    BY <2>4 DEF SlotDrained, Filling, Goto, TypeInv, TypeOK, InCall, Staged, Holding, Places
  <2>5. CASE WideCopyDone(c)
    <3>1. Written(c, off[c] + 1, calls[c]) \in Data
      <4>1. pc[c] = "copying"
        BY <2>5 DEF WideCopyDone
      <4> QED BY <4>1, OneUnderWay, WrittenIsData
    <3> QED
      BY <2>5, <3>1 DEF WideCopyDone, Goto, TypeInv, TypeOK, InCall, Staged, Holding, Places
  <2>6. CASE EnqueueChunk(c)
    <3>1. Written(c, off[c] + 1, calls[c]) \in Data /\ off[c] + 1 \in Chunk
      <4>1. pc[c] = "enqueue"
        BY <2>6 DEF EnqueueChunk
      <4> QED BY <4>1, OneUnderWay, WrittenIsData
    <3>2. queue' \in Seq([data : Data, from : Slots \cup {NoSlot}])
      BY <2>6, <3>1 DEF EnqueueChunk, Enqueue, TypeInv, TypeOK
    <3>3. expected' \in [Callers -> [Chunk -> Data \cup {Blank}]]
      BY <2>6, <3>1 DEF EnqueueChunk, Enqueue, TypeInv, TypeOK, Data
    <3> QED
      BY <2>6, <3>2, <3>3
      DEF EnqueueChunk, Goto, TypeInv, TypeOK, InCall, Staged, Holding, Places, ringVars
  <2>7. CASE RecordEvent(c)
    <3>1. cursor' \in Slots
      BY <2>7, CursorWraps DEF RecordEvent, TypeInv, TypeOK
    <3>2. Len(queue) \in Nat /\ off[c] + 1 \in 0 .. Chunks
      BY <2>7 DEF RecordEvent, TypeInv, TypeOK, InCall
    <3> QED
      BY <2>7, <3>1, <3>2 DEF RecordEvent, Goto, TypeInv, TypeOK, InCall, Staged, Holding, Places
  <2>8. CASE StagedReturn(c)
    BY <2>8, ReturnTypes DEF StagedReturn, TypeInv, TypeOK
  <2>9. CASE StagedSync(c)
    <3>1. Len(queue) \in Nat
      BY DEF TypeInv, TypeOK
    <3> QED
      BY <2>9, <3>1 DEF StagedSync, Goto, TypeInv, TypeOK, InCall, Staged, Holding, Places
  <2>10. CASE Synchronized(c)
    BY <2>10, ReturnTypes DEF Synchronized, TypeInv, TypeOK
  <2>11. CASE Drained(c)
    BY <2>11 DEF Drained, Goto, TypeInv, TypeOK, InCall, Staged, Holding, Places, ringVars
  <2>12. CASE Transfer(c)
    <3>1. /\ dev' \in [Callers -> [Chunk -> Data \cup {Blank, Torn}]]
          /\ expected' \in [Callers -> [Chunk -> Data \cup {Blank}]]
      <4>1. CASE op[c] = "write"
        <5>1. calls[c] \in 1 .. MaxCalls
          <6>1. calls[c] >= 1
            BY <2>12, <4>1 DEF Transfer, Ordered, TypeInv, InCall
          <6>2. calls[c] \in 0 .. MaxCalls
            BY DEF TypeInv, TypeOK
          <6> QED BY <6>1, <6>2
        <5>2. Contents(c) \in [Chunk -> Data]
          BY <5>1, WrittenIsData DEF Contents
        <5>3. /\ dev' = [dev EXCEPT ![c] = Contents(c)]
              /\ expected' = [expected EXCEPT ![c] = Contents(c)]
          BY <2>12, <4>1 DEF Transfer
        <5>4. /\ Contents(c) \in [Chunk -> Data \cup {Blank, Torn}]
              /\ Contents(c) \in [Chunk -> Data \cup {Blank}]
          BY <5>2
        <5>5. /\ dev \in [Callers -> [Chunk -> Data \cup {Blank, Torn}]]
              /\ expected \in [Callers -> [Chunk -> Data \cup {Blank}]]
          BY DEF TypeInv, TypeOK
        <5> QED BY <5>3, <5>4, <5>5
      <4>2. CASE op[c] # "write"
        BY <2>12, <4>2 DEF Transfer, TypeInv, TypeOK
      <4> QED BY <4>1, <4>2
    <3> QED BY <2>12, <3>1, ReturnTypes DEF Transfer, TypeInv, TypeOK
  <2> QED
    BY <1>5, <2>1, <2>2, <2>3, <2>4, <2>5, <2>6, <2>7, <2>8, <2>9, <2>10, <2>11, <2>12 DEF Step
<1>6. ASSUME NEW c \in Callers, Fail(c) PROVE TypeInv'
  BY <1>6, ReturnTypes DEF Fail, TypeInv, TypeOK
<1>7. CASE Close \/ CloseDrained
  BY <1>7 DEF Close, CloseDrained, TypeInv, TypeOK, InCall, ringVars
<1>8. CASE FreeRing
  BY <1>8 DEF FreeRing, TypeInv, TypeOK, InCall
<1>9. CASE UNCHANGED vars
  BY <1>9 DEF vars, ringVars, TypeInv, TypeOK, InCall
<1> QED BY <1>1, <1>2, <1>3, <1>4, <1>5, <1>6, <1>7, <1>8, <1>9 DEF Next, Finished

\* Every variable of the copies keeps its type, and the cursor stays inside
\* the ring (After: cursor % STAGE_SLOTS), in every instance.
THEOREM TypeCorrect == Spec => []TypeOK
<1>1. Spec => []TypeInv
  BY TypeInit, TypeStep, PTL DEF Spec
<1>2. TypeInv => TypeOK
  BY DEF TypeInv
<1> QED BY <1>1, <1>2, PTL

(***************************************************************************)
(* The mutex and the lifetime of the ring.                                 *)
(***************************************************************************)
LEMMA LastAndRest ==
  ASSUME NEW S, NEW q \in Seq(S), NEW e \in S
  PROVE  /\ Len(q) \in Nat
         /\ Len(Append(q, e)) = Len(q) + 1
         /\ \A i \in 1 .. Len(q) : Append(q, e)[i] = q[i]
         /\ Append(q, e)[Len(q) + 1] = e
OBVIOUS

Command == [data : Data, from : Slots \cup {NoSlot}]

\* A command for chunk k of a counted call of c, put on the stream.
LEMMA Enqueued ==
  ASSUME TypeInv, NEW c \in Callers, NEW k \in Chunk, NEW n \in 1 .. MaxCalls,
         NEW s \in Slots \cup {NoSlot}, Enqueue(Written(c, k, n), s)
  PROVE  /\ Len(queue) \in Nat
         /\ Len(queue') = Len(queue) + 1
         /\ \A i \in 1 .. Len(queue) : queue'[i] = queue[i]
         /\ queue'[Len(queue) + 1] = [data |-> Written(c, k, n), from |-> s]
         /\ expected' = [expected EXCEPT ![c][k] = Written(c, k, n)]
<1>1. queue \in Seq(Command) /\ [data |-> Written(c, k, n), from |-> s] \in Command
  BY WrittenIsData DEF TypeInv, TypeOK, Command
<1>2. queue' = Append(queue, [data |-> Written(c, k, n), from |-> s])
  BY DEF Enqueue
<1>3. expected' = [expected EXCEPT ![c][k] = Written(c, k, n)]
  <2>1. Written(c, k, n).buf = c /\ Written(c, k, n).chunk = k
    BY WrittenIsData
  <2>2. expected' = [expected EXCEPT ![Written(c, k, n).buf][Written(c, k, n).chunk] = Written(c, k, n)]
    BY DEF Enqueue
  <2> QED BY <2>1, <2>2
<1> QED BY <1>1, <1>2, <1>3, LastAndRest

LEMMA Commands ==
  ASSUME TypeInv, NEW i \in 1 .. Len(queue)
  PROVE  /\ queue[i] \in Command
         /\ queue[i].from # NoSlot => queue[i].from \in Slots
<1>1. queue \in Seq(Command)
  BY DEF TypeInv, TypeOK, Command
<1>2. queue[i] \in Command
  BY <1>1
<1> QED BY <1>2 DEF Command

\* What the GPU leaves of the stream.
LEMMA Dequeued ==
  ASSUME TypeInv, GpuStep
  PROVE  /\ queue[1] \in Command /\ Head(queue) = queue[1]
         /\ Len(queue) \in Nat \ {0}
         /\ Len(queue') = Len(queue) - 1
         /\ \A i \in 1 .. Len(queue') : queue'[i] = queue[i + 1]
<1>1. queue \in Seq(Command) /\ queue # <<>> /\ queue' = Tail(queue)
  BY DEF TypeInv, TypeOK, Command, GpuStep
<1> QED BY <1>1, FirstAndRest

\* The control of a caller that returns.
LEMMA ReturnControl ==
  ASSUME TypeInv, LockHeld, Lifetime, NEW c \in Callers, Return(c),
         UNCHANGED <<stream, ready, queue>>
  PROVE  LockHeld' /\ Lifetime'
BY StagedAssumption DEF TypeInv, TypeOK, Return, Goto, LockHeld, Lifetime, Holding

ControlInv == TypeInv /\ LockHeld /\ Lifetime

LEMMA ControlStep ==
  ASSUME EventsRecorded PROVE ControlInv /\ [Next]_vars => LockHeld' /\ Lifetime'
<1> SUFFICES ASSUME ControlInv, [Next]_vars PROVE LockHeld' /\ Lifetime'
  OBVIOUS
<1> USE StagedAssumption DEF ControlInv
<1>1. CASE GpuStep
  <2>1. LockHeld'
    BY <1>1 DEF GpuStep, LockHeld
  <2>2. \A i \in 1 .. Len(queue') : i + 1 \in 1 .. Len(queue) /\ queue'[i] = queue[i + 1]
    BY <1>1, Dequeued
  <2>3. Lifetime'
    BY <1>1, <2>2 DEF GpuStep, Lifetime
  <2> QED BY <2>1, <2>3
<1>2. ASSUME NEW c \in Callers, NEW k \in Chunk, AsyncWrite(c, k) PROVE LockHeld' /\ Lifetime'
  <2>1. LockHeld'
    BY <1>2 DEF AsyncWrite, LockHeld, ringVars
  <2>2. calls[c] + 1 \in 1 .. MaxCalls
    BY <1>2 DEF AsyncWrite, Counted, TypeInv, TypeOK
  <2>3. /\ Len(queue) \in Nat
        /\ Len(queue') = Len(queue) + 1
        /\ \A i \in 1 .. Len(queue) : queue'[i] = queue[i]
        /\ queue'[Len(queue) + 1].from = NoSlot
    <3>1. Enqueue(Written(c, k, calls[c] + 1), NoSlot)
      BY <1>2 DEF AsyncWrite
    <3>2. queue'[Len(queue) + 1] = [data |-> Written(c, k, calls[c] + 1), from |-> NoSlot]
      BY <2>2, <3>1, Enqueued
    <3> QED BY <2>2, <3>1, <3>2, Enqueued
  <2>4. Lifetime'
    BY <1>2, <2>3 DEF AsyncWrite, Lifetime, ringVars
  <2> QED BY <2>1, <2>4
<1>3. ASSUME NEW c \in Callers, NEW kind \in {"async", "sync"}, StagedCall(c, kind)
      PROVE  LockHeld' /\ Lifetime'
  BY <1>3 DEF StagedCall, Calling, Goto, TypeInv, TypeOK, LockHeld, Lifetime, Holding, ringVars
<1>4. ASSUME NEW c \in Callers, NEW kind \in {"write", "read"}, BlockingCall(c, kind)
      PROVE  LockHeld' /\ Lifetime'
  BY <1>4 DEF BlockingCall, Calling, Goto, TypeInv, TypeOK, LockHeld, Lifetime, Holding, ringVars
<1>5. ASSUME NEW c \in Callers, Step(c) PROVE LockHeld' /\ Lifetime'
  <2>1. CASE StageRing(c)
    BY <2>1 DEF StageRing, Goto, TypeInv, TypeOK, LockHeld, Lifetime, Holding
  <2>2. CASE LockRing(c)
    BY <2>2 DEF LockRing, Goto, TypeInv, TypeOK, LockHeld, Lifetime, Holding
  <2>3. CASE NextChunk(c)
    BY <2>3 DEF NextChunk, Filling, Goto, TypeInv, TypeOK, LockHeld, Lifetime, Holding
  <2>4. CASE SlotDrained(c)
    BY <2>4 DEF SlotDrained, Filling, Goto, TypeInv, TypeOK, LockHeld, Lifetime, Holding
  <2>5. CASE WideCopyDone(c)
    BY <2>5 DEF WideCopyDone, Goto, TypeInv, TypeOK, LockHeld, Lifetime, Holding
  <2>6. CASE EnqueueChunk(c)
    <3>1. pc[c] = "enqueue" /\ pc' = [pc EXCEPT ![c] = "record"]
      BY <2>6 DEF EnqueueChunk, Goto
    <3>2. ready /\ stream = "open"
      BY <3>1 DEF Lifetime, Holding, TypeInv, TypeOK
    <3>3. LockHeld'
      BY <2>6, <3>1 DEF EnqueueChunk, LockHeld, Holding, ringVars, TypeInv, TypeOK
    <3>4. Lifetime'
      BY <2>6, <3>2 DEF EnqueueChunk, Lifetime, ringVars, TypeInv, TypeOK
    <3> QED BY <3>3, <3>4
  <2>7. CASE RecordEvent(c)
    BY <2>7 DEF RecordEvent, Goto, TypeInv, TypeOK, LockHeld, Lifetime, Holding
  <2>8. CASE StagedReturn(c)
    BY <2>8, ReturnControl DEF StagedReturn
  <2>9. CASE StagedSync(c)
    BY <2>9 DEF StagedSync, Goto, TypeInv, TypeOK, LockHeld, Lifetime, Holding
  <2>10. CASE Synchronized(c)
    BY <2>10, ReturnControl DEF Synchronized
  <2>11. CASE Drained(c)
    BY <2>11 DEF Drained, Goto, TypeInv, TypeOK, LockHeld, Lifetime, Holding, ringVars
  <2>12. CASE Transfer(c)
    BY <2>12, ReturnControl DEF Transfer
  <2> QED
    BY <1>5, <2>1, <2>2, <2>3, <2>4, <2>5, <2>6, <2>7, <2>8, <2>9, <2>10, <2>11, <2>12 DEF Step
<1>6. ASSUME NEW c \in Callers, Fail(c) PROVE LockHeld' /\ Lifetime'
  BY <1>6, ReturnControl DEF Fail
<1>7. CASE Close
  BY <1>7 DEF Close, LockHeld, Lifetime, ringVars
<1>8. CASE CloseDrained
  <2>1. queue = <<>> /\ stream = "draining"
    BY <1>8 DEF EventsRecorded, CloseDrained
  <2> QED BY <1>8, <2>1 DEF CloseDrained, LockHeld, Lifetime, ringVars
<1>9. CASE FreeRing
  BY <1>9 DEF FreeRing, LockHeld, Lifetime
<1>10. CASE UNCHANGED vars
  BY <1>10 DEF vars, ringVars, LockHeld, Lifetime
<1> QED BY <1>1, <1>2, <1>3, <1>4, <1>5, <1>6, <1>7, <1>8, <1>9, <1>10 DEF Next, Finished

(***************************************************************************)
(* The slots.                                                              *)
(***************************************************************************)
LEMMA HolderAlone ==
  ASSUME ControlInv, NEW c \in Callers, NEW d \in Callers, pc[c] \in Holding, pc[d] \in Holding
  PROVE  c = d
BY DEF ControlInv, LockHeld

\* No command of the stream reads the slot under the cursor when its event is
\* not armed or has fired, unless it is the one whose event is being recorded.
LEMMA CursorFree ==
  ASSUME ControlInv, Guarded, NEW c \in Callers, pc[c] \in Holding \ {"record"},
         ~armed[cursor] \/ event[cursor] = 0
  PROVE  \A i \in 1 .. Len(queue) : queue[i].from # cursor
<1>1. ~Recording
  BY HolderAlone DEF Recording, Holding
<1>2. NoSlot # cursor
  BY StagedAssumption DEF ControlInv, TypeInv, TypeOK
<1>3. SUFFICES ASSUME NEW i \in 1 .. Len(queue), queue[i].from = cursor PROVE FALSE
  OBVIOUS
<1>4. armed[cursor] /\ event[cursor] >= i
  BY <1>1, <1>2, <1>3 DEF Guarded
<1> QED BY <1>4

\* A step of a caller that leaves the ring and the stream alone.
LEMMA RingUntouched ==
  ASSUME ControlInv, Guarded, Filled,
         NEW c \in Callers, NEW p \in Places \ {"copying", "enqueue"},
         pc[c] # "record", pc' = [pc EXCEPT ![c] = p],
         UNCHANGED <<queue, slot, armed, event, cursor>>,
         \A d \in Callers \ {c} : off'[d] = off[d] /\ calls'[d] = calls[d]
  PROVE  Guarded' /\ Filled'
<1>1. pc \in [Callers -> Places]
  BY DEF ControlInv, TypeInv, TypeOK
<1>2. Recording => Recording'
  BY <1>1 DEF Recording
<1>3. Guarded'
  BY <1>2 DEF Guarded
<1>4. Filled'
  BY <1>1 DEF Filled, Written
<1> QED BY <1>3, <1>4

LEMMA ReturnUntouched ==
  ASSUME ControlInv, Guarded, Filled, NEW c \in Callers, pc[c] # "record", Return(c),
         UNCHANGED <<queue, slot, armed, event, cursor, calls>>
  PROVE  Guarded' /\ Filled'
<1>1. pc' = [pc EXCEPT ![c] = "idle"] /\ "idle" \in Places \ {"copying", "enqueue"}
  BY DEF Return, Goto, Places
<1>2. \A d \in Callers \ {c} : off'[d] = off[d] /\ calls'[d] = calls[d]
  BY DEF Return, ControlInv, TypeInv, TypeOK
<1> QED BY <1>1, <1>2, RingUntouched

\* The slot under the cursor, free of commands, is handed to wide_copy.
LEMMA SlotHandedOver ==
  ASSUME ControlInv, Guarded, Filled, NEW c \in Callers, pc[c] \in Holding \ {"record"},
         ~armed[cursor] \/ event[cursor] = 0, Filling(c),
         armed' = [armed EXCEPT ![cursor] = FALSE],
         UNCHANGED <<queue, event, cursor, off, calls>>
  PROVE  Guarded' /\ Filled'
<1>1. /\ pc \in [Callers -> Places] /\ cursor \in Slots
      /\ slot \in [Slots -> Data \cup {Blank, Torn}] /\ armed \in [Slots -> BOOLEAN]
      /\ queue \in Seq(Command)
  BY DEF ControlInv, TypeInv, TypeOK, Command
<1>2. ASSUME NEW i \in 1 .. Len(queue), queue[i].from # NoSlot
      PROVE  /\ slot'[queue[i].from] = queue[i].data
             /\ armed'[queue[i].from] /\ event[queue[i].from] >= i
  <2>1. ~Recording
    BY HolderAlone DEF Recording, Holding
  <2>2. queue[i].from # cursor
    BY CursorFree
  <2>3. queue[i] \in Command
    BY <1>1
  <2>4. queue[i].from \in Slots
    BY <1>2, <2>3 DEF Command
  <2>5. slot[queue[i].from] = queue[i].data /\ armed[queue[i].from] /\ event[queue[i].from] >= i
    BY <1>2, <2>1 DEF Guarded
  <2> QED BY <1>1, <2>2, <2>4, <2>5 DEF Filling
<1>3. Guarded'
  BY <1>2 DEF Guarded
<1>4. pc' = [pc EXCEPT ![c] = "copying"]
  BY DEF Filling, Goto
<1>5. \A d \in Callers : pc'[d] # "enqueue"
  BY <1>1, <1>4, HolderAlone DEF Holding
<1>6. Filled'
  BY <1>1, <1>5 DEF Filled
<1> QED BY <1>3, <1>6

RingInv == ControlInv /\ Guarded /\ Filled

LEMMA RingStep ==
  ASSUME EventsRecorded PROVE RingInv /\ [Next]_vars => Guarded' /\ Filled'
<1> SUFFICES ASSUME RingInv, [Next]_vars PROVE Guarded' /\ Filled'
  OBVIOUS
<1> USE StagedAssumption DEF RingInv
<1>0. /\ queue \in Seq(Command) /\ pc \in [Callers -> Places] /\ cursor \in Slots
      /\ slot \in [Slots -> Data \cup {Blank, Torn}] /\ armed \in [Slots -> BOOLEAN]
      /\ event \in [Slots -> Nat] /\ Len(queue) \in Nat
      /\ TypeInv
  BY DEF ControlInv, TypeInv, TypeOK, Command
<1>1. CASE GpuStep
  <2>1. ASSUME NEW i \in 1 .. Len(queue'), queue'[i].from # NoSlot
        PROVE  /\ slot'[queue'[i].from] = queue'[i].data
               /\ \/ armed'[queue'[i].from] /\ event'[queue'[i].from] >= i
                  \/ queue'[i].from = cursor' /\ Recording'
    <3>1. i + 1 \in 1 .. Len(queue) /\ queue'[i] = queue[i + 1]
      BY <1>0, <1>1, Dequeued
    <3>2. queue[i + 1].from \in Slots
      BY <1>0, <2>1, <3>1, Commands
    <3>3. /\ slot[queue[i + 1].from] = queue[i + 1].data
          /\ \/ armed[queue[i + 1].from] /\ event[queue[i + 1].from] >= i + 1
             \/ queue[i + 1].from = cursor /\ Recording
      BY <2>1, <3>1 DEF Guarded
    <3>4. event[queue[i + 1].from] >= i + 1 => event'[queue[i + 1].from] >= i
      BY <1>0, <1>1, <3>1, <3>2 DEF GpuStep, CountDown
    <3>5. UNCHANGED <<slot, armed, cursor, pc>>
      BY <1>1 DEF GpuStep
    <3> QED BY <3>1, <3>3, <3>4, <3>5 DEF Recording
  <2>2. Filled'
    BY <1>1 DEF GpuStep, Filled
  <2> QED BY <2>1, <2>2 DEF Guarded
<1>2. ASSUME NEW c \in Callers, NEW k \in Chunk, AsyncWrite(c, k) PROVE Guarded' /\ Filled'
  <2>1. calls[c] + 1 \in 1 .. MaxCalls
    BY <1>0, <1>2 DEF AsyncWrite, Counted, TypeInv, TypeOK
  <2>2. Enqueue(Written(c, k, calls[c] + 1), NoSlot)
    BY <1>2 DEF AsyncWrite
  <2>3. queue'[Len(queue) + 1] = [data |-> Written(c, k, calls[c] + 1), from |-> NoSlot]
    BY <1>0, <2>1, <2>2, Enqueued
  <2>4. /\ Len(queue') = Len(queue) + 1
        /\ \A i \in 1 .. Len(queue) : queue'[i] = queue[i]
    BY <1>0, <2>1, <2>2, Enqueued
  <2>5. UNCHANGED <<slot, armed, event, cursor, pc, off>>
    BY <1>2 DEF AsyncWrite, ringVars
  <2>6. Guarded'
    <3>1. Recording' <=> Recording
      BY <2>5 DEF Recording
    <3>2. ASSUME NEW i \in 1 .. Len(queue'), queue'[i].from # NoSlot
          PROVE  i \in 1 .. Len(queue) /\ queue'[i] = queue[i]
      BY <1>0, <2>3, <2>4, <3>2
    <3> QED BY <2>5, <3>1, <3>2 DEF Guarded
  <2>7. \A d \in Callers : pc[d] = "enqueue" => calls'[d] = calls[d]
    BY <1>0, <1>2 DEF AsyncWrite, Counted, TypeInv, TypeOK
  <2>8. Filled'
    BY <2>5, <2>7 DEF Filled, Written
  <2> QED BY <2>6, <2>8
<1>3. ASSUME NEW c \in Callers, NEW kind \in {"async", "sync"}, StagedCall(c, kind)
      PROVE  Guarded' /\ Filled'
  <2>1. /\ pc' = [pc EXCEPT ![c] = "ring"] /\ pc[c] = "idle"
        /\ "ring" \in Places \ {"copying", "enqueue"}
    BY <1>3 DEF StagedCall, Calling, Goto, Places
  <2>2. \A d \in Callers \ {c} : off'[d] = off[d] /\ calls'[d] = calls[d]
    BY <1>0, <1>3 DEF StagedCall, Counted, TypeInv, TypeOK
  <2> QED BY <1>3, <2>1, <2>2, RingUntouched DEF StagedCall, ringVars
<1>4. ASSUME NEW c \in Callers, NEW kind \in {"write", "read"}, BlockingCall(c, kind)
      PROVE  Guarded' /\ Filled'
  <2>1. PICK p \in {"transfer", "drain"} : pc' = [pc EXCEPT ![c] = p]
    BY <1>4 DEF BlockingCall, Calling, Goto
  <2>2. pc[c] = "idle" /\ p \in Places \ {"copying", "enqueue"}
    BY <1>4 DEF BlockingCall, Calling, Places
  <2>3. \A d \in Callers \ {c} : off'[d] = off[d] /\ calls'[d] = calls[d]
    BY <1>0, <1>4 DEF BlockingCall, Counted, TypeInv, TypeOK
  <2> QED BY <1>4, <2>1, <2>2, <2>3, RingUntouched DEF BlockingCall, ringVars
<1>5. ASSUME NEW c \in Callers, Step(c) PROVE Guarded' /\ Filled'
  <2>1. CASE StageRing(c)
    BY <2>1, RingUntouched DEF StageRing, Goto, Places
  <2>2. CASE LockRing(c)
    BY <2>2, RingUntouched DEF LockRing, Goto, Places
  <2>3. CASE NextChunk(c)
    <3>1. CASE armed[cursor] /\ Goto(c, "wait") /\ UNCHANGED slot
      BY <2>3, <3>1, RingUntouched DEF NextChunk, Goto, Places
    <3>2. CASE ~armed[cursor] /\ Filling(c)
      <4>1. armed' = [armed EXCEPT ![cursor] = FALSE]
        BY <1>0, <2>3, <3>2 DEF NextChunk
      <4> QED BY <2>3, <3>2, <4>1, SlotHandedOver DEF NextChunk, Holding
    <3> QED BY <2>3, <3>1, <3>2 DEF NextChunk
  <2>4. CASE SlotDrained(c)
    BY <2>4, SlotHandedOver DEF SlotDrained, Holding
  <2>5. CASE WideCopyDone(c)
    <3>1. pc[c] = "copying" /\ ~armed[cursor] /\ pc' = [pc EXCEPT ![c] = "enqueue"]
      BY <2>5 DEF WideCopyDone, Goto, Filled
    <3>2. \A i \in 1 .. Len(queue) : queue[i].from # cursor
      BY <3>1, CursorFree DEF Holding
    <3>3. slot' = [slot EXCEPT ![cursor] = Written(c, off[c] + 1, calls[c])]
      BY <2>5 DEF WideCopyDone
    <3>4. UNCHANGED <<queue, armed, event, cursor, off, calls>>
      BY <2>5 DEF WideCopyDone
    <3>5. \A i \in 1 .. Len(queue) : queue[i].from # NoSlot => queue[i].from \in Slots
      BY <1>0, Commands
    <3>6. ~Recording
      BY <3>1, HolderAlone DEF Recording, Holding
    <3>7. Guarded'
      BY <1>0, <3>2, <3>3, <3>4, <3>5, <3>6 DEF Guarded
    <3>8. \A d \in Callers : pc'[d] \in {"copying", "enqueue"} => d = c
      BY <1>0, <3>1, HolderAlone DEF Holding
    <3>9. Filled'
      BY <1>0, <3>1, <3>3, <3>4, <3>8 DEF Filled
    <3> QED BY <3>7, <3>9
  <2>6. CASE EnqueueChunk(c)
    <3>1. /\ pc[c] = "enqueue" /\ pc' = [pc EXCEPT ![c] = "record"]
          /\ slot[cursor] = Written(c, off[c] + 1, calls[c])
      BY <2>6 DEF EnqueueChunk, Goto, Filled
    <3>2. Enqueue(Written(c, off[c] + 1, calls[c]), cursor)
      BY <2>6 DEF EnqueueChunk
    <3>3. calls[c] \in 1 .. MaxCalls /\ off[c] + 1 \in Chunk
      BY <1>0, <3>1, OneUnderWay
    <3>4. queue'[Len(queue) + 1] = [data |-> Written(c, off[c] + 1, calls[c]), from |-> cursor]
      BY <1>0, <3>2, <3>3, Enqueued
    <3>5. /\ Len(queue') = Len(queue) + 1
          /\ \A i \in 1 .. Len(queue) : queue'[i] = queue[i]
      BY <1>0, <3>2, <3>3, Enqueued
    <3>6. UNCHANGED <<slot, armed, event, cursor>> /\ Recording'
      BY <1>0, <2>6, <3>1 DEF EnqueueChunk, ringVars, Recording
    <3>7. Guarded'
      <4>1. ASSUME NEW i \in 1 .. Len(queue'), queue'[i].from # NoSlot
            PROVE  /\ slot'[queue'[i].from] = queue'[i].data
                   /\ \/ armed'[queue'[i].from] /\ event'[queue'[i].from] >= i
                      \/ queue'[i].from = cursor' /\ Recording'
        <5>1. CASE i = Len(queue) + 1
          BY <3>1, <3>4, <3>6, <5>1
        <5>2. CASE i \in 1 .. Len(queue)
          BY <3>5, <3>6, <4>1, <5>2 DEF Guarded
        <5> QED BY <1>0, <3>5, <5>1, <5>2
      <4> QED BY <4>1 DEF Guarded
    <3>8. \A d \in Callers : pc'[d] \notin {"copying", "enqueue"}
      BY <1>0, <3>1, HolderAlone DEF Holding
    <3> QED BY <3>7, <3>8 DEF Filled
  <2>7. CASE RecordEvent(c)
    <3>1. pc[c] = "record" /\ pc' = [pc EXCEPT ![c] = "chunk"]
      BY <2>7 DEF RecordEvent, Goto
    <3>2. /\ event' = [event EXCEPT ![cursor] = Len(queue)]
          /\ armed' = [armed EXCEPT ![cursor] = TRUE]
          /\ UNCHANGED <<queue, slot>>
      BY <2>7 DEF RecordEvent
    <3>3. \A i \in 1 .. Len(queue) : queue[i].from # NoSlot => queue[i].from \in Slots
      BY <1>0, Commands
    <3>4. Guarded'
      BY <1>0, <3>2, <3>3 DEF Guarded
    <3>5. \A d \in Callers : pc'[d] \notin {"copying", "enqueue"}
      BY <1>0, <3>1, HolderAlone DEF Holding
    <3> QED BY <3>4, <3>5 DEF Filled
  <2>8. CASE StagedReturn(c)
    BY <2>8, ReturnUntouched DEF StagedReturn
  <2>9. CASE StagedSync(c)
    BY <2>9, RingUntouched DEF StagedSync, Goto, Places
  <2>10. CASE Synchronized(c)
    BY <2>10, ReturnUntouched DEF Synchronized
  <2>11. CASE Drained(c)
    BY <2>11, RingUntouched DEF Drained, Goto, Places, ringVars
  <2>12. CASE Transfer(c)
    BY <2>12, ReturnUntouched DEF Transfer, Ordered
  <2> QED
    BY <1>5, <2>1, <2>2, <2>3, <2>4, <2>5, <2>6, <2>7, <2>8, <2>9, <2>10, <2>11, <2>12 DEF Step
<1>6. ASSUME NEW c \in Callers, Fail(c) PROVE Guarded' /\ Filled'
  BY <1>6, ReturnUntouched DEF EventsRecorded, Fail
<1>7. CASE Close \/ CloseDrained
  BY <1>7 DEF Close, CloseDrained, Guarded, Filled, Recording, ringVars
<1>8. CASE FreeRing
  <2>1. stream = "destroyed" /\ UNCHANGED <<queue, pc>>
    BY <1>8 DEF FreeRing
  <2>2. \A i \in 1 .. Len(queue) : queue[i].from = NoSlot
    BY <2>1 DEF ControlInv, Lifetime
  <2>3. \A c \in Callers : pc[c] = "idle"
    BY <2>1 DEF ControlInv, Lifetime
  <2> QED BY <2>1, <2>2, <2>3 DEF Guarded, Filled
<1>9. CASE UNCHANGED vars
  BY <1>9 DEF vars, ringVars, Guarded, Filled, Recording
<1> QED BY <1>1, <1>2, <1>3, <1>4, <1>5, <1>6, <1>7, <1>8, <1>9 DEF Next, Finished

\* "Do not overwrite a chunk the GPU is still reading": the pinned slot of every
\* queued DMA holds its chunk, until the DMA has run, whatever the callers do
\* and through the drop of the Stream.
THEOREM SlotsIntact == ASSUME EventsRecorded PROVE Spec => []SlotIntact
<1>1. Init => RingInv
  <2>1. Init => LockHeld /\ Lifetime /\ Guarded /\ Filled
    BY StagedAssumption DEF Init, LockHeld, Lifetime, Guarded, Filled, Holding
  <2> QED BY <2>1, TypeInit DEF RingInv, ControlInv
<1>2. RingInv /\ [Next]_vars => RingInv'
  BY TypeStep, ControlStep, RingStep DEF RingInv, ControlInv
<1>3. RingInv => SlotIntact
  BY DEF RingInv, Guarded, SlotIntact
<1> QED BY <1>1, <1>2, <1>3, PTL DEF Spec

(***************************************************************************)
(* Program order outside the stream.                                       *)
(***************************************************************************)
OrderInv == RingInv /\ Latest /\ Awaited

Waiting == {"drain", "transfer", "synchronize"}

\* With nothing of the caller's left to wait for, its buffer is as expected.
LEMMA CaughtUp ==
  ASSUME TypeInv, Latest, Awaited, NEW c \in Callers, pc[c] \in Waiting, ahead[c] = 0
  PROVE  /\ \A i \in 1 .. Len(queue) : queue[i].data.buf # c
         /\ dev[c] = expected[c]
<1>1. \A i \in 1 .. Len(queue) : queue[i].data.buf # c
  BY DEF Awaited, Waiting
<1>2. \A k \in Chunk : dev[c][k] = expected[c][k]
  BY <1>1 DEF Latest, Targets
<1>3. dev[c] \in [Chunk -> Data \cup {Blank, Torn}] /\ expected[c] \in [Chunk -> Data \cup {Blank}]
  BY DEF TypeInv, TypeOK
<1> QED BY <1>1, <1>2, <1>3

\* A command put on the stream becomes the last one for its chunk.
LEMMA EnqueueLatest ==
  ASSUME TypeInv, Latest, NEW c \in Callers, NEW k \in Chunk, NEW n \in 1 .. MaxCalls,
         NEW s \in Slots \cup {NoSlot}, Enqueue(Written(c, k, n), s), UNCHANGED dev
  PROVE  Latest'
<1>1. /\ Len(queue) \in Nat
      /\ Len(queue') = Len(queue) + 1
      /\ \A i \in 1 .. Len(queue) : queue'[i] = queue[i]
      /\ queue'[Len(queue) + 1] = [data |-> Written(c, k, n), from |-> s]
      /\ expected' = [expected EXCEPT ![c][k] = Written(c, k, n)]
  BY Enqueued
<1>0. PICK last \in Nat : last = Len(queue) + 1
  BY <1>1
<1>2. /\ queue'[last].data = Written(c, k, n)
      /\ Written(c, k, n).buf = c /\ Written(c, k, n).chunk = k
  BY <1>0, <1>1, WrittenIsData
<1>3. expected \in [Callers -> [Chunk -> Data \cup {Blank}]]
  BY DEF TypeInv, TypeOK
<1>4. SUFFICES ASSUME NEW b \in Callers, NEW m \in Chunk
      PROVE  /\ (\A i \in 1 .. Len(queue') : ~Targets(i, b, m)') => dev'[b][m] = expected'[b][m]
             /\ \A i \in 1 .. Len(queue') :
                  Targets(i, b, m)' /\ (\A j \in i + 1 .. Len(queue') : ~Targets(j, b, m)')
                    => queue'[i].data = expected'[b][m]
  BY DEF Latest
<1>5. CASE b = c /\ m = k
  <2>1. Targets(last, b, m)'
    BY <1>2, <1>5 DEF Targets
  <2>2. last \in 1 .. Len(queue')
    BY <1>0, <1>1
  <2>3. expected'[b][m] = Written(c, k, n)
    BY <1>1, <1>3, <1>5
  <2>4. ASSUME NEW i \in 1 .. Len(queue'), \A j \in i + 1 .. Len(queue') : ~Targets(j, b, m)'
        PROVE  queue'[i].data = expected'[b][m]
    <3>1. last \notin i + 1 .. Len(queue')
      BY <2>1, <2>4
    <3>2. i = last
      BY <1>0, <1>1, <3>1
    <3> QED BY <1>2, <2>3, <3>2
  <2> QED BY <2>1, <2>2, <2>4
<1>6. CASE ~(b = c /\ m = k)
  <2>1. expected'[b][m] = expected[b][m]
    BY <1>1, <1>3, <1>6
  <2>2. ~Targets(last, b, m)'
    BY <1>2, <1>6 DEF Targets
  <2>3. \A i \in 1 .. Len(queue) : Targets(i, b, m)' <=> Targets(i, b, m)
    BY <1>1 DEF Targets
  <2>4. /\ (\A i \in 1 .. Len(queue) : ~Targets(i, b, m)) => dev[b][m] = expected[b][m]
        /\ \A i \in 1 .. Len(queue) :
             Targets(i, b, m) /\ (\A j \in i + 1 .. Len(queue) : ~Targets(j, b, m))
               => queue[i].data = expected[b][m]
    BY DEF Latest
  <2>5. (\A i \in 1 .. Len(queue') : ~Targets(i, b, m)') => dev'[b][m] = expected'[b][m]
    BY <1>1, <2>1, <2>3, <2>4
  <2>6. ASSUME NEW i \in 1 .. Len(queue'), Targets(i, b, m)',
               \A j \in i + 1 .. Len(queue') : ~Targets(j, b, m)'
        PROVE  queue'[i].data = expected'[b][m]
    <3>1. i \in 1 .. Len(queue)
      <4>1. i # last
        BY <2>2, <2>6
      <4> QED BY <1>0, <1>1, <4>1
    <3>2. \A j \in i + 1 .. Len(queue) : ~Targets(j, b, m)
      BY <1>1, <2>3, <2>6, <3>1
    <3> QED BY <1>1, <2>1, <2>3, <2>4, <2>6, <3>1, <3>2
  <2> QED BY <2>5, <2>6
<1> QED BY <1>5, <1>6

\* The oldest command, when it is the last for its chunk, brings what is
\* expected there: its slot still holds it.
LEMMA GpuLatest ==
  ASSUME RingInv, Latest, GpuStep
  PROVE  Latest'
<1>0. TypeInv
  BY DEF RingInv, ControlInv
<1>1. /\ queue[1] \in Command /\ Head(queue) = queue[1]
      /\ Len(queue) \in Nat \ {0}
      /\ Len(queue') = Len(queue) - 1
      /\ \A i \in 1 .. Len(queue') : queue'[i] = queue[i + 1]
  BY <1>0, Dequeued
<1>2. Carried(queue[1]) = queue[1].data
  <2>1. 1 \in 1 .. Len(queue)
    BY <1>1
  <2> QED BY <2>1 DEF Carried, RingInv, Guarded
<1>3. dev' = [dev EXCEPT ![queue[1].data.buf][queue[1].data.chunk] = queue[1].data]
  BY <1>1, <1>2 DEF GpuStep
<1>4. dev \in [Callers -> [Chunk -> Data \cup {Blank, Torn}]] /\ expected' = expected
  BY <1>0 DEF GpuStep, TypeInv, TypeOK
<1>5. queue[1].data.buf \in Callers /\ queue[1].data.chunk \in Chunk
  BY <1>1 DEF Command, Data
<1>6. SUFFICES ASSUME NEW b \in Callers, NEW m \in Chunk
      PROVE  /\ (\A i \in 1 .. Len(queue') : ~Targets(i, b, m)') => dev'[b][m] = expected[b][m]
             /\ \A i \in 1 .. Len(queue') :
                  Targets(i, b, m)' /\ (\A j \in i + 1 .. Len(queue') : ~Targets(j, b, m)')
                    => queue'[i].data = expected[b][m]
  BY <1>4 DEF Latest
<1>7. /\ (\A i \in 1 .. Len(queue) : ~Targets(i, b, m)) => dev[b][m] = expected[b][m]
      /\ \A i \in 1 .. Len(queue) :
           Targets(i, b, m) /\ (\A j \in i + 1 .. Len(queue) : ~Targets(j, b, m))
             => queue[i].data = expected[b][m]
  BY DEF Latest
<1>8. \A i \in 1 .. Len(queue') : Targets(i, b, m)' <=> Targets(i + 1, b, m)
  BY <1>1 DEF Targets
<1>9. ASSUME \A i \in 1 .. Len(queue') : ~Targets(i, b, m)'
      PROVE  dev'[b][m] = expected[b][m]
  <2>1. \A j \in 2 .. Len(queue) : ~Targets(j, b, m)
    <3> SUFFICES ASSUME NEW j \in 2 .. Len(queue) PROVE ~Targets(j, b, m)
      OBVIOUS
    <3>1. j - 1 \in 1 .. Len(queue') /\ (j - 1) + 1 = j
      BY <1>1
    <3> QED BY <1>8, <1>9, <3>1
  <2>2. CASE Targets(1, b, m)
    <3>1. queue[1].data = expected[b][m]
      BY <1>1, <1>7, <2>1, <2>2
    <3>2. dev'[b][m] = queue[1].data
      BY <1>3, <1>4, <1>5, <2>2 DEF Targets
    <3> QED BY <3>1, <3>2
  <2>3. CASE ~Targets(1, b, m)
    <3>1. \A i \in 1 .. Len(queue) : ~Targets(i, b, m)
      BY <1>1, <2>1, <2>3
    <3>2. dev'[b][m] = dev[b][m]
      BY <1>3, <1>4, <1>5, <2>3 DEF Targets
    <3> QED BY <1>7, <3>1, <3>2
  <2> QED BY <2>2, <2>3
<1>10. ASSUME NEW i \in 1 .. Len(queue'), Targets(i, b, m)',
              \A j \in i + 1 .. Len(queue') : ~Targets(j, b, m)'
       PROVE  queue'[i].data = expected[b][m]
  <2>1. i + 1 \in 1 .. Len(queue) /\ Targets(i + 1, b, m) /\ queue'[i] = queue[i + 1]
    BY <1>1, <1>8, <1>10
  <2>2. ASSUME NEW j \in i + 2 .. Len(queue) PROVE ~Targets(j, b, m)
    <3>1. j - 1 \in i + 1 .. Len(queue') /\ j - 1 \in 1 .. Len(queue') /\ (j - 1) + 1 = j
      BY <1>1
    <3> QED BY <1>8, <1>10, <3>1
  <2>3. (i + 1) + 1 = i + 2
    OBVIOUS
  <2> QED BY <1>7, <2>1, <2>2, <2>3
<1> QED BY <1>9, <1>10

LEMMA LatestStep == OrderInv /\ [Next]_vars => Latest'
<1> SUFFICES ASSUME OrderInv, [Next]_vars PROVE Latest'
  OBVIOUS
<1>0. TypeInv /\ RingInv /\ Latest /\ Awaited
  BY DEF OrderInv, RingInv, ControlInv
<1>1. CASE GpuStep
  BY <1>0, <1>1, GpuLatest
<1>2. ASSUME NEW c \in Callers, NEW k \in Chunk, AsyncWrite(c, k) PROVE Latest'
  <2>1. calls[c] + 1 \in 1 .. MaxCalls
    <3>1. calls[c] \in 0 .. MaxCalls /\ calls[c] < MaxCalls
      BY <1>0, <1>2 DEF AsyncWrite, Counted, TypeInv, TypeOK
    <3> QED BY <3>1, StagedAssumption
  <2> QED BY <1>0, <1>2, <2>1, EnqueueLatest DEF AsyncWrite
<1>3. ASSUME NEW c \in Callers, EnqueueChunk(c) PROVE Latest'
  <2>1. calls[c] \in 1 .. MaxCalls /\ off[c] + 1 \in Chunk
    BY <1>0, <1>3, OneUnderWay DEF EnqueueChunk
  <2>2. cursor \in Slots \cup {NoSlot}
    BY <1>0 DEF TypeInv, TypeOK
  <2> QED BY <1>0, <1>3, <2>1, <2>2, EnqueueLatest DEF EnqueueChunk
<1>4. ASSUME NEW c \in Callers, Transfer(c) PROVE Latest'
  <2>1. CASE op[c] = "write"
    <3>1. pc[c] = "transfer" /\ ahead[c] = 0
      BY <1>0, <1>4 DEF Transfer, Ordered, Awaited
    <3>2. \A i \in 1 .. Len(queue) : queue[i].data.buf # c
      BY <1>0, <3>1, CaughtUp DEF Waiting
    <3>3. /\ dev' = [dev EXCEPT ![c] = Contents(c)]
          /\ expected' = [expected EXCEPT ![c] = Contents(c)]
          /\ UNCHANGED queue
      BY <1>4, <2>1 DEF Transfer
    <3>4. dev'[c] = expected'[c] /\ \A d \in Callers \ {c} : dev'[d] = dev[d] /\ expected'[d] = expected[d]
      BY <1>0, <3>3 DEF TypeInv, TypeOK
    <3>5. ASSUME NEW b \in Callers, NEW m \in Chunk
          PROVE  /\ (\A i \in 1 .. Len(queue) : ~Targets(i, b, m)) => dev'[b][m] = expected'[b][m]
                 /\ \A i \in 1 .. Len(queue) :
                      Targets(i, b, m) /\ (\A j \in i + 1 .. Len(queue) : ~Targets(j, b, m))
                        => queue[i].data = expected'[b][m]
      <4>1. CASE b = c
        BY <3>2, <3>4, <4>1 DEF Targets
      <4>2. CASE b # c
        BY <1>0, <3>4, <4>2 DEF Latest
      <4> QED BY <4>1, <4>2
    <3> QED BY <3>3, <3>5 DEF Latest, Targets
  <2>2. CASE op[c] # "write"
    BY <1>0, <1>4, <2>2 DEF Transfer, Latest, Targets
  <2> QED BY <2>1, <2>2
<1>5. CASE UNCHANGED <<queue, dev, expected>>
  BY <1>0, <1>5 DEF Latest, Targets
<1>6. ASSUME NEW c \in Callers, Step(c), ~EnqueueChunk(c), ~Transfer(c)
      PROVE  UNCHANGED <<queue, dev, expected>>
  BY <1>6 DEF Step, StageRing, LockRing, NextChunk, SlotDrained, WideCopyDone, RecordEvent,
              StagedReturn, StagedSync, Synchronized, Drained
<1>7. ASSUME NEW c \in Callers,
             \/ \E kind \in {"async", "sync"} : StagedCall(c, kind)
             \/ \E kind \in {"write", "read"} : BlockingCall(c, kind)
             \/ Fail(c)
      PROVE  UNCHANGED <<queue, dev, expected>>
  BY <1>7 DEF StagedCall, BlockingCall, Fail
<1>8. CASE Close \/ CloseDrained \/ FreeRing \/ UNCHANGED vars
  BY <1>5, <1>8 DEF Close, CloseDrained, FreeRing, vars
<1> QED BY <1>1, <1>2, <1>3, <1>4, <1>5, <1>6, <1>7, <1>8 DEF Next, Finished

\* A step of a caller that puts nothing on the stream and does not wait.
LEMMA AwaitsNothing ==
  ASSUME TypeInv, Awaited, NEW c \in Callers, NEW p \in Places \ Waiting,
         pc' = [pc EXCEPT ![c] = p], UNCHANGED <<queue, legacy>>,
         \A d \in Callers \ {c} : ahead'[d] = ahead[d]
  PROVE  Awaited'
<1>1. pc'[c] = p /\ \A d \in Callers \ {c} : pc'[d] = pc[d]
  BY DEF TypeInv, TypeOK
<1> QED BY <1>1 DEF Awaited, Waiting

LEMMA ReturnAwaitsNothing ==
  ASSUME TypeInv, Awaited, NEW c \in Callers, Return(c), UNCHANGED <<queue, legacy>>
  PROVE  Awaited'
<1>1. "idle" \in Places \ Waiting /\ pc' = [pc EXCEPT ![c] = "idle"]
  BY DEF Return, Goto, Places, Waiting
<1>2. \A d \in Callers \ {c} : ahead'[d] = ahead[d]
  BY DEF Return, TypeInv, TypeOK
<1> QED BY <1>1, <1>2, AwaitsNothing

\* A caller that starts to wait does so for all that the stream holds.
LEMMA AwaitsAll ==
  ASSUME TypeInv, Awaited, NEW c \in Callers, NEW p \in Waiting, p = "transfer" => legacy,
         pc' = [pc EXCEPT ![c] = p], ahead' = [ahead EXCEPT ![c] = Len(queue)],
         UNCHANGED <<queue, legacy>>
  PROVE  Awaited'
<1>1. /\ pc'[c] = p /\ \A d \in Callers \ {c} : pc'[d] = pc[d]
      /\ ahead'[c] = Len(queue) /\ \A d \in Callers \ {c} : ahead'[d] = ahead[d]
      /\ Len(queue) \in Nat
  BY DEF TypeInv, TypeOK
<1> QED BY <1>1 DEF Awaited, Waiting

\* A caller that puts a command on the stream is not waiting for it.
LEMMA EnqueueAwaits ==
  ASSUME TypeInv, Awaited, NEW c \in Callers, NEW k \in Chunk, NEW n \in 1 .. MaxCalls,
         NEW s \in Slots \cup {NoSlot}, Enqueue(Written(c, k, n), s),
         pc'[c] \notin Waiting, \A d \in Callers \ {c} : pc'[d] = pc[d],
         UNCHANGED <<legacy, ahead>>
  PROVE  Awaited'
<1>1. /\ Len(queue) \in Nat
      /\ Len(queue') = Len(queue) + 1
      /\ \A i \in 1 .. Len(queue) : queue'[i] = queue[i]
      /\ queue'[Len(queue) + 1] = [data |-> Written(c, k, n), from |-> s]
  BY Enqueued
<1>2. queue'[Len(queue) + 1].data.buf = c
  BY <1>1, WrittenIsData
<1>3. ASSUME NEW d \in Callers, pc'[d] \in Waiting, NEW i \in 1 .. Len(queue'), queue'[i].data.buf = d
      PROVE  i <= ahead'[d]
  <2>1. d # c /\ pc[d] \in Waiting
    BY <1>3
  <2>2. i # Len(queue) + 1
    BY <1>2, <1>3, <2>1
  <2>3. i \in 1 .. Len(queue) /\ queue'[i] = queue[i]
    BY <1>1, <2>2
  <2> QED BY <1>3, <2>1, <2>3 DEF Awaited, Waiting
<1>4. ASSUME NEW d \in Callers, pc'[d] = "transfer", ~legacy' PROVE ahead'[d] = 0
  BY <1>4 DEF Awaited, Waiting
<1> QED BY <1>3, <1>4 DEF Awaited, Waiting

LEMMA AwaitedStep == OrderInv /\ [Next]_vars => Awaited'
<1> SUFFICES ASSUME OrderInv, [Next]_vars PROVE Awaited'
  OBVIOUS
<1>0. TypeInv /\ Latest /\ Awaited
  BY DEF OrderInv, RingInv, ControlInv
<1>1. CASE GpuStep
  <2>1. ASSUME NEW c \in Callers, pc'[c] \in Waiting, NEW i \in 1 .. Len(queue'), queue'[i].data.buf = c
        PROVE  i <= ahead'[c]
    <3>1. i + 1 \in 1 .. Len(queue) /\ queue'[i] = queue[i + 1]
      BY <1>0, <1>1, Dequeued
    <3>2. pc' = pc /\ ahead'[c] = CountDown(ahead[c])
      BY <1>1 DEF GpuStep
    <3>3. i + 1 <= ahead[c]
      BY <1>0, <2>1, <3>1, <3>2 DEF Awaited, Waiting
    <3>4. ahead[c] \in Nat
      BY <1>0 DEF TypeInv, TypeOK
    <3> QED BY <3>2, <3>3, <3>4 DEF CountDown
  <2>2. ASSUME NEW c \in Callers, pc'[c] = "transfer", ~legacy' PROVE ahead'[c] = 0
    BY <1>0, <1>1, <2>2 DEF GpuStep, CountDown, Awaited
  <2> QED BY <2>1, <2>2 DEF Awaited, Waiting
<1>2. ASSUME NEW c \in Callers, NEW k \in Chunk, AsyncWrite(c, k) PROVE Awaited'
  <2>1. calls[c] + 1 \in 1 .. MaxCalls
    <3>1. calls[c] \in 0 .. MaxCalls /\ calls[c] < MaxCalls
      BY <1>0, <1>2 DEF AsyncWrite, Counted, TypeInv, TypeOK
    <3> QED BY <3>1, StagedAssumption
  <2>2. pc'[c] \notin Waiting
    BY <1>2 DEF AsyncWrite, Waiting
  <2> QED BY <1>0, <1>2, <2>1, <2>2, EnqueueAwaits DEF AsyncWrite
<1>3. ASSUME NEW c \in Callers, NEW kind \in {"async", "sync"}, StagedCall(c, kind) PROVE Awaited'
  <2>1. "ring" \in Places \ Waiting /\ pc' = [pc EXCEPT ![c] = "ring"]
    BY <1>3 DEF StagedCall, Calling, Goto, Places, Waiting
  <2> QED BY <1>0, <1>3, <2>1, AwaitsNothing DEF StagedCall
<1>4. ASSUME NEW c \in Callers, NEW kind \in {"write", "read"}, BlockingCall(c, kind) PROVE Awaited'
  <2>1. PICK p \in Waiting : (p = "transfer" => legacy) /\ pc' = [pc EXCEPT ![c] = p]
    BY <1>4 DEF BlockingCall, Calling, Goto, Waiting
  <2> QED BY <1>0, <1>4, <2>1, AwaitsAll DEF BlockingCall
<1>5. ASSUME NEW c \in Callers, Step(c) PROVE Awaited'
  <2>1. CASE StageRing(c)
    BY <1>0, <2>1, AwaitsNothing DEF StageRing, Goto, Places, Waiting
  <2>2. CASE LockRing(c)
    BY <1>0, <2>2, AwaitsNothing DEF LockRing, Goto, Places, Waiting
  <2>3. CASE NextChunk(c)
    <3>1. PICK p \in {"wait", "copying"} : pc' = [pc EXCEPT ![c] = p]
      BY <2>3 DEF NextChunk, Filling, Goto
    <3>2. p \in Places \ Waiting
      BY DEF Places, Waiting
    <3> QED BY <1>0, <2>3, <3>1, <3>2, AwaitsNothing DEF NextChunk
  <2>4. CASE SlotDrained(c)
    BY <1>0, <2>4, AwaitsNothing DEF SlotDrained, Filling, Goto, Places, Waiting
  <2>5. CASE WideCopyDone(c)
    BY <1>0, <2>5, AwaitsNothing DEF WideCopyDone, Goto, Places, Waiting
  <2>6. CASE EnqueueChunk(c)
    <3>1. calls[c] \in 1 .. MaxCalls /\ off[c] + 1 \in Chunk
      BY <1>0, <2>6, OneUnderWay DEF EnqueueChunk
    <3>2. cursor \in Slots \cup {NoSlot} /\ pc \in [Callers -> Places]
      BY <1>0 DEF TypeInv, TypeOK
    <3>3. pc' = [pc EXCEPT ![c] = "record"]
      BY <2>6 DEF EnqueueChunk, Goto
    <3>4. pc'[c] \notin Waiting /\ \A d \in Callers \ {c} : pc'[d] = pc[d]
      BY <3>2, <3>3 DEF Waiting
    <3> QED BY <1>0, <2>6, <3>1, <3>2, <3>4, EnqueueAwaits DEF EnqueueChunk
  <2>7. CASE RecordEvent(c)
    BY <1>0, <2>7, AwaitsNothing DEF RecordEvent, Goto, Places, Waiting
  <2>8. CASE StagedReturn(c)
    BY <1>0, <2>8, ReturnAwaitsNothing DEF StagedReturn
  <2>9. CASE StagedSync(c)
    BY <1>0, <2>9, AwaitsAll DEF StagedSync, Goto, Waiting
  <2>10. CASE Synchronized(c)
    BY <1>0, <2>10, ReturnAwaitsNothing DEF Synchronized
  <2>11. CASE Drained(c)
    <3>1. /\ pc[c] = "drain" /\ ahead[c] = 0 /\ pc' = [pc EXCEPT ![c] = "transfer"]
          /\ UNCHANGED <<queue, legacy, ahead>>
      BY <2>11 DEF Drained, Goto
    <3>2. pc'[c] = "transfer" /\ \A d \in Callers \ {c} : pc'[d] = pc[d]
      BY <1>0, <3>1 DEF TypeInv, TypeOK
    <3> QED BY <1>0, <3>1, <3>2 DEF Awaited
  <2>12. CASE Transfer(c)
    BY <1>0, <2>12, ReturnAwaitsNothing DEF Transfer
  <2> QED
    BY <1>5, <2>1, <2>2, <2>3, <2>4, <2>5, <2>6, <2>7, <2>8, <2>9, <2>10, <2>11, <2>12 DEF Step
<1>6. ASSUME NEW c \in Callers, Fail(c) PROVE Awaited'
  BY <1>0, <1>6, ReturnAwaitsNothing DEF Fail
<1>7. CASE Close \/ CloseDrained \/ FreeRing
  BY <1>0, <1>7 DEF Close, CloseDrained, FreeRing, Awaited
<1>8. CASE UNCHANGED vars
  BY <1>0, <1>8 DEF vars, Awaited
<1> QED BY <1>1, <1>2, <1>3, <1>4, <1>5, <1>6, <1>7, <1>8 DEF Next, Finished

LEMMA OrderInvariant == ASSUME EventsRecorded PROVE Spec => []OrderInv
<1>1. Init => OrderInv
  <2>1. Init => LockHeld /\ Lifetime /\ Guarded /\ Filled
    BY StagedAssumption DEF Init, LockHeld, Lifetime, Guarded, Filled, Holding
  <2>2. Init => Latest /\ Awaited
    BY DEF Init, Latest, Awaited
  <2> QED BY <2>1, <2>2, TypeInit DEF OrderInv, RingInv, ControlInv
<1>2. OrderInv /\ [Next]_vars => OrderInv'
  BY TypeStep, ControlStep, RingStep, LatestStep, AwaitedStep DEF OrderInv, RingInv, ControlInv
<1> QED BY <1>1, <1>2, PTL DEF Spec

\* A blocking copy, which does not go through the stream, meets in the buffer
\* what the caller's own earlier calls put there, on a stream of either kind.
THEOREM TransfersOrdered == ASSUME EventsRecorded PROVE Spec => []TransferInProgramOrder
<1>1. OrderInv => TransferInProgramOrder
  <2> SUFFICES ASSUME OrderInv, NEW c \in Callers, Ordered(c) PROVE dev[c] = expected[c]
    BY DEF TransferInProgramOrder
  <2>1. TypeInv /\ Latest /\ Awaited
    BY DEF OrderInv, RingInv, ControlInv
  <2>2. pc[c] = "transfer" /\ ahead[c] = 0
    BY <2>1 DEF Ordered, Awaited
  <2> QED BY <2>1, <2>2, CaughtUp DEF Waiting
<1> QED BY <1>1, OrderInvariant, PTL

\* When copy_from_host_sync returns, its data is in device memory.
THEOREM SyncCopiesArrive == ASSUME EventsRecorded PROVE Spec => []SyncCopyArrived
<1>1. OrderInv => SyncCopyArrived
  BY CaughtUp DEF OrderInv, RingInv, ControlInv, SyncCopyArrived, Waiting
<1> QED BY <1>1, OrderInvariant, PTL
(***************************************************************************)
(* What a caller waits for, whichever driver call fails.                   *)
(***************************************************************************)

\* No event and no synchronize is ahead of more than the stream still holds.
OnStream ==
  /\ \A s \in Slots : event[s] <= Len(queue)
  /\ \A c \in Callers : ahead[c] <= Len(queue)

WaitInv == TypeInv /\ LockHeld /\ OnStream

LEMMA ReturnLetsGo ==
  ASSUME WaitInv, NEW c \in Callers, Return(c), UNCHANGED <<queue, event>>
  PROVE  LockHeld' /\ OnStream'
<1>1. LockHeld'
  BY StagedAssumption DEF WaitInv, TypeInv, TypeOK, Return, Goto, LockHeld, Holding
<1>2. ahead \in [Callers -> Nat] /\ Len(queue) \in Nat /\ ahead' = [ahead EXCEPT ![c] = 0]
  BY DEF WaitInv, TypeInv, TypeOK, Return
<1>3. OnStream'
  BY <1>2 DEF WaitInv, OnStream
<1> QED BY <1>1, <1>3

\* More on the stream, and what is waited for as before.
LEMMA MoreOnStream ==
  ASSUME WaitInv, NEW c \in Callers, NEW k \in Chunk, NEW n \in 1 .. MaxCalls,
         NEW s \in Slots \cup {NoSlot}, Enqueue(Written(c, k, n), s), UNCHANGED <<event, ahead>>
  PROVE  OnStream'
<1>1. Len(queue) \in Nat /\ Len(queue') = Len(queue) + 1
  BY Enqueued DEF WaitInv
<1>2. event \in [Slots -> Nat] /\ ahead \in [Callers -> Nat]
  BY DEF WaitInv, TypeInv, TypeOK
<1> QED BY <1>1, <1>2 DEF WaitInv, OnStream

\* The mutex and the waits, a step of a caller inside a call at a time.
LEMMA WaitStep == ASSUME WaitInv, NEW c \in Callers, Step(c) PROVE LockHeld' /\ OnStream'
<1> USE StagedAssumption DEF WaitInv
<1>0. /\ pc \in [Callers -> Places] /\ Len(queue) \in Nat
      /\ event \in [Slots -> Nat] /\ ahead \in [Callers -> Nat] /\ cursor \in Slots
  BY DEF TypeInv, TypeOK
<1>1. CASE StageRing(c) \/ LockRing(c) \/ Drained(c)
  <2>1. UNCHANGED <<queue, event, ahead>>
    BY <1>1 DEF StageRing, LockRing, Drained, ringVars
  <2>2. LockHeld'
    BY <1>0, <1>1 DEF StageRing, LockRing, Drained, ringVars, Goto, LockHeld, Holding
  <2> QED BY <2>1, <2>2 DEF OnStream
<1>2. CASE NextChunk(c) \/ SlotDrained(c) \/ WideCopyDone(c)
  <2>1. UNCHANGED <<queue, event, ahead>>
    BY <1>2 DEF NextChunk, SlotDrained, WideCopyDone
  <2>2. LockHeld'
    BY <1>0, <1>2 DEF NextChunk, SlotDrained, WideCopyDone, Filling, Goto, LockHeld, Holding
  <2> QED BY <2>1, <2>2 DEF OnStream
<1>3. CASE EnqueueChunk(c)
  <2>1. pc[c] = "enqueue" /\ pc' = [pc EXCEPT ![c] = "record"] /\ UNCHANGED <<event, ahead, lock>>
    BY <1>3 DEF EnqueueChunk, Goto, ringVars
  <2>2. LockHeld'
    BY <1>0, <2>1 DEF LockHeld, Holding
  <2>3. off[c] + 1 \in Chunk /\ calls[c] \in 1 .. MaxCalls
    BY <2>1, OneUnderWay
  <2> QED BY <1>0, <1>3, <2>1, <2>2, <2>3, MoreOnStream DEF EnqueueChunk
<1>4. CASE RecordEvent(c)
  <2>1. /\ event' = [event EXCEPT ![cursor] = Len(queue)] /\ UNCHANGED <<queue, ahead, lock>>
        /\ pc[c] = "record" /\ pc' = [pc EXCEPT ![c] = "chunk"]
    BY <1>4 DEF RecordEvent, Goto
  <2>2. LockHeld'
    BY <1>0, <2>1 DEF LockHeld, Holding
  <2>3. OnStream'
    BY <1>0, <2>1 DEF OnStream
  <2> QED BY <2>2, <2>3
<1>5. CASE StagedSync(c)
  <2>1. /\ ahead' = [ahead EXCEPT ![c] = Len(queue)] /\ UNCHANGED <<queue, event>>
        /\ pc[c] = "chunk" /\ pc' = [pc EXCEPT ![c] = "synchronize"] /\ lock' = NoCaller
    BY <1>5 DEF StagedSync, Goto
  <2>2. LockHeld'
    BY <1>0, <2>1 DEF LockHeld, Holding
  <2>3. OnStream'
    BY <1>0, <2>1 DEF OnStream
  <2> QED BY <2>2, <2>3
<1>6. CASE StagedReturn(c) \/ Synchronized(c) \/ Transfer(c)
  BY <1>6, ReturnLetsGo DEF StagedReturn, Synchronized, Transfer
<1> QED BY <1>1, <1>2, <1>3, <1>4, <1>5, <1>6 DEF Step

LEMMA WaitInvariant == Spec => []WaitInv
<1> USE DEF WaitInv
<1>1. Init => WaitInv
  <2>1. Init => LockHeld
    BY StagedAssumption DEF Init, LockHeld, Holding
  <2>2. Init => OnStream
    BY DEF Init, OnStream
  <2> QED BY <2>1, <2>2, TypeInit
<1>2. WaitInv /\ [Next]_vars => WaitInv'
  <2> SUFFICES ASSUME WaitInv, [Next]_vars PROVE LockHeld' /\ OnStream'
    BY TypeStep
  <2>0. /\ pc \in [Callers -> Places] /\ Len(queue) \in Nat
        /\ event \in [Slots -> Nat] /\ ahead \in [Callers -> Nat]
    BY DEF TypeInv, TypeOK
  <2>1. CASE GpuStep
    <3>1. Len(queue') = Len(queue) - 1 /\ Len(queue) \in Nat \ {0}
      BY <2>1, Dequeued
    <3>2. /\ event' = [s \in Slots |-> CountDown(event[s])]
          /\ ahead' = [d \in Callers |-> CountDown(ahead[d])]
      BY <2>1 DEF GpuStep
    <3>3. OnStream'
      BY <2>0, <3>1, <3>2 DEF OnStream, CountDown
    <3> QED BY <2>1, <3>3 DEF GpuStep, LockHeld
  <2>2. ASSUME NEW c \in Callers, NEW k \in Chunk, AsyncWrite(c, k) PROVE LockHeld' /\ OnStream'
    <3>1. calls[c] + 1 \in 1 .. MaxCalls
      BY <2>2, StagedAssumption DEF AsyncWrite, Counted, TypeInv, TypeOK
    <3>2. Enqueue(Written(c, k, calls[c] + 1), NoSlot) /\ UNCHANGED <<event, ahead, lock, pc>>
      BY <2>2 DEF AsyncWrite, ringVars
    <3> QED BY <3>1, <3>2, MoreOnStream DEF LockHeld
  <2>3. ASSUME NEW c \in Callers, NEW kind \in {"async", "sync"}, StagedCall(c, kind)
        PROVE  LockHeld' /\ OnStream'
    BY <2>0, <2>3 DEF StagedCall, Calling, Goto, LockHeld, OnStream, Holding, ringVars
  <2>4. ASSUME NEW c \in Callers, NEW kind \in {"write", "read"}, BlockingCall(c, kind)
        PROVE  LockHeld' /\ OnStream'
    <3>1. /\ pc[c] = "idle" /\ ahead' = [ahead EXCEPT ![c] = Len(queue)]
          /\ pc' = [pc EXCEPT ![c] = IF legacy THEN "transfer" ELSE "drain"]
          /\ UNCHANGED <<queue, event, lock>>
      BY <2>4 DEF BlockingCall, Calling, Goto, ringVars
    <3>2. OnStream'
      BY <2>0, <3>1 DEF OnStream
    <3>3. LockHeld'
      BY <2>0, <3>1 DEF LockHeld, Holding
    <3> QED BY <3>2, <3>3
  <2>5. ASSUME NEW c \in Callers, Fail(c) PROVE LockHeld' /\ OnStream'
    BY <2>5, ReturnLetsGo DEF Fail
  <2>6. CASE Close \/ CloseDrained \/ FreeRing
    BY <2>6 DEF Close, CloseDrained, FreeRing, ringVars, LockHeld, OnStream
  <2>7. CASE UNCHANGED vars
    BY <2>7 DEF vars, ringVars, LockHeld, OnStream
  <2> QED BY <2>1, <2>2, <2>3, <2>4, <2>5, <2>6, <2>7, WaitStep DEF Next, Finished
<1> QED BY <1>1, <1>2, PTL DEF Spec

\* No caller waits for what cannot come: the GPU has commands to run until the
\* slot's event fires or the synchronize returns, and the mutex is held by a
\* caller inside the copy loop only.  Any driver call may have failed.
THEOREM WaitsEnd == Spec => []AwaitedIsUnderWay
<1>1. WaitInv => AwaitedIsUnderWay
  <2> SUFFICES ASSUME WaitInv, NEW c \in Callers
               PROVE  /\ ahead[c] <= Len(queue)
                      /\ pc[c] = "wait" => event[cursor] <= Len(queue)
                      /\ lock # NoCaller => pc[lock] \in Holding
    BY DEF AwaitedIsUnderWay, Holding
  <2>1. cursor \in Slots /\ lock \in Callers \cup {NoCaller}
    BY DEF WaitInv, TypeInv, TypeOK
  <2> QED BY <2>1 DEF WaitInv, OnStream, LockHeld
<1> QED BY <1>1, WaitInvariant, PTL
=============================================================================
