--------------------------- MODULE CopyPool_proofs ---------------------------
(***************************************************************************)
(* Proofs about CopyPool, for any callers, workers, lengths and calls: a   *)
(* worker has a pointer into a caller's memory only while the call lasts,  *)
(* and a call returns with its range written once, page by page.           *)
(*                                                                         *)
(* The counter is what a call waits for, and Counted says what it counts:  *)
(* the workers with a job of the call, and the job about to be sent.  That *)
(* it counts workers rests on Once and Ahead: a call sends one job at most *)
(* to each worker.                                                         *)
(***************************************************************************)
EXTENDS CopyPool, FiniteSetTheorems, TLAPS

\* The workers with a job of c that is not counted down.
Busy(c) == {w \in Workers : \E j \in Outstanding(w) : j.caller = c}

Typed ==
  /\ pc \in [Callers -> {"idle", "offer", "send", "remainder", "check", "asleep"}]
  /\ call \in [Callers -> [count : 0 .. MaxCalls, len : Lengths \cup {0}]]
  /\ off \in [Callers -> Nat]
  /\ next \in [Callers -> 1 .. NWorkers + 1]
  /\ pending \in [Callers -> Int]
  /\ chan \in [Workers -> Seq(Job)]
  /\ job \in [Workers -> Job \cup {NoJob}]
  /\ wpc \in [Workers -> {"recv", "copy", "count", "notify", "gone"}]
  /\ dst \in [Callers -> [Span -> Callers \cup Workers \cup {Nobody, Twice}]]

\* What holds at each place of a call and of a worker's loop.
Placed ==
  /\ \A c \in Callers : pc[c] # "idle" => call[c].count >= 1
  /\ \A c \in Callers : pc[c] = "send" =>
       next[c] \in Workers /\ off[c] + StepOf(c) < call[c].len
  /\ \A w \in Workers : wpc[w] \in {"copy", "count", "notify"} => job[w] \in Job

Once ==
  /\ \A w \in Workers : \A i, k \in 1 .. Len(chan[w]) :
       chan[w][i].caller = chan[w][k].caller => i = k
  /\ \A w \in Workers : wpc[w] \in {"copy", "count"} =>
       \A i \in 1 .. Len(chan[w]) : chan[w][i].caller # job[w].caller

Ahead ==
  \A c \in Callers : pc[c] \in {"offer", "send"} => \A w \in Busy(c) : w < next[c]

Alone ==
  \A c \in Callers : call[c].len < ParallelMin =>
    Busy(c) = {} /\ pc[c] \in {"idle", "remainder"}

Counted ==
  \A c \in Callers : pending[c] = Cardinality(Busy(c)) + IF pc[c] = "send" THEN 1 ELSE 0

CopyInv == Typed /\ Placed /\ Once /\ Ahead /\ Alone /\ Counted /\ NoJobOutlivesCall
-----------------------------------------------------------------------------
(***************************************************************************)
(* Lengths, queues and counts.                                             *)
(***************************************************************************)
LEMMA LongestIs == Longest \in Lengths /\ \A m \in Lengths : m <= Longest
BY CopyPoolAssumption DEF Longest

LEMMA LengthType ==
  ASSUME Typed, NEW c \in Callers
  PROVE  call[c].len \in Lengths \cup {0} /\ call[c].len \in Nat /\ call[c].count \in 0 .. MaxCalls
<1>1. call[c] \in [count : 0 .. MaxCalls, len : Lengths \cup {0}]
  BY DEF Typed
<1>2. call[c].len \in Lengths \cup {0}
  BY <1>1
<1>3. call[c].count \in 0 .. MaxCalls
  BY <1>1
<1>4. Lengths \cup {0} \subseteq Nat
  BY CopyPoolAssumption
<1>5. call[c].len \in Nat
  BY <1>2, <1>4, Zenon
<1> QED
  BY <1>2, <1>3, <1>5

LEMMA StepType ==
  ASSUME Typed, NEW c \in Callers
  PROVE  StepOf(c) \in Nat
<1>1. call[c].len \in Nat /\ NWorkers + 1 \in Nat \ {0} /\ Page \in Nat \ {0}
  BY LengthType, CopyPoolAssumption
<1>2. \A m \in Nat, n \in Nat \ {0} : m \div n \in Nat
  OBVIOUS
<1>3. call[c].len \div (NWorkers + 1) \in Nat
  BY <1>1, <1>2
<1>4. (call[c].len \div (NWorkers + 1)) + Page - 1 \in Nat
  BY <1>1, <1>3
<1>5. ((call[c].len \div (NWorkers + 1)) + Page - 1) \div Page \in Nat
  BY <1>1, <1>2, <1>4
<1>6. \A m, n \in Nat : m * n \in Nat
  OBVIOUS
<1> QED
  BY <1>1, <1>5, <1>6 DEF StepOf

\* A job that c may send.
LEMMA JobType ==
  ASSUME Typed, Placed, NEW c \in Callers, pc[c] = "send"
  PROVE  [caller |-> c, call |-> call[c].count, off |-> off[c], len |-> StepOf(c)] \in Job
<1>1. call[c].len \in Lengths \cup {0} /\ call[c].len \in Nat /\ call[c].count \in 1 .. MaxCalls
  BY LengthType, CopyPoolAssumption DEF Placed
<1>2. off[c] \in Nat /\ StepOf(c) \in Nat /\ off[c] + StepOf(c) < call[c].len
  BY StepType DEF Typed, Placed
<1>3. call[c].len # 0
  BY <1>1, <1>2
<1>4. Longest \in Nat /\ call[c].len <= Longest
  BY <1>1, <1>3, LongestIs, CopyPoolAssumption
<1>5. off[c] \in Span
  BY <1>1, <1>2, <1>4 DEF Span
<1> QED
  BY <1>1, <1>2, <1>5 DEF Job

LEMMA Appended ==
  ASSUME NEW s \in Seq(Job), NEW j \in Job
  PROVE  /\ Append(s, j) \in Seq(Job) /\ Len(Append(s, j)) = Len(s) + 1
         /\ Append(s, j)[Len(s) + 1] = j
         /\ \A i \in 1 .. Len(s) : Append(s, j)[i] = s[i]
OBVIOUS

LEMMA HeadTail ==
  ASSUME NEW s \in Seq(Job), s # <<>>
  PROVE  /\ Len(s) \in Nat \ {0} /\ Head(s) \in Job /\ Head(s) = s[1]
         /\ Tail(s) \in Seq(Job) /\ Len(Tail(s)) = Len(s) - 1
         /\ \A i \in 1 .. Len(s) - 1 : Tail(s)[i] = s[i + 1]
OBVIOUS

LEMMA OutstandingType ==
  ASSUME Typed, Placed, NEW w \in Workers, NEW j \in Outstanding(w)
  PROVE  j \in Job /\ j.caller \in Callers
<1>1. j \in Job
  <2>1. CASE j \in InHand(w)
    BY <2>1 DEF InHand, Placed
  <2>2. CASE j \in {chan[w][i] : i \in 1 .. Len(chan[w])}
    BY <2>2 DEF Typed
  <2> QED
    BY <2>1, <2>2 DEF Outstanding
<1> QED
  BY <1>1 DEF Job

LEMMA BusyFinite ==
  ASSUME NEW c
  PROVE  /\ Busy(c) \subseteq Workers /\ IsFiniteSet(Busy(c))
         /\ Cardinality(Busy(c)) \in 0 .. NWorkers
<1>1. IsFiniteSet(Workers) /\ Cardinality(Workers) = NWorkers
  BY FS_Interval, CopyPoolAssumption DEF Workers
<1>2. Busy(c) \subseteq Workers
  BY DEF Busy
<1> QED
  BY <1>1, <1>2, FS_Subset, FS_CardinalityType

\* Nobody has a job of a call that has returned.
LEMMA IdleFree ==
  ASSUME NoJobOutlivesCall, NEW c \in Callers, pc[c] = "idle"
  PROVE  Busy(c) = {}
BY DEF NoJobOutlivesCall, Busy

LEMMA EmptyCount == Cardinality({}) = 0
BY FS_EmptySet

\* The counter never exceeds the workers.
LEMMA CountBound ==
  ASSUME CopyInv, NEW c \in Callers
  PROVE  pending[c] \in 0 .. NWorkers
<1>1. CASE pc[c] # "send"
  BY <1>1, BusyFinite, CopyPoolAssumption DEF CopyInv, Counted
<1>2. CASE pc[c] = "send"
  <2>1. next[c] \in Workers /\ next[c] \notin Busy(c)
    BY <1>2 DEF CopyInv, Placed, Ahead, Workers
  <2>2. /\ IsFiniteSet(Busy(c) \cup {next[c]})
        /\ Cardinality(Busy(c) \cup {next[c]}) =
             IF next[c] \in Busy(c) THEN Cardinality(Busy(c)) ELSE Cardinality(Busy(c)) + 1
    BY BusyFinite, FS_AddElement, Zenon
  <2>3. IsFiniteSet(Workers) /\ Cardinality(Workers) = NWorkers
    BY FS_Interval, CopyPoolAssumption DEF Workers
  <2>4. Busy(c) \cup {next[c]} \subseteq Workers
    BY <2>1, BusyFinite
  <2>5. Cardinality(Busy(c) \cup {next[c]}) <= NWorkers
    BY <2>3, <2>4, FS_Subset
  <2> QED
    BY <1>2, <2>1, <2>2, <2>5, BusyFinite, CopyPoolAssumption DEF CopyInv, Counted
<1> QED
  BY <1>1, <1>2
-----------------------------------------------------------------------------
(***************************************************************************)
(* The steps of a caller.                                                  *)
(***************************************************************************)

\* A caller's step that leaves the workers and the other callers as they are.
LEMMA CallerKeeps ==
  ASSUME CopyInv, NEW c \in Callers, UNCHANGED <<chan, job, wpc>>,
         Typed', Placed',
         \A d \in Callers \ {c} : /\ pc'[d] = pc[d] /\ call'[d] = call[d]
                                  /\ next'[d] = next[d] /\ pending'[d] = pending[d],
         pc'[c] \in {"offer", "send"} =>
           (next'[c] = next[c] /\ pc[c] \in {"offer", "send"}) \/ Busy(c) = {},
         call'[c].len < ParallelMin => Busy(c) = {} /\ pc'[c] \in {"idle", "remainder"},
         pending'[c] = Cardinality(Busy(c)) + IF pc'[c] = "send" THEN 1 ELSE 0,
         Busy(c) # {} => pc'[c] # "idle" /\ call'[c].count = call[c].count
  PROVE  CopyInv'
<1> USE DEF CopyInv
<1>1. \A w \in Workers : Outstanding(w)' = Outstanding(w)
  BY DEF Outstanding, InHand
<1>2. \A d : Busy(d)' = Busy(d)
  BY <1>1 DEF Busy
<1>3. Once'
  BY DEF Once
<1>4. Ahead'
  BY <1>2 DEF Ahead
<1>5. Alone'
  BY <1>2 DEF Alone
<1>6. Counted'
  BY <1>2 DEF Counted
<1>7. NoJobOutlivesCall'
  <2> SUFFICES ASSUME NEW w \in Workers, NEW j \in Outstanding(w)
               PROVE  pc'[j.caller] # "idle" /\ call'[j.caller].count = j.call
    BY <1>1 DEF NoJobOutlivesCall
  <2>1. j.caller \in Callers
    BY OutstandingType
  <2>2. CASE j.caller = c
    <3>1. Busy(c) # {}
      BY <2>2 DEF Busy
    <3> QED
      BY <2>2, <3>1 DEF NoJobOutlivesCall
  <2>3. CASE j.caller # c
    BY <2>1, <2>3 DEF NoJobOutlivesCall
  <2> QED
    BY <2>2, <2>3
<1> QED
  BY <1>3, <1>4, <1>5, <1>6, <1>7

LEMMA BeginStep ==
  ASSUME CopyInv, NEW c \in Callers, NEW len \in Lengths, Begin(c, len)
  PROVE  CopyInv'
<1> USE DEF CopyInv
<1>1. Busy(c) = {} /\ pc[c] = "idle"
  BY IdleFree DEF Begin
<1>2. /\ pc'[c] = IF len < ParallelMin THEN "remainder" ELSE "offer"
      /\ call'[c] = [count |-> call[c].count + 1, len |-> len]
      /\ call[c].count \in Nat /\ call[c].count + 1 <= MaxCalls
      /\ next'[c] = 1 /\ pending'[c] = 0 /\ off'[c] = 0
  BY CopyPoolAssumption DEF Begin, Goto, Typed
<1>3. /\ \A d \in Callers \ {c} : /\ pc'[d] = pc[d] /\ call'[d] = call[d]
                                  /\ next'[d] = next[d] /\ pending'[d] = pending[d]
                                  /\ off'[d] = off[d]
      /\ UNCHANGED <<chan, job, wpc>>
  BY DEF Begin, Goto, Typed
<1>4. Typed'
  <2>1. call' \in [Callers -> [count : 0 .. MaxCalls, len : Lengths \cup {0}]]
    BY <1>2 DEF Begin, Typed
  <2>2. pc' \in [Callers -> {"idle", "offer", "send", "remainder", "check", "asleep"}]
    BY DEF Begin, Goto, Typed
  <2>3. dst' \in [Callers -> [Span -> Callers \cup Workers \cup {Nobody, Twice}]]
    BY DEF Begin, Typed
  <2>4. off' \in [Callers -> Nat] /\ next' \in [Callers -> 1 .. NWorkers + 1]
        /\ pending' \in [Callers -> Int]
    BY CopyPoolAssumption DEF Begin, Typed
  <2> QED
    BY <1>3, <2>1, <2>2, <2>3, <2>4 DEF Typed
<1>5. Placed'
  BY <1>2, <1>3 DEF Placed, StepOf
<1>6. pending'[c] = Cardinality(Busy(c)) + IF pc'[c] = "send" THEN 1 ELSE 0
  BY <1>1, <1>2, EmptyCount
<1>7. call'[c].len < ParallelMin => pc'[c] \in {"idle", "remainder"}
  BY <1>2
<1> QED
  BY <1>1, <1>3, <1>4, <1>5, <1>6, <1>7, CallerKeeps

\* The steps between the slices.
LEMMA PlaceStep ==
  ASSUME CopyInv, NEW c \in Callers,
         Count(c) \/ Offered(c) \/ SendToGone(c) \/ Remainder(c) \/ Check(c)
  PROVE  CopyInv'
<1> USE DEF CopyInv
<1>1. /\ UNCHANGED <<call, off, next, chan, job, wpc>>
      /\ \A d \in Callers \ {c} : pc'[d] = pc[d] /\ pending'[d] = pending[d]
  BY DEF Count, Offered, SendToGone, Remainder, Check, Goto, Typed
<1>2. dst' \in [Callers -> [Span -> Callers \cup Workers \cup {Nobody, Twice}]]
  <2>1. CASE Remainder(c)
    BY <2>1 DEF Remainder, Write, Typed
  <2>2. CASE UNCHANGED dst
    BY <2>2 DEF Typed
  <2> QED
    BY <2>1, <2>2 DEF Count, Offered, SendToGone, Check
<1>3. /\ pc' \in [Callers -> {"idle", "offer", "send", "remainder", "check", "asleep"}]
      /\ pending' \in [Callers -> Int]
  <2>1. pc' \in [Callers -> {"idle", "offer", "send", "remainder", "check", "asleep"}]
    BY DEF Count, Offered, SendToGone, Remainder, Check, Goto, Typed
  <2>2. \/ UNCHANGED pending
        \/ pending' = [pending EXCEPT ![c] = pending[c] + 1]
        \/ pending' = [pending EXCEPT ![c] = pending[c] - 1]
    BY DEF Count, Offered, SendToGone, Remainder, Check
  <2> QED
    BY <2>1, <2>2 DEF Typed
<1>4. Typed'
  BY <1>1, <1>2, <1>3 DEF Typed
<1>5. StepOf(c)' = StepOf(c) /\ \A d \in Callers : StepOf(d)' = StepOf(d)
  BY <1>1 DEF StepOf
<1>6. pc[c] # "idle" /\ (pc'[c] = "send" => next[c] \in Workers /\ off[c] + StepOf(c) < call[c].len)
  BY DEF Count, Offered, SendToGone, Remainder, Check, Goto, Typed
<1>7. Placed'
  BY <1>1, <1>5, <1>6 DEF Placed
<1>8. Cardinality(Busy(c)) \in Nat
  BY BusyFinite
<1>9. /\ pending[c] = Cardinality(Busy(c)) + IF pc[c] = "send" THEN 1 ELSE 0
      /\ call[c].len < ParallelMin => Busy(c) = {} /\ pc[c] \in {"idle", "remainder"}
      /\ pending[c] \in Int /\ pc[c] \in {"idle", "offer", "send", "remainder", "check", "asleep"}
  BY DEF Counted, Alone, Typed
<1>10. pending'[c] = Cardinality(Busy(c)) + IF pc'[c] = "send" THEN 1 ELSE 0
  <2>1. CASE Count(c)
    BY <1>8, <1>9, <2>1 DEF Count, Goto, Typed
  <2>2. CASE SendToGone(c)
    BY <1>8, <1>9, <2>2 DEF SendToGone, Goto, Typed
  <2>3. CASE Offered(c) \/ Remainder(c) \/ Check(c)
    BY <1>8, <1>9, <2>3 DEF Offered, Remainder, Check, Goto, Typed
  <2> QED
    BY <2>1, <2>2, <2>3
<1>11. Busy(c) # {} => pc'[c] # "idle"
  <2>1. CASE Remainder(c)
    BY <1>9, <2>1 DEF Remainder, Goto, Typed
  <2>2. CASE Check(c) /\ pc'[c] = "idle"
    <3>1. pending[c] <= 0 /\ pc[c] = "check"
      BY <1>9, <2>2 DEF Check, Goto, Typed
    <3>2. Cardinality(Busy(c)) = 0
      BY <1>8, <1>9, <3>1
    <3> QED
      BY <3>2, BusyFinite, FS_EmptySet
  <2> QED
    BY <2>1, <2>2 DEF Count, Offered, SendToGone, Goto, Typed
<1>12. pc'[c] \in {"offer", "send"} => pc[c] \in {"offer", "send"}
  BY DEF Count, Offered, SendToGone, Remainder, Check, Goto, Typed
<1>13. call[c].len < ParallelMin => pc'[c] \in {"idle", "remainder"}
  BY <1>9 DEF Count, Offered, SendToGone, Remainder, Check, Goto, Typed
<1> QED
  BY <1>1, <1>4, <1>7, <1>9, <1>10, <1>11, <1>12, <1>13, CallerKeeps

\* A job sent: one worker more is busy, and none that was.
LEMMA SendStep ==
  ASSUME CopyInv, NEW c \in Callers, Send(c)
  PROVE  CopyInv'
<1> USE DEF CopyInv
<1>0. pc[c] = "send" /\ next[c] \in Workers
  BY DEF Send, Placed
<1> PICK n \in Workers : n = next[c]
  BY <1>0
<1> PICK j \in Job : j = [caller |-> c, call |-> call[c].count, off |-> off[c], len |-> StepOf(c)]
  BY <1>0, JobType
<1>1. pc[c] = "send" /\ n \notin Busy(c) /\ StepOf(c) \in Nat
  BY <1>0, StepType DEF Ahead, Workers
<1>2. /\ chan' = [chan EXCEPT ![n] = Append(chan[n], j)]
      /\ off' = [off EXCEPT ![c] = off[c] + StepOf(c)]
      /\ next' = [next EXCEPT ![c] = n + 1]
      /\ pc' = [pc EXCEPT ![c] = "offer"]
      /\ UNCHANGED <<call, pending, job, wpc, dst>>
  BY DEF Send, Goto
<1>3. chan[n] \in Seq(Job) /\ Len(chan[n]) \in Nat
  BY <1>1 DEF Typed
<1>4. /\ chan'[n] = Append(chan[n], j) /\ chan'[n] \in Seq(Job) /\ Len(chan'[n]) = Len(chan[n]) + 1
      /\ chan'[n][Len(chan[n]) + 1] = j
      /\ \A i \in 1 .. Len(chan[n]) : chan'[n][i] = chan[n][i]
      /\ \A w \in Workers \ {n} : chan'[w] = chan[w]
  BY <1>1, <1>2, <1>3, Appended DEF Typed
<1>5. \A w \in Workers : Outstanding(w)' = Outstanding(w) \cup (IF w = n THEN {j} ELSE {})
  <2>1. ASSUME NEW w \in Workers \ {n} PROVE Outstanding(w)' = Outstanding(w)
    BY <1>2, <1>4 DEF Outstanding, InHand
  <2>2. {chan'[n][i] : i \in 1 .. Len(chan'[n])} = {chan[n][i] : i \in 1 .. Len(chan[n])} \cup {j}
    BY <1>3, <1>4
  <2>3. Outstanding(n)' = Outstanding(n) \cup {j}
    BY <1>2, <2>2 DEF Outstanding, InHand
  <2> QED
    BY <2>1, <2>3
<1>6. Busy(c)' = Busy(c) \cup {n} /\ \A d \in Callers \ {c} : Busy(d)' = Busy(d)
  BY <1>1, <1>5 DEF Busy
<1>7. Cardinality(Busy(c)') = Cardinality(Busy(c)) + 1
  <2>1. Cardinality(Busy(c) \cup {n}) =
          IF n \in Busy(c) THEN Cardinality(Busy(c)) ELSE Cardinality(Busy(c)) + 1
    BY BusyFinite, FS_AddElement, Zenon
  <2> QED
    BY <1>1, <1>6, <2>1
<1>8. /\ pc'[c] = "offer" /\ next'[c] = n + 1
      /\ \A d \in Callers \ {c} : pc'[d] = pc[d] /\ next'[d] = next[d] /\ off'[d] = off[d]
  BY <1>2 DEF Typed
<1>9. Typed'
  <2>1. next' \in [Callers -> 1 .. NWorkers + 1]
    BY <1>1, <1>2, CopyPoolAssumption DEF Typed, Workers
  <2>2. off' \in [Callers -> Nat]
    BY <1>1, <1>2 DEF Typed
  <2>3. chan' \in [Workers -> Seq(Job)]
    BY <1>2, <1>4 DEF Typed
  <2>4. pc' \in [Callers -> {"idle", "offer", "send", "remainder", "check", "asleep"}]
    BY <1>2 DEF Typed
  <2> QED
    BY <1>2, <2>1, <2>2, <2>3, <2>4 DEF Typed
<1>10. Placed'
  BY <1>1, <1>2, <1>8 DEF Placed, StepOf
<1>11. Once'
  <2>1. \A i \in 1 .. Len(chan[n]) : chan[n][i].caller # c
    BY <1>1 DEF Busy, Outstanding
  <2>2. wpc[n] \in {"copy", "count"} => job[n].caller # c
    BY <1>1 DEF Busy, Outstanding, InHand
  <2>3. j.caller = c
    OBVIOUS
  <2>4. \A i \in 1 .. Len(chan'[n]) : i = Len(chan[n]) + 1 \/ i \in 1 .. Len(chan[n])
    BY <1>3, <1>4
  <2>5. \A i \in 1 .. Len(chan'[n]) :
          IF i = Len(chan[n]) + 1 THEN chan'[n][i] = j
          ELSE i \in 1 .. Len(chan[n]) /\ chan'[n][i] = chan[n][i]
    BY <1>4, <2>4
  <2>6. ASSUME NEW i \in 1 .. Len(chan'[n]), NEW k \in 1 .. Len(chan'[n]),
               chan'[n][i].caller = chan'[n][k].caller
        PROVE  i = k
    <3>1. i = Len(chan[n]) + 1 <=> k = Len(chan[n]) + 1
      BY <2>1, <2>3, <2>5, <2>6
    <3>2. CASE i \in 1 .. Len(chan[n]) /\ k \in 1 .. Len(chan[n])
      BY <2>5, <2>6, <3>1, <3>2, <1>4 DEF Once
    <3> QED
      BY <2>4, <3>1, <3>2
  <2>7. ASSUME wpc[n] \in {"copy", "count"}, NEW i \in 1 .. Len(chan'[n])
        PROVE  chan'[n][i].caller # job[n].caller
    BY <2>2, <2>3, <2>5, <2>7 DEF Once
  <2> QED
    BY <1>2, <1>4, <2>6, <2>7 DEF Once
<1>12. Ahead'
  <2>1. \A w \in Busy(c) : w < n
    BY <1>1 DEF Ahead
  <2>2. \A w \in Busy(c)' : w < n + 1
    BY <1>1, <1>6, <2>1, BusyFinite DEF Workers
  <2> QED
    BY <1>6, <1>8, <2>2 DEF Ahead
<1>13. Alone'
  BY <1>1, <1>2, <1>6, <1>8 DEF Alone
<1>14. Counted'
  <2>1. pending'[c] = Cardinality(Busy(c)') + IF pc'[c] = "send" THEN 1 ELSE 0
    <3>1. pending'[c] = Cardinality(Busy(c)) + 1 /\ Cardinality(Busy(c)) \in Nat
      BY <1>1, <1>2, BusyFinite DEF Counted
    <3> QED
      BY <1>7, <1>8, <3>1
  <2>2. \A d \in Callers \ {c} :
          pending'[d] = Cardinality(Busy(d)') + IF pc'[d] = "send" THEN 1 ELSE 0
    BY <1>2, <1>6, <1>8 DEF Counted
  <2> QED
    BY <2>1, <2>2 DEF Counted
<1>15. NoJobOutlivesCall'
  <2> SUFFICES ASSUME NEW w \in Workers, NEW x \in Outstanding(w)'
               PROVE  pc'[x.caller] # "idle" /\ call'[x.caller].count = x.call
    BY DEF NoJobOutlivesCall
  <2>1. CASE x = j
    BY <1>2, <1>8, <2>1
  <2>2. CASE x \in Outstanding(w)
    BY <1>2, <1>8, <2>2, OutstandingType DEF NoJobOutlivesCall
  <2> QED
    BY <1>5, <2>1, <2>2
<1> QED
  BY <1>9, <1>10, <1>11, <1>12, <1>13, <1>14, <1>15
-----------------------------------------------------------------------------
(***************************************************************************)
(* The steps of a worker.                                                  *)
(***************************************************************************)

\* A worker's step that counts nothing.
LEMMA WorkerKeeps ==
  ASSUME CopyInv, UNCHANGED <<call, off, next, pending>>, Typed', Placed', Once',
         \A w \in Workers : Outstanding(w)' = Outstanding(w),
         \A c \in Callers : pc'[c] = pc[c] \/ (pc[c] = "asleep" /\ pc'[c] = "check")
  PROVE  CopyInv'
<1> USE DEF CopyInv
<1>1. \A c : Busy(c)' = Busy(c)
  BY DEF Busy
<1>2. Ahead'
  BY <1>1 DEF Ahead
<1>3. Alone'
  BY <1>1 DEF Alone
<1>4. Counted'
  BY <1>1 DEF Counted
<1>5. NoJobOutlivesCall'
  BY OutstandingType DEF NoJobOutlivesCall
<1> QED
  BY <1>2, <1>3, <1>4, <1>5

LEMMA ReceiveStep ==
  ASSUME CopyInv, NEW w \in Workers, Receive(w)
  PROVE  CopyInv'
<1> USE DEF CopyInv
<1>1. /\ wpc[w] = "recv" /\ chan[w] # <<>> /\ chan[w] \in Seq(Job)
      /\ job' = [job EXCEPT ![w] = Head(chan[w])]
      /\ chan' = [chan EXCEPT ![w] = Tail(chan[w])]
      /\ wpc' = [wpc EXCEPT ![w] = "copy"]
      /\ UNCHANGED <<pc, call, off, next, pending, dst>>
  BY DEF Receive, Typed
<1>2. /\ Len(chan[w]) \in Nat \ {0} /\ chan[w][1] \in Job
      /\ job'[w] = chan[w][1] /\ chan'[w] \in Seq(Job) /\ Len(chan'[w]) = Len(chan[w]) - 1
      /\ \A i \in 1 .. Len(chan[w]) - 1 : chan'[w][i] = chan[w][i + 1]
      /\ wpc'[w] = "copy"
      /\ \A v \in Workers \ {w} : chan'[v] = chan[v] /\ job'[v] = job[v] /\ wpc'[v] = wpc[v]
  BY <1>1, HeadTail DEF Typed
<1>3. Typed'
  <2>1. job' \in [Workers -> Job \cup {NoJob}]
    BY <1>1, <1>2 DEF Typed
  <2>2. chan' \in [Workers -> Seq(Job)]
    BY <1>1, <1>2 DEF Typed
  <2>3. wpc' \in [Workers -> {"recv", "copy", "count", "notify", "gone"}]
    BY <1>1 DEF Typed
  <2> QED
    BY <1>1, <2>1, <2>2, <2>3 DEF Typed
<1>4. Placed'
  BY <1>1, <1>2 DEF Placed, StepOf
<1>5. ASSUME NEW v \in Workers
      PROVE  Outstanding(v)' = Outstanding(v)
  <2>1. CASE v # w
    BY <1>2, <2>1 DEF Outstanding, InHand
  <2>2. CASE v = w
    <3>1. {chan[w][i] : i \in 1 .. Len(chan[w])} =
            {chan[w][1]} \cup {chan'[w][i] : i \in 1 .. Len(chan'[w])}
      <4>1. \A i \in 1 .. Len(chan[w]) : i = 1 \/ (i - 1 \in 1 .. Len(chan'[w])
                                                  /\ chan'[w][i - 1] = chan[w][i])
        BY <1>2
      <4>2. \A i \in 1 .. Len(chan'[w]) : i + 1 \in 1 .. Len(chan[w]) /\ chan'[w][i] = chan[w][i + 1]
        BY <1>2
      <4>3. 1 \in 1 .. Len(chan[w])
        BY <1>2
      <4>4. ASSUME NEW i \in 1 .. Len(chan[w])
            PROVE  chan[w][i] \in {chan[w][1]} \cup {chan'[w][k] : k \in 1 .. Len(chan'[w])}
        BY <4>1
      <4>5. ASSUME NEW i \in 1 .. Len(chan'[w])
            PROVE  chan'[w][i] \in {chan[w][k] : k \in 1 .. Len(chan[w])}
        BY <4>2
      <4>6. chan[w][1] \in {chan[w][k] : k \in 1 .. Len(chan[w])}
        BY <4>3
      <4> QED
        BY <4>4, <4>5, <4>6
    <3>2. InHand(w) = {} /\ InHand(w)' = {chan[w][1]}
      BY <1>1, <1>2 DEF InHand
    <3>3. Outstanding(w)' = {chan[w][1]} \cup {chan'[w][i] : i \in 1 .. Len(chan'[w])}
      BY <3>2 DEF Outstanding
    <3>4. Outstanding(w) = {chan[w][i] : i \in 1 .. Len(chan[w])}
      BY <3>2 DEF Outstanding
    <3> QED
      BY <2>2, <3>1, <3>3, <3>4
  <2> QED
    BY <2>1, <2>2
<1>6. Once'
  <2>1. \A i \in 1 .. Len(chan'[w]) : i + 1 \in 1 .. Len(chan[w]) /\ chan'[w][i] = chan[w][i + 1]
    BY <1>2
  <2>2. 1 \in 1 .. Len(chan[w]) /\ \A i \in 1 .. Len(chan'[w]) : i + 1 # 1
    BY <1>2
  <2>3. \A i \in 1 .. Len(chan'[w]) : chan'[w][i].caller # job'[w].caller
    BY <1>2, <2>1, <2>2 DEF Once
  <2>4. ASSUME NEW i \in 1 .. Len(chan'[w]), NEW k \in 1 .. Len(chan'[w]),
               chan'[w][i].caller = chan'[w][k].caller
        PROVE  i = k
    <3>1. i + 1 = k + 1
      BY <2>1, <2>4 DEF Once
    <3> QED
      BY <3>1
  <2>5. ASSUME NEW v \in Workers, NEW i \in 1 .. Len(chan'[v]), NEW k \in 1 .. Len(chan'[v]),
               chan'[v][i].caller = chan'[v][k].caller
        PROVE  i = k
    <3>1. CASE v = w
      BY <2>4, <2>5, <3>1
    <3>2. CASE v # w
      <4>1. chan'[v] = chan[v]
        BY <1>2, <3>2
      <4> QED
        BY <2>5, <4>1 DEF Once
    <3> QED
      BY <3>1, <3>2
  <2>6. ASSUME NEW v \in Workers, wpc'[v] \in {"copy", "count"}, NEW i \in 1 .. Len(chan'[v])
        PROVE  chan'[v][i].caller # job'[v].caller
    <3>1. CASE v = w
      BY <2>3, <2>6, <3>1
    <3>2. CASE v # w
      <4>1. chan'[v] = chan[v] /\ job'[v] = job[v] /\ wpc'[v] = wpc[v]
        BY <1>2, <3>2
      <4> QED
        BY <2>6, <4>1 DEF Once
    <3> QED
      BY <3>1, <3>2
  <2> QED
    BY <2>5, <2>6 DEF Once
<1> QED
  BY <1>1, <1>3, <1>4, <1>5, <1>6, WorkerKeeps

\* The job counted down was the worker's only one of its call.
LEMMA CountDownStep ==
  ASSUME CopyInv, NEW w \in Workers, CountDown(w)
  PROVE  CopyInv'
<1> USE DEF CopyInv
<1>1. wpc[w] = "count" /\ job[w] \in Job /\ job[w].caller \in Callers
  BY DEF CountDown, Placed, Job
<1> PICK c \in Callers : c = job[w].caller
  BY <1>1
<1>2. /\ pending' = [pending EXCEPT ![c] = pending[c] - 1]
      /\ wpc' = [wpc EXCEPT ![w] = "notify"]
      /\ UNCHANGED <<pc, call, off, next, chan, job, dst>>
  BY DEF CountDown
<1>3. wpc'[w] = "notify" /\ \A v \in Workers \ {w} : wpc'[v] = wpc[v]
  BY <1>2 DEF Typed
<1>4. \A v \in Workers \ {w} : Outstanding(v)' = Outstanding(v)
  BY <1>2, <1>3 DEF Outstanding, InHand
<1>5. Outstanding(w) = Outstanding(w)' \cup {job[w]}
  BY <1>1, <1>2, <1>3 DEF Outstanding, InHand
<1>6. \A x \in Outstanding(w)' : x.caller # c
  BY <1>1, <1>2, <1>3 DEF Outstanding, InHand, Once
<1>7. w \in Busy(c) /\ Busy(c)' = Busy(c) \ {w}
  BY <1>4, <1>5, <1>6 DEF Busy
<1>8. \A d \in Callers \ {c} : Busy(d)' = Busy(d)
  BY <1>4, <1>5 DEF Busy
<1>9. Cardinality(Busy(c)') = Cardinality(Busy(c)) - 1
  <2>1. Cardinality(Busy(c) \ {w}) =
          IF w \in Busy(c) THEN Cardinality(Busy(c)) - 1 ELSE Cardinality(Busy(c))
    BY BusyFinite, FS_RemoveElement, Zenon
  <2> QED
    BY <1>7, <2>1
<1>10. Typed'
  BY <1>2 DEF Typed
<1>11. Placed'
  <2>1. \A d \in Callers : StepOf(d)' = StepOf(d)
    BY <1>2 DEF StepOf
  <2>2. \A v \in Workers : wpc'[v] \in {"copy", "count", "notify"} => job'[v] \in Job
    BY <1>1, <1>2, <1>3 DEF Placed
  <2> QED
    BY <1>2, <2>1, <2>2 DEF Placed
<1>12. Once'
  BY <1>2, <1>3 DEF Once
<1>13. Ahead'
  BY <1>2, <1>7, <1>8 DEF Ahead
<1>14. Alone'
  BY <1>2, <1>7, <1>8 DEF Alone
<1>15. Counted'
  <2>1. pending'[c] = Cardinality(Busy(c)') + IF pc'[c] = "send" THEN 1 ELSE 0
    <3>1. pending[c] \in Int /\ Cardinality(Busy(c)) \in Nat /\ pending'[c] = pending[c] - 1
      BY <1>2, BusyFinite DEF Typed
    <3> QED
      BY <1>2, <1>9, <3>1 DEF Counted
  <2>2. \A d \in Callers \ {c} :
          pending'[d] = Cardinality(Busy(d)') + IF pc'[d] = "send" THEN 1 ELSE 0
    BY <1>2, <1>8 DEF Counted, Typed
  <2> QED
    BY <2>1, <2>2 DEF Counted
<1>16. NoJobOutlivesCall'
  BY <1>2, <1>4, <1>5 DEF NoJobOutlivesCall
<1> QED
  BY <1>10, <1>11, <1>12, <1>13, <1>14, <1>15, <1>16

LEMMA CopyInvStep ==
  ASSUME CopyInv, [Next]_vars
  PROVE  CopyInv'
<1> USE DEF CopyInv
<1>1. ASSUME NEW c \in Callers, CallerStep(c)
      PROVE  CopyInv'
  BY <1>1, PlaceStep, SendStep DEF CallerStep
<1>2. ASSUME NEW c \in Callers, NEW len \in Lengths, Begin(c, len)
      PROVE  CopyInv'
  BY <1>2, BeginStep
<1>3. ASSUME NEW w \in Workers, CopySlice(w)
      PROVE  CopyInv'
  <2>1. wpc[w] = "copy" /\ job[w] \in Job /\ job[w].caller \in Callers
    BY <1>3 DEF CopySlice, Placed, Job
  <2>2. wpc' = [wpc EXCEPT ![w] = "count"] /\ UNCHANGED <<pc, call, off, next, pending, chan, job>>
    BY <1>3 DEF CopySlice
  <2>3. dst' \in [Callers -> [Span -> Callers \cup Workers \cup {Nobody, Twice}]]
    BY <1>3, <2>1 DEF CopySlice, Write, Typed
  <2>4. Typed'
    BY <2>2, <2>3 DEF Typed
  <2>5. Placed' /\ Once'
    BY <2>1, <2>2 DEF Placed, Once, StepOf, Typed
  <2>6. \A v \in Workers : Outstanding(v)' = Outstanding(v)
    BY <2>1, <2>2 DEF Outstanding, InHand, Typed
  <2> QED
    BY <2>2, <2>4, <2>5, <2>6, WorkerKeeps
<1>4. ASSUME NEW w \in Workers, Notify(w)
      PROVE  CopyInv'
  <2>1. wpc[w] = "notify" /\ job[w] \in Job /\ job[w].caller \in Callers
    BY <1>4 DEF Notify, Placed, Job
  <2>2. /\ job' = [job EXCEPT ![w] = NoJob] /\ wpc' = [wpc EXCEPT ![w] = "recv"]
        /\ UNCHANGED <<call, off, next, pending, chan, dst>>
        /\ \/ UNCHANGED pc
           \/ pc[job[w].caller] = "asleep" /\ pc' = [pc EXCEPT ![job[w].caller] = "check"]
    BY <1>4 DEF Notify, Goto
  <2>3. \A c \in Callers : pc'[c] = pc[c] \/ (pc[c] = "asleep" /\ pc'[c] = "check")
    BY <2>1, <2>2 DEF Typed
  <2>4. Typed'
    BY <2>1, <2>2 DEF Typed
  <2>5. Placed' /\ Once'
    BY <2>1, <2>2, <2>3 DEF Placed, Once, StepOf, Typed
  <2>6. \A v \in Workers : Outstanding(v)' = Outstanding(v)
    BY <2>1, <2>2 DEF Outstanding, InHand, Typed
  <2> QED
    BY <2>2, <2>3, <2>4, <2>5, <2>6, WorkerKeeps
<1>5. ASSUME NEW w \in Workers, Exit(w)
      PROVE  CopyInv'
  <2>1. wpc[w] = "recv" /\ wpc' = [wpc EXCEPT ![w] = "gone"]
        /\ UNCHANGED <<pc, call, off, next, pending, chan, job, dst>>
    BY <1>5 DEF Exit
  <2>2. Typed' /\ Placed' /\ Once'
    BY <2>1 DEF Typed, Placed, Once, StepOf
  <2>3. \A v \in Workers : InHand(v)' = InHand(v)
    <3>1. wpc'[w] = "gone" /\ \A v \in Workers \ {w} : wpc'[v] = wpc[v]
      BY <2>1 DEF Typed
    <3>2. InHand(w)' = {} /\ InHand(w) = {}
      BY <2>1, <3>1 DEF InHand
    <3>3. \A v \in Workers \ {w} : InHand(v)' = InHand(v)
      BY <2>1, <3>1 DEF InHand
    <3> QED
      BY <3>2, <3>3
  <2>4. \A v \in Workers : Outstanding(v)' = Outstanding(v)
    BY <2>1, <2>3 DEF Outstanding
  <2> QED
    BY <2>1, <2>2, <2>4, WorkerKeeps
<1>6. CASE UNCHANGED vars
  <2>1. Typed' /\ Placed' /\ Once'
    BY <1>6 DEF vars, Typed, Placed, Once, StepOf
  <2>2. \A v \in Workers : Outstanding(v)' = Outstanding(v)
    BY <1>6 DEF vars, Outstanding, InHand
  <2> QED
    BY <1>6, <2>1, <2>2, WorkerKeeps DEF vars
<1> QED
  BY <1>1, <1>2, <1>3, <1>4, <1>5, <1>6, ReceiveStep, CountDownStep DEF Next, WorkerStep

LEMMA CopyInvariant == Spec => []CopyInv
<1>1. Init => CopyInv
  <2> SUFFICES ASSUME Init PROVE CopyInv
    OBVIOUS
  <2>1. \A w \in Workers : Outstanding(w) = {}
    BY DEF Init, Outstanding, InHand
  <2>2. \A c : Busy(c) = {}
    BY <2>1 DEF Busy
  <2>3. Typed
    BY CopyPoolAssumption DEF Init, Typed
  <2>4. Placed /\ Once /\ Ahead
    BY DEF Init, Placed, Once, Ahead
  <2>5. Alone
    BY <2>2 DEF Init, Alone
  <2>6. \A c \in Callers : pending[c] = 0 /\ pc[c] = "idle"
    BY DEF Init
  <2>7. Counted
    <3>1. \A c \in Callers : Cardinality(Busy(c)) = 0
      BY <2>2, EmptyCount, Zenon
    <3> SUFFICES ASSUME NEW c \in Callers
                 PROVE  pending[c] = Cardinality(Busy(c)) + IF pc[c] = "send" THEN 1 ELSE 0
      BY DEF Counted
    <3>2. pending[c] = 0 /\ Cardinality(Busy(c)) = 0 /\ pc[c] # "send"
      BY <2>6, <3>1
    <3> QED
      BY <3>2
  <2>8. NoJobOutlivesCall
    BY <2>1 DEF NoJobOutlivesCall
  <2> QED
    BY <2>3, <2>4, <2>5, <2>7, <2>8 DEF CopyInv
<1>2. CopyInv /\ [Next]_vars => CopyInv'
  BY CopyInvStep
<1> QED
  BY <1>1, <1>2, PTL DEF Spec

\* Every state of the pool is well typed; a counter is never below zero nor
\* above the number of workers.
THEOREM TypeCorrect == Spec => []TypeOK
<1>1. CopyInv => TypeOK
  BY CountBound DEF CopyInv, Typed, TypeOK
<1> QED
  BY <1>1, CopyInvariant, PTL

\* A worker has no job of a call that has returned: its pointers do not outlive
\* the call.
THEOREM PointersLive == Spec => []NoJobOutlivesCall
<1>1. CopyInv => NoJobOutlivesCall
  BY DEF CopyInv
<1> QED
  BY <1>1, CopyInvariant, PTL
-----------------------------------------------------------------------------
(***************************************************************************)
(* What a sleeping caller waits for.  If its counter is above zero some    *)
(* worker has a job of it; if not, the worker that took it there has not   *)
(* yet notified.                                                           *)
(***************************************************************************)
WakeUpDue ==
  \A c \in Callers : pc[c] = "asleep" /\ pending[c] = 0 =>
    \E w \in Workers : wpc[w] = "notify" /\ job[w].caller = c

GoneEmpty == \A w \in Workers : wpc[w] = "gone" => chan[w] = <<>>

WakeInv == WakeUpDue /\ GoneEmpty

\* A step that leaves the workers' places and jobs alone.
LEMMA WakeKept ==
  ASSUME WakeUpDue, UNCHANGED <<wpc, job>>,
         \A c \in Callers : pc'[c] = "asleep" /\ pending'[c] = 0 => pc[c] = "asleep" /\ pending[c] = 0
  PROVE  WakeUpDue'
BY DEF WakeUpDue

LEMMA WakeInvStep ==
  ASSUME CopyInv, CopyInv', WakeInv, [Next]_vars
  PROVE  WakeInv'
<1> USE DEF WakeInv
<1>0. /\ pc \in [Callers -> {"idle", "offer", "send", "remainder", "check", "asleep"}]
      /\ wpc \in [Workers -> {"recv", "copy", "count", "notify", "gone"}]
      /\ pending \in [Callers -> Int] /\ chan \in [Workers -> Seq(Job)]
      /\ job \in [Workers -> Job \cup {NoJob}]
      /\ \A c \in Callers : pending[c] \in 0 .. NWorkers
      /\ \A w \in Workers : wpc[w] \in {"copy", "count", "notify"} => job[w].caller \in Callers
  BY CountBound DEF CopyInv, Typed, Placed, Job
<1>1. ASSUME NEW c \in Callers, CallerStep(c)
      PROVE  WakeInv'
  <2>1. UNCHANGED <<wpc, job>>
    BY <1>1 DEF CallerStep, Count, Offered, Send, SendToGone, Remainder, Check
  <2>2. \A d \in Callers \ {c} : pc'[d] = pc[d] /\ pending'[d] = pending[d]
    BY <1>0, <1>1 DEF CallerStep, Count, Offered, Send, SendToGone, Remainder, Check, Goto
  <2>3. pc'[c] = "asleep" => pending'[c] # 0
    <3>1. CASE Check(c)
      BY <1>0, <3>1 DEF Check, Goto
    <3>2. CASE ~ Check(c)
      BY <1>0, <1>1, <3>2 DEF CallerStep, Count, Offered, Send, SendToGone, Remainder, Goto
    <3> QED
      BY <3>1, <3>2
  <2>4. WakeUpDue'
    BY <2>1, <2>2, <2>3, WakeKept
  <2>5. GoneEmpty'
    <3>1. CASE Send(c)
      <4>1. /\ wpc[next[c]] # "gone"
            /\ \A w \in Workers \ {next[c]} : chan'[w] = chan[w]
        BY <1>0, <3>1 DEF Send
      <4> QED
        BY <2>1, <4>1 DEF GoneEmpty
    <3>2. CASE ~ Send(c)
      <4>1. UNCHANGED chan
        BY <1>1, <3>2 DEF CallerStep, Count, Offered, SendToGone, Remainder, Check
      <4> QED
        BY <2>1, <4>1 DEF GoneEmpty
    <3> QED
      BY <3>1, <3>2
  <2> QED
    BY <2>4, <2>5
<1>2. ASSUME NEW c \in Callers, NEW len \in Lengths, Begin(c, len)
      PROVE  WakeInv'
  <2>1. /\ UNCHANGED <<wpc, job, chan>> /\ pc'[c] # "asleep"
        /\ \A d \in Callers \ {c} : pc'[d] = pc[d] /\ pending'[d] = pending[d]
    BY <1>0, <1>2 DEF Begin, Goto
  <2> QED
    BY <2>1, WakeKept DEF GoneEmpty
<1>3. ASSUME NEW w \in Workers, Receive(w) \/ CopySlice(w) \/ Exit(w)
      PROVE  WakeInv'
  <2>1. /\ UNCHANGED <<pc, pending>> /\ wpc[w] # "notify" /\ (wpc'[w] = "gone" => chan'[w] = <<>>)
        /\ \A v \in Workers \ {w} : wpc'[v] = wpc[v] /\ job'[v] = job[v] /\ chan'[v] = chan[v]
    BY <1>0, <1>3 DEF Receive, CopySlice, Exit
  <2>2. WakeUpDue'
    BY <2>1 DEF WakeUpDue
  <2> QED
    BY <2>1, <2>2 DEF GoneEmpty
<1>4. ASSUME NEW w \in Workers, CountDown(w)
      PROVE  WakeInv'
  <2>1. /\ UNCHANGED <<pc, job, chan>> /\ wpc[w] = "count" /\ wpc'[w] = "notify"
        /\ \A v \in Workers \ {w} : wpc'[v] = wpc[v]
        /\ \A d \in Callers \ {job[w].caller} : pending'[d] = pending[d]
    BY <1>0, <1>4 DEF CountDown
  <2>2. WakeUpDue'
    <3> SUFFICES ASSUME NEW c \in Callers, pc'[c] = "asleep", pending'[c] = 0
                 PROVE  \E v \in Workers : wpc'[v] = "notify" /\ job'[v].caller = c
      BY DEF WakeUpDue
    <3>1. CASE c = job[w].caller
      BY <2>1, <3>1
    <3>2. CASE c # job[w].caller
      BY <2>1, <3>2 DEF WakeUpDue
    <3> QED
      BY <3>1, <3>2
  <2> QED
    BY <2>1, <2>2 DEF GoneEmpty
<1>5. ASSUME NEW w \in Workers, Notify(w)
      PROVE  WakeInv'
  <2>1. /\ UNCHANGED <<pending, chan>> /\ wpc[w] = "notify" /\ wpc'[w] = "recv"
        /\ \A v \in Workers \ {w} : wpc'[v] = wpc[v] /\ job'[v] = job[v]
    BY <1>0, <1>5 DEF Notify
  <2>2. /\ pc'[job[w].caller] # "asleep"
        /\ \A c \in Callers \ {job[w].caller} : pc'[c] = pc[c]
    BY <1>0, <1>5 DEF Notify, Goto
  <2>3. WakeUpDue'
    <3> SUFFICES ASSUME NEW c \in Callers, pc'[c] = "asleep", pending'[c] = 0
                 PROVE  \E v \in Workers : wpc'[v] = "notify" /\ job'[v].caller = c
      BY DEF WakeUpDue
    <3>1. c # job[w].caller /\ pc[c] = "asleep" /\ pending[c] = 0
      BY <2>1, <2>2
    <3>2. PICK v \in Workers : wpc[v] = "notify" /\ job[v].caller = c
      BY <3>1 DEF WakeUpDue
    <3> QED
      BY <2>1, <3>1, <3>2
  <2> QED
    BY <2>1, <2>3 DEF GoneEmpty
<1>6. CASE UNCHANGED vars
  BY <1>6 DEF vars, WakeUpDue, GoneEmpty
<1> QED
  BY <1>1, <1>2, <1>3, <1>4, <1>5, <1>6 DEF Next, WorkerStep

\* What a caller that sleeps waits for will come: a worker has a job of it to
\* count down, or has yet to wake it.
THEOREM SleepersAwaited == Spec => []SleeperAwaited
<1>1. Init => WakeInv
  BY DEF Init, WakeInv, WakeUpDue, GoneEmpty
<1>2. CopyInv /\ CopyInv' /\ WakeInv /\ [Next]_vars => WakeInv'
  BY WakeInvStep
<1>3. CopyInv /\ WakeInv => SleeperAwaited
  <2> SUFFICES ASSUME CopyInv, WakeInv, NEW c \in Callers, pc[c] = "asleep"
               PROVE  \E w \in Workers :
                        /\ wpc[w] # "gone"
                        /\ \/ \E j \in Outstanding(w) : j.caller = c
                           \/ wpc[w] = "notify" /\ job[w].caller = c
    BY DEF SleeperAwaited
  <2>1. CASE pending[c] = 0
    BY <2>1 DEF WakeInv, WakeUpDue
  <2>2. CASE pending[c] # 0
    <3>1. Cardinality(Busy(c)) # 0
      BY <2>2 DEF CopyInv, Counted
    <3>2. Busy(c) # {}
      BY <3>1, EmptyCount
    <3>3. PICK w \in Workers : \E j \in Outstanding(w) : j.caller = c
      BY <3>2 DEF Busy
    <3>4. wpc[w] # "gone"
      <4> SUFFICES ASSUME wpc[w] = "gone" PROVE FALSE
        OBVIOUS
      <4>1. chan[w] = <<>>
        BY DEF WakeInv, GoneEmpty
      <4>2. Outstanding(w) = {}
        BY <4>1 DEF Outstanding, InHand
      <4> QED
        BY <3>3, <4>2
    <3> QED
      BY <3>3, <3>4
  <2> QED
    BY <2>1, <2>2
<1> QED
  BY <1>1, <1>2, <1>3, CopyInvariant, PTL DEF Spec
-----------------------------------------------------------------------------
(***************************************************************************)
(* What is written.  The jobs nobody has copied yet are apart from each    *)
(* other and lie before the caller's next slice; what lies before it and   *)
(* in none of them is written once; what lies behind it is the caller's    *)
(* own remainder.  Every cut is at the start of a page.                    *)
(***************************************************************************)
\* The jobs of worker w that are still to be copied.
ToCopy(w) ==
  (IF wpc[w] = "copy" THEN {job[w]} ELSE {}) \cup {chan[w][i] : i \in 1 .. Len(chan[w])}

Slice(j) == j.off .. j.off + j.len - 1

\* n is the start of a page.
OnPage(n) == \E k \in Nat : n = k * Page

Cutting(c) == pc[c] \in {"offer", "send", "remainder"}

Within ==
  \A w \in Workers : \A j \in ToCopy(w) :
    /\ j.off + j.len <= off[j.caller]
    /\ OnPage(j.off) /\ OnPage(j.off + j.len)
    /\ \A u \in Slice(j) \cap Span : dst[j.caller][u] = Nobody

Apart ==
  \A v, w \in Workers : \A i \in ToCopy(v), j \in ToCopy(w) :
    v # w /\ i.caller = j.caller => i.off + i.len <= j.off \/ j.off + j.len <= i.off

Before ==
  \A c \in Callers : \A u \in Span : u < off[c] =>
    /\ dst[c][u] # Twice
    /\ dst[c][u] = Nobody =>
         \E w \in Workers : \E j \in ToCopy(w) : j.caller = c /\ u \in Slice(j)

Behind ==
  \A c \in Callers : \A u \in Span : u >= off[c] =>
    dst[c][u] = IF Cutting(c) \/ u >= call[c].len THEN Nobody ELSE c

Cut == \A c \in Callers : off[c] <= call[c].len /\ OnPage(off[c])

WriteInv == Within /\ Apart /\ Before /\ Behind /\ Cut /\ PagesDisjoint

LEMMA PageBounds ==
  ASSUME NEW u \in Nat
  PROVE  u \div Page \in Nat /\ (u \div Page) * Page <= u /\ u < (u \div Page + 1) * Page
BY CopyPoolAssumption

LEMMA PagesMonotonic ==
  ASSUME NEW a \in Nat, NEW b \in Nat, a <= b
  PROVE  a * Page <= b * Page
BY CopyPoolAssumption

LEMMA PagesAdd ==
  ASSUME NEW m \in Nat, NEW n \in Nat, OnPage(m), OnPage(n)
  PROVE  OnPage(m + n)
<1>1. \A a, b \in Nat : a * Page + b * Page = (a + b) * Page /\ a + b \in Nat
  BY CopyPoolAssumption
<1> QED
  BY <1>1 DEF OnPage

\* The start of a page has all of a page on one side of it.
LEMMA SamePage ==
  ASSUME NEW u \in Nat, NEW v \in Nat, NEW n \in Nat,
         u \div Page = v \div Page, OnPage(n), u >= n
  PROVE  v >= n
<1> PICK k \in Nat : n = k * Page
  BY DEF OnPage
<1> DEFINE q == u \div Page
<1>1. q \in Nat /\ q * Page <= v /\ u < (q + 1) * Page
  BY PageBounds
<1>2. (q + 1) * Page \in Nat /\ q * Page \in Nat /\ k * Page \in Nat
  BY <1>1, CopyPoolAssumption
<1>3. CASE q + 1 <= k
  <2>1. (q + 1) * Page <= k * Page
    BY <1>1, <1>3, PagesMonotonic
  <2> QED
    BY <1>1, <1>2, <2>1
<1>4. CASE q >= k
  <2>1. k * Page <= q * Page
    BY <1>1, <1>4, PagesMonotonic
  <2> QED
    BY <1>1, <1>2, <2>1
<1> QED
  BY <1>1, <1>3, <1>4

LEMMA StepOnPage ==
  ASSUME Typed, NEW c \in Callers
  PROVE  OnPage(StepOf(c))
<1>1. call[c].len \in Nat /\ NWorkers + 1 \in Nat \ {0} /\ Page \in Nat \ {0}
  BY LengthType, CopyPoolAssumption
<1>2. \A m \in Nat, n \in Nat \ {0} : m \div n \in Nat
  OBVIOUS
<1>3. (call[c].len \div (NWorkers + 1)) + Page - 1 \in Nat
  BY <1>1, <1>2
<1>4. ((call[c].len \div (NWorkers + 1)) + Page - 1) \div Page \in Nat
  BY <1>1, <1>2, <1>3
<1> QED
  BY <1>4 DEF OnPage, StepOf

LEMMA ToCopyOutstanding ==
  ASSUME NEW w \in Workers
  PROVE  ToCopy(w) \subseteq Outstanding(w)
BY DEF ToCopy, Outstanding, InHand

LEMMA ToCopyType ==
  ASSUME CopyInv, NEW w \in Workers, NEW j \in ToCopy(w)
  PROVE  /\ j \in Job /\ j.caller \in Callers /\ j.off \in Nat /\ j.len \in Nat
         /\ off[j.caller] \in Nat /\ pc[j.caller] # "idle"
<1>1. j \in Outstanding(w)
  BY ToCopyOutstanding
<1>2. j \in Job /\ j.caller \in Callers
  BY <1>1, OutstandingType DEF CopyInv
<1>3. Span \subseteq Nat
  BY LongestIs, CopyPoolAssumption DEF Span
<1>4. j.off \in Nat /\ j.len \in Nat
  BY <1>2, <1>3 DEF Job
<1>5. off[j.caller] \in Nat /\ pc[j.caller] # "idle"
  BY <1>1, <1>2 DEF CopyInv, Typed, NoJobOutlivesCall
<1> QED
  BY <1>2, <1>4, <1>5

LEMMA SpanType == Span \subseteq Nat
BY LongestIs, CopyPoolAssumption DEF Span

\* A step that writes nothing and cuts nothing off.
LEMMA WriteKept ==
  ASSUME WriteInv, UNCHANGED <<call, off, dst>>,
         \A w \in Workers : ToCopy(w)' = ToCopy(w),
         \A c \in Callers : Cutting(c)' = Cutting(c)
  PROVE  WriteInv'
<1> USE DEF WriteInv
<1>1. Within' /\ Apart'
  BY DEF Within, Apart
<1>2. Before' /\ Behind'
  BY DEF Before, Behind
<1>3. Cut' /\ PagesDisjoint'
  BY DEF Cut, PagesDisjoint
<1> QED
  BY <1>1, <1>2, <1>3

LEMMA BeginWrites ==
  ASSUME CopyInv, WriteInv, NEW c \in Callers, NEW len \in Lengths, Begin(c, len)
  PROVE  WriteInv'
<1> USE DEF WriteInv
<1>1. pc[c] = "idle"
  BY DEF Begin
<1>2. /\ off'[c] = 0 /\ call'[c].len = len /\ Cutting(c)'
      /\ dst'[c] = [u \in Span |-> Nobody]
      /\ UNCHANGED <<chan, job, wpc>>
  BY DEF Begin, Goto, Cutting, CopyInv, Typed
<1>3. \A d \in Callers \ {c} : /\ pc'[d] = pc[d] /\ call'[d] = call[d]
                               /\ off'[d] = off[d] /\ dst'[d] = dst[d]
  BY DEF Begin, Goto, CopyInv, Typed
<1>4. \A w \in Workers : ToCopy(w)' = ToCopy(w)
  BY <1>2 DEF ToCopy
<1>5. \A w \in Workers : \A j \in ToCopy(w) : j.caller \in Callers \ {c}
  BY <1>1, ToCopyType
<1>6. Within' /\ Apart'
  BY <1>3, <1>4, <1>5 DEF Within, Apart, Slice
<1>7. ASSUME NEW d \in Callers, NEW u \in Span
      PROVE  /\ u < off'[d] =>
                  /\ dst'[d][u] # Twice
                  /\ dst'[d][u] = Nobody =>
                       \E w \in Workers : \E j \in ToCopy(w) : j.caller = d /\ u \in Slice(j)
             /\ u >= off'[d] =>
                  dst'[d][u] = IF Cutting(d)' \/ u >= call'[d].len THEN Nobody ELSE d
  <2>1. CASE d = c
    BY <1>2, <2>1, SpanType
  <2>2. CASE d # c
    BY <1>3, <2>2 DEF Before, Behind, Cutting
  <2> QED
    BY <2>1, <2>2
<1>8. Before' /\ Behind'
  BY <1>4, <1>7 DEF Before, Behind
<1>9. OnPage(0) /\ len \in Nat
  BY CopyPoolAssumption DEF OnPage
<1>10. Cut'
  BY <1>2, <1>3, <1>9 DEF Cut, OnPage
<1>11. PagesDisjoint'
  BY <1>2, <1>3 DEF PagesDisjoint
<1> QED
  BY <1>6, <1>8, <1>10, <1>11

\* The new slice starts where the others end.
LEMMA SendWrites ==
  ASSUME CopyInv, WriteInv, NEW c \in Callers, Send(c)
  PROVE  WriteInv'
<1> USE DEF WriteInv
<1>0. next[c] \in Workers
  BY DEF Send, CopyInv, Placed
<1> PICK s \in Workers : s = next[c]
  BY <1>0
<1> DEFINE new == [caller |-> c, call |-> call[c].count, off |-> off[c], len |-> StepOf(c)]
<1>1. /\ off[c] + StepOf(c) < call[c].len /\ off[c] \in Nat
      /\ StepOf(c) \in Nat /\ new \in Job /\ pc[c] = "send" /\ chan[s] \in Seq(Job)
  BY JobType, StepType DEF Send, CopyInv, Placed, Typed
<1>2. /\ chan' = [chan EXCEPT ![s] = Append(chan[s], new)]
      /\ off'[c] = off[c] + StepOf(c) /\ Cutting(c) /\ Cutting(c)'
      /\ UNCHANGED <<call, job, wpc, dst>>
      /\ \A d \in Callers \ {c} : pc'[d] = pc[d] /\ off'[d] = off[d]
  BY <1>1 DEF Send, Goto, Cutting, CopyInv, Typed
<1>3. \A w \in Workers \ {s} : ToCopy(w)' = ToCopy(w)
  BY <1>2 DEF ToCopy, CopyInv, Typed
<1>4. ToCopy(s)' = ToCopy(s) \cup {new}
  <2>1. chan'[s] = Append(chan[s], new)
    BY <1>1, <1>2 DEF CopyInv, Typed
  <2>2. {chan'[s][i] : i \in 1 .. Len(chan'[s])} = {chan[s][i] : i \in 1 .. Len(chan[s])} \cup {new}
    <3> HIDE DEF new
    <3>1. /\ Len(chan'[s]) = Len(chan[s]) + 1 /\ chan'[s][Len(chan[s]) + 1] = new
          /\ \A i \in 1 .. Len(chan[s]) : chan'[s][i] = chan[s][i]
          /\ Len(chan[s]) \in Nat
      BY <1>1, <2>1, Appended
    <3>2. 1 .. Len(chan'[s]) = (1 .. Len(chan[s])) \cup {Len(chan[s]) + 1}
      BY <3>1
    <3>3. \A i \in 1 .. Len(chan'[s]) : chan'[s][i] = new \/ (i \in 1 .. Len(chan[s]) /\ chan'[s][i] = chan[s][i])
      BY <3>1, <3>2
    <3>4. Len(chan'[s]) \in 1 .. Len(chan'[s]) /\ chan'[s][Len(chan'[s])] = new
      BY <3>1
    <3>5. \A i \in 1 .. Len(chan[s]) : i \in 1 .. Len(chan'[s]) /\ chan[s][i] = chan'[s][i]
      BY <3>1, <3>2
    <3>6. \A x \in {chan'[s][i] : i \in 1 .. Len(chan'[s])} :
            x \in {chan[s][i] : i \in 1 .. Len(chan[s])} \cup {new}
      BY <3>3
    <3>7. {chan[s][i] : i \in 1 .. Len(chan[s])} \subseteq {chan'[s][i] : i \in 1 .. Len(chan'[s])}
      BY <3>5
    <3>8. new \in {chan'[s][i] : i \in 1 .. Len(chan'[s])}
      BY <3>4
    <3> QED
      BY <3>6, <3>7, <3>8, Zenon
  <2>3. (IF wpc[s] = "copy" THEN {job[s]} ELSE {})' = IF wpc[s] = "copy" THEN {job[s]} ELSE {}
    BY <1>2
  <2> HIDE DEF new
  <2> QED
    BY <2>2, <2>3, Zenon DEF ToCopy
<1>5. /\ new.caller = c /\ new.off = off[c] /\ new.len = StepOf(c)
      /\ new.off + new.len = off'[c]
  BY <1>2
<1> HIDE DEF new
<1>6. \A w \in Workers : ToCopy(w) \subseteq ToCopy(w)' /\ \A j \in ToCopy(w)' : j \in ToCopy(w) \/ j = new
  <2> TAKE w \in Workers
  <2>1. CASE w = s
    BY <1>4, <2>1
  <2>2. CASE w # s
    BY <1>3, <2>2
  <2> QED
    BY <2>1, <2>2
<1>7. OnPage(off[c]) /\ OnPage(off'[c])
  BY <1>1, <1>2, StepOnPage, PagesAdd DEF Cut, CopyInv
<1>8. Within'
  <2> SUFFICES ASSUME NEW w \in Workers, NEW j \in ToCopy(w)'
               PROVE  /\ j.off + j.len <= off'[j.caller] /\ OnPage(j.off) /\ OnPage(j.off + j.len)
                      /\ \A u \in Slice(j) \cap Span : dst'[j.caller][u] = Nobody
    BY DEF Within, Slice, OnPage
  <2>1. CASE j = new
    <3>1. \A u \in Slice(j) : u >= off[c]
      BY <1>1, <1>5, <2>1 DEF Slice
    <3>2. \A u \in Slice(j) \cap Span : dst[c][u] = Nobody
      BY <1>2, <3>1 DEF Behind
    <3>3. off'[c] \in Nat /\ new.off + new.len <= off'[c]
      BY <1>1, <1>2, <1>5
    <3> QED
      BY <1>2, <1>5, <1>7, <2>1, <3>2, <3>3
  <2>2. CASE j # new
    <3>1. j \in ToCopy(w) /\ j.caller \in Callers /\ j.off + j.len \in Nat /\ off[j.caller] \in Nat
      BY <1>6, <2>2, ToCopyType
    <3>2. /\ j.off + j.len <= off[j.caller] /\ OnPage(j.off) /\ OnPage(j.off + j.len)
          /\ \A u \in Slice(j) \cap Span : dst[j.caller][u] = Nobody
      BY <3>1 DEF Within
    <3>3. off[j.caller] <= off'[j.caller] /\ off'[j.caller] \in Nat
      BY <1>1, <1>2, <3>1
    <3> QED
      BY <1>2, <3>1, <3>2, <3>3
  <2> QED
    BY <2>1, <2>2
<1>9. Apart'
  <2> SUFFICES ASSUME NEW v \in Workers, NEW w \in Workers, NEW i \in ToCopy(v)', NEW j \in ToCopy(w)',
                      v # w, i.caller = j.caller
               PROVE  i.off + i.len <= j.off \/ j.off + j.len <= i.off
    BY DEF Apart
  <2>1. CASE i \in ToCopy(v) /\ j \in ToCopy(w)
    BY <2>1 DEF Apart
  <2>2. CASE i \notin ToCopy(v) /\ j \in ToCopy(w)
    <3>1. i = new /\ j.caller = c
      BY <1>5, <1>6, <2>2
    <3> QED
      BY <1>5, <2>2, <3>1 DEF Within
  <2>3. CASE i \in ToCopy(v) /\ j \notin ToCopy(w)
    <3>1. j = new /\ i.caller = c
      BY <1>5, <1>6, <2>3
    <3> QED
      BY <1>5, <2>3, <3>1 DEF Within
  <2>4. CASE i \notin ToCopy(v) /\ j \notin ToCopy(w)
    <3>1. v = s /\ w = s
      BY <1>3, <2>4
    <3> QED
      BY <3>1
  <2> QED
    BY <2>1, <2>2, <2>3, <2>4
<1>10. Before'
  <2> SUFFICES ASSUME NEW d \in Callers, NEW u \in Span, u < off'[d]
               PROVE  /\ dst[d][u] # Twice
                      /\ dst[d][u] = Nobody =>
                           \E w \in Workers : \E j \in ToCopy(w)' : j.caller = d /\ u \in Slice(j)
    BY <1>2 DEF Before, Slice
  <2>1. CASE u < off[d]
    BY <1>6, <2>1 DEF Before
  <2>2. CASE ~(u < off[d])
    <3>1. d = c /\ u >= off[c]
      BY <1>1, <1>2, <2>2, SpanType
    <3>2. dst[c][u] = Nobody
      BY <1>2, <3>1 DEF Behind
    <3>3. u \in Slice(new)
      BY <1>1, <1>2, <1>5, <3>1, SpanType DEF Slice
    <3>4. Nobody # Twice
      BY CopyPoolAssumption
    <3> QED
      BY <1>1, <1>2, <1>4, <1>5, <3>1, <3>2, <3>3, <3>4
  <2> QED
    BY <2>1, <2>2
<1>11. Behind'
  <2> SUFFICES ASSUME NEW d \in Callers, NEW u \in Span, u >= off'[d]
               PROVE  dst[d][u] = IF Cutting(d)' \/ u >= call[d].len THEN Nobody ELSE d
    BY <1>2 DEF Behind
  <2>1. CASE d = c
    <3>1. u >= off[c]
      BY <1>1, <1>2, <2>1, SpanType
    <3> QED
      BY <1>2, <2>1, <3>1 DEF Behind
  <2>2. CASE d # c
    BY <1>2, <2>2 DEF Behind, Cutting
  <2> QED
    BY <2>1, <2>2
<1>12. Cut'
  <2>1. off'[c] <= call[c].len
    BY <1>1, <1>2, LengthType DEF CopyInv
  <2> QED
    BY <1>2, <1>7, <2>1 DEF Cut, OnPage
<1>13. PagesDisjoint'
  BY <1>2 DEF PagesDisjoint
<1> QED
  BY <1>8, <1>9, <1>10, <1>11, <1>12, <1>13

\* The caller writes what it has cut nothing off.
LEMMA RemainderWrites ==
  ASSUME CopyInv, WriteInv, NEW c \in Callers, Remainder(c)
  PROVE  WriteInv'
<1> USE DEF WriteInv
<1> DEFINE Rest == off[c] .. off[c] + (call[c].len - off[c]) - 1
<1>1. /\ UNCHANGED <<call, off, chan, job, wpc>> /\ Cutting(c) /\ ~Cutting(c)'
      /\ \A d \in Callers \ {c} : pc'[d] = pc[d] /\ dst'[d] = dst[d]
      /\ dst'[c] = [u \in Span |->
            IF u \in Rest THEN (IF dst[c][u] = Nobody THEN c ELSE Twice) ELSE dst[c][u]]
  BY DEF Remainder, Write, Goto, Cutting, CopyInv, Typed
<1>2. off[c] \in Nat /\ call[c].len \in Nat /\ off[c] <= call[c].len
  BY LengthType DEF CopyInv, Typed, Cut
<1>3. \A u \in Span : u \in Rest <=> u >= off[c] /\ u < call[c].len
  BY <1>2, SpanType
<1>4. \A u \in Span : dst'[c][u] = IF u >= off[c] /\ u < call[c].len THEN c ELSE dst[c][u]
  <2> SUFFICES ASSUME NEW u \in Span
               PROVE  dst'[c][u] = IF u >= off[c] /\ u < call[c].len THEN c ELSE dst[c][u]
    OBVIOUS
  <2>1. u >= off[c] => dst[c][u] = Nobody
    BY <1>1 DEF Behind
  <2> QED
    BY <1>1, <1>3, <2>1
<1>5. \A w \in Workers : ToCopy(w)' = ToCopy(w)
  BY <1>1 DEF ToCopy
<1> HIDE DEF Rest
<1>6. Within'
  <2> SUFFICES ASSUME NEW w \in Workers, NEW j \in ToCopy(w), NEW u \in Slice(j) \cap Span
               PROVE  dst'[j.caller][u] = Nobody
    BY <1>1, <1>5 DEF Within, Slice, OnPage
  <2>1. dst[j.caller][u] = Nobody /\ j.off + j.len <= off[j.caller]
    BY DEF Within
  <2>2. j.caller \in Callers /\ u < off[j.caller]
    BY <2>1, ToCopyType, SpanType DEF Slice
  <2>3. CASE j.caller = c
    <3>1. u < off[c] /\ u \in Nat /\ u \in Span
      BY <2>2, <2>3, SpanType
    <3>2. ~(u >= off[c])
      BY <1>2, <3>1
    <3> QED
      BY <1>4, <2>1, <2>3, <3>1, <3>2
  <2>4. CASE j.caller # c
    BY <1>1, <2>1, <2>2, <2>4
  <2> QED
    BY <2>3, <2>4
<1>7. Apart'
  BY <1>5 DEF Apart
<1>8. Before'
  <2> SUFFICES ASSUME NEW d \in Callers, NEW u \in Span, u < off[d]
               PROVE  dst'[d][u] = dst[d][u]
    BY <1>1, <1>5 DEF Before, Slice
  <2>1. CASE d = c
    BY <1>2, <1>4, <2>1, SpanType
  <2> QED
    BY <1>1, <2>1
<1>9. Behind'
  <2> SUFFICES ASSUME NEW d \in Callers, NEW u \in Span, u >= off[d]
               PROVE  dst'[d][u] = IF Cutting(d)' \/ u >= call[d].len THEN Nobody ELSE d
    BY <1>1 DEF Behind
  <2>1. CASE d = c
    <3>1. dst[c][u] = Nobody /\ u \in Nat
      BY <1>1, <2>1, SpanType DEF Behind
    <3> QED
      BY <1>1, <1>2, <1>4, <2>1, <3>1
  <2>2. CASE d # c
    BY <1>1, <2>2 DEF Behind, Cutting
  <2> QED
    BY <2>1, <2>2
<1>10. Cut'
  BY <1>1 DEF Cut
<1>11. PagesDisjoint'
  <2> SUFFICES ASSUME NEW d \in Callers, NEW u \in Span, NEW v \in Span, u \div Page = v \div Page,
                      dst'[d][u] # Nobody, dst'[d][v] # Nobody
               PROVE  dst'[d][u] = dst'[d][v]
    BY DEF PagesDisjoint
  <2>1. CASE d = c
    <3>1. OnPage(off[c]) /\ u \in Nat /\ v \in Nat
      BY SpanType DEF Cut
    <3>2. u >= off[c] <=> v >= off[c]
      BY <1>2, <3>1, SamePage
    <3>3. CASE u >= off[c]
      <4>1. dst[c][u] = Nobody /\ dst[c][v] = Nobody
        BY <1>1, <3>2, <3>3 DEF Behind
      <4> QED
        BY <1>4, <2>1, <3>2, <3>3, <4>1
    <3>4. CASE ~(u >= off[c])
      BY <1>4, <2>1, <3>2, <3>4 DEF PagesDisjoint
    <3> QED
      BY <3>3, <3>4
  <2>2. CASE d # c
    BY <1>1, <2>2 DEF PagesDisjoint
  <2> QED
    BY <2>1, <2>2
<1> QED
  BY <1>6, <1>7, <1>8, <1>9, <1>10, <1>11

\* A worker writes its slice, which nobody else has.
LEMMA SliceWrites ==
  ASSUME CopyInv, WriteInv, NEW w \in Workers, CopySlice(w)
  PROVE  WriteInv'
<1> USE DEF WriteInv
<1> DEFINE own == job[w]
           c == own.caller
<1>1. wpc[w] = "copy" /\ own \in ToCopy(w)
  BY DEF CopySlice, ToCopy
<1>2. /\ c \in Callers /\ own.off \in Nat /\ own.len \in Nat /\ off[c] \in Nat
      /\ own.off + own.len <= off[c] /\ OnPage(own.off) /\ OnPage(own.off + own.len)
      /\ \A u \in Slice(own) \cap Span : dst[c][u] = Nobody
  BY <1>1, ToCopyType DEF Within
<1>3. /\ UNCHANGED <<pc, call, off, chan, job>> /\ wpc' = [wpc EXCEPT ![w] = "count"]
      /\ \A d \in Callers \ {c} : dst'[d] = dst[d]
      /\ \A u \in Span : dst'[c][u] = IF u \in Slice(own) THEN w ELSE dst[c][u]
  BY <1>2 DEF CopySlice, Write, Slice, CopyInv, Typed
<1> HIDE DEF own, c
<1>4. \A v \in Workers \ {w} : ToCopy(v)' = ToCopy(v)
  BY <1>3 DEF ToCopy, CopyInv, Typed
<1>5. /\ ToCopy(w) = ToCopy(w)' \cup {own}
      /\ \A j \in ToCopy(w)' : j.caller # c
  BY <1>1, <1>3 DEF ToCopy, CopyInv, Typed, Once, own, c
<1>6. \A v \in Workers : ToCopy(v)' \subseteq ToCopy(v)
  BY <1>4, <1>5
\* What is still to be copied is not touched.
<1>7. ASSUME NEW v \in Workers, NEW j \in ToCopy(v)', NEW u \in Slice(j) \cap Span
      PROVE  dst'[j.caller][u] = Nobody
  <2>1. j \in ToCopy(v) /\ j.caller \in Callers /\ j.off \in Nat /\ j.len \in Nat
        /\ dst[j.caller][u] = Nobody
    BY <1>6, ToCopyType DEF Within
  <2>2. CASE j.caller = c
    <3>1. v # w
      BY <1>5, <2>2
    <3>2. j.off + j.len <= own.off \/ own.off + own.len <= j.off
      BY <1>1, <2>1, <2>2, <3>1 DEF Apart, c
    <3>3. u \notin Slice(own)
      BY <1>2, <2>1, <3>2, SpanType DEF Slice
    <3> QED
      BY <1>3, <2>1, <2>2, <3>3
  <2>3. CASE j.caller # c
    BY <1>3, <2>1, <2>3
  <2> QED
    BY <2>2, <2>3
<1>8. Within'
  BY <1>3, <1>6, <1>7 DEF Within, Slice, OnPage
<1>9. Apart'
  BY <1>6 DEF Apart
<1>10. w # Nobody /\ w # Twice
  BY CopyPoolAssumption
<1>11. Before'
  <2> SUFFICES ASSUME NEW d \in Callers, NEW u \in Span, u < off[d]
               PROVE  /\ dst'[d][u] # Twice
                      /\ dst'[d][u] = Nobody =>
                           \E v \in Workers : \E j \in ToCopy(v)' : j.caller = d /\ u \in Slice(j)
    BY <1>3 DEF Before, Slice
  <2>1. /\ dst[d][u] # Twice
        /\ dst[d][u] = Nobody =>
             \E v \in Workers : \E j \in ToCopy(v) : j.caller = d /\ u \in Slice(j)
    BY DEF Before
  <2>2. CASE d = c /\ u \in Slice(own)
    BY <1>3, <1>10, <2>2
  <2>3. CASE ~(d = c /\ u \in Slice(own))
    <3>1. dst'[d][u] = dst[d][u]
      BY <1>3, <2>3
    <3>2. \A v \in Workers : \A j \in ToCopy(v) :
            j.caller = d /\ u \in Slice(j) => j \in ToCopy(v)'
      BY <1>4, <1>5, <2>3 DEF c
    <3> QED
      BY <2>1, <3>1, <3>2
  <2> QED
    BY <2>2, <2>3
<1>12. Behind'
  <2> SUFFICES ASSUME NEW d \in Callers, NEW u \in Span, u >= off[d]
               PROVE  dst'[d][u] = dst[d][u]
    BY <1>3 DEF Behind, Cutting
  <2>1. d = c => u \notin Slice(own)
    BY <1>2, SpanType DEF Slice
  <2> QED
    BY <1>3, <2>1
<1>13. Cut'
  BY <1>3 DEF Cut
<1>14. PagesDisjoint'
  <2> SUFFICES ASSUME NEW d \in Callers, NEW u \in Span, NEW v \in Span, u \div Page = v \div Page,
                      dst'[d][u] # Nobody, dst'[d][v] # Nobody
               PROVE  dst'[d][u] = dst'[d][v]
    BY DEF PagesDisjoint
  <2>1. CASE d = c
    <3>1. u \in Nat /\ v \in Nat /\ own.off + own.len \in Nat
      BY <1>2, SpanType
    <3>2. /\ u >= own.off <=> v >= own.off
          /\ u >= own.off + own.len <=> v >= own.off + own.len
      BY <1>2, <3>1, SamePage
    <3>3. u \in Slice(own) <=> v \in Slice(own)
      BY <1>2, <3>1, <3>2 DEF Slice
    <3> QED
      BY <1>3, <2>1, <3>3 DEF PagesDisjoint
  <2>2. CASE d # c
    BY <1>3, <2>2 DEF PagesDisjoint
  <2> QED
    BY <2>1, <2>2
<1> QED
  BY <1>8, <1>9, <1>11, <1>12, <1>13, <1>14

\* The job a worker takes is one it had to copy.
LEMMA ReceiveCopies ==
  ASSUME CopyInv, NEW w \in Workers, Receive(w)
  PROVE  \A v \in Workers : ToCopy(v)' = ToCopy(v)
<1>1. /\ wpc[w] = "recv" /\ chan[w] \in Seq(Job) /\ chan[w] # <<>>
      /\ job'[w] = Head(chan[w]) /\ chan'[w] = Tail(chan[w]) /\ wpc'[w] = "copy"
      /\ \A v \in Workers \ {w} : /\ job'[v] = job[v] /\ chan'[v] = chan[v]
                                  /\ wpc'[v] = wpc[v]
  BY DEF Receive, CopyInv, Typed
<1>2. \A v \in Workers \ {w} : ToCopy(v)' = ToCopy(v)
  BY <1>1 DEF ToCopy
<1>3. ToCopy(w)' = {Head(chan[w])} \cup {Tail(chan[w])[i] : i \in 1 .. Len(Tail(chan[w]))}
  BY <1>1 DEF ToCopy
<1>4. ToCopy(w) = {chan[w][i] : i \in 1 .. Len(chan[w])}
  BY <1>1 DEF ToCopy
<1>5. /\ Len(chan[w]) \in Nat \ {0} /\ Head(chan[w]) = chan[w][1]
      /\ Len(Tail(chan[w])) = Len(chan[w]) - 1
      /\ \A i \in 1 .. Len(chan[w]) - 1 : Tail(chan[w])[i] = chan[w][i + 1]
  BY <1>1, HeadTail
<1>6. ToCopy(w)' \subseteq ToCopy(w)
  <2>1. \A i \in 1 .. Len(Tail(chan[w])) :
          i + 1 \in 1 .. Len(chan[w]) /\ Tail(chan[w])[i] = chan[w][i + 1]
    BY <1>5
  <2>2. 1 \in 1 .. Len(chan[w])
    BY <1>5
  <2> QED
    BY <1>3, <1>4, <1>5, <2>1, <2>2
<1>7. ToCopy(w) \subseteq ToCopy(w)'
  <2> SUFFICES ASSUME NEW i \in 1 .. Len(chan[w])
               PROVE  chan[w][i] \in ToCopy(w)'
    BY <1>4
  <2>1. CASE i = 1
    BY <1>3, <1>5, <2>1
  <2>2. CASE i # 1
    <3>1. i - 1 \in 1 .. Len(Tail(chan[w])) /\ Tail(chan[w])[i - 1] = chan[w][i]
      BY <1>5, <2>2
    <3> QED
      BY <1>3, <3>1
  <2> QED
    BY <2>1, <2>2
<1> QED
  BY <1>2, <1>6, <1>7

LEMMA WriteInvStep ==
  ASSUME CopyInv, WriteInv, [Next]_vars
  PROVE  WriteInv'
<1>1. ASSUME NEW c \in Callers, NEW len \in Lengths, Begin(c, len)
      PROVE  WriteInv'
  BY <1>1, BeginWrites
<1>2. ASSUME NEW c \in Callers, Count(c) \/ Offered(c) \/ SendToGone(c) \/ Check(c)
      PROVE  WriteInv'
  <2>1. UNCHANGED <<call, off, dst, chan, job, wpc>>
    BY <1>2 DEF Count, Offered, SendToGone, Check
  <2>2. \A w \in Workers : ToCopy(w)' = ToCopy(w)
    BY <2>1 DEF ToCopy
  <2>3. \A d \in Callers : Cutting(d)' = Cutting(d)
    BY <1>2 DEF Count, Offered, SendToGone, Check, Goto, Cutting, CopyInv, Typed
  <2> QED
    BY <2>1, <2>2, <2>3, WriteKept
<1>3. ASSUME NEW w \in Workers, Receive(w)
      PROVE  WriteInv'
  <2>1. UNCHANGED <<call, off, dst, pc>>
    BY <1>3 DEF Receive
  <2>2. \A d \in Callers : Cutting(d)' = Cutting(d)
    BY <2>1 DEF Cutting
  <2> QED
    BY <1>3, <2>1, <2>2, ReceiveCopies, WriteKept
<1>4. ASSUME NEW w \in Workers, CountDown(w) \/ Notify(w) \/ Exit(w)
      PROVE  WriteInv'
  <2>1. UNCHANGED <<call, off, dst, chan>>
    BY <1>4 DEF CountDown, Notify, Exit
  <2>2. /\ \A v \in Workers \ {w} : wpc'[v] = wpc[v] /\ job'[v] = job[v]
        /\ wpc[w] # "copy" /\ wpc'[w] # "copy"
    BY <1>4 DEF CountDown, Notify, Exit, CopyInv, Typed
  <2>3. \A v \in Workers : ToCopy(v)' = ToCopy(v)
    BY <2>1, <2>2 DEF ToCopy
  <2>4. \A d \in Callers : Cutting(d)' = Cutting(d)
    <3>1. CASE Notify(w)
      <4>1. job[w].caller \in Callers
        BY <3>1 DEF Notify, CopyInv, Placed, Job
      <4> QED
        BY <3>1, <4>1 DEF Notify, Goto, Cutting, CopyInv, Typed
    <3>2. CASE CountDown(w) \/ Exit(w)
      BY <3>2 DEF CountDown, Exit, Cutting
    <3> QED
      BY <1>4, <3>1, <3>2
  <2> QED
    BY <2>1, <2>3, <2>4, WriteKept
<1>5. CASE UNCHANGED vars
  <2>1. /\ UNCHANGED <<call, off, dst>>
        /\ \A w \in Workers : ToCopy(w)' = ToCopy(w)
        /\ \A d \in Callers : Cutting(d)' = Cutting(d)
    BY <1>5 DEF vars, ToCopy, Cutting
  <2> QED
    BY <2>1, WriteKept
<1> QED
  BY <1>1, <1>2, <1>3, <1>4, <1>5, SendWrites, RemainderWrites, SliceWrites
  DEF Next, CallerStep, WorkerStep

LEMMA WriteInvariant == Spec => [](CopyInv /\ WriteInv)
<1>1. Init => WriteInv
  <2> SUFFICES ASSUME Init PROVE WriteInv
    OBVIOUS
  <2>1. \A w \in Workers : ToCopy(w) = {}
    BY DEF Init, ToCopy
  <2>2. OnPage(0)
    BY CopyPoolAssumption DEF OnPage
  <2>3. Within /\ Apart
    BY <2>1 DEF Within, Apart
  <2>4. \A c \in Callers : off[c] = 0 /\ call[c].len = 0 /\ \A u \in Span : dst[c][u] = Nobody
    BY DEF Init
  <2>5. Before /\ Behind /\ PagesDisjoint
    BY <2>4, SpanType DEF Before, Behind, PagesDisjoint
  <2>6. Cut
    <3>1. \A c \in Callers : OnPage(off[c])
      BY <2>2, <2>4, Zenon
    <3>2. \A c \in Callers : off[c] <= call[c].len
      <4> TAKE c \in Callers
      <4>1. off[c] = 0 /\ call[c].len = 0
        BY <2>4
      <4>2. 0 <= 0
        OBVIOUS
      <4> QED
        BY <4>1, <4>2
    <3> QED
      BY <3>1, <3>2, Zenon DEF Cut
  <2> QED
    BY <2>3, <2>5, <2>6 DEF WriteInv
<1>2. CopyInv /\ WriteInv /\ [Next]_vars => WriteInv'
  BY WriteInvStep
<1> QED
  BY <1>1, <1>2, CopyInvariant, PTL DEF Spec

\* A call returns with its whole range written, each unit once: by the worker
\* whose slice it is in or, behind the slices, by the caller.
THEOREM RangeCopied == Spec => []ReturnsCopied
<1>1. CopyInv /\ WriteInv => ReturnsCopied
  <2> SUFFICES ASSUME CopyInv, WriteInv, NEW c \in Callers, pc[c] = "idle",
                      NEW u \in Span, u < call[c].len
               PROVE  dst[c][u] \notin {Nobody, Twice}
    BY DEF ReturnsCopied
  <2>1. CASE u < off[c]
    <3>1. ~ \E w \in Workers : \E j \in ToCopy(w) : j.caller = c
      BY ToCopyType
    <3> QED
      BY <2>1, <3>1 DEF WriteInv, Before
  <2>2. CASE ~(u < off[c])
    <3>1. u >= off[c] /\ ~(u >= call[c].len)
      BY <2>2, SpanType, LengthType DEF CopyInv, Typed
    <3>2. dst[c][u] = c
      BY <3>1 DEF WriteInv, Behind, Cutting
    <3> QED
      BY <3>2, CopyPoolAssumption
  <2> QED
    BY <2>1, <2>2
<1> QED
  BY <1>1, WriteInvariant, PTL

\* No two threads write one page of a call's range.
THEOREM PagesApart == Spec => []PagesDisjoint
<1>1. WriteInv => PagesDisjoint
  BY DEF WriteInv
<1> QED
  BY <1>1, WriteInvariant, PTL
=============================================================================
