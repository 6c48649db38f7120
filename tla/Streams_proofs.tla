--------------------------- MODULE Streams_proofs ---------------------------
(***************************************************************************)
(* Proofs about the two models of what is put on CUDA streams, StreamOrder *)
(* and Profiler, for any streams, events, threads, capacities and bounds.  *)
(*                                                                         *)
(* StreamOrder: for callers that order their streams every command finds   *)
(* its memory mapped and holding what program order says.  Commands carry  *)
(* the number of their enqueueing, a stream's queue is in that order, and  *)
(* what a command waits for was enqueued before it.  Before is what the    *)
(* streams and their waits keep in order, whatever the GPU does; of two    *)
(* commands that use a buffer, one of which writes it, the younger comes   *)
(* after the older, so that what a command finds is decided when it is     *)
(* enqueued, and running one changes nothing for those that follow.        *)
(*                                                                         *)
(* Profiler: what the buffer loses is counted, but for what a clear        *)
(* erases; a span is measured once, so what is resolved stays resolved,    *)
(* and however often it is stitched it makes one track.                    *)
(***************************************************************************)
EXTENDS StreamOrder, Profiler, FiniteSetTheorems, SequenceTheorems, WellFoundedInduction, TLAPS

(***************************************************************************)
(* Sequences and numbers.                                                  *)
(***************************************************************************)
IsSequence(q) == Len(q) \in Nat /\ q = [i \in 1 .. Len(q) |-> q[i]]

LEMMA Appended ==
  ASSUME NEW q, IsSequence(q), NEW c
  PROVE  /\ IsSequence(Append(q, c)) /\ Len(Append(q, c)) = Len(q) + 1
         /\ Append(q, c)[Len(q) + 1] = c
         /\ \A i \in 1 .. Len(q) : Append(q, c)[i] = q[i]
<1>1. q \in Seq({q[i] : i \in 1 .. Len(q)} \cup {c})
  BY DEF IsSequence
<1>2. /\ Append(q, c) \in Seq({q[i] : i \in 1 .. Len(q)} \cup {c})
      /\ Len(Append(q, c)) = Len(q) + 1
      /\ Append(q, c)[Len(q) + 1] = c
      /\ \A i \in 1 .. Len(q) : Append(q, c)[i] = q[i]
  BY <1>1
<1>3. \A S : \A r \in Seq(S) : Len(r) \in Nat /\ r = [i \in 1 .. Len(r) |-> r[i]]
  OBVIOUS
<1> QED
  BY <1>2, <1>3, Zenon DEF IsSequence

LEMMA HeadTail ==
  ASSUME NEW q, IsSequence(q), q # <<>>
  PROVE  /\ Len(q) \in Nat \ {0} /\ Head(q) = q[1]
         /\ IsSequence(Tail(q)) /\ Len(Tail(q)) = Len(q) - 1
         /\ \A i \in 1 .. Len(q) - 1 : Tail(q)[i] = q[i + 1]
<1>1. q \in Seq({q[i] : i \in 1 .. Len(q)})
  BY DEF IsSequence
<1>2. /\ Len(q) \in Nat \ {0} /\ Head(q) = q[1]
      /\ Tail(q) \in Seq({q[i] : i \in 1 .. Len(q)}) /\ Len(Tail(q)) = Len(q) - 1
      /\ \A i \in 1 .. Len(q) - 1 : Tail(q)[i] = q[i + 1]
  BY <1>1
<1>3. \A S : \A r \in Seq(S) : Len(r) \in Nat /\ r = [i \in 1 .. Len(r) |-> r[i]]
  OBVIOUS
<1> QED
  BY <1>2, <1>3, Zenon DEF IsSequence

\* A set of numbers that is not empty has a least one.
LEMMA Oldest ==
  ASSUME NEW S \in SUBSET Nat, S # {}
  PROVE  \E n \in S : \A m \in S : n <= m
<1>1. PICK n \in S : \A m \in S : ~(<<m, n>> \in OpToRel(<, Nat))
  BY NatLessThanWellFounded, WFMin, Zenon
<1>2. \A m \in S : ~(m < n)
  BY <1>1, Zenon DEF OpToRel
<1> QED
  BY <1>2

\* f starts with a and takes each step from the value before.
StepsOn(step, n, S) == step \in [1 .. n -> [S -> S]]
Follows(f, step, n, S, a) ==
  /\ f \in [0 .. n -> S] /\ f[0] = a
  /\ \A i \in 1 .. n : f[i] = step[i][f[i - 1]]

LEMMA Recursion ==
  ASSUME NEW n \in Nat, NEW S, NEW a \in S, NEW step, StepsOn(step, n, S)
  PROVE  \E f : Follows(f, step, n, S, a)
<1> USE DEF StepsOn, Follows
<1> DEFINE Up(k, f) == /\ f \in [0 .. k -> S] /\ f[0] = a
                       /\ \A i \in 1 .. k : f[i] = step[i][f[i - 1]]
           Bad == {k \in 0 .. n : \A f : ~ Up(k, f)}
<1>1. ASSUME Bad # {} PROVE FALSE
  <2>1. PICK k \in Bad : \A m \in Bad : k <= m
    <3>1. Bad \in SUBSET Nat
      OBVIOUS
    <3> HIDE DEF Bad
    <3> QED
      BY <1>1, <3>1, Oldest
  <2>2. k # 0
    <3>1. Up(0, [i \in 0 .. 0 |-> a])
      OBVIOUS
    <3> QED
      BY <2>1, <3>1, ZenonT(60)
  <2>3. k \in 1 .. n /\ k - 1 \in 0 .. n /\ k - 1 \notin Bad
    <3>1. k \in 0 .. n
      OBVIOUS
    <3>2. k \in 1 .. n /\ k - 1 \in 0 .. n /\ ~(k <= k - 1)
      BY <2>2, <3>1
    <3> HIDE DEF Bad
    <3> QED
      BY <2>1, <3>2
  <2>4. PICK f : Up(k - 1, f)
    BY <2>3
  <2> DEFINE g == [i \in 0 .. k |-> IF i = k THEN step[k][f[k - 1]] ELSE f[i]]
  <2>5. f[k - 1] \in S /\ step[k][f[k - 1]] \in S
    BY <2>3, <2>4
  <2>6. g \in [0 .. k -> S] /\ g[0] = a
    BY <2>3, <2>4, <2>5
  <2>7. \A i \in 1 .. k : g[i] = step[i][g[i - 1]]
    <3> SUFFICES ASSUME NEW i \in 1 .. k
                 PROVE  g[i] = step[i][g[i - 1]]
      OBVIOUS
    <3>1. CASE i = k
      BY <2>3, <3>1
    <3>2. CASE i # k
      <4>1. i \in 1 .. k - 1 /\ g[i] = f[i] /\ g[i - 1] = f[i - 1]
        BY <2>3, <3>2
      <4> QED
        BY <2>4, <4>1
    <3> QED
      BY <3>1, <3>2
  <2> QED
    BY <2>1, <2>6, <2>7
<1>2. n \notin Bad
  BY <1>1
<1> QED
  BY <1>2

-----------------------------------------------------------------------------
(***************************************************************************)
(* StreamOrder.                                                            *)
(***************************************************************************)
\* A queue of commands numbered up to n, each waiting for an older one at most.
InOrder(q, n) ==
  /\ IsSequence(q)
  /\ \A i \in 1 .. Len(q) : q[i].nth \in 1 .. n /\ q[i].for \in Nat /\ q[i].for < q[i].nth
  /\ \A i, k \in 1 .. Len(q) : i < k => q[i].nth < q[k].nth

QueueInv ==
  /\ issued \in Nat
  /\ queue = [s \in Streams |-> queue[s]] /\ event = [e \in Events |-> event[e]]
  /\ \A s \in Streams : InOrder(queue[s], issued)
  /\ \A e \in Events : event[e].nth \in 0 .. issued


LEMMA InOrderGrows ==
  ASSUME NEW q, NEW n \in Nat, NEW m \in Nat, n <= m, InOrder(q, n)
  PROVE  InOrder(q, m)
BY DEF InOrder, IsSequence

LEMMA InOrderAppend ==
  ASSUME NEW q, NEW n \in Nat, InOrder(q, n), NEW c, c.nth = n + 1, c.for \in 0 .. n
  PROVE  InOrder(Append(q, c), n + 1)
<1> DEFINE r == Append(q, c)
<1>1. /\ IsSequence(r) /\ Len(r) = Len(q) + 1 /\ Len(q) \in Nat
      /\ r[Len(q) + 1] = c /\ \A i \in 1 .. Len(q) : r[i] = q[i]
  BY Appended DEF InOrder, IsSequence
<1> HIDE DEF r
<1>2. \A i \in 1 .. Len(r) : i = Len(q) + 1 \/ i \in 1 .. Len(q)
  BY <1>1
<1>3. ASSUME NEW i \in 1 .. Len(r)
      PROVE  r[i].nth \in 1 .. n + 1 /\ r[i].for \in Nat /\ r[i].for < r[i].nth
  <2>1. CASE i = Len(q) + 1
    BY <1>1, <2>1
  <2>2. CASE i \in 1 .. Len(q)
    BY <1>1, <2>2 DEF InOrder
  <2> QED
    BY <1>2, <2>1, <2>2
<1>4. ASSUME NEW i \in 1 .. Len(r), NEW k \in 1 .. Len(r), i < k
      PROVE  r[i].nth < r[k].nth
  <2>1. i \in 1 .. Len(q)
    BY <1>1, <1>4
  <2>2. CASE k = Len(q) + 1
    BY <1>1, <2>1, <2>2 DEF InOrder
  <2>3. CASE k \in 1 .. Len(q)
    BY <1>1, <1>4, <2>1, <2>3 DEF InOrder
  <2> QED
    BY <1>2, <2>2, <2>3
<1>5. InOrder(r, n + 1)
  BY <1>1, <1>3, <1>4 DEF InOrder
<1> QED
  BY <1>5 DEF r

LEMMA InOrderTail ==
  ASSUME NEW q, NEW n \in Nat, InOrder(q, n), q # <<>>
  PROVE  InOrder(Tail(q), n)
<1> DEFINE r == Tail(q)
<1>1. /\ IsSequence(r) /\ Len(r) = Len(q) - 1 /\ Len(q) \in Nat \ {0}
      /\ \A i \in 1 .. Len(r) : i + 1 \in 1 .. Len(q) /\ r[i] = q[i + 1]
  BY HeadTail DEF InOrder
<1> HIDE DEF r
<1>2. \A i, k \in 1 .. Len(r) : i < k => i + 1 < k + 1
  BY <1>1
<1>3. InOrder(r, n)
  BY <1>1, <1>2 DEF InOrder
<1> QED
  BY <1>3 DEF r
(***************************************************************************)
(* The steps.                                                              *)
(***************************************************************************)
LEMMA IssueStep ==
  ASSUME QueueInv, NEW s \in Streams, NEW c, Issue(s, c),
         c.nth = issued + 1, c.for \in 0 .. issued,
         event' = [e \in Events |-> event'[e]],
         \A e \in Events : event'[e].nth \in 0 .. issued + 1
  PROVE  QueueInv'
<1> USE DEF QueueInv
<1>1. issued' = issued + 1 /\ queue' = [queue EXCEPT ![s] = Append(queue[s], c)]
  BY DEF Issue
<1>2. InOrder(queue'[s], issued')
  BY <1>1, InOrderAppend
<1>3. \A t \in Streams \ {s} : InOrder(queue'[t], issued')
  BY <1>1, InOrderGrows
<1>4. queue' = [t \in Streams |-> queue'[t]]
  BY <1>1
<1>5. \A t \in Streams : InOrder(queue'[t], issued')
  BY <1>2, <1>3
<1> QED
  BY <1>1, <1>4, <1>5

LEMMA OtherStep ==
  ASSUME QueueInv, UNCHANGED <<queue, event>>, issued' \in {issued, issued + 1}
  PROVE  QueueInv'
<1>1. issued' \in Nat /\ issued <= issued'
  BY DEF QueueInv
<1>2. \A s \in Streams : InOrder(queue'[s], issued')
  BY <1>1, InOrderGrows DEF QueueInv
<1>3. \A e \in Events : event'[e].nth \in 0 .. issued'
  BY <1>1 DEF QueueInv
<1> QED
  BY <1>1, <1>2, <1>3 DEF QueueInv

LEMMA CommandFields ==
  ASSUME NEW kind, NEW steps, NEW buf, NEW for
  PROVE  Command(kind, steps, buf, for).nth = issued + 1 /\ Command(kind, steps, buf, for).for = for
BY DEF Command

\* A command that waits for nothing.
LEMMA PlainStep ==
  ASSUME QueueInv, NEW s \in Streams, NEW kind, NEW steps, NEW buf,
         Issue(s, Command(kind, steps, buf, 0)), UNCHANGED event
  PROVE  QueueInv'
<1>1. 0 \in 0 .. issued
  BY DEF QueueInv
<1>2. \A e \in Events : event'[e].nth \in 0 .. issued + 1
  BY DEF QueueInv
<1>3. event' = [e \in Events |-> event'[e]]
  BY DEF QueueInv
<1> QED
  BY <1>1, <1>2, <1>3, CommandFields, IssueStep

LEMMA RunStep ==
  ASSUME QueueInv, NEW s \in Streams, NEW steps, Run(s, steps)
  PROVE  QueueInv'
BY PlainStep DEF Run

LEMMA EnqueueStep ==
  ASSUME QueueInv, NEW s \in Streams, NEW step, Enqueue(s, step)
  PROVE  QueueInv'
<1>1. CASE Run(s, <<step>>)
  BY <1>1, RunStep
<1>2. CASE Record(s, step)
  BY <1>2, OtherStep DEF Record
<1> QED
  BY <1>1, <1>2 DEF Enqueue

LEMMA EventStep ==
  ASSUME QueueInv, NEW s \in Streams, NEW e \in Events, EventRecord(e, s) \/ WaitFor(s, e)
  PROVE  QueueInv'
<1> USE DEF QueueInv
<1>1. CASE EventRecord(e, s)
  <2>1. event' = [event EXCEPT ![e] = [nth |-> issued + 1, after |-> after[s]]]
    BY <1>1 DEF EventRecord
  <2>2. event' = [f \in Events |-> event'[f]]
    BY <2>1
  <2>3. \A f \in Events : event'[f].nth \in 0 .. issued + 1
    BY <2>1
  <2>4. Issue(s, Command("record", <<>>, None, 0)) /\ 0 \in 0 .. issued
    BY <1>1 DEF EventRecord
  <2> QED
    BY <2>2, <2>3, <2>4, CommandFields, IssueStep
<1>2. CASE WaitFor(s, e)
  <2>1. /\ Issue(s, Command("wait", <<>>, None, event[e].nth)) /\ UNCHANGED event
        /\ event[e].nth \in 0 .. issued
    BY <1>2 DEF WaitFor
  <2>2. \A f \in Events : event'[f].nth \in 0 .. issued + 1
    BY <2>1
  <2>3. event' = [f \in Events |-> event'[f]]
    BY <2>1
  <2> QED
    BY <2>1, <2>2, <2>3, CommandFields, IssueStep
<1> QED
  BY <1>1, <1>2

LEMMA ExecuteStep ==
  ASSUME QueueInv, NEW s \in Streams, Execute(s)
  PROVE  QueueInv'
<1> USE DEF QueueInv
<1>1. queue[s] # <<>> /\ queue' = [queue EXCEPT ![s] = Tail(queue[s])] /\ issued' = issued
  BY DEF Execute
<1>2. InOrder(queue'[s], issued)
  BY <1>1, InOrderTail
<1>3. \A t \in Streams : InOrder(queue'[t], issued')
  BY <1>1, <1>2
<1> DEFINE n == Head(queue[s]).nth
<1>4. event' = [e \in Events |-> [nth |-> IF event[e].nth = n THEN 0 ELSE event[e].nth,
                                  after |-> event[e].after \ {n}]]
  BY DEF Execute, Forget
<1>5. \A e \in Events : event'[e].nth \in 0 .. issued'
  BY <1>1, <1>4
<1>6. event' = [e \in Events |-> event'[e]]
  BY <1>4
<1>7. queue' = [t \in Streams |-> queue'[t]]
  BY <1>1
<1> QED
  BY <1>1, <1>3, <1>5, <1>6, <1>7

\* The steps of a buffer.
LEMMA BufferStep ==
  ASSUME QueueInv, NEW b \in Buffers,
         \/ Alloc(b) \/ TakePooled(b) \/ TakeSlab(b) \/ HostWrite(b)
         \/ DropOwned(b) \/ DropPooled(b) \/ DropSlab(b) \/ ZeroInPlace(b)
  PROVE  QueueInv'
<1>1. b \in Device => Home[b] \in Streams
  BY StreamOrderAssumption
<1>2. CASE Alloc(b)
  BY <1>1, <1>2, PlainStep DEF Alloc, Device
<1>3. CASE DropOwned(b)
  BY <1>1, <1>3, PlainStep DEF DropOwned, Device
<1>4. CASE ZeroInPlace(b)
  BY <1>1, <1>4, EnqueueStep DEF ZeroInPlace
<1>5. CASE TakePooled(b) \/ TakeSlab(b) \/ HostWrite(b) \/ DropPooled(b) \/ DropSlab(b)
  BY <1>5, OtherStep DEF TakePooled, TakeSlab, HostWrite, DropPooled, DropSlab
<1> QED
  BY <1>2, <1>3, <1>4, <1>5

LEMMA CopyStep ==
  ASSUME QueueInv, NEW dst \in Buffers, NEW src \in Buffers,
         \/ CopyFromDevice(dst, src) \/ CopyFromHost(dst, src) \/ CopyToHost(dst, src)
         \/ \E s \in Streams : Launch(s, dst, src)
  PROVE  QueueInv'
<1>1. \A b \in Device : Home[b] \in Streams
  BY StreamOrderAssumption
<1>2. CASE CopyFromDevice(dst, src)
  BY <1>1, <1>2, EnqueueStep DEF CopyFromDevice
<1>3. CASE CopyFromHost(dst, src)
  BY <1>1, <1>3, EnqueueStep DEF CopyFromHost
<1>4. CASE CopyToHost(dst, src)
  BY <1>1, <1>4, EnqueueStep DEF CopyToHost
<1>5. ASSUME NEW s \in Streams, Launch(s, dst, src)
      PROVE  QueueInv'
  BY <1>5, EnqueueStep DEF Launch
<1> QED
  BY <1>2, <1>3, <1>4, <1>5

LEMMA StreamStep ==
  ASSUME QueueInv, NEW s \in Streams,
         \/ BeginCapture(s) \/ Invalidate(s) \/ GraphLaunch(s)
         \/ \E b \in Buffers : MemsetD8Async(s, b)
         \/ \E e \in Events : EventRecord(e, s) \/ WaitFor(s, e)
  PROVE  QueueInv'
<1>1. CASE BeginCapture(s) \/ Invalidate(s)
  BY <1>1, OtherStep DEF BeginCapture, Invalidate
<1>2. CASE GraphLaunch(s)
  BY <1>2, RunStep DEF GraphLaunch
<1>3. ASSUME NEW b \in Buffers, MemsetD8Async(s, b)
      PROVE  QueueInv'
  BY <1>3, EnqueueStep DEF MemsetD8Async
<1> QED
  BY <1>1, <1>2, <1>3, EventStep

LEMMA QueueInvStep ==
  ASSUME QueueInv, [Next]_vars
  PROVE  QueueInv'
<1>1. CASE EndCapture \/ DropCapture \/ DropGraph \/ UNCHANGED vars
  BY <1>1, OtherStep DEF EndCapture, DropCapture, DropGraph, vars
<1> QED
  BY <1>1, BufferStep, CopyStep, StreamStep, ExecuteStep DEF Next

(***************************************************************************)
(* What a command comes after.  A picture q of the commands in flight is   *)
(* the set of them on each stream.                                         *)
(***************************************************************************)
Now == [s \in Streams |-> {queue[s][i] : i \in 1 .. Len(queue[s])}]
All(q) == UNION {q[s] : s \in Streams}
Nths(q) == {c.nth : c \in All(q)}

\* D holds what has to run before what it holds.
Closed(q, D) ==
  /\ \A s \in Streams : \A c, d \in q[s] : d.nth \in D /\ c.nth < d.nth => c.nth \in D
  /\ \A c \in All(q) : c.nth \in D /\ c.for \in Nths(q) => c.for \in D

\* Command n does not run while command m has not, unless they are the same.
Before(q, m, n) == \A D \in SUBSET Nths(q) : Closed(q, D) /\ n \in D => m \in D

\* The commands are numbered up to k, each with a number of its own.
Picture(q, k) ==
  /\ q = [s \in Streams |-> q[s]]
  /\ \A c \in All(q) : c.nth \in 1 .. k /\ c.for \in Nat /\ c.for < c.nth
  /\ \A s, t \in Streams : \A c \in q[s], d \in q[t] : c.nth = d.nth => s = t /\ c = d

\* Command c goes on stream s; h, the oldest on s, is run.
Adds(q, r, s, c, k) ==
  /\ Picture(q, k) /\ k \in Nat /\ s \in Streams
  /\ c.nth = k + 1 /\ c.for \in 0 .. k
  /\ r = [q EXCEPT ![s] = q[s] \cup {c}]

Removes(q, r, s, h, k) ==
  /\ Picture(q, k) /\ k \in Nat /\ s \in Streams
  /\ h \in q[s] /\ h.for \notin Nths(q)
  /\ \A c \in q[s] : h.nth <= c.nth
  /\ r = [q EXCEPT ![s] = q[s] \ {h}]

LEMMA BeforeOrder ==
  ASSUME NEW q
  PROVE  /\ \A n : Before(q, n, n)
         /\ \A l, m, n : m \in Nths(q) /\ Before(q, l, m) /\ Before(q, m, n) => Before(q, l, n)
BY DEF Before

LEMMA AddsAll ==
  ASSUME NEW q, NEW r, NEW s, NEW c, NEW k, Adds(q, r, s, c, k)
  PROVE  /\ r[s] = q[s] \cup {c} /\ \A t \in Streams \ {s} : r[t] = q[t]
         /\ All(r) = All(q) \cup {c} /\ c \notin All(q) /\ Nths(r) = Nths(q) \cup {k + 1}
         /\ Nths(q) \in SUBSET (1 .. k) /\ Picture(r, k + 1)
         /\ \A d \in All(q) : d.nth \in 1 .. k /\ d.nth \in Nths(q)
         /\ \A t \in Streams : q[t] \subseteq All(q)
<1>1. /\ Picture(q, k) /\ k \in Nat /\ s \in Streams /\ c.nth = k + 1 /\ c.for \in 0 .. k
      /\ q = [t \in Streams |-> q[t]] /\ r = [q EXCEPT ![s] = q[s] \cup {c}]
  BY DEF Adds, Picture
<1>2. r[s] = q[s] \cup {c} /\ \A t \in Streams \ {s} : r[t] = q[t]
  BY <1>1
<1>3. All(r) = All(q) \cup {c}
  BY <1>1, <1>2 DEF All
<1>4. \A d \in All(q) : d.nth \in 1 .. k /\ d.nth \in Nths(q) /\ d.for \in Nat /\ d.for < d.nth
  BY <1>1 DEF Picture, Nths
<1>5. Nths(r) = Nths(q) \cup {k + 1}
  BY <1>1, <1>3 DEF Nths
<1>6. Nths(q) \in SUBSET (1 .. k)
  BY <1>4 DEF Nths
<1>7. c \notin All(q)
  BY <1>1, <1>4
<1>8. \A t \in Streams : q[t] \subseteq All(q)
  BY DEF All
<1>9. Picture(r, k + 1)
  <2>1. r = [t \in Streams |-> r[t]]
    BY <1>1
  <2>2. ASSUME NEW d \in All(r)
        PROVE  d.nth \in 1 .. k + 1 /\ d.for \in Nat /\ d.for < d.nth
    <3>1. CASE d = c
      BY <1>1, <3>1
    <3>2. CASE d \in All(q)
      BY <1>1, <1>4, <3>2
    <3> QED
      BY <1>3, <3>1, <3>2
  <2>3. ASSUME NEW t \in Streams, NEW u \in Streams, NEW d \in r[t], NEW e \in r[u], d.nth = e.nth
        PROVE  t = u /\ d = e
    <3>1. /\ d \in q[t] \/ (t = s /\ d = c)
          /\ e \in q[u] \/ (u = s /\ e = c)
      BY <1>2
    <3>2. \A x \in Streams : \A y \in q[x] : y.nth # k + 1
      BY <1>1, <1>4, <1>8
    <3>3. CASE d \in q[t] /\ e \in q[u]
      BY <1>1, <2>3, <3>3 DEF Picture
    <3> QED
      BY <1>1, <2>3, <3>1, <3>2, <3>3
  <2> QED
    BY <2>1, <2>2, <2>3 DEF Picture
<1> QED
  BY <1>2, <1>3, <1>4, <1>5, <1>6, <1>7, <1>8, <1>9

\* What is closed with the new command is closed without.
LEMMA AddsBefore ==
  ASSUME NEW q, NEW r, NEW s, NEW c, NEW k, Adds(q, r, s, c, k)
  PROVE  /\ \A m : \A n \in Nths(q) : Before(q, m, n) => Before(r, m, n)
         /\ \A m : \A x \in q[s] : Before(q, m, x.nth) => Before(r, m, k + 1)
         /\ \A m : c.for \in Nths(q) /\ Before(q, m, c.for) => Before(r, m, k + 1)
<1>1. /\ r[s] = q[s] \cup {c} /\ \A t \in Streams \ {s} : r[t] = q[t]
      /\ All(r) = All(q) \cup {c} /\ Nths(r) = Nths(q) \cup {k + 1}
      /\ Nths(q) \in SUBSET (1 .. k)
      /\ \A d \in All(q) : d.nth \in 1 .. k /\ d.nth \in Nths(q)
      /\ \A t \in Streams : q[t] \subseteq All(q)
      /\ k \in Nat /\ c.nth = k + 1 /\ c.for \in 0 .. k /\ s \in Streams
  <2>1. k \in Nat /\ c.nth = k + 1 /\ c.for \in 0 .. k /\ s \in Streams
    BY DEF Adds
  <2> QED
    BY <2>1, AddsAll
<1>2. ASSUME NEW D \in SUBSET Nths(r), Closed(r, D)
      PROVE  D \ {k + 1} \in SUBSET Nths(q) /\ Closed(q, D \ {k + 1})
  <2>1. D \ {k + 1} \in SUBSET Nths(q)
    BY <1>1
  <2>2. ASSUME NEW t \in Streams, NEW d \in q[t], NEW e \in q[t], e.nth \in D \ {k + 1}, d.nth < e.nth
        PROVE  d.nth \in D \ {k + 1}
    <3>1. d \in r[t] /\ e \in r[t] /\ d.nth # k + 1
      BY <1>1
    <3> QED
      BY <1>2, <2>2, <3>1 DEF Closed
  <2>3. ASSUME NEW d \in All(q), d.nth \in D \ {k + 1}, d.for \in Nths(q)
        PROVE  d.for \in D \ {k + 1}
    <3>1. d \in All(r) /\ d.for \in Nths(r) /\ d.for # k + 1
      BY <1>1, <2>3
    <3> QED
      BY <1>2, <2>3, <3>1 DEF Closed
  <2> QED
    BY <2>1, <2>2, <2>3 DEF Closed
<1>3. ASSUME NEW m, NEW n \in Nths(q), Before(q, m, n)
      PROVE  Before(r, m, n)
  <2>1. n # k + 1
    BY <1>1
  <2> QED
    BY <1>2, <1>3, <2>1 DEF Before
<1>4. ASSUME NEW m, NEW x \in q[s], Before(q, m, x.nth)
      PROVE  Before(r, m, k + 1)
  <2> SUFFICES ASSUME NEW D \in SUBSET Nths(r), Closed(r, D), k + 1 \in D
               PROVE  m \in D
    BY DEF Before
  <2>1. x \in r[s] /\ c \in r[s] /\ x.nth < c.nth /\ x.nth # k + 1
    BY <1>1
  <2>2. x.nth \in D
    BY <1>1, <2>1 DEF Closed
  <2> QED
    BY <1>2, <1>4, <2>1, <2>2 DEF Before
<1>5. ASSUME NEW m, c.for \in Nths(q), Before(q, m, c.for)
      PROVE  Before(r, m, k + 1)
  <2> SUFFICES ASSUME NEW D \in SUBSET Nths(r), Closed(r, D), k + 1 \in D
               PROVE  m \in D
    BY DEF Before
  <2>1. c \in All(r) /\ c.for \in Nths(r) /\ c.for # k + 1
    BY <1>1, <1>5
  <2>2. c.for \in D
    BY <1>1, <2>1 DEF Closed
  <2> QED
    BY <1>2, <1>5, <2>1, <2>2 DEF Before
<1> QED
  BY <1>3, <1>4, <1>5

LEMMA RemovesAll ==
  ASSUME NEW q, NEW r, NEW s, NEW h, NEW k, Removes(q, r, s, h, k)
  PROVE  /\ r[s] = q[s] \ {h} /\ \A t \in Streams \ {s} : r[t] = q[t]
         /\ All(r) = All(q) \ {h} /\ h \in All(q) /\ Nths(r) = Nths(q) \ {h.nth}
         /\ Picture(r, k)
         /\ \A d \in All(q) : d.nth \in 1 .. k /\ (d # h => d.nth # h.nth)
         /\ \A t \in Streams : q[t] \subseteq All(q)
<1>1. /\ Picture(q, k) /\ k \in Nat /\ s \in Streams /\ h \in q[s]
      /\ q = [t \in Streams |-> q[t]] /\ r = [q EXCEPT ![s] = q[s] \ {h}]
      /\ \A t, u \in Streams : \A d \in q[t], e \in q[u] : d.nth = e.nth => t = u /\ d = e
  BY DEF Removes, Picture
<1>2. r[s] = q[s] \ {h} /\ \A t \in Streams \ {s} : r[t] = q[t]
  BY <1>1
<1>3. /\ \A t \in Streams : q[t] \subseteq All(q)
      /\ \A t \in Streams : \A d \in q[t] : d.nth = h.nth => d = h /\ t = s
  <2>1. \A t \in Streams : q[t] \subseteq All(q)
    BY DEF All
  <2>2. \A t \in Streams : \A d \in q[t] : d.nth = h.nth => d = h /\ t = s
    BY <1>1
  <2> QED
    BY <2>1, <2>2
<1>4. \A d \in All(q) : \E t \in Streams : d \in q[t]
  BY DEF All
<1>5. All(r) = All(q) \ {h}
  <2>1. \A d \in All(r) : d \in All(q) /\ d # h
    BY <1>1, <1>2, <1>3 DEF All
  <2>2. \A d \in All(q) : d # h => d \in All(r)
    <3>1. \A t \in Streams : \A d \in q[t] : d # h => d \in r[t]
      BY <1>2
    <3> QED
      BY <1>4, <3>1 DEF All
  <2> QED
    BY <1>1, <1>3, <2>1, <2>2
<1>6. \A d \in All(q) : d.nth \in 1 .. k /\ (d # h => d.nth # h.nth)
  BY <1>1, <1>3, <1>4 DEF Picture
<1>7. Nths(r) = Nths(q) \ {h.nth}
  BY <1>5, <1>6 DEF Nths
<1>8. Picture(r, k)
  <2>1. r = [t \in Streams |-> r[t]] /\ \A t \in Streams : r[t] \subseteq q[t]
    BY <1>1
  <2>2. \A t, u \in Streams : \A d \in r[t], e \in r[u] : d.nth = e.nth => t = u /\ d = e
    BY <1>1, <2>1
  <2>3. \A c \in All(r) : c.nth \in 1 .. k /\ c.for \in Nat /\ c.for < c.nth
    BY <1>1, <1>5 DEF Picture
  <2> QED
    BY <2>1, <2>2, <2>3 DEF Picture
<1>9. h \in All(q)
  BY <1>1 DEF All
<1> QED
  BY <1>2, <1>3, <1>5, <1>6, <1>7, <1>8, <1>9

\* The command run comes after nothing; what is closed without it is closed
\* with it.
LEMMA RemovesBefore ==
  ASSUME NEW q, NEW r, NEW s, NEW h, NEW k, Removes(q, r, s, h, k)
  PROVE  /\ \A m : Before(q, m, h.nth) => m = h.nth
         /\ \A m : \A n \in Nths(r) : m # h.nth /\ Before(q, m, n) => Before(r, m, n)
<1>1. /\ r[s] = q[s] \ {h} /\ \A t \in Streams \ {s} : r[t] = q[t]
      /\ All(r) = All(q) \ {h} /\ h \in All(q) /\ Nths(r) = Nths(q) \ {h.nth}
      /\ \A d \in All(q) : d.nth \in 1 .. k /\ (d # h => d.nth # h.nth)
      /\ \A t \in Streams : q[t] \subseteq All(q)
      /\ h \in q[s] /\ h.for \notin Nths(q) /\ s \in Streams
      /\ \A c \in q[s] : h.nth <= c.nth
      /\ \A t \in Streams : h \in q[t] => t = s
  BY RemovesAll DEF Removes, Picture
<1>2. ASSUME NEW D \in SUBSET Nths(r), Closed(r, D)
      PROVE  D \cup {h.nth} \in SUBSET Nths(q) /\ Closed(q, D \cup {h.nth})
  <2>1. D \cup {h.nth} \in SUBSET Nths(q)
    BY <1>1 DEF Nths
  <2>2. ASSUME NEW t \in Streams, NEW d \in q[t], NEW e \in q[t],
               e.nth \in D \cup {h.nth}, d.nth < e.nth
        PROVE  d.nth \in D \cup {h.nth}
    <3>1. CASE d = h
      BY <3>1
    <3>2. CASE d # h /\ e = h
      <4>1. t = s /\ h.nth <= d.nth /\ d.nth \in 1 .. k /\ h.nth \in 1 .. k
        BY <1>1, <3>2
      <4> QED
        BY <2>2, <3>2, <4>1
    <3>3. CASE d # h /\ e # h
      <4>1. d \in r[t] /\ e \in r[t] /\ e.nth \in D
        BY <1>1, <2>2, <3>3
      <4> QED
        BY <1>2, <2>2, <4>1 DEF Closed
    <3> QED
      BY <3>1, <3>2, <3>3
  <2>3. ASSUME NEW d \in All(q), d.nth \in D \cup {h.nth}, d.for \in Nths(q)
        PROVE  d.for \in D \cup {h.nth}
    <3>1. d # h /\ d \in All(r) /\ d.nth \in D
      BY <1>1, <2>3
    <3>2. CASE d.for = h.nth
      BY <3>2
    <3>3. CASE d.for # h.nth
      BY <1>1, <1>2, <2>3, <3>1, <3>3 DEF Closed
    <3> QED
      BY <3>2, <3>3
  <2> QED
    BY <2>1, <2>2, <2>3 DEF Closed
<1>3. ASSUME NEW m, Before(q, m, h.nth)
      PROVE  m = h.nth
  <2>1. {} \in SUBSET Nths(r) /\ Closed(r, {})
    BY DEF Closed
  <2>2. {} \cup {h.nth} \in SUBSET Nths(q) /\ Closed(q, {} \cup {h.nth})
    BY <1>2, <2>1
  <2> QED
    BY <1>3, <2>2 DEF Before
<1>4. ASSUME NEW m, NEW n \in Nths(r), m # h.nth, Before(q, m, n)
      PROVE  Before(r, m, n)
  BY <1>2, <1>4 DEF Before
<1> QED
  BY <1>3, <1>4
(***************************************************************************)
(* What a command finds.                                                   *)
(***************************************************************************)
Writes(c, b) == b \in Written(c.steps) \/ c.buf = b
Uses(c, b) == b \in Touched(c.steps) \/ c.buf = b

LEMMA WritesUses ==
  ASSUME NEW b \in Buffers
  PROVE  \A c : Writes(c, b) => Uses(c, b)
<1>1. b # None
  BY StreamOrderAssumption
<1> QED
  BY <1>1 DEF Writes, Uses, Written, Touched

\* What c leaves in b, which it writes.
Leaves(c, b) ==
  IF c.kind = "alloc" THEN 0 ELSE IF c.kind = "free" THEN Unmapped ELSE c.leaves[b]

\* With contents mm and the commands of q in flight, command k, or the host by
\* then, finds v in b.
Finds(q, mm, k, b, v) ==
  \/ /\ \A c \in All(q) : c.nth < k => ~Writes(c, b)
     /\ v = mm[b]
  \/ \E c \in All(q) :
       /\ c.nth < k /\ Writes(c, b) /\ v = Leaves(c, b)
       /\ \A d \in All(q) : d.nth < k /\ Writes(d, b) => d.nth <= c.nth

Mapped(q, mm, k, b) == \E v \in Nat : Finds(q, mm, k, b, v)

\* What a step leaves of the buffers' contents.
Turns(h, mm, mm2) ==
  \A b \in Buffers : mm2[b] = IF Writes(h, b) THEN Leaves(h, b) ELSE mm[b]

LEMMA FindsAdds ==
  ASSUME NEW q, NEW r, NEW s, NEW c, NEW k, Adds(q, r, s, c, k), NEW mm, NEW b
  PROVE  /\ \A v : \A j \in 0 .. k + 1 : Finds(q, mm, j, b, v) => Finds(r, mm, j, b, v)
         /\ \A v : ~Writes(c, b) /\ Finds(q, mm, k + 1, b, v) => Finds(r, mm, k + 2, b, v)
         /\ Writes(c, b) => Finds(r, mm, k + 2, b, Leaves(c, b))
<1>1. /\ All(r) = All(q) \cup {c} /\ c.nth = k + 1 /\ k \in Nat
      /\ \A d \in All(q) : d.nth \in 1 .. k
  <2>1. c.nth = k + 1 /\ k \in Nat
    BY DEF Adds
  <2> QED
    BY <2>1, AddsAll
<1>2. \A j \in 0 .. k + 1 : ~(c.nth < j)
  BY <1>1
<1>3. ASSUME NEW j \in 0 .. k + 1, NEW v, Finds(q, mm, j, b, v)
      PROVE  Finds(r, mm, j, b, v)
  <2>1. CASE (\A d \in All(q) : d.nth < j => ~Writes(d, b)) /\ v = mm[b]
    BY <1>1, <1>2, <2>1 DEF Finds
  <2>2. CASE \E e \in All(q) :
               /\ e.nth < j /\ Writes(e, b) /\ v = Leaves(e, b)
               /\ \A d \in All(q) : d.nth < j /\ Writes(d, b) => d.nth <= e.nth
    BY <1>1, <1>2, <2>2 DEF Finds
  <2> QED
    BY <1>3, <2>1, <2>2 DEF Finds
<1>4. \A d \in All(q) : d.nth < k + 1 /\ d.nth < k + 2
  BY <1>1
<1>5. ASSUME NEW v, ~Writes(c, b), Finds(q, mm, k + 1, b, v)
      PROVE  Finds(r, mm, k + 2, b, v)
  <2>1. CASE (\A d \in All(q) : d.nth < k + 1 => ~Writes(d, b)) /\ v = mm[b]
    BY <1>1, <1>4, <1>5, <2>1 DEF Finds
  <2>2. CASE \E e \in All(q) :
               /\ e.nth < k + 1 /\ Writes(e, b) /\ v = Leaves(e, b)
               /\ \A d \in All(q) : d.nth < k + 1 /\ Writes(d, b) => d.nth <= e.nth
    BY <1>1, <1>4, <1>5, <2>2 DEF Finds
  <2> QED
    BY <1>5, <2>1, <2>2 DEF Finds
<1>6. ASSUME Writes(c, b)
      PROVE  Finds(r, mm, k + 2, b, Leaves(c, b))
  <2>1. c \in All(r) /\ c.nth < k + 2 /\ \A d \in All(r) : d.nth <= c.nth
    BY <1>1
  <2> QED
    BY <1>6, <2>1 DEF Finds
<1> QED
  BY <1>3, <1>5, <1>6

\* Numbers not given yet make no difference.
LEMMA FindsLater ==
  ASSUME NEW q, NEW k \in Nat, Picture(q, k), NEW mm, NEW b, NEW v, Finds(q, mm, k + 1, b, v)
  PROVE  Finds(q, mm, k + 2, b, v)
<1>1. \A d \in All(q) : d.nth < k + 1 /\ d.nth < k + 2
  <2>1. \A d \in All(q) : d.nth \in 1 .. k
    BY DEF Picture
  <2> QED
    BY <2>1
<1>2. CASE (\A d \in All(q) : d.nth < k + 1 => ~Writes(d, b)) /\ v = mm[b]
  BY <1>1, <1>2 DEF Finds
<1>3. CASE \E e \in All(q) :
             /\ e.nth < k + 1 /\ Writes(e, b) /\ v = Leaves(e, b)
             /\ \A d \in All(q) : d.nth < k + 1 /\ Writes(d, b) => d.nth <= e.nth
  BY <1>1, <1>3 DEF Finds
<1> QED
  BY <1>2, <1>3 DEF Finds

\* The oldest writer of b runs: who came after it finds what it left.
LEMMA FindsRemoves ==
  ASSUME NEW q, NEW r, NEW s, NEW h, NEW k, Removes(q, r, s, h, k),
         NEW mm, NEW mm2, Turns(h, mm, mm2), NEW b \in Buffers, NEW j \in Nat, NEW v,
         Writes(h, b) => /\ h.nth < j
                         /\ \A d \in All(q) : Writes(d, b) => h.nth <= d.nth,
         Finds(q, mm, j, b, v)
  PROVE  Finds(r, mm2, j, b, v)
<1>1. /\ All(r) = All(q) \ {h} /\ h \in All(q)
      /\ \A d \in All(q) : d.nth \in 1 .. k /\ (d # h => d.nth # h.nth)
      /\ mm2[b] = IF Writes(h, b) THEN Leaves(h, b) ELSE mm[b]
  BY RemovesAll DEF Turns
<1>2. CASE ~Writes(h, b)
  <2>1. CASE (\A d \in All(q) : d.nth < j => ~Writes(d, b)) /\ v = mm[b]
    BY <1>1, <1>2, <2>1 DEF Finds
  <2>2. CASE \E e \in All(q) :
               /\ e.nth < j /\ Writes(e, b) /\ v = Leaves(e, b)
               /\ \A d \in All(q) : d.nth < j /\ Writes(d, b) => d.nth <= e.nth
    BY <1>1, <1>2, <2>2 DEF Finds
  <2> QED
    BY <2>1, <2>2 DEF Finds
<1>3. CASE Writes(h, b)
  <2>1. h.nth < j /\ \A d \in All(q) : Writes(d, b) => h.nth <= d.nth
    BY <1>3
  <2>2. PICK e \in All(q) : /\ e.nth < j /\ Writes(e, b) /\ v = Leaves(e, b)
                            /\ \A d \in All(q) : d.nth < j /\ Writes(d, b) => d.nth <= e.nth
    BY <1>1, <1>3, <2>1 DEF Finds
  <2>3. CASE e = h
    <3>1. \A d \in All(r) : d.nth < j => ~Writes(d, b)
      <4> SUFFICES ASSUME NEW d \in All(r), d.nth < j, Writes(d, b)
                   PROVE  FALSE
        OBVIOUS
      <4>1. d \in All(q) /\ d # h /\ d.nth <= h.nth /\ h.nth <= d.nth
        BY <1>1, <2>1, <2>2, <2>3
      <4>2. d.nth \in 1 .. k /\ h.nth \in 1 .. k /\ d.nth # h.nth
        BY <1>1, <4>1
      <4> QED
        BY <4>1, <4>2
    <3>2. v = mm2[b]
      BY <1>1, <1>3, <2>2, <2>3
    <3> QED
      BY <3>1, <3>2 DEF Finds
  <2>4. CASE e # h
    <3>1. e \in All(r) /\ \A d \in All(r) : d \in All(q)
      BY <1>1, <2>2, <2>4
    <3> QED
      BY <2>2, <3>1 DEF Finds
  <2> QED
    BY <2>3, <2>4
<1> QED
  BY <1>2, <1>3

(***************************************************************************)
(* The invariant, on a picture q of the commands in flight.                *)
(***************************************************************************)
\* A stream that comes after a command has one that does; what an event
\* stands for comes before its record.
AfterOk(q, aft, ev) ==
  /\ \A s \in Streams : \A m \in aft[s] : m \in Nths(q) /\ \E x \in q[s] : Before(q, m, x.nth)
  /\ \A s \in Streams : \A c \in q[s] : c.nth \in aft[s]
  /\ \A e \in Events : \A m \in ev[e].after :
       m \in Nths(q) /\ ev[e].nth \in Nths(q) /\ Before(q, m, ev[e].nth)

\* The users kept of a buffer in hand stand for all: who comes after the last
\* write comes after every write, and who comes after the reads too, after
\* every use.  What was dropped is used by nothing that comes after its stream.
UserOk(q, b, in, u) ==
  /\ u.wrote \subseteq Nths(q) /\ u.read \subseteq Nths(q)
  /\ in => \A c \in All(q) :
       /\ Writes(c, b) => \E n \in u.wrote : Before(q, c.nth, n)
       /\ Uses(c, b) => c.nth \in u.read \/ \E n \in u.wrote : Before(q, c.nth, n)
  /\ ~in /\ b \in Device => \A c \in All(q) :
       Uses(c, b) => \E x \in q[Home[b]] : Before(q, c.nth, x.nth)
  /\ ~in /\ b \in Slabs => \A c \in All(q) : ~Uses(c, b)

\* Of two commands that use a buffer, one of which writes it, the second runs
\* after the first.
PairOk(q, c, d) == \A b \in Buffers :
  c.nth < d.nth /\ Uses(c, b) /\ Uses(d, b) /\ (Writes(c, b) \/ Writes(d, b))
    => Before(q, c.nth, d.nth)

\* A command leaves what it makes of what program order says, and finds that.
FindsWanted(q, mm, c, w) ==
  /\ \A b \in Written(c.steps) :
       c.leaves[b] = Apply(w, c.steps, c.nth)[b] /\ c.leaves[b] # None
  /\ \A b \in Touched(c.steps) : w[b] # None => Finds(q, mm, c.nth, b, w[b])

CommandWell(q, mm, c) ==
  /\ c.kind = "run" =>
       /\ \E w \in [Buffers -> 0 .. c.nth \cup {None}] : FindsWanted(q, mm, c, w)
       /\ \A b \in Touched(c.steps) : Mapped(q, mm, c.nth, b)
  /\ c.kind = "alloc" => Finds(q, mm, c.nth, c.buf, Unmapped)

\* So does the host, once what is in flight has run.
HostFinds(q, mm, k, b, in, wt) ==
  /\ wt # None => in /\ Finds(q, mm, k + 1, b, wt)
  /\ IF b \in Owned /\ ~in THEN Finds(q, mm, k + 1, b, Unmapped) ELSE Mapped(q, mm, k + 1, b)

\* What comes after what, once command c is on stream s, which comes after
\* more too.
Stands(q, s, c, k, aft, ev, aft2, ev2, more) ==
  /\ aft2 = [aft EXCEPT ![s] = @ \cup more \cup {k + 1}]
  /\ \A m \in more : m \in Nths(q) /\ c.for \in Nths(q) /\ Before(q, m, c.for)
  /\ \A e \in Events : ev2[e] = ev[e] \/ (ev2[e].nth = k + 1 /\ ev2[e].after = aft[s])

LEMMA AfterAdds ==
  ASSUME NEW q, NEW r, NEW s, NEW c, NEW k, Adds(q, r, s, c, k),
         NEW aft \in [Streams -> SUBSET Nat], NEW ev, AfterOk(q, aft, ev),
         NEW aft2, NEW ev2, NEW more, Stands(q, s, c, k, aft, ev, aft2, ev2, more)
  PROVE  AfterOk(r, aft2, ev2)
<1> /\ aft2[s] = aft[s] \cup more \cup {k + 1} /\ \A t \in Streams \ {s} : aft2[t] = aft[t]
    /\ \A m \in more : m \in Nths(q) /\ c.for \in Nths(q) /\ Before(q, m, c.for)
    /\ \A e \in Events : ev2[e] = ev[e] \/ (ev2[e].nth = k + 1 /\ ev2[e].after = aft[s])
  BY DEF Stands, Adds
<1>1. /\ r[s] = q[s] \cup {c} /\ \A t \in Streams \ {s} : r[t] = q[t]
      /\ Nths(r) = Nths(q) \cup {k + 1}
      /\ \A d \in All(q) : d.nth \in Nths(q)
      /\ \A t \in Streams : q[t] \subseteq All(q)
      /\ c.nth = k + 1 /\ s \in Streams
  <2>1. c.nth = k + 1 /\ s \in Streams
    BY DEF Adds
  <2> QED
    BY <2>1, AddsAll
<1>2. /\ \A m : \A n \in Nths(q) : Before(q, m, n) => Before(r, m, n)
      /\ \A m : \A x \in q[s] : Before(q, m, x.nth) => Before(r, m, k + 1)
      /\ \A m : c.for \in Nths(q) /\ Before(q, m, c.for) => Before(r, m, k + 1)
  BY AddsBefore
<1>3. Before(r, k + 1, k + 1)
  BY BeforeOrder
<1>4. \A m \in aft[s] : m \in Nths(q) /\ Before(r, m, k + 1)
  BY <1>1, <1>2 DEF AfterOk
<1>5. ASSUME NEW t \in Streams, NEW m \in aft2[t]
      PROVE  m \in Nths(r) /\ \E x \in r[t] : Before(r, m, x.nth)
  <2>1. CASE t = s
    <3>1. c \in r[s] /\ m \in Nths(r) /\ Before(r, m, c.nth)
      BY <1>1, <1>2, <1>3, <1>4, <1>5, <2>1
    <3> QED
      BY <2>1, <3>1
  <2>2. CASE t # s
    <3>1. m \in aft[t] /\ r[t] = q[t]
      BY <1>1, <1>5, <2>2
    <3>2. m \in Nths(q) /\ \E x \in q[t] : Before(q, m, x.nth)
      BY <3>1 DEF AfterOk
    <3> QED
      BY <1>1, <1>2, <3>1, <3>2
  <2> QED
    BY <2>1, <2>2
<1>6. ASSUME NEW t \in Streams, NEW d \in r[t]
      PROVE  d.nth \in aft2[t]
  <2>1. CASE d \in q[t]
    <3>1. d.nth \in aft[t]
      BY <2>1 DEF AfterOk
    <3> QED
      BY <3>1
  <2>2. CASE d \notin q[t]
    BY <1>1, <1>6, <2>2
  <2> QED
    BY <2>1, <2>2
<1>7. ASSUME NEW e \in Events, NEW m \in ev2[e].after
      PROVE  m \in Nths(r) /\ ev2[e].nth \in Nths(r) /\ Before(r, m, ev2[e].nth)
  <2>1. CASE ev2[e] = ev[e]
    <3>1. m \in Nths(q) /\ ev[e].nth \in Nths(q) /\ Before(q, m, ev[e].nth)
      BY <1>7, <2>1 DEF AfterOk
    <3> QED
      BY <1>1, <1>2, <2>1, <3>1
  <2>2. CASE ev2[e].nth = k + 1 /\ ev2[e].after = aft[s]
    BY <1>1, <1>4, <1>7, <2>2
  <2> QED
    BY <2>1, <2>2
<1> QED
  BY <1>5, <1>6, <1>7 DEF AfterOk

LEMMA AfterRemoves ==
  ASSUME NEW q, NEW r, NEW s, NEW h, NEW k, Removes(q, r, s, h, k),
         NEW aft, NEW ev, AfterOk(q, aft, ev), NEW aft2, NEW ev2,
         \A t \in Streams : aft2[t] = aft[t] \ {h.nth},
         \A e \in Events : /\ ev2[e].after = ev[e].after \ {h.nth}
                           /\ ev[e].nth # h.nth => ev2[e].nth = ev[e].nth
  PROVE  AfterOk(r, aft2, ev2)
<1>1. /\ r[s] = q[s] \ {h} /\ \A t \in Streams \ {s} : r[t] = q[t]
      /\ All(r) = All(q) \ {h} /\ Nths(r) = Nths(q) \ {h.nth}
      /\ \A d \in All(q) : d # h => d.nth # h.nth
      /\ \A t \in Streams : q[t] \subseteq All(q)
  BY RemovesAll
<1>2. /\ \A m : Before(q, m, h.nth) => m = h.nth
      /\ \A m : \A n \in Nths(r) : m # h.nth /\ Before(q, m, n) => Before(r, m, n)
  BY RemovesBefore
<1>3. \A t \in Streams : \A d \in q[t] : d # h => d \in r[t] /\ d.nth \in Nths(r)
  BY <1>1 DEF Nths
<1>4. \A t \in Streams : \A d \in r[t] : d \in q[t] /\ d.nth # h.nth
  <2>1. \A t \in Streams : \A d \in r[t] : d \in q[t]
    BY <1>1
  <2>2. \A t \in Streams : \A d \in r[t] : d \in All(r)
    BY DEF All
  <2> QED
    BY <1>1, <2>1, <2>2
<1>5. ASSUME NEW t \in Streams, NEW m \in aft2[t]
      PROVE  m \in Nths(r) /\ \E x \in r[t] : Before(r, m, x.nth)
  <2>1. m \in aft[t] /\ m # h.nth
    BY <1>5
  <2>2. m \in Nths(q) /\ \E x \in q[t] : Before(q, m, x.nth)
    BY <2>1 DEF AfterOk
  <2>3. PICK x \in q[t] : Before(q, m, x.nth)
    BY <2>2
  <2>4. x # h
    BY <1>2, <2>1, <2>3
  <2>5. x \in r[t] /\ x.nth \in Nths(r)
    BY <1>3, <2>4
  <2> QED
    BY <1>1, <1>2, <2>1, <2>2, <2>3, <2>5
<1>6. ASSUME NEW t \in Streams, NEW d \in r[t]
      PROVE  d.nth \in aft2[t]
  BY <1>4 DEF AfterOk
<1>7. ASSUME NEW e \in Events, NEW m \in ev2[e].after
      PROVE  m \in Nths(r) /\ ev2[e].nth \in Nths(r) /\ Before(r, m, ev2[e].nth)
  <2>1. m \in ev[e].after /\ m # h.nth
    BY <1>7
  <2>2. m \in Nths(q) /\ ev[e].nth \in Nths(q) /\ Before(q, m, ev[e].nth)
    BY <2>1 DEF AfterOk
  <2>3. ev[e].nth # h.nth
    BY <1>2, <2>1, <2>2
  <2> QED
    BY <1>1, <1>2, <2>1, <2>2, <2>3
<1> QED
  BY <1>5, <1>6, <1>7 DEF AfterOk

\* The users of a buffer when a command comes: it does not use it, writes it,
\* only reads it, or frees it.
LEMMA UserOthers ==
  ASSUME NEW q, NEW r, NEW s, NEW c, NEW k, Adds(q, r, s, c, k),
         NEW b \in Buffers, NEW in \in BOOLEAN, NEW u, ~Uses(c, b), UserOk(q, b, in, u)
  PROVE  UserOk(r, b, in, u)
<1>1. /\ Nths(r) = Nths(q) \cup {k + 1} /\ All(r) = All(q) \cup {c}
      /\ \A d \in All(q) : d.nth \in Nths(q)
      /\ \A t \in Streams : q[t] \subseteq All(q) /\ q[t] \subseteq r[t]
  BY AddsAll
<1>2. \A m : \A n \in Nths(q) : Before(q, m, n) => Before(r, m, n)
  BY AddsBefore
<1>3. ~Writes(c, b)
  BY WritesUses
<1>4. u.wrote \subseteq Nths(r) /\ u.read \subseteq Nths(r)
  BY <1>1 DEF UserOk
<1>5. ASSUME in, NEW d \in All(r)
      PROVE  /\ Writes(d, b) => \E n \in u.wrote : Before(r, d.nth, n)
             /\ Uses(d, b) => d.nth \in u.read \/ \E n \in u.wrote : Before(r, d.nth, n)
  <2>1. CASE d = c
    BY <1>3, <2>1
  <2>2. CASE d \in All(q)
    <3>1. /\ Writes(d, b) => \E n \in u.wrote : Before(q, d.nth, n)
          /\ Uses(d, b) => d.nth \in u.read \/ \E n \in u.wrote : Before(q, d.nth, n)
          /\ u.wrote \subseteq Nths(q)
      BY <1>5, <2>2 DEF UserOk
    <3> QED
      BY <1>2, <3>1
  <2> QED
    BY <1>1, <2>1, <2>2
<1>6. ASSUME ~in, b \in Device, NEW d \in All(r), Uses(d, b)
      PROVE  \E x \in r[Home[b]] : Before(r, d.nth, x.nth)
  <2>1. d \in All(q) /\ Home[b] \in Streams
    BY <1>1, <1>6, StreamOrderAssumption
  <2>2. PICK x \in q[Home[b]] : Before(q, d.nth, x.nth)
    BY <1>6, <2>1 DEF UserOk
  <2>3. x \in r[Home[b]] /\ x.nth \in Nths(q)
    BY <1>1, <2>1, <2>2
  <2> QED
    BY <1>2, <2>2, <2>3
<1>7. ~in /\ b \in Slabs => \A d \in All(r) : ~Uses(d, b)
  BY <1>1 DEF UserOk
<1> QED
  BY <1>4, <1>5, <1>6, <1>7 DEF UserOk

LEMMA UserWrites ==
  ASSUME NEW q, NEW r, NEW s, NEW c, NEW k, Adds(q, r, s, c, k), NEW b \in Buffers,
         \A d \in All(q) : Uses(d, b) => Before(r, d.nth, k + 1)
  PROVE  UserOk(r, b, TRUE, [wrote |-> {k + 1}, read |-> {}])
<1>1. /\ Nths(r) = Nths(q) \cup {k + 1} /\ All(r) = All(q) \cup {c} /\ c.nth = k + 1
  <2>1. c.nth = k + 1
    BY DEF Adds
  <2> QED
    BY <2>1, AddsAll
<1>2. Before(r, k + 1, k + 1)
  BY BeforeOrder
<1>3. \A d : Writes(d, b) => Uses(d, b)
  BY WritesUses
<1>4. \A d \in All(r) : Uses(d, b) => Before(r, d.nth, k + 1)
  BY <1>1, <1>2
<1> QED
  BY <1>1, <1>3, <1>4 DEF UserOk

LEMMA UserReads ==
  ASSUME NEW q, NEW r, NEW s, NEW c, NEW k, Adds(q, r, s, c, k),
         NEW b \in Buffers, NEW u, NEW u2, ~Writes(c, b), UserOk(q, b, TRUE, u),
         u2.wrote = u.wrote, u2.read = u.read \cup {k + 1}
  PROVE  UserOk(r, b, TRUE, u2)
<1>1. /\ Nths(r) = Nths(q) \cup {k + 1} /\ All(r) = All(q) \cup {c} /\ c.nth = k + 1
  <2>1. c.nth = k + 1
    BY DEF Adds
  <2> QED
    BY <2>1, AddsAll
<1>2. \A m : \A n \in Nths(q) : Before(q, m, n) => Before(r, m, n)
  BY AddsBefore
<1>3. u2.wrote \subseteq Nths(r) /\ u2.read \subseteq Nths(r) /\ u.wrote \subseteq Nths(q)
  BY <1>1 DEF UserOk
<1>4. ASSUME NEW d \in All(r)
      PROVE  /\ Writes(d, b) => \E n \in u2.wrote : Before(r, d.nth, n)
             /\ Uses(d, b) => d.nth \in u2.read \/ \E n \in u2.wrote : Before(r, d.nth, n)
  <2>1. CASE d = c
    BY <1>1, <2>1
  <2>2. CASE d \in All(q)
    <3>1. /\ Writes(d, b) => \E n \in u.wrote : Before(q, d.nth, n)
          /\ Uses(d, b) => d.nth \in u.read \/ \E n \in u.wrote : Before(q, d.nth, n)
      BY <2>2 DEF UserOk
    <3> QED
      BY <1>2, <1>3, <3>1
  <2> QED
    BY <1>1, <2>1, <2>2
<1> QED
  BY <1>3, <1>4 DEF UserOk

LEMMA UserFrees ==
  ASSUME NEW q, NEW r, NEW s, NEW c, NEW k, Adds(q, r, s, c, k),
         NEW b \in Device, Home[b] = s,
         \A d \in All(q) : Uses(d, b) => Before(r, d.nth, k + 1)
  PROVE  UserOk(r, b, FALSE, NoUsers)
<1>1. /\ All(r) = All(q) \cup {c} /\ c.nth = k + 1 /\ c \in r[s]
  <2>1. c.nth = k + 1
    BY DEF Adds
  <2> QED
    BY <2>1, AddsAll
<1>2. Before(r, k + 1, k + 1)
  BY BeforeOrder
<1>3. \A d \in All(r) : Uses(d, b) => Before(r, d.nth, c.nth)
  BY <1>1, <1>2
<1>4. b \notin Slabs
  BY StreamOrderAssumption
<1> QED
  BY <1>1, <1>3, <1>4 DEF UserOk, NoUsers

LEMMA UserRemoves ==
  ASSUME NEW q, NEW r, NEW s, NEW h, NEW k, Removes(q, r, s, h, k),
         NEW b \in Buffers, NEW in \in BOOLEAN, NEW u, NEW u2, UserOk(q, b, in, u),
         u2.wrote = u.wrote \ {h.nth}, u2.read = u.read \ {h.nth}
  PROVE  UserOk(r, b, in, u2)
<1>1. /\ r[s] = q[s] \ {h} /\ \A t \in Streams \ {s} : r[t] = q[t]
      /\ All(r) = All(q) \ {h} /\ Nths(r) = Nths(q) \ {h.nth}
      /\ \A d \in All(q) : d # h => d.nth # h.nth
      /\ \A t \in Streams : q[t] \subseteq All(q)
  BY RemovesAll
<1>2. /\ \A m : Before(q, m, h.nth) => m = h.nth
      /\ \A m : \A n \in Nths(r) : m # h.nth /\ Before(q, m, n) => Before(r, m, n)
  BY RemovesBefore
<1>3. \A t \in Streams : \A d \in q[t] : d # h => d \in r[t] /\ d.nth \in Nths(r)
  BY <1>1 DEF Nths
<1>4. /\ u2.wrote \subseteq Nths(r) /\ u2.read \subseteq Nths(r) /\ u.wrote \subseteq Nths(q)
      /\ \A n \in u.wrote : n # h.nth => n \in u2.wrote /\ n \in Nths(r)
  BY <1>1 DEF UserOk
<1>5. \A d \in All(r) : d \in All(q) /\ d.nth # h.nth
  BY <1>1
<1>6. ASSUME NEW d \in All(r), \E n \in u.wrote : Before(q, d.nth, n)
      PROVE  \E n \in u2.wrote : Before(r, d.nth, n)
  <2>1. PICK n \in u.wrote : Before(q, d.nth, n)
    BY <1>6
  <2>2. n # h.nth
    BY <1>2, <1>5, <2>1
  <2> QED
    BY <1>2, <1>4, <1>5, <2>1, <2>2
<1>7. ASSUME in, NEW d \in All(r)
      PROVE  /\ Writes(d, b) => \E n \in u2.wrote : Before(r, d.nth, n)
             /\ Uses(d, b) => d.nth \in u2.read \/ \E n \in u2.wrote : Before(r, d.nth, n)
  <2>1. /\ Writes(d, b) => \E n \in u.wrote : Before(q, d.nth, n)
        /\ Uses(d, b) => d.nth \in u.read \/ \E n \in u.wrote : Before(q, d.nth, n)
    BY <1>5, <1>7 DEF UserOk
  <2> QED
    BY <1>5, <1>6, <2>1
<1>8. ASSUME ~in, b \in Device, NEW d \in All(r), Uses(d, b)
      PROVE  \E x \in r[Home[b]] : Before(r, d.nth, x.nth)
  <2>1. d \in All(q) /\ d.nth # h.nth /\ Home[b] \in Streams
    BY <1>5, <1>8, StreamOrderAssumption
  <2>2. PICK x \in q[Home[b]] : Before(q, d.nth, x.nth)
    BY <1>8, <2>1 DEF UserOk
  <2>3. x # h
    BY <1>2, <2>1, <2>2
  <2>4. x \in r[Home[b]] /\ x.nth \in Nths(r)
    BY <1>3, <2>1, <2>2, <2>3
  <2> QED
    BY <1>2, <2>1, <2>2, <2>4
<1>9. ~in /\ b \in Slabs => \A d \in All(r) : ~Uses(d, b)
  BY <1>5 DEF UserOk
<1> QED
  BY <1>4, <1>7, <1>8, <1>9 DEF UserOk

LEMMA PairsAdds ==
  ASSUME NEW q, NEW r, NEW s, NEW c, NEW k, Adds(q, r, s, c, k),
         \A d, e \in All(q) : PairOk(q, d, e),
         \A d \in All(q) : \A b \in Buffers :
           Uses(d, b) /\ Uses(c, b) /\ (Writes(d, b) \/ Writes(c, b)) => Before(r, d.nth, k + 1)
  PROVE  \A d, e \in All(r) : PairOk(r, d, e)
<1>1. /\ Nths(r) = Nths(q) \cup {k + 1} /\ All(r) = All(q) \cup {c} /\ c.nth = k + 1 /\ k \in Nat
      /\ \A d \in All(q) : d.nth \in 1 .. k /\ d.nth \in Nths(q)
  <2>1. c.nth = k + 1 /\ k \in Nat
    BY DEF Adds
  <2> QED
    BY <2>1, AddsAll
<1>2. \A m : \A n \in Nths(q) : Before(q, m, n) => Before(r, m, n)
  BY AddsBefore
<1> SUFFICES ASSUME NEW d \in All(r), NEW e \in All(r), NEW b \in Buffers,
                    d.nth < e.nth, Uses(d, b), Uses(e, b), Writes(d, b) \/ Writes(e, b)
             PROVE  Before(r, d.nth, e.nth)
  BY DEF PairOk
<1>3. d # c
  BY <1>1
<1>4. CASE e = c
  BY <1>1, <1>3, <1>4
<1>5. CASE e # c
  <2>1. Before(q, d.nth, e.nth)
    BY <1>1, <1>3, <1>5 DEF PairOk
  <2> QED
    BY <1>1, <1>2, <1>5, <2>1
<1> QED
  BY <1>4, <1>5

LEMMA PairsRemoves ==
  ASSUME NEW q, NEW r, NEW s, NEW h, NEW k, Removes(q, r, s, h, k),
         \A d, e \in All(q) : PairOk(q, d, e)
  PROVE  \A d, e \in All(r) : PairOk(r, d, e)
<1>1. /\ All(r) = All(q) \ {h}
      /\ \A d \in All(q) : d # h => d.nth # h.nth
  BY RemovesAll
<1>2. /\ \A m : \A n \in Nths(r) : m # h.nth /\ Before(q, m, n) => Before(r, m, n)
      /\ \A d \in All(r) : d.nth \in Nths(r) /\ d.nth # h.nth /\ d \in All(q)
  BY <1>1, RemovesBefore DEF Nths
<1> SUFFICES ASSUME NEW d \in All(r), NEW e \in All(r), NEW b \in Buffers,
                    d.nth < e.nth, Uses(d, b), Uses(e, b), Writes(d, b) \/ Writes(e, b)
             PROVE  Before(r, d.nth, e.nth)
  BY DEF PairOk
<1>3. Before(q, d.nth, e.nth)
  BY <1>2 DEF PairOk
<1> QED
  BY <1>2, <1>3

\* A command that has run was oldest of those that use what it writes, and of
\* those that write what it uses.
LEMMA Oldest2 ==
  ASSUME NEW q, NEW r, NEW s, NEW h, NEW k, Removes(q, r, s, h, k),
         \A d, e \in All(q) : PairOk(q, d, e), NEW b \in Buffers, Uses(h, b)
  PROVE  \A d \in All(q) : Uses(d, b) /\ (Writes(d, b) \/ Writes(h, b)) => h.nth <= d.nth
<1>1. /\ h \in All(q)
      /\ \A d \in All(q) : d.nth \in 1 .. k /\ (d # h => d.nth # h.nth)
  BY RemovesAll
<1>2. \A m : Before(q, m, h.nth) => m = h.nth
  BY RemovesBefore
<1> SUFFICES ASSUME NEW d \in All(q), Uses(d, b), Writes(d, b) \/ Writes(h, b), ~(h.nth <= d.nth)
             PROVE  FALSE
  OBVIOUS
<1>3. d.nth < h.nth
  BY <1>1
<1>4. Before(q, d.nth, h.nth)
  BY <1>1, <1>3 DEF PairOk
<1> QED
  BY <1>1, <1>2, <1>3, <1>4

LEMMA CommandAdds ==
  ASSUME NEW q, NEW r, NEW s, NEW c, NEW k, Adds(q, r, s, c, k), NEW mm,
         \A d \in All(q) : CommandWell(q, mm, d), CommandWell(q, mm, c)
  PROVE  \A d \in All(r) : CommandWell(r, mm, d)
<1>1. /\ All(r) = All(q) \cup {c} /\ c.nth = k + 1 /\ k \in Nat
      /\ \A d \in All(q) : d.nth \in 1 .. k
  <2>1. c.nth = k + 1 /\ k \in Nat
    BY DEF Adds
  <2> QED
    BY <2>1, AddsAll
<1> TAKE d \in All(r)
<1>2. CommandWell(q, mm, d) /\ d.nth \in 0 .. k + 1
  BY <1>1
<1>3. \A b, v : Finds(q, mm, d.nth, b, v) => Finds(r, mm, d.nth, b, v)
  BY <1>2, FindsAdds
<1>4. \A w : FindsWanted(q, mm, d, w) => FindsWanted(r, mm, d, w)
  BY <1>3 DEF FindsWanted
<1>5. \A b : Mapped(q, mm, d.nth, b) => Mapped(r, mm, d.nth, b)
  BY <1>3 DEF Mapped
<1> QED
  BY <1>2, <1>3, <1>4, <1>5 DEF CommandWell

LEMMA CommandRemoves ==
  ASSUME NEW q, NEW r, NEW s, NEW h, NEW k, Removes(q, r, s, h, k),
         \A d, e \in All(q) : PairOk(q, d, e),
         NEW mm, NEW mm2, Turns(h, mm, mm2),
         \A d \in All(q) : CommandWell(q, mm, d),
         \A d \in All(q) : d.kind = "alloc" => d.buf \in Buffers,
         \A d \in All(q) : Touched(d.steps) \subseteq Buffers
  PROVE  \A d \in All(r) : CommandWell(r, mm2, d)
<1>1. /\ All(r) = All(q) \ {h} /\ h \in All(q)
      /\ \A d \in All(q) : d.nth \in 1 .. k /\ (d # h => d.nth # h.nth)
  BY RemovesAll
<1> TAKE d \in All(r)
<1>2. d \in All(q) /\ d.nth \in Nat /\ h.nth \in Nat /\ d.nth # h.nth
  BY <1>1
<1>3. ASSUME NEW b \in Buffers, Uses(d, b), NEW v, Finds(q, mm, d.nth, b, v)
      PROVE  Finds(r, mm2, d.nth, b, v)
  <2>1. ASSUME Writes(h, b)
        PROVE  h.nth < d.nth /\ \A e \in All(q) : Writes(e, b) => h.nth <= e.nth
    <3>1. \A e : Writes(e, b) => Uses(e, b)
      BY WritesUses
    <3>2. \A e \in All(q) : Uses(e, b) => h.nth <= e.nth
      BY <2>1, <3>1, Oldest2
    <3> QED
      BY <1>2, <1>3, <3>1, <3>2
  <2> QED
    BY <1>2, <1>3, <2>1, FindsRemoves
<1>4. \A b \in Touched(d.steps) : b \in Buffers /\ Uses(d, b)
  BY <1>2 DEF Uses
<1>5. \A w : FindsWanted(q, mm, d, w) => FindsWanted(r, mm2, d, w)
  BY <1>3, <1>4 DEF FindsWanted
<1>6. \A b \in Touched(d.steps) : Mapped(q, mm, d.nth, b) => Mapped(r, mm2, d.nth, b)
  BY <1>3, <1>4 DEF Mapped
<1>7. d.kind = "alloc" => d.buf \in Buffers /\ Uses(d, d.buf)
  BY <1>2 DEF Uses
<1>8. CommandWell(q, mm, d)
  BY <1>2
<1> QED
  BY <1>3, <1>5, <1>6, <1>7, <1>8 DEF CommandWell

LEMMA HostAdds ==
  ASSUME NEW q, NEW r, NEW s, NEW c, NEW k, Adds(q, r, s, c, k), NEW mm,
         NEW b \in Buffers, NEW in \in BOOLEAN, NEW w, ~Writes(c, b), HostFinds(q, mm, k, b, in, w)
  PROVE  HostFinds(r, mm, k + 1, b, in, w)
<1>1. \A v : Finds(q, mm, k + 1, b, v) => Finds(r, mm, k + 1 + 1, b, v)
  <2>1. k + 1 + 1 = k + 2
    BY DEF Adds
  <2> QED
    BY <2>1, FindsAdds
<1> QED
  BY <1>1 DEF HostFinds, Mapped

LEMMA HostWritten ==
  ASSUME NEW q, NEW r, NEW s, NEW c, NEW k, Adds(q, r, s, c, k), NEW mm,
         NEW b \in Buffers, NEW in \in BOOLEAN, NEW w, Writes(c, b),
         w # None => in /\ w = Leaves(c, b),
         IF b \in Owned /\ ~in THEN Leaves(c, b) = Unmapped ELSE Leaves(c, b) \in Nat
  PROVE  HostFinds(r, mm, k + 1, b, in, w)
<1>1. Finds(r, mm, k + 1 + 1, b, Leaves(c, b))
  <2>1. k + 1 + 1 = k + 2
    BY DEF Adds
  <2> QED
    BY <2>1, FindsAdds
<1> QED
  BY <1>1 DEF HostFinds, Mapped

LEMMA HostRemoves ==
  ASSUME NEW q, NEW r, NEW s, NEW h, NEW k, Removes(q, r, s, h, k),
         \A d, e \in All(q) : PairOk(q, d, e),
         NEW mm, NEW mm2, Turns(h, mm, mm2),
         NEW b \in Buffers, NEW in \in BOOLEAN, NEW w, HostFinds(q, mm, k, b, in, w)
  PROVE  HostFinds(r, mm2, k, b, in, w)
<1>1. k \in Nat /\ h.nth \in 1 .. k /\ k + 1 \in Nat /\ h.nth < k + 1
  <2>1. k \in Nat
    BY DEF Removes
  <2>2. h.nth \in 1 .. k
    BY RemovesAll
  <2> QED
    BY <2>1, <2>2
<1>2. ASSUME Writes(h, b)
      PROVE  \A e \in All(q) : Writes(e, b) => h.nth <= e.nth
  <2>1. \A e : Writes(e, b) => Uses(e, b)
    BY WritesUses
  <2> QED
    BY <1>2, <2>1, Oldest2
<1>3. \A v : Finds(q, mm, k + 1, b, v) => Finds(r, mm2, k + 1, b, v)
  BY <1>1, <1>2, FindsRemoves
<1> QED
  BY <1>3 DEF HostFinds, Mapped
(***************************************************************************)
(* What the steps of a command make of the buffers' contents.              *)
(***************************************************************************)
LEMMA TakenType ==
  ASSUME NEW V, NEW f \in [Buffers -> V], NEW st \in Steps, NEW n \in V
  PROVE  /\ Taken(f, st, n) \in [Buffers -> V]
         /\ \A b \in Buffers : b # st.dst => Taken(f, st, n)[b] = f[b]
         /\ Taken(f, st, n)[st.dst] = IF st.src = None THEN n ELSE f[st.src]
BY DEF Taken, Steps

\* The contents step by step.
Stepwise(u, f, steps, n) ==
  /\ u[0] = f
  /\ \A i \in 1 .. Len(steps) : u[i] = Taken(u[i - 1], steps[i], n)
  /\ Apply(f, steps, n) = u[Len(steps)]

LEMMA ApplySteps ==
  ASSUME NEW V, NEW steps \in Seq(Steps), NEW f \in [Buffers -> V], NEW n \in V
  PROVE  \E u \in [0 .. Len(steps) -> [Buffers -> V]] : Stepwise(u, f, steps, n)
<1> DEFINE k == Len(steps)
           S == [Buffers -> V]
           step == [i \in 1 .. k |-> [x \in S |-> Taken(x, steps[i], n)]]
           Is(u) == u = [i \in 0 .. k |-> IF i = 0 THEN f ELSE Taken(u[i - 1], steps[i], n)]
<1>1. k \in Nat /\ \A i \in 1 .. k : steps[i] \in Steps
  OBVIOUS
<1>2. step \in [1 .. k -> [S -> S]]
  BY <1>1, TakenType
<1>3. PICK g \in [0 .. k -> S] : g[0] = f /\ \A i \in 1 .. k : g[i] = step[i][g[i - 1]]
  <2>1. StepsOn(step, k, S) /\ f \in S
    BY <1>2 DEF StepsOn
  <2> HIDE DEF k, step, S
  <2>2. PICK g : Follows(g, step, k, S, f)
    BY <1>1, <2>1, Recursion
  <2> QED
    BY <2>2 DEF Follows
<1>4. Is(g)
  <2>1. ASSUME NEW i \in 0 .. k
        PROVE  g[i] = IF i = 0 THEN f ELSE Taken(g[i - 1], steps[i], n)
    <3>1. CASE i = 0
      BY <1>3, <3>1
    <3>2. CASE i # 0
      <4>1. i \in 1 .. k /\ i - 1 \in 0 .. k
        <5> HIDE DEF k
        <5> QED
          BY <1>1, <3>2
      <4>2. g[i - 1] \in S /\ g[i] = step[i][g[i - 1]]
        BY <1>3, <4>1
      <4> QED
        BY <3>2, <4>1, <4>2
    <3> QED
      BY <3>1, <3>2
  <2> HIDE DEF k
  <2>2. g = [i \in 0 .. k |-> g[i]]
    BY <1>3
  <2> QED
    BY <2>1, <2>2
<1>5. Apply(f, steps, n) = (CHOOSE u : Is(u))[k]
  BY DEF Apply
<1>6. PICK u : Is(u) /\ Apply(f, steps, n) = u[k]
  <2>1. Is(CHOOSE u : Is(u))
    <3> HIDE DEF Is
    <3> QED
      BY <1>4, Zenon
  <2> HIDE DEF Is, k
  <2> QED
    BY <1>5, <2>1
<1> HIDE DEF step
<1>7. \A i \in 0 .. k : u[i] \in S
  <2> DEFINE Bad == {i \in 0 .. k : u[i] \notin S}
  <2>1. ASSUME Bad # {} PROVE FALSE
    <3>1. PICK j \in Bad : \A m \in Bad : j <= m
      <4>1. Bad \in SUBSET Nat
        BY <1>1
      <4> HIDE DEF Bad
      <4> QED
        BY <2>1, <4>1, Oldest
    <3>2. j \in 0 .. k /\ u[j] \notin S
      OBVIOUS
    <3>3. u[j] = IF j = 0 THEN f ELSE Taken(u[j - 1], steps[j], n)
      BY <1>6, <3>2
    <3>4. j # 0 => j \in 1 .. k /\ j - 1 \in 0 .. k /\ ~(j <= j - 1)
      BY <1>1, <3>2
    <3>5. j # 0 => j - 1 \notin Bad
      <4> HIDE DEF Bad
      <4> QED
        BY <3>1, <3>4
    <3>6. j # 0 => u[j - 1] \in S /\ steps[j] \in Steps
      BY <1>1, <3>4, <3>5
    <3>7. CASE j = 0
      BY <3>2, <3>3, <3>7
    <3>8. CASE j # 0
      <4>1. u[j] = Taken(u[j - 1], steps[j], n)
        BY <3>3, <3>8
      <4>2. Taken(u[j - 1], steps[j], n) \in S
        BY <3>6, <3>8, TakenType
      <4> QED
        BY <3>2, <4>1, <4>2
    <3> QED
      BY <3>7, <3>8
  <2> QED
    BY <2>1
<1>8. u \in [0 .. k -> S]
  <2>1. u = [i \in 0 .. k |-> u[i]]
    BY <1>6
  <2> QED
    BY <1>7, <2>1
<1>9. u[0] = f /\ \A i \in 1 .. k : u[i] = Taken(u[i - 1], steps[i], n)
  BY <1>1, <1>6
<1> QED
  BY <1>6, <1>8, <1>9 DEF Stepwise

IsSteps(steps) == steps \in Seq(Steps)
Holds(f, V) == f \in [Buffers -> V]
SameBut(f, g, D) == \A b \in Buffers \ D : f[b] = g[b]

\* What is not written stays.
LEMMA ApplyType ==
  ASSUME NEW V, NEW steps, IsSteps(steps), NEW f, Holds(f, V), NEW n \in V
  PROVE  Holds(Apply(f, steps, n), V) /\ SameBut(Apply(f, steps, n), f, Written(steps))
<1> steps \in Seq(Steps) /\ f \in [Buffers -> V]
  BY DEF IsSteps, Holds
<1> DEFINE k == Len(steps)
<1>1. PICK u \in [0 .. k -> [Buffers -> V]] : Stepwise(u, f, steps, n)
  BY ApplySteps
<1>2. k \in Nat /\ (\A i \in 1 .. k : steps[i] \in Steps) /\ DOMAIN steps = 1 .. k
  OBVIOUS
<1>3. /\ u[0] = f /\ Apply(f, steps, n) = u[k]
      /\ \A i \in 1 .. k : u[i] = Taken(u[i - 1], steps[i], n)
  BY <1>1 DEF Stepwise
<1> HIDE DEF k
<1>4. ASSUME NEW b \in Buffers \ Written(steps)
      PROVE  u[k][b] = f[b]
  <2> DEFINE Bad == {i \in 0 .. k : u[i][b] # f[b]}
  <2>1. ASSUME Bad # {} PROVE FALSE
    <3>1. PICK j \in Bad : \A m \in Bad : j <= m
      <4>1. Bad \in SUBSET Nat
        BY <1>2
      <4> HIDE DEF Bad
      <4> QED
        BY <2>1, <4>1, Oldest
    <3>2. j \in 0 .. k /\ u[j][b] # f[b]
      OBVIOUS
    <3>3. j \in 1 .. k /\ j - 1 \in 0 .. k /\ ~(j <= j - 1)
      BY <1>2, <1>3, <3>2
    <3>4. j - 1 \notin Bad
      <4> HIDE DEF Bad
      <4> QED
        BY <3>1, <3>3
    <3>5. u[j - 1][b] = f[b] /\ u[j - 1] \in [Buffers -> V] /\ steps[j] \in Steps
      BY <1>2, <3>3, <3>4
    <3>6. b # steps[j].dst
      BY <1>2, <1>4, <3>3 DEF Written
    <3> QED
      BY <1>3, <3>2, <3>3, <3>5, <3>6, TakenType
  <2> QED
    BY <1>2, <2>1
<1> QED
  BY <1>1, <1>2, <1>3, <1>4 DEF Holds, SameBut

\* Steps do not tell contents apart that agree where one of them is known.
Agree(f, g, D) == \A b \in D : f[b] # None => g[b] = f[b]

LEMMA ApplyAgrees ==
  ASSUME NEW V, NEW W, NEW steps, IsSteps(steps), NEW n \in V \cap W, n # None,
         NEW f, Holds(f, V), NEW g, Holds(g, W), Agree(f, g, Touched(steps))
  PROVE  Agree(Apply(f, steps, n), Apply(g, steps, n), Touched(steps))
<1> DEFINE k == Len(steps)
           Same(x, y) == Agree(x, y, Touched(steps))
<1> USE DEF Agree
<1> steps \in Seq(Steps) /\ f \in [Buffers -> V] /\ g \in [Buffers -> W]
  BY DEF IsSteps, Holds
<1>1. PICK u \in [0 .. k -> [Buffers -> V]] : Stepwise(u, f, steps, n)
  BY ApplySteps
<1>2. PICK w \in [0 .. k -> [Buffers -> W]] : Stepwise(w, g, steps, n)
  BY ApplySteps
<1>3. k \in Nat /\ (\A i \in 1 .. k : steps[i] \in Steps) /\ DOMAIN steps = 1 .. k
  OBVIOUS
<1>4. /\ u[0] = f /\ Apply(f, steps, n) = u[k]
      /\ \A i \in 1 .. k : u[i] = Taken(u[i - 1], steps[i], n)
      /\ w[0] = g /\ Apply(g, steps, n) = w[k]
      /\ \A i \in 1 .. k : w[i] = Taken(w[i - 1], steps[i], n)
  BY <1>1, <1>2 DEF Stepwise
<1> HIDE DEF k
<1>5. \A i \in 1 .. k : /\ steps[i].src # None => steps[i].src \in Touched(steps)
                        /\ steps[i].dst \in Buffers
                        /\ steps[i].src # None => steps[i].src \in Buffers
  BY <1>3 DEF Touched, Steps
<1>6. \A b \in Touched(steps) : b \in Buffers
  BY <1>3 DEF Touched, Steps
<1>7. ASSUME NEW i \in 1 .. k, Same(u[i - 1], w[i - 1])
      PROVE  Same(u[i], w[i])
  <2> SUFFICES ASSUME NEW b \in Touched(steps), u[i][b] # None
               PROVE  w[i][b] = u[i][b]
    OBVIOUS
  <2>1. /\ i - 1 \in 0 .. k /\ u[i - 1] \in [Buffers -> V] /\ w[i - 1] \in [Buffers -> W]
        /\ steps[i] \in Steps /\ b \in Buffers
        /\ u[i] = Taken(u[i - 1], steps[i], n) /\ w[i] = Taken(w[i - 1], steps[i], n)
    BY <1>3, <1>4, <1>6
  <2>2. CASE b # steps[i].dst
    <3>1. u[i][b] = u[i - 1][b] /\ w[i][b] = w[i - 1][b]
      BY <2>1, <2>2, TakenType
    <3> QED
      BY <1>7, <3>1
  <2>3. CASE b = steps[i].dst
    <3>1. /\ u[i][b] = IF steps[i].src = None THEN n ELSE u[i - 1][steps[i].src]
          /\ w[i][b] = IF steps[i].src = None THEN n ELSE w[i - 1][steps[i].src]
      BY <2>1, <2>3, TakenType
    <3>2. CASE steps[i].src = None
      BY <3>1, <3>2
    <3>3. CASE steps[i].src # None
      <4>1. steps[i].src \in Touched(steps)
        BY <1>5, <3>3
      <4> QED
        BY <1>7, <3>1, <3>3, <4>1
    <3> QED
      BY <3>2, <3>3
  <2> QED
    BY <2>2, <2>3
<1>8. Same(u[0], w[0])
  BY <1>4
<1> HIDE DEF Same
<1>9. Same(u[k], w[k])
  <2> DEFINE Bad == {i \in 0 .. k : ~Same(u[i], w[i])}
  <2>1. ASSUME Bad # {} PROVE FALSE
    <3>1. PICK j \in Bad : \A m \in Bad : j <= m
      <4>1. Bad \in SUBSET Nat
        BY <1>3
      <4> HIDE DEF Bad
      <4> QED
        BY <2>1, <4>1, Oldest
    <3>2. j \in 0 .. k /\ ~Same(u[j], w[j])
      OBVIOUS
    <3>3. j \in 1 .. k /\ j - 1 \in 0 .. k /\ ~(j <= j - 1)
      BY <1>3, <1>8, <3>2
    <3>4. j - 1 \notin Bad
      <4> HIDE DEF Bad
      <4> QED
        BY <3>1, <3>3
    <3> QED
      BY <1>7, <3>2, <3>3, <3>4
  <2> QED
    BY <1>3, <2>1
<1> QED
  BY <1>4, <1>9 DEF Same
(***************************************************************************)
(* The invariant of StreamOrder.                                           *)
(***************************************************************************)
CommandOk(c) ==
  /\ c.steps \in Seq(Steps)
  /\ \/ c.kind = "run" /\ c.buf = None
     \/ c.kind \in {"alloc", "free"} /\ c.buf \in Owned /\ c.steps = <<>>
     \/ c.kind \in {"record", "wait"} /\ c.buf = None /\ c.steps = <<>>

GraphOk == /\ capture # None => capture \in [on : Streams, steps : Seq(Steps), ok : BOOLEAN]
           /\ graph # None => graph \in Seq(Steps)

OrderTypes ==
  /\ issued \in 0 .. MaxIssued /\ held \subseteq Buffers /\ wrong = {}
  /\ mem \in [Buffers -> 0 .. issued \cup {Unmapped}]
  /\ want \in [Buffers -> 0 .. issued \cup {None}]
  /\ after \in [Streams -> SUBSET Nat]
  /\ users \in [Buffers -> [wrote : SUBSET Nat, read : SUBSET Nat]]
  /\ GraphOk
  /\ \A c \in All(Now) : CommandOk(c)

UsersOk(q, in, us) == \A b \in Buffers : UserOk(q, b, b \in in, us[b])
PairsOk(q) == \A c, d \in All(q) : PairOk(q, c, d)
CommandsWell(q, mm) == \A c \in All(q) : CommandWell(q, mm, c)
HostsFind(q, mm, k, in, wt) == \A b \in Buffers : HostFinds(q, mm, k, b, b \in in, wt[b])

OrderInv ==
  /\ QueueInv /\ OrderTypes /\ Picture(Now, issued) /\ AfterOk(Now, after, event)
  /\ UsersOk(Now, held, users) /\ PairsOk(Now)
  /\ CommandsWell(Now, mem) /\ HostsFind(Now, mem, issued, held, want)

LEMMA NoBuffer ==
  /\ None \notin Buffers /\ None \notin Nat /\ Unmapped \notin Nat /\ Unmapped # None
  /\ MaxIssued \in Nat /\ Owned \cap Pooled = {} /\ Device \cap Slabs = {}
  /\ Buffers = Device \cup Slabs /\ Device = Owned \cup Pooled
  /\ \A b \in Device : Home[b] \in Streams
BY StreamOrderAssumption DEF Device, Buffers

LEMMA StepsTouch ==
  ASSUME NEW steps \in Seq(Steps)
  PROVE  Written(steps) \subseteq Touched(steps) /\ Touched(steps) \subseteq Buffers
<1>1. /\ DOMAIN steps = 1 .. Len(steps)
      /\ \A i \in 1 .. Len(steps) : steps[i] \in Steps
  OBVIOUS
<1>2. \A i \in DOMAIN steps : /\ steps[i].dst \in Buffers /\ steps[i].dst # None
                              /\ steps[i].src \in Buffers \cup {None}
  BY <1>1, NoBuffer DEF Steps
<1>3. Touched(steps) \subseteq Buffers
  BY <1>2 DEF Touched
<1>4. Written(steps) \subseteq Touched(steps)
  BY <1>2 DEF Written, Touched
<1> QED
  BY <1>3, <1>4

LEMMA NowIssue ==
  ASSUME QueueInv, Picture(Now, issued), NEW s \in Streams, NEW c, Issue(s, c),
         c.nth = issued + 1, c.for \in 0 .. issued
  PROVE  Adds(Now, Now', s, c, issued)
<1>1. PICK q : q = queue[s]
  OBVIOUS
<1>2. /\ queue' = [queue EXCEPT ![s] = Append(q, c)] /\ queue = [t \in Streams |-> queue[t]]
      /\ IsSequence(q) /\ issued \in Nat
  BY <1>1 DEF Issue, QueueInv, InOrder
<1>3. queue'[s] = Append(q, c) /\ \A t \in Streams \ {s} : queue'[t] = queue[t]
  BY <1>2
<1>4. {Append(q, c)[i] : i \in 1 .. Len(Append(q, c))} = {q[i] : i \in 1 .. Len(q)} \cup {c}
  <2>1. /\ Len(Append(q, c)) = Len(q) + 1 /\ Len(q) \in Nat /\ Append(q, c)[Len(q) + 1] = c
        /\ \A i \in 1 .. Len(q) : Append(q, c)[i] = q[i]
    BY <1>2, Appended DEF IsSequence
  <2>2. 1 .. Len(q) + 1 = (1 .. Len(q)) \cup {Len(q) + 1}
    BY <2>1
  <2> QED
    BY <2>1, <2>2
<1>5. PICK r : r = Now'
  OBVIOUS
<1>6. r = [t \in Streams |-> {queue'[t][i] : i \in 1 .. Len(queue'[t])}]
  BY <1>5 DEF Now
<1>7. Now[s] = {q[i] : i \in 1 .. Len(q)}
  BY <1>1 DEF Now
<1>8. r[s] = Now[s] \cup {c}
  BY <1>3, <1>4, <1>6, <1>7
<1>9. \A t \in Streams \ {s} : r[t] = Now[t]
  BY <1>3, <1>6 DEF Now
<1>10. r = [Now EXCEPT ![s] = Now[s] \cup {c}]
  BY <1>6, <1>8, <1>9 DEF Now
<1> QED
  BY <1>2, <1>5, <1>10 DEF Adds

LEMMA NowSame ==
  ASSUME UNCHANGED queue
  PROVE  Now' = Now
BY DEF Now

LEMMA NowExecute ==
  ASSUME QueueInv, Picture(Now, issued), NEW s \in Streams, Execute(s)
  PROVE  Removes(Now, Now', s, Head(queue[s]), issued)
<1>1. PICK q : q = queue[s]
  OBVIOUS
<1>2. /\ queue' = [queue EXCEPT ![s] = Tail(q)] /\ queue = [t \in Streams |-> queue[t]]
      /\ InOrder(q, issued) /\ IsSequence(q) /\ issued \in Nat /\ q # <<>>
      /\ Head(q).for \notin InFlight
  BY <1>1 DEF Execute, QueueInv, InOrder
<1>3. queue'[s] = Tail(q) /\ \A t \in Streams \ {s} : queue'[t] = queue[t]
  BY <1>2
<1>4. /\ Len(q) \in Nat \ {0} /\ Head(q) = q[1] /\ Len(Tail(q)) = Len(q) - 1
      /\ \A i \in 1 .. Len(q) - 1 : Tail(q)[i] = q[i + 1]
  BY <1>2, HeadTail
<1>5. \A i, k \in 1 .. Len(q) : i < k => q[i].nth < q[k].nth /\ q[i].nth \in Nat /\ q[k].nth \in Nat
  BY <1>2 DEF InOrder
<1>6. \A k \in 2 .. Len(q) : q[1].nth < q[k].nth /\ q[1].nth \in Nat /\ q[k].nth \in Nat /\ q[k] # q[1]
  <2> TAKE k \in 2 .. Len(q)
  <2>1. 1 \in 1 .. Len(q) /\ k \in 1 .. Len(q) /\ 1 < k
    BY <1>4
  <2>2. q[1].nth < q[k].nth /\ q[1].nth \in Nat /\ q[k].nth \in Nat
    BY <1>5, <2>1
  <2> QED
    BY <2>2
<1>7. {Tail(q)[i] : i \in 1 .. Len(Tail(q))} = {q[i] : i \in 1 .. Len(q)} \ {q[1]}
  <2>1. \A i \in 1 .. Len(Tail(q)) : i + 1 \in 2 .. Len(q) /\ Tail(q)[i] = q[i + 1]
    BY <1>4
  <2>2. \A i \in 1 .. Len(q) : i = 1 \/ i \in 2 .. Len(q)
    BY <1>4
  <2>3. \A i \in 2 .. Len(q) : i - 1 \in 1 .. Len(Tail(q)) /\ Tail(q)[i - 1] = q[i] /\ i \in 1 .. Len(q)
    BY <1>4
  <2> QED
    BY <1>6, <2>1, <2>2, <2>3
<1>8. PICK r : r = Now'
  OBVIOUS
<1>9. r = [t \in Streams |-> {queue'[t][i] : i \in 1 .. Len(queue'[t])}]
  BY <1>8 DEF Now
<1>10. Now[s] = {q[i] : i \in 1 .. Len(q)}
  BY <1>1 DEF Now
<1>11. r[s] = Now[s] \ {q[1]}
  <2>1. r[s] = {queue'[s][i] : i \in 1 .. Len(queue'[s])}
    BY <1>9
  <2>2. {queue'[s][i] : i \in 1 .. Len(queue'[s])} = {Tail(q)[i] : i \in 1 .. Len(Tail(q))}
    BY <1>3
  <2> QED
    BY <1>7, <1>10, <2>1, <2>2
<1>12. \A t \in Streams \ {s} : r[t] = Now[t]
  BY <1>3, <1>9 DEF Now
<1>13. r = [Now EXCEPT ![s] = Now[s] \ {q[1]}]
  BY <1>9, <1>11, <1>12 DEF Now
<1>14. q[1] \in Now[s] /\ \A c \in Now[s] : q[1].nth <= c.nth
  <2>1. q[1] \in Now[s]
    BY <1>4, <1>10
  <2>2. ASSUME NEW i \in 1 .. Len(q)
        PROVE  q[1].nth <= q[i].nth
    <3>1. 1 \in 1 .. Len(q) /\ q[1].nth \in Nat
      BY <1>2, <1>4 DEF InOrder
    <3>2. CASE i = 1
      BY <3>1, <3>2
    <3>3. CASE i # 1
      BY <1>6, <3>3
    <3> QED
      BY <3>2, <3>3
  <2> QED
    BY <1>10, <2>1, <2>2
<1>15. Nths(Now) \subseteq InFlight
  <2>1. \A t \in Streams : DOMAIN queue[t] = 1 .. Len(queue[t])
    BY DEF QueueInv, InOrder, IsSequence
  <2> QED
    BY <2>1 DEF Nths, All, Now, InFlight
<1> QED
  BY <1>1, <1>2, <1>4, <1>8, <1>13, <1>14, <1>15 DEF Removes

\* What s comes after, the command that goes on s comes after.
LEMMA ComesAfter ==
  ASSUME OrderInv, NEW r, NEW s, NEW c, Adds(Now, r, s, c, issued)
  PROVE  /\ \A m \in after[s] : Before(r, m, issued + 1)
         /\ \A b \in held : users[b].wrote \subseteq after[s] =>
              \A d \in All(Now) : Writes(d, b) => Before(r, d.nth, issued + 1)
         /\ \A b \in held : users[b].wrote \subseteq after[s] /\ users[b].read \subseteq after[s] =>
              \A d \in All(Now) : Uses(d, b) => Before(r, d.nth, issued + 1)
         /\ \A b \in Device \ held : Home[b] = s =>
              \A d \in All(Now) : Uses(d, b) => Before(r, d.nth, issued + 1)
<1>1. s \in Streams /\ \A m : \A x \in Now[s] : Before(Now, m, x.nth) => Before(r, m, issued + 1)
  BY AddsBefore DEF Adds
<1>2. \A m \in after[s] : m \in Nths(Now) /\ \E x \in Now[s] : Before(Now, m, x.nth)
  BY <1>1 DEF OrderInv, AfterOk
<1>3. \A m \in after[s] : Before(r, m, issued + 1)
  BY <1>1, <1>2
<1>4. ASSUME NEW l, NEW n \in after[s], Before(Now, l, n)
      PROVE  Before(r, l, issued + 1)
  <2>1. n \in Nths(Now)
    BY <1>2
  <2>2. PICK x \in Now[s] : Before(Now, n, x.nth)
    BY <1>2
  <2>3. Before(Now, l, x.nth)
    BY <1>4, <2>1, <2>2, BeforeOrder
  <2> QED
    BY <1>1, <2>3
<1>5. ASSUME NEW b \in held, users[b].wrote \subseteq after[s], NEW d \in All(Now)
      PROVE  /\ Writes(d, b) => Before(r, d.nth, issued + 1)
             /\ users[b].read \subseteq after[s] /\ Uses(d, b) => Before(r, d.nth, issued + 1)
  <2>1. b \in Buffers /\ b \in held
    BY DEF OrderInv, OrderTypes
  <2>2. UserOk(Now, b, b \in held, users[b])
    BY <2>1 DEF OrderInv, UsersOk
  <2>3. /\ Writes(d, b) => \E n \in users[b].wrote : Before(Now, d.nth, n)
        /\ Uses(d, b) => d.nth \in users[b].read \/ \E n \in users[b].wrote : Before(Now, d.nth, n)
    BY <2>1, <2>2 DEF UserOk
  <2> QED
    BY <1>3, <1>4, <1>5, <2>3
<1>6. ASSUME NEW b \in Device \ held, Home[b] = s, NEW d \in All(Now), Uses(d, b)
      PROVE  Before(r, d.nth, issued + 1)
  <2>1. b \in Buffers /\ b \notin held /\ b \in Device
    BY NoBuffer
  <2>2. UserOk(Now, b, b \in held, users[b])
    BY <2>1 DEF OrderInv, UsersOk
  <2>3. \E x \in Now[Home[b]] : Before(Now, d.nth, x.nth)
    BY <1>6, <2>1, <2>2 DEF UserOk
  <2> QED
    BY <1>1, <1>6, <2>3
<1> QED
  BY <1>3, <1>5, <1>6

(***************************************************************************)
(* The steps that put a command on a stream.                               *)
(***************************************************************************)
UserSets == [wrote : SUBSET Nat, read : SUBSET Nat]

\* Command c comes after those that use what it writes, and write what it uses.
ComesLast(q, r, c, k) == \A d \in All(q) : \A b \in Buffers :
  Uses(d, b) /\ Uses(c, b) /\ (Writes(d, b) \/ Writes(c, b)) => Before(r, d.nth, k + 1)

LEMMA IssueKeeps ==
  ASSUME OrderInv, QueueInv', NEW s \in Streams, NEW c, Issue(s, c),
         c.nth = issued + 1, c.for \in 0 .. issued, CommandOk(c), CommandWell(Now, mem, c),
         UNCHANGED <<mem, capture, graph, wrong>>,
         held' \in SUBSET Buffers, users' \in [Buffers -> UserSets],
         want' \in [Buffers -> 0 .. issued + 1 \cup {None}],
         NEW more \in SUBSET Nat, Stands(Now, s, c, issued, after, event, after', event', more),
         NEW r, r = Now', ComesLast(Now, r, c, issued),
         UsersOk(r, held', users'), HostsFind(r, mem, issued + 1, held', want')
  PROVE  OrderInv'
<1>1. Adds(Now, r, s, c, issued)
  BY NowIssue DEF OrderInv
<1>2. issued' = issued + 1 /\ issued < MaxIssued /\ issued \in Nat
  BY DEF Issue, OrderInv, OrderTypes
<1>3. Picture(r, issued') /\ All(r) = All(Now) \cup {c}
  BY <1>1, <1>2, AddsAll
<1>4. after \in [Streams -> SUBSET Nat] /\ AfterOk(Now, after, event)
  BY DEF OrderInv, OrderTypes
<1>5. AfterOk(r, after', event')
  BY <1>1, <1>4, AfterAdds
<1>6. PairsOk(r)
  <2>1. \A d, e \in All(Now) : PairOk(Now, d, e)
    BY DEF OrderInv, PairsOk
  <2>2. \A d \in All(Now) : \A b \in Buffers :
          Uses(d, b) /\ Uses(c, b) /\ (Writes(d, b) \/ Writes(c, b)) => Before(r, d.nth, issued + 1)
    BY DEF ComesLast
  <2>3. \A d, e \in All(r) : PairOk(r, d, e)
    BY <1>1, <2>1, <2>2, PairsAdds
  <2> QED
    BY <2>3 DEF PairsOk
<1>7. CommandsWell(r, mem)
  <2>1. \A d \in All(Now) : CommandWell(Now, mem, d)
    BY DEF OrderInv, CommandsWell
  <2>2. \A d \in All(r) : CommandWell(r, mem, d)
    BY <1>1, <2>1, CommandAdds
  <2> QED
    BY <2>2 DEF CommandsWell
<1>8. OrderTypes'
  <2>1. issued' \in 0 .. MaxIssued
    BY <1>2, NoBuffer
  <2>2. mem' \in [Buffers -> 0 .. issued' \cup {Unmapped}]
    <3>1. mem \in [Buffers -> 0 .. issued \cup {Unmapped}] /\ mem' = mem
      BY DEF OrderInv, OrderTypes
    <3>2. 0 .. issued \subseteq 0 .. issued'
      BY <1>2
    <3> QED
      BY <3>1, <3>2
  <2>3. after' \in [Streams -> SUBSET Nat]
    <3>1. after' = [after EXCEPT ![s] = @ \cup more \cup {issued + 1}]
      BY DEF Stands
    <3>2. after[s] \cup more \cup {issued + 1} \in SUBSET Nat
      <4>1. issued + 1 \in Nat /\ after[s] \in SUBSET Nat /\ more \in SUBSET Nat
        BY <1>2, <1>4
      <4> QED
        BY <4>1, Zenon
    <3> QED
      BY <1>4, <3>1, <3>2
  <2>4. \A d \in All(r) : CommandOk(d)
    BY <1>3 DEF OrderInv, OrderTypes
  <2>5. GraphOk' /\ wrong' = {}
    BY DEF OrderInv, OrderTypes, GraphOk
  <2> QED
    BY <1>2, <2>1, <2>2, <2>3, <2>4, <2>5 DEF OrderTypes, UserSets
<1>9. HostsFind(r, mem', issued', held', want')
  BY <1>2
<1> QED
  BY <1>3, <1>5, <1>6, <1>7, <1>8, <1>9 DEF OrderInv

\* The fields of a command, and what it uses.
Carries(c, k, kind, steps, buf, for, wt) ==
  /\ c.nth = k /\ c.kind = kind /\ c.steps = steps /\ c.buf = buf /\ c.for = for
  /\ \A b \in Written(steps) : c.leaves[b] = wt[b]
  /\ \A b \in Buffers : /\ (Uses(c, b) <=> (b \in Touched(steps) \/ buf = b))
                        /\ (Writes(c, b) <=> (b \in Written(steps) \/ buf = b))

LEMMA TheCommand ==
  ASSUME NEW kind, NEW steps, NEW buf, NEW for
  PROVE  Carries(Command(kind, steps, buf, for), issued + 1, kind, steps, buf, for,
            Apply(want, steps, issued + 1))
<1> DEFINE c == Command(kind, steps, buf, for)
<1>1. /\ c.nth = issued + 1 /\ c.kind = kind /\ c.steps = steps /\ c.buf = buf /\ c.for = for
      /\ c.leaves = [b \in Written(steps) |-> Apply(want, steps, issued + 1)[b]]
  BY DEF Command
<1> QED
  BY <1>1 DEF Uses, Writes, Carries

LEMMA NoSteps ==
  <<>> \in Seq(Steps) /\ Touched(<<>>) = {} /\ Written(<<>>) = {}
BY DEF Touched, Written

LEMMA HeldUser ==
  ASSUME OrderInv, NEW b \in Buffers
  PROVE  /\ UserOk(Now, b, b \in held, users[b]) /\ users[b] \in UserSets
         /\ HostFinds(Now, mem, issued, b, b \in held, want[b])
         /\ want[b] \in 0 .. issued \cup {None} /\ issued \in Nat
         /\ (b \in held) \in BOOLEAN
BY DEF OrderInv, OrderTypes, UserSets, UsersOk, HostsFind

LEMMA RunKeeps ==
  ASSUME OrderInv, NEW s \in Streams, NEW steps \in Seq(Steps), Ordered(s, steps), Run(s, steps)
  PROVE  OrderInv'
<1> DEFINE c == Command("run", steps, None, 0)
           k == issued + 1
           wt == Apply(want, steps, k)
           V == 0 .. k \cup {None}
<1>1. /\ Issue(s, c) /\ after' = [after EXCEPT ![s] = @ \cup {k}]
      /\ users' = [b \in Buffers |-> UsedBy(k, steps, b)]
      /\ want' = wt /\ UNCHANGED <<held, event, mem, capture, graph, wrong>>
  BY DEF Run
<1>2. /\ Touched(steps) \subseteq held /\ held \subseteq Buffers
      /\ \A b \in Touched(steps) : users[b].wrote \subseteq after[s]
      /\ \A b \in Written(steps) : users[b].read \subseteq after[s]
      /\ \A b \in Written(steps) : wt[b] # None
      /\ Written(steps) \subseteq Touched(steps)
  BY StepsTouch DEF Ordered, OrderInv, OrderTypes
<1>3. /\ c.nth = k /\ c.kind = "run" /\ c.steps = steps /\ c.buf = None /\ c.for = 0
      /\ \A b \in Written(steps) : c.leaves[b] = wt[b]
      /\ \A b \in Buffers : /\ (Uses(c, b) <=> (b \in Touched(steps)))
                            /\ (Writes(c, b) <=> (b \in Written(steps)))
  <2>1. Carries(c, k, "run", steps, None, 0, wt)
    BY TheCommand
  <2>2. \A b \in Buffers : None # b
    BY NoBuffer
  <2> QED
    BY <2>1, <2>2 DEF Carries
<1>4. /\ issued \in Nat /\ k \in Nat /\ k \in V /\ None \notin Nat
      /\ want \in [Buffers -> V] /\ want \in [Buffers -> 0 .. k \cup {None}]
  <2>1. issued \in Nat /\ want \in [Buffers -> 0 .. issued \cup {None}] /\ None \notin Nat
    BY NoBuffer DEF OrderInv, OrderTypes
  <2>2. 0 .. issued \cup {None} \subseteq V /\ k \in V
    BY <2>1
  <2> QED
    BY <2>1, <2>2
<1>5. wt \in [Buffers -> V] /\ \A b \in Buffers \ Written(steps) : wt[b] = want[b]
  <2>1. PICK n : n = k
    OBVIOUS
  <2>2. wt = Apply(want, steps, n) /\ n \in V /\ want \in [Buffers -> V]
    BY <1>4, <2>1
  <2> HIDE DEF V, wt, k, c
  <2>3. Holds(want, V) /\ IsSteps(steps)
    BY <2>2 DEF Holds, IsSteps
  <2>4. Holds(wt, V) /\ SameBut(wt, want, Written(steps))
    BY <2>2, <2>3, ApplyType
  <2> QED
    BY <2>4 DEF Holds, SameBut
<1>6. \A b \in Written(steps) : b \in Buffers /\ wt[b] \in Nat /\ Leaves(c, b) = wt[b]
  BY <1>2, <1>3, <1>4, <1>5 DEF Leaves
<1> HIDE DEF c, wt, V
<1>7. PICK r : r = Now'
  OBVIOUS
<1>8. Adds(Now, r, s, c, issued)
  BY <1>1, <1>3, <1>4, <1>7, NowIssue DEF OrderInv
<1>9. ASSUME NEW b \in Touched(steps)
      PROVE  /\ b \in Buffers /\ b \in held
             /\ \A d \in All(Now) : Writes(d, b) => Before(r, d.nth, k)
             /\ b \in Written(steps) => \A d \in All(Now) : Uses(d, b) => Before(r, d.nth, k)
  <2>1. b \in Buffers /\ b \in held /\ users[b].wrote \subseteq after[s]
    BY <1>2
  <2>2. \A d \in All(Now) : Writes(d, b) => Before(r, d.nth, k)
    BY <1>8, <2>1, ComesAfter
  <2>3. b \in Written(steps) => \A d \in All(Now) : Uses(d, b) => Before(r, d.nth, k)
    BY <1>2, <1>8, <2>1, ComesAfter
  <2> QED
    BY <2>1, <2>2, <2>3
<1>10. CommandWell(Now, mem, c)
  <2>1. \A b \in Touched(steps) : HostFinds(Now, mem, issued, b, TRUE, want[b])
    BY <1>9, HeldUser
  <2>2. FindsWanted(Now, mem, c, want)
    BY <1>2, <1>3, <2>1 DEF FindsWanted, HostFinds, wt
  <2>3. \A b \in Touched(steps) : Mapped(Now, mem, k, b)
    BY <2>1 DEF HostFinds
  <2> QED
    BY <1>3, <1>4, <2>2, <2>3 DEF CommandWell
<1>11. ComesLast(Now, r, c, issued)
  BY <1>3, <1>9 DEF ComesLast
<1>12. ASSUME NEW b \in Buffers
       PROVE  UserOk(r, b, b \in held', users'[b]) /\ users'[b] \in UserSets
  <2>1. users'[b] = UsedBy(k, steps, b) /\ held' = held
    BY <1>1
  <2>2. CASE b \in Written(steps)
    <3>1. users'[b] = [wrote |-> {k}, read |-> {}] /\ b \in held
      BY <1>2, <2>1, <2>2 DEF UsedBy
    <3>2. \A d \in All(Now) : Uses(d, b) => Before(r, d.nth, k)
      BY <1>2, <1>9, <2>2
    <3>3. UserOk(r, b, TRUE, [wrote |-> {k}, read |-> {}])
      BY <1>8, <3>2, UserWrites
    <3>4. (b \in held') = TRUE
      BY <2>1, <3>1
    <3>5. [wrote |-> {k}, read |-> {}] \in UserSets
      BY <1>4 DEF UserSets
    <3> QED
      BY <3>1, <3>3, <3>4, <3>5
  <2>3. CASE b \in Touched(steps) \ Written(steps)
    <3>1. users[b] \in UserSets /\ UserOk(Now, b, TRUE, users[b]) /\ b \in held
      BY <1>9, <2>3, HeldUser
    <3>2. users'[b] = [users[b] EXCEPT !.read = @ \cup {k}]
      BY <2>1, <2>3 DEF UsedBy
    <3>3. /\ users'[b].wrote = users[b].wrote /\ users'[b].read = users[b].read \cup {k}
          /\ users'[b] \in UserSets
      BY <1>4, <3>1, <3>2 DEF UserSets
    <3>4. ~Writes(c, b)
      BY <1>3, <2>3
    <3>5. UserOk(r, b, TRUE, users'[b])
      BY <1>8, <3>1, <3>3, <3>4, UserReads
    <3> QED
      BY <2>1, <3>1, <3>3, <3>5
  <2>4. CASE b \notin Touched(steps)
    <3>1. users'[b] = users[b] /\ ~Uses(c, b)
      BY <1>2, <1>3, <2>1, <2>4 DEF UsedBy
    <3>2. UserOk(r, b, b \in held, users[b]) /\ users[b] \in UserSets
      <4>1. /\ UserOk(Now, b, b \in held, users[b]) /\ users[b] \in UserSets
            /\ (b \in held) \in BOOLEAN
        BY HeldUser
      <4>2. PICK in \in BOOLEAN : in = (b \in held)
        BY <4>1
      <4>3. UserOk(Now, b, in, users[b])
        BY <4>1, <4>2
      <4>4. UserOk(r, b, in, users[b])
        BY <1>8, <3>1, <4>3, UserOthers
      <4> QED
        BY <4>1, <4>2, <4>4
    <3> QED
      BY <2>1, <3>1, <3>2
  <2> QED
    BY <2>2, <2>3, <2>4
<1>13. ASSUME NEW b \in Buffers
       PROVE  HostFinds(r, mem, k, b, b \in held', want'[b])
  <2>1. held' = held /\ want' = wt
    BY <1>1
  <2>2. CASE b \in Written(steps)
    <3>1. Writes(c, b) /\ b \in held
      BY <1>2, <1>3, <2>2
    <3>2. HostFinds(r, mem, k, b, TRUE, wt[b])
      BY <1>6, <1>8, <2>2, <3>1, HostWritten
    <3> QED
      BY <2>1, <3>1, <3>2
  <2>3. CASE b \notin Written(steps)
    <3>1. ~Writes(c, b) /\ wt[b] = want[b]
      BY <1>3, <1>5, <2>3
    <3>2. HostFinds(r, mem, k, b, b \in held, want[b])
      BY <1>8, <3>1, HeldUser, HostAdds
    <3> QED
      BY <2>1, <3>1, <3>2
  <2> QED
    BY <2>2, <2>3
<1>14. /\ users' \in [Buffers -> UserSets] /\ held' \in SUBSET Buffers
       /\ want' \in [Buffers -> 0 .. k \cup {None}]
  <2>1. users' = [b \in Buffers |-> users'[b]]
    BY <1>1
  <2> QED
    BY <1>1, <1>2, <1>5, <1>12, <2>1 DEF V
<1>15. CommandOk(c)
  BY <1>3 DEF CommandOk
<1>16. QueueInv'
  BY RunStep DEF OrderInv
<1>17. /\ Stands(Now, s, c, issued, after, event, after', event', {}) /\ {} \in SUBSET Nat
       /\ 0 \in 0 .. issued
  <2>1. after' = [after EXCEPT ![s] = @ \cup {} \cup {k}] /\ \A e \in Events : event'[e] = event[e]
    BY <1>1
  <2> QED
    BY <1>4, <2>1 DEF Stands
<1>18. UsersOk(r, held', users') /\ HostsFind(r, mem, k, held', want')
  BY <1>12, <1>13 DEF UsersOk, HostsFind
<1> HIDE DEF k
<1> QED
  BY <1>1, <1>3, <1>7, <1>10, <1>11, <1>14, <1>15, <1>16, <1>17, <1>18, IssueKeeps DEF k

\* A command that uses nothing changes nothing for a buffer.
LEMMA Untouched ==
  ASSUME OrderInv, NEW r, NEW s, NEW c, Adds(Now, r, s, c, issued), NEW b \in Buffers, ~Uses(c, b)
  PROVE  /\ UserOk(r, b, b \in held, users[b])
         /\ HostFinds(r, mem, issued + 1, b, b \in held, want[b])
<1>1. PICK in \in BOOLEAN : in = (b \in held)
  BY HeldUser
<1>2. UserOk(Now, b, in, users[b]) /\ HostFinds(Now, mem, issued, b, in, want[b])
  BY <1>1, HeldUser
<1>3. UserOk(r, b, in, users[b])
  BY <1>2, UserOthers
<1>4. ~Writes(c, b)
  BY WritesUses
<1>5. HostFinds(r, mem, issued + 1, b, in, want[b])
  BY <1>2, <1>4, HostAdds
<1> QED
  BY <1>1, <1>3, <1>5

LEMMA MarkKeeps ==
  ASSUME OrderInv, QueueInv', NEW s \in Streams, NEW kind \in {"record", "wait"},
         NEW for \in 0 .. issued,
         Issue(s, Command(kind, <<>>, None, for)),
         UNCHANGED <<held, users, mem, want, capture, graph, wrong>>,
         NEW more \in SUBSET Nat,
         Stands(Now, s, Command(kind, <<>>, None, for), issued, after, event, after', event', more)
  PROVE  OrderInv'
<1> DEFINE c == Command(kind, <<>>, None, for)
<1>1. Carries(c, issued + 1, kind, <<>>, None, for, Apply(want, <<>>, issued + 1))
  BY TheCommand
<1>2. /\ Issue(s, c) /\ Stands(Now, s, c, issued, after, event, after', event', more)
      /\ c.nth = issued + 1 /\ c.kind = kind /\ c.steps = <<>> /\ c.buf = None /\ c.for = for
      /\ \A b \in Buffers : ~Uses(c, b)
  BY <1>1, NoSteps, NoBuffer DEF Carries
<1> HIDE DEF c
<1>3. PICK r : r = Now'
  OBVIOUS
<1>4. Adds(Now, r, s, c, issued)
  BY <1>2, <1>3, NowIssue DEF OrderInv
<1>5. CommandOk(c) /\ CommandWell(Now, mem, c)
  BY <1>2, NoSteps DEF CommandOk, CommandWell
<1>6. ComesLast(Now, r, c, issued)
  BY <1>2 DEF ComesLast
<1>7. UsersOk(r, held', users') /\ HostsFind(r, mem, issued + 1, held', want')
  BY <1>2, <1>4, Untouched DEF UsersOk, HostsFind
<1>8. /\ held' \in SUBSET Buffers /\ users' \in [Buffers -> UserSets]
      /\ want' \in [Buffers -> 0 .. issued + 1 \cup {None}]
  <2>1. issued \in Nat /\ want \in [Buffers -> 0 .. issued \cup {None}]
    BY NoBuffer DEF OrderInv, OrderTypes
  <2>2. 0 .. issued \cup {None} \subseteq 0 .. issued + 1 \cup {None}
    BY <2>1
  <2> QED
    BY <2>1, <2>2 DEF OrderInv, OrderTypes, UserSets
<1> QED
  BY <1>2, <1>3, <1>5, <1>6, <1>7, <1>8, IssueKeeps

LEMMA EventKeeps ==
  ASSUME OrderInv, NEW s \in Streams, NEW e \in Events, EventRecord(e, s) \/ WaitFor(s, e)
  PROVE  OrderInv'
<1>1. /\ QueueInv' /\ issued \in Nat /\ AfterOk(Now, after, event) /\ after \in [Streams -> SUBSET Nat]
      /\ event = [f \in Events |-> event[f]] /\ event[e].nth \in 0 .. issued
      /\ None \in Buffers \cup {None}
  BY EventStep DEF OrderInv, OrderTypes, QueueInv
<1>2. CASE EventRecord(e, s)
  <2> DEFINE c == Command("record", <<>>, None, 0)
  <2>1. Stands(Now, s, c, issued, after, event, after', event', {})
    <3>1. after' = [after EXCEPT ![s] = @ \cup {} \cup {issued + 1}]
      BY <1>2 DEF EventRecord
    <3>2. event' = [event EXCEPT ![e] = [nth |-> issued + 1, after |-> after[s]]]
      BY <1>2 DEF EventRecord
    <3>3. \A f \in Events : \/ event'[f] = event[f]
                            \/ event'[f].nth = issued + 1 /\ event'[f].after = after[s]
      BY <1>1, <3>2
    <3> QED
      BY <3>1, <3>3 DEF Stands
  <2>2. Issue(s, c) /\ UNCHANGED <<held, users, mem, want, capture, graph, wrong>>
    BY <1>2 DEF EventRecord
  <2>3. {} \in SUBSET Nat /\ 0 \in 0 .. issued
    BY <1>1
  <2> QED
    BY <1>1, <2>1, <2>2, <2>3, MarkKeeps
<1>3. CASE WaitFor(s, e)
  <2> DEFINE n == event[e].nth
             c == Command("wait", <<>>, None, n)
  <2>1. /\ Issue(s, c) /\ UNCHANGED <<held, event, users, mem, want, capture, graph, wrong>>
        /\ after' = [after EXCEPT ![s] = @ \cup event[e].after \cup {issued + 1}]
    BY <1>3 DEF WaitFor
  <2>2. c.for = n
    BY CommandFields
  <2>3. \A m \in event[e].after : m \in Nths(Now) /\ n \in Nths(Now) /\ Before(Now, m, n)
    BY <1>1 DEF AfterOk
  <2>4. Stands(Now, s, c, issued, after, event, after', event', event[e].after)
    <3> HIDE DEF c
    <3> QED
      BY <2>1, <2>2, <2>3 DEF Stands
  <2>5. event[e].after \in SUBSET Nat
    <3>1. \A x \in Nths(Now) : x \in Nat
      BY <1>1 DEF Nths, OrderInv, Picture
    <3> QED
      BY <2>3, <3>1
  <2> QED
    BY <1>1, <2>1, <2>4, <2>5, MarkKeeps
<1> QED
  BY <1>2, <1>3

\* A buffer is allocated or freed.
LEMMA OwnedKeeps ==
  ASSUME OrderInv, NEW b \in Owned, Alloc(b) \/ DropOwned(b)
  PROVE  OrderInv'
<1> DEFINE s == Home[b]
           k == issued + 1
           kind == IF Alloc(b) THEN "alloc" ELSE "free"
           c == Command(kind, <<>>, b, 0)
<1>1. /\ s \in Streams /\ b \in Device /\ b \in Buffers /\ b # None /\ issued \in Nat /\ None \notin Nat
      /\ want \in [Buffers -> 0 .. issued \cup {None}] /\ users \in [Buffers -> UserSets]
      /\ held \subseteq Buffers /\ Unmapped \notin Nat
  BY NoBuffer DEF OrderInv, OrderTypes, UserSets
<1>2. QueueInv'
  BY <1>1, BufferStep DEF OrderInv
<1>3. /\ Issue(s, c) /\ after' = [after EXCEPT ![s] = @ \cup {k}]
      /\ UNCHANGED <<event, mem, capture, graph, wrong>>
      /\ held' \in SUBSET Buffers /\ \A x \in Buffers \ {b} : (x \in held') <=> (x \in held)
  <2>1. CASE Alloc(b)
    BY <1>1, <2>1 DEF Alloc
  <2>2. CASE ~Alloc(b)
    BY <1>1, <2>2 DEF DropOwned
  <2> QED
    BY <2>1, <2>2
<1>4. /\ users' = [users EXCEPT ![b] = IF Alloc(b) THEN [wrote |-> {k}, read |-> {}] ELSE NoUsers]
      /\ want' = IF Alloc(b) THEN want ELSE [want EXCEPT ![b] = None]
  <2>1. CASE Alloc(b)
    BY <1>1, <2>1 DEF Alloc
  <2>2. CASE ~Alloc(b)
    BY <1>1, <2>2 DEF DropOwned
  <2> QED
    BY <2>1, <2>2
<1>5. Carries(c, k, kind, <<>>, b, 0, Apply(want, <<>>, k))
  BY TheCommand
<1>6. /\ c.nth = k /\ c.kind = kind /\ c.steps = <<>> /\ c.buf = b /\ c.for = 0
      /\ \A x \in Buffers : (Uses(c, x) <=> (x = b)) /\ (Writes(c, x) <=> (x = b))
  BY <1>5, NoSteps DEF Carries
<1> HIDE DEF c
<1>7. PICK r : r = Now'
  OBVIOUS
<1>8. Adds(Now, r, s, c, issued)
  BY <1>1, <1>3, <1>6, <1>7, NowIssue DEF OrderInv
<1>9. \A d \in All(Now) : Uses(d, b) => Before(r, d.nth, k)
  <2>1. CASE Alloc(b)
    <3>1. b \in Device \ held
      BY <1>1, <2>1 DEF Alloc
    <3> QED
      BY <1>8, <3>1, ComesAfter
  <2>2. CASE ~Alloc(b)
    <3>1. b \in held /\ users[b].wrote \subseteq after[s] /\ users[b].read \subseteq after[s]
      BY <2>2 DEF DropOwned, MayDrop, AllUsers
    <3> QED
      BY <1>8, <3>1, ComesAfter
  <2> QED
    BY <2>1, <2>2
<1>10. ComesLast(Now, r, c, issued)
  BY <1>6, <1>9 DEF ComesLast
<1>11. CommandOk(c)
  BY <1>6, NoSteps DEF CommandOk
<1>12. CommandWell(Now, mem, c)
  <2>1. CASE Alloc(b)
    <3>1. b \notin held /\ HostFinds(Now, mem, issued, b, b \in held, want[b])
      BY <1>1, <2>1, HeldUser DEF Alloc
    <3>2. Finds(Now, mem, k, b, Unmapped)
      BY <3>1 DEF HostFinds
    <3> QED
      BY <1>6, <2>1, <3>2 DEF CommandWell
  <2>2. CASE ~Alloc(b)
    BY <1>6, <2>2 DEF CommandWell
  <2> QED
    BY <2>1, <2>2
<1>13. ASSUME NEW x \in Buffers
       PROVE  UserOk(r, x, x \in held', users'[x]) /\ HostFinds(r, mem, k, x, x \in held', want'[x])
  <2>1. CASE x # b
    <3>1. users'[x] = users[x] /\ want'[x] = want[x] /\ ((x \in held') <=> (x \in held))
      BY <1>1, <1>3, <1>4, <2>1
    <3>2. /\ UserOk(r, x, x \in held, users[x])
          /\ HostFinds(r, mem, issued + 1, x, x \in held, want[x])
      BY <1>6, <1>8, <2>1, Untouched
    <3>3. (x \in held') = (x \in held)
      BY <3>1
    <3> QED
      BY <3>1, <3>2, <3>3
  <2>2. CASE x = b /\ Alloc(b)
    <3>1. (b \in held') = TRUE /\ b \notin held
      BY <2>2 DEF Alloc
    <3>2. users'[b] = [wrote |-> {k}, read |-> {}] /\ want'[b] = want[b]
      BY <1>1, <1>4, <2>2
    <3>3. want[b] = None
      BY <1>1, <3>1, HeldUser DEF HostFinds
    <3>4. UserOk(r, b, TRUE, [wrote |-> {k}, read |-> {}])
      BY <1>1, <1>8, <1>9, UserWrites
    <3>5. Writes(c, b) /\ Leaves(c, b) \in Nat
      BY <1>1, <1>6, <2>2 DEF Leaves
    <3>6. HostFinds(r, mem, k, b, TRUE, None)
      BY <1>1, <1>8, <3>5, HostWritten
    <3> QED
      BY <2>2, <3>1, <3>2, <3>3, <3>4, <3>6
  <2>3. CASE x = b /\ ~Alloc(b)
    <3>1. (b \in held') = FALSE
      BY <2>3 DEF DropOwned
    <3>2. users'[b] = NoUsers /\ want'[b] = None
      BY <1>1, <1>4, <2>3
    <3>3. UserOk(r, b, FALSE, NoUsers)
      BY <1>1, <1>8, <1>9, UserFrees
    <3>4. Writes(c, b) /\ Leaves(c, b) = Unmapped
      BY <1>1, <1>6, <2>3 DEF Leaves
    <3>5. HostFinds(r, mem, k, b, FALSE, None)
      BY <1>1, <1>8, <3>4, HostWritten
    <3> QED
      BY <2>3, <3>1, <3>2, <3>3, <3>5
  <2> QED
    BY <2>1, <2>2, <2>3
<1>14. UsersOk(r, held', users') /\ HostsFind(r, mem, k, held', want')
  BY <1>13 DEF UsersOk, HostsFind
<1>15. users' \in [Buffers -> UserSets] /\ want' \in [Buffers -> 0 .. k \cup {None}]
  <2>1. NoUsers \in UserSets /\ [wrote |-> {k}, read |-> {}] \in UserSets
    BY <1>1 DEF NoUsers, UserSets
  <2>2. 0 .. issued \cup {None} \subseteq 0 .. k \cup {None}
    BY <1>1
  <2>3. users' \in [Buffers -> UserSets]
    <3> HIDE DEF k
    <3> QED
      BY <1>1, <1>4, <2>1
  <2>4. want' \in [Buffers -> 0 .. k \cup {None}]
    <3> DEFINE V == 0 .. k \cup {None}
    <3>1. want \in [Buffers -> V] /\ None \in V
      BY <1>1, <2>2
    <3> HIDE DEF V
    <3>2. want' \in [Buffers -> V]
      BY <1>4, <3>1
    <3> QED
      BY <3>2 DEF V
  <2> QED
    BY <2>3, <2>4
<1>16. /\ Stands(Now, s, c, issued, after, event, after', event', {}) /\ {} \in SUBSET Nat
       /\ 0 \in 0 .. issued
  <2>1. after' = [after EXCEPT ![s] = @ \cup {} \cup {k}] /\ \A e \in Events : event'[e] = event[e]
    BY <1>3
  <2> QED
    BY <1>1, <2>1 DEF Stands
<1> HIDE DEF k, s
<1> QED
  BY <1>1, <1>2, <1>3, <1>6, <1>7, <1>10, <1>11, <1>12, <1>14, <1>15, <1>16, IssueKeeps DEF k

(***************************************************************************)
(* The steps that leave the streams alone.                                 *)
(***************************************************************************)
LEMMA FindsSame ==
  ASSUME NEW q, NEW mm, NEW mm2, NEW b, mm2[b] = mm[b]
  PROVE  \A k, v : Finds(q, mm, k, b, v) <=> Finds(q, mm2, k, b, v)
BY DEF Finds

\* Nothing changes for a buffer when a number is given to something else.
LEMMA HostSame ==
  ASSUME NEW q, NEW k \in Nat, Picture(q, k), NEW b, NEW in \in BOOLEAN, NEW w,
         NEW mm, NEW mm2, mm2[b] = mm[b], HostFinds(q, mm, k, b, in, w)
  PROVE  HostFinds(q, mm2, k, b, in, w) /\ HostFinds(q, mm2, k + 1, b, in, w)
<1>1. \A v : Finds(q, mm, k + 1, b, v) => Finds(q, mm2, k + 1, b, v)
  BY FindsSame
<1>2. \A v : Finds(q, mm, k + 1, b, v) => Finds(q, mm2, k + 2, b, v)
  BY <1>1, FindsLater
<1>3. k + 1 + 1 = k + 2
  OBVIOUS
<1>4. HostFinds(q, mm2, k, b, in, w)
  BY <1>1 DEF HostFinds, Mapped
<1>5. HostFinds(q, mm2, k + 1, b, in, w)
  <2>1. w # None => in /\ Finds(q, mm2, k + 1 + 1, b, w)
    BY <1>2, <1>3 DEF HostFinds
  <2>2. IF b \in Owned /\ ~in THEN Finds(q, mm2, k + 1 + 1, b, Unmapped) ELSE Mapped(q, mm2, k + 1 + 1, b)
    BY <1>2, <1>3 DEF HostFinds, Mapped
  <2> QED
    BY <2>1, <2>2 DEF HostFinds
<1> QED
  BY <1>4, <1>5

LEMMA OtherKeeps ==
  ASSUME OrderInv, QueueInv', UNCHANGED <<queue, after, event, wrong>>, GraphOk',
         issued' \in {issued, issued + 1}, issued' <= MaxIssued,
         held' \in SUBSET Buffers, users' \in [Buffers -> UserSets],
         mem' \in [Buffers -> 0 .. issued' \cup {Unmapped}],
         want' \in [Buffers -> 0 .. issued' \cup {None}],
         UsersOk(Now, held', users'), CommandsWell(Now, mem'),
         HostsFind(Now, mem', issued', held', want')
  PROVE  OrderInv'
<1>1. PICK r : r = Now'
  OBVIOUS
<1>2. r = Now /\ issued \in Nat /\ MaxIssued \in Nat
  BY <1>1, NowSame, NoBuffer DEF OrderInv, OrderTypes
<1>3. Picture(r, issued')
  <2>1. \A k : k \in 1 .. issued => k \in 1 .. issued'
    BY <1>2
  <2> QED
    BY <1>2, <2>1 DEF OrderInv, Picture
<1>4. AfterOk(r, after', event') /\ PairsOk(r)
  BY <1>2 DEF OrderInv
<1>5. OrderTypes'
  <2>1. \A c \in All(r) : CommandOk(c)
    BY <1>2 DEF OrderInv, OrderTypes
  <2>2. issued' \in 0 .. MaxIssued /\ wrong' = {} /\ after' \in [Streams -> SUBSET Nat]
    BY <1>2 DEF OrderInv, OrderTypes
  <2> QED
    BY <1>1, <2>1, <2>2 DEF OrderTypes, UserSets
<1> QED
  BY <1>1, <1>2, <1>3, <1>4, <1>5 DEF OrderInv

LEMMA Facts ==
  ASSUME OrderInv
  PROVE  /\ issued \in Nat /\ issued <= MaxIssued /\ held \in SUBSET Buffers
         /\ Picture(Now, issued) /\ PairsOk(Now) /\ AfterOk(Now, after, event)
         /\ GraphOk /\ UsersOk(Now, held, users) /\ CommandsWell(Now, mem)
         /\ HostsFind(Now, mem, issued, held, want)
         /\ mem \in [Buffers -> 0 .. issued \cup {Unmapped}]
         /\ want \in [Buffers -> 0 .. issued \cup {None}] /\ users \in [Buffers -> UserSets]
         /\ after \in [Streams -> SUBSET Nat]
BY NoBuffer DEF OrderInv, OrderTypes, UserSets

\* Captures and graphs.
LEMMA GraphKeeps ==
  ASSUME OrderInv, QueueInv', UNCHANGED <<held, queue, after, event, users, mem, want, wrong>>, GraphOk',
         issued' = issued \/ (issued < MaxIssued /\ issued' = issued + 1)
  PROVE  OrderInv'
<1> USE Facts
<1>1. issued' \in {issued, issued + 1} /\ issued' <= MaxIssued /\ 0 .. issued \subseteq 0 .. issued'
  BY NoBuffer
<1>2. HostsFind(Now, mem', issued', held', want')
  <2> SUFFICES ASSUME NEW b \in Buffers
               PROVE  HostFinds(Now, mem, issued', b, b \in held, want[b])
    BY DEF HostsFind
  <2>1. PICK in \in BOOLEAN : in = (b \in held)
    BY HeldUser
  <2>2. HostFinds(Now, mem, issued, b, in, want[b])
    BY <2>1, HeldUser
  <2>3. HostFinds(Now, mem, issued + 1, b, in, want[b])
    BY <2>2, HostSame
  <2> QED
    BY <2>1, <2>2, <2>3
<1>3. mem' \in [Buffers -> 0 .. issued' \cup {Unmapped}] /\ want' \in [Buffers -> 0 .. issued' \cup {None}]
  <2>1. 0 .. issued \cup {Unmapped} \subseteq 0 .. issued' \cup {Unmapped}
    BY <1>1
  <2>2. 0 .. issued \cup {None} \subseteq 0 .. issued' \cup {None}
    BY <1>1
  <2> QED
    BY <2>1, <2>2
<1>4. /\ UsersOk(Now, held', users') /\ CommandsWell(Now, mem')
      /\ held' \in SUBSET Buffers /\ users' \in [Buffers -> UserSets]
  OBVIOUS
<1> QED
  BY <1>1, <1>2, <1>3, <1>4, OtherKeeps

\* A buffer changes hands without a command.
LEMMA HandKeeps ==
  ASSUME OrderInv, QueueInv', UNCHANGED <<queue, after, event, mem, capture, graph, issued, wrong>>,
         NEW b \in Buffers \ Owned, NEW u \in UserSets, NEW in \in BOOLEAN,
         held' \in SUBSET Buffers, (b \in held') = in,
         \A x \in Buffers \ {b} : (x \in held') = (x \in held),
         users' = [users EXCEPT ![b] = u], want' = [want EXCEPT ![b] = None], UserOk(Now, b, in, u)
  PROVE  OrderInv'
<1> USE Facts
<1>1. UsersOk(Now, held', users')
  <2> SUFFICES ASSUME NEW x \in Buffers
               PROVE  UserOk(Now, x, x \in held', users'[x])
    BY DEF UsersOk
  <2>1. CASE x = b
    <3>1. users'[b] = u
      OBVIOUS
    <3> QED
      BY <2>1, <3>1
  <2>2. CASE x # b
    <3>1. users'[x] = users[x] /\ (x \in held') = (x \in held)
      BY <2>2
    <3>2. UserOk(Now, x, x \in held, users[x])
      BY HeldUser
    <3> QED
      BY <3>1, <3>2
  <2> QED
    BY <2>1, <2>2
<1>2. HostsFind(Now, mem', issued', held', want')
  <2> SUFFICES ASSUME NEW x \in Buffers
               PROVE  HostFinds(Now, mem, issued, x, x \in held', want'[x])
    BY DEF HostsFind
  <2>1. HostFinds(Now, mem, issued, x, x \in held, want[x])
    BY HeldUser
  <2>2. CASE x = b
    <3>1. want'[b] = None
      OBVIOUS
    <3>2. Mapped(Now, mem, issued + 1, b)
      BY <2>1, <2>2 DEF HostFinds
    <3> QED
      BY <2>2, <3>1, <3>2 DEF HostFinds
  <2>3. CASE x # b
    <3>1. want'[x] = want[x] /\ (x \in held') = (x \in held)
      BY <2>3
    <3> QED
      BY <2>1, <3>1
  <2> QED
    BY <2>2, <2>3
<1>3. /\ issued' \in {issued, issued + 1} /\ issued' <= MaxIssued /\ CommandsWell(Now, mem') /\ GraphOk'
      /\ users' \in [Buffers -> UserSets] /\ mem' \in [Buffers -> 0 .. issued' \cup {Unmapped}]
  BY DEF GraphOk
<1>4. want' \in [Buffers -> 0 .. issued' \cup {None}]
  <2> DEFINE V == 0 .. issued \cup {None}
  <2>1. want \in [Buffers -> V] /\ None \in V
    OBVIOUS
  <2> HIDE DEF V
  <2>2. want' \in [Buffers -> V]
    BY <2>1
  <2> QED
    BY <2>2 DEF V
<1> QED
  BY <1>1, <1>2, <1>3, <1>4, OtherKeeps

LEMMA PoolKeeps ==
  ASSUME OrderInv, NEW b \in Buffers, TakePooled(b) \/ TakeSlab(b) \/ DropPooled(b) \/ DropSlab(b)
  PROVE  OrderInv'
<1>1. QueueInv'
  BY BufferStep DEF OrderInv
<1>2. /\ UserOk(Now, b, b \in held, users[b]) /\ HostFinds(Now, mem, issued, b, b \in held, want[b])
      /\ users[b] \in UserSets
  BY HeldUser
<1>3. /\ AfterOk(Now, after, event) /\ held \in SUBSET Buffers /\ users \in [Buffers -> UserSets]
      /\ want \in [Buffers -> 0 .. issued \cup {None}] /\ after \in [Streams -> SUBSET Nat]
      /\ \A x \in Device : Home[x] \in Streams
      /\ b \in Pooled => b \notin Owned /\ b \in Device /\ b \notin Slabs
      /\ b \in Slabs => b \notin Owned /\ b \notin Device
  BY Facts, NoBuffer
<1>4. NoUsers \in UserSets /\ NoUsers.wrote = {} /\ NoUsers.read = {}
  BY DEF NoUsers, UserSets
<1>5. CASE TakePooled(b)
  <2> DEFINE u == [wrote |-> after[Home[b]], read |-> {}]
  <2>1. /\ b \in Pooled /\ b \notin held /\ held' = held \cup {b} /\ users' = [users EXCEPT ![b] = u]
        /\ UNCHANGED <<queue, after, event, mem, want, capture, graph, issued, wrong>>
    BY <1>5 DEF TakePooled
  <2>2. want[b] = None
    BY <1>2, <2>1 DEF HostFinds
  <2>3. want' = [want EXCEPT ![b] = None]
    BY <1>3, <2>1, <2>2
  <2>4. u \in UserSets
    BY <1>3, <2>1 DEF UserSets
  <2>5. u.wrote = after[Home[b]] /\ u.read = {}
    OBVIOUS
  <2> HIDE DEF u
  <2>6. UserOk(Now, b, TRUE, u)
    <3>1. \A c \in All(Now) : Uses(c, b) => \E n \in u.wrote : Before(Now, c.nth, n)
      <4> SUFFICES ASSUME NEW c \in All(Now), Uses(c, b)
                   PROVE  \E n \in u.wrote : Before(Now, c.nth, n)
        OBVIOUS
      <4>1. PICK x \in Now[Home[b]] : Before(Now, c.nth, x.nth)
        BY <1>2, <1>3, <2>1 DEF UserOk
      <4>2. x.nth \in after[Home[b]]
        BY <1>3, <2>1 DEF AfterOk
      <4> QED
        BY <2>5, <4>1, <4>2
    <3>2. u.wrote \subseteq Nths(Now) /\ u.read \subseteq Nths(Now)
      BY <1>3, <2>1, <2>5 DEF AfterOk
    <3> QED
      BY <3>1, <3>2, WritesUses DEF UserOk
  <2>7. /\ (b \in held') = TRUE /\ held' \in SUBSET Buffers
        /\ \A x \in Buffers \ {b} : (x \in held') = (x \in held)
    BY <1>3, <2>1
  <2> QED
    BY <1>1, <1>3, <2>1, <2>3, <2>4, <2>6, <2>7, HandKeeps
<1>6. CASE TakeSlab(b)
  <2>1. /\ b \in Slabs /\ b \notin held /\ held' = held \cup {b} /\ users' = [users EXCEPT ![b] = NoUsers]
        /\ UNCHANGED <<queue, after, event, mem, want, capture, graph, issued, wrong>>
    BY <1>6 DEF TakeSlab
  <2>2. want[b] = None
    BY <1>2, <2>1 DEF HostFinds
  <2>3. want' = [want EXCEPT ![b] = None]
    BY <1>3, <2>1, <2>2
  <2>4. UserOk(Now, b, TRUE, NoUsers)
    <3>1. \A c \in All(Now) : ~Uses(c, b)
      BY <1>2, <2>1 DEF UserOk
    <3> QED
      BY <1>4, <3>1, WritesUses DEF UserOk
  <2>5. /\ (b \in held') = TRUE /\ held' \in SUBSET Buffers
        /\ \A x \in Buffers \ {b} : (x \in held') = (x \in held)
    BY <1>3, <2>1
  <2> QED
    BY <1>1, <1>3, <1>4, <2>1, <2>3, <2>4, <2>5, HandKeeps
<1>7. CASE DropPooled(b)
  <2>1. /\ b \in Pooled /\ b \in held /\ held' = held \ {b} /\ users' = [users EXCEPT ![b] = NoUsers]
        /\ want' = [want EXCEPT ![b] = None] /\ AllUsers(b) \subseteq after[Home[b]]
        /\ UNCHANGED <<queue, after, event, mem, capture, graph, issued, wrong>>
    BY <1>7 DEF DropPooled, MayDrop
  <2>2. \A c \in All(Now) : Uses(c, b) => \E x \in Now[Home[b]] : Before(Now, c.nth, x.nth)
    <3> SUFFICES ASSUME NEW c \in All(Now), Uses(c, b)
                 PROVE  \E x \in Now[Home[b]] : Before(Now, c.nth, x.nth)
      OBVIOUS
    <3>1. c.nth \in users[b].read \/ \E n \in users[b].wrote : Before(Now, c.nth, n)
      BY <1>2, <2>1 DEF UserOk
    <3>2. PICK n \in AllUsers(b) : Before(Now, c.nth, n)
      BY <3>1, BeforeOrder DEF AllUsers
    <3>3. n \in Nths(Now) /\ \E x \in Now[Home[b]] : Before(Now, n, x.nth)
      BY <1>3, <2>1, <3>2 DEF AfterOk
    <3> QED
      BY <3>2, <3>3, BeforeOrder
  <2>3. UserOk(Now, b, FALSE, NoUsers)
    BY <1>3, <1>4, <2>1, <2>2 DEF UserOk
  <2>4. /\ (b \in held') = FALSE /\ held' \in SUBSET Buffers
        /\ \A x \in Buffers \ {b} : (x \in held') = (x \in held)
    BY <1>3, <2>1
  <2> QED
    BY <1>1, <1>3, <1>4, <2>1, <2>3, <2>4, HandKeeps
<1>8. CASE DropSlab(b)
  <2>1. /\ b \in Slabs /\ b \in held /\ held' = held \ {b} /\ AllUsers(b) = {}
        /\ want' = [want EXCEPT ![b] = None]
        /\ UNCHANGED <<queue, after, event, users, mem, capture, graph, issued, wrong>>
    BY <1>8 DEF DropSlab, Idle
  <2>2. \A c \in All(Now) : ~Uses(c, b)
    BY <1>2, <2>1 DEF UserOk, AllUsers
  <2>3. UserOk(Now, b, FALSE, users[b])
    BY <1>2, <1>3, <2>1, <2>2 DEF UserOk
  <2>4. users' = [users EXCEPT ![b] = users[b]]
    BY <1>3, <2>1
  <2>5. /\ (b \in held') = FALSE /\ held' \in SUBSET Buffers
        /\ \A x \in Buffers \ {b} : (x \in held') = (x \in held)
    BY <1>3, <2>1
  <2> QED
    BY <1>1, <1>2, <1>3, <2>1, <2>3, <2>4, <2>5, HandKeeps
<1> QED
  BY <1>5, <1>6, <1>7, <1>8

\* The host writes where nothing in flight reads or writes.
LEMMA HostWriteKeeps ==
  ASSUME OrderInv, NEW b \in Buffers, HostWrite(b)
  PROVE  OrderInv'
<1> USE Facts
<1> DEFINE k == issued + 1
<1>1. QueueInv'
  BY BufferStep DEF OrderInv
<1>2. /\ b \in Slabs /\ b \in held /\ AllUsers(b) = {} /\ issued < MaxIssued
      /\ mem' = [mem EXCEPT ![b] = k] /\ want' = [want EXCEPT ![b] = k] /\ issued' = k
      /\ UNCHANGED <<held, queue, after, event, users, capture, graph, wrong>>
  BY DEF HostWrite, Idle
<1>3. /\ b \notin Owned /\ MaxIssued \in Nat /\ k \in Nat /\ None \notin Nat
      /\ \A c \in All(Now) : c.nth \in 1 .. issued /\ CommandOk(c)
  BY <1>2, NoBuffer DEF Picture, OrderInv, OrderTypes
<1>4. \A c \in All(Now) : ~Uses(c, b) /\ ~Writes(c, b)
  <2>1. UserOk(Now, b, b \in held, users[b])
    BY HeldUser
  <2>2. \A c \in All(Now) : ~Uses(c, b)
    BY <1>2, <2>1 DEF UserOk, AllUsers
  <2> QED
    BY <2>2, WritesUses
<1>5. \A x \in Buffers \ {b} : mem'[x] = mem[x] /\ want'[x] = want[x]
  BY <1>2
<1>6. mem'[b] = k /\ want'[b] = k
  BY <1>2
<1>7. PICK mm : mm = mem'
  OBVIOUS
<1>8. HostsFind(Now, mm, k, held, want')
  <2> SUFFICES ASSUME NEW x \in Buffers
               PROVE  HostFinds(Now, mm, k, x, x \in held, want'[x])
    BY DEF HostsFind
  <2>1. CASE x # b
    <3>1. PICK in \in BOOLEAN : in = (x \in held)
      BY HeldUser
    <3>2. HostFinds(Now, mem, issued, x, in, want[x])
      BY <3>1, HeldUser
    <3>3. mm[x] = mem[x] /\ want'[x] = want[x]
      BY <1>5, <1>7, <2>1
    <3>4. HostFinds(Now, mm, issued + 1, x, in, want[x])
      BY <3>2, <3>3, HostSame
    <3> QED
      BY <3>1, <3>3, <3>4
  <2>2. CASE x = b
    <3>1. Finds(Now, mm, k + 1, b, k)
      BY <1>4, <1>6, <1>7 DEF Finds
    <3>2. Mapped(Now, mm, k + 1, b)
      BY <1>3, <3>1 DEF Mapped
    <3> QED
      BY <1>2, <1>3, <1>6, <2>2, <3>1, <3>2 DEF HostFinds
  <2> QED
    BY <2>1, <2>2
<1>9. CommandsWell(Now, mm)
  <2> SUFFICES ASSUME NEW c \in All(Now)
               PROVE  CommandWell(Now, mm, c)
    BY DEF CommandsWell
  <2>1. CommandWell(Now, mem, c) /\ CommandOk(c)
    BY <1>3 DEF CommandsWell
  <2>2. \A x \in Buffers : Uses(c, x) => mm[x] = mem[x]
    BY <1>4, <1>5, <1>7
  <2>3. \A x \in Buffers : Uses(c, x) => \A v : Finds(Now, mem, c.nth, x, v) => Finds(Now, mm, c.nth, x, v)
    BY <2>2, FindsSame
  <2>4. \A x \in Touched(c.steps) : x \in Buffers /\ Uses(c, x)
    BY <2>1, StepsTouch DEF Uses, CommandOk
  <2>5. c.kind = "run" => \A x \in Touched(c.steps) : Mapped(Now, mm, c.nth, x)
    BY <2>1, <2>3, <2>4 DEF CommandWell, Mapped
  <2>6. c.kind = "alloc" => Finds(Now, mm, c.nth, c.buf, Unmapped)
    <3>1. c.kind = "alloc" => c.buf \in Buffers /\ Uses(c, c.buf)
      BY <2>1, NoBuffer DEF CommandOk, Uses
    <3> QED
      BY <2>1, <2>3, <3>1 DEF CommandWell
  <2>7. ASSUME c.kind = "run"
        PROVE  \E w \in [Buffers -> 0 .. c.nth \cup {None}] : FindsWanted(Now, mm, c, w)
    <3>1. PICK w \in [Buffers -> 0 .. c.nth \cup {None}] : FindsWanted(Now, mem, c, w)
      BY <2>1, <2>7 DEF CommandWell
    <3>2. FindsWanted(Now, mm, c, w)
      BY <2>3, <2>4, <3>1 DEF FindsWanted
    <3> QED
      BY <3>2
  <2> QED
    BY <2>5, <2>6, <2>7 DEF CommandWell
<1>10. /\ issued' \in {issued, issued + 1} /\ issued' <= MaxIssued /\ GraphOk'
       /\ held' \in SUBSET Buffers /\ users' \in [Buffers -> UserSets] /\ UsersOk(Now, held', users')
  BY <1>2, <1>3 DEF GraphOk
<1>11. mem' \in [Buffers -> 0 .. issued' \cup {Unmapped}] /\ want' \in [Buffers -> 0 .. issued' \cup {None}]
  <2> DEFINE V == 0 .. k \cup {Unmapped}
             W == 0 .. k \cup {None}
  <2>1. mem \in [Buffers -> V] /\ want \in [Buffers -> W] /\ k \in V /\ k \in W
    <3>1. 0 .. issued \cup {Unmapped} \subseteq V /\ 0 .. issued \cup {None} \subseteq W /\ k \in V /\ k \in W
      OBVIOUS
    <3> HIDE DEF V, W, k
    <3> QED
      BY <3>1
  <2> HIDE DEF V, W
  <2>2. mem' \in [Buffers -> V] /\ want' \in [Buffers -> W]
    BY <1>2, <2>1
  <2> QED
    BY <1>2, <2>2 DEF V, W
<1>12. CommandsWell(Now, mem') /\ HostsFind(Now, mem', issued', held', want')
  BY <1>2, <1>7, <1>8, <1>9
<1> QED
  BY <1>1, <1>2, <1>10, <1>11, <1>12, OtherKeeps

LEMMA EnqueueKeeps ==
  ASSUME OrderInv, NEW s \in Streams, NEW step \in Steps, MayEnqueue(s, step), Enqueue(s, step)
  PROVE  OrderInv'
<1>1. CASE Run(s, <<step>>)
  <2>1. ~Capturing(s)
    BY <1>1 DEF Run, Issue
  <2>2. Ordered(s, <<step>>) /\ <<step>> \in Seq(Steps)
    BY <2>1 DEF MayEnqueue
  <2> QED
    BY <1>1, <2>2, RunKeeps
<1>2. CASE Record(s, step)
  <2>1. /\ capture # None /\ capture' = [capture EXCEPT !.steps = Append(@, step)]
        /\ issued < MaxIssued /\ issued' = issued + 1
        /\ UNCHANGED <<held, queue, after, event, users, mem, want, graph, wrong>>
    BY <1>2 DEF Record, Capturing
  <2>2. QueueInv'
    BY EnqueueStep DEF OrderInv
  <2>3. capture \in [on : Streams, steps : Seq(Steps), ok : BOOLEAN]
    BY <2>1, Facts DEF GraphOk
  <2>4. Append(capture.steps, step) \in Seq(Steps)
    BY <2>3
  <2>5. GraphOk'
    BY <2>1, <2>3, <2>4, Facts DEF GraphOk
  <2> QED
    BY <2>1, <2>2, <2>5, GraphKeeps
<1> QED
  BY <1>1, <1>2 DEF Enqueue

LEMMA CopyKeeps ==
  ASSUME OrderInv, NEW dst \in Buffers, NEW src \in Buffers,
         \/ CopyFromDevice(dst, src) \/ CopyFromHost(dst, src) \/ CopyToHost(dst, src)
         \/ \E s \in Streams : Launch(s, dst, src)
  PROVE  OrderInv'
<1> DEFINE step == [src |-> src, dst |-> dst]
<1>1. step \in Steps /\ \A b \in Device : Home[b] \in Streams
  BY NoBuffer DEF Steps
<1>2. CASE CopyFromDevice(dst, src)
  BY <1>1, <1>2, EnqueueKeeps DEF CopyFromDevice
<1>3. CASE CopyFromHost(dst, src)
  BY <1>1, <1>3, EnqueueKeeps DEF CopyFromHost
<1>4. CASE CopyToHost(dst, src)
  BY <1>1, <1>4, EnqueueKeeps DEF CopyToHost
<1>5. ASSUME NEW s \in Streams, Launch(s, dst, src)
      PROVE  OrderInv'
  BY <1>1, <1>5, EnqueueKeeps DEF Launch
<1> QED
  BY <1>2, <1>3, <1>4, <1>5

LEMMA BufferKeeps ==
  ASSUME OrderInv, NEW b \in Buffers,
         \/ Alloc(b) \/ TakePooled(b) \/ TakeSlab(b) \/ HostWrite(b)
         \/ DropOwned(b) \/ DropPooled(b) \/ DropSlab(b) \/ ZeroInPlace(b)
  PROVE  OrderInv'
<1>1. CASE ZeroInPlace(b)
  <2>1. [src |-> None, dst |-> b] \in Steps /\ (b \in Device => Home[b] \in Streams)
    BY NoBuffer DEF Steps
  <2> QED
    BY <1>1, <2>1, EnqueueKeeps DEF ZeroInPlace
<1>2. CASE Alloc(b) \/ DropOwned(b)
  <2>1. b \in Owned
    BY <1>2 DEF Alloc, DropOwned
  <2> QED
    BY <1>2, <2>1, OwnedKeeps
<1> QED
  BY <1>1, <1>2, PoolKeeps, HostWriteKeeps

LEMMA StreamKeeps ==
  ASSUME OrderInv, NEW s \in Streams,
         \/ BeginCapture(s) \/ Invalidate(s) \/ GraphLaunch(s)
         \/ \E b \in Buffers : MemsetD8Async(s, b)
         \/ \E e \in Events : EventRecord(e, s) \/ WaitFor(s, e)
  PROVE  OrderInv'
<1>1. CASE BeginCapture(s) \/ Invalidate(s)
  <2>1. QueueInv'
    BY <1>1, StreamStep DEF OrderInv
  <2>2. GraphOk'
    <3>1. \E ok \in BOOLEAN : capture' = [on |-> s, steps |-> <<>>, ok |-> ok]
      BY <1>1 DEF BeginCapture, Invalidate
    <3>2. capture' \in [on : Streams, steps : Seq(Steps), ok : BOOLEAN]
      BY <3>1, NoSteps
    <3>3. graph' = graph
      BY <1>1 DEF BeginCapture, Invalidate
    <3> QED
      BY <3>2, <3>3, Facts DEF GraphOk
  <2> QED
    BY <1>1, <2>1, <2>2, GraphKeeps DEF BeginCapture, Invalidate
<1>2. CASE GraphLaunch(s)
  <2>1. graph \in Seq(Steps) /\ Ordered(s, graph) /\ Run(s, graph)
    BY <1>2, Facts DEF GraphLaunch, GraphOk
  <2>2. PICK steps : steps = graph
    OBVIOUS
  <2> QED
    BY <2>1, <2>2, RunKeeps
<1>3. ASSUME NEW b \in Buffers, MemsetD8Async(s, b)
      PROVE  OrderInv'
  <2>1. [src |-> None, dst |-> b] \in Steps
    BY DEF Steps
  <2> QED
    BY <1>3, <2>1, EnqueueKeeps DEF MemsetD8Async
<1> QED
  BY <1>1, <1>2, <1>3, EventKeeps

(***************************************************************************)
(* The GPU's step: the command finds what it is to find, and leaves what   *)
(* it is to leave.                                                         *)
(***************************************************************************)
LEMMA CommandRuns ==
  ASSUME OrderInv, NEW s \in Streams, NEW r, NEW h, Removes(Now, r, s, h, issued)
  PROVE  /\ ~Amiss(h) /\ Turns(h, mem, Effect(h))
         /\ Effect(h) \in [Buffers -> 0 .. issued \cup {Unmapped}]
<1> USE Facts
<1> DEFINE n == h.nth
           W == 0 .. issued \cup {Unmapped}
<1>1. h \in All(Now) /\ n \in 1 .. issued
  BY RemovesAll
<1>2. CommandOk(h) /\ CommandWell(Now, mem, h)
  BY <1>1 DEF OrderInv, OrderTypes, CommandsWell
<1>3. ASSUME NEW b \in Buffers, Uses(h, b)
      PROVE  \A v : Finds(Now, mem, n, b, v) => v = mem[b]
  <2>1. \A d, e \in All(Now) : PairOk(Now, d, e)
    BY DEF PairsOk
  <2>2. \A d \in All(Now) : Uses(d, b) /\ (Writes(d, b) \/ Writes(h, b)) => n <= d.nth
    BY <1>3, <2>1, Oldest2
  <2>3. \A d \in All(Now) : d.nth \in 1 .. issued
    BY DEF Picture
  <2>4. \A d \in All(Now) : Writes(d, b) => ~(d.nth < n)
    BY <1>1, <2>2, <2>3, WritesUses
  <2> QED
    BY <2>4 DEF Finds
<1>4. /\ mem \in [Buffers -> W] /\ Holds(mem, W) /\ IsSteps(h.steps) /\ n \in W /\ 0 \in W /\ Unmapped \in W
      /\ None \notin Nat /\ Unmapped \notin Nat /\ None \notin Buffers
      /\ Touched(h.steps) \subseteq Buffers /\ Written(h.steps) \subseteq Touched(h.steps)
      /\ Owned \subseteq Buffers
  BY <1>1, <1>2, NoBuffer, StepsTouch DEF Holds, IsSteps, CommandOk
<1>5. CASE h.kind = "run"
  <2>1. h.buf = None /\ Effect(h) = Apply(mem, h.steps, n)
    BY <1>2, <1>5 DEF CommandOk, Effect
  <2>2. \A b \in Buffers : (Uses(h, b) <=> b \in Touched(h.steps)) /\ (Writes(h, b) <=> b \in Written(h.steps))
    BY <1>4, <2>1 DEF Uses, Writes
  <2>3. Holds(Effect(h), W) /\ SameBut(Effect(h), mem, Written(h.steps))
    <3> HIDE DEF W, n
    <3> QED
      BY <1>4, <2>1, ApplyType
  <2>4. \A b \in Touched(h.steps) : mem[b] # Unmapped
    <3> TAKE b \in Touched(h.steps)
    <3>1. PICK v \in Nat : Finds(Now, mem, n, b, v)
      BY <1>2, <1>5 DEF CommandWell, Mapped
    <3>2. v = mem[b]
      BY <1>3, <1>4, <2>2, <3>1
    <3> QED
      BY <1>4, <3>1, <3>2
  <2>5. PICK w \in [Buffers -> 0 .. n \cup {None}] : FindsWanted(Now, mem, h, w)
    BY <1>2, <1>5 DEF CommandWell
  <2>6. Agree(w, mem, Touched(h.steps))
    <3> SUFFICES ASSUME NEW b \in Touched(h.steps), w[b] # None
                 PROVE  mem[b] = w[b]
      BY DEF Agree
    <3>1. Finds(Now, mem, n, b, w[b])
      BY <2>5 DEF FindsWanted
    <3> QED
      BY <1>3, <1>4, <2>2, <3>1
  <2>7. Agree(Apply(w, h.steps, n), Effect(h), Touched(h.steps))
    <3> DEFINE V == 0 .. n \cup {None}
    <3>1. Holds(w, V) /\ n \in V \cap W /\ n # None
      BY <1>1, <1>4, <2>5 DEF Holds
    <3> HIDE DEF V, W, n
    <3> QED
      BY <1>4, <2>1, <2>6, <3>1, ApplyAgrees
  <2>8. \A b \in Written(h.steps) : Effect(h)[b] = h.leaves[b]
    BY <1>4, <2>5, <2>7 DEF FindsWanted, Agree
  <2>9. Turns(h, mem, Effect(h))
    BY <1>5, <2>2, <2>3, <2>8 DEF Turns, Leaves, SameBut
  <2>10. ~Amiss(h)
    BY <1>5, <2>4, <2>8 DEF Amiss
  <2> QED
    BY <2>3, <2>9, <2>10 DEF Holds
<1>6. CASE h.kind \in {"alloc", "free"}
  <2>1. h.buf \in Owned /\ h.buf # None /\ h.buf \in Buffers /\ Touched(h.steps) = {} /\ Written(h.steps) = {}
    BY <1>2, <1>4, <1>6, NoSteps DEF CommandOk
  <2>2. \A b \in Buffers : (Uses(h, b) <=> b = h.buf) /\ (Writes(h, b) <=> b = h.buf)
    BY <2>1 DEF Uses, Writes
  <2>3. Effect(h) = [mem EXCEPT ![h.buf] = Leaves(h, h.buf)] /\ Leaves(h, h.buf) \in {0, Unmapped}
    BY <1>6 DEF Effect, Leaves
  <2>4. Effect(h) \in [Buffers -> W]
    <3> HIDE DEF W
    <3> QED
      BY <1>4, <2>1, <2>3
  <2>5. Turns(h, mem, Effect(h))
    <3> SUFFICES ASSUME NEW b \in Buffers
                 PROVE  Effect(h)[b] = IF Writes(h, b) THEN Leaves(h, b) ELSE mem[b]
      BY DEF Turns
    <3>1. CASE b = h.buf
      BY <1>4, <2>1, <2>2, <2>3, <3>1
    <3>2. CASE b # h.buf
      BY <1>4, <2>2, <2>3, <3>2
    <3> QED
      BY <3>1, <3>2
  <2>6. h.kind = "alloc" => mem[h.buf] = Unmapped
    BY <1>2, <1>3, <2>1, <2>2 DEF CommandWell
  <2>7. ~Amiss(h)
    BY <2>1, <2>6 DEF Amiss
  <2> QED
    BY <2>4, <2>5, <2>7
<1>7. CASE h.kind \in {"record", "wait"}
  <2>1. h.buf = None /\ Touched(h.steps) = {} /\ Written(h.steps) = {} /\ Effect(h) = Apply(mem, h.steps, n)
    BY <1>2, <1>7, NoSteps DEF CommandOk, Effect
  <2>2. \A b \in Buffers : ~Writes(h, b)
    BY <1>4, <2>1 DEF Writes
  <2>3. Holds(Effect(h), W) /\ SameBut(Effect(h), mem, {})
    <3> HIDE DEF W, n
    <3>1. Holds(Apply(mem, h.steps, n), W) /\ SameBut(Apply(mem, h.steps, n), mem, Written(h.steps))
      BY <1>4, ApplyType
    <3> QED
      BY <2>1, <3>1
  <2>4. Turns(h, mem, Effect(h))
    BY <2>2, <2>3 DEF Turns, SameBut
  <2>5. ~Amiss(h)
    BY <1>7, <2>1 DEF Amiss
  <2> QED
    BY <2>3, <2>4, <2>5 DEF Holds
<1> QED
  BY <1>2, <1>5, <1>6, <1>7 DEF CommandOk

LEMMA ExecuteKeeps ==
  ASSUME OrderInv, NEW s \in Streams, Execute(s)
  PROVE  OrderInv'
<1> USE Facts
<1>1. PICK h, r, mm : h = Head(queue[s]) /\ r = Now' /\ mm = Effect(h)
  OBVIOUS
<1>2. Removes(Now, r, s, h, issued)
  BY <1>1, NowExecute DEF OrderInv
<1>3. ~Amiss(h) /\ Turns(h, mem, mm) /\ mm \in [Buffers -> 0 .. issued \cup {Unmapped}]
  BY <1>1, <1>2, CommandRuns
<1>4. /\ mem' = mm /\ wrong' = wrong /\ Forget(h.nth)
      /\ UNCHANGED <<held, want, capture, graph, issued>>
  BY <1>1, <1>3 DEF Execute
<1>5. QueueInv'
  BY ExecuteStep DEF OrderInv
<1>6. \A d, e \in All(Now) : PairOk(Now, d, e)
  BY DEF PairsOk
<1>7. Picture(r, issued) /\ All(r) \subseteq All(Now)
  BY <1>2, RemovesAll
<1>8. AfterOk(r, after', event')
  <2>1. PICK aft2, ev2 : aft2 = after' /\ ev2 = event'
    OBVIOUS
  <2>2. /\ \A t \in Streams : aft2[t] = after[t] \ {h.nth}
        /\ \A e \in Events : /\ ev2[e].after = event[e].after \ {h.nth}
                             /\ event[e].nth # h.nth => ev2[e].nth = event[e].nth
    BY <1>4, <2>1 DEF Forget
  <2>3. AfterOk(r, aft2, ev2)
    BY <1>2, <2>2, AfterRemoves
  <2> QED
    BY <2>1, <2>3
<1>9. PairsOk(r)
  <2>1. \A d, e \in All(r) : PairOk(r, d, e)
    BY <1>2, <1>6, PairsRemoves
  <2> QED
    BY <2>1 DEF PairsOk
<1>10. CommandsWell(r, mm)
  <2>1. \A d \in All(Now) : CommandWell(Now, mem, d)
    BY DEF CommandsWell
  <2>2. /\ \A d \in All(Now) : d.kind = "alloc" => d.buf \in Buffers
        /\ \A d \in All(Now) : Touched(d.steps) \subseteq Buffers
    <3>1. \A d \in All(Now) : CommandOk(d)
      BY DEF OrderInv, OrderTypes
    <3> QED
      BY <3>1, NoBuffer, StepsTouch DEF CommandOk
  <2>3. \A d \in All(r) : CommandWell(r, mm, d)
    BY <1>2, <1>3, <1>6, <2>1, <2>2, CommandRemoves
  <2> QED
    BY <2>3 DEF CommandsWell
<1>11. UsersOk(r, held', users')
  <2> SUFFICES ASSUME NEW b \in Buffers
               PROVE  UserOk(r, b, b \in held, users'[b])
    BY <1>4 DEF UsersOk
  <2>1. PICK in \in BOOLEAN : in = (b \in held)
    BY HeldUser
  <2>2. UserOk(Now, b, in, users[b])
    BY <2>1, HeldUser
  <2>3. PICK u2 : u2 = users'[b]
    OBVIOUS
  <2>4. u2.wrote = users[b].wrote \ {h.nth} /\ u2.read = users[b].read \ {h.nth}
    BY <1>4, <2>3 DEF Forget
  <2>5. UserOk(r, b, in, u2)
    BY <1>2, <2>2, <2>4, UserRemoves
  <2> QED
    BY <2>1, <2>3, <2>5
<1>12. HostsFind(r, mm, issued, held, want)
  <2> SUFFICES ASSUME NEW b \in Buffers
               PROVE  HostFinds(r, mm, issued, b, b \in held, want[b])
    BY DEF HostsFind
  <2>1. PICK in \in BOOLEAN : in = (b \in held)
    BY HeldUser
  <2>2. HostFinds(Now, mem, issued, b, in, want[b])
    BY <2>1, HeldUser
  <2>3. HostFinds(r, mm, issued, b, in, want[b])
    BY <1>2, <1>3, <1>6, <2>2, HostRemoves
  <2> QED
    BY <2>1, <2>3
<1>13. OrderTypes'
  <2>1. after' \in [Streams -> SUBSET Nat]
    <3>1. after' = [t \in Streams |-> after[t] \ {h.nth}]
      BY <1>4 DEF Forget
    <3> QED
      BY <3>1
  <2>2. users' \in [Buffers -> UserSets]
    <3>1. users' = [b \in Buffers |-> [wrote |-> users[b].wrote \ {h.nth}, read |-> users[b].read \ {h.nth}]]
      BY <1>4 DEF Forget
    <3> QED
      BY <3>1 DEF UserSets
  <2>3. \A c \in All(r) : CommandOk(c)
    BY <1>7 DEF OrderInv, OrderTypes
  <2>4. GraphOk' /\ wrong' = {} /\ issued' \in 0 .. MaxIssued
    BY <1>4, NoBuffer DEF GraphOk, OrderInv, OrderTypes
  <2> QED
    BY <1>1, <1>3, <1>4, <2>1, <2>2, <2>3, <2>4 DEF OrderTypes, UserSets
<1> QED
  BY <1>1, <1>4, <1>5, <1>7, <1>8, <1>9, <1>10, <1>11, <1>12, <1>13 DEF OrderInv

LEMMA OrderInvStep ==
  ASSUME OrderInv, [Next]_vars
  PROVE  OrderInv'
<1>1. CASE EndCapture \/ DropCapture \/ DropGraph
  <2>1. QueueInv'
    BY <1>1, OtherStep DEF EndCapture, DropCapture, DropGraph, OrderInv
  <2>2. GraphOk'
    BY <1>1, Facts DEF EndCapture, DropCapture, DropGraph, GraphOk
  <2> QED
    BY <1>1, <2>1, <2>2, GraphKeeps DEF EndCapture, DropCapture, DropGraph
<1>2. CASE UNCHANGED vars
  <2>1. QueueInv' /\ GraphOk'
    BY <1>2, OtherStep, Facts DEF vars, OrderInv, GraphOk
  <2> QED
    BY <1>2, <2>1, GraphKeeps DEF vars
<1> QED
  BY <1>1, <1>2, BufferKeeps, CopyKeeps, StreamKeeps, ExecuteKeeps DEF Next

LEMMA OrderInvariant == Spec => []OrderInv
<1>1. ASSUME Init
      PROVE  OrderInv
  <2>1. QueueInv
    BY <1>1 DEF Init, QueueInv, InOrder, IsSequence
  <2>2. All(Now) = {} /\ Nths(Now) = {} /\ Now = [s \in Streams |-> {}]
    BY <1>1 DEF Init, Now, All, Nths
  <2>3. OrderTypes
    <3>1. issued \in 0 .. MaxIssued /\ held \subseteq Buffers /\ wrong = {} /\ GraphOk
      BY <1>1, NoBuffer DEF Init, GraphOk
    <3>2. mem \in [Buffers -> 0 .. issued \cup {Unmapped}] /\ want \in [Buffers -> 0 .. issued \cup {None}]
      BY <1>1 DEF Init
    <3>3. after \in [Streams -> SUBSET Nat] /\ users \in [Buffers -> [wrote : SUBSET Nat, read : SUBSET Nat]]
      BY <1>1 DEF Init, NoUsers
    <3> QED
      BY <2>2, <3>1, <3>2, <3>3 DEF OrderTypes
  <2>4. Picture(Now, issued)
    BY <2>2 DEF Picture
  <2>5. AfterOk(Now, after, event)
    BY <1>1, <2>2 DEF Init, AfterOk
  <2>6. UsersOk(Now, held, users)
    BY <1>1, <2>2 DEF Init, UsersOk, UserOk, NoUsers
  <2>7. PairsOk(Now) /\ CommandsWell(Now, mem)
    BY <2>2 DEF PairsOk, CommandsWell
  <2>8. HostsFind(Now, mem, issued, held, want)
    <3> SUFFICES ASSUME NEW b \in Buffers
                 PROVE  HostFinds(Now, mem, issued, b, b \in held, want[b])
      BY DEF HostsFind
    <3>1. want[b] = None /\ mem[b] = (IF b \in Owned THEN Unmapped ELSE 0) /\ (b \in held) = FALSE
      BY <1>1 DEF Init
    <3>2. Finds(Now, mem, issued + 1, b, mem[b])
      BY <2>2 DEF Finds
    <3> QED
      BY <3>1, <3>2 DEF HostFinds, Mapped
  <2> QED
    BY <2>1, <2>3, <2>4, <2>5, <2>6, <2>7, <2>8 DEF OrderInv
<1>2. OrderInv /\ [Next]_vars => OrderInv'
  BY OrderInvStep
<1> QED
  BY <1>1, <1>2, PTL DEF Spec

\* What a stream comes after, an event stands for and a buffer is used by is
\* in flight: none of it outlives the command it is about (Stream::wait_for,
\* Event::record, and the drops of DeviceBuf, PooledBuf and PinnedSlab).
THEOREM StreamTypes == Spec => []TypeOK
<1>1. ASSUME OrderInv
      PROVE  TypeOK
  <2> USE <1>1, Facts
  <2>1. Nths(Now) = InFlight
    <3>1. \A s \in Streams : DOMAIN queue[s] = 1 .. Len(queue[s])
      BY DEF OrderInv, QueueInv, InOrder, IsSequence
    <3>2. \A s \in Streams : Now[s] = {queue[s][i] : i \in DOMAIN queue[s]}
      BY <3>1 DEF Now
    <3> QED
      BY <3>2 DEF Nths, All, InFlight
  <2>2. \A s \in Streams : after[s] \subseteq InFlight
    BY <2>1 DEF AfterOk
  <2>3. \A e \in Events : event[e].nth \in 0 .. issued /\ event[e].after \subseteq InFlight
    BY <2>1 DEF AfterOk, OrderInv, QueueInv
  <2>4. \A b \in Buffers : AllUsers(b) \subseteq InFlight
    BY <2>1 DEF UsersOk, UserOk, AllUsers
  <2>5. \A b \in Buffers : mem[b] \in 0 .. issued \cup {Unmapped} /\ want[b] \in 0 .. issued \cup {None}
    OBVIOUS
  <2>6. /\ held \subseteq Buffers /\ issued \in 0 .. MaxIssued /\ wrong \subseteq 1 .. issued
    BY DEF OrderInv, OrderTypes
  <2>7. /\ capture # None => capture.on \in Streams /\ capture.steps \in Seq(Steps)
        /\ graph # None => graph \in Seq(Steps)
    BY DEF GraphOk
  <2> QED
    BY <2>2, <2>3, <2>4, <2>5, <2>6, <2>7 DEF TypeOK
<1> QED
  BY <1>1, OrderInvariant, PTL

\* For callers that order their streams, no command of any stream ever finds
\* its memory unmapped or its sources other than program order has them, nor
\* does the host: through allocation and free on the stream, recycling without
\* either, waits for events and replay of a graph.
THEOREM OrderKept == Spec => []ProgramOrder
<1>1. ASSUME OrderInv
      PROVE  ProgramOrder
  <2> USE <1>1
  <2>1. wrong = {}
    BY DEF OrderInv, OrderTypes
  <2>2. ASSUME NEW b \in held, want[b] # None, AllUsers(b) = {}
        PROVE  mem[b] = want[b]
    <3>1. b \in Buffers /\ b \in held
      BY Facts
    <3>2. UserOk(Now, b, b \in held, users[b]) /\ HostFinds(Now, mem, issued, b, b \in held, want[b])
      BY <3>1, HeldUser
    <3>3. \A c \in All(Now) : ~Writes(c, b)
      BY <2>2, <3>1, <3>2, WritesUses DEF UserOk, AllUsers
    <3>4. Finds(Now, mem, issued + 1, b, want[b])
      BY <2>2, <3>2 DEF HostFinds
    <3> QED
      BY <3>3, <3>4 DEF Finds
  <2> QED
    BY <2>1, <2>2 DEF ProgramOrder
<1> QED
  BY <1>1, OrderInvariant, PTL
-----------------------------------------------------------------------------
(***************************************************************************)
(* Profiler: what is lost.  While a clear is between its two steps the     *)
(* counter holds drops of before it, so Balanced leaves the counter out    *)
(* there: the history variable alone accounts for what is lost.            *)
(***************************************************************************)
Balanced ==
  IF Clearing THEN Len(events) + erased = offered
              ELSE Len(events) + dropped + erased = offered

BufferInv ==
  /\ IsSequence(events)
  /\ dropped \in Nat /\ offered \in Nat /\ erased \in Nat
  /\ pc \in [Threads -> {"outside", "push", "clear"}]
  /\ Balanced

LEMMA FlushLength ==
  ASSUME IsSequence(events)
  PROVE  LET s == Stitch([i \in 1 .. Len(events) |-> Resolved(events[i])])
         IN  IsSequence(s) /\ Len(s) = Len(events)
<1>1. \A n \in Nat : \A f : DOMAIN f = 1 .. n /\ f = [i \in 1 .. n |-> f[i]] =>
        IsSequence(f) /\ Len(f) = n
  <2> SUFFICES ASSUME NEW n \in Nat, NEW f, f = [i \in 1 .. n |-> f[i]]
               PROVE  IsSequence(f) /\ Len(f) = n
    OBVIOUS
  <2>1. f \in Seq({f[i] : i \in 1 .. n}) /\ Len(f) = n
    OBVIOUS
  <2> QED
    BY <2>1 DEF IsSequence
<1>2. IsSequence([i \in 1 .. Len(events) |-> Resolved(events[i])])
      /\ Len([i \in 1 .. Len(events) |-> Resolved(events[i])]) = Len(events)
  BY <1>1 DEF IsSequence
<1>3. ASSUME NEW s, IsSequence(s)
      PROVE  IsSequence(Stitch(s)) /\ Len(Stitch(s)) = Len(s)
  BY <1>1, <1>3 DEF IsSequence, Stitch
<1> QED
  BY <1>2, <1>3

LEMMA PushStep ==
  ASSUME BufferInv, NEW t \in Threads, Push(t)
  PROVE  BufferInv'
<1> USE DEF BufferInv
<1>1. pc[t] = "push" /\ pc' = [pc EXCEPT ![t] = "outside"] /\ offered' = offered + 1
  BY DEF Push
<1>2. Clearing' <=> Clearing
  BY <1>1 DEF Clearing
<1>3. CASE Len(events) >= hand[t].cap
  <2>1. /\ dropped' = dropped + 1 /\ erased' = (IF Clearing THEN erased + 1 ELSE erased)
        /\ UNCHANGED events
    BY <1>3 DEF Push
  <2>2. Balanced'
    BY <1>1, <1>2, <2>1 DEF Balanced, IsSequence
  <2> QED
    BY <1>1, <2>1, <2>2 DEF IsSequence
<1>4. CASE ~(Len(events) >= hand[t].cap)
  <2>1. events' = Append(events, hand[t].event) /\ UNCHANGED <<dropped, erased>>
    BY <1>4 DEF Push
  <2>2. IsSequence(events)' /\ Len(events') = Len(events) + 1
    BY <2>1, Appended DEF IsSequence
  <2>3. Balanced'
    BY <1>1, <1>2, <2>1, <2>2 DEF Balanced, IsSequence
  <2> QED
    BY <1>1, <2>1, <2>2, <2>3
<1> QED
  BY <1>3, <1>4

LEMMA BufferInvStep ==
  ASSUME BufferInv, [ProfilerNext]_profilerVars
  PROVE  BufferInv'
<1> USE DEF BufferInv
<1>1. ASSUME NEW t \in Threads, Clear(t)
      PROVE  BufferInv'
  <2>1. /\ events' = <<>> /\ offered' = 0 /\ erased' = 0 /\ UNCHANGED dropped
        /\ pc' = [pc EXCEPT ![t] = "clear"]
    BY <1>1 DEF Clear
  <2>2. Clearing'
    BY <2>1 DEF Clearing
  <2>3. IsSequence(events)' /\ Len(events)' = 0
    BY <2>1 DEF IsSequence
  <2>4. Balanced'
    BY <2>1, <2>2, <2>3 DEF Balanced
  <2> QED
    BY <2>1, <2>3, <2>4
<1>2. ASSUME NEW t \in Threads, ResetDropped(t)
      PROVE  BufferInv'
  <2>1. /\ pc[t] = "clear" /\ dropped' = 0 /\ UNCHANGED <<events, offered, erased>>
        /\ pc' = [pc EXCEPT ![t] = "outside"]
    BY <1>2 DEF ResetDropped
  <2>2. Clearing
    BY <2>1 DEF Clearing
  <2>3. Balanced'
    BY <2>1, <2>2 DEF Balanced, IsSequence
  <2> QED
    BY <2>1, <2>3 DEF IsSequence
<1>3. ASSUME NEW t \in Threads, FlushGpu(t)
      PROVE  BufferInv'
  <2>1. /\ events' = Stitch([i \in 1 .. Len(events) |-> Resolved(events[i])])
        /\ UNCHANGED <<dropped, offered, erased, pc>>
    BY <1>3 DEF FlushGpu
  <2>2. IsSequence(events)' /\ Len(events') = Len(events)
    BY <2>1, FlushLength DEF IsSequence
  <2>3. Balanced'
    BY <2>1, <2>2 DEF Balanced, Clearing
  <2> QED
    BY <2>1, <2>2, <2>3
<1>4. ASSUME NEW t \in Threads, UNCHANGED <<events, dropped, offered, erased>>,
             \/ UNCHANGED pc
             \/ pc[t] = "outside" /\ pc' = [pc EXCEPT ![t] = "push"]
      PROVE  BufferInv'
  <2>1. Clearing' <=> Clearing
    BY <1>4 DEF Clearing
  <2>2. pc' \in [Threads -> {"outside", "push", "clear"}]
    BY <1>4
  <2> QED
    BY <1>4, <2>1, <2>2 DEF Balanced, IsSequence
<1>5. ASSUME NEW t \in Threads,
             \/ PushMark(t) \/ OpenCpuSpan(t) \/ CloseCpuSpan(t) \/ OpenGpuSpan(t)
             \/ \E n \in Spans : CloseGpuSpan(t, n)
             \/ \E on \in BOOLEAN : SetEnabled(t, on)
             \/ \E n \in Capacities : SetCapacity(t, n)
      PROVE  BufferInv'
  <2>1. UNCHANGED <<events, dropped, offered, erased>>
    BY <1>5 DEF PushMark, OpenCpuSpan, CloseCpuSpan, OpenGpuSpan, CloseGpuSpan, SetEnabled,
                SetCapacity
  <2>2. \/ UNCHANGED pc
        \/ pc[t] = "outside" /\ pc' = [pc EXCEPT ![t] = "push"]
    BY <1>5 DEF PushMark, OpenCpuSpan, CloseCpuSpan, OpenGpuSpan, CloseGpuSpan, SetEnabled,
                SetCapacity, StartPush, Outside
  <2> QED
    BY <1>4, <2>1, <2>2
<1>6. CASE DeviceStep \/ UNCHANGED profilerVars
  <2>1. UNCHANGED <<events, dropped, offered, erased, pc>>
    BY <1>6 DEF DeviceStep, profilerVars
  <2> QED
    BY <2>1 DEF Balanced, Clearing, IsSequence
<1> QED
  BY <1>1, <1>2, <1>3, <1>5, <1>6, PushStep DEF ProfilerNext

LEMMA BufferInvariant == ProfilerSpec => []BufferInv
<1>1. ProfilerInit => BufferInv
  BY DEF ProfilerInit, BufferInv, Balanced, Clearing, IsSequence
<1>2. BufferInv /\ [ProfilerNext]_profilerVars => BufferInv'
  BY BufferInvStep
<1> QED
  BY <1>1, <1>2, PTL DEF ProfilerSpec

\* Every event pushed is in the buffer, counted as dropped, or was dropped while
\* a clear was between its two steps: no other event is lost without a count.
THEOREM LossAccounted == ProfilerSpec => []LostOnlyToClear
<1>1. BufferInv => LostOnlyToClear
  BY DEF BufferInv, Balanced, LostOnlyToClear
<1> QED
  BY <1>1, BufferInvariant, PTL
-----------------------------------------------------------------------------
(***************************************************************************)
(* Profiler: sums and separators.                                          *)
(***************************************************************************)
\* The entries of a buffer: a span ends no earlier than it starts.
Timed(es) == IsSequence(es) /\ \A i \in 1 .. Len(es) : Lasts(es[i]) \in Nat

\* Elapsed is what its definition says.
LEMMA ElapsedIs ==
  ASSUME NEW es, Timed(es)
  PROVE  /\ Elapsed(es) \in [0 .. Len(es) -> Nat]
         /\ \A i \in 1 .. Len(es) : Elapsed(es)[i] = Elapsed(es)[i - 1] + Lasts(es[i])
<1> DEFINE n == Len(es)
           step == [i \in 1 .. n |-> [x \in Nat |-> x + Lasts(es[i])]]
           Is(f) == f = [i \in 0 .. n |-> IF i = 0 THEN 0 ELSE f[i - 1] + Lasts(es[i])]
<1>1. n \in Nat /\ step \in [1 .. n -> [Nat -> Nat]]
  BY DEF Timed, IsSequence
<1>2. PICK f \in [0 .. n -> Nat] : f[0] = 0 /\ \A i \in 1 .. n : f[i] = step[i][f[i - 1]]
  <2> HIDE DEF n, step
  <2>1. StepsOn(step, n, Nat)
    BY <1>1 DEF StepsOn
  <2>2. PICK f : Follows(f, step, n, Nat, 0)
    BY <1>1, <2>1, Recursion
  <2> QED
    BY <2>2 DEF Follows
<1>3. Is(f)
  <2>1. ASSUME NEW i \in 0 .. n
        PROVE  f[i] = IF i = 0 THEN 0 ELSE f[i - 1] + Lasts(es[i])
    <3>1. CASE i = 0
      BY <1>2, <3>1
    <3>2. CASE i # 0
      <4>1. i \in 1 .. n /\ i - 1 \in 0 .. n /\ f[i - 1] \in Nat
        <5> HIDE DEF n, step
        <5>1. i \in 1 .. n /\ i - 1 \in 0 .. n
          BY <1>1, <3>2
        <5> QED
          BY <5>1
      <4>2. f[i] = step[i][f[i - 1]]
        BY <1>2, <4>1
      <4> QED
        BY <3>2, <4>1, <4>2
    <3> QED
      BY <3>1, <3>2
  <2> HIDE DEF n
  <2>2. f = [i \in 0 .. n |-> f[i]]
    BY <1>2
  <2> QED
    BY <2>1, <2>2
<1>4. Elapsed(es) = CHOOSE e : Is(e)
  BY DEF Elapsed
<1>5. Is(Elapsed(es))
  <2> HIDE DEF Is
  <2> QED
    BY <1>3, <1>4, Zenon
<1> HIDE DEF step
<1>6. \A i \in 0 .. n : Elapsed(es)[i] \in Nat
  <2> DEFINE Bad == {i \in 0 .. n : Elapsed(es)[i] \notin Nat}
  <2>1. ASSUME Bad # {} PROVE FALSE
    <3>1. PICK k \in Bad : \A m \in Bad : k <= m
      <4>1. Bad \in SUBSET Nat
        BY <1>1
      <4> HIDE DEF Bad
      <4> QED
        BY <2>1, <4>1, Oldest
    <3>2. Elapsed(es)[k] = IF k = 0 THEN 0 ELSE Elapsed(es)[k - 1] + Lasts(es[k])
      BY <1>5, <3>1
    <3>3. k # 0 => k \in 1 .. n /\ k - 1 \in 0 .. n /\ k - 1 \notin Bad
      BY <1>1, <3>1
    <3> QED
      BY <1>1, <3>1, <3>2, <3>3 DEF Timed
  <2> QED
    BY <2>1
<1>7. \A i \in 1 .. n : Elapsed(es)[i] = Elapsed(es)[i - 1] + Lasts(es[i])
  BY <1>1, <1>5
<1>8. Elapsed(es) = [i \in 0 .. n |-> Elapsed(es)[i]]
  BY <1>5
<1> QED
  BY <1>6, <1>7, <1>8

\* It does not go back.
LEMMA ElapsedGrows ==
  ASSUME NEW es, Timed(es), NEW i \in 0 .. Len(es), NEW j \in 0 .. Len(es), i <= j
  PROVE  Elapsed(es)[i] <= Elapsed(es)[j]
<1> DEFINE E == Elapsed(es)
           n == Len(es)
           Bad == {k \in i .. n : ~(E[i] <= E[k])}
<1>1. n \in Nat /\ E \in [0 .. n -> Nat]
      /\ \A k \in 1 .. n : Lasts(es[k]) \in Nat /\ E[k] = E[k - 1] + Lasts(es[k])
  BY ElapsedIs DEF Timed, IsSequence
<1> HIDE DEF E, n
<1>2. ASSUME Bad # {} PROVE FALSE
  <2>1. PICK k \in Bad : \A m \in Bad : k <= m
    <3>1. Bad \in SUBSET Nat
      BY <1>1 DEF n
    <3> QED
      BY <1>2, <3>1, Oldest
  <2>2. i \in 0 .. n /\ k \in i .. n /\ ~(E[i] <= E[k])
    BY <2>1 DEF n
  <2>3. k # i
    BY <1>1, <2>2
  <2>4. k \in 1 .. n /\ k - 1 \in i .. n /\ k - 1 \notin Bad
    BY <1>1, <2>1, <2>2, <2>3
  <2>5. E[i] <= E[k - 1]
    BY <2>4
  <2>6. E[k - 1] \in Nat /\ E[k] = E[k - 1] + Lasts(es[k]) /\ Lasts(es[k]) \in Nat /\ E[i] \in Nat
    BY <1>1, <2>2, <2>4
  <2> QED
    BY <2>2, <2>5, <2>6
<1>3. j \in i .. n /\ j \notin Bad
  <2>1. j \in i .. n
    BY <1>1 DEF n
  <2> HIDE DEF Bad
  <2> QED
    BY <1>2, <2>1
<1> QED
  BY <1>3 DEF E

\* What chrome_trace has written after each event: elements and commas in turn,
\* an element for each event that is not pending, and a comma due exactly after
\* an element.
WellWritten(out, es, i) ==
  /\ out.text \in Seq({"element", "comma"}) /\ out.first \in BOOLEAN
  /\ \A k \in 1 .. Len(out.text) : out.text[k] = IF k % 2 = 1 THEN "element" ELSE "comma"
  /\ (Len(out.text) + 1) \div 2 = Cardinality({k \in 1 .. i : es[k].kind # "pending"})
  /\ (out.first <=> Len(out.text) % 2 = 0)
  /\ Len(out.text) > 0 /\ out.first => es[i].kind = "pending"

LEMMA WriteOne ==
  ASSUME NEW es, NEW i \in Nat \ {0}, NEW out, WellWritten(out, es, i - 1)
  PROVE  WellWritten(WriteEvent(es[i], out), es, i)
<1> DEFINE Shown(j) == {k \in 1 .. j : es[k].kind # "pending"}
           text == out.text
           separated == IF out.first THEN text ELSE Append(text, "comma")
           new == WriteEvent(es[i], out)
<1>1. /\ text \in Seq({"element", "comma"}) /\ out.first \in BOOLEAN
      /\ \A k \in 1 .. Len(text) : text[k] = IF k % 2 = 1 THEN "element" ELSE "comma"
      /\ (Len(text) + 1) \div 2 = Cardinality(Shown(i - 1))
      /\ (out.first <=> Len(text) % 2 = 0)
      /\ Len(text) \in Nat
  <2>1. \A S : \A q \in Seq(S) : Len(q) \in Nat
    OBVIOUS
  <2> QED
    BY <2>1, Zenon DEF WellWritten
<1>2. IsFiniteSet(Shown(i - 1)) /\ Cardinality(Shown(i - 1)) \in Nat
  <2>1. IsFiniteSet(1 .. i - 1)
    BY FS_Interval
  <2>2. IsFiniteSet(Shown(i - 1))
    BY <2>1, FS_Subset
  <2> QED
    BY <2>2, FS_CardinalityType
<1> HIDE DEF text
<1>3. /\ separated \in Seq({"element", "comma"}) /\ Len(separated) \in Nat
      /\ \A k \in 1 .. Len(separated) : separated[k] = IF k % 2 = 1 THEN "element" ELSE "comma"
      /\ Len(separated) % 2 = 0
      /\ (Len(separated) + 1) \div 2 = Cardinality(Shown(i - 1))
  <2>1. CASE out.first
    BY <1>1, <2>1
  <2>2. CASE ~ out.first
    <3>1. separated = Append(text, "comma")
      BY <2>2
    <3>2. /\ separated \in Seq({"element", "comma"}) /\ Len(separated) = Len(text) + 1
          /\ separated[Len(text) + 1] = "comma" /\ \A k \in 1 .. Len(text) : separated[k] = text[k]
      BY <1>1, <3>1, AppendProperties
    <3> HIDE DEF separated
    <3>3. Len(text) % 2 = 1
      <4>1. \A k \in Nat : k % 2 = 0 \/ k % 2 = 1
        OBVIOUS
      <4> QED
        BY <1>1, <2>2, <4>1, Zenon
    <3>4. \A k \in 1 .. Len(separated) : k \in 1 .. Len(text) \/ k = Len(text) + 1
      BY <1>1, <3>2
    <3>5. \A k \in 1 .. Len(separated) : separated[k] = IF k % 2 = 1 THEN "element" ELSE "comma"
      <4> SUFFICES ASSUME NEW k \in 1 .. Len(separated)
                   PROVE  separated[k] = IF k % 2 = 1 THEN "element" ELSE "comma"
        OBVIOUS
      <4>1. CASE k \in 1 .. Len(text)
        BY <1>1, <3>2, <4>1
      <4>2. CASE k = Len(text) + 1
        BY <1>1, <3>2, <3>3, <4>2
      <4> QED
        BY <3>4, <4>1, <4>2
    <3>6. Len(separated) % 2 = 0 /\ (Len(separated) + 1) \div 2 = (Len(text) + 1) \div 2
      BY <1>1, <3>2, <3>3
    <3> QED
      BY <1>1, <3>2, <3>5, <3>6
  <2> QED
    BY <1>1, <2>1, <2>2
<1> HIDE DEF separated
<1>4. CASE es[i].kind = "pending"
  <2>1. new.text = separated /\ new.first = TRUE
    BY <1>4 DEF WriteEvent, separated, text
  <2> HIDE DEF new
  <2>2. Shown(i) = Shown(i - 1)
    BY <1>4
  <2>3. WellWritten(new, es, i)
    <3> HIDE DEF Shown
    <3> QED
      BY <1>3, <1>4, <2>1, <2>2, Zenon DEF WellWritten, Shown
  <2> QED
    BY <2>3 DEF new
<1>5. CASE es[i].kind # "pending"
  <2>1. new.text = Append(separated, "element") /\ new.first = FALSE
    BY <1>5 DEF WriteEvent, separated, text
  <2> DEFINE whole == Append(separated, "element")
  <2>2. /\ whole \in Seq({"element", "comma"}) /\ Len(whole) = Len(separated) + 1
        /\ whole[Len(separated) + 1] = "element"
        /\ \A k \in 1 .. Len(separated) : whole[k] = separated[k]
    BY <1>3, AppendProperties
  <2> HIDE DEF new, whole
  <2>3. Cardinality(Shown(i)) = Cardinality(Shown(i - 1)) + 1
    <3>1. Shown(i) = Shown(i - 1) \cup {i} /\ i \notin Shown(i - 1)
      BY <1>5
    <3> HIDE DEF Shown
    <3> QED
      BY <1>2, <3>1, FS_AddElement
  <2>4. \A k \in 1 .. Len(whole) : whole[k] = IF k % 2 = 1 THEN "element" ELSE "comma"
    <3> SUFFICES ASSUME NEW k \in 1 .. Len(whole)
                 PROVE  whole[k] = IF k % 2 = 1 THEN "element" ELSE "comma"
      OBVIOUS
    <3>1. CASE k \in 1 .. Len(separated)
      BY <1>3, <2>2, <3>1
    <3>2. CASE k = Len(separated) + 1
      BY <1>3, <2>2, <3>2
    <3> QED
      BY <1>3, <2>2, <3>1, <3>2
  <2>5. (Len(whole) + 1) \div 2 = Cardinality(Shown(i)) /\ Len(whole) % 2 = 1
    <3>1. (Len(separated) + 2) \div 2 = (Len(separated) + 1) \div 2 + 1
      BY <1>3
    <3> HIDE DEF Shown
    <3> QED
      BY <1>2, <1>3, <2>2, <2>3, <3>1
  <2>6. WellWritten(new, es, i)
    <3>1. ~(Len(whole) % 2 = 0)
      BY <2>5
    <3>2. new.text = whole
      BY <2>1 DEF whole
    <3> QED
      BY <2>1, <2>2, <2>4, <2>5, <3>1, <3>2, Zenon DEF WellWritten
  <2> QED
    BY <2>6 DEF new
<1> QED
  BY <1>4, <1>5

\* So is what it has written in the end.
LEMMA WrittenWell ==
  ASSUME NEW es, IsSequence(es)
  PROVE  \E out : ChromeTrace(es) = out.text /\ WellWritten(out, es, Len(es))
<1> DEFINE n == Len(es)
           start == [text |-> <<>>, first |-> TRUE]
           Outs == [text : Seq({"element", "comma"}), first : BOOLEAN]
           step == [i \in 1 .. n |-> [out \in Outs |-> WriteEvent(es[i], out)]]
           Is(f) == f = [i \in 0 .. n |-> IF i = 0 THEN start ELSE WriteEvent(es[i], f[i - 1])]
<1>1. n \in Nat
  BY DEF IsSequence
<1>2. \A i \in 1 .. n : \A out \in Outs : WriteEvent(es[i], out) \in Outs
  <2> SUFFICES ASSUME NEW i \in 1 .. n, NEW out \in Outs
               PROVE  WriteEvent(es[i], out) \in Outs
    OBVIOUS
  <2> DEFINE separated == IF out.first THEN out.text ELSE Append(out.text, "comma")
  <2>1. separated \in Seq({"element", "comma"})
    OBVIOUS
  <2>2. Append(separated, "element") \in Seq({"element", "comma"})
    BY <2>1
  <2>3. WriteEvent(es[i], out) = IF es[i].kind = "pending"
                                   THEN [text |-> separated, first |-> TRUE]
                                   ELSE [text |-> Append(separated, "element"), first |-> FALSE]
    BY DEF WriteEvent
  <2> HIDE DEF separated
  <2> QED
    BY <2>1, <2>2, <2>3
<1>3. start \in Outs
  BY EmptySeq
<1>4. StepsOn(step, n, Outs)
  <2> HIDE DEF Outs
  <2> QED
    BY <1>2 DEF StepsOn
<1> HIDE DEF n, Outs, start
<1>5. PICK f : Follows(f, step, n, Outs, start)
  <2> HIDE DEF step
  <2> QED
    BY <1>1, <1>3, <1>4, Recursion
<1>6. Is(f)
  <2>1. ASSUME NEW i \in 0 .. n
        PROVE  f[i] = IF i = 0 THEN start ELSE WriteEvent(es[i], f[i - 1])
    <3>1. CASE i = 0
      BY <1>5, <3>1 DEF Follows
    <3>2. CASE i # 0
      <4>1. i \in 1 .. n /\ i - 1 \in 0 .. n
        BY <1>1, <3>2
      <4>2. f[i - 1] \in Outs /\ f[i] = step[i][f[i - 1]]
        BY <1>5, <4>1 DEF Follows
      <4> QED
        BY <3>2, <4>1, <4>2
    <3> QED
      BY <3>1, <3>2
  <2>2. f = [i \in 0 .. n |-> f[i]]
    BY <1>5 DEF Follows
  <2> QED
    BY <2>1, <2>2
<1> DEFINE W == CHOOSE e : Is(e)
<1>7. ChromeTrace(es) = W[n].text
  BY DEF ChromeTrace, n, start
<1>8. Is(W)
  <2> HIDE DEF Is
  <2> QED
    BY <1>6, Zenon
<1> HIDE DEF W, step
<1>9. W[0] = start /\ \A i \in 1 .. n : W[i] = WriteEvent(es[i], W[i - 1])
  BY <1>1, <1>8
<1>10. WellWritten(W[0], es, 0)
  <2>1. {k \in 1 .. 0 : es[k].kind # "pending"} = {}
    OBVIOUS
  <2> QED
    BY <1>9, <2>1, EmptySeq, FS_EmptySet DEF WellWritten, start
<1> DEFINE Bad == {i \in 0 .. n : ~ WellWritten(W[i], es, i)}
<1>11. ASSUME Bad # {} PROVE FALSE
  <2>1. PICK k \in Bad : \A m \in Bad : k <= m
    <3>1. Bad \in SUBSET Nat
      BY <1>1
    <3> HIDE DEF Bad
    <3> QED
      BY <1>11, <3>1, Oldest
  <2>2. k \in 0 .. n /\ ~ WellWritten(W[k], es, k)
    OBVIOUS
  <2>3. k # 0
    BY <1>10, <2>2
  <2>4. k \in 1 .. n /\ k \in Nat \ {0} /\ k - 1 \in 0 .. n /\ ~(k <= k - 1)
    BY <1>1, <2>2, <2>3
  <2>5. k - 1 \notin Bad
    <3> HIDE DEF Bad
    <3> QED
      BY <2>1, <2>4
  <2>6. WellWritten(W[k - 1], es, k - 1)
    BY <2>4, <2>5
  <2> QED
    BY <1>9, <2>2, <2>4, <2>6, WriteOne
<1>12. WellWritten(W[n], es, n)
  <2>1. n \in 0 .. n
    BY <1>1
  <2> QED
    BY <1>11, <2>1
<1> QED
  BY <1>7, <1>12 DEF n
-----------------------------------------------------------------------------
\* What a thread may have in hand or open: nothing resolved, no span not opened yet.
Unresolved == {Mark, CpuSpan} \cup {Pending(n) : n \in 1 .. spans}

\* Types.
HandInv ==
  /\ enabled \in BOOLEAN /\ capacity \in Capacities /\ clears \in 0 .. MaxClears
  /\ spans \in 0 .. MaxSpans
  /\ \A t \in Threads :
       IF pc[t] = "push" THEN hand[t] \in [event : Unresolved, cap : Capacities]
                         ELSE hand[t] = Nothing
  /\ hand = [t \in Threads |-> hand[t]]
  /\ open \in [Threads -> SUBSET Unresolved]

\* The stop event of span n is still to come on the stream.
StopAhead(n) == \E i \in 1 .. Len(stream) : stream[i] = [span |-> n, at |-> "stop"]

\* A span is measured once: while it is open it has no stop event on the
\* stream, on the stream it has one, and neither a span open nor one whose stop
\* is ahead has been measured.
MeasuredOnce ==
  /\ IsSequence(stream)
  /\ \A i \in 1 .. Len(stream) : stream[i] \in [span : 1 .. spans, at : {"start", "stop"}]
  /\ measured \in [Spans -> Durations \cup {Nothing}]
  /\ \A n \in Spans : n > spans => measured[n] = Nothing
  /\ \A t \in Threads : \A n \in Spans : Pending(n) \in open[t] =>
       /\ ~ StopAhead(n) /\ measured[n] = Nothing
       /\ \A u \in Threads : Pending(n) \in open[u] => u = t
  /\ \A i \in 1 .. Len(stream) : stream[i].at = "stop" =>
       /\ measured[stream[i].span] = Nothing
       /\ \A j \in 1 .. Len(stream) : stream[j] = stream[i] => j = i

TrackInv ==
  /\ Items(events) \subseteq Entries
  /\ \A i \in 1 .. Len(events) : events[i].kind = "gpu" => measured[events[i].span] # Nothing
  /\ OneTrack

TraceInv == HandInv /\ MeasuredOnce /\ TrackInv

-----------------------------------------------------------------------------
(***************************************************************************)
(* Hands and open spans.                                                   *)
(***************************************************************************)
\* What there is to know of an entry.
LEMMA EntryKinds ==
  ASSUME NEW e \in Entries
  PROVE  /\ e.kind = "gpu" => e \in [kind : {"gpu"}, span : Spans, start : Nat, stop : Nat]
         /\ e.kind = "pending" => e.span \in Spans /\ e = Pending(e.span)
<1>1. CASE e \in {Mark, CpuSpan}
  BY <1>1 DEF Mark, CpuSpan
<1>2. CASE e \in {Pending(n) : n \in Spans}
  BY <1>2 DEF Pending
<1>3. CASE e \in [kind : {"gpu"}, span : Spans, start : Nat, stop : Nat]
  BY <1>3
<1> QED
  BY <1>1, <1>2, <1>3 DEF Entries

LEMMA UnresolvedEntries ==
  ASSUME spans \in 0 .. MaxSpans
  PROVE  Unresolved \subseteq Entries /\ \A e \in Unresolved : e.kind # "gpu"
<1>1. 1 .. spans \subseteq Spans
  BY ProfilerAssumption DEF Spans
<1>2. Unresolved \subseteq Entries
  BY <1>1, Zenon DEF Unresolved, Entries
<1>3. \A e \in Unresolved : e.kind # "gpu"
  BY DEF Unresolved, Mark, CpuSpan, Pending
<1> QED
  BY <1>2, <1>3

LEMMA PendingOnce ==
  ASSUME NEW n, NEW m, Pending(n) = Pending(m)
  PROVE  n = m
<1>1. Pending(n).span = n /\ Pending(m).span = m
  BY DEF Pending
<1> QED
  BY <1>1

\* A pending span that may be in hand or open has been opened.
LEMMA OpenedBefore ==
  ASSUME NEW n \in Spans, Pending(n) \in Unresolved
  PROVE  n \in 1 .. spans
<1>1. Pending(n) # Mark /\ Pending(n) # CpuSpan
  <2>1. Pending(n).kind = "pending" /\ Mark.kind = "mark" /\ CpuSpan.kind = "cpu"
    BY DEF Pending, Mark, CpuSpan
  <2> QED
    BY <2>1
<1>2. PICK m \in 1 .. spans : Pending(n) = Pending(m)
  BY <1>1 DEF Unresolved
<1> QED
  BY <1>2, PendingOnce

\* A thread takes an event in hand.
LEMMA TakeInHand ==
  ASSUME BufferInv, HandInv, NEW t \in Threads, NEW e \in Unresolved, StartPush(t, e)
  PROVE  /\ \A u \in Threads :
              IF pc'[u] = "push" THEN hand'[u] \in [event : Unresolved, cap : Capacities]
                                 ELSE hand'[u] = Nothing
         /\ hand' = [u \in Threads |-> hand'[u]]
<1>1. /\ hand' = [hand EXCEPT ![t] = [event |-> e, cap |-> capacity]]
      /\ pc' = [pc EXCEPT ![t] = "push"] /\ pc \in [Threads -> {"outside", "push", "clear"}]
      /\ hand = [u \in Threads |-> hand[u]] /\ capacity \in Capacities
  BY DEF StartPush, BufferInv, HandInv
<1>2. hand'[t] = [event |-> e, cap |-> capacity] /\ pc'[t] = "push"
  BY <1>1
<1>3. \A u \in Threads \ {t} : hand'[u] = hand[u] /\ pc'[u] = pc[u]
  BY <1>1
<1>4. [event |-> e, cap |-> capacity] \in [event : Unresolved, cap : Capacities]
  BY <1>1
<1>5. hand' = [u \in Threads |-> hand'[u]]
  BY <1>1
<1> QED
  BY <1>2, <1>3, <1>4, <1>5 DEF HandInv

LEMMA HandInvStep ==
  ASSUME BufferInv, HandInv, [ProfilerNext]_profilerVars
  PROVE  HandInv'
<1> DEFINE Held == \A u \in Threads :
              IF pc[u] = "push" THEN hand[u] \in [event : Unresolved, cap : Capacities]
                                ELSE hand[u] = Nothing
           Whole == hand = [u \in Threads |-> hand[u]]
<1>1. /\ enabled \in BOOLEAN /\ capacity \in Capacities /\ clears \in 0 .. MaxClears
      /\ spans \in 0 .. MaxSpans /\ Held /\ Whole
      /\ open \in [Threads -> SUBSET Unresolved]
      /\ pc \in [Threads -> {"outside", "push", "clear"}]
  BY DEF HandInv, BufferInv
<1>2. ASSUME UNCHANGED spans
      PROVE  Unresolved' = Unresolved
  BY <1>2 DEF Unresolved
<1>3. ASSUME NEW t \in Threads, Push(t)
      PROVE  HandInv'
  <2>1. /\ pc' = [pc EXCEPT ![t] = "outside"] /\ hand' = [hand EXCEPT ![t] = Nothing]
        /\ UNCHANGED <<enabled, capacity, clears, spans, open>>
    BY <1>3 DEF Push
  <2>2. pc'[t] = "outside" /\ hand'[t] = Nothing
    BY <1>1, <2>1
  <2>3. \A u \in Threads \ {t} : hand'[u] = hand[u] /\ pc'[u] = pc[u]
    BY <1>1, <2>1
  <2>4. Held' /\ Whole'
    BY <1>1, <1>2, <2>1, <2>2, <2>3
  <2> QED
    BY <1>1, <1>2, <2>1, <2>4 DEF HandInv
<1>4. ASSUME NEW t \in Threads, PushMark(t) \/ CloseCpuSpan(t)
      PROVE  HandInv'
  <2>1. PICK e \in Unresolved : StartPush(t, e)
    BY <1>4 DEF PushMark, CloseCpuSpan, Unresolved
  <2>2. UNCHANGED <<enabled, capacity, clears, spans>>
    BY <1>4 DEF PushMark, CloseCpuSpan
  <2>3. Held' /\ Whole'
    BY <1>2, <2>1, <2>2, TakeInHand
  <2>4. open' \in [Threads -> SUBSET Unresolved]
    BY <1>1, <1>4 DEF PushMark, CloseCpuSpan
  <2> QED
    BY <1>1, <1>2, <2>2, <2>3, <2>4 DEF HandInv
<1>5. ASSUME NEW t \in Threads, OpenCpuSpan(t)
      PROVE  HandInv'
  <2>1. /\ UNCHANGED <<enabled, capacity, clears, spans, pc, hand>>
        /\ open' = [open EXCEPT ![t] = open[t] \cup {CpuSpan}]
    BY <1>5 DEF OpenCpuSpan
  <2>2. CpuSpan \in Unresolved
    BY DEF Unresolved
  <2>3. open' \in [Threads -> SUBSET Unresolved]
    BY <1>1, <2>1, <2>2
  <2>4. Held' /\ Whole'
    BY <1>1, <1>2, <2>1
  <2> QED
    BY <1>1, <1>2, <2>1, <2>3, <2>4 DEF HandInv
<1>6. ASSUME NEW t \in Threads, OpenGpuSpan(t)
      PROVE  HandInv'
  <2>1. /\ UNCHANGED <<enabled, capacity, clears, pc, hand>>
        /\ spans' = spans + 1 /\ spans < MaxSpans
        /\ open' \in {open, [open EXCEPT ![t] = open[t] \cup {Pending(spans + 1)}]}
    BY <1>6 DEF OpenGpuSpan
  <2>2. spans' \in 0 .. MaxSpans
    BY <1>1, <2>1, ProfilerAssumption
  <2>3. Unresolved \subseteq Unresolved' /\ Pending(spans + 1) \in Unresolved'
    <3>1. 1 .. spans \subseteq 1 .. spans' /\ spans + 1 \in 1 .. spans'
      BY <1>1, <2>1, ProfilerAssumption
    <3> QED
      BY <3>1, Zenon DEF Unresolved
  <2>4. open' \in [Threads -> SUBSET Unresolved']
    <3>1. open \in [Threads -> SUBSET Unresolved']
      BY <1>1, <2>3
    <3>2. [open EXCEPT ![t] = open[t] \cup {Pending(spans + 1)}] \in [Threads -> SUBSET Unresolved']
      BY <2>3, <3>1
    <3> QED
      BY <2>1, <3>1, <3>2
  <2>5. Held' /\ Whole'
    BY <1>1, <2>1, <2>3
  <2> QED
    BY <1>1, <2>1, <2>2, <2>4, <2>5 DEF HandInv
<1>7. ASSUME NEW t \in Threads, NEW n \in Spans, CloseGpuSpan(t, n)
      PROVE  HandInv'
  <2>1. /\ UNCHANGED <<enabled, capacity, clears, spans>> /\ Pending(n) \in open[t]
        /\ open' = [open EXCEPT ![t] = open[t] \ {Pending(n)}]
        /\ StartPush(t, Pending(n)) \/ UNCHANGED <<pc, hand>>
    BY <1>7 DEF CloseGpuSpan
  <2>2. Pending(n) \in Unresolved
    BY <1>1, <2>1
  <2>3. open' \in [Threads -> SUBSET Unresolved]
    BY <1>1, <2>1
  <2>4. Held' /\ Whole'
    <3>1. CASE StartPush(t, Pending(n))
      BY <1>2, <2>1, <2>2, <3>1, TakeInHand
    <3>2. CASE UNCHANGED <<pc, hand>>
      BY <1>1, <1>2, <2>1, <3>2
    <3> QED
      BY <2>1, <3>1, <3>2
  <2> QED
    BY <1>1, <1>2, <2>1, <2>3, <2>4 DEF HandInv
<1>8. ASSUME NEW t \in Threads, Clear(t) \/ ResetDropped(t)
      PROVE  HandInv'
  <2>1. /\ UNCHANGED <<enabled, capacity, hand, open, spans>>
        /\ \/ pc[t] = "outside" /\ pc' = [pc EXCEPT ![t] = "clear"]
           \/ pc[t] = "clear" /\ pc' = [pc EXCEPT ![t] = "outside"]
        /\ clears' \in 0 .. MaxClears
    BY <1>1, <1>8, ProfilerAssumption DEF Clear, ResetDropped, Outside
  <2>2. \A u \in Threads : pc'[u] = "push" <=> pc[u] = "push"
    BY <1>1, <2>1
  <2>3. Held' /\ Whole'
    BY <1>1, <1>2, <2>1, <2>2
  <2> QED
    BY <1>1, <1>2, <2>1, <2>3 DEF HandInv
<1>9. ASSUME \/ \E t \in Threads : FlushGpu(t) \/ (\E on \in BOOLEAN : SetEnabled(t, on))
                                   \/ \E n \in Capacities : SetCapacity(t, n)
             \/ DeviceStep \/ UNCHANGED profilerVars
      PROVE  HandInv'
  <2>1. UNCHANGED <<pc, hand, open, spans, clears>>
    BY <1>9 DEF FlushGpu, SetEnabled, SetCapacity, DeviceStep, profilerVars
  <2>2. enabled' \in BOOLEAN /\ capacity' \in Capacities
    BY <1>1, <1>9 DEF FlushGpu, SetEnabled, SetCapacity, DeviceStep, profilerVars
  <2>3. Held' /\ Whole'
    BY <1>1, <1>2, <2>1
  <2> QED
    BY <1>1, <1>2, <2>1, <2>2, <2>3 DEF HandInv
<1> QED
  BY <1>3, <1>4, <1>5, <1>6, <1>7, <1>8, <1>9 DEF ProfilerNext
-----------------------------------------------------------------------------
(***************************************************************************)
(* The stream and what is measured.                                        *)
(***************************************************************************)
\* One more timing event of span n, which is opened and has no such event yet.
LEMMA StreamGrows ==
  ASSUME NEW q, IsSequence(q), NEW x,
         \A i \in 1 .. Len(q) : q[i] # x
  PROVE  LET r == Append(q, x) IN
         /\ IsSequence(r)
         /\ \A i \in 1 .. Len(r) : \/ i \in 1 .. Len(q) /\ r[i] = q[i]
                                   \/ i = Len(q) + 1 /\ r[i] = x
         /\ \A i \in 1 .. Len(q) : i \in 1 .. Len(r)
<1> DEFINE r == Append(q, x)
<1>1. /\ IsSequence(r) /\ Len(r) = Len(q) + 1 /\ r[Len(q) + 1] = x
      /\ \A i \in 1 .. Len(q) : r[i] = q[i]
  BY Appended
<1> HIDE DEF r
<1>2. Len(q) \in Nat
  BY DEF IsSequence
<1>3. \A i \in 1 .. Len(r) : i \in 1 .. Len(q) \/ i = Len(q) + 1
  BY <1>1, <1>2
<1>4. \A i \in 1 .. Len(q) : i \in 1 .. Len(r)
  BY <1>1, <1>2
<1>5. \A i \in 1 .. Len(r) :
        (i \in 1 .. Len(q) /\ r[i] = q[i]) \/ (i = Len(q) + 1 /\ r[i] = x)
  <2> SUFFICES ASSUME NEW i \in 1 .. Len(r)
               PROVE  (i \in 1 .. Len(q) /\ r[i] = q[i]) \/ (i = Len(q) + 1 /\ r[i] = x)
    OBVIOUS
  <2>1. CASE i \in 1 .. Len(q)
    <3>1. r[i] = q[i]
      BY <1>1, <2>1
    <3> QED
      BY <2>1, <3>1
  <2>2. CASE i = Len(q) + 1
    BY <1>1, <2>2
  <2> QED
    BY <1>3, <2>1, <2>2
<1> QED
  BY <1>1, <1>4, <1>5 DEF r

LEMMA OpenGpuMeasured ==
  ASSUME HandInv, MeasuredOnce, NEW t \in Threads, OpenGpuSpan(t)
  PROVE  MeasuredOnce'
<1> DEFINE n == spans + 1
           x == [span |-> n, at |-> "start"]
<1>1. spans' = n /\ n \in Spans /\ spans \in Nat /\ 1 .. spans \subseteq 1 .. n /\ n \in 1 .. n
      /\ UNCHANGED measured /\ n \notin 1 .. spans
  BY ProfilerAssumption DEF OpenGpuSpan, HandInv, Spans
<1>2. \/ UNCHANGED <<stream, open>>
      \/ stream' = Append(stream, x) /\ open' = [open EXCEPT ![t] = open[t] \cup {Pending(n)}]
  BY DEF OpenGpuSpan
<1>3. open \in [Threads -> SUBSET Unresolved]
  BY DEF HandInv
<1> HIDE DEF n
<1>4. \A m \in Spans : \A u \in Threads : Pending(m) \in open[u] => m \in 1 .. spans
  BY <1>3, OpenedBefore
<1>5. \A i \in 1 .. Len(stream) : stream[i].span # n
  BY <1>1 DEF MeasuredOnce
<1>6. \A m \in Spans : m > n => measured[m] = Nothing
  BY <1>1 DEF MeasuredOnce, n
<1>7. CASE UNCHANGED <<stream, open>>
  <2>1. \A i \in 1 .. Len(stream) : stream[i] \in [span : 1 .. n, at : {"start", "stop"}]
    BY <1>1 DEF MeasuredOnce
  <2>2. \A m \in Spans : StopAhead(m)' <=> StopAhead(m)
    BY <1>7 DEF StopAhead
  <2> QED
    BY <1>1, <1>6, <1>7, <2>1, <2>2 DEF MeasuredOnce
<1>8. CASE stream' = Append(stream, x) /\ open' = [open EXCEPT ![t] = open[t] \cup {Pending(n)}]
  <2>1. \A i \in 1 .. Len(stream) : stream[i] # x
    BY <1>5
  <2>2. /\ IsSequence(stream')
        /\ \A i \in 1 .. Len(stream') : \/ i \in 1 .. Len(stream) /\ stream'[i] = stream[i]
                                        \/ i = Len(stream) + 1 /\ stream'[i] = x
        /\ \A i \in 1 .. Len(stream) : i \in 1 .. Len(stream')
    BY <1>8, <2>1, StreamGrows DEF MeasuredOnce
  <2>3. \A i \in 1 .. Len(stream') : stream'[i] \in [span : 1 .. n, at : {"start", "stop"}]
    BY <1>1, <2>2 DEF MeasuredOnce
  <2>4. \A i \in 1 .. Len(stream') :
          stream'[i].at = "stop" => i \in 1 .. Len(stream) /\ stream'[i] = stream[i]
    BY <2>2
  <2>5. \A m \in Spans : StopAhead(m)' => StopAhead(m)
    BY <2>4 DEF StopAhead
  <2>6. ~ StopAhead(n) /\ measured[n] = Nothing
    BY <1>1, <1>5 DEF StopAhead, MeasuredOnce, n
  <2>7. ASSUME NEW u \in Threads, NEW m \in Spans, Pending(m) \in open'[u]
        PROVE  Pending(m) \in open[u] \/ (m = n /\ u = t)
    <3>1. CASE u = t
      <4>1. open'[t] = open[t] \cup {Pending(n)}
        BY <1>3, <1>8
      <4> QED
        BY <2>7, <3>1, <4>1, PendingOnce
    <3>2. CASE u # t
      <4>1. open'[u] = open[u]
        BY <1>3, <1>8, <3>2
      <4> QED
        BY <2>7, <4>1
    <3> QED
      BY <3>1, <3>2
  <2>8. \A u \in Threads : Pending(n) \notin open[u]
    BY <1>1, <1>4
  <2>9. \A u \in Threads : \A m \in Spans : Pending(m) \in open'[u] =>
          /\ ~ StopAhead(m)' /\ measured'[m] = Nothing
          /\ \A v \in Threads : Pending(m) \in open'[v] => v = u
    <3> SUFFICES ASSUME NEW u \in Threads, NEW m \in Spans, Pending(m) \in open'[u]
                 PROVE  /\ ~ StopAhead(m)' /\ measured'[m] = Nothing
                        /\ \A v \in Threads : Pending(m) \in open'[v] => v = u
      BY Zenon
    <3>1. CASE m = n
      BY <1>1, <2>5, <2>6, <2>7, <2>8, <3>1
    <3>2. CASE m # n
      <4>1. Pending(m) \in open[u] /\ \A v \in Threads : Pending(m) \in open'[v] => Pending(m) \in open[v]
        BY <2>7, <3>2
      <4>2. /\ ~ StopAhead(m) /\ measured[m] = Nothing
            /\ \A v \in Threads : Pending(m) \in open[v] => v = u
        BY <4>1 DEF MeasuredOnce
      <4> QED
        BY <1>1, <2>5, <4>1, <4>2
    <3> QED
      BY <3>1, <3>2
  <2>10. \A i \in 1 .. Len(stream') : stream'[i].at = "stop" =>
           /\ measured'[stream'[i].span] = Nothing
           /\ \A j \in 1 .. Len(stream') : stream'[j] = stream'[i] => j = i
    <3> SUFFICES ASSUME NEW i \in 1 .. Len(stream'), stream'[i].at = "stop"
                 PROVE  /\ measured'[stream'[i].span] = Nothing
                        /\ \A j \in 1 .. Len(stream') : stream'[j] = stream'[i] => j = i
      BY Zenon
    <3>1. i \in 1 .. Len(stream) /\ stream'[i] = stream[i]
      BY <2>4
    <3>2. \A j \in 1 .. Len(stream') : stream'[j] = stream'[i] =>
            j \in 1 .. Len(stream) /\ stream[j] = stream[i]
      BY <2>4, <3>1
    <3> QED
      BY <1>1, <3>1, <3>2 DEF MeasuredOnce
  <2>11. measured' \in [Spans -> Durations \cup {Nothing}]
         /\ \A m \in Spans : m > spans' => measured'[m] = Nothing
    BY <1>1, <1>6 DEF MeasuredOnce
  <2> QED
    BY <1>1, <2>2, <2>3, <2>9, <2>10, <2>11 DEF MeasuredOnce
<1> QED
  BY <1>2, <1>7, <1>8

LEMMA CloseGpuMeasured ==
  ASSUME HandInv, MeasuredOnce, NEW t \in Threads, NEW n \in Spans, CloseGpuSpan(t, n)
  PROVE  MeasuredOnce'
<1> DEFINE x == [span |-> n, at |-> "stop"]
<1>1. /\ UNCHANGED <<spans, measured>> /\ Pending(n) \in open[t]
      /\ open' = [open EXCEPT ![t] = open[t] \ {Pending(n)}]
      /\ stream' = Append(stream, x) \/ UNCHANGED stream
      /\ open \in [Threads -> SUBSET Unresolved]
  BY DEF CloseGpuSpan, HandInv
<1>2. n \in 1 .. spans
  BY <1>1, OpenedBefore
<1>3. /\ ~ StopAhead(n) /\ measured[n] = Nothing
      /\ \A u \in Threads : Pending(n) \in open[u] => u = t
  BY <1>1 DEF MeasuredOnce
<1>4. \A u \in Threads : \A m \in Spans :
        Pending(m) \in open'[u] => Pending(m) \in open[u] /\ m # n
  <2> SUFFICES ASSUME NEW u \in Threads, NEW m \in Spans, Pending(m) \in open'[u]
               PROVE  Pending(m) \in open[u] /\ m # n
    OBVIOUS
  <2>1. CASE u = t
    BY <1>1, <2>1
  <2>2. CASE u # t
    BY <1>1, <1>3, <2>2
  <2> QED
    BY <2>1, <2>2
<1>5. CASE UNCHANGED stream
  <2>1. \A m \in Spans : StopAhead(m)' <=> StopAhead(m)
    BY <1>5 DEF StopAhead
  <2> QED
    BY <1>1, <1>4, <1>5, <2>1 DEF MeasuredOnce
<1>6. CASE stream' = Append(stream, x)
  <2>1. \A i \in 1 .. Len(stream) : stream[i] # x
    BY <1>3 DEF StopAhead
  <2>2. /\ IsSequence(stream')
        /\ \A i \in 1 .. Len(stream') : \/ i \in 1 .. Len(stream) /\ stream'[i] = stream[i]
                                        \/ i = Len(stream) + 1 /\ stream'[i] = x
        /\ \A i \in 1 .. Len(stream) : i \in 1 .. Len(stream')
    BY <1>6, <2>1, StreamGrows DEF MeasuredOnce
  <2>3. \A i \in 1 .. Len(stream') : stream'[i] \in [span : 1 .. spans, at : {"start", "stop"}]
    BY <1>2, <2>2 DEF MeasuredOnce
  <2>4. \A m \in Spans : m # n /\ StopAhead(m)' => StopAhead(m)
    BY <2>2 DEF StopAhead
  <2>5. \A u \in Threads : \A m \in Spans : Pending(m) \in open'[u] =>
          /\ ~ StopAhead(m)' /\ measured'[m] = Nothing
          /\ \A v \in Threads : Pending(m) \in open'[v] => v = u
    BY <1>1, <1>4, <2>4 DEF MeasuredOnce
  <2>6. \A i \in 1 .. Len(stream') : stream'[i].at = "stop" =>
          /\ measured'[stream'[i].span] = Nothing
          /\ \A j \in 1 .. Len(stream') : stream'[j] = stream'[i] => j = i
    <3> SUFFICES ASSUME NEW i \in 1 .. Len(stream'), stream'[i].at = "stop"
                 PROVE  /\ measured'[stream'[i].span] = Nothing
                        /\ \A j \in 1 .. Len(stream') : stream'[j] = stream'[i] => j = i
      BY Zenon
    <3>1. CASE i \in 1 .. Len(stream) /\ stream'[i] = stream[i]
      <4>1. \A j \in 1 .. Len(stream') : stream'[j] = stream'[i] =>
              j \in 1 .. Len(stream) /\ stream[j] = stream[i]
        BY <2>1, <2>2, <3>1
      <4> QED
        BY <1>1, <3>1, <4>1 DEF MeasuredOnce
    <3>2. CASE i = Len(stream) + 1 /\ stream'[i] = x
      BY <1>1, <1>3, <2>1, <2>2, <3>2
    <3> QED
      BY <2>2, <3>1, <3>2
  <2> QED
    BY <1>1, <2>2, <2>3, <2>5, <2>6 DEF MeasuredOnce
<1> QED
  BY <1>1, <1>5, <1>6

\* What the device measures was not measured before.
LEMMA DeviceMeasures ==
  ASSUME MeasuredOnce, HandInv, DeviceStep
  PROVE  /\ MeasuredOnce'
         /\ \A n \in Spans : measured[n] # Nothing => measured'[n] = measured[n]
<1> DEFINE e == stream[1]
<1>1. /\ Len(stream) \in Nat \ {0} /\ Head(stream) = e
      /\ IsSequence(Tail(stream)) /\ Len(Tail(stream)) = Len(stream) - 1
      /\ \A i \in 1 .. Len(stream) - 1 : Tail(stream)[i] = stream[i + 1]
  BY HeadTail DEF MeasuredOnce, DeviceStep
<1>2. stream' = Tail(stream) /\ UNCHANGED <<open, spans>>
  BY DEF DeviceStep
<1>3. IF e.at = "stop" THEN \E d \in Durations : measured' = [measured EXCEPT ![e.span] = d]
                       ELSE UNCHANGED measured
  BY <1>1 DEF DeviceStep
<1>4. /\ IsSequence(stream')
      /\ \A i \in 1 .. Len(stream') : i + 1 \in 1 .. Len(stream) /\ stream'[i] = stream[i + 1]
                                      /\ i + 1 # 1
  BY <1>1, <1>2
<1>5. 1 \in 1 .. Len(stream) /\ e \in [span : 1 .. spans, at : {"start", "stop"}]
  BY <1>1 DEF MeasuredOnce
<1>6. 1 .. spans \subseteq Spans
  BY ProfilerAssumption DEF HandInv, Spans
<1> HIDE DEF e
<1>7. e.at = "stop" => e = [span |-> e.span, at |-> "stop"]
  BY <1>5
<1>8. \A n \in Spans : measured'[n] = measured[n] \/ (e.at = "stop" /\ n = e.span)
  <2>1. CASE e.at = "stop"
    <3>1. PICK d \in Durations : measured' = [measured EXCEPT ![e.span] = d]
      BY <1>3, <2>1
    <3>2. measured \in [Spans -> Durations \cup {Nothing}]
      BY DEF MeasuredOnce
    <3>3. \A n \in Spans : n # e.span => measured'[n] = measured[n]
      BY <3>1, <3>2
    <3> QED
      BY <2>1, <3>3
  <2>2. CASE e.at # "stop"
    BY <1>3, <2>2, Zenon
  <2> QED
    BY <2>1, <2>2
<1>9. measured' \in [Spans -> Durations \cup {Nothing}]
  BY <1>3, <1>5, <1>6 DEF MeasuredOnce
<1>10. e.at = "stop" => /\ measured[e.span] = Nothing
                        /\ \A j \in 1 .. Len(stream) : stream[j] = e => j = 1
  BY <1>5 DEF MeasuredOnce, e
<1>11. \A m \in Spans : StopAhead(m)' => StopAhead(m)
  BY <1>4 DEF StopAhead
<1>12. \A m \in Spans : e.at = "stop" /\ m = e.span => StopAhead(m)
  BY <1>5, <1>7 DEF StopAhead, e
<1>13. \A m \in Spans : m > spans' => measured'[m] = Nothing
  <2> SUFFICES ASSUME NEW m \in Spans, m > spans
               PROVE  measured'[m] = Nothing
    BY <1>2
  <2>1. measured[m] = Nothing
    BY DEF MeasuredOnce
  <2>2. m # e.span
    <3>1. e.span \in 1 .. spans /\ spans \in Nat /\ m \in Nat
      BY <1>5 DEF HandInv, Spans
    <3> QED
      BY <3>1
  <2> QED
    BY <1>8, <2>1, <2>2
<1>14. \A u \in Threads : \A m \in Spans : Pending(m) \in open'[u] =>
          /\ ~ StopAhead(m)' /\ measured'[m] = Nothing
          /\ \A v \in Threads : Pending(m) \in open'[v] => v = u
  BY <1>2, <1>8, <1>11, <1>12 DEF MeasuredOnce
<1>15. \A i \in 1 .. Len(stream') : stream'[i].at = "stop" =>
         /\ measured'[stream'[i].span] = Nothing
         /\ \A j \in 1 .. Len(stream') : stream'[j] = stream'[i] => j = i
  <2> SUFFICES ASSUME NEW i \in 1 .. Len(stream'), stream'[i].at = "stop"
               PROVE  /\ measured'[stream'[i].span] = Nothing
                      /\ \A j \in 1 .. Len(stream') : stream'[j] = stream'[i] => j = i
    BY Zenon
  <2>1. i + 1 \in 1 .. Len(stream) /\ stream'[i] = stream[i + 1] /\ i + 1 # 1
    BY <1>4
  <2>2. stream[i + 1] \in [span : 1 .. spans, at : {"start", "stop"}]
        /\ measured[stream[i + 1].span] = Nothing
        /\ \A j \in 1 .. Len(stream) : stream[j] = stream[i + 1] => j = i + 1
    BY <2>1 DEF MeasuredOnce
  <2>3. stream[i + 1].span \in Spans /\ stream[i + 1] # e
    BY <1>5, <1>6, <2>1, <2>2 DEF e
  <2>4. ~(e.at = "stop" /\ stream[i + 1].span = e.span)
    BY <1>7, <2>1, <2>2, <2>3
  <2>5. measured'[stream'[i].span] = Nothing
    BY <1>8, <2>1, <2>2, <2>3, <2>4
  <2>6. ASSUME NEW j \in 1 .. Len(stream'), stream'[j] = stream'[i]
        PROVE  j = i
    <3>1. j + 1 = i + 1
      BY <1>4, <2>1, <2>2, <2>6
    <3> QED
      BY <1>1, <1>2, <3>1
  <2> QED
    BY <2>5, <2>6
<1>16. \A i \in 1 .. Len(stream') : stream'[i] \in [span : 1 .. spans', at : {"start", "stop"}]
  BY <1>2, <1>4 DEF MeasuredOnce
<1>17. MeasuredOnce'
  BY <1>2, <1>4, <1>9, <1>13, <1>14, <1>15, <1>16 DEF MeasuredOnce
<1>18. \A n \in Spans : measured[n] # Nothing => measured'[n] = measured[n]
  BY <1>8, <1>10
<1> QED
  BY <1>17, <1>18

LEMMA MeasuredStep ==
  ASSUME HandInv, MeasuredOnce, [ProfilerNext]_profilerVars
  PROVE  MeasuredOnce'
<1>1. ASSUME UNCHANGED <<spans, stream, measured>>,
             \A u \in Threads : \A m \in Spans : Pending(m) \in open'[u] => Pending(m) \in open[u]
      PROVE  MeasuredOnce'
  <2>1. \A m \in Spans : StopAhead(m)' <=> StopAhead(m)
    BY <1>1 DEF StopAhead
  <2> QED
    BY <1>1, <2>1 DEF MeasuredOnce
<1>2. ASSUME NEW t \in Threads, OpenCpuSpan(t) \/ CloseCpuSpan(t)
      PROVE  MeasuredOnce'
  <2>1. /\ UNCHANGED <<spans, stream, measured>>
        /\ open' \in {[open EXCEPT ![t] = open[t] \cup {CpuSpan}],
                      [open EXCEPT ![t] = open[t] \ {CpuSpan}]}
    BY <1>2 DEF OpenCpuSpan, CloseCpuSpan
  <2>2. \A m \in Spans : Pending(m) # CpuSpan
    <3>1. \A m \in Spans : Pending(m).kind = "pending" /\ CpuSpan.kind = "cpu"
      BY DEF Pending, CpuSpan
    <3> QED
      BY <3>1
  <2>3. open \in [Threads -> SUBSET Unresolved]
    BY DEF HandInv
  <2> QED
    BY <1>1, <2>1, <2>2, <2>3
<1>3. ASSUME \/ \E t \in Threads : \/ PushMark(t) \/ Push(t) \/ FlushGpu(t) \/ Clear(t)
                                   \/ ResetDropped(t)
                                   \/ \E on \in BOOLEAN : SetEnabled(t, on)
                                   \/ \E n \in Capacities : SetCapacity(t, n)
             \/ UNCHANGED profilerVars
      PROVE  MeasuredOnce'
  <2>1. UNCHANGED <<spans, stream, measured, open>>
    BY <1>3 DEF PushMark, Push, FlushGpu, Clear, ResetDropped, SetEnabled, SetCapacity,
                profilerVars
  <2> QED
    BY <1>1, <2>1
<1> QED
  BY <1>2, <1>3, OpenGpuMeasured, CloseGpuMeasured, DeviceMeasures DEF ProfilerNext
-----------------------------------------------------------------------------
(***************************************************************************)
(* The buffer.                                                             *)
(***************************************************************************)
\* What the entries of a buffer are before they are stitched: as long as the
\* device measured.
Measured(es) ==
  \A i \in 1 .. Len(es) : es[i].kind = "gpu" =>
    measured[es[i].span] # Nothing /\ es[i].stop - es[i].start = measured[es[i].span]

LEMMA TrackMeasured ==
  ASSUME TrackInv
  PROVE  Measured(events)
BY DEF TrackInv, OneTrack, Measured

LEMMA ResolvedEntry ==
  ASSUME NEW e \in Entries, measured \in [Spans -> Durations \cup {Nothing}],
         e.kind = "gpu" => /\ measured[e.span] # Nothing
                           /\ e.stop - e.start = measured[e.span]
  PROVE  /\ Resolved(e) \in Entries
         /\ Resolved(e).kind = "gpu" =>
              /\ measured[Resolved(e).span] # Nothing
              /\ Resolved(e).stop - Resolved(e).start = measured[Resolved(e).span]
         /\ Lasts(Resolved(e)) \in Nat
<1>1. Durations \subseteq Nat
  BY ProfilerAssumption
<1>2. CASE e.kind = "pending" /\ measured[e.span] # Nothing
  <2>1. e.span \in Spans /\ measured[e.span] \in Nat
    BY <1>1, <1>2, EntryKinds
  <2>2. Resolved(e) = Gpu(e.span, 0, measured[e.span])
    BY <1>2 DEF Resolved
  <2> DEFINE g == Gpu(e.span, 0, measured[e.span])
  <2>3. g \in [kind : {"gpu"}, span : Spans, start : Nat, stop : Nat]
    BY <2>1 DEF Gpu
  <2>4. g.kind = "gpu" /\ g.span = e.span /\ g.start = 0 /\ g.stop = measured[e.span]
    BY DEF Gpu
  <2> HIDE DEF g
  <2>5. g \in Entries
    BY <2>3 DEF Entries
  <2>6. g.stop - g.start = measured[g.span] /\ Lasts(g) \in Nat
    BY <2>1, <2>4 DEF Lasts
  <2>7. Resolved(e) = g
    BY <2>2 DEF g
  <2> QED
    BY <1>2, <2>4, <2>5, <2>6, <2>7
<1>3. CASE ~(e.kind = "pending" /\ measured[e.span] # Nothing)
  <2>1. Resolved(e) = e
    BY <1>3 DEF Resolved
  <2>2. Lasts(e) \in Nat
    <3>1. CASE e.kind = "gpu"
      <4>1. e.span \in Spans
        BY <3>1, EntryKinds
      <4>2. measured[e.span] \in Nat
        BY <1>1, <3>1, <4>1
      <4> QED
        BY <3>1, <4>2 DEF Lasts
    <3>2. CASE e.kind # "gpu"
      BY <3>2 DEF Lasts
    <3> QED
      BY <3>1, <3>2
  <2> QED
    BY <2>1, <2>2
<1> QED
  BY <1>2, <1>3

\* One pass over the buffer resolves it, the other lays its spans end to end.
LEMMA FlushStep ==
  ASSUME BufferInv, TrackInv, measured \in [Spans -> Durations \cup {Nothing}],
         NEW t \in Threads, FlushGpu(t)
  PROVE  TrackInv'
<1> DEFINE r == [i \in 1 .. Len(events) |-> Resolved(events[i])]
           E == Elapsed(r)
           n == Len(events)
<1>1. n \in Nat /\ \A i \in 1 .. n : events[i] \in Entries
  BY DEF BufferInv, IsSequence, TrackInv, Items
<1>2. events' = Stitch(r) /\ UNCHANGED measured
  BY DEF FlushGpu
<1>3. \A i \in 1 .. n :
        /\ r[i] \in Entries /\ Lasts(r[i]) \in Nat
        /\ r[i].kind = "gpu" =>
             measured[r[i].span] # Nothing /\ r[i].stop - r[i].start = measured[r[i].span]
  <2> SUFFICES ASSUME NEW i \in 1 .. n
               PROVE  /\ r[i] \in Entries /\ Lasts(r[i]) \in Nat
                      /\ r[i].kind = "gpu" => /\ measured[r[i].span] # Nothing
                                              /\ r[i].stop - r[i].start = measured[r[i].span]
    BY Zenon
  <2>1. r[i] = Resolved(events[i])
    OBVIOUS
  <2>2. events[i].kind = "gpu" =>
          /\ measured[events[i].span] # Nothing
          /\ events[i].stop - events[i].start = measured[events[i].span]
    BY TrackMeasured DEF Measured
  <2> HIDE DEF r
  <2> QED
    BY <1>1, <2>1, <2>2, ResolvedEntry
<1>4. IsSequence(r) /\ Len(r) = n
  <2>1. r \in Seq({r[i] : i \in 1 .. n}) /\ Len(r) = n
    BY <1>1
  <2> HIDE DEF r
  <2> QED
    BY <2>1 DEF IsSequence
<1> HIDE DEF r
<1>5. Timed(r)
  BY <1>3, <1>4 DEF Timed
<1>6. /\ E \in [0 .. n -> Nat]
      /\ \A i \in 1 .. n : E[i] = E[i - 1] + Lasts(r[i])
      /\ \A i, j \in 0 .. n : i <= j => E[i] <= E[j]
  BY <1>4, <1>5, ElapsedIs, ElapsedGrows
<1> HIDE DEF E
<1> DEFINE s == Stitch(r)
<1>7. s = [i \in 1 .. n |-> IF r[i].kind = "gpu" THEN Gpu(r[i].span, E[i - 1], E[i]) ELSE r[i]]
  BY <1>4 DEF Stitch, E
<1>8. Len(s) = n
  <2>1. s \in Seq({s[i] : i \in 1 .. n}) /\ Len(s) = n
    <3> HIDE DEF s
    <3> QED
      BY <1>1, <1>7
  <2> QED
    BY <2>1
<1> HIDE DEF s, n
<1>9. ASSUME NEW i \in 1 .. n, r[i].kind = "gpu"
      PROVE  /\ s[i] = Gpu(r[i].span, E[i - 1], E[i])
             /\ s[i].kind = "gpu" /\ s[i].span = r[i].span /\ s[i].start = E[i - 1] /\ s[i].stop = E[i]
             /\ i - 1 \in 0 .. n /\ i \in 0 .. n /\ E[i - 1] \in Nat /\ E[i] \in Nat
             /\ s[i].stop - s[i].start = r[i].stop - r[i].start
             /\ s[i] \in Entries
  <2>1. s[i] = Gpu(r[i].span, E[i - 1], E[i])
    BY <1>7, <1>9
  <2>2. i - 1 \in 0 .. n /\ i \in 0 .. n
    BY <1>1
  <2>3. E[i - 1] \in Nat /\ E[i] \in Nat
    BY <1>6, <2>2
  <2>4. s[i].kind = "gpu" /\ s[i].span = r[i].span /\ s[i].start = E[i - 1] /\ s[i].stop = E[i]
    BY <2>1 DEF Gpu
  <2>5. E[i] = E[i - 1] + (r[i].stop - r[i].start)
    BY <1>6, <1>9 DEF Lasts
  <2>6. r[i] \in [kind : {"gpu"}, span : Spans, start : Nat, stop : Nat]
    BY <1>3, <1>9, EntryKinds
  <2>7. s[i].stop - s[i].start = r[i].stop - r[i].start
    BY <2>3, <2>4, <2>5, <2>6
  <2>8. s[i] \in [kind : {"gpu"}, span : Spans, start : Nat, stop : Nat]
    BY <2>1, <2>3, <2>6 DEF Gpu
  <2>9. s[i] \in Entries
    BY <2>8 DEF Entries
  <2> QED
    BY <2>1, <2>2, <2>3, <2>4, <2>7, <2>9
<1>10. \A i \in 1 .. n : r[i].kind # "gpu" => s[i] = r[i]
  BY <1>7
<1>11. \A i \in 1 .. n : s[i].kind = "gpu" => r[i].kind = "gpu"
  BY <1>10
<1>12. \A i \in 1 .. n : s[i] \in Entries
  BY <1>3, <1>9, <1>10
<1>13. \A i \in 1 .. n : s[i].kind = "gpu" =>
         /\ measured[s[i].span] # Nothing
         /\ s[i].stop - s[i].start = measured[s[i].span]
         /\ \A j \in i + 1 .. n : s[j].kind = "gpu" => s[i].stop <= s[j].start
  <2> SUFFICES ASSUME NEW i \in 1 .. n, s[i].kind = "gpu"
               PROVE  /\ measured[s[i].span] # Nothing
                      /\ s[i].stop - s[i].start = measured[s[i].span]
                      /\ \A j \in i + 1 .. n : s[j].kind = "gpu" => s[i].stop <= s[j].start
    BY Zenon
  <2>1. r[i].kind = "gpu"
    BY <1>11
  <2>2. measured[s[i].span] # Nothing /\ s[i].stop - s[i].start = measured[s[i].span]
    BY <1>3, <1>9, <2>1
  <2>3. ASSUME NEW j \in i + 1 .. n, s[j].kind = "gpu"
        PROVE  s[i].stop <= s[j].start
    <3>1. j \in 1 .. n /\ j - 1 \in 0 .. n /\ i \in 0 .. n /\ i <= j - 1
      BY <1>1
    <3>2. r[j].kind = "gpu"
      BY <1>11, <2>3, <3>1
    <3>3. s[j].start = E[j - 1] /\ s[i].stop = E[i]
      BY <1>9, <2>1, <3>1, <3>2
    <3> QED
      BY <1>6, <3>1, <3>3
  <2> QED
    BY <2>2, <2>3
<1>14. events' = s
  BY <1>2 DEF s
<1> QED
  BY <1>2, <1>8, <1>12, <1>13, <1>14 DEF TrackInv, OneTrack, Items

LEMMA TrackPush ==
  ASSUME BufferInv, HandInv, TrackInv, NEW t \in Threads, Push(t)
  PROVE  TrackInv'
<1> DEFINE e == hand[t].event
           n == Len(events)
<1>1. n \in Nat /\ IsSequence(events) /\ UNCHANGED measured
  BY DEF BufferInv, IsSequence, Push
<1>2. e \in Entries /\ e.kind # "gpu"
  <2>1. e \in Unresolved
    BY DEF Push, HandInv
  <2> QED
    BY <2>1, UnresolvedEntries DEF HandInv
<1>3. CASE events' = Append(events, e)
  <2>1. Len(events') = n + 1 /\ events'[n + 1] = e /\ \A i \in 1 .. n : events'[i] = events[i]
    BY <1>1, <1>3, Appended
  <2>2. \A i \in 1 .. Len(events') : i \in 1 .. n \/ i = n + 1
    BY <1>1, <2>1
  <2> HIDE DEF e, n
  <2>3. \A i \in 1 .. Len(events') : events'[i].kind = "gpu" => i \in 1 .. n /\ events'[i] = events[i]
    BY <1>2, <2>1, <2>2
  <2>4. \A i \in 1 .. n : events[i] \in Entries
    BY DEF TrackInv, Items, n
  <2>5. \A i \in 1 .. Len(events') : events'[i] \in Entries
    BY <1>2, <2>1, <2>2, <2>4
  <2>6. \A i \in 1 .. Len(events') : events'[i].kind = "gpu" =>
          /\ measured'[events'[i].span] # Nothing
          /\ events'[i].stop - events'[i].start = measured'[events'[i].span]
          /\ \A j \in i + 1 .. Len(events') :
               events'[j].kind = "gpu" => events'[i].stop <= events'[j].start
    <3> SUFFICES ASSUME NEW i \in 1 .. Len(events'), events'[i].kind = "gpu"
                 PROVE  /\ measured'[events'[i].span] # Nothing
                        /\ events'[i].stop - events'[i].start = measured'[events'[i].span]
                        /\ \A j \in i + 1 .. Len(events') :
                             events'[j].kind = "gpu" => events'[i].stop <= events'[j].start
      BY Zenon
    <3>1. i \in 1 .. n /\ events'[i] = events[i]
      BY <2>3
    <3>2. ASSUME NEW j \in i + 1 .. Len(events'), events'[j].kind = "gpu"
          PROVE  events'[i].stop <= events'[j].start
      <4>1. j \in 1 .. Len(events')
        BY <1>1, <2>1
      <4>2. j \in 1 .. n /\ events'[j] = events[j]
        BY <2>3, <3>2, <4>1
      <4>3. j \in i + 1 .. n
        BY <1>1, <2>1, <4>2
      <4> QED
        BY <3>1, <3>2, <4>2, <4>3 DEF TrackInv, OneTrack, n
    <3> QED
      BY <1>1, <3>1, <3>2 DEF TrackInv, OneTrack, n
  <2> QED
    BY <2>5, <2>6 DEF TrackInv, OneTrack, Items
<1>4. CASE UNCHANGED events
  BY <1>1, <1>4 DEF TrackInv, OneTrack, Items
<1> QED
  BY <1>3, <1>4 DEF Push

LEMMA TrackStep ==
  ASSUME BufferInv, HandInv, MeasuredOnce, TrackInv, [ProfilerNext]_profilerVars
  PROVE  TrackInv'
<1>1. ASSUME UNCHANGED events,
             \A n \in Spans : measured[n] # Nothing => measured'[n] = measured[n]
      PROVE  TrackInv'
  <2>1. \A i \in 1 .. Len(events) : events[i].kind = "gpu" =>
          measured'[events[i].span] = measured[events[i].span]
    <3> SUFFICES ASSUME NEW i \in 1 .. Len(events), events[i].kind = "gpu"
                 PROVE  measured'[events[i].span] = measured[events[i].span]
      OBVIOUS
    <3>1. events[i] \in Entries /\ measured[events[i].span] # Nothing
      BY DEF TrackInv, Items
    <3>2. events[i].span \in Spans
      BY <3>1, EntryKinds
    <3> QED
      BY <1>1, <3>1, <3>2
  <2> QED
    BY <1>1, <2>1 DEF TrackInv, OneTrack, Items
<1>2. ASSUME NEW t \in Threads, Clear(t)
      PROVE  TrackInv'
  <2>1. events' = <<>>
    BY <1>2 DEF Clear
  <2>2. Len(events') = 0
    BY <2>1
  <2> QED
    BY <2>2 DEF TrackInv, OneTrack, Items
<1>3. ASSUME \/ \E t \in Threads : \/ PushMark(t) \/ OpenCpuSpan(t) \/ CloseCpuSpan(t)
                                   \/ OpenGpuSpan(t) \/ ResetDropped(t)
                                   \/ \E n \in Spans : CloseGpuSpan(t, n)
                                   \/ \E on \in BOOLEAN : SetEnabled(t, on)
                                   \/ \E n \in Capacities : SetCapacity(t, n)
             \/ UNCHANGED profilerVars
      PROVE  TrackInv'
  <2>1. UNCHANGED <<events, measured>>
    BY <1>3 DEF PushMark, OpenCpuSpan, CloseCpuSpan, OpenGpuSpan, ResetDropped, CloseGpuSpan,
                SetEnabled, SetCapacity, profilerVars
  <2> QED
    BY <1>1, <2>1
<1>4. CASE DeviceStep
  <2>1. UNCHANGED events
    BY <1>4 DEF DeviceStep
  <2> QED
    BY <1>1, <1>4, <2>1, DeviceMeasures
<1>5. ASSUME NEW t \in Threads, FlushGpu(t)
      PROVE  TrackInv'
  BY <1>5, FlushStep DEF MeasuredOnce
<1> QED
  BY <1>2, <1>3, <1>4, <1>5, TrackPush DEF ProfilerNext

LEMMA TraceInvariant == ProfilerSpec => [](BufferInv /\ TraceInv)
<1>1. ProfilerInit => TraceInv
  <2> SUFFICES ASSUME ProfilerInit PROVE TraceInv
    OBVIOUS
  <2> USE ProfilerAssumption DEF ProfilerInit
  <2>1. HandInv
    <3>1. 0 \in 0 .. MaxClears /\ 0 \in 0 .. MaxSpans
      OBVIOUS
    <3>2. \A t \in Threads : pc[t] = "outside" /\ hand[t] = Nothing
      OBVIOUS
    <3>3. open \in [Threads -> SUBSET Unresolved]
      OBVIOUS
    <3>4. hand = [t \in Threads |-> hand[t]]
      OBVIOUS
    <3> QED
      BY <3>1, <3>2, <3>3, <3>4 DEF HandInv
  <2>2. IsSequence(stream) /\ Len(stream) = 0 /\ Len(events) = 0
    BY DEF IsSequence
  <2>3. MeasuredOnce
    BY <2>2 DEF MeasuredOnce, StopAhead
  <2>4. TrackInv
    BY <2>2 DEF TrackInv, OneTrack, Items
  <2> QED
    BY <2>1, <2>3, <2>4 DEF TraceInv
<1>2. BufferInv /\ TraceInv /\ [ProfilerNext]_profilerVars => TraceInv'
  BY HandInvStep, MeasuredStep, TrackStep DEF TraceInv
<1> QED
  BY <1>1, <1>2, BufferInvariant, PTL DEF ProfilerSpec

\* What a thread pushes it has in hand with a capacity once set, what is open was
\* opened, and what is resolved was measured.
THEOREM ProfilerTypes == ProfilerSpec => []ProfilerTypeOK
<1>1. ASSUME BufferInv, TraceInv
      PROVE  ProfilerTypeOK
  <2> USE <1>1 DEF TraceInv
  <2>1. Unresolved \subseteq Entries
    BY UnresolvedEntries DEF HandInv
  <2>2. pc \in [Threads -> {"outside", "push", "clear"}] /\ dropped \in Nat /\ offered \in Nat
        /\ erased \in Nat
    BY DEF BufferInv
  <2>3. /\ enabled \in BOOLEAN /\ capacity \in Capacities /\ clears \in 0 .. MaxClears
        /\ spans \in 0 .. MaxSpans /\ open \in [Threads -> SUBSET Entries]
    BY <2>1 DEF HandInv
  <2>4. \A t \in Threads :
          IF pc[t] = "push" THEN hand[t] \in [event : Entries, cap : Capacities]
                            ELSE hand[t] = Nothing
    BY <2>1 DEF HandInv
  <2>5. Items(stream) \subseteq [span : Spans, at : {"start", "stop"}]
    <3>1. 1 .. spans \subseteq Spans
      BY <2>3, ProfilerAssumption DEF Spans
    <3> QED
      BY <3>1 DEF MeasuredOnce, Items
  <2>6. measured \in [Spans -> Durations \cup {Nothing}]
    BY DEF MeasuredOnce
  <2>7. Items(events) \subseteq Entries
        /\ \A e \in Items(events) : e.kind = "gpu" => measured[e.span] # Nothing
    BY DEF TrackInv, Items
  <2> QED
    BY <2>2, <2>3, <2>4, <2>5, <2>6, <2>7 DEF ProfilerTypeOK
<1> QED
  BY <1>1, TraceInvariant, PTL

\* However often the buffer is flushed, its resolved spans make one track, each
\* as long as the device measured, and what is written of it is elements and
\* commas in turn.
THEOREM TraceIsProper == ProfilerSpec => []TraceProper
<1>1. ASSUME BufferInv, TraceInv
      PROVE  TraceProper
  <2>1. OneTrack
    BY <1>1 DEF TraceInv, TrackInv
  <2>2. PICK out : ChromeTrace(events) = out.text /\ WellWritten(out, events, Len(events))
    BY <1>1, WrittenWell DEF BufferInv
  <2>3. Len(out.text) % 2 = 0 <=> out.first
    BY <2>2 DEF WellWritten
  <2>4. Separated
    BY <2>2, <2>3, Zenon DEF Separated, WellWritten
  <2> QED
    BY <2>1, <2>4 DEF TraceProper
<1> QED
  BY <1>1, TraceInvariant, PTL
=============================================================================
