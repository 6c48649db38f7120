------------------------------ MODULE CopyPool ------------------------------
(***************************************************************************)
(* The copy pool (ironaccelerator-cuda/src/drv.rs: CopyPool, wide_copy,    *)
(* prefault): threads that copy one large range cut it into page-aligned   *)
(* slices, hand a slice to each worker's channel, copy the remainder and   *)
(* wait on a counter of their own until the workers are done.              *)
(*                                                                         *)
(* The workers are detached threads with raw pointers into the caller's    *)
(* memory: that the memory outlives them rests on the counter alone.       *)
(* wide_copy and prefault differ in what they write, not in how they       *)
(* divide and wait for the work; one model stands for both.  What is       *)
(* written is abstracted to which thread wrote each unit of the range.     *)
(***************************************************************************)
EXTENDS Integers, Sequences

CONSTANTS
  Callers,      \* threads that call wide_copy or prefault
  NWorkers,     \* workers of the pool, in the order of CopyPool.work
  Page,         \* units in a page
  ParallelMin,  \* PARALLEL_MEMCPY_MIN or PREFAULT_MIN
  Lengths,      \* lengths asked for
  MaxCalls,     \* bound: calls of one caller
  MayExit,      \* workers that may be gone, their channel closed
  NoJob, Nobody, Twice

Workers == 1 .. NWorkers

ASSUME CopyPoolAssumption ==
  /\ NWorkers \in Nat \ {0} /\ Page \in Nat \ {0} /\ ParallelMin \in Nat /\ MaxCalls \in Nat
  /\ Lengths \subseteq Nat \ {0} /\ \E n \in Lengths : \A m \in Lengths : m <= n
  /\ MayExit \subseteq Workers
  /\ Callers \cap Workers = {} /\ {Nobody, Twice} \cap (Callers \cup Workers) = {}
  /\ Nobody # Twice

VARIABLES
  pc,       \* where a caller is
  call,     \* its call: the count of its calls, and the length of this one
  off,      \* where its next slice starts
  next,     \* the worker it offers the next slice to
  pending,  \* its counter: slices handed out and not done
  chan,     \* chan[w]: jobs sent to worker w
  job,      \* job[w]: the job worker w has in hand
  wpc,      \* where a worker is
  dst       \* dst[c][u]: who wrote unit u of the range of c's last call

vars == <<pc, call, off, next, pending, chan, job, wpc, dst>>

Longest == CHOOSE n \in Lengths : \A m \in Lengths : m <= n
Span == 0 .. Longest - 1

Init ==
  /\ pc = [c \in Callers |-> "idle"]
  /\ call = [c \in Callers |-> [count |-> 0, len |-> 0]]
  /\ off = [c \in Callers |-> 0]
  /\ next = [c \in Callers |-> 1]
  /\ pending = [c \in Callers |-> 0]
  /\ chan = [w \in Workers |-> <<>>]
  /\ job = [w \in Workers |-> NoJob]
  /\ wpc = [w \in Workers |-> "recv"]
  /\ dst = [c \in Callers |-> [u \in Span |-> Nobody]]

Goto(c, place) == pc' = [pc EXCEPT ![c] = place]

\* Mutant: slices that end inside a page.
StepUnrounded(c) == call[c].len \div (NWorkers + 1)

\* len / parts, rounded up to a page.
StepOf(c) == ((call[c].len \div (NWorkers + 1) + Page - 1) \div Page) * Page

\* Thread t writes n units of c's range from unit o on.
Write(c, t, o, n) ==
  dst' = [dst EXCEPT ![c] = [u \in Span |->
            IF u \in o .. o + n - 1 THEN (IF @[u] = Nobody THEN t ELSE Twice) ELSE @[u]]]

(***************************************************************************)
(* A caller.                                                               *)
(***************************************************************************)
Begin(c, len) ==
  /\ pc[c] = "idle" /\ call[c].count < MaxCalls
  /\ call' = [call EXCEPT ![c] = [count |-> call[c].count + 1, len |-> len]]
  /\ off' = [off EXCEPT ![c] = 0]
  /\ next' = [next EXCEPT ![c] = 1]
  /\ pending' = [pending EXCEPT ![c] = 0]
  /\ dst' = [dst EXCEPT ![c] = [u \in Span |-> Nobody]]
  /\ Goto(c, IF len < ParallelMin THEN "remainder" ELSE "offer")
  /\ UNCHANGED <<chan, job, wpc>>

\* A slice is left for the next worker: the counter goes up before the job is
\* where the worker can see it.
Count(c) ==
  /\ pc[c] = "offer"
  /\ next[c] \in Workers /\ off[c] + StepOf(c) < call[c].len
  /\ pending' = [pending EXCEPT ![c] = @ + 1]
  /\ Goto(c, "send")
  /\ UNCHANGED <<call, off, next, chan, job, wpc, dst>>

\* No worker left, or what is left is not more than a slice.
Offered(c) ==
  /\ pc[c] = "offer"
  /\ next[c] \notin Workers \/ off[c] + StepOf(c) >= call[c].len
  /\ Goto(c, "remainder")
  /\ UNCHANGED <<call, off, next, pending, chan, job, wpc, dst>>

Send(c) ==
  /\ pc[c] = "send" /\ wpc[next[c]] # "gone"
  /\ chan' = [chan EXCEPT ![next[c]] =
                Append(@, [caller |-> c, call |-> call[c].count, off |-> off[c], len |-> StepOf(c)])]
  /\ off' = [off EXCEPT ![c] = @ + StepOf(c)]
  /\ next' = [next EXCEPT ![c] = @ + 1]
  /\ Goto(c, "offer")
  /\ UNCHANGED <<call, pending, job, wpc, dst>>

\* Mutant: the slice is lost with the worker.
SendToGoneSkipped(c) ==
  /\ pc[c] = "send" /\ wpc[next[c]] = "gone"
  /\ pending' = [pending EXCEPT ![c] = @ - 1]
  /\ off' = [off EXCEPT ![c] = @ + StepOf(c)]
  /\ Goto(c, "remainder")
  /\ UNCHANGED <<call, next, chan, job, wpc, dst>>

\* Mutant: the counter is not taken back.
SendToGoneCounted(c) ==
  /\ pc[c] = "send" /\ wpc[next[c]] = "gone"
  /\ Goto(c, "remainder")
  /\ UNCHANGED <<call, off, next, pending, chan, job, wpc, dst>>

\* The channel is closed: the slice stays with the caller.
SendToGone(c) ==
  /\ pc[c] = "send" /\ wpc[next[c]] = "gone"
  /\ pending' = [pending EXCEPT ![c] = @ - 1]
  /\ Goto(c, "remainder")
  /\ UNCHANGED <<call, off, next, chan, job, wpc, dst>>

Remainder(c) ==
  /\ pc[c] = "remainder"
  /\ Write(c, c, off[c], call[c].len - off[c])
  /\ Goto(c, IF call[c].len < ParallelMin THEN "idle" ELSE "check")
  /\ UNCHANGED <<call, off, next, pending, chan, job, wpc>>

\* Mutant: the call does not wait.
CheckOnce(c) ==
  /\ pc[c] = "check"
  /\ Goto(c, "idle")
  /\ UNCHANGED <<call, off, next, pending, chan, job, wpc, dst>>

\* Under the counter's mutex: return, or sleep on the condition variable.
Check(c) ==
  /\ pc[c] = "check"
  /\ Goto(c, IF pending[c] > 0 THEN "asleep" ELSE "idle")
  /\ UNCHANGED <<call, off, next, pending, chan, job, wpc, dst>>

(***************************************************************************)
(* A worker.                                                               *)
(***************************************************************************)
Receive(w) ==
  /\ wpc[w] = "recv" /\ chan[w] # <<>>
  /\ job' = [job EXCEPT ![w] = Head(chan[w])]
  /\ chan' = [chan EXCEPT ![w] = Tail(@)]
  /\ wpc' = [wpc EXCEPT ![w] = "copy"]
  /\ UNCHANGED <<pc, call, off, next, pending, dst>>

CopySlice(w) ==
  /\ wpc[w] = "copy"
  /\ Write(job[w].caller, w, job[w].off, job[w].len)
  /\ wpc' = [wpc EXCEPT ![w] = "count"]
  /\ UNCHANGED <<pc, call, off, next, pending, chan, job>>

\* The counter is the job's own.
CountDown(w) ==
  /\ wpc[w] = "count"
  /\ pending' = [pending EXCEPT ![job[w].caller] = @ - 1]
  /\ wpc' = [wpc EXCEPT ![w] = "notify"]
  /\ UNCHANGED <<pc, call, off, next, chan, job, dst>>

\* Mutant: off by one in telling that its job was the last.
NotifyEarly(w) ==
  /\ wpc[w] = "notify"
  /\ IF pending[job[w].caller] = 1 /\ pc[job[w].caller] = "asleep"
       THEN Goto(job[w].caller, "check") ELSE UNCHANGED pc
  /\ job' = [job EXCEPT ![w] = NoJob]
  /\ wpc' = [wpc EXCEPT ![w] = "recv"]
  /\ UNCHANGED <<call, off, next, pending, chan, dst>>

\* notify_all, after the counter's mutex is released.
Notify(w) ==
  /\ wpc[w] = "notify"
  /\ IF pc[job[w].caller] = "asleep" THEN Goto(job[w].caller, "check") ELSE UNCHANGED pc
  /\ job' = [job EXCEPT ![w] = NoJob]
  /\ wpc' = [wpc EXCEPT ![w] = "recv"]
  /\ UNCHANGED <<call, off, next, pending, chan, dst>>

\* A worker with nothing to do is gone, and its receiver with it.
Exit(w) ==
  /\ w \in MayExit
  /\ wpc[w] = "recv" /\ chan[w] = <<>>
  /\ wpc' = [wpc EXCEPT ![w] = "gone"]
  /\ UNCHANGED <<pc, call, off, next, pending, chan, job, dst>>

CallerStep(c) ==
  Count(c) \/ Offered(c) \/ Send(c) \/ SendToGone(c) \/ Remainder(c) \/ Check(c)

WorkerStep(w) == Receive(w) \/ CopySlice(w) \/ CountDown(w) \/ Notify(w)

Next ==
  \/ \E c \in Callers : CallerStep(c) \/ \E len \in Lengths : Begin(c, len)
  \/ \E w \in Workers : WorkerStep(w) \/ Exit(w)

Spec == Init /\ [][Next]_vars

\* Every thread that can go on does.
Fairness ==
  /\ \A c \in Callers : WF_vars(CallerStep(c))
  /\ \A w \in Workers : WF_vars(WorkerStep(w))

FairSpec == Spec /\ Fairness

(***************************************************************************)
(* Properties.                                                             *)
(***************************************************************************)
Job == [caller : Callers, call : 1 .. MaxCalls, off : Span, len : Nat]

\* Every variable keeps its type; in particular no counter (a usize) drops
\* below zero.
TypeOK ==
  /\ pc \in [Callers -> {"idle", "offer", "send", "remainder", "check", "asleep"}]
  /\ call \in [Callers -> [count : 0 .. MaxCalls, len : Lengths \cup {0}]]
  /\ off \in [Callers -> Nat]
  /\ next \in [Callers -> 1 .. NWorkers + 1]
  /\ pending \in [Callers -> 0 .. NWorkers]
  /\ chan \in [Workers -> Seq(Job)]
  /\ job \in [Workers -> Job \cup {NoJob}]
  /\ wpc \in [Workers -> {"recv", "copy", "count", "notify", "gone"}]
  /\ dst \in [Callers -> [Span -> Callers \cup Workers \cup {Nobody, Twice}]]

InHand(w) == IF wpc[w] \in {"copy", "count"} THEN {job[w]} ELSE {}
Outstanding(w) == InHand(w) \cup {chan[w][i] : i \in 1 .. Len(chan[w])}

\* "Neither pointer outlives the call": a job not yet counted down belongs to
\* a call that has not returned.
NoJobOutlivesCall ==
  \A w \in Workers : \A j \in Outstanding(w) :
    pc[j.caller] # "idle" /\ call[j.caller].count = j.call

\* A call returns with its whole range written, each unit once, although the
\* workers serve other calls at the same time and may be gone.
ReturnsCopied ==
  \A c \in Callers : pc[c] = "idle" =>
    \A u \in Span : u < call[c].len => dst[c][u] \notin {Nobody, Twice}

\* "No two threads write the same page."
PagesDisjoint ==
  \A c \in Callers, u, v \in Span :
    /\ u \div Page = v \div Page
    /\ dst[c][u] # Nobody /\ dst[c][v] # Nobody
    => dst[c][u] = dst[c][v]

\* What a caller that sleeps waits for will come: a worker that is still there
\* has a job of the caller's to count down, or has yet to wake it (the count and
\* the notify_all of wide_copy's jobs are two steps, drv.rs).
SleeperAwaited ==
  \A c \in Callers : pc[c] = "asleep" =>
    \E w \in Workers :
      /\ wpc[w] # "gone"
      /\ \/ \E j \in Outstanding(w) : j.caller = c
         \/ wpc[w] = "notify" /\ job[w].caller = c

\* Every call returns: no wake-up is lost between a worker's count and the
\* caller's wait.
CallsReturn == \A c \in Callers : pc[c] # "idle" ~> pc[c] = "idle"
=============================================================================
