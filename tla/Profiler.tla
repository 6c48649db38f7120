------------------------------ MODULE Profiler ------------------------------
(***************************************************************************)
(* The event buffer of ironaccelerator-cuda/src/profile.rs: threads push   *)
(* marks, CPU spans and GPU spans into a bounded buffer behind a mutex,    *)
(* others clear it, cap it, switch recording on and off, and resolve the   *)
(* GPU spans whose two timing events the device has completed.             *)
(*                                                                         *)
(* A GPU span is known by a number.  Names and wall-clock times are left   *)
(* out; what a GPU span lasted is measured by the device.                  *)
(***************************************************************************)
EXTENDS Integers, Sequences, FiniteSets

CONSTANTS
  Threads,
  Capacities,   \* arguments of set_capacity
  Durations,    \* what a GPU span may last
  MaxSpans,     \* bound: GPU spans opened
  MaxOffered,   \* bound: events pushed
  MaxClears,    \* bound: clears
  Nothing

ASSUME ProfilerAssumption ==
  /\ Capacities \subseteq Nat /\ Capacities # {}
  /\ Durations \subseteq Nat
  /\ Nothing \notin Nat
  /\ MaxSpans \in Nat /\ MaxOffered \in Nat /\ MaxClears \in Nat

VARIABLES
  enabled, capacity, dropped,
  events,    \* the buffer: a sequence of marks, spans pending and resolved
  pc,        \* pc[t]: outside, between the two steps of a push or of a clear
  hand,      \* hand[t]: the event and the capacity a push has
  open,      \* open[t]: spans of a thread not ended
  spans,     \* GPU spans opened
  stream,    \* timing events recorded on the stream and not reached by the device
  measured,  \* measured[n]: the duration of span n once the device has reached its stop
  offered, clears,
  erased     \* history: drops counted while a clear was under way, and lost with its store

profilerVars == <<enabled, capacity, dropped, events, pc, hand, open, spans, stream,
                  measured, offered, clears, erased>>

Spans == 1 .. MaxSpans
Mark == [kind |-> "mark"]
CpuSpan == [kind |-> "cpu"]
Pending(n) == [kind |-> "pending", span |-> n]
Gpu(n, start, stop) == [kind |-> "gpu", span |-> n, start |-> start, stop |-> stop]

ProfilerInit ==
  /\ enabled = FALSE /\ capacity \in Capacities /\ dropped = 0
  /\ events = <<>>
  /\ pc = [t \in Threads |-> "outside"]
  /\ hand = [t \in Threads |-> Nothing]
  /\ open = [t \in Threads |-> {}]
  /\ spans = 0 /\ stream = <<>> /\ measured = [n \in Spans |-> Nothing]
  /\ offered = 0 /\ clears = 0 /\ erased = 0

Outside(t) == pc[t] = "outside"
Clearing == \E t \in Threads : pc[t] = "clear"

(***************************************************************************)
(* push: the capacity is read before the lock is taken.                    *)
(***************************************************************************)
StartPush(t, event) ==
  /\ offered < MaxOffered
  /\ hand' = [hand EXCEPT ![t] = [event |-> event, cap |-> capacity]]
  /\ pc' = [pc EXCEPT ![t] = "push"]

\* Mutant: a full buffer loses the event and nobody counts it.
PushUncounted(t) ==
  /\ pc[t] = "push"
  /\ events' = IF Len(events) >= hand[t].cap THEN events ELSE Append(events, hand[t].event)
  /\ offered' = offered + 1
  /\ pc' = [pc EXCEPT ![t] = "outside"] /\ hand' = [hand EXCEPT ![t] = Nothing]
  /\ UNCHANGED <<enabled, capacity, dropped, open, spans, stream, measured, clears, erased>>

Push(t) ==
  /\ pc[t] = "push"
  /\ IF Len(events) >= hand[t].cap
       THEN /\ dropped' = dropped + 1
            /\ erased' = IF Clearing THEN erased + 1 ELSE erased
            /\ UNCHANGED events
       ELSE /\ events' = Append(events, hand[t].event)
            /\ UNCHANGED <<dropped, erased>>
  /\ offered' = offered + 1
  /\ pc' = [pc EXCEPT ![t] = "outside"] /\ hand' = [hand EXCEPT ![t] = Nothing]
  /\ UNCHANGED <<enabled, capacity, open, spans, stream, measured, clears>>

\* mark, while recording.
PushMark(t) ==
  /\ Outside(t) /\ enabled
  /\ StartPush(t, Mark)
  /\ UNCHANGED <<enabled, capacity, dropped, events, open, spans, stream, measured,
                 offered, clears, erased>>

\* cpu_span, and its drop, which does not look at enabled.
OpenCpuSpan(t) ==
  /\ Outside(t) /\ enabled /\ CpuSpan \notin open[t]
  /\ open' = [open EXCEPT ![t] = @ \cup {CpuSpan}]
  /\ UNCHANGED <<enabled, capacity, dropped, events, pc, hand, spans, stream, measured,
                 offered, clears, erased>>

CloseCpuSpan(t) ==
  /\ Outside(t) /\ CpuSpan \in open[t]
  /\ open' = [open EXCEPT ![t] = @ \ {CpuSpan}]
  /\ StartPush(t, CpuSpan)
  /\ UNCHANGED <<enabled, capacity, dropped, events, spans, stream, measured,
                 offered, clears, erased>>

\* gpu_span: the start event is on the stream, or the call gives None.
OpenGpuSpan(t) ==
  /\ Outside(t) /\ enabled /\ spans < MaxSpans
  /\ spans' = spans + 1
  /\ \/ /\ stream' = Append(stream, [span |-> spans + 1, at |-> "start"])
        /\ open' = [open EXCEPT ![t] = @ \cup {Pending(spans + 1)}]
     \/ UNCHANGED <<stream, open>>
  /\ UNCHANGED <<enabled, capacity, dropped, events, pc, hand, measured,
                 offered, clears, erased>>

\* Its drop: the stop event is on the stream before the span is in the buffer;
\* if that fails the span is gone.
CloseGpuSpan(t, n) ==
  /\ Outside(t) /\ Pending(n) \in open[t]
  /\ open' = [open EXCEPT ![t] = @ \ {Pending(n)}]
  /\ \/ /\ stream' = Append(stream, [span |-> n, at |-> "stop"])
        /\ StartPush(t, Pending(n))
     \/ UNCHANGED <<stream, pc, hand>>
  /\ UNCHANGED <<enabled, capacity, dropped, events, spans, measured,
                 offered, clears, erased>>

\* The device reaches the next timing event.
DeviceStep ==
  /\ stream # <<>>
  /\ stream' = Tail(stream)
  /\ LET e == Head(stream) IN
       IF e.at = "stop"
         THEN \E d \in Durations : measured' = [measured EXCEPT ![e.span] = d]
         ELSE UNCHANGED measured
  /\ UNCHANGED <<enabled, capacity, dropped, events, pc, hand, open, spans,
                 offered, clears, erased>>

(***************************************************************************)
(* flush_gpu, under the lock: cuEventElapsedTime of each pending span, an  *)
(* error leaving it pending, then all resolved spans end to end.           *)
(***************************************************************************)
Resolved(e) ==
  IF e.kind = "pending" /\ measured[e.span] # Nothing THEN Gpu(e.span, 0, measured[e.span]) ELSE e

Lasts(e) == IF e.kind = "gpu" THEN e.stop - e.start ELSE 0

\* elapsed[i]: the sum of the spans before and at place i.
Elapsed(es) ==
  LET sum[i \in 0 .. Len(es)] == IF i = 0 THEN 0 ELSE sum[i - 1] + Lasts(es[i]) IN sum

\* Mutant: the start moves, the end stays.
StitchStart(es) ==
  [i \in 1 .. Len(es) |->
     IF es[i].kind = "gpu" THEN [es[i] EXCEPT !.start = Elapsed(es)[i - 1]] ELSE es[i]]

Stitch(es) ==
  [i \in 1 .. Len(es) |->
     IF es[i].kind = "gpu" THEN Gpu(es[i].span, Elapsed(es)[i - 1], Elapsed(es)[i]) ELSE es[i]]

FlushGpu(t) ==
  /\ Outside(t) /\ enabled
  /\ events' = Stitch([i \in 1 .. Len(events) |-> Resolved(events[i])])
  /\ UNCHANGED <<enabled, capacity, dropped, pc, hand, open, spans, stream, measured,
                 offered, clears, erased>>

(***************************************************************************)
(* The controls.  clear empties the buffer and then resets the counter.    *)
(***************************************************************************)
SetEnabled(t, on) ==
  /\ Outside(t) /\ enabled # on
  /\ enabled' = on
  /\ UNCHANGED <<capacity, dropped, events, pc, hand, open, spans, stream, measured,
                 offered, clears, erased>>

SetCapacity(t, n) ==
  /\ Outside(t) /\ capacity # n
  /\ capacity' = n
  /\ UNCHANGED <<enabled, dropped, events, pc, hand, open, spans, stream, measured,
                 offered, clears, erased>>

Clear(t) ==
  /\ Outside(t) /\ clears < MaxClears
  /\ clears' = clears + 1
  /\ events' = <<>> /\ offered' = 0 /\ erased' = 0
  /\ pc' = [pc EXCEPT ![t] = "clear"]
  /\ UNCHANGED <<enabled, capacity, dropped, hand, open, spans, stream, measured>>

ResetDropped(t) ==
  /\ pc[t] = "clear"
  /\ dropped' = 0
  /\ pc' = [pc EXCEPT ![t] = "outside"]
  /\ UNCHANGED <<enabled, capacity, events, hand, open, spans, stream, measured,
                 offered, clears, erased>>

ProfilerNext ==
  \/ \E t \in Threads :
       \/ PushMark(t) \/ Push(t) \/ OpenCpuSpan(t) \/ CloseCpuSpan(t)
       \/ OpenGpuSpan(t) \/ FlushGpu(t) \/ Clear(t) \/ ResetDropped(t)
       \/ \E n \in Spans : CloseGpuSpan(t, n)
       \/ \E on \in BOOLEAN : SetEnabled(t, on)
       \/ \E n \in Capacities : SetCapacity(t, n)
  \/ DeviceStep

ProfilerSpec == ProfilerInit /\ [][ProfilerNext]_profilerVars

(***************************************************************************)
(* chrome_trace, as the separators it writes: an element or a comma.       *)
(***************************************************************************)
\* What is written for one event; first says whether a comma is due.
WriteEvent(e, out) ==
  LET separated == IF out.first THEN out.text ELSE Append(out.text, "comma") IN
  IF e.kind = "pending" THEN [text |-> separated, first |-> TRUE]
  ELSE [text |-> Append(separated, "element"), first |-> FALSE]

ChromeTrace(es) ==
  LET written[i \in 0 .. Len(es)] ==
        IF i = 0 THEN [text |-> <<>>, first |-> TRUE] ELSE WriteEvent(es[i], written[i - 1])
  IN written[Len(es)].text

(***************************************************************************)
(* Properties.                                                             *)
(***************************************************************************)
Entries == {Mark, CpuSpan} \cup {Pending(n) : n \in Spans}
            \cup [kind : {"gpu"}, span : Spans, start : Nat, stop : Nat]
Items(s) == {s[i] : i \in 1 .. Len(s)}

\* Types; what a thread pushes it has in hand with a capacity once set; and a
\* span is resolved once, by measured events only.
ProfilerTypeOK ==
  /\ enabled \in BOOLEAN /\ capacity \in Capacities
  /\ dropped \in Nat /\ offered \in Nat /\ erased \in Nat /\ clears \in 0 .. MaxClears
  /\ Items(events) \subseteq Entries
  /\ pc \in [Threads -> {"outside", "push", "clear"}]
  /\ \A t \in Threads :
       IF pc[t] = "push" THEN hand[t] \in [event : Entries, cap : Capacities] ELSE hand[t] = Nothing
  /\ open \in [Threads -> SUBSET Entries]
  /\ spans \in 0 .. MaxSpans
  /\ Items(stream) \subseteq [span : Spans, at : {"start", "stop"}]
  /\ measured \in [Spans -> Durations \cup {Nothing}]
  /\ \A e \in Items(events) : e.kind = "gpu" => measured[e.span] # Nothing

\* Every event pushed since the buffer was last emptied is in it or counted as
\* dropped, but for those dropped between the two steps of a clear, whose count
\* the clear's store erases (profile.rs:126-148, 249-257).
LostOnlyToClear ==
  ~Clearing => Len(events) + dropped + erased = offered

\* Resolved spans make one track: in the order of the buffer, none overlapping,
\* each as long as the device measured, however often they are stitched again
\* (profile.rs:233-246).
OneTrack ==
  \A i \in 1 .. Len(events) : events[i].kind = "gpu" =>
    /\ events[i].stop - events[i].start = measured[events[i].span]
    /\ \A j \in i + 1 .. Len(events) :
         events[j].kind = "gpu" => events[i].stop <= events[j].start

\* Elements and commas alternate, one element for each event that is not
\* pending; a comma is left at the end only if a pending event is (profile.rs:260-308).
Separated ==
  LET text == ChromeTrace(events)
      shown == {i \in 1 .. Len(events) : events[i].kind # "pending"} IN
  /\ \A i \in 1 .. Len(text) : text[i] = (IF i % 2 = 1 THEN "element" ELSE "comma")
  /\ (Len(text) + 1) \div 2 = Cardinality(shown)
  /\ Len(text) > 0 /\ Len(text) % 2 = 0 => events[Len(events)].kind = "pending"

\* What chrome_trace writes is a trace.
TraceProper == OneTrack /\ Separated
=============================================================================
