---------------------------- MODULE StreamOrder -----------------------------
(***************************************************************************)
(* Memory and order across CUDA streams (ironaccelerator-cuda/src/drv.rs,  *)
(* graph.rs, and what a drop does in pool.rs and pinned.rs).  Every        *)
(* operation returns when its command is on a stream; nothing but the      *)
(* choice of that stream, events, and the host's waiting keeps a command   *)
(* from running before the ones it depends on, or after its memory went    *)
(* to somebody else.                                                       *)
(*                                                                         *)
(*   Owned   DeviceBuf: allocated and freed by commands on its stream      *)
(*   Pooled  PooledBuf: taken from and returned to its pool's list without *)
(*           any command; the block stays mapped                           *)
(*   Slabs   PinnedSlab: host memory, given back to its pool at once       *)
(*                                                                         *)
(* The wrappers do not order the commands of different streams: that is    *)
(* the caller's part.  The callers here do it (Ordered): they touch or     *)
(* drop a buffer only where the stream, or the host, already comes after   *)
(* the commands in flight on it.  What is checked is that the wrappers     *)
(* then do theirs.                                                         *)
(***************************************************************************)
EXTENDS Integers, Sequences

CONSTANTS
  Streams, Events,
  Owned, Pooled, Slabs,
  Home,         \* Home[b]: the stream of a device buffer
  MaxIssued,    \* bound: commands, captured ones too, host writes and captures
  None, Unmapped

Device == Owned \cup Pooled
Buffers == Device \cup Slabs

ASSUME StreamOrderAssumption ==
  /\ Home \in [Device -> Streams]
  /\ MaxIssued \in Nat
  /\ None \notin Buffers \cup Streams \cup Nat
  /\ Unmapped \notin Nat \cup {None}
  /\ Owned \cap Pooled = {} /\ Device \cap Slabs = {}

VARIABLES
  held,     \* buffers in the program's hands
  queue,    \* queue[s]: commands not yet run
  after,    \* after[s]: commands in flight that what comes next on s comes after
  event,    \* event[e]: its last record and what came before it
  users,    \* users[b]: commands in flight that write and that read b
  mem,      \* mem[b]: which write b's memory holds
  want,     \* want[b]: which write program order says it holds, or None
  capture,  \* the capture under way
  graph,    \* the steps of the instantiated graph
  issued,
  wrong     \* commands that touched unmapped memory or left something else than program order says

vars == <<held, queue, after, event, users, mem, want, capture, graph, issued, wrong>>

\* A step of a command: what it reads and what it writes.
Steps == [src : Buffers \cup {None}, dst : Buffers]
Touched(steps) == {x \in UNION {{steps[i].src, steps[i].dst} : i \in DOMAIN steps} : x # None}
Written(steps) == {steps[i].dst : i \in DOMAIN steps}

\* A step without a source writes something new: the command's number.
Taken(contents, step, n) ==
  [contents EXCEPT ![step.dst] = IF step.src = None THEN n ELSE contents[step.src]]

Apply(contents, steps, n) ==
  LET upTo[i \in 0 .. Len(steps)] ==
        IF i = 0 THEN contents ELSE Taken(upTo[i - 1], steps[i], n)
  IN upTo[Len(steps)]

AllUsers(b) == users[b].wrote \cup users[b].read
NoUsers == [wrote |-> {}, read |-> {}]

InGraph(b) == graph # None /\ b \in Touched(graph)
InCapture(b) == capture # None /\ b \in Touched(capture.steps)
Capturing(s) == capture # None /\ capture.on = s

Init ==
  /\ held = {}
  /\ queue = [s \in Streams |-> <<>>]
  /\ after = [s \in Streams |-> {}]
  /\ event = [e \in Events |-> [nth |-> 0, after |-> {}]]
  /\ users = [b \in Buffers |-> NoUsers]
  /\ mem = [b \in Buffers |-> IF b \in Owned THEN Unmapped ELSE 0]
  /\ want = [b \in Buffers |-> None]
  /\ capture = None
  /\ graph = None
  /\ issued = 0
  /\ wrong = {}

(***************************************************************************)
(* The caller's part.                                                      *)
(***************************************************************************)
\* s comes after the writes of what steps read and after every use of what
\* they write.
Ordered(s, steps) ==
  /\ Touched(steps) \subseteq held
  /\ \A b \in Touched(steps) : users[b].wrote \subseteq after[s]
  /\ \A b \in Written(steps) : users[b].read \subseteq after[s]
  /\ \A b \in Written(steps) : Apply(want, steps, issued + 1)[b] # None

\* Nothing in flight, recorded in a graph or being captured uses b.
Idle(b) == b \in held /\ AllUsers(b) = {} /\ ~InGraph(b) /\ ~InCapture(b)

(***************************************************************************)
(* Enqueueing.  Commands of a stream under capture go to the graph.        *)
(***************************************************************************)
Command(kind, steps, buf, for) ==
  [nth |-> issued + 1, kind |-> kind, steps |-> steps, buf |-> buf, for |-> for,
   leaves |-> [b \in Written(steps) |-> Apply(want, steps, issued + 1)[b]]]

Issue(s, c) ==
  /\ issued < MaxIssued /\ ~Capturing(s)
  /\ queue' = [queue EXCEPT ![s] = Append(@, c)]
  /\ issued' = issued + 1

\* The uses of b once command n has taken steps.
UsedBy(n, steps, b) ==
  CASE b \in Written(steps) -> [wrote |-> {n}, read |-> {}]
    [] b \in Touched(steps) \ Written(steps) -> [users[b] EXCEPT !.read = @ \cup {n}]
    [] OTHER -> users[b]

Run(s, steps) ==
  /\ Issue(s, Command("run", steps, None, 0))
  /\ after' = [after EXCEPT ![s] = @ \cup {issued + 1}]
  /\ users' = [b \in Buffers |-> UsedBy(issued + 1, steps, b)]
  /\ want' = Apply(want, steps, issued + 1)
  /\ UNCHANGED <<held, event, mem, capture, graph, wrong>>

Record(s, step) ==
  /\ Capturing(s) /\ capture.ok
  /\ issued < MaxIssued
  /\ capture' = [capture EXCEPT !.steps = Append(@, step)]
  /\ issued' = issued + 1
  /\ UNCHANGED <<held, queue, after, event, users, mem, want, graph, wrong>>

Enqueue(s, step) == Run(s, <<step>>) \/ Record(s, step)

\* What the caller sees to before enqueueing step on s; while s is captured,
\* that the buffers exist.
MayEnqueue(s, step) ==
  IF Capturing(s) THEN Touched(<<step>>) \subseteq held ELSE Ordered(s, <<step>>)

(***************************************************************************)
(* Buffers.                                                                *)
(***************************************************************************)
\* DeviceBuf::alloc, alloc_from_pool: a command on the buffer's stream.
Alloc(b) ==
  /\ b \in Owned \ held
  /\ Issue(Home[b], Command("alloc", <<>>, b, 0))
  /\ held' = held \cup {b}
  /\ after' = [after EXCEPT ![Home[b]] = @ \cup {issued + 1}]
  /\ users' = [users EXCEPT ![b] = [wrote |-> {issued + 1}, read |-> {}]]
  /\ UNCHANGED <<event, mem, want, capture, graph, wrong>>

\* MemPool::alloc from a list: what is in flight on the pool's stream may be
\* of the block's last owner.
TakePooled(b) ==
  /\ b \in Pooled \ held
  /\ held' = held \cup {b}
  /\ users' = [users EXCEPT ![b] = [wrote |-> after[Home[b]], read |-> {}]]
  /\ UNCHANGED <<queue, after, event, mem, want, capture, graph, issued, wrong>>

\* PinnedPool::acquire from a list.
TakeSlab(b) ==
  /\ b \in Slabs \ held
  /\ held' = held \cup {b}
  /\ users' = [users EXCEPT ![b] = NoUsers]
  /\ UNCHANGED <<queue, after, event, mem, want, capture, graph, issued, wrong>>

\* PinnedSlab::as_mut_slice: the host writes now.
HostWrite(b) ==
  /\ b \in Slabs /\ Idle(b) /\ issued < MaxIssued
  /\ mem' = [mem EXCEPT ![b] = issued + 1]
  /\ want' = [want EXCEPT ![b] = issued + 1]
  /\ issued' = issued + 1
  /\ UNCHANGED <<held, queue, after, event, users, capture, graph, wrong>>

\* The caller drops a device buffer when its stream comes after its uses.
MayDrop(b) ==
  /\ b \in held /\ ~InGraph(b) /\ ~InCapture(b)
  /\ AllUsers(b) \subseteq after[Home[b]]

\* DeviceBuf::drop: cuMemFreeAsync on the buffer's stream.
DropOwned(b) ==
  /\ b \in Owned /\ MayDrop(b)
  /\ Issue(Home[b], Command("free", <<>>, b, 0))
  /\ held' = held \ {b}
  /\ want' = [want EXCEPT ![b] = None]
  /\ after' = [after EXCEPT ![Home[b]] = @ \cup {issued + 1}]
  /\ users' = [users EXCEPT ![b] = NoUsers]
  /\ UNCHANGED <<event, mem, capture, graph, wrong>>

\* PooledBuf::drop: the block is in its pool's list at once.
DropPooled(b) ==
  /\ b \in Pooled /\ MayDrop(b)
  /\ held' = held \ {b}
  /\ want' = [want EXCEPT ![b] = None]
  /\ users' = [users EXCEPT ![b] = NoUsers]
  /\ UNCHANGED <<queue, after, event, mem, capture, graph, issued, wrong>>

\* PinnedSlab::drop: so is the slab, whose pool has no stream.
DropSlab(b) ==
  /\ b \in Slabs /\ Idle(b)
  /\ held' = held \ {b}
  /\ want' = [want EXCEPT ![b] = None]
  /\ UNCHANGED <<queue, after, event, users, mem, capture, graph, issued, wrong>>

(***************************************************************************)
(* Copies, sets and launches.                                              *)
(***************************************************************************)
\* DeviceBuf::copy_from_device, copy_from_peer_async: on self's stream.
CopyFromDevice(dst, src) ==
  LET step == [src |-> src, dst |-> dst] IN
  /\ dst \in Device /\ src \in Device \ {dst}
  /\ MayEnqueue(Home[dst], step) /\ Enqueue(Home[dst], step)

\* DeviceBuf::copy_from_host of page-locked memory.
CopyFromHost(dst, src) ==
  LET step == [src |-> src, dst |-> dst] IN
  /\ dst \in Device /\ src \in Slabs
  /\ MayEnqueue(Home[dst], step) /\ Enqueue(Home[dst], step)

\* DeviceBuf::copy_to_host into page-locked memory.
CopyToHost(dst, src) ==
  LET step == [src |-> src, dst |-> dst] IN
  /\ dst \in Slabs /\ src \in Device
  /\ MayEnqueue(Home[src], step) /\ Enqueue(Home[src], step)

\* DeviceBuf::zero_in_place, and the memset of alloc_zeros.
ZeroInPlace(b) ==
  LET step == [src |-> None, dst |-> b] IN
  b \in Device /\ MayEnqueue(Home[b], step) /\ Enqueue(Home[b], step)

\* Mutant: the memset goes to the buffer's own stream.
MemsetAtHome(s, b) ==
  LET step == [src |-> None, dst |-> b] IN
  b \in Device /\ MayEnqueue(s, step) /\ Enqueue(Home[b], step)

\* Stream::memset_d8_async: on the stream it is called on.
MemsetD8Async(s, b) ==
  LET step == [src |-> None, dst |-> b] IN
  b \in Device /\ MayEnqueue(s, step) /\ Enqueue(s, step)

\* Function::launch, launch_cooperative: buffers of any stream.
Launch(s, dst, src) ==
  LET step == [src |-> src, dst |-> dst] IN
  /\ dst \in Device /\ src \in Device \ {dst}
  /\ MayEnqueue(s, step) /\ Enqueue(s, step)

(***************************************************************************)
(* Events.                                                                 *)
(***************************************************************************)
\* Event::record.
EventRecord(e, s) ==
  /\ Issue(s, Command("record", <<>>, None, 0))
  /\ event' = [event EXCEPT ![e] = [nth |-> issued + 1, after |-> after[s]]]
  /\ after' = [after EXCEPT ![s] = @ \cup {issued + 1}]
  /\ UNCHANGED <<held, users, mem, want, capture, graph, wrong>>

\* Stream::wait_for: for the event's last record, if it has one.
WaitFor(s, e) ==
  /\ Issue(s, Command("wait", <<>>, None, event[e].nth))
  /\ after' = [after EXCEPT ![s] = @ \cup event[e].after \cup {issued + 1}]
  /\ UNCHANGED <<held, event, users, mem, want, capture, graph, wrong>>

(***************************************************************************)
(* Graphs (one capture and one graph at a time).                           *)
(***************************************************************************)
\* Capture::begin.
BeginCapture(s) ==
  /\ capture = None /\ graph = None /\ issued < MaxIssued
  /\ capture' = [on |-> s, steps |-> <<>>, ok |-> TRUE]
  /\ issued' = issued + 1
  /\ UNCHANGED <<held, queue, after, event, users, mem, want, graph, wrong>>

\* Stream::synchronize, drain on a stream under capture: an error that
\* invalidates the capture.
Invalidate(s) ==
  /\ Capturing(s)
  /\ capture' = [on |-> s, steps |-> <<>>, ok |-> FALSE]
  /\ UNCHANGED <<held, queue, after, event, users, mem, want, graph, issued, wrong>>

\* Capture::end and Graph::instantiate.  If cuStreamEndCapture fails, end
\* leaves by ? and the guard's drop ends the capture again, in vain.
EndCapture ==
  /\ capture # None
  /\ graph' = IF capture.ok THEN capture.steps ELSE None
  /\ capture' = None
  /\ UNCHANGED <<held, queue, after, event, users, mem, want, issued, wrong>>

\* Capture::drop: the work captured so far is given up.
DropCapture ==
  /\ capture # None
  /\ capture' = None
  /\ UNCHANGED <<held, queue, after, event, users, mem, want, graph, issued, wrong>>

\* ExecGraph::launch: all its steps, on a stream of the caller's choice.
GraphLaunch(s) ==
  /\ graph # None /\ Ordered(s, graph) /\ Run(s, graph)

\* GraphExec::drop.
DropGraph ==
  /\ graph # None
  /\ graph' = None
  /\ UNCHANGED <<held, queue, after, event, users, mem, want, capture, issued, wrong>>

(***************************************************************************)
(* The GPU runs the streams independently of each other.                   *)
(***************************************************************************)
InFlight == UNION {{queue[s][i].nth : i \in DOMAIN queue[s]} : s \in Streams}

\* What ran is in flight no more.
Forget(n) ==
  /\ after' = [s \in Streams |-> after[s] \ {n}]
  /\ event' = [e \in Events |-> [nth |-> IF event[e].nth = n THEN 0 ELSE event[e].nth,
                              after |-> event[e].after \ {n}]]
  /\ users' = [b \in Buffers |-> [wrote |-> users[b].wrote \ {n}, read |-> users[b].read \ {n}]]

Effect(c) ==
  CASE c.kind = "alloc" -> [mem EXCEPT ![c.buf] = 0]
    [] c.kind = "free" -> [mem EXCEPT ![c.buf] = Unmapped]
    [] OTHER -> Apply(mem, c.steps, c.nth)

Amiss(c) ==
  \/ \E b \in Touched(c.steps) : mem[b] = Unmapped
  \/ \E b \in Written(c.steps) : Effect(c)[b] # c.leaves[b]
  \/ c.kind = "alloc" /\ mem[c.buf] # Unmapped

Execute(s) ==
  /\ queue[s] # <<>>
  /\ Head(queue[s]).for \notin InFlight
  /\ mem' = Effect(Head(queue[s]))
  /\ wrong' = IF Amiss(Head(queue[s])) THEN wrong \cup {Head(queue[s]).nth} ELSE wrong
  /\ queue' = [queue EXCEPT ![s] = Tail(@)]
  /\ Forget(Head(queue[s]).nth)
  /\ UNCHANGED <<held, want, capture, graph, issued>>

Next ==
  \/ \E b \in Buffers :
       \/ Alloc(b) \/ TakePooled(b) \/ TakeSlab(b) \/ HostWrite(b)
       \/ DropOwned(b) \/ DropPooled(b) \/ DropSlab(b) \/ ZeroInPlace(b)
  \/ \E dst, src \in Buffers :
       \/ CopyFromDevice(dst, src) \/ CopyFromHost(dst, src) \/ CopyToHost(dst, src)
       \/ \E s \in Streams : Launch(s, dst, src)
  \/ \E s \in Streams :
       \/ BeginCapture(s) \/ Invalidate(s) \/ GraphLaunch(s)
       \/ \E b \in Buffers : MemsetD8Async(s, b)
       \/ \E e \in Events : EventRecord(e, s) \/ WaitFor(s, e)
  \/ EndCapture \/ DropCapture \/ DropGraph
  \/ \E s \in Streams : Execute(s)

Spec == Init /\ [][Next]_vars
-----------------------------------------------------------------------------
\* The state is well formed, and what a stream comes after, an event stands
\* for and a buffer is used by is in flight.
TypeOK ==
  /\ held \subseteq Buffers
  /\ issued \in 0 .. MaxIssued /\ wrong \subseteq 1 .. issued
  /\ \A s \in Streams : after[s] \subseteq InFlight
  /\ \A e \in Events : event[e].nth \in 0 .. issued /\ event[e].after \subseteq InFlight
  /\ \A b \in Buffers :
       /\ AllUsers(b) \subseteq InFlight
       /\ mem[b] \in 0 .. issued \cup {Unmapped}
       /\ want[b] \in 0 .. issued \cup {None}
  /\ capture # None => capture.on \in Streams /\ capture.steps \in Seq(Steps)
  /\ graph # None => graph \in Seq(Steps)

\* For callers that order their streams, a command finds its memory mapped
\* and its sources as program order has them, through allocation and free on
\* the stream, recycling without either, and replay of a graph; and a slab
\* the host may touch, or a buffer nothing is in flight on, holds the last
\* write (the stream each method of DeviceBuf, Stream and Function enqueues on).
ProgramOrder ==
  /\ wrong = {}
  /\ \A b \in held : want[b] # None /\ AllUsers(b) = {} => mem[b] = want[b]

=============================================================================
