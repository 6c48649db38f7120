--------------------------- MODULE ComputeDevices ---------------------------
(***************************************************************************)
(* The five implementations of ComputeDevice under one client: threads     *)
(* that make calls and drop buffers, on one device of one API.  The        *)
(* borrow checker's part is in the guards: a buffer is dropped only when   *)
(* no call uses it.                                                        *)
(***************************************************************************)
EXTENDS GpuWork

Vulkan == INSTANCE VulkanDevice
Dx12 == INSTANCE Dx12Device
LevelZero == INSTANCE LevelZeroDevice
Immediate == INSTANCE ImmediateDevice

CallStep(t) ==
  \/ api = "vulkan" /\ Vulkan!CallStep(t)
  \/ api = "dx12" /\ Dx12!CallStep(t)
  \/ api = "levelzero" /\ LevelZero!CallStep(t)
  \/ api \in {"metal", "opengl"} /\ Immediate!CallStep(t)

Call(t) == \E c \in Numbered({made + 1}) : Begin(t, c, "alloc")

Next ==
  \/ \E t \in Callers : Call(t) \/ CallStep(t)
  \/ \E b \in Buffers : DropBuffer(b)
  \/ GpuRun
  \/ GpuSignal

Spec == Init /\ [][Next]_gvars

\* The GPU runs what it was given, and a thread inside a call goes on.
Fairness ==
  /\ WF_gvars(GpuRun \/ GpuSignal)
  /\ \A t \in AllCallers : WF_gvars(CallStep(t))

FairSpec == Spec /\ Fairness

(***************************************************************************)
(* Properties.                                                             *)
(***************************************************************************)
CallTypes == Numbered(1 .. MaxCalls)
Works == [by : AllCallers, call : CallTypes, signal : {0}]
Signals == [by : AllCallers, call : {None}, signal : 1 .. MaxCalls]
Items(s) == {s[i] : i \in 1 .. Len(s)}

\* Types, and what a thread holds at each place of a call: a call in hand, a
\* staging buffer from its allocation to the end.
TypeOK ==
  /\ api \in Apis
  /\ call \in [AllCallers -> CallTypes \cup {None}]
  /\ mem \in [Buffers -> Contents \cup {None}]
  /\ staging \in [AllCallers -> Contents \cup {None}]
  /\ result \in [AllCallers -> Contents \cup {None}]
  /\ queue \in Seq(Works \cup Signals)
  /\ list \in [open : BOOLEAN, works : Seq(Works)]
  /\ bound \in [Pipelines -> Buffers \cup {None}]
  /\ fence \in [done : 0 .. MaxCalls, next : 1 .. MaxCalls + 1]
  /\ landed \subseteq {t \in AllCallers : call[t] # None}
  /\ \A t \in AllCallers :
       /\ (pc[t] = "idle") <=> (call[t] = None)
       /\ call[t] # None => mem[call[t].buf] # None
       /\ pc[t] \in {"submit", "wait", "read"} /\ Staged(call[t]) => staging[t] # None

Unlanded(t) == call[t] # None /\ call[t].op # "device_buffer" /\ t \notin landed

\* A thread's calls whose effect is still to come.  What OpenGL has been given
\* it keeps in order; all of it is its one caller's.
PendingOf(t) ==
  (IF api = "opengl" /\ t \in Callers THEN [i \in 1 .. Len(queue) |-> queue[i].call] ELSE <<>>)
    \o (IF Unlanded(t) THEN <<call[t]>> ELSE <<>>)

ReadBy(t) ==
  IF call[t] # None /\ call[t].op = "download" /\ t \in landed THEN staging[t] ELSE result[t]

Contract == INSTANCE ComputeDevice WITH
  Callers <- AllCallers,
  Calls <- CallTypes,
  contents <- mem,
  pending <- [t \in AllCallers |-> PendingOf(t)],
  result <- [t \in AllCallers |-> ReadBy(t)],
  blocks <- api # "opengl"

\* Each API keeps the trait's promise: a call has its effect once, on the
\* buffers it was given, between the call and its return, and never after an
\* error; a download gives what the calls before it have made of the buffer
\* (core/compute.rs:66-68, 80-103).
ImplementsContract == Contract!CSpec

\* Whatever the GPU has still to run refers to memory that exists: the
\* device's buffers, and the staging buffers of calls under way, which the
\* calls' early returns drop (vulkan/compute.rs:145-160, dx12/compute.rs:793-847).
NothingReleasedInFlight ==
  \A w \in Items(queue) : w.signal = 0 /\ api # "opengl" =>
    /\ call[w.by] = w.call
    /\ mem[w.call.buf] # None
    /\ Staged(w.call) => staging[w.by] # None

\* A pipeline's descriptor set points at the buffers of the dispatch that is
\* to run until it has run ("Safe to call between dispatches provided the
\* previous dispatch has completed", vulkan/compute.rs:468-470).
BindingKept ==
  \A w \in Items(queue) : w.signal = 0 => Target(w) = w.call.buf

\* No wait is for what will not come, whatever has failed before: the fence has
\* the value waited for or a signal of it is still in the queue, also after a
\* Signal that failed has used up a value (dx12/compute.rs:768-770), and a
\* command buffer that is waited for has run or is at the GPU.
AwaitedComes ==
  \A t \in AllCallers : pc[t] = "wait" =>
    /\ api = "dx12" =>
         fence.done >= fence.next - 1 \/ \E w \in Items(queue) : w.signal = fence.next - 1
    /\ api = "metal" => t \in landed \/ Work(t) \in Items(queue)

\* Every call returns: the work of a call is submitted, and the wait for it ends.
CallsReturn == \A t \in AllCallers : pc[t] # "idle" ~> pc[t] = "idle"
=============================================================================
