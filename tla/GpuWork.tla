------------------------------ MODULE GpuWork -------------------------------
(***************************************************************************)
(* What the ComputeDevice implementations have in common: the callers, the *)
(* device's buffers, the staging buffer of a call, and the queue of work   *)
(* the GPU has been given.  VulkanDevice, Dx12Device, LevelZeroDevice and  *)
(* ImmediateDevice add the steps of their calls; api says which of them    *)
(* the behaviour is of.                                                    *)
(*                                                                         *)
(* The GPU runs what is in its queue in order, at any later time; that the *)
(* host and the device agree on when is what the implementations are for.  *)
(***************************************************************************)
EXTENDS Integers, Sequences

CONSTANTS
  Apis,       \* the implementations
  CallersOf,  \* CallersOf[a]: threads that share a device of a
  Buffers, Pipelines, Data,
  Uninit,     \* the data of a buffer nobody wrote
  MaxCalls,   \* bound: calls of all threads
  MayFail,    \* <<api, place>>: the driver calls that may fail
  None


VARIABLES
  api,
  pc,       \* where a thread is in its call
  call,     \* the call a thread is in
  mem,      \* mem[b]: the contents of a buffer that exists
  staging,  \* the contents of the staging buffer of a thread's call
  queue,    \* work submitted and not run
  list,     \* the device's one command list (D3D12, Level Zero)
  bound,    \* bound[p]: the buffer a pipeline's descriptor set points at (Vulkan)
  fence,    \* the fence's completed value, and the next to signal (D3D12)
  landed,   \* threads whose call has had its effect, or is in a queue that need not be waited for
  result,   \* what a thread's last download gave
  made      \* calls made

gvars == <<api, pc, call, mem, staging, queue, list, bound, fence, landed, result, made>>

Callers == CallersOf[api]

AllCallers == UNION {CallersOf[a] : a \in Apis}

\* Calls, numbered.
Numbered(N) ==
  [op : {"upload"}, buf : Buffers, arg : Data, nth : N]
    \cup [op : {"device_buffer", "download"}, buf : Buffers, arg : {None}, nth : N]
    \cup [op : {"dispatch"}, buf : Buffers, arg : Pipelines, nth : N]

Contents == [data : Data \cup {Uninit}, runs : Nat]

\* A context of D3D12 is Send and not Sync, one of Level Zero or OpenGL neither.
ASSUME GpuWorkAssumption ==
  /\ MaxCalls \in Nat
  /\ Apis \subseteq {"vulkan", "dx12", "levelzero", "metal", "opengl"}
  /\ Uninit \notin Data /\ None \notin Data \cup Buffers \cup {Uninit}
  /\ None \notin Numbered(Nat) \cup Contents
  /\ \A a \in Apis \cap {"dx12", "levelzero", "opengl"} : \A t, u \in CallersOf[a] : t = u

Fresh(data) == [data |-> data, runs |-> 0]

Creating(c) == c.op \in {"upload", "device_buffer"}
Staged(c) == c.op \in {"upload", "download"}

Init ==
  /\ api \in Apis
  /\ pc = [t \in AllCallers |-> "idle"]
  /\ call = [t \in AllCallers |-> None]
  /\ mem = [b \in Buffers |-> None]
  /\ staging = [t \in AllCallers |-> None]
  /\ queue = <<>>
  /\ list = [open |-> api = "levelzero", works |-> <<>>]
  /\ bound = [p \in Pipelines |-> None]
  /\ fence = [done |-> 0, next |-> 1]
  /\ landed = {}
  /\ result = [t \in AllCallers |-> None]
  /\ made = 0

Goto(t, place) == pc' = [pc EXCEPT ![t] = place]

CanFail(place) == <<api, place>> \in MayFail

\* Nobody else holds b; a buffer under construction is in nobody's hands.
InUse(b) == \E t \in AllCallers : call[t] # None /\ call[t].buf = b
Constructing(b) == \E t \in AllCallers : call[t] # None /\ call[t].buf = b /\ Creating(call[t])

Begin(t, c, place) ==
  /\ pc[t] = "idle" /\ made < MaxCalls /\ c.nth = made + 1
  /\ IF Creating(c) THEN mem[c.buf] = None ELSE mem[c.buf] # None /\ ~Constructing(c.buf)
  /\ call' = [call EXCEPT ![t] = c]
  /\ mem' = IF Creating(c) THEN [mem EXCEPT ![c.buf] = Fresh(Uninit)] ELSE mem
  /\ landed' = landed \ {t}
  /\ result' = [result EXCEPT ![t] = None]
  /\ made' = made + 1
  /\ Goto(t, place)
  /\ UNCHANGED <<api, staging, queue, list, bound, fence>>

\* The end of a call: its locals are dropped.  A failed call drops the buffer
\* it was creating.
End(t, ok) ==
  /\ call' = [call EXCEPT ![t] = None]
  /\ mem' = IF ~ok /\ Creating(call[t]) THEN [mem EXCEPT ![call[t].buf] = None] ELSE mem
  /\ staging' = [staging EXCEPT ![t] = None]
  /\ result' = [result EXCEPT ![t] = IF ok /\ call[t].op = "download" THEN staging[t] ELSE None]
  /\ landed' = landed \ {t}
  /\ Goto(t, "idle")
  /\ UNCHANGED <<api, queue, bound, fence, made>>

\* The ? of a driver call.
Fails(t, place) ==
  /\ CanFail(place)
  /\ End(t, FALSE)
  /\ UNCHANGED list

\* device_buffer has nothing to wait for: one driver call.
DeviceBuffer(t) ==
  /\ pc[t] = "alloc" /\ call[t].op = "device_buffer"
  /\ \/ End(t, TRUE) /\ UNCHANGED list
     \/ Fails(t, "alloc")

DropBuffer(b) ==
  /\ mem[b] # None /\ ~InUse(b)
  /\ mem' = [mem EXCEPT ![b] = None]
  /\ UNCHANGED <<api, pc, call, staging, queue, list, bound, fence, landed, result, made>>

(***************************************************************************)
(* The GPU.  A descriptor set is read when the work runs; the other APIs   *)
(* record the buffers with the work.                                       *)
(***************************************************************************)
Work(t) == [by |-> t, call |-> call[t], signal |-> 0]

\* The call a work belongs to is still under way.
Current(w) == call[w.by] = w.call /\ w.by \notin landed

Target(w) == IF api = "vulkan" /\ w.call.op = "dispatch" THEN bound[w.call.arg] ELSE w.call.buf

Run(w) ==
  LET b == Target(w) IN
  CASE w.call.op = "upload" ->
         /\ mem' = IF mem[b] = None THEN mem
                   ELSE [mem EXCEPT ![b] = IF api = "opengl" THEN Fresh(w.call.arg) ELSE staging[w.by]]
         /\ UNCHANGED staging
    [] w.call.op = "dispatch" ->
         /\ mem' = IF mem[b] = None THEN mem ELSE [mem EXCEPT ![b].runs = @ + 1]
         /\ UNCHANGED staging
    [] OTHER ->
         /\ staging' = [staging EXCEPT ![w.by] = mem[b]]
         /\ UNCHANGED mem

GpuRun ==
  /\ queue # <<>> /\ Head(queue).signal = 0
  /\ Run(Head(queue))
  /\ landed' = IF Current(Head(queue)) THEN landed \cup {Head(queue).by} ELSE landed
  /\ queue' = Tail(queue)
  /\ UNCHANGED <<api, pc, call, list, bound, fence, result, made>>

GpuSignal ==
  /\ queue # <<>> /\ Head(queue).signal > 0
  /\ fence' = [fence EXCEPT !.done = Head(queue).signal]
  /\ queue' = Tail(queue)
  /\ UNCHANGED <<api, pc, call, mem, staging, list, bound, landed, result, made>>
=============================================================================
