--------------------------- MODULE ComputeDevice ----------------------------
(***************************************************************************)
(* What the trait ComputeDevice promises (ironaccelerator-core/src/        *)
(* compute.rs), whatever the API underneath: a call has its effect on the  *)
(* device's buffers at one moment between the call and its return, in the  *)
(* order its thread makes the calls; a call that fails may have had its    *)
(* effect or not, and never has it later.                                  *)
(*                                                                         *)
(* With Blocks = FALSE a dispatch or an upload may return before its       *)
(* effect, which then still comes before that of any later call.           *)
(***************************************************************************)
EXTENDS Sequences, Integers

CONSTANTS
  Callers,  \* threads with a reference to the device
  Buffers,  \* device buffers
  Calls,    \* [op, buf, arg]: the calls a thread may make
  Uninit,   \* the data of a buffer nobody wrote
  None

VARIABLES
  contents,  \* contents[b]: None, or the data uploaded and the kernels run on it since
  call,      \* the call a thread is in
  pending,   \* calls of a thread whose effect is still to come
  result,    \* what a thread's download has read
  blocks     \* Blocks: the effect comes before the return

cvars == <<contents, call, pending, result, blocks>>

Creating(c) == c.op \in {"upload", "device_buffer"}

CInit ==
  /\ contents = [b \in Buffers |-> None]
  /\ call = [t \in Callers |-> None]
  /\ pending = [t \in Callers |-> <<>>]
  /\ result = [t \in Callers |-> None]
  /\ blocks \in BOOLEAN

Fresh(data) == [data |-> data, runs |-> 0]

\* The contents of c's buffer once c has had its effect on mem.
After(c, mem) ==
  IF mem[c.buf] = None THEN None
  ELSE CASE c.op = "upload" -> Fresh(c.arg)
         [] c.op = "dispatch" -> [mem[c.buf] EXCEPT !.runs = @ + 1]
         [] OTHER -> mem[c.buf]

Invoke(t, c) ==
  /\ call[t] = None
  /\ (contents[c.buf] = None) <=> Creating(c)
  /\ call' = [call EXCEPT ![t] = c]
  /\ pending' = IF c.op = "device_buffer" THEN pending ELSE [pending EXCEPT ![t] = Append(@, c)]
  /\ result' = [result EXCEPT ![t] = None]
  /\ contents' = IF Creating(c) THEN [contents EXCEPT ![c.buf] = Fresh(Uninit)] ELSE contents
  /\ UNCHANGED blocks

Effect(t) ==
  /\ pending[t] # <<>>
  /\ LET c == Head(pending[t]) IN
       /\ contents' = [contents EXCEPT ![c.buf] = After(c, contents)]
       /\ result' = IF c.op = "download" THEN [result EXCEPT ![t] = contents[c.buf]] ELSE result
  /\ pending' = [pending EXCEPT ![t] = Tail(@)]
  /\ UNCHANGED <<call, blocks>>

Return(t) ==
  /\ call[t] # None
  /\ blocks \/ call[t].op = "download" => pending[t] = <<>>
  /\ call' = [call EXCEPT ![t] = None]
  /\ UNCHANGED <<contents, pending, result, blocks>>

\* The calls to come without c, which is the last if it is among them.
Without(s, c) == IF s # <<>> /\ s[Len(s)] = c THEN SubSeq(s, 1, Len(s) - 1) ELSE s

\* An Err: the call will not have its effect any more, and creates nothing.
Fail(t) ==
  /\ call[t] # None
  /\ pending' = [pending EXCEPT ![t] = Without(@, call[t])]
  /\ contents' = IF Creating(call[t]) THEN [contents EXCEPT ![call[t].buf] = None] ELSE contents
  /\ call' = [call EXCEPT ![t] = None]
  /\ result' = [result EXCEPT ![t] = None]
  /\ UNCHANGED blocks

Drop(b) ==
  /\ \A t \in Callers : call[t] = None \/ call[t].buf # b
  /\ contents' = [contents EXCEPT ![b] = None]
  /\ UNCHANGED <<call, pending, result, blocks>>

CNext ==
  \/ \E t \in Callers : Effect(t) \/ Return(t) \/ Fail(t) \/ \E c \in Calls : Invoke(t, c)
  \/ \E b \in Buffers : Drop(b)

CSpec == CInit /\ [][CNext]_cvars
=============================================================================
