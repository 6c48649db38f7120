------------------------ MODULE ComputeDevices_proofs ------------------------
(***************************************************************************)
(* Proofs about ComputeDevices, for any APIs, threads, buffers, pipelines, *)
(* data and bounds: what the GPU has still to run finds its memory, and    *)
(* each API keeps the promise of the trait.                                *)
(*                                                                         *)
(* Both rest on what the APIs that wait have at the GPU: a thread's work,  *)
(* once, exactly while the thread waits for it.  Each API gets there its   *)
(* own way, so each has an invariant of its own for its queue, its list    *)
(* and its fence; Waited is what the four have in common.                  *)
(***************************************************************************)
EXTENDS ComputeDevices, SequenceTheorems, TLAPS

\* The failures after which a call returns with its work at the GPU, or left
\* in the list for the next call to submit.
Abandoning ==
  ({"vulkan"} \X {"wait"}) \cup ({"dx12"} \X {"signal", "device"})
    \cup ({"levelzero"} \X {"close", "wait"}) \cup ({"metal"} \X {"device"})

NoneAbandoned == MayFail \cap Abandoning = {}

Places == {"idle", "alloc", "begin", "record", "close", "submit", "signal", "wait",
           "read", "reset", "done"}

\* Where nothing of a call has reached the GPU.
Early == {"alloc", "begin", "record", "close", "submit"}

\* What a thread has at each place of a call.
Carries(t) ==
  /\ t \notin Callers => pc[t] = "idle"
  /\ call[t] # None => result[t] = None /\ call[t].nth <= made
  /\ call[t] # None /\ call[t].op = "device_buffer" => pc[t] = "alloc"
  /\ pc[t] \in Early => t \notin landed
  /\ pc[t] \in {"read", "reset", "done"} => t \in landed
  /\ pc[t] = "read" => call[t].op = "download"
  /\ api \in {"vulkan", "dx12"} /\ pc[t] \notin {"idle", "alloc"} /\ Staged(call[t]) =>
       /\ staging[t] # None
       /\ call[t].op = "upload" => staging[t] = Fresh(call[t].arg)
  /\ api \in {"levelzero", "metal"} /\ pc[t] \notin {"idle", "alloc", "done"} =>
       call[t].op = "dispatch"
  /\ api = "opengl" => pc[t] \in {"idle", "alloc", "done"}

\* A buffer under construction is in no other call.
Apart(t, u) ==
  t # u /\ call[t] # None /\ call[u] # None /\ Creating(call[t]) => call[t].buf # call[u].buf

Common ==
  /\ TypeOK
  /\ pc \in [AllCallers -> Places]
  /\ made \in 0 .. MaxCalls
  /\ \A t \in AllCallers : Carries(t)
  /\ \A t, u \in AllCallers : Apart(t, u)

Sig(t) == [by |-> t, call |-> None, signal |-> fence.next - 1]

\* Vulkan and Metal: any number of threads, each with a work of its own.
SharedQueue ==
  /\ \A i \in 1 .. Len(queue) :
       /\ queue[i].by \in Callers /\ queue[i] = Work(queue[i].by)
       /\ pc[queue[i].by] = "wait" /\ queue[i].by \notin landed
  /\ \A i, j \in 1 .. Len(queue) : i < j => queue[i].by # queue[j].by
  /\ \A t \in Callers : pc[t] = "wait" /\ t \notin landed =>
       \E i \in 1 .. Len(queue) : queue[i].by = t

\* Level Zero: the queue is empty but while its caller waits, the list but
\* while it is being submitted, or refuses.
LevelZeroOf(t) ==
  /\ pc[t] # "wait" => queue = <<>>
  /\ pc[t] = "wait" =>
       \/ queue = <<Work(t)>> /\ t \notin landed
       \/ queue = <<>> /\ t \in landed
  /\ pc[t] \in {"close", "submit"} => list.works = <<Work(t)>>
  /\ pc[t] # "close" /\ list.open => list.works = <<>>

LevelZeroQueue == (Callers = {} => queue = <<>>) /\ \A t \in Callers : LevelZeroOf(t)

\* Direct3D 12: the fence is behind while its signal is in the queue.
Dx12Of(t) ==
  /\ pc[t] \notin {"signal", "wait"} => queue = <<>> /\ fence.done = fence.next - 1
  /\ pc[t] = "signal" =>
       /\ fence.done = fence.next - 1
       /\ \/ queue = <<Work(t)>> /\ t \notin landed
          \/ queue = <<>> /\ t \in landed
  /\ pc[t] = "wait" =>
       \/ queue = <<Work(t), Sig(t)>> /\ t \notin landed /\ fence.done = fence.next - 2
       \/ queue = <<Sig(t)>> /\ t \in landed /\ fence.done = fence.next - 2
       \/ queue = <<>> /\ t \in landed /\ fence.done = fence.next - 1
  /\ pc[t] = "record" => list.works = <<>>
  /\ pc[t] \in {"close", "submit"} => list.works = <<Work(t)>>
  /\ pc[t] \in Early \cup {"signal"} => fence.next <= made

Dx12Queue ==
  /\ Callers = {} => queue = <<>>
  /\ fence.next <= made + 1
  /\ \A t \in Callers : Dx12Of(t)

\* OpenGL: the driver keeps what it was given, which is of calls that returned
\* or are about to.
OpenGLQueue ==
  /\ \A i \in 1 .. Len(queue) :
       /\ queue[i].by \in Callers /\ queue[i].signal = 0
       /\ queue[i].call.op \in {"upload", "dispatch"} /\ queue[i].call.nth <= made
       /\ call[queue[i].by] = queue[i].call => queue[i].by \in landed
  /\ \A t \in Callers : pc[t] = "done" /\ call[t].op = "download" => queue = <<>>

QueueInv ==
  /\ api \in {"vulkan", "metal"} => SharedQueue
  /\ api = "levelzero" => LevelZeroQueue
  /\ api = "dx12" => Dx12Queue
  /\ api = "opengl" => OpenGLQueue

IInv == Common /\ QueueInv

\* What the GPU has of the APIs that wait: works of threads that wait for them.
Waited ==
  \A i \in 1 .. Len(queue) : queue[i].signal = 0 =>
    /\ queue[i].by \in Callers /\ queue[i] = Work(queue[i].by)
    /\ pc[queue[i].by] \in {"signal", "wait"} /\ queue[i].by \notin landed

\* Vulkan, with one caller: the descriptor set is the current dispatch's.
BoundInv ==
  api = "vulkan" => \A t \in Callers :
    pc[t] \notin {"idle", "alloc"} /\ call[t].op = "dispatch" =>
      bound[call[t].arg] = call[t].buf

-----------------------------------------------------------------------------
(***************************************************************************)
(* Types.                                                                  *)
(***************************************************************************)
LEMMA CallFields ==
  ASSUME NEW c \in CallTypes
  PROVE  /\ c # None /\ c.buf \in Buffers /\ c.nth \in 1 .. MaxCalls
         /\ c.op \in {"upload", "device_buffer", "download", "dispatch"}
         /\ c.op = "upload" => c.arg \in Data
         /\ c.op = "dispatch" => c.arg \in Pipelines
<1>1. c \in Numbered(Nat)
  BY GpuWorkAssumption DEF CallTypes, Numbered
<1>2. c # None
  BY <1>1, GpuWorkAssumption
<1> QED
  BY <1>2 DEF CallTypes, Numbered

LEMMA ContentsFields ==
  ASSUME NEW m \in Contents
  PROVE  m # None /\ m.data \in Data \cup {Uninit} /\ m.runs \in Nat
BY GpuWorkAssumption DEF Contents

LEMMA FreshType ==
  ASSUME NEW d \in Data \cup {Uninit}
  PROVE  Fresh(d) \in Contents /\ Fresh(d) # None
<1>1. Fresh(d) \in Contents
  BY DEF Fresh, Contents
<1> QED
  BY <1>1, ContentsFields

LEMMA RunType ==
  ASSUME NEW m \in Contents
  PROVE  [m EXCEPT !.runs = @ + 1] \in Contents
BY DEF Contents

LEMMA WorkType ==
  ASSUME NEW t \in AllCallers, call[t] \in CallTypes
  PROVE  Work(t) \in Works
BY DEF Work, Works

\* A caller of the instance's API, and what its call looks like.
LEMMA CallersAll == Callers \subseteq AllCallers \/ api \notin Apis
BY DEF Callers, AllCallers

LEMMA InCall ==
  ASSUME Common, NEW t \in AllCallers, pc[t] # "idle"
  PROVE  /\ call[t] \in CallTypes /\ call[t] # None /\ mem[call[t].buf] # None
         /\ call[t].buf \in Buffers /\ t \in Callers
BY CallFields DEF Common, TypeOK, Carries

\* The types of what a step of a call may change, its own place apart.
Shapes ==
  /\ mem \in [Buffers -> Contents \cup {None}]
  /\ staging \in [AllCallers -> Contents \cup {None}]
  /\ queue \in Seq(Works \cup Signals)
  /\ list \in [open : BOOLEAN, works : Seq(Works)]
  /\ bound \in [Pipelines -> Buffers \cup {None}]
  /\ fence \in [done : 0 .. MaxCalls, next : 1 .. MaxCalls + 1]

-----------------------------------------------------------------------------
(***************************************************************************)
(* What every API's steps keep: Common, by the shapes of the steps.        *)
(***************************************************************************)
\* A thread goes on within its call.
LEMMA MoveCommon ==
  ASSUME Common, NEW t \in AllCallers, pc[t] # "idle",
         NEW q \in Places \ {"idle"}, pc' = [pc EXCEPT ![t] = q],
         UNCHANGED <<api, call, result, made>>, Shapes',
         landed' = landed \/ landed' = landed \cup {t},
         \A b \in Buffers : mem[b] # None => mem'[b] # None,
         \A u \in AllCallers : u # t => staging'[u] = staging[u],
         q \in {"submit", "wait", "read"} /\ Staged(call[t]) => staging'[t] # None,
         Carries(t)'
  PROVE  Common'
<1>1. call[t] # None /\ call[t] \in CallTypes
  BY InCall
<1>2. \A u \in AllCallers : call[u] # None => call[u].buf \in Buffers
  BY CallFields DEF Common, TypeOK
<1>3. TypeOK'
  <2>1. \A u \in AllCallers :
          /\ (pc'[u] = "idle") <=> (call'[u] = None)
          /\ call'[u] # None => mem'[call'[u].buf] # None
    BY <1>1, <1>2 DEF Common, TypeOK
  <2>2. \A u \in AllCallers :
          pc'[u] \in {"submit", "wait", "read"} /\ Staged(call'[u]) => staging'[u] # None
    BY DEF Common, TypeOK
  <2>3. landed' \subseteq {u \in AllCallers : call'[u] # None}
    BY <1>1 DEF Common, TypeOK
  <2> QED
    BY <2>1, <2>2, <2>3 DEF Common, TypeOK, Shapes, Staged
<1>4. \A u \in AllCallers : u # t => Carries(u)'
  <2> SUFFICES ASSUME NEW u \in AllCallers, u # t
               PROVE  Carries(u)'
    OBVIOUS
  <2>1. /\ pc'[u] = pc[u] /\ call'[u] = call[u] /\ staging'[u] = staging[u]
        /\ result'[u] = result[u] /\ (u \in landed' <=> u \in landed)
    BY DEF Common
  <2> QED
    BY <2>1 DEF Common, Carries, Callers, Staged
<1>5. \A u, v \in AllCallers : Apart(u, v)'
  BY DEF Common, Apart, Creating
<1> QED
  BY <1>3, <1>4, <1>5 DEF Common

\* The host copies in or out of a buffer.
LEMMA HostCommon ==
  ASSUME Common, NEW t \in AllCallers, pc[t] = "alloc", Staged(call[t]),
         api \in {"levelzero", "metal"}, pc' = [pc EXCEPT ![t] = "done"],
         mem' = IF call[t].op = "upload" THEN [mem EXCEPT ![call[t].buf] = Fresh(call[t].arg)] ELSE mem,
         staging' = [staging EXCEPT ![t] = IF call[t].op = "download" THEN mem[call[t].buf] ELSE None],
         landed' = landed \cup {t},
         UNCHANGED <<api, call, queue, list, bound, fence, result, made>>
  PROVE  Common'
<1>1. call[t] \in CallTypes /\ call[t].buf \in Buffers /\ mem[call[t].buf] # None
  BY InCall
<1>2. call[t].op = "upload" => Fresh(call[t].arg) \in Contents /\ Fresh(call[t].arg) # None
  BY <1>1, CallFields, FreshType
<1>3. Shapes'
  BY <1>1, <1>2 DEF Shapes, Common, TypeOK
<1>4. Carries(t)'
  BY DEF Common, TypeOK, Carries, Callers, Staged, Early
<1> QED
  BY <1>1, <1>2, <1>3, <1>4, MoveCommon DEF Places, Common, TypeOK

\* A call ends, well or not.
LEMMA EndCommon ==
  ASSUME Common, NEW t \in AllCallers, pc[t] # "idle", NEW ok \in BOOLEAN, End(t, ok),
         list' \in [open : BOOLEAN, works : Seq(Works)]
  PROVE  Common'
<1>1. call[t] # None /\ call[t] \in CallTypes /\ call[t].buf \in Buffers
  BY InCall
<1>2. \A u \in AllCallers : call[u] # None => call[u].buf \in Buffers
  BY CallFields DEF Common, TypeOK
<1>3. /\ pc' = [pc EXCEPT ![t] = "idle"] /\ call' = [call EXCEPT ![t] = None]
      /\ landed' = landed \ {t} /\ staging' = [staging EXCEPT ![t] = None]
      /\ UNCHANGED <<api, queue, bound, fence, made>>
  BY DEF End, Goto
<1>4. mem' \in [Buffers -> Contents \cup {None}]
  BY DEF End, Common, TypeOK
<1>5. result' \in [AllCallers -> Contents \cup {None}] /\ \A u \in AllCallers : u # t => result'[u] = result[u]
  BY DEF End, Common, TypeOK
<1>6. \A u \in AllCallers : u # t /\ call[u] # None => mem'[call[u].buf] # None
  BY <1>1, <1>2 DEF End, Common, TypeOK, Apart
<1>7. TypeOK'
  BY <1>1, <1>3, <1>4, <1>5, <1>6 DEF Common, TypeOK, Staged
<1>8. \A u \in AllCallers : Carries(u)'
  <2>1. Carries(t)'
    BY <1>3 DEF Common, Carries, Callers, TypeOK, Staged
  <2>2. ASSUME NEW u \in AllCallers, u # t PROVE Carries(u)'
    <3>1. /\ pc'[u] = pc[u] /\ call'[u] = call[u] /\ staging'[u] = staging[u]
          /\ result'[u] = result[u] /\ (u \in landed' <=> u \in landed)
      BY <1>3, <1>5, <2>2 DEF Common, TypeOK
    <3> QED
      BY <3>1, <1>3 DEF Common, Carries, Callers, Staged
  <2> QED
    BY <2>1, <2>2
<1>9. \A u, v \in AllCallers : Apart(u, v)'
  BY <1>3 DEF Common, TypeOK, Apart, Creating
<1> QED
  BY <1>3, <1>7, <1>8, <1>9 DEF Common, Places

LEMMA BeginCommon ==
  ASSUME Common, NEW t \in Callers, NEW c \in Numbered({made + 1}), Begin(t, c, "alloc"),
         t \in AllCallers
  PROVE  Common'
<1>1. c \in CallTypes
  <2>1. made + 1 \in 1 .. MaxCalls
    BY GpuWorkAssumption DEF Common, Begin
  <2> QED
    BY <2>1 DEF CallTypes, Numbered
<1>2. c # None /\ c.buf \in Buffers
  BY <1>1, CallFields
<1>3. \A u \in AllCallers : call[u] # None => call[u].buf \in Buffers
  BY CallFields DEF Common, TypeOK
<1>4. /\ pc[t] = "idle" /\ made < MaxCalls /\ c.nth = made + 1
      /\ pc' = [pc EXCEPT ![t] = "alloc"] /\ call' = [call EXCEPT ![t] = c]
      /\ landed' = landed \ {t} /\ result' = [result EXCEPT ![t] = None] /\ made' = made + 1
      /\ UNCHANGED <<api, staging, queue, list, bound, fence>>
  BY DEF Begin, Goto
<1>5. mem' \in [Buffers -> Contents \cup {None}]
  BY FreshType DEF Begin, Common, TypeOK
<1>6. mem'[c.buf] # None /\ \A b \in Buffers : mem[b] # None => mem'[b] # None
  BY <1>2, FreshType DEF Begin, Common, TypeOK
<1>7. TypeOK'
  <2>1. \A u \in AllCallers :
          /\ (pc'[u] = "idle") <=> (call'[u] = None)
          /\ call'[u] # None => mem'[call'[u].buf] # None
    BY <1>2, <1>3, <1>4, <1>6 DEF Common, TypeOK
  <2>2. \A u \in AllCallers :
          pc'[u] \in {"submit", "wait", "read"} /\ Staged(call'[u]) => staging'[u] # None
    BY <1>4 DEF Common, TypeOK
  <2>3. /\ call' \in [AllCallers -> CallTypes \cup {None}]
        /\ landed' \subseteq {u \in AllCallers : call'[u] # None}
        /\ result' \in [AllCallers -> Contents \cup {None}]
    BY <1>1, <1>2, <1>4 DEF Common, TypeOK
  <2> QED
    BY <1>4, <1>5, <2>1, <2>2, <2>3 DEF Common, TypeOK, Staged
<1>8. \A u \in AllCallers : Carries(u)'
  <2>1. Carries(t)'
    BY <1>2, <1>4 DEF Common, Carries, Callers, TypeOK, Staged
  <2>2. ASSUME NEW u \in AllCallers, u # t PROVE Carries(u)'
    <3>1. /\ pc'[u] = pc[u] /\ call'[u] = call[u] /\ staging'[u] = staging[u]
          /\ result'[u] = result[u] /\ (u \in landed' <=> u \in landed)
      BY <1>4, <2>2 DEF Common, TypeOK
    <3>2. call[u] # None => call[u].nth <= made'
      BY <1>4, CallFields DEF Common, TypeOK, Carries
    <3> QED
      BY <3>1, <3>2, <1>4 DEF Common, Carries, Callers, Staged
  <2> QED
    BY <2>1, <2>2
<1>9. \A u, v \in AllCallers : Apart(u, v)'
  <2>1. \A u \in AllCallers : u # t /\ call[u] # None => ~ (Creating(c) /\ call[u].buf = c.buf)
    BY <1>3 DEF Begin, Common, TypeOK
  <2>2. \A u \in AllCallers : u # t /\ call[u] # None => ~ (Creating(call[u]) /\ call[u].buf = c.buf)
    BY <2>1 DEF Begin, Common, TypeOK, Constructing
  <2> QED
    BY <1>4, <2>1, <2>2 DEF Common, TypeOK, Apart, Creating
<1> QED
  BY <1>4, <1>7, <1>8, <1>9, GpuWorkAssumption DEF Common, Places

LEMMA DropCommon ==
  ASSUME Common, NEW b \in Buffers, DropBuffer(b)
  PROVE  Common'
<1>1. /\ mem' = [mem EXCEPT ![b] = None]
      /\ UNCHANGED <<api, pc, call, staging, queue, list, bound, fence, landed, result, made>>
  BY DEF DropBuffer
<1>2. \A u \in AllCallers : call[u] # None => call[u].buf # b /\ call[u].buf \in Buffers
  BY CallFields DEF DropBuffer, InUse, Common, TypeOK
<1>3. TypeOK'
  BY <1>1, <1>2 DEF Common, TypeOK, Staged
<1>4. \A u \in AllCallers : Carries(u)'
  BY <1>1 DEF Common, Carries, Callers, Staged
<1>5. \A u, v \in AllCallers : Apart(u, v)'
  BY <1>1 DEF Common, Apart, Creating
<1> QED
  BY <1>1, <1>3, <1>4, <1>5 DEF Common

-----------------------------------------------------------------------------
(***************************************************************************)
(* The GPU's steps.                                                        *)
(***************************************************************************)
\* The work the GPU is to run next is its thread's call, and the thread waits.
LEMMA HeadWaited ==
  ASSUME Common, Waited, queue # <<>>, Head(queue).signal = 0
  PROVE  LET w == Head(queue) IN
         /\ w.by \in AllCallers /\ w.by \in Callers /\ w = Work(w.by)
         /\ w.call = call[w.by] /\ call[w.by] \in CallTypes /\ call[w.by] # None
         /\ mem[call[w.by].buf] # None /\ call[w.by].buf \in Buffers
         /\ pc[w.by] \in {"signal", "wait"} /\ w.by \notin landed /\ Current(w)
         /\ Staged(call[w.by]) => staging[w.by] # None
<1> DEFINE w == Head(queue)
<1>1. queue \in Seq(Works \cup Signals)
  BY DEF Common, TypeOK
<1>2. w = queue[1] /\ 1 \in 1 .. Len(queue)
  BY <1>1, HeadTailProperties, EmptySeq
<1>3. /\ w.by \in Callers /\ w = Work(w.by)
      /\ pc[w.by] \in {"signal", "wait"} /\ w.by \notin landed
  BY <1>2 DEF Waited
<1>4. w.by \in AllCallers
  BY <1>3 DEF Callers, AllCallers, Common, TypeOK
<1>5. w.call = call[w.by]
  BY <1>3 DEF Work
<1>6. Staged(call[w.by]) => staging[w.by] # None
  <2>1. call[w.by] # None /\ call[w.by] \in CallTypes
    BY <1>3, <1>4, InCall
  <2>2. api \in {"vulkan", "dx12", "levelzero", "metal", "opengl"}
    BY GpuWorkAssumption DEF Common, TypeOK
  <2> QED
    BY <1>3, <1>4, <2>1, <2>2 DEF Common, Carries, Staged
<1> QED
  BY <1>3, <1>4, <1>5, <1>6, InCall DEF Current

LEMMA RunCommon ==
  ASSUME Common, Waited, GpuRun, api # "opengl"
  PROVE  Common'
<1> DEFINE w == Head(queue)
           t == w.by
<1>1. queue # <<>> /\ w.signal = 0
  BY DEF GpuRun
<1>2. /\ t \in AllCallers /\ t \in Callers /\ w.call = call[t] /\ call[t] \in CallTypes
      /\ call[t] # None /\ mem[call[t].buf] # None /\ call[t].buf \in Buffers
      /\ pc[t] \in {"signal", "wait"} /\ t \notin landed /\ Current(w)
      /\ Staged(call[t]) => staging[t] # None
  BY <1>1, HeadWaited
<1>3. /\ landed' = landed \cup {t} /\ queue' = Tail(queue) /\ Run(w)
      /\ UNCHANGED <<api, pc, call, list, bound, fence, result, made>>
  BY <1>2 DEF GpuRun
<1>4. call[t].op \in {"upload", "download", "dispatch"}
  BY <1>2, CallFields DEF Common, Carries
<1>5. /\ mem' \in [Buffers -> Contents \cup {None}]
      /\ \A b \in Buffers : mem[b] # None => mem'[b] # None
  <2>1. CASE call[t].op = "upload"
    BY <1>2, <1>3, <2>1 DEF Run, Common, TypeOK, Staged
  <2>2. CASE call[t].op = "dispatch"
    <3> DEFINE b == Target(w)
    <3>1. mem' = IF mem[b] = None THEN mem ELSE [mem EXCEPT ![b].runs = @ + 1]
      BY <1>2, <1>3, <2>2 DEF Run
    <3>2. b \in Buffers /\ mem[b] # None => [mem[b] EXCEPT !.runs = @ + 1] \in Contents
      BY RunType DEF Common, TypeOK
    <3>3. \A m \in Contents : m # None
      BY ContentsFields
    <3> HIDE DEF b
    <3> QED
      BY <3>1, <3>2, <3>3, ZenonT(60) DEF Common, TypeOK
  <2>3. CASE call[t].op = "download"
    BY <1>2, <1>3, <2>3 DEF Run, Common, TypeOK
  <2> QED
    BY <1>4, <2>1, <2>2, <2>3
<1>6. /\ staging' \in [AllCallers -> Contents \cup {None}]
      /\ \A u \in AllCallers : u # t => staging'[u] = staging[u]
      /\ call[t].op # "download" => staging' = staging
      /\ call[t].op = "download" => staging'[t] # None
  <2>1. CASE call[t].op = "download"
    <3>1. staging' = [staging EXCEPT ![t] = mem[call[t].buf]]
      BY <1>2, <1>3, <2>1 DEF Run, Target
    <3> QED
      BY <1>2, <2>1, <3>1 DEF Common, TypeOK
  <2>2. CASE call[t].op # "download"
    BY <1>2, <1>3, <1>4, <2>2 DEF Run, Common, TypeOK
  <2> QED
    BY <2>1, <2>2
<1>7. queue' \in Seq(Works \cup Signals)
  BY <1>1, <1>3, HeadTailProperties DEF Common, TypeOK
<1>8. TypeOK'
  <2>1. \A u \in AllCallers :
          /\ (pc'[u] = "idle") <=> (call'[u] = None)
          /\ call'[u] # None => mem'[call'[u].buf] # None
    BY <1>3, <1>5, CallFields DEF Common, TypeOK
  <2>2. \A u \in AllCallers :
          pc'[u] \in {"submit", "wait", "read"} /\ Staged(call'[u]) => staging'[u] # None
    BY <1>2, <1>3, <1>6 DEF Common, TypeOK
  <2> QED
    BY <1>2, <1>3, <1>5, <1>6, <1>7, <2>1, <2>2 DEF Common, TypeOK, Staged
<1>9. \A u \in AllCallers : Carries(u)'
  <2>1. ASSUME NEW u \in AllCallers, u = t PROVE Carries(u)'
    <3>1. /\ pc'[u] = pc[u] /\ call'[u] = call[u] /\ result'[u] = result[u] /\ u \in landed'
          /\ staging[u] # None /\ call[u].op # "download" => staging'[u] = staging[u]
      BY <1>3, <1>6, <2>1
    <3> QED
      BY <1>2, <1>3, <1>6, <2>1, <3>1 DEF Common, Carries, Callers, Staged, Early
  <2>2. ASSUME NEW u \in AllCallers, u # t PROVE Carries(u)'
    <3>1. /\ pc'[u] = pc[u] /\ call'[u] = call[u] /\ staging'[u] = staging[u]
          /\ result'[u] = result[u] /\ (u \in landed' <=> u \in landed)
      BY <1>3, <1>6, <2>2
    <3> QED
      BY <3>1, <1>3 DEF Common, Carries, Callers, Staged
  <2> QED
    BY <2>1, <2>2
<1>10. \A u, v \in AllCallers : Apart(u, v)'
  BY <1>3 DEF Common, Apart, Creating
<1> QED
  BY <1>3, <1>8, <1>9, <1>10 DEF Common

\* OpenGL runs the calls of its stream, which have returned or are about to.
LEMMA RunIssued ==
  ASSUME Common, OpenGLQueue, GpuRun, api = "opengl"
  PROVE  /\ Common' /\ landed' = landed /\ staging' = staging
         /\ Head(queue) \in Works
         /\ mem' = IF mem[Head(queue).call.buf] = None THEN mem
                   ELSE IF Head(queue).call.op = "upload"
                     THEN [mem EXCEPT ![Head(queue).call.buf] = Fresh(Head(queue).call.arg)]
                     ELSE [mem EXCEPT ![Head(queue).call.buf].runs = @ + 1]
<1> DEFINE w == Head(queue)
<1>1. queue \in Seq(Works \cup Signals) /\ queue # <<>> /\ w.signal = 0
  BY DEF GpuRun, Common, TypeOK
<1>2. w = queue[1] /\ 1 \in 1 .. Len(queue) /\ w \in Works \cup Signals
  BY <1>1, HeadTailProperties, EmptySeq
<1>3. w \in Works
  BY <1>1, <1>2 DEF Signals
<1>4. w.call \in CallTypes /\ w.call.op \in {"upload", "dispatch"} /\ w.call.buf \in Buffers
  BY <1>2, <1>3, CallFields DEF OpenGLQueue, Works
<1>5. w.call.op = "upload" => Fresh(w.call.arg) \in Contents
  BY <1>4, CallFields, FreshType
<1>6. ~ Current(w)
  BY <1>2 DEF Current, OpenGLQueue
<1>7. /\ landed' = landed /\ queue' = Tail(queue) /\ Run(w)
      /\ UNCHANGED <<api, pc, call, list, bound, fence, result, made>>
  BY <1>6 DEF GpuRun
<1>8. /\ staging' = staging
      /\ mem' = IF mem[w.call.buf] = None THEN mem
                ELSE IF w.call.op = "upload" THEN [mem EXCEPT ![w.call.buf] = Fresh(w.call.arg)]
                ELSE [mem EXCEPT ![w.call.buf].runs = @ + 1]
  BY <1>4, <1>7 DEF Run, Target
<1>9. /\ mem' \in [Buffers -> Contents \cup {None}]
      /\ \A b \in Buffers : mem[b] # None => mem'[b] # None
  <2>1. mem[w.call.buf] # None => [mem[w.call.buf] EXCEPT !.runs = @ + 1] \in Contents
    BY <1>4, RunType DEF Common, TypeOK
  <2>2. \A m \in Contents : m # None
    BY ContentsFields
  <2> HIDE DEF w
  <2> QED
    BY <1>4, <1>5, <1>8, <2>1, <2>2 DEF Common, TypeOK
<1>10. queue' \in Seq(Works \cup Signals)
  BY <1>1, <1>7, HeadTailProperties
<1>11. TypeOK'
  <2>1. \A u \in AllCallers : call'[u] # None => mem'[call'[u].buf] # None
    BY <1>7, <1>9, CallFields DEF Common, TypeOK
  <2> QED
    BY <1>7, <1>8, <1>9, <1>10, <2>1 DEF Common, TypeOK, Staged
<1>12. \A u \in AllCallers : Carries(u)'
  BY <1>7, <1>8 DEF Common, Carries, Callers, Staged
<1>13. \A u, v \in AllCallers : Apart(u, v)'
  BY <1>7 DEF Common, Apart, Creating
<1> QED
  BY <1>3, <1>7, <1>8, <1>11, <1>12, <1>13 DEF Common

LEMMA SignalCommon ==
  ASSUME Common, GpuSignal
  PROVE  /\ Common' /\ queue' = Tail(queue) /\ fence' = [fence EXCEPT !.done = Head(queue).signal]
         /\ UNCHANGED <<api, pc, call, mem, staging, list, bound, landed, result, made>>
<1>1. /\ queue \in Seq(Works \cup Signals) /\ queue # <<>> /\ Head(queue).signal > 0
      /\ queue' = Tail(queue) /\ fence' = [fence EXCEPT !.done = Head(queue).signal]
      /\ UNCHANGED <<api, pc, call, mem, staging, list, bound, landed, result, made>>
  BY DEF GpuSignal, Common, TypeOK
<1>2. Head(queue) \in Works \cup Signals /\ queue' \in Seq(Works \cup Signals)
  BY <1>1, HeadTailProperties
<1>3. Head(queue).signal \in 1 .. MaxCalls
  BY <1>1, <1>2 DEF Works, Signals
<1>4. fence' \in [done : 0 .. MaxCalls, next : 1 .. MaxCalls + 1]
  BY <1>1, <1>3 DEF Common, TypeOK
<1>5. TypeOK'
  BY <1>1, <1>2, <1>4 DEF Common, TypeOK, Staged
<1> QED
  BY <1>1, <1>5 DEF Common, Carries, Callers, Staged, Apart, Creating

-----------------------------------------------------------------------------
(***************************************************************************)
(* Vulkan and Metal: each thread's work in a queue they share.             *)
(***************************************************************************)
\* A step of a thread that has nothing in the queue, before and after.
LEMMA SharedKept ==
  ASSUME Common, SharedQueue, NEW t \in AllCallers, queue' = queue, api' = api,
         \A u \in AllCallers : u # t =>
           pc'[u] = pc[u] /\ call'[u] = call[u] /\ (u \in landed' <=> u \in landed),
         pc[t] = "wait" => t \in landed, pc'[t] = "wait" => t \in landed'
  PROVE  SharedQueue'
<1>1. Callers \subseteq AllCallers /\ Callers' = Callers
  BY DEF Callers, AllCallers, Common, TypeOK
<1>2. \A i \in 1 .. Len(queue) : queue[i].by # t /\ queue[i].by \in AllCallers
  BY <1>1 DEF SharedQueue
<1> QED
  BY <1>1, <1>2 DEF SharedQueue, Work

LEMMA SharedEnd ==
  ASSUME Common, SharedQueue, NEW t \in AllCallers, NEW ok \in BOOLEAN, End(t, ok),
         pc[t] = "wait" => t \in landed
  PROVE  SharedQueue'
<1>1. /\ pc' = [pc EXCEPT ![t] = "idle"] /\ call' = [call EXCEPT ![t] = None]
      /\ landed' = landed \ {t} /\ api' = api /\ queue' = queue
  BY DEF End, Goto
<1> QED
  BY <1>1, SharedKept DEF Common, TypeOK

LEMMA SharedAppend ==
  ASSUME Common, SharedQueue, NEW t \in AllCallers, pc[t] # "wait", t \in Callers, t \notin landed,
         queue' = Append(queue, Work(t)), pc' = [pc EXCEPT ![t] = "wait"],
         UNCHANGED <<api, call, landed>>
  PROVE  SharedQueue'
<1>1. Callers \subseteq AllCallers /\ Callers' = Callers
  BY DEF Callers, AllCallers, Common, TypeOK
<1>2. queue \in Seq(Works \cup Signals) /\ Len(queue) \in Nat
  BY DEF Common, TypeOK
<1>3. /\ Len(queue') = Len(queue) + 1 /\ queue'[Len(queue) + 1] = Work(t)
      /\ \A i \in 1 .. Len(queue) : queue'[i] = queue[i]
  BY <1>2
<1>5. Work(t).by = t
  BY DEF Work
<1>6. \A u \in AllCallers : pc'[u] = IF u = t THEN "wait" ELSE pc[u]
  BY DEF Common
<1>7. \A i \in 1 .. Len(queue) : queue[i].by # t /\ queue[i].by \in AllCallers
  BY <1>1 DEF SharedQueue
<1>8. \A i \in 1 .. Len(queue') :
        /\ queue'[i].by \in Callers /\ queue'[i] = Work(queue'[i].by)
        /\ pc'[queue'[i].by] = "wait" /\ queue'[i].by \notin landed'
  <2> SUFFICES ASSUME NEW i \in 1 .. Len(queue')
               PROVE  /\ queue'[i].by \in Callers /\ queue'[i] = Work(queue'[i].by)
                      /\ pc'[queue'[i].by] = "wait" /\ queue'[i].by \notin landed'
    OBVIOUS
  <2>1. CASE i = Len(queue) + 1
    BY <2>1, <1>3, <1>5, <1>6
  <2>2. CASE i # Len(queue) + 1
    <3>1. i \in 1 .. Len(queue)
      BY <2>2, <1>2, <1>3
    <3>2. queue'[i] = queue[i]
      BY <3>1, <1>3
    <3>3. /\ queue[i].by \in Callers /\ queue[i] = Work(queue[i].by)
          /\ pc[queue[i].by] = "wait" /\ queue[i].by \notin landed
      BY <3>1 DEF SharedQueue
    <3> QED
      BY <3>1, <3>2, <3>3, <1>6, <1>7
  <2> QED
    BY <2>1, <2>2
<1>9. \A i, j \in 1 .. Len(queue') : i < j => queue'[i].by # queue'[j].by
  BY <1>2, <1>3, <1>5, <1>7, SMTT(40) DEF SharedQueue
<1>10. ASSUME NEW u \in Callers, pc'[u] = "wait", u \notin landed'
       PROVE  \E i \in 1 .. Len(queue') : queue'[i].by = u
  <2>1. CASE u = t
    BY <2>1, <1>2, <1>3, <1>5
  <2>2. CASE u # t
    <3>1. PICK i \in 1 .. Len(queue) : queue[i].by = u
      BY <2>2, <1>1, <1>6, <1>10 DEF SharedQueue
    <3> QED
      BY <3>1, <1>2, <1>3
  <2> QED
    BY <2>1, <2>2
<1> QED
  BY <1>1, <1>8, <1>9, <1>10 DEF SharedQueue, Work

LEMMA SharedRun ==
  ASSUME Common, SharedQueue, queue # <<>>, queue' = Tail(queue),
         landed' = landed \cup {Head(queue).by}, UNCHANGED <<api, pc, call>>
  PROVE  SharedQueue'
<1>1. Callers \subseteq AllCallers /\ Callers' = Callers
  BY DEF Callers, AllCallers, Common, TypeOK
<1>2. /\ queue \in Seq(Works \cup Signals) /\ Len(queue) \in Nat /\ Len(queue') = Len(queue) - 1
      /\ Head(queue) = queue[1] /\ Len(queue) >= 1
      /\ \A i \in 1 .. Len(queue') : queue'[i] = queue[i + 1] /\ i + 1 \in 1 .. Len(queue)
  BY EmptySeq DEF Common, TypeOK
<1>4. ASSUME NEW i \in 1 .. Len(queue')
      PROVE  /\ queue'[i].by \in Callers /\ queue'[i] = Work(queue'[i].by)
             /\ pc'[queue'[i].by] = "wait" /\ queue'[i].by \notin landed'
  <2>1. /\ queue[i + 1].by \in Callers /\ queue[i + 1] = Work(queue[i + 1].by)
        /\ pc[queue[i + 1].by] = "wait" /\ queue[i + 1].by \notin landed
    BY <1>2, <1>4 DEF SharedQueue
  <2>2. queue[i + 1].by # queue[1].by
    BY <1>2, <1>4 DEF SharedQueue
  <2> QED
    BY <2>1, <2>2, <1>2, <1>4
<1>5. \A i, j \in 1 .. Len(queue') : i < j => queue'[i].by # queue'[j].by
  BY <1>2 DEF SharedQueue
<1>6. ASSUME NEW u \in Callers, pc[u] = "wait", u \notin landed'
      PROVE  \E i \in 1 .. Len(queue') : queue'[i].by = u
  <2>1. PICK i \in 1 .. Len(queue) : queue[i].by = u
    BY <1>6 DEF SharedQueue
  <2>2. i # 1
    BY <2>1, <1>2, <1>6
  <2>3. i - 1 \in 1 .. Len(queue') /\ (i - 1) + 1 = i
    BY <2>1, <2>2, <1>2
  <2> QED
    BY <2>1, <2>3, <1>2
<1> QED
  BY <1>1, <1>4, <1>5, <1>6 DEF SharedQueue, Work

LEMMA NeverAbandons ==
  ASSUME NoneAbandoned
  PROVE  /\ <<"vulkan", "wait">> \notin MayFail
         /\ <<"dx12", "signal">> \notin MayFail /\ <<"dx12", "device">> \notin MayFail
         /\ <<"levelzero", "close">> \notin MayFail /\ <<"levelzero", "wait">> \notin MayFail
         /\ <<"metal", "device">> \notin MayFail
BY DEF NoneAbandoned, Abandoning

LEMMA VulkanNames ==
  ASSUME NEW t
  PROVE  /\ Vulkan!Work(t) = Work(t)
         /\ \A ok : Vulkan!End(t, ok) <=> End(t, ok)
         /\ \A place : Vulkan!Fails(t, place) <=> Fails(t, place)
         /\ Vulkan!DeviceBuffer(t) <=> DeviceBuffer(t)
<1>1. \A ok : Vulkan!End(t, ok) <=> End(t, ok)
  BY DEF Vulkan!End, End, Vulkan!Creating, Creating, Vulkan!Goto, Goto
<1>2. \A place : Vulkan!Fails(t, place) <=> Fails(t, place)
  BY <1>1 DEF Vulkan!Fails, Fails, Vulkan!CanFail, CanFail
<1> QED
  BY <1>1, <1>2 DEF Vulkan!Work, Work, Vulkan!DeviceBuffer, DeviceBuffer

LEMMA VulkanKeeps ==
  ASSUME Common, SharedQueue, NoneAbandoned, api = "vulkan",
         NEW t \in AllCallers, t \in Callers, Vulkan!CallStep(t)
  PROVE  Common' /\ SharedQueue'
<1>1. ASSUME pc[t] \notin {"idle", "wait"}, NEW ok \in BOOLEAN, End(t, ok), list' = list
      PROVE  Common' /\ SharedQueue'
  BY <1>1, EndCommon, SharedEnd DEF Common, TypeOK
<1>2. ASSUME pc[t] \notin {"idle", "wait"}, NEW place, Fails(t, place)
      PROVE  Common' /\ SharedQueue'
  BY <1>1, <1>2 DEF Fails
<1>3. CASE DeviceBuffer(t)
  BY <1>1, <1>2, <1>3 DEF DeviceBuffer
<1>4. CASE Vulkan!Stage(t)
  <2>1. CASE Fails(t, "alloc")
    BY <1>2, <1>4, <2>1 DEF Vulkan!Stage
  <2>2. CASE ~ Fails(t, "alloc")
    <3>1. /\ pc[t] = "alloc" /\ Staged(call[t]) /\ pc' = [pc EXCEPT ![t] = "record"]
          /\ staging' = [staging EXCEPT ![t] = IF call[t].op = "upload" THEN Fresh(call[t].arg) ELSE Fresh(Uninit)]
          /\ UNCHANGED <<api, call, mem, queue, list, bound, fence, landed, result, made>>
      BY <1>4, <2>2, VulkanNames DEF Vulkan!Stage, Vulkan!Staged, Staged, Vulkan!Goto, Vulkan!Fresh, Fresh
    <3>2. call[t].op = "upload" => Fresh(call[t].arg) \in Contents /\ Fresh(call[t].arg) # None
      BY <3>1, InCall, CallFields, FreshType
    <3>3. Fresh(Uninit) \in Contents /\ Fresh(Uninit) # None
      BY FreshType
    <3>4. Shapes'
      BY <3>1, <3>2, <3>3 DEF Shapes, Common, TypeOK
    <3>5. Carries(t)'
      BY <3>1, <3>2, <3>3 DEF Common, TypeOK, Carries, Callers, Staged, Early
    <3>6. Common'
      BY <3>1, <3>4, <3>5, MoveCommon DEF Places, Common, TypeOK
    <3> QED
      BY <3>1, <3>6, SharedKept DEF Common
  <2> QED
    BY <2>1, <2>2
<1>5. CASE Vulkan!Bind(t)
  <2>1. /\ pc[t] = "alloc" /\ call[t].op = "dispatch" /\ pc' = [pc EXCEPT ![t] = "record"]
        /\ bound' = [bound EXCEPT ![call[t].arg] = call[t].buf]
        /\ UNCHANGED <<api, call, mem, staging, queue, list, fence, landed, result, made>>
    BY <1>5 DEF Vulkan!Bind, Vulkan!Goto
  <2>2. Shapes'
    BY <2>1, InCall DEF Shapes, Common, TypeOK
  <2>3. Carries(t)'
    BY <2>1 DEF Common, TypeOK, Carries, Callers, Staged, Early
  <2>4. Common'
    BY <2>1, <2>2, <2>3, MoveCommon DEF Places
  <2> QED
    BY <2>1, <2>4, SharedKept DEF Common
<1>6. CASE Vulkan!Record(t)
  <2>1. CASE Fails(t, "record")
    BY <1>2, <1>6, <2>1 DEF Vulkan!Record
  <2>2. CASE ~ Fails(t, "record")
    <3>1. /\ pc[t] = "record" /\ pc' = [pc EXCEPT ![t] = "submit"]
          /\ UNCHANGED <<api, call, mem, staging, queue, list, bound, fence, landed, result, made>>
      BY <1>6, <2>2, VulkanNames DEF Vulkan!Record, Vulkan!Goto
    <3>2. Shapes' /\ Carries(t)' /\ (Staged(call[t]) => staging'[t] # None)
      BY <3>1 DEF Shapes, Common, TypeOK, Carries, Callers, Staged, Early
    <3>3. Common'
      BY <3>1, <3>2, MoveCommon DEF Places
    <3> QED
      BY <3>1, <3>3, SharedKept DEF Common
  <2> QED
    BY <2>1, <2>2
<1>7. CASE Vulkan!QueueSubmit(t)
  <2>1. CASE Fails(t, "submit")
    BY <1>2, <1>7, <2>1 DEF Vulkan!QueueSubmit
  <2>2. CASE ~ Fails(t, "submit")
    <3>1. /\ pc[t] = "submit" /\ pc' = [pc EXCEPT ![t] = "wait"] /\ queue' = Append(queue, Work(t))
          /\ UNCHANGED <<api, call, mem, staging, list, bound, fence, landed, result, made>>
      BY <1>7, <2>2, VulkanNames DEF Vulkan!QueueSubmit, Vulkan!Goto
    <3>2. Work(t) \in Works
      BY <3>1, InCall, WorkType
    <3>3. Shapes' /\ Carries(t)' /\ (Staged(call[t]) => staging'[t] # None)
      BY <3>1, <3>2 DEF Shapes, Common, TypeOK, Carries, Callers, Staged, Early
    <3>4. Common'
      BY <3>1, <3>3, MoveCommon DEF Places
    <3> QED
      BY <3>1, <3>4, SharedAppend DEF Common, Carries, Early
  <2> QED
    BY <2>1, <2>2
<1>8. CASE Vulkan!WaitIdle(t)
  <2>1. ~ Fails(t, "wait")
    BY NeverAbandons DEF Fails, CanFail
  <2>2. /\ pc[t] = "wait" /\ queue = <<>>
        /\ pc' = [pc EXCEPT ![t] = IF call[t].op = "download" THEN "read" ELSE "done"]
        /\ UNCHANGED <<api, call, mem, staging, queue, list, bound, fence, landed, result, made>>
    BY <1>8, <2>1, VulkanNames DEF Vulkan!WaitIdle, Vulkan!Goto
  <2>3. t \in landed
    BY <2>2 DEF SharedQueue
  <2>4. Shapes' /\ Carries(t)' /\ (Staged(call[t]) => staging'[t] # None)
    BY <2>2, <2>3 DEF Shapes, Common, TypeOK, Carries, Callers, Staged, Early
  <2>5. Common'
    BY <2>2, <2>4, MoveCommon DEF Places
  <2> QED
    BY <2>2, <2>3, <2>5, SharedKept DEF Common
<1>9. CASE Vulkan!Finish(t)
  BY <1>1, <1>2, <1>9, VulkanNames DEF Vulkan!Finish
<1> QED
  BY <1>3, <1>4, <1>5, <1>6, <1>7, <1>8, <1>9, VulkanNames DEF Vulkan!CallStep

LEMMA ImmediateNames ==
  ASSUME NEW t
  PROVE  /\ Immediate!Work(t) = Work(t)
         /\ \A ok : Immediate!End(t, ok) <=> End(t, ok)
         /\ \A place : Immediate!Fails(t, place) <=> Fails(t, place)
         /\ Immediate!DeviceBuffer(t) <=> DeviceBuffer(t)
<1>1. \A ok : Immediate!End(t, ok) <=> End(t, ok)
  BY DEF Immediate!End, End, Immediate!Creating, Creating, Immediate!Goto, Goto
<1>2. \A place : Immediate!Fails(t, place) <=> Fails(t, place)
  BY <1>1 DEF Immediate!Fails, Fails, Immediate!CanFail, CanFail
<1> QED
  BY <1>1, <1>2 DEF Immediate!Work, Work, Immediate!DeviceBuffer, DeviceBuffer

\* Either keeps all, or appends the thread's work.
LEMMA MetalKeeps ==
  ASSUME Common, SharedQueue, NoneAbandoned, api = "metal",
         NEW t \in AllCallers, t \in Callers, Immediate!CallStep(t)
  PROVE  Common' /\ SharedQueue'
<1>1. ASSUME pc[t] \notin {"idle", "wait"}, NEW ok \in BOOLEAN, End(t, ok), list' = list
      PROVE  Common' /\ SharedQueue'
  BY <1>1, EndCommon, SharedEnd DEF Common, TypeOK
<1>2. ASSUME pc[t] \notin {"idle", "wait"}, NEW place, Fails(t, place)
      PROVE  Common' /\ SharedQueue'
  BY <1>1, <1>2 DEF Fails
<1>3. CASE DeviceBuffer(t)
  BY <1>1, <1>2, <1>3 DEF DeviceBuffer
<1>4. CASE Immediate!HostCopy(t)
  <2>1. CASE Fails(t, "alloc")
    BY <1>2, <1>4, <2>1 DEF Immediate!HostCopy, Immediate!Metal
  <2>2. CASE ~ Fails(t, "alloc")
    <3>1. /\ pc[t] = "alloc" /\ Staged(call[t]) /\ pc' = [pc EXCEPT ![t] = "done"]
          /\ mem' = IF call[t].op = "upload" THEN [mem EXCEPT ![call[t].buf] = Fresh(call[t].arg)] ELSE mem
          /\ staging' = [staging EXCEPT ![t] = IF call[t].op = "download" THEN mem[call[t].buf] ELSE None]
          /\ landed' = landed \cup {t}
          /\ UNCHANGED <<api, call, queue, list, bound, fence, result, made>>
      BY <1>4, <2>2, ImmediateNames
         DEF Immediate!HostCopy, Immediate!Metal, Immediate!Staged, Staged, Immediate!Goto,
             Immediate!Fresh, Fresh
    <3>2. Common'
      BY <3>1, HostCommon
    <3> QED
      BY <3>1, <3>2, SharedKept DEF Common
  <2> QED
    BY <2>1, <2>2
<1>5. CASE Immediate!Commit(t)
  <2>1. /\ pc[t] = "alloc" /\ call[t].op = "dispatch" /\ pc' = [pc EXCEPT ![t] = "wait"]
        /\ queue' = Append(queue, Work(t))
        /\ UNCHANGED <<api, call, mem, staging, list, bound, fence, landed, result, made>>
    BY <1>5, ImmediateNames DEF Immediate!Commit, Immediate!Metal, Immediate!Goto
  <2>2. Work(t) \in Works
    BY <2>1, InCall, WorkType
  <2>3. Shapes' /\ Carries(t)' /\ ~ Staged(call[t])
    BY <2>1, <2>2 DEF Shapes, Common, TypeOK, Carries, Callers, Staged, Early
  <2>4. Common'
    BY <2>1, <2>3, MoveCommon DEF Places
  <2> QED
    BY <2>1, <2>4, SharedAppend DEF Common, Carries, Early
<1>6. CASE Immediate!WaitUntilCompleted(t)
  <2>1. /\ pc[t] = "wait" /\ t \in landed /\ pc' = [pc EXCEPT ![t] = "done"]
        /\ UNCHANGED <<api, call, mem, staging, queue, list, bound, fence, landed, result, made>>
    BY <1>6, NeverAbandons DEF Immediate!WaitUntilCompleted, Immediate!Goto, Immediate!CanFail
  <2>2. Shapes' /\ Carries(t)'
    BY <2>1 DEF Shapes, Common, TypeOK, Carries, Callers, Staged, Early
  <2>3. Common'
    BY <2>1, <2>2, MoveCommon DEF Places
  <2> QED
    BY <2>1, <2>3, SharedKept DEF Common
<1>7. CASE Immediate!Finish(t)
  BY <1>1, <1>7, ImmediateNames DEF Immediate!Finish
<1> QED
  BY <1>3, <1>4, <1>5, <1>6, <1>7, ImmediateNames
     DEF Immediate!CallStep, Immediate!Issue, Immediate!ReadBytes, Immediate!OpenGL

-----------------------------------------------------------------------------
(***************************************************************************)
(* OpenGL: one caller's stream of commands.                                *)
(***************************************************************************)
LEMMA SoleCaller ==
  ASSUME Common, api \in {"dx12", "levelzero", "opengl"}
  PROVE  \A t, u \in Callers : t = u
BY GpuWorkAssumption DEF Common, TypeOK, Callers

\* A step that gives the driver nothing.
LEMMA OpenGLKept ==
  ASSUME Common, OpenGLQueue, NEW t \in AllCallers, queue' = queue, api' = api, made' >= made, made' \in Nat,
         \A u \in AllCallers : u # t => call'[u] = call[u] /\ (u \in landed' <=> u \in landed),
         \/ call'[t] = None
         \/ call'[t] = call[t] /\ (t \in landed => t \in landed')
         \/ call'[t].nth > made,
         api = "opengl", t \in Callers, pc'[t] = "done" /\ call'[t].op = "download" => queue = <<>>
  PROVE  OpenGLQueue'
<1>1. Callers \subseteq AllCallers /\ Callers' = Callers
  BY DEF Callers, AllCallers, Common, TypeOK
<1>2. queue \in Seq(Works \cup Signals) /\ made \in Nat
  BY GpuWorkAssumption DEF Common, TypeOK
<1> SUFFICES ASSUME NEW i \in 1 .. Len(queue)
             PROVE  /\ queue[i].by \in Callers /\ queue[i].signal = 0
                    /\ queue[i].call.op \in {"upload", "dispatch"} /\ queue[i].call.nth <= made'
                    /\ call'[queue[i].by] = queue[i].call => queue[i].by \in landed'
  BY <1>1, SoleCaller DEF OpenGLQueue
<1>3. /\ queue[i].by \in Callers /\ queue[i].signal = 0
      /\ queue[i].call.op \in {"upload", "dispatch"} /\ queue[i].call.nth <= made
      /\ call[queue[i].by] = queue[i].call => queue[i].by \in landed
  BY DEF OpenGLQueue
<1>4. queue[i].call \in CallTypes
  BY <1>2, <1>3 DEF Works, Signals
<1>5. queue[i].call.nth \in Nat /\ queue[i].call # None
  BY <1>4, CallFields
<1> QED
  BY <1>1, <1>2, <1>3, <1>5

\* The driver has been given the call, which thereby counts as landed.
LEMMA OpenGLAppend ==
  ASSUME Common, OpenGLQueue, NEW t \in AllCallers, t \in Callers,
         call[t] \in CallTypes, call[t].op \in {"upload", "dispatch"},
         queue' = Append(queue, Work(t)), landed' = landed \cup {t},
         UNCHANGED <<api, call, made>>, api = "opengl"
  PROVE  OpenGLQueue'
<1>1. Callers' = Callers /\ queue \in Seq(Works \cup Signals) /\ Len(queue) \in Nat
  BY DEF Callers, Common, TypeOK
<1>2. Work(t).by = t /\ Work(t).call = call[t] /\ Work(t).signal = 0 /\ call[t].nth <= made
  BY CallFields DEF Work, Common, Carries
<1>3. /\ Len(queue') = Len(queue) + 1 /\ queue'[Len(queue) + 1] = Work(t)
      /\ \A i \in 1 .. Len(queue) : queue'[i] = queue[i]
  BY <1>1
<1> QED
  BY <1>1, <1>2, <1>3, SoleCaller DEF OpenGLQueue

LEMMA OpenGLTail ==
  ASSUME Common, OpenGLQueue, queue # <<>>, queue' = Tail(queue), UNCHANGED <<api, pc, call, made, landed>>
  PROVE  OpenGLQueue'
<1>1. /\ Callers' = Callers /\ queue \in Seq(Works \cup Signals) /\ Len(queue) \in Nat
      /\ Len(queue') = Len(queue) - 1
      /\ \A i \in 1 .. Len(queue') : queue'[i] = queue[i + 1] /\ i + 1 \in 1 .. Len(queue)
  BY EmptySeq DEF Callers, Common, TypeOK
<1> QED
  BY <1>1 DEF OpenGLQueue

LEMMA OpenGLKeeps ==
  ASSUME Common, OpenGLQueue, api = "opengl",
         NEW t \in AllCallers, t \in Callers, Immediate!CallStep(t)
  PROVE  Common' /\ OpenGLQueue'
<1> made \in Nat
  BY GpuWorkAssumption DEF Common
<1>1. ASSUME pc[t] # "idle", NEW ok \in BOOLEAN, End(t, ok), list' = list
      PROVE  Common' /\ OpenGLQueue'
  <2>1. Common'
    BY <1>1, EndCommon DEF Common, TypeOK
  <2>2. /\ call' = [call EXCEPT ![t] = None] /\ pc' = [pc EXCEPT ![t] = "idle"] /\ landed' = landed \ {t}
        /\ UNCHANGED <<api, queue, made>>
    BY <1>1 DEF End, Goto
  <2>3. call'[t] = None /\ pc'[t] = "idle"
    BY <2>2 DEF Common, TypeOK
  <2>4. queue' = queue /\ api' = api /\ made' >= made /\ made' \in Nat
    BY <2>2
  <2>5. call \in [AllCallers -> CallTypes \cup {None}]
    BY DEF Common, TypeOK
  <2>6. \A u \in AllCallers : u # t => call'[u] = call[u] /\ (u \in landed' <=> u \in landed)
    BY <2>2, <2>5
  <2>7. pc'[t] # "done"
    BY <2>3
  <2>8. OpenGLQueue'
    <3> HIDE DEF Common, OpenGLQueue, AllCallers, Callers
    <3> QED
      BY <2>3, <2>4, <2>6, <2>7, OpenGLKept
  <2> QED
    BY <2>1, <2>8
<1>2. ASSUME pc[t] # "idle", NEW place, Fails(t, place)
      PROVE  Common' /\ OpenGLQueue'
  BY <1>1, <1>2 DEF Fails
<1>3. CASE DeviceBuffer(t)
  BY <1>1, <1>2, <1>3 DEF DeviceBuffer
<1>4. CASE Immediate!Issue(t)
  <2>1. CASE Fails(t, "alloc")
    BY <1>2, <1>4, <2>1 DEF Immediate!Issue, Immediate!OpenGL
  <2>2. CASE ~ Fails(t, "alloc")
    <3>1. /\ pc[t] = "alloc" /\ call[t].op \in {"upload", "dispatch"} /\ pc' = [pc EXCEPT ![t] = "done"]
          /\ queue' = Append(queue, Work(t)) /\ landed' = landed \cup {t}
          /\ UNCHANGED <<api, call, mem, staging, list, bound, fence, result, made>>
      BY <1>4, <2>2, ImmediateNames DEF Immediate!Issue, Immediate!OpenGL, Immediate!Goto
    <3>2. Work(t) \in Works /\ call[t] \in CallTypes
      BY <3>1, InCall, WorkType
    <3>3. Shapes' /\ Carries(t)'
      BY <3>1, <3>2 DEF Shapes, Common, TypeOK, Carries, Callers, Staged, Early
    <3>4. Common'
      BY <3>1, <3>3, MoveCommon DEF Places
    <3> QED
      BY <3>1, <3>2, <3>4, OpenGLAppend
  <2> QED
    BY <2>1, <2>2
<1>5. CASE Immediate!ReadBytes(t)
  <2>1. /\ pc[t] = "alloc" /\ call[t].op = "download" /\ pc' = [pc EXCEPT ![t] = "done"]
        /\ queue = <<>> /\ landed' = landed \cup {t}
        /\ UNCHANGED <<api, call, mem, queue, list, bound, fence, result, made>>
    BY <1>5 DEF Immediate!ReadBytes, Immediate!OpenGL, Immediate!Goto
  <2>2. PICK s \in Contents : staging' = [staging EXCEPT ![t] = s]
    <3>1. mem[call[t].buf] \in Contents
      BY <2>1, InCall DEF Common, TypeOK
    <3>2. Fresh(mem[call[t].buf].data) \in Contents
      BY <3>1, ContentsFields, FreshType
    <3> QED
      BY <1>5, <3>1, <3>2 DEF Immediate!ReadBytes, Immediate!Fresh, Fresh
  <2>3. Shapes' /\ Carries(t)'
    BY <2>1, <2>2 DEF Shapes, Common, TypeOK, Carries, Callers, Staged, Early
  <2>4. Common'
    BY <2>1, <2>2, <2>3, MoveCommon DEF Places, Common, TypeOK
  <2> QED
    BY <2>1, <2>4, OpenGLKept
<1>6. CASE Immediate!Finish(t)
  BY <1>1, <1>6, ImmediateNames DEF Immediate!Finish
<1>7. ~ Immediate!WaitUntilCompleted(t)
  BY DEF Common, Carries, Immediate!WaitUntilCompleted
<1> QED
  BY <1>3, <1>4, <1>5, <1>6, <1>7, ImmediateNames
     DEF Immediate!CallStep, Immediate!HostCopy, Immediate!Commit, Immediate!Metal

-----------------------------------------------------------------------------
(***************************************************************************)
(* Level Zero: one caller, whose one list is empty between calls.          *)
(***************************************************************************)
LEMMA Singles ==
  ASSUME NEW S, NEW v \in S, NEW w \in S
  PROVE  /\ Append(<<>>, v) = <<v>> /\ <<>> \o <<v>> = <<v>> /\ Append(<<v>>, w) = <<v, w>>
         /\ Head(<<v>>) = v /\ Tail(<<v>>) = <<>> /\ <<v>> # <<>>
         /\ Head(<<v, w>>) = v /\ Tail(<<v, w>>) = <<w>> /\ <<v, w>> # <<>>
         /\ <<v>> \in Seq(S) /\ <<v, w>> \in Seq(S)
<1>1. Append(<<v>>, w) \in Seq(S) /\ Len(Append(<<v>>, w)) = 2 /\ Len(<<v, w>>) = 2
  OBVIOUS
<1>2. Append(<<v>>, w)[1] = v /\ Append(<<v>>, w)[2] = w
  BY AppendProperties, <<v>> \in Seq(S), Len(<<v>>) = 1, <<v>>[1] = v
<1>3. Append(<<v>>, w) = <<v, w>>
  <2>1. <<v, w>> \in Seq(S) /\ <<v, w>>[1] = v /\ <<v, w>>[2] = w
    OBVIOUS
  <2>2. \A i \in 1 .. Len(Append(<<v>>, w)) : Append(<<v>>, w)[i] = <<v, w>>[i]
    <3>1. \A i \in 1 .. 2 : i = 1 \/ i = 2
      OBVIOUS
    <3> QED
      BY <1>1, <1>2, <2>1, <3>1
  <2> QED
    BY <1>1, <2>1, <2>2, SeqEqual
<1> QED
  BY <1>3

LEMMA LevelZeroStep ==
  ASSUME Common, LevelZeroQueue, api = "levelzero", NEW t \in AllCallers, t \in Callers,
         api' = api, LevelZeroOf(t)'
  PROVE  LevelZeroQueue'
<1>1. Callers' = Callers /\ \A u \in Callers : u = t
  BY SoleCaller DEF Callers
<1> QED
  BY <1>1 DEF LevelZeroQueue

LEMMA LevelZeroNames ==
  ASSUME NEW t
  PROVE  /\ LevelZero!Work(t) = Work(t)
         /\ \A ok : LevelZero!End(t, ok) <=> End(t, ok)
         /\ \A place : LevelZero!Fails(t, place) <=> Fails(t, place)
         /\ LevelZero!DeviceBuffer(t) <=> DeviceBuffer(t)
<1>1. \A ok : LevelZero!End(t, ok) <=> End(t, ok)
  BY DEF LevelZero!End, End, LevelZero!Creating, Creating, LevelZero!Goto, Goto
<1>2. \A place : LevelZero!Fails(t, place) <=> Fails(t, place)
  BY <1>1 DEF LevelZero!Fails, Fails, LevelZero!CanFail, CanFail
<1> QED
  BY <1>1, <1>2 DEF LevelZero!Work, Work, LevelZero!DeviceBuffer, DeviceBuffer

LEMMA LevelZeroKeeps ==
  ASSUME Common, LevelZeroQueue, NoneAbandoned, api = "levelzero",
         NEW t \in AllCallers, t \in Callers, LevelZero!CallStep(t)
  PROVE  Common' /\ LevelZeroQueue'
<1>0. LevelZeroOf(t)
  BY DEF LevelZeroQueue
<1>1. ASSUME pc[t] \notin {"idle", "close", "wait"}, NEW ok \in BOOLEAN, End(t, ok),
             list' = list \/ list' = [open |-> TRUE, works |-> <<>>]
      PROVE  Common' /\ LevelZeroQueue'
  <2>1. list' \in [open : BOOLEAN, works : Seq(Works)]
    <3>1. [open |-> TRUE, works |-> <<>>] \in [open : BOOLEAN, works : Seq(Works)]
      BY EmptySeq
    <3> QED
      BY <1>1, <3>1 DEF Common, TypeOK
  <2>2. LevelZeroOf(t)'
    BY <1>0, <1>1, <2>1 DEF LevelZeroOf, End, Goto, Common
  <2> QED
    BY <1>1, <2>1, <2>2, EndCommon, LevelZeroStep DEF End
<1>2. ASSUME pc[t] \notin {"idle", "close", "wait"}, NEW place, Fails(t, place)
      PROVE  Common' /\ LevelZeroQueue'
  BY <1>1, <1>2 DEF Fails
<1>3. CASE DeviceBuffer(t)
  BY <1>1, <1>2, <1>3 DEF DeviceBuffer
<1>4. CASE LevelZero!HostCopy(t)
  <2>1. CASE Fails(t, "alloc")
    BY <1>2, <1>4, <2>1 DEF LevelZero!HostCopy
  <2>2. CASE ~ Fails(t, "alloc")
    <3>1. /\ pc[t] = "alloc" /\ Staged(call[t]) /\ pc' = [pc EXCEPT ![t] = "done"]
          /\ mem' = IF call[t].op = "upload" THEN [mem EXCEPT ![call[t].buf] = Fresh(call[t].arg)] ELSE mem
          /\ staging' = [staging EXCEPT ![t] = IF call[t].op = "download" THEN mem[call[t].buf] ELSE None]
          /\ landed' = landed \cup {t}
          /\ UNCHANGED <<api, call, queue, list, bound, fence, result, made>>
      BY <1>4, <2>2, LevelZeroNames
         DEF LevelZero!HostCopy, LevelZero!Staged, Staged, LevelZero!Goto, LevelZero!Fresh, Fresh
    <3>2. Common'
      BY <3>1, HostCommon
    <3>3. LevelZeroOf(t)'
      BY <1>0, <3>1 DEF LevelZeroOf, Common
    <3> QED
      BY <3>1, <3>2, <3>3, LevelZeroStep
  <2> QED
    BY <2>1, <2>2
<1>5. CASE LevelZero!AppendLaunchKernel(t)
  <2>1. CASE Fails(t, "append") \/ (End(t, FALSE) /\ list' = list)
    BY <1>1, <1>2, <1>5, <2>1 DEF LevelZero!AppendLaunchKernel
  <2>2. CASE ~ (Fails(t, "append") \/ (End(t, FALSE) /\ list' = list))
    <3>1. /\ pc[t] = "alloc" /\ call[t].op = "dispatch" /\ list.open /\ pc' = [pc EXCEPT ![t] = "close"]
          /\ list' = [list EXCEPT !.works = Append(list.works, Work(t))]
          /\ UNCHANGED <<api, call, mem, staging, queue, bound, fence, landed, result, made>>
      BY <1>5, <2>2, LevelZeroNames DEF LevelZero!AppendLaunchKernel, LevelZero!Goto
    <3>2. Work(t) \in Works
      BY <3>1, InCall, WorkType
    <3>3. Append(list.works, Work(t)) = <<Work(t)>>
      BY <1>0, <3>1, <3>2, Singles, ZenonT(60) DEF LevelZeroOf
    <3>4. list' = [open |-> TRUE, works |-> <<Work(t)>>]
      BY <3>1, <3>3 DEF Common, TypeOK
    <3>5. Shapes' /\ Carries(t)' /\ ~ Staged(call[t])
      BY <3>1, <3>2, <3>4 DEF Shapes, Common, TypeOK, Carries, Callers, Staged, Early
    <3>6. Common'
      BY <3>1, <3>5, MoveCommon DEF Places
    <3>7. LevelZeroOf(t)'
      <4>1. pc'[t] = "close" /\ list'.works = <<Work(t)>> /\ Work(t)' = Work(t)
        <5>1. pc'[t] = "close"
          BY <3>1 DEF Common
        <5>2. list'.works = <<Work(t)>>
          BY <3>4
        <5> QED
          BY <5>1, <5>2, <3>1 DEF Work
      <4> QED
        BY <1>0, <3>1, <4>1 DEF LevelZeroOf
    <3> QED
      BY <3>1, <3>6, <3>7, LevelZeroStep
  <2> QED
    BY <2>1, <2>2
<1>6. CASE LevelZero!Close(t)
  <2>1. /\ pc[t] = "close" /\ pc' = [pc EXCEPT ![t] = "submit"]
        /\ list' = [list EXCEPT !.open = FALSE]
        /\ UNCHANGED <<api, call, mem, staging, queue, bound, fence, landed, result, made>>
    BY <1>6, NeverAbandons, LevelZeroNames DEF LevelZero!Close, LevelZero!Goto, Fails, CanFail
  <2>2. list' = [open |-> FALSE, works |-> list.works]
    BY <2>1 DEF Common, TypeOK
  <2>3. Shapes' /\ Carries(t)' /\ ~ Staged(call[t])
    BY <2>1, <2>2 DEF Shapes, Common, TypeOK, Carries, Callers, Staged, Early
  <2>4. Common'
    BY <2>1, <2>3, MoveCommon DEF Places
  <2>5. LevelZeroOf(t)'
    BY <1>0, <2>1, <2>2 DEF LevelZeroOf, Common, Work
  <2> QED
    BY <2>1, <2>4, <2>5, LevelZeroStep
<1>7. CASE LevelZero!ExecuteCommandLists(t)
  <2>1. CASE Fails(t, "submit")
    BY <1>2, <1>7, <2>1 DEF LevelZero!ExecuteCommandLists
  <2>2. CASE ~ Fails(t, "submit")
    <3>1. /\ pc[t] = "submit" /\ pc' = [pc EXCEPT ![t] = "wait"] /\ queue' = queue \o list.works
          /\ UNCHANGED <<api, call, mem, staging, list, bound, fence, landed, result, made>>
      BY <1>7, <2>2, LevelZeroNames DEF LevelZero!ExecuteCommandLists, LevelZero!Goto
    <3>2. Work(t) \in Works
      BY <3>1, InCall, WorkType
    <3>3. queue' = <<Work(t)>> /\ ~ list.open
      BY <1>0, <3>1, <3>2, Singles DEF LevelZeroOf
    <3>4. Shapes' /\ Carries(t)' /\ ~ Staged(call[t]) /\ t \notin landed
      BY <3>1, <3>2, <3>3 DEF Shapes, Common, TypeOK, Carries, Callers, Staged, Early
    <3>5. Common'
      BY <3>1, <3>4, MoveCommon DEF Places
    <3>6. LevelZeroOf(t)'
      BY <1>0, <3>1, <3>3, <3>4 DEF LevelZeroOf, Common, Work
    <3> QED
      BY <3>1, <3>5, <3>6, LevelZeroStep
  <2> QED
    BY <2>1, <2>2
<1>8. CASE LevelZero!Synchronize(t)
  <2>1. /\ pc[t] = "wait" /\ queue = <<>> /\ pc' = [pc EXCEPT ![t] = "reset"]
        /\ UNCHANGED <<api, call, mem, staging, queue, list, bound, fence, landed, result, made>>
    BY <1>8, NeverAbandons, LevelZeroNames DEF LevelZero!Synchronize, LevelZero!Goto, Fails, CanFail
  <2>2. Work(t) \in Works
    BY <2>1, InCall, WorkType
  <2>3. t \in landed
    BY <1>0, <2>1, <2>2, Singles DEF LevelZeroOf
  <2>4. Shapes' /\ Carries(t)'
    BY <2>1, <2>3 DEF Shapes, Common, TypeOK, Carries, Callers, Staged, Early
  <2>5. Common'
    BY <2>1, <2>4, MoveCommon DEF Places
  <2>6. LevelZeroOf(t)'
    BY <1>0, <2>1 DEF LevelZeroOf, Common
  <2> QED
    BY <2>1, <2>5, <2>6, LevelZeroStep
<1>9. CASE LevelZero!Reset(t)
  BY <1>1, <1>9, LevelZeroNames DEF LevelZero!Reset
<1>10. CASE LevelZero!Finish(t)
  BY <1>1, <1>10, LevelZeroNames DEF LevelZero!Finish
<1> QED
  BY <1>3, <1>4, <1>5, <1>6, <1>7, <1>8, <1>9, <1>10, LevelZeroNames DEF LevelZero!CallStep

-----------------------------------------------------------------------------
(***************************************************************************)
(* Direct3D 12: one caller, one list, and the fence it spins on.           *)
(***************************************************************************)
LEMMA Dx12Step ==
  ASSUME Common, Dx12Queue, api = "dx12", NEW t \in AllCallers, t \in Callers,
         api' = api, fence'.next <= made' + 1, Dx12Of(t)'
  PROVE  Dx12Queue'
<1>1. Callers' = Callers /\ \A u \in Callers : u = t
  BY SoleCaller DEF Callers
<1> QED
  BY <1>1 DEF Dx12Queue

LEMMA Dx12Names ==
  ASSUME NEW t
  PROVE  /\ Dx12!Work(t) = Work(t)
         /\ \A ok : Dx12!End(t, ok) <=> End(t, ok)
         /\ \A place : Dx12!Fails(t, place) <=> Fails(t, place)
         /\ Dx12!DeviceBuffer(t) <=> DeviceBuffer(t)
<1>1. \A ok : Dx12!End(t, ok) <=> End(t, ok)
  BY DEF Dx12!End, End, Dx12!Creating, Creating, Dx12!Goto, Goto
<1>2. \A place : Dx12!Fails(t, place) <=> Fails(t, place)
  BY <1>1 DEF Dx12!Fails, Fails, Dx12!CanFail, CanFail
<1> QED
  BY <1>1, <1>2 DEF Dx12!Work, Work, Dx12!DeviceBuffer, DeviceBuffer

LEMMA Dx12Keeps ==
  ASSUME Common, Dx12Queue, NoneAbandoned, api = "dx12",
         NEW t \in AllCallers, t \in Callers, Dx12!CallStep(t)
  PROVE  Common' /\ Dx12Queue'
<1>0. /\ Dx12Of(t) /\ fence.next <= made + 1 /\ made \in Nat /\ made <= MaxCalls
      /\ fence.next \in Nat /\ fence.done \in Nat
  BY GpuWorkAssumption DEF Dx12Queue, Common, TypeOK
<1>1. ASSUME pc[t] \notin {"idle", "signal", "wait"}, NEW ok \in BOOLEAN, End(t, ok), list' = list
      PROVE  Common' /\ Dx12Queue'
  <2>1. list' \in [open : BOOLEAN, works : Seq(Works)]
    BY <1>1 DEF Common, TypeOK
  <2>2. Dx12Of(t)'
    BY <1>0, <1>1, <2>1 DEF Dx12Of, End, Goto, Common, Early
  <2> QED
    BY <1>0, <1>1, <2>1, <2>2, EndCommon, Dx12Step DEF End
<1>2. ASSUME pc[t] \notin {"idle", "signal", "wait"}, NEW place, Fails(t, place)
      PROVE  Common' /\ Dx12Queue'
  BY <1>1, <1>2 DEF Fails
<1>3. CASE DeviceBuffer(t)
  BY <1>1, <1>2, <1>3 DEF DeviceBuffer
<1>4. CASE Dx12!Stage(t)
  <2>1. CASE Fails(t, "alloc")
    BY <1>2, <1>4, <2>1 DEF Dx12!Stage
  <2>2. CASE ~ Fails(t, "alloc")
    <3>1. /\ pc[t] = "alloc" /\ Staged(call[t]) /\ pc' = [pc EXCEPT ![t] = "begin"]
          /\ staging' = [staging EXCEPT ![t] = IF call[t].op = "upload" THEN Fresh(call[t].arg) ELSE Fresh(Uninit)]
          /\ UNCHANGED <<api, call, mem, queue, list, bound, fence, landed, result, made>>
      BY <1>4, <2>2, Dx12Names DEF Dx12!Stage, Dx12!Staged, Staged, Dx12!Goto, Dx12!Fresh, Fresh
    <3>2. call[t].op = "upload" => Fresh(call[t].arg) \in Contents /\ Fresh(call[t].arg) # None
      BY <3>1, InCall, CallFields, FreshType
    <3>3. Fresh(Uninit) \in Contents /\ Fresh(Uninit) # None
      BY FreshType
    <3>4. Shapes'
      BY <3>1, <3>2, <3>3 DEF Shapes, Common, TypeOK
    <3>5. Carries(t)'
      BY <3>1, <3>2, <3>3 DEF Common, TypeOK, Carries, Callers, Staged, Early
    <3>6. Common'
      BY <3>1, <3>4, <3>5, MoveCommon DEF Places, Common, TypeOK
    <3>7. Dx12Of(t)'
      BY <1>0, <3>1 DEF Dx12Of, Common, Early
    <3> QED
      BY <1>0, <3>1, <3>6, <3>7, Dx12Step
  <2> QED
    BY <2>1, <2>2
<1>5. CASE Dx12!BeginList(t)
  <2>1. pc[t] \in {"alloc", "begin"}
    BY <1>5 DEF Dx12!BeginList, Dx12!ToRecord
  <2>2. CASE Fails(t, "begin") \/ (End(t, FALSE) /\ list' = list)
    BY <1>1, <1>2, <2>1, <2>2
  <2>3. CASE ~ (Fails(t, "begin") \/ (End(t, FALSE) /\ list' = list))
    <3>1. /\ pc[t] = "begin" \/ (pc[t] = "alloc" /\ call[t].op = "dispatch")
          /\ list' = [open |-> TRUE, works |-> <<>>] /\ pc' = [pc EXCEPT ![t] = "record"]
          /\ UNCHANGED <<api, call, mem, staging, queue, bound, fence, landed, result, made>>
      BY <1>5, <2>3, Dx12Names DEF Dx12!BeginList, Dx12!ToRecord, Dx12!Goto
    <3>2. Shapes' /\ Carries(t)'
      BY <3>1 DEF Shapes, Common, TypeOK, Carries, Callers, Staged, Early
    <3>3. Common'
      BY <3>1, <2>1, <3>2, MoveCommon DEF Places
    <3>4. Dx12Of(t)'
      BY <1>0, <3>1 DEF Dx12Of, Common, Early
    <3> QED
      BY <1>0, <3>1, <3>3, <3>4, Dx12Step
  <2> QED
    BY <2>2, <2>3
<1>6. CASE Dx12!Record(t)
  <2>1. /\ pc[t] = "record" /\ list' = [list EXCEPT !.works = Append(list.works, Work(t))]
        /\ pc' = [pc EXCEPT ![t] = "close"]
        /\ UNCHANGED <<api, call, mem, staging, queue, bound, fence, landed, result, made>>
    BY <1>6, Dx12Names DEF Dx12!Record, Dx12!Goto
  <2>2. Work(t) \in Works
    BY <2>1, InCall, WorkType
  <2>3. Append(list.works, Work(t)) = <<Work(t)>>
    BY <1>0, <2>1, <2>2, Singles DEF Dx12Of
  <2>4. list' = [open |-> list.open, works |-> <<Work(t)>>]
    BY <2>1, <2>3 DEF Common, TypeOK
  <2>5. Shapes' /\ Carries(t)'
    BY <2>1, <2>2, <2>4, SMTT(40) DEF Shapes, Common, TypeOK, Carries, Callers, Staged, Early
  <2>6. Common'
    BY <2>1, <2>5, MoveCommon DEF Places
  <2>7. Dx12Of(t)'
    <3>1. pc'[t] = "close" /\ list'.works = <<Work(t)>> /\ Work(t)' = Work(t)
      <4>1. pc'[t] = "close"
        BY <2>1 DEF Common
      <4>2. list'.works = <<Work(t)>>
        BY <2>4
      <4> QED
        BY <4>1, <4>2, <2>1 DEF Work
    <3> QED
      BY <1>0, <2>1, <3>1 DEF Dx12Of, Early
  <2> QED
    BY <1>0, <2>1, <2>6, <2>7, Dx12Step
<1>7. CASE Dx12!Close(t)
  <2>1. CASE Fails(t, "close")
    BY <1>2, <1>7, <2>1 DEF Dx12!Close
  <2>2. CASE ~ Fails(t, "close")
    <3>1. /\ pc[t] = "close" /\ list' = [list EXCEPT !.open = FALSE] /\ pc' = [pc EXCEPT ![t] = "submit"]
          /\ UNCHANGED <<api, call, mem, staging, queue, bound, fence, landed, result, made>>
      BY <1>7, <2>2, Dx12Names DEF Dx12!Close, Dx12!Goto
    <3>2. list' = [open |-> FALSE, works |-> list.works]
      BY <3>1 DEF Common, TypeOK
    <3>3. Shapes' /\ Carries(t)' /\ (Staged(call[t]) => staging'[t] # None)
      BY <3>1, <3>2 DEF Shapes, Common, TypeOK, Carries, Callers, Staged, Early
    <3>4. Common'
      BY <3>1, <3>3, MoveCommon DEF Places
    <3>5. Dx12Of(t)'
      BY <1>0, <3>1, <3>2 DEF Dx12Of, Common, Early, Work
    <3> QED
      BY <1>0, <3>1, <3>4, <3>5, Dx12Step
  <2> QED
    BY <2>1, <2>2
<1>8. CASE Dx12!ExecuteCommandLists(t)
  <2>1. /\ pc[t] = "submit" /\ pc' = [pc EXCEPT ![t] = "signal"] /\ queue' = queue \o list.works
        /\ UNCHANGED <<api, call, mem, staging, list, bound, fence, landed, result, made>>
    BY <1>8 DEF Dx12!ExecuteCommandLists, Dx12!Goto
  <2>2. Work(t) \in Works
    BY <2>1, InCall, WorkType
  <2>3. queue' = <<Work(t)>>
    BY <1>0, <2>1, <2>2, Singles DEF Dx12Of
  <2>4. Shapes' /\ Carries(t)' /\ t \notin landed
    BY <2>1, <2>2, <2>3 DEF Shapes, Common, TypeOK, Carries, Callers, Staged, Early
  <2>5. Common'
    BY <2>1, <2>4, MoveCommon DEF Places
  <2>6. Dx12Of(t)'
    BY <1>0, <2>1, <2>3, <2>4 DEF Dx12Of, Common, Early, Work
  <2> QED
    BY <1>0, <2>1, <2>5, <2>6, Dx12Step
<1>9. CASE Dx12!Signal(t)
  <2>1. /\ pc[t] = "signal" /\ pc' = [pc EXCEPT ![t] = "wait"]
        /\ queue' = Append(queue, [by |-> t, call |-> None, signal |-> fence.next])
        /\ fence' = [fence EXCEPT !.next = fence.next + 1]
        /\ UNCHANGED <<api, call, mem, staging, list, bound, landed, result, made>>
    BY <1>9, NeverAbandons DEF Dx12!Signal, Dx12!Goto, Dx12!CanFail
  <2>2. fence' = [done |-> fence.done, next |-> fence.next + 1] /\ fence.next <= made
    BY <1>0, <2>1 DEF Dx12Of, Common, TypeOK
  <2>3. /\ Work(t) \in Works /\ Sig(t)' \in Signals
        /\ Sig(t)' = [by |-> t, call |-> None, signal |-> fence.next]
    <3>1. fence'.next - 1 = fence.next
      BY <1>0, <2>2
    <3>2. fence.next \in 1 .. MaxCalls
      BY <1>0, <2>2, GpuWorkAssumption DEF Common, TypeOK
    <3>3. Work(t) \in Works
      BY <2>1, InCall, WorkType
    <3> QED
      BY <3>1, <3>2, <3>3 DEF Sig, Signals
  <2> DEFINE v == Sig(t)'
             w == Work(t)
  <2>4. /\ v \in Works \cup Signals /\ w \in Works \cup Signals
        /\ \/ queue = <<w>> /\ t \notin landed /\ queue' = <<w, v>>
           \/ queue = <<>> /\ t \in landed /\ queue' = <<v>>
    <3>1. queue' = Append(queue, v)
      BY <2>1, <2>3
    <3>2. \/ queue = <<w>> /\ t \notin landed
          \/ queue = <<>> /\ t \in landed
      BY <1>0, <2>1 DEF Dx12Of
    <3>3. v \in Works \cup Signals /\ w \in Works \cup Signals
      BY <2>3
    <3> HIDE DEF v, w
    <3>4. Append(<<w>>, v) = <<w, v>> /\ Append(<<>>, v) = <<v>>
      BY <3>3, Singles, ZenonT(60)
    <3> QED
      BY <3>1, <3>2, <3>3, <3>4
  <2>5. Shapes' /\ Carries(t)' /\ (Staged(call[t]) => staging'[t] # None)
    <3>1. queue' \in Seq(Works \cup Signals)
      <4> HIDE DEF v, w
      <4>1. v \in Works \cup Signals /\ w \in Works \cup Signals
        BY <2>4
      <4>2. <<w, v>> \in Seq(Works \cup Signals) /\ <<v>> \in Seq(Works \cup Signals)
        <5> HIDE DEF Works, Signals
        <5> QED
          BY <4>1, Singles, ZenonT(60)
      <4> QED
        BY <2>4, <4>2
    <3>2. fence' \in [done : 0 .. MaxCalls, next : 1 .. MaxCalls + 1]
      BY <1>0, <2>2, GpuWorkAssumption DEF Common, TypeOK
    <3>3. Shapes'
      BY <2>1, <3>1, <3>2 DEF Shapes, Common, TypeOK
    <3> QED
      BY <2>1, <3>3 DEF Common, TypeOK, Carries, Callers, Staged, Early
  <2>6. Common'
    BY <2>1, <2>5, MoveCommon DEF Places
  <2>7. Dx12Of(t)'
    <3>1. pc'[t] = "wait" /\ Work(t)' = Work(t) /\ fence.done = fence'.next - 2 /\ fence'.done = fence.done
      BY <1>0, <2>1, <2>2 DEF Dx12Of, Common, Work
    <3> QED
      BY <2>1, <2>4, <3>1 DEF Dx12Of, Early
  <2> QED
    BY <1>0, <2>1, <2>2, <2>6, <2>7, Dx12Step
<1>10. CASE Dx12!SpinWait(t)
  <2>1. /\ pc[t] = "wait" /\ fence.done >= fence.next - 1
        /\ pc' = [pc EXCEPT ![t] = IF call[t].op = "download" THEN "read" ELSE "done"]
        /\ UNCHANGED <<api, call, mem, staging, queue, list, bound, fence, landed, result, made>>
    BY <1>10, NeverAbandons DEF Dx12!SpinWait, Dx12!Goto, Dx12!CanFail
  <2>2. t \in landed /\ queue = <<>> /\ fence.done = fence.next - 1
    BY <1>0, <2>1 DEF Dx12Of
  <2>3. Shapes' /\ Carries(t)' /\ (Staged(call[t]) => staging'[t] # None)
    BY <2>1, <2>2 DEF Shapes, Common, TypeOK, Carries, Callers, Staged, Early
  <2>4. Common'
    BY <2>1, <2>3, MoveCommon DEF Places
  <2>5. Dx12Of(t)'
    BY <2>1, <2>2 DEF Dx12Of, Common, Early
  <2> QED
    BY <1>0, <2>1, <2>4, <2>5, Dx12Step
<1>11. CASE Dx12!Finish(t)
  <2>1. pc[t] \in {"read", "done"}
    BY <1>11 DEF Dx12!Finish, Common, Places
  <2> QED
    BY <1>1, <1>2, <1>11, <2>1, Dx12Names DEF Dx12!Finish
<1> QED
  BY <1>3, <1>4, <1>5, <1>6, <1>7, <1>8, <1>9, <1>10, <1>11, Dx12Names DEF Dx12!CallStep

-----------------------------------------------------------------------------
(***************************************************************************)
(* The inductive invariant.                                                *)
(***************************************************************************)
LEMMA KnownApi ==
  ASSUME Common
  PROVE  api \in {"vulkan", "dx12", "levelzero", "metal", "opengl"} /\ Callers \subseteq AllCallers
BY GpuWorkAssumption DEF Common, TypeOK, Callers, AllCallers

LEMMA WaitedHolds ==
  ASSUME IInv, api # "opengl"
  PROVE  Waited
<1>1. CASE api \in {"vulkan", "metal"}
  BY <1>1 DEF IInv, QueueInv, SharedQueue, Waited
<1>2. ASSUME NEW t \in Callers, queue = <<Work(t)>>, t \notin landed, pc[t] \in {"signal", "wait"}
      PROVE  Waited
  <2>1. Work(t).by = t
    BY DEF Work
  <2>2. Len(queue) = 1 /\ queue[1] = Work(t)
    BY <1>2
  <2> QED
    BY <1>2, <2>1, <2>2 DEF Waited
<1>3. ASSUME queue = <<>> PROVE Waited
  BY <1>3 DEF Waited
<1>4. CASE api = "levelzero"
  BY <1>2, <1>3, <1>4 DEF IInv, QueueInv, LevelZeroQueue, LevelZeroOf
<1>5. CASE api = "dx12"
  <2>1. Dx12Queue
    BY <1>5 DEF IInv, QueueInv
  <2>2. CASE Callers = {}
    BY <1>3, <2>1, <2>2 DEF Dx12Queue
  <2>3. CASE Callers # {}
    <3>1. PICK t \in Callers : Dx12Of(t)
      BY <2>1, <2>3 DEF Dx12Queue
    <3>2. fence.next \in Nat /\ fence.done \in Nat
      BY GpuWorkAssumption DEF IInv, Common, TypeOK
    <3>3. ASSUME fence.done = fence.next - 2 PROVE Sig(t).signal # 0
      BY <3>2, <3>3 DEF Sig
    <3>4. CASE queue = <<Work(t), Sig(t)>> /\ t \notin landed /\ fence.done = fence.next - 2 /\ pc[t] = "wait"
      <4>1. Len(queue) = 2 /\ queue[1] = Work(t) /\ queue[2] = Sig(t)
        BY <3>4
      <4>2. Work(t).by = t /\ \A i \in 1 .. 2 : i = 1 \/ i = 2
        BY DEF Work
      <4> QED
        BY <3>3, <3>4, <4>1, <4>2 DEF Waited
    <3>5. CASE queue = <<Sig(t)>> /\ fence.done = fence.next - 2
      <4>1. Len(queue) = 1 /\ queue[1] = Sig(t)
        BY <3>5
      <4> QED
        BY <3>3, <3>5, <4>1 DEF Waited
    <3> QED
      BY <1>2, <1>3, <3>1, <3>4, <3>5 DEF Dx12Of
  <2> QED
    BY <2>2, <2>3
<1> QED
  BY <1>1, <1>4, <1>5, KnownApi DEF IInv

LEMMA InitInv == Init => IInv
<1> SUFFICES ASSUME Init PROVE IInv
  OBVIOUS
<1>1. TypeOK
  <2>1. /\ queue \in Seq(Works \cup Signals) /\ list \in [open : BOOLEAN, works : Seq(Works)]
        /\ fence \in [done : 0 .. MaxCalls, next : 1 .. MaxCalls + 1]
    BY EmptySeq, GpuWorkAssumption DEF Init
  <2> QED
    BY <2>1 DEF Init, TypeOK
<1>2. \A t \in AllCallers : Carries(t)
  BY <1>1 DEF Init, TypeOK, Carries, Early
<1>3. Common
  BY <1>1, <1>2, GpuWorkAssumption DEF Init, Common, Places, Apart
<1>4. \A t \in Callers : pc[t] = "idle"
  BY <1>3, KnownApi DEF Init
<1>5. QueueInv
  BY <1>4, GpuWorkAssumption
     DEF Init, QueueInv, SharedQueue, LevelZeroQueue, LevelZeroOf, Dx12Queue, Dx12Of, OpenGLQueue, Early
<1> QED
  BY <1>3, <1>5 DEF IInv

LEMMA BeginInv ==
  ASSUME IInv, NEW t \in Callers, NEW c \in Numbered({made + 1}), Begin(t, c, "alloc")
  PROVE  IInv'
<1>1. Common /\ t \in AllCallers
  BY KnownApi DEF IInv
<1>2. Common'
  BY <1>1, BeginCommon
<1>3. /\ pc[t] = "idle" /\ c.nth = made + 1 /\ made \in Nat /\ made' = made + 1
      /\ pc' = [pc EXCEPT ![t] = "alloc"] /\ call' = [call EXCEPT ![t] = c]
      /\ landed' = landed \ {t}
      /\ UNCHANGED <<api, queue, list, fence>>
  BY <1>1, GpuWorkAssumption DEF Begin, Goto, Common
<1>4. /\ pc'[t] = "alloc" /\ call'[t] = c
      /\ \A u \in AllCallers : u # t =>
           pc'[u] = pc[u] /\ call'[u] = call[u] /\ (u \in landed' <=> u \in landed)
  BY <1>1, <1>3 DEF Common, TypeOK
<1>5. CASE api \in {"vulkan", "metal"}
  BY <1>1, <1>2, <1>3, <1>4, <1>5, SharedKept DEF IInv, QueueInv
<1>6. CASE api = "opengl"
  BY <1>1, <1>2, <1>3, <1>4, <1>6, OpenGLKept DEF IInv, QueueInv
<1>7. CASE api = "levelzero"
  <2>1. LevelZeroOf(t)'
    BY <1>3, <1>4, <1>7 DEF IInv, QueueInv, LevelZeroQueue, LevelZeroOf
  <2> QED
    BY <1>1, <1>2, <1>3, <1>7, <2>1, LevelZeroStep DEF IInv, QueueInv
<1>8. CASE api = "dx12"
  <2>1. Dx12Of(t) /\ fence.next <= made + 1 /\ fence.next \in Nat
    BY <1>1, <1>8, GpuWorkAssumption DEF IInv, QueueInv, Dx12Queue, Common, TypeOK
  <2>2. Dx12Of(t)'
    BY <1>3, <1>4, <2>1 DEF Dx12Of, Early
  <2> QED
    BY <1>1, <1>2, <1>3, <1>8, <2>1, <2>2, Dx12Step DEF IInv, QueueInv
<1> QED
  BY <1>1, <1>5, <1>6, <1>7, <1>8, KnownApi

LEMMA QueueUnchanged ==
  ASSUME QueueInv, UNCHANGED <<api, pc, call, queue, list, fence, landed, made>>
  PROVE  QueueInv'
<1>1. Callers' = Callers /\ (\A t : Work(t)' = Work(t) /\ Sig(t)' = Sig(t))
  BY DEF Callers, Work, Sig
<1>2. SharedQueue => SharedQueue'
  BY <1>1 DEF SharedQueue, Work
<1>3. OpenGLQueue => OpenGLQueue'
  BY <1>1 DEF OpenGLQueue
<1>4. LevelZeroQueue => LevelZeroQueue'
  BY <1>1 DEF LevelZeroQueue, LevelZeroOf
<1>5. Dx12Queue => Dx12Queue'
  BY <1>1 DEF Dx12Queue, Dx12Of
<1> QED
  BY <1>2, <1>3, <1>4, <1>5 DEF QueueInv

LEMMA DropInv ==
  ASSUME IInv, NEW b \in Buffers, DropBuffer(b)
  PROVE  IInv'
<1>1. Common'
  BY DropCommon DEF IInv
<1>2. UNCHANGED <<api, pc, call, queue, list, fence, landed, made>>
  BY DEF DropBuffer
<1> QED
  BY <1>1, <1>2, QueueUnchanged DEF IInv

LEMMA StepKeepsApi ==
  ASSUME NEW t, CallStep(t)
  PROVE  api' = api
<1>1. \A ok : End(t, ok) => api' = api
  BY DEF End
<1>2. (\A place : Fails(t, place) => api' = api) /\ (DeviceBuffer(t) => api' = api)
  BY <1>1 DEF Fails, DeviceBuffer
<1>3. Vulkan!CallStep(t) => api' = api
  BY <1>1, <1>2, VulkanNames
     DEF Vulkan!CallStep, Vulkan!Stage, Vulkan!Bind, Vulkan!Record, Vulkan!QueueSubmit, Vulkan!WaitIdle,
         Vulkan!Finish
<1>4. Dx12!CallStep(t) => api' = api
  BY <1>1, <1>2, Dx12Names
     DEF Dx12!CallStep, Dx12!Stage, Dx12!BeginList, Dx12!Record, Dx12!Close, Dx12!ExecuteCommandLists,
         Dx12!Signal, Dx12!SpinWait, Dx12!Finish
<1>5. LevelZero!CallStep(t) => api' = api
  BY <1>1, <1>2, LevelZeroNames
     DEF LevelZero!CallStep, LevelZero!HostCopy, LevelZero!AppendLaunchKernel, LevelZero!Close,
         LevelZero!ExecuteCommandLists, LevelZero!Synchronize, LevelZero!Reset, LevelZero!Finish
<1>6. Immediate!CallStep(t) => api' = api
  BY <1>1, <1>2, ImmediateNames
     DEF Immediate!CallStep, Immediate!HostCopy, Immediate!Commit, Immediate!WaitUntilCompleted,
         Immediate!Issue, Immediate!ReadBytes, Immediate!Finish
<1> QED
  BY <1>3, <1>4, <1>5, <1>6 DEF CallStep

LEMMA CallInv ==
  ASSUME IInv, NoneAbandoned, NEW t \in Callers, CallStep(t)
  PROVE  IInv'
<1>1. Common /\ t \in AllCallers /\ api' = api
  BY KnownApi, StepKeepsApi DEF IInv
<1>2. CASE api = "vulkan"
  BY <1>1, <1>2, VulkanKeeps DEF IInv, QueueInv, CallStep
<1>3. CASE api = "metal"
  BY <1>1, <1>3, MetalKeeps DEF IInv, QueueInv, CallStep
<1>4. CASE api = "opengl"
  BY <1>1, <1>4, OpenGLKeeps DEF IInv, QueueInv, CallStep
<1>5. CASE api = "levelzero"
  BY <1>1, <1>5, LevelZeroKeeps DEF IInv, QueueInv, CallStep
<1>6. CASE api = "dx12"
  BY <1>1, <1>6, Dx12Keeps DEF IInv, QueueInv, CallStep
<1> QED
  BY <1>1, <1>2, <1>3, <1>4, <1>5, <1>6, KnownApi

LEMMA RunInv ==
  ASSUME IInv, GpuRun
  PROVE  IInv'
<1>1. Common /\ queue # <<>> /\ Head(queue).signal = 0 /\ queue' = Tail(queue)
      /\ UNCHANGED <<api, pc, call, list, fence, made>>
  BY DEF IInv, GpuRun
<1>2. CASE api = "opengl"
  BY <1>1, <1>2, RunIssued, OpenGLTail DEF IInv, QueueInv
<1>3. CASE api # "opengl"
  <2>1. Waited /\ Common'
    BY <1>1, <1>3, WaitedHolds, RunCommon
  <2>2. PICK t \in Callers : t = Head(queue).by
    BY <1>1, <2>1, HeadWaited
  <2>3. /\ Head(queue) = Work(t) /\ t \in AllCallers /\ pc[t] \in {"signal", "wait"} /\ t \notin landed
        /\ landed' = landed \cup {t}
    BY <1>1, <2>1, <2>2, HeadWaited DEF GpuRun
  <2>4. CASE api \in {"vulkan", "metal"}
    BY <1>1, <2>1, <2>2, <2>3, <2>4, SharedRun DEF IInv, QueueInv
  <2>5. Work(t) \in Works
    BY <1>1, <2>3, InCall, WorkType
  <2>6. CASE api = "levelzero"
    <3>1. LevelZeroOf(t)
      BY <2>2, <2>6 DEF IInv, QueueInv, LevelZeroQueue
    <3>2. pc[t] = "wait" /\ queue' = <<>>
      BY <1>1, <2>3, <2>5, <3>1, Singles DEF LevelZeroOf
    <3>3. LevelZeroOf(t)'
      BY <1>1, <2>3, <3>1, <3>2 DEF LevelZeroOf
    <3> QED
      BY <1>1, <2>1, <2>3, <2>6, <3>3, LevelZeroStep DEF IInv, QueueInv
  <2>7. CASE api = "dx12"
    <3>1. Dx12Of(t) /\ fence'.next <= made' + 1
      BY <1>1, <2>2, <2>7 DEF IInv, QueueInv, Dx12Queue
    <3> DEFINE v == Work(t)
               s == Sig(t)
    <3>2. v.signal = 0 /\ Sig(t)' = s
      BY <1>1 DEF Work, Sig
    <3>3. ASSUME fence.done = fence.next - 2 PROVE s.signal # 0
      BY <3>3, <1>1, GpuWorkAssumption DEF Sig, Common, TypeOK
    <3>4. Head(queue) = v
      BY <2>3
    <3>5. Dx12Of(t)'
      <4> HIDE DEF v, s
      <4>1. Head(<<s>>) = s /\ Tail(<<v>>) = <<>> /\ Tail(<<v, s>>) = <<s>>
        BY Singles
      <4>2. CASE pc[t] = "signal"
        <5>1. queue = <<v>>
          BY <2>3, <3>1, <4>2, <1>1 DEF Dx12Of, v
        <5> QED
          BY <1>1, <2>3, <3>1, <4>1, <4>2, <5>1 DEF Dx12Of, Early
      <4>3. CASE pc[t] = "wait"
        <5>1. queue = <<v, s>> /\ fence.done = fence.next - 2
          BY <2>3, <3>1, <4>3, <1>1 DEF Dx12Of, v, s
        <5>2. queue' = <<Sig(t)'>>
          BY <1>1, <3>2, <4>1, <5>1
        <5> QED
          BY <1>1, <2>3, <3>1, <4>3, <5>1, <5>2 DEF Dx12Of, Early
      <4> QED
        BY <2>3, <4>2, <4>3
    <3> QED
      BY <1>1, <2>1, <2>3, <2>7, <3>1, <3>5, Dx12Step DEF IInv, QueueInv
  <2> QED
    BY <1>1, <1>3, <2>1, <2>4, <2>6, <2>7, KnownApi
<1> QED
  BY <1>2, <1>3

LEMMA SignalInv ==
  ASSUME IInv, GpuSignal
  PROVE  IInv'
<1>1. /\ Common /\ Common' /\ queue # <<>> /\ Head(queue).signal > 0 /\ queue' = Tail(queue)
      /\ fence' = [fence EXCEPT !.done = Head(queue).signal]
      /\ UNCHANGED <<api, pc, call, mem, staging, list, bound, landed, result, made>>
  BY SignalCommon DEF IInv, GpuSignal
<1>2. queue \in Seq(Works \cup Signals) /\ 1 \in 1 .. Len(queue) /\ Head(queue) = queue[1]
  BY <1>1, EmptySeq DEF Common, TypeOK
<1>3. \A t : Work(t).signal = 0
  BY DEF Work
<1>4. api \notin {"vulkan", "metal", "opengl"}
  <2>1. api \in {"vulkan", "metal"} => Head(queue).signal = 0
    BY <1>2, <1>3 DEF IInv, QueueInv, SharedQueue
  <2>2. api = "opengl" => Head(queue).signal = 0
    BY <1>2 DEF IInv, QueueInv, OpenGLQueue
  <2> QED
    BY <1>1, <2>1, <2>2
<1>5. api # "levelzero"
  <2> SUFFICES ASSUME api = "levelzero" PROVE FALSE
    OBVIOUS
  <2>1. PICK t \in Callers : LevelZeroOf(t)
    BY <1>1 DEF IInv, QueueInv, LevelZeroQueue
  <2>2. queue = <<Work(t)>>
    BY <1>1, <2>1 DEF LevelZeroOf
  <2>3. queue[1] = Work(t)
    BY <2>2
  <2> QED
    BY <1>1, <1>2, <1>3, <2>3
<1>6. api = "dx12"
  BY <1>1, <1>4, <1>5, KnownApi
<1>7. PICK t \in Callers : Dx12Of(t)
  BY <1>1, <1>6 DEF IInv, QueueInv, Dx12Queue
<1>8. t \in AllCallers
  BY <1>1, KnownApi
<1>9. queue = <<Sig(t)>> /\ pc[t] = "wait" /\ t \in landed
  <2> DEFINE v == Work(t)
             s == Sig(t)
  <2>1. v.signal = 0
    BY DEF Work
  <2>2. Head(queue) # v
    BY <1>1, <2>1
  <2> HIDE DEF v, s
  <2>3. Head(<<v>>) = v /\ Head(<<v, s>>) = v
    BY Singles
  <2>4. queue # <<v>> /\ queue # <<v, s>>
    BY <2>2, <2>3
  <2> QED
    BY <1>1, <1>7, <2>4 DEF Dx12Of, v, s
<1>10. queue' = <<>> /\ Head(queue) = Sig(t)
  BY <1>1, <1>9, Singles
<1>11. fence' = [done |-> fence.next - 1, next |-> fence.next]
  BY <1>1, <1>10 DEF Sig, Common, TypeOK
<1>12. Dx12Of(t)'
  BY <1>1, <1>7, <1>9, <1>10, <1>11 DEF Dx12Of, Early
<1>13. fence'.next <= made' + 1
  BY <1>1, <1>6, <1>11 DEF IInv, QueueInv, Dx12Queue
<1>14. Dx12Queue'
  BY <1>1, <1>6, <1>8, <1>12, <1>13, Dx12Step DEF IInv, QueueInv
<1> QED
  BY <1>1, <1>6, <1>14 DEF IInv, QueueInv

LEMMA InvKept ==
  ASSUME NoneAbandoned, IInv, [Next]_gvars
  PROVE  IInv'
<1>1. CASE UNCHANGED gvars
  <2>1. Common'
    BY <1>1 DEF gvars, IInv, Common, TypeOK, Carries, Apart, Callers, Staged, Creating
  <2>2. UNCHANGED <<api, pc, call, queue, list, fence, landed, made>>
    BY <1>1 DEF gvars
  <2> QED
    BY <2>1, <2>2, QueueUnchanged DEF IInv
<1>2. ASSUME NEW t \in Callers, Call(t) PROVE IInv'
  BY <1>2, BeginInv DEF Call
<1>3. ASSUME NEW t \in Callers, CallStep(t) PROVE IInv'
  BY <1>3, CallInv
<1> QED
  BY <1>1, <1>2, <1>3, DropInv, RunInv, SignalInv DEF Next

LEMMA Invariance ==
  ASSUME NoneAbandoned
  PROVE  Spec => []IInv
<1>1. IInv /\ [Next]_gvars => IInv'
  BY InvKept
<1> QED
  BY <1>1, InitInv, PTL DEF Spec

\* Types, and what a thread holds at each place of a call, whichever calls of
\* the driver fail, as long as none of the failures is one after which the
\* code returns with its work at the GPU or in the list.
THEOREM TypeCorrect ==
  ASSUME NoneAbandoned
  PROVE  Spec => []TypeOK
<1>1. IInv => TypeOK
  BY DEF IInv, Common
<1> QED
  BY <1>1, Invariance, PTL

\* What the GPU has still to run is of calls under way, whose buffers and
\* staging buffers exist: the wait at the end of each call is enough, under the
\* same condition on what fails (vulkan/compute.rs:145-160,
\* dx12/compute.rs:793-847).
THEOREM NothingReleased ==
  ASSUME NoneAbandoned
  PROVE  Spec => []NothingReleasedInFlight
<1>1. ASSUME IInv PROVE NothingReleasedInFlight
  <2> SUFFICES ASSUME NEW i \in 1 .. Len(queue), queue[i].signal = 0, api # "opengl"
               PROVE  /\ call[queue[i].by] = queue[i].call
                      /\ mem[queue[i].call.buf] # None
                      /\ Staged(queue[i].call) => staging[queue[i].by] # None
    BY DEF NothingReleasedInFlight, Items
  <2>1. Waited /\ Common
    BY <1>1, WaitedHolds DEF IInv
  <2>2. PICK t \in Callers : t = queue[i].by
    BY <2>1 DEF Waited
  <2>3. queue[i] = Work(t) /\ pc[t] \in {"signal", "wait"} /\ t \in AllCallers
    BY <2>1, <2>2, KnownApi DEF Waited
  <2>4. queue[i].call = call[t]
    BY <2>3 DEF Work
  <2>5. mem[call[t].buf] # None /\ call[t] # None
    BY <2>1, <2>3, InCall
  <2>6. Staged(call[t]) => staging[t] # None
    BY <2>1, <2>3, <2>5, KnownApi DEF Common, Carries, Staged
  <2> QED
    BY <2>2, <2>4, <2>5, <2>6
<1> QED
  BY <1>1, Invariance, PTL

-----------------------------------------------------------------------------
(***************************************************************************)
(* What a call waits for.  Nothing is assumed of the failures here: a call *)
(* may have left its work at the GPU, or used up a value of the fence.     *)
(***************************************************************************)
Plain == [by : AllCallers, call : CallTypes \cup {None}, signal : {0}]
AnyWork == [by : AllCallers, call : CallTypes \cup {None}, signal : Nat]

Loose ==
  /\ api \in Apis /\ made \in Nat
  /\ DOMAIN pc = AllCallers /\ \A u \in AllCallers \ Callers : pc[u] = "idle"
  /\ call \in [AllCallers -> CallTypes \cup {None}]
  /\ queue \in Seq(AnyWork)

\* The signals in the queue are in order, beyond what the fence has and up to
\* what has been taken from it.
SignalsInOrder ==
  /\ \A i \in 1 .. Len(queue) : queue[i].signal # 0 =>
       fence.done < queue[i].signal /\ queue[i].signal < fence.next
  /\ \A i, j \in 1 .. Len(queue) : i < j /\ queue[i].signal # 0 /\ queue[j].signal # 0 =>
       queue[i].signal < queue[j].signal

Dx12Awaits ==
  /\ fence \in [done : Nat, next : Nat] /\ fence.done < fence.next
  /\ list \in [open : BOOLEAN, works : Seq(Plain)]
  /\ SignalsInOrder
  /\ \A t \in Callers : pc[t] = "wait" =>
       \/ fence.done = fence.next - 1
       \/ \E i \in 1 .. Len(queue) : queue[i].signal = fence.next - 1

MetalAwaits ==
  \A t \in Callers : pc[t] = "wait" =>
    t \in landed \/ \E i \in 1 .. Len(queue) : queue[i] = Work(t)

AwaitInv ==
  /\ api \in Apis
  /\ api = "dx12" => Loose /\ Dx12Awaits
  /\ api = "metal" => Loose /\ MetalAwaits

\* A step of a call moves its thread only, and begins no call.
Moves(t) ==
  /\ UNCHANGED <<api, made>>
  /\ DOMAIN pc' = DOMAIN pc /\ \A u \in DOMAIN pc \ {t} : pc'[u] = pc[u]
  /\ call' = call \/ call' = [call EXCEPT ![t] = None]

LEMMA EndMoves ==
  ASSUME NEW t
  PROVE  /\ \A ok : End(t, ok) => Moves(t) /\ UNCHANGED <<queue, fence>> /\ landed' = landed \ {t}
                      /\ (t \in DOMAIN pc => pc'[t] = "idle")
         /\ \A place : Fails(t, place) => \E ok : End(t, ok) /\ UNCHANGED list
         /\ DeviceBuffer(t) => \E ok : End(t, ok) /\ UNCHANGED list
<1>1. \A ok : End(t, ok) => Moves(t) /\ UNCHANGED <<queue, fence>> /\ landed' = landed \ {t}
                      /\ (t \in DOMAIN pc => pc'[t] = "idle")
  BY DEF End, Moves, Goto
<1>2. \A place : Fails(t, place) => \E ok : End(t, ok) /\ UNCHANGED list
  BY DEF Fails
<1>3. DeviceBuffer(t) => \E ok : End(t, ok) /\ UNCHANGED list
  BY <1>2 DEF DeviceBuffer
<1> QED BY <1>1, <1>2, <1>3

\* What a step that leaves the queue and the fence alone does to the waits.
LEMMA MovesLoose ==
  ASSUME Loose, NEW t \in Callers, t \in AllCallers, Moves(t), queue' \in Seq(AnyWork)
  PROVE  Loose'
<1>1. Callers' = Callers /\ api' = api /\ made' = made
  BY DEF Moves, Callers
<1>2. DOMAIN pc' = AllCallers /\ \A u \in AllCallers \ Callers' : pc'[u] = "idle"
  BY <1>1 DEF Moves, Loose
<1>3. call' \in [AllCallers -> CallTypes \cup {None}]
  BY DEF Moves, Loose
<1> QED BY <1>1, <1>2, <1>3 DEF Loose

LEMMA SignalTypes ==
  ASSUME queue \in Seq(AnyWork)
  PROVE  \A i \in 1 .. Len(queue) : queue[i].signal \in Nat
<1>1. \A i \in 1 .. Len(queue) : queue[i] \in AnyWork
  OBVIOUS
<1> QED BY <1>1 DEF AnyWork

\* The queue without its oldest work.
LEMMA QueueTail ==
  ASSUME queue \in Seq(AnyWork), queue # <<>>, queue' = Tail(queue)
  PROVE  /\ Len(queue) \in Nat \ {0} /\ Len(queue') = Len(queue) - 1
         /\ queue' \in Seq(AnyWork) /\ Head(queue) = queue[1] /\ queue[1] \in AnyWork
         /\ \A i \in 1 .. Len(queue') : i + 1 \in 1 .. Len(queue) /\ queue'[i] = queue[i + 1]
<1>1. /\ Len(queue) \in Nat \ {0} /\ Len(queue') = Len(queue) - 1
      /\ queue' \in Seq(AnyWork) /\ Head(queue) = queue[1]
      /\ \A i \in 1 .. Len(queue') : queue'[i] = queue[i + 1]
  BY HeadTailProperties, EmptySeq
<1> QED BY <1>1

\* The queue with work without a signal, or with one more item, at its end.
LEMMA QueueMore ==
  ASSUME queue \in Seq(AnyWork), NEW s \in Seq(AnyWork), queue' = queue \o s
  PROVE  /\ queue' \in Seq(AnyWork) /\ Len(queue) \in Nat /\ Len(s) \in Nat
         /\ Len(queue') = Len(queue) + Len(s)
         /\ \A i \in 1 .. Len(queue) : queue'[i] = queue[i]
         /\ \A i \in 1 .. Len(queue') : i > Len(queue) =>
              i - Len(queue) \in 1 .. Len(s) /\ queue'[i] = s[i - Len(queue)]
<1>1. /\ queue' \in Seq(AnyWork) /\ Len(queue) \in Nat /\ Len(s) \in Nat
      /\ Len(queue') = Len(queue) + Len(s)
      /\ \A i \in 1 .. Len(queue') : queue'[i] = IF i <= Len(queue) THEN queue[i] ELSE s[i - Len(queue)]
  BY ConcatProperties
<1> QED BY <1>1

LEMMA QueueAppended ==
  ASSUME queue \in Seq(AnyWork), NEW v \in AnyWork, queue' = Append(queue, v)
  PROVE  /\ queue' \in Seq(AnyWork) /\ Len(queue) \in Nat /\ Len(queue') = Len(queue) + 1
         /\ \A i \in 1 .. Len(queue) : queue'[i] = queue[i]
         /\ queue'[Len(queue) + 1] = v
BY AppendProperties

\* The steps of a Direct3D 12 call, by what they do to queue and fence.
LEMMA Dx12Kinds ==
  ASSUME Loose, Dx12Awaits, NEW t \in AllCallers, Dx12!CallStep(t)
  PROVE  /\ Moves(t) /\ list' \in [open : BOOLEAN, works : Seq(Plain)]
         /\ \/ UNCHANGED <<queue, fence>> /\ pc'[t] # "wait"
            \/ UNCHANGED fence /\ queue' = queue \o list.works /\ pc'[t] # "wait"
            \/ /\ queue' = Append(queue, [by |-> t, call |-> None, signal |-> fence.next])
               /\ fence' = [fence EXCEPT !.next = @ + 1]
            \/ /\ UNCHANGED queue /\ fence' = [fence EXCEPT !.next = @ + 1]
               /\ pc'[t] # "wait"
<1> DEFINE Listed == list' \in [open : BOOLEAN, works : Seq(Plain)]
           Quiet == UNCHANGED <<queue, fence>> /\ pc'[t] # "wait"
<1>0. t \in DOMAIN pc /\ list \in [open : BOOLEAN, works : Seq(Plain)]
  BY DEF Loose, Dx12Awaits
<1>1. ASSUME NEW ok, End(t, ok), UNCHANGED list PROVE Moves(t) /\ Listed /\ Quiet
  BY <1>0, <1>1, EndMoves
<1>2. (\E place : Fails(t, place)) \/ DeviceBuffer(t) => Moves(t) /\ Listed /\ Quiet
  BY <1>1, EndMoves
<1> HIDE DEF Listed, Quiet
<1>3. CASE (\E ok : End(t, ok) /\ UNCHANGED list) \/ (\E place : Fails(t, place)) \/ DeviceBuffer(t)
  BY <1>1, <1>2, <1>3 DEF Listed, Quiet
<1>4. ASSUME ~ (\E ok : End(t, ok) /\ UNCHANGED list), ~ (\E place : Fails(t, place)), ~DeviceBuffer(t)
      PROVE  \/ Dx12!Stage(t) \/ Dx12!BeginList(t) \/ Dx12!Record(t) \/ Dx12!Close(t)
             \/ Dx12!ExecuteCommandLists(t) \/ Dx12!Signal(t) \/ Dx12!SpinWait(t)
  <2>1. ~ Dx12!Finish(t) /\ ~ Dx12!DeviceBuffer(t)
    BY <1>4, Dx12Names DEF Dx12!Finish
  <2> QED BY <2>1 DEF Dx12!CallStep
<1> DEFINE Plainly == ~ (\E ok : End(t, ok) /\ UNCHANGED list) /\ ~ (\E place : Fails(t, place))
<1>5. ASSUME Plainly, Dx12!Stage(t) \/ Dx12!SpinWait(t) PROVE Moves(t) /\ Listed /\ Quiet
  <2>1. /\ UNCHANGED <<api, made, call, queue, fence, list>>
        /\ \E p \in {"begin", "read", "done"} : pc' = [pc EXCEPT ![t] = p]
    BY <1>5, Dx12Names DEF Dx12!Stage, Dx12!SpinWait, Dx12!Goto
  <2> QED BY <1>0, <2>1 DEF Moves, Listed, Quiet
<1>6. ASSUME Plainly, Dx12!BeginList(t) \/ Dx12!Record(t) \/ Dx12!Close(t)
      PROVE  Moves(t) /\ Listed /\ Quiet
  <2>1. /\ UNCHANGED <<api, made, call, queue, fence>>
        /\ \E p \in {"record", "close", "submit"} : pc' = [pc EXCEPT ![t] = p]
    BY <1>6, Dx12Names DEF Dx12!BeginList, Dx12!Record, Dx12!Close, Dx12!Goto
  <2>2. \/ list' = [open |-> TRUE, works |-> <<>>]
        \/ list' = [list EXCEPT !.works = Append(list.works, Work(t))]
        \/ list' = [list EXCEPT !.open = FALSE]
    BY <1>6, Dx12Names DEF Dx12!BeginList, Dx12!Record, Dx12!Close
  <2>3. Work(t) \in Plain
    BY DEF Work, Plain, Loose
  <2>4. Append(list.works, Work(t)) \in Seq(Plain) /\ <<>> \in Seq(Plain)
    BY <1>0, <2>3
  <2>5. PICK o \in BOOLEAN, w \in Seq(Plain) : list = [open |-> o, works |-> w]
    BY <1>0
  <2>6. \/ list' = [open |-> TRUE, works |-> <<>>]
        \/ list' = [open |-> o, works |-> Append(w, Work(t))]
        \/ list' = [open |-> FALSE, works |-> w]
    BY <2>2, <2>5
  <2>7. Append(w, Work(t)) \in Seq(Plain)
    BY <2>3
  <2>8. Listed
    <3>1. \A x \in BOOLEAN, q \in Seq(Plain) :
            [open |-> x, works |-> q] \in [open : BOOLEAN, works : Seq(Plain)]
      OBVIOUS
    <3>2. <<>> \in Seq(Plain)
      BY <2>4
    <3>3. \E x \in BOOLEAN, q \in Seq(Plain) : list' = [open |-> x, works |-> q]
      BY <2>6, <2>7, <3>2
    <3> QED BY <3>1, <3>3 DEF Listed
  <2>9. Moves(t) /\ Quiet
    BY <1>0, <2>1 DEF Moves, Quiet
  <2> QED BY <2>8, <2>9
<1>7. ASSUME Dx12!ExecuteCommandLists(t)
      PROVE  /\ Moves(t) /\ Listed /\ UNCHANGED fence /\ queue' = queue \o list.works
             /\ pc'[t] # "wait"
  BY <1>0, <1>7 DEF Dx12!ExecuteCommandLists, Dx12!Goto, Moves, Listed
<1>8. ASSUME Dx12!Signal(t)
      PROVE  /\ Moves(t) /\ Listed /\ fence' = [fence EXCEPT !.next = @ + 1]
             /\ \/ queue' = Append(queue, [by |-> t, call |-> None, signal |-> fence.next])
                \/ UNCHANGED queue /\ pc'[t] # "wait"
  BY <1>0, <1>8 DEF Dx12!Signal, Dx12!Goto, Moves, Listed
<1>9. Plainly <=> ~ (\E ok : End(t, ok) /\ UNCHANGED list) /\ ~ (\E place : Fails(t, place))
  OBVIOUS
<1> HIDE DEF Plainly
<1> QED BY <1>3, <1>4, <1>5, <1>6, <1>7, <1>8, <1>9 DEF Listed, Quiet

LEMMA Dx12AwaitStep ==
  ASSUME Loose, Dx12Awaits, api = "dx12", NEW t \in Callers, t \in AllCallers, Dx12!CallStep(t)
  PROVE  Loose' /\ Dx12Awaits'
<1>1. /\ Moves(t) /\ list' \in [open : BOOLEAN, works : Seq(Plain)]
      /\ Callers' = Callers /\ \A u \in Callers : u = t
  <2>1. \A u, v \in CallersOf["dx12"] : u = v
    BY GpuWorkAssumption DEF Loose
  <2> QED BY <2>1, Dx12Kinds DEF Moves, Callers
<1>2. /\ queue \in Seq(AnyWork) /\ Len(queue) \in Nat /\ fence.next \in Nat /\ fence.done \in Nat
      /\ fence.done < fence.next /\ fence \in [done : Nat, next : Nat]
      /\ list \in [open : BOOLEAN, works : Seq(Plain)] /\ SignalsInOrder
  BY DEF Loose, Dx12Awaits
<1>3. CASE UNCHANGED <<queue, fence>> /\ pc'[t] # "wait"
  BY <1>1, <1>2, <1>3, MovesLoose DEF Dx12Awaits, SignalsInOrder
<1>4. CASE UNCHANGED fence /\ queue' = queue \o list.works /\ pc'[t] # "wait"
  <2>0. PICK w \in Seq(Plain) : w = list.works
    BY <1>2
  <2>1. w \in Seq(AnyWork)
    <3>1. \A i \in 1 .. Len(w) : w[i] \in Plain
      OBVIOUS
    <3>2. \A x \in Plain : x \in AnyWork
      BY DEF Plain, AnyWork
    <3> QED BY <3>1, <3>2, LenProperties
  <2>2. \A k \in 1 .. Len(w) : w[k].signal = 0
    <3>1. \A x \in Plain : x.signal = 0
      BY DEF Plain
    <3> QED BY <3>1
  <2>3. /\ queue' \in Seq(AnyWork) /\ Len(queue') \in Nat
        /\ \A i \in 1 .. Len(queue) : queue'[i] = queue[i]
        /\ \A i \in 1 .. Len(queue') : i > Len(queue) => queue'[i].signal = 0
    BY <1>4, <2>0, <2>1, <2>2, QueueMore DEF Loose
  <2>4. SignalsInOrder'
    <3>1. ASSUME NEW i \in 1 .. Len(queue'), queue'[i].signal # 0
          PROVE  i \in 1 .. Len(queue) /\ queue'[i] = queue[i]
      BY <1>2, <2>3, <3>1
    <3>2. \A i \in 1 .. Len(queue') : queue'[i].signal # 0 =>
            fence'.done < queue'[i].signal /\ queue'[i].signal < fence'.next
      BY <1>2, <1>4, <3>1 DEF SignalsInOrder
    <3>3. \A i, j \in 1 .. Len(queue') :
            i < j /\ queue'[i].signal # 0 /\ queue'[j].signal # 0 =>
              queue'[i].signal < queue'[j].signal
      BY <1>2, <3>1 DEF SignalsInOrder
    <3> QED BY <3>2, <3>3 DEF SignalsInOrder
  <2> QED BY <1>1, <1>2, <1>4, <2>3, <2>4, MovesLoose DEF Dx12Awaits
<1>5. CASE /\ queue' = Append(queue, [by |-> t, call |-> None, signal |-> fence.next])
           /\ fence' = [fence EXCEPT !.next = @ + 1]
  <2> DEFINE v == [by |-> t, call |-> None, signal |-> fence.next]
  <2>1. v \in AnyWork /\ v.signal = fence.next
    BY <1>2 DEF AnyWork
  <2>2. fence' = [done |-> fence.done, next |-> fence.next + 1]
    BY <1>2, <1>5
  <2> HIDE DEF v
  <2>3. queue' = Append(queue, v)
    BY <1>5 DEF v
  <2>4. /\ queue' \in Seq(AnyWork) /\ Len(queue') = Len(queue) + 1
        /\ \A i \in 1 .. Len(queue) : queue'[i] = queue[i]
        /\ queue'[Len(queue) + 1].signal = fence.next
    BY <1>2, <2>1, <2>3, QueueAppended
  <2>5. \A i \in 1 .. Len(queue') : i \in 1 .. Len(queue) \/ i = Len(queue) + 1
    BY <1>2, <2>4
  <2>6. \A i \in 1 .. Len(queue) : queue[i].signal \in Nat
    BY <1>2, SignalTypes
  <2>7. SignalsInOrder'
    <3>1. \A i \in 1 .. Len(queue) : queue[i].signal # 0 =>
            fence.done < queue[i].signal /\ queue[i].signal < fence.next
      BY <1>2 DEF SignalsInOrder
    <3>2. \A i \in 1 .. Len(queue') : queue'[i].signal # 0 =>
            fence'.done < queue'[i].signal /\ queue'[i].signal < fence'.next
      BY <1>2, <2>2, <2>4, <2>5, <2>6, <3>1
    <3>3. ASSUME NEW i \in 1 .. Len(queue'), NEW j \in 1 .. Len(queue'), i < j,
                 queue'[i].signal # 0, queue'[j].signal # 0
          PROVE  queue'[i].signal < queue'[j].signal
      <4>1. i \in 1 .. Len(queue)
        BY <1>2, <2>4, <3>3
      <4>2. CASE j \in 1 .. Len(queue)
        BY <1>2, <2>4, <3>3, <4>1, <4>2 DEF SignalsInOrder
      <4>3. CASE j = Len(queue) + 1
        BY <2>4, <3>1, <3>3, <4>1, <4>3
      <4> QED BY <2>5, <4>2, <4>3
    <3> QED BY <3>2, <3>3 DEF SignalsInOrder
  <2>8. Len(queue) + 1 \in 1 .. Len(queue') /\ queue'[Len(queue) + 1].signal = fence'.next - 1
    BY <1>2, <2>2, <2>4
  <2> QED BY <1>1, <1>2, <2>2, <2>4, <2>7, <2>8, MovesLoose DEF Dx12Awaits
<1>6. CASE UNCHANGED queue /\ fence' = [fence EXCEPT !.next = @ + 1] /\ pc'[t] # "wait"
  <2>1. fence' = [done |-> fence.done, next |-> fence.next + 1]
    BY <1>2, <1>6
  <2>2. \A i \in 1 .. Len(queue) : queue[i].signal \in Nat
    BY <1>2, SignalTypes
  <2>3. SignalsInOrder'
    BY <1>2, <1>6, <2>1, <2>2 DEF SignalsInOrder
  <2> QED BY <1>1, <1>2, <1>6, <2>1, <2>3, MovesLoose DEF Dx12Awaits
<1> QED BY <1>3, <1>4, <1>5, <1>6, Dx12Kinds

\* The GPU runs or signals the head of the queue.
LEMMA Dx12AwaitHead ==
  ASSUME Loose, Dx12Awaits, GpuRun \/ GpuSignal
  PROVE  Loose' /\ Dx12Awaits'
<1>1. /\ queue # <<>> /\ queue' = Tail(queue) /\ UNCHANGED <<api, pc, call, list, made>>
      /\ \/ Head(queue).signal = 0 /\ fence' = fence
         \/ Head(queue).signal > 0 /\ fence' = [fence EXCEPT !.done = Head(queue).signal]
  BY DEF GpuRun, GpuSignal
<1>2. /\ queue \in Seq(AnyWork) /\ fence \in [done : Nat, next : Nat] /\ fence.done < fence.next
      /\ list \in [open : BOOLEAN, works : Seq(Plain)] /\ SignalsInOrder
  BY DEF Loose, Dx12Awaits
<1>3. /\ Len(queue) \in Nat \ {0} /\ Len(queue') = Len(queue) - 1 /\ queue' \in Seq(AnyWork)
      /\ Head(queue) = queue[1] /\ queue[1] \in AnyWork
      /\ \A i \in 1 .. Len(queue') : i + 1 \in 1 .. Len(queue) /\ queue'[i] = queue[i + 1]
  BY <1>1, <1>2, QueueTail
<1>4. Loose'
  BY <1>1, <1>3 DEF Loose, Callers
<1>5. queue[1].signal \in Nat /\ 1 \in 1 .. Len(queue)
  BY <1>3 DEF AnyWork
<1>6. fence' = [done |-> IF queue[1].signal = 0 THEN fence.done ELSE queue[1].signal, next |-> fence.next]
  BY <1>1, <1>2, <1>3, <1>5
<1>7. SignalsInOrder' /\ fence' \in [done : Nat, next : Nat] /\ fence'.done < fence'.next
  <2>1. \A i \in 1 .. Len(queue) : queue[i].signal # 0 =>
          fence.done < queue[i].signal /\ queue[i].signal < fence.next
    BY <1>2 DEF SignalsInOrder
  <2>2. fence' \in [done : Nat, next : Nat] /\ fence'.done < fence'.next
    BY <1>2, <1>5, <1>6, <2>1
  <2>3. ASSUME NEW i \in 1 .. Len(queue'), queue'[i].signal # 0
        PROVE  fence'.done < queue'[i].signal /\ queue'[i].signal < fence'.next
    <3>1. i + 1 \in 1 .. Len(queue) /\ queue'[i] = queue[i + 1] /\ 1 < i + 1
      BY <1>3
    <3>2. queue[1].signal # 0 => queue[1].signal < queue[i + 1].signal
      BY <1>2, <1>5, <2>3, <3>1 DEF SignalsInOrder
    <3> QED BY <1>6, <2>1, <2>3, <3>1, <3>2
  <2>4. ASSUME NEW i \in 1 .. Len(queue'), NEW j \in 1 .. Len(queue'), i < j,
               queue'[i].signal # 0, queue'[j].signal # 0
        PROVE  queue'[i].signal < queue'[j].signal
    <3>1. /\ i + 1 \in 1 .. Len(queue) /\ queue'[i] = queue[i + 1]
          /\ j + 1 \in 1 .. Len(queue) /\ queue'[j] = queue[j + 1] /\ i + 1 < j + 1
      BY <1>3, <2>4
    <3> QED BY <1>2, <2>4, <3>1 DEF SignalsInOrder
  <2> QED BY <2>2, <2>3, <2>4 DEF SignalsInOrder
<1>8. ASSUME NEW t \in Callers, pc[t] = "wait"
      PROVE  \/ fence'.done = fence'.next - 1
             \/ \E i \in 1 .. Len(queue') : queue'[i].signal = fence'.next - 1
  <2>1. CASE fence.done = fence.next - 1
    <3>1. queue[1].signal = 0
      BY <1>2, <1>5, <2>1 DEF SignalsInOrder
    <3> QED BY <1>6, <2>1, <3>1
  <2>2. ASSUME NEW i \in 1 .. Len(queue), queue[i].signal = fence.next - 1
        PROVE  \/ fence'.done = fence'.next - 1
               \/ \E j \in 1 .. Len(queue') : queue'[j].signal = fence'.next - 1
    <3>1. CASE i = 1
      BY <1>2, <1>6, <2>2, <3>1
    <3>2. CASE i # 1
      <4>1. i - 1 \in 1 .. Len(queue') /\ (i - 1) + 1 = i
        BY <1>3, <2>2, <3>2
      <4>2. queue'[i - 1] = queue[i]
        BY <1>3, <4>1
      <4> QED BY <1>6, <2>2, <4>1, <4>2
    <3> QED BY <3>1, <3>2
  <2> QED BY <1>8, <2>1, <2>2 DEF Dx12Awaits
<1>9. Callers' = Callers /\ pc' = pc /\ list' = list
  BY <1>1 DEF Callers
<1> QED BY <1>2, <1>4, <1>7, <1>8, <1>9 DEF Dx12Awaits

\* The steps of a Metal call.
LEMMA MetalKinds ==
  ASSUME Loose, api = "metal", NEW t \in AllCallers, Immediate!CallStep(t)
  PROVE  /\ Moves(t)
         /\ \/ UNCHANGED queue /\ pc'[t] # "wait"
            \/ UNCHANGED call /\ queue' = Append(queue, Work(t))
         /\ \A u \in landed : u # t => u \in landed'
<1> DEFINE Quiet == UNCHANGED queue /\ pc'[t] # "wait" /\ \A u \in landed : u # t => u \in landed'
<1>0. t \in DOMAIN pc
  BY DEF Loose
<1>1. ASSUME NEW ok, End(t, ok) PROVE Moves(t) /\ Quiet
  BY <1>0, <1>1, EndMoves
<1>2. (\E place : Fails(t, place)) \/ DeviceBuffer(t) => Moves(t) /\ Quiet
  BY <1>1, EndMoves
<1> HIDE DEF Quiet
<1>3. CASE (\E ok : End(t, ok)) \/ (\E place : Fails(t, place)) \/ DeviceBuffer(t)
  BY <1>1, <1>2, <1>3 DEF Quiet
<1> DEFINE Plainly == ~ (\E ok : End(t, ok)) /\ ~ (\E place : Fails(t, place)) /\ ~DeviceBuffer(t)
<1>4. ASSUME Plainly
      PROVE  Immediate!HostCopy(t) \/ Immediate!Commit(t) \/ Immediate!WaitUntilCompleted(t)
  <2>1. ~ Immediate!Finish(t) /\ ~ Immediate!DeviceBuffer(t)
    BY <1>4, ImmediateNames DEF Immediate!Finish
  <2>2. ~ Immediate!Issue(t) /\ ~ Immediate!ReadBytes(t)
    BY DEF Immediate!Issue, Immediate!ReadBytes, Immediate!OpenGL
  <2> QED BY <2>1, <2>2 DEF Immediate!CallStep
<1>5. ASSUME Plainly, Immediate!HostCopy(t) \/ Immediate!WaitUntilCompleted(t)
      PROVE  Moves(t) /\ Quiet
  <2>1. /\ UNCHANGED <<api, made, call, queue>> /\ pc' = [pc EXCEPT ![t] = "done"]
        /\ \A u \in landed : u \in landed'
    BY <1>5, ImmediateNames DEF Immediate!HostCopy, Immediate!WaitUntilCompleted, Immediate!Goto
  <2> QED BY <1>0, <2>1 DEF Moves, Quiet
<1>6. ASSUME Immediate!Commit(t)
      PROVE  Moves(t) /\ UNCHANGED <<call, landed>> /\ queue' = Append(queue, Work(t))
  BY <1>0, <1>6, ImmediateNames DEF Immediate!Commit, Immediate!Goto, Moves
<1>7. Plainly <=> ~ (\E ok : End(t, ok)) /\ ~ (\E place : Fails(t, place)) /\ ~DeviceBuffer(t)
  OBVIOUS
<1> HIDE DEF Plainly
<1> QED BY <1>3, <1>4, <1>5, <1>6, <1>7 DEF Quiet

LEMMA MetalAwaitStep ==
  ASSUME Loose, MetalAwaits, api = "metal", NEW t \in Callers, t \in AllCallers,
         Immediate!CallStep(t)
  PROVE  Loose' /\ MetalAwaits'
<1>1. Moves(t) /\ Callers' = Callers /\ Callers \subseteq AllCallers
  BY MetalKinds DEF Moves, Callers, AllCallers, Loose
<1>2. \A u \in landed : u # t => u \in landed'
  BY MetalKinds
<1>3. \A u \in Callers \ {t} : pc'[u] = pc[u] /\ call'[u] = call[u] /\ Work(u)' = Work(u)
  BY <1>1 DEF Moves, Loose, Work
<1>4. CASE UNCHANGED queue /\ pc'[t] # "wait"
  <2>1. ASSUME NEW u \in Callers, pc'[u] = "wait"
        PROVE  u \in landed' \/ \E i \in 1 .. Len(queue') : queue'[i] = Work(u)'
    BY <1>2, <1>3, <1>4, <2>1 DEF MetalAwaits
  <2>2. Loose'
    BY <1>1, <1>4, MovesLoose DEF Loose
  <2> QED BY <1>1, <2>1, <2>2 DEF MetalAwaits
<1>5. CASE UNCHANGED call /\ queue' = Append(queue, Work(t))
  <2>1. Work(t) \in AnyWork /\ Work(t)' = Work(t)
    BY <1>5 DEF Work, AnyWork, Loose
  <2>2. /\ queue' \in Seq(AnyWork) /\ Len(queue) \in Nat /\ Len(queue') = Len(queue) + 1
        /\ \A i \in 1 .. Len(queue) : queue'[i] = queue[i]
        /\ queue'[Len(queue) + 1] = Work(t)
    BY <1>5, <2>1, QueueAppended DEF Loose
  <2>3. Len(queue) + 1 \in 1 .. Len(queue') /\ \A i \in 1 .. Len(queue) : i \in 1 .. Len(queue')
    BY <2>2
  <2>4. ASSUME NEW u \in Callers, pc'[u] = "wait"
        PROVE  u \in landed' \/ \E i \in 1 .. Len(queue') : queue'[i] = Work(u)'
    <3>1. CASE u = t
      BY <2>1, <2>2, <2>3, <3>1
    <3>2. CASE u # t
      BY <1>2, <1>3, <2>2, <2>3, <2>4, <3>2 DEF MetalAwaits
    <3> QED BY <3>1, <3>2
  <2>5. Loose'
    BY <1>1, <2>2, MovesLoose
  <2> QED BY <1>1, <2>4, <2>5 DEF MetalAwaits
<1> QED BY <1>4, <1>5, MetalKinds

\* What leaves the queue is another's work, or has landed now.
LEMMA MetalAwaitHead ==
  ASSUME Loose, MetalAwaits, GpuRun \/ GpuSignal
  PROVE  Loose' /\ MetalAwaits'
<1>1. /\ queue # <<>> /\ queue' = Tail(queue) /\ UNCHANGED <<api, pc, call, made>>
      /\ landed \subseteq landed'
      /\ Current(Head(queue)) /\ Head(queue).signal = 0 => Head(queue).by \in landed'
  BY DEF GpuRun, GpuSignal
<1>2. /\ Len(queue) \in Nat \ {0} /\ Len(queue') = Len(queue) - 1 /\ queue' \in Seq(AnyWork)
      /\ Head(queue) = queue[1] /\ queue[1] \in AnyWork
      /\ \A i \in 1 .. Len(queue') : i + 1 \in 1 .. Len(queue) /\ queue'[i] = queue[i + 1]
  BY <1>1, QueueTail DEF Loose
<1>3. Loose' /\ Callers' = Callers
  BY <1>1, <1>2 DEF Loose, Callers
<1>4. ASSUME NEW u \in Callers, pc[u] = "wait"
      PROVE  u \in landed' \/ \E i \in 1 .. Len(queue') : queue'[i] = Work(u)
  <2>1. CASE u \in landed
    BY <1>1, <2>1
  <2>2. ASSUME NEW i \in 1 .. Len(queue), queue[i] = Work(u), u \notin landed
        PROVE  u \in landed' \/ \E j \in 1 .. Len(queue') : queue'[j] = Work(u)
    <3>1. CASE i = 1
      <4>1. Head(queue).by = u /\ Head(queue).call = call[u] /\ Head(queue).signal = 0
        BY <1>2, <2>2, <3>1 DEF Work
      <4> QED BY <1>1, <2>2, <4>1 DEF Current
    <3>2. CASE i # 1
      <4>1. i - 1 \in 1 .. Len(queue') /\ (i - 1) + 1 = i
        BY <1>2, <2>2, <3>2
      <4>2. queue'[i - 1] = queue[i]
        BY <1>2, <4>1
      <4> QED BY <2>2, <4>1, <4>2
    <3> QED BY <3>1, <3>2
  <2> QED BY <1>4, <2>1, <2>2 DEF MetalAwaits
<1>5. \A u : Work(u)' = Work(u)
  BY <1>1 DEF Work
<1> QED BY <1>1, <1>3, <1>4, <1>5 DEF MetalAwaits

\* A call begins, or a buffer is dropped.
LEMMA AwaitBegin ==
  ASSUME Loose, NEW t \in Callers, t \in AllCallers, Call(t)
  PROVE  Loose' /\ (Dx12Awaits => Dx12Awaits') /\ (MetalAwaits => MetalAwaits')
<1>1. PICK c \in Numbered({made + 1}) : Begin(t, c, "alloc")
  BY DEF Call
<1>2. /\ pc[t] = "idle" /\ made < MaxCalls /\ made \in Nat
      /\ pc' = [pc EXCEPT ![t] = "alloc"] /\ call' = [call EXCEPT ![t] = c]
      /\ landed' = landed \ {t} /\ made' = made + 1
      /\ UNCHANGED <<api, queue, list, fence>>
  BY <1>1 DEF Begin, Goto, Loose
<1>3. c \in CallTypes
  <2>1. made + 1 \in 1 .. MaxCalls
    BY <1>2, GpuWorkAssumption
  <2> QED BY <2>1 DEF CallTypes, Numbered
<1>4. Callers' = Callers /\ pc'[t] = "alloc" /\ DOMAIN pc' = AllCallers
      /\ \A u \in AllCallers \ {t} : pc'[u] = pc[u] /\ call'[u] = call[u]
  BY <1>2 DEF Callers, Loose
<1>5. Loose'
  BY <1>2, <1>3, <1>4 DEF Loose
<1>6. Callers \subseteq AllCallers
  BY DEF Callers, AllCallers, Loose
<1>7. \A u \in Callers : pc'[u] = "wait" => u # t /\ pc[u] = "wait" /\ Work(u)' = Work(u)
  BY <1>4, <1>6 DEF Work
<1>8. Dx12Awaits => Dx12Awaits'
  BY <1>2, <1>4, <1>7 DEF Dx12Awaits, SignalsInOrder
<1>9. MetalAwaits => MetalAwaits'
  <2> SUFFICES ASSUME MetalAwaits, NEW u \in Callers, pc'[u] = "wait"
               PROVE  u \in landed' \/ \E i \in 1 .. Len(queue) : queue[i] = Work(u)'
    BY <1>2, <1>4 DEF MetalAwaits
  <2>1. u # t /\ pc[u] = "wait" /\ Work(u)' = Work(u)
    BY <1>7
  <2> QED BY <1>2, <2>1 DEF MetalAwaits
<1> QED BY <1>5, <1>8, <1>9

LEMMA AwaitStill ==
  ASSUME Loose, UNCHANGED <<api, pc, call, queue, list, fence, landed, made>>
  PROVE  Loose' /\ (Dx12Awaits => Dx12Awaits') /\ (MetalAwaits => MetalAwaits')
BY DEF Loose, Callers, Dx12Awaits, SignalsInOrder, MetalAwaits, Work

LEMMA AwaitStep == AwaitInv /\ [Next]_gvars => AwaitInv'
<1> SUFFICES ASSUME AwaitInv, [Next]_gvars PROVE AwaitInv'
  OBVIOUS
<1>0. Callers \subseteq AllCallers
  BY DEF AwaitInv, Callers, AllCallers
<1>1. ASSUME NEW t \in Callers, Call(t) PROVE AwaitInv'
  <2>1. t \in AllCallers /\ api' = api
    BY <1>0, <1>1 DEF Call, Begin
  <2> QED BY <1>1, <2>1, AwaitBegin DEF AwaitInv
<1>2. ASSUME NEW t \in Callers, CallStep(t) PROVE AwaitInv'
  <2>1. t \in AllCallers /\ api' = api
    BY <1>0, <1>2, StepKeepsApi
  <2>2. api = "dx12" => Loose' /\ Dx12Awaits'
    BY <1>2, <2>1, Dx12AwaitStep DEF AwaitInv, CallStep
  <2>3. api = "metal" => Loose' /\ MetalAwaits'
    BY <1>2, <2>1, MetalAwaitStep DEF AwaitInv, CallStep
  <2> QED BY <2>1, <2>2, <2>3 DEF AwaitInv
<1>3. CASE GpuRun \/ GpuSignal
  <2>1. api' = api
    BY <1>3 DEF GpuRun, GpuSignal
  <2> QED BY <1>3, <2>1, Dx12AwaitHead, MetalAwaitHead DEF AwaitInv
<1>4. CASE (\E b \in Buffers : DropBuffer(b)) \/ UNCHANGED gvars
  <2>1. UNCHANGED <<api, pc, call, queue, list, fence, landed, made>>
    BY <1>4 DEF DropBuffer, gvars
  <2> QED BY <2>1, AwaitStill DEF AwaitInv
<1> QED BY <1>1, <1>2, <1>3, <1>4 DEF Next

\* No wait is for what will not come, whichever calls of the driver have failed
\* before: the fence has the value or its signal is in the queue, although a
\* Signal that failed used up one (dx12/compute.rs:768-770), and a command
\* buffer that is waited for has run or is at the GPU.  With a GPU that goes on,
\* which is the fairness of FairSpec, each of these waits ends.
THEOREM WaitsAreForSomething == Spec => []AwaitedComes
<1>1. Init => AwaitInv
  <2> SUFFICES ASSUME Init PROVE AwaitInv
    OBVIOUS
  <2>1. /\ api \in Apis /\ made = 0 /\ pc = [t \in AllCallers |-> "idle"] /\ queue = <<>>
        /\ call = [t \in AllCallers |-> None] /\ fence = [done |-> 0, next |-> 1]
        /\ list = [open |-> api = "levelzero", works |-> <<>>]
    BY DEF Init
  <2>2. Loose
    BY <2>1, EmptySeq DEF Loose
  <2>3. \A t \in Callers : pc[t] # "wait"
    BY <2>1 DEF Callers, AllCallers
  <2>4. SignalsInOrder /\ MetalAwaits
    BY <2>1, <2>3 DEF SignalsInOrder, MetalAwaits
  <2>5. list \in [open : BOOLEAN, works : Seq(Plain)] /\ fence \in [done : Nat, next : Nat]
    BY <2>1, EmptySeq
  <2> QED BY <2>1, <2>2, <2>3, <2>4, <2>5 DEF AwaitInv, Dx12Awaits
<1>2. AwaitInv => AwaitedComes
  <2> SUFFICES ASSUME AwaitInv, NEW t \in AllCallers, pc[t] = "wait"
               PROVE  /\ api = "dx12" =>
                           \/ fence.done >= fence.next - 1
                           \/ \E w \in Items(queue) : w.signal = fence.next - 1
                      /\ api = "metal" => t \in landed \/ Work(t) \in Items(queue)
    BY DEF AwaitedComes
  <2>1. \A i \in 1 .. Len(queue) : queue[i] \in Items(queue)
    BY DEF Items
  <2>2. CASE api = "dx12"
    <3>1. t \in Callers /\ fence.done \in Nat /\ fence.next \in Nat
      BY <2>2 DEF AwaitInv, Loose, Dx12Awaits
    <3> QED BY <2>1, <2>2, <3>1 DEF AwaitInv, Dx12Awaits
  <2>3. CASE api = "metal"
    <3>1. t \in Callers
      BY <2>3 DEF AwaitInv, Loose
    <3> QED BY <2>1, <2>3, <3>1 DEF AwaitInv, MetalAwaits
  <2> QED BY <2>2, <2>3
<1> QED BY <1>1, <1>2, AwaitStep, PTL DEF Spec

-----------------------------------------------------------------------------
(***************************************************************************)
(* The refinement.  Two things more are asked than of the memory: Vulkan's *)
(* device is one thread's, since a pipeline has one descriptor set, and    *)
(* OpenGL's barrier covers the read.                                       *)
(***************************************************************************)
Sole == "vulkan" \in Apis => \A t, u \in CallersOf["vulkan"] : t = u

Coherent == <<"opengl", "coherence">> \notin MayFail

Promised == IInv /\ BoundInv

\* A step within a call that has no effect yet.
Quiet(t) ==
  /\ UNCHANGED <<api, call, mem, landed, result>>
  /\ queue' = queue \/ api # "opengl"
  /\ \A u \in AllCallers : u # t => staging'[u] = staging[u]
  /\ t \notin landed \/ staging'[t] = staging[t]

\* The call has its effect, on the host's side.
HostEffect(t) ==
  LET b == call[t].buf IN
  /\ Staged(call[t]) /\ t \notin landed
  /\ queue = <<>> \/ api # "opengl"
  /\ mem' = IF call[t].op = "upload" THEN [mem EXCEPT ![b] = Fresh(call[t].arg)] ELSE mem
  /\ staging' = [staging EXCEPT ![t] = IF call[t].op = "download" THEN mem[b] ELSE None]
  /\ landed' = landed \cup {t}
  /\ UNCHANGED <<api, call, queue, result>>

\* The driver takes a call it will run later.
Issued(t) ==
  /\ api = "opengl" /\ call[t].op \in {"upload", "dispatch"} /\ t \notin landed
  /\ queue' = Append(queue, Work(t))
  /\ landed' = landed \cup {t}
  /\ UNCHANGED <<api, call, mem, staging, result>>

\* Where a call may return, or fail.
Ended(t) ==
  \/ /\ End(t, TRUE)
     /\ t \in landed \/ call[t].op = "device_buffer"
  \/ End(t, FALSE) /\ (api = "opengl" => t \notin landed)

LEMMA StepKinds ==
  ASSUME IInv, NoneAbandoned, Coherent, NEW t \in Callers, CallStep(t)
  PROVE  pc[t] # "idle" /\ (Quiet(t) \/ HostEffect(t) \/ Issued(t) \/ Ended(t))
<1>1. Common /\ t \in AllCallers /\ Carries(t) /\ pc[t] \in Places
  BY KnownApi DEF IInv, Common
<1>3. CASE api = "vulkan"
  <2>1. Vulkan!CallStep(t)
    BY <1>3 DEF CallStep
  <2>2. CASE DeviceBuffer(t)
    BY <1>1, <1>3, <2>2 DEF DeviceBuffer, Fails, Ended
  <2>3. CASE Vulkan!Stage(t)
    BY <1>1, <1>3, <2>3, VulkanNames DEF Vulkan!Stage, Fails, Ended, Quiet, Carries, Early, Common, TypeOK
  <2>4. CASE Vulkan!Bind(t)
    BY <1>1, <1>3, <2>4 DEF Vulkan!Bind, Quiet
  <2>5. CASE Vulkan!Record(t)
    BY <1>1, <1>3, <2>5, VulkanNames DEF Vulkan!Record, Fails, Ended, Quiet
  <2>6. CASE Vulkan!QueueSubmit(t)
    BY <1>1, <1>3, <2>6, VulkanNames DEF Vulkan!QueueSubmit, Fails, Ended, Quiet
  <2>7. CASE Vulkan!WaitIdle(t)
    BY <1>1, <1>3, <2>7, VulkanNames DEF Vulkan!WaitIdle, Fails, Ended, Quiet
  <2>8. CASE Vulkan!Finish(t)
    BY <1>1, <1>3, <2>8, VulkanNames DEF Vulkan!Finish, Fails, Ended, Carries
  <2> QED
    BY <2>1, <2>2, <2>3, <2>4, <2>5, <2>6, <2>7, <2>8, VulkanNames DEF Vulkan!CallStep
<1>4. CASE api = "dx12"
  <2>1. Dx12!CallStep(t)
    BY <1>4 DEF CallStep
  <2>2. CASE DeviceBuffer(t)
    BY <1>1, <1>4, <2>2 DEF DeviceBuffer, Fails, Ended
  <2>3. CASE Dx12!Stage(t)
    BY <1>1, <1>4, <2>3, Dx12Names DEF Dx12!Stage, Fails, Ended, Quiet, Carries, Early, Common, TypeOK
  <2>4. CASE Dx12!BeginList(t)
    BY <1>1, <1>4, <2>4, Dx12Names DEF Dx12!BeginList, Dx12!ToRecord, Fails, Ended, Quiet
  <2>5. CASE Dx12!Record(t)
    BY <1>1, <1>4, <2>5 DEF Dx12!Record, Quiet
  <2>6. CASE Dx12!Close(t)
    BY <1>1, <1>4, <2>6, Dx12Names DEF Dx12!Close, Fails, Ended, Quiet
  <2>7. CASE Dx12!ExecuteCommandLists(t)
    BY <1>1, <1>4, <2>7 DEF Dx12!ExecuteCommandLists, Quiet
  <2>8. CASE Dx12!Signal(t)
    BY <1>1, <1>4, <2>8 DEF Dx12!Signal, Quiet
  <2>9. CASE Dx12!SpinWait(t)
    BY <1>1, <1>4, <2>9 DEF Dx12!SpinWait, Quiet
  <2>10. CASE Dx12!Finish(t)
    <3>1. pc[t] # "failed"
      BY <1>1 DEF Places
    <3> QED
      BY <1>1, <1>4, <2>10, <3>1, Dx12Names DEF Dx12!Finish, Fails, Ended, Carries
  <2> QED
    BY <2>1, <2>2, <2>3, <2>4, <2>5, <2>6, <2>7, <2>8, <2>9, <2>10, Dx12Names DEF Dx12!CallStep
<1>5. CASE api = "levelzero"
  <2>1. LevelZero!CallStep(t)
    BY <1>5 DEF CallStep
  <2>2. CASE DeviceBuffer(t)
    BY <1>1, <1>5, <2>2 DEF DeviceBuffer, Fails, Ended
  <2>3. CASE LevelZero!HostCopy(t)
    BY <1>1, <1>5, <2>3, LevelZeroNames
       DEF LevelZero!HostCopy, Fails, Ended, HostEffect, Carries, Early, LevelZero!Staged, Staged,
           LevelZero!Fresh, Fresh
  <2>4. CASE LevelZero!AppendLaunchKernel(t)
    BY <1>1, <1>5, <2>4, LevelZeroNames DEF LevelZero!AppendLaunchKernel, Fails, Ended, Quiet
  <2>5. CASE LevelZero!Close(t)
    BY <1>1, <1>5, <2>5, LevelZeroNames DEF LevelZero!Close, Fails, Ended, Quiet
  <2>6. CASE LevelZero!ExecuteCommandLists(t)
    BY <1>1, <1>5, <2>6, LevelZeroNames DEF LevelZero!ExecuteCommandLists, Fails, Ended, Quiet
  <2>7. CASE LevelZero!Synchronize(t)
    BY <1>1, <1>5, <2>7, LevelZeroNames DEF LevelZero!Synchronize, Fails, Ended, Quiet
  <2>8. CASE LevelZero!Reset(t)
    BY <1>1, <1>5, <2>8, LevelZeroNames DEF LevelZero!Reset, Ended, Carries
  <2>9. CASE LevelZero!Finish(t)
    BY <1>1, <1>5, <2>9, LevelZeroNames DEF LevelZero!Finish, Ended, Carries
  <2> QED
    BY <2>1, <2>2, <2>3, <2>4, <2>5, <2>6, <2>7, <2>8, <2>9, LevelZeroNames DEF LevelZero!CallStep
<1>6. CASE api \in {"metal", "opengl"}
  <2>1. Immediate!CallStep(t)
    BY <1>6 DEF CallStep
  <2>2. CASE DeviceBuffer(t)
    BY <1>1, <1>6, <2>2 DEF DeviceBuffer, Fails, Ended, Carries, Early
  <2>3. CASE Immediate!HostCopy(t)
    BY <1>1, <1>6, <2>3, ImmediateNames
       DEF Immediate!HostCopy, Immediate!Metal, Fails, Ended, HostEffect, Carries, Early,
           Immediate!Staged, Staged, Immediate!Fresh, Fresh
  <2>4. CASE Immediate!Commit(t)
    BY <1>1, <1>6, <2>4 DEF Immediate!Commit, Immediate!Metal, Quiet
  <2>5. CASE Immediate!WaitUntilCompleted(t)
    BY <1>1, <1>6, <2>5 DEF Immediate!WaitUntilCompleted, Quiet
  <2>6. CASE Immediate!Issue(t)
    BY <1>1, <1>6, <2>6, ImmediateNames
       DEF Immediate!Issue, Immediate!OpenGL, Fails, Ended, Issued, Carries, Early
  <2>7. CASE Immediate!ReadBytes(t)
    BY <1>1, <1>6, <2>7
       DEF Immediate!ReadBytes, Immediate!OpenGL, Immediate!CanFail, Coherent, HostEffect, Carries, Early, Staged
  <2>8. CASE Immediate!Finish(t)
    BY <1>1, <1>6, <2>8, ImmediateNames DEF Immediate!Finish, Ended, Carries
  <2> QED
    BY <2>1, <2>2, <2>3, <2>4, <2>5, <2>6, <2>7, <2>8, ImmediateNames DEF Immediate!CallStep
<1> QED
  BY <1>1, <1>3, <1>4, <1>5, <1>6, KnownApi

LEMMA PendingBlocking ==
  ASSUME api # "opengl", NEW t
  PROVE  PendingOf(t) = IF Unlanded(t) THEN <<call[t]>> ELSE <<>>
BY DEF PendingOf

\* The calls OpenGL's driver has been given and not run.
Given == [i \in 1 .. Len(queue) |-> queue[i].call]

LEMMA GivenType ==
  ASSUME Common, OpenGLQueue
  PROVE  /\ Given \in Seq(CallTypes) /\ Len(Given) = Len(queue)
         /\ \A i \in 1 .. Len(queue) :
              Given[i] = queue[i].call /\ Given[i].op \in {"upload", "dispatch"}
<1>1. queue \in Seq(Works \cup Signals) /\ Len(queue) \in Nat
  BY DEF Common, TypeOK
<1>2. \A i \in 1 .. Len(queue) : queue[i].call \in CallTypes
  BY <1>1 DEF OpenGLQueue, Works, Signals
<1> QED
  BY <1>1, <1>2 DEF Given, OpenGLQueue

LEMMA PendingOpenGL ==
  ASSUME Common, OpenGLQueue, api = "opengl", NEW t \in AllCallers
  PROVE  PendingOf(t) = IF t \notin Callers THEN <<>>
                        ELSE IF Unlanded(t) THEN Append(Given, call[t]) ELSE Given
<1>1. t \notin Callers => ~ Unlanded(t)
  BY DEF Common, TypeOK, Carries, Unlanded
<1>2. Unlanded(t) => call[t] \in CallTypes
  BY DEF Common, TypeOK, Unlanded
<1>3. Given \in Seq(CallTypes)
  BY GivenType
<1>4. Given \o <<>> = Given /\ (Unlanded(t) => Given \o <<call[t]>> = Append(Given, call[t]))
  BY <1>2, <1>3, AppendIsConcat, ConcatEmptySeq
<1>5. PendingOf(t) = (IF t \in Callers THEN Given ELSE <<>>)
                       \o (IF Unlanded(t) THEN <<call[t]>> ELSE <<>>)
  BY DEF PendingOf, Given
<1>6. <<>> \o <<>> = <<>>
  BY EmptySeq, ConcatEmptySeq
<1> HIDE DEF Given
<1>7. CASE t \in Callers
  BY <1>4, <1>5, <1>7
<1>8. CASE t \notin Callers
  BY <1>1, <1>5, <1>6, <1>8
<1> QED
  BY <1>7, <1>8

LEMMA QuietStutters ==
  ASSUME IInv, NEW t \in AllCallers, Quiet(t)
  PROVE  UNCHANGED Contract!cvars
<1>1. ASSUME NEW u \in AllCallers PROVE PendingOf(u)' = PendingOf(u) /\ ReadBy(u)' = ReadBy(u)
  <2>1. CASE queue' = queue
    BY <2>1 DEF Quiet, PendingOf, ReadBy, Unlanded, Callers
  <2>2. CASE api # "opengl"
    BY <2>2 DEF Quiet, PendingOf, ReadBy, Unlanded, Callers
  <2> QED
    BY <2>1, <2>2 DEF Quiet
<1> QED
  BY <1>1 DEF Quiet, Contract!cvars

\* The GPU's signal is the host's affair.
LEMMA SignalStutters ==
  ASSUME IInv, GpuSignal
  PROVE  UNCHANGED Contract!cvars
<1>1. api # "opengl"
  <2>1. queue # <<>> /\ Head(queue).signal > 0 /\ queue \in Seq(Works \cup Signals)
    BY DEF IInv, GpuSignal, Common, TypeOK
  <2>2. 1 \in 1 .. Len(queue) /\ Head(queue) = queue[1]
    BY <2>1, EmptySeq
  <2>3. api = "opengl" => Head(queue).signal = 0
    BY <2>2 DEF IInv, QueueInv, OpenGLQueue
  <2> QED
    BY <2>1, <2>3
<1>2. \A u \in AllCallers : PendingOf(u)' = PendingOf(u) /\ ReadBy(u)' = ReadBy(u)
  BY <1>1 DEF GpuSignal, PendingOf, ReadBy, Unlanded, Callers
<1> QED
  BY <1>2 DEF GpuSignal, Contract!cvars

LEMMA BeginInvokes ==
  ASSUME IInv, NEW t \in Callers, NEW c \in Numbered({made + 1}), Begin(t, c, "alloc")
  PROVE  c \in CallTypes /\ t \in AllCallers /\ Contract!Invoke(t, c)
<1>1. Common /\ t \in AllCallers
  BY KnownApi DEF IInv
<1>2. c \in CallTypes
  <2>1. made + 1 \in 1 .. MaxCalls
    BY <1>1, GpuWorkAssumption DEF Common, Begin
  <2> QED
    BY <2>1 DEF CallTypes, Numbered
<1>3. c # None /\ c.buf \in Buffers
  BY <1>2, CallFields
<1>4. /\ pc[t] = "idle" /\ call[t] = None
      /\ IF Creating(c) THEN mem[c.buf] = None ELSE mem[c.buf] # None
      /\ call' = [call EXCEPT ![t] = c] /\ landed' = landed \ {t}
      /\ result' = [result EXCEPT ![t] = None]
      /\ mem' = IF Creating(c) THEN [mem EXCEPT ![c.buf] = Fresh(Uninit)] ELSE mem
      /\ UNCHANGED <<api, staging, queue>>
  BY <1>1 DEF Begin, Common, TypeOK
<1>5. call'[t] = c /\ t \notin landed' /\ result'[t] = None
  BY <1>1, <1>4 DEF Common, TypeOK
<1>6. ASSUME NEW u \in AllCallers, u # t
      PROVE  PendingOf(u)' = PendingOf(u) /\ ReadBy(u)' = ReadBy(u)
  <2>1. call'[u] = call[u] /\ (u \in landed' <=> u \in landed) /\ result'[u] = result[u]
    BY <1>1, <1>4, <1>6 DEF Common, TypeOK
  <2> QED
    BY <1>4, <2>1 DEF PendingOf, ReadBy, Unlanded, Callers
<1>7. ReadBy(t)' = None
  BY <1>5 DEF ReadBy
<1>8. PendingOf(t)' = IF c.op = "device_buffer" THEN PendingOf(t) ELSE Append(PendingOf(t), c)
  <2>1. Unlanded(t)' <=> c.op # "device_buffer"
    BY <1>3, <1>5 DEF Unlanded
  <2>2. ~ Unlanded(t)
    BY <1>4 DEF Unlanded
  <2>3. CASE api # "opengl"
    <3>1. PendingOf(t) = <<>>
      BY <2>2, <2>3, PendingBlocking
    <3>2. PendingOf(t)' = IF c.op # "device_buffer" THEN <<c>> ELSE <<>>
      BY <1>4, <1>5, <2>1, <2>3 DEF PendingOf
    <3> QED
      BY <1>2, <3>1, <3>2, Singles
  <2>4. CASE api = "opengl"
    <3>1. Given \in Seq(CallTypes) /\ PendingOf(t) = Given
      BY <1>1, <2>2, <2>4, PendingOpenGL, GivenType DEF IInv, QueueInv
    <3>2. PendingOf(t)' = Given \o (IF c.op # "device_buffer" THEN <<c>> ELSE <<>>)
      BY <1>4, <1>5, <2>1, <2>4 DEF PendingOf, Given, Callers
    <3>3. Given \o <<>> = Given /\ Given \o <<c>> = Append(Given, c)
      BY <1>2, <3>1, AppendIsConcat, ConcatEmptySeq
    <3> QED
      BY <3>1, <3>2, <3>3
  <2> QED
    BY <2>3, <2>4
<1>9. [u \in AllCallers |-> PendingOf(u)]' =
        IF c.op = "device_buffer" THEN [u \in AllCallers |-> PendingOf(u)]
        ELSE [[u \in AllCallers |-> PendingOf(u)] EXCEPT ![t] = Append(@, c)]
  BY <1>6, <1>8
<1>10. [u \in AllCallers |-> ReadBy(u)]' = [[u \in AllCallers |-> ReadBy(u)] EXCEPT ![t] = None]
  BY <1>6, <1>7
<1> QED
  BY <1>1, <1>2, <1>4, <1>9, <1>10
     DEF Contract!Invoke, Contract!Creating, Creating, Contract!Fresh, Fresh

LEMMA DropDrops ==
  ASSUME IInv, NEW b \in Buffers, DropBuffer(b)
  PROVE  Contract!Drop(b)
<1>1. \A u \in AllCallers : PendingOf(u)' = PendingOf(u) /\ ReadBy(u)' = ReadBy(u)
  BY DEF DropBuffer, PendingOf, ReadBy, Unlanded, Callers
<1> QED
  BY <1>1 DEF DropBuffer, InUse, Contract!Drop

LEMMA EndReturns ==
  ASSUME IInv, NEW t \in Callers, pc[t] # "idle", Ended(t)
  PROVE  Contract!Return(t) \/ Contract!Fail(t)
<1>1. /\ Common /\ t \in AllCallers /\ call[t] # None /\ call[t] \in CallTypes
      /\ call[t].buf \in Buffers /\ result[t] = None
  BY InCall, KnownApi DEF IInv, Common, Carries
<1>2. PICK ok \in BOOLEAN :
        /\ End(t, ok)
        /\ ok => t \in landed \/ call[t].op = "device_buffer"
        /\ ~ ok => (api = "opengl" => t \notin landed)
  BY DEF Ended
<1>3. /\ call' = [call EXCEPT ![t] = None] /\ landed' = landed \ {t}
      /\ staging' = [staging EXCEPT ![t] = None]
      /\ mem' = IF ~ok /\ Creating(call[t]) THEN [mem EXCEPT ![call[t].buf] = None] ELSE mem
      /\ result' = [result EXCEPT ![t] = IF ok /\ call[t].op = "download" THEN staging[t] ELSE None]
      /\ UNCHANGED <<api, queue>>
  BY <1>2 DEF End
<1>4. ASSUME NEW u \in AllCallers, u # t
      PROVE  PendingOf(u)' = PendingOf(u) /\ ReadBy(u)' = ReadBy(u)
  <2>1. /\ call'[u] = call[u] /\ (u \in landed' <=> u \in landed) /\ result'[u] = result[u]
        /\ staging'[u] = staging[u]
    BY <1>1, <1>3, <1>4 DEF Common, TypeOK
  <2> QED
    BY <1>3, <2>1 DEF PendingOf, ReadBy, Unlanded, Callers
<1>5. call'[t] = None /\ ReadBy(t)' = result'[t] /\ ~ Unlanded(t)'
  BY <1>1, <1>3 DEF ReadBy, Unlanded, Common, TypeOK
<1>6. result'[t] = IF ok /\ call[t].op = "download" THEN staging[t] ELSE None
  BY <1>1, <1>3 DEF Common, TypeOK
<1> DEFINE P == [u \in AllCallers |-> PendingOf(u)]
           R == [u \in AllCallers |-> ReadBy(u)]
<1>7. PendingOf(t)' = IF api = "opengl" THEN Given ELSE <<>>
  <2>1. api # "opengl" => PendingOf(t)' = <<>>
    BY <1>3, <1>5 DEF PendingOf
  <2>2. api = "opengl" => PendingOf(t)' = Given \o <<>>
    BY <1>3, <1>5 DEF PendingOf, Given, Callers
  <2>3. api = "opengl" => Given \o <<>> = Given
    BY <1>1, GivenType, ConcatEmptySeq DEF IInv, QueueInv
  <2> QED
    BY <2>1, <2>2, <2>3
<1>8. CASE ok
  <2>1. ~ Unlanded(t)
    BY <1>2, <1>8 DEF Unlanded
  <2>2. PendingOf(t)' = PendingOf(t)
    <3>1. api # "opengl" => PendingOf(t) = <<>>
      BY <2>1, PendingBlocking
    <3>2. api = "opengl" => PendingOf(t) = Given
      BY <1>1, <2>1, PendingOpenGL DEF IInv, QueueInv
    <3> QED
      BY <1>7, <3>1, <3>2
  <2>3. ReadBy(t)' = ReadBy(t)
    BY <1>1, <1>2, <1>5, <1>6, <1>8 DEF ReadBy
  <2>4. P' = P /\ R' = R
    BY <1>4, <2>2, <2>3
  <2>5. api # "opengl" \/ call[t].op = "download" => P[t] = <<>>
    <3>1. api # "opengl" => PendingOf(t) = <<>>
      BY <2>1, PendingBlocking
    <3>2. api = "opengl" /\ call[t].op = "download" => PendingOf(t) = <<>>
      <4>1. api = "opengl" => pc[t] \in {"alloc", "done"} /\ PendingOf(t) = Given
        BY <1>1, <2>1, PendingOpenGL DEF IInv, QueueInv, Common, Carries
      <4>2. api = "opengl" /\ call[t].op = "download" => pc[t] = "done"
        BY <1>1, <1>2, <1>8, <4>1 DEF Common, Carries, Early
      <4>3. api = "opengl" /\ call[t].op = "download" => queue = <<>>
        BY <4>2 DEF IInv, QueueInv, OpenGLQueue
      <4>4. queue = <<>> => Given = <<>>
        BY DEF Given
      <4> QED
        BY <4>1, <4>3, <4>4
    <3> QED
      BY <1>1, <3>1, <3>2
  <2>6. mem' = mem
    BY <1>3, <1>8
  <2> QED
    BY <1>1, <1>3, <2>4, <2>5, <2>6 DEF Contract!Return
<1>9. CASE ~ ok
  <2> DEFINE c == call[t]
  <2>1. PendingOf(t)' = Contract!Without(PendingOf(t), c)
    <3>1. CASE api # "opengl"
      <4>1. PendingOf(t) = <<c>> \/ PendingOf(t) = <<>>
        BY <3>1, PendingBlocking
      <4>2. SubSeq(<<c>>, 1, Len(<<c>>) - 1) = <<>>
        BY Singles
      <4> HIDE DEF c
      <4>3. <<c>> # <<>> /\ <<c>>[Len(<<c>>)] = c
        OBVIOUS
      <4> QED
        BY <1>7, <3>1, <4>1, <4>2, <4>3 DEF Contract!Without
    <3>2. CASE api = "opengl"
      <4>1. Common /\ OpenGLQueue /\ c \in CallTypes
        BY <1>1, <3>2 DEF IInv, QueueInv
      <4>2. Given \in Seq(CallTypes) /\ Len(Given) \in Nat
        BY <4>1, GivenType
      <4>3. CASE c.op = "device_buffer"
        <5>1. PendingOf(t) = Given
          BY <1>1, <3>2, <4>1, <4>3, PendingOpenGL DEF Unlanded
        <5>2. Given # <<>> => Given[Len(Given)] # c
          <6>1. Given # <<>> => Len(Given) \in 1 .. Len(Given)
            BY <4>2, EmptySeq
          <6> QED
            BY <4>1, <4>3, <6>1, GivenType
        <5> QED
          BY <1>7, <3>2, <5>1, <5>2 DEF Contract!Without
      <4>4. CASE c.op # "device_buffer"
        <5>1. PendingOf(t) = Append(Given, c)
          BY <1>1, <1>2, <1>9, <3>2, <4>1, <4>4, PendingOpenGL DEF Unlanded
        <5> HIDE DEF c, Given
        <5> DEFINE s == Append(Given, c)
        <5>2. s # <<>> /\ Len(s) = Len(Given) + 1 /\ s[Len(s)] = c /\ s \in Seq(CallTypes)
          BY <4>1, <4>2, AppendProperties
        <5>3. SubSeq(s, 1, Len(s) - 1) = Given
          <6>1. /\ SubSeq(s, 1, Len(Given)) \in Seq(CallTypes)
                /\ Len(SubSeq(s, 1, Len(Given))) = Len(Given)
                /\ \A i \in 1 .. Len(Given) : SubSeq(s, 1, Len(Given))[i] = Given[i]
            BY <4>1, <4>2, <5>2, AppendProperties
          <6> QED
            BY <4>2, <5>2, <6>1, SeqEqual
        <5> QED
          BY <1>7, <3>2, <5>1, <5>2, <5>3 DEF Contract!Without
      <4> QED
        BY <4>3, <4>4
    <3> QED
      BY <3>1, <3>2
  <2>2. P' = [P EXCEPT ![t] = Contract!Without(P[t], c)]
    BY <1>1, <1>4, <2>1
  <2>3. R' = [R EXCEPT ![t] = None]
    BY <1>4, <1>5, <1>6, <1>9
  <2> QED
    BY <1>1, <1>3, <1>9, <2>2, <2>3 DEF Contract!Fail, Contract!Creating, Creating
<1> QED
  BY <1>8, <1>9

LEMMA HostEffects ==
  ASSUME IInv, NEW t \in Callers, pc[t] # "idle", HostEffect(t)
  PROVE  Contract!Effect(t)
<1>1. /\ Common /\ t \in AllCallers /\ call[t] # None /\ call[t] \in CallTypes
      /\ call[t].buf \in Buffers /\ mem[call[t].buf] # None
  BY InCall, KnownApi DEF IInv
<1> DEFINE P == [u \in AllCallers |-> PendingOf(u)]
           R == [u \in AllCallers |-> ReadBy(u)]
           c == call[t]
<1>2. c.op \in {"upload", "download"} /\ Unlanded(t) /\ ~ Unlanded(t)'
  BY <1>1 DEF HostEffect, Staged, Unlanded
<1>3. PendingOf(t) = <<c>> /\ PendingOf(t)' = <<>>
  <2>1. CASE api # "opengl"
    BY <1>2, <2>1 DEF PendingOf, HostEffect
  <2>2. CASE api = "opengl"
    <3>1. queue = <<>> /\ queue' = <<>> /\ api' = api
      BY <2>2 DEF HostEffect
    <3>2. PendingOf(t) = <<>> \o <<c>> /\ PendingOf(t)' = <<>> \o <<>>
      BY <1>2, <2>2, <3>1 DEF PendingOf, Callers
    <3>3. <<>> \o <<>> = <<>> /\ <<>> \o <<c>> = <<c>>
      BY EmptySeq, ConcatEmptySeq, Singles
    <3> QED
      BY <3>2, <3>3
  <2> QED
    BY <2>1, <2>2
<1>4. ASSUME NEW u \in AllCallers, u # t
      PROVE  PendingOf(u)' = PendingOf(u) /\ ReadBy(u)' = ReadBy(u)
  <2>1. /\ call'[u] = call[u] /\ (u \in landed' <=> u \in landed) /\ result'[u] = result[u]
        /\ staging'[u] = staging[u]
    BY <1>1, <1>4 DEF HostEffect, Common, TypeOK
  <2> QED
    BY <2>1 DEF HostEffect, PendingOf, ReadBy, Unlanded, Callers
<1>5. ReadBy(t)' = IF c.op = "download" THEN mem[c.buf] ELSE ReadBy(t)
  BY <1>1, <1>2 DEF HostEffect, ReadBy, Common, TypeOK
<1>6. mem' = [mem EXCEPT ![c.buf] = Contract!After(c, mem)]
  BY <1>1, <1>2 DEF HostEffect, Contract!After, Contract!Fresh, Fresh, Common, TypeOK
<1>7. R' = IF c.op = "download" THEN [R EXCEPT ![t] = mem[c.buf]] ELSE R
  BY <1>4, <1>5
<1>8. P[t] = <<c>> /\ P' = [P EXCEPT ![t] = <<>>]
  BY <1>1, <1>3, <1>4
<1>9. Head(<<c>>) = c /\ Tail(<<c>>) = <<>> /\ <<c>> # <<>>
  BY Singles
<1> HIDE DEF P, R, c
<1>10. Head(P[t]) = c /\ Tail(P[t]) = <<>> /\ P[t] # <<>>
  BY <1>8, <1>9
<1>11. call' = call /\ api' = api
  BY DEF HostEffect
<1> QED
  BY <1>6, <1>7, <1>8, <1>10, <1>11 DEF Contract!Effect, P, R

LEMMA IssuedStutters ==
  ASSUME IInv, NEW t \in Callers, pc[t] # "idle", Issued(t)
  PROVE  UNCHANGED Contract!cvars
<1>1. /\ Common /\ t \in AllCallers /\ call[t] # None /\ call[t] \in CallTypes /\ OpenGLQueue
      /\ api = "opengl" /\ \A u \in Callers : u = t
  BY InCall, KnownApi, SoleCaller DEF IInv, QueueInv, Issued
<1>2. Unlanded(t) /\ ~ Unlanded(t)'
  BY <1>1 DEF Issued, Unlanded
<1>3. PendingOf(t)' = PendingOf(t)
  <2>1. PendingOf(t) = Append(Given, call[t]) /\ Given \in Seq(CallTypes)
    BY <1>1, <1>2, PendingOpenGL, GivenType
  <2>2. PendingOf(t)' = [i \in 1 .. Len(queue') |-> queue'[i].call] \o <<>>
    BY <1>1, <1>2 DEF Issued, PendingOf, Callers
  <2>3. [i \in 1 .. Len(queue') |-> queue'[i].call] = Append(Given, call[t])
    <3>1. queue \in Seq(Works \cup Signals) /\ Len(queue) \in Nat /\ Work(t).call = call[t]
      BY <1>1 DEF Common, TypeOK, Work
    <3>2. /\ Len(queue') = Len(queue) + 1 /\ queue'[Len(queue) + 1] = Work(t)
          /\ \A i \in 1 .. Len(queue) : queue'[i] = queue[i]
      BY <3>1 DEF Issued
    <3> DEFINE r == Append(Given, call[t])
    <3>3. /\ r \in Seq(CallTypes) /\ Len(r) = Len(queue) + 1 /\ r[Len(queue) + 1] = call[t]
          /\ \A i \in 1 .. Len(queue) : r[i] = queue[i].call
      BY <1>1, <2>1, <3>1, GivenType, AppendProperties
    <3>4. \A i \in 1 .. Len(queue') : queue'[i].call = r[i]
      BY <3>1, <3>2, <3>3
    <3>5. r = [i \in 1 .. Len(queue') |-> r[i]]
      BY <3>1, <3>2, <3>3
    <3> HIDE DEF r
    <3>6. [i \in 1 .. Len(queue') |-> queue'[i].call] = [i \in 1 .. Len(queue') |-> r[i]]
      BY <3>4
    <3> QED
      BY <3>5, <3>6 DEF r
  <2>4. Append(Given, call[t]) \o <<>> = Append(Given, call[t])
    BY <1>1, <2>1, AppendProperties, ConcatEmptySeq
  <2> QED
    BY <2>1, <2>2, <2>3, <2>4
<1>4. ASSUME NEW u \in AllCallers, u # t PROVE PendingOf(u)' = PendingOf(u)
  <2>1. u \notin Callers /\ Callers' = Callers /\ call' = call /\ (u \in landed' <=> u \in landed)
    BY <1>1, <1>4 DEF Issued, Callers
  <2> QED
    BY <2>1 DEF PendingOf, Unlanded, Issued
<1>5. \A u \in AllCallers : ReadBy(u)' = ReadBy(u)
  BY <1>1 DEF Issued, ReadBy
<1>6. \A u \in AllCallers : PendingOf(u)' = PendingOf(u)
  BY <1>3, <1>4
<1> QED
  BY <1>5, <1>6 DEF Issued, Contract!cvars

\* A work of an API that waits.
LEMMA RunEffects ==
  ASSUME Promised, GpuRun, api # "opengl"
  PROVE  \E t \in AllCallers : Contract!Effect(t)
<1>1. Common /\ Waited /\ queue # <<>> /\ Head(queue).signal = 0
  BY WaitedHolds DEF Promised, IInv, GpuRun
<1>2. PICK t \in Callers : t = Head(queue).by
  BY <1>1, HeadWaited
<1> DEFINE P == [u \in AllCallers |-> PendingOf(u)]
           R == [u \in AllCallers |-> ReadBy(u)]
           c == call[t]
           w == Head(queue)
<1>3. /\ t \in AllCallers /\ w = Work(t) /\ w.call = c /\ c \in CallTypes /\ c # None
      /\ mem[c.buf] # None /\ c.buf \in Buffers /\ pc[t] \in {"signal", "wait"} /\ t \notin landed
      /\ Current(w) /\ w.by = t
  BY <1>1, <1>2, HeadWaited
<1>4. /\ landed' = landed \cup {t} /\ Run(w)
      /\ UNCHANGED <<api, pc, call, result>>
  BY <1>3 DEF GpuRun
<1>5. c.op \in {"upload", "download", "dispatch"} /\ (c.op = "upload" => staging[t] = Fresh(c.arg))
  BY <1>1, <1>3, CallFields, KnownApi DEF Common, Carries, Staged
<1>6. Target(w) = c.buf
  BY <1>1, <1>2, <1>3 DEF Target, Promised, BoundInv
<1>7. /\ mem' = [mem EXCEPT ![c.buf] = Contract!After(c, mem)]
      /\ staging' = IF c.op = "download" THEN [staging EXCEPT ![t] = mem[c.buf]] ELSE staging
  <2> HIDE DEF w, c
  <2>1. CASE c.op = "upload"
    BY <1>3, <1>4, <1>5, <1>6, <2>1 DEF Run, Contract!After, Contract!Fresh, Fresh, Common, TypeOK
  <2>2. CASE c.op = "dispatch"
    BY <1>3, <1>4, <1>6, <2>2 DEF Run, Contract!After, Common, TypeOK
  <2>3. CASE c.op = "download"
    BY <1>1, <1>3, <1>4, <1>6, <2>3 DEF Run, Contract!After, Common, TypeOK
  <2> QED
    BY <1>5, <2>1, <2>2, <2>3
<1>8. Unlanded(t) /\ ~ Unlanded(t)'
  BY <1>3, <1>4, <1>5 DEF Unlanded
<1>9. PendingOf(t) = <<c>> /\ PendingOf(t)' = <<>>
  BY <1>4, <1>8 DEF PendingOf
<1>10. ASSUME NEW u \in AllCallers, u # t
       PROVE  PendingOf(u)' = PendingOf(u) /\ ReadBy(u)' = ReadBy(u)
  <2>1. /\ call'[u] = call[u] /\ (u \in landed' <=> u \in landed) /\ result'[u] = result[u]
        /\ staging'[u] = staging[u]
    BY <1>1, <1>4, <1>7, <1>10 DEF Common, TypeOK
  <2> QED
    BY <1>4, <2>1 DEF PendingOf, ReadBy, Unlanded, Callers
<1>11. ReadBy(t)' = IF c.op = "download" THEN mem[c.buf] ELSE ReadBy(t)
  BY <1>1, <1>3, <1>4, <1>7 DEF ReadBy, Common, TypeOK
<1>12. R' = IF c.op = "download" THEN [R EXCEPT ![t] = mem[c.buf]] ELSE R
  BY <1>10, <1>11
<1>13. P[t] = <<c>> /\ P' = [P EXCEPT ![t] = <<>>]
  BY <1>3, <1>9, <1>10
<1>14. Head(<<c>>) = c /\ Tail(<<c>>) = <<>> /\ <<c>> # <<>>
  BY Singles
<1> HIDE DEF P, R, c
<1>15. Head(P[t]) = c /\ Tail(P[t]) = <<>> /\ P[t] # <<>>
  BY <1>13, <1>14
<1>16. Contract!Effect(t)
  BY <1>4, <1>7, <1>12, <1>13, <1>15 DEF Contract!Effect, P, R
<1> QED
  BY <1>3, <1>16

\* A call OpenGL's driver was given, which may have returned.
LEMMA IssuedEffects ==
  ASSUME IInv, GpuRun, api = "opengl"
  PROVE  \E t \in AllCallers : Contract!Effect(t)
<1>1. Common /\ OpenGLQueue /\ queue \in Seq(Works \cup Signals) /\ queue # <<>>
  BY DEF IInv, QueueInv, GpuRun, Common, TypeOK
<1>2. 1 \in 1 .. Len(queue) /\ Head(queue) = queue[1]
  BY <1>1, EmptySeq
<1>3. PICK t \in Callers : t = Head(queue).by
  BY <1>1, <1>2 DEF OpenGLQueue
<1>4. t \in AllCallers /\ \A u \in Callers : u = t
  BY <1>1, KnownApi, SoleCaller
<1> DEFINE P == [u \in AllCallers |-> PendingOf(u)]
           R == [u \in AllCallers |-> ReadBy(u)]
           c == Head(queue).call
           rest == IF Unlanded(t) THEN <<call[t]>> ELSE <<>>
<1>5. /\ queue' = Tail(queue) /\ landed' = landed /\ staging' = staging
      /\ UNCHANGED <<api, pc, call, result>>
      /\ mem' = IF mem[c.buf] = None THEN mem
                ELSE IF c.op = "upload" THEN [mem EXCEPT ![c.buf] = Fresh(c.arg)]
                ELSE [mem EXCEPT ![c.buf].runs = @ + 1]
      /\ Head(queue) \in Works
  BY <1>1, RunIssued DEF GpuRun
<1>6. c \in CallTypes /\ c.buf \in Buffers /\ c.op \in {"upload", "dispatch"}
  BY <1>1, <1>2, <1>5, CallFields DEF Works, OpenGLQueue
<1>7. mem' = [mem EXCEPT ![c.buf] = Contract!After(c, mem)]
  <2> HIDE DEF c
  <2> QED
    BY <1>1, <1>5, <1>6 DEF Contract!After, Contract!Fresh, Fresh, Common, TypeOK
<1>8. Given \in Seq(CallTypes) /\ Len(Given) = Len(queue) /\ Given # <<>> /\ Head(Given) = c
  BY <1>1, <1>2, GivenType
<1>9. Given' = Tail(Given)
  <2>1. /\ Len(queue) \in Nat /\ Len(queue) >= 1 /\ Len(queue') = Len(queue) - 1
        /\ \A i \in 1 .. Len(queue') : queue'[i] = queue[i + 1] /\ i + 1 \in 1 .. Len(queue)
    BY <1>1, <1>2, <1>5
  <2> DEFINE r == Tail(Given)
  <2>2. \A i \in 1 .. Len(queue') : r[i] = queue'[i].call
    BY <1>1, <1>8, <2>1, GivenType
  <2>3. r = [i \in 1 .. Len(queue') |-> r[i]]
    <3>1. r \in Seq(CallTypes) /\ Len(r) = Len(queue')
      BY <1>8, <2>1, HeadTailProperties
    <3> HIDE DEF r
    <3> QED
      BY <3>1
  <2> HIDE DEF r
  <2>4. [i \in 1 .. Len(queue') |-> queue'[i].call] = [i \in 1 .. Len(queue') |-> r[i]]
    BY <2>2
  <2>5. Given' = [i \in 1 .. Len(queue') |-> queue'[i].call]
    BY DEF Given
  <2> QED
    BY <2>3, <2>4, <2>5 DEF r
<1>10. PendingOf(t) = Given \o rest /\ PendingOf(t)' = Tail(Given) \o rest /\ rest \in Seq(CallTypes)
  <2>1. rest \in Seq(CallTypes)
    <3>1. Unlanded(t) => call[t] \in CallTypes
      BY <1>1, <1>4 DEF Common, TypeOK, Unlanded
    <3> QED
      BY <3>1, Singles, EmptySeq
  <2>2. PendingOf(t) = Given \o rest
    BY DEF PendingOf, Given
  <2>3. Unlanded(t)' = Unlanded(t) /\ Callers' = Callers
    BY <1>5 DEF Unlanded, Callers
  <2>4. PendingOf(t)' = Given' \o rest
    BY <1>5, <2>3 DEF PendingOf, Given
  <2> QED
    BY <1>9, <2>1, <2>2, <2>4
<1>11. PendingOf(t) # <<>> /\ Head(PendingOf(t)) = c /\ PendingOf(t)' = Tail(PendingOf(t))
  <2> HIDE DEF rest, c
  <2>1. Given \o rest # <<>> /\ Head(Given \o rest) = c /\ Tail(Given \o rest) = Tail(Given) \o rest
    <3>1. /\ Given \o rest \in Seq(CallTypes) /\ Len(Given \o rest) = Len(Given) + Len(rest)
          /\ \A i \in 1 .. Len(Given) + Len(rest) :
               (Given \o rest)[i] = IF i <= Len(Given) THEN Given[i] ELSE rest[i - Len(Given)]
      BY <1>8, <1>10, ConcatProperties
    <3>2. Len(Given) \in Nat /\ Len(Given) >= 1 /\ Len(rest) \in Nat
      BY <1>8, <1>10, EmptySeq
    <3>3. Given \o rest # <<>> /\ Head(Given \o rest) = c
      BY <1>8, <3>1, <3>2
    <3>4. /\ Tail(Given) \in Seq(CallTypes) /\ Len(Tail(Given)) = Len(Given) - 1
          /\ \A i \in 1 .. Len(Given) - 1 : Tail(Given)[i] = Given[i + 1]
      BY <1>8, <3>2
    <3>5. /\ Tail(Given \o rest) \in Seq(CallTypes)
          /\ Len(Tail(Given \o rest)) = Len(Given) + Len(rest) - 1
          /\ \A i \in 1 .. Len(Given) + Len(rest) - 1 : Tail(Given \o rest)[i] = (Given \o rest)[i + 1]
      BY <3>1, <3>2, <3>3
    <3>6. /\ Tail(Given) \o rest \in Seq(CallTypes)
          /\ Len(Tail(Given) \o rest) = Len(Given) - 1 + Len(rest)
          /\ \A i \in 1 .. Len(Given) - 1 + Len(rest) :
               (Tail(Given) \o rest)[i] =
                 IF i <= Len(Given) - 1 THEN Tail(Given)[i] ELSE rest[i - (Len(Given) - 1)]
      BY <1>10, <3>4, ConcatProperties
    <3>7. \A i \in 1 .. Len(Given) + Len(rest) - 1 : Tail(Given \o rest)[i] = (Tail(Given) \o rest)[i]
      BY <3>1, <3>2, <3>4, <3>5, <3>6
    <3> QED
      BY <3>2, <3>3, <3>5, <3>6, <3>7, SeqEqual
  <2> QED
    BY <1>10, <2>1
<1>12. ASSUME NEW u \in AllCallers, u # t PROVE PendingOf(u)' = PendingOf(u)
  <2>1. u \notin Callers /\ Callers' = Callers
    BY <1>4, <1>5, <1>12 DEF Callers
  <2> QED
    BY <1>5, <2>1 DEF PendingOf, Unlanded
<1>13. \A u \in AllCallers : ReadBy(u)' = ReadBy(u)
  BY <1>5 DEF ReadBy
<1>14. P' = [P EXCEPT ![t] = Tail(P[t])] /\ P[t] # <<>> /\ Head(P[t]) = c
  BY <1>4, <1>11, <1>12
<1>15. R' = R
  BY <1>13
<1> HIDE DEF P, R, c
<1>16. Contract!Effect(t)
  BY <1>5, <1>6, <1>7, <1>14, <1>15 DEF Contract!Effect, P, R
<1> QED
  BY <1>4, <1>16

LEMMA BoundKept ==
  ASSUME IInv, BoundInv, Sole, NoneAbandoned, [Next]_gvars
  PROVE  BoundInv'
<1>1. Common
  BY DEF IInv
<1>2. CASE UNCHANGED <<api, pc, call, bound>>
  BY <1>2 DEF BoundInv, Callers
<1>3. ASSUME NEW t \in Callers, Call(t) PROVE BoundInv'
  BY <1>1, <1>3, KnownApi DEF Call, Begin, Goto, BoundInv, Callers, Common, TypeOK
<1>4. ASSUME NEW t \in Callers, CallStep(t) PROVE BoundInv'
  <2> SUFFICES ASSUME api' = "vulkan"
               PROVE  \A u \in Callers' : pc'[u] \notin {"idle", "alloc"} /\ call'[u].op = "dispatch" =>
                        bound'[call'[u].arg] = call'[u].buf
    BY DEF BoundInv
  <2>1. api = "vulkan" /\ api' = api /\ Callers' = Callers /\ \A u \in Callers : u = t
    BY <1>1, <1>4, StepKeepsApi DEF Sole, Callers, Common, TypeOK
  <2>2. t \in AllCallers
    BY <1>1, KnownApi
  <2>3. \A ok : End(t, ok) => pc'[t] = "idle"
    BY <1>1, <2>2 DEF End, Goto, Common
  <2>4. Vulkan!CallStep(t)
    BY <1>4, <2>1 DEF CallStep
  <2>5. CASE pc'[t] = "idle"
    BY <2>1, <2>5
  <2>6. CASE Vulkan!Stage(t)
    BY <1>1, <2>1, <2>2, <2>3, <2>6, VulkanNames
       DEF Vulkan!Stage, Vulkan!Staged, Fails, Vulkan!Goto, Common
  <2>7. CASE Vulkan!Bind(t)
    BY <1>1, <2>1, <2>2, <2>7, InCall, CallFields DEF Vulkan!Bind, Vulkan!Goto, Common, TypeOK
  <2>8. CASE Vulkan!Record(t) \/ Vulkan!QueueSubmit(t) \/ Vulkan!WaitIdle(t)
    BY <1>1, <2>1, <2>2, <2>3, <2>8, VulkanNames
       DEF Vulkan!Record, Vulkan!QueueSubmit, Vulkan!WaitIdle, Fails, BoundInv
  <2>9. CASE Vulkan!Finish(t) \/ DeviceBuffer(t)
    BY <2>3, <2>5, <2>9, VulkanNames DEF Vulkan!Finish, DeviceBuffer, Fails
  <2> QED
    BY <2>4, <2>6, <2>7, <2>8, <2>9, VulkanNames DEF Vulkan!CallStep
<1>5. (\E b \in Buffers : DropBuffer(b)) \/ GpuRun \/ GpuSignal => UNCHANGED <<api, pc, call, bound>>
  BY DEF DropBuffer, GpuRun, GpuSignal
<1> QED
  BY <1>2, <1>3, <1>4, <1>5 DEF Next, gvars

LEMMA PromisedInvariance ==
  ASSUME NoneAbandoned, Sole
  PROVE  Spec => []Promised
<1>1. Init => Promised
  <2>1. Init => BoundInv
    BY KnownApi, InitInv DEF Init, BoundInv, IInv
  <2> QED
    BY <2>1, InitInv DEF Promised
<1>2. Promised /\ [Next]_gvars => Promised'
  BY InvKept, BoundKept DEF Promised
<1> QED
  BY <1>1, <1>2, PTL DEF Spec

LEMMA InitRefines ==
  ASSUME Init
  PROVE  Contract!CInit
<1>1. IInv
  BY InitInv
<1>2. \A u \in AllCallers : call[u] = None /\ result[u] = None
  BY DEF Init
<1>3. \A u \in AllCallers : ReadBy(u) = None /\ ~ Unlanded(u)
  BY <1>2 DEF ReadBy, Unlanded
<1>4. \A u \in AllCallers : PendingOf(u) = <<>>
  <2>1. [i \in 1 .. Len(queue) |-> queue[i].call] = <<>> /\ <<>> \o <<>> = <<>>
    BY EmptySeq, ConcatEmptySeq DEF Init
  <2> QED
    BY <1>3, <2>1 DEF PendingOf
<1> QED
  BY <1>3, <1>4 DEF Init, Contract!CInit

LEMMA StepRefines ==
  ASSUME NoneAbandoned, Coherent, Promised, [Next]_gvars
  PROVE  [Contract!CNext]_(Contract!cvars)
<1>1. IInv
  BY DEF Promised
<1>2. CASE UNCHANGED gvars
  BY <1>2 DEF gvars, Contract!cvars, PendingOf, ReadBy, Unlanded, Callers
<1>3. ASSUME NEW t \in Callers, Call(t) PROVE Contract!CNext
  BY <1>1, <1>3, BeginInvokes DEF Call, Contract!CNext
<1>4. ASSUME NEW t \in Callers, CallStep(t) PROVE [Contract!CNext]_(Contract!cvars)
  <2>1. t \in AllCallers
    BY <1>1, KnownApi DEF IInv
  <2>2. pc[t] # "idle" /\ (Quiet(t) \/ HostEffect(t) \/ Issued(t) \/ Ended(t))
    BY <1>1, <1>4, StepKinds
  <2>3. Quiet(t) \/ Issued(t) => UNCHANGED Contract!cvars
    BY <1>1, <2>1, <2>2, QuietStutters, IssuedStutters
  <2>4. HostEffect(t) \/ Ended(t) => Contract!CNext
    BY <1>1, <2>1, <2>2, HostEffects, EndReturns DEF Contract!CNext
  <2> QED
    BY <2>2, <2>3, <2>4
<1>5. ASSUME NEW b \in Buffers, DropBuffer(b) PROVE Contract!CNext
  BY <1>1, <1>5, DropDrops DEF Contract!CNext
<1>6. GpuRun => Contract!CNext
  BY <1>1, RunEffects, IssuedEffects DEF Contract!CNext
<1>7. GpuSignal => UNCHANGED Contract!cvars
  BY <1>1, SignalStutters
<1> QED
  BY <1>2, <1>3, <1>4, <1>5, <1>6, <1>7 DEF Next

\* Each API keeps the trait's promise: a call has its effect once, on the
\* buffers it was given, between the call and its return, and never after an
\* error (core/compute.rs:66-68, 80-103); for a Vulkan device of one thread, an
\* OpenGL driver whose read sees what the dispatch before it wrote, and failures
\* after which nothing is left at the GPU.
THEOREM PromiseKept ==
  ASSUME NoneAbandoned, Sole, Coherent
  PROVE  Spec => ImplementsContract
<1>1. Init => Contract!CInit
  BY InitRefines
<1>2. Promised /\ [Next]_gvars => [Contract!CNext]_(Contract!cvars)
  BY StepRefines
<1> QED
  BY <1>1, <1>2, PromisedInvariance, PTL DEF Spec, ImplementsContract, Contract!CSpec

\* With one thread the descriptor set is that of the dispatch to run
\* ("Safe to call between dispatches provided the previous dispatch has
\* completed", vulkan/compute.rs:468-470).
THEOREM SoleBindingKept ==
  ASSUME NoneAbandoned, Sole
  PROVE  Spec => []BindingKept
<1>1. ASSUME Promised PROVE BindingKept
  <2> SUFFICES ASSUME NEW i \in 1 .. Len(queue), queue[i].signal = 0, api = "vulkan"
               PROVE  Target(queue[i]) = queue[i].call.buf
    BY DEF BindingKept, Items, Target
  <2>1. Waited
    BY <1>1, WaitedHolds DEF Promised
  <2>2. PICK t \in Callers : t = queue[i].by
    BY <2>1 DEF Waited
  <2>3. queue[i] = Work(t) /\ pc[t] \in {"signal", "wait"}
    BY <2>1, <2>2 DEF Waited
  <2>4. queue[i].call = call[t]
    BY <2>3 DEF Work
  <2> QED
    BY <1>1, <2>3, <2>4 DEF Promised, BoundInv, Target
<1> QED
  BY <1>1, PromisedInvariance, PTL
=============================================================================
