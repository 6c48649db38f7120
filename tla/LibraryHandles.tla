--------------------------- MODULE LibraryHandles ---------------------------
(***************************************************************************)
(* The handles of the CUDA libraries (ironaccelerator-cuda/src: blas.rs,   *)
(* cudnn.rs, cusolver.rs, cusparse.rs, cutensor.rs) and the plan cache of  *)
(* cuFFT (fft.rs).                                                         *)
(*                                                                         *)
(* A library has one handle per device for the whole process.  Threads     *)
(* that miss together each create one; the first to insert wins, and the   *)
(* others drop theirs.  cuDNN, cuSOLVER and cuSPARSE run an operation on   *)
(* the stream the handle is bound to, and a borrow binds the borrower's;   *)
(* cuBLASLt and cuTENSOR are told the stream with each operation.          *)
(*                                                                         *)
(* An FFT plan is cached under its shape and the raw value of its stream.  *)
(* The driver gives a raw value out again once the stream is destroyed,    *)
(* which it is when nobody has it in hand any more: a stream is the raw    *)
(* value and which of its lives it is.                                     *)
(***************************************************************************)
EXTENDS Integers

CONSTANTS
  Threads, Devices, Shapes,
  Binding,      \* the libraries whose handle carries the stream
  Passing,      \* the libraries whose operations are passed the stream
  Raws,         \* raw values the driver can give a stream
  MaxStreams,   \* bound: streams opened
  MaxMade,      \* bound: handles and plans created
  None

Libraries == Binding \cup Passing
Streams == [raw : Raws, life : 1 .. MaxStreams, dev : Devices]
Handles == [lib : Libraries, dev : Devices, nth : 1 .. MaxMade]
Plans == [shape : Shapes, stream : Streams, nth : 1 .. MaxMade]
Keys == [shape : Shapes, raw : Raws]

ASSUME HandlesAssumption ==
  /\ Binding \cap Passing = {}
  /\ MaxStreams \in Nat /\ MaxMade \in Nat
  /\ None \notin Streams \cup Handles \cup Plans \cup Libraries \cup Shapes

VARIABLES
  mine,     \* the stream a thread has in hand
  opened,   \* streams opened so far
  handles,  \* handles[l][d]: HANDLES of library l
  bound,    \* bound[n]: the stream the n-th object created is bound to
  plans,    \* plans[k]: the FftPlanCache
  pc, want, \* where a thread is, for which library or shape
  own,      \* the handle or plan a thread has created and not inserted
  holds,    \* the handle or plan a thread has borrowed
  made,     \* handles and plans created so far
  ran,      \* the stream a thread's last operation ran on
  rebound   \* threads whose handle another has bound since they did (history)

caches == <<handles, plans>>
vars == <<mine, opened, caches, bound, pc, want, own, holds, made, ran, rebound>>

Init ==
  /\ mine = [t \in Threads |-> None]
  /\ opened = 0
  /\ handles = [l \in Libraries |-> [d \in Devices |-> None]]
  /\ bound = [n \in 1 .. MaxMade |-> None]
  /\ plans = [k \in Keys |-> None]
  /\ pc = [t \in Threads |-> "idle"]
  /\ want = [t \in Threads |-> None]
  /\ own = [t \in Threads |-> None]
  /\ holds = [t \in Threads |-> None]
  /\ made = 0
  /\ ran = [t \in Threads |-> None]
  /\ rebound = {}

Goto(t, place) == pc' = [pc EXCEPT ![t] = place]
Has(t, x) == holds' = [holds EXCEPT ![t] = x]

(***************************************************************************)
(* Streams.                                                                *)
(***************************************************************************)
PlansAround == {plans[k] : k \in Keys} \cup {own[t] : t \in Threads} \cup {holds[t] : t \in Threads}

\* Mutant: a plan does not keep its stream.
HeldByThreads == {mine[t] : t \in Threads} \ {None}

\* The streams not destroyed: those a thread has, and those a plan keeps.
Alive ==
  ({mine[t] : t \in Threads} \ {None}) \cup {p.stream : p \in PlansAround \cap Plans}

OpenStream(t, raw, d) ==
  /\ pc[t] = "idle"
  /\ \A s \in Alive : s.raw # raw
  /\ opened < MaxStreams
  /\ opened' = opened + 1
  /\ mine' = [mine EXCEPT ![t] = [raw |-> raw, life |-> opened + 1, dev |-> d]]
  /\ ran' = [ran EXCEPT ![t] = None]
  /\ UNCHANGED <<caches, bound, pc, want, own, holds, made, rebound>>

\* An Arc of another thread's stream.
ShareStream(t, u) ==
  /\ pc[t] = "idle" /\ mine[u] \notin {None, mine[t]}
  /\ mine' = [mine EXCEPT ![t] = mine[u]]
  /\ ran' = [ran EXCEPT ![t] = None]
  /\ UNCHANGED <<opened, caches, bound, pc, want, own, holds, made, rebound>>

DropStream(t) ==
  /\ pc[t] = "idle" /\ mine[t] # None
  /\ mine' = [mine EXCEPT ![t] = None]
  /\ ran' = [ran EXCEPT ![t] = None]
  /\ UNCHANGED <<opened, caches, bound, pc, want, own, holds, made, rebound>>

(***************************************************************************)
(* handle_for.                                                             *)
(***************************************************************************)
Dev(t) == mine[t].dev
Cached(t) == handles[want[t]][Dev(t)]

\* set_stream: every other borrower of the handle has its stream changed.
Bound(t, h) ==
  /\ bound' = [bound EXCEPT ![h.nth] = mine[t]]
  /\ rebound' = (rebound \ {t}) \cup {u \in Threads \ {t} : holds[u] = h /\ mine[u] # mine[t]}

Borrow(t, l) ==
  /\ pc[t] = "idle" /\ mine[t] # None
  /\ want' = [want EXCEPT ![t] = l]
  /\ ran' = [ran EXCEPT ![t] = None]
  /\ Goto(t, "lookup")
  /\ UNCHANGED <<mine, opened, caches, bound, own, holds, made, rebound>>

\* Under the lock: found, and bound.
HandleHit(t) ==
  /\ pc[t] = "lookup" /\ Cached(t) # None
  /\ Has(t, Cached(t))
  /\ IF want[t] \in Binding THEN Bound(t, Cached(t)) ELSE UNCHANGED <<bound, rebound>>
  /\ Goto(t, "borrowed")
  /\ UNCHANGED <<mine, opened, caches, want, own, made, ran>>

HandleMiss(t) ==
  /\ pc[t] = "lookup" /\ Cached(t) = None
  /\ Goto(t, "create")
  /\ UNCHANGED <<mine, opened, caches, bound, want, own, holds, made, ran, rebound>>

\* Outside the lock.
CreateHandle(t) ==
  /\ pc[t] = "create" /\ made < MaxMade
  /\ made' = made + 1
  /\ own' = [own EXCEPT ![t] = [lib |-> want[t], dev |-> Dev(t), nth |-> made + 1]]
  /\ Goto(t, "adopt")
  /\ UNCHANGED <<mine, opened, caches, bound, want, holds, ran, rebound>>

\* Mutant: the new handle replaces the one inserted meanwhile.
AdoptOwn(t) ==
  /\ pc[t] = "adopt"
  /\ handles' = [handles EXCEPT ![want[t]][Dev(t)] = own[t]]
  /\ Has(t, own[t])
  /\ own' = [own EXCEPT ![t] = None]
  /\ Goto(t, IF want[t] \in Binding THEN "bind" ELSE "borrowed")
  /\ UNCHANGED <<mine, opened, plans, bound, want, made, ran, rebound>>

\* Mutant: the miss path does not bind.
AdoptUnbound(t) ==
  /\ pc[t] = "adopt"
  /\ LET h == IF Cached(t) = None THEN own[t] ELSE Cached(t)
     IN handles' = [handles EXCEPT ![want[t]][Dev(t)] = h] /\ Has(t, h)
  /\ own' = [own EXCEPT ![t] = None]
  /\ Goto(t, "borrowed")
  /\ UNCHANGED <<mine, opened, plans, bound, want, made, ran, rebound>>

\* entry().or_insert(): the handle that was first; an own one too many is dropped.
Adopt(t) ==
  /\ pc[t] = "adopt"
  /\ LET h == IF Cached(t) = None THEN own[t] ELSE Cached(t)
     IN handles' = [handles EXCEPT ![want[t]][Dev(t)] = h] /\ Has(t, h)
  /\ own' = [own EXCEPT ![t] = None]
  /\ Goto(t, IF want[t] \in Binding THEN "bind" ELSE "borrowed")
  /\ UNCHANGED <<mine, opened, plans, bound, want, made, ran, rebound>>

\* After the lock is released.
Bind(t) ==
  /\ pc[t] = "bind"
  /\ Bound(t, holds[t])
  /\ Goto(t, "borrowed")
  /\ UNCHANGED <<mine, opened, caches, want, own, holds, made, ran>>

\* The caller binds the handle it has borrowed once more.
SetStream(t) ==
  /\ pc[t] = "borrowed" /\ want[t] \in Binding
  /\ Bound(t, holds[t])
  /\ ran' = [ran EXCEPT ![t] = None]
  /\ UNCHANGED <<mine, opened, caches, pc, want, own, holds, made>>

\* The ? of set_stream and of the handle's creation: the caller has nothing,
\* an inserted handle stays.
BorrowFails(t) ==
  /\ \/ pc[t] = "lookup" /\ Cached(t) # None /\ want[t] \in Binding
     \/ pc[t] \in {"create", "bind"}
  /\ Has(t, None)
  /\ rebound' = rebound \ {t}
  /\ want' = [want EXCEPT ![t] = None]
  /\ Goto(t, "idle")
  /\ UNCHANGED <<mine, opened, caches, bound, own, made, ran>>

(***************************************************************************)
(* The plan cache: FftPlanCache::get_or_insert.                            *)
(***************************************************************************)
Key(t) == [shape |-> want[t], raw |-> mine[t].raw]

WantPlan(t, shape) ==
  /\ pc[t] = "idle" /\ mine[t] # None
  /\ want' = [want EXCEPT ![t] = shape]
  /\ ran' = [ran EXCEPT ![t] = None]
  /\ Goto(t, "findplan")
  /\ UNCHANGED <<mine, opened, caches, bound, own, holds, made, rebound>>

\* Under the read lock.
PlanHit(t) ==
  /\ pc[t] = "findplan" /\ plans[Key(t)] # None
  /\ Has(t, plans[Key(t)])
  /\ Goto(t, "planned")
  /\ UNCHANGED <<mine, opened, caches, bound, want, own, made, ran, rebound>>

PlanMiss(t) ==
  /\ pc[t] = "findplan" /\ plans[Key(t)] = None
  /\ Goto(t, "build")
  /\ UNCHANGED <<mine, opened, caches, bound, want, own, holds, made, ran, rebound>>

\* cufftPlan and cufftSetStream; the plan keeps the caller's Arc.
BuildPlan(t) ==
  /\ pc[t] = "build" /\ made < MaxMade
  /\ made' = made + 1
  /\ own' = [own EXCEPT ![t] = [shape |-> want[t], stream |-> mine[t], nth |-> made + 1]]
  /\ bound' = [bound EXCEPT ![made + 1] = mine[t]]
  /\ Goto(t, "insertplan")
  /\ UNCHANGED <<mine, opened, caches, want, holds, ran, rebound>>

\* Either call fails.
BuildFails(t) ==
  /\ pc[t] = "build"
  /\ want' = [want EXCEPT ![t] = None]
  /\ Goto(t, "idle")
  /\ UNCHANGED <<mine, opened, caches, bound, own, holds, made, ran, rebound>>

\* Under the write lock, whatever is there.
InsertPlan(t) ==
  /\ pc[t] = "insertplan"
  /\ plans' = [plans EXCEPT ![Key(t)] = own[t]]
  /\ Has(t, own[t])
  /\ own' = [own EXCEPT ![t] = None]
  /\ Goto(t, "planned")
  /\ UNCHANGED <<mine, opened, handles, bound, want, made, ran, rebound>>

Clear(t) ==
  /\ pc[t] = "idle"
  /\ plans' = [k \in Keys |-> None]
  /\ UNCHANGED <<mine, opened, handles, bound, pc, want, own, holds, made, ran, rebound>>

(***************************************************************************)
(* Operations.                                                             *)
(***************************************************************************)
RunsOn(t, s) ==
  /\ ran' = [ran EXCEPT ![t] = s]
  /\ UNCHANGED <<mine, opened, caches, bound, pc, want, own, holds, made, rebound>>

\* cuDNN, cuSOLVER and cuSPARSE: on the stream the handle is bound to now.
OperateBound(t) ==
  /\ pc[t] = "borrowed" /\ want[t] \in Binding
  /\ RunsOn(t, bound[holds[t].nth])

\* cuBLASLt and cuTENSOR.
OperatePassed(t) ==
  /\ pc[t] = "borrowed" /\ want[t] \in Passing
  /\ RunsOn(t, mine[t])

\* cuFFT: on the stream of the plan.
ExecPlan(t) ==
  /\ pc[t] = "planned"
  /\ RunsOn(t, bound[holds[t].nth])

\* The Arc of the handle or plan is dropped.
Release(t) ==
  /\ pc[t] \in {"borrowed", "planned"}
  /\ Has(t, None)
  /\ rebound' = rebound \ {t}
  /\ want' = [want EXCEPT ![t] = None]
  /\ ran' = [ran EXCEPT ![t] = None]
  /\ Goto(t, "idle")
  /\ UNCHANGED <<mine, opened, caches, bound, own, made>>

HandleStep(t) ==
  \/ \E l \in Libraries : Borrow(t, l)
  \/ HandleHit(t) \/ HandleMiss(t) \/ CreateHandle(t) \/ Adopt(t) \/ Bind(t)
  \/ SetStream(t) \/ BorrowFails(t) \/ OperateBound(t) \/ OperatePassed(t)

PlanStep(t) ==
  \/ \E shape \in Shapes : WantPlan(t, shape)
  \/ PlanHit(t) \/ PlanMiss(t) \/ BuildPlan(t) \/ BuildFails(t) \/ InsertPlan(t)
  \/ Clear(t) \/ ExecPlan(t)

StreamStep(t) ==
  \/ \E raw \in Raws, d \in Devices : OpenStream(t, raw, d)
  \/ \E u \in Threads : ShareStream(t, u)
  \/ DropStream(t)

Next == \E t \in Threads : HandleStep(t) \/ PlanStep(t) \/ StreamStep(t) \/ Release(t)

Spec == Init /\ [][Next]_vars

(***************************************************************************)
(* Properties.                                                             *)
(***************************************************************************)
Borrowed(t) == pc[t] = "borrowed"

\* What a thread holds has the type of the place in the call where it is:
\* handle_for and get_or_insert leave with a handle or a plan, or with nothing.
TypeOK ==
  /\ mine \in [Threads -> Streams \cup {None}]
  /\ opened \in 0 .. MaxStreams /\ made \in 0 .. MaxMade
  /\ handles \in [Libraries -> [Devices -> Handles \cup {None}]]
  /\ bound \in [1 .. MaxMade -> Streams \cup {None}]
  /\ plans \in [Keys -> Plans \cup {None}]
  /\ want \in [Threads -> Libraries \cup Shapes \cup {None}]
  /\ own \in [Threads -> Handles \cup Plans \cup {None}]
  /\ holds \in [Threads -> Handles \cup Plans \cup {None}]
  /\ ran \in [Threads -> Streams \cup {None}]
  /\ rebound \subseteq Threads
  /\ \A t \in Threads :
       /\ pc[t] # "idle" => mine[t] # None
       /\ (holds[t] # None) <=> pc[t] \in {"borrowed", "bind", "planned"}
       /\ (own[t] # None) <=> pc[t] \in {"adopt", "insertplan"}

\* All threads that have borrowed a library's handle of one device have the
\* same one, the cached one, however many were created at once
\* (entry().or_insert() in the five handle_for).
SameHandle ==
  \A t \in Threads : Borrowed(t) => holds[t] = handles[want[t]][mine[t].dev]

\* An operation runs on the stream of the thread that issues it unless another
\* thread has bound the handle since that thread last did: hit or miss, won
\* or lost, every borrow binds (cudnn.rs:110-111).
RebindOnBorrow ==
  \A t \in Threads : ran[t] # None => ran[t] = mine[t] \/ t \in rebound

\* A plan a thread has got runs on that thread's stream, in its present life:
\* the raw value in the key names no stream of an earlier life, because the
\* plan keeps its stream from being destroyed (fft.rs:40, 197-207).
PlanOnOwnStream ==
  \A t \in Threads : pc[t] = "planned" => bound[holds[t].nth] = mine[t]

\* What handle_for's documentation suggests, "binds `stream` to it": a thread's
\* operations run on the thread's stream (cudnn.rs:98, cusolver.rs:496,
\* cusparse.rs:105).
OperationOnOwnStream ==
  \A t \in Threads : ran[t] # None => ran[t] = mine[t]
=============================================================================
