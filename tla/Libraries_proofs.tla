-------------------------- MODULE Libraries_proofs --------------------------
(***************************************************************************)
(* Proofs about the vendors' libraries.                                    *)
(*                                                                         *)
(* LibraryHandles: for any threads, devices, libraries, shapes, raw stream *)
(* values and bounds.  LibraryLoading and DeviceSurvey: for any callers,   *)
(* backends, candidates' outcomes, adapters and ordinals.                  *)
(***************************************************************************)
EXTENDS LibraryHandles, DeviceSurvey, FiniteSetTheorems, SequenceTheorems, TLAPS

InHandle == {"lookup", "create", "adopt", "bind", "borrowed"}
InPlan == {"findplan", "build", "insertplan", "planned"}

\* What thread t has at each place of handle_for and get_or_insert.
Carries(t) ==
  /\ pc[t] \in {"idle"} \cup InHandle \cup InPlan
  /\ pc[t] # "idle" => mine[t] \in Streams
  /\ pc[t] \in InHandle => want[t] \in Libraries
  /\ pc[t] \in InPlan => want[t] \in Shapes
  /\ IF pc[t] = "adopt" THEN own[t] \in Handles
     ELSE IF pc[t] = "insertplan" THEN own[t] \in Plans ELSE own[t] = None
  /\ IF pc[t] \in {"bind", "borrowed"} THEN holds[t] \in Handles
     ELSE IF pc[t] = "planned" THEN holds[t] \in Plans ELSE holds[t] = None
  /\ ran[t] # None => pc[t] \in {"borrowed", "planned"}

Variables ==
  /\ mine \in [Threads -> Streams \cup {None}]
  /\ opened \in 0 .. MaxStreams /\ made \in 0 .. MaxMade
  /\ handles \in [Libraries -> [Devices -> Handles \cup {None}]]
  /\ bound \in [1 .. MaxMade -> Streams \cup {None}]
  /\ plans \in [Keys -> Plans \cup {None}]
  /\ pc \in [Threads -> {"idle"} \cup InHandle \cup InPlan]
  /\ want \in [Threads -> Libraries \cup Shapes \cup {None}]
  /\ own \in [Threads -> Handles \cup Plans \cup {None}]
  /\ holds \in [Threads -> Handles \cup Plans \cup {None}]
  /\ ran \in [Threads -> Streams \cup {None}]
  /\ rebound \subseteq Threads

Types == Variables /\ \A t \in Threads : Carries(t)

(***************************************************************************)
(* Types.                                                                  *)
(***************************************************************************)
\* What the types say of the operators of handle_for and get_or_insert.
LEMMA Places ==
  ASSUME Types, NEW t \in Threads, pc[t] # "idle"
  PROVE  /\ mine[t].raw \in Raws /\ Dev(t) \in Devices
         /\ pc[t] \in InHandle => Cached(t) \in Handles \cup {None}
         /\ pc[t] \in InPlan => Key(t) \in Keys /\ plans[Key(t)] \in Plans \cup {None}
<1>1. mine[t] \in Streams
  BY DEF Types, Carries
<1>2. mine[t].raw \in Raws /\ mine[t].dev \in Devices
  BY <1>1 DEF Streams
<1>3. pc[t] \in InHandle => Cached(t) \in Handles \cup {None}
  BY <1>2 DEF Types, Variables, Carries, Cached, Dev
<1>4. pc[t] \in InPlan => Key(t) \in Keys
  BY <1>2 DEF Types, Carries, Key, Keys
<1> QED
  BY <1>2, <1>3, <1>4 DEF Types, Variables, Dev

LEMMA InitTypes == Init => Types
BY HandlesAssumption DEF Init, Types, Variables, Carries, InHandle, InPlan, caches

LEMMA NextTypes ==
  ASSUME Types, [Next]_vars
  PROVE  Types'
<1> USE HandlesAssumption
<1>1. CASE UNCHANGED vars
  BY <1>1 DEF Types, Variables, Carries, vars, caches
<1>2. ASSUME NEW t \in Threads, HandleStep(t)
      PROVE  Types'
  <2>1. ASSUME NEW l \in Libraries, Borrow(t, l) PROVE Types'
    BY <2>1 DEF Types, Variables, Carries, InHandle, InPlan, Borrow, Goto, caches
  <2>2. CASE HandleHit(t)
    <3>1. Cached(t) \in Handles
      BY <2>2, Places DEF HandleHit, InHandle
    <3>2. want[t] \in Binding => bound' \in [1 .. MaxMade -> Streams \cup {None}] /\ rebound' \subseteq Threads
      <4>1. mine[t] \in Streams
        BY <2>2 DEF HandleHit, Types, Carries
      <4>2. Cached(t).nth \in 1 .. MaxMade
        BY <3>1 DEF Handles
      <4> QED
        BY <2>2, <4>1, <4>2 DEF HandleHit, Bound, Types, Variables
    <3> QED
      BY <2>2, <3>1, <3>2 DEF Types, Variables, Carries, InHandle, InPlan, HandleHit, Has, Goto, caches
  <2>3. CASE HandleMiss(t)
    BY <2>3 DEF Types, Variables, Carries, InHandle, InPlan, HandleMiss, Goto, caches
  <2>4. CASE CreateHandle(t)
    <3>1. [lib |-> want[t], dev |-> Dev(t), nth |-> made + 1] \in Handles
      BY <2>4, Places DEF CreateHandle, Types, Variables, Carries, InHandle, Handles
    <3> QED
      BY <2>4, <3>1 DEF Types, Variables, Carries, InHandle, InPlan, CreateHandle, Goto, caches
  <2>5. CASE Adopt(t)
    <3> DEFINE h == IF Cached(t) = None THEN own[t] ELSE Cached(t)
    <3>1. h \in Handles
      BY <2>5, Places DEF Adopt, Types, Carries, InHandle
    <3>2. want[t] \in Libraries /\ Dev(t) \in Devices
      BY <2>5, Places DEF Adopt, Types, Carries, InHandle
    <3>3. handles' \in [Libraries -> [Devices -> Handles \cup {None}]]
      BY <2>5, <3>1, <3>2 DEF Adopt, Types, Variables
    <3>4. holds' = [holds EXCEPT ![t] = h]
      BY <2>5 DEF Adopt, Has
    <3> HIDE DEF h
    <3> QED
      BY <2>5, <3>1, <3>3, <3>4 DEF Types, Variables, Carries, InHandle, InPlan, Adopt, Goto
  <2>6. CASE Bind(t)
    <3>1. holds[t].nth \in 1 .. MaxMade /\ mine[t] \in Streams
      BY <2>6 DEF Bind, Types, Carries, Handles
    <3> QED
      BY <2>6, <3>1 DEF Types, Variables, Carries, InHandle, InPlan, Bind, Bound, Goto, caches
  <2>7. CASE BorrowFails(t)
    BY <2>7 DEF Types, Variables, Carries, InHandle, InPlan, BorrowFails, Has, Goto, caches
  <2>8. CASE OperateBound(t)
    <3>1. bound[holds[t].nth] \in Streams \cup {None}
      BY <2>8 DEF OperateBound, Types, Variables, Carries, Handles
    <3> QED
      BY <2>8, <3>1 DEF Types, Variables, Carries, InHandle, InPlan, OperateBound, RunsOn, caches
  <2>9. CASE OperatePassed(t)
    BY <2>9 DEF Types, Variables, Carries, InHandle, InPlan, OperatePassed, RunsOn, caches
  <2>10. CASE SetStream(t)
    <3>1. holds[t].nth \in 1 .. MaxMade /\ mine[t] \in Streams
      BY <2>10 DEF SetStream, Types, Carries, Handles
    <3> QED
      BY <2>10, <3>1 DEF Types, Variables, Carries, InHandle, InPlan, SetStream, Bound, caches
  <2> QED
    BY <1>2, <2>1, <2>2, <2>3, <2>4, <2>5, <2>6, <2>7, <2>8, <2>9, <2>10 DEF HandleStep
<1>3. ASSUME NEW t \in Threads, PlanStep(t)
      PROVE  Types'
  <2>1. ASSUME NEW shape \in Shapes, WantPlan(t, shape) PROVE Types'
    BY <2>1 DEF Types, Variables, Carries, InHandle, InPlan, WantPlan, Goto, caches
  <2>2. CASE PlanHit(t)
    <3>1. plans[Key(t)] \in Plans
      BY <2>2, Places DEF PlanHit, InPlan
    <3> QED
      BY <2>2, <3>1 DEF Types, Variables, Carries, InHandle, InPlan, PlanHit, Has, Goto, caches
  <2>3. CASE PlanMiss(t)
    BY <2>3 DEF Types, Variables, Carries, InHandle, InPlan, PlanMiss, Goto, caches
  <2>4. CASE BuildPlan(t)
    <3>1. [shape |-> want[t], stream |-> mine[t], nth |-> made + 1] \in Plans /\ mine[t] \in Streams
      BY <2>4 DEF BuildPlan, Types, Variables, Carries, InPlan, Plans
    <3> QED
      BY <2>4, <3>1 DEF Types, Variables, Carries, InHandle, InPlan, BuildPlan, Goto, caches
  <2>5. CASE BuildFails(t)
    BY <2>5 DEF Types, Variables, Carries, InHandle, InPlan, BuildFails, Goto, caches
  <2>6. CASE InsertPlan(t)
    <3>1. own[t] \in Plans /\ Key(t) \in Keys
      BY <2>6, Places DEF InsertPlan, Types, Carries, InPlan
    <3> QED
      BY <2>6, <3>1 DEF Types, Variables, Carries, InHandle, InPlan, InsertPlan, Has, Goto
  <2>7. CASE Clear(t)
    BY <2>7 DEF Types, Variables, Carries, Clear
  <2>8. CASE ExecPlan(t)
    <3>1. bound[holds[t].nth] \in Streams \cup {None}
      BY <2>8 DEF ExecPlan, Types, Variables, Carries, Plans
    <3> QED
      BY <2>8, <3>1 DEF Types, Variables, Carries, InHandle, InPlan, ExecPlan, RunsOn, caches
  <2> QED
    BY <1>3, <2>1, <2>2, <2>3, <2>4, <2>5, <2>6, <2>7, <2>8 DEF PlanStep
<1>4. ASSUME NEW t \in Threads, StreamStep(t)
      PROVE  Types'
  <2>1. ASSUME NEW raw \in Raws, NEW d \in Devices, OpenStream(t, raw, d) PROVE Types'
    <3>1. [raw |-> raw, life |-> opened + 1, dev |-> d] \in Streams
      BY <2>1 DEF OpenStream, Types, Variables, Streams
    <3> QED
      BY <2>1, <3>1 DEF Types, Variables, Carries, InHandle, InPlan, OpenStream, caches
  <2>2. ASSUME NEW u \in Threads, ShareStream(t, u) PROVE Types'
    BY <2>2 DEF Types, Variables, Carries, InHandle, InPlan, ShareStream, caches
  <2>3. CASE DropStream(t)
    BY <2>3 DEF Types, Variables, Carries, InHandle, InPlan, DropStream, caches
  <2> QED
    BY <1>4, <2>1, <2>2, <2>3 DEF StreamStep
<1>5. ASSUME NEW t \in Threads, Release(t)
      PROVE  Types'
  BY <1>5 DEF Types, Variables, Carries, InHandle, InPlan, Release, Has, Goto, caches
<1> QED
  BY <1>1, <1>2, <1>3, <1>4, <1>5 DEF Next

LEMMA TypesInvariant == Spec => []Types
BY InitTypes, NextTypes, PTL DEF Spec

\* What a thread holds has the type of its place in handle_for or
\* get_or_insert, and both leave with something or with nothing.
THEOREM TypeCorrect == Spec => []TypeOK
<1>1. Types => TypeOK
  BY HandlesAssumption DEF Types, Variables, Carries, TypeOK, InHandle, InPlan
<1> QED
  BY <1>1, TypesInvariant, PTL

(***************************************************************************)
(* One handle per library and device.                                      *)
(***************************************************************************)
\* From the adoption on, before the handle is bound too.
Adopted ==
  \A t \in Threads : pc[t] \in {"bind", "borrowed"} => holds[t] = handles[want[t]][mine[t].dev]

LEMMA NextAdopted ==
  ASSUME Types, Adopted, [Next]_vars
  PROVE  Adopted'
<1>1. CASE UNCHANGED vars
  BY <1>1 DEF Adopted, vars, caches
<1>2. ASSUME NEW t \in Threads, Adopt(t)
      PROVE  Adopted'
  <2> DEFINE h == IF Cached(t) = None THEN own[t] ELSE Cached(t)
  <2>1. want[t] \in Libraries /\ Dev(t) \in Devices
    BY <1>2, Places DEF Adopt, Types, Carries, InHandle
  <2>2. handles' = [handles EXCEPT ![want[t]][Dev(t)] = h] /\ holds' = [holds EXCEPT ![t] = h]
    BY <1>2 DEF Adopt, Has
  <2>3. handles'[want[t]][Dev(t)] = h
    BY <2>1, <2>2 DEF Types, Variables
  <2>4. ASSUME NEW u \in Threads, u # t, pc[u] \in {"bind", "borrowed"}
        PROVE  handles'[want[u]][mine[u].dev] = holds[u]
    <3>1. /\ want[u] \in Libraries /\ mine[u].dev \in Devices
          /\ holds[u] # None /\ holds[u] = handles[want[u]][mine[u].dev]
      BY <2>4, HandlesAssumption DEF Types, Carries, InHandle, Adopted, Streams
    <3>2. CASE want[u] = want[t] /\ mine[u].dev = Dev(t)
      BY <2>3, <3>1, <3>2 DEF Cached
    <3>3. CASE ~(want[u] = want[t] /\ mine[u].dev = Dev(t))
      BY <2>2, <3>1, <3>3 DEF Types, Variables
    <3> QED
      BY <3>2, <3>3
  <2> HIDE DEF h
  <2> QED
    BY <1>2, <2>2, <2>3, <2>4 DEF Adopted, Adopt, Goto, Dev, Types, Variables
<1>3. ASSUME NEW t \in Threads, HandleHit(t)
      PROVE  Adopted'
  BY <1>3 DEF Adopted, HandleHit, Has, Goto, Cached, Dev, Types, Variables, caches
<1>4. ASSUME NEW t \in Threads,
             \/ HandleMiss(t) \/ CreateHandle(t) \/ Bind(t) \/ SetStream(t) \/ BorrowFails(t)
             \/ OperateBound(t) \/ OperatePassed(t)
             \/ \E l \in Libraries : Borrow(t, l)
      PROVE  Adopted'
  BY <1>4 DEF Adopted, HandleMiss, CreateHandle, Bind, SetStream, BorrowFails, OperateBound, OperatePassed, Borrow,
     RunsOn, Has, Goto, Types, Variables, caches
<1>5. ASSUME NEW t \in Threads, PlanStep(t)
      PROVE  Adopted'
  BY <1>5 DEF Adopted, PlanStep, WantPlan, PlanHit, PlanMiss, BuildPlan, BuildFails, InsertPlan, Clear, ExecPlan,
     RunsOn, Has, Goto, Types, Variables, caches
<1>6. ASSUME NEW t \in Threads, StreamStep(t) \/ Release(t)
      PROVE  Adopted'
  BY <1>6 DEF Adopted, StreamStep, OpenStream, ShareStream, DropStream, Release, Has, Goto, Types, Variables, caches
<1> QED
  BY <1>1, <1>2, <1>3, <1>4, <1>5, <1>6 DEF Next, HandleStep

\* All threads that have borrowed a library's handle of one device have the
\* cached one, however many threads missed it together.
THEOREM OneHandle == Spec => []SameHandle
<1>1. Init => Adopted
  BY DEF Init, Adopted
<1>2. Adopted => SameHandle
  BY DEF Adopted, SameHandle, Borrowed
<1> QED
  BY <1>1, <1>2, NextAdopted, TypesInvariant, PTL DEF Spec

(***************************************************************************)
(* Which object is bound to which stream.                                  *)
(***************************************************************************)
\* Every handle and plan there is.
Objects ==
  ({handles[l][d] : l \in Libraries, d \in Devices} \cup PlansAround) \ {None}

\* Numbers tell objects apart, and a plan stays bound to the stream it keeps.
Counted ==
  /\ \A x \in Objects : x.nth \in 1 .. made
  /\ \A x, y \in Objects : x.nth = y.nth => x = y
  /\ \A p \in Objects \cap Plans : bound[p.nth] = p.stream

LEMMA HandlesAreNoPlans == Handles \cap Plans = {}
<1> SUFFICES ASSUME NEW x \in Handles, x \in Plans PROVE FALSE
  OBVIOUS
<1>1. DOMAIN x = {"lib", "dev", "nth"}
  BY DEF Handles
<1>2. DOMAIN x = {"shape", "stream", "nth"}
  BY DEF Plans
<1> QED
  BY <1>1, <1>2

\* Most steps copy, move or drop objects and bind none.
LEMMA CountedKept ==
  ASSUME Counted, Objects' \subseteq Objects, made' = made, bound' = bound
  PROVE  Counted'
BY DEF Counted

\* Binding a handle leaves the plans' streams alone.
LEMMA CountedBound ==
  ASSUME Types, Counted, NEW h \in Handles, h \in Objects, NEW s,
         Objects' \subseteq Objects, made' = made, bound' = [bound EXCEPT ![h.nth] = s]
  PROVE  Counted'
<1>1. \A p \in Objects \cap Plans : p.nth # h.nth
  BY HandlesAreNoPlans DEF Counted
<1>2. \A p \in Objects \cap Plans : p.nth \in 1 .. MaxMade
  BY DEF Plans
<1> QED
  BY <1>1, <1>2 DEF Counted, Types, Variables

\* A new object has a new number.
LEMMA CountedNew ==
  ASSUME Types, Counted, NEW n, n \in Handles \cup Plans, n.nth = made + 1, made < MaxMade,
         Objects' \subseteq Objects \cup {n}, made' = made + 1,
         n \in Plans => bound' = [bound EXCEPT ![made + 1] = n.stream],
         n \notin Plans => bound' = bound
  PROVE  Counted'
<1>1. made \in Nat /\ made + 1 \in 1 .. MaxMade
  BY HandlesAssumption DEF Types, Variables
<1>2. \A x \in Objects : x.nth \in 1 .. made /\ x.nth # made + 1
  BY <1>1 DEF Counted
<1>3. \A x \in Objects' : x.nth \in 1 .. made'
  BY <1>1, <1>2
<1>4. ASSUME NEW x \in Objects', NEW y \in Objects', x.nth = y.nth PROVE x = y
  BY <1>2, <1>4 DEF Counted
<1>5. ASSUME NEW p \in Objects', p \in Plans PROVE bound'[p.nth] = p.stream
  <2>1. CASE p = n
    BY <1>1, <1>5, <2>1 DEF Types, Variables
  <2>2. CASE p # n
    <3>1. p \in Objects /\ p.nth # made + 1 /\ bound[p.nth] = p.stream
      BY <1>2, <1>5, <2>2 DEF Counted
    <3>2. p.nth \in 1 .. MaxMade
      BY <1>5 DEF Plans
    <3>3. bound'[p.nth] = bound[p.nth]
      BY <3>1, <3>2 DEF Types, Variables
    <3> QED
      BY <3>1, <3>3
  <2> QED
    BY <2>1, <2>2
<1> QED
  BY <1>3, <1>4, <1>5 DEF Counted

LEMMA NextCounted ==
  ASSUME Types, Counted, [Next]_vars
  PROVE  Counted'
<1>1. CASE UNCHANGED vars
  <2>1. Objects' = Objects
    BY <1>1 DEF Objects, PlansAround, vars, caches
  <2> QED
    BY <1>1, <2>1, CountedKept DEF vars
<1>2. ASSUME NEW t \in Threads, HandleStep(t)
      PROVE  Counted'
  <2>1. CASE (\E l \in Libraries : Borrow(t, l)) \/ HandleMiss(t) \/ OperateBound(t) \/ OperatePassed(t)
    <3>1. Objects' = Objects /\ made' = made /\ bound' = bound
      BY <2>1 DEF Borrow, HandleMiss, OperateBound, OperatePassed, RunsOn, Objects, PlansAround, caches
    <3> QED
      BY <3>1, CountedKept
  <2>2. CASE BorrowFails(t)
    <3>1. Objects' \subseteq Objects
      BY <2>2 DEF BorrowFails, Has, Objects, PlansAround, caches, Types, Variables
    <3> QED
      BY <2>2, <3>1, CountedKept DEF BorrowFails
  <2>3. CASE HandleHit(t)
    <3>1. Cached(t) \in Handles /\ want[t] \in Libraries /\ Dev(t) \in Devices
      BY <2>3, Places DEF HandleHit, InHandle, Types, Carries
    <3>2. Cached(t) \in Objects
      BY <3>1, HandlesAssumption DEF Objects, Cached
    <3>3. Objects' \subseteq Objects
      BY <2>3, <3>2 DEF HandleHit, Has, Objects, PlansAround, caches, Types, Variables
    <3>4. made' = made
      BY <2>3 DEF HandleHit
    <3>5. CASE want[t] \in Binding
      BY <2>3, <3>1, <3>2, <3>3, <3>4, <3>5, CountedBound DEF HandleHit, Bound
    <3>6. CASE want[t] \notin Binding
      BY <2>3, <3>3, <3>4, <3>6, CountedKept DEF HandleHit
    <3> QED
      BY <3>5, <3>6
  <2>4. CASE CreateHandle(t)
    <3> DEFINE n == [lib |-> want[t], dev |-> Dev(t), nth |-> made + 1]
    <3>1. n \in Handles /\ n.nth = made + 1
      BY <2>4, Places, HandlesAssumption DEF CreateHandle, Types, Variables, Carries, InHandle, Handles
    <3>2. n \notin Plans
      BY <3>1, HandlesAreNoPlans
    <3>3. own' = [own EXCEPT ![t] = n]
      BY <2>4 DEF CreateHandle
    <3> HIDE DEF n
    <3>4. Objects' \subseteq Objects \cup {n}
      BY <2>4, <3>3 DEF CreateHandle, Objects, PlansAround, caches, Types, Variables
    <3> QED
      BY <2>4, <3>1, <3>2, <3>4, CountedNew DEF CreateHandle
  <2>5. CASE Adopt(t)
    <3> DEFINE h == IF Cached(t) = None THEN own[t] ELSE Cached(t)
    <3>1. want[t] \in Libraries /\ Dev(t) \in Devices /\ own[t] \in Handles
      BY <2>5, Places DEF Adopt, Types, Carries, InHandle
    <3>2. h \in Objects
      BY <3>1, HandlesAssumption DEF Objects, PlansAround, Cached
    <3>3. handles' = [handles EXCEPT ![want[t]][Dev(t)] = h] /\ holds' = [holds EXCEPT ![t] = h]
      BY <2>5 DEF Adopt, Has
    <3> HIDE DEF h
    <3>4. \A l \in Libraries, d \in Devices : handles'[l][d] \in {handles[l][d], h}
      BY <3>1, <3>3 DEF Types, Variables
    <3>5. PlansAround' \subseteq PlansAround \cup {h, None}
      BY <2>5, <3>3 DEF Adopt, PlansAround, Types, Variables
    <3>6. Objects' \subseteq Objects
      BY <3>2, <3>4, <3>5 DEF Objects
    <3> QED
      BY <2>5, <3>6, CountedKept DEF Adopt
  <2>6. CASE Bind(t) \/ SetStream(t)
    <3>1. holds[t] \in Handles /\ holds[t] \in Objects
      BY <2>6, HandlesAssumption DEF Bind, SetStream, Types, Carries, Objects, PlansAround
    <3>2. Objects' = Objects
      BY <2>6 DEF Bind, SetStream, Objects, PlansAround, caches
    <3> QED
      BY <2>6, <3>1, <3>2, CountedBound DEF Bind, SetStream, Bound
  <2> QED
    BY <1>2, <2>1, <2>2, <2>3, <2>4, <2>5, <2>6 DEF HandleStep
<1>3. ASSUME NEW t \in Threads, PlanStep(t)
      PROVE  Counted'
  <2>1. CASE (\E shape \in Shapes : WantPlan(t, shape)) \/ PlanMiss(t) \/ BuildFails(t) \/ ExecPlan(t)
    <3>1. Objects' = Objects /\ made' = made /\ bound' = bound
      BY <2>1 DEF WantPlan, PlanMiss, BuildFails, ExecPlan, RunsOn, Objects, PlansAround, caches
    <3> QED
      BY <3>1, CountedKept
  <2>2. CASE PlanHit(t)
    <3>1. Key(t) \in Keys
      BY <2>2, Places DEF PlanHit, InPlan
    <3>2. Objects' \subseteq Objects
      BY <2>2, <3>1 DEF PlanHit, Has, Objects, PlansAround, caches, Types, Variables
    <3> QED
      BY <2>2, <3>2, CountedKept DEF PlanHit
  <2>3. CASE BuildPlan(t)
    <3> DEFINE n == [shape |-> want[t], stream |-> mine[t], nth |-> made + 1]
    <3>1. n \in Plans /\ n.nth = made + 1 /\ n.stream = mine[t]
      BY <2>3, HandlesAssumption DEF BuildPlan, Types, Variables, Carries, InPlan, Plans
    <3>2. own' = [own EXCEPT ![t] = n]
      BY <2>3 DEF BuildPlan
    <3> HIDE DEF n
    <3>3. Objects' \subseteq Objects \cup {n}
      BY <2>3, <3>2 DEF BuildPlan, Objects, PlansAround, caches, Types, Variables
    <3> QED
      BY <2>3, <3>1, <3>3, CountedNew DEF BuildPlan
  <2>4. CASE InsertPlan(t)
    <3>1. Objects' \subseteq Objects
      BY <2>4 DEF InsertPlan, Has, Objects, PlansAround, Types, Variables
    <3> QED
      BY <2>4, <3>1, CountedKept DEF InsertPlan
  <2>5. CASE Clear(t)
    <3>1. Objects' \subseteq Objects
      BY <2>5 DEF Clear, Objects, PlansAround
    <3> QED
      BY <2>5, <3>1, CountedKept DEF Clear
  <2> QED
    BY <1>3, <2>1, <2>2, <2>3, <2>4, <2>5 DEF PlanStep
<1>4. ASSUME NEW t \in Threads, StreamStep(t)
      PROVE  Counted'
  <2>1. Objects' = Objects /\ made' = made /\ bound' = bound
    BY <1>4 DEF StreamStep, OpenStream, ShareStream, DropStream, Objects, PlansAround, caches
  <2> QED
    BY <2>1, CountedKept
<1>5. ASSUME NEW t \in Threads, Release(t)
      PROVE  Counted'
  <2>1. Objects' \subseteq Objects
    BY <1>5 DEF Release, Has, Objects, PlansAround, caches, Types, Variables
  <2> QED
    BY <1>5, <2>1, CountedKept DEF Release
<1> QED
  BY <1>1, <1>2, <1>3, <1>4, <1>5 DEF Next

(***************************************************************************)
(* A plan's stream.                                                        *)
(***************************************************************************)
\* A raw value names one stream at a time, a cached plan is on the stream its
\* key names, and a thread's plan on the thread's stream.
Keyed ==
  /\ \A r, s \in Alive : r.raw = s.raw => r = s
  /\ \A k \in Keys : plans[k] # None => plans[k].stream.raw = k.raw
  /\ \A t \in Threads :
       /\ pc[t] = "insertplan" => own[t].stream = mine[t]
       /\ pc[t] = "planned" => holds[t].stream = mine[t]

\* Steps that open no stream and touch no plan.
LEMMA KeyedKept ==
  ASSUME Types, Keyed, PlansAround' \cap Plans \subseteq PlansAround, mine' = mine, plans' = plans,
         \A t \in Threads : pc'[t] \in {"insertplan", "planned"} =>
           pc'[t] = pc[t] /\ own'[t] = own[t] /\ holds'[t] = holds[t]
  PROVE  Keyed'
<1>1. Alive' \subseteq Alive
  BY DEF Alive
<1> QED
  BY <1>1 DEF Keyed

LEMMA NextKeyed ==
  ASSUME Types, Keyed, [Next]_vars
  PROVE  Keyed'
<1>1. CASE UNCHANGED vars
  BY <1>1, KeyedKept DEF vars, caches, PlansAround
<1>2. ASSUME NEW t \in Threads, HandleStep(t)
      PROVE  Keyed'
  <2>1. mine' = mine /\ plans' = plans
    BY <1>2 DEF HandleStep, Borrow, HandleHit, HandleMiss, CreateHandle, Adopt, Bind, SetStream, BorrowFails,
       OperateBound, OperatePassed, RunsOn, caches
  <2>2. \A u \in Threads : pc'[u] \in {"insertplan", "planned"} =>
          pc'[u] = pc[u] /\ own'[u] = own[u] /\ holds'[u] = holds[u]
    BY <1>2 DEF HandleStep, Borrow, HandleHit, HandleMiss, CreateHandle, Adopt, Bind, SetStream, BorrowFails,
       OperateBound, OperatePassed, RunsOn, Has, Goto, Types, Variables
  <2>3. \A u \in Threads : own'[u] \in {own[u], None} \cup Handles /\ holds'[u] \in {holds[u], None} \cup Handles
    <3>1. pc[t] \in {"lookup", "adopt"} => Cached(t) \in Handles \cup {None}
      BY Places DEF InHandle
    <3>2. pc[t] = "adopt" => own[t] \in Handles
      BY DEF Types, Carries
    <3>3. pc[t] = "create" => [lib |-> want[t], dev |-> Dev(t), nth |-> made + 1] \in Handles \/ made >= MaxMade
      BY Places, HandlesAssumption DEF Types, Variables, Carries, InHandle, Handles
    <3>4. CASE CreateHandle(t)
      BY <3>3, <3>4, HandlesAssumption DEF CreateHandle, Types, Variables
    <3>5. CASE HandleHit(t)
      BY <3>1, <3>5 DEF HandleHit, Has, Types, Variables
    <3>6. CASE Adopt(t)
      BY <3>1, <3>2, <3>6 DEF Adopt, Has, Types, Variables
    <3>7. CASE \/ \E l \in Libraries : Borrow(t, l)
               \/ HandleMiss(t) \/ Bind(t) \/ SetStream(t) \/ BorrowFails(t) \/ OperateBound(t) \/ OperatePassed(t)
      BY <3>7 DEF Borrow, HandleMiss, Bind, SetStream, BorrowFails, OperateBound, OperatePassed, RunsOn, Has, Types, Variables
    <3> QED
      BY <1>2, <3>4, <3>5, <3>6, <3>7 DEF HandleStep
  <2>4. None \notin Plans
    BY HandlesAssumption
  <2>5. PlansAround' \cap Plans \subseteq PlansAround
    BY <2>1, <2>3, <2>4, HandlesAreNoPlans DEF PlansAround
  <2> QED
    BY <2>1, <2>2, <2>5, KeyedKept
<1>3. ASSUME NEW t \in Threads, PlanStep(t)
      PROVE  Keyed'
  <2>1. CASE (\E shape \in Shapes : WantPlan(t, shape)) \/ PlanMiss(t) \/ BuildFails(t) \/ ExecPlan(t)
    BY <2>1, KeyedKept DEF WantPlan, PlanMiss, BuildFails, ExecPlan, RunsOn, Goto, PlansAround, caches, Types, Variables
  <2>2. CASE PlanHit(t)
    <3>1. Key(t) \in Keys /\ plans[Key(t)] \in Plans /\ plans[Key(t)] \in PlansAround
      BY <2>2, Places DEF PlanHit, InPlan, PlansAround
    <3>2. mine[t] \in Alive /\ plans[Key(t)].stream \in Alive
      BY <2>2, <3>1, HandlesAssumption DEF PlanHit, Alive, Types, Carries
    <3>3. plans[Key(t)].stream.raw = mine[t].raw
      BY <3>1, HandlesAssumption DEF Keyed, Key
    <3>4. plans[Key(t)].stream = mine[t]
      BY <3>2, <3>3 DEF Keyed
    <3>5. PlansAround' \subseteq PlansAround
      BY <2>2, <3>1 DEF PlanHit, Has, PlansAround, caches, Types, Variables
    <3>6. Alive' \subseteq Alive
      BY <2>2, <3>5 DEF PlanHit, Alive
    <3> QED
      BY <2>2, <3>4, <3>6 DEF Keyed, PlanHit, Has, Goto, caches, Types, Variables
  <2>3. CASE BuildPlan(t)
    <3> DEFINE n == [shape |-> want[t], stream |-> mine[t], nth |-> made + 1]
    <3>1. n.stream = mine[t] /\ mine[t] \in Alive
      BY <2>3, HandlesAssumption DEF BuildPlan, Types, Carries, Alive
    <3>2. own' = [own EXCEPT ![t] = n]
      BY <2>3 DEF BuildPlan
    <3> HIDE DEF n
    <3>3. PlansAround' \subseteq PlansAround \cup {n}
      BY <2>3, <3>2 DEF BuildPlan, PlansAround, caches, Types, Variables
    <3>4. Alive' \subseteq Alive
      BY <2>3, <3>1, <3>3 DEF BuildPlan, Alive
    <3> QED
      BY <2>3, <3>1, <3>2, <3>4 DEF Keyed, BuildPlan, Goto, caches, Types, Variables
  <2>4. CASE InsertPlan(t)
    <3>1. own[t] \in PlansAround /\ Key(t) \in Keys /\ own[t].stream = mine[t]
      BY <2>4, Places DEF InsertPlan, InPlan, PlansAround, Keyed
    <3>2. PlansAround' \subseteq PlansAround \cup {None}
      BY <2>4, <3>1 DEF InsertPlan, Has, PlansAround, Types, Variables
    <3>3. Alive' \subseteq Alive
      BY <2>4, <3>2, HandlesAssumption DEF InsertPlan, Alive
    <3>4. Key(t).raw = mine[t].raw
      BY DEF Key
    <3>5. \A k \in Keys : plans'[k] # None => plans'[k].stream.raw = k.raw
      BY <2>4, <3>1, <3>4 DEF InsertPlan, Keyed, Types, Variables
    <3> QED
      BY <2>4, <3>1, <3>3, <3>5 DEF Keyed, InsertPlan, Has, Goto, Types, Variables
  <2>5. CASE Clear(t)
    <3>1. Alive' \subseteq Alive
      BY <2>5, HandlesAssumption DEF Clear, Alive, PlansAround
    <3> QED
      BY <2>5, <3>1 DEF Keyed, Clear
  <2> QED
    BY <1>3, <2>1, <2>2, <2>3, <2>4, <2>5 DEF PlanStep
<1>4. ASSUME NEW t \in Threads, StreamStep(t)
      PROVE  Keyed'
  <2>1. /\ UNCHANGED <<plans, pc, own, holds>> /\ PlansAround' = PlansAround /\ pc[t] = "idle"
        /\ \A u \in Threads : u # t => mine'[u] = mine[u]
    BY <1>4 DEF StreamStep, OpenStream, ShareStream, DropStream, PlansAround, caches, Types, Variables
  <2>2. \A r, s \in Alive' : r.raw = s.raw => r = s
    <3>1. ASSUME NEW raw \in Raws, NEW d \in Devices, OpenStream(t, raw, d)
          PROVE  \A r, s \in Alive' : r.raw = s.raw => r = s
      <4> DEFINE new == [raw |-> raw, life |-> opened + 1, dev |-> d]
      <4>1. mine' = [mine EXCEPT ![t] = new] /\ new.raw = raw
        BY <3>1 DEF OpenStream
      <4> HIDE DEF new
      <4>2. Alive' \subseteq Alive \cup {new}
        BY <2>1, <4>1 DEF Alive, Types, Variables
      <4>3. \A s \in Alive : s.raw # raw
        BY <3>1 DEF OpenStream
      <4> QED
        BY <4>1, <4>2, <4>3 DEF Keyed
    <3>2. CASE (\E u \in Threads : ShareStream(t, u)) \/ DropStream(t)
      <4>1. Alive' \subseteq Alive
        BY <2>1, <3>2 DEF ShareStream, DropStream, Alive, Types, Variables
      <4> QED
        BY <4>1 DEF Keyed
    <3> QED
      BY <1>4, <3>1, <3>2 DEF StreamStep
  <2> QED
    BY <2>1, <2>2 DEF Keyed
<1>5. ASSUME NEW t \in Threads, Release(t)
      PROVE  Keyed'
  <2>1. PlansAround' \subseteq PlansAround \cup {None}
    BY <1>5 DEF Release, Has, PlansAround, caches, Types, Variables
  <2> QED
    BY <1>5, <2>1, KeyedKept, HandlesAssumption DEF Release, Has, Goto, caches, Types, Variables
<1> QED
  BY <1>1, <1>2, <1>3, <1>4, <1>5 DEF Next

LEMMA PlansInvariant == Spec => [](Types /\ Counted /\ Keyed)
<1>1. Init => Counted /\ Keyed
  BY HandlesAssumption DEF Init, Counted, Keyed, Objects, Alive, PlansAround, caches
<1>2. Types /\ Counted /\ Keyed /\ [Next]_vars => (Types /\ Counted /\ Keyed)'
  BY NextTypes, NextCounted, NextKeyed
<1> QED
  BY <1>1, <1>2, InitTypes, PTL DEF Spec

LEMMA PlansOwn == Types /\ Counted /\ Keyed => PlanOnOwnStream
<1> SUFFICES ASSUME Types, Counted, Keyed, NEW t \in Threads, pc[t] = "planned"
             PROVE  bound[holds[t].nth] = mine[t]
  BY DEF PlanOnOwnStream
<1>1. holds[t] \in Objects \cap Plans
  BY HandlesAssumption DEF Types, Carries, Objects, PlansAround
<1> QED
  BY <1>1 DEF Counted, Keyed

\* The raw value in a plan's key never names a stream of an earlier life: a
\* thread's plan runs on the thread's own stream.
THEOREM PlanStreams == Spec => []PlanOnOwnStream
BY PlansInvariant, PlansOwn, PTL

(***************************************************************************)
(* Binding on each borrow.                                                 *)
(***************************************************************************)
\* A borrower's handle is on the borrower's stream or on that of a thread that
\* has bound it since, before the borrower issues its operation.
BoundOrRebound ==
  /\ \A t \in Threads : pc[t] = "borrowed" /\ want[t] \in Binding =>
       bound[holds[t].nth] = mine[t] \/ t \in rebound
  /\ RebindOnBorrow

\* A bind spares the borrowers of other handles and marks those of the same.
LEMMA BindMarks ==
  ASSUME Types, Counted, NEW t \in Threads, NEW h \in Handles, h \in Objects, Bound(t, h),
         NEW u \in Threads, u # t, holds[u] \in Handles,
         bound[holds[u].nth] = mine[u] \/ u \in rebound
  PROVE  bound'[holds[u].nth] = mine[u] \/ u \in rebound'
<1>1. holds[u] \in Objects
  BY HandlesAssumption DEF Objects, PlansAround
<1>2. CASE holds[u] = h
  BY <1>2 DEF Bound, Types, Variables, Handles
<1>3. CASE holds[u] # h
  <2>1. holds[u].nth # h.nth
    BY <1>1, <1>3 DEF Counted
  <2> QED
    BY <2>1 DEF Bound, Types, Variables, Handles
<1> QED
  BY <1>2, <1>3

\* What thread t does leaves the other borrowers alone.
LEMMA OthersKept ==
  ASSUME Types, BoundOrRebound, NEW t \in Threads,
         \A u \in Threads : u # t =>
           /\ pc'[u] = pc[u] /\ want'[u] = want[u] /\ mine'[u] = mine[u]
           /\ holds'[u] = holds[u] /\ ran'[u] = ran[u]
           /\ u \in rebound => u \in rebound',
         \A u \in Threads : u # t /\ pc[u] = "borrowed" /\ want[u] \in Binding =>
           bound'[holds[u].nth] = mine[u] \/ u \in rebound',
         ran'[t] # None => ran'[t] = mine'[t] \/ t \in rebound',
         pc'[t] = "borrowed" /\ want'[t] \in Binding => bound'[holds'[t].nth] = mine'[t] \/ t \in rebound'
  PROVE  BoundOrRebound'
BY DEF BoundOrRebound, RebindOnBorrow

LEMMA NextBoundOrRebound ==
  ASSUME Types, Counted, PlanOnOwnStream, BoundOrRebound, [Next]_vars
  PROVE  BoundOrRebound'
<1>1. CASE UNCHANGED vars
  BY <1>1 DEF BoundOrRebound, RebindOnBorrow, vars
<1>2. ASSUME NEW t \in Threads, HandleStep(t)
      PROVE  BoundOrRebound'
  <2>1. CASE HandleHit(t) /\ want[t] \in Binding
    <3>1. Cached(t) \in Handles /\ want[t] \in Libraries /\ Dev(t) \in Devices
      BY <2>1, Places DEF HandleHit, InHandle, Types, Carries
    <3>2. Cached(t) \in Objects
      BY <3>1, HandlesAssumption DEF Objects, Cached
    <3>3. Bound(t, Cached(t))
      BY <2>1 DEF HandleHit
    <3>4. \A u \in Threads : u # t /\ pc[u] = "borrowed" /\ want[u] \in Binding =>
            bound'[holds[u].nth] = mine[u] \/ u \in rebound'
      BY <3>1, <3>2, <3>3, BindMarks DEF BoundOrRebound, Types, Carries
    <3>5. bound'[Cached(t).nth] = mine[t]
      BY <3>1, <3>3 DEF Bound, Types, Variables, Handles
    <3>6. ran[t] = None
      BY <2>1 DEF HandleHit, Types, Carries
    <3> QED
      BY <2>1, <3>3, <3>4, <3>5, <3>6, OthersKept DEF HandleHit, Bound, Has, Goto, caches, Types, Variables
  <2>2. CASE Bind(t) \/ SetStream(t)
    <3>1. holds[t] \in Handles /\ holds[t] \in Objects /\ ran'[t] = None
      BY <2>2, HandlesAssumption DEF Bind, SetStream, Types, Variables, Carries, Objects, PlansAround
    <3>2. Bound(t, holds[t])
      BY <2>2 DEF Bind, SetStream
    <3>3. \A u \in Threads : u # t /\ pc[u] = "borrowed" /\ want[u] \in Binding =>
            bound'[holds[u].nth] = mine[u] \/ u \in rebound'
      BY <3>1, <3>2, BindMarks DEF BoundOrRebound, Types, Carries
    <3>4. bound'[holds[t].nth] = mine[t]
      BY <3>1, <3>2 DEF Bound, Types, Variables, Handles
    <3> QED
      BY <2>2, <3>1, <3>2, <3>3, <3>4, OthersKept DEF Bind, SetStream, Bound, Goto, caches, Types, Variables
  <2>3. CASE HandleHit(t) /\ want[t] \notin Binding
    BY <2>3, OthersKept DEF HandleHit, Has, Goto, caches, Types, Variables, Carries, BoundOrRebound
  <2>4. ASSUME NEW l \in Libraries, Borrow(t, l) PROVE BoundOrRebound'
    BY <2>4, OthersKept DEF Borrow, Goto, caches, Types, Variables, BoundOrRebound
  <2>5. CASE Adopt(t)
    BY <2>5, OthersKept DEF Adopt, Has, Goto, Types, Variables, Carries, BoundOrRebound
  <2>6. CASE BorrowFails(t)
    BY <2>6, OthersKept DEF BorrowFails, Has, Goto, caches, Types, Variables, Carries, BoundOrRebound
  <2>7. CASE OperateBound(t)
    BY <2>7, OthersKept DEF OperateBound, RunsOn, caches, Types, Variables, BoundOrRebound
  <2>8. CASE OperatePassed(t)
    BY <2>8, OthersKept DEF OperatePassed, RunsOn, caches, Types, Variables, BoundOrRebound
  <2>9. CASE HandleMiss(t)
    BY <2>9, OthersKept DEF HandleMiss, Goto, caches, Types, Variables, Carries, BoundOrRebound
  <2>10. CASE CreateHandle(t)
    BY <2>10, OthersKept DEF CreateHandle, Goto, caches, Types, Variables, Carries, BoundOrRebound
  <2> QED
    BY <1>2, <2>1, <2>2, <2>3, <2>4, <2>5, <2>6, <2>7, <2>8, <2>9, <2>10 DEF HandleStep
<1>3. ASSUME NEW t \in Threads, PlanStep(t)
      PROVE  BoundOrRebound'
  <2>1. ASSUME NEW shape \in Shapes, WantPlan(t, shape) PROVE BoundOrRebound'
    BY <2>1, OthersKept DEF WantPlan, Goto, caches, Types, Variables, BoundOrRebound
  <2>2. CASE PlanMiss(t)
    BY <2>2, OthersKept DEF PlanMiss, Goto, caches, Types, Variables, Carries, BoundOrRebound
  <2>3. CASE BuildFails(t)
    BY <2>3, OthersKept DEF BuildFails, Goto, caches, Types, Variables, Carries, BoundOrRebound
  <2>4. CASE PlanHit(t)
    BY <2>4, OthersKept DEF PlanHit, Has, Goto, caches, Types, Variables, Carries, BoundOrRebound
  <2>5. CASE InsertPlan(t)
    BY <2>5, OthersKept DEF InsertPlan, Has, Goto, Types, Variables, Carries, BoundOrRebound
  <2>6. CASE BuildPlan(t)
    <3>1. \A u \in Threads : pc[u] = "borrowed" => holds[u].nth \in 1 .. made /\ holds[u].nth \in 1 .. MaxMade
      BY HandlesAssumption DEF Types, Carries, Counted, Objects, PlansAround, Handles
    <3>2. \A u \in Threads : pc[u] = "borrowed" => bound'[holds[u].nth] = bound[holds[u].nth]
      BY <2>6, <3>1, HandlesAssumption DEF BuildPlan, Types, Variables
    <3>3. rebound' = rebound /\ ran' = ran /\ ran[t] = None
      BY <2>6 DEF BuildPlan, Types, Carries
    <3> QED
      BY <2>6, <3>2, <3>3, OthersKept DEF BuildPlan, Goto, caches, Types, Variables, BoundOrRebound
  <2>7. CASE Clear(t)
    BY <2>7 DEF Clear, BoundOrRebound, RebindOnBorrow
  <2>8. CASE ExecPlan(t)
    <3>1. bound[holds[t].nth] = mine[t]
      BY <2>8 DEF ExecPlan, PlanOnOwnStream
    <3> QED
      BY <2>8, <3>1, OthersKept DEF ExecPlan, RunsOn, caches, Types, Variables, BoundOrRebound
  <2> QED
    BY <1>3, <2>1, <2>2, <2>3, <2>4, <2>5, <2>6, <2>7, <2>8 DEF PlanStep
<1>4. ASSUME NEW t \in Threads, StreamStep(t)
      PROVE  BoundOrRebound'
  <2>1. ASSUME NEW raw \in Raws, NEW d \in Devices, OpenStream(t, raw, d) PROVE BoundOrRebound'
    BY <2>1, OthersKept DEF OpenStream, caches, Types, Variables, BoundOrRebound
  <2>2. ASSUME NEW u \in Threads, ShareStream(t, u) PROVE BoundOrRebound'
    BY <2>2, OthersKept DEF ShareStream, caches, Types, Variables, BoundOrRebound
  <2>3. CASE DropStream(t)
    BY <2>3, OthersKept DEF DropStream, caches, Types, Variables, BoundOrRebound
  <2> QED
    BY <1>4, <2>1, <2>2, <2>3 DEF StreamStep
<1>5. ASSUME NEW t \in Threads, Release(t)
      PROVE  BoundOrRebound'
  BY <1>5, OthersKept DEF Release, Has, Goto, caches, Types, Variables, BoundOrRebound
<1> QED
  BY <1>1, <1>2, <1>3, <1>4, <1>5 DEF Next

\* Hit or miss, whoever won the insertion: an operation runs on its thread's
\* stream unless another thread has bound the handle since the borrow.
THEOREM EveryBorrowBinds == Spec => []RebindOnBorrow
<1>1. Init => BoundOrRebound
  BY DEF Init, BoundOrRebound, RebindOnBorrow
<1>2. BoundOrRebound => RebindOnBorrow
  BY DEF BoundOrRebound
<1> QED
  BY <1>1, <1>2, PlansInvariant, PlansOwn, NextBoundOrRebound, PTL DEF Spec

-----------------------------------------------------------------------------
(***************************************************************************)
(* Loading a vendor library.                                               *)
(*                                                                         *)
(* What a caller has behind it at a stage is not in its own state: it is   *)
(* in the memos, in who fills them, and in the candidates tried.  LoadInv  *)
(* relates them.  Filled says what a memo holds and what who fills the     *)
(* table has passed over; Place what the stage of a call stands for: which *)
(* memos it fills, and which it has seen filled (also when the published   *)
(* table let it in behind them); and Got what a call left with.            *)
(***************************************************************************)
Ops == {"none", "fns", "enumerate", "available", "open", "capabilities"}
Calls == [op : Ops, ordinal : Nat, stage : Stages]
WithEnsure == {"cuda", "rocm", "vulkan"}

\* A call that needs no library.
Needless(b, op) == b \in Given \/ (b = "tpu" /\ op = "enumerate")

There(m) == m["table"] \notin {Nil, Failed}
Initialised(b, m) == b = "cuda" => m["init"] # Nil

\* The types.
LoadTypes ==
  /\ backend \in Backends
  /\ library \in [1 .. Candidates -> Outcomes]
  /\ memo \in [Once -> 0 .. Candidates \cup {Nil}]
  /\ runner \in [Once -> Callers \cup {Nil}]
  /\ cursor \in 1 .. Candidates
  /\ hot \in BOOLEAN
  /\ table \in [Callers -> 0 .. Candidates \cup {Nil}]
  /\ at \in [Callers -> Calls]

\* Who fills the table has passed over what comes before the cursor; the table
\* is the one the candidates' order settles on; ensure_init has succeeded if the
\* table is there, initialised and not broken; and what is published is complete.
FilledBy(m, r, n, h) ==
  /\ \A g \in Once : m[g] # Nil => r[g] = Nil
  /\ r["table"] # Nil =>
       backend \notin Given /\ \A c \in 1 .. n - 1 : Verdict(c) = "next"
  /\ m["table"] # Nil => m["table"] = Chosen
  /\ There(m) => Verdict(m["table"]) = "take"
  /\ m["ensure"] = Failed => m["table"] # Nil /\ (m["table"] = Failed \/ library[m["table"]] = "broken")
  /\ m["ensure"] \notin {Nil, Failed} =>
       There(m) /\ Initialised(backend, m) /\ library[m["table"]] # "broken"
  /\ h => backend \in {"cuda", "rocm"} /\ There(m) /\ Initialised(backend, m)

Filled == FilledBy(memo, runner, cursor, hot)

\* Caller t, in a call of op at a stage with tbl as its table: it is the one who
\* fills a memo exactly inside its closure, and ensure_init's closure is where a
\* call other than fns goes through the others.
Place(b, m, r, t, op, stage, tbl) ==
  /\ stage = "load" <=> r["table"] = t
  /\ stage = "cuInit" <=> r["init"] = t
  /\ r["ensure"] = t =>
       /\ op # "fns" /\ b \in WithEnsure
       /\ stage \in {"hot", "table", "load", "init", "cuInit", "publish", "create"}
  /\ op = "fns" => b \in {"cuda", "rocm"} /\ stage # "ensure"
  /\ stage \in {"table", "load"} => b \notin Given
  /\ stage \in {"hot", "publish"} => b \in {"cuda", "rocm"}
  /\ stage \in {"init", "cuInit"} => b = "cuda"
  /\ stage \in {"ensure", "create"} => b \in WithEnsure
  /\ stage \in {"hot", "table", "load", "init", "cuInit", "publish"} =>
       b \notin {"cuda", "rocm"} \/ op = "fns" \/ r["ensure"] = t
  /\ stage \in {"init", "cuInit", "publish"} => tbl = m["table"] /\ There(m)
  /\ stage = "publish" => Initialised(b, m)
  /\ stage = "create" =>
       /\ r["ensure"] = t /\ tbl = m["table"] /\ tbl # Nil
       /\ tbl # Failed => Initialised(b, m)
  /\ stage = "done" /\ ~Needless(b, op) =>
       /\ tbl = m["table"] /\ There(m) /\ Initialised(b, m)
       /\ op # "fns" /\ b \in WithEnsure => m["ensure"] \notin {Nil, Failed}

Placed == \A t \in Callers : Place(backend, memo, runner, t, at[t].op, at[t].stage, table[t])

\* A table got is the one settled on, or stands for a failure.
GotAt(tbl) ==
  /\ tbl \in {Nil, Failed} \/ tbl = Chosen
  /\ tbl = Failed => Chosen = Failed \/ library[Chosen] = "broken"

Got == \A t \in Callers : GotAt(table[t])

LoadInv == LoadTypes /\ Filled /\ Placed /\ Got

\* The first name that is not passed over settles it.
LEMMA ChosenIs ==
  ASSUME NEW c \in 1 .. Candidates, Candidates \in Nat, Verdict(c) # "next",
         \A d \in 1 .. c - 1 : Verdict(d) = "next"
  PROVE  Chosen = IF Verdict(c) = "give up" THEN Failed ELSE c
<1> DEFINE decisive == {d \in 1 .. Candidates : Verdict(d) # "next"}
           first == CHOOSE d \in decisive : \A e \in decisive : d <= e
<1>1. c \in decisive
  OBVIOUS
<1>2. \A e \in decisive : c <= e
  <2> SUFFICES ASSUME NEW e \in 1 .. Candidates, Verdict(e) # "next"
               PROVE  c <= e
    OBVIOUS
  <2>1. ~(e \in 1 .. c - 1)
    OBVIOUS
  <2> QED
    BY <2>1
<1>3. decisive \subseteq Nat
  OBVIOUS
<1>4. Chosen = IF \/ decisive = {}
                  \/ first \in {d \in 1 .. Candidates : Verdict(d) = "give up"}
               THEN Failed ELSE first
  BY DEF Chosen
<1> HIDE DEF decisive
<1>5. first \in decisive /\ \A e \in decisive : first <= e
  BY <1>1, <1>2
<1> HIDE DEF first
<1>6. first = c
  BY <1>1, <1>2, <1>3, <1>5
<1> QED
  BY <1>1, <1>4, <1>6

LEMMA NoneChosen ==
  ASSUME \A d \in 1 .. Candidates : Verdict(d) = "next"
  PROVE  Chosen = Failed
<1>1. {d \in 1 .. Candidates : Verdict(d) # "next"} = {}
  OBVIOUS
<1> QED
  BY <1>1, Zenon DEF Chosen

LEMMA VerdictKinds ==
  ASSUME backend \in AllBackends \ Given, NEW c
  PROVE  Verdict(c) \in {"take", "next", "give up"}
BY DEF Verdict, AllBackends, Given, CudaLoad, HipLoad, VulkanEntry, Dx12Load, QnnLoadFor,
       LevelZeroLoad, NeuronLoad, TpuLoad, FpgaLoad

\* A library that is taken, and whose initialisation did not fail, is good.
LEMMA TakenGood ==
  ASSUME backend \in AllBackends \ Given, NEW c, library[c] \in Outcomes, Verdict(c) = "take",
         backend \in {"cuda", "rocm", "vulkan"} => library[c] # "broken"
  PROVE  library[c] = "good"
<1>1. CASE backend \in {"cuda", "rocm", "vulkan"}
  BY <1>1 DEF Verdict, CudaLoad, HipLoad, VulkanEntry, Outcomes, Given
<1>2. CASE backend \in {"dx12", "qnn"}
  BY <1>2 DEF Verdict, CudaLoad, Dx12Load, QnnLoadFor, Outcomes, Given
<1>3. CASE backend \in {"levelzero", "neuron", "tpu", "fpga"}
  BY <1>3 DEF Verdict, LevelZeroLoad, NeuronLoad, TpuLoad, FpgaLoad
<1> QED
  BY <1>1, <1>2, <1>3 DEF AllBackends, Given

\* The order of the names and what is found under them stay as they are.
LEMMA Kept ==
  ASSUME UNCHANGED <<backend, library>>
  PROVE  /\ \A c : Verdict(c)' = Verdict(c)
         /\ Chosen' = Chosen
         /\ Outcomes' = Outcomes
<1>1. \A c : Verdict(c)' = Verdict(c)
  BY DEF Verdict, CudaLoad, HipLoad, VulkanEntry, Dx12Load, QnnLoadFor, LevelZeroLoad,
         NeuronLoad, TpuLoad, FpgaLoad
<1>2. {d \in 1 .. Candidates : Verdict(d)' # "next"} = {d \in 1 .. Candidates : Verdict(d) # "next"}
  BY <1>1
<1>3. Chosen' = Chosen
  <2> DEFINE Least(D) == CHOOSE c \in D : \A d \in D : c <= d
             Pick(D, R) == IF D = {} \/ Least(D) \in R THEN Failed ELSE Least(D)
             decisive == {d \in 1 .. Candidates : Verdict(d) # "next"}
             refused == {d \in 1 .. Candidates : Verdict(d) = "give up"}
  <2>1. Chosen = Pick(decisive, refused)
    BY DEF Chosen
  <2>2. Chosen' = Pick(decisive', refused')
    BY DEF Chosen, Failed
  <2>3. decisive' = decisive /\ refused' = refused
    BY <1>1
  <2> HIDE DEF Pick, decisive, refused
  <2> QED
    BY <2>1, <2>2, <2>3
<1>4. Outcomes' = Outcomes
  BY DEF Outcomes
<1> QED
  BY <1>1, <1>3, <1>4

LEMMA ChosenType ==
  ASSUME NEW c \in 1 .. Candidates, Candidates \in Nat
  PROVE  c \in Nat /\ c # Failed /\ c # Nil /\ Failed # Nil /\ Failed \in Nat /\ 1 # Failed /\ 1 # Nil
BY LibraryLoadingAssumption DEF Failed
-----------------------------------------------------------------------------
(***************************************************************************)
(* The steps of a load.                                                    *)
(***************************************************************************)
\* Nobody else's place changes when a memo is filled or claimed.
LEMMA PlaceKept ==
  ASSUME NEW b, NEW m, NEW r, NEW n, NEW s, NEW t, NEW op, NEW stage, NEW tbl,
         Place(b, m, r, t, op, stage, tbl),
         \A g \in Once : m[g] # Nil => n[g] = m[g],
         \A g \in Once : s[g] = t <=> r[g] = t
  PROVE  Place(b, n, s, t, op, stage, tbl)
<1>1. /\ m["table"] # Nil => n["table"] = m["table"]
      /\ m["init"] # Nil => n["init"] = m["init"]
      /\ m["ensure"] # Nil => n["ensure"] = m["ensure"]
      /\ s["table"] = t <=> r["table"] = t
      /\ s["init"] = t <=> r["init"] = t
      /\ s["ensure"] = t <=> r["ensure"] = t
  BY DEF Once
<1>2. /\ There(m) => There(n) /\ n["table"] = m["table"]
      /\ Initialised(b, m) => Initialised(b, n)
  BY <1>1 DEF There, Initialised
<1> QED
  BY <1>1, <1>2 DEF Place

\* What is filled is said of the same candidates after a step.
LEMMA FilledPrimed ==
  ASSUME UNCHANGED <<backend, library>>, FilledBy(memo', runner', cursor', hot')
  PROVE  Filled'
<1>1. PICK m, r, n, h : m = memo' /\ r = runner' /\ n = cursor' /\ h = hot'
  OBVIOUS
<1>2. FilledBy(m, r, n, h)
  BY <1>1
<1>3. /\ \A c : Verdict(c)' = Verdict(c)
      /\ Chosen' = Chosen
  BY Kept
<1> QED
  BY <1>1, <1>2, <1>3 DEF Filled, FilledBy, Given

\* A step of one caller.
LEMMA OneStep ==
  ASSUME LoadInv, NEW t \in Callers, NEW call \in Calls,
         NEW tbl \in 0 .. Candidates \cup {Nil},
         UNCHANGED <<backend, library>>,
         at' = [at EXCEPT ![t] = call], table' = [table EXCEPT ![t] = tbl],
         memo' \in [Once -> 0 .. Candidates \cup {Nil}],
         runner' \in [Once -> Callers \cup {Nil}],
         cursor' \in 1 .. Candidates, hot' \in BOOLEAN,
         FilledBy(memo', runner', cursor', hot'),
         Place(backend, memo', runner', t, call.op, call.stage, tbl),
         GotAt(tbl),
         \A g \in Once : memo[g] # Nil => memo'[g] = memo[g],
         \A g \in Once : \A u \in Callers \ {t} : runner'[g] = u <=> runner[g] = u
  PROVE  LoadInv'
<1>1. LoadTypes /\ Placed /\ Got
  BY DEF LoadInv
<1>2. /\ at' \in [Callers -> Calls]
      /\ table' \in [Callers -> 0 .. Candidates \cup {Nil}]
      /\ \A u \in Callers : at'[u] = IF u = t THEN call ELSE at[u]
      /\ \A u \in Callers : table'[u] = IF u = t THEN tbl ELSE table[u]
  BY <1>1 DEF LoadTypes
<1>3. Outcomes' = Outcomes /\ Chosen' = Chosen
  BY Kept
<1>4. LoadTypes'
  BY <1>1, <1>2, <1>3, Zenon DEF LoadTypes, Stages, Calls
<1>5. Filled'
  BY FilledPrimed
<1>6. Placed'
  <2>1. PICK m, r, a, k : m = memo' /\ r = runner' /\ a = at' /\ k = table'
    OBVIOUS
  <2>2. ASSUME NEW u \in Callers
        PROVE  Place(backend, m, r, u, a[u].op, a[u].stage, k[u])
    <3>1. CASE u = t
      BY <1>2, <2>1, <3>1
    <3>2. CASE u # t
      <4>1. /\ Place(backend, memo, runner, u, at[u].op, at[u].stage, table[u])
            /\ a[u] = at[u] /\ k[u] = table[u]
        BY <1>1, <1>2, <2>1, <3>2 DEF Placed
      <4>2. \A g \in Once : r[g] = u <=> runner[g] = u
        BY <2>1, <3>2
      <4>3. Place(backend, m, r, u, at[u].op, at[u].stage, table[u])
        BY <2>1, <4>1, <4>2, PlaceKept
      <4> QED
        BY <4>1, <4>3
    <3> QED
      BY <3>1, <3>2
  <2> QED
    BY <2>1, <2>2 DEF Placed
<1>7. Got'
  <2>1. PICK k : k = table'
    OBVIOUS
  <2>2. \A u \in Callers : GotAt(k[u])
    BY <1>1, <1>2, <2>1 DEF Got
  <2> QED
    BY <1>3, <2>1, <2>2 DEF Got, GotAt
<1> QED
  BY <1>4, <1>5, <1>6, <1>7 DEF LoadInv

\* A caller goes on, and the memos stay.
LEMMA MoveStep ==
  ASSUME LoadInv, NEW t \in Callers, NEW call \in Calls,
         NEW tbl \in 0 .. Candidates \cup {Nil},
         UNCHANGED <<backend, library, memo, runner, cursor>>,
         at' = [at EXCEPT ![t] = call], table' = [table EXCEPT ![t] = tbl],
         hot' = hot \/ (/\ hot' = TRUE /\ backend \in {"cuda", "rocm"}
                        /\ There(memo) /\ Initialised(backend, memo)),
         Place(backend, memo, runner, t, call.op, call.stage, tbl),
         GotAt(tbl)
  PROVE  LoadInv'
<1>1. LoadTypes /\ Filled
  BY DEF LoadInv
<1>2. FilledBy(memo, runner, cursor, hot')
  BY <1>1 DEF Filled, FilledBy
<1>3. PICK m, r, n : /\ m = memo' /\ r = runner' /\ n = cursor'
                     /\ m = memo /\ r = runner /\ n = cursor
  OBVIOUS
<1>4. FilledBy(memo', runner', cursor', hot')
  <2>1. FilledBy(m, r, n, hot')
    BY <1>2, <1>3
  <2> QED
    BY <1>3, <2>1
<1>5. Place(backend, memo', runner', t, call.op, call.stage, tbl)
  <2>1. Place(backend, m, r, t, call.op, call.stage, tbl)
    BY <1>3
  <2> QED
    BY <1>3, <2>1
<1>6. /\ memo' \in [Once -> 0 .. Candidates \cup {Nil}]
      /\ runner' \in [Once -> Callers \cup {Nil}]
      /\ cursor' \in 1 .. Candidates /\ hot' \in BOOLEAN
  BY <1>1 DEF LoadTypes
<1> QED
  BY <1>4, <1>5, <1>6, OneStep

\* A call at a stage.
Moved(t, stage) == [op |-> at[t].op, ordinal |-> at[t].ordinal, stage |-> stage]

LEMMA GoesIs ==
  ASSUME LoadTypes, NEW t \in Callers, NEW stage \in Stages, Goes(t, stage)
  PROVE  /\ at' = [at EXCEPT ![t] = Moved(t, stage)] /\ Moved(t, stage) \in Calls
         /\ Moved(t, stage).op = at[t].op /\ Moved(t, stage).stage = stage
<1>1. at \in [Callers -> Calls] /\ at[t] \in [op : Ops, ordinal : Nat, stage : Stages]
  BY DEF LoadTypes, Calls
<1>2. [at[t] EXCEPT !.stage = stage] = Moved(t, stage)
  BY <1>1 DEF Moved
<1>3. at' = [at EXCEPT ![t] = [at[t] EXCEPT !.stage = stage]]
  BY DEF Goes
<1>4. /\ Moved(t, stage) \in [op : Ops, ordinal : Nat, stage : Stages]
      /\ Moved(t, stage).op = at[t].op /\ Moved(t, stage).stage = stage
  BY <1>1 DEF Moved
<1> QED
  BY <1>2, <1>3, <1>4 DEF Calls

\* What the invariant says of one caller.
LEMMA Here ==
  ASSUME LoadInv, NEW t \in Callers
  PROVE  /\ LoadTypes /\ Filled /\ backend \in AllBackends
         /\ Place(backend, memo, runner, t, at[t].op, at[t].stage, table[t])
         /\ GotAt(table[t]) /\ at[t] \in Calls /\ at[t].op \in Ops
         /\ table[t] \in 0 .. Candidates \cup {Nil}
         /\ table = [table EXCEPT ![t] = table[t]]
<1>1. LoadTypes /\ Filled /\ Placed /\ Got
  BY DEF LoadInv
<1>2. at[t] \in [op : Ops, ordinal : Nat, stage : Stages]
  BY <1>1 DEF LoadTypes, Calls
<1> QED
  BY <1>1, <1>2, LibraryLoadingAssumption DEF LoadTypes, Placed, Got, Calls

\* At rest nobody fills anything.
LEMMA OutPlace ==
  ASSUME NEW b, NEW m, NEW r, NEW t, NEW tbl,
         \A g \in Once : r[g] # t
  PROVE  Out \in Calls /\ Out.op = "none" /\ Out.stage = "out"
         /\ Place(b, m, r, t, Out.op, Out.stage, tbl)
<1>1. Out.op = "none" /\ Out.stage = "out" /\ Out \in Calls
  BY DEF Out, Calls, Ops, Stages
<1>2. r["table"] # t /\ r["init"] # t /\ r["ensure"] # t
  BY DEF Once
<1> QED
  BY <1>1, <1>2 DEF Place

LEMMA EnterStep ==
  ASSUME LoadInv, NEW t \in Callers, NEW op \in Ops \ {"none", "capabilities"}, NEW o \in Nat,
         op = "fns" => backend \in {"cuda", "rocm"}, Enter(t, op, o)
  PROVE  LoadInv'
<1> DEFINE call == [op |-> op, ordinal |-> o, stage |-> Start(op)]
<1>1. /\ LoadTypes /\ backend \in AllBackends
      /\ Place(backend, memo, runner, t, at[t].op, at[t].stage, table[t])
  BY Here
<1>2. /\ at[t] = Out /\ at' = [at EXCEPT ![t] = call] /\ table' = [table EXCEPT ![t] = Nil]
      /\ UNCHANGED <<backend, library, memo, runner, cursor, hot>>
  BY DEF Enter
<1>3. at[t].stage = "out"
  BY <1>2 DEF Out
<1>4. runner["table"] # t /\ runner["init"] # t /\ runner["ensure"] # t
  BY <1>1, <1>3 DEF Place
<1>5. /\ Start(op) \in {"hot", "ensure", "table", "done"}
      /\ Start(op) = "hot" => backend \in {"cuda", "rocm"} /\ op = "fns"
      /\ Start(op) = "ensure" => backend \in WithEnsure /\ op # "fns"
      /\ Start(op) = "table" => backend \notin Given /\ backend \notin {"cuda", "rocm"}
      /\ Start(op) = "done" => Needless(backend, op)
  BY DEF Start, Needless, WithEnsure, Given
<1>6. call \in Calls /\ call.op = op /\ call.stage = Start(op)
  BY <1>5 DEF Calls, Stages
<1>7. Place(backend, memo, runner, t, op, Start(op), Nil)
  BY <1>4, <1>5 DEF Place
<1>8. GotAt(Nil)
  BY LibraryLoadingAssumption DEF GotAt, Failed
<1> HIDE DEF call
<1>9. Place(backend, memo, runner, t, call.op, call.stage, Nil)
  BY <1>6, <1>7
<1> QED
  BY <1>2, <1>6, <1>8, <1>9, MoveStep

\* A call ends.
LEMMA LeavesStep ==
  ASSUME LoadInv, NEW t \in Callers, Leaves(t),
         at[t].stage \in {"table", "ensure", "done"}, runner["ensure"] # t,
         UNCHANGED <<backend, library, memo, runner, cursor, hot>>,
         NEW tbl \in 0 .. Candidates \cup {Nil},
         GotAt(tbl), table' = [table EXCEPT ![t] = tbl]
  PROVE  LoadInv'
<1>1. Place(backend, memo, runner, t, at[t].op, at[t].stage, table[t])
  BY Here
<1>2. runner["table"] # t /\ runner["init"] # t
  BY <1>1 DEF Place
<1>3. \A g \in Once : runner[g] # t
  BY <1>2 DEF Once
<1>4. Out \in Calls /\ Place(backend, memo, runner, t, Out.op, Out.stage, tbl)
  BY <1>3, OutPlace
<1>5. at' = [at EXCEPT ![t] = Out]
  BY DEF Leaves
<1> QED
  BY <1>4, <1>5, MoveStep

\* A caller goes on to another stage of its call.
LEMMA OnwardStep ==
  ASSUME LoadInv, NEW t \in Callers, NEW stage \in Stages, Goes(t, stage),
         NEW tbl \in 0 .. Candidates \cup {Nil},
         UNCHANGED <<backend, library, memo, runner, cursor>>,
         table' = [table EXCEPT ![t] = tbl],
         hot' = hot \/ (/\ hot' = TRUE /\ backend \in {"cuda", "rocm"}
                        /\ There(memo) /\ Initialised(backend, memo)),
         Place(backend, memo, runner, t, at[t].op, stage, tbl),
         GotAt(tbl)
  PROVE  LoadInv'
<1>1. LoadTypes
  BY DEF LoadInv
<1>2. PICK call \in Calls : /\ call.op = at[t].op /\ call.stage = stage
                            /\ at' = [at EXCEPT ![t] = call]
  BY <1>1, GoesIs
<1>3. Place(backend, memo, runner, t, call.op, call.stage, tbl)
  BY <1>2
<1> QED
  BY <1>2, <1>3, MoveStep

\* The table in the memo is one a caller may get.
LEMMA MemoGot ==
  ASSUME LoadTypes, Filled, memo["table"] # Nil
  PROVE  memo["table"] \in 0 .. Candidates \cup {Nil} /\ GotAt(memo["table"])
BY DEF LoadTypes, Filled, FilledBy, GotAt, Once

LEMMA LookHotStep ==
  ASSUME LoadInv, NEW t \in Callers, LookHot(t)
  PROVE  LoadInv'
<1>1. /\ LoadTypes /\ Filled /\ GotAt(table[t])
      /\ table[t] \in 0 .. Candidates \cup {Nil} /\ table = [table EXCEPT ![t] = table[t]]
      /\ Place(backend, memo, runner, t, at[t].op, at[t].stage, table[t])
  BY Here
<1>2. at[t].stage = "hot" /\ UNCHANGED <<backend, library, memo, runner, cursor, hot>>
  BY DEF LookHot
<1>3. CASE hot
  <2>1. /\ Goes(t, After(t, "hot")) /\ table' = [table EXCEPT ![t] = memo["table"]]
    BY <1>3 DEF LookHot
  <2>2. There(memo) /\ Initialised(backend, memo) /\ memo["table"] # Nil
    BY <1>1, <1>3 DEF Filled, FilledBy, There
  <2>3. /\ After(t, "hot") \in Stages
        /\ After(t, "hot") = IF runner["ensure"] = t THEN "create" ELSE "done"
    BY DEF After, Stages, Inside
  <2>4. Place(backend, memo, runner, t, at[t].op, After(t, "hot"), memo["table"])
    <3>1. CASE runner["ensure"] = t
      BY <1>1, <1>2, <2>2, <2>3, <3>1 DEF Place, WithEnsure
    <3>2. CASE runner["ensure"] # t
      BY <1>1, <1>2, <2>2, <2>3, <3>2 DEF Place, WithEnsure
    <3> QED
      BY <3>1, <3>2
  <2> QED
    BY <1>1, <1>2, <2>1, <2>2, <2>3, <2>4, MemoGot, OnwardStep
<1>4. CASE ~hot
  <2>1. Goes(t, "table") /\ table' = [table EXCEPT ![t] = table[t]] /\ "table" \in Stages
    BY <1>1, <1>4 DEF LookHot, Stages
  <2>2. Place(backend, memo, runner, t, at[t].op, "table", table[t])
    BY <1>1, <1>2 DEF Place, Given
  <2> QED
    BY <1>1, <1>2, <2>1, <2>2, OnwardStep
<1> QED
  BY <1>3, <1>4

LEMMA TakeTableStep ==
  ASSUME LoadInv, NEW t \in Callers, TakeTable(t)
  PROVE  LoadInv'
<1>1. /\ LoadTypes /\ Filled
      /\ Place(backend, memo, runner, t, at[t].op, at[t].stage, table[t])
  BY Here
<1>2. /\ at[t].stage = "table" /\ memo["table"] # Nil
      /\ table' = [table EXCEPT ![t] = memo["table"]]
      /\ UNCHANGED <<backend, library, memo, runner, cursor, hot>>
  BY DEF TakeTable
<1>3. memo["table"] \in 0 .. Candidates \cup {Nil} /\ GotAt(memo["table"])
  BY <1>1, <1>2, MemoGot
<1>4. CASE memo["table"] # Failed /\ Goes(t, After(t, "table"))
  <2>1. There(memo)
    BY <1>2, <1>4 DEF There
  <2>2. /\ After(t, "table") \in Stages
        /\ After(t, "table") = CASE backend = "cuda" -> "init"
                                 [] backend = "rocm" -> "publish"
                                 [] backend = "vulkan" /\ runner["ensure"] # t -> "ensure"
                                 [] OTHER -> IF runner["ensure"] = t THEN "create" ELSE "done"
    BY DEF After, Stages, Inside
  <2>3. Place(backend, memo, runner, t, at[t].op, After(t, "table"), memo["table"])
    <3>1. CASE backend = "cuda"
      BY <1>1, <1>2, <2>1, <2>2, <3>1 DEF Place
    <3>2. CASE backend = "rocm"
      BY <1>1, <1>2, <2>1, <2>2, <3>2 DEF Place, Initialised
    <3>3. CASE backend \notin {"cuda", "rocm"} /\ runner["ensure"] = t
      BY <1>1, <1>2, <2>1, <2>2, <3>3 DEF Place, Initialised
    <3>4. CASE backend = "vulkan" /\ runner["ensure"] # t
      BY <1>1, <1>2, <2>1, <2>2, <3>4 DEF Place, WithEnsure
    <3>5. CASE backend \notin WithEnsure /\ runner["ensure"] # t
      BY <1>1, <1>2, <2>1, <2>2, <3>5 DEF Place, WithEnsure, Initialised
    <3> QED
      BY <3>1, <3>2, <3>3, <3>4, <3>5 DEF WithEnsure
  <2> QED
    BY <1>2, <1>3, <1>4, <2>2, <2>3, OnwardStep
<1>5. CASE memo["table"] = Failed /\ Inside(t) /\ Goes(t, "create")
  <2>1. "create" \in Stages /\ runner["ensure"] = t
    BY <1>5 DEF Stages, Inside
  <2>2. Place(backend, memo, runner, t, at[t].op, "create", memo["table"])
    BY <1>1, <1>2, <1>5, <2>1 DEF Place
  <2> QED
    BY <1>2, <1>3, <1>5, <2>1, <2>2, OnwardStep
<1>6. CASE memo["table"] = Failed /\ ~Inside(t) /\ Leaves(t)
  BY <1>2, <1>3, <1>6, LeavesStep DEF Inside
<1> QED
  BY <1>4, <1>5, <1>6 DEF TakeTable

LEMMA PassInitStep ==
  ASSUME LoadInv, NEW t \in Callers, PassInit(t)
  PROVE  LoadInv'
<1>1. /\ LoadTypes /\ GotAt(table[t])
      /\ table[t] \in 0 .. Candidates \cup {Nil} /\ table = [table EXCEPT ![t] = table[t]]
      /\ Place(backend, memo, runner, t, at[t].op, at[t].stage, table[t])
  BY Here
<1>2. /\ at[t].stage = "init" /\ memo["init"] # Nil /\ Goes(t, "publish")
      /\ UNCHANGED <<backend, library, memo, runner, cursor, hot>>
      /\ table' = [table EXCEPT ![t] = table[t]] /\ "publish" \in Stages
  BY <1>1 DEF PassInit, After, Stages
<1>3. Place(backend, memo, runner, t, at[t].op, "publish", table[t])
  BY <1>1, <1>2 DEF Place, Initialised
<1> QED
  BY <1>1, <1>2, <1>3, OnwardStep

LEMMA PublishStep ==
  ASSUME LoadInv, NEW t \in Callers, Publish(t)
  PROVE  LoadInv'
<1>1. /\ LoadTypes /\ GotAt(table[t])
      /\ table[t] \in 0 .. Candidates \cup {Nil} /\ table = [table EXCEPT ![t] = table[t]]
      /\ Place(backend, memo, runner, t, at[t].op, at[t].stage, table[t])
  BY Here
<1>2. /\ at[t].stage = "publish" /\ hot' = TRUE /\ Goes(t, After(t, "publish"))
      /\ UNCHANGED <<backend, library, memo, runner, cursor>>
      /\ table' = [table EXCEPT ![t] = table[t]]
  BY <1>1 DEF Publish
<1>3. /\ After(t, "publish") \in Stages
      /\ After(t, "publish") = IF runner["ensure"] = t THEN "create" ELSE "done"
  BY DEF After, Stages, Inside
<1>4. /\ backend \in {"cuda", "rocm"} /\ table[t] = memo["table"]
      /\ There(memo) /\ Initialised(backend, memo)
  BY <1>1, <1>2 DEF Place
<1>5. Place(backend, memo, runner, t, at[t].op, After(t, "publish"), table[t])
  <2>1. CASE runner["ensure"] = t
    BY <1>1, <1>2, <1>3, <1>4, <2>1 DEF Place, WithEnsure, There
  <2>2. CASE runner["ensure"] # t
    BY <1>1, <1>2, <1>3, <1>4, <2>2 DEF Place, WithEnsure
  <2> QED
    BY <2>1, <2>2
<1> QED
  BY <1>1, <1>2, <1>3, <1>4, <1>5, OnwardStep

LEMMA PassEnsureStep ==
  ASSUME LoadInv, NEW t \in Callers, PassEnsure(t)
  PROVE  LoadInv'
<1>1. /\ LoadTypes /\ Filled
      /\ Place(backend, memo, runner, t, at[t].op, at[t].stage, table[t])
  BY Here
<1>2. /\ at[t].stage = "ensure" /\ memo["ensure"] # Nil
      /\ UNCHANGED <<backend, library, memo, runner, cursor, hot>>
  BY DEF PassEnsure
<1>3. runner["ensure"] # t
  BY <1>1, <1>2 DEF Place
<1>4. CASE memo["ensure"] = Failed /\ table' = [table EXCEPT ![t] = Failed] /\ Leaves(t)
  <2>1. GotAt(Failed)
    BY <1>1, <1>4 DEF Filled, FilledBy, GotAt
  <2>2. Failed \in 0 .. Candidates \cup {Nil}
    BY LibraryLoadingAssumption DEF Failed
  <2> QED
    BY <1>2, <1>3, <1>4, <2>1, <2>2, LeavesStep
<1>5. CASE /\ memo["ensure"] # Failed
           /\ table' = [table EXCEPT ![t] = memo["table"]] /\ Goes(t, "done")
  <2>1. There(memo) /\ Initialised(backend, memo) /\ memo["table"] # Nil
    BY <1>1, <1>2, <1>5 DEF Filled, FilledBy, There
  <2>2. "done" \in Stages
    BY DEF Stages
  <2>3. Place(backend, memo, runner, t, at[t].op, "done", memo["table"])
    BY <1>1, <1>2, <1>3, <1>5, <2>1 DEF Place
  <2> QED
    BY <1>1, <1>2, <1>5, <2>1, <2>2, <2>3, MemoGot, OnwardStep
<1> QED
  BY <1>4, <1>5 DEF PassEnsure

LEMMA ReturnStep ==
  ASSUME LoadInv, NEW t \in Callers, Ready(t), Leaves(t),
         UNCHANGED <<backend, library, memo, runner, cursor, hot, table>>
  PROVE  LoadInv'
<1>1. /\ GotAt(table[t]) /\ table[t] \in 0 .. Candidates \cup {Nil}
      /\ table = [table EXCEPT ![t] = table[t]]
      /\ Place(backend, memo, runner, t, at[t].op, at[t].stage, table[t])
  BY Here
<1>2. at[t].stage = "done" /\ runner["ensure"] # t
  BY <1>1 DEF Ready, Place
<1>3. table' = [table EXCEPT ![t] = table[t]]
  BY <1>1
<1> QED
  BY <1>1, <1>2, <1>3, LeavesStep

\* The memos of other names are what they were.
LEMMA ClaimStep ==
  ASSUME LoadInv, NEW t \in Callers, NEW g \in Once, Claim(t, g)
  PROVE  LoadInv'
<1> DEFINE r == [runner EXCEPT ![g] = t]
           n == IF g = "table" THEN 1 ELSE cursor
<1>1. /\ LoadTypes /\ Filled /\ GotAt(table[t]) /\ backend \in AllBackends
      /\ table[t] \in 0 .. Candidates \cup {Nil} /\ table = [table EXCEPT ![t] = table[t]]
      /\ Place(backend, memo, runner, t, at[t].op, at[t].stage, table[t])
  BY Here
<1>2. /\ at[t].stage = g /\ memo[g] = Nil /\ runner[g] = Nil /\ Goes(t, Body(g))
      /\ runner' = r /\ cursor' = n /\ UNCHANGED <<backend, library, memo, hot, table>>
  BY DEF Claim
<1>3. /\ r \in [Once -> Callers \cup {Nil}]
      /\ \A f \in Once : r[f] = IF f = g THEN t ELSE runner[f]
      /\ n \in 1 .. Candidates
  BY <1>1, LibraryLoadingAssumption DEF LoadTypes
<1>4. FilledBy(memo, r, n, hot)
  <2>1. \A f \in Once : memo[f] # Nil => r[f] = Nil
    BY <1>1, <1>2, <1>3 DEF Filled, FilledBy
  <2>2. r["table"] # Nil => backend \notin Given /\ \A c \in 1 .. n - 1 : Verdict(c) = "next"
    <3>1. CASE g = "table"
      <4>1. backend \notin Given
        BY <1>1, <1>2, <3>1 DEF Place
      <4> QED
        BY <3>1, <4>1
    <3>2. CASE g # "table"
      <4>1. r["table"] = runner["table"] /\ n = cursor
        BY <1>3, <3>2 DEF Once
      <4> QED
        BY <1>1, <4>1 DEF Filled, FilledBy
    <3> QED
      BY <3>1, <3>2
  <2> HIDE DEF r, n
  <2> QED
    BY <1>1, <2>1, <2>2 DEF Filled, FilledBy
<1>5. /\ Body(g) \in Stages
      /\ g = "table" => Body(g) = "load"
      /\ g = "init" => Body(g) = "cuInit"
      /\ g = "ensure" => Body(g) = IF backend = "vulkan" THEN "table" ELSE "hot"
  BY DEF Body, Stages, Once
<1>6. /\ r["table"] = t <=> g = "table"
      /\ r["init"] = t <=> g = "init"
      /\ r["ensure"] = t <=> g = "ensure" \/ runner["ensure"] = t
  <2>1. runner["table"] # t /\ runner["init"] # t
    BY <1>1, <1>2 DEF Place, Once
  <2> QED
    BY <1>3, <2>1 DEF Once
<1> HIDE DEF r, n
<1>7. Place(backend, memo, r, t, at[t].op, Body(g), table[t])
  <2>1. CASE g = "table"
    BY <1>1, <1>2, <1>5, <1>6, <2>1 DEF Place
  <2>2. CASE g = "init"
    BY <1>1, <1>2, <1>5, <1>6, <2>2 DEF Place
  <2>3. CASE g = "ensure"
    <3>1. /\ at[t].op # "fns" /\ backend \in WithEnsure
      BY <1>1, <1>2, <2>3 DEF Place
    <3> QED
      BY <1>5, <1>6, <2>3, <3>1 DEF Place, WithEnsure, Given
  <2> QED
    BY <2>1, <2>2, <2>3 DEF Once
<1>8. PICK call \in Calls : /\ call.op = at[t].op /\ call.stage = Body(g)
                            /\ at' = [at EXCEPT ![t] = call]
  BY <1>1, <1>2, <1>5, GoesIs
<1>9. /\ FilledBy(memo', runner', cursor', hot')
      /\ Place(backend, memo', runner', t, call.op, call.stage, table[t])
  <2>1. PICK m, k, i, h : /\ m = memo' /\ k = runner' /\ i = cursor' /\ h = hot'
                          /\ m = memo /\ k = r /\ i = n /\ h = hot
    BY <1>2
  <2>2. FilledBy(m, k, i, h) /\ Place(backend, m, k, t, call.op, call.stage, table[t])
    BY <1>4, <1>7, <1>8, <2>1
  <2> QED
    BY <2>1, <2>2
<1>10. \A f \in Once : \A u \in Callers \ {t} : runner'[f] = u <=> runner[f] = u
  <2>1. \A u \in Callers : u # Nil
    BY LibraryLoadingAssumption
  <2> QED
    BY <1>2, <1>3, <2>1
<1>11. /\ memo' \in [Once -> 0 .. Candidates \cup {Nil}]
       /\ runner' \in [Once -> Callers \cup {Nil}]
       /\ cursor' \in 1 .. Candidates /\ hot' \in BOOLEAN
       /\ table' = [table EXCEPT ![t] = table[t]]
  BY <1>1, <1>2, <1>3 DEF LoadTypes
<1> QED
  BY <1>1, <1>2, <1>8, <1>9, <1>10, <1>11, OneStep

\* The closure of a memo ends, in the thread that fills it.
LEMMA SettleStep ==
  ASSUME LoadInv, NEW t \in Callers, NEW g \in Once, NEW value \in 0 .. Candidates,
         Settle(t, g, value), runner[g] = t,
         at[t].stage = "load" \/ at[t].stage = "cuInit" \/ at[t].stage = "create",
         at[t].stage = "load" <=> g = "table", at[t].stage = "cuInit" <=> g = "init",
         g = "table" => value = Chosen /\ (value # Failed => Verdict(value) = "take"),
         g = "ensure" => /\ table[t] = Failed \/ library[table[t]] = "broken" => value = Failed
                         /\ ~(table[t] = Failed \/ library[table[t]] = "broken") => value # Failed
  PROVE  LoadInv'
<1> DEFINE m == [memo EXCEPT ![g] = value]
           r == [runner EXCEPT ![g] = Nil]
<1>1. /\ LoadTypes /\ Filled /\ GotAt(table[t]) /\ backend \in AllBackends
      /\ table[t] \in 0 .. Candidates \cup {Nil} /\ table = [table EXCEPT ![t] = table[t]]
      /\ Place(backend, memo, runner, t, at[t].op, at[t].stage, table[t])
  BY Here
<1>2. /\ memo' = m /\ runner' = r /\ Goes(t, g)
      /\ UNCHANGED <<backend, library, cursor, hot, table>>
  BY DEF Settle
<1>3. /\ r \in [Once -> Callers \cup {Nil}] /\ m \in [Once -> 0 .. Candidates \cup {Nil}]
      /\ \A f \in Once : r[f] = IF f = g THEN Nil ELSE runner[f]
      /\ \A f \in Once : m[f] = IF f = g THEN value ELSE memo[f]
  BY <1>1 DEF LoadTypes
<1>4. t # Nil /\ value # Nil /\ Failed # Nil
  <2>1. value \in Nat /\ Failed \in Nat
    BY LibraryLoadingAssumption DEF Failed
  <2> QED
    BY <2>1, LibraryLoadingAssumption
<1>5. memo[g] = Nil
  BY <1>1, <1>4 DEF Filled, FilledBy
<1> HIDE DEF m, r
<1>6. /\ \A f \in Once : memo[f] # Nil => m[f] = memo[f]
      /\ memo["table"] # Nil => m["table"] = memo["table"]
      /\ memo["init"] # Nil => m["init"] = memo["init"]
      /\ memo["ensure"] # Nil => m["ensure"] = memo["ensure"]
  BY <1>3, <1>5 DEF Once
<1>7. /\ There(memo) => There(m) /\ m["table"] = memo["table"]
      /\ Initialised(backend, memo) => Initialised(backend, m)
  BY <1>6 DEF There, Initialised
<1>8. FilledBy(m, r, cursor, hot)
  <2>1. \A f \in Once : m[f] # Nil => r[f] = Nil
    BY <1>1, <1>3 DEF Filled, FilledBy
  <2>2. /\ r["table"] # Nil => r["table"] = runner["table"]
        /\ m["table"] # Nil => m["table"] = Chosen
        /\ There(m) => Verdict(m["table"]) = "take"
    BY <1>1, <1>3 DEF Filled, FilledBy, Once, There
  <2>3. CASE g = "ensure"
    <3>1. /\ m["ensure"] = value /\ table[t] = memo["table"] /\ table[t] # Nil
          /\ m["table"] = table[t] /\ m["init"] = memo["init"]
          /\ table[t] # Failed => Initialised(backend, memo)
      BY <1>1, <1>3, <2>3 DEF Place, Once
    <3> QED
      BY <1>1, <1>4, <1>7, <2>1, <2>2, <2>3, <3>1 DEF Filled, FilledBy, There
  <2>4. CASE g # "ensure"
    <3>1. m["ensure"] = memo["ensure"]
      BY <1>3, <2>4 DEF Once
    <3> QED
      BY <1>1, <1>4, <1>6, <1>7, <2>1, <2>2, <3>1 DEF Filled, FilledBy, There
  <2> QED
    BY <2>3, <2>4
<1>9. /\ r["table"] # t /\ r["init"] # t
      /\ r["ensure"] = t <=> g # "ensure" /\ runner["ensure"] = t
  <2>1. /\ g # "table" => runner["table"] # t
        /\ g # "init" => runner["init"] # t
    BY <1>1 DEF Place
  <2> QED
    BY <1>3, <1>4, <2>1 DEF Once
<1>10. Place(backend, m, r, t, at[t].op, g, table[t])
  <2>1. CASE g = "table"
    BY <1>1, <1>9, <2>1 DEF Place
  <2>2. CASE g = "init"
    BY <1>1, <1>7, <1>9, <2>2 DEF Place
  <2>3. CASE g = "ensure"
    BY <1>1, <1>9, <2>3 DEF Place
  <2> QED
    BY <2>1, <2>2, <2>3 DEF Once
<1>11. g \in Stages
  BY DEF Once, Stages
<1>12. PICK call \in Calls : /\ call.op = at[t].op /\ call.stage = g
                             /\ at' = [at EXCEPT ![t] = call]
  BY <1>1, <1>2, <1>11, GoesIs
<1>13. /\ FilledBy(memo', runner', cursor', hot')
       /\ Place(backend, memo', runner', t, call.op, call.stage, table[t])
  <2>1. PICK n, k, i, h : /\ n = memo' /\ k = runner' /\ i = cursor' /\ h = hot'
                          /\ n = m /\ k = r /\ i = cursor /\ h = hot
    BY <1>2
  <2>2. FilledBy(n, k, i, h) /\ Place(backend, n, k, t, call.op, call.stage, table[t])
    BY <1>8, <1>10, <1>12, <2>1
  <2> QED
    BY <2>1, <2>2
<1>14. \A f \in Once : \A u \in Callers \ {t} : runner'[f] = u <=> runner[f] = u
  <2>1. \A u \in Callers : u # Nil
    BY LibraryLoadingAssumption
  <2> QED
    BY <1>2, <1>3, <2>1
<1>15. /\ memo' \in [Once -> 0 .. Candidates \cup {Nil}]
       /\ runner' \in [Once -> Callers \cup {Nil}]
       /\ cursor' \in 1 .. Candidates /\ hot' \in BOOLEAN
       /\ table' = [table EXCEPT ![t] = table[t]]
       /\ \A f \in Once : memo[f] # Nil => memo'[f] = memo[f]
  BY <1>1, <1>2, <1>3, <1>6 DEF LoadTypes
<1> QED
  BY <1>1, <1>2, <1>12, <1>13, <1>14, <1>15, OneStep

LEMMA TryStep ==
  ASSUME LoadInv, NEW t \in Callers, TryCandidate(t)
  PROVE  LoadInv'
<1>1. /\ LoadTypes /\ Filled /\ backend \in AllBackends
      /\ Place(backend, memo, runner, t, at[t].op, at[t].stage, table[t])
  BY Here
<1>2. at[t].stage = "load"
  BY DEF TryCandidate
<1>3. /\ runner["table"] = t /\ backend \notin Given /\ t # Nil
      /\ \A c \in 1 .. cursor - 1 : Verdict(c) = "next"
  <2>1. runner["table"] = t /\ backend \notin Given
    BY <1>1, <1>2 DEF Place
  <2>2. t # Nil
    BY LibraryLoadingAssumption
  <2> QED
    BY <1>1, <2>1, <2>2 DEF Filled, FilledBy
<1>4. /\ cursor \in 1 .. Candidates /\ Candidates \in Nat
      /\ Verdict(cursor) \in {"take", "next", "give up"}
  BY <1>1, <1>3, VerdictKinds, LibraryLoadingAssumption DEF LoadTypes
<1>5. "table" \in Once /\ Failed \in 0 .. Candidates /\ cursor \in 0 .. Candidates /\ cursor # Failed
  <2>1. cursor \in 1 .. Candidates /\ Candidates \in Nat
    BY <1>4
  <2> QED
    BY <2>1 DEF Once, Failed
<1>6. CASE Verdict(cursor) = "take"
  <2>1. Settle(t, "table", cursor)
    BY <1>6 DEF TryCandidate
  <2>2. Chosen = cursor
    BY <1>3, <1>4, <1>6, ChosenIs
  <2> QED
    BY <1>2, <1>3, <1>5, <1>6, <2>1, <2>2, SettleStep
<1>7. CASE Verdict(cursor) = "next" /\ cursor < Candidates
  <2>1. /\ cursor' = cursor + 1
        /\ UNCHANGED <<backend, library, memo, runner, hot, at, table>>
    BY <1>7 DEF TryCandidate
  <2>2. cursor \in Nat /\ cursor' - 1 = cursor
    <3>1. cursor \in 1 .. Candidates /\ Candidates \in Nat
      BY <1>4
    <3>2. cursor \in Nat
      BY <3>1
    <3> QED
      BY <2>1, <3>2
  <2>3. /\ cursor' \in 1 .. Candidates
        /\ \A c \in 1 .. cursor' - 1 : Verdict(c) = "next"
    <3>1. ASSUME NEW c \in 1 .. cursor' - 1 PROVE Verdict(c) = "next"
      <4>1. c \in 1 .. cursor - 1 \/ c = cursor
        <5>1. c \in 1 .. cursor
          BY <2>2
        <5> QED
          BY <2>2, <5>1
      <4> QED
        BY <1>3, <1>7, <4>1
    <3> QED
      BY <1>4, <1>7, <2>1, <3>1
  <2>4. FilledBy(memo, runner, cursor', hot)
    BY <1>1, <1>3, <2>3 DEF Filled, FilledBy
  <2>5. FilledBy(memo', runner', cursor', hot')
    <3>1. PICK m, r, n, h : /\ m = memo' /\ r = runner' /\ n = cursor' /\ h = hot'
                            /\ m = memo /\ r = runner /\ h = hot
      BY <2>1
    <3>2. FilledBy(m, r, n, h)
      BY <2>4, <3>1
    <3> QED
      BY <3>1, <3>2
  <2>6. Filled'
    BY <2>1, <2>5, FilledPrimed
  <2>7. LoadTypes' /\ Got' /\ Placed'
    <3>1. Outcomes' = Outcomes /\ Chosen' = Chosen
      BY <2>1, Kept
    <3>2. LoadTypes'
      BY <1>1, <2>1, <2>3, <3>1, Zenon DEF LoadTypes, Calls, Stages
    <3>3. Got'
      BY <2>1, <3>1 DEF LoadInv, Got, GotAt
    <3>4. Placed'
      <4>1. PICK b, m, r, a, k : /\ b = backend /\ m = memo /\ r = runner /\ a = at /\ k = table
                                 /\ b = backend' /\ m = memo' /\ r = runner' /\ a = at' /\ k = table'
        BY <2>1
      <4>2. \A u \in Callers : Place(b, m, r, u, a[u].op, a[u].stage, k[u])
        BY <4>1 DEF LoadInv, Placed
      <4> QED
        BY <4>1, <4>2 DEF Placed
    <3> QED
      BY <3>2, <3>3, <3>4
  <2> QED
    BY <2>6, <2>7 DEF LoadInv
<1>8. CASE /\ Verdict(cursor) # "take"
           /\ ~(Verdict(cursor) = "next" /\ cursor < Candidates)
  <2>1. Settle(t, "table", Failed)
    BY <1>8 DEF TryCandidate
  <2>2. Chosen = Failed
    <3>1. CASE Verdict(cursor) = "give up"
      BY <1>3, <1>4, <3>1, ChosenIs
    <3>2. CASE Verdict(cursor) = "next"
      <4>1. cursor = Candidates
        BY <1>4, <1>8, <3>2
      <4>2. ASSUME NEW c \in 1 .. Candidates PROVE Verdict(c) = "next"
        <5>1. c \in 1 .. cursor - 1 \/ c = cursor
          <6>1. cursor \in Nat /\ c \in 1 .. cursor
            BY <1>4, <4>1
          <6> QED
            BY <6>1
        <5> QED
          BY <1>3, <3>2, <5>1
      <4> QED
        BY <4>2, NoneChosen
    <3> QED
      BY <1>4, <1>8, <3>1, <3>2
  <2> QED
    BY <1>2, <1>3, <1>5, <2>1, <2>2, SettleStep
<1> QED
  BY <1>6, <1>7, <1>8

LEMMA RunInitStep ==
  ASSUME LoadInv, NEW t \in Callers, RunInit(t)
  PROVE  LoadInv'
<1>1. Place(backend, memo, runner, t, at[t].op, at[t].stage, table[t])
  BY Here
<1>2. at[t].stage = "cuInit" /\ Settle(t, "init", 1) /\ "init" \in Once
  BY DEF RunInit, Once
<1>3. runner["init"] = t /\ 1 \in 0 .. Candidates
  BY <1>1, <1>2, LibraryLoadingAssumption DEF Place
<1> QED
  BY <1>2, <1>3, SettleStep

LEMMA RunEnsureStep ==
  ASSUME LoadInv, NEW t \in Callers, RunEnsure(t)
  PROVE  LoadInv'
<1> DEFINE broken == table[t] = Failed \/ library[table[t]] = "broken"
<1>1. Place(backend, memo, runner, t, at[t].op, at[t].stage, table[t])
  BY Here
<1>2. /\ at[t].stage = "create" /\ "ensure" \in Once
      /\ Settle(t, "ensure", IF broken THEN Failed ELSE 1)
  BY DEF RunEnsure, Once
<1>3. runner["ensure"] = t /\ 1 \in 0 .. Candidates /\ Failed \in 0 .. Candidates /\ Failed # 1
  BY <1>1, <1>2, LibraryLoadingAssumption DEF Place, Failed
<1>4. CASE broken
  <2>1. Settle(t, "ensure", Failed)
    BY <1>2, <1>4
  <2> QED
    BY <1>2, <1>3, <1>4, <2>1, SettleStep
<1>5. CASE ~broken
  <2>1. Settle(t, "ensure", 1)
    BY <1>2, <1>5
  <2> QED
    BY <1>2, <1>3, <1>5, <2>1, SettleStep
<1> QED
  BY <1>4, <1>5

LEMMA LoadStepKeeps ==
  ASSUME LoadInv, NEW t \in Callers, LoadStep(t)
  PROVE  LoadInv'
<1>1. CASE backend \in {"cuda", "rocm"} /\ Enter(t, "fns", 0)
  BY <1>1, EnterStep DEF Ops
<1>2. CASE ReturnFns(t)
  BY <1>2, ReturnStep DEF ReturnFns
<1>3. CASE \E g \in Once : Claim(t, g)
  BY <1>3, ClaimStep
<1>4. CASE LookHot(t) \/ TakeTable(t) \/ PassInit(t) \/ Publish(t) \/ PassEnsure(t)
  BY <1>4, LookHotStep, TakeTableStep, PassInitStep, PublishStep, PassEnsureStep
<1>5. CASE TryCandidate(t) \/ RunInit(t) \/ RunEnsure(t)
  BY <1>5, TryStep, RunInitStep, RunEnsureStep
<1> QED
  BY <1>1, <1>2, <1>3, <1>4, <1>5 DEF LoadStep
-----------------------------------------------------------------------------
(***************************************************************************)
(* The survey: what was listed and answered is what the walks give on the  *)
(* machine each saw.                                                       *)
(***************************************************************************)
AnswerOk ==
  answer # Nil =>
    /\ answer.op \in {"capabilities", "open"}
    /\ answer.op = "capabilities" => answer.adapter = Described(answer.of, answer.ordinal)
    /\ answer.op = "open" =>
         backend \in Openable /\ answer.adapter = Opening(answer.of, answer.ordinal)

SurveyInv ==
  /\ LoadInv
  /\ kind \in [Adapters -> Kinds]
  /\ machine \in Seq(Adapters)
  /\ \A t \in Callers : at[t].op = "open" => backend \in Openable
  /\ listed # Nil => listed.as = Listing(listed.of)
  /\ AnswerOk

\* The walks read the machine they are given, the backend and the adapters.
LEMMA WalksKept ==
  ASSUME UNCHANGED <<backend, kind>>
  PROVE  /\ \A m : Listing(m)' = Listing(m)
         /\ \A m, o : Described(m, o)' = Described(m, o)
         /\ \A m, o : Opening(m, o)' = Opening(m, o)
         /\ Openable' = Openable
<1>1. Usable' = Usable /\ Answering' = Answering
  BY DEF Usable, Answering
<1>2. \A m : Listing(m)' = Listing(m)
  <2> SUFFICES ASSUME NEW m PROVE Listing(m)' = Listing(m)
    OBVIOUS
  <2>1. /\ Dx12Enumerate(m)' = Dx12Enumerate(m)
        /\ LevelZeroEnumerate(m)' = LevelZeroEnumerate(m)
        /\ QnnEnumerate(m)' = QnnEnumerate(m)
        /\ OpenGlEnumerate(m)' = OpenGlEnumerate(m)
        /\ WebGpuEnumerate(m)' = WebGpuEnumerate(m)
        /\ RocmEnumerate(m)' = RocmEnumerate(m)
    BY <1>1 DEF Dx12Enumerate, LevelZeroEnumerate, QnnEnumerate, OpenGlEnumerate,
                WebGpuEnumerate, RocmEnumerate
  <2> QED
    BY <2>1 DEF Listing, VulkanEnumerate, MetalEnumerate, TpuEnumerate, FpgaEnumerate,
                NeuronEnumerate, CudaCount
<1>3. \A m, o : Described(m, o)' = Described(m, o)
  BY <1>1, <1>2 DEF Described, QnnTargetOf, WebGpuDescribed, RocmCapability
<1>4. \A m, o : Opening(m, o)' = Opening(m, o)
  <2> SUFFICES ASSUME NEW m, NEW o PROVE Opening(m, o)' = Opening(m, o)
    OBVIOUS
  <2>1. /\ Dx12Open(m, o)' = Dx12Open(m, o) /\ VulkanContext(m, o)' = VulkanContext(m, o)
        /\ HipOpen(m, o)' = HipOpen(m, o) /\ CudaOpen(m, o)' = CudaOpen(m, o)
    BY <1>1 DEF Dx12Open, VulkanContext, HipOpen, CudaOpen
  <2> QED
    BY <2>1 DEF Opening, LevelZeroLocate, MetalContext
<1>5. Openable' = Openable
  BY DEF Openable, Live
<1> QED
  BY <1>2, <1>3, <1>4, <1>5

\* What a step leaves alone of the survey.
LEMMA AnswerKept ==
  ASSUME AnswerOk, UNCHANGED <<backend, kind, answer>>
  PROVE  AnswerOk'
<1>1. PICK a : a = answer /\ a = answer'
  OBVIOUS
<1>2. /\ \A m, o : Described(m, o)' = Described(m, o)
      /\ \A m, o : Opening(m, o)' = Opening(m, o)
      /\ Openable' = Openable
  BY WalksKept
<1>3. a # Nil =>
        /\ a.op \in {"capabilities", "open"}
        /\ a.op = "capabilities" => a.adapter = Described(a.of, a.ordinal)'
        /\ a.op = "open" => backend' \in Openable' /\ a.adapter = Opening(a.of, a.ordinal)'
  BY <1>1, <1>2 DEF AnswerOk
<1> QED
  BY <1>1, <1>3 DEF AnswerOk

LEMMA ListedKept ==
  ASSUME listed # Nil => listed.as = Listing(listed.of), UNCHANGED <<backend, kind, listed>>
  PROVE  (listed # Nil => listed.as = Listing(listed.of))'
<1>1. PICK l : l = listed /\ l = listed'
  OBVIOUS
<1>2. l # Nil => l.as = Listing(l.of)'
  BY <1>1, WalksKept
<1> QED
  BY <1>1, <1>2

\* A load asks for nothing new but the table.
LEMMA LoadOps ==
  ASSUME LoadTypes, NEW t \in Callers, LoadStep(t)
  PROVE  backend' = backend /\ \A u \in Callers : at'[u].op = "open" => at[u].op = "open"
<1>1. at \in [Callers -> [op : Ops, ordinal : Nat, stage : Stages]] /\ Out.op # "open"
  BY DEF LoadTypes, Calls, Out
<1>2. CASE Enter(t, "fns", 0)
  <2>1. PICK c : c.op = "fns" /\ at' = [at EXCEPT ![t] = c]
    BY <1>2 DEF Enter
  <2> QED
    BY <1>1, <1>2, <2>1 DEF Enter
<1>3. CASE /\ backend' = backend
           /\ Leaves(t) \/ (\E stage : Goes(t, stage)) \/ at' = at
  <2>1. CASE \E stage : Goes(t, stage)
    <3>1. PICK stage : Goes(t, stage)
      BY <2>1
    <3>2. PICK c : c = [at[t] EXCEPT !.stage = stage]
      OBVIOUS
    <3>3. at' = [at EXCEPT ![t] = c] /\ c.op = at[t].op
      BY <1>1, <3>1, <3>2 DEF Goes
    <3> QED
      BY <1>1, <1>3, <3>3
  <2>2. CASE Leaves(t)
    BY <1>1, <1>3, <2>2 DEF Leaves
  <2> QED
    BY <1>3, <2>1, <2>2
<1>4. CASE ReturnFns(t)
  BY <1>3, <1>4 DEF ReturnFns
<1>5. CASE (\E g \in Once : Claim(t, g)) \/ LookHot(t)
  BY <1>3, <1>5 DEF Claim, LookHot
<1>6. CASE TryCandidate(t)
  BY <1>3, <1>6 DEF TryCandidate, Settle
<1>7. CASE TakeTable(t) \/ PassInit(t) \/ Publish(t) \/ PassEnsure(t)
  BY <1>3, <1>7 DEF TakeTable, PassInit, Publish, PassEnsure
<1>8. CASE RunInit(t) \/ RunEnsure(t)
  BY <1>3, <1>8 DEF RunInit, RunEnsure, Settle
<1> QED
  BY <1>2, <1>4, <1>5, <1>6, <1>7, <1>8 DEF LoadStep

\* What the load is is left alone.
LEMMA LoadKept ==
  ASSUME LoadInv, UNCHANGED <<backend, library, memo, runner, cursor, hot, at, table>>
  PROVE  LoadInv'
<1>1. Outcomes' = Outcomes /\ Chosen' = Chosen /\ \A c : Verdict(c)' = Verdict(c)
  BY Kept
<1>2. LoadTypes'
  BY <1>1, Zenon DEF LoadInv, LoadTypes, Calls, Stages
<1>3. Got'
  BY <1>1 DEF LoadInv, Got, GotAt
<1>4. Filled'
  <2>1. PICK m, r, n, h : /\ m = memo /\ r = runner /\ n = cursor /\ h = hot
                          /\ m = memo' /\ r = runner' /\ n = cursor' /\ h = hot'
    OBVIOUS
  <2>2. FilledBy(m, r, n, h)
    BY <2>1 DEF LoadInv, Filled
  <2>3. FilledBy(memo', runner', cursor', hot')
    BY <2>1, <2>2
  <2> QED
    BY <2>3, FilledPrimed
<1>5. Placed'
  <2>1. PICK b, m, r, a, k : /\ b = backend /\ m = memo /\ r = runner /\ a = at /\ k = table
                             /\ b = backend' /\ m = memo' /\ r = runner' /\ a = at' /\ k = table'
    OBVIOUS
  <2>2. \A u \in Callers : Place(b, m, r, u, a[u].op, a[u].stage, k[u])
    BY <2>1 DEF LoadInv, Placed
  <2> QED
    BY <2>1, <2>2 DEF Placed
<1> QED
  BY <1>2, <1>3, <1>4, <1>5 DEF LoadInv

LEMMA CallStep ==
  ASSUME SurveyInv, NEW t \in Callers, Call(t)
  PROVE  SurveyInv'
<1>1. PICK op \in {"enumerate", "available", "open"}, o \in Nat :
        Enter(t, op, o) /\ (op = "open" => backend \in Openable)
  <2>1. 0 \in Nat /\ \A o \in Ordinals : o \in Nat
    BY DeviceSurveyAssumption
  <2>2. CASE Enter(t, "enumerate", 0)
    BY <2>1, <2>2
  <2>3. CASE \E o \in Ordinals : Enter(t, "available", o)
    BY <2>1, <2>3
  <2>4. CASE backend \in Openable /\ \E o \in Ordinals : Enter(t, "open", o)
    BY <2>1, <2>4
  <2> QED
    BY <2>2, <2>3, <2>4 DEF Call
<1>2. LoadInv' /\ LoadTypes
  <2>1. op \in Ops \ {"none", "capabilities"} /\ op # "fns"
    BY DEF Ops
  <2> QED
    BY <1>1, <2>1, EnterStep DEF SurveyInv, LoadInv
<1>3. UNCHANGED <<backend, machine, kind, listed, answer>>
  BY <1>1 DEF Call, Enter
<1>4. \A u \in Callers : at'[u].op = "open" => backend' \in Openable'
  <2>1. PICK c : c.op = op /\ at' = [at EXCEPT ![t] = c]
    BY <1>1 DEF Enter
  <2>2. \A u \in Callers : at'[u] = IF u = t THEN c ELSE at[u]
    BY <1>2, <2>1 DEF LoadTypes
  <2> QED
    BY <1>1, <1>3, <2>1, <2>2, WalksKept DEF SurveyInv
<1>5. (listed # Nil => listed.as = Listing(listed.of))' /\ AnswerOk'
  BY <1>3, ListedKept, AnswerKept DEF SurveyInv
<1> QED
  BY <1>2, <1>3, <1>4, <1>5 DEF SurveyInv, Kinds

LEMMA LoadingStep ==
  ASSUME SurveyInv, NEW t \in Callers, Loading(t)
  PROVE  SurveyInv'
<1>1. LoadStep(t) /\ UNCHANGED <<machine, kind, listed, answer>> /\ LoadTypes
  BY DEF Loading, SurveyInv, LoadInv
<1>2. LoadInv'
  BY <1>1, LoadStepKeeps DEF SurveyInv
<1>3. backend' = backend /\ \A u \in Callers : at'[u].op = "open" => at[u].op = "open"
  BY <1>1, LoadOps
<1>4. (listed # Nil => listed.as = Listing(listed.of))' /\ AnswerOk' /\ Openable' = Openable
  BY <1>1, <1>3, ListedKept, AnswerKept, WalksKept DEF SurveyInv
<1> QED
  BY <1>1, <1>2, <1>3, <1>4 DEF SurveyInv, Kinds

\* The end of a call: no other call changes.
LEMMA Returned ==
  ASSUME SurveyInv, NEW t \in Callers, Ready(t), Return(t)
  PROVE  /\ LoadInv' /\ backend' = backend
         /\ \A u \in Callers : at'[u].op = "open" => backend \in Openable
<1>1. LoadInv' /\ LoadTypes /\ at' = [at EXCEPT ![t] = Out] /\ backend' = backend
  BY ReturnStep DEF SurveyInv, LoadInv, Return, Leaves
<1>2. \A u \in Callers : at'[u] = IF u = t THEN Out ELSE at[u]
  BY <1>1 DEF LoadTypes
<1> QED
  BY <1>1, <1>2 DEF SurveyInv, Out

LEMMA EnumerateStep ==
  ASSUME SurveyInv, NEW t \in Callers, Enumerate(t)
  PROVE  SurveyInv'
<1>1. /\ listed' = [of |-> machine, as |-> Listing(machine)]
      /\ Ready(t) /\ Return(t) /\ UNCHANGED <<machine, kind, answer>>
  BY DEF Enumerate
<1>2. /\ LoadInv' /\ backend' = backend
      /\ \A u \in Callers : at'[u].op = "open" => backend \in Openable
  BY <1>1, Returned
<1>3. AnswerOk' /\ Openable' = Openable /\ \A m : Listing(m)' = Listing(m)
  BY <1>1, <1>2, AnswerKept, WalksKept DEF SurveyInv
<1>4. (listed # Nil => listed.as = Listing(listed.of))'
  <2>1. PICK l : l = listed'
    OBVIOUS
  <2>2. l.of = machine /\ l.as = Listing(machine)
    BY <1>1, <2>1
  <2>3. l.as = Listing(l.of)'
    BY <1>3, <2>2
  <2> QED
    BY <2>1, <2>3
<1> QED
  BY <1>1, <1>2, <1>3, <1>4 DEF SurveyInv, Kinds

\* What was asked goes on as capabilities, behind the same stages.
LEMMA AvailableStep ==
  ASSUME SurveyInv, NEW t \in Callers, Available(t)
  PROVE  SurveyInv'
<1> DEFINE gone == DOMAIN Listing(machine) = {} /\ backend # "rocm"
           next == [op |-> "capabilities", ordinal |-> at[t].ordinal, stage |-> at[t].stage]
<1>1. /\ LoadInv /\ LoadTypes /\ at[t] \in Calls /\ GotAt(table[t])
      /\ table[t] \in 0 .. Candidates \cup {Nil} /\ table = [table EXCEPT ![t] = table[t]]
      /\ Place(backend, memo, runner, t, at[t].op, at[t].stage, table[t])
  BY Here DEF SurveyInv
<1>2. /\ Ready(t) /\ at[t].op = "available" /\ at[t].stage = "done"
      /\ IF gone THEN Leaves(t) ELSE at' = [at EXCEPT ![t] = [at[t] EXCEPT !.op = "capabilities"]]
      /\ UNCHANGED <<backend, library, memo, runner, cursor, hot, table>>
      /\ UNCHANGED <<machine, kind, listed, answer>>
  BY DEF Available, Ready
<1> HIDE DEF gone
<1>3. [at[t] EXCEPT !.op = "capabilities"] = next /\ next \in Calls
      /\ next.op = "capabilities" /\ next.stage = "done"
  BY <1>1, <1>2 DEF Calls, Ops
<1> HIDE DEF next
<1>4. LoadInv' /\ \A u \in Callers : at'[u].op = "open" => at[u].op = "open"
  <2>1. CASE Leaves(t)
    <3>1. LoadInv' /\ at' = [at EXCEPT ![t] = Out]
      BY <1>1, <1>2, <2>1, ReturnStep DEF Leaves
    <3> QED
      BY <1>1, <3>1 DEF LoadTypes, Out
  <2>2. CASE at' = [at EXCEPT ![t] = next]
    <3>1. Place(backend, memo, runner, t, next.op, next.stage, table[t])
      BY <1>1, <1>2, <1>3 DEF Place, Needless
    <3>2. table' = [table EXCEPT ![t] = table[t]]
      BY <1>1, <1>2
    <3>3. LoadInv'
      BY <1>1, <1>2, <1>3, <2>2, <3>1, <3>2, MoveStep
    <3> QED
      BY <1>1, <1>3, <2>2, <3>3 DEF LoadTypes
  <2> QED
    BY <1>2, <1>3, <2>1, <2>2
<1>5. (listed # Nil => listed.as = Listing(listed.of))' /\ AnswerOk' /\ Openable' = Openable
  BY <1>2, ListedKept, AnswerKept, WalksKept DEF SurveyInv
<1> QED
  BY <1>2, <1>4, <1>5 DEF SurveyInv, Kinds

\* A call of capabilities or open answers with what its walk gives.
LEMMA AnswerStep ==
  ASSUME SurveyInv, NEW t \in Callers, NEW a, Answered(t, a), Ready(t), Return(t),
         UNCHANGED <<machine, kind, listed>>, at[t].op \in {"capabilities", "open"},
         at[t].op = "capabilities" => a = Described(machine, at[t].ordinal),
         at[t].op = "open" => a = Opening(machine, at[t].ordinal)
  PROVE  SurveyInv'
<1>1. /\ LoadInv' /\ backend' = backend
      /\ \A u \in Callers : at'[u].op = "open" => backend \in Openable
  BY Returned
<1>2. /\ \A m, o : Described(m, o)' = Described(m, o)
      /\ \A m, o : Opening(m, o)' = Opening(m, o)
      /\ Openable' = Openable
  BY <1>1, WalksKept
<1>3. PICK r : /\ r = answer' /\ r.op = at[t].op /\ r.ordinal = at[t].ordinal
               /\ r.adapter = a /\ r.of = machine
  BY DEF Answered
<1>4. /\ r.op \in {"capabilities", "open"}
      /\ r.op = "capabilities" => r.adapter = Described(r.of, r.ordinal)'
      /\ r.op = "open" => backend' \in Openable' /\ r.adapter = Opening(r.of, r.ordinal)'
  BY <1>1, <1>2, <1>3 DEF SurveyInv
<1>5. AnswerOk'
  BY <1>3, <1>4 DEF AnswerOk
<1>6. (listed # Nil => listed.as = Listing(listed.of))'
  BY <1>1, ListedKept DEF SurveyInv
<1> QED
  BY <1>1, <1>2, <1>5, <1>6 DEF SurveyInv, Kinds

LEMMA DetachStep ==
  ASSUME SurveyInv, Detach
  PROVE  SurveyInv'
<1>1. /\ UNCHANGED <<loadVars, kind, listed, answer>>
      /\ machine \in Seq(Adapters) /\ LoadInv
  BY DEF Detach, SurveyInv
<1>2. PICK i \in DOMAIN machine : machine' = RemoveAt(machine, i)
  BY DEF Detach
<1>3. RemoveAt(machine, i) \in Seq(Adapters)
  <2>1. /\ i \in 1 .. Len(machine) /\ Len(machine) \in Nat
        /\ RemoveAt(machine, i) = SubSeq(machine, 1, i - 1) \o SubSeq(machine, i + 1, Len(machine))
    BY <1>1 DEF RemoveAt
  <2>2. SubSeq(machine, 1, i - 1) \in Seq(Adapters)
    BY <1>1, <2>1, SubSeqProperties
  <2>3. SubSeq(machine, i + 1, Len(machine)) \in Seq(Adapters)
    BY <1>1, <2>1, SubSeqProperties
  <2> QED
    BY <2>1, <2>2, <2>3, ConcatProperties
<1>4. LoadInv'
  BY <1>1, LoadKept DEF loadVars
<1>5. UNCHANGED <<backend, kind>> /\ at' = at
  BY <1>1 DEF loadVars
<1>6. (listed # Nil => listed.as = Listing(listed.of))' /\ AnswerOk' /\ Openable' = Openable
  BY <1>1, <1>5, ListedKept, AnswerKept, WalksKept DEF SurveyInv
<1> QED
  BY <1>1, <1>2, <1>3, <1>4, <1>5, <1>6 DEF SurveyInv, Kinds

LEMMA SurveyStep == SurveyInv /\ [SurveyNext]_surveyVars => SurveyInv'
<1> SUFFICES ASSUME SurveyInv, [SurveyNext]_surveyVars
             PROVE  SurveyInv'
  OBVIOUS
<1>1. CASE Detach
  BY <1>1, DetachStep
<1>2. ASSUME NEW t \in Callers, Step(t)
      PROVE  SurveyInv'
  <2>1. CASE Call(t) \/ Loading(t) \/ Enumerate(t) \/ Available(t)
    BY <2>1, CallStep, LoadingStep, EnumerateStep, AvailableStep
  <2>2. CASE Capabilities(t)
    <3>1. /\ at[t].op = "capabilities" /\ Ready(t) /\ Return(t) /\ UNCHANGED <<machine, kind, listed>>
          /\ Answered(t, Described(machine, at[t].ordinal))
      BY <2>2 DEF Capabilities
    <3> QED
      BY <3>1, AnswerStep
  <2>3. CASE Open(t)
    <3>1. /\ at[t].op = "open" /\ Ready(t) /\ Return(t) /\ UNCHANGED <<machine, kind, listed>>
          /\ Answered(t, Opening(machine, at[t].ordinal))
      BY <2>3 DEF Open
    <3> QED
      BY <3>1, AnswerStep
  <2> QED
    BY <1>2, <2>1, <2>2, <2>3 DEF Step
<1>3. CASE UNCHANGED surveyVars
  <2>1. UNCHANGED <<backend, library, memo, runner, cursor, hot, at, table, machine, kind, listed, answer>>
    BY <1>3 DEF surveyVars, loadVars
  <2>2. LoadInv'
    BY <2>1, LoadKept DEF SurveyInv
  <2>3. (listed # Nil => listed.as = Listing(listed.of))' /\ AnswerOk' /\ Openable' = Openable
    BY <2>1, ListedKept, AnswerKept, WalksKept DEF SurveyInv
  <2> QED
    BY <2>1, <2>2, <2>3 DEF SurveyInv, Kinds
<1> QED
  BY <1>1, <1>2, <1>3 DEF SurveyNext

LEMMA OneOrder ==
  ASSUME DeviceSurveyAssumption
  PROVE  SetToSeq(Adapters) \in Seq(Adapters)
<1> DEFINE n == Cardinality(Adapters)
           fs == {f \in [1 .. n -> Adapters] : IsInjective(f)}
<1>1. n \in Nat /\ ExistsBijection(1 .. n, Adapters)
  BY FS_CardinalityType DEF DeviceSurveyAssumption
<1>2. PICK f \in Bijection(1 .. n, Adapters) : TRUE
  BY <1>1 DEF ExistsBijection
<1>3. f \in [1 .. n -> Adapters] /\ IsInjective(f)
  BY <1>2 DEF Bijection, Injection, IsInjective
<1>4. SetToSeq(Adapters) = CHOOSE g \in [1 .. n -> Adapters] : IsInjective(g)
  BY DEF SetToSeq
<1>5. SetToSeq(Adapters) \in [1 .. n -> Adapters]
  BY <1>3, <1>4
<1> HIDE DEF n
<1> QED
  BY <1>1, <1>5, SeqDef

LEMMA SurveyStart == SurveyInit => SurveyInv
<1> SUFFICES ASSUME SurveyInit PROVE SurveyInv
  OBVIOUS
<1>1. /\ backend \in AllBackends /\ backend \in Backends
      /\ library \in [1 .. Candidates -> Outcomes]
      /\ memo = [g \in Once |-> Nil] /\ runner = [g \in Once |-> Nil]
      /\ cursor = 1 /\ hot = FALSE
      /\ at = [t \in Callers |-> Out] /\ table = [t \in Callers |-> Nil]
      /\ Candidates \in Nat \ {0} /\ Nil # Failed
  BY LibraryLoadingAssumption DEF SurveyInit, LoadInit, Failed
<1>2. Out \in Calls /\ Out.op = "none" /\ Out.stage = "out"
  BY DEF Calls, Ops, Stages, Out
<1>3. LoadTypes
  <2>1. cursor \in 1 .. Candidates
    BY <1>1
  <2> QED
    BY <1>1, <1>2, <2>1 DEF LoadTypes
<1>4. \A g \in Once : memo[g] = Nil /\ runner[g] = Nil
  BY <1>1
<1>5. Filled
  BY <1>1, <1>4 DEF Filled, FilledBy, Once, There
<1>6. Placed
  <2>1. ASSUME NEW t \in Callers
        PROVE  Place(backend, memo, runner, t, at[t].op, at[t].stage, table[t])
    <3>1. at[t] = Out /\ \A g \in Once : runner[g] # t
      BY <1>1, <1>4, LibraryLoadingAssumption
    <3>2. Place(backend, memo, runner, t, Out.op, Out.stage, table[t])
      BY <3>1, OutPlace
    <3> QED
      BY <3>1, <3>2
  <2> QED
    BY <2>1 DEF Placed
<1>7. Got
  BY <1>1 DEF Got, GotAt
<1>8. machine \in Seq(Adapters) /\ kind \in [Adapters -> Kinds] /\ listed = Nil /\ answer = Nil
  BY OneOrder, DeviceSurveyAssumption DEF SurveyInit
<1>9. \A t \in Callers : at[t].op # "open"
  BY <1>1, <1>2
<1> QED
  BY <1>3, <1>5, <1>6, <1>7, <1>8, <1>9 DEF SurveyInv, LoadInv, AnswerOk

THEOREM SurveyInvariant == SurveySpec => []SurveyInv
BY SurveyStart, SurveyStep, PTL DEF SurveySpec
\* The types of the survey, and of the load below it: a call is at one of the
\* stages, and what is on the machine are adapters.
THEOREM SurveyTypes == SurveySpec => []SurveyTypeOK
<1>1. SurveyInv => SurveyTypeOK
  <2> SUFFICES ASSUME SurveyInv PROVE SurveyTypeOK
    OBVIOUS
  <2>1. LoadTypeOK
    BY DEF SurveyInv, LoadInv, LoadTypes, LoadTypeOK, Calls
  <2>2. ToSet(machine) \subseteq Adapters
    BY DEF SurveyInv, ToSet
  <2> QED
    BY <2>1, <2>2 DEF SurveyInv, SurveyTypeOK
<1> QED
  BY <1>1, SurveyInvariant, PTL

\* The closures nest one way: whoever is in one of the table's or cuInit's waits
\* for nobody, and whoever is in ensure_init's waits for those alone.  So no
\* threads wait for each other's memos in a circle, and none for its own.
THEOREM InitialisersNest == SurveySpec => []NoCircleOfWaits
<1>1. SurveyInv => NoCircleOfWaits
  <2> SUFFICES ASSUME SurveyInv, NEW S \in SUBSET Callers,
                      \A t \in S : \E u \in S : Awaits(t, u), NEW t \in S
               PROVE  FALSE
    BY DEF NoCircleOfWaits
  <2>1. ASSUME NEW u \in S
        PROVE  /\ Place(backend, memo, runner, u, at[u].op, at[u].stage, table[u])
               /\ \E v \in S : \E g \in Once : at[u].stage = g /\ runner[g] = v
    BY Here DEF SurveyInv, Awaits
  <2>2. ASSUME NEW u \in S
        PROVE  runner["table"] # u /\ runner["init"] # u
    BY <2>1 DEF Place, Once
  <2>3. PICK u \in S : \E g \in Once : at[t].stage = g /\ runner[g] = u
    BY <2>1
  <2>4. runner["ensure"] = u
    BY <2>2, <2>3 DEF Once
  <2>5. at[u].stage # "ensure"
    BY <2>1, <2>4 DEF Place
  <2>6. PICK v \in S : \E g \in Once : at[u].stage = g /\ runner[g] = v
    BY <2>1
  <2> QED
    BY <2>2, <2>5, <2>6 DEF Once
<1> QED
  BY <1>1, SurveyInvariant, PTL

\* All callers of a backend, whatever the order they come in and whoever of
\* them fills the memos, get the library the candidates' order settles on, or
\* the error: on the fast path of fns too.
THEOREM OneAnswerForAll == SurveySpec => []OneAnswer
<1>1. SurveyInv => OneAnswer
  <2> SUFFICES ASSUME SurveyInv PROVE OneAnswer
    OBVIOUS
  <2>1. /\ LoadInv /\ LoadTypes /\ Filled /\ Got /\ backend \in AllBackends
        /\ Candidates \in Nat
    BY LibraryLoadingAssumption DEF SurveyInv, LoadInv, LoadTypes
  <2>2. hot => memo["table"] = Chosen /\ Chosen # Failed
    BY <2>1 DEF Filled, FilledBy, There
  <2>3. ASSUME NEW t \in Callers
        PROVE  /\ table[t] \in {Nil, Failed} \/ table[t] = Chosen
               /\ table[t] = Failed => Chosen = Failed \/ library[Chosen] = "broken"
    BY <2>1 DEF Got, GotAt
  <2>4. ASSUME NEW t \in Callers, Ready(t)
        PROVE  /\ at[t].op # "fns" /\ Start(at[t].op) # "done" =>
                    table[t] # Nil /\ library[table[t]] = "good"
               /\ backend = "cuda" => memo["init"] # Nil
    <3>1. /\ at[t].stage = "done"
          /\ Place(backend, memo, runner, t, at[t].op, at[t].stage, table[t])
      BY <2>1, <2>4, Here DEF Ready
    <3>2. backend = "cuda" => memo["init"] # Nil
      BY <3>1 DEF Place, Needless, Given, Initialised
    <3>3. ASSUME at[t].op # "fns", Start(at[t].op) # "done"
          PROVE  table[t] # Nil /\ library[table[t]] = "good"
      <4>1. ~Needless(backend, at[t].op) /\ backend \notin Given
        BY <3>3 DEF Start, Needless, Given
      <4>2. /\ table[t] = memo["table"] /\ There(memo)
            /\ backend \in WithEnsure => memo["ensure"] \notin {Nil, Failed}
        BY <3>1, <3>3, <4>1 DEF Place
      <4>3. table[t] \in 1 .. Candidates /\ Verdict(table[t]) = "take"
        BY <2>1, <4>2 DEF LoadTypes, Filled, FilledBy, There, Once, Failed
      <4>4. library[table[t]] \in Outcomes
        BY <2>1, <4>3 DEF LoadTypes
      <4>5. backend \in WithEnsure => library[table[t]] # "broken"
        BY <2>1, <4>2 DEF Filled, FilledBy
      <4>6. table[t] # Nil
        BY <4>2 DEF There
      <4> QED
        BY <2>1, <4>1, <4>3, <4>4, <4>5, <4>6, TakenGood DEF WithEnsure
    <3> QED
      BY <3>2, <3>3
  <2> QED
    BY <2>2, <2>3, <2>4 DEF OneAnswer
<1> QED
  BY <1>1, SurveyInvariant, PTL

\* The walks agree: on one machine, what is listed under an ordinal is what is
\* described and what is opened under it, or open (in ROCm, capabilities too)
\* refuses, except where the backends are known to diverge.
THEOREM SameAdapterEverywhere == SurveySpec => []SameAdapter
<1>1. ASSUME NEW m, NEW o, backend \notin {"qnn", "webgpu"}
      PROVE  \/ Described(m, o) = At(Listing(m), o)
             \/ backend = "rocm" /\ Described(m, o) = Nil
  <2>1. CASE backend = "rocm"
    <3> DEFINE a == At(Listing(m), o)
    <3>1. Described(m, o) = IF a \in Usable THEN a ELSE Nil
      BY <2>1 DEF Described, RocmCapability
    <3> HIDE DEF a
    <3> QED
      BY <2>1, <3>1 DEF a
  <2>2. CASE backend # "rocm"
    BY <1>1, <2>2 DEF Described
  <2> QED
    BY <2>1, <2>2
<1>2. ASSUME NEW m, NEW o, backend \in Openable \ {"levelzero"}
      PROVE  Opening(m, o) \in {At(Listing(m), o), Nil}
  <2>1. CASE backend = "dx12"
    BY <2>1 DEF Opening, Dx12Open, Listing, Dx12Enumerate
  <2>2. CASE backend = "metal"
    BY <2>2 DEF Opening, MetalContext, Listing, MetalEnumerate
  <2>3. CASE backend = "vulkan"
    BY <2>3 DEF Opening, VulkanContext, Listing, VulkanEnumerate
  <2>4. CASE backend = "cuda"
    BY <2>4 DEF Opening, CudaOpen, HipOpen, Listing, CudaCount
  <2>5. CASE backend = "rocm"
    <3> DEFINE all == Numbered(m)
               kept == {p \in DOMAIN all : all[p] \in Answering}
    <3>1. Listing(m) = [p \in kept |-> all[p]]
      BY <2>5 DEF Listing, RocmEnumerate
    <3>2. Opening(m, o) = IF At(all, o) \in Answering THEN At(all, o) ELSE Nil
      BY <2>5 DEF Opening, HipOpen
    <3> HIDE DEF all
    <3>3. CASE o \in DOMAIN all /\ all[o] \in Answering
      BY <3>1, <3>2, <3>3 DEF At
    <3>4. CASE ~(o \in DOMAIN all /\ all[o] \in Answering)
      <4>1. Opening(m, o) = Nil
        BY <3>2, <3>4 DEF At
      <4> QED
        BY <4>1
    <3> QED
      BY <3>3, <3>4
  <2> QED
    BY <1>2, <2>1, <2>2, <2>3, <2>4, <2>5 DEF Openable, Live
<1>3. SurveyInv => SameAdapter
  <2> SUFFICES ASSUME SurveyInv, listed # Nil, answer # Nil,
                      <<backend, answer.op>> \notin Divergent, listed.of = answer.of
               PROVE  \/ answer.adapter = At(listed.as, answer.ordinal)
                      \/ (answer.op = "open" \/ backend = "rocm") /\ answer.adapter = Nil
    BY DEF SameAdapter
  <2>1. AnswerOk /\ listed.as = Listing(answer.of) /\ answer.op \in {"capabilities", "open"}
    BY DEF SurveyInv, AnswerOk
  <2>2. CASE answer.op = "capabilities"
    <3>1. backend \notin {"qnn", "webgpu"}
      BY <2>2 DEF Divergent
    <3> QED
      BY <1>1, <2>1, <2>2, <3>1 DEF AnswerOk
  <2>3. CASE answer.op = "open"
    <3>1. backend \in Openable \ {"levelzero"}
      BY <2>1, <2>3 DEF Divergent, AnswerOk
    <3> QED
      BY <1>2, <2>1, <2>3, <3>1 DEF AnswerOk
  <2> QED
    BY <2>1, <2>2, <2>3
<1> QED
  BY <1>3, SurveyInvariant, PTL
=============================================================================
