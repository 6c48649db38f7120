-------------------------- MODULE BucketPool_proofs --------------------------
(***************************************************************************)
(* Proofs about BucketPool, for every set of threads, blocks and requests, *)
(* every number of size classes and every cap.                             *)
(*                                                                         *)
(* Owners is inductive: a block stays with one owner because the driver    *)
(* hands out none that is owned (NothingLost), and a free takes away the   *)
(* right one because it has no other owner (UniqueOwner).  That a failed   *)
(* call leaves the pool to somebody needs CallersHold: the caller of alloc *)
(* has a handle.                                                           *)
(***************************************************************************)
EXTENDS BucketPool, FiniteSetTheorems, TLAPS

CallersHold == \A t \in Threads : pc[t] = "alloc" => t \in handles

Owners == TypeOK /\ UniqueOwner /\ NothingLost /\ CallersHold

\* What a request computes to.
LEMMA RequestTypes ==
  ASSUME NEW r \in Requests, kind \in Kinds
  PROVE  /\ Exact(r) \in Nat /\ Bytes(r) \in Nat
         /\ Bytes(r) \in {Exact(r), Exact(r) % Word}
         /\ BucketFor(Bytes(r)) \in Buckets \cup {None}
         /\ DriverBytes(Bytes(r)) \in Nat
         /\ Exponent(Bytes(r)) \in 0 .. Bytes(r)
         /\ Smallest(Bytes(r), Exponent(Bytes(r)))
<1> DEFINE n == Bytes(r)
<1>1. r.len \in Nat /\ r.size \in Nat /\ Word \in Nat \ {0}
  BY BucketPoolAssumption
<1>2. \A x, y \in Nat : x * y \in Nat
  OBVIOUS
<1>3. Exact(r) \in Nat
  BY <1>1, <1>2 DEF Exact
<1>4. \A x \in Nat : x % Word \in Nat
  BY <1>1
<1>5. n \in Nat /\ n \in {Exact(r), Exact(r) % Word}
  BY <1>3, <1>4 DEF Bytes
<1>6. \E e \in 0 .. n : Smallest(n, e)
  BY <1>5, ClassesReach
<1>7. Exponent(n) \in 0 .. n /\ Smallest(n, Exponent(n))
  BY <1>6 DEF Exponent
<1>8. ClassBytes(Exponent(n)) \in Nat
  BY <1>5, <1>7, ClassesReach
<1>9. BucketFor(n) \in Buckets \cup {None}
  BY <1>5, <1>7, BucketPoolAssumption DEF BucketFor, Buckets
<1>10. DriverBytes(n) \in Nat
  BY <1>5, <1>8 DEF DriverBytes
<1> QED
  BY <1>3, <1>5, <1>7, <1>9, <1>10

\* The buffer a call works on is well formed, with and without its block.
LEMMA BufTypes ==
  ASSUME NEW r \in Requests, kind \in Kinds
  PROVE  /\ \A b \in Blocks : Buf(b, r) \in Bufs
         /\ Buf(None, r) \in Unallocated
BY RequestTypes DEF Buf, Bufs, Unallocated
-----------------------------------------------------------------------------
(***************************************************************************)
(* Types.                                                                  *)
(***************************************************************************)
LEMMA LastGoneTypes ==
  ASSUME TypeOK, LastGone \/ UNCHANGED <<cache, size>>
  PROVE  cache' \in [Buckets -> SUBSET Blocks] /\ size' \in [Blocks -> Nat \cup {None}]
BY DEF TypeOK, LastGone

LEMMA TypeStep ==
  ASSUME TypeOK, [Next]_vars
  PROVE  TypeOK'
<1> USE DEF TypeOK, Goto, InCall
<1>0. RequestsOf[kind] \subseteq Requests
  BY DEF Requests
<1>1. ASSUME NEW t \in Threads, NEW r \in RequestsOf[kind], Miss(t, r)
      PROVE  TypeOK'
  <2>1. buf'[t] \in Unallocated
    BY <1>0, <1>1, BufTypes DEF Miss
  <2> QED
    BY <1>1, <2>1 DEF Miss
<1>2. ASSUME NEW t \in Threads, NEW r \in RequestsOf[kind], NEW b \in Blocks, Hit(t, r, b)
      PROVE  TypeOK'
  <2>1. Buf(b, r) \in Bufs
    BY <1>0, BufTypes
  <2>2. cache' \in [Buckets -> SUBSET Blocks]
    BY <1>2 DEF Hit
  <2> QED
    BY <1>2, <2>1, <2>2 DEF Hit
<1>3. ASSUME NEW t \in Threads, NEW b \in Blocks, AllocFromDriver(t, b)
      PROVE  TypeOK'
  <2>1. buf[t] \in Unallocated /\ buf[t].request \in Requests
    BY <1>3 DEF AllocFromDriver, Unallocated
  <2>2. size' \in [Blocks -> Nat \cup {None}]
    BY <1>3, <2>1, RequestTypes DEF AllocFromDriver
  <2>3. buf'[t] \in Bufs
    BY <1>3, <2>1 DEF AllocFromDriver, Unallocated, Bufs
  <2>4. buf' \in [Threads -> Bufs \cup Unallocated \cup {None}]
    BY <1>3, <2>3 DEF AllocFromDriver
  <2>5. \A u \in Threads \ {t} : buf'[u] = buf[u] /\ pc'[u] = pc[u]
    BY <1>3 DEF AllocFromDriver
  <2>6. pc'[t] \in {"bytes", "return"} /\ pc' \in [Threads -> {"idle", "alloc", "bytes", "slabs", "return", "free", "leave"}]
    BY <1>3 DEF AllocFromDriver
  <2> QED
    BY <1>3, <2>2, <2>3, <2>4, <2>5, <2>6 DEF AllocFromDriver
<1>4. ASSUME NEW t \in Threads, AllocFails(t) \/ CountSlabs(t) \/ Return(t)
      PROVE  TypeOK'
  BY <1>4 DEF AllocFails, CountSlabs, Return, Bufs
<1>5. ASSUME NEW t \in Threads, CountBytes(t)
      PROVE  TypeOK'
  BY <1>5 DEF CountBytes, Bufs
<1>6. ASSUME NEW t \in Threads, NEW x \in bufs, DropIntoList(t, x)
      PROVE  TypeOK'
  <2>1. x.bucket \in Buckets /\ x.block \in Blocks
    BY <1>6 DEF DropIntoList, Bufs
  <2>2. cache' \in [Buckets -> SUBSET Blocks]
    BY <1>6, <2>1 DEF DropIntoList
  <2> QED
    BY <1>6, <2>2 DEF DropIntoList
<1>7. ASSUME NEW t \in Threads, NEW x \in bufs, DropOver(t, x)
      PROVE  TypeOK'
  BY <1>7 DEF DropOver
<1>8. ASSUME NEW t \in Threads, Free(t)
      PROVE  TypeOK'
  BY <1>8 DEF Free
<1>9. ASSUME NEW t \in Threads, Leave(t)
      PROVE  TypeOK'
  BY <1>9, LastGoneTypes DEF Leave
<1>10. ASSUME NEW t \in Threads, DropHandle(t)
       PROVE  TypeOK'
  BY <1>10, LastGoneTypes DEF DropHandle
<1>11. CASE UNCHANGED vars
  BY <1>11 DEF vars
<1> QED
  BY <1>1, <1>2, <1>3, <1>4, <1>5, <1>6, <1>7, <1>8, <1>9, <1>10, <1>11 DEF Next

\* Every state of the pools is well typed, and a thread has the buffer its
\* place in a call says.
THEOREM TypeCorrect == Spec => []TypeOK
<1>1. Init => TypeOK
  BY DEF Init, TypeOK
<1> QED
  BY <1>1, TypeStep, PTL DEF Spec
-----------------------------------------------------------------------------
(***************************************************************************)
(* Ownership.                                                              *)
(***************************************************************************)

\* The caller of alloc keeps its handle until it has its answer.
LEMMA CallersStep ==
  ASSUME TypeOK, CallersHold, [Next]_vars
  PROVE  CallersHold'
BY DEF CallersHold, TypeOK, Next, vars, Miss, Hit, AllocFromDriver, AllocFails, CountBytes,
       CountSlabs, Return, DropIntoList, DropOver, Free, Leave, DropHandle, Goto, InCall

\* A block goes from a list to a buffer.
LEMMA HitStep ==
  ASSUME Owners, NEW t \in Threads, NEW r \in Requests, NEW b \in Blocks, Hit(t, r, b)
  PROVE  UniqueOwner' /\ NothingLost'
<1> USE DEF Owners
<1> DEFINE k == BucketFor(Bytes(r))
<1>1. k \in Buckets /\ b \in cache[k]
  BY RequestTypes DEF Hit, TypeOK
<1>2. \A j \in Buckets : cache'[j] = IF j = k THEN cache[k] \ {b} ELSE cache[j]
  BY <1>1 DEF Hit, TypeOK
<1>3. \A j \in Buckets : j # k => b \notin cache[j]
  BY <1>1 DEF UniqueOwner
<1>4. b \in Cached /\ Cached' = Cached \ {b}
  BY <1>1, <1>2, <1>3 DEF Cached
<1>5. OfBufs' = OfBufs \cup {b}
  <2>1. bufs' = bufs \cup {Buf(b, r)} /\ Buf(b, r).block = b
    BY DEF Hit, Buf
  <2> QED
    BY <2>1 DEF OfBufs
<1>6. Carriers' = Carriers /\ OfThreads' = OfThreads
  BY DEF Hit, Carriers, OfThreads
<1>7. b \notin OfBufs /\ b \notin OfThreads
  BY <1>4 DEF UniqueOwner
<1>8. \A x, y \in bufs' : x.block = y.block => x = y
  BY <1>7 DEF UniqueOwner, OfBufs, Hit, Buf
<1>9. UniqueOwner'
  <2>1. \A j, i \in Buckets : j # i => cache'[j] \cap cache'[i] = {}
    BY <1>2 DEF UniqueOwner
  <2>2. \A u, v \in Carriers' : buf'[u].block = buf'[v].block => u = v
    BY <1>6 DEF UniqueOwner, Hit
  <2>3. OfBufs' \cap OfThreads' = {} /\ Cached' \cap OfBufs' = {} /\ Cached' \cap OfThreads' = {}
    BY <1>4, <1>5, <1>6, <1>7 DEF UniqueOwner
  <2> QED
    BY <1>8, <2>1, <2>2, <2>3 DEF UniqueOwner
<1>10. NothingLost'
  <2>1. Obtained' = Obtained /\ Held'
    BY DEF Hit, Obtained, Held, InCall
  <2> QED
    BY <1>4, <1>5, <1>6, <2>1 DEF NothingLost
<1> QED
  BY <1>9, <1>10

\* A step inside a call that moves no block.
LEMMA NoMove ==
  ASSUME Owners, UNCHANGED <<cache, size, bufs>>,
         NEW t \in Threads, \A u \in Threads \ {t} : buf'[u] = buf[u] /\ pc'[u] = pc[u],
         \/ t \notin Carriers /\ t \notin Carriers'
         \/ t \in Carriers /\ t \in Carriers' /\ buf'[t].block = buf[t].block,
         Held'
  PROVE  UniqueOwner' /\ NothingLost'
<1> USE DEF Owners
<1>1. Carriers' = Carriers /\ \A u \in Carriers : buf'[u].block = buf[u].block
  BY DEF Carriers
<1>2. OfThreads' = OfThreads /\ OfBufs' = OfBufs /\ Cached' = Cached /\ Obtained' = Obtained
  BY <1>1 DEF OfThreads, OfBufs, Cached, Obtained
<1>3. UniqueOwner'
  BY <1>1, <1>2 DEF UniqueOwner
<1>4. NothingLost'
  BY <1>2 DEF NothingLost
<1> QED
  BY <1>3, <1>4

\* A block fresh from the driver, which nobody owned before.
LEMMA FreshStep ==
  ASSUME Owners, NEW t \in Threads, NEW b \in Blocks, AllocFromDriver(t, b)
  PROVE  UniqueOwner' /\ NothingLost'
<1> USE DEF Owners
<1>1. /\ buf[t].request \in Requests /\ buf'[t].block = b
      /\ \A u \in Threads \ {t} : buf'[u] = buf[u] /\ pc'[u] = pc[u]
      /\ pc'[t] \in {"bytes", "return"} /\ t \notin Carriers
  BY DEF AllocFromDriver, TypeOK, Unallocated, Goto, Carriers
<1>2. DriverBytes(Bytes(buf[t].request)) # None
  BY <1>1, RequestTypes, BucketPoolAssumption DEF TypeOK
<1>3. Obtained' = Obtained \cup {b} /\ b \notin Obtained
  BY <1>2 DEF AllocFromDriver, Obtained, TypeOK
<1>4. Carriers' = Carriers \cup {t}
  BY <1>1 DEF Carriers
<1>5. OfThreads' = OfThreads \cup {b}
  BY <1>1, <1>4 DEF OfThreads, Carriers
<1>6. OfBufs' = OfBufs /\ Cached' = Cached
  BY DEF AllocFromDriver, OfBufs, Cached
<1>7. b \notin OfThreads /\ b \notin OfBufs /\ b \notin Cached
  BY <1>3 DEF NothingLost
<1>8. UniqueOwner'
  <2>1. \A u, v \in Carriers' : buf'[u].block = buf'[v].block => u = v
    BY <1>1, <1>4, <1>7 DEF UniqueOwner, OfThreads, Carriers
  <2>2. UNCHANGED <<bufs, cache>>
    BY DEF AllocFromDriver
  <2> QED
    BY <1>5, <1>6, <1>7, <2>1, <2>2 DEF UniqueOwner
<1>9. Held'
  BY <1>1 DEF Held, InCall
<1> QED
  BY <1>3, <1>5, <1>6, <1>8, <1>9 DEF NothingLost

\* The call returns its block as a buffer.
LEMMA ReturnStep ==
  ASSUME Owners, NEW t \in Threads, Return(t)
  PROVE  UniqueOwner' /\ NothingLost'
<1> USE DEF Owners
<1> DEFINE b == buf[t].block
<1>1. /\ t \in Carriers /\ buf[t] \in Bufs
      /\ \A u \in Threads \ {t} : buf'[u] = buf[u] /\ pc'[u] = pc[u]
      /\ pc'[t] = "idle"
  BY DEF Return, TypeOK, Goto, Carriers
<1>2. Carriers' = Carriers \ {t}
  BY <1>1 DEF Carriers
<1>3. OfThreads' = OfThreads \ {b} /\ b \in OfThreads
  BY <1>1, <1>2 DEF OfThreads, UniqueOwner, Carriers
<1>4. OfBufs' = OfBufs \cup {b} /\ Cached' = Cached /\ Obtained' = Obtained
  BY DEF Return, OfBufs, Cached, Obtained
<1>5. b \notin OfBufs /\ b \notin Cached
  BY <1>3 DEF UniqueOwner
<1>6. \A x, y \in bufs' : x.block = y.block => x = y
  BY <1>5 DEF UniqueOwner, OfBufs, Return
<1>7. UniqueOwner'
  <2>1. \A u, v \in Carriers' : buf'[u].block = buf'[v].block => u = v
    BY <1>1, <1>2 DEF UniqueOwner, Carriers
  <2>2. UNCHANGED cache
    BY DEF Return
  <2> QED
    BY <1>3, <1>4, <1>5, <1>6, <2>1, <2>2 DEF UniqueOwner
<1>8. Held'
  BY DEF Held, Return
<1> QED
  BY <1>3, <1>4, <1>7, <1>8 DEF NothingLost

\* A dropped buffer's block goes into its list.
LEMMA IntoListStep ==
  ASSUME Owners, NEW t \in Threads, NEW x \in bufs, DropIntoList(t, x)
  PROVE  UniqueOwner' /\ NothingLost'
<1> USE DEF Owners
<1> DEFINE b == x.block
           k == x.bucket
<1>1. k \in Buckets /\ b \in Blocks /\ b \in OfBufs
  BY DEF DropIntoList, TypeOK, Bufs, OfBufs
<1>2. \A j \in Buckets : cache'[j] = IF j = k THEN cache[k] \cup {b} ELSE cache[j]
  BY <1>1 DEF DropIntoList, TypeOK
<1>3. Cached' = Cached \cup {b}
  BY <1>1, <1>2 DEF Cached
<1>4. OfBufs' = OfBufs \ {b}
  BY DEF DropIntoList, OfBufs, UniqueOwner
<1>5. Carriers' = Carriers /\ OfThreads' = OfThreads
  BY DEF DropIntoList, Carriers, OfThreads, Goto, InCall, TypeOK
<1>6. b \notin Cached /\ b \notin OfThreads
  BY <1>1 DEF UniqueOwner
<1>7. UniqueOwner'
  <2>1. \A j, i \in Buckets : j # i => cache'[j] \cap cache'[i] = {}
    BY <1>2, <1>6 DEF UniqueOwner, Cached
  <2>2. \A u, v \in Carriers' : buf'[u].block = buf'[v].block => u = v
    BY <1>5 DEF UniqueOwner, DropIntoList
  <2>3. \A y, z \in bufs' : y.block = z.block => y = z
    BY DEF UniqueOwner, DropIntoList
  <2>4. OfBufs' \cap OfThreads' = {} /\ Cached' \cap OfBufs' = {} /\ Cached' \cap OfThreads' = {}
    BY <1>3, <1>4, <1>5, <1>6 DEF UniqueOwner
  <2> QED
    BY <2>1, <2>2, <2>3, <2>4 DEF UniqueOwner
<1>8. Held' /\ Obtained' = Obtained
  BY DEF Held, InCall, DropIntoList, Goto, TypeOK, Obtained
<1> QED
  BY <1>1, <1>3, <1>4, <1>5, <1>7, <1>8 DEF NothingLost

\* A dropped buffer whose block goes back to the driver: first the call has it.
LEMMA OverStep ==
  ASSUME Owners, NEW t \in Threads, NEW x \in bufs, DropOver(t, x)
  PROVE  UniqueOwner' /\ NothingLost'
<1> USE DEF Owners
<1> DEFINE b == x.block
<1>1. /\ b \in OfBufs /\ t \notin Carriers /\ buf'[t] = x /\ pc'[t] = "free"
      /\ \A u \in Threads \ {t} : buf'[u] = buf[u] /\ pc'[u] = pc[u]
  BY DEF DropOver, OfBufs, InCall, Goto, TypeOK, Carriers
<1>2. OfBufs' = OfBufs \ {b}
  BY DEF DropOver, OfBufs, UniqueOwner
<1>3. Carriers' = Carriers \cup {t}
  BY <1>1 DEF Carriers
<1>4. OfThreads' = OfThreads \cup {b}
  BY <1>1, <1>3 DEF OfThreads, Carriers
<1>5. b \notin OfThreads /\ b \notin Cached
  BY <1>1 DEF UniqueOwner
<1>6. Cached' = Cached /\ Obtained' = Obtained /\ Held'
  BY <1>1 DEF DropOver, Cached, Obtained, Held, InCall
<1>7. UniqueOwner'
  <2>1. \A u, v \in Carriers' : buf'[u].block = buf'[v].block => u = v
    BY <1>1, <1>3, <1>5 DEF UniqueOwner, OfThreads, Carriers
  <2>2. \A y, z \in bufs' : y.block = z.block => y = z
    BY DEF UniqueOwner, DropOver
  <2>3. UNCHANGED cache
    BY DEF DropOver
  <2> QED
    BY <1>2, <1>4, <1>5, <1>6, <2>1, <2>2, <2>3 DEF UniqueOwner
<1> QED
  BY <1>1, <1>2, <1>4, <1>6, <1>7 DEF NothingLost

\* The free: the block had no other owner.
LEMMA FreeStep ==
  ASSUME Owners, NEW t \in Threads, Free(t)
  PROVE  UniqueOwner' /\ NothingLost'
<1> USE DEF Owners
<1> DEFINE b == buf[t].block
<1>1. /\ t \in Carriers /\ b \in Blocks /\ pc'[t] = "leave"
      /\ \A u \in Threads \ {t} : buf'[u] = buf[u] /\ pc'[u] = pc[u]
  BY DEF Free, TypeOK, Goto, Carriers, Bufs
<1>2. Carriers' = Carriers \ {t}
  BY <1>1 DEF Carriers
<1>3. OfThreads' = OfThreads \ {b} /\ b \in OfThreads
  BY <1>1, <1>2 DEF OfThreads, UniqueOwner, Carriers
<1>4. Obtained' = Obtained \ {b}
  BY <1>1 DEF Free, Obtained, TypeOK
<1>5. OfBufs' = OfBufs /\ Cached' = Cached /\ UNCHANGED <<bufs, cache>>
  BY DEF Free, OfBufs, Cached
<1>6. b \notin OfBufs /\ b \notin Cached
  BY <1>3 DEF UniqueOwner
<1>7. UniqueOwner'
  <2>1. \A u, v \in Carriers' : buf'[u].block = buf'[v].block => u = v
    BY <1>1, <1>2 DEF UniqueOwner, Carriers
  <2> QED
    BY <1>3, <1>5, <2>1 DEF UniqueOwner
<1>8. Held'
  BY <1>1 DEF Held, InCall
<1> QED
  BY <1>3, <1>4, <1>5, <1>6, <1>7, <1>8 DEF NothingLost

\* A thread leaves the pool: the last to go frees the lists, where everything
\* is by then.
LEMMA GoneStep ==
  ASSUME Owners, UNCHANGED <<bufs, buf>>,
         \A t \in Threads : pc'[t] = pc[t] \/ (pc[t] = "leave" /\ pc'[t] = "idle"),
         IF Held' THEN UNCHANGED <<cache, size>> ELSE LastGone
  PROVE  UniqueOwner' /\ NothingLost'
<1> USE DEF Owners
<1>1. Carriers' = Carriers /\ OfThreads' = OfThreads /\ OfBufs' = OfBufs
  BY DEF Carriers, OfThreads, OfBufs
<1>2. CASE Held'
  <2>1. Cached' = Cached /\ Obtained' = Obtained
    BY <1>2 DEF Cached, Obtained
  <2> QED
    BY <1>1, <1>2, <2>1 DEF UniqueOwner, NothingLost
<1>3. CASE ~Held'
  <2>1. OfBufs = {} /\ OfThreads = {}
    <3>1. bufs = {}
      BY <1>3 DEF Held
    <3>2. \A t \in Threads : pc'[t] = "idle"
      BY <1>3 DEF Held, InCall
    <3>3. Carriers' = {}
      BY <3>2 DEF Carriers
    <3> QED
      BY <1>1, <3>1, <3>3 DEF OfBufs, OfThreads
  <2>2. Obtained = Cached
    BY <2>1 DEF NothingLost
  <2>3. Obtained' = {} /\ Cached' = {}
    BY <1>3, <2>2 DEF LastGone, Obtained, Cached
  <2>4. \A j, i \in Buckets : cache'[j] \cap cache'[i] = {}
    BY <1>3 DEF LastGone
  <2> QED
    BY <1>1, <2>1, <2>3, <2>4 DEF UniqueOwner, NothingLost
<1> QED
  BY <1>2, <1>3

LEMMA OwnersStep ==
  ASSUME Owners, [Next]_vars
  PROVE  Owners'
<1> USE DEF Owners
<1>0. TypeOK' /\ CallersHold'
  BY TypeStep, CallersStep
<1>1. RequestsOf[kind] \subseteq Requests
  BY DEF Requests, TypeOK
<1>2. ASSUME NEW t \in Threads, NEW r \in RequestsOf[kind], Miss(t, r)
      PROVE  UniqueOwner' /\ NothingLost'
  <2>1. Held'
    BY <1>2 DEF Miss, Held
  <2> QED
    BY <1>2, <2>1, NoMove DEF Miss, Goto, TypeOK, Carriers, InCall
<1>3. ASSUME NEW t \in Threads, AllocFails(t)
      PROVE  UniqueOwner' /\ NothingLost'
  <2>1. Held'
    BY <1>3 DEF AllocFails, Held, CallersHold
  <2> QED
    BY <1>3, <2>1, NoMove DEF AllocFails, Goto, TypeOK, Carriers
<1>4. ASSUME NEW t \in Threads, CountBytes(t) \/ CountSlabs(t)
      PROVE  UniqueOwner' /\ NothingLost'
  <2>1. pc[t] \in {"bytes", "slabs"} /\ pc'[t] \in {"slabs", "return"}
    BY <1>4 DEF CountBytes, CountSlabs, Goto, TypeOK
  <2>2. Held'
    BY <2>1 DEF Held, InCall
  <2>3. t \in Carriers /\ t \in Carriers'
    BY <2>1 DEF Carriers
  <2> QED
    BY <1>4, <2>2, <2>3, NoMove DEF CountBytes, CountSlabs, Goto, TypeOK
<1>5. ASSUME NEW t \in Threads, Leave(t)
      PROVE  UniqueOwner' /\ NothingLost'
  <2>1. pc' = [pc EXCEPT ![t] = "idle"] /\ pc[t] = "leave" /\ UNCHANGED <<bufs, buf, handles>>
    BY <1>5 DEF Leave, Goto
  <2>2. Held' <=> ~(handles = {} /\ bufs = {} /\ \A u \in Threads \ {t} : ~InCall(u))
    BY <2>1 DEF Held, InCall, TypeOK
  <2> QED
    BY <1>5, <2>1, <2>2, GoneStep DEF Leave, TypeOK
<1>6. ASSUME NEW t \in Threads, DropHandle(t)
      PROVE  UniqueOwner' /\ NothingLost'
  <2>1. handles' = handles \ {t} /\ t \in handles /\ UNCHANGED <<bufs, pc, buf>>
    BY <1>6 DEF DropHandle
  <2>2. Held' <=> ~(handles = {t} /\ bufs = {} /\ \A u \in Threads : ~InCall(u))
    BY <2>1 DEF Held, InCall
  <2> QED
    BY <1>6, <2>1, <2>2, GoneStep DEF DropHandle
<1>7. CASE UNCHANGED vars
  <2>1. UNCHANGED <<bufs, buf, cache, pc, size, handles>>
    BY <1>7 DEF vars
  <2>2. Carriers' = Carriers
    BY <2>1 DEF Carriers
  <2>3. OfBufs' = OfBufs /\ OfThreads' = OfThreads /\ Cached' = Cached /\ Obtained' = Obtained
    BY <2>1, <2>2 DEF OfBufs, OfThreads, Cached, Obtained
  <2>4. Held' = Held
    BY <2>1 DEF Held, InCall
  <2>5. UniqueOwner'
    BY <2>1, <2>2, <2>3 DEF UniqueOwner
  <2>6. NothingLost'
    BY <2>3, <2>4 DEF NothingLost
  <2> QED
    BY <1>0, <2>5, <2>6
<1> QED
  BY <1>0, <1>1, <1>2, <1>3, <1>4, <1>5, <1>6, <1>7, HitStep, FreshStep, ReturnStep,
     IntoListStep, OverStep, FreeStep DEF Next

LEMMA InitOwners ==
  ASSUME Init
  PROVE  Owners
<1>1. Obtained = {} /\ Cached = {} /\ OfBufs = {} /\ Carriers = {} /\ OfThreads = {}
  BY DEF Init, Obtained, Cached, OfBufs, Carriers, OfThreads
<1> QED
  BY <1>1 DEF Init, Owners, TypeOK, UniqueOwner, NothingLost, CallersHold

LEMMA OwnersInvariant == Spec => []Owners
<1>1. Owners /\ [Next]_vars => Owners'
  BY OwnersStep
<1> QED
  BY <1>1, InitOwners, PTL DEF Spec

\* Every block the driver gave has exactly one owner, and none is left when the
\* pool's last owner has gone.
THEOREM OneOwner == Spec => []EachBlockOnce
<1>1. Owners => EachBlockOnce
  BY DEF Owners, EachBlockOnce
<1> QED
  BY <1>1, OwnersInvariant, PTL
-----------------------------------------------------------------------------
(***************************************************************************)
(* Capacity.  The size of a block never changes while it is obtained, so   *)
(* what a list, a buffer or a call knows of its block stays true: freed    *)
(* blocks are of no list and no buffer (Owners).                           *)
(***************************************************************************)
Sized(k) == kind = "rocm" \/ k # NumBuckets

Roomy(x, bytes) ==
  Sized(x.bucket) =>
    /\ bytes[x.block] >= Exact(x.request)
    /\ x.bucket # None => bytes[x.block] >= ClassBytes(x.bucket - 1)

Filled ==
  /\ \A x \in bufs : Roomy(x, size)
  /\ \A t \in Carriers : Roomy(buf[t], size)
  /\ \A k \in Buckets : Sized(k) => \A b \in cache[k] : size[b] >= ClassBytes(k - 1)

\* A request on its way to the driver knows its class.
Classed == \A t \in Threads : pc[t] = "alloc" => buf[t].bucket = BucketFor(Bytes(buf[t].request))

\* The multiplication of ROCm's alloc does not wrap.
NoWrap == \A r \in Requests : Exact(r) < Word

\* A size class holds the request, and it is the class the driver is asked for.
LEMMA ClassCovers ==
  ASSUME NoWrap, kind \in Kinds, NEW r \in Requests
  PROVE  LET n == Bytes(r)
             k == BucketFor(n) IN
         /\ n = Exact(r) /\ n \in Nat
         /\ Sized(k) /\ k # None => /\ ClassBytes(k - 1) \in Nat
                                    /\ ClassBytes(k - 1) >= n
                                    /\ DriverBytes(n) = ClassBytes(k - 1)
         /\ DriverBytes(n) \in Nat
         /\ Sized(k) /\ k = None => DriverBytes(n) >= n
<1> DEFINE n == Bytes(r)
           e == Exponent(n)
           k == BucketFor(n)
<1>1. n = Exact(r) /\ n \in Nat
  <2>1. Exact(r) \in Nat /\ Exact(r) < Word /\ Word \in Nat
    BY RequestTypes, BucketPoolAssumption DEF NoWrap
  <2>2. Exact(r) % Word = Exact(r)
    BY <2>1
  <2> QED
    BY <2>1, <2>2 DEF Bytes
<1>2. e \in 0 .. n /\ ClassBytes(e) >= n /\ ClassBytes(e) \in Nat
  BY <1>1, RequestTypes, ClassesReach DEF Smallest
<1>3. ASSUME Sized(k), k # None
      PROVE  k - 1 = e /\ DriverBytes(n) = ClassBytes(e)
  BY <1>2, <1>3, BucketPoolAssumption DEF Sized, BucketFor, DriverBytes
<1>4. ASSUME Sized(k), k = None
      PROVE  DriverBytes(n) >= n
  BY <1>1, <1>2, <1>4 DEF DriverBytes
<1> QED
  BY <1>1, <1>2, <1>3, <1>4, RequestTypes

\* What Filled says after a step, in terms of the state before it.
LEMMA FilledAfter ==
  ASSUME UNCHANGED kind,
         \A x \in bufs' : Roomy(x, size'),
         \A u \in Carriers' : Roomy(buf'[u], size'),
         \A k \in Buckets : Sized(k) => \A b \in cache'[k] : size'[b] >= ClassBytes(k - 1)
  PROVE  Filled'
BY DEF Filled, Roomy, Sized

\* The blocks that stay somewhere keep their size.
LEMMA FilledShrinks ==
  ASSUME TypeOK, Filled, UNCHANGED kind,
         bufs' \subseteq bufs,
         \A t \in Carriers' : t \in Carriers /\ buf'[t] = buf[t],
         \A k \in Buckets : cache'[k] \subseteq cache[k],
         \A x \in bufs' : size'[x.block] = size[x.block],
         \A t \in Carriers' : size'[buf[t].block] = size[buf[t].block],
         \A k \in Buckets : \A b \in cache'[k] : size'[b] = size[b]
  PROVE  Filled'
<1>1. \A x \in bufs' : Roomy(x, size')
  BY DEF Filled, Roomy, Sized
<1>2. \A t \in Carriers' : Roomy(buf'[t], size')
  BY DEF Filled, Roomy, Sized
<1>3. \A k \in Buckets : Sized(k) => \A b \in cache'[k] : size'[b] >= ClassBytes(k - 1)
  BY DEF Filled, Sized
<1> QED
  BY <1>1, <1>2, <1>3, FilledAfter

\* The last owner frees only what the lists hold, and nobody else is there.
LEMMA FilledGone ==
  ASSUME Owners, Filled, UNCHANGED <<kind, bufs, buf>>,
         \A t \in Threads : pc'[t] = pc[t] \/ (pc[t] = "leave" /\ pc'[t] = "idle"),
         LastGone \/ UNCHANGED <<cache, size>>
  PROVE  Filled'
<1> USE DEF Owners
<1>1. Carriers' = Carriers
  BY DEF Carriers
<1>2. \A k \in Buckets : cache'[k] \subseteq cache[k]
  BY DEF LastGone
<1>3. \A x \in bufs : x.block \in Blocks /\ x.block \notin Cached
  BY DEF UniqueOwner, OfBufs, TypeOK, Bufs
<1>4. \A t \in Carriers : buf[t].block \in Blocks /\ buf[t].block \notin Cached
  BY DEF UniqueOwner, OfThreads, TypeOK, Bufs, Carriers
<1>5. \A b \in Blocks : b \notin Cached => size'[b] = size[b]
  BY DEF LastGone, Cached
<1>6. \A k \in Buckets : \A b \in cache'[k] : size'[b] = size[b]
  BY DEF LastGone
<1> QED
  BY <1>1, <1>2, <1>3, <1>4, <1>5, <1>6, FilledShrinks

LEMMA FilledStep ==
  ASSUME NoWrap, Owners, Filled, Classed, [Next]_vars
  PROVE  Filled'
<1> USE DEF Owners
<1>0. RequestsOf[kind] \subseteq Requests /\ kind \in Kinds
  BY DEF Requests, TypeOK
<1>1. ASSUME NEW t \in Threads, NEW r \in RequestsOf[kind], NEW b \in Blocks, Hit(t, r, b)
      PROVE  Filled'
  <2> DEFINE k == BucketFor(Bytes(r))
             x == Buf(b, r)
  <2>1. k \in Buckets /\ k # None /\ b \in cache[k] /\ x.block = b /\ x.bucket = k /\ x.request = r
    BY <1>0, <1>1, RequestTypes, BucketPoolAssumption DEF Hit, Buf
  <2>2. \A j \in Buckets : cache'[j] \subseteq cache[j]
    BY <1>1, <2>1 DEF Hit, TypeOK
  <2>3. size[b] \in Nat
    BY <2>1 DEF NothingLost, Cached, Obtained, TypeOK
  <2>4. Roomy(x, size)
    <3>1. Sized(k) => size[b] >= ClassBytes(k - 1)
      BY <2>1 DEF Filled
    <3>2. Sized(k) => size[b] >= Exact(r)
      BY <1>0, <2>1, <2>3, <3>1, ClassCovers
    <3> QED
      BY <2>1, <3>1, <3>2 DEF Roomy
  <2>5. UNCHANGED <<kind, size, pc, buf>> /\ bufs' = bufs \cup {x}
    BY <1>1 DEF Hit
  <2>6. \A y \in bufs' : Roomy(y, size')
    BY <2>4, <2>5 DEF Filled
  <2>7. \A u \in Carriers' : Roomy(buf'[u], size') /\ buf'[u] = buf[u]
    BY <2>5 DEF Filled, Carriers
  <2>8. \A j \in Buckets : Sized(j) => \A c \in cache'[j] : size'[c] >= ClassBytes(j - 1)
    BY <2>2, <2>5 DEF Filled, Sized
  <2> QED
    BY <2>5, <2>6, <2>7, <2>8, FilledAfter
<1>2. ASSUME NEW t \in Threads, NEW b \in Blocks, AllocFromDriver(t, b)
      PROVE  Filled'
  <2> DEFINE r == buf[t].request
             x == [buf[t] EXCEPT !.block = b]
             n == Bytes(r)
  <2>1. /\ r \in Requests /\ x.block = b /\ x.bucket = BucketFor(n) /\ x.request = r
        /\ buf'[t] = x /\ \A u \in Threads \ {t} : buf'[u] = buf[u] /\ pc'[u] = pc[u]
    BY <1>2 DEF AllocFromDriver, TypeOK, Unallocated, Goto, Classed
  <2>2. b \notin Cached /\ b \notin OfBufs /\ b \notin OfThreads
    BY <1>2 DEF AllocFromDriver, NothingLost, Obtained
  <2>3. size'[b] = DriverBytes(n) /\ \A c \in Blocks \ {b} : size'[c] = size[c]
    BY <1>2 DEF AllocFromDriver, TypeOK
  <2>4. UNCHANGED <<kind, bufs, cache>>
    BY <1>2 DEF AllocFromDriver
  <2>5. Roomy(x, size')
    <3>1. ASSUME Sized(x.bucket)
          PROVE  /\ size'[x.block] >= Exact(x.request)
                 /\ x.bucket # None => size'[x.block] >= ClassBytes(x.bucket - 1)
      BY <1>0, <2>1, <2>3, <3>1, ClassCovers
    <3> QED
      BY <2>4, <3>1 DEF Roomy, Sized
  <2>6. \A y \in bufs' : Roomy(y, size')
    <3> SUFFICES ASSUME NEW y \in bufs PROVE Roomy(y, size')
      BY <2>4
    <3>1. y.block \in Blocks /\ y.block # b
      BY <2>2 DEF OfBufs, TypeOK, Bufs
    <3> QED
      BY <2>3, <2>4, <3>1 DEF Filled, Roomy, Sized
  <2>7. ASSUME NEW u \in Carriers', u # t
        PROVE  buf'[u] = buf[u] /\ Roomy(buf'[u], size')
    <3>1. u \in Carriers /\ buf'[u] = buf[u]
      BY <2>1, <2>7 DEF Carriers
    <3>2. buf[u].block \in Blocks /\ buf[u].block # b
      BY <2>2, <3>1 DEF OfThreads, TypeOK, Bufs, Carriers
    <3> QED
      BY <2>3, <2>4, <3>1, <3>2 DEF Filled, Roomy, Sized
  <2>8. \A k \in Buckets : Sized(k) => \A c \in cache'[k] : size'[c] >= ClassBytes(k - 1)
    <3> SUFFICES ASSUME NEW k \in Buckets, Sized(k), NEW c \in cache[k]
                 PROVE  size'[c] >= ClassBytes(k - 1)
      BY <2>4 DEF Sized
    <3>1. c \in Blocks /\ c # b
      BY <2>2 DEF Cached, TypeOK
    <3> QED
      BY <2>3, <3>1 DEF Filled
  <2>9. \A u \in Carriers' : Roomy(buf'[u], size')
    BY <2>1, <2>5, <2>7 DEF Roomy
  <2> QED
    BY <2>4, <2>6, <2>8, <2>9, FilledAfter
<1>3. ASSUME NEW t \in Threads, Return(t)
      PROVE  Filled'
  <2>1. t \in Carriers /\ bufs' = bufs \cup {buf[t]} /\ UNCHANGED <<kind, size, cache>>
    BY <1>3 DEF Return, Carriers
  <2>2. \A y \in bufs' : Roomy(y, size')
    BY <2>1 DEF Filled
  <2>3. \A u \in Carriers' : u \in Carriers /\ buf'[u] = buf[u]
    BY <1>3 DEF Return, Carriers, Goto, TypeOK
  <2>4. \A u \in Carriers' : Roomy(buf'[u], size')
    BY <2>1, <2>3 DEF Filled
  <2> QED
    BY <2>1, <2>2, <2>4, FilledAfter DEF Filled
<1>4. ASSUME NEW t \in Threads, NEW x \in bufs, DropIntoList(t, x)
      PROVE  Filled'
  <2> DEFINE k == x.bucket
  <2>1. k \in Buckets /\ k # None /\ UNCHANGED <<kind, size, buf>> /\ bufs' = bufs \ {x}
    BY <1>4 DEF DropIntoList, TypeOK, Bufs
  <2>2. \A j \in Buckets : cache'[j] \subseteq cache[j] \cup (IF j = k THEN {x.block} ELSE {})
    BY <1>4, <2>1 DEF DropIntoList, TypeOK
  <2>3. Sized(k) => size[x.block] >= ClassBytes(k - 1)
    BY <2>1 DEF Filled, Roomy
  <2>4. \A j \in Buckets : Sized(j) => \A c \in cache'[j] : size'[c] >= ClassBytes(j - 1)
    BY <2>1, <2>2, <2>3 DEF Filled, Sized
  <2>5. \A y \in bufs' : Roomy(y, size')
    BY <2>1 DEF Filled
  <2>6. Carriers' = Carriers
    BY <1>4 DEF DropIntoList, Goto, InCall, Carriers, TypeOK
  <2>7. \A u \in Carriers' : Roomy(buf'[u], size')
    BY <2>1, <2>6 DEF Filled
  <2> QED
    BY <2>1, <2>4, <2>5, <2>7, FilledAfter
<1>5. ASSUME NEW t \in Threads, NEW x \in bufs, DropOver(t, x)
      PROVE  Filled'
  <2>1. UNCHANGED <<kind, size, cache>> /\ bufs' = bufs \ {x} /\ buf'[t] = x
    BY <1>5 DEF DropOver, TypeOK
  <2>2. \A u \in Carriers' : u = t \/ (u \in Carriers /\ buf'[u] = buf[u])
    BY <1>5 DEF DropOver, Goto, Carriers, TypeOK
  <2>3. \A y \in bufs : Roomy(y, size')
    BY <2>1 DEF Filled
  <2>4. \A u \in Carriers' : Roomy(buf'[u], size')
    BY <2>1, <2>2, <2>3 DEF Filled
  <2> QED
    BY <2>1, <2>3, <2>4, FilledAfter DEF Filled
<1>6. ASSUME NEW t \in Threads, Free(t)
      PROVE  Filled'
  <2> DEFINE b == buf[t].block
  <2>1. UNCHANGED <<kind, bufs, cache>> /\ t \in Carriers
        /\ \A c \in Blocks \ {b} : size'[c] = size[c]
    BY <1>6 DEF Free, TypeOK, Carriers
  <2>2. \A u \in Carriers' : u \in Carriers /\ u # t /\ buf'[u] = buf[u]
    BY <1>6 DEF Free, Goto, Carriers, TypeOK
  <2>3. \A x \in bufs : x.block \in Blocks /\ x.block # b
    BY <2>1, SMTT(40) DEF UniqueOwner, OfBufs, OfThreads, TypeOK, Bufs
  <2>4. \A u \in Carriers' : buf[u].block \in Blocks /\ buf[u].block # b
    BY <2>1, <2>2 DEF UniqueOwner, TypeOK, Bufs, Carriers
  <2>5. \A k \in Buckets : \A c \in cache[k] : c \in Blocks /\ c # b
    BY <2>1 DEF UniqueOwner, Cached, OfThreads, TypeOK
  <2> QED
    BY <2>1, <2>2, <2>3, <2>4, <2>5, FilledShrinks
<1>7. ASSUME NEW t \in Threads,
             \/ \E r \in RequestsOf[kind] : Miss(t, r)
             \/ AllocFails(t) \/ CountBytes(t) \/ CountSlabs(t)
      PROVE  Filled'
  <2>1. UNCHANGED <<kind, bufs, cache, size>>
    BY <1>7 DEF Miss, AllocFails, CountBytes, CountSlabs
  <2>2. \A u \in Carriers' : u \in Carriers /\ buf'[u] = buf[u]
    BY <1>7 DEF Miss, AllocFails, CountBytes, CountSlabs, Goto, InCall, Carriers, TypeOK
  <2> QED
    BY <2>1, <2>2, FilledShrinks
<1>8. ASSUME NEW t \in Threads, Leave(t) \/ DropHandle(t)
      PROVE  Filled'
  BY <1>8, FilledGone DEF Leave, DropHandle, Goto, TypeOK
<1>9. CASE UNCHANGED vars
  BY <1>9, FilledShrinks DEF vars, Carriers
<1> QED
  BY <1>0, <1>1, <1>2, <1>3, <1>4, <1>5, <1>6, <1>7, <1>8, <1>9 DEF Next

LEMMA ClassedStep ==
  ASSUME TypeOK, Classed, [Next]_vars
  PROVE  Classed'
<1>1. UNCHANGED kind
  BY DEF Next, vars, Miss, Hit, AllocFromDriver, AllocFails, CountBytes, CountSlabs, Return,
         DropIntoList, DropOver, Free, Leave, DropHandle
<1>2. \A t \in Threads : pc'[t] = "alloc" =>
        \/ pc[t] = "alloc" /\ buf'[t] = buf[t]
        \/ \E r \in RequestsOf[kind] : buf'[t] = Buf(None, r)
  BY DEF Next, vars, Miss, Hit, AllocFromDriver, AllocFails, CountBytes, CountSlabs, Return,
         DropIntoList, DropOver, Free, Leave, DropHandle, Goto, TypeOK
<1>3. \A r : Buf(None, r).bucket = BucketFor(Bytes(r)) /\ Buf(None, r).request = r
  BY DEF Buf
<1> QED
  BY <1>1, <1>2, <1>3 DEF Classed, BucketFor, Bytes

\* Unless the byte size of a request wraps, every buffer, recycled or not, has
\* at least the memory it was asked for.
THEOREM CapacityCorrect ==
  ASSUME NoWrap
  PROVE  Spec => []BlockCoversRequest
<1> DEFINE Inv == Owners /\ Filled /\ Classed
<1>1. Init => Inv
  <2>1. Init => Filled /\ Classed
    BY DEF Init, Filled, Classed, Carriers
  <2> QED
    BY <2>1, InitOwners
<1>2. Inv /\ [Next]_vars => Inv'
  BY OwnersStep, FilledStep, ClassedStep DEF Owners
<1>3. Inv => BlockCoversRequest
  BY DEF Filled, Roomy, Sized, BlockCoversRequest
<1> QED
  BY <1>1, <1>2, <1>3, PTL DEF Spec
-----------------------------------------------------------------------------
(***************************************************************************)
(* The caps.                                                               *)
(***************************************************************************)
Finite == \A k \in Buckets : IsFiniteSet(cache[k])

LEMMA CapStep ==
  ASSUME TypeOK, Finite, CacheBound, [Next]_vars
  PROVE  Finite' /\ CacheBound'
<1>1. UNCHANGED kind
  BY DEF Next, vars, Miss, Hit, AllocFromDriver, AllocFails, CountBytes, CountSlabs, Return,
         DropIntoList, DropOver, Free, Leave, DropHandle
<1>2. ASSUME NEW k \in Buckets, NEW S \in SUBSET cache[k], cache'[k] = S
      PROVE  /\ IsFiniteSet(cache'[k])
             /\ kind = "rocm" => Cardinality(cache'[k]) <= MaxPerBucket
  BY <1>2, FS_Subset, FS_CardinalityType, BucketPoolAssumption DEF Finite, CacheBound
<1>3. ASSUME NEW t \in Threads, NEW x \in bufs, DropIntoList(t, x)
      PROVE  Finite' /\ CacheBound'
  <2> DEFINE k == x.bucket
  <2>1. k \in Buckets /\ HasRoom(k) /\ cache' = [cache EXCEPT ![k] = cache[k] \cup {x.block}]
    BY <1>3 DEF DropIntoList, TypeOK, Bufs
  <2>2. cache'[k] = cache[k] \cup {x.block} /\ \A j \in Buckets \ {k} : cache'[j] = cache[j]
    BY <2>1 DEF TypeOK
  <2>3. IsFiniteSet(cache'[k]) /\ Cardinality(cache'[k]) <= Cardinality(cache[k]) + 1
    <3>1. IsFiniteSet(cache[k]) /\ Cardinality(cache[k]) \in Nat
      BY <2>1, FS_CardinalityType DEF Finite
    <3>2. /\ IsFiniteSet(cache[k] \cup {x.block})
          /\ Cardinality(cache[k] \cup {x.block}) =
               IF x.block \in cache[k] THEN Cardinality(cache[k]) ELSE Cardinality(cache[k]) + 1
      BY <3>1, FS_AddElement, Zenon
    <3> QED
      BY <2>2, <3>1, <3>2
  <2>4. kind = "rocm" => Cardinality(cache'[k]) <= MaxPerBucket
    BY <2>1, <2>2, <2>3, FS_CardinalityType, BucketPoolAssumption DEF HasRoom, Finite
  <2> QED
    BY <1>1, <2>1, <2>2, <2>3, <2>4 DEF Finite, CacheBound
<1>4. ASSUME \A k \in Buckets : cache'[k] \subseteq cache[k]
      PROVE  Finite' /\ CacheBound'
  BY <1>1, <1>2, <1>4 DEF Finite, CacheBound
<1>5. ASSUME NEW t \in Threads, NEW r, NEW b, Hit(t, r, b)
      PROVE  \A k \in Buckets : cache'[k] \subseteq cache[k]
  BY <1>5 DEF Hit, TypeOK
<1>6. ASSUME NEW t \in Threads, Leave(t) \/ DropHandle(t)
      PROVE  \A k \in Buckets : cache'[k] \subseteq cache[k]
  BY <1>6 DEF Leave, DropHandle, LastGone
<1> QED
  BY <1>3, <1>4, <1>5, <1>6 DEF Next, vars, Miss, AllocFromDriver, AllocFails, CountBytes,
     CountSlabs, Return, DropOver, Free

\* A ROCm list never keeps more blocks than its cap, however many drops meet at
\* it: the cap is looked at under the lock of the push.
THEOREM CapHolds == Spec => []CacheBound
<1>1. Init => TypeOK /\ Finite /\ CacheBound
  BY InitOwners, FS_EmptySet, BucketPoolAssumption DEF Init, Owners, Finite, CacheBound
<1>2. TypeOK /\ Finite /\ CacheBound /\ [Next]_vars => (TypeOK /\ Finite /\ CacheBound)'
  BY TypeStep, CapStep
<1> QED
  BY <1>1, <1>2, PTL DEF Spec
-----------------------------------------------------------------------------
(***************************************************************************)
(* Both pools implement the allocator without lists.                       *)
(***************************************************************************)
Holders == {t \in Threads : pc[t] \in {"bytes", "slabs", "return"}}
InCalls == {buf[t].block : t \in Holders}

LEMMA RefinementStep ==
  ASSUME Owners, [Next]_vars
  PROVE  [Allocator!ANext]_(Allocator!avars)
<1> USE DEF Owners
<1>0. InHand = OfBufs \cup InCalls /\ InHand' = OfBufs' \cup InCalls'
  <2>1. Holders = Carriers \ {t \in Threads : pc[t] = "free"}
    BY DEF Holders, Carriers
  <2>2. Holders' = Carriers' \ {t \in Threads : pc'[t] = "free"}
    BY DEF Holders, Carriers
  <2> QED
    BY <2>1, <2>2 DEF InHand, InCalls
<1> SUFFICES \/ \E b \in Blocks : Allocator!Acquire(b) \/ Allocator!Release(b)
             \/ \E B \in SUBSET Obtained : Allocator!Trim(B)
             \/ UNCHANGED <<Obtained, InHand>>
  BY DEF Allocator!ANext, Allocator!avars
<1>1. ASSUME NEW t \in Threads, NEW r \in Requests, NEW b \in Blocks, Hit(t, r, b)
      PROVE  Allocator!Acquire(b)
  <2>1. BucketFor(Bytes(r)) \in Buckets /\ b \in Cached
    BY <1>1, RequestTypes DEF Hit, TypeOK, Cached
  <2>2. b \notin OfBufs /\ b \notin OfThreads /\ b \in Obtained
    BY <2>1 DEF UniqueOwner, NothingLost
  <2>3. b \notin InHand
    BY <1>0, <2>2 DEF InCalls, OfThreads, Holders, Carriers
  <2>4. bufs' = bufs \cup {Buf(b, r)} /\ Buf(b, r).block = b /\ UNCHANGED <<size, pc, buf>>
    BY <1>1 DEF Hit, Buf
  <2>5. OfBufs' = OfBufs \cup {b} /\ InCalls' = InCalls /\ Obtained' = Obtained
    BY <2>4 DEF OfBufs, InCalls, Holders, Obtained
  <2> QED
    BY <1>0, <2>2, <2>3, <2>5 DEF Allocator!Acquire
<1>2. ASSUME NEW t \in Threads, NEW b \in Blocks, AllocFromDriver(t, b)
      PROVE  Allocator!Acquire(b)
  <2>1. /\ buf[t].request \in Requests /\ buf'[t].block = b
        /\ \A u \in Threads \ {t} : buf'[u] = buf[u] /\ pc'[u] = pc[u]
        /\ pc'[t] \in {"bytes", "return"} /\ pc[t] = "alloc"
    BY <1>2 DEF AllocFromDriver, TypeOK, Unallocated, Goto
  <2>2. DriverBytes(Bytes(buf[t].request)) # None
    BY <2>1, RequestTypes, BucketPoolAssumption DEF TypeOK
  <2>3. Obtained' = Obtained \cup {b} /\ b \notin Obtained
    BY <1>2, <2>2 DEF AllocFromDriver, Obtained, TypeOK
  <2>4. Holders' = Holders \cup {t} /\ t \notin Carriers
    BY <2>1 DEF Holders, Carriers
  <2>5. InCalls' = InCalls \cup {b}
    <3>1. \A u \in Holders : u \in Threads \ {t} /\ buf'[u] = buf[u]
      BY <2>1, <2>4 DEF Holders
    <3> QED
      BY <2>1, <2>4, <3>1 DEF InCalls
  <2>6. OfBufs' = OfBufs
    BY <1>2 DEF AllocFromDriver, OfBufs
  <2>7. b \notin InHand
    BY <1>0, <2>3 DEF NothingLost, InCalls, OfThreads, Holders, Carriers
  <2> QED
    BY <1>0, <2>3, <2>5, <2>6, <2>7 DEF Allocator!Acquire
<1>3. ASSUME NEW t \in Threads, Return(t)
      PROVE  UNCHANGED <<Obtained, InHand>>
  <2>1. /\ pc[t] = "return" /\ pc'[t] = "idle" /\ bufs' = bufs \cup {buf[t]} /\ UNCHANGED size
        /\ \A u \in Threads \ {t} : buf'[u] = buf[u] /\ pc'[u] = pc[u]
    BY <1>3 DEF Return, TypeOK, Goto
  <2>2. /\ Holders' = Holders \ {t}
        /\ t \in Holders
    BY <2>1 DEF Holders, Carriers
  <2>3. OfBufs' = OfBufs \cup {buf[t].block}
    BY <2>1 DEF OfBufs
  <2>4. InCalls = InCalls' \cup {buf[t].block}
    <3>1. \A u \in Holders' : u \in Threads \ {t} /\ buf'[u] = buf[u]
      BY <2>1, <2>2 DEF Holders
    <3> QED
      BY <2>2, <3>1 DEF InCalls
  <2> QED
    BY <1>0, <2>1, <2>3, <2>4 DEF Obtained
<1>4. ASSUME NEW t \in Threads, NEW x \in bufs, DropIntoList(t, x) \/ DropOver(t, x)
      PROVE  x.block \in Blocks /\ Allocator!Release(x.block)
  <2>1. /\ bufs' = bufs \ {x} /\ pc[t] = "idle" /\ pc'[t] \in {"leave", "free"} /\ UNCHANGED size
        /\ \A u \in Threads \ {t} : buf'[u] = buf[u] /\ pc'[u] = pc[u]
    BY <1>4 DEF DropIntoList, DropOver, TypeOK, Goto, InCall
  <2>2. Holders' = Holders /\ t \notin Carriers
    BY <2>1 DEF Holders, Carriers
  <2>3. InCalls' = InCalls
    <3>1. \A u \in Holders : buf'[u] = buf[u]
      BY <2>1, <2>2 DEF Holders, Carriers
    <3> QED
      BY <2>2, <3>1 DEF InCalls
  <2>4. OfBufs' = OfBufs \ {x.block} /\ x.block \in OfBufs
    BY <2>1 DEF OfBufs, UniqueOwner
  <2>5. x.block \notin InCalls
    BY <2>4 DEF UniqueOwner, InCalls, OfThreads, Holders, Carriers
  <2> QED
    BY <1>0, <2>1, <2>3, <2>4, <2>5 DEF Allocator!Release, Obtained, TypeOK, Bufs
<1>5. ASSUME NEW t \in Threads, Free(t)
      PROVE  \E B \in SUBSET Obtained : Allocator!Trim(B)
  <2> DEFINE b == buf[t].block
  <2>1. /\ pc[t] = "free" /\ pc'[t] = "leave" /\ UNCHANGED bufs /\ b \in Blocks
        /\ \A u \in Threads \ {t} : buf'[u] = buf[u] /\ pc'[u] = pc[u]
    BY <1>5 DEF Free, TypeOK, Goto, Bufs
  <2>2. t \in Carriers /\ Holders' = Holders /\ t \notin Holders
    BY <2>1 DEF Holders, Carriers
  <2>3. InCalls' = InCalls /\ OfBufs' = OfBufs
    <3>1. \A u \in Holders : buf'[u] = buf[u]
      BY <2>1, <2>2 DEF Holders
    <3> QED
      BY <2>1, <2>2, <3>1 DEF InCalls, OfBufs
  <2>4. b \in OfThreads /\ b \notin OfBufs /\ b \in Obtained
    BY <2>2 DEF OfThreads, UniqueOwner, NothingLost
  <2>5. b \notin InCalls
    BY <2>2 DEF InCalls, UniqueOwner, Holders, Carriers
  <2>6. Obtained' = Obtained \ {b}
    BY <1>5, <2>1 DEF Free, Obtained, TypeOK
  <2>7. Allocator!Trim({b})
    BY <1>0, <2>3, <2>4, <2>5, <2>6 DEF Allocator!Trim
  <2> QED
    BY <2>4, <2>7
<1>6. ASSUME NEW t \in Threads, Leave(t) \/ DropHandle(t)
      PROVE  \E B \in SUBSET Obtained : Allocator!Trim(B)
  <2>1. /\ UNCHANGED <<bufs, buf>>
        /\ \A u \in Threads : pc'[u] = pc[u] \/ (pc[u] = "leave" /\ pc'[u] = "idle")
    BY <1>6 DEF Leave, DropHandle, Goto, TypeOK
  <2>2. Holders' = Holders
    BY <2>1 DEF Holders, Carriers
  <2>3. InCalls' = InCalls /\ OfBufs' = OfBufs
    BY <2>1, <2>2 DEF InCalls, OfBufs
  <2>4. Cached \subseteq Obtained \ InHand
    BY <1>0 DEF NothingLost, UniqueOwner, InCalls, OfThreads, Holders, Carriers
  <2>5. CASE LastGone
    <3>1. Obtained' = Obtained \ Cached
      BY <2>5 DEF LastGone, Obtained, Cached
    <3>2. Allocator!Trim(Cached)
      BY <1>0, <2>3, <2>4, <3>1 DEF Allocator!Trim
    <3> QED
      BY <2>4, <3>2
  <2>6. CASE UNCHANGED <<cache, size>>
    <3>1. UNCHANGED <<Obtained, InHand>>
      BY <1>0, <2>3, <2>6 DEF Obtained
    <3>2. Allocator!Trim({})
      BY <3>1 DEF Allocator!Trim
    <3> QED
      BY <3>2
  <2> QED
    BY <1>6, <2>5, <2>6 DEF Leave, DropHandle
<1>7. ASSUME NEW t \in Threads,
             \/ \E r \in RequestsOf[kind] : Miss(t, r)
             \/ AllocFails(t) \/ CountBytes(t) \/ CountSlabs(t)
      PROVE  UNCHANGED <<Obtained, InHand>>
  <2>1. UNCHANGED <<bufs, size>>
    BY <1>7 DEF Miss, AllocFails, CountBytes, CountSlabs
  <2>2. \/ pc[t] \notin {"bytes", "slabs", "return", "free"}
           /\ pc'[t] \notin {"bytes", "slabs", "return", "free"}
        \/ pc[t] \in {"bytes", "slabs"} /\ pc'[t] \in {"slabs", "return"} /\ buf'[t] = buf[t]
    BY <1>7 DEF Miss, AllocFails, CountBytes, CountSlabs, Goto, InCall, TypeOK
  <2>3. \A u \in Threads \ {t} : buf'[u] = buf[u] /\ pc'[u] = pc[u]
    BY <1>7 DEF Miss, AllocFails, CountBytes, CountSlabs, Goto, TypeOK
  <2>4. Holders' = Holders
    BY <2>2, <2>3 DEF Holders, Carriers
  <2>5. \A u \in Holders : buf'[u] = buf[u]
    BY <2>2, <2>3 DEF Holders
  <2>6. InCalls' = InCalls /\ OfBufs' = OfBufs
    BY <2>1, <2>4, <2>5 DEF InCalls, OfBufs
  <2> QED
    BY <1>0, <2>1, <2>6 DEF Obtained
<1>8. CASE UNCHANGED vars
  BY <1>8 DEF vars, Obtained, InHand, OfBufs, Carriers
<1>9. RequestsOf[kind] \subseteq Requests
  BY DEF Requests, TypeOK
<1>10. CASE Next
  BY <1>1, <1>2, <1>3, <1>4, <1>5, <1>6, <1>7, <1>9, <1>10 DEF Next, TypeOK
<1> QED
  BY <1>8, <1>10

\* With its lists hidden, either pool is an allocator that hands a block to one
\* client at a time and gives back to the driver only what no client holds.
THEOREM Refinement == Spec => ImplementsAllocator
<1>1. Init => Allocator!AInit
  BY DEF Init, Allocator!AInit, Obtained, InHand, OfBufs, Carriers
<1>2. Owners /\ [Next]_vars => [Allocator!ANext]_(Allocator!avars)
  BY RefinementStep
<1> QED
  BY <1>1, <1>2, OwnersInvariant, PTL DEF Spec, ImplementsAllocator, Allocator!ASpec
=============================================================================
