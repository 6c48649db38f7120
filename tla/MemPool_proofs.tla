--------------------------- MODULE MemPool_proofs ---------------------------
(***************************************************************************)
(* Proofs about MemPool, for every set of threads, blocks and requests and *)
(* every cap.                                                              *)
(*                                                                         *)
(* Owners, the conjunction TypeOK /\ UniqueOwner /\ NothingLost, is        *)
(* inductive: neither of the last two is so alone.  A free takes away the  *)
(* right block only because the block has one owner, and a block stays     *)
(* with one owner only because the driver hands out none that is owned.    *)
(***************************************************************************)
EXTENDS MemPool, FiniteSetTheorems, TLAPS

\* What a request computes to.
LEMMA RequestTypes ==
  ASSUME NEW r \in Requests
  PROVE  /\ Bytes(r) \in Nat
         /\ BucketFor(Bytes(r)) \in Buckets \cup {NoBucket}
<1>1. r.len \in Nat /\ r.elem \in Nat
  BY PoolAssumption
<1>2. Bytes(r) \in Nat
  BY <1>1 DEF Bytes
<1>3. BucketFor(Bytes(r)) \in Buckets \cup {NoBucket}
  BY DEF BucketFor
<1> QED
  BY <1>2, <1>3

\* What the driver is asked for is a number of bytes.
LEMMA DriverBytesType ==
  ASSUME NEW r \in Requests
  PROVE  DriverBytes(r) \in Nat
<1>1. r.elem \in Nat \ {0}
  BY PoolAssumption
<1>2. \A k \in Buckets : BucketBytes(k) \div r.elem \in Nat
  BY <1>1, PoolAssumption DEF BucketBytes
<1>3. \A m, n \in Nat : m * n \in Nat
  OBVIOUS
<1>4. \A k \in Buckets : (BucketBytes(k) \div r.elem) * r.elem \in Nat
  BY <1>1, <1>2, <1>3
<1> QED
  BY <1>4, RequestTypes DEF DriverBytes

\* The buffer a request gets is well formed.
LEMMA NewBufType ==
  ASSUME NEW r \in Requests, NEW b \in Blocks
  PROVE  NewBuf(b, r) \in Bufs /\ NewBuf(b, r).ptr = b
BY RequestTypes DEF NewBuf, Bufs
-----------------------------------------------------------------------------
(***************************************************************************)
(* Types.                                                                  *)
(***************************************************************************)

\* A free changes the driver's state only, and keeps its type.
LEMMA FreedType ==
  ASSUME TypeOK, NEW B, Freed(B)
  PROVE  allocated' \subseteq Blocks /\ size' \in [Blocks -> Nat]
BY DEF TypeOK, Freed

\* TypeOK is preserved, given that no two threads drop the same buffer: the
\* one would find the buffer gone.
LEMMA TypeStep ==
  ASSUME TypeOK, UniqueOwner, [Next]_vars
  PROVE  TypeOK'
<1> USE DEF TypeOK, Unborrowed
<1>1. ASSUME NEW t \in Threads, NEW r \in Requests, AllocFromFront(t, r)
      PROVE  TypeOK'
  <2>1. BucketFor(Bytes(r)) \in Buckets /\ t \in Places
    BY <1>1, RequestTypes DEF AllocFromFront, Places
  <2>2. bufs' \subseteq Bufs
    BY <1>1, <2>1, NewBufType DEF AllocFromFront
  <2>3. cache' \in [Places -> [Buckets -> SUBSET Blocks]]
    BY <1>1, <2>1 DEF AllocFromFront, Uncached
  <2>4. bufs \subseteq bufs'
    BY <1>1 DEF AllocFromFront
  <2> QED
    BY <1>1, <2>2, <2>3, <2>4 DEF AllocFromFront, driver
<1>2. ASSUME NEW t \in Threads, NEW r \in Requests, AllocMissFront(t, r)
      PROVE  TypeOK'
  BY <1>2 DEF AllocMissFront, driver
<1>3. ASSUME NEW t \in Threads, AllocFromBack(t)
      PROVE  TypeOK'
  <2> DEFINE r == req[t]
             k == BucketFor(Bytes(r))
  <2>1. r \in Requests /\ k \in Buckets /\ Shared \in Places
    BY <1>3, RequestTypes DEF AllocFromBack, Places
  <2>2. CASE cache[Shared][k] = {} /\ UNCHANGED <<bufs, cache, req>>
    BY <1>3, <2>2 DEF AllocFromBack, driver
  <2>3. ASSUME NEW b \in cache[Shared][k],
               Uncached(Shared, k, b), bufs' = bufs \cup {NewBuf(b, r)},
               pc' = [pc EXCEPT ![t] = "idle"], req' = [req EXCEPT ![t] = NoReq]
        PROVE  TypeOK'
    <3>1. b \in Blocks
      BY <2>1
    <3>2. bufs' \subseteq Bufs /\ bufs \subseteq bufs'
      BY <2>1, <2>3, <3>1, NewBufType
    <3>3. cache' \in [Places -> [Buckets -> SUBSET Blocks]]
      BY <2>1, <2>3 DEF Uncached
    <3> QED
      BY <1>3, <2>3, <3>2, <3>3 DEF AllocFromBack, driver
  <2> QED
    BY <1>3, <2>2, <2>3 DEF AllocFromBack
<1>4. ASSUME NEW t \in Threads, AllocFromDriver(t)
      PROVE  TypeOK'
  <2>1. req[t] \in Requests
    BY <1>4 DEF AllocFromDriver
  <2>2. /\ allocated' \subseteq Blocks /\ size' \in [Blocks -> Nat]
        /\ bufs' \subseteq Bufs /\ bufs \subseteq bufs'
    BY <1>4, <2>1, NewBufType, DriverBytesType DEF AllocFromDriver
  <2> QED
    BY <1>4, <2>2 DEF AllocFromDriver
<1>5. ASSUME NEW t \in Threads, NEW pb \in bufs, DropBypassed(t, pb)
      PROVE  TypeOK'
  <2>1. \A u \in Threads : hand[u] # pb
    BY <1>5, NoBufAssumption DEF DropBypassed, LiveBufs, Dropping
  <2> QED
    BY <1>5, <2>1, FreedType DEF DropBypassed
<1>6. ASSUME NEW t \in Threads, NEW pb \in bufs, DropIntoFront(t, pb)
      PROVE  TypeOK'
  <2>1. \A u \in Threads : hand[u] # pb
    BY <1>6, NoBufAssumption DEF DropIntoFront, LiveBufs, Dropping
  <2>2. pb.bucket \in Buckets /\ pb.ptr \in Blocks /\ t \in Places
    BY <1>6 DEF DropIntoFront, Bufs, Places
  <2>3. cache' \in [Places -> [Buckets -> SUBSET Blocks]]
    BY <1>6, <2>2 DEF DropIntoFront, Cached
  <2> QED
    BY <1>6, <2>1, <2>3 DEF DropIntoFront, driver
<1>7. ASSUME NEW t \in Threads, NEW pb \in bufs, DropMissFront(t, pb)
      PROVE  TypeOK'
  BY <1>7, NoBufAssumption DEF DropMissFront, driver
<1>8. ASSUME NEW t \in Threads, DropIntoBack(t)
      PROVE  TypeOK'
  <2> DEFINE k == hand[t].bucket
  <2>1. /\ hand[t] \in bufs /\ hand[t].ptr \in Blocks
        /\ k \in Buckets /\ Shared \in Places
    BY <1>8 DEF DropIntoBack, Bufs, Places
  <2>2. CASE Cached(Shared, k, hand[t].ptr) /\ DropDone(t)
    <3>1. cache' \in [Places -> [Buckets -> SUBSET Blocks]]
      BY <2>1, <2>2 DEF Cached
    <3>2. \A u \in Threads : u # t /\ hand[u] # NoBuf => hand[u] # hand[t]
      BY DEF UniqueOwner, OneDropper
    <3> QED
      BY <1>8, <2>2, <3>1, <3>2 DEF DropIntoBack, DropDone, driver
  <2>3. CASE pc' = [pc EXCEPT ![t] = "free"] /\ UNCHANGED <<bufs, cache, hand>>
    BY <1>8, <2>3 DEF DropIntoBack, driver
  <2> QED
    BY <1>8, <2>2, <2>3 DEF DropIntoBack
<1>9. ASSUME NEW t \in Threads, DropToDriver(t)
      PROVE  TypeOK'
  <2>1. \A u \in Threads : u # t /\ hand[u] # NoBuf => hand[u] # hand[t]
    BY DEF UniqueOwner, OneDropper
  <2>2. allocated' \subseteq Blocks /\ size' \in [Blocks -> Nat]
    BY <1>9, FreedType DEF DropToDriver
  <2> QED
    BY <1>9, <2>1, <2>2 DEF DropToDriver, DropDone
<1>10. ASSUME NEW pb \in bufs, IntoInner(pb)
       PROVE  TypeOK'
  <2>1. \A u \in Threads : hand[u] # pb
    BY <1>10, NoBufAssumption DEF IntoInner, LiveBufs, Dropping
  <2>2. pb.ptr \in Blocks
    BY DEF Bufs
  <2> QED
    BY <1>10, <2>1, <2>2 DEF IntoInner, driver
<1>11. ASSUME NEW b \in plain, DropPlain(b)
       PROVE  TypeOK'
  BY <1>11, FreedType DEF DropPlain
<1>12. CASE Shrink \/ DropPool
  BY <1>12, FreedType DEF Shrink, DropPool, Drain, Unborrowed
<1>13. CASE UNCHANGED vars
  BY <1>13 DEF vars, Unborrowed
<1> QED
  BY <1>1, <1>2, <1>3, <1>4, <1>5, <1>6, <1>7, <1>8, <1>9, <1>10, <1>11, <1>12, <1>13
  DEF Next
-----------------------------------------------------------------------------
(***************************************************************************)
(* Ownership.                                                              *)
(***************************************************************************)
Owners == TypeOK /\ UniqueOwner /\ NothingLost

\* No two threads drop one buffer: a drop takes a buffer no drop has begun on.
LEMMA DropperStep ==
  ASSUME TypeOK, OneDropper, [Next]_vars
  PROVE  OneDropper'
<1>1. CASE UNCHANGED hand
  BY <1>1 DEF OneDropper
<1>2. ASSUME NEW t \in Threads, hand' = [hand EXCEPT ![t] = NoBuf]
      PROVE  OneDropper'
  BY <1>2 DEF OneDropper, TypeOK
<1>3. ASSUME NEW t \in Threads, NEW pb \in bufs, DropMissFront(t, pb)
      PROVE  OneDropper'
  <2>1. \A u \in Threads : hand[u] # pb
    BY <1>3, NoBufAssumption DEF DropMissFront, LiveBufs, Dropping, TypeOK
  <2> QED
    BY <1>3, <2>1 DEF DropMissFront, OneDropper, TypeOK
<1> QED
  BY <1>1, <1>2, <1>3
  DEF Next, vars, AllocFromFront, AllocMissFront, AllocFromBack, AllocFromDriver,
      DropBypassed, DropIntoFront, DropIntoBack, DropToDriver, DropDone, IntoInner,
      DropPlain, Shrink, DropPool, Drain

\* A cached block becomes a buffer.
LEMMA CacheToBuf ==
  ASSUME Owners, OneDropper', pool = "open", pool' = pool,
         NEW c \in Places, NEW k \in Buckets, NEW b \in cache[c][k],
         NEW r \in Requests,
         Uncached(c, k, b), bufs' = bufs \cup {NewBuf(b, r)},
         UNCHANGED <<allocated, plain>>
  PROVE  UniqueOwner' /\ NothingLost'
<1> USE DEF Owners
<1>1. b \in Blocks /\ NewBuf(b, r).ptr = b
  BY NewBufType DEF TypeOK
<1>2. Ptrs(bufs') = Ptrs(bufs) \cup {b}
  BY <1>1 DEF Ptrs
<1>3. /\ b \notin Ptrs(bufs) /\ b \notin plain
      /\ \A d \in Places, j \in Buckets : b \in cache[d][j] => c = d /\ k = j
  BY DEF UniqueOwner
<1>4. \A d \in Places, j \in Buckets :
        cache'[d][j] = IF d = c /\ j = k THEN cache[c][k] \ {b} ELSE cache[d][j]
  BY DEF Uncached, TypeOK
<1>5. AllCached' = AllCached \ {b} /\ b \in AllCached
  BY <1>3, <1>4 DEF AllCached
<1>6. \A p, q \in bufs' : p.ptr = q.ptr => p = q
  BY <1>1, <1>3 DEF UniqueOwner, Ptrs
<1>7. UniqueOwner'
  <2>1. Ptrs(bufs') \cap plain' = {}
    <3>1. Ptrs(bufs) \cap plain = {} /\ b \notin plain
      BY <1>3 DEF UniqueOwner
    <3> QED
      BY <3>1, <1>2
  <2>2. ASSUME NEW d \in Places, NEW j \in Buckets
        PROVE  cache'[d][j] \cap (Ptrs(bufs') \cup plain') = {}
    <3>1. cache[d][j] \cap (Ptrs(bufs) \cup plain) = {}
      BY DEF UniqueOwner
    <3>2. cache'[d][j] \subseteq cache[d][j] /\ b \notin cache'[d][j]
      BY <1>3, <1>4
    <3> QED
      BY <3>1, <3>2, <1>2
  <2>3. ASSUME NEW d \in Places, NEW e \in Places, NEW i \in Buckets, NEW j \in Buckets,
               cache'[d][i] \cap cache'[e][j] # {}
        PROVE  d = e /\ i = j
    <3>1. cache[d][i] \cap cache[e][j] # {}
      BY <1>4, <2>3
    <3> QED
      BY <3>1 DEF UniqueOwner
  <2> QED
    BY <1>6, <2>1, <2>2, <2>3 DEF UniqueOwner, Ptrs
<1>8. NothingLost'
  BY <1>2, <1>5 DEF NothingLost
<1> QED
  BY <1>7, <1>8

\* A buffer's block goes into a cache.
LEMMA BufToCache ==
  ASSUME Owners, OneDropper', pool' = pool,
         NEW c \in Places, NEW k \in Buckets, NEW pb \in bufs,
         Cached(c, k, pb.ptr), bufs' = bufs \ {pb},
         UNCHANGED <<allocated, plain>>
  PROVE  UniqueOwner' /\ NothingLost'
<1> USE DEF Owners
<1> DEFINE b == pb.ptr
<1>1. b \in Blocks /\ b \in Ptrs(bufs)
  BY DEF TypeOK, Bufs, Ptrs
<1>2. Ptrs(bufs') = Ptrs(bufs) \ {b}
  BY DEF Ptrs, UniqueOwner
<1>3. b \notin plain /\ \A d \in Places, j \in Buckets : b \notin cache[d][j]
  BY <1>1 DEF UniqueOwner
<1>4. \A d \in Places, j \in Buckets :
        cache'[d][j] = IF d = c /\ j = k THEN cache[c][k] \cup {b} ELSE cache[d][j]
  BY DEF Cached, TypeOK
<1>5. AllCached' = AllCached \cup {b}
  BY <1>4 DEF AllCached
<1>6. UniqueOwner'
  <2>1. Ptrs(bufs') \cap plain' = {}
    BY <1>2 DEF UniqueOwner
  <2>2. ASSUME NEW d \in Places, NEW j \in Buckets
        PROVE  cache'[d][j] \cap (Ptrs(bufs') \cup plain') = {}
    <3>1. cache[d][j] \cap (Ptrs(bufs) \cup plain) = {}
      BY DEF UniqueOwner
    <3>2. cache'[d][j] \subseteq cache[d][j] \cup {b}
      BY <1>4
    <3> QED
      BY <3>1, <3>2, <1>2, <1>3
  <2>3. ASSUME NEW d \in Places, NEW e \in Places, NEW i \in Buckets, NEW j \in Buckets,
               NEW x \in cache'[d][i], x \in cache'[e][j]
        PROVE  d = e /\ i = j
    <3>1. CASE x = b
      BY <1>3, <1>4, <2>3, <3>1
    <3>2. CASE x # b
      BY <1>4, <2>3, <3>2 DEF UniqueOwner
    <3> QED
      BY <3>1, <3>2
  <2>4. \A p, q \in bufs' : p.ptr = q.ptr => p = q
    BY DEF UniqueOwner
  <2> QED
    BY <2>1, <2>2, <2>3, <2>4 DEF UniqueOwner, Ptrs
<1>7. NothingLost'
  BY <1>1, <1>2, <1>5 DEF NothingLost
<1> QED
  BY <1>6, <1>7

\* A buffer's block leaves the bufs: to a plain DeviceBuf or to the driver.
LEMMA BufLeaves ==
  ASSUME Owners, OneDropper', pool' = pool,
         NEW pb \in bufs, bufs' = bufs \ {pb}, UNCHANGED cache,
         \/ allocated' = allocated \ {pb.ptr} /\ UNCHANGED plain
         \/ UNCHANGED allocated /\ plain' = plain \cup {pb.ptr} /\ pool = "open"
  PROVE  UniqueOwner' /\ NothingLost'
<1> USE DEF Owners
<1>1. pb.ptr \in Ptrs(bufs) /\ Ptrs(bufs') = Ptrs(bufs) \ {pb.ptr}
  BY DEF Ptrs, UniqueOwner
<1>2. pb.ptr \notin plain /\ pb.ptr \notin AllCached /\ AllCached' = AllCached
  BY <1>1 DEF UniqueOwner, AllCached
<1>3. UniqueOwner'
  <2>1. Ptrs(bufs') \cap plain' = {}
    BY <1>1, <1>2 DEF UniqueOwner
  <2>2. ASSUME NEW d \in Places, NEW j \in Buckets
        PROVE  cache'[d][j] \cap (Ptrs(bufs') \cup plain') = {}
    <3>1. cache[d][j] \cap (Ptrs(bufs) \cup plain) = {} /\ pb.ptr \notin cache[d][j]
      BY <1>2 DEF UniqueOwner, AllCached
    <3> QED
      BY <3>1, <1>1
  <2> QED
    BY <2>1, <2>2 DEF UniqueOwner, Ptrs
<1>4. NothingLost'
  BY <1>1, <1>2 DEF NothingLost
<1> QED
  BY <1>3, <1>4
\* A block fresh from the driver becomes a buffer: nobody owned it before.
LEMMA FreshToBuf ==
  ASSUME Owners, OneDropper', pool = "open", pool' = pool,
         NEW r \in Requests, NEW b \in Blocks \ allocated,
         bufs' = bufs \cup {NewBuf(b, r)}, allocated' = allocated \cup {b},
         UNCHANGED <<cache, plain>>
  PROVE  UniqueOwner' /\ NothingLost'
<1> USE DEF Owners
<1>1. NewBuf(b, r).ptr = b
  BY NewBufType
<1>2. Ptrs(bufs') = Ptrs(bufs) \cup {b} /\ AllCached' = AllCached
  BY <1>1 DEF Ptrs, AllCached
<1>3. b \notin Ptrs(bufs) /\ b \notin plain /\ b \notin AllCached
  BY DEF NothingLost
<1>4. \A p, q \in bufs' : p.ptr = q.ptr => p = q
  BY <1>1, <1>3 DEF UniqueOwner, Ptrs
<1>5. Ptrs(bufs') \cap plain' = {}
  BY <1>2, <1>3 DEF UniqueOwner
<1>6. ASSUME NEW d \in Places, NEW j \in Buckets
      PROVE  cache'[d][j] \cap (Ptrs(bufs') \cup plain') = {}
  <2>1. cache[d][j] \cap (Ptrs(bufs) \cup plain) = {} /\ b \notin cache[d][j]
    BY <1>3 DEF UniqueOwner, AllCached
  <2> QED
    BY <2>1, <1>2
<1>7. UniqueOwner'
  BY <1>4, <1>5, <1>6 DEF UniqueOwner, Ptrs
<1>8. NothingLost'
  BY <1>2 DEF NothingLost
<1> QED
  BY <1>7, <1>8

\* A plain DeviceBuf is freed.
LEMMA PlainLeaves ==
  ASSUME Owners, OneDropper', pool' = pool, NEW b \in plain,
         plain' = plain \ {b}, allocated' = allocated \ {b}, UNCHANGED <<bufs, cache>>
  PROVE  UniqueOwner' /\ NothingLost'
<1> USE DEF Owners
<1>1. Ptrs(bufs)' = Ptrs(bufs) /\ AllCached' = AllCached
  BY DEF Ptrs, AllCached
<1>2. b \notin Ptrs(bufs) /\ b \notin AllCached
  BY DEF UniqueOwner, AllCached
<1>3. UniqueOwner'
  <2>1. Ptrs(bufs)' \cap plain' = {}
    BY <1>1 DEF UniqueOwner
  <2>2. ASSUME NEW d \in Places, NEW j \in Buckets
        PROVE  cache'[d][j] \cap (Ptrs(bufs)' \cup plain') = {}
    BY <1>1 DEF UniqueOwner
  <2> QED
    BY <2>1, <2>2 DEF UniqueOwner
<1>4. NothingLost'
  BY <1>1, <1>2 DEF NothingLost
<1> QED
  BY <1>3, <1>4

\* shrink and drop: the caches are emptied and exactly their blocks freed.
LEMMA DrainStep ==
  ASSUME Owners, OneDropper', Unborrowed, Drain, pool' \in {pool, "dropped"}
  PROVE  UniqueOwner' /\ NothingLost'
<1> USE DEF Owners, Drain
<1>1. \A d \in Places, j \in Buckets : cache'[d][j] = {}
  OBVIOUS
<1>2. AllCached' = {}
  BY <1>1 DEF AllCached
<1>3. Ptrs(bufs) = {} /\ Ptrs(bufs)' = {}
  BY DEF Unborrowed, Ptrs
<1>4. plain \cap AllCached = {}
  BY DEF UniqueOwner, AllCached
<1>5. UniqueOwner'
  BY <1>1, <1>3 DEF UniqueOwner, Unborrowed
<1>6. NothingLost'
  BY <1>2, <1>3, <1>4 DEF NothingLost, Freed
<1> QED
  BY <1>5, <1>6

\* Steps that only move a thread inside its call change no owner.
LEMMA CallStep ==
  ASSUME Owners, OneDropper', UNCHANGED <<allocated, bufs, plain, cache, pool>>
  PROVE  UniqueOwner' /\ NothingLost'
BY DEF Owners, UniqueOwner, NothingLost, AllCached, Ptrs

LEMMA OwnersStep ==
  ASSUME Owners, [Next]_vars
  PROVE  Owners'
<1>1. TypeOK' /\ OneDropper'
  BY TypeStep, DropperStep DEF Owners, UniqueOwner
<1> SUFFICES UniqueOwner' /\ NothingLost'
  BY <1>1 DEF Owners
<1>2. \A t \in Threads : pc[t] # "idle" => pool = "open"
  BY DEF Owners, TypeOK, Unborrowed
<1>3. ASSUME NEW t \in Threads, NEW r \in Requests, AllocFromFront(t, r)
      PROVE  UniqueOwner' /\ NothingLost'
  <2>1. BucketFor(Bytes(r)) \in Buckets /\ t \in Places
    BY <1>3, RequestTypes DEF AllocFromFront, Places
  <2> QED
    BY <1>1, <1>3, <2>1, CacheToBuf DEF AllocFromFront, driver
<1>4. ASSUME NEW t \in Threads, NEW r \in Requests, AllocMissFront(t, r)
      PROVE  UniqueOwner' /\ NothingLost'
  BY <1>1, <1>4, CallStep DEF AllocMissFront, driver<1>5. ASSUME NEW t \in Threads, AllocFromBack(t)
      PROVE  UniqueOwner' /\ NothingLost'
  <2> DEFINE r == req[t]
             k == BucketFor(Bytes(r))
  <2>1. r \in Requests /\ k \in Buckets /\ Shared \in Places /\ pool = "open"
    BY <1>2, <1>5, RequestTypes DEF AllocFromBack, Places, Owners, TypeOK
  <2>2. CASE UNCHANGED <<bufs, cache>>
    BY <1>1, <1>5, <2>2, CallStep DEF AllocFromBack, driver
  <2>3. ASSUME NEW b \in cache[Shared][k],
               Uncached(Shared, k, b), bufs' = bufs \cup {NewBuf(b, r)}
        PROVE  UniqueOwner' /\ NothingLost'
    BY <1>1, <1>5, <2>1, <2>3, CacheToBuf DEF AllocFromBack, driver
  <2> QED
    BY <1>5, <2>2, <2>3 DEF AllocFromBack
<1>6. ASSUME NEW t \in Threads, AllocFromDriver(t)
      PROVE  UniqueOwner' /\ NothingLost'
  <2>1. req[t] \in Requests /\ pool = "open"
    BY <1>2, <1>6 DEF AllocFromDriver, Owners, TypeOK
  <2>2. CASE UNCHANGED <<allocated, bufs>>
    BY <1>1, <1>6, <2>2, CallStep DEF AllocFromDriver
  <2>3. ASSUME NEW b \in Blocks \ allocated,
               allocated' = allocated \cup {b}, bufs' = bufs \cup {NewBuf(b, req[t])}
        PROVE  UniqueOwner' /\ NothingLost'
    BY <1>1, <1>6, <2>1, <2>3, FreshToBuf DEF AllocFromDriver
  <2> QED
    BY <1>6, <2>2, <2>3 DEF AllocFromDriver
<1>7. ASSUME NEW t \in Threads, NEW pb \in bufs, DropBypassed(t, pb)
      PROVE  UniqueOwner' /\ NothingLost'
  BY <1>1, <1>7, BufLeaves DEF DropBypassed, Freed
<1>8. ASSUME NEW t \in Threads, NEW pb \in bufs, DropIntoFront(t, pb)
      PROVE  UniqueOwner' /\ NothingLost'
  <2>1. pb.bucket \in Buckets /\ t \in Places
    BY <1>8 DEF DropIntoFront, Owners, TypeOK, Bufs, Places
  <2> QED
    BY <1>1, <1>8, <2>1, BufToCache DEF DropIntoFront, driver
<1>9. ASSUME NEW t \in Threads, NEW pb \in bufs, DropMissFront(t, pb)
      PROVE  UniqueOwner' /\ NothingLost'
  BY <1>1, <1>9, CallStep DEF DropMissFront, driver
<1>10. ASSUME NEW t \in Threads, DropIntoBack(t)
       PROVE  UniqueOwner' /\ NothingLost'
  <2>1. hand[t] \in bufs /\ hand[t].bucket \in Buckets /\ Shared \in Places
    BY <1>10 DEF DropIntoBack, Owners, TypeOK, Bufs, Places
  <2>2. CASE Cached(Shared, hand[t].bucket, hand[t].ptr) /\ DropDone(t)
    BY <1>1, <1>10, <2>1, <2>2, BufToCache DEF DropIntoBack, DropDone, driver
  <2>3. CASE UNCHANGED <<bufs, cache, hand>>
    BY <1>1, <1>10, <2>3, CallStep DEF DropIntoBack, driver
  <2> QED
    BY <1>10, <2>2, <2>3 DEF DropIntoBack
<1>11. ASSUME NEW t \in Threads, DropToDriver(t)
       PROVE  UniqueOwner' /\ NothingLost'
  <2>1. hand[t] \in bufs
    BY <1>11 DEF DropToDriver, Owners, TypeOK
  <2> QED
    BY <1>1, <1>11, <2>1, BufLeaves DEF DropToDriver, DropDone, Freed
<1>12. ASSUME NEW pb \in bufs, IntoInner(pb)
       PROVE  UniqueOwner' /\ NothingLost'
  <2>1. pool = "open"
    BY DEF Owners, TypeOK, Unborrowed
  <2> QED
    BY <1>1, <1>12, <2>1, BufLeaves DEF IntoInner, driver
<1>13. ASSUME NEW b \in plain, DropPlain(b)
       PROVE  UniqueOwner' /\ NothingLost'
  BY <1>1, <1>13, PlainLeaves DEF DropPlain, Freed
<1>14. CASE Shrink \/ DropPool
  BY <1>1, <1>14, DrainStep DEF Shrink, DropPool
<1>15. CASE UNCHANGED vars
  BY <1>1, <1>15, CallStep DEF vars
<1> QED
  BY <1>3, <1>4, <1>5, <1>6, <1>7, <1>8, <1>9, <1>10, <1>11, <1>12, <1>13, <1>14, <1>15
  DEF Next

LEMMA OwnersInit == Init => Owners
<1> SUFFICES ASSUME Init PROVE Owners
  OBVIOUS
<1>1. TypeOK
  BY DEF Init, TypeOK
<1>2. AllCached = {} /\ Ptrs(bufs) = {}
  BY DEF Init, AllCached, Ptrs
<1>3. UniqueOwner
  BY <1>2 DEF Init, UniqueOwner, OneDropper
<1>4. NothingLost
  BY <1>2 DEF Init, NothingLost
<1> QED
  BY <1>1, <1>3, <1>4 DEF Owners

THEOREM OwnersInvariant == Spec => []Owners
BY OwnersInit, OwnersStep, PTL DEF Spec

\* Every state of the pool is well typed, and every thread inside a call
\* carries the request or the buffer that call is about.
THEOREM TypeCorrect == Spec => []TypeOK
BY OwnersInvariant, PTL DEF Owners

\* No block is ever handed to two clients, cached twice, or cached while in
\* use, whatever the threads do.
THEOREM UniqueOwnership == Spec => []UniqueOwner
BY OwnersInvariant, PTL DEF Owners

\* No block is leaked or freed under its owner; a dropped pool keeps nothing.
THEOREM Conservation == Spec => []NothingLost
BY OwnersInvariant, PTL DEF Owners
-----------------------------------------------------------------------------
(***************************************************************************)
(* What a pool can retain.                                                 *)
(***************************************************************************)

\* Every cache is a finite set, so its cardinality is a number.
LEMMA CachesFinite ==
  ASSUME TypeOK, NEW c \in Places, NEW k \in Buckets
  PROVE  IsFiniteSet(cache[c][k]) /\ Cardinality(cache[c][k]) \in Nat
<1>1. cache[c][k] \subseteq Blocks
  BY DEF TypeOK
<1> QED
  BY <1>1, PoolAssumption, FS_Subset, FS_CardinalityType

\* A push below the cap stays within it; a pop only makes room.
LEMMA PushBound ==
  ASSUME TypeOK, CacheBound, NEW c \in Places, NEW k \in Buckets, NEW b,
         \/ Cached(c, k, b) /\ Cardinality(cache[c][k]) < Cap(c)
         \/ Uncached(c, k, b)
  PROVE  CacheBound'
<1> SUFFICES ASSUME NEW d \in Places, NEW j \in Buckets
             PROVE  Cardinality(cache'[d][j]) <= Cap(d)
  BY DEF CacheBound
<1>1. Cap(d) \in Nat /\ Cardinality(cache[d][j]) \in Nat /\ IsFiniteSet(cache[d][j])
  BY CachesFinite, PoolAssumption DEF Cap
<1>2. Cardinality(cache[d][j]) <= Cap(d)
  BY DEF CacheBound
<1>3. CASE Cached(c, k, b) /\ Cardinality(cache[c][k]) < Cap(c)
  <2>1. cache'[d][j] = IF d = c /\ j = k THEN cache[d][j] \cup {b} ELSE cache[d][j]
    BY <1>3 DEF Cached, TypeOK
  <2>2. Cardinality(cache[d][j] \cup {b}) =
          IF b \in cache[d][j] THEN Cardinality(cache[d][j]) ELSE Cardinality(cache[d][j]) + 1
    BY <1>1, FS_AddElement
  <2>3. Cardinality(cache[d][j] \cup {b}) \in Nat
    BY <1>1, FS_AddElement, FS_CardinalityType
  <2> QED
    BY <1>1, <1>2, <1>3, <2>1, <2>2, <2>3
<1>4. CASE Uncached(c, k, b)
  <2>1. cache'[d][j] \subseteq cache[d][j]
    BY <1>4 DEF Uncached, TypeOK
  <2>2. Cardinality(cache'[d][j]) <= Cardinality(cache[d][j]) /\ Cardinality(cache'[d][j]) \in Nat
    BY <2>1, <1>1, FS_Subset, FS_CardinalityType
  <2> QED
    BY <1>1, <1>2, <2>2
<1> QED
  BY <1>3, <1>4

LEMMA BoundStep ==
  ASSUME TypeOK, CacheBound, [Next]_vars
  PROVE  CacheBound'
<1>1. ASSUME NEW t \in Threads, NEW r \in Requests, AllocFromFront(t, r)
      PROVE  CacheBound'
  <2>1. BucketFor(Bytes(r)) \in Buckets /\ t \in Places
    BY <1>1, RequestTypes DEF AllocFromFront, Places
  <2> QED
    BY <1>1, <2>1, PushBound DEF AllocFromFront
<1>2. ASSUME NEW t \in Threads, AllocFromBack(t), ~ UNCHANGED cache
      PROVE  CacheBound'
  <2>1. BucketFor(Bytes(req[t])) \in Buckets /\ Shared \in Places
    BY <1>2, RequestTypes DEF AllocFromBack, Places, TypeOK
  <2> QED
    BY <1>2, <2>1, PushBound DEF AllocFromBack
<1>3. ASSUME NEW t \in Threads, NEW pb \in bufs, DropIntoFront(t, pb)
      PROVE  CacheBound'
  <2>1. pb.bucket \in Buckets /\ t \in Places /\ Cap(t) = FrontCap
    BY <1>3, PoolAssumption DEF DropIntoFront, TypeOK, Bufs, Places, Cap
  <2> QED
    BY <1>3, <2>1, PushBound DEF DropIntoFront
<1>4. ASSUME NEW t \in Threads, DropIntoBack(t), ~ UNCHANGED cache
      PROVE  CacheBound'
  <2>1. hand[t].bucket \in Buckets /\ Shared \in Places /\ Cap(Shared) = MaxPerBucket
    BY <1>4 DEF DropIntoBack, TypeOK, Bufs, Places, Cap
  <2> QED
    BY <1>4, <2>1, PushBound DEF DropIntoBack
<1>5. CASE Drain
  <2>1. \A c \in Places, k \in Buckets : Cardinality(cache'[c][k]) = 0 /\ Cap(c) \in Nat
    BY <1>5, FS_EmptySet, PoolAssumption DEF Drain, Cap
  <2> QED
    BY <2>1 DEF CacheBound
<1>6. CASE UNCHANGED cache
  BY <1>6 DEF CacheBound
<1> QED
  BY <1>1, <1>2, <1>3, <1>4, <1>5, <1>6
  DEF Next, vars, AllocMissFront, AllocFromDriver, DropBypassed, DropMissFront,
      DropToDriver, IntoInner, DropPlain, Shrink, DropPool

\* The pool never keeps more of a size class than FRONT_CAP blocks per thread
\* and max_per_bucket shared ones.
THEOREM RetentionBound == Spec => []CacheBound
<1>1. Init => CacheBound
  <2> SUFFICES ASSUME Init PROVE CacheBound
    OBVIOUS
  <2>1. \A c \in Places, k \in Buckets : Cardinality(cache[c][k]) = 0 /\ Cap(c) \in Nat
    BY FS_EmptySet, PoolAssumption DEF Init, Cap
  <2> QED
    BY <2>1 DEF CacheBound
<1>2. TypeOK /\ CacheBound /\ [Next]_vars => CacheBound'
  BY BoundStep
<1> QED
  BY <1>1, <1>2, TypeCorrect, PTL DEF Spec
-----------------------------------------------------------------------------
(***************************************************************************)
(* Capacity.                                                               *)
(***************************************************************************)

\* The strengthening: a pooled block, cached or in use, fills its class.
Filled ==
  /\ BlockCoversRequest
  /\ \A c \in Places, k \in Buckets : \A b \in cache[c][k] : BucketBytes(k) <= size[b]
  /\ \A pb \in bufs : pb.bucket # NoBucket => BucketBytes(pb.bucket) <= size[pb.ptr]

\* A pooled request fits its class, and the driver is asked for a whole class.
LEMMA ClassCovers ==
  ASSUME ElemSizesDivide, NEW r \in Requests
  PROVE  LET k == BucketFor(Bytes(r))
         IN  IF k = NoBucket THEN DriverBytes(r) = Bytes(r)
             ELSE Bytes(r) <= BucketBytes(k) /\ DriverBytes(r) = BucketBytes(k)
<1> DEFINE k == BucketFor(Bytes(r))
<1>1. CASE k = NoBucket
  BY <1>1 DEF DriverBytes
<1>2. CASE k # NoBucket
  <2>1. k \in Buckets /\ SmallestBucket(Bytes(r), k)
    BY <1>2 DEF BucketFor
  <2> QED
    BY <1>2, <2>1 DEF SmallestBucket, DriverBytes, ElemSizesDivide
<1> QED
  BY <1>1, <1>2

\* A cached block serves any request of its class.
LEMMA FilledPop ==
  ASSUME ElemSizesDivide, TypeOK, Filled,
         NEW c \in Places, NEW k \in Buckets, NEW b \in cache[c][k],
         NEW r \in Requests, k = BucketFor(Bytes(r)),
         Uncached(c, k, b), bufs' = bufs \cup {NewBuf(b, r)}, UNCHANGED size
  PROVE  Filled'
<1>1. k # NoBucket /\ b \in Blocks
  <2>1. k # NoBucket
    BY PoolAssumption DEF Buckets, NoBucket, NumBuckets
  <2>2. b \in Blocks
    BY DEF TypeOK
  <2> QED
    BY <2>1, <2>2
<1>2. Bytes(r) <= BucketBytes(k) /\ BucketBytes(k) <= size[b]
  BY <1>1, ClassCovers DEF Filled
<1>3. Bytes(r) <= size[b]
  BY <1>1, <1>2, RequestTypes, PoolAssumption DEF TypeOK
<1>4. BlockCoversRequest'
  BY <1>3 DEF Filled, BlockCoversRequest, NewBuf
<1>5. \A d \in Places, j \in Buckets : cache'[d][j] \subseteq cache[d][j]
  BY DEF Uncached, TypeOK
<1> QED
  BY <1>2, <1>4, <1>5 DEF Filled, NewBuf

\* Buffers and cached blocks may go away, and a buffer's block may be cached,
\* while the blocks that stay keep their size.
LEMMA FilledDrop ==
  ASSUME TypeOK, Filled, bufs' \subseteq bufs,
         \A pb \in bufs' : size'[pb.ptr] = size[pb.ptr],
         \A c \in Places, k \in Buckets : \A b \in cache'[c][k] :
            /\ size'[b] = size[b]
            /\ \/ b \in cache[c][k]
               \/ \E pb \in bufs : pb.ptr = b /\ pb.bucket = k /\ k # NoBucket
  PROVE  Filled'
BY DEF Filled, BlockCoversRequest

LEMMA FilledStep ==
  ASSUME ElemSizesDivide, Owners, Filled, [Next]_vars
  PROVE  Filled'
<1> USE DEF Owners
<1>1. ASSUME NEW t \in Threads, NEW r \in Requests, AllocFromFront(t, r)
      PROVE  Filled'
  <2>1. BucketFor(Bytes(r)) \in Buckets /\ t \in Places
    BY <1>1, RequestTypes DEF AllocFromFront, Places
  <2> QED
    BY <1>1, <2>1, FilledPop DEF AllocFromFront, driver
<1>0. CASE UNCHANGED <<size, cache>> /\ bufs' \subseteq bufs
  BY <1>0, FilledDrop
<1>2. ASSUME NEW t \in Threads, AllocFromBack(t)
      PROVE  Filled'
  <2>1. req[t] \in Requests /\ BucketFor(Bytes(req[t])) \in Buckets /\ Shared \in Places
    BY <1>2, RequestTypes DEF AllocFromBack, Places, TypeOK
  <2> QED
    BY <1>0, <1>2, <2>1, FilledPop DEF AllocFromBack, driver
<1>3. ASSUME NEW t \in Threads, AllocFromDriver(t), ~ UNCHANGED <<allocated, size, bufs>>
      PROVE  Filled'
  <2>1. req[t] \in Requests /\ UNCHANGED cache
    BY <1>3 DEF AllocFromDriver, TypeOK
  <2>2. PICK b \in Blocks \ allocated :
          /\ size' = [size EXCEPT ![b] = DriverBytes(req[t])]
          /\ bufs' = bufs \cup {NewBuf(b, req[t])}
    BY <1>3 DEF AllocFromDriver
  <2>3. /\ size'[b] = DriverBytes(req[t])
        /\ \A x \in Blocks \ {b} : size'[x] = size[x]
    BY <2>2 DEF TypeOK
  <2>4. \A pb \in bufs : pb.ptr \in Blocks \ {b}
    BY DEF NothingLost, Ptrs, TypeOK, Bufs
  <2>5. \A c \in Places, k \in Buckets : \A x \in cache[c][k] : x \in Blocks \ {b}
    BY DEF NothingLost, AllCached, TypeOK
  <2>6. LET k == BucketFor(Bytes(req[t]))
        IN  Bytes(req[t]) <= size'[b] /\ (k # NoBucket => BucketBytes(k) <= size'[b])
    BY <2>1, <2>3, ClassCovers, RequestTypes, DriverBytesType
  <2>7. BlockCoversRequest'
    BY <2>2, <2>3, <2>4, <2>6 DEF Filled, BlockCoversRequest, NewBuf
  <2>8. \A pb \in bufs' : pb.bucket # NoBucket => BucketBytes(pb.bucket) <= size'[pb.ptr]
    BY <2>2, <2>3, <2>4, <2>6 DEF Filled, NewBuf
  <2> QED
    BY <2>1, <2>3, <2>5, <2>7, <2>8 DEF Filled
<1>4. ASSUME NEW t \in Threads, NEW pb \in bufs, DropIntoFront(t, pb)
      PROVE  Filled'
  <2>1. \A c \in Places, k \in Buckets : cache'[c][k] \subseteq
          cache[c][k] \cup (IF c = t /\ k = pb.bucket THEN {pb.ptr} ELSE {})
    BY <1>4 DEF DropIntoFront, Cached, TypeOK
  <2> QED
    BY <1>4, <2>1, FilledDrop DEF DropIntoFront, driver
<1>5. ASSUME NEW t \in Threads, DropIntoBack(t), ~ UNCHANGED <<bufs, cache>>
      PROVE  Filled'
  <2>1. hand[t] \in bufs /\ hand[t].bucket # NoBucket
    BY <1>5 DEF DropIntoBack, TypeOK
  <2>2. \A c \in Places, k \in Buckets : cache'[c][k] \subseteq
          cache[c][k] \cup (IF c = Shared /\ k = hand[t].bucket THEN {hand[t].ptr} ELSE {})
    BY <1>5 DEF DropIntoBack, Cached, TypeOK
  <2> QED
    BY <1>5, <2>1, <2>2, FilledDrop DEF DropIntoBack, DropDone, driver
<1>6. ASSUME NEW pb \in bufs, Freed({pb.ptr}), bufs' = bufs \ {pb}, UNCHANGED cache
      PROVE  Filled'
  <2>1. \A p \in bufs' : p.ptr # pb.ptr /\ p.ptr \in Blocks
    BY <1>6 DEF UniqueOwner, TypeOK, Bufs
  <2>2. \A c \in Places, k \in Buckets : \A b \in cache[c][k] : b # pb.ptr /\ b \in Blocks
    BY DEF UniqueOwner, Ptrs, TypeOK
  <2> QED
    BY <1>6, <2>1, <2>2, FilledDrop DEF Freed
<1>7. ASSUME NEW x \in plain, DropPlain(x)
      PROVE  Filled'
  <2>1. \A p \in bufs : p.ptr # x /\ p.ptr \in Blocks
    BY DEF UniqueOwner, Ptrs, TypeOK, Bufs
  <2>2. \A c \in Places, k \in Buckets : \A b \in cache[c][k] : b # x /\ b \in Blocks
    BY DEF UniqueOwner, TypeOK
  <2> QED
    BY <1>7, <2>1, <2>2, FilledDrop DEF DropPlain, Freed
<1>8. CASE Drain /\ Unborrowed
  BY <1>8, FilledDrop DEF Drain, Unborrowed
<1>9. ASSUME NEW t \in Threads, DropToDriver(t)
      PROVE  Filled'
  <2>1. hand[t] \in bufs
    BY <1>9 DEF DropToDriver, TypeOK
  <2> QED
    BY <1>6, <1>9, <2>1 DEF DropToDriver, DropDone
<1> QED
  BY <1>0, <1>1, <1>2, <1>3, <1>4, <1>5, <1>6, <1>7, <1>8, <1>9
  DEF Next, vars, driver, AllocMissFront, AllocFromDriver, DropBypassed,
      DropMissFront, DropIntoBack, IntoInner, Shrink, DropPool

\* When element sizes divide the size classes, every buffer, recycled or not,
\* has at least the memory it was asked for.
THEOREM CapacityCorrect ==
  ASSUME ElemSizesDivide
  PROVE  Spec => []BlockCoversRequest
<1>1. Init => Filled
  BY DEF Init, Filled, BlockCoversRequest
<1>2. Owners /\ Filled /\ [Next]_vars => Filled'
  BY FilledStep
<1>3. Filled => BlockCoversRequest
  BY DEF Filled
<1> QED
  BY <1>1, <1>2, <1>3, OwnersInvariant, PTL DEF Spec
-----------------------------------------------------------------------------
(***************************************************************************)
(* The pool implements the allocator without caches.                       *)
(***************************************************************************)
Client == Ptrs(LiveBufs) \cup plain

\* A cached block given to a new buffer is acquired by a client.
LEMMA AcquireStep ==
  ASSUME Owners, NEW r \in Requests, NEW b \in Blocks,
         b \notin Ptrs(bufs) \cup plain,
         bufs' = bufs \cup {NewBuf(b, r)}, UNCHANGED <<hand, plain>>,
         allocated' = allocated \cup {b}
  PROVE  Abstract!Acquire(b)
<1> USE DEF Owners
<1>1. NewBuf(b, r).ptr = b /\ NewBuf(b, r) \notin bufs
  BY NewBufType DEF Ptrs
<1>2. NewBuf(b, r) \notin Dropping /\ Dropping' = Dropping
  BY <1>1 DEF Dropping, TypeOK
<1>3. LiveBufs' = LiveBufs \cup {NewBuf(b, r)}
  BY <1>2 DEF LiveBufs
<1>4. Client' = Client \cup {b}
  BY <1>1, <1>3 DEF Client, Ptrs
<1>5. b \notin Client
  BY DEF Client, Ptrs, LiveBufs
<1> QED
  BY <1>4, <1>5 DEF Abstract!Acquire, Client

\* A buffer that ends, or whose drop begins, leaves the client's hands.
LEMMA GivenUp ==
  ASSUME Owners, NEW pb \in LiveBufs, LiveBufs' = LiveBufs \ {pb}, UNCHANGED plain
  PROVE  pb.ptr \in Client /\ Client' = Client \ {pb.ptr}
BY DEF Owners, UniqueOwner, Client, Ptrs, LiveBufs
\* A buffer that goes for good, its block wherever the caller says.
LEMMA BufGone ==
  ASSUME Owners, NEW pb \in LiveBufs, bufs' = bufs \ {pb}, UNCHANGED hand
  PROVE  LiveBufs' = LiveBufs \ {pb}
BY DEF LiveBufs, Dropping

\* The end of a drop that had missed the front cache: nothing a client holds.
LEMMA DropEnds ==
  ASSUME Owners, NEW t \in Threads, hand[t] # NoBuf, DropDone(t), UNCHANGED plain
  PROVE  UNCHANGED Client /\ hand[t].ptr \notin Client
<1>1. hand[t] \in bufs /\ \A u \in Threads \ {t} : hand[u] # hand[t]
  BY DEF Owners, TypeOK, UniqueOwner, OneDropper
<1>2. Dropping' = Dropping \ {hand[t]} /\ hand[t] \in Dropping
  BY <1>1, NoBufAssumption DEF DropDone, Dropping, Owners, TypeOK
<1>3. LiveBufs' = LiveBufs
  BY <1>2 DEF LiveBufs, DropDone
<1>4. hand[t].ptr \notin Client
  BY <1>1, <1>2 DEF Client, Ptrs, LiveBufs, Owners, UniqueOwner
<1> QED
  BY <1>3, <1>4 DEF Client, Ptrs

LEMMA RefinementStep ==
  ASSUME Owners, [Next]_vars
  PROVE  [Abstract!ANext]_(Abstract!avars)
<1> USE DEF Owners
<1> SUFFICES \/ \E b \in Blocks : Abstract!Acquire(b) \/ Abstract!Release(b)
                                   \/ Abstract!ReleaseToDriver(b)
             \/ \E B \in SUBSET allocated : Abstract!Trim(B)
             \/ UNCHANGED <<allocated, Client>>
  BY DEF Abstract!ANext, Abstract!avars, Client
<1>1. ASSUME NEW t \in Threads, NEW r \in Requests, AllocFromFront(t, r)
      PROVE  \E b \in Blocks : Abstract!Acquire(b)
  <2>1. BucketFor(Bytes(r)) \in Buckets /\ t \in Places
    BY <1>1, RequestTypes DEF AllocFromFront, Places
  <2>2. PICK b \in cache[t][BucketFor(Bytes(r))] : bufs' = bufs \cup {NewBuf(b, r)}
    BY <1>1 DEF AllocFromFront
  <2>3. b \in Blocks /\ b \notin Ptrs(bufs) \cup plain /\ b \in allocated
    BY <2>1, <2>2 DEF UniqueOwner, TypeOK, NothingLost, AllCached
  <2> QED
    BY <1>1, <2>2, <2>3, AcquireStep DEF AllocFromFront, driver
<1>2. ASSUME NEW t \in Threads, AllocFromBack(t), ~ UNCHANGED <<bufs, cache>>
      PROVE  \E b \in Blocks : Abstract!Acquire(b)
  <2>1. BucketFor(Bytes(req[t])) \in Buckets /\ Shared \in Places /\ req[t] \in Requests
    BY <1>2, RequestTypes DEF AllocFromBack, Places, TypeOK
  <2>2. PICK b \in cache[Shared][BucketFor(Bytes(req[t]))] : bufs' = bufs \cup {NewBuf(b, req[t])}
    BY <1>2 DEF AllocFromBack
  <2>3. b \in Blocks /\ b \notin Ptrs(bufs) \cup plain /\ b \in allocated
    BY <2>1, <2>2 DEF UniqueOwner, TypeOK, NothingLost, AllCached
  <2> QED
    BY <1>2, <2>1, <2>2, <2>3, AcquireStep DEF AllocFromBack, driver
<1>3. ASSUME NEW t \in Threads, AllocFromDriver(t), ~ UNCHANGED <<allocated, size, bufs>>
      PROVE  \E b \in Blocks : Abstract!Acquire(b)
  <2>1. PICK b \in Blocks \ allocated :
          allocated' = allocated \cup {b} /\ bufs' = bufs \cup {NewBuf(b, req[t])}
    BY <1>3 DEF AllocFromDriver
  <2>2. b \notin Ptrs(bufs) \cup plain
    BY <2>1 DEF NothingLost
  <2> QED
    BY <1>3, <2>1, <2>2, AcquireStep DEF AllocFromDriver, TypeOK
<1>4. ASSUME NEW t \in Threads, NEW pb \in bufs, DropBypassed(t, pb)
      PROVE  \E b \in Blocks : Abstract!ReleaseToDriver(b)
  <2>1. pb \in LiveBufs /\ LiveBufs' = LiveBufs \ {pb}
    BY <1>4, BufGone DEF DropBypassed
  <2>2. pb.ptr \in Client /\ Client' = Client \ {pb.ptr} /\ pb.ptr \in Blocks
    BY <1>4, <2>1, GivenUp DEF DropBypassed, TypeOK, Bufs
  <2> QED
    BY <1>4, <2>2 DEF DropBypassed, Freed, Abstract!ReleaseToDriver, Client
<1>5. ASSUME NEW t \in Threads, NEW pb \in bufs, DropIntoFront(t, pb)
      PROVE  \E b \in Blocks : Abstract!Release(b)
  <2>1. pb \in LiveBufs /\ LiveBufs' = LiveBufs \ {pb}
    BY <1>5, BufGone DEF DropIntoFront
  <2>2. pb.ptr \in Client /\ Client' = Client \ {pb.ptr} /\ pb.ptr \in Blocks
    BY <1>5, <2>1, GivenUp DEF DropIntoFront, TypeOK, Bufs
  <2> QED
    BY <1>5, <2>2 DEF DropIntoFront, driver, Abstract!Release, Client
<1>6. ASSUME NEW t \in Threads, NEW pb \in bufs, DropMissFront(t, pb)
      PROVE  \E b \in Blocks : Abstract!Release(b)
  <2>1. hand[t] = NoBuf
    BY <1>6 DEF DropMissFront, TypeOK
  <2>2. Dropping' = Dropping \cup {pb} /\ pb \in LiveBufs
    BY <1>6, <2>1, NoBufAssumption DEF DropMissFront, Dropping, TypeOK
  <2>3. LiveBufs' = LiveBufs \ {pb}
    BY <1>6, <2>2 DEF DropMissFront, LiveBufs
  <2>4. pb.ptr \in Client /\ Client' = Client \ {pb.ptr} /\ pb.ptr \in Blocks
    BY <1>6, <2>2, <2>3, GivenUp DEF DropMissFront, TypeOK, Bufs
  <2> QED
    BY <1>6, <2>4 DEF DropMissFront, driver, Abstract!Release, Client
<1>7. ASSUME NEW t \in Threads, DropIntoBack(t)
      PROVE  UNCHANGED <<allocated, Client>>
  <2>1. hand[t] # NoBuf
    BY <1>7 DEF DropIntoBack, TypeOK
  <2> QED
    BY <1>7, <2>1, DropEnds DEF DropIntoBack, driver, Client, Ptrs, LiveBufs, Dropping
<1>8. ASSUME NEW t \in Threads, DropToDriver(t)
      PROVE  \E B \in SUBSET allocated : Abstract!Trim(B)
  <2>1. hand[t] # NoBuf /\ hand[t] \in bufs
    BY <1>8 DEF DropToDriver, TypeOK
  <2>2. UNCHANGED Client /\ hand[t].ptr \notin Client /\ hand[t].ptr \in allocated
    BY <1>8, <2>1, DropEnds DEF DropToDriver, NothingLost, Ptrs
  <2> QED
    BY <1>8, <2>2 DEF DropToDriver, Freed, Abstract!Trim, Client
<1>9. ASSUME NEW pb \in bufs, IntoInner(pb)
      PROVE  UNCHANGED <<allocated, Client>>
  <2>1. pb \in LiveBufs /\ LiveBufs' = LiveBufs \ {pb}
    BY <1>9, BufGone DEF IntoInner
  <2> QED
    BY <1>9, <2>1 DEF IntoInner, driver, Client, Ptrs, UniqueOwner, LiveBufs
<1>10. ASSUME NEW b \in plain, DropPlain(b)
       PROVE  Abstract!ReleaseToDriver(b) /\ b \in Blocks
  <2>1. b \notin Ptrs(LiveBufs) /\ LiveBufs' = LiveBufs /\ b \in Blocks
    BY <1>10 DEF DropPlain, UniqueOwner, Ptrs, LiveBufs, Dropping, TypeOK
  <2>2. Client' = Client \ {b} /\ b \in Client
    BY <1>10, <2>1 DEF DropPlain, Client, Ptrs
  <2> QED
    BY <1>10, <2>1, <2>2 DEF DropPlain, Freed, Abstract!ReleaseToDriver, Client
<1>11. CASE Drain /\ Unborrowed
  <2>1. AllCached \subseteq allocated \ Client /\ UNCHANGED Client
    BY <1>11 DEF Drain, Unborrowed, NothingLost, UniqueOwner, AllCached, Client, Ptrs, LiveBufs,
                 Dropping
  <2>2. Abstract!Trim(AllCached)
    BY <1>11, <2>1 DEF Drain, Freed, Abstract!Trim, Client
  <2> QED
    BY <2>1, <2>2
<1>12. CASE UNCHANGED <<allocated, bufs, plain, hand>>
  BY <1>12 DEF Client, Ptrs, LiveBufs, Dropping
<1> QED
  BY <1>1, <1>2, <1>3, <1>4, <1>5, <1>6, <1>7, <1>8, <1>9, <1>10, <1>11, <1>12
  DEF Next, vars, driver, AllocMissFront, AllocFromBack, AllocFromDriver, Shrink, DropPool, TypeOK

\* With its caches hidden, the pool is an allocator that hands a block to one
\* client at a time and returns to the driver only what no client holds.
THEOREM Refinement == Spec => ImplementsAllocator
<1>1. Init => Abstract!AInit
  BY DEF Init, Abstract!AInit, Ptrs, LiveBufs
<1>2. Owners /\ [Next]_vars => [Abstract!ANext]_(Abstract!avars)
  BY RefinementStep
<1> QED
  BY <1>1, <1>2, OwnersInvariant, PTL DEF Spec, ImplementsAllocator, Abstract!ASpec
=============================================================================
