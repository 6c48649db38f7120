------------------------------ MODULE MemPool ------------------------------
(***************************************************************************)
(* The CUDA per-stream memory pool (ironaccelerator-cuda/src/pool.rs).     *)
(*                                                                         *)
(* A pool serves device blocks from three tiers: the calling thread's own  *)
(* front cache (no lock), the shared back cache (one mutex per bucket) and *)
(* the driver.  Dropping a PooledBuf walks the tiers in the same order.    *)
(* Buffers are Send, so any thread may drop a buffer another allocated.    *)
(*                                                                         *)
(* A step of a call is one tier: the front cache is private to a thread,   *)
(* the back cache is touched under its lock and the driver call is atomic, *)
(* so other threads act between tiers and never inside one.                *)
(*                                                                         *)
(* Each cache is a set of blocks.  The code keeps stacks; which cached     *)
(* block a pop returns matters to no property below.                       *)
(***************************************************************************)
EXTENDS Integers, FiniteSets

CONSTANTS
  Threads,       \* thread ids (thread_local ids: a later thread reuses one)
  Shared,        \* the name of the back cache, next to the threads' fronts
  Blocks,        \* device addresses the driver can hand out
  NoBuf,         \* "this call has no buffer in hand"
  NoReq,         \* "this call has no request"
  Requests,      \* what alloc::<T>(len) is asked: records [len, elem]
  MinBucketLog2, MaxBucketLog2, \* MIN_BUCKET_LOG2, MAX_BUCKET_LOG2
  FrontCap,      \* FRONT_CAP
  MaxPerBucket   \* max_per_bucket

NumBuckets == MaxBucketLog2 - MinBucketLog2 + 1

Buckets == 0 .. NumBuckets - 1

NoBucket == -1

BucketBytes(k) == 2 ^ (k + MinBucketLog2)

ASSUME PoolAssumption ==
  /\ Shared \notin Threads
  /\ MinBucketLog2 \in Nat /\ MaxBucketLog2 \in Nat /\ MinBucketLog2 <= MaxBucketLog2
  /\ FrontCap \in Nat /\ MaxPerBucket \in Nat
  /\ Requests \subseteq [len : Nat \ {0}, elem : Nat \ {0}]
  /\ NoReq \notin Requests
  /\ IsFiniteSet(Blocks)
  /\ \A k \in Buckets : BucketBytes(k) \in Nat   \* powers of two

\* Element sizes divide every size class: true of the sizes 1, 2, 4 and 8 of
\* the types drv.rs implements Repr for, not of every type a user may add.
ElemSizesDivide ==
  \A r \in Requests, k \in Buckets :
    (BucketBytes(k) \div r.elem) * r.elem = BucketBytes(k)

Places == Threads \cup {Shared}

Bufs == [ptr : Blocks, bucket : Buckets \cup {NoBucket}, bytes : Nat]

ASSUME NoBufAssumption == NoBuf \notin Bufs

VARIABLES
  allocated,  \* blocks obtained from the driver and not freed
  size,       \* bytes the driver allocated at a block (0: none)
  bufs,       \* PooledBufs that exist, as records
  plain,      \* blocks of DeviceBufs made by into_inner
  cache,      \* cache[t][k]: front cache of thread t; cache[Shared][k]: back
  pc,         \* where each thread is in its call
  req,        \* the request of a thread inside alloc
  hand,       \* the buffer a thread is dropping
  pool        \* "open" or "dropped"

vars == <<allocated, size, bufs, plain, cache, pc, req, hand, pool>>

driver == <<allocated, size>>

(***************************************************************************)
(* Size classes.                                                           *)
(***************************************************************************)
Bytes(r) == r.len * r.elem

\* The smallest size class that holds the bytes; zero bytes and requests
\* above the largest class bypass the pool.
SmallestBucket(bytes, k) ==
  /\ bytes > 0
  /\ bytes <= BucketBytes(k)
  /\ \A j \in Buckets : bytes <= BucketBytes(j) => k <= j

BucketFor(bytes) ==
  IF \E k \in Buckets : SmallestBucket(bytes, k)
    THEN CHOOSE k \in Buckets : SmallestBucket(bytes, k)
    ELSE NoBucket

\* Mutant: the block is as large as the first request, not as its class.
DriverBytesUnrounded(r) == Bytes(r)

\* What tier 3 asks of the driver: bucket_capacity / size_of::<T>() whole
\* elements for a pooled class, exactly the request for a bypass.
DriverBytes(r) ==
  LET k == BucketFor(Bytes(r))
  IN IF k = NoBucket THEN Bytes(r)
     ELSE (BucketBytes(k) \div r.elem) * r.elem

NewBuf(b, r) == [ptr |-> b, bucket |-> BucketFor(Bytes(r)), bytes |-> Bytes(r)]

Dropping == {hand[t] : t \in Threads} \ {NoBuf}

\* Buffers the program can use: those no drop has begun on.
LiveBufs == bufs \ Dropping

Init ==
  /\ allocated = {}
  /\ size = [b \in Blocks |-> 0]
  /\ bufs = {}
  /\ plain = {}
  /\ cache = [c \in Places |-> [k \in Buckets |-> {}]]
  /\ pc = [t \in Threads |-> "idle"]
  /\ req = [t \in Threads |-> NoReq]
  /\ hand = [t \in Threads |-> NoBuf]
  /\ pool = "open"

(***************************************************************************)
(* MemPool::alloc and alloc_zeros.  A memset that fails in alloc_zeros     *)
(* drops the buffer just obtained: an alloc followed by a drop.            *)
(***************************************************************************)
Cached(c, k, b) == cache' = [cache EXCEPT ![c][k] = @ \cup {b}]

Uncached(c, k, b) == cache' = [cache EXCEPT ![c][k] = @ \ {b}]

\* Mutant: takes the top of the front cache and forgets `*flen -= 1`.
AllocFromFrontKept(t, r) ==
  LET k == BucketFor(Bytes(r)) IN
  /\ pool = "open" /\ pc[t] = "idle" /\ k # NoBucket
  /\ \E b \in cache[t][k] : bufs' = bufs \cup {NewBuf(b, r)}
  /\ UNCHANGED <<driver, plain, cache, pc, req, hand, pool>>

\* Tier 1: pop the calling thread's front cache.
AllocFromFront(t, r) ==
  LET k == BucketFor(Bytes(r)) IN
  /\ pool = "open" /\ pc[t] = "idle" /\ k # NoBucket
  /\ \E b \in cache[t][k] :
       /\ Uncached(t, k, b)
       /\ bufs' = bufs \cup {NewBuf(b, r)}
  /\ UNCHANGED <<driver, plain, pc, req, hand, pool>>

\* The front cache of the class is empty, or the request bypasses the pool.
AllocMissFront(t, r) ==
  LET k == BucketFor(Bytes(r)) IN
  /\ pool = "open" /\ pc[t] = "idle"
  /\ k # NoBucket => cache[t][k] = {}
  /\ pc' = [pc EXCEPT ![t] = IF k = NoBucket THEN "driver" ELSE "back"]
  /\ req' = [req EXCEPT ![t] = r]
  /\ UNCHANGED <<driver, bufs, plain, cache, hand, pool>>

\* Tier 2: lock the shared cache of the class and pop it.
AllocFromBack(t) ==
  LET r == req[t]
      k == BucketFor(Bytes(r)) IN
  /\ pc[t] = "back"
  /\ \/ /\ cache[Shared][k] = {}
        /\ pc' = [pc EXCEPT ![t] = "driver"]
        /\ UNCHANGED <<bufs, cache, req>>
     \/ \E b \in cache[Shared][k] :
        /\ Uncached(Shared, k, b)
        /\ bufs' = bufs \cup {NewBuf(b, r)}
        /\ pc' = [pc EXCEPT ![t] = "idle"]
        /\ req' = [req EXCEPT ![t] = NoReq]
  /\ UNCHANGED <<driver, plain, hand, pool>>

\* Tier 3: cuMemAllocAsync.  It may fail at any time.
AllocFromDriver(t) ==
  /\ pc[t] = "driver"
  /\ \/ UNCHANGED <<allocated, size, bufs>>
     \/ \E b \in Blocks \ allocated :
        /\ allocated' = allocated \cup {b}
        /\ size' = [size EXCEPT ![b] = DriverBytes(req[t])]
        /\ bufs' = bufs \cup {NewBuf(b, req[t])}
  /\ pc' = [pc EXCEPT ![t] = "idle"]
  /\ req' = [req EXCEPT ![t] = NoReq]
  /\ UNCHANGED <<plain, cache, hand, pool>>

(***************************************************************************)
(* Drop for PooledBuf.                                                     *)
(***************************************************************************)
\* cuMemFreeAsync on some blocks.
Freed(B) ==
  /\ allocated' = allocated \ B
  /\ size' = [b \in Blocks |-> IF b \in B THEN 0 ELSE size[b]]

\* A bypassed allocation goes straight back to the driver.
DropBypassed(t, pb) ==
  /\ pc[t] = "idle" /\ pb \in LiveBufs /\ pb.bucket = NoBucket
  /\ bufs' = bufs \ {pb}
  /\ Freed({pb.ptr})
  /\ UNCHANGED <<plain, cache, pc, req, hand, pool>>

\* Mutant: caches the block without detach_ptr: DeviceBuf's own drop frees it too.
DropIntoFrontUndetached(t, pb) ==
  LET k == pb.bucket IN
  /\ pc[t] = "idle" /\ pb \in LiveBufs /\ k # NoBucket
  /\ Cardinality(cache[t][k]) < FrontCap
  /\ Cached(t, k, pb.ptr)
  /\ bufs' = bufs \ {pb}
  /\ Freed({pb.ptr})
  /\ UNCHANGED <<plain, pc, req, hand, pool>>

\* Tier 1: push to the front cache of the thread that drops.
DropIntoFront(t, pb) ==
  LET k == pb.bucket IN
  /\ pc[t] = "idle" /\ pb \in LiveBufs /\ k # NoBucket
  /\ Cardinality(cache[t][k]) < FrontCap
  /\ Cached(t, k, pb.ptr)
  /\ bufs' = bufs \ {pb}
  /\ UNCHANGED <<driver, plain, pc, req, hand, pool>>

DropMissFront(t, pb) ==
  LET k == pb.bucket IN
  /\ pc[t] = "idle" /\ pb \in LiveBufs /\ k # NoBucket
  /\ Cardinality(cache[t][k]) >= FrontCap
  /\ pc' = [pc EXCEPT ![t] = "push"]
  /\ hand' = [hand EXCEPT ![t] = pb]
  /\ UNCHANGED <<driver, bufs, plain, cache, req, pool>>

DropDone(t) ==
  /\ bufs' = bufs \ {hand[t]}
  /\ hand' = [hand EXCEPT ![t] = NoBuf]
  /\ pc' = [pc EXCEPT ![t] = "idle"]

\* Mutant: the cap is compared with <= instead of <.
DropIntoBackOverCap(t) ==
  LET k == hand[t].bucket IN
  /\ pc[t] = "push"
  /\ IF Cardinality(cache[Shared][k]) <= MaxPerBucket
       THEN Cached(Shared, k, hand[t].ptr) /\ DropDone(t)
       ELSE pc' = [pc EXCEPT ![t] = "free"] /\ UNCHANGED <<bufs, cache, hand>>
  /\ UNCHANGED <<driver, plain, req, pool>>

\* Tier 2: lock the shared cache of the class and push unless it is full.
DropIntoBack(t) ==
  LET k == hand[t].bucket IN
  /\ pc[t] = "push"
  /\ IF Cardinality(cache[Shared][k]) < MaxPerBucket
       THEN Cached(Shared, k, hand[t].ptr) /\ DropDone(t)
       ELSE pc' = [pc EXCEPT ![t] = "free"] /\ UNCHANGED <<bufs, cache, hand>>
  /\ UNCHANGED <<driver, plain, req, pool>>

\* Mutant: detaches the pointer and never frees it: the block is lost.
DropToDriverDetached(t) ==
  /\ pc[t] = "free"
  /\ DropDone(t)
  /\ UNCHANGED <<driver, plain, cache, req, pool>>

\* Tier 3: the lock is released, then the driver reclaims the block.
DropToDriver(t) ==
  /\ pc[t] = "free"
  /\ Freed({hand[t].ptr})
  /\ DropDone(t)
  /\ UNCHANGED <<plain, cache, req, pool>>

(***************************************************************************)
(* PooledBuf::into_inner and the drop of the plain DeviceBuf it returns.   *)
(***************************************************************************)
IntoInner(pb) ==
  /\ pb \in LiveBufs
  /\ bufs' = bufs \ {pb}
  /\ plain' = plain \cup {pb.ptr}
  /\ UNCHANGED <<driver, cache, pc, req, hand, pool>>

DropPlain(b) ==
  /\ b \in plain
  /\ plain' = plain \ {b}
  /\ Freed({b})
  /\ UNCHANGED <<bufs, cache, pc, req, hand, pool>>

(***************************************************************************)
(* MemPool::shrink and Drop for MemPool.  Both take the pool by &mut, so   *)
(* no PooledBuf borrows it and no thread is inside alloc or drop.          *)
(***************************************************************************)
Unborrowed == bufs = {} /\ \A t \in Threads : pc[t] = "idle"

AllCached == UNION {cache[c][k] : c \in Places, k \in Buckets}

Drain ==
  /\ Freed(AllCached)
  /\ cache' = [c \in Places |-> [k \in Buckets |-> {}]]
  /\ UNCHANGED <<bufs, plain, pc, req, hand>>

Shrink == pool = "open" /\ Unborrowed /\ Drain /\ UNCHANGED pool

DropPool == pool = "open" /\ Unborrowed /\ Drain /\ pool' = "dropped"

Next ==
  \/ \E t \in Threads, r \in Requests : AllocFromFront(t, r) \/ AllocMissFront(t, r)
  \/ \E t \in Threads : AllocFromBack(t) \/ AllocFromDriver(t)
  \/ \E t \in Threads, pb \in bufs :
       DropBypassed(t, pb) \/ DropIntoFront(t, pb) \/ DropMissFront(t, pb)
  \/ \E t \in Threads : DropIntoBack(t) \/ DropToDriver(t)
  \/ \E pb \in bufs : IntoInner(pb)
  \/ \E b \in plain : DropPlain(b)
  \/ Shrink
  \/ DropPool

Spec == Init /\ [][Next]_vars
-----------------------------------------------------------------------------
(***************************************************************************)
(* Properties.                                                             *)
(***************************************************************************)
Ptrs(S) == {pb.ptr : pb \in S}

\* Types of the state, and what a thread carries at each point of a call.
TypeOK ==
  /\ allocated \subseteq Blocks
  /\ size \in [Blocks -> Nat]
  /\ bufs \subseteq Bufs
  /\ plain \subseteq Blocks
  /\ cache \in [Places -> [Buckets -> SUBSET Blocks]]
  /\ pc \in [Threads -> {"idle", "back", "driver", "push", "free"}]
  /\ req \in [Threads -> Requests \cup {NoReq}]
  /\ hand \in [Threads -> Bufs \cup {NoBuf}]
  /\ pool \in {"open", "dropped"}
  /\ pool = "dropped" => Unborrowed
  /\ \A t \in Threads :
       /\ pc[t] \in {"back", "driver"} => req[t] \in Requests
       /\ pc[t] = "back" => BucketFor(Bytes(req[t])) # NoBucket
       /\ pc[t] \in {"push", "free"} <=> hand[t] # NoBuf
       /\ pc[t] \in {"push", "free"} => hand[t] \in bufs /\ hand[t].bucket # NoBucket

OneDropper ==
  \A t, u \in Threads : hand[t] = hand[u] /\ hand[t] # NoBuf => t = u

\* Every block has at most one owner: one PooledBuf, one plain DeviceBuf or
\* one slot of one cache.  The code gets this from detach_ptr and from the
\* order of the tiers; a block with two owners is handed to two clients, or
\* freed while a client uses it (pool.rs, alloc and Drop for PooledBuf).
UniqueOwner ==
  /\ \A p, q \in bufs : p.ptr = q.ptr => p = q
  /\ Ptrs(bufs) \cap plain = {}
  /\ \A c \in Places, k \in Buckets : cache[c][k] \cap (Ptrs(bufs) \cup plain) = {}
  /\ \A c, d \in Places, k, j \in Buckets :
       cache[c][k] \cap cache[d][j] # {} => c = d /\ k = j
  /\ OneDropper

\* The blocks obtained from the driver are exactly those somebody owns: an
\* owner never holds a freed block, and no call, not one that fails or that
\* finds every cache full, loses a block.  So a dropped pool has given back
\* all but what into_inner took out of it.
NothingLost ==
  /\ allocated = Ptrs(bufs) \cup plain \cup AllCached
  /\ pool = "dropped" => allocated = plain

Cap(c) == IF c = Shared THEN MaxPerBucket ELSE FrontCap

\* What the pool can retain of one class: FRONT_CAP blocks per thread that
\* ever freed one, plus max_per_bucket shared ones.
CacheBound ==
  \A c \in Places, k \in Buckets : Cardinality(cache[c][k]) <= Cap(c)

\* Every buffer has behind it at least the bytes it was asked for, whichever
\* tier and whichever earlier request (of another type, on another thread)
\* the block came from: from_raw_parts trusts capacity_bytes to be the size
\* of the underlying allocation.
BlockCoversRequest ==
  \A pb \in bufs : pb.bytes <= size[pb.ptr]

\* The pool implements the allocator without caches: clients never share a
\* block and the driver gets back only blocks no client holds.
Abstract == INSTANCE RecyclingAllocator WITH
  mem <- allocated, held <- Ptrs(LiveBufs) \cup plain

ImplementsAllocator == Abstract!ASpec
=============================================================================
