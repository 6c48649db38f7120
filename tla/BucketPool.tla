----------------------------- MODULE BucketPool -----------------------------
(***************************************************************************)
(* The two pools that keep one mutexed list of free blocks per size class: *)
(* ROCm's MemPool (ironaccelerator-rocm/src/pool.rs) and CUDA's PinnedPool *)
(* of page-locked memory (ironaccelerator-cuda/src/pinned.rs).  kind says  *)
(* which of them the behaviour is of.                                      *)
(*                                                                         *)
(*   rocm    a list is capped and what is over the cap goes back to the    *)
(*           driver; a request above the largest class bypasses the lists; *)
(*           the byte size of a request wraps.                             *)
(*   pinned  a list only grows; a request above the largest class goes to  *)
(*           the list of the largest class; two counters, never decreased. *)
(*                                                                         *)
(* The pool is shared by Arc: its handles, its buffers and the calls under *)
(* way each hold it, and whoever goes last gives the lists to the driver.  *)
(***************************************************************************)
EXTENDS Integers, FiniteSets, Functions

CONSTANTS
  Threads, Blocks,
  Kinds,         \* subset of {"rocm", "pinned"}
  RequestsOf,    \* RequestsOf[kind]: [len, size] of the requests
  NumBuckets,
  MinBytes,      \* 2^MIN_BUCKET_LOG2
  Word,          \* 2^64
  MaxPerBucket,  \* of the capped lists
  None

Buckets == 1 .. NumBuckets
Requests == UNION {RequestsOf[k] : k \in Kinds}

ASSUME BucketPoolAssumption ==
  /\ NumBuckets \in Nat \ {0} /\ MinBytes \in Nat \ {0} /\ Word \in Nat \ {0}
  /\ MaxPerBucket \in Nat
  /\ Kinds \subseteq {"rocm", "pinned"}
  /\ \A r \in Requests : r.len \in Nat /\ r.size \in Nat
  /\ None \notin Blocks /\ None \notin Nat

VARIABLES
  kind,
  cache,     \* cache[k]: the free blocks of a size class
  size,      \* size[b]: bytes of a block obtained from the driver, or None
  bufs,      \* buffers in the clients' hands
  pc,
  buf,       \* the buffer a call makes or drops
  handles,   \* threads with a clone of the pool
  counted    \* blocks in live_slabs, and in allocated_bytes

vars == <<kind, cache, size, bufs, pc, buf, handles, counted>>

Obtained == {b \in Blocks : size[b] # None}
Exact(r) == r.len * r.size

\* The smallest size class that holds bytes, by its exponent over MinBytes.
ClassBytes(e) == MinBytes * 2 ^ e
Smallest(bytes, e) ==
  /\ ClassBytes(e) >= bytes
  /\ e = 0 \/ ClassBytes(e - 1) < bytes
Exponent(bytes) == CHOOSE e \in 0 .. bytes : Smallest(bytes, e)

\* The powers of two outgrow every request (so they do every number, but the
\* provers have no induction to say so).
ASSUME ClassesReach ==
  \A r \in Requests : \A n \in {Exact(r), Exact(r) % Word} :
    /\ \A e \in 0 .. n : ClassBytes(e) \in Nat
    /\ \E e \in 0 .. n : Smallest(n, e)

\* bytes as computed: ROCm multiplies in a usize, PinnedPool is asked for bytes.
Bytes(r) == IF kind = "rocm" THEN Exact(r) % Word ELSE Exact(r)

\* The list of a request; None bypasses.
BucketFor(bytes) ==
  LET k == Exponent(bytes) + 1 IN
  IF kind = "pinned" THEN IF k <= NumBuckets THEN k ELSE NumBuckets
  ELSE IF bytes > 0 /\ k <= NumBuckets THEN k ELSE None

\* Mutant: what the driver is asked for is the request, not its size class.
DriverBytesUnrounded(bytes) == bytes

\* What the driver is asked for; of the pinned pool also above the largest class.
DriverBytes(bytes) ==
  IF kind = "pinned" \/ BucketFor(bytes) # None THEN ClassBytes(Exponent(bytes))
  ELSE IF bytes = 0 THEN 1 ELSE bytes

InCall(t) == pc[t] # "idle"

\* Who keeps the pool alive.
Held == handles # {} \/ bufs # {} \/ \E t \in Threads : InCall(t)

Init ==
  /\ kind \in Kinds
  /\ cache = [k \in Buckets |-> {}]
  /\ size = [b \in Blocks |-> None]
  /\ bufs = {}
  /\ pc = [t \in Threads |-> "idle"]
  /\ buf = [t \in Threads |-> None]
  /\ handles = Threads
  /\ counted = [slabs |-> {}, bytes |-> {}]

Goto(t, place) == pc' = [pc EXCEPT ![t] = place]
Buf(block, request) ==
  [block |-> block, bucket |-> BucketFor(Bytes(request)), request |-> request]

(***************************************************************************)
(* alloc (ROCm), acquire (pinned).                                         *)
(***************************************************************************)

\* Mutant: the block is returned and stays in its list.
HitKept(t, r, b) ==
  /\ ~InCall(t) /\ t \in handles
  /\ BucketFor(Bytes(r)) # None
  /\ b \in cache[BucketFor(Bytes(r))]
  /\ bufs' = bufs \cup {Buf(b, r)}
  /\ UNCHANGED <<kind, cache, size, pc, buf, handles, counted>>

\* A free block of the class, popped under the list's lock.
Hit(t, r, b) ==
  /\ ~InCall(t) /\ t \in handles
  /\ BucketFor(Bytes(r)) # None
  /\ b \in cache[BucketFor(Bytes(r))]
  /\ cache' = [cache EXCEPT ![BucketFor(Bytes(r))] = @ \ {b}]
  /\ bufs' = bufs \cup {Buf(b, r)}
  /\ UNCHANGED <<kind, size, pc, buf, handles, counted>>

\* The list is empty, or the request bypasses the lists.
Miss(t, r) ==
  /\ ~InCall(t) /\ t \in handles
  /\ BucketFor(Bytes(r)) # None => cache[BucketFor(Bytes(r))] = {}
  /\ buf' = [buf EXCEPT ![t] = Buf(None, r)]
  /\ Goto(t, "alloc")
  /\ UNCHANGED <<kind, cache, size, bufs, handles, counted>>

\* hipMallocAsync, cuMemHostAlloc.
AllocFromDriver(t, b) ==
  /\ pc[t] = "alloc" /\ size[b] = None
  /\ size' = [size EXCEPT ![b] = DriverBytes(Bytes(buf[t].request))]
  /\ buf' = [buf EXCEPT ![t].block = b]
  /\ Goto(t, IF kind = "pinned" THEN "bytes" ELSE "return")
  /\ UNCHANGED <<kind, cache, bufs, handles, counted>>

AllocFails(t) ==
  /\ pc[t] = "alloc"
  /\ buf' = [buf EXCEPT ![t] = None]
  /\ Goto(t, "idle")
  /\ UNCHANGED <<kind, cache, size, bufs, handles, counted>>

\* allocated_bytes.fetch_add
CountBytes(t) ==
  /\ pc[t] = "bytes"
  /\ counted' = [counted EXCEPT !.bytes = @ \cup {buf[t].block}]
  /\ Goto(t, "slabs")
  /\ UNCHANGED <<kind, cache, size, bufs, buf, handles>>

\* live_slabs.fetch_add
CountSlabs(t) ==
  /\ pc[t] = "slabs"
  /\ counted' = [counted EXCEPT !.slabs = @ \cup {buf[t].block}]
  /\ Goto(t, "return")
  /\ UNCHANGED <<kind, cache, size, bufs, buf, handles>>

Return(t) ==
  /\ pc[t] = "return"
  /\ bufs' = bufs \cup {buf[t]}
  /\ buf' = [buf EXCEPT ![t] = None]
  /\ Goto(t, "idle")
  /\ UNCHANGED <<kind, cache, size, handles, counted>>

(***************************************************************************)
(* The drop of a buffer, by any thread, and of the pool with its last      *)
(* owner.                                                                  *)
(***************************************************************************)
HasRoom(k) == kind = "pinned" \/ Cardinality(cache[k]) < MaxPerBucket

\* Mutant: the drop goes on after the push.
DropIntoListOn(t, x) ==
  /\ ~InCall(t) /\ x \in bufs /\ x.bucket # None
  /\ HasRoom(x.bucket)
  /\ cache' = [cache EXCEPT ![x.bucket] = @ \cup {x.block}]
  /\ bufs' = bufs \ {x}
  /\ buf' = [buf EXCEPT ![t] = x]
  /\ Goto(t, "free")
  /\ UNCHANGED <<kind, size, handles, counted>>

\* The push, under the lock that looked at the cap.
DropIntoList(t, x) ==
  /\ ~InCall(t) /\ x \in bufs /\ x.bucket # None
  /\ HasRoom(x.bucket)
  /\ cache' = [cache EXCEPT ![x.bucket] = @ \cup {x.block}]
  /\ bufs' = bufs \ {x}
  /\ Goto(t, "leave")
  /\ UNCHANGED <<kind, size, buf, handles, counted>>

\* Over the cap, or never of a list: the lock is gone when the driver is called.
DropOver(t, x) ==
  /\ ~InCall(t) /\ x \in bufs
  /\ x.bucket # None => ~HasRoom(x.bucket)
  /\ bufs' = bufs \ {x}
  /\ buf' = [buf EXCEPT ![t] = x]
  /\ Goto(t, "free")
  /\ UNCHANGED <<kind, cache, size, handles, counted>>

\* hipFreeAsync
Free(t) ==
  /\ pc[t] = "free"
  /\ size' = [size EXCEPT ![buf[t].block] = None]
  /\ buf' = [buf EXCEPT ![t] = None]
  /\ Goto(t, "leave")
  /\ UNCHANGED <<kind, cache, bufs, handles, counted>>

\* The pool's drop: each list back to the driver.
LastGone ==
  /\ cache' = [k \in Buckets |-> {}]
  /\ size' = [b \in Blocks |-> IF \E k \in Buckets : b \in cache[k] THEN None ELSE size[b]]

\* The buffer's Arc of the pool goes after the drop's body.
Leave(t) ==
  /\ pc[t] = "leave"
  /\ Goto(t, "idle")
  /\ IF handles = {} /\ bufs = {} /\ \A u \in Threads \ {t} : ~InCall(u)
       THEN LastGone ELSE UNCHANGED <<cache, size>>
  /\ UNCHANGED <<kind, bufs, buf, handles, counted>>

\* A thread drops its clone of the pool.
DropHandle(t) ==
  /\ t \in handles /\ ~InCall(t)
  /\ handles' = handles \ {t}
  /\ IF handles = {t} /\ bufs = {} /\ \A u \in Threads : ~InCall(u)
       THEN LastGone ELSE UNCHANGED <<cache, size>>
  /\ UNCHANGED <<kind, bufs, pc, buf, counted>>

Next ==
  \/ \E t \in Threads :
       \/ \E r \in RequestsOf[kind] : Miss(t, r) \/ \E b \in Blocks : Hit(t, r, b)
       \/ \E b \in Blocks : AllocFromDriver(t, b)
       \/ AllocFails(t) \/ CountBytes(t) \/ CountSlabs(t) \/ Return(t)
       \/ \E x \in bufs : DropIntoList(t, x) \/ DropOver(t, x)
       \/ Free(t) \/ Leave(t) \/ DropHandle(t)

Spec == Init /\ [][Next]_vars

(***************************************************************************)
(* Properties.                                                             *)
(***************************************************************************)
Bufs == [block : Blocks, bucket : Buckets \cup {None}, request : Requests]
Unallocated == [block : {None}, bucket : Buckets \cup {None}, request : Requests]

\* Types, and the buffer a thread has at each place of a call.
TypeOK ==
  /\ kind \in Kinds
  /\ cache \in [Buckets -> SUBSET Blocks]
  /\ size \in [Blocks -> Nat \cup {None}]
  /\ bufs \subseteq Bufs
  /\ pc \in [Threads -> {"idle", "alloc", "bytes", "slabs", "return", "free", "leave"}]
  /\ buf \in [Threads -> Bufs \cup Unallocated \cup {None}]
  /\ \A t \in Threads :
       /\ pc[t] = "alloc" => buf[t] \in Unallocated
       /\ pc[t] \in {"bytes", "slabs", "return", "free"} => buf[t] \in Bufs
       /\ pc[t] \in {"idle", "leave"} => buf[t] = None
  /\ handles \subseteq Threads
  /\ counted \in [slabs : SUBSET Blocks, bytes : SUBSET Blocks]

\* Threads that carry a block of no list and of no buffer.
Carriers == {t \in Threads : pc[t] \in {"bytes", "slabs", "return", "free"}}
OfBufs == {x.block : x \in bufs}
OfThreads == {buf[t].block : t \in Carriers}
Cached == UNION {cache[k] : k \in Buckets}

\* A block is in one list, or of one buffer, or carried by one call: the pops
\* and pushes of any threads never give it twice (rocm/pool.rs:163-168,
\* 269-280, pinned.rs:47, 104).
UniqueOwner ==
  /\ \A x, y \in bufs : x.block = y.block => x = y
  /\ \A t, u \in Carriers : buf[t].block = buf[u].block => t = u
  /\ \A j, k \in Buckets : j # k => cache[j] \cap cache[k] = {}
  /\ OfBufs \cap OfThreads = {} /\ Cached \cap OfBufs = {} /\ Cached \cap OfThreads = {}

\* What the driver gave is where the pool can give it back from, and once the
\* last owner of the pool has gone it all has been (rocm/pool.rs:96-111).
NothingLost ==
  /\ Obtained = Cached \cup OfBufs \cup OfThreads
  /\ ~Held => Obtained = {}

\* The blocks a list keeps, whoever drops and allocates meanwhile
\* (rocm/pool.rs:52-53).
CacheBound ==
  kind = "rocm" => \A k \in Buckets : Cardinality(cache[k]) <= MaxPerBucket

\* A buffer's block has the bytes it was asked for ("a slab with capacity for at
\* least `bytes`", pinned.rs:42), but for the pinned list of the largest
\* class, which also has the slabs of larger requests (pinned.rs:114).
BlockCoversRequest ==
  \A x \in bufs :
    kind = "rocm" \/ x.bucket # NumBuckets => size[x.block] >= Exact(x.request)

\* Every block obtained from the driver has exactly one owner, and none outlives
\* the pool, wherever the calls of the threads interleave.
EachBlockOnce == UniqueOwner /\ NothingLost

\* A call that has its block holds it for its client.
InHand == OfBufs \cup {buf[t].block : t \in Carriers \ {u \in Threads : pc[u] = "free"}}

Allocator == INSTANCE RecyclingAllocator WITH mem <- Obtained, held <- InHand

\* Both pools are allocators: a block is handed out when nobody holds it, and
\* freed when nobody does.
ImplementsAllocator == Allocator!ASpec
=============================================================================
