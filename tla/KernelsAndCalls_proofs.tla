------------------------ MODULE KernelsAndCalls_proofs ------------------------
(***************************************************************************)
(* Proofs about the two parts of the CUDA crate that hold the driver's     *)
(* objects for their caller.                                               *)
(*                                                                         *)
(* KernelCache: for any processes, threads, devices, requests and crashes, *)
(* what a process hands out for a key is one module of the right image,    *)
(* and a torn file takes two threads that store it at once.  For one       *)
(* module per key only the map matters; what follows it is about the files *)
(* of the directory.                                                       *)
(*                                                                         *)
(* CallSequences: for any tables of operations and types, so also for      *)
(* those of every vendor, and a line of values of any length.  What the    *)
(* three properties say of every history follows from what the tables say  *)
(* of one operation and one type: KeptOrOrphan, Tidy, KeepTheRoot and      *)
(* BindFirst (CallSequences), which TLC evaluates on the tables of the run *)
(* (TablesFit of MC_CallSequences).                                        *)
(***************************************************************************)
EXTENDS KernelCache, CallSequences, FiniteSetTheorems, FunctionTheorems,
        SequenceTheorems, WellFoundedInduction, TLAPS

\* The maps are indexed by process and by thread.
Indexed == DOMAIN cache = Processes /\ DOMAIN got = Threads

\* A kernel a thread holds is the entry of its key in its process.
Held ==
  \A t \in Threads : got[t] # NoResult =>
    /\ KeyOf(got[t].req) \in DOMAIN Cache(t)
    /\ Cache(t)[KeyOf(got[t].req)] = got[t].module

HeldInv == Indexed /\ Held

\* The entries of a process that has not died stay as they are.
Kept(p) == \A k \in DOMAIN cache[p] : k \in DOMAIN cache'[p] /\ cache'[p][k] = cache[p][k]

\* A call that ends with the module of its key's entry, or with an error, where
\* the entries of every process are kept.
LEMMA EndsHeld ==
  ASSUME HeldInv, NEW t \in Threads, NEW m, Resolves(t, m),
         UNCHANGED req, DOMAIN cache' = Processes,
         \A p \in Processes : Kept(p),
         Key(t) \in DOMAIN Cache(t)', Cache(t)'[Key(t)] = m
  PROVE  HeldInv'
<1>1. /\ \/ got' = [got EXCEPT ![t] = Result(t, m)]
         \/ got' = [got EXCEPT ![t] = NoResult]
      /\ ProcessOf \in [Threads -> Processes]
  BY KernelCacheAssumption DEF Resolves, Ends
<1>2. ASSUME NEW u \in Threads, got'[u] # NoResult
      PROVE  /\ KeyOf(got'[u].req) \in DOMAIN cache'[ProcessOf[u]]
             /\ cache'[ProcessOf[u]][KeyOf(got'[u].req)] = got'[u].module
  <2>1. CASE u = t
    <3>1. got'[u].req = req[t] /\ got'[u].module = m
      BY <1>1, <1>2, <2>1 DEF HeldInv, Indexed, Result
    <3> QED BY <2>1, <3>1 DEF Key, Cache
  <2>2. CASE u # t
    <3>1. got'[u] = got[u]
      BY <1>1, <2>2 DEF HeldInv, Indexed
    <3> QED BY <1>1, <1>2, <3>1 DEF HeldInv, Held, Cache, Kept
  <2> QED BY <2>1, <2>2
<1> QED BY <1>1, <1>2 DEF HeldInv, Indexed, Held, Cache

\* A step that takes kernels away at most and leaves the map alone.
LEMMA NothingHeldAnew ==
  ASSUME HeldInv, UNCHANGED cache, DOMAIN got' = Threads,
         \A t \in Threads : got'[t] = got[t] \/ got'[t] = NoResult
  PROVE  HeldInv'
BY DEF HeldInv, Indexed, Held, Cache

LEMMA HitStep == ASSUME HeldInv, NEW t \in Threads, Hit(t) PROVE HeldInv'
<1>1. Resolves(t, Cache(t)[Key(t)]) /\ UNCHANGED <<cache, req>>
  BY DEF Hit
<1>2. Key(t) \in DOMAIN Cache(t)' /\ Cache(t)'[Key(t)] = Cache(t)[Key(t)]
  BY <1>1 DEF Hit, Cache
<1>3. DOMAIN cache' = Processes /\ \A p \in Processes : Kept(p)
  BY <1>1 DEF HeldInv, Indexed, Kept
<1> QED BY <1>1, <1>2, <1>3, EndsHeld

\* The double-checked insert keeps every entry, and returns the key's.
LEMMA InsertStep ==
  ASSUME HeldInv, NEW t \in Threads, Insert(t)
  PROVE  HeldInv' /\ \A p \in Processes : Kept(p)
<1>0. ProcessOf[t] \in Processes /\ DOMAIN cache = Processes
  BY KernelCacheAssumption DEF HeldInv, Indexed
<1>1. CASE Key(t) \in DOMAIN Cache(t)
  <2>1. Resolves(t, Cache(t)[Key(t)]) /\ UNCHANGED <<cache, req>>
    BY <1>1 DEF Insert
  <2>2. Key(t) \in DOMAIN Cache(t)' /\ Cache(t)'[Key(t)] = Cache(t)[Key(t)]
    BY <1>1, <2>1 DEF Cache
  <2>3. DOMAIN cache' = Processes /\ \A p \in Processes : Kept(p)
    BY <1>0, <2>1 DEF Kept
  <2> QED BY <2>1, <2>2, <2>3, EndsHeld
<1>2. CASE Key(t) \notin DOMAIN Cache(t)
  <2>1. /\ Resolves(t, Loaded(t)) /\ UNCHANGED req
        /\ cache' = [cache EXCEPT ![ProcessOf[t]] = WithEntry(cache[ProcessOf[t]], Key(t), Loaded(t))]
    BY <1>2 DEF Insert
  <2>2. /\ DOMAIN cache' = Processes
        /\ cache'[ProcessOf[t]] = WithEntry(cache[ProcessOf[t]], Key(t), Loaded(t))
        /\ \A p \in Processes \ {ProcessOf[t]} : cache'[p] = cache[p]
    BY <1>0, <2>1
  <2>3. Key(t) \in DOMAIN Cache(t)' /\ Cache(t)'[Key(t)] = Loaded(t)
    BY <2>2 DEF WithEntry, Cache
  <2>4. Kept(ProcessOf[t])
    BY <1>2, <2>2 DEF Kept, WithEntry, Cache
  <2>5. \A p \in Processes : Kept(p)
    BY <2>2, <2>4 DEF Kept
  <2> QED BY <2>1, <2>2, <2>3, <2>5, EndsHeld
<1> QED BY <1>1, <1>2

\* Any other step of a thread.
LEMMA OtherStep ==
  ASSUME HeldInv, NEW t \in Threads,
         \/ \E r \in Requests : Call(t, r)
         \/ Miss(t) \/ Load(t) \/ Compile(t)
         \/ OpenTmp(t) \/ WriteTmp(t) \/ Rename(t) \/ StoreFails(t)
         \/ LoadModule(t) \/ LoadModuleFails(t)
  PROVE  HeldInv' /\ UNCHANGED cache
<1>1. UNCHANGED cache
  BY DEF Call, Miss, Load, Compile, OpenTmp, WriteTmp, Rename, StoreFails, LoadModule, LoadModuleFails
<1>2. got' = got \/ got' = [got EXCEPT ![t] = NoResult]
  BY DEF Call, Miss, Load, Compile, OpenTmp, WriteTmp, Rename, StoreFails, LoadModule,
         LoadModuleFails, Ends
<1>3. DOMAIN got' = Threads /\ \A u \in Threads : got'[u] = got[u] \/ got'[u] = NoResult
  BY <1>2 DEF HeldInv, Indexed
<1> QED BY <1>1, <1>3, NothingHeldAnew

LEMMA CrashStep == ASSUME HeldInv, NEW p \in Processes, Crash(p) PROVE HeldInv'
<1>1. /\ cache' = [cache EXCEPT ![p] = [k \in {} |-> NoResult]]
      /\ got' = [t \in Threads |-> IF ProcessOf[t] = p THEN NoResult ELSE got[t]]
  BY DEF Crash
<1>2. ASSUME NEW t \in Threads, got'[t] # NoResult
      PROVE  got'[t] = got[t] /\ cache'[ProcessOf[t]] = cache[ProcessOf[t]]
  BY <1>1, <1>2, KernelCacheAssumption DEF HeldInv, Indexed
<1> QED BY <1>1, <1>2 DEF HeldInv, Indexed, Held, Cache

LEMMA HeldInvariant == Spec => []HeldInv
<1>1. Init => HeldInv
  BY DEF Init, HeldInv, Indexed, Held
<1>2. HeldInv /\ [Next]_vars => HeldInv'
  <2> SUFFICES ASSUME HeldInv, [Next]_vars PROVE HeldInv'
    OBVIOUS
  <2>1. CASE UNCHANGED vars
    BY <2>1 DEF vars, HeldInv, Indexed, Held, Cache
  <2>2. CASE Next
    BY <2>2, HitStep, InsertStep, OtherStep, CrashStep DEF Next
  <2> QED BY <2>1, <2>2
<1> QED BY <1>1, <1>2, PTL DEF Spec

\* get_or_compile is idempotent by identity: threads of a process that hold the
\* kernel of one key hold one module.
THEOREM KernelIdentity == Spec => []SameModule
<1>1. HeldInv => SameModule
  BY DEF HeldInv, Held, Cache, SameModule
<1> QED BY <1>1, HeldInvariant, PTL

LEMMA CrashesCounted == Spec => [](crashes \in Nat)
<1> DEFINE Counted == crashes \in Nat
<1>1. Init => Counted
  BY DEF Init
<1>2. Counted /\ [Next]_vars => Counted'
  <2> SUFFICES ASSUME Counted, Next \/ UNCHANGED vars PROVE crashes' \in Nat
    OBVIOUS
  <2>1. crashes' = crashes \/ crashes' = crashes + 1
    BY DEF Next, vars, Call, Hit, Miss, Load, Compile, OpenTmp, WriteTmp, Rename, StoreFails,
           LoadModule, LoadModuleFails, Insert, Crash
  <2> QED BY <2>1
<1> HIDE DEF Counted
<1>3. Spec => []Counted
  BY <1>1, <1>2, PTL DEF Spec
<1>4. Counted => crashes \in Nat
  BY DEF Counted
<1> QED BY <1>3, <1>4, PTL

\* An entry of the map is never replaced while its process lives.
THEOREM EntriesPermanent == Spec => EntriesStay
<1>1. HeldInv /\ crashes \in Nat /\ [Next]_vars =>
        [\A p \in Processes : \A k \in DOMAIN cache[p] :
           crashes' = crashes => k \in DOMAIN cache'[p] /\ cache'[p][k] = cache[p][k]]_vars
  <2> SUFFICES ASSUME HeldInv, crashes \in Nat, Next, crashes' = crashes
               PROVE  \A p \in Processes : Kept(p)
    BY DEF Kept
  <2>1. ASSUME NEW p \in Processes, Crash(p) PROVE FALSE
    BY <2>1 DEF Crash
  <2>2. ASSUME NEW t \in Threads, Insert(t) PROVE \A p \in Processes : Kept(p)
    BY <2>2, InsertStep
  <2>3. CASE UNCHANGED cache
    BY <2>3 DEF Kept
  <2> QED BY <2>1, <2>2, <2>3, OtherStep DEF Next, Hit
<1> QED BY <1>1, HeldInvariant, CrashesCounted, PTL DEF Spec, EntriesStay
-----------------------------------------------------------------------------
(***************************************************************************)
(* The files.                                                              *)
(***************************************************************************)

\* A file is named by the image it is for: the function of a key is no part of
\* either.
LEMMA Naming ==
  ASSUME NEW r \in Requests
  PROVE  KeyOf(r) \in Keys /\ PathOf(KeyOf(r)) \in Paths /\ PathOf(KeyOf(r)) = ImageOf(r)
         /\ ImageOf(r) \in Images
BY DEF Keys, Paths, Images, PathOf, KeyOf, ImageOf

LEMMA FinitelyManyFiles == IsFiniteSet(Paths) /\ Cardinality(Paths) \in Nat
<1> DEFINE name == [r \in Requests |-> PathOf(KeyOf(r))]
<1>1. name \in Surjection(Requests, Paths)
  BY DEF Surjection, Paths, Keys
<1> QED
  BY <1>1, FS_Surjection, FS_CardinalityType, KernelCacheAssumption

\* The values of a function, but for a value one of its arguments has: fewer
\* than the arguments.
LEMMA OthersUsed ==
  ASSUME NEW S, IsFiniteSet(S), NEW f, DOMAIN f = S, NEW a \in S
  PROVE  /\ IsFiniteSet(Range(f) \ {f[a]})
         /\ Cardinality(Range(f) \ {f[a]}) < Cardinality(S)
<1> DEFINE g == [x \in S |-> f[x]]
<1>1. g \in Surjection(S, Range(f))
  BY DEF Surjection, Range
<1>2. IsFiniteSet(Range(f)) /\ Cardinality(Range(f)) <= Cardinality(S)
  BY <1>1, FS_Surjection
<1>3. f[a] \in Range(f)
  BY DEF Range
<1>4. /\ IsFiniteSet(Range(f) \ {f[a]})
      /\ Cardinality(Range(f) \ {f[a]}) = Cardinality(Range(f)) - 1
  BY <1>2, <1>3, FS_RemoveElement
<1> QED
  BY <1>2, <1>4, FS_CardinalityType

\* All the values of a function: at most as many as the arguments.
LEMMA AllUsed ==
  ASSUME NEW S, IsFiniteSet(S), NEW f, DOMAIN f = S
  PROVE  IsFiniteSet(Range(f)) /\ Cardinality(Range(f)) <= Cardinality(S)
<1> DEFINE g == [x \in S |-> f[x]]
<1>1. g \in Surjection(S, Range(f))
  BY DEF Surjection, Range
<1> QED
  BY <1>1, FS_Surjection

LEMMA UnionBound ==
  ASSUME NEW S, NEW T, IsFiniteSet(S), IsFiniteSet(T)
  PROVE  IsFiniteSet(S \cup T) /\ Cardinality(S \cup T) <= Cardinality(S) + Cardinality(T)
<1>1. /\ IsFiniteSet(S \cup T)
      /\ Cardinality(S \cup T) = Cardinality(S) + Cardinality(T) - Cardinality(S \cap T)
  BY FS_Union, Zenon
<1>2. Cardinality(S) \in Nat /\ Cardinality(T) \in Nat /\ Cardinality(S \cap T) \in Nat
  BY FS_Intersection, FS_CardinalityType
<1> QED
  BY <1>1, <1>2

\* A thread that creates a temporary file finds an inode for it.
LEMMA FreshInode ==
  ASSUME TypeOK, NEW t \in Threads, pc[t] = "store", tmp[File(t)] = NoFile
  PROVE  (CHOOSE j \in Unused : TRUE) \in Unused
<1> DEFINE P == Range(path)
           T == Range(tmp) \ {NoFile}
           D == Range(fd) \ {NoFile}
<1>1. File(t) \in Paths /\ fd[t] = NoFile
  BY Naming DEF TypeOK, File, Key
<1>2. IsFiniteSet(P) /\ Cardinality(P) <= Cardinality(Paths)
  BY AllUsed, FinitelyManyFiles DEF TypeOK
<1>3. IsFiniteSet(T) /\ Cardinality(T) < Cardinality(Paths)
  BY <1>1, OthersUsed, FinitelyManyFiles DEF TypeOK
<1>4. IsFiniteSet(D) /\ Cardinality(D) < Cardinality(Threads)
  BY <1>1, OthersUsed, KernelCacheAssumption DEF TypeOK
<1>5. /\ IsFiniteSet(P \cup T)
      /\ Cardinality(P \cup T) <= Cardinality(P) + Cardinality(T)
  BY <1>2, <1>3, UnionBound
<1>6. /\ IsFiniteSet((P \cup T) \cup D)
      /\ Cardinality((P \cup T) \cup D) <= Cardinality(P \cup T) + Cardinality(D)
  BY <1>4, <1>5, UnionBound
<1>7. /\ Cardinality(P) \in Nat /\ Cardinality(T) \in Nat /\ Cardinality(D) \in Nat
      /\ Cardinality(P \cup T) \in Nat /\ Cardinality((P \cup T) \cup D) \in Nat
      /\ Cardinality(Paths) \in Nat /\ Cardinality(Threads) \in Nat
  BY <1>2, <1>3, <1>4, <1>5, <1>6, FS_CardinalityType, FinitelyManyFiles, KernelCacheAssumption
<1> DEFINE N == 2 * Cardinality(Paths) + Cardinality(Threads)
<1>8. Cardinality((P \cup T) \cup D) < N /\ N \in Nat
  BY <1>2, <1>3, <1>4, <1>5, <1>6, <1>7
<1>9. IsFiniteSet(Inodes) /\ Cardinality(Inodes) = N
  BY <1>8, FS_Interval DEF Inodes
<1>10. ~ (Inodes \subseteq (P \cup T) \cup D)
  BY <1>6, <1>7, <1>8, <1>9, FS_Subset
<1>11. Unused # {}
  BY <1>10, KernelCacheAssumption DEF Unused, Inodes
<1> QED
  BY <1>11

\* What a thread has in hand at each place of a call.
Carries ==
  \A t \in Threads :
    /\ pc[t] # "idle" => calls[t] >= 1
    /\ pc[t] \in {"idle", "lookup", "load", "compile"} => ptx[t] = NoResult
    /\ pc[t] \in {"store", "write", "rename", "module", "insert"} =>
         /\ ptx[t] # NoResult
         /\ ptx[t].image = ImageOf(req[t])

\* The entries of a process are modules of their keys' images.
Entries ==
  \A p \in Processes : \A k \in DOMAIN cache[p] :
    cache[p][k].image = PathOf(k)

Typed == TypeOK /\ Indexed /\ Carries /\ Entries

\* An inode has one name at most, and is of the image it is named by; a thread
\* has a file of its own name open.
Files ==
  /\ \A f \in Paths : path[f] # NoFile => content[path[f]].image = f
  /\ \A f \in Paths : tmp[f] # NoFile => content[tmp[f]].image = f
  /\ \A f, g \in Paths : path[f] # NoFile /\ path[f] = path[g] => f = g
  /\ \A f, g \in Paths : tmp[f] # NoFile /\ tmp[f] = tmp[g] => f = g
  /\ \A f, g \in Paths : path[f] # NoFile => path[f] # tmp[g]
  /\ \A t \in Threads, f \in Paths :
       fd[t] # NoFile /\ (path[f] = fd[t] \/ tmp[f] = fd[t]) => f = File(t)

LEMMA EntriesKept ==
  ASSUME Entries, NEW q \in Processes, cache'[q] = cache[q], NEW k \in DOMAIN cache'[q]
  PROVE  cache'[q][k].image = PathOf(k)
BY DEF Entries

\* A call that ends, with a module of the right type or an error.
LEMMA EndsTyped ==
  ASSUME Typed, NEW t \in Threads,
         NEW x \in Results \cup {NoResult}, Ends(t, x),
         pc[t] \notin {"idle", "write"},
         UNCHANGED <<disk, req, fd, calls, crashes, overlap>>,
         DOMAIN cache' = Processes,
         \A p \in Processes : DOMAIN cache'[p] \subseteq Keys /\ Range(cache'[p]) \subseteq Modules,
         Entries'
  PROVE  Typed'
<1> USE DEF Typed, TypeOK, Indexed, Carries, disk
<1>1. got' \in [Threads -> Results \cup {NoResult}] /\ DOMAIN got' = Threads
  BY DEF Ends
<1>2. ptx' \in [Threads -> Bytes \cup {NoResult}] /\ ptx'[t] = NoResult
      /\ \A u \in Threads \ {t} : ptx'[u] = ptx[u]
  BY DEF Ends
<1>3. pc' \in [Threads -> Places] /\ pc'[t] = "idle" /\ \A u \in Threads \ {t} : pc'[u] = pc[u]
  BY DEF Ends, Goto, Places
<1>4. Carries'
  BY <1>2, <1>3
<1>5. \A u \in Threads : fd'[u] # NoFile <=> pc'[u] = "write"
  BY <1>3
<1> QED
  BY <1>1, <1>2, <1>3, <1>4, <1>5

\* What a call returns of a module.
LEMMA ResolvesTyped ==
  ASSUME Typed, NEW t \in Threads, NEW m \in Modules, Resolves(t, m)
  PROVE  \E x \in Results \cup {NoResult} : Ends(t, x)
BY DEF Resolves, Result, Results, Typed, TypeOK

LEMMA HitTyped == ASSUME Typed, NEW t \in Threads, Hit(t) PROVE Typed'
<1>1. ProcessOf[t] \in Processes /\ UNCHANGED cache
  BY KernelCacheAssumption DEF Hit
<1>2. Cache(t)[Key(t)] \in Modules
  BY <1>1 DEF Hit, Typed, TypeOK, Cache, Range
<1>3. Entries'
  BY <1>1 DEF Typed, Entries
<1>4. pc[t] \notin {"idle", "write"}
  BY DEF Hit
<1> QED
  BY <1>1, <1>2, <1>3, <1>4, EndsTyped, ResolvesTyped DEF Hit, Typed, TypeOK, Indexed

LEMMA InsertTyped == ASSUME Typed, NEW t \in Threads, Insert(t) PROVE Typed'
<1> USE DEF Typed, TypeOK, Indexed
<1> DEFINE p == ProcessOf[t]
           m == Loaded(t)
<1>1. p \in Processes /\ req[t] \in Requests /\ Key(t) \in Keys /\ pc[t] = "insert"
  BY KernelCacheAssumption, Naming DEF Insert, Key
<1>2. m \in Modules /\ m.image = ImageOf(req[t])
  <2>1. ptx[t] \in Bytes /\ ptx[t].image = ImageOf(req[t]) /\ calls[t] \in 1 .. MaxCalls
    BY <1>1, KernelCacheAssumption DEF Carries
  <2>2. req[t].dev \in Devices
    BY <1>1, KernelCacheAssumption
  <2> QED
    BY <2>1, <2>2 DEF Loaded, Modules, Bytes
<1>3. CASE Key(t) \in DOMAIN Cache(t)
  <2>1. Resolves(t, Cache(t)[Key(t)]) /\ UNCHANGED cache
    BY <1>3 DEF Insert
  <2>2. Cache(t)[Key(t)] \in Modules
    BY <1>1, <1>3 DEF Cache, Range
  <2>3. Entries'
    BY <2>1, ZenonT(60) DEF Entries
  <2> QED
    BY <1>1, <2>1, <2>2, <2>3, EndsTyped, ResolvesTyped DEF Insert
<1>4. CASE Key(t) \notin DOMAIN Cache(t)
  <2>1. Resolves(t, m) /\ cache' = [cache EXCEPT ![p] = WithEntry(cache[p], Key(t), m)]
    BY <1>4 DEF Insert
  <2>2. /\ DOMAIN cache' = Processes
        /\ cache'[p] = WithEntry(cache[p], Key(t), m)
        /\ \A q \in Processes \ {p} : cache'[q] = cache[q]
    BY <1>1, <2>1
  <2>3. /\ DOMAIN cache'[p] = DOMAIN cache[p] \cup {Key(t)}
        /\ cache'[p][Key(t)] = m
        /\ \A k \in DOMAIN cache[p] : cache'[p][k] = cache[p][k]
    BY <1>4, <2>2 DEF WithEntry, Cache
  <2>4. Range(cache'[p]) \subseteq Modules
    BY <1>1, <1>2, <2>3 DEF Range
  <2>5. \A q \in Processes : DOMAIN cache'[q] \subseteq Keys /\ Range(cache'[q]) \subseteq Modules
    BY <1>1, <2>2, <2>3, <2>4
  <2>6. m.image = PathOf(Key(t))
    BY <1>1, <1>2, Naming DEF Key
  <2>7. ASSUME NEW q \in Processes, NEW k \in DOMAIN cache'[q]
        PROVE  cache'[q][k].image = PathOf(k)
    <3>1. CASE q # p
      BY <2>2, <3>1, EntriesKept
    <3>2. CASE q = p /\ k = Key(t)
      BY <2>3, <2>6, <3>2
    <3>3. CASE q = p /\ k \in DOMAIN cache[p]
      BY <1>1, <2>3, <3>3 DEF Entries
    <3> QED
      BY <2>3, <3>1, <3>2, <3>3
  <2>8. Entries'
    BY <2>7 DEF Entries
  <2> QED
    BY <1>1, <1>2, <2>1, <2>2, <2>5, <2>8, EndsTyped, ResolvesTyped DEF Insert
<1> QED
  BY <1>3, <1>4

\* The other endings.
LEMMA FailsTyped ==
  ASSUME Typed, NEW t \in Threads, LoadModuleFails(t) \/ (Compile(t) /\ Ends(t, NoResult))
  PROVE  Typed'
<1>1. UNCHANGED <<cache, disk, req, fd, calls, crashes, overlap>> /\ Ends(t, NoResult)
      /\ pc[t] \notin {"idle", "write"}
  BY DEF LoadModuleFails, Compile
<1>2. Entries'
  BY <1>1 DEF Typed, Entries
<1> QED
  BY <1>1, <1>2, EndsTyped DEF Typed, TypeOK, Indexed

\* A step inside a call: types, and what the thread carries on.
LEMMA StepTyped ==
  ASSUME Typed, NEW t \in Threads, NEW place \in Places \ {"idle"},
         Goto(t, place), UNCHANGED <<cache, got, crashes>>,
         calls' \in [Threads -> 0 .. MaxCalls], calls'[t] >= 1,
         req' \in [Threads -> Requests], ptx' \in [Threads -> Bytes \cup {NoResult}],
         fd' \in [Threads -> Inodes \cup {NoFile}],
         \A u \in Threads \ {t} : /\ calls'[u] = calls[u] /\ req'[u] = req[u]
                                  /\ ptx'[u] = ptx[u] /\ fd'[u] = fd[u],
         fd'[t] # NoFile <=> place = "write",
         path' \in [Paths -> Inodes \cup {NoFile}], tmp' \in [Paths -> Inodes \cup {NoFile}],
         content' \in [Inodes -> Bytes], overlap' \subseteq Paths,
         IF place \in {"lookup", "load", "compile"} THEN ptx'[t] = NoResult
         ELSE ptx'[t] # NoResult /\ ptx'[t].image = ImageOf(req'[t])
  PROVE  Typed'
<1> USE DEF Typed, TypeOK, Indexed
<1>1. pc' \in [Threads -> Places] /\ pc'[t] = place /\ \A u \in Threads \ {t} : pc'[u] = pc[u]
  BY DEF Goto
<1>2. \A u \in Threads : fd'[u] # NoFile <=> pc'[u] = "write"
  BY <1>1
<1>3. Carries'
  BY <1>1 DEF Carries, Places
<1>4. Entries'
  BY DEF Entries
<1> QED
  BY <1>1, <1>2, <1>3, <1>4

LEMMA CrashTyped == ASSUME Typed, NEW p \in Processes, Crash(p) PROVE Typed'
<1> USE DEF Typed, TypeOK, Indexed
<1>1. /\ cache' = [cache EXCEPT ![p] = [k \in {} |-> NoResult]]
      /\ pc' = [t \in Threads |-> IF ProcessOf[t] = p THEN "idle" ELSE pc[t]]
      /\ fd' = [t \in Threads |-> IF ProcessOf[t] = p THEN NoFile ELSE fd[t]]
      /\ ptx' = [t \in Threads |-> IF ProcessOf[t] = p THEN NoResult ELSE ptx[t]]
      /\ got' = [t \in Threads |-> IF ProcessOf[t] = p THEN NoResult ELSE got[t]]
      /\ crashes' \in 0 .. MaxCrashes
      /\ UNCHANGED <<path, tmp, content, req, calls, overlap>>
  BY KernelCacheAssumption DEF Crash, disk
<1>2. /\ DOMAIN cache' = Processes
      /\ \A q \in Processes : cache'[q] = IF q = p THEN [k \in {} |-> NoResult] ELSE cache[q]
  BY <1>1
<1>3. \A q \in Processes : DOMAIN cache'[q] \subseteq Keys /\ Range(cache'[q]) \subseteq Modules
  BY <1>2 DEF Range
<1>4. \A q \in Processes : \A k \in DOMAIN cache'[q] :
        cache'[q][k].image = PathOf(k)
  BY <1>2, EntriesKept
<1>5. pc' \in [Threads -> Places] /\ fd' \in [Threads -> Inodes \cup {NoFile}]
      /\ ptx' \in [Threads -> Bytes \cup {NoResult}]
      /\ got' \in [Threads -> Results \cup {NoResult}]
  BY <1>1 DEF Places
<1>6. \A t \in Threads : fd'[t] # NoFile <=> pc'[t] = "write"
  BY <1>1
<1>7. Carries'
  BY <1>1 DEF Carries
<1> QED
  BY <1>1, <1>2, <1>3, <1>4, <1>5, <1>6, <1>7 DEF Entries

LEMMA TypedStep ==
  ASSUME Typed, Files, [Next]_vars
  PROVE  Typed'
<1> USE DEF Typed, TypeOK, Indexed, disk
<1>1. ASSUME NEW t \in Threads, NEW r \in Requests, Call(t, r)
      PROVE  Typed'
  <2>1. pc[t] = "idle" /\ calls[t] < MaxCalls /\ calls' = [calls EXCEPT ![t] = calls[t] + 1]
        /\ calls'[t] \in 1 .. MaxCalls
    BY <1>1, KernelCacheAssumption DEF Call
  <2>2. ptx[t] = NoResult /\ fd[t] = NoFile
    BY <2>1 DEF Carries
  <2>3. /\ Goto(t, "lookup") /\ req' = [req EXCEPT ![t] = r] /\ got' = [got EXCEPT ![t] = NoResult]
        /\ UNCHANGED <<cache, path, tmp, content, fd, ptx, crashes, overlap>>
    BY <1>1 DEF Call
  <2>4. pc' \in [Threads -> Places] /\ pc'[t] = "lookup" /\ \A u \in Threads \ {t} : pc'[u] = pc[u]
    BY <2>3 DEF Goto, Places
  <2>5. calls' \in [Threads -> 0 .. MaxCalls]
    BY <2>1
  <2>6. Carries'
    BY <2>1, <2>2, <2>3, <2>4 DEF Carries
  <2>7. Entries'
    BY <2>3, ZenonT(60) DEF Entries
  <2>8. got' \in [Threads -> Results \cup {NoResult}] /\ req' \in [Threads -> Requests]
    BY <2>3
  <2>9. \A u \in Threads : fd'[u] # NoFile <=> pc'[u] = "write"
    BY <2>1, <2>3, <2>4
  <2> QED
    BY <2>3, <2>4, <2>5, <2>6, <2>7, <2>8, <2>9
<1>2. ASSUME NEW t \in Threads, Miss(t)
      PROVE  Typed'
  <2>1. ptx[t] = NoResult /\ fd[t] = NoFile /\ calls[t] >= 1
    BY <1>2 DEF Miss, Carries
  <2> QED
    BY <1>2, <2>1, StepTyped DEF Miss, Places
<1>3. ASSUME NEW t \in Threads, Load(t)
      PROVE  Typed'
  <2>1. ptx[t] = NoResult /\ fd[t] = NoFile /\ calls[t] >= 1 /\ File(t) = ImageOf(req[t])
        /\ File(t) \in Paths
    BY <1>3, Naming DEF Load, Carries, File, Key
  <2>2. CASE Goto(t, "compile") /\ UNCHANGED ptx
    BY <1>3, <2>1, <2>2, StepTyped DEF Load, Places
  <2>3. CASE /\ path[File(t)] # NoFile
             /\ Goto(t, "module")
             /\ ptx' = [ptx EXCEPT ![t] = content[path[File(t)]]]
    <3>1. content[path[File(t)]] \in Bytes /\ content[path[File(t)]].image = ImageOf(req[t])
      BY <2>1, <2>3 DEF Files
    <3>2. content[path[File(t)]] # NoResult
      BY <3>1, NoResultAssumption
    <3> QED
      BY <1>3, <2>1, <2>3, <3>1, <3>2, StepTyped DEF Load, Places
  <2> QED
    BY <1>3, <2>2, <2>3 DEF Load
<1>4. ASSUME NEW t \in Threads, Compile(t), Goto(t, "store")
      PROVE  Typed'
  <2> DEFINE b == [image |-> ImageOf(req[t]), whole |-> TRUE]
  <2>1. fd[t] = NoFile /\ calls[t] >= 1 /\ pc[t] = "compile"
    BY <1>4 DEF Compile, Carries
  <2>2. ~ Goto(t, "idle")
    BY <1>4 DEF Goto
  <2>3. ptx' = [ptx EXCEPT ![t] = b] /\ UNCHANGED got
    BY <1>4, <2>2 DEF Compile, Ends
  <2>4. b \in Bytes
    BY Naming DEF Bytes
  <2>5. b # NoResult
    BY <2>4, NoResultAssumption
  <2> QED
    BY <1>4, <2>1, <2>3, <2>4, <2>5, StepTyped DEF Compile, Places
<1>5. ASSUME NEW t \in Threads, OpenTmp(t)
      PROVE  Typed'
  <2>1. fd[t] = NoFile /\ calls[t] >= 1 /\ pc[t] = "store" /\ File(t) \in Paths
        /\ ptx[t] \in Bytes /\ ptx[t] # NoResult /\ ptx[t].image = ImageOf(req[t])
    BY <1>5, Naming DEF OpenTmp, Carries, File, Key
  <2>2. PICK i \in Inodes : /\ tmp' = [tmp EXCEPT ![File(t)] = i]
                            /\ fd' = [fd EXCEPT ![t] = i]
                            /\ content' = [content EXCEPT ![i] = [ptx[t] EXCEPT !.whole = FALSE]]
    BY <1>5, <2>1, FreshInode DEF OpenTmp, Unused
  <2>3. content' \in [Inodes -> Bytes] /\ i # NoFile
    <3>1. [ptx[t] EXCEPT !.whole = FALSE] \in Bytes
      BY <2>1 DEF Bytes
    <3>2. i \in Nat
      BY DEF Inodes
    <3> QED
      BY <2>2, <3>1, <3>2, KernelCacheAssumption
  <2>4. overlap' \subseteq Paths /\ Goto(t, "write")
    BY <1>5, <2>1 DEF OpenTmp
  <2>5. /\ fd' \in [Threads -> Inodes \cup {NoFile}] /\ fd'[t] = i
        /\ \A u \in Threads \ {t} : fd'[u] = fd[u]
        /\ tmp' \in [Paths -> Inodes \cup {NoFile}]
    BY <2>1, <2>2
  <2>6. UNCHANGED <<cache, path, req, ptx, got, calls, crashes>>
    BY <1>5 DEF OpenTmp
  <2> QED
    BY <2>1, <2>3, <2>4, <2>5, <2>6, StepTyped DEF Places
<1>6. ASSUME NEW t \in Threads, WriteTmp(t)
      PROVE  Typed'
  <2>1. fd[t] \in Inodes /\ calls[t] >= 1 /\ pc[t] = "write"
        /\ ptx[t] \in Bytes /\ ptx[t] # NoResult /\ ptx[t].image = ImageOf(req[t])
    BY <1>6 DEF WriteTmp, Carries
  <2> QED
    BY <1>6, <2>1, StepTyped DEF WriteTmp, Places
<1>7. ASSUME NEW t \in Threads, Rename(t)
      PROVE  Typed'
  <2>1. fd[t] = NoFile /\ calls[t] >= 1 /\ pc[t] = "rename"
        /\ ptx[t] \in Bytes /\ ptx[t] # NoResult /\ ptx[t].image = ImageOf(req[t])
    BY <1>7 DEF Rename, Carries
  <2>2. path' \in [Paths -> Inodes \cup {NoFile}] /\ tmp' \in [Paths -> Inodes \cup {NoFile}]
    BY <1>7 DEF Rename
  <2> QED
    BY <1>7, <2>1, <2>2, StepTyped DEF Rename, Places
<1>8. ASSUME NEW t \in Threads, StoreFails(t) \/ LoadModule(t)
      PROVE  Typed'
  <2>1. calls[t] >= 1 /\ ptx[t] \in Bytes /\ ptx[t] # NoResult /\ ptx[t].image = ImageOf(req[t])
    BY <1>8 DEF StoreFails, LoadModule, Carries
  <2> QED
    BY <1>8, <2>1, StepTyped DEF StoreFails, LoadModule, Places
<1>9. CASE UNCHANGED vars
  BY <1>9 DEF vars, Carries, Entries
<1> QED
  BY <1>1, <1>2, <1>3, <1>4, <1>5, <1>6, <1>7, <1>8, <1>9, HitTyped, InsertTyped,
     FailsTyped, CrashTyped DEF Next, Compile

\* The request of a thread inside a call, and so the name of its file, is fixed.
LEMMA FileKept ==
  ASSUME Typed, [Next]_vars, NEW t \in Threads, pc[t] # "idle"
  PROVE  req'[t] = req[t] /\ File(t)' = File(t)
<1>1. req'[t] = req[t]
  BY DEF Typed, TypeOK, Next, vars, Call, Hit, Miss, Load, Compile, OpenTmp, WriteTmp, Rename,
         StoreFails, LoadModule, LoadModuleFails, Insert, Crash
<1> QED
  BY <1>1 DEF File, Key

\* Names that nobody changes, and open files that at most were closed.
LEMMA FilesKept ==
  ASSUME Typed, Files, [Next]_vars, UNCHANGED <<path, tmp, content>>,
         \A t \in Threads : fd'[t] = NoFile \/ fd'[t] = fd[t]
  PROVE  Files'
<1>1. ASSUME NEW t \in Threads, NEW f \in Paths, fd'[t] # NoFile,
             path[f] = fd'[t] \/ tmp[f] = fd'[t]
      PROVE  f = File(t)'
  <2>1. fd'[t] = fd[t] /\ pc[t] = "write"
    BY <1>1 DEF Typed, TypeOK
  <2> QED
    BY <1>1, <2>1, FileKept DEF Files
<1> QED
  BY <1>1 DEF Files

LEMMA FilesStep ==
  ASSUME Typed, Files, [Next]_vars
  PROVE  Files'
<1> USE DEF Typed, TypeOK
<1>1. ASSUME NEW t \in Threads, OpenTmp(t)
      PROVE  Files'
  <2> DEFINE f == File(t)
             i == IF tmp[f] # NoFile THEN tmp[f] ELSE CHOOSE j \in Unused : TRUE
  <2>1. f \in Paths /\ f = ImageOf(req[t]) /\ pc[t] = "store" /\ fd[t] = NoFile
        /\ ptx[t] \in Bytes /\ ptx[t].image = f
    BY <1>1, Naming DEF OpenTmp, Carries, File, Key
  <2>2. /\ tmp' = [tmp EXCEPT ![f] = i]
        /\ fd' = [fd EXCEPT ![t] = i]
        /\ content' = [content EXCEPT ![i] = [ptx[t] EXCEPT !.whole = FALSE]]
        /\ UNCHANGED <<path, req>>
    BY <1>1 DEF OpenTmp
  <2>3. \/ i = tmp[f] /\ tmp[f] # NoFile
        \/ i \in Unused
    BY <2>1, FreshInode
  <2>4. i \in Inodes /\ i # NoFile
    BY <2>1, <2>3, KernelCacheAssumption DEF Unused, Inodes
  <2>5. \A g \in Paths : path[g] # i /\ (tmp[g] = i => g = f)
    BY <2>1, <2>3 DEF Files, Unused, Range
  <2>6. tmp'[f] = i /\ \A g \in Paths \ {f} : tmp'[g] = tmp[g]
    BY <2>1, <2>2
  <2>7. content'[i].image = f /\ \A j \in Inodes \ {i} : content'[j] = content[j]
    BY <2>1, <2>2, <2>4 DEF Bytes
  <2>8. \A u \in Threads \ {t} : fd'[u] = fd[u]
    BY <2>2
  <2>9. \A g \in Paths : path'[g] # NoFile => content'[path'[g]].image = g
    BY <2>2, <2>5, <2>7 DEF Files
  <2>10. \A g \in Paths : tmp'[g] # NoFile => content'[tmp'[g]].image = g
    BY <2>4, <2>5, <2>6, <2>7 DEF Files
  <2>11. \A g, h \in Paths : tmp'[g] # NoFile /\ tmp'[g] = tmp'[h] => g = h
    BY <2>5, <2>6 DEF Files
  <2>12. \A g, h \in Paths : path'[g] # NoFile => path'[g] # tmp'[h]
    BY <2>2, <2>5, <2>6 DEF Files
  <2>13. ASSUME NEW u \in Threads, NEW g \in Paths, fd'[u] # NoFile,
                path'[g] = fd'[u] \/ tmp'[g] = fd'[u]
         PROVE  g = File(u)'
    <3>1. CASE u = t
      <4>1. fd'[u] = i /\ File(u)' = f
        BY <2>1, <2>2, <3>1, FileKept
      <4> QED
        BY <2>2, <2>5, <2>6, <2>13, <4>1
    <3>2. CASE u # t
      <4>1. fd'[u] = fd[u] /\ pc[u] = "write" /\ File(u)' = File(u)
        BY <2>8, <2>13, <3>2, FileKept
      <4>2. CASE path[g] = fd[u] \/ tmp[g] = fd[u]
        BY <2>13, <4>1, <4>2 DEF Files
      <4>3. CASE g = f /\ i = fd[u] /\ tmp[f] # i
        BY <2>3, <4>3 DEF Unused, Range
      <4> QED
        BY <2>2, <2>6, <2>13, <4>1, <4>2, <4>3
    <3> QED
      BY <3>1, <3>2
  <2> QED
    BY <2>2, <2>9, <2>10, <2>11, <2>12, <2>13, ZenonT(60) DEF Files
<1>2. ASSUME NEW t \in Threads, WriteTmp(t)
      PROVE  Files'
  <2>1. fd[t] \in Inodes /\ fd[t] # NoFile /\ ptx[t].image = File(t) /\ pc[t] = "write"
    BY <1>2, Naming DEF WriteTmp, Carries, File, Key
  <2>2. /\ content' = [content EXCEPT ![fd[t]] = ptx[t]]
        /\ fd' = [fd EXCEPT ![t] = NoFile]
        /\ UNCHANGED <<path, tmp, req>>
    BY <1>2 DEF WriteTmp
  <2>3. content'[fd[t]].image = File(t) /\ \A j \in Inodes \ {fd[t]} : content'[j] = content[j]
    BY <2>1, <2>2
  <2>4. \A g \in Paths : path[g] # NoFile => content'[path[g]].image = g
    BY <2>1, <2>3 DEF Files
  <2>5. \A g \in Paths : tmp[g] # NoFile => content'[tmp[g]].image = g
    BY <2>1, <2>3 DEF Files
  <2>6. ASSUME NEW u \in Threads, NEW g \in Paths, fd'[u] # NoFile,
               path[g] = fd'[u] \/ tmp[g] = fd'[u]
        PROVE  g = File(u)'
    <3>1. fd'[u] = fd[u] /\ pc[u] = "write" /\ File(u)' = File(u)
      BY <2>2, <2>6, FileKept
    <3> QED
      BY <2>6, <3>1 DEF Files
  <2> QED
    BY <2>2, <2>4, <2>5, <2>6 DEF Files
<1>3. ASSUME NEW t \in Threads, Rename(t), tmp[File(t)] # NoFile
      PROVE  Files'
  <2> DEFINE f == File(t)
  <2>1. f \in Paths
    BY Naming DEF File, Key
  <2>2. path' = [path EXCEPT ![f] = tmp[f]] /\ tmp' = [tmp EXCEPT ![f] = NoFile]
        /\ UNCHANGED <<content, fd, req>>
    BY <1>3 DEF Rename
  <2>3. /\ path'[f] = tmp[f] /\ \A g \in Paths \ {f} : path'[g] = path[g]
        /\ tmp'[f] = NoFile /\ \A g \in Paths \ {f} : tmp'[g] = tmp[g]
    BY <2>1, <2>2
  <2>4. \A g \in Paths : path'[g] # NoFile => content'[path'[g]].image = g
    BY <2>2, <2>3 DEF Files
  <2>5. \A g \in Paths : tmp'[g] # NoFile => content'[tmp'[g]].image = g
    BY <2>2, <2>3 DEF Files
  <2>6. \A g, h \in Paths : path'[g] # NoFile /\ path'[g] = path'[h] => g = h
    BY <1>3, <2>1, <2>3 DEF Files
  <2>7. \A g, h \in Paths : tmp'[g] # NoFile /\ tmp'[g] = tmp'[h] => g = h
    BY <2>1, <2>3 DEF Files
  <2>8. \A g, h \in Paths : path'[g] # NoFile => path'[g] # tmp'[h]
    BY <1>3, <2>1, <2>3 DEF Files
  <2>9. ASSUME NEW u \in Threads, NEW g \in Paths, fd'[u] # NoFile,
               path'[g] = fd'[u] \/ tmp'[g] = fd'[u]
        PROVE  g = File(u)'
    <3>1. fd'[u] = fd[u] /\ pc[u] = "write" /\ File(u)' = File(u)
      BY <2>2, <2>9, FileKept
    <3>2. path[g] = fd[u] \/ tmp[g] = fd[u]
      BY <2>1, <2>3, <2>9, <3>1
    <3> QED
      BY <2>9, <3>1, <3>2 DEF Files
  <2> QED
    BY <2>4, <2>5, <2>6, <2>7, <2>8, <2>9 DEF Files
<1>4. CASE /\ UNCHANGED <<path, tmp, content>>
           /\ \A t \in Threads : fd'[t] = NoFile \/ fd'[t] = fd[t]
  BY <1>4, FilesKept
<1> QED
  BY <1>1, <1>2, <1>3, <1>4 DEF Next, vars, disk, Call, Hit, Miss, Load, Compile, Rename,
     StoreFails, LoadModule, LoadModuleFails, Insert, Crash

FilesInv == Typed /\ Files

LEMMA FilesInvariant == Spec => []FilesInv
<1>1. Init => FilesInv
  <2> SUFFICES ASSUME Init PROVE FilesInv
    OBVIOUS
  <2>1. (CHOOSE r \in Requests : TRUE) \in Requests
    BY KernelCacheAssumption
  <2>2. (CHOOSE im \in Images : TRUE) \in Images
    BY <2>1, Naming
  <2>3. TypeOK
    BY <2>1, <2>2, KernelCacheAssumption DEF Init, TypeOK, Places, Bytes, Range
  <2>4. Indexed /\ Carries /\ Entries
    BY DEF Init, Indexed, Carries, Entries
  <2>5. Files
    BY DEF Init, Files
  <2> QED
    BY <2>3, <2>4, <2>5 DEF FilesInv, Typed
<1>2. FilesInv /\ [Next]_vars => FilesInv'
  BY TypedStep, FilesStep DEF FilesInv
<1> QED
  BY <1>1, <1>2, PTL DEF Spec

\* Every state of the cache and of the files is well typed.
THEOREM TypeCorrect == Spec => []TypeOK
<1>1. FilesInv => TypeOK
  BY DEF FilesInv, Typed
<1> QED
  BY <1>1, FilesInvariant, PTL

\* A kernel returned is the image of the source and the architecture asked for,
\* whichever function's or process's file it was read from.
THEOREM ImageCorrect == Spec => []RightImage
<1>1. FilesInv /\ HeldInv => RightImage
  <2> SUFFICES ASSUME FilesInv, HeldInv, NEW t \in Threads, got[t] # NoResult
               PROVE  got[t].module.image = ImageOf(got[t].req)
    BY DEF RightImage
  <2> DEFINE k == KeyOf(got[t].req)
  <2>1. ProcessOf[t] \in Processes
    BY KernelCacheAssumption
  <2>2. k \in DOMAIN cache[ProcessOf[t]] /\ cache[ProcessOf[t]][k] = got[t].module
    BY DEF HeldInv, Held, Cache
  <2>3. got[t].module.image = PathOf(k)
    BY <2>1, <2>2 DEF FilesInv, Typed, Entries
  <2>4. got[t].req \in Requests
    BY DEF FilesInv, Typed, TypeOK, Results
  <2> QED
    BY <2>3, <2>4, Naming
<1> QED
  BY <1>1, FilesInvariant, HeldInvariant, PTL

\* The entry of a key was loaded for a request with that key.
AskedWith(k, m) == \E r \in Requests : KeyOf(r) = k /\ r.dev = m.dev

Keyed == \A p \in Processes : \A k \in DOMAIN cache[p] : AskedWith(k, cache[p][k])

LEMMA KeyedStep == ASSUME HeldInv, req \in [Threads -> Requests], Keyed, [Next]_vars PROVE Keyed'
<1>1. CASE UNCHANGED cache
  BY <1>1 DEF Keyed
<1>2. ASSUME NEW p \in Processes, Crash(p) PROVE Keyed'
  <2>1. cache' = [cache EXCEPT ![p] = [k \in {} |-> NoResult]] /\ DOMAIN cache = Processes
    BY <1>2 DEF Crash, HeldInv, Indexed
  <2> QED BY <2>1 DEF Keyed
<1>3. ASSUME NEW t \in Threads, Insert(t), Key(t) \notin DOMAIN Cache(t) PROVE Keyed'
  <2>1. req[t] \in Requests /\ ProcessOf[t] \in Processes
    BY KernelCacheAssumption
  <2>2. AskedWith(Key(t), Loaded(t))
    BY <2>1 DEF AskedWith, Loaded, Key
  <2>3. /\ cache' = [cache EXCEPT ![ProcessOf[t]] = WithEntry(cache[ProcessOf[t]], Key(t), Loaded(t))]
        /\ DOMAIN cache = Processes
    BY <1>3 DEF Insert, HeldInv, Indexed
  <2>4. /\ cache'[ProcessOf[t]] = WithEntry(cache[ProcessOf[t]], Key(t), Loaded(t))
        /\ \A p \in Processes \ {ProcessOf[t]} : cache'[p] = cache[p]
    BY <2>1, <2>3
  <2>5. SUFFICES ASSUME NEW p \in Processes, NEW k \in DOMAIN cache'[p]
                 PROVE  AskedWith(k, cache'[p][k])
    BY DEF Keyed, AskedWith
  <2>6. CASE p = ProcessOf[t]
    <3>1. cache'[p] = [x \in DOMAIN cache[p] \cup {Key(t)} |->
                         IF x = Key(t) THEN Loaded(t) ELSE cache[p][x]]
      BY <2>4, <2>6 DEF WithEntry
    <3>2. k \in DOMAIN cache[p] \cup {Key(t)}
      BY <2>5, <3>1
    <3>3. cache'[p][k] = IF k = Key(t) THEN Loaded(t) ELSE cache[p][k]
      BY <3>1, <3>2
    <3>4. CASE k = Key(t)
      BY <2>1, <2>2, <3>3, <3>4
    <3>5. CASE k # Key(t)
      BY <3>2, <3>3, <3>5 DEF Keyed
    <3> QED BY <3>4, <3>5
  <2>7. CASE p # ProcessOf[t]
    BY <2>4, <2>5, <2>7 DEF Keyed
  <2> QED BY <2>6, <2>7
<1>4. ASSUME NEW t \in Threads, Insert(t), Key(t) \in DOMAIN Cache(t) PROVE UNCHANGED cache
  BY <1>4 DEF Insert
<1> QED BY <1>1, <1>2, <1>3, <1>4, OtherStep DEF Next, Hit, vars

\* A kernel returned is a module of the context of the device asked for, as far
\* as the key, which has no device in it (kernel.rs:163), tells them apart: where
\* no two devices are asked for with one source, options, architecture (the
\* device's, or the one the options name) and function.
THEOREM DeviceCorrect ==
  ASSUME \A r, q \in Requests : KeyOf(r) = KeyOf(q) => r.dev = q.dev
  PROVE  Spec => []RightDevice
<1>1. Init => Keyed
  BY DEF Init, Keyed
<1>2. HeldInv /\ FilesInv /\ Keyed /\ [Next]_vars => Keyed'
  BY KeyedStep DEF FilesInv, Typed, TypeOK
<1>3. HeldInv /\ FilesInv /\ Keyed => RightDevice
  <2> SUFFICES ASSUME HeldInv, FilesInv, Keyed, NEW t \in Threads, got[t] # NoResult
               PROVE  got[t].module.dev = got[t].req.dev
    BY DEF RightDevice
  <2>1. got[t] \in Results
    BY DEF FilesInv, Typed, TypeOK
  <2>2. got[t].req \in Requests
    BY <2>1 DEF Results
  <2>3. /\ KeyOf(got[t].req) \in DOMAIN cache[ProcessOf[t]]
        /\ cache[ProcessOf[t]][KeyOf(got[t].req)] = got[t].module
        /\ ProcessOf[t] \in Processes
    BY KernelCacheAssumption DEF HeldInv, Held, Cache
  <2>4. PICK r \in Requests : KeyOf(r) = KeyOf(got[t].req) /\ r.dev = got[t].module.dev
    BY <2>3 DEF Keyed, AskedWith
  <2> QED BY <2>2, <2>4
<1> QED BY <1>1, <1>2, <1>3, HeldInvariant, FilesInvariant, PTL DEF Spec
-----------------------------------------------------------------------------
(***************************************************************************)
(* Half an image.  While nobody else has been storing its file, the        *)
(* temporary file of a storing thread is the one it writes, and is whole   *)
(* once written: what it renames is whole.                                 *)
(***************************************************************************)
Alone(t) == File(t) \notin overlap

Tears ==
  /\ \A t, u \in Threads :
       /\ pc[t] \in {"write", "rename"} /\ pc[u] \in {"write", "rename"}
       /\ t # u /\ File(t) = File(u)
       => File(t) \in overlap
  /\ \A t \in Threads : pc[t] = "write" /\ Alone(t) => tmp[File(t)] = fd[t]
  /\ \A t \in Threads : pc[t] = "rename" /\ Alone(t) /\ tmp[File(t)] # NoFile =>
       content[tmp[File(t)]].whole
  /\ \A t \in Threads : pc[t] \in {"store", "write", "rename"} => ptx[t].whole
  /\ TornOnlyByOverlap

\* Steps that leave the files alone and start no storing.
LEMMA TearsKept ==
  ASSUME FilesInv, Tears, [Next]_vars, UNCHANGED <<path, tmp, content, overlap>>,
         \A t \in Threads :
           /\ pc'[t] \in {"write", "rename"} => pc'[t] = pc[t] /\ fd'[t] = fd[t]
           /\ pc'[t] = "store" => ptx'[t].whole
           /\ \/ ptx'[t] = NoResult
              \/ ptx'[t] = ptx[t]
              \/ pc[t] # "idle" /\ (ptx'[t].whole \/ File(t) \in overlap)
           /\ pc'[t] \in {"write", "rename"} => ptx'[t] = ptx[t]
  PROVE  Tears'
<1>1. \A t \in Threads : pc[t] # "idle" => File(t)' = File(t)
  BY FileKept DEF FilesInv
<1>2. \A t \in Threads : pc[t] = "idle" => ptx[t] = NoResult
  BY DEF FilesInv, Typed, Carries
<1>3. \A t \in Threads : ptx'[t] # NoResult /\ ~ptx'[t].whole => File(t)' \in overlap'
  BY <1>1, <1>2 DEF Tears, TornOnlyByOverlap
<1>4. TornOnlyByOverlap'
  BY <1>3 DEF Tears, TornOnlyByOverlap
<1>5. \A t, u \in Threads :
        /\ pc'[t] \in {"write", "rename"} /\ pc'[u] \in {"write", "rename"}
        /\ t # u /\ File(t)' = File(u)'
        => File(t)' \in overlap'
  BY <1>1 DEF Tears
<1>6. \A t \in Threads : pc'[t] = "write" /\ Alone(t)' => tmp'[File(t)'] = fd'[t]
  BY <1>1 DEF Tears, Alone
<1>7. \A t \in Threads : pc'[t] = "rename" /\ Alone(t)' /\ tmp'[File(t)'] # NoFile =>
        content'[tmp'[File(t)']].whole
  BY <1>1 DEF Tears, Alone
<1>8. \A t \in Threads : pc'[t] \in {"store", "write", "rename"} => ptx'[t].whole
  BY DEF Tears
<1> QED
  BY <1>4, <1>5, <1>6, <1>7, <1>8 DEF Tears

LEMMA TearsStep ==
  ASSUME FilesInv, Tears, [Next]_vars
  PROVE  Tears'
<1> USE DEF FilesInv, Typed, TypeOK
<1>0. \A u \in Threads : pc[u] # "idle" => File(u)' = File(u)
  BY FileKept
<1>1. ASSUME NEW t \in Threads, OpenTmp(t)
      PROVE  Tears'
  <2> DEFINE f == File(t)
             i == IF tmp[f] # NoFile THEN tmp[f] ELSE CHOOSE j \in Unused : TRUE
  <2>1. f \in Paths /\ pc[t] = "store" /\ ptx[t].whole
    BY <1>1, Naming DEF OpenTmp, Tears, File, Key
  <2>2. /\ tmp' = [tmp EXCEPT ![f] = i]
        /\ fd' = [fd EXCEPT ![t] = i]
        /\ content' = [content EXCEPT ![i] = [ptx[t] EXCEPT !.whole = FALSE]]
        /\ overlap \subseteq overlap' /\ (Storing(f) # {} => f \in overlap')
        /\ pc'[t] = "write" /\ \A u \in Threads \ {t} : pc'[u] = pc[u]
        /\ UNCHANGED <<path, ptx>>
    BY <1>1 DEF OpenTmp, Goto
  <2>3. \/ i = tmp[f] /\ tmp[f] # NoFile
        \/ i \in Unused
    BY <2>1, FreshInode
  <2>4. i \in Inodes
    BY <2>1, <2>3 DEF Unused
  <2>5. \A g \in Paths : path[g] # i /\ (tmp[g] = i => g = f)
    BY <2>1, <2>3 DEF Files, Unused, Range
  <2>6. /\ tmp'[f] = i /\ \A g \in Paths \ {f} : tmp'[g] = tmp[g]
        /\ fd'[t] = i /\ \A u \in Threads \ {t} : fd'[u] = fd[u]
        /\ \A j \in Inodes \ {i} : content'[j] = content[j]
    BY <2>1, <2>2
  <2>7. ASSUME NEW u \in Threads \ {t}, pc'[u] \in {"write", "rename"}
        PROVE  /\ pc[u] = pc'[u] /\ File(u)' = File(u) /\ File(u) \in Paths
               /\ File(u) = f => f \in overlap'
    <3>1. pc[u] = pc'[u] /\ File(u)' = File(u) /\ File(u) \in Paths
      BY <1>0, <2>2, <2>7, Naming DEF File, Key
    <3>2. File(u) = f => u \in Storing(f)
      BY <2>7, <3>1 DEF Storing
    <3> QED
      BY <2>2, <3>1, <3>2
  <2>8. File(t)' = f
    BY <1>0, <2>1
  <2>9. \A u, v \in Threads :
          /\ pc'[u] \in {"write", "rename"} /\ pc'[v] \in {"write", "rename"}
          /\ u # v /\ File(u)' = File(v)'
          => File(u)' \in overlap'
    BY <2>2, <2>7, <2>8 DEF Tears
  <2>10. \A u \in Threads : pc'[u] = "write" /\ Alone(u)' => tmp'[File(u)'] = fd'[u]
    BY <2>2, <2>6, <2>7, <2>8 DEF Tears, Alone
  <2>11. ASSUME NEW u \in Threads, pc'[u] = "rename", Alone(u)', tmp'[File(u)'] # NoFile
         PROVE  content'[tmp'[File(u)']].whole
    <3>1. u # t /\ File(u)' = File(u) /\ pc[u] = "rename" /\ File(u) \in Paths /\ File(u) # f
          /\ Alone(u)
      BY <2>2, <2>7, <2>11 DEF Alone
    <3>2. tmp'[File(u)] = tmp[File(u)] /\ tmp[File(u)] # i /\ tmp[File(u)] \in Inodes
      BY <2>5, <2>6, <2>11, <3>1
    <3> QED
      BY <2>6, <2>11, <3>1, <3>2 DEF Tears
  <2>12. \A u \in Threads : pc'[u] \in {"store", "write", "rename"} => ptx'[u].whole
    BY <2>1, <2>2 DEF Tears
  <2>13. \A g \in Paths : path'[g] # NoFile /\ ~content'[path'[g]].whole => g \in overlap'
    BY <2>2, <2>5, <2>6 DEF Tears, TornOnlyByOverlap
  <2>14. \A u \in Threads : ptx'[u] # NoResult /\ ~ptx'[u].whole => File(u)' \in overlap'
    BY <1>0, <2>2 DEF Tears, TornOnlyByOverlap, Carries
  <2> QED
    BY <2>9, <2>10, <2>11, <2>12, <2>13, <2>14 DEF Tears, TornOnlyByOverlap
<1>2. ASSUME NEW t \in Threads, WriteTmp(t)
      PROVE  Tears'
  <2> DEFINE f == File(t)
  <2>1. fd[t] \in Inodes /\ pc[t] = "write" /\ ptx[t].whole /\ f \in Paths
    BY <1>2, Naming DEF WriteTmp, Tears, File, Key
  <2>2. /\ content' = [content EXCEPT ![fd[t]] = ptx[t]]
        /\ \A u \in Threads \ {t} : fd'[u] = fd[u] /\ pc'[u] = pc[u]
        /\ pc'[t] = "rename"
        /\ UNCHANGED <<path, tmp, ptx, overlap>>
    BY <1>2 DEF WriteTmp, Goto
  <2>3. content'[fd[t]].whole /\ \A j \in Inodes \ {fd[t]} : content'[j] = content[j]
    BY <2>1, <2>2
  <2>4. \A u, v \in Threads :
          /\ pc'[u] \in {"write", "rename"} /\ pc'[v] \in {"write", "rename"}
          /\ u # v /\ File(u)' = File(v)'
          => File(u)' \in overlap'
    BY <1>0, <2>1, <2>2 DEF Tears
  <2>5. \A u \in Threads : pc'[u] = "write" /\ Alone(u)' => tmp'[File(u)'] = fd'[u]
    BY <1>0, <2>1, <2>2 DEF Tears, Alone
  <2>6. ASSUME NEW u \in Threads, pc'[u] = "rename", Alone(u)', tmp'[File(u)'] # NoFile
        PROVE  content'[tmp'[File(u)']].whole
    <3>1. pc[u] # "idle" /\ File(u)' = File(u) /\ File(u) \in Paths
      BY <1>0, <2>1, <2>2, <2>6, Naming DEF File, Key
    <3>2. tmp[File(u)] \in Inodes
      BY <2>2, <2>6, <3>1
    <3>3. tmp[File(u)] = fd[t] \/ content[tmp[File(u)]].whole
      BY <2>1, <2>2, <2>6, <3>1 DEF Tears, Alone
    <3> QED
      BY <2>2, <2>3, <3>1, <3>2, <3>3
  <2>7. \A u \in Threads : pc'[u] \in {"store", "write", "rename"} => ptx'[u].whole
    BY <2>1, <2>2 DEF Tears
  <2>8. \A g \in Paths : path'[g] # NoFile /\ ~content'[path'[g]].whole => g \in overlap'
    BY <2>2, <2>3 DEF Tears, TornOnlyByOverlap
  <2>9. \A u \in Threads : ptx'[u] # NoResult /\ ~ptx'[u].whole => File(u)' \in overlap'
    BY <1>0, <2>2 DEF Tears, TornOnlyByOverlap, Carries
  <2> QED
    BY <2>4, <2>5, <2>6, <2>7, <2>8, <2>9 DEF Tears, TornOnlyByOverlap
<1>3. ASSUME NEW t \in Threads, Rename(t)
      PROVE  Tears'
  <2> DEFINE f == File(t)
  <2>1. pc[t] = "rename" /\ ptx[t].whole /\ f \in Paths
    BY <1>3, Naming DEF Rename, Tears, File, Key
  <2>2. /\ \A u \in Threads \ {t} : pc'[u] = pc[u]
        /\ pc'[t] = "module"
        /\ UNCHANGED <<content, fd, ptx, overlap>>
    BY <1>3 DEF Rename, Goto
  <2>3. /\ \A g \in Paths \ {f} : path'[g] = path[g] /\ tmp'[g] = tmp[g]
        /\ \/ path'[f] = tmp[f] /\ tmp[f] # NoFile
           \/ path'[f] = path[f]
    BY <1>3, <2>1 DEF Rename
  <2>4. \A u, v \in Threads :
          /\ pc'[u] \in {"write", "rename"} /\ pc'[v] \in {"write", "rename"}
          /\ u # v /\ File(u)' = File(v)'
          => File(u)' \in overlap'
    BY <1>0, <2>1, <2>2 DEF Tears
  <2>5. ASSUME NEW u \in Threads, pc'[u] \in {"write", "rename"}, Alone(u)'
        PROVE  /\ File(u)' = File(u) /\ u # t /\ pc[u] = pc'[u] /\ Alone(u)
               /\ tmp'[File(u)] = tmp[File(u)]
    <3>1. u # t /\ pc[u] = pc'[u] /\ File(u)' = File(u) /\ File(u) \in Paths
      BY <1>0, <2>2, <2>5, Naming DEF File, Key
    <3>2. Alone(u) /\ File(u) # f
      BY <2>1, <2>2, <2>5, <3>1 DEF Alone, Tears
    <3> QED
      BY <2>3, <3>1, <3>2
  <2>6. \A u \in Threads : pc'[u] = "write" /\ Alone(u)' => tmp'[File(u)'] = fd'[u]
    BY <2>2, <2>5 DEF Tears
  <2>7. \A u \in Threads : pc'[u] = "rename" /\ Alone(u)' /\ tmp'[File(u)'] # NoFile =>
          content'[tmp'[File(u)']].whole
    BY <2>2, <2>5 DEF Tears
  <2>8. \A u \in Threads : pc'[u] \in {"store", "write", "rename"} => ptx'[u].whole
    BY <2>2 DEF Tears
  <2>9. \A g \in Paths : path'[g] # NoFile /\ ~content'[path'[g]].whole => g \in overlap'
    BY <2>1, <2>2, <2>3 DEF Tears, TornOnlyByOverlap, Alone
  <2>10. \A u \in Threads : ptx'[u] # NoResult /\ ~ptx'[u].whole => File(u)' \in overlap'
    BY <1>0, <2>2 DEF Tears, TornOnlyByOverlap, Carries
  <2> QED
    BY <2>4, <2>6, <2>7, <2>8, <2>9, <2>10 DEF Tears, TornOnlyByOverlap
<1>4. ASSUME NEW t \in Threads, Load(t)
      PROVE  Tears'
  <2>1. pc[t] = "load" /\ File(t) \in Paths
        /\ UNCHANGED <<path, tmp, content, overlap, fd>>
    BY <1>4, Naming DEF Load, File, Key, disk
  <2>2. pc'[t] \in {"compile", "module"} /\ \A u \in Threads \ {t} : pc'[u] = pc[u] /\ ptx'[u] = ptx[u]
    BY <1>4 DEF Load, Goto
  <2>3. \/ ptx'[t] = ptx[t]
        \/ path[File(t)] # NoFile /\ ptx'[t] = content[path[File(t)]]
    BY <1>4 DEF Load
  <2>4. ptx'[t] = ptx[t] \/ ptx'[t].whole \/ File(t) \in overlap
    BY <2>1, <2>3 DEF Tears, TornOnlyByOverlap
  <2> QED
    BY <2>1, <2>2, <2>4, TearsKept DEF Tears
<1>5. ASSUME NEW t \in Threads, Compile(t)
      PROVE  Tears'
  <2>1. pc[t] = "compile" /\ UNCHANGED <<path, tmp, content, overlap, fd>>
    BY <1>5 DEF Compile, disk
  <2>2. \/ pc'[t] = "store" /\ ptx'[t].whole
        \/ pc'[t] = "idle" /\ ptx'[t] = NoResult
    BY <1>5 DEF Compile, Ends, Goto
  <2>3. \A u \in Threads \ {t} : pc'[u] = pc[u] /\ ptx'[u] = ptx[u]
    BY <1>5 DEF Compile, Ends, Goto
  <2> QED
    BY <2>1, <2>2, <2>3, TearsKept DEF Tears
<1>6. ASSUME NEW t \in Threads,
             \/ \E r \in Requests : Call(t, r)
             \/ Hit(t) \/ Miss(t) \/ StoreFails(t)
             \/ LoadModule(t) \/ LoadModuleFails(t) \/ Insert(t)
      PROVE  Tears'
  <2>1. UNCHANGED <<path, tmp, content, overlap>>
    BY <1>6 DEF Call, Hit, Miss, StoreFails, LoadModule, LoadModuleFails, Insert, disk
  <2>2. pc'[t] \in {"idle", "lookup", "load", "module", "insert"}
        /\ (ptx'[t] = ptx[t] \/ ptx'[t] = NoResult)
    BY <1>6 DEF Call, Hit, Miss, StoreFails, LoadModule, LoadModuleFails, Insert, Resolves, Ends,
                Goto
  <2>3. \A u \in Threads \ {t} : pc'[u] = pc[u] /\ ptx'[u] = ptx[u] /\ fd'[u] = fd[u]
    BY <1>6 DEF Call, Hit, Miss, StoreFails, LoadModule, LoadModuleFails, Insert, Resolves, Ends,
                Goto
  <2> QED
    BY <2>1, <2>2, <2>3, TearsKept DEF Tears
<1>7. ASSUME NEW p \in Processes, Crash(p)
      PROVE  Tears'
  <2>1. UNCHANGED <<path, tmp, content, overlap>>
    BY <1>7 DEF Crash, disk
  <2>2. \A u \in Threads :
          \/ pc'[u] = pc[u] /\ ptx'[u] = ptx[u] /\ fd'[u] = fd[u]
          \/ pc'[u] = "idle" /\ ptx'[u] = NoResult
    BY <1>7 DEF Crash
  <2> QED
    BY <2>1, <2>2, TearsKept DEF Tears
<1>8. CASE UNCHANGED vars
  BY <1>8, TearsKept DEF vars, disk, Tears
<1> QED
  BY <1>1, <1>2, <1>3, <1>4, <1>5, <1>6, <1>7, <1>8 DEF Next

\* Half an image is neither published nor read, wherever processes die, unless
\* two calls have been storing the same file at once.
THEOREM TornCorrect == Spec => []TornOnlyByOverlap
<1>1. Init => Tears
  BY DEF Init, Tears, TornOnlyByOverlap
<1>2. FilesInv /\ Tears /\ [Next]_vars => Tears'
  BY TearsStep
<1>3. Tears => TornOnlyByOverlap
  BY DEF Tears
<1> QED
  BY <1>1, <1>2, <1>3, FilesInvariant, PTL DEF Spec
----------------------------------------------------------------------------
(***************************************************************************)
(* CallSequences: what is left of the caller's values when what nobody     *)
(* keeps is destroyed.                                                     *)
(***************************************************************************)
Values == [type : DOMAIN Types, held : BOOLEAN, alive : BOOLEAN]

LEMMA Greatest ==
  ASSUME NEW n \in Nat, NEW S \in SUBSET (1 .. n), S # {}
  PROVE  Max(S) \in S /\ \A m \in S : m <= Max(S)
<1> DEFINE R == {n - m : m \in S}
<1>1. R \in SUBSET Nat /\ R # {}
  <2>1. \A m \in S : m \in 1 .. n /\ n - m \in Nat
    OBVIOUS
  <2>2. \A r \in R : r \in Nat
    BY <2>1
  <2>3. R # {}
    OBVIOUS
  <2> QED
    BY <2>2, <2>3
<1> HIDE DEF R
<1>2. PICK r \in R : \A m \in R : ~(<<m, r>> \in OpToRel(<, Nat))
  BY <1>1, NatLessThanWellFounded, WFMin, Zenon
<1>3. \A m \in R : ~(m < r)
  BY <1>1, <1>2, Zenon DEF OpToRel
<1>4. PICK k \in S : r = n - k
  BY DEF R
<1>5. \A m \in S : n - m \in R /\ m \in Nat
  BY DEF R
<1>6. \A m \in S : k >= m
  BY <1>3, <1>4, <1>5
<1>7. \E x \in S : \A y \in S : x >= y
  BY <1>6
<1>8. Max(S) \in S /\ \A y \in S : Max(S) >= y
  BY <1>7, Zenon DEF Max
<1> QED
  BY <1>8

LEMMA SettleIs ==
  ASSUME NEW l \in Seq(Values)
  PROVE  /\ Settle(l) \in Seq(Values) /\ Len(Settle(l)) \in 0 .. Len(l)
         /\ \A k \in 1 .. Len(Settle(l)) :
              /\ Settle(l)[k].type = l[k].type /\ Settle(l)[k].held = l[k].held
              /\ Settle(l)[k].alive <=> Lives(l, k)
         /\ \A k \in 1 .. Len(l) : Lives(l, k) => k <= Len(Settle(l))
         /\ Settle(l) # <<>> => /\ Settle(l)[Len(Settle(l))].alive
                                /\ Settle(l)[Len(Settle(l))].held
<1> DEFINE left == {k \in 1 .. Len(l) : Lives(l, k)}
           n == IF left = {} THEN 0 ELSE Max(left)
           r == Settle(l)
<1>1. Len(l) \in Nat /\ \A k \in 1 .. Len(l) : l[k] \in Values
  OBVIOUS
<1>2. n \in 0 .. Len(l) /\ (\A k \in left : k <= n) /\ (n # 0 => n \in left)
  <2>1. left \in SUBSET (1 .. Len(l))
    OBVIOUS
  <2>2. CASE left = {}
    BY <1>1, <2>2
  <2>3. CASE left # {}
    <3> HIDE DEF left
    <3>1. Max(left) \in left /\ \A m \in left : m <= Max(left)
      BY <1>1, <2>1, <2>3, Greatest
    <3>2. n = Max(left)
      BY <2>3
    <3>3. n \in left /\ \A k \in left : k <= n
      BY <3>1, <3>2
    <3> HIDE DEF n
    <3>4. n \in 1 .. Len(l)
      BY <2>1, <3>3
    <3> QED
      BY <1>1, <3>3, <3>4
  <2> QED
    BY <2>2, <2>3
<1>3. r = [k \in 1 .. n |-> [l[k] EXCEPT !.alive = Lives(l, k)]]
  BY DEF Settle
<1> HIDE DEF r, n
<1>4. \A k \in 1 .. n : k \in 1 .. Len(l)
  BY <1>1, <1>2
<1>5. \A k \in 1 .. Len(l) : Lives(l, k) \in BOOLEAN
  BY DEF Lives
<1>6. \A k \in 1 .. n : /\ r[k] = [l[k] EXCEPT !.alive = Lives(l, k)] /\ l[k] \in Values
                        /\ Lives(l, k) \in BOOLEAN
  BY <1>1, <1>3, <1>4, <1>5
<1>7. \A k \in 1 .. n : /\ r[k] \in Values /\ r[k].type = l[k].type /\ r[k].held = l[k].held
                        /\ r[k].alive = Lives(l, k)
  BY <1>6 DEF Values
<1>8. n \in Nat /\ r \in Seq(Values) /\ Len(r) = n
  <2>1. n \in Nat /\ r \in [1 .. n -> Values]
    BY <1>2, <1>3, <1>7
  <2> QED
    BY <2>1, SeqDef
<1>9. ASSUME n # 0
      PROVE  r[n].alive /\ r[n].held
  <2>1. n \in 1 .. n /\ Lives(l, n) /\ n \in 1 .. Len(l)
    BY <1>2, <1>8, <1>9
  <2>2. PICK j \in n .. Len(l) : /\ l[j].held /\ \A i \in n .. j : l[i].alive
    BY <2>1 DEF Lives
  <2>3. j \in 1 .. Len(l) /\ j \in j .. Len(l) /\ j \in n .. j /\ \A i \in j .. j : i = j
    BY <1>1, <2>1, <2>2
  <2>4. \A i \in (j + 1) .. j : FALSE
    BY <2>3
  <2>5. Lives(l, j)
    BY <2>2, <2>3, <2>4 DEF Lives
  <2>6. j <= n
    BY <1>2, <2>3, <2>5
  <2>7. j = n
    BY <1>8, <2>2, <2>6
  <2> QED
    BY <1>7, <2>1, <2>2, <2>7
<1>10. \A k \in 1 .. Len(l) : Lives(l, k) => k <= n
  BY <1>2
<1>11. r # <<>> => n # 0
  BY <1>8
<1> QED
  BY <1>2, <1>7, <1>8, <1>9, <1>10, <1>11 DEF r

\* Where a value keeps the one it was made on, it still does.
LEMMA KeepersKeep ==
  ASSUME NEW l \in Seq(Values), NEW k \in 2 .. Len(l), Types[l[k].type].keeps,
         l[k].alive => l[k - 1].alive,
         k <= Len(Settle(l)), Settle(l)[k].alive
  PROVE  Settle(l)[k - 1].alive
<1>1. /\ Len(l) \in Nat /\ Len(Settle(l)) \in Nat /\ k - 1 \in 1 .. Len(Settle(l))
      /\ k \in 1 .. Len(Settle(l))
  <2>1. Len(l) \in Nat /\ Len(Settle(l)) \in 0 .. Len(l)
    BY SettleIs
  <2> QED
    BY <2>1
<1>2. Lives(l, k)
  BY <1>1, SettleIs
<1>3. PICK j \in k .. Len(l) : /\ l[j].held /\ \A i \in k .. j : l[i].alive
                               /\ \A i \in (k + 1) .. j : Types[l[i].type].keeps
  BY <1>2 DEF Lives
<1>4. /\ j \in (k - 1) .. Len(l) /\ k \in k .. j
      /\ \A i \in (k - 1) .. j : i = k - 1 \/ i \in k .. j
      /\ \A i \in (k - 1 + 1) .. j : i = k \/ i \in (k + 1) .. j
  BY <1>1, <1>3
<1>5. Lives(l, k - 1)
  BY <1>3, <1>4 DEF Lives
<1> QED
  BY <1>1, <1>5, SettleIs

LEMMA LastStays ==
  ASSUME NEW l \in Seq(Values), l # <<>>, l[Len(l)].held, l[Len(l)].alive
  PROVE  /\ Len(Settle(l)) = Len(l) /\ Settle(l) # <<>>
         /\ Settle(l)[Len(l)].alive /\ Settle(l)[Len(l)].held
         /\ Settle(l)[Len(l)].type = l[Len(l)].type
<1>1. Len(l) \in Nat /\ Len(l) # 0
  OBVIOUS
<1>2. /\ Len(l) \in 1 .. Len(l) /\ Len(l) \in Len(l) .. Len(l)
      /\ (\A i \in Len(l) .. Len(l) : i = Len(l))
      /\ \A i \in (Len(l) + 1) .. Len(l) : FALSE
  BY <1>1
<1>3. Lives(l, Len(l))
  BY <1>2 DEF Lives
<1>4. Len(l) <= Len(Settle(l)) /\ Len(Settle(l)) \in 0 .. Len(l)
  BY <1>2, <1>3, SettleIs
<1>5. Len(Settle(l)) = Len(l)
  BY <1>1, <1>4
<1>6. Settle(l) # <<>>
  BY <1>1, <1>5
<1> QED
  BY <1>2, <1>3, <1>5, <1>6, SettleIs

(***************************************************************************)
(* The operation in progress: where it stands, and what it was called on,  *)
(* which lives and which the caller still holds, unless the operation has  *)
(* taken it.                                                               *)
(***************************************************************************)
Runs == [op : DOMAIN Ops \cup {""}, at : Nat,
         live : SUBSET Resources, own : SUBSET Resources, away : BOOLEAN,
         lost : SUBSET Resources, twice : SUBSET Resources]

Underway(l, o, i) ==
    /\ i \in 1 .. (Len(o.steps) + 1)
    /\ o.takes = {} /\ o.on = "none" => l = <<>>
    /\ o.takes = {} /\ o.on # "none" =>
         l # <<>> /\ l[Len(l)].type = o.on /\ l[Len(l)].alive /\ l[Len(l)].held
    /\ o.takes # {} => l # <<>> /\ l[Len(l)].alive

CallInv ==
    /\ line \in Seq(Values)
    /\ current \in Contexts
    /\ run \in Runs
    /\ run.at = 0 => run.live = {} /\ run.own = {}
    /\ run.at = 0 /\ line # <<>> => line[Len(line)].alive /\ line[Len(line)].held
    /\ run.at # 0 => run.op \in DOMAIN Ops /\ Underway(line, Ops[run.op], run.at)

LEMMA OpsFacts ==
  ASSUME NEW n \in DOMAIN Ops
  PROVE  /\ Ops[n].gives \in DOMAIN Types \cup {"nothing"}
         /\ Ops[n].takes \in SUBSET Resources
         /\ Ops[n].takes # {} => Ops[n].on # "none" /\ Ops[n].gives # "nothing"
         /\ DOMAIN Ops[n].steps = 1 .. Len(Ops[n].steps) /\ Len(Ops[n].steps) \in Nat
         /\ \A k \in 1 .. Len(Ops[n].steps) :
              Ops[n].steps[k].undo \in SUBSET Resources /\ Ops[n].steps[k].what \in Resources
<1>1. /\ Ops[n].gives \in DOMAIN Types \cup {"nothing"}
      /\ Ops[n].takes \in SUBSET Resources
      /\ Ops[n].takes # {} => Ops[n].on # "none" /\ Ops[n].gives # "nothing"
      /\ DOMAIN Ops[n].steps = 1 .. Len(Ops[n].steps) /\ Len(Ops[n].steps) \in Nat
      /\ \A k \in 1 .. Len(Ops[n].steps) : Ops[n].steps[k].undo \in SUBSET Resources
  BY CallSequencesAssumption
<1>2. ASSUME NEW k \in 1 .. Len(Ops[n].steps)
      PROVE  Ops[n].steps[k].what \in Resources
  <2>1. k \in DOMAIN Ops[n].steps
    BY <1>1
  <2>2. Ops[n].steps[k].what \in {Ops[n].steps[j].what : j \in DOMAIN Ops[n].steps}
    BY <2>1
  <2> QED
    BY <2>2, Zenon DEF Resources
<1> QED
  BY <1>1, <1>2

LEMMA DropsFacts ==
  ASSUME NEW t \in DOMAIN Types \cup {"nothing"}
  PROVE  Drops(t) \in SUBSET Resources
BY CallSequencesAssumption DEF Drops

LEMMA FreshRuns ==
  ASSUME NEW o \in DOMAIN Ops \cup {""}, NEW away \in BOOLEAN,
         NEW lost \in SUBSET Resources, NEW twice \in SUBSET Resources
  PROVE  [op |-> o, at |-> 0, live |-> {}, own |-> {}, away |-> away,
          lost |-> lost, twice |-> twice] \in Runs
BY DEF Runs

LEMMA CallsStart ==
  ASSUME CallsInit
  PROVE  CallInv
<1>1. run \in Runs
  BY FreshRuns DEF CallsInit, Fresh
<1>2. line \in Seq(Values) /\ current \in Contexts
  BY DEF CallsInit, Contexts
<1> QED
  BY <1>1, <1>2 DEF CallsInit, Fresh, CallInv

\* The caller's values after a handle is dropped.
LEMMA Unheld ==
  ASSUME NEW l \in Seq(Values), NEW k \in 1 .. Len(l)
  PROVE  LET u == [l EXCEPT ![k].held = FALSE]
         IN  /\ u \in Seq(Values) /\ Len(u) = Len(l)
             /\ \A i \in 1 .. Len(l) : /\ u[i].type = l[i].type /\ u[i].alive = l[i].alive
                                       /\ i # k => u[i].held = l[i].held
<1> DEFINE u == [l EXCEPT ![k].held = FALSE]
<1>1. l \in [1 .. Len(l) -> Values] /\ Len(l) \in Nat
  OBVIOUS
<1>2. l[k] \in Values /\ [l[k] EXCEPT !.held = FALSE] \in Values
  BY <1>1 DEF Values
<1>3. u = [l EXCEPT ![k] = [l[k] EXCEPT !.held = FALSE]]
  OBVIOUS
<1> HIDE DEF u
<1>4. u \in [1 .. Len(l) -> Values]
  BY <1>1, <1>2, <1>3
<1>5. u \in Seq(Values) /\ Len(u) = Len(l)
  BY <1>1, <1>4, SeqDef
<1>6. \A i \in 1 .. Len(l) : i # k => u[i] = l[i]
  BY <1>1, <1>3
<1>7. u[k].type = l[k].type /\ u[k].alive = l[k].alive
  BY <1>1, <1>2, <1>3 DEF Values
<1>8. \A i \in 1 .. Len(l) : /\ u[i].type = l[i].type /\ u[i].alive = l[i].alive
                             /\ i # k => u[i].held = l[i].held
  BY <1>6, <1>7
<1> QED
  BY <1>5, <1>8 DEF u

LEMMA FrontIs ==
  ASSUME NEW l \in Seq(Values), Len(l) > 1
  PROVE  /\ Front(l) \in Seq(Values) /\ Len(Front(l)) = Len(l) - 1 /\ Front(l) # <<>>
         /\ \A i \in 1 .. (Len(l) - 1) : Front(l)[i] = l[i]
<1>1. Len(l) \in Nat /\ l # <<>>
  OBVIOUS
<1>2. Front(l) = SubSeq(l, 1, Len(l) - 1)
  BY DEF Front
<1>3. Front(l) \in Seq(Values) /\ Len(Front(l)) = Len(l) - 1
  BY <1>1, <1>2
<1>4. \A i \in 1 .. (Len(l) - 1) : Front(l)[i] = l[i]
  BY <1>1, <1>2
<1> QED
  BY <1>3, <1>4

\* What a value made at the end of the line does to the line.
LEMMA AppendIs ==
  ASSUME NEW l \in Seq(Values), NEW t \in DOMAIN Types
  PROVE  LET v == [type |-> t, held |-> TRUE, alive |-> TRUE]
         IN  /\ Append(l, v) \in Seq(Values) /\ Len(Append(l, v)) = Len(l) + 1
             /\ Append(l, v)[Len(l) + 1] = v /\ Len(l) \in Nat
             /\ \A i \in 1 .. Len(l) : Append(l, v)[i] = l[i]
BY DEF Values

LEMMA ReturnIs ==
  ASSUME NEW released \in SUBSET Resources, run \in Runs
  PROVE  /\ Return(released) \in Runs
         /\ Return(released).at = 0 /\ Return(released).live = {} /\ Return(released).own = {}
         /\ Return(released).op = run.op /\ Return(released).away = run.away
         /\ Return(released).lost = run.live \ released
         /\ Return(released).twice = released \ run.live
BY DEF Return, Fresh, Runs

LEMMA CallsThread ==
  ASSUME CallInv, OtherThread
  PROVE  CallInv'
BY DEF CallInv, OtherThread

LEMMA CallsDrop ==
  ASSUME CallInv, NEW k \in 1 .. Len(line), DropValue(k)
  PROVE  CallInv'
<1> DEFINE u == [line EXCEPT ![k].held = FALSE]
<1>1. line \in Seq(Values) /\ Len(line) \in Nat /\ line # <<>>
  BY DEF CallInv
<1>2. /\ u \in Seq(Values) /\ Len(u) = Len(line)
      /\ \A i \in 1 .. Len(line) : /\ u[i].type = line[i].type /\ u[i].alive = line[i].alive
                                   /\ i # k => u[i].held = line[i].held
  BY <1>1, Unheld
<1>3. line' = Settle(u) /\ run' = run
  BY DEF DropValue
<1> HIDE DEF u
<1>4. PICK l \in Seq(Values) : l = line' /\ l = Settle(u)
  BY <1>2, <1>3, SettleIs
<1>5. current' \in Contexts
  BY DEF DropValue, Left, CallInv, Contexts
<1>6. l # <<>> /\ run.at = 0 => l[Len(l)].alive /\ l[Len(l)].held
  BY <1>2, <1>4, SettleIs
<1>7. ASSUME run.at # 0
      PROVE  run.op \in DOMAIN Ops /\ Underway(l, Ops[run.op], run.at)
  <2>1. run.op \in DOMAIN Ops /\ Underway(line, Ops[run.op], run.at)
    BY <1>7 DEF CallInv
  <2>2. Ops[run.op].takes = {} /\ k < Len(line)
    BY <1>7 DEF DropValue, Idle
  <2>3. /\ Ops[run.op].on # "none" /\ line[Len(line)].type = Ops[run.op].on
        /\ line[Len(line)].alive /\ line[Len(line)].held
    BY <1>1, <2>1, <2>2 DEF Underway
  <2>4. Len(line) \in 1 .. Len(line) /\ Len(line) # k /\ u # <<>>
    BY <1>1, <1>2, <2>2
  <2>5. u[Len(u)].held /\ u[Len(u)].alive /\ u[Len(u)].type = Ops[run.op].on
    BY <1>2, <2>3, <2>4
  <2>6. /\ Len(l) = Len(u) /\ l # <<>> /\ l[Len(l)].type = Ops[run.op].on
        /\ l[Len(l)].alive /\ l[Len(l)].held
    BY <1>2, <1>4, <2>4, <2>5, LastStays
  <2> QED
    BY <2>1, <2>2, <2>3, <2>6 DEF Underway
<1>8. /\ line' \in Seq(Values) /\ run' \in Runs
      /\ (run.at = 0 => run.live = {} /\ run.own = {})
  BY <1>3, <1>4 DEF CallInv
<1> QED
  BY <1>3, <1>4, <1>5, <1>6, <1>7, <1>8 DEF CallInv

LEMMA CallsBegin ==
  ASSUME CallInv, NEW op \in DOMAIN Ops, Begin(op)
  PROVE  CallInv'
<1>1. line \in Seq(Values) /\ Len(line) \in Nat
  BY DEF CallInv
<1>2. PICK o : o = Ops[op]
  OBVIOUS
<1>3. /\ o.takes \in SUBSET Resources /\ (o.takes # {} => o.on # "none")
      /\ Len(o.steps) \in Nat
  BY <1>2, OpsFacts
<1>4. PICK r : r = run' /\ r = [Fresh EXCEPT !.op = op, !.at = 1, !.live = o.takes, !.own = o.takes]
  BY <1>2 DEF Begin
<1>5. r \in Runs /\ r.at = 1 /\ r.op = op
  <2>1. r = [op |-> op, at |-> 1, live |-> o.takes, own |-> o.takes, away |-> FALSE,
             lost |-> {}, twice |-> {}]
    BY <1>4 DEF Fresh
  <2> QED
    BY <1>3, <2>1 DEF Runs
<1>6. ASSUME o.takes = {}
      PROVE  line' \in Seq(Values) /\ Underway(line, o, 1) /\ line' = line
  <2>1. line' = line
    BY <1>2, <1>6 DEF Begin
  <2>2. o.on = "none" => line = <<>>
    BY <1>2 DEF Begin
  <2>3. o.on # "none" => line # <<>> /\ line[Len(line)].type = o.on
    BY <1>2 DEF Begin, Last
  <2>4. line # <<>> => line[Len(line)].alive /\ line[Len(line)].held
    BY DEF CallInv, Begin, Idle
  <2> QED
    BY <1>1, <1>3, <1>6, <2>1, <2>2, <2>3, <2>4 DEF Underway
<1>7. ASSUME o.takes # {}
      PROVE  line' \in Seq(Values) /\ \E l \in Seq(Values) : l = line' /\ Underway(l, o, 1)
  <2>1. Len(line) > 1 /\ line[Len(line) - 1].alive /\ line' = Front(line)
    BY <1>2, <1>7 DEF Begin
  <2>2. PICK l \in Seq(Values) : l = line' /\ l = Front(line)
    BY <1>1, <2>1, FrontIs
  <2>3. l # <<>> /\ Len(l) = Len(line) - 1 /\ l[Len(l)] = line[Len(line) - 1]
    BY <1>1, <2>1, <2>2, FrontIs
  <2>4. Underway(l, o, 1)
    BY <1>3, <1>7, <2>1, <2>3 DEF Underway
  <2> QED
    BY <2>2, <2>4
<1>8. PICK l \in Seq(Values) : l = line' /\ Underway(l, o, 1)
  BY <1>1, <1>6, <1>7
<1>9. current' \in Contexts
  BY DEF Begin, CallInv
<1> QED
  BY <1>2, <1>4, <1>5, <1>8, <1>9 DEF CallInv

LEMMA CallsProceed ==
  ASSUME CallInv, Proceed
  PROVE  CallInv'
<1>1. run.at # 0 /\ run \in Runs /\ run.op \in DOMAIN Ops
  BY DEF CallInv, Proceed, Idle
<1>2. PICK o : o = Ops[run.op]
  OBVIOUS
<1>3. /\ DOMAIN o.steps = 1 .. Len(o.steps) /\ Len(o.steps) \in Nat
      /\ \A i \in 1 .. Len(o.steps) : o.steps[i].what \in Resources
  BY <1>1, <1>2, OpsFacts
<1>4. run.at \in 1 .. Len(o.steps)
  BY <1>2, <1>3 DEF Proceed
<1>5. Here.what \in Resources
  BY <1>2, <1>3, <1>4 DEF Here
<1>6. run' \in Runs /\ run'.op = run.op /\ run'.at = run.at + 1
  <2>1. run'.live \in SUBSET Resources
    BY <1>1, <1>5 DEF Proceed, Runs
  <2>2. run'.own \in SUBSET Resources
    BY <1>1, <1>5 DEF Proceed, Runs
  <2>3. run'.away \in BOOLEAN
    BY <1>1 DEF Proceed, Runs, Reads
  <2>4. PICK live, own, away : /\ live \in SUBSET Resources /\ own \in SUBSET Resources
                               /\ away \in BOOLEAN
                               /\ run' = [run EXCEPT !.at = @ + 1, !.live = live, !.own = own,
                                                     !.away = away]
    <3>1. run' = [run EXCEPT !.at = @ + 1, !.live = run'.live, !.own = run'.own, !.away = run'.away]
      BY <1>1 DEF Proceed, Runs
    <3> QED
      BY <2>1, <2>2, <2>3, <3>1
  <2>5. run.at + 1 \in Nat
    BY <1>3, <1>4
  <2> QED
    BY <1>1, <2>4, <2>5 DEF Runs
<1>8. current' \in Contexts
  BY DEF Proceed, CallInv, Contexts
<1>9. Underway(line, o, run.at + 1)
  <2>1. Underway(line, o, run.at)
    BY <1>1, <1>2 DEF CallInv
  <2>2. run.at + 1 \in 1 .. (Len(o.steps) + 1)
    BY <1>3, <1>4
  <2> QED
    BY <2>1, <2>2 DEF Underway
<1>10. run.at + 1 # 0 /\ line' = line
  <2>1. line' = line
    BY DEF Proceed
  <2> QED
    BY <1>3, <1>4, <2>1
<1>11. PICK r : r = run' /\ r \in Runs /\ r.op = run.op /\ r.at = run.at + 1
  BY <1>6
<1>12. /\ line' \in Seq(Values) /\ run' = r
  BY <1>10, <1>11 DEF CallInv
<1>13. Underway(line, o, r.at) /\ r.op \in DOMAIN Ops /\ o = Ops[r.op] /\ r.at # 0
  BY <1>1, <1>2, <1>9, <1>10, <1>11
<1> QED
  BY <1>6, <1>8, <1>10, <1>12, <1>13 DEF CallInv

LEMMA CallsFail ==
  ASSUME CallInv, Fail
  PROVE  CallInv'
<1>1. run.at # 0 /\ run \in Runs /\ run.op \in DOMAIN Ops /\ line \in Seq(Values)
  BY DEF CallInv, Fail, Idle
<1>2. PICK released : released = run.own \cup Here.undo
  OBVIOUS
<1>3. released \in SUBSET Resources
  <2>1. run.at \in 1 .. Len(Ops[run.op].steps)
    BY <1>1, OpsFacts DEF Fail
  <2>2. Here.undo \in SUBSET Resources
    BY <1>1, <2>1, OpsFacts DEF Here
  <2> QED
    BY <1>1, <1>2, <2>2 DEF Runs
<1>4. PICK q \in Runs : q = Return(released) /\ q.at = 0 /\ q.live = {} /\ q.own = {}
  BY <1>1, <1>3, ReturnIs
<1>5. PICK away \in BOOLEAN : run' = [q EXCEPT !.away = away]
  <2>1. run' = [q EXCEPT !.away = @ \/ (Reads(Here) /\ current # "own")]
    BY <1>2, <1>4 DEF Fail
  <2>2. (q.away \/ (Reads(Here) /\ current # "own")) \in BOOLEAN
    BY DEF Reads
  <2> QED
    BY <2>1, <2>2
<1>6. run' \in Runs /\ run'.at = 0 /\ run'.live = {} /\ run'.own = {}
  BY <1>4, <1>5 DEF Runs
<1>7. PICK l \in Seq(Values) : l = line' /\ l = Settle(line)
  BY <1>1, SettleIs DEF Fail
<1>8. l # <<>> => l[Len(l)].alive /\ l[Len(l)].held
  BY <1>1, <1>7, SettleIs
<1>9. current' \in Contexts
  BY DEF Fail, Left, CallInv, Contexts
<1>10. PICK r \in Runs : r = run' /\ r.at = 0 /\ r.live = {} /\ r.own = {}
  BY <1>6
<1> QED
  BY <1>7, <1>8, <1>9, <1>10 DEF CallInv

\* The line and the outcome when an operation returns its value.
LEMMA Finished ==
  ASSUME CallInv, Finish
  PROVE  /\ run.op \in DOMAIN Ops
         /\ Ops[run.op].gives = "nothing" =>
              /\ line' = line
              /\ line # <<>> => line[Len(line)].alive /\ line[Len(line)].held
         /\ Ops[run.op].gives # "nothing" =>
              LET u == Append(line, [type |-> Ops[run.op].gives, held |-> TRUE, alive |-> TRUE])
              IN  /\ Ops[run.op].gives \in DOMAIN Types
                  /\ line' = Settle(u) /\ Len(Settle(u)) = Len(u)
                  /\ Settle(u) # <<>> /\ Settle(u) \in Seq(Values)
         /\ run' = Return(run.own \cup Drops(Ops[run.op].gives))
         /\ run.own \cup Drops(Ops[run.op].gives) \in SUBSET Resources
<1>1. run.at # 0 /\ run \in Runs /\ run.op \in DOMAIN Ops /\ line \in Seq(Values)
  BY DEF CallInv, Finish, Idle
<1>2. PICK o : o = Ops[run.op]
  OBVIOUS
<1>3. /\ o.gives \in DOMAIN Types \cup {"nothing"}
      /\ o.takes # {} => o.gives # "nothing"
  BY <1>1, <1>2, OpsFacts
<1>4. ASSUME o.gives = "nothing"
      PROVE  line' = line /\ (line # <<>> => line[Len(line)].alive /\ line[Len(line)].held)
  <2>1. line' = line
    BY <1>2, <1>4 DEF Finish
  <2>2. Underway(line, o, run.at)
    BY <1>1, <1>2 DEF CallInv
  <2>3. o.takes = {}
    BY <1>3, <1>4
  <2> QED
    BY <2>1, <2>2, <2>3 DEF Underway
<1>5. ASSUME o.gives # "nothing"
      PROVE  LET u == Append(line, [type |-> o.gives, held |-> TRUE, alive |-> TRUE])
             IN  /\ o.gives \in DOMAIN Types
                 /\ line' = Settle(u) /\ Len(Settle(u)) = Len(u)
                 /\ Settle(u) # <<>> /\ Settle(u) \in Seq(Values)
  <2> DEFINE u == Append(line, [type |-> o.gives, held |-> TRUE, alive |-> TRUE])
  <2>1. o.gives \in DOMAIN Types /\ line' = Settle(u)
    BY <1>2, <1>3, <1>5 DEF Finish
  <2>2. /\ u \in Seq(Values) /\ Len(u) = Len(line) + 1 /\ Len(line) \in Nat
        /\ u[Len(line) + 1].held = TRUE /\ u[Len(line) + 1].alive = TRUE
    BY <1>1, <2>1, AppendIs
  <2> HIDE DEF u
  <2>3. u # <<>>
    BY <2>2
  <2>4. Len(Settle(u)) = Len(u) /\ Settle(u) # <<>> /\ Settle(u) \in Seq(Values)
    BY <2>2, <2>3, LastStays, SettleIs
  <2> QED
    BY <2>1, <2>4 DEF u
<1>6. run' = Return(run.own \cup Drops(o.gives))
  BY <1>2 DEF Finish
<1>7. run.own \cup Drops(o.gives) \in SUBSET Resources
  <2>1. run.own \in SUBSET Resources
    BY <1>1 DEF Runs
  <2>2. Drops(o.gives) \in SUBSET Resources
    BY <1>3, DropsFacts
  <2> QED
    BY <2>1, <2>2
<1> QED
  BY <1>1, <1>2, <1>4, <1>5, <1>6, <1>7

LEMMA CallsFinish ==
  ASSUME CallInv, Finish
  PROVE  CallInv'
<1>1. run \in Runs /\ line \in Seq(Values)
  BY DEF CallInv
<1>2. PICK released \in SUBSET Resources : run' = Return(released)
  BY Finished
<1>3. PICK r \in Runs : r = run' /\ r.at = 0 /\ r.live = {} /\ r.own = {}
  BY <1>1, <1>2, ReturnIs
<1>4. PICK l \in Seq(Values) : l = line' /\ (l # <<>> => l[Len(l)].alive /\ l[Len(l)].held)
  <2>1. CASE Ops[run.op].gives = "nothing"
    BY <1>1, <2>1, Finished
  <2>2. CASE Ops[run.op].gives # "nothing"
    <3>1. PICK u \in Seq(Values) : line' = Settle(u)
      BY <1>1, <2>2, Finished, AppendIs
    <3> QED
      BY <3>1, SettleIs
  <2> QED
    BY <2>1, <2>2
<1>5. current' \in Contexts
  BY DEF Finish, Left, CallInv, Contexts
<1> QED
  BY <1>3, <1>4, <1>5 DEF CallInv

LEMMA CallsStep ==
  ASSUME CallInv, [CallsNext]_callVars
  PROVE  CallInv'
<1>1. CASE OtherThread
  BY <1>1, CallsThread
<1>2. CASE \E k \in 1 .. Len(line) : DropValue(k)
  BY <1>2, CallsDrop
<1>3. CASE \E op \in DOMAIN Ops : Begin(op)
  BY <1>3, CallsBegin
<1>4. CASE Proceed
  BY <1>4, CallsProceed
<1>5. CASE Fail
  BY <1>5, CallsFail
<1>6. CASE Finish
  BY <1>6, CallsFinish
<1>7. CASE UNCHANGED callVars
  BY <1>7 DEF callVars, CallInv
<1> QED
  BY <1>1, <1>2, <1>3, <1>4, <1>5, <1>6, <1>7, Zenon DEF CallsNext

LEMMA CallsGive ==
  ASSUME CallInv
  PROVE  CallsTypeOK
<1>1. line \in Seq([type : DOMAIN Types, held : BOOLEAN, alive : BOOLEAN])
  BY DEF CallInv, Values
<1>2. run \in [op : DOMAIN Ops \cup {""}, at : Nat,
               live : SUBSET Resources, own : SUBSET Resources, away : BOOLEAN,
               lost : SUBSET Resources, twice : SUBSET Resources]
  BY DEF CallInv, Runs
<1>3. run.live \cup run.own # {} => run.at > 0
  <2>1. run.at \in Nat
    BY <1>2
  <2>2. run.at = 0 => run.live = {} /\ run.own = {}
    BY DEF CallInv
  <2> QED
    BY <2>1, <2>2
<1>4. Idle /\ line # <<>> => Last(line).alive /\ Last(line).held
  BY DEF CallInv, Idle, Last
<1>5. current \in Contexts
  BY DEF CallInv
<1> QED
  BY <1>1, <1>2, <1>3, <1>4, <1>5, Zenon DEF CallsTypeOK

LEMMA CallsAlways ==
  CallsSpec => []CallInv
<1>1. CallsInit => CallInv
  BY CallsStart
<1>2. CallInv /\ [CallsNext]_callVars => CallInv'
  BY CallsStep
<1> QED
  BY <1>1, <1>2, PTL DEF CallsSpec

(***************************************************************************)
(* Whichever operations run, whichever steps fail and whatever is dropped  *)
(* meanwhile: between two operations the newest value of the line lives    *)
(* and the caller holds it, and no operation's objects are pending.        *)
(***************************************************************************)
THEOREM CallsTypes ==
  CallsSpec => []CallsTypeOK
<1>1. CallInv => CallsTypeOK
  BY CallsGive
<1> QED
  BY <1>1, CallsAlways, PTL

(***************************************************************************)
(* A value made on another keeps that one, unless its type is in Orphans:  *)
(* what NoOrphan says of the lives of two neighbours follows their types.  *)
(***************************************************************************)
Chained(l) ==
    \A k \in 2 .. Len(l) :
        l[k].type \in Orphans \/ (Types[l[k].type].keeps /\ (l[k].alive => l[k - 1].alive))

LEMMA SettleChained ==
  ASSUME NEW l \in Seq(Values), Chained(l)
  PROVE  Chained(Settle(l))
<1> SUFFICES ASSUME NEW k \in 2 .. Len(Settle(l)), Settle(l)[k].type \notin Orphans
             PROVE  /\ Types[Settle(l)[k].type].keeps
                    /\ Settle(l)[k].alive => Settle(l)[k - 1].alive
  BY DEF Chained
<1>1. Len(l) \in Nat /\ Len(Settle(l)) \in 0 .. Len(l)
  BY SettleIs
<1>2. k \in 2 .. Len(l) /\ k \in 1 .. Len(Settle(l)) /\ k <= Len(Settle(l))
  BY <1>1
<1>3. Settle(l)[k].type = l[k].type
  BY <1>2, SettleIs
<1>4. Types[l[k].type].keeps /\ (l[k].alive => l[k - 1].alive)
  BY <1>2, <1>3 DEF Chained
<1> QED
  BY <1>2, <1>3, <1>4, KeepersKeep

LEMMA ChainedStep ==
  ASSUME KeptOrOrphan, CallInv, Chained(line), [CallsNext]_callVars
  PROVE  Chained(line)'
<1>1. line \in Seq(Values) /\ Len(line) \in Nat
  BY DEF CallInv
<1>2. CASE line' = line
  BY <1>2 DEF Chained
<1>3. ASSUME NEW k \in 1 .. Len(line), DropValue(k)
      PROVE  Chained(line)'
  <2> DEFINE u == [line EXCEPT ![k].held = FALSE]
  <2>1. /\ u \in Seq(Values) /\ Len(u) = Len(line)
        /\ \A i \in 1 .. Len(line) : /\ u[i].type = line[i].type /\ u[i].alive = line[i].alive
                                     /\ i # k => u[i].held = line[i].held
    BY <1>1, Unheld
  <2>2. line' = Settle(u)
    BY <1>3 DEF DropValue
  <2> HIDE DEF u
  <2>3. \A i \in 2 .. Len(line) : i \in 1 .. Len(line) /\ i - 1 \in 1 .. Len(line)
    BY <1>1
  <2>4. Chained(u)
    BY <2>1, <2>3 DEF Chained
  <2>5. Chained(Settle(u))
    BY <2>1, <2>4, SettleChained
  <2> QED
    BY <2>2, <2>5 DEF Chained
<1>4. ASSUME NEW op \in DOMAIN Ops, Begin(op), Ops[op].takes # {}
      PROVE  Chained(line)'
  <2>1. line' = Front(line) /\ Len(line) > 1
    BY <1>4 DEF Begin
  <2>2. /\ Front(line) \in Seq(Values) /\ Len(Front(line)) = Len(line) - 1
        /\ \A i \in 1 .. (Len(line) - 1) : Front(line)[i] = line[i]
    BY <1>1, <2>1, FrontIs
  <2>3. \A i \in 2 .. (Len(line) - 1) : i \in 2 .. Len(line) /\ i \in 1 .. (Len(line) - 1)
                                        /\ i - 1 \in 1 .. (Len(line) - 1)
    BY <1>1
  <2>4. Chained(Front(line))
    BY <2>2, <2>3 DEF Chained
  <2> QED
    BY <2>1, <2>4 DEF Chained
<1>5. CASE Fail
  <2>1. line' = Settle(line) /\ Chained(Settle(line))
    BY <1>1, <1>5, SettleChained DEF Fail
  <2> QED
    BY <2>1 DEF Chained
<1>6. CASE Finish /\ Ops[run.op].gives # "nothing"
  <2>1. PICK o : o = Ops[run.op]
    OBVIOUS
  <2> DEFINE v == [type |-> o.gives, held |-> TRUE, alive |-> TRUE]
             u == Append(line, v)
  <2>2. run.op \in DOMAIN Ops /\ o.gives \in DOMAIN Types /\ line' = Settle(u)
    BY <1>6, <2>1, Finished
  <2>3. /\ u \in Seq(Values) /\ Len(u) = Len(line) + 1 /\ u[Len(line) + 1] = v
        /\ \A i \in 1 .. Len(line) : u[i] = line[i]
    BY <1>1, <2>2, AppendIs
  <2> HIDE DEF u
  <2>4. ASSUME NEW k \in 2 .. Len(u), u[k].type \notin Orphans
        PROVE  Types[u[k].type].keeps /\ (u[k].alive => u[k - 1].alive)
    <3>1. CASE k = Len(line) + 1
      <4>1. k - 1 = Len(line) /\ Len(line) \in 1 .. Len(line) /\ line # <<>>
        BY <1>1, <3>1
      <4>2. Underway(line, o, run.at)
        BY <1>6, <2>1 DEF Finish, Idle, CallInv
      <4>3. line[Len(line)].alive
        BY <4>1, <4>2 DEF Underway
      <4>4. o.on # "none"
        <5>1. o.takes # {} => o.on # "none"
          BY <2>1, <2>2, OpsFacts
        <5> QED
          BY <4>1, <4>2, <5>1 DEF Underway
      <4>5. u[k].type = o.gives /\ u[k - 1] = line[Len(line)]
        BY <2>3, <3>1, <4>1
      <4> QED
        BY <2>1, <2>2, <2>4, <4>3, <4>4, <4>5 DEF KeptOrOrphan
    <3>2. CASE k # Len(line) + 1
      <4>1. k \in 2 .. Len(line) /\ k \in 1 .. Len(line) /\ k - 1 \in 1 .. Len(line)
        BY <1>1, <2>3, <3>2
      <4> QED
        BY <2>3, <2>4, <4>1 DEF Chained
    <3> QED
      BY <3>1, <3>2
  <2>5. Chained(Settle(u))
    BY <2>3, <2>4, SettleChained DEF Chained
  <2> QED
    BY <2>2, <2>5 DEF Chained
<1>7. CASE Finish /\ Ops[run.op].gives = "nothing"
  BY <1>2, <1>7, Finished
<1>8. ASSUME NEW op \in DOMAIN Ops, Begin(op), Ops[op].takes = {}
      PROVE  line' = line
  BY <1>8 DEF Begin
<1>9. OtherThread \/ Proceed \/ UNCHANGED callVars => line' = line
  BY DEF OtherThread, Proceed, callVars
<1> QED
  BY <1>2, <1>3, <1>4, <1>5, <1>6, <1>7, <1>8, <1>9, Zenon DEF CallsNext

(***************************************************************************)
(* Whatever the order in which the caller drops its handles, a value does  *)
(* not outlive the one it was made on, if every type outside Orphans whose *)
(* values are made on another value has a field that keeps that value: the *)
(* property of a line of any length follows from the structs alone.        *)
(***************************************************************************)
THEOREM KeptAlive ==
  ASSUME KeptOrOrphan
  PROVE  CallsSpec => []NoOrphan
<1>1. CallsInit => Chained(line)
  BY DEF CallsInit, Chained
<1>2. CallInv /\ Chained(line) /\ [CallsNext]_callVars => Chained(line)'
  BY ChainedStep
<1>3. Chained(line) => NoOrphan
  BY DEF Chained, NoOrphan
<1> QED
  BY <1>1, <1>2, <1>3, CallsAlways, PTL DEF CallsSpec

LEMMA NoStepYet ==
  ASSUME NEW n \in DOMAIN Ops
  PROVE  LiveAfter(Ops[n], 0) = Ops[n].takes /\ OwnedAfter(Ops[n], 0) = Ops[n].takes
<1>1. Ops[n].takes \in SUBSET Resources
  BY OpsFacts
<1>2. ASSUME NEW r
      PROVE  (IsLive(Ops[n], 0, r) <=> r \in Ops[n].takes) /\ (IsOwned(Ops[n], 0, r) <=> r \in Ops[n].takes)
  BY DEF IsLive, IsOwned
<1> QED
  BY <1>1, <1>2 DEF LiveAfter, OwnedAfter

LEMMA StepByStep ==
  ASSUME NEW o, NEW i \in Nat, NEW r
  PROVE  /\ IsLive(o, i + 1, r) <=> (Makes(o.steps[i + 1], r)
                                      \/ (IsLive(o, i, r) /\ ~Frees(o.steps[i + 1], r)))
         /\ IsOwned(o, i + 1, r) <=> (Owns(o.steps[i + 1], r)
                                       \/ (IsOwned(o, i, r) /\ ~Forgets(o.steps[i + 1], r)))
<1>1. /\ \A m \in 1 .. i : m \in 1 .. (i + 1)
      /\ \A m \in 1 .. (i + 1) : m \in 1 .. i \/ m = i + 1
      /\ i + 1 \in 1 .. (i + 1)
      /\ \A m \in (i + 1 + 1) .. (i + 1) : FALSE
  OBVIOUS
<1>2. ASSUME NEW k \in 1 .. i
      PROVE  /\ i + 1 \in (k + 1) .. (i + 1)
             /\ \A m \in (k + 1) .. i : m \in (k + 1) .. (i + 1)
             /\ \A m \in (k + 1) .. (i + 1) : m \in (k + 1) .. i \/ m = i + 1
  OBVIOUS
<1>3. ~(Makes(o.steps[i + 1], r) /\ Frees(o.steps[i + 1], r))
  BY DEF Makes, Frees
<1>4. ~(Owns(o.steps[i + 1], r) /\ Forgets(o.steps[i + 1], r))
  BY DEF Owns, Forgets
<1>5. IsLive(o, i + 1, r) <=> (Makes(o.steps[i + 1], r)
                                \/ (IsLive(o, i, r) /\ ~Frees(o.steps[i + 1], r)))
  <2>1. ASSUME IsLive(o, i + 1, r), ~Makes(o.steps[i + 1], r)
        PROVE  IsLive(o, i, r) /\ ~Frees(o.steps[i + 1], r)
    BY <1>1, <1>2, <2>1, Zenon DEF IsLive
  <2>2. ASSUME Makes(o.steps[i + 1], r)
        PROVE  IsLive(o, i + 1, r)
    BY <1>1, <2>2, Zenon DEF IsLive
  <2>3. ASSUME IsLive(o, i, r), ~Frees(o.steps[i + 1], r)
        PROVE  IsLive(o, i + 1, r)
    BY <1>1, <1>2, <2>3, Zenon DEF IsLive
  <2> QED
    BY <2>1, <2>2, <2>3
<1>6. IsOwned(o, i + 1, r) <=> (Owns(o.steps[i + 1], r)
                                 \/ (IsOwned(o, i, r) /\ ~Forgets(o.steps[i + 1], r)))
  <2>1. ASSUME IsOwned(o, i + 1, r), ~Owns(o.steps[i + 1], r)
        PROVE  IsOwned(o, i, r) /\ ~Forgets(o.steps[i + 1], r)
    BY <1>1, <1>2, <2>1, Zenon DEF IsOwned
  <2>2. ASSUME Owns(o.steps[i + 1], r)
        PROVE  IsOwned(o, i + 1, r)
    BY <1>1, <2>2, Zenon DEF IsOwned
  <2>3. ASSUME IsOwned(o, i, r), ~Forgets(o.steps[i + 1], r)
        PROVE  IsOwned(o, i + 1, r)
    BY <1>1, <1>2, <2>3, Zenon DEF IsOwned
  <2> QED
    BY <2>1, <2>2, <2>3
<1> QED
  BY <1>5, <1>6

LEMMA SetsStepByStep ==
  ASSUME NEW n \in DOMAIN Ops, NEW i \in Nat, i + 1 \in 1 .. Len(Ops[n].steps),
         NEW s, s = Ops[n].steps[i + 1]
  PROVE  /\ LiveAfter(Ops[n], i + 1) =
              CASE s.do \in {"make", "make here"} -> LiveAfter(Ops[n], i) \cup {s.what}
                [] s.do = "free" -> LiveAfter(Ops[n], i) \ {s.what}
                [] OTHER -> LiveAfter(Ops[n], i)
         /\ OwnedAfter(Ops[n], i + 1) =
              CASE s.do = "own" -> OwnedAfter(Ops[n], i) \cup {s.what}
                [] s.do = "forget" -> OwnedAfter(Ops[n], i) \ {s.what}
                [] OTHER -> OwnedAfter(Ops[n], i)
<1>1. s.what \in Resources
  BY OpsFacts
<1>2. PICK L, M, O, P : /\ L = LiveAfter(Ops[n], i) /\ M = LiveAfter(Ops[n], i + 1)
                        /\ O = OwnedAfter(Ops[n], i) /\ P = OwnedAfter(Ops[n], i + 1)
  OBVIOUS
<1>3. L \in SUBSET Resources /\ M \in SUBSET Resources /\ O \in SUBSET Resources /\ P \in SUBSET Resources
  BY <1>2 DEF LiveAfter, OwnedAfter
<1>4. ASSUME NEW r \in Resources
      PROVE  /\ r \in M <=> ((s.do \in {"make", "make here"} /\ s.what = r)
                              \/ (r \in L /\ ~(s.do = "free" /\ s.what = r)))
             /\ r \in P <=> ((s.do = "own" /\ s.what = r) \/ (r \in O /\ ~(s.do = "forget" /\ s.what = r)))
  <2>1. /\ (r \in M <=> IsLive(Ops[n], i + 1, r)) /\ (r \in L <=> IsLive(Ops[n], i, r))
        /\ (r \in P <=> IsOwned(Ops[n], i + 1, r)) /\ (r \in O <=> IsOwned(Ops[n], i, r))
    BY <1>2 DEF LiveAfter, OwnedAfter
  <2>2. /\ IsLive(Ops[n], i + 1, r) <=> (Makes(s, r) \/ (IsLive(Ops[n], i, r) /\ ~Frees(s, r)))
        /\ IsOwned(Ops[n], i + 1, r) <=> (Owns(s, r) \/ (IsOwned(Ops[n], i, r) /\ ~Forgets(s, r)))
    BY StepByStep
  <2> QED
    BY <2>1, <2>2 DEF Makes, Frees, Owns, Forgets
<1>5. M = CASE s.do \in {"make", "make here"} -> L \cup {s.what}
            [] s.do = "free" -> L \ {s.what}
            [] OTHER -> L
  <2>1. CASE s.do \in {"make", "make here"}
    <3>1. M = L \cup {s.what}
      BY <1>1, <1>3, <1>4, <2>1
    <3> QED
      BY <2>1, <3>1
  <2>2. CASE s.do = "free"
    <3>1. M = L \ {s.what}
      BY <1>1, <1>3, <1>4, <2>2
    <3> QED
      BY <2>2, <3>1
  <2>3. CASE s.do \notin {"make", "make here", "free"}
    <3>1. M = L
      BY <1>3, <1>4, <2>3
    <3> QED
      BY <2>3, <3>1
  <2> QED
    BY <2>1, <2>2, <2>3
<1>6. P = CASE s.do = "own" -> O \cup {s.what}
            [] s.do = "forget" -> O \ {s.what}
            [] OTHER -> O
  <2>1. CASE s.do = "own"
    <3>1. P = O \cup {s.what}
      BY <1>1, <1>3, <1>4, <2>1
    <3> QED
      BY <2>1, <3>1
  <2>2. CASE s.do = "forget"
    <3>1. P = O \ {s.what}
      BY <1>1, <1>3, <1>4, <2>2
    <3> QED
      BY <2>2, <3>1
  <2>3. CASE s.do \notin {"own", "forget"}
    <3>1. P = O
      BY <1>3, <1>4, <2>3
    <3> QED
      BY <2>3, <3>1
  <2> QED
    BY <2>1, <2>2, <2>3
<1> QED
  BY <1>2, <1>5, <1>6

(***************************************************************************)
(* The running operation's objects are those of the steps behind it, and   *)
(* only an operation of Leaky has lost one.                                *)
(***************************************************************************)
Accounted ==
    /\ run.at # 0 => /\ run.live = LiveAfter(Ops[run.op], run.at - 1)
                     /\ run.own = OwnedAfter(Ops[run.op], run.at - 1)
                     /\ run.lost = {} /\ run.twice = {}
    /\ NothingLost

LEMMA AccountedBegin ==
  ASSUME CallInv, NEW op \in DOMAIN Ops, Begin(op)
  PROVE  Accounted'
<1>1. PICK o : o = Ops[op]
  OBVIOUS
<1>2. run' = [op |-> op, at |-> 1, live |-> o.takes, own |-> o.takes, away |-> FALSE,
              lost |-> {}, twice |-> {}]
  BY <1>1 DEF Begin, Fresh
<1>3. LiveAfter(o, 0) = o.takes /\ OwnedAfter(o, 0) = o.takes
  BY <1>1, NoStepYet
<1>4. PICK r : r = run' /\ r = [op |-> op, at |-> 1, live |-> o.takes, own |-> o.takes,
                                away |-> FALSE, lost |-> {}, twice |-> {}]
  BY <1>2
<1>5. /\ r.at - 1 = 0 /\ r.op = op /\ r.live = o.takes /\ r.own = o.takes
      /\ r.lost = {} /\ r.twice = {}
  BY <1>4
<1>6. /\ r.live = LiveAfter(Ops[r.op], r.at - 1) /\ r.own = OwnedAfter(Ops[r.op], r.at - 1)
  BY <1>1, <1>3, <1>5
<1> QED
  BY <1>4, <1>5, <1>6 DEF Accounted, NothingLost

LEMMA AccountedProceed ==
  ASSUME CallInv, Accounted, Proceed
  PROVE  Accounted'
<1>1. run.at # 0 /\ run \in Runs /\ run.op \in DOMAIN Ops
  BY DEF CallInv, Proceed, Idle
<1>2. PICK n \in DOMAIN Ops : n = run.op
  BY <1>1
<1>3. run.at \in 1 .. Len(Ops[n].steps) /\ Len(Ops[n].steps) \in Nat
  BY <1>2, OpsFacts DEF Proceed
<1>4. PICK i \in Nat : run.at = i + 1
  <2>1. run.at - 1 \in Nat /\ run.at = run.at - 1 + 1
    BY <1>3
  <2> QED
    BY <2>1
<1>5. PICK s : s = Ops[n].steps[i + 1] /\ s = Here
  BY <1>2, <1>4 DEF Here
<1>6. /\ run.live = LiveAfter(Ops[n], i) /\ run.own = OwnedAfter(Ops[n], i)
      /\ run.lost = {} /\ run.twice = {}
  <2>1. run.at - 1 = i
    BY <1>4
  <2> QED
    BY <1>1, <1>2, <2>1 DEF Accounted
<1>7. /\ LiveAfter(Ops[n], i + 1) =
           CASE s.do \in {"make", "make here"} -> run.live \cup {s.what}
             [] s.do = "free" -> run.live \ {s.what}
             [] OTHER -> run.live
      /\ OwnedAfter(Ops[n], i + 1) =
           CASE s.do = "own" -> run.own \cup {s.what}
             [] s.do = "forget" -> run.own \ {s.what}
             [] OTHER -> run.own
  <2>1. i + 1 \in 1 .. Len(Ops[n].steps) /\ s = Ops[n].steps[i + 1]
    BY <1>3, <1>4, <1>5
  <2>2. /\ LiveAfter(Ops[n], i + 1) =
             CASE s.do \in {"make", "make here"} -> LiveAfter(Ops[n], i) \cup {s.what}
               [] s.do = "free" -> LiveAfter(Ops[n], i) \ {s.what}
               [] OTHER -> LiveAfter(Ops[n], i)
        /\ OwnedAfter(Ops[n], i + 1) =
             CASE s.do = "own" -> OwnedAfter(Ops[n], i) \cup {s.what}
               [] s.do = "forget" -> OwnedAfter(Ops[n], i) \ {s.what}
               [] OTHER -> OwnedAfter(Ops[n], i)
    BY <2>1, SetsStepByStep, ZenonT(60)
  <2> QED
    BY <1>6, <2>2
<1>8. PICK live, own, away :
         /\ run' = [run EXCEPT !.at = @ + 1, !.live = live, !.own = own, !.away = away]
         /\ live = CASE s.do \in {"make", "make here"} -> run.live \cup {s.what}
                     [] s.do = "free" -> run.live \ {s.what}
                     [] OTHER -> run.live
         /\ own = CASE s.do = "own" -> run.own \cup {s.what}
                    [] s.do = "forget" -> run.own \ {s.what}
                    [] OTHER -> run.own
  BY <1>5 DEF Proceed
<1>9. live = LiveAfter(Ops[n], i + 1) /\ own = OwnedAfter(Ops[n], i + 1)
  BY <1>7, <1>8
<1>10. PICK r : r = run' /\ r.at = i + 2 /\ r.op = n /\ r.live = live /\ r.own = own
                /\ r.lost = {} /\ r.twice = {}
  <2>1. /\ run = [op |-> run.op, at |-> run.at, live |-> run.live, own |-> run.own,
                  away |-> run.away, lost |-> run.lost, twice |-> run.twice]
    BY <1>1 DEF Runs
  <2>2. run' = [op |-> run.op, at |-> run.at + 1, live |-> live, own |-> own,
                away |-> away, lost |-> run.lost, twice |-> run.twice]
    BY <1>8, <2>1
  <2>3. run.at + 1 = i + 2
    BY <1>4
  <2> QED
    BY <1>2, <1>6, <2>2, <2>3
<1>11. r.at - 1 = i + 1
  BY <1>10
<1> QED
  BY <1>9, <1>10, <1>11 DEF Accounted, NothingLost

LEMMA AccountedReturn ==
  ASSUME \A n \in DOMAIN Ops \ Leaky : Tidy(Ops[n]),
         CallInv, Accounted, Fail \/ Finish
  PROVE  Accounted'
<1>1. run.at # 0 /\ run \in Runs /\ run.op \in DOMAIN Ops
  BY DEF CallInv, Fail, Finish, Idle
<1>2. PICK n \in DOMAIN Ops : n = run.op
  BY <1>1
<1>3. /\ DOMAIN Ops[n].steps = 1 .. Len(Ops[n].steps) /\ Len(Ops[n].steps) \in Nat
      /\ Ops[n].gives \in DOMAIN Types \cup {"nothing"}
      /\ run.at \in 1 .. (Len(Ops[n].steps) + 1)
  BY <1>1, <1>2, OpsFacts DEF CallInv, Underway
<1>4. /\ run.live = LiveAfter(Ops[n], run.at - 1) /\ run.own = OwnedAfter(Ops[n], run.at - 1)
      /\ run.lost = {} /\ run.twice = {}
  BY <1>1, <1>2 DEF Accounted
<1>5. PICK released \in SUBSET Resources :
         /\ run'.at = 0 /\ run'.op = n
         /\ run'.lost = run.live \ released /\ run'.twice = released \ run.live
         /\ n \notin Leaky => run.live = released
  <2>1. CASE Fail
    <3>1. run.at \in 1 .. Len(Ops[n].steps) /\ Here = Ops[n].steps[run.at] /\ Fallible(Here)
      BY <1>2, <1>3, <2>1 DEF Fail, Here, Fallible
    <3>2. PICK released : released = run.own \cup Here.undo
      OBVIOUS
    <3>3. released \in SUBSET Resources
      BY <1>1, <3>1, <3>2, OpsFacts DEF Runs
    <3>4. PICK q \in Runs : /\ q = Return(released) /\ q.at = 0 /\ q.op = n
                            /\ q.lost = run.live \ released /\ q.twice = released \ run.live
      BY <1>1, <1>2, <3>3, ReturnIs
    <3>5. run' = [q EXCEPT !.away = @ \/ (Reads(Here) /\ current # "own")]
      BY <2>1, <3>2, <3>4 DEF Fail
    <3>6. /\ run'.at = 0 /\ run'.op = n
          /\ run'.lost = run.live \ released /\ run'.twice = released \ run.live
      BY <3>4, <3>5 DEF Runs
    <3>7. n \notin Leaky => run.live = released
      BY <1>4, <3>1, <3>2, ZenonT(60) DEF Tidy
    <3> QED
      BY <3>3, <3>6, <3>7
  <2>2. CASE Finish
    <3>1. run.at = Len(Ops[n].steps) + 1
      BY <1>2, <1>3, <2>2 DEF Finish
    <3>2. run.at - 1 = Len(Ops[n].steps)
      BY <1>3, <3>1
    <3>3. PICK released \in SUBSET Resources :
             released = run.own \cup Drops(Ops[n].gives) /\ run' = Return(released)
      BY <1>2, <2>2, Finished
    <3>4. /\ run'.at = 0 /\ run'.op = n
          /\ run'.lost = run.live \ released /\ run'.twice = released \ run.live
      BY <1>1, <1>2, <3>3, ReturnIs
    <3>5. n \notin Leaky => run.live = released
      BY <1>4, <3>2, <3>3 DEF Tidy
    <3> QED
      BY <3>3, <3>4, <3>5
  <2> QED
    BY <2>1, <2>2
<1>6. n \notin Leaky => run'.lost = {} /\ run'.twice = {}
  BY <1>5
<1>7. PICK r : r = run' /\ r.at = 0 /\ r.op = n /\ (n \notin Leaky => r.lost = {} /\ r.twice = {})
  BY <1>5, <1>6
<1> QED
  BY <1>7 DEF Accounted, NothingLost

(***************************************************************************)
(* Whichever step of it fails, an operation loses no object and releases   *)
(* none twice, if each error path of its own code, and its return,         *)
(* releases exactly what it has by then: nothing else - the context, the   *)
(* other values, what the caller drops meanwhile - matters.                *)
(***************************************************************************)
THEOREM ReleasedOnce ==
  ASSUME \A n \in DOMAIN Ops \ Leaky : Tidy(Ops[n])
  PROVE  CallsSpec => []NothingLost
<1>1. CallsInit => Accounted
  <2> SUFFICES ASSUME CallsInit
               PROVE  Accounted
    OBVIOUS
  <2>1. run = Fresh
    BY DEF CallsInit
  <2>2. Fresh.at = 0 /\ Fresh.lost = {} /\ Fresh.twice = {}
    BY DEF Fresh
  <2>3. run.at = 0 /\ run.lost = {} /\ run.twice = {}
    BY <2>1, <2>2
  <2> QED
    BY <2>3 DEF Accounted, NothingLost
<1>2. ASSUME CallInv, Accounted, [CallsNext]_callVars
      PROVE  Accounted'
  <2>1. CASE run' = run
    BY <1>2, <2>1 DEF Accounted, NothingLost
  <2>2. CASE \E op \in DOMAIN Ops : Begin(op)
    BY <1>2, <2>2, AccountedBegin
  <2>3. CASE Proceed
    BY <1>2, <2>3, AccountedProceed
  <2>4. CASE Fail \/ Finish
    BY <1>2, <2>4, AccountedReturn
  <2>5. OtherThread \/ (\E k \in 1 .. Len(line) : DropValue(k)) \/ UNCHANGED callVars => run' = run
    BY DEF OtherThread, DropValue, callVars
  <2> QED
    BY <1>2, <2>1, <2>2, <2>3, <2>4, <2>5, Zenon DEF CallsNext
<1>3. Accounted => NothingLost
  BY DEF Accounted
<1> QED
  BY <1>1, <1>2, <1>3, CallsAlways, PTL DEF CallsSpec

(***************************************************************************)
(* The types of R are those whose values keep, one through another, the    *)
(* device at the root of their line.                                       *)
(***************************************************************************)
RootedLine(R, l) ==
    \A k \in 2 .. Len(l) :
        l[k].type \in R =>
          /\ Types[l[k].type].keeps /\ l[k - 1].type \in R
          /\ l[k].alive => l[k - 1].alive

\* The running operation, on a type in R, still has a rooted value under it,
\* and its device's context since it bound it.
AtRoot(R, l, o, i) ==
    /\ o.on \in R /\ o.on # "none" => l # <<>> /\ l[Len(l)].type \in R
    /\ o.on \in R \cup {"none"} /\ BoundAt(o, i) => current = "own"

Rooted(R) ==
    /\ RootedLine(R, line)
    /\ run.at # 0 => AtRoot(R, line, Ops[run.op], run.at)
    /\ AtHome

LEMMA RootLives ==
  ASSUME NEW R, NEW l \in Seq(Values), RootedLine(R, l), l # <<>>,
         l[Len(l)].type \in R, l[Len(l)].alive
  PROVE  l[1].alive
<1> DEFINE S == {k \in 1 .. Len(l) : ~(l[k].type \in R /\ l[k].alive)}
<1>1. Len(l) \in Nat /\ Len(l) # 0 /\ 1 \in 1 .. Len(l) /\ S \in SUBSET (1 .. Len(l))
  OBVIOUS
<1>2. S = {}
  <2> SUFFICES ASSUME S # {}
               PROVE  FALSE
    OBVIOUS
  <2>1. PICK m \in S : \A j \in S : j <= m
    <3> HIDE DEF S
    <3> QED
      BY <1>1, Greatest
  <2>2. m # Len(l)
    OBVIOUS
  <2>3. m + 1 \in 2 .. Len(l) /\ m + 1 \in 1 .. Len(l) /\ m + 1 \notin S /\ m + 1 - 1 = m
    <3>1. m \in 1 .. Len(l)
      OBVIOUS
    <3>2. m + 1 \in 2 .. Len(l) /\ m + 1 \in 1 .. Len(l) /\ m + 1 - 1 = m /\ ~(m + 1 <= m)
      BY <1>1, <2>2, <3>1
    <3> QED
      BY <2>1, <3>2
  <2>4. l[m + 1].type \in R /\ l[m + 1].alive
    BY <2>3
  <2>5. l[m].type \in R /\ l[m].alive
    BY <2>3, <2>4 DEF RootedLine
  <2> QED
    BY <2>5
<1> QED
  BY <1>1, <1>2

LEMMA SettleRooted ==
  ASSUME NEW R, NEW l \in Seq(Values), RootedLine(R, l)
  PROVE  RootedLine(R, Settle(l))
<1> SUFFICES ASSUME NEW k \in 2 .. Len(Settle(l)), Settle(l)[k].type \in R
             PROVE  /\ Types[Settle(l)[k].type].keeps /\ Settle(l)[k - 1].type \in R
                    /\ Settle(l)[k].alive => Settle(l)[k - 1].alive
  BY DEF RootedLine
<1>1. Len(l) \in Nat /\ Len(Settle(l)) \in 0 .. Len(l)
  BY SettleIs
<1>2. /\ k \in 2 .. Len(l) /\ k \in 1 .. Len(Settle(l)) /\ k <= Len(Settle(l))
      /\ k - 1 \in 1 .. Len(Settle(l))
  BY <1>1
<1>3. Settle(l)[k].type = l[k].type /\ Settle(l)[k - 1].type = l[k - 1].type
  BY <1>2, SettleIs
<1>4. Types[l[k].type].keeps /\ l[k - 1].type \in R /\ (l[k].alive => l[k - 1].alive)
  BY <1>2, <1>3 DEF RootedLine
<1> QED
  BY <1>2, <1>3, <1>4, KeepersKeep

LEMMA RootedDrop ==
  ASSUME NEW R, CallInv, Rooted(R), NEW k \in 1 .. Len(line), DropValue(k)
  PROVE  Rooted(R)'
<1> DEFINE u == [line EXCEPT ![k].held = FALSE]
<1>1. line \in Seq(Values) /\ Len(line) \in Nat /\ line # <<>>
  BY DEF CallInv
<1>2. /\ u \in Seq(Values) /\ Len(u) = Len(line)
      /\ \A i \in 1 .. Len(line) : /\ u[i].type = line[i].type /\ u[i].alive = line[i].alive
                                   /\ i # k => u[i].held = line[i].held
  BY <1>1, Unheld
<1>3. line' = Settle(u) /\ run' = run
  BY DEF DropValue
<1> HIDE DEF u
<1>4. PICK l \in Seq(Values) : l = line' /\ l = Settle(u)
  BY <1>2, <1>3, SettleIs
<1>5. \A i \in 2 .. Len(line) : i \in 1 .. Len(line) /\ i - 1 \in 1 .. Len(line)
  BY <1>1
<1>6. RootedLine(R, u)
  BY <1>2, <1>5 DEF Rooted, RootedLine
<1>7. RootedLine(R, l)
  BY <1>2, <1>4, <1>6, SettleRooted
<1>8. PICK o : o = Ops[run.op]
  OBVIOUS
<1>9. ASSUME run.at # 0
      PROVE  /\ o.on \in R /\ o.on # "none" => l # <<>> /\ l[Len(l)].type \in R
             /\ o.on \in R \cup {"none"} /\ BoundAt(o, run.at) => current' = "own"
  <2>1. o.takes = {} /\ k < Len(line)
    BY <1>8, <1>9 DEF DropValue, Idle
  <2>2. Underway(line, o, run.at) /\ AtRoot(R, line, o, run.at)
    BY <1>8, <1>9 DEF CallInv, Rooted
  <2>3. o.on # "none" /\ line[Len(line)].type = o.on /\ line[Len(line)].alive /\ line[Len(line)].held
    BY <1>1, <2>1, <2>2 DEF Underway
  <2>4. Len(line) \in 1 .. Len(line) /\ Len(line) # k /\ u # <<>>
    BY <1>1, <1>2, <2>1
  <2>5. u[Len(u)].held /\ u[Len(u)].alive /\ u[Len(u)].type = o.on
    BY <1>2, <2>3, <2>4
  <2>6. Len(l) = Len(u) /\ l # <<>> /\ l[Len(l)].type = o.on /\ l[Len(l)].alive
    BY <1>2, <1>4, <2>4, <2>5, LastStays
  <2>7. ASSUME o.on \in R, BoundAt(o, run.at)
        PROVE  current' = "own"
    <3>1. current = "own"
      BY <2>2, <2>7 DEF AtRoot
    <3>2. l[1].alive
      BY <1>7, <2>6, <2>7, RootLives
    <3>3. current' = IF current = "own" /\ (l = <<>> \/ ~l[1].alive) THEN "other" ELSE current
      BY <1>4 DEF DropValue, Left
    <3> QED
      BY <2>6, <3>1, <3>2, <3>3
  <2> QED
    BY <2>3, <2>6, <2>7
<1>10. run.at # 0 => AtRoot(R, l, o, run.at)'
  BY <1>3, <1>9, <1>8 DEF AtRoot
<1> QED
  BY <1>3, <1>4, <1>7, <1>8, <1>10 DEF Rooted, AtHome

LEMMA NothingBound ==
  ASSUME NEW o
  PROVE  ~BoundAt(o, 1)
BY DEF BoundAt

LEMMA RootedBegin ==
  ASSUME NEW R, CallInv, Rooted(R), NEW op \in DOMAIN Ops, Begin(op)
  PROVE  Rooted(R)'
<1>1. line \in Seq(Values) /\ Len(line) \in Nat
  BY DEF CallInv
<1>2. PICK o : o = Ops[op]
  OBVIOUS
<1>3. PICK r : r = run' /\ r.at = 1 /\ r.op = op /\ r.away = FALSE
  <2>1. PICK r : r = run' /\ r = [Fresh EXCEPT !.op = op, !.at = 1, !.live = o.takes, !.own = o.takes]
    BY <1>2 DEF Begin
  <2>2. r = [op |-> op, at |-> 1, live |-> o.takes, own |-> o.takes, away |-> FALSE,
             lost |-> {}, twice |-> {}]
    BY <2>1 DEF Fresh
  <2> QED
    BY <2>1, <2>2, ZenonT(60)
<1>4. o.on # "none" => line # <<>> /\ line[Len(line)].type = o.on
  BY <1>2 DEF Begin, Last
<1>5. PICK l \in Seq(Values) : /\ l = line' /\ RootedLine(R, l)
                               /\ o.on \in R /\ o.on # "none" => l # <<>> /\ l[Len(l)].type \in R
  <2>1. CASE o.takes = {}
    <3>1. line' = line
      BY <1>2, <2>1 DEF Begin
    <3> QED
      BY <1>1, <1>4, <3>1 DEF Rooted
  <2>2. CASE o.takes # {}
    <3>1. line' = Front(line) /\ Len(line) > 1
      BY <1>2, <2>2 DEF Begin
    <3>2. PICK l : l = Front(line)
      OBVIOUS
    <3>3. /\ l \in Seq(Values) /\ Len(l) = Len(line) - 1 /\ l # <<>>
          /\ \A i \in 1 .. (Len(line) - 1) : l[i] = line[i]
      BY <1>1, <3>1, <3>2, FrontIs
    <3>4. \A i \in 2 .. (Len(line) - 1) : i \in 2 .. Len(line) /\ i \in 1 .. (Len(line) - 1)
                                          /\ i - 1 \in 1 .. (Len(line) - 1)
      BY <1>1
    <3>5. RootedLine(R, l)
      BY <3>3, <3>4 DEF Rooted, RootedLine
    <3>6. ASSUME o.on \in R, o.on # "none"
          PROVE  l[Len(l)].type \in R
      <4>1. Len(line) \in 2 .. Len(line) /\ Len(line) - 1 \in 1 .. (Len(line) - 1)
        BY <1>1, <3>1
      <4>2. line[Len(line) - 1].type \in R
        BY <1>4, <3>6, <4>1 DEF Rooted, RootedLine
      <4> QED
        BY <3>3, <4>1, <4>2
    <3> QED
      BY <3>1, <3>2, <3>3, <3>5, <3>6
  <2> QED
    BY <2>1, <2>2
<1>6. /\ o.on \in R /\ o.on # "none" => l # <<>> /\ l[Len(l)].type \in R
      /\ o.on \in R \cup {"none"} /\ BoundAt(o, 1) => current' = "own"
  BY <1>5, NothingBound
<1>7. AtRoot(R, l, o, 1)'
  BY <1>6 DEF AtRoot
<1> QED
  BY <1>2, <1>3, <1>5, <1>7 DEF Rooted, AtHome

LEMMA BoundStep ==
  ASSUME NEW o, NEW i \in Nat \ {0}, BoundAt(o, i + 1), o.steps[i].do # "bind"
  PROVE  BoundAt(o, i) /\ o.steps[i].do # "bind other"
<1>1. PICK k \in 1 .. i : /\ o.steps[k].do = "bind"
                          /\ \A m \in (k + 1) .. i : o.steps[m].do # "bind other"
  <2>1. PICK j : j = i + 1
    OBVIOUS
  <2>2. BoundAt(o, j)
    BY <2>1
  <2>3. j - 1 = i
    BY <2>1
  <2> HIDE <2>1
  <2>4. PICK k \in 1 .. (j - 1) : /\ o.steps[k].do = "bind"
                                  /\ \A m \in (k + 1) .. (j - 1) : o.steps[m].do # "bind other"
    BY <2>2, Zenon DEF BoundAt
  <2> QED
    BY <2>3, <2>4, Zenon
<1>2. k \in 1 .. (i - 1) /\ i \in (k + 1) .. i /\ \A m \in (k + 1) .. (i - 1) : m \in (k + 1) .. i
  <2>1. k # i
    BY <1>1
  <2> QED
    BY <2>1
<1> QED
  BY <1>1, <1>2 DEF BoundAt

LEMMA RootedProceed ==
  ASSUME NEW R, BindFirst(R), CallInv, Rooted(R), Proceed
  PROVE  Rooted(R)'
<1>1. run.at # 0 /\ run \in Runs /\ run.op \in DOMAIN Ops
  BY DEF CallInv, Proceed, Idle
<1>2. PICK n \in DOMAIN Ops : n = run.op
  BY <1>1
<1>3. PICK o : o = Ops[n]
  OBVIOUS
<1>4. PICK i : i = run.at /\ i \in 1 .. Len(o.steps) /\ i \in Nat \ {0} /\ Len(o.steps) \in Nat
  <2>1. run.at \in 1 .. Len(o.steps) /\ Len(o.steps) \in Nat
    BY <1>2, <1>3, OpsFacts DEF Proceed
  <2>2. run.at \in Nat \ {0}
    BY <2>1
  <2> QED
    BY <2>1, <2>2
<1>5. AtRoot(R, line, o, i) /\ RootedLine(R, line) /\ (run.away => n \in Unbound)
  BY <1>1, <1>2, <1>3, <1>4 DEF Rooted, AtHome
<1>6. o.steps[i] = Here /\ o.steps[i].do = Here.do
  BY <1>2, <1>3, <1>4 DEF Here
<1>7. PICK a : a = (run.away \/ (Reads(Here) /\ current # "own"))
  OBVIOUS
<1>8. /\ run'.at = i + 1 /\ run'.op = n /\ run'.away = a
      /\ line' = line
  <2>1. PICK live, own : run' = [run EXCEPT !.at = @ + 1, !.live = live, !.own = own, !.away = a]
    BY <1>7 DEF Proceed
  <2>2. run = [op |-> run.op, at |-> run.at, live |-> run.live, own |-> run.own,
               away |-> run.away, lost |-> run.lost, twice |-> run.twice]
    BY <1>1 DEF Runs
  <2>3. run' = [op |-> run.op, at |-> run.at + 1, live |-> live, own |-> own,
                away |-> a, lost |-> run.lost, twice |-> run.twice]
    BY <2>1, <2>2
  <2>4. line' = line
    BY DEF Proceed
  <2> QED
    BY <1>2, <1>4, <2>3, <2>4
<1>9. ASSUME a, n \notin Unbound
      PROVE  FALSE
  <2>1. Reads(o.steps[i]) /\ current # "own"
    BY <1>5, <1>6, <1>7, <1>9
  <2>2. BoundAt(o, i) /\ o.on \in R \cup {"none"}
    BY <1>3, <1>4, <1>9, <2>1 DEF BindFirst, BindsFirst
  <2> QED
    BY <1>5, <2>1, <2>2 DEF AtRoot
<1>10. ASSUME o.on \in R \cup {"none"}, BoundAt(o, i + 1)
       PROVE  current' = "own"
  <2>1. current' \in CASE Here.do = "bind" -> {"own"}
                       [] Here.do = "try bind" -> {"own", current}
                       [] Here.do = "bind other" -> {"other"}
                       [] OTHER -> {current}
    BY DEF Proceed
  <2>2. CASE Here.do = "bind"
    BY <2>1, <2>2
  <2>3. CASE Here.do # "bind"
    <3>1. BoundAt(o, i) /\ Here.do # "bind other"
      BY <1>4, <1>6, <1>10, <2>3, BoundStep
    <3>2. current = "own"
      BY <1>5, <1>10, <3>1 DEF AtRoot
    <3> QED
      BY <2>1, <2>3, <3>1, <3>2
  <2> QED
    BY <2>2, <2>3
<1>11. PICK l : l = line' /\ l = line
  BY <1>8
<1>12. o.on \in R /\ o.on # "none" => l # <<>> /\ l[Len(l)].type \in R
  BY <1>5, <1>11 DEF AtRoot
<1>13. AtRoot(R, l, o, i + 1)'
  BY <1>10, <1>12 DEF AtRoot
<1>14. PICK r : r = run' /\ r.at = i + 1 /\ r.op = n /\ (r.away => n \in Unbound)
  BY <1>8, <1>9
<1> QED
  BY <1>3, <1>5, <1>11, <1>13, <1>14 DEF Rooted, AtHome

LEMMA RootedFail ==
  ASSUME NEW R, BindFirst(R), CallInv, Rooted(R), Fail
  PROVE  Rooted(R)'
<1>1. run.at # 0 /\ run \in Runs /\ run.op \in DOMAIN Ops /\ line \in Seq(Values)
  BY DEF CallInv, Fail, Idle
<1>2. PICK n \in DOMAIN Ops : n = run.op
  BY <1>1
<1>3. PICK o : o = Ops[n]
  OBVIOUS
<1>4. PICK i : i = run.at /\ i \in 1 .. Len(o.steps)
  BY <1>2, <1>3, OpsFacts DEF Fail
<1>5. AtRoot(R, line, o, i) /\ RootedLine(R, line) /\ (run.away => n \in Unbound)
  BY <1>1, <1>2, <1>3, <1>4 DEF Rooted, AtHome
<1>6. o.steps[i] = Here
  BY <1>2, <1>3, <1>4 DEF Here
<1>7. PICK released : released = run.own \cup Here.undo
  OBVIOUS
<1>8. released \in SUBSET Resources
  BY <1>1, <1>2, <1>3, <1>4, <1>6, <1>7, OpsFacts DEF Runs
<1>9. PICK q \in Runs : q = Return(released) /\ q.at = 0 /\ q.op = n /\ q.away = run.away
  BY <1>1, <1>2, <1>8, ReturnIs
<1>10. PICK a : a = (q.away \/ (Reads(Here) /\ current # "own"))
  OBVIOUS
<1>11. run' = [q EXCEPT !.away = a]
  BY <1>7, <1>9, <1>10 DEF Fail
<1>12. run'.at = 0 /\ run'.op = n /\ run'.away = a
  BY <1>9, <1>11 DEF Runs
<1>13. ASSUME a, n \notin Unbound
       PROVE  FALSE
  <2>1. Reads(o.steps[i]) /\ current # "own"
    BY <1>5, <1>6, <1>9, <1>10, <1>13
  <2>2. BoundAt(o, i) /\ o.on \in R \cup {"none"}
    BY <1>3, <1>4, <1>13, <2>1 DEF BindFirst, BindsFirst
  <2> QED
    BY <1>5, <2>1, <2>2 DEF AtRoot
<1>14. PICK l : l = line' /\ RootedLine(R, l)
  BY <1>1, <1>5, SettleRooted DEF Fail
<1>15. PICK r : r = run' /\ r.at = 0 /\ r.op = n /\ (r.away => n \in Unbound)
  BY <1>12, <1>13
<1> QED
  BY <1>14, <1>15 DEF Rooted, AtHome

LEMMA RootedFinish ==
  ASSUME NEW R, KeepTheRoot(R), "nothing" \notin R, CallInv, Rooted(R), Finish
  PROVE  Rooted(R)'
<1>1. run.at # 0 /\ run \in Runs /\ run.op \in DOMAIN Ops /\ line \in Seq(Values) /\ Len(line) \in Nat
  BY DEF CallInv, Finish, Idle
<1>2. PICK n \in DOMAIN Ops : n = run.op
  BY <1>1
<1>3. PICK o : o = Ops[n]
  OBVIOUS
<1>4. AtRoot(R, line, o, run.at) /\ RootedLine(R, line) /\ Underway(line, o, run.at)
  BY <1>1, <1>2, <1>3 DEF Rooted, CallInv
<1>5. PICK l \in Seq(Values) : l = line' /\ RootedLine(R, l)
  <2>1. CASE o.gives = "nothing"
    BY <1>1, <1>2, <1>3, <1>4, <2>1, Finished
  <2>2. CASE o.gives # "nothing"
    <3> DEFINE v == [type |-> o.gives, held |-> TRUE, alive |-> TRUE]
               u == Append(line, v)
    <3>1. o.gives \in DOMAIN Types /\ line' = Settle(u)
      BY <1>2, <1>3, <2>2, Finished
    <3>2. /\ u \in Seq(Values) /\ Len(u) = Len(line) + 1 /\ u[Len(line) + 1] = v
          /\ \A i \in 1 .. Len(line) : u[i] = line[i]
      BY <1>1, <3>1, AppendIs
    <3> HIDE DEF u
    <3>3. ASSUME NEW k \in 2 .. Len(u), u[k].type \in R
          PROVE  /\ Types[u[k].type].keeps /\ u[k - 1].type \in R
                 /\ u[k].alive => u[k - 1].alive
      <4>1. CASE k = Len(line) + 1
        <5>1. k - 1 = Len(line) /\ Len(line) \in 1 .. Len(line) /\ line # <<>>
          BY <1>1, <4>1
        <5>2. o.gives \in R /\ u[k].type = o.gives
          BY <3>2, <3>3, <4>1
        <5>3. o.on # "none"
          <6>1. o.takes # {} => o.on # "none"
            BY <1>3, OpsFacts
          <6> QED
            BY <1>4, <5>1, <6>1 DEF Underway
        <5>4. o.on \in R /\ Types[o.gives].keeps
          BY <1>3, <5>2, <5>3 DEF KeepTheRoot
        <5>5. line[Len(line)].type \in R
          BY <1>4, <5>3, <5>4 DEF AtRoot
        <5>6. line[Len(line)].alive
          BY <1>4, <5>1, <5>3 DEF Underway
        <5> QED
          BY <3>2, <5>1, <5>2, <5>4, <5>5, <5>6
      <4>2. CASE k # Len(line) + 1
        <5>1. k \in 2 .. Len(line) /\ k \in 1 .. Len(line) /\ k - 1 \in 1 .. Len(line)
          BY <1>1, <3>2, <4>2
        <5> QED
          BY <1>4, <3>2, <3>3, <5>1 DEF RootedLine
      <4> QED
        BY <4>1, <4>2
    <3>4. RootedLine(R, u)
      BY <3>3 DEF RootedLine
    <3>5. RootedLine(R, Settle(u)) /\ Settle(u) \in Seq(Values)
      BY <3>2, <3>4, SettleRooted, SettleIs
    <3> QED
      BY <3>1, <3>5
  <2> QED
    BY <2>1, <2>2
<1>6. PICK released \in SUBSET Resources : run' = Return(released)
  BY Finished
<1>7. PICK r \in Runs : r = run' /\ r.at = 0 /\ r.op = run.op /\ r.away = run.away
  BY <1>1, <1>6, ReturnIs
<1> QED
  BY <1>5, <1>7 DEF Rooted, AtHome

(***************************************************************************)
(* A step that works in the thread's current context finds its device's    *)
(* there, whatever other devices the thread worked with and whatever the   *)
(* caller drops while the operation runs, if the operations outside        *)
(* Unbound bind before they read and are on types that keep their device,  *)
(* through each other.                                                     *)
(***************************************************************************)
THEOREM BoundWhenRead ==
  ASSUME NEW R \in SUBSET (DOMAIN Types \ {"nothing"}), KeepTheRoot(R), BindFirst(R)
  PROVE  CallsSpec => []AtHome
<1>1. CallsInit => Rooted(R)
  <2> SUFFICES ASSUME CallsInit
               PROVE  Rooted(R)
    OBVIOUS
  <2>1. run = Fresh /\ line = <<>>
    BY DEF CallsInit
  <2>2. Fresh.at = 0 /\ Fresh.away = FALSE
    BY DEF Fresh
  <2>3. run.at = 0 /\ run.away = FALSE
    BY <2>1, <2>2
  <2>4. RootedLine(R, line)
    BY <2>1 DEF RootedLine
  <2> QED
    BY <2>3, <2>4 DEF Rooted, AtHome
<1>2. ASSUME CallInv, Rooted(R), [CallsNext]_callVars
      PROVE  Rooted(R)'
  <2>1. CASE OtherThread
    <3>1. run' = run /\ line' = line /\ run.at = 0
      BY <2>1 DEF OtherThread, Idle
    <3> QED
      BY <1>2, <3>1 DEF Rooted, AtHome, RootedLine
  <2>2. CASE \E k \in 1 .. Len(line) : DropValue(k)
    BY <1>2, <2>2, RootedDrop
  <2>3. CASE \E op \in DOMAIN Ops : Begin(op)
    BY <1>2, <2>3, RootedBegin
  <2>4. CASE Proceed
    BY <1>2, <2>4, RootedProceed
  <2>5. CASE Fail
    BY <1>2, <2>5, RootedFail
  <2>6. CASE Finish
    BY <1>2, <2>6, RootedFinish
  <2>7. CASE UNCHANGED callVars
    BY <1>2, <2>7 DEF callVars, Rooted, AtHome, RootedLine, AtRoot, BoundAt
  <2> QED
    BY <1>2, <2>1, <2>2, <2>3, <2>4, <2>5, <2>6, <2>7, Zenon DEF CallsNext
<1>3. Rooted(R) => AtHome
  BY DEF Rooted
<1> QED
  BY <1>1, <1>2, <1>3, CallsAlways, PTL DEF CallsSpec

===============================================================================
