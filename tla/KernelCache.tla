---------------------------- MODULE KernelCache -----------------------------
(***************************************************************************)
(* The kernel cache (ironaccelerator-cuda/src/kernel.rs): compiled modules *)
(* in a map of the process, over PTX images in a directory shared by every *)
(* process of the machine and kept when one dies.                          *)
(*                                                                         *)
(* The map is read and written under its lock, and nothing is locked in    *)
(* between: threads that miss together all load, compile, store and insert.*)
(* The directory has no lock at all.  A file is an inode, so that a writer *)
(* that has a file open goes on writing it after somebody renamed it.      *)
(* An image is what NVRTC makes of a source, an architecture and options   *)
(* (it is deterministic).  Of the options, the one that names the          *)
(* architecture is kept; "source" stands for a source with the others.     *)
(***************************************************************************)
EXTENDS Integers, FiniteSets, Functions

CONSTANTS
  Processes, Threads, ProcessOf,   \* the threads of each process
  Devices, ArchOf,                 \* and the architecture of each device
  NoArch,                          \* the options name no architecture
  Requests,                        \* [dev, source, opts, fn] asked for
  MaxCalls,                        \* bound: requests of a thread
  MaxCrashes,                      \* bound: processes that die
  NoFile, NoResult

ASSUME KernelCacheAssumption ==
  /\ IsFiniteSet(Threads) /\ IsFiniteSet(Requests) /\ Requests # {}
  /\ ProcessOf \in [Threads -> Processes]
  /\ DOMAIN ArchOf = Devices
  /\ \A r \in Requests : r.dev \in Devices
  /\ MaxCalls \in Nat /\ MaxCrashes \in Nat
  /\ NoFile \notin Nat

\* The architecture the options name, or the device's.
ArchFor(r) == IF r.opts = NoArch THEN ArchOf[r.dev] ELSE r.opts

\* CacheKey: the name of the function, not the device.
KeyOf(r) == [source |-> r.source, opts |-> r.opts, arch |-> ArchFor(r), fn |-> r.fn]

\* Mutant: the file is named by the source alone.
PathBySource(key) ==
  [source |-> key.source, opts |-> NoArch, arch |-> CHOOSE a \in Range(ArchOf) : TRUE]

\* disk_cache_path: "the fn_name is intentionally NOT part of the filename".
PathOf(key) == [source |-> key.source, opts |-> key.opts, arch |-> key.arch]

ImageOf(r) == [source |-> r.source, opts |-> r.opts, arch |-> ArchFor(r)]

Keys == {KeyOf(r) : r \in Requests}
Paths == {PathOf(k) : k \in Keys}
Images == {ImageOf(r) : r \in Requests}

\* Enough inodes for every name and every open file.
Inodes == 1 .. 2 * Cardinality(Paths) + Cardinality(Threads)

VARIABLES
  cache,     \* cache[p]: process p's CACHE, a function on the keys it holds
  path,      \* path[f]: the inode named f.ptx
  tmp,       \* tmp[f]: the inode named f.ptx.tmp
  content,   \* content[i]: the image in inode i, and whether all of it
  pc, req,   \* where a thread is, and for which request
  fd,        \* the inode a storing thread has open
  ptx,       \* the bytes a thread has read or compiled
  got,       \* the kernel a thread's last call returned
  calls, crashes,
  overlap    \* files that two calls have been storing at once (history)

disk == <<path, tmp, content>>
vars == <<cache, disk, pc, req, fd, ptx, got, calls, crashes, overlap>>

Bytes == [image : Images, whole : BOOLEAN]
Modules == [by : Threads, nth : 1 .. MaxCalls, dev : Devices, image : Images]
Results == [req : Requests, module : Modules]

ASSUME NoResultAssumption == NoResult \notin Bytes \cup Results

Init ==
  /\ cache = [p \in Processes |-> [k \in {} |-> NoResult]]
  /\ path = [f \in Paths |-> NoFile]
  /\ tmp = [f \in Paths |-> NoFile]
  /\ content = [i \in Inodes |-> [image |-> CHOOSE im \in Images : TRUE, whole |-> FALSE]]
  /\ pc = [t \in Threads |-> "idle"]
  /\ req = [t \in Threads |-> CHOOSE r \in Requests : TRUE]
  /\ fd = [t \in Threads |-> NoFile]
  /\ ptx = [t \in Threads |-> NoResult]
  /\ got = [t \in Threads |-> NoResult]
  /\ calls = [t \in Threads |-> 0]
  /\ crashes = 0
  /\ overlap = {}

Goto(t, place) == pc' = [pc EXCEPT ![t] = place]
Cache(t) == cache[ProcessOf[t]]
Key(t) == KeyOf(req[t])
File(t) == PathOf(Key(t))

Ends(t, result) ==
  /\ Goto(t, "idle")
  /\ got' = [got EXCEPT ![t] = result]
  /\ ptx' = [ptx EXCEPT ![t] = NoResult]

Result(t, m) == [req |-> req[t], module |-> m]

\* Module::function, the last step of a call, may not find the name in m.
Resolves(t, m) == Ends(t, Result(t, m)) \/ Ends(t, NoResult)

(***************************************************************************)
(* get_or_compile, up to the module.                                       *)
(***************************************************************************)
Call(t, r) ==
  /\ pc[t] = "idle" /\ calls[t] < MaxCalls
  /\ calls' = [calls EXCEPT ![t] = @ + 1]
  /\ req' = [req EXCEPT ![t] = r]
  /\ got' = [got EXCEPT ![t] = NoResult]
  /\ Goto(t, "lookup")
  /\ UNCHANGED <<cache, disk, fd, ptx, crashes, overlap>>

Hit(t) ==
  /\ pc[t] = "lookup" /\ Key(t) \in DOMAIN Cache(t)
  /\ Resolves(t, Cache(t)[Key(t)])
  /\ UNCHANGED <<cache, disk, req, fd, calls, crashes, overlap>>

Miss(t) ==
  /\ pc[t] = "lookup" /\ Key(t) \notin DOMAIN Cache(t)
  /\ Goto(t, "load")
  /\ UNCHANGED <<cache, disk, req, fd, ptx, got, calls, crashes, overlap>>

\* disk_cache_load: whatever the file holds, if there is one and it can be read.
Load(t) ==
  /\ pc[t] = "load"
  /\ \/ Goto(t, "compile") /\ UNCHANGED ptx
     \/ /\ path[File(t)] # NoFile
        /\ Goto(t, "module")
        /\ ptx' = [ptx EXCEPT ![t] = content[path[File(t)]]]
  /\ UNCHANGED <<cache, disk, req, fd, got, calls, crashes, overlap>>

\* NVRTC takes the source, or does not.
Compile(t) ==
  /\ pc[t] = "compile"
  /\ \/ /\ ptx' = [ptx EXCEPT ![t] = [image |-> ImageOf(req[t]), whole |-> TRUE]]
        /\ Goto(t, "store")
        /\ UNCHANGED got
     \/ Ends(t, NoResult)
  /\ UNCHANGED <<cache, disk, req, fd, calls, crashes, overlap>>

(***************************************************************************)
(* disk_cache_store, best effort: a failure is ignored.                    *)
(***************************************************************************)
Storing(f) == {t \in Threads : pc[t] \in {"write", "rename"} /\ File(t) = f}

Unused == Inodes \ (Range(path) \cup Range(tmp) \cup Range(fd))

\* Mutant: without the temporary sibling.
OpenPath(t) ==
  /\ pc[t] = "store"
  /\ LET i == IF path[File(t)] # NoFile THEN path[File(t)] ELSE CHOOSE j \in Unused : TRUE
     IN /\ path' = [path EXCEPT ![File(t)] = i]
        /\ fd' = [fd EXCEPT ![t] = i]
        /\ content' = [content EXCEPT ![i] = [ptx[t] EXCEPT !.whole = FALSE]]
  /\ overlap' = IF Storing(File(t)) = {} THEN overlap ELSE overlap \cup {File(t)}
  /\ Goto(t, "write")
  /\ UNCHANGED <<cache, tmp, req, ptx, got, calls, crashes>>

\* The temporary file is created, or truncated if it is there.
OpenTmp(t) ==
  /\ pc[t] = "store"
  /\ LET i == IF tmp[File(t)] # NoFile THEN tmp[File(t)] ELSE CHOOSE j \in Unused : TRUE
     IN /\ tmp' = [tmp EXCEPT ![File(t)] = i]
        /\ fd' = [fd EXCEPT ![t] = i]
        /\ content' = [content EXCEPT ![i] = [ptx[t] EXCEPT !.whole = FALSE]]
  /\ overlap' = IF Storing(File(t)) = {} THEN overlap ELSE overlap \cup {File(t)}
  /\ Goto(t, "write")
  /\ UNCHANGED <<cache, path, req, ptx, got, calls, crashes>>

WriteTmp(t) ==
  /\ pc[t] = "write"
  /\ content' = [content EXCEPT ![fd[t]] = ptx[t]]
  /\ fd' = [fd EXCEPT ![t] = NoFile]
  /\ Goto(t, "rename")
  /\ UNCHANGED <<cache, path, tmp, req, ptx, got, calls, crashes, overlap>>

\* It fails when another thread has renamed the file already.
Rename(t) ==
  /\ pc[t] = "rename"
  /\ IF tmp[File(t)] # NoFile
       THEN /\ path' = [path EXCEPT ![File(t)] = tmp[File(t)]]
            /\ tmp' = [tmp EXCEPT ![File(t)] = NoFile]
       ELSE UNCHANGED <<path, tmp>>
  /\ Goto(t, "module")
  /\ UNCHANGED <<cache, content, req, fd, ptx, got, calls, crashes, overlap>>

\* No directory, no space, or the disk cache is disabled.
StoreFails(t) ==
  /\ pc[t] \in {"store", "write"}
  /\ fd' = [fd EXCEPT ![t] = NoFile]
  /\ Goto(t, "module")
  /\ UNCHANGED <<cache, disk, req, ptx, got, calls, crashes, overlap>>

(***************************************************************************)
(* Module::load and the double-checked insert.                             *)
(***************************************************************************)
Loaded(t) == [by |-> t, nth |-> calls[t], dev |-> req[t].dev, image |-> ptx[t].image]

LoadModule(t) ==
  /\ pc[t] = "module" /\ ptx[t].whole
  /\ Goto(t, "insert")
  /\ UNCHANGED <<cache, disk, req, fd, ptx, got, calls, crashes, overlap>>

\* The driver refuses half an image, and may refuse a whole one.
LoadModuleFails(t) ==
  /\ pc[t] = "module"
  /\ Ends(t, NoResult)
  /\ UNCHANGED <<cache, disk, req, fd, calls, crashes, overlap>>

WithEntry(c, k, m) == [x \in DOMAIN c \cup {k} |-> IF x = k THEN m ELSE c[x]]

\* Mutant: an unconditional insert.
InsertLast(t) ==
  /\ pc[t] = "insert"
  /\ cache' = [cache EXCEPT ![ProcessOf[t]] = WithEntry(@, Key(t), Loaded(t))]
  /\ Ends(t, Result(t, Loaded(t)))
  /\ UNCHANGED <<disk, req, fd, calls, crashes, overlap>>

\* Mutant: the module inserted first is kept, the own one returned.
InsertReturnOwn(t) ==
  /\ pc[t] = "insert"
  /\ IF Key(t) \in DOMAIN Cache(t)
       THEN UNCHANGED cache
       ELSE cache' = [cache EXCEPT ![ProcessOf[t]] = WithEntry(@, Key(t), Loaded(t))]
  /\ Ends(t, Result(t, Loaded(t)))
  /\ UNCHANGED <<disk, req, fd, calls, crashes, overlap>>

Insert(t) ==
  /\ pc[t] = "insert"
  /\ IF Key(t) \in DOMAIN Cache(t)
       THEN /\ Resolves(t, Cache(t)[Key(t)])
            /\ UNCHANGED cache
       ELSE /\ Resolves(t, Loaded(t))
            /\ cache' = [cache EXCEPT ![ProcessOf[t]] = WithEntry(@, Key(t), Loaded(t))]
  /\ UNCHANGED <<disk, req, fd, calls, crashes, overlap>>

(***************************************************************************)
(* A process dies and is started again: the files stay as they are.        *)
(***************************************************************************)
Crash(p) ==
  /\ crashes < MaxCrashes
  /\ crashes' = crashes + 1
  /\ cache' = [cache EXCEPT ![p] = [k \in {} |-> NoResult]]
  /\ LET Dies(t) == ProcessOf[t] = p
     IN /\ pc' = [t \in Threads |-> IF Dies(t) THEN "idle" ELSE pc[t]]
        /\ fd' = [t \in Threads |-> IF Dies(t) THEN NoFile ELSE fd[t]]
        /\ ptx' = [t \in Threads |-> IF Dies(t) THEN NoResult ELSE ptx[t]]
        /\ got' = [t \in Threads |-> IF Dies(t) THEN NoResult ELSE got[t]]
  /\ UNCHANGED <<disk, req, calls, overlap>>

Next ==
  \/ \E t \in Threads :
       \/ \E r \in Requests : Call(t, r)
       \/ Hit(t) \/ Miss(t) \/ Load(t) \/ Compile(t)
       \/ OpenTmp(t) \/ WriteTmp(t) \/ Rename(t) \/ StoreFails(t)
       \/ LoadModule(t) \/ LoadModuleFails(t) \/ Insert(t)
  \/ \E p \in Processes : Crash(p)

Spec == Init /\ [][Next]_vars

(***************************************************************************)
(* Properties.                                                             *)
(***************************************************************************)
Places == {"idle", "lookup", "load", "compile", "store", "write", "rename", "module", "insert"}

\* Every variable keeps its type; a cache holds modules for its keys only, and
\* a file is open only while it is written.
TypeOK ==
  /\ \A p \in Processes : DOMAIN cache[p] \subseteq Keys /\ Range(cache[p]) \subseteq Modules
  /\ path \in [Paths -> Inodes \cup {NoFile}]
  /\ tmp \in [Paths -> Inodes \cup {NoFile}]
  /\ content \in [Inodes -> Bytes]
  /\ pc \in [Threads -> Places]
  /\ req \in [Threads -> Requests]
  /\ fd \in [Threads -> Inodes \cup {NoFile}]
  /\ \A t \in Threads : fd[t] # NoFile <=> pc[t] = "write"
  /\ ptx \in [Threads -> Bytes \cup {NoResult}]
  /\ got \in [Threads -> Results \cup {NoResult}]
  /\ calls \in [Threads -> 0 .. MaxCalls]
  /\ crashes \in 0 .. MaxCrashes
  /\ overlap \subseteq Paths

\* "get_or_compile must be idempotent by identity": two threads of a process
\* that got the same key's kernel hold the same module, although both may have
\* missed, compiled and loaded one.
SameModule ==
  \A t, u \in Threads :
    /\ got[t] # NoResult /\ got[u] # NoResult
    /\ ProcessOf[t] = ProcessOf[u] /\ KeyOf(got[t].req) = KeyOf(got[u].req)
    => got[t].module = got[u].module

\* Entries "live for the lifetime of the process": what a key maps to does not
\* change until the process dies.
EntriesStay ==
  [][\A p \in Processes : \A k \in DOMAIN cache[p] :
       crashes' = crashes => k \in DOMAIN cache'[p] /\ cache'[p][k] = cache[p][k]]_vars

\* A kernel returned is the image of the source, options and architecture asked
\* for, although files are shared between functions and between processes.
RightImage ==
  \A t \in Threads : got[t] # NoResult => got[t].module.image = ImageOf(got[t].req)

\* Whatever dies and wherever, half an image is neither published nor read,
\* unless two calls have been storing the same file at once.
TornOnlyByOverlap ==
  /\ \A f \in Paths : path[f] # NoFile /\ ~content[path[f]].whole => f \in overlap
  /\ \A t \in Threads : ptx[t] # NoResult /\ ~ptx[t].whole => File(t) \in overlap

\* "so a crash mid-write doesn't leave a truncated .ptx that future runs would
\* try to load"
PublishedWhole == \A f \in Paths : path[f] # NoFile => content[path[f]].whole

\* "Get-or-compile a kernel for `device`": the module is loaded in the context
\* of the device asked for.  The key tells two devices apart by the
\* architecture only, and not where the options name one.
RightDevice ==
  \A t \in Threads : got[t] # NoResult => got[t].module.dev = got[t].req.dev
=============================================================================
