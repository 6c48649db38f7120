--------------------------- MODULE LibraryLoading ---------------------------
(***************************************************************************)
(* How a backend gets at its vendor library: the candidates it tries, the  *)
(* table of functions it memoises, the initialisation that follows, and    *)
(* the pointer that lets later callers skip all that (cuda-sys, rocm-sys   *)
(* and qnn-sys, and the drv.rs of the other backends).  A memo is filled   *)
(* by one thread while the others wait (OnceLock, OnceCell, LazyLock), and *)
(* is never filled again, whatever it holds.  The initialisation is a memo *)
(* too, in whose closure the table's is filled or waited for.              *)
(***************************************************************************)
EXTENDS Integers, Sequences

CONSTANTS
  Callers,
  Backends,     \* the backends of an instance
  Candidates,   \* file names a backend tries, 1 .. Candidates
  Nil

Given == {"metal", "opengl", "webgpu"}    \* the system's or the application's
AllBackends ==
  Given \cup {"cuda", "rocm", "vulkan", "dx12", "qnn", "levelzero", "neuron", "tpu", "fpga"}

ASSUME LibraryLoadingAssumption ==
  /\ Backends \subseteq AllBackends
  /\ Candidates \in Nat \ {0}
  /\ Nil \notin Callers \cup Nat

Failed == 0

VARIABLES
  backend,
  library,   \* library[c]: what is found under a name
  memo,      \* memo[g]: what stage g holds, or Nil
  runner,    \* runner[g]: the thread that fills memo[g]
  cursor,    \* the candidate being tried
  hot,       \* FNS_HOT holds the table
  at,        \* at[t]: the call t is in, and where in it
  table      \* table[t]: the candidate whose table t's last call got

loadVars == <<backend, library, memo, runner, cursor, hot, at, table>>

\* absent: no such file; incomplete: a symbol is missing; broken: its
\* initialisation fails (or, in QNN, its list of providers is empty).
Outcomes ==
  CASE backend \in Given -> {"good"}
    [] backend \in {"dx12", "fpga"} -> {"absent", "incomplete", "good"}
    [] OTHER -> {"absent", "incomplete", "broken", "good"}

\* The memos: FNS, INIT_DONE of fns_slow, and INIT of ensure_init (Vulkan's
\* INSTANCE).  Those a library fills on the way to its FNS (LIB, and the LazyLock
\* below QNN's slot) are reached from there only: nobody waits for them.
Once == {"table", "init", "ensure"}

\* Where a call is: it comes to a memo under the memo's name, and fills one
\* under "load", "cuInit", and "ensure"'s from "hot" (Vulkan: "table") to
\* "create".
Stages == {"out", "ensure", "hot", "table", "load", "init", "cuInit", "publish", "create", "done"}

Out == [op |-> "none", ordinal |-> 0, stage |-> "out"]

LoadInit ==
  /\ backend \in Backends
  /\ library \in [1 .. Candidates -> Outcomes]
  /\ memo = [g \in Once |-> Nil]
  /\ runner = [g \in Once |-> Nil]
  /\ cursor = 1
  /\ hot = FALSE
  /\ at = [t \in Callers |-> Out]
  /\ table = [t \in Callers |-> Nil]

\* What an operation comes to first: Device::open and Device::count to
\* ensure_init; Vulkan's own_instance to the entry, its enumerate to the
\* instance.  The chips of a TPU are in the environment.
Start(op) ==
  CASE backend \in {"cuda", "rocm"} -> IF op = "fns" THEN "hot" ELSE "ensure"
    [] backend = "vulkan" -> IF op = "open" THEN "table" ELSE "ensure"
    [] backend \in Given \/ (backend = "tpu" /\ op = "enumerate") -> "done"
    [] OTHER -> "table"

\* t is in the closure of ensure_init, or of Vulkan's instance.
Inside(t) == runner["ensure"] = t

\* Mutant: fns_slow initialises the driver by ensure_init.
AfterReentrant(t, g) ==
  CASE g = "table" /\ backend = "cuda" -> "ensure"
    [] g = "table" /\ backend = "rocm" -> "publish"
    [] g = "table" /\ backend = "vulkan" /\ ~Inside(t) -> "ensure"
    [] g = "init" -> "publish"
    [] OTHER -> IF Inside(t) THEN "create" ELSE "done"

\* Where t goes on from stage g: cuInit whatever it returns, the publication,
\* and then whoever called fns.
After(t, g) ==
  CASE g = "table" /\ backend = "cuda" -> "init"
    [] g = "table" /\ backend = "rocm" -> "publish"
    [] g = "table" /\ backend = "vulkan" /\ ~Inside(t) -> "ensure"
    [] g = "init" -> "publish"
    [] OTHER -> IF Inside(t) THEN "create" ELSE "done"

\* The first stage of the closure that fills a memo.
Body(g) ==
  CASE g = "table" -> "load"
    [] g = "init" -> "cuInit"
    [] g = "ensure" -> IF backend = "vulkan" THEN "table" ELSE "hot"

\* The library is there for t.
Ready(t) == at[t].stage = "done"

Goes(t, stage) == at' = [at EXCEPT ![t].stage = stage]
Leaves(t) == at' = [at EXCEPT ![t] = Out]

Enter(t, op, o) ==
  /\ at[t] = Out
  /\ at' = [at EXCEPT ![t] = [op |-> op, ordinal |-> o, stage |-> Start(op)]]
  /\ table' = [table EXCEPT ![t] = Nil]
  /\ UNCHANGED <<backend, library, memo, runner, cursor, hot>>

\* A published table is taken without a look at the memos behind it.
LookHot(t) ==
  /\ at[t].stage = "hot"
  /\ IF hot THEN Goes(t, After(t, "hot")) /\ table' = [table EXCEPT ![t] = memo["table"]]
            ELSE Goes(t, "table") /\ UNCHANGED table
  /\ UNCHANGED <<backend, library, memo, runner, cursor, hot>>

\* get_or_init finds the memo empty: this thread fills it.
Claim(t, g) ==
  /\ at[t].stage = g /\ memo[g] = Nil /\ runner[g] = Nil
  /\ runner' = [runner EXCEPT ![g] = t]
  /\ cursor' = IF g = "table" THEN 1 ELSE cursor
  /\ Goes(t, Body(g))
  /\ UNCHANGED <<backend, library, memo, hot, table>>

\* The closure has returned a value, or an error.
Settle(t, g, value) ==
  /\ memo' = [memo EXCEPT ![g] = value]
  /\ runner' = [runner EXCEPT ![g] = Nil]
  /\ Goes(t, g)
  /\ UNCHANGED <<backend, library, cursor, hot, table>>

(***************************************************************************)
(* What becomes of a candidate: it is the library ("take"), the next one   *)
(* is tried ("next"), or the load ends in an error ("give up").            *)
(***************************************************************************)
\* try_load takes the first file that opens; a missing symbol is an error.
CudaLoad(c) ==
  CASE library[c] = "absent" -> "next"
    [] library[c] = "incomplete" -> "give up"
    [] OTHER -> "take"
HipLoad(c) == CudaLoad(c)
VulkanEntry(c) == CudaLoad(c)

\* The factory may come from either of two symbols of dxgi.
Dx12Load(c) == CudaLoad(c)

\* An empty list of providers is an error too.
QnnLoadFor(c) == IF library[c] = "broken" THEN "give up" ELSE CudaLoad(c)

\* zeInit comes first, then the symbols: one that is missing gives way to the
\* next candidate, whose zeInit is called again.
LevelZeroLoad(c) == IF library[c] = "good" THEN "take" ELSE "next"

\* nrt_init, then the count of cores; the rest may be missing.
NeuronLoad(c) == IF library[c] = "good" THEN "take" ELSE "next"

\* GetPjrtApi must give an API.
TpuLoad(c) == IF library[c] = "good" THEN "take" ELSE "next"

\* xclProbe only counts.
FpgaLoad(c) == IF library[c] = "good" THEN "take" ELSE "next"

Verdict(c) ==
  CASE backend = "cuda" -> CudaLoad(c)
    [] backend = "rocm" -> HipLoad(c)
    [] backend = "vulkan" -> VulkanEntry(c)
    [] backend = "dx12" -> Dx12Load(c)
    [] backend = "qnn" -> QnnLoadFor(c)
    [] backend = "levelzero" -> LevelZeroLoad(c)
    [] backend = "neuron" -> NeuronLoad(c)
    [] backend = "tpu" -> TpuLoad(c)
    [] backend = "fpga" -> FpgaLoad(c)

TryCandidate(t) ==
  /\ at[t].stage = "load"
  /\ CASE Verdict(cursor) = "take" -> Settle(t, "table", cursor)
       [] Verdict(cursor) = "next" /\ cursor < Candidates ->
            cursor' = cursor + 1 /\ UNCHANGED <<backend, library, memo, runner, hot, at, table>>
       [] OTHER -> Settle(t, "table", Failed)

\* An error ends the call, or the closure it is made in.
TakeTable(t) ==
  /\ at[t].stage = "table" /\ memo["table"] # Nil
  /\ table' = [table EXCEPT ![t] = memo["table"]]
  /\ \/ memo["table"] # Failed /\ Goes(t, After(t, "table"))
     \/ memo["table"] = Failed /\ Inside(t) /\ Goes(t, "create")
     \/ memo["table"] = Failed /\ ~Inside(t) /\ Leaves(t)
  /\ UNCHANGED <<backend, library, memo, runner, cursor, hot>>

\* cuInit of fns_slow: its result is kept and not looked at.
RunInit(t) == at[t].stage = "cuInit" /\ Settle(t, "init", 1)

\* Mutant: the table is published before cuInit.
PassInitPublished(t) ==
  /\ at[t].stage = "init"
  /\ hot' = TRUE
  /\ IF memo["init"] = Nil THEN UNCHANGED at ELSE Goes(t, After(t, "init"))
  /\ UNCHANGED <<backend, library, memo, runner, cursor, table>>

PassInit(t) ==
  /\ at[t].stage = "init" /\ memo["init"] # Nil
  /\ Goes(t, After(t, "init"))
  /\ UNCHANGED <<backend, library, memo, runner, cursor, hot, table>>

\* The Release store to FNS_HOT.
Publish(t) ==
  /\ at[t].stage = "publish"
  /\ hot' = TRUE
  /\ Goes(t, After(t, "publish"))
  /\ UNCHANGED <<backend, library, memo, runner, cursor, table>>

\* The end of ensure_init's closure (the table's error, or what cuInit gives the
\* second time), and vkCreateInstance.
RunEnsure(t) ==
  /\ at[t].stage = "create"
  /\ Settle(t, "ensure",
            IF table[t] = Failed \/ library[table[t]] = "broken" THEN Failed ELSE 1)

\* The table is taken again after ensure_init, and is published by then.
PassEnsure(t) ==
  /\ at[t].stage = "ensure" /\ memo["ensure"] # Nil
  /\ \/ /\ memo["ensure"] = Failed
        /\ table' = [table EXCEPT ![t] = Failed]
        /\ Leaves(t)
     \/ /\ memo["ensure"] # Failed
        /\ table' = [table EXCEPT ![t] = memo["table"]]
        /\ Goes(t, "done")
  /\ UNCHANGED <<backend, library, memo, runner, cursor, hot>>

\* fns alone: it leaves with the table.
ReturnFns(t) ==
  /\ Ready(t) /\ at[t].op = "fns"
  /\ Leaves(t)
  /\ UNCHANGED <<backend, library, memo, runner, cursor, hot, table>>

LoadStep(t) ==
  \/ (backend \in {"cuda", "rocm"} /\ Enter(t, "fns", 0)) \/ ReturnFns(t)
  \/ LookHot(t) \/ \E g \in Once : Claim(t, g)
  \/ TryCandidate(t) \/ TakeTable(t)
  \/ RunInit(t) \/ PassInit(t) \/ Publish(t)
  \/ RunEnsure(t) \/ PassEnsure(t)
-----------------------------------------------------------------------------
LoadTypeOK ==
  /\ memo \in [Once -> 0 .. Candidates \cup {Nil}]
  /\ runner \in [Once -> Callers \cup {Nil}]
  /\ cursor \in 1 .. Candidates
  /\ hot \in BOOLEAN
  /\ table \in [Callers -> 0 .. Candidates \cup {Nil}]
  /\ \A t \in Callers : at[t].stage \in Stages

\* A call that waits for a memo waits for the thread that fills it.
Awaits(t, u) == \E g \in Once : at[t].stage = g /\ memo[g] = Nil /\ runner[g] = u

\* No threads wait for each other, and none for itself, though INIT is held while
\* FNS and INIT_DONE are waited for: the closures nest one way only (ensure_init,
\* cuda/src/drv.rs and rocm/src/drv.rs, over fns_slow, cuda-sys/src/driver.rs and
\* rocm-sys/src/hip.rs; instance over entry, vulkan/src/drv.rs).
NoCircleOfWaits ==
  \A S \in SUBSET Callers : (\A t \in S : \E u \in S : Awaits(t, u)) => S = {}

\* The candidate the order of the names settles on.
Chosen ==
  LET decisive == {c \in 1 .. Candidates : Verdict(c) # "next"}
      refused == {c \in 1 .. Candidates : Verdict(c) = "give up"}
      first == CHOOSE c \in decisive : \A d \in decisive : c <= d
  IN IF decisive = {} \/ first \in refused THEN Failed ELSE first

\* All callers get one answer, the library the candidates' order settles on
\* or the error: on the fast path too, which is open only once cuInit has
\* been called (fns_slow, cuda-sys/src/driver.rs), and no caller of Device
\* gets at a library whose initialisation failed (ensure_init).
OneAnswer ==
  /\ \A t \in Callers :
       /\ table[t] \in {Nil, Failed} \/ table[t] = Chosen
       /\ table[t] = Failed => Chosen = Failed \/ library[Chosen] = "broken"
       /\ Ready(t) /\ at[t].op # "fns" /\ Start(at[t].op) # "done" =>
            table[t] # Nil /\ library[table[t]] = "good"
       /\ Ready(t) /\ backend = "cuda" => memo["init"] # Nil
  /\ hot => memo["table"] = Chosen /\ Chosen # Failed
=============================================================================
