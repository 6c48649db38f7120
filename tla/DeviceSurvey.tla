---------------------------- MODULE DeviceSurvey ----------------------------
(***************************************************************************)
(* Enumerating devices, asking for capabilities and opening one, by its    *)
(* ordinal (ironaccelerator-core/src/backend.rs, ironaccelerator/src/      *)
(* runtime.rs, the backends' drv.rs, backend.rs and compute.rs).  The      *)
(* three walk the machine separately, each with its own filter, and the    *)
(* ordinal is all that is handed from one to the other.                    *)
(***************************************************************************)
EXTENDS LibraryLoading, FiniteSets, SequencesExt

CONSTANTS Adapters, Ordinals

VARIABLES
  machine,   \* the adapters, in the order the driver gives them
  kind,      \* kind[a]: ok, bad (a query or the creation fails; a QNN target not installed), weak
  listed,    \* the last enumeration, ordinal to adapter
  answer     \* what capabilities or open last gave

surveyVars == <<loadVars, machine, kind, listed, answer>>

\* weak: a software adapter (dx12), a fallback adapter (webgpu), a context
\* without compute shaders (opengl), no compute queue (vulkan), a device that
\* opens and then fails a query (rocm).
Kinds == {"ok", "bad", "weak"}

ASSUME DeviceSurveyAssumption == Ordinals \subseteq Nat /\ IsFiniteSet(Adapters)

\* Where an adapter may go while the process lives; the others count once,
\* or probe at first use (total_cores, device_count, probe_all).
Live == {"dx12", "metal", "vulkan"}

SurveyInit ==
  /\ LoadInit
  /\ machine = SetToSeq(Adapters)
  /\ kind \in [Adapters -> Kinds]
  /\ listed = Nil
  /\ answer = Nil

(***************************************************************************)
(* The walks.                                                              *)
(***************************************************************************)
Numbered(seq) == [o \in 0 .. Len(seq) - 1 |-> seq[o + 1]]
At(listing, o) == IF o \in DOMAIN listing THEN listing[o] ELSE Nil
Usable == {a \in Adapters : kind[a] = "ok"}
Answering == {a \in Adapters : kind[a] # "bad"}

Only(m, these) == SelectSeq(m, LAMBDA a : a \in these)
First(m) == IF m = <<>> THEN <<>> ELSE <<m[1]>>

\* One that fails, or fails a filter, takes no ordinal ...
Dx12Enumerate(m) == Numbered(Only(m, Usable))
LevelZeroEnumerate(m) == Numbered(Only(m, Answering))
QnnEnumerate(m) == Numbered(Only(m, Answering))
OpenGlEnumerate(m) == Numbered(Only(First(m), Usable))
WebGpuEnumerate(m) == Numbered(Only(First(m), Usable))

\* ... except in ROCm, whose ordinals are the driver's.
RocmEnumerate(m) ==
  [o \in {p \in DOMAIN Numbered(m) : Numbered(m)[p] \in Answering} |-> Numbered(m)[o]]

\* The driver's list, or its count, as it is.
VulkanEnumerate(m) == Numbered(m)
MetalEnumerate(m) == Numbered(m)
TpuEnumerate(m) == Numbered(m)
FpgaEnumerate(m) == Numbered(m)
NeuronEnumerate(m) == Numbered(m)
CudaCount(m) == Numbered(m)

Listing(m) ==
  CASE backend = "dx12" -> Dx12Enumerate(m)
    [] backend = "levelzero" -> LevelZeroEnumerate(m)
    [] backend = "qnn" -> QnnEnumerate(m)
    [] backend = "opengl" -> OpenGlEnumerate(m)
    [] backend = "webgpu" -> WebGpuEnumerate(m)
    [] backend = "rocm" -> RocmEnumerate(m)
    [] backend = "vulkan" -> VulkanEnumerate(m)
    [] backend = "metal" -> MetalEnumerate(m)
    [] backend = "tpu" -> TpuEnumerate(m)
    [] backend = "fpga" -> FpgaEnumerate(m)
    [] backend = "neuron" -> NeuronEnumerate(m)
    [] backend = "cuda" -> CudaCount(m)

\* Mutant: what is described is looked up in the unfiltered list.
DescribedUnfiltered(m, o) == At(Numbered(m), o)

\* QNN's ordinals are of its table of targets; WebGPU takes what is bound; ROCm
\* opens the device and passes the error of a query on, where its enumeration
\* has a default; the others look the ordinal up in a new enumeration.
QnnTargetOf(m, o) == At(Numbered(m), o)
WebGpuDescribed(m, o) == At(Numbered(First(m)), o)
RocmCapability(m, o) ==
  LET a == At(Listing(m), o) IN IF a \in Usable THEN a ELSE Nil
Described(m, o) ==
  CASE backend = "qnn" -> QnnTargetOf(m, o)
    [] backend = "webgpu" -> WebGpuDescribed(m, o)
    [] backend = "rocm" -> RocmCapability(m, o)
    [] OTHER -> At(Listing(m), o)

\* Context::new and Device::open: a walk of their own.
Dx12Open(m, o) == At(Numbered(Only(m, Usable)), o)
LevelZeroLocate(m, o) == At(Numbered(m), o)
VulkanContext(m, o) ==
  LET a == At(Numbered(m), o) IN IF a \in Usable THEN a ELSE Nil
MetalContext(m, o) == At(Numbered(m), o)
HipOpen(m, o) ==
  LET a == At(Numbered(m), o) IN IF a \in Answering THEN a ELSE Nil
CudaOpen(m, o) == HipOpen(m, o)

Opening(m, o) ==
  CASE backend = "dx12" -> Dx12Open(m, o)
    [] backend = "levelzero" -> LevelZeroLocate(m, o)
    [] backend = "vulkan" -> VulkanContext(m, o)
    [] backend = "metal" -> MetalContext(m, o)
    [] backend = "rocm" -> HipOpen(m, o)
    [] backend = "cuda" -> CudaOpen(m, o)

Openable == Live \cup {"cuda", "rocm", "levelzero"}

(***************************************************************************)
(* Calls.                                                                  *)
(***************************************************************************)
Call(t) ==
  /\ UNCHANGED <<machine, kind, listed, answer>>
  /\ \/ Enter(t, "enumerate", 0)
     \/ backend # "cuda" /\ \E o \in Ordinals : Enter(t, "available", o)
     \/ backend \in Openable /\ \E o \in Ordinals : Enter(t, "open", o)

Loading(t) == LoadStep(t) /\ UNCHANGED <<machine, kind, listed, answer>>

Return(t) ==
  /\ Leaves(t)
  /\ UNCHANGED <<backend, library, memo, runner, cursor, hot, table>>

Enumerate(t) ==
  /\ Ready(t) /\ at[t].op = "enumerate"
  /\ listed' = [of |-> machine, as |-> Listing(machine)]
  /\ Return(t)
  /\ UNCHANGED <<machine, kind, answer>>

\* Runtime::capabilities: is_available first, then, on what the machine is
\* by then, capabilities.
Available(t) ==
  /\ Ready(t) /\ at[t].op = "available"
  /\ IF DOMAIN Listing(machine) = {} /\ backend # "rocm"
       THEN Leaves(t)
       ELSE at' = [at EXCEPT ![t].op = "capabilities"]
  /\ UNCHANGED <<backend, library, memo, runner, cursor, hot, table>>
  /\ UNCHANGED <<machine, kind, listed, answer>>

Answered(t, a) ==
  answer' = [op |-> at[t].op, ordinal |-> at[t].ordinal, adapter |-> a, of |-> machine]

\* ROCm's cache of devices, read, or written after a miss, adds nothing to
\* Device::open.
Capabilities(t) ==
  /\ at[t].op = "capabilities" /\ Ready(t)
  /\ Answered(t, Described(machine, at[t].ordinal))
  /\ Return(t)
  /\ UNCHANGED <<machine, kind, listed>>

Open(t) ==
  /\ at[t].op = "open" /\ Ready(t)
  /\ Answered(t, Opening(machine, at[t].ordinal))
  /\ Return(t)
  /\ UNCHANGED <<machine, kind, listed>>

(***************************************************************************)
(* The machine.                                                            *)
(***************************************************************************)
\* An adapter is gone, or the application binds another one.
Detach ==
  /\ backend \in Live \cup {"webgpu"}
  /\ Len(machine) = Cardinality(Adapters)
  /\ \E i \in DOMAIN machine : machine' = RemoveAt(machine, i)
  /\ UNCHANGED <<loadVars, kind, listed, answer>>

Step(t) == Call(t) \/ Loading(t) \/ Enumerate(t) \/ Available(t) \/ Capabilities(t) \/ Open(t)

SurveyNext == Detach \/ \E t \in Callers : Step(t)

SurveySpec == SurveyInit /\ [][SurveyNext]_surveyVars
-----------------------------------------------------------------------------
\* The types; a filled memo is nobody's to fill.
SurveyTypeOK ==
  /\ LoadTypeOK
  /\ kind \in [Adapters -> Kinds]
  /\ ToSet(machine) \subseteq Adapters

\* The code's ordinals disagree: Level Zero opens by a count that leaves
\* nothing out, QNN describes by its table of targets, WebGPU describes the
\* fallback adapter it does not list.
Divergent ==
  {<<"levelzero", "open">>, <<"qnn", "capabilities">>, <<"webgpu", "capabilities">>}

\* On an unchanged machine, what capabilities describes and what open opens
\* under a listed ordinal is the adapter that was listed, or open (in ROCm,
\* capabilities too) refuses; and an ordinal not listed is refused.
\* (describe_adapter's re-walk, dx12/src/drv.rs:728; the look-ups by ordinal in
\* the backends; RocmBackend::capability.)
SameAdapter ==
  /\ listed # Nil /\ answer # Nil /\ <<backend, answer.op>> \notin Divergent
  /\ listed.of = answer.of
  => \/ answer.adapter = At(listed.as, answer.ordinal)
     \/ (answer.op = "open" \/ backend = "rocm") /\ answer.adapter = Nil
=============================================================================
