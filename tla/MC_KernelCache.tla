--------------------------- MODULE MC_KernelCache ---------------------------
(***************************************************************************)
(* Instances of KernelCache for TLC: two threads of one process and one of *)
(* another.                                                                *)
(***************************************************************************)
EXTENDS KernelCache, TLC

CONSTANTS p1, p2, t1, t2, t3, d1, d2, source, f, g

TwoAndOne == t1 :> p1 @@ t2 :> p1 @@ t3 :> p2

Ask(device, opts, fn) == [dev |-> device, source |-> source, opts |-> opts, fn |-> fn]

\* Two functions of one source, compiled for the first device's architecture:
\* one key for both devices and one file for both functions.  The second device
\* asks for its own architecture too.
SomeRequests ==
  {Ask(d1, "compute_80", f), Ask(d2, "compute_80", f), Ask(d2, "compute_80", g),
   Ask(d2, NoArch, f)}

\* The threads of the first process are alike.
ThreadSymmetry == Permutations({t1, t2})

TwoArchs == d1 :> "compute_80" @@ d2 :> "compute_90"
=============================================================================
