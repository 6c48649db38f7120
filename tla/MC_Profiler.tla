---------------------------- MODULE MC_Profiler -----------------------------
(* Two threads over a buffer of two or three events. *)
EXTENDS Profiler, TLC

Symmetry == Permutations(Threads)
=============================================================================
