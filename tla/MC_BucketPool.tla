--------------------------- MODULE MC_BucketPool ----------------------------
(***************************************************************************)
(* Both pools for TLC: two size classes, of 2 and 4 bytes, and requests    *)
(* below, at and above their bounds; the largest is above both classes.    *)
(***************************************************************************)
EXTENDS BucketPool, TLC

CONSTANTS t1, t2

BothKinds == {"rocm", "pinned"}
Of(lens, s) == {[len |-> n, size |-> s] : n \in lens}
Elements == [rocm |-> Of({1, 2, 3}, 2) \cup Of({1}, 3), pinned |-> Of({1, 2, 6}, 1)]
Symmetry == Permutations(Blocks) \cup Permutations(Threads)
=============================================================================
