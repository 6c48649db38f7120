--------------------------- MODULE MC_StagedCopy ---------------------------
(***************************************************************************)
(* Instances of StagedCopy for TLC.                                        *)
(***************************************************************************)
EXTENDS StagedCopy, TLC

\* Every driver call of the copies but the one that records the slot's event.
AllButRecord == {"ring", "wait", "enqueue", "synchronize", "drain", "transfer"}

RecordToo == AllButRecord \cup {"record"}

Symmetric == Permutations(Callers)
=============================================================================
