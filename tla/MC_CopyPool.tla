---------------------------- MODULE MC_CopyPool -----------------------------
(***************************************************************************)
(* An instance of CopyPool for TLC: two callers and two workers.  Of the   *)
(* lengths, one is below the threshold, one fills the slices of one worker *)
(* only, one those of both and leaves half a page.                         *)
(***************************************************************************)
EXTENDS CopyPool, TLC

ShortEvenOdd == {1, 4, 5}
LastWorker == {2}
=============================================================================
