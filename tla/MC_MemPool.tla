----------------------------- MODULE MC_MemPool -----------------------------
(***************************************************************************)
(* Instances of MemPool for TLC.  Size classes of 2 and 4 bytes stand for  *)
(* the 1 KiB .. 256 MiB ones.                                              *)
(***************************************************************************)
EXTENDS MemPool, TLC

Request(l, e) == [len |-> l, elem |-> e]

\* Element sizes that divide every size class, as those of all the types the
\* crate implements Repr for: two requests fill their classes, one is below,
\* one bypasses the pool.
PrimitiveRequests == {Request(1, 2), Request(3, 1), Request(2, 2), Request(3, 2)}

\* A user type of three bytes (Repr is open to user types) beside u8.
UserTypeRequests == {Request(1, 3), Request(4, 1)}

Symmetric == Permutations(Blocks) \cup Permutations(Threads)

\* The bit-length formula of bucket_for_bytes, and the class it stands for.
BitLength(n) == CHOOSE i \in 0 .. n + 1 : n < 2 ^ i /\ (i > 0 => n >= 2 ^ (i - 1))

BucketByBitLength(bytes) ==
  LET saturating == IF bytes = 0 THEN 0 ELSE bytes - 1
      bits == BitLength(saturating)
      log2 == IF bits > MinBucketLog2 THEN bits ELSE MinBucketLog2
  IN IF bytes = 0 \/ log2 > MaxBucketLog2 THEN NoBucket ELSE log2 - MinBucketLog2

ASSUME BucketFormula ==
  \A bytes \in 0 .. 2 ^ (MaxBucketLog2 + 1) : BucketFor(bytes) = BucketByBitLength(bytes)
=============================================================================
