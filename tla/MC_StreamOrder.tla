--------------------------- MODULE MC_StreamOrder ---------------------------
(***************************************************************************)
(* Two streams, a DeviceBuf of the first and a PooledBuf of the second,    *)
(* an event and a slab.                                                    *)
(***************************************************************************)
EXTENDS StreamOrder, TLC

CONSTANTS s1, s2, e1, own, pool, slab

MCHome == (own :> s1) @@ (pool :> s2)
=============================================================================
