--------------------------- MODULE MC_LibraryHandles ---------------------------
(* Two threads, one device or two, a binding and a passing library, and cuFFT. *)
EXTENDS LibraryHandles, TLC

Interchangeable == Permutations(Threads) \cup Permutations(Raws) \cup Permutations(Devices)
================================================================================
