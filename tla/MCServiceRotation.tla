------------------------- MODULE MCServiceRotation -------------------------
(* ServiceRotation for TLC; services and threads are interchangeable.      *)
EXTENDS ServiceRotation

Interchangeable == Permutations(Threads) \cup Permutations(Services)
=============================================================================
