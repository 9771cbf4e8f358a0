------------------------- MODULE MCServiceManager -------------------------
(* ServiceManager for TLC.  The configurations give small sets of model    *)
(* values to the parameters; services and threads are interchangeable,     *)
(* hosts are not (Unreachable names one of them).                          *)
EXTENDS ServiceManager

Interchangeable == Permutations(Threads) \cup Permutations(Services)
=============================================================================
