------------------------- MODULE MCScaffoldProcess --------------------------
(* ScaffoldProcess for TLC: the threads are interchangeable.               *)
EXTENDS ScaffoldProcess

Interchangeable == Permutations(Threads)
=============================================================================
