----------------------------- MODULE MCRegistry -----------------------------
(* Registry for TLC; the instances may be permuted in runs without         *)
(* liveness.                                                               *)
EXTENDS Registry

Interchangeable == Permutations(Keys)
====
