------------------------- MODULE MCServiceDiscovery -------------------------
(* Settings of ServiceDiscovery for TLC: which instance offers which       *)
(* service at which address.                                               *)
EXTENDS ServiceDiscovery

CONSTANTS p1, p2, s1, s2, h1, h2

\* p2 is p1 restarted: the same service at the same address.
OneService == [k \in Keys |-> s1]
OneHost    == [k \in Keys |-> h1]

\* The two are interchangeable as far as safety goes.
Interchangeable == Permutations(Keys)

\* p2 offers, elsewhere, a service the consumer did not declare.
TwoServices == (p1 :> s1) @@ (p2 :> s2)
TwoHosts    == (p1 :> h1) @@ (p2 :> h2)
=============================================================================
