-------------------------- MODULE ServiceRotation --------------------------
(***************************************************************************)
(* The rotation of ServiceChannel ("RR" in rpc.cc:45 and :57).  A history  *)
(* variable is added to ServiceManager: for every service, the positions   *)
(* of its channel that lookups have read in the current round.  A round    *)
(* ends when every position was read, and when the nodes change.           *)
(***************************************************************************)
EXTENDS ServiceManager

VARIABLE served

rvars == <<cares, pool, lock, call, got, served>>

Positions(c) == 0 .. Len(c.nodes) - 1

\* The round after a lookup has read the position under the cursor.
RoundAfter(c, round) ==
    LET read == round \cup {c.next}
    IN IF c.next \notin Positions(c) \/ read = Positions(c) THEN {} ELSE read

RInit == Init /\ served = [s \in Services |-> {}]

RPick(t) ==
    /\ PickNode(t)
    /\ served' = [served EXCEPT ![call[t].svc] = RoundAfter(pool[call[t].svc], @)]

ROther(t) ==
    /\ Other(t)
    /\ served' = [s \in Services |->
                    IF s \in cares /\ pool'[s].nodes # pool[s].nodes
                    THEN {} ELSE served[s]]

RNext == \E t \in Threads : RPick(t) \/ ROther(t)

RSpec == RInit /\ [][RNext]_rvars

-----------------------------------------------------------------------------
\* While the nodes of a service stay the same no node is given out a second
\* time before every other one was given out, whichever threads ask and
\* whether they call choose() or getServiceHost() (rpc.cc:51-53, :63-65).
RoundRobin ==
    \A s \in cares : pool[s].next \in Positions(pool[s])
                       => pool[s].next \notin served[s]

\* The positions from a up to the cursor, around the end of the channel.
Arc(c, a) == IF a <= c.next THEN a .. c.next - 1
             ELSE (a .. Len(c.nodes) - 1) \cup (0 .. c.next - 1)

\* The inductive form: a round is an arc of positions that ends just before
\* the cursor, and is empty while the cursor is out of range.
RoundIsArc ==
    \A s \in Services :
      IF s \in cares /\ pool[s].next \in Positions(pool[s])
      THEN \E a \in Positions(pool[s]) : served[s] = Arc(pool[s], a)
      ELSE served[s] = {}
=============================================================================
