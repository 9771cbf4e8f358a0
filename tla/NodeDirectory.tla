--------------------------- MODULE NodeDirectory ---------------------------
(***************************************************************************)
(* What the pool of rpc.cc promises to the threads that look nodes up: the *)
(* nodes of a service come and go one at a time, an answer is a node of    *)
(* the service at the moment it is given, and nothing is answered only     *)
(* when there is none.  The one exception: a node that goes may leave a    *)
(* gap, and the next lookup of that service, but no second one, may fall   *)
(* into it.  Nothing is promised here about the order of the answers.      *)
(***************************************************************************)
EXTENDS SequencesExt

CONSTANTS
    Services,  \* names of services
    Hosts,     \* addresses of nodes
    Threads,   \* who asks
    Nothing,   \* the answer that names no node
    Garbage    \* the answer that nobody can use

VARIABLES
    nodes,   \* per declared service its nodes, the same host maybe twice
    gaps,    \* the services with a gap
    answer   \* per thread, the last answer it was given

dvars == <<nodes, gaps, answer>>

Init == /\ nodes = [s \in {} |-> <<>>]
        /\ gaps = {}
        /\ answer = [t \in Threads |-> Nothing]

\* A service that is known already keeps its nodes.
Declare(s) ==
    /\ s \notin DOMAIN nodes
    /\ nodes' = [x \in DOMAIN nodes \cup {s} |->
                   IF x \in DOMAIN nodes THEN nodes[x] ELSE <<>>]
    /\ UNCHANGED <<gaps, answer>>

\* A node that comes may fill the gap.
Come(s, h) ==
    /\ s \in DOMAIN nodes
    /\ nodes' = [nodes EXCEPT ![s] = Append(@, h)]
    /\ gaps' \in {gaps, gaps \ {s}}
    /\ UNCHANGED answer

\* A node that goes may leave one.
Go(s) ==
    /\ s \in DOMAIN nodes
    /\ \E i \in 1 .. Len(nodes[s]) :
         nodes' = [nodes EXCEPT ![s] = RemoveAt(@, i)]
    /\ gaps' \in {gaps, gaps \cup {s}}
    /\ UNCHANGED answer

Answer(t, s) ==
    /\ s \in DOMAIN nodes /\ s \notin gaps
    /\ \E i \in 1 .. Len(nodes[s]) : answer' = [answer EXCEPT ![t] = nodes[s][i]]
    /\ UNCHANGED <<nodes, gaps>>

Miss(t, s) ==
    /\ s \in gaps /\ nodes[s] # <<>>
    /\ \E r \in {Nothing, Garbage} : answer' = [answer EXCEPT ![t] = r]
    /\ gaps' = gaps \ {s}
    /\ UNCHANGED nodes

NoneThere(t, s) ==
    /\ s \in DOMAIN nodes => nodes[s] = <<>>
    /\ answer' = [answer EXCEPT ![t] = Nothing]
    /\ UNCHANGED <<nodes, gaps>>

Next == \E s \in Services :
          \/ Declare(s) \/ Go(s)
          \/ \E h \in Hosts : Come(s, h)
          \/ \E t \in Threads : Answer(t, s) \/ Miss(t, s) \/ NoneThere(t, s)

Spec == Init /\ [][Next]_dvars
=============================================================================
