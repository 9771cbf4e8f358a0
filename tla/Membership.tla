----------------------------- MODULE Membership -----------------------------
(***************************************************************************)
(* What class Registry of etcd.cc promises, together with etcd, to those   *)
(* who look for instances of a service.  Who has joined is shown from then *)
(* on, until it goes or something breaks.  One accident takes one instance *)
(* out of sight, which then joins again; nothing else does.  Who is not in *)
(* may still be shown for a while, or already, and who is gone does not    *)
(* come back.                                                              *)
(***************************************************************************)
EXTENDS Naturals

CONSTANT Instances

VARIABLES
    shown,     \* the instances that can be found
    standing,  \* per instance, whether it is out, joining, in, or gone
    accidents  \* how often something broke so far

mvars == <<shown, standing, accidents>>

Init == /\ shown = {}
        /\ standing = [p \in Instances |-> "out"]
        /\ accidents = 0

Becomes(p, s) == standing' = [standing EXCEPT ![p] = s]

Asks(p) ==
    /\ standing[p] = "out" /\ Becomes(p, "joining")
    /\ UNCHANGED <<shown, accidents>>

Shows(p) ==
    /\ standing[p] = "joining" /\ shown' = shown \cup {p}
    /\ UNCHANGED <<standing, accidents>>

Joins(p) ==
    /\ standing[p] = "joining" /\ p \in shown /\ Becomes(p, "in")
    /\ UNCHANGED <<shown, accidents>>

\* What was asked for cannot be had.
GivesUp(p) ==
    /\ standing[p] = "joining" /\ Becomes(p, "out")
    /\ UNCHANGED <<shown, accidents>>

Goes(p) ==
    /\ standing[p] # "gone" /\ Becomes(p, "gone")
    /\ UNCHANGED <<shown, accidents>>

\* Nobody who is in disappears without an accident.
Fades(p) ==
    /\ standing[p] # "in" /\ shown' = shown \ {p}
    /\ UNCHANGED <<standing, accidents>>

\* An accident makes p join again, with or without a trace of its having been
\* in; or makes it give up, perhaps although it is shown by now.
Accident(p) ==
    /\ accidents' = accidents + 1
    /\ \/ /\ standing[p] \in {"in", "joining"} /\ Becomes(p, "joining")
          /\ shown' \in {shown, shown \ {p}}
       \/ /\ standing[p] = "joining" /\ Becomes(p, "out")
          /\ shown' \in {shown, shown \cup {p}}

Next == \E p \in Instances :
          \/ Asks(p) \/ Shows(p) \/ Joins(p) \/ GivesUp(p) \/ Goes(p)
          \/ Fades(p) \/ Accident(p)

Spec == Init /\ [][Next]_mvars
=============================================================================
