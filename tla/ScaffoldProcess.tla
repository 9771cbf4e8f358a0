---- MODULE ScaffoldProcess ----
(***************************************************************************)
(* One process of the scaffold: threads that make calls to the libraries   *)
(* and that ask for ids at any time.                                       *)
(***************************************************************************)
EXTENDS Calls, Identifiers

ProcessVars == <<vars, ids>>

ProcessInit == Init /\ IdsInit

ProcessNext == \/ Next /\ UNCHANGED ids
               \/ up /\ TakeNumber /\ UNCHANGED vars

ProcessSpec == ProcessInit /\ [][ProcessNext]_ProcessVars

====
