--------------------------- MODULE MCRequestTree ---------------------------
(* RequestTree for TLC; its constants have their values in the cfgs.       *)
EXTENDS RequestTree
=============================================================================
