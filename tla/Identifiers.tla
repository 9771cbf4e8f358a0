---------------------------- MODULE Identifiers ----------------------------
(***************************************************************************)
(* The ids that Util::get_uuid() makes (util.cc): random characters and,   *)
(* when more than six are asked for, a number from a counter of the whole  *)
(* process, an atomic byte.  Nothing is assumed of the random part, so     *)
(* that two ids with the same number may be equal; ids of six characters   *)
(* and less have no number and may always be equal.                        *)
(***************************************************************************)
EXTENDS Integers, SequencesExt

CONSTANT Width      \* how many values the byte has, 256 in the code

ASSUME IdentifiersAssumption == Width \in Nat \ {0}

VARIABLES
    number_base,    \* the counter
    recent          \* history: the numbers of the last Width ids

ids == <<number_base, recent>>

IdsInit == number_base = 0 /\ recent = <<>>

Remember(n) == recent' = Append(IF Len(recent) < Width THEN recent ELSE Tail(recent), n)

\* Mutant of TakeNumber: the byte is read and written in two steps, so that
\* the increment of another thread may be lost.
TakeNumberRacing ==
    /\ Remember(number_base)
    /\ number_base' \in {number_base, (number_base + 1) % Width}

\* fetch_add(1), which wraps.
TakeNumber == /\ Remember(number_base)
              /\ number_base' = (number_base + 1) % Width

-----------------------------------------------------------------------------
\* Of any Width ids in a row that are longer than six characters, made by any
\* threads, no two are equal, across the wrap of the counter too
\* (util.cc:59, 80-85; the keys of etcd.cc:11 hang on it).
RecentIdsDiffer == IsInjective(recent)
=============================================================================
