-------------------------- MODULE RequestDocument --------------------------
(***************************************************************************)
(* What the builders of elastic.h promise to who writes a request with     *)
(* them: the request is one JSON document, each call writes values into    *)
(* one object of it, and nothing written before is lost.  A part that has  *)
(* nothing yet is null; once something is written below it, it is not.  A  *)
(* caller that uses one key of an object for two things (a value and a     *)
(* child, an object and an array) is promised nothing from then on.        *)
(***************************************************************************)
EXTENDS Naturals, SequencesExt

CONSTANT Null    \* the leaf of a part that has nothing

VARIABLES
    doc,    \* the leaves of the document, each a path and the value there
    mixed   \* whether a key was used for two things

\* A path has one leaf, and no leaf has others below it.
IsDocument == \A l, m \in doc : IsPrefix(l.path, m.path) => l = m

\* A value is still one; a part that was null is there, with or without values.
Remains(l) == \E m \in doc' : IF l.value = Null THEN IsPrefix(l.path, m.path)
                              ELSE l.path = m.path /\ m.value # Null

NewValues == {l \in doc' \ doc : l.value # Null}

Init == doc = {[path |-> <<>>, value |-> Null]} /\ mixed = FALSE

Write == /\ ~mixed /\ ~mixed'
         /\ \A l \in doc : Remains(l)
         /\ IsDocument'
         /\ \A l, m \in NewValues : Front(l.path) = Front(m.path)

Mix == mixed'

Next == Write \/ Mix

Spec == Init /\ [][Next]_<<doc, mixed>>
=============================================================================
