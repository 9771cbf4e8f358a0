------------------------ MODULE RequestTree_proofs ------------------------
(***************************************************************************)
(* Proofs about RequestTree, for any number of elements, names, fields and *)
(* values: the elements are a tree, unless a key is used for two things    *)
(* everything that was written is part of the request, and the tree        *)
(* implements the document of RequestDocument.                             *)
(***************************************************************************)
EXTENDS RequestTree, SequenceTheorems, WellFoundedInduction, TLAPS

Keys == Names \cup Fields \cup {NoField} \cup
        {"", "index", "settings", "mapping", "analysis", "analyzer", "properties", "query",
         "bool", "must", "should", "must_not", "doc", "term", "terms", "match", "multi_match",
         "range", "tokenizer", "type", "fields", "gt", "lt", "minimum_should_match"}
Classes == Arrays \cup Clauses \cup
           {"Indexer", "Inserter", "Updater", "Searcher", "Settings", "Mapping", "Analysis",
            "Analyzer", "Properties", "Tokenizer", "Field", "Query", "QBool", "Object"}
Functions(S) == UNION {[K -> S] : K \in SUBSET Keys}
Value == {v \in [list : BOOLEAN, of : Seq(Values)] : v.list \/ Len(v.of) = 1}
Element == [class : Classes, key : Keys, field : Fields \cup {NoField},
            subs : Functions(Nat) \cup Seq(Nat), own : Functions(Value)]

\* The shape of the elements, as a sequence.
Shaped(es) ==
    /\ es \in Seq(Element)
    /\ \A n \in DOMAIN es :
         /\ es[n].subs \in IF es[n].class \in Arrays THEN Seq(Nat) ELSE Functions(Nat)
         /\ \A k \in DOMAIN es[n].subs : es[n].subs[k] \in 1 .. Len(es)
         /\ es[n].class = "Range" => n < Len(es) /\ es[n + 1].class = "Object"

\* Elements are added, and those that were there keep their class.
Grows(es, fs) == /\ Len(es) <= Len(fs)
                 /\ \A n \in DOMAIN es : fs[n].class = es[n].class

\* Elements are added, those that were there keep their children and values, and
\* only element a may have been given values.
Kept(es, fs, a) ==
    /\ Len(es) <= Len(fs)
    /\ \A n \in DOMAIN es :
         /\ fs[n].class = es[n].class
         /\ \A k \in DOMAIN es[n].subs :
              k \in DOMAIN fs[n].subs /\ fs[n].subs[k] = es[n].subs[k]
         /\ DOMAIN es[n].own \subseteq DOMAIN fs[n].own
         /\ n # a => fs[n].own = es[n].own
    /\ \A n \in DOMAIN fs : n > Len(es) /\ n # a => DOMAIN fs[n].own = {}

\* A call that is in progress.
Sound(c) == /\ c = [elements |-> c.elements, at |-> c.at, mixed |-> c.mixed]
            /\ Shaped(c.elements) /\ TreeOf(c.elements)
            /\ c.at \in DOMAIN c.elements
            /\ c.mixed \in BOOLEAN
            /\ c.mixed \/ AllSent(c.elements)

\* A call c that has got on to d, where it found or made an element of a class,
\* and may have written into it.
Reaches(c, d, class) == /\ Sound(d) /\ Grows(c.elements, d.elements)
                        /\ IsA(d.elements[d.at].class, class)
                        /\ c.mixed => d.mixed
                        /\ d.mixed \/ Kept(c.elements, d.elements, d.at)

\* The same, but nothing was written.
Passes(c, d, class) == /\ Reaches(c, d, class)
                       /\ d.mixed \/ Kept(c.elements, d.elements, 0)

\* An element as a constructor makes it.
IsFresh(e) == e \in Element /\ e.subs = <<>> /\ e.own \in Functions(Value)
              /\ (e.class # "Tokenizer" => DOMAIN e.own = {})
              /\ (e.class = "Range" => e.field \in Fields)

-----------------------------------------------------------------------------
\* The empty function has no key and is also the empty sequence.
LEMMA EmptyFunction == ASSUME NEW S
                       PROVE  <<>> \in Functions(S) /\ <<>> \in Seq(S) /\ DOMAIN <<>> = {}
<1>1. <<>> \in [{} -> S] /\ {} \in SUBSET Keys
  OBVIOUS
<1>2. <<>> \in Seq(S) /\ DOMAIN <<>> = {}
  OBVIOUS
<1> QED BY ONLY <1>1, <1>2, Zenon DEF Functions

\* A function with a key set is a function on one key more.
LEMMA SetKey ==
    ASSUME NEW S, NEW f \in Functions(S), NEW k \in Keys, NEW v \in S
    PROVE  With(f, k, v) \in Functions(S)
<1>1. PICK K \in SUBSET Keys : f \in [K -> S]
  BY DEF Functions
<1>2. With(f, k, v) \in [K \cup {k} -> S] /\ K \cup {k} \in SUBSET Keys
  BY <1>1 DEF With
<1> QED BY ONLY <1>2, Zenon DEF Functions

\* The positions of a sequence.
LEMMA SequenceDomain == ASSUME NEW S, NEW s \in Seq(S) PROVE DOMAIN s = 1 .. Len(s)
OBVIOUS

\* Sequences: a changed item, and one more.
LEMMA SequenceFacts ==
    ASSUME NEW S, NEW s \in Seq(S), NEW x \in S
    PROVE  /\ Len(s) \in Nat /\ DOMAIN s = 1 .. Len(s)
           /\ Append(s, x) \in Seq(S) /\ Len(Append(s, x)) = Len(s) + 1
           /\ Append(s, x)[Len(s) + 1] = x
           /\ \A i \in 1 .. Len(s) : Append(s, x)[i] = s[i]
           /\ \A p \in 1 .. Len(s) :
                /\ [s EXCEPT ![p] = x] \in Seq(S) /\ Len([s EXCEPT ![p] = x]) = Len(s)
                /\ [s EXCEPT ![p] = x][p] = x
                /\ \A i \in 1 .. Len(s) : i # p => [s EXCEPT ![p] = x][i] = s[i]
<1>1. ASSUME NEW p \in 1 .. Len(s)
      PROVE  /\ [s EXCEPT ![p] = x] \in Seq(S) /\ Len([s EXCEPT ![p] = x]) = Len(s)
             /\ [s EXCEPT ![p] = x][p] = x
             /\ \A i \in 1 .. Len(s) : i # p => [s EXCEPT ![p] = x][i] = s[i]
  OBVIOUS
<1> QED BY <1>1

\* The parent of a new element: it has one more child, at a place that was
\* free or another child's.
Adopts(old, new, key, n) ==
    /\ new.class = old.class /\ new.key = old.key /\ new.field = old.field /\ new.own = old.own
    /\ new.subs \in IF old.class \in Arrays THEN Seq(Nat) ELSE Functions(Nat)
    /\ \E k : /\ DOMAIN new.subs = DOMAIN old.subs \cup {k}
              /\ new.subs[k] = n
              /\ \A l \in DOMAIN old.subs : l # k => new.subs[l] = old.subs[l]
              /\ IF old.class \in Arrays THEN k \notin DOMAIN old.subs ELSE k = key

\* addElement() leaves all other elements alone.
LEMMA LinkedIs ==
    ASSUME NEW es, Shaped(es), NEW p \in DOMAIN es, NEW key \in Keys, NEW n \in Nat
    PROVE  /\ Linked(es, p, key, n) \in Seq(Element)
           /\ Len(Linked(es, p, key, n)) = Len(es)
           /\ \A i \in DOMAIN es : i # p => Linked(es, p, key, n)[i] = es[i]
           /\ Adopts(es[p], Linked(es, p, key, n)[p], key, n)
<1>1. es \in Seq(Element) /\ p \in 1 .. Len(es) /\ es[p] \in Element
  BY DEF Shaped
<1>2. PICK subs : /\ subs = IF es[p].class \in Arrays THEN Append(es[p].subs, n)
                             ELSE With(es[p].subs, key, n)
  OBVIOUS
<1>3. /\ subs \in IF es[p].class \in Arrays THEN Seq(Nat) ELSE Functions(Nat)
      /\ \E k : /\ DOMAIN subs = DOMAIN es[p].subs \cup {k}
                /\ subs[k] = n
                /\ \A l \in DOMAIN es[p].subs : l # k => subs[l] = es[p].subs[l]
                /\ IF es[p].class \in Arrays THEN k \notin DOMAIN es[p].subs ELSE k = key
  <2>1. CASE es[p].class \in Arrays
    <3>1. PICK old \in Seq(Nat) : old = es[p].subs
      BY <2>1 DEF Shaped
    <3>2. /\ subs \in Seq(Nat) /\ DOMAIN subs = DOMAIN old \cup {Len(old) + 1}
          /\ subs[Len(old) + 1] = n
          /\ \A l \in DOMAIN old : subs[l] = old[l]
          /\ Len(old) + 1 \notin DOMAIN old
      BY <1>2, <2>1, <3>1
    <3> QED BY <2>1, <3>1, <3>2
  <2>2. CASE es[p].class \notin Arrays
    <3>1. PICK old \in Functions(Nat) : old = es[p].subs
      BY <2>2 DEF Shaped
    <3>2. subs = With(old, key, n)
      BY <1>2, <2>2, <3>1
    <3>3. subs \in Functions(Nat)
      BY <3>2, SetKey
    <3>4. /\ DOMAIN subs = DOMAIN old \cup {key}
          /\ subs[key] = n
          /\ \A l \in DOMAIN old : l # key => subs[l] = old[l]
      BY <3>2 DEF With
    <3> QED BY <2>2, <3>1, <3>3, <3>4
  <2> QED BY <2>1, <2>2
<1>4. PICK new : new = [es[p] EXCEPT !.subs = subs]
  OBVIOUS
<1>5. /\ new \in Element /\ new.subs = subs
      /\ new.class = es[p].class /\ new.key = es[p].key
      /\ new.field = es[p].field /\ new.own = es[p].own
  BY <1>1, <1>3, <1>4 DEF Element
<1>6. Linked(es, p, key, n) = [es EXCEPT ![p] = new]
  BY <1>2, <1>4 DEF Linked
<1>7. /\ Linked(es, p, key, n) \in Seq(Element) /\ Len(Linked(es, p, key, n)) = Len(es)
      /\ Linked(es, p, key, n)[p] = new
      /\ \A i \in 1 .. Len(es) : i # p => Linked(es, p, key, n)[i] = es[i]
  BY <1>1, <1>5, <1>6, SequenceFacts
<1>8. Adopts(es[p], new, key, n)
  BY ONLY <1>3, <1>5 DEF Adopts
<1>9. DOMAIN es = 1 .. Len(es)
  BY <1>1
<1> QED BY ONLY <1>7, <1>8, <1>9

\* A constructor makes an element without children.
LEMMA FreshIs ==
    ASSUME NEW class \in Classes, NEW key \in Keys, NEW field \in Fields \cup {NoField},
           class = "Range" => field \in Fields
    PROVE  /\ IsFresh(Fresh(class, key, field))
           /\ Fresh(class, key, field).class = class
           /\ Fresh(class, key, field).key = key
           /\ Fresh(class, key, field).field = field
<1>1. PICK own : own = IF class = "Tokenizer"
                       THEN [tokenizer |-> Scalar(Default), type |-> Scalar(Default)] ELSE <<>>
  OBVIOUS
<1>2. Scalar(Default) \in Value
  BY RequestAssumption DEF Scalar, Value
<1>3. own \in Functions(Value) /\ (class # "Tokenizer" => DOMAIN own = {})
  <2>1. CASE class = "Tokenizer"
    <3>1. own \in [{"tokenizer", "type"} -> Value]
      BY <1>1, <1>2, <2>1
    <3>2. {"tokenizer", "type"} \in SUBSET Keys
      <4>1. "tokenizer" \in Keys /\ "type" \in Keys
        BY DEF Keys
      <4> QED BY <4>1, Zenon
    <3> QED BY ONLY <2>1, <3>1, <3>2, Zenon DEF Functions
  <2>2. CASE class # "Tokenizer"
    BY <1>1, <2>2, EmptyFunction
  <2> QED BY <2>1, <2>2
<1>4. <<>> \in Functions(Nat)
  BY EmptyFunction
<1>5. Fresh(class, key, field) = [class |-> class, key |-> key, field |-> field,
                                  subs |-> <<>>, own |-> own]
  BY <1>1 DEF Fresh
<1>6. /\ Fresh(class, key, field) \in Element
      /\ Fresh(class, key, field).class = class /\ Fresh(class, key, field).key = key
      /\ Fresh(class, key, field).field = field /\ Fresh(class, key, field).subs = <<>>
      /\ Fresh(class, key, field).own = own
  BY <1>3, <1>4, <1>5 DEF Element
<1> QED BY <1>3, <1>6 DEF IsFresh, Arrays, QArrays

\* A new element, and the part that comes with a range.
LEMMA AddedIs ==
    ASSUME NEW es, Shaped(es), NEW p \in DOMAIN es, NEW e, IsFresh(e)
    PROVE  /\ Added(es, p, e) \in Seq(Element)
           /\ Len(Added(es, p, e)) = Len(es) + (IF e.class = "Range" THEN 2 ELSE 1)
           /\ \A i \in DOMAIN es : i # p => Added(es, p, e)[i] = es[i]
           /\ Adopts(es[p], Added(es, p, e)[p], e.key, Len(es) + 1)
           /\ LET new == Added(es, p, e)[Len(es) + 1]
              IN /\ new.class = e.class /\ new.key = e.key /\ new.own = e.own
                 /\ e.class # "Range" => new.subs = <<>>
                 /\ e.class = "Range" =>
                      /\ new.subs = With(<<>>, e.field, Len(es) + 2)
                      /\ Added(es, p, e)[Len(es) + 2] = Fresh("Object", e.field, NoField)
<1>1. /\ e \in Element /\ e.key \in Keys /\ Len(es) \in Nat /\ DOMAIN es = 1 .. Len(es)
      /\ e.subs = <<>>
  BY DEF IsFresh, Element, Shaped
<1>2. PICK ls : ls = Linked(es, p, e.key, Len(es) + 1)
  OBVIOUS
<1>3. /\ ls \in Seq(Element) /\ Len(ls) = Len(es)
      /\ \A i \in DOMAIN es : i # p => ls[i] = es[i]
      /\ Adopts(es[p], ls[p], e.key, Len(es) + 1)
  <2>1. Len(es) + 1 \in Nat
    BY <1>1
  <2> QED BY ONLY Shaped(es), p \in DOMAIN es, <1>1, <1>2, <2>1, LinkedIs
<1>4. CASE e.class # "Range"
  <2>1. Added(es, p, e) = Append(ls, e)
    BY <1>2, <1>4 DEF Added
  <2> QED BY <1>1, <1>3, <1>4, <2>1, SequenceFacts
<1>5. CASE e.class = "Range"
  <2>1. e.field \in Keys /\ e.field \in Fields
    BY <1>5 DEF IsFresh, Keys
  <2>2. PICK subs : subs = With(<<>>, e.field, Len(es) + 2)
    OBVIOUS
  <2>3. subs \in Functions(Nat)
    <3>1. <<>> \in Functions(Nat)
      BY EmptyFunction
    <3>2. Len(es) + 2 \in Nat
      BY <1>1
    <3> QED BY ONLY <2>1, <2>2, <3>1, <3>2, SetKey
  <2>4. PICK r : r = [e EXCEPT !.subs = subs]
    OBVIOUS
  <2>5. r \in Element /\ r.class = e.class /\ r.key = e.key /\ r.own = e.own /\ r.subs = subs
    BY <1>1, <2>3, <2>4 DEF Element
  <2>6. PICK o \in Element : o = Fresh("Object", e.field, NoField)
    <3>1. IsFresh(Fresh("Object", e.field, NoField))
      <4>1. "Object" \in Classes /\ "Object" # "Range"
        BY DEF Classes
      <4>2. e.field \in Keys /\ NoField \in Fields \cup {NoField}
        BY <2>1
      <4> QED BY ONLY <4>1, <4>2, FreshIs, Zenon
    <3> QED BY <3>1 DEF IsFresh
  <2>7. Added(es, p, e) = Append(Append(ls, r), o)
    <3>1. (Len(es) + 1) + 1 = Len(es) + 2
      BY <1>1
    <3> QED BY <1>1, <1>2, <1>5, <2>2, <2>4, <2>6, <3>1 DEF Added
  <2>8. PICK qs : qs = Append(ls, r)
    OBVIOUS
  <2>9. /\ qs \in Seq(Element) /\ Len(qs) = Len(es) + 1 /\ qs[Len(es) + 1] = r
        /\ \A i \in DOMAIN es : qs[i] = ls[i]
    BY <1>1, <1>3, <2>5, <2>8, SequenceFacts
  <2>10. /\ Append(qs, o) \in Seq(Element) /\ Len(Append(qs, o)) = Len(es) + 2
         /\ Append(qs, o)[Len(es) + 2] = o
         /\ \A i \in 1 .. Len(es) + 1 : Append(qs, o)[i] = qs[i]
    BY <1>1, <2>6, <2>9, SequenceFacts
  <2> QED BY <1>1, <1>3, <1>5, <2>2, <2>5, <2>6, <2>7, <2>8, <2>9, <2>10
<1> QED BY <1>4, <1>5

\* What AddedIs says of the children of each element: the old ones, the new
\* element under its parent, and the object of a range under the range.
LEMMA AddedChildren ==
    ASSUME NEW es, Shaped(es), NEW p \in DOMAIN es, NEW e, IsFresh(e)
    PROVE  /\ DOMAIN es = 1 .. Len(es) /\ Len(es) \in Nat /\ p \in 1 .. Len(es)
           /\ DOMAIN Added(es, p, e) = 1 .. Len(es) + (IF e.class = "Range" THEN 2 ELSE 1)
           /\ \A i \in 1 .. Len(es) : /\ Added(es, p, e)[i].class = es[i].class
                                      /\ Added(es, p, e)[i].key = es[i].key
                                      /\ Added(es, p, e)[i].own = es[i].own
           /\ \A i \in 1 .. Len(es) : i # p => Added(es, p, e)[i].subs = es[i].subs
           /\ \E k : /\ DOMAIN Added(es, p, e)[p].subs = DOMAIN es[p].subs \cup {k}
                     /\ Added(es, p, e)[p].subs[k] = Len(es) + 1
                     /\ \A l \in DOMAIN es[p].subs :
                          l # k => Added(es, p, e)[p].subs[l] = es[p].subs[l]
                     /\ IF es[p].class \in Arrays THEN k \notin DOMAIN es[p].subs ELSE k = e.key
           /\ Added(es, p, e)[Len(es) + 1].class = e.class
           /\ Added(es, p, e)[Len(es) + 1].key = e.key
           /\ Added(es, p, e)[Len(es) + 1].own = e.own
           /\ e.class # "Range" => DOMAIN Added(es, p, e)[Len(es) + 1].subs = {}
           /\ e.class = "Range" =>
                /\ e.field \in Keys
                /\ DOMAIN Added(es, p, e)[Len(es) + 1].subs = {e.field}
                /\ Added(es, p, e)[Len(es) + 1].subs[e.field] = Len(es) + 2
                /\ Added(es, p, e)[Len(es) + 2].class = "Object"
                /\ Added(es, p, e)[Len(es) + 2].key = e.field
                /\ DOMAIN Added(es, p, e)[Len(es) + 2].subs = {}
                /\ DOMAIN Added(es, p, e)[Len(es) + 2].own = {}
<1> DEFINE as == Added(es, p, e)
           n == Len(es) + 1
<1>1. /\ DOMAIN es = 1 .. Len(es) /\ Len(es) \in Nat /\ p \in 1 .. Len(es)
  BY DEF Shaped
<1>2. /\ as \in Seq(Element)
      /\ Len(as) = Len(es) + (IF e.class = "Range" THEN 2 ELSE 1)
      /\ \A i \in DOMAIN es : i # p => as[i] = es[i]
      /\ Adopts(es[p], as[p], e.key, n)
      /\ as[n].class = e.class /\ as[n].key = e.key /\ as[n].own = e.own
      /\ e.class # "Range" => as[n].subs = <<>>
      /\ e.class = "Range" => /\ as[n].subs = With(<<>>, e.field, Len(es) + 2)
                              /\ as[Len(es) + 2] = Fresh("Object", e.field, NoField)
  BY AddedIs
<1> HIDE DEF as
<1>3. DOMAIN as = 1 .. Len(es) + (IF e.class = "Range" THEN 2 ELSE 1)
  <2>1. as \in Seq(Element)
    BY <1>2
  <2>2. DOMAIN as = 1 .. Len(as)
    BY ONLY <2>1, SequenceDomain
  <2>3. Len(as) = Len(es) + (IF e.class = "Range" THEN 2 ELSE 1)
    BY <1>2
  <2> QED BY ONLY <2>2, <2>3
<1>4. /\ as[p].class = es[p].class /\ as[p].key = es[p].key /\ as[p].own = es[p].own
      /\ \E k : /\ DOMAIN as[p].subs = DOMAIN es[p].subs \cup {k}
                /\ as[p].subs[k] = n
                /\ \A l \in DOMAIN es[p].subs : l # k => as[p].subs[l] = es[p].subs[l]
                /\ IF es[p].class \in Arrays THEN k \notin DOMAIN es[p].subs ELSE k = e.key
  BY <1>2 DEF Adopts
<1>5. \A i \in 1 .. Len(es) : /\ as[i].class = es[i].class
                              /\ as[i].key = es[i].key /\ as[i].own = es[i].own
                              /\ i # p => as[i].subs = es[i].subs
  BY <1>1, <1>2, <1>4
<1>6. e.class # "Range" => DOMAIN as[n].subs = {}
  BY <1>2, EmptyFunction
<1>7. ASSUME e.class = "Range"
      PROVE  /\ e.field \in Keys
             /\ DOMAIN as[n].subs = {e.field} /\ as[n].subs[e.field] = Len(es) + 2
             /\ as[Len(es) + 2].class = "Object" /\ as[Len(es) + 2].key = e.field
             /\ DOMAIN as[Len(es) + 2].subs = {} /\ DOMAIN as[Len(es) + 2].own = {}
  <2>1. e.field \in Keys
    BY <1>7 DEF IsFresh, Keys
  <2>2. /\ DOMAIN as[n].subs = {e.field} /\ as[n].subs[e.field] = Len(es) + 2
    BY <1>2, <1>7, EmptyFunction DEF With
  <2>3. as[Len(es) + 2] = [class |-> "Object", key |-> e.field, field |-> NoField,
                           subs |-> <<>>, own |-> <<>>]
    BY <1>2, <1>7 DEF Fresh
  <2> QED BY <2>1, <2>2, <2>3, EmptyFunction
<1> QED BY <1>1, <1>2, <1>3, <1>4, <1>5, <1>6, <1>7 DEF as

\* The elements keep their shape.
LEMMA AddedShaped ==
    ASSUME NEW es, Shaped(es), NEW p \in DOMAIN es, NEW e, IsFresh(e)
    PROVE  Shaped(Added(es, p, e)) /\ Grows(es, Added(es, p, e))
<1> DEFINE N == Len(es)
           r == IF e.class = "Range" THEN 2 ELSE 1
<1>1. PICK as : as = Added(es, p, e)
  OBVIOUS
<1>2. as \in Seq(Element) /\ Len(as) = N + r /\ N \in Nat /\ DOMAIN as = 1 .. N + r
  BY <1>1, AddedIs, AddedChildren DEF Shaped
<1>3. ASSUME NEW i \in 1 .. N
      PROVE  /\ as[i].subs \in IF as[i].class \in Arrays THEN Seq(Nat) ELSE Functions(Nat)
             /\ \A k \in DOMAIN as[i].subs : as[i].subs[k] \in 1 .. N + r
             /\ as[i].class = "Range" => i < N + r /\ as[i + 1].class = "Object"
  <2>1. /\ as[i].class = es[i].class
        /\ es[i].subs \in IF es[i].class \in Arrays THEN Seq(Nat) ELSE Functions(Nat)
        /\ \A k \in DOMAIN es[i].subs : es[i].subs[k] \in 1 .. N
        /\ es[i].class = "Range" => i < N /\ es[i + 1].class = "Object"
    BY <1>1, AddedChildren DEF Shaped
  <2>2. as[i].class = "Range" => i < N + r /\ as[i + 1].class = "Object"
    <3>1. i < N => i + 1 \in 1 .. N
      BY <1>2
    <3> QED BY <1>1, <1>2, <2>1, <3>1, AddedChildren
  <2>3. N <= N + r /\ N + 1 <= N + r /\ 1 .. N \subseteq 1 .. N + r /\ N + 1 \in 1 .. N + r
    BY <1>2
  <2>4. CASE i # p
    <3>1. as[i].subs = es[i].subs
      BY <1>1, <2>4, AddedChildren
    <3> QED BY ONLY <2>1, <2>2, <2>3, <3>1
  <2>5. CASE i = p
    <3>1. as[i].subs \in IF as[i].class \in Arrays THEN Seq(Nat) ELSE Functions(Nat)
      BY <1>1, <2>1, <2>5, AddedIs DEF Adopts
    <3>2. \A k \in DOMAIN as[i].subs :
            \/ as[i].subs[k] = N + 1
            \/ k \in DOMAIN es[i].subs /\ as[i].subs[k] = es[i].subs[k]
      BY <1>1, <2>5, AddedChildren
    <3> QED BY ONLY <2>1, <2>2, <2>3, <3>1, <3>2
  <2> QED BY <2>4, <2>5
<1>4. /\ as[N + 1].subs \in IF as[N + 1].class \in Arrays THEN Seq(Nat) ELSE Functions(Nat)
      /\ \A k \in DOMAIN as[N + 1].subs : as[N + 1].subs[k] \in 1 .. N + r
      /\ as[N + 1].class = "Range" => N + 1 < N + r /\ as[N + 2].class = "Object"
  <2>1. CASE e.class # "Range"
    <3>1. as[N + 1].subs = <<>> /\ as[N + 1].class # "Range"
      BY <1>1, <2>1, AddedIs
    <3>2. <<>> \in Functions(Nat) /\ <<>> \in Seq(Nat) /\ DOMAIN <<>> = {}
      BY EmptyFunction
    <3> QED BY ONLY <3>1, <3>2
  <2>2. CASE e.class = "Range"
    <3>1. as[N + 1].subs = With(<<>>, e.field, N + 2) /\ as[N + 1].class = "Range"
      BY <1>1, <2>2, AddedIs
    <3>2. e.field \in Keys
      BY <2>2 DEF IsFresh, Keys
    <3>3. <<>> \in Functions(Nat)
      BY EmptyFunction
    <3>4. N + 2 \in Nat
      BY <1>2
    <3>5. as[N + 1].subs \in Functions(Nat)
      BY ONLY <3>1, <3>2, <3>3, <3>4, SetKey
    <3>6. "Range" \notin Arrays
      BY DEF Arrays, QArrays
    <3>7. as[N + 2].class = "Object"
      BY <1>1, <2>2, AddedChildren
    <3>8. \A k \in DOMAIN as[N + 1].subs : as[N + 1].subs[k] = N + 2
      BY <3>1 DEF With
    <3>9. r = 2 /\ N + 2 \in 1 .. N + r /\ N + 1 < N + r
      BY <1>2, <2>2
    <3> QED BY ONLY <3>1, <3>5, <3>6, <3>7, <3>8, <3>9
  <2> QED BY <2>1, <2>2
<1>5. ASSUME e.class = "Range"
      PROVE  /\ as[N + 2].subs \in Functions(Nat) /\ as[N + 2].class = "Object"
             /\ DOMAIN as[N + 2].subs = {}
  <2>1. as[N + 2] = [class |-> "Object", key |-> e.field, field |-> NoField,
                     subs |-> <<>>, own |-> <<>>]
    BY <1>1, <1>5, AddedIs DEF Fresh
  <2> QED BY <2>1, EmptyFunction
<1>6. "Object" \notin Arrays /\ "Object" # "Range"
  BY DEF Arrays, QArrays
<1>7. \A i \in 1 .. N + r : i \in 1 .. N \/ i = N + 1 \/ (e.class = "Range" /\ i = N + 2)
  BY <1>2
<1>8. Shaped(as)
  <2>1. ASSUME NEW i \in DOMAIN as
        PROVE  /\ as[i].subs \in IF as[i].class \in Arrays THEN Seq(Nat) ELSE Functions(Nat)
               /\ \A k \in DOMAIN as[i].subs : as[i].subs[k] \in 1 .. Len(as)
               /\ as[i].class = "Range" => i < Len(as) /\ as[i + 1].class = "Object"
    <3>1. CASE i \in 1 .. N
      BY <1>2, <1>3, <3>1
    <3>2. CASE i = N + 1
      <4>1. i + 1 = N + 2
        BY <1>2, <3>2
      <4> QED BY <1>2, <1>4, <3>2, <4>1
    <3>3. CASE e.class = "Range" /\ i = N + 2
      BY <1>5, <1>6, <3>3
    <3> QED BY <1>2, <1>7, <3>1, <3>2, <3>3
  <2> QED BY <1>2, <2>1 DEF Shaped
<1>9. Grows(es, as)
  BY <1>1, <1>2, AddedChildren DEF Grows
<1> QED BY <1>1, <1>8, <1>9

\* Where children are: where they were, the new element under its parent, the
\* object of a range under the range.
Edges(es, as, p, e, K) ==
    /\ es[p].class \notin Arrays => K = e.key
    /\ \A q \in DOMAIN as : \A k \in DOMAIN as[q].subs :
         \/ /\ q \in DOMAIN es /\ k \in DOMAIN es[q].subs
            /\ as[q].subs[k] = es[q].subs[k] /\ as[q].subs[k] \in 1 .. Len(es)
         \/ q = p /\ k = K /\ as[q].subs[k] = Len(es) + 1
         \/ /\ e.class = "Range" /\ q = Len(es) + 1
            /\ k = e.field /\ as[q].subs[k] = Len(es) + 2

\* Each child of each element is one of the three.
LEMMA AddedEdges ==
    ASSUME NEW es, Shaped(es), NEW p \in DOMAIN es, NEW e, IsFresh(e)
    PROVE  \E K : Edges(es, Added(es, p, e), p, e, K)
<1>1. PICK as : as = Added(es, p, e)
  OBVIOUS
<1>2. /\ DOMAIN es = 1 .. Len(es) /\ Len(es) \in Nat /\ p \in 1 .. Len(es)
      /\ DOMAIN as = 1 .. Len(es) + (IF e.class = "Range" THEN 2 ELSE 1)
      /\ \A i \in 1 .. Len(es) : i # p => as[i].subs = es[i].subs
      /\ e.class # "Range" => DOMAIN as[Len(es) + 1].subs = {}
      /\ e.class = "Range" => /\ DOMAIN as[Len(es) + 1].subs = {e.field}
                              /\ as[Len(es) + 1].subs[e.field] = Len(es) + 2
                              /\ DOMAIN as[Len(es) + 2].subs = {}
  BY <1>1, AddedChildren
<1>3. PICK K : /\ DOMAIN as[p].subs = DOMAIN es[p].subs \cup {K}
               /\ as[p].subs[K] = Len(es) + 1
               /\ \A l \in DOMAIN es[p].subs : l # K => as[p].subs[l] = es[p].subs[l]
               /\ IF es[p].class \in Arrays THEN K \notin DOMAIN es[p].subs ELSE K = e.key
  BY <1>1, AddedChildren
<1>4. \A q \in 1 .. Len(es) : \A k \in DOMAIN es[q].subs : es[q].subs[k] \in 1 .. Len(es)
  BY <1>2 DEF Shaped
<1>5. ASSUME NEW q \in DOMAIN as, NEW k \in DOMAIN as[q].subs
      PROVE  \/ /\ q \in DOMAIN es /\ k \in DOMAIN es[q].subs
                /\ as[q].subs[k] = es[q].subs[k] /\ as[q].subs[k] \in 1 .. Len(es)
             \/ q = p /\ k = K /\ as[q].subs[k] = Len(es) + 1
             \/ /\ e.class = "Range" /\ q = Len(es) + 1
                /\ k = e.field /\ as[q].subs[k] = Len(es) + 2
  <2>1. q \in 1 .. Len(es) \/ q = Len(es) + 1 \/ (e.class = "Range" /\ q = Len(es) + 2)
    BY <1>2
  <2>2. CASE q = p
    BY <1>2, <1>3, <1>4, <2>2
  <2>3. CASE q \in 1 .. Len(es) /\ q # p
    BY <1>2, <1>4, <2>3
  <2>4. CASE q = Len(es) + 1
    BY <1>2, <2>4
  <2>5. CASE e.class = "Range" /\ q = Len(es) + 2
    BY <1>2, <2>5
  <2> QED BY <2>1, <2>2, <2>3, <2>4, <2>5
<1>6. Edges(es, as, p, e, K)
  BY <1>3, <1>5 DEF Edges
<1> QED BY <1>1, <1>6

\* The elements stay a tree.
LEMMA AddedTree ==
    ASSUME NEW es, Shaped(es), TreeOf(es), NEW p \in DOMAIN es, NEW e, IsFresh(e)
    PROVE  TreeOf(Added(es, p, e))
<1>1. PICK as : as = Added(es, p, e)
  OBVIOUS
<1>2. PICK N : N = Len(es)
  OBVIOUS
<1>3. DOMAIN es = 1 .. N /\ N \in Nat /\ p \in 1 .. N
  BY <1>2, AddedChildren
<1>4. \A i \in 1 .. N : as[i].class = es[i].class /\ as[i].key = es[i].key
  BY <1>1, <1>2, AddedChildren
<1>5. as[N + 1].class = e.class /\ as[N + 1].key = e.key
  BY <1>1, <1>2, AddedChildren
<1>6. e.class = "Range" => as[N + 2].key = e.field
  BY <1>1, <1>2, AddedChildren
<1>7. PICK K : Edges(es, as, p, e, K)
  BY ONLY Shaped(es), p \in DOMAIN es, IsFresh(e), <1>1, AddedEdges
<1> DEFINE Old(q, k, m) == /\ q \in 1 .. N /\ k \in DOMAIN es[q].subs
                           /\ m = es[q].subs[k] /\ m \in 1 .. N
           New(q, k, m) == q = p /\ k = K /\ m = N + 1
           Part(q, k, m) == e.class = "Range" /\ q = N + 1 /\ k = e.field /\ m = N + 2
<1>8. ASSUME NEW q \in DOMAIN as, NEW k \in DOMAIN as[q].subs, NEW m, m = as[q].subs[k]
      PROVE  Old(q, k, m) \/ New(q, k, m) \/ Part(q, k, m)
  BY ONLY <1>2, <1>3, <1>7, <1>8 DEF Edges
<1>9. ASSUME NEW q, NEW k, NEW m, Old(q, k, m)
      PROVE  /\ m > q
             /\ as[q].class \notin Arrays => as[m].key = k
             /\ \A i, l : Old(i, l, m) => q = i /\ k = l
  BY <1>3, <1>4, <1>9 DEF TreeOf
<1>10. ASSUME NEW q, NEW k, NEW m, New(q, k, m)
       PROVE  m > q /\ (as[q].class \notin Arrays => as[m].key = k)
  <2>1. N + 1 > p
    BY <1>3
  <2>2. q = p /\ m = N + 1 /\ k = K
    BY <1>10
  <2>3. as[p].class = es[p].class
    BY <1>3, <1>4
  <2>4. es[p].class \notin Arrays => K = e.key
    BY <1>7 DEF Edges
  <2> QED BY ONLY <1>5, <2>1, <2>2, <2>3, <2>4
<1>11. ASSUME NEW q, NEW k, NEW m, Part(q, k, m)
       PROVE  m > q /\ as[m].key = k
  <2>1. N + 2 > N + 1
    BY <1>3
  <2>2. e.class = "Range" /\ q = N + 1 /\ m = N + 2 /\ k = e.field
    BY <1>11
  <2> QED BY ONLY <1>6, <2>1, <2>2
<1>12. ASSUME NEW q, NEW k, NEW m, Old(q, k, m) \/ New(q, k, m) \/ Part(q, k, m),
              NEW i, NEW l, Old(i, l, m) \/ New(i, l, m) \/ Part(i, l, m)
       PROVE  q = i /\ k = l
  <2>1. CASE Old(q, k, m) /\ Old(i, l, m)
    BY ONLY <1>9, <2>1
  <2>2. CASE ~(Old(q, k, m) /\ Old(i, l, m))
    BY ONLY <1>3, <1>12, <2>2
  <2> QED BY ONLY <2>1, <2>2
<1> HIDE DEF Old, New, Part
<1>13. ASSUME NEW q \in DOMAIN as, NEW k \in DOMAIN as[q].subs
       PROVE  /\ as[q].subs[k] > q
              /\ as[q].class \notin Arrays => as[as[q].subs[k]].key = k
              /\ \A i \in DOMAIN as : \A l \in DOMAIN as[i].subs :
                   as[q].subs[k] = as[i].subs[l] => q = i /\ k = l
  <2>1. PICK m : m = as[q].subs[k]
    OBVIOUS
  <2>2. Old(q, k, m) \/ New(q, k, m) \/ Part(q, k, m)
    BY ONLY <1>8, <2>1, q \in DOMAIN as, k \in DOMAIN as[q].subs
  <2>3. m > q /\ (as[q].class \notin Arrays => as[m].key = k)
    <3>1. CASE Old(q, k, m)
      BY ONLY <1>9, <3>1
    <3>2. CASE New(q, k, m)
      BY ONLY <1>10, <3>2
    <3>3. CASE Part(q, k, m)
      BY ONLY <1>11, <3>3
    <3> QED BY ONLY <2>2, <3>1, <3>2, <3>3
  <2>4. ASSUME NEW i \in DOMAIN as, NEW l \in DOMAIN as[i].subs, m = as[i].subs[l]
        PROVE  q = i /\ k = l
    <3>1. Old(i, l, m) \/ New(i, l, m) \/ Part(i, l, m)
      BY ONLY <1>8, <2>4
    <3> QED BY ONLY <1>12, <2>2, <3>1
  <2> QED BY ONLY <2>1, <2>3, <2>4
<1>14. TreeOf(as)
  BY ONLY <1>13 DEF TreeOf
<1> QED BY <1>1, <1>14

\* What is in the request stays there when the place of the new element is free.
LEMMA AddedSent ==
    ASSUME NEW es, Shaped(es), AllSent(es), NEW p \in DOMAIN es, NEW e, IsFresh(e),
           \/ es[p].class \in Arrays
           \/ e.key \notin DOMAIN es[p].subs /\ e.key \notin DOMAIN es[p].own
    PROVE  AllSent(Added(es, p, e))
<1>1. PICK as : as = Added(es, p, e)
  OBVIOUS
<1>2. PICK N : N = Len(es)
  OBVIOUS
<1>3. /\ DOMAIN es = 1 .. N /\ N \in Nat /\ p \in 1 .. N
      /\ DOMAIN as = 1 .. N + (IF e.class = "Range" THEN 2 ELSE 1)
      /\ \A i \in 1 .. N : as[i].class = es[i].class /\ as[i].own = es[i].own
      /\ \A i \in 1 .. N : i # p => as[i].subs = es[i].subs
      /\ as[N + 1].class = e.class /\ as[N + 1].own = e.own
      /\ e.class # "Range" => DOMAIN as[N + 1].subs = {}
      /\ e.class = "Range" =>
           /\ DOMAIN as[N + 1].subs = {e.field} /\ as[N + 1].subs[e.field] = N + 2
           /\ DOMAIN as[N + 2].own = {}
  BY <1>2, <1>1, AddedChildren
<1>4. PICK K : /\ DOMAIN as[p].subs = DOMAIN es[p].subs \cup {K}
               /\ as[p].subs[K] = N + 1
               /\ \A l \in DOMAIN es[p].subs : l # K => as[p].subs[l] = es[p].subs[l]
               /\ IF es[p].class \in Arrays THEN K \notin DOMAIN es[p].subs ELSE K = e.key
  <2>1. Adopts(es[p], as[p], e.key, Len(es) + 1)
    BY ONLY Shaped(es), p \in DOMAIN es, IsFresh(e), <1>1, AddedIs
  <2> QED BY ONLY <1>2, <2>1 DEF Adopts
<1>5. ASSUME NEW n \in 1 .. N
      PROVE  /\ n = 1 \/ \E q \in 1 .. (n - 1) : \E k \in DOMAIN es[q].subs : es[q].subs[k] = n
             /\ \A k \in DOMAIN es[n].own : es[n].class \notin Arrays /\ k \notin DOMAIN es[n].subs
  BY <1>3 DEF AllSent, MayHave
<1>6. \A q \in 1 .. N : \A k \in DOMAIN es[q].subs :
        k \in DOMAIN as[q].subs /\ as[q].subs[k] = es[q].subs[k]
  BY <1>3, <1>4
<1>7. ASSUME NEW n \in 1 .. N
      PROVE  /\ n = 1 \/ \E q \in 1 .. (n - 1) : \E k \in DOMAIN as[q].subs : as[q].subs[k] = n
             /\ \A k \in DOMAIN as[n].own : MayHave(as[n], k)
  <2>1. n = 1 \/ \E q \in 1 .. (n - 1) : \E k \in DOMAIN as[q].subs : as[q].subs[k] = n
    <3>1. \A q \in 1 .. (n - 1) : q \in 1 .. N
      BY <1>3
    <3>2. CASE n # 1
      <4>1. PICK q \in 1 .. (n - 1) : \E k \in DOMAIN es[q].subs : es[q].subs[k] = n
        BY ONLY <1>5, <3>2
      <4> QED BY ONLY <1>6, <3>1, <4>1
    <3> QED BY ONLY <3>2
  <2>2. ASSUME NEW k \in DOMAIN as[n].own
        PROVE  MayHave(as[n], k)
    <3>1. as[n].class = es[n].class /\ as[n].own = es[n].own
      BY <1>3
    <3>2. es[n].class \notin Arrays /\ k \notin DOMAIN es[n].subs
      BY ONLY <1>5, <2>2, <3>1
    <3>3. CASE n # p
      BY <1>3, <3>1, <3>2, <3>3 DEF MayHave
    <3>4. CASE n = p
      BY <1>4, <2>2, <3>1, <3>2, <3>4 DEF MayHave
    <3> QED BY <3>3, <3>4
  <2> QED BY <2>1, <2>2
<1>8. /\ \E q \in 1 .. ((N + 1) - 1) : \E k \in DOMAIN as[q].subs : as[q].subs[k] = N + 1
      /\ \A k \in DOMAIN as[N + 1].own : MayHave(as[N + 1], k)
  <2>1. p \in 1 .. ((N + 1) - 1) /\ K \in DOMAIN as[p].subs
    BY <1>3, <1>4
  <2>2. \A k \in DOMAIN e.own : e.class = "Tokenizer"
    BY DEF IsFresh
  <2>3. "Tokenizer" \notin Arrays /\ "Tokenizer" # "Range"
    BY DEF Arrays, QArrays
  <2> QED BY <1>3, <1>4, <2>1, <2>2, <2>3 DEF MayHave
<1>9. ASSUME e.class = "Range"
      PROVE  /\ \E q \in 1 .. ((N + 2) - 1) : \E k \in DOMAIN as[q].subs : as[q].subs[k] = N + 2
             /\ \A k \in DOMAIN as[N + 2].own : MayHave(as[N + 2], k)
  <2>1. N + 1 \in 1 .. ((N + 2) - 1)
    BY <1>3
  <2> QED BY <1>3, <1>9, <2>1
<1>10. \A n \in DOMAIN as : n \in 1 .. N \/ n = N + 1 \/ (e.class = "Range" /\ n = N + 2)
  BY <1>3
<1>11. AllSent(as)
  <2>1. ASSUME NEW n \in DOMAIN as
        PROVE  /\ n = 1 \/ \E q \in 1 .. (n - 1) : \E k \in DOMAIN as[q].subs : as[q].subs[k] = n
               /\ \A k \in DOMAIN as[n].own : MayHave(as[n], k)
    <3>1. CASE n \in 1 .. N
      BY ONLY <1>7, <3>1
    <3>2. CASE n = N + 1
      BY ONLY <1>8, <3>2
    <3>3. CASE e.class = "Range" /\ n = N + 2
      BY ONLY <1>9, <3>3
    <3> QED BY ONLY <1>10, <3>1, <3>2, <3>3
  <2> QED BY ONLY <2>1 DEF AllSent
<1> QED BY <1>1, <1>11

-----------------------------------------------------------------------------
\* Elements added to elements that were added.
LEMMA GrowsOn == ASSUME NEW es, NEW fs, NEW gs, Shaped(es), Shaped(fs), Shaped(gs),
                        Grows(es, fs), Grows(fs, gs)
                 PROVE  Grows(es, gs)
<1>1. /\ DOMAIN es = 1 .. Len(es) /\ DOMAIN fs = 1 .. Len(fs)
      /\ Len(es) \in Nat /\ Len(fs) \in Nat /\ Len(gs) \in Nat
  BY SequenceDomain DEF Shaped
<1> QED BY <1>1 DEF Grows

\* The same for what is kept.
LEMMA KeptOn == ASSUME NEW es, NEW fs, NEW gs, Shaped(es), Shaped(fs), Shaped(gs),
                       NEW a, Kept(es, fs, a), Kept(fs, gs, a)
                PROVE  Kept(es, gs, a)
<1>1. /\ DOMAIN es = 1 .. Len(es) /\ DOMAIN fs = 1 .. Len(fs) /\ DOMAIN gs = 1 .. Len(gs)
      /\ Len(es) \in Nat /\ Len(fs) \in Nat /\ Len(gs) \in Nat
  BY SequenceDomain DEF Shaped
<1>2. Len(es) <= Len(gs)
  BY <1>1 DEF Kept
<1>3. ASSUME NEW n \in DOMAIN es
      PROVE  /\ gs[n].class = es[n].class
             /\ \A k \in DOMAIN es[n].subs :
                  k \in DOMAIN gs[n].subs /\ gs[n].subs[k] = es[n].subs[k]
             /\ DOMAIN es[n].own \subseteq DOMAIN gs[n].own
             /\ n # a => gs[n].own = es[n].own
  <2>1. n \in DOMAIN fs
    BY <1>1 DEF Kept
  <2> QED BY <2>1 DEF Kept
<1>4. ASSUME NEW n \in DOMAIN gs, n > Len(es), n # a
      PROVE  DOMAIN gs[n].own = {}
  <2>1. CASE n \in DOMAIN fs
    BY <1>4, <2>1 DEF Kept
  <2>2. CASE n \notin DOMAIN fs
    <3>1. n > Len(fs)
      BY <1>1, <2>2
    <3> QED BY <1>4, <3>1 DEF Kept
  <2> QED BY <2>1, <2>2
<1> QED BY ONLY <1>2, <1>3, <1>4 DEF Kept

\* Where nothing was written, nothing was written but into any one element.
LEMMA KeptAll == ASSUME NEW es, NEW fs, Shaped(es), Shaped(fs), Kept(es, fs, 0), NEW a
                 PROVE  Kept(es, fs, a)
<1>1. /\ DOMAIN es = 1 .. Len(es) /\ DOMAIN fs = 1 .. Len(fs)
      /\ Len(es) \in Nat /\ Len(fs) \in Nat
  BY SequenceDomain DEF Shaped
<1> QED BY <1>1 DEF Kept

\* A new element in a free place has its constructor's values.
LEMMA AddedKept ==
    ASSUME NEW es, Shaped(es), NEW p \in DOMAIN es, NEW e, IsFresh(e),
           es[p].class \in Arrays \/ e.key \notin DOMAIN es[p].subs
    PROVE  /\ Kept(es, Added(es, p, e), Len(es) + 1)
           /\ e.class # "Tokenizer" => Kept(es, Added(es, p, e), 0)
<1>1. PICK as : as = Added(es, p, e)
  OBVIOUS
<1>2. PICK N : N = Len(es)
  OBVIOUS
<1>3. /\ DOMAIN es = 1 .. N /\ N \in Nat /\ p \in 1 .. N
      /\ DOMAIN as = 1 .. N + (IF e.class = "Range" THEN 2 ELSE 1)
      /\ \A i \in 1 .. N : as[i].class = es[i].class /\ as[i].own = es[i].own
      /\ \A i \in 1 .. N : i # p => as[i].subs = es[i].subs
      /\ as[N + 1].own = e.own
      /\ e.class = "Range" => DOMAIN as[N + 2].own = {}
  BY <1>2, <1>1, AddedChildren
<1>4. Len(as) = N + (IF e.class = "Range" THEN 2 ELSE 1)
  BY <1>1, <1>2, AddedIs
<1>5. PICK K : /\ DOMAIN as[p].subs = DOMAIN es[p].subs \cup {K}
               /\ \A l \in DOMAIN es[p].subs : l # K => as[p].subs[l] = es[p].subs[l]
               /\ K \notin DOMAIN es[p].subs
  <2>1. Adopts(es[p], as[p], e.key, Len(es) + 1)
    BY ONLY Shaped(es), p \in DOMAIN es, IsFresh(e), <1>1, AddedIs
  <2> QED BY <2>1 DEF Adopts
<1>6. \A i \in 1 .. N : \A k \in DOMAIN es[i].subs :
        k \in DOMAIN as[i].subs /\ as[i].subs[k] = es[i].subs[k]
  BY <1>3, <1>5
<1>7. \A n \in DOMAIN as : n > N => n = N + 1 \/ (e.class = "Range" /\ n = N + 2)
  BY <1>3
<1>8. e.class # "Tokenizer" => DOMAIN as[N + 1].own = {}
  BY <1>3 DEF IsFresh
<1>9. N <= Len(as) /\ N + 1 # 0
  BY <1>3, <1>4
<1>10. Kept(es, as, N + 1)
  BY ONLY <1>2, <1>3, <1>6, <1>7, <1>9 DEF Kept
<1>11. e.class # "Tokenizer" => Kept(es, as, 0)
  BY ONLY <1>2, <1>3, <1>6, <1>7, <1>8, <1>9 DEF Kept
<1> QED BY <1>1, <1>2, <1>10, <1>11

\* A call that makes a new element, in a free place unless it reports the mix.
LEMMA NewOk ==
    ASSUME NEW c, Sound(c), NEW e, IsFresh(e), NEW m \in BOOLEAN, c.mixed => m,
           \/ m
           \/ c.elements[c.at].class \in Arrays
           \/ /\ e.key \notin DOMAIN c.elements[c.at].subs
              /\ e.key \notin DOMAIN c.elements[c.at].own
    PROVE  /\ Sound([elements |-> Added(c.elements, c.at, e), at |-> Len(c.elements) + 1,
                     mixed |-> m])
           /\ Grows(c.elements, Added(c.elements, c.at, e))
           /\ Added(c.elements, c.at, e)[Len(c.elements) + 1].class = e.class
           /\ m \/ Kept(c.elements, Added(c.elements, c.at, e), Len(c.elements) + 1)
           /\ m \/ e.class = "Tokenizer" \/ Kept(c.elements, Added(c.elements, c.at, e), 0)
<1>1. PICK es : es = c.elements
  OBVIOUS
<1>2. PICK p \in DOMAIN es : p = c.at
  BY <1>1 DEF Sound
<1>3. PICK as : as = Added(es, p, e)
  OBVIOUS
<1>4. Shaped(es) /\ TreeOf(es) /\ (c.mixed \/ AllSent(es))
  BY <1>1 DEF Sound
<1>5. Shaped(as) /\ Grows(es, as)
  BY ONLY <1>3, <1>4, IsFresh(e), AddedShaped
<1>6. TreeOf(as)
  BY ONLY <1>3, <1>4, IsFresh(e), AddedTree
<1>7. m \/ AllSent(as)
  <2>1. CASE ~m
    <3>1. /\ AllSent(es)
          /\ \/ es[p].class \in Arrays
             \/ e.key \notin DOMAIN es[p].subs /\ e.key \notin DOMAIN es[p].own
      BY <1>1, <1>2, <1>4, <2>1
    <3> QED BY ONLY <1>3, <1>4, <3>1, IsFresh(e), AddedSent
  <2> QED BY <2>1
<1>8. Len(es) + 1 \in DOMAIN as /\ as[Len(es) + 1].class = e.class
  <2>1. /\ DOMAIN as = 1 .. Len(es) + (IF e.class = "Range" THEN 2 ELSE 1)
        /\ Len(es) \in Nat /\ as[Len(es) + 1].class = e.class
    BY ONLY <1>3, <1>4, IsFresh(e), AddedChildren
  <2> QED BY ONLY <2>1
<1>9. Sound([elements |-> as, at |-> Len(es) + 1, mixed |-> m])
  BY ONLY <1>5, <1>6, <1>7, <1>8, m \in BOOLEAN DEF Sound
<1>10. /\ m \/ Kept(es, as, Len(es) + 1)
       /\ m \/ e.class = "Tokenizer" \/ Kept(es, as, 0)
  <2>1. ASSUME ~m
        PROVE  es[p].class \in Arrays \/ e.key \notin DOMAIN es[p].subs
    BY <1>1, <1>2, <2>1
  <2> QED BY ONLY <1>3, <1>4, <2>1, IsFresh(e), AddedKept
<1> QED BY <1>1, <1>2, <1>3, <1>5, <1>8, <1>9, <1>10

\* Get or create.
LEMMA SubOk ==
    ASSUME NEW c, Sound(c), NEW e, IsFresh(e)
    PROVE  /\ Reaches(c, Sub(c, e), e.class)
           /\ e.class # "Tokenizer" => Passes(c, Sub(c, e), e.class)
<1>1. CASE Found(c.elements, c.at, e)
  <2>1. PICK n : n = c.elements[c.at].subs[e.key]
    OBVIOUS
  <2>2. Sub(c, e) = [c EXCEPT !.at = n]
    BY <1>1, <2>1 DEF Sub
  <2>3. Sub(c, e) = [elements |-> c.elements, at |-> n, mixed |-> c.mixed]
    BY <2>2 DEF Sound
  <2>4. n \in DOMAIN c.elements
    <3>1. e.key \in DOMAIN c.elements[c.at].subs
      BY <1>1 DEF Found
    <3>2. DOMAIN c.elements = 1 .. Len(c.elements)
      BY SequenceDomain DEF Sound, Shaped
    <3> QED BY <2>1, <3>1, <3>2 DEF Sound, Shaped
  <2>5. Grows(c.elements, c.elements)
    <3>1. Len(c.elements) \in Nat
      BY DEF Sound, Shaped
    <3> QED BY <3>1 DEF Grows
  <2>6. Sound(Sub(c, e))
    BY <2>3, <2>4 DEF Sound
  <2>7. IsA(c.elements[n].class, e.class)
    BY <1>1, <2>1 DEF Found
  <2>8. Kept(c.elements, c.elements, 0) /\ Kept(c.elements, c.elements, n)
    <3>1. DOMAIN c.elements = 1 .. Len(c.elements) /\ Len(c.elements) \in Nat
      BY SequenceDomain DEF Sound, Shaped
    <3> QED BY <3>1 DEF Kept
  <2> QED BY <2>3, <2>5, <2>6, <2>7, <2>8 DEF Reaches, Passes
<1>2. CASE ~Found(c.elements, c.at, e)
  <2>1. PICK m : m = (c.mixed \/ Clashes(c.elements, c.at, e))
    OBVIOUS
  <2>2. Sub(c, e) = [elements |-> Added(c.elements, c.at, e), at |-> Len(c.elements) + 1,
                     mixed |-> m]
    BY <1>2, <2>1 DEF Sub
  <2>3. m \in BOOLEAN
    BY <2>1
  <2>4. c.mixed => m
    BY <2>1 DEF Sound
  <2>5. m \/ /\ e.key \notin DOMAIN c.elements[c.at].subs
             /\ e.key \notin DOMAIN c.elements[c.at].own
    BY <1>2, <2>1 DEF Found, Clashes
  <2>6. /\ Sound(Sub(c, e)) /\ Grows(c.elements, Added(c.elements, c.at, e))
        /\ Added(c.elements, c.at, e)[Len(c.elements) + 1].class = e.class
        /\ m \/ Kept(c.elements, Added(c.elements, c.at, e), Len(c.elements) + 1)
        /\ m \/ e.class = "Tokenizer" \/ Kept(c.elements, Added(c.elements, c.at, e), 0)
    BY ONLY Sound(c), IsFresh(e), <2>2, <2>3, <2>4, <2>5, NewOk
  <2> QED BY <2>2, <2>4, <2>6 DEF IsA, Reaches, Passes
<1> QED BY <1>1, <1>2

\* A new element, added without a search.
LEMMA ItemIs ==
    ASSUME NEW c, Sound(c), NEW e
    PROVE  Item(c, e) = [elements |-> Added(c.elements, c.at, e), at |-> Len(c.elements) + 1,
                         mixed |-> c.mixed]
<1>1. PICK es : es = c.elements
  OBVIOUS
<1>2. PICK p : p = c.at
  OBVIOUS
<1>3. PICK m : m = c.mixed
  OBVIOUS
<1>4. c = [elements |-> es, at |-> p, mixed |-> m]
  BY <1>1, <1>2, <1>3 DEF Sound
<1>5. PICK as : as = Added(es, p, e)
  OBVIOUS
<1>6. Item(c, e) = [c EXCEPT !.elements = as, !.at = Len(es) + 1]
  BY <1>1, <1>2, <1>5 DEF Item
<1>7. Item(c, e) = [elements |-> as, at |-> Len(es) + 1, mixed |-> m]
  BY ONLY <1>4, <1>6
<1> QED BY ONLY <1>1, <1>2, <1>3, <1>5, <1>7

\* Where an element can be added without a search.
HasPlace(c, e) == \/ c.elements[c.at].class \in Arrays
                  \/ /\ e.key \notin DOMAIN c.elements[c.at].subs
                     /\ e.key \notin DOMAIN c.elements[c.at].own

\* An element added to an array, or in a free place of an object.
LEMMA ItemOk ==
    ASSUME NEW c, Sound(c), NEW e, IsFresh(e), HasPlace(c, e)
    PROVE  /\ Reaches(c, Item(c, e), e.class)
           /\ e.class # "Tokenizer" => Passes(c, Item(c, e), e.class)
<1>1. Item(c, e) = [elements |-> Added(c.elements, c.at, e), at |-> Len(c.elements) + 1,
                    mixed |-> c.mixed]
  BY ItemIs
<1>2. c.mixed \in BOOLEAN
  BY DEF Sound
<1>3. /\ Sound(Item(c, e)) /\ Grows(c.elements, Added(c.elements, c.at, e))
      /\ Added(c.elements, c.at, e)[Len(c.elements) + 1].class = e.class
      /\ c.mixed \/ Kept(c.elements, Added(c.elements, c.at, e), Len(c.elements) + 1)
      /\ c.mixed \/ e.class = "Tokenizer" \/ Kept(c.elements, Added(c.elements, c.at, e), 0)
  BY ONLY Sound(c), IsFresh(e), HasPlace(c, e), <1>1, <1>2, NewOk DEF HasPlace
<1> QED BY <1>1, <1>3 DEF IsA, Reaches, Passes

\* A value written into an element: who it is and where its children are stay.
IsWritten(es, fs, p, key) ==
    /\ Shaped(fs) /\ Grows(es, fs) /\ DOMAIN fs = DOMAIN es
    /\ \A i \in DOMAIN es : /\ fs[i].class = es[i].class /\ fs[i].key = es[i].key
                            /\ fs[i].subs = es[i].subs
                            /\ i # p => fs[i].own = es[i].own
    /\ DOMAIN fs[p].own = DOMAIN es[p].own \cup {key}

\* Writing a value does that and no more.
LEMMA WrittenShaped ==
    ASSUME NEW es, Shaped(es), NEW p \in DOMAIN es, NEW key \in Keys, NEW value \in Value
    PROVE  IsWritten(es, [es EXCEPT ![p].own = With(@, key, value)], p, key)
<1>1. PICK fs : fs = [es EXCEPT ![p].own = With(@, key, value)]
  OBVIOUS
<1>2. es \in Seq(Element) /\ p \in 1 .. Len(es) /\ es[p] \in Element
  BY DEF Shaped
<1>3. PICK own : own = With(es[p].own, key, value)
  OBVIOUS
<1>4. own \in Functions(Value)
  <2>1. es[p].own \in Functions(Value)
    BY <1>2 DEF Element
  <2> QED BY ONLY <1>3, <2>1, key \in Keys, value \in Value, SetKey
<1>5. DOMAIN own = DOMAIN es[p].own \cup {key}
  BY <1>3 DEF With
<1>6. PICK new : new = [es[p] EXCEPT !.own = own]
  OBVIOUS
<1>7. /\ new \in Element /\ new.own = own /\ new.subs = es[p].subs
      /\ new.class = es[p].class /\ new.key = es[p].key
  BY <1>2, <1>4, <1>6 DEF Element
<1>8. fs = [es EXCEPT ![p] = new]
  BY <1>1, <1>3, <1>6
<1>9. /\ fs \in Seq(Element) /\ Len(fs) = Len(es) /\ fs[p] = new
      /\ \A i \in 1 .. Len(es) : i # p => fs[i] = es[i]
  BY <1>2, <1>7, <1>8, SequenceFacts
<1>10. DOMAIN es = 1 .. Len(es) /\ DOMAIN fs = 1 .. Len(es) /\ Len(es) \in Nat
  BY <1>2, <1>9, SequenceDomain
<1>11. \A i \in DOMAIN es : /\ fs[i].class = es[i].class /\ fs[i].key = es[i].key
                            /\ fs[i].subs = es[i].subs
                            /\ i # p => fs[i].own = es[i].own
  BY <1>7, <1>9, <1>10
<1>12. Shaped(fs)
  <2>1. ASSUME NEW i \in DOMAIN es
        PROVE  /\ es[i].subs \in IF es[i].class \in Arrays THEN Seq(Nat) ELSE Functions(Nat)
               /\ \A k \in DOMAIN es[i].subs : es[i].subs[k] \in 1 .. Len(es)
               /\ es[i].class = "Range" => i < Len(es) /\ es[i + 1].class = "Object"
    BY DEF Shaped
  <2>2. \A i \in DOMAIN es : i < Len(es) => i + 1 \in DOMAIN es
    BY <1>10
  <2> QED BY ONLY <1>9, <1>10, <1>11, <2>1, <2>2 DEF Shaped
<1>13. Grows(es, fs)
  BY <1>9, <1>10, <1>11 DEF Grows
<1>14. DOMAIN fs[p].own = DOMAIN es[p].own \cup {key}
  BY <1>5, <1>7, <1>9
<1>15. IsWritten(es, fs, p, key)
  BY ONLY <1>10, <1>11, <1>12, <1>13, <1>14 DEF IsWritten
<1> QED BY <1>1, <1>15

\* A call that writes a value.
LEMMA PutOk ==
    ASSUME NEW c, Sound(c), NEW key \in Keys, NEW value \in Value
    PROVE  /\ Sound(Put(c, key, value)) /\ Grows(c.elements, Put(c, key, value).elements)
           /\ Put(c, key, value).at = c.at
           /\ c.mixed => Put(c, key, value).mixed
           /\ Kept(c.elements, Put(c, key, value).elements, c.at)
<1>1. PICK es : es = c.elements
  OBVIOUS
<1>2. PICK p \in DOMAIN es : p = c.at
  BY <1>1 DEF Sound
<1>3. PICK old : old = c.mixed
  OBVIOUS
<1>4. c = [elements |-> es, at |-> p, mixed |-> old] /\ old \in BOOLEAN
  BY <1>1, <1>2, <1>3 DEF Sound
<1>5. PICK fs : fs = [es EXCEPT ![p].own = With(@, key, value)]
  OBVIOUS
<1>6. PICK m : m = (old \/ ~MayHave(es[p], key))
  OBVIOUS
<1>7. Put(c, key, value) = [elements |-> fs, at |-> p, mixed |-> m]
  <2>1. Put(c, key, value) = [c EXCEPT !.elements = fs, !.mixed = m]
    BY <1>1, <1>2, <1>3, <1>4, <1>5, <1>6 DEF Put
  <2> QED BY ONLY <1>4, <2>1
<1>8. Shaped(es) /\ TreeOf(es) /\ (old \/ AllSent(es))
  BY <1>1, <1>3 DEF Sound
<1>9. IsWritten(es, fs, p, key)
  BY ONLY <1>5, <1>8, key \in Keys, value \in Value, p \in DOMAIN es, WrittenShaped
<1>10. Shaped(fs) /\ Grows(es, fs) /\ DOMAIN fs = DOMAIN es
  BY ONLY <1>9 DEF IsWritten
<1>11. \A i \in DOMAIN es : fs[i].class = es[i].class
  BY ONLY <1>9 DEF IsWritten
<1>12. \A i \in DOMAIN es : fs[i].key = es[i].key
  BY ONLY <1>9 DEF IsWritten
<1>13. \A i \in DOMAIN es : fs[i].subs = es[i].subs
  BY ONLY <1>9 DEF IsWritten
<1>14. \A i \in DOMAIN es : i # p => fs[i].own = es[i].own
  BY ONLY <1>9 DEF IsWritten
<1>15. DOMAIN fs[p].own = DOMAIN es[p].own \cup {key}
  BY ONLY <1>9 DEF IsWritten
<1>16. DOMAIN es = 1 .. Len(es) /\ Len(es) \in Nat
  BY <1>8, SequenceDomain DEF Shaped
<1>17. TreeOf(fs)
  <2>1. \A q \in DOMAIN es : \A k \in DOMAIN es[q].subs : es[q].subs[k] \in DOMAIN es
    BY <1>8, <1>16 DEF Shaped
  <2>2. ASSUME NEW q \in DOMAIN es, NEW k \in DOMAIN es[q].subs
        PROVE  /\ es[q].subs[k] > q
               /\ es[q].class \notin Arrays => fs[es[q].subs[k]].key = k
               /\ \A i \in DOMAIN es : \A l \in DOMAIN es[i].subs :
                    es[q].subs[k] = es[i].subs[l] => q = i /\ k = l
    BY ONLY <1>8, <1>12, <2>1, <2>2 DEF TreeOf
  <2>3. /\ DOMAIN fs = DOMAIN es
        /\ \A i \in DOMAIN es : fs[i].class = es[i].class /\ fs[i].subs = es[i].subs
    BY ONLY <1>10, <1>11, <1>13
  <2> QED BY ONLY <2>2, <2>3 DEF TreeOf
<1>18. m \/ AllSent(fs)
  <2>1. ASSUME ~m
        PROVE  AllSent(fs)
    <3>1. AllSent(es) /\ MayHave(es[p], key)
      BY <1>6, <1>8, <2>1
    <3>2. ASSUME NEW n \in DOMAIN es
          PROVE  n = 1 \/ \E q \in 1 .. (n - 1) : \E k \in DOMAIN fs[q].subs : fs[q].subs[k] = n
      <4>1. \A q \in 1 .. (n - 1) : q \in DOMAIN es
        BY <1>16
      <4>2. CASE n # 1
        <5>1. PICK q \in 1 .. (n - 1) : \E k \in DOMAIN es[q].subs : es[q].subs[k] = n
          BY ONLY <3>1, <4>2, n \in DOMAIN es DEF AllSent
        <5>2. fs[q].subs = es[q].subs
          BY ONLY <1>13, <4>1, q \in 1 .. (n - 1)
        <5> QED BY ONLY <5>1, <5>2
      <4> QED BY ONLY <4>2
    <3>3. ASSUME NEW n \in DOMAIN es, NEW k \in DOMAIN fs[n].own
          PROVE  MayHave(fs[n], k)
      <4>1. fs[n].class = es[n].class /\ fs[n].subs = es[n].subs
        BY ONLY <1>11, <1>13, n \in DOMAIN es
      <4>2. MayHave(es[n], k)
        <5>1. CASE k \in DOMAIN es[n].own
          BY ONLY <3>1, <5>1, n \in DOMAIN es DEF AllSent
        <5>2. CASE k \notin DOMAIN es[n].own
          <6>1. n = p /\ k = key
            BY ONLY <1>14, <1>15, <3>3, <5>2
          <6> QED BY ONLY <3>1, <6>1
        <5> QED BY <5>1, <5>2
      <4> QED BY ONLY <4>1, <4>2 DEF MayHave
    <3> QED BY ONLY <1>10, <3>2, <3>3 DEF AllSent
  <2> QED BY <2>1, <1>6
<1>19. m \in BOOLEAN
  BY <1>6
<1>20. Sound([elements |-> fs, at |-> p, mixed |-> m])
  BY ONLY <1>10, <1>17, <1>18, <1>19 DEF Sound
<1>21. Kept(es, fs, p)
  <2>1. Len(es) <= Len(fs)
    BY ONLY <1>10 DEF Grows
  <2>2. \A n \in DOMAIN fs : ~(n > Len(es))
    BY ONLY <1>10, <1>16
  <2>3. \A n \in DOMAIN es : DOMAIN es[n].own \subseteq DOMAIN fs[n].own
    BY ONLY <1>14, <1>15
  <2> QED BY ONLY <1>11, <1>13, <1>14, <2>1, <2>2, <2>3 DEF Kept
<1>22. old => m
  BY ONLY <1>6
<1> QED BY <1>1, <1>2, <1>3, <1>7, <1>10, <1>20, <1>21, <1>22

\* A call that appends a value writes a list.
LEMMA PutLastOk ==
    ASSUME NEW c, Sound(c), NEW key \in Keys, NEW v \in Values
    PROVE  \E value \in Value : PutLast(c, key, v) = Put(c, key, value)
<1>1. PICK own : own = c.elements[c.at].own
  OBVIOUS
<1>2. PICK of : of = IF key \in DOMAIN own THEN Append(own[key].of, v) ELSE <<v>>
  OBVIOUS
<1>3. own \in Functions(Value)
  <2>1. c.elements \in Seq(Element) /\ c.at \in DOMAIN c.elements
    BY DEF Sound, Shaped
  <2>2. c.elements[c.at] \in Element
    BY <2>1
  <2> QED BY <1>1, <2>2 DEF Element
<1>4. key \in DOMAIN own => own[key] \in Value
  <2>1. PICK K \in SUBSET Keys : own \in [K -> Value]
    BY <1>3 DEF Functions
  <2> QED BY <2>1
<1>5. of \in Seq(Values)
  <2>1. CASE key \in DOMAIN own
    <3>1. own[key].of \in Seq(Values)
      BY <1>4, <2>1 DEF Value
    <3> QED BY <1>2, <2>1, <3>1
  <2>2. CASE key \notin DOMAIN own
    BY <1>2, <2>2
  <2> QED BY <2>1, <2>2
<1>6. [list |-> TRUE, of |-> of] \in Value
  BY <1>5 DEF Value
<1>7. PutLast(c, key, v) = Put(c, key, [list |-> TRUE, of |-> of])
  BY <1>1, <1>2 DEF PutLast
<1> QED BY ONLY <1>6, <1>7

\* One value is a value.
LEMMA ScalarIs == \A v \in Values : Scalar(v) \in Value
BY DEF Scalar, Value

-----------------------------------------------------------------------------
(* The inductive invariant.                                                *)

HandleOk(es, h) == /\ h.element \in DOMAIN es
                   /\ IsA(es[h.element].class, h.class)
                   /\ h.field \in Fields \cup {NoField}

RequestInv == /\ Shaped(elements) /\ TreeOf(elements)
              /\ mixed \in BOOLEAN
              /\ mixed \/ AllSent(elements)
              /\ \A h \in handles : HandleOk(elements, h)

\* A call that is over: the invariant holds, and it has written into one element
\* unless it has reported a mix.
Done == /\ RequestInv'
        /\ mixed => mixed'
        /\ mixed' \/ \E a : Kept(elements, elements', a)

\* The types that TLC checks follow from the shape.
LEMMA InvariantTypes == RequestInv => TypeOK
<1> SUFFICES ASSUME RequestInv
             PROVE  TypeOK
  OBVIOUS
<1>1. elements \in Seq(Element) /\ DOMAIN elements = 1 .. Len(elements)
  BY SequenceDomain DEF RequestInv, Shaped
<1>2. ASSUME NEW n \in DOMAIN elements
      PROVE  /\ \A k \in DOMAIN elements[n].subs : elements[n].subs[k] \in DOMAIN elements
             /\ elements[n].class = "Range" =>
                  n < Len(elements) /\ elements[n + 1].class = "Object"
  BY <1>1 DEF RequestInv, Shaped
<1>3. ASSUME NEW n \in DOMAIN elements, NEW k \in DOMAIN elements[n].own
      PROVE  /\ elements[n].own[k].of \in Seq(Values)
             /\ elements[n].own[k].list \/ Len(elements[n].own[k].of) = 1
  <2>1. elements[n] \in Element
    BY <1>1
  <2>2. elements[n].own \in Functions(Value)
    BY ONLY <2>1 DEF Element
  <2>3. PICK K \in SUBSET Keys : elements[n].own \in [K -> Value]
    BY <2>2 DEF Functions
  <2>4. PICK v \in Value : v = elements[n].own[k]
    BY <2>3
  <2>5. v.of \in Seq(Values) /\ (v.list \/ Len(v.of) = 1)
    BY ONLY v \in Value DEF Value
  <2> QED BY <2>4, <2>5
<1> QED BY <1>1, <1>2, <1>3 DEF TypeOK, RequestInv, HandleOk

\* A call begins with what is there.
LEMMA HereOk ==
    ASSUME RequestInv, NEW n \in DOMAIN elements
    PROVE  /\ Sound(Here(n)) /\ Here(n).elements = elements /\ Here(n).at = n
           /\ Here(n).mixed = mixed
BY DEF RequestInv, Sound, Here

\* Pointers stay good while elements are added.
LEMMA HandleGrows ==
    ASSUME NEW es, NEW fs, Shaped(es), Shaped(fs), Grows(es, fs), NEW h, HandleOk(es, h)
    PROVE  HandleOk(fs, h)
<1>1. DOMAIN es = 1 .. Len(es) /\ DOMAIN fs = 1 .. Len(fs) /\ Len(es) \in Nat /\ Len(fs) \in Nat
  BY SequenceDomain DEF Shaped
<1> QED BY <1>1 DEF Grows, HandleOk

\* How a call ends.
LEMMA ReturnsOk ==
    ASSUME RequestInv, NEW c, NEW class, NEW field \in Fields \cup {NoField},
           Sound(c), Grows(elements, c.elements), IsA(c.elements[c.at].class, class),
           mixed => c.mixed, c.mixed \/ Kept(elements, c.elements, c.at),
           Returns(c, class, field)
    PROVE  Done
<1>1. elements' = c.elements /\ mixed' = c.mixed
  BY DEF Returns, Changes
<1>2. handles' = handles \cup {[element |-> c.at, class |-> class, field |-> field]}
  BY DEF Returns
<1>3. HandleOk(c.elements, [element |-> c.at, class |-> class, field |-> field])
  BY DEF HandleOk, Sound
<1>4. ASSUME NEW h \in handles
      PROVE  HandleOk(c.elements, h)
  BY HandleGrows DEF RequestInv, Sound
<1>5. \A h \in handles' : HandleOk(elements', h)
  BY ONLY <1>1, <1>2, <1>3, <1>4
<1>6. /\ Shaped(elements') /\ TreeOf(elements') /\ mixed' \in BOOLEAN
      /\ mixed' \/ AllSent(elements')
  BY ONLY <1>1, Sound(c) DEF Sound
<1>7. RequestInv'
  BY ONLY <1>5, <1>6 DEF RequestInv, Shaped, TreeOf, AllSent, MayHave, HandleOk
<1>8. (mixed => mixed') /\ (mixed' \/ Kept(elements, elements', c.at))
  BY <1>1
<1> QED BY ONLY <1>7, <1>8 DEF Done

\* How a call without a result ends.
LEMMA WritesOk ==
    ASSUME RequestInv, NEW c, Sound(c), Grows(elements, c.elements),
           mixed => c.mixed, c.mixed \/ Kept(elements, c.elements, c.at), Writes(c)
    PROVE  Done
<1>1. elements' = c.elements /\ mixed' = c.mixed /\ handles' = handles
  BY DEF Writes, Changes
<1>2. ASSUME NEW h \in handles
      PROVE  HandleOk(c.elements, h)
  BY HandleGrows DEF RequestInv, Sound
<1>3. \A h \in handles' : HandleOk(elements', h)
  BY ONLY <1>1, <1>2
<1>4. /\ Shaped(elements') /\ TreeOf(elements') /\ mixed' \in BOOLEAN
      /\ mixed' \/ AllSent(elements')
  BY ONLY <1>1, Sound(c) DEF Sound
<1>5. RequestInv'
  BY ONLY <1>3, <1>4 DEF RequestInv, Shaped, TreeOf, AllSent, MayHave, HandleOk
<1>6. (mixed => mixed') /\ (mixed' \/ Kept(elements, elements', c.at))
  BY <1>1
<1> QED BY ONLY <1>5, <1>6 DEF Done

-----------------------------------------------------------------------------
(* What the builders make.                                                 *)

\* The table of builders without an argument: names of keys and classes.
LEMMA MembersAre ==
    ASSUME NEW class \in DOMAIN Members, NEW key \in DOMAIN Members[class]
    PROVE  /\ key \in Keys /\ Members[class][key] \in Classes
           /\ Members[class][key] \notin {"Range", "Tokenizer"}
<1>1. CASE class = "Indexer"
  <2>1. Members[class] = [settings |-> "Settings", mapping |-> "Mapping"]
    BY <1>1 DEF Members
  <2>2. key = "settings" \/ key = "mapping"
    BY <2>1
  <2>3. key \in Keys
    BY <2>2 DEF Keys
  <2>4. Members[class][key] \in {"Settings", "Mapping"}
    BY <2>1, <2>2
  <2> QED BY <2>3, <2>4 DEF Classes, Arrays, QArrays
<1>2. CASE class = "Settings"
  BY <1>2 DEF Members, Keys, Classes, Arrays, QArrays
<1>3. CASE class = "Analysis"
  BY <1>3 DEF Members, Keys, Classes, Arrays, QArrays
<1>4. CASE class = "Mapping"
  BY <1>4 DEF Members, Keys, Classes, Arrays, QArrays
<1>5. CASE class = "Searcher"
  BY <1>5 DEF Members, Keys, Classes, Arrays, QArrays
<1>6. CASE class = "Query"
  BY <1>6 DEF Members, Keys, Classes, Arrays, QArrays
<1>7. CASE class = "QBool"
  <2>1. Members[class] = [must |-> "Must", should |-> "Should", must_not |-> "MustNot"]
    BY <1>7 DEF Members
  <2>2. key = "must" \/ key = "should" \/ key = "must_not"
    BY <2>1
  <2>3. key \in Keys
    BY <2>2 DEF Keys
  <2>4. Members[class][key] \in {"Must", "Should", "MustNot"}
    BY <2>1, <2>2
  <2> QED BY <2>3, <2>4 DEF Classes, Arrays, QArrays
<1>8. CASE class = "Updater"
  BY <1>8 DEF Members, Keys, Classes, Arrays, QArrays
<1> QED BY <1>1, <1>2, <1>3, <1>4, <1>5, <1>6, <1>7, <1>8 DEF Members

\* A builder without an argument gets to an element of the class in the table.
LEMMA MemberOk ==
    ASSUME NEW c, Sound(c), NEW class \in DOMAIN Members, c.elements[c.at].class = class,
           NEW key \in DOMAIN Members[class]
    PROVE  Passes(c, MemberOf(c, key), Members[class][key])
<1>1. PICK child : child = Members[class][key]
  OBVIOUS
<1>2. child \in Classes /\ child # "Range" /\ key \in Keys
  BY <1>1, MembersAre
<1>3. PICK e : e = Fresh(child, key, NoField)
  OBVIOUS
<1>4. IsFresh(e) /\ e.class = child
  BY ONLY <1>2, <1>3, FreshIs
<1>5. MemberOf(c, key) = Sub(c, e)
  BY <1>1, <1>3 DEF MemberOf
<1>6. Passes(c, Sub(c, e), child)
  <2>1. child # "Tokenizer"
    BY <1>1, MembersAre
  <2> QED BY ONLY Sound(c), <1>4, <2>1, SubOk
<1> QED BY <1>1, <1>5, <1>6

\* A builder with a name gets to an element of the class in the table.
LEMMA NamedOk ==
    ASSUME NEW c, Sound(c), NEW class \in DOMAIN NamedMembers,
           c.elements[c.at].class = class, NEW name \in Names
    PROVE  Reaches(c, Named(c, name), NamedMembers[class])
<1>1. PICK child : child = NamedMembers[class]
  OBVIOUS
<1>2. child \in Classes /\ child # "Range" /\ name \in Keys
  <2>1. child = "Tokenizer" \/ child = "Field"
    BY <1>1 DEF NamedMembers
  <2> QED BY <2>1 DEF Classes, Keys
<1>3. PICK e : e = Fresh(child, name, NoField)
  OBVIOUS
<1>4. IsFresh(e) /\ e.class = child
  BY ONLY <1>2, <1>3, FreshIs
<1>5. Named(c, name) = Sub(c, e)
  BY <1>1, <1>3 DEF Named
<1>6. Reaches(c, Sub(c, e), child)
  BY ONLY Sound(c), <1>4, SubOk
<1> QED BY <1>1, <1>5, <1>6

\* A class that only one C++ class has.
LEMMA IsClass == ASSUME NEW class, NEW R, IsA(class, R), R # "Object", R # "Array"
                 PROVE  class = R
BY DEF IsA

\* A pointer to an array is of a class of arrays.
LEMMA IsArrays == ASSUME NEW class, NEW R, IsA(class, R)
                  PROVE  class \in Arrays <=> R \in Arrays
BY DEF IsA, Arrays, QArrays

\* Two parts of a call: only the last one writes.
LEMMA ReachesOn ==
    ASSUME NEW c, NEW d, NEW f, NEW C, NEW D, Sound(c), Passes(c, d, C), Reaches(d, f, D)
    PROVE  Reaches(c, f, D) /\ (Passes(d, f, D) => Passes(c, f, D))
<1>1. Shaped(c.elements) /\ Shaped(d.elements) /\ Shaped(f.elements)
  BY DEF Reaches, Passes, Sound
<1>2. Grows(c.elements, f.elements)
  BY <1>1, GrowsOn DEF Reaches, Passes
<1>3. (c.mixed => d.mixed) /\ (d.mixed => f.mixed)
  BY DEF Reaches, Passes
<1>4. f.mixed \/ Kept(c.elements, f.elements, f.at)
  <2>1. CASE ~f.mixed
    <3>1. Kept(c.elements, d.elements, 0) /\ Kept(d.elements, f.elements, f.at)
      BY <1>3, <2>1 DEF Reaches, Passes
    <3>2. Kept(c.elements, d.elements, f.at)
      BY ONLY <1>1, <3>1, KeptAll
    <3> QED BY ONLY <1>1, <3>1, <3>2, KeptOn
  <2> QED BY <2>1
<1>5. ASSUME Passes(d, f, D)
      PROVE  f.mixed \/ Kept(c.elements, f.elements, 0)
  <2>1. CASE ~f.mixed
    <3>1. Kept(c.elements, d.elements, 0) /\ Kept(d.elements, f.elements, 0)
      BY <1>3, <1>5, <2>1 DEF Passes
    <3> QED BY ONLY <1>1, <3>1, KeptOn
  <2> QED BY <2>1
<1> QED BY <1>2, <1>3, <1>4, <1>5 DEF Reaches, Passes

\* A value at the end of a call.
LEMMA PutReaches ==
    ASSUME NEW c, NEW d, NEW D, Sound(c), Reaches(c, d, D), NEW key \in Keys, NEW value \in Value
    PROVE  Reaches(c, Put(d, key, value), D)
<1>1. Sound(d) /\ Grows(c.elements, d.elements) /\ IsA(d.elements[d.at].class, D)
  BY DEF Reaches
<1>2. PICK f : f = Put(d, key, value)
  OBVIOUS
<1>3. /\ Sound(f) /\ Grows(d.elements, f.elements) /\ f.at = d.at
      /\ (d.mixed => f.mixed) /\ Kept(d.elements, f.elements, d.at)
  BY ONLY <1>1, <1>2, key \in Keys, value \in Value, PutOk
<1>4. f.elements[f.at].class = d.elements[d.at].class
  BY ONLY <1>1, <1>3 DEF Grows, Sound
<1>5. Shaped(c.elements) /\ Shaped(d.elements) /\ Shaped(f.elements)
  BY <1>1, <1>3 DEF Sound
<1>6. Grows(c.elements, f.elements)
  BY <1>1, <1>3, <1>5, GrowsOn
<1>7. (c.mixed => f.mixed) /\ (d.mixed \/ Kept(c.elements, d.elements, d.at))
  BY <1>3 DEF Reaches
<1>8. f.mixed \/ Kept(c.elements, f.elements, f.at)
  BY ONLY <1>3, <1>5, <1>7, KeptOn
<1> QED BY <1>1, <1>2, <1>3, <1>4, <1>6, <1>7, <1>8 DEF Reaches

\* The end of a call that returns what it reached.
LEMMA ReturnsReached ==
    ASSUME RequestInv, NEW n \in DOMAIN elements, NEW c, NEW class,
           NEW field \in Fields \cup {NoField},
           Reaches(Here(n), c, class), Returns(c, class, field)
    PROVE  Done
<1>1. /\ Sound(c) /\ Grows(elements, c.elements) /\ IsA(c.elements[c.at].class, class)
      /\ (mixed => c.mixed) /\ (c.mixed \/ Kept(elements, c.elements, c.at))
  BY HereOk DEF Reaches
<1> QED BY <1>1, ReturnsOk

\* The end of a call that has written into what it reached.
LEMMA WritesReached ==
    ASSUME RequestInv, NEW n \in DOMAIN elements, NEW c, NEW class,
           Reaches(Here(n), c, class), Writes(c)
    PROVE  Done
<1>1. /\ Sound(c) /\ Grows(elements, c.elements)
      /\ (mixed => c.mixed) /\ (c.mixed \/ Kept(elements, c.elements, c.at))
  BY HereOk DEF Reaches
<1> QED BY <1>1, WritesOk

\* A clause as its constructor makes it.
LEMMA ClauseFresh ==
    ASSUME NEW class \in Clauses,
           NEW field \in IF class = "MultiMatch" THEN {NoField} ELSE Fields
    PROVE  /\ IsFresh(Fresh(class, ClauseKey[class], field))
           /\ Fresh(class, ClauseKey[class], field).class = class
<1>1. \/ class = "Term" \/ class = "Terms" \/ class = "Match"
      \/ class = "MultiMatch" \/ class = "Range"
  BY DEF Clauses, ClauseKey
<1>2. ClauseKey[class] \in Keys
  <2>1. ClauseKey[class] \in {"term", "terms", "match", "multi_match", "range"}
    BY <1>1 DEF ClauseKey
  <2> QED BY <2>1 DEF Keys
<1>3. class \in Classes
  BY DEF Classes
<1>4. field \in Fields \cup {NoField} /\ (class = "Range" => field \in Fields)
  BY <1>1
<1> QED BY ONLY <1>2, <1>3, <1>4, FreshIs

\* The caller's pointers.
LEMMA HandleIs ==
    ASSUME RequestInv, NEW h \in handles
    PROVE  /\ h.element \in DOMAIN elements
           /\ IsA(elements[h.element].class, h.class)
           /\ h.field \in Fields \cup {NoField}
           /\ elements[h.element].field \in Keys
           /\ elements[h.element].class \in Classes
<1>1. elements \in Seq(Element) /\ h.element \in DOMAIN elements
  BY DEF RequestInv, HandleOk, Shaped
<1>2. elements[h.element] \in Element
  BY <1>1
<1>3. elements[h.element].field \in Keys /\ elements[h.element].class \in Classes
  BY ONLY <1>2 DEF Element, Keys
<1> QED BY <1>1, <1>3 DEF RequestInv, HandleOk

\* One builder after another.
LEMMA MemberAfter ==
    ASSUME NEW c, NEW d, Sound(c), NEW class \in DOMAIN Members, Passes(c, d, class),
           NEW key \in DOMAIN Members[class]
    PROVE  Passes(c, MemberOf(d, key), Members[class][key])
<1>1. Sound(d) /\ d.elements[d.at].class = class
  <2>1. class # "Object" /\ class # "Array"
    BY DEF Members
  <2> QED BY <2>1, IsClass DEF Reaches, Passes
<1>2. Passes(d, MemberOf(d, key), Members[class][key])
  BY ONLY <1>1, class \in DOMAIN Members, key \in DOMAIN Members[class], MemberOk
<1> QED BY ONLY Sound(c), Passes(c, d, class), <1>2, ReachesOn DEF Passes

\* The same for a builder with a name.
LEMMA NamedAfter ==
    ASSUME NEW c, NEW d, Sound(c), NEW class \in DOMAIN NamedMembers, Passes(c, d, class),
           NEW name \in Names
    PROVE  Reaches(c, Named(d, name), NamedMembers[class])
<1>1. Sound(d) /\ d.elements[d.at].class = class
  <2>1. class # "Object" /\ class # "Array"
    BY DEF NamedMembers
  <2> QED BY <2>1, IsClass DEF Reaches, Passes
<1>2. Reaches(d, Named(d, name), NamedMembers[class])
  BY ONLY <1>1, class \in DOMAIN NamedMembers, name \in Names, NamedOk
<1> QED BY ONLY Sound(c), Passes(c, d, class), <1>2, ReachesOn DEF Passes

\* What a call has before it does something.
LEMMA NothingNew ==
    ASSUME RequestInv
    PROVE  Grows(elements, elements) /\ \A a : Kept(elements, elements, a)
<1>1. DOMAIN elements = 1 .. Len(elements) /\ Len(elements) \in Nat
  BY SequenceDomain DEF RequestInv, Shaped
<1> QED BY <1>1 DEF Grows, Kept

\* The element of a handle is a call that has got where it began.
LEMMA HereReaches ==
    ASSUME RequestInv, NEW h \in handles
    PROVE  /\ Sound(Here(h.element))
           /\ Reaches(Here(h.element), Here(h.element), h.class)
           /\ Passes(Here(h.element), Here(h.element), h.class)
<1>1. /\ Sound(Here(h.element)) /\ Here(h.element).elements = elements
      /\ Here(h.element).at = h.element
  BY HandleIs, HereOk
<1>2. Grows(elements, elements) /\ \A a : Kept(elements, elements, a)
  BY NothingNew
<1> QED BY <1>1, <1>2, HandleIs DEF Reaches, Passes

-----------------------------------------------------------------------------
(* The steps that build.                                                   *)

\* Indexer::settings(), Query::qbool(), QBool::must() and the like.
LEMMA MemberStep ==
    ASSUME RequestInv, NEW h \in handles, h.class \in DOMAIN Members, Member(h)
    PROVE  Done
<1>1. PICK key \in DOMAIN Members[h.class] :
        Returns(MemberOf(Here(h.element), key), Members[h.class][key], NoField)
  BY DEF Member
<1>2. Reaches(Here(h.element), MemberOf(Here(h.element), key), Members[h.class][key])
  BY HereReaches, MemberAfter DEF Passes
<1>3. h.element \in DOMAIN elements /\ NoField \in Fields \cup {NoField}
  BY HandleIs
<1> QED BY ONLY RequestInv, <1>1, <1>2, <1>3, ReturnsReached

\* Analyzer::tokenizer(name), Properties::field(name).
LEMMA NamedMemberStep ==
    ASSUME RequestInv, NEW h \in handles, h.class \in DOMAIN NamedMembers, NEW name \in Names,
           NamedMember(h, name)
    PROVE  Done
<1>1. Returns(Named(Here(h.element), name), NamedMembers[h.class], NoField)
  BY DEF NamedMember
<1>2. Reaches(Here(h.element), Named(Here(h.element), name), NamedMembers[h.class])
  BY HereReaches, NamedAfter
<1>3. h.element \in DOMAIN elements /\ NoField \in Fields \cup {NoField}
  BY HandleIs
<1> QED BY ONLY RequestInv, <1>1, <1>2, <1>3, ReturnsReached

\* Indexer::tokenizer(name), four builders in a row.
LEMMA IndexerTokenizerStep ==
    ASSUME RequestInv, NEW h \in handles, h.class = "Indexer", NEW name \in Names,
           IndexerTokenizer(h, name)
    PROVE  Done
<1>1. PICK c : c = Here(h.element)
  OBVIOUS
<1>2. PICK settings : settings = MemberOf(c, "settings")
  OBVIOUS
<1>3. PICK analysis : analysis = MemberOf(settings, "analysis")
  OBVIOUS
<1>4. PICK analyzer : analyzer = MemberOf(analysis, "analyzer")
  OBVIOUS
<1>5. Sound(c) /\ Passes(c, c, "Indexer")
  BY <1>1, HereReaches
<1>6. Passes(c, settings, "Settings")
  <2>1. /\ "Indexer" \in DOMAIN Members /\ "settings" \in DOMAIN Members["Indexer"]
        /\ Members["Indexer"]["settings"] = "Settings"
    BY DEF Members
  <2> QED BY ONLY <1>2, <1>5, <2>1, MemberAfter
<1>7. Passes(c, analysis, "Analysis")
  <2>1. /\ "Settings" \in DOMAIN Members /\ "analysis" \in DOMAIN Members["Settings"]
        /\ Members["Settings"]["analysis"] = "Analysis"
    BY DEF Members
  <2> QED BY ONLY <1>3, <1>5, <1>6, <2>1, MemberAfter
<1>8. Passes(c, analyzer, "Analyzer")
  <2>1. /\ "Analysis" \in DOMAIN Members /\ "analyzer" \in DOMAIN Members["Analysis"]
        /\ Members["Analysis"]["analyzer"] = "Analyzer"
    BY DEF Members
  <2> QED BY ONLY <1>4, <1>5, <1>7, <2>1, MemberAfter
<1>9. Reaches(c, Named(analyzer, name), "Tokenizer")
  <2>1. "Analyzer" \in DOMAIN NamedMembers /\ NamedMembers["Analyzer"] = "Tokenizer"
    BY DEF NamedMembers
  <2> QED BY ONLY <1>5, <1>8, <2>1, name \in Names, NamedAfter
<1>10. Returns(Named(analyzer, name), "Tokenizer", NoField)
  BY <1>1, <1>2, <1>3, <1>4 DEF IndexerTokenizer
<1>11. h.element \in DOMAIN elements /\ NoField \in Fields \cup {NoField}
  BY HandleIs
<1> QED BY ONLY RequestInv, <1>1, <1>9, <1>10, <1>11, ReturnsReached

\* Indexer::field(name), three builders in a row.
LEMMA IndexerFieldStep ==
    ASSUME RequestInv, NEW h \in handles, h.class = "Indexer", NEW name \in Names,
           IndexerField(h, name)
    PROVE  Done
<1>1. PICK c : c = Here(h.element)
  OBVIOUS
<1>2. PICK mapping : mapping = MemberOf(c, "mapping")
  OBVIOUS
<1>3. PICK properties : properties = MemberOf(mapping, "properties")
  OBVIOUS
<1>4. Sound(c) /\ Passes(c, c, "Indexer")
  BY <1>1, HereReaches
<1>5. Passes(c, mapping, "Mapping")
  <2>1. /\ "Indexer" \in DOMAIN Members /\ "mapping" \in DOMAIN Members["Indexer"]
        /\ Members["Indexer"]["mapping"] = "Mapping"
    BY DEF Members
  <2> QED BY ONLY <1>2, <1>4, <2>1, MemberAfter
<1>6. Passes(c, properties, "Properties")
  <2>1. /\ "Mapping" \in DOMAIN Members /\ "properties" \in DOMAIN Members["Mapping"]
        /\ Members["Mapping"]["properties"] = "Properties"
    BY DEF Members
  <2> QED BY ONLY <1>3, <1>4, <1>5, <2>1, MemberAfter
<1>7. Reaches(c, Named(properties, name), "Field")
  <2>1. "Properties" \in DOMAIN NamedMembers /\ NamedMembers["Properties"] = "Field"
    BY DEF NamedMembers
  <2> QED BY ONLY <1>4, <1>6, <2>1, name \in Names, NamedAfter
<1>8. Returns(Named(properties, name), "Field", NoField)
  BY <1>1, <1>2, <1>3 DEF IndexerField
<1>9. h.element \in DOMAIN elements /\ NoField \in Fields \cup {NoField}
  BY HandleIs
<1> QED BY ONLY RequestInv, <1>1, <1>7, <1>8, <1>9, ReturnsReached

\* Query::qbool().
LEMMA BoolReaches ==
    ASSUME RequestInv, NEW h \in handles, h.class = "Query"
    PROVE  /\ Passes(Here(h.element), MemberOf(Here(h.element), "bool"), "QBool")
           /\ Reaches(Here(h.element), MemberOf(Here(h.element), "bool"), "QBool")
<1>1. Sound(Here(h.element)) /\ Passes(Here(h.element), Here(h.element), "Query")
  BY HereReaches
<1>2. /\ "Query" \in DOMAIN Members /\ "bool" \in DOMAIN Members["Query"]
      /\ Members["Query"]["bool"] = "QBool"
  BY DEF Members
<1> QED BY ONLY <1>1, <1>2, MemberAfter DEF Passes

\* Query::must(), should(), must_not().
LEMMA QueryBoolStep ==
    ASSUME RequestInv, NEW h \in handles, h.class = "Query", QueryBool(h)
    PROVE  Done
<1>1. PICK c : c = Here(h.element)
  OBVIOUS
<1>2. PICK bool : bool = MemberOf(c, "bool")
  OBVIOUS
<1>3. PICK key \in DOMAIN Members["QBool"] :
        Returns(MemberOf(bool, key), Members["QBool"][key], NoField)
  BY <1>1, <1>2 DEF QueryBool
<1>4. Sound(c) /\ Passes(c, bool, "QBool") /\ "QBool" \in DOMAIN Members
  BY <1>1, <1>2, HereReaches, BoolReaches DEF Members
<1>5. Reaches(c, MemberOf(bool, key), Members["QBool"][key])
  BY ONLY <1>4, key \in DOMAIN Members["QBool"], MemberAfter DEF Passes
<1>6. h.element \in DOMAIN elements /\ NoField \in Fields \cup {NoField}
  BY HandleIs
<1> QED BY ONLY RequestInv, <1>1, <1>3, <1>5, <1>6, ReturnsReached

\* newObject() and newArray() of objects and arrays.
LEMMA NewChildStep ==
    ASSUME RequestInv, NEW h \in handles, NEW class \in {"Object", "Array"}, NEW name \in Names,
           NewChild(h, class, name)
    PROVE  Done
<1>1. PICK e : e = Fresh(class, name, NoField)
  OBVIOUS
<1>2. IsFresh(e) /\ e.class = class
  <2>1. /\ class \in Classes /\ class # "Range" /\ name \in Keys
        /\ NoField \in Fields \cup {NoField}
    BY DEF Classes, Arrays, Keys
  <2> QED BY ONLY <1>1, <2>1, FreshIs
<1>3. PICK c : c = Here(h.element)
  OBVIOUS
<1>4. Sound(c) /\ IsA(c.elements[c.at].class, h.class)
  BY <1>3, HereReaches DEF Reaches
<1>5. PICK d : d = IF h.class \in Arrays THEN Item(c, e) ELSE Sub(c, e)
  OBVIOUS
<1>6. Returns(d, class, NoField)
  BY <1>1, <1>3, <1>5 DEF NewChild
<1>7. Reaches(c, d, class)
  <2>1. CASE h.class \in Arrays
    <3>1. HasPlace(c, e)
      BY <1>4, <2>1, IsArrays DEF HasPlace
    <3> QED BY <1>2, <1>4, <1>5, <2>1, <3>1, ItemOk
  <2>2. CASE h.class \notin Arrays
    BY <1>2, <1>4, <1>5, <2>2, SubOk
  <2> QED BY <2>1, <2>2
<1>8. h.element \in DOMAIN elements /\ NoField \in Fields \cup {NoField}
  BY HandleIs
<1> QED BY ONLY RequestInv, <1>3, <1>6, <1>7, <1>8, ReturnsReached

\* QObject::term(field) and the like.
LEMMA ClauseStep ==
    ASSUME RequestInv, NEW h \in handles, NEW class \in Clauses,
           NEW field \in IF class = "MultiMatch" THEN {NoField} ELSE Fields,
           Clause(h, class, field)
    PROVE  Done
<1>1. PICK e : e = Fresh(class, ClauseKey[class], field)
  OBVIOUS
<1>2. IsFresh(e) /\ e.class = class
  BY <1>1, ClauseFresh
<1>3. PICK c : c = Here(h.element)
  OBVIOUS
<1>4. Sound(c)
  BY <1>3, HereReaches
<1>5. Returns(Sub(c, e), class, field)
  BY <1>1, <1>3 DEF Clause
<1>6. Reaches(c, Sub(c, e), class)
  BY <1>2, <1>4, SubOk
<1>7. h.element \in DOMAIN elements /\ field \in Fields \cup {NoField}
  BY HandleIs
<1> QED BY ONLY RequestInv, <1>3, <1>5, <1>6, <1>7, ReturnsReached

\* The object that wraps a clause is new, so that the clause has a place there.
LEMMA WrappedOk ==
    ASSUME NEW c, Sound(c), c.elements[c.at].class \in Arrays, NEW e, IsFresh(e)
    PROVE  Reaches(c, Wrapped(c, e), e.class)
<1>1. PICK o : o = Fresh("Object", "", NoField)
  OBVIOUS
<1>2. IsFresh(o) /\ o.class = "Object"
  <2>1. PICK key \in Keys : key = ""
    BY DEF Keys
  <2>2. "Object" \in Classes /\ "Object" # "Range" /\ NoField \in Fields \cup {NoField}
    BY DEF Classes
  <2>3. o = Fresh("Object", key, NoField)
    BY ONLY <1>1, <2>1, Zenon
  <2> QED BY ONLY <2>2, <2>3, key \in Keys, FreshIs
<1>3. PICK d : d = Item(c, o)
  OBVIOUS
<1>4. Sound(d) /\ Passes(c, d, "Object")
  <2>1. HasPlace(c, o)
    BY DEF HasPlace
  <2>2. "Object" # "Tokenizer"
    OBVIOUS
  <2>3. Passes(c, d, "Object")
    BY ONLY Sound(c), <1>2, <1>3, <2>1, <2>2, ItemOk
  <2> QED BY <2>3 DEF Passes, Reaches
<1>5. HasPlace(d, e)
  <2>1. /\ d.elements = Added(c.elements, c.at, o) /\ d.at = Len(c.elements) + 1
    BY <1>3 DEF Item, Sound
  <2>2. /\ Shaped(c.elements) /\ c.at \in DOMAIN c.elements
    BY DEF Sound
  <2>3. /\ DOMAIN Added(c.elements, c.at, o)[Len(c.elements) + 1].subs = {}
        /\ Added(c.elements, c.at, o)[Len(c.elements) + 1].own = o.own
    BY ONLY <1>2, <2>2, AddedChildren
  <2>4. DOMAIN o.own = {}
    BY <1>2 DEF IsFresh
  <2> QED BY ONLY <2>1, <2>3, <2>4 DEF HasPlace
<1>6. Reaches(d, Item(d, e), e.class)
  BY ONLY <1>4, <1>5, IsFresh(e), ItemOk
<1>7. Wrapped(c, e) = Item(d, e)
  BY <1>1, <1>3 DEF Wrapped
<1> QED BY ONLY Sound(c), <1>4, <1>6, <1>7, ReachesOn

\* QArray::term(field) and the like.
LEMMA ArrayClauseStep ==
    ASSUME RequestInv, NEW h \in handles, h.class \in QArrays, NEW class \in Clauses,
           NEW field \in IF class = "MultiMatch" THEN {NoField} ELSE Fields,
           ArrayClause(h, class, field)
    PROVE  Done
<1>1. PICK e : e = Fresh(class, ClauseKey[class], field)
  OBVIOUS
<1>2. IsFresh(e) /\ e.class = class
  BY <1>1, ClauseFresh
<1>3. PICK c : c = Here(h.element)
  OBVIOUS
<1>4. Sound(c) /\ c.elements[c.at].class \in Arrays
  <2>1. IsA(c.elements[c.at].class, h.class) /\ h.class \in Arrays
    BY <1>3, HereReaches DEF Reaches, Arrays
  <2> QED BY <1>3, <2>1, HereReaches, IsArrays
<1>5. Returns(Wrapped(c, e), class, field)
  BY <1>1, <1>3 DEF ArrayClause
<1>6. Reaches(c, Wrapped(c, e), class)
  BY <1>2, <1>4, WrappedOk
<1>7. h.element \in DOMAIN elements /\ field \in Fields \cup {NoField}
  BY HandleIs
<1> QED BY ONLY RequestInv, <1>3, <1>5, <1>6, <1>7, ReturnsReached

\* addElement() by the caller: it may take the place of a child, which is reported.
LEMMA AddElementStep ==
    ASSUME RequestInv, NEW h \in handles, NEW name \in Names, AddElement(h, name)
    PROVE  Done
<1>1. PICK e : e = Fresh("Object", name, NoField)
  OBVIOUS
<1>2. IsFresh(e) /\ e.class = "Object" /\ e.key = name
  <2>1. /\ "Object" \in Classes /\ "Object" # "Range" /\ name \in Keys
        /\ NoField \in Fields \cup {NoField}
    BY DEF Classes, Keys
  <2> QED BY ONLY <1>1, <2>1, FreshIs
<1>3. PICK c : c = Here(h.element)
  OBVIOUS
<1>4. /\ Sound(c) /\ IsA(c.elements[c.at].class, h.class)
      /\ c.elements = elements /\ c.at = h.element /\ c.mixed = mixed
  BY <1>3, HereReaches DEF Reaches, Here
<1>5. PICK m : m = (mixed \/ /\ h.class \notin Arrays
                             /\ name \in DOMAIN elements[h.element].subs
                                         \cup DOMAIN elements[h.element].own)
  OBVIOUS
<1>6. PICK d : d = [elements |-> Added(c.elements, c.at, e), at |-> Len(c.elements) + 1,
                    mixed |-> m]
  OBVIOUS
<1>7. Returns(d, "Object", NoField)
  <2>1. Item(c, e) = [elements |-> Added(c.elements, c.at, e), at |-> Len(c.elements) + 1,
                      mixed |-> mixed]
    BY <1>4, ItemIs
  <2>2. d = [Item(c, e) EXCEPT !.mixed = @ \/ /\ h.class \notin Arrays
                                              /\ name \in DOMAIN elements[h.element].subs
                                                          \cup DOMAIN elements[h.element].own]
    BY ONLY <1>5, <1>6, <2>1
  <2> QED BY ONLY AddElement(h, name), <1>1, <1>3, <2>2 DEF AddElement
<1>8. m \in BOOLEAN /\ (c.mixed => m)
  BY <1>4, <1>5 DEF RequestInv
<1>9. m \/ HasPlace(c, e)
  <2>1. CASE h.class \in Arrays
    BY <1>4, <2>1, IsArrays DEF HasPlace
  <2>2. CASE h.class \notin Arrays
    BY <1>2, <1>4, <1>5, <2>2 DEF HasPlace
  <2> QED BY <2>1, <2>2
<1>10. /\ Sound(d) /\ Grows(c.elements, Added(c.elements, c.at, e))
       /\ Added(c.elements, c.at, e)[Len(c.elements) + 1].class = e.class
       /\ m \/ Kept(c.elements, Added(c.elements, c.at, e), Len(c.elements) + 1)
  BY ONLY <1>2, <1>4, <1>6, <1>8, <1>9, NewOk DEF HasPlace
<1>11. Reaches(c, d, "Object")
  BY ONLY <1>2, <1>6, <1>8, <1>10 DEF Reaches, IsA
<1>12. h.element \in DOMAIN elements /\ NoField \in Fields \cup {NoField}
  BY HandleIs
<1> QED BY ONLY RequestInv, <1>3, <1>7, <1>11, <1>12, ReturnsReached

-----------------------------------------------------------------------------
(* The steps that write.                                                   *)

\* The end of a call that writes a value into what it reached.
LEMMA PutWrites ==
    ASSUME RequestInv, NEW n \in DOMAIN elements, NEW d, NEW D, Reaches(Here(n), d, D),
           NEW key \in Keys, NEW value \in Value, Writes(Put(d, key, value))
    PROVE  Done
<1>1. Sound(Here(n))
  BY HereOk
<1>2. Reaches(Here(n), Put(d, key, value), D)
  BY ONLY <1>1, Reaches(Here(n), d, D), key \in Keys, value \in Value, PutReaches
<1> QED BY ONLY RequestInv, n \in DOMAIN elements, Writes(Put(d, key, value)), <1>2, WritesReached

\* The end of a call that appends a value there.
LEMMA PutLastWrites ==
    ASSUME RequestInv, NEW n \in DOMAIN elements, NEW d, NEW D, Reaches(Here(n), d, D),
           NEW key \in Keys, NEW v \in Values, Writes(PutLast(d, key, v))
    PROVE  Done
<1>1. Sound(d)
  BY DEF Reaches
<1>2. PICK value \in Value : PutLast(d, key, v) = Put(d, key, value)
  BY ONLY <1>1, key \in Keys, v \in Values, PutLastOk
<1> QED BY ONLY RequestInv, n \in DOMAIN elements, Reaches(Here(n), d, D), key \in Keys,
                Writes(PutLast(d, key, v)), <1>2, PutWrites

\* Base::add() and append().
LEMMA AddValueStep ==
    ASSUME RequestInv, NEW h \in handles, NEW name \in Names, NEW v \in Values,
           AddValue(h, name, v) \/ AppendValue(h, name, v)
    PROVE  Done
<1>1. /\ h.element \in DOMAIN elements /\ Reaches(Here(h.element), Here(h.element), h.class)
      /\ name \in Keys /\ Scalar(v) \in Value
  BY HandleIs, HereReaches, ScalarIs DEF Keys
<1>2. CASE AddValue(h, name, v)
  BY <1>1, <1>2, PutWrites DEF AddValue
<1>3. CASE AppendValue(h, name, v)
  BY <1>1, <1>3, PutLastWrites DEF AppendValue
<1> QED BY <1>2, <1>3

\* setValue() of term, terms and match.
LEMMA SetValueStep ==
    ASSUME RequestInv, NEW h \in handles, NEW v \in Values, SetValue(h, v)
    PROVE  Done
<1>1. PICK field : field = elements[h.element].field
  OBVIOUS
<1>2. /\ h.element \in DOMAIN elements /\ Reaches(Here(h.element), Here(h.element), h.class)
      /\ field \in Keys /\ Scalar(v) \in Value
  BY <1>1, HandleIs, HereReaches, ScalarIs
<1>3. \/ Writes(Put(Here(h.element), field, Scalar(v)))
      \/ Writes(PutLast(Here(h.element), field, v))
  BY <1>1 DEF SetValue
<1> QED BY <1>2, <1>3, PutWrites, PutLastWrites

\* MultiMatch::appendField() and setQuery().
LEMMA MultiMatchStep ==
    ASSUME RequestInv, NEW h \in handles, NEW v \in Values, MultiMatch(h, v)
    PROVE  Done
<1>1. /\ h.element \in DOMAIN elements /\ Reaches(Here(h.element), Here(h.element), h.class)
      /\ "fields" \in Keys /\ "query" \in Keys /\ Scalar(v) \in Value
  BY HandleIs, HereReaches, ScalarIs DEF Keys
<1>2. \/ Writes(Put(Here(h.element), "query", Scalar(v)))
      \/ Writes(PutLast(Here(h.element), "fields", v))
  BY DEF MultiMatch
<1> QED BY <1>1, <1>2, PutWrites, PutLastWrites

\* The object of a range is the element after it.
LEMMA SetRangeStep ==
    ASSUME RequestInv, NEW h \in handles, h.class = "Range", NEW v \in Values, SetRange(h, v)
    PROVE  Done
<1>1. h.element \in DOMAIN elements /\ elements[h.element].class = "Range"
  BY HandleIs, IsClass
<1>2. PICK n \in DOMAIN elements : n = h.element + 1
  <2>1. DOMAIN elements = 1 .. Len(elements) /\ Len(elements) \in Nat
    BY SequenceDomain DEF RequestInv, Shaped
  <2>2. h.element < Len(elements)
    BY <1>1 DEF RequestInv, Shaped
  <2> QED BY <1>1, <2>1, <2>2
<1>3. Sound(Here(n)) /\ Here(n).elements = elements
  BY HereOk
<1>4. Reaches(Here(n), Here(n), Here(n).elements[Here(n).at].class)
  <2>1. Grows(elements, elements) /\ \A a : Kept(elements, elements, a)
    BY NothingNew
  <2> QED BY <1>3, <2>1 DEF Reaches, IsA
<1>5. "gt" \in Keys /\ "lt" \in Keys /\ Scalar(v) \in Value
  BY ScalarIs DEF Keys
<1>6. PICK D : Reaches(Here(n), Put(Here(n), "gt", Scalar(v)), D)
  BY ONLY <1>3, <1>4, <1>5, PutReaches
<1>7. Writes(Put(Put(Here(n), "gt", Scalar(v)), "lt", Scalar(v)))
  BY <1>2 DEF SetRange
<1> QED BY ONLY RequestInv, n \in DOMAIN elements, <1>5, <1>6, <1>7, PutWrites

\* Query::minimum_should_match().
LEMMA MinimumStep ==
    ASSUME RequestInv, NEW h \in handles, h.class = "Query", NEW v \in Values,
           MinimumShouldMatch(h, v)
    PROVE  Done
<1>1. PICK bool : bool = MemberOf(Here(h.element), "bool")
  OBVIOUS
<1>2. Reaches(Here(h.element), bool, "QBool") /\ h.element \in DOMAIN elements
  BY <1>1, BoolReaches, HandleIs
<1>3. "minimum_should_match" \in Keys /\ Scalar(v) \in Value
  BY ScalarIs DEF Keys
<1>4. Writes(Put(bool, "minimum_should_match", Scalar(v)))
  BY <1>1 DEF MinimumShouldMatch
<1> QED BY ONLY RequestInv, <1>2, <1>3, <1>4, PutWrites

\* Updater::add() and append().
LEMMA UpdaterStep ==
    ASSUME RequestInv, NEW h \in handles, h.class = "Updater", NEW name \in Names,
           NEW v \in Values, UpdaterAdd(h, name, v) \/ UpdaterAppend(h, name, v)
    PROVE  Done
<1>1. PICK doc : doc = MemberOf(Here(h.element), "doc")
  OBVIOUS
<1>2. Reaches(Here(h.element), doc, "Object")
  <2>1. Sound(Here(h.element)) /\ Passes(Here(h.element), Here(h.element), "Updater")
    BY HereReaches
  <2>2. /\ "Updater" \in DOMAIN Members /\ "doc" \in DOMAIN Members["Updater"]
        /\ Members["Updater"]["doc"] = "Object"
    BY DEF Members
  <2> QED BY ONLY <1>1, <2>1, <2>2, MemberAfter DEF Passes
<1>3. h.element \in DOMAIN elements /\ name \in Keys /\ Scalar(v) \in Value
  BY HandleIs, ScalarIs DEF Keys
<1>4. Writes(Put(doc, name, Scalar(v))) \/ Writes(PutLast(doc, name, v))
  BY <1>1 DEF UpdaterAdd, UpdaterAppend
<1> QED BY ONLY RequestInv, <1>2, <1>3, <1>4, v \in Values, PutWrites, PutLastWrites

-----------------------------------------------------------------------------
\* A request without elements but itself.
LEMMA Beginning == Init => RequestInv
<1> SUFFICES ASSUME Init
             PROVE  RequestInv
  OBVIOUS
<1>1. PICK root \in Roots :
        /\ elements = <<Fresh(root, IF root = "Indexer" THEN "index" ELSE "", NoField)>>
        /\ handles = {[element |-> 1, class |-> root, field |-> NoField]}
        /\ mixed = FALSE
  BY DEF Init
<1>2. PICK key : key = IF root = "Indexer" THEN "index" ELSE ""
  OBVIOUS
<1>3. key \in Keys
  BY <1>2 DEF Keys
<1>4. PICK e : e = Fresh(root, key, NoField)
  OBVIOUS
<1>5. elements = <<e>>
  BY ONLY <1>1, <1>2, <1>4
<1>6. root \in Classes /\ root # "Range" /\ root # "Tokenizer"
  BY RequestAssumption DEF Classes, Arrays, QArrays
<1>7. IsFresh(e) /\ e.class = root
  <2>1. NoField \in Fields \cup {NoField}
    OBVIOUS
  <2> QED BY ONLY <1>3, <1>4, <1>6, <2>1, FreshIs
<1>8. e \in Element /\ e.subs = <<>> /\ DOMAIN e.own = {}
  BY <1>6, <1>7 DEF IsFresh
<1>9. elements \in Seq(Element) /\ DOMAIN elements = {1} /\ elements[1] = e
  BY ONLY <1>5, <1>8
<1>10. <<>> \in Functions(Nat) /\ <<>> \in Seq(Nat) /\ DOMAIN <<>> = {}
  BY EmptyFunction
<1>11. Shaped(elements)
  BY ONLY <1>6, <1>7, <1>8, <1>9, <1>10 DEF Shaped
<1>12. TreeOf(elements)
  BY ONLY <1>8, <1>9, <1>10 DEF TreeOf
<1>13. AllSent(elements)
  BY ONLY <1>8, <1>9 DEF AllSent
<1>14. HandleOk(elements, [element |-> 1, class |-> root, field |-> NoField])
  BY ONLY <1>7, <1>9 DEF HandleOk, IsA
<1> QED BY ONLY <1>1, <1>11, <1>12, <1>13, <1>14 DEF RequestInv

\* A builder preserves the invariant.
LEMMA BuildsStep ==
    ASSUME RequestInv, NEW h \in handles, Builds(h)
    PROVE  Done
<1>1. CASE h.class \in DOMAIN Members /\ Member(h)
  BY <1>1, MemberStep
<1>2. CASE h.class = "Query" /\ QueryBool(h)
  BY <1>2, QueryBoolStep
<1>3. ASSUME NEW name \in Names, h.class \in DOMAIN NamedMembers, NamedMember(h, name)
      PROVE  Done
  BY <1>3, NamedMemberStep
<1>4. ASSUME NEW name \in Names, h.class = "Indexer",
             IndexerTokenizer(h, name) \/ IndexerField(h, name)
      PROVE  Done
  BY <1>4, IndexerTokenizerStep, IndexerFieldStep
<1>5. ASSUME NEW name \in Names, NEW class \in {"Object", "Array"}, NewChild(h, class, name)
      PROVE  Done
  BY <1>5, NewChildStep
<1>6. ASSUME NEW name \in Names, AddElement(h, name)
      PROVE  Done
  BY <1>6, AddElementStep
<1>7. ASSUME NEW class \in Clauses,
             NEW field \in IF class = "MultiMatch" THEN {NoField} ELSE Fields,
             \/ h.class = "Query" /\ Clause(h, class, field)
             \/ h.class \in QArrays /\ ArrayClause(h, class, field)
      PROVE  Done
  BY <1>7, ClauseStep, ArrayClauseStep
<1> QED BY <1>1, <1>2, <1>3, <1>4, <1>5, <1>6, <1>7 DEF Builds

\* A setter preserves the invariant.
LEMMA FillsStep ==
    ASSUME RequestInv, NEW h \in handles, NEW v \in Values, Fills(h, v)
    PROVE  Done
BY AddValueStep, SetValueStep, MultiMatchStep, SetRangeStep, MinimumStep, UpdaterStep DEF Fills

\* The invariant: the elements are a well-formed tree, and everything written is
\* in it unless a key was used for two things.
THEOREM RequestInvHolds == Spec => []RequestInv
<1>1. RequestInv /\ UNCHANGED vars => RequestInv'
  BY DEF RequestInv, vars, Shaped, TreeOf, AllSent, MayHave, HandleOk
<1>2. RequestInv /\ Next => RequestInv'
  BY BuildsStep, FillsStep DEF Next, Done
<1> QED BY <1>1, <1>2, Beginning, PTL DEF Spec

\* Types; what a builder returns is of the class it promises, and the pointer
\* _sub of a range points to an object (dynamic_pointer_cast in elastic.h:48,
\* elastic.h:200), however many elements and names there are.
THEOREM TypeCorrect == Spec => []TypeOK
BY RequestInvHolds, InvariantTypes, PTL

\* The elements of a request are a tree, so that value() ends and sends no
\* element twice.
THEOREM IsTreeHolds == Spec => []IsTree
<1>1. RequestInv => IsTree
  BY DEF RequestInv, IsTree
<1> QED BY <1>1, RequestInvHolds, PTL

\* Whatever the order of the calls, what is written is sent, unless a key of an
\* object was used for two things.
THEOREM WrittenIsSentHolds == Spec => []WrittenIsSent
<1>1. RequestInv => WrittenIsSent
  BY DEF RequestInv, WrittenIsSent
<1> QED BY <1>1, RequestInvHolds, PTL

-----------------------------------------------------------------------------
(* The document: where in it each element is, and what Leaves gives.       *)

\* Numbers from 0 on, and a set of them that has the next of each it has.
LEMMA LeastNumber ==
    ASSUME NEW T \in SUBSET Nat, T # {}
    PROVE  \E x \in T : \A y \in T : x <= y
<1> DEFINE R == OpToRel(<, Nat)
<1>1. \E x \in T : \A y \in T : ~(<<y, x>> \in R)
  <2>1. IsWellFoundedOn(R, Nat)
    BY NatLessThanWellFounded
  <2> HIDE DEF R
  <2> QED BY <2>1, WFMin
<1>2. \A x, y \in Nat : x < y => <<x, y>> \in R
  BY DEF OpToRel
<1> HIDE DEF R
<1>3. PICK x \in T : \A y \in T : ~(<<y, x>> \in R)
  BY <1>1
<1>4. \A y \in T : ~(y < x)
  BY <1>2, <1>3
<1> QED BY <1>4

LEMMA Induction ==
    ASSUME NEW S \in SUBSET Nat, 0 \in S, \A n \in S : n + 1 \in S
    PROVE  \A n \in Nat : n \in S
<1>1. SUFFICES ASSUME Nat \ S # {} PROVE FALSE
  OBVIOUS
<1>2. PICK x \in Nat \ S : \A y \in Nat \ S : x <= y
  BY <1>1, LeastNumber
<1>3. x # 0 /\ x - 1 \in Nat /\ x - 1 \notin Nat \ S
  BY <1>2
<1> QED BY <1>2, <1>3

\* The step from an element to its child, and elements of a request.
Steps == [key : Keys, index : Nat]
StepTo(e, k) == IF e.class \in Arrays THEN At("", k) ELSE At(k, 0)
Request(es) == Shaped(es) /\ TreeOf(es) /\ AllSent(es) /\ 1 \in DOMAIN es

LEMMA RequestFacts ==
    ASSUME NEW es, Request(es)
    PROVE  /\ DOMAIN es = 1 .. Len(es) /\ Len(es) \in Nat /\ Len(es) >= 1
           /\ \A p \in DOMAIN es : \A k \in DOMAIN es[p].subs :
                /\ es[p].subs[k] \in DOMAIN es /\ es[p].subs[k] > p
                /\ StepTo(es[p], k) \in Steps
                /\ \A q \in DOMAIN es : \A l \in DOMAIN es[q].subs :
                     es[p].subs[k] = es[q].subs[l] => p = q /\ k = l
                /\ \A l \in DOMAIN es[p].subs : StepTo(es[p], k) = StepTo(es[p], l) => k = l
           /\ \A n \in DOMAIN es : n # 1 =>
                \E p \in DOMAIN es : \E k \in DOMAIN es[p].subs : p < n /\ es[p].subs[k] = n
           /\ \A n \in DOMAIN es : \A k \in DOMAIN es[n].own :
                /\ At(k, 0) \in Steps
                /\ \A l \in DOMAIN es[n].subs : At(k, 0) # StepTo(es[n], l)
           /\ \A k, l : At(k, 0) = At(l, 0) => k = l
<1>1. DOMAIN es = 1 .. Len(es) /\ Len(es) \in Nat /\ Len(es) >= 1 /\ es \in Seq(Element)
  BY SequenceDomain DEF Request, Shaped
<1>2. "" \in Keys
  BY DEF Keys
<1>3. \A k, l : At(k, 0) = At(l, 0) => k = l
  BY DEF At
<1>4. \A k, l : At("", k) = At("", l) => k = l
  BY DEF At
<1>5. ASSUME NEW p \in DOMAIN es, NEW k \in DOMAIN es[p].subs
      PROVE  /\ es[p].subs[k] \in DOMAIN es /\ es[p].subs[k] > p
             /\ StepTo(es[p], k) \in Steps
             /\ \A q \in DOMAIN es : \A l \in DOMAIN es[q].subs :
                  es[p].subs[k] = es[q].subs[l] => p = q /\ k = l
             /\ \A l \in DOMAIN es[p].subs : StepTo(es[p], k) = StepTo(es[p], l) => k = l
  <2>1. es[p].subs[k] \in DOMAIN es
    BY <1>1 DEF Request, Shaped
  <2>2. /\ es[p].subs[k] > p
        /\ \A q \in DOMAIN es : \A l \in DOMAIN es[q].subs :
             es[p].subs[k] = es[q].subs[l] => p = q /\ k = l
    BY DEF Request, TreeOf
  <2>3. StepTo(es[p], k) \in Steps
    <3>1. CASE es[p].class \in Arrays
      <4>1. es[p].subs \in Seq(Nat)
        BY <3>1 DEF Request, Shaped
      <4>2. k \in Nat
        BY <4>1
      <4> QED BY <1>2, <3>1, <4>2 DEF StepTo, At, Steps
    <3>2. CASE es[p].class \notin Arrays
      <4>1. es[p].subs \in Functions(Nat)
        BY <3>2 DEF Request, Shaped
      <4>2. k \in Keys
        BY <4>1 DEF Functions
      <4> QED BY <3>2, <4>2 DEF StepTo, At, Steps
    <3> QED BY <3>1, <3>2
  <2>4. \A l \in DOMAIN es[p].subs : StepTo(es[p], k) = StepTo(es[p], l) => k = l
    BY <1>3, <1>4 DEF StepTo
  <2> QED BY <2>1, <2>2, <2>3, <2>4
<1>6. ASSUME NEW n \in DOMAIN es, n # 1
      PROVE  \E p \in DOMAIN es : \E k \in DOMAIN es[p].subs : p < n /\ es[p].subs[k] = n
  <2>1. PICK p \in 1 .. (n - 1) : \E k \in DOMAIN es[p].subs : es[p].subs[k] = n
    BY <1>6 DEF Request, AllSent
  <2>2. p \in DOMAIN es /\ p < n
    BY <1>1
  <2> QED BY <2>1, <2>2
<1>7. ASSUME NEW n \in DOMAIN es, NEW k \in DOMAIN es[n].own
      PROVE  /\ At(k, 0) \in Steps
             /\ \A l \in DOMAIN es[n].subs : At(k, 0) # StepTo(es[n], l)
  <2>1. es[n].class \notin Arrays /\ k \notin DOMAIN es[n].subs
    BY DEF Request, AllSent, MayHave
  <2>2. \A l \in DOMAIN es[n].subs : At(k, 0) # StepTo(es[n], l)
    BY <1>3, <2>1 DEF StepTo
  <2>3. es[n] \in Element
    BY <1>1
  <2>4. es[n].own \in Functions(Value)
    BY <2>3 DEF Element
  <2>5. k \in Keys
    BY <2>4 DEF Functions
  <2> QED BY <2>2, <2>5 DEF At, Steps
<1> QED BY ONLY <1>1, <1>3, <1>5, <1>6, <1>7

\* W gives each of the first N elements its path from the root.
PlacesTo(es, W, N) ==
    /\ W \in [1 .. N -> Seq(Steps)]
    /\ 1 \in DOMAIN W => W[1] = <<>>
    /\ \A p \in 1 .. N : \A k \in DOMAIN es[p].subs :
         es[p].subs[k] \in 1 .. N => W[es[p].subs[k]] = Append(W[p], StepTo(es[p], k))

Places(es, W) ==
    /\ W \in [DOMAIN es -> Seq(Steps)]
    /\ W[1] = <<>>
    /\ \A p \in DOMAIN es : \A k \in DOMAIN es[p].subs :
         W[es[p].subs[k]] = Append(W[p], StepTo(es[p], k))

\* Each element has a place, below that of its parent.
LEMMA PlacesExist ==
    ASSUME NEW es, Request(es)
    PROVE  \E W : Places(es, W)
<1>1. /\ DOMAIN es = 1 .. Len(es) /\ Len(es) \in Nat /\ Len(es) >= 1
      /\ \A p \in DOMAIN es : \A k \in DOMAIN es[p].subs :
           /\ es[p].subs[k] \in DOMAIN es /\ es[p].subs[k] > p
           /\ StepTo(es[p], k) \in Steps
           /\ \A q \in DOMAIN es : \A l \in DOMAIN es[q].subs :
                es[p].subs[k] = es[q].subs[l] => p = q /\ k = l
  BY RequestFacts
<1>p. \A n \in DOMAIN es : n # 1 =>
        \E p \in DOMAIN es : \E k \in DOMAIN es[p].subs : p < n /\ es[p].subs[k] = n
  BY RequestFacts
<1> DEFINE S == {n \in Nat : n <= Len(es) => \E W : PlacesTo(es, W, n)}
<1>2. 0 \in S
  <2>1. PICK W : W = [i \in 1 .. 0 |-> <<>>]
    OBVIOUS
  <2>2. PlacesTo(es, W, 0)
    BY <2>1 DEF PlacesTo
  <2> QED BY <2>2
<1>3. ASSUME NEW n \in S
      PROVE  n + 1 \in S
  <2> SUFFICES ASSUME n + 1 <= Len(es)
               PROVE  \E W : PlacesTo(es, W, n + 1)
    OBVIOUS
  <2>0. n \in Nat /\ n + 1 \in DOMAIN es
    BY <1>1
  <2>1. PICK W : PlacesTo(es, W, n)
    BY <1>1
  <2>2. PICK w \in Seq(Steps) :
          /\ n = 0 => w = <<>>
          /\ \A p \in 1 .. n : \A k \in DOMAIN es[p].subs :
               es[p].subs[k] = n + 1 => w = Append(W[p], StepTo(es[p], k))
    <3>1. CASE n = 0
      <4>1. PICK w \in Seq(Steps) : w = <<>>
        BY EmptySeq
      <4>2. \A p \in 1 .. n : FALSE
        BY <3>1
      <4> QED BY <3>1, <4>1, <4>2
    <3>2. CASE n # 0
      <4>1. PICK p \in DOMAIN es : \E k \in DOMAIN es[p].subs : p < n + 1 /\ es[p].subs[k] = n + 1
        BY <1>1, <1>p, <2>0, <3>2
      <4>2. PICK k \in DOMAIN es[p].subs : p < n + 1 /\ es[p].subs[k] = n + 1
        BY <4>1
      <4>3. p \in 1 .. n
        BY <1>1, <2>0, <4>2
      <4>4. Append(W[p], StepTo(es[p], k)) \in Seq(Steps)
        <5>1. W[p] \in Seq(Steps) /\ StepTo(es[p], k) \in Steps
          BY <1>1, <2>1, <4>3 DEF PlacesTo
        <5> QED BY <5>1
      <4>5. \A q \in 1 .. n : \A l \in DOMAIN es[q].subs :
              es[q].subs[l] = n + 1 => q = p /\ l = k
        <5>1. 1 .. n \subseteq DOMAIN es
          BY <1>1, <2>0
        <5> QED BY <1>1, <4>2, <5>1
      <4> QED BY <3>2, <4>4, <4>5
    <3> QED BY <3>1, <3>2
  <2>3. PICK V : V = [i \in 1 .. n + 1 |-> IF i = n + 1 THEN w ELSE W[i]]
    OBVIOUS
  <2>4. V \in [1 .. n + 1 -> Seq(Steps)]
    BY <2>0, <2>1, <2>3 DEF PlacesTo
  <2>5. V[1] = <<>>
    <3>1. CASE n = 0
      BY <2>2, <2>3, <3>1
    <3>2. CASE n # 0
      <4>1. 1 \in 1 .. n
        BY <2>0, <3>2
      <4> QED BY <2>0, <2>1, <2>3, <4>1 DEF PlacesTo
    <3> QED BY <3>1, <3>2
  <2>6. ASSUME NEW p \in 1 .. n + 1, NEW k \in DOMAIN es[p].subs, es[p].subs[k] \in 1 .. n + 1
        PROVE  V[es[p].subs[k]] = Append(V[p], StepTo(es[p], k))
    <3>1. p \in 1 .. n /\ V[p] = W[p]
      <4>1. p \in DOMAIN es
        BY <1>1, <2>0
      <4>2. es[p].subs[k] > p
        BY <1>1, <4>1
      <4>3. p \in 1 .. n
        BY <2>0, <2>6, <4>2
      <4> QED BY <2>0, <2>3, <4>3
    <3>2. CASE es[p].subs[k] = n + 1
      <4>1. V[n + 1] = w
        BY <2>0, <2>3
      <4> QED BY <2>2, <3>1, <3>2, <4>1
    <3>3. CASE es[p].subs[k] # n + 1
      <4>1. es[p].subs[k] \in 1 .. n
        BY <2>0, <2>6, <3>3
      <4>2. V[es[p].subs[k]] = W[es[p].subs[k]]
        BY <2>0, <2>3, <4>1
      <4> QED BY <2>1, <3>1, <4>1, <4>2 DEF PlacesTo
    <3> QED BY <3>2, <3>3
  <2>7. PlacesTo(es, V, n + 1)
    BY ONLY <2>4, <2>5, <2>6 DEF PlacesTo
  <2> QED BY <2>7
<1>4. Len(es) \in S
  <2>1. S \in SUBSET Nat
    OBVIOUS
  <2> HIDE DEF S
  <2> QED BY <1>1, <1>2, <1>3, <2>1, Induction
<1>5. PICK W : PlacesTo(es, W, Len(es))
  BY <1>1, <1>4
<1>6. Places(es, W)
  <2>1. 1 \in 1 .. Len(es)
    BY <1>1
  <2>2. W \in [DOMAIN es -> Seq(Steps)] /\ DOMAIN W = 1 .. Len(es)
    BY <1>1, <1>5 DEF PlacesTo
  <2> QED BY <1>1, <1>5, <2>1, <2>2 DEF PlacesTo, Places
<1> QED BY <1>6

\* A prefix, step by step.
LEMMA PrefixIs ==
    ASSUME NEW s \in Seq(Steps), NEW t \in Seq(Steps)
    PROVE  IsPrefix(s, t) <=> Len(s) <= Len(t) /\ \A i \in 1 .. Len(s) : s[i] = t[i]
<1>1. Len(s) \in Nat /\ Len(t) \in Nat
  OBVIOUS
<1>2. ASSUME Len(s) <= Len(t)
      PROVE  SubSeq(s, 1, Len(s)) = SubSeq(t, 1, Len(s)) <=> \A i \in 1 .. Len(s) : s[i] = t[i]
  <2>1. SubSeq(s, 1, Len(s)) = s
    BY SubSeqFull
  <2>2. PICK u : u = SubSeq(t, 1, Len(s))
    OBVIOUS
  <2>3. \A i \in 1 .. Len(s) : t[i] \in Steps
    BY <1>1, <1>2
  <2>4. u \in Seq(Steps) /\ Len(u) = Len(s) /\ \A i \in 1 .. Len(s) : u[i] = t[i]
    <3>1. 1 \in Int /\ Len(s) \in Int
      BY <1>1
    <3>2. /\ u \in Seq(Steps)
          /\ Len(u) = IF 1 <= Len(s) THEN Len(s) - 1 + 1 ELSE 0
          /\ \A i \in 1 .. Len(s) - 1 + 1 : u[i] = t[1 + i - 1]
      BY ONLY <2>2, <2>3, <3>1, SubSeqProperties
    <3>3. Len(u) = Len(s)
      BY <1>1, <3>2
    <3>4. \A i \in 1 .. Len(s) : u[i] = t[i]
      BY <1>1, <3>2
    <3> QED BY <3>2, <3>3, <3>4
  <2>5. s = u <=> \A i \in 1 .. Len(s) : s[i] = t[i]
    <3>1. ASSUME \A i \in 1 .. Len(s) : s[i] = t[i] PROVE s = u
      <4>1. \A i \in 1 .. Len(s) : s[i] = u[i]
        BY <2>4, <3>1
      <4> QED BY <2>4, <4>1, SeqEqual
    <3> QED BY <2>4, <3>1
  <2> QED BY <2>1, <2>2, <2>5
<1> QED BY <1>1, <1>2 DEF IsPrefix

\* A prefix of a sequence is all of it or is without its last step.
LEMMA PrefixOfAppend ==
    ASSUME NEW s \in Seq(Steps), NEW t \in Seq(Steps), NEW b \in Steps,
           NEW u, u = Append(t, b), IsPrefix(s, u)
    PROVE  s = u \/ IsPrefix(s, t)
<1>1. /\ u \in Seq(Steps) /\ Len(u) = Len(t) + 1 /\ Len(t) \in Nat /\ Len(s) \in Nat
      /\ \A i \in 1 .. Len(t) : u[i] = t[i]
  BY AppendProperties
<1>2. Len(s) <= Len(u) /\ \A i \in 1 .. Len(s) : s[i] = u[i]
  BY <1>1, PrefixIs
<1>3. CASE Len(s) = Len(u)
  BY <1>1, <1>2, <1>3, SeqEqual
<1>4. CASE Len(s) # Len(u)
  <2>1. Len(s) <= Len(t)
    BY <1>1, <1>2, <1>4
  <2>2. ASSUME NEW i \in 1 .. Len(s)
        PROVE  s[i] = t[i]
    <3>1. i \in 1 .. Len(t)
      BY ONLY <1>1, <2>1, i \in 1 .. Len(s)
    <3> QED BY ONLY <1>1, <1>2, <3>1, i \in 1 .. Len(s)
  <2> QED BY ONLY <2>1, <2>2, s \in Seq(Steps), t \in Seq(Steps), PrefixIs
<1> QED BY <1>3, <1>4

\* Prefixes of prefixes, and the beginning of a sequence that was appended to.
LEMMA PrefixOn ==
    ASSUME NEW s \in Seq(Steps), NEW t \in Seq(Steps), NEW u \in Seq(Steps), NEW a \in Steps
    PROVE  /\ IsPrefix(s, s)
           /\ IsPrefix(s, Append(s, a))
           /\ IsPrefix(s, t) /\ IsPrefix(t, u) => IsPrefix(s, u)
<1>1. IsPrefix(s, s)
  <2>1. Len(s) \in Nat
    OBVIOUS
  <2> QED BY <2>1, PrefixIs
<1>2. IsPrefix(s, Append(s, a))
  <2>1. PICK v \in Seq(Steps) : v = Append(s, a)
    BY AppendProperties
  <2>2. Len(v) = Len(s) + 1 /\ Len(s) \in Nat /\ \A i \in 1 .. Len(s) : v[i] = s[i]
    BY <2>1, AppendProperties
  <2>3. IsPrefix(s, v)
    BY <2>2, PrefixIs
  <2> QED BY <2>1, <2>3
<1>3. ASSUME IsPrefix(s, t), IsPrefix(t, u) PROVE IsPrefix(s, u)
  <2>1. Len(s) <= Len(t) /\ \A i \in 1 .. Len(s) : s[i] = t[i]
    BY <1>3, PrefixIs
  <2>2. Len(t) <= Len(u) /\ \A i \in 1 .. Len(t) : t[i] = u[i]
    BY <1>3, PrefixIs
  <2>3. Len(s) \in Nat /\ Len(t) \in Nat /\ Len(u) \in Nat
    OBVIOUS
  <2> QED BY <2>1, <2>2, <2>3, PrefixIs
<1> QED BY <1>1, <1>2, <1>3

\* What sequences that end in one step have in common.
LEMMA AppendFacts ==
    ASSUME NEW s \in Seq(Steps), NEW t \in Seq(Steps), NEW a \in Steps, NEW b \in Steps
    PROVE  /\ Append(s, a) \in Seq(Steps) /\ Append(s, a) # <<>>
           /\ Append(s, a) = Append(t, b) => s = t /\ a = b
           /\ Front(Append(s, a)) = s
           /\ IsPrefix(Append(s, a), Append(t, b)) =>
                Append(s, a) = Append(t, b) \/ IsPrefix(Append(s, a), t)
           /\ ~IsPrefix(Append(s, a), <<>>)
<1>1. PICK sa : sa = Append(s, a)
  OBVIOUS
<1>2. PICK tb : tb = Append(t, b)
  OBVIOUS
<1>3. /\ sa \in Seq(Steps) /\ sa # <<>> /\ Len(sa) = Len(s) + 1 /\ Len(s) \in Nat
      /\ \A i \in 1 .. Len(s) : sa[i] = s[i]
  BY <1>1, AppendProperties
<1>4. /\ tb \in Seq(Steps) /\ Len(tb) = Len(t) + 1 /\ Len(t) \in Nat
      /\ \A i \in 1 .. Len(t) : tb[i] = t[i]
  BY <1>2, AppendProperties
<1>5. Front(sa) = s
  <2>1. PICK u : u = SubSeq(sa, 1, Len(s))
    OBVIOUS
  <2>2. \A i \in 1 .. Len(s) : sa[i] \in Steps
    BY <1>3
  <2>3. 1 \in Int /\ Len(s) \in Int
    BY <1>3
  <2>4. /\ u \in Seq(Steps)
        /\ Len(u) = IF 1 <= Len(s) THEN Len(s) - 1 + 1 ELSE 0
        /\ \A i \in 1 .. Len(s) - 1 + 1 : u[i] = sa[1 + i - 1]
    BY ONLY <2>1, <2>2, <2>3, SubSeqProperties
  <2>5. Len(u) = Len(s)
    BY <1>3, <2>4
  <2>6. \A i \in 1 .. Len(s) : u[i] = s[i]
    BY <1>3, <2>4
  <2>7. u = s
    BY <2>4, <2>5, <2>6, SeqEqual
  <2>8. Len(sa) - 1 = Len(s)
    BY <1>3
  <2> QED BY <2>1, <2>7, <2>8 DEF Front
<1>6. ASSUME IsPrefix(sa, tb), sa # tb
      PROVE  IsPrefix(sa, t)
  <2>1. Len(sa) <= Len(tb) /\ \A i \in 1 .. Len(sa) : sa[i] = tb[i]
    BY <1>3, <1>4, <1>6, PrefixIs
  <2>2. Len(sa) # Len(tb)
    BY <1>3, <1>4, <1>6, <2>1, SeqEqual
  <2>3. Len(sa) <= Len(t)
    BY <1>3, <1>4, <2>1, <2>2
  <2>4. ASSUME NEW i \in 1 .. Len(sa)
        PROVE  sa[i] = t[i]
    <3>1. i \in 1 .. Len(t)
      BY ONLY <1>3, <1>4, <2>3, i \in 1 .. Len(sa)
    <3> QED BY ONLY <1>4, <2>1, <3>1, i \in 1 .. Len(sa)
  <2> QED BY ONLY <1>3, <2>3, <2>4, t \in Seq(Steps), PrefixIs
<1>7. ~IsPrefix(sa, <<>>)
  <2>1. PICK e \in Seq(Steps) : e = <<>> /\ Len(e) = 0
    BY EmptySeq
  <2>2. Len(e) = 0
    BY <2>1
  <2>3. ~(Len(sa) <= Len(e))
    BY <1>3, <2>2
  <2>4. ~IsPrefix(sa, e)
    BY <1>3, <2>3, PrefixIs
  <2> QED BY <2>1, <2>4
<1>8. Append(s, a) = Append(t, b) => s = t /\ a = b
  BY AppendInjective
<1> QED BY <1>1, <1>2, <1>3, <1>5, <1>6, <1>7, <1>8

\* No two elements have the same place, and only the root has none.
LEMMA PlacesDiffer ==
    ASSUME NEW es, Request(es), NEW W, Places(es, W),
           NEW m \in DOMAIN es, NEW n \in DOMAIN es, W[m] = W[n]
    PROVE  m = n
<1> DEFINE S == {i \in Nat : \A x \in DOMAIN es : \A y \in DOMAIN es :
                               x <= i /\ W[x] = W[y] => x = y}
<1>1. /\ DOMAIN es = 1 .. Len(es) /\ Len(es) \in Nat
      /\ \A p \in DOMAIN es : \A k \in DOMAIN es[p].subs :
           /\ StepTo(es[p], k) \in Steps
           /\ \A l \in DOMAIN es[p].subs : StepTo(es[p], k) = StepTo(es[p], l) => k = l
  BY RequestFacts
<1>p. \A x \in DOMAIN es : x # 1 =>
        \E p \in DOMAIN es : \E k \in DOMAIN es[p].subs : p < x /\ es[p].subs[k] = x
  BY RequestFacts
<1>2. ASSUME NEW x \in DOMAIN es, x # 1
      PROVE  \E p \in DOMAIN es : \E k \in DOMAIN es[p].subs :
               p < x /\ es[p].subs[k] = x /\ W[x] = Append(W[p], StepTo(es[p], k)) /\ W[x] # <<>>
  <2>1. PICK p \in DOMAIN es : \E k \in DOMAIN es[p].subs : p < x /\ es[p].subs[k] = x
    BY <1>2, <1>p
  <2>2. PICK k \in DOMAIN es[p].subs : p < x /\ es[p].subs[k] = x
    BY <2>1
  <2>3. W[x] = Append(W[p], StepTo(es[p], k))
    BY <2>2 DEF Places
  <2>4. W[p] \in Seq(Steps) /\ StepTo(es[p], k) \in Steps
    BY <1>1 DEF Places
  <2>5. W[x] # <<>>
    BY <2>3, <2>4, AppendProperties
  <2> QED BY <2>2, <2>3, <2>5
<1>3. 0 \in S
  BY <1>1
<1>4. ASSUME NEW i \in S
      PROVE  i + 1 \in S
  <2> SUFFICES ASSUME NEW x \in DOMAIN es, NEW y \in DOMAIN es, x = i + 1, W[x] = W[y]
               PROVE  x = y
    BY <1>1
  <2>1. CASE x = 1
    <3>1. W[x] = <<>>
      BY <2>1 DEF Places
    <3> QED BY <1>2, <2>1, <3>1
  <2>2. CASE x # 1
    <3>1. PICK p \in DOMAIN es : \E k \in DOMAIN es[p].subs :
               p < x /\ es[p].subs[k] = x /\ W[x] = Append(W[p], StepTo(es[p], k)) /\ W[x] # <<>>
      BY <1>2, <2>2
    <3>2. PICK k \in DOMAIN es[p].subs :
               p < x /\ es[p].subs[k] = x /\ W[x] = Append(W[p], StepTo(es[p], k)) /\ W[x] # <<>>
      BY <3>1
    <3>3. y # 1
      BY <3>2 DEF Places
    <3>4. PICK q \in DOMAIN es : \E l \in DOMAIN es[q].subs :
               q < y /\ es[q].subs[l] = y /\ W[y] = Append(W[q], StepTo(es[q], l)) /\ W[y] # <<>>
      BY <1>2, <3>3
    <3>5. PICK l \in DOMAIN es[q].subs :
               q < y /\ es[q].subs[l] = y /\ W[y] = Append(W[q], StepTo(es[q], l)) /\ W[y] # <<>>
      BY <3>4
    <3>6. W[p] \in Seq(Steps) /\ W[q] \in Seq(Steps) /\ StepTo(es[p], k) \in Steps /\ StepTo(es[q], l) \in Steps
      BY <1>1 DEF Places
    <3>7. W[p] = W[q] /\ StepTo(es[p], k) = StepTo(es[q], l)
      <4>1. Append(W[p], StepTo(es[p], k)) = Append(W[q], StepTo(es[q], l))
        BY <3>2, <3>5
      <4> QED BY ONLY <3>6, <4>1, AppendInjective
    <3>8. p <= i
      BY <1>1, <3>2
    <3>9. p = q
      BY <3>7, <3>8
    <3> QED BY <1>1, <3>2, <3>5, <3>7, <3>9
  <2> QED BY <2>1, <2>2
<1>5. S \in SUBSET Nat
  OBVIOUS
<1>6. m \in Nat /\ m <= m
  BY <1>1
<1>7. m \in S
  <2> HIDE DEF S
  <2> QED BY <1>3, <1>4, <1>5, <1>6, Induction
<1> QED BY <1>6, <1>7

\* An element below the place of another's step is below a child of that one.
LEMMA ChildOnTheWay ==
    ASSUME NEW es, Request(es), NEW W, Places(es, W),
           NEW m \in DOMAIN es, NEW a \in Steps, NEW n \in DOMAIN es,
           IsPrefix(Append(W[m], a), W[n])
    PROVE  \E k \in DOMAIN es[m].subs : a = StepTo(es[m], k)
<1> DEFINE S == {i \in Nat : \A x \in DOMAIN es :
                               x <= i /\ IsPrefix(Append(W[m], a), W[x]) =>
                                 \E k \in DOMAIN es[m].subs : a = StepTo(es[m], k)}
<1>1. /\ DOMAIN es = 1 .. Len(es) /\ Len(es) \in Nat
      /\ \A p \in DOMAIN es : \A k \in DOMAIN es[p].subs : StepTo(es[p], k) \in Steps
  BY RequestFacts
<1>2. \A x \in DOMAIN es : x # 1 =>
        \E p \in DOMAIN es : \E k \in DOMAIN es[p].subs : p < x /\ es[p].subs[k] = x
  BY RequestFacts
<1>3. 0 \in S
  BY <1>1
<1>4. ASSUME NEW i \in S
      PROVE  i + 1 \in S
  <2> SUFFICES ASSUME NEW x \in DOMAIN es, x = i + 1, IsPrefix(Append(W[m], a), W[x])
               PROVE  \E k \in DOMAIN es[m].subs : a = StepTo(es[m], k)
    BY <1>1
  <2>0. W[m] \in Seq(Steps)
    BY DEF Places
  <2>1. x # 1
    BY <2>0, AppendFacts DEF Places
  <2>2. PICK p \in DOMAIN es : \E k \in DOMAIN es[p].subs : p < x /\ es[p].subs[k] = x
    BY <1>2, <2>1
  <2>3. PICK k \in DOMAIN es[p].subs : p < x /\ es[p].subs[k] = x
    BY <2>2
  <2>4. W[x] = Append(W[p], StepTo(es[p], k)) /\ W[p] \in Seq(Steps) /\ StepTo(es[p], k) \in Steps
    BY <1>1, <2>3 DEF Places
  <2>5. Append(W[m], a) = W[x] \/ IsPrefix(Append(W[m], a), W[p])
    BY <2>0, <2>4, AppendFacts
  <2>6. CASE Append(W[m], a) = W[x]
    <3>1. W[m] = W[p] /\ a = StepTo(es[p], k)
      <4>1. Append(W[m], a) = Append(W[p], StepTo(es[p], k))
        BY <2>4, <2>6
      <4> QED BY ONLY <2>0, <2>4, <4>1, AppendInjective, a \in Steps
    <3>2. m = p
      BY <3>1, PlacesDiffer
    <3> QED BY <3>1, <3>2
  <2>7. CASE IsPrefix(Append(W[m], a), W[p])
    <3>1. p <= i
      BY <1>1, <2>3
    <3> QED BY <2>7, <3>1
  <2> QED BY <2>5, <2>6, <2>7
<1>5. S \in SUBSET Nat
  OBVIOUS
<1>6. n \in Nat /\ n <= n
  BY <1>1
<1>7. n \in S
  <2> HIDE DEF S
  <2> QED BY <1>3, <1>4, <1>5, <1>6, Induction
<1> QED BY <1>6, <1>7

\* Nothing is below the place of an element without children.
LEMMA NothingBelow ==
    ASSUME NEW es, Request(es), NEW W, Places(es, W),
           NEW m \in DOMAIN es, DOMAIN es[m].subs = {}, NEW n \in DOMAIN es,
           IsPrefix(W[m], W[n])
    PROVE  m = n
<1> DEFINE S == {i \in Nat : \A x \in DOMAIN es :
                               x <= i /\ IsPrefix(W[m], W[x]) => m = x}
<1>1. /\ DOMAIN es = 1 .. Len(es) /\ Len(es) \in Nat
      /\ \A p \in DOMAIN es : \A k \in DOMAIN es[p].subs : StepTo(es[p], k) \in Steps
  BY RequestFacts
<1>2. \A x \in DOMAIN es : x # 1 =>
        \E p \in DOMAIN es : \E k \in DOMAIN es[p].subs : p < x /\ es[p].subs[k] = x
  BY RequestFacts
<1>3. 0 \in S
  BY <1>1
<1>4. ASSUME NEW i \in S
      PROVE  i + 1 \in S
  <2> SUFFICES ASSUME NEW x \in DOMAIN es, x = i + 1, IsPrefix(W[m], W[x])
               PROVE  m = x
    BY <1>1
  <2>0. W[m] \in Seq(Steps)
    BY DEF Places
  <2>1. CASE x = 1
    <3>1. PICK e \in Seq(Steps) : e = <<>> /\ Len(e) = 0
      BY EmptySeq
    <3>2. W[x] = e
      BY <2>1, <3>1 DEF Places
    <3>3. PICK w \in Seq(Steps) : w = W[m]
      BY <2>0
    <3>4. IsPrefix(w, e)
      BY <3>2, <3>3
    <3>5. Len(w) <= Len(e) /\ Len(w) \in Nat
      BY ONLY <3>4, w \in Seq(Steps), e \in Seq(Steps), PrefixIs
    <3>6. Len(w) = Len(e) /\ \A j \in 1 .. Len(w) : w[j] = e[j]
      BY ONLY <3>1, <3>5
    <3>7. W[m] = e
      BY <3>3, <3>6, SeqEqual
    <3> QED BY <3>2, <3>7, PlacesDiffer
  <2>2. CASE x # 1
    <3>1. PICK p \in DOMAIN es : \E k \in DOMAIN es[p].subs : p < x /\ es[p].subs[k] = x
      BY <1>2, <2>2
    <3>2. PICK k \in DOMAIN es[p].subs : p < x /\ es[p].subs[k] = x
      BY <3>1
    <3>3. W[x] = Append(W[p], StepTo(es[p], k)) /\ W[p] \in Seq(Steps) /\ StepTo(es[p], k) \in Steps
      BY <1>1, <3>2 DEF Places
    <3>4. W[m] = W[x] \/ IsPrefix(W[m], W[p])
      BY <2>0, <3>3, PrefixOfAppend
    <3>5. CASE W[m] = W[x]
      BY <3>5, PlacesDiffer
    <3>6. CASE IsPrefix(W[m], W[p])
      <4>1. p <= i
        BY <1>1, <3>2
      <4>2. m = p
        BY <3>6, <4>1
      <4> QED BY <3>2, <4>2
    <3> QED BY <3>4, <3>5, <3>6
  <2> QED BY <2>1, <2>2
<1>5. S \in SUBSET Nat
  OBVIOUS
<1>6. n \in Nat /\ n <= n
  BY <1>1
<1>7. n \in S
  <2> HIDE DEF S
  <2> QED BY <1>3, <1>4, <1>5, <1>6, Induction
<1> QED BY <1>6, <1>7

-----------------------------------------------------------------------------
(* Leaves gives the own values of all elements, each at its place, and a   *)
(* null for each element that has nothing.                                 *)

\* The leaves that element n has when its children have those of f.
LeafSet(es, n, f) ==
    LET e == es[n]
        step(k) == IF e.class \in Arrays THEN At("", k) ELSE At(k, 0)
    IN OwnLeaves(e)
       \cup UNION {{[leaf EXCEPT !.path = <<step(k)>> \o @] : leaf \in f[e.subs[k]]}
                    : k \in DOMAIN e.subs}

\* A leaf of a child, as its parent has it.
Raised(leaf, a) == [leaf EXCEPT !.path = <<a>> \o @]

LeavesOf(es) == CHOOSE f : f = [n \in DOMAIN es |-> LeafSet(es, n, f)]

LEMMA LeavesAre == Leaves = LeavesOf(elements) /\ Leaves' = LeavesOf(elements')
<1>1. Leaves = LeavesOf(elements)
  BY Zenon DEF Leaves, LeavesOf, LeafSet
<1>2. Leaves' = LeavesOf(elements')
  BY Zenon DEF Leaves, LeavesOf, LeafSet
<1> QED BY <1>1, <1>2

\* The leaves of an element depend on those of its children only.
LEMMA LeafSetSame ==
    ASSUME NEW es, NEW n, NEW f, NEW g,
           \A k \in DOMAIN es[n].subs : f[es[n].subs[k]] = g[es[n].subs[k]]
    PROVE  LeafSet(es, n, f) = LeafSet(es, n, g)
<1> DEFINE Below(k, h) == {[leaf EXCEPT !.path = <<StepTo(es[n], k)>> \o @] : leaf \in h[es[n].subs[k]]}
<1>1. UNION {Below(k, f) : k \in DOMAIN es[n].subs} = UNION {Below(k, g) : k \in DOMAIN es[n].subs}
  <2>1. \A k \in DOMAIN es[n].subs : Below(k, f) = Below(k, g)
    OBVIOUS
  <2> HIDE DEF Below
  <2> QED BY <2>1
<1> QED BY <1>1, Zenon DEF LeafSet, StepTo

\* The steps of a path that goes on from an element.
LEMMA JoinStep ==
    ASSUME NEW s \in Seq(Steps), NEW a \in Steps, NEW t \in Seq(Steps)
    PROVE  /\ <<a>> \in Seq(Steps) /\ <<a>> \o t \in Seq(Steps)
           /\ s \o (<<a>> \o t) = Append(s, a) \o t
           /\ s \o <<a>> = Append(s, a)
           /\ <<>> \o t = t
<1>1. <<a>> \in Seq(Steps)
  OBVIOUS
<1>2. <<a>> \o t \in Seq(Steps)
  BY <1>1, ConcatProperties
<1>3. s \o <<a>> = Append(s, a)
  BY AppendIsConcat
<1>4. s \o (<<a>> \o t) = (s \o <<a>>) \o t
  BY <1>1, ConcatAssociative
<1>5. <<>> \o t = t
  BY ConcatEmptySeq
<1> QED BY <1>1, <1>2, <1>3, <1>4, <1>5

\* The recursion of Leaves is well defined: children are younger.
LEMMA LeavesDefined ==
    ASSUME NEW es, Request(es)
    PROVE  LeavesOf(es) = [n \in DOMAIN es |-> LeafSet(es, n, LeavesOf(es))]
<1>1. /\ DOMAIN es = 1 .. Len(es) /\ Len(es) \in Nat
      /\ \A p \in DOMAIN es : \A k \in DOMAIN es[p].subs :
           es[p].subs[k] \in DOMAIN es /\ es[p].subs[k] > p
  BY RequestFacts
<1> DEFINE From(j) == j .. Len(es)
           S == {i \in Nat : i <= Len(es) =>
                   \E f : f = [n \in (Len(es) - i + 1) .. Len(es) |-> LeafSet(es, n, f)]}
<1>2. 0 \in S
  <2>1. PICK f : f = [n \in {} |-> {}]
    OBVIOUS
  <2>2. (Len(es) - 0 + 1) .. Len(es) = {}
    BY <1>1
  <2>3. f = [n \in (Len(es) - 0 + 1) .. Len(es) |-> LeafSet(es, n, f)]
    BY <2>1, <2>2
  <2> QED BY <2>3
<1>3. ASSUME NEW i \in S
      PROVE  i + 1 \in S
  <2> SUFFICES ASSUME i + 1 <= Len(es)
               PROVE  \E g : g = [n \in (Len(es) - (i + 1) + 1) .. Len(es) |-> LeafSet(es, n, g)]
    OBVIOUS
  <2>1. PICK f : f = [n \in (Len(es) - i + 1) .. Len(es) |-> LeafSet(es, n, f)]
    BY <1>1
  <2>2. PICK j \in DOMAIN es : j = Len(es) - i /\ j = Len(es) - (i + 1) + 1 /\ Len(es) - i + 1 = j + 1
    BY <1>1
  <2>3. PICK g : g = [n \in j .. Len(es) |-> IF n = j THEN LeafSet(es, j, f) ELSE f[n]]
    OBVIOUS
  <2>4. f = [n \in (j + 1) .. Len(es) |-> LeafSet(es, n, f)]
    BY <2>1, <2>2
  <2>5. ASSUME NEW n \in j .. Len(es)
        PROVE  g[n] = LeafSet(es, n, g)
    <3>0. n \in DOMAIN es
      BY <1>1, <2>2
    <3>1. \A k \in DOMAIN es[n].subs : f[es[n].subs[k]] = g[es[n].subs[k]]
      <4> SUFFICES ASSUME NEW k \in DOMAIN es[n].subs
                   PROVE  f[es[n].subs[k]] = g[es[n].subs[k]]
        OBVIOUS
      <4>1. es[n].subs[k] \in j .. Len(es) /\ es[n].subs[k] # j
        BY <1>1, <2>2, <3>0
      <4> QED BY <2>3, <4>1
    <3>2. LeafSet(es, n, f) = LeafSet(es, n, g)
      BY <3>1, LeafSetSame
    <3>3. g[n] = LeafSet(es, n, f)
      <4>1. CASE n = j
        BY <2>3, <4>1
      <4>2. CASE n # j
        <5>0. j \in Nat /\ Len(es) \in Nat
          BY <1>1
        <5>1. n \in (j + 1) .. Len(es)
          BY ONLY <4>2, <5>0, n \in j .. Len(es)
        <5>2. f[n] = LeafSet(es, n, f)
          BY ONLY <2>4, <5>1
        <5> QED BY <2>3, <4>2, <5>2
      <4> QED BY <4>1, <4>2
    <3> QED BY <3>2, <3>3
  <2>6. g = [n \in j .. Len(es) |-> LeafSet(es, n, g)]
    <3>1. DOMAIN g = j .. Len(es) /\ g = [n \in j .. Len(es) |-> g[n]]
      BY <2>3
    <3> QED BY ONLY <2>5, <3>1
  <2> QED BY <2>2, <2>6
<1>4. S \in SUBSET Nat
  OBVIOUS
<1>5. Len(es) \in S
  <2> HIDE DEF S
  <2> QED BY <1>1, <1>2, <1>3, <1>4, Induction
<1>6. PICK f : f = [n \in DOMAIN es |-> LeafSet(es, n, f)]
  <2>1. Len(es) - Len(es) + 1 = 1
    BY <1>1
  <2>2. \E f : f = [n \in (Len(es) - Len(es) + 1) .. Len(es) |-> LeafSet(es, n, f)]
    BY <1>1, <1>5
  <2> QED BY <1>1, <2>1, <2>2
<1> QED BY <1>6, Zenon DEF LeavesOf

\* The leaves of an element itself.
HasNothing(e) == DOMAIN e.own = {} /\ DOMAIN e.subs = {}

LEMMA OwnLeafIs ==
    ASSUME NEW es, Request(es), NEW n \in DOMAIN es, NEW b
    PROVE  b \in OwnLeaves(es[n]) <=>
             \/ \E k \in DOMAIN es[n].own :
                  b = [path |-> <<At(k, 0)>>, value |-> es[n].own[k]]
             \/ HasNothing(es[n]) /\ b = [path |-> <<>>, value |-> Null]
<1>1. \A k \in DOMAIN es[n].own : MayHave(es[n], k)
  BY DEF Request, AllSent
<1>2. CASE HasNothing(es[n])
  <2>1. DOMAIN es[n].own = {} /\ DOMAIN es[n].own \cup DOMAIN es[n].subs = {}
    BY <1>2 DEF HasNothing
  <2>2. OwnLeaves(es[n]) = {[path |-> <<>>, value |-> Null]}
    BY <2>1, Zenon DEF OwnLeaves
  <2> QED BY <1>2, <2>1, <2>2
<1>3. CASE ~HasNothing(es[n])
  <2>1. DOMAIN es[n].own \cup DOMAIN es[n].subs # {}
    BY <1>3 DEF HasNothing
  <2>2. OwnLeaves(es[n]) = {[path |-> <<At(k, 0)>>, value |-> es[n].own[k]] :
                              k \in {k \in DOMAIN es[n].own : MayHave(es[n], k)}}
    BY <2>1, Zenon DEF OwnLeaves
  <2> QED BY <1>1, <1>3, <2>2
<1> QED BY <1>2, <1>3

\* One leaf, with what it is made from.
LEMMA LeafIs ==
    ASSUME NEW es, Request(es), NEW n \in DOMAIN es, NEW l
    PROVE  l \in LeavesOf(es)[n] <=>
             \/ l \in OwnLeaves(es[n])
             \/ \E k \in DOMAIN es[n].subs : \E m \in LeavesOf(es)[es[n].subs[k]] :
                  l = Raised(m, StepTo(es[n], k))
<1>1. LeavesOf(es)[n] = LeafSet(es, n, LeavesOf(es))
  <2>1. PICK f : f = LeavesOf(es)
    OBVIOUS
  <2>2. f = [i \in DOMAIN es |-> LeafSet(es, i, f)]
    BY <2>1, LeavesDefined
  <2> QED BY ONLY <2>1, <2>2, n \in DOMAIN es
<1>3. PICK f : f = LeavesOf(es)
  OBVIOUS
<1> DEFINE Below(k) == {Raised(m, StepTo(es[n], k)) : m \in f[es[n].subs[k]]}
<1>4. LeafSet(es, n, f) = OwnLeaves(es[n]) \cup UNION {Below(k) : k \in DOMAIN es[n].subs}
  BY Zenon DEF LeafSet, StepTo, Raised
<1>6. \A k \in DOMAIN es[n].subs : l \in Below(k) <=>
        \E m \in f[es[n].subs[k]] : l = Raised(m, StepTo(es[n], k))
  OBVIOUS
<1>7. l \in LeafSet(es, n, f) <=>
        l \in OwnLeaves(es[n]) \/ \E k \in DOMAIN es[n].subs : l \in Below(k)
  <2> HIDE DEF Below
  <2> QED BY <1>4
<1> HIDE DEF Below
<1> QED BY <1>1, <1>3, <1>6, <1>7

\* Where a leaf is from.
LEMMA LeafFrom ==
    ASSUME NEW es, Request(es), NEW n \in DOMAIN es, NEW l \in LeavesOf(es)[n]
    PROVE  \/ l \in OwnLeaves(es[n])
           \/ \E k \in DOMAIN es[n].subs : \E m \in LeavesOf(es)[es[n].subs[k]] :
                l = Raised(m, StepTo(es[n], k))
<1>1. l \in LeavesOf(es)[n]
  OBVIOUS
<1>2. l \in LeavesOf(es)[n] <=>
             \/ l \in OwnLeaves(es[n])
             \/ \E k \in DOMAIN es[n].subs : \E m \in LeavesOf(es)[es[n].subs[k]] :
                  l = Raised(m, StepTo(es[n], k))
  BY LeafIs
<1> QED BY ONLY <1>1, <1>2

\* A value that an element has of its own, at its place in the document.
IsValue(es, W, l) == \E m \in DOMAIN es : \E k \in DOMAIN es[m].own :
                       l = [path |-> Append(W[m], At(k, 0)), value |-> es[m].own[k]]

\* The null of an element that has nothing.
IsNull(es, W, l) == \E m \in DOMAIN es : HasNothing(es[m]) /\ l = [path |-> W[m], value |-> Null]

IsSent(es, W, l) == IsValue(es, W, l) \/ IsNull(es, W, l)

IsLeaf(l) == l = [path |-> l.path, value |-> l.value] /\ l.path \in Seq(Steps)

\* A leaf below element n, seen from the root.
FromRoot(W, n, l) == [path |-> W[n] \o l.path, value |-> l.value]

\* It is one of the leaves of some element itself.
Seen(es, W, n, l) ==
    /\ IsLeaf(l)
    /\ \E m \in DOMAIN es : \E b \in OwnLeaves(es[m]) :
         W[n] \o l.path = W[m] \o b.path /\ l.value = b.value

LEMMA StepFacts ==
    ASSUME NEW es, Request(es), NEW W, Places(es, W), NEW n \in DOMAIN es
    PROVE  /\ W[n] \in Seq(Steps)
           /\ \A k \in DOMAIN es[n].own : At(k, 0) \in Steps
           /\ \A k \in DOMAIN es[n].subs :
                /\ StepTo(es[n], k) \in Steps /\ es[n].subs[k] \in DOMAIN es /\ es[n].subs[k] > n
                /\ W[es[n].subs[k]] = Append(W[n], StepTo(es[n], k))
<1>1. W[n] \in Seq(Steps)
  BY DEF Places
<1>2. \A k \in DOMAIN es[n].own : At(k, 0) \in Steps
  BY RequestFacts
<1>3. \A k \in DOMAIN es[n].subs :
        StepTo(es[n], k) \in Steps /\ es[n].subs[k] \in DOMAIN es /\ es[n].subs[k] > n
  BY RequestFacts
<1>4. \A k \in DOMAIN es[n].subs : W[es[n].subs[k]] = Append(W[n], StepTo(es[n], k))
  BY DEF Places
<1> QED BY <1>1, <1>2, <1>3, <1>4

\* The leaf of a child, as its parent has it.
LEMMA LeafAbove ==
    ASSUME NEW l, IsLeaf(l), NEW a \in Steps, NEW s \in Seq(Steps), NEW m, m = Raised(l, a)
    PROVE  /\ IsLeaf(m) /\ m.path = <<a>> \o l.path /\ m.value = l.value
           /\ s \o m.path = Append(s, a) \o l.path
<1>1. PICK p \in Seq(Steps) : p = l.path
  BY DEF IsLeaf
<1>2. PICK v : v = l.value
  OBVIOUS
<1>3. PICK q : q = <<a>> \o p
  OBVIOUS
<1>4. l = [path |-> p, value |-> v]
  BY <1>1, <1>2 DEF IsLeaf
<1>5. m = [path |-> q, value |-> v]
  BY ONLY <1>3, <1>4, m = Raised(l, a) DEF Raised
<1>6. m.path = q /\ m.value = v
  BY ONLY <1>5
<1>7. q \in Seq(Steps) /\ s \o q = Append(s, a) \o p
  BY <1>3, JoinStep
<1>8. IsLeaf(m)
  BY <1>5, <1>6, <1>7 DEF IsLeaf
<1> QED BY <1>1, <1>2, <1>3, <1>6, <1>7, <1>8

LEMMA OwnLeafTyped ==
    ASSUME NEW es, Request(es), NEW W, Places(es, W), NEW n \in DOMAIN es,
           NEW b \in OwnLeaves(es[n])
    PROVE  IsLeaf(b) /\ IsSent(es, W, FromRoot(W, n, b))
<1>0. W[n] \in Seq(Steps)
  BY StepFacts
<1>1. CASE \E k \in DOMAIN es[n].own : b = [path |-> <<At(k, 0)>>, value |-> es[n].own[k]]
  <2>1. PICK k \in DOMAIN es[n].own : b = [path |-> <<At(k, 0)>>, value |-> es[n].own[k]]
    BY <1>1
  <2>2. At(k, 0) \in Steps
    BY StepFacts
  <2>3. <<At(k, 0)>> \in Seq(Steps) /\ W[n] \o <<At(k, 0)>> = Append(W[n], At(k, 0))
    BY <1>0, <2>2, JoinStep
  <2>4. b.path = <<At(k, 0)>> /\ b.value = es[n].own[k]
    BY <2>1
  <2>5. IsLeaf(b)
    BY <2>1, <2>3, <2>4 DEF IsLeaf
  <2>6. FromRoot(W, n, b) = [path |-> Append(W[n], At(k, 0)), value |-> es[n].own[k]]
    BY <2>3, <2>4 DEF FromRoot
  <2>7. IsValue(es, W, FromRoot(W, n, b))
    BY <2>6 DEF IsValue
  <2> QED BY <2>5, <2>7 DEF IsSent
<1>2. CASE HasNothing(es[n]) /\ b = [path |-> <<>>, value |-> Null]
  <2>1. b.path = <<>> /\ b.value = Null
    BY <1>2
  <2>2. PICK e \in Seq(Steps) : e = <<>>
    BY EmptySeq
  <2>3. IsLeaf(b)
    BY <1>2, <2>1, <2>2 DEF IsLeaf
  <2>4. W[n] \o <<>> = W[n]
    BY <1>0, ConcatEmptySeq
  <2>5. FromRoot(W, n, b) = [path |-> W[n], value |-> Null]
    BY <2>1, <2>4 DEF FromRoot
  <2>6. IsNull(es, W, FromRoot(W, n, b))
    BY <1>2, <2>5 DEF IsNull
  <2> QED BY <2>3, <2>6 DEF IsSent
<1> QED BY <1>1, <1>2, OwnLeafIs

\* Each leaf below an element is one of some element itself.
LEMMA LeavesSeen ==
    ASSUME NEW es, Request(es), NEW W, Places(es, W), NEW n \in DOMAIN es,
           NEW l \in LeavesOf(es)[n]
    PROVE  Seen(es, W, n, l)
<1>1. DOMAIN es = 1 .. Len(es) /\ Len(es) \in Nat
  BY RequestFacts
<1> DEFINE S == {i \in Nat : \A x \in DOMAIN es : x + i > Len(es) =>
                               \A m \in LeavesOf(es)[x] : Seen(es, W, x, m)}
<1>2. 0 \in S
  BY <1>1
<1>3. ASSUME NEW i \in S
      PROVE  i + 1 \in S
  <2> SUFFICES ASSUME NEW x \in DOMAIN es, x + (i + 1) > Len(es), NEW m \in LeavesOf(es)[x]
               PROVE  Seen(es, W, x, m)
    OBVIOUS
  <2>1. CASE m \in OwnLeaves(es[x])
    BY <2>1, OwnLeafTyped DEF Seen
  <2>2. CASE \E k \in DOMAIN es[x].subs : \E b \in LeavesOf(es)[es[x].subs[k]] :
               m = Raised(b, StepTo(es[x], k))
    <3>1. PICK k \in DOMAIN es[x].subs : \E b \in LeavesOf(es)[es[x].subs[k]] :
               m = Raised(b, StepTo(es[x], k))
      BY <2>2
    <3>2. PICK b \in LeavesOf(es)[es[x].subs[k]] :
               m = Raised(b, StepTo(es[x], k))
      BY <3>1
    <3>3. PICK a \in Steps : a = StepTo(es[x], k)
      BY StepFacts
    <3>4. PICK y \in DOMAIN es : y = es[x].subs[k] /\ y > x /\ W[y] = Append(W[x], a)
      BY <3>3, StepFacts
    <3>5. y + i > Len(es)
      BY <1>1, <3>4
    <3>6. Seen(es, W, y, b)
      BY <3>2, <3>4, <3>5
    <3>7. IsLeaf(b)
      BY <3>6 DEF Seen
    <3>8. W[x] \in Seq(Steps)
      BY StepFacts
    <3>9. m = Raised(b, a)
      BY <3>2, <3>3
    <3>10. IsLeaf(m) /\ m.value = b.value /\ W[x] \o m.path = Append(W[x], a) \o b.path
      <4>1. PICK s \in Seq(Steps) : s = W[x]
        BY <3>8
      <4>2. IsLeaf(m) /\ m.value = b.value /\ s \o m.path = Append(s, a) \o b.path
        BY ONLY <3>7, <3>9, LeafAbove, a \in Steps, s \in Seq(Steps)
      <4> QED BY ONLY <4>1, <4>2
    <3>11. PICK z \in DOMAIN es : \E j \in OwnLeaves(es[z]) :
             W[y] \o b.path = W[z] \o j.path /\ b.value = j.value
      BY <3>6 DEF Seen
    <3>12. PICK j \in OwnLeaves(es[z]) :
             W[y] \o b.path = W[z] \o j.path /\ b.value = j.value
      BY <3>11
    <3>13. W[x] \o m.path = W[z] \o j.path /\ m.value = j.value
      BY <3>4, <3>10, <3>12
    <3> QED BY <3>10, <3>13 DEF Seen
  <2>3. \/ m \in OwnLeaves(es[x])
        \/ \E k \in DOMAIN es[x].subs : \E b \in LeavesOf(es)[es[x].subs[k]] :
             m = Raised(b, StepTo(es[x], k))
    BY LeafFrom
  <2> QED BY ONLY <2>1, <2>2, <2>3
<1>4. S \in SUBSET Nat
  OBVIOUS
<1>5. Len(es) \in S
  <2> HIDE DEF S
  <2> QED BY <1>1, <1>2, <1>3, <1>4, Induction
<1>6. n + Len(es) > Len(es)
  BY <1>1
<1> QED BY <1>5, <1>6

\* Each leaf below an element is one of the document.
LEMMA LeavesShow ==
    ASSUME NEW es, Request(es), NEW W, Places(es, W), NEW n \in DOMAIN es,
           NEW l \in LeavesOf(es)[n]
    PROVE  FromRoot(W, n, l) \in LeavesOf(es)[1]
<1>1. DOMAIN es = 1 .. Len(es) /\ Len(es) \in Nat
  BY RequestFacts
<1>p. \A x \in DOMAIN es : x # 1 =>
        \E p \in DOMAIN es : \E k \in DOMAIN es[p].subs : p < x /\ es[p].subs[k] = x
  BY RequestFacts
<1> DEFINE S == {i \in Nat : \A x \in DOMAIN es : x <= i => \A m \in LeavesOf(es)[x] :
                   FromRoot(W, x, m) \in LeavesOf(es)[1]}
<1>2. 0 \in S
  BY <1>1
<1>3. ASSUME NEW i \in S
      PROVE  i + 1 \in S
  <2> SUFFICES ASSUME NEW x \in DOMAIN es, x <= i + 1, NEW m \in LeavesOf(es)[x]
               PROVE  FromRoot(W, x, m) \in LeavesOf(es)[1]
    OBVIOUS
  <2>1. IsLeaf(m)
    BY LeavesSeen DEF Seen
  <2>2. CASE x = 1
    <3>1. W[x] \o m.path = m.path
      BY <2>1, <2>2, ConcatEmptySeq DEF Places, IsLeaf
    <3>2. m = FromRoot(W, x, m)
      BY <2>1, <3>1 DEF IsLeaf, FromRoot
    <3> QED BY <2>2, <3>2
  <2>3. CASE x # 1
    <3>1. PICK p \in DOMAIN es : \E k \in DOMAIN es[p].subs : p < x /\ es[p].subs[k] = x
      BY <1>p, <2>3
    <3>2. PICK k \in DOMAIN es[p].subs : p < x /\ es[p].subs[k] = x
      BY <3>1
    <3>3. PICK a \in Steps : a = StepTo(es[p], k)
      BY StepFacts
    <3>4. W[p] \in Seq(Steps) /\ W[x] = Append(W[p], a)
      BY <3>2, <3>3, StepFacts
    <3>5. PICK b : b = Raised(m, a)
      OBVIOUS
    <3>6. b \in LeavesOf(es)[p]
      <4>1. m \in LeavesOf(es)[es[p].subs[k]]
        BY <3>2
      <4> QED BY <3>3, <3>5, <4>1, LeafIs
    <3>7. p <= i
      BY <1>1, <3>2
    <3>8. FromRoot(W, p, b) \in LeavesOf(es)[1]
      BY <3>6, <3>7
    <3>9. b.value = m.value /\ W[p] \o b.path = Append(W[p], a) \o m.path
      <4>1. PICK s \in Seq(Steps) : s = W[p]
        BY <3>4
      <4>2. b.value = m.value /\ s \o b.path = Append(s, a) \o m.path
        BY ONLY <2>1, <3>5, LeafAbove, a \in Steps, s \in Seq(Steps)
      <4> QED BY ONLY <4>1, <4>2
    <3>10. FromRoot(W, p, b) = FromRoot(W, x, m)
      BY <3>4, <3>9 DEF FromRoot
    <3> QED BY <3>8, <3>10
  <2> QED BY <2>2, <2>3
<1>4. S \in SUBSET Nat
  OBVIOUS
<1>5. n \in Nat /\ n <= n
  BY <1>1
<1>6. n \in S
  <2> HIDE DEF S
  <2> QED BY <1>2, <1>3, <1>4, <1>5, Induction
<1> QED BY <1>5, <1>6

\* The document has the own values of all elements, each at its place, and the
\* nulls of those that have nothing.
LEMMA LeavesSent ==
    ASSUME NEW es, Request(es), NEW W, Places(es, W), NEW l
    PROVE  l \in LeavesOf(es)[1] <=> IsSent(es, W, l)
<1>0. 1 \in DOMAIN es
  BY DEF Request
<1>1. ASSUME l \in LeavesOf(es)[1] PROVE IsSent(es, W, l)
  <2>1. Seen(es, W, 1, l)
    BY <1>0, <1>1, LeavesSeen
  <2>2. W[1] \o l.path = l.path
    BY <2>1, ConcatEmptySeq DEF Seen, IsLeaf, Places
  <2>3. PICK m \in DOMAIN es : \E b \in OwnLeaves(es[m]) :
          l.path = W[m] \o b.path /\ l.value = b.value
    BY <2>1, <2>2 DEF Seen
  <2>4. PICK b \in OwnLeaves(es[m]) : l.path = W[m] \o b.path /\ l.value = b.value
    BY <2>3
  <2>5. l = FromRoot(W, m, b)
    BY <2>1, <2>4 DEF Seen, IsLeaf, FromRoot
  <2> QED BY <2>5, OwnLeafTyped
<1>2. ASSUME NEW m \in DOMAIN es, NEW b \in OwnLeaves(es[m]) PROVE FromRoot(W, m, b) \in LeavesOf(es)[1]
  <2>1. b \in LeavesOf(es)[m]
    BY LeafIs
  <2> QED BY <2>1, LeavesShow
<1>3. ASSUME IsValue(es, W, l) PROVE l \in LeavesOf(es)[1]
  <2>1. PICK m \in DOMAIN es : \E k \in DOMAIN es[m].own :
          l = [path |-> Append(W[m], At(k, 0)), value |-> es[m].own[k]]
    BY <1>3 DEF IsValue
  <2>2. PICK k \in DOMAIN es[m].own : l = [path |-> Append(W[m], At(k, 0)), value |-> es[m].own[k]]
    BY <2>1
  <2>3. PICK b : b = [path |-> <<At(k, 0)>>, value |-> es[m].own[k]]
    OBVIOUS
  <2>4. b \in OwnLeaves(es[m])
    BY <2>3, OwnLeafIs
  <2>6. W[m] \in Seq(Steps) /\ At(k, 0) \in Steps
    BY StepFacts
  <2>7. W[m] \o <<At(k, 0)>> = Append(W[m], At(k, 0))
    BY <2>6, JoinStep
  <2>8. b.path = <<At(k, 0)>> /\ b.value = es[m].own[k]
    BY <2>3
  <2>9. l = FromRoot(W, m, b)
    BY <2>2, <2>7, <2>8 DEF FromRoot
  <2> QED BY <1>2, <2>4, <2>9
<1>4. ASSUME IsNull(es, W, l) PROVE l \in LeavesOf(es)[1]
  <2>1. PICK m \in DOMAIN es : HasNothing(es[m]) /\ l = [path |-> W[m], value |-> Null]
    BY <1>4 DEF IsNull
  <2>2. PICK b : b = [path |-> <<>>, value |-> Null]
    OBVIOUS
  <2>3. b \in OwnLeaves(es[m])
    BY <2>1, <2>2, OwnLeafIs
  <2>4. W[m] \in Seq(Steps)
    BY StepFacts
  <2>5. W[m] \o <<>> = W[m]
    BY <2>4, ConcatEmptySeq
  <2>6. b.path = <<>> /\ b.value = Null
    BY <2>2
  <2>7. l = FromRoot(W, m, b)
    BY <2>1, <2>5, <2>6 DEF FromRoot
  <2> QED BY <1>2, <2>3, <2>7
<1> QED BY <1>1, <1>3, <1>4 DEF IsSent

\* Two values, one below the other.
LEMMA OneValue ==
    ASSUME NEW es, Request(es), NEW W, Places(es, W),
           NEW l, IsValue(es, W, l), NEW m, IsValue(es, W, m), IsPrefix(l.path, m.path)
    PROVE  l = m
<1>1. PICK x \in DOMAIN es : \E k \in DOMAIN es[x].own :
        l = [path |-> Append(W[x], At(k, 0)), value |-> es[x].own[k]]
  BY DEF IsValue
<1>2. PICK k \in DOMAIN es[x].own : l = [path |-> Append(W[x], At(k, 0)), value |-> es[x].own[k]]
  BY <1>1
<1>3. PICK y \in DOMAIN es : \E i \in DOMAIN es[y].own :
        m = [path |-> Append(W[y], At(i, 0)), value |-> es[y].own[i]]
  BY DEF IsValue
<1>4. PICK i \in DOMAIN es[y].own : m = [path |-> Append(W[y], At(i, 0)), value |-> es[y].own[i]]
  BY <1>3
<1>5. W[x] \in Seq(Steps) /\ W[y] \in Seq(Steps) /\ At(k, 0) \in Steps /\ At(i, 0) \in Steps
  BY StepFacts
<1>6. l.path = Append(W[x], At(k, 0)) /\ m.path = Append(W[y], At(i, 0))
  BY <1>2, <1>4
<1>7. Append(W[x], At(k, 0)) = Append(W[y], At(i, 0)) \/ IsPrefix(Append(W[x], At(k, 0)), W[y])
  BY <1>5, <1>6, AppendFacts
<1>8. ~IsPrefix(Append(W[x], At(k, 0)), W[y])
  <2>1. \A j \in DOMAIN es[x].subs : At(k, 0) # StepTo(es[x], j)
    BY RequestFacts
  <2> QED BY <1>5, <2>1, ChildOnTheWay
<1>9. W[x] = W[y] /\ At(k, 0) = At(i, 0)
  <2>1. PICK a \in Steps : a = At(k, 0)
    BY <1>5
  <2>2. PICK b \in Steps : b = At(i, 0)
    BY <1>5
  <2>3. PICK s \in Seq(Steps) : s = W[x]
    BY <1>5
  <2>4. PICK t \in Seq(Steps) : t = W[y]
    BY <1>5
  <2>5. Append(s, a) = Append(t, b)
    BY <1>7, <1>8, <2>1, <2>2, <2>3, <2>4
  <2>6. s = t /\ a = b
    BY ONLY <2>5, AppendFacts, s \in Seq(Steps), t \in Seq(Steps), a \in Steps, b \in Steps
  <2> QED BY <2>1, <2>2, <2>3, <2>4, <2>6
<1>10. x = y /\ k = i
  BY <1>9, PlacesDiffer DEF At
<1> QED BY <1>2, <1>4, <1>10

\* No value has anything below it, an element that has nothing even less.
LEMMA ValueAndNull ==
    ASSUME NEW es, Request(es), NEW W, Places(es, W),
           NEW l, IsValue(es, W, l), NEW m, IsNull(es, W, m)
    PROVE  ~IsPrefix(l.path, m.path) /\ ~IsPrefix(m.path, l.path)
<1>1. PICK x \in DOMAIN es : \E k \in DOMAIN es[x].own :
        l = [path |-> Append(W[x], At(k, 0)), value |-> es[x].own[k]]
  BY DEF IsValue
<1>2. PICK k \in DOMAIN es[x].own : l = [path |-> Append(W[x], At(k, 0)), value |-> es[x].own[k]]
  BY <1>1
<1>3. PICK y \in DOMAIN es : HasNothing(es[y]) /\ m = [path |-> W[y], value |-> Null]
  BY DEF IsNull
<1>4. PICK a \in Steps : a = At(k, 0)
  BY StepFacts
<1>5. W[x] \in Seq(Steps) /\ W[y] \in Seq(Steps)
  BY StepFacts
<1>6. PICK u \in Seq(Steps) : u = Append(W[x], a)
  BY <1>5, AppendProperties
<1>7. l.path = u /\ m.path = W[y]
  BY <1>2, <1>3, <1>4, <1>6
<1>8. ~IsPrefix(u, W[y])
  <2>1. \A j \in DOMAIN es[x].subs : At(k, 0) # StepTo(es[x], j)
    BY RequestFacts
  <2> QED BY <1>4, <1>6, <2>1, ChildOnTheWay
<1>9. ~IsPrefix(W[y], u)
  <2>1. SUFFICES ASSUME IsPrefix(W[y], u) PROVE FALSE
    OBVIOUS
  <2>2. W[y] # u
    BY <1>5, <1>8, PrefixOn
  <2>3. IsPrefix(W[y], W[x])
    BY <1>5, <1>6, <2>1, <2>2, PrefixOfAppend
  <2>4. y = x
    BY <1>3, <2>3, NothingBelow DEF HasNothing
  <2> QED BY <1>3, <2>4 DEF HasNothing
<1> QED BY <1>7, <1>8, <1>9

\* It is a document: a path has one leaf, and no leaf has others below it.
LEMMA OneLeaf ==
    ASSUME NEW es, Request(es), NEW W, Places(es, W),
           NEW l, IsSent(es, W, l), NEW m, IsSent(es, W, m), IsPrefix(l.path, m.path)
    PROVE  l = m
<1>1. CASE IsValue(es, W, l) /\ IsValue(es, W, m)
  BY <1>1, OneValue
<1>2. ~(IsValue(es, W, l) /\ IsNull(es, W, m)) /\ ~(IsNull(es, W, l) /\ IsValue(es, W, m))
  BY ValueAndNull
<1>3. CASE IsNull(es, W, l) /\ IsNull(es, W, m)
  <2>1. PICK x \in DOMAIN es : HasNothing(es[x]) /\ l = [path |-> W[x], value |-> Null]
    BY <1>3 DEF IsNull
  <2>2. PICK y \in DOMAIN es : HasNothing(es[y]) /\ m = [path |-> W[y], value |-> Null]
    BY <1>3 DEF IsNull
  <2>3. IsPrefix(W[x], W[y])
    BY <2>1, <2>2
  <2>4. x = y
    BY <2>1, <2>3, NothingBelow DEF HasNothing
  <2> QED BY <2>1, <2>2, <2>4
<1> QED BY <1>1, <1>2, <1>3 DEF IsSent

\* Every element shows in the document, if only as null.
LEMMA SomethingBelow ==
    ASSUME NEW es, Request(es), NEW W, Places(es, W), NEW n \in DOMAIN es
    PROVE  \E l : IsSent(es, W, l) /\ l.path \in Seq(Steps) /\ IsPrefix(W[n], l.path)
<1>1. DOMAIN es = 1 .. Len(es) /\ Len(es) \in Nat
  BY RequestFacts
<1> DEFINE Shows(x) == \E l : IsSent(es, W, l) /\ l.path \in Seq(Steps) /\ IsPrefix(W[x], l.path)
           S == {i \in Nat : \A x \in DOMAIN es : x + i > Len(es) => Shows(x)}
<1>2. 0 \in S
  BY <1>1
<1>3. ASSUME NEW i \in S
      PROVE  i + 1 \in S
  <2> SUFFICES ASSUME NEW x \in DOMAIN es, x + (i + 1) > Len(es)
               PROVE  Shows(x)
    OBVIOUS
  <2>0. W[x] \in Seq(Steps)
    BY StepFacts
  <2>1. CASE HasNothing(es[x])
    <3>1. PICK l : l = [path |-> W[x], value |-> Null]
      OBVIOUS
    <3>2. IsSent(es, W, l) /\ l.path = W[x]
      BY <2>1, <3>1 DEF IsSent, IsNull
    <3>3. IsPrefix(W[x], W[x])
      <4>1. W[x] \in Seq(Steps) /\ Len(W[x]) \in Nat
        BY <2>0
      <4> QED BY <4>1, PrefixIs
    <3> QED BY <2>0, <3>2, <3>3
  <2>2. CASE \E k \in DOMAIN es[x].own : TRUE
    <3>1. PICK k \in DOMAIN es[x].own : TRUE
      BY <2>2
    <3>2. PICK a \in Steps : a = At(k, 0)
      BY StepFacts
    <3>3. PICK l : l = [path |-> Append(W[x], a), value |-> es[x].own[k]]
      OBVIOUS
    <3>4. IsSent(es, W, l) /\ l.path = Append(W[x], a)
      BY <3>2, <3>3 DEF IsSent, IsValue
    <3>5. Append(W[x], a) \in Seq(Steps) /\ IsPrefix(W[x], Append(W[x], a))
      BY <2>0, PrefixOn, AppendProperties
    <3> QED BY <3>4, <3>5
  <2>3. CASE \E k \in DOMAIN es[x].subs : TRUE
    <3>1. PICK k \in DOMAIN es[x].subs : TRUE
      BY <2>3
    <3>2. PICK a \in Steps : a = StepTo(es[x], k)
      BY StepFacts
    <3>3. PICK y \in DOMAIN es : y = es[x].subs[k] /\ y > x /\ W[y] = Append(W[x], a)
      BY <3>2, StepFacts
    <3>4. y + i > Len(es)
      BY <1>1, <3>3
    <3>5. PICK l : IsSent(es, W, l) /\ l.path \in Seq(Steps) /\ IsPrefix(W[y], l.path)
      BY <3>4
    <3>6. IsPrefix(W[x], l.path)
      <4>1. PICK s \in Seq(Steps) : s = W[x]
        BY <2>0
      <4>2. PICK t \in Seq(Steps) : t = Append(s, a)
        BY AppendProperties
      <4>3. PICK u \in Seq(Steps) : u = l.path
        BY <3>5
      <4>4. IsPrefix(s, t)
        BY <4>2, PrefixOn
      <4>5. IsPrefix(t, u)
        BY <3>3, <3>5, <4>1, <4>2, <4>3
      <4>6. IsPrefix(s, u)
        BY ONLY <4>4, <4>5, s \in Seq(Steps), t \in Seq(Steps), u \in Seq(Steps),
                a \in Steps, PrefixOn
      <4> QED BY <4>1, <4>3, <4>6
    <3> QED BY <3>5, <3>6
  <2> QED BY <2>1, <2>2, <2>3 DEF HasNothing
<1>4. S \in SUBSET Nat
  OBVIOUS
<1>5. Len(es) \in S
  <2> HIDE DEF S
  <2> QED BY <1>1, <1>2, <1>3, <1>4, Induction
<1>6. n + Len(es) > Len(es)
  BY <1>1
<1> QED BY <1>5, <1>6

-----------------------------------------------------------------------------
(* A call writes into one object of the document.                          *)

\* Elements keep their place.
LEMMA PlacesKept ==
    ASSUME NEW es, NEW fs, Request(es), Request(fs), NEW a, Kept(es, fs, a),
           NEW W, Places(es, W), NEW V, Places(fs, V), NEW n \in DOMAIN es
    PROVE  n \in DOMAIN fs /\ V[n] = W[n]
<1>1. DOMAIN es = 1 .. Len(es) /\ Len(es) \in Nat /\ DOMAIN fs = 1 .. Len(fs) /\ Len(fs) \in Nat
  BY RequestFacts
<1>2. Len(es) <= Len(fs)
  BY DEF Kept
<1>3. DOMAIN es \subseteq DOMAIN fs
  BY <1>1, <1>2
<1>p. \A x \in DOMAIN es : x # 1 =>
        \E p \in DOMAIN es : \E k \in DOMAIN es[p].subs : p < x /\ es[p].subs[k] = x
  BY RequestFacts
<1> DEFINE S == {i \in Nat : \A x \in DOMAIN es : x <= i => V[x] = W[x]}
<1>4. 0 \in S
  BY <1>1
<1>5. ASSUME NEW i \in S
      PROVE  i + 1 \in S
  <2> SUFFICES ASSUME NEW x \in DOMAIN es, x <= i + 1
               PROVE  V[x] = W[x]
    OBVIOUS
  <2>1. CASE x = 1
    BY <2>1 DEF Places
  <2>2. CASE x # 1
    <3>1. PICK p \in DOMAIN es : \E k \in DOMAIN es[p].subs : p < x /\ es[p].subs[k] = x
      BY <1>p, <2>2
    <3>2. PICK k \in DOMAIN es[p].subs : p < x /\ es[p].subs[k] = x
      BY <3>1
    <3>3. p \in DOMAIN fs /\ k \in DOMAIN fs[p].subs /\ fs[p].subs[k] = x /\ fs[p].class = es[p].class
      BY <1>3, <3>2 DEF Kept
    <3>4. p <= i
      BY <1>1, <3>2
    <3>5. V[p] = W[p]
      BY <3>4
    <3>6. StepTo(fs[p], k) = StepTo(es[p], k)
      BY <3>3 DEF StepTo
    <3>7. W[x] = Append(W[p], StepTo(es[p], k))
      BY <3>2 DEF Places
    <3>8. V[x] = Append(V[p], StepTo(fs[p], k))
      BY <3>3 DEF Places
    <3> QED BY <3>5, <3>6, <3>7, <3>8
  <2> QED BY <2>1, <2>2
<1>6. S \in SUBSET Nat
  OBVIOUS
<1>7. n \in Nat /\ n <= n
  BY <1>1
<1>8. n \in S
  <2> HIDE DEF S
  <2> QED BY <1>4, <1>5, <1>6, <1>7, Induction
<1> QED BY <1>3, <1>7, <1>8

\* What has a value keeps one, and the new values are those of one element.
LEMMA ValueKept ==
    ASSUME NEW es, NEW fs, Request(es), Request(fs), NEW a, Kept(es, fs, a),
           NEW W, Places(es, W), NEW V, Places(fs, V), NEW l
    PROVE  /\ IsValue(es, W, l) => \E m : IsValue(fs, V, m) /\ m.path = l.path
           /\ IsValue(fs, V, l) /\ ~IsValue(es, W, l) => Front(l.path) = V[a]
<1>1. ASSUME IsValue(es, W, l)
      PROVE  \E m : IsValue(fs, V, m) /\ m.path = l.path
  <2>1. PICK x \in DOMAIN es : \E k \in DOMAIN es[x].own :
          l = [path |-> Append(W[x], At(k, 0)), value |-> es[x].own[k]]
    BY <1>1 DEF IsValue
  <2>2. PICK k \in DOMAIN es[x].own : l = [path |-> Append(W[x], At(k, 0)), value |-> es[x].own[k]]
    BY <2>1
  <2>3. x \in DOMAIN fs /\ V[x] = W[x]
    BY PlacesKept
  <2>4. k \in DOMAIN fs[x].own
    BY DEF Kept
  <2>5. PICK m : m = [path |-> Append(V[x], At(k, 0)), value |-> fs[x].own[k]]
    OBVIOUS
  <2>6. IsValue(fs, V, m)
    BY <2>3, <2>4, <2>5 DEF IsValue
  <2>7. m.path = l.path
    BY <2>2, <2>3, <2>5
  <2> QED BY <2>6, <2>7
<1>2. ASSUME IsValue(fs, V, l), ~IsValue(es, W, l)
      PROVE  Front(l.path) = V[a]
  <2>1. PICK x \in DOMAIN fs : \E k \in DOMAIN fs[x].own :
          l = [path |-> Append(V[x], At(k, 0)), value |-> fs[x].own[k]]
    BY <1>2 DEF IsValue
  <2>2. PICK k \in DOMAIN fs[x].own : l = [path |-> Append(V[x], At(k, 0)), value |-> fs[x].own[k]]
    BY <2>1
  <2>3. x = a
    <3>1. SUFFICES ASSUME x # a PROVE FALSE
      OBVIOUS
    <3>2. DOMAIN es = 1 .. Len(es) /\ Len(es) \in Nat /\ DOMAIN fs = 1 .. Len(fs) /\ Len(fs) \in Nat
      BY RequestFacts
    <3>3. ~(x > Len(es))
      BY <3>1 DEF Kept
    <3>4. x \in DOMAIN es
      BY <3>2, <3>3
    <3>5. fs[x].own = es[x].own
      BY <3>1, <3>4 DEF Kept
    <3>6. V[x] = W[x]
      BY <3>4, PlacesKept
    <3>7. IsValue(es, W, l)
      BY <2>2, <3>4, <3>5, <3>6 DEF IsValue
    <3> QED BY <1>2, <3>7
  <2>4. V[x] \in Seq(Steps) /\ At(k, 0) \in Steps
    BY StepFacts
  <2>5. Front(Append(V[x], At(k, 0))) = V[x]
    BY <2>4, AppendFacts
  <2>6. l.path = Append(V[x], At(k, 0))
    BY <2>2
  <2> QED BY <2>3, <2>5, <2>6
<1> QED BY <1>1, <1>2

\* An element that had nothing is at its place, with or without values.
LEMMA NullKept ==
    ASSUME NEW es, NEW fs, Request(es), Request(fs), NEW a, Kept(es, fs, a),
           NEW W, Places(es, W), NEW V, Places(fs, V), NEW l, IsNull(es, W, l)
    PROVE  \E m : IsSent(fs, V, m) /\ IsPrefix(l.path, m.path)
<1>1. PICK x \in DOMAIN es : HasNothing(es[x]) /\ l = [path |-> W[x], value |-> Null]
  BY DEF IsNull
<1>2. x \in DOMAIN fs /\ V[x] = W[x]
  BY PlacesKept
<1>3. PICK m : IsSent(fs, V, m) /\ IsPrefix(V[x], m.path)
  BY <1>2, SomethingBelow
<1>4. l.path = V[x]
  BY <1>1, <1>2
<1> QED BY <1>3, <1>4

\* A value is not null.
LEMMA NullIsNoValue ==
    ASSUME NEW es, Request(es), NEW W, NEW l
    PROVE  /\ IsValue(es, W, l) => l.value # Null
           /\ IsNull(es, W, l) => l.value = Null
<1>1. ASSUME IsValue(es, W, l) PROVE l.value # Null
  <2>1. PICK x \in DOMAIN es : \E k \in DOMAIN es[x].own :
          l = [path |-> Append(W[x], At(k, 0)), value |-> es[x].own[k]]
    BY <1>1 DEF IsValue
  <2>2. PICK k \in DOMAIN es[x].own : l = [path |-> Append(W[x], At(k, 0)), value |-> es[x].own[k]]
    BY <2>1
  <2>3. es[x] \in Element
    BY DEF Request, Shaped
  <2>4. es[x].own \in Functions(Value)
    BY <2>3 DEF Element
  <2>5. es[x].own[k] \in Value
    BY <2>4 DEF Functions
  <2>6. Null \notin Value
    <3>1. Null.list = FALSE /\ Null.of = <<>>
      BY DEF Null
    <3>2. Len(<<>>) = 0
      BY EmptySeq
    <3> QED BY <3>1, <3>2 DEF Value
  <2>7. l.value = es[x].own[k]
    BY <2>2
  <2> QED BY <2>5, <2>6, <2>7
<1>2. ASSUME IsNull(es, W, l) PROVE l.value = Null
  BY <1>2 DEF IsNull
<1> QED BY <1>1, <1>2

\* The leaves before and after a call that mixed nothing.
LEMMA LeavesChange ==
    ASSUME NEW es, NEW fs, Request(es), Request(fs), NEW a, Kept(es, fs, a)
    PROVE  /\ \A l \in LeavesOf(es)[1] : \E m \in LeavesOf(fs)[1] :
                IF l.value = Null THEN IsPrefix(l.path, m.path)
                ELSE l.path = m.path /\ m.value # Null
           /\ \A l, m \in LeavesOf(fs)[1] : IsPrefix(l.path, m.path) => l = m
           /\ \A l, m \in LeavesOf(fs)[1] \ LeavesOf(es)[1] :
                l.value # Null /\ m.value # Null => Front(l.path) = Front(m.path)
<1>1. PICK W : Places(es, W)
  BY PlacesExist
<1>2. PICK V : Places(fs, V)
  BY PlacesExist
<1>3. \A l : l \in LeavesOf(es)[1] <=> IsSent(es, W, l)
  BY <1>1, LeavesSent
<1>4. \A l : l \in LeavesOf(fs)[1] <=> IsSent(fs, V, l)
  BY <1>2, LeavesSent
<1>5. ASSUME NEW l \in LeavesOf(es)[1]
      PROVE  \E m \in LeavesOf(fs)[1] : IF l.value = Null THEN IsPrefix(l.path, m.path)
                                         ELSE l.path = m.path /\ m.value # Null
  <2>1. CASE IsNull(es, W, l)
    <3>1. PICK m : IsSent(fs, V, m) /\ IsPrefix(l.path, m.path)
      BY <1>1, <1>2, <2>1, NullKept
    <3>2. l.value = Null
      BY <2>1, NullIsNoValue
    <3> QED BY <1>4, <3>1, <3>2
  <2>2. CASE IsValue(es, W, l)
    <3>1. PICK m : IsValue(fs, V, m) /\ m.path = l.path
      BY <1>1, <1>2, <2>2, ValueKept
    <3>2. l.value # Null /\ m.value # Null
      BY <2>2, <3>1, NullIsNoValue
    <3> QED BY <1>4, <3>1, <3>2 DEF IsSent
  <2> QED BY <1>3, <2>1, <2>2 DEF IsSent
<1>6. ASSUME NEW l \in LeavesOf(fs)[1], NEW m \in LeavesOf(fs)[1], IsPrefix(l.path, m.path)
      PROVE  l = m
  BY <1>2, <1>4, <1>6, OneLeaf
<1>7. ASSUME NEW l \in LeavesOf(fs)[1] \ LeavesOf(es)[1], l.value # Null
      PROVE  Front(l.path) = V[a]
  <2>1. IsValue(fs, V, l) /\ ~IsValue(es, W, l)
    BY <1>3, <1>4, <1>7, NullIsNoValue DEF IsSent
  <2> QED BY <1>1, <1>2, <2>1, ValueKept
<1> QED BY ONLY <1>5, <1>6, <1>7

\* A request with nothing but its root is null.
LEMMA RequestFirst == Init => Request(elements) /\ mixed = FALSE /\ Leaves[1] = {[path |-> <<>>, value |-> Null]}
<1> SUFFICES ASSUME Init
             PROVE  Request(elements) /\ mixed = FALSE /\ Leaves[1] = {[path |-> <<>>, value |-> Null]}
  OBVIOUS
<1>1. PICK root \in Roots :
        /\ elements = <<Fresh(root, IF root = "Indexer" THEN "index" ELSE "", NoField)>>
        /\ mixed = FALSE
  BY DEF Init
<1>2. PICK key : key = IF root = "Indexer" THEN "index" ELSE ""
  OBVIOUS
<1>3. root # "Tokenizer"
  BY RequestAssumption
<1>4. DOMAIN elements[1].own = {} /\ DOMAIN elements[1].subs = {} /\ 1 \in DOMAIN elements
  <2>1. PICK e : e = Fresh(root, key, NoField)
    OBVIOUS
  <2>2. e.own = <<>> /\ e.subs = <<>>
    BY <1>3, <2>1 DEF Fresh
  <2>3. DOMAIN e.own = {} /\ DOMAIN e.subs = {}
    BY <2>2, EmptyFunction
  <2>4. elements = <<e>>
    BY <1>1, <1>2, <2>1
  <2>5. elements[1] = e /\ 1 \in DOMAIN elements
    BY ONLY <2>4
  <2> QED BY <2>3, <2>5
<1>5. Request(elements)
  BY <1>1, <1>4, Beginning DEF Request, RequestInv
<1>6. \A l : l \in LeavesOf(elements)[1] <=> l = [path |-> <<>>, value |-> Null]
  <2>1. \A l : l \in LeavesOf(elements)[1] <=> l \in OwnLeaves(elements[1])
    BY <1>4, <1>5, LeafIs
  <2>2. \A l : l \in OwnLeaves(elements[1]) <=> l = [path |-> <<>>, value |-> Null]
    BY <1>4, <1>5, OwnLeafIs DEF HasNothing
  <2> QED BY <2>1, <2>2
<1> QED BY <1>1, <1>5, <1>6, LeavesAre

\* A call that mixed nothing has written into one element.
LEMMA RequestStep ==
    ASSUME RequestInv, Next, ~mixed'
    PROVE  /\ ~mixed /\ Request(elements) /\ Request(elements')
           /\ \E a : Kept(elements, elements', a)
<1>1. RequestInv' /\ ~mixed /\ \E a : Kept(elements, elements', a)
  <2>1. Done
    BY BuildsStep, FillsStep DEF Next
  <2> QED BY <2>1 DEF Done, RequestInv
<1>2. PICK a : Kept(elements, elements', a)
  BY <1>1
<1>3. PICK h \in handles : h.element \in DOMAIN elements
  BY DEF Next, RequestInv, HandleOk
<1>4. DOMAIN elements = 1 .. Len(elements) /\ Len(elements) \in Nat
  BY SequenceDomain DEF RequestInv, Shaped
<1>5. Shaped(elements') /\ TreeOf(elements') /\ AllSent(elements')
  BY <1>1 DEF RequestInv, Shaped, TreeOf, AllSent, MayHave
<1>6. DOMAIN elements' = 1 .. Len(elements') /\ Len(elements') \in Nat
  BY <1>5, SequenceDomain DEF Shaped
<1>7. 1 \in DOMAIN elements /\ 1 \in DOMAIN elements'
  BY <1>2, <1>3, <1>4, <1>6 DEF Kept
<1> QED BY <1>1, <1>5, <1>7 DEF Request, RequestInv

\* What value() gives (elastic.cc:29, elastic.cc:79): each element has one place in
\* the document, and the document has the values of every element at its place, a
\* null at the place of every element with neither values nor children, and nothing
\* else, as long as no key was used for two things.
ValueIsExact == mixed \/ \E W : /\ Places(elements, W)
                                /\ \A m, n \in DOMAIN elements : W[m] = W[n] => m = n
                                /\ \A l : l \in Leaves[1] <=> IsSent(elements, W, l)

THEOREM ValueIsExactHolds == Spec => []ValueIsExact
<1> DEFINE Inv == mixed \/ Request(elements)
<1>1. Init => Inv
  BY RequestFirst
<1>2. RequestInv /\ Next => Inv'
  <2> SUFFICES ASSUME RequestInv, Next, ~mixed'
               PROVE  Request(elements')
    BY DEF Request, Shaped, TreeOf, AllSent, MayHave
  <2> QED BY RequestStep
<1>3. Inv /\ UNCHANGED vars => Inv'
  BY DEF vars, Request, Shaped, TreeOf, AllSent, MayHave
<1>4. Inv => ValueIsExact
  <2> SUFFICES ASSUME Request(elements)
               PROVE  ValueIsExact
    BY DEF ValueIsExact
  <2>1. PICK W : Places(elements, W)
    BY PlacesExist
  <2>2. \A m, n \in DOMAIN elements : W[m] = W[n] => m = n
    BY <2>1, PlacesDiffer
  <2>3. \A l : l \in Leaves[1] <=> IsSent(elements, W, l)
    BY <2>1, LeavesSent, LeavesAre
  <2> QED BY <2>1, <2>2, <2>3 DEF ValueIsExact
<1> HIDE DEF Inv
<1>5. Spec => []Inv
  BY <1>1, <1>2, <1>3, RequestInvHolds, PTL DEF Spec
<1> QED BY <1>4, <1>5, PTL

\* The tree implements the document (value(), elastic.cc:29 and elastic.cc:79): as
\* long as no key is used for two things, each call writes into one object of
\* the document, whatever has a value keeps one, and each path has one value.
THEOREM ImplementsDocumentHolds == Spec => ImplementsDocument
<1>1. Init => Document!Init
  BY RequestFirst DEF Document!Init
<1>2. RequestInv /\ Next => Document!Next
  <2> SUFFICES ASSUME RequestInv, Next, ~mixed'
               PROVE  Document!Write
    BY DEF Document!Next, Document!Mix
  <2>1. /\ ~mixed /\ Request(elements) /\ Request(elements')
        /\ \E a : Kept(elements, elements', a)
    BY RequestStep
  <2>2. /\ \A l \in Leaves[1] : \E m \in (Leaves')[1] :
             IF l.value = Null THEN IsPrefix(l.path, m.path)
             ELSE l.path = m.path /\ m.value # Null
        /\ \A l, m \in (Leaves')[1] : IsPrefix(l.path, m.path) => l = m
        /\ \A l, m \in (Leaves')[1] \ Leaves[1] :
             l.value # Null /\ m.value # Null => Front(l.path) = Front(m.path)
    BY <2>1, LeavesAre, LeavesChange
  <2>3. \A l \in Leaves[1] : Document!Remains(l)
    BY <2>2 DEF Document!Remains, Document!IsPrefix, IsPrefix
  <2>4. Document!IsDocument'
    BY <2>2 DEF Document!IsDocument, Document!IsPrefix, IsPrefix
  <2>5. \A l, m \in Document!NewValues : Document!Front(l.path) = Document!Front(m.path)
    BY <2>2 DEF Document!Front, Front, Document!NewValues
  <2> QED BY <2>1, <2>3, <2>4, <2>5 DEF Document!Write
<1>3. UNCHANGED vars => UNCHANGED <<Leaves[1], mixed>>
  BY LeavesAre DEF vars
<1> QED BY <1>1, <1>2, <1>3, RequestInvHolds, PTL DEF Spec, ImplementsDocument, Document!Spec
=============================================================================
