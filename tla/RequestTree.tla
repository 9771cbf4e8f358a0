---------------------------- MODULE RequestTree ----------------------------
(***************************************************************************)
(* A request to Elasticsearch while a caller builds it (elastic.cc,        *)
(* elastic.h): a tree of elements, objects with children by key and arrays *)
(* with children in order, each with values of its own.  The builders look *)
(* a child up by its key and C++ class and create it when there is none;   *)
(* the caller keeps what they return and may call on all of it, in any     *)
(* order.  Elements are numbered in the order they are made.               *)
(*                                                                         *)
(* Values are opaque, and so are the names of fields and of keys that the  *)
(* caller chooses.  The setters with a key of their own (type, boost,      *)
(* size, match_all, ...) are Base::add() with that key, which the caller   *)
(* may also call himself; AddValue stands for all of them.                 *)
(***************************************************************************)
EXTENDS Naturals, FiniteSets, SequencesExt

CONSTANTS
    Roots,       \* what a caller begins with: a request, or a part made by itself
    Names,       \* keys that the caller chooses
    Fields,      \* fields of documents that the clauses of a query are about
    NoField,     \* the field of an element that is not about one
    Values,      \* values that are written
    Default,     \* the value that constructors write
    MaxElements, \* bound on the elements of a request
    MaxWritten,  \* bound on the values that elements have of their own
    MaxList      \* bound on the length of a list of values

ASSUME RequestAssumption ==
    /\ Roots \subseteq {"Indexer", "Inserter", "Updater", "Searcher", "Must"}
    /\ Default \in Values
    /\ MaxElements \in Nat /\ MaxWritten \in Nat /\ MaxList \in Nat

VARIABLES
    elements, \* the sequence of all elements made so far, the root is the first
    handles,  \* what the caller has in hand: an element, the class and the field
              \* that it asked for
    mixed     \* history: whether some key of an object was used for two things

vars == <<elements, handles, mixed>>

-----------------------------------------------------------------------------
(* Elements.                                                               *)

QArrays == {"Must", "Should", "MustNot"}
Arrays == {"Array"} \cup QArrays

\* Clauses of a query and the keys they have in it.
ClauseKey == [Term |-> "term", Terms |-> "terms", Match |-> "match",
              MultiMatch |-> "multi_match", Range |-> "range"]
Clauses == DOMAIN ClauseKey

\* The builders without an argument: of which class, the key, the child's class.
Members == [Indexer    |-> [settings |-> "Settings", mapping |-> "Mapping"],
            Settings   |-> [analysis |-> "Analysis"],
            Analysis   |-> [analyzer |-> "Analyzer"],
            Mapping    |-> [properties |-> "Properties"],
            Searcher   |-> [query |-> "Query"],
            Query      |-> [bool |-> "QBool"],
            QBool      |-> [must |-> "Must", should |-> "Should", must_not |-> "MustNot"],
            Updater    |-> [doc |-> "Object"]]

\* The builders with a name.
NamedMembers == [Analyzer |-> "Tokenizer", Properties |-> "Field"]

\* dynamic_pointer_cast<R>: the generic classes are bases of the others.
IsA(class, R) == \/ class = R
                 \/ R = "Object" /\ class \notin Arrays
                 \/ R = "Array" /\ class \in Arrays

\* f with the value v under key.
With(f, key, v) == [k \in DOMAIN f \cup {key} |-> IF k = key THEN v ELSE f[k]]

Scalar(v) == [list |-> FALSE, of |-> <<v>>]

\* An element as its constructor leaves it; a tokenizer has two values.
Fresh(class, key, field) ==
    [class |-> class, key |-> key, field |-> field, subs |-> <<>>,
     own |-> IF class = "Tokenizer"
             THEN [tokenizer |-> Scalar(Default), type |-> Scalar(Default)] ELSE <<>>]

\* addElement(): the new element, number n, is the last one of an array, and
\* takes its key in an object.
Linked(es, p, key, n) ==
    [es EXCEPT ![p].subs = IF es[p].class \in Arrays THEN Append(@, n) ELSE With(@, key, n)]

\* A new element with its parent.  The constructor of a range makes an object
\* for its field first, which is the next element here.
Added(es, p, e) ==
    LET n == Len(es) + 1
        linked == Linked(es, p, e.key, n)
    IN IF e.class = "Range"
       THEN Append(Append(linked, [e EXCEPT !.subs = With(@, e.field, n + 1)]),
                   Fresh("Object", e.field, NoField))
       ELSE Append(linked, e)

\* Mutant of Found: the class is not looked at.
FoundUncast(es, p, e) == e.key \in DOMAIN es[p].subs

\* getElement<R>(key).
Found(es, p, e) ==
    e.key \in DOMAIN es[p].subs /\ IsA(es[es[p].subs[e.key]].class, e.class)

\* The key of e is in p for something else.
Clashes(es, p, e) ==
    \/ e.key \in DOMAIN es[p].own
    \/ e.key \in DOMAIN es[p].subs /\ ~IsA(es[es[p].subs[e.key]].class, e.class)

\* A call in progress: the elements, the one the call has arrived at, mixed.
Here(n) == [elements |-> elements, at |-> n, mixed |-> mixed]

\* Mutant of Sub: the child is made without being looked for.
SubAnew(c, e) == [elements |-> Added(c.elements, c.at, e),
                  at |-> Len(c.elements) + 1,
                  mixed |-> c.mixed \/ Clashes(c.elements, c.at, e)]

\* Get or create: the child of an object with the key and class of e.
Sub(c, e) ==
    IF Found(c.elements, c.at, e)
    THEN [c EXCEPT !.at = c.elements[c.at].subs[e.key]]
    ELSE [elements |-> Added(c.elements, c.at, e),
          at |-> Len(c.elements) + 1,
          mixed |-> c.mixed \/ Clashes(c.elements, c.at, e)]

\* A new child at the end of an array.
Item(c, e) == [c EXCEPT !.elements = Added(@, c.at, e), !.at = Len(c.elements) + 1]

\* A value under a key goes into an object, which has no child there.
MayHave(e, key) == e.class \notin Arrays /\ key \notin DOMAIN e.subs

\* Mutant of Put: other values of the element are forgotten.
PutOnly(c, key, value) ==
    [c EXCEPT !.elements[c.at].own = With(<<>>, key, value),
              !.mixed = @ \/ ~MayHave(c.elements[c.at], key)]

\* _value[key] = value, on an element that is meant to have values.
Put(c, key, value) ==
    [c EXCEPT !.elements[c.at].own = With(@, key, value),
              !.mixed = @ \/ ~MayHave(c.elements[c.at], key)]

\* _value[key].append(value).
PutLast(c, key, v) ==
    LET own == c.elements[c.at].own
    IN Put(c, key, [list |-> TRUE,
                    of |-> IF key \in DOMAIN own THEN Append(own[key].of, v) ELSE <<v>>])

\* On a value that is not a list append() throws, and nothing has changed.
CanAppend(c, key) ==
    LET own == c.elements[c.at].own
    IN key \in DOMAIN own => own[key].list /\ Len(own[key].of) < MaxList

-----------------------------------------------------------------------------
(* The calls.                                                              *)

Written(es) == UNION {{<<n, k>> : k \in DOMAIN es[n].own} : n \in DOMAIN es}
Small(es) == Len(es) <= MaxElements /\ Cardinality(Written(es)) <= MaxWritten

Changes(c) == Small(c.elements) /\ elements' = c.elements /\ mixed' = c.mixed

\* The caller gets the element that the call arrived at.
Returns(c, class, field) ==
    /\ Changes(c)
    /\ handles' = handles \cup {[element |-> c.at, class |-> class, field |-> field]}

Init == \E root \in Roots :
          /\ elements = <<Fresh(root, IF root = "Indexer" THEN "index" ELSE "", NoField)>>
          /\ handles = {[element |-> 1, class |-> root, field |-> NoField]}
          /\ mixed = FALSE

MemberOf(c, key) == Sub(c, Fresh(Members[c.elements[c.at].class][key], key, NoField))

\* Indexer::settings(), mapping(), Searcher::query(), QBool::must(), ...
Member(h) == \E key \in DOMAIN Members[h.class] :
               Returns(MemberOf(Here(h.element), key), Members[h.class][key], NoField)

Named(c, name) == Sub(c, Fresh(NamedMembers[c.elements[c.at].class], name, NoField))

\* Analyzer::tokenizer(name) and Properties::field(name).
NamedMember(h, name) ==
    Returns(Named(Here(h.element), name), NamedMembers[h.class], NoField)

\* Indexer::tokenizer(name), Indexer::field(name).
IndexerTokenizer(h, name) ==
    LET settings == MemberOf(Here(h.element), "settings")
        analysis == MemberOf(settings, "analysis")
    IN Returns(Named(MemberOf(analysis, "analyzer"), name), "Tokenizer", NoField)

IndexerField(h, name) ==
    LET mapping == MemberOf(Here(h.element), "mapping")
    IN Returns(Named(MemberOf(mapping, "properties"), name), "Field", NoField)

\* Query::must(), should(), must_not().
QueryBool(h) ==
    \E key \in DOMAIN Members["QBool"] :
      Returns(MemberOf(MemberOf(Here(h.element), "bool"), key), Members["QBool"][key], NoField)

\* newObject() and newArray() look for the child of an object only.
NewChild(h, class, name) ==
    LET e == Fresh(class, name, NoField)
    IN Returns(IF h.class \in Arrays THEN Item(Here(h.element), e)
               ELSE Sub(Here(h.element), e), class, NoField)

\* QObject::term(field) and the like: the child is looked up by the class.
Clause(h, class, field) ==
    Returns(Sub(Here(h.element), Fresh(class, ClauseKey[class], field)), class, field)

\* Mutant of Wrapped: the array has the clause as well as its wrapper.
WrappedTwice(c, e) ==
    LET i == Item(Item(c, Fresh("Object", "", NoField)), e)
    IN [i EXCEPT !.elements[c.at].subs = Append(@, i.at)]

\* An item of an array is an object that wraps the clause.
Wrapped(c, e) == Item(Item(c, Fresh("Object", "", NoField)), e)

\* QArray::term(field) and the like: always a new one.
ArrayClause(h, class, field) ==
    Returns(Wrapped(Here(h.element), Fresh(class, ClauseKey[class], field)), class, field)

\* addElement() by the caller, with an object he made.
AddElement(h, name) ==
    LET e == Fresh("Object", name, NoField)
        c == Item(Here(h.element), e)
    IN Returns([c EXCEPT !.mixed = @ \/ /\ h.class \notin Arrays
                                        /\ name \in DOMAIN elements[h.element].subs
                                                    \cup DOMAIN elements[h.element].own],
               "Object", NoField)

Writes(c) == Changes(c) /\ UNCHANGED handles

\* Base::add() and the setters that call it.
AddValue(h, name, v) == Writes(Put(Here(h.element), name, Scalar(v)))

\* Base::append().
AppendValue(h, name, v) == /\ CanAppend(Here(h.element), name)
                           /\ Writes(PutLast(Here(h.element), name, v))

\* Term, Terms and Match::setValue(), under the field of the element.
SetValue(h, v) ==
    LET c == Here(h.element)
        field == elements[h.element].field
    IN \/ h.class \in {"Term", "Match"} /\ Writes(Put(c, field, Scalar(v)))
       \/ h.class = "Terms" /\ CanAppend(c, field) /\ Writes(PutLast(c, field, v))

\* MultiMatch::appendField() and setQuery().
MultiMatch(h, v) ==
    \/ CanAppend(Here(h.element), "fields") /\ Writes(PutLast(Here(h.element), "fields", v))
    \/ Writes(Put(Here(h.element), "query", Scalar(v)))

\* Range::setRange(): _sub is the object that the constructor made.
SetRange(h, v) ==
    Writes(Put(Put(Here(h.element + 1), "gt", Scalar(v)), "lt", Scalar(v)))

\* Query::minimum_should_match().
MinimumShouldMatch(h, v) ==
    Writes(Put(MemberOf(Here(h.element), "bool"), "minimum_should_match", Scalar(v)))

\* Updater::add() and append() write into the document.
UpdaterAdd(h, name, v) == Writes(Put(MemberOf(Here(h.element), "doc"), name, Scalar(v)))

UpdaterAppend(h, name, v) ==
    LET c == MemberOf(Here(h.element), "doc")
    IN CanAppend(c, name) /\ Writes(PutLast(c, name, v))

Builds(h) ==
    \/ h.class \in DOMAIN Members /\ Member(h)
    \/ h.class = "Query" /\ QueryBool(h)
    \/ \E name \in Names :
         \/ h.class \in DOMAIN NamedMembers /\ NamedMember(h, name)
         \/ h.class = "Indexer" /\ (IndexerTokenizer(h, name) \/ IndexerField(h, name))
         \/ \E class \in {"Object", "Array"} : NewChild(h, class, name)
         \/ AddElement(h, name)
    \/ \E class \in Clauses :
         \E field \in IF class = "MultiMatch" THEN {NoField} ELSE Fields :
           \/ h.class = "Query" /\ Clause(h, class, field)
           \/ h.class \in QArrays /\ ArrayClause(h, class, field)

Fills(h, v) ==
    \/ \E name \in Names :
         \/ h.class # "Updater" /\ (AddValue(h, name, v) \/ AppendValue(h, name, v))
         \/ h.class = "Updater" /\ (UpdaterAdd(h, name, v) \/ UpdaterAppend(h, name, v))
    \/ SetValue(h, v)
    \/ h.class = "MultiMatch" /\ MultiMatch(h, v)
    \/ h.class = "Range" /\ SetRange(h, v)
    \/ h.class = "Query" /\ MinimumShouldMatch(h, v)

Next == \E h \in handles : Builds(h) \/ \E v \in Values : Fills(h, v)

Spec == Init /\ [][Next]_vars

-----------------------------------------------------------------------------
(* Object::value() and Array::value(): own values, then the children, which *)
(* take the place of a value with the same key.                            *)

At(key, index) == [key |-> key, index |-> index]

\* null, which no call writes: what value() gives for an element with neither
\* values nor children.
Null == [list |-> FALSE, of |-> <<>>]

OwnLeaves(e) ==
    IF DOMAIN e.own \cup DOMAIN e.subs = {} THEN {[path |-> <<>>, value |-> Null]}
    ELSE {[path |-> <<At(k, 0)>>, value |-> e.own[k]] : k \in {k \in DOMAIN e.own : MayHave(e, k)}}

Leaves[n \in DOMAIN elements] ==
    LET e == elements[n]
        step(k) == IF e.class \in Arrays THEN At("", k) ELSE At(k, 0)
    IN OwnLeaves(e)
       \cup UNION {{[leaf EXCEPT !.path = <<step(k)>> \o @] : leaf \in Leaves[e.subs[k]]}
                    : k \in DOMAIN e.subs}

Document == INSTANCE RequestDocument WITH doc <- Leaves[1]

-----------------------------------------------------------------------------
\* Types.  An own value that is no list is one value, and what a call returned
\* is of the class that it promised.  The pointer _sub of a range is good.
TypeOK ==
    /\ DOMAIN elements = 1 .. Len(elements)
    /\ \A n \in DOMAIN elements :
         LET e == elements[n]
         IN /\ \A k \in DOMAIN e.subs : e.subs[k] \in DOMAIN elements
            /\ e.class = "Range" => /\ n < Len(elements)
                                    /\ elements[n + 1].class = "Object"
            /\ \A k \in DOMAIN e.own : /\ e.own[k].of \in Seq(Values)
                                       /\ e.own[k].list \/ Len(e.own[k].of) = 1
    /\ \A h \in handles : /\ h.element \in DOMAIN elements
                            /\ IsA(elements[h.element].class, h.class)
                            /\ h.field \in Fields \cup {NoField}
    /\ mixed \in BOOLEAN

\* The elements are a tree: a child is younger than its parent and has no
\* other, in an object it stands under its own key.  So value() ends, and
\* sends no element twice.
TreeOf(es) ==
    \A p \in DOMAIN es : \A k \in DOMAIN es[p].subs :
      /\ es[p].subs[k] > p
      /\ es[p].class \notin Arrays => es[es[p].subs[k]].key = k
      /\ \A q \in DOMAIN es : \A l \in DOMAIN es[q].subs :
           es[p].subs[k] = es[q].subs[l] => p = q /\ k = l

IsTree == TreeOf(elements)

\* Each element but the root is the child of an older one, and none of the
\* values is hidden by a child.
AllSent(es) ==
    \A n \in DOMAIN es :
      /\ n = 1 \/ \E p \in 1 .. (n - 1) : \E k \in DOMAIN es[p].subs : es[p].subs[k] = n
      /\ \A k \in DOMAIN es[n].own : MayHave(es[n], k)

\* Unless a key was used for two things, every element that was ever handed
\* out is still part of the request with all of its values: whatever the
\* order of the calls, what is written is sent.
WrittenIsSent == mixed \/ AllSent(elements)

\* The tree implements the document: what value() gives changes with each
\* call as a JSON document that the caller writes to.
ImplementsDocument == Document!Spec
=============================================================================
