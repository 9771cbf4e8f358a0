----------------------- MODULE ServiceManager_proofs -----------------------
(***************************************************************************)
(* Theorems about ServiceManager for every value of its parameters.        *)
(***************************************************************************)
EXTENDS ServiceManager, WellFoundedInduction, SequenceTheorems, TLAPS

\* A set of naturals that is not empty has a least member.
LEMMA LeastMember ==
    ASSUME NEW T, T \subseteq Nat, T # {}
    PROVE  \E i \in T : \A j \in T : i <= j
<1> DEFINE R == OpToRel(<, Nat)
<1>1. \A x, y \in Nat : y < x => <<y, x>> \in R
  BY DEF OpToRel
<1>2. IsWellFoundedOn(R, Nat)
  BY NatLessThanWellFounded
<1> HIDE DEF R
<1>3. PICK i \in T : \A j \in T : <<j, i>> \notin R
  BY <1>2, WFMin
<1>4. \A j \in T : ~ (j < i)
  BY <1>1, <1>3
<1> QED BY <1>4

\* Erasing the first entry with some value from a vector: the rest keeps its
\* type, and the vector is unchanged or one entry shorter.
LEMMA RemoveFirstShortens ==
    ASSUME NEW S, NEW q \in Seq(S), NEW e
    PROVE  /\ RemoveFirst(q, e) \in Seq(S)
           /\ \/ RemoveFirst(q, e) = q
              \/ Len(RemoveFirst(q, e)) = Len(q) - 1
<1> DEFINE I == {i \in 1 .. Len(q) : q[i] = e}
<1>1. CASE I = {}
  BY <1>1 DEF RemoveFirst
<1>2. CASE I # {}
  <2> DEFINE k == CHOOSE i \in I : \A j \in I : i <= j
  <2>1. \E i \in I : \A j \in I : i <= j
    <3> HIDE DEF I
    <3>1. I \subseteq Nat
      BY LenProperties DEF I
    <3> QED BY <3>1, <1>2, LeastMember
  <2>2. k \in 1 .. Len(q)
    BY <2>1
  <2>3. RemoveFirst(q, e) = SubSeq(q, 1, k - 1) \o SubSeq(q, k + 1, Len(q))
    BY <1>2 DEF RemoveFirst, RemoveAt, SelectInSeq, Min
  <2> HIDE DEF k, I
  <2>4. /\ Len(q) \in Nat
        /\ \A i \in 1 .. Len(q) : q[i] \in S
    BY LenProperties, ElementOfSeq
  <2>5. SubSeq(q, 1, k - 1) \in Seq(S) /\ Len(SubSeq(q, 1, k - 1)) = k - 1
    <3>1. /\ 1 \in Int /\ k - 1 \in Int
          /\ \A i \in 1 .. k - 1 : q[i] \in S
      BY <2>2, <2>4
    <3> QED BY <3>1, <2>2, SubSeqProperties, Z3
  <2>6. /\ SubSeq(q, k + 1, Len(q)) \in Seq(S)
        /\ Len(SubSeq(q, k + 1, Len(q))) = Len(q) - k
    <3>1. /\ k + 1 \in Int /\ Len(q) \in Int
          /\ \A i \in k + 1 .. Len(q) : q[i] \in S
      BY <2>2, <2>4
    <3> QED BY <3>1, <2>2, SubSeqProperties, Z3
  <2>7. /\ RemoveFirst(q, e) \in Seq(S)
        /\ Len(RemoveFirst(q, e)) = (k - 1) + (Len(q) - k)
    BY <2>3, <2>5, <2>6, ConcatProperties
  <2> QED
    BY <2>2, <2>4, <2>7
<1> QED BY <1>1, <1>2

-----------------------------------------------------------------------------
(* What the operations of ServiceChannel do to one channel.                *)

\* Each of them gives a channel again, and the read of a node that lies
\* within the vector gives a host.
LEMMA ChannelOps ==
    ASSUME NEW c \in Channel
    PROVE  /\ \A h \in Hosts : /\ Appended(c, h) \in Channel
                              /\ Removed(c, h) \in Channel
           /\ c.nodes # <<>> => Rotated(c) \in Channel
           /\ Read(c) \subseteq Hosts \cup {None, Undefined}
<1>1. \A h \in Hosts : Removed(c, h) \in Channel
  BY RemoveFirstShortens DEF Channel, Removed
<1>5. \A h \in Hosts : Appended(c, h) \in Channel
  <2> TAKE h \in Hosts
  <2>1. Append(c.nodes, h) \in Seq(Hosts)
    BY AppendProperties DEF Channel
  <2> QED BY <2>1 DEF Channel, Appended
<1>2. Len(c.nodes) \in Nat /\ (c.nodes # <<>> => Len(c.nodes) > 0)
  BY DEF Channel
<1>3. ASSUME c.nodes # <<>> PROVE Rotated(c) \in Channel
  BY <1>2, <1>3 DEF Channel, Rotated
<1>4. Read(c) \subseteq Hosts \cup {None, Undefined}
  BY DEF Channel, Read
<1> QED BY <1>1, <1>3, <1>4, <1>5

\* Appending keeps a cursor in range; erasing loses it only when it shortens
\* the vector by one.
LEMMA CursorOps ==
    ASSUME NEW c \in Channel, NEW h \in Hosts
    PROVE  /\ Appended(c, h).next = c.next
           /\ CursorInRange(c) => CursorInRange(Appended(c, h))
           /\ Removed(c, h).next = c.next
           /\ CursorInRange(c) => \/ CursorInRange(Removed(c, h))
                                  \/ Len(Removed(c, h).nodes) = Len(c.nodes) - 1
<1>1. Len(c.nodes) \in Nat /\ c.next \in Nat
  BY DEF Channel
<1>2. /\ Appended(c, h).next = c.next
      /\ Len(Appended(c, h).nodes) = Len(c.nodes) + 1
  BY AppendProperties DEF Channel, Appended
<1>3. /\ Removed(c, h).next = c.next
      /\ \/ Removed(c, h).nodes = c.nodes
         \/ Len(Removed(c, h).nodes) = Len(c.nodes) - 1
  BY RemoveFirstShortens DEF Channel, Removed
<1> QED BY <1>1, <1>2, <1>3 DEF CursorInRange

\* Rotating a channel that has nodes brings the cursor into range from
\* wherever it was.
LEMMA CursorRotated ==
    ASSUME NEW c \in Channel
    PROVE  /\ Rotated(c).nodes = c.nodes
           /\ c.nodes # <<>> => CursorInRange(Rotated(c))
<1>1. Len(c.nodes) \in Nat /\ (c.nodes # <<>> => Len(c.nodes) > 0)
  BY DEF Channel
<1>2. /\ Rotated(c).nodes = c.nodes
      /\ c.nodes # <<>> => Rotated(c).next < Len(c.nodes)
  BY <1>1 DEF Channel, Rotated
<1> QED BY <1>1, <1>2 DEF CursorInRange

-----------------------------------------------------------------------------
\* Every state has the types of TypeOK; with them, the two maps of the
\* manager hold the same services and an operation in progress works on a
\* channel that is still in its map.
THEOREM TypeCorrect == Spec => []TypeOK
<1>1. Init => TypeOK
  BY DEF Init, TypeOK, CallType
<1>2. TypeOK /\ [Next]_vars => TypeOK'
  <2> SUFFICES ASSUME TypeOK, [Next]_vars
               PROVE  TypeOK'
    OBVIOUS
  <2> USE DEF TypeOK
  <2>1. ASSUME NEW t \in Threads, NEW s \in Services, Declared(t, s)
        PROVE  TypeOK'
    BY <2>1 DEF Declared, NewChannel, Channel
  <2>2. ASSUME NEW t \in Threads, NEW s \in Services, Ignored(t, s)
        PROVE  TypeOK'
    BY <2>2 DEF Ignored, vars
  <2>3. ASSUME NEW t \in Threads, NEW s \in Services, LookupUnknown(t, s)
        PROVE  TypeOK'
    BY <2>3 DEF LookupUnknown
  <2>4. ASSUME NEW t \in Threads, NEW s \in Services, NEW op \in Lookups,
               Lookup(t, op, s)
        PROVE  TypeOK'
    <3>1. Call(op, s, None) \in CallType
      BY DEF Call, CallType
    <3> QED BY <2>4, <3>1 DEF Lookup, Call
  <2>5. ASSUME NEW t \in Threads, NEW s \in Services, NEW h \in Hosts,
               NEW op \in Reports, Report(t, op, s, h)
        PROVE  TypeOK'
    <3>1. Call(op, s, h) \in CallType
      BY DEF Call, CallType
    <3> QED BY <2>5, <3>1 DEF Report, Call
  <2>6. ASSUME NEW t \in Threads, AppendNode(t) PROVE TypeOK'
    <3>1. call[t].svc \in cares /\ call[t].host \in Hosts
      BY <2>6 DEF AppendNode, CallType, Idle, Call, Lookups
    <3> QED BY <2>6, <3>1, ChannelOps DEF AppendNode, CallType
  <2>7. ASSUME NEW t \in Threads, AppendFails(t) PROVE TypeOK'
    BY <2>7 DEF AppendFails, CallType
  <2>8. ASSUME NEW t \in Threads, RemoveNode(t) PROVE TypeOK'
    <3>1. call[t].svc \in cares /\ call[t].host \in Hosts
      BY <2>8 DEF RemoveNode, CallType, Idle, Call, Lookups
    <3> QED BY <2>8, <3>1, ChannelOps DEF RemoveNode, CallType
  <2>9. ASSUME NEW t \in Threads, PickNothing(t) PROVE TypeOK'
    <3>1. call[t].svc \in cares
      BY <2>9 DEF PickNothing, Idle, Call, Lookups
    <3> QED BY <2>9, <3>1 DEF PickNothing, Finish, CallType
  <2>10. ASSUME NEW t \in Threads, PickNode(t) PROVE TypeOK'
    <3>1. call[t].svc \in cares
      BY <2>10 DEF PickNode, Idle, Call, Lookups
    <3> DEFINE c == pool[call[t].svc]
    <3>2. Rotated(c) \in Channel /\ Read(c) \subseteq Hosts \cup {None, Undefined}
      BY <2>10, <3>1, ChannelOps DEF PickNode
    <3>3. PICK r \in Read(c) : Finish(t, r, Rotated(c))
      BY <2>10 DEF PickNode
    <3> QED BY <3>1, <3>2, <3>3 DEF Finish, CallType
  <2>11. CASE UNCHANGED vars
    BY <2>11 DEF vars
  <2> QED
    BY <2>1, <2>2, <2>3, <2>4, <2>5, <2>6, <2>7, <2>8, <2>9, <2>10, <2>11
    DEF Next, Other, OnServiceOnline, OnServiceOffline, Reports
<1> QED BY <1>1, <1>2, PTL DEF Spec

\* The manager's mutex is held exactly while a lookup is in progress, hence
\* by one lookup at a time, and no lookup returns with it held.
THEOREM LockDisciplineHolds == Spec => []LockDiscipline
<1>1. Init => LockDiscipline
  BY PoolAssumption DEF Init, LockDiscipline, Idle, Call, Lookups
<1>2. TypeOK /\ LockDiscipline /\ [Next]_vars => LockDiscipline'
  <2> SUFFICES ASSUME TypeOK, LockDiscipline, [Next]_vars
               PROVE  LockDiscipline'
    OBVIOUS
  <2> USE PoolAssumption DEF LockDiscipline, Lookups, Idle, Call
  <2>0. call \in [Threads -> CallType]
    BY DEF TypeOK
  <2>1. ASSUME NEW t \in Threads, NEW s \in Services,
               \/ Declared(t, s) \/ Ignored(t, s) \/ LookupUnknown(t, s)
        PROVE  LockDiscipline'
    BY <2>1 DEF Declared, Ignored, LookupUnknown, vars
  <2>2. ASSUME NEW t \in Threads, NEW s \in Services, NEW op \in Lookups,
               Lookup(t, op, s)
        PROVE  LockDiscipline'
    BY <2>0, <2>2 DEF Lookup, Enters
  <2>3. ASSUME NEW t \in Threads, NEW s \in Services, NEW h \in Hosts,
               NEW op \in Reports, Report(t, op, s, h)
        PROVE  LockDiscipline'
    BY <2>0, <2>3 DEF Report, Enters, Reports
  <2>4. ASSUME NEW t \in Threads,
               AppendNode(t) \/ AppendFails(t) \/ RemoveNode(t)
        PROVE  LockDiscipline'
    BY <2>0, <2>4 DEF AppendNode, AppendFails, RemoveNode
  <2>5. ASSUME NEW t \in Threads, NEW r, NEW c,
               call[t].op \in Lookups, Finish(t, r, c)
        PROVE  LockDiscipline'
    BY <2>0, <2>5 DEF Finish
  <2>6. ASSUME NEW t \in Threads, PickNothing(t) \/ PickNode(t)
        PROVE  LockDiscipline'
    BY <2>5, <2>6 DEF PickNothing, PickNode
  <2>7. CASE UNCHANGED vars
    BY <2>7 DEF vars
  <2> QED
    BY <2>1, <2>2, <2>3, <2>4, <2>6, <2>7
    DEF Next, Other, OnServiceOnline, OnServiceOffline, Reports
<1> QED BY <1>1, <1>2, TypeCorrect, PTL DEF Spec

\* Only erasing a node takes a cursor out of range, and every move of a
\* cursor brings it into range, whatever the number of services, nodes and
\* threads and however lookups and reports interleave.
THEOREM CursorDisciplineHolds == Spec => CursorDiscipline
<1> DEFINE Disciplined(s) ==
      /\ s \in cares'
      /\ CursorInRange(pool[s]) /\ ~CursorInRange(pool'[s])
           => Len(pool'[s].nodes) = Len(pool[s].nodes) - 1
      /\ pool'[s].next # pool[s].next
           => pool'[s].nodes = pool[s].nodes /\ CursorInRange(pool'[s])
<1>1. TypeOK /\ [Next]_vars => [\A s \in cares : Disciplined(s)]_vars
  <2> SUFFICES ASSUME TypeOK, Next, NEW s \in cares
               PROVE  Disciplined(s)
    OBVIOUS
  <2>0. /\ pool[s] \in Channel /\ DOMAIN pool = cares
        /\ call \in [Threads -> CallType]
        /\ \A t \in Threads : call[t] # Idle => call[t].svc \in cares
    BY DEF TypeOK
  <2>1. ASSUME cares' = cares, pool'[s] = pool[s] PROVE Disciplined(s)
    BY <2>1
  <2>2. ASSUME NEW t \in Threads, NEW x \in Services, Declared(t, x)
        PROVE  Disciplined(s)
    BY <2>0, <2>2 DEF Declared
  <2>3. ASSUME NEW t \in Threads, AppendNode(t) PROVE Disciplined(s)
    <3>1. cares' = cares /\ call[t].host \in Hosts
      BY <2>0, <2>3 DEF AppendNode, CallType, Idle, Call, Lookups
    <3>2. pool'[s] = pool[s] \/ pool'[s] = Appended(pool[s], call[t].host)
      BY <2>0, <2>3 DEF AppendNode
    <3> QED BY <2>0, <2>1, <3>1, <3>2, CursorOps
  <2>4. ASSUME NEW t \in Threads, RemoveNode(t) PROVE Disciplined(s)
    <3>1. cares' = cares /\ call[t].host \in Hosts
      BY <2>0, <2>4 DEF RemoveNode, CallType, Idle, Call, Lookups
    <3>2. pool'[s] = pool[s] \/ pool'[s] = Removed(pool[s], call[t].host)
      BY <2>0, <2>4 DEF RemoveNode
    <3> QED BY <2>0, <2>1, <3>1, <3>2, CursorOps
  <2>5. ASSUME NEW t \in Threads, PickNothing(t) PROVE Disciplined(s)
    BY <2>0, <2>1, <2>5 DEF PickNothing, Finish
  <2>6. ASSUME NEW t \in Threads, PickNode(t) PROVE Disciplined(s)
    <3>1. cares' = cares
      BY <2>6 DEF PickNode, Finish
    <3>2. \/ pool'[s] = pool[s]
          \/ pool[s].nodes # <<>> /\ pool'[s] = Rotated(pool[s])
      BY <2>0, <2>6 DEF PickNode, Finish
    <3>3. /\ Rotated(pool[s]).nodes = pool[s].nodes
          /\ pool[s].nodes # <<>> => CursorInRange(Rotated(pool[s]))
      BY <2>0, CursorRotated
    <3> QED BY <2>1, <3>1, <3>2, <3>3
  <2>7. ASSUME NEW t \in Threads,
               \/ AppendFails(t)
               \/ \E x \in Services :
                    \/ Ignored(t, x) \/ LookupUnknown(t, x)
                    \/ \E op \in Lookups : Lookup(t, op, x)
                    \/ \E h \in Hosts, op \in Reports : Report(t, op, x, h)
        PROVE  Disciplined(s)
    BY <2>1, <2>7
    DEF AppendFails, Ignored, LookupUnknown, Lookup, Report, vars
  <2> QED
    BY <2>2, <2>3, <2>4, <2>5, <2>6, <2>7
    DEF Next, Other, OnServiceOnline, OnServiceOffline, Reports
<1> QED BY <1>1, TypeCorrect, PTL DEF Spec, CursorDiscipline

-----------------------------------------------------------------------------
(* The pool keeps the promise of NodeDirectory.                            *)

\* Erasing the first entry with some value erases at most one entry.
LEMMA RemoveFirstTakesOne ==
    ASSUME NEW q, NEW e
    PROVE  \/ RemoveFirst(q, e) = q
           \/ \E i \in 1 .. Len(q) : RemoveFirst(q, e) = RemoveAt(q, i)
<1> DEFINE I == {i \in 1 .. Len(q) : q[i] = e}
<1>1. CASE I = {}
  BY <1>1 DEF RemoveFirst
<1>2. CASE I # {}
  <2> DEFINE k == CHOOSE i \in I : \A j \in I : i <= j
  <2>1. \E i \in I : \A j \in I : i <= j
    <3> HIDE DEF I
    <3>1. I \subseteq Nat
      BY DEF I
    <3> QED BY <3>1, <1>2, LeastMember
  <2>2. k \in 1 .. Len(q)
    BY <2>1
  <2>3. RemoveFirst(q, e) = RemoveAt(q, k)
    BY <1>2 DEF RemoveFirst, SelectInSeq, Min
  <2> QED BY <2>2, <2>3
<1> QED BY <1>1, <1>2

\* A channel with a gap keeps it when a node is erased, and a channel that
\* loses no node stays as it was.
LEMMA GapOps ==
    ASSUME NEW c \in Channel, NEW h \in Hosts
    PROVE  /\ Removed(c, h).next = c.next
           /\ CursorInRange(Removed(c, h)) => CursorInRange(c)
           /\ \/ Removed(c, h).nodes = c.nodes
              \/ \E i \in 1 .. Len(c.nodes) :
                   Removed(c, h).nodes = RemoveAt(c.nodes, i)
<1>1. Len(c.nodes) \in Nat /\ c.next \in Nat
  BY DEF Channel
<1>2. /\ Removed(c, h).next = c.next
      /\ Removed(c, h).nodes = RemoveFirst(c.nodes, h)
  BY DEF Channel, Removed
<1>3. \/ Removed(c, h).nodes = c.nodes
      \/ Len(Removed(c, h).nodes) = Len(c.nodes) - 1
  BY <1>2, RemoveFirstShortens DEF Channel
<1>4. CursorInRange(Removed(c, h)) => CursorInRange(c)
  BY <1>1, <1>2, <1>3 DEF CursorInRange
<1> QED BY <1>2, <1>4, RemoveFirstTakesOne

\* An operation on the channel of one service changes the nodes and the gap
\* of that service only.
LEMMA OneChannel ==
    ASSUME TypeOK, NEW s \in cares, NEW c, pool' = [pool EXCEPT ![s] = c]
    PROVE  /\ NodesOf' = [NodesOf EXCEPT ![s] = c.nodes]
           /\ CursorInRange(c) => GapsOf' = GapsOf \ {s}
           /\ ~CursorInRange(c) => GapsOf' = GapsOf \cup {s}
<1>1. DOMAIN pool = cares
  BY DEF TypeOK
<1>2. /\ DOMAIN pool' = cares
      /\ pool'[s] = c
      /\ \A x \in cares : x # s => pool'[x] = pool[x]
  BY <1>1
<1>3. NodesOf' = [NodesOf EXCEPT ![s] = c.nodes]
  BY <1>1, <1>2 DEF NodesOf
<1>4. \A x : x \in GapsOf' <=> x \in cares /\ ~CursorInRange(pool'[x])
  BY <1>2 DEF GapsOf
<1>5. \A x : x \in GapsOf <=> x \in cares /\ ~CursorInRange(pool[x])
  BY <1>1 DEF GapsOf
<1>6. \A x \in cares : x # s => (x \in GapsOf' <=> x \in GapsOf)
  BY <1>2, <1>4, <1>5
<1>7. s \in GapsOf' <=> ~CursorInRange(c)
  BY <1>2, <1>4
<1> QED BY <1>3, <1>4, <1>5, <1>6, <1>7

\* The nodes and the gaps are unchanged when every channel is.
LEMMA SameChannels ==
    ASSUME DOMAIN pool' = DOMAIN pool,
           \A s \in DOMAIN pool : /\ pool'[s].nodes = pool[s].nodes
                                  /\ pool'[s].next = pool[s].next
    PROVE  NodesOf' = NodesOf /\ GapsOf' = GapsOf
BY DEF NodesOf, GapsOf, CursorInRange

\* What the threads are told about nodes is what NodeDirectory promises: for
\* any number of services, nodes and threads, and although a report may
\* change a channel between the two halves of a lookup, every answer is a
\* node the service has when it is given, nothing is answered only when
\* there is none, and two lookups in a row never miss.
THEOREM ImplementsDirectoryHolds == Spec => ImplementsDirectory
<1> USE DEF Directory!dvars
<1>1. Init => Directory!Init
  BY DEF Init, Directory!Init, NodesOf, GapsOf
<1>2. TypeOK /\ [Next]_vars => [Directory!Next]_(Directory!dvars)
  <2> SUFFICES ASSUME TypeOK, [Next]_vars
               PROVE  Directory!Next \/ UNCHANGED <<NodesOf, GapsOf, got>>
    OBVIOUS
  <2>0. /\ DOMAIN pool = cares /\ cares \subseteq Services
        /\ \A s \in cares : pool[s] \in Channel
        /\ call \in [Threads -> CallType]
        /\ \A t \in Threads : call[t] # Idle => call[t].svc \in cares
        /\ DOMAIN NodesOf = cares
        /\ \A s \in cares : NodesOf[s] = pool[s].nodes
        /\ \A s \in cares : s \in GapsOf <=> ~CursorInRange(pool[s])
    BY DEF TypeOK, NodesOf, GapsOf
  <2>1. ASSUME NEW t \in Threads, NEW s \in Services, Declared(t, s)
        PROVE  Directory!Next \/ UNCHANGED <<NodesOf, GapsOf, got>>
    <3>1. CASE s \in DOMAIN pool
      <4>1. UNCHANGED <<NodesOf, GapsOf>>
        BY <2>1, <3>1, SameChannels DEF Declared
      <4> QED BY <4>1, <2>1 DEF Declared
    <3>2. CASE s \notin DOMAIN pool
      <4>1. /\ DOMAIN pool' = DOMAIN pool \cup {s}
            /\ pool'[s] = NewChannel
            /\ \A x \in DOMAIN pool : pool'[x] = pool[x]
        BY <2>1, <3>2 DEF Declared
      <4>2. NodesOf' = [x \in DOMAIN NodesOf \cup {s} |->
                          IF x \in DOMAIN NodesOf THEN NodesOf[x] ELSE <<>>]
        BY <4>1, <3>2 DEF NodesOf, NewChannel
      <4>3. CursorInRange(NewChannel)
        BY DEF CursorInRange, NewChannel
      <4>4. GapsOf' = GapsOf
        BY <4>1, <4>3 DEF GapsOf
      <4>5. Directory!Declare(s)
        BY <2>0, <2>1, <3>2, <4>2, <4>4 DEF Declared, Directory!Declare
      <4> QED BY <4>5 DEF Directory!Next
    <3> QED BY <3>1, <3>2
  <2>2. ASSUME NEW t \in Threads, AppendNode(t)
        PROVE  Directory!Next
    <3>1. PICK s \in cares, h \in Hosts : s = call[t].svc /\ h = call[t].host
      BY <2>0, <2>2 DEF AppendNode, CallType, Idle, Call, Lookups
    <3> DEFINE c == Appended(pool[s], h)
    <3>2. pool' = [pool EXCEPT ![s] = c] /\ got' = got
      BY <2>0, <2>2, <3>1 DEF AppendNode
    <3>3. c.nodes = Append(NodesOf[s], h)
      BY <2>0, <3>1 DEF Appended, Channel
    <3>4. s \notin GapsOf => CursorInRange(c)
      BY <2>0, <3>1, CursorOps
    <3> HIDE DEF c
    <3>5. /\ NodesOf' = [NodesOf EXCEPT ![s] = c.nodes]
          /\ CursorInRange(c) => GapsOf' = GapsOf \ {s}
          /\ ~CursorInRange(c) => GapsOf' = GapsOf \cup {s}
      BY <3>1, <3>2, OneChannel
    <3>6. GapsOf' \in {GapsOf, GapsOf \ {s}}
      BY <3>4, <3>5
    <3>7. NodesOf' = [NodesOf EXCEPT ![s] = Append(@, h)]
      BY <3>3, <3>5
    <3>8. s \in DOMAIN NodesOf
      BY <2>0, <3>1
    <3>9. Directory!Come(s, h)
      BY <3>2, <3>6, <3>7, <3>8 DEF Directory!Come
    <3> QED BY <2>0, <3>9 DEF Directory!Next
  <2>3. ASSUME NEW t \in Threads, RemoveNode(t)
        PROVE  Directory!Next \/ UNCHANGED <<NodesOf, GapsOf, got>>
    <3> DEFINE s == call[t].svc
               h == call[t].host
               c == Removed(pool[s], h)
    <3>1. s \in cares /\ s \in Services /\ h \in Hosts
      BY <2>0, <2>3 DEF RemoveNode, CallType, Idle, Call, Lookups
    <3>2. pool' = [pool EXCEPT ![s] = c] /\ got' = got
      BY <2>0, <2>3, <3>1 DEF RemoveNode
    <3>3. /\ c.next = pool[s].next
          /\ CursorInRange(c) => s \notin GapsOf
          /\ \/ c.nodes = pool[s].nodes
             \/ \E i \in 1 .. Len(NodesOf[s]) : c.nodes = RemoveAt(NodesOf[s], i)
      BY <2>0, <3>1, GapOps
    <3> HIDE DEF c, s, h
    <3>4. CASE c.nodes = pool[s].nodes
      <4>1. UNCHANGED <<NodesOf, GapsOf>>
        BY <2>0, <3>1, <3>2, <3>3, <3>4, SameChannels
      <4> QED BY <4>1, <3>2
    <3>5. CASE \E i \in 1 .. Len(NodesOf[s]) : c.nodes = RemoveAt(NodesOf[s], i)
      <4>1. PICK i \in 1 .. Len(NodesOf[s]) : c.nodes = RemoveAt(NodesOf[s], i)
        BY <3>5
      <4>2. /\ NodesOf' = [NodesOf EXCEPT ![s] = c.nodes]
            /\ CursorInRange(c) => GapsOf' = GapsOf \ {s}
            /\ ~CursorInRange(c) => GapsOf' = GapsOf \cup {s}
        BY <3>1, <3>2, OneChannel
      <4>3. GapsOf' \in {GapsOf, GapsOf \cup {s}}
        BY <3>3, <4>2
      <4>4. NodesOf' = [NodesOf EXCEPT ![s] = Directory!RemoveAt(@, i)]
        BY <4>1, <4>2 DEF Directory!RemoveAt, RemoveAt
      <4>5. s \in DOMAIN NodesOf
        BY <2>0, <3>1
      <4>6. Directory!Go(s)
        BY <3>2, <4>3, <4>4, <4>5 DEF Directory!Go
      <4> QED BY <3>1, <4>6 DEF Directory!Next
    <3> QED BY <3>3, <3>4, <3>5
  <2>4. ASSUME NEW t \in Threads, PickNode(t)
        PROVE  Directory!Next
    <3> DEFINE s == call[t].svc
               c == pool[s]
    <3>1. s \in cares /\ s \in Services
      BY <2>0, <2>4 DEF PickNode, Idle, Call, Lookups
    <3>2. PICK r \in Read(c) : Finish(t, r, Rotated(c))
      BY <2>4 DEF PickNode
    <3>3. /\ got' = [got EXCEPT ![t] = r]
          /\ pool' = [pool EXCEPT ![s] = Rotated(c)]
      BY <3>2 DEF Finish
    <3>4. c.nodes # <<>> /\ c \in Channel
      BY <2>0, <2>4, <3>1 DEF PickNode
    <3>5. Rotated(c).nodes = NodesOf[s] /\ CursorInRange(Rotated(c))
      BY <2>0, <3>1, <3>4, CursorRotated
    <3>6. Len(c.nodes) \in Nat /\ c.next \in Nat /\ Len(c.nodes) # 0
      BY <3>4, EmptySeq DEF Channel
    <3>7. /\ s \notin GapsOf => \E i \in 1 .. Len(NodesOf[s]) : r = NodesOf[s][i]
          /\ s \in GapsOf => r \in {None, Undefined}
      <4>1. CASE s \notin GapsOf
        <5>1. c.next < Len(c.nodes)
          BY <2>0, <3>1, <3>6, <4>1 DEF CursorInRange
        <5>2. r = NodesOf[s][c.next + 1] /\ c.next + 1 \in 1 .. Len(NodesOf[s])
          BY <2>0, <3>1, <3>2, <3>6, <5>1 DEF Read
        <5> QED BY <4>1, <5>2
      <4>2. CASE s \in GapsOf
        <5>1. ~(c.next < Len(c.nodes))
          BY <2>0, <3>1, <4>2 DEF CursorInRange
        <5> QED BY <3>2, <4>2, <5>1 DEF Read
      <4> QED BY <4>1, <4>2
    <3> HIDE DEF c, s
    <3>8. GapsOf' = GapsOf \ {s} /\ NodesOf' = [NodesOf EXCEPT ![s] = NodesOf[s]]
      BY <3>1, <3>3, <3>5, OneChannel
    <3>9. NodesOf' = NodesOf
      BY <2>0, <3>1, <3>8 DEF NodesOf
    <3>10. CASE s \notin GapsOf
      <4>1. GapsOf' = GapsOf
        BY <3>8, <3>10
      <4>2. Directory!Answer(t, s)
        BY <2>0, <3>1, <3>3, <3>7, <3>9, <3>10, <4>1
        DEF Directory!Answer
      <4> QED BY <3>1, <4>2 DEF Directory!Next
    <3>11. CASE s \in GapsOf
      <4>1. NodesOf[s] # <<>>
        BY <2>0, <3>1, <3>4 DEF c
      <4>2. Directory!Miss(t, s)
        BY <3>3, <3>7, <3>8, <3>9, <3>11, <4>1
        DEF Directory!Miss
      <4> QED BY <3>1, <4>2 DEF Directory!Next
    <3> QED BY <3>10, <3>11
  <2>5. ASSUME NEW t \in Threads, PickNothing(t)
        PROVE  Directory!Next
    <3> DEFINE s == call[t].svc
    <3>1. s \in cares /\ s \in Services
      BY <2>0, <2>5 DEF PickNothing, Idle, Call, Lookups
    <3>2. /\ got' = [got EXCEPT ![t] = None]
          /\ pool' = [pool EXCEPT ![s] = pool[s]]
          /\ NodesOf[s] = <<>>
      BY <2>0, <2>5, <3>1 DEF PickNothing, Finish
    <3>3. UNCHANGED <<NodesOf, GapsOf>>
      BY <2>0, <3>1, <3>2, SameChannels
    <3>4. Directory!NoneThere(t, s)
      BY <3>2, <3>3 DEF Directory!NoneThere
    <3> QED BY <3>1, <3>4 DEF Directory!Next
  <2>6. ASSUME NEW t \in Threads, NEW s \in Services, LookupUnknown(t, s)
        PROVE  Directory!Next
    <3>1. UNCHANGED <<NodesOf, GapsOf>> /\ s \notin DOMAIN NodesOf
      BY <2>0, <2>6 DEF LookupUnknown, NodesOf, GapsOf
    <3>2. Directory!NoneThere(t, s)
      BY <2>6, <3>1 DEF LookupUnknown, Directory!NoneThere
    <3> QED BY <3>2 DEF Directory!Next
  <2>7. ASSUME NEW t \in Threads,
               \/ AppendFails(t)
               \/ \E s \in Services :
                    \/ Ignored(t, s)
                    \/ \E op \in Lookups : Lookup(t, op, s)
                    \/ \E h \in Hosts, op \in Reports : Report(t, op, s, h)
        PROVE  UNCHANGED <<NodesOf, GapsOf, got>>
    BY <2>7 DEF AppendFails, Ignored, Lookup, Report, vars, NodesOf, GapsOf
  <2>8. CASE UNCHANGED vars
    BY <2>8 DEF vars, NodesOf, GapsOf
  <2> QED
    BY <2>1, <2>2, <2>3, <2>4, <2>5, <2>6, <2>7, <2>8
    DEF Next, Other, OnServiceOnline, OnServiceOffline, Reports
<1> QED BY <1>1, <1>2, TypeCorrect, PTL
        DEF Spec, ImplementsDirectory, Directory!Spec

=============================================================================
