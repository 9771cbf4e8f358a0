----------------------- MODULE ServiceRotation_proofs -----------------------
(***************************************************************************)
(* The rotation of ServiceChannel is a round robin, for every number of    *)
(* services, nodes and threads.  RoundRobin is not inductive: that the     *)
(* position under the cursor is unread only follows from the order in      *)
(* which the others were read, which is what RoundIsArc says.              *)
(***************************************************************************)
EXTENDS ServiceRotation, ServiceManager_proofs

ROK == /\ served \in [Services -> SUBSET Nat]
       /\ RoundIsArc

\* What RoundIsArc says of one service.
IsRound(c, round) ==
    IF c.next \in Positions(c)
    THEN \E a \in Positions(c) : round = Arc(c, a)
    ELSE round = {}

\* A round that has just begun is an arc of length zero.
LEMMA NewRound ==
    ASSUME NEW c \in Channel
    PROVE  IsRound(c, {})
<1>1. c.next \in Nat /\ Len(c.nodes) \in Nat
  BY DEF Channel
<1>2. CASE c.next \in Positions(c)
  <2>1. Arc(c, c.next) = {}
    BY <1>1 DEF Arc
  <2> QED BY <1>2, <2>1 DEF IsRound
<1> QED BY <1>2 DEF IsRound

\* The cursor moves to the next position, and from the last one to the first.
LEMMA CursorMoves ==
    ASSUME NEW c \in Channel, c.nodes # <<>>
    PROVE  /\ Rotated(c) \in Channel
           /\ Rotated(c).nodes = c.nodes
           /\ Rotated(c).next \in Positions(c)
           /\ c.next \in Positions(c) =>
                Rotated(c).next = IF c.next + 1 = Len(c.nodes) THEN 0 ELSE c.next + 1
<1> DEFINE n == Len(c.nodes)
<1>1. n \in Nat /\ n > 0 /\ c.next \in Nat
  BY DEF Channel
<1>2. Rotated(c) = [nodes |-> c.nodes, next |-> (c.next + 1) % n]
  BY DEF Channel, Rotated
<1> HIDE DEF n
<1>3. (c.next + 1) % n \in 0 .. n - 1
  BY <1>1
<1>4. c.next + 1 < n => (c.next + 1) % n = c.next + 1
  BY <1>1
<1>5. n % n = 0
  BY <1>1
<1> QED BY <1>1, <1>2, <1>3, <1>4, <1>5 DEF Positions, Channel, n

\* A lookup extends the arc by the position under the cursor, or closes the
\* round, and leaves an arc in both cases.
LEMMA RoundStep ==
    ASSUME NEW c \in Channel, c.nodes # <<>>, NEW round, IsRound(c, round)
    PROVE  IsRound(Rotated(c), RoundAfter(c, round))
<1> DEFINE n == Len(c.nodes)
           d == Rotated(c)
<1>1. n \in Nat /\ n > 0 /\ c.next \in Nat
  BY DEF Channel
<1>2. /\ d \in Channel /\ Len(d.nodes) = n /\ d.next \in 0 .. n - 1
      /\ c.next \in 0 .. n - 1 =>
           d.next = IF c.next + 1 = n THEN 0 ELSE c.next + 1
  BY CursorMoves DEF Positions
<1>3. CASE RoundAfter(c, round) = {}
  BY <1>2, <1>3, NewRound
<1>4. CASE RoundAfter(c, round) # {}
  <2>1. /\ c.next \in 0 .. n - 1
        /\ RoundAfter(c, round) = round \cup {c.next}
        /\ round \cup {c.next} # 0 .. n - 1
    BY <1>4 DEF RoundAfter, Positions
  <2>2. PICK a \in 0 .. n - 1 : round = Arc(c, a)
    BY <2>1 DEF IsRound, Positions
  <2> HIDE DEF n, d
  <2>3. CASE a <= c.next
    <3>1. round \cup {c.next} = a .. c.next
      BY <1>1, <2>1, <2>2, <2>3 DEF Arc
    <3>2. c.next + 1 = n => a # 0
      BY <1>1, <2>1, <3>1
    <3>3. Arc(d, a) = a .. c.next
      <4>1. CASE c.next + 1 = n
        <5>1. d.next = 0 /\ ~(a <= d.next) /\ c.next = n - 1
          BY <1>1, <1>2, <2>1, <2>2, <3>2, <4>1
        <5>2. 0 .. d.next - 1 = {}
          BY <5>1
        <5> QED BY <1>2, <5>1, <5>2 DEF Arc
      <4>2. CASE c.next + 1 # n
        BY <1>1, <1>2, <2>1, <2>2, <2>3, <4>2 DEF Arc
      <4> QED BY <4>1, <4>2
    <3> QED BY <1>2, <2>1, <2>2, <3>1, <3>3 DEF IsRound, Positions, d
  <2>4. CASE a > c.next
    <3>1. round \cup {c.next} = (a .. n - 1) \cup (0 .. c.next)
      BY <1>1, <2>1, <2>2, <2>4 DEF Arc, n
    <3>2. a # c.next + 1
      <4>1. a = c.next + 1 => (a .. n - 1) \cup (0 .. c.next) = 0 .. n - 1
        BY <1>1, <2>1, <2>2
      <4> QED BY <2>1, <3>1, <4>1
    <3>3. d.next = c.next + 1
      BY <1>1, <1>2, <2>1, <2>2, <2>4
    <3>4. Arc(d, a) = (a .. n - 1) \cup (0 .. c.next)
      BY <1>1, <1>2, <2>1, <2>2, <2>4, <3>2, <3>3 DEF Arc
    <3> QED BY <1>2, <2>1, <2>2, <3>1, <3>4 DEF IsRound, Positions, d
  <2> QED BY <1>1, <2>1, <2>2, <2>3, <2>4
<1> QED BY <1>3, <1>4

\* On an arc the position under the cursor is the one that is not read yet.
LEMMA ArcIsUnread ==
    ASSUME NEW c \in Channel, NEW round, IsRound(c, round),
           c.next \in Positions(c)
    PROVE  c.next \notin round
<1>1. c.next \in Nat /\ Len(c.nodes) \in Nat
  BY DEF Channel
<1>2. PICK a \in Positions(c) : round = Arc(c, a)
  BY DEF IsRound
<1> QED BY <1>1, <1>2 DEF Arc, Positions

\* No operation but the pick of a node moves a cursor.
LEMMA OtherKeepsCursor ==
    ASSUME TypeOK, NEW t \in Threads, Other(t)
    PROVE  /\ cares \subseteq cares'
           /\ \A s \in cares : pool'[s].next = pool[s].next
<1>0. /\ DOMAIN pool = cares /\ \A s \in cares : pool[s] \in Channel
      /\ call \in [Threads -> CallType]
      /\ \A u \in Threads : call[u] # Idle => call[u].svc \in cares
  BY DEF TypeOK
<1>1. CASE UNCHANGED <<cares, pool>>
  BY <1>1
<1>2. ASSUME NEW s \in Services, Declared(t, s)
      PROVE  cares \subseteq cares' /\ \A x \in cares : pool'[x] = pool[x]
  BY <1>0, <1>2 DEF Declared
<1>3. CASE AppendNode(t)
  <2>1. call[t].host \in Hosts
    BY <1>0, <1>3 DEF AppendNode, CallType, Idle, Call, Lookups
  <2>2. \A s \in cares : pool'[s] = pool[s] \/ pool'[s] = Appended(pool[s], call[t].host)
    BY <1>0, <1>3 DEF AppendNode
  <2> QED BY <1>0, <1>3, <2>1, <2>2, CursorOps DEF AppendNode
<1>4. CASE RemoveNode(t)
  <2>1. call[t].host \in Hosts
    BY <1>0, <1>4 DEF RemoveNode, CallType, Idle, Call, Lookups
  <2>2. \A s \in cares : pool'[s] = pool[s] \/ pool'[s] = Removed(pool[s], call[t].host)
    BY <1>0, <1>4 DEF RemoveNode
  <2> QED BY <1>0, <1>4, <2>1, <2>2, CursorOps DEF RemoveNode
<1>5. CASE PickNothing(t)
  BY <1>0, <1>5 DEF PickNothing, Finish
<1>6. ASSUME \/ AppendFails(t)
             \/ \E s \in Services :
                  \/ Ignored(t, s) \/ LookupUnknown(t, s)
                  \/ \E op \in Lookups : Lookup(t, op, s)
                  \/ \E h \in Hosts, op \in Reports : Report(t, op, s, h)
      PROVE  UNCHANGED <<cares, pool>>
  BY <1>6 DEF AppendFails, Ignored, LookupUnknown, Lookup, Report, vars
<1> QED BY <1>1, <1>2, <1>3, <1>4, <1>5, <1>6
        DEF Other, OnServiceOnline, OnServiceOffline, Reports

-----------------------------------------------------------------------------
\* The history variable only watches: the rotation specification has the
\* behaviours, and so the types, of ServiceManager.
THEOREM RotationImplementsManager == RSpec => Spec
<1>1. RInit => Init
  BY DEF RInit
<1>2. [RNext]_rvars => [Next]_vars
  BY DEF RNext, RPick, ROther, Next, rvars, vars
<1> QED BY <1>1, <1>2, PTL DEF RSpec, Spec

\* The invariant of the rotation: the types of its history, and the reads of
\* a round are an arc of positions that ends before the cursor.
THEOREM RoundInvHolds == RSpec => []ROK
<1>1. RInit => ROK
  BY DEF RInit, Init, ROK, RoundIsArc
<1>2. TypeOK /\ TypeOK' /\ ROK /\ [RNext]_rvars => ROK'
  <2> SUFFICES ASSUME TypeOK, TypeOK', ROK, [RNext]_rvars
               PROVE  ROK'
    OBVIOUS
  <2>0. /\ served \in [Services -> SUBSET Nat]
        /\ cares \subseteq Services /\ cares' \subseteq Services
        /\ DOMAIN pool = cares
        /\ \A s \in cares : pool[s] \in Channel
        /\ \A s \in cares' : pool'[s] \in Channel
        /\ \A s \in cares : IsRound(pool[s], served[s])
        /\ \A s \in Services \ cares : served[s] = {}
    BY DEF TypeOK, ROK, RoundIsArc, IsRound
  <2> DEFINE Kept == /\ served' \in [Services -> SUBSET Nat]
                     /\ \A s \in cares' : IsRound(pool'[s], served'[s])
                     /\ \A s \in Services \ cares' : served'[s] = {}
  <2>1. Kept => ROK'
    BY DEF ROK, RoundIsArc, IsRound, Positions, Arc
  <2>2. ASSUME NEW t \in Threads, RPick(t) PROVE Kept
    <3> DEFINE x == call[t].svc
               c == pool[x]
    <3>1. x \in cares /\ c.nodes # <<>>
      BY <2>2 DEF RPick, PickNode, TypeOK, CallType, Idle, Call, Lookups
    <3>2. /\ cares' = cares
          /\ pool' = [pool EXCEPT ![x] = Rotated(c)]
          /\ served' = [served EXCEPT ![x] = RoundAfter(c, @)]
      BY <2>2 DEF RPick, PickNode, Finish
    <3> HIDE DEF x
    <3>3. IsRound(Rotated(c), RoundAfter(c, served[x]))
      BY <2>0, <3>1, RoundStep
    <3>4. RoundAfter(c, served[x]) \in SUBSET Nat
      BY <2>0, <3>1 DEF RoundAfter, Channel
    <3> HIDE DEF c
    <3> QED BY <2>0, <3>1, <3>2, <3>3, <3>4
  <2>3. ASSUME NEW t \in Threads, ROther(t) PROVE Kept
    <3>1. /\ cares \subseteq cares'
          /\ \A s \in cares : pool'[s].next = pool[s].next
      BY <2>3, OtherKeepsCursor DEF ROther
    <3>2. served' = [s \in Services |->
                      IF s \in cares /\ pool'[s].nodes # pool[s].nodes
                      THEN {} ELSE served[s]]
      BY <2>3 DEF ROther
    <3>3. ASSUME NEW s \in cares' PROVE IsRound(pool'[s], served'[s])
      <4>1. CASE served'[s] = {}
        BY <2>0, <4>1, NewRound
      <4>2. CASE served'[s] # {}
        <5>1. /\ s \in cares /\ pool'[s].nodes = pool[s].nodes
              /\ served'[s] = served[s]
          BY <2>0, <3>2, <4>2
        <5>2. pool'[s] = pool[s]
          BY <2>0, <3>1, <5>1 DEF Channel
        <5> QED BY <2>0, <5>1, <5>2
      <4> QED BY <4>1, <4>2
    <3> QED BY <2>0, <3>1, <3>2, <3>3
  <2>4. CASE UNCHANGED rvars
    BY <2>4 DEF rvars, ROK, RoundIsArc, Positions, Arc
  <2> HIDE DEF Kept
  <2> QED BY <2>1, <2>2, <2>3, <2>4 DEF RNext
<1>3. RSpec => []TypeOK
  BY RotationImplementsManager, TypeCorrect, PTL
<1> QED BY <1>1, <1>2, <1>3, PTL DEF RSpec

\* The reads of a round are an arc of positions that ends before the cursor,
\* wherever the cursor stood when the nodes last changed.
THEOREM RoundIsArcHolds == RSpec => []RoundIsArc
<1>1. ROK => RoundIsArc
  BY DEF ROK
<1> QED BY <1>1, RoundInvHolds, PTL

\* No node of a service is given out twice before every other one was given
\* out, as long as its nodes stay the same.
THEOREM RoundRobinHolds == RSpec => []RoundRobin
<1>1. TypeOK /\ ROK => RoundRobin
  BY ArcIsUnread DEF TypeOK, ROK, RoundIsArc, RoundRobin, IsRound
<1>2. RSpec => []TypeOK
  BY RotationImplementsManager, TypeCorrect, PTL
<1> QED BY <1>1, <1>2, RoundInvHolds, PTL
=============================================================================
