----------------------- MODULE ServiceDiscovery_proofs -----------------------
(***************************************************************************)
(* Theorems about ServiceDiscovery for any finite number of instances and  *)
(* any number of services, hosts, lookups, faults and watches.             *)
(***************************************************************************)
EXTENDS ServiceDiscovery, FiniteSetTheorems, SequenceTheorems,
        WellFoundedInduction, TLAPS

-----------------------------------------------------------------------------
(* Greatest members.                                                       *)
LEMMA LeastMember ==
    ASSUME NEW T, T \subseteq Nat, T # {}
    PROVE  \E i \in T : \A j \in T : i <= j
<1> DEFINE R == OpToRel(<, Nat)
<1>1. \A x, y \in Nat : y < x => <<y, x>> \in R
  BY DEF OpToRel
<1>2. IsWellFoundedOn(R, Nat)
  BY NatLessThanWellFounded
<1> HIDE DEF R
<1>3. PICK i \in T : \A j \in T : <<j, i>> \notin R
  BY <1>2, WFMin
<1>4. \A j \in T : ~ (j < i)
  BY <1>1, <1>3
<1> QED BY <1>4

LEMMA MaxIsGreatest ==
    ASSUME NEW n \in Nat, NEW T, T \subseteq 1 .. n, T # {}
    PROVE  Max(T) \in T /\ \A j \in T : j <= Max(T)
<1> DEFINE U == {n - i : i \in T}
<1>1. U \subseteq Nat /\ U # {}
  <2>1. \A i \in T : i \in 1 .. n /\ n - i \in Nat
    OBVIOUS
  <2>2. PICK i \in T : TRUE
    OBVIOUS
  <2> QED BY <2>1, <2>2
<1>2. PICK u \in U : \A v \in U : u <= v
  <2> HIDE DEF U
  <2> QED BY <1>1, LeastMember
<1>3. PICK m \in T : u = n - m
  OBVIOUS
<1>4. \A j \in T : n - m <= n - j
  BY <1>2, <1>3
<1>5. \A j \in T : m >= j
  BY <1>4
<1> QED BY <1>3, <1>5 DEF Max

LEMMA MaxIs ==
    ASSUME NEW n \in Nat, NEW T, T \subseteq 1 .. n,
           NEW m \in T, \A j \in T : j <= m
    PROVE  Max(T) = m
<1>1. Max(T) \in T /\ m <= Max(T)
  BY MaxIsGreatest
<1>2. Max(T) <= m /\ Max(T) \in 1 .. n /\ m \in 1 .. n
  BY <1>1
<1> QED BY <1>1, <1>2

-----------------------------------------------------------------------------
(* What the revisions of a log say about the keys.                         *)
Revisions == [type : {"PUT", "DELETE"}, keys : SUBSET Keys]

About(l, n, k) == {i \in 1 .. n : k \in l[i].keys}

Known(l, n) == {k \in Keys : /\ About(l, n, k) # {}
                             /\ l[Max(About(l, n, k))].type = "PUT"}

LEMMA PresentIsKnown == \A n : /\ PresentAfter(n) = Known(log, n)
                               /\ PresentAfter(n)' = Known(log', n)
BY DEF PresentAfter, Known, About

LEMMA KnownFirst == \A l : Known(l, 0) = {}
BY DEF Known, About

\* A revision adds its keys or takes them away.
LEMMA KnownNext ==
    ASSUME NEW l, NEW n \in Nat, l[n + 1].type \in {"PUT", "DELETE"},
           l[n + 1].keys \subseteq Keys
    PROVE  Known(l, n + 1) = IF l[n + 1].type = "PUT"
                             THEN Known(l, n) \cup l[n + 1].keys
                             ELSE Known(l, n) \ l[n + 1].keys
<1>1. ASSUME NEW k \in Keys, k \in l[n + 1].keys
      PROVE  k \in Known(l, n + 1) <=> l[n + 1].type = "PUT"
  <2>1. n + 1 \in About(l, n + 1, k) /\ About(l, n + 1, k) \subseteq 1 .. n + 1
    BY <1>1 DEF About
  <2>2. \A j \in About(l, n + 1, k) : j <= n + 1
    BY <2>1
  <2>3. Max(About(l, n + 1, k)) = n + 1
    BY <2>1, <2>2, MaxIs
  <2> QED BY <2>1, <2>3 DEF Known
<1>2. ASSUME NEW k \in Keys, k \notin l[n + 1].keys
      PROVE  k \in Known(l, n + 1) <=> k \in Known(l, n)
  <2>1. About(l, n + 1, k) = About(l, n, k)
    BY <1>2 DEF About
  <2> QED BY <2>1 DEF Known
<1> QED BY <1>1, <1>2 DEF Known

\* What the log says of earlier revisions stays when it grows.
LEMMA KnownGrows ==
    ASSUME NEW l, NEW m, NEW n \in Nat, \A i \in 1 .. n : l[i] = m[i]
    PROVE  Known(l, n) = Known(m, n)
<1>1. ASSUME NEW k PROVE About(l, n, k) = About(m, n, k)
  BY DEF About
<1>2. ASSUME NEW k \in Keys, About(l, n, k) # {}
      PROVE  Max(About(l, n, k)) \in 1 .. n
  <2>1. About(l, n, k) \subseteq 1 .. n
    BY DEF About
  <2> QED BY <2>1, <1>2, MaxIsGreatest
<1> QED BY <1>1, <1>2 DEF Known

\* Revisions none of which is a PUT add no keys.
LEMMA KnownShrinks ==
    ASSUME NEW l, NEW a \in Nat, NEW b \in Nat, a <= b,
           \A i \in a + 1 .. b : l[i].type # "PUT"
    PROVE  Known(l, b) \subseteq Known(l, a)
<1> SUFFICES ASSUME NEW k \in Known(l, b) PROVE k \in Known(l, a)
  OBVIOUS
<1> DEFINE m == Max(About(l, b, k))
<1>1. /\ About(l, b, k) # {} /\ l[m].type = "PUT" /\ k \in Keys
      /\ About(l, b, k) \subseteq 1 .. b
  BY DEF Known, About
<1>2. m \in About(l, b, k) /\ \A j \in About(l, b, k) : j <= m
  BY <1>1, MaxIsGreatest
<1> HIDE DEF m
<1>3. m \in 1 .. a
  BY <1>1, <1>2
<1>4. m \in About(l, a, k) /\ About(l, a, k) \subseteq About(l, b, k)
  BY <1>2, <1>3 DEF About
<1>5. About(l, a, k) \subseteq 1 .. a /\ \A j \in About(l, a, k) : j <= m
  BY <1>2, <1>4 DEF About
<1>6. Max(About(l, a, k)) = m
  BY <1>4, <1>5, MaxIs
<1> QED BY <1>1, <1>4, <1>6 DEF Known

-----------------------------------------------------------------------------
(* How often an address occurs in a vector of nodes.                       *)
Places(q, h) == {i \in DOMAIN q : q[i] = h}
Count(q, h) == Cardinality(Places(q, h))

LEMMA PlacesFinite ==
    ASSUME NEW S, NEW q \in Seq(S), NEW h
    PROVE  /\ IsFiniteSet(Places(q, h)) /\ Count(q, h) \in Nat
           /\ Places(q, h) \subseteq 1 .. Len(q)
<1>1. Len(q) \in Nat /\ DOMAIN q = 1 .. Len(q)
  BY LenProperties
<1>2. IsFiniteSet(1 .. Len(q))
  BY <1>1, FS_Interval
<1>3. Places(q, h) \subseteq 1 .. Len(q)
  BY <1>1 DEF Places
<1>4. IsFiniteSet(Places(q, h))
  BY <1>2, <1>3, FS_Subset
<1> QED BY <1>3, <1>4, FS_CardinalityType DEF Count

LEMMA CountEmpty == \A h : Count(<<>>, h) = 0
BY FS_EmptySet DEF Count, Places

LEMMA CountAppend ==
    ASSUME NEW S, NEW q \in Seq(S), NEW x \in S, NEW h
    PROVE  Count(Append(q, x), h) = IF x = h THEN Count(q, h) + 1 ELSE Count(q, h)
<1> DEFINE n == Len(q)
<1>1. /\ n \in Nat /\ DOMAIN q = 1 .. n
      /\ DOMAIN Append(q, x) = 1 .. n + 1
      /\ \A i \in 1 .. n : Append(q, x)[i] = q[i]
      /\ Append(q, x)[n + 1] = x
  BY AppendProperties, LenProperties
<1> HIDE DEF n
<1>2. n + 1 \notin Places(q, h)
  BY <1>1 DEF Places
<1>3. CASE x = h
  <2>1. Places(Append(q, x), h) = Places(q, h) \cup {n + 1}
    BY <1>1, <1>3 DEF Places
  <2> QED BY <2>1, <1>2, <1>3, PlacesFinite, FS_AddElement DEF Count
<1>4. CASE x # h
  <2>1. Places(Append(q, x), h) = Places(q, h)
    BY <1>1, <1>4 DEF Places
  <2> QED BY <2>1, <1>4 DEF Count
<1> QED BY <1>3, <1>4

\* Erasing the first entry with an address takes one place from it and none
\* from another.
LEMMA RemoveFirstAt ==
    ASSUME NEW S, NEW q \in Seq(S), NEW e, Places(q, e) # {}
    PROVE  \E k \in Places(q, e) :
             /\ Pool!RemoveFirst(q, e) \in Seq(S)
             /\ Len(Pool!RemoveFirst(q, e)) = Len(q) - 1
             /\ \A i \in 1 .. Len(q) - 1 :
                  Pool!RemoveFirst(q, e)[i] = IF i < k THEN q[i] ELSE q[i + 1]
<1> DEFINE I == {i \in 1 .. Len(q) : q[i] = e}
           k == CHOOSE i \in I : \A j \in I : i <= j
<1>0. /\ Len(q) \in Nat /\ DOMAIN q = 1 .. Len(q)
      /\ \A i \in 1 .. Len(q) : q[i] \in S
  BY LenProperties, ElementOfSeq
<1>1. I = Places(q, e) /\ I # {} /\ I \subseteq Nat
  BY <1>0 DEF Places
<1>2. \E i \in I : \A j \in I : i <= j
  <2> HIDE DEF I
  <2> QED BY <1>1, LeastMember
<1>3. k \in I /\ k \in 1 .. Len(q)
  BY <1>2
<1>4. Pool!RemoveFirst(q, e) = SubSeq(q, 1, k - 1) \o SubSeq(q, k + 1, Len(q))
  BY <1>1 DEF Pool!RemoveFirst, Pool!RemoveAt, Pool!SelectInSeq, Pool!Min
<1> HIDE DEF k, I
<1> DEFINE a == SubSeq(q, 1, k - 1)
           b == SubSeq(q, k + 1, Len(q))
<1>5. /\ a \in Seq(S) /\ Len(a) = k - 1
      /\ \A i \in 1 .. k - 1 : a[i] = q[i]
  <2>1. /\ 1 \in Int /\ k - 1 \in Int
        /\ \A i \in 1 .. k - 1 : q[i] \in S
    BY <1>3, <1>0
  <2>2. /\ a \in Seq(S)
        /\ Len(a) = IF 1 <= k - 1 THEN (k - 1) - 1 + 1 ELSE 0
        /\ \A i \in 1 .. (k - 1) - 1 + 1 : a[i] = q[1 + i - 1]
    BY <2>1, SubSeqProperties, Z3
  <2> QED BY <2>2, <1>3, <1>0
<1>6. /\ b \in Seq(S) /\ Len(b) = Len(q) - k
      /\ \A i \in 1 .. Len(q) - k : b[i] = q[k + i]
  <2>1. /\ k + 1 \in Int /\ Len(q) \in Int
        /\ \A i \in k + 1 .. Len(q) : q[i] \in S
    BY <1>3, <1>0
  <2>2. /\ b \in Seq(S)
        /\ Len(b) = IF k + 1 <= Len(q) THEN Len(q) - (k + 1) + 1 ELSE 0
        /\ \A i \in 1 .. Len(q) - (k + 1) + 1 : b[i] = q[k + 1 + i - 1]
    BY <2>1, SubSeqProperties, Z3
  <2>3. /\ k \in Nat /\ Len(q) - (k + 1) + 1 = Len(q) - k
        /\ \A i \in 1 .. Len(q) - k : k + 1 + i - 1 = k + i
    BY <1>3, <1>0
  <2> HIDE DEF b
  <2>4. Len(q) \in Nat /\ k \in Nat /\ k <= Len(q)
    BY <1>3, <1>0
  <2>5. k + 1 <= Len(q) \/ Len(q) - k = 0
    BY <2>4
  <2>6. Len(b) = Len(q) - k
    BY <2>2, <2>3, <2>5
  <2> QED BY <2>2, <2>3, <2>6
<1> HIDE DEF a, b
<1>7. /\ a \o b \in Seq(S) /\ Len(a \o b) = Len(q) - 1
      /\ \A i \in 1 .. Len(q) - 1 :
           (a \o b)[i] = IF i <= k - 1 THEN a[i] ELSE b[i - (k - 1)]
  <2>1. /\ a \o b \in Seq(S) /\ Len(a \o b) = Len(a) + Len(b)
        /\ \A i \in 1 .. Len(a) + Len(b) :
             (a \o b)[i] = IF i <= Len(a) THEN a[i] ELSE b[i - Len(a)]
    BY <1>5, <1>6, ConcatProperties
  <2> QED BY <2>1, <1>5, <1>6, <1>3, <1>0
<1>8. ASSUME NEW i \in 1 .. Len(q) - 1
      PROVE  (a \o b)[i] = IF i < k THEN q[i] ELSE q[i + 1]
  <2>1. CASE i < k
    BY <2>1, <1>7, <1>5, <1>3, <1>0
  <2>2. CASE ~(i < k)
    <3>1. i - (k - 1) \in 1 .. Len(q) - k /\ k + (i - (k - 1)) = i + 1
      BY <2>2, <1>3, <1>0
    <3>2. b[i - (k - 1)] = q[i + 1]
      BY <3>1, <1>6
    <3> QED BY <2>2, <3>2, <1>7, <1>3, <1>0
  <2> QED BY <2>1, <2>2
<1> QED BY <1>1, <1>3, <1>4, <1>7, <1>8 DEF a, b

LEMMA CountRemoveFirst ==
    ASSUME NEW S, NEW q \in Seq(S), NEW e, NEW h
    PROVE  /\ Pool!RemoveFirst(q, e) \in Seq(S)
           /\ Count(Pool!RemoveFirst(q, e), h)
                = IF e = h /\ Count(q, h) > 0 THEN Count(q, h) - 1 ELSE Count(q, h)
<1>0. Len(q) \in Nat /\ DOMAIN q = 1 .. Len(q)
  BY LenProperties
<1>1. CASE Places(q, e) = {}
  <2>1. Pool!RemoveFirst(q, e) = q
    BY <1>0, <1>1 DEF Pool!RemoveFirst, Places
  <2>2. e = h => Count(q, h) = 0
    BY <1>1, FS_EmptySet DEF Count
  <2> QED BY <2>1, <2>2
<1>2. CASE Places(q, e) # {}
  <2> DEFINE r == Pool!RemoveFirst(q, e)
  <2>1. PICK k \in Places(q, e) :
          /\ r \in Seq(S) /\ Len(r) = Len(q) - 1
          /\ \A i \in 1 .. Len(q) - 1 : r[i] = IF i < k THEN q[i] ELSE q[i + 1]
    BY <1>2, RemoveFirstAt
  <2> HIDE DEF r
  <2>2. DOMAIN r = 1 .. Len(q) - 1 /\ k \in 1 .. Len(q) /\ q[k] = e
    BY <2>1, <1>0, LenProperties DEF Places
  <2> DEFINE f == [i \in Places(r, h) |-> IF i < k THEN i ELSE i + 1]
             g == Places(q, h) \ {k}
  <2>3. ASSUME NEW i \in Places(r, h)
        PROVE  (IF i < k THEN i ELSE i + 1) \in g
    BY <2>1, <2>2, <1>0 DEF Places
  <2>4. ASSUME NEW j \in g
        PROVE  \E i \in Places(r, h) : j = IF i < k THEN i ELSE i + 1
    <3>1. CASE j < k
      <4>1. j \in Places(r, h)
        BY <3>1, <2>1, <2>2, <1>0 DEF Places
      <4> QED BY <3>1, <4>1
    <3>2. CASE ~(j < k)
      <4>1. j - 1 \in 1 .. Len(q) - 1 /\ ~(j - 1 < k) /\ (j - 1) + 1 = j
        BY <3>2, <2>2, <1>0 DEF Places
      <4>2. r[j - 1] = q[j]
        BY <4>1, <2>1
      <4>3. j - 1 \in Places(r, h)
        BY <4>1, <4>2, <2>2 DEF Places
      <4> QED BY <4>1, <4>3
    <3> QED BY <3>1, <3>2
  <2>5. ASSUME NEW i \in Places(r, h), NEW j \in Places(r, h),
               (IF i < k THEN i ELSE i + 1) = (IF j < k THEN j ELSE j + 1)
        PROVE  i = j
    <3>1. i \in Int /\ j \in Int /\ k \in Int
      BY <2>2, <1>0 DEF Places
    <3> QED BY <2>5, <3>1
  <2>6. f \in Bijection(Places(r, h), g)
    <3> HIDE DEF g
    <3>1. f \in [Places(r, h) -> g]
      BY <2>3
    <3>2. f \in Injection(Places(r, h), g)
      BY <3>1, <2>5 DEF Injection, IsInjective
    <3>3. f \in Surjection(Places(r, h), g)
      BY <3>1, <2>4 DEF Surjection
    <3> QED BY <3>2, <3>3 DEF Bijection
  <2>7. IsFiniteSet(Places(r, h)) /\ IsFiniteSet(Places(q, h)) /\ Count(q, h) \in Nat
    BY <2>1, PlacesFinite
  <2>8. Cardinality(g) = Count(r, h)
    <3> HIDE DEF f, g
    <3> QED BY <2>6, <2>7, FS_Bijection DEF Count, ExistsBijection
  <2>9. Cardinality(g) = IF k \in Places(q, h) THEN Count(q, h) - 1 ELSE Count(q, h)
    BY <2>7, FS_RemoveElement DEF Count
  <2>10. k \in Places(q, h) <=> e = h
    BY <2>2, <1>0 DEF Places
  <2>11. k \in Places(q, h) => Count(q, h) > 0
    BY <2>7, FS_EmptySet DEF Count
  <2> QED BY <2>1, <2>7, <2>8, <2>9, <2>10, <2>11 DEF r
<1> QED BY <1>1, <1>2

-----------------------------------------------------------------------------
(* Types.  Those of Registry and of ServiceManager are kept by the steps   *)
(* of these modules.                                                       *)
\* Steps of etcd keep the types of the Reg!store.
LEMMA ExpireTypes ==
    ASSUME Reg!TypeOK, NEW l, Reg!Expire(l), granted' = granted,
           faults' \in 0 .. MaxFaults
    PROVE  Reg!StoreTypeOK'
<1> DEFINE gone == {k \in Keys : kv[k] = l}
<1>1. Append(log, Reg!Revision("DELETE", gone)) \in
        Seq([type : {"PUT", "DELETE"}, keys : SUBSET Keys])
  BY AppendProperties DEF Reg!TypeOK, Reg!StoreTypeOK, Reg!Revision
<1> QED BY <1>1 DEF Reg!TypeOK, Reg!StoreTypeOK, Reg!Expire

LEMMA PutTypes ==
    ASSUME Reg!TypeOK, NEW k \in Keys, NEW l \in 0 .. granted, Reg!Put(k, l),
           granted' = granted, live' = live, faults' \in 0 .. MaxFaults
    PROVE  Reg!StoreTypeOK'
<1>1. Append(log, Reg!Revision("PUT", {k})) \in
        Seq([type : {"PUT", "DELETE"}, keys : SUBSET Keys])
  BY AppendProperties DEF Reg!TypeOK, Reg!StoreTypeOK, Reg!Revision
<1> QED BY <1>1 DEF Reg!TypeOK, Reg!StoreTypeOK, Reg!Put, Reg!NoLease

LEMMA FaultTypes ==
    ASSUME Reg!TypeOK, Reg!Fault
    PROVE  faults' \in 0 .. MaxFaults
BY StoreAssumption DEF Reg!TypeOK, Reg!StoreTypeOK, Reg!Fault

LEMMA RegistryTypes ==
    ASSUME Reg!TypeOK, Reg!Next
    PROVE  Reg!TypeOK'
<1>0. /\ Reg!StoreTypeOK
      /\ pc \in [Keys -> Reg!Stages]
      /\ lease \in [Keys -> 0 .. granted]
  BY DEF Reg!TypeOK
<1> USE DEF Reg!Goto, Reg!Stages
<1>1. ASSUME NEW p \in Keys, Reg!Start(p) PROVE Reg!TypeOK'
  BY <1>0, <1>1 DEF Reg!Start, Reg!TypeOK, Reg!StoreTypeOK, Reg!store
<1>2. ASSUME NEW p \in Keys, Reg!LeaseGranted(p) PROVE Reg!TypeOK'
  BY <1>0, <1>2 DEF Reg!LeaseGranted, Reg!Grant, Reg!TypeOK, Reg!StoreTypeOK
<1>3. ASSUME NEW p \in Keys, Reg!LeaseRefused(p) PROVE Reg!TypeOK'
  BY <1>0, <1>3, FaultTypes DEF Reg!LeaseRefused, Reg!TypeOK, Reg!StoreTypeOK
<1>4. ASSUME NEW p \in Keys, Reg!KeyPut(p) PROVE Reg!TypeOK'
  <2>1. Reg!StoreTypeOK'
    BY <1>0, <1>4, PutTypes DEF Reg!KeyPut, Reg!StoreTypeOK
  <2> QED BY <1>0, <1>4, <2>1 DEF Reg!KeyPut, Reg!TypeOK
<1>5. ASSUME NEW p \in Keys, Reg!PutRefused(p) PROVE Reg!TypeOK'
  <2>1. Reg!StoreTypeOK'
    <3>1. CASE UNCHANGED <<kv, log>> /\ faults' \in 0 .. MaxFaults
      BY <1>0, <1>5, <3>1 DEF Reg!PutRefused, Reg!StoreTypeOK
    <3>2. CASE Reg!Put(p, lease[p]) /\ faults' \in 0 .. MaxFaults
      BY <1>0, <1>5, <3>2, PutTypes DEF Reg!PutRefused
    <3> QED BY <1>0, <1>5, <3>1, <3>2, FaultTypes DEF Reg!PutRefused, Reg!StoreTypeOK
  <2> QED BY <1>0, <1>5, <2>1 DEF Reg!PutRefused, Reg!TypeOK
<1>6. ASSUME NEW p \in Keys, Reg!HeartbeatStarts(p) PROVE Reg!TypeOK'
  BY <1>0, <1>6 DEF Reg!HeartbeatStarts, Reg!TypeOK, Reg!StoreTypeOK, Reg!store
<1>7. ASSUME NEW p \in Keys, Reg!HeartbeatFails(p) PROVE Reg!TypeOK'
  BY <1>0, <1>7, FaultTypes DEF Reg!HeartbeatFails, Reg!TypeOK, Reg!StoreTypeOK
<1>8. ASSUME NEW p \in Keys, Reg!Leave(p) PROVE Reg!TypeOK'
  BY <1>0, <1>8 DEF Reg!Leave, Reg!TypeOK, Reg!StoreTypeOK, Reg!store
<1>9. ASSUME NEW l \in live, Reg!LeaseExpires(l) PROVE Reg!TypeOK'
  <2>1. Reg!StoreTypeOK'
    BY <1>0, <1>9, ExpireTypes DEF Reg!LeaseExpires, Reg!StoreTypeOK
  <2> QED BY <1>0, <1>9, <2>1 DEF Reg!LeaseExpires, Reg!TypeOK
<1>10. ASSUME NEW l \in live, Reg!LeaseLost(l) PROVE Reg!TypeOK'
  <2>1. Reg!StoreTypeOK'
    BY <1>0, <1>10, ExpireTypes, FaultTypes DEF Reg!LeaseLost, Reg!StoreTypeOK
  <2> QED BY <1>0, <1>10, <2>1 DEF Reg!LeaseLost, Reg!TypeOK
<1> QED BY <1>1, <1>2, <1>3, <1>4, <1>5, <1>6, <1>7, <1>8, <1>9, <1>10 DEF Reg!Next

\* Each of them gives a channel again, and the read of a node that lies
\* within the vector gives a host.
LEMMA ChannelOps ==
    ASSUME NEW c \in Pool!Channel
    PROVE  /\ \A h \in Hosts : /\ Pool!Appended(c, h) \in Pool!Channel
                              /\ Pool!Removed(c, h) \in Pool!Channel
           /\ c.nodes # <<>> => Pool!Rotated(c) \in Pool!Channel
           /\ Pool!Read(c) \subseteq Hosts \cup {None, Undefined}
<1>1. \A h \in Hosts : Pool!Removed(c, h) \in Pool!Channel
  BY CountRemoveFirst DEF Pool!Channel, Pool!Removed
<1>5. \A h \in Hosts : Pool!Appended(c, h) \in Pool!Channel
  <2> TAKE h \in Hosts
  <2>1. Append(c.nodes, h) \in Seq(Hosts)
    BY AppendProperties DEF Pool!Channel
  <2> QED BY <2>1 DEF Pool!Channel, Pool!Appended
<1>2. Len(c.nodes) \in Nat /\ (c.nodes # <<>> => Len(c.nodes) > 0)
  BY DEF Pool!Channel
<1>3. ASSUME c.nodes # <<>> PROVE Pool!Rotated(c) \in Pool!Channel
  BY <1>2, <1>3 DEF Pool!Channel, Pool!Rotated
<1>4. Pool!Read(c) \subseteq Hosts \cup {None, Undefined}
  BY DEF Pool!Channel, Pool!Read
<1> QED BY <1>1, <1>3, <1>4, <1>5

LEMMA ManagerTypes ==
    ASSUME Pool!TypeOK, [Pool!Next]_(Pool!vars)
    PROVE  Pool!TypeOK'
<1> USE DEF Pool!TypeOK
<1>1. ASSUME NEW t \in Threads, NEW s \in Services, Pool!Declared(t, s)
      PROVE  Pool!TypeOK'
  BY <1>1 DEF Pool!Declared, Pool!NewChannel, Pool!Channel
<1>2. ASSUME NEW t \in Threads, NEW s \in Services, Pool!Ignored(t, s)
      PROVE  Pool!TypeOK'
  BY <1>2 DEF Pool!Ignored, Pool!vars
<1>3. ASSUME NEW t \in Threads, NEW s \in Services, Pool!LookupUnknown(t, s)
      PROVE  Pool!TypeOK'
  BY <1>3 DEF Pool!LookupUnknown
<1>4. ASSUME NEW t \in Threads, NEW s \in Services, NEW op \in Pool!Lookups,
             Pool!Lookup(t, op, s)
      PROVE  Pool!TypeOK'
  <2>1. Pool!Call(op, s, None) \in Pool!CallType
    BY DEF Pool!Call, Pool!CallType
  <2> QED BY <1>4, <2>1 DEF Pool!Lookup, Pool!Call
<1>5. ASSUME NEW t \in Threads, NEW s \in Services, NEW h \in Hosts,
             NEW op \in Pool!Reports, Pool!Report(t, op, s, h)
      PROVE  Pool!TypeOK'
  <2>1. Pool!Call(op, s, h) \in Pool!CallType
    BY DEF Pool!Call, Pool!CallType
  <2> QED BY <1>5, <2>1 DEF Pool!Report, Pool!Call
<1>6. ASSUME NEW t \in Threads, Pool!AppendNode(t) PROVE Pool!TypeOK'
  <2>1. call[t].svc \in cares /\ call[t].host \in Hosts
    BY <1>6 DEF Pool!AppendNode, Pool!CallType, Pool!Idle, Pool!Call, Pool!Lookups
  <2> QED BY <1>6, <2>1, ChannelOps DEF Pool!AppendNode, Pool!CallType
<1>7. ASSUME NEW t \in Threads, Pool!AppendFails(t) PROVE Pool!TypeOK'
  BY <1>7 DEF Pool!AppendFails, Pool!CallType
<1>8. ASSUME NEW t \in Threads, Pool!RemoveNode(t) PROVE Pool!TypeOK'
  <2>1. call[t].svc \in cares /\ call[t].host \in Hosts
    BY <1>8 DEF Pool!RemoveNode, Pool!CallType, Pool!Idle, Pool!Call, Pool!Lookups
  <2> QED BY <1>8, <2>1, ChannelOps DEF Pool!RemoveNode, Pool!CallType
<1>9. ASSUME NEW t \in Threads, Pool!PickNothing(t) PROVE Pool!TypeOK'
  <2>1. call[t].svc \in cares
    BY <1>9 DEF Pool!PickNothing, Pool!Idle, Pool!Call, Pool!Lookups
  <2> QED BY <1>9, <2>1 DEF Pool!PickNothing, Pool!Finish, Pool!CallType
<1>10. ASSUME NEW t \in Threads, Pool!PickNode(t) PROVE Pool!TypeOK'
  <2>1. call[t].svc \in cares
    BY <1>10 DEF Pool!PickNode, Pool!Idle, Pool!Call, Pool!Lookups
  <2> DEFINE c == pool[call[t].svc]
  <2>2. Pool!Rotated(c) \in Pool!Channel /\ Pool!Read(c) \subseteq Hosts \cup {None, Undefined}
    BY <1>10, <2>1, ChannelOps DEF Pool!PickNode
  <2>3. PICK r \in Pool!Read(c) : Pool!Finish(t, r, Pool!Rotated(c))
    BY <1>10 DEF Pool!PickNode
  <2> QED BY <2>1, <2>2, <2>3 DEF Pool!Finish, Pool!CallType
<1>11. CASE UNCHANGED Pool!vars
  BY <1>11 DEF Pool!vars
<1> QED
  BY <1>1, <1>2, <1>3, <1>4, <1>5, <1>6, <1>7, <1>8, <1>9, <1>10, <1>11
  DEF Pool!Next, Pool!Other, Pool!OnServiceOnline, Pool!OnServiceOffline, Pool!Reports

\* The composition uses the manager by its operations only: every step of it
\* is a step of ServiceManager or leaves the manager alone.
LEMMA UsesManager == Next => [Pool!Next]_(Pool!vars)
<1> SUFFICES ASSUME Next PROVE [Pool!Next]_(Pool!vars)
  OBVIOUS
<1>0. /\ Watcher \in Threads /\ Wanted \subseteq Services
      /\ \A k \in Keys : SvcOf[k] \in Services /\ AddrOf[k] \in Hosts
  BY DiscoverySetting
<1> USE DEF Pool!Next, Pool!Other
<1>1. CASE UNCHANGED manager
  BY <1>1 DEF manager, Pool!vars
<1>2. ASSUME NEW s \in Wanted, Declares(s) PROVE Pool!Next
  BY <1>0, <1>2 DEF Declares
<1>3. ASSUME NEW k \in Keys, Callback(k) PROVE Pool!Next
  BY <1>0, <1>3 DEF Callback
<1>4. CASE CallbackReturns
  BY <1>0, <1>4 DEF CallbackReturns
<1>5. ASSUME NEW t \in Threads, Caller(t) PROVE Pool!Next
  BY <1>5 DEF Caller
<1> QED
  BY <1>1, <1>2, <1>3, <1>4, <1>5 DEF Next, Provider, Consumes, Watches, Breaks

\* The composition is a use of ServiceManager, so that what ServiceManager
\* promises under any use holds here.
THEOREM ImplementsManager == Spec => Pool!Spec
<1>1. Init => Pool!Init
  BY DEF Init
<1>2. [Next]_vars => [Pool!Next]_(Pool!vars)
  <2>1. CASE Next
    BY <2>1, UsesManager
  <2>2. CASE UNCHANGED vars
    BY <2>2 DEF vars, manager, Pool!vars
  <2> QED BY <2>1, <2>2
<1> QED BY <1>1, <1>2, PTL DEF Spec, Pool!Spec

\* How a step changes etcd: not at all, or by one revision.
PutRevision(k) == [type |-> "PUT", keys |-> {k}]
DeleteRevision(g) == [type |-> "DELETE", keys |-> g]
Grows ==
    \/ log' = log /\ Present' = Present
    \/ \E k \in Keys : log' = Append(log, PutRevision(k)) /\ Present' = Present \cup {k}
    \/ \E g \in SUBSET Present :
         log' = Append(log, DeleteRevision(g)) /\ Present' = Present \ g

LEMMA ProviderGrows ==
    ASSUME Reg!TypeOK, Reg!Next
    PROVE  Grows /\ faults' \in {faults, faults + 1}
<1>0. /\ kv \in [Keys -> {Absent, NoLease} \cup 1 .. granted]
      /\ live \subseteq 1 .. granted /\ granted \in Nat
  BY DEF Reg!TypeOK, Reg!StoreTypeOK, Reg!Absent, Reg!NoLease, Absent, NoLease
<1> USE DEF Reg!Fault, Reg!Goto
<1>1. ASSUME UNCHANGED <<kv, log>> PROVE Grows
  BY <1>1 DEF Grows, Present
<1>2. ASSUME NEW k \in Keys, NEW l, Reg!Put(k, l) PROVE Grows
  <2>1. l # Absent
    BY <1>0, <1>2 DEF Reg!Put, Reg!NoLease, Absent
  <2>2. Present' = Present \cup {k}
    BY <1>0, <1>2, <2>1 DEF Reg!Put, Present
  <2> QED BY <1>2, <2>2 DEF Grows, Reg!Put, Reg!Revision, PutRevision
<1>3. ASSUME NEW l \in live, Reg!Expire(l) PROVE Grows
  <2> DEFINE gone == {k \in Keys : kv[k] = l}
  <2>1. gone \in SUBSET Present
    BY <1>0, <1>3 DEF Present, Absent
  <2>2. Present' = Present \ gone
    BY <1>0, <1>3 DEF Reg!Expire, Reg!Absent, Present, Absent
  <2>3. CASE gone = {}
    BY <2>2, <2>3, <1>3 DEF Reg!Expire, Grows
  <2>4. CASE gone # {}
    <3>1. log' = Append(log, DeleteRevision(gone))
      BY <2>4, <1>3 DEF Reg!Expire, Reg!Revision, DeleteRevision
    <3> QED BY <2>1, <2>2, <3>1 DEF Grows
  <2> QED BY <2>3, <2>4
<1> USE DEF Reg!store
<1>4. ASSUME NEW p \in Keys, Reg!KeyPut(p) PROVE Grows /\ faults' = faults
  BY <1>2, <1>4 DEF Reg!KeyPut
<1>5. ASSUME NEW p \in Keys, Reg!PutRefused(p)
      PROVE  Grows /\ faults' \in {faults, faults + 1}
  BY <1>1, <1>2, <1>5 DEF Reg!PutRefused
<1>6. ASSUME NEW l \in live, Reg!LeaseExpires(l) \/ Reg!LeaseLost(l)
      PROVE  Grows /\ faults' \in {faults, faults + 1}
  BY <1>3, <1>6 DEF Reg!LeaseExpires, Reg!LeaseLost
<1>7. ASSUME NEW p \in Keys,
             \/ Reg!Start(p) \/ Reg!LeaseGranted(p) \/ Reg!LeaseRefused(p)
             \/ Reg!HeartbeatStarts(p) \/ Reg!HeartbeatFails(p) \/ Reg!Leave(p)
      PROVE  Grows /\ faults' \in {faults, faults + 1}
  BY <1>1, <1>7 DEF Reg!Start, Reg!LeaseGranted, Reg!LeaseRefused, Reg!HeartbeatStarts,
                    Reg!HeartbeatFails, Reg!Leave
<1> QED BY <1>4, <1>5, <1>6, <1>7 DEF Reg!Next

\* The steps of the client leave etcd alone, up to a fault.
LEMMA ClientLeavesStore ==
    ASSUME Next, ~Provider
    PROVE  /\ UNCHANGED <<kv, live, granted, log, pc, lease>>
           /\ faults' = faults \/ (faults < MaxFaults /\ faults' = faults + 1)
<1> USE DEF store, provider, Disc!store, Disc!Fault
<1>1. ASSUME NEW s \in Wanted, Declares(s) PROVE UNCHANGED <<store, provider>>
  BY <1>1 DEF Declares
<1>2. CASE Watches
  BY <1>2 DEF Watches, Disc!Start, Disc!Lists, Disc!OpensWatcher, Disc!Receives
<1>3. CASE Breaks
  BY <1>3 DEF Breaks, Disc!ListFails, Disc!WatchEnds, Disc!Closes
<1>4. ASSUME NEW k \in Keys, Callback(k) PROVE UNCHANGED <<store, provider>>
  BY <1>4 DEF Callback, Disc!Reports
<1>5. CASE CallbackReturns
  BY <1>5 DEF CallbackReturns
<1>6. ASSUME NEW t, Caller(t) PROVE UNCHANGED <<store, provider>>
  BY <1>6 DEF Caller
<1> QED BY <1>1, <1>2, <1>3, <1>4, <1>5, <1>6 DEF Next, Consumes

LEMMA EveryStepGrows ==
    ASSUME Reg!TypeOK, [Next]_vars
    PROVE  Grows /\ faults' \in {faults, faults + 1}
<1>1. CASE Provider
  BY <1>1, ProviderGrows DEF Provider
<1>2. CASE Next /\ ~Provider
  BY <1>2, ClientLeavesStore DEF Grows, Present
<1>3. CASE UNCHANGED vars
  BY <1>3 DEF vars, store, Grows, Present
<1> QED BY <1>1, <1>2, <1>3

LEMMA GrownLog ==
    ASSUME Grows, log \in Seq(Revisions)
    PROVE  /\ log' \in Seq(Revisions) /\ Len(log) \in Nat /\ Len(log') \in Nat
           /\ Len(log) <= Len(log')
           /\ \A i \in 1 .. Len(log) : log'[i] = log[i]
           /\ \A n \in 0 .. Len(log) : Known(log', n) = Known(log, n)
<1> DEFINE Longer == /\ log' \in Seq(Revisions) /\ Len(log) <= Len(log')
                     /\ \A i \in 1 .. Len(log) : log'[i] = log[i]
<1>1. Longer
  <2>1. CASE log' = log
    BY <2>1, LenProperties
  <2>2. ASSUME NEW r \in Revisions, log' = Append(log, r) PROVE Longer
    BY <2>2, AppendProperties, LenProperties
  <2>3. /\ \A k \in Keys : PutRevision(k) \in Revisions
        /\ \A g \in SUBSET Present : DeleteRevision(g) \in Revisions
    BY DEF PutRevision, DeleteRevision, Revisions, Present
  <2> QED BY <2>1, <2>2, <2>3 DEF Grows
<1>2. Len(log) \in Nat /\ Len(log') \in Nat
  BY <1>1, LenProperties
<1>3. \A n \in 0 .. Len(log) : Known(log', n) = Known(log, n)
  <2> TAKE n \in 0 .. Len(log)
  <2>1. n \in Nat /\ \A i \in 1 .. n : log'[i] = log[i]
    BY <1>1, <1>2
  <2> QED BY <2>1, KnownGrows
<1> QED BY <1>1, <1>2, <1>3

\* That the client calls watch() once more only after a fault needs to know
\* that nobody has called it at first.
Typed == TypeOK /\ (stage = "new" => watches = 0)

LEMMA TypedHolds == Spec => []Typed
<1>1. Init => Typed
  <2>1. Init => Reg!TypeOK
    BY StoreAssumption, EmptySeq
    DEF Init, Reg!Init, Reg!StoreInit, Reg!TypeOK, Reg!StoreTypeOK, Reg!Stages,
        Reg!NoLease, Reg!Absent
  <2>2. Init => Disc!TypeOK /\ watches = 0
    BY StoreAssumption, EmptySeq
    DEF Init, Reg!Init, Reg!StoreInit, Disc!Init, Disc!TypeOK, Disc!Stages
  <2>3. Init => Pool!TypeOK
    BY DEF Init, Pool!Init, Pool!TypeOK, Pool!CallType
  <2> QED BY <2>1, <2>2, <2>3 DEF Typed, TypeOK
<1>2. Typed /\ [Next]_vars => Typed'
  <2> SUFFICES ASSUME Typed, [Next]_vars PROVE Typed'
    OBVIOUS
  <2>0. Reg!TypeOK /\ Disc!TypeOK /\ Pool!TypeOK
    BY DEF Typed, TypeOK
  <2>1. Reg!TypeOK'
    <3>1. CASE Provider
      BY <3>1, <2>0, RegistryTypes DEF Provider
    <3>2. CASE Next /\ ~Provider
      <4>1. faults' \in 0 .. MaxFaults
        BY <3>2, <2>0, ClientLeavesStore, StoreAssumption DEF Reg!TypeOK, Reg!StoreTypeOK
      <4> QED BY <3>2, <2>0, <4>1, ClientLeavesStore DEF Reg!TypeOK, Reg!StoreTypeOK
    <3>3. CASE UNCHANGED vars
      BY <3>3, <2>0 DEF vars, store, provider, Reg!TypeOK, Reg!StoreTypeOK
    <3> QED BY <3>1, <3>2, <3>3
  <2>2. Pool!TypeOK'
    <3>1. [Pool!Next]_(Pool!vars)
      BY UsesManager DEF vars, manager, Pool!vars
    <3> QED BY <3>1, <2>0, ManagerTypes
  <2>3. Disc!TypeOK' /\ (stage = "new" => watches = 0)'
    <3>0. /\ log \in Seq(Revisions) /\ Present \subseteq Keys
          /\ faults \in 0 .. MaxFaults /\ MaxFaults \in Nat
      BY <2>0, StoreAssumption DEF Reg!TypeOK, Reg!StoreTypeOK, Revisions, Present
    <3>1. Grows /\ faults' \in {faults, faults + 1}
      BY <2>0, EveryStepGrows
    <3>2. /\ Len(log) \in Nat /\ Len(log') \in Nat /\ Len(log) <= Len(log')
      BY <3>0, <3>1, GrownLog
    <3>3. /\ stage \in Disc!Stages /\ kind \in {"PUT", "DELETE"} /\ todo \subseteq Keys
          /\ listed \in 0 .. Len(log) /\ from \in 0 .. Len(log)
          /\ pos \in from .. Len(log) /\ watches \in 0 .. faults + 1
          /\ (stage = "new" => watches = 0)
      BY <2>0 DEF Disc!TypeOK, Typed
    <3>a. /\ listed \in 0 .. Len(log') /\ from \in 0 .. Len(log') /\ pos \in from .. Len(log')
          /\ watches \in 0 .. faults' + 1
          /\ stage = "new" => watches + 1 \in 0 .. faults' + 1
      <4>1. listed \in 0 .. Len(log') /\ from \in 0 .. Len(log') /\ pos \in from .. Len(log')
        BY <3>2, <3>3
      <4>2. faults \in Nat /\ watches \in 0 .. faults + 1
        BY <3>0, <3>3
      <4>3. watches \in 0 .. faults' + 1
        <5>1. CASE faults' = faults
          BY <4>2, <5>1
        <5>2. CASE faults' = faults + 1
          BY <4>2, <5>2
        <5> QED BY <3>1, <5>1, <5>2
      <4>4. stage = "new" => watches + 1 \in 0 .. faults' + 1
        <5>1. faults' \in Nat
          BY <3>1, <4>2
        <5>2. stage = "new" => watches + 1 = 1
          BY <3>3
        <5> QED BY <5>1, <5>2
      <4> QED BY <4>1, <4>3, <4>4
    <3> USE DEF Disc!TypeOK, Disc!Stages
    <3>4. CASE UNCHANGED client
      BY <3>3, <3>4, <3>a DEF client
    <3>5. CASE Watches
      <4>1. CASE Disc!Start
        BY <4>1, <3>3, <3>a DEF Disc!Start, Disc!Watch
      <4>2. CASE Disc!Lists
        BY <4>2, <3>0, <3>1, <3>2, <3>3 DEF Disc!Lists, Disc!Present, Disc!store
      <4>3. CASE Disc!OpensWatcher
        BY <4>3, <3>0, <3>1, <3>2, <3>3 DEF Disc!OpensWatcher, Disc!store
      <4>4. CASE Disc!Receives
        <5>1. pos + 1 \in 1 .. Len(log) /\ log[pos + 1] \in Revisions
          BY <4>4, <3>0, <3>2, <3>3, ElementOfSeq DEF Disc!Receives
        <5> QED BY <4>4, <5>1, <3>0, <3>1, <3>2, <3>3
                DEF Disc!Receives, Disc!store, Revisions
      <4> QED BY <3>5, <4>1, <4>2, <4>3, <4>4 DEF Watches
    <3>6. CASE Breaks
      <4>1. CASE Disc!ListFails \/ Disc!Closes
        BY <4>1, <3>0, <3>1, <3>2, <3>3 DEF Disc!ListFails, Disc!Closes, Disc!store
      <4>2. CASE Disc!WatchEnds
        BY <4>2, <3>0, <3>1, <3>2, <3>3 DEF Disc!WatchEnds, Disc!Watch, Disc!Fault
      <4> QED BY <3>6, <4>1, <4>2 DEF Breaks
    <3>7. ASSUME NEW k \in Keys, Callback(k) PROVE Disc!TypeOK' /\ (stage = "new" => watches = 0)'
      BY <3>7, <3>0, <3>1, <3>2, <3>3 DEF Callback, Disc!Reports, Disc!store
    <3> QED
      BY <3>4, <3>5, <3>6, <3>7
      DEF Next, Provider, Declares, Consumes, CallbackReturns, Caller, vars
  <2> QED BY <2>1, <2>2, <2>3 DEF Typed, TypeOK
<1> QED BY <1>1, <1>2, PTL DEF Spec

\* The types of the three components hold in their composition, where faults
\* are shared and the client reads the log while etcd writes it.
THEOREM TypeCorrect == Spec => []TypeOK
<1>1. Typed => TypeOK
  BY DEF Typed
<1> QED BY <1>1, TypedHolds, PTL

-----------------------------------------------------------------------------
(* The log and the keys that are there agree, and a revision takes away    *)
(* only keys that were there.                                              *)
Logged ==
    /\ Known(log, Len(log)) = Present
    /\ \A i \in 1 .. Len(log) : log[i].type = "DELETE"
                                  => log[i].keys \subseteq Known(log, i - 1)

LEMMA LoggedHolds == Spec => []Logged
<1>1. Init => Logged
  <2> SUFFICES ASSUME Init PROVE Logged
    OBVIOUS
  <2>1. log = <<>> /\ Present = {}
    BY DEF Init, Reg!Init, Reg!StoreInit, Present, Reg!Absent, Absent
  <2>2. Len(log) = 0 /\ Known(log, 0) = {}
    BY <2>1, KnownFirst, EmptySeq
  <2> QED BY <2>1, <2>2 DEF Logged
<1>2. Typed /\ Logged /\ [Next]_vars => Logged'
  <2> SUFFICES ASSUME Typed, Logged, [Next]_vars PROVE Logged'
    OBVIOUS
  <2>0. Reg!TypeOK /\ log \in Seq(Revisions) /\ Present \subseteq Keys
    BY DEF Typed, TypeOK, Reg!TypeOK, Reg!StoreTypeOK, Revisions, Present
  <2>1. Grows
    BY <2>0, EveryStepGrows
  <2>2. CASE log' = log /\ Present' = Present
    BY <2>2 DEF Logged
  <2>3. ASSUME NEW r \in Revisions, log' = Append(log, r),
               Present' = IF r.type = "PUT" THEN Present \cup r.keys ELSE Present \ r.keys,
               r.type = "DELETE" => r.keys \subseteq Present
        PROVE  Logged'
    <3> DEFINE n == Len(log)
    <3>1. n \in Nat /\ Len(log') = n + 1 /\ log'[n + 1] = r
      BY <2>0, <2>3, AppendProperties, LenProperties
    <3>2. /\ \A i \in 1 .. n : log'[i] = log[i]
          /\ \A i \in 0 .. n : Known(log', i) = Known(log, i)
      BY <2>0, <2>1, GrownLog
    <3> HIDE DEF n
    <3>3. Known(log', n) = Present
      BY <3>1, <3>2 DEF Logged, n
    <3>4. Known(log', n + 1) = Present'
      <4>1. r.type \in {"PUT", "DELETE"} /\ r.keys \subseteq Keys
        BY DEF Revisions
      <4> QED BY <4>1, <3>1, <3>3, <2>3, KnownNext
    <3>5. ASSUME NEW i \in 1 .. n + 1, log'[i].type = "DELETE"
          PROVE  log'[i].keys \subseteq Known(log', i - 1)
      <4>1. CASE i = n + 1
        BY <4>1, <3>1, <3>3, <3>5, <2>3
      <4>2. CASE i # n + 1
        <5>1. i \in 1 .. n /\ i - 1 \in 0 .. n
          BY <4>2, <3>1
        <5> QED BY <5>1, <3>2, <3>5 DEF Logged, n
      <4> QED BY <4>1, <4>2
    <3> QED BY <3>1, <3>4, <3>5 DEF Logged
  <2>4. ASSUME NEW k \in Keys, log' = Append(log, PutRevision(k)),
               Present' = Present \cup {k}
        PROVE  Logged'
    BY <2>3, <2>4 DEF PutRevision, Revisions
  <2>5. ASSUME NEW g \in SUBSET Present, log' = Append(log, DeleteRevision(g)),
               Present' = Present \ g
        PROVE  Logged'
    BY <2>0, <2>3, <2>5 DEF DeleteRevision, Revisions
  <2> QED BY <2>1, <2>2, <2>4, <2>5 DEF Grows
<1> QED BY <1>1, <1>2, TypedHolds, PTL DEF Spec

-----------------------------------------------------------------------------
(* Where the client is in its watch().  The services are declared before   *)
(* it is called, the reports of a listing or a revision are taken before   *)
(* the next step, only the watcher's thread reports, and it reports what   *)
(* kind says.                                                              *)
Nodeless == \A s \in cares : pool[s].nodes = <<>>

Phased ==
    /\ stage # "new" => cares = Wanted
    /\ stage \in {"new", "list", "stopped"} => Returned /\ todo = {}
    /\ stage = "listing" => kind = "PUT"
    /\ \A t \in Threads \ {Watcher} : call[t].op \notin Pool!Reports
    /\ ~Returned => call[Watcher].op = IF kind = "PUT" THEN "append" ELSE "remove"
    /\ stage \in {"list", "listing", "watching"} => watches > 0
    /\ stage = "new" \/ (stage = "list" /\ watches = 1) => Nodeless

\* What the steps of other threads leave alone.
LEMMA CallerKeepsNodes ==
    ASSUME Pool!TypeOK, NEW t \in Threads, t # Watcher, Caller(t), Watcher \in Threads
    PROVE  /\ UNCHANGED <<store, provider, client, cares>>
           /\ call'[Watcher] = call[Watcher]
           /\ \A x \in Threads \ {Watcher} :
                call'[x] = call[x] \/ call'[x].op \notin Pool!Reports
           /\ \A s \in cares : pool'[s].nodes = pool[s].nodes
<1> USE DEF Pool!TypeOK
<1>1. ASSUME NEW s, Pool!LookupUnknown(t, s)
      PROVE  UNCHANGED <<cares, pool, call>>
  BY <1>1 DEF Pool!LookupUnknown
<1>2. ASSUME NEW s, NEW op \in Pool!Lookups, Pool!Lookup(t, op, s)
      PROVE  /\ UNCHANGED <<cares, pool>> /\ call'[t].op \notin Pool!Reports
             /\ call' = [call EXCEPT ![t] = call'[t]]
  BY <1>2 DEF Pool!Lookup, Pool!Lookups, Pool!Reports, Pool!Call
<1>3. ASSUME Pool!PickNothing(t) \/ Pool!PickNode(t)
      PROVE  /\ UNCHANGED cares /\ call'[t].op \notin Pool!Reports
             /\ call' = [call EXCEPT ![t] = call'[t]]
             /\ \A s \in cares : pool'[s].nodes = pool[s].nodes
  <2>1. PICK r, c : Pool!Finish(t, r, c) /\ c.nodes = pool[call[t].svc].nodes
    <3>1. call[t].svc \in cares
      BY <1>3 DEF Pool!PickNothing, Pool!PickNode, Pool!Lookups, Pool!Idle, Pool!Call
    <3>2. Pool!Rotated(pool[call[t].svc]).nodes = pool[call[t].svc].nodes
      BY <3>1 DEF Pool!Rotated, Pool!Channel
    <3> QED BY <1>3, <3>2 DEF Pool!PickNothing, Pool!PickNode
  <2> QED BY <2>1 DEF Pool!Finish, Pool!Idle, Pool!Call, Pool!Reports
<1> QED BY <1>1, <1>2, <1>3 DEF Caller

LEMMA PhasedHolds == Spec => []Phased
<1>1. Init => Phased
  BY DiscoverySetting
  DEF Init, Disc!Init, Pool!Init, Phased, Returned, Nodeless, Pool!Idle, Pool!Call,
         Pool!Reports
<1>2. Typed /\ Phased /\ [Next]_vars => Phased'
  <2> SUFFICES ASSUME Typed, Phased, [Next]_vars PROVE Phased'
    OBVIOUS
  <2>0. /\ Pool!TypeOK /\ Disc!TypeOK /\ Watcher \in Threads /\ Wanted \subseteq Services
        /\ call \in [Threads -> Pool!CallType] /\ DOMAIN pool = cares
        /\ \A t \in Threads : call[t] # Pool!Idle => call[t].svc \in cares
        /\ stage = "new" => watches = 0
        /\ kind \in {"PUT", "DELETE"} /\ watches \in Nat
        /\ \A k \in Keys : SvcOf[k] \in Services /\ AddrOf[k] \in Hosts
    BY DiscoverySetting DEF Typed, TypeOK, Pool!TypeOK, Disc!TypeOK
  <2> USE DEF Phased, Returned, Nodeless
  <2>1. CASE UNCHANGED <<client, manager>>
    BY <2>1 DEF client, manager
  <2>2. ASSUME NEW s \in Wanted, Declares(s) PROVE Phased'
    BY <2>0, <2>2 DEF Declares, client, Pool!Declared, Pool!NewChannel
  <2>3. CASE Watches
    <3>1. CASE cares = Wanted /\ Disc!Start
      BY <3>1, <2>0, <2>3 DEF Watches, Disc!Start, Disc!Watch, manager
    <3>2. CASE Disc!Lists
      BY <3>2, <2>0, <2>3 DEF Watches, Disc!Lists, manager
    <3>3. CASE Disc!OpensWatcher
      BY <3>3, <2>0, <2>3 DEF Watches, Disc!OpensWatcher, manager
    <3>4. CASE Disc!Receives
      BY <3>4, <2>0, <2>3 DEF Watches, Disc!Receives, manager
    <3> QED BY <2>3, <3>1, <3>2, <3>3, <3>4 DEF Watches
  <2>4. CASE Breaks
    <3>1. CASE Disc!WatchEnds
      BY <3>1, <2>0, <2>4 DEF Breaks, Disc!WatchEnds, Disc!Watch, manager
    <3>2. CASE Disc!ListFails \/ Disc!Closes
      BY <3>2, <2>0, <2>4 DEF Breaks, Disc!ListFails, Disc!Closes, manager
    <3> QED BY <2>4, <3>1, <3>2 DEF Breaks
  <2>5. ASSUME NEW k \in Keys, Callback(k) PROVE Phased'
    <3>0. /\ k \in todo /\ stage \notin {"new", "list", "stopped"}
          /\ UNCHANGED <<stage, kind, watches>>
      BY <2>5 DEF Callback, Disc!Reports
    <3>1. CASE UNCHANGED manager
      BY <2>0, <3>0, <3>1, <2>5 DEF manager, Callback, Disc!Reports
    <3>2. ASSUME NEW op \in Pool!Reports, op = IF kind = "PUT" THEN "append" ELSE "remove",
                 Pool!Report(Watcher, op, SvcOf[k], AddrOf[k])
          PROVE  Phased'
      BY <2>0, <3>0, <3>2 DEF Pool!Report, Pool!Call
    <3>3. \/ UNCHANGED manager
          \/ kind = "PUT" /\ Pool!Report(Watcher, "append", SvcOf[k], AddrOf[k])
          \/ kind = "DELETE" /\ Pool!Report(Watcher, "remove", SvcOf[k], AddrOf[k])
      BY <2>5 DEF Callback, Pool!Ignored, Pool!vars, manager, Pool!OnServiceOnline,
                  Pool!OnServiceOffline
    <3> QED BY <3>1, <3>2, <3>3 DEF Pool!Reports
  <2>6. CASE CallbackReturns
    <3>1. /\ ~Returned /\ UNCHANGED <<client, cares>>
          /\ call' = [call EXCEPT ![Watcher] = Pool!Idle]
      BY <2>6, <2>0 DEF CallbackReturns, Pool!AppendNode, Pool!AppendFails, Pool!RemoveNode,
                        Pool!Idle, Pool!Call
    <3> QED BY <2>0, <3>1 DEF client
  <2>7. ASSUME NEW t \in Threads \ {Watcher}, Caller(t) PROVE Phased'
    BY <2>0, <2>7, CallerKeepsNodes DEF client
  <2> QED
    BY <2>1, <2>2, <2>3, <2>4, <2>5, <2>6, <2>7
    DEF Next, Provider, Consumes, vars
<1> QED BY <1>1, <1>2, TypedHolds, PTL DEF Spec

-----------------------------------------------------------------------------
(* Counting.  What the pool has of a service at an address and what is on  *)
(* its way there balance with the keys that the client has reached.        *)
Number(K, s, h) == Cardinality(OfferedBy(K, s, h))

LEMMA NumberFacts ==
    ASSUME NEW A \in SUBSET Keys, NEW B \in SUBSET Keys, NEW s, NEW h
    PROVE  /\ Number(A, s, h) \in Nat /\ Number(B, s, h) \in Nat /\ Number({}, s, h) = 0
           /\ Number(A \cup B, s, h) <= Number(A, s, h) + Number(B, s, h)
           /\ A \cap B = {} => Number(A \cup B, s, h) = Number(A, s, h) + Number(B, s, h)
           /\ B \subseteq A => Number(B, s, h) <= Number(A, s, h)
<1> DEFINE O(K) == OfferedBy(K, s, h)
<1>1. ASSUME NEW K, K \subseteq Keys PROVE IsFiniteSet(O(K)) /\ Cardinality(O(K)) \in Nat
  <2>1. O(K) \subseteq Keys
    BY <1>1 DEF OfferedBy
  <2>2. IsFiniteSet(O(K))
    BY <2>1, DiscoverySetting, FS_Subset
  <2> QED BY <2>2, FS_CardinalityType
<1>2. /\ O({}) = {} /\ O(A \cup B) = O(A) \cup O(B)
      /\ A \cap B = {} => O(A) \cap O(B) = {}
      /\ B \subseteq A => O(B) \subseteq O(A)
  BY DEF OfferedBy
<1> HIDE DEF O
<1>3. Cardinality(O(A) \cup O(B))
        = Cardinality(O(A)) + Cardinality(O(B)) - Cardinality(O(A) \cap O(B))
  BY <1>1, FS_Union
<1>4. Cardinality(O(A) \cap O(B)) \in Nat
  BY <1>1, FS_Intersection, FS_CardinalityType
<1>5. Cardinality({}) = 0
  BY FS_EmptySet
<1>6. \A K : Number(K, s, h) = Cardinality(O(K))
  BY DEF Number, O
<1>7. /\ Cardinality(O(A)) \in Nat /\ Cardinality(O(B)) \in Nat
      /\ B \subseteq A => Cardinality(O(B)) <= Cardinality(O(A))
  BY <1>1, <1>2, FS_Subset
<1>8. ASSUME A \cap B = {}
       PROVE  Cardinality(O(A \cup B)) = Cardinality(O(A)) + Cardinality(O(B))
  <2>1. O(A) \cap O(B) = {} /\ O(A \cup B) = O(A) \cup O(B)
    BY <1>2, <1>8
  <2>2. Cardinality(O(A) \cap O(B)) = 0
    BY <2>1, <1>5
  <2>3. Cardinality(O(A \cup B)) = Cardinality(O(A)) + Cardinality(O(B)) - 0
    BY <2>1, <2>2, <1>3
  <2> QED BY <2>3, <1>7
<1>9. Cardinality(O(A \cup B)) <= Cardinality(O(A)) + Cardinality(O(B))
  <2>1. O(A \cup B) = O(A) \cup O(B)
    BY <1>2
  <2>2. Cardinality(O(A \cup B))
          = Cardinality(O(A)) + Cardinality(O(B)) - Cardinality(O(A) \cap O(B))
    BY <2>1, <1>3
  <2> QED BY <2>2, <1>4, <1>7
<1>10. Cardinality(O({})) = 0
  BY <1>2, <1>5
<1> QED BY <1>6, <1>7, <1>8, <1>9, <1>10

LEMMA NumberMinus ==
    ASSUME NEW A \in SUBSET Keys, NEW B \in SUBSET A, NEW s, NEW h
    PROVE  /\ Number(A \ B, s, h) \in Nat /\ Number(B, s, h) \in Nat
           /\ Number(A, s, h) = Number(A \ B, s, h) + Number(B, s, h)
<1>1. /\ Number(A, s, h) \in Nat /\ Number(A \ B, s, h) \in Nat
      /\ Number(B, s, h) \in Nat
  BY NumberFacts
<1>2. /\ OfferedBy(A \ B, s, h) = OfferedBy(A, s, h) \ OfferedBy(B, s, h)
      /\ OfferedBy(A, s, h) \cap OfferedBy(B, s, h) = OfferedBy(B, s, h)
      /\ OfferedBy(A, s, h) \subseteq Keys
  BY DEF OfferedBy
<1>3. IsFiniteSet(OfferedBy(A, s, h))
  BY <1>2, DiscoverySetting, FS_Subset
<1>4. Cardinality(OfferedBy(A, s, h) \ OfferedBy(B, s, h))
        = Cardinality(OfferedBy(A, s, h)) - Cardinality(OfferedBy(A, s, h) \cap OfferedBy(B, s, h))
  BY <1>3, FS_Difference
<1>5. Number(A \ B, s, h) = Number(A, s, h) - Number(B, s, h)
  BY <1>2, <1>4 DEF Number
<1> QED BY <1>1, <1>5

LEMMA NumberWithout ==
    ASSUME NEW A, A \subseteq Keys, NEW k \in A, NEW s, NEW h
    PROVE  /\ Number(A \ {k}, s, h) \in Nat
           /\ Number(A, s, h) = Number(A \ {k}, s, h)
                 + IF SvcOf[k] = s /\ AddrOf[k] = h THEN 1 ELSE 0
<1>1. Number({k}, s, h) = IF SvcOf[k] = s /\ AddrOf[k] = h THEN 1 ELSE 0
  <2>1. OfferedBy({k}, s, h) = IF SvcOf[k] = s /\ AddrOf[k] = h THEN {k} ELSE {}
    BY DEF OfferedBy
  <2> QED BY <2>1, FS_Singleton, FS_EmptySet DEF Number
<1>2. {k} \subseteq A /\ {k} \subseteq Keys /\ A \ {k} \subseteq Keys
  OBVIOUS
<1> DEFINE B == {k}
<1>3. Number(A, s, h) = Number(A \ B, s, h) + Number(B, s, h)
  <2>1. B \in SUBSET A /\ A \in SUBSET Keys
    BY <1>2
  <2> HIDE DEF B
  <2> QED BY <2>1, NumberMinus
<1>4. Number(A \ {k}, s, h) \in Nat
  BY <1>2, NumberFacts
<1> QED BY <1>1, <1>3, <1>4

\* Reports of s at h that have not reached the pool, and the keys that the
\* pool is to show when all have.
Underway(s, h) ==
    IF ~Returned /\ call[Watcher].svc = s /\ call[Watcher].host = h THEN 1 ELSE 0
Coming(s, h) == Number(todo, s, h) + Underway(s, h)

Reached == Known(log, IF stage = "listing" THEN listed ELSE pos)
Expected(s, h) == Number(Reached, s, h)

AtLeast(s, h) == IF kind = "PUT" THEN Entries(s, h) + Coming(s, h) >= Expected(s, h)
                                 ELSE Entries(s, h) >= Expected(s, h) + Coming(s, h)
Exactly(s, h) == IF kind = "PUT" THEN Entries(s, h) + Coming(s, h) = Expected(s, h)
                                 ELSE Entries(s, h) = Expected(s, h) + Coming(s, h)

\* No key was put between the listing and the watcher.
Gapless == \/ stage = "listing"
           \/ stage = "watching" /\ \A i \in listed + 1 .. from : log[i].type # "PUT"

Quiet == \/ stage = "listing" /\ watches = 1
         \/ stage = "watching" /\ Undisturbed

Balanced(s, h) == (Gapless => AtLeast(s, h)) /\ (Quiet => Exactly(s, h))
View == \A s \in Wanted, h \in Reliable : Balanced(s, h)

LEMMA EntriesCount ==
    ASSUME Pool!TypeOK, NEW s \in cares, NEW h
    PROVE  /\ Entries(s, h) = Count(pool[s].nodes, h) /\ Entries(s, h) \in Nat
           /\ pool[s].nodes \in Seq(Hosts)
<1>1. pool[s].nodes \in Seq(Hosts)
  BY DEF Pool!TypeOK, Pool!Channel
<1>2. Entries(s, h) = Count(pool[s].nodes, h)
  BY DEF Entries, Count, Places
<1> QED BY <1>1, <1>2, PlacesFinite

LEMMA ViewTypes ==
    ASSUME Typed, NEW s \in Wanted, NEW h
    PROVE  /\ Number(todo, s, h) \in Nat /\ Underway(s, h) \in {0, 1}
           /\ Coming(s, h) \in Nat /\ Expected(s, h) \in Nat
           /\ cares = Wanted => Entries(s, h) \in Nat
<1>1. todo \subseteq Keys /\ Reached \subseteq Keys
  BY DEF Typed, TypeOK, Disc!TypeOK, Reached, Known
<1>2. Number(todo, s, h) \in Nat /\ Expected(s, h) \in Nat
  BY <1>1, NumberFacts DEF Expected
<1>3. Underway(s, h) \in {0, 1}
  BY DEF Underway
<1>4. Coming(s, h) \in Nat
  BY <1>2, <1>3 DEF Coming
<1>5. cares = Wanted => Entries(s, h) \in Nat
  BY EntriesCount DEF Typed, TypeOK
<1> QED BY <1>2, <1>3, <1>4, <1>5

\* A growing log changes nothing for a client that stays where it is.
LEMMA ClientStays ==
    ASSUME Typed, [Next]_vars, UNCHANGED <<stage, listed, from, pos, watches>>
    PROVE  /\ Reached' = Reached
           /\ (Gapless' => Gapless) /\ (Quiet' => Quiet)
<1>0. /\ Reg!TypeOK /\ log \in Seq(Revisions)
      /\ listed \in 0 .. Len(log) /\ from \in 0 .. Len(log) /\ pos \in from .. Len(log)
  BY DEF Typed, TypeOK, Reg!TypeOK, Reg!StoreTypeOK, Disc!TypeOK, Revisions
<1>1. /\ Len(log) \in Nat /\ \A i \in 1 .. Len(log) : log'[i] = log[i]
      /\ \A n \in 0 .. Len(log) : Known(log', n) = Known(log, n)
  BY <1>0, EveryStepGrows, GrownLog
<1>2. pos \in 0 .. Len(log)
  BY <1>0, <1>1
<1>3. Reached' = Reached
  BY <1>0, <1>1, <1>2 DEF Reached
<1>4. Gapless' => Gapless
  <2>1. \A i \in listed + 1 .. from : i \in 1 .. Len(log)
    BY <1>0, <1>1
  <2> QED BY <2>1, <1>1 DEF Gapless
<1>5. Undisturbed' => Undisturbed
  <2>1. ASSUME NEW i \in listed + 1 .. pos, PutAgain(i) PROVE PutAgain(i)'
    <3>1. i \in 1 .. Len(log) /\ i - 1 \in 0 .. Len(log)
      BY <1>0, <1>1, <1>2
    <3>2. PresentAfter(i - 1) = PresentAfter(i - 1)'
      BY <3>1, <1>1, PresentIsKnown
    <3> QED BY <2>1, <3>1, <3>2, <1>1 DEF PutAgain
  <2> QED BY <2>1 DEF Undisturbed
<1> QED BY <1>3, <1>4, <1>5 DEF Quiet

\* The steps that the client takes no part in.
LEMMA BalancedBystander ==
    ASSUME Typed, [Next]_vars, NEW s \in Wanted, NEW h \in Reliable, Balanced(s, h),
           UNCHANGED <<client, cares>>, call'[Watcher] = call[Watcher],
           Entries(s, h)' = Entries(s, h)
    PROVE  Balanced(s, h)'
<1>1. /\ Reached' = Reached /\ (Gapless' => Gapless) /\ (Quiet' => Quiet)
  BY ClientStays DEF client
<1>2. Coming(s, h)' = Coming(s, h) /\ Expected(s, h)' = Expected(s, h) /\ kind' = kind
  BY <1>1 DEF Coming, Expected, Underway, Returned, client
<1> QED BY <1>1, <1>2 DEF Balanced, AtLeast, Exactly

\* A callback begins: the key leaves the listing or the revision, and its
\* report is under way, unless its service is ignored.
LEMMA BalancedCallback ==
    ASSUME Typed, Phased, [Next]_vars, NEW s \in Wanted, NEW h \in Reliable,
           Balanced(s, h), NEW k \in Keys, Callback(k)
    PROVE  Balanced(s, h)'
<1>0. /\ k \in todo /\ todo' = todo \ {k} /\ todo \in SUBSET Keys
      /\ UNCHANGED <<stage, kind, listed, from, pos, watches>>
      /\ cares = Wanted /\ DOMAIN pool = cares
      /\ call \in [Threads -> Pool!CallType] /\ Watcher \in Threads
  BY DiscoverySetting
  DEF Callback, Disc!Reports, Typed, TypeOK, Disc!TypeOK, Pool!TypeOK, Phased
<1>1. Reached' = Reached /\ (Gapless' => Gapless) /\ (Quiet' => Quiet)
  BY <1>0, ClientStays
<1>2. Returned /\ UNCHANGED <<cares, pool>>
  BY DEF Callback, Pool!Ignored, Pool!vars, Pool!OnServiceOnline, Pool!OnServiceOffline,
         Pool!Report, Pool!Enters, Returned
<1>3. Underway(s, h) = 0 /\ Entries(s, h)' = Entries(s, h)
  BY <1>2 DEF Underway, Entries
<1>4. Underway(s, h)' = IF SvcOf[k] = s /\ AddrOf[k] = h THEN 1 ELSE 0
  <2>1. CASE Pool!Ignored(Watcher, SvcOf[k])
    BY <2>1, <1>0, <1>2 DEF Pool!Ignored, Pool!vars, Underway, Returned
  <2>2. ASSUME NEW op \in Pool!Reports, Pool!Report(Watcher, op, SvcOf[k], AddrOf[k])
        PROVE  Underway(s, h)' = IF SvcOf[k] = s /\ AddrOf[k] = h THEN 1 ELSE 0
    BY <2>2, <1>0 DEF Pool!Report, Pool!Reports, Pool!Call, Pool!Idle, Underway, Returned
  <2> QED BY <2>1, <2>2
      DEF Callback, Pool!OnServiceOnline, Pool!OnServiceOffline, Pool!Reports
<1>5. /\ Number(todo \ {k}, s, h) \in Nat
      /\ Number(todo, s, h) = Number(todo \ {k}, s, h)
                                + IF SvcOf[k] = s /\ AddrOf[k] = h THEN 1 ELSE 0
  BY <1>0, NumberWithout
<1>6. Number(todo, s, h)' = Number(todo \ {k}, s, h)
  BY <1>0 DEF Number, OfferedBy
<1>7. Coming(s, h)' = Coming(s, h)
  BY <1>3, <1>4, <1>5, <1>6 DEF Coming
<1>8. Expected(s, h)' = Expected(s, h) /\ kind' = kind
  BY <1>0, <1>1 DEF Expected
<1> QED BY <1>1, <1>3, <1>7, <1>8 DEF Balanced, AtLeast, Exactly

\* A callback returns: the pool has one node more, or one node less, at the
\* address of its report.
LEMMA BalancedReturn ==
    ASSUME Typed, Phased, [Next]_vars, NEW s \in Wanted, NEW h \in Reliable,
           Balanced(s, h), CallbackReturns
    PROVE  Balanced(s, h)'
<1> DEFINE c == call[Watcher]
<1>0. /\ Pool!TypeOK /\ Watcher \in Threads /\ ~Returned
      /\ c.svc \in cares /\ c.host \in Hosts
      /\ UNCHANGED <<client, cares>> /\ call' = [call EXCEPT ![Watcher] = Pool!Idle]
  BY DiscoverySetting
  DEF CallbackReturns, Typed, TypeOK, Pool!TypeOK, Pool!CallType, Pool!AppendNode,
      Pool!AppendFails, Pool!RemoveNode, Pool!Idle, Pool!Call, Pool!Lookups, Returned
<1>1. /\ Reached' = Reached /\ (Gapless' => Gapless) /\ (Quiet' => Quiet)
  BY <1>0, ClientStays DEF client
<1>2. cares = Wanted /\ DOMAIN pool = cares
  BY <1>0 DEF Phased, Pool!TypeOK
<1>3. /\ Entries(s, h) = Count(pool[s].nodes, h) /\ Entries(s, h) \in Nat
      /\ pool[s].nodes \in Seq(Hosts) /\ pool[s] \in Pool!Channel
  BY <1>0, <1>2, EntriesCount DEF Pool!TypeOK
<1>4. Entries(s, h)' = Count(pool'[s].nodes, h)
  BY <1>0, <1>2 DEF Entries, Count, Places
<1>5. Underway(s, h)' = 0 /\ Underway(s, h) = IF c.svc = s /\ c.host = h THEN 1 ELSE 0
  BY <1>0 DEF Underway, Returned, Pool!TypeOK
<1>6. Expected(s, h)' = Expected(s, h) /\ kind' = kind /\ Number(todo, s, h)' = Number(todo, s, h)
  BY <1>0, <1>1 DEF Expected, client, Number
<1>7. /\ Number(todo, s, h) \in Nat /\ Expected(s, h) \in Nat
  BY ViewTypes
<1>8. CASE Pool!AppendNode(Watcher)
  <2>1. kind = "PUT"
    BY <1>0, <1>8 DEF Phased, Pool!AppendNode
  <2>2. Entries(s, h)' = Entries(s, h) + Underway(s, h)
    <3>1. CASE c.svc = s
      <4>1. pool'[s].nodes = Append(pool[s].nodes, c.host)
        BY <3>1, <1>8, <1>2, <1>3 DEF Pool!AppendNode, Pool!Appended, Pool!Channel
      <4> QED BY <4>1, <3>1, <1>0, <1>3, <1>4, <1>5, CountAppend
    <3>2. CASE c.svc # s
      <4>1. pool'[s] = pool[s]
        BY <3>2, <1>8, <1>2 DEF Pool!AppendNode
      <4> QED BY <4>1, <3>2, <1>3, <1>4, <1>5
    <3> QED BY <3>1, <3>2
  <2>3. Entries(s, h)' + Coming(s, h)' = Entries(s, h) + Coming(s, h)
    BY <2>2, <1>3, <1>5, <1>6, <1>7 DEF Coming
  <2> QED BY <2>1, <2>3, <1>1, <1>6 DEF Balanced, AtLeast, Exactly
<1>9. CASE Pool!AppendFails(Watcher)
  <2>1. Underway(s, h) = 0 /\ pool' = pool
    BY <1>5, <1>9 DEF Pool!AppendFails, Reliable
  <2>2. Entries(s, h)' = Entries(s, h) /\ Coming(s, h)' = Coming(s, h)
    BY <2>1, <1>3, <1>4, <1>5, <1>6 DEF Coming
  <2> QED BY <2>2, <1>1, <1>6 DEF Balanced, AtLeast, Exactly
<1>10. CASE Pool!RemoveNode(Watcher)
  <2>1. kind # "PUT"
    BY <1>0, <1>10 DEF Phased, Pool!RemoveNode
  <2>2. Entries(s, h)' = IF Underway(s, h) = 1 /\ Entries(s, h) > 0
                         THEN Entries(s, h) - 1 ELSE Entries(s, h)
    <3>1. CASE c.svc = s
      <4>1. pool'[s].nodes = Pool!RemoveFirst(pool[s].nodes, c.host)
        BY <3>1, <1>10, <1>2, <1>3 DEF Pool!RemoveNode, Pool!Removed, Pool!Channel
      <4> QED BY <4>1, <3>1, <1>0, <1>3, <1>4, <1>5, CountRemoveFirst
    <3>2. CASE c.svc # s
      <4>1. pool'[s] = pool[s]
        BY <3>2, <1>10, <1>2 DEF Pool!RemoveNode
      <4> QED BY <4>1, <3>2, <1>3, <1>4, <1>5
    <3> QED BY <3>1, <3>2
  <2>3. /\ Coming(s, h) = Number(todo, s, h) + Underway(s, h)
        /\ Coming(s, h)' = Number(todo, s, h) /\ Underway(s, h) \in {0, 1}
    BY <1>5, <1>6, <1>7 DEF Coming
  <2>4. /\ Entries(s, h) >= Expected(s, h) + Coming(s, h)
             => Entries(s, h)' >= Expected(s, h) + Coming(s, h)'
        /\ Entries(s, h) = Expected(s, h) + Coming(s, h)
             => Entries(s, h)' = Expected(s, h) + Coming(s, h)'
    BY <2>2, <2>3, <1>3, <1>7
  <2> QED BY <2>1, <2>4, <1>1, <1>6 DEF Balanced, AtLeast, Exactly
<1> QED BY <1>8, <1>9, <1>10 DEF CallbackReturns

\* The keys are listed: all of them are to be reported, and a pool that is
\* filled for the first time has nothing yet.
LEMMA BalancedLists ==
    ASSUME Typed, Logged, Phased, [Next]_vars, NEW s \in Wanted, NEW h \in Reliable,
           Watches, Disc!Lists
    PROVE  Balanced(s, h)'
<1>0. /\ Returned /\ stage = "list" /\ cares = Wanted
      /\ stage' = "listing" /\ kind' = "PUT" /\ todo' = Present /\ listed' = Len(log)
      /\ UNCHANGED <<watches, log, cares, pool, call>>
  BY DEF Watches, Disc!Lists, Disc!Present, Disc!Absent, Present, Absent, Disc!store, manager, Phased
<1>1. Reached' = Present
  BY <1>0 DEF Reached, Logged
<1>2. Underway(s, h)' = 0 /\ Entries(s, h)' = Entries(s, h)
  BY <1>0 DEF Underway, Returned, Entries
<1>3. Number(todo, s, h)' = Number(Present, s, h) /\ Expected(s, h)' = Number(Present, s, h)
  BY <1>0, <1>1 DEF Expected, Number, OfferedBy
<1>4. Number(Present, s, h) \in Nat
  BY NumberFacts DEF Present
<1>5. Entries(s, h) \in Nat
  BY <1>0, ViewTypes
<1>6. Coming(s, h)' = Expected(s, h)' /\ Expected(s, h)' \in Nat
  BY <1>2, <1>3, <1>4 DEF Coming
<1>7. AtLeast(s, h)'
  BY <1>0, <1>2, <1>5, <1>6 DEF AtLeast
<1>8. ASSUME Quiet' PROVE Exactly(s, h)'
  <2>1. watches = 1
    BY <1>0, <1>8 DEF Quiet
  <2>2. pool[s].nodes = <<>> /\ s \in cares
    BY <2>1, <1>0 DEF Phased, Nodeless
  <2>3. Entries(s, h) = 0
    BY <2>2, CountEmpty DEF Entries, Count, Places
  <2> QED BY <2>3, <1>0, <1>2, <1>6 DEF Exactly
<1> QED BY <1>7, <1>8 DEF Balanced

\* The watcher is opened after the listing has been reported: keys may have
\* gone meanwhile, and without a gap none has come.
LEMMA BalancedOpens ==
    ASSUME Typed, Logged, Phased, [Next]_vars, NEW s \in Wanted, NEW h \in Reliable,
           Balanced(s, h), Watches, Disc!OpensWatcher
    PROVE  Balanced(s, h)'
<1>0. /\ Returned /\ stage = "listing" /\ cares = Wanted /\ kind = "PUT" /\ todo = {}
      /\ stage' = "watching" /\ from' = Len(log) /\ pos' = Len(log)
      /\ UNCHANGED <<kind, todo, listed, watches, log, cares, pool, call>>
      /\ listed \in 0 .. Len(log) /\ Len(log) \in Nat
  BY DEF Watches, Disc!OpensWatcher, Disc!store, manager, Phased, Typed, TypeOK, Disc!TypeOK,
         Reg!TypeOK, Reg!StoreTypeOK
<1>1. Reached = Known(log, listed) /\ Reached' = Known(log, Len(log))
  BY <1>0 DEF Reached
<1>2. /\ Underway(s, h)' = Underway(s, h) /\ Entries(s, h)' = Entries(s, h)
      /\ Coming(s, h)' = Coming(s, h)
  BY <1>0 DEF Underway, Returned, Entries, Coming, Number, OfferedBy
<1>3. /\ Entries(s, h) \in Nat /\ Coming(s, h) \in Nat /\ Expected(s, h) \in Nat
  BY <1>0, ViewTypes
<1>4. Expected(s, h)' = Number(Known(log, Len(log)), s, h)
  BY <1>1 DEF Expected, Number
<1>5. ASSUME Gapless' PROVE AtLeast(s, h)'
  <2>1. Known(log, Len(log)) \subseteq Known(log, listed)
    <3>1. /\ listed \in Nat /\ listed <= Len(log)
          /\ \A i \in listed + 1 .. Len(log) : log[i].type # "PUT"
      BY <1>0, <1>5 DEF Gapless
    <3> QED BY <3>1, <1>0, KnownShrinks
  <2>2. Expected(s, h)' <= Expected(s, h) /\ Expected(s, h)' \in Nat
    <3>1. /\ Known(log, Len(log)) \in SUBSET Keys /\ Known(log, listed) \in SUBSET Keys
      BY DEF Known
    <3> QED BY <3>1, <2>1, <1>1, <1>4, NumberFacts DEF Expected
  <2>3. Entries(s, h) + Coming(s, h) >= Expected(s, h)
    BY <1>0 DEF Balanced, Gapless, AtLeast
  <2>4. Entries(s, h) + Coming(s, h) >= Expected(s, h)'
    BY <2>2, <2>3, <1>3
  <2> QED BY <2>4, <1>0, <1>2 DEF AtLeast
<1>6. ASSUME Quiet' PROVE Exactly(s, h)'
  <2>1. watches = 1 /\ Len(log) = listed
    BY <1>0, <1>6 DEF Quiet, Undisturbed
  <2>2. Exactly(s, h)
    BY <2>1, <1>0 DEF Balanced, Quiet
  <2>3. Expected(s, h)' = Expected(s, h)
    BY <2>1, <1>1, <1>4 DEF Expected
  <2> QED BY <2>2, <2>3, <1>0, <1>2 DEF Exactly
<1> QED BY <1>5, <1>6 DEF Balanced

\* A revision is received: its keys are to be reported, and they are what it
\* changes about the keys that the client has reached.
LEMMA BalancedReceives ==
    ASSUME Typed, Logged, Phased, [Next]_vars, NEW s \in Wanted, NEW h \in Reliable,
           Balanced(s, h), Watches, Disc!Receives
    PROVE  Balanced(s, h)'
<1>0. /\ Returned /\ stage = "watching" /\ cares = Wanted /\ todo = {}
      /\ kind' = log[pos + 1].type /\ todo' = log[pos + 1].keys /\ pos' = pos + 1
      /\ UNCHANGED <<stage, listed, from, watches, log, cares, pool, call>>
      /\ pos < Len(log)
  BY DEF Watches, Disc!Receives, Disc!store, manager, Phased
<1>t. /\ log \in Seq(Revisions) /\ Len(log) \in Nat /\ from \in Nat /\ listed \in Nat
      /\ pos \in Nat /\ from <= pos
  BY DEF Typed, TypeOK, Disc!TypeOK, Reg!TypeOK, Reg!StoreTypeOK, Revisions
<1> DEFINE r == log[pos + 1]
           A == Known(log, pos)
           K == r.keys
           B == Known(log, pos + 1)
<1>1. pos + 1 \in 1 .. Len(log) /\ r \in Revisions
  BY <1>0, <1>t, ElementOfSeq
<1>2. r.type \in {"PUT", "DELETE"} /\ K \in SUBSET Keys
  BY <1>1 DEF Revisions
<1>3. B = IF r.type = "PUT" THEN A \cup K ELSE A \ K
  BY <1>2, <1>t, KnownNext
<1>4. A \in SUBSET Keys /\ B \in SUBSET Keys
  BY DEF Known
<1>5. r.type = "DELETE" => K \in SUBSET A
  <2>1. (pos + 1) - 1 = pos
    BY <1>t
  <2> QED BY <2>1, <1>1 DEF Logged
<1>6. Reached = A /\ Reached' = B
  BY <1>0 DEF Reached
<1>7. /\ Number(A, s, h) \in Nat /\ Number(K, s, h) \in Nat /\ Number(B, s, h) \in Nat
      /\ Number({}, s, h) = 0
  BY <1>2, <1>4, NumberFacts
<1>8. /\ Coming(s, h) = 0 /\ Coming(s, h)' = Number(K, s, h)
      /\ Entries(s, h)' = Entries(s, h) /\ Entries(s, h) \in Nat
  <2>1. Underway(s, h) = 0 /\ Underway(s, h)' = 0 /\ Entries(s, h)' = Entries(s, h)
    BY <1>0 DEF Underway, Returned, Entries
  <2>2. Number(todo, s, h) = 0 /\ Number(todo, s, h)' = Number(K, s, h)
    BY <1>0, <1>7 DEF Number, OfferedBy
  <2> QED BY <2>1, <2>2, <1>0, <1>7, ViewTypes DEF Coming
<1>9. Expected(s, h) = Number(A, s, h) /\ Expected(s, h)' = Number(B, s, h)
  BY <1>6 DEF Expected, Number, OfferedBy
<1>10. kind' = r.type
  BY <1>0
<1> HIDE DEF r, A, B, K
<1>11. Gapless' => Gapless
  BY <1>0 DEF Gapless
<1>12. ASSUME Quiet'
       PROVE  Quiet /\ ~PutAgain(pos + 1)
  <2>1. /\ stage = "watching" /\ watches = 1 /\ from = listed
        /\ \A i \in listed + 1 .. pos + 1 : ~PutAgain(i)'
    BY <1>0, <1>12 DEF Quiet, Undisturbed
  <2>2. \A i : PutAgain(i)' = PutAgain(i)
    BY <1>0, PresentIsKnown DEF PutAgain
  <2>3. \A i \in listed + 1 .. pos : i \in listed + 1 .. pos + 1
    BY <1>t
  <2>4. pos + 1 \in listed + 1 .. pos + 1
    BY <1>t, <2>1
  <2> QED BY <2>1, <2>2, <2>3, <2>4 DEF Quiet, Undisturbed
<1>13. /\ Gapless => AtLeast(s, h)
       /\ Quiet => Exactly(s, h)
  BY DEF Balanced
<1>14. /\ AtLeast(s, h) => Entries(s, h) >= Number(A, s, h)
       /\ Exactly(s, h) => Entries(s, h) = Number(A, s, h)
  BY <1>7, <1>8, <1>9 DEF AtLeast, Exactly
<1>15. CASE r.type = "DELETE"
  <2>1. Number(A, s, h) = Number(B, s, h) + Number(K, s, h)
    BY <1>15, <1>3, <1>4, <1>5, NumberMinus
  <2>2. /\ Entries(s, h) >= Number(A, s, h) => AtLeast(s, h)'
        /\ Entries(s, h) = Number(A, s, h) => Exactly(s, h)'
    BY <2>1, <1>7, <1>8, <1>9, <1>10, <1>15 DEF AtLeast, Exactly
  <2> QED BY <1>11, <1>12, <1>13, <1>14, <2>2 DEF Balanced
<1>16. CASE r.type = "PUT"
  <2>1. B = A \cup K
    BY <1>16, <1>3
  <2>2. Number(B, s, h) <= Number(A, s, h) + Number(K, s, h)
    BY <2>1, <1>2, <1>4, NumberFacts
  <2>3. Entries(s, h) >= Number(A, s, h) => AtLeast(s, h)'
    BY <2>2, <1>7, <1>8, <1>9, <1>10, <1>16 DEF AtLeast
  <2>4. ASSUME Quiet'
        PROVE  Number(B, s, h) = Number(A, s, h) + Number(K, s, h)
    <3>1. (pos + 1) - 1 = pos
      BY <1>t
    <3>2. K \cap A = {}
      BY <3>1, <2>4, <1>12, <1>16, PresentIsKnown DEF PutAgain, r, A, K
    <3> QED BY <3>2, <2>1, <1>2, <1>4, NumberFacts
  <2>5. ASSUME Quiet' PROVE Exactly(s, h)'
    <3>1. Entries(s, h) = Number(A, s, h)
      BY <2>5, <1>12, <1>13, <1>14
    <3> QED BY <3>1, <2>4, <2>5, <1>7, <1>8, <1>9, <1>10, <1>16 DEF Exactly
  <2> QED BY <1>11, <1>13, <1>14, <2>3, <2>5 DEF Balanced
<1> QED BY <1>2, <1>15, <1>16

LEMMA ViewHolds == Spec => []View
<1>1. Init => View
  BY DEF Init, Disc!Init, View, Balanced, Gapless, Quiet
<1>2. Typed /\ Logged /\ Phased /\ View /\ [Next]_vars => View'
  <2> SUFFICES ASSUME Typed, Logged, Phased, View, [Next]_vars,
                      NEW s \in Wanted, NEW h \in Reliable
               PROVE  Balanced(s, h)'
    BY DEF View
  <2>0. Balanced(s, h)
    BY DEF View
  <2>1. ASSUME stage' \notin {"listing", "watching"} PROVE Balanced(s, h)'
    BY <2>1 DEF Balanced, Gapless, Quiet
  <2>2. CASE UNCHANGED vars \/ Provider
    <3>1. UNCHANGED <<client, cares, pool, call>>
      BY <2>2 DEF vars, manager, Provider
    <3>2. Entries(s, h)' = Entries(s, h)
      BY <3>1 DEF Entries
    <3> QED BY <3>1, <3>2, <2>0, BalancedBystander
  <2>3. ASSUME NEW w \in Wanted, Declares(w) PROVE Balanced(s, h)'
    BY <2>1, <2>3 DEF Declares, client
  <2>4. CASE Watches
    <3>1. CASE cares = Wanted /\ Disc!Start
      BY <2>1, <3>1 DEF Disc!Start, Disc!Watch
    <3> QED BY <3>1, <2>0, <2>4, BalancedLists, BalancedOpens, BalancedReceives DEF Watches
  <2>5. CASE Breaks
    BY <2>1, <2>5 DEF Breaks, Disc!ListFails, Disc!WatchEnds, Disc!Closes, Disc!Watch
  <2>6. ASSUME NEW k \in Keys, Callback(k) PROVE Balanced(s, h)'
    BY <2>0, <2>6, BalancedCallback
  <2>7. CASE CallbackReturns
    BY <2>0, <2>7, BalancedReturn
  <2>8. ASSUME NEW t \in Threads \ {Watcher}, Caller(t) PROVE Balanced(s, h)'
    <3>1. /\ UNCHANGED <<client, cares>> /\ call'[Watcher] = call[Watcher]
          /\ \A x \in cares : pool'[x].nodes = pool[x].nodes
      BY <2>8, CallerKeepsNodes, DiscoverySetting DEF Typed, TypeOK
    <3>2. Entries(s, h)' = Entries(s, h)
      BY <3>1 DEF Entries
    <3> QED BY <3>1, <3>2, <2>0, BalancedBystander
  <2> QED
    BY <2>2, <2>3, <2>4, <2>5, <2>6, <2>7, <2>8 DEF Next, Consumes
<1> QED BY <1>1, <1>2, TypedHolds, LoggedHolds, PhasedHolds, PTL DEF Spec

\* When all that was sent has been taken in, nothing is under way and the keys
\* that the client has reached are those after the revision it has reached.
LEMMA SettledView ==
    ASSUME Typed, Phased, Settled, NEW s \in Wanted, NEW h \in Reliable
    PROVE  /\ AtLeast(s, h) => Entries(s, h) >= Cardinality(OfferedBy(PresentAfter(pos), s, h))
           /\ Exactly(s, h) => Entries(s, h) = Cardinality(OfferedBy(PresentAfter(pos), s, h))
<1>1. stage = "watching" /\ todo = {} /\ Returned /\ cares = Wanted
  BY DEF Settled, Phased
<1>2. Expected(s, h) = Cardinality(OfferedBy(PresentAfter(pos), s, h))
  <2>1. Reached = PresentAfter(pos)
    BY <1>1, PresentIsKnown DEF Reached
  <2> QED BY <2>1 DEF Expected, Number
<1>3. Coming(s, h) = 0
  <2>1. {} \in SUBSET Keys
    OBVIOUS
  <2>2. Number({}, s, h) = 0
    BY <2>1, NumberFacts
  <2> QED BY <2>2, <1>1 DEF Coming, Underway
<1>4. Entries(s, h) \in Nat /\ Expected(s, h) \in Nat
  BY <1>1, ViewTypes
<1>5. /\ AtLeast(s, h) => Entries(s, h) >= Expected(s, h)
      /\ Exactly(s, h) => Entries(s, h) = Expected(s, h)
  BY <1>3, <1>4 DEF AtLeast, Exactly
<1> QED BY <1>2, <1>5

\* However often the watch broke and was begun again, a service that the
\* consumer declared has a node for every registered instance, unless a key
\* was put between the listing and the opening of the watcher
\* (etcd.cc:66-118, rpc.cc:68-94,166-190).
THEOREM NodesNotLostHolds == Spec => []NodesNotLost
<1>1. Typed /\ Phased /\ View => NodesNotLost
  BY SettledView DEF View, Balanced, Gapless, NodesNotLost, Settled
<1> QED BY <1>1, TypedHolds, PhasedHolds, ViewHolds, PTL

\* Of one watch that nothing disturbed, the pool shows exactly the registered
\* instances, one node each, whatever the order in which restarted instances
\* came and expired (etcd.cc:66-118, rpc.cc:68-94,166-190).
THEOREM ViewExactHolds == Spec => []ViewExact
<1>1. Typed /\ Phased /\ View => ViewExact
  BY SettledView DEF View, Balanced, Quiet, ViewExact, Settled
<1> QED BY <1>1, TypedHolds, PhasedHolds, ViewHolds, PTL

-----------------------------------------------------------------------------
(* From the providers to the pool.  In the composition etcd changes by the *)
(* steps of Registry alone, but the consumer shares the bound on faults    *)
(* with it: what Registry keeps is shown again for every step.             *)
Advertised ==
    /\ \A p \in Keys : pc[p] \in {"arm", "kept"} /\ lease[p] \in live
                         => kv[p] = lease[p]
    /\ \A p \in Keys : pc[p] = "put" => lease[p] # NoLease
    /\ \A p \in Present : kv[p] \in live

LEMMA RegistryAdvertises ==
    ASSUME Reg!TypeOK, Advertised, Reg!Next
    PROVE  Advertised'
<1>0. /\ kv \in [Keys -> {Absent, NoLease} \cup 1 .. granted]
      /\ live \subseteq 1 .. granted /\ granted \in Nat
      /\ pc \in [Keys -> Reg!Stages]
      /\ lease \in [Keys -> 0 .. granted]
  BY DEF Reg!TypeOK, Reg!StoreTypeOK, Reg!Absent, Reg!NoLease, Absent, NoLease
<1> USE DEF Advertised, Present, Absent, NoLease, Reg!Goto, Reg!Absent, Reg!NoLease
<1>1. ASSUME NEW p \in Keys,
             \/ Reg!Start(p) \/ Reg!LeaseRefused(p) \/ Reg!HeartbeatStarts(p)
             \/ Reg!HeartbeatFails(p) \/ Reg!Leave(p)
      PROVE  Advertised'
  BY <1>0, <1>1
  DEF Reg!Start, Reg!LeaseRefused, Reg!HeartbeatStarts, Reg!HeartbeatFails, Reg!Leave,
      Reg!store
<1>2. ASSUME NEW p \in Keys, Reg!LeaseGranted(p) PROVE Advertised'
  BY <1>0, <1>2 DEF Reg!LeaseGranted, Reg!Grant
<1>3. ASSUME NEW p \in Keys, Reg!KeyPut(p) PROVE Advertised'
  BY <1>0, <1>3 DEF Reg!KeyPut, Reg!Put
<1>4. ASSUME NEW p \in Keys, Reg!PutRefused(p) PROVE Advertised'
  BY <1>0, <1>4 DEF Reg!PutRefused, Reg!Put
<1>5. ASSUME NEW l \in live, Reg!LeaseExpires(l) \/ Reg!LeaseLost(l) PROVE Advertised'
  BY <1>0, <1>5 DEF Reg!LeaseExpires, Reg!LeaseLost, Reg!Expire
<1> QED BY <1>1, <1>2, <1>3, <1>4, <1>5 DEF Reg!Next

LEMMA AdvertisedHolds == Spec => []Advertised
<1>1. Init => Advertised
  BY DEF Init, Reg!Init, Reg!StoreInit, Advertised, Present, Reg!Absent, Absent
<1>2. Typed /\ Advertised /\ [Next]_vars => Advertised'
  <2> SUFFICES ASSUME Typed, Advertised, [Next]_vars PROVE Advertised'
    OBVIOUS
  <2>1. CASE Provider
    BY <2>1, RegistryAdvertises DEF Provider, Typed, TypeOK
  <2>2. CASE Next /\ ~Provider
    BY <2>2, ClientLeavesStore DEF Advertised, Present
  <2>3. CASE UNCHANGED vars
    BY <2>3 DEF vars, store, provider, Advertised, Present
  <2> QED BY <2>1, <2>2, <2>3
<1> QED BY <1>1, <1>2, TypedHolds, PTL DEF Spec

\* Between the moments at which it has still something to take in, the pool
\* has a node for every instance with a good heartbeat: what the heartbeat
\* keeps is in etcd, what is in etcd is what the log says after its last
\* revision, and none of that is missing from the pool
\* (etcd.cc:14-56,66-118, rpc.cc:68-94).
THEOREM RunningIsFoundHolds == Spec => []RunningIsFound
<1>1. Typed /\ Logged /\ Phased /\ Advertised /\ NodesNotLost => RunningIsFound
  <2> SUFFICES ASSUME Typed, Logged, Phased, Advertised, NodesNotLost,
                      Settled, pos = Len(log),
                      \A i \in listed + 1 .. from : log[i].type # "PUT",
                      NEW s \in Wanted, NEW h \in Reliable
               PROVE  Entries(s, h) >= Cardinality(Running(s, h))
    BY DEF RunningIsFound
  <2>1. Entries(s, h) >= Number(Present, s, h)
    <3>1. PresentAfter(pos) = Present
      BY PresentIsKnown DEF Logged
    <3> QED BY <3>1 DEF NodesNotLost, Number
  <2> DEFINE R == {p \in Keys : pc[p] = "kept" /\ lease[p] \in live}
  <2>2. R \in SUBSET Present /\ Present \in SUBSET Keys /\ R \in SUBSET Keys
    <3>1. live \subseteq 1 .. granted
      BY DEF Typed, TypeOK, Reg!TypeOK, Reg!StoreTypeOK
    <3> QED BY <3>1 DEF Advertised, Present, Absent
  <2>3. Running(s, h) = OfferedBy(R, s, h)
    BY DEF Running
  <2> HIDE DEF R
  <2>4. Number(R, s, h) <= Number(Present, s, h) /\ Number(R, s, h) \in Nat
        /\ Number(Present, s, h) \in Nat
    BY <2>2, NumberFacts
  <2>5. Entries(s, h) \in Nat
    BY ViewTypes DEF Settled, Phased
  <2> QED BY <2>1, <2>3, <2>4, <2>5 DEF Number
<1> QED BY <1>1, TypedHolds, LoggedHolds, PhasedHolds, AdvertisedHolds, NodesNotLostHolds, PTL

\* The safety half of ViewConverges.
ViewCurrent ==
    Settled /\ Undisturbed /\ pos = Len(log) =>
      \A s \in Wanted, h \in Reliable :
        Entries(s, h) = Cardinality(OfferedBy(Present, s, h))

\* Whenever the consumer has caught up with etcd in an undisturbed watch, the
\* pool agrees with etcd itself and not only with the past that it was sent
\* (etcd.cc:66-118, rpc.cc:68-94).
THEOREM ViewCurrentHolds == Spec => []ViewCurrent
<1>1. Logged /\ ViewExact => ViewCurrent
  <2> SUFFICES ASSUME Logged, ViewExact, pos = Len(log)
               PROVE  PresentAfter(pos) = Present
    BY DEF ViewExact, ViewCurrent
  <2> QED BY PresentIsKnown DEF Logged
<1> QED BY <1>1, LoggedHolds, ViewExactHolds, PTL

-----------------------------------------------------------------------------
(* Where the addresses in the pool come from: on every stage of its way,   *)
(* from the log to a lookup, an address goes with a service for which some *)
(* PUT in the log has it.                                                  *)
PutIn(l, s, h) == \E n \in 1 .. Len(l) : /\ l[n].type = "PUT"
                                          /\ OfferedBy(l[n].keys, s, h) # {}

Traced ==
    /\ kind = "PUT" => \A k \in todo : PutIn(log, SvcOf[k], AddrOf[k])
    /\ \A t \in Threads : call[t].op = "append" => PutIn(log, call[t].svc, call[t].host)
    /\ \A s \in cares : \A i \in DOMAIN pool[s].nodes : PutIn(log, s, pool[s].nodes[i])

LEMMA KnownIsRegistered ==
    ASSUME Len(log) \in Nat, NEW n \in 0 .. Len(log), NEW k \in Known(log, n)
    PROVE  PutIn(log, SvcOf[k], AddrOf[k])
<1> DEFINE m == Max(About(log, n, k))
<1>1. /\ About(log, n, k) # {} /\ log[m].type = "PUT" /\ k \in Keys
      /\ About(log, n, k) \subseteq 1 .. n
  BY DEF Known, About
<1>2. m \in About(log, n, k)
  BY <1>1, MaxIsGreatest
<1> HIDE DEF m
<1>3. m \in 1 .. Len(log) /\ k \in log[m].keys
  BY <1>2 DEF About
<1> QED BY <1>1, <1>3 DEF PutIn, OfferedBy

LEMMA RegisteredStays ==
    ASSUME Grows, log \in Seq(Revisions), NEW s, NEW h, PutIn(log, s, h)
    PROVE  PutIn(log', s, h)
<1>1. PICK n \in 1 .. Len(log) : log[n].type = "PUT" /\ OfferedBy(log[n].keys, s, h) # {}
  BY DEF PutIn
<1>2. n \in 1 .. Len(log') /\ log'[n] = log[n]
  BY GrownLog
<1> QED BY <1>1, <1>2 DEF PutIn, OfferedBy

\* The nodes of a channel after a report, as far as their addresses go.
LEMMA AppendedNodes ==
    ASSUME NEW c \in Pool!Channel, NEW h \in Hosts, NEW i \in DOMAIN Pool!Appended(c, h).nodes
    PROVE  \/ Pool!Appended(c, h).nodes[i] = h
           \/ \E j \in DOMAIN c.nodes : Pool!Appended(c, h).nodes[i] = c.nodes[j]
<1> DEFINE q == c.nodes
<1>1. Pool!Appended(c, h).nodes = Append(q, h) /\ q \in Seq(Hosts)
  BY DEF Pool!Appended, Pool!Channel
<1>2. /\ Len(q) \in Nat /\ DOMAIN q = 1 .. Len(q)
      /\ DOMAIN Append(q, h) = 1 .. Len(q) + 1
      /\ \A j \in 1 .. Len(q) : Append(q, h)[j] = q[j]
      /\ Append(q, h)[Len(q) + 1] = h
  BY <1>1, AppendProperties, LenProperties
<1> HIDE DEF q
<1>3. i \in 1 .. Len(q) \/ i = Len(q) + 1
  BY <1>1, <1>2
<1> QED BY <1>1, <1>2, <1>3 DEF q

LEMMA RemovedNodes ==
    ASSUME NEW c \in Pool!Channel, NEW h, NEW i \in DOMAIN Pool!Removed(c, h).nodes
    PROVE  \E j \in DOMAIN c.nodes : Pool!Removed(c, h).nodes[i] = c.nodes[j]
<1> DEFINE q == c.nodes
           r == Pool!RemoveFirst(q, h)
<1>1. Pool!Removed(c, h).nodes = r /\ q \in Seq(Hosts)
  BY DEF Pool!Removed, Pool!Channel
<1>2. Len(q) \in Nat /\ DOMAIN q = 1 .. Len(q)
  BY <1>1, LenProperties
<1>3. CASE Places(q, h) = {}
  <2>1. r = q
    BY <1>2, <1>3 DEF Pool!RemoveFirst, Places
  <2> QED BY <2>1, <1>1
<1>4. CASE Places(q, h) # {}
  <2> HIDE DEF q
  <2>1. PICK k \in Places(q, h) :
          /\ r \in Seq(Hosts) /\ Len(r) = Len(q) - 1
          /\ \A j \in 1 .. Len(q) - 1 : r[j] = IF j < k THEN q[j] ELSE q[j + 1]
    BY <1>1, <1>4, RemoveFirstAt
  <2> HIDE DEF r
  <2>2. i \in 1 .. Len(q) - 1
    BY <2>1, <1>1, LenProperties
  <2>3. i \in DOMAIN q /\ i + 1 \in DOMAIN q
    BY <2>2, <1>2
  <2> QED BY <2>1, <2>2, <2>3, <1>1 DEF q
<1> QED BY <1>3, <1>4

\* How a step of the manager changes a pool, as far as addresses go: a node
\* was there before, or it is one that a callback brought.
LEMMA NodesComeFromCalls ==
    ASSUME Pool!TypeOK, [Pool!Next]_(Pool!vars),
           NEW s \in cares', NEW i \in DOMAIN pool'[s].nodes
    PROVE  \/ s \in cares /\ \E j \in DOMAIN pool[s].nodes : pool'[s].nodes[i] = pool[s].nodes[j]
           \/ \E t \in Threads : /\ call[t].op = "append" /\ call[t].svc = s
                                 /\ call[t].host = pool'[s].nodes[i]
<1> DEFINE Q == \/ s \in cares /\ \E j \in DOMAIN pool[s].nodes : pool'[s].nodes[i] = pool[s].nodes[j]
                \/ \E t \in Threads : /\ call[t].op = "append" /\ call[t].svc = s
                                      /\ call[t].host = pool'[s].nodes[i]
<1>0. /\ DOMAIN pool = cares /\ \A x \in cares : pool[x] \in Pool!Channel
      /\ call \in [Threads -> Pool!CallType]
      /\ \A t \in Threads : call[t] # Pool!Idle => call[t].svc \in cares
  BY DEF Pool!TypeOK
<1>1. ASSUME s \in cares, pool'[s].nodes = pool[s].nodes PROVE Q
  BY <1>1
<1>2. ASSUME NEW t \in Threads, NEW x \in Services, Pool!Declared(t, x) PROVE Q
  <2>1. /\ cares' = cares \cup {x}
        /\ pool' = [y \in cares \cup {x} |-> IF y \in cares THEN pool[y] ELSE Pool!NewChannel]
    BY <1>0, <1>2 DEF Pool!Declared
  <2>2. CASE s \in cares
    BY <2>1, <2>2
  <2>3. CASE s \notin cares
    <3>1. pool'[s].nodes = <<>>
      BY <2>1, <2>3 DEF Pool!NewChannel
    <3> QED BY <3>1
  <2> QED BY <2>2, <2>3
<1>3. ASSUME UNCHANGED <<cares, pool>> PROVE Q
  BY <1>3
<1>4. ASSUME NEW t \in Threads, Pool!AppendNode(t) PROVE Q
  <2>1. call[t].svc \in cares /\ call[t].host \in Hosts
    BY <1>0, <1>4 DEF Pool!AppendNode, Pool!CallType, Pool!Idle, Pool!Call, Pool!Lookups
  <2>2. /\ cares' = cares
        /\ pool' = [pool EXCEPT ![call[t].svc] = Pool!Appended(pool[call[t].svc], call[t].host)]
    BY <1>4 DEF Pool!AppendNode
  <2>3. CASE s = call[t].svc
    <3>1. pool'[s] = Pool!Appended(pool[s], call[t].host) /\ pool[s] \in Pool!Channel
      BY <2>1, <2>2, <2>3, <1>0
    <3>2. \/ pool'[s].nodes[i] = call[t].host
          \/ \E j \in DOMAIN pool[s].nodes : pool'[s].nodes[i] = pool[s].nodes[j]
      BY <2>1, <3>1, AppendedNodes
    <3> QED BY <2>1, <2>3, <3>2, <1>4 DEF Pool!AppendNode
  <2>4. CASE s # call[t].svc
    BY <2>2, <2>4, <1>0
  <2> QED BY <2>3, <2>4
<1>5. ASSUME NEW t \in Threads, Pool!RemoveNode(t) PROVE Q
  <2>1. call[t].svc \in cares
    BY <1>0, <1>5 DEF Pool!RemoveNode, Pool!Idle, Pool!Call
  <2>2. /\ cares' = cares
        /\ pool' = [pool EXCEPT ![call[t].svc] = Pool!Removed(pool[call[t].svc], call[t].host)]
    BY <1>5 DEF Pool!RemoveNode
  <2>3. CASE s = call[t].svc
    <3>1. pool'[s] = Pool!Removed(pool[s], call[t].host) /\ pool[s] \in Pool!Channel
      BY <2>1, <2>2, <2>3, <1>0
    <3>2. \E j \in DOMAIN pool[s].nodes : pool'[s].nodes[i] = pool[s].nodes[j]
      BY <3>1, RemovedNodes
    <3> QED BY <2>1, <2>3, <3>2
  <2>4. CASE s # call[t].svc
    BY <2>2, <2>4, <1>0
  <2> QED BY <2>3, <2>4
<1>6. ASSUME NEW t \in Threads, NEW r, NEW c, Pool!Finish(t, r, c),
             c.nodes = pool[call[t].svc].nodes
      PROVE  Q
  BY <1>0, <1>6 DEF Pool!Finish
<1>7. ASSUME NEW t \in Threads, Pool!PickNothing(t) \/ Pool!PickNode(t) PROVE Q
  <2>1. call[t].svc \in cares
    BY <1>0, <1>7 DEF Pool!PickNothing, Pool!PickNode, Pool!Lookups, Pool!Idle, Pool!Call
  <2>2. Pool!Rotated(pool[call[t].svc]).nodes = pool[call[t].svc].nodes
    BY <1>0, <2>1 DEF Pool!Rotated, Pool!Channel
  <2> QED BY <2>2, <1>6, <1>7 DEF Pool!PickNothing, Pool!PickNode
<1>8. ASSUME NEW t \in Threads, Pool!Other(t) PROVE Q
  <2>1. CASE Pool!AppendFails(t)
    BY <1>3, <2>1 DEF Pool!AppendFails
  <2>2. ASSUME NEW x \in Services,
               \/ Pool!Ignored(t, x) \/ Pool!LookupUnknown(t, x)
               \/ \E op \in Pool!Lookups : Pool!Lookup(t, op, x)
               \/ \E h \in Hosts : Pool!OnServiceOnline(t, x, h) \/ Pool!OnServiceOffline(t, x, h)
        PROVE  Q
    BY <1>3, <2>2
    DEF Pool!Ignored, Pool!vars, Pool!LookupUnknown, Pool!Lookup, Pool!OnServiceOnline,
        Pool!OnServiceOffline, Pool!Report
  <2> HIDE DEF Q
  <2> QED BY <1>2, <1>4, <1>5, <1>7, <1>8, <2>1, <2>2 DEF Pool!Other
<1>9. ASSUME UNCHANGED Pool!vars PROVE Q
  BY <1>3, <1>9 DEF Pool!vars
<1> HIDE DEF Q
<1>10. Q
  BY <1>7, <1>8, <1>9 DEF Pool!Next
<1> QED BY <1>10 DEF Q

LEMMA TracedHolds == Spec => []Traced
<1>1. Init => Traced
  BY DEF Init, Disc!Init, Pool!Init, Traced, Pool!Idle, Pool!Call
<1>2. Typed /\ Logged /\ Phased /\ Traced /\ [Next]_vars => Traced'
  <2> SUFFICES ASSUME Typed, Logged, Phased, Traced, [Next]_vars PROVE Traced'
    OBVIOUS
  <2>0. /\ Reg!TypeOK /\ Disc!TypeOK /\ Pool!TypeOK /\ log \in Seq(Revisions)
        /\ call \in [Threads -> Pool!CallType] /\ Watcher \in Threads
        /\ Len(log) \in Nat /\ pos \in Nat
    BY DiscoverySetting
    DEF Typed, TypeOK, Reg!TypeOK, Reg!StoreTypeOK, Disc!TypeOK, Pool!TypeOK, Revisions
  <2>1. Grows
    BY <2>0, EveryStepGrows
  <2>2. \A s, h : PutIn(log, s, h) => PutIn(log', s, h)
    BY <2>0, <2>1, RegisteredStays
  <2>3. kind' = "PUT" => \A k \in todo' : PutIn(log', SvcOf[k], AddrOf[k])
    <3>1. CASE kind' = kind /\ todo' \subseteq todo
      BY <3>1, <2>2 DEF Traced
    <3>2. CASE Watches /\ Disc!Lists
      <4>1. todo' = Known(log, Len(log))
        BY <3>2 DEF Disc!Lists, Disc!Present, Disc!Absent, Present, Absent, Logged
      <4> QED BY <4>1, <2>0, <2>2, KnownIsRegistered
    <3>3. CASE Watches /\ Disc!Receives
      <4>1. /\ pos + 1 \in 1 .. Len(log)
            /\ kind' = log[pos + 1].type /\ todo' = log[pos + 1].keys
        BY <3>3, <2>0 DEF Disc!Receives
      <4>2. ASSUME NEW k \in log[pos + 1].keys, log[pos + 1].type = "PUT"
            PROVE  PutIn(log, SvcOf[k], AddrOf[k])
        <5>1. k \in OfferedBy(log[pos + 1].keys, SvcOf[k], AddrOf[k])
          BY DEF OfferedBy
        <5> QED BY <4>1, <4>2, <5>1 DEF PutIn
      <4> QED BY <4>1, <4>2, <2>2
    <3> QED
      BY <3>1, <3>2, <3>3
      DEF Next, vars, client, Provider, Declares, Consumes, Watches, Breaks, Callback,
          CallbackReturns, Caller, Disc!Start, Disc!Watch, Disc!OpensWatcher, Disc!ListFails,
          Disc!WatchEnds, Disc!Closes, Disc!Reports
  <2>4. ASSUME NEW t \in Threads, call'[t].op = "append"
        PROVE  PutIn(log', call'[t].svc, call'[t].host)
    <3>1. CASE call'[t] = call[t]
      BY <3>1, <2>2, <2>4 DEF Traced
    <3>2. ASSUME NEW k \in Keys, Callback(k), call'[t] # call[t]
          PROVE  PutIn(log', call'[t].svc, call'[t].host)
      <4>1. /\ kind = "PUT" /\ k \in todo
            /\ call'[t].svc = SvcOf[k] /\ call'[t].host = AddrOf[k]
        BY <3>2, <2>0, <2>4
        DEF Callback, Disc!Reports, Pool!Ignored, Pool!vars, Pool!OnServiceOnline,
            Pool!OnServiceOffline, Pool!Report, Pool!Call
      <4> QED BY <4>1, <2>2 DEF Traced
    <3>3. CASE \E x \in Threads \ {Watcher} : Caller(x)
      <4>1. PICK x \in Threads \ {Watcher} : Caller(x)
        BY <3>3
      <4> QED BY <4>1, <3>1, <2>0, <2>4, CallerKeepsNodes DEF Pool!Reports
    <3>4. CASE CallbackReturns
      BY <3>1, <3>4, <2>0, <2>4
      DEF CallbackReturns, Pool!AppendNode, Pool!AppendFails, Pool!RemoveNode, Pool!Idle,
          Pool!Call
    <3> QED
      BY <3>1, <3>2, <3>3, <3>4
      DEF Next, vars, manager, Provider, Declares, Consumes, Watches, Breaks, Pool!Declared
  <2>5. ASSUME NEW s \in cares', NEW i \in DOMAIN pool'[s].nodes
        PROVE  PutIn(log', s, pool'[s].nodes[i])
    <3>1. [Pool!Next]_(Pool!vars)
      BY UsesManager DEF vars, manager, Pool!vars
    <3>2. \/ s \in cares /\ \E j \in DOMAIN pool[s].nodes : pool'[s].nodes[i] = pool[s].nodes[j]
          \/ \E t \in Threads : /\ call[t].op = "append" /\ call[t].svc = s
                                /\ call[t].host = pool'[s].nodes[i]
      BY <3>1, <2>0, NodesComeFromCalls
    <3>3. PutIn(log, s, pool'[s].nodes[i])
      BY <3>2 DEF Traced
    <3> QED BY <3>3, <2>2
  <2> QED BY <2>3, <2>4, <2>5 DEF Traced
<1> QED BY <1>1, <1>2, TypedHolds, LoggedHolds, PhasedHolds, PTL DEF Spec

\* A lookup that ends with an address has it from a node of its channel.
LEMMA LookupFindsInPool ==
    ASSUME Pool!TypeOK, [Pool!Next]_(Pool!vars), NEW t \in Threads,
           call[t].op \in Pool!Lookups, call'[t] = Pool!Idle, got'[t] \in Hosts
    PROVE  /\ call[t].svc \in cares
           /\ \E j \in DOMAIN pool[call[t].svc].nodes :
                pool[call[t].svc].nodes[j] = got'[t]
<1>0. /\ call \in [Threads -> Pool!CallType] /\ got \in [Threads -> Hosts \cup {None, Undefined}]
      /\ DOMAIN pool = cares
      /\ call[t] # Pool!Idle /\ call[t].svc \in cares
      /\ \A s \in cares : pool[s] \in Pool!Channel
  BY DEF Pool!TypeOK, Pool!Lookups, Pool!Idle, Pool!Call
<1>1. Pool!PickNothing(t) \/ Pool!PickNode(t)
  <2> USE DEF Pool!Lookups, Pool!Reports
  <2>1. ASSUME NEW x \in Threads, x # t, Pool!PickNode(x) \/ Pool!Other(x)
        PROVE  call'[t] = call[t]
    BY <2>1, <1>0
    DEF Pool!PickNode, Pool!Other, Pool!AppendNode, Pool!AppendFails, Pool!RemoveNode,
        Pool!PickNothing, Pool!Finish, Pool!Declared, Pool!Ignored, Pool!vars,
        Pool!LookupUnknown, Pool!Lookup, Pool!OnServiceOnline, Pool!OnServiceOffline,
        Pool!Report
  <2>2. CASE Pool!Other(t)
    BY <2>2, <1>0
    DEF Pool!Other, Pool!AppendNode, Pool!AppendFails, Pool!RemoveNode, Pool!Declared,
        Pool!Ignored, Pool!LookupUnknown, Pool!Lookup, Pool!OnServiceOnline,
        Pool!OnServiceOffline, Pool!Report, Pool!Enters
  <2> QED BY <2>1, <2>2, <1>0 DEF Pool!Next, Pool!vars
<1>2. None \notin Hosts /\ Undefined \notin Hosts
  BY ManagerSetting
<1>3. ~Pool!PickNothing(t)
  BY <1>0, <1>2 DEF Pool!PickNothing, Pool!Finish
<1> DEFINE c == pool[call[t].svc]
<1>4. got'[t] \in Pool!Read(c)
  BY <1>0, <1>1, <1>3 DEF Pool!PickNode, Pool!Finish
<1>5. c.next < Len(c.nodes) /\ got'[t] = c.nodes[c.next + 1]
  BY <1>2, <1>4 DEF Pool!Read
<1>6. c \in Pool!Channel
  BY <1>0
<1> HIDE DEF c
<1>7. c.next + 1 \in DOMAIN c.nodes
  <2>1. c.nodes \in Seq(Hosts) /\ c.next \in Nat
    BY <1>6 DEF Pool!Channel
  <2>2. Len(c.nodes) \in Nat /\ DOMAIN c.nodes = 1 .. Len(c.nodes)
    BY <2>1, LenProperties
  <2> QED BY <2>1, <2>2, <1>5
<1> QED BY <1>0, <1>5, <1>7 DEF c

\* Whoever asks for a service gets no address that was registered for another
\* one, or never: not while a callback is between the two mutexes, not after
\* a node was erased behind the cursor, and not when the watch has begun again
\* and listed instances that have gone meanwhile (etcd.cc:66-118,
\* rpc.cc:40-94,97-199).
THEOREM FoundWasRegisteredHolds == Spec => FoundWasRegistered
<1> DEFINE A == \A t \in Threads :
                  call[t].op \in Pool!Lookups /\ call'[t] = Pool!Idle /\ got'[t] \in Hosts
                    => Registered(call[t].svc, got'[t])
<1>1. Typed /\ Traced /\ [Next]_vars => A
  <2> SUFFICES ASSUME Typed, Traced, [Next]_vars, NEW t \in Threads,
                      call[t].op \in Pool!Lookups, call'[t] = Pool!Idle, got'[t] \in Hosts
               PROVE  Registered(call[t].svc, got'[t])
    OBVIOUS
  <2>1. Pool!TypeOK /\ [Pool!Next]_(Pool!vars)
    BY UsesManager DEF vars, manager, Pool!vars, Typed, TypeOK
  <2> QED BY <2>1, LookupFindsInPool DEF Traced, Registered, PutIn
<1>2. Typed /\ Traced /\ [Next]_vars => [A]_vars
  BY <1>1
<1>3. [][A]_vars => FoundWasRegistered
  BY DEF FoundWasRegistered
<1> QED BY <1>2, <1>3, TypedHolds, TracedHolds, PTL DEF Spec
=============================================================================
