-------------------------- MODULE Registry_proofs --------------------------
(***************************************************************************)
(* Theorems about Registry for any number of instances and of faults.      *)
(***************************************************************************)
EXTENDS Registry, SequenceTheorems, TLAPS

\* Steps of etcd keep the types of the store.
LEMMA ExpireTypes ==
    ASSUME TypeOK, NEW l, Expire(l), granted' = granted,
           faults' \in 0 .. MaxFaults
    PROVE  StoreTypeOK'
<1> DEFINE gone == {k \in Keys : kv[k] = l}
<1>1. Append(log, Revision("DELETE", gone)) \in
        Seq([type : {"PUT", "DELETE"}, keys : SUBSET Keys])
  BY AppendProperties DEF TypeOK, StoreTypeOK, Revision
<1> QED BY <1>1 DEF TypeOK, StoreTypeOK, Expire

LEMMA PutTypes ==
    ASSUME TypeOK, NEW k \in Keys, NEW l \in 0 .. granted, Put(k, l),
           granted' = granted, live' = live, faults' \in 0 .. MaxFaults
    PROVE  StoreTypeOK'
<1>1. Append(log, Revision("PUT", {k})) \in
        Seq([type : {"PUT", "DELETE"}, keys : SUBSET Keys])
  BY AppendProperties DEF TypeOK, StoreTypeOK, Revision
<1> QED BY <1>1 DEF TypeOK, StoreTypeOK, Put, NoLease

LEMMA FaultTypes ==
    ASSUME TypeOK, Fault
    PROVE  faults' \in 0 .. MaxFaults
BY StoreAssumption DEF TypeOK, StoreTypeOK, Fault

\* Every state has the types of TypeOK; in particular no instance holds a
\* lease that was not granted.
THEOREM TypeCorrect == Spec => []TypeOK
<1>1. Init => TypeOK
  BY StoreAssumption DEF Init, StoreInit, TypeOK, StoreTypeOK, Stages, NoLease
<1>2. TypeOK /\ [Next]_vars => TypeOK'
  <2> SUFFICES ASSUME TypeOK, [Next]_vars
               PROVE  TypeOK'
    OBVIOUS
  <2>0. /\ StoreTypeOK
        /\ pc \in [Keys -> Stages]
        /\ lease \in [Keys -> 0 .. granted]
    BY DEF TypeOK
  <2> USE DEF Goto, Stages
  <2>1. ASSUME NEW p \in Keys, Start(p) PROVE TypeOK'
    BY <2>0, <2>1 DEF Start, TypeOK, StoreTypeOK, store
  <2>2. ASSUME NEW p \in Keys, LeaseGranted(p) PROVE TypeOK'
    BY <2>0, <2>2 DEF LeaseGranted, Grant, TypeOK, StoreTypeOK
  <2>3. ASSUME NEW p \in Keys, LeaseRefused(p) PROVE TypeOK'
    BY <2>0, <2>3, FaultTypes DEF LeaseRefused, TypeOK, StoreTypeOK
  <2>4. ASSUME NEW p \in Keys, KeyPut(p) PROVE TypeOK'
    <3>1. StoreTypeOK'
      BY <2>0, <2>4, PutTypes DEF KeyPut, StoreTypeOK
    <3> QED BY <2>0, <2>4, <3>1 DEF KeyPut, TypeOK
  <2>5. ASSUME NEW p \in Keys, PutRefused(p) PROVE TypeOK'
    <3>1. StoreTypeOK'
      <4>1. CASE UNCHANGED <<kv, log>> /\ faults' \in 0 .. MaxFaults
        BY <2>0, <2>5, <4>1 DEF PutRefused, StoreTypeOK
      <4>2. CASE Put(p, lease[p]) /\ faults' \in 0 .. MaxFaults
        BY <2>0, <2>5, <4>2, PutTypes DEF PutRefused
      <4> QED BY <2>0, <2>5, <4>1, <4>2, FaultTypes DEF PutRefused, StoreTypeOK
    <3> QED BY <2>0, <2>5, <3>1 DEF PutRefused, TypeOK
  <2>6. ASSUME NEW p \in Keys, HeartbeatStarts(p) PROVE TypeOK'
    BY <2>0, <2>6 DEF HeartbeatStarts, TypeOK, StoreTypeOK, store
  <2>7. ASSUME NEW p \in Keys, HeartbeatFails(p) PROVE TypeOK'
    BY <2>0, <2>7, FaultTypes DEF HeartbeatFails, TypeOK, StoreTypeOK
  <2>8. ASSUME NEW p \in Keys, Leave(p) PROVE TypeOK'
    BY <2>0, <2>8 DEF Leave, TypeOK, StoreTypeOK, store
  <2>9. ASSUME NEW l \in live, LeaseExpires(l) PROVE TypeOK'
    <3>1. StoreTypeOK'
      BY <2>0, <2>9, ExpireTypes DEF LeaseExpires, StoreTypeOK
    <3> QED BY <2>0, <2>9, <3>1 DEF LeaseExpires, TypeOK
  <2>10. ASSUME NEW l \in live, LeaseLost(l) PROVE TypeOK'
    <3>1. StoreTypeOK'
      BY <2>0, <2>10, ExpireTypes, FaultTypes DEF LeaseLost, StoreTypeOK
    <3> QED BY <2>0, <2>10, <3>1 DEF LeaseLost, TypeOK
  <2>11. CASE UNCHANGED vars
    BY <2>0, <2>11 DEF vars, TypeOK, StoreTypeOK
  <2> QED BY <2>1, <2>2, <2>3, <2>4, <2>5, <2>6, <2>7, <2>8, <2>9, <2>10, <2>11
          DEF Next
<1> QED BY <1>1, <1>2, PTL DEF Spec

-----------------------------------------------------------------------------
(* HeartbeatAdvertises is not inductive: the heartbeat starts one step     *)
(* after the put, and the lease may be lost in between.  The inductive     *)
(* form begins with the put, which always names a lease.                   *)
Advertised ==
    /\ \A p \in Keys : pc[p] \in {"arm", "kept"} /\ lease[p] \in live
                         => kv[p] = lease[p]
    /\ \A p \in Keys : pc[p] = "put" => lease[p] # NoLease
    /\ KeysAreLeased

\* From its put on, an instance is in etcd under its newest lease for as long
\* as that lease is good, and no key in etcd hangs on a lease that is not.
THEOREM AdvertisedHolds == Spec => []Advertised
<1>1. Init => Advertised
  BY DEF Init, StoreInit, Advertised, KeysAreLeased, Present
<1>2. TypeOK /\ Advertised /\ [Next]_vars => Advertised'
  <2> SUFFICES ASSUME TypeOK, Advertised, [Next]_vars
               PROVE  Advertised'
    OBVIOUS
  <2>0. /\ kv \in [Keys -> {Absent, NoLease} \cup 1 .. granted]
        /\ live \subseteq 1 .. granted /\ granted \in Nat
        /\ pc \in [Keys -> Stages]
        /\ lease \in [Keys -> 0 .. granted]
    BY DEF TypeOK, StoreTypeOK
  <2> USE DEF Advertised, KeysAreLeased, Present, Goto, Absent, NoLease
  <2>1. ASSUME NEW p \in Keys,
               Start(p) \/ LeaseRefused(p) \/ HeartbeatStarts(p)
                 \/ HeartbeatFails(p) \/ Leave(p)
        PROVE  Advertised'
    BY <2>0, <2>1
    DEF Start, LeaseRefused, HeartbeatStarts, HeartbeatFails, Leave, store
  <2>2. ASSUME NEW p \in Keys, LeaseGranted(p) PROVE Advertised'
    BY <2>0, <2>2 DEF LeaseGranted, Grant
  <2>3. ASSUME NEW p \in Keys, KeyPut(p)
        PROVE  Advertised'
    BY <2>0, <2>3 DEF KeyPut, Put
  <2>4. ASSUME NEW p \in Keys, PutRefused(p)
        PROVE  Advertised'
    BY <2>0, <2>4 DEF PutRefused, Put
  <2>5. ASSUME NEW l \in live, LeaseExpires(l) \/ LeaseLost(l)
        PROVE  Advertised'
    BY <2>0, <2>5 DEF LeaseExpires, LeaseLost, Expire
  <2>6. CASE UNCHANGED vars
    BY <2>6 DEF vars
  <2> QED BY <2>1, <2>2, <2>3, <2>4, <2>5, <2>6 DEF Next
<1> QED BY <1>1, <1>2, TypeCorrect, PTL DEF Spec

\* A heartbeat that renews a good lease keeps its instance in etcd on that
\* lease, however many leases, calls and instances there were before.
THEOREM HeartbeatAdvertisesHolds == Spec => []HeartbeatAdvertises
<1>1. Advertised => HeartbeatAdvertises
  BY DEF Advertised, HeartbeatAdvertises
<1> QED BY <1>1, AdvertisedHolds, PTL

\* No key is ever in etcd without a lease that will expire, also when the
\* answer to the put was lost or its instance is gone.
THEOREM KeysAreLeasedHolds == Spec => []KeysAreLeased
<1>1. Advertised => KeysAreLeased
  BY DEF Advertised
<1> QED BY <1>1, AdvertisedHolds, PTL

-----------------------------------------------------------------------------
(* A lease belongs to one instance and so does a key, which hangs on no    *)
(* lease but one of its own, and on no lease hang two.                     *)
Owned ==
    /\ \A p, q \in Keys : lease[p] = lease[q] => p = q \/ lease[p] = NoLease
    /\ \A p, q \in Keys : kv[p] = lease[q] => p = q \/ kv[p] \notin live
    /\ \A p, q \in Keys : kv[p] = kv[q] => p = q \/ kv[p] \notin live

LEMMA OwnedHolds == Spec => []Owned
<1>1. Init => Owned
  BY DEF Init, StoreInit, Owned, Absent, NoLease
<1>2. TypeOK /\ Owned /\ [Next]_vars => Owned'
  <2> SUFFICES ASSUME TypeOK, Owned, [Next]_vars PROVE Owned'
    OBVIOUS
  <2>0. /\ kv \in [Keys -> {Absent, NoLease} \cup 1 .. granted]
        /\ live \subseteq 1 .. granted /\ granted \in Nat
        /\ pc \in [Keys -> Stages]
        /\ lease \in [Keys -> 0 .. granted]
    BY DEF TypeOK, StoreTypeOK
  <2> USE DEF Owned, Goto, Absent, NoLease
  <2>1. ASSUME NEW p \in Keys,
               Start(p) \/ LeaseRefused(p) \/ HeartbeatStarts(p)
                 \/ HeartbeatFails(p) \/ Leave(p)
        PROVE  Owned'
    BY <2>0, <2>1
    DEF Start, LeaseRefused, HeartbeatStarts, HeartbeatFails, Leave, store
  <2>2. ASSUME NEW p \in Keys, LeaseGranted(p) PROVE Owned'
    BY <2>0, <2>2 DEF LeaseGranted, Grant
  <2>3. ASSUME NEW p \in Keys, KeyPut(p) PROVE Owned'
    BY <2>0, <2>3 DEF KeyPut, Put
  <2>4. ASSUME NEW p \in Keys, PutRefused(p) PROVE Owned'
    BY <2>0, <2>4 DEF PutRefused, Put
  <2>5. ASSUME NEW l \in live, LeaseExpires(l) \/ LeaseLost(l) PROVE Owned'
    BY <2>0, <2>5 DEF LeaseExpires, LeaseLost, Expire
  <2>6. CASE UNCHANGED vars
    BY <2>6 DEF vars
  <2> QED BY <2>1, <2>2, <2>3, <2>4, <2>5, <2>6 DEF Next
<1> QED BY <1>1, <1>2, TypeCorrect, PTL DEF Spec

\* What is left of an abandoned instance is free to expire, however often it
\* registered before and whatever the others do: the lease of its key is its
\* own, and its own heartbeat has stopped (etcd.cc:16-39,50-55).
THEOREM AbandonedExpiresHolds == Spec => []AbandonedExpires
<1>1. Advertised /\ Owned => AbandonedExpires
  BY DEF Advertised, Owned, KeysAreLeased, AbandonedExpires, Renewed, Fresh, Present
<1> QED BY <1>1, AdvertisedHolds, OwnedHolds, PTL

-----------------------------------------------------------------------------
(* Registry and etcd keep the promise of Membership.                       *)

\* How an instance stands depends on its own stage and lease only.
LEMMA StandingStep ==
    ASSUME NEW p \in Keys,
           \A q \in Keys : q # p => /\ pc'[q] = pc[q]
                                    /\ lease'[q] \in live' <=> lease[q] \in live
    PROVE  Standing' = [Standing EXCEPT ![p] = Standing'[p]]
<1>1. \A q \in Keys : q # p => Standing'[q] = Standing[q]
  BY DEF Standing
<1>2. DOMAIN Standing = Keys /\ DOMAIN Standing' = Keys
  BY DEF Standing
<1>3. Standing = [q \in Keys |-> Standing[q]] /\ Standing' = [q \in Keys |-> Standing'[q]]
  BY DEF Standing
<1> QED BY <1>1, <1>2, <1>3

LEMMA StandingValues ==
    ASSUME NEW p \in Keys
    PROVE  /\ pc[p] \in {"new", "failed"} => Standing[p] = "out"
           /\ pc[p] = "gone" => Standing[p] = "gone"
           /\ pc[p] = "kept" /\ lease[p] \in live => Standing[p] = "in"
           /\ pc[p] = "kept" /\ lease[p] \notin live => Standing[p] = "joining"
           /\ pc[p] \in {"grant", "put", "arm"} => Standing[p] = "joining"
BY DEF Standing

\* What etcd shows of the instances is what Membership promises, for any number
\* of instances and faults: a key hangs on one lease, a lease has one key, and
\* so a lease that is lost takes one instance out of sight, and the late end
\* of an older lease none that is in.
THEOREM ImplementsMembershipHolds == Spec => ImplementsMembership
<1> USE DEF Members!mvars
<1>1. Init => Members!Init
  BY DEF Init, StoreInit, Members!Init, Present, Standing, Absent
<1>2. TypeOK /\ Advertised /\ Owned /\ [Next]_vars
        => [Members!Next]_(Members!mvars)
  <2> SUFFICES ASSUME TypeOK, Advertised, Owned, [Next]_vars
               PROVE  Members!Next \/ UNCHANGED <<Present, Standing, faults>>
    OBVIOUS
  <2>0. /\ kv \in [Keys -> {Absent, NoLease} \cup 1 .. granted]
        /\ live \subseteq 1 .. granted /\ granted \in Nat
        /\ pc \in [Keys -> Stages]
        /\ lease \in [Keys -> 0 .. granted]
    BY DEF TypeOK, StoreTypeOK
  <2> USE DEF Goto
  <2>1. ASSUME NEW p \in Keys, Start(p) PROVE Members!Next
    <3>1. Standing[p] = "out" /\ Standing'[p] = "joining"
      BY <2>0, <2>1, StandingValues DEF Start, Standing
    <3>2. Standing' = [Standing EXCEPT ![p] = "joining"]
      BY <2>0, <2>1, <3>1, StandingStep DEF Start, store
    <3>3. Members!Asks(p)
      BY <2>1, <3>1, <3>2 DEF Start, store, Present, Members!Asks, Members!Becomes
    <3> QED BY <3>3 DEF Members!Next
  <2>2. ASSUME NEW p \in Keys, LeaseGranted(p)
        PROVE  UNCHANGED <<Present, Standing, faults>>
    <3>1. Standing[p] = "joining" /\ Standing'[p] = "joining"
      BY <2>0, <2>2, StandingValues DEF LeaseGranted, Standing
    <3>2. \A q \in Keys : lease[q] # granted + 1
      BY <2>0
    <3>3. Standing' = [Standing EXCEPT ![p] = "joining"]
      BY <2>0, <2>2, <3>1, <3>2, StandingStep DEF LeaseGranted, Grant
    <3>4. Standing' = Standing
      BY <3>1, <3>3 DEF Standing
    <3> QED BY <2>2, <3>4 DEF LeaseGranted, Present
  <2>3. ASSUME NEW p \in Keys, LeaseRefused(p) PROVE Members!Next
    <3>1. Standing[p] = "joining" /\ Standing'[p] = "out"
      BY <2>0, <2>3, StandingValues DEF LeaseRefused, Standing
    <3>2. Standing' = [Standing EXCEPT ![p] = "out"]
      BY <2>0, <2>3, <3>1, StandingStep DEF LeaseRefused
    <3>3. Members!Accident(p)
      BY <2>3, <3>1, <3>2
      DEF LeaseRefused, Fault, Present, Members!Accident, Members!Becomes
    <3> QED BY <3>3 DEF Members!Next
  <2>4. ASSUME NEW p \in Keys, KeyPut(p) PROVE Members!Next
    <3>1. Standing[p] = "joining" /\ Standing'[p] = "joining"
      BY <2>0, <2>4, StandingValues DEF KeyPut, Standing
    <3>2. Standing' = [Standing EXCEPT ![p] = "joining"]
      BY <2>0, <2>4, <3>1, StandingStep DEF KeyPut
    <3>3. Standing' = Standing
      BY <3>1, <3>2 DEF Standing
    <3>4. Present' = Present \cup {p}
      BY <2>0, <2>4 DEF KeyPut, Put, Present, Absent, NoLease
    <3>5. Members!Shows(p)
      BY <2>4, <3>1, <3>3, <3>4 DEF KeyPut, Members!Shows
    <3> QED BY <3>5 DEF Members!Next
  <2>5. ASSUME NEW p \in Keys, PutRefused(p) PROVE Members!Next
    <3>1. Standing[p] = "joining" /\ Standing'[p] = "out"
      BY <2>0, <2>5, StandingValues DEF PutRefused, Standing
    <3>2. Standing' = [Standing EXCEPT ![p] = "out"]
      BY <2>0, <2>5, <3>1, StandingStep DEF PutRefused
    <3>3. CASE UNCHANGED <<kv, log, faults>>
      <4>1. Members!GivesUp(p)
        BY <3>1, <3>2, <3>3 DEF Present, Members!GivesUp, Members!Becomes
      <4> QED BY <4>1 DEF Members!Next
    <3>4. CASE Fault /\ UNCHANGED <<kv, log>>
      <4>1. Members!Accident(p)
        BY <3>1, <3>2, <3>4
        DEF Fault, Present, Members!Accident, Members!Becomes
      <4> QED BY <4>1 DEF Members!Next
    <3>5. CASE Fault /\ Put(p, lease[p])
      <4>1. Present' = Present \cup {p}
        BY <2>0, <3>5 DEF Put, Present, Absent, NoLease
      <4>2. Members!Accident(p)
        BY <3>1, <3>2, <3>5, <4>1 DEF Fault, Members!Accident, Members!Becomes
      <4> QED BY <4>2 DEF Members!Next
    <3> QED BY <2>5, <3>3, <3>4, <3>5 DEF PutRefused
  <2>6. ASSUME NEW p \in Keys, HeartbeatStarts(p)
        PROVE  Members!Next \/ UNCHANGED <<Present, Standing, faults>>
    <3>1. Standing[p] = "joining"
      BY <2>6, StandingValues DEF HeartbeatStarts
    <3>2. Standing' = [Standing EXCEPT ![p] = Standing'[p]]
      BY <2>0, <2>6, StandingStep DEF HeartbeatStarts, store
    <3>3. CASE lease[p] \in live
      <4>1. p \in Present
        BY <2>0, <2>6, <3>3 DEF HeartbeatStarts, Advertised, Present, Absent
      <4>2. Standing'[p] = "in"
        BY <2>0, <2>6, <3>3 DEF HeartbeatStarts, Standing, store
      <4>3. Members!Joins(p)
        BY <2>6, <3>1, <3>2, <4>1, <4>2
        DEF HeartbeatStarts, store, Present, Members!Joins, Members!Becomes
      <4> QED BY <4>3 DEF Members!Next
    <3>4. CASE lease[p] \notin live
      <4>1. Standing'[p] = "joining"
        BY <2>0, <2>6, <3>4 DEF HeartbeatStarts, Standing, store
      <4>2. Standing' = Standing
        BY <3>1, <3>2, <4>1 DEF Standing
      <4> QED BY <2>6, <4>2 DEF HeartbeatStarts, store, Present
    <3> QED BY <3>3, <3>4
  <2>7. ASSUME NEW p \in Keys, HeartbeatFails(p)
        PROVE  Members!Next \/ UNCHANGED <<Present, Standing, faults>>
    <3>1. Standing'[p] = "joining"
      BY <2>0, <2>7 DEF HeartbeatFails, Standing
    <3>2. Standing' = [Standing EXCEPT ![p] = "joining"]
      BY <2>0, <2>7, <3>1, StandingStep DEF HeartbeatFails
    <3>3. Standing[p] \in {"in", "joining"}
      BY <2>7, StandingValues DEF HeartbeatFails
    <3>4. CASE Fault
      <4>1. Members!Accident(p)
        BY <2>7, <3>2, <3>3, <3>4
        DEF HeartbeatFails, Fault, Present, Members!Accident, Members!Becomes
      <4> QED BY <4>1 DEF Members!Next
    <3>5. CASE lease[p] \notin live /\ UNCHANGED faults
      <4>1. Standing[p] = "joining"
        BY <2>7, <3>5, StandingValues DEF HeartbeatFails
      <4>2. Standing' = Standing
        BY <3>2, <4>1 DEF Standing
      <4> QED BY <2>7, <3>5, <4>2 DEF HeartbeatFails, Present
    <3> QED BY <2>7, <3>4, <3>5 DEF HeartbeatFails
  <2>8. ASSUME NEW p \in Keys, Leave(p) PROVE Members!Next
    <3>1. Standing[p] # "gone" /\ Standing'[p] = "gone"
      BY <2>0, <2>8 DEF Leave, Standing
    <3>2. Standing' = [Standing EXCEPT ![p] = "gone"]
      BY <2>0, <2>8, <3>1, StandingStep DEF Leave, store
    <3>3. Members!Goes(p)
      BY <2>8, <3>1, <3>2 DEF Leave, store, Present, Members!Goes, Members!Becomes
    <3> QED BY <3>3 DEF Members!Next
  <2>9. ASSUME NEW l \in live, LeaseExpires(l)
        PROVE  Members!Next \/ UNCHANGED <<Present, Standing, faults>>
    <3>1. \A q \in Keys : pc[q] = "kept" => lease[q] # l
      BY <2>9 DEF LeaseExpires, Renewed
    <3>2. /\ pc' = pc /\ lease' = lease /\ faults' = faults
          /\ live' = live \ {l}
          /\ kv' = [k \in Keys |-> IF kv[k] = l THEN Absent ELSE kv[k]]
      BY <2>9 DEF LeaseExpires, Expire
    <3>3. Standing' = Standing
      BY <3>1, <3>2 DEF Standing
    <3>4. CASE \E p \in Keys : kv[p] = l
      <4>1. PICK p \in Keys : kv[p] = l
        BY <3>4
      <4>2. \A q \in Keys : kv[q] = l => q = p
        BY <4>1 DEF Owned
      <4>3. Present' = Present \ {p}
        BY <3>2, <4>1, <4>2 DEF Present
      <4>4. Standing[p] # "in"
        BY <3>1, <4>1 DEF Standing, Advertised
      <4>5. Members!Fades(p)
        BY <3>2, <3>3, <4>3, <4>4 DEF Members!Fades
      <4> QED BY <4>5 DEF Members!Next
    <3>5. CASE ~ \E p \in Keys : kv[p] = l
      BY <3>2, <3>3, <3>5 DEF Present
    <3> QED BY <3>4, <3>5
  <2>10. ASSUME NEW l \in live, LeaseLost(l) PROVE Members!Next
    <3>1. PICK p \in Keys : lease[p] = l /\ pc[p] \in {"put", "arm", "kept"}
      BY <2>10 DEF LeaseLost, Renewed, Fresh
    <3>2. /\ pc' = pc /\ lease' = lease /\ Fault
          /\ live' = live \ {l}
          /\ kv' = [k \in Keys |-> IF kv[k] = l THEN Absent ELSE kv[k]]
      BY <2>10 DEF LeaseLost, Expire
    <3>3. l # NoLease
      BY <2>0 DEF NoLease
    <3>4. \A q \in Keys : q # p => lease[q] # l /\ kv[q] # l
      BY <3>1, <3>3 DEF Owned
    <3>5. Standing' = [Standing EXCEPT ![p] = Standing'[p]]
      BY <3>2, <3>4, StandingStep
    <3>6. Standing'[p] = "joining" /\ Standing[p] \in {"in", "joining"}
      BY <3>1, <3>2 DEF Standing
    <3>7. Present' \in {Present, Present \ {p}}
      <4>1. \A q \in Keys : q # p => kv'[q] = kv[q]
        BY <3>2, <3>4
      <4>2. kv'[p] = Absent \/ kv'[p] = kv[p]
        BY <3>2
      <4> QED BY <4>1, <4>2 DEF Present
    <3>8. Members!Accident(p)
      BY <3>2, <3>5, <3>6, <3>7 DEF Fault, Members!Accident, Members!Becomes
    <3> QED BY <3>8 DEF Members!Next
  <2>11. CASE UNCHANGED vars
    BY <2>11 DEF vars, Present, Standing
  <2> QED BY <2>1, <2>2, <2>3, <2>4, <2>5, <2>6, <2>7, <2>8, <2>9, <2>10, <2>11
          DEF Next
<1>3. Spec => [][Next]_vars
  BY PTL DEF Spec
<1> QED BY <1>1, <1>2, <1>3, TypeCorrect, AdvertisedHolds, OwnedHolds, PTL
        DEF Spec, ImplementsMembership, Members!Spec

=============================================================================
