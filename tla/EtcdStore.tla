----------------------------- MODULE EtcdStore -----------------------------
(***************************************************************************)
(* The etcd server as its clients in etcd.cc use it: leases, keys that are *)
(* attached to a lease, and the revisions that a watcher is sent.  This    *)
(* code is not part of the repository; what is modelled is what            *)
(* leasegrant(3), put(key, value, lease), ls("/") and a prefix watcher     *)
(* rely on.  The value of a key never changes (an instance registers one   *)
(* address under a key of its own), so that keys carry no value here.      *)
(***************************************************************************)
EXTENDS Integers, FiniteSets, SequencesExt

CONSTANTS
    Keys,       \* "/service/instance" keys, one per instance of a provider
    MaxFaults   \* bound on the failures of the network and of etcd

ASSUME StoreAssumption == MaxFaults \in Nat

VARIABLES
    kv,       \* per key, the lease it is attached to, NoLease or Absent
    live,     \* the leases that have not expired
    granted,  \* how many leases were granted, the number of the last one
    log,      \* the revisions, each a PUT or a DELETE of a set of keys
    faults    \* how often something failed so far

store == <<kv, live, granted, log, faults>>

NoLease == 0
Absent == -1

Revision(type, keys) == [type |-> type, keys |-> keys]

StoreInit == /\ kv = [k \in Keys |-> Absent]
             /\ live = {}
             /\ granted = 0
             /\ log = <<>>
             /\ faults = 0

Present == {k \in Keys : kv[k] # Absent}

Fault == faults < MaxFaults /\ faults' = faults + 1

Grant == granted' = granted + 1 /\ live' = live \cup {granted + 1}

\* A put fails when its lease has expired; put on a key that is there already
\* moves it to the new lease and makes a revision all the same.
Put(k, l) == /\ l \in live \cup {NoLease}
             /\ kv' = [kv EXCEPT ![k] = l]
             /\ log' = Append(log, Revision("PUT", {k}))

\* A lease ends and takes its keys with it, in one revision.
Expire(l) ==
    LET gone == {k \in Keys : kv[k] = l}
    IN /\ live' = live \ {l}
       /\ kv' = [k \in Keys |-> IF k \in gone THEN Absent ELSE kv[k]]
       /\ log' = IF gone = {} THEN log ELSE Append(log, Revision("DELETE", gone))

StoreTypeOK ==
    /\ kv \in [Keys -> {Absent, NoLease} \cup 1 .. granted]
    /\ live \subseteq 1 .. granted
    /\ granted \in Nat
    /\ log \in Seq([type : {"PUT", "DELETE"}, keys : SUBSET Keys])
    /\ faults \in 0 .. MaxFaults
=============================================================================
