------------------------------ MODULE Registry ------------------------------
(***************************************************************************)
(* The provider side of service registration (class Registry of etcd.cc).  *)
(* An instance asks etcd for a lease of three seconds, puts its address    *)
(* under a key of its own attached to the lease, and starts a heartbeat    *)
(* (etcd::KeepAlive) that renews the lease.  When the heartbeat fails its  *)
(* handler runs registry() again, once, with a fresh lease.  An instance   *)
(* that is restarted is another instance: its key has a new random id.     *)
(*                                                                         *)
(* Time is left out: a lease nobody renews may expire at any moment and    *)
(* does so eventually.  That a renewed lease expires, or the lease of an   *)
(* instance that is still registering (a client slower than the three      *)
(* seconds), is a fault, and the number of faults is bounded.              *)
(***************************************************************************)
EXTENDS EtcdStore

VARIABLES
    pc,     \* per instance, how far its call of registry() is
    lease   \* per instance, lease_id of its last call

vars == <<kv, live, granted, log, faults, pc, lease>>

Stages == {"new", "grant", "put", "arm", "kept", "failed", "gone"}

Init == /\ StoreInit
        /\ pc = [p \in Keys |-> "new"]
        /\ lease = [p \in Keys |-> NoLease]

Goto(p, stage) == pc' = [pc EXCEPT ![p] = stage]

\* The program calls registry(), for the first time or after it failed.
Start(p) == /\ pc[p] \in {"new", "failed"}
            /\ Goto(p, "grant")
            /\ UNCHANGED <<store, lease>>

\* Mutants of LeaseGranted: the id of another response is taken, or the
\* heartbeat is started before the key is put.
LeaseGrantedOther(p) ==
    /\ pc[p] = "grant"
    /\ Grant
    /\ lease' = [lease EXCEPT ![p] = granted + 2]
    /\ Goto(p, "put")
    /\ UNCHANGED <<kv, log, faults>>

LeaseGrantedNoPut(p) ==
    /\ pc[p] = "grant"
    /\ Grant
    /\ lease' = [lease EXCEPT ![p] = granted + 1]
    /\ Goto(p, "arm")
    /\ UNCHANGED <<kv, log, faults>>

LeaseGranted(p) ==
    /\ pc[p] = "grant"
    /\ Grant
    /\ lease' = [lease EXCEPT ![p] = granted + 1]
    /\ Goto(p, "put")
    /\ UNCHANGED <<kv, log, faults>>

\* leasegrant() fails: registry() returns false.
LeaseRefused(p) ==
    /\ pc[p] = "grant"
    /\ Fault
    /\ Goto(p, "failed")
    /\ UNCHANGED <<kv, live, granted, log, lease>>

\* Mutant of KeyPut: the lease is not passed to put().
KeyPutUnleased(p) ==
    /\ pc[p] = "put"
    /\ Put(p, NoLease)
    /\ Goto(p, "arm")
    /\ UNCHANGED <<live, granted, faults, lease>>

KeyPut(p) ==
    /\ pc[p] = "put"
    /\ Put(p, lease[p])
    /\ Goto(p, "arm")
    /\ UNCHANGED <<live, granted, faults, lease>>

\* put() fails: because the lease is gone, because the request was lost, or
\* because the answer was, when the key was put nevertheless.
PutRefused(p) ==
    /\ pc[p] = "put"
    /\ \/ lease[p] \notin live /\ UNCHANGED <<kv, log, faults>>
       \/ Fault /\ UNCHANGED <<kv, log>>
       \/ Fault /\ Put(p, lease[p])
    /\ Goto(p, "failed")
    /\ UNCHANGED <<live, granted, lease>>

\* The KeepAlive object is made and renews the lease from here on.
HeartbeatStarts(p) ==
    /\ pc[p] = "arm"
    /\ Goto(p, "kept")
    /\ UNCHANGED <<store, lease>>

\* Mutant of HeartbeatFails: the handler makes a heartbeat for the old lease.
HeartbeatRestarts(p) ==
    /\ pc[p] = "kept"
    /\ \/ lease[p] \notin live /\ UNCHANGED faults
       \/ Fault
    /\ Goto(p, "arm")
    /\ UNCHANGED <<kv, live, granted, log, lease>>

\* Another one: the handler still runs when the object is destroyed.
HeartbeatFailsLate(p) ==
    /\ pc[p] \in {"kept", "gone"}
    /\ \/ lease[p] \notin live /\ UNCHANGED faults
       \/ Fault
    /\ Goto(p, "grant")
    /\ UNCHANGED <<kv, live, granted, log, lease>>

\* The heartbeat finds its lease gone, or loses its connection while the
\* lease is still good; its handler calls registry() and drops the result.
HeartbeatFails(p) ==
    /\ pc[p] = "kept"
    /\ \/ lease[p] \notin live /\ UNCHANGED faults
       \/ Fault
    /\ Goto(p, "grant")
    /\ UNCHANGED <<kv, live, granted, log, lease>>

\* ~Registry() cancels the heartbeat and leaves the lease to expire; so does
\* the end of the process at any other moment.
Leave(p) == /\ pc[p] \notin {"new", "gone"}
            /\ Goto(p, "gone")
            /\ UNCHANGED <<store, lease>>

\* Mutant of Renewed: ~Registry() does not cancel the heartbeat.
RenewedAfterLeave == {lease[p] : p \in {q \in Keys : pc[q] \in {"kept", "gone"}}}

\* Leases that are renewed, and leases that were granted a moment ago.
Renewed == {lease[p] : p \in {q \in Keys : pc[q] = "kept"}}
Fresh   == {lease[p] : p \in {q \in Keys : pc[q] \in {"put", "arm"}}}

LeaseExpires(l) ==
    /\ l \in live \ (Renewed \cup Fresh)
    /\ Expire(l)
    /\ UNCHANGED <<granted, faults, pc, lease>>

LeaseLost(l) ==
    /\ l \in live \cap (Renewed \cup Fresh)
    /\ Fault
    /\ Expire(l)
    /\ UNCHANGED <<granted, pc, lease>>

\* What happens by itself once registry() is called.
Proceed(p) == LeaseGranted(p) \/ KeyPut(p) \/ HeartbeatStarts(p) \/ PutRefused(p)
                \/ (lease[p] \notin live /\ HeartbeatFails(p))

Next == \/ \E p \in Keys : \/ Start(p) \/ LeaseGranted(p) \/ LeaseRefused(p)
                           \/ KeyPut(p) \/ PutRefused(p) \/ HeartbeatStarts(p)
                           \/ HeartbeatFails(p) \/ Leave(p)
        \/ \E l \in live : LeaseExpires(l) \/ LeaseLost(l)

\* The client's own threads go on, and etcd lets an abandoned lease expire.
\* Nobody has to start, and nothing has to fail.
Fairness == /\ \A p \in Keys : WF_vars(Proceed(p))
            /\ WF_vars(\E l \in live : LeaseExpires(l))

Spec == Init /\ [][Next]_vars /\ Fairness

-----------------------------------------------------------------------------
TypeOK == /\ StoreTypeOK
          /\ pc \in [Keys -> Stages]
          /\ lease \in [Keys -> 0 .. granted]

\* An instance whose heartbeat renews a lease that is still good can be found
\* in etcd, on that lease: an older lease of the same instance that expires
\* late does not take the key away (etcd.cc:28-39).
HeartbeatAdvertises ==
    \A p \in Keys : pc[p] = "kept" /\ lease[p] \in live => kv[p] = lease[p]

\* No key outlives its lease, whatever registry() was doing when it failed.
KeysAreLeased == \A p \in Present : kv[p] \in live

Standing == [p \in Keys |->
    CASE pc[p] \in {"new", "failed"}           -> "out"
      [] pc[p] = "gone"                        -> "gone"
      [] pc[p] = "kept" /\ lease[p] \in live   -> "in"
      [] OTHER                                 -> "joining"]

Members == INSTANCE Membership WITH Instances <- Keys, shown <- Present,
                                    standing <- Standing, accidents <- faults

\* Who looks into etcd finds what Membership promises: an instance whose
\* heartbeat renews a good lease is there, one fault, of the network or of
\* etcd, takes away at most one of them, and neither the late end of an older
\* lease nor what another instance does takes any (etcd.cc:14-56).
ImplementsMembership == Members!Spec

\* What etcd still shows of an instance that is gone, or whose registry()
\* failed, hangs on a lease that nothing keeps from expiring: not the
\* instance's own heartbeat, nor that of any other (etcd.cc:16-39,50-55).
AbandonedExpires ==
    \A p \in Present : pc[p] \in {"failed", "gone"}
                         => kv[p] \in live \ (Renewed \cup Fresh)

\* An instance that is gone, or whose registry() failed and was not called
\* again, disappears from etcd for good, also when it had been put without
\* the client learning of it.
AbandonedVanishes ==
    \A p \in Keys : <>[](pc[p] \in {"failed", "gone"}) => <>[](kv[p] = Absent)

\* An instance that keeps running, and for which no call of registry() ends
\* in failure, is in etcd from some moment on.
RunningIsRegistered ==
    \A p \in Keys : \/ <>[](pc[p] = "new")
                    \/ []<>(pc[p] \in {"failed", "gone"})
                    \/ <>[](kv[p] # Absent)
=============================================================================
