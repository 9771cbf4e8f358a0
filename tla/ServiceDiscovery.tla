-------------------------- MODULE ServiceDiscovery --------------------------
(***************************************************************************)
(* Registration, etcd, discovery and the pool of nodes together, the way   *)
(* test/etcd_rpc/{registry,discovery}.cc put them together: providers      *)
(* register in etcd (Registry); a consumer declares the services it wants, *)
(* then watches etcd (Discovery) with ServiceManager's onServiceOnline and *)
(* onServiceOffline as callbacks, and looks nodes up (ServiceManager).     *)
(* A callback runs in the thread that took the event, which takes the next *)
(* one when the callback has returned.                                     *)
(***************************************************************************)
EXTENDS EtcdStore

CONSTANTS
    LossIs, Services, Hosts, Unreachable, Threads, None, Undefined, Free, MaxNodes,
    Watcher,   \* the thread that runs watch() and the callbacks
    Wanted,    \* the services the consumer declares before it watches
    SvcOf,     \* the service that a key names
    AddrOf     \* the address that is the value of a key

ASSUME DiscoverySetting == /\ LossIs \subseteq BOOLEAN
                           /\ Watcher \in Threads
                           /\ Wanted \subseteq Services
                           /\ SvcOf \in [Keys -> Services]
                           /\ AddrOf \in [Keys -> Hosts]
                           /\ IsFiniteSet(Keys)

\* What ServiceManager assumes of its constants.
ASSUME ManagerSetting == /\ Unreachable \subseteq Hosts
                         /\ None \notin Hosts \cup Services
                         /\ Undefined \notin Hosts
                         /\ Free \notin Threads
                         /\ MaxNodes \in Nat

VARIABLES
    pc, lease,                                       \* Registry
    stage, kind, todo, listed, from, pos, watches,   \* Discovery
    cares, pool, lock, call, got                     \* ServiceManager

Reg  == INSTANCE Registry
Disc == INSTANCE Discovery
Pool == INSTANCE ServiceManager

provider == <<pc, lease>>
client   == <<stage, kind, todo, listed, from, pos, watches>>
manager  == <<cares, pool, lock, call, got>>

vars == <<store, provider, client, manager>>

Init == Reg!Init /\ Disc!Init /\ Pool!Init

\* No callback is in progress.
Returned == call[Watcher] = Pool!Idle

Provider == Reg!Next /\ UNCHANGED <<client, manager>>

Declares(s) == /\ stage = "new" /\ s \notin cares
               /\ Pool!Declared(Watcher, s)
               /\ UNCHANGED <<store, provider, client>>

\* The steps of watch() that call nothing, and those that fail or stop it.
Watches == /\ Returned
           /\ \/ cares = Wanted /\ Disc!Start
              \/ Disc!Lists \/ Disc!OpensWatcher \/ Disc!Receives
           /\ UNCHANGED <<provider, manager>>

Breaks == /\ Returned
          /\ Disc!ListFails \/ Disc!WatchEnds \/ Disc!Closes
          /\ UNCHANGED <<provider, manager>>

\* Mutant of Callback: every key counts as one of the wanted service.
CallbackAnyService(k) ==
    /\ Disc!Reports(k)
    /\ \E s \in Wanted :
         \/ kind = "PUT" /\ Pool!OnServiceOnline(Watcher, s, AddrOf[k])
         \/ kind = "DELETE" /\ Pool!OnServiceOffline(Watcher, s, AddrOf[k])
    /\ UNCHANGED provider

\* A key is taken from the listing or the revision and its callback called.
Callback(k) ==
    /\ Disc!Reports(k)
    /\ \/ Pool!Ignored(Watcher, SvcOf[k])
       \/ kind = "PUT" /\ Pool!OnServiceOnline(Watcher, SvcOf[k], AddrOf[k])
       \/ kind = "DELETE" /\ Pool!OnServiceOffline(Watcher, SvcOf[k], AddrOf[k])
    /\ UNCHANGED provider

CallbackReturns ==
    /\ Pool!AppendNode(Watcher) \/ Pool!AppendFails(Watcher) \/ Pool!RemoveNode(Watcher)
    /\ UNCHANGED <<store, provider, client>>

\* The other threads of the consumer look nodes up.
Caller(t) ==
    /\ \/ \E s \in Services : \/ Pool!LookupUnknown(t, s)
                              \/ \E op \in Pool!Lookups : Pool!Lookup(t, op, s)
       \/ Pool!PickNothing(t) \/ Pool!PickNode(t)
    /\ UNCHANGED <<store, provider, client>>

Consumes == Watches \/ (\E k \in Keys : Callback(k)) \/ CallbackReturns

Next == \/ Provider
        \/ \E s \in Wanted : Declares(s)
        \/ Consumes \/ Breaks
        \/ \E t \in Threads \ {Watcher} : Caller(t)

\* Providers and etcd are fair as in Registry.  The consumer's thread goes on;
\* that it gets the manager's mutex in the end, although lookups take it again
\* and again, is strong fairness: a caller does other work between lookups.
Fairness == /\ \A p \in Keys : WF_vars(Reg!Proceed(p) /\ UNCHANGED <<client, manager>>)
            /\ WF_vars((\E l \in live : Reg!LeaseExpires(l))
                          /\ UNCHANGED <<client, manager>>)
            /\ SF_vars(Consumes)
            /\ \A t \in Threads \ {Watcher} :
                 WF_vars(call[t] # Pool!Idle /\ Caller(t))

Spec == Init /\ [][Next]_vars
FairSpec == Spec /\ Fairness

-----------------------------------------------------------------------------
\* The keys that are there after the first n revisions.
PresentAfter(n) ==
    {k \in Keys : LET about == {i \in 1 .. n : k \in log[i].keys}
                  IN about # {} /\ log[Max(about)].type = "PUT"}

OfferedBy(keys, s, h) == {k \in keys : SvcOf[k] = s /\ AddrOf[k] = h}

\* How many nodes with address h the pool of a declared service has.
Entries(s, h) ==
    IF s \in cares
    THEN Cardinality({i \in DOMAIN pool[s].nodes : pool[s].nodes[i] = h})
    ELSE 0

\* Hosts to which a channel always initialises.
Reliable == Hosts \ Unreachable

\* Everything the watcher has been sent was reported and taken in.
Settled == stage = "watching" /\ todo = {} /\ Returned

\* A key that is there already is put again: registry() ran a second time
\* before the first lease had expired.
PutAgain(i) == log[i].type = "PUT" /\ log[i].keys \cap PresentAfter(i - 1) # {}

\* One watch, nothing changed between its listing and its watcher, and no key
\* was put twice.
Undisturbed == /\ watches = 1 /\ from = listed
               /\ \A i \in listed + 1 .. pos : ~PutAgain(i)

-----------------------------------------------------------------------------
TypeOK == Reg!TypeOK /\ Disc!TypeOK /\ Pool!TypeOK

\* Undisturbed, the pool has exactly one node per registered instance as of
\* the revision the watcher has reached, also when an instance is restarted on
\* the same host and its successor's key arrives before the old one expires
\* (etcd.cc:66-118, rpc.cc:68-94).
ViewExact ==
    Settled /\ Undisturbed =>
      \A s \in Wanted, h \in Reliable :
        Entries(s, h) = Cardinality(OfferedBy(PresentAfter(pos), s, h))

\* Disturbed or not, and however often the watch was begun again, no node of
\* a registered instance is missing, unless its key was put after the listing
\* and before the watcher was open.
NodesNotLost ==
    Settled /\ (\A i \in listed + 1 .. from : log[i].type # "PUT") =>
      \A s \in Wanted, h \in Reliable :
        Entries(s, h) >= Cardinality(OfferedBy(PresentAfter(pos), s, h))

\* Instances of s at h whose heartbeat renews a lease that is still good.
Running(s, h) == OfferedBy({p \in Keys : pc[p] = "kept" /\ lease[p] \in live}, s, h)

\* From end to end: when the consumer has taken in all that etcd had to say,
\* the pool has a node for every instance whose heartbeat goes on, whatever
\* its registrations and the consumer's watches went through before
\* (etcd.cc:14-56,66-118, rpc.cc:68-94), the same gap excepted.
RunningIsFound ==
    Settled /\ pos = Len(log) /\ (\A i \in listed + 1 .. from : log[i].type # "PUT") =>
      \A s \in Wanted, h \in Reliable : Entries(s, h) >= Cardinality(Running(s, h))

\* Some instance of s was put into etcd with the address h, now or once.
Registered(s, h) ==
    \E n \in 1 .. Len(log) : /\ log[n].type = "PUT"
                             /\ OfferedBy(log[n].keys, s, h) # {}

\* The address that a lookup finds under the name of a service was registered
\* under that name, whatever comes and goes while the lookup holds a channel
\* and a callback is half done (etcd.cc:119-140, rpc.cc:68-94,97-199).
FoundWasRegistered ==
    [][\A t \in Threads :
         call[t].op \in Pool!Lookups /\ call'[t] = Pool!Idle /\ got'[t] \in Hosts
           => Registered(call[t].svc, got'[t])]_vars

\* The pool agrees with etcd itself in the end, when no watch ever breaks and
\* nothing disturbs the view.
ViewConverges ==
    <>[](stage = "watching" /\ Undisturbed) =>
      \A s \in Wanted, h \in Reliable :
        <>[](Entries(s, h) = Cardinality(OfferedBy(Present, s, h)))
=============================================================================
