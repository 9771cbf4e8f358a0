--------------------------- MODULE ServiceManager ---------------------------
(***************************************************************************)
(* The client side of the RPC layer (rpc.cc, rpc.h): a ServiceManager      *)
(* keeps one ServiceChannel (here: a channel) per declared service, and a  *)
(* channel keeps the nodes that offer the service and the cursor of its    *)
(* rotation.  Application threads look nodes up with choose() and          *)
(* getServiceHost(); the thread of the discovery client reports nodes with *)
(* onServiceOnline() and onServiceOffline().                               *)
(*                                                                         *)
(* A manager-wide mutex guards the two maps, a second mutex guards each    *)
(* channel.  A lookup keeps the manager's mutex while it works on the      *)
(* channel; a report gives it back before it touches the channel, so that  *)
(* its second half may run in the middle of a lookup.  Every critical      *)
(* section of a channel is one atomic step, so the channel's own mutex     *)
(* needs no variable.                                                      *)
(***************************************************************************)
EXTENDS Integers, FiniteSets, SequencesExt

CONSTANTS
    Services,     \* names of services
    Hosts,        \* addresses of nodes
    Unreachable,  \* hosts for which brpc::Channel::Init may fail
    Threads,      \* threads that call the manager
    None,         \* the empty ChannelPtr or optional
    Undefined,    \* what a read beyond the end of the vector yields
    Free,         \* the manager's mutex is not held
    MaxNodes      \* bound on the nodes of one service, arriving ones included

ASSUME PoolAssumption ==
    /\ Unreachable \subseteq Hosts
    /\ None \notin Hosts \cup Services
    /\ Undefined \notin Hosts
    /\ Free \notin Threads
    /\ MaxNodes \in Nat

VARIABLES
    cares,   \* _cares: the services somebody declared
    pool,    \* _services: a channel for every service that was emplaced
    lock,    \* the thread that holds the manager's mutex, or Free
    call,    \* per thread, the operation it is in the middle of
    got      \* per thread, what its last lookup returned

vars == <<cares, pool, lock, call, got>>

Lookups == {"choose", "getHost"}
Reports == {"append", "remove"}

Call(op, s, h) == [op |-> op, svc |-> s, host |-> h]
Idle == Call("idle", None, None)

-----------------------------------------------------------------------------
(* ServiceChannel: its operations on one channel.                          *)

NewChannel == [nodes |-> <<>>, next |-> 0]

Appended(c, h) == [c EXCEPT !.nodes = Append(@, h)]

\* Mutant of Removed: every entry with that host is erased.
RemovedAll(c, h) == [c EXCEPT !.nodes = SelectSeq(@, LAMBDA x : x # h)]

\* Only the first entry with that host is erased, and the cursor stays.
Removed(c, h) == [c EXCEPT !.nodes = RemoveFirst(@, h)]

\* Mutants of Rotated: the cursor is reduced by one too many, stands still,
\* or moves by two.
RotatedPastEnd(c) == [c EXCEPT !.next = (@ + 1) % (Len(c.nodes) + 1)]
RotatedNot(c)     == [c EXCEPT !.next = @ % Len(c.nodes)]
RotatedTwice(c)   == [c EXCEPT !.next = (@ + 2) % Len(c.nodes)]

\* `++_next %= size()`, only evaluated on a channel that has nodes.
Rotated(c) == [c EXCEPT !.next = (@ + 1) % Len(c.nodes)]

\* `_channels[_next]` with the subscript unchecked: beyond the end it reads
\* the remains of an erased entry, empty or dangling.
Read(c) == IF c.next < Len(c.nodes) THEN {c.nodes[c.next + 1]}
                                    ELSE {None, Undefined}

-----------------------------------------------------------------------------
Init == /\ cares = {}
        /\ pool = [s \in {} |-> NewChannel]
        /\ lock = Free
        /\ call = [t \in Threads |-> Idle]
        /\ got = [t \in Threads |-> None]

\* A thread that is between two calls gets the manager's mutex.
Enters(t) == call[t] = Idle /\ lock = Free

\* Mutant of Declared: the channel is not emplaced.
DeclaredOnlyCares(t, s) ==
    /\ Enters(t)
    /\ cares' = cares \cup {s}
    /\ UNCHANGED <<pool, lock, call, got>>

\* declared(): emplace() leaves a channel that is already there alone.
Declared(t, s) ==
    /\ Enters(t)
    /\ cares' = cares \cup {s}
    /\ pool' = [x \in DOMAIN pool \cup {s} |->
                  IF x \in DOMAIN pool THEN pool[x] ELSE NewChannel]
    /\ UNCHANGED <<lock, call, got>>

\* The early returns of onServiceOnline() and onServiceOffline().
Ignored(t, s) ==
    /\ Enters(t)
    /\ s \notin cares \/ s \notin DOMAIN pool
    /\ UNCHANGED vars

\* The nodes of s, those on their way into the channel included.
Arriving(s) == {t \in Threads : call[t].op = "append" /\ call[t].svc = s}

\* The locked half of onServiceOnline() and onServiceOffline(): the channel
\* is found and the manager's mutex given back.
Report(t, op, s, h) ==
    /\ Enters(t)
    /\ s \in cares /\ s \in DOMAIN pool
    /\ op = "append" => Len(pool[s].nodes) + Cardinality(Arriving(s)) < MaxNodes
    /\ call' = [call EXCEPT ![t] = Call(op, s, h)]
    /\ UNCHANGED <<cares, pool, lock, got>>

OnServiceOnline(t, s, h)  == Report(t, "append", s, h)
OnServiceOffline(t, s, h) == Report(t, "remove", s, h)

\* ServiceChannel::append() when the channel to the host initialises.
AppendNode(t) ==
    /\ call[t].op = "append"
    /\ pool' = [pool EXCEPT ![call[t].svc] = Appended(@, call[t].host)]
    /\ call' = [call EXCEPT ![t] = Idle]
    /\ UNCHANGED <<cares, lock, got>>

\* ServiceChannel::append() when it does not: the node is dropped.
AppendFails(t) ==
    /\ call[t].op = "append" /\ call[t].host \in Unreachable
    /\ call' = [call EXCEPT ![t] = Idle]
    /\ UNCHANGED <<cares, pool, lock, got>>

RemoveNode(t) ==
    /\ call[t].op = "remove"
    /\ pool' = [pool EXCEPT ![call[t].svc] = Removed(@, call[t].host)]
    /\ call' = [call EXCEPT ![t] = Idle]
    /\ UNCHANGED <<cares, lock, got>>

\* choose() and getServiceHost() for a service nobody declared.
LookupUnknown(t, s) ==
    /\ Enters(t)
    /\ s \notin DOMAIN pool
    /\ got' = [got EXCEPT ![t] = None]
    /\ UNCHANGED <<cares, pool, lock, call>>

\* The first half of choose() and getServiceHost(): the channel is found and
\* the manager's mutex kept.
Lookup(t, op, s) ==
    /\ Enters(t)
    /\ s \in DOMAIN pool
    /\ lock' = t
    /\ call' = [call EXCEPT ![t] = Call(op, s, None)]
    /\ UNCHANGED <<cares, pool, got>>

\* Mutant of Finish: the mutex is not given back.
FinishLocked(t, result, channel) ==
    /\ got' = [got EXCEPT ![t] = result]
    /\ pool' = [pool EXCEPT ![call[t].svc] = channel]
    /\ call' = [call EXCEPT ![t] = Idle]
    /\ UNCHANGED <<cares, lock>>

\* What ends a lookup: a channel without nodes gives nothing, any other one
\* gives the node under the cursor and moves the cursor on.
Finish(t, result, channel) ==
    /\ got' = [got EXCEPT ![t] = result]
    /\ pool' = [pool EXCEPT ![call[t].svc] = channel]
    /\ call' = [call EXCEPT ![t] = Idle]
    /\ lock' = Free
    /\ UNCHANGED cares

PickNothing(t) ==
    /\ call[t].op \in Lookups
    /\ LET c == pool[call[t].svc] IN c.nodes = <<>> /\ Finish(t, None, c)

PickNode(t) ==
    /\ call[t].op \in Lookups
    /\ LET c == pool[call[t].svc]
       IN c.nodes # <<>> /\ \E r \in Read(c) : Finish(t, r, Rotated(c))

\* Everything a thread may do but pick a node.
Other(t) ==
    \/ AppendNode(t) \/ AppendFails(t) \/ RemoveNode(t) \/ PickNothing(t)
    \/ \E s \in Services :
         \/ Declared(t, s) \/ Ignored(t, s) \/ LookupUnknown(t, s)
         \/ \E op \in Lookups : Lookup(t, op, s)
         \/ \E h \in Hosts : OnServiceOnline(t, s, h) \/ OnServiceOffline(t, s, h)

Next == \E t \in Threads : PickNode(t) \/ Other(t)

Spec == Init /\ [][Next]_vars

-----------------------------------------------------------------------------
Channel == [nodes : Seq(Hosts), next : Nat]

CallType == {Idle} \cup [op : Reports, svc : Services, host : Hosts]
                   \cup [op : Lookups, svc : Services, host : {None}]

\* Types, and: the two maps always hold the same services, and an operation
\* in progress works on a channel that is still in the map (nothing ever
\* takes a ServiceChannel out of _services).
TypeOK == /\ cares \subseteq Services
          /\ DOMAIN pool = cares
          /\ \A s \in cares : pool[s] \in Channel
          /\ lock \in Threads \cup {Free}
          /\ call \in [Threads -> CallType]
          /\ \A t \in Threads : call[t] # Idle => call[t].svc \in cares
          /\ got \in [Threads -> Hosts \cup {None, Undefined}]

\* The mutex of the manager is held exactly for the length of a lookup: at
\* most one lookup is in progress, and none ends with the mutex still held
\* (rpc.cc choose, getServiceHost).
LockDiscipline ==
    \A t \in Threads : lock = t <=> call[t].op \in Lookups

\* The cursor is a position of the channel, or the channel is as new.
CursorInRange(c) == c.next < Len(c.nodes) \/ c.next = 0

NodesOf == [s \in DOMAIN pool |-> pool[s].nodes]
GapsOf == {s \in DOMAIN pool : ~CursorInRange(pool[s])}

Directory == INSTANCE NodeDirectory
             WITH Nothing <- None, Garbage <- Undefined,
                  nodes <- NodesOf, gaps <- GapsOf, answer <- got

\* What the threads are promised: every answer is a node the service has at
\* that moment, or nothing if it has none, but for the first lookup after a
\* node was erased; two lookups in a row never miss, and a report takes or
\* gives one node however it falls between the halves of a lookup (rpc.cc
\* append, remove, choose, getHost, under the two mutexes).
ImplementsDirectory == Directory!Spec

\* Of all the operations on a channel only remove() takes the cursor out of
\* range, by erasing one node; and whenever the cursor moves, it moves to a
\* position of the channel, out of range before or not (rpc.cc choose,
\* getHost, append, remove; declared() of a service that has nodes already
\* must not touch them).
CursorDiscipline ==
    [][\A s \in cares :
         /\ s \in cares'
         /\ CursorInRange(pool[s]) /\ ~CursorInRange(pool'[s])
              => Len(pool'[s].nodes) = Len(pool[s].nodes) - 1
         /\ pool'[s].next # pool[s].next
              => pool'[s].nodes = pool[s].nodes /\ CursorInRange(pool'[s])]_vars

\* rpc.h:38 and :40 promise the channel, or the address, of a node: a lookup
\* of a service that has nodes returns one of them.
LookupFindsNode ==
    [][\A t \in Threads :
         call[t].op \in Lookups /\ call'[t] = Idle =>
           LET nodes == pool[call[t].svc].nodes
           IN nodes # <<>> => got'[t] \in Range(nodes)]_vars
=============================================================================
