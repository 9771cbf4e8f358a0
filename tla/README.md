# Verification of the VideoOnDemandSystem scaffold

The repository is the C++ scaffold of a video-on-demand service
(`src/cpp_scaffold/source`): a small library over brpc, etcd, RabbitMQ,
Elasticsearch, FFmpeg, FastDFS, libcurl, ODB and Redis from which the services
of the system are put together, with sample programs in `test/` and exercises
for the libraries in `practice/`. This directory holds TLA+ models of the
scaffold's own logic, TLC configurations that check them on small instances,
and TLAPS proofs about them.

## 1. The system

### 1.1 Components

**Pool of nodes** (`rpc.cc`: `ServiceChannel`, `ServiceManager`).
*State*: the services somebody declared (`_cares`), one channel per service
with a vector of nodes and a rotation cursor (`_services`, `_channels`,
`_next`), one mutex for the manager and one per channel.
*Operations*: `declared`, `onServiceOnline`, `onServiceOffline`, `choose`,
`getServiceHost`; on a channel `append`, `remove`, `choose`, `getHost`.
*Hard*: a report of a node gives the manager's mutex back before it touches the
channel, a lookup keeps it; the cursor is stored between calls while nodes come
and go. *Correct when*: the two maps agree, the mutex is held exactly for the
length of a lookup, the rotation is even, and a lookup of a service that has
nodes finds one.

**Registry** (`etcd.cc`). *State*: the lease id and the heartbeat object; in
etcd, a key per instance attached to a lease of three seconds. *Operations*:
`registry()` (grant a lease, put the key, start the heartbeat), the handler of a
failed heartbeat (calls `registry()` once), the destructor. *Hard*: each of
three remote calls may fail with its effect done or not done, the lease may
expire between them, the process may die between them, an older lease of the
same instance may expire after the new put. *Correct when*: an instance whose
heartbeat runs on a good lease can be found, no key outlives its lease,
abandoned keys vanish, running instances are registered in the end.

**Discovery** (`etcd.cc`). *State*: the watcher and the two callbacks.
*Operations*: `watch()` (list all keys, call the put callback for each, open a
watcher), `callBack()` (one callback per event), the handler of the end of a
watch (may call `watch()` again), the destructor. *Hard*: what happens between
the listing and the watcher; a watch that begins again. *Correct when*: the pool
of nodes mirrors what etcd has.

**RabbitMQ client** (`rabbitmq.cc`: `RabbitMQClient`, `Publisher`,
`Consumer`). *State*: connection and channel, the event loop and its thread, two
mutexes and a condition variable. *Operations*: `declareExchangeAndQueue`
(exchange, queue and binding requested by a chain of callbacks, twice for a
delayed queue), `publishMessage`, `consumeMessage`, `wait`, the destructor.
*Hard*: callbacks run in the loop thread; the caller waits without a predicate
on a condition variable that declarations and messages share; the notification
may come before the wait; the callbacks of an error notify first and abort the
process after that. *Correct when*: whoever has been constructed is bound, what
it publishes is queued, dead letters have a place to go, every wait ends.

**Elasticsearch client** (`elastic.cc`). *State*: a request is a tree of
elements (`Object`, `Array` and the classes derived from them) with values of
their own; the client has a list of hosts. *Operations*: the builders (which
find a child by key and class or create it), the setters, `value()`; `create`,
`insert`, `update`, `remove`, `search`. *Hard*: the caller keeps every element a
builder returned and goes on with any of them in any order, and several builders
lead to one element; keys are shared by values, objects and arrays; a clause is
found by its kind, whatever its field. *Correct when*: the request is one JSON
document, and everything written is in it.

**Playlists** (`ffmpeg.cc`: `M3U8Info`, with `Util::split`). *State*: the file;
per object the lines of the head and the pieces. *Operations*: construction,
`parse()`, the caller's edits through `lines()` and `pieces()`, `write()`.
*Hard*: `write()` truncates the file and then writes it line by line, nothing
locks it, `parse()` takes the size first and the content after that, the stream
is never checked, `split` skips empty tokens except for the last one.
*Correct when*: rewriting loses, doubles or moves no piece, and a
reader of a file that was cut sees a beginning of it.

**Calls with resources** (`fastdfs.cc`: `FastDFSClient`; `mail.cc`: `MailClient`;
`ffmpeg.cc`: `TransCoder`; `rpc.cc`: `ClosureFactory`, `RpcServerFactory`).
*State*: what each call has got from a library and not given back. *Operations*:
five transfers, `sendCode()`, `transCode()`, `createClosure()` with the run of
the closure, `createServer()`. *Hard*: an early return for each step that may
fail. *Correct when*: a call gives back what it got, on every path, and touches
nothing that it gave back.

**Logger** (`logger.cc`). *State*: a global pointer, null until `init_logger()`;
every other part logs through it. *Correct when*: the process survives.

**Util** (`util.cc`). *State*: the counter behind `get_uuid()`, one byte for the
process. Otherwise file I/O, JSON conversion and random characters.

**ODB and Redis factories**: build library objects from settings.

### 1.2 Interactions

* `test/etcd_rpc/registry.cc`: a provider starts an RPC server and calls
  `Registry::registry(service, address)`.
* `test/etcd_rpc/discovery.cc`: a consumer declares services in a
  `ServiceManager`, hands `onServiceOnline` and `onServiceOffline` to a
  `Discovery` as its callbacks, calls `watch()`, and looks nodes up. Registry and
  Discovery share nothing but etcd; Discovery and the application threads share
  the ServiceManager.
* `test/rabbitmq`: a `Publisher` and a `Consumer` take a `RabbitMQClient` by
  shared pointer; several may share one. The loop thread runs every callback.
* `Registry` makes its key with `Util::get_uuid()`, `M3U8Info` takes a file apart
  with `Util::split()`, and every part logs.
* The other components do not call each other.

## 2. Modules

| module | code | what it is |
|---|---|---|
| `NodeDirectory` | what `rpc.h` promises | the nodes of services as the threads that ask see them |
| `ServiceManager` | `rpc.cc`, `rpc.h` | the pool of nodes and its threads, implements `NodeDirectory` |
| `ServiceRotation` | `rpc.cc:43-66` | the pool with a history variable: who was served in this round |
| `EtcdStore` | external | leases, keys and revisions of etcd as `etcd.cc` relies on them |
| `Membership` | what `etcd.h` promises | who can be found, and what an accident takes away |
| `Registry` | `etcd.cc:10-48` | instances on top of `EtcdStore`, implements `Membership` |
| `Discovery` | `etcd.cc:58-118` | the client's steps of `watch()` and the watcher |
| `ServiceDiscovery` | all of these, as in `test/etcd_rpc` | Registry, EtcdStore, Discovery and ServiceManager composed |
| `RabbitMQClient` | `rabbitmq.cc` | declarations, publishing and consuming on one client |
| `RequestDocument` | what `elastic.h` promises | a request as a JSON document that is written to |
| `RequestTree` | `elastic.cc:5-515`, `elastic.h:11-348` | the tree of elements under its builders, implements `RequestDocument` |
| `Playlist` | `ffmpeg.cc:128-209`, `util.cc:33-53` | objects that parse, edit and rewrite one playlist |
| `Calls` | `fastdfs.cc`, `mail.cc`, `ffmpeg.cc:9-118`, `rpc.cc:18-37`, `rpc.cc:188-202`, `logger.cc` | what calls to libraries get, use and give back |
| `Identifiers` | `util.cc:59-88` | the counter behind the ids |
| `ScaffoldProcess` | the two above | threads that make calls and ask for ids |
| `MC...` | | settings and symmetry for TLC |
| `ServiceManager_proofs`, `ServiceRotation_proofs`, `Registry_proofs`, `RabbitMQClient_proofs`, `RequestTree_proofs`, `Playlist_proofs`, `ScaffoldProcess_proofs`, `ServiceDiscovery_proofs` | | theorems and proofs |

**ServiceManager.** `cares`, `pool`, `lock` are `_cares`, `_services` with the
channels, and the owner of `_mutex`; `call` and `got` are what each thread is
in the middle of and what its last lookup returned. A critical section of the
channel's own mutex is one step, so it needs no variable; the manager's mutex is
explicit, because a lookup keeps it over two steps (`Lookup`, then `PickNode` or
`PickNothing`) while a report gives it back (`Report`, then `AppendNode`,
`AppendFails` or `RemoveNode`). `_channels` and `_hosts` are changed together and
are one sequence. The subscript of `_channels[_next]` is not checked by the
code: beyond the end of the vector the read is undefined, and `Read` offers an
empty pointer or something dangling. What a channel does on the wire is not
modelled. `NodeDirectory` knows neither mutexes nor cursors: nodes come and go
one at a time, an answer is a node the service has at that moment, and a node
that goes may leave a gap into which one lookup, but no second one, falls
(`NodesOf`, `GapsOf`: a gap is a cursor out of range). A report that changes a
channel between the two halves of a lookup is a step before the answer.

**EtcdStore, Registry.** etcd is a map from keys to leases and a log of
revisions. `pc` says which of the three calls of `registry()` comes next,
`lease` is the lease id. Each remote call has its successful action and one for
its failure; `put` may fail after it took effect. Time is left out: a lease
nobody renews may expire at any moment; that a lease expires which is renewed or
was granted a moment ago is a fault. `Leave` is the destructor and the death of
the process alike, since the destructor only stops renewing. A restarted
instance has a new random id and so is another key, possibly with the same
address. `Membership` knows neither leases nor calls: an instance is out, joining,
in or gone, and shown or not. It is in (`Standing`) while its heartbeat renews a
good lease; one accident (a fault) takes one instance out of sight, which then
joins again.

**Discovery, ServiceDiscovery.** `Discovery` has the steps of the client;
`ServiceDiscovery` joins each step to etcd's state and each report of a key to
the call of the ServiceManager, in two halves as `rpc.cc` runs them, with
lookups of other threads in between. One thread takes the events, one after the
other. `cond`, with which a watch ends, is the library's business and takes
either value (`LossIs`).

**RabbitMQClient.** `at` is the call a thread makes next or is in, `phase` how
far it is (request made, asleep, notified), `owner` the holder of
`_declare_mutex` and `_cond_mutex`, which are taken together. `channel` is the
order in which the library answers; the callbacks of a trio append the next
request when the previous one is confirmed. `Sleep` comes after the request in a
step of its own, as in the code, so that an answer may precede it. A spurious
wakeup is an action of its own. An error closes the channel; the error callbacks
of a chain notify (`Refused`) and then call `abort()` (`Aborts`), and since the
loop thread is between the two, it answers nothing else there (`failing`), while
the thread it woke may return and publish. `Interferes` is a notification that
is no answer to a declaration; `disturbed` is history: whether such a one, or a
spurious wakeup, has ever ended the wait of a declaration. `consumers`, chosen at the beginning,
says which threads make a Consumer; the others make a Publisher. `built` is what
exists in the broker, which starts empty. A message in the queue of a delayed
configuration may expire at any time and goes to the dead-letter queue, or
nowhere when there is none yet.

**RequestTree, RequestDocument.** `elements` are the objects of C++ in the order
in which they are made, each with its class, `_key`, `_field` (of a clause), `_subs` and
`_value` (`own`). `handles` are the pointers that calls returned, with the class
of the pointer: `Next` is any call on any of them. A call runs through a record
`c` (elements, where the call has got to, `mixed`): `Sub` is a builder that looks
for a child first, `Item` one that does not, `Put` writes a value, and
composite calls (`Query::must`, `Indexer::field`, `Updater::add`,
`QArray::term`) chain them as the code does. The many builders without an
argument differ by class and key only and are a table (`Members`). The pointer
`_sub` of a range is the element after it, as its constructor makes it. `mixed` is a history variable: from the moment
a key of an object has two uses (a value and a child, children of two
classes, two children by `addElement`) the code drops one of them in silence and nothing is promised.
`Leaves` is `value()`: the values of the elements and, for an element that has
neither values nor children, `Null`. The abstract specification knows nothing of
elements: a document is a set of paths with values or nulls and begins as null; a
write adds values in one object only, keeps every value where it is, and never
makes one an inner node. What was null stays there as null, or has something
below it from then on.

**Playlist.** `file` is the disk; a line is one value, and only which kind of line
it is matters. `obj` is per object `_head`, `_pieces` and what `parse()` has
returned. `Take` is the body of the loop of `parse()`, `Read` adds that `split`
skips empty lines, `Scan` that it makes a token of what follows the last newline
whatever that is. `StartWrite` truncates, `WriteLine` writes one line, since
`std::endl` flushes each, and `WriteReturns` ends the call. `Crash` comes between
two lines. `DiskFull` may come in the middle of one: a line of which only a part
is there, or a part of it twice because `close()` tries again, is one of the
lines that the constant `Spoilt` gives for it, an address an address that is no
good, an `#EXTINF` line perhaps another one or a line of the head. Other objects
parse at any time, in two steps as `parse()` does it: `Measure` takes the size,
and with it what the file will give unless it is truncated; `Parse` reads and
takes apart. A truncation in between makes the reading `Stale`: `Misread` gives
what `parse()` may then find, any beginning of what has been written since, its
last line perhaps cut, with the rest of the size as NULs.
`target`, `durations` and `clean` are history: what the last `write()` was to
write, the pieces of the file at first, whether any rewriting was damaged.

**Calls.** The code of each operation is a table of steps (`Script`); a step has
what it gets, uses and gives back, and how it fails: it gives back what the
branch frees (`undo`), and returns, goes on, or leaves the loop. `Succeed` and
`Fail` run the tables, so that a path of the code is a path through its table.
`open` are the pairs of a call and a resource it has. `touched` and `refused` are
history: the calls that used or freed what they had not, and those that went on
after a step had failed, which only `sendCode()` does, when the option for the
recipients fails. A touch of what a call has
given back is undefined behaviour: the step goes either way, or the process dies
(`DiesTouching`). A message needs the pointer of `logger.cc`: without it the
process dies (`DiesLogging`), as it does when `init_logger()` is called again,
because spdlog throws for a name that is taken. The loop over the frames of a
video returns to its own first step; what is in a frame is left out.

**Identifiers, ScaffoldProcess.** `number_base` is the counter of `get_uuid()`, a byte
that wraps (`Width` is 256 in the code). `recent` remembers the numbers of the
last `Width` ids. The random characters before the number are not modelled, so
that nothing depends on their luck.

## 3. Runs

All runs are breadth-first and complete. Deadlock is checked in the runs of the
pool. In the others the system may stop: providers leave, watches
end, a client has made its calls or was aborted, a process has died, an object
holds all the lines it may, a request is complete.

| run | instance | shows |
|---|---|---|
| `pool` | 2 services, 2 hosts (one may fail to initialise), 2 threads, up to 3 nodes a service | types and agreement of the maps; `LockDiscipline`; `CursorDiscipline`: only an erased node takes a cursor out of range and every move brings it back; `RoundRobin` and its inductive form; `ImplementsDirectory` |
| `lookup` | the same, up to 2 nodes | a lookup reads beyond the vector (section 6) |
| `registry` | 2 instances, 2 faults, fair | `HeartbeatAdvertises`, `KeysAreLeased`, `AbandonedExpires`, `ImplementsMembership`; `AbandonedVanishes`, `RunningIsRegistered` |
| `view` | an instance and its successor at one address, 2 faults, watches begin again or not | `ViewExact`, `NodesNotLost`; `RunningIsFound`: who has caught up has a node for every instance whose heartbeat goes on |
| `converge` | a wanted and an unwanted service at two hosts, 1 fault, lookups for ever, fair | `ViewConverges`; `FoundWasRegistered`: what a lookup gives was registered for its service |
| `client` | three threads, any of them a publisher or a consumer: a delayed queue, a plain one, an unsupported exchange type; 2 messages, 1 refusal, 1 spurious wakeup, fair | `OneCaller`, `DeadLettersFirst`; `BoundUnlessDisturbed`: whoever has been constructed is bound, refusals included, as long as nothing else falls into the wait of a declaration; `PublishedIsQueued`; `ChainsGoOn`: no chain of callbacks breaks off in silence; `SleeperIsWoken` |
| `builder` | every class of request and an array of clauses made apart (as `test_base.cc:186` does), 1 name that is also a field, 5 elements, 2 values | `IsTree`, `WrittenIsSent`, `ImplementsDocument` |
| `lost` | a publisher alone | the wait never ends (section 6) |
| `early` | a publisher and a consumer of another queue, 2 messages | a constructor returns before its binding is there (section 6) |
| `process` | 2 threads, 3 calls of any of the operations, every step failing or not, a counter of 3 values | `LeftBehind`: exactly what each call leaves open, on every path; `StaleUse`: a call touches what it has freed exactly when its recipients were refused; `InitialisedLives`; `RecentIdsDiffer` |
| `rewrite` | 2 objects, a playlist of two pieces or one that is unfinished and unended, 2 faults | `NeverMixed`: the file is a beginning of what is written, and so is what a `parse()` reads that no truncation overtakes; `CutIsPrefix`: cut anywhere, it parses to the first pieces; `PiecesKept` |
| `cut` | 1 object, a playlist of two pieces, 1 crash | a cut playlist is taken as whole (section 6) |

**Bounds.** `MaxNodes` bounds the nodes of a service, those on their way
included. With three a round has a beginning, a middle and an end and a removal
can hit before, at and after the cursor; the same host may occur more than once.
The composed runs give it a value (8) they cannot reach, so that no report of a
node is held back by it. `MaxFaults` bounds the failures of network, etcd and
broker: with two, a second failure hits the recovery from the first. Two keys at
one address are the least in which a restart overlaps with the old
registration; two services the least in which one is ignored. `MaxMessages` is
two, so that one message can wake a thread and another one be left;
`MaxWakeups` is one, since a thread whose wait ended early goes on as any other.
`MaxElements` is five, the length of the longest path a single call makes
(`Indexer::tokenizer`), so that every builder runs with and without its
children there; two values tell a write that keeps others from one that does
not. One name is enough for keys to collide, as it names a child, a value and a
field alike. `MaxCalls` is three: two calls at once and one after them, which
finds what they have left; every path through every table of `Calls` is taken
by one call alone. `Width` is three, so that the counter wraps more than once.
`MaxLines` is four, two pieces or one with its head: an object that parses twice
holds a piece twice and then writes it, which is what `clean` excludes.
Its `MaxFaults` counts crashes, full disks, files that cannot be opened, readings
that a truncation has overtaken and second readings by one object; with two, a
file that was cut is read and written again, and that is cut too. `Spoilt` gives
an `#EXTINF` line as another one or as a line of the head, and any line as
another one (`Stumps`); a line of NULs is such a line too. Every
interleaving hazard of section 1 involves two actors and the shared state, and
the runs have two or three.

**Fairness.** The registry's client goes on once `registry()` is called and etcd
lets abandoned leases expire (weak fairness); nobody must start, and nothing must
fail. The consumer's thread needs the manager's mutex, which lookups take again
and again; that it gets it in the end is strong fairness, which a mutex gives in
practice because a caller does other work between lookups. For the same reason
callers of the RabbitMQ client have strong fairness (the two mutexes), and the
loop thread weak fairness. `SleeperIsWoken` says that a wait which began before
the answer ends, also that of a consumer with messages in its queue. `ViewConverges` is about watches that do not break,
as its own hypothesis says.

**Mutants.** Next to a definition some modules have a variant marked as a mutant,
a plausible bug of that code (no emplace, mutex not returned, modulus off by one,
the heartbeat restarted for the old lease, ...). They are not part of a
specification; exchanging one for its definition makes the property that is
meant to catch it fail.

## 4. Proofs

| theorem | for all values of the constants |
|---|---|
| `ServiceManager_proofs!TypeCorrect` | `TypeOK`: types, both maps hold the same services, an operation in progress works on a channel that is in the map |
| `...!LockDisciplineHolds` | the manager's mutex is held exactly during lookups |
| `...!CursorDisciplineHolds` | `CursorDiscipline`, an action property, from `TypeOK` |
| `...!ImplementsDirectoryHolds` | the pool implements `NodeDirectory` |
| `ServiceRotation_proofs!RotationImplementsManager` | the history variable only watches: behaviours of `RSpec` are behaviours of `ServiceManager!Spec` |
| `...!RoundIsArcHolds`, `...!RoundRobinHolds` | the positions read in a round are an arc; the rotation is a round robin |
| `Registry_proofs!TypeCorrect` | `TypeOK` |
| `...!HeartbeatAdvertisesHolds` | what a heartbeat renews is what etcd shows |
| `...!KeysAreLeasedHolds` | no key outlives its lease |
| `...!AbandonedExpiresHolds` | what is left of an abandoned instance hangs on a lease that nobody renews |
| `...!ImplementsMembershipHolds` | Registry on etcd implements `Membership` |
| `ServiceDiscovery_proofs!ImplementsManager` | the composition is a use of `ServiceManager`: what is proved of it under any use holds here |
| `...!TypeCorrect` | `TypeOK` of the three components in their composition |
| `...!ViewExactHolds`, `...!NodesNotLostHolds` | the pool and etcd agree when nothing disturbs the watch; disturbed, no node is missing |
| `...!ViewCurrentHolds` | who has caught up in an undisturbed watch counts what etcd shows now |
| `...!RunningIsFoundHolds` | from heartbeat to pool: who has caught up has a node for every running instance |
| `...!FoundWasRegisteredHolds` | no lookup gives an address that was not registered for its service |
| `RabbitMQClient_proofs!TypeCorrect`, `...!OneCallerHolds` | `TypeOK`; a thread is in a call exactly while it holds the mutexes |
| `...!DlxInvHolds`, `...!DeadLettersFirstHolds` | no message of a delayed queue expires into nowhere |
| `...!ChainsGoOnHolds` | no chain of callbacks breaks off in silence |
| `...!BoundUnlessDisturbedHolds`, `...!PublishedIsQueuedHolds` | as long as nothing falls into the wait of a declaration, whoever has been constructed is bound, up to the one that was refused, before the process aborts; and what a publisher publishes is queued |
| `ScaffoldProcess_proofs!TypeCorrect` | `TypeOK`, and a call has ended exactly when no thread is in it |
| `...!LeftBehindHolds` | what each call leaves open, on every path |
| `...!StaleUseHolds`, `...!InitialisedLivesHolds` | a call touches what it has freed exactly when its recipients were refused; what a process dies of |
| `...!ProcessImplementsCalls` | asking for ids does not interfere with calls |
| `...!RecentIdsDifferHolds` | ids in a row differ, for a counter of any width |
| `Playlist_proofs!TypeCorrect`, `...!NeverMixedHolds` | types; the file, and what is read of it that no truncation overtakes, is a beginning of what is written |
| `...!CutIsPrefixHolds` | a playlist cut anywhere, in the middle of a line too, parses to its first pieces |
| `...!PiecesKeptHolds` | however often it is rewritten, no piece is lost, doubled or moved |
| `RequestTree_proofs!TypeCorrect` | `TypeOK`: every pointer the caller has is of the class a builder promised, `_sub` of a range is an object |
| `...!IsTreeHolds`, `...!WrittenIsSentHolds` | the elements are a tree; what is written is sent unless a key has two uses |
| `...!ValueIsExactHolds` | what `value()` writes are the elements' own values and the nulls of empty elements, each at the place of its element |
| `...!ImplementsDocumentHolds` | a request implements `RequestDocument` |

*Round robin.* `RoundRobin` alone is not inductive: that the cursor is not among
the served positions says nothing of where it goes next. The strengthening
`RoundIsArc` says that the positions served in a round are an arc that ends just
before the cursor. A lookup prolongs the arc by the position under the cursor;
when that makes it the whole channel a new round begins, otherwise the next
position is outside of it. A change of the nodes empties it. `served` is compared
with the channel of a service, so the step needs `TypeOK` for the channel to be
there. The theorem quantifies over positions, hence over every number of nodes;
`MaxNodes` only bounds it by a natural number.

*Directory.* The mapping keeps the vectors and turns a cursor into "there is a gap
or not". Only `TypeOK` is needed: that the channel of an operation in progress
is still there. What has to be shown is how each operation moves a cursor
relative to the length of the vector (`CursorOps`, `GapOps`): erasing one entry
may take it out of range and never brings it back, appending the opposite, and a
rotation always brings it back, so that a miss is never followed by another.

*Heartbeat.* `HeartbeatAdvertises` speaks of instances whose heartbeat runs,
and the step that starts one needs to know that the key is there already. The
inductive invariant (`Advertised` in `Registry_proofs`) therefore claims it from
the put on, adds that a call that is about to put has a lease (so that the key
is never put without one), and that every key hangs on a lease that is good.
The point is the late expiry of an older lease of the same instance: it takes
away the keys on that lease, and the newer put has moved the key. `TypeOK` is
used for the numbering: a lease that is granted now is on no key yet.

*Membership.* That a lease which ends takes away one instance at most needs a
second invariant (`Owned`): no two instances hold one lease, no key hangs on
another's, and no two keys hang on one, as long as that lease is good. With it
`AbandonedExpires` follows, since only the instance itself could renew the lease
its key is on, and every step of Registry is one of `Membership` or a stutter:
a lease that ends without a fault is nobody's heartbeat, hence by `Advertised`
not the one under which an instance is in.

*View.* `ViewExact` and `NodesNotLost` speak of a client that has taken in all
it was sent. In between, a listing or a revision is partly reported, and the
report of one key may be in a callback. The invariant (`View` in
`ServiceDiscovery_proofs`) is a balance, for each wanted service and reliable
address: while keys are coming, the nodes in the pool and the reports under way
make up the keys the client has reached; while keys are going, the nodes are
those keys and the reports under way together. It is an equation while the view
is quiet and an inequality while there is only no gap. A callback that begins
moves a key from the listing or revision to the thread, one that returns moves
it to the pool; a revision that arrives changes both sides by its keys. For a
put that is so only if the key was not there (else the inequality is left), for
a deletion only because a revision takes away nothing that was not there.
`Logged` says so, and that the log ends at what etcd shows; `Phased` says in
which stage of the watch which callback can be under way, that lookups of other
threads are never callbacks, and that the pool is empty when the first listing
arrives. The keys after n revisions are defined by the last revision that names a
key; `KnownNext` turns that into the step from n to n + 1, so that no induction
over the log is needed. That `removeNode` takes away one occurrence of the address, whatever
the order of the nodes, is `CountRemoveFirst`. The number of keys enters as
finite: a cardinality means nothing otherwise.

*From end to end.* `RunningIsFound` puts the two halves together: `Advertised`
holds in the composition too (`RegistryAdvertises`, `AdvertisedHolds`), so that
a running instance is in etcd; `Logged` says that etcd is what the log ends at;
and `NodesNotLost` that nothing of what was taken in is missing. `ViewCurrent` is
the equation, from `ViewExact`. `FoundWasRegistered` follows a node in the other
direction: the invariant (`Traced`) says that every node of the pool, and every
report under way, has a PUT for its service in the log. Keys enter a listing only by
a PUT (`KnownIsRegistered`), the log only grows, and the operations on a
channel add no node but the reported one.

*Dead letters first.* A wait may end early, so that a thread asks for the normal
trio while the dead-letter one is not finished, or another thread with the same
configuration asks for either at any time. What saves the delayed queue is the
order of the channel. The inductive invariant (`DlxAhead`) says of every step of
a normal chain, asked for or done, that the corresponding step of the dead-letter
chain is done, or is asked for earlier in the channel: each answer moves both
chains by one request to the end of the channel and so keeps their order. A new
normal chain begins behind a dead-letter chain because `declareExchangeAndQueue`
makes its calls in that order.

*Chains.* `ChainsGoOn` is inductive with `TypeOK`. A request that is answered was
at the head of the channel; if it is of the kind some thread waits for, the
next of its chain is put in, or what was asked for is there with the last. That
several threads may wait for the same trio is no harm: each of them is served by
any of the chains.

*Publishers.* `BoundUnlessDisturbed` speaks of a client where nothing but answers
to declarations has ended the wait of one. A thread that was notified has to know
that its own binding was answered, not another's. The invariant (`AloneInv`) says
that every request in the channel is a message of a constructed publisher
(`OwnMessage`), a consumer's, or belongs to the trio that the owner of the mutexes
waits for (`OwnChain`), and that there is at most one of the latter; since the next
request is made when the one before is answered, the answer that notifies is the
answer to the thread's own binding. A refusal notifies as well, and the thread
goes on, returns and perhaps publishes, until the loop thread gets to `abort()`.
`Misled` are the threads that take for complete what is not: the invariant says
that there is at most one, and only when a declaration has failed, so that the
loop answers nothing more. What is built stays, and so the message of a
constructed publisher is routed.

*Calls.* `LeftBehind` looks at a call that has ended; the invariant says of a
call under way what it has got at the step it is at. `Own` in `ScaffoldProcess_proofs`
is that table, and `Fits` what it takes for one step to lead from one entry to the next on
success and to `Remains` on failure: a finite check of each table of the code. The steps of
other threads change nothing that belongs to this call, for any number of them.
The one call that leaves its table is `sendCode()` after the recipients were
refused: it goes on with nothing, and every path from there ends with nothing
open. `StaleUse` is read off the same table: a call that is not in `refused` has
at every step what the step uses, and one that is has nothing any more, while
each of the steps ahead of it uses something. A `recent` of at most `Width` numbers is consecutive modulo `Width` and
ends just before the counter, from which distinctness follows.

*Playlists.* That `write()` is read back as it was meant is an induction over
lines (`RoundTrip`): the head holds no `#EXTINF` and no end, so that the parser
reads it as a head; then each pair of lines gives one piece. `CutLemma` is the
same for a beginning of the lines: the parser of the cut file follows that of the
whole file, and its last token, the empty one, can only complete a piece that the
whole file has. `SpoiltLemma` adds a last line of which a part is missing: it may
be taken for the address of a piece that has begun, for the beginning of the piece
that the whole line begins, or for a line of the head, and for no piece that is
not there, because `Spoilt` makes an `#EXTINF` line of nothing else
(`PlaylistAssumption`). `NeverMixed` follows both the file and what objects have
measured: a file that only grows stays one of which a measured part is a
beginning, and a truncation makes every reading stale.
The induction theorem of the library takes an operator; these proofs use one for
sets of numbers instead (`Induction`), which follows from the well-foundedness of `<`.
`PiecesKept` then needs that every object which may write holds the pieces the
file had, which `clean` provides.

*Requests.* The invariant (`RequestInv`) joins four things because each step needs the
others: the shape of the elements (children are elements, a range is followed by its
object), the tree, that all is sent or a mix was reported, and that the caller's
pointers point to elements of their class, from which a call knows what it
works on. A call is a chain of builders, so the lemmas are about one builder
that begins where another has got to (`Reaches`), and each action is a chain of
them. The heart is what a new element does to the edges of the tree (`AddedEdges`) and
that its place was free (`NewOk`): a builder that searches has found the key
unused or reports the mix, an array always has a place, and the object that
wraps a clause is new. Names are arbitrary: nothing is assumed that would keep
them apart from fields or from the builders' own keys.

*Documents.* `value()` is a recursive function of the tree, and what it returns is
found by induction, over numbers as above. Each element has one place, the path of
keys from the root to it (`PlacesExist`, since children come after their parents in
`elements`), and no two have the same (`PlacesDiffer`, since a key has one use and
an element one parent). The leaves are exactly the elements' own values, and the
nulls of elements that have nothing, at their places (`ValueIsExact`), which turns a statement about the recursion into one about
single elements: that the values of a call go to one object, that no path with a
value is lost and a path with a null only to what is below it, and that none is
the beginning of another, is then read off what one call does to the elements
(`Kept`).

The proofs rest on the named assumptions of the constants (`PoolAssumption`,
`StoreAssumption`, `ClientAssumption`, `RequestAssumption`, `PlaylistAssumption`,
`StartsAssumption`: each piece of the playlist has an address at first,
`CallsAssumption`, `IdentifiersAssumption`, and `DiscoverySetting` and
`ManagerSetting` of the composition), which TLC evaluates in every run.

*Model-checked only.* Liveness (`AbandonedVanishes`, `RunningIsRegistered`,
`ViewConverges`, `SleeperIsWoken`), because fairness and ENABLED are out of the
prover's reach. Of each of them the safety half is proved: `AbandonedExpires` (the
lease may expire), `HeartbeatAdvertises` and `ImplementsMembership` (who is in
stays), `ViewCurrent` (who has caught up agrees), `ChainsGoOn` (the answer that wakes
is on its way).

## 5. What is not modelled

* `ESClient`: each call is one HTTP request of the library, whose status is
  compared with a range; the client keeps no state between calls, so that there
  is nothing for a model to get wrong.
* The ODB and Redis factories, `FastDFSClient::init` and `destroy`, constructor
  and destructor of `MailClient`: one or a few library calls each.
* Requests: attaching one element in two places, or under itself, with
  `addElement` (no builder and no sample does); `Request`'s four names.
* RabbitMQ: `wait()` and the destructor, which end with the loop of the process.
  All clients of a process share `EV_DEFAULT`; two of them run it in two
  threads, which is a data race inside libev and has no meaning to model.
  Callbacks that call their own client.
* Playlists: two `write()` at once, which would mix bytes; a caller that writes
  what `parse()` refused, or whose new lines break the format.
* Discovery: destruction while a callback runs, more than one Discovery.
* `practice/` (exercises and vendored libraries) and `test/` (samples that need
  live servers; they say how the parts are used). Most lines of the repository
  are there: a vendored HTTP library, a vendored speech SDK, generated protobuf
  and ODB code. The scaffold itself has about 2700 lines.

## 6. Disagreements between code and documentation

* `lookup`: `rpc.h:38,40` promise the channel and address of a node. `remove()`
  leaves `_next` alone, and the next lookup may read beyond the end of the vector.
* `lost`: `rabbitmq.cc:166` says the wait is for the declaration. Answers that
  arrive before the wait begins notify nobody, and the constructor never returns.
* `cut`: `ffmpeg.cc:161` reports an `#EXTINF` line without a line after it as a
  format error. `split()` makes a token of what follows the last newline, so that
  a file cut after such a line parses to a piece with an empty address.
* `early`: `rabbitmq.cc:166` says that the condition is checked in a loop against
  spurious wakeups. There is neither condition nor loop: a message that is handled
  for a consumer of the same client ends the wait of a declaration, and the
  constructor returns before exchange, queue or binding is there.
  `BoundUnlessDisturbed` is what holds without such messages.

Observations that no run shows, which properties take into account or leave open:

* The handler of a failed heartbeat (`etcd.cc:27`) calls `registry()` once and
  drops its result. When that call fails too, the instance goes on running and is
  never registered again; `RunningIsRegistered` therefore speaks of instances
  whose calls do not keep failing.
* A heartbeat that fails while its lease is good puts its key again; the node is
  entered twice (`rpc.cc:68-81`) and erased once. `ViewExact` excludes it,
  `NodesNotLost` does not.
* A provider that registers between the listing (`etcd.cc:66`) and the opening of
  the watcher (`etcd.cc:83`) is in neither. `Undisturbed` says so.
* `elastic.h:212` says that `term(field)` creates a clause; when the query has a
  `term` already, `elastic.cc:248` returns that one, whatever its field, and
  `setValue()` overwrites its value. The properties of the request speak of what was
  written into it through whatever pointer.
* `transCode()` and the storage calls leave open on failure what they opened
  (`ffmpeg.cc:24-68`, `fastdfs.cc:36-39`); `sendCode()` uses its handle after it
  has freed it when the option for the recipients fails (`mail.cc:73-78`). `LeftBehind` and
  `StaleUse` say exactly which path leaves and touches what.

## 7. Plan

Done: all modules of section 2 and the proofs of section 4. Left:

1. The end-to-end statement over the two abstract specifications: a directory
   whose nodes follow a membership, implemented by `ServiceDiscovery`.
2. RabbitMQ: several clients, once they no longer share a loop.
