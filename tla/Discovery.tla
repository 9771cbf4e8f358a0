----------------------------- MODULE Discovery -----------------------------
(***************************************************************************)
(* The consumer side of service registration (class Discovery of etcd.cc). *)
(* watch() lists every key, reports each of them with the put callback,    *)
(* and only then opens a watcher, which is sent the revisions that etcd    *)
(* makes from that moment on.  Each event of a revision is reported with   *)
(* the put or the delete callback.  When the watch ends, a handler may     *)
(* call watch() again.  Every step is taken by one thread at a time, and a *)
(* callback returns before the next step.                                  *)
(*                                                                         *)
(* The module has the steps of the client alone.  The steps of etcd and    *)
(* the callbacks are composed with it in ServiceDiscovery.                 *)
(***************************************************************************)
EXTENDS EtcdStore

CONSTANTS
    LossIs   \* the values of `cond` with which the end of a watch is reported

VARIABLES
    stage,   \* how far watch() is, see Stages
    kind,    \* which callback the keys in todo get
    todo,    \* keys of the listing or of a revision that are not reported yet
    listed,  \* length of the log when the keys were listed
    from,    \* length of the log when the watcher was opened
    pos,     \* how many revisions of the log are behind the watcher
    watches  \* how often watch() was called

vars == <<stage, kind, todo, listed, from, pos, watches>>

\* "new": watch() was not called yet.  "list": ls() is asked.  "listing": the
\* keys of the listing are reported.  "watching": the watcher is open.
\* "stopped": nothing will be reported any more.
Stages == {"new", "list", "listing", "watching", "stopped"}

Init == /\ stage = "new" /\ kind = "PUT" /\ todo = {}
        /\ listed = 0 /\ from = 0 /\ pos = 0 /\ watches = 0

Watch == /\ stage' = "list" /\ watches' = watches + 1
         /\ UNCHANGED <<kind, todo, listed, from, pos>>

\* The program calls watch().
Start == stage = "new" /\ Watch /\ UNCHANGED store

\* Mutant of Lists: only the watcher reports nodes.
ListsNothing == /\ stage = "list"
                /\ stage' = "listing"
                /\ kind' = "PUT" /\ todo' = {} /\ listed' = Len(log)
                /\ UNCHANGED <<from, pos, watches, store>>

Lists == /\ stage = "list"
         /\ stage' = "listing"
         /\ kind' = "PUT" /\ todo' = Present /\ listed' = Len(log)
         /\ UNCHANGED <<from, pos, watches, store>>

\* ls() fails: watch() returns, and nobody calls it again.
ListFails == /\ stage = "list"
             /\ stage' = "stopped"
             /\ Fault
             /\ UNCHANGED <<kind, todo, listed, from, pos, watches>>
             /\ UNCHANGED <<kv, live, granted, log>>

\* One call of the put or the delete callback.
Reports(k) == /\ k \in todo
              /\ todo' = todo \ {k}
              /\ UNCHANGED <<stage, kind, listed, from, pos, watches, store>>

\* Mutant of OpensWatcher: it starts one revision too late.
OpensWatcherLate == /\ stage = "listing" /\ todo = {}
                    /\ stage' = "watching"
                    /\ from' = Len(log) /\ pos' = Len(log) + 1
                    /\ UNCHANGED <<kind, todo, listed, watches, store>>

\* The watcher is opened without a revision to start from.
OpensWatcher == /\ stage = "listing" /\ todo = {}
                /\ stage' = "watching"
                /\ from' = Len(log) /\ pos' = Len(log)
                /\ UNCHANGED <<kind, todo, listed, watches, store>>

\* Mutant of Receives: of several revisions only the last is handled.
ReceivesLast == /\ stage = "watching" /\ todo = {} /\ pos < Len(log)
                /\ pos' = Len(log)
                /\ kind' = Last(log).type /\ todo' = Last(log).keys
                /\ UNCHANGED <<stage, listed, from, watches, store>>

\* The watcher hands the next revision to callBack().
Receives == /\ stage = "watching" /\ todo = {} /\ pos < Len(log)
            /\ pos' = pos + 1
            /\ kind' = log[pos + 1].type /\ todo' = log[pos + 1].keys
            /\ UNCHANGED <<stage, listed, from, watches, store>>

\* The watch ends; the handler given to Wait() returns when cond is false and
\* calls watch() again when it is true.
WatchEnds == /\ stage = "watching" /\ todo = {}
             /\ Fault
             /\ \E cond \in LossIs :
                  IF cond THEN Watch
                  ELSE /\ stage' = "stopped"
                       /\ UNCHANGED <<kind, todo, listed, from, pos, watches>>
             /\ UNCHANGED <<kv, live, granted, log>>

\* ~Discovery() cancels the watcher.
Closes == /\ stage = "watching" /\ todo = {}
          /\ stage' = "stopped"
          /\ UNCHANGED <<kind, todo, listed, from, pos, watches, store>>

TypeOK == /\ stage \in Stages
          /\ kind \in {"PUT", "DELETE"}
          /\ todo \subseteq Keys
          /\ listed \in 0 .. Len(log) /\ from \in 0 .. Len(log)
          /\ pos \in from .. Len(log)
          /\ watches \in 0 .. faults + 1
=============================================================================
