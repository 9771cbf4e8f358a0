--------------------------- MODULE RabbitMQClient ---------------------------
(***************************************************************************)
(* One RabbitMQClient (rabbitmq.cc) that publishers and consumers share.   *)
(* The constructor of a Publisher or Consumer declares an exchange, a      *)
(* queue and their binding, for a delayed queue a second, dead-letter trio *)
(* before the first.  Each trio is a chain: the request for the queue is   *)
(* sent by the callback that confirms the exchange, the request for the    *)
(* binding by the one that confirms the queue.  Callbacks run in the       *)
(* client's event loop thread; the declaring thread sleeps on a condition  *)
(* variable, without a predicate, until the loop notifies it.  consume()   *)
(* sleeps on the same condition variable until a message was handled.      *)
(*                                                                         *)
(* A caller holds _declare_mutex from its request until it returns, hence  *)
(* at most one thread waits at a time.  It takes _cond_mutex together with *)
(* _declare_mutex (std::lock) and needs it again only to return from its   *)
(* wait; no thread keeps it without the other mutex, and the loop never    *)
(* takes it.  One variable, owner, stands for both.                        *)
(*                                                                         *)
(* The library and the broker are external: a channel answers the requests *)
(* in the order they were made, and an error closes it, so that it refuses *)
(* what comes after.                                                       *)
(***************************************************************************)
EXTENDS Integers, SequencesExt

CONSTANTS
    Threads,      \* each makes one Publisher or Consumer on the client
    Configs,      \* declared configurations (struct DeclareConfig)
    ConfigOf,     \* the configuration of a thread
    Delayed,      \* configurations with type DELAYED and a ttl above zero
    Unsupported,  \* configurations whose exchange type has no AMQP type
    Free,         \* no thread holds the mutexes
    MaxMessages,  \* bound on the messages other clients put into the queues
    MaxFaults,    \* bound on the requests that the broker refuses
    MaxWakeups    \* bound on the waits that end without a notification

ASSUME ClientAssumption ==
    /\ Free \notin Threads
    /\ ConfigOf \in [Threads -> Configs]
    /\ Delayed \subseteq Configs /\ Unsupported \subseteq Configs \ Delayed
    /\ MaxMessages \in Nat /\ MaxFaults \in Nat /\ MaxWakeups \in Nat

VARIABLES
    at,       \* per thread, the call it makes next or is in, see Calls
    phase,    \* per thread, how far that call is, see Phases
    owner,    \* the thread that holds the mutexes, or Free
    channel,  \* the requests that are not answered yet, in order
    closed,   \* whether an error has closed the channel
    built,    \* per trio, how much of it exists: 0, exchange, queue, binding
    consumed, \* the configurations whose queue has a consumer
    waiting,  \* per trio, the messages in its queue
    dropped,  \* the threads whose message was published and reached no queue
    lost,     \* the configurations of which a message expired into nowhere
    arrivals, \* how many messages other clients have put into the queues
    faults,   \* how many requests were refused
    failing,  \* whether a declaration was refused, so that abort() comes next
    aborted,  \* whether abort() was called
    consumers, \* the threads that make a Consumer, the others make a Publisher
    wakeups,  \* how many waits ended without a notification
    disturbed \* history: whether the wait of a declaration was ended by
              \* anything but the callbacks of declarations

loop == <<built, consumed, waiting, dropped, lost, arrivals, faults, failing>>
env == <<consumers, wakeups, disturbed>>
vars == <<at, phase, owner, channel, closed, loop, aborted, env>>

Parts == {"dlx", "normal"}
Steps == <<"exchange", "queue", "bind">>
Calls == {"dlx", "normal", "ready", "consume", "done", "failed"}
Phases == {"out", "requested", "asleep", "notified"}

Request(step, c, part) == [step |-> step, config |-> c, part |-> part]

\* Mutant of Init: no dead-letter trio is declared for a delayed queue.
InitNoDeadLetters ==
    /\ at = [t \in Threads |-> "normal"]
    /\ phase = [t \in Threads |-> "out"]
    /\ owner = Free /\ channel = <<>> /\ closed = FALSE
    /\ built = [c \in Configs |-> [part \in Parts |-> 0]]
    /\ consumed = {} /\ waiting = [c \in Configs |-> [part \in Parts |-> 0]]
    /\ dropped = {} /\ lost = {} /\ arrivals = 0 /\ faults = 0
    /\ failing = FALSE /\ aborted = FALSE
    /\ consumers \in SUBSET Threads /\ wakeups = 0 /\ disturbed = FALSE

Init == /\ at = [t \in Threads |-> IF ConfigOf[t] \in Delayed THEN "dlx" ELSE "normal"]
        /\ phase = [t \in Threads |-> "out"]
        /\ owner = Free /\ channel = <<>> /\ closed = FALSE
        /\ built = [c \in Configs |-> [part \in Parts |-> 0]]
        /\ consumed = {} /\ waiting = [c \in Configs |-> [part \in Parts |-> 0]]
        /\ dropped = {} /\ lost = {} /\ arrivals = 0 /\ faults = 0
        /\ failing = FALSE /\ aborted = FALSE
        /\ consumers \in SUBSET Threads /\ wakeups = 0 /\ disturbed = FALSE

-----------------------------------------------------------------------------
(* The calling threads.                                                    *)

\* Both mutexes are taken and the first request of the call is made.
Begin(t, call, request) ==
    /\ phase[t] = "out" /\ owner = Free /\ ~aborted
    /\ owner' = t
    /\ at' = [at EXCEPT ![t] = call]
    /\ phase' = [phase EXCEPT ![t] = "requested"]
    /\ channel' = Append(channel, request)
    /\ UNCHANGED <<closed, loop, aborted, env>>

\* _declareExchangeAndQueue(), for the dead-letter trio or the normal one.
Declare(t) ==
    /\ at[t] \in Parts /\ ConfigOf[t] \notin Unsupported
    /\ Begin(t, at[t], Request("exchange", ConfigOf[t], at[t]))

\* getAMQPExchangeType() throws: the mutexes are given back at once.
DeclareThrows(t) ==
    /\ at[t] \in Parts /\ ConfigOf[t] \in Unsupported
    /\ phase[t] = "out" /\ owner = Free /\ ~aborted
    /\ at' = [at EXCEPT ![t] = "failed"]
    /\ UNCHANGED <<phase, owner, channel, closed, loop, aborted, env>>

\* consumeMessage(), always on the normal queue.
Consume(t) ==
    /\ t \in consumers /\ at[t] = "ready"
    /\ Begin(t, "consume", Request("consume", ConfigOf[t], "normal"))

\* Mutants of Sleep: the wait gives back both mutexes, or does not wait.
SleepUnlocked(t) == /\ phase[t] = "requested" /\ ~aborted
                    /\ phase' = [phase EXCEPT ![t] = "asleep"]
                    /\ owner' = Free
                    /\ UNCHANGED <<at, channel, closed, loop, aborted, env>>

SleepNot(t) == /\ phase[t] = "requested" /\ ~aborted
               /\ phase' = [phase EXCEPT ![t] = "notified"]
               /\ UNCHANGED <<at, owner, channel, closed, loop, aborted, env>>

\* _cond.wait(): only a thread that sleeps can be notified.
Sleep(t) == /\ phase[t] = "requested" /\ ~aborted
            /\ phase' = [phase EXCEPT ![t] = "asleep"]
            /\ UNCHANGED <<at, owner, channel, closed, loop, aborted, env>>

SpuriousWakeup(t) == /\ wakeups < MaxWakeups
                     /\ phase[t] = "asleep" /\ ~aborted
                     /\ phase' = [phase EXCEPT ![t] = "notified"]
                     /\ wakeups' = wakeups + 1
                     /\ disturbed' = (disturbed \/ at[t] \in Parts)
                     /\ UNCHANGED <<at, owner, channel, closed, loop, aborted, consumers>>

\* The wait has ended, nothing is checked, the call returns.
After(call) == CASE call = "dlx" -> "normal"
                 [] call = "normal" -> "ready"
                 [] call = "consume" -> "done"

Return(t) == /\ phase[t] = "notified" /\ ~aborted
             /\ phase' = [phase EXCEPT ![t] = "out"]
             /\ at' = [at EXCEPT ![t] = After(@)]
             /\ owner' = Free
             /\ UNCHANGED <<channel, closed, loop, aborted, env>>

\* Publisher::publish() takes no mutex and awaits no answer.
Publish(t) == /\ t \notin consumers /\ at[t] = "ready" /\ ~aborted
              /\ at' = [at EXCEPT ![t] = "done"]
              /\ channel' = Append(channel, Request("publish", t, "normal"))
              /\ UNCHANGED <<phase, owner, closed, loop, aborted, env>>

-----------------------------------------------------------------------------
(* The event loop thread.                                                  *)

NotifyAll == phase' = [t \in Threads |->
                         IF phase[t] = "asleep" THEN "notified" ELSE phase[t]]

\* NotifyAll, by something that is no answer to a declaration.
Interferes ==
    /\ NotifyAll
    /\ disturbed' = (disturbed \/ \E t \in Threads : phase[t] = "asleep" /\ at[t] \in Parts)
    /\ UNCHANGED <<consumers, wakeups>>

Fault == faults < MaxFaults /\ faults' = faults + 1

\* The oldest request is answered, in one of the ways below.
Answers(steps) == ~failing /\ channel # <<>> /\ Head(channel).step \in steps

\* The broker made part i of the trio of a request.
Made(r, i) == built' = [built EXCEPT ![r.config][r.part] = IF @ > i THEN @ ELSE i]

\* Mutants of AsksNext: it asks for nothing, or notifies already.
AsksNothing(r, i) == channel' = Tail(channel) /\ UNCHANGED phase

AsksNextAndNotifies(r, i) ==
    /\ channel' = Append(Tail(channel), Request(Steps[i + 1], r.config, r.part))
    /\ NotifyAll

\* The callback of a part asks for the next one ...
AsksNext(r, i) ==
    /\ channel' = Append(Tail(channel), Request(Steps[i + 1], r.config, r.part))
    /\ UNCHANGED phase

\* Mutant of Completes: no one is notified.
CompletesSilently == channel' = Tail(channel) /\ UNCHANGED phase

\* ... and that of the binding notifies.
Completes == channel' = Tail(channel) /\ NotifyAll

Confirmed ==
    /\ Answers(Range(Steps)) /\ ~closed
    /\ \E i \in DOMAIN Steps :
         LET r == Head(channel)
         IN /\ r.step = Steps[i]
            /\ Made(r, i)
            /\ IF i = Len(Steps) THEN Completes ELSE AsksNext(r, i)
    /\ UNCHANGED <<at, owner, closed, consumed, waiting, dropped, lost, arrivals,
                   faults, failing, aborted, env>>

\* The error callbacks of the chain notify ...
Refused ==
    /\ Answers(Range(Steps))
    /\ (closed /\ UNCHANGED faults) \/ (~closed /\ Fault)
    /\ NotifyAll
    /\ failing' = TRUE /\ closed' = TRUE /\ channel' = Tail(channel)
    /\ UNCHANGED <<at, owner, built, consumed, waiting, dropped, lost, arrivals,
                   aborted, env>>

\* ... and call abort().  In between the thread they woke may return.
Aborts == /\ failing /\ ~aborted
          /\ aborted' = TRUE
          /\ UNCHANGED <<at, phase, owner, channel, closed, loop, env>>

\* A consumer is added to a queue that exists; no one is notified.
ConsumerAdded ==
    /\ Answers({"consume"}) /\ ~closed
    /\ LET c == Head(channel).config
       IN built[c]["normal"] >= 2 /\ consumed' = consumed \cup {c}
    /\ channel' = Tail(channel)
    /\ UNCHANGED <<at, phase, owner, closed, built, waiting, dropped, lost, arrivals,
                   faults, failing, aborted, env>>

\* There is no such queue, or the broker refuses: logged, notified, and the
\* channel is closed.
ConsumerRefused ==
    /\ Answers({"consume"})
    /\ \/ (closed \/ built[Head(channel).config]["normal"] < 2) /\ UNCHANGED faults
       \/ ~closed /\ Fault
    /\ Interferes
    /\ closed' = TRUE /\ channel' = Tail(channel)
    /\ UNCHANGED <<at, owner, built, consumed, waiting, dropped, lost, arrivals,
                   failing, aborted>>

\* A published message gets into the queue that is bound, or nowhere.
PublishArrives ==
    /\ Answers({"publish"})
    /\ LET t == Head(channel).config
           c == ConfigOf[t]
       IN IF ~closed /\ built[c]["normal"] = 3
          THEN waiting' = [waiting EXCEPT ![c]["normal"] = @ + 1] /\ UNCHANGED dropped
          ELSE dropped' = dropped \cup {t} /\ UNCHANGED waiting
    /\ channel' = Tail(channel)
    /\ UNCHANGED <<at, phase, owner, closed, built, consumed, lost, arrivals, faults,
                   failing, aborted, env>>

\* Mutant of Receive: the message is acknowledged twice.
ReceiveTwice(c) ==
    /\ c \in consumed /\ waiting[c]["normal"] > 0 /\ ~closed
    /\ waiting' = [waiting EXCEPT ![c]["normal"] = @ - 2]
    /\ Interferes
    /\ UNCHANGED <<at, owner, channel, closed, built, consumed, dropped, lost, arrivals,
                   faults, failing, aborted>>

\* onReceived(): the user's callback, the acknowledgement, and notify_all().
Receive(c) ==
    /\ c \in consumed /\ waiting[c]["normal"] > 0 /\ ~closed
    /\ waiting' = [waiting EXCEPT ![c]["normal"] = @ - 1]
    /\ Interferes
    /\ UNCHANGED <<at, owner, channel, closed, built, consumed, dropped, lost, arrivals,
                   faults, failing, aborted>>

\* Another client publishes to a queue that is bound.
Arrive(c) == /\ arrivals < MaxMessages /\ built[c]["normal"] = 3 /\ ~aborted
             /\ arrivals' = arrivals + 1
             /\ waiting' = [waiting EXCEPT ![c]["normal"] = @ + 1]
             /\ UNCHANGED <<at, phase, owner, channel, closed, built, consumed,
                            dropped, lost, faults, failing, aborted, env>>

\* A message in a delayed queue reaches its time to live and is passed on to
\* the dead-letter exchange, whose queue must be bound by then.
Expire(c) ==
    /\ c \in Delayed /\ waiting[c]["normal"] > 0
    /\ IF built[c]["dlx"] = 3
       THEN /\ waiting' = [waiting EXCEPT ![c]["normal"] = @ - 1, ![c]["dlx"] = @ + 1]
            /\ UNCHANGED lost
       ELSE /\ waiting' = [waiting EXCEPT ![c]["normal"] = @ - 1]
            /\ lost' = lost \cup {c}
    /\ UNCHANGED <<at, phase, owner, channel, closed, built, consumed, dropped,
                   arrivals, faults, failing, aborted, env>>

LoopStep == \/ Confirmed \/ Refused \/ Aborts \/ ConsumerAdded \/ ConsumerRefused
            \/ PublishArrives \/ \E c \in Configs : Receive(c)

CallStep(t) == Declare(t) \/ DeclareThrows(t) \/ Sleep(t) \/ Return(t)

Next == \/ \E t \in Threads : CallStep(t) \/ Consume(t) \/ SpuriousWakeup(t) \/ Publish(t)
        \/ LoopStep
        \/ \E c \in Configs : Arrive(c) \/ Expire(c)

\* The loop runs, and so does a thread that was notified or has a call to
\* make; the mutexes are handed out fairly.
Fairness == WF_vars(LoopStep) /\ \A t \in Threads : SF_vars(CallStep(t))

Spec == Init /\ [][Next]_vars /\ Fairness

-----------------------------------------------------------------------------
\* Types, and: who is in a call is in one of the three that wait.
TypeOK ==
    /\ at \in [Threads -> Calls] /\ phase \in [Threads -> Phases]
    /\ \A t \in Threads : phase[t] # "out" => at[t] \in Parts \cup {"consume"}
    /\ owner \in Threads \cup {Free}
    /\ channel \in Seq([step : Range(Steps), config : Configs, part : Parts]
                   \cup [step : {"consume"}, config : Configs, part : {"normal"}]
                   \cup [step : {"publish"}, config : Threads, part : {"normal"}])
    /\ closed \in BOOLEAN /\ failing \in BOOLEAN /\ (aborted => failing)
    /\ aborted \in BOOLEAN /\ disturbed \in BOOLEAN
    /\ built \in [Configs -> [Parts -> 0 .. 3]]
    /\ consumed \subseteq Configs
    /\ waiting \in [Configs -> [Parts -> Nat]]
    /\ dropped \subseteq Threads /\ lost \subseteq Configs
    /\ arrivals \in 0 .. MaxMessages /\ faults \in 0 .. MaxFaults
    /\ consumers \subseteq Threads /\ wakeups \in 0 .. MaxWakeups

\* A thread is in a call exactly while it holds the mutexes, so that there is
\* never a second thread asleep that a notification could have been for.
OneCaller == \A t \in Threads : phase[t] # "out" <=> owner = t

\* A message that expires in a delayed queue is never lost: the dead-letter
\* exchange and queue are bound before messages can get into the delayed
\* queue, even when the wait for them ended too early, because the second
\* trio stays behind the first in the channel (rabbitmq.cc:61-68, 139-148).
DeadLettersFirst ==
    /\ lost = {}
    /\ \A c \in Delayed : built[c]["normal"] = 3 => built[c]["dlx"] = 3

\* The Publishers and Consumers that have been constructed although their
\* exchange, queue or binding is not there.
Unbound == {t \in Threads : /\ at[t] \in {"ready", "consume", "done"}
                            /\ built[ConfigOf[t]]["normal"] # 3}

\* "Wait for the declaration to complete; to avoid spurious wakeups, check the
\* condition in a loop" (rabbitmq.cc:166): when the constructor returns, the
\* declaration is complete.
DeclaredIsBound == Unbound = {}

\* However many declare, consume and publish on a client, as long as no message,
\* refused consumer or spurious wakeup falls into the wait of a declaration,
\* nobody is taken for somebody else: whoever has been constructed has its
\* exchange, queue and binding, but for the one whose declaration was refused
\* in the moment before the process aborts (rabbitmq.cc:125-168).
BoundUnlessDisturbed ==
    ~disturbed => \/ Unbound = {}
                  \/ failing /\ \E t \in Threads : Unbound = {t}

\* Under the same condition what a constructed Publisher publishes reaches its
\* queue, unless an error has closed the channel of the client.
PublishedIsQueued == ~disturbed => dropped = {} \/ closed

\* A request of the thread's call is not answered yet.
Unanswered(t) == \E i \in DOMAIN channel :
                   /\ channel[i].config = ConfigOf[t]
                   /\ \/ at[t] = channel[i].part /\ channel[i].step \in Range(Steps)
                      \/ at[t] = channel[i].step

\* What the call of thread t asked for is there, or an error has ended it.
Served(t) == \/ at[t] \in Parts /\ (built[ConfigOf[t]][at[t]] = 3 \/ failing)
             \/ at[t] = "consume" /\ (ConfigOf[t] \in consumed \/ closed)

\* No chain of callbacks breaks off in silence: while a thread is in a call,
\* a request of that call is under way until what it asked for is there or
\* an error has ended it, whoever else declares, consumes or publishes on the
\* channel meanwhile (rabbitmq.cc:93-112,139-168).
ChainsGoOn == \A t \in Threads : phase[t] # "out" => Unanswered(t) \/ Served(t)

\* Thread t consumes a queue in which there is no message for it, or that an
\* error has cut off.
NothingToConsume(t) ==
    /\ at[t] = "consume" /\ ConfigOf[t] \in consumed
    /\ waiting[ConfigOf[t]]["normal"] = 0 \/ closed

\* A thread that fell asleep before its call was answered, or in consume()
\* while there is a message for it, is woken, unless the process is aborted
\* or there is nothing to consume: every way a chain or a request can end
\* notifies, and so does every message (rabbitmq.cc:104, 108, 148-163).
SleeperIsWoken ==
    \A t \in Threads :
      (/\ phase[t] = "asleep"
       /\ Unanswered(t) \/ (at[t] = "consume" /\ ConfigOf[t] \in consumed))
        ~> (phase[t] # "asleep" \/ aborted \/ NothingToConsume(t))

\* The wait of rabbitmq.cc:166 is for a declaration that completes: a call
\* of declareExchangeAndQueue() returns.
DeclarationReturns ==
    \A t \in Threads :
      (phase[t] = "requested" /\ at[t] \in Parts)
        ~> (phase[t] = "out" \/ aborted)
=============================================================================
