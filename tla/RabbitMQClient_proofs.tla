----------------------- MODULE RabbitMQClient_proofs -----------------------
(***************************************************************************)
(* Theorems about RabbitMQClient for any number of threads, configurations *)
(* and messages: the types, mutual exclusion of the callers, that dead     *)
(* letters of a delayed queue always have a place to go, and that nobody   *)
(* takes an undisturbed declaration for complete before it is.             *)
(***************************************************************************)
EXTENDS RabbitMQClient, SequenceTheorems, TLAPS

RequestSet == [step : Range(Steps), config : Configs, part : Parts]
            \cup [step : {"consume"}, config : Configs, part : {"normal"}]
            \cup [step : {"publish"}, config : Threads, part : {"normal"}]

\* The three steps of a declaration are distinct, and distinct from the other
\* requests.
LEMMA StepsFacts ==
    /\ Len(Steps) = 3 /\ DOMAIN Steps = 1 .. 3
    /\ Steps[1] = "exchange" /\ Steps[2] = "queue" /\ Steps[3] = "bind"
    /\ Range(Steps) = {"exchange", "queue", "bind"}
<1>1. /\ Len(Steps) = 3 /\ DOMAIN Steps = 1 .. 3
      /\ Steps[1] = "exchange" /\ Steps[2] = "queue" /\ Steps[3] = "bind"
  BY DEF Steps
<1>2. Range(Steps) = {"exchange", "queue", "bind"}
  <2>1. Range(Steps) = {Steps[x] : x \in 1 .. 3}
    BY <1>1 DEF Range
  <2>2. 1 .. 3 = {1, 2, 3}
    OBVIOUS
  <2> QED BY <1>1, <2>1, <2>2
<1> QED BY <1>1, <1>2

\* What an answered request leaves behind, and what a new one adds.
LEMMA ChannelTypes ==
    ASSUME TypeOK
    PROVE  /\ channel \in Seq(RequestSet)
           /\ channel # <<>> =>
                /\ Head(channel) = channel[1] /\ channel[1] \in RequestSet
                /\ Tail(channel) \in Seq(RequestSet)
                /\ Len(Tail(channel)) = Len(channel) - 1
                /\ \A i \in 1 .. Len(Tail(channel)) : Tail(channel)[i] = channel[i + 1]
           /\ \A r \in RequestSet :
                /\ Append(channel, r) \in Seq(RequestSet)
                /\ channel # <<>> => Append(Tail(channel), r) \in Seq(RequestSet)
<1>1. channel \in Seq(RequestSet)
  BY DEF TypeOK, RequestSet
<1>2. ASSUME channel # <<>>
      PROVE  /\ Head(channel) = channel[1] /\ channel[1] \in RequestSet
             /\ Tail(channel) \in Seq(RequestSet)
             /\ Len(Tail(channel)) = Len(channel) - 1
             /\ \A i \in 1 .. Len(Tail(channel)) : Tail(channel)[i] = channel[i + 1]
  BY <1>1, <1>2, HeadTailProperties
<1>3. ASSUME NEW r \in RequestSet
      PROVE  /\ Append(channel, r) \in Seq(RequestSet)
             /\ channel # <<>> => Append(Tail(channel), r) \in Seq(RequestSet)
  BY <1>1, <1>2, AppendProperties
<1> QED BY <1>1, <1>2, <1>3

\* A refused request is counted, and the count stays within its bound.
LEMMA FaultTypes ==
    ASSUME TypeOK, Fault
    PROVE  faults' \in 0 .. MaxFaults
BY ClientAssumption DEF TypeOK, Fault

\* Every state has the types of TypeOK.
THEOREM TypeCorrect == Spec => []TypeOK
<1>1. Init => TypeOK
  <2> SUFFICES ASSUME Init PROVE TypeOK
    OBVIOUS
  <2>1. channel \in Seq(RequestSet)
    BY DEF Init
  <2>2. at \in [Threads -> Calls] /\ phase \in [Threads -> Phases]
    BY DEF Init, Calls, Phases
  <2>3. /\ built \in [Configs -> [Parts -> 0 .. 3]]
        /\ waiting \in [Configs -> [Parts -> Nat]]
    BY DEF Init
  <2>4. \A t \in Threads : phase[t] = "out"
    BY DEF Init
  <2>5. arrivals \in 0 .. MaxMessages /\ faults \in 0 .. MaxFaults /\ wakeups \in 0 .. MaxWakeups
    BY ClientAssumption DEF Init
  <2>6. /\ owner \in Threads \cup {Free} /\ closed \in BOOLEAN
        /\ failing \in BOOLEAN /\ aborted \in BOOLEAN /\ ~aborted /\ disturbed \in BOOLEAN
        /\ consumed \subseteq Configs /\ dropped \subseteq Threads /\ lost \subseteq Configs
        /\ consumers \subseteq Threads
    BY DEF Init
  <2> QED BY <2>1, <2>2, <2>3, <2>4, <2>5, <2>6 DEF TypeOK, RequestSet
<1>2. TypeOK /\ [Next]_vars => TypeOK'
  <2> SUFFICES ASSUME TypeOK, [Next]_vars
               PROVE  TypeOK'
    OBVIOUS
  <2>0. /\ at \in [Threads -> Calls] /\ phase \in [Threads -> Phases]
        /\ \A t \in Threads : phase[t] # "out" => at[t] \in Parts \cup {"consume"}
        /\ owner \in Threads \cup {Free}
        /\ channel \in Seq(RequestSet)
        /\ closed \in BOOLEAN /\ failing \in BOOLEAN /\ aborted \in BOOLEAN
        /\ disturbed \in BOOLEAN
        /\ aborted => failing
        /\ built \in [Configs -> [Parts -> 0 .. 3]]
        /\ consumed \subseteq Configs
        /\ waiting \in [Configs -> [Parts -> Nat]]
        /\ dropped \subseteq Threads /\ lost \subseteq Configs
        /\ arrivals \in 0 .. MaxMessages /\ faults \in 0 .. MaxFaults
        /\ consumers \subseteq Threads /\ wakeups \in 0 .. MaxWakeups
    BY DEF TypeOK, RequestSet
  <2>t. ASSUME /\ at' \in [Threads -> Calls] /\ phase' \in [Threads -> Phases]
               /\ \A t \in Threads : phase'[t] # "out" => at'[t] \in Parts \cup {"consume"}
               /\ owner' \in Threads \cup {Free}
               /\ channel' \in Seq(RequestSet)
               /\ closed' \in BOOLEAN /\ failing' \in BOOLEAN /\ aborted' \in BOOLEAN
               /\ disturbed' \in BOOLEAN
               /\ aborted' => failing'
               /\ built' \in [Configs -> [Parts -> 0 .. 3]]
               /\ consumed' \subseteq Configs
               /\ waiting' \in [Configs -> [Parts -> Nat]]
               /\ dropped' \subseteq Threads /\ lost' \subseteq Configs
               /\ arrivals' \in 0 .. MaxMessages /\ faults' \in 0 .. MaxFaults
               /\ consumers' \subseteq Threads /\ wakeups' \in 0 .. MaxWakeups
        PROVE  TypeOK'
    BY <2>t DEF TypeOK, RequestSet
  <2>c. /\ \A c \in Configs, i \in 1 .. 3, p \in Parts : Request(Steps[i], c, p) \in RequestSet
        /\ \A c \in Configs : Request("consume", c, "normal") \in RequestSet
        /\ \A t \in Threads : Request("publish", t, "normal") \in RequestSet
    BY StepsFacts DEF Request, RequestSet
  <2>n. ASSUME NotifyAll
        PROVE  /\ phase' \in [Threads -> Phases]
               /\ \A t \in Threads : phase'[t] # "out" => phase[t] # "out"
    BY <2>0, <2>n DEF NotifyAll, Phases
  <2>i. ASSUME Interferes
        PROVE  NotifyAll /\ disturbed' \in BOOLEAN /\ UNCHANGED <<consumers, wakeups>>
    BY <2>0, <2>i DEF Interferes
  <2>w. \A c \in Configs, p \in Parts : waiting[c][p] \in Nat
    BY <2>0
  <2>1. ASSUME NEW t \in Threads, Declare(t) PROVE TypeOK'
    <3>1. /\ ConfigOf[t] \in Configs /\ at[t] \in Parts
      BY <2>1, ClientAssumption DEF Declare
    <3>2. channel' \in Seq(RequestSet)
      BY <2>1, <2>c, <3>1, StepsFacts, ChannelTypes DEF Declare, Begin
    <3> QED BY <2>0, <2>t, <2>1, <3>2 DEF Declare, Begin, loop, env, Phases, Calls, Parts
  <2>2. ASSUME NEW t \in Threads, DeclareThrows(t) PROVE TypeOK'
    BY <2>0, <2>t, <2>2 DEF DeclareThrows, loop, env, Calls
  <2>3. ASSUME NEW t \in Threads, Sleep(t) PROVE TypeOK'
    BY <2>0, <2>t, <2>3 DEF Sleep, loop, env, Phases
  <2>4. ASSUME NEW t \in Threads, Return(t) PROVE TypeOK'
    <3>1. at' \in [Threads -> Calls]
      <4>1. at[t] \in {"dlx", "normal", "consume"}
        BY <2>0, <2>4 DEF Return, Parts
      <4>2. After(at[t]) \in Calls
        BY <4>1 DEF After, Calls
      <4> QED BY <2>0, <2>4, <4>2 DEF Return
    <3> QED BY <2>0, <2>t, <2>4, <3>1 DEF Return, loop, env, Phases
  <2>5. ASSUME NEW t \in Threads, Consume(t) PROVE TypeOK'
    <3>1. channel' \in Seq(RequestSet)
      BY <2>5, <2>c, ChannelTypes, ClientAssumption DEF Consume, Begin
    <3> QED BY <2>0, <2>t, <2>5, <3>1 DEF Consume, Begin, loop, env, Phases, Calls
  <2>6. ASSUME NEW t \in Threads, SpuriousWakeup(t) PROVE TypeOK'
    BY <2>0, <2>t, <2>6, ClientAssumption DEF SpuriousWakeup, loop, Phases
  <2>7. ASSUME NEW t \in Threads, Publish(t) PROVE TypeOK'
    <3>1. channel' \in Seq(RequestSet)
      BY <2>7, <2>c, ChannelTypes DEF Publish
    <3>2. at[t] = "ready" /\ phase[t] = "out"
      BY <2>0, <2>7 DEF Publish, Parts
    <3> QED BY <2>0, <2>t, <2>7, <3>1, <3>2 DEF Publish, loop, env, Calls
  <2>8. ASSUME Confirmed PROVE TypeOK'
    <3>1. PICK i \in 1 .. 3 :
            LET r == Head(channel)
            IN /\ r.step = Steps[i]
               /\ Made(r, i)
               /\ IF i = Len(Steps) THEN Completes ELSE AsksNext(r, i)
      BY <2>8, StepsFacts DEF Confirmed
    <3>2. /\ channel # <<>> /\ Head(channel) \in RequestSet
          /\ Head(channel).step = Steps[i]
      BY <2>8, <3>1, ChannelTypes DEF Confirmed, Answers
    <3>3. Head(channel).config \in Configs /\ Head(channel).part \in Parts
      BY <3>2, StepsFacts DEF RequestSet, Parts
    <3>4. built' \in [Configs -> [Parts -> 0 .. 3]]
      BY <2>0, <3>1, <3>3 DEF Made
    <3>5. channel' \in Seq(RequestSet)
      <4>1. CASE i = 3
        BY <3>1, <3>2, <4>1, StepsFacts, ChannelTypes DEF Completes
      <4>2. CASE i # 3
        <5>1. i + 1 \in 1 .. 3
          BY <4>2
        <5> QED BY <2>c, <3>1, <3>2, <3>3, <4>2, <5>1, StepsFacts, ChannelTypes DEF AsksNext
      <4> QED BY <4>1, <4>2
    <3>6. NotifyAll \/ UNCHANGED phase
      BY <3>1 DEF Completes, AsksNext
    <3> QED BY <2>0, <2>t, <2>n, <2>8, <3>4, <3>5, <3>6 DEF Confirmed, env
  <2>9. ASSUME Refused PROVE TypeOK'
    <3>1. channel' \in Seq(RequestSet)
      BY <2>9, ChannelTypes DEF Refused, Answers
    <3> QED BY <2>0, <2>t, <2>n, <2>9, <3>1, FaultTypes DEF Refused, env
  <2>10. ASSUME ConsumerAdded PROVE TypeOK'
    <3>1. channel # <<>> /\ Head(channel) \in RequestSet /\ Head(channel).step = "consume"
      BY <2>10, ChannelTypes DEF ConsumerAdded, Answers
    <3>2. Head(channel).config \in Configs
      BY <3>1, StepsFacts DEF RequestSet
    <3>3. channel' \in Seq(RequestSet)
      BY <2>10, <3>1, ChannelTypes DEF ConsumerAdded
    <3> QED BY <2>0, <2>t, <2>10, <3>2, <3>3 DEF ConsumerAdded, env
  <2>11. ASSUME ConsumerRefused PROVE TypeOK'
    <3>1. channel' \in Seq(RequestSet)
      BY <2>11, ChannelTypes DEF ConsumerRefused, Answers
    <3> QED BY <2>0, <2>t, <2>i, <2>n, <2>11, <3>1, FaultTypes DEF ConsumerRefused
  <2>12. ASSUME PublishArrives PROVE TypeOK'
    <3>1. channel # <<>> /\ Head(channel) \in RequestSet /\ Head(channel).step = "publish"
      BY <2>12, ChannelTypes DEF PublishArrives, Answers
    <3>2. Head(channel).config \in Threads
      BY <3>1, StepsFacts DEF RequestSet
    <3>3. channel' \in Seq(RequestSet)
      BY <2>12, <3>1, ChannelTypes DEF PublishArrives
    <3>4. waiting' \in [Configs -> [Parts -> Nat]] /\ dropped' \subseteq Threads
      <4> DEFINE c == ConfigOf[Head(channel).config]
      <4>1. c \in Configs /\ waiting[c]["normal"] + 1 \in Nat
        BY <2>w, <3>2, ClientAssumption DEF Parts
      <4>2. \/ /\ waiting' = [waiting EXCEPT ![c]["normal"] = @ + 1]
               /\ dropped' = dropped
            \/ waiting' = waiting /\ dropped' = dropped \cup {Head(channel).config}
        BY <2>12 DEF PublishArrives
      <4>3. dropped' \subseteq Threads
        BY <2>0, <3>2, <4>2
      <4> HIDE DEF c
      <4>4. [waiting EXCEPT ![c]["normal"] = @ + 1] \in [Configs -> [Parts -> Nat]]
        BY <2>0, <4>1
      <4> QED BY <2>0, <4>2, <4>3, <4>4
    <3> QED BY <2>0, <2>t, <2>12, <3>3, <3>4 DEF PublishArrives, env
  <2>13. ASSUME NEW c \in Configs, Receive(c) PROVE TypeOK'
    <3>1. waiting' \in [Configs -> [Parts -> Nat]]
      BY <2>0, <2>w, <2>13 DEF Receive, Parts
    <3> QED BY <2>0, <2>t, <2>i, <2>n, <2>13, <3>1 DEF Receive
  <2>14. ASSUME NEW c \in Configs, Arrive(c) PROVE TypeOK'
    <3>1. waiting' \in [Configs -> [Parts -> Nat]]
      BY <2>0, <2>w, <2>14 DEF Arrive, Parts
    <3>2. arrivals' \in 0 .. MaxMessages
      BY <2>0, <2>14, ClientAssumption DEF Arrive
    <3> QED BY <2>0, <2>t, <2>14, <3>1, <3>2 DEF Arrive, env
  <2>15. ASSUME NEW c \in Configs, Expire(c) PROVE TypeOK'
    <3>1. waiting' \in [Configs -> [Parts -> Nat]]
      <4> DEFINE less == [waiting EXCEPT ![c]["normal"] = @ - 1]
      <4>1. /\ waiting[c]["normal"] - 1 \in Nat
            /\ waiting[c]["dlx"] + 1 \in Nat
        BY <2>w, <2>15 DEF Expire, Parts
      <4>2. less \in [Configs -> [Parts -> Nat]]
        BY <2>0, <4>1
      <4>4. less[c]["dlx"] + 1 \in Nat
        BY <4>2 DEF Parts
      <4>3. \/ waiting' = less
            \/ waiting' = [less EXCEPT ![c]["dlx"] = less[c]["dlx"] + 1]
        <5>1. CASE built[c]["dlx"] = 3
          <6>1. waiting' = [waiting EXCEPT ![c]["normal"] = @ - 1, ![c]["dlx"] = @ + 1]
            BY <2>15, <5>1 DEF Expire
          <6> QED BY <6>1
        <5>2. CASE built[c]["dlx"] # 3
          BY <2>15, <5>2 DEF Expire
        <5> QED BY <5>1, <5>2
      <4> HIDE DEF less
      <4> QED BY <4>2, <4>3, <4>4
    <3> QED BY <2>0, <2>t, <2>15, <3>1 DEF Expire, env
  <2>16. CASE Aborts
    BY <2>0, <2>t, <2>16 DEF Aborts, loop, env
  <2>17. CASE UNCHANGED vars
    BY <2>0, <2>t, <2>17 DEF vars, loop, env
  <2> QED BY <2>1, <2>2, <2>3, <2>4, <2>5, <2>6, <2>7, <2>8, <2>9, <2>10, <2>11,
             <2>12, <2>13, <2>14, <2>15, <2>16, <2>17 DEF Next, CallStep, LoopStep
<1> QED BY <1>1, <1>2, PTL DEF Spec

-----------------------------------------------------------------------------
(* Mutual exclusion of the callers.                                        *)

\* At most one thread is in a call, the one that holds the mutexes.
THEOREM OneCallerHolds == Spec => []OneCaller
<1>1. Init => OneCaller
  BY ClientAssumption DEF Init, OneCaller
<1>2. TypeOK /\ OneCaller /\ [Next]_vars => OneCaller'
  <2> SUFFICES ASSUME TypeOK, OneCaller, [Next]_vars
               PROVE  OneCaller'
    OBVIOUS
  <2>0. /\ phase \in [Threads -> Phases] /\ owner \in Threads \cup {Free}
        /\ \A t \in Threads : phase[t] # "out" <=> owner = t
    BY DEF TypeOK, OneCaller
  <2>1. ASSUME NEW t \in Threads, CallStep(t) PROVE OneCaller'
    BY <2>0, <2>1, ClientAssumption
       DEF CallStep, Declare, DeclareThrows, Begin, Sleep, Return, OneCaller
  <2>2. ASSUME NEW t \in Threads, Consume(t) \/ SpuriousWakeup(t) \/ Publish(t)
        PROVE  OneCaller'
    BY <2>0, <2>2, ClientAssumption DEF Consume, Begin, SpuriousWakeup, Publish, OneCaller
  <2>3. ASSUME NotifyAll \/ UNCHANGED phase, UNCHANGED owner PROVE OneCaller'
    BY <2>0, <2>3 DEF NotifyAll, OneCaller
  <2>4. CASE LoopStep
    BY <2>3, <2>4 DEF LoopStep, Confirmed, Completes, AsksNext, Refused, Aborts,
                      ConsumerAdded, ConsumerRefused, PublishArrives, Receive, Interferes
  <2>5. ASSUME NEW c \in Configs, Arrive(c) \/ Expire(c) PROVE OneCaller'
    BY <2>3, <2>5 DEF Arrive, Expire
  <2>6. CASE UNCHANGED vars
    BY <2>3, <2>6 DEF vars
  <2> QED BY <2>1, <2>2, <2>4, <2>5, <2>6 DEF Next
<1> QED BY <1>1, <1>2, TypeCorrect, PTL DEF Spec

-----------------------------------------------------------------------------
(* Dead letters.  The declarations of a delayed queue make two chains of   *)
(* requests, for the dead-letter trio and for the normal one.  The first   *)
(* chain is begun before the second, and as the channel answers in order   *)
(* and each answer puts the next request at the end, it stays ahead.       *)

\* One of the first n requests in the channel is step m of the dead-letter
\* trio of c.
Asked(c, m, n) == \E i \in 1 .. n : channel[i] = Request(Steps[m], c, "dlx")

\* The dead-letter chain of c has not stopped half-way.
GoesOn(c) == built[c]["dlx"] \in 1 .. 2 => Asked(c, built[c]["dlx"] + 1, Len(channel))

\* When a request of the normal chain of c is answered, the dead-letter
\* chain has been answered at least as far.
IsFirst(c) ==
    \A j \in 1 .. Len(channel), m \in 1 .. 3 :
      channel[j] = Request(Steps[m], c, "normal")
        => built[c]["dlx"] >= m \/ Asked(c, m, j - 1)

\* A thread that is past its first call, or in it, has begun that chain.
IsBegun(c) ==
    \A t \in Threads :
      ConfigOf[t] = c /\ (at[t] # "dlx" \/ phase[t] # "out")
        => built[c]["dlx"] >= 1 \/ Asked(c, 1, Len(channel))

DlxAhead(c) == /\ built[c]["normal"] <= built[c]["dlx"]
               /\ waiting[c]["normal"] > 0 => built[c]["normal"] = 3
               /\ ~closed => GoesOn(c) /\ IsFirst(c) /\ IsBegun(c)

\* Two requests of declarations are the same only if all of their parts are.
LEMMA RequestEq ==
    /\ \A m, n \in 1 .. 3 : \A c, d, p, q :
         Request(Steps[m], c, p) = Request(Steps[n], d, q) => m = n /\ c = d /\ p = q
    /\ \A m \in 1 .. 3 : \A c, d, p :
         /\ Request("consume", d, "normal") # Request(Steps[m], c, p)
         /\ Request("publish", d, "normal") # Request(Steps[m], c, p)
<1>1. ASSUME NEW m \in 1 .. 3 PROVE Steps[m] \notin {"consume", "publish"}
  BY StepsFacts
<1>2. ASSUME NEW m \in 1 .. 3, NEW n \in 1 .. 3, Steps[m] = Steps[n] PROVE m = n
  BY <1>2, StepsFacts
<1>3. ASSUME NEW s, NEW c, NEW p, NEW u, NEW d, NEW q, Request(s, c, p) = Request(u, d, q)
      PROVE  s = u /\ c = d /\ p = q
  <2>1. /\ Request(s, c, p).step = s /\ Request(s, c, p).config = c /\ Request(s, c, p).part = p
        /\ Request(u, d, q).step = u /\ Request(u, d, q).config = d /\ Request(u, d, q).part = q
    BY DEF Request
  <2> QED BY <1>3, <2>1
<1> QED BY <1>1, <1>2, <1>3

\* A new request does not get in the way of the chains, if the normal chain
\* is begun after the dead-letter chain.
LEMMA NewRequest ==
    ASSUME TypeOK, NEW c \in Delayed, GoesOn(c), IsFirst(c),
           NEW r, channel' = Append(channel, r), built' = built,
           \A m \in 1 .. 3 : r = Request(Steps[m], c, "normal")
                             => built[c]["dlx"] >= m \/ Asked(c, m, Len(channel))
    PROVE  /\ GoesOn(c)' /\ IsFirst(c)'
           /\ \A m \in 1 .. 3 : Asked(c, m, Len(channel)) => Asked(c, m, Len(channel))'
<1>1. channel \in Seq(RequestSet) /\ Len(channel) \in Nat
  BY ChannelTypes
<1>2. /\ Len(channel') = Len(channel) + 1
      /\ channel'[Len(channel) + 1] = r
      /\ \A i \in 1 .. Len(channel) : channel'[i] = channel[i]
  BY <1>1
<1>3. ASSUME NEW m \in 1 .. 3, NEW n \in 0 .. Len(channel), Asked(c, m, n)
      PROVE  \A l \in n .. Len(channel) + 1 : Asked(c, m, l)'
  BY <1>1, <1>2, <1>3 DEF Asked
<1>4. \A m \in 1 .. 3 : Asked(c, m, Len(channel)) => Asked(c, m, Len(channel))'
  BY <1>1, <1>2, <1>3 DEF Asked
<1>5. GoesOn(c)'
  BY <1>4 DEF GoesOn
<1>6. IsFirst(c)'
  <2> SUFFICES ASSUME NEW j \in 1 .. Len(channel) + 1, NEW m \in 1 .. 3,
                      channel'[j] = Request(Steps[m], c, "normal")
               PROVE  built[c]["dlx"] >= m \/ Asked(c, m, j - 1)'
    BY <1>2 DEF IsFirst
  <2>1. CASE j \in 1 .. Len(channel)
    <3>1. built[c]["dlx"] >= m \/ Asked(c, m, j - 1)
      BY <1>2, <2>1 DEF IsFirst
    <3> QED BY <1>1, <1>3, <2>1, <3>1
  <2>2. CASE j = Len(channel) + 1
    BY <1>1, <1>2, <1>3, <2>2
  <2> QED BY <2>1, <2>2
<1> QED BY <1>4, <1>5, <1>6

\* An answer keeps the order of the chains: it is either a step forward of
\* the dead-letter chain, or one of the normal chain, which had been behind.
LEMMA AnswerKeepsOrder ==
    ASSUME TypeOK, NEW c \in Delayed, Confirmed,
           GoesOn(c), IsFirst(c), IsBegun(c), built[c]["normal"] <= built[c]["dlx"]
    PROVE  /\ GoesOn(c)' /\ IsFirst(c)' /\ IsBegun(c)'
           /\ built'[c]["normal"] <= built'[c]["dlx"]
           /\ built'[c]["normal"] \in built[c]["normal"] .. 3
<1>0. /\ built \in [Configs -> [Parts -> 0 .. 3]] /\ c \in Configs
      /\ channel \in Seq(RequestSet)
  BY ChannelTypes, ClientAssumption DEF TypeOK
<1>L. PICK L \in Nat : L = Len(channel)
  BY <1>0
<1>b. PICK b \in 0 .. 3 : b = built[c]["dlx"]
  BY <1>0 DEF Parts
<1>1. PICK i \in 1 .. 3 :
        LET r == Head(channel)
        IN /\ r.step = Steps[i]
           /\ Made(r, i)
           /\ IF i = Len(Steps) THEN Completes ELSE AsksNext(r, i)
  BY StepsFacts DEF Confirmed
<1>2. /\ channel # <<>> /\ Head(channel) = channel[1] /\ channel[1] \in RequestSet
      /\ channel[1].step = Steps[i]
      /\ L # 0
      /\ Tail(channel) \in Seq(RequestSet) /\ Len(Tail(channel)) = L - 1
      /\ \A k \in 1 .. L - 1 : Tail(channel)[k] = channel[k + 1]
  BY <1>0, <1>1, <1>L, ChannelTypes DEF Confirmed, Answers
<1>3. PICK d \in Configs, p \in Parts : channel[1] = Request(Steps[i], d, p)
  <2>1. channel[1] \in [step : Range(Steps), config : Configs, part : Parts]
    BY <1>2, StepsFacts DEF RequestSet
  <2> QED BY <1>2, <2>1 DEF Request
<1>4. channel[1].config = d /\ channel[1].part = p
  BY <1>3 DEF Request
<1>5. /\ \A k \in 1 .. L - 1 : channel'[k] = channel[k + 1]
      /\ i # 3 => Len(channel') = L /\ channel'[L] = Request(Steps[i + 1], d, p)
      /\ i = 3 => Len(channel') = L - 1
  <2>1. CASE i = 3
    <3>1. channel' = Tail(channel)
      BY <1>1, <2>1, StepsFacts DEF Completes
    <3> QED BY <1>2, <2>1, <3>1
  <2>2. CASE i # 3
    <3>1. channel' = Append(Tail(channel), Request(Steps[i + 1], d, p))
      BY <1>1, <1>2, <1>4, <2>2, StepsFacts DEF AsksNext
    <3> QED BY <1>2, <2>2, <3>1
  <2> QED BY <2>1, <2>2
<1>6. built' = [built EXCEPT ![d][p] = IF @ > i THEN @ ELSE i]
  BY <1>1, <1>2, <1>4 DEF Made
<1>7. /\ built[c]["normal"] \in 0 .. 3
      /\ built'[c]["dlx"] = IF d = c /\ p = "dlx" /\ i > b THEN i ELSE b
      /\ built'[c]["normal"] = IF d = c /\ p = "normal" /\ i > built[c]["normal"]
                              THEN i ELSE built[c]["normal"]
  BY <1>0, <1>6, <1>b DEF Parts
<1>8. ASSUME NEW m \in 1 .. 3, NEW n \in 0 .. L, Asked(c, m, n)
      PROVE  built'[c]["dlx"] >= m \/ \A l \in n - 1 .. Len(channel') : Asked(c, m, l)'
  <2>1. PICK k \in 1 .. n : channel[k] = Request(Steps[m], c, "dlx")
    BY <1>8 DEF Asked
  <2>2. CASE k = 1
    BY <1>3, <1>7, <2>1, <2>2, RequestEq
  <2>3. CASE k # 1
    <3>1. k - 1 \in 1 .. L - 1 /\ channel'[k - 1] = Request(Steps[m], c, "dlx")
      BY <1>L, <1>b, <1>2, <1>5, <2>1, <2>3
    <3> QED BY <1>L, <1>b, <1>2, <1>5, <2>1, <3>1 DEF Asked
  <2> QED BY <2>2, <2>3
<1>9. ASSUME d = c, p = "normal" PROVE b >= i
  <2>1. b >= i \/ Asked(c, i, 0)
    BY <1>L, <1>b, <1>2, <1>3, <1>9 DEF IsFirst
  <2> QED BY <2>1 DEF Asked
<1>10. GoesOn(c)'
  <2> SUFFICES ASSUME built'[c]["dlx"] \in 1 .. 2
               PROVE  Asked(c, built[c]["dlx"] + 1, Len(channel))'
    BY DEF GoesOn
  <2>1. CASE d = c /\ p = "dlx" /\ i >= b
    <3>1. built'[c]["dlx"] = i
      BY <1>b, <1>7, <2>1
    <3> QED BY <1>L, <1>b, <1>2, <1>5, <2>1, <3>1 DEF Asked
  <2>2. CASE ~(d = c /\ p = "dlx" /\ i >= b)
    <3>1. built'[c]["dlx"] = b
      BY <1>b, <1>7, <2>2
    <3>2. Asked(c, b + 1, L)
      BY <1>L, <1>b, <3>1 DEF GoesOn
    <3>3. Asked(c, b + 1, Len(channel))'
      BY <1>L, <1>b, <1>2, <1>5, <1>7, <1>8, <3>1, <3>2
    <3> QED BY <3>1, <3>3
  <2> QED BY <2>1, <2>2
<1>11. IsFirst(c)'
  <2> SUFFICES ASSUME NEW j \in 1 .. Len(channel'), NEW m \in 1 .. 3,
                      channel'[j] = Request(Steps[m], c, "normal")
               PROVE  built'[c]["dlx"] >= m \/ Asked(c, m, j - 1)'
    BY DEF IsFirst
  <2>1. CASE j \in 1 .. L - 1
    <3>1. b >= m \/ Asked(c, m, j)
      BY <1>L, <1>b, <1>2, <1>5, <2>1 DEF IsFirst
    <3> QED BY <1>L, <1>b, <1>2, <1>5, <1>7, <1>8, <2>1, <3>1
  <2>2. CASE j = L /\ i # 3
    <3>1. m = i + 1 /\ c = d /\ p = "normal"
      BY <1>5, <2>2, RequestEq
    <3>2. b >= i + 1 \/ Asked(c, i + 1, L)
      BY <1>L, <1>b, <1>7, <1>9, <3>1 DEF GoesOn
    <3> QED BY <1>L, <1>b, <1>2, <1>5, <1>7, <1>8, <2>2, <3>1, <3>2
  <2> QED BY <1>L, <1>b, <1>2, <1>5, <2>1, <2>2
<1>12. /\ built'[c]["normal"] <= built'[c]["dlx"]
       /\ built'[c]["normal"] \in built[c]["normal"] .. 3
  BY <1>0, <1>b, <1>7, <1>9 DEF Parts
<1>13. IsBegun(c)'
  <2> SUFFICES ASSUME NEW t \in Threads, ConfigOf[t] = c, at'[t] # "dlx" \/ phase'[t] # "out"
               PROVE  built'[c]["dlx"] >= 1 \/ Asked(c, 1, Len(channel))'
    BY DEF IsBegun
  <2>1. at' = at /\ (phase'[t] # "out" => phase[t] # "out")
    BY <1>1 DEF Confirmed, Completes, AsksNext, NotifyAll, TypeOK
  <2>2. b >= 1 \/ Asked(c, 1, L)
    BY <1>L, <1>b, <2>1 DEF IsBegun
  <2> QED BY <1>L, <1>b, <1>2, <1>5, <1>7, <1>8, <2>2
<1> QED BY <1>10, <1>11, <1>12, <1>13

\* Nor does the answer to a request that is not of a declaration.
LEMMA OtherAnswerKeepsOrder ==
    ASSUME TypeOK, NEW c \in Delayed, GoesOn(c), IsFirst(c), channel # <<>>,
           channel' = Tail(channel), built' = built,
           \A m \in 1 .. 3 : channel[1] # Request(Steps[m], c, "dlx")
    PROVE  /\ GoesOn(c)' /\ IsFirst(c)'
           /\ Asked(c, 1, Len(channel)) => Asked(c, 1, Len(channel))'
<1>0. channel \in Seq(RequestSet)
  BY ChannelTypes
<1>1. PICK L \in Nat : L = Len(channel)
  BY <1>0
<1>2. /\ L # 0 /\ Len(channel') = L - 1
      /\ \A k \in 1 .. L - 1 : channel'[k] = channel[k + 1]
  BY <1>0, <1>1, ChannelTypes
<1>3. ASSUME NEW m \in 1 .. 3, NEW n \in 0 .. L, Asked(c, m, n)
      PROVE  Asked(c, m, n - 1)'
  <2>1. PICK k \in 1 .. n : channel[k] = Request(Steps[m], c, "dlx")
    BY <1>3 DEF Asked
  <2>2. k # 1
    BY <2>1
  <2>3. /\ k - 1 \in 1 .. n - 1
        /\ channel'[k - 1] = Request(Steps[m], c, "dlx")
    BY <1>2, <2>1, <2>2
  <2> QED BY <2>3 DEF Asked
<1>4. PICK b : b = built[c]["dlx"]
  OBVIOUS
<1>5. GoesOn(c)'
  <2> SUFFICES ASSUME b \in 1 .. 2 PROVE Asked(c, b + 1, Len(channel))'
    BY <1>4 DEF GoesOn
  <2>1. Asked(c, b + 1, L)
    BY <1>1, <1>4 DEF GoesOn
  <2> QED BY <1>2, <1>3, <2>1
<1>6. IsFirst(c)'
  <2> SUFFICES ASSUME NEW j \in 1 .. L - 1, NEW m \in 1 .. 3,
                      channel'[j] = Request(Steps[m], c, "normal")
               PROVE  b >= m \/ Asked(c, m, j - 1)'
    BY <1>2, <1>4 DEF IsFirst
  <2>1. b >= m \/ Asked(c, m, j)
    BY <1>1, <1>2, <1>4 DEF IsFirst
  <2> QED BY <1>1, <1>3, <2>1
<1> QED BY <1>1, <1>2, <1>3, <1>5, <1>6

DlxInv == lost = {} /\ \A c \in Delayed : DlxAhead(c)

\* In every state the dead-letter chain of every delayed queue is ahead, and
\* no message has expired into nowhere.
THEOREM DlxInvHolds == Spec => []DlxInv
<1>1. Init => DlxInv
  BY ClientAssumption DEF Init, DlxInv, DlxAhead, GoesOn, IsFirst, IsBegun, Parts
<1>2. TypeOK /\ DlxInv /\ [Next]_vars => DlxInv'
  <2> SUFFICES ASSUME TypeOK, DlxInv, [Next]_vars
               PROVE  DlxInv'
    OBVIOUS
  <2>0. /\ lost = {} /\ \A c \in Delayed : DlxAhead(c)
        /\ Delayed \subseteq Configs /\ Unsupported \cap Delayed = {}
        /\ at \in [Threads -> Calls] /\ phase \in [Threads -> Phases]
        /\ \A c \in Configs, p \in Parts : built[c][p] \in 0 .. 3 /\ waiting[c][p] \in Nat
        /\ waiting \in [Configs -> [Parts -> Nat]]
    BY ClientAssumption DEF DlxInv, TypeOK
  <2>s. ASSUME NEW c \in Delayed, UNCHANGED <<channel, built, closed>>,
               IsBegun(c) => IsBegun(c)',
               waiting'[c]["normal"] > 0 => built[c]["normal"] = 3
        PROVE  DlxAhead(c)'
    BY <2>0, <2>s DEF DlxAhead, GoesOn, IsFirst, Asked
  <2>b. ASSUME NEW c \in Delayed, UNCHANGED <<channel, built, at>>,
               \A t \in Threads : phase'[t] # "out" => phase[t] # "out"
        PROVE  IsBegun(c) => IsBegun(c)'
    BY <2>b DEF IsBegun, Asked
  <2>n. NotifyAll => \A t \in Threads : phase'[t] # "out" => phase[t] # "out"
    BY DEF NotifyAll
  <2>1. ASSUME NEW t \in Threads, Declare(t) PROVE DlxInv'
    <3>1. /\ at[t] \in Parts /\ ConfigOf[t] \in Configs /\ phase[t] = "out"
          /\ at' = at /\ phase' = [phase EXCEPT ![t] = "requested"]
          /\ channel' = Append(channel, Request(Steps[1], ConfigOf[t], at[t]))
          /\ UNCHANGED <<built, closed, waiting, lost>>
      BY <2>0, <2>1, StepsFacts, ClientAssumption DEF Declare, Begin, loop
    <3> SUFFICES ASSUME NEW c \in Delayed PROVE DlxAhead(c)'
      BY <2>0, <3>1 DEF DlxInv
    <3> SUFFICES ASSUME ~closed PROVE GoesOn(c)' /\ IsFirst(c)' /\ IsBegun(c)'
      BY <2>0, <3>1 DEF DlxAhead
    <3>2. GoesOn(c) /\ IsFirst(c) /\ IsBegun(c)
      BY <2>0 DEF DlxAhead
    <3>3. ASSUME NEW m \in 1 .. 3,
                 Request(Steps[1], ConfigOf[t], at[t]) = Request(Steps[m], c, "normal")
          PROVE  built[c]["dlx"] >= m \/ Asked(c, m, Len(channel))
      <4>1. m = 1 /\ ConfigOf[t] = c /\ at[t] = "normal"
        BY <3>3, RequestEq
      <4> QED BY <3>2, <4>1 DEF IsBegun
    <3>4. /\ GoesOn(c)' /\ IsFirst(c)'
          /\ \A m \in 1 .. 3 : Asked(c, m, Len(channel)) => Asked(c, m, Len(channel))'
      BY <3>1, <3>2, <3>3, NewRequest
    <3>5. ConfigOf[t] = c /\ at[t] = "dlx" => Asked(c, 1, Len(channel))'
      <4>1. /\ Len(channel') \in Nat \ {0}
            /\ channel'[Len(channel')] = Request(Steps[1], ConfigOf[t], at[t])
        BY <3>1, ChannelTypes
      <4> QED BY <4>1 DEF Asked
    <3>6. IsBegun(c)'
      <4> SUFFICES ASSUME NEW u \in Threads, ConfigOf[u] = c, at[u] # "dlx" \/ phase'[u] # "out"
                   PROVE  built[c]["dlx"] >= 1 \/ Asked(c, 1, Len(channel))'
        BY <3>1 DEF IsBegun
      <4>1. CASE at[u] # "dlx" \/ phase[u] # "out"
        BY <3>2, <3>4, <4>1 DEF IsBegun
      <4>2. CASE u = t /\ at[u] = "dlx"
        BY <3>5, <4>2
      <4>3. CASE u # t
        BY <2>0, <3>1, <4>1, <4>3
      <4> QED BY <4>1, <4>2, <4>3
    <3> QED BY <3>4, <3>6
  <2>2. ASSUME NEW t \in Threads, Consume(t) \/ Publish(t) PROVE DlxInv'
    <3>1. /\ at[t] = "ready"
          /\ UNCHANGED <<built, closed, waiting, lost>>
          /\ \A u \in Threads : at'[u] # "dlx" \/ phase'[u] # "out"
                                => at[u] # "dlx" \/ phase[u] # "out"
      BY <2>0, <2>2 DEF Consume, Begin, Publish, loop
    <3>2. PICK r : /\ channel' = Append(channel, r)
                   /\ \A m \in 1 .. 3, c \in Delayed : r # Request(Steps[m], c, "normal")
      <4>1. CASE Consume(t)
        <5>1. channel' = Append(channel, Request("consume", ConfigOf[t], "normal"))
          BY <4>1 DEF Consume, Begin
        <5> QED BY <5>1, RequestEq
      <4>2. CASE Publish(t)
        <5>1. channel' = Append(channel, Request("publish", t, "normal"))
          BY <4>2 DEF Publish
        <5> QED BY <5>1, RequestEq
      <4> QED BY <2>2, <4>1, <4>2
    <3> SUFFICES ASSUME NEW c \in Delayed PROVE DlxAhead(c)'
      BY <2>0, <3>1 DEF DlxInv
    <3> SUFFICES ASSUME ~closed PROVE GoesOn(c)' /\ IsFirst(c)' /\ IsBegun(c)'
      BY <2>0, <3>1 DEF DlxAhead
    <3>3. GoesOn(c) /\ IsFirst(c) /\ IsBegun(c)
      BY <2>0 DEF DlxAhead
    <3>4. /\ GoesOn(c)' /\ IsFirst(c)'
          /\ \A m \in 1 .. 3 : Asked(c, m, Len(channel)) => Asked(c, m, Len(channel))'
      BY <3>1, <3>2, <3>3, NewRequest
    <3> QED BY <3>1, <3>3, <3>4 DEF IsBegun
  <2>3. ASSUME NEW t \in Threads,
               DeclareThrows(t) \/ Sleep(t) \/ Return(t) \/ SpuriousWakeup(t)
        PROVE  DlxInv'
    <3>1. UNCHANGED <<channel, built, closed, waiting, lost>>
      BY <2>3 DEF DeclareThrows, Sleep, Return, SpuriousWakeup, loop
    <3>2. ASSUME NEW c \in Delayed, NEW u \in Threads, ConfigOf[u] = c,
                 at'[u] # "dlx" \/ phase'[u] # "out"
          PROVE  at[u] # "dlx" \/ phase[u] # "out"
      BY <2>0, <2>3, <3>2 DEF DeclareThrows, Sleep, Return, SpuriousWakeup
    <3>3. ASSUME NEW c \in Delayed PROVE IsBegun(c) => IsBegun(c)'
      BY <3>1, <3>2 DEF IsBegun, Asked
    <3> QED BY <2>0, <2>s, <3>1, <3>3 DEF DlxInv, DlxAhead
  <2>4. CASE Confirmed
    <3>1. ~closed /\ UNCHANGED <<closed, waiting, lost>>
      BY <2>4 DEF Confirmed
    <3> SUFFICES ASSUME NEW c \in Delayed PROVE DlxAhead(c)'
      BY <2>0, <3>1 DEF DlxInv
    <3>2. GoesOn(c) /\ IsFirst(c) /\ IsBegun(c) /\ built[c]["normal"] <= built[c]["dlx"]
      BY <2>0, <3>1 DEF DlxAhead
    <3>3. /\ GoesOn(c)' /\ IsFirst(c)' /\ IsBegun(c)'
          /\ built'[c]["normal"] <= built'[c]["dlx"]
          /\ built'[c]["normal"] \in built[c]["normal"] .. 3
      BY <2>4, <3>2, AnswerKeepsOrder
    <3>4. waiting[c]["normal"] > 0 => built[c]["normal"] = 3
      BY <2>0 DEF DlxAhead
    <3> QED BY <3>1, <3>3, <3>4 DEF DlxAhead
  <2>5. CASE Refused \/ ConsumerRefused
    <3>1. closed' = TRUE /\ UNCHANGED <<built, waiting, lost>>
      BY <2>5 DEF Refused, ConsumerRefused
    <3> QED BY <2>0, <3>1 DEF DlxInv, DlxAhead
  <2>6. CASE ConsumerAdded \/ PublishArrives
    <3>1. /\ channel # <<>> /\ channel' = Tail(channel) /\ channel[1] \in RequestSet
          /\ channel[1].step \in {"consume", "publish"}
          /\ UNCHANGED <<built, closed, lost, at, phase>>
      BY <2>6, ChannelTypes DEF ConsumerAdded, PublishArrives, Answers
    <3>2. \A m \in 1 .. 3, c \in Delayed : channel[1] # Request(Steps[m], c, "dlx")
      BY <3>1, StepsFacts DEF Request
    <3> SUFFICES ASSUME NEW c \in Delayed PROVE DlxAhead(c)'
      BY <2>0, <3>1 DEF DlxInv
    <3>3. ASSUME ~closed PROVE GoesOn(c)' /\ IsFirst(c)' /\ IsBegun(c)'
      <4>1. GoesOn(c) /\ IsFirst(c) /\ IsBegun(c)
        BY <2>0, <3>3 DEF DlxAhead
      <4>2. /\ GoesOn(c)' /\ IsFirst(c)'
            /\ Asked(c, 1, Len(channel)) => Asked(c, 1, Len(channel))'
        BY <3>1, <3>2, <4>1, OtherAnswerKeepsOrder
      <4> QED BY <3>1, <4>1, <4>2 DEF IsBegun
    <3>4. waiting'[c]["normal"] > 0 => built[c]["normal"] = 3
      <4>1. CASE ConsumerAdded
        BY <2>0, <4>1 DEF ConsumerAdded, DlxAhead
      <4>2. CASE PublishArrives
        <5> DEFINE d == ConfigOf[channel[1].config]
        <5>1. \/ UNCHANGED waiting
              \/ built[d]["normal"] = 3 /\ waiting' = [waiting EXCEPT ![d]["normal"] = @ + 1]
          BY <3>1, <4>2, ChannelTypes DEF PublishArrives
        <5> HIDE DEF d
        <5> QED BY <2>0, <5>1 DEF DlxAhead
      <4> QED BY <2>6, <4>1, <4>2
    <3> QED BY <2>0, <3>1, <3>3, <3>4 DEF DlxAhead
  <2>7. ASSUME NEW d \in Configs, Receive(d) \/ Arrive(d) PROVE DlxInv'
    <3>1. /\ UNCHANGED <<channel, built, closed, lost, at>>
          /\ \A t \in Threads : phase'[t] # "out" => phase[t] # "out"
      BY <2>7, <2>n DEF Receive, Interferes, Arrive
    <3>2. ASSUME NEW c \in Delayed, waiting'[c]["normal"] > 0 PROVE built[c]["normal"] = 3
      BY <2>0, <2>7, <3>2 DEF Receive, Arrive, DlxAhead, Parts
    <3> QED BY <2>0, <2>s, <2>b, <3>1, <3>2 DEF DlxInv
  <2>8. ASSUME NEW d \in Configs, Expire(d) PROVE DlxInv'
    <3>1. d \in Delayed /\ waiting[d]["normal"] > 0 /\ UNCHANGED <<channel, built, closed, at, phase>>
      BY <2>8 DEF Expire
    <3>2. built[d]["dlx"] = 3
      BY <2>0, <3>1 DEF DlxAhead, Parts
    <3>3. /\ lost' = lost
          /\ waiting' = [waiting EXCEPT ![d]["normal"] = @ - 1, ![d]["dlx"] = @ + 1]
      BY <2>8, <3>2 DEF Expire
    <3>4. ASSUME NEW c \in Delayed, waiting'[c]["normal"] > 0 PROVE built[c]["normal"] = 3
      BY <2>0, <3>1, <3>3, <3>4 DEF DlxAhead, Parts
    <3> QED BY <2>0, <2>s, <2>b, <3>1, <3>3, <3>4 DEF DlxInv
  <2>9. CASE Aborts \/ UNCHANGED vars
    <3>1. UNCHANGED <<at, phase, channel, built, closed, waiting, lost>>
      BY <2>9 DEF Aborts, vars, loop
    <3> QED BY <2>0, <2>s, <2>b, <3>1 DEF DlxInv, DlxAhead
  <2> QED BY <2>1, <2>2, <2>3, <2>4, <2>5, <2>6, <2>7, <2>8, <2>9
          DEF Next, CallStep, LoopStep
<1> QED BY <1>1, <1>2, TypeCorrect, PTL DEF Spec

\* A message that expires in a delayed queue always has a dead-letter queue
\* to go to, whatever the threads of the client do and however early their
\* waits end.
THEOREM DeadLettersFirstHolds == Spec => []DeadLettersFirst
<1>1. TypeOK /\ DlxInv => DeadLettersFirst
  <2> SUFFICES ASSUME TypeOK, DlxInv, NEW c \in Delayed, built[c]["normal"] = 3
               PROVE  built[c]["dlx"] = 3
    BY DEF DeadLettersFirst, DlxInv
  <2>1. c \in Configs /\ built[c]["dlx"] \in 0 .. 3
    BY ClientAssumption DEF TypeOK, Parts
  <2> QED BY <2>1 DEF DlxInv, DlxAhead
<1> QED BY <1>1, TypeCorrect, DlxInvHolds, PTL

-----------------------------------------------------------------------------
(* Whoever shares a client.  While no wait of a declaration is disturbed,  *)
(* the one chain of requests in the channel is the owner's, so that only   *)
(* its last answer ends the owner's wait.                                  *)

\* Request i belongs to the call that the owner of the mutexes waits for.
OwnChain(i) ==
    /\ channel[i].step \in Range(Steps) /\ owner \in Threads
    /\ channel[i].config = ConfigOf[owner] /\ channel[i].part = at[owner]
    /\ phase[owner] \in {"requested", "asleep"}

\* Request i is the message of a Publisher that has been constructed.
OwnMessage(i) == channel[i].step = "publish" /\ at[channel[i].config] = "done"

Known(i) == OwnChain(i) \/ OwnMessage(i) \/ channel[i].step = "consume"

\* Thread t takes what it declared for complete, and it is not.
Misled(t) ==
    \/ phase[t] = "notified" /\ at[t] \in Parts /\ built[ConfigOf[t]][at[t]] # 3
    \/ t \in Unbound

Alone ==
    /\ \A i \in 1 .. Len(channel) : Known(i)
    /\ \A i, j \in 1 .. Len(channel) : OwnChain(i) /\ OwnChain(j) => i = j
    /\ \A t \in Threads : Misled(t) => failing
    /\ \A t, u \in Threads : Misled(t) /\ Misled(u) => t = u
    /\ dropped = {} \/ closed

AloneInv == ~disturbed => Alone

\* An answer to the first request takes it out of the channel, and the others
\* stay whose they were as long as the owner stays where it is.
LEMMA AnsweredAlone ==
    ASSUME TypeOK, Alone, channel # <<>>, channel' = Tail(channel),
           at' = at, owner' = owner,
           \/ channel[1].step \in Range(Steps)
           \/ owner \in Threads /\ at[owner] \in Parts => phase'[owner] = phase[owner]
    PROVE  /\ \A i \in 1 .. Len(channel') : Known(i)'
           /\ \A i, j \in 1 .. Len(channel') : OwnChain(i)' /\ OwnChain(j)' => i = j
<1>s. channel \in Seq(RequestSet)
  BY ChannelTypes
<1>0. PICK L \in Nat : L = Len(channel)
  BY <1>s
<1>1. /\ Len(channel') = L - 1 /\ L # 0
      /\ \A i \in 1 .. L - 1 : channel'[i] = channel[i + 1] /\ i + 1 \in 1 .. L
      /\ 1 \in 1 .. L
  BY <1>0, ChannelTypes
<1>2. CASE channel[1].step \in Range(Steps)
  <2>1. OwnChain(1)
    BY <1>0, <1>1, <1>2, StepsFacts DEF Alone, Known, OwnMessage
  <2>2. ASSUME NEW i \in 1 .. L - 1
        PROVE  (OwnMessage(i + 1) \/ channel[i + 1].step = "consume") /\ ~OwnChain(i + 1)
    <3>1. i + 1 \in 1 .. L /\ i + 1 # 1
      BY <1>1
    <3> QED BY <1>0, <1>1, <2>1, <3>1 DEF Alone, Known
  <2>3. ASSUME NEW i \in 1 .. L - 1 PROVE Known(i)' /\ ~OwnChain(i)'
    <3>1. \/ channel'[i].step = "publish" /\ at'[channel'[i].config] = "done"
          \/ channel'[i].step = "consume"
      BY <1>1, <2>2 DEF OwnMessage
    <3> QED BY <3>1, StepsFacts DEF Known, OwnMessage, OwnChain
  <2> QED BY <1>1, <2>3
<1>3. ASSUME owner \in Threads /\ at[owner] \in Parts => phase'[owner] = phase[owner]
      PROVE  /\ \A i \in 1 .. Len(channel') : Known(i)'
             /\ \A i, j \in 1 .. Len(channel') : OwnChain(i)' /\ OwnChain(j)' => i = j
  <2>1. ASSUME NEW i \in 1 .. L - 1
        PROVE  /\ OwnChain(i)' <=> OwnChain(i + 1)
               /\ Known(i)' <=> Known(i + 1)
    <3>1. channel[i + 1].part \in Parts
      BY <1>0, <1>s, <1>1 DEF RequestSet, Parts
    <3>2. OwnChain(i)' <=> OwnChain(i + 1)
      BY <1>1, <1>3, <3>1 DEF OwnChain
    <3> QED BY <1>1, <3>2 DEF Known, OwnMessage
  <2>2. ASSUME NEW i \in 1 .. L - 1, NEW j \in 1 .. L - 1, OwnChain(i)', OwnChain(j)'
        PROVE  i = j
    <3>1. i + 1 = j + 1
      BY <1>0, <1>1, <2>1, <2>2 DEF Alone
    <3> QED BY <3>1
  <2> QED BY <1>0, <1>1, <2>1, <2>2 DEF Alone
<1> QED BY <1>2, <1>3

\* Undisturbed, the invariant above holds in every state.
THEOREM AloneInvHolds == Spec => []AloneInv
<1>1. Init => AloneInv
  <2> SUFFICES ASSUME Init PROVE Alone
    BY DEF AloneInv
  <2>1. \A t \in Threads : at[t] \in Parts /\ phase[t] = "out"
    BY DEF Init, Parts
  <2>2. \A t \in Threads : ~Misled(t)
    BY <2>1 DEF Misled, Unbound, Parts
  <2> QED BY <2>2 DEF Init, Alone
<1>2. TypeOK /\ OneCaller /\ AloneInv /\ [Next]_vars => AloneInv'
  <2> SUFFICES ASSUME TypeOK, OneCaller, AloneInv, [Next]_vars, ~disturbed'
               PROVE  Alone'
    BY DEF AloneInv
  <2>0. /\ at \in [Threads -> Calls] /\ phase \in [Threads -> Phases]
        /\ \A t \in Threads : phase[t] # "out" => at[t] \in Parts \cup {"consume"}
        /\ built \in [Configs -> [Parts -> 0 .. 3]]
        /\ owner \in Threads \cup {Free} /\ Free \notin Threads
        /\ \A t \in Threads : phase[t] # "out" <=> owner = t
        /\ \A t \in Threads : ConfigOf[t] \in Configs
        /\ channel \in Seq(RequestSet)
    BY ChannelTypes, ClientAssumption DEF TypeOK, OneCaller
  <2>i. ASSUME Interferes
        PROVE  ~disturbed /\ \A t \in Threads : at[t] \in Parts => phase'[t] = phase[t]
    BY <2>0, <2>i DEF Interferes, NotifyAll
  <2>u. ~disturbed
    BY <2>i DEF Next, CallStep, Declare, DeclareThrows, Begin, Consume, Sleep, Return,
              SpuriousWakeup, Publish, LoopStep, Confirmed, Refused, Aborts, ConsumerAdded,
              ConsumerRefused, PublishArrives, Receive, Arrive, Expire, vars, env
  <2>a. /\ Alone
        /\ \A i \in 1 .. Len(channel) : Known(i)
        /\ \A i, j \in 1 .. Len(channel) : OwnChain(i) /\ OwnChain(j) => i = j
        /\ \A t \in Threads : Misled(t) => failing
        /\ \A t, u \in Threads : Misled(t) /\ Misled(u) => t = u
        /\ dropped = {} \/ closed
    BY <2>u DEF AloneInv, Alone
  <2>L. PICK L \in Nat : L = Len(channel)
    BY <2>0
  <2>o. \A i \in 1 .. L : OwnChain(i) =>
          /\ owner \in Threads /\ phase[owner] \in {"requested", "asleep"} /\ at[owner] \in Parts
    BY <2>0, <2>L DEF OwnChain, RequestSet, Parts
  <2>e. \A i \in 1 .. L : /\ OwnMessage(i) => channel[i].config \in Threads
                          /\ channel[i].part \in Parts
    BY <2>0, <2>L, StepsFacts DEF OwnMessage, RequestSet, Parts
  <2> DEFINE Whose == /\ \A i \in 1 .. Len(channel') : Known(i)'
                      /\ \A i, j \in 1 .. Len(channel') : OwnChain(i)' /\ OwnChain(j)' => i = j
  \* Nobody is misled who was not, nothing gets lost.
  <2>s. ASSUME Whose, dropped' = dropped \/ closed', closed => closed', failing => failing',
               \A t \in Threads : Misled(t)' => Misled(t)
        PROVE  Alone'
    BY <2>a, <2>s DEF Alone
  <2>m. ASSUME built' = built, NEW t \in Threads, at'[t] = at[t],
               phase'[t] = "notified" /\ at[t] \in Parts => phase[t] = "notified"
        PROVE  Misled(t)' => Misled(t)
    BY <2>m DEF Misled, Unbound
  <2> HIDE DEF Whose
  <2>w. ASSUME channel' = channel,
               \A i \in 1 .. L : OwnChain(i)' => OwnChain(i),
               \A i \in 1 .. L : OwnChain(i) => OwnChain(i)',
               \A i \in 1 .. L : OwnMessage(i) => OwnMessage(i)'
        PROVE  Whose
    BY <2>a, <2>L, <2>w DEF Whose, Known
  <2>p. ASSUME NEW r \in RequestSet
        PROVE  /\ Len(Append(channel, r)) = L + 1 /\ Append(channel, r)[L + 1] = r
               /\ \A i \in 1 .. L : Append(channel, r)[i] = channel[i]
    BY <2>0, <2>L, AppendProperties
  <2>1. ASSUME NEW t \in Threads, Declare(t) PROVE Alone'
    <3>1. /\ at[t] \in Parts /\ phase[t] = "out" /\ owner = Free
          /\ owner' = t /\ at' = at /\ phase' = [phase EXCEPT ![t] = "requested"]
          /\ channel' = Append(channel, Request("exchange", ConfigOf[t], at[t]))
          /\ UNCHANGED <<closed, built, dropped, failing>>
      BY <2>0, <2>1 DEF Declare, Begin, loop
    <3>2. /\ Len(channel') = L + 1
          /\ channel'[L + 1] = Request("exchange", ConfigOf[t], at[t])
          /\ \A i \in 1 .. L : channel'[i] = channel[i]
      <4>1. Request("exchange", ConfigOf[t], at[t]) \in RequestSet
        BY <2>0, <3>1, StepsFacts DEF Request, RequestSet
      <4> QED BY <2>p, <3>1, <4>1
    <3>3. OwnChain(L + 1)'
      BY <2>0, <3>1, <3>2, StepsFacts DEF OwnChain, Request
    <3>4. ASSUME NEW i \in 1 .. L PROVE Known(i)' /\ ~OwnChain(i)'
      <4>1. OwnMessage(i) \/ channel[i].step = "consume"
        BY <2>0, <2>a, <2>L, <2>o, <3>1 DEF Known
      <4> QED BY <3>1, <3>2, <4>1, StepsFacts DEF Known, OwnMessage, OwnChain
    <3>5. Whose
      BY <3>2, <3>3, <3>4 DEF Whose, Known
    <3>6. ASSUME NEW u \in Threads PROVE Misled(u)' => Misled(u)
      BY <2>0, <2>m, <3>1
    <3> QED BY <2>s, <3>1, <3>5, <3>6
  <2>2. ASSUME NEW t \in Threads, DeclareThrows(t) \/ Sleep(t) PROVE Alone'
    <3>1. /\ channel' = channel /\ owner' = owner
          /\ UNCHANGED <<closed, built, dropped, failing>>
          /\ owner \in Threads => at'[owner] = at[owner]
          /\ \A u \in Threads : at[u] = "done" => at'[u] = "done"
          /\ owner \in Threads => (phase'[owner] \in {"requested", "asleep"}
                                    <=> phase[owner] \in {"requested", "asleep"})
      BY <2>0, <2>2 DEF DeclareThrows, Sleep, Parts, loop
    <3>2. Whose
      BY <2>e, <2>w, <3>1 DEF OwnChain, OwnMessage
    <3>3. ASSUME NEW u \in Threads
          PROVE  /\ at'[u] = at[u] \/ at'[u] = "failed"
                 /\ phase'[u] = "notified" => phase[u] = "notified"
      BY <2>0, <2>2 DEF DeclareThrows, Sleep
    <3>4. ASSUME NEW u \in Threads PROVE Misled(u)' => Misled(u)
      BY <3>1, <3>3 DEF Misled, Unbound, Parts
    <3> QED BY <2>s, <3>1, <3>2, <3>4
  <2>3. ASSUME NEW t \in Threads, Return(t) PROVE Alone'
    <3>1. /\ phase[t] = "notified" /\ owner = t /\ at[t] \in Parts \cup {"consume"}
          /\ owner' = Free /\ channel' = channel
          /\ at' = [at EXCEPT ![t] = After(at[t])]
          /\ phase' = [phase EXCEPT ![t] = "out"]
          /\ UNCHANGED <<closed, built, dropped, failing>>
      BY <2>0, <2>3 DEF Return, loop
    <3>2. \/ at[t] = "dlx" /\ After(at[t]) = "normal"
          \/ at[t] = "normal" /\ After(at[t]) = "ready"
          \/ at[t] = "consume" /\ After(at[t]) = "done"
      BY <3>1 DEF After, Parts
    <3>4. \A i \in 1 .. L : ~OwnChain(i) /\ ~OwnChain(i)'
      BY <2>0, <2>o, <3>1 DEF OwnChain
    <3>5. \A i \in 1 .. L : OwnMessage(i) => OwnMessage(i)'
      BY <2>0, <2>e, <3>1, <3>2 DEF OwnMessage
    <3>6. Whose
      BY <2>w, <3>1, <3>4, <3>5
    <3>7. ASSUME NEW u \in Threads PROVE Misled(u)' => Misled(u)
      <4>1. CASE u = t
        <5>1. at'[t] = After(at[t]) /\ phase'[t] = "out"
          BY <2>0, <3>1
        <5> QED BY <3>1, <3>2, <4>1, <5>1 DEF Misled, Unbound, Parts
      <4>2. CASE u # t
        BY <2>0, <2>m, <3>1, <4>2
      <4> QED BY <4>1, <4>2
    <3> QED BY <2>s, <3>1, <3>6, <3>7
  <2>4. ASSUME NEW t \in Threads, Publish(t) PROVE Alone'
    <3>1. /\ at[t] = "ready" /\ at' = [at EXCEPT ![t] = "done"]
          /\ channel' = Append(channel, Request("publish", t, "normal"))
          /\ UNCHANGED <<phase, owner, closed, built, dropped, failing>>
      BY <2>4 DEF Publish, loop
    <3>2. /\ Len(channel') = L + 1
          /\ channel'[L + 1] = Request("publish", t, "normal")
          /\ \A i \in 1 .. L : channel'[i] = channel[i]
      <4>1. Request("publish", t, "normal") \in RequestSet
        BY DEF Request, RequestSet
      <4> QED BY <2>p, <3>1, <4>1
    <3>3. OwnMessage(L + 1)' /\ ~OwnChain(L + 1)'
      BY <2>0, <3>1, <3>2, StepsFacts DEF OwnMessage, OwnChain, Request
    <3>4. owner # t
      BY <2>0, <3>1 DEF Parts
    <3>6. ASSUME NEW i \in 1 .. L
          PROVE  (OwnMessage(i) => OwnMessage(i)') /\ (OwnChain(i)' <=> OwnChain(i))
      BY <2>0, <2>e, <3>1, <3>2, <3>4 DEF OwnMessage, OwnChain
    <3>7. Whose
      BY <2>a, <2>L, <3>2, <3>3, <3>6 DEF Whose, Known
    <3>8. ASSUME NEW u \in Threads PROVE Misled(u)' => Misled(u)
      BY <2>0, <3>1 DEF Misled, Unbound, Parts
    <3> QED BY <2>s, <3>1, <3>7, <3>8
  <2>5. ASSUME NEW t \in Threads, Consume(t) PROVE Alone'
    <3>1. /\ at[t] = "ready" /\ phase[t] = "out" /\ owner = Free /\ owner' = t
          /\ at' = [at EXCEPT ![t] = "consume"] /\ phase' = [phase EXCEPT ![t] = "requested"]
          /\ channel' = Append(channel, Request("consume", ConfigOf[t], "normal"))
          /\ UNCHANGED <<closed, built, dropped, failing>>
      BY <2>5 DEF Consume, Begin, loop
    <3>2. /\ Len(channel') = L + 1
          /\ channel'[L + 1] = Request("consume", ConfigOf[t], "normal")
          /\ \A i \in 1 .. L : channel'[i] = channel[i]
      <4>1. Request("consume", ConfigOf[t], "normal") \in RequestSet
        BY <2>0 DEF Request, RequestSet
      <4> QED BY <2>p, <3>1, <4>1
    <3>3. channel'[L + 1].step = "consume" /\ ~OwnChain(L + 1)'
      BY <3>2, StepsFacts DEF OwnChain, Request
    <3>4. ASSUME NEW i \in 1 .. L PROVE Known(i)' /\ ~OwnChain(i)'
      <4>1. OwnMessage(i) \/ channel[i].step = "consume"
        BY <2>0, <2>a, <2>L, <2>o, <3>1 DEF Known
      <4>2. OwnMessage(i) => at'[channel[i].config] = "done"
        BY <2>0, <2>e, <3>1 DEF OwnMessage
      <4> QED BY <3>2, <4>1, <4>2, StepsFacts DEF Known, OwnMessage, OwnChain
    <3>5. Whose
      BY <3>2, <3>3, <3>4 DEF Whose, Known
    <3>6. ASSUME NEW u \in Threads PROVE Misled(u)' => Misled(u)
      BY <2>0, <3>1 DEF Misled, Unbound
    <3> QED BY <2>s, <3>1, <3>5, <3>6
  <2>6. ASSUME NEW t \in Threads, SpuriousWakeup(t) PROVE Alone'
    <3>1. /\ phase[t] = "asleep" /\ at[t] \notin Parts
          /\ phase' = [phase EXCEPT ![t] = "notified"]
          /\ UNCHANGED <<at, owner, channel, closed, built, dropped, failing>>
      BY <2>6 DEF SpuriousWakeup, loop
    <3>2. \A i \in 1 .. L : ~OwnChain(i) /\ ~OwnChain(i)'
      BY <2>0, <2>e, <2>o, <3>1 DEF OwnChain
    <3>3. Whose
      BY <2>w, <3>1, <3>2 DEF OwnMessage
    <3>4. ASSUME NEW u \in Threads PROVE Misled(u)' => Misled(u)
      BY <2>0, <2>m, <3>1
    <3> QED BY <2>s, <3>1, <3>3, <3>4
  <2>7. CASE Confirmed
    <3>1. PICK m \in 1 .. 3 :
            LET r == Head(channel)
            IN /\ r.step = Steps[m]
               /\ Made(r, m)
               /\ IF m = Len(Steps) THEN Completes ELSE AsksNext(r, m)
      BY <2>7, StepsFacts DEF Confirmed
    <3>2. /\ channel # <<>> /\ Head(channel) = channel[1] /\ channel[1].step = Steps[m]
          /\ L # 0 /\ 1 \in 1 .. L /\ channel[1].step \in Range(Steps)
          /\ at' = at /\ owner' = owner /\ ~failing
          /\ UNCHANGED <<closed, dropped, failing>>
      BY <2>0, <2>7, <2>L, <3>1, StepsFacts, ChannelTypes DEF Confirmed, Answers
    <3>3. OwnChain(1)
      BY <2>a, <2>L, <3>2, StepsFacts DEF Known, OwnMessage
    <3>4. /\ owner \in Threads /\ channel[1].config = ConfigOf[owner]
          /\ channel[1].part = at[owner] /\ at[owner] \in Parts
          /\ phase[owner] \in {"requested", "asleep"}
      BY <2>o, <3>2, <3>3 DEF OwnChain
    <3>5. ASSUME NEW c \in Configs, NEW p \in Parts
          PROVE  /\ built[c][p] = 3 => built'[c][p] = 3
                 /\ m = 3 /\ c = ConfigOf[owner] /\ p = at[owner] => built'[c][p] = 3
      <4>1. built' = [built EXCEPT ![ConfigOf[owner]][at[owner]] = IF @ > m THEN @ ELSE m]
        BY <3>1, <3>2, <3>4 DEF Made
      <4>2. PICK d \in Configs, q \in Parts : d = ConfigOf[owner] /\ q = at[owner]
        BY <2>0, <3>4
      <4>3. built' = [built EXCEPT ![d][q] = IF built[d][q] > m THEN built[d][q] ELSE m]
        BY <2>0, <4>1, <4>2
      <4>4. /\ built[d][q] \in 0 .. 3
            /\ built'[c][p] = IF c = d /\ p = q
                              THEN (IF built[d][q] > m THEN built[d][q] ELSE m)
                              ELSE built[c][p]
        BY <2>0, <4>3
      <4> QED BY <4>2, <4>4
    <3>6. ASSUME NEW t \in Threads,
                 phase'[t] # phase[t] => m = 3 /\ t = owner
          PROVE  ~Misled(t)'
      <4>1. ~Misled(t)
        BY <2>a, <3>2
      <4>2. "normal" \in Parts
        BY DEF Parts
      <4>3. t \notin Unbound'
        BY <2>0, <3>2, <3>5, <4>1, <4>2 DEF Misled, Unbound
      <4>4. CASE phase'[t] = phase[t]
        BY <2>0, <3>2, <3>5, <4>1, <4>3, <4>4 DEF Misled
      <4>5. CASE phase'[t] # phase[t]
        BY <2>0, <3>2, <3>4, <3>5, <3>6, <4>3, <4>5 DEF Misled
      <4> QED BY <4>4, <4>5
    <3>7. CASE m = 3
      <4>1. channel' = Tail(channel) /\ NotifyAll
        BY <3>1, <3>7, StepsFacts DEF Completes
      <4>2. Whose
        BY <2>a, <3>2, <4>1, AnsweredAlone DEF Whose
      <4>3. ASSUME NEW t \in Threads PROVE ~Misled(t)'
        <5>1. phase'[t] # phase[t] => t = owner
          BY <2>0, <4>1 DEF NotifyAll
        <5> QED BY <3>6, <3>7, <5>1
      <4> QED BY <2>s, <3>2, <4>2, <4>3
    <3>8. CASE m # 3
      <4> DEFINE r == Request(Steps[m + 1], channel[1].config, channel[1].part)
      <4>1. channel' = Append(Tail(channel), r) /\ phase' = phase
        BY <3>1, <3>2, <3>8, StepsFacts DEF AsksNext
      <4>2. r.step \in Range(Steps) /\ r.config = channel[1].config /\ r.part = channel[1].part
        BY <3>8, StepsFacts DEF Request
      <4> HIDE DEF r
      <4>3. /\ Len(channel') = L /\ channel'[L] = r
            /\ \A i \in 1 .. L - 1 : channel'[i] = channel[i + 1] /\ i + 1 \in 1 .. L
        <5>1. /\ Tail(channel) \in Seq(RequestSet) /\ Len(Tail(channel)) = L - 1
              /\ \A i \in 1 .. L - 1 : Tail(channel)[i] = channel[i + 1]
          BY <2>L, <3>2, ChannelTypes
        <5> QED BY <2>L, <3>2, <4>1, <5>1
      <4>4. OwnChain(L)'
        BY <3>2, <3>4, <4>1, <4>2, <4>3 DEF OwnChain
      <4>5. ASSUME NEW i \in 1 .. L - 1 PROVE Known(i)' /\ ~OwnChain(i)'
        <5>1. OwnMessage(i + 1) \/ channel[i + 1].step = "consume"
          <6>1. i + 1 \in 1 .. L /\ i + 1 # 1
            BY <4>3
          <6> QED BY <2>a, <2>L, <3>2, <3>3, <6>1 DEF Known
        <5> QED BY <3>2, <4>3, <5>1, StepsFacts DEF Known, OwnMessage, OwnChain
      <4>6. Whose
        BY <3>2, <4>3, <4>4, <4>5 DEF Whose, Known
      <4>7. ASSUME NEW t \in Threads PROVE ~Misled(t)'
        BY <3>6, <4>1
      <4> QED BY <2>s, <3>2, <4>6, <4>7
    <3> QED BY <3>7, <3>8
  \* The one thread that a refusal wakes is the owner.
  <2>8. CASE Refused
    <3>1. /\ channel # <<>> /\ channel' = Tail(channel) /\ at' = at /\ owner' = owner
          /\ channel[1].step \in Range(Steps) /\ failing' = TRUE /\ closed' = TRUE
          /\ UNCHANGED <<built, dropped>> /\ ~failing /\ NotifyAll
      BY <2>8, ChannelTypes DEF Refused, Answers
    <3>2. Whose
      BY <2>a, <3>1, AnsweredAlone DEF Whose
    <3>3. ASSUME NEW t \in Threads, Misled(t)' PROVE t = owner
      <4>1. ~Misled(t)
        BY <2>a, <3>1
      <4> QED BY <2>0, <3>1, <3>3, <4>1 DEF Misled, Unbound, NotifyAll
    <3> QED BY <2>a, <3>1, <3>2, <3>3 DEF Alone, Whose
  <2>9. CASE ConsumerAdded \/ ConsumerRefused
    <3>1. /\ channel # <<>> /\ channel' = Tail(channel) /\ at' = at /\ owner' = owner
          /\ UNCHANGED <<built, dropped, failing>>
          /\ closed => closed'
      BY <2>9 DEF ConsumerAdded, ConsumerRefused, Answers
    <3>2. \A t \in Threads : at[t] \in Parts => phase'[t] = phase[t]
      BY <2>9, <2>i DEF ConsumerAdded, ConsumerRefused
    <3>3. Whose
      BY <2>a, <3>1, <3>2, AnsweredAlone DEF Whose
    <3>4. ASSUME NEW u \in Threads PROVE Misled(u)' => Misled(u)
      BY <2>m, <3>1, <3>2
    <3> QED BY <2>s, <3>1, <3>3, <3>4
  <2>10. CASE PublishArrives
    <3> DEFINE t == channel[1].config
    <3>1. /\ channel # <<>> /\ channel' = Tail(channel) /\ 1 \in 1 .. Len(channel)
          /\ channel[1].step = "publish" /\ t \in Threads /\ ~failing
          /\ UNCHANGED <<at, phase, owner, closed, built, failing>>
      BY <2>0, <2>10, ChannelTypes, StepsFacts DEF PublishArrives, Answers, RequestSet
    <3>2. Whose
      BY <2>a, <3>1, AnsweredAlone DEF Whose
    <3>3. at[t] = "done"
      BY <2>a, <3>1, StepsFacts DEF Known, OwnMessage, OwnChain
    <3>4. built[ConfigOf[t]]["normal"] = 3
      BY <2>a, <3>1, <3>3 DEF Misled, Unbound
    <3>5. closed \/ dropped' = dropped
      BY <2>10, <3>1, <3>4, ChannelTypes DEF PublishArrives
    <3>6. ASSUME NEW u \in Threads PROVE Misled(u)' => Misled(u)
      BY <2>m, <3>1
    <3> QED BY <2>s, <3>1, <3>2, <3>5, <3>6
  <2>11. ASSUME UNCHANGED <<at, owner, channel, closed, built, dropped, failing>>,
                \A t \in Threads : at[t] \in Parts => phase'[t] = phase[t]
         PROVE  Alone'
    <3>1. \A i \in 1 .. L : OwnChain(i)' <=> OwnChain(i)
      BY <2>e, <2>11 DEF OwnChain
    <3>2. Whose
      BY <2>w, <2>11, <3>1 DEF OwnMessage
    <3>3. ASSUME NEW u \in Threads PROVE Misled(u)' => Misled(u)
      BY <2>m, <2>11
    <3> QED BY <2>s, <2>11, <3>2, <3>3
  <2>12. ASSUME NEW c \in Configs, Receive(c) PROVE Alone'
    BY <2>i, <2>11, <2>12 DEF Receive
  <2>13. CASE \/ \E c \in Configs : Arrive(c) \/ Expire(c)
              \/ Aborts \/ UNCHANGED vars
    BY <2>11, <2>13 DEF Arrive, Expire, Aborts, vars, loop
  <2> QED BY <2>1, <2>2, <2>3, <2>4, <2>5, <2>6, <2>7, <2>8, <2>9, <2>10, <2>12, <2>13
          DEF Next, CallStep, LoopStep
<1> QED BY <1>1, <1>2, TypeCorrect, OneCallerHolds, PTL DEF Spec

\* However many declare, consume and publish on a client: as long as nothing
\* disturbs the wait of a declaration, whoever was constructed has its
\* exchange, queue and binding, but for the one whose declaration was refused
\* in the moment before the process aborts.
THEOREM BoundUnlessDisturbedHolds == Spec => []BoundUnlessDisturbed
<1>1. AloneInv => BoundUnlessDisturbed
  <2> SUFFICES ASSUME Alone, Unbound # {}
               PROVE  failing /\ \E t \in Threads : Unbound = {t}
    BY DEF AloneInv, BoundUnlessDisturbed
  <2>1. PICK t \in Threads : t \in Unbound
    BY DEF Unbound
  <2>2. \A u \in Unbound : u \in Threads /\ u = t
    BY <2>1 DEF Alone, Misled, Unbound
  <2>3. Unbound = {t}
    BY <2>1, <2>2
  <2> QED BY <2>1, <2>3 DEF Alone, Misled
<1> QED BY <1>1, AloneInvHolds, PTL

\* What the Publishers among them send reaches its queue, unless an error has
\* closed the channel.
THEOREM PublishedIsQueuedHolds == Spec => []PublishedIsQueued
<1>1. AloneInv => PublishedIsQueued
  BY DEF AloneInv, Alone, PublishedIsQueued
<1> QED BY <1>1, AloneInvHolds, PTL

-----------------------------------------------------------------------------
(* Every call has something to wait for.                                   *)

\* Thread t may take request r for one of its call.
AskedFor(r, t) == /\ r.config = ConfigOf[t]
                  /\ \/ at[t] = r.part /\ r.step \in Range(Steps)
                     \/ at[t] = r.step

\* A chain of callbacks ends with its last part or with an error, and goes on
\* until then, whatever the other threads do on the channel: the request at
\* the head is followed by the next of its chain, a thread that enters a call
\* puts in its own, and nothing takes a request out unanswered
\* (rabbitmq.cc:93-112,139-168).
THEOREM ChainsGoOnHolds == Spec => []ChainsGoOn
<1>1. Init => ChainsGoOn
  BY DEF Init, ChainsGoOn
<1>2. TypeOK /\ ChainsGoOn /\ [Next]_vars => ChainsGoOn'
  <2> SUFFICES ASSUME TypeOK, ChainsGoOn, [Next]_vars PROVE ChainsGoOn'
    OBVIOUS
  <2>0. /\ at \in [Threads -> Calls] /\ phase \in [Threads -> Phases]
        /\ \A t \in Threads : phase[t] # "out" => at[t] \in Parts \cup {"consume"}
        /\ \A t \in Threads : phase[t] # "out" => Unanswered(t) \/ Served(t)
        /\ \A t \in Threads : ConfigOf[t] \in Configs
        /\ built \in [Configs -> [Parts -> 0 .. 3]]
    BY ClientAssumption DEF TypeOK, ChainsGoOn
  <2>c. /\ channel \in Seq(RequestSet) /\ Len(channel) \in Nat
        /\ DOMAIN channel = 1 .. Len(channel)
    BY ChannelTypes, LenProperties
  <2> DEFINE Waits(t) == phase[t] # "out" => Unanswered(t) \/ Served(t)
  \* A request that stays in the channel, or what came of it, is enough.
  <2>k. ASSUME NEW t \in Threads, at'[t] = at[t], phase'[t] # "out" => phase[t] # "out",
               Served(t) => Served(t)',
               \A i \in DOMAIN channel : AskedFor(channel[i], t)
                  => Served(t)' \/ \E j \in DOMAIN channel' : AskedFor(channel'[j], t)
        PROVE  Waits(t)'
    BY <2>0, <2>k DEF Unanswered, AskedFor
  <2>s. ASSUME NEW t \in Threads, at'[t] = at[t],
               failing => failing', closed => closed', consumed \subseteq consumed',
               at[t] \in Parts /\ built[ConfigOf[t]][at[t]] = 3 => built'[ConfigOf[t]][at[t]] = 3
        PROVE  Served(t) => Served(t)'
    BY <2>s DEF Served
  <2> HIDE DEF Waits
  <2>a. ASSUME NEW r \in RequestSet, channel' = Append(channel, r)
        PROVE  /\ \A i \in DOMAIN channel : i \in DOMAIN channel' /\ channel'[i] = channel[i]
               /\ Len(channel) + 1 \in DOMAIN channel' /\ channel'[Len(channel) + 1] = r
    BY <2>c, <2>a, AppendProperties
  <2>q. \A t \in Threads : /\ \A p \in Parts : Request("exchange", ConfigOf[t], p) \in RequestSet
                           /\ Request("consume", ConfigOf[t], "normal") \in RequestSet
                           /\ Request("publish", t, "normal") \in RequestSet
    BY <2>0, StepsFacts DEF Request, RequestSet
  <2>1. ASSUME NEW u \in Threads, NEW m, NEW r \in RequestSet, Begin(u, m, r),
               r.config = ConfigOf[u],
               (m = r.part /\ r.step \in Range(Steps)) \/ m = r.step
        PROVE  ChainsGoOn'
    <3>1. /\ at' = [at EXCEPT ![u] = m] /\ phase' = [phase EXCEPT ![u] = "requested"]
          /\ channel' = Append(channel, r)
          /\ UNCHANGED <<built, closed, failing, consumed>>
      BY <2>1 DEF Begin, loop
    <3>2. Unanswered(u)'
      BY <2>0, <2>1, <2>a, <3>1 DEF Unanswered
    <3>3. ASSUME NEW t \in Threads, t # u PROVE Waits(t)'
      BY <2>0, <2>a, <2>k, <2>s, <3>1, <3>3
    <3> QED BY <3>2, <3>3 DEF ChainsGoOn, Waits
  <2>2. ASSUME NEW u \in Threads, Declare(u) PROVE ChainsGoOn'
    <3>1. Request("exchange", ConfigOf[u], at[u]) \in RequestSet
      BY <2>2, <2>q DEF Declare
    <3> QED BY <2>1, <2>2, <3>1, StepsFacts DEF Declare, Request
  <2>3. ASSUME NEW u \in Threads, Consume(u) PROVE ChainsGoOn'
    BY <2>1, <2>3, <2>q DEF Consume, Request
  \* Steps that leave the channel and what was made alone.
  <2>4. ASSUME UNCHANGED <<channel, built, closed, failing, consumed>>,
               \A t \in Threads : \/ phase'[t] = "out"
                                  \/ at'[t] = at[t] /\ phase[t] # "out"
        PROVE  ChainsGoOn'
    <3>1. ASSUME NEW t \in Threads PROVE Waits(t)'
      <4>1. CASE phase'[t] = "out"
        BY <4>1 DEF Waits
      <4>2. CASE at'[t] = at[t] /\ phase[t] # "out"
        BY <2>4, <2>k, <2>s, <4>2
      <4> QED BY <2>4, <4>1, <4>2
    <3> QED BY <3>1 DEF ChainsGoOn, Waits
  <2>5. ASSUME NEW u \in Threads, DeclareThrows(u) \/ Sleep(u) \/ Return(u) \/ SpuriousWakeup(u)
        PROVE  ChainsGoOn'
    BY <2>0, <2>4, <2>5 DEF DeclareThrows, Sleep, Return, SpuriousWakeup, loop
  <2>6. ASSUME NEW u \in Threads, Publish(u) PROVE ChainsGoOn'
    <3>1. /\ phase' = phase /\ at' = [at EXCEPT ![u] = "done"] /\ phase[u] = "out"
          /\ channel' = Append(channel, Request("publish", u, "normal"))
          /\ UNCHANGED <<built, closed, failing, consumed>>
      BY <2>0, <2>6 DEF Publish, loop, Parts
    <3>2. ASSUME NEW t \in Threads, t # u PROVE Waits(t)'
      BY <2>0, <2>a, <2>k, <2>s, <2>q, <3>1, <3>2
    <3> QED BY <3>1, <3>2 DEF ChainsGoOn, Waits
  \* The head of the channel is answered, and the rest moves up.
  <2>h. ASSUME channel # <<>>,
               \/ channel' = Tail(channel)
               \/ \E r \in RequestSet : channel' = Append(Tail(channel), r)
        PROVE  \A i \in DOMAIN channel :
                 i # 1 => i - 1 \in DOMAIN channel' /\ channel'[i - 1] = channel[i]
    <3>1. /\ Tail(channel) \in Seq(RequestSet) /\ Len(Tail(channel)) = Len(channel) - 1
          /\ \A i \in 1 .. Len(Tail(channel)) : Tail(channel)[i] = channel[i + 1]
      BY <2>h, ChannelTypes
    <3>2. \A j \in 1 .. Len(channel) - 1 : j \in DOMAIN channel' /\ channel'[j] = Tail(channel)[j]
      <4>1. PICK q \in Seq(RequestSet) : q = Tail(channel)
        BY <3>1
      <4>2. Len(q) = Len(channel) - 1 /\ DOMAIN q = 1 .. Len(q) /\ Len(q) \in Nat
        BY <3>1, <4>1, LenProperties
      <4>3. ASSUME NEW r \in RequestSet
            PROVE  /\ DOMAIN Append(q, r) = 1 .. Len(q) + 1
                   /\ \A j \in 1 .. Len(q) : Append(q, r)[j] = q[j]
        BY AppendProperties, LenProperties
      <4>4. \A j \in 1 .. Len(q) : j \in 1 .. Len(q) + 1
        BY <4>2
      <4> QED BY <2>h, <4>1, <4>2, <4>3, <4>4
    <3>3. ASSUME NEW i \in DOMAIN channel, i # 1
          PROVE  i - 1 \in 1 .. Len(channel) - 1 /\ (i - 1) + 1 = i
      BY <2>c, <3>3
    <3> QED BY <3>1, <3>2, <3>3
  <2>7. ASSUME channel # <<>>,
               \/ channel' = Tail(channel)
               \/ \E r \in RequestSet : channel' = Append(Tail(channel), r),
               at' = at, NotifyAll \/ UNCHANGED phase,
               failing => failing', closed => closed', consumed \subseteq consumed',
               \A c \in Configs, p \in Parts : built[c][p] = 3 => built'[c][p] = 3,
               \A t \in Threads : phase[t] # "out" /\ AskedFor(channel[1], t)
                 => Served(t)' \/ \E j \in DOMAIN channel' : AskedFor(channel'[j], t)
        PROVE  ChainsGoOn'
    <3>1. ASSUME NEW t \in Threads, phase[t] # "out" PROVE Waits(t)'
      <4>1. Served(t) => Served(t)'
        BY <2>0, <2>7, <2>s
      <4>2. ASSUME NEW i \in DOMAIN channel, AskedFor(channel[i], t)
            PROVE  Served(t)' \/ \E j \in DOMAIN channel' : AskedFor(channel'[j], t)
        BY <2>7, <2>h, <3>1, <4>2
      <4> QED BY <2>7, <2>k, <3>1, <4>1, <4>2
    <3>2. ASSUME NEW t \in Threads, phase[t] = "out" PROVE Waits(t)'
      BY <2>0, <2>7, <3>2 DEF Waits, NotifyAll
    <3> QED BY <3>1, <3>2 DEF ChainsGoOn, Waits
  <2>8. CASE Confirmed
    <3> DEFINE r == Head(channel)
    <3>1. /\ channel # <<>> /\ r = channel[1] /\ r \in RequestSet
          /\ r.step \in Range(Steps) /\ UNCHANGED <<at, closed, failing, consumed>>
      BY <2>8, ChannelTypes DEF Confirmed, Answers
    <3>2. PICK i \in 1 .. 3 : /\ r.step = Steps[i] /\ Made(r, i)
                              /\ IF i = 3 THEN Completes ELSE AsksNext(r, i)
      BY <2>8, StepsFacts DEF Confirmed
    <3>3. r.config \in Configs /\ r.part \in Parts
      BY <3>1, StepsFacts DEF RequestSet, Parts
    <3> HIDE DEF r
    <3>4. \A c \in Configs, p \in Parts : built[c][p] = 3 => built'[c][p] = 3
      BY <2>0, <3>2, <3>3 DEF Made
    <3>5. CASE i = 3
      <4>1. channel' = Tail(channel) /\ NotifyAll
        BY <3>2, <3>5 DEF Completes
      <4>2. built'[r.config][r.part] = 3
        <5>1. built[r.config][r.part] \in 0 .. 3
          BY <2>0, <3>3
        <5> QED BY <2>0, <3>2, <3>3, <3>5, <5>1 DEF Made
      <4>3. ASSUME NEW t \in Threads, phase[t] # "out", AskedFor(channel[1], t)
            PROVE  Served(t)'
        <5>1. r.config = ConfigOf[t] /\ at[t] = r.part
          BY <2>0, <3>1, <4>3, StepsFacts DEF AskedFor, Parts
        <5> QED BY <3>1, <3>3, <4>2, <5>1 DEF Served
      <4> QED BY <2>7, <3>1, <3>4, <4>1, <4>3
    <3>6. CASE i # 3
      <4> DEFINE n == Request(Steps[i + 1], r.config, r.part)
      <4>1. channel' = Append(Tail(channel), n) /\ UNCHANGED phase
        BY <3>2, <3>6 DEF AsksNext
      <4>2. i + 1 \in 1 .. 3
        BY <3>6
      <4>3. /\ n \in RequestSet /\ n.step \in Range(Steps)
            /\ n.config = r.config /\ n.part = r.part
        BY <3>3, <4>2, StepsFacts DEF Request, RequestSet
      <4> HIDE DEF n
      <4>4. \E j \in DOMAIN channel' : channel'[j] = n
        BY <3>1, <4>1, <4>3, ChannelTypes, AppendProperties, LenProperties
      <4>5. ASSUME NEW t \in Threads, phase[t] # "out", AskedFor(channel[1], t)
            PROVE  \E j \in DOMAIN channel' : AskedFor(channel'[j], t)
        <5>1. r.config = ConfigOf[t] /\ at[t] = r.part
          BY <2>0, <3>1, <4>5, StepsFacts DEF AskedFor, Parts
        <5> QED BY <4>3, <4>4, <5>1 DEF AskedFor
      <4> QED BY <2>7, <3>1, <3>4, <4>1, <4>3, <4>5
    <3> QED BY <3>5, <3>6
  \* An error closes the channel; that of a chain ends the process as well.
  <2>9. CASE Refused
    <3>1. /\ channel # <<>> /\ channel' = Tail(channel) /\ at' = at /\ NotifyAll
          /\ failing' /\ closed' /\ UNCHANGED <<built, consumed>>
      BY <2>9 DEF Refused, Answers
    <3>2. \A t \in Threads : phase[t] # "out" => Served(t)'
      BY <2>0, <3>1 DEF Served
    <3> QED BY <2>7, <3>1, <3>2
  <2>10. CASE ConsumerAdded \/ ConsumerRefused
    <3>1. /\ channel # <<>> /\ channel' = Tail(channel) /\ at' = at
          /\ NotifyAll \/ UNCHANGED phase
          /\ UNCHANGED <<built, failing>> /\ consumed \subseteq consumed'
          /\ closed => closed'
          /\ channel[1].step = "consume"
          /\ closed' = TRUE \/ channel[1].config \in consumed'
      BY <2>10, ChannelTypes DEF ConsumerAdded, ConsumerRefused, Interferes, Answers
    <3>2. ASSUME NEW t \in Threads, phase[t] # "out", AskedFor(channel[1], t)
          PROVE  Served(t)'
      <4>1. at[t] = "consume" /\ channel[1].config = ConfigOf[t]
        BY <3>1, <3>2, StepsFacts DEF AskedFor
      <4>2. closed' = TRUE \/ ConfigOf[t] \in consumed'
        BY <3>1, <4>1
      <4>3. at'[t] = "consume"
        BY <3>1, <4>1
      <4> QED BY <4>2, <4>3, Zenon DEF Served
    <3> QED BY <2>7, <3>1, <3>2
  <2>11. CASE PublishArrives
    <3>1. /\ channel # <<>> /\ channel' = Tail(channel) /\ UNCHANGED <<at, phase>>
          /\ UNCHANGED <<built, failing, closed, consumed>>
          /\ channel[1].step = "publish"
      BY <2>11, ChannelTypes DEF PublishArrives, Answers
    <3>2. \A t \in Threads : phase[t] # "out" => ~AskedFor(channel[1], t)
      BY <2>0, <3>1, StepsFacts DEF AskedFor, Parts
    <3> QED BY <2>7, <3>1, <3>2
  <2>12. ASSUME UNCHANGED <<at, channel, built, closed, failing, consumed>>,
                NotifyAll \/ UNCHANGED phase
         PROVE  ChainsGoOn'
    BY <2>0, <2>4, <2>12 DEF NotifyAll
  <2>13. ASSUME NEW c \in Configs, Receive(c) \/ Arrive(c) \/ Expire(c) PROVE ChainsGoOn'
    BY <2>12, <2>13 DEF Receive, Interferes, Arrive, Expire
  <2>14. CASE Aborts \/ UNCHANGED vars
    BY <2>12, <2>14 DEF Aborts, vars, loop
  <2> QED BY <2>2, <2>3, <2>5, <2>6, <2>8, <2>9, <2>10, <2>11, <2>13, <2>14
          DEF Next, CallStep, LoopStep
<1> QED BY <1>1, <1>2, TypeCorrect, PTL DEF Spec
=============================================================================
