----------------------- MODULE ScaffoldProcess_proofs -----------------------
(***************************************************************************)
(* Theorems about a process and the calls that its threads make, for any   *)
(* numbers of threads and calls and a counter of any width.                *)
(***************************************************************************)
EXTENDS ScaffoldProcess, SequenceTheorems, TLAPS

-----------------------------------------------------------------------------
(* The scripts.  Own says what a call has got and not given back when it   *)
(* comes to a step.                                                        *)
Own == [storage   |-> <<{}, {"connection"}, {"connection"}>>,
        download  |-> <<{}, {"connection"}, {"connection", "buffer"}, {"connection"}>>,
        mail      |-> <<{}, {"curl"}, {"curl"}, {"curl"}, {"curl"}, {"curl"},
                        {"curl", "recipients"}, {"curl", "recipients"},
                        {"curl", "recipients"}, {"curl", "recipients"},
                        {"curl", "recipients"}, {"curl", "recipients"}, {"curl"}>>,
        transcode |-> <<{}, {"input"}, {"input"}, {"input", "output"}, {"input", "output"},
                        {"input", "output", "options"}, {"input", "output", "options"},
                        {"input", "output", "options"}, {"input", "output", "options"},
                        {"input", "output", "options"}, {"input", "output"}, {"output"}>>,
        closure   |-> <<{}, {"helper"}, {"helper", "closure"}>>,
        server    |-> <<{}, {"service"}, {"server", "service"}, {"server", "service"}>>]

FinalStep(o) == Len(Script[o])

\* Step i of a call of o touches nothing but what the call has, leads to a step
\* with what that step expects, and leaves what Remains and Kept say.  The
\* option of the recipients is the exception: it goes on with nothing.
Fits(o, i) ==
    LET s == Script[o][i]
        own == Own[o][i]
    IN /\ s.gets \subseteq Resources /\ s.fail \in {"never", "return", "goOn", "leave"}
       /\ s.uses \subseteq own /\ s.puts \subseteq own /\ s.undo \subseteq own
       /\ i < 14 /\ s.next \in {1, -1} /\ s.else \in {1, 2}
       /\ i = FinalStep(o) => s.next = 1 /\ (own \cup s.gets) \ s.puts = Kept[o]
       /\ i # FinalStep(o) =>
            /\ i + s.next \in 1 .. FinalStep(o)
            /\ (own \cup s.gets) \ s.puts = Own[o][i + s.next]
       /\ s.fail = "return" => own \ s.undo = Remains(o, i)
       /\ s.fail = "leave" =>
            /\ i + s.else \in 1 .. FinalStep(o)
            /\ own \ s.undo = Own[o][i + s.else]
       /\ s.fail = "goOn" => o = "mail" /\ i = 7 /\ s.else = 1 /\ own \ s.undo = {}
       /\ o = "mail" => FinalStep(o) = 13
       /\ o = "mail" /\ i >= 8 =>
            /\ s.gets = {} /\ s.next = 1 /\ s.fail \in {"never", "return"}
            /\ "curl" \in own /\ s.uses \cup s.puts # {}
            /\ s.fail = "return" => s.uses # {}

LEMMA StorageFits == \A i \in 1 .. FinalStep("storage") : Fits("storage", i)
<1> USE DEF FinalStep, Script, StorageCall, Get, Try, Put, Step
<1>0. FinalStep("storage") = 3
  OBVIOUS
<1> USE DEF Fits, Own, Kept, Resources, Remains
<1>1. Fits("storage", 1)
  BY <1>0
<1>2. Fits("storage", 2)
  BY <1>0
<1>3. Fits("storage", 3)
  BY <1>0
<1>4. 1 .. 3 = {1, 2, 3}
  OBVIOUS
<1> HIDE DEF Fits, Script, FinalStep
<1> QED BY <1>0, <1>1, <1>2, <1>3, <1>4

LEMMA DownloadFits == \A i \in 1 .. FinalStep("download") : Fits("download", i)
<1> USE DEF FinalStep, Script, DownloadToBuff, Get, Put, Step
<1>0. FinalStep("download") = 4
  OBVIOUS
<1> USE DEF Fits, Own, Kept, Resources, Remains
<1>1. Fits("download", 1)
  BY <1>0
<1>2. Fits("download", 2)
  BY <1>0
<1>3. Fits("download", 3)
  BY <1>0
<1>4. Fits("download", 4)
  BY <1>0
<1>5. 1 .. 4 = {1, 2, 3, 4}
  OBVIOUS
<1> HIDE DEF Fits, Script, FinalStep
<1> QED BY <1>0, <1>1, <1>2, <1>3, <1>4, <1>5

LEMMA MailFits == \A i \in 1 .. FinalStep("mail") : Fits("mail", i)
<1> USE DEF FinalStep, Script, SendCode, Get, GetSurely, Option, Late, TryOrFree, Put, Step
<1>0. FinalStep("mail") = 13
  OBVIOUS
<1> USE DEF Fits, Own, Kept, Resources, Remains
<1>1. Fits("mail", 1)
  BY <1>0
<1>2. Fits("mail", 2)
  BY <1>0
<1>3. Fits("mail", 3)
  BY <1>0
<1>4. Fits("mail", 4)
  BY <1>0
<1>5. Fits("mail", 5)
  BY <1>0
<1>6. Fits("mail", 6)
  BY <1>0
<1>7. Fits("mail", 7)
  BY <1>0
<1>8. Fits("mail", 8)
  BY <1>0
<1>9. Fits("mail", 9)
  BY <1>0
<1>10. Fits("mail", 10)
  BY <1>0
<1>11. Fits("mail", 11)
  BY <1>0
<1>12. Fits("mail", 12)
  BY <1>0
<1>13. Fits("mail", 13)
  BY <1>0
<1>14. 1 .. 13 = {1, 2, 3, 4, 5, 6, 7, 8, 9, 10, 11, 12, 13}
  OBVIOUS
<1> HIDE DEF Fits, Script, FinalStep
<1> QED BY <1>0, <1>1, <1>2, <1>3, <1>4, <1>5, <1>6, <1>7, <1>8, <1>9, <1>10, <1>11, <1>12, <1>13, <1>14

LEMMA TransCodeFits == \A i \in 1 .. FinalStep("transcode") : Fits("transcode", i)
<1> USE DEF FinalStep, Script, TransCode, Get, GetSurely, Try, Put, ReadFrame, WriteFrame, Step
<1>0. FinalStep("transcode") = 12
  OBVIOUS
<1> USE DEF Fits, Own, Kept, Resources, Remains
<1>1. Fits("transcode", 1)
  BY <1>0
<1>2. Fits("transcode", 2)
  BY <1>0
<1>3. Fits("transcode", 3)
  BY <1>0
<1>4. Fits("transcode", 4)
  BY <1>0
<1>5. Fits("transcode", 5)
  BY <1>0
<1>6. Fits("transcode", 6)
  BY <1>0
<1>7. Fits("transcode", 7)
  BY <1>0
<1>8. Fits("transcode", 8)
  BY <1>0
<1>9. Fits("transcode", 9)
  BY <1>0
<1>10. Fits("transcode", 10)
  BY <1>0
<1>11. Fits("transcode", 11)
  BY <1>0
<1>12. Fits("transcode", 12)
  BY <1>0
<1>13. 1 .. 12 = {1, 2, 3, 4, 5, 6, 7, 8, 9, 10, 11, 12}
  OBVIOUS
<1> HIDE DEF Fits, Script, FinalStep
<1> QED BY <1>0, <1>1, <1>2, <1>3, <1>4, <1>5, <1>6, <1>7, <1>8, <1>9, <1>10, <1>11, <1>12, <1>13

LEMMA ClosureFits == \A i \in 1 .. FinalStep("closure") : Fits("closure", i)
<1> USE DEF FinalStep, Script, CreateClosure, GetSurely, Step
<1>0. FinalStep("closure") = 3
  OBVIOUS
<1> USE DEF Fits, Own, Kept, Resources, Remains
<1>1. Fits("closure", 1)
  BY <1>0
<1>2. Fits("closure", 2)
  BY <1>0
<1>3. Fits("closure", 3)
  BY <1>0
<1>4. 1 .. 3 = {1, 2, 3}
  OBVIOUS
<1> HIDE DEF Fits, Script, FinalStep
<1> QED BY <1>0, <1>1, <1>2, <1>3, <1>4

LEMMA ServerFits == \A i \in 1 .. FinalStep("server") : Fits("server", i)
<1> USE DEF FinalStep, Script, CreateServer, GetSurely, TryOrFree, Step
<1>0. FinalStep("server") = 4
  OBVIOUS
<1> USE DEF Fits, Own, Kept, Resources, Remains
<1>1. Fits("server", 1)
  BY <1>0
<1>2. Fits("server", 2)
  BY <1>0
<1>3. Fits("server", 3)
  BY <1>0
<1>4. Fits("server", 4)
  BY <1>0
<1>5. 1 .. 4 = {1, 2, 3, 4}
  OBVIOUS
<1> HIDE DEF Fits, Script, FinalStep
<1> QED BY <1>0, <1>1, <1>2, <1>3, <1>4, <1>5

LEMMA AllFit == \A o \in Ops : \A i \in 1 .. FinalStep(o) : Fits(o, i)
<1>1. Ops = {"storage", "download", "mail", "transcode", "closure", "server"}
  BY DEF Ops, Script
<1> QED BY ONLY <1>1, StorageFits, DownloadFits, MailFits, TransCodeFits, ClosureFits,
           ServerFits

LEMMA FirstStep == \A o \in Ops : FinalStep(o) \in 3 .. 13 /\ Own[o][1] = {}
<1>1. Ops = {"storage", "download", "mail", "transcode", "closure", "server"}
  BY DEF Ops, Script
<1>2. /\ FinalStep("storage") = 3 /\ FinalStep("download") = 4
      /\ FinalStep("mail") = 13 /\ FinalStep("transcode") = 12
      /\ FinalStep("closure") = 3 /\ FinalStep("server") = 4
  BY DEF FinalStep, Script, StorageCall, DownloadToBuff, SendCode, TransCode, CreateClosure, CreateServer
<1>3. /\ Own["storage"][1] = {} /\ Own["download"][1] = {} /\ Own["mail"][1] = {}
      /\ Own["transcode"][1] = {} /\ Own["closure"][1] = {} /\ Own["server"][1] = {}
  BY DEF Own
<1> QED BY ONLY <1>1, <1>2, <1>3

-----------------------------------------------------------------------------
(* The invariant.  While a call runs it has what its step expects, or is a *)
(* sendCode() that was refused and has freed its handle and list; the      *)
(* threads and their calls belong together; and the logger is there once   *)
(* it was made.                                                            *)
Freed(c) == /\ Left(c) = {}
            /\ at[c] > 8 => c \in touched

CallOK(c) ==
    /\ answer[c] = "none" =>
         /\ at[c] \in 1 .. FinalStep(op[c])
         /\ c \notin refused => Left(c) = Own[op[c]][at[c]]
         /\ c \in refused => Freed(c)
    /\ answer[c] = "true" => Left(c) = Kept[op[c]]
    /\ answer[c] = "false" => Left(c) = Remains(op[c], at[c])
    /\ c \in touched => c \in refused
    /\ c \in refused => op[c] = "mail" /\ at[c] >= 8
    /\ c \in refused /\ answer[c] # "none" => c \in touched

Ledger == \A c \in Made : CallOK(c)

Types == /\ running \in [Threads -> Nat]
         /\ op \in Seq(Ops) /\ Len(op) <= MaxCalls
         /\ at \in Seq(1 .. 14) /\ Len(at) = Len(op)
         /\ answer \in Seq({"none", "true", "false"}) /\ Len(answer) = Len(op)
         /\ open \subseteq Made \X Resources /\ touched \subseteq Made
         /\ refused \subseteq Made
         /\ logger \in BOOLEAN /\ up \in BOOLEAN /\ inits \in Nat

Busy == /\ \A t \in Threads : running[t] # 0 =>
             running[t] \in Made /\ answer[running[t]] = "none"
        /\ \A t, u \in Threads : running[t] = running[u] /\ running[t] # 0 => t = u
        /\ \A c \in Made : answer[c] = "none" => \E t \in Threads : running[t] = c

Lives == /\ logger <=> inits >= 1
         /\ up => inits <= 1
         /\ inits = 1 /\ touched = {} => up

CallsInv == Types /\ Busy /\ Ledger /\ Lives

-----------------------------------------------------------------------------
LEMMA SeqSet ==
    ASSUME NEW S, NEW s \in Seq(S), NEW i \in 1 .. Len(s), NEW v \in S
    PROVE  /\ [s EXCEPT ![i] = v] \in Seq(S)
           /\ Len([s EXCEPT ![i] = v]) = Len(s)
           /\ [s EXCEPT ![i] = v][i] = v
           /\ \A j \in 1 .. Len(s) : j # i => [s EXCEPT ![i] = v][j] = s[j]
BY ExceptSeq

\* What a step does to one call leaves the others as they were.
LEMMA OneCall ==
    ASSUME Types, Ledger, NEW c \in Made, op' = op, Len(at') = Len(at),
           \A d \in Made : d # c =>
             /\ at'[d] = at[d] /\ answer'[d] = answer[d] /\ Left(d)' = Left(d)
             /\ d \in touched' <=> d \in touched
             /\ d \in refused' <=> d \in refused,
           CallOK(c)'
    PROVE  Ledger'
<1> SUFFICES ASSUME NEW d \in Made
             PROVE  CallOK(d)'
  BY DEF Ledger, Made
<1>1. CASE d = c
  BY <1>1
<1>2. CASE d # c
  <2>1. CallOK(d)
    BY DEF Ledger
  <2> QED BY <1>2, <2>1 DEF CallOK, Freed
<1> QED BY <1>1, <1>2

\* The ledger after a step of call c that gets and gives back.
LEMMA LeftAfter ==
    ASSUME Types, NEW c \in Made, NEW G \in SUBSET Resources, NEW P,
           open' = (open \cup ({c} \X G)) \ ({c} \X P)
    PROVE  /\ Left(c)' = (Left(c) \cup G) \ P
           /\ \A d \in Made : d # c => Left(d)' = Left(d)
           /\ open' \subseteq Made \X Resources
BY DEF Left, Types

LEMMA LeftAfterUndo ==
    ASSUME Types, NEW c \in Made, NEW P, open' = open \ ({c} \X P)
    PROVE  /\ Left(c)' = Left(c) \ P
           /\ \A d \in Made : d # c => Left(d)' = Left(d)
           /\ open' \subseteq Made \X Resources
BY DEF Left, Types

\* A call that returns, and one that goes on, keep threads and calls together.
LEMMA ReturnKeeps ==
    ASSUME Types, Busy, NEW t \in Threads, running[t] # 0,
           NEW b \in {"true", "false"}, Return(t, b), op' = op
    PROVE  /\ Busy' /\ running' \in [Threads -> Nat]
           /\ answer' \in Seq({"none", "true", "false"}) /\ Len(answer') = Len(answer)
           /\ answer'[running[t]] = b
           /\ \A d \in Made : d # running[t] => answer'[d] = answer[d]
<1> DEFINE c == running[t]
<1>0. c \in 1 .. Len(answer)
  BY DEF Busy, Made, Types
<1>1. /\ answer' \in Seq({"none", "true", "false"}) /\ Len(answer') = Len(answer)
      /\ answer'[c] = b
      /\ \A d \in 1 .. Len(answer) : d # c => answer'[d] = answer[d]
  BY <1>0, SeqSet DEF Return, Types
<1>2. running' \in [Threads -> Nat]
  BY DEF Return, Types
<1>3. \A d \in Made : d # c => answer'[d] = answer[d]
  BY <1>1 DEF Made, Types
<1>4. \A u \in Threads : u # t => running'[u] = running[u]
  BY DEF Return, Types
<1>5. running'[t] = 0
  BY DEF Return, Types
<1>6. Busy'
  <2>1. ASSUME NEW u \in Threads, running'[u] # 0
        PROVE  running'[u] \in Made /\ answer'[running'[u]] = "none"
    BY <2>1, <1>3, <1>4, <1>5 DEF Busy
  <2>2. \A u, w \in Threads : running'[u] = running'[w] /\ running'[u] # 0 => u = w
    BY <1>4, <1>5 DEF Busy
  <2>3. ASSUME NEW d \in Made, answer'[d] = "none"
        PROVE  \E u \in Threads : running'[u] = d
    <3>1. d # c
      BY <2>3, <1>1
    <3>2. PICK u \in Threads : running[u] = d
      BY <2>3, <1>3, <3>1 DEF Busy
    <3> QED BY <3>1, <3>2, <1>4
  <2>4. Made' = Made
    BY DEF Made
  <2> QED BY <2>1, <2>2, <2>3, <2>4 DEF Busy
<1> QED BY <1>1, <1>2, <1>3, <1>6

LEMMA CallKeeps ==
    ASSUME CallsInv, NEW t \in Threads, NEW o \in Ops, up, Call(t, o)
    PROVE  CallsInv'
<1> DEFINE n == Len(op) + 1
<1>0. /\ Types /\ Busy /\ Ledger /\ Lives
      /\ op \in Seq(Ops) /\ at \in Seq(1 .. 14)
      /\ answer \in Seq({"none", "true", "false"})
      /\ Len(at) = Len(op) /\ Len(answer) = Len(op) /\ Len(op) \in Nat
  BY DEF CallsInv, Types
<1>1. /\ op' \in Seq(Ops) /\ Len(op') = n /\ op'[n] = o
      /\ \A d \in 1 .. Len(op) : op'[d] = op[d]
  BY <1>0, AppendProperties DEF Call
<1>2. /\ at' \in Seq(1 .. 14) /\ Len(at') = n /\ at'[n] = 1
      /\ \A d \in 1 .. Len(op) : at'[d] = at[d]
  BY <1>0, AppendProperties DEF Call
<1>3. /\ answer' \in Seq({"none", "true", "false"}) /\ Len(answer') = n
      /\ answer'[n] = "none"
      /\ \A d \in 1 .. Len(op) : answer'[d] = answer[d]
  BY <1>0, AppendProperties DEF Call
<1>4. Made' = Made \cup {n} /\ n \notin Made /\ n # 0
  BY <1>0, <1>1 DEF Made
<1>5. /\ open' = open /\ touched' = touched /\ refused' = refused /\ logger' = logger /\ up' = up
      /\ inits' = inits
      /\ running' = [running EXCEPT ![t] = n] /\ running[t] = 0 /\ Len(op) < MaxCalls
  BY DEF Call, process, history
<1>6. Types'
  <2>1. n <= MaxCalls
    BY <1>0, <1>5, CallsAssumption
  <2>2. open' \subseteq Made' \X Resources /\ touched' \subseteq Made' /\ refused' \subseteq Made'
    BY <1>0, <1>4, <1>5 DEF Types
  <2> QED BY <1>0, <1>1, <1>2, <1>3, <1>5, <2>1, <2>2 DEF Types
<1>7. Busy'
  <2>0. running \in [Threads -> Nat]
    BY <1>0 DEF Types
  <2>1. \A u \in Threads : u # t => running'[u] = running[u]
    BY <2>0, <1>5
  <2>2. running'[t] = n
    BY <2>0, <1>5
  <2>3. \A u \in Threads : running[u] # n
    BY <1>0, <1>4 DEF Busy
  <2>4. \A d \in Made : answer'[d] = answer[d]
    BY <1>3 DEF Made
  <2>5. \A u \in Threads : running'[u] # 0 =>
            running'[u] \in Made' /\ answer'[running'[u]] = "none"
    BY <1>0, <2>1, <2>2, <2>4, <1>3, <1>4 DEF Busy
  <2>6. \A u, w \in Threads : running'[u] = running'[w] /\ running'[u] # 0 => u = w
    BY <1>0, <2>1, <2>2, <2>3 DEF Busy
  <2>7. \A d \in Made' : answer'[d] = "none" => \E u \in Threads : running'[u] = d
    <3> SUFFICES ASSUME NEW d \in Made', answer'[d] = "none"
                 PROVE  \E u \in Threads : running'[u] = d
      OBVIOUS
    <3>1. CASE d = n
      BY <3>1, <2>2
    <3>2. CASE d \in Made
      <4>1. PICK u \in Threads : running[u] = d
        BY <3>2, <2>4, <1>0 DEF Busy
      <4>2. u # t
        BY <4>1, <1>5, <3>2 DEF Made
      <4> QED BY <4>1, <4>2, <2>1
    <3> QED BY <3>1, <3>2, <1>4
  <2> QED BY <2>5, <2>6, <2>7 DEF Busy
<1>8. Ledger'
  <2> SUFFICES ASSUME NEW d \in Made'
               PROVE  CallOK(d)'
    BY DEF Ledger
  <2>1. Left(d)' = Left(d)
    BY <1>5 DEF Left
  <2>2. CASE d \in Made
    <3>1. CallOK(d)
      BY <1>0, <2>2 DEF Ledger
    <3>2. op'[d] = op[d] /\ at'[d] = at[d] /\ answer'[d] = answer[d]
      BY <1>1, <1>2, <1>3, <2>2 DEF Made
    <3> QED BY <3>1, <3>2, <2>1, <1>5 DEF CallOK, Freed
  <2>3. CASE d = n
    <3>1. Left(d) = {} /\ d \notin touched /\ d \notin refused
      BY <2>3, <1>0, <1>4 DEF Left, Types
    <3>2. Own[o][1] = {} /\ FinalStep(o) \in 3 .. 13
      BY FirstStep
    <3>5. 1 \in 1 .. FinalStep(o)
      BY <3>2
    <3>3. /\ op'[d] = o /\ at'[d] = 1 /\ answer'[d] = "none"
          /\ d \notin touched' /\ d \notin refused'
      BY <3>1, <2>3, <1>1, <1>2, <1>3, <1>5
    <3>4. Left(d)' = Own[op'[d]][at'[d]]
      BY <3>1, <3>2, <3>3, <2>1
    <3> QED BY <3>3, <3>4, <3>5, <1>1 DEF CallOK
  <2> QED BY <2>2, <2>3, <1>4
<1>9. Lives'
  BY <1>0, <1>5 DEF Lives
<1> QED BY <1>6, <1>7, <1>8, <1>9 DEF CallsInv

\* What is known of the call that a thread is in, and of its step.
LEMMA AtStep ==
    ASSUME CallsInv, NEW t \in Threads, running[t] # 0
    PROVE  /\ running[t] \in Made /\ op[running[t]] \in Ops
           /\ answer[running[t]] = "none"
           /\ at[running[t]] \in 1 .. FinalStep(op[running[t]])
           /\ Fits(op[running[t]], at[running[t]])
           /\ CallOK(running[t])
           /\ FinalStep(op[running[t]]) \in 3 .. 13
<1> DEFINE c == running[t]
<1>1. c \in Made /\ answer[c] = "none"
  BY DEF CallsInv, Busy
<1>2. op[c] \in Ops
  BY <1>1 DEF CallsInv, Types, Made
<1>3. CallOK(c)
  BY <1>1 DEF CallsInv, Ledger
<1>4. at[c] \in 1 .. FinalStep(op[c])
  BY <1>1, <1>3 DEF CallOK
<1> QED BY <1>1, <1>2, <1>3, <1>4, AllFit, FirstStep

\* The step of a call that goes on, to a step of its script or past its end.
LEMMA GotoKeeps ==
    ASSUME Types, NEW c \in Made, NEW distance \in Int, Goto(c, distance),
           at[c] + distance \in 1 .. 14
    PROVE  /\ at' \in Seq(1 .. 14) /\ Len(at') = Len(at)
           /\ at'[c] = at[c] + distance
           /\ \A d \in Made : d # c => at'[d] = at[d]
<1>1. c \in 1 .. Len(at)
  BY DEF Types, Made
<1> QED BY <1>1, SeqSet DEF Goto, Types, Made

LEMMA BusyStays ==
    ASSUME Busy, UNCHANGED <<running, answer, op>>
    PROVE  Busy'
BY DEF Busy, Made

LEMMA SucceedKeeps ==
    ASSUME CallsInv, NEW t \in Threads, up, running[t] # 0, Succeed(t)
    PROVE  CallsInv'
<1> PICK c \in Made : c = running[t]
  BY AtStep
<1> DEFINE s == StepOf(c)
           last == IsLast(c)
<1>0. /\ Types /\ Busy /\ Ledger /\ Lives
  BY DEF CallsInv
<1>1. /\ c \in Made /\ op[c] \in Ops /\ answer[c] = "none" /\ CallOK(c)
      /\ at[c] \in 1 .. FinalStep(op[c]) /\ FinalStep(op[c]) \in 3 .. 13
  BY AtStep
<1>2. Fits(op[c], at[c]) /\ s = Script[op[c]][at[c]]
  BY AtStep DEF StepOf
<1>3. /\ s.gets \in SUBSET Resources
      /\ op' = op /\ logger' = logger /\ up' = up /\ inits' = inits
      /\ refused' = refused
      /\ open' = (open \cup ({c} \X s.gets)) \ ({c} \X s.puts)
      /\ touched' = IF ~((s.uses \cup s.puts) \subseteq Left(c))
                      THEN touched \cup {c} ELSE touched
      /\ Goto(c, s.next)
  BY <1>2 DEF Succeed, Fits, process, Touch, Foreign
<1>4. /\ Left(c)' = (Left(c) \cup s.gets) \ s.puts
      /\ \A d \in Made : d # c => Left(d)' = Left(d)
      /\ open' \subseteq Made \X Resources
  BY <1>0, <1>1, <1>3, LeftAfter
<1>5. /\ s.next \in Int
      /\ ~last => at[c] + s.next \in 1 .. FinalStep(op[c])
      /\ last => s.next = 1
  <2>1. CASE last
    <3>1. at[c] = FinalStep(op[c])
      BY <2>1 DEF IsLast, FinalStep
    <3>2. PICK i, o : i = at[c] /\ o = op[c]
      OBVIOUS
    <3>3. Fits(o, i) /\ i = FinalStep(o) /\ s = Script[o][i]
      BY <3>1, <3>2, <1>2
    <3>4. s.next = 1
      BY ONLY <3>3 DEF Fits
    <3> QED BY <3>4, <2>1
  <2>2. CASE ~last
    <3>1. at[c] + s.next \in 1 .. FinalStep(op[c])
      BY <2>2, <1>2 DEF Fits, IsLast, FinalStep
    <3>2. s.next \in {1, -1}
      BY <1>2 DEF Fits
    <3> QED BY <2>2, <3>1, <3>2
  <2> QED BY <2>1, <2>2
<1>6. at[c] + s.next \in 1 .. 14
  <2>1. CASE last
    <3>1. at[c] = FinalStep(op[c]) /\ s.next = 1
      BY <2>1, <1>5 DEF IsLast, FinalStep
    <3> QED BY <3>1, <1>1
  <2>2. CASE ~last
    BY <2>2, <1>1, <1>5
  <2> QED BY <2>1, <2>2
<1>7. /\ at' \in Seq(1 .. 14) /\ Len(at') = Len(at) /\ at'[c] = at[c] + s.next
      /\ \A d \in Made : d # c => at'[d] = at[d]
  BY <1>0, <1>1, <1>3, <1>5, <1>6, GotoKeeps
<1>8. /\ Busy' /\ running' \in [Threads -> Nat]
      /\ answer' \in Seq({"none", "true", "false"}) /\ Len(answer') = Len(answer)
      /\ answer'[c] = IF last THEN "true" ELSE "none"
      /\ \A d \in Made : d # c => answer'[d] = answer[d]
  <2>1. CASE last
    BY <2>1, <1>0, <1>3, ReturnKeeps DEF Succeed
  <2>2. CASE ~last
    <3>1. UNCHANGED <<running, answer>>
      BY <2>2 DEF Succeed
    <3> QED BY <3>1, <2>2, <1>0, <1>1, <1>3, BusyStays DEF Types
  <2> QED BY <2>1, <2>2
<1>9. Types'
  BY <1>0, <1>1, <1>3, <1>4, <1>7, <1>8 DEF Types, Made
<1>10. Lives'
  BY <1>0, <1>3 DEF Lives
<1>11. CallOK(c)'
  <2>1. CASE c \notin refused
    <3>0. Left(c) = Own[op[c]][at[c]] /\ c \notin touched
      BY <2>1, <1>1 DEF CallOK
    <3>a. s.uses \subseteq Own[op[c]][at[c]] /\ s.puts \subseteq Own[op[c]][at[c]]
      BY <1>2 DEF Fits
    <3>1. c \notin touched' /\ c \notin refused'
      BY <2>1, <3>0, <3>a, <1>3
    <3>2. CASE last
      <4>1. Left(c)' = Kept[op[c]]
        BY <3>0, <3>2, <1>2, <1>4 DEF Fits, IsLast, FinalStep
      <4> QED BY <4>1, <3>1, <3>2, <1>3, <1>8 DEF CallOK
    <3>3. CASE ~last
      <4>1. Left(c)' = Own[op[c]][at[c] + s.next]
        BY <3>0, <3>3, <1>2, <1>4 DEF Fits, IsLast, FinalStep
      <4> QED BY <4>1, <3>1, <3>3, <1>3, <1>5, <1>7, <1>8 DEF CallOK
    <3> QED BY <3>2, <3>3
  <2>2. CASE c \in refused
    <3>1. op[c] = "mail" /\ at[c] >= 8 /\ Left(c) = {}
      BY <2>2, <1>1 DEF CallOK, Freed
    <3>2. s.gets = {} /\ s.next = 1 /\ s.uses \cup s.puts # {}
      BY <3>1, <1>2 DEF Fits
    <3>3. c \in touched' /\ c \in refused'
      BY <2>2, <3>1, <3>2, <1>3
    <3>4. Left(c)' = {} /\ at'[c] = at[c] + 1 /\ at'[c] >= 8
      BY <3>1, <3>2, <1>1, <1>4, <1>7
    <3>5. Kept["mail"] = {}
      BY DEF Kept
    <3>6. CASE last
      BY <3>1, <3>3, <3>4, <3>5, <3>6, <1>3, <1>8 DEF CallOK
    <3>7. CASE ~last
      BY <3>1, <3>3, <3>4, <3>7, <1>3, <1>5, <1>7, <1>8 DEF CallOK, Freed
    <3> QED BY <3>6, <3>7
  <2> QED BY <2>1, <2>2
<1>12. Ledger'
  BY <1>0, <1>1, <1>3, <1>4, <1>7, <1>8, <1>11, OneCall
<1> QED BY <1>8, <1>9, <1>10, <1>12 DEF CallsInv

LEMMA FailKeeps ==
    ASSUME CallsInv, NEW t \in Threads, up, running[t] # 0, Fail(t)
    PROVE  CallsInv'
<1> PICK c \in Made : c = running[t]
  BY AtStep
<1> DEFINE s == StepOf(c)
           stops == s.fail = "return"
<1>0. /\ Types /\ Busy /\ Ledger /\ Lives
  BY DEF CallsInv
<1>1. /\ c \in Made /\ op[c] \in Ops /\ answer[c] = "none" /\ CallOK(c)
      /\ at[c] \in 1 .. FinalStep(op[c]) /\ FinalStep(op[c]) \in 3 .. 13
  BY AtStep
<1>2. Fits(op[c], at[c]) /\ s = Script[op[c]][at[c]]
  BY AtStep DEF StepOf
<1>3. /\ op' = op /\ logger' = logger /\ up' = up /\ inits' = inits
      /\ open' = open \ ({c} \X s.undo)
      /\ touched' = IF ~((s.uses \cup s.undo) \subseteq Left(c))
                      THEN touched \cup {c} ELSE touched
      /\ refused' = IF s.fail = "goOn" THEN refused \cup {c} ELSE refused
      /\ s.fail # "never"
  BY DEF Fail, process, Touch, Foreign
<1>4. /\ Left(c)' = Left(c) \ s.undo
      /\ \A d \in Made : d # c => Left(d)' = Left(d)
      /\ open' \subseteq Made \X Resources
  BY <1>0, <1>1, <1>3, LeftAfterUndo
<1>5. s.fail \in {"return", "goOn", "leave"}
  BY <1>2, <1>3 DEF Fits
<1>6. Lives'
  BY <1>0, <1>3 DEF Lives
<1>7. CASE stops
  <2>1. Return(t, "false") /\ UNCHANGED at
    BY <1>7 DEF Fail
  <2>2. /\ Busy' /\ running' \in [Threads -> Nat]
        /\ answer' \in Seq({"none", "true", "false"}) /\ Len(answer') = Len(answer)
        /\ answer'[c] = "false"
        /\ \A d \in Made : d # c => answer'[d] = answer[d]
    BY <2>1, <1>0, <1>3, ReturnKeeps
  <2>3. Types'
    BY <2>1, <2>2, <1>0, <1>1, <1>3, <1>4 DEF Types, Made
  <2>4. CallOK(c)'
    <3>0. refused' = refused
      BY <1>3, <1>7
    <3>1. CASE c \notin refused
      <4>0. Left(c) = Own[op[c]][at[c]] /\ c \notin touched
        BY <3>1, <1>1 DEF CallOK
      <4>a. s.uses \subseteq Own[op[c]][at[c]] /\ s.undo \subseteq Own[op[c]][at[c]]
        BY <1>2 DEF Fits
      <4>1. c \notin touched'
        BY <4>0, <4>a, <1>3
      <4>2. Left(c)' = Remains(op[c], at[c])
        BY <4>0, <1>2, <1>4, <1>7 DEF Fits
      <4>3. Left(c)' = Remains(op[c], at[c])'
        BY <4>2, <2>1, <1>3 DEF Remains
      <4> QED BY <3>0, <3>1, <4>1, <4>3, <2>1, <2>2 DEF CallOK
    <3>2. CASE c \in refused
      <4>1. op[c] = "mail" /\ at[c] >= 8 /\ Left(c) = {}
        BY <3>2, <1>1 DEF CallOK, Freed
      <4>2. Remains(op[c], at[c])' = {}
        BY <4>1, <1>3 DEF Remains
      <4>3. s.uses \cup s.undo # {}
        BY <4>1, <1>2, <1>7 DEF Fits
      <4>4. c \in touched' /\ Left(c)' = {}
        BY <4>1, <4>3, <1>3, <1>4
      <4> QED BY <3>0, <3>2, <4>1, <4>2, <4>4, <2>1, <2>2, <1>3 DEF CallOK
    <3> QED BY <3>1, <3>2
  <2>5. Ledger'
    BY <2>1, <2>2, <2>4, <1>0, <1>1, <1>3, <1>4, OneCall
  <2> QED BY <2>2, <2>3, <2>5, <1>6 DEF CallsInv
<1>8. CASE ~stops
  <2>1. Goto(c, s.else) /\ UNCHANGED <<running, answer>>
    BY <1>8 DEF Fail
  <2>2. CASE c \in refused
    <3>1. op[c] = "mail" /\ at[c] >= 8
      BY <2>2, <1>1 DEF CallOK
    <3> QED BY <3>1, <1>2, <1>3, <1>8 DEF Fits
  <2>3. CASE c \notin refused
    <3>b. Left(c) = Own[op[c]][at[c]] /\ c \notin touched
      BY <2>3, <1>1 DEF CallOK
    <3>a. s.uses \subseteq Own[op[c]][at[c]] /\ s.undo \subseteq Own[op[c]][at[c]]
      BY <1>2 DEF Fits
    <3>0. s.uses \subseteq Left(c) /\ s.undo \subseteq Left(c)
      BY <3>a, <3>b
    <3>1. touched' = touched
      BY <3>0, <1>3
    <3>2. /\ s.else \in {1, 2} /\ at[c] + s.else \in 1 .. FinalStep(op[c])
          /\ \/ s.fail = "leave" /\ Left(c)' = Own[op[c]][at[c] + s.else]
             \/ /\ s.fail = "goOn" /\ op[c] = "mail" /\ at[c] + s.else = 8
                /\ Left(c)' = {}
      <4>1. CASE s.fail = "leave"
        BY ZenonT(60), <4>1, <3>b, <1>1, <1>2, <1>4 DEF Fits
      <4>2. CASE s.fail = "goOn"
        <5>1. /\ op[c] = "mail" /\ at[c] = 7 /\ s.else = 1 /\ FinalStep(op[c]) = 13
              /\ Own[op[c]][at[c]] \ s.undo = {}
          BY <4>2, <1>2 DEF Fits
        <5>2. Left(c)' = {}
          BY <5>1, <3>b, <1>4
        <5> QED BY <4>2, <5>1, <5>2
      <4> QED BY <4>1, <4>2, <1>5, <1>8
    <3>3. /\ at' \in Seq(1 .. 14) /\ Len(at') = Len(at) /\ at'[c] = at[c] + s.else
          /\ \A d \in Made : d # c => at'[d] = at[d]
      <4>1. s.else \in Int /\ at[c] + s.else \in 1 .. 14
        BY <3>2, <1>1
      <4> QED BY <4>1, <2>1, <1>0, <1>1, GotoKeeps
    <3>4. Types'
      BY <2>1, <3>3, <1>0, <1>1, <1>3, <1>4, <3>1 DEF Types, Made
    <3>5. Busy'
      BY <2>1, <1>0, <1>3, BusyStays
    <3>6. CallOK(c)'
      <4>1. answer'[c] = "none" /\ c \notin touched' /\ at'[c] \in 1 .. FinalStep(op'[c])
        BY <2>1, <3>b, <3>1, <3>2, <3>3, <1>1, <1>3
      <4>2. CASE s.fail = "leave"
        <5>1. c \notin refused' /\ Left(c)' = Own[op'[c]][at'[c]]
          BY <4>2, <2>3, <3>2, <3>3, <1>3
        <5> QED BY <4>1, <5>1 DEF CallOK
      <4>3. CASE s.fail = "goOn"
        <5>1. c \in refused' /\ Left(c)' = {} /\ op'[c] = "mail" /\ at'[c] = 8
          BY <4>3, <3>2, <3>3, <1>3
        <5> QED BY <4>1, <5>1 DEF CallOK, Freed
      <4> QED BY <4>2, <4>3, <3>2
    <3>7. Ledger'
      BY <2>1, <3>1, <3>3, <3>6, <1>0, <1>1, <1>3, <1>4, OneCall
    <3> QED BY <3>4, <3>5, <3>7, <1>6 DEF CallsInv
  <2> QED BY <2>2, <2>3, <1>1 DEF CallOK
<1> QED BY <1>7, <1>8

\* What a call has does not change with the state of the process.
LEMMA LedgerStays ==
    ASSUME CallsInv, UNCHANGED <<running, op, at, open, answer, refused>>,
           touched' = touched \/ \E c \in refused : touched' = touched \cup {c}
    PROVE  Busy' /\ Ledger'
<1>1. Busy'
  BY BusyStays DEF CallsInv
<1>2. ASSUME NEW c \in Made PROVE CallOK(c)'
  <2>1. CallOK(c)
    BY DEF CallsInv, Ledger
  <2>2. Left(c)' = Left(c)
    BY DEF Left
  <2> QED BY <2>1, <2>2 DEF CallOK, Freed, Remains
<1> QED BY <1>1, <1>2 DEF Ledger, Made

LEMMA DeathKeeps ==
    ASSUME CallsInv, NEW t \in Threads, up, running[t] # 0,
           DiesLogging(t) \/ DiesTouching(t)
    PROVE  CallsInv'
<1> PICK c \in Made : c = running[t]
  BY AtStep
<1>0. Types /\ Busy /\ Ledger /\ Lives
  BY DEF CallsInv
<1>1. CASE DiesLogging(t)
  <2>1. UNCHANGED <<running, op, at, open, answer, logger, inits, history>> /\ up' = FALSE
        /\ ~logger
    BY <1>1 DEF DiesLogging
  <2>2. Busy' /\ Ledger'
    BY <2>1, LedgerStays DEF history
  <2>3. Types' /\ Lives'
    BY <2>1, <1>0 DEF Types, Lives, Made, history
  <2> QED BY <2>2, <2>3 DEF CallsInv
<1>2. CASE DiesTouching(t)
  <2>1. /\ UNCHANGED <<running, op, at, open, answer, logger, inits, refused>> /\ up' = FALSE
        /\ touched' = touched \cup {c}
        /\ ~((StepOf(c).uses \cup StepOf(c).puts) \subseteq Left(c))
    BY <1>2 DEF DiesTouching, Foreign
  <2>2. c \in refused
    <3>1. c \in Made /\ Fits(op[c], at[c]) /\ CallOK(c) /\ answer[c] = "none"
      BY AtStep
    <3>2. /\ StepOf(c).uses \subseteq Own[op[c]][at[c]]
          /\ StepOf(c).puts \subseteq Own[op[c]][at[c]]
      BY <3>1 DEF Fits, StepOf
    <3>3. Left(c) # Own[op[c]][at[c]]
      BY <2>1, <3>2
    <3> QED BY <3>1, <3>3 DEF CallOK
  <2>3. Busy' /\ Ledger'
    BY <2>1, <2>2, LedgerStays
  <2>4. Types' /\ Lives'
    BY <2>1, <2>2, <1>0 DEF Types, Lives, Made
  <2> QED BY <2>3, <2>4 DEF CallsInv
<1> QED BY <1>1, <1>2

\* The invariant holds whatever the threads do, for any number of calls.
THEOREM CallsInvHolds == Spec => []CallsInv
<1>1. Init => CallsInv
  <2> SUFFICES ASSUME Init PROVE CallsInv
    OBVIOUS
  <2>1. Made = {} /\ Len(op) = 0 /\ Len(at) = 0 /\ Len(answer) = 0
    BY DEF Init, Made
  <2>2. Types
    <3>1. op \in Seq(Ops) /\ at \in Seq(1 .. 14) /\ answer \in Seq({"none", "true", "false"})
      BY DEF Init
    <3>2. running \in [Threads -> Nat]
      BY DEF Init
    <3>3. open \subseteq Made \X Resources /\ touched \subseteq Made /\ refused \subseteq Made
      BY DEF Init
    <3>4. logger \in BOOLEAN /\ up \in BOOLEAN /\ inits \in Nat
      BY DEF Init
    <3>5. Len(op) <= MaxCalls /\ Len(at) = Len(op) /\ Len(answer) = Len(op)
      BY <2>1, CallsAssumption
    <3> QED BY <3>1, <3>2, <3>3, <3>4, <3>5 DEF Types
  <2> QED BY <2>1, <2>2 DEF Init, CallsInv, Busy, Ledger, Lives
<1>2. CallsInv /\ [Next]_vars => CallsInv'
  <2> SUFFICES ASSUME CallsInv, [Next]_vars PROVE CallsInv'
    OBVIOUS
  <2>1. ASSUME up, InitLogger PROVE CallsInv'
    <3>1. Busy' /\ Ledger'
      BY <2>1, LedgerStays DEF InitLogger, history
    <3>2. /\ logger' = TRUE /\ up' = ~logger /\ inits' = inits + 1
          /\ UNCHANGED <<running, op, at, open, answer, history>>
          /\ Types /\ Lives
      BY <2>1 DEF InitLogger, CallsInv
    <3>3. Types'
      BY <3>2 DEF Types, Made, history
    <3>4. Lives'
      <4>0. inits \in Nat /\ inits' = inits + 1 /\ logger' /\ up /\ inits <= 1
        BY <2>1, <3>2 DEF Types, Lives
      <4>1. CASE logger
        <5>1. inits >= 1
          BY <4>1, <3>2 DEF Lives
        <5>2. ~up'
          BY <4>1, <3>2
        <5> QED BY <4>0, <5>1, <5>2 DEF Lives
      <4>2. CASE ~logger
        <5>1. inits = 0
          BY <4>0, <4>2, <3>2 DEF Lives
        <5>2. up'
          BY <4>2, <3>2
        <5> QED BY <4>0, <5>1, <5>2 DEF Lives
      <4> QED BY <4>1, <4>2
    <3> QED BY <3>1, <3>3, <3>4 DEF CallsInv
  <2>2. ASSUME up, NEW t \in Threads, Proceed(t) PROVE CallsInv'
    BY <2>2, SucceedKeeps, FailKeeps, DeathKeeps DEF Proceed
  <2>3. ASSUME up, NEW t \in Threads, NEW o \in Ops, Call(t, o) PROVE CallsInv'
    BY <2>3, CallKeeps
  <2>4. CASE UNCHANGED vars
    <3>1. Busy' /\ Ledger'
      BY <2>4, LedgerStays DEF vars
    <3>2. Types' /\ Lives'
      BY <2>4 DEF vars, CallsInv, Types, Lives, Made
    <3> QED BY <3>1, <3>2 DEF CallsInv
  <2> QED BY <2>1, <2>2, <2>3, <2>4 DEF Next
<1> QED BY <1>1, <1>2, PTL DEF Spec

-----------------------------------------------------------------------------
\* Types, and a call that has not returned is the call of a thread.
THEOREM TypeCorrect == Spec => []TypeOK
<1>1. CallsInv => TypeOK
  <2> SUFFICES ASSUME CallsInv PROVE TypeOK
    OBVIOUS
  <2>0. Types /\ Busy
    BY DEF CallsInv
  <2>1. running \in [Threads -> 0 .. Len(op)]
    BY <2>0 DEF Types, Busy, Made
  <2>2. \A c \in Made : c \notin Ended <=> \E t \in Threads : running[t] = c
    BY <2>0 DEF Types, Busy, Made, Ended
  <2> QED BY <2>0, <2>1, <2>2 DEF TypeOK, Types
<1> QED BY <1>1, CallsInvHolds, PTL

\* For any number of threads and calls, what a call leaves open when it has
\* returned is what its script says, and nothing of another call is touched.
THEOREM LeftBehindHolds == Spec => []LeftBehind
<1>1. CallsInv => LeftBehind
  <2> SUFFICES ASSUME CallsInv, NEW c \in Ended
               PROVE  Left(c) = IF answer[c] = "true" THEN Kept[op[c]]
                                ELSE Remains(op[c], at[c])
    BY DEF LeftBehind
  <2>1. c \in Made /\ answer[c] # "none"
    BY DEF Ended
  <2>2. answer[c] \in {"none", "true", "false"}
    BY <2>1 DEF CallsInv, Types, Made
  <2>3. CallOK(c)
    BY <2>1 DEF CallsInv, Ledger
  <2> QED BY <2>1, <2>2, <2>3 DEF CallOK
<1> QED BY <1>1, CallsInvHolds, PTL

\* For any number of threads and calls: only a sendCode() whose option for the
\* recipients failed uses or frees what it has not, and each one does as soon as
\* it goes on.
THEOREM StaleUseHolds == Spec => []StaleUse
<1>1. CallsInv => StaleUse
  <2> SUFFICES ASSUME CallsInv PROVE StaleUse
    OBVIOUS
  <2>0. Types /\ Ledger
    BY DEF CallsInv
  <2>1. touched \subseteq refused
    BY <2>0 DEF Types, Ledger, CallOK
  <2>2. ASSUME NEW c \in refused
        PROVE  op[c] = "mail" /\ (at[c] > 8 \/ c \in Ended => c \in touched)
    <3>1. c \in Made /\ CallOK(c)
      BY <2>0 DEF Types, Ledger
    <3>2. CASE answer[c] = "none"
      BY <3>1, <3>2 DEF CallOK, Freed, Ended
    <3>3. CASE answer[c] # "none"
      BY <3>1, <3>3 DEF CallOK
    <3> QED BY <3>2, <3>3
  <2> QED BY <2>1, <2>2 DEF StaleUse
<1> QED BY <1>1, CallsInvHolds, PTL

\* A process that makes its logger once, first, dies of nothing but the stale
\* use of sendCode().
THEOREM InitialisedLivesHolds == Spec => []InitialisedLives
<1>1. CallsInv => InitialisedLives
  BY DEF CallsInv, Lives, InitialisedLives
<1> QED BY <1>1, CallsInvHolds, PTL

-----------------------------------------------------------------------------
(* The process.                                                            *)

\* Ids do not disturb the calls: what is proved of Calls holds of a process.
THEOREM ProcessImplementsCalls == ProcessSpec => Spec
<1>1. ProcessInit => Init
  BY DEF ProcessInit
<1>2. [ProcessNext]_ProcessVars => [Next]_vars
  BY DEF ProcessNext, ProcessVars
<1> QED BY <1>1, <1>2, PTL DEF ProcessSpec, Spec

-----------------------------------------------------------------------------
\* The number that was taken d ids ago, when the counter is at b.
Ago(b, d) == IF b >= d THEN b - d ELSE b - d + Width

\* The last ids have the numbers below the counter, across the wrap.
Consecutive ==
    /\ number_base \in 0 .. Width - 1
    /\ recent \in Seq(0 .. Width - 1) /\ Len(recent) <= Width
    /\ \A i \in 1 .. Len(recent) : recent[i] = Ago(number_base, Len(recent) + 1 - i)

LEMMA CounterMoves ==
    ASSUME number_base \in 0 .. Width - 1
    PROVE  (number_base + 1) % Width = IF number_base + 1 = Width THEN 0 ELSE number_base + 1
<1>1. Width \in Nat /\ Width > 0
  BY IdentifiersAssumption
<1>2. CASE number_base + 1 = Width
  BY <1>1, <1>2
<1>3. CASE number_base + 1 < Width
  BY <1>1, <1>3
<1> QED BY <1>1, <1>2, <1>3

LEMMA TakeNumberKeeps ==
    ASSUME Consecutive, TakeNumber
    PROVE  Consecutive'
<1> DEFINE full == ~(Len(recent) < Width)
           old == IF full THEN Tail(recent) ELSE recent
<1>0. /\ Width \in Nat /\ Width > 0 /\ number_base \in 0 .. Width - 1
      /\ recent \in Seq(0 .. Width - 1) /\ Len(recent) \in 0 .. Width
  BY IdentifiersAssumption DEF Consecutive
<1>1. number_base' = IF number_base + 1 = Width THEN 0 ELSE number_base + 1
  BY <1>0, CounterMoves DEF TakeNumber
<1>2. recent' = Append(old, number_base)
  BY DEF TakeNumber, Remember
<1>3. /\ old \in Seq(0 .. Width - 1) /\ Len(old) \in 0 .. Width - 1
      /\ \A i \in 1 .. Len(old) : old[i] = Ago(number_base, Len(old) + 1 - i)
  <2>1. CASE full
    <3>1. recent # <<>>
      BY <2>1, <1>0
    <3>2. /\ Tail(recent) \in Seq(0 .. Width - 1) /\ Len(Tail(recent)) = Len(recent) - 1
          /\ \A i \in 1 .. Len(Tail(recent)) : Tail(recent)[i] = recent[i + 1]
      BY <1>0, <3>1, HeadTailProperties
    <3>3. ASSUME NEW i \in 1 .. Len(Tail(recent))
          PROVE  Tail(recent)[i] = Ago(number_base, Len(Tail(recent)) + 1 - i)
      <4>0. PICK n, k : n = Len(recent) /\ k = Len(Tail(recent))
        OBVIOUS
      <4>1. n \in Nat /\ k = n - 1 /\ i \in 1 .. k
        BY <4>0, <3>2, <1>0, <3>3
      <4>2. Tail(recent)[i] = recent[i + 1] /\ i + 1 \in 1 .. n
        BY <3>2, <4>0, <4>1
      <4>3. recent[i + 1] = Ago(number_base, n + 1 - (i + 1))
        BY <4>0, <4>2 DEF Consecutive
      <4>4. n + 1 - (i + 1) = k + 1 - i
        BY <4>1
      <4> QED BY <4>0, <4>2, <4>3, <4>4
    <3> QED BY <2>1, <3>2, <3>3, <1>0
  <2>2. CASE ~full
    BY <2>2, <1>0 DEF Consecutive
  <2> QED BY <2>1, <2>2
<1> HIDE DEF old
<1>4. /\ recent' \in Seq(0 .. Width - 1) /\ Len(recent') = Len(old) + 1
      /\ \A i \in 1 .. Len(old) : recent'[i] = old[i]
      /\ recent'[Len(old) + 1] = number_base
  BY <1>0, <1>2, <1>3, AppendProperties
<1>5. ASSUME NEW i \in 1 .. Len(recent')
      PROVE  recent'[i] = Ago(number_base', Len(recent') + 1 - i)
  <2>0. PICK k, d : k = Len(old) /\ d = k + 1 - i
    OBVIOUS
  <2>1. k \in 0 .. Width - 1 /\ i \in 1 .. k + 1 /\ Len(recent') = k + 1
    BY <2>0, <1>3, <1>4
  <2>2. d \in 0 .. Width - 1 /\ (k + 1) + 1 - i = d + 1
    BY <2>0, <2>1, <1>0
  <2>3. recent'[i] = Ago(number_base, d)
    <3>1. CASE i = k + 1
      BY <3>1, <2>0, <2>1, <1>4, <1>0 DEF Ago
    <3>2. CASE i \in 1 .. k
      BY <3>2, <2>0, <1>3, <1>4
    <3> QED BY <3>1, <3>2, <2>1
  <2>4. Ago(number_base', d + 1) = Ago(number_base, d)
    BY <2>2, <1>0, <1>1 DEF Ago
  <2> QED BY <2>1, <2>2, <2>3, <2>4
<1>6. number_base' \in 0 .. Width - 1
  BY <1>0, <1>1
<1>7. Len(recent') <= Width
  BY <1>0, <1>3, <1>4
<1> QED BY <1>4, <1>5, <1>6, <1>7 DEF Consecutive

\* For a counter of any width, no two of the last Width ids have one number.
THEOREM RecentIdsDifferHolds == ProcessSpec => []RecentIdsDiffer
<1>1. ProcessInit => Consecutive
  BY IdentifiersAssumption DEF ProcessInit, IdsInit, Consecutive
<1>2. Consecutive /\ [ProcessNext]_ProcessVars => Consecutive'
  <2> SUFFICES ASSUME Consecutive, [ProcessNext]_ProcessVars
               PROVE  Consecutive'
    OBVIOUS
  <2>1. CASE TakeNumber
    BY <2>1, TakeNumberKeeps
  <2>2. CASE UNCHANGED ids
    BY <2>2 DEF ids, Consecutive, Ago
  <2> QED BY <2>1, <2>2 DEF ProcessNext, ProcessVars
<1>3. Consecutive => RecentIdsDiffer
  <2> SUFFICES ASSUME Consecutive, NEW i \in DOMAIN recent, NEW j \in DOMAIN recent,
                      recent[i] = recent[j]
               PROVE  i = j
    BY DEF RecentIdsDiffer, IsInjective
  <2>1. /\ i \in 1 .. Len(recent) /\ j \in 1 .. Len(recent) /\ Len(recent) <= Width
        /\ Len(recent) \in Nat /\ Width \in Nat /\ number_base \in 0 .. Width - 1
    BY IdentifiersAssumption DEF Consecutive
  <2>2. Ago(number_base, Len(recent) + 1 - i) = Ago(number_base, Len(recent) + 1 - j)
    BY <2>1 DEF Consecutive
  <2>3. PICK n, c : n = Len(recent) /\ c = number_base
    OBVIOUS
  <2>4. /\ i \in 1 .. n /\ j \in 1 .. n /\ n \in 0 .. Width /\ Width \in Nat
        /\ c \in 0 .. Width - 1 /\ Ago(c, n + 1 - i) = Ago(c, n + 1 - j)
    BY <2>1, <2>2, <2>3
  <2> QED BY ONLY <2>4, SMTT(30) DEF Ago
<1> QED BY <1>1, <1>2, <1>3, PTL DEF ProcessSpec
=============================================================================
