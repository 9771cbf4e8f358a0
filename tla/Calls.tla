------------------------------- MODULE Calls -------------------------------
(***************************************************************************)
(* The calls that get something from a library and have to give it back:   *)
(* FastDFSClient (fastdfs.cc), MailClient::sendCode (mail.cc),             *)
(* TransCoder::transCode (ffmpeg.cc), ClosureFactory::createClosure and    *)
(* RpcServerFactory::createServer (rpc.cc), made by the threads of one     *)
(* process.  A call is a sequence of steps; a step gets, uses and gives    *)
(* back resources, and has its own way to fail.  Every failure is logged,  *)
(* through a pointer that is null until init_logger() has run (logger.cc). *)
(*                                                                         *)
(* What the libraries do with a resource is left out, and so is what is    *)
(* transferred; the loop over the streams of a video is one step.  A       *)
(* touch of what was given back is undefined: the step goes either way or  *)
(* the process dies.                                                       *)
(***************************************************************************)
EXTENDS Integers, Sequences, FiniteSets

CONSTANTS
    Threads,
    MaxCalls    \* bound on the calls of the process

ASSUME CallsAssumption == MaxCalls \in Nat

VARIABLES
    running,  \* per thread the number of its call, 0 between calls
    op,       \* what each call is a call of
    at,       \* the step it is at
    open,     \* pairs of a call and a resource it got that is not given back
    answer,   \* what each call has returned so far
    logger,   \* init_logger() has run
    up,       \* the process lives
    touched,  \* history: the calls that used or freed what they had not
    refused,  \* history: the sendCode() whose option for the recipients failed
    inits     \* history: how often init_logger() was called

vars == <<running, op, at, open, answer, logger, up, touched, refused, inits>>
process == <<logger, up, inits>>
history == <<touched, refused>>

-----------------------------------------------------------------------------
(* Steps.  A step that fails gives back what is in undo, and the call      *)
(* returns false ("return"), goes on all the same ("goOn") or leaves its   *)
(* loop ("leave"), which is no error and is not logged.                    *)
Step(gets, uses, puts, undo, fail) ==
    [gets |-> gets, uses |-> uses, puts |-> puts, undo |-> undo, fail |-> fail,
     next |-> 1, else |-> 1]

Get(r)        == Step({r}, {}, {}, {}, "return")
GetSurely(r)  == Step({r}, {}, {}, {}, "never")
Put(r)        == Step({}, {}, {r}, {}, "never")
Try(rs)       == Step({}, rs, {}, {}, "return")
TryOrFree(rs) == Step({}, rs, {}, rs, "return")

\* Mutant of StorageCall: the connection is never closed.
StorageCallUnclosed == <<Get("connection"), Try({"connection"})>>

\* upload_from_buff, upload_from_file, download_to_file and remove.
StorageCall == <<Get("connection"), Try({"connection"}), Put("connection")>>

DownloadToBuff == <<Get("connection"),
                    Step({"buffer"}, {"connection"}, {}, {}, "return"),
                    Put("buffer"), Put("connection")>>

\* Mutant of SendCode: the list of recipients is freed as soon as its option
\* has been set.
SendCodeFreesList ==
    <<Get("curl"), TryOrFree({"curl"}), TryOrFree({"curl"}), TryOrFree({"curl"}),
      TryOrFree({"curl"}), GetSurely("recipients"),
      Step({}, {"curl", "recipients"}, {"recipients"}, {"curl", "recipients"}, "goOn")>>
    \o [i \in 1 .. 4 |-> TryOrFree({"curl", "recipients"})]
    \o <<Put("recipients"), Put("curl")>>

\* Four options, the list of recipients and its option, whose failure does
\* not return, three more options, the sending.
Option   == TryOrFree({"curl"})
Late     == TryOrFree({"curl", "recipients"})
SendCode == <<Get("curl"), Option, Option, Option, Option, GetSurely("recipients"),
              Step({}, {"curl", "recipients"}, {}, {"curl", "recipients"}, "goOn"),
              Late, Late, Late, Late, Put("recipients"), Put("curl")>>

\* The loop reads a frame and writes it, until a read fails.
ReadFrame  == [gets |-> {}, uses |-> {"input"}, puts |-> {}, undo |-> {},
               fail |-> "leave", next |-> 1, else |-> 2]
WriteFrame == [gets |-> {}, uses |-> {"input", "output"}, puts |-> {}, undo |-> {},
               fail |-> "return", next |-> -1, else |-> 1]
TransCode  == <<Get("input"), Try({"input"}), Get("output"), Try({"input", "output"}),
                GetSurely("options"), Try({"output", "options"}),
                ReadFrame, WriteFrame,
                Try({"output"}), Put("options"), Put("input"), Put("output")>>

\* The closure deletes itself when brpc has run it, the helper stays.
CreateClosure == <<GetSurely("helper"), GetSurely("closure"),
                   Step({}, {"helper"}, {"closure"}, {}, "never")>>

\* The server has the caller's service from AddService() on.
CreateServer == <<GetSurely("service"), GetSurely("server"),
                  Step({}, {"server", "service"}, {}, {"server"}, "return"),
                  TryOrFree({"server", "service"})>>

Script == [storage |-> StorageCall, download |-> DownloadToBuff,
           mail |-> SendCode, transcode |-> TransCode,
           closure |-> CreateClosure, server |-> CreateServer]

\* What a call hands over to its caller, or keeps for good.
Kept == [storage |-> {}, download |-> {}, mail |-> {}, transcode |-> {},
         closure |-> {"helper"}, server |-> {"server", "service"}]

Ops == DOMAIN Script
Resources == {"connection", "buffer", "curl", "recipients", "input", "output",
              "options", "helper", "closure", "service", "server"}

-----------------------------------------------------------------------------
Init == /\ running = [t \in Threads |-> 0]
        /\ op = <<>> /\ at = <<>> /\ answer = <<>>
        /\ open = {} /\ touched = {} /\ refused = {}
        /\ logger = FALSE /\ up = TRUE /\ inits = 0

Left(c) == {r \in Resources : <<c, r>> \in open}

\* Mutant of InitLogger: the logger is made and not assigned.
InitLoggerLocal == /\ logger' = FALSE /\ up' = ~logger /\ inits' = inits + 1
                   /\ UNCHANGED <<running, op, at, open, answer, history>>

\* init_logger(): spdlog refuses a second logger of the same name with an
\* exception that nobody catches.
InitLogger == /\ logger' = TRUE /\ up' = ~logger /\ inits' = inits + 1
              /\ UNCHANGED <<running, op, at, open, answer, history>>

Call(t, o) == /\ running[t] = 0 /\ Len(op) < MaxCalls
              /\ running' = [running EXCEPT ![t] = Len(op) + 1]
              /\ op' = Append(op, o) /\ at' = Append(at, 1)
              /\ answer' = Append(answer, "none")
              /\ UNCHANGED <<open, process, history>>

StepOf(c) == Script[op[c]][at[c]]
IsLast(c) == at[c] = Len(Script[op[c]])
Foreign(c, rs) == ~(rs \subseteq Left(c))
Touch(c, rs) == touched' = IF Foreign(c, rs) THEN touched \cup {c} ELSE touched
Goto(c, distance) == at' = [at EXCEPT ![c] = @ + distance]

\* Mutant of Return: the thread does not come out of the call.
ReturnNever(t, b) == answer' = [answer EXCEPT ![running[t]] = b] /\ UNCHANGED running

Return(t, b) == /\ running' = [running EXCEPT ![t] = 0]
                /\ answer' = [answer EXCEPT ![running[t]] = b]

\* createServer() logs that the server was started.
LogsSuccess(c) == op[c] = "server" /\ IsLast(c)
LogsFailure(c) == StepOf(c).fail \in {"return", "goOn"}

Succeed(t) ==
    LET c == running[t]
        s == StepOf(c)
    IN /\ LogsSuccess(c) => logger
       /\ Touch(c, s.uses \cup s.puts)
       /\ open' = (open \cup ({c} \X s.gets)) \ ({c} \X s.puts)
       /\ Goto(c, s.next)
       /\ IF IsLast(c) THEN Return(t, "true") ELSE UNCHANGED <<running, answer>>
       /\ UNCHANGED <<op, process, refused>>

Fail(t) ==
    LET c == running[t]
        s == StepOf(c)
    IN /\ s.fail # "never" /\ (LogsFailure(c) => logger)
       /\ Touch(c, s.uses \cup s.undo)
       /\ refused' = IF s.fail = "goOn" THEN refused \cup {c} ELSE refused
       /\ open' = open \ ({c} \X s.undo)
       /\ IF s.fail = "return" THEN Return(t, "false") /\ UNCHANGED at
          ELSE Goto(c, s.else) /\ UNCHANGED <<running, answer>>
       /\ UNCHANGED <<op, process>>

\* A message before init_logger() dereferences a null pointer.
DiesLogging(t) ==
    LET c == running[t]
    IN /\ ~logger /\ (LogsSuccess(c) \/ LogsFailure(c))
       /\ up' = FALSE
       /\ UNCHANGED <<running, op, at, open, answer, logger, inits, history>>

DiesTouching(t) ==
    LET c == running[t]
    IN /\ Foreign(c, StepOf(c).uses \cup StepOf(c).puts)
       /\ up' = FALSE /\ touched' = touched \cup {c}
       /\ UNCHANGED <<running, op, at, open, answer, logger, inits, refused>>

Proceed(t) == running[t] # 0 /\ (Succeed(t) \/ Fail(t) \/ DiesLogging(t) \/ DiesTouching(t))

Next == up /\ (InitLogger \/ \E t \in Threads : Proceed(t) \/ \E o \in Ops : Call(t, o))

Spec == Init /\ [][Next]_vars

-----------------------------------------------------------------------------
Made == 1 .. Len(op)
Ended == {c \in Made : answer[c] # "none"}

TypeOK == /\ running \in [Threads -> 0 .. Len(op)]
          /\ op \in Seq(Ops) /\ Len(op) <= MaxCalls
          /\ at \in Seq(1 .. 14) /\ Len(at) = Len(op)
          /\ answer \in Seq({"none", "true", "false"}) /\ Len(answer) = Len(op)
          /\ open \subseteq Made \X Resources /\ touched \subseteq Made
          /\ refused \subseteq Made
          /\ logger \in BOOLEAN /\ up \in BOOLEAN /\ inits \in Nat
          /\ \A c \in Made : c \notin Ended <=> \E t \in Threads : running[t] = c

\* What a call that fails at step i leaves: a failing sendCode() nothing; a
\* service that could not be added is left to the caller, one whose server did
\* not start is deleted; all others leave what they have got.
Remains(o, i) == CASE o = "mail"   -> {}
                   [] o = "server" -> IF i = 3 THEN {"service"} ELSE {}
                   [] OTHER        -> UNION {Script[o][j].gets : j \in 1 .. i - 1}

\* What a call leaves behind.  One that succeeds has given everything back,
\* up to what it hands over; a failing call to the storage leaves its
\* connection (fastdfs.cc:36-39), a failing transcoding every context that it
\* opened (ffmpeg.cc:24-68), and sendCode() nothing, not even when it goes on
\* after it has freed its handle.
LeftBehind ==
    \A c \in Ended :
      Left(c) = IF answer[c] = "true" THEN Kept[op[c]] ELSE Remains(op[c], at[c])

\* A call uses or frees what it has not exactly when it is a sendCode() whose
\* option for the recipients failed: the code frees the handle and the list,
\* does not return, and every way on from there uses both (mail.cc:67-120).  A
\* sendCode() whose recipients were accepted never does, whatever fails after
\* that.
StaleUse ==
    /\ touched \subseteq refused
    /\ \A c \in refused : op[c] = "mail" /\ (at[c] > 8 \/ c \in Ended => c \in touched)

\* A process dies of such a use, of a message before init_logger() or of a
\* second init_logger(), and of nothing else (logger.cc:5-15, logger.h:10-15).
InitialisedLives == inits = 1 /\ touched = {} => up
=============================================================================
