----------------------------- MODULE TestRuntime -----------------------------
(***************************************************************************)
(* The threads of TestApp and what they share: the main thread with its    *)
(* receive loop, its SIGINT handler and its way out (main.cpp), the one    *)
(* thread that processes commands (TaskHandler.cpp), the workers of        *)
(* work_thread_task (thread_pool.h) and the detached test threads.  The    *)
(* receiver delivers the commands of script one by one (FrameReceiver),    *)
(* the work queue is the FIFO that ThreadSafeQueue implements, and a       *)
(* command is its place in script.  The kernel runs the handler of SIGINT  *)
(* on the main thread, in between two of its steps; SIGINT comes once.     *)
(***************************************************************************)
EXTENDS Integers, Sequences, FiniteSets

CONSTANTS Worker,  \* the threads of work_thread_task (8)
          Script,  \* the sequences of commands the host may send
          CtrlC,   \* those during which SIGINT may come: a bound
          None     \* no command

(***************************************************************************)
(* What processTask() makes of a command.  On the pool: switchs waits for  *)
(* keys until stopped; timed stands for serial, camera, common and typec,  *)
(* which end by themselves and answer, disabled for those that return      *)
(* without an answer, microphone for the one whose threads wait for a      *)
(* mutex their creator holds while it joins them.  Elsewhere: inline for   *)
(* storage, net, gpio, ..., detached for rtc and bluetooth, plain for the  *)
(* handshake and the like, stop for CMD_BEGIN_TEST and CMD_OVER_TEST.  An  *)
(* unknown command has a number that no case knows, as the 7 with which    *)
(* the host acknowledges a result: the default logs it, and that is all.   *)
(***************************************************************************)
PoolKinds == {"switchs", "timed", "disabled", "microphone"}
Kinds == PoolKinds \cup {"inline", "detached", "plain", "stop", "unknown"}

ASSUME ScriptAssumption == Script \subseteq Seq(Kinds) /\ CtrlC \subseteq Script
ASSUME WorkerAssumption == Worker # {} /\ IsFiniteSet(Worker)
ASSUME NoneAssumption == None \notin Nat

VARIABLES
  script, received,       \* the commands, and how many have been received
  main, sig,              \* the main thread, the handler of SIGINT on it
  taskQueue,              \* TaskQueue taskQueue
  flagsMain, stoppedMain, \* interrupt_flags_queue_main, flags stopped
  flagsTask, stopped,     \* interrupt_flags_queue_task, flags stopped
  handler, cmd,           \* the command thread and its Task
  pool,                   \* work_queue of work_thread_task
  worker, job,            \* the pool threads and their tasks
  detached,               \* rtc and bluetooth threads
  acked, answered,        \* commands acknowledged, results sent for each
  calm                    \* history: SIGINT came when nothing was going on

mainVars == <<main, received>>
flagVars == <<flagsMain, stoppedMain>>
taskFlagVars == <<flagsTask, stopped>>
handlerVars == <<handler, cmd>>
poolVars == <<pool, worker, job>>
outVars == <<acked, answered>>
vars == <<script, mainVars, sig, taskQueue, flagVars, taskFlagVars, handlerVars,
          poolVars, detached, outVars, calm>>

Init ==
  /\ script \in Script /\ received = 0
  /\ main = "submit" /\ sig = "none" /\ calm = FALSE
  /\ taskQueue = <<>>
  /\ flagsMain = <<"recv">> /\ stoppedMain = {}
  /\ flagsTask = <<>> /\ stopped = {}
  /\ handler = "none" /\ cmd = None
  /\ pool = <<>>
  /\ worker = [w \in Worker |-> "check"] /\ job = [w \in Worker |-> None]
  /\ detached = {}
  /\ acked = <<>> /\ answered = [k \in DOMAIN script |-> 0]

Running == main \notin {"exited", "crashed"}
\* What main() has destroyed on its way out: its locals, then work_thread_task.
LocalsGone == main \in {"joinTask", "joinMain"}
PoolGone == main = "joinMain"
-----------------------------------------------------------------------------
\* The main thread, when it is not in the handler of SIGINT.
MainStep(from, to) ==
  /\ main = from /\ sig \in {"none", "over"}
  /\ main' = to

Submit ==
  /\ MainStep("submit", "pushHandlerFlag")
  /\ handler' = "queued"
  /\ UNCHANGED <<script, received, sig, taskQueue, flagVars, taskFlagVars, cmd,
                 poolVars, detached, outVars, calm>>

PushFlag(from, flag, to) ==
  /\ MainStep(from, to)
  /\ flagsMain' = Append(flagsMain, flag)
  /\ UNCHANGED <<script, received, sig, taskQueue, stoppedMain, taskFlagVars,
                 handlerVars, poolVars, detached, outVars, calm>>
PushHandlerFlag == PushFlag("pushHandlerFlag", "handler", "pushSleepFlag")
PushSleepFlag == PushFlag("pushSleepFlag", "sleep", "check")

CheckRecvFlag ==
  /\ MainStep("check", IF "recv" \in stoppedMain THEN "sleep" ELSE "read")
  /\ UNCHANGED <<script, received, sig, taskQueue, flagVars, taskFlagVars,
                 handlerVars, poolVars, detached, outVars, calm>>

\* One turn of the receive loop: no complete frame, or one that is logged
\* under the mutex of the logger, and then its task is pushed.
Read ==
  /\ \/ MainStep("read", "check") /\ UNCHANGED received
     \/ /\ MainStep("read", "log") /\ received < Len(script)
        /\ received' = received + 1
  /\ UNCHANGED <<script, sig, taskQueue, flagVars, taskFlagVars, handlerVars, poolVars,
                 detached, outVars, calm>>
PushTask ==
  /\ MainStep("log", "check")
  /\ taskQueue' = Append(taskQueue, received)
  /\ UNCHANGED <<script, received, sig, flagVars, taskFlagVars, handlerVars, poolVars,
                 detached, outVars, calm>>

\* return 0 destroys taskHandler, taskQueue and protocol.
Return ==
  /\ MainStep("sleep", "joinTask")
  /\ "sleep" \in stoppedMain
  /\ UNCHANGED <<script, received, sig, taskQueue, flagVars, taskFlagVars,
                 handlerVars, poolVars, detached, outVars, calm>>

\* The destructors of the pools, the last one made first: each waits for its
\* threads, and one waits for the thread that processes commands.
JoinTaskPool ==
  /\ MainStep("joinTask", "joinMain")
  /\ \A w \in Worker : worker[w] = "ended"
  /\ UNCHANGED <<script, received, sig, taskQueue, flagVars, taskFlagVars,
                 handlerVars, poolVars, detached, outVars, calm>>
JoinMainPool ==
  /\ MainStep("joinMain", "exited")
  /\ handler = "ended"
  /\ UNCHANGED <<script, received, sig, taskQueue, flagVars, taskFlagVars,
                 handlerVars, poolVars, detached, outVars, calm>>
-----------------------------------------------------------------------------
\* signal_handler: it logs, which takes a mutex that the main thread may be
\* holding, and stops all flags of main, then, one access at a time, those of
\* the tests, which the command thread may be changing.
Interrupt ==
  /\ sig = "none" /\ Running /\ script \in CtrlC
  /\ sig' = "main"
  /\ calm' = (/\ main \in {"check", "read"} /\ received = Len(script)
              /\ taskQueue = <<>> /\ handler \in {"check", "pop"}
              /\ \A k \in DOMAIN script : script[k] # "microphone")
  /\ UNCHANGED <<script, mainVars, taskQueue, flagVars, taskFlagVars, handlerVars,
                 poolVars, detached, outVars>>

StopMainFlag ==
  /\ Running /\ sig = "main" /\ main # "log"
  /\ IF flagsMain = <<>>
     THEN sig' = "drain" /\ UNCHANGED flagVars
     ELSE /\ stoppedMain' = stoppedMain \cup {Head(flagsMain)}
          /\ flagsMain' = Tail(flagsMain)
          /\ UNCHANGED sig
  /\ UNCHANGED <<script, mainVars, taskQueue, taskFlagVars, handlerVars, poolVars,
                 detached, outVars, calm>>

\* The loop over interrupt_flags_queue_task, of signal_handler as of
\* stop_all_tasks: empty(), then front() and request_stop(), then pop().
Drain(at, to, done) ==
  \/ /\ at = "drain"
     /\ to = (IF flagsTask = <<>> THEN done ELSE "stopFront")
     /\ UNCHANGED taskFlagVars
  \/ /\ at = "stopFront" /\ flagsTask # <<>>
     /\ to = "popFront"
     /\ stopped' = stopped \cup {Head(flagsTask)} /\ UNCHANGED flagsTask
  \/ /\ at = "popFront" /\ flagsTask # <<>>
     /\ to = "drain"
     /\ flagsTask' = Tail(flagsTask) /\ UNCHANGED stopped

DrainStates == {"drain", "stopFront", "popFront"}

\* The second loop of the handler, without and with what it is for.
LeaveTaskFlags ==
  /\ Running /\ sig = "drain" /\ sig' = "over"
  /\ UNCHANGED <<script, mainVars, taskQueue, flagVars, taskFlagVars, handlerVars,
                 poolVars, detached, outVars, calm>>
StopTaskFlag ==
  /\ Running
  /\ sig' \in DrainStates \cup {"over"} /\ Drain(sig, sig', "over")
  /\ UNCHANGED <<script, mainVars, taskQueue, flagVars, handlerVars, poolVars,
                 detached, outVars, calm>>
-----------------------------------------------------------------------------
\* The command thread: a task of work_thread_main.
HandlerStep(from, to) == Running /\ handler = from /\ handler' = to

\* The pool takes the task up, or its destructor has come first.
StartHandler ==
  /\ HandlerStep("queued", IF PoolGone THEN "ended" ELSE "check")
  /\ UNCHANGED <<script, mainVars, sig, taskQueue, flagVars, taskFlagVars, cmd,
                 poolVars, detached, outVars, calm>>

CheckHandlerNever ==
  /\ HandlerStep("check", "pop")
  /\ UNCHANGED <<script, mainVars, sig, taskQueue, flagVars, taskFlagVars, cmd,
                 poolVars, detached, outVars, calm>>
CheckHandlerFlag ==
  /\ HandlerStep("check", IF "handler" \in stoppedMain THEN "ended" ELSE "pop")
  /\ UNCHANGED <<script, mainVars, sig, taskQueue, flagVars, taskFlagVars, cmd,
                 poolVars, detached, outVars, calm>>

\* Where processTask() begins with command k; and with an inline test answered
\* without being acknowledged.
FirstUnacknowledged(k) ==
  CASE script[k] = "stop" -> "drain"
    [] script[k] = "unknown" -> "check"
    [] script[k] = "inline" -> "inline"
    [] OTHER -> "ack"
First(k) ==
  CASE script[k] = "stop" -> "drain"
    [] script[k] = "unknown" -> "check"
    [] OTHER -> "ack"

PopTask ==
  /\ \/ HandlerStep("pop", "check") /\ taskQueue = <<>> /\ UNCHANGED <<taskQueue, cmd>>
     \/ /\ taskQueue # <<>>
        /\ HandlerStep("pop", First(Head(taskQueue)))
        /\ cmd' = Head(taskQueue) /\ taskQueue' = Tail(taskQueue)
  /\ UNCHANGED <<script, mainVars, sig, flagVars, taskFlagVars, poolVars, detached,
                 outVars, calm>>

\* Not a loop: the oldest test alone is stopped.
StopOldestTask ==
  /\ Running
  /\ handler' \in DrainStates \cup {"ack"}
  /\ Drain(handler, IF handler = "popFront" THEN "drain" ELSE handler', "ack")
  /\ handler = "popFront" => handler' = "ack"
  /\ UNCHANGED <<script, mainVars, sig, taskQueue, flagVars, cmd, poolVars, detached,
                 outVars, calm>>
StopAllTasks ==
  /\ Running
  /\ handler' \in DrainStates \cup {"ack"} /\ Drain(handler, handler', "ack")
  /\ UNCHANGED <<script, mainVars, sig, taskQueue, flagVars, cmd, poolVars, detached,
                 outVars, calm>>

\* Where processTask() goes after the acknowledgement of a command.
Execute(k) ==
  CASE script[k] \in PoolKinds -> "submit"
    [] script[k] = "inline" -> "inline"
    [] script[k] = "detached" -> "detach"
    [] OTHER -> "check"

Acknowledge ==
  /\ HandlerStep("ack", Execute(cmd))
  /\ acked' = Append(acked, cmd)
  /\ UNCHANGED <<script, mainVars, sig, taskQueue, flagVars, taskFlagVars, cmd,
                 poolVars, detached, answered, calm>>

SubmitTest ==
  /\ HandlerStep("submit", "flag")
  /\ pool' = Append(pool, cmd)
  /\ UNCHANGED <<script, mainVars, sig, taskQueue, flagVars, taskFlagVars, cmd,
                 worker, job, detached, outVars, calm>>

PushTestFlag ==
  /\ HandlerStep("flag", "check")
  /\ flagsTask' = Append(flagsTask, cmd)
  /\ UNCHANGED <<script, mainVars, sig, taskQueue, flagVars, stopped, cmd, poolVars,
                 detached, outVars, calm>>

Answer(k) == answered' = [answered EXCEPT ![k] = @ + 1]

RunInline ==
  /\ HandlerStep("inline", "check")
  /\ Answer(cmd)
  /\ UNCHANGED <<script, mainVars, sig, taskQueue, flagVars, taskFlagVars, cmd,
                 poolVars, detached, acked, calm>>

Detach ==
  /\ HandlerStep("detach", "check")
  /\ detached' = detached \cup {cmd}
  /\ UNCHANGED <<script, mainVars, sig, taskQueue, flagVars, taskFlagVars, cmd,
                 poolVars, outVars, calm>>
-----------------------------------------------------------------------------
\* The detached thread answers and ends.
DetachedAnswer(k) ==
  /\ Running /\ k \in detached
  /\ Answer(k) /\ detached' = detached \ {k}
  /\ UNCHANGED <<script, mainVars, sig, taskQueue, flagVars, taskFlagVars,
                 handlerVars, poolVars, acked, calm>>

WorkerStep(w, from, to) ==
  /\ Running /\ worker[w] = from
  /\ worker' = [worker EXCEPT ![w] = to]
  /\ UNCHANGED <<script, mainVars, sig, taskQueue, flagVars, taskFlagVars,
                 handlerVars, detached, acked, calm>>

\* while (!done), and try_pop.
CheckDone(w) ==
  /\ WorkerStep(w, "check", IF LocalsGone THEN "ended" ELSE "take")
  /\ UNCHANGED <<pool, job, answered>>
Take(w) ==
  /\ \/ WorkerStep(w, "take", "check") /\ pool = <<>> /\ UNCHANGED <<pool, job>>
     \/ /\ WorkerStep(w, "take", "run") /\ pool # <<>>
        /\ job' = [job EXCEPT ![w] = Head(pool)] /\ pool' = Tail(pool)
  /\ UNCHANGED answered

RunsKind(w, kinds) == job[w] # None /\ script[job[w]] \in kinds

\* The loop of switchs_test, without and with its look at the flag.
NeverStops(w) == FALSE
IsStopped(w) == job[w] \in stopped
KeyLoop(w) ==
  /\ RunsKind(w, {"switchs"})
  /\ WorkerStep(w, "run", IF IsStopped(w) THEN "check" ELSE "key")
  /\ UNCHANGED <<pool, job, answered>>

\* waitForKeyPress(120): time is up or another key, an error, the last key.
KeyPress(w) ==
  /\ \E to \in {"run", "check", "answer"} : WorkerStep(w, "key", to)
  /\ UNCHANGED <<pool, job, answered>>

TestSilent(w) ==
  /\ RunsKind(w, {"timed", "disabled"}) /\ WorkerStep(w, "run", "check")
  /\ UNCHANGED <<pool, job, answered>>
Test(w) ==
  /\ \/ RunsKind(w, {"timed"}) /\ WorkerStep(w, "run", "answer")
     \/ RunsKind(w, {"disabled"}) /\ WorkerStep(w, "run", "check")
  /\ UNCHANGED <<pool, job, answered>>

\* The result sent, the loop of the test not left.
SendResultAndGoOn(w) ==
  /\ WorkerStep(w, "answer", "run")
  /\ Answer(job[w])
  /\ UNCHANGED <<pool, job>>
SendResult(w) ==
  /\ WorkerStep(w, "answer", "check")
  /\ Answer(job[w])
  /\ UNCHANGED <<pool, job>>
-----------------------------------------------------------------------------
(***************************************************************************)
(* Undefined behaviour.  A thread that uses what main() has destroyed goes *)
(* on as if it were there or ends the process; front() and pop() of an     *)
(* empty queue, which two threads that drain it can come to, end it.       *)
(***************************************************************************)
Undefined ==
  \/ LocalsGone /\ \/ handler \in {"pop", "ack", "inline"} \/ detached # {}
                   \/ \E w \in Worker : worker[w] = "answer"
  \/ PoolGone /\ handler \in DrainStates \cup {"submit", "flag"}
  \/ flagsTask = <<>> /\ {handler, sig} \cap {"stopFront", "popFront"} # {}

Crash ==
  /\ Running /\ Undefined
  /\ main' = "crashed"
  /\ UNCHANGED <<script, received, sig, taskQueue, flagVars, taskFlagVars,
                 handlerVars, poolVars, detached, outVars, calm>>

Main == \/ Submit \/ PushHandlerFlag \/ PushSleepFlag \/ CheckRecvFlag \/ Read
        \/ PushTask \/ Return \/ JoinTaskPool \/ JoinMainPool \/ StopMainFlag \/ StopTaskFlag
Handler == \/ StartHandler \/ CheckHandlerFlag \/ PopTask \/ StopAllTasks
           \/ Acknowledge \/ SubmitTest \/ PushTestFlag \/ RunInline \/ Detach
WorkerThread(w) == CheckDone(w) \/ Take(w) \/ KeyLoop(w) \/ KeyPress(w)
                   \/ Test(w) \/ SendResult(w)

Next == \/ Main \/ Interrupt \/ Handler \/ Crash
        \/ \E w \in Worker : WorkerThread(w)
        \/ \E k \in DOMAIN script : DetachedAnswer(k)

\* Every thread that can run does.  waitForKeyPress() returns after 120 s at
\* the latest, a timed test after its own.
Fairness == /\ WF_vars(Main) /\ WF_vars(Handler)
            /\ \A w \in Worker : WF_vars(WorkerThread(w))
            /\ WF_vars(\E k \in DOMAIN script : DetachedAnswer(k))

Spec == Init /\ [][Next]_vars /\ Fairness
-----------------------------------------------------------------------------
TypeOK ==
  /\ script \in Script /\ received \in 0..Len(script)
  /\ main \in {"submit", "pushHandlerFlag", "pushSleepFlag", "check", "read",
               "log", "sleep", "joinTask", "joinMain", "exited", "crashed"}
  /\ sig \in {"none", "main", "over"} \cup DrainStates
  /\ taskQueue \in Seq(DOMAIN script)
  /\ flagsMain \in Seq({"recv", "handler", "sleep"})
  /\ stoppedMain \subseteq {"recv", "handler", "sleep"}
  /\ flagsTask \in Seq(DOMAIN script) /\ stopped \subseteq DOMAIN script
  /\ handler \in {"none", "queued", "check", "pop", "ack", "submit", "flag",
                  "inline", "detach", "ended"} \cup DrainStates
  /\ cmd \in DOMAIN script \cup {None}
  /\ pool \in Seq(DOMAIN script)
  /\ worker \in [Worker -> {"check", "take", "run", "key", "answer", "ended"}]
  /\ job \in [Worker -> DOMAIN script \cup {None}]
  /\ detached \subseteq DOMAIN script
  /\ acked \in Seq(DOMAIN script) /\ answered \in [DOMAIN script -> 0..1]
  /\ calm \in BOOLEAN

InPool(k) == script[k] \in PoolKinds
Held(k) == (\E i \in 1..Len(pool) : pool[i] = k)
           \/ \E w \in Worker : job[w] = k /\ worker[w] \in {"run", "key", "answer"}
Acked(k) == \E i \in 1..Len(acked) : acked[i] = k

(***************************************************************************)
(* The host hears of its commands in the order it sent them, of each once: *)
(* when one is acknowledged every earlier one has been, but for those that *)
(* processTask() does not know, of which the host never hears.  A result   *)
(* comes after the acknowledgement and at most once, although handler,     *)
(* workers and detached threads all send.                                  *)
(***************************************************************************)
AnswersInOrder ==
  /\ \A i, j \in 1..Len(acked) : i < j => acked[i] < acked[j]
  /\ \A i \in 1..Len(acked) :
       /\ script[acked[i]] # "unknown"
       /\ \A k \in 1..acked[i] : script[k] = "unknown" \/ Acked(k)
  /\ \A k \in DOMAIN script : answered[k] <= 1 /\ (answered[k] = 1 => Acked(k))

(***************************************************************************)
(* CMD_BEGIN_TEST or CMD_OVER_TEST is acknowledged only when every test    *)
(* given to the pool before it has been told to stop, also one that still  *)
(* waits for a worker.  (With SIGINT in between, two threads drain the     *)
(* queue of flags and one of them may be lost.)                            *)
(***************************************************************************)
StopReachesAll ==
  sig = "none" =>
    \A i, j \in DOMAIN script :
      i < j /\ InPool(i) /\ script[j] = "stop" /\ Acked(j) => i \in stopped

(***************************************************************************)
(* After a stop command the pool gets rid of every earlier test, however   *)
(* many key tests had taken all its workers.                               *)
(***************************************************************************)
NoneHangs == \A k \in DOMAIN script : script[k] # "microphone"
HeldAfterStop ==
  \E i, j \in DOMAIN script :
    i < j /\ script[j] = "stop" /\ Acked(j) /\ InPool(i) /\ Held(i)
StopFreesPool ==
  (HeldAfterStop /\ NoneHangs) ~> (sig # "none" \/ ~HeldAfterStop)

(***************************************************************************)
(* A test that answers does so once it is acknowledged, as long as fewer   *)
(* tests than workers are of the kinds that may never end.                 *)
(***************************************************************************)
EndlessTests == {k \in DOMAIN script : script[k] \in {"switchs", "microphone"}}
AnswerDue ==
  \E k \in DOMAIN script :
    Acked(k) /\ answered[k] = 0 /\ script[k] \in {"timed", "inline", "detached"}
TestsAnswered ==
  (AnswerDue /\ Cardinality(EndlessTests) < Cardinality(Worker))
    ~> (sig # "none" \/ ~AnswerDue)

(***************************************************************************)
(* Ctrl+C while the program polls, with no command on its way, ends it,    *)
(* whatever tests are running: all flags are stopped and all threads leave *)
(* their loops, unless one of them trips over what main() has destroyed.   *)
(***************************************************************************)
CalmShutdownEnds == calm ~> ~Running

(***************************************************************************)
(* main.cpp:129 says of SIGINT that the program gets ready to exit, and    *)
(* main.cpp:85 that from then on it waits for that signal: it exits.       *)
(***************************************************************************)
CtrlCEnds == sig # "none" ~> main = "exited"
=============================================================================
