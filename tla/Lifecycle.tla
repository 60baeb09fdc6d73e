----------------------------- MODULE Lifecycle -----------------------------
(***************************************************************************)
(* From main() to the end of the process: the start (main.cpp, BoardFactory *)
(* and the constructors of the board), the three tasks that work_thread_main *)
(* runs for good - the red lamp, the headset and the command thread - and   *)
(* exit(), which a return from main() and an error of the sound card call   *)
(* alike and which destroys the pools and the factory one after the other.  *)
(* TestRuntime takes apart what happens between; here a command is one step *)
(* of the command thread, and SIGINT stops all flags in one step.           *)
(***************************************************************************)
EXTENDS Integers, Sequences, FiniteSets

CONSTANT Workers \* threads of work_thread_main (8)

ASSUME WorkersAssumption == Workers \in Nat /\ Workers >= 3

VARIABLES
  main,     \* where the main thread is
  uart,     \* factory.uart: null, a live object, or a pointer to a freed one
  frees,    \* how often that object has been freed
  queue,    \* work_queue of work_thread_main
  worker,   \* its threads: what each does
  flags,    \* interrupt_flags_queue_main
  stopped,  \* the flags that have been stopped
  test,     \* a test on work_thread_task that only its flag ends, or nothing
  detached, \* the thread of a test that nobody joins: rtc or bluetooth
  lamp,     \* whether the file of the red lamp is open
  red,      \* the red lamp
  destroyed, \* the static objects whose destruction has begun, in order
  exiting,  \* of the two threads that may call exit(): what each destroys
  joins,    \* the workers the destructor of work_thread_main has joined
  process,  \* running, or how it ended
  cardError \* history: the sound card could not be opened

tests == <<test, detached>>
board == <<lamp, red>>
pool == <<queue, worker>>
leaving == <<destroyed, exiting, joins>>
vars == <<main, uart, frees, pool, flags, stopped, tests, board, leaving, process,
          cardError>>

Jobs == {"led", "audio", "handler"}
Flags == Jobs \cup {"recv", "sleep"}
Started == {"serve", "sleep", "returned"}

Init ==
  /\ main = "open" /\ uart = "null" /\ frees = 0
  /\ queue = <<>> /\ worker = [w \in 1..Workers |-> "idle"]
  /\ flags = <<>> /\ stopped = {} /\ test = "none" /\ detached = "none"
  /\ lamp = FALSE /\ red = "unset"
  /\ destroyed = <<>> /\ exiting = [t \in {"main", "audio"} |-> "no"] /\ joins = 0
  /\ process = "runs" /\ cardError = FALSE
-----------------------------------------------------------------------------
MainGoes(from, to) == process = "runs" /\ main = from /\ main' = to

\* A failure frees the object and leaves the pointer to it in the factory.
OpenUartAgain ==
  /\ \/ MainGoes("open", "configure") /\ uart' = "live" /\ UNCHANGED frees
     \/ MainGoes("open", "open") /\ uart' = "dangling" /\ frees' = frees + 1
  /\ UNCHANGED <<pool, flags, stopped, tests, board, leaving, process, cardError>>
OpenUart ==
  /\ \/ MainGoes("open", "configure") /\ uart' = "live" /\ UNCHANGED frees
     \/ MainGoes("open", "returned") /\ uart' = "dangling" /\ frees' = frees + 1
  /\ UNCHANGED <<pool, flags, stopped, tests, board, leaving, process, cardError>>
ConfigureUart ==
  /\ \/ MainGoes("configure", "construct") /\ UNCHANGED <<uart, frees>>
     \/ /\ MainGoes("configure", "returned")
        /\ uart' = "dangling" /\ frees' = frees + 1
  /\ UNCHANGED <<pool, flags, stopped, tests, board, leaving, process, cardError>>

\* The constructors of ZY3588 and its bases; that of Led puts the lamps out.
MakeBoard ==
  /\ MainGoes("construct", "led")
  /\ lamp' \in BOOLEAN
  /\ red' = IF lamp' THEN "off" ELSE red
  /\ UNCHANGED <<uart, frees, pool, flags, stopped, tests, leaving, process, cardError>>

\* submit_interruptible(), and the flag it returns pushed.
Submit(from, job, to) ==
  /\ MainGoes(from, to)
  /\ queue' = Append(queue, job) /\ flags' = Append(flags, job)
  /\ UNCHANGED <<uart, frees, worker, stopped, tests, board, leaving, process, cardError>>
SubmitLed == Submit("led", "led", "audio")
SubmitAudio == Submit("audio", "audio", "register")

RegisterUnlisted ==
  /\ MainGoes("register", "submit")
  /\ UNCHANGED <<uart, frees, pool, flags, stopped, tests, board, leaving, process,
                 cardError>>
Register ==
  /\ MainGoes("register", "submit")
  /\ flags' = Append(flags, "recv")
  /\ UNCHANGED <<uart, frees, pool, stopped, tests, board, leaving, process, cardError>>
SubmitHandler ==
  /\ MainGoes("submit", "serve")
  /\ queue' = Append(queue, "handler")
  /\ flags' = flags \o <<"handler", "sleep">>
  /\ UNCHANGED <<uart, frees, worker, stopped, tests, board, leaving, process, cardError>>

\* The receive loop, and the one behind it.
LeaveLoops ==
  /\ \/ MainGoes("serve", "sleep") /\ "recv" \in stopped
     \/ MainGoes("sleep", "returned") /\ "sleep" \in stopped
  /\ UNCHANGED <<uart, frees, pool, flags, stopped, tests, board, leaving, process,
                 cardError>>

\* SIGINT: the default action until the handler is registered.
Interrupt ==
  /\ process = "runs"
  /\ IF main \in {"open", "configure", "construct", "led", "audio", "register"}
     THEN process' = "killed" /\ UNCHANGED <<flags, stopped, test>>
     ELSE /\ stopped' = stopped \cup {flags[i] : i \in DOMAIN flags} /\ flags' = <<>>
          /\ test' = IF test = "runs" THEN "stopped" ELSE test
          /\ UNCHANGED process
  /\ UNCHANGED <<main, uart, frees, pool, detached, board, leaving, cardError>>
-----------------------------------------------------------------------------
\* A worker of work_thread_main between and at its jobs.
Goes(w, from, to) ==
  /\ process = "runs" /\ worker[w] = from
  /\ worker' = [worker EXCEPT ![w] = to]

PoolDone == \E i \in DOMAIN destroyed : destroyed[i] = "main pool"
First == [job \in Jobs |-> CASE job = "led" -> "dark" [] job = "audio" -> "find"
                             [] OTHER -> "handle"]
Take(w) ==
  /\ queue # <<>> /\ Goes(w, "idle", First[Head(queue)])
  /\ queue' = Tail(queue)
  /\ UNCHANGED <<main, uart, frees, flags, stopped, tests, board, leaving, process,
                 cardError>>
EndWorker(w) ==
  /\ PoolDone /\ Goes(w, "idle", "ended")
  /\ UNCHANGED <<main, uart, frees, queue, flags, stopped, tests, board, leaving, process,
                 cardError>>

\* while (!flag.is_stop_requested()), which only a whole turn of the loop asks.
Finish(w, from, job) == job \in stopped /\ Goes(w, from, "idle")
LedEnds(w) ==
  /\ Finish(w, "dark", "led")
  /\ UNCHANGED <<main, uart, frees, queue, flags, stopped, tests, board, leaving, process,
                 cardError>>

SetRed(to) == red' = IF lamp THEN to ELSE red
BlinkOnce(w) ==
  /\ \/ "led" \notin stopped /\ Goes(w, "dark", "lit") /\ SetRed("on")
     \/ Goes(w, "lit", "dark") /\ UNCHANGED red
  /\ UNCHANGED <<main, uart, frees, queue, flags, stopped, tests, lamp, leaving, process,
                 cardError>>
Blink(w) ==
  /\ \/ "led" \notin stopped /\ Goes(w, "dark", "lit") /\ SetRed("on")
     \/ Goes(w, "lit", "dark") /\ SetRed("off")
  /\ UNCHANGED <<main, uart, frees, queue, flags, stopped, tests, lamp, leaving, process,
                 cardError>>

\* findEventDevice(): without the event device of the headset the task ends.
FindHeadset(w) ==
  /\ \E to \in {"listen", "idle"} : Goes(w, "find", to)
  /\ UNCHANGED <<main, uart, frees, queue, flags, stopped, tests, board, leaving, process,
                 cardError>>
AudioEnds(w) ==
  /\ Finish(w, "listen", "audio")
  /\ UNCHANGED <<main, uart, frees, queue, flags, stopped, tests, board, leaving, process,
                 cardError>>
\* selectAudioIn() ends after 5 s, by an error, or with an event; a headset
\* plugged in plays a tone.
SelectAudioIn(w) ==
  /\ "audio" \notin stopped /\ Goes(w, "listen", "play")
  /\ UNCHANGED <<main, uart, frees, queue, flags, stopped, tests, board, leaving, process,
                 cardError>>
PlayAudio(w) ==
  /\ Goes(w, "play", "listen")
  /\ UNCHANGED <<main, uart, frees, queue, flags, stopped, tests, board, leaving, process,
                 cardError>>
\* play_audio() logs an error of snd_pcm_writei() and writes the same frames
\* again: an error that stays keeps it there.
PlayForever(w) ==
  /\ Goes(w, "play", "endless")
  /\ UNCHANGED <<main, uart, frees, queue, flags, stopped, tests, board, leaving, process,
                 cardError>>
\* check_error(): the card is in use or cannot be set up, and this thread calls
\* exit().
CardError(w) ==
  /\ Goes(w, "play", "exit")
  /\ cardError' = TRUE
  /\ UNCHANGED <<main, uart, frees, queue, flags, stopped, tests, board, leaving, process>>

\* The command thread: manual_test sets the lamp, a test takes a worker of the
\* other pool, or what has become of that pool, or gets a thread of its own;
\* wifi_test with a scanCount below zero scans for ever.  A command that main()
\* does not wait for uses locals of main() that are gone.
TaskPoolGone == \E i \in DOMAIN destroyed : destroyed[i] = "task pool"
HandlerEnds(w) ==
  /\ Finish(w, "handle", "handler")
  /\ UNCHANGED <<main, uart, frees, queue, flags, stopped, tests, board, leaving, process,
                 cardError>>
TakeCommand(w) ==
  /\ "handler" \notin stopped /\ Goes(w, "handle", "command")
  /\ UNCHANGED <<main, uart, frees, queue, flags, stopped, tests, board, leaving, process,
                 cardError>>
UseLocals == \/ UNCHANGED process
             \/ main = "returned" /\ process' = "crashed"
ManualTest(w) ==
  /\ Goes(w, "command", "handle")
  /\ \E to \in {"on", "off"} : SetRed(to)
  /\ UseLocals
  /\ UNCHANGED <<main, uart, frees, queue, flags, stopped, tests, lamp, leaving, cardError>>
ScanForever(w) ==
  /\ Goes(w, "command", "endless")
  /\ UseLocals
  /\ UNCHANGED <<main, uart, frees, queue, flags, stopped, tests, board, leaving, cardError>>
\* A key test, or a microphone test, whose threads wait for ever (AudioSync);
\* one test at a time: a bound.
StartTest(w) ==
  /\ Goes(w, "command", "handle")
  /\ \/ ~TaskPoolGone /\ test = "none" /\ test' \in {"runs", "endless"} /\ UseLocals
     \/ TaskPoolGone /\ UNCHANGED test /\ process' \in {"runs", "crashed"}
  /\ UNCHANGED <<main, uart, frees, queue, flags, stopped, detached, board, leaving,
                 cardError>>
\* A worker of work_thread_task.
EndTest ==
  /\ process = "runs" /\ test = "stopped" /\ test' = "none"
  /\ UNCHANGED <<main, uart, frees, pool, flags, stopped, detached, board, leaving, process,
                 cardError>>

\* rtc_test and bluetooth_test: a detached thread of a few seconds that answers
\* by protocol and UART, there or gone; one such thread at a time: a bound.
StartDetached(w) ==
  /\ Goes(w, "command", "handle")
  /\ detached = "none" /\ detached' = "runs"
  /\ UseLocals
  /\ UNCHANGED <<main, uart, frees, queue, flags, stopped, test, board, leaving, cardError>>
DetachedAnswer ==
  /\ process = "runs" /\ detached = "runs"
  /\ detached' = IF main = "returned" THEN "late" ELSE "none"
  /\ UseLocals
  /\ UNCHANGED <<main, uart, frees, pool, flags, stopped, test, board, leaving, cardError>>
-----------------------------------------------------------------------------
(***************************************************************************)
(* exit() takes the static objects of main.cpp in the reverse order of     *)
(* their construction, each once, whichever thread has called it.          *)
(***************************************************************************)
FactoryFirst == <<"factory", "task pool", "main pool">>
Order == <<"task pool", "main pool", "factory">>

Exits(t) == IF t = "main" THEN main = "returned"
            ELSE \E w \in 1..Workers : worker[w] = "exit"

\* The next destructor, or the end of the process when there is none left.
Destroy(t) ==
  /\ process = "runs" /\ Exits(t) /\ exiting[t] = "no"
  /\ IF Len(destroyed) < Len(Order)
     THEN LET object == Order[Len(destroyed) + 1]
          IN  /\ destroyed' = Append(destroyed, object)
              /\ exiting' = [exiting EXCEPT ![t] = object]
              /\ UNCHANGED process
     ELSE process' = "over" /\ UNCHANGED <<destroyed, exiting>>
  /\ UNCHANGED <<main, uart, frees, pool, flags, stopped, tests, board, joins, cardError>>

Done(t) == exiting' = [exiting EXCEPT ![t] = "no"]

\* ~work_thread_task: its workers are joined when they have no test.
JoinTaskPool(t) ==
  /\ process = "runs" /\ exiting[t] = "task pool" /\ test = "none"
  /\ Done(t)
  /\ UNCHANGED <<main, uart, frees, pool, flags, stopped, tests, board, destroyed, joins,
                 process, cardError>>

\* ~work_thread_main joins its workers in their order; a thread that joins
\* itself throws in a destructor, which ends the process.
JoinMainPool(t) ==
  /\ process = "runs" /\ exiting[t] = "main pool"
  /\ IF joins = Workers
     THEN Done(t) /\ UNCHANGED <<joins, process>>
     ELSE \/ /\ worker[joins + 1] = "ended"
             /\ joins' = joins + 1 /\ UNCHANGED <<exiting, process>>
          \/ /\ t = "audio" /\ worker[joins + 1] = "exit"
             /\ process' = "crashed" /\ UNCHANGED <<joins, exiting>>
  /\ UNCHANGED <<main, uart, frees, pool, flags, stopped, tests, board, destroyed,
                 cardError>>

\* ~BoardFactory: an object freed before is freed again, which ends the process
\* or goes by unnoticed.
DestroyFactory(t) ==
  /\ process = "runs" /\ exiting[t] = "factory"
  /\ Done(t)
  /\ uart' = "null" /\ frees' = frees + 1
  /\ \/ UNCHANGED process
     \/ uart = "dangling" /\ process' = "crashed"
  /\ UNCHANGED <<main, pool, flags, stopped, tests, board, destroyed, joins, cardError>>
-----------------------------------------------------------------------------
Main == OpenUart \/ ConfigureUart \/ MakeBoard \/ SubmitLed \/ SubmitAudio \/ Register
        \/ SubmitHandler \/ LeaveLoops
Loop(w) == Take(w) \/ EndWorker(w) \/ LedEnds(w) \/ Blink(w) \/ FindHeadset(w)
           \/ AudioEnds(w) \/ SelectAudioIn(w) \/ PlayAudio(w) \/ HandlerEnds(w)
           \/ ManualTest(w)
Exit(t) == Destroy(t) \/ JoinTaskPool(t) \/ JoinMainPool(t) \/ DestroyFactory(t)

Next ==
  \/ Main \/ Interrupt \/ EndTest \/ DetachedAnswer
  \/ \E w \in 1..Workers : \/ Loop(w) \/ PlayForever(w) \/ CardError(w) \/ TakeCommand(w)
                          \/ ScanForever(w) \/ StartTest(w) \/ StartDetached(w)
  \/ \E t \in {"main", "audio"} : Exit(t)

\* Every thread goes on; sleeps, the select of 5 s, a tone of 3 s and the two
\* tests in threads of their own end.
Spec == /\ Init /\ [][Next]_vars
        /\ WF_vars(Main) /\ WF_vars(EndTest) /\ WF_vars(DetachedAnswer)
        /\ \A w \in 1..Workers : WF_vars(Loop(w))
        /\ \A t \in {"main", "audio"} : WF_vars(Exit(t))
-----------------------------------------------------------------------------
TypeOK ==
  /\ main \in {"open", "configure", "construct", "led", "audio", "register", "submit"}
              \cup Started
  /\ uart \in {"null", "live", "dangling"} /\ frees \in 0..2
  /\ queue \in Seq(Jobs) /\ flags \in Seq(Flags) /\ stopped \subseteq Flags
  /\ worker \in [1..Workers -> {"idle", "dark", "lit", "find", "listen", "play", "exit",
                                "handle", "command", "endless", "ended"}]
  /\ test \in {"none", "runs", "stopped", "endless"}
  /\ detached \in {"none", "runs", "late"}
  /\ lamp \in BOOLEAN /\ red \in {"unset", "on", "off"}
  /\ destroyed \in Seq({"task pool", "main pool", "factory"})
  /\ exiting \in [{"main", "audio"} -> {"no", "task pool", "main pool", "factory"}]
  /\ joins \in 0..Workers /\ cardError \in BOOLEAN
  /\ process \in {"runs", "killed", "crashed", "over"}

(***************************************************************************)
(* The process ends in order: when the factory frees the UART all tasks of *)
(* the two pools have ended, and it has not been freed before, unless the  *)
(* start failed.  The other ways out are what outlives main(): a command,  *)
(* which ends it before the factory has gone, and a detached rtc or        *)
(* bluetooth test, which no destructor waits for and which may still use   *)
(* UART and protocol when both are gone.  An error of the sound card takes *)
(* all this away: the exit() it calls from a worker cannot end the process *)
(* by itself, and beside that of main() it ends it in any state.           *)
(***************************************************************************)
StartFailed == main = "returned" /\ stopped = {}

ExitIsClean ==
  IF cardError THEN process = "over" => main = "returned"
  ELSE /\ uart = "null" /\ frees > 0 =>
            /\ main = "returned" /\ test = "none"
            /\ \A w \in 1..Workers : worker[w] = "ended"
            /\ frees = 1 \/ StartFailed
       /\ process = "crashed" => main = "returned"
       /\ process = "crashed" /\ "factory" \in {destroyed[i] : i \in DOMAIN destroyed}
            => StartFailed \/ detached = "late"

(***************************************************************************)
(* SIGINT while TestApp serves ends it, whatever lamp, headset and command *)
(* thread are doing, in order, unless something it waits for never ends: a *)
(* tone that cannot be played, a command or a test that goes on for ever,  *)
(* a test started after the flags have been stopped, or the exit() of a    *)
(* sound card that has failed.                                             *)
(***************************************************************************)
Endless == test \in {"runs", "endless"} \/ \E w \in 1..Workers : worker[w] = "endless"
StopEnds ==
  (main = "serve" /\ "sleep" \in stopped) ~> (process # "runs" \/ cardError \/ Endless)

(***************************************************************************)
(* The red lamp blinks for as long as TestApp serves: what manual_test has *)
(* answered about it as done is undone by the task of the lamp.            *)
(***************************************************************************)
RedLampBlinks ==
  /\ (lamp /\ main = "serve" /\ red = "on")
       ~> (red = "off" \/ "led" \in stopped \/ process # "runs")
  /\ (lamp /\ main = "serve" /\ red = "off")
       ~> (red = "on" \/ "led" \in stopped \/ process # "runs")
=============================================================================
