-------------------------- MODULE LifecycleProofs --------------------------
(***************************************************************************)
(* The life of the process, for any number of workers: whatever fails at   *)
(* the start, whenever SIGINT comes and whatever the sound card does, the  *)
(* static objects go in order and the UART is freed once, or twice by the  *)
(* pointer a failed start leaves behind.                                   *)
(***************************************************************************)
EXTENDS Lifecycle, TLAPS

Last == Len(destroyed)

\* exit() takes the objects in their order, each by one of its two callers.
InOrder ==
  /\ Last <= 3 /\ \A i \in 1..Last : destroyed[i] = Order[i]
  /\ \A t \in {"main", "audio"} : exiting[t] # "no" => \E i \in 1..Last : exiting[t] = Order[i]
  /\ exiting["main"] = exiting["audio"] => exiting["main"] = "no"

\* The destructor of the pool goes on when it has joined all workers.
Joined ==
  /\ \A w \in 1..joins : worker[w] = "ended"
  /\ Last = 3 \/ (Last = 2 /\ \A t \in {"main", "audio"} : exiting[t] # "main pool")
       => joins = Workers \/ cardError

\* The destructor of the other pool goes on when the test there has ended, and
\* none has begun since.
Tested ==
  Last >= 2 \/ (Last = 1 /\ exiting["main"] # "task pool") => test = "none" \/ cardError

\* main() has failed before it had a flag to stop, or leaves by a stopped one.
Begun ==
  /\ main \in {"open", "configure", "construct"} => flags = <<>> /\ stopped = {}
  /\ StartFailed => flags = <<>>

\* Every freeing of the UART: by the start that failed, by the factory.
FactoryGone == Last = 3 /\ \A t \in {"main", "audio"} : exiting[t] # "factory"
Freed ==
  /\ frees = (IF StartFailed THEN 1 ELSE 0) + (IF FactoryGone THEN 1 ELSE 0)
  /\ uart = "dangling" => StartFailed
  /\ uart = "null" => (main = "open" /\ ~FactoryGone) \/ FactoryGone

\* Without an error of the sound card only main() leaves the process.
Leaves ==
  /\ ~cardError => exiting["audio"] = "no" /\ \A w \in 1..Workers : worker[w] # "exit"
  /\ main # "returned" =>
       /\ exiting["main"] = "no" /\ process # "over" /\ Last <= 2
       /\ Last > 0 => \E w \in 1..Workers : worker[w] = "exit"
       /\ Last = 2 => exiting["audio"] = "main pool"

\* How it may end when the sound card has not failed.
Crashes ==
  process = "crashed" /\ ~cardError =>
    main = "returned" /\ (Last = 3 => StartFailed \/ detached = "late")

IInv == TypeOK /\ InOrder /\ Joined /\ Tested /\ Begun /\ Freed /\ Leaves /\ Crashes
-----------------------------------------------------------------------------
LEMMA OrderFacts ==
  /\ Len(Order) = 3
  /\ Order[1] = "task pool" /\ Order[2] = "main pool" /\ Order[3] = "factory"
  BY DEF Order

LEMMA AppendFact ==
  ASSUME NEW S, NEW s \in Seq(S), NEW e \in S
  PROVE  /\ Append(s, e) \in Seq(S) /\ Len(Append(s, e)) = Len(s) + 1
         /\ Append(s, e)[Len(s) + 1] = e
         /\ \A i \in 1..Len(s) : Append(s, e)[i] = s[i]
  OBVIOUS

LEMMA AppendIn ==
  ASSUME NEW S, NEW s \in Seq(S), NEW e \in S
  PROVE  Append(s, e) \in Seq(S)
  OBVIOUS

LEMMA SeqFact ==
  ASSUME NEW S, NEW s \in Seq(S)
  PROVE  Len(s) \in Nat /\ DOMAIN s = 1..Len(s)
  OBVIOUS

Objects == {"task pool", "main pool", "factory"}
LEMMA LastFact ==
  ASSUME TypeOK
  PROVE  destroyed \in Seq(Objects) /\ Last \in Nat /\ DOMAIN destroyed = 1..Last
  <1>1. destroyed \in Seq(Objects)
    BY DEF TypeOK, Objects
  <1> QED
    BY <1>1, SeqFact DEF Last

LEMMA JobFacts ==
  /\ {"led", "audio", "handler"} \subseteq Jobs
  /\ {"led", "audio", "handler", "recv", "sleep"} \subseteq Flags
  BY DEF Jobs, Flags

LEMMA InitIInv == Init => IInv
  <1> SUFFICES ASSUME Init PROVE IInv
    OBVIOUS
  <1>1. TypeOK
    <2>1. queue \in Seq(Jobs) /\ flags \in Seq(Flags)
          /\ destroyed \in Seq({"task pool", "main pool", "factory"})
      BY DEF Init
    <2>2. /\ worker \in [1..Workers -> {"idle", "dark", "lit", "find", "listen", "play", "exit",
                                        "handle", "command", "endless", "ended"}]
          /\ exiting \in [{"main", "audio"} -> {"no", "task pool", "main pool", "factory"}]
      BY DEF Init
    <2>3. joins \in 0..Workers /\ frees \in 0..2 /\ stopped \subseteq Flags
      BY WorkersAssumption DEF Init
    <2> QED
      BY <2>1, <2>2, <2>3 DEF Init, TypeOK
  <1>2. Last = 0 /\ ~FactoryGone /\ ~StartFailed
    BY DEF Init, Last, FactoryGone, StartFailed
  <1>3. InOrder /\ Joined /\ Tested /\ Begun
    BY <1>2 DEF Init, InOrder, Joined, Tested, Begun, StartFailed
  <1>4. Freed /\ Leaves /\ Crashes
    BY <1>2 DEF Init, Freed, Leaves, Crashes
  <1> QED
    BY <1>1, <1>3, <1>4 DEF IInv
-----------------------------------------------------------------------------
\* A step of main() before it returns.
LEMMA MainFrame ==
  ASSUME IInv, process = "runs", process' = "runs", main # "returned",
         UNCHANGED <<worker, test, leaving, cardError>>
  PROVE  InOrder' /\ Joined' /\ Tested' /\ Leaves' /\ Crashes'
  <1>1. Last' = Last
    BY DEF Last, leaving
  <1>2. InOrder'
    BY <1>1 DEF IInv, InOrder, leaving
  <1>3. Joined' /\ Tested'
    BY <1>1 DEF IInv, Joined, Tested, leaving
  <1>4. Leaves'
    BY <1>1 DEF IInv, Leaves, leaving
  <1>5. Crashes'
    BY DEF Crashes
  <1> QED
    BY <1>2, <1>3, <1>4, <1>5

\* One that has not failed.
LEMMA MainFreed ==
  ASSUME IInv, main # "open", main # "returned", UNCHANGED <<uart, frees, leaving>>,
         main' = "returned" => stopped' # {}
  PROVE  Freed'
  <1>1. FactoryGone' = FactoryGone
    BY DEF FactoryGone, Last, leaving
  <1>2. ~StartFailed /\ ~StartFailed'
    BY DEF StartFailed
  <1> QED
    BY <1>1, <1>2 DEF IInv, Freed

LEMMA OpeningStep ==
  ASSUME IInv, OpenUart \/ ConfigureUart
  PROVE  IInv'
  <1>1. process = "runs" /\ process' = "runs" /\ main \in {"open", "configure"}
    BY DEF OpenUart, ConfigureUart, MainGoes
  <1>2. UNCHANGED <<worker, tests, leaving, cardError, flags, stopped>>
    BY DEF OpenUart, ConfigureUart, pool
  <1>3. FactoryGone' = FactoryGone
    BY <1>2 DEF FactoryGone, Last, leaving
  <1>4. ~StartFailed /\ flags = <<>> /\ stopped = {} /\ ~FactoryGone
    <2>1. ~StartFailed /\ flags = <<>> /\ stopped = {}
      BY <1>1 DEF StartFailed, IInv, Begun
    <2>2. Last <= 2
      BY <1>1 DEF IInv, Leaves
    <2> QED
      BY <2>1, <2>2 DEF FactoryGone
  <1>5. \/ main' \in {"configure", "construct"} /\ UNCHANGED frees
        \/ main' = "returned" /\ uart' = "dangling" /\ frees' = frees + 1
    BY DEF OpenUart, ConfigureUart, MainGoes
  <1>6. main' # "returned" => uart' = "live" \/ (main = "configure" /\ uart' = uart)
    BY DEF OpenUart, ConfigureUart, MainGoes
  <1>7. frees = 0
    BY <1>4 DEF IInv, Freed
  <1>8. TypeOK'
    <2>1. UNCHANGED <<queue, lamp, red>>
      BY DEF OpenUart, ConfigureUart, pool, board
    <2>2. uart' \in {"null", "live", "dangling"} /\ frees' \in 0..2
      <3>1. uart' \in {uart, "live", "dangling"}
        BY DEF OpenUart, ConfigureUart
      <3>2. frees' \in {0, 1}
        BY <1>5, <1>7
      <3>3. uart \in {"null", "live", "dangling"}
        BY DEF IInv, TypeOK
      <3> QED
        BY <3>1, <3>2, <3>3
    <2>3. main' \in {"configure", "construct"} \cup Started
      BY <1>5 DEF Started
    <2> QED
      BY <1>1, <1>2, <2>1, <2>2, <2>3 DEF IInv, TypeOK, tests, leaving
  <1>9. Begun'
    BY <1>2, <1>4 DEF Begun
  <1>10. Freed'
    <2>1. CASE main' = "returned"
      <3>1. StartFailed' /\ uart' = "dangling" /\ frees' = 1
        BY <1>2, <1>4, <1>5, <1>7, <2>1 DEF StartFailed
      <3> QED
        BY <1>3, <1>4, <3>1 DEF Freed
    <2>2. CASE main' # "returned"
      <3>1. ~StartFailed' /\ frees' = 0 /\ uart' # "dangling" /\ uart' # "null"
        BY <1>4, <1>5, <1>6, <1>7, <2>2 DEF StartFailed, IInv, Freed
      <3> QED
        BY <1>3, <1>4, <3>1 DEF Freed
    <2> QED
      BY <2>1, <2>2
  <1> QED
    BY <1>1, <1>2, <1>8, <1>9, <1>10, MainFrame DEF IInv, tests

LEMMA ServingStep ==
  ASSUME IInv,
         MakeBoard \/ SubmitLed \/ SubmitAudio \/ Register \/ SubmitHandler \/ LeaveLoops
  PROVE  IInv'
  <1>1. /\ process = "runs" /\ process' = "runs" /\ main \notin {"open", "returned"}
        /\ main' \notin {"open", "configure", "construct"}
    BY DEF MakeBoard, SubmitLed, SubmitAudio, Submit, Register, SubmitHandler, LeaveLoops, MainGoes
  <1>2. UNCHANGED <<worker, tests, leaving, cardError, uart, frees, stopped>>
    BY DEF MakeBoard, SubmitLed, SubmitAudio, Submit, Register, SubmitHandler, LeaveLoops, pool
  <1>3. main' = "returned" => stopped' # {}
    BY DEF MakeBoard, SubmitLed, SubmitAudio, Submit, Register, SubmitHandler, LeaveLoops, MainGoes
  <1>4. TypeOK'
    <2>1. queue \in Seq(Jobs) /\ flags \in Seq(Flags)
      BY DEF IInv, TypeOK
    <2>2. queue' \in Seq(Jobs)
      <3>1. queue' \in {queue, Append(queue, "led"), Append(queue, "audio"),
                        Append(queue, "handler")}
        BY DEF MakeBoard, SubmitLed, SubmitAudio, Submit, Register, SubmitHandler, LeaveLoops,
               pool
      <3> QED
        BY <2>1, <3>1, AppendIn, JobFacts
    <2>3. flags' \in Seq(Flags)
      <3>1. flags' \in {flags, Append(flags, "led"), Append(flags, "audio"),
                        Append(flags, "recv"), flags \o <<"handler", "sleep">>}
        BY DEF MakeBoard, SubmitLed, SubmitAudio, Submit, Register, SubmitHandler, LeaveLoops
      <3>2. flags \o <<"handler", "sleep">> \in Seq(Flags)
        <4>1. <<"handler", "sleep">> \in Seq(Flags)
          BY JobFacts
        <4> QED
          BY <2>1, <4>1
      <3> QED
        BY <2>1, <3>1, <3>2, AppendIn, JobFacts
    <2>4. main' \in {"led", "audio", "register", "submit"} \cup Started
      BY DEF MakeBoard, SubmitLed, SubmitAudio, Submit, Register, SubmitHandler, LeaveLoops,
             MainGoes, Started
    <2>5. lamp' \in BOOLEAN /\ red' \in {"unset", "on", "off"}
      BY DEF MakeBoard, SubmitLed, SubmitAudio, Submit, Register, SubmitHandler, LeaveLoops,
             board, IInv, TypeOK
    <2> QED
      BY <1>1, <1>2, <2>2, <2>3, <2>4, <2>5 DEF IInv, TypeOK, tests, leaving
  <1>5. Begun'
    BY <1>1, <1>3 DEF Begun, StartFailed
  <1>6. Freed'
    BY <1>1, <1>2, <1>3, MainFreed
  <1> QED
    BY <1>1, <1>2, <1>4, <1>5, <1>6, MainFrame DEF IInv, tests

\* SIGINT stops the flags that are there: none, if the start has failed.
LEMMA InterruptStep ==
  ASSUME IInv, Interrupt
  PROVE  IInv'
  <1>1. /\ process = "runs" /\ process' \in {"runs", "killed"}
        /\ UNCHANGED <<main, uart, frees, queue, worker, detached, lamp, red, leaving, cardError>>
    BY DEF Interrupt, pool, board
  <1>2. \/ flags' = <<>> /\ stopped' = stopped \cup {flags[i] : i \in DOMAIN flags}
        \/ /\ main \in {"open", "configure", "construct", "led", "audio", "register"}
           /\ UNCHANGED <<flags, stopped>>
    BY DEF Interrupt
  <1>3. TypeOK'
    <2>1. flags \in Seq(Flags) /\ stopped \subseteq Flags /\ test \in {"none", "runs", "stopped", "endless"}
      BY DEF IInv, TypeOK
    <2>2. {flags[i] : i \in DOMAIN flags} \subseteq Flags
      BY <2>1
    <2>3. flags' \in Seq(Flags)
      <3>1. <<>> \in Seq(Flags)
        OBVIOUS
      <3> QED
        BY <1>2, <2>1, <3>1
    <2>4. stopped' \subseteq Flags
      BY <1>2, <2>1, <2>2
    <2>5. test' \in {"none", "runs", "stopped", "endless"}
      BY <2>1 DEF Interrupt
    <2> QED
      BY <1>1, <2>3, <2>4, <2>5 DEF IInv, TypeOK, leaving
  <1>4. StartFailed' = StartFailed
    <2>1. CASE main = "returned" /\ stopped = {}
      <3>1. flags = <<>>
        BY <2>1 DEF IInv, Begun, StartFailed
      <3>2. stopped' = {}
        BY <1>2, <2>1, <3>1
      <3> QED
        BY <1>1, <2>1, <3>2 DEF StartFailed
    <2>2. CASE main # "returned"
      BY <1>1, <2>2 DEF StartFailed
    <2>3. CASE stopped # {}
      <3>1. stopped' # {}
        BY <1>2, <2>3
      <3> QED
        BY <2>3, <3>1 DEF StartFailed
    <2> QED
      BY <2>1, <2>2, <2>3
  <1>5. main \in {"open", "configure", "construct"} => flags' = <<>> /\ stopped' = {}
    BY <1>2 DEF IInv, Begun
  <1>6. Begun'
    BY <1>1, <1>2, <1>4, <1>5 DEF IInv, Begun, StartFailed
  <1>7. Last' = Last /\ FactoryGone' = FactoryGone
    BY <1>1 DEF Last, FactoryGone, leaving
  <1>8. InOrder' /\ Joined' /\ Tested'
    <2>1. test = "none" => test' = "none"
      BY DEF Interrupt
    <2> QED
      BY <1>1, <1>7, <2>1 DEF IInv, InOrder, Joined, Tested, leaving
  <1>9. Freed' /\ Leaves' /\ Crashes'
    BY <1>1, <1>4, <1>7 DEF IInv, Freed, Leaves, Crashes, leaving
  <1> QED
    BY <1>3, <1>6, <1>8, <1>9 DEF IInv
-----------------------------------------------------------------------------
\* With all workers joined, none of them takes a step.
LEMMA NoneLeft ==
  ASSUME IInv, ~cardError, Last = 3, NEW w \in 1..Workers
  PROVE  worker[w] = "ended"
  BY DEF IInv, Joined

\* The pool of the tests is the first object to be taken.
LEMMA TaskPoolFirst ==
  ASSUME IInv, Last >= 1
  PROVE  TaskPoolGone
  <1>1. Last \in Nat /\ DOMAIN destroyed = 1..Last
    BY LastFact DEF IInv
  <1>2. 1 \in 1..Last
    BY <1>1
  <1>3. destroyed[1] = "task pool"
    BY <1>2, OrderFacts DEF IInv, InOrder
  <1> QED
    BY <1>1, <1>2, <1>3 DEF TaskPoolGone

\* An object has been taken only after main() returned or the card failed.
LEMMA GoneOrFailed ==
  ASSUME IInv, TaskPoolGone
  PROVE  main = "returned" \/ cardError
  <1>1. Last > 0
    <2>1. Last \in Nat /\ DOMAIN destroyed = 1..Last
      BY LastFact DEF IInv
    <2>2. ASSUME Last = 0 PROVE FALSE
      <3>1. DOMAIN destroyed = {}
        BY <2>1, <2>2
      <3> QED
        BY <3>1 DEF TaskPoolGone
    <2> QED
      BY <2>1, <2>2
  <1> QED
    BY <1>1 DEF IInv, Leaves

States == {"idle", "dark", "lit", "find", "listen", "play", "exit", "handle", "command",
           "endless", "ended"}

LEMMA WorkerFrame ==
  ASSUME IInv, NEW w \in 1..Workers, NEW from, NEW to \in States, Goes(w, from, to),
         from \notin {"exit", "ended"},
         to = "exit" => cardError', cardError => cardError',
         UNCHANGED <<main, uart, frees, flags, stopped, leaving>>,
         test' = test \/ ~TaskPoolGone,
         process' \in {"runs", "crashed"},
         process' = "crashed" => main = "returned" \/ cardError
  PROVE  /\ InOrder' /\ Joined' /\ Tested' /\ Begun' /\ Freed' /\ Leaves' /\ Crashes'
         /\ worker' \in [1..Workers -> States]
  <1>1. Last' = Last /\ FactoryGone' = FactoryGone /\ StartFailed' = StartFailed
    BY DEF Last, FactoryGone, StartFailed, leaving
  <1>2. worker \in [1..Workers -> States] /\ worker[w] = from /\ process = "runs"
    BY DEF IInv, TypeOK, States, Goes
  <1>3. /\ worker' \in [1..Workers -> States]
        /\ worker'[w] = to /\ \A v \in 1..Workers \ {w} : worker'[v] = worker[v]
    BY <1>2 DEF Goes
  <1>4. joins \in 0..Workers
    BY DEF IInv, TypeOK
  <1>5. InOrder' /\ Begun' /\ Freed'
    BY <1>1 DEF IInv, InOrder, Begun, Freed, leaving
  <1>6. Joined'
    <2>1. \A v \in 1..joins : v \in 1..Workers
      BY <1>4, WorkersAssumption
    <2>2. \A v \in 1..joins : worker'[v] = "ended"
      BY <1>2, <1>3, <2>1 DEF IInv, Joined
    <2> QED
      BY <1>1, <2>2 DEF IInv, Joined, leaving
  <1>a. Tested'
    <2>1. Last >= 1 => test' = test
      BY TaskPoolFirst
    <2>2. Last \in Nat
      BY LastFact DEF IInv
    <2>3. Last >= 2 \/ Last = 1 => Last >= 1
      BY <2>2
    <2> QED
      BY <1>1, <2>1, <2>3 DEF IInv, Tested, leaving
  <1>7. Leaves'
    <2>1. ~cardError' => exiting'["audio"] = "no" /\ \A v \in 1..Workers : worker'[v] # "exit"
      BY <1>3 DEF IInv, Leaves, leaving
    <2>2. (\E v \in 1..Workers : worker[v] = "exit") => \E v \in 1..Workers : worker'[v] = "exit"
      BY <1>2, <1>3
    <2>3. process' # "over"
      OBVIOUS
    <2> QED
      BY <1>1, <2>1, <2>2, <2>3 DEF IInv, Leaves, leaving
  <1>8. Crashes'
    <2>1. Last = 3 => cardError
      BY <1>2, NoneLeft
    <2> QED
      BY <1>1, <2>1 DEF Crashes
  <1> QED
    BY <1>3, <1>5, <1>6, <1>a, <1>7, <1>8

\* The jobs of the lamp and the headset, and a worker that takes one or ends.
JobStep(w) == Take(w) \/ EndWorker(w) \/ LedEnds(w) \/ Blink(w) \/ FindHeadset(w)
              \/ AudioEnds(w) \/ SelectAudioIn(w) \/ PlayAudio(w) \/ PlayForever(w) \/ HandlerEnds(w)

LEMMA JobStepInv ==
  ASSUME IInv, NEW w \in 1..Workers, JobStep(w)
  PROVE  IInv'
  <1>1. /\ process = "runs" /\ process' = "runs"
        /\ UNCHANGED <<main, uart, frees, flags, stopped, tests, lamp, leaving, cardError>>
    BY DEF JobStep, Take, EndWorker, LedEnds, Blink, FindHeadset, AudioEnds, SelectAudioIn, PlayAudio,
           PlayForever, HandlerEnds, Goes, Finish, board
  <1>2. \E from, to \in States : Goes(w, from, to) /\ from \notin {"exit", "ended"} /\ to # "exit"
    <2>1. CASE Take(w)
      <3>1. Head(queue) \in Jobs
        <4>1. queue \in Seq(Jobs) /\ queue # <<>>
          BY <2>1 DEF Take, IInv, TypeOK
        <4> QED
          BY <4>1
      <3>2. First[Head(queue)] \in {"dark", "find", "handle"}
        BY <3>1 DEF First
      <3> QED
        BY <2>1, <3>2 DEF Take, States
    <2>2. CASE EndWorker(w) \/ LedEnds(w) \/ Blink(w) \/ FindHeadset(w) \/ AudioEnds(w)
               \/ SelectAudioIn(w) \/ PlayAudio(w) \/ PlayForever(w) \/ HandlerEnds(w)
      BY <2>2 DEF EndWorker, LedEnds, Blink, FindHeadset, AudioEnds, SelectAudioIn, PlayAudio,
                  PlayForever, HandlerEnds, Finish, States
    <2> QED
      BY <2>1, <2>2 DEF JobStep
  <1>3. PICK from \in States, to \in States :
          Goes(w, from, to) /\ from \notin {"exit", "ended"} /\ to # "exit"
    BY <1>2
  <1>4. /\ InOrder' /\ Joined' /\ Tested' /\ Begun' /\ Freed' /\ Leaves' /\ Crashes'
        /\ worker' \in [1..Workers -> States]
    BY <1>1, <1>3, WorkerFrame DEF tests
  <1>5. queue' \in Seq(Jobs)
    <2>1. queue \in Seq(Jobs)
      BY DEF IInv, TypeOK
    <2>2. queue' = queue \/ (queue # <<>> /\ queue' = Tail(queue))
      BY DEF JobStep, Take, EndWorker, LedEnds, Blink, FindHeadset, AudioEnds, SelectAudioIn, PlayAudio,
             PlayForever, HandlerEnds
    <2> QED
      BY <2>1, <2>2
  <1>6. red' \in {"unset", "on", "off"}
    <2>1. red' \in {red, "on", "off"}
      BY DEF JobStep, Take, EndWorker, LedEnds, Blink, FindHeadset, AudioEnds, SelectAudioIn, PlayAudio,
             PlayForever, HandlerEnds, board, SetRed
    <2> QED
      BY <2>1 DEF IInv, TypeOK
  <1>7. TypeOK'
    BY <1>1, <1>4, <1>5, <1>6 DEF IInv, TypeOK, States, tests, leaving
  <1> QED
    BY <1>4, <1>7 DEF IInv

LEMMA CardErrorStep ==
  ASSUME IInv, NEW w \in 1..Workers, CardError(w)
  PROVE  IInv'
  <1>1. /\ Goes(w, "play", "exit") /\ cardError' = TRUE /\ process = "runs" /\ process' = "runs"
        /\ UNCHANGED <<main, uart, frees, queue, flags, stopped, tests, lamp, red, leaving>>
    BY DEF CardError, Goes, board
  <1>2. /\ InOrder' /\ Joined' /\ Tested' /\ Begun' /\ Freed' /\ Leaves' /\ Crashes'
        /\ worker' \in [1..Workers -> States]
    BY <1>1, WorkerFrame DEF States, tests
  <1>3. TypeOK'
    BY <1>1, <1>2 DEF IInv, TypeOK, States, tests, leaving
  <1> QED
    BY <1>2, <1>3 DEF IInv

\* The command thread, and the thread of a test it has detached.
CommandStep(w) ==
  TakeCommand(w) \/ ManualTest(w) \/ ScanForever(w) \/ StartTest(w) \/ StartDetached(w)

LEMMA CommandStepInv ==
  ASSUME IInv, NEW w \in 1..Workers, CommandStep(w)
  PROVE  IInv'
  <1> USE DEF CommandStep, TakeCommand, ManualTest, ScanForever, StartTest, StartDetached
  <1>1. /\ process = "runs"
        /\ UNCHANGED <<main, uart, frees, queue, flags, stopped, lamp, leaving, cardError>>
    BY DEF Goes, board
  <1>2. \/ Goes(w, "handle", "command") \/ Goes(w, "command", "handle")
        \/ Goes(w, "command", "endless")
    OBVIOUS
  <1>3. process' \in {"runs", "crashed"}
    BY <1>1 DEF UseLocals
  <1>4. process' = "crashed" => main = "returned" \/ cardError
    BY <1>1, GoneOrFailed DEF UseLocals
  <1>5. test' = test \/ ~TaskPoolGone
    BY DEF tests
  <1>6. /\ InOrder' /\ Joined' /\ Tested' /\ Begun' /\ Freed' /\ Leaves' /\ Crashes'
        /\ worker' \in [1..Workers -> States]
    BY <1>1, <1>2, <1>3, <1>4, <1>5, WorkerFrame DEF States
  <1>7. /\ red' \in {"unset", "on", "off"} /\ test' \in {"none", "runs", "stopped", "endless"}
        /\ detached' \in {"none", "runs", "late"}
    <2>1. /\ red' \in {red, "on", "off"} /\ test' \in {test, "runs", "endless"}
          /\ detached' \in {detached, "runs"}
      BY DEF SetRed, board, tests
    <2> QED
      BY <2>1 DEF IInv, TypeOK
  <1>8. TypeOK'
    BY <1>1, <1>3, <1>6, <1>7 DEF IInv, TypeOK, States, leaving
  <1> QED
    BY <1>6, <1>8 DEF IInv

\* The type when exit() changes nothing.
LEMMA StepTypes ==
  ASSUME TypeOK,
         UNCHANGED <<main, uart, frees, queue, worker, flags, stopped, lamp, red,
                     destroyed, exiting, joins, cardError>>,
         test' \in {"none", "runs", "stopped", "endless"}, detached' \in {"none", "runs", "late"},
         process' \in {"runs", "killed", "crashed", "over"}
  PROVE  TypeOK'
  <1>1. /\ main' \in {"open", "configure", "construct", "led", "audio", "register", "submit"}
                    \cup Started
        /\ uart' \in {"null", "live", "dangling"} /\ frees' \in 0..2
    BY DEF TypeOK
  <1>2. queue' \in Seq(Jobs) /\ flags' \in Seq(Flags) /\ stopped' \subseteq Flags
    BY DEF TypeOK
  <1>3. worker' \in [1..Workers -> {"idle", "dark", "lit", "find", "listen", "play", "exit",
                                    "handle", "command", "endless", "ended"}]
    BY DEF TypeOK
  <1>4. /\ lamp' \in BOOLEAN /\ red' \in {"unset", "on", "off"}
        /\ joins' \in 0..Workers /\ cardError' \in BOOLEAN
    BY DEF TypeOK
  <1>5. /\ destroyed' \in Seq({"task pool", "main pool", "factory"})
        /\ exiting' \in [{"main", "audio"} -> {"no", "task pool", "main pool", "factory"}]
    BY DEF TypeOK
  <1> QED
    BY <1>1, <1>2, <1>3, <1>4, <1>5 DEF TypeOK

LEMMA DetachedAnswerInv ==
  ASSUME IInv, DetachedAnswer
  PROVE  IInv'
  <1>1. /\ UNCHANGED <<main, uart, frees, queue, worker, flags, stopped, test, lamp, red,
                       destroyed, exiting, joins, cardError>>
        /\ process = "runs" /\ process' \in {"runs", "crashed"}
        /\ process' = "crashed" => main = "returned" /\ detached' = "late"
        /\ detached' \in {"none", "late"}
    BY DEF DetachedAnswer, UseLocals, pool, board, leaving
  <1>2. Last' = Last /\ FactoryGone' = FactoryGone /\ StartFailed' = StartFailed
    BY <1>1 DEF Last, FactoryGone, StartFailed
  <1>3. TypeOK'
    <2>1. test' \in {"none", "runs", "stopped", "endless"}
      BY <1>1 DEF IInv, TypeOK
    <2> QED
      BY <1>1, <2>1, StepTypes DEF IInv
  <1>4. InOrder' /\ Joined' /\ Tested' /\ Begun' /\ Freed' /\ Leaves'
    <2>1. InOrder' /\ Begun'
      BY <1>1, <1>2 DEF IInv, InOrder, Begun
    <2>2. Joined' /\ Tested'
      BY <1>1, <1>2 DEF IInv, Joined, Tested
    <2>3. Freed'
      BY <1>1, <1>2 DEF IInv, Freed
    <2>4. Leaves'
      BY <1>1, <1>2 DEF IInv, Leaves
    <2> QED
      BY <2>1, <2>2, <2>3, <2>4
  <1>5. Crashes'
    BY <1>1 DEF Crashes
  <1> QED
    BY <1>3, <1>4, <1>5 DEF IInv
-----------------------------------------------------------------------------
Callers == {"main", "audio"}

\* What exit() does to the two that may call it.
LEMMA ExitingFacts ==
  ASSUME IInv, NEW t \in Callers
  PROVE  /\ exiting \in [Callers -> {"no"} \cup Objects]
         /\ exiting[t] = "task pool" => Last >= 1
         /\ exiting[t] = "main pool" => Last >= 2
         /\ exiting[t] = "factory" => Last = 3
         /\ \A u \in Callers : u # t /\ exiting[u] = exiting[t] => exiting[t] = "no"
         /\ t = "audio" /\ exiting[t] # "no" => cardError
  <1>1. exiting \in [Callers -> {"no"} \cup Objects]
    BY DEF IInv, TypeOK, Callers, Objects
  <1>2. Last \in Nat /\ Last <= 3
    BY LastFact DEF IInv, InOrder
  <1>3. exiting[t] # "no" => \E i \in 1..Last : exiting[t] = Order[i]
    BY DEF IInv, InOrder, Callers
  <1>4. \A i \in 1..Last : i \in {1, 2, 3} /\ i <= Last
    BY <1>2
  <1>5. /\ exiting[t] = "task pool" => Last >= 1
        /\ exiting[t] = "main pool" => Last >= 2
        /\ exiting[t] = "factory" => Last = 3
    <2>1. CASE exiting[t] = "no"
      BY <2>1
    <2>2. ASSUME NEW i \in 1..Last, exiting[t] = Order[i]
          PROVE  /\ exiting[t] = "task pool" => Last >= 1
                 /\ exiting[t] = "main pool" => Last >= 2
                 /\ exiting[t] = "factory" => Last = 3
      <3>1. i \in {1, 2, 3} /\ i <= Last
        BY <1>4
      <3>2. CASE i = 1
        BY <1>2, <2>2, <3>1, <3>2, OrderFacts
      <3>3. CASE i = 2
        BY <1>2, <2>2, <3>1, <3>3, OrderFacts
      <3>4. CASE i = 3
        <4>1. Last = 3
          BY <1>2, <3>1, <3>4
        <4>2. exiting[t] = "factory"
          BY <2>2, <3>4, OrderFacts
        <4> QED
          BY <4>1, <4>2
      <3> QED
        BY <3>1, <3>2, <3>3, <3>4
    <2> QED
      BY <1>3, <2>1, <2>2
  <1>6. \A u \in Callers : u # t /\ exiting[u] = exiting[t] => exiting[t] = "no"
    BY DEF IInv, InOrder, Callers
  <1>7. t = "audio" /\ exiting[t] # "no" => cardError
    BY DEF IInv, Leaves
  <1> QED
    BY <1>1, <1>5, <1>6, <1>7

\* A caller of exit(), which is the main thread unless the card has failed.
LEMMA CallerFacts ==
  ASSUME IInv, NEW t \in Callers, Exits(t)
  PROVE  /\ t = "main" => main = "returned"
         /\ t = "audio" => cardError /\ \E w \in 1..Workers : worker[w] = "exit"
  BY DEF Exits, IInv, Leaves

\* The type of what exit() changes, and of what it leaves alone.
LEMMA ExitTypes ==
  ASSUME TypeOK,
         UNCHANGED <<main, queue, worker, flags, stopped, test, detached, lamp, red, cardError>>,
         uart' \in {uart, "null"}, frees' \in 0..2, destroyed' \in Seq(Objects),
         exiting' \in [Callers -> {"no"} \cup Objects], joins' \in 0..Workers,
         process' \in {"runs", "crashed", "over"}
  PROVE  TypeOK'
  <1>1. /\ destroyed' \in Seq({"task pool", "main pool", "factory"})
        /\ exiting' \in [{"main", "audio"} -> {"no", "task pool", "main pool", "factory"}]
    BY DEF Objects, Callers
  <1>2. uart' \in {"null", "live", "dangling"}
    BY DEF TypeOK
  <1>3. /\ worker' \in [1..Workers -> {"idle", "dark", "lit", "find", "listen", "play", "exit",
                                       "handle", "command", "endless", "ended"}]
        /\ queue' \in Seq(Jobs) /\ flags' \in Seq(Flags) /\ stopped' \subseteq Flags
    BY DEF TypeOK
  <1>4. /\ main' \in {"open", "configure", "construct", "led", "audio", "register", "submit"}
                    \cup Started
        /\ test' \in {"none", "runs", "stopped", "endless"}
        /\ detached' \in {"none", "runs", "late"}
        /\ lamp' \in BOOLEAN /\ red' \in {"unset", "on", "off"} /\ cardError' \in BOOLEAN
    BY DEF TypeOK, Started
  <1>5. process' \in {"runs", "killed", "crashed", "over"}
    OBVIOUS
  <1> QED
    BY <1>1, <1>2, <1>3, <1>4, <1>5 DEF TypeOK, Started

LEMMA DestroyStep ==
  ASSUME IInv, NEW t \in Callers, Destroy(t)
  PROVE  IInv'
  <1>1. /\ process = "runs" /\ Exits(t) /\ exiting[t] = "no"
        /\ UNCHANGED <<main, uart, frees, queue, worker, flags, stopped, test, detached, lamp, red, joins,
                       cardError>>
    BY DEF Destroy, tests, pool, board
  <1>2. Last \in Nat /\ Last <= 3 /\ destroyed \in Seq(Objects)
    BY LastFact DEF IInv, InOrder
  <1>3. StartFailed' = StartFailed
    BY <1>1 DEF StartFailed
  <1>4. CASE Last < 3
    <2>1. /\ destroyed' = Append(destroyed, Order[Last + 1])
          /\ exiting' = [exiting EXCEPT ![t] = Order[Last + 1]] /\ process' = "runs"
      BY <1>1, <1>4, OrderFacts DEF Destroy, Last
    <2>2. Order[Last + 1] \in Objects /\ Last + 1 \in {1, 2, 3}
      <3>1. Last + 1 \in {1, 2, 3}
        BY <1>2, <1>4
      <3> QED
        BY <3>1, OrderFacts DEF Objects
    <2>3. /\ destroyed' \in Seq(Objects) /\ Last' = Last + 1
          /\ destroyed'[Last + 1] = Order[Last + 1]
          /\ \A i \in 1..Last : destroyed'[i] = destroyed[i]
      BY <1>2, <2>1, <2>2, AppendFact DEF Last
    <2>4. /\ exiting' \in [Callers -> {"no"} \cup Objects] /\ exiting'[t] = Order[Last + 1]
          /\ \A u \in Callers \ {t} : exiting'[u] = exiting[u]
      BY <2>1, <2>2, ExitingFacts
    <2>5. TypeOK'
      <3>1. joins \in 0..Workers /\ frees \in 0..2
        BY DEF IInv, TypeOK
      <3> QED
        BY <1>1, <2>1, <2>3, <2>4, <3>1, ExitTypes DEF IInv
    <2>6. InOrder'
      <3>1. Last' <= 3 /\ \A i \in 1..Last' : destroyed'[i] = Order[i]
        BY <1>2, <1>4, <2>3 DEF IInv, InOrder
      <3>2. ASSUME NEW u \in Callers, exiting'[u] # "no"
            PROVE  \E i \in 1..Last' : exiting'[u] = Order[i]
        <4>1. CASE u = t
          BY <1>2, <2>3, <2>4, <4>1
        <4>2. CASE u # t
          <5>1. \E i \in 1..Last : exiting[u] = Order[i]
            BY <2>4, <3>2, <4>2 DEF IInv, InOrder, Callers
          <5> QED
            BY <1>2, <2>3, <2>4, <4>2, <5>1
        <4> QED
          BY <4>1, <4>2
      <3>3. \A u \in Callers \ {t} : exiting'[u] # exiting'[t]
        <4> SUFFICES ASSUME NEW u \in Callers \ {t} PROVE exiting[u] # Order[Last + 1]
          BY <2>4
        <4>1. exiting[u] # "no" => \E i \in 1..Last : exiting[u] = Order[i]
          BY DEF IInv, InOrder, Callers
        <4>2. \A i \in 1..Last : Order[i] # Order[Last + 1]
          <5>1. \A i \in 1..Last : i \in {1, 2, 3} /\ i # Last + 1
            BY <1>2
          <5> QED
            BY <2>2, <5>1, OrderFacts
        <4>3. Order[Last + 1] # "no"
          BY <2>2 DEF Objects
        <4> QED
          BY <4>1, <4>2, <4>3
      <3>4. exiting'["main"] # exiting'["audio"]
        BY <3>3 DEF Callers
      <3> QED
        BY <3>1, <3>2, <3>4 DEF InOrder, Callers
    <2>7. Joined'
      <3>1. \A w \in 1..joins' : worker'[w] = "ended"
        BY <1>1 DEF IInv, Joined
      <3>2. Last' = 2 => exiting'[t] = "main pool"
        BY <1>2, <2>3, <2>4, OrderFacts
      <3>3. Last' = 3 => joins = Workers \/ cardError
        <4>1. CASE cardError
          BY <4>1
        <4>2. CASE ~cardError /\ Last = 2
          <5>1. t = "main" /\ exiting["audio"] = "no"
            BY <1>1, <4>2, CallerFacts DEF Callers, IInv, Leaves
          <5> QED
            BY <1>1, <4>2, <5>1 DEF IInv, Joined
        <4> QED
          BY <1>2, <2>3, <4>1, <4>2
      <3> QED
        BY <1>1, <3>1, <3>2, <3>3 DEF Joined, Callers
    <2>8. ~FactoryGone /\ ~FactoryGone'
      <3>1. Last' = 3 => exiting'[t] = "factory"
        BY <1>2, <2>3, <2>4, OrderFacts
      <3> QED
        BY <1>4, <3>1 DEF FactoryGone, Callers
    <2>9. Begun' /\ Freed'
      BY <1>1, <1>3, <2>8 DEF IInv, Begun, Freed
    <2>10. Leaves'
      <3>1. ~cardError => exiting'["audio"] = "no"
        BY <1>1, <2>4, CallerFacts DEF IInv, Leaves, Callers
      <3>2. ASSUME main # "returned"
            PROVE  /\ exiting'["main"] = "no" /\ Last' <= 2
                   /\ \E w \in 1..Workers : worker[w] = "exit"
                   /\ Last' = 2 => exiting'["audio"] = "main pool"
        <4>1. t = "audio" /\ \E w \in 1..Workers : worker[w] = "exit"
          BY <1>1, <3>2, CallerFacts DEF Callers
        <4>2. Last # 2 /\ Last <= 2 /\ exiting["main"] = "no"
          BY <1>1, <3>2, <4>1 DEF IInv, Leaves
        <4>3. Last' <= 2 /\ (Last' = 2 => exiting'[t] = "main pool")
          <5>1. Last' <= 2 /\ (Last' = 2 => Last + 1 = 2)
            BY <1>2, <2>3, <4>2
          <5> QED
            BY <2>4, <5>1, OrderFacts
        <4> QED
          BY <2>4, <4>1, <4>2, <4>3 DEF Callers
      <3> QED
        BY <1>1, <2>1, <3>1, <3>2 DEF IInv, Leaves
    <2>11. Crashes'
      BY <2>1 DEF Crashes
    <2>12. Tested'
      <3>1. CASE cardError
        BY <1>1, <3>1 DEF Tested
      <3>2. CASE ~cardError
        <4>1. t = "main"
          BY <1>1, <3>2, CallerFacts DEF Callers
        <4>2. CASE Last = 0
          <5>1. Last' = 1 /\ exiting'["main"] = "task pool"
            <6>1. Last' = 1 /\ exiting'[t] = Order[1]
              BY <2>3, <2>4, <4>2
            <6> QED
              BY <4>1, <6>1, OrderFacts
          <5>2. ~(Last' >= 2)
            <6>1. Last + 1 = 1 /\ Last' = Last + 1
              BY <2>3, <4>2
            <6> QED
              BY <6>1
          <5> QED
            BY <5>1, <5>2 DEF Tested
        <4>3. CASE Last = 1 \/ Last >= 2
          <5>1. exiting["main"] = "no"
            BY <1>1, <4>1
          <5>2. test = "none"
            BY <3>2, <4>3, <5>1 DEF IInv, Tested
          <5> QED
            BY <1>1, <5>2 DEF Tested
        <4> QED
          BY <1>2, <4>2, <4>3
      <3> QED
        BY <3>1, <3>2
    <2> QED
      BY <2>5, <2>6, <2>7, <2>9, <2>10, <2>11, <2>12 DEF IInv
  <1>5. CASE Last = 3
    <2>1. process' = "over" /\ UNCHANGED leaving
      <3>1. Len(destroyed) = 3
        BY <1>5 DEF Last
      <3>2. ~(Len(destroyed) < Len(Order))
        <4>1. Len(Order) = 3
          BY OrderFacts
        <4> QED
          BY <3>1, <4>1
      <3> QED
        BY <1>1, <3>2 DEF Destroy, leaving
    <2>2. main = "returned"
      BY <1>5 DEF IInv, Leaves
    <2>3. Last' = Last /\ FactoryGone' = FactoryGone
      BY <2>1 DEF Last, FactoryGone, leaving
    <2>4. TypeOK'
      <3>1. joins \in 0..Workers /\ frees \in 0..2
        BY DEF IInv, TypeOK
      <3> QED
        BY <1>1, <1>2, <2>1, <3>1, ExitingFacts, ExitTypes DEF IInv, leaving
    <2>5. InOrder' /\ Joined' /\ Tested' /\ Begun' /\ Freed'
      BY <1>1, <1>3, <2>1, <2>3 DEF IInv, InOrder, Joined, Tested, Begun, Freed, leaving
    <2>6. Leaves' /\ Crashes'
      BY <1>1, <2>1, <2>2 DEF IInv, Leaves, Crashes, leaving
    <2> QED
      BY <2>4, <2>5, <2>6 DEF IInv
  <1> QED
    BY <1>2, <1>4, <1>5

\* The destructors go on, each with its object.
LEMMA JoinStep ==
  ASSUME IInv, NEW t \in Callers, JoinTaskPool(t) \/ JoinMainPool(t)
  PROVE  IInv'
  <1>1. /\ process = "runs" /\ exiting[t] \in {"task pool", "main pool"}
        /\ UNCHANGED <<main, uart, frees, queue, worker, flags, stopped, test, detached, lamp, red,
                       destroyed, cardError>>
    BY DEF JoinTaskPool, JoinMainPool, Done, tests, pool, board
  <1>2. \/ exiting' = [exiting EXCEPT ![t] = "no"] /\ joins' = joins /\ process' = "runs"
           /\ (exiting[t] = "main pool" => joins = Workers)
        \/ exiting' = exiting /\ worker[joins + 1] = "ended" /\ joins' = joins + 1
           /\ joins # Workers /\ process' = "runs"
        \/ exiting' = exiting /\ joins' = joins /\ process' = "crashed" /\ t = "audio"
    BY <1>1 DEF JoinTaskPool, JoinMainPool, Done
  <1>3. exiting \in [Callers -> {"no"} \cup Objects] /\ exiting' \in [Callers -> {"no"} \cup Objects]
    BY <1>2, ExitingFacts
  <1>4. joins \in 0..Workers /\ joins' \in 0..Workers
    <2>1. joins \in 0..Workers
      BY DEF IInv, TypeOK
    <2>2. joins' = joins \/ (joins' = joins + 1 /\ joins # Workers)
      BY <1>2
    <2> QED
      BY <2>1, <2>2, WorkersAssumption
  <1>5. TypeOK'
    <2>1. process' \in {"runs", "crashed", "over"}
      BY <1>2
    <2>2. destroyed \in Seq(Objects) /\ frees \in 0..2
      BY LastFact DEF IInv, TypeOK
    <2> QED
      BY <1>1, <1>3, <1>4, <2>1, <2>2, ExitTypes DEF IInv
  <1>6. Last' = Last /\ StartFailed' = StartFailed
    BY <1>1 DEF Last, StartFailed
  <1>7. /\ \A u \in Callers : exiting'[u] = exiting[u] \/ (u = t /\ exiting'[u] = "no")
        /\ FactoryGone' = FactoryGone
    <2>1. \A u \in Callers : exiting'[u] = exiting[u] \/ (u = t /\ exiting'[u] = "no")
      BY <1>2, <1>3
    <2>2. \A u \in Callers : exiting'[u] = "factory" <=> exiting[u] = "factory"
      BY <1>1, <2>1
    <2> QED
      BY <1>6, <2>1, <2>2 DEF FactoryGone, Callers
  <1>8. InOrder'
    BY <1>1, <1>6, <1>7 DEF IInv, InOrder, Callers
  <1>9. Joined'
    <2>1. \A w \in 1..joins' : worker'[w] = "ended"
      <3>1. \A w \in 1..joins' : w \in 1..joins \/ (w = joins + 1 /\ joins' = joins + 1)
        <4>1. joins \in Nat /\ (joins' = joins \/ joins' = joins + 1)
          <5>1. joins' = joins \/ joins' = joins + 1
            BY <1>2
          <5> QED
            BY <1>4, <5>1, WorkersAssumption
        <4> QED
          BY <4>1
      <3> QED
        BY <1>1, <1>2, <3>1 DEF IInv, Joined
    <2>2. CASE exiting' = exiting /\ joins' = joins
      BY <1>1, <1>6, <2>1, <2>2 DEF IInv, Joined
    <2>3. CASE exiting' = exiting /\ joins # Workers
      BY <1>1, <1>6, <2>1, <2>3 DEF IInv, Joined
    <2>4. CASE exiting' = [exiting EXCEPT ![t] = "no"] /\ joins' = joins
      <3>1. CASE exiting[t] = "main pool"
        BY <1>2, <2>1, <2>4, <3>1, <1>3 DEF Joined, Callers
      <3>2. CASE exiting[t] # "main pool"
        <4>1. \A u \in Callers : exiting'[u] # "main pool" => exiting[u] # "main pool"
          BY <1>7, <3>2
        <4> QED
          BY <1>1, <1>6, <2>1, <2>4, <4>1 DEF IInv, Joined, Callers
      <3> QED
        BY <3>1, <3>2
    <2> QED
      BY <1>2, <2>2, <2>3, <2>4
  <1>10. Begun' /\ Freed'
    BY <1>1, <1>6, <1>7 DEF IInv, Begun, Freed
  <1>11. Leaves'
    <2>1. ~cardError => exiting'["audio"] = "no" /\ \A w \in 1..Workers : worker[w] # "exit"
      BY <1>7 DEF IInv, Leaves, Callers
    <2>2. ASSUME main # "returned"
          PROVE  exiting'["main"] = "no" /\ (Last = 2 => exiting'["audio"] = "main pool")
      <3>1. exiting["main"] = "no" /\ exiting'["main"] = "no"
        BY <1>7, <2>2 DEF IInv, Leaves, Callers
      <3>2. ASSUME Last = 2 PROVE exiting'["audio"] = "main pool"
        <4>1. exiting["audio"] = "main pool" /\ \E w \in 1..Workers : worker[w] = "exit"
          <5>1. Last > 0
            BY <3>2
          <5> QED
            BY <2>2, <3>2, <5>1 DEF IInv, Leaves
        <4>2. joins # Workers
          BY <4>1 DEF IInv, Joined
        <4>3. t = "audio"
          BY <1>1, <3>1 DEF Callers
        <4> QED
          BY <1>2, <4>1, <4>2, <4>3
      <3> QED
        BY <3>1, <3>2
    <2>3. process' # "over"
      BY <1>2
    <2> QED
      BY <1>1, <1>6, <2>1, <2>2, <2>3 DEF IInv, Leaves
  <1>12. Crashes'
    <2>1. process' = "crashed" => cardError
      BY <1>1, <1>2, ExitingFacts
    <2> QED
      BY <1>1, <2>1 DEF Crashes
  <1>13. Tested'
    <2>1. exiting[t] = "task pool" => test = "none"
      BY DEF JoinTaskPool, JoinMainPool
    <2>2. exiting[t] = "main pool" => Last >= 2
      BY ExitingFacts
    <2> QED
      BY <1>1, <1>6, <2>1, <2>2 DEF IInv, Tested
  <1> QED
    BY <1>5, <1>8, <1>9, <1>10, <1>11, <1>12, <1>13 DEF IInv

LEMMA FactoryStep ==
  ASSUME IInv, NEW t \in Callers, DestroyFactory(t)
  PROVE  IInv'
  <1>1. /\ process = "runs" /\ exiting[t] = "factory" /\ exiting' = [exiting EXCEPT ![t] = "no"]
        /\ uart' = "null" /\ frees' = frees + 1
        /\ process' = "runs" \/ (uart = "dangling" /\ process' = "crashed")
        /\ UNCHANGED <<main, queue, worker, flags, stopped, test, detached, lamp, red, destroyed, joins,
                       cardError>>
    BY DEF DestroyFactory, Done, tests, pool, board
  <1>2. Last' = Last /\ StartFailed' = StartFailed /\ Last = 3
    BY <1>1, ExitingFacts DEF Last, StartFailed
  <1>3. exiting \in [Callers -> {"no"} \cup Objects] /\ exiting' \in [Callers -> {"no"} \cup Objects]
    BY <1>1, ExitingFacts
  <1>4. /\ exiting'[t] = "no" /\ \A u \in Callers \ {t} : exiting'[u] = exiting[u]
        /\ \A u \in Callers \ {t} : exiting[u] # "factory"
    BY <1>1, <1>3, ExitingFacts
  <1>5. FactoryGone' /\ ~FactoryGone
    BY <1>1, <1>2, <1>4 DEF FactoryGone, Callers
  <1>6. frees' = (IF StartFailed THEN 1 ELSE 0) + 1
    BY <1>1, <1>5 DEF IInv, Freed
  <1>7. frees' \in 0..2
    BY <1>6
  <1>8. TypeOK'
    <2>1. destroyed \in Seq(Objects) /\ joins \in 0..Workers
      BY LastFact DEF IInv, TypeOK
    <2> QED
      BY <1>1, <1>3, <1>7, <2>1, ExitTypes DEF IInv
  <1>9. InOrder'
    BY <1>1, <1>2, <1>4 DEF IInv, InOrder, Callers
  <1>10. Joined' /\ Tested'
    <2>1. Last >= 2
      BY <1>2
    <2> QED
      BY <1>1, <1>2, <2>1 DEF IInv, Joined, Tested
  <1>11. Begun' /\ Freed'
    BY <1>1, <1>2, <1>5, <1>6 DEF IInv, Begun, Freed
  <1>12. main = "returned"
    BY <1>2 DEF IInv, Leaves
  <1>13. Leaves'
    BY <1>1, <1>4, <1>12 DEF IInv, Leaves, Callers
  <1>14. Crashes'
    BY <1>1, <1>2, <1>12 DEF IInv, Crashes, Freed
  <1> QED
    BY <1>8, <1>9, <1>10, <1>11, <1>13, <1>14 DEF IInv

LEMMA IdleStep ==
  ASSUME IInv, EndTest \/ UNCHANGED vars
  PROVE  IInv'
  <1>1. /\ UNCHANGED <<main, uart, frees, queue, worker, flags, stopped, detached, lamp, red, destroyed,
                       exiting, joins, process, cardError>>
        /\ test' \in {test, "none"}
    BY DEF EndTest, vars, tests, pool, board, leaving
  <1>2. Last' = Last /\ FactoryGone' = FactoryGone /\ StartFailed' = StartFailed
    BY <1>1 DEF Last, FactoryGone, StartFailed
  <1>3. TypeOK'
    <2>1. test' \in {"none", "runs", "stopped", "endless"}
      BY <1>1 DEF IInv, TypeOK
    <2>2. process' \in {"runs", "killed", "crashed", "over"} /\ detached' \in {"none", "runs", "late"}
      BY <1>1 DEF IInv, TypeOK
    <2> QED
      BY <1>1, <2>1, <2>2, StepTypes DEF IInv
  <1>4. InOrder' /\ Joined' /\ Tested' /\ Begun' /\ Freed' /\ Leaves' /\ Crashes'
    <2>1. InOrder' /\ Begun'
      BY <1>1, <1>2 DEF IInv, InOrder, Begun
    <2>2. Joined' /\ Tested'
      BY <1>1, <1>2 DEF IInv, Joined, Tested
    <2>3. Freed'
      BY <1>1, <1>2 DEF IInv, Freed
    <2>4. Leaves'
      BY <1>1, <1>2 DEF IInv, Leaves
    <2>5. Crashes'
      BY <1>1, <1>2 DEF IInv, Crashes
    <2> QED
      BY <2>1, <2>2, <2>3, <2>4, <2>5
  <1> QED
    BY <1>3, <1>4 DEF IInv
-----------------------------------------------------------------------------
(***************************************************************************)
(* Every step keeps the invariant.                                         *)
(***************************************************************************)
THEOREM LifeInductive == Spec => []IInv
  <1>1. IInv /\ [Next]_vars => IInv'
    <2> SUFFICES ASSUME IInv, [Next]_vars PROVE IInv'
      OBVIOUS
    <2>1. CASE Main
      BY <2>1, OpeningStep, ServingStep DEF Main
    <2>2. CASE Interrupt
      BY <2>2, InterruptStep
    <2>3. CASE EndTest \/ DetachedAnswer \/ UNCHANGED vars
      BY <2>3, IdleStep, DetachedAnswerInv
    <2>4. ASSUME NEW w \in 1..Workers,
                 \/ Loop(w) \/ PlayForever(w) \/ CardError(w)
                 \/ TakeCommand(w) \/ ScanForever(w) \/ StartTest(w) \/ StartDetached(w)
          PROVE  IInv'
      BY <2>4, JobStepInv, CardErrorStep, CommandStepInv DEF Loop, JobStep, CommandStep
    <2>5. ASSUME NEW t \in Callers, Exit(t)
          PROVE  IInv'
      BY <2>5, DestroyStep, JoinStep, FactoryStep DEF Exit
    <2> QED
      BY <2>1, <2>2, <2>3, <2>4, <2>5 DEF Next, Callers
  <1> QED
    BY InitIInv, <1>1, PTL DEF Spec

(***************************************************************************)
(* Main thread, workers and callers of exit() stay at places of their own, *)
(* and the UART is freed twice at most.                                    *)
(***************************************************************************)
THEOREM LifeTypeCorrect == Spec => []TypeOK
  <1>1. IInv => TypeOK
    BY DEF IInv
  <1> QED
    BY LifeInductive, <1>1, PTL

(***************************************************************************)
(* For any number of workers: without an error of the sound card the UART  *)
(* is freed when main() has returned and the tasks of both pools have      *)
(* ended, once unless the start has failed, and the process ends in no     *)
(* other way than by a command that outlives main() or by a detached test  *)
(* that does, even when UART and protocol have gone; with one, exit() on   *)
(* the worker of the headset does not end the process before main()        *)
(* returns.                                                                *)
(***************************************************************************)
THEOREM ExitsAreClean == Spec => []ExitIsClean
  <1>1. IInv => ExitIsClean
    <2> SUFFICES ASSUME IInv PROVE ExitIsClean
      OBVIOUS
    <2>1. CASE cardError
      BY <2>1 DEF ExitIsClean, IInv, Leaves
    <2>2. CASE ~cardError
      <3>1. ASSUME uart = "null", frees > 0
            PROVE  /\ main = "returned" /\ test = "none"
                   /\ \A w \in 1..Workers : worker[w] = "ended"
                   /\ frees = 1 \/ StartFailed
        <4>1. FactoryGone
          <5>1. ASSUME main = "open", ~FactoryGone PROVE frees = 0
            BY <5>1 DEF IInv, Freed, StartFailed
          <5> QED
            BY <3>1, <5>1 DEF IInv, Freed
        <4>2. Last = 3
          BY <4>1 DEF FactoryGone
        <4>3. main = "returned"
          BY <4>2 DEF IInv, Leaves
        <4>4. \A w \in 1..Workers : worker[w] = "ended"
          BY <2>2, <4>2, NoneLeft
        <4>5. frees = 1 \/ StartFailed
          BY <4>1 DEF IInv, Freed
        <4>6. test = "none"
          <5>1. Last >= 2
            BY <4>2
          <5> QED
            BY <2>2, <5>1 DEF IInv, Tested
        <4> QED
          BY <4>3, <4>4, <4>5, <4>6
      <3>2. process = "crashed" => main = "returned"
        BY <2>2 DEF IInv, Crashes
      <3>3. ASSUME process = "crashed", "factory" \in {destroyed[i] : i \in DOMAIN destroyed}
            PROVE  StartFailed \/ detached = "late"
        <4>1. Last \in Nat /\ Last <= 3 /\ DOMAIN destroyed = 1..Last
          BY LastFact DEF IInv, InOrder
        <4>2. PICK i \in DOMAIN destroyed : destroyed[i] = "factory"
          BY <3>3
        <4>3. i \in 1..Last /\ Order[i] = "factory"
          BY <4>1, <4>2 DEF IInv, InOrder
        <4>4. i \in {1, 2, 3} /\ i <= Last
          BY <4>1, <4>3
        <4>5. i = 3
          BY <4>3, <4>4, OrderFacts
        <4>6. Last = 3
          BY <4>1, <4>4, <4>5
        <4> QED
          BY <2>2, <3>3, <4>6 DEF IInv, Crashes
      <3> QED
        BY <2>2, <3>1, <3>2, <3>3 DEF ExitIsClean
    <2> QED
      BY <2>1, <2>2 DEF IInv, TypeOK
  <1> QED
    BY LifeInductive, <1>1, PTL
=============================================================================
