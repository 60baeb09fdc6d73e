-------------------------- MODULE TestRuntimeProofs --------------------------
(***************************************************************************)
(* The threads of TestApp, for any scripts of commands and any number of   *)
(* workers: the host hears in order of the commands the program knows, of  *)
(* each once, and a stop reaches every test before it.                     *)
(***************************************************************************)
EXTENDS TestRuntime, TLAPS

\* The command thread does not exist before it has been submitted.
Begin == main = "submit" => handler = "none"

\* Commands are taken one after the other.  Past is how many of them the
\* command thread has got over: between the taking of a command and its
\* acknowledgement, cmd is the first that is not.
Pending == {"ack"} \cup DrainStates
Executing == {"submit", "flag", "inline", "detach"}
Taken == IF cmd = None THEN 0 ELSE cmd
Past == IF handler \in Pending THEN Taken - 1 ELSE Taken
Progress ==
  /\ handler \in Pending \cup Executing => cmd \in DOMAIN script
  /\ handler \in Pending => script[cmd] # "unknown"
  /\ \A i \in 1..Len(taskQueue) : taskQueue[i] = Taken + i
  /\ main = "log" => received = Taken + Len(taskQueue) + 1
  /\ main \notin {"log", "crashed"} => received = Taken + Len(taskQueue)

\* What has been acknowledged: of the commands behind it, all it knows.
Acks ==
  /\ \A i \in 1..Len(acked) : acked[i] \in 1..Past /\ script[acked[i]] # "unknown"
  /\ \A i, j \in 1..Len(acked) : i < j => acked[i] < acked[j]
  /\ \A k \in 1..Past : script[k] = "unknown" \/ Acked(k)

\* A test is in one place at a time, and has not answered as long as it is.
Busy(w) == worker[w] \in {"run", "key", "answer"}
Places ==
  /\ \A k \in DOMAIN script : k > Past \/ script[k] = "unknown" => answered[k] = 0
  /\ \A k \in DOMAIN script : Held(k) => k <= Past /\ InPool(k) /\ answered[k] = 0
  /\ \A w \in Worker : Busy(w) => job[w] \in DOMAIN script
  /\ \A i, j \in 1..Len(pool) : pool[i] = pool[j] => i = j
  /\ \A w \in Worker : \A i \in 1..Len(pool) : Busy(w) => pool[i] # job[w]
  /\ \A v, w \in Worker : Busy(v) /\ Busy(w) /\ job[v] = job[w] => v = w
  /\ \A k \in detached : k <= Past /\ script[k] = "detached" /\ answered[k] = 0
  /\ handler \in Executing \ {"flag"} => answered[cmd] = 0
  /\ handler = "submit" => ~Held(cmd)
  /\ handler \in {"submit", "flag"} => InPool(cmd)
  /\ handler = "inline" => script[cmd] = "inline"
  /\ handler = "detach" => script[cmd] = "detached" /\ cmd \notin detached

\* Until SIGINT comes, a test of the pool has been stopped or its flag is in
\* the queue or about to be pushed; what a stop command takes out is stopped.
Flagged(i) == \E n \in 1..Len(flagsTask) : flagsTask[n] = i
Undisturbed ==
  /\ \A i \in DOMAIN script :
       InPool(i) /\ i <= Past =>
         i \in stopped \/ Flagged(i) \/ (handler \in {"submit", "flag"} /\ cmd = i)
  /\ handler = "ack" /\ script[cmd] = "stop" => flagsTask = <<>>
  /\ handler = "popFront" => flagsTask # <<>> /\ Head(flagsTask) \in stopped
  /\ \A i, j \in DOMAIN script :
       i < j /\ InPool(i) /\ script[j] = "stop" /\ j <= Past => i \in stopped
Stops ==
  /\ handler \in DrainStates => script[cmd] = "stop"
  /\ sig = "none" => Undisturbed

IInv == TypeOK /\ Begin /\ Progress /\ Acks /\ Places /\ Stops
-----------------------------------------------------------------------------
LEMMA AppendFacts ==
  ASSUME NEW S, NEW s \in Seq(S), NEW e \in S
  PROVE  /\ Append(s, e) \in Seq(S)
         /\ Len(Append(s, e)) = Len(s) + 1
         /\ \A i \in 1..Len(s) : Append(s, e)[i] = s[i]
         /\ Append(s, e)[Len(s) + 1] = e
  OBVIOUS

LEMMA TailFacts ==
  ASSUME NEW S, NEW s \in Seq(S), s # <<>>
  PROVE  /\ Head(s) = s[1] /\ Head(s) \in S
         /\ Tail(s) \in Seq(S)
         /\ Len(s) \in Nat \ {0}
         /\ Len(Tail(s)) = Len(s) - 1
         /\ \A i \in 1..(Len(s) - 1) : Tail(s)[i] = s[i + 1]
  OBVIOUS

\* The commands of a script are numbered from 1.
LEMMA ScriptFacts ==
  ASSUME TypeOK
  PROVE  /\ script \in Seq(Kinds) /\ DOMAIN script = 1..Len(script) /\ Len(script) \in Nat
         /\ \A k \in DOMAIN script : script[k] \in Kinds
         /\ DOMAIN script \subseteq Nat
         /\ Len(acked) \in Nat /\ Len(pool) \in Nat /\ Len(taskQueue) \in Nat
         /\ Len(flagsTask) \in Nat
  <1>1. script \in Seq(Kinds)
    BY ScriptAssumption DEF TypeOK
  <1> QED
    BY <1>1 DEF TypeOK

LEMMA PastFacts ==
  ASSUME TypeOK, Progress
  PROVE  /\ Taken \in Nat /\ Past \in Nat
         /\ handler \in Pending => cmd \in DOMAIN script /\ Taken = cmd /\ Past = cmd - 1
         /\ handler \in Executing => cmd \in DOMAIN script /\ Taken = cmd /\ Past = cmd
         /\ handler \notin Pending => Past = Taken
  <1>1. /\ DOMAIN script = 1..Len(script) /\ Len(script) \in Nat
        /\ cmd \in DOMAIN script \cup {None} /\ None \notin Nat
    BY ScriptFacts, NoneAssumption DEF TypeOK
  <1>2. handler \notin Pending \/ handler \notin Executing
    BY DEF Pending, Executing, DrainStates
  <1> QED
    BY <1>1, <1>2 DEF Progress, Taken, Past

\* What the steps of other threads, and those that only move one, preserve.
MainMoves ==
  \/ main' = main \/ main' = "crashed"
  \/ main \notin {"log", "crashed"} /\ main' # "log"
HandlerMoves ==
  cmd' = cmd /\ handler \notin Pending \cup Executing /\ handler' \notin Pending \cup Executing

LEMMA PastFrame ==
  ASSUME cmd' = cmd, handler' \in Pending <=> handler \in Pending
  PROVE  Taken' = Taken /\ Past' = Past
  BY DEF Taken, Past

LEMMA MovesFrame ==
  ASSUME UNCHANGED handlerVars \/ HandlerMoves
  PROVE  Taken' = Taken /\ Past' = Past
  BY PastFrame DEF HandlerMoves, handlerVars

LEMMA AcksFrame ==
  ASSUME Acks, UNCHANGED <<script, acked, Past>>
  PROVE  Acks'
  <1>1. \A k : Acked(k)' = Acked(k)
    BY DEF Acked
  <1> QED
    BY <1>1 DEF Acks

LEMMA ProgressFrame ==
  ASSUME Progress, MainMoves, UNCHANGED <<script, received, taskQueue>>,
         UNCHANGED handlerVars \/ HandlerMoves
  PROVE  Progress'
  <1>1. UNCHANGED Taken
    BY MovesFrame
  <1>2. CASE UNCHANGED handlerVars
    BY <1>1, <1>2 DEF Progress, MainMoves, handlerVars, Pending, Executing
  <1>3. CASE HandlerMoves
    BY <1>1, <1>3 DEF Progress, MainMoves, HandlerMoves
  <1> QED
    BY <1>2, <1>3

LEMMA PlacesFrame ==
  ASSUME Places, UNCHANGED <<script, poolVars, detached, outVars>>,
         UNCHANGED handlerVars \/ handler' \notin Executing,
         \A k \in DOMAIN script : (k <= Past => k <= Past') /\ (k > Past' => k > Past),
         detached \subseteq DOMAIN script
  PROVE  Places'
  <1>1. \A k : Held(k)' = Held(k)
    BY DEF Held, poolVars
  <1>2. \A k : InPool(k)' = InPool(k)
    BY DEF InPool
  <1>3. \A w : Busy(w)' = Busy(w)
    BY DEF Busy, poolVars
  <1>4. CASE UNCHANGED handlerVars
    BY <1>1, <1>2, <1>3, <1>4 DEF Places, poolVars, outVars, handlerVars
  <1>5. CASE handler' \notin Executing
    BY <1>1, <1>2, <1>3, <1>5 DEF Places, poolVars, outVars, Executing
  <1> QED
    BY <1>4, <1>5

LEMMA StopsFrame ==
  ASSUME Stops, UNCHANGED <<script, taskFlagVars>>,
         sig' = sig \/ sig' # "none",
         UNCHANGED handlerVars \/ HandlerMoves
  PROVE  Stops'
  <1>a. Past' = Past
    BY MovesFrame
  <1>1. \A i : InPool(i)' = InPool(i) /\ Flagged(i)' = Flagged(i)
    BY DEF InPool, Flagged, taskFlagVars
  <1>2. handler' \in DrainStates => script'[cmd'] = "stop"
    BY DEF Stops, handlerVars, HandlerMoves, Pending
  <1>3. ASSUME sig' = "none" PROVE Undisturbed'
    <2>1. Undisturbed
      BY <1>3 DEF Stops
    <2>2. CASE UNCHANGED handlerVars
      BY <1>a, <1>1, <2>1, <2>2 DEF Undisturbed, handlerVars, taskFlagVars
    <2>3. CASE HandlerMoves
      BY <1>a, <1>1, <2>1, <2>3 DEF Undisturbed, HandlerMoves, taskFlagVars, Pending, Executing, DrainStates
    <2> QED
      BY <2>2, <2>3
  <1> QED
    BY <1>2, <1>3 DEF Stops
-----------------------------------------------------------------------------
LEMMA InitInvariant == Init => IInv
  <1> SUFFICES ASSUME Init PROVE IInv
    OBVIOUS
  <1>1. script \in Seq(Kinds)
    BY ScriptAssumption DEF Init
  <1>2. TypeOK
    <2>1. /\ taskQueue \in Seq(DOMAIN script) /\ flagsTask \in Seq(DOMAIN script)
          /\ pool \in Seq(DOMAIN script) /\ acked \in Seq(DOMAIN script)
          /\ flagsMain \in Seq({"recv", "handler", "sleep"})
      BY DEF Init
    <2>2. 0 \in 0..Len(script)
      BY <1>1
    <2>3. /\ worker \in [Worker -> {"check", "take", "run", "key", "answer", "ended"}]
          /\ job \in [Worker -> DOMAIN script \cup {None}]
          /\ answered \in [DOMAIN script -> 0..1]
      BY DEF Init
    <2> QED
      BY <2>1, <2>2, <2>3 DEF Init, TypeOK, DrainStates
  <1>3. Begin /\ Progress /\ Acks
    BY DEF Init, Begin, Progress, Acks, Taken, Past, Pending, Executing, DrainStates
  <1>4. Places
    <2>1. \A k \in DOMAIN script : answered[k] = 0
      BY DEF Init
    <2>2. \A k \in DOMAIN script : ~Held(k)
      BY <1>1 DEF Init, Held
    <2> QED
      BY <2>1, <2>2 DEF Init, Places, Busy, Executing
  <1>5. Stops
    <2>1. \A k \in DOMAIN script : ~(k <= Past)
      <3>1. Past = 0 /\ \A k \in DOMAIN script : k \in Nat /\ k >= 1
        BY <1>1 DEF Init, Past, Taken, Pending, DrainStates
      <3> QED
        BY <3>1
    <2> QED
      BY <2>1 DEF Init, Stops, Undisturbed, DrainStates
  <1> QED
    BY <1>2, <1>3, <1>4, <1>5 DEF IInv

\* The steps of the main thread, of SIGINT and of a crash, but for the ones
\* that receive a command.
LEMMA MainThread ==
  ASSUME IInv,
         \/ Submit \/ PushHandlerFlag \/ PushSleepFlag \/ CheckRecvFlag \/ Return
         \/ JoinTaskPool \/ JoinMainPool \/ StopMainFlag \/ StopTaskFlag \/ Interrupt \/ Crash
  PROVE  IInv'
  <1> USE DEF IInv
  <1>1. TypeOK'
    <2>1. CASE Submit
      BY <2>1 DEF Submit, MainStep, TypeOK, flagVars, taskFlagVars, poolVars, outVars
    <2>2. CASE PushHandlerFlag \/ PushSleepFlag
      <3>1. \A f \in {"recv", "handler", "sleep"} :
              Append(flagsMain, f) \in Seq({"recv", "handler", "sleep"})
        BY AppendFacts DEF TypeOK
      <3>2. flagsMain' \in {Append(flagsMain, "handler"), Append(flagsMain, "sleep")}
        BY <2>2 DEF PushHandlerFlag, PushSleepFlag, PushFlag
      <3>3. flagsMain' \in Seq({"recv", "handler", "sleep"})
        BY <3>1, <3>2
      <3> QED
        BY <2>2, <3>3 DEF PushHandlerFlag, PushSleepFlag, PushFlag, MainStep, TypeOK,
                          taskFlagVars, handlerVars, poolVars, outVars
    <2>3. CASE CheckRecvFlag \/ Return \/ JoinTaskPool \/ JoinMainPool \/ Crash
      BY <2>3 DEF CheckRecvFlag, Return, JoinTaskPool, JoinMainPool, Crash, MainStep, TypeOK, flagVars, taskFlagVars, handlerVars, poolVars, outVars
    <2>4. CASE StopMainFlag
      <3>1. flagsMain # <<>> => Head(flagsMain) \in {"recv", "handler", "sleep"}
                               /\ Tail(flagsMain) \in Seq({"recv", "handler", "sleep"})
        BY TailFacts DEF TypeOK
      <3>2. /\ flagsMain' \in Seq({"recv", "handler", "sleep"})
            /\ stoppedMain' \subseteq {"recv", "handler", "sleep"}
        BY <2>4, <3>1 DEF StopMainFlag, TypeOK, flagVars
      <3>3. sig' \in {"main", "drain"}
        BY <2>4 DEF StopMainFlag
      <3> QED
        BY <2>4, <3>2, <3>3 DEF StopMainFlag, mainVars, TypeOK, taskFlagVars, handlerVars,
                                poolVars, outVars, DrainStates
    <2>5. CASE StopTaskFlag
      <3>1. flagsTask # <<>> => Head(flagsTask) \in DOMAIN script
                               /\ Tail(flagsTask) \in Seq(DOMAIN script)
        BY TailFacts DEF TypeOK
      <3>2. flagsTask' \in Seq(DOMAIN script) /\ stopped' \subseteq DOMAIN script
        BY <2>5, <3>1 DEF StopTaskFlag, Drain, TypeOK, taskFlagVars
      <3> QED
        BY <2>5, <3>2 DEF StopTaskFlag, mainVars, TypeOK, flagVars, handlerVars, poolVars, outVars
    <2>6. CASE Interrupt
      BY <2>6 DEF Interrupt, mainVars, TypeOK, flagVars, taskFlagVars, handlerVars, poolVars, outVars
    <2> QED
      BY <2>1, <2>2, <2>3, <2>4, <2>5, <2>6
  <1>2. UNCHANGED <<script, received, taskQueue, poolVars, detached, outVars>>
    BY DEF Submit, PushHandlerFlag, PushSleepFlag, PushFlag, CheckRecvFlag, Return, JoinTaskPool,
           JoinMainPool, StopMainFlag, StopTaskFlag, Interrupt, Crash, mainVars
  <1>3. MainMoves
    BY DEF Submit, PushHandlerFlag, PushSleepFlag, PushFlag, CheckRecvFlag, Return, JoinTaskPool,
           JoinMainPool, StopMainFlag, StopTaskFlag, Interrupt, Crash, MainStep, MainMoves, mainVars
  <1>4. UNCHANGED handlerVars \/ HandlerMoves
    BY DEF Submit, PushHandlerFlag, PushSleepFlag, PushFlag, CheckRecvFlag, Return, JoinTaskPool,
           JoinMainPool, StopMainFlag, StopTaskFlag, Interrupt, Crash, MainStep, Begin, handlerVars,
           HandlerMoves, Pending, Executing, DrainStates
  <1>5. main' = "submit" => handler' = "none"
    BY DEF Submit, PushHandlerFlag, PushSleepFlag, PushFlag, CheckRecvFlag, Return, JoinTaskPool,
           JoinMainPool, StopMainFlag, StopTaskFlag, Interrupt, Crash, MainStep, Begin, handlerVars,
           mainVars
  <1>6. Progress' /\ Acks' /\ Places'
    <2>1. Past' = Past /\ detached \subseteq DOMAIN script
      BY <1>4, MovesFrame DEF TypeOK
    <2> QED
      BY <1>2, <1>3, <1>4, <2>1, ProgressFrame, AcksFrame, PlacesFrame DEF HandlerMoves, outVars
  <1>7. Stops'
    <2>1. CASE StopTaskFlag
      BY <2>1 DEF StopTaskFlag, Stops, handlerVars, DrainStates
    <2>2. CASE ~StopTaskFlag
      <3>1. UNCHANGED taskFlagVars /\ (sig' = sig \/ sig' # "none")
        BY <2>2 DEF Submit, PushHandlerFlag, PushSleepFlag, PushFlag, CheckRecvFlag, Return, JoinTaskPool,
               JoinMainPool, StopMainFlag, Interrupt, Crash
      <3> QED
        BY <1>2, <1>4, <3>1, StopsFrame DEF outVars
    <2> QED
      BY <2>1, <2>2
  <1> QED
    BY <1>1, <1>5, <1>6, <1>7 DEF Begin

LEMMA ReadStep ==
  ASSUME IInv, Read
  PROVE  IInv'
  <1> USE DEF IInv, Read, MainStep
  <1>1. TypeOK'
    <2>1. Len(script) \in Nat
      BY ScriptFacts
    <2> QED
      BY <2>1 DEF TypeOK, flagVars, taskFlagVars, handlerVars, poolVars, outVars
  <1>a. Taken' = Taken /\ Past' = Past
    BY MovesFrame
  <1>2. Acks' /\ Places'
    BY <1>a, AcksFrame, PlacesFrame DEF outVars, TypeOK
  <1>3. Stops'
    BY StopsFrame DEF outVars
  <1>4. Begin'
    BY DEF Begin
  <1>5. Progress'
    <2> QED
      BY <1>a DEF Progress, handlerVars, outVars, Executing, Pending
  <1> QED
    BY <1>1, <1>2, <1>3, <1>4, <1>5

LEMMA PushTaskStep ==
  ASSUME IInv, PushTask
  PROVE  IInv'
  <1> USE DEF IInv, PushTask, MainStep
  <1>0. Taken \in Nat /\ Len(taskQueue) \in Nat /\ received \in DOMAIN script
    <2>1. /\ Len(taskQueue) \in Nat /\ DOMAIN script = 1..Len(script)
          /\ Len(script) \in Nat
      BY ScriptFacts
    <2>2. received \in 0..Len(script) /\ received = Taken + Len(taskQueue) + 1
      BY DEF TypeOK, Progress
    <2>3. Taken \in Nat
      BY PastFacts
    <2> QED
      BY <2>1, <2>2, <2>3
  <1>a. /\ taskQueue' \in Seq(DOMAIN script) /\ Len(taskQueue') = Len(taskQueue) + 1
        /\ \A i \in 1..Len(taskQueue) : taskQueue'[i] = taskQueue[i]
        /\ taskQueue'[Len(taskQueue) + 1] = received
    BY <1>0, AppendFacts DEF TypeOK
  <1>1. TypeOK'
    BY <1>a DEF TypeOK, flagVars, taskFlagVars, handlerVars, poolVars, outVars
  <1>b. Taken' = Taken /\ Past' = Past
    BY MovesFrame
  <1>2. Acks' /\ Places'
    BY <1>b, AcksFrame, PlacesFrame DEF outVars, TypeOK
  <1>3. Stops'
    BY StopsFrame DEF outVars
  <1>4. Begin'
    BY DEF Begin
  <1>5. Progress'
    <2>1. UNCHANGED Taken
      BY <1>b
    <2>2. received = Taken + Len(taskQueue) + 1
      BY DEF Progress
    <2>3. \A i \in 1..Len(taskQueue') : taskQueue'[i] = Taken + i
      <3> SUFFICES ASSUME NEW i \in 1..Len(taskQueue') PROVE taskQueue'[i] = Taken + i
        OBVIOUS
      <3>1. CASE i = Len(taskQueue) + 1
        BY <3>1, <1>0, <1>a, <2>2
      <3>2. CASE i # Len(taskQueue) + 1
        BY <3>2, <1>0, <1>a DEF Progress
      <3> QED
        BY <3>1, <3>2
    <2>4. received' = Taken' + Len(taskQueue')
      BY <1>0, <1>a, <2>1, <2>2
    <2> QED
      BY <2>1, <2>3, <2>4 DEF Progress, handlerVars, outVars, Executing, Pending
  <1> QED
    BY <1>1, <1>2, <1>3, <1>4, <1>5
-----------------------------------------------------------------------------
\* The command thread starts, and looks at its flag.
LEMMA HandlerFrame ==
  ASSUME IInv, StartHandler \/ CheckHandlerFlag
  PROVE  IInv'
  <1> USE DEF IInv, StartHandler, CheckHandlerFlag, HandlerStep
  <1>1. HandlerMoves
    BY DEF HandlerMoves, Pending, Executing, DrainStates
  <1>2. TypeOK'
    BY DEF TypeOK, mainVars, flagVars, taskFlagVars, poolVars, outVars
  <1>a. Past' = Past /\ detached \subseteq DOMAIN script
    BY <1>1, MovesFrame DEF TypeOK
  <1>3. Progress' /\ Acks' /\ Places'
    BY <1>1, <1>a, ProgressFrame, AcksFrame, PlacesFrame DEF MainMoves, mainVars, outVars, HandlerMoves
  <1>4. Stops'
    BY <1>1, StopsFrame DEF outVars
  <1>5. Begin'
    BY DEF Begin, mainVars
  <1> QED
    BY <1>2, <1>3, <1>4, <1>5

LEMMA PopTaskStep ==
  ASSUME IInv, PopTask
  PROVE  IInv'
  <1> USE DEF IInv
  <1>1. handler = "pop" /\ Running
    BY DEF PopTask, HandlerStep
  <1>2. UNCHANGED <<script, mainVars, sig, flagVars, taskFlagVars, poolVars, detached, outVars, calm>>
    BY DEF PopTask
  <1>3. Begin'
    BY <1>1, <1>2 DEF Begin, mainVars
  <1>4. CASE taskQueue = <<>> /\ handler' = "check" /\ UNCHANGED <<taskQueue, cmd>>
    <2>1. HandlerMoves
      BY <1>1, <1>4 DEF HandlerMoves, Pending, Executing, DrainStates
    <2>2. TypeOK'
      BY <1>2, <1>4 DEF TypeOK, mainVars, flagVars, taskFlagVars, poolVars, outVars
    <2>a. Past' = Past /\ detached \subseteq DOMAIN script
      BY <2>1, MovesFrame DEF TypeOK
    <2>3. Progress' /\ Acks' /\ Places'
      BY <2>1, <2>a, <1>2, <1>4, ProgressFrame, AcksFrame, PlacesFrame DEF MainMoves, mainVars, outVars, HandlerMoves
    <2>4. Stops'
      BY <2>1, <1>2, StopsFrame DEF outVars
    <2> QED
      BY <1>3, <2>2, <2>3, <2>4
  <1>5. CASE taskQueue # <<>> /\ handler' = First(Head(taskQueue)) /\ cmd' = Head(taskQueue)
             /\ taskQueue' = Tail(taskQueue)
    <2>1. /\ Head(taskQueue) = taskQueue[1] /\ Head(taskQueue) \in DOMAIN script
          /\ Tail(taskQueue) \in Seq(DOMAIN script) /\ Len(taskQueue) \in Nat \ {0}
          /\ Len(Tail(taskQueue)) = Len(taskQueue) - 1
          /\ \A i \in 1..(Len(taskQueue) - 1) : Tail(taskQueue)[i] = taskQueue[i + 1]
      BY <1>5, TailFacts DEF TypeOK
    <2>2. /\ handler' \in {"drain", "ack", "check"}
          /\ handler' = "drain" <=> script[cmd'] = "stop"
          /\ handler' = "check" <=> script[cmd'] = "unknown"
      BY <1>5 DEF First
    <2>3. /\ Past = Taken /\ Past \in Nat /\ cmd' = Past + 1 /\ Taken' = Past + 1
          /\ handler' # "check" => Past' = Past
          /\ handler' = "check" => Past' = Past + 1
      <3>1. Past = Taken /\ Past \in Nat
        BY <1>1, PastFacts DEF Pending, DrainStates
      <3>2. cmd' = Past + 1
        BY <1>5, <2>1, <3>1 DEF Progress
      <3>3. cmd' # None
        BY <3>1, <3>2, NoneAssumption
      <3> QED
        BY <2>2, <3>1, <3>2, <3>3 DEF Taken, Past, Pending, DrainStates
    <2>4. TypeOK'
      BY <1>2, <1>5, <2>1, <2>2 DEF TypeOK, mainVars, flagVars, taskFlagVars, poolVars, outVars, DrainStates
    <2>5. Progress'
      <3>1. \A i \in 1..Len(taskQueue') : taskQueue'[i] = Taken' + i
        <4> SUFFICES ASSUME NEW i \in 1..Len(taskQueue') PROVE taskQueue'[i] = Taken' + i
          OBVIOUS
        <4>1. taskQueue'[i] = taskQueue[i + 1] /\ i + 1 \in 1..Len(taskQueue)
          BY <1>5, <2>1
        <4> QED
          BY <4>1, <2>1, <2>3 DEF Progress
      <3>2. Taken' + Len(taskQueue') = Taken + Len(taskQueue)
        BY <1>5, <2>1, <2>3
      <3>3. Taken' + Len(taskQueue') + 1 = Taken + Len(taskQueue) + 1
        BY <1>5, <2>1, <2>3
      <3>4. handler' \in Pending => script'[cmd'] # "unknown"
        BY <1>2, <2>2 DEF Pending, DrainStates
      <3> QED
        BY <1>2, <1>5, <2>1, <3>1, <3>2, <3>3, <3>4 DEF Progress, mainVars
    <2>a. Acks'
      <3>1. \A k : Acked(k)' = Acked(k)
        BY <1>2 DEF Acked, outVars
      <3>2. \A k \in 1..Past' : k \in 1..Past \/ (k = cmd' /\ script[k] = "unknown")
        BY <2>2, <2>3
      <3>3. \A k \in 1..Past : k \in 1..Past'
        BY <2>3
      <3>4. acked' = acked /\ script' = script
        BY <1>2 DEF outVars
      <3> QED
        BY <3>1, <3>2, <3>3, <3>4 DEF Acks
    <2>6. Places'
      <3>1. DOMAIN script \subseteq Nat /\ detached \subseteq DOMAIN script
        BY ScriptFacts DEF TypeOK
      <3>2. \A k \in DOMAIN script : (k <= Past => k <= Past') /\ (k > Past' => k > Past)
        BY <2>3, <3>1
      <3> QED
        BY <1>2, <2>2, <3>1, <3>2, PlacesFrame DEF Executing
    <2>7. Stops'
      <3>1. \A i : InPool(i)' = InPool(i) /\ Flagged(i)' = Flagged(i)
        BY <1>2 DEF InPool, Flagged, taskFlagVars
      <3>2. \A i \in DOMAIN script :
              i <= Past' /\ (InPool(i) \/ script[i] = "stop") => i <= Past
        <4>1. DOMAIN script \subseteq Nat
          BY ScriptFacts
        <4> QED
          BY <2>2, <2>3, <4>1 DEF InPool, PoolKinds
      <3>3. ASSUME sig' = "none" PROVE Undisturbed'
        <4>1. Undisturbed
          BY <1>2, <3>3 DEF Stops
        <4> QED
          BY <1>1, <1>2, <2>2, <3>1, <3>2, <4>1 DEF Undisturbed, taskFlagVars
      <3> QED
        BY <1>2, <2>2, <3>3 DEF Stops, DrainStates
    <2> QED
      BY <1>3, <2>4, <2>5, <2>a, <2>6, <2>7
  <1> QED
    BY <1>4, <1>5 DEF PopTask, HandlerStep

\* A stop command: what it takes out of the queue has been stopped.
LEMMA StopAllTasksStep ==
  ASSUME IInv, StopAllTasks
  PROVE  IInv'
  <1> USE DEF IInv
  <1>1. /\ UNCHANGED <<script, mainVars, sig, taskQueue, flagVars, cmd, poolVars, detached, outVars, calm>>
        /\ handler \in DrainStates /\ handler' \in Pending
    BY DEF StopAllTasks, Drain, Pending, DrainStates
  <1>2. TypeOK'
    <2>1. flagsTask # <<>> => Head(flagsTask) \in DOMAIN script
                             /\ Tail(flagsTask) \in Seq(DOMAIN script)
      BY TailFacts DEF TypeOK
    <2>2. flagsTask' \in Seq(DOMAIN script) /\ stopped' \subseteq DOMAIN script
      BY <2>1 DEF StopAllTasks, Drain, TypeOK, taskFlagVars
    <2> QED
      BY <1>1, <2>2 DEF TypeOK, Pending, mainVars, flagVars, poolVars, outVars
  <1>3. Begin'
    BY <1>1 DEF Begin, mainVars, DrainStates
  <1>a. Taken' = Taken /\ Past' = Past
    BY <1>1, PastFrame DEF Pending
  <1>4. Progress'
    BY <1>1, <1>a DEF Progress, Pending, Executing, DrainStates, mainVars
  <1>5. Acks' /\ Places'
    BY <1>1, <1>a, AcksFrame, PlacesFrame DEF Pending, Executing, DrainStates, outVars, TypeOK
  <1>6. script'[cmd'] = "stop"
    BY <1>1 DEF Stops
  <1>7. ASSUME sig' = "none" PROVE Undisturbed'
    <2>1. Undisturbed
      BY <1>1, <1>7 DEF Stops
    <2>2. \A i : InPool(i)' = InPool(i)
      BY <1>1 DEF InPool
    <2>3. handler \notin {"submit", "flag"}
      BY <1>1 DEF DrainStates
    <2>4. CASE handler = "drain"
      <3>1. UNCHANGED taskFlagVars /\ handler' # "popFront"
            /\ (handler' = "ack" => flagsTask = <<>>)
        BY <2>4 DEF StopAllTasks, Drain
      <3>2. \A i : Flagged(i)' = Flagged(i)
        BY <3>1 DEF Flagged, taskFlagVars
      <3> QED
        BY <1>1, <1>a, <2>1, <2>2, <2>3, <3>1, <3>2 DEF Undisturbed, taskFlagVars, outVars
    <2>5. CASE handler = "stopFront"
      <3>1. /\ flagsTask # <<>> /\ handler' = "popFront" /\ flagsTask' = flagsTask
            /\ stopped' = stopped \cup {Head(flagsTask)}
        BY <2>5 DEF StopAllTasks, Drain
      <3>2. \A i : Flagged(i)' = Flagged(i)
        BY <3>1 DEF Flagged
      <3> QED
        BY <1>1, <1>a, <2>1, <2>2, <2>3, <3>1, <3>2 DEF Undisturbed, outVars
    <2>6. CASE handler = "popFront"
      <3>1. /\ flagsTask # <<>> /\ handler' = "drain" /\ flagsTask' = Tail(flagsTask)
            /\ stopped' = stopped /\ Head(flagsTask) \in stopped
        BY <2>1, <2>6 DEF StopAllTasks, Drain, Undisturbed
      <3>2. /\ Head(flagsTask) = flagsTask[1] /\ Len(flagsTask) \in Nat
            /\ Len(flagsTask') = Len(flagsTask) - 1
            /\ \A n \in 1..(Len(flagsTask) - 1) : flagsTask'[n] = flagsTask[n + 1]
        BY <3>1, TailFacts DEF TypeOK
      <3>3. \A i : Flagged(i) => Flagged(i)' \/ i \in stopped
        <4> SUFFICES ASSUME NEW i, NEW n \in 1..Len(flagsTask), flagsTask[n] = i, i \notin stopped
                     PROVE  Flagged(i)'
          BY DEF Flagged
        <4>1. n # 1
          BY <3>1, <3>2
        <4>2. n - 1 \in 1..Len(flagsTask') /\ flagsTask'[n - 1] = i
          BY <3>2, <4>1
        <4> QED
          BY <4>2 DEF Flagged
      <3> QED
        BY <1>1, <1>a, <2>1, <2>2, <2>3, <3>1, <3>3 DEF Undisturbed, outVars
    <2> QED
      BY <1>1, <2>4, <2>5, <2>6 DEF DrainStates
  <1>8. Stops'
    BY <1>6, <1>7 DEF Stops
  <1> QED
    BY <1>2, <1>3, <1>4, <1>5, <1>8
-----------------------------------------------------------------------------
\* What an acknowledged test is, and where it goes.
LEMMA AcknowledgeStep ==
  ASSUME IInv, Acknowledge
  PROVE  IInv'
  <1> USE DEF IInv
  <1>1. /\ UNCHANGED <<script, mainVars, sig, taskQueue, flagVars, taskFlagVars, cmd, poolVars,
                       detached, answered, calm>>
        /\ Running /\ handler = "ack" /\ handler' = Execute(cmd) /\ acked' = Append(acked, cmd)
    BY DEF Acknowledge, HandlerStep
  <1>2. /\ cmd \in DOMAIN script /\ cmd = Past + 1 /\ Past \in Nat /\ Past' = cmd
        /\ Taken' = Taken /\ Taken = cmd /\ script[cmd] # "unknown"
    <2>1. handler \in Pending /\ handler' \notin Pending
      BY <1>1 DEF Pending, DrainStates, Execute
    <2>2. /\ cmd \in DOMAIN script /\ Taken = cmd /\ Past = cmd - 1 /\ Past \in Nat
          /\ script[cmd] # "unknown" /\ DOMAIN script \subseteq Nat
      BY <2>1, PastFacts, ScriptFacts DEF Progress
    <2>3. Taken' = Taken /\ Past' = Taken
      BY <1>1, <2>1 DEF Taken, Past
    <2> QED
      BY <2>2, <2>3
  <1>3. /\ acked' \in Seq(DOMAIN script) /\ Len(acked') = Len(acked) + 1
        /\ \A i \in 1..Len(acked) : acked'[i] = acked[i]
        /\ acked'[Len(acked) + 1] = cmd /\ Len(acked) \in Nat
    BY <1>1, <1>2, AppendFacts DEF TypeOK
  <1>4. /\ handler' \in {"submit", "inline", "detach", "check"}
        /\ handler' = "submit" <=> InPool(cmd)
        /\ handler' = "inline" => script[cmd] = "inline"
        /\ handler' = "detach" => script[cmd] = "detached"
    BY <1>1 DEF Execute, InPool, PoolKinds
  <1>5. TypeOK'
    BY <1>1, <1>3, <1>4 DEF TypeOK, mainVars, flagVars, taskFlagVars, poolVars
  <1>6. Begin'
    BY <1>1 DEF Begin, mainVars
  <1>7. Progress' /\ Acks'
    <2>1. Progress'
      BY <1>1, <1>2, <1>4 DEF Progress, Pending, DrainStates, mainVars
    <2>2. \A i \in 1..Len(acked') : i \in 1..Len(acked) \/ i = Len(acked) + 1
      BY <1>3
    <2>3. \A i \in 1..Len(acked') : acked'[i] \in 1..cmd /\ script[acked'[i]] # "unknown"
      <3>1. \A x \in 1..Past : x \in 1..cmd
        BY <1>2
      <3>2. cmd \in 1..cmd
        BY <1>2
      <3> QED
        BY <1>2, <1>3, <2>2, <3>1, <3>2 DEF Acks
    <2>4. \A i, j \in 1..Len(acked') : i < j => acked'[i] < acked'[j]
      <3> SUFFICES ASSUME NEW i \in 1..Len(acked'), NEW j \in 1..Len(acked'), i < j
                   PROVE  acked'[i] < acked'[j]
        OBVIOUS
      <3>1. i \in 1..Len(acked) /\ acked'[i] = acked[i]
        BY <1>3
      <3>2. CASE j \in 1..Len(acked)
        BY <1>3, <3>1, <3>2 DEF Acks
      <3>3. CASE j = Len(acked) + 1
        <4>1. acked[i] \in 1..Past
          BY <3>1 DEF Acks
        <4> QED
          BY <1>2, <1>3, <3>1, <3>3, <4>1
      <3> QED
        BY <2>2, <3>2, <3>3
    <2>5. \A k : Acked(k) => Acked(k)'
      <3> SUFFICES ASSUME NEW k, NEW i \in 1..Len(acked), acked[i] = k PROVE Acked(k)'
        BY DEF Acked
      <3>1. i \in 1..Len(acked') /\ acked'[i] = k
        BY <1>3
      <3> QED
        BY <3>1 DEF Acked
    <2>6. Acked(cmd)'
      <3>1. Len(acked) + 1 \in 1..Len(acked')
        BY <1>3
      <3> QED
        BY <1>1, <1>3, <3>1 DEF Acked
    <2>7. \A k \in 1..cmd : k \in 1..Past \/ k = cmd
      BY <1>2
    <2>8. Acks'
      BY <1>1, <1>2, <2>3, <2>4, <2>5, <2>6, <2>7 DEF Acks
    <2> QED
      BY <2>1, <2>8
  <1>8. Places'
    <2>1. \A k : Held(k)' = Held(k)
      BY <1>1 DEF Held, poolVars
    <2>2. \A k : InPool(k)' = InPool(k)
      BY <1>1 DEF InPool
    <2>3. \A w : Busy(w)' = Busy(w)
      BY <1>1 DEF Busy, poolVars
    <2>4. ~Held(cmd) /\ answered[cmd] = 0 /\ cmd \notin detached
      <3>1. ~(cmd <= Past) /\ cmd > Past
        BY <1>2
      <3> QED
        BY <1>2, <3>1 DEF Places
    <2>5. \A k \in DOMAIN script : k <= Past => k <= Past'
      BY <1>2, ScriptFacts
    <2>6. \A k \in DOMAIN script : k > Past' => k > Past
      BY <1>2, ScriptFacts
    <2>8. cmd <= Past'
      BY <1>2, ScriptFacts
    <2>7. detached \subseteq DOMAIN script
      BY DEF TypeOK
    <2> QED
      BY <1>1, <1>4, <2>1, <2>2, <2>3, <2>4, <2>5, <2>6, <2>7, <2>8 DEF Places, poolVars
  <1>9. Stops'
    <2>1. \A i : InPool(i)' = InPool(i) /\ Flagged(i)' = Flagged(i)
      BY <1>1 DEF InPool, Flagged, taskFlagVars
    <2>2. ASSUME sig' = "none" PROVE Undisturbed'
      <3>1. Undisturbed
        BY <1>1, <2>2 DEF Stops
      <3>2. \A i \in DOMAIN script :
              InPool(i) /\ i <= Past' =>
                i \in stopped \/ Flagged(i) \/ (handler' = "submit" /\ cmd = i)
        <4> SUFFICES ASSUME NEW i \in DOMAIN script, InPool(i), i <= Past'
                     PROVE  i \in stopped \/ Flagged(i) \/ (handler' = "submit" /\ cmd = i)
          OBVIOUS
        <4>1. CASE i = cmd
          BY <4>1, <1>4
        <4>2. CASE i # cmd
          <5>1. i <= Past
            BY <4>2, <1>2, <1>3, ScriptFacts
          <5> QED
            BY <5>1, <1>1, <3>1 DEF Undisturbed
        <4> QED
          BY <4>1, <4>2
      <3>3. \A i, j \in DOMAIN script :
              i < j /\ InPool(i) /\ script[j] = "stop" /\ j <= Past' => i \in stopped
        <4> SUFFICES ASSUME NEW i \in DOMAIN script, NEW j \in DOMAIN script, i < j, InPool(i),
                            script[j] = "stop", j <= Past'
                     PROVE  i \in stopped
          OBVIOUS
        <4>1. CASE j = cmd
          <5>1. flagsTask = <<>>
            BY <4>1, <1>1, <3>1 DEF Undisturbed
          <5>2. ~Flagged(i)
            BY <5>1 DEF Flagged
          <5>3. i <= Past
            BY <4>1, <1>2, ScriptFacts
          <5> QED
            BY <5>2, <5>3, <1>1, <3>1 DEF Undisturbed
        <4>2. CASE j # cmd
          <5>1. j <= Past
            BY <4>2, <1>2, <1>3, ScriptFacts
          <5> QED
            BY <5>1, <3>1 DEF Undisturbed
        <4> QED
          BY <4>1, <4>2
      <3> QED
        BY <1>1, <1>4, <2>1, <3>2, <3>3 DEF Undisturbed, taskFlagVars
    <2> QED
      BY <1>4, <2>2 DEF Stops, DrainStates
  <1> QED
    BY <1>5, <1>6, <1>7, <1>8, <1>9

\* The task goes to the pool, and then its flag to the queue of flags.
LEMMA SubmitTestStep ==
  ASSUME IInv, SubmitTest
  PROVE  IInv'
  <1> USE DEF IInv
  <1>1. /\ UNCHANGED <<script, mainVars, sig, taskQueue, flagVars, taskFlagVars, cmd, worker, job,
                       detached, outVars, calm>>
        /\ Running /\ handler = "submit" /\ handler' = "flag" /\ pool' = Append(pool, cmd)
    BY DEF SubmitTest, HandlerStep
  <1>2. cmd \in DOMAIN script /\ cmd = Past /\ Past \in Nat /\ Len(pool) \in Nat
    BY <1>1, ScriptFacts, PastFacts DEF Executing
  <1>3. /\ pool' \in Seq(DOMAIN script) /\ Len(pool') = Len(pool) + 1
        /\ \A i \in 1..Len(pool) : pool'[i] = pool[i]
        /\ pool'[Len(pool) + 1] = cmd
    BY <1>1, <1>2, AppendFacts DEF TypeOK
  <1>4. TypeOK'
    BY <1>1, <1>3 DEF TypeOK, mainVars, flagVars, taskFlagVars, outVars
  <1>5. Begin'
    BY <1>1 DEF Begin, mainVars
  <1>a. Taken' = Taken /\ Past' = Past
    BY <1>1, PastFrame DEF Pending, DrainStates
  <1>6. Progress' /\ Acks'
    BY <1>1, <1>a, AcksFrame DEF Progress, Pending, Executing, DrainStates, mainVars, outVars
  <1>7. Places'
    <2>1. InPool(cmd) /\ answered[cmd] = 0 /\ ~Held(cmd)
      BY <1>1 DEF Places, Executing
    <2>2. \A i \in 1..Len(pool') : i \in 1..Len(pool) \/ i = Len(pool) + 1
      BY <1>2, <1>3
    <2>3. \A k : Held(k)' => Held(k) \/ k = cmd
      BY <1>1, <1>3, <2>2 DEF Held
    <2>4. \A k : InPool(k)' = InPool(k)
      BY <1>1 DEF InPool
    <2>5. \A w : Busy(w)' = Busy(w)
      BY <1>1 DEF Busy
    <2>6. \A i \in 1..Len(pool) : pool[i] # cmd
      BY <2>1 DEF Held
    <2>7. \A w \in Worker : Busy(w) => job[w] # cmd
      BY <2>1 DEF Held, Busy
    <2>8. \A i, j \in 1..Len(pool') : pool'[i] = pool'[j] => i = j
      BY <1>3, <2>2, <2>6 DEF Places
    <2>9. \A w \in Worker : \A i \in 1..Len(pool') : Busy(w) => pool'[i] # job[w]
      BY <1>3, <2>2, <2>7 DEF Places
    <2>10. \A k \in DOMAIN script : Held(k)' => k <= Past /\ InPool(k) /\ answered[k] = 0
      BY <1>2, <2>1, <2>3 DEF Places
    <2> QED
      BY <1>1, <1>a, <2>1, <2>4, <2>5, <2>8, <2>9, <2>10 DEF Places, Executing, outVars
  <1>8. Stops'
    <2>1. \A i : InPool(i)' = InPool(i) /\ Flagged(i)' = Flagged(i)
      BY <1>1 DEF InPool, Flagged, taskFlagVars
    <2>2. sig' = "none" => Undisturbed'
      BY <1>1, <1>a, <2>1 DEF Stops, Undisturbed, taskFlagVars, outVars
    <2> QED
      BY <1>1, <2>2 DEF Stops, DrainStates
  <1> QED
    BY <1>4, <1>5, <1>6, <1>7, <1>8

LEMMA PushTestFlagStep ==
  ASSUME IInv, PushTestFlag
  PROVE  IInv'
  <1> USE DEF IInv
  <1>1. /\ UNCHANGED <<script, mainVars, sig, taskQueue, flagVars, stopped, cmd, poolVars,
                       detached, outVars, calm>>
        /\ Running /\ handler = "flag" /\ handler' = "check" /\ flagsTask' = Append(flagsTask, cmd)
    BY DEF PushTestFlag, HandlerStep
  <1>2. cmd \in DOMAIN script /\ Len(flagsTask) \in Nat
    BY <1>1, ScriptFacts, PastFacts DEF Executing
  <1>3. /\ flagsTask' \in Seq(DOMAIN script) /\ Len(flagsTask') = Len(flagsTask) + 1
        /\ \A i \in 1..Len(flagsTask) : flagsTask'[i] = flagsTask[i]
        /\ flagsTask'[Len(flagsTask) + 1] = cmd
    BY <1>1, <1>2, AppendFacts DEF TypeOK
  <1>4. TypeOK'
    BY <1>1, <1>3 DEF TypeOK, mainVars, flagVars, poolVars, outVars
  <1>5. Begin'
    BY <1>1 DEF Begin, mainVars
  <1>a. Taken' = Taken /\ Past' = Past
    BY <1>1, PastFrame DEF Pending, DrainStates
  <1>6. Progress' /\ Acks'
    BY <1>1, <1>a, AcksFrame DEF Progress, Pending, Executing, DrainStates, mainVars, outVars
  <1>7. Places'
    BY <1>1, <1>a, PlacesFrame DEF Executing, TypeOK
  <1>8. Stops'
    <2>1. \A i : InPool(i)' = InPool(i)
      BY <1>1 DEF InPool
    <2>2. \A i : Flagged(i) => Flagged(i)'
      <3> SUFFICES ASSUME NEW i, NEW n \in 1..Len(flagsTask), flagsTask[n] = i
                   PROVE  Flagged(i)'
        BY DEF Flagged
      <3>1. n \in 1..Len(flagsTask') /\ flagsTask'[n] = i
        BY <1>2, <1>3
      <3> QED
        BY <3>1 DEF Flagged
    <2>3. Flagged(cmd)'
      <3>1. Len(flagsTask) + 1 \in 1..Len(flagsTask')
        BY <1>2, <1>3
      <3> QED
        BY <1>1, <1>3, <3>1 DEF Flagged
    <2>4. sig' = "none" => Undisturbed'
      BY <1>1, <1>a, <2>1, <2>2, <2>3 DEF Stops, Undisturbed, outVars
    <2> QED
      BY <1>1, <2>4 DEF Stops, DrainStates
  <1> QED
    BY <1>4, <1>5, <1>6, <1>7, <1>8
-----------------------------------------------------------------------------
\* A result is sent by whoever has the test, and then nobody has it.  The
\* places of the tests, when one step takes test k out and answers it.
LEMMA AnswerFacts ==
  ASSUME IInv, NEW k \in DOMAIN script, answered[k] = 0, k <= Past,
         script[k] # "unknown", Answer(k)
  PROVE  /\ answered' \in [DOMAIN script -> 0..1]
         /\ \A i \in DOMAIN script : i # k => answered'[i] = answered[i]
         /\ \A i \in DOMAIN script : i > Past \/ script[i] = "unknown" => answered'[i] = 0
  <1>1. answered \in [DOMAIN script -> 0..1] /\ DOMAIN script \subseteq Nat /\ Past \in Nat
    BY ScriptFacts, PastFacts DEF IInv, TypeOK
  <1>2. answered' = [answered EXCEPT ![k] = 1]
    BY <1>1 DEF Answer
  <1>3. \A i \in DOMAIN script : i # k => answered'[i] = answered[i]
    BY <1>1, <1>2
  <1>4. \A i \in DOMAIN script : i > Past \/ script[i] = "unknown" => i # k /\ answered[i] = 0
    BY <1>1 DEF IInv, Places
  <1>5. answered' \in [DOMAIN script -> 0..1]
    BY <1>1, <1>2
  <1> QED
    BY <1>3, <1>4, <1>5

LEMMA RunInlineStep ==
  ASSUME IInv, RunInline
  PROVE  IInv'
  <1> USE DEF IInv
  <1>1. /\ UNCHANGED <<script, mainVars, sig, taskQueue, flagVars, taskFlagVars, cmd, poolVars,
                       detached, acked, calm>>
        /\ Running /\ handler = "inline" /\ handler' = "check" /\ Answer(cmd)
    BY DEF RunInline, HandlerStep
  <1>2. cmd \in DOMAIN script /\ cmd <= Past /\ answered[cmd] = 0 /\ script[cmd] = "inline"
    BY <1>1, ScriptFacts, PastFacts DEF Places, Executing
  <1>3. /\ answered' \in [DOMAIN script -> 0..1]
        /\ \A i \in DOMAIN script : i # cmd => answered'[i] = answered[i]
        /\ \A i \in DOMAIN script : i > Past \/ script[i] = "unknown" => answered'[i] = 0
    BY <1>1, <1>2, AnswerFacts
  <1>4. TypeOK'
    BY <1>1, <1>3 DEF TypeOK, mainVars, flagVars, taskFlagVars, poolVars
  <1>5. Begin'
    BY <1>1 DEF Begin, mainVars
  <1>a. Taken' = Taken /\ Past' = Past
    BY <1>1, PastFrame DEF Pending, DrainStates
  <1>6. Progress' /\ Acks'
    BY <1>1, <1>a, AcksFrame DEF Progress, Pending, Executing, DrainStates, mainVars, outVars
  <1>7. Places'
    <2>1. \A k : Held(k)' = Held(k)
      BY <1>1 DEF Held, poolVars
    <2>2. \A k : InPool(k)' = InPool(k)
      BY <1>1 DEF InPool
    <2>3. \A w : Busy(w)' = Busy(w)
      BY <1>1 DEF Busy, poolVars
    <2>4. \A k \in DOMAIN script : Held(k) => k # cmd
      BY <1>2 DEF Places, InPool, PoolKinds
    <2>5. \A k \in detached : k # cmd /\ k \in DOMAIN script
      BY <1>2 DEF Places, TypeOK
    <2> QED
      BY <1>1, <1>a, <1>3, <2>1, <2>2, <2>3, <2>4, <2>5 DEF Places, Executing, poolVars
  <1>8. Stops'
    <2>1. \A i : InPool(i)' = InPool(i) /\ Flagged(i)' = Flagged(i)
      BY <1>1 DEF InPool, Flagged, taskFlagVars
    <2>2. sig' = "none" => Undisturbed'
      BY <1>1, <1>a, <2>1 DEF Stops, Undisturbed, taskFlagVars
    <2> QED
      BY <1>1, <2>2 DEF Stops, DrainStates
  <1> QED
    BY <1>4, <1>5, <1>6, <1>7, <1>8

LEMMA DetachStep ==
  ASSUME IInv, Detach
  PROVE  IInv'
  <1> USE DEF IInv
  <1>1. /\ UNCHANGED <<script, mainVars, sig, taskQueue, flagVars, taskFlagVars, cmd, poolVars,
                       outVars, calm>>
        /\ Running /\ handler = "detach" /\ handler' = "check" /\ detached' = detached \cup {cmd}
    BY DEF Detach, HandlerStep
  <1>2. cmd \in DOMAIN script /\ cmd <= Past /\ answered[cmd] = 0 /\ script[cmd] = "detached"
    BY <1>1, ScriptFacts, PastFacts DEF Places, Executing
  <1>3. TypeOK'
    BY <1>1, <1>2 DEF TypeOK, mainVars, flagVars, taskFlagVars, poolVars, outVars
  <1>4. Begin'
    BY <1>1 DEF Begin, mainVars
  <1>a. Taken' = Taken /\ Past' = Past
    BY <1>1, PastFrame DEF Pending, DrainStates
  <1>5. Progress' /\ Acks'
    BY <1>1, <1>a, AcksFrame DEF Progress, Pending, Executing, DrainStates, mainVars, outVars
  <1>6. Places'
    <2>1. \A k : Held(k)' = Held(k)
      BY <1>1 DEF Held, poolVars
    <2>2. \A k : InPool(k)' = InPool(k)
      BY <1>1 DEF InPool
    <2>3. \A w : Busy(w)' = Busy(w)
      BY <1>1 DEF Busy, poolVars
    <2> QED
      BY <1>1, <1>a, <1>2, <2>1, <2>2, <2>3 DEF Places, Executing, poolVars, outVars
  <1>7. Stops'
    <2>1. \A i : InPool(i)' = InPool(i) /\ Flagged(i)' = Flagged(i)
      BY <1>1 DEF InPool, Flagged, taskFlagVars
    <2>2. sig' = "none" => Undisturbed'
      BY <1>1, <1>a, <2>1 DEF Stops, Undisturbed, taskFlagVars
    <2> QED
      BY <1>1, <2>2 DEF Stops, DrainStates
  <1> QED
    BY <1>3, <1>4, <1>5, <1>6, <1>7

LEMMA DetachedAnswerStep ==
  ASSUME IInv, NEW k \in DOMAIN script, DetachedAnswer(k)
  PROVE  IInv'
  <1> USE DEF IInv
  <1>1. /\ UNCHANGED <<script, mainVars, sig, taskQueue, flagVars, taskFlagVars, handlerVars,
                       poolVars, acked, calm>>
        /\ k \in detached /\ detached' = detached \ {k} /\ Answer(k)
    BY DEF DetachedAnswer
  <1>2. k <= Past /\ answered[k] = 0 /\ script[k] = "detached"
    BY <1>1 DEF Places
  <1>3. /\ answered' \in [DOMAIN script -> 0..1]
        /\ \A i \in DOMAIN script : i # k => answered'[i] = answered[i]
        /\ \A i \in DOMAIN script : i > Past \/ script[i] = "unknown" => answered'[i] = 0
    BY <1>1, <1>2, AnswerFacts
  <1>4. TypeOK'
    BY <1>1, <1>3 DEF TypeOK, mainVars, flagVars, taskFlagVars, handlerVars, poolVars
  <1>a. Past' = Past
    BY <1>1, MovesFrame
  <1>5. Begin' /\ Progress' /\ Acks'
    BY <1>1, <1>a, ProgressFrame, AcksFrame DEF Begin, MainMoves, mainVars, handlerVars
  <1>6. Places'
    <2>1. \A i : Held(i)' = Held(i)
      BY <1>1 DEF Held, poolVars
    <2>2. \A i : InPool(i)' = InPool(i)
      BY <1>1 DEF InPool
    <2>3. \A w : Busy(w)' = Busy(w)
      BY <1>1 DEF Busy, poolVars
    <2>4. \A i \in DOMAIN script : Held(i) => i # k
      BY <1>2 DEF Places, InPool, PoolKinds
    <2>5. \A i \in detached' : i # k /\ i \in DOMAIN script
      BY <1>1 DEF TypeOK
    <2>6. handler \in Executing \ {"flag"} => answered'[cmd] = 0
      <3> SUFFICES ASSUME handler \in Executing \ {"flag"} PROVE answered'[cmd] = 0
        OBVIOUS
      <3>1. cmd \in DOMAIN script
        BY PastFacts
      <3>2. cmd # k \/ handler = "detach"
        BY <1>2 DEF Places, Executing, InPool, PoolKinds
      <3>3. cmd # k
        BY <3>2, <1>1 DEF Places
      <3> QED
        BY <1>3, <3>1, <3>3 DEF Places
    <2> QED
      BY <1>1, <1>a, <1>3, <2>1, <2>2, <2>3, <2>4, <2>5, <2>6 DEF Places, handlerVars, poolVars
  <1>7. Stops'
    BY <1>1, StopsFrame
  <1> QED
    BY <1>4, <1>5, <1>6, <1>7
-----------------------------------------------------------------------------
\* The workers.  What a step of one of them leaves alone, and one that gives
\* no test away and takes none.
LEMMA WorkerFrame ==
  ASSUME IInv, NEW w \in Worker, NEW from, NEW to \in {"check", "take", "run", "key", "answer", "ended"},
         WorkerStep(w, from, to)
  PROVE  /\ Begin' /\ Progress' /\ Acks' /\ Stops' /\ Past' = Past
         /\ worker' \in [Worker -> {"check", "take", "run", "key", "answer", "ended"}]
         /\ worker[w] = from /\ worker'[w] = to
         /\ \A v \in Worker : v # w => worker'[v] = worker[v]
  <1>1. /\ UNCHANGED <<script, mainVars, sig, taskQueue, flagVars, taskFlagVars, handlerVars,
                       detached, acked, calm>>
        /\ worker[w] = from /\ worker' = [worker EXCEPT ![w] = to]
    BY DEF WorkerStep
  <1>2. worker \in [Worker -> {"check", "take", "run", "key", "answer", "ended"}]
    BY DEF IInv, TypeOK
  <1>a. Past' = Past
    BY <1>1, MovesFrame
  <1>3. Begin' /\ Progress' /\ Acks'
    BY <1>1, <1>a, ProgressFrame, AcksFrame DEF IInv, Begin, MainMoves, mainVars, handlerVars
  <1>4. Stops'
    BY <1>1, StopsFrame DEF IInv
  <1> QED
    BY <1>1, <1>a, <1>2, <1>3, <1>4

LEMMA WorkerMoves ==
  ASSUME IInv, NEW w \in Worker, NEW from, NEW to \in {"check", "take", "run", "key", "answer", "ended"},
         WorkerStep(w, from, to), UNCHANGED <<pool, job, answered>>,
         to \in {"run", "key", "answer"} => from \in {"run", "key", "answer"}
  PROVE  IInv'
  <1> USE DEF IInv
  <1>1. /\ Begin' /\ Progress' /\ Acks' /\ Stops' /\ Past' = Past
        /\ worker' \in [Worker -> {"check", "take", "run", "key", "answer", "ended"}]
        /\ worker[w] = from /\ worker'[w] = to
        /\ \A v \in Worker : v # w => worker'[v] = worker[v]
    BY WorkerFrame
  <1>2. UNCHANGED <<script, mainVars, sig, taskQueue, flagVars, taskFlagVars, handlerVars,
                    detached, acked, calm>>
    BY DEF WorkerStep
  <1>3. TypeOK'
    BY <1>1, <1>2 DEF TypeOK, mainVars, flagVars, taskFlagVars, handlerVars
  <1>4. Places'
    <2>1. \A v \in Worker : Busy(v)' => Busy(v)
      BY <1>1 DEF Busy
    <2>2. \A k : Held(k)' => Held(k)
      BY <2>1 DEF Held, Busy
    <2>3. \A k : InPool(k)' = InPool(k)
      BY <1>2 DEF InPool
    <2> QED
      BY <1>1, <1>2, <2>1, <2>2, <2>3 DEF Places, handlerVars
  <1> QED
    BY <1>1, <1>3, <1>4

LEMMA TakeStep ==
  ASSUME IInv, NEW w \in Worker, Take(w)
  PROVE  IInv'
  <1> USE DEF IInv
  <1>1. CASE WorkerStep(w, "take", "check") /\ UNCHANGED <<pool, job, answered>>
    BY <1>1, WorkerMoves
  <1>2. CASE /\ WorkerStep(w, "take", "run") /\ pool # <<>> /\ UNCHANGED answered
             /\ job' = [job EXCEPT ![w] = Head(pool)] /\ pool' = Tail(pool)
    <2>1. /\ Begin' /\ Progress' /\ Acks' /\ Stops' /\ Past' = Past
          /\ worker' \in [Worker -> {"check", "take", "run", "key", "answer", "ended"}]
          /\ worker[w] = "take" /\ worker'[w] = "run"
          /\ \A v \in Worker : v # w => worker'[v] = worker[v]
      BY <1>2, WorkerFrame
    <2>2. UNCHANGED <<script, mainVars, sig, taskQueue, flagVars, taskFlagVars, handlerVars,
                      detached, acked, calm>>
      BY <1>2 DEF WorkerStep
    <2>3. /\ Head(pool) = pool[1] /\ Head(pool) \in DOMAIN script
          /\ pool' \in Seq(DOMAIN script) /\ Len(pool) \in Nat \ {0} /\ Len(pool') = Len(pool) - 1
          /\ \A i \in 1..(Len(pool) - 1) : pool'[i] = pool[i + 1]
      BY <1>2, TailFacts DEF TypeOK
    <2>4. /\ job' \in [Worker -> DOMAIN script \cup {None}] /\ job'[w] = pool[1]
          /\ \A v \in Worker : v # w => job'[v] = job[v]
      BY <1>2, <2>3 DEF TypeOK
    <2>5. TypeOK'
      BY <1>2, <2>1, <2>2, <2>3, <2>4 DEF TypeOK, mainVars, flagVars, taskFlagVars, handlerVars
    <2>6. Places'
      <3>1. \A v \in Worker : v # w => Busy(v)' = Busy(v)
        BY <2>1 DEF Busy
      <3>2. Busy(w)' /\ ~Busy(w)
        BY <2>1 DEF Busy
      <3>3. \A i \in 1..Len(pool') : i + 1 \in 1..Len(pool) /\ pool'[i] = pool[i + 1] /\ i + 1 # 1
        BY <2>3
      <3>4. 1 \in 1..Len(pool)
        BY <2>3
      <3>5. \A k : Held(k)' => Held(k)
        BY <2>1, <2>4, <3>1, <3>3, <3>4 DEF Held, Busy
      <3>6. \A k : InPool(k)' = InPool(k)
        BY <2>2 DEF InPool
      <3>7. \A v \in Worker : Busy(v)' => job'[v] \in DOMAIN script
        BY <2>3, <2>4, <3>1 DEF Places
      <3>8. \A i, j \in 1..Len(pool') : pool'[i] = pool'[j] => i = j
        <4> SUFFICES ASSUME NEW i \in 1..Len(pool'), NEW j \in 1..Len(pool'), pool'[i] = pool'[j]
                     PROVE  i = j
          OBVIOUS
        <4>1. i + 1 = j + 1
          BY <3>3 DEF Places
        <4> QED
          BY <4>1
      <3>9. \A v \in Worker : \A i \in 1..Len(pool') : Busy(v)' => pool'[i] # job'[v]
        <4> SUFFICES ASSUME NEW v \in Worker, NEW i \in 1..Len(pool'), Busy(v)'
                     PROVE  pool'[i] # job'[v]
          OBVIOUS
        <4>1. CASE v = w
          BY <4>1, <2>4, <3>3, <3>4 DEF Places
        <4>2. CASE v # w
          BY <4>2, <2>4, <3>1, <3>3 DEF Places
        <4> QED
          BY <4>1, <4>2
      <3>10. \A v \in Worker : v # w /\ Busy(v) => job[v] # pool[1]
        BY <3>4 DEF Places
      <3>11. \A u, v \in Worker : Busy(u)' /\ Busy(v)' /\ job'[u] = job'[v] => u = v
        BY <2>4, <3>1, <3>10 DEF Places
      <3> QED
        BY <1>2, <2>1, <2>2, <3>5, <3>6, <3>7, <3>8, <3>9, <3>11 DEF Places, handlerVars
    <2> QED
      BY <2>1, <2>5, <2>6
  <1> QED
    BY <1>1, <1>2 DEF Take

LEMMA SendResultStep ==
  ASSUME IInv, NEW w \in Worker, SendResult(w)
  PROVE  IInv'
  <1> USE DEF IInv
  <1>1. WorkerStep(w, "answer", "check") /\ Answer(job[w]) /\ UNCHANGED <<pool, job>>
    BY DEF SendResult
  <1>2. /\ Begin' /\ Progress' /\ Acks' /\ Stops' /\ Past' = Past
        /\ worker' \in [Worker -> {"check", "take", "run", "key", "answer", "ended"}]
        /\ worker[w] = "answer" /\ worker'[w] = "check"
        /\ \A v \in Worker : v # w => worker'[v] = worker[v]
    BY <1>1, WorkerFrame
  <1>3. UNCHANGED <<script, mainVars, sig, taskQueue, flagVars, taskFlagVars, handlerVars,
                    detached, acked, calm>>
    BY <1>1 DEF WorkerStep
  <1>4. Busy(w) /\ job[w] \in DOMAIN script /\ Held(job[w])
    BY <1>2 DEF Busy, Held, Places
  <1>5. /\ InPool(job[w]) /\ job[w] <= Past /\ answered[job[w]] = 0
        /\ script[job[w]] # "unknown"
    BY <1>4 DEF Places, InPool, PoolKinds
  <1>6. /\ answered' \in [DOMAIN script -> 0..1]
        /\ \A i \in DOMAIN script : i # job[w] => answered'[i] = answered[i]
        /\ \A i \in DOMAIN script : i > Past \/ script[i] = "unknown" => answered'[i] = 0
    BY <1>1, <1>4, <1>5, AnswerFacts
  <1>7. TypeOK'
    BY <1>1, <1>2, <1>3, <1>6 DEF TypeOK, mainVars, flagVars, taskFlagVars, handlerVars
  <1>8. Places'
    <2>1. \A v \in Worker : Busy(v)' <=> Busy(v) /\ v # w
      BY <1>2 DEF Busy
    <2>2. \A k : InPool(k)' = InPool(k)
      BY <1>3 DEF InPool
    <2>3. \A k : Held(k)' => Held(k) /\ k # job[w]
      <3> SUFFICES ASSUME NEW k, Held(k)' PROVE Held(k) /\ k # job[w]
        OBVIOUS
      <3>1. CASE \E i \in 1..Len(pool) : pool[i] = k
        BY <3>1, <1>4 DEF Places, Held
      <3>2. CASE \E v \in Worker : job[v] = k /\ Busy(v)'
        BY <3>2, <2>1, <1>4 DEF Places, Held, Busy
      <3> QED
        BY <1>1, <3>1, <3>2 DEF Held, Busy
    <2>4. \A k \in detached : k \in DOMAIN script /\ k # job[w]
      BY <1>5 DEF TypeOK, Places, InPool, PoolKinds
    <2>5. handler \in Executing \ {"flag"} => answered'[cmd] = 0
      <3> SUFFICES ASSUME handler \in Executing \ {"flag"} PROVE answered'[cmd] = 0
        OBVIOUS
      <3>1. cmd \in DOMAIN script
        BY PastFacts
      <3>2. cmd # job[w]
        BY <1>4, <1>5 DEF Places, Executing, InPool, PoolKinds
      <3> QED
        BY <1>6, <3>1, <3>2 DEF Places
    <2>6. \A k \in DOMAIN script : Held(k)' => k <= Past /\ InPool(k) /\ answered'[k] = 0
      BY <1>6, <2>3 DEF Places
    <2> QED
      BY <1>1, <1>2, <1>3, <1>6, <2>1, <2>2, <2>3, <2>4, <2>5, <2>6 DEF Places, handlerVars
  <1> QED
    BY <1>2, <1>7, <1>8

LEMMA WorkerThreadStep ==
  ASSUME IInv, NEW w \in Worker, WorkerThread(w)
  PROVE  IInv'
  <1>1. CASE CheckDone(w)
    <2>1. PICK to \in {"ended", "take"} : WorkerStep(w, "check", to) /\ UNCHANGED <<pool, job, answered>>
      BY <1>1 DEF CheckDone
    <2> QED
      BY <2>1, WorkerMoves
  <1>2. CASE KeyLoop(w)
    <2>1. PICK to \in {"check", "key"} : WorkerStep(w, "run", to) /\ UNCHANGED <<pool, job, answered>>
      BY <1>2 DEF KeyLoop
    <2> QED
      BY <2>1, WorkerMoves
  <1>3. CASE KeyPress(w)
    <2>1. PICK to \in {"run", "check", "answer"} : WorkerStep(w, "key", to) /\ UNCHANGED <<pool, job, answered>>
      BY <1>3 DEF KeyPress
    <2> QED
      BY <2>1, WorkerMoves
  <1>4. CASE Test(w)
    <2>1. PICK to \in {"check", "answer"} : WorkerStep(w, "run", to) /\ UNCHANGED <<pool, job, answered>>
      BY <1>4 DEF Test
    <2> QED
      BY <2>1, WorkerMoves
  <1> QED
    BY <1>1, <1>2, <1>3, <1>4, TakeStep, SendResultStep DEF WorkerThread
-----------------------------------------------------------------------------
LEMMA NextInvariant == IInv /\ [Next]_vars => IInv'
  <1> SUFFICES ASSUME IInv, [Next]_vars PROVE IInv'
    OBVIOUS
  <1>1. CASE Main \/ Interrupt \/ Crash
    BY <1>1, MainThread, ReadStep, PushTaskStep DEF Main
  <1>2. CASE Handler
    BY <1>2, HandlerFrame, PopTaskStep, StopAllTasksStep, AcknowledgeStep, SubmitTestStep,
       PushTestFlagStep, RunInlineStep, DetachStep DEF Handler
  <1>3. CASE \E w \in Worker : WorkerThread(w)
    BY <1>3, WorkerThreadStep
  <1>4. CASE \E k \in DOMAIN script : DetachedAnswer(k)
    BY <1>4, DetachedAnswerStep
  <1>5. CASE UNCHANGED vars
    <2>1. Begin' /\ TypeOK'
      BY <1>5 DEF IInv, vars, Begin, TypeOK, mainVars, flagVars, taskFlagVars, handlerVars, poolVars, outVars
    <2>a. Past' = Past /\ detached \subseteq DOMAIN script
      BY <1>5, MovesFrame DEF IInv, TypeOK, vars
    <2>2. Progress' /\ Acks' /\ Places' /\ Stops'
      BY <1>5, <2>a, ProgressFrame, AcksFrame, PlacesFrame, StopsFrame
         DEF IInv, vars, MainMoves, mainVars, outVars, taskFlagVars, handlerVars
    <2> QED
      BY <2>1, <2>2 DEF IInv
  <1> QED
    BY <1>1, <1>2, <1>3, <1>4, <1>5 DEF Next

\* The acknowledged commands are those the command thread has got over,
\* but for the unknown ones.
LEMMA AckedFacts ==
  ASSUME IInv, NEW k \in DOMAIN script
  PROVE  Acked(k) <=> k <= Past /\ script[k] # "unknown"
  <1>1. k \in Nat /\ k >= 1 /\ Past \in Nat
    BY ScriptFacts, PastFacts DEF IInv
  <1>2. k <= Past <=> k \in 1..Past
    BY <1>1
  <1> QED
    BY <1>1, <1>2 DEF Acked, IInv, Acks

(***************************************************************************)
(* Every variable stays in its type: no test answers twice, no thread gets *)
(* a command that the host did not send.                                   *)
(***************************************************************************)
THEOREM TypeCorrect == Spec => []TypeOK
  <1>1. IInv => TypeOK
    BY DEF IInv
  <1> QED
    BY InitInvariant, NextInvariant, <1>1, PTL DEF Spec

(***************************************************************************)
(* The command thread acknowledges the commands it knows, each once and in *)
(* the order in which the host sent them, those it does not know never,    *)
(* and no result comes before its acknowledgement or twice (processTask),  *)
(* for any scripts and number of workers.                                  *)
(***************************************************************************)
THEOREM AnswersOrdered == Spec => []AnswersInOrder
  <1>1. IInv => AnswersInOrder
    <2> SUFFICES ASSUME IInv PROVE AnswersInOrder
      OBVIOUS
    <2>1. \A i, j \in 1..Len(acked) : i < j => acked[i] < acked[j]
      BY DEF IInv, Acks
    <2>2. ASSUME NEW i \in 1..Len(acked)
          PROVE  /\ script[acked[i]] # "unknown"
                 /\ \A k \in 1..acked[i] : script[k] = "unknown" \/ Acked(k)
      <3>1. acked[i] \in 1..Past /\ script[acked[i]] # "unknown" /\ Past \in Nat
        BY PastFacts DEF IInv, Acks
      <3>2. \A k \in 1..acked[i] : k \in 1..Past
        BY <3>1
      <3> QED
        BY <3>1, <3>2 DEF IInv, Acks
    <2>3. ASSUME NEW k \in DOMAIN script
          PROVE  answered[k] <= 1 /\ (answered[k] = 1 => Acked(k))
      <3>1. answered[k] \in 0..1
        BY DEF IInv, TypeOK
      <3>2. k \in Nat /\ Past \in Nat
        BY ScriptFacts, PastFacts DEF IInv
      <3>3. answered[k] = 1 => k <= Past /\ script[k] # "unknown"
        BY <3>1, <3>2 DEF IInv, Places
      <3> QED
        BY <3>1, <3>3, AckedFacts
    <2> QED
      BY <2>1, <2>2, <2>3 DEF AnswersInOrder
  <1> QED
    BY InitInvariant, NextInvariant, <1>1, PTL DEF Spec

(***************************************************************************)
(* Until SIGINT comes, an acknowledged stop command has reached every test *)
(* that the pool was given before it (stop_all_tasks, submit and the push  *)
(* of the flag behind it), however many workers are busy.                  *)
(***************************************************************************)
THEOREM StopsReach == Spec => []StopReachesAll
  <1>1. IInv => StopReachesAll
    <2> SUFFICES ASSUME IInv, sig = "none" PROVE
          \A i, j \in DOMAIN script :
            i < j /\ InPool(i) /\ script[j] = "stop" /\ Acked(j) => i \in stopped
      BY DEF StopReachesAll
    <2>1. Undisturbed
      BY DEF IInv, Stops
    <2> QED
      BY <2>1, AckedFacts DEF Undisturbed
  <1> QED
    BY InitInvariant, NextInvariant, <1>1, PTL DEF Spec
=============================================================================
