--------------------------- MODULE UsbTestsProofs ---------------------------
(***************************************************************************)
(* Proofs about the tests on the USB bus: what a response "true" of a type-C *)
(* test says of its items, and that one dialog is shown at a time, for any  *)
(* items, devices, threads and commands.                                    *)
(***************************************************************************)
EXTENDS UsbTests, SequenceTheorems, FiniteSetTheorems, TLAPS

TestStates == {"none", "queued", "first", "loop", "refresh", "judge", "update",
               "close", "turn", "late", "done"}

(***************************************************************************)
(* The inductive invariant.  Shape: the values of what a test keeps.       *)
(***************************************************************************)
Shape ==
  /\ scenario \in Scenario /\ cmd \in 0 .. Len(script)
  /\ at \in [Thread -> TestStates \cup {"pop", "show", "scan"}]
  /\ item \in [Thread -> Nat \ {0}]
  /\ DOMAIN verdicts = Thread
  /\ \A k \in Worker : verdicts[k] \in [DOMAIN Items -> {"none", "OK", "NG"}]
  /\ togo \in [Worker -> 0 .. 2]
  /\ late \in [Worker -> BOOLEAN] /\ allTestValue \in [Worker -> BOOLEAN]
  /\ stopped \subseteq Worker
  /\ DOMAIN answer = DOMAIN script

\* Which command the command thread is at, and which tests do not run yet.
Commands ==
  /\ at[0] = "show" => cmd # 0 /\ script[cmd] = "typec" /\ at[cmd] = "none"
  /\ at[0] \in {"scan", "refresh", "judge"} => cmd # 0 /\ script[cmd] = "storage"
  /\ at[0] \in {"pop", "show", "scan", "refresh", "judge"}
  /\ \A k \in cmd + 1 .. Len(script) : at[k] = "none"
  /\ \A k \in stopped : at[k] # "none"

\* The items of a side that test k has yet to judge, and those it has judged.
Ahead(k, j) ==
  \/ Items[j].side = "positive" /\ togo[k] = 2 /\ (at[k] = "judge" => j >= item[k])
  \/ Items[j].side = "negative" /\ togo[k] = 2
  \/ Items[j].side = "negative" /\ togo[k] = 1 /\ (at[k] = "judge" => j >= item[k])
ProgressOf(k) ==
  /\ at[k] \in {"refresh", "judge"} => togo[k] \in {1, 2}
  /\ \A j \in DOMAIN Items :
       /\ Ahead(k, j) => verdicts[k][j] = "none"
       /\ ~Ahead(k, j) /\ Tested(Items[j]) => verdicts[k][j] \in {"OK", "NG"}
  /\ allTestValue[k] <=> \A j \in DOMAIN Items : verdicts[k][j] # "NG"
Progress == \A k \in Worker : ProgressOf(k)

\* Only a test that gave up is late; a response "true" to a test that was not
\* stopped came after both sides and holds what the test has found.
EndingOf(k) ==
  /\ late[k] => at[k] \in {"late", "done"}
  /\ at[k] = "late" => late[k]
  /\ TypeC(k) /\ Answered(k) => at[k] = "done"
  /\ TypeC(k) /\ Answered(k) /\ k \notin stopped /\ answer[k].result = "true" =>
       /\ togo[k] = 0
       /\ answer[k].items = verdicts[k]
       /\ (answer[k].verdict = "OK") <=> allTestValue[k]
Ending == \A k \in Worker : EndingOf(k)

IInv == Shape /\ Commands /\ Progress /\ Ending
-----------------------------------------------------------------------------
\* The items are numbered from 1.
LEMMA ItemsAreCounted == \E n \in Nat : DOMAIN Items = 1 .. n
  BY ItemAssumption

\* Each of them belongs to one of the two sides.
LEMMA SidesOfItems == \A j \in DOMAIN Items : Items[j].side \in {"positive", "negative"}
  <1> DEFINE Item == [side : {"positive", "negative"}, usb : {"3.0", "2.0", "other"},
                      id : {Items[j].id : j \in DOMAIN Items}]
  <1>1. Items \in Seq(Item)
    BY ItemAssumption
  <1>2. \A i \in Item : i.side \in {"positive", "negative"}
    OBVIOUS
  <1> HIDE DEF Item
  <1>3. \A j \in DOMAIN Items : Items[j] \in Item
    BY <1>1
  <1> QED
    BY <1>2, <1>3

\* A command has a thread, which is a worker.
LEMMA CommandsAreWorkers ==
  ASSUME Shape
  PROVE  /\ Len(script) \in Nat /\ DOMAIN script = 1 .. Len(script)
         /\ DOMAIN script \subseteq Worker
  <1>1. /\ script \in Seq({"typec", "storage", "stop"})
        /\ DOMAIN script \subseteq Thread
    BY ScenarioAssumption DEF Shape, script
  <1>2. Len(script) \in Nat /\ DOMAIN script = 1 .. Len(script)
    BY <1>1
  <1>3. 0 \notin DOMAIN script
    BY <1>2
  <1> QED
    BY <1>1, <1>2, <1>3 DEF Worker

\* The invariant of the initial states.
LEMMA InitIsGood == Init => IInv
  <1> SUFFICES ASSUME Init PROVE IInv
    OBVIOUS
  <1>1. scenario \in Scenario /\ script \in Seq({"typec", "storage", "stop"})
    BY ScenarioAssumption DEF Init, script
  <1>2. Shape
    <2>1. at \in [Thread -> TestStates \cup {"pop", "show", "scan"}]
      BY DEF Init, TestStates
    <2>2. \A k \in Worker : verdicts[k] \in [DOMAIN Items -> {"none", "OK", "NG"}]
      BY DEF Init, Worker
    <2> QED
      BY <1>1, <2>1, <2>2 DEF Init, Shape, Worker, script
  <1>3. Commands
    <2>1. at[0] = "pop" /\ stopped = {} /\ \A k \in Worker : at[k] = "none"
      BY ScenarioAssumption DEF Init, Worker
    <2>2. \A k \in cmd + 1 .. Len(script) : k \in Worker
      BY <1>2, CommandsAreWorkers DEF Init
    <2> QED
      BY <2>1, <2>2 DEF Commands
  <1>4. Progress
    <2>1. \A k \in Worker : at[k] = "none" /\ togo[k] = 2 /\ allTestValue[k]
      BY DEF Init, Worker
    <2>2. \A k \in Worker : \A j \in DOMAIN Items : verdicts[k][j] = "none"
      BY DEF Init, Worker
    <2>3. \A k \in Worker : \A j \in DOMAIN Items : Ahead(k, j)
      BY <2>1, SidesOfItems DEF Ahead
    <2> QED
      BY <2>1, <2>2, <2>3 DEF Progress, ProgressOf
  <1>5. Ending
    BY DEF Init, Ending, EndingOf, Answered, Worker
  <1> QED
    BY <1>2, <1>3, <1>4, <1>5 DEF IInv
-----------------------------------------------------------------------------
\* A test that a step leaves alone, but for a stop.
LEMMA TestUntouched ==
  ASSUME IInv, NEW k \in Worker,
         at'[k] = at[k], item'[k] = item[k], verdicts'[k] = verdicts[k],
         togo'[k] = togo[k], late'[k] = late[k], allTestValue'[k] = allTestValue[k],
         UNCHANGED scenario, stopped \subseteq stopped',
         TypeC(k) /\ Answered(k)' => Answered(k) /\ answer'[k] = answer[k]
  PROVE  ProgressOf(k)' /\ EndingOf(k)'
  <1>1. \A j \in DOMAIN Items : Ahead(k, j)' <=> Ahead(k, j)
    BY DEF Ahead
  <1>2. ProgressOf(k)'
    BY <1>1 DEF IInv, Progress, ProgressOf
  <1>3. EndingOf(k)'
    BY DEF IInv, Ending, EndingOf, TypeC, script
  <1> QED
    BY <1>2, <1>3

\* A step that leaves all of them alone.
LEMMA TestsUntouched ==
  ASSUME IInv,
         \A k \in Worker : at'[k] = at[k] /\ item'[k] = item[k] /\ verdicts'[k] = verdicts[k],
         UNCHANGED <<scenario, togo, late, allTestValue>>, stopped \subseteq stopped',
         \A k \in Worker : TypeC(k) /\ Answered(k)' => Answered(k) /\ answer'[k] = answer[k]
  PROVE  Progress' /\ Ending'
  <1> SUFFICES ASSUME NEW k \in Worker PROVE ProgressOf(k)' /\ EndingOf(k)'
    BY DEF Progress, Ending, Worker
  <1> QED
    BY TestUntouched

\* A step that changes none of the variables the invariant speaks of.
LEMMA QuietStep ==
  ASSUME IInv,
         UNCHANGED <<scenario, cmd, at, item, verdicts, togo, late, allTestValue, stopped, answer>>
  PROVE  IInv'
  <1>1. Progress' /\ Ending'
    BY TestsUntouched DEF Answered, script
  <1>2. Shape' /\ Commands'
    BY DEF IInv, Shape, Commands, script
  <1> QED
    BY <1>1, <1>2 DEF IInv

\* A step of test k, once shown what it does to that test.
LEMMA TestMoves ==
  ASSUME IInv, NEW k \in Worker,
         NEW from \in TestStates \ {"none"}, NEW to \in TestStates \ {"none"}, Go(k, from, to)
  PROVE  /\ at'[k] = to /\ at[k] = from /\ \A m \in Worker \ {k} : at'[m] = at[m]
         /\ at' \in [Thread -> TestStates \cup {"pop", "show", "scan"}]
         /\ UNCHANGED <<scenario, cmd, stopped>> => Commands'
  <1>1. at[k] = from /\ at' = [at EXCEPT ![k] = to] /\ k \in Thread /\ k # 0
    BY DEF Go, Worker
  <1>2. at \in [Thread -> TestStates \cup {"pop", "show", "scan"}]
    BY DEF IInv, Shape
  <1>3. at'[k] = to /\ at[k] = from /\ \A m \in Thread \ {k} : at'[m] = at[m]
    BY <1>1, <1>2
  <1>4. at' \in [Thread -> TestStates \cup {"pop", "show", "scan"}]
    BY <1>1, <1>2
  <1>5. ASSUME UNCHANGED <<scenario, cmd, stopped>> PROVE Commands'
    <2>1. \A m \in cmd + 1 .. Len(script) : m \in Thread \ {k}
      BY <1>1, CommandsAreWorkers DEF IInv, Commands, Shape, Worker
    <2>2. 0 \in Thread \ {k} /\ at'[0] = at[0]
      BY <1>1, <1>3, ScenarioAssumption
    <2>3. at[0] = "show" => cmd \in Thread \ {k} /\ at[cmd] = "none" /\ script[cmd] = "typec"
      BY <1>3, CommandsAreWorkers DEF IInv, Commands, Shape, Worker
    <2>4. \A m \in stopped : at'[m] # "none"
      BY <1>3 DEF IInv, Commands, Shape, Worker
    <2> QED
      BY <1>3, <1>5, <2>1, <2>2, <2>3, <2>4 DEF IInv, Commands, script
  <1> QED
    BY <1>3, <1>4, <1>5 DEF Worker

\* A step of test k keeps the invariant if it is so for that test.
LEMMA OneTest ==
  ASSUME IInv, NEW k \in Worker, Shape', Commands', ProgressOf(k)', EndingOf(k)',
         UNCHANGED <<scenario, stopped>>,
         \A m \in Worker \ {k} :
           /\ at'[m] = at[m] /\ item'[m] = item[m] /\ verdicts'[m] = verdicts[m]
           /\ togo'[m] = togo[m] /\ late'[m] = late[m] /\ allTestValue'[m] = allTestValue[m]
           /\ TypeC(m) => answer'[m] = answer[m]
  PROVE  IInv'
  <1> SUFFICES ASSUME NEW m \in Worker \ {k} PROVE ProgressOf(m)' /\ EndingOf(m)'
    BY DEF IInv, Progress, Ending, Worker
  <1> QED
    BY TestUntouched DEF Answered, script

\* A test goes on to a state that is not an end, or begins to judge.
LEMMA TestGoesOn ==
  ASSUME IInv, NEW k \in Worker,
         NEW from \in TestStates \ {"none", "judge", "late", "done"},
         NEW to \in TestStates \ {"none", "late", "done"}, Go(k, from, to),
         to \in {"refresh", "judge"} => togo[k] \in {1, 2},
         to = "judge" => item'[k] = 1,
         item' \in [Thread -> Nat \ {0}], \A m \in Worker \ {k} : item'[m] = item[m],
         UNCHANGED <<scenario, cmd, verdicts, togo, late, allTestValue, stopped, answer>>
  PROVE  IInv'
  <1>1. /\ at'[k] = to /\ at[k] = from /\ \A m \in Worker \ {k} : at'[m] = at[m]
        /\ at' \in [Thread -> TestStates \cup {"pop", "show", "scan"}]
        /\ Commands'
    BY TestMoves
  <1>2. Shape'
    BY <1>1 DEF IInv, Shape, script
  <1>3. ProgressOf(k)'
    <2>1. \A j \in DOMAIN Items : Ahead(k, j)' <=> Ahead(k, j)
      BY <1>1, ItemsAreCounted DEF Ahead
    <2> QED
      BY <1>1, <2>1 DEF IInv, Progress, ProgressOf
  <1>4. EndingOf(k)'
    BY <1>1 DEF IInv, Ending, EndingOf, TypeC, Answered, script
  <1> QED
    BY <1>1, <1>2, <1>3, <1>4, OneTest
-----------------------------------------------------------------------------
\* The steps of the command thread.
LEMMA BeginTypeCIsGood == IInv /\ BeginTypeC => IInv'
  <1> SUFFICES ASSUME IInv, BeginTypeC PROVE IInv'
    OBVIOUS
  <1>1. /\ at[0] = "pop" /\ at' = [at EXCEPT ![0] = "show"]
        /\ cmd < Len(script) /\ script[cmd + 1] = "typec" /\ cmd' = cmd + 1
        /\ UNCHANGED <<scenario, item, verdicts, togo, late, allTestValue, stopped, answer>>
    BY DEF BeginTypeC, Go, Command, testVars
  <1>2. cmd \in Nat /\ Len(script) \in Nat /\ DOMAIN script \subseteq Worker
    BY CommandsAreWorkers DEF IInv, Shape
  <1>3. Shape'
    <2>1. at' \in [Thread -> TestStates \cup {"pop", "show", "scan"}]
      BY <1>1 DEF IInv, Shape
    <2> QED
      BY <1>1, <1>2, <2>1 DEF IInv, Shape, script
  <1>4. Commands'
    <2>1. at'[0] = "show" /\ \A k \in Worker : at'[k] = at[k]
      BY <1>1, ScenarioAssumption DEF IInv, Shape, Worker
    <2>2. cmd' # 0 /\ cmd' \in Worker /\ at[cmd'] = "none"
      BY <1>1, <1>2, CommandsAreWorkers DEF IInv, Commands
    <2>3. \A k \in cmd' + 1 .. Len(script) : k \in Worker /\ at[k] = "none"
      BY <1>1, <1>2, CommandsAreWorkers DEF IInv, Commands
    <2> QED
      BY <1>1, <2>1, <2>2, <2>3 DEF IInv, Shape, Commands, script
  <1>5. Progress' /\ Ending'
    <2>1. \A k \in Worker : at'[k] = at[k]
      BY <1>1 DEF IInv, Shape, Worker
    <2> QED
      BY <1>1, <2>1, TestsUntouched DEF Answered, script
  <1> QED
    BY <1>3, <1>4, <1>5 DEF IInv

\* The test whose dialog is shown is handed to the pool.
LEMMA SubmitIsGood == IInv /\ Submit => IInv'
  <1> SUFFICES ASSUME IInv, Submit PROVE IInv'
    OBVIOUS
  <1>1. /\ at[0] = "show" /\ at' = [at EXCEPT ![0] = "pop", ![cmd] = "queued"]
        /\ UNCHANGED <<scenario, cmd, item, verdicts, togo, late, allTestValue, stopped, answer>>
    BY DEF Submit, handlerVars, testVars
  <1>2. cmd \in 1 .. Len(script) /\ cmd \in Worker /\ at[cmd] = "none"
    BY <1>1, CommandsAreWorkers DEF IInv, Shape, Commands
  <1>3. /\ at'[0] = "pop" /\ at'[cmd] = "queued"
        /\ \A k \in Worker \ {cmd} : at'[k] = at[k]
    BY <1>1, <1>2, ScenarioAssumption DEF IInv, Shape, Worker
  <1>4. Shape'
    BY <1>1, <1>2 DEF IInv, Shape, script, TestStates
  <1>5. Commands'
    <2>1. \A k \in cmd + 1 .. Len(script) : k \in Worker \ {cmd} /\ at[k] = "none"
      BY <1>2, CommandsAreWorkers DEF IInv, Commands
    <2> QED
      BY <1>1, <1>2, <1>3, <2>1 DEF IInv, Shape, Commands, script
  <1>6. Progress'
    <2> SUFFICES ASSUME NEW k \in Worker PROVE ProgressOf(k)'
      BY DEF Progress, Worker
    <2>1. at'[k] = "refresh" <=> at[k] = "refresh"
      BY <1>2, <1>3
    <2>2. at'[k] = "judge" <=> at[k] = "judge"
      BY <1>2, <1>3
    <2>3. \A j \in DOMAIN Items : Ahead(k, j)' <=> Ahead(k, j)
      BY <1>1, <2>2 DEF Ahead
    <2> QED
      BY <1>1, <2>1, <2>2, <2>3 DEF IInv, Progress, ProgressOf
  <1>7. Ending'
    BY <1>1, <1>2, <1>3 DEF IInv, Ending, EndingOf, TypeC, Answered, script
  <1> QED
    BY <1>4, <1>5, <1>6, <1>7 DEF IInv

\* A stop reaches the tests that were submitted, and them only.
LEMMA StopTestsIsGood == IInv /\ StopTests => IInv'
  <1> SUFFICES ASSUME IInv, StopTests PROVE IInv'
    OBVIOUS
  <1>1. /\ at[0] = "pop" /\ stopped' = {k \in Worker : at[k] # "none"}
        /\ cmd < Len(script) /\ script[cmd + 1] = "stop" /\ cmd' = cmd + 1
        /\ answer' = [answer EXCEPT ![cmd'] = [result |-> "true"]]
        /\ UNCHANGED <<scenario, at, item, verdicts, togo, late, allTestValue>>
    BY DEF StopTests, Command, testVars
  <1>2. cmd \in Nat /\ Len(script) \in Nat /\ DOMAIN script = 1 .. Len(script)
    BY CommandsAreWorkers DEF IInv, Shape
  <1>3. Shape'
    BY <1>1, <1>2 DEF IInv, Shape, script
  <1>4. Commands'
    <2>1. \A k \in cmd' + 1 .. Len(script) : at[k] = "none"
      BY <1>1, <1>2 DEF IInv, Commands
    <2> QED
      BY <1>1, <2>1 DEF IInv, Commands, script
  <1>5. Progress' /\ Ending'
    <2>1. stopped \subseteq stopped'
      BY <1>1 DEF IInv, Shape, Commands
    <2>2. \A k \in Worker : TypeC(k) /\ Answered(k)' => Answered(k) /\ answer'[k] = answer[k]
      BY <1>1 DEF TypeC, Answered, script, IInv, Shape
    <2> QED
      BY <1>1, <2>1, <2>2, TestsUntouched
  <1> QED
    BY <1>3, <1>4, <1>5 DEF IInv

\* A step of the command thread to another place of a storage test.
LEMMA StorageGoesOn ==
  ASSUME IInv, NEW from, NEW to, Go(0, from, to),
         from \in {"scan", "refresh", "judge"}, to \in {"refresh", "judge", "pop"},
         item' \in [Thread -> Nat \ {0}], \A k \in Worker : item'[k] = item[k],
         DOMAIN answer' = DOMAIN answer,
         \A k \in Worker : TypeC(k) /\ Answered(k)' => Answered(k) /\ answer'[k] = answer[k],
         UNCHANGED <<scenario, cmd, verdicts, togo, late, allTestValue, stopped>>
  PROVE  IInv'
  <1>1. /\ at[0] = from /\ at'[0] = to /\ \A k \in Worker : at'[k] = at[k]
        /\ at' \in [Thread -> TestStates \cup {"pop", "show", "scan"}]
    BY ScenarioAssumption DEF IInv, Shape, Go, Worker, TestStates
  <1>2. Shape'
    BY <1>1 DEF IInv, Shape, script
  <1>3. Commands'
    <2>1. \A k \in cmd + 1 .. Len(script) : k \in Worker
      BY CommandsAreWorkers DEF IInv, Shape
    <2> QED
      BY <1>1, <2>1 DEF IInv, Shape, Commands, script
  <1>4. Progress' /\ Ending'
    BY <1>1, TestsUntouched
  <1> QED
    BY <1>2, <1>3, <1>4 DEF IInv

\* A storage test begins after the command before it.
LEMMA BeginStorageIsGood == IInv /\ BeginStorage => IInv'
  <1> SUFFICES ASSUME IInv, BeginStorage PROVE IInv'
    OBVIOUS
  <1>1. /\ at[0] = "pop" /\ at' = [at EXCEPT ![0] = "scan"]
        /\ cmd < Len(script) /\ script[cmd + 1] = "storage" /\ cmd' = cmd + 1
        /\ verdicts' = [verdicts EXCEPT ![0] = [j \in DOMAIN Store |-> "none"]]
        /\ UNCHANGED <<scenario, item, togo, late, allTestValue, stopped, answer>>
    BY DEF BeginStorage, Go, Command, testVars
  <1>2. /\ cmd \in Nat /\ Len(script) \in Nat /\ DOMAIN script = 1 .. Len(script)
        /\ DOMAIN script \subseteq Worker
    BY CommandsAreWorkers DEF IInv, Shape
  <1>3. /\ at'[0] = "scan" /\ \A k \in Worker : at'[k] = at[k] /\ verdicts'[k] = verdicts[k]
        /\ at' \in [Thread -> TestStates \cup {"pop", "show", "scan"}]
        /\ DOMAIN verdicts' = Thread
    BY <1>1, ScenarioAssumption DEF IInv, Shape, Worker
  <1>4. Shape'
    BY <1>1, <1>2, <1>3 DEF IInv, Shape, script
  <1>5. Commands'
    <2>1. \A k \in cmd' + 1 .. Len(script) : k \in Worker /\ at[k] = "none"
      BY <1>1, <1>2 DEF IInv, Commands
    <2> QED
      BY <1>1, <1>2, <1>3, <2>1 DEF IInv, Shape, Commands, script
  <1>6. Progress' /\ Ending'
    BY <1>1, <1>3, TestsUntouched DEF Answered, script
  <1> QED
    BY <1>4, <1>5, <1>6 DEF IInv

\* Its scan leaves the tests alone.
LEMMA ScanIsGood == IInv /\ Scan => IInv'
  <1> SUFFICES ASSUME IInv, Scan PROVE IInv'
    OBVIOUS
  <1>1. /\ UNCHANGED at \/ Go(0, "scan", "refresh")
        /\ UNCHANGED <<scenario, cmd, item, verdicts, togo, late, allTestValue, stopped, answer>>
    BY DEF Scan, handlerVars, testVars
  <1>2. CASE UNCHANGED at
    BY <1>1, <1>2, QuietStep
  <1>3. CASE Go(0, "scan", "refresh")
    BY <1>1, <1>3, StorageGoesOn DEF IInv, Shape, Answered, script
  <1> QED
    BY <1>1, <1>2, <1>3

\* So do its verdicts.
LEMMA JudgeStoreIsGood == IInv /\ JudgeStore => IInv'
  <1> SUFFICES ASSUME IInv, JudgeStore PROVE IInv'
    OBVIOUS
  <1>1. /\ verdicts' = verdicts \/ \E v : verdicts' = [verdicts EXCEPT ![0][item[0]] = v]
        /\ item' = [item EXCEPT ![0] = @ + 1]
        /\ UNCHANGED <<scenario, cmd, at, togo, late, allTestValue, stopped, answer>>
    BY DEF JudgeStore, testVars
  <1>2. /\ DOMAIN verdicts' = Thread /\ item' \in [Thread -> Nat \ {0}]
        /\ \A k \in Worker : verdicts'[k] = verdicts[k] /\ item'[k] = item[k]
    BY <1>1, ScenarioAssumption DEF IInv, Shape, Worker
  <1>3. Shape' /\ Commands'
    BY <1>1, <1>2 DEF IInv, Shape, Commands, script
  <1>4. Progress' /\ Ending'
    BY <1>1, <1>2, TestsUntouched DEF Answered, script
  <1> QED
    BY <1>3, <1>4 DEF IInv

\* Its response is none of theirs.
LEMMA SendStorageIsGood == IInv /\ SendStorage => IInv'
  <1> SUFFICES ASSUME IInv, SendStorage PROVE IInv'
    OBVIOUS
  <1>1. /\ Go(0, "judge", "pop") /\ at[0] = "judge"
        /\ \E a : answer' = [answer EXCEPT ![cmd] = a]
        /\ UNCHANGED <<scenario, cmd, item, verdicts, togo, late, allTestValue, stopped>>
    BY DEF SendStorage, Go, handlerVars, testVars
  <1>2. script[cmd] = "storage"
    BY <1>1 DEF IInv, Commands
  <1>3. \A k \in Worker : TypeC(k) /\ Answered(k)' => Answered(k) /\ answer'[k] = answer[k]
    BY <1>1, <1>2 DEF TypeC, Answered, script, IInv, Shape
  <1>4. DOMAIN answer' = DOMAIN answer /\ item' \in [Thread -> Nat \ {0}]
    BY <1>1 DEF IInv, Shape
  <1> QED
    BY <1>1, <1>3, <1>4, StorageGoesOn

\* After the refresh it judges.
LEMMA RefreshedIsGood == IInv /\ Refreshed(0) => IInv'
  <1> SUFFICES ASSUME IInv, Refreshed(0) PROVE IInv'
    OBVIOUS
  <1>1. /\ Go(0, "refresh", "judge") \/ Go(0, "first", "loop")
        /\ item' = [item EXCEPT ![0] = 1]
        /\ UNCHANGED <<scenario, cmd, verdicts, togo, late, allTestValue, stopped, answer>>
    BY DEF Refreshed, handlerVars, testVars
  <1>2. Go(0, "refresh", "judge")
    BY <1>1 DEF Go, IInv, Commands
  <1>3. item' \in [Thread -> Nat \ {0}] /\ \A k \in Worker : item'[k] = item[k]
    BY <1>1, ScenarioAssumption DEF IInv, Shape, Worker
  <1> QED
    BY <1>1, <1>2, <1>3, StorageGoesOn DEF Answered, script
-----------------------------------------------------------------------------
\* The steps of a test.
LEMMA MeetsIsBoolean == \A t \in Thread : \A id : Meets(t, id) \subseteq BOOLEAN
  BY DEF Meets

\* The steps between two turns, and the refresh before a side is judged.
LEMMA GoingOnIsGood ==
  ASSUME IInv, NEW k \in Worker,
         Start(k) \/ Turn(k) \/ DialogDone(k) \/ CountDown(k) \/ Refreshed(k)
  PROVE  IInv'
  <1>1. UNCHANGED <<scenario, cmd, verdicts, togo, late, allTestValue, stopped, answer>>
    BY DEF Start, Turn, DialogDone, CountDown, Refreshed, handlerVars, testVars
  <1>2. item \in [Thread -> Nat \ {0}] /\ k \in Thread /\ togo[k] \in 0 .. 2
    BY DEF IInv, Shape, Worker
  <1>3. CASE Start(k)
    BY <1>1, <1>2, <1>3, TestGoesOn DEF Start, TestStates
  <1>4. CASE Turn(k)
    <2> DEFINE to == IF Inserted(k, port) THEN "refresh" ELSE "turn"
    <2>1. Go(k, "loop", to) /\ togo[k] \in {1, 2} /\ item' = item
      BY <1>2, <1>4 DEF Turn
    <2>2. to \in TestStates \ {"none", "late", "done"} /\ to # "judge"
      BY DEF TestStates
    <2> HIDE DEF to
    <2> QED
      BY <1>1, <1>2, <2>1, <2>2, TestGoesOn DEF TestStates
  <1>5. CASE DialogDone(k)
    BY <1>1, <1>2, <1>5, TestGoesOn DEF DialogDone, TestStates
  <1>6. CASE CountDown(k)
    BY <1>1, <1>2, <1>6, TestGoesOn DEF CountDown, TestStates
  <1>7. CASE Refreshed(k)
    <2>1. item' \in [Thread -> Nat \ {0}] /\ item'[k] = 1
          /\ \A m \in Worker \ {k} : item'[m] = item[m]
      BY <1>2, <1>7 DEF Refreshed, Worker
    <2>2. CASE Go(k, "refresh", "judge")
      <3>1. togo[k] \in {1, 2}
        BY <2>2 DEF Go, IInv, Progress, ProgressOf
      <3> QED
        BY <1>1, <2>1, <2>2, <3>1, TestGoesOn DEF TestStates
    <2>3. CASE Go(k, "first", "loop")
      BY <1>1, <2>1, <2>3, TestGoesOn DEF TestStates
    <2> QED
      BY <1>7, <2>2, <2>3 DEF Refreshed
  <1> QED
    BY <1>3, <1>4, <1>5, <1>6, <1>7

\* The item that is judged was ahead and without a verdict, and is so no more.
LEMMA JudgeItemIsGood == \A k \in Worker : IInv /\ JudgeItem(k) => IInv'
  <1> SUFFICES ASSUME NEW k \in Worker, IInv, JudgeItem(k) PROVE IInv'
    OBVIOUS
  <1>1. PICK i \in DOMAIN Items : i = item[k]
    BY DEF JudgeItem
  <1> DEFINE judges == Items[i].side = Side(k) /\ Tested(Items[i])
  <1>2. /\ at[k] = "judge" /\ k \in Thread
        /\ item' = [item EXCEPT ![k] = i + 1]
        /\ UNCHANGED <<scenario, cmd, at, togo, late, stopped, answer>>
    BY <1>1 DEF JudgeItem, Worker, handlerVars
  <1>3. /\ ~judges => UNCHANGED <<verdicts, allTestValue>>
        /\ judges => \E found \in BOOLEAN :
             /\ verdicts' = [verdicts EXCEPT ![k][i] = IF found THEN "OK" ELSE "NG"]
             /\ allTestValue' = [allTestValue EXCEPT ![k] = @ /\ found]
    <2>1. CASE ~judges
      BY <1>1, <2>1 DEF JudgeItem
    <2>2. CASE judges
      <3>1. PICK found \in Meets(k, Items[i].id) :
              /\ verdicts' = [verdicts EXCEPT ![k][i] = IF found THEN "OK" ELSE "NG"]
              /\ allTestValue' = [allTestValue EXCEPT ![k] = @ /\ found]
        BY <1>1, <2>2 DEF JudgeItem
      <3>2. found \in BOOLEAN
        BY <1>2, <3>1, MeetsIsBoolean
      <3> QED
        BY <2>2, <3>1, <3>2
    <2> QED
      BY <2>1, <2>2
  <1>4. /\ i \in Nat \ {0} /\ item \in [Thread -> Nat \ {0}] /\ DOMAIN verdicts = Thread
        /\ \A m \in Worker : verdicts[m] \in [DOMAIN Items -> {"none", "OK", "NG"}]
        /\ allTestValue \in [Worker -> BOOLEAN]
    BY <1>1, <1>2 DEF IInv, Shape
  <1>5. togo[k] \in {1, 2} /\ ~late[k] /\ ProgressOf(k) /\ EndingOf(k)
    BY <1>2 DEF IInv, Progress, ProgressOf, Ending, EndingOf
  <1>6. Shape' /\ Commands'
    <2>1. item' \in [Thread -> Nat \ {0}]
      BY <1>2, <1>4
    <2>2. DOMAIN verdicts' = Thread /\ allTestValue' \in [Worker -> BOOLEAN]
      BY <1>3, <1>4
    <2>3. \A m \in Worker : verdicts'[m] \in [DOMAIN Items -> {"none", "OK", "NG"}]
      <3>1. CASE ~judges
        BY <1>3, <1>4, <3>1
      <3>2. CASE judges
        <4>1. PICK v \in {"OK", "NG"} : verdicts' = [verdicts EXCEPT ![k][i] = v]
          BY <1>3, <3>2
        <4> QED
          BY <1>1, <1>2, <1>4, <4>1 DEF Worker
      <3> QED
        BY <3>1, <3>2
    <2> QED
      BY <1>2, <2>1, <2>2, <2>3 DEF IInv, Shape, Commands, script
  <1>7. item'[k] = i + 1 /\ \A m \in Worker \ {k} : item'[m] = item[m]
    BY <1>2, <1>4
  <1>8. \A m \in Worker \ {k} : verdicts'[m] = verdicts[m] /\ allTestValue'[m] = allTestValue[m]
    <2>1. \A m \in Worker \ {k} : verdicts'[m] = verdicts[m]
      BY <1>2, <1>3, <1>4 DEF Worker
    <2>2. \A m \in Worker \ {k} : allTestValue'[m] = allTestValue[m]
      BY <1>3, <1>4
    <2> QED
      BY <2>1, <2>2
  <1>9. EndingOf(k)'
    BY <1>2, <1>5 DEF EndingOf, TypeC, Answered, script
  <1>10. ProgressOf(k)'
    <2>1. \A j \in DOMAIN Items \ {i} : Ahead(k, j)' <=> Ahead(k, j)
      BY <1>1, <1>2, <1>4, <1>7, ItemsAreCounted DEF Ahead
    <2>2. CASE ~judges
      <3>1. Tested(Items[i]) => (Ahead(k, i)' <=> Ahead(k, i))
        BY <1>1, <1>2, <1>4, <1>5, <1>7, <2>2, SidesOfItems DEF Ahead, Side
      <3>2. Ahead(k, i)' => Ahead(k, i)
        BY <1>1, <1>2, <1>4, <1>7 DEF Ahead
      <3> QED
        BY <1>2, <1>3, <1>5, <2>1, <2>2, <3>1, <3>2 DEF ProgressOf
    <2>3. CASE judges
      <3>1. Ahead(k, i) /\ ~Ahead(k, i)'
        BY <1>1, <1>2, <1>4, <1>5, <1>7, <2>3, SidesOfItems DEF Ahead, Side
      <3>2. PICK found \in BOOLEAN :
              /\ verdicts' = [verdicts EXCEPT ![k][i] = IF found THEN "OK" ELSE "NG"]
              /\ allTestValue' = [allTestValue EXCEPT ![k] = @ /\ found]
        BY <1>3, <2>3
      <3>3. allTestValue'[k] <=> allTestValue[k] /\ found
        BY <1>4, <3>2
      <3>4. /\ verdicts'[k][i] = IF found THEN "OK" ELSE "NG"
            /\ \A j \in DOMAIN Items \ {i} : verdicts'[k][j] = verdicts[k][j]
        BY <1>1, <1>2, <1>4, <3>2
      <3>5. verdicts[k][i] = "none"
        BY <1>2, <1>5, <3>1 DEF ProgressOf
      <3>6. allTestValue'[k] <=> \A j \in DOMAIN Items : verdicts'[k][j] # "NG"
        BY <1>2, <1>5, <3>3, <3>4, <3>5 DEF ProgressOf
      <3>7. \A j \in DOMAIN Items :
              /\ Ahead(k, j)' => verdicts'[k][j] = "none"
              /\ ~Ahead(k, j)' /\ Tested(Items[j]) => verdicts'[k][j] \in {"OK", "NG"}
        BY <1>5, <2>1, <3>1, <3>4 DEF ProgressOf
      <3> QED
        BY <1>2, <1>5, <3>6, <3>7 DEF ProgressOf
    <2> QED
      BY <2>2, <2>3
  <1> QED
    BY <1>2, <1>6, <1>7, <1>8, <1>9, <1>10, OneTest

\* When no item of a side is ahead, the other side is next, or nothing.
LEMMA SideTestedIsGood == \A k \in Worker : IInv /\ SideTested(k) => IInv'
  <1> SUFFICES ASSUME NEW k \in Worker, IInv, SideTested(k),
                      NEW to \in {"update", "close"}, Go(k, "judge", to)
               PROVE  IInv'
    BY DEF SideTested
  <1>1. /\ item[k] \notin DOMAIN Items /\ togo[k] \in {1, 2}
        /\ togo' = [togo EXCEPT ![k] = @ - 1]
        /\ UNCHANGED <<scenario, cmd, item, verdicts, late, allTestValue, stopped, answer>>
    BY DEF SideTested, handlerVars
  <1>2. /\ at'[k] = to /\ at[k] = "judge" /\ \A m \in Worker \ {k} : at'[m] = at[m]
        /\ at' \in [Thread -> TestStates \cup {"pop", "show", "scan"}]
        /\ Commands'
    BY <1>1, TestMoves DEF TestStates
  <1>3. /\ togo' \in [Worker -> 0 .. 2] /\ togo'[k] = togo[k] - 1
        /\ \A m \in Worker \ {k} : togo'[m] = togo[m]
        /\ item[k] \in Nat \ {0}
    BY <1>1 DEF IInv, Shape, Worker
  <1>4. Shape'
    BY <1>1, <1>2, <1>3 DEF IInv, Shape, script
  <1>5. ProgressOf(k)'
    <2>1. \A j \in DOMAIN Items : j < item[k]
      BY <1>1, <1>3, ItemsAreCounted
    <2>2. \A j \in DOMAIN Items : ~(j >= item[k])
      BY <1>3, <2>1, ItemsAreCounted
    <2>3. \A j \in DOMAIN Items : Ahead(k, j)' <=> Ahead(k, j)
      BY <1>1, <1>2, <1>3, <2>2, SidesOfItems DEF Ahead
    <2> QED
      BY <1>1, <1>2, <2>3 DEF IInv, Progress, ProgressOf
  <1>6. EndingOf(k)'
    BY <1>1, <1>2 DEF IInv, Ending, EndingOf, TypeC, Answered, script
  <1> QED
    BY <1>1, <1>2, <1>3, <1>4, <1>5, <1>6, OneTest

\* A test that gives up is late.
LEMMA GiveUpIsGood == \A k \in Worker : IInv /\ GiveUp(k) => IInv'
  <1> SUFFICES ASSUME NEW k \in Worker, IInv, GiveUp(k) PROVE IInv'
    OBVIOUS
  <1>1. /\ Go(k, "turn", "late") /\ late' = [late EXCEPT ![k] = TRUE]
        /\ UNCHANGED <<scenario, cmd, item, verdicts, togo, allTestValue, stopped, answer>>
    BY DEF GiveUp, handlerVars
  <1>2. /\ at'[k] = "late" /\ at[k] = "turn" /\ \A m \in Worker \ {k} : at'[m] = at[m]
        /\ at' \in [Thread -> TestStates \cup {"pop", "show", "scan"}]
        /\ Commands'
    BY <1>1, TestMoves DEF TestStates
  <1>3. /\ late' \in [Worker -> BOOLEAN] /\ late'[k]
        /\ \A m \in Worker \ {k} : late'[m] = late[m]
    BY <1>1 DEF IInv, Shape
  <1>4. Shape'
    BY <1>1, <1>2, <1>3 DEF IInv, Shape, script
  <1>5. ProgressOf(k)'
    BY <1>1, <1>2 DEF IInv, Progress, ProgressOf, Ahead
  <1>6. EndingOf(k)'
    BY <1>1, <1>2, <1>3 DEF IInv, Ending, EndingOf, TypeC, Answered, script
  <1> QED
    BY <1>1, <1>2, <1>3, <1>4, <1>5, <1>6, OneTest

\* It answers with what it found, "true" only if it is not late.
LEMMA SendIsGood == \A k \in Worker : IInv /\ Send(k) => IInv'
  <1> SUFFICES ASSUME NEW k \in Worker, IInv, Send(k), NEW from \in {"loop", "late"},
                      Go(k, from, "done")
               PROVE  IInv'
    BY DEF Send
  <1>1. /\ answer' = [answer EXCEPT ![k] = Response(k)]
        /\ UNCHANGED <<scenario, cmd, item, verdicts, togo, late, allTestValue, stopped>>
    BY DEF Send, handlerVars, testVars
  <1>2. /\ at'[k] = "done" /\ at[k] = from /\ \A m \in Worker \ {k} : at'[m] = at[m]
        /\ at' \in [Thread -> TestStates \cup {"pop", "show", "scan"}]
        /\ Commands'
    BY <1>1, TestMoves DEF TestStates
  <1>3. DOMAIN answer = DOMAIN script
    BY DEF IInv, Shape
  <1>4. \A m \in Worker \ {k} : TypeC(m) => answer'[m] = answer[m]
    BY <1>1, <1>3 DEF TypeC
  <1>5. Shape'
    BY <1>1, <1>2, <1>3 DEF IInv, Shape, script
  <1>6. ProgressOf(k)'
    BY <1>1, <1>2 DEF IInv, Progress, ProgressOf, Ahead
  <1>7. EndingOf(k)'
    <2>1. late[k] \in BOOLEAN /\ (from = "late" <=> late[k])
      BY <1>2 DEF IInv, Shape, Ending, EndingOf
    <2>2. ~late[k] /\ k \notin stopped => togo[k] = 0
      BY <1>2, <2>1 DEF Send, Go
    <2>3. TypeC(k) => answer'[k] = Response(k)
      BY <1>1, <1>3 DEF TypeC
    <2>4. /\ Response(k).result = "true" <=> ~late[k]
          /\ ~late[k] => Response(k).items = verdicts[k]
          /\ (Response(k).verdict = "OK") <=> allTestValue[k]
      BY <2>1 DEF Response
    <2> QED
      BY <1>1, <1>2, <2>1, <2>2, <2>3, <2>4 DEF EndingOf, TypeC, script
  <1> QED
    BY <1>1, <1>2, <1>4, <1>5, <1>6, <1>7, OneTest
-----------------------------------------------------------------------------
\* Every step keeps the invariant.
LEMMA StepIsGood == IInv /\ [Next]_vars => IInv'
  <1> SUFFICES ASSUME IInv, [Next]_vars PROVE IInv'
    OBVIOUS
  <1>1. ASSUME UNCHANGED <<handlerVars, at, item, verdicts, testVars, answer>> PROVE IInv'
    BY <1>1, QuietStep DEF handlerVars, testVars
  <1>2. CASE Move \/ CloseDialog \/ UNCHANGED vars
    BY <1>1, <1>2 DEF Move, CloseDialog, vars
  <1>3. CASE \E t \in Thread : InDialog(t) \/ InRefresh(t)
    BY <1>1, <1>3 DEF InDialog, InRefresh
  <1>4. CASE HandlerStep
    <2>1. 0 \in Thread
      BY ScenarioAssumption
    <2> QED
      BY <1>3, <1>4, <2>1, RefreshedIsGood, BeginTypeCIsGood, SubmitIsGood, StopTestsIsGood,
         BeginStorageIsGood, ScanIsGood, JudgeStoreIsGood, SendStorageIsGood DEF HandlerStep
  <1>5. ASSUME NEW k \in Worker, TestStep(k) PROVE IInv'
    <2>1. k \in Thread
      BY DEF Worker
    <2> QED
      BY <1>3, <1>5, <2>1, GoingOnIsGood, JudgeItemIsGood, SideTestedIsGood, GiveUpIsGood,
         SendIsGood DEF TestStep
  <1> QED
    BY <1>2, <1>4, <1>5 DEF Next

\* What the invariant is for.
LEMMA GoodMeansJudged == IInv => TrueMeansJudged
  <1> SUFFICES ASSUME IInv, NEW k \in Worker \ stopped, TypeC(k), Answered(k),
                      answer[k].result = "true"
               PROVE  /\ DOMAIN answer[k].items = DOMAIN Items
                      /\ \A j \in DOMAIN Items :
                           Tested(Items[j]) => answer[k].items[j] \in {"OK", "NG"}
                      /\ (answer[k].verdict = "OK") <=>
                           \A j \in DOMAIN Items : answer[k].items[j] # "NG"
    BY DEF TrueMeansJudged
  <1>1. /\ togo[k] = 0 /\ answer[k].items = verdicts[k]
        /\ (answer[k].verdict = "OK") <=> allTestValue[k]
    BY DEF IInv, Ending, EndingOf
  <1>2. verdicts[k] \in [DOMAIN Items -> {"none", "OK", "NG"}] /\ ProgressOf(k)
    BY DEF IInv, Shape, Progress
  <1>3. \A j \in DOMAIN Items : ~Ahead(k, j)
    BY <1>1 DEF Ahead
  <1> QED
    BY <1>1, <1>2, <1>3 DEF ProgressOf

\* A type-C test that was not stopped answers "true" only after every item of
\* both sides has been judged, with the verdict its items give, for any items,
\* any bus, any commands and any number of tests at the same time.
THEOREM TrueAnswersAreJudged == Spec => []TrueMeansJudged
  <1>1. Spec => []IInv
    BY InitIsGood, StepIsGood, PTL DEF Spec
  <1> QED
    BY <1>1, GoodMeansJudged, PTL
-----------------------------------------------------------------------------
(***************************************************************************)
(* The dialog.  Every thread works off a list of calls, its todo, made of  *)
(* the pieces of close(), show() and update() (DialogShape), and which     *)
(* dialogs are open is told by what is left on the list of the one thread  *)
(* that is inside (DialogInv, Stage): unless two threads meet there, each  *)
(* fork follows a close that has removed what was open before.  DInv also  *)
(* says where the handler and the tests are when they call (Places), and   *)
(* that nobody opens it again after the last test has closed it (Gone).    *)
(***************************************************************************)
\* The calls of the dialog that change something.
Op == {"update", "close", "kill", "wait", "stop", "forget", "fork", "run"}

\* The elements of two lists, one after the other.
LEMMA ConcatAt ==
  ASSUME NEW s \in Seq(Op), NEW t \in Seq(Op)
  PROVE  /\ s \o t \in Seq(Op) /\ Len(s \o t) = Len(s) + Len(t)
         /\ \A i \in 1 .. Len(s) : (s \o t)[i] = s[i]
         /\ \A i \in 1 .. Len(t) : (s \o t)[Len(s) + i] = t[i]
  <1>1. Len(s) \in Nat /\ Len(t) \in Nat
    BY LenProperties
  <1>2. /\ s \o t \in Seq(Op) /\ Len(s \o t) = Len(s) + Len(t)
        /\ \A i \in 1 .. Len(s) + Len(t) :
             (s \o t)[i] = IF i <= Len(s) THEN s[i] ELSE t[i - Len(s)]
    BY ConcatProperties
  <1>3. \A i \in 1 .. Len(s) : (s \o t)[i] = s[i]
    BY <1>1, <1>2
  <1>4. ASSUME NEW i \in 1 .. Len(t) PROVE (s \o t)[Len(s) + i] = t[i]
    <2>1. Len(s) + i \in 1 .. Len(s) + Len(t) /\ ~(Len(s) + i <= Len(s)) /\ Len(s) + i - Len(s) = i
      BY <1>1
    <2> QED
      BY <1>2, <2>1
  <1> QED
    BY <1>2, <1>3, <1>4

\* The steps of show() and update(), one by one.
LEMMA StepsOfClose ==
  /\ Close \in Seq(Op) /\ Len(Close) = 5
  /\ Close[1] = "close" /\ Close[2] = "kill" /\ Close[3] = "wait" /\ Close[4] = "stop"
  /\ Close[5] = "forget"
  BY DEF Close, Op

\* show() closes the dialog before, then makes a process.
LEMMA StepsOfShow ==
  /\ Show \in Seq(Op) /\ Len(Show) = 7
  /\ \A i \in 1 .. 5 : Show[i] = Close[i]
  /\ Show[6] = "fork" /\ Show[7] = "run"
  <1> DEFINE s == <<"fork", "run">>
  <1>1. s \in Seq(Op) /\ Len(s) = 2 /\ s[1] = "fork" /\ s[2] = "run"
    BY DEF Op
  <1>2. Show = Close \o s
    BY DEF Show
  <1>3. Close \in Seq(Op) /\ Len(Close) = 5
    BY StepsOfClose
  <1> HIDE DEF s
  <1>4. /\ Close \o s \in Seq(Op) /\ Len(Close \o s) = Len(Close) + Len(s)
        /\ \A i \in 1 .. Len(Close) : (Close \o s)[i] = Close[i]
        /\ \A i \in 1 .. Len(s) : (Close \o s)[Len(Close) + i] = s[i]
    BY ONLY <1>1, <1>3, ConcatAt
  <1>5. /\ Show \in Seq(Op) /\ Len(Show) = 5 + 2
        /\ \A i \in 1 .. 5 : Show[i] = Close[i]
        /\ \A i \in 1 .. 2 : Show[5 + i] = s[i]
    BY <1>1, <1>2, <1>3, <1>4
  <1> QED
    BY <1>1, <1>5

\* update() looks whether a dialog runs, closes it and shows the new one.
LEMMA StepsOfUpdate ==
  /\ Update \in Seq(Op) /\ Len(Update) = 13 /\ Update[1] = "update"
  /\ \A i \in 1 .. 5 : Update[1 + i] = Close[i]
  /\ \A i \in 1 .. 7 : Update[6 + i] = Show[i]
  <1> DEFINE s == <<"update">>
             r == s \o Close
  <1>1. s \in Seq(Op) /\ Len(s) = 1 /\ s[1] = "update"
    BY DEF Op
  <1>2. Update = r \o Show
    BY DEF Update
  <1>3. Close \in Seq(Op) /\ Len(Close) = 5 /\ Show \in Seq(Op) /\ Len(Show) = 7
    BY StepsOfClose, StepsOfShow
  <1> HIDE DEF s
  <1>4. /\ r \in Seq(Op) /\ Len(r) = Len(s) + Len(Close)
        /\ \A i \in 1 .. Len(s) : r[i] = s[i]
        /\ \A i \in 1 .. Len(Close) : r[Len(s) + i] = Close[i]
    BY ONLY <1>1, <1>3, ConcatAt
  <1>5. /\ Len(r) = 6 /\ r[1] = "update" /\ \A i \in 1 .. 5 : r[1 + i] = Close[i]
    BY <1>1, <1>3, <1>4
  <1> HIDE DEF r
  <1>6. /\ Update \in Seq(Op) /\ Len(Update) = Len(r) + Len(Show)
        /\ \A i \in 1 .. Len(r) : Update[i] = r[i]
        /\ \A i \in 1 .. Len(Show) : Update[Len(r) + i] = Show[i]
    BY <1>2, <1>3, <1>4, ConcatAt
  <1>7. /\ Len(Update) = 13 /\ \A i \in 1 .. 6 : Update[i] = r[i]
        /\ \A i \in 1 .. 7 : Update[6 + i] = Show[i]
    BY <1>3, <1>5, <1>6
  <1>8. \A i \in 1 .. 5 : Update[1 + i] = Close[i]
    BY <1>5, <1>7
  <1>9. Update[1] = "update"
    <2>1. 1 \in 1 .. 6
      OBVIOUS
    <2> QED
      BY <1>5, <1>7, <2>1
  <1> QED
    BY <1>6, <1>7, <1>8, <1>9

\* A call begins with looking whether a dialog is shown.
LEMMA FirstStep ==
  ASSUME NEW s \in Seq(Op), Len(s) > 0
  PROVE  s # <<>> /\ Head(s) = s[1]
  <1>1. Head(s) = s[1]
    OBVIOUS
  <1>2. Len(<<>>) = 0
    OBVIOUS
  <1> QED
    BY <1>1, <1>2

LEMMA FirstSteps ==
  /\ Close # <<>> /\ Head(Close) = "close" /\ Update # <<>> /\ Head(Update) = "update"
  /\ Show # <<>> /\ Head(Show) = "close"
  <1>1. Close \in Seq(Op) /\ Len(Close) > 0 /\ Close[1] = "close"
    BY StepsOfClose
  <1>2. Show \in Seq(Op) /\ Len(Show) > 0 /\ Show[1] = "close"
    BY StepsOfShow, StepsOfClose
  <1>3. Update \in Seq(Op) /\ Len(Update) > 0 /\ Update[1] = "update"
    BY StepsOfUpdate
  <1>4. Close # <<>> /\ Head(Close) = "close"
    BY <1>1, FirstStep
  <1>5. Show # <<>> /\ Head(Show) = "close"
    BY <1>2, FirstStep
  <1>6. Update # <<>> /\ Head(Update) = "update"
    BY <1>3, FirstStep
  <1> QED
    BY <1>4, <1>5, <1>6

\* What is left of a list of steps after n of them.
Rest(ops, n) == SubSeq(ops, n + 1, Len(ops))

LEMMA RestOf ==
  ASSUME NEW ops \in Seq(Op), NEW n \in 0 .. Len(ops)
  PROVE  /\ n = Len(ops) => Rest(ops, n) = <<>>
         /\ n < Len(ops) => Rest(ops, n) # <<>> /\ Head(Rest(ops, n)) = ops[n + 1]
         /\ \A m \in Nat :
              SubSeq(Rest(ops, n), 1 + m, Len(Rest(ops, n))) =
                IF n + m <= Len(ops) THEN Rest(ops, n + m) ELSE <<>>
  <1>1. Len(ops) \in Nat /\ n \in Nat /\ n <= Len(ops)
    BY LenProperties
  <1>2. \A i \in n + 1 .. Len(ops) : ops[i] \in Op
    <2>1. ops \in [1 .. Len(ops) -> Op]
      BY LenProperties
    <2> QED
      BY <1>1, <2>1
  <1>3. /\ Rest(ops, n) \in Seq(Op)
        /\ Len(Rest(ops, n)) = IF n + 1 <= Len(ops) THEN Len(ops) - (n + 1) + 1 ELSE 0
        /\ \A i \in 1 .. Len(ops) - (n + 1) + 1 : Rest(ops, n)[i] = ops[n + 1 + i - 1]
    <2>1. n + 1 \in Int /\ Len(ops) \in Int
      BY <1>1
    <2> QED
      BY <1>2, <2>1, SubSeqProperties DEF Rest
  <1>4. Len(Rest(ops, n)) = Len(ops) - n
    <2>1. Len(Rest(ops, n)) = IF n + 1 <= Len(ops) THEN Len(ops) - (n + 1) + 1 ELSE 0
      BY <1>3, Zenon
    <2>2. /\ n + 1 <= Len(ops) => Len(ops) - (n + 1) + 1 = Len(ops) - n
          /\ ~(n + 1 <= Len(ops)) => Len(ops) - n = 0
      BY <1>1
    <2> QED
      BY <2>1, <2>2, Zenon
  <1>5. n = Len(ops) => Rest(ops, n) = <<>>
    BY <1>1, <1>3, <1>4, EmptySeq
  <1>6. ASSUME n < Len(ops) PROVE Rest(ops, n) # <<>> /\ Head(Rest(ops, n)) = ops[n + 1]
    <2>1. n + 1 \in 1 .. Len(ops) /\ Len(ops) \in n + 1 .. Len(ops)
      BY <1>1, <1>6
    <2>2. Head(Rest(ops, n)) = ops[n + 1]
      BY <2>1, HeadTailOfSubSeq DEF Rest
    <2> QED
      BY <1>1, <1>4, <1>6, <2>2, EmptySeq
  <1>7. ASSUME NEW m \in Nat
        PROVE  SubSeq(Rest(ops, n), 1 + m, Len(Rest(ops, n))) =
                 IF n + m <= Len(ops) THEN Rest(ops, n + m) ELSE <<>>
    <2>1. CASE n + m >= Len(ops)
      <3>1. Len(Rest(ops, n)) < 1 + m /\ 1 + m \in Int /\ Len(Rest(ops, n)) \in Int
        BY <1>1, <1>4, <2>1
      <3>2. SubSeq(Rest(ops, n), 1 + m, Len(Rest(ops, n))) = <<>>
        BY <3>1, SubSeqEmpty
      <3>3. n + m = Len(ops) => Rest(ops, n + m) = <<>>
        BY <1>1, SubSeqEmpty DEF Rest
      <3>4. n + m <= Len(ops) => n + m = Len(ops)
        BY <1>1, <2>1
      <3> QED
        BY <3>2, <3>3, <3>4, Zenon
    <2>2. CASE n + m < Len(ops)
      <3>1. /\ n + 1 \in 1 .. Len(ops) /\ Len(ops) \in n + 1 .. Len(ops)
            /\ 1 + m \in 1 .. Len(ops) - (n + 1) + 1
            /\ Len(ops) - n \in 1 + m .. Len(ops) - (n + 1) + 1
        BY <1>1, <2>2
      <3>2. SubSeq(SubSeq(ops, n + 1, Len(ops)), 1 + m, Len(ops) - n) =
              SubSeq(ops, n + 1 + (1 + m) - 1, n + 1 + (Len(ops) - n) - 1)
        BY <1>1, <3>1, SubSeqOfSubSeq
      <3>3. n + 1 + (1 + m) - 1 = (n + m) + 1 /\ n + 1 + (Len(ops) - n) - 1 = Len(ops)
        BY <1>1
      <3>4. SubSeq(Rest(ops, n), 1 + m, Len(Rest(ops, n))) = SubSeq(ops, (n + m) + 1, Len(ops))
        BY ONLY <1>4, <3>2, <3>3 DEF Rest
      <3> QED
        BY <1>1, <2>2, <3>4 DEF Rest
    <2> QED
      BY <1>1, <2>1, <2>2
  <1> QED
    BY <1>5, <1>6, <1>7

\* A thread takes a step of its list, and others after it or none.
LEMMA TakeStep ==
  ASSUME NEW t, NEW op, NEW skip \in Nat, NEW ops \in Seq(Op), NEW n \in 0 .. Len(ops),
         todo[t] = Rest(ops, n), t \in DOMAIN todo, Take(t, op, skip)
  PROVE  /\ n < Len(ops) /\ ops[n + 1] = op
         /\ n + 1 + skip <= Len(ops) => todo'[t] = Rest(ops, n + 1 + skip)
         /\ n + 1 + skip >= Len(ops) => todo'[t] = <<>>
         /\ n + 1 + skip < Len(ops) =>
              todo'[t] # <<>> /\ Head(todo'[t]) = ops[n + 1 + skip + 1]
         /\ \E m \in 0 .. Len(ops) : todo'[t] = Rest(ops, m)
  <1>1. Len(ops) \in Nat /\ n \in Nat
    BY LenProperties
  <1>2. /\ todo[t] # <<>> /\ Head(todo[t]) = op
        /\ todo'[t] = SubSeq(todo[t], 2 + skip, Len(todo[t]))
    BY DEF Take
  <1>3. n < Len(ops) /\ ops[n + 1] = op
    <2>1. /\ n = Len(ops) => Rest(ops, n) = <<>>
          /\ n < Len(ops) => Head(Rest(ops, n)) = ops[n + 1]
      BY RestOf
    <2>2. n = Len(ops) \/ n < Len(ops)
      BY <1>1
    <2> QED
      BY <1>2, <2>1, <2>2
  <1>4. todo'[t] = IF n + (1 + skip) <= Len(ops) THEN Rest(ops, n + (1 + skip)) ELSE <<>>
    <2>1. 1 + skip \in Nat /\ 2 + skip = 1 + (1 + skip)
      OBVIOUS
    <2> QED
      BY <1>2, <2>1, RestOf
  <1>5. n + (1 + skip) = n + 1 + skip
    BY <1>1
  <1>6. Rest(ops, Len(ops)) = <<>>
    <2>1. Len(ops) \in 0 .. Len(ops)
      BY <1>1
    <2> QED
      BY <2>1, RestOf
  <1>7. n + 1 + skip >= Len(ops) => todo'[t] = <<>>
    BY <1>1, <1>4, <1>5, <1>6
  <1>8. ASSUME n + 1 + skip < Len(ops)
        PROVE  todo'[t] # <<>> /\ Head(todo'[t]) = ops[n + 1 + skip + 1]
    <2>1. n + 1 + skip \in 0 .. Len(ops)
      BY <1>1, <1>8
    <2>2. todo'[t] = Rest(ops, n + 1 + skip)
      BY <1>1, <1>4, <1>5, <1>8
    <2> QED
      BY <1>8, <2>1, <2>2, RestOf
  <1>9. \E m \in 0 .. Len(ops) : todo'[t] = Rest(ops, m)
    BY <1>1, <1>4, <1>5, <1>6
  <1> QED
    BY <1>3, <1>4, <1>5, <1>7, <1>8, <1>9

\* So what is left stays an end of the list.
LEMMA EndStaysEnd ==
  ASSUME NEW t, NEW op, NEW skip \in Nat, NEW ops, ops \in Seq(Op), NEW n \in 0 .. Len(ops),
         todo[t] = Rest(ops, n), t \in DOMAIN todo, Take(t, op, skip)
  PROVE  \E m \in 0 .. Len(ops) : todo'[t] = Rest(ops, m)
  BY TakeStep

\* update(), step by step.
LEMMA OpsOfUpdate ==
  /\ Update[1] = "update" /\ Update[2] = "close" /\ Update[3] = "kill" /\ Update[4] = "wait"
  /\ Update[5] = "stop" /\ Update[6] = "forget" /\ Update[7] = "close" /\ Update[8] = "kill"
  /\ Update[9] = "wait" /\ Update[10] = "stop" /\ Update[11] = "forget" /\ Update[12] = "fork"
  /\ Update[13] = "run"
  <1>1. /\ Update[1 + 1] = Close[1] /\ Update[1 + 2] = Close[2] /\ Update[1 + 3] = Close[3]
        /\ Update[1 + 4] = Close[4] /\ Update[1 + 5] = Close[5]
    BY StepsOfUpdate
  <1>2. /\ Update[6 + 1] = Show[1] /\ Update[6 + 2] = Show[2] /\ Update[6 + 3] = Show[3]
        /\ Update[6 + 4] = Show[4] /\ Update[6 + 5] = Show[5] /\ Update[6 + 6] = Show[6]
        /\ Update[6 + 7] = Show[7]
    BY StepsOfUpdate
  <1>3. /\ Show[1] = Close[1] /\ Show[2] = Close[2] /\ Show[3] = Close[3]
        /\ Show[4] = Close[4] /\ Show[5] = Close[5]
    BY StepsOfShow
  <1>4. Update[1] = "update" /\ Show[6] = "fork" /\ Show[7] = "run"
    BY StepsOfUpdate, StepsOfShow
  <1> QED
    BY <1>1, <1>2, <1>3, <1>4, StepsOfClose

\* The lists that are called are parts of these two.
LEMMA ListsCalled ==
  /\ Close = Rest(Close, 0) /\ Update = Rest(Update, 0) /\ Show = Rest(Update, 6)
  <1>1. Close = Rest(Close, 0) /\ Update = Rest(Update, 0)
    BY StepsOfClose, StepsOfUpdate, SubSeqFull DEF Rest
  <1>2. \A i \in 7 .. 13 : Update[i] \in Op
    <2>1. Update \in [1 .. Len(Update) -> Op] /\ Len(Update) = 13
      BY StepsOfUpdate, LenProperties
    <2> QED
      BY <2>1
  <1>3. /\ SubSeq(Update, 7, 13) \in Seq(Op)
        /\ Len(SubSeq(Update, 7, 13)) = IF 7 <= 13 THEN 13 - 7 + 1 ELSE 0
        /\ \A i \in 1 .. 13 - 7 + 1 : SubSeq(Update, 7, 13)[i] = Update[7 + i - 1]
    BY <1>2, SubSeqProperties
  <1>4. Len(SubSeq(Update, 7, 13)) = Len(Show)
    BY <1>3, StepsOfShow
  <1>5. \A i \in 1 .. Len(Show) : Show[i] = SubSeq(Update, 7, 13)[i]
    BY <1>3, StepsOfShow, StepsOfUpdate
  <1>6. Show = SubSeq(Update, 7, 13)
    BY <1>3, <1>4, <1>5, StepsOfShow, SeqEqual
  <1>7. Len(Update) = 13 /\ 6 + 1 = 7
    BY StepsOfUpdate
  <1> QED
    BY <1>1, <1>6, <1>7 DEF Rest

Idle(t) == todo[t] = <<>>
Next1(t, op) == ~Idle(t)' /\ Head(todo'[t]) = op
OnPath(t) == \E ops \in {Close, Update} : \E n \in 0 .. Len(ops) : todo[t] = Rest(ops, n)

\* What comes after a step.
LEMMA StepsInOrder ==
  ASSUME NEW t \in DOMAIN todo, OnPath(t), NEW op, NEW skip \in Nat, Take(t, op, skip)
  PROVE  /\ OnPath(t)'
         /\ op = "update" /\ skip = 0 => Next1(t, "close")
         /\ op = "update" /\ skip = 13 => Idle(t)'
         /\ op = "close" /\ skip = 0 => Next1(t, "kill")
         /\ op = "close" /\ skip = 4 => Idle(t)' \/ Next1(t, "close") \/ Next1(t, "fork")
         /\ op = "kill" /\ skip = 0 => Next1(t, "wait")
         /\ op = "wait" /\ skip = 0 => Next1(t, "stop")
         /\ op = "stop" /\ skip = 0 => Next1(t, "forget")
         /\ op = "forget" /\ skip = 0 => Idle(t)' \/ Next1(t, "close") \/ Next1(t, "fork")
         /\ op = "fork" /\ skip = 0 => Next1(t, "run")
         /\ op = "run" /\ skip = 0 => Idle(t)'
  <1>1. PICK ops \in {Close, Update} : \E n \in 0 .. Len(ops) : todo[t] = Rest(ops, n)
    BY DEF OnPath
  <1>2. PICK n \in 0 .. Len(ops) : todo[t] = Rest(ops, n)
    BY <1>1
  <1>3. ops \in Seq(Op) /\ Len(ops) \in Nat
    BY StepsOfClose, StepsOfUpdate
  <1>4. /\ n < Len(ops) /\ ops[n + 1] = op
        /\ n + 1 + skip >= Len(ops) => Idle(t)'
        /\ n + 1 + skip < Len(ops) => Next1(t, ops[n + 1 + skip + 1])
        /\ \E m \in 0 .. Len(ops) : todo'[t] = Rest(ops, m)
    BY <1>2, <1>3, TakeStep DEF Idle, Next1
  <1>5. OnPath(t)'
    BY <1>4 DEF OnPath
  <1>6. CASE ops = Close
    <2>1. n \in {0, 1, 2, 3, 4} /\ Len(ops) = 5
      BY <1>4, <1>6, StepsOfClose
    <2> QED
      BY <1>4, <1>5, <1>6, <2>1, StepsOfClose
  <1>7. CASE ops = Update
    <2>1. n \in 0 .. 12 /\ Len(ops) = 13
      BY <1>4, <1>7, StepsOfUpdate
    <2> QED
      BY <1>4, <1>5, <1>7, <2>1, OpsOfUpdate
  <1> QED
    BY <1>6, <1>7

DialogShape ==
  /\ pid \in {-1} \cup (Nat \ {0}) /\ running \in BOOLEAN
  /\ forked \in Nat /\ killedAll \in BOOLEAN /\ clash \in BOOLEAN
  /\ pid <= forked /\ open \subseteq 1 .. forked
  /\ DOMAIN todo = Caller /\ \A t \in Caller : OnPath(t)

\* The dialog between two calls, and before each step of a call that no other
\* thread disturbs.
Quiet ==
  \/ running /\ pid > 0 /\ open \subseteq {pid}
  \/ ~running /\ pid = -1 /\ open = {}
Stage(op) ==
  /\ op \in {"update", "close"} => Quiet
  /\ op = "kill" => running /\ pid > 0 /\ open \subseteq {pid}
  /\ op \in {"wait", "stop"} => running /\ pid > 0 /\ (op = "stop" => open = {})
  /\ op = "wait" => open = {}
  /\ op = "forget" => ~running /\ open = {}
  /\ op = "fork" => ~running /\ pid = -1 /\ open = {}
  /\ op = "run" => ~running /\ pid > 0 /\ open \subseteq {pid}

After(t) == IF Idle(t) THEN Quiet ELSE Stage(Head(todo[t]))

DialogInv ==
  ~clash =>
    /\ ~killedAll
    /\ \A t, u \in Caller : ~Idle(t) /\ ~Idle(u) => t = u
    /\ (\A t \in Caller : Idle(t)) => Quiet
    /\ \A t \in Caller : ~Idle(t) => Stage(Head(todo[t]))

\* A step of a thread leaves the lists of the others alone.
LEMMA Frame ==
  ASSUME NEW t \in Caller, NEW op, NEW skip, DialogShape, Take(t, op, skip)
  PROVE  DOMAIN todo' = Caller /\ \A u \in Caller \ {t} : todo'[u] = todo[u]
  BY DEF DialogShape, Take

\* A step of the dialog is one of those in its list.
LEMMA StepTakes ==
  ASSUME NEW t \in Caller, DialogStep(t)
  PROVE  \E op \in Op : \E skip \in Nat : Take(t, op, skip)
  <1>1. Len(Update) \in Nat /\ Len(Close) - 1 \in Nat /\ 0 \in Nat
    BY StepsOfClose, StepsOfUpdate
  <1>2. CASE CheckUpdate(t)
    BY <1>1, <1>2 DEF CheckUpdate, Op
  <1>3. CASE CheckClose(t)
    BY <1>1, <1>3 DEF CheckClose, Op
  <1>4. CASE ~CheckUpdate(t) /\ ~CheckClose(t)
    BY <1>1, <1>4 DEF DialogStep, Kill, WaitPid, Stop, Forget, Fork, Run, Op
  <1> QED
    BY <1>2, <1>3, <1>4

\* The shape of the dialog and the lists of steps.
LEMMA StepKeepsShape ==
  ASSUME NEW t \in Caller, DialogShape, DialogStep(t)
  PROVE  DialogShape'
  <1>1. PICK op \in Op : \E skip \in Nat : Take(t, op, skip)
    BY StepTakes
  <1>2. DOMAIN todo' = Caller /\ \A u \in Caller : OnPath(u)'
    <2>1. OnPath(t)'
      BY <1>1, StepsInOrder DEF DialogShape
    <2>2. \A u \in Caller \ {t} : todo'[u] = todo[u]
      BY <1>1, Frame
    <2> QED
      BY <1>1, <2>1, <2>2, Frame DEF DialogShape, OnPath
  <1>3. /\ pid' \in {-1} \cup (Nat \ {0}) /\ running' \in BOOLEAN
        /\ forked' \in Nat /\ killedAll' \in BOOLEAN /\ clash' \in BOOLEAN
        /\ pid' <= forked' /\ open' \subseteq 1 .. forked'
    <2>1. CASE CheckUpdate(t) \/ CheckClose(t) \/ WaitPid(t)
      BY <2>1 DEF CheckUpdate, CheckClose, WaitPid, DialogShape
    <2>2. CASE Kill(t)
      <3>1. open' \subseteq open /\ UNCHANGED <<pid, running, forked, clash>>
        BY <2>2 DEF Kill
      <3>2. killedAll' \in BOOLEAN
        BY <2>2 DEF Kill, DialogShape
      <3> QED
        BY <3>1, <3>2 DEF DialogShape
    <2>3. CASE Stop(t) \/ Run(t)
      BY <2>3 DEF Stop, Run, DialogShape
    <2>4. CASE Forget(t)
      BY <2>4 DEF Forget, DialogShape
    <2>5. CASE Fork(t)
      BY <2>5 DEF Fork, DialogShape
    <2> QED
      BY <2>1, <2>2, <2>3, <2>4, <2>5 DEF DialogStep
  <1> QED
    BY <1>2, <1>3 DEF DialogShape

\* What a step of t must lead to if no other thread is in the dialog.
LEMMA Alone ==
  ASSUME NEW t \in Caller, DialogShape, DialogInv, NEW op, NEW skip, Take(t, op, skip),
         clash' = clash,
         ~clash /\ Stage(op) => ~killedAll' /\ After(t)'
  PROVE  DialogInv'
  <1> SUFFICES ASSUME ~clash' PROVE DialogInv'
    BY DEF DialogInv
  <1>1. ~clash /\ ~Idle(t) /\ Head(todo[t]) = op
    BY DEF Take, Idle
  <1>2. \A u \in Caller \ {t} : Idle(u) /\ todo'[u] = todo[u]
    BY <1>1, Frame DEF DialogInv
  <1>3. \A u \in Caller \ {t} : Idle(u)'
    BY <1>2 DEF Idle
  <1>4. Stage(op)
    BY <1>1 DEF DialogInv
  <1> QED
    BY <1>1, <1>3, <1>4 DEF DialogInv, After

\* How what comes after a step is shown.
LEMMA AfterStep ==
  ASSUME NEW t
  PROVE  /\ Idle(t)' /\ Quiet' => After(t)'
         /\ \A op : Next1(t, op) /\ Stage(op)' => After(t)'
  BY DEF After, Next1

\* Every step of the dialog leads to a stage that fits the step after it.
LEMMA StepIsSafe ==
  ASSUME NEW t \in Caller, DialogShape, DialogInv, DialogStep(t)
  PROVE  DialogInv'
  <1>1. OnPath(t) /\ t \in DOMAIN todo /\ Len(Update) = 13 /\ Len(Close) - 1 = 4
    BY StepsOfClose, StepsOfUpdate DEF DialogShape
  <1>2. /\ running \in BOOLEAN /\ pid \in {-1} \cup (Nat \ {0}) /\ forked \in Nat
        /\ killedAll \in BOOLEAN /\ clash \in BOOLEAN
    BY DEF DialogShape
  <1>3. ~clash => ~killedAll
    BY DEF DialogInv
  <1>4. CASE CheckUpdate(t)
    <2>1. CASE running
      <3>1. Take(t, "update", 0) /\ UNCHANGED <<pid, running, open, killedAll, clash>>
        BY <1>4, <2>1 DEF CheckUpdate
      <3>2. Next1(t, "close")
        BY <1>1, <3>1, StepsInOrder
      <3>3. ~clash /\ Stage("update") => ~killedAll' /\ After(t)'
        BY <1>3, <3>1, <3>2, AfterStep DEF Stage, Quiet
      <3> QED
        BY <3>1, <3>3, Alone
    <2>2. CASE ~running
      <3>1. Take(t, "update", 13) /\ UNCHANGED <<pid, running, open, killedAll, clash>>
        BY <1>1, <1>4, <2>2 DEF CheckUpdate
      <3>2. Idle(t)'
        BY <1>1, <3>1, StepsInOrder
      <3>3. ~clash /\ Stage("update") => ~killedAll' /\ After(t)'
        BY <1>3, <3>1, <3>2, AfterStep DEF Stage, Quiet
      <3> QED
        BY <3>1, <3>3, Alone
    <2> QED
      BY <2>1, <2>2
  <1>5. CASE CheckClose(t)
    <2>1. CASE running /\ pid > 0
      <3>1. Take(t, "close", 0) /\ UNCHANGED <<pid, running, open, killedAll, clash>>
        BY <1>5, <2>1 DEF CheckClose
      <3>2. Next1(t, "kill")
        BY <1>1, <3>1, StepsInOrder
      <3>3. ~clash /\ Stage("close") => ~killedAll' /\ After(t)'
        BY <1>3, <2>1, <3>1, <3>2, AfterStep DEF Stage, Quiet
      <3> QED
        BY <3>1, <3>3, Alone
    <2>2. CASE ~(running /\ pid > 0)
      <3>1. Take(t, "close", 4) /\ UNCHANGED <<pid, running, open, killedAll, clash>>
        BY <1>1, <1>5, <2>2 DEF CheckClose
      <3>2. Idle(t)' \/ Next1(t, "close") \/ Next1(t, "fork")
        BY <1>1, <3>1, StepsInOrder
      <3>3. Stage("close") => ~running /\ pid = -1 /\ open = {}
        BY <2>2 DEF Stage, Quiet
      <3>4. ~clash /\ Stage("close") => ~killedAll' /\ After(t)'
        BY <1>3, <3>1, <3>2, <3>3, AfterStep DEF Stage, Quiet
      <3> QED
        BY <3>1, <3>4, Alone
    <2> QED
      BY <2>1, <2>2
  <1>6. CASE Kill(t)
    <2>1. /\ Take(t, "kill", 0) /\ UNCHANGED <<pid, running, clash>>
          /\ pid > 0 => open' = open \ {pid} /\ killedAll' = killedAll
      BY <1>6, <1>2 DEF Kill
    <2>2. Next1(t, "wait")
      BY <1>1, <2>1, StepsInOrder
    <2>3. Stage("kill") => running /\ pid > 0 /\ open \subseteq {pid}
      BY DEF Stage
    <2>4. ~clash /\ Stage("kill") => ~killedAll' /\ After(t)'
      BY <1>3, <2>1, <2>2, <2>3, AfterStep DEF Stage
    <2> QED
      BY <2>1, <2>4, Alone
  <1>7. CASE WaitPid(t)
    <2>1. Take(t, "wait", 0) /\ UNCHANGED <<pid, running, open, killedAll, clash>>
      BY <1>7 DEF WaitPid
    <2>2. Next1(t, "stop")
      BY <1>1, <2>1, StepsInOrder
    <2>3. ~clash /\ Stage("wait") => ~killedAll' /\ After(t)'
      BY <1>3, <2>1, <2>2, AfterStep DEF Stage
    <2> QED
      BY <2>1, <2>3, Alone
  <1>8. CASE Stop(t)
    <2>1. Take(t, "stop", 0) /\ ~running' /\ UNCHANGED <<pid, open, killedAll, clash>>
      BY <1>8 DEF Stop
    <2>2. Next1(t, "forget")
      BY <1>1, <2>1, StepsInOrder
    <2>3. ~clash /\ Stage("stop") => ~killedAll' /\ After(t)'
      BY <1>3, <2>1, <2>2, AfterStep DEF Stage
    <2> QED
      BY <2>1, <2>3, Alone
  <1>9. CASE Forget(t)
    <2>1. Take(t, "forget", 0) /\ pid' = -1 /\ UNCHANGED <<running, open, killedAll, clash>>
      BY <1>9 DEF Forget
    <2>2. Idle(t)' \/ Next1(t, "close") \/ Next1(t, "fork")
      BY <1>1, <2>1, StepsInOrder
    <2>3. Stage("forget") => ~running /\ open = {}
      BY DEF Stage
    <2>4. ~clash /\ Stage("forget") => ~killedAll' /\ After(t)'
      BY <1>3, <2>1, <2>2, <2>3, AfterStep DEF Stage, Quiet
    <2> QED
      BY <2>1, <2>4, Alone
  <1>10. CASE Fork(t)
    <2>1. /\ Take(t, "fork", 0) /\ pid' = forked + 1 /\ open' = open \cup {pid'}
          /\ UNCHANGED <<running, killedAll, clash>>
      BY <1>10 DEF Fork
    <2>2. Next1(t, "run")
      BY <1>1, <2>1, StepsInOrder
    <2>3. Stage("fork") => ~running /\ open = {}
      BY DEF Stage
    <2>4. pid' > 0
      BY <1>2, <2>1
    <2>5. ~clash /\ Stage("fork") => ~killedAll' /\ After(t)'
      BY <1>3, <2>1, <2>2, <2>3, <2>4, AfterStep DEF Stage
    <2> QED
      BY <2>1, <2>5, Alone
  <1>11. CASE Run(t)
    <2>1. Take(t, "run", 0) /\ running' /\ UNCHANGED <<pid, open, killedAll, clash>>
      BY <1>11 DEF Run
    <2>2. Idle(t)'
      BY <1>1, <2>1, StepsInOrder
    <2>3. Stage("run") => pid > 0 /\ open \subseteq {pid}
      BY DEF Stage
    <2>4. ~clash /\ Stage("run") => ~killedAll' /\ After(t)'
      BY <1>3, <2>1, <2>2, <2>3, AfterStep DEF Quiet
    <2> QED
      BY <2>1, <2>4, Alone
  <1> QED
    BY <1>4, <1>5, <1>6, <1>7, <1>8, <1>9, <1>10, <1>11 DEF DialogStep

\* A call of a thread that is in none.
LEMMA CallIsSafe ==
  ASSUME NEW t \in Caller, NEW ops \in {Close, Show, Update}, DialogShape, Idle(t), Call(t, ops)
  PROVE  /\ DialogShape' /\ (DialogInv => DialogInv')
         /\ todo'[t] = ops /\ \A u \in Caller \ {t} : todo'[u] = todo[u]
         /\ UNCHANGED <<pid, running, open>>
  <1>1. /\ todo' = [todo EXCEPT ![t] = ops]
        /\ clash' = (clash \/ \E u \in Caller \ {t} : todo[u] # <<>>)
        /\ UNCHANGED <<pid, running, open, forked, killedAll>>
    BY DEF Call
  <1>2. /\ DOMAIN todo' = Caller /\ todo'[t] = ops
        /\ \A u \in Caller \ {t} : todo'[u] = todo[u]
    BY <1>1 DEF DialogShape
  <1>3. DialogShape'
    <2>1. OnPath(t)'
      <3>1. 0 \in 0 .. Len(Close) /\ 0 \in 0 .. Len(Update) /\ 6 \in 0 .. Len(Update)
        BY StepsOfClose, StepsOfUpdate
      <3> QED
        BY <1>2, <3>1, ListsCalled DEF OnPath
    <2>2. \A u \in Caller : OnPath(u)'
      BY <1>2, <2>1 DEF DialogShape, OnPath
    <2>3. clash' \in BOOLEAN
      BY <1>1 DEF DialogShape
    <2> QED
      BY <1>1, <1>2, <2>2, <2>3 DEF DialogShape
  <1>4. ASSUME DialogInv PROVE DialogInv'
    <2> SUFFICES ASSUME ~clash' PROVE DialogInv'
      BY DEF DialogInv
    <2>1. ~clash /\ \A u \in Caller \ {t} : todo[u] = <<>>
      BY <1>1 DEF DialogShape
    <2>2. Quiet /\ ~killedAll
      BY <1>4, <2>1 DEF DialogInv, Idle
    <2>3. Head(todo'[t]) \in {"close", "update"}
      BY <1>2, FirstSteps
    <2>4. Quiet' /\ ~killedAll'
      BY <1>1, <2>2 DEF Quiet
    <2>5. \A u \in Caller \ {t} : Idle(u)'
      BY <1>2, <2>1 DEF Idle
    <2>6. Stage(Head(todo[t]))'
      BY <2>3, <2>4 DEF Stage
    <2> QED
      BY <2>4, <2>5, <2>6 DEF DialogInv
  <1> QED
    BY <1>1, <1>2, <1>3, <1>4

\* The operator may close the dialog at every stage.
LEMMA DismissIsSafe ==
  ASSUME DialogShape, Dismiss
  PROVE  /\ DialogShape' /\ (DialogInv => DialogInv')
         /\ UNCHANGED <<todo, pid, running, clash>> /\ open' \subseteq open
  <1>1. open' \subseteq open /\ UNCHANGED <<pid, running, forked, todo, killedAll, clash>>
    BY DEF Dismiss
  <1>2. DialogShape'
    BY <1>1 DEF DialogShape, OnPath
  <1>3. ASSUME DialogInv PROVE DialogInv'
    <2>1. Quiet => Quiet'
      BY <1>1 DEF Quiet
    <2>2. \A op : Stage(op) => Stage(op)'
      BY <1>1, <2>1 DEF Stage
    <2> QED
      BY <1>1, <1>3, <2>1, <2>2 DEF DialogInv, Idle
  <1> QED
    BY <1>1, <1>2, <1>3

\* Who may be in the dialog, and what its call has to do with the test.
Places ==
  /\ ~Idle(0) => at[0] = "show"
  /\ \A k \in Worker :
       /\ ~Idle(k) => at[k] \in {"update", "close", "late"}
       /\ at[k] \in {"close", "late"} => \E n \in 0 .. Len(Close) : todo[k] = Rest(Close, n)
       /\ at[k] \in {"none", "queued", "first"} => togo[k] = 2
       /\ at[k] = "update" => togo[k] # 0
       /\ at[k] = "done" /\ k \notin stopped => late[k] \/ togo[k] = 0

\* The last type-C test has closed the dialog: nobody opens it again.
Shut(k) == Idle(k) /\ (late[k] \/ togo[k] = 0)
LastTest(k) == TypeC(k) /\ k \notin stopped /\ \A m \in k + 1 .. cmd : ~TypeC(m)
Gone ==
  ~clash => \A k \in Worker : LastTest(k) /\ Shut(k) =>
    /\ ~running /\ pid = -1 /\ open = {}
    /\ \A t \in Thread : todo[t] \in {<<>>, Close, Update}

DInv == DialogShape /\ DialogInv /\ Places /\ Gone
-----------------------------------------------------------------------------
\* The threads that call the dialog are those of the tests.
LEMMA ThreadsCall == Caller = Thread /\ 0 \in Caller /\ Worker \subseteq Caller /\ 0 \notin Worker
  BY ScenarioAssumption DEF Worker

\* A thread stays where it is or leaves a place it cannot be in the dialog at.
Leaves(k) ==
  \/ at'[k] = at[k]
  \/ /\ Idle(k) /\ at'[k] \notin {"close", "late", "update"}
     /\ at'[k] \in {"none", "queued", "first"} => togo[k] = 2
     /\ at'[k] = "done" /\ k \notin stopped' => late[k] \/ togo[k] = 0

\* Steps outside the dialog.
LEMMA Outside ==
  ASSUME IInv, DInv, UNCHANGED <<dialogVars, scenario, togo, late>>,
         stopped \subseteq stopped', cmd' \in Nat, cmd <= cmd',
         at[0] = "show" => at'[0] = "show" \/ Idle(0),
         \A k \in Worker : Leaves(k)
  PROVE  DInv'
  <1>1. UNCHANGED <<pid, running, open, forked, todo, killedAll, clash>>
    BY DEF dialogVars
  <1>2. DialogShape' /\ DialogInv'
    <2>1. DialogShape'
      BY <1>1 DEF DInv, DialogShape, OnPath
    <2>2. Quiet' <=> Quiet
      BY <1>1 DEF Quiet
    <2>3. \A op : Stage(op)' <=> Stage(op)
      BY <1>1, <2>2 DEF Stage
    <2>4. DialogInv'
      BY <1>1, <2>2, <2>3 DEF DInv, DialogInv, Idle
    <2> QED
      BY <2>1, <2>4
  <1>3. Places'
    <2>1. ~Idle(0)' => at'[0] = "show"
      BY <1>1 DEF DInv, Places, Idle
    <2>2. ASSUME NEW k \in Worker
          PROVE  /\ ~Idle(k)' => at'[k] \in {"update", "close", "late"}
                 /\ at'[k] \in {"close", "late"} =>
                      \E n \in 0 .. Len(Close) : todo'[k] = Rest(Close, n)
                 /\ at'[k] \in {"none", "queued", "first"} => togo'[k] = 2
                 /\ at'[k] = "update" => togo'[k] # 0
                 /\ at'[k] = "done" /\ k \notin stopped' => late'[k] \/ togo'[k] = 0
      BY <1>1 DEF DInv, Places, Idle, Leaves
    <2> QED
      BY <2>1, <2>2 DEF Places, Worker
  <1>4. Gone'
    <2> SUFFICES ASSUME ~clash', NEW k \in Worker, LastTest(k)', Shut(k)'
                 PROVE  /\ ~running' /\ pid' = -1 /\ open' = {}
                        /\ \A t \in Thread : todo'[t] \in {<<>>, Close, Update}
      BY DEF Gone, Worker
    <2>1. LastTest(k)
      <3>1. TypeC(k) /\ k \notin stopped /\ \A m \in k + 1 .. cmd' : ~TypeC(m)
        BY DEF LastTest, TypeC, script
      <3>2. TypeC(k) => k \in Nat
        BY CommandsAreWorkers DEF IInv, TypeC
      <3>3. cmd \in Nat
        BY CommandsAreWorkers DEF IInv, Shape
      <3> QED
        BY <3>1, <3>2, <3>3 DEF LastTest
    <2>2. Shut(k) /\ ~clash
      BY <1>1 DEF Shut, Idle
    <2> QED
      BY <1>1, <2>1, <2>2 DEF DInv, Gone
  <1> QED
    BY <1>2, <1>3, <1>4 DEF DInv

\* All the steps that leave the dialog alone.
LEMMA OutsideSteps ==
  ASSUME IInv, DInv, UNCHANGED <<dialogVars, scenario, togo, late>>, stopped \subseteq stopped',
         cmd' \in Nat, cmd <= cmd', UNCHANGED at
  PROVE  DInv'
  BY Outside DEF Leaves

\* The command thread outside the dialog.
LEMMA HandlerOutside ==
  ASSUME IInv, DInv,
         \/ InRefresh(0) \/ Refreshed(0) \/ Submit \/ StopTests
         \/ BeginStorage \/ Scan \/ JudgeStore \/ SendStorage
  PROVE  DInv'
  <1>1. cmd \in Nat /\ at \in [Thread -> TestStates \cup {"pop", "show", "scan"}] /\ 0 \in Thread
    BY CommandsAreWorkers, ScenarioAssumption DEF IInv, Shape
  <1>2. CASE InRefresh(0) \/ JudgeStore
    BY <1>1, <1>2, OutsideSteps DEF InRefresh, JudgeStore, handlerVars, testVars
  <1>3. CASE StopTests
    <2>1. stopped \subseteq stopped'
      BY <1>3 DEF StopTests, IInv, Shape, Commands
    <2> QED
      BY <1>1, <1>3, <2>1, OutsideSteps DEF StopTests, Command, testVars
  <1>4. ASSUME NEW from, NEW to, Go(0, from, to), from # "show",
               UNCHANGED <<dialogVars, scenario, togo, late, stopped>>, cmd' \in {cmd, cmd + 1}
        PROVE  DInv'
    <2>1. \A k \in Worker : Leaves(k)
      BY <1>1, <1>4 DEF Go, Leaves, Worker
    <2> QED
      BY <1>1, <1>4, <2>1, Outside DEF Go
  <1>5. CASE Refreshed(0) \/ SendStorage
    BY <1>4, <1>5 DEF Refreshed, SendStorage, handlerVars, testVars
  <1>6. CASE BeginStorage
    BY <1>4, <1>6 DEF BeginStorage, Command, testVars
  <1>7. CASE Scan
    <2>1. CASE UNCHANGED at
      BY <1>1, <1>7, <2>1, OutsideSteps DEF Scan, handlerVars, testVars
    <2>2. CASE Go(0, "scan", "refresh")
      BY <1>4, <1>7, <2>2 DEF Scan, handlerVars, testVars
    <2> QED
      BY <1>7, <2>1, <2>2 DEF Scan
  <1>8. CASE Submit
    <2>1. /\ at[0] = "show" /\ Idle(0) /\ at' = [at EXCEPT ![0] = "pop", ![cmd] = "queued"]
          /\ UNCHANGED <<dialogVars, scenario, cmd, togo, late, stopped>>
      BY <1>8 DEF Submit, handlerVars, testVars, Idle
    <2>2. cmd \in Worker /\ at[cmd] = "none"
      BY <2>1, CommandsAreWorkers DEF IInv, Shape, Commands
    <2>3. Leaves(cmd)
      <3>1. at'[cmd] = "queued" /\ Idle(cmd) /\ togo[cmd] = 2
        BY <1>1, <2>1, <2>2 DEF Worker, DInv, Places
      <3> QED
        BY <3>1 DEF Leaves
    <2>4. \A k \in Worker \ {cmd} : Leaves(k)
      BY <1>1, <2>1 DEF Worker, Leaves
    <2> QED
      BY <1>1, <2>1, <2>3, <2>4, Outside
  <1> QED
    BY <1>2, <1>3, <1>5, <1>6, <1>7, <1>8

\* A type-C test outside the dialog.
LEMMA TestOutside ==
  ASSUME IInv, DInv, NEW k \in Worker,
         \/ InRefresh(k) \/ Refreshed(k) \/ Start(k) \/ Turn(k) \/ JudgeItem(k)
         \/ DialogDone(k) \/ CountDown(k) \/ Send(k)
  PROVE  DInv'
  <1>1. cmd \in Nat /\ at \in [Thread -> TestStates \cup {"pop", "show", "scan"}] /\ k \in Thread
        /\ k # 0
    BY CommandsAreWorkers DEF IInv, Shape, Worker
  <1>2. CASE InRefresh(k) \/ JudgeItem(k)
    BY <1>1, <1>2, OutsideSteps DEF InRefresh, JudgeItem, handlerVars, testVars
  <1>3. ASSUME NEW from, NEW to, Go(k, from, to), Idle(k),
               to \notin {"close", "late", "update", "none", "queued"},
               to = "first" => togo[k] = 2,
               to = "done" => k \in stopped \/ late[k] \/ togo[k] = 0,
               UNCHANGED <<dialogVars, scenario, cmd, togo, late, stopped>>
        PROVE  DInv'
    <2>1. at'[k] = to /\ \A m \in Thread \ {k} : at'[m] = at[m]
      BY <1>1, <1>3 DEF Go
    <2>2. Leaves(k) /\ \A m \in Worker \ {k} : Leaves(m)
      BY <1>3, <2>1 DEF Leaves, Worker
    <2>3. at'[0] = at[0]
      BY <1>1, <2>1, ScenarioAssumption
    <2> QED
      BY <1>1, <1>3, <2>2, <2>3, Outside
  <1>4. CASE Refreshed(k)
    <2>1. at[k] \in {"refresh", "first"} => Idle(k)
      BY DEF DInv, Places
    <2> QED
      BY <1>3, <1>4, <2>1 DEF Refreshed, Go, handlerVars, testVars
  <1>5. CASE Start(k)
    <2>1. at[k] = "queued" => Idle(k) /\ togo[k] = 2
      BY DEF DInv, Places
    <2> QED
      BY <1>3, <1>5, <2>1 DEF Start, Go, handlerVars, testVars
  <1>6. CASE Turn(k)
    <2>1. PICK to \in {"refresh", "turn"} : Go(k, "loop", to)
      BY <1>6 DEF Turn
    <2>2. at[k] = "loop" => Idle(k)
      BY DEF DInv, Places
    <2> QED
      BY <1>3, <1>6, <2>1, <2>2 DEF Turn, Go, handlerVars
  <1>7. CASE DialogDone(k)
    BY <1>3, <1>7 DEF DialogDone, Idle, handlerVars, testVars
  <1>8. CASE CountDown(k)
    <2>1. at[k] = "turn" => Idle(k)
      BY DEF DInv, Places
    <2> QED
      BY <1>3, <1>8, <2>1 DEF CountDown, Go, handlerVars
  <1>9. CASE Send(k)
    <2>1. at[k] = "loop" => Idle(k)
      BY DEF DInv, Places
    <2>2. at[k] = "late" => late[k]
      BY DEF IInv, Ending, EndingOf
    <2>3. CASE Go(k, "loop", "done") /\ (togo[k] = 0 \/ k \in stopped)
      BY <1>3, <1>9, <2>1, <2>3 DEF Send, Go, handlerVars, testVars
    <2>4. CASE Go(k, "late", "done") /\ todo[k] = <<>>
      BY <1>3, <1>9, <2>2, <2>4 DEF Send, Go, Idle, handlerVars, testVars
    <2> QED
      BY <1>9, <2>3, <2>4 DEF Send
  <1> QED
    BY <1>2, <1>4, <1>5, <1>6, <1>7, <1>8, <1>9

\* The operator closes the dialog of any test.
LEMMA DismissKeepsDialog == IInv /\ DInv /\ CloseDialog => DInv'
  <1> SUFFICES ASSUME IInv, DInv, CloseDialog PROVE DInv'
    OBVIOUS
  <1>1. /\ Dismiss /\ UNCHANGED <<scenario, cmd, at, togo, late, stopped>>
    BY DEF CloseDialog, handlerVars, testVars
  <1>2. /\ DialogShape' /\ DialogInv'
        /\ UNCHANGED <<todo, pid, running, clash>> /\ open' \subseteq open
    BY <1>1, DismissIsSafe DEF DInv
  <1>3. Places'
    BY <1>1, <1>2 DEF DInv, Places, Idle
  <1>4. Gone'
    <2>1. \A k \in Worker : (LastTest(k)' <=> LastTest(k)) /\ (Shut(k)' <=> Shut(k))
      BY <1>1, <1>2 DEF LastTest, Shut, TypeC, script, Idle
    <2> QED
      BY <1>2, <2>1 DEF DInv, Gone, Worker
  <1> QED
    BY <1>2, <1>3, <1>4 DEF DInv

\* The command thread shows the dialog of the next test.
LEMMA BeginKeepsDialog == IInv /\ DInv /\ BeginTypeC => DInv'
  <1> SUFFICES ASSUME IInv, DInv, BeginTypeC PROVE DInv'
    OBVIOUS
  <1>1. /\ at[0] = "pop" /\ at' = [at EXCEPT ![0] = "show"]
        /\ cmd < Len(script) /\ script[cmd + 1] = "typec" /\ cmd' = cmd + 1
        /\ Call(0, Show) /\ UNCHANGED <<scenario, togo, late, stopped>>
    BY DEF BeginTypeC, Go, Command, testVars
  <1>2. /\ cmd \in Nat /\ Len(script) \in Nat /\ DOMAIN script = 1 .. Len(script)
        /\ at \in [Thread -> TestStates \cup {"pop", "show", "scan"}]
    BY CommandsAreWorkers DEF IInv, Shape
  <1>3. Idle(0)
    BY <1>1 DEF DInv, Places
  <1>4. /\ DialogShape' /\ DialogInv' /\ todo'[0] = Show
        /\ \A u \in Caller \ {0} : todo'[u] = todo[u]
    BY <1>1, <1>3, ThreadsCall, CallIsSafe DEF DInv
  <1>5. at'[0] = "show" /\ \A k \in Worker : at'[k] = at[k] /\ todo'[k] = todo[k]
    BY <1>1, <1>2, <1>4, ThreadsCall
  <1>6. Places'
    BY <1>1, <1>5 DEF DInv, Places, Idle, Worker
  <1>7. Gone'
    <2> SUFFICES ASSUME NEW k \in Worker, LastTest(k)', Shut(k)' PROVE FALSE
      BY DEF Gone, Worker
    <2>1. TypeC(k) /\ \A m \in k + 1 .. cmd + 1 : ~TypeC(m)
      BY <1>1 DEF LastTest, TypeC, script
    <2>2. TypeC(cmd + 1)
      BY <1>1, <1>2 DEF TypeC
    <2>3. k \in cmd + 1 .. Len(script)
      BY <1>2, <2>1, <2>2 DEF TypeC
    <2>4. at[k] = "none"
      BY <2>3 DEF IInv, Commands
    <2>5. togo[k] = 2 /\ ~late[k]
      BY <2>4 DEF DInv, Places, IInv, Ending, EndingOf
    <2> QED
      BY <1>1, <2>5 DEF Shut
  <1> QED
    BY <1>4, <1>6, <1>7 DEF DInv

\* A test calls update() or close().
LEMMA TestCalls ==
  ASSUME IInv, DInv, NEW k \in Worker, NEW from \in {"judge", "turn"},
         NEW to \in {"update", "close", "late"}, Go(k, from, to),
         NEW ops \in {Close, Update}, Call(k, ops),
         to = "update" => togo'[k] # 0,
         to # "update" => ops = Close,
         \A m \in Worker \ {k} : togo'[m] = togo[m] /\ late'[m] = late[m],
         UNCHANGED <<scenario, cmd, stopped>>
  PROVE  DInv'
  <1>1. /\ at \in [Thread -> TestStates \cup {"pop", "show", "scan"}] /\ k \in Thread /\ k # 0
        /\ 0 \in Thread
    BY ScenarioAssumption DEF IInv, Shape, Worker
  <1>2. /\ at[k] = from /\ at'[k] = to /\ at'[0] = at[0]
        /\ \A m \in Worker \ {k} : at'[m] = at[m]
    BY <1>1 DEF Go, Worker
  <1>3. Idle(k)
    BY <1>2 DEF DInv, Places
  <1>4. /\ DialogShape' /\ DialogInv' /\ todo'[k] = ops
        /\ \A u \in Thread \ {k} : todo'[u] = todo[u]
        /\ UNCHANGED <<pid, running, open>>
    BY <1>3, ThreadsCall, CallIsSafe DEF DInv
  <1>5. todo'[0] = todo[0] /\ \A m \in Worker \ {k} : todo'[m] = todo[m]
    BY <1>1, <1>4 DEF Worker
  <1>6. to # "update" => \E n \in 0 .. Len(Close) : todo'[k] = Rest(Close, n)
    <2>1. 0 \in 0 .. Len(Close) /\ Close = Rest(Close, 0)
      BY StepsOfClose, ListsCalled
    <2> QED
      BY <1>4, <2>1
  <1>7. Places'
    <2>1. ~Idle(0)' => at'[0] = "show"
      BY <1>2, <1>5 DEF DInv, Places, Idle
    <2>2. ASSUME NEW m \in Worker
          PROVE  /\ ~Idle(m)' => at'[m] \in {"update", "close", "late"}
                 /\ at'[m] \in {"close", "late"} =>
                      \E n \in 0 .. Len(Close) : todo'[m] = Rest(Close, n)
                 /\ at'[m] \in {"none", "queued", "first"} => togo'[m] = 2
                 /\ at'[m] = "update" => togo'[m] # 0
                 /\ at'[m] = "done" /\ m \notin stopped' => late'[m] \/ togo'[m] = 0
      <3>1. CASE m = k
        BY <1>2, <1>6, <3>1
      <3>2. CASE m # k
        BY <1>2, <1>5, <3>2 DEF DInv, Places, Idle
      <3> QED
        BY <3>1, <3>2
    <2> QED
      BY <2>1, <2>2 DEF Places, Worker
  <1>8. Gone'
    <2> SUFFICES ASSUME ~clash', NEW m \in Worker, LastTest(m)', Shut(m)'
                 PROVE  /\ ~running' /\ pid' = -1 /\ open' = {}
                        /\ \A t \in Thread : todo'[t] \in {<<>>, Close, Update}
      BY DEF Gone, Worker
    <2>1. ops # <<>>
      BY FirstSteps
    <2>2. m # k
      BY <1>4, <2>1 DEF Shut, Idle
    <2>3. LastTest(m) /\ Shut(m)
      BY <1>5, <2>2 DEF LastTest, Shut, TypeC, script, Idle
    <2>4. ~clash
      BY ThreadsCall DEF Call, DInv, DialogShape
    <2>5. ~running /\ pid = -1 /\ open = {} /\ \A t \in Thread : todo[t] \in {<<>>, Close, Update}
      BY <2>3, <2>4 DEF DInv, Gone
    <2> QED
      BY <1>4, <2>5
  <1> QED
    BY <1>4, <1>7, <1>8 DEF DInv

\* A test calls when a side has been tested and when it gives up.
LEMMA TestCallsKeepDialog ==
  ASSUME IInv, DInv, NEW k \in Worker, SideTested(k) \/ GiveUp(k)
  PROVE  DInv'
  <1>1. UNCHANGED <<scenario, cmd, stopped>> /\ togo[k] \in 0 .. 2
    BY DEF SideTested, GiveUp, handlerVars, IInv, Shape
  <1>2. CASE SideTested(k)
    <2>1. /\ togo'[k] = togo[k] - 1 /\ \A m \in Worker \ {k} : togo'[m] = togo[m]
          /\ late' = late
      BY <1>2 DEF SideTested, IInv, Shape
    <2>2. CASE togo[k] = 2 /\ Go(k, "judge", "update") /\ Call(k, Update)
      BY <1>1, <2>1, <2>2, TestCalls
    <2>3. CASE Go(k, "judge", "close") /\ Call(k, Close)
      BY <1>1, <2>1, <2>3, TestCalls
    <2> QED
      BY <1>2, <2>2, <2>3 DEF SideTested
  <1>3. CASE GiveUp(k)
    <2>1. Go(k, "turn", "late") /\ Call(k, Close) /\ togo' = togo
      BY <1>3 DEF GiveUp
    <2>2. \A m \in Worker \ {k} : late'[m] = late[m]
      BY <1>3 DEF GiveUp, IInv, Shape
    <2> QED
      BY <1>1, <2>1, <2>2, TestCalls
  <1> QED
    BY <1>2, <1>3

\* A step of a call that leaves its list empty leaves no dialog that runs, if
\* the call is close() and no other thread is in the dialog.
LEMMA CloseEnds ==
  ASSUME NEW t \in Caller, DialogShape, DialogInv, DialogInv', ~clash, clash' = clash,
         DialogStep(t), Idle(t)', NEW n \in 0 .. Len(Close), todo[t] = Rest(Close, n)
  PROVE  ~running' /\ pid' = -1 /\ open' = {} /\ \A u \in Caller : Idle(u)'
  <1>1. OnPath(t) /\ t \in DOMAIN todo /\ Len(Close) - 1 = 4 /\ Close \in Seq(Op)
    BY StepsOfClose DEF DialogShape
  <1>2. PICK op \in Op : \E skip \in Nat : Take(t, op, skip)
    BY StepTakes
  <1>3. ~Idle(t) /\ \A u \in Caller \ {t} : Idle(u) /\ Idle(u)'
    <2>1. ~Idle(t) /\ \A u \in Caller \ {t} : todo'[u] = todo[u]
      BY <1>2, Frame DEF Take, Idle
    <2> QED
      BY <2>1 DEF DialogInv, Idle
  <1>4. Quiet' /\ Stage(Head(todo[t]))
    BY <1>3 DEF DialogInv
  <1>5. ~running'
    <2>1. CASE CheckUpdate(t)
      <3>1. CASE running
        <4>1. Take(t, "update", 0)
          BY <2>1, <3>1 DEF CheckUpdate
        <4> QED
          BY <1>1, <4>1, StepsInOrder DEF Next1
      <3>2. CASE ~running
        BY <2>1, <3>2 DEF CheckUpdate
      <3> QED
        BY <3>1, <3>2
    <2>2. CASE CheckClose(t)
      <3>1. CASE running /\ pid > 0
        <4>1. Take(t, "close", 0)
          BY <2>2, <3>1 DEF CheckClose
        <4> QED
          BY <1>1, <4>1, StepsInOrder DEF Next1
      <3>2. CASE ~(running /\ pid > 0)
        <4>1. Head(todo[t]) = "close" /\ running' = running
          BY <2>2 DEF CheckClose, Take
        <4> QED
          BY <1>4, <3>2, <4>1 DEF Stage, Quiet
      <3> QED
        BY <3>1, <3>2
    <2>3. CASE Kill(t) \/ WaitPid(t) \/ Stop(t) \/ Fork(t)
      <3>1. PICK p \in {"kill", "wait", "stop", "fork"} : Take(t, p, 0)
        BY <2>3 DEF Kill, WaitPid, Stop, Fork
      <3> QED
        BY <1>1, <3>1, StepsInOrder DEF Next1
    <2>4. CASE Forget(t)
      <3>1. Head(todo[t]) = "forget" /\ running' = running
        BY <2>4 DEF Forget, Take
      <3> QED
        BY <1>4, <3>1 DEF Stage
    <2>5. CASE Run(t)
      <3>1. Take(t, "run", 0)
        BY <2>5 DEF Run
      <3>2. n < Len(Close) /\ Close[n + 1] = "run"
        BY <1>1, <3>1, TakeStep
      <3>3. n \in {0, 1, 2, 3, 4}
        BY <3>2, StepsOfClose
      <3> QED
        BY <3>2, <3>3, StepsOfClose
    <2> QED
      BY <2>1, <2>2, <2>3, <2>4, <2>5 DEF DialogStep
  <1> QED
    BY <1>3, <1>4, <1>5 DEF Quiet

\* While no dialog runs, update() and close() do nothing.
LEMMA NothingToClose ==
  ASSUME NEW t \in Caller, DialogShape, ~running, pid = -1, DialogStep(t),
         todo[t] \in {<<>>, Close, Update}
  PROVE  Idle(t)' /\ UNCHANGED <<running, pid, open>>
  <1>1. OnPath(t) /\ t \in DOMAIN todo /\ Len(Close) - 1 = 4 /\ Len(Update) = 13
    BY StepsOfClose, StepsOfUpdate DEF DialogShape
  <1>2. ~Idle(t) /\ ~(running /\ pid > 0)
    <2>1. PICK op \in Op : \E skip \in Nat : Take(t, op, skip)
      BY StepTakes
    <2> QED
      BY <2>1 DEF Take, Idle
  <1>3. CASE CheckUpdate(t)
    <2>1. Take(t, "update", 13) /\ UNCHANGED <<running, pid, open>>
      BY <1>1, <1>3 DEF CheckUpdate
    <2> QED
      BY <1>1, <2>1, StepsInOrder
  <1>4. CASE CheckClose(t)
    <2>1. Take(t, "close", 4) /\ UNCHANGED <<running, pid, open>>
      BY <1>1, <1>2, <1>4 DEF CheckClose
    <2>2. todo[t] = Close
      <3>1. Head(todo[t]) = "close"
        BY <2>1 DEF Take
      <3> QED
        BY <1>2, <3>1, FirstSteps DEF Idle
    <2>3. Close \in Seq(Op) /\ 0 \in 0 .. Len(Close) /\ Len(Close) = 5 /\ Close = Rest(Close, 0)
      BY StepsOfClose, ListsCalled
    <2>4. 0 + 1 + 4 >= Len(Close) => todo'[t] = <<>>
      BY <1>1, <2>1, <2>2, <2>3, TakeStep
    <2> QED
      BY <2>1, <2>3, <2>4 DEF Idle
  <1>5. CASE Kill(t) \/ WaitPid(t) \/ Stop(t) \/ Forget(t) \/ Fork(t) \/ Run(t)
    <2>1. Head(todo[t]) \in {"kill", "wait", "stop", "forget", "fork", "run"}
      BY <1>5 DEF Kill, WaitPid, Stop, Forget, Fork, Run, Take
    <2> QED
      BY <1>2, <2>1, FirstSteps DEF Idle
  <1> QED
    BY <1>3, <1>4, <1>5 DEF DialogStep

\* A step inside the dialog, of any thread.
LEMMA DialogStepKeepsDialog ==
  ASSUME IInv, DInv, NEW t \in Thread, InDialog(t)
  PROVE  DInv'
  <1>1. /\ DialogStep(t) /\ UNCHANGED <<scenario, cmd, at, togo, late, stopped>> /\ t \in Caller
    BY ThreadsCall DEF InDialog, handlerVars, testVars
  <1>2. DialogShape' /\ DialogInv'
    BY <1>1, StepKeepsShape, StepIsSafe DEF DInv
  <1>3. PICK op \in Op : \E skip \in Nat : Take(t, op, skip)
    BY <1>1, StepTakes
  <1>4. ~Idle(t) /\ \A u \in Thread \ {t} : todo'[u] = todo[u]
    BY <1>1, <1>3, Frame, ThreadsCall DEF DInv, Take, Idle
  <1>5. clash' = clash
    BY <1>1 DEF DialogStep, CheckUpdate, CheckClose, Kill, WaitPid, Stop, Forget, Fork, Run
  <1>6. Places'
    <2>1. ~Idle(0)' => at'[0] = "show"
      BY <1>1, <1>4, ScenarioAssumption DEF DInv, Places, Idle
    <2>2. ASSUME NEW k \in Worker
          PROVE  /\ ~Idle(k)' => at'[k] \in {"update", "close", "late"}
                 /\ at'[k] \in {"close", "late"} =>
                      \E n \in 0 .. Len(Close) : todo'[k] = Rest(Close, n)
      <3>1. CASE k # t
        BY <1>1, <1>4, <3>1 DEF DInv, Places, Idle, Worker
      <3>2. CASE k = t
        <4>1. at'[k] \in {"update", "close", "late"}
          BY <1>1, <1>4, <3>2 DEF DInv, Places
        <4>2. ASSUME at'[k] \in {"close", "late"}
              PROVE  \E n \in 0 .. Len(Close) : todo'[k] = Rest(Close, n)
          <5>1. PICK n \in 0 .. Len(Close) : todo[t] = Rest(Close, n)
            BY <1>1, <3>2, <4>2 DEF DInv, Places
          <5>2. Close \in Seq(Op) /\ t \in DOMAIN todo
            BY <1>1, StepsOfClose DEF DInv, DialogShape
          <5>3. PICK skip \in Nat : Take(t, op, skip)
            BY <1>3
          <5>4. \E m \in 0 .. Len(Close) : todo'[t] = Rest(Close, m)
            BY ONLY <5>1, <5>2, <5>3, EndStaysEnd
          <5> QED
            BY <3>2, <5>4
        <4> QED
          BY <4>1, <4>2
      <3> QED
        BY <3>1, <3>2
    <2> QED
      BY <1>1, <2>1, <2>2 DEF DInv, Places, Worker
  <1>7. Gone'
    <2> SUFFICES ASSUME ~clash', NEW k \in Worker, LastTest(k)', Shut(k)'
                 PROVE  /\ ~running' /\ pid' = -1 /\ open' = {}
                        /\ \A u \in Thread : todo'[u] \in {<<>>, Close, Update}
      BY DEF Gone, Worker
    <2>1. /\ LastTest(k) /\ (late[k] \/ togo[k] = 0) /\ Idle(k)' /\ ~clash /\ k \in Thread
      BY <1>1, <1>5 DEF LastTest, Shut, TypeC, script, Worker
    <2>2. CASE k = t
      <3>1. at[k] \in {"close", "late"}
        BY <1>4, <2>1, <2>2 DEF DInv, Places, IInv, Ending, EndingOf
      <3>2. PICK n \in 0 .. Len(Close) : todo[t] = Rest(Close, n)
        BY <2>2, <3>1 DEF DInv, Places
      <3> QED
        BY <1>1, <1>2, <1>5, <2>1, <2>2, <3>2, CloseEnds, ThreadsCall DEF DInv, Idle
    <2>3. CASE k # t
      <3>1. Shut(k)
        BY <1>4, <2>1, <2>3 DEF Shut, Idle
      <3>2. ~running /\ pid = -1 /\ open = {} /\ \A u \in Thread : todo[u] \in {<<>>, Close, Update}
        BY <2>1, <3>1 DEF DInv, Gone
      <3>3. Idle(t)' /\ UNCHANGED <<running, pid, open>>
        BY <1>1, <3>2, NothingToClose DEF DInv
      <3> QED
        BY <1>4, <3>2, <3>3 DEF Idle
    <2> QED
      BY <2>2, <2>3
  <1> QED
    BY <1>2, <1>6, <1>7 DEF DInv

\* No dialog is shown at the start.
LEMMA InitDialogIsGood == Init => DInv
  <1> SUFFICES ASSUME Init PROVE DInv
    OBVIOUS
  <1>1. /\ pid = -1 /\ running = FALSE /\ open = {} /\ forked = 0
        /\ todo = [t \in Caller |-> <<>>] /\ killedAll = FALSE /\ clash = FALSE
    BY DEF Init, InitDialog
  <1>2. \A t \in Thread : Idle(t)
    BY <1>1, ThreadsCall DEF Idle
  <1>3. DialogShape
    <2>1. 5 \in 0 .. Len(Close) /\ Rest(Close, 5) = <<>>
      <3>1. Close \in Seq(Op) /\ Len(Close) = 5 /\ 5 \in 0 .. Len(Close)
        BY StepsOfClose
      <3> QED
        BY <3>1, RestOf
    <2>2. \A t \in Caller : OnPath(t)
      BY <1>2, <2>1, ThreadsCall DEF OnPath, Idle
    <2>3. /\ pid \in {-1} \cup (Nat \ {0}) /\ pid <= forked /\ forked \in Nat
          /\ open \subseteq 1 .. forked /\ DOMAIN todo = Caller
      BY <1>1
    <2>4. running \in BOOLEAN /\ killedAll \in BOOLEAN /\ clash \in BOOLEAN
      BY <1>1
    <2> QED
      BY <2>2, <2>3, <2>4 DEF DialogShape
  <1>4. DialogInv
    BY <1>1, <1>2, ThreadsCall DEF DialogInv, Quiet
  <1>5. \A k \in Worker : at[k] = "none" /\ togo[k] = 2 /\ late[k] = FALSE
    BY DEF Init, Worker
  <1>6. Places
    BY <1>2, <1>5, ThreadsCall DEF Places
  <1>7. Gone
    BY <1>1, <1>2, <1>5 DEF Gone, Shut, Idle
  <1> QED
    BY <1>3, <1>4, <1>6, <1>7 DEF DInv

\* Every step keeps what is known of the dialog.
LEMMA NextKeepsDialog == IInv /\ DInv /\ [Next]_vars => DInv'
  <1> SUFFICES ASSUME IInv, DInv, [Next]_vars PROVE DInv'
    OBVIOUS
  <1>1. cmd \in Nat /\ 0 \in Thread
    BY CommandsAreWorkers, ScenarioAssumption DEF IInv, Shape
  <1>2. CASE Move \/ UNCHANGED vars
    BY <1>1, <1>2, OutsideSteps DEF Move, vars, handlerVars, testVars
  <1>3. CASE CloseDialog
    BY <1>3, DismissKeepsDialog
  <1>4. CASE HandlerStep
    BY <1>1, <1>4, DialogStepKeepsDialog, BeginKeepsDialog, HandlerOutside DEF HandlerStep
  <1>5. ASSUME NEW k \in Worker, TestStep(k) PROVE DInv'
    <2>1. k \in Thread
      BY DEF Worker
    <2> QED
      BY <1>5, <2>1, DialogStepKeepsDialog, TestCallsKeepDialog, TestOutside DEF TestStep
  <1> QED
    BY <1>2, <1>3, <1>4, <1>5 DEF Next

\* At every place of a call one dialog is open at most.
LEMMA StageHasOne ==
  ASSUME NEW op \in Op, Stage(op)
  PROVE  open \subseteq {pid}
  BY DEF Stage, Quiet, Op

\* What it is for.
LEMMA GoodMeansOneDialog == IInv /\ DInv => OneDialog
  <1> SUFFICES ASSUME IInv, DInv, ~clash
               PROVE  /\ Cardinality(open) <= 1 /\ ~killedAll
                      /\ \A k \in Worker :
                           /\ TypeC(k) /\ Answered(k) /\ k \notin stopped
                           /\ \A m \in k + 1 .. cmd : ~TypeC(m)
                           => open = {}
    BY DEF OneDialog
  <1>1. open \subseteq {pid}
    <2>1. CASE \A t \in Caller : Idle(t)
      BY <2>1 DEF DInv, DialogInv, Quiet
    <2>2. CASE \E t \in Caller : ~Idle(t)
      <3>1. PICK t \in Caller : ~Idle(t)
        BY <2>2
      <3>2. PICK ops \in {Close, Update} : \E n \in 0 .. Len(ops) : todo[t] = Rest(ops, n)
        BY DEF DInv, DialogShape, OnPath
      <3>3. PICK n \in 0 .. Len(ops) : todo[t] = Rest(ops, n)
        BY <3>2
      <3>4. ops \in Seq(Op) /\ Len(ops) \in Nat
        BY StepsOfClose, StepsOfUpdate
      <3>5. n < Len(ops) /\ Head(todo[t]) = ops[n + 1]
        <4>1. n = Len(ops) \/ n < Len(ops)
          BY <3>4
        <4>2. /\ n = Len(ops) => Rest(ops, n) = <<>>
              /\ n < Len(ops) => Head(Rest(ops, n)) = ops[n + 1]
          BY <3>4, RestOf
        <4> QED
          BY <3>1, <3>3, <4>1, <4>2 DEF Idle
      <3>6. Head(todo[t]) \in Op
        <4>1. ops \in [1 .. Len(ops) -> Op]
          BY <3>4, LenProperties
        <4>2. n + 1 \in 1 .. Len(ops)
          BY <3>4, <3>5
        <4> QED
          BY <3>5, <4>1, <4>2
      <3> QED
        BY <3>1, <3>6, StageHasOne DEF DInv, DialogInv
    <2> QED
      BY <2>1, <2>2
  <1>2. Cardinality(open) <= 1
    <2>1. IsFiniteSet({pid}) /\ Cardinality({pid}) = 1
      BY FS_Singleton
    <2>2. open \in SUBSET {pid}
      BY <1>1
    <2> QED
      BY <2>1, <2>2, FS_Subset
  <1>3. ~killedAll
    BY DEF DInv, DialogInv
  <1>4. ASSUME NEW k \in Worker, TypeC(k), Answered(k), k \notin stopped,
               \A m \in k + 1 .. cmd : ~TypeC(m)
        PROVE  open = {}
    <2>1. at[k] = "done"
      BY <1>4 DEF IInv, Ending, EndingOf
    <2>2. Shut(k)
      BY <1>4, <2>1 DEF DInv, Places, Shut
    <2> QED
      BY <1>4, <2>2 DEF DInv, Gone, LastTest
  <1> QED
    BY <1>2, <1>3, <1>4

\* While no two threads have been in the dialog at the same time, one dialog is
\* open at most, kill(-1) is never called, and none is left when the last
\* type-C test has ended by itself, for any threads, items, bus and commands.
THEOREM OneDialogAtATime == Spec => []OneDialog
  <1>1. Init => IInv /\ DInv
    BY InitIsGood, InitDialogIsGood
  <1>2. IInv /\ DInv /\ [Next]_vars => (IInv /\ DInv)'
    BY StepIsGood, NextKeepsDialog
  <1>3. IInv /\ DInv => OneDialog
    BY GoodMeansOneDialog
  <1> QED
    BY <1>1, <1>2, <1>3, PTL DEF Spec

-----------------------------------------------------------------------------
(***************************************************************************)
(* The verdicts.  A thread that nobody has disturbed uses the list alone   *)
(* (Lists), so what it has built of it so far is told by what it has read  *)
(* of the output of lsusb (Refreshing), and when it judges the list holds  *)
(* what was printed.  A storage test has no verdict on the items it has    *)
(* not reached (Fresh); the disks it has found OK are at most the disks it *)
(* has taken, and entries of the size list beyond those of this scan and   *)
(* of earlier ones are zero (Disks).                                       *)
(***************************************************************************)
\* The types these variables keep, and when a thread holds lines of lsusb.
Shared ==
  /\ bus \subseteq Device /\ list \in [0 .. ListSize - 1 -> Id \cup {NoId}]
  /\ reading \in [Thread -> ReadingStates]
  /\ lines \in [Thread -> SUBSET Device] /\ printed \in [Thread -> SUBSET Device]
  /\ DOMAIN loaded = Thread /\ disturbed \subseteq Thread
  /\ verdicts[0] \in [DOMAIN Store -> {"none", "OK", "NG", "SKIP"}]
  /\ \A t \in Thread :
       /\ at[t] \notin {"first", "refresh"} => reading[t] = "no"
       /\ reading[t] \notin {"lines", "store", "write"} => lines[t] = {}

\* The list holds the ids of these devices and no other.
Holds(S) ==
  /\ \A i \in DOMAIN list : list[i] = NoId \/ \E d \in S : list[i] = IdOf[d]
  /\ \A d \in S : \E i \in DOMAIN list : list[i] = IdOf[d]
\* The entries above n are zero.
FreeAbove(n) == \A i \in DOMAIN list : i > n => list[i] = NoId

\* Thread t uses the list, undisturbed; the devices it has entered; how far it is.
Uses(t) == t \notin disturbed /\ (at[t] = "judge" \/ (at[t] = "refresh" /\ reading[t] # "no"))
Entered(t) == printed[t] \ lines[t]
Refreshing(t) ==
  /\ reading[t] \in {"clear", "popen"} => count = 0
  /\ reading[t] = "popen" => Holds({}) /\ FreeAbove(0)
  /\ reading[t] \in {"lines", "store", "write"} => lines[t] \subseteq printed[t] /\ Holds(Entered(t))
  /\ reading[t] \in {"lines", "store"} => count = Cardinality(Entered(t)) /\ FreeAbove(count)
  /\ reading[t] = "store" => loaded[t] = count
  /\ reading[t] \in {"store", "write"} => lines[t] # {}
  /\ reading[t] = "write" => count = Cardinality(Entered(t)) + 1 /\ FreeAbove(count - 1)
  /\ at[t] = "judge" \/ reading[t] = "read" => Holds(printed[t])
Lists == \A t \in Thread : Uses(t) => ~Racing(t) /\ Refreshing(t)

Fresh ==
  /\ at[0] \in {"scan", "refresh"} => \A j \in DOMAIN Store : verdicts[0][j] = "none"
  /\ at[0] = "judge" => \A j \in DOMAIN Store : j >= item[0] => verdicts[0][j] = "none"

Disks ==
  /\ diskCount \in Nat /\ most \in Nat
  /\ unscanned \subseteq Disk /\ attached \subseteq Disk
  /\ diskCount + Cardinality(unscanned) <= Cardinality(attached)
  /\ diskSize \in [0 .. DiskListSize - 1 -> Nat]
  /\ \A i \in DOMAIN diskSize : i > most /\ i > diskCount => diskSize[i] = 0
  /\ at[0] \in {"scan", "refresh"} => nextDisk = 0
  /\ at[0] = "judge" =>
       /\ nextDisk \in Nat
       /\ most <= diskCount => Cardinality(DisksOK) <= nextDisk /\ Cardinality(DisksOK) <= diskCount

HInv == Shared /\ Lists /\ Fresh /\ HonestItems /\ Disks

\* What the invariant needs of the variables when a step leaves most of them alone.
LEMMA SharedKept ==
  ASSUME Shared, UNCHANGED <<list, reading, lines, loaded>>, bus' \subseteq Device,
         printed' \in [Thread -> SUBSET Device], disturbed' \subseteq Thread,
         verdicts'[0] = verdicts[0],
         \A t \in Thread : at'[t] = at[t] \/ at[t] \notin {"first", "refresh"}
  PROVE  Shared'
  <1>1. \A t \in Thread :
          /\ at'[t] \notin {"first", "refresh"} => reading'[t] = "no"
          /\ reading'[t] \notin {"lines", "store", "write"} => lines'[t] = {}
    BY DEF Shared
  <1> QED
    BY <1>1 DEF Shared

\* Of the lists, when the list itself is left alone.
LEMMA ListsKept ==
  ASSUME Lists, UNCHANGED <<list, count, lines, loaded>>,
         \A t \in Thread :
           reading'[t] = reading[t] \/ (reading[t] = "read" /\ reading'[t] = "no"),
         \A t \in Thread : Uses(t)' =>
           /\ Uses(t) /\ printed'[t] = printed[t]
           /\ at'[t] = "judge" => at[t] = "judge" \/ reading[t] = "read"
  PROVE  Lists'
  <1> SUFFICES ASSUME NEW t \in Thread, Uses(t)' PROVE ~Racing(t)' /\ Refreshing(t)'
    BY DEF Lists
  <1>1. Uses(t) /\ printed'[t] = printed[t] /\ ~Racing(t) /\ Refreshing(t)
        /\ (at'[t] = "judge" => at[t] = "judge" \/ reading[t] = "read")
    BY DEF Lists
  <1>2. ~Racing(t)'
    BY <1>1 DEF Racing
  <1>3. /\ \A S : Holds(S)' <=> Holds(S)
        /\ \A n : FreeAbove(n)' <=> FreeAbove(n)
        /\ Entered(t)' = Entered(t)
    BY <1>1 DEF Holds, FreeAbove, Entered
  <1>4. CASE reading'[t] = reading[t]
    BY <1>1, <1>2, <1>3, <1>4 DEF Refreshing
  <1>5. CASE reading[t] = "read" /\ reading'[t] = "no"
    BY <1>1, <1>2, <1>3, <1>5 DEF Refreshing
  <1> QED
    BY <1>4, <1>5

\* Of the verdicts on the items, when a test makes none or starts anew.
LEMMA HonestKept ==
  ASSUME HonestItems,
         \A k \in Thread : k \notin disturbed' /\ at'[k] = "judge" =>
           \/ item'[k] = 1
           \/ /\ k \notin disturbed /\ at[k] = "judge" /\ item'[k] = item[k]
              /\ verdicts'[k] = verdicts[k] /\ printed'[k] = printed[k]
              /\ k \in Worker => togo'[k] = togo[k]
  PROVE  HonestItems'
  <1>1. ASSUME NEW k \in Worker, k \notin disturbed', at'[k] = "judge",
               NEW j \in 1 .. item'[k] - 1, Items[j].side = Side(k)', Tested(Items[j]),
               Items[j].id # NoId
        PROVE  verdicts'[k][j] = "OK" <=> \E d \in printed'[k] : IdOf[d] = Items[j].id
    <2>1. /\ k \notin disturbed /\ at[k] = "judge" /\ item'[k] = item[k]
          /\ verdicts'[k] = verdicts[k] /\ printed'[k] = printed[k] /\ togo'[k] = togo[k]
      BY <1>1 DEF Worker
    <2>2. Side(k)' = Side(k)
      BY <2>1 DEF Side
    <2> QED
      BY <1>1, <2>1, <2>2 DEF HonestItems
  <1>2. ASSUME 0 \notin disturbed', at'[0] = "judge", NEW j \in 1 .. item'[0] - 1,
               Facility(Store[j].name), Store[j].enable, Store[j].id # NoId
        PROVE  verdicts'[0][j] = "OK" <=> \E d \in printed'[0] : IdOf[d] = Store[j].id
    <2>1. /\ 0 \notin disturbed /\ at[0] = "judge" /\ item'[0] = item[0]
          /\ verdicts'[0] = verdicts[0] /\ printed'[0] = printed[0]
      BY <1>2, ScenarioAssumption
    <2> QED
      BY <1>2, <2>1 DEF HonestItems
  <1> QED
    BY <1>1, <1>2 DEF HonestItems, Worker

\* Of the items a storage test has not reached.
LEMMA FreshKept ==
  ASSUME Fresh, verdicts'[0] = verdicts[0],
         at'[0] \in {"scan", "refresh"} => at[0] \in {"scan", "refresh"},
         at'[0] = "judge" => at[0] = "refresh" \/ (at[0] = "judge" /\ item'[0] = item[0])
  PROVE  Fresh'
  BY DEF Fresh

\* Of the disks, when a storage test makes no verdict.
LEMMA DisksKept ==
  ASSUME Disks, Fresh, UNCHANGED <<diskVars, nextDisk>>, verdicts'[0] = verdicts[0],
         at'[0] \in {"scan", "refresh"} => at[0] \in {"scan", "refresh"},
         at'[0] = "judge" => at[0] \in {"refresh", "judge"}
  PROVE  Disks'
  <1>1. UNCHANGED <<diskCount, diskSize, unscanned, attached, most, nextDisk>>
    BY DEF diskVars
  <1>2. DisksOK' = DisksOK
    BY DEF DisksOK
  <1>3. ASSUME at'[0] = "judge", at[0] = "refresh"
        PROVE  /\ nextDisk' \in Nat
               /\ Cardinality(DisksOK') <= nextDisk' /\ Cardinality(DisksOK') <= diskCount'
    <2>1. DisksOK' = {}
      BY <1>2, <1>3 DEF Fresh, DisksOK
    <2> QED
      BY <1>1, <1>3, <2>1, FS_EmptySet DEF Disks
  <1> QED
    BY <1>1, <1>2, <1>3 DEF Disks

\* The steps that leave the list, the disks and the verdicts alone.
Passes(t) ==
  \/ at'[t] = at[t]
  \/ /\ at[t] \notin {"first", "refresh", "judge", "scan"}
     /\ at'[t] \notin {"scan", "judge"} /\ (t = 0 => at'[t] # "refresh")
\* Such a step keeps all of it.
LEMMA Bystander ==
  ASSUME HInv, bus' \subseteq Device,
         UNCHANGED <<lsusbVars, diskVars, nextDisk, item, verdicts, disturbed, togo>>,
         \A t \in Thread : Passes(t)
  PROVE  HInv'
  <1>1. UNCHANGED <<list, count, reading, lines, loaded, printed>> /\ 0 \in Thread
    BY ScenarioAssumption DEF lsusbVars
  <1>2. Shared'
    BY <1>1, SharedKept DEF HInv, Shared, Passes
  <1>3. ASSUME NEW t \in Thread, Uses(t)' PROVE Uses(t) /\ at'[t] = at[t]
    <2>1. at[t] \notin {"first", "refresh"} => reading'[t] = "no"
      BY <1>1 DEF HInv, Shared
    <2> QED
      BY <1>1, <1>3, <2>1 DEF Uses, Passes
  <1>4. Lists'
    BY <1>1, <1>3, ListsKept DEF HInv
  <1>5. HonestItems'
    BY <1>1, HonestKept DEF HInv, Passes
  <1>6. Fresh' /\ Disks'
    BY <1>1, FreshKept, DisksKept DEF HInv, Passes
  <1> QED
    BY <1>2, <1>4, <1>5, <1>6 DEF HInv

\* All steps but eight are of that kind.
LEMMA PassingSteps ==
  ASSUME IInv, HInv, Next,
         \A t \in Thread : ~InRefresh(t) /\ ~Refreshed(t),
         ~BeginStorage, ~Scan, ~JudgeStore, ~SendStorage,
         \A k \in Worker : ~JudgeItem(k) /\ ~SideTested(k)
  PROVE  HInv'
  <1>1. bus \subseteq Device /\ at \in [Thread -> TestStates \cup {"pop", "show", "scan"}]
        /\ 0 \in Thread
    BY ScenarioAssumption DEF HInv, Shared, IInv, Shape
  <1>2. ASSUME UNCHANGED <<lsusbVars, diskVars, nextDisk, item, verdicts, disturbed, togo, at>>,
               bus' \subseteq Device
        PROVE  HInv'
    BY <1>2, Bystander DEF Passes
  <1>3. ASSUME UNCHANGED <<lsusbVars, diskVars, nextDisk, item, verdicts, disturbed, togo, bus>>,
               NEW t \in Thread, NEW from \in {"pop", "queued", "loop", "update", "close", "turn", "late"},
               NEW to \in {"show", "first", "turn", "loop", "late", "done"}, Go(t, from, to)
        PROVE  HInv'
    <2>1. at'[t] = to /\ at[t] = from /\ \A u \in Thread \ {t} : at'[u] = at[u]
      BY <1>1, <1>3 DEF Go
    <2>2. \A u \in Thread : Passes(u)
      BY <2>1 DEF Passes
    <2> QED
      BY <1>1, <1>3, <2>2, Bystander
  <1>4. CASE Move
    <2>1. bus' \subseteq Device
      <3>1. PICK layout \in scenario.layouts : bus' = layout.bus
        BY <1>4 DEF Move
      <3>2. scenario.layouts \subseteq [port : -1 .. 1, bus : SUBSET Device]
        BY ScenarioAssumption DEF IInv, Shape
      <3> QED
        BY <3>1, <3>2
    <2> QED
      BY <1>2, <1>4, <2>1 DEF Move, handlerVars, testVars
  <1>5. CASE CloseDialog \/ (\E t \in Thread : InDialog(t)) \/ UNCHANGED vars
    BY <1>1, <1>2, <1>5 DEF CloseDialog, InDialog, vars, handlerVars, testVars
  <1>6. CASE BeginTypeC
    BY <1>1, <1>3, <1>6 DEF BeginTypeC, testVars
  <1>7. CASE StopTests
    BY <1>1, <1>2, <1>7 DEF StopTests, testVars
  <1>8. CASE Submit
    <2>1. /\ at[0] = "show" /\ at' = [at EXCEPT ![0] = "pop", ![cmd] = "queued"]
          /\ UNCHANGED <<lsusbVars, diskVars, nextDisk, item, verdicts, disturbed, togo, bus>>
      BY <1>8 DEF Submit, handlerVars, testVars
    <2>2. cmd \in Worker /\ at[cmd] = "none"
      BY <2>1, CommandsAreWorkers DEF IInv, Shape, Commands
    <2>3. /\ at'[0] = "pop" /\ at'[cmd] = "queued"
          /\ \A u \in Thread \ {0, cmd} : at'[u] = at[u]
      BY <1>1, <2>1, <2>2 DEF Worker
    <2>4. \A u \in Thread : Passes(u)
      BY <2>1, <2>2, <2>3 DEF Passes, Worker
    <2> QED
      BY <1>1, <2>1, <2>4, Bystander
  <1>9. ASSUME NEW k \in Worker, Start(k) \/ DialogDone(k) \/ CountDown(k) \/ GiveUp(k) \/ Send(k)
        PROVE  HInv'
    <2>1. k \in Thread
      BY DEF Worker
    <2>2. CASE Start(k)
      BY <1>3, <2>1, <2>2 DEF Start, handlerVars, testVars
    <2>3. CASE DialogDone(k)
      BY <1>3, <2>1, <2>3 DEF DialogDone, handlerVars, testVars
    <2>4. CASE CountDown(k)
      BY <1>3, <2>1, <2>4 DEF CountDown, handlerVars
    <2>5. CASE GiveUp(k)
      BY <1>3, <2>1, <2>5 DEF GiveUp, handlerVars
    <2>6. CASE Send(k)
      BY <1>3, <2>1, <2>6 DEF Send, handlerVars, testVars
    <2> QED
      BY <1>9, <2>2, <2>3, <2>4, <2>5, <2>6
  <1>10. ASSUME NEW k \in Worker, Turn(k) PROVE HInv'
    <2>1. PICK to \in {"refresh", "turn"} : Go(k, "loop", to)
      BY <1>10 DEF Turn
    <2>2. /\ UNCHANGED <<lsusbVars, diskVars, nextDisk, item, verdicts, disturbed, togo, bus>>
          /\ k \in Thread /\ k # 0
      BY <1>10 DEF Turn, handlerVars, Worker
    <2>3. at'[k] = to /\ at[k] = "loop" /\ \A u \in Thread \ {k} : at'[u] = at[u]
      BY <1>1, <2>1, <2>2 DEF Go
    <2>4. \A u \in Thread : Passes(u)
      BY <2>2, <2>3 DEF Passes
    <2> QED
      BY <1>1, <2>2, <2>4, Bystander
  <1>11. CASE HandlerStep
    BY <1>1, <1>5, <1>6, <1>7, <1>8, <1>11 DEF HandlerStep
  <1>12. ASSUME NEW k \in Worker, TestStep(k) PROVE HInv'
    <2>1. k \in Thread
      BY DEF Worker
    <2> QED
      BY <1>5, <1>9, <1>10, <1>12, <2>1 DEF TestStep
  <1> QED
    BY <1>4, <1>5, <1>11, <1>12 DEF Next

\* A thread has refreshed the list.
LEMMA RefreshedKeepsHonest ==
  ASSUME IInv, HInv, NEW t \in Thread, Refreshed(t)
  PROVE  HInv'
  <1>1. /\ reading[t] = "read" /\ reading' = [reading EXCEPT ![t] = "no"]
        /\ item' = [item EXCEPT ![t] = 1]
        /\ UNCHANGED <<list, count, lines, loaded, diskVars, nextDisk, bus, verdicts, togo>>
    BY DEF Refreshed, handlerVars, testVars
  <1>2. /\ at \in [Thread -> TestStates \cup {"pop", "show", "scan"}]
        /\ item \in [Thread -> Nat \ {0}] /\ 0 \in Thread /\ at[0] # "first"
    BY ScenarioAssumption DEF IInv, Shape, Commands
  <1>3. /\ \A u \in Thread \ {t} : at'[u] = at[u] /\ item'[u] = item[u] /\ printed'[u] = printed[u]
        /\ \A u \in Thread \ {t} : u \in disturbed' <=> u \in disturbed
        /\ \/ at[t] = "refresh" /\ at'[t] = "judge" /\ UNCHANGED <<printed, disturbed>>
           \/ at[t] = "first" /\ at'[t] = "loop"
        /\ printed' \in [Thread -> SUBSET Device] /\ disturbed' \subseteq Thread
        /\ item'[t] = 1
    <2>1. CASE Go(t, "refresh", "judge") /\ UNCHANGED <<printed, disturbed>>
      BY <1>1, <1>2, <2>1 DEF Go, HInv, Shared
    <2>2. CASE Go(t, "first", "loop") /\ Forgets(t)
      BY <1>1, <1>2, <2>2 DEF Go, Forgets, HInv, Shared
    <2> QED
      BY <2>1, <2>2 DEF Refreshed
  <1>4. /\ reading'[t] = "no" /\ \A u \in Thread \ {t} : reading'[u] = reading[u]
        /\ reading' \in [Thread -> ReadingStates]
    BY <1>1 DEF HInv, Shared, ReadingStates
  <1>5. Shared'
    <2>1. \A u \in Thread :
            /\ at'[u] \notin {"first", "refresh"} => reading'[u] = "no"
            /\ reading'[u] \notin {"lines", "store", "write"} => lines'[u] = {}
      BY <1>1, <1>3, <1>4 DEF HInv, Shared
    <2> QED
      BY <1>1, <1>3, <1>4, <2>1 DEF HInv, Shared
  <1>6. Lists'
    <2>1. \A u \in Thread : Uses(u)' =>
            /\ Uses(u) /\ printed'[u] = printed[u]
            /\ at'[u] = "judge" => at[u] = "judge" \/ reading[u] = "read"
      BY <1>1, <1>3, <1>4 DEF Uses
    <2> QED
      BY <1>1, <1>4, <2>1, ListsKept DEF HInv
  <1>7. HonestItems'
    BY <1>1, <1>3, HonestKept DEF HInv
  <1>8. Fresh' /\ Disks'
    BY <1>1, <1>2, <1>3, FreshKept, DisksKept DEF HInv
  <1> QED
    BY <1>5, <1>6, <1>7, <1>8 DEF HInv

\* What a test has judged by is of no interest when its side has been tested.
LEMMA SideTestedKeepsHonest ==
  ASSUME IInv, HInv, NEW k \in Worker, SideTested(k)
  PROVE  HInv'
  <1>1. /\ k \in Thread /\ k # 0 /\ 0 \in Thread
        /\ at \in [Thread -> TestStates \cup {"pop", "show", "scan"}]
    BY ScenarioAssumption DEF IInv, Shape, Worker
  <1>2. /\ Forgets(k) /\ togo' = [togo EXCEPT ![k] = @ - 1]
        /\ UNCHANGED <<list, count, reading, lines, loaded, diskVars, nextDisk, bus, item, verdicts>>
    BY DEF SideTested, handlerVars
  <1>3. /\ at[k] = "judge" /\ at'[k] \in {"update", "close"}
        /\ \A u \in Thread \ {k} : at'[u] = at[u]
    BY <1>1 DEF SideTested, Go
  <1>4. /\ \A u \in Thread \ {k} : printed'[u] = printed[u] /\ (u \in disturbed' <=> u \in disturbed)
        /\ printed' \in [Thread -> SUBSET Device] /\ disturbed' \subseteq Thread
        /\ \A m \in Worker \ {k} : togo'[m] = togo[m]
    BY <1>1, <1>2 DEF Forgets, HInv, Shared, IInv, Shape
  <1>5. Shared'
    BY <1>1, <1>2, <1>3, <1>4, SharedKept DEF HInv, Shared
  <1>6. Lists'
    <2>1. \A u \in Thread : Uses(u)' =>
            /\ Uses(u) /\ printed'[u] = printed[u]
            /\ at'[u] = "judge" => at[u] = "judge" \/ reading[u] = "read"
      BY <1>2, <1>3, <1>4 DEF Uses
    <2> QED
      BY <1>2, <2>1, ListsKept DEF HInv
  <1>7. HonestItems'
    BY <1>2, <1>3, <1>4, HonestKept DEF HInv
  <1>8. Fresh' /\ Disks'
    BY <1>1, <1>2, <1>3, FreshKept, DisksKept DEF HInv
  <1> QED
    BY <1>5, <1>6, <1>7, <1>8 DEF HInv

\* The command thread forgets likewise.
LEMMA SendStorageKeepsHonest ==
  ASSUME IInv, HInv, SendStorage
  PROVE  HInv'
  <1>1. 0 \in Thread /\ at \in [Thread -> TestStates \cup {"pop", "show", "scan"}]
    BY ScenarioAssumption DEF IInv, Shape
  <1>2. /\ Forgets(0) /\ at[0] = "judge" /\ at' = [at EXCEPT ![0] = "pop"]
        /\ UNCHANGED <<list, count, reading, lines, loaded, diskVars, nextDisk, bus, item,
                       verdicts, togo>>
    BY DEF SendStorage, Go, handlerVars, testVars
  <1>3. at'[0] = "pop" /\ \A u \in Thread \ {0} : at'[u] = at[u]
    BY <1>1, <1>2
  <1>4. /\ \A u \in Thread \ {0} : printed'[u] = printed[u] /\ (u \in disturbed' <=> u \in disturbed)
        /\ printed' \in [Thread -> SUBSET Device] /\ disturbed' \subseteq Thread
    BY <1>1, <1>2 DEF Forgets, HInv, Shared
  <1>5. Shared'
    BY <1>1, <1>2, <1>3, <1>4, SharedKept DEF HInv, Shared
  <1>6. Lists'
    <2>1. \A u \in Thread : Uses(u)' =>
            /\ Uses(u) /\ printed'[u] = printed[u]
            /\ at'[u] = "judge" => at[u] = "judge" \/ reading[u] = "read"
      BY <1>2, <1>3, <1>4 DEF Uses
    <2> QED
      BY <1>2, <2>1, ListsKept DEF HInv
  <1>7. HonestItems'
    BY <1>2, <1>3, <1>4, HonestKept DEF HInv
  <1>8. Fresh' /\ Disks'
    BY <1>1, <1>2, <1>3, FreshKept, DisksKept DEF HInv
  <1> QED
    BY <1>5, <1>6, <1>7, <1>8 DEF HInv

\* What a refresh does to the list, as the thread that makes it sees it.
LEMMA RefreshBuilds ==
  ASSUME Shared, NEW t \in Thread, RefreshStep(t), bus \subseteq Device,
         at'[t] = at[t], at[t] = "refresh",
         reading[t] # "no" => Refreshing(t)
  PROVE  Refreshing(t)'
  <1>1. /\ list \in [0 .. ListSize - 1 -> Id \cup {NoId}] /\ reading \in [Thread -> ReadingStates]
        /\ lines \in [Thread -> SUBSET Device] /\ printed \in [Thread -> SUBSET Device]
        /\ DOMAIN loaded = Thread
    BY DEF Shared
  <1>2. CASE ClearCount(t)
    BY <1>1, <1>2 DEF ClearCount, At, Refreshing
  <1>3. CASE ClearEntries(t)
    <2>1. reading'[t] = "popen" /\ count = 0 /\ count' = count /\ list' = [i \in DOMAIN list |-> NoId]
      BY <1>1, <1>3 DEF ClearEntries, At, Refreshing
    <2>2. Holds({})' /\ FreeAbove(0)'
      BY <2>1 DEF Holds, FreeAbove
    <2> QED
      BY <2>1, <2>2 DEF Refreshing
  <1>4. CASE Popen(t)
    <2>1. /\ reading[t] = "popen" /\ UNCHANGED <<list, count>> /\ count = 0
          /\ Holds({}) /\ FreeAbove(0) /\ lines[t] = {}
          /\ printed'[t] = lines'[t]
      BY <1>1, <1>4 DEF Popen, At, Refreshing, Shared
    <2>2. Entered(t)' = {}
      BY <2>1 DEF Entered
    <2>3. Holds({})' /\ FreeAbove(0)'
      BY <2>1 DEF Holds, FreeAbove
    <2>4. reading'[t] = "lines" \/ (reading'[t] = "read" /\ lines'[t] = {})
      BY <1>1, <1>4, <2>1 DEF Popen, At
    <2>5. Cardinality(Entered(t)') = 0
      BY <2>2, FS_EmptySet
    <2>6. CASE reading'[t] = "lines"
      BY <2>1, <2>2, <2>3, <2>5, <2>6 DEF Refreshing
    <2>7. CASE reading'[t] = "read" /\ lines'[t] = {}
      BY <2>1, <2>3, <2>7 DEF Refreshing
    <2> QED
      BY <2>4, <2>6, <2>7
  <1>5. CASE LoadCount(t)
    <2>1. /\ reading[t] = "lines" /\ reading'[t] = "store" /\ lines[t] # {}
          /\ loaded'[t] = count /\ UNCHANGED <<list, count, lines, printed>>
      BY <1>1, <1>5 DEF LoadCount, At
    <2>2. /\ lines[t] \subseteq printed[t] /\ Holds(Entered(t))
          /\ count = Cardinality(Entered(t)) /\ FreeAbove(count)
      BY <1>1, <2>1 DEF Refreshing
    <2>3. Holds(Entered(t))' /\ FreeAbove(count)' /\ Entered(t)' = Entered(t)
      BY <2>1, <2>2 DEF Holds, FreeAbove, Entered
    <2> QED
      BY <2>1, <2>2, <2>3 DEF Refreshing
  <1>6. CASE StoreCount(t)
    <2>1. /\ reading[t] = "store" /\ reading'[t] = "write"
          /\ count' = loaded[t] + 1 /\ UNCHANGED <<list, lines, printed>>
      BY <1>1, <1>6 DEF StoreCount, At
    <2>2. /\ lines[t] \subseteq printed[t] /\ Holds(Entered(t)) /\ lines[t] # {}
          /\ count = Cardinality(Entered(t)) /\ FreeAbove(count) /\ loaded[t] = count
      BY <1>1, <2>1 DEF Refreshing
    <2>3. Holds(Entered(t))' /\ Entered(t)' = Entered(t)
      BY <2>1, <2>2 DEF Holds, Entered
    <2>4. count \in Nat
      <3>1. IsFiniteSet(Entered(t))
        BY <1>1, DeviceAssumption, FS_Subset DEF Entered
      <3> QED
        BY <2>2, <3>1, FS_CardinalityType
    <2>5. count' = Cardinality(Entered(t)') + 1
      BY <2>1, <2>2, <2>3
    <2>6. FreeAbove(count - 1)'
      <3>1. count' - 1 = count
        BY <2>1, <2>2, <2>4
      <3> QED
        BY <2>1, <2>2, <3>1 DEF FreeAbove
    <2> QED
      BY <2>1, <2>2, <2>3, <2>5, <2>6 DEF Refreshing
  <1>7. CASE WriteEntry(t)
    <2>1. /\ reading[t] = "write" /\ reading'[t] = "lines" /\ UNCHANGED <<count, printed>>
      BY <1>1, <1>7 DEF WriteEntry, At
    <2>2. PICK d \in lines[t] :
            /\ list' = [list EXCEPT ![count] = IdOf[d]]
            /\ lines' = [lines EXCEPT ![t] = @ \ {d}]
      BY <1>7 DEF WriteEntry
    <2>3. /\ lines[t] \subseteq printed[t] /\ Holds(Entered(t))
          /\ count = Cardinality(Entered(t)) + 1 /\ FreeAbove(count - 1)
      BY <1>1, <2>1 DEF Refreshing
    <2>4. lines'[t] = lines[t] \ {d} /\ d \in Device /\ d \in printed[t]
      BY <1>1, <2>2, <2>3
    <2>5. Entered(t)' = Entered(t) \cup {d} /\ d \notin Entered(t)
      BY <2>1, <2>2, <2>3, <2>4 DEF Entered
    <2>6. Entered(t) \cup {d} \subseteq Device
      BY <1>1, <2>4 DEF Entered
    <2>7. /\ IsFiniteSet(Entered(t)) /\ Cardinality(Entered(t)) \in Nat
          /\ Cardinality(Entered(t) \cup {d}) <= Cardinality(Device)
      <3>1. IsFiniteSet(Device)
        BY DeviceAssumption
      <3>2. IsFiniteSet(Entered(t) \cup {d}) /\ Cardinality(Entered(t) \cup {d}) <= Cardinality(Device)
        BY <2>6, <3>1, FS_Subset
      <3>3. IsFiniteSet(Entered(t))
        BY <2>6, <3>1, FS_Subset
      <3> QED
        BY <3>2, <3>3, FS_CardinalityType
    <2>8. Cardinality(Entered(t) \cup {d}) = Cardinality(Entered(t)) + 1
      BY <2>5, <2>7, FS_AddElement
    <2>9. Cardinality(Device) \in Nat /\ Cardinality(Device) < ListSize /\ ListSize \in Nat
      BY DeviceAssumption, SizeAssumption, FS_CardinalityType
    <2>10. count \in Nat /\ count > 0 /\ count < ListSize
      BY <2>3, <2>7, <2>8, <2>9
    <2>11. count \in DOMAIN list /\ DOMAIN list' = DOMAIN list /\ DOMAIN list \subseteq Int
      BY <1>1, <2>2, <2>9, <2>10
    <2>12. list[count] = NoId
      BY <2>3, <2>10, <2>11 DEF FreeAbove
    <2>13. /\ list'[count] = IdOf[d]
           /\ \A i \in DOMAIN list : i # count => list'[i] = list[i]
      BY <2>2, <2>11
    <2>14. Holds(Entered(t))'
      <3>1. \A i \in DOMAIN list' : list'[i] = NoId \/ \E e \in Entered(t)' : list'[i] = IdOf[e]
        BY <2>3, <2>5, <2>11, <2>13 DEF Holds
      <3>2. ASSUME NEW e \in Entered(t)' PROVE \E i \in DOMAIN list' : list'[i] = IdOf[e]
        <4>1. CASE e = d
          BY <2>11, <2>13, <4>1
        <4>2. CASE e \in Entered(t)
          <5>1. PICK i \in DOMAIN list : list[i] = IdOf[e]
            BY <2>3, <4>2 DEF Holds
          <5>2. IdOf[e] # NoId
            BY <2>6, <4>2, DeviceAssumption
          <5> QED
            BY <2>11, <2>12, <2>13, <5>1, <5>2
        <4> QED
          BY <2>5, <3>2, <4>1, <4>2
      <3> QED
        BY <3>1, <3>2 DEF Holds
    <2>15. FreeAbove(count)'
      BY <2>1, <2>3, <2>10, <2>11, <2>13 DEF FreeAbove
    <2>16. count' = Cardinality(Entered(t)')
      BY <2>1, <2>3, <2>5, <2>8
    <2>17. lines'[t] \subseteq printed'[t]
      BY <2>1, <2>3, <2>4
    <2> QED
      BY <2>1, <2>14, <2>15, <2>16, <2>17 DEF Refreshing
  <1>8. CASE EndOfLines(t)
    <2>1. /\ reading[t] = "lines" /\ reading'[t] = "read" /\ lines[t] = {}
          /\ UNCHANGED <<list, count, lines, printed>>
      BY <1>1, <1>8 DEF EndOfLines, At
    <2>2. Holds(Entered(t)) /\ Entered(t) = printed[t]
      BY <1>1, <2>1 DEF Refreshing, Entered
    <2>3. Holds(printed[t])'
      BY <2>1, <2>2 DEF Holds
    <2> QED
      BY <2>1, <2>3 DEF Refreshing
  <1> QED
    BY <1>2, <1>3, <1>4, <1>5, <1>6, <1>7, <1>8 DEF RefreshStep

\* A refresh builds a list of what lsusb prints, and is noted by the other threads.
LEMMA InRefreshKeepsHonest ==
  ASSUME IInv, HInv, NEW t \in Thread, InRefresh(t)
  PROVE  HInv'
  <1>1. /\ RefreshStep(t) /\ at[t] \in {"first", "refresh"} /\ at[0] # "first" /\ 0 \in Thread
        /\ disturbed' = disturbed \cup {u \in Thread \ {t} : UsesList(u)}
                                  \cup (IF Racing(t) THEN {t} ELSE {})
        /\ UNCHANGED <<diskVars, bus, nextDisk, at, item, verdicts, togo>>
    BY ScenarioAssumption DEF InRefresh, handlerVars, testVars, IInv, Commands
  <1>2. Shared
    BY DEF HInv
  <1>3. /\ list' \in [0 .. ListSize - 1 -> Id \cup {NoId}]
        /\ DOMAIN loaded' = Thread
    <2>1. CASE WriteEntry(t)
      <3>1. PICK d \in lines[t] : list' = [list EXCEPT ![count] = IdOf[d]]
        BY <2>1 DEF WriteEntry
      <3>2. IdOf[d] \in Id
        BY <1>2, <3>1 DEF Shared, Id
      <3>3. loaded' = loaded
        BY <2>1 DEF WriteEntry
      <3> QED
        BY <1>2, <3>1, <3>2, <3>3 DEF Shared
    <2>2. CASE ClearCount(t) \/ Popen(t) \/ LoadCount(t) \/ StoreCount(t) \/ EndOfLines(t)
      BY <1>2, <2>2 DEF Shared, ClearCount, Popen, LoadCount, StoreCount, EndOfLines
    <2>3. CASE ClearEntries(t)
      BY <1>2, <2>3 DEF Shared, ClearEntries
    <2> QED
      BY <1>1, <2>1, <2>2, <2>3 DEF RefreshStep
  <1>4. /\ lines' \in [Thread -> SUBSET Device] /\ printed' \in [Thread -> SUBSET Device]
        /\ \A u \in Thread \ {t} : lines'[u] = lines[u] /\ printed'[u] = printed[u]
    <2>1. CASE Popen(t)
      <3>1. lines' \in [Thread -> SUBSET Device] /\ \A u \in Thread \ {t} : lines'[u] = lines[u]
        BY <1>2, <2>1 DEF Popen, Shared
      <3> QED
        BY <1>2, <2>1, <3>1 DEF Popen, Shared
    <2>2. CASE WriteEntry(t)
      BY <1>2, <2>2 DEF WriteEntry, Shared
    <2>3. CASE ClearCount(t) \/ ClearEntries(t) \/ LoadCount(t) \/ StoreCount(t) \/ EndOfLines(t)
      BY <1>2, <2>3 DEF Shared, ClearCount, ClearEntries, LoadCount, StoreCount, EndOfLines
    <2> QED
      BY <1>1, <2>1, <2>2, <2>3 DEF RefreshStep
  <1>5. /\ reading' \in [Thread -> ReadingStates]
        /\ \A u \in Thread \ {t} : reading'[u] = reading[u]
    BY <1>1, <1>2 DEF RefreshStep, ClearCount, ClearEntries, Popen, LoadCount, StoreCount,
                      WriteEntry, EndOfLines, At, Shared, ReadingStates
  <1>6. reading'[t] \notin {"lines", "store", "write"} => lines'[t] = {}
    <2>1. CASE ClearCount(t) \/ ClearEntries(t) \/ Popen(t) \/ EndOfLines(t)
      BY <1>2, <2>1 DEF ClearCount, ClearEntries, Popen, EndOfLines, At, Shared
    <2>2. CASE LoadCount(t) \/ StoreCount(t) \/ WriteEntry(t)
      BY <1>2, <2>2 DEF LoadCount, StoreCount, WriteEntry, At, Shared
    <2> QED
      BY <1>1, <2>1, <2>2 DEF RefreshStep
  <1>7. Shared'
    <2>1. disturbed' \subseteq Thread
      BY <1>1, <1>2 DEF Shared
    <2>2. \A u \in Thread :
            /\ at'[u] \notin {"first", "refresh"} => reading'[u] = "no"
            /\ reading'[u] \notin {"lines", "store", "write"} => lines'[u] = {}
      BY <1>1, <1>2, <1>4, <1>5, <1>6 DEF Shared
    <2> QED
      BY <1>1, <1>2, <1>3, <1>4, <1>5, <2>1, <2>2 DEF Shared
  <1>8. \A u \in Thread \ {t} : at'[u] \in {"judge", "refresh"} => u \in disturbed'
    BY <1>1 DEF UsesList
  <1>9. Lists'
    <2> SUFFICES ASSUME NEW u \in Thread, Uses(u)' PROVE ~Racing(u)' /\ Refreshing(u)'
      BY DEF Lists
    <2>1. u = t /\ at[t] = "refresh" /\ t \notin disturbed /\ ~Racing(t)
      BY <1>1, <1>8 DEF Uses
    <2>2. ~Racing(t)'
      BY <1>5, <2>1 DEF Racing
    <2>3. reading[t] # "no" => Refreshing(t)
      BY <2>1 DEF HInv, Lists, Uses
    <2>4. Refreshing(t)'
      BY <1>1, <1>2, <2>1, <2>3, RefreshBuilds DEF Shared
    <2> QED
      BY <2>1, <2>2, <2>4
  <1>10. HonestItems'
    BY <1>1, <1>8, HonestKept DEF HInv
  <1>11. Fresh' /\ Disks'
    BY <1>1, FreshKept, DisksKept DEF HInv
  <1> QED
    BY <1>7, <1>9, <1>10, <1>11 DEF HInv

\* The steps of the scan leave the list alone.
LEMMA ScanKeepsLists ==
  ASSUME HInv, 0 \in Thread,
         UNCHANGED <<lsusbVars, bus, item, togo, disturbed>>,
         at[0] \in {"pop", "scan"}, at'[0] \in {"scan", "refresh"},
         \A t \in Thread \ {0} : at'[t] = at[t] /\ verdicts'[t] = verdicts[t],
         verdicts'[0] \in [DOMAIN Store -> {"none", "OK", "NG", "SKIP"}]
  PROVE  Shared' /\ Lists' /\ HonestItems'
  <1>1. UNCHANGED <<list, count, reading, lines, loaded, printed>> /\ reading[0] = "no"
    BY DEF lsusbVars, HInv, Shared
  <1>2. Shared'
    <2>1. \A u \in Thread :
            /\ at'[u] \notin {"first", "refresh"} => reading'[u] = "no"
            /\ reading'[u] \notin {"lines", "store", "write"} => lines'[u] = {}
      BY <1>1 DEF HInv, Shared
    <2> QED
      BY <1>1, <2>1 DEF HInv, Shared
  <1>3. Lists'
    <2>1. \A u \in Thread : Uses(u)' => Uses(u) /\ at'[u] = at[u]
      BY <1>1 DEF Uses
    <2> QED
      BY <1>1, <2>1, ListsKept DEF HInv
  <1>4. HonestItems'
    BY <1>1, HonestKept DEF HInv
  <1> QED
    BY <1>2, <1>3, <1>4

\* A new storage test has no verdicts and no disks.
LEMMA BeginStorageKeepsHonest ==
  ASSUME IInv, HInv, BeginStorage
  PROVE  HInv'
  <1>1. /\ 0 \in Thread /\ at \in [Thread -> TestStates \cup {"pop", "show", "scan"}]
        /\ DOMAIN verdicts = Thread
    BY ScenarioAssumption DEF IInv, Shape
  <1>2. /\ at[0] = "pop" /\ at' = [at EXCEPT ![0] = "scan"]
        /\ BeginScan /\ nextDisk' = 0
        /\ verdicts' = [verdicts EXCEPT ![0] = [j \in DOMAIN Store |-> "none"]]
        /\ UNCHANGED <<lsusbVars, bus, item, togo, disturbed>>
    BY DEF BeginStorage, Go, testVars
  <1>3. /\ at'[0] = "scan" /\ \A t \in Thread \ {0} : at'[t] = at[t] /\ verdicts'[t] = verdicts[t]
        /\ verdicts'[0] = [j \in DOMAIN Store |-> "none"]
    BY <1>1, <1>2
  <1>4. Shared' /\ Lists' /\ HonestItems'
    BY <1>1, <1>2, <1>3, ScanKeepsLists
  <1>5. Fresh'
    BY <1>3 DEF Fresh
  <1>6. Disks'
    <2>1. /\ diskCount' = 0 /\ unscanned' \subseteq MassStorage /\ attached' = MassStorage
          /\ most' = (IF most < diskCount THEN diskCount ELSE most) /\ diskSize' = diskSize
      BY <1>2 DEF BeginScan
    <2>2. MassStorage \subseteq Disk /\ IsFiniteSet(MassStorage)
      BY DeviceAssumption, FS_Subset DEF MassStorage
    <2>3. Cardinality(unscanned') <= Cardinality(attached') /\ Cardinality(unscanned') \in Nat
      BY <2>1, <2>2, FS_Subset, FS_CardinalityType
    <2>4. diskCount \in Nat /\ most \in Nat /\ diskSize \in [0 .. DiskListSize - 1 -> Nat]
          /\ \A i \in DOMAIN diskSize : i > most /\ i > diskCount => diskSize[i] = 0
      BY DEF HInv, Disks
    <2>5. diskCount' \in Nat /\ most' \in Nat /\ most' >= most /\ most' >= diskCount
      BY <2>1, <2>4
    <2>6. \A i \in DOMAIN diskSize' : i > most' /\ i > diskCount' => diskSize'[i] = 0
      BY <2>1, <2>4, <2>5
    <2>7. diskCount' + Cardinality(unscanned') <= Cardinality(attached')
      BY <2>1, <2>3
    <2> QED
      BY <1>2, <1>3, <2>1, <2>2, <2>4, <2>5, <2>6, <2>7 DEF Disks
  <1> QED
    BY <1>4, <1>5, <1>6 DEF HInv

\* A scan counts no more disks than are attached, and enters their sizes.
LEMMA ScanKeepsHonest ==
  ASSUME IInv, HInv, Scan
  PROVE  HInv'
  <1>1. /\ 0 \in Thread /\ at \in [Thread -> TestStates \cup {"pop", "show", "scan"}]
        /\ at[0] = "scan"
        /\ UNCHANGED <<lsusbVars, bus, nextDisk, item, verdicts, togo, disturbed>>
    BY ScenarioAssumption DEF IInv, Shape, Scan, handlerVars, testVars
  <1>2. /\ at'[0] \in {"scan", "refresh"} /\ \A t \in Thread \ {0} : at'[t] = at[t]
    BY <1>1 DEF Scan, Go
  <1>3. Shared' /\ Lists' /\ HonestItems'
    BY <1>1, <1>2, ScanKeepsLists DEF HInv, Shared
  <1>4. Fresh'
    BY <1>1, <1>2 DEF HInv, Fresh
  <1>5. nextDisk' = 0 /\ at'[0] # "judge"
    BY <1>1, <1>2 DEF HInv, Disks
  <1>6. ASSUME UNCHANGED diskVars PROVE Disks'
    BY <1>5, <1>6 DEF HInv, Disks, diskVars
  <1>7. ASSUME ScanDisk PROVE Disks'
    <2>1. PICK d \in unscanned :
            /\ unscanned' = unscanned \ {d}
            /\ \/ \E e \in SameId(d) : AddDisk(e)
               \/ UNCHANGED <<diskCount, diskSize>>
            /\ UNCHANGED <<attached, most>>
      BY <1>7 DEF ScanDisk
    <2>2. /\ diskCount \in Nat /\ most \in Nat
          /\ unscanned \subseteq Disk /\ attached \subseteq Disk
          /\ diskCount + Cardinality(unscanned) <= Cardinality(attached)
          /\ diskSize \in [0 .. DiskListSize - 1 -> Nat]
          /\ \A i \in DOMAIN diskSize : i > most /\ i > diskCount => diskSize[i] = 0
      BY DEF HInv, Disks
    <2>3. IsFiniteSet(Disk) /\ IsFiniteSet(unscanned)
      BY <2>2, DeviceAssumption, FS_Subset
    <2>4. /\ Cardinality(unscanned) \in Nat /\ Cardinality(unscanned') = Cardinality(unscanned) - 1
          /\ Cardinality(unscanned') \in Nat /\ unscanned' \subseteq Disk
      <3>1. IsFiniteSet(unscanned')
        BY <2>1, <2>3, FS_Subset
      <3>2. Cardinality(unscanned \ {d}) = Cardinality(unscanned) - 1
        BY <2>1, <2>3, FS_RemoveElement
      <3>3. Cardinality(unscanned) \in Nat /\ Cardinality(unscanned') \in Nat
        BY <2>3, <3>1, FS_CardinalityType
      <3> QED
        BY <2>1, <2>2, <3>2, <3>3
    <2>5. Cardinality(attached) \in Nat /\ Cardinality(attached) <= Cardinality(Disk)
          /\ Cardinality(Disk) \in Nat
      BY <2>2, <2>3, FS_Subset, FS_CardinalityType
    <2>6. CASE UNCHANGED <<diskCount, diskSize>>
      <3>1. diskCount' + Cardinality(unscanned') <= Cardinality(attached')
        BY <2>1, <2>2, <2>4, <2>5, <2>6
      <3> QED
        BY <1>5, <2>1, <2>2, <2>4, <2>6, <3>1 DEF Disks
    <2>7. ASSUME NEW e \in SameId(d), AddDisk(e) PROVE Disks'
      <3>1. PICK size \in SizesOf[e] : diskSize' = [diskSize EXCEPT ![diskCount + 1] = size]
        BY <2>7 DEF AddDisk
      <3>2. diskCount' = diskCount + 1
        BY <2>7 DEF AddDisk
      <3>3. size \in Nat
        BY <2>7, <3>1, DeviceAssumption DEF SameId
      <3>4. diskSize' \in [0 .. DiskListSize - 1 -> Nat]
        BY <2>2, <3>1, <3>3
      <3>5. diskCount' \in Nat /\ diskCount' + Cardinality(unscanned') <= Cardinality(attached')
        BY <2>1, <2>2, <2>4, <2>5, <3>2
      <3>6. \A i \in DOMAIN diskSize' : i > most' /\ i > diskCount' => diskSize'[i] = 0
        <4>1. DOMAIN diskSize' = DOMAIN diskSize /\ DOMAIN diskSize \subseteq Int
          BY <2>2, <3>1, SizeAssumption
        <4>2. \A i \in DOMAIN diskSize : i # diskCount + 1 => diskSize'[i] = diskSize[i]
          BY <2>2, <3>1
        <4> QED
          BY <2>1, <2>2, <3>2, <4>1, <4>2
      <3> QED
        BY <1>5, <2>1, <2>2, <2>4, <3>4, <3>5, <3>6 DEF Disks
    <2>8. (\E e \in SameId(d) : AddDisk(e)) \/ UNCHANGED <<diskCount, diskSize>>
      BY <2>1
    <2> QED
      BY <2>6, <2>7, <2>8
  <1>8. Disks'
    <2>1. ScanDisk \/ UNCHANGED diskVars
      BY DEF Scan
    <2> QED
      BY <1>6, <1>7, <2>1
  <1> QED
    BY <1>3, <1>4, <1>8 DEF HInv

\* A test that is undisturbed meets in the list what lsusb printed to it.
LEMMA MeetsPrinted ==
  ASSUME HInv, NEW t \in Thread, t \notin disturbed, at[t] = "judge",
         NEW id, id # NoId, NEW found \in Meets(t, id)
  PROVE  found <=> \E d \in printed[t] : IdOf[d] = id
  <1>1. ~Racing(t) /\ Holds(printed[t])
    BY DEF HInv, Lists, Uses, Refreshing
  <1>2. found = \E i \in DOMAIN list : list[i] = id
    BY <1>1 DEF Meets
  <1> QED
    BY <1>1, <1>2 DEF Holds

\* A type-C test judges an item.
LEMMA JudgeItemKeepsHonest ==
  ASSUME IInv, HInv, NEW k \in Worker, JudgeItem(k)
  PROVE  HInv'
  <1>1. /\ k \in Thread /\ k # 0 /\ 0 \in Thread
        /\ item \in [Thread -> Nat \ {0}] /\ DOMAIN verdicts = Thread
        /\ verdicts[k] \in [DOMAIN Items -> {"none", "OK", "NG"}]
    BY ScenarioAssumption DEF IInv, Shape, Worker
  <1>2. /\ at[k] = "judge" /\ item[k] \in DOMAIN Items /\ item' = [item EXCEPT ![k] = @ + 1]
        /\ UNCHANGED <<lsusbVars, diskVars, nextDisk, bus, at, togo, disturbed>>
    BY DEF JudgeItem, handlerVars
  <1>3. UNCHANGED <<list, count, reading, lines, loaded, printed>>
    BY <1>2 DEF lsusbVars
  <1>4. /\ \A t \in Thread \ {k} : verdicts'[t] = verdicts[t] /\ item'[t] = item[t]
        /\ \A j \in DOMAIN Items : j # item[k] => verdicts'[k][j] = verdicts[k][j]
        /\ item'[k] = item[k] + 1
    <2>1. ASSUME NEW it, verdicts' = [verdicts EXCEPT ![k][item[k]] = it]
          PROVE  /\ \A t \in Thread \ {k} : verdicts'[t] = verdicts[t]
                 /\ \A j \in DOMAIN Items : j # item[k] => verdicts'[k][j] = verdicts[k][j]
      BY <1>1, <2>1
    <2>2. /\ \A t \in Thread \ {k} : verdicts'[t] = verdicts[t]
          /\ \A j \in DOMAIN Items : j # item[k] => verdicts'[k][j] = verdicts[k][j]
      <3>1. (\E it : verdicts' = [verdicts EXCEPT ![k][item[k]] = it]) \/ verdicts' = verdicts
        BY DEF JudgeItem
      <3> QED
        BY <2>1, <3>1
    <2> QED
      BY <1>1, <1>2, <2>2
  <1>5. ASSUME Items[item[k]].side = Side(k), Tested(Items[item[k]]), k \notin disturbed,
               Items[item[k]].id # NoId
        PROVE  verdicts'[k][item[k]] = "OK" <=> \E d \in printed[k] : IdOf[d] = Items[item[k]].id
    <2>1. PICK found \in Meets(k, Items[item[k]].id) :
            verdicts' = [verdicts EXCEPT ![k][item[k]] = IF found THEN "OK" ELSE "NG"]
      BY <1>5 DEF JudgeItem
    <2>2. found <=> \E d \in printed[k] : IdOf[d] = Items[item[k]].id
      BY <1>1, <1>2, <1>5, <2>1, MeetsPrinted
    <2>3. verdicts'[k][item[k]] = IF found THEN "OK" ELSE "NG"
      BY <1>1, <1>2, <2>1
    <2> QED
      BY <2>2, <2>3
  <1>6. Shared'
    BY <1>1, <1>2, <1>3, <1>4, SharedKept DEF HInv, Shared
  <1>7. Lists'
    <2>1. \A u \in Thread : Uses(u)' => Uses(u) /\ at'[u] = at[u]
      BY <1>2, <1>3 DEF Uses
    <2> QED
      BY <1>2, <1>3, <2>1, ListsKept DEF HInv
  <1>8. HonestItems'
    <2>1. ASSUME NEW m \in Worker, m \notin disturbed', at'[m] = "judge",
                 NEW j \in 1 .. item'[m] - 1, Items[j].side = Side(m)', Tested(Items[j]),
                 Items[j].id # NoId
          PROVE  verdicts'[m][j] = "OK" <=> \E d \in printed'[m] : IdOf[d] = Items[j].id
      <3>1. Side(m)' = Side(m) /\ m \in Thread
        BY <1>2 DEF Side, Worker
      <3>2. CASE m # k
        <4>1. item'[m] = item[m] /\ verdicts'[m] = verdicts[m]
          BY <1>4, <3>1, <3>2
        <4> QED
          BY <1>2, <1>3, <2>1, <3>1, <4>1 DEF HInv, HonestItems
      <3>3. CASE m = k /\ j # item[k]
        <4>1. j \in 1 .. item[k] - 1 /\ j \in DOMAIN Items
          <5>1. PICK n \in Nat : DOMAIN Items = 1 .. n
            BY ItemsAreCounted
          <5> QED
            BY <1>1, <1>2, <1>4, <2>1, <3>3, <5>1
        <4>2. verdicts'[k][j] = verdicts[k][j]
          BY <1>4, <3>3, <4>1
        <4> QED
          BY <1>2, <1>3, <2>1, <3>1, <3>3, <4>1, <4>2 DEF HInv, HonestItems
      <3>4. CASE m = k /\ j = item[k]
        BY <1>2, <1>3, <1>5, <2>1, <3>1, <3>4
      <3> QED
        BY <3>2, <3>3, <3>4
    <2>2. ASSUME 0 \notin disturbed', at'[0] = "judge", NEW j \in 1 .. item'[0] - 1,
                 Facility(Store[j].name), Store[j].enable, Store[j].id # NoId
          PROVE  verdicts'[0][j] = "OK" <=> \E d \in printed'[0] : IdOf[d] = Store[j].id
      <3>1. item'[0] = item[0] /\ verdicts'[0] = verdicts[0]
        BY <1>1, <1>4
      <3> QED
        BY <1>2, <1>3, <2>2, <3>1 DEF HInv, HonestItems
    <2> QED
      BY <2>1, <2>2 DEF HonestItems
  <1>9. Fresh' /\ Disks'
    BY <1>1, <1>2, <1>4, FreshKept, DisksKept DEF HInv
  <1> QED
    BY <1>6, <1>7, <1>8, <1>9 DEF HInv

\* Which test the name of an item of the storage test asks for.
LEMMA FacilityNames ==
  ASSUME NEW name, Facility(name)
  PROVE  TestItem(name) = "FACILITYUSB"
  <1> DEFINE hits == {i \in DOMAIN Contained : Contained[i].words \subseteq name}
             best == CHOOSE i \in hits : \A h \in hits : i <= h
  <1>1. /\ DOMAIN Contained = 1 .. 5
        /\ Contained[1] = [words |-> {"facility", "3.0"}, item |-> "FACILITYUSB"]
        /\ Contained[2] = [words |-> {"facility", "2.0"}, item |-> "FACILITYUSB"]
    BY DEF Contained
  <1>2. hits \subseteq 1 .. 5 /\ (1 \in hits \/ 2 \in hits)
    BY <1>1 DEF Facility
  <1>3. \E i \in hits : \A h \in hits : i <= h
    <2>1. CASE 1 \in hits
      BY <1>2, <2>1
    <2>2. CASE 1 \notin hits /\ 2 \in hits
      <3>1. \A h \in hits : 2 <= h
        BY <1>2, <2>2
      <3> QED
        BY <2>2, <3>1
    <2> QED
      BY <1>2, <2>1, <2>2
  <1>4. best \in hits /\ \A h \in hits : best <= h
    BY <1>3
  <1> HIDE DEF hits, best
  <1>5. best \in {1, 2}
    BY <1>2, <1>4
  <1>6. Contained[best].item = "FACILITYUSB" /\ hits # {}
    BY <1>1, <1>4, <1>5
  <1>7. ~\E w \in DOMAIN Whole : name = {w}
    <2>1. DOMAIN Whole = {"ddr", "emmc"}
      BY DEF Whole
    <2>2. "facility" \in name
      BY DEF Facility
    <2> QED
      BY <2>1, <2>2
  <1> QED
    BY <1>6, <1>7 DEF TestItem, hits, best

\* One that is just "usb" asks for a disk.
LEMMA UsbNames ==
  ASSUME NEW name, name = {"usb"}
  PROVE  TestItem(name) = "USB"
  <1> DEFINE hits == {i \in DOMAIN Contained : Contained[i].words \subseteq name}
             best == CHOOSE i \in hits : \A h \in hits : i <= h
  <1>1. /\ DOMAIN Contained = 1 .. 5
        /\ "facility" \in Contained[1].words /\ "facility" \in Contained[2].words
        /\ "usb_tf" \in Contained[3].words /\ "usb_pcie" \in Contained[4].words
        /\ Contained[5].words = {"usb"} /\ Contained[5].item = "USB"
    BY DEF Contained
  <1>2. hits = {5}
    <2>1. \A i \in 1 .. 5 : i = 1 \/ i = 2 \/ i = 3 \/ i = 4 \/ i = 5
      OBVIOUS
    <2>2. 1 \notin hits /\ 2 \notin hits /\ 3 \notin hits /\ 4 \notin hits /\ 5 \in hits
      BY <1>1
    <2>3. hits \subseteq 1 .. 5
      BY <1>1
    <2> HIDE DEF hits
    <2> QED
      BY <2>1, <2>2, <2>3
  <1>3. best = 5
    <2>1. \E i \in hits : \A h \in hits : i <= h
      BY <1>2
    <2>2. best \in hits
      BY <2>1
    <2> QED
      BY <1>2, <2>2
  <1> HIDE DEF hits, best
  <1>4. ~\E w \in DOMAIN Whole : name = {w}
    <2>1. DOMAIN Whole = {"ddr", "emmc"}
      BY DEF Whole
    <2> QED
      BY <2>1
  <1> QED
    BY <1>1, <1>2, <1>3, <1>4 DEF TestItem, hits, best

\* The items of a storage test are numbered from 1.
LEMMA StoreIsCounted == \E n \in Nat : DOMAIN Store = 1 .. n
  BY StoreAssumption

\* The storage test judges an item.
LEMMA JudgeStoreKeepsHonest ==
  ASSUME IInv, HInv, JudgeStore
  PROVE  HInv'
  <1> DEFINE it == Store[item[0]]
             kind == Kind[item[0]]
  <1>1. /\ 0 \in Thread /\ item \in [Thread -> Nat \ {0}] /\ DOMAIN verdicts = Thread
        /\ verdicts[0] \in [DOMAIN Store -> {"none", "OK", "NG", "SKIP"}]
    BY ScenarioAssumption DEF IInv, Shape, HInv, Shared
  <1>2. /\ at[0] = "judge" /\ item[0] \in DOMAIN Store /\ item' = [item EXCEPT ![0] = @ + 1]
        /\ UNCHANGED <<lsusbVars, diskVars, bus, at, togo, disturbed>>
    BY DEF JudgeStore, testVars
  <1>3. UNCHANGED <<list, count, reading, lines, loaded, printed>>
        /\ UNCHANGED <<diskCount, diskSize, unscanned, attached, most>>
    BY <1>2 DEF lsusbVars, diskVars
  <1>4. kind = TestItem(it.name)
    BY <1>2 DEF Kind
  <1>5. /\ nextDisk \in Nat /\ diskCount \in Nat /\ most \in Nat
        /\ diskSize \in [0 .. DiskListSize - 1 -> Nat]
        /\ \A i \in DOMAIN diskSize : i > most /\ i > diskCount => diskSize[i] = 0
        /\ most <= diskCount => Cardinality(DisksOK) <= nextDisk /\ Cardinality(DisksOK) <= diskCount
    BY <1>2 DEF HInv, Disks
  <1>6. diskCount + 1 < DiskListSize
    <2>1. /\ diskCount + Cardinality(unscanned) <= Cardinality(attached)
          /\ unscanned \subseteq Disk /\ attached \subseteq Disk
      BY DEF HInv, Disks
    <2>2. IsFiniteSet(Disk)
      BY DeviceAssumption, FS_Subset
    <2>3. /\ IsFiniteSet(unscanned) /\ IsFiniteSet(attached)
          /\ Cardinality(attached) <= Cardinality(Disk)
      BY <2>1, <2>2, FS_Subset
    <2>4. /\ Cardinality(unscanned) \in Nat /\ Cardinality(attached) \in Nat
          /\ Cardinality(Disk) \in Nat
      BY <2>2, <2>3, FS_CardinalityType
    <2> QED
      BY <1>5, <2>1, <2>3, <2>4, SizeAssumption
  <1> HIDE DEF it, kind
  \* Whichever of the four cases it is, this is what becomes of the verdicts.
  <1>7. PICK v \in {"none", "OK", "NG", "SKIP"} :
          /\ \/ verdicts' = [verdicts EXCEPT ![0][item[0]] = v]
             \/ verdicts' = verdicts /\ v = verdicts[0][item[0]]
          /\ \/ kind = "USB" /\ it.enable /\ v = JudgeDisk(it).verdict /\ nextDisk' = JudgeDisk(it).disk
             \/ nextDisk' = nextDisk /\ (kind = "USB" => ~it.enable)
          /\ kind = "FACILITYUSB" /\ it.enable =>
               \E found \in Meets(0, it.id) : v = IF found THEN "OK" ELSE verdicts[0][item[0]]
    <2> DEFINE Set(v) == verdicts' = [verdicts EXCEPT ![0][item[0]] = v]
    <2>1. CASE /\ ~it.enable \/ kind = "NONE"
               /\ Set(CASE kind = "NONE" -> "none" [] kind = "USB" -> "OK" [] OTHER -> "SKIP")
               /\ UNCHANGED nextDisk
      <3> DEFINE v == CASE kind = "NONE" -> "none" [] kind = "USB" -> "OK" [] OTHER -> "SKIP"
      <3>1. v \in {"none", "OK", "NG", "SKIP"}
        OBVIOUS
      <3>2. Set(v) /\ nextDisk' = nextDisk /\ (~it.enable \/ kind = "NONE")
        BY <2>1
      <3> HIDE DEF v
      <3> QED
        BY <3>1, <3>2
    <2>2. CASE /\ it.enable /\ kind \in {"DDR", "EMMC", "TF", "USB_PCIE"}
               /\ \E size \in IF kind = "TF" THEN GetTfCardSize ELSE GetSize : Set(InRange(size, it))
               /\ UNCHANGED nextDisk
      <3>1. PICK size : Set(InRange(size, it))
        BY <2>2
      <3>2. InRange(size, it) \in {"none", "OK", "NG", "SKIP"}
        BY DEF InRange
      <3>3. nextDisk' = nextDisk /\ kind \notin {"USB", "FACILITYUSB"}
        BY <2>2
      <3> QED
        BY <3>1, <3>2, <3>3
    <2>3. CASE /\ it.enable /\ kind = "USB"
               /\ Set(JudgeDisk(it).verdict) /\ nextDisk' = JudgeDisk(it).disk
      <3>1. JudgeDisk(it).verdict \in {"none", "OK", "NG", "SKIP"}
        BY DEF JudgeDisk, InRange
      <3> QED
        BY <2>3, <3>1
    <2>4. CASE /\ it.enable /\ kind = "FACILITYUSB"
               /\ \E found \in Meets(0, it.id) : IF found THEN Set("OK") ELSE UNCHANGED verdicts
               /\ UNCHANGED nextDisk
      <3>1. PICK found \in Meets(0, it.id) : IF found THEN Set("OK") ELSE UNCHANGED verdicts
        BY <2>4
      <3>2. CASE found
        BY <2>4, <3>1, <3>2
      <3>3. CASE ~found
        <4>1. verdicts' = verdicts
          BY <3>1, <3>3
        <4>2. verdicts[0][item[0]] \in {"none", "OK", "NG", "SKIP"}
          BY <1>1, <1>2
        <4> QED
          BY <2>4, <3>1, <3>3, <4>1, <4>2
      <3> QED
        BY <3>2, <3>3
    <2> QED
      BY <2>1, <2>2, <2>3, <2>4 DEF JudgeStore, it, kind
  <1>8. /\ \A t \in Thread \ {0} : verdicts'[t] = verdicts[t] /\ item'[t] = item[t]
        /\ \A j \in DOMAIN Store : j # item[0] => verdicts'[0][j] = verdicts[0][j]
        /\ verdicts'[0] \in [DOMAIN Store -> {"none", "OK", "NG", "SKIP"}]
        /\ verdicts'[0][item[0]] = v
    BY <1>1, <1>2, <1>7
  <1>9. item'[0] = item[0] + 1
    BY <1>1, <1>2
  <1>10. Shared'
    BY <1>2, <1>3, <1>8 DEF HInv, Shared
  <1>11. Lists'
    <2>1. \A u \in Thread : Uses(u)' => Uses(u) /\ at'[u] = at[u]
      BY <1>2, <1>3 DEF Uses
    <2> QED
      BY <1>2, <1>3, <2>1, ListsKept DEF HInv
  <1>12. PICK n \in Nat : DOMAIN Store = 1 .. n
    BY StoreIsCounted
  <1>13. Fresh'
    <2>1. \A j \in DOMAIN Store : j >= item'[0] => j # item[0] /\ j >= item[0]
      BY <1>1, <1>2, <1>9, <1>12
    <2> QED
      BY <1>2, <1>8, <2>1 DEF HInv, Fresh
  <1>14. HonestItems'
    <2>1. ASSUME NEW m \in Worker, m \notin disturbed', at'[m] = "judge",
                 NEW j \in 1 .. item'[m] - 1, Items[j].side = Side(m)', Tested(Items[j]),
                 Items[j].id # NoId
          PROVE  verdicts'[m][j] = "OK" <=> \E d \in printed'[m] : IdOf[d] = Items[j].id
      <3>1. Side(m)' = Side(m) /\ item'[m] = item[m] /\ verdicts'[m] = verdicts[m]
        BY <1>2, <1>8 DEF Side, Worker
      <3> QED
        BY <1>2, <1>3, <2>1, <3>1 DEF HInv, HonestItems
    <2>2. ASSUME 0 \notin disturbed', at'[0] = "judge", NEW j \in 1 .. item'[0] - 1,
                 Facility(Store[j].name), Store[j].enable, Store[j].id # NoId
          PROVE  verdicts'[0][j] = "OK" <=> \E d \in printed'[0] : IdOf[d] = Store[j].id
      <3>1. CASE j # item[0]
        <4>1. j \in 1 .. item[0] - 1 /\ j \in DOMAIN Store
          BY <1>1, <1>2, <1>9, <1>12, <2>2, <3>1
        <4>2. verdicts'[0][j] = verdicts[0][j]
          BY <1>8, <3>1, <4>1
        <4> QED
          BY <1>2, <1>3, <2>2, <4>1, <4>2 DEF HInv, HonestItems
      <3>2. CASE j = item[0]
        <4>1. kind = "FACILITYUSB" /\ it.enable /\ it.id = Store[j].id
          BY <1>4, <2>2, <3>2, FacilityNames DEF it
        <4>2. PICK found \in Meets(0, it.id) : v = IF found THEN "OK" ELSE verdicts[0][item[0]]
          BY <1>7, <4>1
        <4>3. found <=> \E d \in printed[0] : IdOf[d] = it.id
          BY <1>1, <1>2, <2>2, <4>1, <4>2, MeetsPrinted
        <4>4. verdicts[0][item[0]] = "none"
          <5>1. item[0] >= item[0]
            BY <1>1
          <5> QED
            BY <1>2, <5>1 DEF HInv, Fresh
        <4> QED
          BY <1>3, <1>8, <3>2, <4>1, <4>2, <4>3, <4>4
      <3> QED
        BY <3>1, <3>2
    <2> QED
      BY <2>1, <2>2 DEF HonestItems
  <1>15. /\ nextDisk' \in Nat /\ nextDisk' >= nextDisk
         /\ nextDisk' = nextDisk \/ nextDisk' = nextDisk + 1
    BY <1>5, <1>7 DEF JudgeDisk
  \* Only a disk of this scan can be large enough, unless an earlier one found more.
  <1>16. ASSUME item[0] \in DisksOK', most <= diskCount
         PROVE  nextDisk' = nextDisk + 1 /\ nextDisk + 1 <= diskCount
    <2>1. it.name = {"usb"} /\ it.enable /\ it.min > 0 /\ v = "OK" /\ it.min \in Int
      BY <1>2, <1>8, <1>16, StoreAssumption DEF DisksOK, it
    <2>2. kind = "USB"
      BY <1>4, <2>1, UsbNames
    <2>3. v = JudgeDisk(it).verdict /\ nextDisk' = JudgeDisk(it).disk
      BY <1>7, <2>1, <2>2
    <2>4. nextDisk <= diskCount /\ nextDisk' = nextDisk + 1 /\ InRange(diskSize[nextDisk + 1], it) = "OK"
      BY <2>1, <2>3 DEF JudgeDisk
    <2>5. diskSize[nextDisk + 1] >= it.min
      BY <2>4 DEF InRange
    <2>6. nextDisk + 1 \in 0 .. DiskListSize - 1
      BY <1>5, <1>6, <2>4, SizeAssumption
    <2>7. diskSize[nextDisk + 1] \in Nat /\ nextDisk + 1 \in DOMAIN diskSize
      BY <1>5, <2>6
    <2>8. diskSize[nextDisk + 1] # 0
      BY <2>1, <2>5, <2>7
    <2>9. ~(nextDisk + 1 > most /\ nextDisk + 1 > diskCount)
      BY <1>5, <2>7, <2>8
    <2> QED
      BY <1>5, <1>16, <2>4, <2>9
  <1>17. DisksOK' \subseteq DisksOK \cup {item[0]}
    BY <1>8 DEF DisksOK
  <1>18. ASSUME most <= diskCount
         PROVE  Cardinality(DisksOK') <= nextDisk' /\ Cardinality(DisksOK') <= diskCount
    <2>1. IsFiniteSet(DisksOK) /\ Cardinality(DisksOK) \in Nat
      <3>1. DisksOK \subseteq 1 .. n
        BY <1>12 DEF DisksOK
      <3>2. IsFiniteSet(1 .. n)
        BY <1>12, FS_Interval
      <3>3. IsFiniteSet(DisksOK)
        BY <3>1, <3>2, FS_Subset
      <3> QED
        BY <3>3, FS_CardinalityType
    <2>2. CASE item[0] \in DisksOK'
      <3>1. /\ IsFiniteSet(DisksOK \cup {item[0]})
            /\ Cardinality(DisksOK \cup {item[0]}) <= Cardinality(DisksOK) + 1
        BY <2>1, FS_AddElement
      <3>2. Cardinality(DisksOK \cup {item[0]}) \in Nat
        BY <3>1, FS_CardinalityType
      <3>3. IsFiniteSet(DisksOK') /\ Cardinality(DisksOK') <= Cardinality(DisksOK \cup {item[0]})
        BY <1>17, <3>1, FS_Subset
      <3>4. Cardinality(DisksOK') \in Nat
        BY <3>3, FS_CardinalityType
      <3>5. nextDisk' = nextDisk + 1 /\ nextDisk + 1 <= diskCount
        BY <1>16, <1>18, <2>2
      <3> QED
        BY <1>5, <1>18, <2>1, <3>1, <3>2, <3>3, <3>4, <3>5
    <2>3. CASE item[0] \notin DisksOK'
      <3>1. IsFiniteSet(DisksOK') /\ Cardinality(DisksOK') <= Cardinality(DisksOK)
        BY <1>17, <2>1, <2>3, FS_Subset
      <3>2. Cardinality(DisksOK') \in Nat
        BY <3>1, FS_CardinalityType
      <3> QED
        BY <1>5, <1>15, <1>18, <2>1, <3>1, <3>2
    <2> QED
      BY <2>2, <2>3
  <1>19. Disks'
    BY <1>2, <1>3, <1>15, <1>18 DEF HInv, Disks
  <1> QED
    BY <1>10, <1>11, <1>13, <1>14, <1>19 DEF HInv

\* The invariant holds at the start,
LEMMA HonestAtStart == Init => HInv
  <1> SUFFICES ASSUME Init PROVE HInv
    OBVIOUS
  <1>1. /\ 0 \in Thread /\ InitDevices /\ disturbed = {}
        /\ at = [t \in Thread |-> IF t = 0 THEN "pop" ELSE "none"]
        /\ verdicts = [t \in Thread |-> IF t = 0 THEN [j \in DOMAIN Store |-> "none"]
                                        ELSE [j \in DOMAIN Items |-> "none"]]
    BY ScenarioAssumption DEF Init
  <1>2. at[0] = "pop" /\ \A t \in Thread : at[t] \in {"pop", "none"}
    BY <1>1
  <1>3. bus \subseteq Device
    <2>1. PICK layout \in scenario.start : bus = layout.bus
      BY DEF Init
    <2>2. layout \in [port : -1 .. 1, bus : SUBSET Device]
      BY <2>1, ScenarioAssumption DEF Init
    <2> QED
      BY <2>1, <2>2
  <1>4. Shared
    <2>1. verdicts[0] \in [DOMAIN Store -> {"none", "OK", "NG", "SKIP"}]
      BY <1>1
    <2> QED
      BY <1>1, <1>3, <2>1 DEF InitDevices, Shared, ReadingStates
  <1>5. Lists /\ HonestItems /\ Fresh
    BY <1>1, <1>2 DEF InitDevices, Lists, Uses, HonestItems, Fresh, Worker
  <1>6. Disks
    <2>1. Cardinality({}) = 0
      BY FS_EmptySet
    <2> QED
      BY <1>1, <1>2, <2>1, SizeAssumption DEF InitDevices, Disks
  <1> QED
    BY <1>4, <1>5, <1>6 DEF HInv

\* and every step keeps it.
LEMMA StepsAreHonest ==
  ASSUME IInv, HInv, [Next]_vars
  PROVE  HInv'
  <1>1. CASE \E t \in Thread : InRefresh(t) \/ Refreshed(t)
    BY <1>1, InRefreshKeepsHonest, RefreshedKeepsHonest
  <1>2. CASE BeginStorage \/ Scan \/ JudgeStore \/ SendStorage
    BY <1>2, BeginStorageKeepsHonest, ScanKeepsHonest, JudgeStoreKeepsHonest, SendStorageKeepsHonest
  <1>3. CASE \E k \in Worker : JudgeItem(k) \/ SideTested(k)
    BY <1>3, JudgeItemKeepsHonest, SideTestedKeepsHonest
  <1>4. CASE UNCHANGED vars
    <2>1. UNCHANGED <<lsusbVars, diskVars, nextDisk, item, verdicts, disturbed, togo, at, bus>>
      BY <1>4 DEF vars, handlerVars, testVars
    <2>2. bus' \subseteq Device /\ \A t \in Thread : Passes(t)
      BY <2>1 DEF HInv, Shared, Passes
    <2> QED
      BY <2>1, <2>2, Bystander
  <1>5. CASE /\ Next /\ \A t \in Thread : ~InRefresh(t) /\ ~Refreshed(t)
             /\ ~BeginStorage /\ ~Scan /\ ~JudgeStore /\ ~SendStorage
             /\ \A k \in Worker : ~JudgeItem(k) /\ ~SideTested(k)
    BY <1>5, PassingSteps
  <1> QED
    BY <1>1, <1>2, <1>3, <1>4, <1>5

\* As long as no scan has found more disks than this one, as many USB items are
\* OK as there are disks at most.
LEMMA DisksAreHonest == HInv => DiskVerdicts
  <1> SUFFICES ASSUME HInv, Finished, most <= diskCount
               PROVE  Cardinality(DisksOK) <= Cardinality(attached)
    BY DEF DiskVerdicts
  <1>1. Cardinality(DisksOK) <= diskCount
    BY DEF HInv, Disks, Finished
  <1>2. /\ diskCount \in Nat /\ diskCount + Cardinality(unscanned) <= Cardinality(attached)
        /\ unscanned \subseteq Disk /\ attached \subseteq Disk
    BY DEF HInv, Disks
  <1>3. IsFiniteSet(unscanned) /\ IsFiniteSet(attached)
    BY <1>2, DeviceAssumption, FS_Subset
  <1>4. Cardinality(unscanned) \in Nat /\ Cardinality(attached) \in Nat
    BY <1>3, FS_CardinalityType
  <1>5. Cardinality(DisksOK) \in Nat
    <2>1. PICK n \in Nat : DOMAIN Store = 1 .. n
      BY StoreIsCounted
    <2>2. DisksOK \subseteq 1 .. n
      BY <2>1 DEF DisksOK
    <2>3. IsFiniteSet(1 .. n)
      BY <2>1, FS_Interval
    <2>4. IsFiniteSet(DisksOK)
      BY <2>2, <2>3, FS_Subset
    <2> QED
      BY <2>4, FS_CardinalityType
  <1> QED
    BY <1>1, <1>2, <1>4, <1>5

\* The verdicts of both tests are those of what is plugged in: an undisturbed
\* test judges its items by what lsusb printed to it last (Storage.cpp:703-747),
\* and no more USB items are OK than there are disks (TaskHandler.cpp:404-432).
THEOREM VerdictsAreHonest == Spec => []HonestVerdicts
  <1>1. Init => IInv
    BY InitIsGood
  <1>2. IInv /\ [Next]_vars => IInv'
    BY StepIsGood
  <1>3. IInv /\ HInv /\ [Next]_vars => HInv'
    BY StepsAreHonest
  <1>4. HInv => HonestVerdicts
    BY DisksAreHonest DEF HInv, HonestVerdicts
  <1> QED
    BY <1>1, <1>2, <1>3, <1>4, HonestAtStart, PTL DEF Spec
-----------------------------------------------------------------------------
(***************************************************************************)
(* The types.  The invariants above hold most of them; Types is the rest.  *)
(* Refreshes that race may count beyond the list, so its count is just a   *)
(* number here, and that what a refresh writes lies in the list follows    *)
(* from Lists for a thread that nobody has disturbed.                      *)
(***************************************************************************)
Types ==
  /\ port \in -1 .. 1 /\ moves \in 0 .. scenario.moves
  /\ \A k \in Worker : at[k] \in TestStates
  /\ first \in [Worker -> -1 .. 1] /\ ret \in [Worker -> -1 .. 1]
  /\ left \in [Worker -> 0 .. TimeOut]
  /\ \A k \in DOMAIN script : Answered(k) => answer[k].result \in {"true", "false"}
  /\ count \in Nat /\ loaded \in [Thread -> Nat]
  /\ most \in 0 .. Cardinality(Disk) /\ nextDisk \in 0 .. Cardinality(Disk) + 1
  /\ diskSize \in [0 .. DiskListSize - 1 -> Size]

\* There are finitely many disks, and a scan counts no more of them.
LEMMA DisksAreCounted ==
  /\ IsFiniteSet(Disk) /\ Cardinality(Disk) \in Nat
  /\ HInv => diskCount \in 0 .. Cardinality(Disk)
  <1>1. IsFiniteSet(Disk) /\ Cardinality(Disk) \in Nat
    BY DeviceAssumption, FS_Subset, FS_CardinalityType
  <1>2. ASSUME HInv PROVE diskCount \in 0 .. Cardinality(Disk)
    <2>1. /\ diskCount \in Nat /\ unscanned \subseteq Disk /\ attached \subseteq Disk
          /\ diskCount + Cardinality(unscanned) <= Cardinality(attached)
      BY <1>2 DEF HInv, Disks
    <2>2. IsFiniteSet(unscanned) /\ IsFiniteSet(attached)
      BY <1>1, <2>1, FS_Subset
    <2>3. Cardinality(unscanned) \in Nat /\ Cardinality(attached) \in Nat
      BY <2>2, FS_CardinalityType
    <2>4. Cardinality(attached) <= Cardinality(Disk)
      BY <1>1, <2>1, FS_Subset
    <2> QED
      BY <1>1, <2>1, <2>3, <2>4
  <1> QED
    BY <1>1, <1>2

\* Of the types, the places of the tests apart, when nothing else changes.
LEMMA TypesKept ==
  ASSUME Types, UNCHANGED <<scenario, port, moves, first, ret, left, answer, count, loaded,
                            most, nextDisk, diskSize>>,
         \A k \in Worker : at'[k] = at[k] \/ at'[k] \in TestStates
  PROVE  Types'
  BY DEF Types, Answered, script

\* A refresh counts.
LEMMA RefreshKeepsTypes ==
  ASSUME HInv, Types, NEW t \in Thread, InRefresh(t)
  PROVE  Types'
  <1>1. /\ RefreshStep(t)
        /\ UNCHANGED <<scenario, port, moves, first, ret, left, answer, most, nextDisk, diskSize, at>>
    BY DEF InRefresh, diskVars, handlerVars, testVars
  <1>2. count' \in Nat /\ loaded' \in [Thread -> Nat]
    BY <1>1 DEF Types, RefreshStep, ClearCount, ClearEntries, Popen, LoadCount, StoreCount, WriteEntry,
                EndOfLines
  <1> QED
    BY <1>1, <1>2 DEF Types, Answered, script

\* The steps of the command thread,
LEMMA HandlerKeepsTypes ==
  ASSUME IInv, HInv, Types, HandlerStep
  PROVE  Types'
  <1>1. /\ at \in [Thread -> TestStates \cup {"pop", "show", "scan"}] /\ 0 \in Thread /\ 0 \notin Worker
        /\ Worker \subseteq Thread /\ DOMAIN answer = DOMAIN script
    BY ScenarioAssumption DEF IInv, Shape, Worker
  <1>2. CASE InDialog(0) \/ Refreshed(0)
    BY <1>1, <1>2, TypesKept DEF InDialog, Refreshed, Go, lsusbVars, diskVars, handlerVars, testVars
  <1>3. CASE InRefresh(0)
    BY <1>1, <1>3, RefreshKeepsTypes
  <1>4. CASE BeginTypeC
    BY <1>1, <1>4, TypesKept DEF BeginTypeC, Go, lsusbVars, diskVars, handlerVars, testVars
  <1>5. CASE Submit
    BY <1>1, <1>5, TypesKept DEF Submit, lsusbVars, diskVars, handlerVars, testVars, TestStates
  <1>6. CASE StopTests
    <2>1. /\ UNCHANGED <<scenario, port, moves, first, ret, left, count, loaded, most, nextDisk, diskSize, at>>
          /\ answer' = [answer EXCEPT ![cmd'] = [result |-> "true"]]
      BY <1>6 DEF StopTests, lsusbVars, diskVars, testVars
    <2>2. \A k \in DOMAIN script : answer'[k] = answer[k] \/ answer'[k].result = "true"
      BY <1>1, <2>1
    <2> QED
      BY <2>1, <2>2 DEF Types, Answered, script
  <1>7. CASE BeginStorage
    <2>1. /\ UNCHANGED <<scenario, port, moves, first, ret, left, answer, count, loaded, diskSize>>
          /\ nextDisk' = 0 /\ (most' = IF most < diskCount THEN diskCount ELSE most)
          /\ \A k \in Worker : at'[k] = at[k]
      BY <1>1, <1>7 DEF BeginStorage, BeginScan, Go, lsusbVars, testVars
    <2> QED
      BY <2>1, DisksAreCounted DEF Types, Answered, script
  <1>8. CASE Scan
    <2>1. /\ UNCHANGED <<scenario, port, moves, first, ret, left, answer, count, loaded, nextDisk, most>>
          /\ \A k \in Worker : at'[k] = at[k]
      BY <1>1, <1>8 DEF Scan, ScanDisk, Go, lsusbVars, diskVars, handlerVars, testVars
    <2>2. diskSize' \in [0 .. DiskListSize - 1 -> Size]
      <3>1. UNCHANGED diskSize \/ \E e \in Disk : AddDisk(e)
        BY <1>8 DEF Scan, ScanDisk, SameId, diskVars
      <3>2. ASSUME NEW e \in Disk, AddDisk(e) PROVE diskSize' \in [0 .. DiskListSize - 1 -> Size]
        <4>1. PICK size \in SizesOf[e] : diskSize' = [diskSize EXCEPT ![diskCount + 1] = size]
          BY <3>2 DEF AddDisk
        <4>2. size \in Size
          BY DEF Size
        <4> QED
          BY <4>1, <4>2 DEF Types
      <3> QED
        BY <3>1, <3>2 DEF Types
    <2> QED
      BY <2>1, <2>2 DEF Types, Answered, script
  <1>9. CASE JudgeStore
    <2>1. /\ UNCHANGED <<scenario, port, moves, first, ret, left, answer, count, loaded, most, diskSize, at>>
          /\ nextDisk' = nextDisk \/ \E it : nextDisk' = JudgeDisk(it).disk
      BY <1>9 DEF JudgeStore, lsusbVars, diskVars, testVars
    <2>2. nextDisk' \in 0 .. Cardinality(Disk) + 1
      BY <2>1, DisksAreCounted DEF Types, JudgeDisk
    <2> QED
      BY <2>1, <2>2 DEF Types, Answered, script
  <1>10. CASE SendStorage
    <2>1. /\ UNCHANGED <<scenario, port, moves, first, ret, left, count, loaded, most, nextDisk, diskSize>>
          /\ \A k \in Worker : at'[k] = at[k]
          /\ answer' = [answer EXCEPT ![cmd] =
               [result |-> IF \E j \in DOMAIN Store : verdicts[0][j] = "NG" THEN "false" ELSE "true"]]
      BY <1>1, <1>10 DEF SendStorage, Go, diskVars, handlerVars, testVars
    <2>2. \A k \in DOMAIN script : answer'[k] = answer[k] \/ answer'[k].result \in {"true", "false"}
      BY <1>1, <2>1
    <2> QED
      BY <2>1, <2>2 DEF Types, Answered, script
  <1> QED
    BY <1>2, <1>3, <1>4, <1>5, <1>6, <1>7, <1>8, <1>9, <1>10 DEF HandlerStep

\* and those of a type-C test.
LEMMA TestKeepsTypes ==
  ASSUME IInv, HInv, Types, NEW k \in Worker, TestStep(k)
  PROVE  Types'
  <1>1. /\ at \in [Thread -> TestStates \cup {"pop", "show", "scan"}]
        /\ Worker \subseteq Thread /\ DOMAIN answer = DOMAIN script
    BY DEF IInv, Shape, Worker
  <1>2. CASE InDialog(k) \/ Refreshed(k)
    BY <1>1, <1>2, TypesKept DEF InDialog, Refreshed, Go, lsusbVars, diskVars, handlerVars, testVars, TestStates
  <1>3. CASE InRefresh(k)
    BY <1>1, <1>3, RefreshKeepsTypes
  <1>4. CASE Start(k) \/ JudgeItem(k) \/ DialogDone(k)
    BY <1>1, <1>4, TypesKept DEF Start, JudgeItem, DialogDone, Go, lsusbVars, diskVars, handlerVars, testVars,
       TestStates
  <1>5. CASE Turn(k)
    <2>1. /\ UNCHANGED <<scenario, port, moves, first, left, answer, count, loaded, most, nextDisk, diskSize>>
          /\ \A j \in Worker : at'[j] = at[j] \/ at'[j] \in TestStates
          /\ ret' = [ret EXCEPT ![k] = port]
      BY <1>1, <1>5 DEF Turn, Go, lsusbVars, diskVars, handlerVars, TestStates
    <2> QED
      BY <2>1 DEF Types, Answered, script
  <1>6. CASE SideTested(k)
    <2>1. /\ UNCHANGED <<scenario, port, moves, ret, left, answer, count, loaded, most, nextDisk, diskSize>>
          /\ \A j \in Worker : at'[j] = at[j] \/ at'[j] \in TestStates
          /\ first' = [first EXCEPT ![k] = ret[k]] \/ first' = first
      BY <1>1, <1>6 DEF SideTested, Go, diskVars, handlerVars, TestStates
    <2> QED
      BY <2>1 DEF Types, Answered, script
  <1>7. CASE CountDown(k)
    <2>1. /\ UNCHANGED <<scenario, port, moves, first, ret, answer, count, loaded, most, nextDisk, diskSize>>
          /\ \A j \in Worker : at'[j] = at[j] \/ at'[j] \in TestStates
          /\ left[k] # 0 /\ left' = [left EXCEPT ![k] = @ - 1]
      BY <1>1, <1>7 DEF CountDown, Go, lsusbVars, diskVars, handlerVars, TestStates
    <2>2. left' \in [Worker -> 0 .. TimeOut]
      BY <2>1, TimeOutAssumption DEF Types
    <2> QED
      BY <2>1, <2>2 DEF Types, Answered, script
  <1>8. CASE GiveUp(k)
    BY <1>1, <1>8, TypesKept DEF GiveUp, Go, lsusbVars, diskVars, handlerVars, TestStates
  <1>9. CASE Send(k)
    <2>1. /\ UNCHANGED <<scenario, port, moves, first, ret, left, count, loaded, most, nextDisk, diskSize>>
          /\ \A j \in Worker : at'[j] = at[j] \/ at'[j] \in TestStates
          /\ answer' = [answer EXCEPT ![k] = Response(k)]
      BY <1>1, <1>9 DEF Send, Go, lsusbVars, diskVars, handlerVars, testVars, TestStates
    <2>2. \A j \in DOMAIN script : answer'[j] = answer[j] \/ answer'[j].result \in {"true", "false"}
      BY <1>1, <2>1 DEF Response
    <2> QED
      BY <2>1, <2>2 DEF Types, Answered, script
  <1> QED
    BY <1>2, <1>3, <1>4, <1>5, <1>6, <1>7, <1>8, <1>9 DEF TestStep

\* They hold at the start and stay.
LEMMA TypesAtStart == Init => Types
  <1> SUFFICES ASSUME Init PROVE Types
    OBVIOUS
  <1>1. /\ scenario \in Scenario /\ scenario.moves \in Nat
        /\ \E layout \in scenario.start : port = layout.port
        /\ scenario.start \subseteq [port : -1 .. 1, bus : SUBSET Device]
    BY ScenarioAssumption DEF Init
  <1>2. port \in -1 .. 1 /\ moves \in 0 .. scenario.moves
    BY <1>1 DEF Init
  <1>3. \A k \in Worker : at[k] \in TestStates
    BY DEF Init, Worker, TestStates
  <1>4. \A k \in DOMAIN script : ~Answered(k)
    BY DEF Init, Answered
  <1> QED
    BY <1>2, <1>3, <1>4, DisksAreCounted, TimeOutAssumption DEF Init, InitDevices, Types, Size

LEMMA StepsKeepTypes ==
  ASSUME IInv, HInv, Types, [Next]_vars
  PROVE  Types'
  <1>1. CASE Move
    <2>1. PICK layout \in scenario.layouts : port' = layout.port
      BY <1>1 DEF Move
    <2>2. scenario.moves \in Nat /\ scenario.layouts \subseteq [port : -1 .. 1, bus : SUBSET Device]
      BY ScenarioAssumption DEF IInv, Shape
    <2>3. port' \in -1 .. 1 /\ moves' \in 0 .. scenario.moves
      BY <1>1, <2>1, <2>2 DEF Move, Types
    <2> QED
      BY <1>1, <2>3 DEF Move, Types, Answered, script, lsusbVars, diskVars, handlerVars, testVars
  <1>2. CASE CloseDialog \/ UNCHANGED vars
    BY <1>2, TypesKept DEF CloseDialog, vars, lsusbVars, diskVars, handlerVars, testVars
  <1>3. CASE HandlerStep
    BY <1>3, HandlerKeepsTypes
  <1>4. CASE \E k \in Worker : TestStep(k)
    BY <1>4, TestKeepsTypes
  <1> QED
    BY <1>1, <1>2, <1>3, <1>4 DEF Next

\* What a refresh that nobody disturbs writes lies in the list.
LEMMA WritesInTheList ==
  ASSUME HInv, NEW t \in Thread, t \notin disturbed, at[t] = "refresh", reading[t] = "write"
  PROVE  count \in DOMAIN list
  <1>1. /\ lines[t] \subseteq printed[t] /\ lines[t] # {} /\ count = Cardinality(Entered(t)) + 1
        /\ printed[t] \subseteq Device /\ DOMAIN list = 0 .. ListSize - 1
    BY DEF HInv, Shared, Lists, Uses, Refreshing
  <1>2. PICK d \in lines[t] : d \in Device /\ d \notin Entered(t)
    BY <1>1 DEF Entered
  <1>3. IsFiniteSet(Device) /\ Entered(t) \cup {d} \subseteq Device
    BY <1>1, <1>2, DeviceAssumption DEF Entered
  <1>4. /\ IsFiniteSet(Entered(t))
        /\ Cardinality(Entered(t) \cup {d}) <= Cardinality(Device)
    BY <1>3, FS_Subset
  <1>5. Cardinality(Entered(t) \cup {d}) = Cardinality(Entered(t)) + 1
    BY <1>2, <1>4, FS_AddElement
  <1>6. Cardinality(Entered(t)) \in Nat /\ Cardinality(Device) \in Nat
    BY <1>3, <1>4, FS_CardinalityType
  <1> QED
    BY <1>1, <1>4, <1>5, <1>6, SizeAssumption

\* What is left of a list of calls is one of those the types name.
LEMMA DialogIsTyped == DialogShape => DialogTypeOK
  <1> SUFFICES ASSUME DialogShape PROVE DialogTypeOK
    OBVIOUS
  <1>1. ASSUME NEW t \in Caller
        PROVE  \E n \in 0 .. Len(Update) :
                 todo[t] \in {SubSeq(ops, n + 1, Len(ops)) : ops \in {Close, Show, Update}}
    <2>1. PICK ops \in {Close, Update} : \E n \in 0 .. Len(ops) : todo[t] = Rest(ops, n)
      BY DEF DialogShape, OnPath
    <2>2. PICK n \in 0 .. Len(ops) : todo[t] = Rest(ops, n)
      BY <2>1
    <2>3. n \in 0 .. Len(Update)
      <3>1. Len(Close) = 5 /\ Len(Update) = 13
        BY StepsOfClose, StepsOfUpdate
      <3>2. n \in 0 .. Len(ops)
        OBVIOUS
      <3>3. CASE ops = Close
        <4>1. n \in 0 .. 5
          BY <3>1, <3>2, <3>3
        <4>2. n \in 0 .. 13
          BY ONLY <4>1
        <4> QED
          BY <3>1, <4>2
      <3>4. CASE ops = Update
        BY <3>2, <3>4
      <3> QED
        BY <3>3, <3>4, <2>1
    <2>4. todo[t] \in {SubSeq(o, n + 1, Len(o)) : o \in {Close, Show, Update}}
      <3> DEFINE suffix(o) == SubSeq(o, n + 1, Len(o))
      <3>1. todo[t] = suffix(ops)
        BY <2>2 DEF Rest
      <3>2. ops \in {Close, Show, Update}
        BY <2>1
      <3> HIDE DEF suffix
      <3>3. todo[t] \in {suffix(o) : o \in {Close, Show, Update}}
        BY <3>1, <3>2
      <3> QED
        BY <3>3 DEF suffix
    <2> QED
      BY <2>3, <2>4
  <1>2. pid \in {-1} \cup 1 .. forked
    BY DEF DialogShape
  <1> QED
    BY <1>1, <1>2 DEF DialogShape, DialogTypeOK

LEMMA GoodMeansTyped == IInv /\ DInv /\ HInv /\ Types => TypeOK
  <1> SUFFICES ASSUME IInv, DInv, HInv, Types PROVE TypeOK
    OBVIOUS
  <1>1. DialogTypeOK
    BY DialogIsTyped DEF DInv
  <1>2. Cardinality(Disk) \in Nat /\ diskCount \in 0 .. Cardinality(Disk)
        /\ DiskListSize \in Nat /\ Cardinality(Disk) + 1 < DiskListSize
    BY DisksAreCounted, SizeAssumption
  <1>3. DevicesTypeOK
    <2>1. /\ bus \subseteq Device /\ list \in [0 .. ListSize - 1 -> Id \cup {NoId}]
          /\ reading \in [Thread -> ReadingStates]
          /\ lines \in [Thread -> SUBSET Device] /\ printed \in [Thread -> SUBSET Device]
          /\ unscanned \subseteq Disk /\ attached \subseteq Disk
      BY DEF HInv, Shared, Disks
    <2>2. /\ count \in Nat /\ loaded \in [Thread -> Nat] /\ diskSize \in [0 .. DiskListSize - 1 -> Size]
          /\ most \in 0 .. Cardinality(Disk)
      BY DEF Types
    <2>3. diskCount \in 0 .. DiskListSize - 1 /\ most \in 0 .. DiskListSize - 1
      BY <1>2, <2>2
    <2> QED
      BY <2>1, <2>2, <2>3 DEF DevicesTypeOK
  <1>4. \A t \in Thread : \A j \in DOMAIN verdicts[t] : verdicts[t][j] \in {"none", "OK", "NG", "SKIP"}
    BY DEF IInv, Shape, HInv, Shared, Worker
  <1>5. /\ scenario \in Scenario /\ cmd \in 0 .. Len(script) /\ item \in [Thread -> Nat \ {0}]
        /\ togo \in [Worker -> 0 .. 2] /\ late \in [Worker -> BOOLEAN]
        /\ allTestValue \in [Worker -> BOOLEAN] /\ stopped \subseteq Worker
        /\ at[0] \in {"pop", "show", "scan", "refresh", "judge"}
    BY DEF IInv, Shape, Commands
  <1>6. disturbed \subseteq Thread
    BY DEF HInv, Shared
  <1> QED
    BY <1>1, <1>2, <1>3, <1>4, <1>5, <1>6, WritesInTheList DEF Types, TypeOK, TestStates

\* Type correctness: besides the types, what a refresh that nobody disturbs
\* writes lies in the list of Storage.cpp:703-747.
THEOREM TypeCorrect == Spec => []TypeOK
  <1>1. Init => IInv /\ DInv /\ HInv /\ Types
    BY InitIsGood, InitDialogIsGood, HonestAtStart, TypesAtStart
  <1>2. IInv /\ DInv /\ HInv /\ Types /\ [Next]_vars => IInv' /\ DInv' /\ HInv' /\ Types'
    BY StepIsGood, NextKeepsDialog, StepsAreHonest, StepsKeepTypes
  <1>3. IInv /\ DInv /\ HInv /\ Types => TypeOK
    BY GoodMeansTyped
  <1> QED
    BY <1>1, <1>2, <1>3, PTL DEF Spec
=============================================================================
