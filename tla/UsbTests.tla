------------------------------ MODULE UsbTests ------------------------------
(***************************************************************************)
(* The tests that look at the USB bus (TaskHandler.cpp): storage_test(),   *)
(* run by the command thread, and typec_test(), whose work a pool thread   *)
(* of its own does.  They share the lists of UsbDevices and the dialog,    *)
(* and a stop command may come at any time.  Thread 0 is the command       *)
(* thread; thread k does the type-C test that is command k of the script.  *)
(***************************************************************************)
EXTENDS UsbDevices, ZenityDialog

CONSTANTS Scenario,  \* what the host sends, and what the operator does: commands
                     \* "typec", "storage", "stop"; layouts of the plugs, the
                     \* first of them in start; how many moves he makes: a bound
          Items,     \* what a type-C test has to find: [side, usb, id]
          Store,     \* the items of a storage test: [name, enable, min, max, id];
                     \* a name is the set of the known words it contains
          Measure,   \* the sizes of DDR, eMMC, ... in GB, rounded
          TimeOut    \* turns of a type-C test before it gives up (60)

ASSUME ScenarioAssumption ==
  /\ 0 \in Thread /\ Caller = Thread
  /\ \A s \in Scenario :
       /\ s.commands \in Seq({"typec", "storage", "stop"}) /\ DOMAIN s.commands \subseteq Thread
       /\ s.layouts \subseteq [port : -1 .. 1, bus : SUBSET Device]
       /\ s.start \subseteq s.layouts /\ s.moves \in Nat
ASSUME ItemAssumption ==
  /\ Items \in Seq([side : {"positive", "negative"}, usb : {"3.0", "2.0", "other"},
                    id : {Items[j].id : j \in DOMAIN Items}])
ASSUME StoreAssumption ==
  /\ Store \in Seq({Store[j] : j \in DOMAIN Store})
  /\ \A j \in DOMAIN Store : /\ Store[j].enable \in BOOLEAN
                             /\ Store[j].name = {"usb"} => Store[j].min \in Int /\ Store[j].max \in Int
ASSUME TimeOutAssumption == TimeOut \in Nat /\ Measure \subseteq Int

VARIABLES
  scenario, cmd,          \* the scenario, how many commands have been taken
  port, moves,            \* orientation of the type-C plug, moves so far
  at,                     \* where a thread is
  item, verdicts,         \* the item a thread judges next, results so far
  nextDisk,               \* i of storage_test()
  togo, first, ret,       \* count, first and ret of typec_test()
  left, late, allTestValue, \* timeOut, whether it ran out, allTestValue
  stopped,                \* tests whose flag has been stopped
  answer,                 \* the response to each command
  disturbed               \* history: threads whose list changed under them

testVars == <<togo, first, ret, left, late, allTestValue>>
handlerVars == <<scenario, cmd, nextDisk, stopped>>
vars == <<lsusbVars, diskVars, bus, dialogVars, handlerVars, port, moves, at, item,
          verdicts, testVars, answer, disturbed>>

Worker == Thread \ {0}
script == scenario.commands
NoAnswer == [result |-> "none"]
Answered(k) == k \in DOMAIN script /\ answer[k] # NoAnswer

\* Unless refreshes race, what one writes lies in the list.
TypeOK ==
  /\ DevicesTypeOK /\ DialogTypeOK
  /\ scenario \in Scenario /\ cmd \in 0 .. Len(script)
  /\ port \in -1 .. 1 /\ moves \in 0 .. scenario.moves
  /\ at[0] \in {"pop", "show", "scan", "refresh", "judge"}
  /\ \A k \in Worker : at[k] \in {"none", "queued", "first", "loop", "refresh",
                                  "judge", "update", "close", "turn", "late", "done"}
  /\ item \in [Thread -> Nat \ {0}] /\ nextDisk \in 0 .. DiskListSize - 1
  /\ \A t \in Thread : \A j \in DOMAIN verdicts[t] :
       verdicts[t][j] \in {"none", "OK", "NG", "SKIP"}
  /\ togo \in [Worker -> 0 .. 2]
  /\ first \in [Worker -> -1 .. 1] /\ ret \in [Worker -> -1 .. 1]
  /\ left \in [Worker -> 0 .. TimeOut]
  /\ late \in [Worker -> BOOLEAN] /\ allTestValue \in [Worker -> BOOLEAN]
  /\ stopped \subseteq Worker /\ disturbed \subseteq Thread
  /\ \A k \in DOMAIN script : Answered(k) => answer[k].result \in {"true", "false"}
  /\ \A t \in Thread \ disturbed :
       at[t] = "refresh" /\ reading[t] = "write" => count \in DOMAIN list

Init ==
  /\ scenario \in Scenario /\ cmd = 0
  /\ \E layout \in scenario.start : port = layout.port /\ bus = layout.bus
  /\ moves = 0
  /\ InitDevices /\ InitDialog
  /\ at = [t \in Thread |-> IF t = 0 THEN "pop" ELSE "none"]
  /\ item = [t \in Thread |-> 1]
  /\ verdicts = [t \in Thread |-> IF t = 0 THEN [j \in DOMAIN Store |-> "none"]
                                  ELSE [j \in DOMAIN Items |-> "none"]]
  /\ nextDisk = 0
  /\ togo = [k \in Worker |-> 2] /\ first = [k \in Worker |-> -1]
  /\ ret = [k \in Worker |-> -1]
  /\ left = [k \in Worker |-> TimeOut] /\ late = [k \in Worker |-> FALSE]
  /\ allTestValue = [k \in Worker |-> TRUE]
  /\ stopped = {} /\ disturbed = {}
  /\ answer = [k \in DOMAIN script |-> NoAnswer]

Go(t, from, to) == at[t] = from /\ at' = [at EXCEPT ![t] = to]
-----------------------------------------------------------------------------
\* The operator moves the type-C plug, or other plugs.
Move ==
  /\ moves < scenario.moves /\ moves' = moves + 1
  /\ \E layout \in scenario.layouts : port' = layout.port /\ bus' = layout.bus
  /\ UNCHANGED <<lsusbVars, diskVars, dialogVars, handlerVars, at, item, verdicts,
                 testVars, answer, disturbed>>

\* Steps of a thread inside the dialog and inside lsusbGetVidPidInfo().
InDialog(t) ==
  /\ DialogStep(t)
  /\ UNCHANGED <<lsusbVars, diskVars, bus, handlerVars, port, moves, at, item,
                 verdicts, testVars, answer, disturbed>>

CloseDialog ==
  /\ Dismiss
  /\ UNCHANGED <<lsusbVars, diskVars, bus, handlerVars, port, moves, at, item,
                 verdicts, testVars, answer, disturbed>>

\* The history variables tell of one refresh and the judgement that follows.
Forgets(t) ==
  /\ printed' = [printed EXCEPT ![t] = {}]
  /\ disturbed' = disturbed \ {t}
UsesList(t) == at[t] \in {"refresh", "judge"}
InRefresh(t) ==
  /\ at[t] \in {"first", "refresh"}
  /\ RefreshStep(t)
  /\ disturbed' = disturbed \cup {u \in Thread \ {t} : UsesList(u)}
                           \cup (IF Racing(t) THEN {t} ELSE {})
  /\ UNCHANGED <<diskVars, bus, dialogVars, handlerVars, port, moves, at, item,
                 verdicts, testVars, answer>>

\* lsusbGetVidPidInfo() has returned; what was read before the loop is not used.
Refreshed(t) ==
  /\ reading[t] = "read"
  /\ \/ Go(t, "refresh", "judge") /\ UNCHANGED <<printed, disturbed>>
     \/ Go(t, "first", "loop") /\ Forgets(t)
  /\ reading' = [reading EXCEPT ![t] = "no"]
  /\ item' = [item EXCEPT ![t] = 1]
  /\ UNCHANGED <<list, count, lines, loaded, diskVars, bus, dialogVars,
                 handlerVars, port, moves, verdicts, testVars, answer>>
-----------------------------------------------------------------------------
\* The command thread.
Command(c) == cmd < Len(script) /\ script[cmd + 1] = c /\ cmd' = cmd + 1

\* typec_test(): the dialog, then a task for the pool, then its flag.
BeginTypeC ==
  /\ Go(0, "pop", "show") /\ Command("typec")
  /\ Call(0, Show)
  /\ UNCHANGED <<lsusbVars, diskVars, bus, scenario, nextDisk, stopped, port, moves,
                 item, verdicts, testVars, answer, disturbed>>
Submit ==
  /\ at[0] = "show" /\ todo[0] = <<>>
  /\ at' = [at EXCEPT ![0] = "pop", ![cmd] = "queued"]
  /\ UNCHANGED <<lsusbVars, diskVars, bus, dialogVars, handlerVars, port, moves,
                 item, verdicts, testVars, answer, disturbed>>

\* stop_all_tasks()
StopTests ==
  /\ at[0] = "pop" /\ Command("stop")
  /\ stopped' = {k \in Worker : at[k] # "none"}
  /\ answer' = [answer EXCEPT ![cmd'] = [result |-> "true"]]
  /\ UNCHANGED <<lsusbVars, diskVars, bus, dialogVars, scenario, nextDisk, port, moves,
                 at, item, verdicts, testVars, disturbed>>

\* storage_test()
BeginStorage ==
  /\ Go(0, "pop", "scan") /\ Command("storage")
  /\ BeginScan
  /\ nextDisk' = 0
  /\ verdicts' = [verdicts EXCEPT ![0] = [j \in DOMAIN Store |-> "none"]]
  /\ UNCHANGED <<lsusbVars, bus, dialogVars, scenario, stopped, port, moves, item,
                 testVars, answer, disturbed>>
Scan ==
  /\ at[0] = "scan"
  /\ \/ ScanDisk /\ UNCHANGED at
     \/ /\ unscanned = {} /\ Go(0, "scan", "refresh")
        /\ UNCHANGED diskVars
  /\ UNCHANGED <<lsusbVars, bus, dialogVars, handlerVars, port, moves, item, verdicts,
                 testVars, answer, disturbed>>

\* stringToTestItem(): whole names, then the first in this order whose words
\* the name contains.
Whole == [ddr |-> "DDR", emmc |-> "EMMC"]
Contained == << [words |-> {"facility", "3.0"}, item |-> "FACILITYUSB"],
                [words |-> {"facility", "2.0"}, item |-> "FACILITYUSB"],
                [words |-> {"usb_tf"}, item |-> "TF"],
                [words |-> {"usb_pcie"}, item |-> "USB_PCIE"],
                [words |-> {"usb"}, item |-> "USB"] >>
TestItem(name) ==
  LET hits == {i \in DOMAIN Contained : Contained[i].words \subseteq name}
      best == CHOOSE i \in hits : \A h \in hits : i <= h
  IN  IF \E w \in DOMAIN Whole : name = {w}
      THEN Whole[CHOOSE w \in DOMAIN Whole : name = {w}]
      ELSE IF hits = {} THEN "NONE" ELSE Contained[best].item

Kind == [j \in DOMAIN Store |-> TestItem(Store[j].name)]

\* The size of a memory, -1 if it cannot be read.
GetSize == {-1} \cup Measure
GetTfCardSize == {-1} \cup Measure

InRange(size, it) == IF size >= it.min /\ size <= it.max THEN "OK" ELSE "NG"

\* An enabled USB item takes the next disk, up to and including usbDiskCount.
JudgeDisk(it) ==
  IF nextDisk <= diskCount
  THEN [disk |-> nextDisk + 1, verdict |-> InRange(diskSize[nextDisk + 1], it)]
  ELSE [disk |-> nextDisk, verdict |-> "NG"]

\* A device that is not in the list leaves its item without a verdict.
JudgeStore ==
  /\ at[0] = "judge" /\ item[0] \in DOMAIN Store
  /\ LET it == Store[item[0]]
         kind == Kind[item[0]]
         Set(verdict) == verdicts' = [verdicts EXCEPT ![0][item[0]] = verdict]
     IN \/ /\ ~it.enable \/ kind = "NONE"
           /\ Set(CASE kind = "NONE" -> "none" [] kind = "USB" -> "OK" [] OTHER -> "SKIP")
           /\ UNCHANGED nextDisk
        \/ /\ it.enable /\ kind \in {"DDR", "EMMC", "TF", "USB_PCIE"}
           /\ \E size \in IF kind = "TF" THEN GetTfCardSize ELSE GetSize :
                Set(InRange(size, it))
           /\ UNCHANGED nextDisk
        \/ /\ it.enable /\ kind = "USB"
           /\ Set(JudgeDisk(it).verdict) /\ nextDisk' = JudgeDisk(it).disk
        \/ /\ it.enable /\ kind = "FACILITYUSB"
           /\ \E found \in Meets(0, it.id) :
                IF found THEN Set("OK") ELSE UNCHANGED verdicts
           /\ UNCHANGED nextDisk
  /\ item' = [item EXCEPT ![0] = @ + 1]
  /\ UNCHANGED <<lsusbVars, diskVars, bus, dialogVars, scenario, cmd, stopped, port,
                 moves, at, testVars, answer, disturbed>>

SendStorage ==
  /\ Go(0, "judge", "pop") /\ item[0] \notin DOMAIN Store
  /\ answer' = [answer EXCEPT ![cmd] =
       [result |-> IF \E j \in DOMAIN Store : verdicts[0][j] = "NG"
                   THEN "false" ELSE "true"]]
  /\ Forgets(0)
  /\ UNCHANGED <<list, count, reading, lines, loaded, diskVars, bus, dialogVars,
                 handlerVars, port, moves, item, verdicts, testVars>>
-----------------------------------------------------------------------------
\* The work of a type-C test.  A pool thread takes it up.
Start(k) ==
  /\ Go(k, "queued", "first")
  /\ UNCHANGED <<lsusbVars, diskVars, bus, dialogVars, handlerVars, port, moves, item,
                 verdicts, testVars, answer, disturbed>>

\* The side that is tested with togo sides to go.
Side(k) == IF togo[k] = 2 THEN "positive" ELSE "negative"
Inserted(k, r) == r # -1 /\ (togo[k] = 2 \/ (togo[k] = 1 /\ r # first[k]))

\* The head of the loop, and typeCTest().
Turn(k) ==
  /\ togo[k] # 0 /\ k \notin stopped
  /\ Go(k, "loop", IF Inserted(k, port) THEN "refresh" ELSE "turn")
  /\ ret' = [ret EXCEPT ![k] = port]
  /\ UNCHANGED <<lsusbVars, diskVars, bus, dialogVars, handlerVars, port, moves, item,
                 verdicts, togo, first, left, late, allTestValue, answer, disturbed>>

\* An item of the side is OK if its device is in the list.  Items that are
\* neither 3.0 nor 2.0 are not tested.
Tested(it) == it.usb \in {"3.0", "2.0"}
JudgeItem(k) ==
  /\ at[k] = "judge" /\ item[k] \in DOMAIN Items
  /\ LET it == Items[item[k]] IN
     IF it.side = Side(k) /\ Tested(it)
     THEN \E found \in Meets(k, it.id) :
            /\ verdicts' = [verdicts EXCEPT ![k][item[k]] = IF found THEN "OK" ELSE "NG"]
            /\ allTestValue' = [allTestValue EXCEPT ![k] = @ /\ found]
     ELSE UNCHANGED <<verdicts, allTestValue>>
  /\ item' = [item EXCEPT ![k] = @ + 1]
  /\ UNCHANGED <<lsusbVars, diskVars, bus, dialogVars, handlerVars, port, moves, at,
                 togo, first, ret, left, late, answer, disturbed>>

\* After the first side the dialog asks to turn the plug round, after the
\* second it goes.
SideTested(k) ==
  /\ item[k] \notin DOMAIN Items
  /\ \/ /\ togo[k] = 2 /\ Go(k, "judge", "update")
        /\ first' = [first EXCEPT ![k] = ret[k]]
        /\ Call(k, Update)
     \/ /\ togo[k] = 1 /\ Go(k, "judge", "close")
        /\ Call(k, Close) /\ UNCHANGED first
  /\ togo' = [togo EXCEPT ![k] = @ - 1]
  /\ Forgets(k)
  /\ UNCHANGED <<list, count, reading, lines, loaded, diskVars, bus, handlerVars, port,
                 moves, item, verdicts, ret, left, late, allTestValue, answer>>

DialogDone(k) ==
  /\ todo[k] = <<>>
  /\ Go(k, "update", "turn") \/ Go(k, "close", "turn")
  /\ UNCHANGED <<lsusbVars, diskVars, bus, dialogVars, handlerVars, port, moves, item,
                 verdicts, testVars, answer, disturbed>>

\* Mutant: the turns are not counted.
NoCountDown(k) ==
  /\ left[k] # 0
  /\ Go(k, "turn", "loop")
  /\ UNCHANGED <<lsusbVars, diskVars, bus, dialogVars, handlerVars, port, moves, item,
                 verdicts, testVars, answer, disturbed>>

\* if (timeOut-- == 0)
CountDown(k) ==
  /\ left[k] # 0
  /\ Go(k, "turn", "loop")
  /\ left' = [left EXCEPT ![k] = @ - 1]
  /\ UNCHANGED <<lsusbVars, diskVars, bus, dialogVars, handlerVars, port, moves, item,
                 verdicts, togo, first, ret, late, allTestValue, answer, disturbed>>
GiveUp(k) ==
  /\ left[k] = 0
  /\ Go(k, "turn", "late")
  /\ late' = [late EXCEPT ![k] = TRUE]
  /\ Call(k, Close)
  /\ UNCHANGED <<lsusbVars, diskVars, bus, handlerVars, port, moves, item, verdicts,
                 togo, first, ret, left, allTestValue, answer, disturbed>>

\* Mutant: a time-out leaves the result "true".
AlwaysTrue(k) ==
  [result |-> "true",
   items |-> IF late[k] THEN <<>> ELSE verdicts[k],
   verdict |-> IF allTestValue[k] THEN "OK" ELSE "NG"]

\* The test case of the answer is replaced by the one nested in it, after a
\* time-out for the second time: by nothing.  Its verdict is set after that.
Response(k) ==
  [result |-> IF late[k] THEN "false" ELSE "true",
   items |-> IF late[k] THEN <<>> ELSE verdicts[k],
   verdict |-> IF allTestValue[k] THEN "OK" ELSE "NG"]

Send(k) ==
  /\ \/ Go(k, "loop", "done") /\ (togo[k] = 0 \/ k \in stopped)
     \/ Go(k, "late", "done") /\ todo[k] = <<>>
  /\ answer' = [answer EXCEPT ![k] = Response(k)]
  /\ UNCHANGED <<lsusbVars, diskVars, bus, dialogVars, handlerVars, port, moves, item,
                 verdicts, testVars, disturbed>>
-----------------------------------------------------------------------------
HandlerStep ==
  \/ InDialog(0) \/ InRefresh(0) \/ Refreshed(0)
  \/ BeginTypeC \/ Submit \/ StopTests
  \/ BeginStorage \/ Scan \/ JudgeStore \/ SendStorage

TestStep(k) ==
  \/ InDialog(k) \/ InRefresh(k) \/ Refreshed(k)
  \/ Start(k) \/ Turn(k) \/ JudgeItem(k) \/ SideTested(k) \/ DialogDone(k)
  \/ CountDown(k) \/ GiveUp(k) \/ Send(k)

Next ==
  \/ Move \/ CloseDialog
  \/ HandlerStep
  \/ \E k \in Worker : TestStep(k)
  \/ /\ cmd = Len(script) /\ \A k \in DOMAIN script : Answered(k)
     /\ UNCHANGED vars

Fairness == WF_vars(HandlerStep) /\ \A k \in Worker : WF_vars(TestStep(k))
Spec == Init /\ [][Next]_vars /\ Fairness
-----------------------------------------------------------------------------
TypeC(k) == k \in DOMAIN script /\ script[k] = "typec"
Judged(k, j) == verdicts[k][j] # "none"

\* A response "true" to a type-C test that was not stopped comes after both
\* sides: every 2.0 and 3.0 item has been judged, and the verdict is OK if and
\* only if none of them is NG (TaskHandler.cpp:1437-1600), whatever the other
\* threads do to the list meanwhile.
TrueMeansJudged ==
  \A k \in Worker \ stopped :
    TypeC(k) /\ Answered(k) /\ answer[k].result = "true" =>
      /\ DOMAIN answer[k].items = DOMAIN Items
      /\ \A j \in DOMAIN Items : Tested(Items[j]) => answer[k].items[j] \in {"OK", "NG"}
      /\ (answer[k].verdict = "OK") <=> \A j \in DOMAIN Items : answer[k].items[j] # "NG"

\* A name of the host for a device of the test bench.
Facility(name) == "facility" \in name /\ {"2.0", "3.0"} \cap name # {}

\* A test whose list nobody changed under it judges by what lsusb printed to
\* it last, not by what an earlier refresh left behind (Storage.cpp:703-747).
\* An item that asks for the id of a zeroed entry is of no use.
HonestItems ==
  /\ \A k \in Worker \ disturbed : at[k] = "judge" =>
       \A j \in 1 .. item[k] - 1 :
         Items[j].side = Side(k) /\ Tested(Items[j]) /\ Items[j].id # NoId =>
           (verdicts[k][j] = "OK" <=> \E d \in printed[k] : IdOf[d] = Items[j].id)
  /\ 0 \notin disturbed /\ at[0] = "judge" =>
       \A j \in 1 .. item[0] - 1 :
         Facility(Store[j].name) /\ Store[j].enable /\ Store[j].id # NoId =>
           (verdicts[0][j] = "OK" <=> \E d \in printed[0] : IdOf[d] = Store[j].id)

\* USB items of the storage test that ask for a disk of some size and were found OK.
DisksOK == {j \in DOMAIN Store :
              /\ Store[j].name = {"usb"} /\ Store[j].enable /\ Store[j].min > 0
              /\ verdicts[0][j] = "OK"}
Finished == at[0] = "judge" /\ item[0] \notin DOMAIN Store

\* As long as no scan has found more disks than this one, a storage test
\* finds no more USB items OK than there are disks (TaskHandler.cpp:404-432).
DiskVerdicts ==
  Finished /\ most <= diskCount => Cardinality(DisksOK) <= Cardinality(attached)

\* The verdicts of both tests are those of what is plugged in: items by the last
\* listing a test has made, disks by their number.
HonestVerdicts == HonestItems /\ DiskVerdicts

\* Threads that do not enter the dialog at the same time show one dialog at a
\* time and kill nothing else (ZenityDialog.cpp): only show() makes a process,
\* and it closes the one before.  When the last type-C test has ended by
\* itself, complete or out of time, none is left on the screen.
OneDialog ==
  ~clash =>
    /\ Cardinality(open) <= 1 /\ ~killedAll
    /\ \A k \in Worker :
         /\ TypeC(k) /\ Answered(k) /\ k \notin stopped
         /\ \A m \in k + 1 .. cmd : ~TypeC(m)
         => open = {}

\* Every type-C test that was submitted answers: with the last side, at a
\* stop, or when its time is up, unless two threads met in the dialog, where
\* waitpid() may wait for a dialog nobody closes.
TestAnswered ==
  \A k \in Worker : at[k] = "queued" ~> Answered(k) \/ clash

\* What the code's comments say, and the code does not do.
\* A type-C test that is OK has tested all its items.
OKMeansTested ==
  \A k \in Worker : TypeC(k) /\ Answered(k) /\ answer[k].verdict = "OK" =>
    \A j \in DOMAIN Items : Tested(Items[j]) => Judged(k, j)

\* A storage test never finds more USB items OK than there are disks.
NoAbsentDiskOK == Finished => Cardinality(DisksOK) <= Cardinality(attached)
=============================================================================
