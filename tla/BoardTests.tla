------------------------------ MODULE BoardTests ------------------------------
(***************************************************************************)
(* The tests of TestApp on one board: the command thread takes the         *)
(* commands in the order of the plan, runs some tests itself and hands the *)
(* others to the pool or to a thread of their own; they meet in the table  *)
(* of descriptors, in the members of the board and in the answers.         *)
(***************************************************************************)
EXTENDS SerialTests, KeyTests, DeviceTests, RadioTests, Responder

CONSTANT MaxPlan \* the longest plan, for the fairness of every thread

vars == <<base, serialVars, keyPath, rtcVars, radioVars, responderVars>>

Inline == {"wifi", "ln", "gpio", "manual", "net", "baseinfo", "stop"}
Pooled == {"serial", "key", "camera", "common"}
Detached == {"rtc", "bluetooth"}

\* A test of the clock or a radio is one item, and pins are tested by gpio_test.
Commands == [test : Inline \cup Pooled \cup Detached, items : Seq(STRING), enabled : BOOLEAN]
ASSUME PlanAssumption ==
  /\ MaxPlan \in 0 .. Width - 1
  /\ \A p \in Plan :
       /\ p \in Seq(Commands) /\ Len(p) <= MaxPlan
       /\ \A k \in DOMAIN p :
            /\ p[k].test \in {"rtc", "wifi", "bluetooth"} => Len(p[k].items) = 1
            /\ \A x \in DOMAIN p[k].items : p[k].items[x] = "pin" => p[k].test = "gpio"

Init ==
  /\ plan \in Plan
  /\ th = [k \in DOMAIN plan |-> Fresh]
  /\ fds = [n \in 0..MaxFd - 1 |-> Closed]
  /\ alive = TRUE /\ stopped = {}
  /\ serialFd = -1 /\ raced = {}
  /\ keyPath = [name \in KeyNames |-> None]
  /\ rtcFd = -1 /\ clockBy = None /\ clockRaced = {}
  /\ scanCount = Scans /\ btCount = -1 /\ btDevices = None /\ btRaced = {}
  /\ reportCmdIndex = 0 /\ crossed = {}
-----------------------------------------------------------------------------
\* The command thread: the test begins, or is not enabled and has no answer.
Begun(k) ==
  CASE plan[k].test = "serial" -> SerialFresh
    [] plan[k].test = "key" -> KeyFresh(k)
    [] plan[k].test = "rtc" -> To(Fresh, "rtcOpen")
    [] plan[k].test = "wifi" -> To(Fresh, "wifi")
    [] plan[k].test = "bluetooth" -> To(Fresh, "bt")
    [] OTHER -> DeviceFresh(k)
Turn(k) ==
  /\ At(k, "idle")
  /\ \A j \in 1..k - 1 :
       th[j].at # "idle" /\ (plan[j].test \in Inline => th[j].at = "done")
Dispatch(k) ==
  /\ Turn(k) /\ plan[k].test # "stop"
  /\ th' = [th EXCEPT ![k] = IF plan[k].enabled THEN Begun(k) ELSE To(@, "done")]
  /\ UNCHANGED <<fds, alive, stopped>>
\* CMD_BEGIN_TEST and CMD_OVER_TEST stop the tests of the pool and go on.
Stop(k) ==
  /\ Turn(k) /\ plan[k].test = "stop"
  /\ th' = [th EXCEPT ![k] = To(@, "done")]
  /\ stopped' = stopped \cup {j \in 1..k - 1 : plan[j].test \in Pooled}
  /\ UNCHANGED <<fds, alive>>

Command(k) == (Dispatch(k) \/ Stop(k))
              /\ UNCHANGED <<serialVars, keyPath, rtcVars, radioVars, responderVars>>
Test(k) ==
  /\ UNCHANGED stopped
  /\ \/ SerialStep(k) /\ UNCHANGED <<keyPath, rtcVars, radioVars, responderVars>>
     \/ KeyStep(k) /\ UNCHANGED <<serialVars, rtcVars, radioVars, responderVars>>
     \/ DeviceStep(k) /\ UNCHANGED <<serialVars, keyPath, radioVars, responderVars>>
     \/ RadioStep(k) /\ UNCHANGED <<serialVars, keyPath, rtcVars, responderVars>>
     \/ SendStep(k) /\ UNCHANGED <<serialVars, keyPath, rtcVars, radioVars>>
AllDone == \A k \in DOMAIN th : th[k].at = "done"
Finished == (AllDone \/ ~alive) /\ UNCHANGED vars
Next == UNCHANGED plan /\ (Finished \/ \E k \in DOMAIN th : Command(k) \/ Test(k))

\* Threads that can go on do so, waits for the hardware come to an end.
Spec ==
  /\ Init /\ [][Next]_vars
  /\ \A k \in 1..MaxPlan : WF_vars(k \in DOMAIN th /\ (Command(k) \/ Test(k)) /\ UNCHANGED plan)
-----------------------------------------------------------------------------
(***************************************************************************)
(* Type correctness: every thread at a point of its own test.              *)
(***************************************************************************)
TypeOK ==
  /\ plan \in Plan /\ alive \in BOOLEAN
  /\ {stopped, raced, clockRaced, btRaced, crossed} \subseteq SUBSET DOMAIN plan
  /\ \A n \in DOMAIN fds : fds[n] = Closed \/ fds[n].by \in DOMAIN plan
  /\ {serialFd, rtcFd} \subseteq -1..MaxFd - 1
  /\ \A name \in KeyNames : keyPath[name] \in DOMAIN EventNodes \cup {None}
  /\ scanCount \in -1..Scans /\ btCount \in -1..1 /\ btDevices \in DOMAIN plan \cup {None}
  /\ reportCmdIndex \in 0..Width - 1
  /\ \A k \in DOMAIN plan :
       /\ th[k].fd \in -1..MaxFd - 1
       /\ \A x \in DOMAIN th[k].items : th[k].items[x] \in {"OK", "NG", "SKIP", "none"}
       /\ Len(th[k].items) <= Len(plan[k].items) /\ th[k].shown \subseteq DOMAIN plan[k].items
       /\ th[k].result \in {"true", "false", "none"}

Raced(k) == k \in raced \cup clockRaced \cup btRaced
\* Ports of a line with more than two ports take frames of each other.
Crowded(k, x) ==
  plan[k].items[x] \in {"bus485", "busCan"} /\
  Cardinality({y \in DOMAIN plan[k].items : plan[k].items[y] = plan[k].items[x]}) > 2

\* A port on a line with none but ports that are NG.
Alone(k, x) ==
  /\ plan[k].test = "serial" /\ plan[k].items[x] \in {"bus485", "busCan"}
  /\ \A y \in DOMAIN plan[k].items \ {x} :
       plan[k].items[y] = plan[k].items[x] => y \in DOMAIN th[k].items /\ th[k].items[y] = "NG"

(***************************************************************************)
(* An item is OK only if its device was seen to work in this test.  Known  *)
(* exceptions: tests that overlapped on a member of the board or met a     *)
(* descriptor that was not theirs, an RS485 partner that never answered    *)
(* (serial_485_test() returns nothing), three ports on a line, an address  *)
(* that contains the prefix further on, a frame without bytes, and a port  *)
(* on a line to which no other port of the line could send: the others are *)
(* NG, and it is OK.                                                       *)
(***************************************************************************)
OKMeansWorks ==
  \A k \in DOMAIN plan : \A x \in DOMAIN th[k].items :
    th[k].items[x] = "OK" =>
      \/ x \in th[k].shown
      \/ Raced(k) \/ {"stray", "lookalike"} \cap th[k].met # {}
      \/ plan[k].items[x] = "485" \/ Crowded(k, x) \/ Alone(k, x)

(***************************************************************************)
(* An item gets NG only after something failed in its last attempt: the    *)
(* device, open() without a free number, a name the board does not know,   *)
(* Wi-Fi scans used up by earlier tests.  Known exceptions: overlapping    *)
(* tests, and lines with three ports.                                      *)
(***************************************************************************)
Causes == {"fault", "full", "stray", "unknown", "spent"}
Failed(k) == {x \in DOMAIN th[k].items : th[k].items[x] = "NG"}
NGHasCause ==
  [][\A k \in DOMAIN plan : \A x \in Failed(k)' \ Failed(k) :
       th[k].met' \cap Causes # {} \/ Raced(k)' \/ Crowded(k, x)]_vars

(***************************************************************************)
(* A test works on and closes only descriptors that it opened itself,      *)
(* unless some tests overlapped on a member of the board or an RTC test    *)
(* failed, which closes its number twice.                                  *)
(***************************************************************************)
ClosesTwice(k) ==
  plan[k].test = "rtc" /\ (Failed(k) # {} \/ (th[k].at = "rtcClose" /\ ~th[k].ok))
OwnDescriptors ==
  \A k \in DOMAIN plan :
    "stray" \in th[k].met => \E j \in DOMAIN plan : Raced(j) \/ ClosesTwice(j)

(***************************************************************************)
(* When all tests are over, only key and GPIO tests, which never close     *)
(* some of their descriptors, and overlapping tests have left any open.    *)
(***************************************************************************)
LeaksKnown ==
  AllDone => \A n \in Opened :
    plan[fds[n].by].test \in {"key", "gpio"} \/ Raced(fds[n].by)

(***************************************************************************)
(* A test uses its own descriptors, as long as it runs, and leaves none    *)
(* behind.                                                                 *)
(***************************************************************************)
DescriptorsKept == OwnDescriptors /\ LeaksKnown

(***************************************************************************)
(* A test ends without any answer only if it was not enabled, was told to  *)
(* stop or has nothing to do, or, a key test, if an event of another kind  *)
(* came, something failed, the descriptors ran out, one of its own was     *)
(* closed by another test, or two input devices have the same name.        *)
(***************************************************************************)
Twins == \E m, n \in DOMAIN EventNodes : m # n /\ EventNodes[m] = EventNodes[n] /\ EventNodes[n] # None
SilentEndExplained ==
  \A k \in DOMAIN plan :
    th[k].at = "done" /\ th[k].frame = None =>
      \/ plan[k].test = "stop" \/ ~plan[k].enabled \/ plan[k].items = <<>>
      \/ /\ plan[k].test = "key"
         /\ k \in stopped \/ Wanted(k) = {} \/ {"noise", "fault", "full", "stray"} \cap th[k].met # {} \/ Twins

(***************************************************************************)
(* The result of a test is false exactly if an item is NG, but for         *)
(* ln_test, which answers with its last verdict, and baseinfo_test, which  *)
(* has no result.                                                          *)
(***************************************************************************)
ResultTells ==
  \A k \in DOMAIN plan :
    th[k].frame # None /\ plan[k].test \notin {"ln", "baseinfo"} =>
      (th[k].result = "false" <=> Failed(k) # {})

(***************************************************************************)
(* The process is ended only by a line with a single port, a serial port   *)
(* whose attributes could not be set, a camera whose converter died, a     *)
(* voltage that is no number, Bluetooth tests that overlapped, or an       *)
(* answer whose length wraps to zero.                                      *)
(***************************************************************************)
CrashExplained ==
  ~alive => \E k \in DOMAIN plan :
    \/ th[k].at = "line" /\ th[k].line <= 2 /\ Cardinality(OnLine(k)) = 1
    \/ th[k].at = "config"
    \/ th[k].at = "request" /\ Item(k) \in {"cam", "adc"}
    \/ k \in btRaced
    \/ th[k].at = "pack" /\ \E length \in Lengths : ContentLen(length) = 0

(***************************************************************************)
(* Nothing else keeps the host without an answer: neither a test that ends *)
(* without one nor the end of the process.                                 *)
(***************************************************************************)
EndsExplained == SilentEndExplained /\ CrashExplained

(***************************************************************************)
(* Of two answers with the same index one was sent while another test was  *)
(* sending.  The other need not have been: an update that is lost between  *)
(* three senders also gives back a number to one that comes later.         *)
(***************************************************************************)
NumbersFresh ==
  \A j, k \in DOMAIN plan :
    j # k /\ None \notin {th[j].frame, th[k].frame} /\ th[j].frame.index = th[k].frame.index =>
      {j, k} \cap crossed # {}

(***************************************************************************)
(* An answer that fits the 16-bit fields is a frame with all of its text,  *)
(* unless the port took only a part of it.                                 *)
(***************************************************************************)
AnswersFit ==
  \A k \in DOMAIN plan :
    th[k].frame # None =>
      LET f == th[k].frame
      IN f.length + 9 < Width => f.content = f.length + 1 /\ f.bytes <= f.content + 8

(***************************************************************************)
(* What the host reads is what the test found: a result that agrees with   *)
(* the items, a number of its own, and all of the text.                    *)
(***************************************************************************)
AnswersTrue == ResultTells /\ NumbersFresh /\ AnswersFit

(***************************************************************************)
(* Every command whose turn has come is taken and its test ends, unless a  *)
(* key is waited for by a test that no stop reached, or the scans were     *)
(* used up when a Wi-Fi test began: it never ends, and neither does the    *)
(* command thread.                                                         *)
(***************************************************************************)
Endless(k) ==
  \/ plan[k].test = "key" /\ k \notin stopped
  \/ plan[k].test = "wifi" /\ scanCount < 0
Over(k) == k \in DOMAIN th => th[k].at = "done" \/ ~alive
EveryTestEnds ==
  \A k \in 1..MaxPlan :
    (k \in DOMAIN th /\ (Turn(k) \/ th[k].at # "idle") /\ ~Endless(k)) ~> Over(k)
=============================================================================
