------------------------------ MODULE BoardSteps ------------------------------
(***************************************************************************)
(* The steps of the tests on one board, field by field, and the invariants *)
(* of their threads.  BoardTestsProofs shows that every action takes one   *)
(* of these steps and that the steps keep the invariants.                  *)
(***************************************************************************)
EXTENDS BoardTests

Fields == {"at", "fd", "try", "n", "item", "items", "result", "frame", "met", "shown", "ok", "want",
           "count", "line", "ports", "send", "recv", "queue", "reached", "lost", "tested"}
Verdicts == {"OK", "NG", "SKIP", "none"}

\* The control points of a test, and of every test when it answers.
SerialAt == {"serial", "open", "config", "echo", "probe", "closePort", "openCan", "line", "lineOpen",
             "exchange", "again"}
KeyAt == {"key", "scan", "name", "targets", "select"}
RtcAt == {"rtcOpen", "rtcSet", "rtcGet", "rtcClose"}
WifiAt == {"wifi", "wifiResults"}
BtAt == {"bt", "btOpen", "btInquiry", "btFill", "btClose", "btResult", "btRead"}
DeviceAt == {"device", "lamp", "access", "request", "close"}
Points(k) ==
  CASE plan[k].test = "serial" -> SerialAt
    [] plan[k].test = "key" -> KeyAt
    [] plan[k].test = "rtc" -> RtcAt
    [] plan[k].test = "wifi" -> WifiAt
    [] plan[k].test = "bluetooth" -> BtAt
    [] plan[k].test = "stop" -> {}
    [] OTHER -> DeviceAt
Ends == {"send", "pack", "write", "done"}

\* Where an item is being tested, alone or with the others of its line.
AtItem(k) ==
  \/ th[k].at \in {"echo", "probe", "closePort", "openCan", "lamp", "access", "request", "close"}
  \/ th[k].at \in RtcAt \cup WifiAt \cup BtAt
  \/ th[k].at \in {"open", "config", "again"} /\ th[k].line = 0
AtLine(k) ==
  \/ th[k].at \in {"lineOpen", "exchange"}
  \/ th[k].at \in {"open", "config", "again"} /\ th[k].line # 0

(***************************************************************************)
(* What the variables range over, whatever the tests do.                   *)
(***************************************************************************)
Shape ==
  /\ plan \in Plan /\ alive \in BOOLEAN
  /\ DOMAIN th = DOMAIN plan
  /\ \A k \in DOMAIN plan : DOMAIN th[k] = Fields
  /\ DOMAIN fds = 0 .. MaxFd - 1
  /\ \A n \in DOMAIN fds : fds[n] = Closed \/ fds[n].by \in DOMAIN plan
  /\ stopped \subseteq DOMAIN plan /\ raced \subseteq DOMAIN plan
  /\ clockRaced \subseteq DOMAIN plan /\ btRaced \subseteq DOMAIN plan
  /\ crossed \subseteq DOMAIN plan
  /\ serialFd \in -1 .. MaxFd - 1 /\ rtcFd \in -1 .. MaxFd - 1
  /\ keyPath \in [KeyNames -> DOMAIN EventNodes \cup {None}]
  /\ scanCount \in -1 .. Scans /\ btCount \in -1 .. 1 /\ btDevices \in DOMAIN plan \cup {None}
  /\ reportCmdIndex \in 0 .. Width - 1

\* The locals of a thread.
LocalsOf(k) ==
  /\ th[k].fd \in -1 .. MaxFd - 1
  /\ th[k].n \in Nat /\ th[k].try \in Nat /\ th[k].line \in 0 .. 3
  /\ th[k].at = "name" => th[k].n \in DOMAIN EventNodes
  /\ th[k].at = "scan" => th[k].n \in Nat \ {0}

\* Where a test is, and what it knows there of its items.
ControlOf(k) ==
  /\ th[k].at \in {"idle"} \cup Points(k) \cup Ends
  /\ th[k].at = "idle" => th[k] = Fresh
  /\ th[k].frame # None => th[k].at = "done"
  /\ th[k].at \in {"serial", "echo", "probe", "closePort", "openCan"} => th[k].line = 0
  /\ th[k].at \in {"open", "config"} => th[k].line \in {0, 1}
  /\ th[k].at \in {"lineOpen", "exchange"} => th[k].line \in {1, 2}
  /\ th[k].at = "again" => th[k].line \in {0, 1, 2}
  /\ th[k].at = "line" => th[k].line \in {1, 2, 3}
  /\ th[k].at = "close" => th[k].want \in {"next", "OK", "NG"}
  /\ AtItem(k) => th[k].item <= Len(plan[k].items)
  /\ AtLine(k) \/ th[k].at = "line" => th[k].item > Len(plan[k].items)

\* The verdicts: of the items before the current one, or of all keys.
ItemsOf(k) ==
  /\ th[k].items \in Seq(Verdicts) /\ th[k].item \in Nat \ {0}
  /\ Len(th[k].items) <= Len(plan[k].items)
  /\ plan[k].test # "key" => th[k].item = Len(th[k].items) + 1
  /\ plan[k].test = "key" /\ th[k].at \in Points(k) => Len(th[k].items) = Len(plan[k].items)
  /\ th[k].shown \subseteq DOMAIN plan[k].items
  /\ th[k].result \in {"true", "false", "none"}

Control(k) == LocalsOf(k) /\ ControlOf(k) /\ ItemsOf(k)
\* A step that neither sends an answer nor begins to, and ends only a key test,
\* one that was given no items, or one that did not start.
Quiet(k) ==
  /\ th[k].at \notin Ends /\ th'[k].at \notin {"idle", "pack", "write"}
  /\ th'[k].at = "done" => plan[k].test = "key" \/ plan[k].items = <<>> \/ th[k].at = "idle"
  /\ th'[k].frame = th[k].frame

-----------------------------------------------------------------------------
(***************************************************************************)
(* How a step changes the thread that takes it: the fields outside S stay, *)
(* and so do the other threads.  What it does to the table of descriptors. *)
(***************************************************************************)
Changes(k, S) ==
  /\ DOMAIN th' = DOMAIN th /\ DOMAIN th'[k] = Fields
  /\ \A j \in DOMAIN th \ {k} : th'[j] = th[j]
  /\ \A f \in Fields \ S : th'[k][f] = th[k][f]
Becomes(k, t) ==
  /\ DOMAIN th' = DOMAIN th /\ DOMAIN th'[k] = Fields
  /\ \A j \in DOMAIN th \ {k} : th'[j] = th[j]
  /\ \A f \in Fields : th'[k][f] = t[f]
BecomesBut(k, t, S) ==
  /\ DOMAIN th' = DOMAIN th /\ DOMAIN th'[k] = Fields
  /\ \A j \in DOMAIN th \ {k} : th'[j] = th[j]
  /\ \A f \in Fields \ S : th'[k][f] = t[f]

Keeps == fds' = fds
Takes(k, file) ==
  /\ Opened # DOMAIN fds
  /\ fds' = [fds EXCEPT ![Lowest] = [by |-> k, file |-> file]]
Drops(ns) == fds' = [n \in DOMAIN fds |-> IF n \in ns THEN Closed ELSE fds[n]]
Drop(n) == Drops({n})
Lack == {IF Opened = DOMAIN fds THEN "full" ELSE "fault"}

\* The descriptors of the ports of a line.
PortFds(k) == {th[k].ports[x] : x \in Usable(k)}

\* The two outcomes of open().
Opens(k, file, t) == Takes(k, file) /\ Set(k, [t EXCEPT !.fd = Lowest])
Misses(k, t) == Set(k, Meets([t EXCEPT !.fd = -1], Lack)) /\ Keeps

\* A verdict on the current item, of a test with and without rules of its own.
Judges(k, v) ==
  /\ th'[k].items = Append(th[k].items, v) /\ th'[k].item = th[k].item + 1
  /\ th'[k].result = IF v = "NG" THEN "false" ELSE th[k].result
Decides(k, v) ==
  /\ th'[k].items = Append(th[k].items, v) /\ th'[k].item = th[k].item + 1
  /\ th'[k].result = CASE plan[k].test = "ln" -> IF v = "NG" THEN "false" ELSE "true"
                       [] plan[k].test = "baseinfo" -> "none"
                       [] OTHER -> IF v = "NG" THEN "false" ELSE th[k].result
  /\ th'[k].at = "device" /\ th'[k].n = 0 /\ th'[k].try = 0
\* What is seen to work when an answer comes through the port.
NowShown(k) ==
  IF fds[th[k].fd].file = Port(k) THEN th[k].shown \cup {th[k].item} ELSE th[k].shown
\* One more port of a line.
Extended(k, f, v) ==
  [y \in DOMAIN th[k].ports \cup {NextPort(k)} |-> IF y = NextPort(k) THEN v ELSE f[y]]
Adds(k, n, up) ==
  /\ th'[k].ports = Extended(k, th[k].ports, n)
  /\ th'[k].send = Extended(k, th[k].send, up) /\ th'[k].recv = Extended(k, th[k].recv, up)

-----------------------------------------------------------------------------
(***************************************************************************)
(* The outcomes of each action, as ways a step can go: which fields of the *)
(* thread change, what it is left with, and what becomes of the table of   *)
(* descriptors.                                                            *)
(***************************************************************************)
\* The ways of SerialItem.
SerialItemWay1(k) ==
  /\ MoreItems(k) /\ Item(k) \in {"232", "485", "can"}
  /\ Changes(k, {"at", "met", "try"})
  /\ th'[k].at = IF Item(k) = "can" THEN "openCan" ELSE "open"
  /\ th'[k].try = 0
  /\ th'[k].met = th[k].met \ {"fault", "full"}
  /\ Keeps
SerialItemWay2(k) ==
  /\ MoreItems(k) /\ Item(k) \notin {"232", "485", "can"}
  /\ Changes(k, {"item", "items", "result"})
  /\ Judges(k, IF Item(k) = "off" THEN "SKIP" ELSE "none")
  /\ Keeps
SerialItemWay3(k) ==
  /\ ~MoreItems(k)
  /\ Changes(k, {"at", "line"})
  /\ th'[k].at = "line"
  /\ th'[k].line = 1
  /\ Keeps

\* The ways of SerialOpen.
SerialOpenWay1(k) ==
  /\ Changes(k, {"at", "fd"})
  /\ th'[k].at = "config"
  /\ th'[k].fd = Lowest
  /\ Takes(k, Port(k))
SerialOpenWay2(k) ==
  /\ th[k].line = 1
  /\ Changes(k, {"at", "fd", "met", "ports", "recv", "send"})
  /\ th'[k].at = "lineOpen"
  /\ Adds(k, -1, FALSE)
  /\ th'[k].fd = -1
  /\ th'[k].met = th[k].met \cup Lack
  /\ Keeps
SerialOpenWay3(k) ==
  /\ th[k].line = 0 /\ Item(k) # "232"
  /\ Changes(k, {"at", "fd", "item", "items", "met", "result"})
  /\ Judges(k, "NG")
  /\ th'[k].at = "serial"
  /\ th'[k].fd = -1
  /\ th'[k].met = th[k].met \cup Lack
  /\ Keeps
SerialOpenWay4(k) ==
  /\ th[k].line = 0 /\ Item(k) = "232" /\ th[k].try < Retries
  /\ Changes(k, {"at", "fd", "met"})
  /\ th'[k].at = "again"
  /\ th'[k].fd = -1
  /\ th'[k].met = th[k].met \cup Lack
  /\ Keeps
SerialOpenWay5(k) ==
  /\ th[k].line = 0 /\ Item(k) = "232" /\ ~(th[k].try < Retries)
  /\ Changes(k, {"at", "fd", "item", "items", "met", "result"})
  /\ Judges(k, "NG")
  /\ th'[k].at = "serial"
  /\ th'[k].fd = -1
  /\ th'[k].met = th[k].met \cup Lack
  /\ Keeps

\* The ways of SerialConfig.
SerialConfigWay1(k) ==
  /\ th[k].line = 1
  /\ Changes(k, {"at", "fd", "met", "ports", "recv", "send"})
  /\ th'[k].at = "lineOpen"
  /\ Adds(k, serialFd, TRUE)
  /\ th'[k].fd = serialFd
  /\ th'[k].met = th[k].met \cup Astray(k, serialFd)
  /\ Keeps
  /\ serialFd \in Opened
SerialConfigWay2(k) ==
  /\ th[k].line = 0
  /\ Changes(k, {"at", "fd", "met", "n"})
  /\ th'[k].at = IF Item(k) = "232" THEN "echo" ELSE "probe"
  /\ th'[k].n = 0
  /\ th'[k].fd = serialFd
  /\ th'[k].met = th[k].met \cup Astray(k, serialFd)
  /\ Keeps
  /\ serialFd \in Opened
SerialConfigWay3(k) ==
  /\ th[k].line = 1
  /\ Changes(k, {"at", "fd", "met", "ports", "recv", "send"})
  /\ th'[k].at = "lineOpen"
  /\ Adds(k, -1, FALSE)
  /\ th'[k].fd = -1
  /\ th'[k].met = th[k].met \cup Blames(k, serialFd) \cup Astray(k, serialFd)
  /\ Drop(serialFd)
SerialConfigWay4(k) ==
  /\ th[k].line = 0 /\ Item(k) # "232"
  /\ Changes(k, {"at", "fd", "item", "items", "met", "result"})
  /\ Judges(k, "NG")
  /\ th'[k].at = "serial"
  /\ th'[k].fd = -1
  /\ th'[k].met = th[k].met \cup Blames(k, serialFd) \cup Astray(k, serialFd)
  /\ Drop(serialFd)
SerialConfigWay5(k) ==
  /\ th[k].line = 0 /\ Item(k) = "232" /\ th[k].try < Retries
  /\ Changes(k, {"at", "fd", "met"})
  /\ th'[k].at = "again"
  /\ th'[k].fd = -1
  /\ th'[k].met = th[k].met \cup Blames(k, serialFd) \cup Astray(k, serialFd)
  /\ Drop(serialFd)
SerialConfigWay6(k) ==
  /\ th[k].line = 0 /\ Item(k) = "232" /\ ~(th[k].try < Retries)
  /\ Changes(k, {"at", "fd", "item", "items", "met", "result"})
  /\ Judges(k, "NG")
  /\ th'[k].at = "serial"
  /\ th'[k].fd = -1
  /\ th'[k].met = th[k].met \cup Blames(k, serialFd) \cup Astray(k, serialFd)
  /\ Drop(serialFd)

\* The ways of Echo.
EchoWay1(k) ==
  /\ th[k].n + 1 # Rounds
  /\ Changes(k, {"met", "n"})
  /\ th'[k].n = th[k].n + 1
  /\ th'[k].met = th[k].met \cup Astray(k, th[k].fd)
  /\ Keeps
  /\ th[k].fd \in Opened
EchoWay2(k) ==
  /\ th[k].n + 1 = Rounds
  /\ Changes(k, {"at", "met", "ok", "shown"})
  /\ th'[k].at = "closePort"
  /\ th'[k].ok = TRUE
  /\ th'[k].shown = NowShown(k)
  /\ th'[k].met = th[k].met \cup Astray(k, th[k].fd)
  /\ Keeps
  /\ th[k].fd \in Opened
EchoWay3(k) ==
  /\ Changes(k, {"at", "met", "ok"})
  /\ th'[k].at = "closePort"
  /\ th'[k].ok = FALSE
  /\ th'[k].met = th[k].met \cup Blames(k, th[k].fd)
  /\ Keeps

\* The ways of ClosePort.
ClosePortWay1(k) ==
  /\ th[k].ok
  /\ Changes(k, {"at", "fd", "item", "items", "met", "result"})
  /\ Judges(k, "OK")
  /\ th'[k].at = "serial"
  /\ th'[k].fd = -1
  /\ th'[k].met = th[k].met \cup Astray(k, th[k].fd)
  /\ Drop(th[k].fd)
ClosePortWay2(k) ==
  /\ ~th[k].ok /\ Item(k) = "232" /\ th[k].try < Retries
  /\ Changes(k, {"at", "fd", "met"})
  /\ th'[k].at = "again"
  /\ th'[k].fd = -1
  /\ th'[k].met = th[k].met \cup Astray(k, th[k].fd)
  /\ Drop(th[k].fd)
ClosePortWay3(k) ==
  /\ ~th[k].ok
  /\ Changes(k, {"at", "fd", "item", "items", "met", "result"})
  /\ Judges(k, "NG")
  /\ th'[k].at = "serial"
  /\ th'[k].fd = -1
  /\ th'[k].met = th[k].met \cup Astray(k, th[k].fd)
  /\ Drop(th[k].fd)

\* The ways of OpenCan.
OpenCanWay1(k) ==
  /\ Changes(k, {"at", "fd", "n"})
  /\ th'[k].at = "probe"
  /\ th'[k].n = 0
  /\ th'[k].fd = Lowest
  /\ Takes(k, Port(k))
OpenCanWay2(k) ==
  /\ Changes(k, {"at", "fd", "item", "items", "met", "result"})
  /\ Judges(k, "NG")
  /\ th'[k].at = "serial"
  /\ th'[k].fd = -1
  /\ th'[k].met = th[k].met \cup Lack
  /\ Keeps

\* The ways of CanTest.
CanTestWay1(k) ==
  /\ Changes(k, {"at", "met", "ok", "shown"})
  /\ th'[k].at = "closePort"
  /\ th'[k].ok = TRUE
  /\ th'[k].shown = NowShown(k)
  /\ th'[k].met = th[k].met \cup Astray(k, th[k].fd)
  /\ Keeps
  /\ th[k].fd \in Opened
CanTestWay2(k) ==
  /\ th[k].n + 1 < Probes
  /\ Changes(k, {"met", "n"})
  /\ th'[k].n = th[k].n + 1
  /\ th'[k].met = th[k].met \cup Blames(k, th[k].fd)
  /\ Keeps
CanTestWay3(k) ==
  /\ Item(k) = "can"
  /\ Changes(k, {"at", "met", "ok"})
  /\ th'[k].at = "closePort"
  /\ th'[k].ok = FALSE
  /\ th'[k].met = th[k].met \cup Blames(k, th[k].fd)
  /\ Keeps

\* The ways of Rs485Test.
Rs485TestWay1(k) ==
  /\ Changes(k, {"at", "met", "ok", "shown"})
  /\ th'[k].at = "closePort"
  /\ th'[k].ok = TRUE
  /\ th'[k].shown = NowShown(k)
  /\ th'[k].met = th[k].met \cup Astray(k, th[k].fd)
  /\ Keeps
  /\ th[k].fd \in Opened
Rs485TestWay2(k) ==
  /\ th[k].n + 1 < Probes
  /\ Changes(k, {"met", "n"})
  /\ th'[k].n = th[k].n + 1
  /\ th'[k].met = th[k].met \cup Blames(k, th[k].fd)
  /\ Keeps
Rs485TestWay3(k) ==
  /\ Item(k) = "485"
  /\ Changes(k, {"at", "met", "ok"})
  /\ th'[k].at = "closePort"
  /\ th'[k].ok = TRUE
  /\ th'[k].met = th[k].met \cup Blames(k, th[k].fd)
  /\ Keeps
Rs485TestWay4(k) ==
  /\ Item(k) = "485"
  /\ Changes(k, {"at", "met", "ok"})
  /\ th'[k].at = "closePort"
  /\ th'[k].ok = FALSE
  /\ th'[k].met = th[k].met \cup Blames(k, th[k].fd)
  /\ Keeps

\* The ways of LineBegin.
LineBeginWay1(k) ==
  /\ OnLine(k) = {}
  /\ Changes(k, {"line"})
  /\ th'[k].line = th[k].line + 1
  /\ Keeps
LineBeginWay2(k) ==
  /\ OnLine(k) # {}
  /\ Changes(k, {"at", "lost", "met", "n", "ports", "queue", "reached", "recv", "send", "tested", "try"})
  /\ th'[k].ports = <<>>
  /\ th'[k].send = <<>>
  /\ th'[k].recv = <<>>
  /\ th'[k].n = 0
  /\ th'[k].queue = [x \in OnLine(k) |-> 0]
  /\ th'[k].reached = {} /\ th'[k].lost = {}
  /\ th'[k].tested = {}
  /\ th'[k].at = "lineOpen"
  /\ th'[k].try = 0
  /\ th'[k].met = th[k].met \ {"fault", "full"}
  /\ Keeps

\* The ways of LineOpen.
LineOpenWay1(k) ==
  /\ OnLine(k) \subseteq DOMAIN th[k].ports
  /\ Changes(k, {"at"})
  /\ th'[k].at = "exchange"
  /\ Keeps
LineOpenWay2(k) ==
  /\ ~(OnLine(k) \subseteq DOMAIN th[k].ports) /\ th[k].line = 1
  /\ Changes(k, {"at"})
  /\ th'[k].at = "open"
  /\ Keeps
LineOpenWay3(k) ==
  /\ ~(OnLine(k) \subseteq DOMAIN th[k].ports) /\ th[k].line # 1
  /\ Changes(k, {"at", "fd", "ports", "recv", "send"})
  /\ th'[k].at = "lineOpen"
  /\ Adds(k, Lowest, TRUE)
  /\ th'[k].fd = Lowest
  /\ Takes(k, Port(k))
LineOpenWay4(k) ==
  /\ ~(OnLine(k) \subseteq DOMAIN th[k].ports) /\ th[k].line # 1
  /\ Changes(k, {"at", "fd", "met", "ports", "recv", "send"})
  /\ th'[k].at = "lineOpen"
  /\ Adds(k, Lowest, FALSE)
  /\ th'[k].fd = Lowest
  /\ th'[k].met = th[k].met \cup {"fault"}
  /\ Takes(k, Port(k))
LineOpenWay5(k) ==
  /\ ~(OnLine(k) \subseteq DOMAIN th[k].ports) /\ th[k].line # 1
  /\ Changes(k, {"at", "fd", "met", "ports", "recv", "send"})
  /\ th'[k].at = "lineOpen"
  /\ Adds(k, -1, FALSE)
  /\ th'[k].fd = -1
  /\ th'[k].met = th[k].met \cup Lack
  /\ Keeps

\* The ways of LineClose.
LineCloseWay1(k) ==
  /\ (AllPassed(k) \/ th[k].try = Retries)
  /\ Changes(k, {"at", "items", "line", "met", "result", "shown"})
  /\ th'[k].at = "line"
  /\ th'[k].line = th[k].line + 1
  /\ th'[k].items = [y \in DOMAIN th[k].items |-> CASE y \notin OnLine(k) -> th[k].items[y]
        [] y \in OnLine(k) /\ Passed(k, y) -> "OK" [] OTHER -> "NG"]
  /\ th'[k].result = IF AllPassed(k) THEN th[k].result ELSE "false"
  /\ th'[k].shown = th[k].shown \cup (OnLine(k) \cap (th[k].reached \ th[k].lost))
  /\ th'[k].met = th[k].met \cup UNION {Astray(k, n) : n \in PortFds(k)}
  /\ Drops(PortFds(k))
LineCloseWay2(k) ==
  /\ ~AllPassed(k)
  /\ Changes(k, {"at", "lost", "met", "n", "ports", "queue", "reached", "recv", "send", "tested"})
  /\ th'[k].ports = <<>>
  /\ th'[k].send = <<>>
  /\ th'[k].recv = <<>>
  /\ th'[k].n = 0
  /\ th'[k].queue = [x \in OnLine(k) |-> 0]
  /\ th'[k].reached = {} /\ th'[k].lost = {}
  /\ th'[k].tested = {}
  /\ th'[k].at = "again"
  /\ th'[k].met = th[k].met \cup UNION {Astray(k, n) : n \in PortFds(k)}
  /\ Drops(PortFds(k))

\* The ways of KeyLoop.
KeyLoopWay1(k) ==
  /\ (Remaining(k) = {} \/ k \in stopped)
  /\ Changes(k, {"at"})
  /\ th'[k].at = "done"
  /\ Keeps
KeyLoopWay2(k) ==
  /\ Remaining(k) # {}
  /\ Changes(k, {"at", "count", "n", "ports"})
  /\ th'[k].at = "scan"
  /\ th'[k].n = 1
  /\ th'[k].count = 0
  /\ th'[k].ports = <<>>
  /\ Keeps

\* The ways of ScanNode.
ScanNodeWay1(k) ==
  /\ Changes(k, {"at", "fd"})
  /\ th'[k].at = "name"
  /\ th'[k].fd = Lowest
  /\ Takes(k, <<"event", th[k].n>>)
ScanNodeWay2(k) ==
  /\ Changes(k, {"at", "fd", "met", "n"})
  /\ th'[k].at = "scan"
  /\ th'[k].n = th[k].n + 1
  /\ th'[k].fd = -1
  /\ th'[k].met = th[k].met \cup Lack
  /\ Keeps

\* The ways of NodeName.
NodeNameWay1(k) ==
  /\ EventNodes[th[k].n] # None
  /\ Changes(k, {"at", "count", "met", "n"})
  /\ th'[k].at = "scan"
  /\ th'[k].n = th[k].n + 1
  /\ th'[k].count = th[k].count + 1
  /\ th'[k].met = th[k].met \cup Astray(k, th[k].fd)
  /\ Keeps
  /\ th[k].fd \in Opened
  /\ keyPath' = [keyPath EXCEPT ![EventNodes[th[k].n]] = th[k].n]
NodeNameWay2(k) ==
  /\ EventNodes[th[k].n] = None
  /\ Changes(k, {"at", "met", "n"})
  /\ th'[k].at = "scan"
  /\ th'[k].n = th[k].n + 1
  /\ th'[k].met = th[k].met \cup Astray(k, th[k].fd)
  /\ Keeps
  /\ th[k].fd \in Opened
  /\ keyPath' = keyPath
NodeNameWay3(k) ==
  /\ Changes(k, {"at", "met", "n"})
  /\ th'[k].at = "scan"
  /\ th'[k].n = th[k].n + 1
  /\ th'[k].met = th[k].met \cup Blames(k, th[k].fd) \cup Astray(k, th[k].fd)
  /\ Drop(th[k].fd)
  /\ keyPath' = keyPath

\* The ways of ScanEnds.
ScanEndsWay1(k) ==
  /\ th[k].count = Cardinality(KeyNames)
  /\ Changes(k, {"at"})
  /\ th'[k].at = "targets"
  /\ Keeps
ScanEndsWay2(k) ==
  /\ th[k].count # Cardinality(KeyNames)
  /\ Changes(k, {"at"})
  /\ th'[k].at = "done"
  /\ Keeps

\* The ways of TargetOpen.
TargetOpenWay1(k) ==
  /\ Changes(k, {"fd", "ports"})
  /\ th'[k].ports = Append(th[k].ports, Target((CHOOSE x \in ToOpen(k) : TRUE), Lowest))
  /\ th'[k].fd = Lowest
  /\ Takes(k, <<"event", keyPath[(CHOOSE x \in ToOpen(k) : TRUE)]>>)
TargetOpenWay2(k) ==
  /\ Changes(k, {"fd", "met", "ports"})
  /\ th'[k].ports = Append(th[k].ports, Target((CHOOSE x \in ToOpen(k) : TRUE), -1))
  /\ th'[k].fd = -1
  /\ th'[k].met = th[k].met \cup Lack
  /\ Keeps

\* The ways of TargetsEnd.
TargetsEndWay1(k) ==
  /\ -1 \in Ports(k)
  /\ Changes(k, {"at", "met"})
  /\ th'[k].at = "done"
  /\ th'[k].met = th[k].met \cup UNION {Astray(k, n) : n \in Ports(k) \ {-1}}
  /\ Drops(Ports(k) \ {-1})
TargetsEndWay2(k) ==
  /\ -1 \notin Ports(k)
  /\ Changes(k, {"at"})
  /\ th'[k].at = "select"
  /\ Keeps

\* The ways of DeviceItem.
DeviceItemWay1(k) ==
  /\ Item(k) = "off"
  /\ Changes(k, {"at", "item", "items", "n", "result", "try"})
  /\ Decides(k, "SKIP")
  /\ Keeps
DeviceItemWay2(k) ==
  /\ Item(k) = "other"
  /\ Changes(k, {"at", "item", "items", "n", "result", "try"})
  /\ Decides(k, "none")
  /\ Keeps
DeviceItemWay3(k) ==
  /\ Item(k) = "unknown"
  /\ Changes(k, {"at", "item", "items", "met", "n", "result", "try"})
  /\ Decides(k, "NG")
  /\ th'[k].met = th[k].met \cup {"unknown"}
  /\ Keeps
DeviceItemWay4(k) ==
  /\ Item(k) \in {"lamp", "fan"}
  /\ Changes(k, {"at", "met"})
  /\ th'[k].at = "lamp"
  /\ th'[k].met = th[k].met \ {"fault", "full"}
  /\ Keeps
DeviceItemWay5(k) ==
  /\ Item(k) \notin {"off", "other", "unknown", "lamp", "fan"}
  /\ Changes(k, {"at", "met"})
  /\ th'[k].at = "access"
  /\ th'[k].met = th[k].met \ {"fault", "full"}
  /\ Keeps

\* The ways of DeviceEnds.
DeviceEndsWay1(k) ==
  /\ plan[k].items = <<>>
  /\ Changes(k, {"at"})
  /\ th'[k].at = "done"
  /\ Keeps
DeviceEndsWay2(k) ==
  /\ Changes(k, {"at"})
  /\ th'[k].at = "send"
  /\ Keeps

\* The ways of Lamp.
LampWay1(k) ==
  /\ Changes(k, {"at", "item", "items", "n", "result", "shown", "try"})
  /\ Decides(k, "OK")
  /\ th'[k].shown = th[k].shown \cup {th[k].item}
  /\ Keeps
LampWay2(k) ==
  /\ Changes(k, {"at", "item", "items", "met", "n", "result", "try"})
  /\ Decides(k, "NG")
  /\ th'[k].met = th[k].met \cup {"fault"}
  /\ Keeps

\* The ways of AccessOpen.
AccessOpenWay1(k) ==
  /\ Changes(k, {"at", "fd", "try"})
  /\ th'[k].at = "request"
  /\ th'[k].try = 0
  /\ th'[k].fd = Lowest
  /\ Takes(k, <<k, th[k].item>>)
AccessOpenWay2(k) ==
  /\ Changes(k, {"at", "fd", "item", "items", "met", "n", "result", "try"})
  /\ Decides(k, "NG")
  /\ th'[k].fd = -1
  /\ th'[k].met = th[k].met \cup Lack
  /\ Keeps

\* The ways of AccessClose.
AccessCloseWay1(k) ==
  /\ th[k].want = "next"
  /\ Changes(k, {"at", "met", "n"})
  /\ th'[k].at = "access"
  /\ th'[k].n = th[k].n + 1
  /\ th'[k].met = th[k].met \cup Astray(k, th[k].fd)
  /\ Drop(th[k].fd)
AccessCloseWay2(k) ==
  /\ th[k].want # "next"
  /\ Changes(k, {"at", "item", "items", "met", "n", "result", "try"})
  /\ Decides(k, th[k].want)
  /\ th'[k].met = th[k].met \cup Astray(k, th[k].fd)
  /\ Drop(th[k].fd)

\* The ways of Request.
RequestWay1(k) ==
  /\ Item(k) # "pin"
  /\ Changes(k, {"at", "met", "want"})
  /\ th'[k].at = "close"
  /\ th'[k].want = "NG"
  /\ th'[k].met = th[k].met \cup Blames(k, th[k].fd)
  /\ Keeps
RequestWay2(k) ==
  /\ Item(k) = "pin"
  /\ Changes(k, {"at", "item", "items", "met", "n", "result", "try"})
  /\ Decides(k, "NG")
  /\ th'[k].met = th[k].met \cup Blames(k, th[k].fd)
  /\ Keeps
RequestWay3(k) ==
  /\ Changes(k, {"met", "try"})
  /\ th'[k].try = th[k].try + 1
  /\ th'[k].met = th[k].met \cup Astray(k, th[k].fd)
  /\ Keeps
  /\ th[k].fd \in Opened
RequestWay4(k) ==
  /\ Item(k) # "pin"
  /\ Changes(k, {"at", "met", "want"})
  /\ th'[k].at = "close"
  /\ th'[k].want = "next"
  /\ th'[k].met = th[k].met \cup Astray(k, th[k].fd)
  /\ Keeps
  /\ th[k].fd \in Opened
RequestWay5(k) ==
  /\ Item(k) = "pin"
  /\ Changes(k, {"at", "met", "n"})
  /\ th'[k].at = "access"
  /\ th'[k].n = th[k].n + 1
  /\ th'[k].met = th[k].met \cup Astray(k, th[k].fd)
  /\ Keeps
  /\ th[k].fd \in Opened
RequestWay6(k) ==
  /\ Item(k) # "pin" /\ Astray(k, th[k].fd) = {}
  /\ Changes(k, {"at", "met", "shown", "want"})
  /\ th'[k].at = "close"
  /\ th'[k].want = "OK"
  /\ th'[k].shown = th[k].shown \cup {th[k].item}
  /\ th'[k].met = th[k].met \cup Astray(k, th[k].fd)
  /\ Keeps
  /\ th[k].fd \in Opened
RequestWay7(k) ==
  /\ Item(k) = "pin" /\ Astray(k, th[k].fd) = {}
  /\ Changes(k, {"at", "item", "items", "met", "n", "result", "shown", "try"})
  /\ Decides(k, "OK")
  /\ th'[k].shown = th[k].shown \cup {th[k].item}
  /\ th'[k].met = th[k].met \cup Astray(k, th[k].fd)
  /\ Keeps
  /\ th[k].fd \in Opened
RequestWay8(k) ==
  /\ Item(k) # "pin" /\ Astray(k, th[k].fd) # {}
  /\ Changes(k, {"at", "met", "want"})
  /\ th'[k].at = "close"
  /\ th'[k].want = "OK"
  /\ th'[k].met = th[k].met \cup Astray(k, th[k].fd)
  /\ Keeps
  /\ th[k].fd \in Opened
RequestWay9(k) ==
  /\ Item(k) = "pin" /\ Astray(k, th[k].fd) # {}
  /\ Changes(k, {"at", "item", "items", "met", "n", "result", "try"})
  /\ Decides(k, "OK")
  /\ th'[k].met = th[k].met \cup Astray(k, th[k].fd)
  /\ Keeps
  /\ th[k].fd \in Opened

\* The ways of Misleads.
MisleadsWay1(k) ==
  /\ Item(k) # "pin"
  /\ Changes(k, {"at", "met", "want"})
  /\ th'[k].at = "close"
  /\ th'[k].want = "OK"
  /\ th'[k].met = th[k].met \cup {"lookalike"} \cup Astray(k, th[k].fd)
  /\ Keeps
  /\ th[k].fd \in Opened
MisleadsWay2(k) ==
  /\ Item(k) = "pin"
  /\ Changes(k, {"at", "item", "items", "met", "n", "result", "try"})
  /\ Decides(k, "OK")
  /\ th'[k].met = th[k].met \cup {"lookalike"} \cup Astray(k, th[k].fd)
  /\ Keeps
  /\ th[k].fd \in Opened

\* The ways of RtcOpen.
RtcOpenWay1(k) ==
  /\ Changes(k, {"at", "fd"})
  /\ th'[k].at = "rtcSet"
  /\ th'[k].fd = Lowest
  /\ Takes(k, "rtc")
RtcOpenWay2(k) ==
  /\ Changes(k, {"at", "fd", "met"})
  /\ th'[k].at = "rtcSet"
  /\ th'[k].fd = -1
  /\ th'[k].met = th[k].met \cup Lack
  /\ Keeps

\* The ways of RtcSet.
RtcSetWay1(k) ==
  /\ Changes(k, {"at", "met"})
  /\ th'[k].at = "rtcGet"
  /\ th'[k].met = th[k].met \cup Astray(k, rtcFd)
  /\ Keeps
  /\ rtcFd \in Opened
  /\ clockBy' = k
RtcSetWay2(k) ==
  /\ Changes(k, {"at", "item", "items", "met", "result"})
  /\ Judges(k, "NG")
  /\ th'[k].at = "send"
  /\ th'[k].met = th[k].met \cup Blames(k, rtcFd) \cup Astray(k, rtcFd)
  /\ Drop(rtcFd)
  /\ clockBy' = clockBy

\* The ways of RtcGet.
RtcGetWay1(k) ==
  /\ clockBy = k
  /\ Changes(k, {"at", "met", "ok", "shown"})
  /\ th'[k].at = "rtcClose"
  /\ th'[k].ok = TRUE
  /\ th'[k].shown = th[k].shown \cup {1}
  /\ th'[k].met = th[k].met \cup Astray(k, rtcFd)
  /\ Keeps
  /\ rtcFd \in Opened
RtcGetWay2(k) ==
  /\ clockBy # k
  /\ Changes(k, {"at", "met", "ok"})
  /\ th'[k].at = "rtcClose"
  /\ th'[k].ok = TRUE
  /\ th'[k].met = th[k].met \cup Astray(k, rtcFd)
  /\ Keeps
  /\ rtcFd \in Opened
RtcGetWay3(k) ==
  /\ Changes(k, {"at", "met", "ok"})
  /\ th'[k].at = "rtcClose"
  /\ th'[k].ok = FALSE
  /\ th'[k].met = th[k].met \cup Blames(k, rtcFd)
  /\ Keeps
RtcGetWay4(k) ==
  /\ Changes(k, {"at", "met", "ok"})
  /\ th'[k].at = "rtcClose"
  /\ th'[k].ok = FALSE
  /\ th'[k].met = th[k].met \cup Blames(k, rtcFd) \cup Astray(k, rtcFd)
  /\ Drop(rtcFd)

\* The ways of RtcClose.
RtcCloseWay1(k) ==
  /\ th[k].ok
  /\ Changes(k, {"at", "item", "items", "met", "result"})
  /\ Judges(k, "OK")
  /\ th'[k].at = "send"
  /\ th'[k].met = th[k].met \cup Astray(k, rtcFd)
  /\ Drop(rtcFd)
RtcCloseWay2(k) ==
  /\ ~th[k].ok
  /\ Changes(k, {"at", "item", "items", "met", "result"})
  /\ Judges(k, "NG")
  /\ th'[k].at = "send"
  /\ th'[k].met = th[k].met \cup Astray(k, rtcFd)
  /\ Drop(rtcFd)

\* The ways of WifiScan.
WifiScanWay1(k) ==
  /\ Changes(k, {"at"})
  /\ th'[k].at = "wifiResults"
  /\ Keeps
WifiScanWay2(k) ==
  /\ Changes(k, {"met"})
  /\ th'[k].met = th[k].met \cup {"fault"}
  /\ Keeps

\* The ways of WifiResults.
WifiResultsWay1(k) ==
  /\ Changes(k, {"at", "item", "items", "result", "shown"})
  /\ Judges(k, "OK")
  /\ th'[k].at = "send"
  /\ th'[k].shown = th[k].shown \cup {1}
  /\ Keeps
WifiResultsWay2(k) ==
  /\ Changes(k, {"at", "item", "items", "met", "result"})
  /\ Judges(k, "OK")
  /\ th'[k].at = "send"
  /\ th'[k].met = th[k].met \cup {"lookalike"}
  /\ Keeps
WifiResultsWay3(k) ==
  /\ Changes(k, {"at", "met"})
  /\ th'[k].at = "wifi"
  /\ th'[k].met = th[k].met \cup {"fault"}
  /\ Keeps
WifiResultsWay4(k) ==
  /\ Changes(k, {"at", "item", "items", "met", "result"})
  /\ Judges(k, "NG")
  /\ th'[k].at = "send"
  /\ th'[k].met = th[k].met \cup {"fault"}
  /\ Keeps

\* The ways of BtOpen.
BtOpenWay1(k) ==
  /\ Changes(k, {"at", "fd"})
  /\ th'[k].at = "btInquiry"
  /\ th'[k].fd = Lowest
  /\ Takes(k, <<k, 1>>)
BtOpenWay2(k) ==
  /\ Changes(k, {"at", "fd", "item", "items", "met", "result"})
  /\ Judges(k, "NG")
  /\ th'[k].at = "send"
  /\ th'[k].fd = -1
  /\ th'[k].met = th[k].met \cup Lack
  /\ Keeps

\* The ways of BtInquiry.
BtInquiryWay1(k) ==
  /\ Changes(k, {"at", "item", "items", "met", "result"})
  /\ Judges(k, "NG")
  /\ th'[k].at = "send"
  /\ th'[k].met = th[k].met \cup Blames(k, th[k].fd) \cup Astray(k, th[k].fd)
  /\ Drop(th[k].fd)
  /\ btCount' = btCount /\ btDevices' = btDevices
BtInquiryWay2(k) ==
  /\ Changes(k, {"at", "met"})
  /\ th'[k].at = "btResult"
  /\ th'[k].met = th[k].met \cup Astray(k, th[k].fd)
  /\ Drop(th[k].fd)
  /\ btCount' = 0 /\ btDevices' = btDevices
BtInquiryWay3(k) ==
  /\ Changes(k, {"at", "met", "shown"})
  /\ th'[k].at = "btFill"
  /\ th'[k].shown = th[k].shown \cup {1}
  /\ th'[k].met = th[k].met \cup Astray(k, th[k].fd)
  /\ Keeps
  /\ th[k].fd \in Opened
  /\ btCount' = 1 /\ btDevices' = k

\* The ways of BtResult.
BtResultWay1(k) ==
  /\ btCount > 0
  /\ Changes(k, {"at"})
  /\ th'[k].at = "btRead"
  /\ Keeps
BtResultWay2(k) ==
  /\ ~(btCount > 0)
  /\ Changes(k, {"at"})
  /\ th'[k].at = "send"
  /\ Keeps

\* A port that has failed.
Unset(f, x) == [f EXCEPT ![x] = FALSE]

\* What port j has read when the frame of port i has come to the ports heard.
Came(k, heard) ==
  [x \in DOMAIN th[k].queue |-> th[k].queue[x] + IF x \in heard THEN 1 ELSE 0]
Left(k, heard) ==
  LET j == Pair(k)[2]
  IN [Came(k, heard) EXCEPT ![j] = IF ReadAll(k) \/ Came(k, heard)[j] = 0 THEN 0
                                    ELSE Came(k, heard)[j] - 1]
Deaf(k, heard) == IF heard = Usable(k) \ {Pair(k)[1]} THEN {} ELSE {"fault"}

-----------------------------------------------------------------------------
\* What the thread of a test knows at every point of it.
Known(k) ==
  /\ k \in DOMAIN th /\ DOMAIN th[k] = Fields /\ DOMAIN fds = 0 .. MaxFd - 1
  /\ plan[k].items \in Seq(STRING) /\ Len(plan[k].items) \in Nat
  /\ DOMAIN plan[k].items = 1 .. Len(plan[k].items)
  /\ th[k].fd \in -1 .. MaxFd - 1
  /\ th[k].n \in Nat /\ th[k].try \in Nat /\ th[k].line \in 0 .. 3
  /\ th[k].frame = None
  /\ th[k].items \in Seq(Verdicts) /\ th[k].item \in Nat \ {0} /\ Len(th[k].items) \in Nat
  /\ DOMAIN th[k].items = 1 .. Len(th[k].items)
  /\ Len(th[k].items) <= Len(plan[k].items)
  /\ plan[k].test # "key" => th[k].item = Len(th[k].items) + 1
  /\ plan[k].test = "key" => Len(th[k].items) = Len(plan[k].items)
  /\ th[k].shown \subseteq DOMAIN plan[k].items
  /\ th[k].result \in {"true", "false", "none"}

\* A step of the thread of k.
Turns(k) ==
  /\ DOMAIN th' = DOMAIN th /\ DOMAIN th'[k] = Fields
  /\ \A j \in DOMAIN th \ {k} : th'[j] = th[j]
  /\ Keeps \/ (\E file : Takes(k, file)) \/ (\E ns : Drops(ns))

\* What a step does to the verdicts: nothing, another one, or new ones in place.
Same(k) ==
  th'[k].items = th[k].items /\ th'[k].item = th[k].item /\ th'[k].result = th[k].result
\* What it leaves alone beside them: the line, the items shown and the frame.
Aside(k) == th'[k].line = th[k].line /\ th'[k].shown = th[k].shown /\ th'[k].frame = th[k].frame
Rests(k) ==
  /\ th'[k].items = th[k].items /\ th'[k].item = th[k].item /\ th'[k].result = th[k].result
  /\ th'[k].line = th[k].line /\ th'[k].shown = th[k].shown /\ th'[k].frame = th[k].frame
Ruled(k) ==
  \/ plan[k].test \in {"serial", "rtc", "wifi", "bluetooth"} /\ \E v \in Verdicts : Judges(k, v)
  \/ plan[k].test \notin {"serial", "rtc", "wifi", "bluetooth"} /\ \E v \in Verdicts : Decides(k, v)
Rules(k) == Same(k) \/ Ruled(k)
\* What stays of its type, and how a verdict is added.
Ranged(k) ==
  /\ th'[k].fd \in -1 .. MaxFd - 1 /\ th'[k].n \in Nat /\ th'[k].try \in Nat
  /\ th'[k].shown \subseteq DOMAIN plan[k].items
Scores(k, v) ==
  /\ th'[k].items = Append(th[k].items, v) /\ th'[k].item = th[k].item + 1
  /\ th'[k].result \in {"true", "false", "none"}
Refilled(k) ==
  /\ th'[k].items \in Seq(Verdicts) /\ Len(th'[k].items) = Len(th[k].items)
  /\ th'[k].item = th[k].item /\ th'[k].result \in {"true", "false", "none"}

-----------------------------------------------------------------------------
(***************************************************************************)
(* The inductive invariant of the types and of the control.                *)
(***************************************************************************)
Typed == Shape /\ \A k \in DOMAIN plan : Control(k)

-----------------------------------------------------------------------------
(***************************************************************************)
(* The numbers of the answers.  A sender that met no other one finds in    *)
(* the counter what it read there, so it leaves it above every number that *)
(* was taken without a meeting; and the counter never exceeds the number   *)
(* of answers, so it does not wrap.                                        *)
(***************************************************************************)
Packed == {k \in DOMAIN plan : th[k].at = "write" \/ th[k].frame # None}
Number(k) == IF th[k].frame # None THEN th[k].frame.index ELSE th[k].n
SendersRaced ==
  \A j, k \in DOMAIN plan : j # k /\ th[j].at = "pack" /\ th[k].at = "pack" => {j, k} \subseteq crossed
Counter == alive => reportCmdIndex <= Cardinality(Packed)
CounterOf(k) ==
  alive /\ th[k].at = "pack" =>
    /\ th[k].n <= Cardinality(Packed)
    /\ k \notin crossed => reportCmdIndex = th[k].n
NumberOf(k) ==
  k \in Packed \ crossed =>
    /\ alive => Number(k) < reportCmdIndex
    /\ \A j \in DOMAIN plan : alive /\ th[j].at = "pack" => Number(k) < th[j].n
    /\ \A j \in Packed \ crossed : j # k => Number(j) # Number(k)
FrameOf(k) ==
  /\ th[k].at = "write" => th[k].try \in Lengths
  /\ th[k].frame # None =>
       /\ th[k].frame \in [index : Nat, length : Nat, content : Nat, bytes : Nat]
       /\ th[k].frame.length + 9 < Width =>
            th[k].frame.content = th[k].frame.length + 1 /\ th[k].frame.bytes <= th[k].frame.content + 8
Sends ==
  /\ SendersRaced /\ Counter
  /\ \A k \in DOMAIN plan : CounterOf(k) /\ NumberOf(k) /\ FrameOf(k)

-----------------------------------------------------------------------------
(***************************************************************************)
(* The results of the tests.  The verdicts of the ports on a line wait     *)
(* until the line was tested; a result is false from the first NG on.      *)
(***************************************************************************)
Kinds == {"232", "485", "can"}
ItemAt == {"open", "config", "echo", "probe", "closePort", "openCan", "again"}
Pending(k, x) ==
  \/ plan[k].items[x] = "bus485" /\ th[k].line <= 1
  \/ plan[k].items[x] = "busCan" /\ th[k].line <= 2
LineOf(k) ==
  plan[k].test = "serial" /\ th[k].at \in SerialAt =>
    /\ th[k].at \in ItemAt /\ th[k].line = 0 => Item(k) \in Kinds
    /\ \A x \in DOMAIN th[k].items : Pending(k, x) => th[k].items[x] = "none"
ResultOf(k) ==
  IF plan[k].test = "key" THEN Failed(k) = {} /\ th[k].result # "false"
  ELSE plan[k].test \notin {"ln", "baseinfo"} => (th[k].result = "false" <=> Failed(k) # {})
Results == \A k \in DOMAIN plan : LineOf(k) /\ ResultOf(k)

\* A step of a serial test short of the verdicts of a line.
Advances(k) ==
  \/ Same(k) /\ th'[k].line >= th[k].line
  \/ /\ th'[k].line = th[k].line
     /\ \E v \in Verdicts : Judges(k, v) /\ (v = "none" \/ Item(k) \notin {"bus485", "busCan"})
Picks(k) ==
  th'[k].at \in ItemAt /\ th'[k].line = 0 => th'[k].item = th[k].item /\ Item(k) \in Kinds

-----------------------------------------------------------------------------
(***************************************************************************)
(* How tests and the process end.  A key test has counted the names it     *)
(* read, unless something went wrong; a Bluetooth test that met no other   *)
(* finds its own list.                                                     *)
(***************************************************************************)
Troubled(k) == {"noise", "fault", "full", "stray"} \cap th[k].met # {}
Excused(k) ==
  \/ plan[k].test = "stop" \/ ~plan[k].enabled \/ plan[k].items = <<>>
  \/ plan[k].test = "key" /\ (k \in stopped \/ Wanted(k) = {} \/ Troubled(k) \/ Twins)
NamesTo(n) == {EventNodes[m] : m \in 1 .. n - 1} \ {None}
Unpressed(k) == Remaining(k) # {} \/ Wanted(k) = {}
Counted(k) ==
  /\ IsFiniteSet(NamesTo(th[k].n)) /\ 1 .. th[k].n - 1 \subseteq DOMAIN EventNodes
  /\ Troubled(k) \/ Twins \/ th[k].count = Cardinality(NamesTo(th[k].n))
Targeted(k) ==
  /\ th[k].ports \in Seq([name : KeyNames, fd : -1 .. MaxFd - 1])
  /\ -1 \in Ports(k) => Troubled(k)
KeysOf(k) ==
  /\ Unpressed(k)
  /\ th[k].at \in {"scan", "name"} => Counted(k)
  /\ th[k].at # "key" => Targeted(k)
SilenceOf(k) ==
  /\ th[k].at = "done" /\ th[k].frame = None => Excused(k)
  /\ th[k].at \in KeyAt => KeysOf(k)
BtRange == {"btOpen", "btInquiry", "btFill", "btClose", "btResult", "btRead"}
BtRaces ==
  \A j, k \in DOMAIN plan :
    j # k /\ th[j].at \in BtRange /\ th[k].at \in BtRange => {j, k} \subseteq btRaced
ListOf(k) ==
  k \notin btRaced =>
    /\ th[k].at \in {"btFill", "btClose", "btRead"} => btDevices = k
    /\ th[k].at = "btResult" /\ btCount > 0 => btDevices = k
Ended ==
  /\ CrashExplained /\ BtRaces
  /\ \A k \in DOMAIN plan : SilenceOf(k) /\ ListOf(k)

-----------------------------------------------------------------------------
(***************************************************************************)
(* What a test holds and what it will say.  A test that met no other on a  *)
(* member of the board holds the descriptors its locals name, finds its    *)
(* own number in the member, and has a reason for every verdict it gave or *)
(* is about to give.                                                       *)
(***************************************************************************)
FdAt == {"config", "echo", "probe", "closePort", "name", "request", "close", "rtcSet", "rtcGet",
         "rtcClose", "btInquiry", "btFill", "btClose"}
RtcRange == {"rtcSet", "rtcGet", "rtcClose"}
Holds(k, n) ==
  \/ th[k].at \in FdAt /\ n = th[k].fd
  \/ AtLine(k) /\ n \in PortFds(k)
  \/ th[k].at \in {"scan", "name", "targets", "select"} /\ n \in Ports(k)
\* Tests that leave descriptors open.
Leaky(k) == plan[k].test \in {"key", "gpio"}

\* The number of a port that is being opened names no other port of the line.
Apart(k) == th[k].at = "config" /\ th[k].line # 0 => th[k].fd \notin PortFds(k)

Caused(k) == th[k].met \cap Causes # {}
Fair(k, x) ==
  \/ x \in th[k].shown \/ {"stray", "lookalike"} \cap th[k].met # {}
  \/ plan[k].items[x] = "485" \/ Crowded(k, x) \/ Alone(k, x)

\* The item is about to be OK, or NG.
Promised(k) ==
  \/ th[k].at = "closePort" /\ th[k].ok
  \/ th[k].at = "close" /\ th[k].want = "OK"
  \/ th[k].at = "rtcClose" /\ th[k].ok
  \/ th[k].at \in {"btFill", "btClose", "btRead"}
  \/ th[k].at = "btResult" /\ btCount > 0
Denied(k) ==
  \/ th[k].at \in {"closePort", "rtcClose"} /\ ~th[k].ok
  \/ th[k].at = "close" /\ th[k].want = "NG"

\* The members of the board are as the test left them.
MembersOf(k) ==
  /\ th[k].at = "config" => serialFd = th[k].fd
  /\ th[k].at \in RtcRange => rtcFd = th[k].fd
  /\ th[k].at = "rtcGet" => clockBy = k
  /\ th[k].at \in {"config", "echo", "probe"} /\ th[k].line = 0 /\ th[k].fd \in OwnedBy(k) =>
       fds[th[k].fd].file = <<k, th[k].item>>
\* A pair is tested when a frame came, or did not come, or could not be sent.
Reaches(k, x, y) ==
  <<x, y>> \in th[k].tested =>
    th[k].at = "exchange" /\ (th[k].send[x] => y \in th[k].reached \cup th[k].lost)
Recalls(k) ==
  /\ th'[k].lost = th[k].lost /\ th'[k].reached = th[k].reached /\ th'[k].tested = th[k].tested
\* The ports of a line; two of them hear only each other.
PortsOf(k) ==
  /\ th[k].at \in {"scan", "name"} \/ (th[k].at = "again" /\ th[k].line # 0) => th[k].ports = <<>>
  /\ AtLine(k) =>
       /\ DOMAIN th[k].ports \subseteq OnLine(k) /\ th[k].lost \subseteq DOMAIN th[k].ports
       /\ DOMAIN th[k].send = DOMAIN th[k].ports /\ DOMAIN th[k].recv = DOMAIN th[k].ports
       /\ th[k].at \in {"open", "config"} => ~(OnLine(k) \subseteq DOMAIN th[k].ports)
       /\ th[k].at = "exchange" => OnLine(k) \subseteq DOMAIN th[k].ports
       /\ Cardinality(OnLine(k)) <= 2 =>
            /\ th[k].queue \in [OnLine(k) -> {0}]
            /\ \A x \in DOMAIN th[k].ports :
                 (x \in th[k].lost => ~th[k].recv[x]) /\ (Passed(k, x) \/ Caused(k))
       /\ \A x \in DOMAIN th[k].ports : th[k].ports[x] = -1 => ~th[k].send[x]
       /\ \A x, y \in OnLine(k) : Reaches(k, x, y)
VerdictsOf(k) ==
  /\ \A x \in DOMAIN th[k].items : th[k].items[x] = "OK" => Fair(k, x)
  /\ Promised(k) => Fair(k, th[k].item)
  /\ Denied(k) => Caused(k)
Honest(k) == ~Raced(k) => MembersOf(k) /\ PortsOf(k) /\ VerdictsOf(k)

RtcRaces ==
  \A j, k \in DOMAIN plan :
    j # k /\ th[j].at \in RtcRange /\ th[k].at \in RtcRange => {j, k} \subseteq clockRaced
Unmixed == \A j \in DOMAIN plan : ~Raced(j) /\ ~ClosesTwice(j)
Owned ==
  Unmixed =>
    \A k \in DOMAIN plan :
      /\ "stray" \notin th[k].met /\ Apart(k)
      /\ \A n : Holds(k, n) => Astray(k, n) = {}
Kept == \A n \in Opened : Leaky(fds[n].by) \/ Raced(fds[n].by) \/ Holds(fds[n].by, n)
Kindly == RtcRaces /\ Owned /\ Kept /\ \A k \in DOMAIN plan : Honest(k)

\* What a step of a test does to the descriptors it holds.
Moves(k, ns) ==
  \A n : n \notin ns =>
    /\ (Holds(k, n)' => Holds(k, n) \/ n = -1)
    /\ (Holds(k, n) /\ n # -1 => Leaky(k) \/ Holds(k, n)')
Handles(k) ==
  /\ \/ Keeps /\ Moves(k, {})
     \/ (\E file : Takes(k, file)) /\ Moves(k, {Lowest}) /\ \A n \in {Lowest} : Leaky(k) \/ Holds(k, n)'
     \/ \E ns : /\ Drops(ns) /\ Moves(k, ns)
                /\ \A n \in ns : Holds(k, n) /\ (Holds(k, n)' => n = -1 \/ ClosesTwice(k)' \/ ~Apart(k))
  /\ "stray" \in th'[k].met => "stray" \in th[k].met \/ \E n : Holds(k, n) /\ Astray(k, n) # {}
Parts(k) == Apart(k)' \/ ~Apart(k) \/ ((\E file : Takes(k, file)) /\ \E n \in {Lowest} : Holds(k, n))
Blamed(k) ==
  \A x \in DOMAIN th'[k].items :
    \/ x \in DOMAIN th[k].items /\ th'[k].items[x] = th[k].items[x]
    \/ th'[k].items[x] = "NG" => Caused(k)' \/ Crowded(k, x)

\* What a test is when it takes a step, and how it fares.
Ready(k) ==
  /\ Shape /\ k \in DOMAIN plan /\ Control(k) /\ plan' = plan
  /\ MembersOf(k) /\ PortsOf(k) /\ VerdictsOf(k)
Fares(k) == MembersOf(k)' /\ PortsOf(k)' /\ VerdictsOf(k)' /\ Handles(k) /\ Parts(k) /\ Blamed(k)
\* A test that holds nothing and has promised nothing.
Free(k) ==
  \/ th[k].at \in {"idle", "serial", "line", "openCan", "key", "device", "lamp", "access", "rtcOpen",
                   "wifi", "wifiResults", "bt", "btOpen"} \cup Ends
  \/ th[k].at \in {"open", "again"} /\ th[k].line = 0
  \/ th[k].at \in {"scan", "targets"} /\ th[k].ports = <<>>
  \/ th[k].at = "btResult" /\ ~(btCount > 0)
\* A step that forgets nothing but faults, and is led astray by what it holds.
Calm(k) ==
  /\ th[k].shown \subseteq th'[k].shown /\ th[k].met \ {"fault", "full"} \subseteq th'[k].met
  /\ "stray" \in th'[k].met => "stray" \in th[k].met \/ \E n : Holds(k, n) /\ Astray(k, n) # {}
\* A step after which a test holds nothing.
LetsGo(k) ==
  \/ Keeps /\ (Leaky(k) \/ \A n : ~Holds(k, n))
  \/ \E ns : Drops(ns) /\ \A n : (n \in ns => Holds(k, n)) /\ (Holds(k, n) => n \in ns \/ Leaky(k))
\* A step without a verdict, and with one.
Silent(k) == th'[k].items = th[k].items
Speaks(k) ==
  \E v \in Verdicts :
    /\ th'[k].items = Append(th[k].items, v)
    /\ v = "OK" => \/ Promised(k) \/ th[k].item \in th'[k].shown
                   \/ {"stray", "lookalike"} \cap th'[k].met # {}
    /\ v = "NG" => Caused(k)'

\* Where a test goes on with its device.
HeldAt == {"request", "close", "rtcSet", "rtcGet", "rtcClose", "btInquiry", "btFill", "btClose",
           "btResult", "btRead"}
=============================================================================
