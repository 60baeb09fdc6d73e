-------------------------- MODULE BoardTestsProofs --------------------------
(***************************************************************************)
(* Proofs about the tests on one board, for any plan, table of             *)
(* descriptors, input devices and numbers of attempts.                     *)
(***************************************************************************)
EXTENDS BoardSteps, FiniteSetTheorems, SequenceTheorems, WellFoundedInduction, TLAPS

\* The fields of what the vocabulary of threads makes.
LEMMA ToF ==
  ASSUME NEW t, DOMAIN t = Fields, NEW a
  PROVE  /\ DOMAIN To(t, a) = Fields /\ To(t, a).at = a
         /\ \A f \in Fields \ {"at"} : To(t, a)[f] = t[f]
  BY DEF To, Fields

\* A test notes what it met, and nothing else.
LEMMA MeetsF ==
  ASSUME NEW t, DOMAIN t = Fields, NEW what
  PROVE  /\ DOMAIN Meets(t, what) = Fields /\ Meets(t, what).met = t.met \cup what
         /\ \A f \in Fields \ {"met"} : Meets(t, what)[f] = t[f]
  BY DEF Meets, Fields

\* A new item forgets the faults of the one before.
LEMMA ForgetsF ==
  ASSUME NEW t, DOMAIN t = Fields
  PROVE  /\ DOMAIN Forgets(t) = Fields /\ Forgets(t).met = t.met \ {"fault", "full"}
         /\ \A f \in Fields \ {"met"} : Forgets(t)[f] = t[f]
  BY DEF Forgets, Fields

\* An item that was shown to work is noted, and nothing else.
LEMMA ShowsF ==
  ASSUME NEW t, DOMAIN t = Fields, NEW i
  PROVE  /\ DOMAIN Shows(t, i) = Fields /\ Shows(t, i).shown = t.shown \cup {i}
         /\ \A f \in Fields \ {"shown"} : Shows(t, i)[f] = t[f]
  BY DEF Shows, Fields

\* A verdict is appended, and one that is not good makes the result false.
LEMMA JudgedF ==
  ASSUME NEW t, DOMAIN t = Fields, NEW v
  PROVE  /\ DOMAIN Judged(t, v) = Fields
         /\ Judged(t, v).items = Append(t.items, v) /\ Judged(t, v).item = t.item + 1
         /\ Judged(t, v).result = IF v = "NG" THEN "false" ELSE t.result
         /\ \A f \in Fields \ {"items", "item", "result"} : Judged(t, v)[f] = t[f]
  BY DEF Judged, Fields

\* The thread after a step.
LEMMA SetF ==
  ASSUME NEW k \in DOMAIN th, NEW t, DOMAIN t = Fields, Set(k, t)
  PROVE  Becomes(k, t)
  BY DEF Set, Becomes

\* A step on locals leaves the table of descriptors alone.
LEMMA LocalF ==
  ASSUME NEW k \in DOMAIN th, NEW t, DOMAIN t = Fields, Local(k, t)
  PROVE  Becomes(k, t) /\ Keeps
  BY SetF DEF Local, Keeps

\* A call on a descriptor that works notes whether the number led astray.
LEMMA WorksF ==
  ASSUME NEW k \in DOMAIN th, NEW n, NEW t, DOMAIN t = Fields, Works(k, n, t)
  PROVE  /\ n \in Opened /\ Keeps
         /\ BecomesBut(k, t, {"met"}) /\ th'[k].met = t.met \cup Astray(k, n)
<1>1. Becomes(k, Meets(t, Astray(k, n))) /\ n \in Opened /\ Keeps
  BY MeetsF, SetF DEF Works, Keeps
<1>2. QED
  BY <1>1, MeetsF DEF Becomes, BecomesBut, Fields

\* A call on a descriptor that fails notes why.
LEMMA FailsF ==
  ASSUME NEW k \in DOMAIN th, NEW n, NEW t, DOMAIN t = Fields, Fails(k, n, t)
  PROVE  Keeps /\ BecomesBut(k, t, {"met"}) /\ th'[k].met = t.met \cup Blames(k, n)
<1>1. Becomes(k, Meets(t, Blames(k, n))) /\ Keeps
  BY MeetsF, SetF DEF Fails, Keeps
<1>2. QED
  BY <1>1, MeetsF DEF Becomes, BecomesBut, Fields

\* Closing some descriptors drops them from the table.
LEMMA CloseAllF ==
  ASSUME NEW k \in DOMAIN th, NEW ns, NEW t, DOMAIN t = Fields, CloseAll(k, ns, t)
  PROVE  /\ Drops(ns) /\ BecomesBut(k, t, {"met"})
         /\ th'[k].met = t.met \cup UNION {Astray(k, n) : n \in ns}
<1>1. Becomes(k, Meets(t, UNION {Astray(k, n) : n \in ns})) /\ Drops(ns)
  BY MeetsF, SetF DEF CloseAll, Drops
<1>2. QED
  BY <1>1, MeetsF DEF Becomes, BecomesBut, Fields

\* Closing one descriptor drops it from the table.
LEMMA CloseF ==
  ASSUME NEW k \in DOMAIN th, NEW n, NEW t, DOMAIN t = Fields, Close(k, n, t)
  PROVE  /\ Drop(n) /\ BecomesBut(k, t, {"met"}) /\ th'[k].met = t.met \cup Astray(k, n)
<1>1. UNION {Astray(k, m) : m \in {n}} = Astray(k, n)
  OBVIOUS
<1>2. QED
  BY <1>1, CloseAllF DEF Close, Drop

\* A call that fails, and the close after it.
LEMMA FailsAndClosesF ==
  ASSUME NEW k \in DOMAIN th, NEW n, NEW t, DOMAIN t = Fields, FailsAndCloses(k, n, t)
  PROVE  /\ Drop(n) /\ BecomesBut(k, t, {"met"})
         /\ th'[k].met = t.met \cup Blames(k, n) \cup Astray(k, n)
<1>1. Close(k, n, Meets(t, Blames(k, n)))
  BY DEF FailsAndCloses
<1>2. DOMAIN Meets(t, Blames(k, n)) = Fields
  BY MeetsF
<1>3. /\ Drop(n) /\ BecomesBut(k, Meets(t, Blames(k, n)), {"met"})
      /\ th'[k].met = Meets(t, Blames(k, n)).met \cup Astray(k, n)
  BY <1>1, <1>2, CloseF
<1>4. QED
  BY <1>3, MeetsF DEF BecomesBut, Fields

\* open gives the lowest free descriptor.
LEMMA OpensF ==
  ASSUME NEW k \in DOMAIN th, NEW file, NEW t, DOMAIN t = Fields, Opens(k, file, t)
  PROVE  Takes(k, file) /\ BecomesBut(k, t, {"fd"}) /\ th'[k].fd = Lowest
<1>1. DOMAIN [t EXCEPT !.fd = Lowest] = Fields
  BY DEF Fields
<1>2. Becomes(k, [t EXCEPT !.fd = Lowest]) /\ Takes(k, file)
  BY <1>1, SetF DEF Opens
<1>3. QED
  BY <1>2 DEF Becomes, BecomesBut, Fields

\* open fails and gives -1.
LEMMA MissesF ==
  ASSUME NEW k \in DOMAIN th, NEW t, DOMAIN t = Fields, Misses(k, t)
  PROVE  /\ Keeps /\ BecomesBut(k, t, {"fd", "met"})
         /\ th'[k].fd = -1 /\ th'[k].met = t.met \cup Lack
<1>1. DOMAIN [t EXCEPT !.fd = -1] = Fields /\ [t EXCEPT !.fd = -1].met = t.met
      /\ [t EXCEPT !.fd = -1].fd = -1
  BY DEF Fields
<1>2. Becomes(k, Meets([t EXCEPT !.fd = -1], Lack)) /\ Keeps
  BY <1>1, MeetsF, SetF DEF Misses
<1>3. QED
  BY <1>1, <1>2, MeetsF DEF Becomes, BecomesBut, Fields

\* open does one or the other.
LEMMA OpenF ==
  ASSUME NEW k, NEW file, NEW t, NEW u, Open(k, file, t, u)
  PROVE  Opens(k, file, t) \/ Misses(k, u)
  BY DEF Open, Opens, Misses, Takes, Keeps, Lack

\* The fields of what the tests make of a thread.
LEMMA VerdictF ==
  ASSUME NEW k, DOMAIN th[k] = Fields, NEW v
  PROVE  /\ DOMAIN Verdict(k, v) = Fields
         /\ Verdict(k, v).items = Append(th[k].items, v) /\ Verdict(k, v).item = th[k].item + 1
         /\ Verdict(k, v).result = CASE plan[k].test = "ln" -> IF v = "NG" THEN "false" ELSE "true"
                                     [] plan[k].test = "baseinfo" -> "none"
                                     [] OTHER -> IF v = "NG" THEN "false" ELSE th[k].result
         /\ Verdict(k, v).at = "device" /\ Verdict(k, v).n = 0 /\ Verdict(k, v).try = 0
         /\ \A f \in Fields \ {"items", "item", "result", "at", "n", "try"} : Verdict(k, v)[f] = th[k][f]
<1> DEFINE t == [th[k] EXCEPT !.at = "device", !.n = 0, !.try = 0]
<1>1. /\ DOMAIN t = Fields /\ t.at = "device" /\ t.n = 0 /\ t.try = 0
      /\ \A f \in Fields \ {"at", "n", "try"} : t[f] = th[k][f]
  BY DEF Fields
<1>2. Verdict(k, v) = CASE plan[k].test = "ln" -> LnVerdict(t, v)
                        [] plan[k].test = "baseinfo" -> InfoVerdict(t, v)
                        [] OTHER -> Judged(t, v)
  BY DEF Verdict
<1> HIDE DEF t
<1>3. CASE plan[k].test = "ln"
  BY <1>1, <1>2, <1>3, JudgedF DEF LnVerdict, Fields
<1>4. CASE plan[k].test = "baseinfo"
  BY <1>1, <1>2, <1>4, JudgedF DEF InfoVerdict, Fields
<1>5. CASE plan[k].test \notin {"ln", "baseinfo"}
  BY <1>1, <1>2, <1>5, JudgedF DEF Fields
<1>6. QED
  BY <1>3, <1>4, <1>5

\* An item that cannot be tested at all is NG.
LEMMA NotGoodF ==
  ASSUME NEW k, DOMAIN th[k] = Fields
  PROVE  /\ DOMAIN NotGood(k) = Fields
         /\ NotGood(k).items = Append(th[k].items, "NG") /\ NotGood(k).item = th[k].item + 1
         /\ NotGood(k).result = "false" /\ NotGood(k).at = "serial" /\ NotGood(k).fd = -1
         /\ \A f \in Fields \ {"items", "item", "result", "at", "fd"} : NotGood(k)[f] = th[k][f]
<1> DEFINE t == [th[k] EXCEPT !.fd = -1]
<1>1. /\ DOMAIN t = Fields /\ t.fd = -1
      /\ \A f \in Fields \ {"fd"} : t[f] = th[k][f]
  BY DEF Fields
<1>2. NotGood(k) = To(Judged(t, "NG"), "serial")
  BY DEF NotGood
<1> HIDE DEF t
<1>3. QED
  BY <1>1, <1>2, JudgedF, ToF DEF Fields

\* A port of a line, opened or not.
LEMMA AddPortF ==
  ASSUME NEW k, DOMAIN th[k] = Fields, NEW n, NEW up
  PROVE  /\ DOMAIN AddPort(k, n, up) = Fields
         /\ AddPort(k, n, up).at = "lineOpen" /\ AddPort(k, n, up).fd = n
         /\ AddPort(k, n, up).ports = Extended(k, th[k].ports, n)
         /\ AddPort(k, n, up).send = Extended(k, th[k].send, up)
         /\ AddPort(k, n, up).recv = Extended(k, th[k].recv, up)
         /\ \A f \in Fields \ {"at", "fd", "ports", "send", "recv"} : AddPort(k, n, up)[f] = th[k][f]
  BY DEF AddPort, Extended, Fields

\* The item has answered.
LEMMA AnsweredF ==
  ASSUME NEW k, DOMAIN th[k] = Fields
  PROVE  /\ DOMAIN Answered(k) = Fields
         /\ Answered(k).at = "closePort" /\ Answered(k).ok = TRUE
         /\ Answered(k).shown = NowShown(k)
         /\ \A f \in Fields \ {"at", "ok", "shown"} : Answered(k)[f] = th[k][f]
<1> DEFINE t == [th[k] EXCEPT !.at = "closePort", !.ok = TRUE]
<1>1. /\ DOMAIN t = Fields /\ t.at = "closePort" /\ t.ok = TRUE
      /\ \A f \in Fields \ {"at", "ok"} : t[f] = th[k][f]
  BY DEF Fields
<1>2. Answered(k) = IF fds[th[k].fd].file = Port(k) THEN Shows(t, th[k].item) ELSE t
  BY DEF Answered
<1> HIDE DEF t
<1>3. CASE fds[th[k].fd].file = Port(k)
  <2>1. Answered(k) = Shows(t, th[k].item)
    BY <1>2, <1>3
  <2>2. QED
    BY <1>1, <1>3, <2>1, ShowsF DEF NowShown, Fields
<1>4. CASE fds[th[k].fd].file # Port(k)
  BY <1>1, <1>2, <1>4 DEF NowShown, Fields
<1>5. QED
  BY <1>3, <1>4

\* An attempt at a line starts with no port.
LEMMA NewAttemptF ==
  ASSUME NEW t, DOMAIN t = Fields, NEW line
  PROVE  /\ DOMAIN NewAttempt(t, line) = Fields
         /\ NewAttempt(t, line).ports = <<>> /\ NewAttempt(t, line).send = <<>>
         /\ NewAttempt(t, line).recv = <<>> /\ NewAttempt(t, line).n = 0
         /\ NewAttempt(t, line).queue = [x \in line |-> 0]
         /\ NewAttempt(t, line).reached = {} /\ NewAttempt(t, line).lost = {} /\ NewAttempt(t, line).tested = {}
         /\ \A f \in Fields \ {"ports", "send", "recv", "n", "queue", "reached", "lost", "tested"} :
              NewAttempt(t, line)[f] = t[f]
  BY DEF NewAttempt, Fields

\* The next pair of ports.
LEMMA NextPairF ==
  ASSUME NEW k, NEW t, DOMAIN t = Fields
  PROVE  /\ DOMAIN NextPair(k, t) = Fields /\ NextPair(k, t).n = 0
         /\ NextPair(k, t).tested = t.tested \cup {Pair(k)}
         /\ \A f \in Fields \ {"n", "tested"} : NextPair(k, t)[f] = t[f]
  BY DEF NextPair, Fields

\* The next round of a pair, or the next pair.
LEMMA NextRoundF ==
  ASSUME NEW k, NEW t, DOMAIN t = Fields
  PROVE  /\ DOMAIN NextRound(k, t) = Fields /\ NextRound(k, t).n \in {0, t.n + 1}
         /\ NextRound(k, t).tested \subseteq t.tested \cup {Pair(k)}
         /\ \A f \in Fields \ {"n", "tested"} : NextRound(k, t)[f] = t[f]
<1>1. CASE t.n + 1 < Rounds
  BY <1>1 DEF NextRound, Fields
<1>2. CASE ~(t.n + 1 < Rounds)
  BY <1>2, NextPairF DEF NextRound
<1>3. QED
  BY <1>1, <1>2

\* What the clock gave.
LEMMA RtcReadF ==
  ASSUME NEW k, DOMAIN th[k] = Fields, NEW ok
  PROVE  /\ DOMAIN RtcRead(k, ok) = Fields /\ RtcRead(k, ok).at = "rtcClose" /\ RtcRead(k, ok).ok = ok
         /\ \A f \in Fields \ {"at", "ok"} : RtcRead(k, ok)[f] = th[k][f]
  BY DEF RtcRead, Fields

LEMMA SerialItemView ==
  ASSUME NEW k \in DOMAIN th, DOMAIN th[k] = Fields, SerialItem(k)
  PROVE  /\ At(k, "serial")
         /\ UNCHANGED serialVars
         /\ SerialItemWay1(k) \/ SerialItemWay2(k) \/ SerialItemWay3(k)
<1>0. At(k, "serial") /\ UNCHANGED serialVars
  BY DEF At, SerialItem
<1>1. ASSUME MoreItems(k) /\ Item(k) \in {"232", "485", "can"}
             /\ Local(k, Forgets([th[k] EXCEPT !.at = IF Item(k) = "can" THEN "openCan" ELSE "open", !.try = 0]))
     PROVE  SerialItemWay1(k)
  <2> DEFINE u == [th[k] EXCEPT !.at = IF Item(k) = "can" THEN "openCan" ELSE "open", !.try = 0]
  <2>0. /\ DOMAIN u = Fields
        /\ (u.at = IF Item(k) = "can" THEN "openCan" ELSE "open")
        /\ u.try = 0
        /\ \A f \in Fields \ {"at", "try"} : u[f] = th[k][f]
    BY DEF Fields
  <2> DEFINE t == Forgets(u)
  <2> HIDE DEF u
  <2>1. /\ DOMAIN t = Fields
        /\ (t.at = IF Item(k) = "can" THEN "openCan" ELSE "open")
        /\ t.try = 0
        /\ t.met = th[k].met \ {"fault", "full"}
        /\ \A f \in Fields \ {"at", "met", "try"} : t[f] = th[k][f]
    BY <2>0, ForgetsF DEF Fields
  <2>2. Local(k, t)
    BY <1>1 DEF u
  <2> HIDE DEF t
  <2>3. QED
    BY <1>1, <2>1, <2>2, LocalF DEF SerialItemWay1, Becomes, BecomesBut, Changes, Fields
<1>2. ASSUME MoreItems(k) /\ Item(k) \notin {"232", "485", "can"}
             /\ Local(k, Judged(th[k], IF Item(k) = "off" THEN "SKIP" ELSE "none"))
     PROVE  SerialItemWay2(k)
  BY <1>2, LocalF, JudgedF DEF SerialItemWay2, Becomes, BecomesBut, Changes, Judges, Fields
<1>3. ASSUME ~MoreItems(k) /\ Local(k, [th[k] EXCEPT !.at = "line", !.line = 1])
     PROVE  SerialItemWay3(k)
  <2> DEFINE t == [th[k] EXCEPT !.at = "line", !.line = 1]
  <2>1. /\ DOMAIN t = Fields
        /\ t.at = "line"
        /\ t.line = 1
        /\ \A f \in Fields \ {"at", "line"} : t[f] = th[k][f]
    BY DEF Fields
  <2>2. Local(k, t)
    BY <1>3
  <2> HIDE DEF t
  <2>3. QED
    BY <1>3, <2>1, <2>2, LocalF DEF SerialItemWay3, Becomes, BecomesBut, Changes, Fields
<1>4. QED
  BY <1>0, <1>1, <1>2, <1>3 DEF SerialItem

LEMMA SerialOpenView ==
  ASSUME NEW k \in DOMAIN th, DOMAIN th[k] = Fields, th[k].line \in {0, 1}, SerialOpen(k)
  PROVE  /\ At(k, "open")
         /\ serialFd' = th'[k].fd
         /\ raced' = IF Opening = {} THEN raced ELSE raced \cup Opening \cup {k}
         /\ \/ SerialOpenWay1(k) \/ SerialOpenWay2(k) \/ SerialOpenWay3(k) \/ SerialOpenWay4(k)
            \/ SerialOpenWay5(k)
<1>0. At(k, "open") /\ serialFd' = th'[k].fd /\ (raced' = IF Opening = {} THEN raced ELSE raced \cup Opening \cup {k})
  BY DEF At, SerialOpen
<1>1. ASSUME Opens(k, Port(k), To(th[k], "config"))
     PROVE  SerialOpenWay1(k)
  BY <1>1, OpensF, ToF DEF SerialOpenWay1, Becomes, BecomesBut, Changes, Fields
<1>2. ASSUME th[k].line = 1 /\ Misses(k, AddPort(k, -1, FALSE))
     PROVE  SerialOpenWay2(k)
  <2> DEFINE u == AddPort(k, -1, FALSE)
  <2>1. /\ DOMAIN u = Fields /\ u.at = "lineOpen" /\ u.fd = -1
        /\ \A f \in Fields \ {"at", "fd", "ports", "recv", "send"} : u[f] = th[k][f]
    BY DEF AddPort, Fields
  <2>2. /\ u.ports = Extended(k, th[k].ports, -1)
        /\ u.send = Extended(k, th[k].send, FALSE)
        /\ u.recv = Extended(k, th[k].recv, FALSE)
    BY DEF AddPort, Extended, Fields
  <2> HIDE DEF u
  <2>3. Misses(k, u)
    BY <1>2 DEF u
  <2>6. Changes(k, {"at", "fd", "met", "ports", "recv", "send"}) /\
        th'[k].at = "lineOpen" /\ th'[k].fd = -1 /\ th'[k].met = th[k].met \cup Lack /\
        Keeps /\ th'[k].ports = u.ports /\ th'[k].send = u.send /\ th'[k].recv = u.recv
    BY <2>1, <2>3, MissesF DEF BecomesBut, Changes, Fields
  <2>7. QED
    BY <1>2, <2>2, <2>6, Zenon DEF SerialOpenWay2, Adds
<1>3. ASSUME th[k].line = 0 /\ Item(k) # "232" /\ Misses(k, NotGood(k))
     PROVE  SerialOpenWay3(k)
  BY <1>3, MissesF, NotGoodF DEF SerialOpenWay3, Becomes, BecomesBut, Changes, Judges, Fields
<1>4. ASSUME th[k].line = 0 /\ Item(k) = "232" /\ th[k].try < Retries
             /\ Misses(k, [th[k] EXCEPT !.at = "again", !.fd = -1])
     PROVE  SerialOpenWay4(k)
  <2> DEFINE t == [th[k] EXCEPT !.at = "again", !.fd = -1]
  <2>1. /\ DOMAIN t = Fields
        /\ t.at = "again"
        /\ \A f \in Fields \ {"at", "fd"} : t[f] = th[k][f]
    BY DEF Fields
  <2>2. Misses(k, t)
    BY <1>4
  <2> HIDE DEF t
  <2>3. QED
    BY <1>4, <2>1, <2>2, MissesF DEF SerialOpenWay4, Becomes, BecomesBut, Changes, Fields
<1>5. ASSUME th[k].line = 0 /\ Item(k) = "232" /\ ~(th[k].try < Retries) /\ Misses(k, NotGood(k))
     PROVE  SerialOpenWay5(k)
  BY <1>5, MissesF, NotGoodF DEF SerialOpenWay5, Becomes, BecomesBut, Changes, Judges, Fields
<1>6. QED
  BY <1>0, <1>1, <1>2, <1>3, <1>4, <1>5, OpenF DEF SerialOpen, Returned, TryAgain

LEMMA SerialConfigView ==
  ASSUME NEW k \in DOMAIN th, DOMAIN th[k] = Fields, th[k].line \in {0, 1}, DOMAIN fds = 0 .. MaxFd - 1, SerialConfig(k)
  PROVE  /\ At(k, "config")
         /\ UNCHANGED serialVars
         /\ \/ SerialConfigWay1(k) \/ SerialConfigWay2(k) \/ SerialConfigWay3(k) \/ SerialConfigWay4(k)
            \/ SerialConfigWay5(k) \/ SerialConfigWay6(k)
<1>0. At(k, "config") /\ UNCHANGED serialVars
  BY DEF At, SerialConfig
<1>1. ASSUME th[k].line = 1 /\ Works(k, serialFd, AddPort(k, serialFd, TRUE))
     PROVE  SerialConfigWay1(k)
  <2> DEFINE u == AddPort(k, serialFd, TRUE)
  <2>1. /\ DOMAIN u = Fields /\ u.at = "lineOpen" /\ u.fd = serialFd
        /\ \A f \in Fields \ {"at", "fd", "ports", "recv", "send"} : u[f] = th[k][f]
    BY DEF AddPort, Fields
  <2>2. /\ u.ports = Extended(k, th[k].ports, serialFd)
        /\ u.send = Extended(k, th[k].send, TRUE)
        /\ u.recv = Extended(k, th[k].recv, TRUE)
    BY DEF AddPort, Extended, Fields
  <2> HIDE DEF u
  <2>3. Works(k, serialFd, u)
    BY <1>1 DEF u
  <2>6. Changes(k, {"at", "fd", "met", "ports", "recv", "send"}) /\
        th'[k].at = "lineOpen" /\ th'[k].fd = serialFd /\
        th'[k].met = th[k].met \cup Astray(k, serialFd) /\ Keeps /\
        serialFd \in Opened /\ th'[k].ports = u.ports /\ th'[k].send = u.send /\
        th'[k].recv = u.recv
    BY <2>1, <2>3, WorksF DEF BecomesBut, Changes, Fields
  <2>7. QED
    BY <1>1, <2>2, <2>6, Zenon DEF SerialConfigWay1, Adds
<1>2. ASSUME th[k].line = 0
             /\ Works(k, serialFd, [th[k] EXCEPT !.at = IF Item(k) = "232" THEN "echo" ELSE "probe", !.n = 0, !.fd = serialFd])
     PROVE  SerialConfigWay2(k)
  <2> DEFINE t == [th[k] EXCEPT !.at = IF Item(k) = "232" THEN "echo" ELSE "probe", !.n = 0, !.fd = serialFd]
  <2>1. /\ DOMAIN t = Fields
        /\ (t.at = IF Item(k) = "232" THEN "echo" ELSE "probe")
        /\ t.n = 0
        /\ t.fd = serialFd
        /\ \A f \in Fields \ {"at", "fd", "n"} : t[f] = th[k][f]
    BY DEF Fields
  <2>2. Works(k, serialFd, t)
    BY <1>2
  <2> HIDE DEF t
  <2>3. QED
    BY <1>2, <2>1, <2>2, WorksF DEF SerialConfigWay2, Becomes, BecomesBut, Changes, Fields
<1>3. ASSUME th[k].line = 1 /\ FailsAndCloses(k, serialFd, AddPort(k, -1, FALSE))
     PROVE  SerialConfigWay3(k)
  <2> DEFINE u == AddPort(k, -1, FALSE)
  <2>1. /\ DOMAIN u = Fields /\ u.at = "lineOpen" /\ u.fd = -1
        /\ \A f \in Fields \ {"at", "fd", "ports", "recv", "send"} : u[f] = th[k][f]
    BY DEF AddPort, Fields
  <2>2. /\ u.ports = Extended(k, th[k].ports, -1)
        /\ u.send = Extended(k, th[k].send, FALSE)
        /\ u.recv = Extended(k, th[k].recv, FALSE)
    BY DEF AddPort, Extended, Fields
  <2> HIDE DEF u
  <2>3. FailsAndCloses(k, serialFd, u)
    BY <1>3 DEF u
  <2>6. Changes(k, {"at", "fd", "met", "ports", "recv", "send"}) /\
        th'[k].at = "lineOpen" /\ th'[k].fd = -1 /\
        th'[k].met = th[k].met \cup Blames(k, serialFd) \cup Astray(k, serialFd) /\
        Drop(serialFd) /\ th'[k].ports = u.ports /\ th'[k].send = u.send /\
        th'[k].recv = u.recv
    BY <2>1, <2>3, FailsAndClosesF DEF BecomesBut, Changes, Fields
  <2>7. QED
    BY <1>3, <2>2, <2>6, Zenon DEF SerialConfigWay3, Adds
<1>4. ASSUME th[k].line = 0 /\ Item(k) # "232" /\ FailsAndCloses(k, serialFd, NotGood(k))
     PROVE  SerialConfigWay4(k)
  BY <1>4, NotGoodF, FailsAndClosesF DEF SerialConfigWay4, Becomes, BecomesBut, Changes, Judges, Fields
<1>5. ASSUME th[k].line = 0 /\ Item(k) = "232" /\ th[k].try < Retries
             /\ FailsAndCloses(k, serialFd, [th[k] EXCEPT !.at = "again", !.fd = -1])
     PROVE  SerialConfigWay5(k)
  <2> DEFINE t == [th[k] EXCEPT !.at = "again", !.fd = -1]
  <2>1. /\ DOMAIN t = Fields
        /\ t.at = "again"
        /\ t.fd = -1
        /\ \A f \in Fields \ {"at", "fd"} : t[f] = th[k][f]
    BY DEF Fields
  <2>2. FailsAndCloses(k, serialFd, t)
    BY <1>5
  <2> HIDE DEF t
  <2>3. QED
    BY <1>5, <2>1, <2>2, FailsAndClosesF DEF SerialConfigWay5, Becomes, BecomesBut, Changes, Fields
<1>6. ASSUME th[k].line = 0 /\ Item(k) = "232" /\ ~(th[k].try < Retries)
             /\ FailsAndCloses(k, serialFd, NotGood(k))
     PROVE  SerialConfigWay6(k)
  BY <1>6, NotGoodF, FailsAndClosesF DEF SerialConfigWay6, Becomes, BecomesBut, Changes, Judges, Fields
<1>7. CASE Works(k, serialFd, Returned(k, serialFd))
  <2>1. serialFd # -1
    BY <1>7 DEF Works, Opened
  <2>2. QED
    BY <1>0, <1>1, <1>2, <1>7, <2>1 DEF Returned
<1>8. CASE FailsAndCloses(k, serialFd, Returned(k, -1))
  BY <1>0, <1>3, <1>4, <1>5, <1>6, <1>8 DEF Returned, TryAgain
<1>9. QED
  BY <1>7, <1>8 DEF SerialConfig

\* An answer came through the port of an item.
LEMMA AnsweredWorks ==
  ASSUME NEW k \in DOMAIN th, DOMAIN th[k] = Fields, Works(k, th[k].fd, Answered(k))
  PROVE  /\ Changes(k, {"at", "met", "ok", "shown"}) /\ th'[k].at = "closePort" /\ th'[k].ok = TRUE
         /\ th'[k].shown = NowShown(k) /\ th'[k].met = th[k].met \cup Astray(k, th[k].fd)
         /\ Keeps /\ th[k].fd \in Opened
<1> DEFINE t == Answered(k)
<1>1. /\ DOMAIN t = Fields /\ t.at = "closePort" /\ t.ok = TRUE /\ t.shown = NowShown(k)
      /\ \A f \in Fields \ {"at", "ok", "shown"} : t[f] = th[k][f]
  BY AnsweredF DEF Fields
<1>2. Works(k, th[k].fd, t)
  OBVIOUS
<1> HIDE DEF t
<1>3. QED
  BY <1>1, <1>2, WorksF DEF Becomes, BecomesBut, Changes, Fields

LEMMA EchoView ==
  ASSUME NEW k \in DOMAIN th, DOMAIN th[k] = Fields, Echo(k)
  PROVE  /\ At(k, "echo")
         /\ UNCHANGED serialVars
         /\ EchoWay1(k) \/ EchoWay2(k) \/ EchoWay3(k)
<1>0. At(k, "echo") /\ UNCHANGED serialVars
  BY DEF At, Echo
<1>1. ASSUME th[k].n + 1 # Rounds /\ Works(k, th[k].fd, [th[k] EXCEPT !.n = @ + 1])
     PROVE  EchoWay1(k)
  BY <1>1, WorksF DEF EchoWay1, Becomes, BecomesBut, Changes, Fields
<1>2. ASSUME th[k].n + 1 = Rounds /\ Works(k, th[k].fd, Answered(k))
     PROVE  EchoWay2(k)
  BY <1>2, AnsweredWorks DEF EchoWay2
<1>3. ASSUME Fails(k, th[k].fd, Unanswered(k, FALSE))
     PROVE  EchoWay3(k)
  <2> DEFINE t == Unanswered(k, FALSE)
  <2>1. /\ DOMAIN t = Fields
        /\ t.at = "closePort"
        /\ t.ok = FALSE
        /\ \A f \in Fields \ {"at", "ok"} : t[f] = th[k][f]
    BY DEF Fields, Unanswered
  <2>2. Fails(k, th[k].fd, t)
    BY <1>3
  <2> HIDE DEF t
  <2>3. QED
    BY <1>3, <2>1, <2>2, FailsF DEF EchoWay3, Becomes, BecomesBut, Changes, Fields
<1>4. QED
  BY <1>0, <1>1, <1>2, <1>3 DEF Echo

LEMMA ClosePortView ==
  ASSUME NEW k \in DOMAIN th, DOMAIN th[k] = Fields, ClosePort(k)
  PROVE  /\ At(k, "closePort")
         /\ UNCHANGED serialVars
         /\ ClosePortWay1(k) \/ ClosePortWay2(k) \/ ClosePortWay3(k)
<1>0. At(k, "closePort") /\ UNCHANGED serialVars
  BY DEF At, ClosePort
<1>1. ASSUME th[k].ok /\ Close(k, th[k].fd, To(Judged([th[k] EXCEPT !.fd = -1], "OK"), "serial"))
     PROVE  ClosePortWay1(k)
  <2> DEFINE u == [th[k] EXCEPT !.fd = -1]
  <2>0. /\ DOMAIN u = Fields
        /\ u.fd = -1
        /\ \A f \in Fields \ {"fd"} : u[f] = th[k][f]
    BY DEF Fields
  <2> DEFINE t == To(Judged(u, "OK"), "serial")
  <2> HIDE DEF u
  <2>1. /\ DOMAIN t = Fields
        /\ t.at = "serial"
        /\ t.fd = -1
        /\ t.items = Append(th[k].items, "OK")
        /\ t.item = th[k].item + 1
        /\ (t.result = IF "OK" = "NG" THEN "false" ELSE th[k].result)
        /\ \A f \in Fields \ {"at", "fd", "item", "items", "result"} : t[f] = th[k][f]
    BY <2>0, ToF, JudgedF DEF Fields
  <2>2. Close(k, th[k].fd, t)
    BY <1>1 DEF u
  <2> HIDE DEF t
  <2>3. QED
    BY <1>1, <2>1, <2>2, CloseF DEF ClosePortWay1, Becomes, BecomesBut, Changes, Judges, Fields
<1>2. ASSUME ~th[k].ok /\ Item(k) = "232" /\ th[k].try < Retries
             /\ Close(k, th[k].fd, [th[k] EXCEPT !.at = "again", !.fd = -1])
     PROVE  ClosePortWay2(k)
  <2> DEFINE t == [th[k] EXCEPT !.at = "again", !.fd = -1]
  <2>1. /\ DOMAIN t = Fields
        /\ t.at = "again"
        /\ t.fd = -1
        /\ \A f \in Fields \ {"at", "fd"} : t[f] = th[k][f]
    BY DEF Fields
  <2>2. Close(k, th[k].fd, t)
    BY <1>2
  <2> HIDE DEF t
  <2>3. QED
    BY <1>2, <2>1, <2>2, CloseF DEF ClosePortWay2, Becomes, BecomesBut, Changes, Fields
<1>3. ASSUME ~th[k].ok /\ Close(k, th[k].fd, NotGood(k))
     PROVE  ClosePortWay3(k)
  BY <1>3, NotGoodF, CloseF DEF ClosePortWay3, Becomes, BecomesBut, Changes, Judges, Fields
<1>4. QED
  BY <1>0, <1>1, <1>2, <1>3 DEF ClosePort, TryAgain

LEMMA OpenCanView ==
  ASSUME NEW k \in DOMAIN th, DOMAIN th[k] = Fields, OpenCan(k)
  PROVE  /\ At(k, "openCan")
         /\ UNCHANGED serialVars
         /\ OpenCanWay1(k) \/ OpenCanWay2(k)
<1>0. At(k, "openCan") /\ UNCHANGED serialVars
  BY DEF At, OpenCan
<1>1. ASSUME Opens(k, Port(k), [th[k] EXCEPT !.at = "probe", !.n = 0])
     PROVE  OpenCanWay1(k)
  <2> DEFINE t == [th[k] EXCEPT !.at = "probe", !.n = 0]
  <2>1. /\ DOMAIN t = Fields
        /\ t.at = "probe"
        /\ t.n = 0
        /\ \A f \in Fields \ {"at", "n"} : t[f] = th[k][f]
    BY DEF Fields
  <2>2. Opens(k, Port(k), t)
    BY <1>1
  <2> HIDE DEF t
  <2>3. QED
    BY <1>1, <2>1, <2>2, OpensF DEF OpenCanWay1, Becomes, BecomesBut, Changes, Fields
<1>2. ASSUME Misses(k, NotGood(k))
     PROVE  OpenCanWay2(k)
  BY <1>2, MissesF, NotGoodF DEF OpenCanWay2, Becomes, BecomesBut, Changes, Judges, Fields
<1>3. QED
  BY <1>0, <1>1, <1>2, OpenF DEF OpenCan

LEMMA CanTestView ==
  ASSUME NEW k \in DOMAIN th, DOMAIN th[k] = Fields, CanTest(k)
  PROVE  /\ At(k, "probe")
         /\ UNCHANGED serialVars
         /\ CanTestWay1(k) \/ CanTestWay2(k) \/ CanTestWay3(k)
<1>0. At(k, "probe") /\ UNCHANGED serialVars
  BY DEF At, CanTest, Exchanges
<1>1. ASSUME Works(k, th[k].fd, Answered(k))
     PROVE  CanTestWay1(k)
  BY <1>1, AnsweredWorks DEF CanTestWay1
<1>2. ASSUME th[k].n + 1 < Probes /\ Fails(k, th[k].fd, [th[k] EXCEPT !.n = @ + 1])
     PROVE  CanTestWay2(k)
  BY <1>2, FailsF DEF CanTestWay2, Becomes, BecomesBut, Changes, Fields
<1>3. ASSUME Item(k) = "can" /\ Fails(k, th[k].fd, Unanswered(k, FALSE))
     PROVE  CanTestWay3(k)
  <2> DEFINE t == Unanswered(k, FALSE)
  <2>1. /\ DOMAIN t = Fields
        /\ t.at = "closePort"
        /\ t.ok = FALSE
        /\ \A f \in Fields \ {"at", "ok"} : t[f] = th[k][f]
    BY DEF Fields, Unanswered
  <2>2. Fails(k, th[k].fd, t)
    BY <1>3
  <2> HIDE DEF t
  <2>3. QED
    BY <1>3, <2>1, <2>2, FailsF DEF CanTestWay3, Becomes, BecomesBut, Changes, Fields
<1>4. QED
  BY <1>0, <1>1, <1>2, <1>3 DEF CanTest, Exchanges

LEMMA Rs485TestView ==
  ASSUME NEW k \in DOMAIN th, DOMAIN th[k] = Fields, Rs485Test(k)
  PROVE  /\ At(k, "probe")
         /\ UNCHANGED serialVars
         /\ Rs485TestWay1(k) \/ Rs485TestWay2(k) \/ Rs485TestWay3(k) \/ Rs485TestWay4(k)
<1>0. At(k, "probe") /\ UNCHANGED serialVars
  BY DEF At, Rs485Test, Exchanges
<1>1. ASSUME Works(k, th[k].fd, Answered(k))
     PROVE  Rs485TestWay1(k)
  BY <1>1, AnsweredWorks DEF Rs485TestWay1
<1>2. ASSUME th[k].n + 1 < Probes /\ Fails(k, th[k].fd, [th[k] EXCEPT !.n = @ + 1])
     PROVE  Rs485TestWay2(k)
  BY <1>2, FailsF DEF Rs485TestWay2, Becomes, BecomesBut, Changes, Fields
<1>3. ASSUME Item(k) = "485" /\ Fails(k, th[k].fd, Unanswered(k, TRUE))
     PROVE  Rs485TestWay3(k)
  <2> DEFINE t == Unanswered(k, TRUE)
  <2>1. /\ DOMAIN t = Fields
        /\ t.at = "closePort"
        /\ t.ok = TRUE
        /\ \A f \in Fields \ {"at", "ok"} : t[f] = th[k][f]
    BY DEF Fields, Unanswered
  <2>2. Fails(k, th[k].fd, t)
    BY <1>3
  <2> HIDE DEF t
  <2>3. QED
    BY <1>3, <2>1, <2>2, FailsF DEF Rs485TestWay3, Becomes, BecomesBut, Changes, Fields
<1>4. ASSUME Item(k) = "485" /\ Fails(k, th[k].fd, Unanswered(k, FALSE))
     PROVE  Rs485TestWay4(k)
  <2> DEFINE t == Unanswered(k, FALSE)
  <2>1. /\ DOMAIN t = Fields
        /\ t.at = "closePort"
        /\ t.ok = FALSE
        /\ \A f \in Fields \ {"at", "ok"} : t[f] = th[k][f]
    BY DEF Fields, Unanswered
  <2>2. Fails(k, th[k].fd, t)
    BY <1>4
  <2> HIDE DEF t
  <2>3. QED
    BY <1>4, <2>1, <2>2, FailsF DEF Rs485TestWay4, Becomes, BecomesBut, Changes, Fields
<1>5. QED
  BY <1>0, <1>1, <1>2, <1>3, <1>4 DEF Rs485Test, Exchanges

LEMMA LineBeginView ==
  ASSUME NEW k \in DOMAIN th, DOMAIN th[k] = Fields, LineBegin(k)
  PROVE  /\ At(k, "line")
         /\ UNCHANGED serialVars
         /\ th[k].line <= 2
         /\ Cardinality(OnLine(k)) # 1
         /\ LineBeginWay1(k) \/ LineBeginWay2(k)
<1>0. At(k, "line") /\ UNCHANGED serialVars /\ th[k].line <= 2 /\ Cardinality(OnLine(k)) # 1
  BY DEF At, LineBegin
<1>1. ASSUME OnLine(k) = {} /\ Local(k, [th[k] EXCEPT !.line = @ + 1])
     PROVE  LineBeginWay1(k)
  BY <1>1, LocalF DEF LineBeginWay1, Becomes, BecomesBut, Changes, Fields
<1>2. ASSUME OnLine(k) # {}
             /\ Local(k, Forgets(NewAttempt([th[k] EXCEPT !.at = "lineOpen", !.try = 0], OnLine(k))))
     PROVE  LineBeginWay2(k)
  <2> DEFINE u == [th[k] EXCEPT !.at = "lineOpen", !.try = 0]
  <2>0. /\ DOMAIN u = Fields
        /\ u.at = "lineOpen"
        /\ u.try = 0
        /\ \A f \in Fields \ {"at", "try"} : u[f] = th[k][f]
    BY DEF Fields
  <2> DEFINE t == Forgets(NewAttempt(u, OnLine(k)))
  <2> HIDE DEF u
  <2>1. /\ DOMAIN t = Fields
        /\ t.ports = <<>>
        /\ t.send = <<>>
        /\ t.recv = <<>>
        /\ t.n = 0
        /\ t.queue = [x \in OnLine(k) |-> 0]
        /\ t.reached = {} /\ t.lost = {}
        /\ t.tested = {}
        /\ t.at = "lineOpen"
        /\ t.try = 0
        /\ t.met = th[k].met \ {"fault", "full"}
        /\ \A f \in Fields \ {"at", "lost", "met", "n", "ports", "queue", "reached", "recv", "send", "tested", "try"} : t[f] = th[k][f]
    BY <2>0, ForgetsF, NewAttemptF DEF Fields
  <2>2. Local(k, t)
    BY <1>2 DEF u
  <2> HIDE DEF t
  <2>3. QED
    BY <1>2, <2>1, <2>2, LocalF DEF LineBeginWay2, Becomes, BecomesBut, Changes, Fields
<1>3. QED
  BY <1>0, <1>1, <1>2 DEF LineBegin

LEMMA SerialAnswerView ==
  ASSUME NEW k \in DOMAIN th, DOMAIN th[k] = Fields, SerialAnswer(k)
  PROVE  /\ At(k, "line")
         /\ UNCHANGED serialVars
         /\ th[k].line = 3
         /\ Changes(k, {"at"})
         /\ th'[k].at = "send"
         /\ Keeps
<1>0. At(k, "line") /\ UNCHANGED serialVars /\ th[k].line = 3
  BY DEF At, SerialAnswer
<1>1. ASSUME Local(k, To(th[k], "send"))
     PROVE  Changes(k, {"at"}) /\ th'[k].at = "send" /\ Keeps
  BY <1>1, LocalF, ToF DEF Becomes, BecomesBut, Changes, Judges, Decides, Adds, Fields, Answers
<1>2. QED
  BY <1>0, <1>1 DEF SerialAnswer, Answers

LEMMA LineOpenView ==
  ASSUME NEW k \in DOMAIN th, DOMAIN th[k] = Fields, LineOpen(k)
  PROVE  /\ At(k, "lineOpen")
         /\ UNCHANGED serialVars
         /\ \/ LineOpenWay1(k) \/ LineOpenWay2(k) \/ LineOpenWay3(k) \/ LineOpenWay4(k)
            \/ LineOpenWay5(k)
<1>0. At(k, "lineOpen") /\ UNCHANGED serialVars
  BY DEF At, LineOpen
<1>1. ASSUME OnLine(k) \subseteq DOMAIN th[k].ports /\ Local(k, To(th[k], "exchange"))
     PROVE  LineOpenWay1(k)
  BY <1>1, LocalF, ToF DEF LineOpenWay1, Becomes, BecomesBut, Changes, Fields
<1>2. ASSUME ~(OnLine(k) \subseteq DOMAIN th[k].ports) /\ th[k].line = 1 /\ Local(k, To(th[k], "open"))
     PROVE  LineOpenWay2(k)
  BY <1>2, LocalF, ToF DEF LineOpenWay2, Becomes, BecomesBut, Changes, Fields
<1>3. ASSUME ~(OnLine(k) \subseteq DOMAIN th[k].ports) /\ th[k].line # 1
             /\ Opens(k, Port(k), Meets(AddPort(k, Lowest, TRUE), {}))
     PROVE  LineOpenWay3(k)
  <2> DEFINE u == AddPort(k, Lowest, TRUE)
  <2>1. /\ DOMAIN u = Fields /\ u.at = "lineOpen" /\ u.fd = Lowest
        /\ \A f \in Fields \ {"at", "fd", "ports", "recv", "send"} : u[f] = th[k][f]
    BY DEF AddPort, Fields
  <2>2. /\ u.ports = Extended(k, th[k].ports, Lowest)
        /\ u.send = Extended(k, th[k].send, TRUE)
        /\ u.recv = Extended(k, th[k].recv, TRUE)
    BY DEF AddPort, Extended, Fields
  <2> HIDE DEF u
  <2>3. Opens(k, Port(k), Meets(u, {}))
    BY <1>3 DEF u
  <2> DEFINE t == Meets(u, {})
  <2>4. /\ DOMAIN t = Fields /\ t.met = u.met \cup {}
        /\ \A f \in Fields \ {"met"} : t[f] = u[f]
    BY <2>1 DEF Meets, Fields
  <2> HIDE DEF t
  <2>5. Opens(k, Port(k), t)
    BY <2>3 DEF t
  <2>6. Changes(k, {"at", "fd", "ports", "recv", "send"}) /\ th'[k].at = "lineOpen" /\
        th'[k].fd = Lowest /\ Takes(k, Port(k)) /\ th'[k].ports = u.ports /\
        th'[k].send = u.send /\ th'[k].recv = u.recv
    BY <2>1, <2>4, <2>5, OpensF DEF BecomesBut, Changes, Fields
  <2>7. QED
    BY <1>3, <2>2, <2>6, Zenon DEF LineOpenWay3, Adds
<1>4. ASSUME ~(OnLine(k) \subseteq DOMAIN th[k].ports) /\ th[k].line # 1
             /\ Opens(k, Port(k), Meets(AddPort(k, Lowest, FALSE), {"fault"}))
     PROVE  LineOpenWay4(k)
  <2> DEFINE u == AddPort(k, Lowest, FALSE)
  <2>1. /\ DOMAIN u = Fields /\ u.at = "lineOpen" /\ u.fd = Lowest
        /\ \A f \in Fields \ {"at", "fd", "ports", "recv", "send"} : u[f] = th[k][f]
    BY DEF AddPort, Fields
  <2>2. /\ u.ports = Extended(k, th[k].ports, Lowest)
        /\ u.send = Extended(k, th[k].send, FALSE)
        /\ u.recv = Extended(k, th[k].recv, FALSE)
    BY DEF AddPort, Extended, Fields
  <2> HIDE DEF u
  <2>3. Opens(k, Port(k), Meets(u, {"fault"}))
    BY <1>4 DEF u
  <2> DEFINE t == Meets(u, {"fault"})
  <2>4. /\ DOMAIN t = Fields /\ t.met = u.met \cup {"fault"}
        /\ \A f \in Fields \ {"met"} : t[f] = u[f]
    BY <2>1 DEF Meets, Fields
  <2> HIDE DEF t
  <2>5. Opens(k, Port(k), t)
    BY <2>3 DEF t
  <2>6. Changes(k, {"at", "fd", "met", "ports", "recv", "send"}) /\
        th'[k].at = "lineOpen" /\ th'[k].fd = Lowest /\
        th'[k].met = th[k].met \cup {"fault"} /\ Takes(k, Port(k)) /\
        th'[k].ports = u.ports /\ th'[k].send = u.send /\ th'[k].recv = u.recv
    BY <2>1, <2>4, <2>5, OpensF DEF BecomesBut, Changes, Fields
  <2>7. QED
    BY <1>4, <2>2, <2>6, Zenon DEF LineOpenWay4, Adds
<1>5. ASSUME ~(OnLine(k) \subseteq DOMAIN th[k].ports) /\ th[k].line # 1 /\ Misses(k, AddPort(k, -1, FALSE))
     PROVE  LineOpenWay5(k)
  <2> DEFINE u == AddPort(k, -1, FALSE)
  <2>1. /\ DOMAIN u = Fields /\ u.at = "lineOpen" /\ u.fd = -1
        /\ \A f \in Fields \ {"at", "fd", "ports", "recv", "send"} : u[f] = th[k][f]
    BY DEF AddPort, Fields
  <2>2. /\ u.ports = Extended(k, th[k].ports, -1)
        /\ u.send = Extended(k, th[k].send, FALSE)
        /\ u.recv = Extended(k, th[k].recv, FALSE)
    BY DEF AddPort, Extended, Fields
  <2> HIDE DEF u
  <2>3. Misses(k, u)
    BY <1>5 DEF u
  <2>6. Changes(k, {"at", "fd", "met", "ports", "recv", "send"}) /\
        th'[k].at = "lineOpen" /\ th'[k].fd = -1 /\ th'[k].met = th[k].met \cup Lack /\
        Keeps /\ th'[k].ports = u.ports /\ th'[k].send = u.send /\ th'[k].recv = u.recv
    BY <2>1, <2>3, MissesF DEF BecomesBut, Changes, Fields
  <2>7. QED
    BY <1>5, <2>2, <2>6, Zenon DEF LineOpenWay5, Adds
<1>6. QED
  BY <1>0, <1>1, <1>2, <1>3, <1>4, <1>5, OpenF DEF LineOpen

LEMMA SerialRetryView ==
  ASSUME NEW k \in DOMAIN th, DOMAIN th[k] = Fields, SerialRetry(k)
  PROVE  /\ At(k, "again")
         /\ UNCHANGED serialVars
         /\ Changes(k, {"at", "met", "try"})
         /\ th'[k].at = IF th[k].line = 0 THEN "open" ELSE "lineOpen"
         /\ th'[k].try = th[k].try + 1
         /\ th'[k].met = th[k].met \ {"fault", "full"}
         /\ Keeps
<1>0. At(k, "again") /\ UNCHANGED serialVars
  BY DEF At, SerialRetry
<1>1. ASSUME Local(k, Forgets([th[k] EXCEPT !.at = IF th[k].line = 0 THEN "open" ELSE "lineOpen", !.try = @ + 1]))
     PROVE  Changes(k, {"at", "met", "try"}) /\
            (th'[k].at = IF th[k].line = 0 THEN "open" ELSE "lineOpen") /\
            th'[k].try = th[k].try + 1 /\ th'[k].met = th[k].met \ {"fault", "full"} /\
            Keeps
  <2> DEFINE u == [th[k] EXCEPT !.at = IF th[k].line = 0 THEN "open" ELSE "lineOpen", !.try = @ + 1]
  <2>0. /\ DOMAIN u = Fields
        /\ (u.at = IF th[k].line = 0 THEN "open" ELSE "lineOpen")
        /\ u.try = th[k].try + 1
        /\ \A f \in Fields \ {"at", "try"} : u[f] = th[k][f]
    BY DEF Fields
  <2> DEFINE t == Forgets(u)
  <2> HIDE DEF u
  <2>1. /\ DOMAIN t = Fields
        /\ (t.at = IF th[k].line = 0 THEN "open" ELSE "lineOpen")
        /\ t.try = th[k].try + 1
        /\ t.met = th[k].met \ {"fault", "full"}
        /\ \A f \in Fields \ {"at", "met", "try"} : t[f] = th[k][f]
    BY <2>0, ForgetsF DEF Fields
  <2>2. Local(k, t)
    BY <1>1 DEF u
  <2> HIDE DEF t
  <2>3. Changes(k, {"at", "met", "try"}) /\
        (th'[k].at = IF th[k].line = 0 THEN "open" ELSE "lineOpen") /\
        th'[k].try = th[k].try + 1 /\ th'[k].met = th[k].met \ {"fault", "full"} /\
        Keeps
    BY <2>1, <2>2, LocalF DEF Becomes, BecomesBut, Changes, Judges, Decides, Adds, Fields
  <2>4. QED
    BY <1>1, <2>3
<1>2. QED
  BY <1>0, <1>1 DEF SerialRetry

LEMMA LineCloseView ==
  ASSUME NEW k \in DOMAIN th, DOMAIN th[k] = Fields, LineClose(k)
  PROVE  /\ At(k, "exchange")
         /\ UNCHANGED serialVars
         /\ Untested(k) = {}
         /\ LineCloseWay1(k) \/ LineCloseWay2(k)
<1>0. At(k, "exchange") /\ UNCHANGED serialVars /\ Untested(k) = {}
  BY DEF At, LineClose
<1>1. ASSUME (AllPassed(k) \/ th[k].try = Retries) /\ CloseAll(k, PortFds(k), LineResults(k))
     PROVE  LineCloseWay1(k)
  <2> DEFINE t == LineResults(k)
  <2>1. /\ DOMAIN t = Fields
        /\ t.at = "line"
        /\ t.line = th[k].line + 1
        /\ (t.items = [y \in DOMAIN th[k].items |-> CASE y \notin OnLine(k) -> th[k].items[y]
                     [] y \in OnLine(k) /\ Passed(k, y) -> "OK" [] OTHER -> "NG"])
        /\ (t.result = IF AllPassed(k) THEN th[k].result ELSE "false")
        /\ t.shown = th[k].shown \cup (OnLine(k) \cap (th[k].reached \ th[k].lost))
        /\ \A f \in Fields \ {"at", "items", "line", "result", "shown"} : t[f] = th[k][f]
    BY DEF Fields, LineResults
  <2>2. CloseAll(k, PortFds(k), t)
    BY <1>1
  <2> HIDE DEF t
  <2>3. QED
    BY <1>1, <2>1, <2>2, CloseAllF DEF LineCloseWay1, Becomes, BecomesBut, Changes, Fields
<1>2. ASSUME ~AllPassed(k) /\ CloseAll(k, PortFds(k), NewAttempt(To(th[k], "again"), OnLine(k)))
     PROVE  LineCloseWay2(k)
  BY <1>2, CloseAllF, NewAttemptF, ToF DEF LineCloseWay2, Becomes, BecomesBut, Changes, Fields
<1>3. QED
  BY <1>0, <1>1, <1>2 DEF LineClose, PortFds

LEMMA KeyLoopView ==
  ASSUME NEW k \in DOMAIN th, DOMAIN th[k] = Fields, KeyLoop(k)
  PROVE  /\ At(k, "key")
         /\ UNCHANGED keyPath
         /\ KeyLoopWay1(k) \/ KeyLoopWay2(k)
<1>0. At(k, "key") /\ UNCHANGED keyPath
  BY DEF At, KeyLoop
<1>1. ASSUME (Remaining(k) = {} \/ k \in stopped) /\ Local(k, To(th[k], "done"))
     PROVE  KeyLoopWay1(k)
  BY <1>1, LocalF, ToF DEF KeyLoopWay1, Becomes, BecomesBut, Changes, Fields, Quits
<1>2. ASSUME Remaining(k) # {} /\ Local(k, [th[k] EXCEPT !.at = "scan", !.n = 1, !.count = 0, !.ports = <<>>])
     PROVE  KeyLoopWay2(k)
  <2> DEFINE t == [th[k] EXCEPT !.at = "scan", !.n = 1, !.count = 0, !.ports = <<>>]
  <2>1. /\ DOMAIN t = Fields
        /\ t.at = "scan"
        /\ t.n = 1
        /\ t.count = 0
        /\ t.ports = <<>>
        /\ \A f \in Fields \ {"at", "count", "n", "ports"} : t[f] = th[k][f]
    BY DEF Fields
  <2>2. Local(k, t)
    BY <1>2
  <2> HIDE DEF t
  <2>3. QED
    BY <1>2, <2>1, <2>2, LocalF DEF KeyLoopWay2, Becomes, BecomesBut, Changes, Fields
<1>3. QED
  BY <1>0, <1>1, <1>2 DEF KeyLoop, Quits

LEMMA ScanNodeView ==
  ASSUME NEW k \in DOMAIN th, DOMAIN th[k] = Fields, ScanNode(k)
  PROVE  /\ At(k, "scan")
         /\ UNCHANGED keyPath
         /\ th[k].n <= Len(EventNodes)
         /\ ScanNodeWay1(k) \/ ScanNodeWay2(k)
<1>0. At(k, "scan") /\ UNCHANGED keyPath /\ th[k].n <= Len(EventNodes)
  BY DEF At, ScanNode
<1>1. ASSUME Opens(k, <<"event", th[k].n>>, To(th[k], "name"))
     PROVE  ScanNodeWay1(k)
  BY <1>1, OpensF, ToF DEF ScanNodeWay1, Becomes, BecomesBut, Changes, Fields
<1>2. ASSUME Misses(k, NextNode(k))
     PROVE  ScanNodeWay2(k)
  <2> DEFINE t == NextNode(k)
  <2>1. /\ DOMAIN t = Fields
        /\ t.at = "scan"
        /\ t.n = th[k].n + 1
        /\ \A f \in Fields \ {"at", "fd", "n"} : t[f] = th[k][f]
    BY DEF Fields, NextNode
  <2>2. Misses(k, t)
    BY <1>2
  <2> HIDE DEF t
  <2>3. QED
    BY <1>2, <2>1, <2>2, MissesF DEF ScanNodeWay2, Becomes, BecomesBut, Changes, Fields
<1>3. QED
  BY <1>0, <1>1, <1>2, OpenF DEF ScanNode

LEMMA NodeNameView ==
  ASSUME NEW k \in DOMAIN th, DOMAIN th[k] = Fields, NodeName(k)
  PROVE  /\ At(k, "name")
         /\ NodeNameWay1(k) \/ NodeNameWay2(k) \/ NodeNameWay3(k)
<1>0. At(k, "name")
  BY DEF At, NodeName
<1>1. ASSUME EventNodes[th[k].n] # None /\ Works(k, th[k].fd, [NextNode(k) EXCEPT !.count = @ + 1]) /\
            keyPath' = [keyPath EXCEPT ![EventNodes[th[k].n]] = th[k].n]
     PROVE  NodeNameWay1(k)
  <2> DEFINE t == [NextNode(k) EXCEPT !.count = @ + 1]
  <2>1. /\ DOMAIN t = Fields
        /\ t.at = "scan"
        /\ t.n = th[k].n + 1
        /\ t.count = th[k].count + 1
        /\ \A f \in Fields \ {"at", "count", "n"} : t[f] = th[k][f]
    BY DEF Fields, NextNode
  <2>2. Works(k, th[k].fd, t)
    BY <1>1
  <2> HIDE DEF t
  <2>3. QED
    BY <1>1, <2>1, <2>2, WorksF DEF NodeNameWay1, Becomes, BecomesBut, Changes, Fields
<1>2. ASSUME EventNodes[th[k].n] = None /\ Works(k, th[k].fd, NextNode(k)) /\
            keyPath' = keyPath
     PROVE  NodeNameWay2(k)
  <2> DEFINE t == NextNode(k)
  <2>1. /\ DOMAIN t = Fields
        /\ t.at = "scan"
        /\ t.n = th[k].n + 1
        /\ \A f \in Fields \ {"at", "n"} : t[f] = th[k][f]
    BY DEF Fields, NextNode
  <2>2. Works(k, th[k].fd, t)
    BY <1>2
  <2> HIDE DEF t
  <2>3. QED
    BY <1>2, <2>1, <2>2, WorksF DEF NodeNameWay2, Becomes, BecomesBut, Changes, Fields
<1>3. ASSUME FailsAndCloses(k, th[k].fd, NextNode(k)) /\ keyPath' = keyPath
     PROVE  NodeNameWay3(k)
  <2> DEFINE t == NextNode(k)
  <2>1. /\ DOMAIN t = Fields
        /\ t.at = "scan"
        /\ t.n = th[k].n + 1
        /\ \A f \in Fields \ {"at", "n"} : t[f] = th[k][f]
    BY DEF Fields, NextNode
  <2>2. FailsAndCloses(k, th[k].fd, t)
    BY <1>3
  <2> HIDE DEF t
  <2>3. QED
    BY <1>3, <2>1, <2>2, FailsAndClosesF DEF NodeNameWay3, Becomes, BecomesBut, Changes, Fields
<1>4. QED
  BY <1>0, <1>1, <1>2, <1>3 DEF NodeName

LEMMA ScanEndsView ==
  ASSUME NEW k \in DOMAIN th, DOMAIN th[k] = Fields, ScanEnds(k)
  PROVE  /\ At(k, "scan")
         /\ UNCHANGED keyPath
         /\ th[k].n > Len(EventNodes)
         /\ ScanEndsWay1(k) \/ ScanEndsWay2(k)
<1>0. At(k, "scan") /\ UNCHANGED keyPath /\ th[k].n > Len(EventNodes)
  BY DEF At, ScanEnds
<1>1. ASSUME th[k].count = Cardinality(KeyNames) /\ Local(k, To(th[k], "targets"))
     PROVE  ScanEndsWay1(k)
  BY <1>1, LocalF, ToF DEF ScanEndsWay1, Becomes, BecomesBut, Changes, Fields
<1>2. ASSUME th[k].count # Cardinality(KeyNames) /\ Local(k, To(th[k], "done"))
     PROVE  ScanEndsWay2(k)
  BY <1>2, LocalF, ToF DEF ScanEndsWay2, Becomes, BecomesBut, Changes, Fields, Quits
<1>3. QED
  BY <1>0, <1>1, <1>2 DEF ScanEnds, Quits

LEMMA TargetOpenView ==
  ASSUME NEW k \in DOMAIN th, DOMAIN th[k] = Fields, TargetOpen(k)
  PROVE  /\ At(k, "targets")
         /\ UNCHANGED keyPath
         /\ ToOpen(k) # {}
         /\ TargetOpenWay1(k) \/ TargetOpenWay2(k)
<1>0. At(k, "targets") /\ UNCHANGED keyPath /\ ToOpen(k) # {}
  BY DEF At, TargetOpen
<1>1. ASSUME Opens(k, <<"event", keyPath[(CHOOSE x \in ToOpen(k) : TRUE)]>>, [th[k] EXCEPT !.ports = Append(@, Target((CHOOSE x \in ToOpen(k) : TRUE), Lowest))])
     PROVE  TargetOpenWay1(k)
  BY <1>1, OpensF DEF TargetOpenWay1, Becomes, BecomesBut, Changes, Fields
<1>2. ASSUME Misses(k, [th[k] EXCEPT !.ports = Append(@, Target((CHOOSE x \in ToOpen(k) : TRUE), -1))])
     PROVE  TargetOpenWay2(k)
  BY <1>2, MissesF DEF TargetOpenWay2, Becomes, BecomesBut, Changes, Fields
<1>3. QED
  BY <1>0, <1>1, <1>2, OpenF DEF TargetOpen

LEMMA TargetsEndView ==
  ASSUME NEW k \in DOMAIN th, DOMAIN th[k] = Fields, TargetsEnd(k)
  PROVE  /\ At(k, "targets")
         /\ UNCHANGED keyPath
         /\ TargetsEndWay1(k) \/ TargetsEndWay2(k)
<1>0. At(k, "targets") /\ UNCHANGED keyPath
  BY DEF At, TargetsEnd
<1>1. ASSUME -1 \in Ports(k) /\ CloseAll(k, Ports(k) \ {-1}, To(th[k], "done"))
     PROVE  TargetsEndWay1(k)
  BY <1>1, CloseAllF, ToF DEF TargetsEndWay1, Becomes, BecomesBut, Changes, Fields
<1>2. ASSUME -1 \notin Ports(k) /\ Local(k, To(th[k], "select"))
     PROVE  TargetsEndWay2(k)
  BY <1>2, LocalF, ToF DEF TargetsEndWay2, Becomes, BecomesBut, Changes, Fields
<1>3. QED
  BY <1>0, <1>1, <1>2 DEF TargetsEnd

LEMMA KeyEventView ==
  ASSUME NEW k \in DOMAIN th, DOMAIN th[k] = Fields, NEW x, KeyEvent(k, x)
  PROVE  /\ At(k, "select")
         /\ UNCHANGED keyPath
         /\ x \in Wanted(k)
         /\ \/ /\ Changes(k, {"at", "met"})
               /\ th'[k].at = "key"
               /\ th'[k].met = th[k].met \cup UNION {Astray(k, n) : n \in Ports(k)}
               /\ Drops(Ports(k))
            \/ /\ x \in Remaining(k)
               /\ Changes(k, {"at", "items", "met", "shown"})
               /\ th'[k].at = IF Remaining(k) = {x} THEN "send" ELSE "key"
               /\ th'[k].items = [th[k].items EXCEPT ![x] = "OK"]
               /\ th'[k].shown = th[k].shown \cup {x}
               /\ th'[k].met = th[k].met \cup UNION {Astray(k, n) : n \in Ports(k)}
               /\ Drops(Ports(k))
<1>0. At(k, "select") /\ UNCHANGED keyPath /\ x \in Wanted(k)
  BY DEF At, KeyEvent
<1>1. ASSUME CloseAll(k, Ports(k), To(th[k], "key"))
     PROVE  Changes(k, {"at", "met"}) /\ th'[k].at = "key" /\
            th'[k].met = th[k].met \cup UNION {Astray(k, n) : n \in Ports(k)} /\
            Drops(Ports(k))
  BY <1>1, CloseAllF, ToF DEF Becomes, BecomesBut, Changes, Judges, Decides, Adds, Fields
<1>2. ASSUME x \in Remaining(k)
             /\ CloseAll(k, Ports(k), Shows([th[k] EXCEPT !.at = IF Remaining(k) = {x} THEN "send" ELSE "key", !.items[x] = "OK"], x))
     PROVE  x \in Remaining(k) /\ Changes(k, {"at", "items", "met", "shown"}) /\
            (th'[k].at = IF Remaining(k) = {x} THEN "send" ELSE "key") /\
            th'[k].items = [th[k].items EXCEPT ![x] = "OK"] /\
            th'[k].shown = th[k].shown \cup {x} /\
            th'[k].met = th[k].met \cup UNION {Astray(k, n) : n \in Ports(k)} /\
            Drops(Ports(k))
  <2> DEFINE u == [th[k] EXCEPT !.at = IF Remaining(k) = {x} THEN "send" ELSE "key", !.items[x] = "OK"]
  <2>0. /\ DOMAIN u = Fields
        /\ (u.at = IF Remaining(k) = {x} THEN "send" ELSE "key")
        /\ u.items = [th[k].items EXCEPT ![x] = "OK"]
        /\ \A f \in Fields \ {"at", "items"} : u[f] = th[k][f]
    BY DEF Fields
  <2> DEFINE t == Shows(u, x)
  <2> HIDE DEF u
  <2>1. /\ DOMAIN t = Fields
        /\ (t.at = IF Remaining(k) = {x} THEN "send" ELSE "key")
        /\ t.items = [th[k].items EXCEPT ![x] = "OK"]
        /\ t.shown = th[k].shown \cup {x}
        /\ \A f \in Fields \ {"at", "items", "shown"} : t[f] = th[k][f]
    BY <2>0, ShowsF DEF Fields
  <2>2. CloseAll(k, Ports(k), t)
    BY <1>2 DEF u
  <2> HIDE DEF t
  <2>3. Changes(k, {"at", "items", "met", "shown"}) /\
        (th'[k].at = IF Remaining(k) = {x} THEN "send" ELSE "key") /\
        th'[k].items = [th[k].items EXCEPT ![x] = "OK"] /\
        th'[k].shown = th[k].shown \cup {x} /\
        th'[k].met = th[k].met \cup UNION {Astray(k, n) : n \in Ports(k)} /\
        Drops(Ports(k))
    BY <2>1, <2>2, CloseAllF DEF Becomes, BecomesBut, Changes, Judges, Decides, Adds, Fields
  <2>4. QED
    BY <1>2, <2>3
<1>3. QED
  BY <1>0, <1>1, <1>2 DEF KeyEvent

LEMMA KeyTimeoutView ==
  ASSUME NEW k \in DOMAIN th, DOMAIN th[k] = Fields, KeyTimeout(k)
  PROVE  /\ At(k, "select")
         /\ UNCHANGED keyPath
         /\ Changes(k, {"at", "met"})
         /\ th'[k].at = "key"
         /\ th'[k].met = th[k].met \cup UNION {Astray(k, n) : n \in Ports(k)}
         /\ Drops(Ports(k))
<1>0. At(k, "select") /\ UNCHANGED keyPath
  BY DEF At, KeyTimeout
<1>1. ASSUME CloseAll(k, Ports(k), To(th[k], "key"))
     PROVE  Changes(k, {"at", "met"}) /\ th'[k].at = "key" /\
            th'[k].met = th[k].met \cup UNION {Astray(k, n) : n \in Ports(k)} /\
            Drops(Ports(k))
  BY <1>1, CloseAllF, ToF DEF Becomes, BecomesBut, Changes, Judges, Decides, Adds, Fields
<1>2. QED
  BY <1>0, <1>1 DEF KeyTimeout

LEMMA KeyNoiseView ==
  ASSUME NEW k \in DOMAIN th, DOMAIN th[k] = Fields, KeyNoise(k)
  PROVE  /\ At(k, "select")
         /\ UNCHANGED keyPath
         /\ Changes(k, {"at", "met"})
         /\ th'[k].at = "done"
         /\ th'[k].met = th[k].met \cup {"noise"} \cup UNION {Astray(k, n) : n \in Ports(k)}
         /\ Drops(Ports(k))
<1>0. At(k, "select") /\ UNCHANGED keyPath
  BY DEF At, KeyNoise
<1>1. ASSUME CloseAll(k, Ports(k), Meets(To(th[k], "done"), {"noise"}))
     PROVE  Changes(k, {"at", "met"}) /\ th'[k].at = "done" /\
            th'[k].met = th[k].met \cup {"noise"} \cup UNION {Astray(k, n) : n \in Ports(k)} /\
            Drops(Ports(k))
  BY <1>1, CloseAllF, MeetsF, ToF DEF Becomes, BecomesBut, Changes, Judges, Decides, Adds, Fields
<1>2. QED
  BY <1>0, <1>1 DEF KeyNoise

LEMMA DeviceItemView ==
  ASSUME NEW k \in DOMAIN th, DOMAIN th[k] = Fields, DeviceItem(k)
  PROVE  /\ At(k, "device")
         /\ UNCHANGED rtcVars
         /\ MoreItems(k)
         /\ \/ DeviceItemWay1(k) \/ DeviceItemWay2(k) \/ DeviceItemWay3(k) \/ DeviceItemWay4(k)
            \/ DeviceItemWay5(k)
<1>0. At(k, "device") /\ UNCHANGED rtcVars /\ MoreItems(k)
  BY DEF At, DeviceItem
<1>1. ASSUME Item(k) = "off" /\ Local(k, Verdict(k, "SKIP"))
     PROVE  DeviceItemWay1(k)
  BY <1>1, LocalF, VerdictF DEF DeviceItemWay1, Becomes, BecomesBut, Changes, Decides, Fields
<1>2. ASSUME Item(k) = "other" /\ Local(k, Verdict(k, "none"))
     PROVE  DeviceItemWay2(k)
  BY <1>2, LocalF, VerdictF DEF DeviceItemWay2, Becomes, BecomesBut, Changes, Decides, Fields
<1>3. ASSUME Item(k) = "unknown" /\ Local(k, Meets(Verdict(k, "NG"), {"unknown"}))
     PROVE  DeviceItemWay3(k)
  BY <1>3, LocalF, MeetsF, VerdictF DEF DeviceItemWay3, Becomes, BecomesBut, Changes, Decides, Fields
<1>4. ASSUME Item(k) \in {"lamp", "fan"} /\ Local(k, Forgets(To(th[k], "lamp")))
     PROVE  DeviceItemWay4(k)
  BY <1>4, LocalF, ForgetsF, ToF DEF DeviceItemWay4, Becomes, BecomesBut, Changes, Fields
<1>5. ASSUME Item(k) \notin {"off", "other", "unknown", "lamp", "fan"} /\ Local(k, Forgets(To(th[k], "access")))
     PROVE  DeviceItemWay5(k)
  BY <1>5, LocalF, ForgetsF, ToF DEF DeviceItemWay5, Becomes, BecomesBut, Changes, Fields
<1>6. QED
  BY <1>0, <1>1, <1>2, <1>3, <1>4, <1>5 DEF DeviceItem

LEMMA DeviceEndsView ==
  ASSUME NEW k \in DOMAIN th, DOMAIN th[k] = Fields, DeviceEnds(k)
  PROVE  /\ At(k, "device")
         /\ UNCHANGED rtcVars
         /\ DeviceEndsWay1(k) \/ DeviceEndsWay2(k)
<1>0. At(k, "device") /\ UNCHANGED rtcVars
  BY DEF At, DeviceEnds
<1>1. ASSUME plan[k].items = <<>> /\ Local(k, To(th[k], "done"))
     PROVE  DeviceEndsWay1(k)
  BY <1>1, LocalF, ToF DEF DeviceEndsWay1, Becomes, BecomesBut, Changes, Fields, Quits
<1>2. ASSUME Local(k, To(th[k], "send"))
     PROVE  DeviceEndsWay2(k)
  BY <1>2, LocalF, ToF DEF DeviceEndsWay2, Becomes, BecomesBut, Changes, Fields, Answers
<1>3. QED
  BY <1>0, <1>1, <1>2 DEF DeviceEnds, Quits, Answers

LEMMA LampView ==
  ASSUME NEW k \in DOMAIN th, DOMAIN th[k] = Fields, Lamp(k)
  PROVE  /\ At(k, "lamp")
         /\ UNCHANGED rtcVars
         /\ LampWay1(k) \/ LampWay2(k)
<1>0. At(k, "lamp") /\ UNCHANGED rtcVars
  BY DEF At, Lamp
<1>1. ASSUME Local(k, Shows(Verdict(k, "OK"), th[k].item))
     PROVE  LampWay1(k)
  BY <1>1, LocalF, ShowsF, VerdictF DEF LampWay1, Becomes, BecomesBut, Changes, Decides, Fields, Lit
<1>2. ASSUME Local(k, Meets(Verdict(k, "NG"), {"fault"}))
     PROVE  LampWay2(k)
  BY <1>2, LocalF, MeetsF, VerdictF DEF LampWay2, Becomes, BecomesBut, Changes, Decides, Fields, Dark
<1>3. QED
  BY <1>0, <1>1, <1>2 DEF Lamp, SetLed, FanCtrl, Lit, Dark

LEMMA AccessOpenView ==
  ASSUME NEW k \in DOMAIN th, DOMAIN th[k] = Fields, AccessOpen(k)
  PROVE  /\ At(k, "access")
         /\ AccessOpenWay1(k) \/ AccessOpenWay2(k)
<1>0. At(k, "access")
  BY DEF At, AccessOpen
<1>1. ASSUME Opens(k, <<k, th[k].item>>, [th[k] EXCEPT !.at = "request", !.try = 0])
     PROVE  AccessOpenWay1(k)
  <2> DEFINE t == [th[k] EXCEPT !.at = "request", !.try = 0]
  <2>1. /\ DOMAIN t = Fields
        /\ t.at = "request"
        /\ t.try = 0
        /\ \A f \in Fields \ {"at", "try"} : t[f] = th[k][f]
    BY DEF Fields
  <2>2. Opens(k, <<k, th[k].item>>, t)
    BY <1>1
  <2> HIDE DEF t
  <2>3. QED
    BY <1>1, <2>1, <2>2, OpensF DEF AccessOpenWay1, Becomes, BecomesBut, Changes, Fields
<1>2. ASSUME Misses(k, Verdict(k, "NG"))
     PROVE  AccessOpenWay2(k)
  BY <1>2, MissesF, VerdictF DEF AccessOpenWay2, Becomes, BecomesBut, Changes, Decides, Fields
<1>3. QED
  BY <1>0, <1>1, <1>2, OpenF DEF AccessOpen

LEMMA AccessCloseView ==
  ASSUME NEW k \in DOMAIN th, DOMAIN th[k] = Fields, AccessClose(k)
  PROVE  /\ At(k, "close")
         /\ AccessCloseWay1(k) \/ AccessCloseWay2(k)
<1>0. At(k, "close")
  BY DEF At, AccessClose
<1>1. ASSUME th[k].want = "next" /\ Close(k, th[k].fd, NextAccess(k))
     PROVE  AccessCloseWay1(k)
  <2> DEFINE t == NextAccess(k)
  <2>1. /\ DOMAIN t = Fields
        /\ t.at = "access"
        /\ t.n = th[k].n + 1
        /\ \A f \in Fields \ {"at", "n"} : t[f] = th[k][f]
    BY DEF Fields, NextAccess
  <2>2. Close(k, th[k].fd, t)
    BY <1>1
  <2> HIDE DEF t
  <2>3. QED
    BY <1>1, <2>1, <2>2, CloseF DEF AccessCloseWay1, Becomes, BecomesBut, Changes, Fields
<1>2. ASSUME th[k].want # "next" /\ Close(k, th[k].fd, Verdict(k, th[k].want))
     PROVE  AccessCloseWay2(k)
  BY <1>2, VerdictF, CloseF DEF AccessCloseWay2, Becomes, BecomesBut, Changes, Decides, Fields
<1>3. QED
  BY <1>0, <1>1, <1>2 DEF AccessClose

LEMMA RequestView ==
  ASSUME NEW k \in DOMAIN th, DOMAIN th[k] = Fields, NEW accesses, NEW requests, Request(k, accesses, requests)
  PROVE  /\ At(k, "request")
         /\ \/ RequestWay1(k) \/ RequestWay2(k) \/ RequestWay3(k) \/ RequestWay4(k)
            \/ RequestWay5(k) \/ RequestWay6(k) \/ RequestWay7(k) \/ RequestWay8(k)
            \/ RequestWay9(k)
<1>0. At(k, "request")
  BY DEF At, Request
<1>1. ASSUME Item(k) # "pin" /\ Fails(k, th[k].fd, [th[k] EXCEPT !.at = "close", !.want = "NG"])
     PROVE  RequestWay1(k)
  <2> DEFINE t == [th[k] EXCEPT !.at = "close", !.want = "NG"]
  <2>1. /\ DOMAIN t = Fields
        /\ t.at = "close"
        /\ t.want = "NG"
        /\ \A f \in Fields \ {"at", "want"} : t[f] = th[k][f]
    BY DEF Fields
  <2>2. Fails(k, th[k].fd, t)
    BY <1>1
  <2> HIDE DEF t
  <2>3. QED
    BY <1>1, <2>1, <2>2, FailsF DEF RequestWay1, Becomes, BecomesBut, Changes, Fields
<1>2. ASSUME Item(k) = "pin" /\ Fails(k, th[k].fd, Verdict(k, "NG"))
     PROVE  RequestWay2(k)
  BY <1>2, FailsF, VerdictF DEF RequestWay2, Becomes, BecomesBut, Changes, Decides, Fields
<1>3. ASSUME Works(k, th[k].fd, [th[k] EXCEPT !.try = @ + 1])
     PROVE  RequestWay3(k)
  BY <1>3, WorksF DEF RequestWay3, Becomes, BecomesBut, Changes, Fields
<1>4. ASSUME Item(k) # "pin" /\ Works(k, th[k].fd, [th[k] EXCEPT !.at = "close", !.want = "next"])
     PROVE  RequestWay4(k)
  <2> DEFINE t == [th[k] EXCEPT !.at = "close", !.want = "next"]
  <2>1. /\ DOMAIN t = Fields
        /\ t.at = "close"
        /\ t.want = "next"
        /\ \A f \in Fields \ {"at", "want"} : t[f] = th[k][f]
    BY DEF Fields
  <2>2. Works(k, th[k].fd, t)
    BY <1>4
  <2> HIDE DEF t
  <2>3. QED
    BY <1>4, <2>1, <2>2, WorksF DEF RequestWay4, Becomes, BecomesBut, Changes, Fields
<1>5. ASSUME Item(k) = "pin" /\ Works(k, th[k].fd, NextAccess(k))
     PROVE  RequestWay5(k)
  <2> DEFINE t == NextAccess(k)
  <2>1. /\ DOMAIN t = Fields
        /\ t.at = "access"
        /\ t.n = th[k].n + 1
        /\ \A f \in Fields \ {"at", "n"} : t[f] = th[k][f]
    BY DEF Fields, NextAccess
  <2>2. Works(k, th[k].fd, t)
    BY <1>5
  <2> HIDE DEF t
  <2>3. QED
    BY <1>5, <2>1, <2>2, WorksF DEF RequestWay5, Becomes, BecomesBut, Changes, Fields
<1>6. ASSUME Item(k) # "pin" /\ Astray(k, th[k].fd) = {}
             /\ Works(k, th[k].fd, Shows([th[k] EXCEPT !.at = "close", !.want = "OK"], th[k].item))
     PROVE  RequestWay6(k)
  <2> DEFINE u == [th[k] EXCEPT !.at = "close", !.want = "OK"]
  <2>0. /\ DOMAIN u = Fields
        /\ u.at = "close"
        /\ u.want = "OK"
        /\ \A f \in Fields \ {"at", "want"} : u[f] = th[k][f]
    BY DEF Fields
  <2> DEFINE t == Shows(u, th[k].item)
  <2> HIDE DEF u
  <2>1. /\ DOMAIN t = Fields
        /\ t.at = "close"
        /\ t.want = "OK"
        /\ t.shown = th[k].shown \cup {th[k].item}
        /\ \A f \in Fields \ {"at", "shown", "want"} : t[f] = th[k][f]
    BY <2>0, ShowsF DEF Fields
  <2>2. Works(k, th[k].fd, t)
    BY <1>6 DEF u
  <2> HIDE DEF t
  <2>3. /\ Changes(k, {"at", "met", "shown", "want"}) /\ th'[k].at = "close" /\ th'[k].want = "OK"
        /\ th'[k].shown = th[k].shown \cup {th[k].item} /\ Keeps /\ th[k].fd \in Opened
        /\ th'[k].met = th[k].met \cup Astray(k, th[k].fd)
    BY <2>1, <2>2, WorksF DEF Becomes, BecomesBut, Changes, Judges, Decides, Adds, Fields
  <2>4. QED
    BY <1>6, <2>3 DEF RequestWay6
<1>7. ASSUME Item(k) = "pin" /\ Astray(k, th[k].fd) = {}
             /\ Works(k, th[k].fd, Shows(Verdict(k, "OK"), th[k].item))
     PROVE  RequestWay7(k)
  <2> DEFINE t == Shows(Verdict(k, "OK"), th[k].item)
  <2>1. /\ DOMAIN t = Fields
        /\ t.shown = th[k].shown \cup {th[k].item}
        /\ t.items = Append(th[k].items, "OK")
        /\ t.item = th[k].item + 1
        /\ (t.result = CASE plan[k].test = "ln" -> IF "OK" = "NG" THEN "false" ELSE "true" [] plan[k].test = "baseinfo" -> "none" [] OTHER -> IF "OK" = "NG" THEN "false" ELSE th[k].result)
        /\ t.at = "device"
        /\ t.n = 0
        /\ t.try = 0
        /\ \A f \in Fields \ {"at", "item", "items", "n", "result", "shown", "try"} : t[f] = th[k][f]
    BY ShowsF, VerdictF DEF Fields
  <2>2. Works(k, th[k].fd, t)
    BY <1>7
  <2> HIDE DEF t
  <2>3. /\ Changes(k, {"at", "item", "items", "met", "n", "result", "shown", "try"})
        /\ Decides(k, "OK") /\ th'[k].shown = th[k].shown \cup {th[k].item} /\ Keeps
        /\ th[k].fd \in Opened /\ th'[k].met = th[k].met \cup Astray(k, th[k].fd)
    BY <2>1, <2>2, WorksF DEF Becomes, BecomesBut, Changes, Judges, Decides, Adds, Fields
  <2>4. QED
    BY <1>7, <2>3 DEF RequestWay7
<1>8. ASSUME Item(k) # "pin" /\ Astray(k, th[k].fd) # {}
             /\ Works(k, th[k].fd, [th[k] EXCEPT !.at = "close", !.want = "OK"])
     PROVE  RequestWay8(k)
  <2> DEFINE t == [th[k] EXCEPT !.at = "close", !.want = "OK"]
  <2>1. /\ DOMAIN t = Fields
        /\ t.at = "close"
        /\ t.want = "OK"
        /\ \A f \in Fields \ {"at", "want"} : t[f] = th[k][f]
    BY DEF Fields
  <2>2. Works(k, th[k].fd, t)
    BY <1>8
  <2> HIDE DEF t
  <2>3. QED
    BY <1>8, <2>1, <2>2, WorksF DEF RequestWay8, Becomes, BecomesBut, Changes, Fields
<1>9. ASSUME Item(k) = "pin" /\ Astray(k, th[k].fd) # {} /\ Works(k, th[k].fd, Verdict(k, "OK"))
     PROVE  RequestWay9(k)
  BY <1>9, WorksF, VerdictF DEF RequestWay9, Becomes, BecomesBut, Changes, Decides, Fields
<1>10. QED
  BY <1>0, <1>1, <1>2, <1>3, <1>4, <1>5, <1>6, <1>7, <1>8, <1>9 DEF Request, Done

LEMMA MisleadsView ==
  ASSUME NEW k \in DOMAIN th, DOMAIN th[k] = Fields, Misleads(k)
  PROVE  /\ At(k, "request")
         /\ MisleadsWay1(k) \/ MisleadsWay2(k)
<1>0. At(k, "request")
  BY DEF At, Misleads
<1>1. ASSUME Item(k) # "pin"
             /\ Works(k, th[k].fd, Meets([th[k] EXCEPT !.at = "close", !.want = "OK"], {"lookalike"}))
     PROVE  MisleadsWay1(k)
  <2> DEFINE u == [th[k] EXCEPT !.at = "close", !.want = "OK"]
  <2>0. /\ DOMAIN u = Fields
        /\ u.at = "close"
        /\ u.want = "OK"
        /\ \A f \in Fields \ {"at", "want"} : u[f] = th[k][f]
    BY DEF Fields
  <2> DEFINE t == Meets(u, {"lookalike"})
  <2> HIDE DEF u
  <2>1. /\ DOMAIN t = Fields
        /\ t.at = "close"
        /\ t.want = "OK"
        /\ t.met = th[k].met \cup {"lookalike"}
        /\ \A f \in Fields \ {"at", "met", "want"} : t[f] = th[k][f]
    BY <2>0, MeetsF DEF Fields
  <2>2. Works(k, th[k].fd, t)
    BY <1>1 DEF u
  <2> HIDE DEF t
  <2>3. QED
    BY <1>1, <2>1, <2>2, WorksF DEF MisleadsWay1, Becomes, BecomesBut, Changes, Fields
<1>2. ASSUME Item(k) = "pin" /\ Works(k, th[k].fd, Meets(Verdict(k, "OK"), {"lookalike"}))
     PROVE  MisleadsWay2(k)
  BY <1>2, WorksF, MeetsF, VerdictF DEF MisleadsWay2, Becomes, BecomesBut, Changes, Decides, Fields
<1>3. QED
  BY <1>0, <1>1, <1>2 DEF Misleads, Done

LEMMA ExportedView ==
  ASSUME NEW k \in DOMAIN th, DOMAIN th[k] = Fields, Exported(k)
  PROVE  /\ At(k, "access")
         /\ Changes(k, {"n"})
         /\ th'[k].n = 1
         /\ Keeps
<1>0. At(k, "access")
  BY DEF At, Exported
<1>1. ASSUME Local(k, [th[k] EXCEPT !.n = 1])
     PROVE  Changes(k, {"n"}) /\ th'[k].n = 1 /\ Keeps
  BY <1>1, LocalF DEF Becomes, BecomesBut, Changes, Judges, Decides, Adds, Fields
<1>2. QED
  BY <1>0, <1>1 DEF Exported

LEMMA RtcOpenView ==
  ASSUME NEW k \in DOMAIN th, DOMAIN th[k] = Fields, RtcOpen(k)
  PROVE  /\ At(k, "rtcOpen")
         /\ rtcFd' = th'[k].fd
         /\ clockBy' = clockBy
         /\ clockRaced' = IF RtcOthers(k) = {} THEN clockRaced ELSE clockRaced \cup RtcOthers(k) \cup {k}
         /\ RtcOpenWay1(k) \/ RtcOpenWay2(k)
<1>0. At(k, "rtcOpen") /\ rtcFd' = th'[k].fd /\ clockBy' = clockBy /\ (clockRaced' = IF RtcOthers(k) = {} THEN clockRaced ELSE clockRaced \cup RtcOthers(k) \cup {k})
  BY DEF At, RtcOpen
<1>1. ASSUME Opens(k, "rtc", To(th[k], "rtcSet"))
     PROVE  RtcOpenWay1(k)
  BY <1>1, OpensF, ToF DEF RtcOpenWay1, Becomes, BecomesBut, Changes, Fields
<1>2. ASSUME Misses(k, To(th[k], "rtcSet"))
     PROVE  RtcOpenWay2(k)
  BY <1>2, MissesF, ToF DEF RtcOpenWay2, Becomes, BecomesBut, Changes, Fields
<1>3. QED
  BY <1>0, <1>1, <1>2, OpenF DEF RtcOpen

LEMMA RtcSetView ==
  ASSUME NEW k \in DOMAIN th, DOMAIN th[k] = Fields, RtcSet(k)
  PROVE  /\ At(k, "rtcSet")
         /\ rtcFd' = rtcFd
         /\ clockRaced' = clockRaced
         /\ RtcSetWay1(k) \/ RtcSetWay2(k)
<1>0. At(k, "rtcSet") /\ rtcFd' = rtcFd /\ clockRaced' = clockRaced
  BY DEF At, RtcSet
<1>1. ASSUME Works(k, rtcFd, To(th[k], "rtcGet")) /\ clockBy' = k
     PROVE  RtcSetWay1(k)
  BY <1>1, WorksF, ToF DEF RtcSetWay1, Becomes, BecomesBut, Changes, Fields
<1>2. ASSUME FailsAndCloses(k, rtcFd, RtcAnswer(k, "NG")) /\ clockBy' = clockBy
     PROVE  RtcSetWay2(k)
  <2> DEFINE t == RtcAnswer(k, "NG")
  <2>1. /\ DOMAIN t = Fields
        /\ t.at = "send"
        /\ t.items = Append(th[k].items, "NG")
        /\ t.item = th[k].item + 1
        /\ t.result = "false"
        /\ \A f \in Fields \ {"at", "item", "items", "result"} : t[f] = th[k][f]
    BY ToF, JudgedF DEF Fields, RtcAnswer
  <2>2. FailsAndCloses(k, rtcFd, t)
    BY <1>2
  <2> HIDE DEF t
  <2>3. QED
    BY <1>2, <2>1, <2>2, FailsAndClosesF DEF RtcSetWay2, Becomes, BecomesBut, Changes, Judges, Fields
<1>3. QED
  BY <1>0, <1>1, <1>2 DEF RtcSet

LEMMA RtcGetView ==
  ASSUME NEW k \in DOMAIN th, DOMAIN th[k] = Fields, RtcGet(k)
  PROVE  /\ At(k, "rtcGet")
         /\ UNCHANGED rtcVars
         /\ RtcGetWay1(k) \/ RtcGetWay2(k) \/ RtcGetWay3(k) \/ RtcGetWay4(k)
<1>0. At(k, "rtcGet") /\ UNCHANGED rtcVars
  BY DEF At, RtcGet
<1>1. ASSUME clockBy = k /\ Works(k, rtcFd, Shows(RtcRead(k, TRUE), 1))
     PROVE  RtcGetWay1(k)
  <2> DEFINE u == RtcRead(k, TRUE)
  <2>0. /\ DOMAIN u = Fields
        /\ u.at = "rtcClose"
        /\ u.ok = TRUE
        /\ \A f \in Fields \ {"at", "ok"} : u[f] = th[k][f]
    BY DEF AddPort, RtcRead, Extended, Fields
  <2> DEFINE t == Shows(u, 1)
  <2> HIDE DEF u
  <2>1. /\ DOMAIN t = Fields
        /\ t.at = "rtcClose"
        /\ t.ok = TRUE
        /\ t.shown = th[k].shown \cup {1}
        /\ \A f \in Fields \ {"at", "ok", "shown"} : t[f] = th[k][f]
    BY <2>0, MeetsF, ShowsF DEF Fields
  <2>2. Works(k, rtcFd, t)
    BY <1>1 DEF u
  <2> HIDE DEF t
  <2>3. QED
    BY <1>1, <2>1, <2>2, WorksF DEF RtcGetWay1, Becomes, BecomesBut, Changes, Fields
<1>2. ASSUME clockBy # k /\ Works(k, rtcFd, RtcRead(k, TRUE))
     PROVE  RtcGetWay2(k)
  <2> DEFINE t == RtcRead(k, TRUE)
  <2>1. /\ DOMAIN t = Fields
        /\ t.at = "rtcClose"
        /\ t.ok = TRUE
        /\ \A f \in Fields \ {"at", "ok"} : t[f] = th[k][f]
    BY DEF RtcRead, Fields
  <2>2. Works(k, rtcFd, t)
    BY <1>2
  <2> HIDE DEF t
  <2>3. QED
    BY <1>2, <2>1, <2>2, WorksF DEF RtcGetWay2, Becomes, BecomesBut, Changes, Fields
<1>3. ASSUME Fails(k, rtcFd, RtcRead(k, FALSE))
     PROVE  RtcGetWay3(k)
  <2> DEFINE t == RtcRead(k, FALSE)
  <2>1. /\ DOMAIN t = Fields
        /\ t.at = "rtcClose"
        /\ t.ok = FALSE
        /\ \A f \in Fields \ {"at", "ok"} : t[f] = th[k][f]
    BY DEF RtcRead, Fields
  <2>2. Fails(k, rtcFd, t)
    BY <1>3
  <2> HIDE DEF t
  <2>3. QED
    BY <1>3, <2>1, <2>2, FailsF DEF RtcGetWay3, Becomes, BecomesBut, Changes, Fields
<1>4. ASSUME FailsAndCloses(k, rtcFd, RtcRead(k, FALSE))
     PROVE  RtcGetWay4(k)
  <2> DEFINE t == RtcRead(k, FALSE)
  <2>1. /\ DOMAIN t = Fields
        /\ t.at = "rtcClose"
        /\ t.ok = FALSE
        /\ \A f \in Fields \ {"at", "ok"} : t[f] = th[k][f]
    BY DEF RtcRead, Fields
  <2>2. FailsAndCloses(k, rtcFd, t)
    BY <1>4
  <2> HIDE DEF t
  <2>3. QED
    BY <1>4, <2>1, <2>2, FailsAndClosesF DEF RtcGetWay4, Becomes, BecomesBut, Changes, Fields
<1>5. QED
  BY <1>0, <1>1, <1>2, <1>3, <1>4 DEF RtcGet

LEMMA RtcCloseView ==
  ASSUME NEW k \in DOMAIN th, DOMAIN th[k] = Fields, RtcClose(k)
  PROVE  /\ At(k, "rtcClose")
         /\ UNCHANGED rtcVars
         /\ RtcCloseWay1(k) \/ RtcCloseWay2(k)
<1>0. At(k, "rtcClose") /\ UNCHANGED rtcVars
  BY DEF At, RtcClose
<1>1. ASSUME th[k].ok /\ Close(k, rtcFd, RtcAnswer(k, "OK"))
     PROVE  RtcCloseWay1(k)
  <2> DEFINE t == RtcAnswer(k, "OK")
  <2>1. /\ DOMAIN t = Fields
        /\ t.at = "send"
        /\ t.items = Append(th[k].items, "OK")
        /\ t.item = th[k].item + 1
        /\ (t.result = IF "OK" = "NG" THEN "false" ELSE th[k].result)
        /\ \A f \in Fields \ {"at", "item", "items", "result"} : t[f] = th[k][f]
    BY ToF, JudgedF DEF Fields, RtcAnswer
  <2>2. Close(k, rtcFd, t)
    BY <1>1
  <2> HIDE DEF t
  <2>3. QED
    BY <1>1, <2>1, <2>2, CloseF DEF RtcCloseWay1, Becomes, BecomesBut, Changes, Judges, Fields
<1>2. ASSUME ~th[k].ok /\ Close(k, rtcFd, RtcAnswer(k, "NG"))
     PROVE  RtcCloseWay2(k)
  <2> DEFINE t == RtcAnswer(k, "NG")
  <2>1. /\ DOMAIN t = Fields
        /\ t.at = "send"
        /\ t.items = Append(th[k].items, "NG")
        /\ t.item = th[k].item + 1
        /\ t.result = "false"
        /\ \A f \in Fields \ {"at", "item", "items", "result"} : t[f] = th[k][f]
    BY ToF, JudgedF DEF Fields, RtcAnswer
  <2>2. Close(k, rtcFd, t)
    BY <1>2
  <2> HIDE DEF t
  <2>3. QED
    BY <1>2, <2>1, <2>2, CloseF DEF RtcCloseWay2, Becomes, BecomesBut, Changes, Judges, Fields
<1>3. QED
  BY <1>0, <1>1, <1>2 DEF RtcClose

LEMMA WifiSpentView ==
  ASSUME NEW k \in DOMAIN th, DOMAIN th[k] = Fields, WifiSpent(k)
  PROVE  /\ At(k, "wifi")
         /\ scanCount = 0
         /\ scanCount' = -1
         /\ UNCHANGED wifiOnly
         /\ Changes(k, {"at", "item", "items", "met", "result"})
         /\ Judges(k, "NG")
         /\ th'[k].at = "send"
         /\ th'[k].met = th[k].met \cup {"spent"}
         /\ Keeps
<1>0. At(k, "wifi") /\ scanCount = 0 /\ scanCount' = -1 /\ UNCHANGED wifiOnly
  BY DEF At, WifiSpent
<1>1. ASSUME Local(k, Meets(RadioAnswer(k, "NG"), {"spent"}))
     PROVE  Changes(k, {"at", "item", "items", "met", "result"}) /\ Judges(k, "NG") /\
            th'[k].at = "send" /\ th'[k].met = th[k].met \cup {"spent"} /\ Keeps
  BY <1>1, LocalF, MeetsF, ToF, JudgedF DEF Becomes, BecomesBut, Changes, Judges, Decides, Adds, Fields,
   RadioAnswer
<1>2. QED
  BY <1>0, <1>1 DEF WifiSpent

LEMMA WifiScanView ==
  ASSUME NEW k \in DOMAIN th, DOMAIN th[k] = Fields, WifiScan(k)
  PROVE  /\ At(k, "wifi")
         /\ scanCount' \in {scanCount, scanCount - 1}
         /\ (scanCount' # scanCount => scanCount > 0)
         /\ UNCHANGED wifiOnly
         /\ WifiScanWay1(k) \/ WifiScanWay2(k)
<1>0. At(k, "wifi") /\ scanCount' \in {scanCount, scanCount - 1} /\ (scanCount' # scanCount => scanCount > 0) /\ UNCHANGED wifiOnly
  BY DEF At, WifiScan
<1>1. ASSUME Local(k, To(th[k], "wifiResults"))
     PROVE  WifiScanWay1(k)
  BY <1>1, LocalF, ToF DEF WifiScanWay1, Becomes, BecomesBut, Changes, Fields
<1>2. ASSUME Local(k, Meets(th[k], {"fault"}))
     PROVE  WifiScanWay2(k)
  BY <1>2, LocalF, MeetsF DEF WifiScanWay2, Becomes, BecomesBut, Changes, Fields
<1>3. QED
  BY <1>0, <1>1, <1>2 DEF WifiScan

LEMMA WifiResultsView ==
  ASSUME NEW k \in DOMAIN th, DOMAIN th[k] = Fields, WifiResults(k)
  PROVE  /\ At(k, "wifiResults")
         /\ UNCHANGED radioVars
         /\ WifiResultsWay1(k) \/ WifiResultsWay2(k) \/ WifiResultsWay3(k) \/ WifiResultsWay4(k)
<1>0. At(k, "wifiResults") /\ UNCHANGED radioVars
  BY DEF At, WifiResults
<1>1. ASSUME Local(k, Shows(RadioAnswer(k, "OK"), 1))
     PROVE  WifiResultsWay1(k)
  BY <1>1, LocalF, ShowsF, ToF, JudgedF DEF WifiResultsWay1, Becomes, BecomesBut, Changes, Judges, Fields,
   RadioAnswer
<1>2. ASSUME Local(k, Meets(RadioAnswer(k, "OK"), {"lookalike"}))
     PROVE  WifiResultsWay2(k)
  BY <1>2, LocalF, MeetsF, ToF, JudgedF DEF WifiResultsWay2, Becomes, BecomesBut, Changes, Judges, Fields,
   RadioAnswer
<1>3. ASSUME Local(k, Meets(To(th[k], "wifi"), {"fault"}))
     PROVE  WifiResultsWay3(k)
  BY <1>3, LocalF, MeetsF, ToF DEF WifiResultsWay3, Becomes, BecomesBut, Changes, Fields
<1>4. ASSUME Local(k, Meets(RadioAnswer(k, "NG"), {"fault"}))
     PROVE  WifiResultsWay4(k)
  BY <1>4, LocalF, MeetsF, ToF, JudgedF DEF WifiResultsWay4, Becomes, BecomesBut, Changes, Judges, Fields,
   RadioAnswer
<1>5. QED
  BY <1>0, <1>1, <1>2, <1>3, <1>4 DEF WifiResults

LEMMA BtFreeView ==
  ASSUME NEW k \in DOMAIN th, DOMAIN th[k] = Fields, BtFree(k)
  PROVE  /\ At(k, "bt")
         /\ scanCount' = scanCount
         /\ btDevices' = None
         /\ btCount' = -1
         /\ btRaced' = IF BtOthers(k) = {} THEN btRaced ELSE btRaced \cup BtOthers(k) \cup {k}
         /\ Changes(k, {"at"})
         /\ th'[k].at = "btOpen"
         /\ Keeps
<1>0. At(k, "bt") /\ scanCount' = scanCount /\ btDevices' = None /\ btCount' = -1 /\ (btRaced' = IF BtOthers(k) = {} THEN btRaced ELSE btRaced \cup BtOthers(k) \cup {k})
  BY DEF At, BtFree
<1>1. ASSUME Local(k, To(th[k], "btOpen"))
     PROVE  Changes(k, {"at"}) /\ th'[k].at = "btOpen" /\ Keeps
  BY <1>1, LocalF, ToF DEF Becomes, BecomesBut, Changes, Judges, Decides, Adds, Fields
<1>2. QED
  BY <1>0, <1>1 DEF BtFree

LEMMA BtOpenView ==
  ASSUME NEW k \in DOMAIN th, DOMAIN th[k] = Fields, BtOpen(k)
  PROVE  /\ At(k, "btOpen")
         /\ UNCHANGED radioVars
         /\ BtOpenWay1(k) \/ BtOpenWay2(k)
<1>0. At(k, "btOpen") /\ UNCHANGED radioVars
  BY DEF At, BtOpen
<1>1. ASSUME Opens(k, <<k, 1>>, To(th[k], "btInquiry"))
     PROVE  BtOpenWay1(k)
  BY <1>1, OpensF, ToF DEF BtOpenWay1, Becomes, BecomesBut, Changes, Fields
<1>2. ASSUME Misses(k, RadioAnswer(k, "NG"))
     PROVE  BtOpenWay2(k)
  BY <1>2, MissesF, ToF, JudgedF DEF BtOpenWay2, Becomes, BecomesBut, Changes, Judges, Fields, RadioAnswer
<1>3. QED
  BY <1>0, <1>1, <1>2, OpenF DEF BtOpen

LEMMA BtInquiryView ==
  ASSUME NEW k \in DOMAIN th, DOMAIN th[k] = Fields, BtInquiry(k)
  PROVE  /\ At(k, "btInquiry")
         /\ scanCount' = scanCount
         /\ btRaced' = btRaced
         /\ BtInquiryWay1(k) \/ BtInquiryWay2(k) \/ BtInquiryWay3(k)
<1>0. At(k, "btInquiry") /\ scanCount' = scanCount /\ btRaced' = btRaced
  BY DEF At, BtInquiry
<1>1. ASSUME FailsAndCloses(k, th[k].fd, RadioAnswer(k, "NG")) /\
            btCount' = btCount /\ btDevices' = btDevices
     PROVE  BtInquiryWay1(k)
  <2> DEFINE t == RadioAnswer(k, "NG")
  <2>1. /\ DOMAIN t = Fields
        /\ t.at = "send"
        /\ t.items = Append(th[k].items, "NG")
        /\ t.item = th[k].item + 1
        /\ t.result = "false"
        /\ \A f \in Fields \ {"at", "item", "items", "result"} : t[f] = th[k][f]
    BY ToF, JudgedF DEF Fields, RadioAnswer
  <2>2. FailsAndCloses(k, th[k].fd, t)
    BY <1>1
  <2> HIDE DEF t
  <2>3. QED
    BY <1>1, <2>1, <2>2, FailsAndClosesF DEF BtInquiryWay1, Becomes, BecomesBut, Changes, Judges, Fields
<1>2. ASSUME Close(k, th[k].fd, To(th[k], "btResult")) /\
            btCount' = 0 /\ btDevices' = btDevices
     PROVE  BtInquiryWay2(k)
  BY <1>2, ToF, CloseF DEF BtInquiryWay2, Becomes, BecomesBut, Changes, Fields
<1>3. ASSUME Works(k, th[k].fd, Shows(To(th[k], "btFill"), 1)) /\
            btCount' = 1 /\ btDevices' = k
     PROVE  BtInquiryWay3(k)
  BY <1>3, WorksF, ShowsF, ToF DEF BtInquiryWay3, Becomes, BecomesBut, Changes, Fields
<1>4. QED
  BY <1>0, <1>1, <1>2, <1>3 DEF BtInquiry

LEMMA BtFillView ==
  ASSUME NEW k \in DOMAIN th, DOMAIN th[k] = Fields, BtFill(k)
  PROVE  /\ At(k, "btFill")
         /\ UNCHANGED radioVars
         /\ Changes(k, {"at"})
         /\ th'[k].at = "btClose"
         /\ Keeps
<1>0. At(k, "btFill") /\ UNCHANGED radioVars
  BY DEF At, BtFill
<1>1. ASSUME Local(k, To(th[k], "btClose"))
     PROVE  Changes(k, {"at"}) /\ th'[k].at = "btClose" /\ Keeps
  BY <1>1, LocalF, ToF DEF Becomes, BecomesBut, Changes, Judges, Decides, Adds, Fields
<1>2. QED
  BY <1>0, <1>1 DEF BtFill

LEMMA BtCloseView ==
  ASSUME NEW k \in DOMAIN th, DOMAIN th[k] = Fields, BtClose(k)
  PROVE  /\ At(k, "btClose")
         /\ UNCHANGED radioVars
         /\ Changes(k, {"at", "met"})
         /\ th'[k].at = "btResult"
         /\ th'[k].met = th[k].met \cup Astray(k, th[k].fd)
         /\ Drop(th[k].fd)
<1>0. At(k, "btClose") /\ UNCHANGED radioVars
  BY DEF At, BtClose
<1>1. ASSUME Close(k, th[k].fd, To(th[k], "btResult"))
     PROVE  Changes(k, {"at", "met"}) /\ th'[k].at = "btResult" /\
            th'[k].met = th[k].met \cup Astray(k, th[k].fd) /\ Drop(th[k].fd)
  <2> DEFINE t == To(th[k], "btResult")
  <2>1. /\ DOMAIN t = Fields
        /\ t.at = "btResult"
        /\ \A f \in Fields \ {"at"} : t[f] = th[k][f]
    BY ToF DEF Fields
  <2>2. Close(k, th[k].fd, t)
    BY <1>1
  <2> HIDE DEF t
  <2>3. Changes(k, {"at", "met"}) /\ th'[k].at = "btResult" /\
        th'[k].met = th[k].met \cup Astray(k, th[k].fd) /\ Drop(th[k].fd)
    BY <2>1, <2>2, CloseF DEF Becomes, BecomesBut, Changes, Judges, Decides, Adds, Fields
  <2>4. QED
    BY <1>1, <2>3
<1>2. QED
  BY <1>0, <1>1 DEF BtClose

LEMMA BtResultView ==
  ASSUME NEW k \in DOMAIN th, DOMAIN th[k] = Fields, BtResult(k)
  PROVE  /\ At(k, "btResult")
         /\ UNCHANGED radioVars
         /\ BtResultWay1(k) \/ BtResultWay2(k)
<1>0. At(k, "btResult") /\ UNCHANGED radioVars
  BY DEF At, BtResult
<1>1. ASSUME btCount > 0 /\ Local(k, To(th[k], "btRead"))
     PROVE  BtResultWay1(k)
  BY <1>1, LocalF, ToF DEF BtResultWay1, Becomes, BecomesBut, Changes, Fields
<1>2. ASSUME ~(btCount > 0) /\ Local(k, To(th[k], "send"))
     PROVE  BtResultWay2(k)
  BY <1>2, LocalF, ToF DEF BtResultWay2, Becomes, BecomesBut, Changes, Fields
<1>3. QED
  BY <1>0, <1>1, <1>2 DEF BtResult

LEMMA BtReadView ==
  ASSUME NEW k \in DOMAIN th, DOMAIN th[k] = Fields, BtRead(k)
  PROVE  /\ At(k, "btRead")
         /\ UNCHANGED radioVars
         /\ btDevices # None
         /\ Changes(k, {"at", "item", "items", "result"})
         /\ Judges(k, "OK")
         /\ th'[k].at = "send"
         /\ Keeps
<1>0. At(k, "btRead") /\ UNCHANGED radioVars /\ btDevices # None
  BY DEF At, BtRead
<1>1. ASSUME Local(k, RadioAnswer(k, "OK"))
     PROVE  Changes(k, {"at", "item", "items", "result"}) /\ Judges(k, "OK") /\
            th'[k].at = "send" /\ Keeps
  BY <1>1, LocalF, ToF, JudgedF DEF Becomes, BecomesBut, Changes, Judges, Decides, Adds, Fields, RadioAnswer
<1>2. QED
  BY <1>0, <1>1 DEF BtRead

\* A frame that could not be sent.
LEMMA SendFailsView ==
  ASSUME NEW k \in DOMAIN th, DOMAIN th[k] = Fields, SendFails(k)
  PROVE  /\ At(k, "exchange") /\ Untested(k) # {} /\ UNCHANGED serialVars
         /\ Changes(k, {"met", "n", "send", "tested"})
         /\ th'[k].send = Unset(th[k].send, Pair(k)[1])
         /\ th'[k].n \in {0, th[k].n + 1} /\ th'[k].tested \subseteq th[k].tested \cup {Pair(k)}
         /\ th'[k].met = th[k].met \cup Blames(k, th[k].ports[Pair(k)[1]])
         /\ Keeps
<1> DEFINE u == [th[k] EXCEPT !.send[Pair(k)[1]] = FALSE]
           t == NextRound(k, u)
<1>1. /\ DOMAIN u = Fields /\ u.send = Unset(th[k].send, Pair(k)[1])
      /\ \A f \in Fields \ {"send"} : u[f] = th[k][f]
  BY DEF Fields, Unset
<1>2. At(k, "exchange") /\ Untested(k) # {} /\ UNCHANGED serialVars
      /\ Fails(k, th[k].ports[Pair(k)[1]], t)
  BY DEF SendFails
<1> HIDE DEF u
<1>3. /\ DOMAIN t = Fields /\ t.n \in {0, u.n + 1} /\ t.tested \subseteq u.tested \cup {Pair(k)}
      /\ \A f \in Fields \ {"n", "tested"} : t[f] = u[f]
  BY <1>1, NextRoundF
<1> HIDE DEF t
<1>4. /\ Changes(k, {"met", "n", "send", "tested"}) /\ th'[k].send = u.send
      /\ th'[k].n \in {0, th[k].n + 1} /\ th'[k].tested \subseteq th[k].tested \cup {Pair(k)}
      /\ th'[k].met = th[k].met \cup Blames(k, th[k].ports[Pair(k)[1]]) /\ Keeps
  BY <1>1, <1>2, <1>3, FailsF DEF BecomesBut, Changes, Fields
<1>5. QED
  BY <1>1, <1>2, <1>4

\* A frame that was sent: which ports heard it, and what the next one reads.
LEMMA ExchangeView ==
  ASSUME NEW k \in DOMAIN th, DOMAIN th[k] = Fields, Exchange(k)
  PROVE  /\ At(k, "exchange") /\ Untested(k) # {} /\ UNCHANGED serialVars
         /\ Changes(k, {"lost", "met", "n", "queue", "reached", "recv", "tested"})
         /\ th'[k].n \in {0, th[k].n + 1} /\ th'[k].tested \subseteq th[k].tested \cup {Pair(k)}
         /\ Keeps
         /\ th[k].ports[Pair(k)[1]] \in Opened
         /\ \E heard \in SUBSET (Usable(k) \ {Pair(k)[1]}) :
              /\ th'[k].queue = Left(k, heard)
              /\ th'[k].reached = th[k].reached \cup ({Pair(k)[2]} \cap heard)
              /\ th'[k].lost = th[k].lost \cup ({Pair(k)[2]} \ heard)
              /\ th'[k].recv = IF Expected(k, Came(k, heard)[Pair(k)[2]]) THEN th[k].recv
                               ELSE Unset(th[k].recv, Pair(k)[2])
              /\ th'[k].met = th[k].met \cup (Astray(k, th[k].ports[Pair(k)[2]]) \cup Deaf(k, heard))
                                \cup Astray(k, th[k].ports[Pair(k)[1]])
<1>1. At(k, "exchange") /\ Untested(k) # {} /\ UNCHANGED serialVars
  BY DEF Exchange
<1> DEFINE j == Pair(k)[2]
           T(h) == [th[k] EXCEPT !.queue = Left(k, h),
                                 !.reached = @ \cup ({j} \cap h), !.lost = @ \cup ({j} \ h)]
           U(h) == IF Expected(k, Came(k, h)[j]) THEN NextRound(k, T(h))
                   ELSE NextPair(k, [T(h) EXCEPT !.recv[j] = FALSE])
           M(h) == Astray(k, th[k].ports[j]) \cup Deaf(k, h)
<1>2. PICK heard \in SUBSET (Usable(k) \ {Pair(k)[1]}) :
         Works(k, th[k].ports[Pair(k)[1]], Meets(U(heard), M(heard)))
  BY DEF Exchange, Came, Left, Deaf
<1> DEFINE t == T(heard)
           v == [t EXCEPT !.recv[j] = FALSE]
           u == U(heard)
           w == Meets(u, M(heard))
<1>3. /\ DOMAIN t = Fields /\ t.queue = Left(k, heard)
      /\ t.reached = th[k].reached \cup ({j} \cap heard) /\ t.lost = th[k].lost \cup ({j} \ heard)
      /\ \A f \in Fields \ {"lost", "queue", "reached"} : t[f] = th[k][f]
  BY DEF Fields
<1>4. u = IF Expected(k, Came(k, heard)[j]) THEN NextRound(k, t) ELSE NextPair(k, v)
  OBVIOUS
<1>5. Works(k, th[k].ports[Pair(k)[1]], w)
  BY <1>2
<1> HIDE DEF T, t
<1>6. /\ DOMAIN v = Fields /\ v.recv = Unset(t.recv, j)
      /\ \A f \in Fields \ {"recv"} : v[f] = t[f]
  BY <1>3 DEF Fields, Unset
<1> HIDE DEF v, U, u
<1>7. /\ DOMAIN u = Fields /\ u.n \in {0, th[k].n + 1} /\ u.tested \subseteq th[k].tested \cup {Pair(k)}
      /\ u.recv = IF Expected(k, Came(k, heard)[j]) THEN th[k].recv ELSE Unset(th[k].recv, j)
      /\ \A f \in Fields \ {"n", "recv", "tested"} : u[f] = t[f]
  <2>1. CASE Expected(k, Came(k, heard)[j])
    <3>1. u = NextRound(k, t)
      BY <1>4, <2>1
    <3>2. QED
      BY <1>3, <2>1, <3>1, NextRoundF DEF Fields
  <2>2. CASE ~Expected(k, Came(k, heard)[j])
    <3>1. u = NextPair(k, v)
      BY <1>4, <2>2
    <3>2. /\ DOMAIN u = Fields /\ u.n = 0 /\ u.tested = v.tested \cup {Pair(k)}
          /\ \A f \in Fields \ {"n", "tested"} : u[f] = v[f]
      BY <1>6, <3>1, NextPairF
    <3>3. /\ u.recv = Unset(th[k].recv, j) /\ v.tested = th[k].tested
          /\ \A f \in Fields \ {"n", "recv", "tested"} : u[f] = t[f]
      BY <1>3, <1>6, <3>2 DEF Fields
    <3>4. QED
      BY <2>2, <3>2, <3>3 DEF Fields
  <2>3. QED
    BY <2>1, <2>2
<1>8. /\ DOMAIN w = Fields /\ w.met = u.met \cup M(heard)
      /\ \A f \in Fields \ {"met"} : w[f] = u[f]
  BY <1>7, MeetsF
<1> HIDE DEF w
<1>9. /\ Changes(k, {"lost", "met", "n", "queue", "reached", "recv", "tested"})
      /\ th'[k].n = u.n /\ th'[k].recv = u.recv /\ th'[k].queue = t.queue /\ th'[k].lost = t.lost
      /\ th'[k].reached = t.reached /\ th'[k].tested = u.tested
      /\ th'[k].met = w.met \cup Astray(k, th[k].ports[Pair(k)[1]]) /\ w.met = th[k].met \cup M(heard)
      /\ Keeps /\ th[k].ports[Pair(k)[1]] \in Opened
  BY <1>3, <1>5, <1>7, <1>8, WorksF DEF BecomesBut, Changes, Fields
<1>10. QED
  BY <1>1, <1>3, <1>7, <1>9

\* The number of an answer is read.
LEMMA SendNumberView ==
  ASSUME NEW k \in DOMAIN th, DOMAIN th[k] = Fields, SendNumber(k)
  PROVE  /\ At(k, "send") /\ UNCHANGED reportCmdIndex
         /\ crossed' = IF Senders(k) = {} THEN crossed ELSE crossed \cup Senders(k) \cup {k}
         /\ Changes(k, {"at", "n"}) /\ th'[k].at = "pack" /\ th'[k].n = reportCmdIndex /\ Keeps
<1> DEFINE t == [th[k] EXCEPT !.at = "pack", !.n = reportCmdIndex]
<1>1. /\ DOMAIN t = Fields /\ t.at = "pack" /\ t.n = reportCmdIndex
      /\ \A f \in Fields \ {"at", "n"} : t[f] = th[k][f]
  BY DEF Fields
<1>2. /\ At(k, "send") /\ UNCHANGED reportCmdIndex /\ Local(k, t)
      /\ crossed' = IF Senders(k) = {} THEN crossed ELSE crossed \cup Senders(k) \cup {k}
  BY DEF SendNumber, At
<1> HIDE DEF t
<1>3. QED
  BY <1>1, <1>2, LocalF DEF Becomes, Changes, Fields

\* The counter is written back and the frame is built.
LEMMA SendPackView ==
  ASSUME NEW k \in DOMAIN th, DOMAIN th[k] = Fields, SendPack(k)
  PROVE  /\ At(k, "pack") /\ UNCHANGED crossed /\ reportCmdIndex' = (th[k].n + 1) % Width
         /\ \/ /\ \E length \in Lengths : ContentLen(length) = 0
               /\ alive' = FALSE /\ UNCHANGED <<th, fds>>
            \/ /\ Changes(k, {"at", "try"}) /\ th'[k].at = "write" /\ th'[k].try \in Lengths /\ Keeps
               /\ UNCHANGED alive
<1>1. At(k, "pack") /\ UNCHANGED crossed /\ reportCmdIndex' = (th[k].n + 1) % Width
  BY DEF SendPack, At
<1>2. PICK length \in Lengths :
         IF ContentLen(length) = 0 THEN alive' = FALSE /\ UNCHANGED <<th, fds>>
         ELSE Local(k, [th[k] EXCEPT !.at = "write", !.try = length]) /\ UNCHANGED alive
  BY DEF SendPack
<1>3. CASE ContentLen(length) = 0
  BY <1>1, <1>2, <1>3
<1>4. CASE ContentLen(length) # 0
  <2> DEFINE t == [th[k] EXCEPT !.at = "write", !.try = length]
  <2>1. /\ DOMAIN t = Fields /\ t.at = "write" /\ t.try = length
        /\ \A f \in Fields \ {"at", "try"} : t[f] = th[k][f]
    BY DEF Fields
  <2>2. Local(k, t) /\ UNCHANGED alive
    BY <1>2, <1>4
  <2> HIDE DEF t
  <2>3. QED
    BY <1>1, <2>1, <2>2, LocalF DEF Becomes, Changes, Fields
<1>5. QED
  BY <1>3, <1>4

\* The frame is written.
LEMMA SendWriteView ==
  ASSUME NEW k \in DOMAIN th, DOMAIN th[k] = Fields, SendWrite(k)
  PROVE  /\ At(k, "write") /\ UNCHANGED <<reportCmdIndex, crossed, alive>>
         /\ Changes(k, {"at", "frame"}) /\ th'[k].at = "done" /\ Keeps
         /\ \E taken \in {TotalLen(th[k].try) \div 2, TotalLen(th[k].try)} :
              th'[k].frame = Frame(th[k].n, th[k].try, taken)
<1>1. At(k, "write") /\ UNCHANGED <<reportCmdIndex, crossed, alive>>
  BY DEF SendWrite, responderVars
<1>2. PICK taken \in {TotalLen(th[k].try) \div 2, TotalLen(th[k].try)} :
         Local(k, [th[k] EXCEPT !.at = "done", !.frame = Frame(th[k].n, th[k].try, taken)])
  BY DEF SendWrite
<1> DEFINE t == [th[k] EXCEPT !.at = "done", !.frame = Frame(th[k].n, th[k].try, taken)]
<1>3. /\ DOMAIN t = Fields /\ t.at = "done" /\ t.frame = Frame(th[k].n, th[k].try, taken)
      /\ \A f \in Fields \ {"at", "frame"} : t[f] = th[k][f]
  BY DEF Fields
<1>4. Local(k, t)
  BY <1>2
<1> HIDE DEF t
<1>5. /\ Changes(k, {"at", "frame"}) /\ th'[k].at = "done" /\ Keeps
      /\ th'[k].frame = Frame(th[k].n, th[k].try, taken)
  BY <1>3, <1>4, LocalF DEF Becomes, Changes, Fields
<1>6. QED
  BY <1>1, <1>5

-----------------------------------------------------------------------------
\* The items of a command, and the smallest of some numbers.
LEMMA PlanItems ==
  ASSUME plan \in Plan, NEW k \in DOMAIN plan
  PROVE  /\ plan[k] \in Commands
         /\ plan[k].items \in Seq(STRING) /\ Len(plan[k].items) \in Nat
         /\ DOMAIN plan[k].items = 1 .. Len(plan[k].items)
         /\ plan[k].test \in {"rtc", "wifi", "bluetooth"} => Len(plan[k].items) = 1
<1>1. plan \in Seq(Commands)
  BY PlanAssumption
<1>2. plan[k] \in Commands
  BY <1>1
<1>3. plan[k].items \in Seq(STRING)
  BY <1>2 DEF Commands
<1>4. QED
  BY <1>2, <1>3, PlanAssumption

\* A plan is finite, and shorter than the counter of answers is wide.
LEMMA PlanIndices ==
  ASSUME plan \in Plan
  PROVE  /\ DOMAIN plan = 1 .. Len(plan) /\ Len(plan) \in Nat /\ Len(plan) < Width
         /\ IsFiniteSet(DOMAIN plan) /\ Cardinality(DOMAIN plan) = Len(plan)
<1>1. plan \in Seq(Commands)
  BY PlanAssumption
<1>2. Len(plan) <= MaxPlan /\ MaxPlan \in 0 .. Width - 1
  BY PlanAssumption
<1>3. DOMAIN plan = 1 .. Len(plan) /\ Len(plan) \in Nat
  BY <1>1
<1> DEFINE n == Len(plan)
<1>4. n \in Nat
  BY <1>3
<1> HIDE DEF n
<1>5. IsFiniteSet(1 .. n) /\ Cardinality(1 .. n) = IF 1 > n THEN 0 ELSE n - 1 + 1
  BY <1>4, FS_Interval
<1>6. IsFiniteSet(1 .. n) /\ Cardinality(1 .. n) = n
  BY <1>4, <1>5
<1>7. n < Width
  BY <1>2, <1>4, ResponderAssumption DEF n
<1>8. QED
  BY <1>3, <1>6, <1>7 DEF n

\* A set of numbers has a least one.
LEMMA LeastIn ==
  ASSUME NEW S \in SUBSET Nat, S # {}
  PROVE  Least(S) \in S /\ \A m \in S : Least(S) <= m
<1>1. PICK x \in S : \A y \in S : ~ (<<y, x>> \in OpToRel(<, Nat))
  BY NatLessThanWellFounded, WFMin
<1>2. \A y \in S : x <= y
  <2>1. TAKE y \in S
  <2>2. y \in Nat /\ x \in Nat
    OBVIOUS
  <2>3. ~ (y < x)
    BY <1>1, <2>2 DEF OpToRel
  <2>4. QED
    BY <2>2, <2>3
<1>3. QED
  BY <1>2 DEF Least

\* The lowest free descriptor is free.
LEMMA LowestFree ==
  ASSUME DOMAIN fds = 0 .. MaxFd - 1, Opened # DOMAIN fds
  PROVE  Lowest \in DOMAIN fds \ Opened /\ Lowest \in 0 .. MaxFd - 1
<1>1. DOMAIN fds \ Opened \in SUBSET Nat /\ DOMAIN fds \ Opened # {}
  BY MaxFdAssumption DEF Opened
<1>2. QED
  BY <1>1, LeastIn DEF Lowest

\* Append, where the solver needs it spelled out.
LEMMA AppendSeq ==
  ASSUME NEW S, NEW s \in Seq(S), NEW e \in S
  PROVE  /\ Append(s, e) \in Seq(S) /\ Len(Append(s, e)) = Len(s) + 1 /\ Len(s) \in Nat
         /\ DOMAIN Append(s, e) = 1 .. Len(s) + 1 /\ DOMAIN s = 1 .. Len(s)
         /\ Append(s, e)[Len(s) + 1] = e /\ \A x \in DOMAIN s : Append(s, e)[x] = s[x]
  OBVIOUS

\* Which test a thread at a point of a test runs.
LEMMA TestAt ==
  ASSUME NEW k, th[k].at \in {"idle"} \cup Points(k) \cup Ends
  PROVE  /\ th[k].at \in SerialAt => plan[k].test = "serial" /\ Points(k) = SerialAt
         /\ th[k].at \in KeyAt => plan[k].test = "key" /\ Points(k) = KeyAt
         /\ th[k].at \in RtcAt => plan[k].test = "rtc" /\ Points(k) = RtcAt
         /\ th[k].at \in WifiAt => plan[k].test = "wifi" /\ Points(k) = WifiAt
         /\ th[k].at \in BtAt => plan[k].test = "bluetooth" /\ Points(k) = BtAt
         /\ th[k].at \in DeviceAt =>
              /\ plan[k].test \notin {"serial", "key", "rtc", "wifi", "bluetooth", "stop"}
              /\ Points(k) = DeviceAt
<1>1. CASE th[k].at \in {"idle"} \cup Ends
  BY <1>1 DEF Ends, SerialAt, KeyAt, RtcAt, WifiAt, BtAt, DeviceAt
<1>2. CASE th[k].at \in Points(k)
  BY <1>2 DEF Points, SerialAt, KeyAt, RtcAt, WifiAt, BtAt, DeviceAt
<1>3. QED
  BY <1>1, <1>2

\* The control of a thread within its test gives what is known of it.
LEMMA KnownOf ==
  ASSUME Shape, NEW k \in DOMAIN plan, Control(k), th[k].at \in Points(k), th[k].at \notin Ends
  PROVE  Known(k)
<1>1. /\ k \in DOMAIN th /\ DOMAIN th[k] = Fields /\ DOMAIN fds = 0 .. MaxFd - 1
      /\ plan[k].items \in Seq(STRING) /\ Len(plan[k].items) \in Nat
      /\ DOMAIN plan[k].items = 1 .. Len(plan[k].items)
  BY PlanItems DEF Shape
<1>2. th[k].frame = None
  BY DEF Control, ControlOf, Ends
<1>3. QED
  BY <1>1, <1>2 DEF Control, LocalsOf, ItemsOf, Known

\* Verdicts stay verdicts on items of the command.
LEMMA ItemsStep ==
  ASSUME NEW k \in DOMAIN plan, plan' = plan, Known(k),
         th'[k].shown \subseteq DOMAIN plan[k].items,
         Same(k) \/ Refilled(k) \/ (Ruled(k) /\ MoreItems(k) /\ plan[k].test # "key")
  PROVE  ItemsOf(k)'
<1>1. CASE Same(k)
  BY <1>1 DEF Same, Known, ItemsOf
<1>2. CASE Refilled(k)
  BY <1>2 DEF Refilled, Known, ItemsOf
<1>3. CASE Ruled(k) /\ MoreItems(k) /\ plan[k].test # "key"
  <2>1. PICK v \in Verdicts : Judges(k, v) \/ Decides(k, v)
    BY <1>3 DEF Ruled
  <2>2. /\ Append(th[k].items, v) \in Seq(Verdicts)
        /\ Len(Append(th[k].items, v)) = Len(th[k].items) + 1
    BY AppendSeq DEF Known
  <2>3. /\ th'[k].items = Append(th[k].items, v) /\ th'[k].item = th[k].item + 1
        /\ th'[k].result \in {"true", "false", "none"}
    BY <2>1 DEF Judges, Decides, Known
  <2>4. QED
    BY <1>3, <2>2, <2>3 DEF Known, MoreItems, ItemsOf
<1>4. QED
  BY <1>1, <1>2, <1>3

\* What makes the step of a test end where its place and its items agree.
LEMMA ControlFrom ==
  ASSUME NEW k \in DOMAIN plan, plan' = plan, Known(k), ControlOf(k)', th[k].at \notin Ends,
         th'[k].frame = th[k].frame, th'[k].at \notin {"idle", "pack", "write"},
         th'[k].at = "done" => plan[k].test = "key" \/ plan[k].items = <<>> \/ th[k].at = "idle",
         th'[k].line \in 0 .. 3, Ranged(k),
         th'[k].at = "name" => th'[k].n \in DOMAIN EventNodes, th'[k].at = "scan" => th'[k].n \in Nat \ {0},
         Same(k) \/ Refilled(k) \/ (Ruled(k) /\ MoreItems(k) /\ plan[k].test # "key")
  PROVE  Control(k)' /\ Quiet(k)
<1>1. LocalsOf(k)'
  BY DEF LocalsOf, Ranged
<1>2. ItemsOf(k)'
  BY ItemsStep DEF Ranged
<1>3. QED
  BY <1>1, <1>2 DEF Control, Quiet

\* A function on an interval is a sequence.
LEMMA SeqOf ==
  ASSUME NEW S, NEW n \in Nat, NEW f \in [1 .. n -> S]
  PROVE  f \in Seq(S) /\ Len(f) = n
  OBVIOUS

\* The verdicts on the keys of a line are as many as before.
LEMMA PassedSeq ==
  ASSUME NEW s \in Seq(Verdicts), NEW x
  PROVE  [s EXCEPT ![x] = "OK"] \in Seq(Verdicts) /\ Len([s EXCEPT ![x] = "OK"]) = Len(s)
<1>1. s \in [1 .. Len(s) -> Verdicts] /\ Len(s) \in Nat
  OBVIOUS
<1>2. [s EXCEPT ![x] = "OK"] \in [1 .. Len(s) -> Verdicts]
  BY <1>1 DEF Verdicts
<1>3. QED
  BY <1>1, <1>2, SeqOf

-----------------------------------------------------------------------------
(***************************************************************************)
(* The control of a test through each of its actions: the thread goes on   *)
(* to a point of its own test, with locals and verdicts that point can     *)
(* have; no answer is packed; and a verdict is given for the item in hand  *)
(* or none is given.                                                       *)
(***************************************************************************)
LEMMA SerialItemControl ==
  ASSUME Shape, NEW k \in DOMAIN plan, Control(k), plan' = plan, SerialItem(k)
  PROVE  Control(k)' /\ Quiet(k) /\ Turns(k) /\ Rules(k)
<1>1. th[k].at = "serial" /\ Points(k) = SerialAt /\ plan[k].test = "serial"
  BY TestAt DEF SerialItem, At, Control, ControlOf, SerialAt
<1>2. Known(k) /\ th[k].line = 0
  BY <1>1, KnownOf DEF Known, Control, ControlOf, LocalsOf, AtItem, AtLine, MoreItems, SerialAt, Ends
<1>3. /\ th'[k].frame = th[k].frame
      /\ \/ MoreItems(k) /\ th'[k].at \in {"openCan", "open"} /\ th'[k].line = th[k].line /\ Same(k)
         \/ MoreItems(k) /\ th'[k].at = "serial" /\ th'[k].line = th[k].line /\ Ruled(k)
         \/ ~MoreItems(k) /\ th'[k].at = "line" /\ th'[k].line = 1 /\ Same(k)
      /\ Ranged(k)
  <2> USE <1>1, <1>2 DEF Known, Same, Verdicts, Ranged
  <2>1. SerialItemWay1(k) \/ SerialItemWay2(k) \/ SerialItemWay3(k)
    BY SerialItemView
  <2>2. CASE SerialItemWay1(k)
    <3>1. (th'[k].at = IF Item(k) = "can" THEN "openCan" ELSE "open") /\
          th'[k].fd = th[k].fd /\ th'[k].try = 0 /\ th'[k].n = th[k].n /\
          th'[k].line = th[k].line /\ th'[k].item = th[k].item /\
          th'[k].items = th[k].items /\ th'[k].result = th[k].result /\
          th'[k].shown = th[k].shown /\ th'[k].frame = th[k].frame
      BY <2>2 DEF SerialItemWay1, Changes, Fields
    <3>2. QED
      BY <2>2, <3>1 DEF SerialItemWay1
  <2>3. CASE SerialItemWay2(k)
    <3>1. th'[k].at = th[k].at /\ th'[k].fd = th[k].fd /\ th'[k].try = th[k].try /\ th'[k].n = th[k].n /\
          th'[k].item = th[k].item + 1 /\
          (th'[k].items = Append(th[k].items, IF Item(k) = "off" THEN "SKIP" ELSE "none")) /\
          th'[k].result \in {"true", "false", "none"} /\ Aside(k)
      BY <2>3 DEF SerialItemWay2, Changes, Judges, Fields, Aside
    <3>2. QED
      BY <2>3, <3>1 DEF SerialItemWay2, Ruled, Judges, Aside
  <2>4. CASE SerialItemWay3(k)
    <3>1. th'[k].at = "line" /\ th'[k].fd = th[k].fd /\ th'[k].try = th[k].try /\ th'[k].n = th[k].n /\
          th'[k].line = 1 /\ th'[k].item = th[k].item /\ th'[k].items = th[k].items /\
          th'[k].result = th[k].result /\ th'[k].shown = th[k].shown /\ th'[k].frame = th[k].frame
      BY <2>4 DEF SerialItemWay3, Changes, Fields
    <3>2. QED
      BY <2>4, <3>1 DEF SerialItemWay3
  <2>5. QED
    BY <2>1, <2>2, <2>3, <2>4
<1>4. ControlOf(k)'
  <2> USE <1>1, <1>2, <1>3 DEF ControlOf, Known, Same, Ruled, Judges, Decides, Refilled, AtItem, AtLine,
   MoreItems, Ends, Points, SerialAt, KeyAt, RtcAt, WifiAt, BtAt, DeviceAt
  <2>1. CASE MoreItems(k) /\ th'[k].at = "openCan" /\ th'[k].line = th[k].line /\ Same(k)
    BY <2>1
  <2>2. CASE MoreItems(k) /\ th'[k].at = "open" /\ th'[k].line = th[k].line /\ Same(k)
    BY <2>2
  <2>3. CASE MoreItems(k) /\ th'[k].at = "serial" /\ th'[k].line = th[k].line /\ Ruled(k)
    BY <2>3
  <2>4. CASE ~MoreItems(k) /\ th'[k].at = "line" /\ th'[k].line = 1 /\ Same(k)
    BY <2>4
  <2>5. QED
    BY <1>1, <1>2, <1>3, <2>1, <2>2, <2>3, <2>4
<1>5. Turns(k)
  BY <1>2, SerialItemView DEF SerialItemWay1, SerialItemWay2, SerialItemWay3, Turns, Changes, Known, Drop
<1>6. QED
  BY <1>1, <1>2, <1>3, <1>4, <1>5, ControlFrom, SMTT(40) DEF Known, Ends, Rules

LEMMA SerialOpenControl ==
  ASSUME Shape, NEW k \in DOMAIN plan, Control(k), plan' = plan, SerialOpen(k)
  PROVE  Control(k)' /\ Quiet(k) /\ Turns(k) /\ Rules(k)
<1>1. th[k].at = "open" /\ Points(k) = SerialAt /\ plan[k].test = "serial"
  BY TestAt DEF SerialOpen, At, Control, ControlOf, SerialAt
<1>2. Known(k) /\ th[k].line \in {0, 1} /\ (th[k].line = 0 <=> MoreItems(k))
  BY <1>1, KnownOf DEF Known, Control, ControlOf, LocalsOf, AtItem, AtLine, MoreItems, SerialAt, Ends
<1>3. /\ th'[k].frame = th[k].frame /\ th'[k].line = th[k].line
      /\ \/ th'[k].at = "config" /\ Same(k)
         \/ th[k].line = 1 /\ th'[k].at = "lineOpen" /\ Same(k)
         \/ th[k].line = 0 /\ th'[k].at = "serial" /\ Ruled(k)
         \/ th[k].line = 0 /\ th'[k].at = "again" /\ Same(k)
      /\ Ranged(k)
  <2> USE <1>1, <1>2 DEF Known, Same, Verdicts, Ranged, Scores
  <2>1. SerialOpenWay1(k) \/ SerialOpenWay2(k) \/ SerialOpenWay3(k) \/ SerialOpenWay4(k) \/ SerialOpenWay5(k)
    BY SerialOpenView
  <2>2. CASE SerialOpenWay1(k)
    <3>1. th'[k].at = "config" /\ th'[k].fd = Lowest /\ th'[k].try = th[k].try /\ th'[k].n = th[k].n /\
          Rests(k)
      BY <2>2 DEF SerialOpenWay1, Changes, Fields, Rests
    <3>2. QED
      BY <2>2, <3>1, LowestFree DEF SerialOpenWay1, Takes, Rests
  <2>3. CASE SerialOpenWay2(k)
    <3>1. th'[k].at = "lineOpen" /\ th'[k].fd = -1 /\ th'[k].try = th[k].try /\ th'[k].n = th[k].n /\
          Rests(k)
      BY <2>3 DEF SerialOpenWay2, Changes, Fields, Rests
    <3>2. QED
      BY <2>3, <3>1, MaxFdAssumption DEF SerialOpenWay2, Rests
  <2>4. CASE SerialOpenWay3(k)
    <3>1. th'[k].at = "serial" /\ th'[k].fd = -1 /\ th'[k].try = th[k].try /\ th'[k].n = th[k].n /\
          Scores(k, "NG") /\ Aside(k)
      BY <2>4 DEF SerialOpenWay3, Changes, Judges, Fields, Aside
    <3>2. QED
      BY <2>4, <3>1, MaxFdAssumption DEF SerialOpenWay3, Ruled, Judges, Aside
  <2>5. CASE SerialOpenWay4(k)
    <3>1. th'[k].at = "again" /\ th'[k].fd = -1 /\ th'[k].try = th[k].try /\ th'[k].n = th[k].n /\ Rests(k)
      BY <2>5 DEF SerialOpenWay4, Changes, Fields, Rests
    <3>2. QED
      BY <2>5, <3>1, MaxFdAssumption DEF SerialOpenWay4, Rests
  <2>6. CASE SerialOpenWay5(k)
    <3>1. th'[k].at = "serial" /\ th'[k].fd = -1 /\ th'[k].try = th[k].try /\ th'[k].n = th[k].n /\
          Scores(k, "NG") /\ Aside(k)
      BY <2>6 DEF SerialOpenWay5, Changes, Judges, Fields, Aside
    <3>2. QED
      BY <2>6, <3>1, MaxFdAssumption DEF SerialOpenWay5, Ruled, Judges, Aside
  <2>7. QED
    BY <2>1, <2>2, <2>3, <2>4, <2>5, <2>6
<1>4. ControlOf(k)'
  <2> USE <1>1, <1>2, <1>3 DEF ControlOf, Known, Same, Ruled, Judges, Decides, Refilled, AtItem, AtLine,
   MoreItems, Ends, Points, SerialAt, KeyAt, RtcAt, WifiAt, BtAt, DeviceAt
  <2>1. CASE th'[k].at = "config" /\ Same(k)
    BY <2>1
  <2>2. CASE th[k].line = 1 /\ th'[k].at = "lineOpen" /\ Same(k)
    BY <2>2
  <2>3. CASE th[k].line = 0 /\ th'[k].at = "serial" /\ Ruled(k)
    BY <2>3
  <2>4. CASE th[k].line = 0 /\ th'[k].at = "again" /\ Same(k)
    BY <2>4
  <2>5. QED
    BY <1>1, <1>2, <1>3, <2>1, <2>2, <2>3, <2>4
<1>5. Turns(k)
  BY <1>2, SerialOpenView DEF SerialOpenWay1, SerialOpenWay2, SerialOpenWay3, SerialOpenWay4,
   SerialOpenWay5, Turns, Changes, Known, Drop
<1>6. QED
  BY <1>1, <1>2, <1>3, <1>4, <1>5, ControlFrom DEF Known, Ends, Rules

LEMMA SerialConfigControl ==
  ASSUME Shape, NEW k \in DOMAIN plan, Control(k), plan' = plan, SerialConfig(k)
  PROVE  Control(k)' /\ Quiet(k) /\ Turns(k) /\ Rules(k)
<1>1. th[k].at = "config" /\ Points(k) = SerialAt /\ plan[k].test = "serial"
  BY TestAt DEF SerialConfig, At, Control, ControlOf, SerialAt
<1>2. Known(k) /\ th[k].line \in {0, 1} /\ (th[k].line = 0 <=> MoreItems(k))
  BY <1>1, KnownOf DEF Known, Control, ControlOf, LocalsOf, AtItem, AtLine, MoreItems, SerialAt, Ends
<1>3. /\ th'[k].frame = th[k].frame /\ th'[k].line = th[k].line
      /\ \/ th[k].line = 1 /\ th'[k].at = "lineOpen" /\ Same(k)
         \/ th[k].line = 0 /\ th'[k].at \in {"echo", "probe", "again"} /\ Same(k)
         \/ th[k].line = 0 /\ th'[k].at = "serial" /\ Ruled(k)
      /\ Ranged(k)
  <2> USE <1>1, <1>2 DEF Known, Same, Verdicts, Ranged, Scores
  <2>1. SerialConfigWay1(k) \/ SerialConfigWay2(k) \/ SerialConfigWay3(k) \/ SerialConfigWay4(k) \/ SerialConfigWay5(k) \/ SerialConfigWay6(k)
    BY SerialConfigView
  <2>2. CASE SerialConfigWay1(k)
    <3>1. th'[k].at = "lineOpen" /\ th'[k].fd = serialFd /\ th'[k].try = th[k].try /\ th'[k].n = th[k].n /\
          Rests(k)
      BY <2>2 DEF SerialConfigWay1, Changes, Fields, Rests
    <3>2. QED
      BY <2>2, <3>1 DEF SerialConfigWay1, Opened, Rests
  <2>3. CASE SerialConfigWay2(k)
    <3>1. (th'[k].at = IF Item(k) = "232" THEN "echo" ELSE "probe") /\
          th'[k].fd = serialFd /\ th'[k].try = th[k].try /\ th'[k].n = 0 /\
          th'[k].line = th[k].line /\ th'[k].item = th[k].item /\
          th'[k].items = th[k].items /\ th'[k].result = th[k].result /\
          th'[k].shown = th[k].shown /\ th'[k].frame = th[k].frame
      BY <2>3 DEF SerialConfigWay2, Changes, Fields
    <3>2. QED
      BY <2>3, <3>1 DEF SerialConfigWay2, Opened
  <2>4. CASE SerialConfigWay3(k)
    <3>1. th'[k].at = "lineOpen" /\ th'[k].fd = -1 /\ th'[k].try = th[k].try /\ th'[k].n = th[k].n /\
          Rests(k)
      BY <2>4 DEF SerialConfigWay3, Changes, Fields, Rests
    <3>2. QED
      BY <2>4, <3>1, MaxFdAssumption DEF SerialConfigWay3, Rests
  <2>5. CASE SerialConfigWay4(k)
    <3>1. th'[k].at = "serial" /\ th'[k].fd = -1 /\ th'[k].try = th[k].try /\ th'[k].n = th[k].n /\
          Scores(k, "NG") /\ Aside(k)
      BY <2>5 DEF SerialConfigWay4, Changes, Judges, Fields, Aside
    <3>2. QED
      BY <2>5, <3>1, MaxFdAssumption DEF SerialConfigWay4, Ruled, Judges, Aside
  <2>6. CASE SerialConfigWay5(k)
    <3>1. th'[k].at = "again" /\ th'[k].fd = -1 /\ th'[k].try = th[k].try /\ th'[k].n = th[k].n /\ Rests(k)
      BY <2>6 DEF SerialConfigWay5, Changes, Fields, Rests
    <3>2. QED
      BY <2>6, <3>1, MaxFdAssumption DEF SerialConfigWay5, Rests
  <2>7. CASE SerialConfigWay6(k)
    <3>1. th'[k].at = "serial" /\ th'[k].fd = -1 /\ th'[k].try = th[k].try /\ th'[k].n = th[k].n /\
          Scores(k, "NG") /\ Aside(k)
      BY <2>7 DEF SerialConfigWay6, Changes, Judges, Fields, Aside
    <3>2. QED
      BY <2>7, <3>1, MaxFdAssumption DEF SerialConfigWay6, Ruled, Judges, Aside
  <2>8. QED
    BY <2>1, <2>2, <2>3, <2>4, <2>5, <2>6, <2>7
<1>4. ControlOf(k)'
  <2> USE <1>1, <1>2, <1>3 DEF ControlOf, Known, Same, Ruled, Judges, Decides, Refilled, AtItem, AtLine,
   MoreItems, Ends, Points, SerialAt, KeyAt, RtcAt, WifiAt, BtAt, DeviceAt
  <2>1. CASE th[k].line = 1 /\ th'[k].at = "lineOpen" /\ Same(k)
    BY <2>1
  <2>2. CASE th[k].line = 0 /\ th'[k].at = "echo" /\ Same(k)
    BY <2>2
  <2>3. CASE th[k].line = 0 /\ th'[k].at = "probe" /\ Same(k)
    BY <2>3
  <2>4. CASE th[k].line = 0 /\ th'[k].at = "again" /\ Same(k)
    BY <2>4
  <2>5. CASE th[k].line = 0 /\ th'[k].at = "serial" /\ Ruled(k)
    BY <2>5
  <2>6. QED
    BY <1>1, <1>2, <1>3, <2>1, <2>2, <2>3, <2>4, <2>5
<1>5. Turns(k)
  BY <1>2, SerialConfigView DEF SerialConfigWay1, SerialConfigWay2, SerialConfigWay3, SerialConfigWay4,
   SerialConfigWay5, SerialConfigWay6, Turns, Changes, Known, Drop
<1>6. QED
  BY <1>1, <1>2, <1>3, <1>4, <1>5, ControlFrom DEF Known, Ends, Rules

LEMMA EchoControl ==
  ASSUME Shape, NEW k \in DOMAIN plan, Control(k), plan' = plan, Echo(k)
  PROVE  Control(k)' /\ Quiet(k) /\ Turns(k) /\ Rules(k)
<1>1. th[k].at = "echo" /\ Points(k) = SerialAt /\ plan[k].test = "serial"
  BY TestAt DEF Echo, At, Control, ControlOf, SerialAt
<1>2. Known(k) /\ th[k].line = 0 /\ MoreItems(k)
  BY <1>1, KnownOf DEF Known, Control, ControlOf, LocalsOf, AtItem, AtLine, MoreItems, SerialAt, Ends
<1>3. /\ th'[k].frame = th[k].frame /\ Same(k) /\ th'[k].line = th[k].line
      /\ th'[k].at \in {"echo", "closePort"}
      /\ Ranged(k)
  <2> USE <1>1, <1>2 DEF Known, Same, Verdicts, Ranged
  <2>1. EchoWay1(k) \/ EchoWay2(k) \/ EchoWay3(k)
    BY EchoView
  <2>2. CASE EchoWay1(k)
    <3>1. th'[k].at = th[k].at /\ th'[k].fd = th[k].fd /\ th'[k].try = th[k].try /\ th'[k].n = th[k].n + 1 /\
          Rests(k)
      BY <2>2 DEF EchoWay1, Changes, Fields, Rests
    <3>2. QED
      BY <2>2, <3>1 DEF EchoWay1, Rests
  <2>3. CASE EchoWay2(k)
    <3>1. th'[k].at = "closePort" /\ th'[k].fd = th[k].fd /\ th'[k].try = th[k].try /\ th'[k].n = th[k].n /\
          th'[k].line = th[k].line /\ th'[k].item = th[k].item /\ th'[k].items = th[k].items /\
          th'[k].result = th[k].result /\ th'[k].shown = NowShown(k) /\ th'[k].frame = th[k].frame
      BY <2>3 DEF EchoWay2, Changes, Fields
    <3>2. QED
      BY <2>3, <3>1 DEF EchoWay2, NowShown, MoreItems
  <2>4. CASE EchoWay3(k)
    <3>1. th'[k].at = "closePort" /\ th'[k].fd = th[k].fd /\ th'[k].try = th[k].try /\ th'[k].n = th[k].n /\
          Rests(k)
      BY <2>4 DEF EchoWay3, Changes, Fields, Rests
    <3>2. QED
      BY <2>4, <3>1 DEF EchoWay3, Rests
  <2>5. QED
    BY <2>1, <2>2, <2>3, <2>4
<1>4. ControlOf(k)'
  BY <1>1, <1>2, <1>3 DEF ControlOf, Known, Same, Ruled, Judges, Decides, Refilled, AtItem, AtLine,
   MoreItems, Ends, Points, SerialAt, KeyAt, RtcAt, WifiAt, BtAt, DeviceAt
<1>5. Turns(k)
  BY <1>2, EchoView DEF EchoWay1, EchoWay2, EchoWay3, Turns, Changes, Known, Drop
<1>6. QED
  BY <1>1, <1>2, <1>3, <1>4, <1>5, ControlFrom DEF Known, Ends, Rules

LEMMA ClosePortControl ==
  ASSUME Shape, NEW k \in DOMAIN plan, Control(k), plan' = plan, ClosePort(k)
  PROVE  Control(k)' /\ Quiet(k) /\ Turns(k) /\ Rules(k)
<1>1. th[k].at = "closePort" /\ Points(k) = SerialAt /\ plan[k].test = "serial"
  BY TestAt DEF ClosePort, At, Control, ControlOf, SerialAt
<1>2. Known(k) /\ th[k].line = 0 /\ MoreItems(k)
  BY <1>1, KnownOf DEF Known, Control, ControlOf, LocalsOf, AtItem, AtLine, MoreItems, SerialAt, Ends
<1>3. /\ th'[k].frame = th[k].frame /\ th'[k].line = th[k].line
      /\ \/ th'[k].at = "serial" /\ Ruled(k)
         \/ th'[k].at = "again" /\ Same(k)
      /\ Ranged(k)
  <2> USE <1>1, <1>2 DEF Known, Same, Verdicts, Ranged, Scores
  <2>1. ClosePortWay1(k) \/ ClosePortWay2(k) \/ ClosePortWay3(k)
    BY ClosePortView
  <2>2. CASE ClosePortWay1(k)
    <3>1. th'[k].at = "serial" /\ th'[k].fd = -1 /\ th'[k].try = th[k].try /\ th'[k].n = th[k].n /\
          Scores(k, "OK") /\ Aside(k)
      BY <2>2 DEF ClosePortWay1, Changes, Judges, Fields, Aside
    <3>2. QED
      BY <2>2, <3>1, MaxFdAssumption DEF ClosePortWay1, Ruled, Judges, Aside
  <2>3. CASE ClosePortWay2(k)
    <3>1. th'[k].at = "again" /\ th'[k].fd = -1 /\ th'[k].try = th[k].try /\ th'[k].n = th[k].n /\ Rests(k)
      BY <2>3 DEF ClosePortWay2, Changes, Fields, Rests
    <3>2. QED
      BY <2>3, <3>1, MaxFdAssumption DEF ClosePortWay2, Rests
  <2>4. CASE ClosePortWay3(k)
    <3>1. th'[k].at = "serial" /\ th'[k].fd = -1 /\ th'[k].try = th[k].try /\ th'[k].n = th[k].n /\
          Scores(k, "NG") /\ Aside(k)
      BY <2>4 DEF ClosePortWay3, Changes, Judges, Fields, Aside
    <3>2. QED
      BY <2>4, <3>1, MaxFdAssumption DEF ClosePortWay3, Ruled, Judges, Aside
  <2>5. QED
    BY <2>1, <2>2, <2>3, <2>4
<1>4. ControlOf(k)'
  BY <1>1, <1>2, <1>3 DEF ControlOf, Known, Same, Ruled, Judges, Decides, Refilled, AtItem, AtLine,
   MoreItems, Ends, Points, SerialAt, KeyAt, RtcAt, WifiAt, BtAt, DeviceAt
<1>5. Turns(k)
  BY <1>2, ClosePortView DEF ClosePortWay1, ClosePortWay2, ClosePortWay3, Turns, Changes, Known, Drop
<1>6. QED
  BY <1>1, <1>2, <1>3, <1>4, <1>5, ControlFrom DEF Known, Ends, Rules

LEMMA OpenCanControl ==
  ASSUME Shape, NEW k \in DOMAIN plan, Control(k), plan' = plan, OpenCan(k)
  PROVE  Control(k)' /\ Quiet(k) /\ Turns(k) /\ Rules(k)
<1>1. th[k].at = "openCan" /\ Points(k) = SerialAt /\ plan[k].test = "serial"
  BY TestAt DEF OpenCan, At, Control, ControlOf, SerialAt
<1>2. Known(k) /\ th[k].line = 0 /\ MoreItems(k)
  BY <1>1, KnownOf DEF Known, Control, ControlOf, LocalsOf, AtItem, AtLine, MoreItems, SerialAt, Ends
<1>3. /\ th'[k].frame = th[k].frame /\ th'[k].line = th[k].line
      /\ \/ th'[k].at = "probe" /\ Same(k)
         \/ th'[k].at = "serial" /\ Ruled(k)
      /\ Ranged(k)
  <2> USE <1>1, <1>2 DEF Known, Same, Verdicts, Ranged, Scores
  <2>1. OpenCanWay1(k) \/ OpenCanWay2(k)
    BY OpenCanView
  <2>2. CASE OpenCanWay1(k)
    <3>1. th'[k].at = "probe" /\ th'[k].fd = Lowest /\ th'[k].try = th[k].try /\ th'[k].n = 0 /\ Rests(k)
      BY <2>2 DEF OpenCanWay1, Changes, Fields, Rests
    <3>2. QED
      BY <2>2, <3>1, LowestFree DEF OpenCanWay1, Takes, Rests
  <2>3. CASE OpenCanWay2(k)
    <3>1. th'[k].at = "serial" /\ th'[k].fd = -1 /\ th'[k].try = th[k].try /\ th'[k].n = th[k].n /\
          Scores(k, "NG") /\ Aside(k)
      BY <2>3 DEF OpenCanWay2, Changes, Judges, Fields, Aside
    <3>2. QED
      BY <2>3, <3>1, MaxFdAssumption DEF OpenCanWay2, Ruled, Judges, Aside
  <2>4. QED
    BY <2>1, <2>2, <2>3
<1>4. ControlOf(k)'
  BY <1>1, <1>2, <1>3 DEF ControlOf, Known, Same, Ruled, Judges, Decides, Refilled, AtItem, AtLine,
   MoreItems, Ends, Points, SerialAt, KeyAt, RtcAt, WifiAt, BtAt, DeviceAt
<1>5. Turns(k)
  BY <1>2, OpenCanView DEF OpenCanWay1, OpenCanWay2, Turns, Changes, Known, Drop
<1>6. QED
  BY <1>1, <1>2, <1>3, <1>4, <1>5, ControlFrom DEF Known, Ends, Rules

LEMMA CanTestControl ==
  ASSUME Shape, NEW k \in DOMAIN plan, Control(k), plan' = plan, CanTest(k)
  PROVE  Control(k)' /\ Quiet(k) /\ Turns(k) /\ Rules(k)
<1>1. th[k].at = "probe" /\ Points(k) = SerialAt /\ plan[k].test = "serial"
  BY TestAt DEF CanTest, At, Exchanges, Control, ControlOf, SerialAt
<1>2. Known(k) /\ th[k].line = 0 /\ MoreItems(k)
  BY <1>1, KnownOf DEF Known, Control, ControlOf, LocalsOf, AtItem, AtLine, MoreItems, SerialAt, Ends
<1>3. /\ th'[k].frame = th[k].frame /\ Same(k) /\ th'[k].line = th[k].line
      /\ th'[k].at \in {"closePort", "probe"}
      /\ Ranged(k)
  <2> USE <1>1, <1>2 DEF Known, Same, Verdicts, Ranged
  <2>1. CanTestWay1(k) \/ CanTestWay2(k) \/ CanTestWay3(k)
    BY CanTestView
  <2>2. CASE CanTestWay1(k)
    <3>1. th'[k].at = "closePort" /\ th'[k].fd = th[k].fd /\ th'[k].try = th[k].try /\ th'[k].n = th[k].n /\
          th'[k].line = th[k].line /\ th'[k].item = th[k].item /\ th'[k].items = th[k].items /\
          th'[k].result = th[k].result /\ th'[k].shown = NowShown(k) /\ th'[k].frame = th[k].frame
      BY <2>2 DEF CanTestWay1, Changes, Fields
    <3>2. QED
      BY <2>2, <3>1 DEF CanTestWay1, NowShown, MoreItems
  <2>3. CASE CanTestWay2(k)
    <3>1. th'[k].at = th[k].at /\ th'[k].fd = th[k].fd /\ th'[k].try = th[k].try /\ th'[k].n = th[k].n + 1 /\
          Rests(k)
      BY <2>3 DEF CanTestWay2, Changes, Fields, Rests
    <3>2. QED
      BY <2>3, <3>1 DEF CanTestWay2, Rests
  <2>4. CASE CanTestWay3(k)
    <3>1. th'[k].at = "closePort" /\ th'[k].fd = th[k].fd /\ th'[k].try = th[k].try /\ th'[k].n = th[k].n /\
          Rests(k)
      BY <2>4 DEF CanTestWay3, Changes, Fields, Rests
    <3>2. QED
      BY <2>4, <3>1 DEF CanTestWay3, Rests
  <2>5. QED
    BY <2>1, <2>2, <2>3, <2>4
<1>4. ControlOf(k)'
  BY <1>1, <1>2, <1>3 DEF ControlOf, Known, Same, Ruled, Judges, Decides, Refilled, AtItem, AtLine,
   MoreItems, Ends, Points, SerialAt, KeyAt, RtcAt, WifiAt, BtAt, DeviceAt
<1>5. Turns(k)
  BY <1>2, CanTestView DEF CanTestWay1, CanTestWay2, CanTestWay3, Turns, Changes, Known, Drop
<1>6. QED
  BY <1>1, <1>2, <1>3, <1>4, <1>5, ControlFrom DEF Known, Ends, Rules

LEMMA Rs485TestControl ==
  ASSUME Shape, NEW k \in DOMAIN plan, Control(k), plan' = plan, Rs485Test(k)
  PROVE  Control(k)' /\ Quiet(k) /\ Turns(k) /\ Rules(k)
<1>1. th[k].at = "probe" /\ Points(k) = SerialAt /\ plan[k].test = "serial"
  BY TestAt DEF Rs485Test, At, Exchanges, Control, ControlOf, SerialAt
<1>2. Known(k) /\ th[k].line = 0 /\ MoreItems(k)
  BY <1>1, KnownOf DEF Known, Control, ControlOf, LocalsOf, AtItem, AtLine, MoreItems, SerialAt, Ends
<1>3. /\ th'[k].frame = th[k].frame /\ Same(k) /\ th'[k].line = th[k].line
      /\ th'[k].at \in {"closePort", "probe"}
      /\ Ranged(k)
  <2> USE <1>1, <1>2 DEF Known, Same, Verdicts, Ranged
  <2>1. Rs485TestWay1(k) \/ Rs485TestWay2(k) \/ Rs485TestWay3(k) \/ Rs485TestWay4(k)
    BY Rs485TestView
  <2>2. CASE Rs485TestWay1(k)
    <3>1. th'[k].at = "closePort" /\ th'[k].fd = th[k].fd /\ th'[k].try = th[k].try /\ th'[k].n = th[k].n /\
          th'[k].line = th[k].line /\ th'[k].item = th[k].item /\ th'[k].items = th[k].items /\
          th'[k].result = th[k].result /\ th'[k].shown = NowShown(k) /\ th'[k].frame = th[k].frame
      BY <2>2 DEF Rs485TestWay1, Changes, Fields
    <3>2. QED
      BY <2>2, <3>1 DEF Rs485TestWay1, NowShown, MoreItems
  <2>3. CASE Rs485TestWay2(k)
    <3>1. th'[k].at = th[k].at /\ th'[k].fd = th[k].fd /\ th'[k].try = th[k].try /\ th'[k].n = th[k].n + 1 /\
          Rests(k)
      BY <2>3 DEF Rs485TestWay2, Changes, Fields, Rests
    <3>2. QED
      BY <2>3, <3>1 DEF Rs485TestWay2, Rests
  <2>4. CASE Rs485TestWay3(k)
    <3>1. th'[k].at = "closePort" /\ th'[k].fd = th[k].fd /\ th'[k].try = th[k].try /\ th'[k].n = th[k].n /\
          Rests(k)
      BY <2>4 DEF Rs485TestWay3, Changes, Fields, Rests
    <3>2. QED
      BY <2>4, <3>1 DEF Rs485TestWay3, Rests
  <2>5. CASE Rs485TestWay4(k)
    <3>1. th'[k].at = "closePort" /\ th'[k].fd = th[k].fd /\ th'[k].try = th[k].try /\ th'[k].n = th[k].n /\
          Rests(k)
      BY <2>5 DEF Rs485TestWay4, Changes, Fields, Rests
    <3>2. QED
      BY <2>5, <3>1 DEF Rs485TestWay4, Rests
  <2>6. QED
    BY <2>1, <2>2, <2>3, <2>4, <2>5
<1>4. ControlOf(k)'
  BY <1>1, <1>2, <1>3 DEF ControlOf, Known, Same, Ruled, Judges, Decides, Refilled, AtItem, AtLine,
   MoreItems, Ends, Points, SerialAt, KeyAt, RtcAt, WifiAt, BtAt, DeviceAt
<1>5. Turns(k)
  BY <1>2, Rs485TestView DEF Rs485TestWay1, Rs485TestWay2, Rs485TestWay3, Rs485TestWay4, Turns, Changes,
   Known, Drop
<1>6. QED
  BY <1>1, <1>2, <1>3, <1>4, <1>5, ControlFrom DEF Known, Ends, Rules

LEMMA LineBeginControl ==
  ASSUME Shape, NEW k \in DOMAIN plan, Control(k), plan' = plan, LineBegin(k)
  PROVE  Control(k)' /\ Quiet(k) /\ Turns(k) /\ Rules(k)
<1>1. th[k].at = "line" /\ Points(k) = SerialAt /\ plan[k].test = "serial"
  BY TestAt DEF LineBegin, At, Control, ControlOf, SerialAt
<1>2. Known(k) /\ th[k].line \in {1, 2, 3} /\ ~MoreItems(k)
  BY <1>1, KnownOf DEF Known, Control, ControlOf, LocalsOf, AtItem, AtLine, MoreItems, SerialAt, Ends
<1>3. /\ th[k].line <= 2 /\ th'[k].frame = th[k].frame /\ Same(k)
      /\ \/ th'[k].at = "line" /\ th'[k].line = th[k].line + 1
         \/ th'[k].at = "lineOpen" /\ th'[k].line = th[k].line
      /\ Ranged(k)
  <2> USE <1>1, <1>2 DEF Known, Same, Verdicts, Ranged
  <2>1. /\ th[k].line <= 2
        /\ (LineBeginWay1(k) \/ LineBeginWay2(k))
    BY LineBeginView
  <2>2. CASE LineBeginWay1(k)
    <3>1. th'[k].at = th[k].at /\ th'[k].fd = th[k].fd /\ th'[k].try = th[k].try /\ th'[k].n = th[k].n /\
          th'[k].line = th[k].line + 1 /\ th'[k].item = th[k].item /\ th'[k].items = th[k].items /\
          th'[k].result = th[k].result /\ th'[k].shown = th[k].shown /\ th'[k].frame = th[k].frame
      BY <2>2 DEF LineBeginWay1, Changes, Fields
    <3>2. QED
      BY <2>2, <2>1, <3>1 DEF LineBeginWay1
  <2>3. CASE LineBeginWay2(k)
    <3>1. th'[k].at = "lineOpen" /\ th'[k].fd = th[k].fd /\ th'[k].try = 0 /\ th'[k].n = 0 /\ Rests(k)
      BY <2>3 DEF LineBeginWay2, Changes, Fields, Rests
    <3>2. QED
      BY <2>3, <2>1, <3>1 DEF LineBeginWay2, Rests
  <2>4. QED
    BY <2>1, <2>2, <2>3
<1>4. ControlOf(k)'
  BY <1>1, <1>2, <1>3, SMTT(20) DEF ControlOf, Known, Same, Ruled, Judges, Decides, Refilled, AtItem,
   AtLine, MoreItems, Ends, Points, SerialAt, KeyAt, RtcAt, WifiAt, BtAt, DeviceAt
<1>5. Turns(k)
  BY <1>2, LineBeginView DEF LineBeginWay1, LineBeginWay2, Turns, Changes, Known, Drop
<1>6. QED
  BY <1>1, <1>2, <1>3, <1>4, <1>5, ControlFrom, SMTT(40) DEF Known, Ends, Rules

LEMMA SerialAnswerControl ==
  ASSUME Shape, NEW k \in DOMAIN plan, Control(k), plan' = plan, SerialAnswer(k)
  PROVE  Control(k)' /\ Quiet(k) /\ Turns(k) /\ Rules(k)
<1>1. th[k].at = "line" /\ Points(k) = SerialAt /\ plan[k].test = "serial"
  BY TestAt DEF SerialAnswer, At, Control, ControlOf, SerialAt
<1>2. Known(k) /\ th[k].line \in {1, 2, 3} /\ ~MoreItems(k)
  BY <1>1, KnownOf DEF Known, Control, ControlOf, LocalsOf, AtItem, AtLine, MoreItems, SerialAt, Ends
<1>3. /\ th[k].line = 3 /\ th'[k].frame = th[k].frame /\ Same(k) /\
         th'[k].line = th[k].line
      /\ th'[k].at = "send"
  BY <1>1, <1>2, SerialAnswerView DEF Changes, Same, Fields, Known
<1>4. Ranged(k)
  BY <1>1, <1>2, SerialAnswerView DEF Changes, Decides, Fields, Known, Takes, Opened, Ranged
<1>5. ControlOf(k)'
  BY <1>1, <1>2, <1>3, <1>4 DEF ControlOf, Known, Same, Ruled, Judges, Decides, Refilled, AtItem, AtLine,
   MoreItems, Ends, Points, SerialAt, KeyAt, RtcAt, WifiAt, BtAt, DeviceAt
<1>6. Turns(k)
  BY <1>2, SerialAnswerView DEF Turns, Changes, Known, Drop
<1>7. QED
  BY <1>1, <1>2, <1>3, <1>4, <1>5, <1>6, ControlFrom DEF Known, Ends, Rules

LEMMA LineOpenControl ==
  ASSUME Shape, NEW k \in DOMAIN plan, Control(k), plan' = plan, LineOpen(k)
  PROVE  Control(k)' /\ Quiet(k) /\ Turns(k) /\ Rules(k)
<1>1. th[k].at = "lineOpen" /\ Points(k) = SerialAt /\ plan[k].test = "serial"
  BY TestAt DEF LineOpen, At, Control, ControlOf, SerialAt
<1>2. Known(k) /\ th[k].line \in {1, 2} /\ ~MoreItems(k)
  BY <1>1, KnownOf DEF Known, Control, ControlOf, LocalsOf, AtItem, AtLine, MoreItems, SerialAt, Ends
<1>3. /\ th'[k].frame = th[k].frame /\ Same(k) /\ th'[k].line = th[k].line
      /\ \/ th'[k].at = "exchange"
         \/ th[k].line = 1 /\ th'[k].at = "open"
         \/ th[k].line # 1 /\ th'[k].at = "lineOpen"
      /\ Ranged(k)
  <2> USE <1>1, <1>2 DEF Known, Same, Verdicts, Ranged
  <2>1. LineOpenWay1(k) \/ LineOpenWay2(k) \/ LineOpenWay3(k) \/ LineOpenWay4(k) \/ LineOpenWay5(k)
    BY LineOpenView
  <2>2. CASE LineOpenWay1(k)
    <3>1. th'[k].at = "exchange" /\ th'[k].fd = th[k].fd /\ th'[k].try = th[k].try /\ th'[k].n = th[k].n /\
          Rests(k)
      BY <2>2 DEF LineOpenWay1, Changes, Fields, Rests
    <3>2. QED
      BY <2>2, <3>1 DEF LineOpenWay1, Rests
  <2>3. CASE LineOpenWay2(k)
    <3>1. th'[k].at = "open" /\ th'[k].fd = th[k].fd /\ th'[k].try = th[k].try /\ th'[k].n = th[k].n /\
          Rests(k)
      BY <2>3 DEF LineOpenWay2, Changes, Fields, Rests
    <3>2. QED
      BY <2>3, <3>1 DEF LineOpenWay2, Rests
  <2>4. CASE LineOpenWay3(k)
    <3>1. th'[k].at = "lineOpen" /\ th'[k].fd = Lowest /\ th'[k].try = th[k].try /\ th'[k].n = th[k].n /\
          Rests(k)
      BY <2>4 DEF LineOpenWay3, Changes, Fields, Rests
    <3>2. QED
      BY <2>4, <3>1, LowestFree DEF LineOpenWay3, Takes, Rests
  <2>5. CASE LineOpenWay4(k)
    <3>1. th'[k].at = "lineOpen" /\ th'[k].fd = Lowest /\ th'[k].try = th[k].try /\ th'[k].n = th[k].n /\
          Rests(k)
      BY <2>5 DEF LineOpenWay4, Changes, Fields, Rests
    <3>2. QED
      BY <2>5, <3>1, LowestFree DEF LineOpenWay4, Takes, Rests
  <2>6. CASE LineOpenWay5(k)
    <3>1. th'[k].at = "lineOpen" /\ th'[k].fd = -1 /\ th'[k].try = th[k].try /\ th'[k].n = th[k].n /\
          Rests(k)
      BY <2>6 DEF LineOpenWay5, Changes, Fields, Rests
    <3>2. QED
      BY <2>6, <3>1, MaxFdAssumption DEF LineOpenWay5, Rests
  <2>7. QED
    BY <2>1, <2>2, <2>3, <2>4, <2>5, <2>6
<1>4. ControlOf(k)'
  <2> USE <1>1, <1>2, <1>3 DEF ControlOf, Known, Same, Ruled, Judges, Decides, Refilled, AtItem, AtLine,
   MoreItems, Ends, Points, SerialAt, KeyAt, RtcAt, WifiAt, BtAt, DeviceAt
  <2>1. CASE th'[k].at = "exchange"
    BY <2>1
  <2>2. CASE th[k].line = 1 /\ th'[k].at = "open"
    BY <2>2
  <2>3. CASE th[k].line # 1 /\ th'[k].at = "lineOpen"
    BY <2>3
  <2>4. QED
    BY <1>1, <1>2, <1>3, <2>1, <2>2, <2>3
<1>5. Turns(k)
  BY <1>2, LineOpenView DEF LineOpenWay1, LineOpenWay2, LineOpenWay3, LineOpenWay4, LineOpenWay5, Turns,
   Changes, Known, Drop
<1>6. QED
  BY <1>1, <1>2, <1>3, <1>4, <1>5, ControlFrom DEF Known, Ends, Rules

LEMMA SerialRetryControl ==
  ASSUME Shape, NEW k \in DOMAIN plan, Control(k), plan' = plan, SerialRetry(k)
  PROVE  Control(k)' /\ Quiet(k) /\ Turns(k) /\ Rules(k)
<1>1. th[k].at = "again" /\ Points(k) = SerialAt /\ plan[k].test = "serial"
  BY TestAt DEF SerialRetry, At, Control, ControlOf, SerialAt
<1>2. Known(k) /\ th[k].line \in {0, 1, 2} /\ (th[k].line = 0 <=> MoreItems(k))
  BY <1>1, KnownOf DEF Known, Control, ControlOf, LocalsOf, AtItem, AtLine, MoreItems, SerialAt, Ends
<1>3. /\ th'[k].frame = th[k].frame /\ Same(k) /\ th'[k].line = th[k].line
      /\ (th'[k].at = IF th[k].line = 0 THEN "open" ELSE "lineOpen")
  BY <1>1, <1>2, SerialRetryView, SMTT(20) DEF Changes, Same, Fields, Known
<1>4. Ranged(k)
  BY <1>1, <1>2, SerialRetryView DEF Changes, Decides, Fields, Known, Takes, Opened, Ranged
<1>5. ControlOf(k)'
  BY <1>1, <1>2, <1>3, <1>4 DEF ControlOf, Known, Same, Ruled, Judges, Decides, Refilled, AtItem, AtLine,
   MoreItems, Ends, Points, SerialAt, KeyAt, RtcAt, WifiAt, BtAt, DeviceAt
<1>6. Turns(k)
  BY <1>2, SerialRetryView DEF Turns, Changes, Known, Drop
<1>7. QED
  BY <1>1, <1>2, <1>3, <1>4, <1>5, <1>6, ControlFrom DEF Known, Ends, Rules

LEMMA LineCloseControl ==
  ASSUME Shape, NEW k \in DOMAIN plan, Control(k), plan' = plan, LineClose(k)
  PROVE  Control(k)' /\ Quiet(k) /\ Turns(k)
<1>1. th[k].at = "exchange" /\ Points(k) = SerialAt /\ plan[k].test = "serial"
  BY TestAt DEF LineClose, At, Control, ControlOf, SerialAt
<1>2. Known(k) /\ th[k].line \in {1, 2} /\ ~MoreItems(k)
  BY <1>1, KnownOf DEF Known, Control, ControlOf, LocalsOf, AtItem, AtLine, MoreItems, SerialAt, Ends
<1>3. /\ th'[k].frame = th[k].frame
      /\ \/ th'[k].at = "line" /\ th'[k].line = th[k].line + 1 /\ Refilled(k)
         \/ th'[k].at = "again" /\ th'[k].line = th[k].line /\ Same(k)
      /\ Ranged(k)
  <2> USE <1>1, <1>2 DEF Known, Same, Verdicts, Ranged
  <2>1. LineCloseWay1(k) \/ LineCloseWay2(k)
    BY LineCloseView
  <2>2. CASE LineCloseWay1(k)
    <3>1. th'[k].at = "line" /\ th'[k].fd = th[k].fd /\ th'[k].try = th[k].try /\
          th'[k].n = th[k].n /\ th'[k].line = th[k].line + 1 /\
          th'[k].item = th[k].item /\ (th'[k].items = [y \in DOMAIN th[k].items |-> CASE y \notin OnLine(k) -> th[k].items[y]
                     [] y \in OnLine(k) /\ Passed(k, y) -> "OK" [] OTHER -> "NG"]) /\
            (th'[k].result = IF AllPassed(k) THEN th[k].result ELSE "false") /\
            th'[k].shown = th[k].shown \cup (OnLine(k) \cap (th[k].reached \ th[k].lost)) /\
            th'[k].frame = th[k].frame
      BY <2>2 DEF LineCloseWay1, Changes, Fields
    <3>2. th'[k].items \in [1 .. Len(th[k].items) -> Verdicts]
      BY <3>1
    <3>3. th'[k].items \in Seq(Verdicts) /\ Len(th'[k].items) = Len(th[k].items)
      BY <3>2, SeqOf
    <3>4. QED
      BY <2>2, <3>3, <3>1 DEF LineCloseWay1, Refilled, MoreItems, OnLine, Wanted
  <2>3. CASE LineCloseWay2(k)
    <3>1. th'[k].at = "again" /\ th'[k].fd = th[k].fd /\ th'[k].try = th[k].try /\ th'[k].n = 0 /\ Rests(k)
      BY <2>3 DEF LineCloseWay2, Changes, Fields, Rests
    <3>2. QED
      BY <2>3, <3>1 DEF LineCloseWay2, Rests
  <2>4. QED
    BY <2>1, <2>2, <2>3
<1>4. ControlOf(k)'
  <2> USE <1>1, <1>2, <1>3 DEF ControlOf, Known, Same, Ruled, Judges, Decides, Refilled, AtItem, AtLine,
   MoreItems, Ends, Points, SerialAt, KeyAt, RtcAt, WifiAt, BtAt, DeviceAt
  <2>1. CASE th'[k].at = "line" /\ th'[k].line = th[k].line + 1 /\ Refilled(k)
    BY <2>1
  <2>2. CASE th'[k].at = "again" /\ th'[k].line = th[k].line /\ Same(k)
    BY <2>2
  <2>3. QED
    BY <1>1, <1>2, <1>3, <2>1, <2>2
<1>5. Turns(k)
  BY <1>2, LineCloseView DEF LineCloseWay1, LineCloseWay2, Turns, Changes, Known, Drop
<1>6. QED
  BY <1>1, <1>2, <1>3, <1>4, <1>5, ControlFrom, SMTT(40) DEF Known, Ends

LEMMA KeyLoopControl ==
  ASSUME Shape, NEW k \in DOMAIN plan, Control(k), plan' = plan, KeyLoop(k)
  PROVE  Control(k)' /\ Quiet(k) /\ Turns(k) /\ Rules(k)
<1>1. th[k].at = "key" /\ Points(k) = KeyAt /\ plan[k].test = "key"
  BY TestAt DEF KeyLoop, At, Control, ControlOf, KeyAt
<1>2. Known(k)
  BY <1>1, KnownOf DEF KeyAt, Ends
<1>3. /\ th'[k].frame = th[k].frame /\ Same(k) /\ th'[k].line = th[k].line /\
         (th'[k].n \in Nat /\ (th'[k].at = "scan" => th'[k].n = 1))
      /\ th'[k].at \in {"done", "scan"}
  BY <1>1, <1>2, KeyLoopView DEF KeyLoopWay1, KeyLoopWay2, Changes, Same, Fields, Known
<1>4. Ranged(k)
  BY <1>1, <1>2, KeyLoopView DEF KeyLoopWay1, KeyLoopWay2, Changes, Fields, Known, Takes, Opened, Ranged
<1>5. ControlOf(k)'
  BY <1>1, <1>2, <1>3, <1>4 DEF ControlOf, Known, Same, Ruled, Judges, Decides, Refilled, AtItem, AtLine,
   MoreItems, Ends, Points, SerialAt, KeyAt, RtcAt, WifiAt, BtAt, DeviceAt
<1>6. Turns(k)
  BY <1>2, KeyLoopView DEF KeyLoopWay1, KeyLoopWay2, Turns, Changes, Known, Drop
<1>7. QED
  BY <1>1, <1>2, <1>3, <1>4, <1>5, <1>6, ControlFrom, SMTT(40) DEF Known, Ends, Rules

LEMMA ScanNodeControl ==
  ASSUME Shape, NEW k \in DOMAIN plan, Control(k), plan' = plan, ScanNode(k)
  PROVE  Control(k)' /\ Quiet(k) /\ Turns(k) /\ Rules(k)
<1>1. th[k].at = "scan" /\ Points(k) = KeyAt /\ plan[k].test = "key"
  BY TestAt DEF ScanNode, At, Control, ControlOf, KeyAt
<1>2. Known(k) /\ th[k].n \in Nat \ {0}
  BY <1>1, KnownOf DEF Known, Control, ControlOf, LocalsOf, AtItem, AtLine, MoreItems, KeyAt, Ends
<1>3. /\ th[k].n <= Len(EventNodes) /\ th'[k].frame = th[k].frame /\ Same(k) /\
         th'[k].line = th[k].line /\
         ((th'[k].at = "name" => th'[k].n = th[k].n) /\ (th'[k].at = "scan" => th'[k].n \in Nat \ {0}))
      /\ th'[k].at \in {"name", "scan"}
      /\ Ranged(k)
  <2> USE <1>1, <1>2 DEF Known, Same, Verdicts, Ranged
  <2>1. /\ th[k].n <= Len(EventNodes)
        /\ (ScanNodeWay1(k) \/ ScanNodeWay2(k))
    BY ScanNodeView
  <2>2. CASE ScanNodeWay1(k)
    <3>1. th'[k].at = "name" /\ th'[k].fd = Lowest /\ th'[k].try = th[k].try /\ th'[k].n = th[k].n /\
          Rests(k)
      BY <2>2 DEF ScanNodeWay1, Changes, Fields, Rests
    <3>2. QED
      BY <2>2, <2>1, <3>1, LowestFree DEF ScanNodeWay1, Takes, Rests
  <2>3. CASE ScanNodeWay2(k)
    <3>1. th'[k].at = "scan" /\ th'[k].fd = -1 /\ th'[k].try = th[k].try /\ th'[k].n = th[k].n + 1 /\
          Rests(k)
      BY <2>3 DEF ScanNodeWay2, Changes, Fields, Rests
    <3>2. QED
      BY <2>3, <2>1, <3>1, MaxFdAssumption DEF ScanNodeWay2, Rests
  <2>4. QED
    BY <2>1, <2>2, <2>3
<1>4. ControlOf(k)'
  BY <1>1, <1>2, <1>3 DEF ControlOf, Known, Same, Ruled, Judges, Decides, Refilled, AtItem, AtLine,
   MoreItems, Ends, Points, SerialAt, KeyAt, RtcAt, WifiAt, BtAt, DeviceAt
<1>5. Turns(k)
  BY <1>2, ScanNodeView DEF ScanNodeWay1, ScanNodeWay2, Turns, Changes, Known, Drop
<1>6. QED
  BY <1>1, <1>2, <1>3, KeyAssumption, <1>4, <1>5, ControlFrom, SMTT(40) DEF Known, Ends, Rules

LEMMA NodeNameControl ==
  ASSUME Shape, NEW k \in DOMAIN plan, Control(k), plan' = plan, NodeName(k)
  PROVE  Control(k)' /\ Quiet(k) /\ Turns(k) /\ Rules(k)
<1>1. th[k].at = "name" /\ Points(k) = KeyAt /\ plan[k].test = "key"
  BY TestAt DEF NodeName, At, Control, ControlOf, KeyAt
<1>2. Known(k) /\ th[k].n \in DOMAIN EventNodes
  BY <1>1, KnownOf DEF Known, Control, ControlOf, LocalsOf, AtItem, AtLine, MoreItems, KeyAt, Ends
<1>3. /\ th'[k].frame = th[k].frame /\ Same(k) /\ th'[k].line = th[k].line /\
         th'[k].n = th[k].n + 1
      /\ th'[k].at = "scan"
      /\ Ranged(k)
  <2> USE <1>1, <1>2 DEF Known, Same, Verdicts, Ranged
  <2>1. NodeNameWay1(k) \/ NodeNameWay2(k) \/ NodeNameWay3(k)
    BY NodeNameView
  <2>2. CASE NodeNameWay1(k)
    <3>1. th'[k].at = "scan" /\ th'[k].fd = th[k].fd /\ th'[k].try = th[k].try /\ th'[k].n = th[k].n + 1 /\
          Rests(k)
      BY <2>2 DEF NodeNameWay1, Changes, Fields, Rests
    <3>2. QED
      BY <2>2, <3>1 DEF NodeNameWay1, Rests
  <2>3. CASE NodeNameWay2(k)
    <3>1. th'[k].at = "scan" /\ th'[k].fd = th[k].fd /\ th'[k].try = th[k].try /\ th'[k].n = th[k].n + 1 /\
          Rests(k)
      BY <2>3 DEF NodeNameWay2, Changes, Fields, Rests
    <3>2. QED
      BY <2>3, <3>1 DEF NodeNameWay2, Rests
  <2>4. CASE NodeNameWay3(k)
    <3>1. th'[k].at = "scan" /\ th'[k].fd = th[k].fd /\ th'[k].try = th[k].try /\ th'[k].n = th[k].n + 1 /\
          Rests(k)
      BY <2>4 DEF NodeNameWay3, Changes, Fields, Rests
    <3>2. QED
      BY <2>4, <3>1 DEF NodeNameWay3, Rests
  <2>5. QED
    BY <2>1, <2>2, <2>3, <2>4
<1>4. ControlOf(k)'
  BY <1>1, <1>2, <1>3 DEF ControlOf, Known, Same, Ruled, Judges, Decides, Refilled, AtItem, AtLine,
   MoreItems, Ends, Points, SerialAt, KeyAt, RtcAt, WifiAt, BtAt, DeviceAt
<1>5. Turns(k)
  BY <1>2, NodeNameView DEF NodeNameWay1, NodeNameWay2, NodeNameWay3, Turns, Changes, Known, Drop
<1>6. QED
  BY <1>1, <1>2, <1>3, <1>4, <1>5, ControlFrom, SMTT(40) DEF Known, Ends, Rules

LEMMA ScanEndsControl ==
  ASSUME Shape, NEW k \in DOMAIN plan, Control(k), plan' = plan, ScanEnds(k)
  PROVE  Control(k)' /\ Quiet(k) /\ Turns(k) /\ Rules(k)
<1>1. th[k].at = "scan" /\ Points(k) = KeyAt /\ plan[k].test = "key"
  BY TestAt DEF ScanEnds, At, Control, ControlOf, KeyAt
<1>2. Known(k) /\ th[k].n \in Nat \ {0}
  BY <1>1, KnownOf DEF Known, Control, ControlOf, LocalsOf, AtItem, AtLine, MoreItems, KeyAt, Ends
<1>3. /\ th[k].n > Len(EventNodes) /\ th'[k].frame = th[k].frame /\ Same(k) /\
         th'[k].line = th[k].line
      /\ th'[k].at \in {"targets", "done"}
  BY <1>1, <1>2, ScanEndsView DEF ScanEndsWay1, ScanEndsWay2, Changes, Same, Fields, Known
<1>4. Ranged(k)
  BY <1>1, <1>2, ScanEndsView DEF ScanEndsWay1, ScanEndsWay2, Changes, Fields, Known, Takes, Opened, Ranged
<1>5. ControlOf(k)'
  BY <1>1, <1>2, <1>3, <1>4 DEF ControlOf, Known, Same, Ruled, Judges, Decides, Refilled, AtItem, AtLine,
   MoreItems, Ends, Points, SerialAt, KeyAt, RtcAt, WifiAt, BtAt, DeviceAt
<1>6. Turns(k)
  BY <1>2, ScanEndsView DEF ScanEndsWay1, ScanEndsWay2, Turns, Changes, Known, Drop
<1>7. QED
  BY <1>1, <1>2, <1>3, <1>4, <1>5, <1>6, ControlFrom DEF Known, Ends, Rules

LEMMA TargetOpenControl ==
  ASSUME Shape, NEW k \in DOMAIN plan, Control(k), plan' = plan, TargetOpen(k)
  PROVE  Control(k)' /\ Quiet(k) /\ Turns(k) /\ Rules(k)
<1>1. th[k].at = "targets" /\ Points(k) = KeyAt /\ plan[k].test = "key"
  BY TestAt DEF TargetOpen, At, Control, ControlOf, KeyAt
<1>2. Known(k)
  BY <1>1, KnownOf DEF KeyAt, Ends
<1>3. /\ th'[k].frame = th[k].frame /\ Same(k) /\ th'[k].line = th[k].line
      /\ th'[k].at = "targets"
      /\ Ranged(k)
  <2> USE <1>1, <1>2 DEF Known, Same, Verdicts, Ranged
  <2>1. TargetOpenWay1(k) \/ TargetOpenWay2(k)
    BY TargetOpenView
  <2>2. CASE TargetOpenWay1(k)
    <3>1. th'[k].at = th[k].at /\ th'[k].fd = Lowest /\ th'[k].try = th[k].try /\ th'[k].n = th[k].n /\
          Rests(k)
      BY <2>2 DEF TargetOpenWay1, Changes, Fields, Rests
    <3>2. QED
      BY <2>2, <3>1, LowestFree DEF TargetOpenWay1, Takes, Rests
  <2>3. CASE TargetOpenWay2(k)
    <3>1. th'[k].at = th[k].at /\ th'[k].fd = -1 /\ th'[k].try = th[k].try /\ th'[k].n = th[k].n /\ Rests(k)
      BY <2>3 DEF TargetOpenWay2, Changes, Fields, Rests
    <3>2. QED
      BY <2>3, <3>1, MaxFdAssumption DEF TargetOpenWay2, Rests
  <2>4. QED
    BY <2>1, <2>2, <2>3
<1>4. ControlOf(k)'
  BY <1>1, <1>2, <1>3 DEF ControlOf, Known, Same, Ruled, Judges, Decides, Refilled, AtItem, AtLine,
   MoreItems, Ends, Points, SerialAt, KeyAt, RtcAt, WifiAt, BtAt, DeviceAt
<1>5. Turns(k)
  BY <1>2, TargetOpenView DEF TargetOpenWay1, TargetOpenWay2, Turns, Changes, Known, Drop
<1>6. QED
  BY <1>1, <1>2, <1>3, <1>4, <1>5, ControlFrom DEF Known, Ends, Rules

LEMMA TargetsEndControl ==
  ASSUME Shape, NEW k \in DOMAIN plan, Control(k), plan' = plan, TargetsEnd(k)
  PROVE  Control(k)' /\ Quiet(k) /\ Turns(k) /\ Rules(k)
<1>1. th[k].at = "targets" /\ Points(k) = KeyAt /\ plan[k].test = "key"
  BY TestAt DEF TargetsEnd, At, Control, ControlOf, KeyAt
<1>2. Known(k)
  BY <1>1, KnownOf DEF KeyAt, Ends
<1>3. /\ th'[k].frame = th[k].frame /\ Same(k) /\ th'[k].line = th[k].line
      /\ th'[k].at \in {"done", "select"}
      /\ Ranged(k)
  <2> USE <1>1, <1>2 DEF Known, Same, Verdicts, Ranged
  <2>1. TargetsEndWay1(k) \/ TargetsEndWay2(k)
    BY TargetsEndView
  <2>2. CASE TargetsEndWay1(k)
    <3>1. th'[k].at = "done" /\ th'[k].fd = th[k].fd /\ th'[k].try = th[k].try /\ th'[k].n = th[k].n /\
          Rests(k)
      BY <2>2 DEF TargetsEndWay1, Changes, Fields, Rests
    <3>2. QED
      BY <2>2, <3>1 DEF TargetsEndWay1, Rests
  <2>3. CASE TargetsEndWay2(k)
    <3>1. th'[k].at = "select" /\ th'[k].fd = th[k].fd /\ th'[k].try = th[k].try /\ th'[k].n = th[k].n /\
          Rests(k)
      BY <2>3 DEF TargetsEndWay2, Changes, Fields, Rests
    <3>2. QED
      BY <2>3, <3>1 DEF TargetsEndWay2, Rests
  <2>4. QED
    BY <2>1, <2>2, <2>3
<1>4. ControlOf(k)'
  BY <1>1, <1>2, <1>3 DEF ControlOf, Known, Same, Ruled, Judges, Decides, Refilled, AtItem, AtLine,
   MoreItems, Ends, Points, SerialAt, KeyAt, RtcAt, WifiAt, BtAt, DeviceAt
<1>5. Turns(k)
  BY <1>2, TargetsEndView DEF TargetsEndWay1, TargetsEndWay2, Turns, Changes, Known, Drop
<1>6. QED
  BY <1>1, <1>2, <1>3, <1>4, <1>5, ControlFrom DEF Known, Ends, Rules

LEMMA KeyEventControl ==
  ASSUME Shape, NEW k \in DOMAIN plan, Control(k), plan' = plan, NEW x, KeyEvent(k, x)
  PROVE  Control(k)' /\ Quiet(k) /\ Turns(k)
<1>1. th[k].at = "select" /\ Points(k) = KeyAt /\ plan[k].test = "key"
  BY TestAt DEF KeyEvent, At, Control, ControlOf, KeyAt
<1>2. Known(k)
  BY <1>1, KnownOf DEF KeyAt, Ends
<1>3. /\ th'[k].frame = th[k].frame /\ th'[k].line = th[k].line
      /\ \/ th'[k].at = "key" /\ Same(k)
         \/ th'[k].at \in {"send", "key"} /\ Refilled(k)
      /\ Ranged(k)
  <2> DEFINE Way1 == /\ Changes(k, {"at", "met"})
                     /\ th'[k].at = "key"
                     /\ th'[k].met = th[k].met \cup UNION {Astray(k, n) : n \in Ports(k)}
                     /\ Drops(Ports(k))
             Way2 == /\ x \in Remaining(k)
                     /\ Changes(k, {"at", "items", "met", "shown"})
                     /\ th'[k].at = IF Remaining(k) = {x} THEN "send" ELSE "key"
                     /\ th'[k].items = [th[k].items EXCEPT ![x] = "OK"]
                     /\ th'[k].shown = th[k].shown \cup {x}
                     /\ th'[k].met = th[k].met \cup UNION {Astray(k, n) : n \in Ports(k)}
                     /\ Drops(Ports(k))
  <2>1. Way1 \/ Way2
    BY <1>2, KeyEventView DEF Known, Ranged
  <2>2. CASE Way1
    <3>1. th'[k].at = "key" /\ th'[k].fd = th[k].fd /\ th'[k].try = th[k].try /\ th'[k].n = th[k].n /\
          Rests(k)
      BY <2>2, <1>1, <1>2 DEF Changes, Judges, Decides, Known, Fields, Rests, Ranged
    <3>2. QED
      BY <2>2, <1>1, <1>2, <3>1 DEF Same, Known, Rests, Ranged
  <2>3. CASE Way2
    <3>1. (th'[k].at = IF Remaining(k) = {x} THEN "send" ELSE "key") /\
          th'[k].fd = th[k].fd /\ th'[k].try = th[k].try /\ th'[k].n = th[k].n /\
          th'[k].line = th[k].line /\ th'[k].item = th[k].item /\
          th'[k].items = [th[k].items EXCEPT ![x] = "OK"] /\
          th'[k].result = th[k].result /\ th'[k].shown = th[k].shown \cup {x} /\ th'[k].frame = th[k].frame
      BY <2>3, <1>1, <1>2 DEF Changes, Judges, Decides, Known, Fields, Ranged
    <3>3. th'[k].items \in Seq(Verdicts) /\ Len(th'[k].items) = Len(th[k].items)
      BY <1>2, <3>1, PassedSeq DEF Known, Ranged
    <3>4. QED
      BY <2>3, <1>1, <1>2, <3>3, <3>1 DEF Same, Refilled, MoreItems, OnLine, Wanted, Known, Ranged
  <2>4. QED
    BY <2>1, <2>2, <2>3
<1>4. ControlOf(k)'
  BY <1>1, <1>2, <1>3 DEF ControlOf, Known, Same, Ruled, Judges, Decides, Refilled, AtItem, AtLine,
   MoreItems, Ends, Points, SerialAt, KeyAt, RtcAt, WifiAt, BtAt, DeviceAt
<1>5. Turns(k)
  BY <1>2, KeyEventView DEF Turns, Changes, Known, Drop
<1>6. QED
  BY <1>1, <1>2, <1>3, <1>4, <1>5, ControlFrom DEF Known, Ends

LEMMA KeyTimeoutControl ==
  ASSUME Shape, NEW k \in DOMAIN plan, Control(k), plan' = plan, KeyTimeout(k)
  PROVE  Control(k)' /\ Quiet(k) /\ Turns(k) /\ Rules(k)
<1>1. th[k].at = "select" /\ Points(k) = KeyAt /\ plan[k].test = "key"
  BY TestAt DEF KeyTimeout, At, Control, ControlOf, KeyAt
<1>2. Known(k)
  BY <1>1, KnownOf DEF KeyAt, Ends
<1>3. /\ th'[k].frame = th[k].frame /\ Same(k) /\ th'[k].line = th[k].line
      /\ th'[k].at = "key"
  BY <1>1, <1>2, KeyTimeoutView DEF Changes, Same, Fields, Known
<1>4. Ranged(k)
  BY <1>1, <1>2, KeyTimeoutView DEF Changes, Decides, Fields, Known, Takes, Opened, Ranged
<1>5. ControlOf(k)'
  BY <1>1, <1>2, <1>3, <1>4 DEF ControlOf, Known, Same, Ruled, Judges, Decides, Refilled, AtItem, AtLine,
   MoreItems, Ends, Points, SerialAt, KeyAt, RtcAt, WifiAt, BtAt, DeviceAt
<1>6. Turns(k)
  BY <1>2, KeyTimeoutView DEF Turns, Changes, Known, Drop
<1>7. QED
  BY <1>1, <1>2, <1>3, <1>4, <1>5, <1>6, ControlFrom DEF Known, Ends, Rules

LEMMA KeyNoiseControl ==
  ASSUME Shape, NEW k \in DOMAIN plan, Control(k), plan' = plan, KeyNoise(k)
  PROVE  Control(k)' /\ Quiet(k) /\ Turns(k) /\ Rules(k)
<1>1. th[k].at = "select" /\ Points(k) = KeyAt /\ plan[k].test = "key"
  BY TestAt DEF KeyNoise, At, Control, ControlOf, KeyAt
<1>2. Known(k)
  BY <1>1, KnownOf DEF KeyAt, Ends
<1>3. /\ th'[k].frame = th[k].frame /\ Same(k) /\ th'[k].line = th[k].line
      /\ th'[k].at = "done"
  BY <1>1, <1>2, KeyNoiseView DEF Changes, Same, Fields, Known
<1>4. Ranged(k)
  BY <1>1, <1>2, KeyNoiseView DEF Changes, Decides, Fields, Known, Takes, Opened, Ranged
<1>5. ControlOf(k)'
  BY <1>1, <1>2, <1>3, <1>4 DEF ControlOf, Known, Same, Ruled, Judges, Decides, Refilled, AtItem, AtLine,
   MoreItems, Ends, Points, SerialAt, KeyAt, RtcAt, WifiAt, BtAt, DeviceAt
<1>6. Turns(k)
  BY <1>2, KeyNoiseView DEF Turns, Changes, Known, Drop
<1>7. QED
  BY <1>1, <1>2, <1>3, <1>4, <1>5, <1>6, ControlFrom DEF Known, Ends, Rules

LEMMA DeviceItemControl ==
  ASSUME Shape, NEW k \in DOMAIN plan, Control(k), plan' = plan, DeviceItem(k)
  PROVE  Control(k)' /\ Quiet(k) /\ Turns(k) /\ Rules(k)
<1>1. th[k].at = "device" /\ Points(k) = DeviceAt /\ plan[k].test \notin {"key", "serial", "rtc", "wifi", "bluetooth", "stop"}
  BY TestAt DEF DeviceItem, At, Control, ControlOf, DeviceAt
<1>2. Known(k)
  BY <1>1, KnownOf DEF DeviceAt, Ends
<1>3. /\ th'[k].frame = th[k].frame /\ th'[k].line = th[k].line
      /\ \/ MoreItems(k) /\ th'[k].at = "device" /\ Ruled(k)
         \/ MoreItems(k) /\ th'[k].at \in {"lamp", "access"} /\ Same(k)
      /\ Ranged(k)
  <2> USE <1>1, <1>2 DEF Known, Same, Verdicts, Ranged, Scores
  <2>1. /\ MoreItems(k)
        /\ (DeviceItemWay1(k) \/ DeviceItemWay2(k) \/ DeviceItemWay3(k) \/ DeviceItemWay4(k) \/ DeviceItemWay5(k))
    BY DeviceItemView
  <2>2. CASE DeviceItemWay1(k)
    <3>1. th'[k].at = "device" /\ th'[k].fd = th[k].fd /\ th'[k].try = 0 /\ th'[k].n = 0 /\ Scores(k, "SKIP") /\
          Aside(k)
      BY <2>2 DEF DeviceItemWay1, Changes, Decides, Fields, Aside
    <3>2. QED
      BY <2>2, <2>1, <3>1 DEF DeviceItemWay1, Ruled, Decides, Aside
  <2>3. CASE DeviceItemWay2(k)
    <3>1. th'[k].at = "device" /\ th'[k].fd = th[k].fd /\ th'[k].try = 0 /\ th'[k].n = 0 /\ Scores(k, "none") /\
          Aside(k)
      BY <2>3 DEF DeviceItemWay2, Changes, Decides, Fields, Aside
    <3>2. QED
      BY <2>3, <2>1, <3>1 DEF DeviceItemWay2, Ruled, Decides, Aside
  <2>4. CASE DeviceItemWay3(k)
    <3>1. th'[k].at = "device" /\ th'[k].fd = th[k].fd /\ th'[k].try = 0 /\ th'[k].n = 0 /\ Scores(k, "NG") /\
          Aside(k)
      BY <2>4 DEF DeviceItemWay3, Changes, Decides, Fields, Aside
    <3>2. QED
      BY <2>4, <2>1, <3>1 DEF DeviceItemWay3, Ruled, Decides, Aside
  <2>5. CASE DeviceItemWay4(k)
    <3>1. th'[k].at = "lamp" /\ th'[k].fd = th[k].fd /\ th'[k].try = th[k].try /\ th'[k].n = th[k].n /\
          Rests(k)
      BY <2>5 DEF DeviceItemWay4, Changes, Fields, Rests
    <3>2. QED
      BY <2>5, <2>1, <3>1 DEF DeviceItemWay4, Rests
  <2>6. CASE DeviceItemWay5(k)
    <3>1. th'[k].at = "access" /\ th'[k].fd = th[k].fd /\ th'[k].try = th[k].try /\ th'[k].n = th[k].n /\
          Rests(k)
      BY <2>6 DEF DeviceItemWay5, Changes, Fields, Rests
    <3>2. QED
      BY <2>6, <2>1, <3>1 DEF DeviceItemWay5, Rests
  <2>7. QED
    BY <2>1, <2>2, <2>3, <2>4, <2>5, <2>6
<1>4. ControlOf(k)'
  BY <1>1, <1>2, <1>3 DEF ControlOf, Known, Same, Ruled, Judges, Decides, Refilled, AtItem, AtLine,
   MoreItems, Ends, Points, SerialAt, KeyAt, RtcAt, WifiAt, BtAt, DeviceAt
<1>5. Turns(k)
  BY <1>2, DeviceItemView DEF DeviceItemWay1, DeviceItemWay2, DeviceItemWay3, DeviceItemWay4,
   DeviceItemWay5, Turns, Changes, Known, Drop
<1>6. QED
  BY <1>1, <1>2, <1>3, <1>4, <1>5, ControlFrom DEF Known, Ends, Rules

LEMMA DeviceEndsControl ==
  ASSUME Shape, NEW k \in DOMAIN plan, Control(k), plan' = plan, DeviceEnds(k)
  PROVE  Control(k)' /\ Quiet(k) /\ Turns(k) /\ Rules(k)
<1>1. th[k].at = "device" /\ Points(k) = DeviceAt /\ plan[k].test \notin {"key", "serial", "rtc", "wifi", "bluetooth", "stop"}
  BY TestAt DEF DeviceEnds, At, Control, ControlOf, DeviceAt
<1>2. Known(k)
  BY <1>1, KnownOf DEF DeviceAt, Ends
<1>3. /\ th'[k].frame = th[k].frame /\ Same(k) /\ th'[k].line = th[k].line
      /\ (th'[k].at = "done" /\ plan[k].items = <<>>) \/ th'[k].at = "send"
  <2>1. ((th'[k].at = "done" /\ plan[k].items = <<>>) \/ th'[k].at = "send") /\ Changes(k, {"at"})
    BY <1>2, DeviceEndsView, Zenon DEF DeviceEndsWay1, DeviceEndsWay2, Known
  <2>2. th'[k].frame = th[k].frame /\ Same(k) /\ th'[k].line = th[k].line
    BY <1>1, <1>2, <2>1 DEF Changes, Same, Fields, Known
  <2>3. QED
    BY <2>1, <2>2
<1>4. Ranged(k)
  BY <1>1, <1>2, DeviceEndsView DEF DeviceEndsWay1, DeviceEndsWay2, Changes, Fields, Known, Takes, Opened,
   Ranged
<1>5. ControlOf(k)'
  BY <1>1, <1>2, <1>3, <1>4 DEF ControlOf, Known, Same, Ruled, Judges, Decides, Refilled, AtItem, AtLine,
   MoreItems, Ends, Points, SerialAt, KeyAt, RtcAt, WifiAt, BtAt, DeviceAt
<1>6. Turns(k)
  BY <1>2, DeviceEndsView DEF DeviceEndsWay1, DeviceEndsWay2, Turns, Changes, Known, Drop
<1>7. QED
  BY <1>1, <1>2, <1>3, <1>4, <1>5, <1>6, ControlFrom DEF Known, Ends, Rules

LEMMA LampControl ==
  ASSUME Shape, NEW k \in DOMAIN plan, Control(k), plan' = plan, Lamp(k)
  PROVE  Control(k)' /\ Quiet(k) /\ Turns(k) /\ Rules(k)
<1>1. th[k].at = "lamp" /\ Points(k) = DeviceAt /\ plan[k].test \notin {"key", "serial", "rtc", "wifi", "bluetooth", "stop"}
  BY TestAt DEF Lamp, At, Control, ControlOf, DeviceAt
<1>2. Known(k) /\ MoreItems(k)
  BY <1>1, KnownOf DEF Known, Control, ControlOf, LocalsOf, AtItem, AtLine, MoreItems, DeviceAt, Ends
<1>3. /\ th'[k].frame = th[k].frame /\ Ruled(k) /\ th'[k].line = th[k].line
      /\ th'[k].at = "device"
      /\ Ranged(k)
  <2> USE <1>1, <1>2 DEF Known, Same, Verdicts, Ranged, Scores
  <2>1. LampWay1(k) \/ LampWay2(k)
    BY LampView
  <2>2. CASE LampWay1(k)
    <3>1. th'[k].at = "device" /\ th'[k].fd = th[k].fd /\ th'[k].try = 0 /\ th'[k].n = 0 /\
          th'[k].line = th[k].line /\ th'[k].item = th[k].item + 1 /\
          th'[k].items = Append(th[k].items, "OK") /\ th'[k].shown = th[k].shown \cup {th[k].item} /\
          th'[k].frame = th[k].frame /\ th'[k].result \in {"true", "false", "none"}
      BY <2>2 DEF LampWay1, Changes, Decides, Fields
    <3>2. QED
      BY <2>2, <3>1 DEF LampWay1, Ruled, Decides, MoreItems
  <2>3. CASE LampWay2(k)
    <3>1. th'[k].at = "device" /\ th'[k].fd = th[k].fd /\ th'[k].try = 0 /\ th'[k].n = 0 /\ Scores(k, "NG") /\
          Aside(k)
      BY <2>3 DEF LampWay2, Changes, Decides, Fields, Aside
    <3>2. QED
      BY <2>3, <3>1 DEF LampWay2, Ruled, Decides, Aside
  <2>4. QED
    BY <2>1, <2>2, <2>3
<1>4. ControlOf(k)'
  BY <1>1, <1>2, <1>3 DEF ControlOf, Known, Same, Ruled, Judges, Decides, Refilled, AtItem, AtLine,
   MoreItems, Ends, Points, SerialAt, KeyAt, RtcAt, WifiAt, BtAt, DeviceAt
<1>5. Turns(k)
  BY <1>2, LampView DEF LampWay1, LampWay2, Turns, Changes, Known, Drop
<1>6. QED
  BY <1>1, <1>2, <1>3, <1>4, <1>5, ControlFrom DEF Known, Ends, Rules

LEMMA AccessOpenControl ==
  ASSUME Shape, NEW k \in DOMAIN plan, Control(k), plan' = plan, AccessOpen(k)
  PROVE  Control(k)' /\ Quiet(k) /\ Turns(k) /\ Rules(k)
<1>1. th[k].at = "access" /\ Points(k) = DeviceAt /\ plan[k].test \notin {"key", "serial", "rtc", "wifi", "bluetooth", "stop"}
  BY TestAt DEF AccessOpen, At, Control, ControlOf, DeviceAt
<1>2. Known(k) /\ MoreItems(k)
  BY <1>1, KnownOf DEF Known, Control, ControlOf, LocalsOf, AtItem, AtLine, MoreItems, DeviceAt, Ends
<1>3. /\ th'[k].frame = th[k].frame /\ th'[k].line = th[k].line
      /\ \/ th'[k].at = "request" /\ Same(k)
         \/ th'[k].at = "device" /\ Ruled(k)
      /\ Ranged(k)
  <2> USE <1>1, <1>2 DEF Known, Same, Verdicts, Ranged, Scores
  <2>1. AccessOpenWay1(k) \/ AccessOpenWay2(k)
    BY AccessOpenView
  <2>2. CASE AccessOpenWay1(k)
    <3>1. th'[k].at = "request" /\ th'[k].fd = Lowest /\ th'[k].try = 0 /\ th'[k].n = th[k].n /\ Rests(k)
      BY <2>2 DEF AccessOpenWay1, Changes, Fields, Rests
    <3>2. QED
      BY <2>2, <3>1, LowestFree DEF AccessOpenWay1, Takes, Rests
  <2>3. CASE AccessOpenWay2(k)
    <3>1. th'[k].at = "device" /\ th'[k].fd = -1 /\ th'[k].try = 0 /\ th'[k].n = 0 /\ Scores(k, "NG") /\
          Aside(k)
      BY <2>3 DEF AccessOpenWay2, Changes, Decides, Fields, Aside
    <3>2. QED
      BY <2>3, <3>1, MaxFdAssumption DEF AccessOpenWay2, Ruled, Decides, Aside
  <2>4. QED
    BY <2>1, <2>2, <2>3
<1>4. ControlOf(k)'
  BY <1>1, <1>2, <1>3 DEF ControlOf, Known, Same, Ruled, Judges, Decides, Refilled, AtItem, AtLine,
   MoreItems, Ends, Points, SerialAt, KeyAt, RtcAt, WifiAt, BtAt, DeviceAt
<1>5. Turns(k)
  BY <1>2, AccessOpenView DEF AccessOpenWay1, AccessOpenWay2, Turns, Changes, Known, Drop
<1>6. QED
  BY <1>1, <1>2, <1>3, <1>4, <1>5, ControlFrom DEF Known, Ends, Rules

LEMMA AccessCloseControl ==
  ASSUME Shape, NEW k \in DOMAIN plan, Control(k), plan' = plan, AccessClose(k)
  PROVE  Control(k)' /\ Quiet(k) /\ Turns(k) /\ Rules(k)
<1>1. th[k].at = "close" /\ Points(k) = DeviceAt /\ plan[k].test \notin {"key", "serial", "rtc", "wifi", "bluetooth", "stop"}
  BY TestAt DEF AccessClose, At, Control, ControlOf, DeviceAt
<1>2. Known(k) /\ MoreItems(k) /\ th[k].want \in {"next", "OK", "NG"}
  BY <1>1, KnownOf DEF Known, Control, ControlOf, LocalsOf, AtItem, AtLine, MoreItems, DeviceAt, Ends
<1>3. /\ th'[k].frame = th[k].frame /\ th'[k].line = th[k].line
      /\ \/ th[k].want = "next" /\ th'[k].at = "access" /\ Same(k)
         \/ th[k].want # "next" /\ th'[k].at = "device" /\ Ruled(k)
      /\ Ranged(k)
  <2> USE <1>1, <1>2 DEF Known, Same, Verdicts, Ranged, Scores
  <2>1. AccessCloseWay1(k) \/ AccessCloseWay2(k)
    BY AccessCloseView
  <2>2. CASE AccessCloseWay1(k)
    <3>1. th'[k].at = "access" /\ th'[k].fd = th[k].fd /\ th'[k].try = th[k].try /\ th'[k].n = th[k].n + 1 /\
          Rests(k)
      BY <2>2 DEF AccessCloseWay1, Changes, Fields, Rests
    <3>2. Ranged(k)
      BY <3>1 DEF Rests
    <3>3. QED
      BY <2>2, <3>1, <3>2 DEF AccessCloseWay1, Rests
  <2>3. CASE AccessCloseWay2(k)
    <3>1. th'[k].at = "device" /\ th'[k].fd = th[k].fd /\ th'[k].try = 0 /\ th'[k].n = 0 /\
          Scores(k, th[k].want) /\ Aside(k)
      BY <2>3 DEF AccessCloseWay2, Changes, Decides, Fields, Aside
    <3>2. QED
      BY <2>3, <3>1 DEF AccessCloseWay2, Ruled, Decides, Aside
  <2>4. QED
    BY <2>1, <2>2, <2>3
<1>4. ControlOf(k)'
  BY <1>1, <1>2, <1>3 DEF ControlOf, Known, Same, Ruled, Judges, Decides, Refilled, AtItem, AtLine,
   MoreItems, Ends, Points, SerialAt, KeyAt, RtcAt, WifiAt, BtAt, DeviceAt
<1>5. Turns(k)
  BY <1>2, AccessCloseView DEF AccessCloseWay1, AccessCloseWay2, Turns, Changes, Known, Drop
<1>6. QED
  BY <1>1, <1>2, <1>3, <1>4, <1>5, ControlFrom DEF Known, Ends, Rules

LEMMA RequestControl ==
  ASSUME Shape, NEW k \in DOMAIN plan, Control(k), plan' = plan, NEW accesses, NEW requests, Request(k, accesses, requests)
  PROVE  Control(k)' /\ Quiet(k) /\ Turns(k) /\ Rules(k)
<1>1. th[k].at = "request" /\ Points(k) = DeviceAt /\ plan[k].test \notin {"key", "serial", "rtc", "wifi", "bluetooth", "stop"}
  BY TestAt DEF Request, At, Control, ControlOf, DeviceAt
<1>2. Known(k) /\ MoreItems(k)
  BY <1>1, KnownOf DEF Known, Control, ControlOf, LocalsOf, AtItem, AtLine, MoreItems, DeviceAt, Ends
<1>3. /\ th'[k].frame = th[k].frame /\ th'[k].line = th[k].line
      /\ \/ th'[k].at \in {"close", "request", "access"} /\ ((th'[k].at = "close" => th'[k].want \in {"next", "OK", "NG"})) /\ Same(k)
         \/ th'[k].at = "device" /\ Ruled(k)
      /\ Ranged(k)
  <2> USE <1>1, <1>2 DEF Known, Same, Verdicts, Ranged, Scores
  <2>1. RequestWay1(k) \/ RequestWay2(k) \/ RequestWay3(k) \/ RequestWay4(k) \/ RequestWay5(k) \/ RequestWay6(k) \/ RequestWay7(k) \/ RequestWay8(k) \/ RequestWay9(k)
    BY RequestView
  <2>2. CASE RequestWay1(k)
    <3>1. th'[k].at = "close" /\ th'[k].fd = th[k].fd /\ th'[k].try = th[k].try /\ th'[k].n = th[k].n /\
          th'[k].want = "NG" /\ Rests(k)
      BY <2>2 DEF RequestWay1, Changes, Fields, Rests
    <3>2. QED
      BY <2>2, <3>1 DEF RequestWay1, Rests
  <2>3. CASE RequestWay2(k)
    <3>1. th'[k].at = "device" /\ th'[k].fd = th[k].fd /\ th'[k].try = 0 /\ th'[k].n = 0 /\ Scores(k, "NG") /\
          Aside(k)
      BY <2>3 DEF RequestWay2, Changes, Decides, Fields, Aside
    <3>2. QED
      BY <2>3, <3>1 DEF RequestWay2, Ruled, Decides, Aside
  <2>4. CASE RequestWay3(k)
    <3>1. th'[k].at = th[k].at /\ th'[k].fd = th[k].fd /\ th'[k].try = th[k].try + 1 /\ th'[k].n = th[k].n /\
          Rests(k)
      BY <2>4 DEF RequestWay3, Changes, Fields, Rests
    <3>2. QED
      BY <2>4, <3>1 DEF RequestWay3, Rests
  <2>5. CASE RequestWay4(k)
    <3>1. th'[k].at = "close" /\ th'[k].fd = th[k].fd /\ th'[k].try = th[k].try /\ th'[k].n = th[k].n /\
          th'[k].want = "next" /\ Rests(k)
      BY <2>5 DEF RequestWay4, Changes, Fields, Rests
    <3>2. QED
      BY <2>5, <3>1 DEF RequestWay4, Rests
  <2>6. CASE RequestWay5(k)
    <3>1. th'[k].at = "access" /\ th'[k].fd = th[k].fd /\ th'[k].try = th[k].try /\ th'[k].n = th[k].n + 1 /\
          Rests(k)
      BY <2>6 DEF RequestWay5, Changes, Fields, Rests
    <3>2. QED
      BY <2>6, <3>1 DEF RequestWay5, Rests
  <2>7. CASE RequestWay6(k)
    <3>1. th'[k].at = "close" /\ th'[k].fd = th[k].fd /\ th'[k].try = th[k].try /\ th'[k].n = th[k].n /\
          th'[k].line = th[k].line /\ th'[k].item = th[k].item /\ th'[k].items = th[k].items /\
          th'[k].result = th[k].result /\ th'[k].shown = th[k].shown \cup {th[k].item} /\
          th'[k].frame = th[k].frame /\ th'[k].want = "OK"
      BY <2>7 DEF RequestWay6, Changes, Fields
    <3>2. QED
      BY <2>7, <3>1 DEF RequestWay6, MoreItems
  <2>8. CASE RequestWay7(k)
    <3>1. th'[k].at = "device" /\ th'[k].fd = th[k].fd /\ th'[k].try = 0 /\ th'[k].n = 0 /\
          th'[k].line = th[k].line /\ th'[k].item = th[k].item + 1 /\
          th'[k].items = Append(th[k].items, "OK") /\ th'[k].shown = th[k].shown \cup {th[k].item} /\
          th'[k].frame = th[k].frame /\ th'[k].result \in {"true", "false", "none"}
      BY <2>8 DEF RequestWay7, Changes, Decides, Fields
    <3>2. QED
      BY <2>8, <3>1 DEF RequestWay7, Ruled, Decides, MoreItems
  <2>9. CASE RequestWay8(k)
    <3>1. th'[k].at = "close" /\ th'[k].fd = th[k].fd /\ th'[k].try = th[k].try /\ th'[k].n = th[k].n /\
          th'[k].want = "OK" /\ Rests(k)
      BY <2>9 DEF RequestWay8, Changes, Fields, Rests
    <3>2. QED
      BY <2>9, <3>1 DEF RequestWay8, Rests
  <2>10. CASE RequestWay9(k)
    <3>1. th'[k].at = "device" /\ th'[k].fd = th[k].fd /\ th'[k].try = 0 /\ th'[k].n = 0 /\ Scores(k, "OK") /\
          Aside(k)
      BY <2>10 DEF RequestWay9, Changes, Decides, Fields, Aside
    <3>2. QED
      BY <2>10, <3>1 DEF RequestWay9, Ruled, Decides, Aside
  <2>11. QED
    BY <2>1, <2>2, <2>3, <2>4, <2>5, <2>6, <2>7, <2>8, <2>9, <2>10
<1>4. ControlOf(k)'
  BY <1>1, <1>2, <1>3 DEF ControlOf, Known, Same, Ruled, Judges, Decides, Refilled, AtItem, AtLine,
   MoreItems, Ends, Points, SerialAt, KeyAt, RtcAt, WifiAt, BtAt, DeviceAt
<1>5. Turns(k)
  BY <1>2, RequestView DEF RequestWay1, RequestWay2, RequestWay3, RequestWay4, RequestWay5, RequestWay6,
   RequestWay7, RequestWay8, RequestWay9, Turns, Changes, Known, Drop
<1>6. QED
  BY <1>1, <1>2, <1>3, <1>4, <1>5, ControlFrom DEF Known, Ends, Rules

LEMMA MisleadsControl ==
  ASSUME Shape, NEW k \in DOMAIN plan, Control(k), plan' = plan, Misleads(k)
  PROVE  Control(k)' /\ Quiet(k) /\ Turns(k) /\ Rules(k)
<1>1. th[k].at = "request" /\ Points(k) = DeviceAt /\ plan[k].test \notin {"key", "serial", "rtc", "wifi", "bluetooth", "stop"}
  BY TestAt DEF Misleads, At, Control, ControlOf, DeviceAt
<1>2. Known(k) /\ MoreItems(k)
  BY <1>1, KnownOf DEF Known, Control, ControlOf, LocalsOf, AtItem, AtLine, MoreItems, DeviceAt, Ends
<1>3. /\ th'[k].frame = th[k].frame /\ th'[k].line = th[k].line
      /\ \/ th'[k].at = "close" /\ ((th'[k].at = "close" => th'[k].want \in {"next", "OK", "NG"})) /\ Same(k)
         \/ th'[k].at = "device" /\ Ruled(k)
      /\ Ranged(k)
  <2> USE <1>1, <1>2 DEF Known, Same, Verdicts, Ranged, Scores
  <2>1. MisleadsWay1(k) \/ MisleadsWay2(k)
    BY MisleadsView
  <2>2. CASE MisleadsWay1(k)
    <3>1. th'[k].at = "close" /\ th'[k].fd = th[k].fd /\ th'[k].try = th[k].try /\ th'[k].n = th[k].n /\
          th'[k].want = "OK" /\ Rests(k)
      BY <2>2 DEF MisleadsWay1, Changes, Fields, Rests
    <3>2. QED
      BY <2>2, <3>1 DEF MisleadsWay1, Rests
  <2>3. CASE MisleadsWay2(k)
    <3>1. th'[k].at = "device" /\ th'[k].fd = th[k].fd /\ th'[k].try = 0 /\ th'[k].n = 0 /\ Scores(k, "OK") /\
          Aside(k)
      BY <2>3 DEF MisleadsWay2, Changes, Decides, Fields, Aside
    <3>2. QED
      BY <2>3, <3>1 DEF MisleadsWay2, Ruled, Decides, Aside
  <2>4. QED
    BY <2>1, <2>2, <2>3
<1>4. ControlOf(k)'
  BY <1>1, <1>2, <1>3 DEF ControlOf, Known, Same, Ruled, Judges, Decides, Refilled, AtItem, AtLine,
   MoreItems, Ends, Points, SerialAt, KeyAt, RtcAt, WifiAt, BtAt, DeviceAt
<1>5. Turns(k)
  BY <1>2, MisleadsView DEF MisleadsWay1, MisleadsWay2, Turns, Changes, Known, Drop
<1>6. QED
  BY <1>1, <1>2, <1>3, <1>4, <1>5, ControlFrom DEF Known, Ends, Rules

LEMMA ExportedControl ==
  ASSUME Shape, NEW k \in DOMAIN plan, Control(k), plan' = plan, Exported(k)
  PROVE  Control(k)' /\ Quiet(k) /\ Turns(k) /\ Rules(k)
<1>1. th[k].at = "access" /\ Points(k) = DeviceAt /\ plan[k].test \notin {"key", "serial", "rtc", "wifi", "bluetooth", "stop"}
  BY TestAt DEF Exported, At, Control, ControlOf, DeviceAt
<1>2. Known(k) /\ MoreItems(k)
  BY <1>1, KnownOf DEF Known, Control, ControlOf, LocalsOf, AtItem, AtLine, MoreItems, DeviceAt, Ends
<1>3. /\ th'[k].frame = th[k].frame /\ Same(k) /\ th'[k].line = th[k].line
      /\ th'[k].at = "access"
  BY <1>1, <1>2, ExportedView DEF Changes, Same, Fields, Known
<1>4. Ranged(k)
  BY <1>1, <1>2, ExportedView DEF Changes, Decides, Fields, Known, Takes, Opened, Ranged
<1>5. ControlOf(k)'
  BY <1>1, <1>2, <1>3, <1>4 DEF ControlOf, Known, Same, Ruled, Judges, Decides, Refilled, AtItem, AtLine,
   MoreItems, Ends, Points, SerialAt, KeyAt, RtcAt, WifiAt, BtAt, DeviceAt
<1>6. Turns(k)
  BY <1>2, ExportedView DEF Turns, Changes, Known, Drop
<1>7. QED
  BY <1>1, <1>2, <1>3, <1>4, <1>5, <1>6, ControlFrom DEF Known, Ends, Rules

LEMMA RtcOpenControl ==
  ASSUME Shape, NEW k \in DOMAIN plan, Control(k), plan' = plan, RtcOpen(k)
  PROVE  Control(k)' /\ Quiet(k) /\ Turns(k) /\ Rules(k)
<1>1. th[k].at = "rtcOpen" /\ Points(k) = RtcAt /\ plan[k].test = "rtc"
  BY TestAt DEF RtcOpen, At, Control, ControlOf, RtcAt
<1>2. Known(k) /\ MoreItems(k)
  BY <1>1, KnownOf DEF Known, Control, ControlOf, LocalsOf, AtItem, AtLine, MoreItems, RtcAt, Ends
<1>3. /\ th'[k].frame = th[k].frame /\ Same(k) /\ th'[k].line = th[k].line
      /\ th'[k].at = "rtcSet"
      /\ Ranged(k)
  <2> USE <1>1, <1>2 DEF Known, Same, Verdicts, Ranged
  <2>1. RtcOpenWay1(k) \/ RtcOpenWay2(k)
    BY RtcOpenView
  <2>2. CASE RtcOpenWay1(k)
    <3>1. th'[k].at = "rtcSet" /\ th'[k].fd = Lowest /\ th'[k].try = th[k].try /\ th'[k].n = th[k].n /\
          Rests(k)
      BY <2>2 DEF RtcOpenWay1, Changes, Fields, Rests
    <3>2. QED
      BY <2>2, <3>1, LowestFree DEF RtcOpenWay1, Takes, Rests
  <2>3. CASE RtcOpenWay2(k)
    <3>1. th'[k].at = "rtcSet" /\ th'[k].fd = -1 /\ th'[k].try = th[k].try /\ th'[k].n = th[k].n /\ Rests(k)
      BY <2>3 DEF RtcOpenWay2, Changes, Fields, Rests
    <3>2. QED
      BY <2>3, <3>1, MaxFdAssumption DEF RtcOpenWay2, Rests
  <2>4. QED
    BY <2>1, <2>2, <2>3
<1>4. ControlOf(k)'
  BY <1>1, <1>2, <1>3 DEF ControlOf, Known, Same, Ruled, Judges, Decides, Refilled, AtItem, AtLine,
   MoreItems, Ends, Points, SerialAt, KeyAt, RtcAt, WifiAt, BtAt, DeviceAt
<1>5. Turns(k)
  BY <1>2, RtcOpenView DEF RtcOpenWay1, RtcOpenWay2, Turns, Changes, Known, Drop
<1>6. QED
  BY <1>1, <1>2, <1>3, <1>4, <1>5, ControlFrom DEF Known, Ends, Rules

LEMMA RtcSetControl ==
  ASSUME Shape, NEW k \in DOMAIN plan, Control(k), plan' = plan, RtcSet(k)
  PROVE  Control(k)' /\ Quiet(k) /\ Turns(k) /\ Rules(k)
<1>1. th[k].at = "rtcSet" /\ Points(k) = RtcAt /\ plan[k].test = "rtc"
  BY TestAt DEF RtcSet, At, Control, ControlOf, RtcAt
<1>2. Known(k) /\ MoreItems(k)
  BY <1>1, KnownOf DEF Known, Control, ControlOf, LocalsOf, AtItem, AtLine, MoreItems, RtcAt, Ends
<1>3. /\ th'[k].frame = th[k].frame /\ th'[k].line = th[k].line
      /\ \/ th'[k].at = "rtcGet" /\ Same(k)
         \/ th'[k].at = "send" /\ Ruled(k)
      /\ Ranged(k)
  <2> USE <1>1, <1>2 DEF Known, Same, Verdicts, Ranged, Scores
  <2>1. RtcSetWay1(k) \/ RtcSetWay2(k)
    BY RtcSetView
  <2>2. CASE RtcSetWay1(k)
    <3>1. th'[k].at = "rtcGet" /\ th'[k].fd = th[k].fd /\ th'[k].try = th[k].try /\ th'[k].n = th[k].n /\
          Rests(k)
      BY <2>2 DEF RtcSetWay1, Changes, Fields, Rests
    <3>2. QED
      BY <2>2, <3>1 DEF RtcSetWay1, Rests
  <2>3. CASE RtcSetWay2(k)
    <3>1. th'[k].at = "send" /\ th'[k].fd = th[k].fd /\ th'[k].try = th[k].try /\ th'[k].n = th[k].n /\
          Scores(k, "NG") /\ Aside(k)
      BY <2>3 DEF RtcSetWay2, Changes, Judges, Fields, Aside
    <3>2. QED
      BY <2>3, <3>1 DEF RtcSetWay2, Ruled, Judges, Aside
  <2>4. QED
    BY <2>1, <2>2, <2>3
<1>4. ControlOf(k)'
  BY <1>1, <1>2, <1>3 DEF ControlOf, Known, Same, Ruled, Judges, Decides, Refilled, AtItem, AtLine,
   MoreItems, Ends, Points, SerialAt, KeyAt, RtcAt, WifiAt, BtAt, DeviceAt
<1>5. Turns(k)
  BY <1>2, RtcSetView DEF RtcSetWay1, RtcSetWay2, Turns, Changes, Known, Drop
<1>6. QED
  BY <1>1, <1>2, <1>3, <1>4, <1>5, ControlFrom DEF Known, Ends, Rules

LEMMA RtcGetControl ==
  ASSUME Shape, NEW k \in DOMAIN plan, Control(k), plan' = plan, RtcGet(k)
  PROVE  Control(k)' /\ Quiet(k) /\ Turns(k) /\ Rules(k)
<1>1. th[k].at = "rtcGet" /\ Points(k) = RtcAt /\ plan[k].test = "rtc"
  BY TestAt DEF RtcGet, At, Control, ControlOf, RtcAt
<1>2. Known(k) /\ MoreItems(k)
  BY <1>1, KnownOf DEF Known, Control, ControlOf, LocalsOf, AtItem, AtLine, MoreItems, RtcAt, Ends
<1>3. /\ th'[k].frame = th[k].frame /\ Same(k) /\ th'[k].line = th[k].line
      /\ th'[k].at = "rtcClose"
      /\ Ranged(k)
  <2> USE <1>1, <1>2 DEF Known, Same, Verdicts, Ranged
  <2>1. RtcGetWay1(k) \/ RtcGetWay2(k) \/ RtcGetWay3(k) \/ RtcGetWay4(k)
    BY RtcGetView
  <2>2. CASE RtcGetWay1(k)
    <3>1. th'[k].at = "rtcClose" /\ th'[k].fd = th[k].fd /\ th'[k].try = th[k].try /\ th'[k].n = th[k].n /\
          th'[k].line = th[k].line /\ th'[k].item = th[k].item /\ th'[k].items = th[k].items /\
          th'[k].result = th[k].result /\ th'[k].shown = th[k].shown \cup {1} /\ th'[k].frame = th[k].frame
      BY <2>2 DEF RtcGetWay1, Changes, Fields
    <3>2. QED
      BY <2>2, <3>1 DEF RtcGetWay1, MoreItems
  <2>3. CASE RtcGetWay2(k)
    <3>1. th'[k].at = "rtcClose" /\ th'[k].fd = th[k].fd /\ th'[k].try = th[k].try /\ th'[k].n = th[k].n /\
          Rests(k)
      BY <2>3 DEF RtcGetWay2, Changes, Fields, Rests
    <3>2. QED
      BY <2>3, <3>1 DEF RtcGetWay2, Rests
  <2>4. CASE RtcGetWay3(k)
    <3>1. th'[k].at = "rtcClose" /\ th'[k].fd = th[k].fd /\ th'[k].try = th[k].try /\ th'[k].n = th[k].n /\
          Rests(k)
      BY <2>4 DEF RtcGetWay3, Changes, Fields, Rests
    <3>2. QED
      BY <2>4, <3>1 DEF RtcGetWay3, Rests
  <2>5. CASE RtcGetWay4(k)
    <3>1. th'[k].at = "rtcClose" /\ th'[k].fd = th[k].fd /\ th'[k].try = th[k].try /\ th'[k].n = th[k].n /\
          Rests(k)
      BY <2>5 DEF RtcGetWay4, Changes, Fields, Rests
    <3>2. QED
      BY <2>5, <3>1 DEF RtcGetWay4, Rests
  <2>6. QED
    BY <2>1, <2>2, <2>3, <2>4, <2>5
<1>4. ControlOf(k)'
  BY <1>1, <1>2, <1>3 DEF ControlOf, Known, Same, Ruled, Judges, Decides, Refilled, AtItem, AtLine,
   MoreItems, Ends, Points, SerialAt, KeyAt, RtcAt, WifiAt, BtAt, DeviceAt
<1>5. Turns(k)
  BY <1>2, RtcGetView DEF RtcGetWay1, RtcGetWay2, RtcGetWay3, RtcGetWay4, Turns, Changes, Known, Drop
<1>6. QED
  BY <1>1, <1>2, <1>3, <1>4, <1>5, ControlFrom DEF Known, Ends, Rules

LEMMA RtcCloseControl ==
  ASSUME Shape, NEW k \in DOMAIN plan, Control(k), plan' = plan, RtcClose(k)
  PROVE  Control(k)' /\ Quiet(k) /\ Turns(k) /\ Rules(k)
<1>1. th[k].at = "rtcClose" /\ Points(k) = RtcAt /\ plan[k].test = "rtc"
  BY TestAt DEF RtcClose, At, Control, ControlOf, RtcAt
<1>2. Known(k) /\ MoreItems(k)
  BY <1>1, KnownOf DEF Known, Control, ControlOf, LocalsOf, AtItem, AtLine, MoreItems, RtcAt, Ends
<1>3. /\ th'[k].frame = th[k].frame /\ Ruled(k) /\ th'[k].line = th[k].line
      /\ th'[k].at = "send"
      /\ Ranged(k)
  <2> USE <1>1, <1>2 DEF Known, Same, Verdicts, Ranged, Scores
  <2>1. RtcCloseWay1(k) \/ RtcCloseWay2(k)
    BY RtcCloseView
  <2>2. CASE RtcCloseWay1(k)
    <3>1. th'[k].at = "send" /\ th'[k].fd = th[k].fd /\ th'[k].try = th[k].try /\ th'[k].n = th[k].n /\
          Scores(k, "OK") /\ Aside(k)
      BY <2>2 DEF RtcCloseWay1, Changes, Judges, Fields, Aside
    <3>2. QED
      BY <2>2, <3>1 DEF RtcCloseWay1, Ruled, Judges, Aside
  <2>3. CASE RtcCloseWay2(k)
    <3>1. th'[k].at = "send" /\ th'[k].fd = th[k].fd /\ th'[k].try = th[k].try /\ th'[k].n = th[k].n /\
          Scores(k, "NG") /\ Aside(k)
      BY <2>3 DEF RtcCloseWay2, Changes, Judges, Fields, Aside
    <3>2. QED
      BY <2>3, <3>1 DEF RtcCloseWay2, Ruled, Judges, Aside
  <2>4. QED
    BY <2>1, <2>2, <2>3
<1>4. ControlOf(k)'
  BY <1>1, <1>2, <1>3 DEF ControlOf, Known, Same, Ruled, Judges, Decides, Refilled, AtItem, AtLine,
   MoreItems, Ends, Points, SerialAt, KeyAt, RtcAt, WifiAt, BtAt, DeviceAt
<1>5. Turns(k)
  BY <1>2, RtcCloseView DEF RtcCloseWay1, RtcCloseWay2, Turns, Changes, Known, Drop
<1>6. QED
  BY <1>1, <1>2, <1>3, <1>4, <1>5, ControlFrom DEF Known, Ends, Rules

LEMMA WifiSpentControl ==
  ASSUME Shape, NEW k \in DOMAIN plan, Control(k), plan' = plan, WifiSpent(k)
  PROVE  Control(k)' /\ Quiet(k) /\ Turns(k) /\ Rules(k)
<1>1. th[k].at = "wifi" /\ Points(k) = WifiAt /\ plan[k].test = "wifi"
  BY TestAt DEF WifiSpent, At, Control, ControlOf, WifiAt
<1>2. Known(k) /\ MoreItems(k)
  BY <1>1, KnownOf DEF Known, Control, ControlOf, LocalsOf, AtItem, AtLine, MoreItems, WifiAt, Ends
<1>3. /\ th'[k].frame = th[k].frame /\ Ruled(k) /\ th'[k].line = th[k].line
      /\ th'[k].at = "send"
  BY <1>1, <1>2, WifiSpentView DEF Changes, Same, Fields, Ruled, Verdicts, Known
<1>4. Ranged(k)
  BY <1>1, <1>2, WifiSpentView DEF Changes, Decides, Fields, Known, Takes, Opened, Ranged
<1>5. ControlOf(k)'
  BY <1>1, <1>2, <1>3, <1>4 DEF ControlOf, Known, Same, Ruled, Judges, Decides, Refilled, AtItem, AtLine,
   MoreItems, Ends, Points, SerialAt, KeyAt, RtcAt, WifiAt, BtAt, DeviceAt
<1>6. Turns(k)
  BY <1>2, WifiSpentView DEF Turns, Changes, Known, Drop
<1>7. QED
  BY <1>1, <1>2, <1>3, <1>4, <1>5, <1>6, ControlFrom DEF Known, Ends, Rules

LEMMA WifiScanControl ==
  ASSUME Shape, NEW k \in DOMAIN plan, Control(k), plan' = plan, WifiScan(k)
  PROVE  Control(k)' /\ Quiet(k) /\ Turns(k) /\ Rules(k)
<1>1. th[k].at = "wifi" /\ Points(k) = WifiAt /\ plan[k].test = "wifi"
  BY TestAt DEF WifiScan, At, Control, ControlOf, WifiAt
<1>2. Known(k) /\ MoreItems(k)
  BY <1>1, KnownOf DEF Known, Control, ControlOf, LocalsOf, AtItem, AtLine, MoreItems, WifiAt, Ends
<1>3. /\ th'[k].frame = th[k].frame /\ Same(k) /\ th'[k].line = th[k].line
      /\ th'[k].at \in {"wifiResults", "wifi"}
  BY <1>1, <1>2, WifiScanView DEF WifiScanWay1, WifiScanWay2, Changes, Same, Fields, Known
<1>4. Ranged(k)
  BY <1>1, <1>2, WifiScanView DEF WifiScanWay1, WifiScanWay2, Changes, Fields, Known, Takes, Opened, Ranged
<1>5. ControlOf(k)'
  BY <1>1, <1>2, <1>3, <1>4 DEF ControlOf, Known, Same, Ruled, Judges, Decides, Refilled, AtItem, AtLine,
   MoreItems, Ends, Points, SerialAt, KeyAt, RtcAt, WifiAt, BtAt, DeviceAt
<1>6. Turns(k)
  BY <1>2, WifiScanView DEF WifiScanWay1, WifiScanWay2, Turns, Changes, Known, Drop
<1>7. QED
  BY <1>1, <1>2, <1>3, <1>4, <1>5, <1>6, ControlFrom DEF Known, Ends, Rules

LEMMA WifiResultsControl ==
  ASSUME Shape, NEW k \in DOMAIN plan, Control(k), plan' = plan, WifiResults(k)
  PROVE  Control(k)' /\ Quiet(k) /\ Turns(k) /\ Rules(k)
<1>1. th[k].at = "wifiResults" /\ Points(k) = WifiAt /\ plan[k].test = "wifi"
  BY TestAt DEF WifiResults, At, Control, ControlOf, WifiAt
<1>2. Known(k) /\ MoreItems(k)
  BY <1>1, KnownOf DEF Known, Control, ControlOf, LocalsOf, AtItem, AtLine, MoreItems, WifiAt, Ends
<1>3. /\ th'[k].frame = th[k].frame /\ th'[k].line = th[k].line
      /\ \/ th'[k].at = "send" /\ Ruled(k)
         \/ th'[k].at = "wifi" /\ Same(k)
      /\ Ranged(k)
  <2> USE <1>1, <1>2 DEF Known, Same, Verdicts, Ranged, Scores
  <2>1. WifiResultsWay1(k) \/ WifiResultsWay2(k) \/ WifiResultsWay3(k) \/ WifiResultsWay4(k)
    BY WifiResultsView
  <2>2. CASE WifiResultsWay1(k)
    <3>1. th'[k].at = "send" /\ th'[k].fd = th[k].fd /\ th'[k].try = th[k].try /\ th'[k].n = th[k].n /\
          th'[k].line = th[k].line /\ th'[k].item = th[k].item + 1 /\
          th'[k].items = Append(th[k].items, "OK") /\ th'[k].shown = th[k].shown \cup {1} /\
          th'[k].frame = th[k].frame /\ th'[k].result \in {"true", "false", "none"}
      BY <2>2 DEF WifiResultsWay1, Changes, Judges, Fields
    <3>2. QED
      BY <2>2, <3>1 DEF WifiResultsWay1, Ruled, Judges, MoreItems
  <2>3. CASE WifiResultsWay2(k)
    <3>1. th'[k].at = "send" /\ th'[k].fd = th[k].fd /\ th'[k].try = th[k].try /\ th'[k].n = th[k].n /\
          Scores(k, "OK") /\ Aside(k)
      BY <2>3 DEF WifiResultsWay2, Changes, Judges, Fields, Aside
    <3>2. QED
      BY <2>3, <3>1 DEF WifiResultsWay2, Ruled, Judges, Aside
  <2>4. CASE WifiResultsWay3(k)
    <3>1. th'[k].at = "wifi" /\ th'[k].fd = th[k].fd /\ th'[k].try = th[k].try /\ th'[k].n = th[k].n /\
          Rests(k)
      BY <2>4 DEF WifiResultsWay3, Changes, Fields, Rests
    <3>2. QED
      BY <2>4, <3>1 DEF WifiResultsWay3, Rests
  <2>5. CASE WifiResultsWay4(k)
    <3>1. th'[k].at = "send" /\ th'[k].fd = th[k].fd /\ th'[k].try = th[k].try /\ th'[k].n = th[k].n /\
          Scores(k, "NG") /\ Aside(k)
      BY <2>5 DEF WifiResultsWay4, Changes, Judges, Fields, Aside
    <3>2. QED
      BY <2>5, <3>1 DEF WifiResultsWay4, Ruled, Judges, Aside
  <2>6. QED
    BY <2>1, <2>2, <2>3, <2>4, <2>5
<1>4. ControlOf(k)'
  BY <1>1, <1>2, <1>3 DEF ControlOf, Known, Same, Ruled, Judges, Decides, Refilled, AtItem, AtLine,
   MoreItems, Ends, Points, SerialAt, KeyAt, RtcAt, WifiAt, BtAt, DeviceAt
<1>5. Turns(k)
  BY <1>2, WifiResultsView DEF WifiResultsWay1, WifiResultsWay2, WifiResultsWay3, WifiResultsWay4, Turns,
   Changes, Known, Drop
<1>6. QED
  BY <1>1, <1>2, <1>3, <1>4, <1>5, ControlFrom DEF Known, Ends, Rules

LEMMA BtFreeControl ==
  ASSUME Shape, NEW k \in DOMAIN plan, Control(k), plan' = plan, BtFree(k)
  PROVE  Control(k)' /\ Quiet(k) /\ Turns(k) /\ Rules(k)
<1>1. th[k].at = "bt" /\ Points(k) = BtAt /\ plan[k].test = "bluetooth"
  BY TestAt DEF BtFree, At, Control, ControlOf, BtAt
<1>2. Known(k) /\ MoreItems(k)
  BY <1>1, KnownOf DEF Known, Control, ControlOf, LocalsOf, AtItem, AtLine, MoreItems, BtAt, Ends
<1>3. /\ th'[k].frame = th[k].frame /\ Same(k) /\ th'[k].line = th[k].line
      /\ th'[k].at = "btOpen"
  BY <1>1, <1>2, BtFreeView DEF Changes, Same, Fields, Known
<1>4. Ranged(k)
  BY <1>1, <1>2, BtFreeView DEF Changes, Decides, Fields, Known, Takes, Opened, Ranged
<1>5. ControlOf(k)'
  BY <1>1, <1>2, <1>3, <1>4 DEF ControlOf, Known, Same, Ruled, Judges, Decides, Refilled, AtItem, AtLine,
   MoreItems, Ends, Points, SerialAt, KeyAt, RtcAt, WifiAt, BtAt, DeviceAt
<1>6. Turns(k)
  BY <1>2, BtFreeView DEF Turns, Changes, Known, Drop
<1>7. QED
  BY <1>1, <1>2, <1>3, <1>4, <1>5, <1>6, ControlFrom DEF Known, Ends, Rules

LEMMA BtOpenControl ==
  ASSUME Shape, NEW k \in DOMAIN plan, Control(k), plan' = plan, BtOpen(k)
  PROVE  Control(k)' /\ Quiet(k) /\ Turns(k) /\ Rules(k)
<1>1. th[k].at = "btOpen" /\ Points(k) = BtAt /\ plan[k].test = "bluetooth"
  BY TestAt DEF BtOpen, At, Control, ControlOf, BtAt
<1>2. Known(k) /\ MoreItems(k)
  BY <1>1, KnownOf DEF Known, Control, ControlOf, LocalsOf, AtItem, AtLine, MoreItems, BtAt, Ends
<1>3. /\ th'[k].frame = th[k].frame /\ th'[k].line = th[k].line
      /\ \/ th'[k].at = "btInquiry" /\ Same(k)
         \/ th'[k].at = "send" /\ Ruled(k)
      /\ Ranged(k)
  <2> USE <1>1, <1>2 DEF Known, Same, Verdicts, Ranged, Scores
  <2>1. BtOpenWay1(k) \/ BtOpenWay2(k)
    BY BtOpenView
  <2>2. CASE BtOpenWay1(k)
    <3>1. th'[k].at = "btInquiry" /\ th'[k].fd = Lowest /\ th'[k].try = th[k].try /\ th'[k].n = th[k].n /\
          Rests(k)
      BY <2>2 DEF BtOpenWay1, Changes, Fields, Rests
    <3>2. QED
      BY <2>2, <3>1, LowestFree DEF BtOpenWay1, Takes, Rests
  <2>3. CASE BtOpenWay2(k)
    <3>1. th'[k].at = "send" /\ th'[k].fd = -1 /\ th'[k].try = th[k].try /\ th'[k].n = th[k].n /\
          Scores(k, "NG") /\ Aside(k)
      BY <2>3 DEF BtOpenWay2, Changes, Judges, Fields, Aside
    <3>2. QED
      BY <2>3, <3>1, MaxFdAssumption DEF BtOpenWay2, Ruled, Judges, Aside
  <2>4. QED
    BY <2>1, <2>2, <2>3
<1>4. ControlOf(k)'
  BY <1>1, <1>2, <1>3 DEF ControlOf, Known, Same, Ruled, Judges, Decides, Refilled, AtItem, AtLine,
   MoreItems, Ends, Points, SerialAt, KeyAt, RtcAt, WifiAt, BtAt, DeviceAt
<1>5. Turns(k)
  BY <1>2, BtOpenView DEF BtOpenWay1, BtOpenWay2, Turns, Changes, Known, Drop
<1>6. QED
  BY <1>1, <1>2, <1>3, <1>4, <1>5, ControlFrom DEF Known, Ends, Rules

LEMMA BtInquiryControl ==
  ASSUME Shape, NEW k \in DOMAIN plan, Control(k), plan' = plan, BtInquiry(k)
  PROVE  Control(k)' /\ Quiet(k) /\ Turns(k) /\ Rules(k)
<1>1. th[k].at = "btInquiry" /\ Points(k) = BtAt /\ plan[k].test = "bluetooth"
  BY TestAt DEF BtInquiry, At, Control, ControlOf, BtAt
<1>2. Known(k) /\ MoreItems(k)
  BY <1>1, KnownOf DEF Known, Control, ControlOf, LocalsOf, AtItem, AtLine, MoreItems, BtAt, Ends
<1>3. /\ th'[k].frame = th[k].frame /\ th'[k].line = th[k].line
      /\ \/ th'[k].at = "send" /\ Ruled(k)
         \/ th'[k].at \in {"btResult", "btFill"} /\ Same(k)
      /\ Ranged(k)
  <2> USE <1>1, <1>2 DEF Known, Same, Verdicts, Ranged, Scores
  <2>1. BtInquiryWay1(k) \/ BtInquiryWay2(k) \/ BtInquiryWay3(k)
    BY BtInquiryView
  <2>2. CASE BtInquiryWay1(k)
    <3>1. th'[k].at = "send" /\ th'[k].fd = th[k].fd /\ th'[k].try = th[k].try /\ th'[k].n = th[k].n /\
          Scores(k, "NG") /\ Aside(k)
      BY <2>2 DEF BtInquiryWay1, Changes, Judges, Fields, Aside
    <3>2. QED
      BY <2>2, <3>1 DEF BtInquiryWay1, Ruled, Judges, Aside
  <2>3. CASE BtInquiryWay2(k)
    <3>1. th'[k].at = "btResult" /\ th'[k].fd = th[k].fd /\ th'[k].try = th[k].try /\ th'[k].n = th[k].n /\
          Rests(k)
      BY <2>3 DEF BtInquiryWay2, Changes, Fields, Rests
    <3>2. QED
      BY <2>3, <3>1 DEF BtInquiryWay2, Rests
  <2>4. CASE BtInquiryWay3(k)
    <3>1. th'[k].at = "btFill" /\ th'[k].fd = th[k].fd /\ th'[k].try = th[k].try /\ th'[k].n = th[k].n /\
          th'[k].line = th[k].line /\ th'[k].item = th[k].item /\ th'[k].items = th[k].items /\
          th'[k].result = th[k].result /\ th'[k].shown = th[k].shown \cup {1} /\ th'[k].frame = th[k].frame
      BY <2>4 DEF BtInquiryWay3, Changes, Fields
    <3>2. QED
      BY <2>4, <3>1 DEF BtInquiryWay3, MoreItems
  <2>5. QED
    BY <2>1, <2>2, <2>3, <2>4
<1>4. ControlOf(k)'
  BY <1>1, <1>2, <1>3 DEF ControlOf, Known, Same, Ruled, Judges, Decides, Refilled, AtItem, AtLine,
   MoreItems, Ends, Points, SerialAt, KeyAt, RtcAt, WifiAt, BtAt, DeviceAt
<1>5. Turns(k)
  BY <1>2, BtInquiryView DEF BtInquiryWay1, BtInquiryWay2, BtInquiryWay3, Turns, Changes, Known, Drop
<1>6. QED
  BY <1>1, <1>2, <1>3, <1>4, <1>5, ControlFrom DEF Known, Ends, Rules

LEMMA BtFillControl ==
  ASSUME Shape, NEW k \in DOMAIN plan, Control(k), plan' = plan, BtFill(k)
  PROVE  Control(k)' /\ Quiet(k) /\ Turns(k) /\ Rules(k)
<1>1. th[k].at = "btFill" /\ Points(k) = BtAt /\ plan[k].test = "bluetooth"
  BY TestAt DEF BtFill, At, Control, ControlOf, BtAt
<1>2. Known(k) /\ MoreItems(k)
  BY <1>1, KnownOf DEF Known, Control, ControlOf, LocalsOf, AtItem, AtLine, MoreItems, BtAt, Ends
<1>3. /\ th'[k].frame = th[k].frame /\ Same(k) /\ th'[k].line = th[k].line
      /\ th'[k].at = "btClose"
  BY <1>1, <1>2, BtFillView DEF Changes, Same, Fields, Known
<1>4. Ranged(k)
  BY <1>1, <1>2, BtFillView DEF Changes, Decides, Fields, Known, Takes, Opened, Ranged
<1>5. ControlOf(k)'
  BY <1>1, <1>2, <1>3, <1>4 DEF ControlOf, Known, Same, Ruled, Judges, Decides, Refilled, AtItem, AtLine,
   MoreItems, Ends, Points, SerialAt, KeyAt, RtcAt, WifiAt, BtAt, DeviceAt
<1>6. Turns(k)
  BY <1>2, BtFillView DEF Turns, Changes, Known, Drop
<1>7. QED
  BY <1>1, <1>2, <1>3, <1>4, <1>5, <1>6, ControlFrom DEF Known, Ends, Rules

LEMMA BtCloseControl ==
  ASSUME Shape, NEW k \in DOMAIN plan, Control(k), plan' = plan, BtClose(k)
  PROVE  Control(k)' /\ Quiet(k) /\ Turns(k) /\ Rules(k)
<1>1. th[k].at = "btClose" /\ Points(k) = BtAt /\ plan[k].test = "bluetooth"
  BY TestAt DEF BtClose, At, Control, ControlOf, BtAt
<1>2. Known(k) /\ MoreItems(k)
  BY <1>1, KnownOf DEF Known, Control, ControlOf, LocalsOf, AtItem, AtLine, MoreItems, BtAt, Ends
<1>3. /\ th'[k].frame = th[k].frame /\ Same(k) /\ th'[k].line = th[k].line
      /\ th'[k].at = "btResult"
  BY <1>1, <1>2, BtCloseView DEF Changes, Same, Fields, Known
<1>4. Ranged(k)
  BY <1>1, <1>2, BtCloseView DEF Changes, Decides, Fields, Known, Takes, Opened, Ranged
<1>5. ControlOf(k)'
  BY <1>1, <1>2, <1>3, <1>4 DEF ControlOf, Known, Same, Ruled, Judges, Decides, Refilled, AtItem, AtLine,
   MoreItems, Ends, Points, SerialAt, KeyAt, RtcAt, WifiAt, BtAt, DeviceAt
<1>6. Turns(k)
  BY <1>2, BtCloseView DEF Turns, Changes, Known, Drop
<1>7. QED
  BY <1>1, <1>2, <1>3, <1>4, <1>5, <1>6, ControlFrom DEF Known, Ends, Rules

LEMMA BtResultControl ==
  ASSUME Shape, NEW k \in DOMAIN plan, Control(k), plan' = plan, BtResult(k)
  PROVE  Control(k)' /\ Quiet(k) /\ Turns(k) /\ Rules(k)
<1>1. th[k].at = "btResult" /\ Points(k) = BtAt /\ plan[k].test = "bluetooth"
  BY TestAt DEF BtResult, At, Control, ControlOf, BtAt
<1>2. Known(k) /\ MoreItems(k)
  BY <1>1, KnownOf DEF Known, Control, ControlOf, LocalsOf, AtItem, AtLine, MoreItems, BtAt, Ends
<1>3. /\ th'[k].frame = th[k].frame /\ Same(k) /\ th'[k].line = th[k].line
      /\ th'[k].at \in {"btRead", "send"}
  BY <1>1, <1>2, BtResultView DEF BtResultWay1, BtResultWay2, Changes, Same, Fields, Known
<1>4. Ranged(k)
  BY <1>1, <1>2, BtResultView DEF BtResultWay1, BtResultWay2, Changes, Fields, Known, Takes, Opened, Ranged
<1>5. ControlOf(k)'
  BY <1>1, <1>2, <1>3, <1>4 DEF ControlOf, Known, Same, Ruled, Judges, Decides, Refilled, AtItem, AtLine,
   MoreItems, Ends, Points, SerialAt, KeyAt, RtcAt, WifiAt, BtAt, DeviceAt
<1>6. Turns(k)
  BY <1>2, BtResultView DEF BtResultWay1, BtResultWay2, Turns, Changes, Known, Drop
<1>7. QED
  BY <1>1, <1>2, <1>3, <1>4, <1>5, <1>6, ControlFrom DEF Known, Ends, Rules

LEMMA BtReadControl ==
  ASSUME Shape, NEW k \in DOMAIN plan, Control(k), plan' = plan, BtRead(k)
  PROVE  Control(k)' /\ Quiet(k) /\ Turns(k) /\ Rules(k)
<1>1. th[k].at = "btRead" /\ Points(k) = BtAt /\ plan[k].test = "bluetooth"
  BY TestAt DEF BtRead, At, Control, ControlOf, BtAt
<1>2. Known(k) /\ MoreItems(k)
  BY <1>1, KnownOf DEF Known, Control, ControlOf, LocalsOf, AtItem, AtLine, MoreItems, BtAt, Ends
<1>3. /\ th'[k].frame = th[k].frame /\ Ruled(k) /\ th'[k].line = th[k].line
      /\ th'[k].at = "send"
  BY <1>1, <1>2, BtReadView DEF Changes, Same, Fields, Ruled, Verdicts, Known
<1>4. Ranged(k)
  BY <1>1, <1>2, BtReadView DEF Changes, Decides, Fields, Known, Takes, Opened, Ranged
<1>5. ControlOf(k)'
  BY <1>1, <1>2, <1>3, <1>4 DEF ControlOf, Known, Same, Ruled, Judges, Decides, Refilled, AtItem, AtLine,
   MoreItems, Ends, Points, SerialAt, KeyAt, RtcAt, WifiAt, BtAt, DeviceAt
<1>6. Turns(k)
  BY <1>2, BtReadView DEF Turns, Changes, Known, Drop
<1>7. QED
  BY <1>1, <1>2, <1>3, <1>4, <1>5, <1>6, ControlFrom DEF Known, Ends, Rules

\* The frames of a line keep the control of its test.
LEMMA SendFailsControl ==
  ASSUME Shape, NEW k \in DOMAIN plan, Control(k), plan' = plan, SendFails(k)
  PROVE  Control(k)' /\ Quiet(k) /\ Turns(k) /\ Same(k)
<1>1. th[k].at = "exchange" /\ Points(k) = SerialAt /\ plan[k].test = "serial"
  BY TestAt DEF SendFails, At, Control, ControlOf, SerialAt
<1>2. Known(k) /\ th[k].line \in {1, 2} /\ ~MoreItems(k)
  BY <1>1, KnownOf DEF Known, Control, ControlOf, LocalsOf, AtItem, AtLine, MoreItems, SerialAt, Ends
<1>3. /\ Changes(k, {"met", "n", "send", "tested"}) /\ th'[k].n \in {0, th[k].n + 1} /\ Keeps
  BY <1>2, SendFailsView DEF Known
<1>4. /\ th'[k].at = "exchange" /\ th'[k].line = th[k].line /\ th'[k].fd = th[k].fd
      /\ th'[k].frame = th[k].frame /\ th'[k].try = th[k].try /\ th'[k].shown = th[k].shown
      /\ th'[k].n \in Nat /\ Same(k)
  <2>1. /\ th'[k].at = th[k].at /\ th'[k].line = th[k].line /\ th'[k].fd = th[k].fd
        /\ th'[k].frame = th[k].frame /\ th'[k].try = th[k].try /\ th'[k].shown = th[k].shown
        /\ th'[k].items = th[k].items /\ th'[k].item = th[k].item /\ th'[k].result = th[k].result
    BY <1>3 DEF Changes, Fields
  <2>2. th'[k].n \in Nat
    BY <1>2, <1>3 DEF Known
  <2>3. QED
    BY <1>1, <2>1, <2>2 DEF Same
<1>5. ControlOf(k)'
  BY <1>1, <1>2, <1>4 DEF ControlOf, Known, Same, AtItem, AtLine, MoreItems, Ends, Points, SerialAt, KeyAt,
   RtcAt, WifiAt, BtAt, DeviceAt
<1>6. Turns(k)
  BY <1>2, <1>3 DEF Turns, Changes, Known
<1>7. QED
  BY <1>1, <1>2, <1>4, <1>5, <1>6, ControlFrom DEF Known, Ends, Ranged

\* The same for a frame that was sent.
LEMMA ExchangeControl ==
  ASSUME Shape, NEW k \in DOMAIN plan, Control(k), plan' = plan, Exchange(k)
  PROVE  Control(k)' /\ Quiet(k) /\ Turns(k) /\ Same(k)
<1>1. th[k].at = "exchange" /\ Points(k) = SerialAt /\ plan[k].test = "serial"
  BY TestAt DEF Exchange, At, Control, ControlOf, SerialAt
<1>2. Known(k) /\ th[k].line \in {1, 2} /\ ~MoreItems(k)
  BY <1>1, KnownOf DEF Known, Control, ControlOf, LocalsOf, AtItem, AtLine, MoreItems, SerialAt, Ends
<1>3. /\ Changes(k, {"lost", "met", "n", "queue", "reached", "recv", "tested"})
      /\ th'[k].n \in {0, th[k].n + 1} /\ Keeps
  BY <1>2, ExchangeView DEF Known
<1>4. /\ th'[k].at = "exchange" /\ th'[k].line = th[k].line /\ th'[k].fd = th[k].fd
      /\ th'[k].frame = th[k].frame /\ th'[k].try = th[k].try /\ th'[k].shown = th[k].shown
      /\ th'[k].n \in Nat /\ Same(k)
  <2>1. /\ th'[k].at = th[k].at /\ th'[k].line = th[k].line /\ th'[k].fd = th[k].fd
        /\ th'[k].frame = th[k].frame /\ th'[k].try = th[k].try /\ th'[k].shown = th[k].shown
        /\ th'[k].items = th[k].items /\ th'[k].item = th[k].item /\ th'[k].result = th[k].result
    BY <1>3 DEF Changes, Fields
  <2>2. th'[k].n \in Nat
    BY <1>2, <1>3 DEF Known
  <2>3. QED
    BY <1>1, <2>1, <2>2 DEF Same
<1>5. ControlOf(k)'
  BY <1>1, <1>2, <1>4 DEF ControlOf, Known, Same, AtItem, AtLine, MoreItems, Ends, Points, SerialAt, KeyAt,
   RtcAt, WifiAt, BtAt, DeviceAt
<1>6. Turns(k)
  BY <1>2, <1>3 DEF Turns, Changes, Known
<1>7. QED
  BY <1>1, <1>2, <1>4, <1>5, <1>6, ControlFrom DEF Known, Ends, Ranged

\* The end of the process, and the steps of an answer.
LEMMA StandsStill ==
  ASSUME Shape, NEW k \in DOMAIN plan, Control(k), plan' = plan, UNCHANGED <<th, fds>>
  PROVE  Control(k)' /\ Turns(k)
<1>1. Control(k)'
  BY DEF Control, LocalsOf, ControlOf, ItemsOf, Points, AtItem, AtLine
<1>2. QED
  BY <1>1 DEF Turns, Keeps, Shape

\* The answer leaves the verdicts and the result alone.
LEMMA SendControl ==
  ASSUME Shape, NEW k \in DOMAIN plan, Control(k), plan' = plan, SendStep(k)
  PROVE  /\ Control(k)' /\ Turns(k)
         /\ th'[k].items = th[k].items /\ th'[k].result = th[k].result
         /\ reportCmdIndex' \in 0 .. Width - 1
<1>1. k \in DOMAIN th /\ DOMAIN th[k] = Fields
  BY DEF Shape
<1>2. Width \in Nat /\ Width > 0 /\ reportCmdIndex \in 0 .. Width - 1
  BY ResponderAssumption DEF Shape
<1>3. th[k].at # "idle" /\ th[k].n \in Nat
  BY DEF SendStep, SendNumber, SendPack, SendWrite, At, Control, LocalsOf
<1> DEFINE Goes(at, S) == /\ th'[k].at = at /\ at \in Ends \ {"send"} /\ Keeps
                          /\ Changes(k, S) /\ S \subseteq {"at", "n", "try", "frame"}
                          /\ th'[k].n \in Nat /\ th'[k].try \in Nat
                          /\ th'[k].frame = None \/ at = "done"
<1>4. ASSUME NEW at, NEW S, Goes(at, S), th[k].at \in Ends
      PROVE  Control(k)' /\ Turns(k) /\ th'[k].items = th[k].items /\ th'[k].result = th[k].result
  <2>1. /\ th'[k].at = at /\ th'[k].line = th[k].line /\ th'[k].fd = th[k].fd
        /\ th'[k].items = th[k].items /\ th'[k].item = th[k].item /\ th'[k].result = th[k].result
        /\ th'[k].shown = th[k].shown
        /\ th'[k].n \in Nat /\ th'[k].try \in Nat /\ (th'[k].frame = None \/ at = "done")
    BY <1>1, <1>4 DEF Changes, Fields
  <2>2. LocalsOf(k)'
    BY <1>4, <2>1 DEF LocalsOf, Control, Ends
  <2>3. ControlOf(k)'
    BY <1>4, <2>1 DEF ControlOf, AtItem, AtLine, Ends, RtcAt, WifiAt, BtAt
  <2>4. at \notin Points(k)'
    BY <1>4 DEF Ends, Points, SerialAt, KeyAt, RtcAt, WifiAt, BtAt, DeviceAt
  <2>5. ItemsOf(k)'
    BY <2>1, <2>4 DEF ItemsOf, Control
  <2>6. Turns(k)
    BY <1>1, <1>4 DEF Turns, Changes
  <2>7. QED
    BY <2>1, <2>2, <2>3, <2>5, <2>6 DEF Control
<1>5. th[k].at # "done" => th[k].frame = None
  BY DEF Control, ControlOf
<1>6. CASE SendNumber(k)
  <2>1. /\ th[k].at = "send" /\ UNCHANGED reportCmdIndex /\ Changes(k, {"at", "n"}) /\ Keeps
        /\ th'[k].at = "pack" /\ th'[k].n = reportCmdIndex
    BY <1>1, <1>6, SendNumberView DEF At
  <2>2. th'[k].frame = None /\ th'[k].try \in Nat
    BY <1>1, <1>5, <2>1 DEF Changes, Fields, Control, LocalsOf
  <2>3. Goes("pack", {"at", "n"}) /\ th[k].at \in Ends
    BY <1>2, <2>1, <2>2 DEF Ends
  <2>4. QED
    BY <1>2, <1>4, <2>1, <2>3
<1>7. CASE SendPack(k)
  <2>1. th[k].at = "pack" /\ reportCmdIndex' = (th[k].n + 1) % Width
    BY <1>1, <1>7, SendPackView DEF At
  <2> DEFINE next == th[k].n + 1
  <2>5. next \in Nat /\ next % Width \in 0 .. Width - 1
    BY <1>2, <1>3
  <2>6. reportCmdIndex' \in 0 .. Width - 1
    BY <2>1, <2>5
  <2>2. CASE UNCHANGED <<th, fds>>
    BY <2>6, <2>2, StandsStill
  <2>3. CASE /\ Changes(k, {"at", "try"}) /\ th'[k].at = "write" /\ th'[k].try \in Lengths /\ Keeps
    <3>1. th'[k].frame = None /\ th'[k].n \in Nat
      BY <1>1, <1>3, <1>5, <2>1, <2>3 DEF Changes, Fields
    <3>2. Goes("write", {"at", "try"}) /\ th[k].at \in Ends
      BY <2>1, <2>3, <3>1, ResponderAssumption DEF Ends
    <3>3. QED
      BY <1>4, <2>6, <3>2
  <2>4. QED
    BY <1>1, <1>7, <2>2, <2>3, SendPackView
<1>8. CASE SendWrite(k)
  <2>1. /\ th[k].at = "write" /\ UNCHANGED reportCmdIndex /\ Changes(k, {"at", "frame"}) /\ Keeps
        /\ th'[k].at = "done"
    BY <1>1, <1>8, SendWriteView DEF At
  <2>2. th'[k].n \in Nat /\ th'[k].try \in Nat
    BY <1>1, <1>3, <2>1 DEF Changes, Fields, Control, LocalsOf
  <2>3. Goes("done", {"at", "frame"}) /\ th[k].at \in Ends
    BY <2>1, <2>2 DEF Ends
  <2>4. QED
    BY <1>2, <1>4, <2>1, <2>3
<1>9. QED
  BY <1>6, <1>7, <1>8 DEF SendStep

\* The command thread begins a test, or answers for it at once.
LEMMA CommandControl ==
  ASSUME Shape, NEW k \in DOMAIN plan, Control(k), plan' = plan, Dispatch(k) \/ Stop(k)
  PROVE  Control(k)' /\ Turns(k) /\ Quiet(k)
<1>1. /\ k \in DOMAIN th /\ DOMAIN th[k] = Fields /\ DOMAIN fds = 0 .. MaxFd - 1
      /\ plan[k].items \in Seq(STRING) /\ Len(plan[k].items) \in Nat
      /\ DOMAIN plan[k].items = 1 .. Len(plan[k].items)
      /\ plan[k].test \in {"rtc", "wifi", "bluetooth"} => Len(plan[k].items) = 1
  BY PlanItems DEF Shape
<1>2. th[k] = Fresh /\ Keeps
  BY DEF Control, ControlOf, Dispatch, Stop, Turn, At, Keeps
<1>4. /\ DOMAIN Fresh = Fields /\ Fresh.frame = None /\ Fresh.fd = -1 /\ Fresh.n = 0 /\ Fresh.try = 0
      /\ Fresh.line = 0 /\ Fresh.item = 1 /\ Fresh.shown = {} /\ Fresh.result = "true"
      /\ Fresh.items = <<>> /\ Fresh.at = "idle"
  BY DEF Fresh, Fields
<1>3. ASSUME NEW t, Set(k, t), DOMAIN t = Fields, t.frame = None, t.fd = -1, t.n = 0, t.try = 0,
             t.line = 0, t.item = 1, t.shown = {}, t.result \in {"true", "false", "none"},
             t.at \in Points(k) \cup {"done"},
             t.at \in {"serial", "key", "rtcOpen", "wifi", "bt", "device", "done"},
             t.at \in RtcAt \cup WifiAt \cup BtAt => Len(plan[k].items) = 1,
             \/ plan[k].test # "key" /\ t.items = <<>>
             \/ t.at = "done" /\ t.items = <<>> /\ plan[k].test = "key"
             \/ plan[k].test = "key" /\ t.items \in [DOMAIN plan[k].items -> Verdicts]
      PROVE  Control(k)' /\ Turns(k) /\ Quiet(k)
  <2>1. /\ DOMAIN th' = DOMAIN th /\ DOMAIN th'[k] = Fields /\ \A j \in DOMAIN th \ {k} : th'[j] = th[j]
        /\ \A f \in Fields : th'[k][f] = t[f]
    BY <1>1, <1>3, SetF DEF Becomes
  <2>2. /\ th'[k].at = t.at /\ th'[k].frame = None /\ th'[k].fd = -1 /\ th'[k].n = 0 /\ th'[k].try = 0
        /\ th'[k].line = 0 /\ th'[k].item = 1 /\ th'[k].shown = {} /\ th'[k].result = t.result
        /\ th'[k].items = t.items
    BY <1>3, <2>1 DEF Fields
  <2>3. LocalsOf(k)'
    BY <1>3, <2>2, MaxFdAssumption DEF LocalsOf
  <2>4. Points(k)' = Points(k)
    BY DEF Points
  <2>5. ControlOf(k)'
    <3>1. th'[k].at \in Points(k)' \cup Ends
      BY <1>3, <2>2, <2>4 DEF Ends
    <3>2. AtItem(k)' => th'[k].item <= Len(plan'[k].items)
      <4>1. CASE th'[k].at \in RtcAt \cup WifiAt \cup BtAt
        <5>1. Len(plan[k].items) = 1
          BY <1>3, <2>2, <4>1
        <5>2. th'[k].item = 1 /\ plan'[k].items = plan[k].items
          BY <2>2
        <5>3. th'[k].item <= Len(plan'[k].items)
          BY <5>1, <5>2
        <5>4. QED
          BY <5>3
      <4>2. CASE th'[k].at \notin RtcAt \cup WifiAt \cup BtAt
        BY <1>3, <2>2, <4>2 DEF AtItem
      <4>3. QED
        BY <4>1, <4>2
    <3>3. ~AtLine(k)' /\ th'[k].at \notin {"idle", "open", "config", "again", "line", "lineOpen", "exchange", "close"}
      BY <1>3, <2>2 DEF AtLine
    <3>4. QED
      BY <2>2, <3>1, <3>2, <3>3 DEF ControlOf
  <2>6. /\ t.items \in Seq(Verdicts) /\ Len(t.items) <= Len(plan[k].items)
        /\ plan[k].test # "key" => Len(t.items) = 0
        /\ plan[k].test = "key" /\ t.at # "done" => Len(t.items) = Len(plan[k].items)
    <3>1. CASE t.items = <<>> /\ (plan[k].test # "key" \/ t.at = "done")
      BY <1>1, <3>1
    <3>2. CASE plan[k].test = "key" /\ t.items \in [DOMAIN plan[k].items -> Verdicts]
      <4> DEFINE n == Len(plan[k].items)
      <4>1. n \in Nat /\ t.items \in [1 .. n -> Verdicts]
        BY <1>1, <3>2
      <4> HIDE DEF n
      <4>2. t.items \in Seq(Verdicts) /\ Len(t.items) = n
        BY <4>1, SeqOf
      <4>3. QED
        BY <3>2, <4>1, <4>2 DEF n
    <3>3. QED
      BY <1>3, <3>1, <3>2
  <2>7. "done" \notin Points(k)
    BY DEF Points, SerialAt, KeyAt, RtcAt, WifiAt, BtAt, DeviceAt
  <2>8. ItemsOf(k)'
    BY <1>3, <2>2, <2>4, <2>6, <2>7 DEF ItemsOf
  <2>9. Quiet(k)
    BY <1>2, <1>3, <1>4, <2>2 DEF Quiet, Ends
  <2>10. QED
    BY <1>2, <2>1, <2>3, <2>5, <2>8, <2>9 DEF Control, Turns
<1> DEFINE u == To(th[k], "done")
           v == Begun(k)
<1>5. /\ DOMAIN u = Fields /\ u.at = "done" /\ u.frame = None /\ u.fd = -1 /\ u.n = 0 /\ u.try = 0
      /\ u.line = 0 /\ u.item = 1 /\ u.shown = {} /\ u.result = "true" /\ u.items = <<>>
  BY <1>2, <1>4 DEF To, Fields
<1>6. CASE Set(k, u)
  <2> HIDE DEF u
  <2>1. QED
    BY <1>3, <1>5, <1>6 DEF RtcAt, WifiAt, BtAt
<1>7. CASE Set(k, v) /\ plan[k].test # "stop"
  <2>1. /\ DOMAIN v = Fields /\ v.frame = None /\ v.fd = -1 /\ v.n = 0 /\ v.try = 0
        /\ v.line = 0 /\ v.item = 1 /\ v.shown = {} /\ v.result \in {"true", "false", "none"}
        /\ v.at = CASE plan[k].test = "serial" -> "serial" [] plan[k].test = "key" -> "key"
                    [] plan[k].test = "rtc" -> "rtcOpen" [] plan[k].test = "wifi" -> "wifi"
                    [] plan[k].test = "bluetooth" -> "bt" [] OTHER -> "device"
        /\ IF plan[k].test = "key" THEN v.items \in [DOMAIN plan[k].items -> Verdicts]
           ELSE v.items = <<>>
    <3>1. CASE plan[k].test = "serial"
      BY <1>4, <3>1 DEF Begun, SerialFresh, Fields
    <3>2. CASE plan[k].test = "key"
      BY <1>4, <3>2 DEF Begun, KeyFresh, Fields, Verdicts
    <3>3. CASE plan[k].test \in {"rtc", "wifi", "bluetooth"}
      BY <1>4, <3>3 DEF Begun, To, Fields
    <3>4. CASE plan[k].test \notin {"serial", "key", "rtc", "wifi", "bluetooth"}
      BY <1>4, <3>4 DEF Begun, DeviceFresh, Fields
    <3>5. QED
      BY <3>1, <3>2, <3>3, <3>4
  <2> HIDE DEF v
  <2>2. v.at \in Points(k) /\ v.at \in {"serial", "key", "rtcOpen", "wifi", "bt", "device"}
    BY <1>7, <2>1 DEF Points, SerialAt, KeyAt, RtcAt, WifiAt, BtAt, DeviceAt
  <2>3. v.at \in RtcAt \cup WifiAt \cup BtAt => Len(plan[k].items) = 1
    BY <1>1, <2>1 DEF RtcAt, WifiAt, BtAt
  <2>4. QED
    BY <1>3, <1>7, <2>1, <2>2, <2>3
<1>8. QED
  BY <1>6, <1>7 DEF Dispatch, Stop, Set

-----------------------------------------------------------------------------
(***************************************************************************)
(* The steps of each kind of test.                                         *)
(***************************************************************************)
LEMMA SerialControl ==
  ASSUME Shape, NEW k \in DOMAIN plan, Control(k), plan' = plan, SerialStep(k)
  PROVE  /\ Control(k)' /\ Quiet(k) /\ Turns(k)
         /\ serialFd' \in -1 .. MaxFd - 1 /\ raced' \subseteq DOMAIN plan
<1>1. Control(k)' /\ Quiet(k) /\ Turns(k)
  <2>1. CASE SerialDies(k)
    <3>1. UNCHANGED <<th, fds>> /\ th[k].at \in {"line", "config"}
      BY <2>1 DEF SerialDies, LineOfOne, SerialConfigDies, At
    <3>2. QED
      BY <3>1, StandsStill DEF Quiet, Ends
  <2>2. CASE SerialItem(k) \/ SerialOpen(k) \/ SerialConfig(k) \/ Echo(k) \/ ClosePort(k)
    BY <2>2, SerialItemControl, SerialOpenControl, SerialConfigControl, EchoControl, ClosePortControl
  <2>3. CASE OpenCan(k) \/ CanTest(k) \/ Rs485Test(k) \/ LineBegin(k) \/ SerialAnswer(k)
    BY <2>3, OpenCanControl, CanTestControl, Rs485TestControl, LineBeginControl, SerialAnswerControl
  <2>4. CASE LineOpen(k) \/ SendFails(k) \/ Exchange(k) \/ LineClose(k) \/ SerialRetry(k)
    BY <2>4, LineOpenControl, SendFailsControl, ExchangeControl, LineCloseControl, SerialRetryControl
  <2>5. QED
    BY <2>1, <2>2, <2>3, <2>4 DEF SerialStep
<1>2. SerialOpen(k) \/ UNCHANGED serialVars
  BY DEF SerialStep, SerialItem, SerialConfig, Echo, ClosePort, OpenCan, CanTest, Rs485Test, Exchanges,
   LineBegin, SerialAnswer, LineOpen, SendFails, Exchange, LineClose, SerialRetry, SerialDies, LineOfOne, SerialConfigDies, serialVars
<1>3. CASE SerialOpen(k)
  <2>1. serialFd' = th'[k].fd /\ raced' \in {raced, raced \cup Opening \cup {k}}
    BY <1>3 DEF SerialOpen
  <2>2. th'[k].fd \in -1 .. MaxFd - 1
    BY <1>1 DEF Control, LocalsOf
  <2>3. QED
    BY <1>1, <2>1, <2>2 DEF Shape, Opening
<1>4. CASE UNCHANGED serialVars
  BY <1>1, <1>4 DEF Shape, serialVars
<1>5. QED
  BY <1>2, <1>3, <1>4

\* The steps of the key test.
LEMMA KeyControl ==
  ASSUME Shape, NEW k \in DOMAIN plan, Control(k), plan' = plan, KeyStep(k)
  PROVE  /\ Control(k)' /\ Quiet(k) /\ Turns(k)
         /\ keyPath' \in [KeyNames -> DOMAIN EventNodes \cup {None}]
<1>1. Control(k)' /\ Quiet(k) /\ Turns(k)
  <2>1. CASE KeyLoop(k) \/ ScanNode(k) \/ NodeName(k) \/ ScanEnds(k) \/ TargetOpen(k)
    BY <2>1, KeyLoopControl, ScanNodeControl, NodeNameControl, ScanEndsControl, TargetOpenControl
  <2>2. CASE TargetsEnd(k) \/ KeyTimeout(k) \/ KeyNoise(k)
    BY <2>2, TargetsEndControl, KeyTimeoutControl, KeyNoiseControl
  <2>3. CASE \E x \in DOMAIN plan[k].items : KeyEvent(k, x)
    BY <2>3, KeyEventControl
  <2>4. QED
    BY <2>1, <2>2, <2>3 DEF KeyStep
<1>2. UNCHANGED keyPath
      \/ (th[k].at = "name" /\ EventNodes[th[k].n] # None
           /\ keyPath' = [keyPath EXCEPT ![EventNodes[th[k].n]] = th[k].n])
  BY DEF KeyStep, KeyLoop, ScanNode, NodeName, ScanEnds, TargetOpen, TargetsEnd, KeyTimeout, KeyNoise,
   KeyEvent, At
<1>3. CASE UNCHANGED keyPath
  BY <1>1, <1>3 DEF Shape
<1>4. CASE th[k].at = "name" /\ EventNodes[th[k].n] # None
           /\ keyPath' = [keyPath EXCEPT ![EventNodes[th[k].n]] = th[k].n]
  <2>1. th[k].n \in DOMAIN EventNodes /\ EventNodes[th[k].n] \in KeyNames
    BY <1>4 DEF Control, LocalsOf, KeyNames
  <2>2. QED
    BY <1>1, <1>4, <2>1 DEF Shape
<1>5. QED
  BY <1>2, <1>3, <1>4

\* The steps of the tests of one device.
LEMMA DeviceControl ==
  ASSUME Shape, NEW k \in DOMAIN plan, Control(k), plan' = plan, DeviceStep(k)
  PROVE  /\ Control(k)' /\ Quiet(k) /\ Turns(k)
         /\ rtcFd' \in -1 .. MaxFd - 1 /\ clockRaced' \subseteq DOMAIN plan
<1>1. Control(k)' /\ Quiet(k) /\ Turns(k)
  <2>1. CASE Device(k)
    <3>1. \/ AccessOpen(k) \/ AccessClose(k) \/ Exported(k) \/ Misleads(k)
          \/ \E accesses, requests \in Nat : Request(k, accesses, requests)
      BY <2>1 DEF Device, Vendor, GetHwid, Pin, GetInterfaceIp, PrefixInside, ReadAdc, CapturePng,
       EmptyFrame, Access
    <3>2. QED
      BY <3>1, AccessOpenControl, AccessCloseControl, ExportedControl, MisleadsControl, RequestControl
  <2>2. CASE Dies(k)
    <3>1. UNCHANGED <<th, fds>> /\ th[k].at = "request"
      BY <2>2 DEF Dies, PipeBreaks, NotANumber, At
    <3>2. QED
      BY <3>1, StandsStill DEF Quiet, Ends
  <2>3. CASE DeviceItem(k) \/ DeviceEnds(k) \/ Lamp(k)
    BY <2>3, DeviceItemControl, DeviceEndsControl, LampControl
  <2>4. CASE RtcOpen(k) \/ RtcSet(k) \/ RtcGet(k) \/ RtcClose(k)
    BY <2>4, RtcOpenControl, RtcSetControl, RtcGetControl, RtcCloseControl
  <2>5. QED
    BY <2>1, <2>2, <2>3, <2>4 DEF DeviceStep
<1>2. RtcOpen(k) \/ UNCHANGED <<rtcFd, clockRaced>>
  BY DEF DeviceStep, Device, Dies, DeviceItem, DeviceEnds, Lamp, RtcSet, RtcGet, RtcClose, rtcVars
<1>3. CASE RtcOpen(k)
  <2>1. rtcFd' = th'[k].fd /\ clockRaced' \in {clockRaced, clockRaced \cup RtcOthers(k) \cup {k}}
    BY <1>3 DEF RtcOpen
  <2>2. th'[k].fd \in -1 .. MaxFd - 1
    BY <1>1 DEF Control, LocalsOf
  <2>3. QED
    BY <1>1, <2>1, <2>2 DEF Shape, RtcOthers
<1>4. CASE UNCHANGED <<rtcFd, clockRaced>>
  BY <1>1, <1>4 DEF Shape
<1>5. QED
  BY <1>2, <1>3, <1>4

\* The steps of the tests of the radios.
LEMMA RadioControl ==
  ASSUME Shape, NEW k \in DOMAIN plan, Control(k), plan' = plan, RadioStep(k)
  PROVE  /\ Control(k)' /\ Quiet(k) /\ Turns(k)
         /\ scanCount' \in -1 .. Scans /\ btCount' \in -1 .. 1
         /\ btDevices' \in DOMAIN plan \cup {None} /\ btRaced' \subseteq DOMAIN plan
<1>1. Control(k)' /\ Quiet(k) /\ Turns(k)
  <2>1. CASE WifiSpent(k) \/ WifiScan(k) \/ WifiResults(k)
    BY <2>1, WifiSpentControl, WifiScanControl, WifiResultsControl
  <2>2. CASE BtFree(k) \/ BtOpen(k) \/ BtInquiry(k)
    BY <2>2, BtFreeControl, BtOpenControl, BtInquiryControl
  <2>3. CASE BtFill(k) \/ BtClose(k) \/ BtResult(k) \/ BtRead(k)
    BY <2>3, BtFillControl, BtCloseControl, BtResultControl, BtReadControl
  <2>4. CASE BtGone(k)
    <3>1. UNCHANGED <<th, fds>> /\ th[k].at \in {"btFill", "btRead"}
      BY <2>4 DEF BtGone, At
    <3>2. QED
      BY <3>1, StandsStill DEF Quiet, Ends
  <2>5. QED
    BY <2>1, <2>2, <2>3, <2>4 DEF RadioStep
<1>2. /\ scanCount' \in {scanCount, -1} \/ (scanCount > 0 /\ scanCount' = scanCount - 1)
      /\ btCount' \in {btCount, -1, 0, 1} /\ btDevices' \in {btDevices, None, k}
      /\ btRaced' \in {btRaced, btRaced \cup BtOthers(k) \cup {k}}
  BY DEF RadioStep, WifiSpent, WifiScan, WifiResults, BtFree, BtOpen, BtInquiry, BtFill, BtClose, BtResult,
   BtRead, BtGone, radioVars, wifiOnly
<1>3. scanCount' \in -1 .. Scans
  BY <1>2, RadioAssumption DEF Shape
<1>4. QED
  BY <1>1, <1>2, <1>3 DEF Shape, BtOthers

\* The table of descriptors after a step of k.
LEMMA TurnsShape ==
  ASSUME Shape, NEW k \in DOMAIN plan, Turns(k), plan' = plan
  PROVE  /\ DOMAIN th' = DOMAIN plan' /\ \A j \in DOMAIN plan : DOMAIN th'[j] = Fields
         /\ DOMAIN fds' = 0 .. MaxFd - 1
         /\ \A n \in DOMAIN fds' : fds'[n] = Closed \/ fds'[n].by \in DOMAIN plan
<1>1. DOMAIN th' = DOMAIN plan' /\ \A j \in DOMAIN plan : DOMAIN th'[j] = Fields
  BY DEF Turns, Shape
<1>2. CASE Keeps
  BY <1>1, <1>2 DEF Keeps, Shape
<1>3. CASE \E file : Takes(k, file)
  <2>1. PICK file : Takes(k, file)
    BY <1>3
  <2> DEFINE d == [by |-> k, file |-> file]
  <2>2. fds' = [fds EXCEPT ![Lowest] = d] /\ d.by = k
    BY <2>1 DEF Takes
  <2> HIDE DEF d
  <2>3. QED
    BY <1>1, <2>2 DEF Shape
<1>4. CASE \E ns : Drops(ns)
  BY <1>1, <1>4 DEF Drops, Shape
<1>5. QED
  BY <1>2, <1>3, <1>4 DEF Turns

\* The other threads stay where they are.
LEMMA OthersStay ==
  ASSUME NEW k, NEW j \in DOMAIN th \ {k}, Turns(k), plan' = plan, Control(j)
  PROVE  th'[j] = th[j] /\ Control(j)'
<1>1. th'[j] = th[j]
  BY DEF Turns
<1>2. QED
  BY <1>1 DEF Control, LocalsOf, ControlOf, ItemsOf, Points, AtItem, AtLine

\* The tests begin with the control of a thread that has not started.
LEMMA TypedInit ==
  ASSUME Init
  PROVE  Typed
<1>1. Shape
  <2>1. /\ DOMAIN th = DOMAIN plan /\ \A k \in DOMAIN plan : th[k] = Fresh
    BY DEF Init
  <2>2. DOMAIN Fresh = Fields
    BY DEF Fresh, Fields
  <2>3. 0 \in 0 .. Width - 1
    BY ResponderAssumption
  <2>4. keyPath \in [KeyNames -> DOMAIN EventNodes \cup {None}]
    BY DEF Init
  <2>5. scanCount \in -1 .. Scans /\ -1 \in -1 .. MaxFd - 1
    BY RadioAssumption, MaxFdAssumption DEF Init
  <2>6. DOMAIN fds = 0 .. MaxFd - 1 /\ \A n \in DOMAIN fds : fds[n] = Closed
    BY DEF Init
  <2>7. QED
    BY <2>1, <2>2, <2>3, <2>4, <2>5, <2>6 DEF Init, Shape
<1>2. ASSUME NEW k \in DOMAIN plan PROVE Control(k)
  <2>1. /\ th[k] = Fresh /\ Len(plan[k].items) \in Nat
    BY PlanItems DEF Init
  <2>2. /\ th[k].at = "idle" /\ th[k].fd = -1 /\ th[k].n = 0 /\ th[k].try = 0 /\ th[k].line = 0
        /\ th[k].frame = None /\ th[k].items = <<>> /\ th[k].item = 1 /\ th[k].shown = {}
        /\ th[k].result = "true"
    BY <2>1 DEF Fresh
  <2>3. LocalsOf(k)
    BY <2>2, MaxFdAssumption DEF LocalsOf
  <2>4. ControlOf(k)
    BY <2>1, <2>2 DEF ControlOf, AtItem, AtLine, RtcAt, WifiAt, BtAt
  <2>5. "idle" \notin Points(k)
    BY DEF Points, SerialAt, KeyAt, RtcAt, WifiAt, BtAt, DeviceAt
  <2>6. ItemsOf(k)
    BY <2>1, <2>2, <2>5 DEF ItemsOf
  <2>7. QED
    BY <2>3, <2>4, <2>6 DEF Control
<1>3. QED
  BY <1>1, <1>2 DEF Typed

\* What every step of a test or of the command thread does.
LEMMA StepControl ==
  ASSUME Shape, NEW k \in DOMAIN plan, Control(k), plan' = plan, Command(k) \/ Test(k)
  PROVE  Control(k)' /\ Turns(k)
  BY CommandControl, SerialControl, KeyControl, DeviceControl, RadioControl, SendControl DEF Command, Test

\* The process may end in a step, and does not come back.
LEMMA AliveStep ==
  ASSUME Typed, NEW k \in DOMAIN plan, plan' = plan, Command(k) \/ Test(k)
  PROVE  (alive' = alive \/ alive' = FALSE) /\ (alive' => alive)
<1>0. alive \in BOOLEAN
  BY DEF Typed, Shape
<1>1. ASSUME Command(k) PROVE alive' = alive \/ alive' = FALSE
  BY <1>1 DEF Command, Dispatch, Stop
<1>2. ASSUME SerialStep(k) PROVE alive' = alive \/ alive' = FALSE
  BY <1>2 DEF SerialStep, SerialDies, LineOfOne, SerialConfigDies
<1>3. ASSUME KeyStep(k) PROVE alive' = alive \/ alive' = FALSE
  BY <1>3 DEF KeyStep
<1>4. ASSUME DeviceStep(k) PROVE alive' = alive \/ alive' = FALSE
  BY <1>4 DEF DeviceStep, Device, Dies
<1>5. ASSUME RadioStep(k) PROVE alive' = alive \/ alive' = FALSE
  BY <1>5 DEF RadioStep, BtFill, BtClose, BtResult, BtRead, BtGone
<1>6. ASSUME SendStep(k) PROVE alive' = alive \/ alive' = FALSE
  <2>1. DOMAIN th[k] = Fields /\ k \in DOMAIN th
    BY DEF Typed, Shape
  <2>2. QED
    BY <1>6, <2>1, SendPackView DEF SendStep, SendWrite
<1>7. alive' = alive \/ alive' = FALSE
  BY <1>1, <1>2, <1>3, <1>4, <1>5, <1>6 DEF Test
<1>8. QED
  BY <1>0, <1>7

\* A step of one thread keeps the types and the control of all.
LEMMA TypedStep ==
  ASSUME Typed, NEW k \in DOMAIN plan, plan' = plan, Command(k) \/ Test(k)
  PROVE  Typed'
<1>1. Shape /\ Control(k)
  BY DEF Typed
<1>2. Control(k)' /\ Turns(k)
  BY <1>1, StepControl
<1>3. \A j \in DOMAIN plan' : Control(j)'
  <2>1. TAKE j \in DOMAIN plan'
  <2>2. CASE j = k
    BY <1>2, <2>2
  <2>3. CASE j # k
    BY <1>1, <1>2, <2>3, OthersStay DEF Typed, Shape
  <2>4. QED
    BY <2>2, <2>3
<1>4. /\ DOMAIN th' = DOMAIN plan' /\ \A j \in DOMAIN plan : DOMAIN th'[j] = Fields
      /\ DOMAIN fds' = 0 .. MaxFd - 1
      /\ \A n \in DOMAIN fds' : fds'[n] = Closed \/ fds'[n].by \in DOMAIN plan
  BY <1>1, <1>2, TurnsShape
<1>5. alive' \in BOOLEAN /\ stopped' \subseteq DOMAIN plan
  <2>1. CASE Command(k)
    <3>1. 1 .. k - 1 \subseteq DOMAIN plan
      BY <1>1, PlanIndices DEF Shape
    <3>2. QED
      BY <1>1, <2>1, <3>1 DEF Command, Dispatch, Stop, Shape
  <2>2. CASE Test(k)
    <3>1. stopped' = stopped
      BY <2>2 DEF Test
    <3>2. alive' = alive \/ alive' = FALSE
      BY <1>1, AliveStep DEF Typed
    <3>3. QED
      BY <1>1, <3>1, <3>2 DEF Shape
  <2>3. QED
    BY <2>1, <2>2
<1>6. serialFd' \in -1 .. MaxFd - 1 /\ raced' \subseteq DOMAIN plan
  <2>1. SerialStep(k) \/ UNCHANGED serialVars
    BY DEF Command, Test
  <2>2. QED
    BY <1>1, <2>1, SerialControl DEF serialVars, Shape
<1>7. keyPath' \in [KeyNames -> DOMAIN EventNodes \cup {None}]
  <2>1. KeyStep(k) \/ UNCHANGED keyPath
    BY DEF Command, Test
  <2>2. QED
    BY <1>1, <2>1, KeyControl DEF Shape
<1>8. rtcFd' \in -1 .. MaxFd - 1 /\ clockRaced' \subseteq DOMAIN plan
  <2>1. DeviceStep(k) \/ UNCHANGED rtcVars
    BY DEF Command, Test
  <2>2. QED
    BY <1>1, <2>1, DeviceControl DEF rtcVars, Shape
<1>9. /\ scanCount' \in -1 .. Scans /\ btCount' \in -1 .. 1
      /\ btDevices' \in DOMAIN plan \cup {None} /\ btRaced' \subseteq DOMAIN plan
  <2>1. RadioStep(k) \/ UNCHANGED radioVars
    BY DEF Command, Test
  <2>2. QED
    BY <1>1, <2>1, RadioControl DEF radioVars, Shape
<1>10. crossed' \subseteq DOMAIN plan /\ reportCmdIndex' \in 0 .. Width - 1
  <2>1. CASE SendStep(k)
    <3>1. reportCmdIndex' \in 0 .. Width - 1
      BY <1>1, <2>1, SendControl
    <3>2. crossed' \in {crossed, crossed \cup Senders(k) \cup {k}}
      BY <2>1 DEF SendStep, SendNumber, SendPack, SendWrite, responderVars
    <3>3. QED
      BY <1>1, <3>1, <3>2 DEF Senders, Shape
  <2>2. CASE UNCHANGED responderVars
    BY <1>1, <2>2 DEF responderVars, Shape
  <2>3. QED
    BY <2>1, <2>2 DEF Command, Test
<1>11. Shape'
  BY <1>1, <1>4, <1>5, <1>6, <1>7, <1>8, <1>9, <1>10 DEF Shape
<1>12. QED
  BY <1>3, <1>11 DEF Typed

\* A step of the system that is not a step of a test changes nothing.
LEMMA NextSteps ==
  ASSUME Typed, [Next]_vars
  PROVE  plan' = plan /\ (UNCHANGED vars \/ \E k \in DOMAIN plan : Command(k) \/ Test(k))
  BY DEF Next, Finished, vars, base, Typed, Shape

\* And so does a step that changes nothing.
LEMMA TypedStutter ==
  ASSUME Typed, UNCHANGED vars
  PROVE  Typed'
<1>1. Shape'
  <2>1. Shape
    BY DEF Typed
  <2>2. QED
    BY <2>1 DEF Shape, vars, base, serialVars, rtcVars, radioVars, responderVars
<1>2. ASSUME NEW k \in DOMAIN plan' PROVE Control(k)'
  <2>1. Shape /\ Control(k) /\ k \in DOMAIN plan /\ plan' = plan /\ UNCHANGED <<th, fds>>
    BY DEF Typed, vars, base
  <2>2. QED
    BY <2>1, StandsStill
<1>3. QED
  BY <1>1, <1>2 DEF Typed

\* The inductive invariant behind it: every variable has its shape, and every
\* thread is at a point of its test with the locals and the verdicts that point
\* can have.
THEOREM TypeInductive == Spec => []Typed
<1>1. Init => Typed
  BY TypedInit
<1>2. Typed /\ [Next]_vars => Typed'
  BY NextSteps, TypedStep, TypedStutter
<1>3. QED
  BY <1>1, <1>2, PTL DEF Spec

\* Every variable has its type, and every thread is at a point of its own
\* test, with a verdict at most for each of its items.
THEOREM TypeCorrect == Spec => []TypeOK
<1>1. Typed => TypeOK
  <2>1. ASSUME Typed PROVE TypeOK
    <3>1. Shape
      BY <2>1 DEF Typed
    <3>2. \A name \in KeyNames : keyPath[name] \in DOMAIN EventNodes \cup {None}
      BY <3>1 DEF Shape
    <3>3. ASSUME NEW k \in DOMAIN plan
          PROVE  /\ th[k].fd \in -1 .. MaxFd - 1
                 /\ \A x \in DOMAIN th[k].items : th[k].items[x] \in {"OK", "NG", "SKIP", "none"}
                 /\ Len(th[k].items) <= Len(plan[k].items) /\ th[k].shown \subseteq DOMAIN plan[k].items
                 /\ th[k].result \in {"true", "false", "none"}
      <4>1. Control(k)
        BY <2>1 DEF Typed
      <4>2. \A x \in DOMAIN th[k].items : th[k].items[x] \in Verdicts
        BY <4>1 DEF Control, ItemsOf
      <4>3. QED
        BY <4>1, <4>2 DEF Control, LocalsOf, ItemsOf, Verdicts
    <3>4. QED
      BY <3>1, <3>2, <3>3 DEF Shape, TypeOK
  <2>2. QED
    BY <2>1
<1>2. QED
  BY <1>1, TypeInductive, PTL

\* The answers packed are no more than the commands.
LEMMA PackedFinite ==
  ASSUME Shape
  PROVE  IsFiniteSet(Packed) /\ Cardinality(Packed) \in Nat /\ Cardinality(Packed) <= Len(plan)
<1>1. IsFiniteSet(DOMAIN plan) /\ Cardinality(DOMAIN plan) = Len(plan)
  BY PlanIndices DEF Shape
<1>2. Packed \subseteq DOMAIN plan
  BY DEF Packed
<1>3. QED
  BY <1>1, <1>2, FS_Subset, FS_CardinalityType

\* One more answer is packed.
LEMMA PackedOne ==
  ASSUME Shape, NEW k \in DOMAIN plan, k \notin Packed
  PROVE  /\ Cardinality(Packed \cup {k}) = Cardinality(Packed) + 1
         /\ Cardinality(Packed) + 1 <= Len(plan)
<1>1. IsFiniteSet(DOMAIN plan) /\ Cardinality(DOMAIN plan) = Len(plan)
  BY PlanIndices DEF Shape
<1>2. Packed \cup {k} \subseteq DOMAIN plan /\ IsFiniteSet(Packed)
  BY PackedFinite DEF Packed
<1>3. Cardinality(Packed \cup {k}) = Cardinality(Packed) + 1
  BY <1>2, FS_AddElement
<1>4. QED
  BY <1>1, <1>2, <1>3, FS_Subset

\* Steps that neither pack nor send leave the numbers alone.
LEMMA SendsQuiet ==
  ASSUME Typed, Sends, NEW k \in DOMAIN plan, plan' = plan, Turns(k), Quiet(k), Control(k)',
         UNCHANGED responderVars, alive' => alive
  PROVE  Sends'
<1>1. th[k].frame = None /\ th'[k].frame = None /\ th[k].at \notin Ends
  BY DEF Typed, Control, ControlOf, Quiet, Ends
<1>2. \A j \in DOMAIN plan : j # k => th'[j] = th[j]
  BY DEF Turns, Typed, Shape
<1>3. Packed' = Packed
  <2>1. k \notin Packed /\ k \notin Packed'
    BY <1>1 DEF Packed, Quiet, Ends
  <2>2. \A j \in DOMAIN plan : j # k => (j \in Packed <=> j \in Packed')
    BY <1>2 DEF Packed
  <2>3. QED
    BY <2>1, <2>2 DEF Packed
<1>4. \A j \in Packed : Number(j)' = Number(j) /\ j # k
  BY <1>1, <1>2 DEF Packed, Number, Ends
<1>5. \A j \in DOMAIN plan : th'[j].at = "pack" => th[j].at = "pack" /\ th'[j] = th[j]
  BY <1>2 DEF Quiet
<1>6. crossed' = crossed /\ reportCmdIndex' = reportCmdIndex
  BY DEF responderVars
<1>7. SendersRaced' /\ Counter'
  BY <1>3, <1>5, <1>6 DEF Sends, SendersRaced, Counter
<1>8. ASSUME NEW j \in DOMAIN plan' PROVE CounterOf(j)' /\ NumberOf(j)' /\ FrameOf(j)'
  <2>1. CounterOf(j)'
    BY <1>3, <1>5, <1>6 DEF Sends, CounterOf
  <2>2. NumberOf(j)'
    BY <1>3, <1>4, <1>5, <1>6 DEF Sends, NumberOf
  <2>3. FrameOf(j)'
    BY <1>1, <1>2 DEF Sends, FrameOf, Quiet
  <2>4. QED
    BY <2>1, <2>2, <2>3
<1>9. QED
  BY <1>7, <1>8 DEF Sends

\* Taking the number of an answer.
LEMMA SendsNumber ==
  ASSUME Typed, Sends, NEW k \in DOMAIN plan, plan' = plan, SendNumber(k), UNCHANGED alive
  PROVE  Sends'
<1>1. k \in DOMAIN th /\ DOMAIN th[k] = Fields
  BY DEF Typed, Shape
<1>2. /\ th[k].at = "send" /\ alive /\ UNCHANGED reportCmdIndex
      /\ crossed' = IF Senders(k) = {} THEN crossed ELSE crossed \cup Senders(k) \cup {k}
      /\ Changes(k, {"at", "n"}) /\ th'[k].at = "pack" /\ th'[k].n = reportCmdIndex
  BY <1>1, SendNumberView DEF At
<1>3. th[k].frame = None /\ th'[k].frame = None
  BY <1>1, <1>2 DEF Changes, Fields, Typed, Control, ControlOf
<1>4. \A j \in DOMAIN plan : j # k => th'[j] = th[j]
  BY <1>2 DEF Changes, Typed, Shape
<1>5. Packed' = Packed /\ k \notin Packed
  <2>1. k \notin Packed /\ k \notin Packed'
    BY <1>2, <1>3 DEF Packed
  <2>2. \A j \in DOMAIN plan : j # k => (j \in Packed <=> j \in Packed')
    BY <1>4 DEF Packed
  <2>3. QED
    BY <2>1, <2>2 DEF Packed
<1>6. \A j \in Packed : Number(j)' = Number(j) /\ j # k
  BY <1>4, <1>5 DEF Packed, Number
<1>7. crossed \subseteq crossed' /\ \A j \in DOMAIN plan : j # k /\ th[j].at = "pack" => {j, k} \subseteq crossed'
  <2>1. \A j \in DOMAIN plan : j # k /\ th[j].at = "pack" => j \in Senders(k)
    BY DEF Senders, Typed, Shape
  <2>2. QED
    BY <1>2, <2>1
<1>8. SendersRaced'
  BY <1>2, <1>4, <1>7 DEF Sends, SendersRaced
<1>9. Counter'
  BY <1>2, <1>5 DEF Sends, Counter
<1>10. ASSUME NEW j \in DOMAIN plan' PROVE CounterOf(j)' /\ NumberOf(j)' /\ FrameOf(j)'
  <2>1. CounterOf(j)'
    <3>1. CASE j = k
      BY <1>2, <1>5, <3>1 DEF Sends, Counter, CounterOf
    <3>2. CASE j # k
      BY <1>2, <1>4, <1>5, <1>7, <3>2 DEF Sends, CounterOf
    <3>3. QED
      BY <3>1, <3>2
  <2>2. NumberOf(j)'
    BY <1>2, <1>4, <1>5, <1>6, <1>7 DEF Sends, NumberOf
  <2>3. FrameOf(j)'
    BY <1>2, <1>3, <1>4 DEF Sends, FrameOf
  <2>4. QED
    BY <2>1, <2>2, <2>3
<1>11. QED
  BY <1>8, <1>9, <1>10 DEF Sends

\* Writing the counter back.
LEMMA SendsPack ==
  ASSUME Typed, Sends, NEW k \in DOMAIN plan, plan' = plan, SendPack(k)
  PROVE  Sends'
<1>1. k \in DOMAIN th /\ DOMAIN th[k] = Fields /\ Shape
  BY DEF Typed, Shape
<1>2. /\ th[k].at = "pack" /\ alive /\ crossed' = crossed /\ reportCmdIndex' = (th[k].n + 1) % Width
      /\ \/ alive' = FALSE /\ UNCHANGED <<th, fds>>
         \/ Changes(k, {"at", "try"}) /\ th'[k].at = "write" /\ th'[k].try \in Lengths /\ UNCHANGED alive
  BY <1>1, SendPackView DEF At
<1>3. th[k].frame = None /\ th[k].n \in Nat /\ k \notin Packed
  BY <1>2 DEF Typed, Control, ControlOf, LocalsOf, Packed
<1>4. CASE alive' = FALSE /\ UNCHANGED <<th, fds>>
  <2>1. Packed' = Packed /\ \A j : Number(j)' = Number(j)
    BY <1>4 DEF Packed, Number
  <2>2. SendersRaced' /\ Counter'
    BY <1>2, <1>4 DEF Sends, SendersRaced, Counter
  <2>3. ASSUME NEW j \in DOMAIN plan' PROVE CounterOf(j)' /\ NumberOf(j)' /\ FrameOf(j)'
    <3>1. CounterOf(j)'
      BY <1>4 DEF CounterOf
    <3>2. NumberOf(j)'
      BY <1>2, <1>4, <2>1 DEF Sends, NumberOf
    <3>3. FrameOf(j)'
      BY <1>4 DEF Sends, FrameOf
    <3>4. QED
      BY <3>1, <3>2, <3>3
  <2>4. QED
    BY <2>2, <2>3 DEF Sends
<1>5. CASE Changes(k, {"at", "try"}) /\ th'[k].at = "write" /\ th'[k].try \in Lengths /\ UNCHANGED alive
  <2>1. th'[k].frame = None /\ th'[k].n = th[k].n
    BY <1>1, <1>3, <1>5 DEF Changes, Fields
  <2>2. \A j \in DOMAIN plan : j # k => th'[j] = th[j]
    BY <1>5 DEF Changes, Typed, Shape
  <2>3. Packed' = Packed \cup {k}
    <3>1. k \in Packed'
      BY <1>5 DEF Packed
    <3>2. \A j \in DOMAIN plan : j # k => (j \in Packed <=> j \in Packed')
      BY <2>2 DEF Packed
    <3>3. QED
      BY <3>1, <3>2 DEF Packed
  <2>4. (\A j \in Packed : Number(j)' = Number(j) /\ j # k) /\ Number(k)' = th[k].n
    BY <1>3, <2>1, <2>2 DEF Packed, Number
  <2>5. /\ Cardinality(Packed') = Cardinality(Packed) + 1 /\ Cardinality(Packed) \in Nat
        /\ Cardinality(Packed) + 1 <= Len(plan) /\ Len(plan) < Width /\ Len(plan) \in Nat
    BY <1>1, <1>3, <2>3, PackedOne, PackedFinite, PlanIndices DEF Shape
  <2>6. th[k].n <= Cardinality(Packed) /\ (k \notin crossed => reportCmdIndex = th[k].n)
    BY <1>2 DEF Sends, CounterOf
  <2>7. reportCmdIndex' = th[k].n + 1
    <3> DEFINE next == th[k].n + 1
    <3>1. next \in 0 .. Width - 1 /\ Width \in Nat
      BY <1>3, <2>5, <2>6, ResponderAssumption
    <3>2. next % Width = next
      BY <3>1
    <3>3. QED
      BY <1>2, <3>2
  <2>8. \A j \in DOMAIN plan : j # k /\ th[j].at = "pack" => {j, k} \subseteq crossed
    BY <1>2 DEF Sends, SendersRaced
  <2>9. \A j \in Packed \ crossed : Number(j) < th[k].n
    BY <1>2 DEF Sends, NumberOf, Packed
  <2>10. \A j \in DOMAIN plan : th[j].n \in Nat /\ (j \in Packed => Number(j) \in Nat)
    BY DEF Typed, Control, LocalsOf, Sends, FrameOf, Number
  <2>11. SendersRaced'
    BY <1>2, <1>5, <2>2 DEF Sends, SendersRaced
  <2>12. Counter'
    BY <1>3, <2>5, <2>6, <2>7 DEF Counter
  <2>13. ASSUME NEW j \in DOMAIN plan' PROVE CounterOf(j)' /\ NumberOf(j)' /\ FrameOf(j)'
    <3>1. CounterOf(j)'
      <4>1. CASE j = k
        BY <1>5, <4>1 DEF CounterOf
      <4>2. CASE j # k
        <5>1. CASE th[j].at = "pack"
          <6>1. th'[j] = th[j] /\ j \in crossed' /\ th[j].n \in Nat
            BY <1>2, <2>2, <2>8, <2>10, <4>2, <5>1
          <6>2. th[j].n <= Cardinality(Packed)
            BY <1>2, <5>1 DEF Sends, CounterOf
          <6>3. th[j].n <= Cardinality(Packed')
            BY <2>5, <6>1, <6>2
          <6>4. QED
            BY <6>1, <6>3 DEF CounterOf
        <5>2. CASE th[j].at # "pack"
          BY <2>2, <4>2, <5>2 DEF CounterOf
        <5>3. QED
          BY <5>1, <5>2
      <4>3. QED
        BY <4>1, <4>2
    <3>2. NumberOf(j)'
      <4>1. CASE j = k
        <5>1. SUFFICES ASSUME k \notin crossed PROVE NumberOf(k)'
          BY <1>2, <4>1 DEF NumberOf
        <5>2. \A i \in DOMAIN plan : th'[i].at # "pack"
          BY <1>5, <2>2, <2>8, <5>1
        <5>3. Number(k)' < reportCmdIndex'
          BY <1>3, <2>4, <2>7
        <5>4. \A i \in Packed' \ crossed' : i # k => Number(i)' # Number(k)'
          <6>1. TAKE i \in Packed' \ crossed'
          <6>2. HAVE i # k
          <6>3. i \in Packed \ crossed /\ Number(i) \in Nat
            BY <1>2, <2>3, <2>10, <6>2 DEF Packed
          <6>4. QED
            BY <1>3, <2>4, <2>9, <6>3
        <5>5. QED
          BY <5>2, <5>3, <5>4 DEF NumberOf
      <4>2. CASE j # k
        <5>1. SUFFICES ASSUME j \in Packed \ crossed PROVE NumberOf(j)'
          BY <1>2, <2>3, <4>2 DEF NumberOf
        <5>2. Number(j)' = Number(j) /\ Number(j) \in Nat /\ Number(j) < th[k].n
          BY <2>4, <2>9, <2>10, <5>1
        <5>3. Number(j)' < reportCmdIndex'
          BY <1>3, <2>7, <5>2
        <5>4. \A i \in DOMAIN plan : th'[i].at = "pack" => Number(j)' < th'[i].n
          BY <1>2, <1>5, <2>2, <5>1, <5>2 DEF Sends, NumberOf
        <5>5. \A i \in Packed' \ crossed' : i # j => Number(i)' # Number(j)'
          <6>1. TAKE i \in Packed' \ crossed'
          <6>2. HAVE i # j
          <6>3. CASE i = k
            BY <1>3, <2>4, <5>2, <6>3
          <6>4. CASE i # k
            <7>1. i \in Packed \ crossed /\ Number(i)' = Number(i)
              BY <1>2, <2>3, <2>4, <6>4
            <7>2. QED
              BY <5>1, <5>2, <6>2, <7>1 DEF Sends, NumberOf
          <6>5. QED
            BY <6>3, <6>4
        <5>6. QED
          BY <5>3, <5>4, <5>5 DEF NumberOf
      <4>3. QED
        BY <4>1, <4>2
    <3>3. FrameOf(j)'
      BY <1>5, <2>1, <2>2 DEF Sends, FrameOf
    <3>4. QED
      BY <3>1, <3>2, <3>3
  <2>14. QED
    BY <2>11, <2>12, <2>13 DEF Sends
<1>6. QED
  BY <1>2, <1>4, <1>5

\* What a frame of a length says and how much of it there is.
LEMMA FrameFits ==
  ASSUME NEW index \in Nat, NEW length \in Lengths,
         NEW taken \in {TotalLen(length) \div 2, TotalLen(length)},
         NEW f, f = Frame(index, length, taken)
  PROVE  /\ f \in [index : Nat, length : Nat, content : Nat, bytes : Nat]
         /\ f.index = index /\ f.length = length
         /\ length + 9 < Width => f.content = length + 1 /\ f.bytes <= length + 9
<1>1. length \in Nat /\ Width \in Nat /\ Width > 8
  BY ResponderAssumption
<1>2. ContentLen(length) \in 0 .. Width - 1 /\ (length + 9 < Width => ContentLen(length) = length + 1)
  <2> DEFINE content == length + 1
  <2>1. content \in Nat /\ content % Width \in 0 .. Width - 1 /\ (content < Width => content % Width = content)
    BY <1>1
  <2>2. QED
    BY <1>1, <2>1 DEF ContentLen
<1>3. TotalLen(length) \in 0 .. Width - 1 /\ (length + 9 < Width => TotalLen(length) = length + 9)
  <2> DEFINE total == ContentLen(length) + 8
  <2>1. total \in Nat /\ total % Width \in 0 .. Width - 1 /\ (total < Width => total % Width = total)
    BY <1>1, <1>2
  <2>2. QED
    BY <1>1, <1>2, <2>1 DEF TotalLen
<1>4. taken \in Nat /\ taken <= TotalLen(length)
  <2> DEFINE total == TotalLen(length)
  <2>1. total \in Nat
    BY <1>1, <1>3
  <2>2. total \div 2 \in Nat /\ total \div 2 <= total
    BY <2>1
  <2>3. QED
    BY <2>1, <2>2
<1>5. f = [index |-> index, length |-> length, content |-> ContentLen(length), bytes |-> taken]
  BY DEF Frame
<1>6. QED
  BY <1>1, <1>2, <1>3, <1>4, <1>5

\* Writing the frame.
LEMMA SendsWrite ==
  ASSUME Typed, Sends, NEW k \in DOMAIN plan, plan' = plan, SendWrite(k)
  PROVE  Sends'
<1>1. k \in DOMAIN th /\ DOMAIN th[k] = Fields /\ Shape
  BY DEF Typed, Shape
<1>2. /\ th[k].at = "write" /\ alive /\ crossed' = crossed /\ reportCmdIndex' = reportCmdIndex
      /\ alive' = alive /\ Changes(k, {"at", "frame"}) /\ th'[k].at = "done"
  BY <1>1, SendWriteView DEF At
<1>3. PICK taken \in {TotalLen(th[k].try) \div 2, TotalLen(th[k].try)} :
         th'[k].frame = Frame(th[k].n, th[k].try, taken)
  BY <1>1, SendWriteView
<1>4. th[k].frame = None /\ th[k].n \in Nat /\ th[k].try \in Lengths /\ k \in Packed
  BY <1>2 DEF Typed, Control, ControlOf, LocalsOf, Sends, FrameOf, Packed
<1>5. /\ th'[k].frame \in [index : Nat, length : Nat, content : Nat, bytes : Nat]
      /\ th'[k].frame.index = th[k].n
      /\ th'[k].frame.length + 9 < Width =>
           th'[k].frame.content = th'[k].frame.length + 1 /\ th'[k].frame.bytes <= th'[k].frame.content + 8
  <2> DEFINE index == th[k].n
             length == th[k].try
             f == Frame(th[k].n, th[k].try, taken)
  <2>0. index \in Nat /\ length \in Lengths /\ taken \in {TotalLen(length) \div 2, TotalLen(length)}
    BY <1>3, <1>4
  <2>4. f = Frame(index, length, taken)
    OBVIOUS
  <2> HIDE DEF index, length, f
  <2>5. /\ f \in [index : Nat, length : Nat, content : Nat, bytes : Nat]
        /\ f.index = index /\ f.length = length
        /\ length + 9 < Width => f.content = length + 1 /\ f.bytes <= length + 9
    BY <2>0, <2>4, FrameFits
  <2>1. /\ f \in [index : Nat, length : Nat, content : Nat, bytes : Nat]
        /\ f.index = th[k].n /\ f.length = th[k].try
        /\ th[k].try + 9 < Width => f.content = th[k].try + 1 /\ f.bytes <= th[k].try + 9
    BY <2>5 DEF index, length
  <2>2. th[k].try \in Nat /\ f.content \in Nat /\ f.bytes \in Nat
    BY <1>4, <2>1, ResponderAssumption
  <2>3. th'[k].frame = f
    BY <1>3 DEF f
  <2>6. QED
    BY <2>1, <2>2, <2>3
<1>6. th'[k].frame # None
  BY <1>5, ResponderAssumption
<1>7. \A j \in DOMAIN plan : j # k => th'[j] = th[j]
  BY <1>2 DEF Changes, Typed, Shape
<1>8. Packed' = Packed
  <2>1. k \in Packed'
    BY <1>6 DEF Packed
  <2>2. \A j \in DOMAIN plan : j # k => (j \in Packed <=> j \in Packed')
    BY <1>7 DEF Packed
  <2>3. QED
    BY <1>4, <2>1, <2>2 DEF Packed
<1>9. \A j \in Packed : Number(j)' = Number(j)
  BY <1>4, <1>5, <1>6, <1>7 DEF Packed, Number
<1>10. \A j \in DOMAIN plan : th'[j].at = "pack" => th[j].at = "pack" /\ th'[j] = th[j]
  BY <1>2, <1>7
<1>11. SendersRaced' /\ Counter'
  BY <1>2, <1>8, <1>10 DEF Sends, SendersRaced, Counter
<1>12. ASSUME NEW j \in DOMAIN plan' PROVE CounterOf(j)' /\ NumberOf(j)' /\ FrameOf(j)'
  <2>1. CounterOf(j)'
    BY <1>2, <1>8, <1>10 DEF Sends, CounterOf
  <2>2. NumberOf(j)'
    BY <1>2, <1>8, <1>9, <1>10 DEF Sends, NumberOf
  <2>3. FrameOf(j)'
    BY <1>2, <1>5, <1>7 DEF Sends, FrameOf
  <2>4. QED
    BY <2>1, <2>2, <2>3
<1>13. QED
  BY <1>11, <1>12 DEF Sends

\* No answer has been packed at the start.
LEMMA SendsInit ==
  ASSUME Init
  PROVE  Sends
<1>1. \A k \in DOMAIN plan : th[k].at = "idle" /\ th[k].frame = None
  BY DEF Init, Fresh
<1>2. Packed = {}
  BY <1>1 DEF Packed
<1>3. Counter
  BY <1>2, FS_EmptySet DEF Init, Counter
<1>4. QED
  BY <1>1, <1>2, <1>3 DEF Sends, SendersRaced, CounterOf, NumberOf, FrameOf

\* Every step keeps what is known of the numbers.
LEMMA SendsStep ==
  ASSUME Typed, Sends, NEW k \in DOMAIN plan, plan' = plan, Command(k) \/ Test(k)
  PROVE  Sends'
<1>1. CASE SendStep(k)
  BY <1>1, SendsNumber, SendsPack, SendsWrite DEF SendStep
<1>2. CASE ~SendStep(k)
  <2>1. /\ Control(k)' /\ Turns(k) /\ Quiet(k) /\ UNCHANGED responderVars
    BY <1>2, CommandControl, SerialControl, KeyControl, DeviceControl, RadioControl DEF Command, Test, Typed
  <2>2. alive' => alive
    BY <1>2, AliveStep
  <2>3. QED
    BY <2>1, <2>2, SendsQuiet
<1>3. QED
  BY <1>1, <1>2

-----------------------------------------------------------------------------
(***************************************************************************)
(* The line of a serial test through each of its actions: the verdicts and *)
(* the place of the thread go on together.                                 *)
(***************************************************************************)
LEMMA SerialItemLine ==
  ASSUME Shape, NEW k \in DOMAIN plan, Control(k), LineOf(k), plan' = plan,
         SerialItem(k)
  PROVE  Advances(k) /\ Picks(k)
<1>1. th[k].at = "serial" /\ Points(k) = SerialAt /\ plan[k].test = "serial"
  BY TestAt DEF SerialItem, At, Control, ControlOf, SerialAt
<1>2. Known(k) /\ th[k].line = 0
  BY <1>1, KnownOf DEF Known, Control, ControlOf, LocalsOf, AtItem, AtLine, MoreItems, SerialAt, Ends
<1>3. SerialItemWay1(k) \/ SerialItemWay2(k) \/ SerialItemWay3(k)
  BY <1>2, SerialItemView DEF Known
<1> USE <1>1, <1>2 DEF Known, Same, Advances, Picks, LineOf, ItemAt, SerialAt, Kinds, MoreItems
<1>4. CASE SerialItemWay1(k)
  <2>1. (th'[k].at = IF Item(k) = "can" THEN "openCan" ELSE "open") /\ th'[k].line = th[k].line /\ Same(k)
    BY <1>4 DEF SerialItemWay1, Changes, Fields
  <2>2. QED
    BY <1>4, <2>1 DEF SerialItemWay1
<1>5. CASE SerialItemWay2(k)
  <2>1. th'[k].at = th[k].at /\ th'[k].line = th[k].line /\ th'[k].item = th[k].item + 1 /\
        (th'[k].items = Append(th[k].items, IF Item(k) = "off" THEN "SKIP" ELSE "none")) /\
        (Judges(k, IF Item(k) = "off" THEN "SKIP" ELSE "none"))
    BY <1>5 DEF SerialItemWay2, Changes, Judges, Fields
  <2>2. QED
    BY <1>5, <2>1 DEF SerialItemWay2, Judges, Verdicts
<1>6. CASE SerialItemWay3(k)
  <2>1. th'[k].at = "line" /\ th'[k].line = 1 /\ Same(k)
    BY <1>6 DEF SerialItemWay3, Changes, Fields
  <2>2. QED
    BY <1>6, <2>1 DEF SerialItemWay3
<1>7. QED
  BY <1>3, <1>4, <1>5, <1>6

LEMMA SerialOpenLine ==
  ASSUME Shape, NEW k \in DOMAIN plan, Control(k), LineOf(k), plan' = plan,
         SerialOpen(k)
  PROVE  Advances(k) /\ Picks(k)
<1>1. th[k].at = "open" /\ Points(k) = SerialAt /\ plan[k].test = "serial"
  BY TestAt DEF SerialOpen, At, Control, ControlOf, SerialAt
<1>2. Known(k) /\ th[k].line \in {0, 1} /\ (th[k].line = 0 <=> MoreItems(k))
  BY <1>1, KnownOf, SMTT(20) DEF Known, Control, ControlOf, LocalsOf, AtItem, AtLine, MoreItems, SerialAt,
   Ends
<1>3. SerialOpenWay1(k) \/ SerialOpenWay2(k) \/ SerialOpenWay3(k) \/ SerialOpenWay4(k) \/ SerialOpenWay5(k)
  BY <1>2, SerialOpenView DEF Known
<1> USE <1>1, <1>2 DEF Known, Same, Advances, Picks, LineOf, ItemAt, SerialAt, Kinds, MoreItems
<1>4. CASE SerialOpenWay1(k)
  <2>1. th'[k].at = "config" /\ th'[k].line = th[k].line /\ Same(k)
    BY <1>4 DEF SerialOpenWay1, Changes, Fields
  <2>2. QED
    BY <1>4, <2>1 DEF SerialOpenWay1
<1>5. CASE SerialOpenWay2(k)
  <2>1. th'[k].at = "lineOpen" /\ th'[k].line = th[k].line /\ Same(k)
    BY <1>5 DEF SerialOpenWay2, Changes, Fields
  <2>2. QED
    BY <1>5, <2>1 DEF SerialOpenWay2
<1>6. CASE SerialOpenWay3(k)
  <2>1. th'[k].at = "serial" /\ th'[k].line = th[k].line /\
        th'[k].item = th[k].item + 1 /\ th'[k].items = Append(th[k].items, "NG") /\ Judges(k, "NG")
    BY <1>6 DEF SerialOpenWay3, Changes, Judges, Fields
  <2>2. QED
    BY <1>6, <2>1 DEF SerialOpenWay3, Judges, Verdicts
<1>7. CASE SerialOpenWay4(k)
  <2>1. th'[k].at = "again" /\ th'[k].line = th[k].line /\ Same(k)
    BY <1>7 DEF SerialOpenWay4, Changes, Fields
  <2>2. QED
    BY <1>7, <2>1 DEF SerialOpenWay4
<1>8. CASE SerialOpenWay5(k)
  <2>1. th'[k].at = "serial" /\ th'[k].line = th[k].line /\
        th'[k].item = th[k].item + 1 /\ th'[k].items = Append(th[k].items, "NG") /\ Judges(k, "NG")
    BY <1>8 DEF SerialOpenWay5, Changes, Judges, Fields
  <2>2. QED
    BY <1>8, <2>1 DEF SerialOpenWay5, Judges, Verdicts
<1>9. QED
  BY <1>3, <1>4, <1>5, <1>6, <1>7, <1>8

LEMMA SerialConfigLine ==
  ASSUME Shape, NEW k \in DOMAIN plan, Control(k), LineOf(k), plan' = plan,
         SerialConfig(k)
  PROVE  Advances(k) /\ Picks(k)
<1>1. th[k].at = "config" /\ Points(k) = SerialAt /\ plan[k].test = "serial"
  BY TestAt DEF SerialConfig, At, Control, ControlOf, SerialAt
<1>2. Known(k) /\ th[k].line \in {0, 1} /\ (th[k].line = 0 <=> MoreItems(k))
  BY <1>1, KnownOf DEF Known, Control, ControlOf, LocalsOf, AtItem, AtLine, MoreItems, SerialAt, Ends
<1>3. SerialConfigWay1(k) \/ SerialConfigWay2(k) \/ SerialConfigWay3(k) \/ SerialConfigWay4(k) \/ SerialConfigWay5(k) \/ SerialConfigWay6(k)
  BY <1>2, SerialConfigView DEF Known
<1> USE <1>1, <1>2 DEF Known, Same, Advances, Picks, LineOf, ItemAt, SerialAt, Kinds, MoreItems
<1>4. CASE SerialConfigWay1(k)
  <2>1. th'[k].at = "lineOpen" /\ th'[k].line = th[k].line /\ Same(k)
    BY <1>4 DEF SerialConfigWay1, Changes, Fields
  <2>2. QED
    BY <1>4, <2>1 DEF SerialConfigWay1
<1>5. CASE SerialConfigWay2(k)
  <2>1. (th'[k].at = IF Item(k) = "232" THEN "echo" ELSE "probe") /\ th'[k].line = th[k].line /\ Same(k)
    BY <1>5 DEF SerialConfigWay2, Changes, Fields
  <2>2. QED
    BY <1>5, <2>1 DEF SerialConfigWay2
<1>6. CASE SerialConfigWay3(k)
  <2>1. th'[k].at = "lineOpen" /\ th'[k].line = th[k].line /\ Same(k)
    BY <1>6 DEF SerialConfigWay3, Changes, Fields
  <2>2. QED
    BY <1>6, <2>1 DEF SerialConfigWay3
<1>7. CASE SerialConfigWay4(k)
  <2>1. th'[k].at = "serial" /\ th'[k].line = th[k].line /\
        th'[k].item = th[k].item + 1 /\ th'[k].items = Append(th[k].items, "NG") /\ Judges(k, "NG")
    BY <1>7 DEF SerialConfigWay4, Changes, Judges, Fields
  <2>2. QED
    BY <1>7, <2>1 DEF SerialConfigWay4, Judges, Verdicts
<1>8. CASE SerialConfigWay5(k)
  <2>1. th'[k].at = "again" /\ th'[k].line = th[k].line /\ Same(k)
    BY <1>8 DEF SerialConfigWay5, Changes, Fields
  <2>2. QED
    BY <1>8, <2>1 DEF SerialConfigWay5
<1>9. CASE SerialConfigWay6(k)
  <2>1. th'[k].at = "serial" /\ th'[k].line = th[k].line /\
        th'[k].item = th[k].item + 1 /\ th'[k].items = Append(th[k].items, "NG") /\ Judges(k, "NG")
    BY <1>9 DEF SerialConfigWay6, Changes, Judges, Fields
  <2>2. QED
    BY <1>9, <2>1 DEF SerialConfigWay6, Judges, Verdicts
<1>10. QED
  BY <1>3, <1>4, <1>5, <1>6, <1>7, <1>8, <1>9

LEMMA EchoLine ==
  ASSUME Shape, NEW k \in DOMAIN plan, Control(k), LineOf(k), plan' = plan,
         Echo(k)
  PROVE  Advances(k) /\ Picks(k)
<1>1. th[k].at = "echo" /\ Points(k) = SerialAt /\ plan[k].test = "serial"
  BY TestAt DEF Echo, At, Control, ControlOf, SerialAt
<1>2. Known(k) /\ th[k].line = 0 /\ MoreItems(k)
  BY <1>1, KnownOf DEF Known, Control, ControlOf, LocalsOf, AtItem, AtLine, MoreItems, SerialAt, Ends
<1>3. EchoWay1(k) \/ EchoWay2(k) \/ EchoWay3(k)
  BY <1>2, EchoView DEF Known
<1> USE <1>1, <1>2 DEF Known, Same, Advances, Picks, LineOf, ItemAt, SerialAt, Kinds, MoreItems
<1>4. CASE EchoWay1(k)
  <2>1. th'[k].at = th[k].at /\ th'[k].line = th[k].line /\ Same(k)
    BY <1>4 DEF EchoWay1, Changes, Fields
  <2>2. QED
    BY <1>4, <2>1 DEF EchoWay1
<1>5. CASE EchoWay2(k)
  <2>1. th'[k].at = "closePort" /\ th'[k].line = th[k].line /\ Same(k)
    BY <1>5 DEF EchoWay2, Changes, Fields
  <2>2. QED
    BY <1>5, <2>1 DEF EchoWay2
<1>6. CASE EchoWay3(k)
  <2>1. th'[k].at = "closePort" /\ th'[k].line = th[k].line /\ Same(k)
    BY <1>6 DEF EchoWay3, Changes, Fields
  <2>2. QED
    BY <1>6, <2>1 DEF EchoWay3
<1>7. QED
  BY <1>3, <1>4, <1>5, <1>6

LEMMA ClosePortLine ==
  ASSUME Shape, NEW k \in DOMAIN plan, Control(k), LineOf(k), plan' = plan,
         ClosePort(k)
  PROVE  Advances(k) /\ Picks(k)
<1>1. th[k].at = "closePort" /\ Points(k) = SerialAt /\ plan[k].test = "serial"
  BY TestAt DEF ClosePort, At, Control, ControlOf, SerialAt
<1>2. Known(k) /\ th[k].line = 0 /\ MoreItems(k)
  BY <1>1, KnownOf DEF Known, Control, ControlOf, LocalsOf, AtItem, AtLine, MoreItems, SerialAt, Ends
<1>3. ClosePortWay1(k) \/ ClosePortWay2(k) \/ ClosePortWay3(k)
  BY <1>2, ClosePortView DEF Known
<1> USE <1>1, <1>2 DEF Known, Same, Advances, Picks, LineOf, ItemAt, SerialAt, Kinds, MoreItems
<1>4. CASE ClosePortWay1(k)
  <2>1. th'[k].at = "serial" /\ th'[k].line = th[k].line /\
        th'[k].item = th[k].item + 1 /\ th'[k].items = Append(th[k].items, "OK") /\ Judges(k, "OK")
    BY <1>4 DEF ClosePortWay1, Changes, Judges, Fields
  <2>2. QED
    BY <1>4, <2>1 DEF ClosePortWay1, Judges, Verdicts
<1>5. CASE ClosePortWay2(k)
  <2>1. th'[k].at = "again" /\ th'[k].line = th[k].line /\ Same(k)
    BY <1>5 DEF ClosePortWay2, Changes, Fields
  <2>2. QED
    BY <1>5, <2>1 DEF ClosePortWay2
<1>6. CASE ClosePortWay3(k)
  <2>1. th'[k].at = "serial" /\ th'[k].line = th[k].line /\
        th'[k].item = th[k].item + 1 /\ th'[k].items = Append(th[k].items, "NG") /\ Judges(k, "NG")
    BY <1>6 DEF ClosePortWay3, Changes, Judges, Fields
  <2>2. QED
    BY <1>6, <2>1 DEF ClosePortWay3, Judges, Verdicts
<1>7. QED
  BY <1>3, <1>4, <1>5, <1>6

LEMMA OpenCanLine ==
  ASSUME Shape, NEW k \in DOMAIN plan, Control(k), LineOf(k), plan' = plan,
         OpenCan(k)
  PROVE  Advances(k) /\ Picks(k)
<1>1. th[k].at = "openCan" /\ Points(k) = SerialAt /\ plan[k].test = "serial"
  BY TestAt DEF OpenCan, At, Control, ControlOf, SerialAt
<1>2. Known(k) /\ th[k].line = 0 /\ MoreItems(k)
  BY <1>1, KnownOf DEF Known, Control, ControlOf, LocalsOf, AtItem, AtLine, MoreItems, SerialAt, Ends
<1>3. OpenCanWay1(k) \/ OpenCanWay2(k)
  BY <1>2, OpenCanView DEF Known
<1> USE <1>1, <1>2 DEF Known, Same, Advances, Picks, LineOf, ItemAt, SerialAt, Kinds, MoreItems
<1>4. CASE OpenCanWay1(k)
  <2>1. th'[k].at = "probe" /\ th'[k].line = th[k].line /\ Same(k)
    BY <1>4 DEF OpenCanWay1, Changes, Fields
  <2>2. QED
    BY <1>4, <2>1 DEF OpenCanWay1
<1>5. CASE OpenCanWay2(k)
  <2>1. th'[k].at = "serial" /\ th'[k].line = th[k].line /\
        th'[k].item = th[k].item + 1 /\ th'[k].items = Append(th[k].items, "NG") /\ Judges(k, "NG")
    BY <1>5 DEF OpenCanWay2, Changes, Judges, Fields
  <2>2. QED
    BY <1>5, <2>1 DEF OpenCanWay2, Judges, Verdicts
<1>6. QED
  BY <1>3, <1>4, <1>5

LEMMA CanTestLine ==
  ASSUME Shape, NEW k \in DOMAIN plan, Control(k), LineOf(k), plan' = plan,
         CanTest(k)
  PROVE  Advances(k) /\ Picks(k)
<1>1. th[k].at = "probe" /\ Points(k) = SerialAt /\ plan[k].test = "serial"
  BY TestAt DEF CanTest, At, Exchanges, Control, ControlOf, SerialAt
<1>2. Known(k) /\ th[k].line = 0 /\ MoreItems(k)
  BY <1>1, KnownOf DEF Known, Control, ControlOf, LocalsOf, AtItem, AtLine, MoreItems, SerialAt, Ends
<1>3. CanTestWay1(k) \/ CanTestWay2(k) \/ CanTestWay3(k)
  BY <1>2, CanTestView DEF Known
<1> USE <1>1, <1>2 DEF Known, Same, Advances, Picks, LineOf, ItemAt, SerialAt, Kinds, MoreItems
<1>4. CASE CanTestWay1(k)
  <2>1. th'[k].at = "closePort" /\ th'[k].line = th[k].line /\ Same(k)
    BY <1>4 DEF CanTestWay1, Changes, Fields
  <2>2. QED
    BY <1>4, <2>1 DEF CanTestWay1
<1>5. CASE CanTestWay2(k)
  <2>1. th'[k].at = th[k].at /\ th'[k].line = th[k].line /\ Same(k)
    BY <1>5 DEF CanTestWay2, Changes, Fields
  <2>2. QED
    BY <1>5, <2>1 DEF CanTestWay2
<1>6. CASE CanTestWay3(k)
  <2>1. th'[k].at = "closePort" /\ th'[k].line = th[k].line /\ Same(k)
    BY <1>6 DEF CanTestWay3, Changes, Fields
  <2>2. QED
    BY <1>6, <2>1 DEF CanTestWay3
<1>7. QED
  BY <1>3, <1>4, <1>5, <1>6

LEMMA Rs485TestLine ==
  ASSUME Shape, NEW k \in DOMAIN plan, Control(k), LineOf(k), plan' = plan,
         Rs485Test(k)
  PROVE  Advances(k) /\ Picks(k)
<1>1. th[k].at = "probe" /\ Points(k) = SerialAt /\ plan[k].test = "serial"
  BY TestAt DEF Rs485Test, At, Exchanges, Control, ControlOf, SerialAt
<1>2. Known(k) /\ th[k].line = 0 /\ MoreItems(k)
  BY <1>1, KnownOf DEF Known, Control, ControlOf, LocalsOf, AtItem, AtLine, MoreItems, SerialAt, Ends
<1>3. Rs485TestWay1(k) \/ Rs485TestWay2(k) \/ Rs485TestWay3(k) \/ Rs485TestWay4(k)
  BY <1>2, Rs485TestView DEF Known
<1> USE <1>1, <1>2 DEF Known, Same, Advances, Picks, LineOf, ItemAt, SerialAt, Kinds, MoreItems
<1>4. CASE Rs485TestWay1(k)
  <2>1. th'[k].at = "closePort" /\ th'[k].line = th[k].line /\ Same(k)
    BY <1>4 DEF Rs485TestWay1, Changes, Fields
  <2>2. QED
    BY <1>4, <2>1 DEF Rs485TestWay1
<1>5. CASE Rs485TestWay2(k)
  <2>1. th'[k].at = th[k].at /\ th'[k].line = th[k].line /\ Same(k)
    BY <1>5 DEF Rs485TestWay2, Changes, Fields
  <2>2. QED
    BY <1>5, <2>1 DEF Rs485TestWay2
<1>6. CASE Rs485TestWay3(k)
  <2>1. th'[k].at = "closePort" /\ th'[k].line = th[k].line /\ Same(k)
    BY <1>6 DEF Rs485TestWay3, Changes, Fields
  <2>2. QED
    BY <1>6, <2>1 DEF Rs485TestWay3
<1>7. CASE Rs485TestWay4(k)
  <2>1. th'[k].at = "closePort" /\ th'[k].line = th[k].line /\ Same(k)
    BY <1>7 DEF Rs485TestWay4, Changes, Fields
  <2>2. QED
    BY <1>7, <2>1 DEF Rs485TestWay4
<1>8. QED
  BY <1>3, <1>4, <1>5, <1>6, <1>7

LEMMA LineBeginLine ==
  ASSUME Shape, NEW k \in DOMAIN plan, Control(k), LineOf(k), plan' = plan,
         LineBegin(k)
  PROVE  Advances(k) /\ Picks(k)
<1>1. th[k].at = "line" /\ Points(k) = SerialAt /\ plan[k].test = "serial"
  BY TestAt DEF LineBegin, At, Control, ControlOf, SerialAt
<1>2. Known(k) /\ th[k].line \in {1, 2, 3} /\ ~MoreItems(k)
  BY <1>1, KnownOf DEF Known, Control, ControlOf, LocalsOf, AtItem, AtLine, MoreItems, SerialAt, Ends
<1>3. LineBeginWay1(k) \/ LineBeginWay2(k)
  BY <1>2, LineBeginView DEF Known
<1> USE <1>1, <1>2 DEF Known, Same, Advances, Picks, LineOf, ItemAt, SerialAt, Kinds, MoreItems
<1>4. CASE LineBeginWay1(k)
  <2>1. th'[k].at = th[k].at /\ th'[k].line = th[k].line + 1 /\ Same(k)
    BY <1>4 DEF LineBeginWay1, Changes, Fields
  <2>2. QED
    BY <1>4, <2>1 DEF LineBeginWay1
<1>5. CASE LineBeginWay2(k)
  <2>1. th'[k].at = "lineOpen" /\ th'[k].line = th[k].line /\ Same(k)
    BY <1>5 DEF LineBeginWay2, Changes, Fields
  <2>2. QED
    BY <1>5, <2>1 DEF LineBeginWay2
<1>6. QED
  BY <1>3, <1>4, <1>5

LEMMA SerialAnswerLine ==
  ASSUME Shape, NEW k \in DOMAIN plan, Control(k), LineOf(k), plan' = plan,
         SerialAnswer(k)
  PROVE  Advances(k) /\ Picks(k)
<1>1. th[k].at = "line" /\ Points(k) = SerialAt /\ plan[k].test = "serial"
  BY TestAt DEF SerialAnswer, At, Control, ControlOf, SerialAt
<1>2. Known(k) /\ th[k].line \in {1, 2, 3} /\ ~MoreItems(k)
  BY <1>1, KnownOf DEF Known, Control, ControlOf, LocalsOf, AtItem, AtLine, MoreItems, SerialAt, Ends
<1>3. /\ th[k].line = 3
      /\ Changes(k, {"at"})
      /\ th'[k].at = "send"
      /\ Keeps
  BY <1>2, SerialAnswerView DEF Known
<1>4. th'[k].at = "send" /\ th'[k].line = th[k].line /\ th'[k].item = th[k].item /\
      th'[k].items = th[k].items /\ th'[k].result = th[k].result
  BY <1>3, <1>1, <1>2 DEF Changes, Known, Fields
<1>5. QED
  BY <1>3, <1>3, <1>1, <1>2, <1>4 DEF Advances, Picks, Same, LineOf, ItemAt, SerialAt, Kinds, MoreItems,
   Known

LEMMA LineOpenLine ==
  ASSUME Shape, NEW k \in DOMAIN plan, Control(k), LineOf(k), plan' = plan,
         LineOpen(k)
  PROVE  Advances(k) /\ Picks(k)
<1>1. th[k].at = "lineOpen" /\ Points(k) = SerialAt /\ plan[k].test = "serial"
  BY TestAt DEF LineOpen, At, Control, ControlOf, SerialAt
<1>2. Known(k) /\ th[k].line \in {1, 2} /\ ~MoreItems(k)
  BY <1>1, KnownOf, SMTT(20) DEF Known, Control, ControlOf, LocalsOf, AtItem, AtLine, MoreItems, SerialAt,
   Ends
<1>3. LineOpenWay1(k) \/ LineOpenWay2(k) \/ LineOpenWay3(k) \/ LineOpenWay4(k) \/ LineOpenWay5(k)
  BY <1>2, LineOpenView DEF Known
<1> USE <1>1, <1>2 DEF Known, Same, Advances, Picks, LineOf, ItemAt, SerialAt, Kinds, MoreItems
<1>4. CASE LineOpenWay1(k)
  <2>1. th'[k].at = "exchange" /\ th'[k].line = th[k].line /\ Same(k)
    BY <1>4 DEF LineOpenWay1, Changes, Fields
  <2>2. QED
    BY <1>4, <2>1 DEF LineOpenWay1
<1>5. CASE LineOpenWay2(k)
  <2>1. th'[k].at = "open" /\ th'[k].line = th[k].line /\ Same(k)
    BY <1>5 DEF LineOpenWay2, Changes, Fields
  <2>2. QED
    BY <1>5, <2>1 DEF LineOpenWay2
<1>6. CASE LineOpenWay3(k)
  <2>1. th'[k].at = "lineOpen" /\ th'[k].line = th[k].line /\ Same(k)
    BY <1>6 DEF LineOpenWay3, Changes, Fields
  <2>2. QED
    BY <1>6, <2>1 DEF LineOpenWay3
<1>7. CASE LineOpenWay4(k)
  <2>1. th'[k].at = "lineOpen" /\ th'[k].line = th[k].line /\ Same(k)
    BY <1>7 DEF LineOpenWay4, Changes, Fields
  <2>2. QED
    BY <1>7, <2>1 DEF LineOpenWay4
<1>8. CASE LineOpenWay5(k)
  <2>1. th'[k].at = "lineOpen" /\ th'[k].line = th[k].line /\ Same(k)
    BY <1>8 DEF LineOpenWay5, Changes, Fields
  <2>2. QED
    BY <1>8, <2>1 DEF LineOpenWay5
<1>9. QED
  BY <1>3, <1>4, <1>5, <1>6, <1>7, <1>8

LEMMA SerialRetryLine ==
  ASSUME Shape, NEW k \in DOMAIN plan, Control(k), LineOf(k), plan' = plan,
         SerialRetry(k)
  PROVE  Advances(k) /\ Picks(k)
<1>1. th[k].at = "again" /\ Points(k) = SerialAt /\ plan[k].test = "serial"
  BY TestAt DEF SerialRetry, At, Control, ControlOf, SerialAt
<1>2. Known(k) /\ th[k].line \in {0, 1, 2} /\ (th[k].line = 0 <=> MoreItems(k))
  BY <1>1, KnownOf DEF Known, Control, ControlOf, LocalsOf, AtItem, AtLine, MoreItems, SerialAt, Ends
<1>3. /\ Changes(k, {"at", "met", "try"})
      /\ th'[k].at = IF th[k].line = 0 THEN "open" ELSE "lineOpen"
      /\ th'[k].try = th[k].try + 1
      /\ th'[k].met = th[k].met \ {"fault", "full"}
      /\ Keeps
  BY <1>2, SerialRetryView DEF Known
<1>4. (th'[k].at = IF th[k].line = 0 THEN "open" ELSE "lineOpen") /\
      th'[k].line = th[k].line /\ th'[k].item = th[k].item /\
      th'[k].items = th[k].items /\ th'[k].result = th[k].result
  BY <1>3, <1>1, <1>2 DEF Changes, Known, Fields
<1>5. QED
  BY <1>3, <1>1, <1>2, <1>4 DEF Advances, Picks, Same, LineOf, ItemAt, SerialAt, Kinds, MoreItems, Known

\* A verdict more, or none.
LEMMA RulesResult ==
  ASSUME NEW k \in DOMAIN plan, plan' = plan, Known(k), ResultOf(k), Rules(k),
         plan[k].test = "key" => Same(k)
  PROVE  ResultOf(k)'
<1>1. CASE Same(k)
  BY <1>1 DEF Same, ResultOf, Failed
<1>2. CASE Ruled(k) /\ plan[k].test # "key"
  <2>1. PICK v \in Verdicts : Judges(k, v) \/ Decides(k, v)
    BY <1>2 DEF Ruled
  <2>2. th'[k].items = Append(th[k].items, v) /\ th[k].items \in Seq(Verdicts)
    BY <2>1 DEF Judges, Decides, Known
  <2>3. Failed(k)' = IF v = "NG" THEN Failed(k) \cup {Len(th[k].items) + 1} ELSE Failed(k)
    BY <2>2 DEF Failed, Known
  <2>4. plan[k].test \notin {"ln", "baseinfo"} =>
          th'[k].result = IF v = "NG" THEN "false" ELSE th[k].result
    BY <1>2, <2>1 DEF Judges, Decides, Ruled
  <2>5. CASE v = "NG"
    BY <1>2, <2>3, <2>4, <2>5 DEF ResultOf
  <2>6. CASE v # "NG"
    BY <1>2, <2>3, <2>4, <2>6 DEF ResultOf
  <2>7. QED
    BY <2>5, <2>6
<1>3. QED
  BY <1>1, <1>2 DEF Rules

\* The verdicts of a line replace the waiting ones.
LEMMA LineCloseResults ==
  ASSUME Typed, NEW k \in DOMAIN plan, plan' = plan, LineOf(k), ResultOf(k), LineClose(k)
  PROVE  LineOf(k)' /\ ResultOf(k)'
<1>1. th[k].at = "exchange" /\ Points(k) = SerialAt /\ plan[k].test = "serial"
  BY TestAt DEF LineClose, At, Typed, Control, ControlOf, SerialAt
<1>2. Known(k) /\ th[k].line \in {1, 2} /\ ~MoreItems(k)
  BY <1>1, KnownOf DEF Typed, Known, Control, ControlOf, LocalsOf, AtItem, AtLine, MoreItems, SerialAt, Ends
<1>3. DOMAIN th[k].items = DOMAIN plan[k].items
  BY <1>1, <1>2 DEF Known, MoreItems
<1>4. \A x \in OnLine(k) : x \in DOMAIN th[k].items /\ th[k].items[x] = "none"
  BY <1>1, <1>2, <1>3 DEF OnLine, Lines, LineOf, Pending, SerialAt
<1>5. \/ /\ Changes(k, {"at", "items", "line", "met", "result", "shown"})
         /\ th'[k].line = th[k].line + 1
         /\ th'[k].items = [y \in DOMAIN th[k].items |-> CASE y \notin OnLine(k) -> th[k].items[y]
               [] y \in OnLine(k) /\ Passed(k, y) -> "OK" [] OTHER -> "NG"]
         /\ th'[k].result = IF AllPassed(k) THEN th[k].result ELSE "false"
      \/ Changes(k, {"at", "lost", "met", "n", "ports", "queue", "reached", "recv", "send", "tested"})
  BY <1>2, LineCloseView DEF LineCloseWay1, LineCloseWay2, Known
<1>6. CASE Changes(k, {"at", "lost", "met", "n", "ports", "queue", "reached", "recv", "send", "tested"})
  <2>1. th'[k].line = th[k].line /\ th'[k].items = th[k].items /\ th'[k].result = th[k].result
    BY <1>6 DEF Changes, Fields
  <2>2. QED
    BY <1>1, <1>2, <2>1 DEF LineOf, ResultOf, Failed, Pending, SerialAt
<1>7. CASE /\ Changes(k, {"at", "items", "line", "met", "result", "shown"})
           /\ th'[k].line = th[k].line + 1
           /\ th'[k].items = [y \in DOMAIN th[k].items |-> CASE y \notin OnLine(k) -> th[k].items[y]
                 [] y \in OnLine(k) /\ Passed(k, y) -> "OK" [] OTHER -> "NG"]
           /\ th'[k].result = IF AllPassed(k) THEN th[k].result ELSE "false"
  <2>1. ASSUME NEW x \in DOMAIN th'[k].items, Pending(k, x)'
        PROVE  th'[k].items[x] = "none"
    <3>1. x \in DOMAIN th[k].items /\ Pending(k, x) /\ x \notin OnLine(k)
      BY <1>2, <1>7, <2>1 DEF Pending, OnLine, Lines
    <3>2. QED
      BY <1>1, <1>7, <3>1 DEF LineOf, SerialAt
  <2>2. LineOf(k)'
    BY <1>2, <1>7, <2>1 DEF LineOf
  <2>3. CASE AllPassed(k)
    <3>1. Failed(k)' = Failed(k)
      BY <1>4, <1>7, <2>3 DEF AllPassed, Failed
    <3>2. QED
      BY <1>1, <1>7, <2>2, <2>3, <3>1 DEF ResultOf
  <2>4. CASE ~AllPassed(k)
    <3>1. PICK x \in OnLine(k) : ~Passed(k, x)
      BY <2>4 DEF AllPassed
    <3>2. x \in Failed(k)'
      BY <1>4, <1>7, <3>1 DEF Failed
    <3>3. QED
      BY <1>1, <1>7, <2>2, <2>4, <3>2 DEF ResultOf
  <2>5. QED
    BY <2>3, <2>4
<1>8. QED
  BY <1>5, <1>6, <1>7

\* The other steps of a serial test.
LEMMA SerialLine ==
  ASSUME Typed, NEW k \in DOMAIN plan, plan' = plan, LineOf(k), ResultOf(k), SerialStep(k)
  PROVE  LineOf(k)' /\ ResultOf(k)'
<1>0. Shape /\ Control(k) /\ k \in DOMAIN th /\ DOMAIN th[k] = Fields
  BY DEF Typed, Shape
<1>1. CASE LineClose(k)
  BY <1>1, LineCloseResults
<1>2. CASE SerialDies(k)
  <2>1. th' = th
    BY <1>2 DEF SerialDies, LineOfOne, SerialConfigDies
  <2>2. QED
    BY <2>1 DEF LineOf, ResultOf, Failed, Pending, Item
<1>3. CASE ~LineClose(k) /\ ~SerialDies(k)
  <2>1. th[k].at \in SerialAt
    BY <1>3 DEF SerialStep, SerialItem, SerialOpen, SerialConfig, Echo, ClosePort, OpenCan, CanTest,
     Rs485Test, LineBegin, SerialAnswer, LineOpen, SendFails, Exchange, SerialRetry, At, SerialAt
  <2>2. plan[k].test = "serial" /\ Points(k) = SerialAt
    BY <1>0, <2>1, TestAt DEF Control, ControlOf
  <2>3. Known(k)
    BY <1>0, <2>1, <2>2, KnownOf DEF SerialAt, Ends
  <2>4. Advances(k) /\ Picks(k) /\ Rules(k)
    <3>1. CASE SerialItem(k) \/ SerialOpen(k) \/ SerialConfig(k) \/ Echo(k) \/ ClosePort(k)
      <4>1. Advances(k) /\ Picks(k)
        BY <1>0, <3>1, SerialItemLine, SerialOpenLine, SerialConfigLine, EchoLine, ClosePortLine
      <4>2. Rules(k)
        BY <1>0, <3>1, SerialItemControl, SerialOpenControl, SerialConfigControl, EchoControl, ClosePortControl
      <4>3. QED
        BY <4>1, <4>2
    <3>2. CASE OpenCan(k) \/ CanTest(k) \/ Rs485Test(k) \/ LineBegin(k) \/ SerialAnswer(k) \/ LineOpen(k)
               \/ SerialRetry(k)
      <4>1. Advances(k) /\ Picks(k)
        BY <1>0, <3>2, OpenCanLine, CanTestLine, Rs485TestLine, LineBeginLine, SerialAnswerLine,
           LineOpenLine, SerialRetryLine
      <4>2. Rules(k)
        BY <1>0, <3>2, OpenCanControl, CanTestControl, Rs485TestControl, LineBeginControl, SerialAnswerControl,
           LineOpenControl, SerialRetryControl
      <4>3. QED
        BY <4>1, <4>2
    <3>3. CASE SendFails(k) \/ Exchange(k)
      <4>1. Same(k)
        BY <1>0, <3>3, SendFailsControl, ExchangeControl
      <4>2. /\ th[k].at = "exchange"
            /\ Changes(k, {"met", "n", "send", "tested"})
               \/ Changes(k, {"lost", "met", "n", "queue", "reached", "recv", "tested"})
        BY <1>0, <3>3, SendFailsView, ExchangeView DEF At
      <4>3. th'[k].at = "exchange" /\ th'[k].line = th[k].line
        BY <4>2 DEF Changes, Fields
      <4>4. QED
        BY <2>3, <4>1, <4>3 DEF Advances, Picks, Rules, ItemAt, Known
    <3>4. QED
      BY <1>3, <3>1, <3>2, <3>3 DEF SerialStep
  <2>5. ResultOf(k)'
    BY <2>2, <2>3, <2>4, RulesResult
  <2>6. th'[k].at \in ItemAt /\ th'[k].line = 0 => Item(k)' \in Kinds
    BY <2>4 DEF Picks, Item
  <2>7. ASSUME NEW x \in DOMAIN th'[k].items, Pending(k, x)'
        PROVE  th'[k].items[x] = "none"
    <3>1. CASE Same(k) /\ th'[k].line >= th[k].line
      <4>0. th'[k].line \in 0 .. 3 /\ th[k].line \in 0 .. 3
        BY <1>0, <2>3, SerialControl DEF Control, LocalsOf, Known
      <4>1. Pending(k, x)
        BY <2>7, <3>1, <4>0 DEF Pending
      <4>2. QED
        BY <2>1, <2>2, <3>1, <4>1 DEF LineOf, Same
    <3>2. ASSUME th'[k].line = th[k].line, NEW v \in Verdicts, Judges(k, v),
                 v = "none" \/ Item(k) \notin {"bus485", "busCan"}
          PROVE  th'[k].items[x] = "none"
      <4>1. Pending(k, x) /\ th'[k].items = Append(th[k].items, v)
        BY <2>7, <3>2 DEF Pending, Judges
      <4>2. CASE x \in DOMAIN th[k].items
        BY <2>1, <2>2, <2>3, <4>1, <4>2 DEF LineOf, Known
      <4>3. CASE x \notin DOMAIN th[k].items
        <5>1. x = Len(th[k].items) + 1 /\ x = th[k].item /\ th'[k].items[x] = v
          BY <2>2, <2>3, <2>7, <4>1, <4>3 DEF Known
        <5>2. v = "none"
          BY <3>2, <4>1, <5>1 DEF Pending, Item
        <5>3. QED
          BY <5>1, <5>2
      <4>4. QED
        BY <4>2, <4>3
    <3>3. QED
      BY <2>4, <3>1, <3>2 DEF Advances
  <2>8. QED
    BY <2>5, <2>6, <2>7 DEF LineOf
<1>4. QED
  BY <1>1, <1>2, <1>3

\* The result of the key test.
LEMMA KeyResult ==
  ASSUME Typed, NEW k \in DOMAIN plan, plan' = plan, ResultOf(k), KeyStep(k)
  PROVE  ResultOf(k)' /\ plan[k].test = "key"
<1>0. Shape /\ Control(k) /\ k \in DOMAIN th /\ DOMAIN th[k] = Fields
  BY DEF Typed, Shape
<1>1. th[k].at \in KeyAt
  BY DEF KeyStep, KeyLoop, ScanNode, NodeName, ScanEnds, TargetOpen, TargetsEnd, KeyTimeout, KeyNoise,
   KeyEvent, At, KeyAt
<1>2. plan[k].test = "key" /\ Points(k) = KeyAt
  BY <1>0, <1>1, TestAt DEF Control, ControlOf
<1>3. Known(k)
  BY <1>0, <1>1, <1>2, KnownOf DEF KeyAt, Ends
<1>4. ASSUME NEW x, KeyEvent(k, x)
      PROVE  ResultOf(k)'
  <2>1. \/ Changes(k, {"at", "met"})
        \/ /\ Changes(k, {"at", "items", "met", "shown"})
           /\ th'[k].items = [th[k].items EXCEPT ![x] = "OK"]
    BY <1>0, <1>4, KeyEventView
  <2>2. CASE Changes(k, {"at", "met"})
    <3>1. th'[k].items = th[k].items /\ th'[k].result = th[k].result
      BY <2>2 DEF Changes, Fields
    <3>2. QED
      BY <3>1 DEF ResultOf, Failed
  <2>3. CASE /\ Changes(k, {"at", "items", "met", "shown"})
             /\ th'[k].items = [th[k].items EXCEPT ![x] = "OK"]
    <3>1. th'[k].result = th[k].result
      BY <2>3 DEF Changes, Fields
    <3>2. Failed(k)' = Failed(k) \ {x}
      BY <1>3, <2>3 DEF Failed, Known
    <3>3. QED
      BY <1>2, <3>1, <3>2 DEF ResultOf
  <2>4. QED
    BY <2>1, <2>2, <2>3
<1>5. ASSUME KeyLoop(k) \/ ScanNode(k) \/ NodeName(k) \/ ScanEnds(k) \/ TargetOpen(k) \/ TargetsEnd(k)
             \/ KeyTimeout(k) \/ KeyNoise(k)
      PROVE  ResultOf(k)'
  <2>1. Rules(k)
    BY <1>0, <1>5, KeyLoopControl, ScanNodeControl, NodeNameControl, ScanEndsControl, TargetOpenControl,
       TargetsEndControl, KeyTimeoutControl, KeyNoiseControl
  <2>2. \/ Changes(k, {"at"}) \/ Changes(k, {"at", "count", "n", "ports"})
        \/ Changes(k, {"at", "fd"}) \/ Changes(k, {"at", "fd", "met", "n"})
        \/ Changes(k, {"at", "count", "met", "n"}) \/ Changes(k, {"at", "met", "n"})
        \/ Changes(k, {"fd", "ports"}) \/ Changes(k, {"fd", "met", "ports"}) \/ Changes(k, {"at", "met"})
    BY <1>0, <1>5, KeyLoopView, ScanNodeView, NodeNameView, ScanEndsView, TargetOpenView, TargetsEndView,
     KeyTimeoutView, KeyNoiseView DEF KeyLoopWay1, KeyLoopWay2, ScanNodeWay1, ScanNodeWay2, NodeNameWay1,
     NodeNameWay2, NodeNameWay3, ScanEndsWay1, ScanEndsWay2, TargetOpenWay1, TargetOpenWay2, TargetsEndWay1,
     TargetsEndWay2
  <2>3. Same(k)
    BY <2>2 DEF Changes, Fields, Same
  <2>4. QED
    BY <1>3, <2>1, <2>3, RulesResult
<1>6. QED
  BY <1>2, <1>4, <1>5 DEF KeyStep

\* The result of the tests of one device.
LEMMA DeviceResult ==
  ASSUME Typed, NEW k \in DOMAIN plan, plan' = plan, ResultOf(k), DeviceStep(k)
  PROVE  ResultOf(k)' /\ plan[k].test # "serial"
<1>0. Shape /\ Control(k) /\ k \in DOMAIN th /\ DOMAIN th[k] = Fields
  BY DEF Typed, Shape
<1>1. \/ Dies(k) \/ AccessOpen(k) \/ AccessClose(k) \/ Exported(k) \/ Misleads(k)
      \/ (\E accesses, requests \in Nat : Request(k, accesses, requests))
      \/ DeviceItem(k) \/ DeviceEnds(k) \/ Lamp(k) \/ RtcOpen(k) \/ RtcSet(k) \/ RtcGet(k) \/ RtcClose(k)
  BY DEF DeviceStep, Device, Vendor, GetHwid, Pin, GetInterfaceIp, PrefixInside, ReadAdc, CapturePng,
   EmptyFrame, Access
<1>2. th[k].at \in DeviceAt \cup RtcAt
  BY <1>1 DEF Dies, PipeBreaks, NotANumber, AccessOpen, AccessClose, Exported, Misleads, Request,
   DeviceItem, DeviceEnds, Lamp, RtcOpen, RtcSet, RtcGet, RtcClose, At, DeviceAt, RtcAt
<1>3. plan[k].test \notin {"serial", "key"} /\ th[k].at \in Points(k) /\ th[k].at \notin Ends
  BY <1>0, <1>2, TestAt DEF Control, ControlOf, Ends, DeviceAt, RtcAt, Points, SerialAt, KeyAt, WifiAt, BtAt
<1>4. Known(k)
  BY <1>0, <1>3, KnownOf
<1>5. CASE Dies(k)
  <2>1. th' = th
    BY <1>5 DEF Dies
  <2>2. QED
    BY <1>3, <2>1 DEF ResultOf, Failed
<1>6. CASE ~Dies(k)
  <2>1. Rules(k)
    BY <1>0, <1>1, <1>6, AccessOpenControl, AccessCloseControl, ExportedControl, MisleadsControl,
       RequestControl, DeviceItemControl, DeviceEndsControl, LampControl, RtcOpenControl, RtcSetControl,
       RtcGetControl, RtcCloseControl
  <2>2. QED
    BY <1>3, <1>4, <2>1, RulesResult
<1>7. QED
  BY <1>5, <1>6

\* The result of the tests of the radios.
LEMMA RadioResult ==
  ASSUME Typed, NEW k \in DOMAIN plan, plan' = plan, ResultOf(k), RadioStep(k)
  PROVE  ResultOf(k)' /\ plan[k].test # "serial"
<1>0. Shape /\ Control(k) /\ k \in DOMAIN th /\ DOMAIN th[k] = Fields
  BY DEF Typed, Shape
<1>1. th[k].at \in WifiAt \cup BtAt
  BY DEF RadioStep, WifiSpent, WifiScan, WifiResults, BtFree, BtOpen, BtInquiry, BtFill, BtClose, BtResult,
   BtRead, BtGone, At, WifiAt, BtAt
<1>2. plan[k].test \notin {"serial", "key"} /\ th[k].at \in Points(k) /\ th[k].at \notin Ends
  BY <1>0, <1>1, TestAt DEF Control, ControlOf, Ends, DeviceAt, RtcAt, Points, SerialAt, KeyAt, WifiAt, BtAt
<1>3. Known(k)
  BY <1>0, <1>2, KnownOf
<1>4. CASE BtGone(k)
  <2>1. th' = th
    BY <1>4 DEF BtGone
  <2>2. QED
    BY <1>2, <2>1 DEF ResultOf, Failed
<1>5. CASE ~BtGone(k)
  <2>1. Rules(k)
    BY <1>0, <1>5, WifiSpentControl, WifiScanControl, WifiResultsControl, BtFreeControl, BtOpenControl,
     BtInquiryControl, BtFillControl, BtCloseControl, BtResultControl, BtReadControl DEF RadioStep
  <2>2. QED
    BY <1>2, <1>3, <2>1, RulesResult
<1>6. QED
  BY <1>4, <1>5

\* A test begins with no verdict but on the keys that are not wanted.
LEMMA CommandResult ==
  ASSUME Typed, NEW k \in DOMAIN plan, plan' = plan, Dispatch(k) \/ Stop(k)
  PROVE  LineOf(k)' /\ ResultOf(k)'
<1>1. k \in DOMAIN th /\ DOMAIN th[k] = Fields /\ th[k] = Fresh
  BY DEF Typed, Shape, Control, ControlOf, Dispatch, Stop, Turn, At
<1>2. /\ DOMAIN Fresh = Fields /\ Fresh.items = <<>> /\ Fresh.result = "true"
  BY DEF Fresh, Fields
<1> DEFINE u == To(th[k], "done")
           v == Begun(k)
<1>3. DOMAIN u = Fields /\ u.items = <<>> /\ u.result = "true" /\ u.at = "done"
  BY <1>1, <1>2 DEF To, Fields
<1>4. CASE Set(k, u)
  <2> HIDE DEF u
  <2>1. th'[k].items = <<>> /\ th'[k].result = "true" /\ th'[k].at = "done"
    BY <1>1, <1>3, <1>4 DEF Set
  <2>2. QED
    BY <2>1 DEF LineOf, ResultOf, Failed, SerialAt
<1>5. CASE Set(k, v) /\ plan[k].test # "stop"
  <2>1. /\ DOMAIN v = Fields
        /\ plan[k].test = "serial" => v.at = "serial"
        /\ v.result # "false"
        /\ IF plan[k].test = "key" THEN v.items \in [DOMAIN plan[k].items -> {"none", "SKIP"}]
           ELSE v.items = <<>>
    <3>1. CASE plan[k].test = "serial"
      BY <1>2, <3>1 DEF Begun, SerialFresh, Fields
    <3>2. CASE plan[k].test = "key"
      BY <1>2, <3>2 DEF Begun, KeyFresh, Fields
    <3>3. CASE plan[k].test \in {"rtc", "wifi", "bluetooth"}
      BY <1>2, <3>3 DEF Begun, To, Fields
    <3>4. CASE plan[k].test \notin {"serial", "key", "rtc", "wifi", "bluetooth"}
      BY <1>2, <3>4 DEF Begun, DeviceFresh, Fields
    <3>5. QED
      BY <3>1, <3>2, <3>3, <3>4
  <2> HIDE DEF v
  <2>2. th'[k] = v
    BY <1>1, <1>5 DEF Set
  <2>3. Failed(k)' = {}
    BY <2>1, <2>2 DEF Failed
  <2>4. QED
    BY <2>1, <2>2, <2>3 DEF LineOf, ResultOf, ItemAt
<1>6. QED
  BY <1>4, <1>5 DEF Dispatch, Stop, Set

\* A step of one thread keeps every result in agreement with its verdicts.
LEMMA ResultsStep ==
  ASSUME Typed, Results, NEW k \in DOMAIN plan, plan' = plan, Command(k) \/ Test(k)
  PROVE  Results'
<1>0. Shape /\ Control(k) /\ LineOf(k) /\ ResultOf(k)
  BY DEF Typed, Results
<1>1. LineOf(k)' /\ ResultOf(k)'
  <2>1. CASE Dispatch(k) \/ Stop(k)
    BY <2>1, CommandResult
  <2>2. CASE SerialStep(k)
    BY <1>0, <2>2, SerialLine
  <2>3. CASE KeyStep(k) \/ DeviceStep(k) \/ RadioStep(k)
    <3>1. ResultOf(k)' /\ plan[k].test # "serial"
      BY <1>0, <2>3, KeyResult, DeviceResult, RadioResult
    <3>2. QED
      BY <3>1 DEF LineOf
  <2>4. CASE SendStep(k)
    <3>1. Control(k)' /\ th'[k].items = th[k].items /\ th'[k].result = th[k].result
      BY <1>0, <2>4, SendControl
    <3>2. th'[k].at \notin SerialAt \/ th' = th
      <4>1. k \in DOMAIN th /\ DOMAIN th[k] = Fields
        BY <1>0 DEF Shape
      <4>2. CASE SendNumber(k)
        BY <4>1, <4>2, SendNumberView DEF SerialAt
      <4>3. CASE SendPack(k)
        BY <4>1, <4>3, SendPackView DEF SerialAt
      <4>4. CASE SendWrite(k)
        BY <4>1, <4>4, SendWriteView DEF SerialAt
      <4>5. QED
        BY <2>4, <4>2, <4>3, <4>4 DEF SendStep
    <3>3. ResultOf(k)'
      BY <1>0, <3>1 DEF ResultOf, Failed
    <3>4. LineOf(k)'
      BY <1>0, <3>2 DEF LineOf, Pending, Item
    <3>5. QED
      BY <3>3, <3>4
  <2>5. QED
    BY <2>1, <2>2, <2>3, <2>4 DEF Command, Test
<1>2. \A j \in DOMAIN plan : j # k => th'[j] = th[j]
  BY <1>0, StepControl DEF Turns, Shape
<1>3. ASSUME NEW j \in DOMAIN plan, j # k PROVE LineOf(j)' /\ ResultOf(j)'
  <2>1. LineOf(j) /\ ResultOf(j) /\ th'[j] = th[j]
    BY <1>2, <1>3 DEF Results
  <2>2. QED
    BY <2>1 DEF LineOf, ResultOf, Failed, Pending, Item
<1>4. QED
  BY <1>1, <1>3 DEF Results

\* No verdict has been given at the start.
LEMMA ResultsInit ==
  ASSUME Init
  PROVE  Results
<1>1. \A k \in DOMAIN plan : th[k].at = "idle" /\ th[k].items = <<>> /\ th[k].result = "true"
  BY DEF Init, Fresh
<1>2. QED
  BY <1>1 DEF Results, LineOf, ResultOf, Failed, SerialAt

-----------------------------------------------------------------------------
(***************************************************************************)
(* What the host reads is what the test found.                             *)
(***************************************************************************)
LEMMA SendsStutter ==
  ASSUME Typed, Sends, Results, UNCHANGED vars
  PROVE  Sends' /\ Results'
<1>1. UNCHANGED <<plan, th, alive, reportCmdIndex, crossed>>
  BY DEF vars, base, responderVars
<1>2. Packed' = Packed /\ \A k : Number(k)' = Number(k)
  BY <1>1 DEF Packed, Number
<1>3. Sends'
  BY <1>1, <1>2 DEF Sends, SendersRaced, Counter, CounterOf, NumberOf, FrameOf
<1>4. Results'
  BY <1>1 DEF Results, LineOf, ResultOf, Failed, Pending, Item
<1>5. QED
  BY <1>3, <1>4

\* The inductive invariant behind it: the types and the control, the numbers
\* the answers can have, and each result in agreement with the verdicts so far.
THEOREM AnswersInductive == Spec => [](Typed /\ Sends /\ Results)
<1>1. Init => Typed /\ Sends /\ Results
  BY TypedInit, SendsInit, ResultsInit
<1>2. Typed /\ Sends /\ Results /\ [Next]_vars => (Typed /\ Sends /\ Results)'
  BY NextSteps, TypedStep, TypedStutter, SendsStep, ResultsStep, SendsStutter
<1>3. QED
  BY <1>1, <1>2, PTL DEF Spec

\* A result agrees with the verdicts on the items, two answers have the same
\* number only if one of them was sent while another test was sending, and an
\* answer that fits the 16-bit fields is a frame with all of its text.
THEOREM AnswersAreTrue == Spec => []AnswersTrue
<1>1. Typed /\ Sends /\ Results => AnswersTrue
  <2>1. ASSUME Typed, Sends, Results PROVE AnswersTrue
    <3>1. ResultTells
      BY <2>1 DEF Results, ResultOf, ResultTells
    <3>2. NumbersFresh
      <4>1. SUFFICES ASSUME NEW j \in DOMAIN plan, NEW k \in DOMAIN plan, j # k,
                            None \notin {th[j].frame, th[k].frame},
                            th[j].frame.index = th[k].frame.index, j \notin crossed, k \notin crossed
                     PROVE  FALSE
        BY DEF NumbersFresh
      <4>2. j \in Packed \ crossed /\ k \in Packed \ crossed
        BY <4>1 DEF Packed
      <4>3. Number(j) # Number(k)
        BY <2>1, <4>1, <4>2 DEF Sends, NumberOf
      <4>4. QED
        BY <4>1, <4>3 DEF Number
    <3>3. AnswersFit
      BY <2>1 DEF Sends, FrameOf, AnswersFit
    <3>4. QED
      BY <3>1, <3>2, <3>3 DEF AnswersTrue
  <2>2. QED
    BY <2>1
<1>2. QED
  BY <1>1, AnswersInductive, PTL

\* One more device: its name is new, unless two devices have it.
LEMMA NamesNext ==
  ASSUME NEW n \in DOMAIN EventNodes, 1 .. n - 1 \subseteq DOMAIN EventNodes, IsFiniteSet(NamesTo(n))
  PROVE  /\ IsFiniteSet(NamesTo(n + 1)) /\ 1 .. n \subseteq DOMAIN EventNodes
         /\ EventNodes[n] = None => NamesTo(n + 1) = NamesTo(n)
         /\ EventNodes[n] # None /\ ~Twins =>
              Cardinality(NamesTo(n + 1)) = Cardinality(NamesTo(n)) + 1
<1>1. n \in Nat \ {0}
  BY KeyAssumption
<1>2. 1 .. n + 1 - 1 = (1 .. n - 1) \cup {n} /\ 1 .. n = (1 .. n - 1) \cup {n}
  BY <1>1
<1>3. NamesTo(n + 1) = IF EventNodes[n] = None THEN NamesTo(n) ELSE NamesTo(n) \cup {EventNodes[n]}
  BY <1>2 DEF NamesTo
<1>4. EventNodes[n] # None /\ ~Twins => EventNodes[n] \notin NamesTo(n)
  <2>1. SUFFICES ASSUME EventNodes[n] # None, EventNodes[n] \in NamesTo(n) PROVE Twins
    OBVIOUS
  <2>2. PICK m \in 1 .. n - 1 : EventNodes[m] = EventNodes[n]
    BY <2>1 DEF NamesTo
  <2>3. m \in DOMAIN EventNodes /\ m # n
    BY <1>1, <2>2
  <2>4. QED
    BY <2>1, <2>2, <2>3 DEF Twins
<1>5. /\ IsFiniteSet(NamesTo(n) \cup {EventNodes[n]})
      /\ EventNodes[n] \notin NamesTo(n) =>
           Cardinality(NamesTo(n) \cup {EventNodes[n]}) = Cardinality(NamesTo(n)) + 1
  BY FS_AddElement
<1>6. QED
  BY <1>2, <1>3, <1>4, <1>5

\* After the last device the names are those of the board.
LEMMA NamesAll ==
  ASSUME NEW n \in Nat, n > Len(EventNodes), 1 .. n - 1 \subseteq DOMAIN EventNodes
  PROVE  NamesTo(n) = KeyNames
<1>1. DOMAIN EventNodes = 1 .. n - 1
  BY KeyAssumption
<1>2. QED
  BY <1>1 DEF NamesTo, KeyNames

\* The keys that were not pressed and the causes met before stay.
LEMMA StaysKey ==
  ASSUME NEW k, plan' = plan
  PROVE  /\ Wanted(k)' = Wanted(k)
         /\ th'[k].items = th[k].items => Unpressed(k)' = Unpressed(k) /\ Remaining(k)' = Remaining(k)
         /\ th[k].met \subseteq th'[k].met => (Troubled(k) => Troubled(k)')
         /\ th[k].met \subseteq th'[k].met /\ th'[k].ports = th[k].ports => (Targeted(k) => Targeted(k)')
<1>1. Wanted(k)' = Wanted(k)
  BY DEF Wanted
<1>2. ASSUME th'[k].items = th[k].items PROVE Unpressed(k)' = Unpressed(k) /\ Remaining(k)' = Remaining(k)
  <2>1. Remaining(k)' = Remaining(k)
    BY <1>1, <1>2 DEF Remaining
  <2>2. QED
    BY <1>1, <2>1 DEF Unpressed
<1>3. ASSUME th[k].met \subseteq th'[k].met, Troubled(k) PROVE Troubled(k)'
  BY <1>3 DEF Troubled
<1>4. ASSUME th[k].met \subseteq th'[k].met, th'[k].ports = th[k].ports, Targeted(k) PROVE Targeted(k)'
  BY <1>3, <1>4 DEF Targeted, Ports
<1>5. QED
  BY <1>1, <1>2, <1>3, <1>4

\* A thread that stays, or goes on outside the key test without ending.
LEMMA SilenceStays ==
  ASSUME NEW j \in DOMAIN plan, SilenceOf(j), plan' = plan, stopped \subseteq stopped', th'[j] = th[j]
  PROVE  SilenceOf(j)'
<1>1. /\ Wanted(j)' = Wanted(j) /\ Unpressed(j)' = Unpressed(j) /\ (Troubled(j) => Troubled(j)')
      /\ Ports(j)' = Ports(j)
  BY StaysKey DEF Ports
<1>2. Excused(j) => Excused(j)'
  BY <1>1 DEF Excused
<1>3. Counted(j) => Counted(j)'
  BY <1>1 DEF Counted
<1>4. KeysOf(j) => KeysOf(j)'
  BY <1>1, <1>3 DEF KeysOf, Targeted
<1>5. QED
  BY <1>2, <1>4 DEF SilenceOf

\* A test other than the key test ends without an answer if it was given no items.
LEMMA SilenceOther ==
  ASSUME NEW k \in DOMAIN plan, plan' = plan, Control(k)', Quiet(k), th[k].at # "idle",
         plan[k].test # "key"
  PROVE  SilenceOf(k)'
<1>1. th'[k].at = "done" => Excused(k)'
  BY DEF Quiet, Excused
<1>2. th'[k].at \notin KeyAt
  BY DEF Control, ControlOf, Points, Ends, SerialAt, KeyAt, RtcAt, WifiAt, BtAt, DeviceAt
<1>3. QED
  BY <1>1, <1>2 DEF SilenceOf

\* The loop of the key test.
LEMMA KeyLoopSilence ==
  ASSUME NEW k \in DOMAIN plan, k \in DOMAIN th, DOMAIN th[k] = Fields, plan[k].test = "key",
         SilenceOf(k), plan' = plan, stopped' = stopped, KeyLoop(k)
  PROVE  SilenceOf(k)'
<1>1. th[k].at = "key" /\ Unpressed(k)
  BY DEF KeyLoop, At, SilenceOf, KeysOf, KeyAt
<1>2. KeyLoopWay1(k) \/ KeyLoopWay2(k)
  BY KeyLoopView
<1>3. CASE KeyLoopWay1(k)
  <2>1. Wanted(k) = {} \/ k \in stopped
    BY <1>1, <1>3 DEF KeyLoopWay1, Unpressed
  <2>2. Excused(k)'
    BY <2>1, StaysKey DEF Excused
  <2>3. QED
    BY <1>3, <2>2 DEF KeyLoopWay1, SilenceOf, KeyAt
<1>4. CASE KeyLoopWay2(k)
  <2>1. th'[k].items = th[k].items
    BY <1>4 DEF KeyLoopWay2, Changes, Fields
  <2>2. Unpressed(k)'
    BY <1>1, <2>1, StaysKey
  <2>3. NamesTo(1) = {} /\ 1 .. 1 - 1 = {}
    BY DEF NamesTo
  <2>4. Counted(k)'
    BY <1>4, <2>3, FS_EmptySet DEF KeyLoopWay2, Counted
  <2>5. Targeted(k)'
    BY <1>4 DEF KeyLoopWay2, Targeted, Ports
  <2>6. QED
    BY <1>4, <2>2, <2>4, <2>5 DEF KeyLoopWay2, SilenceOf, KeysOf
<1>5. QED
  BY <1>2, <1>3, <1>4

\* A device that could not be opened counts as trouble.
LEMMA ScanNodeSilence ==
  ASSUME Shape, NEW k \in DOMAIN plan, Control(k), plan[k].test = "key",
         SilenceOf(k), plan' = plan, stopped' = stopped, ScanNode(k)
  PROVE  SilenceOf(k)'
<1>1. /\ k \in DOMAIN th /\ DOMAIN th[k] = Fields /\ th[k].at = "scan" /\ Unpressed(k) /\ Counted(k)
      /\ Targeted(k)
      /\ th[k].n \in Nat \ {0}
  BY DEF Shape, Control, LocalsOf, ScanNode, At, SilenceOf, KeysOf, KeyAt
<1>2. (ScanNodeWay1(k) \/ ScanNodeWay2(k)) /\ th[k].n <= Len(EventNodes)
  BY <1>1, ScanNodeView
<1>3. CASE ScanNodeWay1(k)
  <2>1. /\ th'[k].items = th[k].items /\ th'[k].n = th[k].n /\ th'[k].count = th[k].count
        /\ th'[k].met = th[k].met /\ th'[k].ports = th[k].ports
    BY <1>3 DEF ScanNodeWay1, Changes, Fields
  <2>2. Counted(k)' /\ Unpressed(k)'
    BY <1>1, <2>1, StaysKey DEF Counted
  <2>3. Targeted(k)'
    BY <1>1, <2>1, StaysKey
  <2>4. QED
    BY <1>3, <2>2, <2>3 DEF ScanNodeWay1, SilenceOf, KeysOf
<1>4. CASE ScanNodeWay2(k)
  <2>1. th'[k].items = th[k].items /\ th'[k].ports = th[k].ports
    BY <1>4 DEF ScanNodeWay2, Changes, Fields
  <2>9. th[k].met \subseteq th'[k].met
    BY <1>4 DEF ScanNodeWay2
  <2>2. th[k].n \in DOMAIN EventNodes
    BY <1>1, <1>2, KeyAssumption
  <2>3. IsFiniteSet(NamesTo(th[k].n + 1)) /\ 1 .. th[k].n \subseteq DOMAIN EventNodes
    BY <1>1, <2>2, NamesNext DEF Counted
  <2>4. Troubled(k)'
    BY <1>4 DEF ScanNodeWay2, Troubled, Lack
  <2>5. th'[k].n - 1 = th[k].n
    BY <1>1, <1>4 DEF ScanNodeWay2
  <2>6. Counted(k)'
    BY <1>4, <2>3, <2>4, <2>5 DEF ScanNodeWay2, Counted
  <2>7. Unpressed(k)' /\ Targeted(k)'
    BY <1>1, <1>4, <2>1, <2>9, StaysKey DEF ScanNodeWay2
  <2>8. QED
    BY <1>4, <2>4, <2>6, <2>7 DEF ScanNodeWay2, SilenceOf, KeysOf
<1>5. QED
  BY <1>2, <1>3, <1>4

\* A name that was read is counted, one that was not is trouble.
LEMMA NodeNameSilence ==
  ASSUME Shape, NEW k \in DOMAIN plan, Control(k), plan[k].test = "key",
         SilenceOf(k), plan' = plan, stopped' = stopped, NodeName(k)
  PROVE  SilenceOf(k)'
<1>1. /\ k \in DOMAIN th /\ DOMAIN th[k] = Fields /\ th[k].at = "name" /\ Unpressed(k) /\ Counted(k)
      /\ Targeted(k)
      /\ th[k].n \in DOMAIN EventNodes /\ th[k].n \in Nat
  BY DEF Shape, Control, LocalsOf, NodeName, At, SilenceOf, KeysOf, KeyAt
<1> DEFINE n == th[k].n
           Way1 == /\ EventNodes[n] # None
                   /\ Changes(k, {"at", "count", "met", "n"})
                   /\ th'[k].count = th[k].count + 1
                   /\ th'[k].met = th[k].met \cup Astray(k, th[k].fd)
           Way2 == /\ EventNodes[n] = None
                   /\ Changes(k, {"at", "met", "n"})
                   /\ th'[k].met = th[k].met \cup Astray(k, th[k].fd)
           Way3 == /\ Changes(k, {"at", "met", "n"})
                   /\ th'[k].met = th[k].met \cup Blames(k, th[k].fd) \cup Astray(k, th[k].fd)
<1>2. (Way1 \/ Way2 \/ Way3) /\ th'[k].at = "scan" /\ th'[k].n = n + 1
  BY <1>1, NodeNameView DEF NodeNameWay1, NodeNameWay2, NodeNameWay3
<1>3. th'[k].items = th[k].items /\ th[k].met \subseteq th'[k].met /\ th'[k].ports = th[k].ports
  BY <1>2 DEF Changes, Fields
<1>4. /\ IsFiniteSet(NamesTo(n + 1)) /\ 1 .. n \subseteq DOMAIN EventNodes
      /\ EventNodes[n] = None => NamesTo(n + 1) = NamesTo(n)
      /\ EventNodes[n] # None /\ ~Twins => Cardinality(NamesTo(n + 1)) = Cardinality(NamesTo(n)) + 1
  BY <1>1, NamesNext DEF Counted
<1>5. Troubled(k)' \/ Twins \/ th'[k].count = Cardinality(NamesTo(n + 1))
  <2>1. CASE Way1
    BY <1>1, <1>3, <1>4, <2>1, StaysKey DEF Counted
  <2>2. CASE Way2
    <3>1. th'[k].count = th[k].count
      BY <2>2 DEF Changes, Fields
    <3>2. QED
      BY <1>1, <1>3, <1>4, <2>2, <3>1, StaysKey DEF Counted
  <2>3. CASE Way3
    <3>1. Blames(k, th[k].fd) \subseteq th'[k].met
      BY <2>3
    <3>2. QED
      BY <3>1 DEF Troubled, Blames
  <2>4. QED
    BY <1>2, <2>1, <2>2, <2>3
<1>6. Counted(k)'
  <2>1. th'[k].n = n + 1 /\ th'[k].n - 1 = n
    BY <1>1, <1>2
  <2>2. NamesTo(th'[k].n) = NamesTo(n + 1) /\ 1 .. th'[k].n - 1 = 1 .. n
    BY <2>1
  <2>3. QED
    BY <1>4, <1>5, <2>2 DEF Counted
<1>7. Unpressed(k)' /\ Targeted(k)'
  BY <1>1, <1>3, StaysKey
<1>8. QED
  BY <1>2, <1>6, <1>7 DEF SilenceOf, KeysOf

\* The scan finds all names of the board, or something went wrong.
LEMMA ScanEndsSilence ==
  ASSUME Shape, NEW k \in DOMAIN plan, Control(k), plan[k].test = "key",
         SilenceOf(k), plan' = plan, stopped' = stopped, ScanEnds(k)
  PROVE  SilenceOf(k)'
<1>1. /\ k \in DOMAIN th /\ DOMAIN th[k] = Fields /\ th[k].at = "scan" /\ Unpressed(k) /\ Counted(k)
      /\ Targeted(k)
      /\ th[k].n \in Nat
  BY DEF Shape, Control, LocalsOf, ScanEnds, At, SilenceOf, KeysOf, KeyAt
<1>2. /\ Changes(k, {"at"}) /\ th[k].n > Len(EventNodes)
      /\ \/ th'[k].at = "targets"
         \/ th'[k].at = "done" /\ th[k].count # Cardinality(KeyNames)
  BY <1>1, ScanEndsView DEF ScanEndsWay1, ScanEndsWay2
<1>3. /\ th'[k].items = th[k].items /\ th'[k].met = th[k].met /\ th'[k].ports = th[k].ports
  BY <1>2 DEF Changes, Fields
<1>4. CASE th'[k].at = "targets"
  <2>1. Unpressed(k)' /\ Targeted(k)'
    BY <1>1, <1>3, StaysKey
  <2>2. QED
    BY <1>4, <2>1 DEF SilenceOf, KeysOf
<1>5. CASE th'[k].at = "done" /\ th[k].count # Cardinality(KeyNames)
  <2>1. NamesTo(th[k].n) = KeyNames
    BY <1>1, <1>2, NamesAll DEF Counted
  <2>2. Troubled(k) \/ Twins
    BY <1>1, <1>5, <2>1 DEF Counted
  <2>3. Excused(k)'
    BY <1>3, <2>2, StaysKey DEF Excused
  <2>4. QED
    BY <1>5, <2>3 DEF SilenceOf, KeyAt
<1>6. QED
  BY <1>2, <1>4, <1>5

\* A number that is missing among the targets is trouble.
LEMMA TargetOpenSilence ==
  ASSUME Shape, NEW k \in DOMAIN plan, Control(k), plan[k].test = "key",
         SilenceOf(k), plan' = plan, stopped' = stopped, TargetOpen(k)
  PROVE  SilenceOf(k)'
<1>1. /\ k \in DOMAIN th /\ DOMAIN th[k] = Fields /\ th[k].at = "targets" /\ Unpressed(k)
      /\ Targeted(k)
  BY DEF Shape, TargetOpen, At, SilenceOf, KeysOf, KeyAt
<1> DEFINE name == CHOOSE x \in ToOpen(k) : TRUE
           Way1 == /\ Changes(k, {"fd", "ports"})
                   /\ th'[k].ports = Append(th[k].ports, Target(name, Lowest))
                   /\ Opened # DOMAIN fds
           Way2 == /\ Changes(k, {"fd", "met", "ports"})
                   /\ th'[k].ports = Append(th[k].ports, Target(name, -1))
                   /\ th'[k].met = th[k].met \cup Lack
<1>2. ToOpen(k) # {} /\ (Way1 \/ Way2)
  BY <1>1, TargetOpenView DEF TargetOpenWay1, TargetOpenWay2, Takes
<1>3. name \in KeyNames
  BY <1>2 DEF ToOpen
<1> HIDE DEF name
<1>4. th'[k].items = th[k].items /\ th[k].met \subseteq th'[k].met /\ th'[k].at = "targets"
  BY <1>1, <1>2 DEF Changes, Fields
<1>5. Unpressed(k)' /\ (Troubled(k) => Troubled(k)')
  BY <1>1, <1>4, StaysKey
<1>6. ASSUME NEW m \in -1 .. MaxFd - 1, th'[k].ports = Append(th[k].ports, Target(name, m)),
             m = -1 => Troubled(k)'
      PROVE  Targeted(k)'
  <2> DEFINE ps == th[k].ports
             t == Target(name, m)
             T == [name : KeyNames, fd : -1 .. MaxFd - 1]
  <2>1. ps \in Seq(T) /\ t \in T /\ t.fd = m
    BY <1>1, <1>3, <1>6 DEF Targeted, Target
  <2>2. th'[k].ports = Append(ps, t)
    BY <1>6
  <2> HIDE DEF ps, t, T
  <2>3. /\ Append(ps, t) \in Seq(T)
        /\ DOMAIN Append(ps, t) = 1 .. Len(ps) + 1 /\ DOMAIN ps = 1 .. Len(ps) /\ Len(ps) \in Nat
        /\ Append(ps, t)[Len(ps) + 1] = t /\ \A x \in DOMAIN ps : Append(ps, t)[x] = ps[x]
    BY <2>1, AppendSeq
  <2>4. ASSUME NEW p \in DOMAIN Append(ps, t), Append(ps, t)[p].fd = -1
        PROVE  Troubled(k)'
    <3>1. CASE p = Len(ps) + 1
      BY <1>6, <2>1, <2>3, <2>4, <3>1
    <3>2. CASE p \in DOMAIN ps
      <4>1. ps[p].fd = -1
        BY <2>3, <2>4, <3>2
      <4>2. Troubled(k)
        BY <1>1, <3>2, <4>1 DEF Targeted, Ports, ps
      <4>3. QED
        BY <1>5, <4>2
    <3>3. QED
      BY <2>3, <3>1, <3>2
  <2>5. -1 \in Ports(k)' => Troubled(k)'
    BY <2>2, <2>4 DEF Ports
  <2>6. QED
    BY <2>2, <2>3, <2>5 DEF Targeted, T
<1>7. Targeted(k)'
  <2>1. CASE Way1
    <3>1. Lowest \in -1 .. MaxFd - 1 /\ Lowest # -1
      BY <2>1, LowestFree, MaxFdAssumption DEF Shape
    <3>2. QED
      BY <1>6, <2>1, <3>1
  <2>2. CASE Way2
    <3>1. Troubled(k)'
      BY <2>2 DEF Troubled, Lack
    <3>2. -1 \in -1 .. MaxFd - 1
      BY MaxFdAssumption
    <3>3. QED
      BY <1>6, <2>2, <3>1, <3>2
  <2>3. QED
    BY <1>2, <2>1, <2>2
<1>8. QED
  BY <1>4, <1>5, <1>7 DEF SilenceOf, KeysOf

\* All targets are open, or the test ends with trouble.
LEMMA TargetsEndSilence ==
  ASSUME Shape, NEW k \in DOMAIN plan, Control(k), plan[k].test = "key",
         SilenceOf(k), plan' = plan, stopped' = stopped, TargetsEnd(k)
  PROVE  SilenceOf(k)'
<1>1. k \in DOMAIN th /\ DOMAIN th[k] = Fields /\ th[k].at = "targets" /\ Unpressed(k) /\ Targeted(k)
  BY DEF Shape, TargetsEnd, At, SilenceOf, KeysOf, KeyAt
<1>2. \/ /\ -1 \in Ports(k) /\ Changes(k, {"at", "met"}) /\ th'[k].at = "done"
         /\ th[k].met \subseteq th'[k].met
      \/ Changes(k, {"at"}) /\ th'[k].at = "select"
  BY <1>1, TargetsEndView DEF TargetsEndWay1, TargetsEndWay2
<1>3. CASE -1 \in Ports(k) /\ th'[k].at = "done" /\ th[k].met \subseteq th'[k].met
  <2>1. Troubled(k)'
    BY <1>1, <1>3, StaysKey DEF Targeted
  <2>2. QED
    BY <1>3, <2>1 DEF SilenceOf, Excused, KeyAt
<1>4. CASE Changes(k, {"at"}) /\ th'[k].at = "select"
  <2>1. th'[k].items = th[k].items /\ th'[k].met = th[k].met /\ th'[k].ports = th[k].ports
    BY <1>4 DEF Changes, Fields
  <2>2. Unpressed(k)' /\ Targeted(k)'
    BY <1>1, <2>1, StaysKey
  <2>3. QED
    BY <1>4, <2>2 DEF SilenceOf, KeysOf
<1>5. QED
  BY <1>2, <1>3, <1>4

\* A key was pressed: the last one, or others are left.
LEMMA KeyEventSilence ==
  ASSUME Shape, NEW k \in DOMAIN plan, Control(k), plan[k].test = "key", NEW x,
         SilenceOf(k), plan' = plan, stopped' = stopped, KeyEvent(k, x)
  PROVE  SilenceOf(k)'
<1>1. k \in DOMAIN th /\ DOMAIN th[k] = Fields /\ Unpressed(k)
  BY DEF Shape, KeyEvent, At, SilenceOf, KeysOf, KeyAt
<1>2. \/ Changes(k, {"at", "met"}) /\ th'[k].at = "key"
      \/ /\ x \in Remaining(k)
         /\ th'[k].at = IF Remaining(k) = {x} THEN "send" ELSE "key"
         /\ th'[k].items = [th[k].items EXCEPT ![x] = "OK"]
  BY <1>1, KeyEventView
<1>3. CASE Changes(k, {"at", "met"}) /\ th'[k].at = "key"
  <2>1. th'[k].items = th[k].items
    BY <1>3 DEF Changes, Fields
  <2>2. QED
    BY <1>1, <1>3, <2>1, StaysKey DEF SilenceOf, KeysOf
<1>4. CASE /\ x \in Remaining(k) /\ Remaining(k) # {x} /\ th'[k].at = "key"
           /\ th'[k].items = [th[k].items EXCEPT ![x] = "OK"]
  <2>1. PICK y \in Remaining(k) : y # x
    BY <1>4
  <2>2. th'[k].items[y] = th[k].items[y]
    BY <1>4, <2>1
  <2>3. y \in Remaining(k)'
    BY <2>1, <2>2, StaysKey DEF Remaining
  <2>4. QED
    BY <1>4, <2>3 DEF SilenceOf, KeysOf, Unpressed
<1>5. CASE th'[k].at = "send"
  BY <1>5 DEF SilenceOf, KeyAt
<1>6. QED
  BY <1>2, <1>3, <1>4, <1>5

\* The time is over, or something else was read.
LEMMA KeyTimeoutSilence ==
  ASSUME Shape, NEW k \in DOMAIN plan, Control(k), plan[k].test = "key",
         SilenceOf(k), plan' = plan, stopped' = stopped, KeyTimeout(k) \/ KeyNoise(k)
  PROVE  SilenceOf(k)'
<1>1. k \in DOMAIN th /\ DOMAIN th[k] = Fields /\ Unpressed(k)
  BY DEF Shape, KeyTimeout, KeyNoise, At, SilenceOf, KeysOf, KeyAt
<1>2. \/ Changes(k, {"at", "met"}) /\ th'[k].at = "key"
      \/ th'[k].at = "done" /\ "noise" \in th'[k].met
  BY <1>1, KeyTimeoutView, KeyNoiseView
<1>3. CASE Changes(k, {"at", "met"}) /\ th'[k].at = "key"
  <2>1. th'[k].items = th[k].items
    BY <1>3 DEF Changes, Fields
  <2>2. QED
    BY <1>1, <1>3, <2>1, StaysKey DEF SilenceOf, KeysOf
<1>4. CASE th'[k].at = "done" /\ "noise" \in th'[k].met
  BY <1>4 DEF SilenceOf, Excused, Troubled, KeyAt
<1>5. QED
  BY <1>2, <1>3, <1>4

\* A test that begins, or ends at once.
LEMMA CommandSilence ==
  ASSUME Shape, NEW k \in DOMAIN plan, Control(k), plan' = plan, Dispatch(k) \/ Stop(k)
  PROVE  SilenceOf(k)'
<1>1. k \in DOMAIN th /\ DOMAIN th[k] = Fields /\ th[k] = Fresh
  BY DEF Shape, Control, ControlOf, Dispatch, Stop, Turn, At
<1>2. DOMAIN Fresh = Fields
  BY DEF Fresh, Fields
<1> DEFINE u == To(th[k], "done")
           v == Begun(k)
<1>3. u.at = "done"
  BY <1>1, <1>2 DEF To, Fields
<1>4. CASE Set(k, u) /\ (plan[k].test = "stop" \/ ~plan[k].enabled)
  <2> HIDE DEF u
  <2>1. th'[k].at = "done" /\ Excused(k)'
    BY <1>1, <1>3, <1>4 DEF Set, Excused
  <2>2. QED
    BY <2>1 DEF SilenceOf, KeyAt
<1>5. CASE Set(k, v)
  <2>1. /\ v.at \notin KeyAt \cup {"done"} \/ (v.at = "key" /\ plan[k].test = "key")
        /\ plan[k].test = "key" => \A x \in Wanted(k) : v.items[x] = "none"
    <3>1. CASE plan[k].test = "serial"
      BY <1>2, <3>1 DEF Begun, SerialFresh, Fields, KeyAt
    <3>2. CASE plan[k].test = "key"
      <4>1. v.at = "key" /\ v.items = [x \in DOMAIN plan[k].items |-> IF x \in Wanted(k) THEN "none" ELSE "SKIP"]
        BY <1>2, <3>2 DEF Begun, KeyFresh, Fields
      <4>2. QED
        BY <3>2, <4>1 DEF Wanted
    <3>3. CASE plan[k].test \in {"rtc", "wifi", "bluetooth"}
      BY <1>2, <3>3 DEF Begun, To, Fields, KeyAt
    <3>4. CASE plan[k].test \notin {"serial", "key", "rtc", "wifi", "bluetooth"}
      BY <1>2, <3>4 DEF Begun, DeviceFresh, Fields, KeyAt
    <3>5. QED
      BY <3>1, <3>2, <3>3, <3>4
  <2> HIDE DEF v
  <2>2. th'[k] = v
    BY <1>1, <1>5 DEF Set
  <2>3. CASE v.at \notin KeyAt \cup {"done"}
    BY <2>2, <2>3 DEF SilenceOf
  <2>4. CASE v.at = "key" /\ plan[k].test = "key"
    <3>1. Wanted(k)' = Wanted(k) /\ Remaining(k)' = Wanted(k)
      BY <2>1, <2>2, <2>4, StaysKey DEF Remaining
    <3>2. Unpressed(k)'
      BY <3>1 DEF Unpressed
    <3>3. QED
      BY <2>2, <2>4, <3>2 DEF SilenceOf, KeysOf
  <2>5. QED
    BY <2>1, <2>3, <2>4
<1>6. QED
  BY <1>4, <1>5 DEF Dispatch, Stop, Set

\* A frame is one, whatever the length.
LEMMA FrameTyped ==
  ASSUME NEW index \in Nat, NEW length \in Nat,
         NEW taken \in {TotalLen(length) \div 2, TotalLen(length)}
  PROVE  Frame(index, length, taken) \in [index : Nat, length : Nat, content : Nat, bytes : Nat]
<1>1. Width \in Nat /\ Width > 8
  BY ResponderAssumption
<1>2. ContentLen(length) \in Nat
  BY <1>1 DEF ContentLen
<1>3. TotalLen(length) \in Nat
  BY <1>1, <1>2 DEF TotalLen
<1> DEFINE total == TotalLen(length)
<1>4. total \in Nat /\ taken \in {total \div 2, total}
  BY <1>3
<1> HIDE DEF total
<1>5. taken \in Nat
  BY <1>4
<1>6. QED
  BY <1>2, <1>5 DEF Frame

\* An answer ends the test with a frame.
LEMMA SendSilence ==
  ASSUME Shape, NEW k \in DOMAIN plan, Control(k), plan' = plan, SendStep(k)
  PROVE  SilenceOf(k)'
<1>1. k \in DOMAIN th /\ DOMAIN th[k] = Fields
  BY DEF Shape
<1>2. CASE SendNumber(k)
  <2>1. th'[k].at = "pack"
    BY <1>1, <1>2, SendNumberView
  <2>2. QED
    BY <2>1 DEF SilenceOf, KeyAt
<1>3. CASE SendPack(k)
  <2>1. th[k].at = "pack" /\ (th' = th \/ th'[k].at = "write")
    BY <1>1, <1>3, SendPackView DEF At
  <2>2. th'[k].at \notin KeyAt \cup {"done"}
    BY <2>1 DEF KeyAt
  <2>3. QED
    BY <2>2 DEF SilenceOf
<1>4. CASE SendWrite(k)
  <2>1. th'[k].at = "done"
    BY <1>1, <1>4, SendWriteView
  <2>2. PICK taken \in {TotalLen(th[k].try) \div 2, TotalLen(th[k].try)} :
           th'[k].frame = Frame(th[k].n, th[k].try, taken)
    BY <1>1, <1>4, SendWriteView
  <2>3. th[k].n \in Nat /\ th[k].try \in Nat
    BY DEF Control, LocalsOf
  <2> DEFINE index == th[k].n
             length == th[k].try
             f == Frame(th[k].n, th[k].try, taken)
  <2>4. /\ index \in Nat /\ length \in Nat /\ taken \in {TotalLen(length) \div 2, TotalLen(length)}
        /\ f = Frame(index, length, taken) /\ th'[k].frame = f
    BY <2>2, <2>3
  <2> HIDE DEF index, length, f
  <2>5. f \in [index : Nat, length : Nat, content : Nat, bytes : Nat]
    <3>1. /\ index \in Nat /\ length \in Nat
          /\ taken \in {TotalLen(length) \div 2, TotalLen(length)}
      BY <2>4
    <3>2. Frame(index, length, taken) \in [index : Nat, length : Nat, content : Nat, bytes : Nat]
      BY <3>1, FrameTyped, Zenon
    <3>3. QED
      BY <2>4, <3>2
  <2>6. th'[k].frame # None
    BY <2>4, <2>5, ResponderAssumption
  <2>7. QED
    BY <2>1, <2>6 DEF SilenceOf, KeyAt
<1>5. QED
  BY <1>2, <1>3, <1>4 DEF SendStep

\* A step of the key test.
LEMMA KeySilence ==
  ASSUME Shape, NEW k \in DOMAIN plan, Control(k), SilenceOf(k), plan' = plan, stopped' = stopped,
         KeyStep(k)
  PROVE  SilenceOf(k)'
<1>0. k \in DOMAIN th /\ DOMAIN th[k] = Fields
  BY DEF Shape
<1>1. th[k].at \in KeyAt
  BY DEF KeyStep, KeyLoop, ScanNode, NodeName, ScanEnds, TargetOpen, TargetsEnd, KeyTimeout, KeyNoise,
   KeyEvent, At, KeyAt
<1>2. plan[k].test = "key"
  BY <1>1, TestAt DEF Control, ControlOf
<1>3. CASE KeyLoop(k) \/ ScanNode(k) \/ NodeName(k) \/ ScanEnds(k) \/ TargetOpen(k)
  BY <1>0, <1>2, <1>3, KeyLoopSilence, ScanNodeSilence, NodeNameSilence, ScanEndsSilence, TargetOpenSilence
<1>4. CASE TargetsEnd(k) \/ KeyTimeout(k) \/ KeyNoise(k)
  BY <1>2, <1>4, TargetsEndSilence, KeyTimeoutSilence
<1>5. CASE \E x \in DOMAIN plan[k].items : KeyEvent(k, x)
  BY <1>2, <1>5, KeyEventSilence
<1>6. QED
  BY <1>3, <1>4, <1>5 DEF KeyStep

\* Where the thread is that takes a step of a test, and that the process lives.
LEMMA StepAt ==
  ASSUME NEW k
  PROVE  /\ SerialStep(k) => alive /\ th[k].at \in SerialAt
         /\ KeyStep(k) => alive /\ th[k].at \in KeyAt
         /\ DeviceStep(k) => alive /\ th[k].at \in DeviceAt \cup RtcAt
         /\ RadioStep(k) => alive /\ th[k].at \in WifiAt \cup BtAt
         /\ SendStep(k) => alive /\ th[k].at \in Ends
<1>1. SerialStep(k) => alive /\ th[k].at \in SerialAt
  BY DEF SerialStep, SerialItem, SerialOpen, SerialConfig, Echo, ClosePort, OpenCan, CanTest, Rs485Test,
   LineBegin, SerialAnswer, LineOpen, SendFails, Exchange, LineClose, SerialRetry, SerialDies, LineOfOne, SerialConfigDies, At, SerialAt
<1>2. KeyStep(k) => alive /\ th[k].at \in KeyAt
  BY DEF KeyStep, KeyLoop, ScanNode, NodeName, ScanEnds, TargetOpen, TargetsEnd, KeyTimeout, KeyNoise,
   KeyEvent, At, KeyAt
<1>3. DeviceStep(k) => alive /\ th[k].at \in DeviceAt \cup RtcAt
  BY DEF DeviceStep, Device, Vendor, GetHwid, Pin, GetInterfaceIp, PrefixInside, ReadAdc, CapturePng,
   EmptyFrame, Access, Dies, PipeBreaks, NotANumber, AccessOpen, AccessClose, Exported, Misleads, Request,
   DeviceItem, DeviceEnds, Lamp, RtcOpen, RtcSet, RtcGet, RtcClose, At, DeviceAt, RtcAt
<1>4. RadioStep(k) => alive /\ th[k].at \in WifiAt \cup BtAt
  BY DEF RadioStep, WifiSpent, WifiScan, WifiResults, BtFree, BtOpen, BtInquiry, BtFill, BtClose, BtResult,
   BtRead, BtGone, At, WifiAt, BtAt
<1>5. SendStep(k) => alive /\ th[k].at \in Ends
  BY DEF SendStep, SendNumber, SendPack, SendWrite, At, Ends
<1>6. QED
  BY <1>1, <1>2, <1>3, <1>4, <1>5

\* No step makes the silence of a test unexplained.
LEMMA SilenceStep ==
  ASSUME Typed, NEW k \in DOMAIN plan, plan' = plan, Command(k) \/ Test(k),
         \A j \in DOMAIN plan : SilenceOf(j)
  PROVE  \A j \in DOMAIN plan' : SilenceOf(j)'
<1>1. Shape /\ Control(k) /\ SilenceOf(k) /\ Control(k)' /\ Turns(k)
  BY StepControl DEF Typed
<1>2. stopped \subseteq stopped'
  BY DEF Command, Test, Dispatch, Stop
<1>3. SilenceOf(k)'
  <2>1. CASE Command(k)
    BY <1>1, <2>1, CommandSilence DEF Command
  <2>2. CASE Test(k) /\ (SerialStep(k) \/ DeviceStep(k) \/ RadioStep(k))
    <3>1. th[k].at \in SerialAt \cup DeviceAt \cup RtcAt \cup WifiAt \cup BtAt
      BY <2>2, StepAt
    <3>2. plan[k].test # "key" /\ th[k].at # "idle"
      BY <1>1, <3>1, TestAt DEF Control, ControlOf, SerialAt, DeviceAt, RtcAt, WifiAt, BtAt
    <3>3. Quiet(k)
      BY <1>1, <2>2, SerialControl, DeviceControl, RadioControl
    <3>4. QED
      BY <1>1, <3>2, <3>3, SilenceOther
  <2>3. CASE Test(k) /\ KeyStep(k)
    BY <1>1, <2>3, KeySilence DEF Test
  <2>4. CASE SendStep(k)
    BY <1>1, <2>4, SendSilence
  <2>5. QED
    BY <2>1, <2>2, <2>3, <2>4 DEF Test
<1>4. ASSUME NEW j \in DOMAIN plan', j # k PROVE SilenceOf(j)'
  <2>1. j \in DOMAIN plan /\ th'[j] = th[j]
    BY <1>1, <1>4 DEF Turns, Shape
  <2>2. QED
    BY <1>2, <2>1, SilenceStays
<1>5. QED
  BY <1>3, <1>4

\* Only a Bluetooth test is where one scans, and it comes there by the first
\* step of its scan.
LEMMA BtSteps ==
  ASSUME Typed, NEW k \in DOMAIN plan, plan' = plan, Command(k) \/ Test(k), th'[k].at \in BtRange
  PROVE  RadioStep(k) /\ (BtFree(k) \/ th[k].at \in BtRange)
<1>1. /\ k \in DOMAIN th /\ DOMAIN th[k] = Fields /\ Control(k) /\ Control(k)'
  BY StepControl DEF Typed, Shape
<1>2. plan[k].test = "bluetooth"
  BY <1>1 DEF Control, ControlOf, Points, Ends, BtRange, SerialAt, KeyAt, RtcAt, WifiAt, BtAt, DeviceAt
<1>3. CASE Command(k)
  <2>1. th[k] = Fresh /\ DOMAIN Fresh = Fields
    BY <1>1, <1>3 DEF Command, Dispatch, Stop, Turn, At, Control, ControlOf, Fresh, Fields
  <2>2. th'[k].at \in {"bt", "done"}
    BY <1>1, <1>2, <1>3, <2>1 DEF Command, Dispatch, Stop, Begun, To, Fields
  <2>3. QED
    BY <2>2 DEF BtRange
<1>4. CASE SerialStep(k) \/ KeyStep(k) \/ DeviceStep(k)
  BY <1>1, <1>2, <1>4, StepAt, TestAt DEF Control, ControlOf
<1>5. CASE SendStep(k)
  <2>1. th[k].at \notin BtRange
    BY <1>5, StepAt DEF Ends, BtRange
  <2>2. th' = th \/ th'[k].at \in Ends
    BY <1>1, <1>5, SendNumberView, SendPackView, SendWriteView DEF SendStep, Ends
  <2>3. QED
    BY <2>1, <2>2 DEF Ends, BtRange
<1>6. CASE RadioStep(k)
  <2>1. th[k].at \in BtAt
    BY <1>1, <1>2, <1>6, StepAt, TestAt DEF Control, ControlOf
  <2>2. th[k].at = "bt" => BtFree(k)
    BY <1>6 DEF RadioStep, WifiSpent, WifiScan, WifiResults, BtOpen, BtInquiry, BtFill, BtClose, BtResult,
     BtRead, BtGone, At
  <2>3. QED
    BY <1>6, <2>1, <2>2 DEF BtAt, BtRange
<1>7. QED
  BY <1>3, <1>4, <1>5, <1>6 DEF Test

\* Which steps touch the list, and that a race is not forgotten.
LEMMA ListSteps ==
  ASSUME NEW k, Command(k) \/ Test(k)
  PROVE  /\ btRaced \subseteq btRaced'
         /\ UNCHANGED <<btCount, btDevices, btRaced>> \/ BtFree(k) \/ BtInquiry(k)
<1>1. CASE RadioStep(k)
  BY <1>1 DEF RadioStep, WifiSpent, WifiScan, WifiResults, BtFree, BtOpen, BtInquiry, BtFill, BtClose,
   BtResult, BtRead, BtGone, radioVars, wifiOnly
<1>2. CASE UNCHANGED radioVars
  BY <1>2 DEF radioVars
<1>3. QED
  BY <1>1, <1>2 DEF Command, Test

\* Two tests that scan at a time have met.
LEMMA BtRacesStep ==
  ASSUME Typed, NEW k \in DOMAIN plan, plan' = plan, Command(k) \/ Test(k), BtRaces
  PROVE  BtRaces'
<1>1. DOMAIN th = DOMAIN plan /\ \A j \in DOMAIN plan : j # k => th'[j] = th[j]
  BY StepControl DEF Typed, Shape, Turns
<1>2. btRaced \subseteq btRaced'
  BY ListSteps
<1>3. ASSUME NEW j \in DOMAIN plan, j # k, th'[j].at \in BtRange, th'[k].at \in BtRange
      PROVE  {j, k} \subseteq btRaced'
  <2>1. th[j].at \in BtRange
    BY <1>1, <1>3
  <2>2. CASE BtFree(k)
    <3>1. j \in BtOthers(k)
      BY <1>1, <1>3, <2>1 DEF BtOthers, BtRange
    <3>2. QED
      BY <2>2, <3>1 DEF BtFree
  <2>3. CASE th[k].at \in BtRange
    BY <1>2, <1>3, <2>1, <2>3 DEF BtRaces
  <2>4. QED
    BY <1>3, <2>2, <2>3, BtSteps
<1>4. ASSUME NEW i \in DOMAIN plan', NEW j \in DOMAIN plan', i # j,
             th'[i].at \in BtRange, th'[j].at \in BtRange
      PROVE  {i, j} \subseteq btRaced'
  <2>1. CASE i = k
    BY <1>3, <1>4, <2>1
  <2>2. CASE j = k
    BY <1>3, <1>4, <2>2
  <2>3. CASE i # k /\ j # k
    BY <1>1, <1>2, <1>4, <2>3 DEF BtRaces
  <2>4. QED
    BY <2>1, <2>2, <2>3
<1>5. QED
  BY <1>4 DEF BtRaces

\* A test that met no other keeps its list.
LEMMA ListStep ==
  ASSUME Typed, NEW k \in DOMAIN plan, plan' = plan, Command(k) \/ Test(k), BtRaces,
         NEW j \in DOMAIN plan, ListOf(j)
  PROVE  ListOf(j)'
<1>1. /\ DOMAIN th = DOMAIN plan /\ DOMAIN th[k] = Fields /\ (j # k => th'[j] = th[j])
  BY StepControl DEF Typed, Shape, Turns
<1>2. SUFFICES ASSUME j \notin btRaced', th'[j].at \in BtRange
               PROVE  ListOf(j)'
  BY DEF ListOf, BtRange
<1>3. j \notin btRaced
  BY <1>2, ListSteps
<1>4. CASE j # k
  <2>1. ~ BtFree(k)
    <3>1. SUFFICES ASSUME BtFree(k) PROVE FALSE
      OBVIOUS
    <3>2. j \in BtOthers(k)
      BY <1>1, <1>2, <1>4 DEF BtOthers, BtRange
    <3>3. QED
      BY <1>2, <3>1, <3>2 DEF BtFree
  <2>2. ~ BtInquiry(k)
    BY <1>1, <1>2, <1>3, <1>4 DEF BtInquiry, At, BtRaces, BtRange
  <2>3. UNCHANGED <<btCount, btDevices, btRaced>>
    BY <2>1, <2>2, ListSteps
  <2>4. QED
    BY <1>1, <1>4, <2>3 DEF ListOf
<1>5. CASE j = k
  <2>1. RadioStep(k) /\ (BtFree(k) \/ th[k].at \in BtRange)
    BY <1>2, <1>5, BtSteps
  <2>2. CASE BtFree(k) \/ BtOpen(k) \/ BtRead(k)
    <3>1. th'[k].at \in {"btOpen", "btInquiry", "send"}
      BY <1>1, <2>2, BtFreeView, BtOpenView, BtReadView DEF BtOpenWay1, BtOpenWay2
    <3>2. QED
      BY <1>5, <3>1 DEF ListOf
  <2>3. CASE BtInquiry(k)
    <3>1. \/ th'[k].at = "send" \/ (th'[k].at = "btResult" /\ btCount' = 0)
          \/ (th'[k].at = "btFill" /\ btDevices' = k)
      BY <1>1, <2>3, BtInquiryView DEF BtInquiryWay1, BtInquiryWay2, BtInquiryWay3
    <3>2. QED
      BY <1>5, <3>1 DEF ListOf
  <2>4. CASE BtFill(k) \/ BtClose(k)
    <3>1. /\ th[k].at \in {"btFill", "btClose"} /\ th'[k].at \in {"btClose", "btResult"}
          /\ btDevices' = btDevices
      BY <1>1, <2>4, BtFillView, BtCloseView DEF At, radioVars
    <3>2. QED
      BY <1>3, <1>5, <3>1 DEF ListOf
  <2>5. CASE BtResult(k)
    <3>1. /\ th[k].at = "btResult" /\ btDevices' = btDevices
          /\ (btCount > 0 /\ th'[k].at = "btRead") \/ th'[k].at = "send"
      BY <1>1, <2>5, BtResultView DEF At, radioVars, BtResultWay1, BtResultWay2
    <3>2. QED
      BY <1>3, <1>5, <3>1 DEF ListOf
  <2>6. CASE BtGone(k)
    <3>1. th' = th /\ btCount' = btCount /\ btDevices' = btDevices
      BY <2>6 DEF BtGone, radioVars
    <3>2. QED
      BY <1>3, <3>1 DEF ListOf
  <2>7. CASE WifiSpent(k) \/ WifiScan(k) \/ WifiResults(k)
    BY <2>1, <2>7 DEF WifiSpent, WifiScan, WifiResults, BtFree, At, BtRange
  <2>8. QED
    BY <2>1, <2>2, <2>3, <2>4, <2>5, <2>6, <2>7 DEF RadioStep
<1>6. QED
  BY <1>4, <1>5

\* The process ends only where it was known to.
LEMMA CrashStep ==
  ASSUME Typed, NEW k \in DOMAIN plan, plan' = plan, Command(k) \/ Test(k), ListOf(k)
  PROVE  CrashExplained'
<1>1. k \in DOMAIN th /\ DOMAIN th[k] = Fields /\ k # None
  <2>1. k \in DOMAIN th /\ DOMAIN th[k] = Fields
    BY DEF Typed, Shape
  <2>2. k \in Nat
    BY PlanIndices DEF Typed, Shape
  <2>3. QED
    BY <2>1, <2>2, NoneAssumption
<1>2. alive
  BY StepAt DEF Command, Test, Dispatch, Stop, Turn, At
<1>3. SUFFICES ASSUME ~alive' PROVE CrashExplained'
  BY DEF CrashExplained
<1>4. CASE SerialDies(k)
  <2>1. /\ th' = th
        /\ \/ th[k].at = "line" /\ th[k].line <= 2 /\ Cardinality(OnLine(k)) = 1
           \/ th[k].at = "config"
    BY <1>4 DEF SerialDies, LineOfOne, SerialConfigDies, At
  <2>2. OnLine(k)' = OnLine(k)
    BY <2>1 DEF OnLine, Lines
  <2>3. QED
    BY <2>1, <2>2 DEF CrashExplained
<1>5. CASE Dies(k)
  <2>1. th' = th /\ th[k].at = "request" /\ Item(k) \in {"cam", "adc"}
    BY <1>5 DEF Dies, PipeBreaks, NotANumber, At
  <2>2. Item(k)' = Item(k)
    BY <2>1 DEF Item
  <2>3. QED
    BY <2>1, <2>2 DEF CrashExplained
<1>6. CASE BtGone(k)
  <2>1. k \in btRaced
    BY <1>1, <1>6 DEF BtGone, At, ListOf
  <2>2. k \in btRaced'
    BY <1>6, <2>1 DEF BtGone, radioVars
  <2>3. QED
    BY <2>2 DEF CrashExplained
<1>7. CASE SendPack(k)
  <2>1. th[k].at = "pack" /\ th' = th /\ \E length \in Lengths : ContentLen(length) = 0
    BY <1>1, <1>2, <1>3, <1>7, SendPackView DEF At
  <2>2. QED
    BY <2>1 DEF CrashExplained, ContentLen
<1>8. CASE alive' = alive
  BY <1>2, <1>3, <1>8
<1>9. QED
  <2>1. CASE Command(k)
    BY <1>8, <2>1 DEF Command, Dispatch, Stop
  <2>2. CASE SerialStep(k) \/ KeyStep(k)
    BY <1>4, <1>8, <2>2 DEF SerialStep, KeyStep
  <2>3. CASE DeviceStep(k)
    BY <1>5, <1>8, <2>3 DEF DeviceStep, Device
  <2>4. CASE RadioStep(k)
    BY <1>6, <1>8, <2>4 DEF RadioStep, BtFill, BtClose, BtResult, BtRead
  <2>5. CASE SendStep(k)
    BY <1>7, <1>8, <2>5 DEF SendStep, SendWrite
  <2>6. QED
    BY <2>1, <2>2, <2>3, <2>4, <2>5 DEF Test

\* The tests begin without an end to explain.
LEMMA EndedInit ==
  ASSUME Init
  PROVE  Ended
<1>1. alive = TRUE /\ \A k \in DOMAIN plan : th[k] = Fresh
  BY DEF Init
<1>2. \A k \in DOMAIN plan : th[k].at = "idle"
  BY <1>1 DEF Fresh
<1>3. QED
  BY <1>1, <1>2 DEF Ended, CrashExplained, BtRaces, BtRange, SilenceOf, KeyAt, ListOf

\* A step of one thread leaves every end explained.
LEMMA EndedStep ==
  ASSUME Typed, Ended, NEW k \in DOMAIN plan, plan' = plan, Command(k) \/ Test(k)
  PROVE  Ended'
<1>1. CrashExplained' /\ BtRaces'
  BY CrashStep, BtRacesStep DEF Ended
<1>2. \A j \in DOMAIN plan' : SilenceOf(j)'
  BY SilenceStep DEF Ended
<1>3. \A j \in DOMAIN plan' : ListOf(j)'
  BY ListStep DEF Ended
<1>4. QED
  BY <1>1, <1>2, <1>3 DEF Ended

\* And so does a step that changes nothing.
LEMMA EndedStutter ==
  ASSUME Ended, UNCHANGED vars
  PROVE  Ended'
<1>1. /\ plan' = plan /\ th' = th /\ alive' = alive /\ stopped' = stopped /\ btRaced' = btRaced
      /\ btCount' = btCount /\ btDevices' = btDevices
  BY DEF vars, base, radioVars
<1>2. ASSUME NEW j \in DOMAIN plan' PROVE SilenceOf(j)' /\ ListOf(j)'
  <2>1. SilenceOf(j)'
    BY <1>1, SilenceStays DEF Ended
  <2>2. ListOf(j)'
    BY <1>1 DEF Ended, ListOf
  <2>3. QED
    BY <2>1, <2>2
<1>3. BtRaces'
  BY <1>1 DEF Ended, BtRaces
<1>4. CrashExplained'
  <2>1. \A j : OnLine(j)' = OnLine(j) /\ Item(j)' = Item(j)
    BY <1>1 DEF OnLine, Lines, Item
  <2>2. QED
    BY <1>1, <2>1 DEF Ended, CrashExplained, ContentLen
<1>5. QED
  BY <1>2, <1>3, <1>4 DEF Ended

\* The inductive invariant behind it: a key test has read every name unless it
\* met trouble, and a Bluetooth test that met no other finds its own list.
THEOREM EndsInductive == Spec => [](Typed /\ Ended)
<1>1. Init => Typed /\ Ended
  BY TypedInit, EndedInit
<1>2. Typed /\ Ended /\ [Next]_vars => Typed' /\ Ended'
  BY NextSteps, TypedStep, TypedStutter, EndedStep, EndedStutter
<1>3. QED
  BY <1>1, <1>2, PTL DEF Spec

\* A test ends without an answer only for a known reason, and so does the
\* process: nothing else keeps the host waiting.
THEOREM EndsAreExplained == Spec => []EndsExplained
<1>1. Typed /\ Ended => EndsExplained
  <2>1. ASSUME Ended PROVE SilentEndExplained
    BY <2>1 DEF Ended, SilenceOf, Excused, Troubled, SilentEndExplained
  <2>2. QED
    BY <2>1 DEF Ended, EndsExplained
<1>2. QED
  BY <1>1, EndsInductive, PTL
-----------------------------------------------------------------------------
(***************************************************************************)
(* What a test holds and what it says through each of its actions.         *)
(***************************************************************************)
\* What a test knows that is ready for a step.
LEMMA ReadyF ==
  ASSUME NEW k, Ready(k)
  PROVE  /\ Shape /\ k \in DOMAIN plan /\ k \in DOMAIN th /\ DOMAIN th[k] = Fields /\ plan' = plan
         /\ MembersOf(k) /\ PortsOf(k) /\ VerdictsOf(k) /\ ControlOf(k)
         /\ th[k].at \in SerialAt \cup KeyAt \cup RtcAt \cup WifiAt \cup BtAt \cup DeviceAt => Known(k)
         /\ th[k].at \in SerialAt => plan[k].test = "serial"
         /\ th[k].at \in KeyAt => plan[k].test = "key"
         /\ th[k].at \in RtcAt => plan[k].test = "rtc"
         /\ th[k].at \in WifiAt => plan[k].test = "wifi"
         /\ th[k].at \in BtAt => plan[k].test = "bluetooth"
         /\ th[k].at \in DeviceAt =>
              plan[k].test \notin {"serial", "key", "rtc", "wifi", "bluetooth", "stop"}
<1>1. /\ Shape /\ k \in DOMAIN plan /\ k \in DOMAIN th /\ DOMAIN th[k] = Fields /\ plan' = plan
      /\ MembersOf(k) /\ PortsOf(k) /\ VerdictsOf(k) /\ Control(k) /\ ControlOf(k)
      /\ th[k].at \in {"idle"} \cup Points(k) \cup Ends
  BY DEF Ready, Shape, Control, ControlOf
<1>2. th[k].at \in SerialAt \cup KeyAt \cup RtcAt \cup WifiAt \cup BtAt \cup DeviceAt =>
        th[k].at \in Points(k) /\ th[k].at \notin Ends
  BY <1>1, TestAt DEF SerialAt, KeyAt, RtcAt, WifiAt, BtAt, DeviceAt, Ends
<1>3. QED
  BY <1>1, <1>2, TestAt, KnownOf

\* A free test keeps every promise.
LEMMA FreeF ==
  ASSUME NEW k
  PROVE  /\ Free(k) => \A n : ~Holds(k, n)
         /\ Free(k)' => \A n : ~Holds(k, n)'
         /\ Free(k)' => MembersOf(k)' /\ PortsOf(k)' /\ ~Promised(k)' /\ ~Denied(k)'
<1>1. Free(k) => \A n : ~Holds(k, n)
  BY DEF Free, Holds, AtLine, FdAt, Ends, Ports
<1>2. Free(k)' => \A n : ~Holds(k, n)'
  BY DEF Free, Holds, AtLine, FdAt, Ends, Ports
<1>3. Free(k)' => MembersOf(k)' /\ PortsOf(k)' /\ ~Promised(k)' /\ ~Denied(k)'
  BY DEF Free, MembersOf, PortsOf, AtLine, RtcRange, Promised, Denied, Ends
<1>4. QED
  BY <1>1, <1>2, <1>3

\* A test goes on without a verdict.
LEMMA NoVerdict ==
  ASSUME NEW k \in DOMAIN plan, plan' = plan, VerdictsOf(k), Silent(k), Calm(k),
         Promised(k)' => Fair(k, th[k].item)', Denied(k)' => Caused(k)'
  PROVE  VerdictsOf(k)' /\ Blamed(k)
<1>1. \A x : Fair(k, x) => Fair(k, x)'
  BY DEF Fair, Crowded, Alone, Silent, Calm
<1>2. QED
  BY <1>1 DEF VerdictsOf, Blamed, Silent

\* A test gives a verdict on its item.
LEMMA NewVerdict ==
  ASSUME NEW k \in DOMAIN plan, plan' = plan, VerdictsOf(k), Known(k), plan[k].test # "key",
         Speaks(k), Calm(k), ~Promised(k)', ~Denied(k)'
  PROVE  VerdictsOf(k)' /\ Blamed(k)
<1>1. PICK v \in Verdicts :
        /\ th'[k].items = Append(th[k].items, v)
        /\ v = "OK" => \/ Promised(k) \/ th[k].item \in th'[k].shown
                       \/ {"stray", "lookalike"} \cap th'[k].met # {}
        /\ v = "NG" => Caused(k)'
  BY DEF Speaks
<1>3. /\ DOMAIN th'[k].items = 1 .. Len(th[k].items) + 1 /\ th'[k].items[th[k].item] = v
      /\ th[k].item = Len(th[k].items) + 1 /\ DOMAIN th[k].items = 1 .. Len(th[k].items)
      /\ \A x \in DOMAIN th[k].items : th'[k].items[x] = th[k].items[x]
  BY <1>1, AppendSeq DEF Known
<1>4. \A x \in DOMAIN th'[k].items : x \in DOMAIN th[k].items \/ x = th[k].item
  BY <1>3 DEF Known
<1>2. \A x : Fair(k, x) => Fair(k, x)'
  <2>1. \A x \in DOMAIN th[k].items : x \in DOMAIN th'[k].items
    BY <1>3 DEF Known
  <2>2. QED
    BY <1>3, <2>1 DEF Fair, Crowded, Alone, Calm
<1>5. v = "OK" => \A i \in {th[k].item} : Fair(k, i)'
  BY <1>1, <1>2 DEF VerdictsOf, Fair
<1>6. \A x \in DOMAIN th'[k].items : th'[k].items[x] = "OK" => Fair(k, x)'
  BY <1>2, <1>3, <1>4, <1>5 DEF VerdictsOf
<1>7. QED
  BY <1>1, <1>3, <1>4, <1>6 DEF VerdictsOf, Blamed

\* A step that leaves a test free lets go of all that it held.
LEMMA FreeMoves ==
  ASSUME NEW k, Free(k)', Calm(k), LetsGo(k)
  PROVE  MembersOf(k)' /\ PortsOf(k)' /\ ~Promised(k)' /\ ~Denied(k)' /\ Handles(k) /\ Parts(k)
<1>1. Handles(k)
  BY FreeF DEF LetsGo, Calm, Handles, Moves
<1>2. Parts(k)
  BY DEF Parts, Apart, Free, Ends
<1>3. QED
  BY <1>1, <1>2, FreeF
\* A free worker that only moves keeps what is known of it.
LEMMA FreeFares ==
  ASSUME NEW k, Ready(k), Free(k)', Calm(k), LetsGo(k),
         Silent(k) \/ (Known(k) /\ plan[k].test # "key" /\ Speaks(k))
  PROVE  Fares(k)
<1>1. VerdictsOf(k)' /\ Blamed(k)
  BY ReadyF, FreeF, NoVerdict, NewVerdict
<1>2. QED
  BY <1>1, FreeMoves DEF Fares

\* A test closes the one descriptor that it holds.
LEMMA ClosesOne ==
  ASSUME NEW k, NEW m, Drop(m), \A n : Holds(k, n) <=> n = m
  PROVE  LetsGo(k)
  BY DEF Drop, LetsGo

\* What failed is the cause of a verdict.
LEMMA Caught ==
  ASSUME NEW k,
         \/ Lack \subseteq th'[k].met \/ \E n : Blames(k, n) \subseteq th'[k].met
         \/ Caused(k) /\ th[k].met \subseteq th'[k].met
  PROVE  Caused(k)'
  BY DEF Lack, Blames, Caused, Causes

\* An answer through the port counts for its item, unless the number went astray.
LEMMA AnswerFair ==
  ASSUME NEW k \in DOMAIN plan, plan' = plan, Known(k), MembersOf(k),
         th[k].at \in {"echo", "probe"}, th[k].line = 0, th[k].fd \in Opened,
         th'[k].shown = NowShown(k), th'[k].met = th[k].met \cup Astray(k, th[k].fd),
         th'[k].item = th[k].item
  PROVE  Fair(k, th[k].item)'
<1>1. CASE th[k].fd \in OwnedBy(k)
  <2>1. fds[th[k].fd].file = Port(k)
    BY <1>1 DEF MembersOf, Port
  <2>2. QED
    BY <2>1 DEF Fair, NowShown
<1>2. CASE th[k].fd \notin OwnedBy(k)
  <2>1. th[k].fd >= 0
    BY MaxFdAssumption DEF Known, Opened
  <2>2. QED
    BY <1>2, <2>1 DEF Fair, Astray
<1>3. QED
  BY <1>1, <1>2

\* The answer of a port, or none.
LEMMA AnswerFares ==
  ASSUME NEW k, Ready(k), th[k].at \in {"echo", "probe"}, th[k].line = 0, Calm(k), Silent(k), Keeps,
         th'[k].fd = th[k].fd, th'[k].item = th[k].item, th'[k].line = 0,
         \/ th'[k].at = th[k].at
         \/ /\ th'[k].at = "closePort" /\ th'[k].ok /\ th'[k].shown = NowShown(k)
            /\ th'[k].met = th[k].met \cup Astray(k, th[k].fd) /\ th[k].fd \in Opened
         \/ th'[k].at = "closePort" /\ th'[k].ok /\ Item(k) = "485"
         \/ th'[k].at = "closePort" /\ ~th'[k].ok /\ Caused(k)'
  PROVE  Fares(k)
<1>1. Known(k) /\ MembersOf(k) /\ VerdictsOf(k) /\ k \in DOMAIN plan /\ plan' = plan
  BY ReadyF DEF SerialAt
<1>2. Promised(k)' => Fair(k, th[k].item)'
  BY <1>1, AnswerFair DEF Promised, Fair, Item
<1>3. VerdictsOf(k)' /\ Blamed(k)
  BY <1>1, <1>2, NoVerdict DEF Denied
<1>4. MembersOf(k)' /\ PortsOf(k)'
  BY <1>1 DEF MembersOf, PortsOf, AtLine, RtcRange, OwnedBy, Keeps, Opened
<1>5. Handles(k)
  BY DEF Handles, Calm, Moves, Holds, FdAt, AtLine
<1>6. QED
  BY <1>3, <1>4, <1>5 DEF Fares, Parts, Apart
\* What a free test holds once it has opened a device.
LEMMA TakesFares ==
  ASSUME NEW k, Ready(k), Free(k), Silent(k), th'[k].shown = th[k].shown,
         th[k].met \ {"fault", "full"} \subseteq th'[k].met,
         "stray" \in th'[k].met => "stray" \in th[k].met,
         NEW file, Takes(k, file), th'[k].fd = Lowest, \A n : Holds(k, n)' <=> n = th'[k].fd,
         MembersOf(k)', PortsOf(k)', ~Promised(k)', ~Denied(k)', Apart(k)'
  PROVE  Fares(k)
<1>1. VerdictsOf(k)' /\ Blamed(k)
  BY ReadyF, NoVerdict DEF Calm
<1>2. Handles(k)
  <2>1. Moves(k, {Lowest})
    BY FreeF DEF Moves
  <2>2. \A n \in {Lowest} : Leaky(k) \/ Holds(k, n)'
    OBVIOUS
  <2>3. QED
    BY <2>1, <2>2 DEF Handles
<1>3. QED
  BY <1>1, <1>2 DEF Fares, Parts

\* The file of a descriptor that was just opened.
LEMMA TakenFile ==
  ASSUME DOMAIN fds = 0 .. MaxFd - 1, NEW k, NEW file, Takes(k, file)
  PROVE  \A n \in {Lowest} : n >= 0 /\ n \in DOMAIN fds \ Opened /\ fds'[n].file = file /\ fds'[n].by = k
  BY LowestFree, MaxFdAssumption DEF Takes

\* The next port of a line is one of it that was not opened yet.
LEMMA NextPortIn ==
  ASSUME NEW k, Known(k), ~(OnLine(k) \subseteq DOMAIN th[k].ports)
  PROVE  NextPort(k) \in OnLine(k) \ DOMAIN th[k].ports
<1>1. OnLine(k) \ DOMAIN th[k].ports \in SUBSET Nat /\ OnLine(k) \ DOMAIN th[k].ports # {}
  BY DEF Known, OnLine
<1>2. QED
  BY <1>1, LeastIn DEF NextPort

\* The ports of a line with one more, opened or not.
LEMMA AddsF ==
  ASSUME NEW k, NEW n, NEW up, Adds(k, n, up), NextPort(k) \notin DOMAIN th[k].ports
  PROVE  /\ DOMAIN th'[k].ports = DOMAIN th[k].ports \cup {NextPort(k)}
         /\ DOMAIN th'[k].send = DOMAIN th'[k].ports /\ DOMAIN th'[k].recv = DOMAIN th'[k].ports
         /\ \A i \in {NextPort(k)} : th'[k].send[i] = up /\ th'[k].recv[i] = up /\ th'[k].ports[i] = n
         /\ \A x \in DOMAIN th[k].ports : /\ th'[k].send[x] = th[k].send[x] /\ th'[k].recv[x] = th[k].recv[x]
                                          /\ th'[k].ports[x] = th[k].ports[x]
         /\ \A m : m \in PortFds(k)' <=> m \in PortFds(k) \/ (m = n /\ n # -1)
<1>1. \A y \in DOMAIN th[k].ports : y # NextPort(k)
  OBVIOUS
<1>2. /\ DOMAIN th'[k].ports = DOMAIN th[k].ports \cup {NextPort(k)}
      /\ DOMAIN th'[k].send = DOMAIN th'[k].ports /\ DOMAIN th'[k].recv = DOMAIN th'[k].ports
      /\ \A i \in {NextPort(k)} : th'[k].send[i] = up /\ th'[k].recv[i] = up /\ th'[k].ports[i] = n
      /\ \A x \in DOMAIN th[k].ports : /\ th'[k].send[x] = th[k].send[x] /\ th'[k].recv[x] = th[k].recv[x]
                                       /\ th'[k].ports[x] = th[k].ports[x]
  BY <1>1 DEF Adds, Extended
<1>3. \A m : m \in PortFds(k)' <=> m \in PortFds(k) \/ (m = n /\ n # -1)
  BY <1>2 DEF PortFds, Usable
<1>4. QED
  BY <1>2, <1>3

\* What a test knows at the ports of a line.
LEMMA LineF ==
  ASSUME NEW k, Ready(k), AtLine(k)
  PROVE  /\ Known(k) /\ plan[k].test = "serial" /\ VerdictsOf(k) /\ k \in DOMAIN plan /\ plan' = plan
         /\ DOMAIN th[k].ports \subseteq OnLine(k) /\ th[k].lost \subseteq DOMAIN th[k].ports
         /\ DOMAIN th[k].send = DOMAIN th[k].ports /\ DOMAIN th[k].recv = DOMAIN th[k].ports
         /\ Cardinality(OnLine(k)) <= 2 =>
              /\ th[k].queue \in [OnLine(k) -> {0}]
              /\ \A x \in DOMAIN th[k].ports :
                   (x \in th[k].lost => ~th[k].recv[x]) /\ (Passed(k, x) \/ Caused(k))
         /\ \A x \in DOMAIN th[k].ports : th[k].ports[x] = -1 => ~th[k].send[x]
         /\ \A x, y \in OnLine(k) : Reaches(k, x, y)
         /\ \A n : Holds(k, n) <=> n \in PortFds(k) \/ (th[k].at = "config" /\ n = th[k].fd)
<1>1. PortsOf(k) /\ th[k].at \in SerialAt
  BY ReadyF DEF AtLine, SerialAt
<1>2. \A n : Holds(k, n) <=> n \in PortFds(k) \/ (th[k].at = "config" /\ n = th[k].fd)
  BY DEF Holds, AtLine, FdAt
<1>3. QED
  BY <1>1, <1>2, ReadyF DEF PortsOf

\* A step at a line that gives no verdict.
LEMMA LineFares ==
  ASSUME NEW k, Ready(k), AtLine(k)', Silent(k), Calm(k), PortsOf(k)', Handles(k), Parts(k),
         th'[k].at = "config" => serialFd' = th'[k].fd
  PROVE  Fares(k)
<1>1. MembersOf(k)' /\ ~Promised(k)' /\ ~Denied(k)'
  BY ReadyF DEF AtLine, MembersOf, RtcRange, Promised, Denied
<1>2. VerdictsOf(k)' /\ Blamed(k)
  BY <1>1, ReadyF, NoVerdict
<1>3. QED
  BY <1>1, <1>2 DEF Fares

\* The ports of a line in the next state, when no port was added.
LEMMA SamePorts ==
  ASSUME NEW k, Ready(k), AtLine(k), th[k].at # "exchange", th'[k].line = th[k].line, th'[k].ports = th[k].ports,
         th'[k].send = th[k].send, th'[k].recv = th[k].recv, th'[k].queue = th[k].queue,
         Recalls(k), th[k].met \subseteq th'[k].met,
         th'[k].at \in {"open", "config"} => ~(OnLine(k) \subseteq DOMAIN th[k].ports),
         th'[k].at = "exchange" => OnLine(k) \subseteq DOMAIN th[k].ports,
         th'[k].at \in {"lineOpen", "open", "config", "exchange"}
  PROVE  PortsOf(k)' /\ PortFds(k)' = PortFds(k)
<1>1. OnLine(k)' = OnLine(k) /\ (Caused(k) => Caused(k)') /\ \A x : Passed(k, x)' <=> Passed(k, x)
  BY LineF DEF OnLine, Caused, Passed
<1>5. th'[k].lost = th[k].lost /\ \A x, y \in OnLine(k) : Reaches(k, x, y)'
  BY LineF DEF Recalls, Reaches
<1>2. PortFds(k)' = PortFds(k)
  BY DEF PortFds, Usable
<1>3. PortsOf(k)'
  BY <1>1, <1>5, LineF DEF PortsOf
<1>4. QED
  BY <1>2, <1>3

\* One more port of a line: one that did not come up has a cause.
LEMMA MorePorts ==
  ASSUME NEW k, Ready(k), AtLine(k), ~(OnLine(k) \subseteq DOMAIN th[k].ports), NEW n, NEW up,
         Adds(k, n, up), up = TRUE \/ Caused(k)', n # -1 \/ up = FALSE, th'[k].at = "lineOpen", th'[k].line = th[k].line,
         th'[k].queue = th[k].queue, Recalls(k), th[k].met \subseteq th'[k].met
  PROVE  /\ PortsOf(k)' /\ AtLine(k)'
         /\ \A m : Holds(k, m)' <=> m \in PortFds(k) \/ (m = n /\ n # -1)
<1>1. OnLine(k)' = OnLine(k) /\ (Caused(k) => Caused(k)') /\ AtLine(k)'
  BY LineF DEF OnLine, Caused, AtLine
<1>2. NextPort(k) \in OnLine(k) \ DOMAIN th[k].ports
  BY LineF, NextPortIn
<1>3. /\ DOMAIN th'[k].ports = DOMAIN th[k].ports \cup {NextPort(k)}
      /\ DOMAIN th'[k].send = DOMAIN th'[k].ports /\ DOMAIN th'[k].recv = DOMAIN th'[k].ports
      /\ \A i \in {NextPort(k)} : th'[k].send[i] = up /\ th'[k].recv[i] = up /\ th'[k].ports[i] = n
      /\ \A x \in DOMAIN th[k].ports : /\ th'[k].send[x] = th[k].send[x] /\ th'[k].recv[x] = th[k].recv[x]
                                       /\ th'[k].ports[x] = th[k].ports[x]
      /\ \A m : m \in PortFds(k)' <=> m \in PortFds(k) \/ (m = n /\ n # -1)
  BY <1>2, AddsF
<1>4. DOMAIN th'[k].ports \subseteq OnLine(k) /\ th'[k].lost \subseteq DOMAIN th'[k].ports
  BY <1>2, <1>3, LineF DEF Recalls
<1>8. /\ \A x \in DOMAIN th'[k].ports : th'[k].ports[x] = -1 => ~th'[k].send[x]
      /\ \A x, y \in OnLine(k) : Reaches(k, x, y)'
  <2>1. \A x \in DOMAIN th'[k].ports : th'[k].ports[x] = -1 => ~th'[k].send[x]
    BY <1>3, LineF
  <2>2. \A x, y \in OnLine(k) : <<x, y>> \notin th[k].tested
    BY LineF, ReadyF DEF PortsOf, Reaches
  <2>3. QED
    BY <2>1, <2>2 DEF Recalls, Reaches
<1>5. ASSUME Cardinality(OnLine(k)) <= 2, NEW x \in DOMAIN th'[k].ports
      PROVE  (x \in th'[k].lost => ~th'[k].recv[x]) /\ ((th'[k].send[x] /\ th'[k].recv[x]) \/ Caused(k)')
  <2>1. CASE x \in DOMAIN th[k].ports
    BY <1>1, <1>3, <1>5, <2>1, LineF DEF Passed, Recalls
  <2>2. CASE x = NextPort(k)
    BY <1>2, <1>3, <2>2, LineF DEF Recalls
  <2>3. QED
    BY <1>3, <2>1, <2>2
<1>6. PortsOf(k)'
  BY <1>1, <1>3, <1>4, <1>5, <1>8, LineF DEF PortsOf, Passed
<1>7. QED
  BY <1>1, <1>3, <1>6 DEF Holds, FdAt

\* A step of a test that goes on with its device, or without it.
LEMMA HeldFares ==
  ASSUME NEW k, Ready(k), th'[k].at \in HeldAt, Silent(k), Calm(k), Handles(k), MembersOf(k)',
         th'[k].item = th[k].item, NEW i, i = th[k].item,
         \/ ~Promised(k)' \/ Promised(k) \/ i \in th'[k].shown
         \/ {"stray", "lookalike"} \cap th'[k].met # {},
         Denied(k)' => Caused(k)'
  PROVE  Fares(k)
<1>1. PortsOf(k)' /\ Parts(k)
  BY DEF HeldAt, PortsOf, AtLine, Parts, Apart
<1>2. Promised(k)' => Fair(k, i)'
  <2>1. Promised(k) => Fair(k, i)
    BY ReadyF DEF VerdictsOf
  <2>2. QED
    BY <2>1, ReadyF DEF Fair, Crowded, Alone, Silent, Calm
<1>3. VerdictsOf(k)' /\ Blamed(k)
  BY <1>2, ReadyF, NoVerdict
<1>4. QED
  BY <1>1, <1>3 DEF Fares

\* A step on the table of descriptors that leaves a test with the one it held.
LEMMA SameFd ==
  ASSUME NEW k, th[k].at \in FdAt \cap HeldAt, th'[k].at \in FdAt \cap HeldAt, th'[k].fd = th[k].fd, Calm(k),
         Keeps
  PROVE  Handles(k)
  BY DEF Handles, Calm, Moves, Holds, FdAt, HeldAt, AtLine

\* The clock and the radios have one item.
LEMMA ItemOne ==
  ASSUME NEW k, Ready(k), th[k].at \in RtcAt \cup WifiAt \cup BtAt
  PROVE  /\ Known(k) /\ th[k].item = 1 /\ MembersOf(k) /\ plan[k].test \in {"rtc", "wifi", "bluetooth"}
         /\ k \in DOMAIN th /\ DOMAIN th[k] = Fields /\ DOMAIN fds = 0 .. MaxFd - 1
         /\ th[k].at \in FdAt => \A n : Holds(k, n) <=> n = th[k].fd
<1>1. /\ Known(k) /\ plan[k].test \in {"rtc", "wifi", "bluetooth"} /\ MembersOf(k) /\ k \in DOMAIN th
      /\ DOMAIN th[k] = Fields /\ DOMAIN fds = 0 .. MaxFd - 1
  BY ReadyF DEF Shape
<1>2. Len(plan[k].items) = 1 /\ th[k].item <= Len(plan[k].items)
  BY <1>1, ReadyF, PlanItems DEF Shape, ControlOf, AtItem
<1>3. th[k].at \in FdAt => \A n : Holds(k, n) <=> n = th[k].fd
  BY DEF Holds, AtLine, RtcAt, WifiAt, BtAt
<1>4. QED
  BY <1>1, <1>2, <1>3 DEF Known

\* What a test of devices knows.
LEMMA DeviceF ==
  ASSUME NEW k, Ready(k), th[k].at \in DeviceAt
  PROVE  /\ Known(k) /\ plan[k].test # "key" /\ k \in DOMAIN th /\ DOMAIN th[k] = Fields
         /\ DOMAIN fds = 0 .. MaxFd - 1 /\ VerdictsOf(k) /\ plan' = plan
         /\ th[k].at \in {"device", "lamp", "access"} => Free(k)
         /\ th[k].at \in {"request", "close"} => \A n : Holds(k, n) <=> n = th[k].fd
         /\ th[k].at \in {"access", "request"} /\ Item(k) = "pin" => Leaky(k)
<1>1. /\ Known(k) /\ plan[k].test # "key" /\ k \in DOMAIN th /\ DOMAIN th[k] = Fields /\ VerdictsOf(k)
      /\ DOMAIN fds = 0 .. MaxFd - 1 /\ plan' = plan
  BY ReadyF DEF Shape
<1>2. th[k].at \in {"access", "request"} => th[k].item \in DOMAIN plan[k].items
  BY <1>1, ReadyF DEF ControlOf, AtItem, Known
<1>3. th[k].at \in {"access", "request"} /\ Item(k) = "pin" => Leaky(k)
  BY <1>2, ReadyF, PlanAssumption DEF Shape, Item, Leaky
<1>4. th[k].at \in {"request", "close"} => \A n : Holds(k, n) <=> n = th[k].fd
  BY DEF Holds, AtLine, FdAt
<1>5. QED
  BY <1>1, <1>3, <1>4 DEF Free

\* The same for the next item of a serial test.
LEMMA SerialItemFares ==
  ASSUME NEW k, Ready(k), SerialItem(k)
  PROVE  Fares(k)
<1>1. /\ th[k].at = "serial" /\ th[k].line = 0
      /\ SerialItemWay1(k) \/ SerialItemWay2(k) \/ SerialItemWay3(k)
  BY ReadyF, SerialItemView DEF At, ControlOf
<1>2. Known(k) /\ plan[k].test = "serial"
  BY <1>1, ReadyF DEF SerialAt
<1>3. Free(k)' /\ Calm(k) /\ Keeps /\ (Silent(k) \/ Speaks(k))
  BY <1>1, <1>2 DEF SerialItemWay1, SerialItemWay2, SerialItemWay3, Changes, Fields, Free, Calm, Silent,
     Speaks, Judges, Verdicts
<1>4. QED
  BY <1>1, <1>2, <1>3, FreeF, FreeFares DEF Free, LetsGo

LEMMA EchoFares ==
  ASSUME NEW k, Ready(k), Echo(k)
  PROVE  Fares(k)
<1>1. th[k].at = "echo" /\ th[k].line = 0 /\ (EchoWay1(k) \/ EchoWay2(k) \/ EchoWay3(k))
  BY ReadyF, EchoView DEF At, ControlOf
<1>2. Known(k) /\ \A n : Holds(k, n) <=> n = th[k].fd
  BY <1>1, ReadyF DEF SerialAt, Holds, FdAt, AtLine
<1>3. /\ Silent(k) /\ Calm(k) /\ Keeps /\ th'[k].fd = th[k].fd /\ th'[k].item = th[k].item
      /\ th'[k].line = 0
      /\ \/ th'[k].at = "echo"
         \/ /\ th'[k].at = "closePort" /\ th'[k].ok /\ th'[k].shown = NowShown(k)
            /\ th'[k].met = th[k].met \cup Astray(k, th[k].fd) /\ th[k].fd \in Opened
         \/ th'[k].at = "closePort" /\ ~th'[k].ok /\ Caused(k)'
  BY <1>1, <1>2 DEF EchoWay1, EchoWay2, EchoWay3, Changes, Fields, NowShown, Calm, Silent, Caused, Causes,
     Blames
<1>4. QED
  BY <1>1, <1>2, <1>3, AnswerFares

LEMMA CanTestFares ==
  ASSUME NEW k, Ready(k), CanTest(k)
  PROVE  Fares(k)
<1>1. th[k].at = "probe" /\ th[k].line = 0 /\ (CanTestWay1(k) \/ CanTestWay2(k) \/ CanTestWay3(k))
  BY ReadyF, CanTestView DEF At, ControlOf
<1>2. Known(k) /\ \A n : Holds(k, n) <=> n = th[k].fd
  BY <1>1, ReadyF DEF SerialAt, Holds, FdAt, AtLine
<1>3. /\ Silent(k) /\ Calm(k) /\ Keeps /\ th'[k].fd = th[k].fd /\ th'[k].item = th[k].item
      /\ th'[k].line = 0
      /\ \/ th'[k].at = "probe"
         \/ /\ th'[k].at = "closePort" /\ th'[k].ok /\ th'[k].shown = NowShown(k)
            /\ th'[k].met = th[k].met \cup Astray(k, th[k].fd) /\ th[k].fd \in Opened
         \/ th'[k].at = "closePort" /\ ~th'[k].ok /\ Caused(k)'
  BY <1>1, <1>2 DEF CanTestWay1, CanTestWay2, CanTestWay3, Changes, Fields, NowShown, Calm, Silent, Caused,
     Causes, Blames
<1>4. QED
  BY <1>1, <1>2, <1>3, AnswerFares

LEMMA Rs485TestFares ==
  ASSUME NEW k, Ready(k), Rs485Test(k)
  PROVE  Fares(k)
<1>1. /\ th[k].at = "probe" /\ th[k].line = 0
      /\ Rs485TestWay1(k) \/ Rs485TestWay2(k) \/ Rs485TestWay3(k) \/ Rs485TestWay4(k)
  BY ReadyF, Rs485TestView DEF At, ControlOf
<1>2. Known(k) /\ \A n : Holds(k, n) <=> n = th[k].fd
  BY <1>1, ReadyF DEF SerialAt, Holds, FdAt, AtLine
<1>3. /\ Silent(k) /\ Calm(k) /\ Keeps /\ th'[k].fd = th[k].fd /\ th'[k].item = th[k].item
      /\ th'[k].line = 0
      /\ \/ th'[k].at = "probe"
         \/ /\ th'[k].at = "closePort" /\ th'[k].ok /\ th'[k].shown = NowShown(k)
            /\ th'[k].met = th[k].met \cup Astray(k, th[k].fd) /\ th[k].fd \in Opened
         \/ th'[k].at = "closePort" /\ th'[k].ok /\ Item(k) = "485"
         \/ th'[k].at = "closePort" /\ ~th'[k].ok /\ Caused(k)'
  BY <1>1, <1>2 DEF Rs485TestWay1, Rs485TestWay2, Rs485TestWay3, Rs485TestWay4, Changes, Fields, NowShown,
     Calm, Silent, Caused, Causes, Blames
<1>4. QED
  BY <1>1, <1>2, <1>3, AnswerFares

LEMMA ClosePortFares ==
  ASSUME NEW k, Ready(k), ClosePort(k)
  PROVE  Fares(k)
<1>1. /\ th[k].at = "closePort" /\ th[k].line = 0
      /\ ClosePortWay1(k) \/ ClosePortWay2(k) \/ ClosePortWay3(k)
  BY ReadyF, ClosePortView DEF At, ControlOf
<1>2. Known(k) /\ plan[k].test = "serial" /\ \A n : Holds(k, n) <=> n = th[k].fd
  BY <1>1, ReadyF DEF SerialAt, Holds, FdAt, AtLine
<1>3. ~th[k].ok => Caused(k)
  BY <1>1, ReadyF DEF VerdictsOf, Denied
<1>4. Free(k)' /\ Calm(k) /\ Drop(th[k].fd) /\ th[k].met \subseteq th'[k].met
  BY <1>1, <1>2 DEF ClosePortWay1, ClosePortWay2, ClosePortWay3, Changes, Fields, Free, Calm
<1>5. Silent(k) \/ (Judges(k, "OK") /\ th[k].ok) \/ (Judges(k, "NG") /\ ~th[k].ok)
  BY <1>1 DEF ClosePortWay1, ClosePortWay2, ClosePortWay3, Changes, Fields, Silent
<1>6. Silent(k) \/ Speaks(k)
  BY <1>1, <1>3, <1>4, <1>5, Caught DEF Speaks, Judges, Verdicts, Promised
<1>7. QED
  BY <1>1, <1>2, <1>4, <1>6, ClosesOne, FreeFares
LEMMA OpenCanFares ==
  ASSUME NEW k, Ready(k), OpenCan(k)
  PROVE  Fares(k)
<1>1. /\ th[k].at = "openCan" /\ th[k].line = 0 /\ Free(k)
      /\ OpenCanWay1(k) \/ OpenCanWay2(k)
  BY ReadyF, OpenCanView DEF At, ControlOf, Free
<1>2. Known(k) /\ plan[k].test = "serial"
  BY <1>1, ReadyF DEF SerialAt
<1>3. CASE OpenCanWay1(k)
  <2>1. /\ th'[k].at = "probe" /\ th'[k].line = 0 /\ th'[k].fd = Lowest /\ Takes(k, Port(k))
        /\ th'[k].item = th[k].item /\ Silent(k) /\ th'[k].shown = th[k].shown /\ th'[k].met = th[k].met
    BY <1>1, <1>3 DEF OpenCanWay1, Changes, Fields, Silent
  <2>2. fds'[th'[k].fd].file = <<k, th'[k].item>>
    BY <1>1, <1>2, <2>1, TakenFile DEF Known, Port
  <2>3. /\ MembersOf(k)' /\ PortsOf(k)' /\ ~Promised(k)' /\ ~Denied(k)' /\ Apart(k)'
        /\ \A n : Holds(k, n)' <=> n = th'[k].fd
    BY <2>1, <2>2 DEF MembersOf, PortsOf, AtLine, RtcRange, Promised, Denied, Holds, FdAt, Apart
  <2>4. QED
    BY <1>1, <2>1, <2>3, TakesFares
<1>4. CASE OpenCanWay2(k)
  <2>1. Free(k)' /\ Calm(k) /\ Keeps /\ Judges(k, "NG") /\ Lack \subseteq th'[k].met
    BY <1>4 DEF OpenCanWay2, Changes, Fields, Free, Calm, Lack
  <2>2. QED
    BY <1>1, <1>2, <2>1, Caught, FreeF, FreeFares DEF LetsGo, Speaks, Judges, Verdicts
<1>5. QED
  BY <1>1, <1>3, <1>4

LEMMA SerialAnswerFares ==
  ASSUME NEW k, Ready(k), SerialAnswer(k)
  PROVE  Fares(k)
<1>1. Free(k) /\ Free(k)' /\ Calm(k) /\ Keeps /\ Silent(k)
  BY ReadyF, SerialAnswerView DEF At, Changes, Fields, Free, Ends, Calm, Silent
<1>2. QED
  BY <1>1, FreeF, FreeFares DEF LetsGo

LEMMA SerialOpenFares ==
  ASSUME NEW k, Ready(k), SerialOpen(k), th[k].line = 0
  PROVE  Fares(k)
<1>1. /\ th[k].at = "open" /\ Free(k) /\ serialFd' = th'[k].fd
      /\ \/ SerialOpenWay1(k) \/ SerialOpenWay3(k) \/ SerialOpenWay4(k) \/ SerialOpenWay5(k)
  <2>1. k \in DOMAIN th /\ DOMAIN th[k] = Fields /\ ~SerialOpenWay2(k)
    BY ReadyF DEF SerialOpenWay2
  <2>2. QED
    BY <2>1, SerialOpenView DEF At, Free
<1>2. Known(k) /\ plan[k].test = "serial"
  BY <1>1, ReadyF DEF SerialAt
<1>3. CASE SerialOpenWay1(k)
  <2>1. /\ th'[k].at = "config" /\ th'[k].line = 0 /\ th'[k].fd = Lowest /\ Takes(k, Port(k))
        /\ th'[k].item = th[k].item /\ Silent(k) /\ th'[k].shown = th[k].shown /\ th'[k].met = th[k].met
    BY <1>1, <1>3 DEF SerialOpenWay1, Changes, Fields, Silent
  <2>2. fds'[th'[k].fd].file = <<k, th'[k].item>>
    BY <1>1, <1>2, <2>1, TakenFile DEF Known, Port
  <2>3. /\ MembersOf(k)' /\ PortsOf(k)' /\ ~Promised(k)' /\ ~Denied(k)' /\ Apart(k)'
        /\ \A n : Holds(k, n)' <=> n = th'[k].fd
    BY <1>1, <2>1, <2>2 DEF MembersOf, PortsOf, AtLine, RtcRange, Promised, Denied, Holds, FdAt, Apart
  <2>4. QED
    BY <1>1, <2>1, <2>3, TakesFares
<1>4. CASE SerialOpenWay3(k) \/ SerialOpenWay4(k) \/ SerialOpenWay5(k)
  <2>1. /\ Free(k)' /\ Calm(k) /\ Keeps /\ Lack \subseteq th'[k].met
        /\ Silent(k) \/ Judges(k, "NG")
    BY <1>4 DEF SerialOpenWay3, SerialOpenWay4, SerialOpenWay5, Changes, Fields, Free, Calm, Lack, Silent
  <2>2. QED
    BY <1>1, <1>2, <2>1, Caught, FreeF, FreeFares DEF LetsGo, Speaks, Judges, Verdicts
<1>5. QED
  BY <1>1, <1>3, <1>4

LEMMA SerialConfigFares ==
  ASSUME NEW k, Ready(k), SerialConfig(k), th[k].line = 0
  PROVE  Fares(k)
<1>1. /\ th[k].at = "config" /\ DOMAIN fds = 0 .. MaxFd - 1 /\ serialFd = th[k].fd
      /\ Known(k) /\ plan[k].test = "serial" /\ MembersOf(k) /\ VerdictsOf(k) /\ plan' = plan
      /\ \A n : Holds(k, n) <=> n = th[k].fd
      /\ \/ SerialConfigWay2(k) \/ SerialConfigWay4(k) \/ SerialConfigWay5(k) \/ SerialConfigWay6(k)
  <2>1. /\ th[k].at = "config" /\ DOMAIN fds = 0 .. MaxFd - 1 /\ k \in DOMAIN th /\ DOMAIN th[k] = Fields
        /\ ~SerialConfigWay1(k) /\ ~SerialConfigWay3(k)
    BY ReadyF DEF SerialConfig, At, Shape, SerialConfigWay1, SerialConfigWay3
  <2>2. /\ serialFd = th[k].fd /\ Known(k) /\ plan[k].test = "serial" /\ MembersOf(k) /\ VerdictsOf(k)
        /\ plan' = plan
    BY <2>1, ReadyF DEF SerialAt, MembersOf
  <2>3. QED
    BY <2>1, <2>2, SerialConfigView DEF Holds, FdAt, AtLine
<1>2. CASE SerialConfigWay2(k)
  <2>1. /\ th'[k].at \in {"echo", "probe"} /\ th'[k].line = 0 /\ th'[k].fd = th[k].fd /\ Keeps
        /\ th'[k].item = th[k].item /\ Silent(k) /\ th'[k].shown = th[k].shown
        /\ th'[k].met = th[k].met \cup Astray(k, th[k].fd)
    BY <1>1, <1>2 DEF SerialConfigWay2, Changes, Fields, Silent
  <2>2. Calm(k)
    BY <1>1, <2>1 DEF Calm
  <2>3. VerdictsOf(k)' /\ Blamed(k)
    BY <1>1, <2>1, <2>2, ReadyF, NoVerdict DEF Promised, Denied
  <2>4. MembersOf(k)' /\ PortsOf(k)'
    BY <1>1, <2>1 DEF MembersOf, PortsOf, AtLine, RtcRange, OwnedBy, Keeps, Opened
  <2>5. Handles(k)
    BY <1>1, <2>1, <2>2 DEF Handles, Calm, Moves, Holds, FdAt, AtLine
  <2>6. QED
    BY <2>1, <2>3, <2>4, <2>5 DEF Fares, Parts, Apart
<1>3. CASE SerialConfigWay4(k) \/ SerialConfigWay5(k) \/ SerialConfigWay6(k)
  <2>1. /\ Free(k)' /\ Drop(th[k].fd) /\ (Silent(k) \/ Judges(k, "NG")) /\ th'[k].shown = th[k].shown
        /\ th'[k].met = th[k].met \cup Blames(k, th[k].fd) \cup Astray(k, th[k].fd)
    BY <1>1, <1>3 DEF SerialConfigWay4, SerialConfigWay5, SerialConfigWay6, Changes, Fields, Free, Silent
  <2>2. Calm(k)
    BY <1>1, <2>1 DEF Calm, Blames
  <2>3. QED
    BY <1>1, <2>1, <2>2, Caught, ClosesOne, FreeFares DEF Speaks, Judges, Verdicts
<1>4. QED
  BY <1>1, <1>2, <1>3
LEMMA SerialOpenLineFares ==
  ASSUME NEW k, Ready(k), SerialOpen(k), th[k].line # 0
  PROVE  Fares(k)
<1>1. /\ th[k].at = "open" /\ th[k].line = 1 /\ AtLine(k) /\ serialFd' = th'[k].fd
      /\ SerialOpenWay1(k) \/ SerialOpenWay2(k)
  <2>1. k \in DOMAIN th /\ DOMAIN th[k] = Fields /\ th[k].at = "open" /\ th[k].line = 1
    BY ReadyF DEF SerialOpen, At, ControlOf
  <2>2. QED
    BY <2>1, SerialOpenView DEF AtLine, SerialOpenWay3, SerialOpenWay4, SerialOpenWay5
<1>2. DOMAIN fds = 0 .. MaxFd - 1 /\ ~(OnLine(k) \subseteq DOMAIN th[k].ports)
  BY <1>1, ReadyF DEF Shape, PortsOf
<1>3. CASE SerialOpenWay1(k)
  <2>1. /\ th'[k].at = "config" /\ th'[k].line = 1 /\ th'[k].fd = Lowest /\ Takes(k, Port(k))
        /\ th'[k].ports = th[k].ports /\ th'[k].send = th[k].send /\ th'[k].recv = th[k].recv
        /\ th'[k].queue = th[k].queue /\ Recalls(k) /\ th'[k].met = th[k].met
        /\ Silent(k) /\ Calm(k) /\ AtLine(k)'
    BY <1>1, <1>3 DEF SerialOpenWay1, Changes, Fields, Recalls, Silent, Calm, AtLine
  <2>2. PortsOf(k)' /\ PortFds(k)' = PortFds(k)
    BY <1>1, <1>2, <2>1, SamePorts
  <2>3. \A n : Holds(k, n)' <=> n \in PortFds(k) \/ n = Lowest
    BY <2>1, <2>2 DEF Holds, FdAt
  <2>4. Handles(k) /\ Parts(k)
    BY <1>1, <2>1, <2>2, <2>3, LineF DEF Handles, Calm, Moves, Parts, Apart
  <2>5. QED
    BY <1>1, <2>1, <2>2, <2>4, LineFares
<1>4. CASE SerialOpenWay2(k)
  <2>1. /\ Adds(k, -1, FALSE) /\ th'[k].at = "lineOpen" /\ th'[k].line = th[k].line
        /\ th'[k].queue = th[k].queue /\ Recalls(k) /\ th[k].met \subseteq th'[k].met
        /\ Silent(k) /\ Calm(k) /\ Keeps /\ Lack \subseteq th'[k].met
    BY <1>4 DEF SerialOpenWay2, Changes, Fields, Recalls, Silent, Calm, Lack
  <2>2. PortsOf(k)' /\ AtLine(k)' /\ \A m : Holds(k, m)' <=> Holds(k, m)
    BY <1>1, <1>2, <2>1, Caught, MorePorts, LineF
  <2>3. Handles(k) /\ Parts(k)
    BY <2>1, <2>2 DEF Handles, Calm, Moves, Parts, Apart
  <2>4. QED
    BY <2>1, <2>2, <2>3, LineFares
<1>5. QED
  BY <1>1, <1>3, <1>4

LEMMA SerialConfigLineFares ==
  ASSUME NEW k, Ready(k), SerialConfig(k), th[k].line # 0
  PROVE  Fares(k)
<1>1. /\ th[k].at = "config" /\ th[k].line = 1 /\ AtLine(k) /\ serialFd = th[k].fd
      /\ SerialConfigWay1(k) \/ SerialConfigWay3(k)
  <2>1. /\ k \in DOMAIN th /\ DOMAIN th[k] = Fields /\ th[k].at = "config" /\ th[k].line = 1
        /\ serialFd = th[k].fd /\ DOMAIN fds = 0 .. MaxFd - 1
    BY ReadyF DEF SerialConfig, At, ControlOf, MembersOf, Shape
  <2>2. QED
    BY <2>1, SerialConfigView DEF AtLine, SerialConfigWay2, SerialConfigWay4, SerialConfigWay5,
       SerialConfigWay6
<1>2. ~(OnLine(k) \subseteq DOMAIN th[k].ports) /\ \A n : Holds(k, n) <=> n \in PortFds(k) \/ n = th[k].fd
  BY <1>1, ReadyF, LineF DEF PortsOf
<1>3. CASE SerialConfigWay1(k)
  <2>1. /\ Adds(k, th[k].fd, TRUE) /\ th'[k].at = "lineOpen" /\ th'[k].line = th[k].line
        /\ th'[k].queue = th[k].queue /\ Recalls(k)
        /\ th'[k].met = th[k].met \cup Astray(k, th[k].fd)
        /\ Silent(k) /\ th'[k].shown = th[k].shown /\ Keeps /\ th[k].fd \in DOMAIN fds
    BY <1>1, <1>3 DEF SerialConfigWay1, Changes, Fields, Recalls, Silent, Opened
  <2>2. /\ PortsOf(k)' /\ AtLine(k)'
        /\ \A m : Holds(k, m)' <=> m \in PortFds(k) \/ (m = th[k].fd /\ m # -1)
    <3>1. th[k].fd # -1
      BY <2>1, ReadyF, MaxFdAssumption DEF Shape
    <3>2. QED
      BY <1>1, <1>2, <2>1, <3>1, MorePorts
  <2>3. Calm(k)
    BY <1>2, <2>1 DEF Calm
  <2>4. Handles(k) /\ Parts(k)
    BY <1>2, <2>1, <2>2, <2>3 DEF Handles, Calm, Moves, Parts, Apart
  <2>5. QED
    BY <2>1, <2>2, <2>3, <2>4, LineFares
<1>4. CASE SerialConfigWay3(k)
  <2>1. /\ Adds(k, -1, FALSE) /\ th'[k].at = "lineOpen" /\ th'[k].line = th[k].line
        /\ th'[k].queue = th[k].queue /\ Recalls(k)
        /\ th'[k].met = th[k].met \cup Blames(k, th[k].fd) \cup Astray(k, th[k].fd)
        /\ Silent(k) /\ th'[k].shown = th[k].shown /\ Drop(th[k].fd)
    BY <1>1, <1>4 DEF SerialConfigWay3, Changes, Fields, Recalls, Silent
  <2>2. PortsOf(k)' /\ AtLine(k)' /\ \A m : Holds(k, m)' <=> m \in PortFds(k)
    BY <1>1, <1>2, <2>1, Caught, MorePorts
  <2>3. Calm(k)
    BY <1>2, <2>1 DEF Calm, Blames
  <2>4. Handles(k) /\ Parts(k)
    <3>1. /\ Drops({th[k].fd}) /\ Moves(k, {th[k].fd})
          /\ \A n \in {th[k].fd} : Holds(k, n) /\ (Holds(k, n)' => ~Apart(k))
      BY <1>1, <1>2, <2>1, <2>2 DEF Drop, Moves, Apart
    <3>2. QED
      BY <2>1, <2>3, <3>1 DEF Handles, Calm, Parts, Apart
  <2>5. QED
    BY <2>1, <2>2, <2>3, <2>4, LineFares
<1>5. QED
  BY <1>1, <1>3, <1>4

LEMMA LineBeginFares ==
  ASSUME NEW k, Ready(k), LineBegin(k)
  PROVE  Fares(k)
<1>1. th[k].at = "line" /\ Free(k) /\ th[k].line <= 2 /\ (LineBeginWay1(k) \/ LineBeginWay2(k))
  BY ReadyF, LineBeginView DEF At, Free
<1>2. CASE LineBeginWay1(k)
  <2>1. Free(k)' /\ Calm(k) /\ Keeps /\ Silent(k)
    BY <1>1, <1>2 DEF LineBeginWay1, Changes, Fields, Free, Calm, Silent
  <2>2. QED
    BY <1>1, <2>1, FreeF, FreeFares DEF LetsGo
<1>3. CASE LineBeginWay2(k)
  <2>1. /\ th'[k].at = "lineOpen" /\ th'[k].line = th[k].line /\ th'[k].ports = <<>> /\ th'[k].send = <<>>
        /\ th'[k].recv = <<>> /\ th'[k].lost = {} /\ th'[k].tested = {} /\ th'[k].queue = [x \in OnLine(k) |-> 0]
        /\ Calm(k) /\ Keeps /\ Silent(k)
    BY <1>3 DEF LineBeginWay2, Changes, Fields, Calm, Silent
  <2>2. OnLine(k)' = OnLine(k) /\ AtLine(k)' /\ \A n : ~Holds(k, n) /\ ~Holds(k, n)'
    BY <1>1, <2>1, FreeF, ReadyF DEF OnLine, AtLine, Holds, FdAt, PortFds, Usable
  <2>3. PortsOf(k)'
    BY <2>1, <2>2 DEF PortsOf, Reaches
  <2>4. Handles(k) /\ Parts(k)
    BY <2>1, <2>2 DEF Handles, Calm, Moves, Parts, Apart
  <2>5. QED
    BY <2>1, <2>2, <2>3, <2>4, LineFares
<1>4. QED
  BY <1>1, <1>2, <1>3

LEMMA LineOpenFares ==
  ASSUME NEW k, Ready(k), LineOpen(k)
  PROVE  Fares(k)
<1>1. /\ th[k].at = "lineOpen" /\ AtLine(k) /\ th[k].line \in {1, 2} /\ DOMAIN fds = 0 .. MaxFd - 1
      /\ \A n : Holds(k, n) <=> n \in PortFds(k)
      /\ \/ LineOpenWay1(k) \/ LineOpenWay2(k) \/ LineOpenWay3(k) \/ LineOpenWay4(k) \/ LineOpenWay5(k)
  <2>1. k \in DOMAIN th /\ DOMAIN th[k] = Fields /\ th[k].at = "lineOpen" /\ AtLine(k)
    BY ReadyF DEF LineOpen, At, AtLine
  <2>2. QED
    BY <2>1, ReadyF, LineF, LineOpenView DEF ControlOf, Shape
<1>2. CASE LineOpenWay1(k) \/ LineOpenWay2(k)
  <2>1. /\ th'[k].at \in {"open", "exchange"} /\ th'[k].line = th[k].line /\ th'[k].ports = th[k].ports
        /\ th'[k].send = th[k].send /\ th'[k].recv = th[k].recv /\ th'[k].queue = th[k].queue
        /\ Recalls(k) /\ th'[k].met = th[k].met /\ Silent(k) /\ Calm(k) /\ Keeps
        /\ th'[k].at = "exchange" <=> OnLine(k) \subseteq DOMAIN th[k].ports
    BY <1>2 DEF LineOpenWay1, LineOpenWay2, Changes, Fields, Recalls, Silent, Calm
  <2>2. PortsOf(k)' /\ PortFds(k)' = PortFds(k) /\ AtLine(k)'
    BY <1>1, <2>1, SamePorts DEF AtLine
  <2>3. \A n : Holds(k, n)' <=> n \in PortFds(k)
    BY <2>1, <2>2 DEF Holds, FdAt
  <2>4. Handles(k) /\ Parts(k)
    BY <1>1, <2>1, <2>3 DEF Handles, Calm, Moves, Parts, Apart
  <2>5. QED
    BY <2>1, <2>2, <2>4, LineFares
<1>3. CASE LineOpenWay3(k) \/ LineOpenWay4(k)
  <2>1. /\ ~(OnLine(k) \subseteq DOMAIN th[k].ports) /\ th'[k].at = "lineOpen" /\ th'[k].line = th[k].line
        /\ Adds(k, Lowest, TRUE) \/ (Adds(k, Lowest, FALSE) /\ Caused(k)')
        /\ th'[k].queue = th[k].queue /\ Recalls(k) /\ th[k].met \subseteq th'[k].met
        /\ Silent(k) /\ Calm(k) /\ Takes(k, Port(k))
    BY <1>3 DEF LineOpenWay3, LineOpenWay4, Changes, Fields, Recalls, Silent, Calm, Caused, Causes
  <2>3. Lowest # -1
    BY <1>1, <2>1, TakenFile
  <2>2. PortsOf(k)' /\ AtLine(k)' /\ \A m : Holds(k, m)' <=> m \in PortFds(k) \/ (m = Lowest /\ m # -1)
    BY <1>1, <2>1, <2>3, MorePorts
  <2>4. Handles(k) /\ Parts(k)
    BY <1>1, <2>1, <2>2, <2>3 DEF Handles, Calm, Moves, Parts, Apart
  <2>5. QED
    BY <2>1, <2>2, <2>4, LineFares
<1>4. CASE LineOpenWay5(k)
  <2>1. /\ ~(OnLine(k) \subseteq DOMAIN th[k].ports) /\ th'[k].at = "lineOpen" /\ th'[k].line = th[k].line
        /\ Adds(k, -1, FALSE) /\ Lack \subseteq th'[k].met
        /\ th'[k].queue = th[k].queue /\ Recalls(k) /\ th[k].met \subseteq th'[k].met
        /\ Silent(k) /\ Calm(k) /\ Keeps
    BY <1>4 DEF LineOpenWay5, Changes, Fields, Recalls, Silent, Calm, Lack
  <2>2. PortsOf(k)' /\ AtLine(k)' /\ \A m : Holds(k, m)' <=> Holds(k, m)
    BY <1>1, <2>1, Caught, MorePorts
  <2>3. Handles(k) /\ Parts(k)
    BY <2>1, <2>2 DEF Handles, Calm, Moves, Parts, Apart
  <2>4. QED
    BY <2>1, <2>2, <2>3, LineFares
<1>5. QED
  BY <1>1, <1>2, <1>3, <1>4

LEMMA SerialRetryFares ==
  ASSUME NEW k, Ready(k), SerialRetry(k)
  PROVE  Fares(k)
<1>1. /\ th[k].at = "again" /\ Calm(k) /\ Keeps /\ Silent(k) /\ th'[k].line = th[k].line
      /\ th'[k].at = IF th[k].line = 0 THEN "open" ELSE "lineOpen"
      /\ th'[k].ports = th[k].ports /\ th'[k].send = th[k].send /\ th'[k].recv = th[k].recv
      /\ th'[k].queue = th[k].queue /\ Recalls(k)
  BY ReadyF, SerialRetryView DEF At, Changes, Fields, Recalls, Silent, Calm
<1>2. CASE th[k].line = 0
  BY <1>1, <1>2, FreeF, FreeFares DEF Free, LetsGo
<1>3. CASE th[k].line # 0
  <2>1. AtLine(k) /\ AtLine(k)' /\ th[k].ports = <<>>
    BY <1>1, <1>3, ReadyF DEF AtLine, PortsOf
  <2>2. OnLine(k)' = OnLine(k) /\ \A n : ~Holds(k, n) /\ ~Holds(k, n)'
    BY <1>1, <1>3, <2>1, ReadyF DEF OnLine, Holds, FdAt, PortFds, Usable
  <2>3. PortsOf(k)'
    BY <1>1, <1>3, <2>1, <2>2, LineF DEF PortsOf, Recalls, Reaches
  <2>4. Handles(k) /\ Parts(k)
    BY <1>1, <1>3, <2>2 DEF Handles, Calm, Moves, Parts, Apart
  <2>5. QED
    BY <1>1, <1>3, <2>1, <2>3, <2>4, LineFares
<1>4. QED
  BY <1>2, <1>3

\* The next pair of ports: two different ones that are open.
LEMMA PairIn ==
  ASSUME NEW k, Ready(k), AtLine(k), Untested(k) # {}
  PROVE  /\ Pair(k)[1] \in Usable(k) /\ Pair(k)[2] \in Usable(k) /\ Pair(k)[1] # Pair(k)[2]
         /\ Usable(k) \subseteq DOMAIN th[k].ports /\ Pair(k) = <<Pair(k)[1], Pair(k)[2]>>
<1>1. Usable(k) \subseteq DOMAIN th[k].ports /\ DOMAIN th[k].ports \subseteq Nat
  <2>1. OnLine(k) \subseteq Nat /\ DOMAIN th[k].ports \subseteq OnLine(k)
    <3>1. Known(k) /\ DOMAIN th[k].ports \subseteq OnLine(k)
      BY LineF
    <3>2. QED
      BY <3>1 DEF OnLine, Known
  <2>2. QED
    BY <2>1 DEF Usable
<1>2. \A p \in Untested(k) : p = <<p[1], p[2]>> /\ p[1] \in Usable(k) /\ p[2] \in Usable(k) /\ p[1] # p[2]
  BY DEF Untested, Pairs
<1> DEFINE F == {p[1] : p \in Untested(k)}
           G == {p[2] : p \in {q \in Untested(k) : q[1] = Least(F)}}
<1>3. F \in SUBSET Nat /\ F # {}
  BY <1>1, <1>2
<1>4. Least(F) \in F
  BY <1>3, LeastIn
<1>5. G \in SUBSET Nat /\ G # {}
  BY <1>1, <1>2, <1>4
<1>6. Least(G) \in G
  BY <1>5, LeastIn
<1>7. Pair(k) = <<Least(F), Least(G)>>
  BY DEF Pair
<1>8. PICK p \in Untested(k) : p[1] = Least(F) /\ p[2] = Least(G)
  BY <1>6
<1>9. QED
  BY <1>1, <1>2, <1>7, <1>8

\* The ports of a line are finitely many.
LEMMA OnLineFinite ==
  ASSUME NEW k, Known(k)
  PROVE  IsFiniteSet(OnLine(k)) /\ Cardinality(OnLine(k)) \in Nat
<1>1. OnLine(k) \in SUBSET (1 .. Len(plan[k].items)) /\ 1 \in Int /\ Len(plan[k].items) \in Int
  BY DEF OnLine, Known
<1>2. IsFiniteSet(1 .. Len(plan[k].items))
  BY <1>1, FS_Interval
<1>3. QED
  BY <1>1, <1>2, FS_Subset, FS_CardinalityType

\* On a line of two ports a pair is the whole line.
LEMMA TwoPorts ==
  ASSUME NEW k, Ready(k), AtLine(k), Untested(k) # {}, Cardinality(OnLine(k)) <= 2
  PROVE  OnLine(k) = {Pair(k)[1], Pair(k)[2]} /\ Usable(k) \ {Pair(k)[1]} = {Pair(k)[2]}
<1>1. /\ Pair(k)[1] \in Usable(k) /\ Pair(k)[2] \in Usable(k) /\ Pair(k)[1] # Pair(k)[2]
      /\ Usable(k) \subseteq OnLine(k)
  BY PairIn, LineF
<1>2. IsFiniteSet(OnLine(k))
  BY LineF, OnLineFinite
<1>3. Cardinality({Pair(k)[1], Pair(k)[2]}) = 2
  <2>1. IsFiniteSet({Pair(k)[1]}) /\ Cardinality({Pair(k)[1]}) = 1
    BY FS_Singleton
  <2>2. Cardinality({Pair(k)[1]} \cup {Pair(k)[2]}) = 1 + 1
    BY <1>1, <2>1, FS_AddElement
  <2>3. {Pair(k)[1], Pair(k)[2]} = {Pair(k)[1]} \cup {Pair(k)[2]}
    OBVIOUS
  <2>4. QED
    BY <2>2, <2>3
<1>4. OnLine(k) = {Pair(k)[1], Pair(k)[2]}
  BY <1>1, <1>2, <1>3, FS_Subset, FS_CardinalityType
<1>5. QED
  BY <1>1, <1>4

\* A step that tests ports of a line.
LEMMA TestsPorts ==
  ASSUME NEW k, Ready(k), th[k].at = "exchange", th'[k].at = "exchange", th'[k].line = th[k].line,
         th'[k].ports = th[k].ports, Calm(k), Silent(k), Keeps, th[k].met \subseteq th'[k].met,
         DOMAIN th'[k].send = DOMAIN th[k].ports, DOMAIN th'[k].recv = DOMAIN th[k].ports,
         th'[k].lost \subseteq DOMAIN th[k].ports,
         Cardinality(OnLine(k)) <= 2 =>
           /\ th'[k].queue \in [OnLine(k) -> {0}]
           /\ \A x \in DOMAIN th[k].ports :
                /\ x \in th'[k].lost => ~th'[k].recv[x]
                /\ (th'[k].send[x] /\ th'[k].recv[x]) \/ Caused(k)',
         \A x \in DOMAIN th[k].ports : th[k].ports[x] = -1 => ~th'[k].send[x],
         \A x, y \in OnLine(k) : Reaches(k, x, y)'
  PROVE  Fares(k)
<1>1. AtLine(k) /\ AtLine(k)' /\ OnLine(k)' = OnLine(k) /\ PortFds(k)' = PortFds(k)
  BY ReadyF DEF AtLine, OnLine, PortFds, Usable
<1>2. PortsOf(k)'
  BY <1>1, ReadyF, LineF DEF PortsOf, Passed
<1>3. Handles(k) /\ Parts(k)
  BY <1>1 DEF Handles, Calm, Moves, Parts, Apart, Holds, FdAt
<1>4. QED
  BY <1>1, <1>2, <1>3, LineFares

LEMMA SendFailsFares ==
  ASSUME NEW k, Ready(k), SendFails(k)
  PROVE  Fares(k)
<1>1. /\ th[k].at = "exchange" /\ AtLine(k) /\ Untested(k) # {} /\ Changes(k, {"met", "n", "send", "tested"})
      /\ th'[k].send = Unset(th[k].send, Pair(k)[1]) /\ Keeps
      /\ th'[k].met = th[k].met \cup Blames(k, th[k].ports[Pair(k)[1]])
  BY ReadyF, SendFailsView DEF At, AtLine
<1>2. /\ th'[k].at = "exchange" /\ th'[k].line = th[k].line /\ th'[k].ports = th[k].ports
      /\ th'[k].recv = th[k].recv /\ th'[k].lost = th[k].lost /\ th'[k].queue = th[k].queue
      /\ th'[k].reached = th[k].reached /\ th'[k].tested \subseteq th[k].tested \cup {Pair(k)} /\ th'[k].shown = th[k].shown /\ Silent(k)
  BY <1>1, ReadyF, SendFailsView DEF Changes, Fields, Silent
<1>3. Holds(k, th[k].ports[Pair(k)[1]])
  BY <1>1, PairIn DEF Holds, PortFds
<1>4. Calm(k) /\ Caused(k)'
  BY <1>1, <1>2, <1>3, Caught DEF Calm, Blames
<1>5. DOMAIN th'[k].send = DOMAIN th[k].ports
  BY <1>1, LineF DEF Unset
<1>7. /\ \A x \in DOMAIN th[k].ports : th'[k].send[x] => th[k].send[x] /\ x # Pair(k)[1]
      /\ OnLine(k) \subseteq DOMAIN th[k].ports
  BY <1>1, ReadyF, LineF DEF Unset, PortsOf
<1>8. /\ \A x \in DOMAIN th[k].ports : th[k].ports[x] = -1 => ~th'[k].send[x]
      /\ \A x, y \in OnLine(k) : Reaches(k, x, y)'
  BY <1>1, <1>2, <1>7, LineF, PairIn DEF Reaches
<1>6. QED
  BY <1>1, <1>2, <1>4, <1>5, <1>8, LineF, TestsPorts

LEMMA ExchangeFares ==
  ASSUME NEW k, Ready(k), Exchange(k)
  PROVE  Fares(k)
<1>1. /\ th[k].at = "exchange" /\ AtLine(k) /\ Untested(k) # {} /\ Keeps
      /\ Changes(k, {"lost", "met", "n", "queue", "reached", "recv", "tested"})
      /\ th'[k].tested \subseteq th[k].tested \cup {Pair(k)}
  BY ReadyF, ExchangeView DEF At, AtLine
<1>2. PICK heard \in SUBSET (Usable(k) \ {Pair(k)[1]}) :
        /\ th'[k].queue = Left(k, heard)
        /\ th'[k].reached = th[k].reached \cup ({Pair(k)[2]} \cap heard)
        /\ th'[k].lost = th[k].lost \cup ({Pair(k)[2]} \ heard)
        /\ th'[k].recv = IF Expected(k, Came(k, heard)[Pair(k)[2]]) THEN th[k].recv
                         ELSE Unset(th[k].recv, Pair(k)[2])
        /\ th'[k].met = th[k].met \cup (Astray(k, th[k].ports[Pair(k)[2]]) \cup Deaf(k, heard))
                          \cup Astray(k, th[k].ports[Pair(k)[1]])
  BY ReadyF, ExchangeView
<1>3. /\ th'[k].at = "exchange" /\ th'[k].line = th[k].line /\ th'[k].ports = th[k].ports
      /\ th'[k].send = th[k].send /\ th'[k].shown = th[k].shown /\ Silent(k)
  BY <1>1 DEF Changes, Fields, Silent
<1>4. /\ Pair(k)[1] \in DOMAIN th[k].ports /\ Pair(k)[2] \in DOMAIN th[k].ports /\ Pair(k)[1] # Pair(k)[2]
      /\ Holds(k, th[k].ports[Pair(k)[1]]) /\ Holds(k, th[k].ports[Pair(k)[2]])
  BY <1>1, PairIn DEF Holds, PortFds
<1>5. Calm(k) /\ th[k].met \subseteq th'[k].met
  BY <1>2, <1>3, <1>4 DEF Calm, Deaf
<1>6. /\ DOMAIN th'[k].send = DOMAIN th[k].ports /\ DOMAIN th'[k].recv = DOMAIN th[k].ports
      /\ th'[k].lost \subseteq DOMAIN th[k].ports
  BY <1>1, <1>2, <1>3, <1>4, LineF DEF Unset
<1>7. ASSUME Cardinality(OnLine(k)) <= 2
      PROVE  /\ th'[k].queue \in [OnLine(k) -> {0}]
             /\ \A x \in DOMAIN th[k].ports :
                  /\ x \in th'[k].lost => ~th'[k].recv[x]
                  /\ (th'[k].send[x] /\ th'[k].recv[x]) \/ Caused(k)'
  <2>1. OnLine(k) = {Pair(k)[1], Pair(k)[2]} /\ heard \subseteq {Pair(k)[2]}
    BY <1>1, <1>2, <1>7, TwoPorts
  <2>2. /\ DOMAIN Came(k, heard) = OnLine(k) /\ Came(k, heard)[Pair(k)[1]] = 0
        /\ Came(k, heard)[Pair(k)[2]] = IF Pair(k)[2] \in heard THEN 1 ELSE 0
    <3>1. th[k].queue \in [OnLine(k) -> {0}]
      BY <1>1, <1>7, LineF
    <3>2. QED
      BY <1>4, <2>1, <3>1 DEF Came
  <2>3. th'[k].queue \in [OnLine(k) -> {0}]
    BY <1>2, <1>4, <2>1, <2>2 DEF Left, ReadAll, Came
  <2>4. CASE Pair(k)[2] \in heard
    <3>1. th'[k].recv = th[k].recv /\ th'[k].lost = th[k].lost
      BY <1>2, <2>2, <2>4 DEF Expected, ReadAll
    <3>2. QED
      BY <1>1, <1>3, <1>5, <1>7, <2>3, <3>1, LineF DEF Passed, Caused
  <2>5. CASE Pair(k)[2] \notin heard
    <3>1. /\ th'[k].recv = Unset(th[k].recv, Pair(k)[2]) /\ th'[k].lost = th[k].lost \cup {Pair(k)[2]}
          /\ "fault" \in th'[k].met
      BY <1>1, <1>2, <1>7, <2>1, <2>2, <2>5, TwoPorts DEF Expected, ReadAll, Deaf
    <3>2. \A x \in DOMAIN th[k].ports : x \in th'[k].lost => ~th'[k].recv[x]
      BY <1>1, <1>4, <1>7, <3>1, LineF DEF Unset
    <3>3. QED
      BY <2>3, <3>1, <3>2 DEF Caused, Causes
  <2>6. QED
    BY <2>4, <2>5
<1>9. \A x, y \in OnLine(k) : Reaches(k, x, y)'
  BY <1>1, <1>2, <1>3, LineF, PairIn DEF Reaches
<1>8. QED
  BY <1>1, <1>3, <1>5, <1>6, <1>7, <1>9, LineF, TestsPorts
LEMMA LineCloseFares ==
  ASSUME NEW k, Ready(k), LineClose(k)
  PROVE  Fares(k)
<1>1. th[k].at = "exchange" /\ AtLine(k) /\ (LineCloseWay1(k) \/ LineCloseWay2(k))
  BY ReadyF, LineCloseView DEF At, AtLine
<1>2. /\ Known(k) /\ VerdictsOf(k) /\ plan' = plan /\ th[k].line \in {1, 2}
      /\ OnLine(k) \subseteq DOMAIN th[k].ports /\ \A n : Holds(k, n) <=> n \in PortFds(k)
  BY <1>1, ReadyF, LineF DEF ControlOf, PortsOf
<1>3. LetsGo(k) /\ Calm(k) /\ th[k].met \subseteq th'[k].met
  <2>1. /\ Drops(PortFds(k)) /\ th[k].shown \subseteq th'[k].shown
        /\ th'[k].met = th[k].met \cup UNION {Astray(k, n) : n \in PortFds(k)}
    BY <1>1 DEF LineCloseWay1, LineCloseWay2, Changes, Fields
  <2>2. QED
    BY <1>2, <2>1 DEF LetsGo, Calm
<1>4. CASE LineCloseWay1(k)
  <2>1. /\ th'[k].at = "line" /\ th'[k].shown = th[k].shown \cup (OnLine(k) \cap (th[k].reached \ th[k].lost))
        /\ th'[k].items = [y \in DOMAIN th[k].items |->
             CASE y \notin OnLine(k) -> th[k].items[y]
               [] y \in OnLine(k) /\ Passed(k, y) -> "OK" [] OTHER -> "NG"]
    BY <1>4 DEF LineCloseWay1
  <2>2. \A x \in DOMAIN th[k].items \ OnLine(k) : Fair(k, x) => Fair(k, x)'
    <3>1. ASSUME NEW x \in DOMAIN th[k].items \ OnLine(k), Alone(k, x) PROVE Alone(k, x)'
      <4>1. \A y \in DOMAIN plan[k].items : plan[k].items[y] = plan[k].items[x] => y \notin OnLine(k)
        BY <1>2, <3>1 DEF OnLine, Known
      <4>2. QED
        BY <1>2, <2>1, <3>1, <4>1 DEF Alone
    <3>2. QED
      BY <1>2, <1>3, <3>1 DEF Fair, Crowded, Calm
  <2>3. \A x \in OnLine(k) : Crowded(k, x) <=> ~(Cardinality(OnLine(k)) <= 2)
    <3>1. Cardinality(OnLine(k)) \in Nat
      BY <1>2, OnLineFinite
    <3>2. ASSUME NEW x \in OnLine(k)
          PROVE  /\ plan[k].items[x] \in {"bus485", "busCan"}
                 /\ {y \in DOMAIN plan[k].items : plan[k].items[y] = plan[k].items[x]} = OnLine(k)
      BY <1>2 DEF OnLine, Lines
    <3>3. QED
      BY <3>1, <3>2 DEF Crowded
  <2>4. \A x \in OnLine(k) \cap DOMAIN th'[k].items :
          /\ th'[k].items[x] = "OK" => Fair(k, x)'
          /\ th'[k].items[x] = "NG" => Caused(k)' \/ Crowded(k, x)
    <3>1. TAKE x \in OnLine(k) \cap DOMAIN th'[k].items
    <3>2. CASE Crowded(k, x)
      BY <1>2, <3>2 DEF Fair, Crowded
    <3>3. CASE Cardinality(OnLine(k)) <= 2
      <4>1. (x \in th[k].lost => ~Passed(k, x)) /\ (Passed(k, x) \/ Caused(k))
        BY <1>1, <1>2, <3>3, LineF DEF Passed
      <4>2. th'[k].items[x] = IF Passed(k, x) THEN "OK" ELSE "NG"
        BY <2>1
      <4>3. CASE Passed(k, x)
        <5>1. ASSUME NEW y \in OnLine(k), y # x, Passed(k, y) PROVE x \in th[k].reached
          <6>1. <<y, x>> \in th[k].tested
            BY <1>1, <1>2, <4>3, <5>1, LineF DEF Passed, Untested, Pairs, Usable, LineClose
          <6>2. QED
            BY <1>1, <4>1, <4>3, <5>1, <6>1, LineF DEF Passed, Reaches
        <5>2. x \in th'[k].shown \/ Alone(k, x)'
          <6>1. ASSUME NEW y \in DOMAIN plan[k].items \ {x}, plan[k].items[y] = plan[k].items[x],
                       x \notin th[k].reached
                PROVE  y \in DOMAIN th'[k].items /\ th'[k].items[y] = "NG"
            <7>1. y \in OnLine(k) /\ ~Passed(k, y)
              BY <5>1, <6>1 DEF OnLine
            <7>2. y \in DOMAIN th[k].items
              BY <1>1, <1>2, <6>1, ReadyF DEF ControlOf, MoreItems, Known
            <7>3. QED
              BY <2>1, <7>1, <7>2
          <6>2. plan[k].items[x] \in {"bus485", "busCan"}
            BY <1>2 DEF OnLine, Lines
          <6>3. plan[k].test = "serial"
            BY <1>1, LineF
          <6>4. QED
            BY <1>2, <2>1, <4>1, <4>3, <6>1, <6>2, <6>3 DEF Alone
        <5>3. QED
          BY <4>2, <4>3, <5>2 DEF Fair
      <4>4. CASE ~Passed(k, x)
        BY <1>3, <4>1, <4>2, <4>4 DEF Caused
      <4>5. QED
        BY <4>3, <4>4
    <3>4. QED
      BY <2>3, <3>2, <3>3
  <2>5. \A x \in DOMAIN th'[k].items : x \notin OnLine(k) =>
          x \in DOMAIN th[k].items /\ th'[k].items[x] = th[k].items[x]
    BY <2>1
  <2>6. Free(k)'
    BY <2>1 DEF Free
  <2>7. VerdictsOf(k)' /\ Blamed(k)
    BY <1>2, <1>3, <2>2, <2>4, <2>5, <2>6, FreeMoves DEF VerdictsOf, Blamed
  <2>8. QED
    BY <1>3, <2>6, <2>7, FreeMoves DEF Fares
<1>5. CASE LineCloseWay2(k)
  <2>1. /\ th'[k].at = "again" /\ th'[k].line = th[k].line /\ th'[k].ports = <<>> /\ th'[k].send = <<>>
        /\ th'[k].recv = <<>> /\ th'[k].lost = {} /\ th'[k].tested = {} /\ th'[k].queue = [x \in OnLine(k) |-> 0]
        /\ Silent(k) /\ Drops(PortFds(k))
    BY <1>5 DEF LineCloseWay2, Changes, Fields, Silent
  <2>2. OnLine(k)' = OnLine(k) /\ AtLine(k)' /\ \A n : ~Holds(k, n)'
    BY <1>2, <2>1 DEF OnLine, AtLine, Holds, FdAt, PortFds, Usable
  <2>3. PortsOf(k)'
    BY <2>1, <2>2 DEF PortsOf, Reaches
  <2>4. Handles(k) /\ Parts(k)
    BY <1>2, <1>3, <2>1, <2>2 DEF Handles, Calm, Moves, Parts, Apart
  <2>5. QED
    BY <1>3, <2>1, <2>2, <2>3, <2>4, LineFares
<1>6. QED
  BY <1>1, <1>4, <1>5
\* What a key test holds.
LEMMA KeyF ==
  ASSUME NEW k, Ready(k), th[k].at \in KeyAt
  PROVE  /\ k \in DOMAIN th /\ DOMAIN th[k] = Fields /\ Leaky(k) /\ DOMAIN fds = 0 .. MaxFd - 1
         /\ th[k].at \in {"scan", "name"} => th[k].ports = <<>>
         /\ \A n : Holds(k, n) <=> \/ th[k].at = "name" /\ n = th[k].fd
                                   \/ th[k].at \in {"targets", "select"} /\ n \in Ports(k)
<1>1. th[k].at \in {"scan", "name"} => th[k].ports = <<>>
  BY ReadyF DEF PortsOf
<1>2. th[k].ports = <<>> => Ports(k) = {}
  BY DEF Ports
<1>3. QED
  BY <1>1, <1>2, ReadyF DEF Leaky, Shape, Holds, FdAt, AtLine, KeyAt

\* The key tests hold on to what they opened, or let go of it at the end of a wait.
LEMMA KeysFare ==
  ASSUME NEW k, Ready(k), KeyLoop(k) \/ NodeName(k) \/ ScanEnds(k) \/ KeyTimeout(k) \/ KeyNoise(k)
  PROVE  Fares(k)
<1>1. th[k].at \in KeyAt
  BY DEF KeyLoop, NodeName, ScanEnds, KeyTimeout, KeyNoise, At, KeyAt
<1>2. /\ Free(k)' /\ Silent(k) /\ th'[k].shown = th[k].shown /\ th[k].met \subseteq th'[k].met
      /\ "stray" \in th'[k].met => "stray" \in th[k].met \/ \E n : Holds(k, n) /\ Astray(k, n) # {}
      /\ \/ Keeps \/ (Drop(th[k].fd) /\ Holds(k, th[k].fd))
         \/ (Drops(Ports(k)) /\ th[k].at = "select")
  <2>1. CASE KeyLoop(k)
    BY <1>1, <2>1, KeyF, KeyLoopView DEF KeyLoopWay1, KeyLoopWay2, Changes, Fields, Free, Ends, Silent
  <2>2. CASE NodeName(k)
    <3>1. /\ th[k].at = "name" /\ th'[k].at = "scan" /\ th'[k].ports = th[k].ports /\ Silent(k)
          /\ th'[k].shown = th[k].shown /\ (Keeps \/ Drop(th[k].fd))
          /\ th'[k].met = th[k].met \cup Astray(k, th[k].fd)
             \/ th'[k].met = th[k].met \cup Blames(k, th[k].fd) \cup Astray(k, th[k].fd)
      BY <1>1, <2>2, KeyF, NodeNameView DEF At, NodeNameWay1, NodeNameWay2, NodeNameWay3, Changes, Fields,
         Silent
    <3>2. th[k].ports = <<>> /\ Holds(k, th[k].fd)
      BY <1>1, <3>1, KeyF
    <3>3. QED
      BY <3>1, <3>2 DEF Free, Blames
  <2>3. CASE ScanEnds(k)
    BY <1>1, <2>3, KeyF, ScanEndsView DEF At, ScanEndsWay1, ScanEndsWay2, Changes, Fields, Free, Ends, Silent
  <2>4. CASE KeyTimeout(k) \/ KeyNoise(k)
    <3>1. /\ th[k].at = "select" /\ th'[k].at \in {"key", "done"} /\ Silent(k) /\ th'[k].shown = th[k].shown
          /\ \E noise \in {{}, {"noise"}} :
               th'[k].met = th[k].met \cup noise \cup UNION {Astray(k, n) : n \in Ports(k)}
          /\ Drops(Ports(k))
      BY <1>1, <2>4, KeyF, KeyTimeoutView, KeyNoiseView DEF At, Changes, Fields, Silent
    <3>2. \A n : Holds(k, n) <=> n \in Ports(k)
      BY <1>1, <3>1, KeyF
    <3>3. QED
      BY <3>1, <3>2 DEF Free, Ends
  <2>5. QED
    BY <2>1, <2>2, <2>3, <2>4
<1>3. LetsGo(k) /\ Calm(k)
  BY <1>1, <1>2, KeyF DEF LetsGo, Drop, Calm
<1>4. QED
  BY <1>2, <1>3, FreeFares

LEMMA ScanNodeFares ==
  ASSUME NEW k, Ready(k), ScanNode(k)
  PROVE  Fares(k)
<1>1. /\ th[k].at = "scan" /\ th[k].ports = <<>> /\ Free(k) /\ DOMAIN fds = 0 .. MaxFd - 1
      /\ ScanNodeWay1(k) \/ ScanNodeWay2(k)
  <2>1. th[k].at = "scan" /\ th[k].at \in KeyAt
    BY DEF ScanNode, At, KeyAt
  <2>2. QED
    BY <2>1, KeyF, ScanNodeView DEF Free
<1>2. CASE ScanNodeWay1(k)
  <2>1. /\ th'[k].at = "name" /\ th'[k].ports = <<>> /\ th'[k].fd = Lowest /\ Silent(k)
        /\ Takes(k, <<"event", th[k].n>>) /\ th'[k].shown = th[k].shown /\ th'[k].met = th[k].met
    BY <1>1, <1>2 DEF ScanNodeWay1, Changes, Fields, Silent
  <2>2. /\ MembersOf(k)' /\ PortsOf(k)' /\ ~Promised(k)' /\ ~Denied(k)' /\ Apart(k)'
        /\ \A n : Holds(k, n)' <=> n = th'[k].fd
    BY <2>1 DEF MembersOf, PortsOf, AtLine, RtcRange, Promised, Denied, Holds, FdAt, Apart, Ports
  <2>3. QED
    BY <1>1, <2>1, <2>2, TakesFares
<1>3. CASE ScanNodeWay2(k)
  <2>1. Free(k)' /\ Calm(k) /\ Keeps /\ Silent(k)
    BY <1>1, <1>3 DEF ScanNodeWay2, Changes, Fields, Free, Calm, Lack, Silent
  <2>2. QED
    BY <1>1, <2>1, FreeF, FreeFares DEF LetsGo
<1>4. QED
  BY <1>1, <1>2, <1>3

\* A step of a key test to the descriptors of all devices, or with them.
LEMMA TargetsFare ==
  ASSUME NEW k, Ready(k), th[k].at = "targets", th'[k].at \in {"targets", "select"}, Calm(k), Silent(k),
         Handles(k)
  PROVE  Fares(k)
<1>1. MembersOf(k)' /\ PortsOf(k)' /\ ~Promised(k)' /\ ~Denied(k)' /\ Parts(k)
  BY DEF MembersOf, PortsOf, AtLine, RtcRange, Promised, Denied, Parts, Apart
<1>2. QED
  BY <1>1, ReadyF, NoVerdict DEF Fares

LEMMA TargetOpenFares ==
  ASSUME NEW k, Ready(k), TargetOpen(k), Targeted(k)
  PROVE  Fares(k)
<1>1. /\ th[k].at = "targets" /\ th[k].at \in KeyAt /\ DOMAIN fds = 0 .. MaxFd - 1
      /\ \A n : Holds(k, n) <=> n \in Ports(k)
      /\ TargetOpenWay1(k) \/ TargetOpenWay2(k)
  <2>1. th[k].at = "targets" /\ th[k].at \in KeyAt
    BY DEF TargetOpen, At, KeyAt
  <2>2. QED
    BY <2>1, KeyF, TargetOpenView
<1>2. /\ th'[k].at = "targets" /\ Silent(k) /\ Calm(k)
  BY <1>1 DEF TargetOpenWay1, TargetOpenWay2, Changes, Fields, Silent, Calm, Lack
<1>3. ASSUME NEW name, NEW n, th'[k].ports = Append(th[k].ports, Target(name, n))
      PROVE  \A m : m \in Ports(k)' <=> m \in Ports(k) \/ m = n
  <2>1. /\ DOMAIN th'[k].ports = 1 .. Len(th[k].ports) + 1 /\ Len(th[k].ports) \in Nat
        /\ DOMAIN th[k].ports = 1 .. Len(th[k].ports)
        /\ th'[k].ports[Len(th[k].ports) + 1] = Target(name, n)
        /\ \A p \in DOMAIN th[k].ports : th'[k].ports[p] = th[k].ports[p]
    BY <1>3 DEF Targeted
  <2>2. \A p \in DOMAIN th'[k].ports : p \in DOMAIN th[k].ports \/ p = Len(th[k].ports) + 1
    BY <2>1
  <2>3. th'[k].ports[Len(th[k].ports) + 1].fd = n
    BY <2>1 DEF Target
  <2>4. ASSUME NEW m PROVE m \in Ports(k)' <=> \E p \in DOMAIN th'[k].ports : m = th'[k].ports[p].fd
    BY DEF Ports
  <2>5. ASSUME NEW m PROVE m \in Ports(k) <=> \E p \in DOMAIN th[k].ports : m = th[k].ports[p].fd
    BY DEF Ports
  <2>6. Len(th[k].ports) + 1 \in DOMAIN th'[k].ports /\ DOMAIN th[k].ports \subseteq DOMAIN th'[k].ports
    BY <2>1
  <2>7. TAKE m
  <2>8. ASSUME m \in Ports(k)' PROVE m \in Ports(k) \/ m = n
    BY <2>1, <2>2, <2>3, <2>4, <2>5, <2>8
  <2>9. ASSUME m \in Ports(k) \/ m = n PROVE m \in Ports(k)'
    BY <2>1, <2>3, <2>4, <2>5, <2>6, <2>9
  <2>10. QED
    BY <2>8, <2>9
<1>4. CASE TargetOpenWay1(k)
  <2>1. (\E file : Takes(k, file)) /\ \A m : Holds(k, m)' <=> m \in Ports(k) \/ m = Lowest
    BY <1>2, <1>3, <1>4 DEF TargetOpenWay1, Holds, FdAt, AtLine
  <2>2. Handles(k)
    BY <1>1, <1>2, <2>1 DEF Handles, Moves, Calm
  <2>3. QED
    BY <1>1, <1>2, <2>2, TargetsFare
<1>5. CASE TargetOpenWay2(k)
  <2>1. Keeps /\ \A m : Holds(k, m)' <=> m \in Ports(k) \/ m = -1
    BY <1>2, <1>3, <1>5 DEF TargetOpenWay2, Holds, FdAt, AtLine
  <2>2. Handles(k)
    BY <1>1, <1>2, <2>1 DEF Handles, Moves, Calm
  <2>3. QED
    BY <1>1, <1>2, <2>2, TargetsFare
<1>6. QED
  BY <1>1, <1>4, <1>5

LEMMA TargetsEndFares ==
  ASSUME NEW k, Ready(k), TargetsEnd(k)
  PROVE  Fares(k)
<1>1. /\ th[k].at = "targets" /\ Leaky(k) /\ \A n : Holds(k, n) <=> n \in Ports(k)
      /\ TargetsEndWay1(k) \/ TargetsEndWay2(k)
  <2>1. th[k].at = "targets" /\ th[k].at \in KeyAt
    BY DEF TargetsEnd, At, KeyAt
  <2>2. QED
    BY <2>1, KeyF, TargetsEndView
<1>2. CASE TargetsEndWay1(k)
  <2>1. /\ Free(k)' /\ Silent(k) /\ Drops(Ports(k) \ {-1}) /\ th'[k].shown = th[k].shown
        /\ th'[k].met = th[k].met \cup UNION {Astray(k, n) : n \in Ports(k) \ {-1}}
    BY <1>2 DEF TargetsEndWay1, Changes, Fields, Free, Ends, Silent
  <2>2. Calm(k) /\ LetsGo(k)
    BY <1>1, <2>1 DEF Calm, LetsGo
  <2>3. QED
    BY <2>1, <2>2, FreeFares
<1>3. CASE TargetsEndWay2(k)
  <2>1. /\ th'[k].at = "select" /\ th'[k].ports = th[k].ports /\ Silent(k) /\ Calm(k) /\ Keeps
    BY <1>3 DEF TargetsEndWay2, Changes, Fields, Silent, Calm
  <2>2. Handles(k)
    BY <1>1, <2>1 DEF Handles, Moves, Calm, Holds, FdAt, AtLine, Ports
  <2>3. QED
    BY <1>1, <2>1, <2>2, TargetsFare
<1>4. QED
  BY <1>1, <1>2, <1>3

LEMMA KeyEventFares ==
  ASSUME NEW k, Ready(k), NEW x, KeyEvent(k, x)
  PROVE  Fares(k)
<1>1. th[k].at = "select" /\ Leaky(k) /\ VerdictsOf(k) /\ plan' = plan /\ \A n : Holds(k, n) <=> n \in Ports(k)
  <2>1. th[k].at = "select" /\ th[k].at \in KeyAt
    BY DEF KeyEvent, At, KeyAt
  <2>2. QED
    BY <2>1, KeyF, ReadyF
<1>2. /\ th'[k].at \in {"key", "send"} /\ Drops(Ports(k)) /\ th[k].shown \subseteq th'[k].shown
      /\ th'[k].met = th[k].met \cup UNION {Astray(k, n) : n \in Ports(k)}
      /\ Silent(k) \/ (th'[k].items = [th[k].items EXCEPT ![x] = "OK"] /\ x \in th'[k].shown)
  <2>1. k \in DOMAIN th /\ DOMAIN th[k] = Fields
    BY ReadyF
  <2>2. /\ Drops(Ports(k)) /\ th'[k].met = th[k].met \cup UNION {Astray(k, n) : n \in Ports(k)}
        /\ \/ Changes(k, {"at", "met"}) /\ th'[k].at = "key"
           \/ /\ Changes(k, {"at", "items", "met", "shown"}) /\ th'[k].at \in {"key", "send"}
              /\ th'[k].items = [th[k].items EXCEPT ![x] = "OK"]
              /\ th'[k].shown = th[k].shown \cup {x}
    BY <2>1, KeyEventView
  <2>3. QED
    BY <2>2 DEF Changes, Fields, Silent
<1>3. LetsGo(k) /\ Calm(k) /\ Free(k)'
  BY <1>1, <1>2 DEF LetsGo, Calm, Free, Ends
<1>4. CASE Silent(k)
  BY <1>2, <1>3, <1>4, FreeFares
<1>5. CASE th'[k].items = [th[k].items EXCEPT ![x] = "OK"] /\ x \in th'[k].shown
  <2>1. \A y : Fair(k, y) => Fair(k, y)'
    BY <1>1, <1>3 DEF Fair, Crowded, Alone, Leaky, Calm
  <2>2. Fair(k, x)'
    BY <1>5 DEF Fair
  <2>3. VerdictsOf(k)' /\ Blamed(k)
    BY <1>1, <1>2, <1>3, <1>5, <2>1, <2>2, FreeMoves DEF VerdictsOf, Blamed
  <2>4. QED
    BY <1>2, <1>3, <2>3, FreeMoves DEF Fares
<1>6. QED
  BY <1>2, <1>4, <1>5
LEMMA DevicesFare ==
  ASSUME NEW k, Ready(k), DeviceItem(k) \/ DeviceEnds(k) \/ Lamp(k) \/ Exported(k)
  PROVE  Fares(k)
<1>1. th[k].at \in {"device", "lamp", "access"} /\ th[k].at \in DeviceAt
  BY DEF DeviceItem, DeviceEnds, Lamp, Exported, At, DeviceAt
<1>2. k \in DOMAIN th /\ DOMAIN th[k] = Fields
  BY ReadyF
<1>3. Free(k)' /\ Keeps /\ Calm(k) /\ (Silent(k) \/ Speaks(k))
  <2>1. CASE DeviceItem(k)
    BY <1>2, <2>1, DeviceItemView DEF DeviceItemWay1, DeviceItemWay2, DeviceItemWay3, DeviceItemWay4,
       DeviceItemWay5, Changes, Fields, Decides, Free, Calm, Silent, Speaks, Verdicts, Caused, Causes
  <2>2. CASE DeviceEnds(k)
    BY <1>2, <2>2, DeviceEndsView DEF DeviceEndsWay1, DeviceEndsWay2, Changes, Fields, Free, Ends, Calm, Silent
  <2>3. CASE Lamp(k)
    <3>1. CASE LampWay1(k)
      BY <1>2, <3>1 DEF LampWay1, Changes, Fields, Decides, Free, Calm, Speaks, Verdicts, Caused, Causes
    <3>2. CASE LampWay2(k)
      BY <1>2, <3>2 DEF LampWay2, Changes, Fields, Decides, Free, Calm, Speaks, Verdicts, Caused, Causes
    <3>3. QED
      BY <1>2, <2>3, <3>1, <3>2, LampView
  <2>4. CASE Exported(k)
    BY <1>2, <2>4, ExportedView DEF At, Changes, Fields, Free, Calm, Silent
  <2>5. QED
    BY <2>1, <2>2, <2>3, <2>4
<1>4. QED
  BY <1>1, <1>3, DeviceF, FreeF, FreeFares DEF LetsGo

LEMMA AccessOpenFares ==
  ASSUME NEW k, Ready(k), AccessOpen(k)
  PROVE  Fares(k)
<1>1. /\ th[k].at = "access" /\ th[k].at \in DeviceAt /\ Free(k) /\ Known(k) /\ plan[k].test # "key"
      /\ AccessOpenWay1(k) \/ AccessOpenWay2(k)
  <2>1. th[k].at = "access" /\ th[k].at \in DeviceAt
    BY DEF AccessOpen, At, DeviceAt
  <2>2. QED
    BY <2>1, DeviceF, AccessOpenView
<1>2. CASE AccessOpenWay1(k)
  <2>1. /\ th'[k].at = "request" /\ th'[k].fd = Lowest /\ Takes(k, <<k, th[k].item>>) /\ Silent(k)
        /\ th'[k].shown = th[k].shown /\ th'[k].met = th[k].met
    BY <1>2 DEF AccessOpenWay1, Changes, Fields, Silent
  <2>2. /\ MembersOf(k)' /\ PortsOf(k)' /\ ~Promised(k)' /\ ~Denied(k)' /\ Apart(k)'
        /\ \A n : Holds(k, n)' <=> n = th'[k].fd
    BY <2>1 DEF MembersOf, PortsOf, AtLine, RtcRange, Promised, Denied, Holds, FdAt, Apart
  <2>3. QED
    BY <1>1, <2>1, <2>2, TakesFares
<1>3. CASE AccessOpenWay2(k)
  <2>1. Free(k)' /\ Calm(k) /\ Keeps /\ Decides(k, "NG") /\ Lack \subseteq th'[k].met
    BY <1>3 DEF AccessOpenWay2, Changes, Fields, Decides, Free, Calm, Lack
  <2>2. QED
    BY <1>1, <2>1, Caught, FreeF, FreeFares DEF LetsGo, Speaks, Decides, Verdicts
<1>4. QED
  BY <1>1, <1>2, <1>3

LEMMA AccessCloseFares ==
  ASSUME NEW k, Ready(k), AccessClose(k)
  PROVE  Fares(k)
<1>1. /\ th[k].at = "close" /\ th[k].at \in DeviceAt /\ Known(k) /\ plan[k].test # "key"
      /\ th[k].want \in {"next", "OK", "NG"} /\ (Denied(k) => Caused(k))
      /\ AccessCloseWay1(k) \/ AccessCloseWay2(k)
  <2>1. th[k].at = "close" /\ th[k].at \in DeviceAt
    BY DEF AccessClose, At, DeviceAt
  <2>2. QED
    BY <2>1, DeviceF, ReadyF, AccessCloseView DEF ControlOf, VerdictsOf
<1>2. /\ Free(k)' /\ Drop(th[k].fd) /\ th'[k].shown = th[k].shown
      /\ th'[k].met = th[k].met \cup Astray(k, th[k].fd)
      /\ Silent(k) \/ (Decides(k, th[k].want) /\ th[k].want # "next")
  BY <1>1 DEF AccessCloseWay1, AccessCloseWay2, Changes, Fields, Decides, Free, Silent
<1>3. Calm(k) /\ LetsGo(k)
  BY <1>1, <1>2, DeviceF, ClosesOne DEF Calm
<1>4. Silent(k) \/ Speaks(k)
  BY <1>1, <1>2, Caught DEF Speaks, Decides, Verdicts, Promised, Denied
<1>5. QED
  BY <1>1, <1>2, <1>3, <1>4, FreeFares

LEMMA RequestFares ==
  ASSUME NEW k, Ready(k), Misleads(k) \/ \E accesses, requests : Request(k, accesses, requests)
  PROVE  Fares(k)
<1>1. /\ th[k].at = "request" /\ th[k].at \in DeviceAt /\ Known(k) /\ plan[k].test # "key"
      /\ \A n : Holds(k, n) <=> n = th[k].fd
  <2>1. th[k].at = "request" /\ th[k].at \in DeviceAt
    BY DEF Misleads, Request, At, DeviceAt
  <2>2. QED
    BY <2>1, DeviceF
<1>2. \/ RequestWay1(k) \/ RequestWay2(k) \/ RequestWay3(k) \/ RequestWay4(k) \/ RequestWay5(k)
      \/ RequestWay6(k) \/ RequestWay7(k) \/ RequestWay8(k) \/ RequestWay9(k)
      \/ MisleadsWay1(k) \/ MisleadsWay2(k)
  BY ReadyF, RequestView, MisleadsView
<1>3. /\ Keeps /\ th[k].shown \subseteq th'[k].shown /\ th'[k].fd = th[k].fd
      /\ \E more \in {{}, {"lookalike"}} : \/ th'[k].met = th[k].met \cup more \cup Astray(k, th[k].fd)
                                           \/ th'[k].met = th[k].met \cup Blames(k, th[k].fd)
  BY <1>2 DEF RequestWay1, RequestWay2, RequestWay3, RequestWay4, RequestWay5, RequestWay6, RequestWay7,
     RequestWay8, RequestWay9, MisleadsWay1, MisleadsWay2, Changes, Fields
<1>4. Calm(k)
  BY <1>1, <1>3 DEF Calm, Blames
<1>5. CASE RequestWay1(k) \/ RequestWay3(k) \/ RequestWay4(k) \/ RequestWay6(k) \/ RequestWay8(k)
           \/ MisleadsWay1(k)
  <2>1. /\ th'[k].at \in {"request", "close"} /\ Silent(k) /\ th'[k].item = th[k].item
        /\ \/ ~Promised(k)' \/ th[k].item \in th'[k].shown \/ {"stray", "lookalike"} \cap th'[k].met # {}
        /\ Denied(k)' => Blames(k, th[k].fd) \subseteq th'[k].met
    BY <1>1, <1>5 DEF RequestWay1, RequestWay3, RequestWay4, RequestWay6, RequestWay8, MisleadsWay1, Changes,
       Fields, Silent, Promised, Denied, Astray
  <2>2. Handles(k) /\ MembersOf(k)'
    BY <1>1, <1>3, <1>4, <2>1, SameFd DEF FdAt, HeldAt, MembersOf, RtcRange
  <2>3. QED
    BY <1>4, <2>1, <2>2, Caught, HeldFares DEF HeldAt
<1>6. CASE RequestWay2(k) \/ RequestWay5(k) \/ RequestWay7(k) \/ RequestWay9(k) \/ MisleadsWay2(k)
  <2>1. /\ Free(k)' /\ Item(k) = "pin"
        /\ \/ Silent(k)
           \/ Decides(k, "NG") /\ Blames(k, th[k].fd) \subseteq th'[k].met
           \/ /\ Decides(k, "OK")
              /\ th[k].item \in th'[k].shown \/ {"stray", "lookalike"} \cap th'[k].met # {}
    BY <1>1, <1>6 DEF RequestWay2, RequestWay5, RequestWay7, RequestWay9, MisleadsWay2, Changes,
       Fields, Silent, Decides, Free, Astray
  <2>2. LetsGo(k)
    BY <1>1, <1>3, <2>1, DeviceF DEF LetsGo
  <2>3. QED
    BY <1>1, <1>4, <2>1, <2>2, Caught, FreeFares DEF Speaks, Decides, Verdicts
<1>7. QED
  BY <1>2, <1>5, <1>6
LEMMA RtcOpenFares ==
  ASSUME NEW k, Ready(k), RtcOpen(k)
  PROVE  Fares(k)
<1>1. /\ th[k].at = "rtcOpen" /\ Free(k) /\ k \in DOMAIN th /\ DOMAIN th[k] = Fields
      /\ rtcFd' = th'[k].fd /\ (RtcOpenWay1(k) \/ RtcOpenWay2(k))
  BY ReadyF, RtcOpenView DEF At, Free
<1>2. /\ th'[k].at = "rtcSet" /\ Silent(k) /\ th'[k].shown = th[k].shown /\ th'[k].item = th[k].item
      /\ th'[k].met \in {th[k].met, th[k].met \cup Lack}
  BY <1>1 DEF RtcOpenWay1, RtcOpenWay2, Changes, Fields, Silent
<1>3. /\ MembersOf(k)' /\ PortsOf(k)' /\ ~Promised(k)' /\ ~Denied(k)' /\ Apart(k)'
      /\ \A n : Holds(k, n)' <=> n = th'[k].fd
  BY <1>1, <1>2 DEF MembersOf, PortsOf, AtLine, RtcRange, Promised, Denied, Holds, FdAt, Apart
<1>4. CASE RtcOpenWay1(k)
  BY <1>1, <1>2, <1>3, <1>4, TakesFares DEF RtcOpenWay1, Lack
<1>5. CASE RtcOpenWay2(k)
  <2>1. Calm(k) /\ Keeps /\ th'[k].fd = -1
    BY <1>2, <1>5 DEF RtcOpenWay2, Calm, Lack
  <2>2. Handles(k)
    BY <1>1, <1>3, <2>1, FreeF DEF Handles, Moves, Calm
  <2>3. QED
    BY <1>2, <1>3, <2>1, <2>2, HeldFares DEF HeldAt
<1>6. QED
  BY <1>1, <1>4, <1>5

LEMMA RtcSetFares ==
  ASSUME NEW k, Ready(k), RtcSet(k)
  PROVE  Fares(k)
<1>1. /\ th[k].at = "rtcSet" /\ th[k].at \in RtcAt /\ rtcFd' = rtcFd
      /\ RtcSetWay1(k) \/ RtcSetWay2(k)
  BY ReadyF, RtcSetView DEF At, RtcAt
<1>2. /\ Known(k) /\ plan[k].test # "key" /\ rtcFd = th[k].fd /\ \A n : Holds(k, n) <=> n = th[k].fd
  BY <1>1, ItemOne DEF MembersOf, RtcRange, FdAt
<1>3. CASE RtcSetWay1(k)
  <2>1. /\ th'[k].at = "rtcGet" /\ Silent(k) /\ th'[k].shown = th[k].shown /\ th'[k].item = th[k].item
        /\ th'[k].fd = th[k].fd /\ th'[k].met = th[k].met \cup Astray(k, th[k].fd) /\ Keeps /\ clockBy' = k
    BY <1>2, <1>3 DEF RtcSetWay1, Changes, Fields, Silent
  <2>2. Calm(k)
    BY <1>2, <2>1 DEF Calm
  <2>3. Handles(k)
    BY <1>1, <2>1, <2>2, SameFd DEF FdAt, HeldAt
  <2>4. MembersOf(k)' /\ ~Promised(k)' /\ ~Denied(k)'
    BY <1>1, <1>2, <2>1 DEF MembersOf, RtcRange, Promised, Denied
  <2>5. QED
    BY <2>1, <2>2, <2>3, <2>4, HeldFares DEF HeldAt
<1>4. CASE RtcSetWay2(k)
  <2>1. /\ Free(k)' /\ th'[k].shown = th[k].shown /\ Judges(k, "NG") /\ Drop(th[k].fd)
        /\ th'[k].met = th[k].met \cup Blames(k, th[k].fd) \cup Astray(k, th[k].fd)
    BY <1>2, <1>4 DEF RtcSetWay2, Changes, Fields, Judges, Free, Ends
  <2>2. Calm(k)
    BY <1>2, <2>1 DEF Calm, Blames
  <2>3. QED
    BY <1>2, <2>1, <2>2, Caught, ClosesOne, FreeFares DEF Speaks, Judges, Verdicts
<1>5. QED
  BY <1>1, <1>3, <1>4

LEMMA RtcGetFares ==
  ASSUME NEW k, Ready(k), RtcGet(k)
  PROVE  Fares(k)
<1>1. /\ th[k].at = "rtcGet" /\ th[k].at \in RtcAt /\ rtcFd' = rtcFd /\ plan[k].test = "rtc" /\ plan' = plan
      /\ RtcGetWay1(k) \/ RtcGetWay2(k) \/ RtcGetWay3(k) \/ RtcGetWay4(k)
  BY ReadyF, RtcGetView DEF At, RtcAt, rtcVars
<1>2. /\ Known(k) /\ rtcFd = th[k].fd /\ clockBy = k /\ th[k].item = 1 /\ \A n : Holds(k, n) <=> n = th[k].fd
  BY <1>1, ItemOne DEF MembersOf, RtcRange, FdAt
<1>3. /\ th'[k].at = "rtcClose" /\ Silent(k) /\ th[k].shown \subseteq th'[k].shown
      /\ th'[k].item = th[k].item /\ th'[k].fd = th[k].fd
      /\ \/ /\ Keeps /\ th'[k].ok /\ th[k].item \in th'[k].shown
            /\ th'[k].met = th[k].met \cup Astray(k, th[k].fd)
         \/ /\ Keeps /\ ~th'[k].ok /\ th'[k].met = th[k].met \cup Blames(k, th[k].fd)
         \/ /\ Drop(th[k].fd) /\ ~th'[k].ok
            /\ th'[k].met = th[k].met \cup Blames(k, th[k].fd) \cup Astray(k, th[k].fd)
  BY <1>1, <1>2 DEF RtcGetWay1, RtcGetWay2, RtcGetWay3, RtcGetWay4, Changes, Fields, Silent
<1>4. Calm(k) /\ MembersOf(k)'
  BY <1>1, <1>2, <1>3 DEF Calm, Blames, MembersOf, RtcRange
<1>5. \A n : Holds(k, n)' <=> n = th[k].fd
  BY <1>3 DEF Holds, FdAt, AtLine
<1>6. Handles(k)
  <2>1. CASE Keeps
    BY <1>2, <1>4, <1>5, <2>1 DEF Handles, Moves, Calm
  <2>2. CASE Drop(th[k].fd) /\ ~th'[k].ok
    <3>1. ClosesTwice(k)'
      BY <1>1, <1>3, <2>2 DEF ClosesTwice
    <3>2. Drops({th[k].fd}) /\ Moves(k, {th[k].fd}) /\ \A n \in {th[k].fd} : Holds(k, n)
      BY <1>2, <1>5, <2>2 DEF Drop, Moves
    <3>3. QED
      BY <1>4, <3>1, <3>2 DEF Handles, Calm
  <2>3. QED
    BY <1>3, <2>1, <2>2
<1>7. (~Promised(k)' \/ th[k].item \in th'[k].shown) /\ (Denied(k)' => Caused(k)')
  BY <1>3, Caught DEF Promised, Denied
<1>8. QED
  BY <1>3, <1>4, <1>6, <1>7, HeldFares DEF HeldAt

LEMMA RtcCloseFares ==
  ASSUME NEW k, Ready(k), RtcClose(k)
  PROVE  Fares(k)
<1>1. /\ th[k].at = "rtcClose" /\ th[k].at \in RtcAt /\ (RtcCloseWay1(k) \/ RtcCloseWay2(k))
      /\ Denied(k) => Caused(k)
  BY ReadyF, RtcCloseView DEF At, RtcAt, VerdictsOf
<1>2. /\ Known(k) /\ plan[k].test # "key" /\ rtcFd = th[k].fd /\ \A n : Holds(k, n) <=> n = th[k].fd
  BY <1>1, ItemOne DEF MembersOf, RtcRange, FdAt
<1>3. /\ Free(k)' /\ th'[k].shown = th[k].shown /\ Drop(th[k].fd)
      /\ th'[k].met = th[k].met \cup Astray(k, th[k].fd)
      /\ (Judges(k, "OK") /\ th[k].ok) \/ (Judges(k, "NG") /\ ~th[k].ok)
  BY <1>1, <1>2 DEF RtcCloseWay1, RtcCloseWay2, Changes, Fields, Judges, Free, Ends
<1>4. Calm(k) /\ Speaks(k)
  <2>1. Calm(k) /\ th[k].met \subseteq th'[k].met
    BY <1>2, <1>3 DEF Calm
  <2>2. ~th[k].ok => Caused(k)'
    BY <1>1, <2>1, Caught DEF Denied
  <2>3. QED
    BY <1>1, <1>3, <2>1, <2>2 DEF Speaks, Judges, Verdicts, Promised
<1>5. QED
  BY <1>2, <1>3, <1>4, ClosesOne, FreeFares
LEMMA WifisFare ==
  ASSUME NEW k, Ready(k), WifiSpent(k) \/ WifiScan(k) \/ WifiResults(k)
  PROVE  Fares(k)
<1>1. th[k].at \in {"wifi", "wifiResults"} /\ th[k].at \in WifiAt
  BY DEF WifiSpent, WifiScan, WifiResults, At, WifiAt
<1>2. /\ Free(k) /\ Known(k) /\ plan[k].test # "key" /\ th[k].item = 1 /\ k \in DOMAIN th
      /\ DOMAIN th[k] = Fields
  BY <1>1, ItemOne DEF Free
<1>3. /\ th'[k].at \in {"wifi", "wifiResults", "send"} /\ Keeps
      /\ \/ th'[k].met = th[k].met
         \/ \E e \in {"fault", "spent", "lookalike"} : th'[k].met = th[k].met \cup {e}
      /\ \/ Silent(k) /\ th'[k].shown = th[k].shown
         \/ /\ Judges(k, "NG") /\ th'[k].shown = th[k].shown
            /\ \E e \in {"fault", "spent"} : th'[k].met = th[k].met \cup {e}
         \/ Judges(k, "OK") /\ th'[k].shown = th[k].shown /\ th'[k].met = th[k].met \cup {"lookalike"}
         \/ Judges(k, "OK") /\ th'[k].shown = th[k].shown \cup {1}
  <2>1. CASE WifiSpent(k)
    <3>1. /\ Changes(k, {"at", "item", "items", "met", "result"}) /\ Judges(k, "NG") /\ th'[k].at = "send"
          /\ th'[k].met = th[k].met \cup {"spent"} /\ Keeps
      BY <1>2, <2>1, WifiSpentView
    <3>2. th'[k].shown = th[k].shown
      BY <3>1 DEF Changes, Fields
    <3>3. QED
      BY <3>1, <3>2
  <2>2. CASE WifiScan(k)
    <3>1. th[k].at = "wifi" /\ (WifiScanWay1(k) \/ WifiScanWay2(k))
      BY <1>2, <2>2, WifiScanView DEF At
    <3>2. QED
      BY <3>1 DEF WifiScanWay1, WifiScanWay2, Changes, Fields, Silent
  <2>3. CASE WifiResults(k)
    <3>1. WifiResultsWay1(k) \/ WifiResultsWay2(k) \/ WifiResultsWay3(k) \/ WifiResultsWay4(k)
      BY <1>2, <2>3, WifiResultsView
    <3>2. QED
      BY <3>1 DEF WifiResultsWay1, WifiResultsWay2, WifiResultsWay3, WifiResultsWay4, Changes, Fields, Silent
  <2>4. QED
    BY <2>1, <2>2, <2>3
<1>4. Free(k)' /\ Calm(k)
  <2>1. Free(k)' /\ th[k].shown \subseteq th'[k].shown
    BY <1>3 DEF Free, Ends
  <2>2. th[k].met \subseteq th'[k].met /\ ("stray" \in th'[k].met => "stray" \in th[k].met)
    BY <1>3
  <2>3. QED
    BY <2>1, <2>2 DEF Calm
<1>5. Silent(k) \/ Speaks(k)
  BY <1>2, <1>3 DEF Speaks, Judges, Verdicts, Caused, Causes
<1>6. QED
  BY <1>2, <1>3, <1>4, <1>5, FreeF, FreeFares DEF LetsGo

LEMMA BtOpenFares ==
  ASSUME NEW k, Ready(k), BtOpen(k)
  PROVE  Fares(k)
<1>1. th[k].at = "btOpen" /\ th[k].at \in BtAt /\ Free(k) /\ (BtOpenWay1(k) \/ BtOpenWay2(k))
  BY ReadyF, BtOpenView DEF At, BtAt, Free
<1>2. Known(k) /\ plan[k].test # "key"
  BY <1>1, ItemOne
<1>3. CASE BtOpenWay1(k)
  <2>1. /\ th'[k].at = "btInquiry" /\ th'[k].fd = Lowest /\ Takes(k, <<k, 1>>) /\ Silent(k)
        /\ th'[k].shown = th[k].shown /\ th'[k].met = th[k].met
    BY <1>3 DEF BtOpenWay1, Changes, Fields, Silent
  <2>2. /\ MembersOf(k)' /\ PortsOf(k)' /\ ~Promised(k)' /\ ~Denied(k)' /\ Apart(k)'
        /\ \A n : Holds(k, n)' <=> n = th'[k].fd
    BY <2>1 DEF MembersOf, PortsOf, AtLine, RtcRange, Promised, Denied, Holds, FdAt, Apart
  <2>3. QED
    BY <1>1, <2>1, <2>2, TakesFares
<1>4. CASE BtOpenWay2(k)
  <2>1. Free(k)' /\ Calm(k) /\ Keeps /\ Judges(k, "NG") /\ Lack \subseteq th'[k].met
    BY <1>4 DEF BtOpenWay2, Changes, Fields, Judges, Free, Ends, Calm, Lack
  <2>2. QED
    BY <1>1, <1>2, <2>1, Caught, FreeF, FreeFares DEF LetsGo, Speaks, Judges, Verdicts
<1>5. QED
  BY <1>1, <1>3, <1>4

LEMMA BtInquiryFares ==
  ASSUME NEW k, Ready(k), BtInquiry(k)
  PROVE  Fares(k)
<1>1. /\ th[k].at = "btInquiry" /\ th[k].at \in BtAt
      /\ BtInquiryWay1(k) \/ BtInquiryWay2(k) \/ BtInquiryWay3(k)
  BY ReadyF, BtInquiryView DEF At, BtAt
<1>2. Known(k) /\ plan[k].test # "key" /\ th[k].item = 1 /\ \A n : Holds(k, n) <=> n = th[k].fd
  BY <1>1, ItemOne DEF FdAt
<1>3. CASE BtInquiryWay1(k) \/ BtInquiryWay2(k)
  <2>1. /\ Free(k)' /\ th'[k].shown = th[k].shown /\ Drop(th[k].fd)
        /\ \/ Silent(k) /\ th'[k].met = th[k].met \cup Astray(k, th[k].fd)
           \/ /\ Judges(k, "NG")
              /\ th'[k].met = th[k].met \cup Blames(k, th[k].fd) \cup Astray(k, th[k].fd)
    BY <1>3 DEF BtInquiryWay1, BtInquiryWay2, Changes, Fields, Judges, Free, Ends, Silent
  <2>2. Calm(k)
    BY <1>2, <2>1 DEF Calm, Blames
  <2>3. QED
    BY <1>2, <2>1, <2>2, Caught, ClosesOne, FreeFares DEF Speaks, Judges, Verdicts
<1>4. CASE BtInquiryWay3(k)
  <2>1. /\ th'[k].at = "btFill" /\ Silent(k) /\ th'[k].item = th[k].item /\ th'[k].fd = th[k].fd /\ Keeps
        /\ th'[k].shown = th[k].shown \cup {1} /\ th'[k].met = th[k].met \cup Astray(k, th[k].fd)
    BY <1>4 DEF BtInquiryWay3, Changes, Fields, Silent
  <2>2. Calm(k)
    BY <1>2, <2>1 DEF Calm
  <2>3. Handles(k)
    BY <1>1, <2>1, <2>2, SameFd DEF FdAt, HeldAt
  <2>4. MembersOf(k)' /\ ~Denied(k)'
    BY <2>1 DEF MembersOf, RtcRange, Denied
  <2>5. QED
    BY <1>2, <2>1, <2>2, <2>3, <2>4, HeldFares DEF HeldAt
<1>5. QED
  BY <1>1, <1>3, <1>4

LEMMA BtsFare ==
  ASSUME NEW k, Ready(k), BtFree(k) \/ BtFill(k) \/ BtClose(k) \/ BtResult(k) \/ BtRead(k)
  PROVE  Fares(k)
<1>1. k \in DOMAIN th /\ DOMAIN th[k] = Fields
  BY ReadyF
<1>2. CASE BtFree(k)
  <2>1. Free(k) /\ Free(k)' /\ Keeps /\ Calm(k) /\ Silent(k)
    BY <1>1, <1>2, BtFreeView DEF At, Changes, Fields, Free, Calm, Silent
  <2>2. QED
    BY <2>1, FreeF, FreeFares DEF LetsGo
<1>3. CASE BtRead(k)
  <2>1. /\ th[k].at = "btRead" /\ th[k].at \in BtAt /\ Free(k)' /\ Keeps /\ Calm(k) /\ Judges(k, "OK")
    BY <1>1, <1>3, BtReadView DEF At, BtAt, Changes, Fields, Judges, Free, Ends, Calm
  <2>2. \A n : ~Holds(k, n)
    BY <2>1 DEF Holds, FdAt, AtLine
  <2>3. QED
    BY <2>1, <2>2, ItemOne, FreeFares DEF LetsGo, Speaks, Judges, Verdicts, Promised
<1>4. CASE BtFill(k) \/ BtClose(k) \/ BtResult(k)
  <2>1. /\ th[k].at \in {"btFill", "btClose", "btResult"} /\ th[k].at \in BtAt /\ Silent(k)
        /\ th'[k].at \in {"btClose", "btResult", "btRead", "send"} /\ btCount' = btCount
        /\ th'[k].shown = th[k].shown /\ th'[k].item = th[k].item /\ th'[k].fd = th[k].fd
        /\ th[k].met \subseteq th'[k].met
        /\ \/ Keeps /\ th'[k].met = th[k].met /\ th[k].at = "btFill" /\ th'[k].at = "btClose"
           \/ /\ Keeps /\ th'[k].met = th[k].met /\ th[k].at = "btResult" /\ th'[k].at \in {"btRead", "send"}
              /\ th'[k].at = "btRead" <=> btCount > 0
           \/ /\ Drop(th[k].fd) /\ th'[k].met = th[k].met \cup Astray(k, th[k].fd)
              /\ th[k].at = "btClose" /\ th'[k].at = "btResult"
    BY <1>1, <1>4, BtFillView, BtCloseView, BtResultView DEF At, BtAt, BtResultWay1, BtResultWay2, radioVars,
       Changes, Fields, Silent
  <2>2. /\ th[k].at \in {"btFill", "btClose"} => \A n : Holds(k, n) <=> n = th[k].fd
        /\ th[k].at = "btResult" => \A n : ~Holds(k, n)
        /\ th'[k].at = "btClose" => \A n : Holds(k, n)' <=> n = th[k].fd
        /\ th'[k].at \in {"btResult", "btRead"} => \A n : ~Holds(k, n)'
    BY <2>1 DEF Holds, FdAt, AtLine
  <2>3. Calm(k)
    BY <2>1, <2>2 DEF Calm
  <2>4. CASE th'[k].at = "send"
    BY <2>1, <2>2, <2>3, <2>4, FreeFares DEF Free, Ends, LetsGo
  <2>5. CASE th'[k].at # "send"
    <3>1. Handles(k)
      BY <2>1, <2>2, <2>3, <2>5 DEF Handles, Moves, Calm, Drop
    <3>2. MembersOf(k)' /\ ~Denied(k)' /\ (~Promised(k)' \/ Promised(k))
      BY <2>1, <2>5 DEF MembersOf, RtcRange, Denied, Promised
    <3>3. QED
      BY <2>1, <2>3, <2>5, <3>1, <3>2, HeldFares DEF HeldAt
  <2>6. QED
    BY <2>4, <2>5
<1>5. QED
  BY <1>2, <1>3, <1>4
\* The answer of a test.
LEMMA SendsFare ==
  ASSUME NEW k, Ready(k), SendNumber(k) \/ SendPack(k) \/ SendWrite(k), th'[k] # th[k]
  PROVE  Fares(k)
<1>1. k \in DOMAIN th /\ DOMAIN th[k] = Fields
  BY ReadyF
<1>2. /\ th[k].at \in Ends /\ th'[k].at \in Ends /\ Keeps /\ th'[k].items = th[k].items
      /\ th'[k].met = th[k].met /\ th'[k].shown = th[k].shown
  <2>1. CASE SendNumber(k)
    BY <1>1, <2>1, SendNumberView DEF At, Ends, Changes, Fields
  <2>2. CASE SendPack(k)
    BY <1>1, <2>2, SendPackView DEF At, Ends, Changes, Fields
  <2>3. CASE SendWrite(k)
    BY <1>1, <2>3, SendWriteView DEF At, Ends, Changes, Fields
  <2>4. QED
    BY <2>1, <2>2, <2>3
<1>3. Free(k) /\ Free(k)' /\ Calm(k) /\ Silent(k)
  BY <1>2 DEF Free, Calm, Silent
<1>4. QED
  BY <1>2, <1>3, FreeF, FreeFares DEF LetsGo

\* A step after which the threads and the descriptors are as before.
LEMMA StandsFare ==
  ASSUME NEW k, Ready(k), th' = th, Keeps, serialFd' = serialFd, rtcFd' = rtcFd, clockBy' = clockBy,
         btCount' = btCount
  PROVE  Fares(k)
<1>1. plan' = plan
  BY ReadyF
<1>2. MembersOf(k)' /\ PortsOf(k)' /\ VerdictsOf(k)'
  <2>1. MembersOf(k)'
    BY <1>1, ReadyF DEF Keeps, MembersOf, RtcRange, OwnedBy, Opened
  <2>2. PortsOf(k)'
    <3>1. PortsOf(k)
      BY ReadyF
    <3>2. OnLine(k)' = OnLine(k) /\ (AtLine(k)' <=> AtLine(k)) /\ (Caused(k)' <=> Caused(k))
          /\ (\A x : Passed(k, x)' <=> Passed(k, x)) /\ \A x, y : Reaches(k, x, y)' <=> Reaches(k, x, y)
      BY <1>1 DEF OnLine, AtLine, Caused, Passed, Reaches
    <3>3. QED
      BY <3>1, <3>2 DEF PortsOf
  <2>3. VerdictsOf(k)'
    <3>1. \A x : Fair(k, x)' <=> Fair(k, x)
      BY <1>1 DEF Fair, Crowded, Alone
    <3>2. /\ Promised(k)' <=> Promised(k)
          /\ Denied(k)' <=> Denied(k)
          /\ Caused(k)' <=> Caused(k)
      BY <1>1 DEF Promised, Denied, Caused
    <3>3. QED
      BY <1>1, <3>1, <3>2, ReadyF DEF VerdictsOf
  <2>4. QED
    BY <2>1, <2>2, <2>3
<1>3. \A n : Holds(k, n)' <=> Holds(k, n)
  BY DEF Holds, AtLine, FdAt, Ports, PortFds, Usable
<1>4. Handles(k)
  BY <1>3 DEF Handles, Moves
<1>5. Parts(k)
  BY DEF Parts, Apart, PortFds, Usable
<1>6. Blamed(k)
  BY DEF Blamed
<1>7. QED
  BY <1>2, <1>4, <1>5, <1>6 DEF Fares
\* A test begins, or ends at once.
LEMMA CommandFares ==
  ASSUME NEW k, Ready(k), Dispatch(k) \/ Stop(k)
  PROVE  Fares(k)
<1>1. k \in DOMAIN th /\ DOMAIN th[k] = Fields /\ th[k] = Fresh /\ Keeps /\ th[k].at = "idle"
  BY DEF Ready, Shape, Control, ControlOf, Dispatch, Stop, Turn, At, Keeps
<1>2. DOMAIN Fresh = Fields /\ Fresh.items = <<>> /\ Fresh.met = {} /\ Fresh.shown = {}
  BY DEF Fresh, Fields
<1> DEFINE u == To(th[k], "done")
           v == Begun(k)
<1>3. u.at = "done" /\ u.items = <<>> /\ u.met = {}
  BY <1>1, <1>2 DEF To, Fields
<1>4. /\ v.at \in {"serial", "key", "rtcOpen", "wifi", "bt", "device"} /\ v.met = {}
      /\ v.items = <<>> \/ v.items \in [DOMAIN plan[k].items -> {"none", "SKIP"}]
  <2>1. CASE plan[k].test = "serial"
    BY <1>2, <2>1 DEF Begun, SerialFresh, Fields
  <2>2. CASE plan[k].test = "key"
    BY <1>2, <2>2 DEF Begun, KeyFresh, Fields
  <2>3. CASE plan[k].test \in {"rtc", "wifi", "bluetooth"}
    BY <1>2, <2>3 DEF Begun, To, Fields
  <2>4. CASE plan[k].test \notin {"serial", "key", "rtc", "wifi", "bluetooth"}
    BY <1>2, <2>4 DEF Begun, DeviceFresh, Fields
  <2>5. QED
    BY <2>1, <2>2, <2>3, <2>4
<1>5. th'[k] = u \/ th'[k] = v
  <2>1. th' = [th EXCEPT ![k] = u] \/ th' = [th EXCEPT ![k] = v]
    BY DEF Dispatch, Stop
  <2> HIDE DEF u, v
  <2>2. QED
    BY <1>1, <2>1
<1> HIDE DEF u, v
<1>6. /\ th'[k].at \in {"serial", "key", "rtcOpen", "wifi", "bt", "device", "done"} /\ th'[k].met = {}
      /\ th'[k].items = <<>> \/ th'[k].items \in [DOMAIN plan[k].items -> {"none", "SKIP"}]
  BY <1>3, <1>4, <1>5
<1>7. \A x \in DOMAIN th'[k].items : th'[k].items[x] \notin {"OK", "NG"}
  BY <1>6
<1>8. Free(k) /\ Free(k)' /\ Calm(k)
  BY <1>1, <1>2, <1>6 DEF Free, Ends, Calm
<1>9. /\ MembersOf(k)' /\ PortsOf(k)' /\ ~Promised(k)' /\ ~Denied(k)' /\ Handles(k) /\ Parts(k)
  BY <1>1, <1>8, FreeF, FreeMoves DEF LetsGo
<1>10. QED
  BY <1>7, <1>9 DEF Fares, VerdictsOf, Blamed
\* Whatever a test does, it fares well if it was ready.
LEMMA StepFares ==
  ASSUME Typed, Ended, NEW k \in DOMAIN plan, plan' = plan, Command(k) \/ Test(k),
         MembersOf(k), PortsOf(k), VerdictsOf(k)
  PROVE  Fares(k)
<1>1. Ready(k) /\ SilenceOf(k) /\ k \in DOMAIN th /\ DOMAIN th[k] = Fields
  BY DEF Typed, Ended, Ready, Shape
<1>2. CASE Command(k)
  BY <1>1, <1>2, CommandFares DEF Command
<1>3. CASE SerialStep(k) /\ UNCHANGED <<rtcVars, radioVars>>
  <2>1. CASE SerialDies(k)
    BY <1>1, <1>3, <2>1, StandsFare DEF SerialDies, LineOfOne, SerialConfigDies, Keeps, serialVars, rtcVars, radioVars
  <2>2. CASE SerialItem(k) \/ SerialOpen(k) \/ SerialConfig(k) \/ Echo(k) \/ ClosePort(k)
    BY <1>1, <2>2, SerialItemFares, SerialOpenFares, SerialOpenLineFares, SerialConfigFares,
       SerialConfigLineFares, EchoFares, ClosePortFares
  <2>3. CASE OpenCan(k) \/ CanTest(k) \/ Rs485Test(k) \/ LineBegin(k) \/ SerialAnswer(k)
    BY <1>1, <2>3, OpenCanFares, CanTestFares, Rs485TestFares, LineBeginFares, SerialAnswerFares
  <2>4. CASE LineOpen(k) \/ SendFails(k) \/ Exchange(k) \/ LineClose(k) \/ SerialRetry(k)
    BY <1>1, <2>4, LineOpenFares, SendFailsFares, ExchangeFares, LineCloseFares, SerialRetryFares
  <2>5. QED
    BY <1>3, <2>1, <2>2, <2>3, <2>4 DEF SerialStep
<1>4. CASE KeyStep(k)
  <2>1. CASE TargetOpen(k)
    <3>1. th[k].at = "targets"
      BY <2>1 DEF TargetOpen, At
    <3>2. Targeted(k)
      BY <1>1, <3>1 DEF SilenceOf, KeysOf, KeyAt
    <3>3. QED
      BY <1>1, <2>1, <3>2, TargetOpenFares
  <2>2. CASE \E x \in DOMAIN plan[k].items : KeyEvent(k, x)
    BY <1>1, <2>2, KeyEventFares
  <2>3. QED
    BY <1>1, <1>4, <2>1, <2>2, KeysFare, ScanNodeFares, TargetsEndFares DEF KeyStep
<1>5. CASE DeviceStep(k) /\ UNCHANGED <<serialVars, radioVars>>
  <2>1. \/ Dies(k) \/ AccessOpen(k) \/ AccessClose(k) \/ Exported(k) \/ Misleads(k)
        \/ (\E accesses, requests : Request(k, accesses, requests))
        \/ DeviceItem(k) \/ DeviceEnds(k) \/ Lamp(k) \/ RtcOpen(k) \/ RtcSet(k) \/ RtcGet(k) \/ RtcClose(k)
    BY <1>5 DEF DeviceStep, Device, Vendor, GetHwid, Pin, GetInterfaceIp, PrefixInside, ReadAdc, CapturePng,
       EmptyFrame, Access
  <2>2. CASE Dies(k)
    BY <1>1, <1>5, <2>2, StandsFare DEF Dies, Keeps, serialVars, rtcVars, radioVars
  <2>3. QED
    BY <1>1, <2>1, <2>2, DevicesFare, AccessOpenFares, AccessCloseFares, RequestFares, RtcOpenFares,
       RtcSetFares, RtcGetFares, RtcCloseFares
<1>6. CASE RadioStep(k) /\ UNCHANGED <<serialVars, rtcVars>>
  <2>1. CASE BtGone(k)
    BY <1>1, <1>6, <2>1, StandsFare DEF BtGone, Keeps, serialVars, rtcVars, radioVars
  <2>2. QED
    BY <1>1, <1>6, <2>1, WifisFare, BtOpenFares, BtInquiryFares, BtsFare DEF RadioStep
<1>7. CASE SendStep(k) /\ UNCHANGED <<serialVars, rtcVars, radioVars>>
  <2>1. CASE th'[k] # th[k]
    BY <1>1, <1>7, <2>1, SendsFare DEF SendStep
  <2>2. CASE th'[k] = th[k]
    <3>1. th' = th /\ Keeps
      <4>1. CASE SendNumber(k)
        BY <1>1, <2>2, <4>1, SendNumberView DEF At
      <4>2. CASE SendPack(k)
        BY <1>1, <2>2, <4>2, SendPackView DEF At, Keeps
      <4>3. CASE SendWrite(k)
        BY <1>1, <2>2, <4>3, SendWriteView DEF At
      <4>4. QED
        BY <1>7, <4>1, <4>2, <4>3 DEF SendStep
    <3>2. QED
      BY <1>1, <1>7, <3>1, StandsFare DEF serialVars, rtcVars, radioVars
  <2>3. QED
    BY <2>1, <2>2
<1>8. QED
  BY <1>2, <1>3, <1>4, <1>5, <1>6, <1>7 DEF Test
-----------------------------------------------------------------------------
(***************************************************************************)
(* What a step of one test does to the others: they lose nothing, or the   *)
(* two have met on a member of the board.                                  *)
(***************************************************************************)
\* Which steps touch the members of the board, and that a race is not forgotten.
LEMMA MemberSteps ==
  ASSUME NEW k, Command(k) \/ Test(k)
  PROVE  /\ raced \subseteq raced' /\ clockRaced \subseteq clockRaced' /\ btRaced \subseteq btRaced'
         /\ serialFd' = serialFd \/ SerialOpen(k)
         /\ rtcFd' = rtcFd \/ RtcOpen(k)
         /\ clockBy' = clockBy \/ RtcSet(k)
         /\ btCount' = btCount \/ BtFree(k) \/ BtInquiry(k)
<1>1. raced \subseteq raced' /\ (serialFd' = serialFd \/ SerialOpen(k))
  <2>1. CASE SerialStep(k)
    BY <2>1 DEF SerialStep, SerialItem, SerialConfig, Echo, ClosePort, OpenCan, CanTest, Rs485Test, Exchanges,
       LineBegin, SerialAnswer, LineOpen, SendFails, Exchange, LineClose, SerialRetry, SerialDies, LineOfOne, SerialConfigDies, serialVars,
       SerialOpen
  <2>2. CASE UNCHANGED serialVars
    BY <2>2 DEF serialVars
  <2>3. QED
    BY <2>1, <2>2 DEF Command, Test
<1>2. clockRaced \subseteq clockRaced' /\ (rtcFd' = rtcFd \/ RtcOpen(k)) /\ (clockBy' = clockBy \/ RtcSet(k))
  <2>1. CASE DeviceStep(k)
    BY <2>1 DEF DeviceStep, Device, Dies, DeviceItem, DeviceEnds, Lamp, RtcOpen, RtcSet, RtcGet, RtcClose,
       rtcVars
  <2>2. CASE UNCHANGED rtcVars
    BY <2>2 DEF rtcVars
  <2>3. QED
    BY <2>1, <2>2 DEF Command, Test
<1>3. QED
  BY <1>1, <1>2, ListSteps

\* A test is where one works with the clock only after it opened the clock.
LEMMA RtcSteps ==
  ASSUME Typed, NEW k \in DOMAIN plan, plan' = plan, Command(k) \/ Test(k), th'[k].at \in RtcRange
  PROVE  RtcOpen(k) \/ th[k].at \in RtcRange
<1>1. /\ k \in DOMAIN th /\ DOMAIN th[k] = Fields /\ Control(k)' /\ Turns(k)
      /\ th[k].at \in {"idle"} \cup Points(k) \cup Ends
  BY StepControl DEF Typed, Shape, Control, ControlOf
<1>2. plan[k].test = "rtc"
  <2>1. th'[k].at \in {"idle"} \cup Points(k)' \cup Ends /\ Points(k)' = Points(k)
    BY <1>1 DEF Control, ControlOf, Points
  <2>2. QED
    BY <2>1 DEF RtcRange, Points, SerialAt, KeyAt, WifiAt, BtAt, DeviceAt, Ends
<1>3. th[k].at \in {"idle"} \cup RtcAt \cup Ends
  BY <1>1, <1>2 DEF Points
<1>4. th[k].at \notin {"idle", "send", "pack", "write", "done"} \/ th'[k].at \in {"rtcOpen"} \cup Ends \/ th' = th
  <2>1. CASE Command(k)
    <3>1. th[k] = Fresh /\ DOMAIN Fresh = Fields
      BY <2>1 DEF Typed, Control, ControlOf, Command, Dispatch, Stop, Turn, At, Fresh, Fields
    <3> DEFINE u == To(th[k], "done")
               v == To(Fresh, "rtcOpen")
    <3>2. u.at = "done" /\ v.at = "rtcOpen"
      BY <3>1 DEF To, Fields
    <3>3. th' = [th EXCEPT ![k] = u] \/ th' = [th EXCEPT ![k] = v]
      BY <1>2, <2>1 DEF Command, Dispatch, Stop, Begun
    <3> HIDE DEF u, v
    <3>4. QED
      BY <1>1, <3>2, <3>3 DEF Ends
  <2>2. CASE SendStep(k)
    <3>1. CASE SendNumber(k)
      BY <1>1, <3>1, SendNumberView DEF Ends
    <3>2. CASE SendPack(k)
      BY <1>1, <3>2, SendPackView DEF Ends
    <3>3. CASE SendWrite(k)
      BY <1>1, <3>3, SendWriteView DEF Ends
    <3>4. QED
      BY <2>2, <3>1, <3>2, <3>3 DEF SendStep
  <2>3. QED
    BY <2>1, <2>2, StepAt DEF Test, SerialAt, KeyAt, DeviceAt, RtcAt, WifiAt, BtAt
<1>5. CASE th[k].at = "rtcOpen" /\ ~RtcOpen(k)
  <2>1. DeviceStep(k)
    BY <1>5, StepAt DEF Command, Test, Dispatch, Stop, Turn, At, SerialAt, KeyAt, WifiAt, BtAt, Ends
  <2>2. QED
    BY <1>5, <2>1 DEF DeviceStep, Device, Dies, PipeBreaks, NotANumber, DeviceItem, DeviceEnds, Lamp, RtcSet,
       RtcGet, RtcClose, At
<1>6. QED
  BY <1>3, <1>4, <1>5 DEF RtcAt, RtcRange, Ends

\* Two tests that work with the clock at a time have met.
LEMMA RtcRacesStep ==
  ASSUME Typed, NEW k \in DOMAIN plan, plan' = plan, Command(k) \/ Test(k), RtcRaces
  PROVE  RtcRaces'
<1>1. DOMAIN th = DOMAIN plan /\ \A j \in DOMAIN plan : j # k => th'[j] = th[j]
  BY StepControl DEF Typed, Shape, Turns
<1>2. clockRaced \subseteq clockRaced'
  BY MemberSteps
<1>3. ASSUME NEW j \in DOMAIN plan, j # k, th'[j].at \in RtcRange, th'[k].at \in RtcRange
      PROVE  {j, k} \subseteq clockRaced'
  <2>1. th[j].at \in RtcRange
    BY <1>1, <1>3
  <2>2. CASE RtcOpen(k)
    <3>1. j \in RtcOthers(k)
      BY <1>1, <1>3, <2>1 DEF RtcOthers, RtcRange
    <3>2. QED
      BY <2>2, <3>1 DEF RtcOpen
  <2>3. CASE th[k].at \in RtcRange
    BY <1>2, <1>3, <2>1, <2>3 DEF RtcRaces
  <2>4. QED
    BY <1>3, <2>2, <2>3, RtcSteps
<1>4. ASSUME NEW i \in DOMAIN plan', NEW j \in DOMAIN plan', i # j,
             th'[i].at \in RtcRange, th'[j].at \in RtcRange
      PROVE  {i, j} \subseteq clockRaced'
  <2>1. CASE i = k
    BY <1>3, <1>4, <2>1
  <2>2. CASE j = k
    BY <1>3, <1>4, <2>2
  <2>3. CASE i # k /\ j # k
    BY <1>1, <1>2, <1>4, <2>3 DEF RtcRaces
  <2>4. QED
    BY <2>1, <2>2, <2>3
<1>5. QED
  BY <1>4 DEF RtcRaces

\* What another test holds keeps its file.
LEMMA OthersOwn ==
  ASSUME Shape, NEW k \in DOMAIN plan, Turns(k), plan' = plan, NEW j \in DOMAIN plan, j # k
  PROVE  \A n : n \in OwnedBy(j)' => n \in OwnedBy(j) /\ fds'[n] = fds[n]
<1>1. CASE Keeps
  BY <1>1 DEF Keeps, OwnedBy, Opened
<1>2. CASE \E file : Takes(k, file)
  BY <1>2 DEF Takes, OwnedBy, Opened
<1>3. CASE \E ns : Drops(ns)
  BY <1>3 DEF Drops, OwnedBy, Opened
<1>4. QED
  BY <1>1, <1>2, <1>3 DEF Turns

\* A test that met no other is as honest as before.
LEMMA OthersHonest ==
  ASSUME Typed, BtRaces, RtcRaces, NEW k \in DOMAIN plan, plan' = plan, Command(k) \/ Test(k),
         NEW j \in DOMAIN plan, j # k, Honest(j)
  PROVE  Honest(j)'
<1>1. Shape /\ DOMAIN th = DOMAIN plan /\ th'[j] = th[j] /\ Turns(k) /\ DOMAIN th[k] = Fields
  BY StepControl DEF Typed, Shape, Turns
<1>2. SUFFICES ASSUME ~Raced(j)' PROVE Honest(j)'
  BY DEF Honest
<1>3. ~Raced(j) /\ MembersOf(j) /\ PortsOf(j) /\ VerdictsOf(j)
  BY <1>2, MemberSteps DEF Honest, Raced
<1>4. MembersOf(j)'
  <2>1. th[j].at = "config" => serialFd' = serialFd
    <3>1. ASSUME th[j].at = "config", SerialOpen(k) PROVE FALSE
      <4>1. j \in Opening
        BY <1>1, <3>1 DEF Opening
      <4>2. QED
        BY <1>2, <3>1, <4>1 DEF SerialOpen, Raced
    <3>2. QED
      BY <3>1, MemberSteps
  <2>2. th[j].at \in RtcRange => rtcFd' = rtcFd
    <3>1. ASSUME th[j].at \in RtcRange, RtcOpen(k) PROVE FALSE
      <4>1. j \in RtcOthers(k)
        BY <1>1, <3>1 DEF RtcOthers, RtcRange
      <4>2. QED
        BY <1>2, <3>1, <4>1 DEF RtcOpen, Raced
    <3>2. QED
      BY <3>1, MemberSteps
  <2>3. th[j].at = "rtcGet" => clockBy' = clockBy
    <3>1. ASSUME th[j].at = "rtcGet", RtcSet(k) PROVE FALSE
      <4>1. th[k].at = "rtcSet"
        BY <3>1 DEF RtcSet, At
      <4>2. j \in clockRaced
        BY <3>1, <4>1 DEF RtcRaces, RtcRange
      <4>3. QED
        BY <1>3, <4>2 DEF Raced
    <3>2. QED
      BY <3>1, MemberSteps
  <2>4. \A n : n \in OwnedBy(j)' => n \in OwnedBy(j) /\ fds'[n] = fds[n]
    BY <1>1, OthersOwn
  <2>5. QED
    BY <1>1, <1>3, <2>1, <2>2, <2>3, <2>4 DEF MembersOf, RtcRange
<1>5. PortsOf(j)'
  <2>1. /\ OnLine(j)' = OnLine(j) /\ (AtLine(j)' <=> AtLine(j)) /\ (Caused(j)' <=> Caused(j))
        /\ (\A x : Passed(j, x)' <=> Passed(j, x)) /\ \A x, y : Reaches(j, x, y)' <=> Reaches(j, x, y)
    BY <1>1 DEF OnLine, AtLine, Caused, Passed, Reaches
  <2>2. QED
    BY <1>1, <1>3, <2>1 DEF PortsOf
<1>6. VerdictsOf(j)'
  <2>1. th[j].at = "btResult" => btCount' = btCount \/ ~(btCount' > 0)
    <3>1. ASSUME th[j].at = "btResult", BtInquiry(k) PROVE FALSE
      <4>1. th[k].at = "btInquiry"
        BY <3>1 DEF BtInquiry, At
      <4>2. j \in btRaced
        BY <3>1, <4>1 DEF BtRaces, BtRange
      <4>3. QED
        BY <1>3, <4>2 DEF Raced
    <3>2. BtFree(k) => btCount' = -1
      BY DEF BtFree
    <3>3. QED
      BY <3>1, <3>2, MemberSteps
  <2>2. /\ Promised(j)' => Promised(j)
        /\ Denied(j)' <=> Denied(j)
        /\ Caused(j)' <=> Caused(j)
        /\ \A x : Fair(j, x)' <=> Fair(j, x)
    BY <1>1, <2>1 DEF Promised, Denied, Caused, Fair, Crowded, Alone
  <2>3. QED
    BY <1>1, <1>3, <2>2 DEF VerdictsOf
<1>7. QED
  BY <1>4, <1>5, <1>6 DEF Honest
\* A test of the clock that closes its number twice has done so for good.
LEMMA TwiceStays ==
  ASSUME Typed, NEW k \in DOMAIN plan, plan' = plan, Command(k) \/ Test(k), ClosesTwice(k)
  PROVE  ClosesTwice(k)'
<1>1. /\ k \in DOMAIN th /\ DOMAIN th[k] = Fields /\ Shape /\ Control(k) /\ plan[k].test = "rtc"
      /\ th[k].at \in {"idle"} \cup RtcAt \cup Ends
  BY DEF Typed, Shape, Control, ControlOf, Points, ClosesTwice
<1>2. CASE th[k].at = "idle"
  <2>1. th[k].items = <<>>
    BY <1>1, <1>2 DEF Control, ControlOf, Fresh
  <2>2. QED
    BY <1>2, <2>1 DEF ClosesTwice, Failed
<1>3. CASE th[k].at \in Ends
  <2>1. SendStep(k)
    BY <1>3, StepAt DEF Command, Test, Dispatch, Stop, Turn, At, SerialAt, KeyAt, DeviceAt, RtcAt, WifiAt,
       BtAt, Ends
  <2>2. th'[k].items = th[k].items
    BY <1>1, <2>1, SendControl
  <2>3. QED
    BY <1>3, <2>2 DEF ClosesTwice, Failed, Ends
<1>4. CASE th[k].at \in RtcAt
  <2>1. Len(th[k].items) = 0 /\ th[k].items \in Seq(Verdicts)
    <3>1. Len(plan[k].items) = 1 /\ th[k].item <= Len(plan[k].items) /\ th[k].item = Len(th[k].items) + 1
          /\ th[k].items \in Seq(Verdicts)
      BY <1>1, <1>4, PlanItems DEF Shape, Control, ControlOf, ItemsOf, AtItem
    <3>2. Len(th[k].items) \in Nat
      BY <3>1
    <3>3. QED
      BY <3>1, <3>2
  <2>2. Failed(k) = {}
    BY <2>1 DEF Failed
  <2>3. th[k].at = "rtcClose" /\ ~th[k].ok
    BY <2>2 DEF ClosesTwice
  <2>4. DeviceStep(k)
    BY <2>3, StepAt DEF Command, Test, Dispatch, Stop, Turn, At, SerialAt, KeyAt, WifiAt, BtAt, Ends
  <2>5. RtcClose(k)
    BY <2>3, <2>4 DEF DeviceStep, Device, Dies, PipeBreaks, NotANumber, DeviceItem, DeviceEnds, Lamp, RtcOpen,
       RtcSet, RtcGet, At
  <2>6. th'[k].items = Append(th[k].items, "NG")
    BY <1>1, <2>3, <2>5, RtcCloseView DEF RtcCloseWay1, RtcCloseWay2, Judges
  <2>7. 1 \in DOMAIN th'[k].items /\ th'[k].items[1] = "NG"
    BY <2>1, <2>6, AppendSeq DEF Verdicts
  <2>8. QED
    BY <1>1, <2>7 DEF ClosesTwice, Failed
<1>5. QED
  BY <1>1, <1>2, <1>3, <1>4

\* If no test met another after a step, none had before.
LEMMA UnmixedStep ==
  ASSUME Typed, NEW k \in DOMAIN plan, plan' = plan, Command(k) \/ Test(k), Unmixed'
  PROVE  Unmixed
<1>1. ASSUME NEW j \in DOMAIN plan PROVE ~Raced(j) /\ ~ClosesTwice(j)
  <2>1. ~Raced(j)' /\ ~ClosesTwice(j)'
    BY DEF Unmixed
  <2>2. ~Raced(j)
    BY <2>1, MemberSteps DEF Raced
  <2>3. j # k => th'[j] = th[j]
    BY StepControl DEF Typed, Shape, Turns
  <2>4. ~ClosesTwice(j)
    BY <2>1, <2>3, TwiceStays DEF ClosesTwice, Failed
  <2>5. QED
    BY <2>2, <2>4
<1>2. QED
  BY <1>1 DEF Unmixed

\* What a thread holds depends on its own locals only.
LEMMA HoldsSame ==
  ASSUME NEW j, th'[j] = th[j]
  PROVE  \A n : Holds(j, n)' <=> Holds(j, n)
  BY DEF Holds, AtLine, FdAt, Ports, PortFds, Usable

\* The tests go on owning what they hold.
LEMMA OwnedStep ==
  ASSUME Typed, Owned, NEW k \in DOMAIN plan, plan' = plan, Command(k) \/ Test(k), Handles(k), Parts(k)
  PROVE  Owned'
<1>1. Shape /\ DOMAIN th = DOMAIN plan /\ DOMAIN fds = 0 .. MaxFd - 1 /\ Turns(k)
      /\ \A j \in DOMAIN plan : j # k => th'[j] = th[j]
  BY StepControl DEF Typed, Shape, Turns
<1>2. SUFFICES ASSUME Unmixed' PROVE Owned'
  BY DEF Owned
<1>3. /\ \A j \in DOMAIN plan : /\ "stray" \notin th[j].met /\ Apart(j)
                                /\ \A n : Holds(j, n) => Astray(j, n) = {}
      /\ ~ClosesTwice(k)'
  BY <1>2, UnmixedStep DEF Owned, Unmixed
<1>4. \A j \in DOMAIN plan : \A n : Holds(j, n) => ~(n >= 0) \/ n \in OwnedBy(j)
  BY <1>3 DEF Astray
<1>5. (\E file : Takes(k, file)) => /\ Lowest \in DOMAIN fds /\ Lowest >= 0 /\ Lowest \notin Opened
  BY <1>1, LowestFree, MaxFdAssumption DEF Takes
<1>6. "stray" \notin th'[k].met
  BY <1>3 DEF Handles
<1>7. Apart(k)'
  <2>1. ASSUME NEW n \in {Lowest}, \E file : Takes(k, file), Holds(k, n) PROVE FALSE
    BY <1>4, <1>5, <2>1 DEF OwnedBy
  <2>2. QED
    BY <1>3, <2>1 DEF Parts
<1>8. ASSUME NEW n, Holds(k, n)' PROVE Astray(k, n)' = {}
  <2>1. SUFFICES ASSUME n >= 0 PROVE n \in OwnedBy(k)'
    BY DEF Astray
  <2>2. CASE Keeps /\ Moves(k, {})
    BY <1>4, <1>8, <2>1, <2>2 DEF Moves, Keeps, OwnedBy, Opened
  <2>3. CASE (\E file : Takes(k, file)) /\ Moves(k, {Lowest})
    <3>1. CASE n = Lowest
      <4>1. n \in DOMAIN fds' /\ fds'[n].by = k /\ fds'[n] # Closed
        <5>1. PICK file : Takes(k, file)
          BY <2>3
        <5>2. k \in Nat
          BY <1>1, PlanIndices DEF Shape
        <5>3. n \in DOMAIN fds' /\ fds'[n].by = k
          BY <1>5, <3>1, <5>1 DEF Takes
        <5>4. QED
          BY <5>2, <5>3, NoneAssumption DEF Closed
      <4>2. QED
        BY <4>1 DEF OwnedBy, Opened
    <3>2. CASE n # Lowest
      <4>1. Holds(k, n)
        BY <1>8, <2>1, <2>3, <3>2 DEF Moves
      <4>2. n \in OwnedBy(k)
        BY <1>4, <2>1, <4>1
      <4>3. QED
        BY <2>3, <3>2, <4>2 DEF Takes, OwnedBy, Opened
    <3>3. QED
      BY <3>1, <3>2
  <2>4. ASSUME NEW ns, Drops(ns), Moves(k, ns),
               \A m \in ns : Holds(k, m) /\ (Holds(k, m)' => m = -1 \/ ClosesTwice(k)' \/ ~Apart(k))
        PROVE  n \in OwnedBy(k)'
    <3>1. n \notin ns
      BY <1>3, <1>8, <2>1, <2>4
    <3>2. Holds(k, n)
      BY <1>8, <2>1, <2>4, <3>1 DEF Moves
    <3>3. n \in OwnedBy(k)
      BY <1>4, <2>1, <3>2
    <3>4. QED
      BY <2>4, <3>1, <3>3 DEF Drops, OwnedBy, Opened
  <2>5. QED
    BY <2>2, <2>3, <2>4 DEF Handles
<1>9. ASSUME NEW j \in DOMAIN plan, j # k, NEW n, Holds(j, n)' PROVE Astray(j, n)' = {}
  <2>1. SUFFICES ASSUME n >= 0 PROVE n \in OwnedBy(j)'
    BY DEF Astray
  <2>2. n \in OwnedBy(j)
    BY <1>1, <1>4, <1>9, <2>1, HoldsSame
  <2>3. CASE Keeps
    BY <2>2, <2>3 DEF Keeps, OwnedBy, Opened
  <2>4. CASE \E file : Takes(k, file)
    BY <1>5, <2>2, <2>4 DEF Takes, OwnedBy, Opened
  <2>5. ASSUME NEW ns, Drops(ns), \A m \in ns : Holds(k, m)
        PROVE  n \in OwnedBy(j)'
    <3>1. n \notin ns
      BY <1>4, <1>9, <2>1, <2>2, <2>5 DEF OwnedBy
    <3>2. QED
      BY <2>2, <2>5, <3>1 DEF Drops, OwnedBy, Opened
  <2>6. QED
    BY <2>3, <2>4, <2>5 DEF Handles
<1>10. ASSUME NEW j \in DOMAIN plan'
       PROVE  "stray" \notin th'[j].met /\ Apart(j)' /\ \A n : Holds(j, n)' => Astray(j, n)' = {}
  <2>1. CASE j = k
    BY <1>6, <1>7, <1>8, <2>1
  <2>2. CASE j # k
    <3>1. Apart(j)'
      BY <1>1, <1>3, <1>10, <2>2 DEF Apart, PortFds, Usable
    <3>2. QED
      BY <1>1, <1>3, <1>9, <1>10, <2>2, <3>1
  <2>3. QED
    BY <2>1, <2>2
<1>11. QED
  BY <1>10 DEF Owned

\* What is open is still held, or was left open by a test that leaves some.
LEMMA KeptStep ==
  ASSUME Typed, Kept, NEW k \in DOMAIN plan, plan' = plan, Command(k) \/ Test(k), Raced(k) \/ Handles(k)
  PROVE  Kept'
<1>1. Shape /\ DOMAIN th = DOMAIN plan /\ DOMAIN fds = 0 .. MaxFd - 1 /\ Turns(k)
      /\ \A j \in DOMAIN plan : j # k => th'[j] = th[j]
  BY StepControl DEF Typed, Shape, Turns
<1>2. \A j : (Raced(j) => Raced(j)') /\ (Leaky(j)' <=> Leaky(j))
  BY MemberSteps DEF Raced, Leaky
<1>3. SUFFICES ASSUME NEW n \in Opened', NEW o, o = fds'[n].by, ~Leaky(o)', ~Raced(o)'
               PROVE  Holds(o, n)'
  BY DEF Kept
<1>4. /\ n \in DOMAIN fds' /\ DOMAIN fds' = DOMAIN fds /\ fds'[n] # Closed
      /\ n \in DOMAIN fds /\ n # -1
  <2>1. DOMAIN fds' = DOMAIN fds
    BY <1>1 DEF Turns, Keeps, Takes, Drops
  <2>2. n \in DOMAIN fds' /\ fds'[n] # Closed
    BY <1>3 DEF Opened
  <2>3. QED
    BY <1>1, <2>1, <2>2
<1>5. CASE fds'[n] = fds[n] /\ o # k
  <2>1. n \in Opened /\ fds[n].by = o
    BY <1>3, <1>4, <1>5 DEF Opened
  <2>2. Holds(o, n) /\ o \in DOMAIN plan
    BY <1>1, <1>2, <1>3, <2>1 DEF Kept, Shape, Opened
  <2>3. QED
    BY <1>1, <1>5, <2>2, HoldsSame
<1>6. CASE o = k
  <2>1. Handles(k) /\ ~Leaky(k)
    BY <1>2, <1>3, <1>6
  <2>2. n \in Opened /\ fds'[n] = fds[n] => Holds(k, n)
    BY <1>2, <1>3, <1>6 DEF Kept
  <2>3. CASE Keeps /\ Moves(k, {})
    BY <1>4, <1>6, <2>1, <2>2, <2>3 DEF Keeps, Moves, Opened
  <2>4. CASE (\E file : Takes(k, file)) /\ Moves(k, {Lowest}) /\ \A m \in {Lowest} : Leaky(k) \/ Holds(k, m)'
    <3>1. CASE n = Lowest
      BY <1>6, <2>1, <2>4, <3>1
    <3>2. CASE n # Lowest
      <4>1. fds'[n] = fds[n]
        BY <1>4, <2>4, <3>2 DEF Takes
      <4>2. QED
        BY <1>4, <1>6, <2>1, <2>2, <2>4, <3>2, <4>1 DEF Moves, Opened
    <3>3. QED
      BY <3>1, <3>2
  <2>5. ASSUME NEW ns, Drops(ns), Moves(k, ns) PROVE Holds(k, n)'
    <3>1. n \notin ns /\ fds'[n] = fds[n]
      BY <1>4, <2>5 DEF Drops
    <3>2. QED
      BY <1>4, <2>1, <2>2, <2>5, <3>1 DEF Moves, Opened
  <2>6. QED
    BY <1>6, <2>1, <2>3, <2>4, <2>5 DEF Handles
<1>7. fds'[n] = fds[n] \/ o = k
  BY <1>1, <1>3, <1>4 DEF Turns, Keeps, Takes, Drops
<1>8. QED
  BY <1>5, <1>6, <1>7
-----------------------------------------------------------------------------
(***************************************************************************)
(* What the tests hold and what they say.                                  *)
(***************************************************************************)
\* Nothing is held and nothing is said at the start.
LEMMA KindlyInit ==
  ASSUME Init
  PROVE  Kindly
<1>1. DOMAIN th = DOMAIN plan /\ \A k \in DOMAIN plan : th[k] = Fresh
  BY DEF Init
<1>2. \A k \in DOMAIN plan : th[k].at = "idle" /\ th[k].items = <<>> /\ th[k].met = {}
  BY <1>1 DEF Fresh
<1>3. Opened = {}
  BY DEF Init, Opened
<1>4. ASSUME NEW k \in DOMAIN plan
      PROVE  /\ "stray" \notin th[k].met /\ Apart(k) /\ Honest(k) /\ \A n : ~Holds(k, n)
  BY <1>2 DEF Apart, Honest, MembersOf, PortsOf, VerdictsOf, Promised, Denied, Holds, FdAt, RtcRange, AtLine
<1>5. RtcRaces
  BY <1>2 DEF RtcRaces, RtcRange
<1>6. QED
  BY <1>3, <1>4, <1>5 DEF Kindly, Owned, Kept

\* A step of one thread leaves all of them with what they hold and said.
LEMMA KindlyStep ==
  ASSUME Typed, Ended, Kindly, NEW k \in DOMAIN plan, plan' = plan, Command(k) \/ Test(k)
  PROVE  Kindly'
<1>1. Raced(k) \/ Fares(k)
  BY StepFares DEF Kindly, Honest
<1>2. RtcRaces'
  BY RtcRacesStep DEF Kindly
<1>3. Kept'
  BY <1>1, KeptStep DEF Kindly, Fares
<1>4. Owned'
  <2>1. Raced(k) => Owned'
    <3>1. Raced(k) => Raced(k)'
      BY MemberSteps DEF Raced
    <3>2. QED
      BY <3>1 DEF Owned, Unmixed
  <2>2. QED
    BY <1>1, <2>1, OwnedStep DEF Kindly, Fares
<1>5. ASSUME NEW j \in DOMAIN plan' PROVE Honest(j)'
  <2>1. CASE j = k
    <3>1. Raced(k) => Raced(k)'
      BY MemberSteps DEF Raced
    <3>2. QED
      BY <1>1, <2>1, <3>1 DEF Honest, Fares
  <2>2. CASE j # k
    BY <1>5, <2>2, OthersHonest DEF Kindly, Ended
  <2>3. QED
    BY <2>1, <2>2
<1>6. QED
  BY <1>2, <1>3, <1>4, <1>5 DEF Kindly

\* And so does a step that changes nothing.
LEMMA KindlyStutter ==
  ASSUME Typed, Kindly, UNCHANGED vars
  PROVE  Kindly'
<1>1. /\ plan' = plan /\ th' = th /\ fds' = fds /\ serialFd' = serialFd /\ rtcFd' = rtcFd
      /\ clockBy' = clockBy /\ btCount' = btCount
      /\ raced' = raced /\ clockRaced' = clockRaced /\ btRaced' = btRaced
  BY DEF vars, base, serialVars, rtcVars, radioVars
<1>2. ASSUME NEW k \in DOMAIN plan PROVE Honest(k)'
  <2>1. Raced(k)' <=> Raced(k)
    BY <1>1 DEF Raced
  <2>2. CASE ~Raced(k)
    <3>1. Ready(k)
      BY <1>1, <2>2 DEF Typed, Kindly, Honest, Ready
    <3>2. QED
      BY <1>1, <3>1, StandsFare DEF Keeps, Fares, Honest
  <2>3. QED
    BY <2>1, <2>2 DEF Honest
<1>3. /\ Opened' = Opened /\ \A k : (Raced(k)' <=> Raced(k)) /\ (Leaky(k)' <=> Leaky(k))
      /\ \A k : (ClosesTwice(k)' <=> ClosesTwice(k)) /\ (Apart(k)' <=> Apart(k))
      /\ \A k : \A n : (Holds(k, n)' <=> Holds(k, n)) /\ Astray(k, n)' = Astray(k, n)
  BY <1>1 DEF Opened, Raced, Leaky, ClosesTwice, Failed, Apart, Holds, AtLine, FdAt, Ports, PortFds, Usable,
     Astray, OwnedBy
<1>4. Unmixed' <=> Unmixed
  BY <1>1, <1>3 DEF Unmixed
<1>5. Owned'
  BY <1>1, <1>3, <1>4 DEF Kindly, Owned
<1>6. Kept'
  BY <1>1, <1>3 DEF Kindly, Kept
<1>7. RtcRaces'
  BY <1>1 DEF Kindly, RtcRaces
<1>8. QED
  BY <1>1, <1>2, <1>5, <1>6, <1>7 DEF Kindly

\* The inductive invariant behind it: a test that met no other on a member of
\* the board finds its own number there, hears only its own ports, and has a
\* reason for every verdict given or about to be given; and no test holds a
\* descriptor of another one, unless some met or the clock failed.
THEOREM TrustInductive == Spec => [](Typed /\ Ended /\ Kindly)
<1>1. Init => Typed /\ Ended /\ Kindly
  BY TypedInit, EndedInit, KindlyInit
<1>2. Typed /\ Ended /\ Kindly /\ [Next]_vars => (Typed /\ Ended /\ Kindly)'
  BY NextSteps, TypedStep, TypedStutter, EndedStep, EndedStutter, KindlyStep, KindlyStutter
<1>3. QED
  BY <1>1, <1>2, PTL DEF Spec

\* An item is OK only if its device was seen to work in this test, but for the
\* known exceptions.
THEOREM OKsAreTrue == Spec => []OKMeansWorks
<1>1. Kindly => OKMeansWorks
  BY DEF Kindly, Honest, VerdictsOf, Fair, OKMeansWorks
<1>2. QED
  BY <1>1, TrustInductive, PTL

\* A test uses its own descriptors, as long as it runs, and leaves none behind.
THEOREM DescriptorsAreKept == Spec => []DescriptorsKept
<1>1. Typed /\ Kindly => DescriptorsKept
  <2>1. ASSUME Typed, Kindly PROVE DescriptorsKept
    <3>1. OwnDescriptors
      BY <2>1 DEF Kindly, Owned, Unmixed, OwnDescriptors
    <3>2. ASSUME AllDone, NEW n \in Opened
          PROVE  plan[fds[n].by].test \in {"key", "gpio"} \/ Raced(fds[n].by)
      <4>1. DOMAIN th = DOMAIN plan /\ fds[n].by \in DOMAIN plan
        BY <2>1, <3>2 DEF Typed, Shape, Opened
      <4>2. th[fds[n].by].at = "done"
        BY <3>2, <4>1 DEF AllDone
      <4>3. ~Holds(fds[n].by, n)
        BY <4>2 DEF Holds, FdAt, AtLine
      <4>4. QED
        BY <2>1, <3>2, <4>3 DEF Kindly, Kept, Leaky
    <3>3. QED
      BY <3>1, <3>2 DEF LeaksKnown, DescriptorsKept
  <2>2. QED
    BY <2>1
<1>2. QED
  BY <1>1, TrustInductive, PTL

\* An item gets NG only after something failed in its last attempt, but for the
\* known exceptions.
THEOREM NGsHaveCauses == Spec => NGHasCause
<1> DEFINE Step == \A k \in DOMAIN plan : \A x \in Failed(k)' \ Failed(k) :
                     th[k].met' \cap Causes # {} \/ Raced(k)' \/ Crowded(k, x)
<1>1. Typed /\ Ended /\ Kindly /\ [Next]_vars => [Step]_vars
  <2>1. SUFFICES ASSUME Typed, Ended, Kindly, NEW k \in DOMAIN plan, plan' = plan, Command(k) \/ Test(k)
                 PROVE  Step
    BY NextSteps
  <2>2. \A j \in DOMAIN plan : j # k => th'[j] = th[j]
    BY <2>1, StepControl DEF Typed, Shape, Turns
  <2>3. ASSUME NEW j \in DOMAIN plan, NEW x \in Failed(j)' \ Failed(j)
        PROVE  th[j].met' \cap Causes # {} \/ Raced(j)' \/ Crowded(j, x)
    <3>1. j = k
      BY <2>2, <2>3 DEF Failed
    <3>2. CASE Raced(k)
      BY <2>1, <3>1, <3>2, MemberSteps DEF Raced
    <3>3. CASE ~Raced(k)
      <4>1. Blamed(k)
        BY <2>1, <3>3, StepFares DEF Kindly, Honest, Fares
      <4>2. x \in DOMAIN th'[k].items /\ th'[k].items[x] = "NG"
            /\ ~(x \in DOMAIN th[k].items /\ th'[k].items[x] = th[k].items[x])
        BY <2>3, <3>1 DEF Failed
      <4>3. QED
        BY <3>1, <4>1, <4>2 DEF Blamed, Caused
    <3>4. QED
      BY <3>2, <3>3
  <2>4. QED
    BY <2>3
<1>2. QED
  BY <1>1, TrustInductive, PTL DEF Spec, NGHasCause
=============================================================================
