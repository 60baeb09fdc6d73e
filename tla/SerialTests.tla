----------------------------- MODULE SerialTests -----------------------------
(***************************************************************************)
(* serial_test (TaskHandler.cpp) and the ports it tests (Serial.cpp).  An  *)
(* item is a loop-back port "232", a port with a partner that answers      *)
(* ("485" and "can", mode 2), a port on a common line ("bus485", "busCan", *)
(* mode 0), another ("other") or one not enabled ("off").  Ports on a line *)
(* are tested together, after the others.  openSerial() keeps the          *)
(* descriptor in a member that all tests of the board share.               *)
(***************************************************************************)
EXTENDS Descriptors

CONSTANTS Retries, \* reCount: 3
          Rounds,  \* testCount: 10
          Probes   \* exchanges with a partner: 20 on RS485, 3 on CAN

ASSUME SerialAssumption == Retries \in Nat /\ {Rounds, Probes} \subseteq Nat \ {0}

VARIABLES serialFd, \* Serial::fd
          raced     \* history: tests whose openSerial() overlapped another's

serialVars == <<serialFd, raced>>

Lines == <<"bus485", "busCan">>
OnLine(k) == {x \in DOMAIN plan[k].items : plan[k].items[x] = Lines[th[k].line]}
\* The ports of a line are opened in the order of the list.
NextPort(k) == Least(OnLine(k) \ DOMAIN th[k].ports)
Port(k) == <<k, IF th[k].line = 0 THEN th[k].item ELSE NextPort(k)>>
SerialFresh == [Fresh EXCEPT !.at = "serial", !.result = "none"]
-----------------------------------------------------------------------------
\* The loop over the items: ports on a line are only collected.
SerialItem(k) ==
  /\ At(k, "serial") /\ UNCHANGED serialVars
  /\ \/ /\ MoreItems(k) /\ Item(k) \in {"232", "485", "can"}
        /\ Local(k, Forgets([th[k] EXCEPT !.at = IF Item(k) = "can" THEN "openCan" ELSE "open",
                                          !.try = 0]))
     \/ /\ MoreItems(k) /\ Item(k) \notin {"232", "485", "can"}
        /\ Local(k, Judged(th[k], IF Item(k) = "off" THEN "SKIP" ELSE "none"))
     \/ ~MoreItems(k) /\ Local(k, [th[k] EXCEPT !.at = "line", !.line = 1])

\* The attempt at a port has failed: one more, or the item is NG.
NotGood(k) == To(Judged([th[k] EXCEPT !.fd = -1], "NG"), "serial")
TryAgain(k) == IF th[k].try < Retries THEN [th[k] EXCEPT !.at = "again", !.fd = -1] ELSE NotGood(k)

\* Who called openSerial() goes on with the descriptor it returned.
AddPort(k, n, up) ==
  LET x == DOMAIN th[k].ports \cup {NextPort(k)}
      Added(f, v) == [y \in x |-> IF y = NextPort(k) THEN v ELSE f[y]]
  IN [th[k] EXCEPT !.at = "lineOpen", !.fd = n, !.ports = Added(@, n),
                   !.send = Added(@, up), !.recv = Added(@, up)]
Returned(k, n) ==
  CASE th[k].line = 1 -> AddPort(k, n, n # -1)
    [] th[k].line = 0 /\ n # -1 ->
         [th[k] EXCEPT !.at = IF Item(k) = "232" THEN "echo" ELSE "probe", !.n = 0, !.fd = n]
    [] th[k].line = 0 /\ n = -1 -> IF Item(k) = "232" THEN TryAgain(k) ELSE NotGood(k)

\* openSerial(): the member is set here ...
Opening == {j \in DOMAIN th : th[j].at = "config"}
SerialOpen(k) ==
  /\ At(k, "open")
  /\ Open(k, Port(k), To(th[k], "config"), Returned(k, -1))
  /\ serialFd' = th'[k].fd
  /\ raced' = IF Opening = {} THEN raced ELSE raced \cup Opening \cup {k}

\* ... and read again for the attributes of the port and the return.
\* A bug: a port that cannot be configured stays open.
SerialConfigLeaks(k) ==
  /\ At(k, "config")
  /\ \/ Works(k, serialFd, Returned(k, serialFd))
     \/ Fails(k, serialFd, Returned(k, -1))
  /\ UNCHANGED serialVars
SerialConfig(k) ==
  /\ At(k, "config")
  /\ \/ Works(k, serialFd, Returned(k, serialFd))
     \/ FailsAndCloses(k, serialFd, Returned(k, -1))
  /\ UNCHANGED serialVars
\* Of attributes that cannot be set the message gives the baud rate, a
\* number, where it says %s: the process dies.
SerialConfigDies(k) ==
  /\ At(k, "config") /\ serialFd \in Opened
  /\ alive' = FALSE
  /\ UNCHANGED <<th, fds, serialVars>>

\* What came through the port of the item was seen to work, if it is that port.
Answered(k) ==
  LET t == [th[k] EXCEPT !.at = "closePort", !.ok = TRUE]
  IN IF fds[th[k].fd].file = Port(k) THEN Shows(t, th[k].item) ELSE t
Unanswered(k, ok) == [th[k] EXCEPT !.at = "closePort", !.ok = ok]

\* serialTest(): what is written comes back, Rounds times.
Echo(k) ==
  /\ At(k, "echo") /\ UNCHANGED serialVars
  /\ \/ th[k].n + 1 # Rounds /\ Works(k, th[k].fd, [th[k] EXCEPT !.n = @ + 1])
     \/ th[k].n + 1 = Rounds /\ Works(k, th[k].fd, Answered(k))
     \/ Fails(k, th[k].fd, Unanswered(k, FALSE))
ClosePort(k) ==
  /\ At(k, "closePort") /\ UNCHANGED serialVars
  /\ Close(k, th[k].fd,
           IF th[k].ok THEN To(Judged([th[k] EXCEPT !.fd = -1], "OK"), "serial")
           ELSE IF Item(k) = "232" THEN TryAgain(k) ELSE NotGood(k))

\* open_can_device(): link, socket, address; a failure leaves nothing open.
OpenCan(k) ==
  /\ At(k, "openCan") /\ UNCHANGED serialVars
  /\ Open(k, Port(k), [th[k] EXCEPT !.at = "probe", !.n = 0], NotGood(k))

\* Exchanges with a partner, Probes at most: one answer is enough.
Exchanges(k, unanswered) ==
  /\ UNCHANGED serialVars
  /\ \/ Works(k, th[k].fd, Answered(k))
     \/ th[k].n + 1 < Probes /\ Fails(k, th[k].fd, [th[k] EXCEPT !.n = @ + 1])
     \/ /\ th[k].n + 1 = Probes
        /\ \E ok \in unanswered : Fails(k, th[k].fd, Unanswered(k, ok))
\* A bug: can_test() has no return at its end either.
CanTestUnset(k) == At(k, "probe") /\ Item(k) = "can" /\ Exchanges(k, BOOLEAN)
CanTest(k) == At(k, "probe") /\ Item(k) = "can" /\ Exchanges(k, {FALSE})
\* serial_485_test() has no return at its end: any result.
Rs485Test(k) == At(k, "probe") /\ Item(k) = "485" /\ Exchanges(k, BOOLEAN)
-----------------------------------------------------------------------------
\* The lines, RS485 and then CAN: with one port on a line the results of
\* the test are empty, and reading the first of them ends the process.
NewAttempt(t, line) ==
  [t EXCEPT !.ports = <<>>, !.send = <<>>, !.recv = <<>>, !.n = 0,
            !.queue = [x \in line |-> 0], !.reached = {}, !.lost = {}, !.tested = {}]
LineBegin(k) ==
  /\ At(k, "line") /\ th[k].line <= 2 /\ Cardinality(OnLine(k)) # 1 /\ UNCHANGED serialVars
  /\ Local(k, IF OnLine(k) = {} THEN [th[k] EXCEPT !.line = @ + 1]
              ELSE Forgets(NewAttempt([th[k] EXCEPT !.at = "lineOpen", !.try = 0], OnLine(k))))
LineOfOne(k) ==
  /\ At(k, "line") /\ th[k].line <= 2 /\ Cardinality(OnLine(k)) = 1
  /\ alive' = FALSE
  /\ UNCHANGED <<th, fds, serialVars>>
SerialAnswer(k) ==
  /\ At(k, "line") /\ th[k].line = 3
  /\ Answers(k) /\ UNCHANGED serialVars

\* Ports of the RS485 line by openSerial(); of the CAN line link and socket,
\* the latter also when the link could not be set up.
LineOpen(k) ==
  /\ At(k, "lineOpen") /\ UNCHANGED serialVars
  /\ IF OnLine(k) \subseteq DOMAIN th[k].ports THEN Local(k, To(th[k], "exchange"))
     ELSE IF th[k].line = 1 THEN Local(k, To(th[k], "open"))
     ELSE \E up \in BOOLEAN :
            Open(k, Port(k), Meets(AddPort(k, Lowest, up), IF up THEN {} ELSE {"fault"}),
                 AddPort(k, -1, FALSE))

\* Every open port sends to every other one, Rounds times, pair after pair;
\* the field n counts the rounds.
Usable(k) == {x \in DOMAIN th[k].ports : th[k].ports[x] # -1}
\* A bug: a port is paired with itself.
PairsWithSelf(k) == Usable(k) \X Usable(k)
Pairs(k) == {p \in Usable(k) \X Usable(k) : p[1] # p[2]}
Untested(k) == Pairs(k) \ th[k].tested
Pair(k) ==
  LET i == Least({p[1] : p \in Untested(k)})
  IN <<i, Least({p[2] : p \in {q \in Untested(k) : q[1] = i}})>>
NextPair(k, t) == [t EXCEPT !.tested = @ \cup {Pair(k)}, !.n = 0]
NextRound(k, t) == IF t.n + 1 < Rounds THEN [t EXCEPT !.n = @ + 1] ELSE NextPair(k, t)
\* All that is queued is read from a serial port, one frame from CAN.
ReadAll(k) == th[k].line = 1
Expected(k, queued) == IF ReadAll(k) THEN queued = 1 ELSE queued > 0
SendFails(k) ==
  /\ At(k, "exchange") /\ Untested(k) # {} /\ UNCHANGED serialVars
  /\ LET i == Pair(k)[1]
     IN Fails(k, th[k].ports[i], NextRound(k, [th[k] EXCEPT !.send[i] = FALSE]))
Exchange(k) ==
  /\ At(k, "exchange") /\ Untested(k) # {} /\ UNCHANGED serialVars
  /\ LET i == Pair(k)[1]
         j == Pair(k)[2]
         others == Usable(k) \ {i}
     IN \E heard \in SUBSET others :
          LET came == [x \in DOMAIN th[k].queue |->
                         th[k].queue[x] + IF x \in heard THEN 1 ELSE 0]
              left == IF ReadAll(k) \/ came[j] = 0 THEN 0 ELSE came[j] - 1
              t == [th[k] EXCEPT !.queue = [came EXCEPT ![j] = left],
                                 !.reached = @ \cup ({j} \cap heard), !.lost = @ \cup ({j} \ heard)]
          IN Works(k, th[k].ports[i],
               Meets(IF Expected(k, came[j]) THEN NextRound(k, t)
                     ELSE NextPair(k, [t EXCEPT !.recv[j] = FALSE]),
                     Astray(k, th[k].ports[j]) \cup IF heard = others THEN {} ELSE {"fault"}))

\* All closed: one more attempt, or the verdicts of this one.  Seen to work
\* was a port that all the frames sent to it in this attempt reached, if any.
Passed(k, x) == th[k].send[x] /\ th[k].recv[x]
AllPassed(k) == \A x \in OnLine(k) : Passed(k, x)
\* A bug: the verdicts of a line come after the others.
LineResultsAppended(k) ==
  [th[k] EXCEPT !.at = "line", !.line = @ + 1,
     !.items = @ \o [x \in 1..Cardinality(OnLine(k)) |-> IF AllPassed(k) THEN "OK" ELSE "NG"]]
LineResults(k) ==
  [th[k] EXCEPT !.at = "line", !.line = @ + 1,
     !.items = [y \in DOMAIN @ |-> CASE y \notin OnLine(k) -> @[y]
                                     [] y \in OnLine(k) /\ Passed(k, y) -> "OK"
                                     [] OTHER -> "NG"],
     !.result = IF AllPassed(k) THEN @ ELSE "false",
     !.shown = @ \cup (OnLine(k) \cap (th[k].reached \ th[k].lost))]
LineClose(k) ==
  /\ At(k, "exchange") /\ Untested(k) = {} /\ UNCHANGED serialVars
  /\ CloseAll(k, {th[k].ports[x] : x \in Usable(k)},
              IF AllPassed(k) \/ th[k].try = Retries THEN LineResults(k)
              ELSE NewAttempt(To(th[k], "again"), OnLine(k)))

\* The next attempt, after a while: what failed so far is forgotten.
\* A bug: attempts are not counted.
SerialRetryForever(k) ==
  /\ At(k, "again") /\ UNCHANGED serialVars
  /\ Local(k, Forgets(To(th[k], IF th[k].line = 0 THEN "open" ELSE "lineOpen")))
SerialRetry(k) ==
  /\ At(k, "again") /\ UNCHANGED serialVars
  /\ Local(k, Forgets([th[k] EXCEPT !.at = IF th[k].line = 0 THEN "open" ELSE "lineOpen",
                                    !.try = @ + 1]))

\* Where a serial test ends the process.
SerialDies(k) == LineOfOne(k) \/ SerialConfigDies(k)
SerialStep(k) ==
  \/ /\ \/ SerialItem(k) \/ SerialOpen(k) \/ SerialConfig(k) \/ Echo(k) \/ ClosePort(k)
        \/ OpenCan(k) \/ CanTest(k) \/ Rs485Test(k) \/ LineBegin(k) \/ SerialAnswer(k) \/ LineOpen(k)
        \/ SendFails(k) \/ Exchange(k) \/ LineClose(k) \/ SerialRetry(k)
     /\ UNCHANGED alive
  \/ SerialDies(k)
=============================================================================
