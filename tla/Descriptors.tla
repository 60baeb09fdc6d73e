----------------------------- MODULE Descriptors -----------------------------
(***************************************************************************)
(* What the tests of TestApp share when they touch the hardware: the       *)
(* table of file descriptors of the process.  A command is its place in    *)
(* the plan; th[k] is the thread, or the stretch of the command thread,    *)
(* that runs the test of command k, with its control point, its locals and *)
(* what it answers.  The kernel gives open() the lowest free number, and   *)
(* read(), write() and close() take whatever number they are given.        *)
(***************************************************************************)
EXTENDS Integers, Sequences, FiniteSets

CONSTANTS Plan,  \* the sequences of commands the host may send
          MaxFd, \* descriptors the process may have open besides its own
          None

ASSUME MaxFdAssumption == MaxFd \in Nat \ {0}
ASSUME NoneAssumption == None \notin Nat

VARIABLES
  plan,  \* the commands, each with its test and its items
  th,    \* their threads; met, shown, reached and lost are history
  fds,   \* the table of descriptors: who opened which file
  alive, \* the process has not been ended by one of its tests
  stopped \* tests whose flag a stop command has set

base == <<plan, th, fds, alive, stopped>>

Closed == [by |-> None, file |-> None]
Opened == {n \in DOMAIN fds : fds[n] # Closed}
Least(S) == CHOOSE n \in S : \A m \in S : n <= m
Lowest == Least(DOMAIN fds \ Opened)
OwnedBy(k) == {n \in Opened : fds[n].by = k}

\* A thread before its test, with the variables of all tests.
Fresh == [at |-> "idle", fd |-> -1, try |-> 0, n |-> 0, item |-> 1, items |-> <<>>,
          result |-> "true", frame |-> None, met |-> {}, shown |-> {}, ok |-> TRUE, want |-> None,
          count |-> 0, line |-> 0, ports |-> <<>>, send |-> <<>>, recv |-> <<>>, queue |-> <<>>,
          reached |-> {}, lost |-> {}, tested |-> {}]

\* A thread t that goes on at a; that meets some causes of failure, or
\* forgets those of the last item or attempt; whose device i was seen to work.
To(t, a) == [t EXCEPT !.at = a]
Meets(t, what) == [t EXCEPT !.met = @ \cup what]
Forgets(t) == [t EXCEPT !.met = @ \ {"fault", "full"}]
Shows(t, i) == [t EXCEPT !.shown = @ \cup {i}]

\* The verdict on the current item; the test goes on with the next.
\* A bug: the last verdict is the result.
JudgedLast(t, verdict) ==
  [t EXCEPT !.item = @ + 1, !.items = Append(@, verdict),
            !.result = IF verdict = "NG" THEN "false" ELSE "true"]
Judged(t, verdict) ==
  [t EXCEPT !.item = @ + 1, !.items = Append(@, verdict),
            !.result = IF verdict = "NG" THEN "false" ELSE @]
Item(k) == plan[k].items[th[k].item]
MoreItems(k) == th[k].item <= Len(plan[k].items)
-----------------------------------------------------------------------------
At(k, a) == alive /\ th[k].at = a
\* The thread of k goes on as t.
Set(k, t) == th' = [th EXCEPT ![k] = t]

\* A number that k holds no file by: closed meanwhile, or another test's.
Astray(k, n) == IF n >= 0 /\ n \notin OwnedBy(k) THEN {"stray"} ELSE {}

\* open(): the number goes to the local fd; -1 on a fault, or if none is left.
Open(k, file, ok, ko) ==
  \/ /\ Opened # DOMAIN fds
     /\ Set(k, [ok EXCEPT !.fd = Lowest])
     /\ fds' = [fds EXCEPT ![Lowest] = [by |-> k, file |-> file]]
  \/ /\ Set(k, Meets([ko EXCEPT !.fd = -1], {IF Opened = DOMAIN fds THEN "full" ELSE "fault"}))
     /\ UNCHANGED fds

\* A step that works on descriptor n, and does so or fails.
Works(k, n, ok) == n \in Opened /\ Set(k, Meets(ok, Astray(k, n))) /\ UNCHANGED fds
Blames(k, n) == IF Astray(k, n) = {} THEN {"fault"} ELSE {"stray"}
Fails(k, n, ko) == Set(k, Meets(ko, Blames(k, n))) /\ UNCHANGED fds

\* close(n) of whatever n names by now.
CloseAll(k, ns, t) ==
  /\ Set(k, Meets(t, UNION {Astray(k, n) : n \in ns}))
  /\ fds' = [n \in DOMAIN fds |-> IF n \in ns THEN Closed ELSE fds[n]]
Close(k, n, t) == CloseAll(k, {n}, t)
FailsAndCloses(k, n, ko) == Close(k, n, Meets(ko, Blames(k, n)))

\* The thread of k takes a step that no other test sees.
Local(k, t) == Set(k, t) /\ UNCHANGED fds

\* A test goes on to send its result, or returns without one.
Answers(k) == Local(k, To(th[k], "send"))
Quits(k) == Local(k, To(th[k], "done"))
=============================================================================
