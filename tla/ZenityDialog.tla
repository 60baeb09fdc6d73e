---------------------------- MODULE ZenityDialog ----------------------------
(***************************************************************************)
(* The object `dialog' of TaskHandler.cpp: the process that shows a        *)
(* message to the operator.  show(), update() and close() are lists of     *)
(* steps, each of them one access to pid or running, since the command     *)
(* thread and the type-C tests call them at any time without a lock.       *)
(* fork() is taken to succeed.                                             *)
(***************************************************************************)
EXTENDS Integers, Sequences

CONSTANT Caller  \* the threads that call the dialog

VARIABLES
  pid, running,   \* the members of the object
  open, forked,   \* the dialogs on the screen, how many processes were made
  todo,           \* the steps a thread has yet to take
  killedAll, clash \* history: kill(-1) was called; two threads were in the
                   \* object at the same time

dialogVars == <<pid, running, open, forked, todo, killedAll, clash>>

Close == <<"close", "kill", "wait", "stop", "forget">>
\* Mutant: the dialog before stays.
ForkOnly == <<"fork", "run">>
Show == Close \o <<"fork", "run">>
Update == <<"update">> \o Close \o Show

DialogTypeOK ==
  /\ pid \in {-1} \cup 1 .. forked /\ running \in BOOLEAN
  /\ forked \in Nat /\ open \subseteq 1 .. forked
  /\ \A t \in Caller : \E n \in 0 .. Len(Update) :
       todo[t] \in {SubSeq(ops, n + 1, Len(ops)) : ops \in {Close, Show, Update}}
  /\ killedAll \in BOOLEAN /\ clash \in BOOLEAN

InitDialog ==
  /\ pid = -1 /\ running = FALSE /\ open = {} /\ forked = 0
  /\ todo = [t \in Caller |-> <<>>]
  /\ killedAll = FALSE /\ clash = FALSE

\* A thread calls one of them.
Call(t, ops) ==
  /\ todo' = [todo EXCEPT ![t] = ops]
  /\ clash' = (clash \/ \E u \in Caller \ {t} : todo[u] # <<>>)
  /\ UNCHANGED <<pid, running, open, forked, killedAll>>
-----------------------------------------------------------------------------
\* Thread t takes its next step and skips so many of those after it.
Take(t, op, skip) ==
  /\ todo[t] # <<>> /\ Head(todo[t]) = op
  /\ todo' = [todo EXCEPT ![t] = SubSeq(@, 2 + skip, Len(@))]

CheckUpdate(t) ==
  /\ Take(t, "update", IF running THEN 0 ELSE Len(Update))
  /\ UNCHANGED <<pid, running, open, forked, killedAll, clash>>

CheckClose(t) ==
  /\ Take(t, "close", IF running /\ pid > 0 THEN 0 ELSE Len(Close) - 1)
  /\ UNCHANGED <<pid, running, open, forked, killedAll, clash>>

\* kill(-1) goes to every process there is.
Kill(t) ==
  /\ Take(t, "kill", 0)
  /\ open' = IF pid = -1 THEN {} ELSE open \ {pid}
  /\ killedAll' = (killedAll \/ pid = -1)
  /\ UNCHANGED <<pid, running, forked, clash>>

WaitPid(t) ==
  /\ Take(t, "wait", 0)
  /\ pid \notin open
  /\ UNCHANGED <<pid, running, open, forked, killedAll, clash>>

Stop(t) ==
  /\ Take(t, "stop", 0)
  /\ running' = FALSE
  /\ UNCHANGED <<pid, open, forked, killedAll, clash>>

Forget(t) ==
  /\ Take(t, "forget", 0)
  /\ pid' = -1
  /\ UNCHANGED <<running, open, forked, killedAll, clash>>

Fork(t) ==
  /\ Take(t, "fork", 0)
  /\ forked' = forked + 1
  /\ pid' = forked' /\ open' = open \cup {forked'}
  /\ UNCHANGED <<running, killedAll, clash>>

Run(t) ==
  /\ Take(t, "run", 0)
  /\ running' = TRUE
  /\ UNCHANGED <<pid, open, forked, killedAll, clash>>

DialogStep(t) ==
  \/ CheckUpdate(t) \/ CheckClose(t) \/ Kill(t) \/ WaitPid(t)
  \/ Stop(t) \/ Forget(t) \/ Fork(t) \/ Run(t)

\* The operator closes a dialog.
Dismiss ==
  /\ \E p \in open : open' = open \ {p}
  /\ UNCHANGED <<pid, running, forked, todo, killedAll, clash>>
=============================================================================
