------------------------------ MODULE AudioSync ------------------------------
(***************************************************************************)
(* One microphone test: record_and_compare_audio_v2() starts a player and  *)
(* a recorder, which wait on a condition variable until the test tells     *)
(* both to start, and compares what was recorded with what was played.     *)
(***************************************************************************)
EXTENDS Integers, FiniteSets

CONSTANT Chunks \* the buffers that make up the tone, one or more

VARIABLES
  pc,     \* where the test and its two threads are
  mtx,    \* who holds the mutex of the three, or "none"
  ready,  \* ready_to_start
  done,   \* buffers played and recorded
  alive,  \* no sound function has ended the process
  answer  \* what microphone_test sends

vars == <<pc, mtx, ready, done, alive, answer>>

Workers == {"player", "recorder"}
Threads == Workers \cup {"test"}

Init ==
  /\ pc = [t \in Threads |-> IF t = "test" THEN "begin" ELSE "unborn"]
  /\ mtx = "none" /\ ready = FALSE
  /\ done = [w \in Workers |-> 0]
  /\ alive = TRUE /\ answer = "none"

At(t, a) == alive /\ pc[t] = a
Goes(t, a) == pc' = [pc EXCEPT ![t] = a]
-----------------------------------------------------------------------------
\* The player and the recorder: take the mutex, wait until ready, go on.
Lock(w) ==
  /\ At(w, "lock") /\ mtx = "none"
  /\ Goes(w, "test") /\ mtx' = w
  /\ UNCHANGED <<ready, done, alive, answer>>
Wait(w) ==
  /\ At(w, "test") /\ ~ready
  /\ Goes(w, "asleep") /\ mtx' = "none"
  /\ UNCHANGED <<ready, done, alive, answer>>
Wake(w) == \* without a notification
  /\ At(w, "asleep")
  /\ Goes(w, "lock")
  /\ UNCHANGED <<mtx, ready, done, alive, answer>>
Unlock(w) ==
  /\ At(w, "test") /\ ready
  /\ Goes(w, "open") /\ mtx' = "none"
  /\ UNCHANGED <<ready, done, alive, answer>>
\* check_error() ends the process when the card cannot be opened or set up.
OpenCard(w) ==
  /\ At(w, "open")
  /\ \/ Goes(w, "sound") /\ UNCHANGED alive
     \/ alive' = FALSE /\ UNCHANGED pc
  /\ UNCHANGED <<mtx, ready, done, answer>>
\* A buffer, or an error after which the loop tries again.
Transfer(w) ==
  /\ At(w, "sound") /\ done[w] < Chunks
  /\ \/ done' = [done EXCEPT ![w] = @ + 1]
     \/ UNCHANGED done
  /\ UNCHANGED <<pc, mtx, ready, alive, answer>>
CloseCard(w) ==
  /\ At(w, "sound") /\ done[w] = Chunks
  /\ Goes(w, "end")
  /\ UNCHANGED <<mtx, ready, done, alive, answer>>
-----------------------------------------------------------------------------
\* The test: start both threads, take the mutex, notify, join, compare.
Spawn ==
  /\ At("test", "begin")
  /\ pc' = [t \in Threads |-> IF t = "test" THEN "guard" ELSE "lock"]
  /\ UNCHANGED <<mtx, ready, done, alive, answer>>
Guard ==
  /\ At("test", "guard") /\ mtx = "none"
  /\ Goes("test", "set") /\ mtx' = "test"
  /\ UNCHANGED <<ready, done, alive, answer>>
NotifyAll ==
  /\ At("test", "set")
  /\ ready' = TRUE
  /\ pc' = [t \in Threads |-> CASE t = "test" -> "join record"
                                [] pc[t] = "asleep" -> "lock"
                                [] OTHER -> pc[t]]
  /\ UNCHANGED <<mtx, done, alive, answer>>
Join ==
  /\ \/ At("test", "join record") /\ pc["recorder"] = "end" /\ Goes("test", "join play")
     \/ At("test", "join play") /\ pc["player"] = "end" /\ Goes("test", "compare")
  /\ UNCHANGED <<mtx, ready, done, alive, answer>>
\* The channels whose tone is found in the recording decide; the guard ends.
Verdict(found) ==
  CASE found = {"left", "right"} -> "OK"
    [] found = {"left"} -> "right filed"
    [] found = {"right"} -> "left filed"
    [] OTHER -> "left and right filed"
Compare ==
  /\ At("test", "compare")
  /\ \E found \in SUBSET {"left", "right"} : answer' = Verdict(found)
  /\ mtx' = "none" /\ Goes("test", "end")
  /\ UNCHANGED <<ready, done, alive>>

Worker(w) ==
  Lock(w) \/ Wait(w) \/ Unlock(w) \/ OpenCard(w) \/ Transfer(w) \/ CloseCard(w)
Test == Spawn \/ Guard \/ NotifyAll \/ Join \/ Compare
Next == Test \/ \E w \in Workers : Worker(w) \/ Wake(w)

\* Every thread that can go on does so; a mutex that becomes free again and
\* again is had in the end.
Spec ==
  /\ Init /\ [][Next]_vars
  /\ SF_vars(Test)
  /\ \A w \in Workers : SF_vars(Worker(w))
-----------------------------------------------------------------------------
(***************************************************************************)
(* What the comment of the code promises: playback and recording start.    *)
(* They do not: the test joins both while it holds the mutex they need to  *)
(* leave their wait.                                                       *)
(***************************************************************************)
BothStart ==
  <>(~alive \/ \A w \in Workers : pc[w] \in {"open", "sound", "end"})
=============================================================================
