----------------------------- MODULE LinearQueue -----------------------------
(***************************************************************************)
(* What a thread-safe queue promises: a push appends its value at one      *)
(* moment between its call and its return, a pop removes the oldest value  *)
(* at one moment, and a try_pop gives up only at a moment when the queue   *)
(* is empty.                                                               *)
(***************************************************************************)
EXTENDS Sequences

CONSTANTS Producers, Pollers, Waiters, Value, None

VARIABLES queue,  \* the values, oldest first
          phase,  \* what every thread is doing
          held    \* the value of a push called or of a pop done, else None

Threads == Producers \cup Pollers \cup Waiters
Poppers == Pollers \cup Waiters

Init == /\ queue = <<>>
        /\ phase = [t \in Threads |-> "idle"]
        /\ held = [t \in Threads |-> None]

CallPush(t, v) ==
  /\ phase[t] = "idle"
  /\ phase' = [phase EXCEPT ![t] = "pushing"]
  /\ held' = [held EXCEPT ![t] = v]
  /\ UNCHANGED queue

Enqueue(t) ==
  /\ phase[t] = "pushing"
  /\ queue' = Append(queue, held[t])
  /\ phase' = [phase EXCEPT ![t] = "idle"]
  /\ held' = [held EXCEPT ![t] = None]

CallPop(t) ==
  /\ phase[t] = "idle"
  /\ phase' = [phase EXCEPT ![t] = "popping"]
  /\ UNCHANGED <<queue, held>>

Dequeue(t) ==
  /\ phase[t] = "popping" /\ queue # <<>>
  /\ held' = [held EXCEPT ![t] = Head(queue)]
  /\ queue' = Tail(queue)
  /\ phase' = [phase EXCEPT ![t] = "popped"]

FindEmpty(t) ==
  /\ phase[t] = "popping" /\ queue = <<>>
  /\ phase' = [phase EXCEPT ![t] = "idle"]
  /\ UNCHANGED <<queue, held>>

ReturnPopped(t) ==
  /\ phase[t] = "popped"
  /\ phase' = [phase EXCEPT ![t] = "idle"]
  /\ held' = [held EXCEPT ![t] = None]
  /\ UNCHANGED queue

Next == \/ \E t \in Producers : (\E v \in Value : CallPush(t, v)) \/ Enqueue(t)
        \/ \E t \in Poppers : CallPop(t) \/ Dequeue(t) \/ ReturnPopped(t)
        \/ \E t \in Pollers : FindEmpty(t)

Spec == Init /\ [][Next]_<<queue, phase, held>>
=============================================================================
