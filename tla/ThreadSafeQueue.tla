--------------------------- MODULE ThreadSafeQueue ---------------------------
(***************************************************************************)
(* thread_safe_queue.h: the work queue of both thread pools, a linked list *)
(* with a dummy node at the tail and a mutex at either end.  A push writes *)
(* its value into the dummy and links a new one behind it; a pop unlinks   *)
(* the head unless it is the dummy.  One action per access to what the     *)
(* threads share.  try_pop is what the pool workers call (Pollers);        *)
(* wait_and_pop, the blocking form, has no caller but a commented-out one  *)
(* (Waiters).  size() and empty() change nothing and are left out.         *)
(***************************************************************************)
EXTENDS Integers, Sequences

CONSTANTS Producers, Pollers, Waiters,
          Value,      \* what is pushed
          Node,       \* addresses of nodes: the bound on memory
          None        \* no thread, no value
Null == None          \* the null pointer

Threads == Producers \cup Pollers \cup Waiters
Poppers == Pollers \cup Waiters

ASSUME ThreadsAssumption ==
  /\ Producers \cap Poppers = {} /\ Pollers \cap Waiters = {}
  /\ None \notin Threads
ASSUME ValueAssumption == None \notin Value
ASSUME NodeAssumption == None \notin Node /\ Node # {}

VARIABLES
  head, tail,          \* the two ends of the list
  data, next,          \* the members of every node
  allocated,           \* the nodes that exist
  headLock, tailLock,  \* the thread that holds the mutex
  blocked,             \* the threads asleep in data_cond.wait()
  pc, value, ptr,      \* of a thread: its place, value, own node
  chain                \* history: the nodes from head to tail

list == <<head, tail, data, next, allocated, chain>>
locks == <<headLock, tailLock>>
local == <<pc, value, ptr>>
vars == <<list, locks, blocked, local>>

\* The constructor makes the dummy node.
Init ==
  /\ head \in Node /\ tail = head
  /\ data = [n \in Node |-> None] /\ next = [n \in Node |-> Null]
  /\ allocated = {head} /\ chain = <<head>>
  /\ headLock = None /\ tailLock = None /\ blocked = {}
  /\ pc = [t \in Threads |-> "idle"]
  /\ value = [t \in Threads |-> None]
  /\ ptr = [t \in Threads |-> Null]

Goto(t, from, to) == pc[t] = from /\ pc' = [pc EXCEPT ![t] = to]
-----------------------------------------------------------------------------
\* push: both allocations come before the lock.
CallPush(t, v, n) ==
  /\ Goto(t, "idle", "lock")
  /\ n \notin allocated
  /\ allocated' = allocated \cup {n}
  /\ data' = [data EXCEPT ![n] = None] /\ next' = [next EXCEPT ![n] = Null]
  /\ value' = [value EXCEPT ![t] = v] /\ ptr' = [ptr EXCEPT ![t] = n]
  /\ UNCHANGED <<head, tail, chain, locks, blocked>>

\* Mutant: the guard object is missing.
TailIsFreeAlways == TRUE
TailIsFree == tailLock = None

LockTail(t) ==
  /\ Goto(t, "lock", "data")
  /\ TailIsFree
  /\ tailLock' = t
  /\ UNCHANGED <<list, headLock, blocked, value, ptr>>

\* Mutant: the value goes to the new dummy.
SetDataOfNew(t) ==
  /\ Goto(t, "data", "link")
  /\ data' = [data EXCEPT ![ptr[t]] = value[t]]
  /\ UNCHANGED <<head, tail, next, allocated, chain, locks, blocked, value, ptr>>
SetData(t) ==
  /\ Goto(t, "data", "link")
  /\ data' = [data EXCEPT ![tail] = value[t]]
  /\ UNCHANGED <<head, tail, next, allocated, chain, locks, blocked, value, ptr>>

Link(t) ==
  /\ Goto(t, "link", "tail")
  /\ next' = [next EXCEPT ![tail] = ptr[t]]
  /\ UNCHANGED <<head, tail, data, allocated, chain, locks, blocked, value, ptr>>

\* tail = new_tail, and the guard's scope ends.
SetTail(t) ==
  /\ Goto(t, "tail", "notify")
  /\ tail' = ptr[t] /\ chain' = Append(chain, ptr[t])
  /\ ptr' = [ptr EXCEPT ![t] = Null] /\ value' = [value EXCEPT ![t] = None]
  /\ tailLock' = None
  /\ UNCHANGED <<head, data, next, allocated, headLock, blocked>>

\* notify_one(), with neither mutex held.
Notify(t) ==
  /\ Goto(t, "notify", "idle")
  /\ \/ blocked = {} /\ UNCHANGED blocked
     \/ \E w \in blocked : blocked' = blocked \ {w}
  /\ UNCHANGED <<list, locks, value, ptr>>
-----------------------------------------------------------------------------
\* try_pop, or wait_and_pop from its call or its wake-up on.
LockHead(t) ==
  /\ Goto(t, "idle", "compare") \/ (Goto(t, "wait", "compare") /\ t \notin blocked)
  /\ headLock = None
  /\ headLock' = t
  /\ UNCHANGED <<list, tailLock, blocked, value, ptr>>

\* Mutants: no test at all, and one that gives up at the last value.
EmptyNever == FALSE
EmptyAtLast == head = tail \/ next[head] = tail
Empty == head = tail

\* get_tail() takes the tail's mutex for as long as it reads.
CompareFull(t) ==
  /\ Goto(t, "compare", "take")
  /\ tailLock = None /\ ~Empty
  /\ UNCHANGED <<list, locks, blocked, value, ptr>>

\* try_pop returns false.
CompareEmpty(t) ==
  /\ Goto(t, "compare", "idle")
  /\ tailLock = None /\ Empty
  /\ headLock' = None
  /\ UNCHANGED <<list, tailLock, blocked, value, ptr>>

Take(t) ==
  /\ Goto(t, "take", "pop")
  /\ value' = [value EXCEPT ![t] = data[head]]
  /\ UNCHANGED <<list, locks, blocked, ptr>>

\* pop_head(), and the guard's scope ends.
PopHead(t) ==
  /\ Goto(t, "pop", "free")
  /\ ptr' = [ptr EXCEPT ![t] = head]
  /\ head' = next[head] /\ chain' = Tail(chain)
  /\ next' = [next EXCEPT ![head] = Null]
  /\ headLock' = None
  /\ UNCHANGED <<tail, data, allocated, tailLock, blocked, value>>

\* A node owns the next one: all that hang on n go with it.
Owned(n) ==
  {m \in Node : \A S \in SUBSET Node :
     n \in S /\ (\A k \in S : next[k] # Null => next[k] \in S) => m \in S}

\* ~unique_ptr of old_head: the node goes, and try_pop returns.
Free(t) ==
  /\ Goto(t, "free", "idle")
  /\ allocated' = allocated \ Owned(ptr[t])
  /\ data' = [n \in Node |-> IF n \in Owned(ptr[t]) THEN None ELSE data[n]]
  /\ next' = [n \in Node |-> IF n \in Owned(ptr[t]) THEN Null ELSE next[n]]
  /\ ptr' = [ptr EXCEPT ![t] = Null] /\ value' = [value EXCEPT ![t] = None]
  /\ UNCHANGED <<head, tail, chain, locks, blocked>>

\* data_cond.wait(): the predicate is read, then the mutex released and the
\* thread put to sleep in one step.
WaitEmpty(t) ==
  /\ Goto(t, "compare", "sleep")
  /\ tailLock = None /\ Empty
  /\ UNCHANGED <<list, locks, blocked, value, ptr>>

Sleep(t) ==
  /\ Goto(t, "sleep", "wait")
  /\ blocked' = blocked \cup {t} /\ headLock' = None
  /\ UNCHANGED <<list, tailLock, value, ptr>>

WakeSpuriously(t) ==
  /\ t \in blocked /\ blocked' = blocked \ {t}
  /\ UNCHANGED <<list, locks, local>>
-----------------------------------------------------------------------------
Push(t) ==
  \/ \E v \in Value, n \in Node : CallPush(t, v, n)
  \/ LockTail(t) \/ SetData(t) \/ Link(t) \/ SetTail(t) \/ Notify(t)

PopStep(t) ==
  LockHead(t) \/ CompareFull(t) \/ Take(t) \/ PopHead(t) \/ Free(t)

TryPop(t) == PopStep(t) \/ CompareEmpty(t)
WaitAndPop(t) == PopStep(t) \/ WaitEmpty(t) \/ Sleep(t) \/ WakeSpuriously(t)

Next == \/ \E t \in Producers : Push(t)
        \/ \E t \in Pollers : TryPop(t)
        \/ \E t \in Waiters : WaitAndPop(t)

\* Threads run; one that asks again and again for a mutex that is free again
\* and again gets it.  Nobody has to push, and no wake-up need be spurious.
Fairness ==
  /\ \A t \in Producers :
       /\ SF_vars(LockTail(t))
       /\ WF_vars(SetData(t) \/ Link(t) \/ SetTail(t) \/ Notify(t))
  /\ \A t \in Poppers :
       /\ SF_vars(LockHead(t)) /\ SF_vars(CompareFull(t))
       /\ WF_vars(Take(t) \/ PopHead(t) \/ Free(t))
  /\ \A t \in Pollers : SF_vars(CompareEmpty(t))
  /\ \A t \in Waiters : SF_vars(WaitEmpty(t)) /\ WF_vars(Sleep(t))

Spec == Init /\ [][Next]_vars /\ Fairness
-----------------------------------------------------------------------------
TypeOK ==
  /\ head \in Node /\ tail \in Node
  /\ data \in [Node -> Value \cup {None}] /\ next \in [Node -> Node \cup {Null}]
  /\ allocated \subseteq Node
  /\ headLock \in Poppers \cup {None} /\ tailLock \in Producers \cup {None}
  /\ blocked \subseteq Waiters
  /\ pc \in [Threads -> {"idle", "lock", "data", "link", "tail", "notify",
                         "compare", "take", "pop", "free", "sleep", "wait"}]
  /\ value \in [Threads -> Value \cup {None}]
  /\ ptr \in [Threads -> Node \cup {Null}]
  /\ chain \in Seq(Node)

(***************************************************************************)
(* However pushes and pops interleave, the nodes from head to tail form a  *)
(* list: each links to the next one, each but the dummy holds a value.     *)
(***************************************************************************)
ListIntact ==
  /\ chain # <<>> /\ head = chain[1] /\ tail = chain[Len(chain)]
  /\ \A i \in 1..(Len(chain) - 1) :
       next[chain[i]] = chain[i + 1] /\ data[chain[i]] \in Value

(***************************************************************************)
(* Nobody reads or frees a node that is gone: the nodes of the list exist, *)
(* so do those that a push has allocated or a pop has taken out, and such  *)
(* a node belongs to one thread and is not in the list.                    *)
(***************************************************************************)
InList == {chain[i] : i \in 1..Len(chain)}
NoDangling ==
  /\ InList \subseteq allocated
  /\ \A t \in Threads : ptr[t] # Null =>
       /\ ptr[t] \in allocated \ InList
       /\ \A u \in Threads : ptr[u] = ptr[t] => u = t

(***************************************************************************)
(* Push and pop hold different mutexes and meet at the one node that is    *)
(* head and tail: neither tears the list nor uses a node of the other.     *)
(***************************************************************************)
ListSound == ListIntact /\ NoDangling

\* The list is what LinearQueue promises.  A push takes effect when tail is
\* set, a pop when head is, a failed try_pop when it compares the two.
Queue == [i \in 1..(Len(chain) - 1) |-> data[chain[i]]]
PhaseOf(place) ==
  CASE place \in {"lock", "data", "link", "tail"} -> "pushing"
    [] place \in {"compare", "take", "pop", "sleep", "wait"} -> "popping"
    [] place = "free" -> "popped"
    [] OTHER -> "idle"
HeldAt(place, v) == IF PhaseOf(place) \in {"pushing", "popped"} THEN v ELSE None
Phase == [t \in Threads |-> PhaseOf(pc[t])]
Held == [t \in Threads |-> HeldAt(pc[t], value[t])]
Linear == INSTANCE LinearQueue WITH queue <- Queue, phase <- Phase, held <- Held
ImplementsQueue == Linear!Spec

(***************************************************************************)
(* A worker polls: what is pushed is popped and its node freed, also when  *)
(* producers go on pushing.                                                *)
(***************************************************************************)
EveryPushPopped ==
  \A n \in Node : (n \in InList /\ n # tail) ~> n \notin allocated
=============================================================================
