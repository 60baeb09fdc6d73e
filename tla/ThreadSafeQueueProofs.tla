------------------------ MODULE ThreadSafeQueueProofs ------------------------
(***************************************************************************)
(* The two-lock list of ThreadSafeQueue, for any threads, values and       *)
(* nodes: its inductive invariant and the proof that it implements         *)
(* LinearQueue.                                                            *)
(***************************************************************************)
EXTENDS ThreadSafeQueue, TLAPS

\* Producers only push, poppers only pop, and who is between a lock and its
\* release holds it.
PlacesOK ==
  /\ \A t \in Producers : pc[t] \in {"idle", "lock", "data", "link", "tail", "notify"}
  /\ \A t \in Poppers :
       pc[t] \in {"idle", "compare", "take", "pop", "free", "sleep", "wait"}
  /\ \A t \in Threads : pc[t] \in {"data", "link", "tail"} <=> tailLock = t
  /\ \A t \in Threads : pc[t] \in {"compare", "take", "pop", "sleep"} <=> headLock = t

\* A thread owns a node while it pushes it or frees it.
OwnOK ==
  /\ \A t \in Threads :
       ptr[t] # Null <=> pc[t] \in {"lock", "data", "link", "tail", "free"}
  /\ \A t \in Threads :
       pc[t] \in {"lock", "data", "link", "tail", "pop", "free"} => value[t] \in Value
  /\ \A t \in Threads : pc[t] = "free" => next[ptr[t]] = Null

\* No node is in the list twice, and what a push or a pop under its lock has
\* read or written is still so.
Distinct == \A i, j \in 1..Len(chain) : chain[i] = chain[j] => i = j
StepsOK ==
  /\ \A t \in Threads :
       pc[t] \in {"link", "tail"} => data[tail] = value[t]
  /\ \A t \in Threads : pc[t] = "tail" => next[tail] = ptr[t]
  /\ \A t \in Threads : pc[t] \in {"take", "pop"} => Len(chain) > 1
  /\ \A t \in Threads : pc[t] = "pop" => value[t] = data[head]

IInv == TypeOK /\ PlacesOK /\ OwnOK /\ NoDangling /\ ListIntact /\ Distinct /\ StepsOK
-----------------------------------------------------------------------------
LEMMA AppendFacts ==
  ASSUME NEW S, NEW s \in Seq(S), NEW e \in S
  PROVE  /\ Append(s, e) \in Seq(S)
         /\ Len(Append(s, e)) = Len(s) + 1
         /\ Append(s, e) # <<>>
         /\ \A i \in 1..Len(s) : Append(s, e)[i] = s[i]
         /\ Append(s, e)[Len(s) + 1] = e
  OBVIOUS

LEMMA TailFacts ==
  ASSUME NEW S, NEW s \in Seq(S), Len(s) > 1
  PROVE  /\ Tail(s) \in Seq(S)
         /\ Len(Tail(s)) = Len(s) - 1
         /\ Tail(s) # <<>>
         /\ \A i \in 1..(Len(s) - 1) : Tail(s)[i] = s[i + 1]
  OBVIOUS

\* The list is one node long exactly when both ends are the same node.
LEMMA EmptyMeansOne ==
  ASSUME TypeOK, ListIntact, Distinct
  PROVE  /\ Len(chain) \in Nat \ {0}
         /\ head = tail <=> Len(chain) = 1
<1>1. Len(chain) \in Nat \ {0}
  BY DEF TypeOK, ListIntact
<1>2. Len(chain) = 1 => head = tail
  BY <1>1 DEF ListIntact
<1>3. head = tail => Len(chain) = 1
  <2>1. 1 \in 1..Len(chain) /\ Len(chain) \in 1..Len(chain)
    BY <1>1
  <2> QED
    BY <2>1 DEF ListIntact, Distinct
<1> QED
  BY <1>1, <1>2, <1>3

LEMMA FullMeansMore ==
  ASSUME TypeOK, ListIntact, Distinct
  PROVE  head # tail <=> Len(chain) > 1
<1>1. \A n \in Nat \ {0} : n = 1 \/ n > 1
  OBVIOUS
<1>2. ~ (1 > 1)
  OBVIOUS
<1>3. Len(chain) = 1 \/ Len(chain) > 1
  BY <1>1, EmptyMeansOne
<1>4. CASE Len(chain) = 1
  BY <1>2, <1>4, EmptyMeansOne, Zenon
<1>5. CASE Len(chain) > 1
  <2>1. Len(chain) # 1
    BY <1>2, <1>5
  <2> QED
    BY <1>5, <2>1, EmptyMeansOne, Zenon
<1> QED
  BY <1>3, <1>4, <1>5

\* A node that owns no next one goes alone.
LEMMA OwnedAlone ==
  ASSUME NEW n \in Node, next[n] = Null
  PROVE  Owned(n) = {n}
<1>1. n \in Owned(n)
  BY DEF Owned
<1>2. ASSUME NEW m \in Owned(n)
      PROVE  m = n
  <2>1. {n} \in SUBSET Node /\ n \in {n}
    OBVIOUS
  <2>2. \A k \in {n} : next[k] # Null => next[k] \in {n}
    OBVIOUS
  <2>3. m \in {n}
    BY <1>2, <2>1, <2>2, Zenon DEF Owned
  <2> QED
    BY <2>3
<1> QED
  BY <1>1, <1>2

\* The dummy is in the list, the head too.
LEMMA EndsInList ==
  ASSUME TypeOK, ListIntact
  PROVE  head \in InList /\ tail \in InList
  BY DEF TypeOK, ListIntact, InList

LEMMA NodesFacts == None \notin Node /\ None \notin Value /\ None \notin Threads
  BY ThreadsAssumption, ValueAssumption, NodeAssumption
-----------------------------------------------------------------------------
LEMMA InitIInv == Init => IInv
<1> SUFFICES ASSUME Init PROVE IInv
  OBVIOUS
<1> USE NodesFacts DEF Init
<1>1. Len(chain) = 1 /\ chain[1] = head /\ chain \in Seq(Node) /\ chain # <<>>
  OBVIOUS
<1>2. TypeOK
  BY <1>1 DEF TypeOK, Null
<1>3. PlacesOK
  BY DEF PlacesOK, Threads, Poppers
<1>4. OwnOK
  BY DEF OwnOK
<1>5. ListIntact /\ Distinct
  BY <1>1 DEF ListIntact, Distinct
<1>6. InList = {head}
  BY <1>1 DEF InList
<1>7. NoDangling
  BY <1>6 DEF NoDangling
<1>8. StepsOK
  BY DEF StepsOK
<1> QED
  BY <1>2, <1>3, <1>4, <1>5, <1>7, <1>8 DEF IInv
-----------------------------------------------------------------------------
LEMMA CallPushPreserves ==
  ASSUME IInv, NEW t \in Producers, NEW v \in Value, NEW n \in Node, CallPush(t, v, n)
  PROVE  IInv'
<1> USE NodesFacts DEF IInv
<1>1. t \in Threads
  BY DEF Threads, Poppers
<1>2. /\ pc[t] = "idle" /\ pc' = [pc EXCEPT ![t] = "lock"]
      /\ n \notin allocated /\ allocated' = allocated \cup {n}
      /\ data' = [data EXCEPT ![n] = None] /\ next' = [next EXCEPT ![n] = Null]
      /\ value' = [value EXCEPT ![t] = v] /\ ptr' = [ptr EXCEPT ![t] = n]
      /\ UNCHANGED <<head, tail, chain, headLock, tailLock, blocked>>
  BY DEF CallPush, Goto, locks
<1>3. InList' = InList /\ n \notin InList
  BY <1>2 DEF InList, NoDangling
<1>4. \A u \in Threads : ptr[u] # n
  BY <1>2 DEF NoDangling, Null
<1>5. TypeOK'
  BY <1>1, <1>2 DEF TypeOK, Null
<1>6. PlacesOK'
  <2>1. \A u \in Threads : pc'[u] = IF u = t THEN "lock" ELSE pc[u]
    BY <1>1, <1>2 DEF TypeOK
  <2>2. \A u \in Threads :
          /\ pc'[u] \in {"data", "link", "tail"} <=> tailLock' = u
          /\ pc'[u] \in {"compare", "take", "pop", "sleep"} <=> headLock' = u
    BY <1>1, <1>2, <2>1 DEF PlacesOK
  <2>3. \A u \in Poppers : u # t
    BY ThreadsAssumption
  <2> QED
    BY <2>1, <2>2, <2>3 DEF PlacesOK, Threads, Poppers
<1>7. OwnOK'
  BY <1>1, <1>2, <1>4 DEF TypeOK, OwnOK, PlacesOK, Null
<1>8. NoDangling'
  BY <1>1, <1>2, <1>3, <1>4 DEF TypeOK, NoDangling, Null
<1>9. ListIntact' /\ Distinct'
  <2>1. \A i \in 1..Len(chain) : chain[i] \in Node /\ chain[i] # n
    BY <1>3 DEF InList, TypeOK
  <2>2. \A i \in 1..(Len(chain) - 1) : i \in 1..Len(chain)
    BY EmptyMeansOne
  <2>3. \A i \in 1..(Len(chain) - 1) :
          next'[chain[i]] = next[chain[i]] /\ data'[chain[i]] = data[chain[i]]
    BY <1>2, <2>1, <2>2 DEF TypeOK
  <2> QED
    BY <1>2, <2>3 DEF ListIntact, Distinct
<1>10. StepsOK'
  <2>1. head # n /\ tail # n /\ head \in Node /\ tail \in Node
    BY <1>3, EndsInList DEF TypeOK
  <2>2. data'[head] = data[head] /\ data'[tail] = data[tail] /\ next'[tail] = next[tail]
    BY <1>2, <2>1 DEF TypeOK
  <2> QED
    BY <1>1, <1>2, <2>2 DEF TypeOK, StepsOK
<1> QED
  BY <1>5, <1>6, <1>7, <1>8, <1>9, <1>10

LEMMA LockTailPreserves ==
  ASSUME IInv, NEW t \in Producers, LockTail(t)
  PROVE  IInv'
<1> USE NodesFacts DEF IInv
<1>1. t \in Threads
  BY DEF Threads, Poppers
<1>2. TypeOK'
  BY <1>1 DEF LockTail, list, locks, TypeOK, Goto, Null
<1>3. PlacesOK'
  BY <1>1 DEF LockTail, list, locks, TypeOK, PlacesOK, Goto, Threads, Poppers, TailIsFree
<1>4. OwnOK'
  BY <1>1 DEF LockTail, list, locks, TypeOK, OwnOK, PlacesOK, Goto, Null
<1>5. NoDangling'
  BY <1>1 DEF LockTail, list, locks, TypeOK, NoDangling, InList, Goto, Null
<1>6. ListIntact' /\ Distinct'
  BY <1>1 DEF LockTail, list, locks, ListIntact, Distinct
<1>7. StepsOK'
  BY <1>1 DEF LockTail, list, locks, TypeOK, PlacesOK, StepsOK, Goto
<1> QED
  BY <1>2, <1>3, <1>4, <1>5, <1>6, <1>7

LEMMA SetDataPreserves ==
  ASSUME IInv, NEW t \in Producers, SetData(t)
  PROVE  IInv'
<1> USE NodesFacts DEF IInv
<1>1. t \in Threads
  BY DEF Threads, Poppers
<1>2. TypeOK'
  BY <1>1 DEF SetData, list, locks, TypeOK, Goto, Null
<1>3. PlacesOK'
  BY <1>1 DEF SetData, list, locks, TypeOK, PlacesOK, Goto, Threads, Poppers
<1>4. OwnOK'
  BY <1>1 DEF SetData, list, locks, TypeOK, OwnOK, PlacesOK, Goto, Null
<1>5. NoDangling'
  BY <1>1 DEF SetData, list, locks, TypeOK, NoDangling, InList, Goto, Null
<1>6. ListIntact' /\ Distinct'
  BY <1>1 DEF SetData, list, locks, ListIntact, Distinct
<1>7. StepsOK'
  <2>1. tail \in Node /\ head \in Node
    BY DEF TypeOK
  <2>2. \A u \in Threads : pc[u] \in {"take", "pop"} => head # tail
    BY FullMeansMore DEF StepsOK
  <2>3. \A u \in Threads : pc'[u] \in {"link", "tail"} => u = t
    BY <1>1 DEF SetData, locks, TypeOK, PlacesOK, Goto
  <2> QED
    BY <1>1, <2>1, <2>2, <2>3 DEF SetData, locks, TypeOK, PlacesOK, StepsOK, Goto
<1> QED
  BY <1>2, <1>3, <1>4, <1>5, <1>6, <1>7

LEMMA LinkPreserves ==
  ASSUME IInv, NEW t \in Producers, Link(t)
  PROVE  IInv'
<1> USE NodesFacts DEF IInv
<1>1. t \in Threads
  BY DEF Threads, Poppers
<1>2. TypeOK'
  BY <1>1 DEF Link, list, locks, TypeOK, Goto, Null
<1>3. PlacesOK'
  BY <1>1 DEF Link, list, locks, TypeOK, PlacesOK, Goto, Threads, Poppers
<1>4. OwnOK'
  <2>1. \A u \in Threads : pc[u] = "free" => ptr[u] # tail
    BY EndsInList DEF OwnOK, NoDangling
  <2> QED
    BY <1>1, <2>1 DEF Link, locks, TypeOK, OwnOK, PlacesOK, Goto, Null
<1>5. NoDangling'
  BY <1>1 DEF Link, list, locks, TypeOK, NoDangling, InList, Goto, Null
<1>6. ListIntact' /\ Distinct'
  BY <1>1 DEF Link, list, locks, ListIntact, Distinct
<1>7. StepsOK'
  BY <1>1 DEF Link, list, locks, TypeOK, PlacesOK, StepsOK, Goto
<1> QED
  BY <1>2, <1>3, <1>4, <1>5, <1>6, <1>7

LEMMA SetTailPreserves ==
  ASSUME IInv, NEW t \in Producers, SetTail(t)
  PROVE  IInv'
<1> USE NodesFacts DEF IInv
<1>1. t \in Threads
  BY DEF Threads, Poppers
<1> DEFINE N == Len(chain)
           new == ptr[t]
<1>2. new \in Node /\ new \notin InList /\ new \in allocated /\ value[t] \in Value
  BY <1>1 DEF SetTail, Goto, OwnOK, NoDangling, TypeOK, Null
<1>3. N \in Nat \ {0} /\ chain \in Seq(Node)
  BY EmptyMeansOne DEF TypeOK
<1>4. chain' = Append(chain, new)
  BY DEF SetTail
<1>5. /\ chain' \in Seq(Node) /\ Len(chain') = N + 1 /\ chain' # <<>>
      /\ \A i \in 1..N : chain'[i] = chain[i]
      /\ chain'[N + 1] = new
  BY <1>2, <1>3, <1>4, AppendFacts
<1>6. \A i \in 1..N : chain[i] # new
  BY <1>2 DEF InList
<1>7. TypeOK'
  BY <1>1, <1>2, <1>5 DEF SetTail, TypeOK, Goto, Null
<1>8. PlacesOK'
  BY <1>1 DEF SetTail, TypeOK, PlacesOK, Goto, Threads, Poppers
<1>9. OwnOK'
  BY <1>1 DEF SetTail, TypeOK, OwnOK, PlacesOK, Goto, Null
<1>10. NoDangling'
  <2>1. InList' = InList \cup {new}
    BY <1>3, <1>5 DEF InList
  <2> QED
    BY <1>1, <1>2, <2>1 DEF SetTail, TypeOK, NoDangling, Null
<1>11. ListIntact'
  <2>1. chain'[1] = head' /\ chain'[Len(chain')] = tail'
    BY <1>3, <1>5 DEF SetTail, ListIntact
  <2>2. next[tail] = new /\ data[tail] = value[t]
    BY <1>1 DEF SetTail, Goto, StepsOK
  <2>3. ASSUME NEW i \in 1..N
        PROVE  next'[chain'[i]] = chain'[i + 1] /\ data'[chain'[i]] \in Value
    <3>1. CASE i = N
      BY <1>2, <1>3, <1>5, <2>2, <3>1 DEF SetTail, ListIntact
    <3>2. CASE i # N
      <4>1. i \in 1..(N - 1) /\ i + 1 \in 1..N
        BY <1>3, <3>2
      <4> QED
        BY <1>5, <4>1 DEF SetTail, ListIntact
    <3> QED
      BY <3>1, <3>2
  <2> QED
    BY <1>3, <1>5, <2>1, <2>3 DEF ListIntact
<1>12. Distinct'
  <2>1. ASSUME NEW i \in 1..(N + 1), NEW j \in 1..(N + 1), chain'[i] = chain'[j]
        PROVE  i = j
    <3>1. CASE i \in 1..N /\ j \in 1..N
      BY <1>5, <2>1, <3>1 DEF Distinct
    <3>2. CASE i = N + 1 \/ j = N + 1
      BY <1>3, <1>5, <1>6, <2>1, <3>2
    <3> QED
      BY <1>3, <3>1, <3>2
  <2> QED
    BY <1>5, <2>1 DEF Distinct
<1>13. StepsOK'
  BY <1>1, <1>3, <1>5 DEF SetTail, TypeOK, PlacesOK, StepsOK, Goto
<1> QED
  BY <1>7, <1>8, <1>9, <1>10, <1>11, <1>12, <1>13

LEMMA NotifyPreserves ==
  ASSUME IInv, NEW t \in Producers, Notify(t)
  PROVE  IInv'
<1> USE NodesFacts DEF IInv
<1>1. t \in Threads
  BY DEF Threads, Poppers
<1>2. TypeOK'
  BY <1>1 DEF Notify, list, locks, TypeOK, Goto, Null
<1>3. PlacesOK'
  BY <1>1 DEF Notify, list, locks, TypeOK, PlacesOK, Goto, Threads, Poppers
<1>4. OwnOK'
  BY <1>1 DEF Notify, list, locks, TypeOK, OwnOK, PlacesOK, Goto, Null
<1>5. NoDangling'
  BY <1>1 DEF Notify, list, locks, TypeOK, NoDangling, InList, Goto, Null
<1>6. ListIntact' /\ Distinct'
  BY <1>1 DEF Notify, list, locks, ListIntact, Distinct
<1>7. StepsOK'
  BY <1>1 DEF Notify, list, locks, TypeOK, PlacesOK, StepsOK, Goto
<1> QED
  BY <1>2, <1>3, <1>4, <1>5, <1>6, <1>7

LEMMA LockHeadPreserves ==
  ASSUME IInv, NEW t \in Poppers, LockHead(t)
  PROVE  IInv'
<1> USE NodesFacts DEF IInv
<1>1. t \in Threads
  BY DEF Threads, Poppers
<1>2. TypeOK'
  BY <1>1 DEF LockHead, list, locks, TypeOK, Goto, Null
<1>3. PlacesOK'
  <2>1. pc' = [pc EXCEPT ![t] = "compare"] /\ headLock = None /\ headLock' = t
    BY DEF LockHead, Goto
  <2>2. tailLock' = tailLock /\ pc[t] \in {"idle", "wait"}
    BY DEF LockHead, Goto
  <2>3. \A u \in Threads : pc[u] \notin {"compare", "take", "pop", "sleep"}
    BY <2>1 DEF PlacesOK
  <2>4. \A u \in Threads : pc'[u] = IF u = t THEN "compare" ELSE pc[u]
    BY <1>1, <2>1 DEF TypeOK
  <2>5. \A u \in Producers : u # t
    BY ThreadsAssumption
  <2>6. \A u \in Threads :
          pc'[u] \in {"compare", "take", "pop", "sleep"} <=> headLock' = u
    BY <1>1, <2>1, <2>3, <2>4
  <2>7. \A u \in Threads : pc'[u] \in {"data", "link", "tail"} <=> tailLock' = u
    BY <1>1, <2>2, <2>4 DEF PlacesOK
  <2>8. /\ \A u \in Producers :
             pc'[u] \in {"idle", "lock", "data", "link", "tail", "notify"}
        /\ \A u \in Poppers :
             pc'[u] \in {"idle", "compare", "take", "pop", "free", "sleep", "wait"}
    BY <2>4, <2>5 DEF PlacesOK, Threads, Poppers
  <2> QED
    BY <2>6, <2>7, <2>8 DEF PlacesOK
<1>4. OwnOK'
  BY <1>1 DEF LockHead, list, locks, TypeOK, OwnOK, PlacesOK, Goto, Null
<1>5. NoDangling'
  BY <1>1 DEF LockHead, list, locks, TypeOK, NoDangling, InList, Goto, Null
<1>6. ListIntact' /\ Distinct'
  BY <1>1 DEF LockHead, list, locks, ListIntact, Distinct
<1>7. StepsOK'
  BY <1>1 DEF LockHead, list, locks, TypeOK, PlacesOK, StepsOK, Goto
<1> QED
  BY <1>2, <1>3, <1>4, <1>5, <1>6, <1>7

LEMMA CompareFullPreserves ==
  ASSUME IInv, NEW t \in Poppers, CompareFull(t)
  PROVE  IInv'
<1> USE NodesFacts DEF IInv
<1>1. t \in Threads
  BY DEF Threads, Poppers
<1>2. TypeOK'
  BY <1>1 DEF CompareFull, list, locks, TypeOK, Goto, Null
<1>3. PlacesOK'
  BY <1>1 DEF CompareFull, list, locks, TypeOK, PlacesOK, Goto, Threads, Poppers
<1>4. OwnOK'
  BY <1>1 DEF CompareFull, list, locks, TypeOK, OwnOK, PlacesOK, Goto, Null
<1>5. NoDangling'
  BY <1>1 DEF CompareFull, list, locks, TypeOK, NoDangling, InList, Goto, Null
<1>6. ListIntact' /\ Distinct'
  BY <1>1 DEF CompareFull, list, locks, ListIntact, Distinct
<1>7. StepsOK'
  <2>1. Len(chain) > 1
    BY FullMeansMore DEF CompareFull, Empty
  <2> QED
    BY <1>1, <2>1 DEF CompareFull, list, locks, TypeOK, PlacesOK, StepsOK, Goto
<1> QED
  BY <1>2, <1>3, <1>4, <1>5, <1>6, <1>7

LEMMA CompareEmptyPreserves ==
  ASSUME IInv, NEW t \in Pollers, CompareEmpty(t)
  PROVE  IInv'
<1> USE NodesFacts DEF IInv
<1>1. t \in Threads
  BY DEF Threads, Poppers
<1>2. TypeOK'
  BY <1>1 DEF CompareEmpty, list, locks, TypeOK, Goto, Null
<1>3. PlacesOK'
  BY <1>1 DEF CompareEmpty, list, locks, TypeOK, PlacesOK, Goto, Threads, Poppers
<1>4. OwnOK'
  BY <1>1 DEF CompareEmpty, list, locks, TypeOK, OwnOK, PlacesOK, Goto, Null
<1>5. NoDangling'
  BY <1>1 DEF CompareEmpty, list, locks, TypeOK, NoDangling, InList, Goto, Null
<1>6. ListIntact' /\ Distinct'
  BY <1>1 DEF CompareEmpty, list, locks, ListIntact, Distinct
<1>7. StepsOK'
  BY <1>1 DEF CompareEmpty, list, locks, TypeOK, PlacesOK, StepsOK, Goto
<1> QED
  BY <1>2, <1>3, <1>4, <1>5, <1>6, <1>7

LEMMA TakePreserves ==
  ASSUME IInv, NEW t \in Poppers, Take(t)
  PROVE  IInv'
<1> USE NodesFacts DEF IInv
<1>1. t \in Threads
  BY DEF Threads, Poppers
<1>2. TypeOK'
  BY <1>1 DEF Take, list, locks, TypeOK, Goto, Null
<1>3. PlacesOK'
  BY <1>1 DEF Take, list, locks, TypeOK, PlacesOK, Goto, Threads, Poppers
<1>4. OwnOK'
  <2>1. data[head] \in Value
    <3>1. Len(chain) \in Nat /\ Len(chain) > 1
      BY <1>1, EmptyMeansOne DEF Take, Goto, StepsOK
    <3>2. 1 \in 1..(Len(chain) - 1)
      BY <3>1
    <3> QED
      BY <3>2 DEF ListIntact
  <2> QED
    BY <1>1, <2>1 DEF Take, list, locks, TypeOK, OwnOK, PlacesOK, Goto, Null
<1>5. NoDangling'
  BY <1>1 DEF Take, list, locks, TypeOK, NoDangling, InList, Goto, Null
<1>6. ListIntact' /\ Distinct'
  BY <1>1 DEF Take, list, locks, ListIntact, Distinct
<1>7. StepsOK'
  BY <1>1 DEF Take, list, locks, TypeOK, PlacesOK, StepsOK, Goto
<1> QED
  BY <1>2, <1>3, <1>4, <1>5, <1>6, <1>7

LEMMA PopHeadPreserves ==
  ASSUME IInv, NEW t \in Poppers, PopHead(t)
  PROVE  IInv'
<1> USE NodesFacts DEF IInv
<1>1. t \in Threads
  BY DEF Threads, Poppers
<1> DEFINE N == Len(chain)
<1>2. N \in Nat /\ N > 1 /\ chain \in Seq(Node)
  BY <1>1, EmptyMeansOne DEF TypeOK, StepsOK, PopHead, Goto
<1>3. /\ chain' \in Seq(Node) /\ Len(chain') = N - 1 /\ chain' # <<>>
      /\ \A i \in 1..(N - 1) : chain'[i] = chain[i + 1]
  BY <1>2, TailFacts DEF PopHead
<1>4. chain[1] = head /\ head' = chain[2] /\ head' \in Node /\ tail' = chain[N]
  <2>1. 1 \in 1..(N - 1) /\ 2 \in 1..N
    BY <1>2
  <2> QED
    BY <1>2, <2>1 DEF ListIntact, PopHead
<1>5. \A i \in 1..(N - 1) : chain'[i] # head
  <2>1. \A i \in 1..(N - 1) : i + 1 \in 1..N /\ i + 1 # 1 /\ 1 \in 1..N
    BY <1>2
  <2> QED
    BY <1>3, <1>4, <2>1 DEF Distinct
<1>6. InList' = InList \ {head} /\ head \in InList
  <2>1. InList' \subseteq InList \ {head}
    <3>1. \A i \in 1..(N - 1) : i + 1 \in 1..N
      BY <1>2
    <3> QED
      BY <1>3, <1>5, <3>1 DEF InList
  <2>2. ASSUME NEW i \in 1..N, chain[i] # head
        PROVE  chain[i] \in InList'
    <3>1. i # 1
      BY <1>4, <2>2
    <3>2. i - 1 \in 1..(N - 1) /\ (i - 1) + 1 = i
      BY <1>2, <3>1
    <3>3. chain'[i - 1] = chain[i]
      BY <1>3, <3>2
    <3> QED
      BY <1>3, <3>2, <3>3 DEF InList
  <2>3. InList \ {head} \subseteq InList'
    BY <2>2 DEF InList
  <2> QED
    BY <2>1, <2>3, EndsInList
<1>7. TypeOK'
  BY <1>1, <1>3, <1>4 DEF PopHead, TypeOK, Goto, Null
<1>8. PlacesOK'
  BY <1>1 DEF PopHead, TypeOK, PlacesOK, Goto, Threads, Poppers
<1>9. OwnOK'
  BY <1>1 DEF PopHead, TypeOK, OwnOK, PlacesOK, Goto, Null
<1>10. NoDangling'
  <2>1. \A u \in Threads : ptr[u] # head
    BY <1>6 DEF NoDangling, TypeOK, Null
  <2> QED
    BY <1>1, <1>6, <2>1 DEF PopHead, TypeOK, NoDangling, Null
<1>11. ListIntact'
  <2>1. chain'[1] = head' /\ chain'[Len(chain')] = tail'
    <3>1. 1 \in 1..(N - 1) /\ N - 1 \in 1..(N - 1)
      BY <1>2
    <3> QED
      BY <1>2, <1>3, <1>4, <3>1
  <2>2. ASSUME NEW i \in 1..(N - 2)
        PROVE  next'[chain'[i]] = chain'[i + 1] /\ data'[chain'[i]] \in Value
    <3>1. i \in 1..(N - 1) /\ i + 1 \in 1..(N - 1)
      BY <1>2
    <3>2. chain'[i] = chain[i + 1] /\ chain'[i + 1] = chain[(i + 1) + 1]
      BY <1>3, <3>1
    <3>3. chain'[i] # head
      BY <1>5, <3>1
    <3>4. next'[chain'[i]] = next[chain'[i]] /\ data' = data
      <4>1. next' = [next EXCEPT ![head] = Null] /\ data' = data
        BY DEF PopHead
      <4>2. chain'[i] \in Node
        BY <1>3, <3>1
      <4> QED
        BY <3>3, <4>1, <4>2 DEF TypeOK
    <3> QED
      BY <3>1, <3>2, <3>4 DEF ListIntact
  <2> QED
    BY <1>2, <1>3, <2>1, <2>2 DEF ListIntact
<1>12. Distinct'
  <2>1. ASSUME NEW i \in 1..(N - 1), NEW j \in 1..(N - 1), chain'[i] = chain'[j]
        PROVE  i = j
    <3>1. i + 1 \in 1..N /\ j + 1 \in 1..N /\ chain[i + 1] = chain[j + 1]
      BY <1>2, <1>3, <2>1
    <3>2. i + 1 = j + 1
      BY <3>1 DEF Distinct
    <3> QED
      BY <3>2
  <2> QED
    BY <1>3, <2>1 DEF Distinct
<1>13. StepsOK'
  <2>1. tail # head /\ tail \in Node
    BY <1>2, FullMeansMore DEF TypeOK
  <2>2. \A u \in Threads : pc'[u] \notin {"take", "pop"}
    BY <1>1 DEF PopHead, TypeOK, PlacesOK, Goto
  <2> QED
    BY <1>1, <2>1, <2>2 DEF PopHead, TypeOK, PlacesOK, StepsOK, Goto
<1> QED
  BY <1>7, <1>8, <1>9, <1>10, <1>11, <1>12, <1>13

LEMMA FreePreserves ==
  ASSUME IInv, NEW t \in Poppers, Free(t)
  PROVE  IInv'
<1> USE NodesFacts DEF IInv
<1>1. t \in Threads
  BY DEF Threads, Poppers
<1> DEFINE old == ptr[t]
<1>2. old \in Node /\ old \notin InList /\ next[old] = Null
  BY <1>1 DEF Free, Goto, OwnOK, NoDangling, TypeOK, Null
<1>3. Owned(old) = {old}
  BY <1>2, OwnedAlone
<1>4. /\ allocated' = allocated \ {old}
      /\ data' = [n \in Node |-> IF n = old THEN None ELSE data[n]]
      /\ next' = [n \in Node |-> IF n = old THEN Null ELSE next[n]]
  BY <1>3 DEF Free
<1>5. InList' = InList
  BY DEF Free, InList
<1>6. \A u \in Threads : ptr[u] = old => u = t
  BY <1>1, <1>2 DEF NoDangling, Null
<1>7. TypeOK'
  BY <1>1, <1>4 DEF Free, locks, TypeOK, Goto, Null
<1>8. PlacesOK'
  BY <1>1 DEF Free, locks, TypeOK, PlacesOK, Goto, Threads, Poppers
<1>9. OwnOK'
  BY <1>1, <1>4, <1>6 DEF Free, locks, TypeOK, OwnOK, PlacesOK, Goto, Null
<1>10. NoDangling'
  BY <1>1, <1>2, <1>4, <1>5, <1>6 DEF Free, TypeOK, NoDangling, Null
<1>11. ListIntact' /\ Distinct'
  <2>1. \A i \in 1..Len(chain) : chain[i] \in Node /\ chain[i] # old
    BY <1>2 DEF InList, TypeOK
  <2>2. \A i \in 1..(Len(chain) - 1) : i \in 1..Len(chain)
    BY EmptyMeansOne
  <2>3. \A i \in 1..(Len(chain) - 1) :
          next'[chain[i]] = next[chain[i]] /\ data'[chain[i]] = data[chain[i]]
    BY <1>4, <2>1, <2>2
  <2> QED
    BY <2>3 DEF Free, ListIntact, Distinct
<1>12. StepsOK'
  <2>1. head # old /\ tail # old /\ head \in Node /\ tail \in Node
    BY <1>2, EndsInList DEF TypeOK
  <2>2. data'[head] = data[head] /\ data'[tail] = data[tail] /\ next'[tail] = next[tail]
    BY <1>4, <2>1
  <2> QED
    BY <1>1, <1>6, <2>2 DEF Free, locks, TypeOK, PlacesOK, OwnOK, StepsOK, Goto, Null
<1> QED
  BY <1>7, <1>8, <1>9, <1>10, <1>11, <1>12

LEMMA WaitEmptyPreserves ==
  ASSUME IInv, NEW t \in Waiters, WaitEmpty(t)
  PROVE  IInv'
<1> USE NodesFacts DEF IInv
<1>1. t \in Threads
  BY DEF Threads, Poppers
<1>2. TypeOK'
  BY <1>1 DEF WaitEmpty, list, locks, TypeOK, Goto, Null
<1>3. PlacesOK'
  BY <1>1 DEF WaitEmpty, list, locks, TypeOK, PlacesOK, Goto, Threads, Poppers
<1>4. OwnOK'
  BY <1>1 DEF WaitEmpty, list, locks, TypeOK, OwnOK, PlacesOK, Goto, Null
<1>5. NoDangling'
  BY <1>1 DEF WaitEmpty, list, locks, TypeOK, NoDangling, InList, Goto, Null
<1>6. ListIntact' /\ Distinct'
  BY <1>1 DEF WaitEmpty, list, locks, ListIntact, Distinct
<1>7. StepsOK'
  BY <1>1 DEF WaitEmpty, list, locks, TypeOK, PlacesOK, StepsOK, Goto
<1> QED
  BY <1>2, <1>3, <1>4, <1>5, <1>6, <1>7

LEMMA SleepPreserves ==
  ASSUME IInv, NEW t \in Waiters, Sleep(t)
  PROVE  IInv'
<1> USE NodesFacts DEF IInv
<1>1. t \in Threads
  BY DEF Threads, Poppers
<1>2. TypeOK'
  BY <1>1 DEF Sleep, list, locks, TypeOK, Goto, Null
<1>3. PlacesOK'
  BY <1>1 DEF Sleep, list, locks, TypeOK, PlacesOK, Goto, Threads, Poppers
<1>4. OwnOK'
  BY <1>1 DEF Sleep, list, locks, TypeOK, OwnOK, PlacesOK, Goto, Null
<1>5. NoDangling'
  BY <1>1 DEF Sleep, list, locks, TypeOK, NoDangling, InList, Goto, Null
<1>6. ListIntact' /\ Distinct'
  BY <1>1 DEF Sleep, list, locks, ListIntact, Distinct
<1>7. StepsOK'
  BY <1>1 DEF Sleep, list, locks, TypeOK, PlacesOK, StepsOK, Goto
<1> QED
  BY <1>2, <1>3, <1>4, <1>5, <1>6, <1>7

LEMMA WakeSpuriouslyPreserves ==
  ASSUME IInv, NEW t \in Waiters, WakeSpuriously(t)
  PROVE  IInv'
<1> USE NodesFacts DEF IInv
<1>1. t \in Threads
  BY DEF Threads, Poppers
<1>2. TypeOK'
  BY <1>1 DEF WakeSpuriously, list, locks, local, TypeOK, Goto, Null
<1>3. PlacesOK'
  BY <1>1 DEF WakeSpuriously, list, locks, local, TypeOK, PlacesOK, Goto, Threads, Poppers
<1>4. OwnOK'
  BY <1>1 DEF WakeSpuriously, list, locks, local, TypeOK, OwnOK, PlacesOK, Goto, Null
<1>5. NoDangling'
  BY <1>1 DEF WakeSpuriously, list, locks, local, TypeOK, NoDangling, InList, Goto, Null
<1>6. ListIntact' /\ Distinct'
  BY <1>1 DEF WakeSpuriously, list, locks, local, ListIntact, Distinct
<1>7. StepsOK'
  BY <1>1 DEF WakeSpuriously, list, locks, local, TypeOK, PlacesOK, StepsOK, Goto
<1> QED
  BY <1>2, <1>3, <1>4, <1>5, <1>6, <1>7
-----------------------------------------------------------------------------
LEMMA NextPreserves == IInv /\ [Next]_vars => IInv'
<1> SUFFICES ASSUME IInv, [Next]_vars PROVE IInv'
  OBVIOUS
<1>1. ASSUME NEW t \in Producers, Push(t)
      PROVE  IInv'
  BY <1>1, CallPushPreserves, LockTailPreserves, SetDataPreserves, LinkPreserves,
     SetTailPreserves, NotifyPreserves DEF Push
<1>2. ASSUME NEW t \in Poppers, PopStep(t)
      PROVE  IInv'
  BY <1>2, LockHeadPreserves, CompareFullPreserves, TakePreserves, PopHeadPreserves,
     FreePreserves DEF PopStep
<1>3. ASSUME NEW t \in Pollers, TryPop(t)
      PROVE  IInv'
  BY <1>2, <1>3, CompareEmptyPreserves DEF TryPop, Poppers
<1>4. ASSUME NEW t \in Waiters, WaitAndPop(t)
      PROVE  IInv'
  BY <1>2, <1>4, WaitEmptyPreserves, SleepPreserves, WakeSpuriouslyPreserves
     DEF WaitAndPop, Poppers
<1>5. CASE UNCHANGED vars
  BY <1>5 DEF vars, list, locks, local, IInv, TypeOK, PlacesOK, OwnOK, NoDangling,
     InList, ListIntact, Distinct, StepsOK
<1> QED
  BY <1>1, <1>3, <1>4, <1>5 DEF Next

(***************************************************************************)
(* The invariant of the list holds whatever threads push and pop, however  *)
(* they interleave.                                                        *)
(***************************************************************************)
THEOREM QueueInductive == Spec => []IInv
  BY InitIInv, NextPreserves, PTL DEF Spec

(***************************************************************************)
(* Every variable of the queue has its type.                               *)
(***************************************************************************)
THEOREM QueueTypeCorrect == Spec => []TypeOK
<1>1. IInv => TypeOK
  BY DEF IInv
<1> QED
  BY <1>1, QueueInductive, PTL

(***************************************************************************)
(* Whatever the interleaving, the nodes from head to tail form a list.     *)
(***************************************************************************)
THEOREM ListStaysIntact == Spec => []ListIntact
<1>1. IInv => ListIntact
  BY DEF IInv
<1> QED
  BY <1>1, QueueInductive, PTL

(***************************************************************************)
(* No thread holds a node that is gone, in the list or another's.          *)
(***************************************************************************)
THEOREM NothingDangles == Spec => []NoDangling
<1>1. IInv => NoDangling
  BY DEF IInv
<1> QED
  BY <1>1, QueueInductive, PTL
-----------------------------------------------------------------------------
\* What a place means to a caller of the queue.
LEMMA Places ==
  /\ \A p \in {"lock", "data", "link", "tail"} : PhaseOf(p) = "pushing"
  /\ \A p \in {"compare", "take", "pop", "sleep", "wait"} : PhaseOf(p) = "popping"
  /\ PhaseOf("free") = "popped"
  /\ \A p \in {"idle", "notify"} : PhaseOf(p) = "idle"
  BY DEF PhaseOf

LEMMA HeldPlaces ==
  ASSUME NEW v
  PROVE  /\ \A p \in {"lock", "data", "link", "tail", "free"} : HeldAt(p, v) = v
         /\ \A p \in {"compare", "take", "pop", "sleep", "wait", "idle", "notify"} :
              HeldAt(p, v) = None
  BY Places DEF HeldAt

\* One thread moves: so does its phase, and what it holds.
LEMMA Moves ==
  ASSUME TypeOK, NEW t \in Threads, NEW from, NEW to, Goto(t, from, to),
         NEW v, value'[t] = v,
         \A u \in Threads : u # t => value'[u] = value[u]
  PROVE  /\ Phase[t] = PhaseOf(from) /\ Phase' = [Phase EXCEPT ![t] = PhaseOf(to)]
         /\ Held[t] = HeldAt(from, value[t]) /\ Held' = [Held EXCEPT ![t] = HeldAt(to, v)]
<1>1. \A u \in Threads : /\ pc'[u] = IF u = t THEN to ELSE pc[u]
                         /\ value'[u] = IF u = t THEN v ELSE value[u]
  BY DEF Goto, TypeOK
<1>2. pc[t] = from
  BY DEF Goto
<1>3. Phase' = [u \in Threads |-> IF u = t THEN PhaseOf(to) ELSE PhaseOf(pc[u])]
  BY <1>1 DEF Phase
<1>4. Held' = [u \in Threads |->
                 IF u = t THEN HeldAt(to, v) ELSE HeldAt(pc[u], value[u])]
  BY <1>1 DEF Held
<1> QED
  BY <1>2, <1>3, <1>4 DEF Phase, Held

\* A place that means the same to the caller, a value that is not shown.
LEMMA Stays ==
  ASSUME TypeOK, NEW t \in Threads, NEW from, NEW to, Goto(t, from, to),
         PhaseOf(from) = PhaseOf(to),
         HeldAt(from, value[t]) = HeldAt(to, value'[t]),
         \A u \in Threads : u # t => value'[u] = value[u]
  PROVE  Phase' = Phase /\ Held' = Held
<1>1. \A u \in Threads : pc'[u] = IF u = t THEN to ELSE pc[u]
  BY DEF Goto, TypeOK
<1>2. pc[t] = from
  BY DEF Goto
<1>3. Phase' = Phase
  BY <1>1, <1>2 DEF Phase
<1>4. Held' = Held
  BY <1>1, <1>2 DEF Held
<1> QED
  BY <1>3, <1>4

\* The queue, by its members.
LEMMA QueueFacts ==
  ASSUME TypeOK, ListIntact
  PROVE  /\ Len(chain) - 1 \in Nat
         /\ Queue \in Seq(Value) /\ Len(Queue) = Len(chain) - 1
         /\ \A i \in 1..(Len(chain) - 1) : Queue[i] = data[chain[i]]
<1>1. Len(chain) - 1 \in Nat
  BY DEF TypeOK, ListIntact
<1>2. \A i \in 1..(Len(chain) - 1) : data[chain[i]] \in Value
  BY DEF ListIntact
<1> QED
  BY <1>1, <1>2 DEF Queue

LEMMA SameQueue ==
  ASSUME TypeOK, ListIntact, UNCHANGED chain,
         \A i \in 1..(Len(chain) - 1) : data'[chain[i]] = data[chain[i]]
  PROVE  Queue' = Queue
  BY DEF Queue

LEMMA EqualSequences ==
  ASSUME NEW S, NEW s \in Seq(S), NEW r \in Seq(S), Len(s) = Len(r),
         \A i \in 1..Len(s) : s[i] = r[i]
  PROVE  s = r
  OBVIOUS

LEMMA TailByMembers ==
  ASSUME NEW S, NEW s \in Seq(S), s # <<>>
  PROVE  Tail(s) = [i \in 1..(Len(s) - 1) |-> s[i + 1]]
<1> DEFINE r == [i \in 1..(Len(s) - 1) |-> s[i + 1]]
<1>1. Len(s) \in Nat \ {0} /\ Len(s) - 1 \in Nat
  OBVIOUS
<1>2. \A i \in 1..(Len(s) - 1) : i + 1 \in 1..Len(s)
  BY <1>1
<1>3. r \in Seq(S) /\ Len(r) = Len(s) - 1
  BY <1>1, <1>2
<1>4. Tail(s) \in Seq(S) /\ Len(Tail(s)) = Len(s) - 1
  OBVIOUS
<1>5. \A i \in 1..(Len(s) - 1) : Tail(s)[i] = s[i + 1]
  OBVIOUS
<1> QED
  BY <1>3, <1>4, <1>5, EqualSequences

LEMMA InitMaps == Init => Linear!Init
<1> SUFFICES ASSUME Init PROVE Linear!Init
  OBVIOUS
<1>1. Queue = <<>>
  BY DEF Init, Queue
<1>2. Phase = [t \in Threads |-> "idle"] /\ Held = [t \in Threads |-> None]
  BY Places, HeldPlaces DEF Init, Phase, Held
<1> QED
  BY <1>1, <1>2 DEF Linear!Init, Linear!Threads, Threads

\* What the caller of the queue sees in each step.
LEMMA CallPushMaps ==
  ASSUME IInv, NEW t \in Producers, NEW v \in Value, NEW n \in Node, CallPush(t, v, n)
  PROVE  Linear!CallPush(t, v)
<1> USE DEF IInv
<1>1. t \in Threads
  BY DEF Threads, Poppers
<1>2. Goto(t, "idle", "lock") /\ value'[t] = v
      /\ \A u \in Threads : u # t => value'[u] = value[u]
  BY <1>1 DEF CallPush, TypeOK
<1>3. /\ Phase[t] = "idle" /\ Phase' = [Phase EXCEPT ![t] = "pushing"]
      /\ Held' = [Held EXCEPT ![t] = v]
  BY <1>1, <1>2, Moves, Places, HeldPlaces
<1>4. Queue' = Queue
  <2>1. \A i \in 1..(Len(chain) - 1) : i \in 1..Len(chain)
    BY QueueFacts
  <2>2. \A i \in 1..(Len(chain) - 1) : chain[i] \in Node /\ chain[i] # n
    BY <2>1 DEF CallPush, NoDangling, InList, TypeOK
  <2>3. \A i \in 1..(Len(chain) - 1) : data'[chain[i]] = data[chain[i]]
    BY <2>2 DEF CallPush, TypeOK
  <2> QED
    BY <2>3, SameQueue DEF CallPush
<1> QED
  BY <1>3, <1>4 DEF Linear!CallPush

LEMMA LockTailMaps ==
  ASSUME IInv, NEW t \in Producers, LockTail(t)
  PROVE  UNCHANGED <<Queue, Phase, Held>>
<1> USE DEF IInv
<1>1. t \in Threads
  BY DEF Threads, Poppers
<1>2. Phase' = Phase /\ Held' = Held
  BY <1>1, Stays, Places, HeldPlaces DEF LockTail
<1> QED
  BY <1>2, SameQueue DEF LockTail, list

LEMMA SetDataMaps ==
  ASSUME IInv, NEW t \in Producers, SetData(t)
  PROVE  UNCHANGED <<Queue, Phase, Held>>
<1> USE DEF IInv
<1>1. t \in Threads
  BY DEF Threads, Poppers
<1>2. Phase' = Phase /\ Held' = Held
  BY <1>1, Stays, Places, HeldPlaces DEF SetData
<1>3. \A i \in 1..(Len(chain) - 1) : chain[i] \in Node /\ chain[i] # tail
  <2>1. \A i \in 1..(Len(chain) - 1) : i \in 1..Len(chain) /\ Len(chain) \in 1..Len(chain)
                                      /\ i # Len(chain)
    BY QueueFacts
  <2> QED
    BY <2>1 DEF ListIntact, Distinct, TypeOK
<1>4. \A i \in 1..(Len(chain) - 1) : data'[chain[i]] = data[chain[i]]
  BY <1>3 DEF SetData, TypeOK
<1> QED
  BY <1>2, <1>4, SameQueue DEF SetData

LEMMA LinkMaps ==
  ASSUME IInv, NEW t \in Producers, Link(t)
  PROVE  UNCHANGED <<Queue, Phase, Held>>
<1> USE DEF IInv
<1>1. t \in Threads
  BY DEF Threads, Poppers
<1>2. Phase' = Phase /\ Held' = Held
  BY <1>1, Stays, Places, HeldPlaces DEF Link
<1> QED
  BY <1>2, SameQueue DEF Link

LEMMA SetTailMaps ==
  ASSUME IInv, NEW t \in Producers, SetTail(t)
  PROVE  Linear!Enqueue(t)
<1> USE DEF IInv
<1>1. t \in Threads
  BY DEF Threads, Poppers
<1>2. Goto(t, "tail", "notify") /\ value'[t] = None
      /\ \A u \in Threads : u # t => value'[u] = value[u]
  BY <1>1 DEF SetTail, TypeOK
<1>3. /\ Phase[t] = "pushing" /\ Phase' = [Phase EXCEPT ![t] = "idle"]
      /\ Held[t] = value[t] /\ Held' = [Held EXCEPT ![t] = None]
  BY <1>1, <1>2, Moves, Places, HeldPlaces
<1>4. value[t] \in Value /\ data[tail] = value[t] /\ ptr[t] \in Node
  BY <1>1, <1>2, NodesFacts DEF Goto, OwnOK, StepsOK, TypeOK, Null
<1> DEFINE N == Len(chain)
<1>5. N \in Nat /\ N - 1 \in Nat /\ chain \in Seq(Node)
  BY QueueFacts DEF TypeOK
<1>6. /\ Len(chain') = N + 1 /\ \A i \in 1..N : chain'[i] = chain[i]
      /\ data' = data
  BY <1>4, <1>5, AppendFacts DEF SetTail
<1>7. Queue' = [i \in 1..N |-> data[chain[i]]]
  <2>1. Len(chain') - 1 = N
    BY <1>5, <1>6
  <2> QED
    BY <1>6, <2>1 DEF Queue
<1>8. /\ Queue \in Seq(Value) /\ Len(Queue) = N - 1
      /\ \A i \in 1..(N - 1) : Queue[i] = data[chain[i]]
  BY QueueFacts
<1>9. /\ Append(Queue, value[t]) \in Seq(Value) /\ Len(Append(Queue, value[t])) = N
      /\ \A i \in 1..(N - 1) : Append(Queue, value[t])[i] = Queue[i]
      /\ Append(Queue, value[t])[N] = value[t]
  <2> HIDE DEF N
  <2>1. (N - 1) + 1 = N
    BY <1>5
  <2> QED
    BY <1>4, <1>8, <2>1, AppendFacts
<1>10. \A i \in 1..N : data[chain[i]] = Append(Queue, value[t])[i]
  <2>1. data[chain[N]] = value[t]
    BY <1>4 DEF ListIntact
  <2>2. \A i \in 1..N : i = N \/ i \in 1..(N - 1)
    BY <1>5
  <2> QED
    BY <1>8, <1>9, <2>1, <2>2
<1>11. Queue' \in Seq(Value) /\ Len(Queue') = N
  BY <1>5, <1>7, <1>9, <1>10
<1>12. Queue' = Append(Queue, value[t])
  BY <1>7, <1>9, <1>10, <1>11, EqualSequences
<1> QED
  BY <1>3, <1>12 DEF Linear!Enqueue

LEMMA NotifyMaps ==
  ASSUME IInv, NEW t \in Producers, Notify(t)
  PROVE  UNCHANGED <<Queue, Phase, Held>>
<1> USE DEF IInv
<1>1. t \in Threads
  BY DEF Threads, Poppers
<1>2. Phase' = Phase /\ Held' = Held
  BY <1>1, Stays, Places, HeldPlaces DEF Notify
<1> QED
  BY <1>2, SameQueue DEF Notify, list

LEMMA LockHeadMaps ==
  ASSUME IInv, NEW t \in Poppers, LockHead(t)
  PROVE  Linear!CallPop(t) \/ UNCHANGED <<Queue, Phase, Held>>
<1> USE DEF IInv
<1>1. t \in Threads
  BY DEF Threads, Poppers
<1>2. Queue' = Queue
  BY SameQueue DEF LockHead, list
<1>3. CASE Goto(t, "idle", "compare")
  <2>1. Phase[t] = "idle" /\ Phase' = [Phase EXCEPT ![t] = "popping"]
    BY <1>1, <1>3, Moves, Places, HeldPlaces DEF LockHead
  <2>2. Held' = Held
    <3>1. Held[t] = None /\ Held' = [Held EXCEPT ![t] = None]
      BY <1>1, <1>3, Moves, HeldPlaces DEF LockHead
    <3>2. Held = [u \in Threads |-> Held[u]]
      BY DEF Held
    <3> QED
      BY <1>1, <3>1, <3>2
  <2> QED
    BY <1>2, <2>1, <2>2 DEF Linear!CallPop
<1>4. CASE Goto(t, "wait", "compare")
  BY <1>1, <1>2, <1>4, Stays, Places, HeldPlaces DEF LockHead
<1> QED
  BY <1>3, <1>4 DEF LockHead

LEMMA CompareFullMaps ==
  ASSUME IInv, NEW t \in Poppers, CompareFull(t)
  PROVE  UNCHANGED <<Queue, Phase, Held>>
<1> USE DEF IInv
<1>1. t \in Threads
  BY DEF Threads, Poppers
<1>2. Phase' = Phase /\ Held' = Held
  BY <1>1, Stays, Places, HeldPlaces DEF CompareFull
<1> QED
  BY <1>2, SameQueue DEF CompareFull, list

LEMMA CompareEmptyMaps ==
  ASSUME IInv, NEW t \in Pollers, CompareEmpty(t)
  PROVE  Linear!FindEmpty(t)
<1> USE DEF IInv
<1>1. t \in Threads
  BY DEF Threads, Poppers
<1>2. Queue' = Queue
  BY SameQueue DEF CompareEmpty, list
<1>3. Queue = <<>>
  <2>1. Len(chain) = 1
    BY EmptyMeansOne DEF CompareEmpty, Empty
  <2> QED
    BY <2>1 DEF Queue
<1>4. Goto(t, "compare", "idle") /\ UNCHANGED value
  BY DEF CompareEmpty
<1>5. /\ Phase[t] = "popping" /\ Phase' = [Phase EXCEPT ![t] = "idle"]
      /\ Held[t] = None /\ Held' = [Held EXCEPT ![t] = None]
  BY <1>1, <1>4, Moves, Places, HeldPlaces
<1>6. Held' = Held
  <2>1. Held = [u \in Threads |-> Held[u]]
    BY DEF Held
  <2> QED
    BY <1>1, <1>5, <2>1
<1> QED
  BY <1>2, <1>3, <1>5, <1>6 DEF Linear!FindEmpty

LEMMA TakeMaps ==
  ASSUME IInv, NEW t \in Poppers, Take(t)
  PROVE  UNCHANGED <<Queue, Phase, Held>>
<1> USE DEF IInv
<1>1. t \in Threads
  BY DEF Threads, Poppers
<1>2. \A u \in Threads : u # t => value'[u] = value[u]
  BY DEF Take, TypeOK
<1>3. Phase' = Phase /\ Held' = Held
  BY <1>1, <1>2, Stays, Places, HeldPlaces DEF Take
<1> QED
  BY <1>3, SameQueue DEF Take, list

LEMMA PopHeadMaps ==
  ASSUME IInv, NEW t \in Poppers, PopHead(t)
  PROVE  Linear!Dequeue(t)
<1> USE DEF IInv
<1>1. t \in Threads
  BY DEF Threads, Poppers
<1>2. Goto(t, "pop", "free") /\ UNCHANGED value
  BY DEF PopHead
<1>3. /\ Phase[t] = "popping" /\ Phase' = [Phase EXCEPT ![t] = "popped"]
      /\ Held' = [Held EXCEPT ![t] = value[t]]
  BY <1>1, <1>2, Moves, Places, HeldPlaces
<1> DEFINE N == Len(chain)
<1>4. N \in Nat /\ N > 1 /\ chain \in Seq(Node) /\ value[t] = data[head]
  BY <1>1, <1>2, QueueFacts DEF TypeOK, StepsOK, Goto
<1>5. /\ Queue \in Seq(Value) /\ Len(Queue) = N - 1
      /\ \A i \in 1..(N - 1) : Queue[i] = data[chain[i]]
  BY QueueFacts
<1>6. Queue # <<>> /\ Head(Queue) = value[t]
  <2>1. 1 \in 1..(N - 1)
    BY <1>4
  <2>2. Queue # <<>> /\ Head(Queue) = Queue[1]
    BY <1>5, <2>1
  <2> QED
    BY <1>4, <1>5, <2>1, <2>2 DEF ListIntact
<1>7. /\ Len(chain') = N - 1 /\ data' = data
      /\ \A i \in 1..(N - 1) : chain'[i] = chain[i + 1]
  BY <1>4, TailFacts DEF PopHead
<1>8. Queue' = [i \in 1..(N - 2) |-> Queue[i + 1]]
  <2>1. Len(chain') - 1 = N - 2
    BY <1>4, <1>7
  <2>2. \A i \in 1..(N - 2) : i \in 1..(N - 1) /\ i + 1 \in 1..(N - 1)
    BY <1>4
  <2>3. \A i \in 1..(N - 2) : data'[chain'[i]] = Queue[i + 1]
    BY <1>5, <1>7, <2>2
  <2>4. Queue' = [i \in 1..(N - 2) |-> data'[chain'[i]]]
    BY <2>1 DEF Queue
  <2> QED
    BY <2>3, <2>4
<1>9. Tail(Queue) = [i \in 1..(N - 2) |-> Queue[i + 1]]
  <2>1. Len(Queue) - 1 = N - 2
    BY <1>4, <1>5
  <2>2. Tail(Queue) = [i \in 1..(Len(Queue) - 1) |-> Queue[i + 1]]
    BY <1>5, <1>6, TailByMembers
  <2> QED
    BY <2>1, <2>2, Zenon
<1> QED
  BY <1>3, <1>6, <1>8, <1>9 DEF Linear!Dequeue

LEMMA FreeMaps ==
  ASSUME IInv, NEW t \in Poppers, Free(t)
  PROVE  Linear!ReturnPopped(t)
<1> USE DEF IInv
<1>1. t \in Threads
  BY DEF Threads, Poppers
<1>2. Goto(t, "free", "idle") /\ value'[t] = None
      /\ \A u \in Threads : u # t => value'[u] = value[u]
  BY <1>1 DEF Free, TypeOK
<1>3. /\ Phase[t] = "popped" /\ Phase' = [Phase EXCEPT ![t] = "idle"]
      /\ Held' = [Held EXCEPT ![t] = None]
  BY <1>1, <1>2, Moves, Places, HeldPlaces
<1>4. Queue' = Queue
  <2>1. ptr[t] \in Node /\ ptr[t] \notin InList /\ next[ptr[t]] = Null
    BY <1>1, <1>2, NodesFacts DEF Goto, OwnOK, NoDangling, TypeOK, Null
  <2>2. Owned(ptr[t]) = {ptr[t]}
    BY <2>1, OwnedAlone
  <2>3. \A i \in 1..(Len(chain) - 1) : i \in 1..Len(chain)
    BY QueueFacts
  <2>4. \A i \in 1..(Len(chain) - 1) : chain[i] \in Node /\ chain[i] # ptr[t]
    BY <2>1, <2>3 DEF InList, TypeOK
  <2>5. \A i \in 1..(Len(chain) - 1) : data'[chain[i]] = data[chain[i]]
    BY <2>2, <2>4 DEF Free
  <2> QED
    BY <2>5, SameQueue DEF Free
<1> QED
  BY <1>3, <1>4 DEF Linear!ReturnPopped

LEMMA WaitEmptyMaps ==
  ASSUME IInv, NEW t \in Waiters, WaitEmpty(t)
  PROVE  UNCHANGED <<Queue, Phase, Held>>
<1> USE DEF IInv
<1>1. t \in Threads
  BY DEF Threads, Poppers
<1>2. Phase' = Phase /\ Held' = Held
  BY <1>1, Stays, Places, HeldPlaces DEF WaitEmpty
<1> QED
  BY <1>2, SameQueue DEF WaitEmpty, list

LEMMA SleepMaps ==
  ASSUME IInv, NEW t \in Waiters, Sleep(t)
  PROVE  UNCHANGED <<Queue, Phase, Held>>
<1> USE DEF IInv
<1>1. t \in Threads
  BY DEF Threads, Poppers
<1>2. Phase' = Phase /\ Held' = Held
  BY <1>1, Stays, Places, HeldPlaces DEF Sleep
<1> QED
  BY <1>2, SameQueue DEF Sleep, list

LEMMA WakeSpuriouslyMaps ==
  ASSUME IInv, NEW t \in Waiters, WakeSpuriously(t)
  PROVE  UNCHANGED <<Queue, Phase, Held>>
  BY DEF WakeSpuriously, list, local, Queue, Phase, Held

LEMMA NextMaps ==
  IInv /\ [Next]_vars => [Linear!Next]_<<Queue, Phase, Held>>
<1> SUFFICES ASSUME IInv, [Next]_vars
             PROVE  Linear!Next \/ UNCHANGED <<Queue, Phase, Held>>
  OBVIOUS
<1>1. ASSUME NEW t \in Producers, Push(t)
      PROVE  Linear!Next \/ UNCHANGED <<Queue, Phase, Held>>
  <2>1. ASSUME NEW v \in Value, NEW n \in Node, CallPush(t, v, n)
        PROVE  Linear!Next
    BY <1>1, <2>1, CallPushMaps DEF Linear!Next
  <2>2. CASE SetTail(t)
    BY <1>1, <2>2, SetTailMaps DEF Linear!Next
  <2> QED
    BY <1>1, <2>1, <2>2, LockTailMaps, SetDataMaps, LinkMaps, NotifyMaps DEF Push
<1>2. ASSUME NEW t \in Poppers, PopStep(t)
      PROVE  Linear!Next \/ UNCHANGED <<Queue, Phase, Held>>
  <2>1. t \in Linear!Poppers
    BY <1>2 DEF Linear!Poppers, Poppers
  <2>2. CASE LockHead(t)
    BY <1>2, <2>1, <2>2, LockHeadMaps DEF Linear!Next
  <2>3. CASE PopHead(t)
    BY <1>2, <2>1, <2>3, PopHeadMaps DEF Linear!Next
  <2>4. CASE Free(t)
    BY <1>2, <2>1, <2>4, FreeMaps DEF Linear!Next
  <2> QED
    BY <1>2, <2>2, <2>3, <2>4, CompareFullMaps, TakeMaps DEF PopStep
<1>3. ASSUME NEW t \in Pollers, TryPop(t)
      PROVE  Linear!Next \/ UNCHANGED <<Queue, Phase, Held>>
  <2>1. CASE CompareEmpty(t)
    BY <1>3, <2>1, CompareEmptyMaps DEF Linear!Next
  <2> QED
    BY <1>2, <1>3, <2>1 DEF TryPop, Poppers
<1>4. ASSUME NEW t \in Waiters, WaitAndPop(t)
      PROVE  Linear!Next \/ UNCHANGED <<Queue, Phase, Held>>
  BY <1>2, <1>4, WaitEmptyMaps, SleepMaps, WakeSpuriouslyMaps DEF WaitAndPop, Poppers
<1>5. CASE UNCHANGED vars
  BY <1>5 DEF vars, list, local, Queue, Phase, Held
<1> QED
  BY <1>1, <1>3, <1>4, <1>5 DEF Next

(***************************************************************************)
(* The two-lock list is a linearizable queue: each push and each pop takes *)
(* effect at one moment between its call and its return, and try_pop gives *)
(* up only when the queue is empty at such a moment.                       *)
(***************************************************************************)
THEOREM QueueIsLinearizable == Spec => ImplementsQueue
<1>1. Spec => []IInv
  BY QueueInductive
<1> QED
  BY <1>1, InitMaps, NextMaps, PTL DEF Spec, ImplementsQueue, Linear!Spec

\* Pushes and pops at the same node leave an intact list without loose pointers.
THEOREM ListStaysSound == Spec => []ListSound
BY ListStaysIntact, NothingDangles, PTL DEF ListSound
=============================================================================
