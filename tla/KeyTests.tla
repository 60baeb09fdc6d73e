------------------------------ MODULE KeyTests ------------------------------
(***************************************************************************)
(* switchs_test (TaskHandler.cpp) and waitForKeyPress() (Key.cpp).  Each   *)
(* wait looks for the input devices of the board in /dev/input, opens them *)
(* and waits for one event.  An item is a key the board knows ("key"), one *)
(* it does not ("other") or one that is not enabled ("off"); the code of a *)
(* key is its place in the list.                                           *)
(***************************************************************************)
EXTENDS Descriptors

CONSTANT EventNodes \* the input devices: a name of the board, or None

KeyNames == {EventNodes[n] : n \in DOMAIN EventNodes} \ {None}

ASSUME KeyAssumption ==
  Len(EventNodes) \in Nat /\ DOMAIN EventNodes = 1..Len(EventNodes) /\ KeyNames # {}

VARIABLE keyPath \* Key::keyEventNamesToPath: where each name was last found

Wanted(k) == {x \in DOMAIN plan[k].items : plan[k].items[x] # "off"}
KeyFresh(k) ==
  [Fresh EXCEPT !.at = "key",
                !.items = [x \in DOMAIN plan[k].items |-> IF x \in Wanted(k) THEN "none" ELSE "SKIP"]]
\* keyMap of the test: the keys that have not been pressed.
Remaining(k) == {x \in Wanted(k) : th[k].items[x] # "OK"}
-----------------------------------------------------------------------------
\* The loop of the test: with nothing to wait for it ends without a result.
KeyLoop(k) ==
  /\ At(k, "key") /\ UNCHANGED keyPath
  /\ IF Remaining(k) = {} \/ k \in stopped THEN Quits(k)
     ELSE Local(k, [th[k] EXCEPT !.at = "scan", !.n = 1, !.count = 0, !.ports = <<>>])

\* The scan leaves every device open whose name it could read.
NextNode(k) == [th[k] EXCEPT !.at = "scan", !.n = @ + 1]
ScanNode(k) ==
  /\ At(k, "scan") /\ th[k].n <= Len(EventNodes) /\ UNCHANGED keyPath
  /\ Open(k, <<"event", th[k].n>>, To(th[k], "name"), NextNode(k))
NodeName(k) ==
  /\ At(k, "name")
  /\ LET name == EventNodes[th[k].n]
     IN \/ /\ name # None
           /\ Works(k, th[k].fd, [NextNode(k) EXCEPT !.count = @ + 1])
           /\ keyPath' = [keyPath EXCEPT ![name] = th[k].n]
        \/ name = None /\ Works(k, th[k].fd, NextNode(k)) /\ UNCHANGED keyPath
        \/ FailsAndCloses(k, th[k].fd, NextNode(k)) /\ UNCHANGED keyPath
ScanEnds(k) ==
  /\ At(k, "scan") /\ th[k].n > Len(EventNodes) /\ UNCHANGED keyPath
  /\ IF th[k].count = Cardinality(KeyNames) THEN Local(k, To(th[k], "targets")) ELSE Quits(k)

\* All devices of the board are opened once more; one that fails ends the test.
ToOpen(k) == {name \in KeyNames : \A p \in DOMAIN th[k].ports : th[k].ports[p].name # name}
Target(name, n) == [name |-> name, fd |-> n]
Ports(k) == {th[k].ports[p].fd : p \in DOMAIN th[k].ports}
TargetOpen(k) ==
  /\ At(k, "targets") /\ ToOpen(k) # {} /\ UNCHANGED keyPath
  /\ LET name == CHOOSE x \in ToOpen(k) : TRUE
         Opens(n) == [th[k] EXCEPT !.ports = Append(@, Target(name, n))]
     IN Open(k, <<"event", keyPath[name]>>, Opens(Lowest), Opens(-1))
TargetsEnd(k) ==
  /\ At(k, "targets") /\ ToOpen(k) = {} /\ UNCHANGED keyPath
  /\ IF -1 \in Ports(k) THEN CloseAll(k, Ports(k) \ {-1}, To(th[k], "done"))
     ELSE Local(k, To(th[k], "select"))

\* select(): a key goes down or up, the time is over, or anything else, an
\* autorepeat, a synchronisation event or an error, which ends the test.
KeyEvent(k, x) ==
  /\ At(k, "select") /\ x \in Wanted(k) /\ Ports(k) \cap OwnedBy(k) # {} /\ UNCHANGED keyPath
  /\ CloseAll(k, Ports(k),
       IF x \notin Remaining(k) \/ plan[k].items[x] = "other" THEN To(th[k], "key")
       ELSE Shows([th[k] EXCEPT !.at = IF Remaining(k) = {x} THEN "send" ELSE "key",
                                !.items[x] = "OK"], x))
KeyTimeout(k) ==
  /\ At(k, "select") /\ UNCHANGED keyPath
  /\ CloseAll(k, Ports(k), To(th[k], "key"))
KeyNoise(k) ==
  /\ At(k, "select") /\ UNCHANGED keyPath
  /\ CloseAll(k, Ports(k), Meets(To(th[k], "done"), {"noise"}))

KeyStep(k) ==
  /\ \/ KeyLoop(k) \/ ScanNode(k) \/ NodeName(k) \/ ScanEnds(k) \/ TargetOpen(k)
     \/ TargetsEnd(k) \/ KeyTimeout(k) \/ KeyNoise(k)
     \/ \E x \in DOMAIN plan[k].items : KeyEvent(k, x)
  /\ UNCHANGED alive
=============================================================================
