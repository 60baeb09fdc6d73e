SPECIFICATION Spec
CONSTANTS
  Producers = {p1, p2}
  Pollers = {c1}
  Waiters = {w1}
  Value = {a, b}
  Node = {n1, n2, n3}
  None = None
INVARIANTS
  TypeOK
  ListSound
PROPERTIES
  ImplementsQueue
  EveryPushPopped
