SPECIFICATION Spec
CONSTANTS
  Worker = {w1, w2}
  None = None
  Script <- AllScript
  CtrlC <- MCCtrlC
INVARIANTS
  TypeOK
  AnswersInOrder
  StopReachesAll
PROPERTIES
  StopFreesPool
  TestsAnswered
  CalmShutdownEnds
CHECK_DEADLOCK FALSE
