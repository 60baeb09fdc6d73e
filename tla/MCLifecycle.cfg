SPECIFICATION Spec
CONSTANT Workers = 3
INVARIANTS
  TypeOK
  ExitIsClean
PROPERTIES
  StopEnds
  RedLampBlinks
CHECK_DEADLOCK FALSE
