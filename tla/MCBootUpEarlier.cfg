SPECIFICATION Spec
CONSTANTS
  Devices = {"sda1", "sdb1"}
  Programs = {"p", "q"}
  Pids = {1}
  MaxChanges = 2
INVARIANTS
  TypeOK
  RunsOwnStick
  LeftoversKnown
PROPERTIES
  RemovalEndsOne
