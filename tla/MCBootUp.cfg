SPECIFICATION Spec
CONSTANTS
  Devices = {"sda1", "sdb1"}
  Programs = {"p"}
  Pids = {1}
  MaxChanges = 3
INVARIANTS
  TypeOK
  ProgramAccounted
  IdleIsClean
PROPERTIES
  RemovalEndsProgram
  InsertionStartsProgram
