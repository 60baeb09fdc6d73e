SPECIFICATION Spec
CONSTANTS
  Worker = {w1, w2}
  None = None
  Script <- KeyScript
  CtrlC <- KeyScript
PROPERTIES
  CtrlCEnds
CHECK_DEADLOCK FALSE
