SPECIFICATION Spec
CONSTANT Chunks = 1
PROPERTY BothStart
CHECK_DEADLOCK FALSE
