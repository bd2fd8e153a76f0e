SPECIFICATION Spec
CONSTANTS
  MaxOutput = 3
INVARIANTS Released HandedClean OutputWhole OneLateWrite
PROPERTIES Returns RoutineEnds
CHECK_DEADLOCK FALSE
