CONSTANTS
  MaxPid = 3
  StartProcs = 3
  MaxProcs = 4
  ShortLines = 1
SPECIFICATION Spec
INVARIANTS ListTrue KilledTrue OnlyGroup
CHECK_DEADLOCK FALSE
