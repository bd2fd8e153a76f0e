CONSTANTS
  MaxCalls = 3
  MaxNoise = 1
SPECIFICATION Spec
INVARIANTS SuccessTrue
CHECK_DEADLOCK FALSE
