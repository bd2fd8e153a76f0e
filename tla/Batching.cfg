SPECIFICATION Spec
CONSTANTS
  short = short
  long = long
  spaced = spaced
  quoted = quoted
  Path = {short, long, spaced, quoted}
  Length <- MCLength
  Spaced = {spaced}
  DoubleQuoted = {quoted}
  Budget <- MCBudget
  Overhead <- MCOverhead
  MaxPayload = 10
  MaxList = 4
INVARIANTS Conserved OnlyOddPathsTooLong DoneTrue
CHECK_DEADLOCK FALSE
