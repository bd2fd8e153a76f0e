SPECIFICATION RebootSpec
CONSTANTS
  MaxBoots = 2
INVARIANTS TrueBoot
PROPERTIES Returns
CHECK_DEADLOCK FALSE
