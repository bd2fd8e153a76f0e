\* A death of the server that does not restart it.
SPECIFICATION FairSpec
CONSTANTS
  Serials = {s1, s2}
  Listable = {"device", "recovery"}
  MaxChanges = 2
  MaxDeaths = 1
  MaxInFlight = 3
PROPERTY DeathIsRetried
CHECK_DEADLOCK FALSE
