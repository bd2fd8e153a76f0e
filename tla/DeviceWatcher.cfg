\* Safety, refinement and convergence of one watcher: two devices, every kind
\* of state (online, known, unknown to the parser), two deaths of the server.
SPECIFICATION FairSpec
CONSTANTS
  Serials = {s1, s2}
  Listable = {"device", "offline", "recovery"}
  MaxChanges = 3
  MaxDeaths = 2
  MaxInFlight = 3
INVARIANTS ViewTracksLastKnown NoGhosts CaughtUp
PROPERTIES Implements Converges
CHECK_DEADLOCK FALSE
