\* One command with every kind of Stdin and Stdout, an exit, a lost connection
\* and a concurrent Close at every point.
SPECIFICATION FairSpec
CONSTANTS
  MaxOutput = 2
  MaxInput = 1
INVARIANTS ExitStatusTrue WaitReleases
PROPERTIES WaitReturns DrainEnds
CHECK_DEADLOCK FALSE
