SPECIFICATION Spec
CONSTANTS
  sub = sub
  a = a
  b = b
  SubDirs = {sub}
  Files = {a, b}
  Root = Root
  In <- MCIn
  Forms = {"plain", "dot", "dotdot"}
  Rank <- MCRank
  Sizes <- MCSizes
  MaxSize = 3
  LargeSize = 3
  MaxInt = 1000
  MaxChanges = 1
INVARIANTS AllPushed DirsMade CountsAgree ProgressTrue LateReports PushedWhere KindTrue
PROPERTIES CancelReturns RoutineEnds
CHECK_DEADLOCK FALSE
