SPECIFICATION Spec
CONSTANTS
  f1 = f1
  f2 = f2
  File = {f1, f2}
  MaxSize = 2
  SyncMaxChunkSize = 1
  DeviceChunk = 2
  Ops = {"pull"}
  Lossy = TRUE
  MaxCalls = 2
  MaxWork = 2
  Dir = Dir
  Absent = Absent
INVARIANT PullComplete
CHECK_DEADLOCK FALSE
