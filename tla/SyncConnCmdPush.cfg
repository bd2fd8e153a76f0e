SPECIFICATION Spec
CONSTANTS
  f1 = f1
  f2 = f2
  File = {f1, f2}
  MaxSize = 2
  SyncMaxChunkSize = 1
  DeviceChunk = 2
  Ops = {"cmdpush"}
  Lossy = FALSE
  MaxCalls = 2
  MaxWork = 2
  Dir = Dir
  Absent = Absent
PROPERTY CmdPushTrue
CHECK_DEADLOCK FALSE
