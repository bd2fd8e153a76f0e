SPECIFICATION Spec
CONSTANTS
  f1 = f1
  f2 = f2
  File = {f1, f2}
  MaxSize = 2
  SyncMaxChunkSize = 1
  DeviceChunk = 2
  Ops = {"stat", "list", "pull", "push", "pushdir", "cmdpush"}
  Lossy = TRUE
  MaxCalls = 2
  MaxWork = 2
  Dir = Dir
  Absent = Absent
INVARIANTS TypeOK PulledPrefix PushTrue ListTrue InStep
PROPERTIES CallsEnd ImplementsService
CHECK_DEADLOCK FALSE
