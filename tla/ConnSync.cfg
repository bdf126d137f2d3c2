CONSTANTS
  TrackMsgs = {m1, m2}
  TaskMsgs = {}
  HookMsgs = {}
  OpenMsgs = {}
  MsgLen = 3
  SndBuf = 2
  ChunkSize = 2
  Platforms = {"epoll", "kqueue"}
  MaxReads = 2
  CanReset = FALSE
  UserCode = {"closeInTrack"}
SPECIFICATION CSpec
INVARIANTS
  StreamIntact
  InterestMatchesBuffer
PROPERTIES
  BufferDrains
  FinCloses
CHECK_DEADLOCK FALSE
