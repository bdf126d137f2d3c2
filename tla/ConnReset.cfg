CONSTANTS
  TrackMsgs = {}
  TaskMsgs = {}
  HookMsgs = {}
  OpenMsgs = {}
  MsgLen = 1
  SndBuf = 1
  ChunkSize = 1
  Platforms = {"epoll"}
  MaxReads = 0
  CanReset = TRUE
  UserCode = {"closeInTrack"}
SPECIFICATION CSpec
PROPERTY
  ResetCloses
CHECK_DEADLOCK FALSE
