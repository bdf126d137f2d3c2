CONSTANTS
  TrackMsgs = {}
  TaskMsgs = {t1}
  HookMsgs = {}
  OpenMsgs = {o1}
  MsgLen = 2
  SndBuf = 1
  ChunkSize = 1
  Platforms = {"epoll"}
  MaxReads = 1
  CanReset = TRUE
  UserCode = {"closeInTrack", "closeInOpen", "closeInHook", "writeAfterClose"}
SPECIFICATION CSafe
SYMMETRY Symmetry
INVARIANTS
  NoByteTwice
  ClosedOnce
  CountIsConnections
  NoForeignAccess
  TrackHasContext
CHECK_DEADLOCK FALSE
