CONSTANTS
  NumOfLoops = 1
  Stoppers = {s1}
  MaxClients = 0
  CanFail = FALSE
SPECIFICATION ESpec
PROPERTY
  StopIsSeen
CHECK_DEADLOCK FALSE
