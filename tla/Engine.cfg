CONSTANTS
  NumOfLoops = 2
  Stoppers = {s1, s2}
  MaxClients = 2
  CanFail = TRUE
SPECIFICATION ESpec
INVARIANTS
  ETypeOK
  LoopsEndFirst
  PollersAreReleased
PROPERTY
  ServeReturns
CHECK_DEADLOCK FALSE
