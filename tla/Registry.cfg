CONSTANTS
  Conns = {c1, c2}
  Jobs = {j1, j2}
  Handler = j1
  MaxCloses = 3
  NumOfLoops = 2
  LoadBalancers = {"RoundRobin", "LeastConn"}
  NoConn = NoConn
SPECIFICATION Spec
SYMMETRY Symmetry
INVARIANTS
  RegistryTypeOK
  EventReachesOwner
  ListedUnlessReused
  ClosedIsForgotten
  CountAccountsForAll
CHECK_DEADLOCK FALSE
