CONSTANTS
  Conns = {c1, c2, c3}
  Jobs = {j1, j2}
  Handler = j1
  MaxCloses = 2
  NumOfLoops = 2
  LoadBalancers = {"RoundRobin"}
  NoConn = NoConn
SPECIFICATION Spec
INVARIANT
  NextIsALoop
CHECK_DEADLOCK FALSE
