SPECIFICATION Spec
CONSTANTS
  a1 = a1
  a2 = a2
  b1 = b1
  s1 = s1
  s2 = s2
  Sockets = {s1, s2}
  None = None
  Addrs = {a1, b1}
  Families = {"v4", "v6"}
  Family <- TwoFamilies
  Host <- Hosts
  Inputs = {"auth","close","stop","fail","touch"}
  MaxConn = 2
  MaxPending = 1
  MaxTracked = 2
  PerSource = 1
  IdleTimeout = 2
  MaxLifetime = 3
  Interval = 2
SYMMETRY Symmetry
INVARIANT SoleOwner
 
INVARIANT DeadlineHolds
 
INVARIANT CountsExact
INVARIANT CapsHold
