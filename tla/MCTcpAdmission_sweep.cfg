SPECIFICATION FairSpec
CONSTANTS
  a1 = a1
  a2 = a2
  b1 = b1
  s1 = s1
  s2 = s2
  Sockets = {s1, s2}
  None = None
  Addrs = {a1}
  Families = {"v4"}
  Family <- OneFamily
  Host <- Hosts
  Inputs = {"auth", "close", "stop"}
  MaxConn = 2
  MaxPending = 2
  MaxTracked = 2
  PerSource = 2
  IdleTimeout = 1
  MaxLifetime = 2
  Interval = 1
PROPERTY ClosedIsSwept
PROPERTY StopFinishes
