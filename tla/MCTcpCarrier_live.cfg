SPECIFICATION FairSpec
CONSTANTS
  s1 = s1
  s2 = s2
  Sockets = {s1, s2}
  None = None
  MaxConn = 0
  Inputs = {"send", "traffic", "stop", "remove"}
PROPERTY StopCompletes
PROPERTY ClosedOutboundRetired
PROPERTY ReconnectFollowsClose
 
