SPECIFICATION Spec
CONSTANTS
  s1 = s1
  s2 = s2
  Sockets = {s1, s2}
  None = None
  MaxConn = 0
  Inputs = {"config", "route", "send", "traffic", "fail", "stop", "remove"}
SYMMETRY Symmetry
 
PROPERTY DrainBeforeRelease
