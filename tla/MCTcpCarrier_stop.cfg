SPECIFICATION Spec
CONSTANTS
  s1 = s1
  s2 = s2
  Sockets = {s1, s2}
  None = None
  MaxConn = 1
  Inputs = {"roam", "traffic", "stop"}
SYMMETRY Symmetry
INVARIANT CarrierInv
INVARIANT StopQuiesces
