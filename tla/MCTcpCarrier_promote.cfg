SPECIFICATION Spec
CONSTANTS
  s1 = s1
  s2 = s2
  Sockets = {s1, s2}
  None = None
  MaxConn = 2
  Inputs = {}
SYMMETRY Symmetry
INVARIANT OneOwner
INVARIANT CallbackOwner
 
