SPECIFICATION MCSpec
CONSTANTS
  Bits = 2
  Networks <- MCNetworks
  Addresses <- MCAddresses
  Peers = {p1, p2}
  Readers = {r1}
  Copies = 2
  MaxChanges = 2
  None = None
  x = x
  y = y
  z = z
  Objects = {o1, o2, o3}
  Null = Null
  Requests <- MCRequests
  MaxPeers = 2
  MaxMemory = 3
  MaxRooms = 3
  MaxRequests = 4
SYMMETRY Symmetry
CHECK_DEADLOCK FALSE
INVARIANT RemovedCursorEnds
