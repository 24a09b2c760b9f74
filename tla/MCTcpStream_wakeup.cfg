SPECIFICATION FairSpec
CONSTANTS
  RecLen <- Lengths
  Hdr = 2
  MaxCarrier = 1
  SndBuf = 3
  LowWater = 2
  QueueLimit = 1
  Budget = 1
  ReadSize = 4
  MaxFaults = 0
PROPERTY NothingStays
CHECK_DEADLOCK FALSE
