SPECIFICATION FairSpec
CONSTANTS
  RecLen <- Lengths
  Hdr = 2
  MaxCarrier = 2
  SndBuf = 2
  LowWater = 2
  QueueLimit = 1
  Budget = 1
  ReadSize = 4
  MaxFaults = 1
INVARIANT StreamContiguous
 
PROPERTY BegunIsFinished
CHECK_DEADLOCK FALSE
