SPECIFICATION MCSpec
CONSTANTS
  Packets = {k1, k2, k3}
  Producers = {p1, p2}
  Workers = {w1, w2}
  None = None
  MaxQueuedPackets = 2
  Budget = 2
  MaxEnqueued = 3
  BitsPerLong = 2
  Longs = 4
  Width = 32
  MaxNonces = 4
CHECK_DEADLOCK FALSE
INVARIANT ListIsQueue
INVARIANT HeldIsQueued
INVARIANT FlushedTwiceIsEmpty
INVARIANT ReplayExact
PROPERTY EveryPacketLeaves
