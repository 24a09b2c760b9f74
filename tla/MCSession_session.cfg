SPECIFICATION MCSpec
CONSTANTS
  Indices = {1, 2, 3, 4}
  Proposed <- Least
  Workers = {1, 2}
  None = 0
  PersistentKeepalive = TRUE
  MaxEphemeral = 4
  MaxTimerHandshakes = 0
  RekeyAfterMessages = 0
  RejectAfterMessages = 1
  MaxEvents = 3
  Senders = {s1}
  HsWorkers = {w1, w2}
  MaxQueued = 2
  CrowdedAbove = 1
  LoadedFrom = 1
  LoadTime = 1
  MaxAge = 2
  Latency = 1
  NoCookie = NoCookie
  MaxSent = 3
  MaxBoottime = 3
  Callers = {c1, c2}
  Ips = {i1}
  Entries = {e1, e2, e3}
  PacketCost = 1
  Burstable = 1
  Second = 2
  MaxEntries = 3
  MaxUsers = 1
  MaxClock = 3
  MaxGrants = 7
  RateSources = {a, b, c}
  SourceSlots = 2
  Burst = 1
  Window = 2
  NoSource = NoSource
  MaxAccepts = 8
  MaxJiffies = 2
CHECK_DEADLOCK FALSE
INVARIANT ConfirmedKeyShared
INVARIANT NonceUsedOnce
INVARIANT IndexFindsKeypair
INVARIANT KeysWillBeErased
 
INVARIANT CookieFresh
 
INVARIANT AcceptBound
