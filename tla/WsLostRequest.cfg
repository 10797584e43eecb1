SPECIFICATION Spec
CONSTANTS
  r1 = r1
  r2 = r2
  r3 = r3
  s1 = s1
  s2 = s2
  NoChunk = NoChunk
  Garbage = Garbage
  AutoReconnect = TRUE
  OnTimeout = FALSE
  MaxAttempts = 0
  AppCalls <- Reconnects
  Chunking = FALSE
  Requests <- TwoRequests
  Unserializable <- NoRequests
  Sockets <- TwoSockets
  MaxTimers = 2
  MaxListeners = 2
  AttemptBound = 2
INVARIANT NoRequestLost
CHECK_DEADLOCK FALSE
