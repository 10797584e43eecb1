SPECIFICATION LiveSpec
CONSTANTS
  r1 = r1
  r2 = r2
  r3 = r3
  s1 = s1
  s2 = s2
  NoChunk = NoChunk
  Garbage = Garbage
  AutoReconnect = TRUE
  OnTimeout = FALSE
  MaxAttempts = 2
  AppCalls <- Disconnects
  Chunking = FALSE
  Requests <- ThreeRequests
  Unserializable <- OneUnserializable
  Sockets <- TwoSockets
  MaxTimers = 2
  MaxListeners = 1
  AttemptBound = 3
INVARIANT NoRequestLost
INVARIANT QueuedOnlyWhileConnecting
INVARIANT NotificationsReachApp
PROPERTY EveryRequestAnswered
PROPERTY ImplementsLiveChannel
CHECK_DEADLOCK FALSE
