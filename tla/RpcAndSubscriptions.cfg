SPECIFICATION Spec
CONSTANTS
  m1 = m1
  m2 = m2
  s1 = s1
  s2 = s2
  MaxRequests = 3
  Middlewares <- TwoMiddlewares
  MaxMiddlewares <- FewMiddlewares
  SendRpc = SendRpc
  HasTimeout = TRUE
  MaxIds = 2
  MaxWire = 1
  Subscriptions <- TwoSubscriptions
  Syncing <- OneSyncing
  Logs <- OneLogs
  NoSubscription = NoSubscription
SYMMETRY Symmetry
INVARIANTS
  TypeOK
  HeardOnce
  SentOnce
  TableMatchesObjects
  ServedMeansHeld
  ListensOnce
  NoneForgotten
CHECK_DEADLOCK FALSE
