SPECIFICATION LiveSpec
CONSTANTS
  c1 = c1
  c2 = c2
  c3 = c3
  Checks <- TwoChecks
  NodeErrors = TRUE
  HalfReceipts = TRUE
INVARIANT TypeOK
INVARIANT HeardOnce
INVARIANT EventMatchesPromise
INVARIANT DecidedIsNotWatched
INVARIANT ResolvedMeansSuccess
PROPERTY MinedTxSettles
PROPERTY SettledStopsWatching
CHECK_DEADLOCK FALSE
