SPECIFICATION LiveSpec
CONSTANTS
  c1 = c1
  c2 = c2
  c3 = c3
  Checks <- TwoChecks
  NodeErrors = FALSE
  HalfReceipts = FALSE
PROPERTY TimesOut
CHECK_DEADLOCK FALSE
