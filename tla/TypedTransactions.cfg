SPECIFICATION Spec
CONSTANTS
  k1 = k1
  k2 = k2
  Keys <- TwoKeys
  FeePayer = FeePayer
  NoPayer = NoPayer
  DifferingFields <- SomeFields
  MaxRaws = 2
SYMMETRY Symmetry
INVARIANTS
  TypeOK
  TransactionUnchanged
  SignaturesCoverTransaction
  ReadableAgain
  CombinableIffSame
  NothingLost
  NothingIgnored
CHECK_DEADLOCK FALSE
