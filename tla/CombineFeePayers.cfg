SPECIFICATION Spec
CONSTANTS
  t1 = t1
  t2 = t2
  t3 = t3
  v1 = v1
  v2 = v2
  n1 = n1
  n2 = n2
  g1 = g1
  g2 = g2
  k1 = k1
  k2 = k2
  p1 = p1
  p2 = p2
  Undefined = Undefined
  Instances <- TwoInstances
  Contents <- OneContent
  Nonces <- TwoNonces
  Prices <- OnePrice
  Keys <- OneKey
  FeePayers <- TwoFeePayers
  FeeDelegated = TRUE
  Overlapping = FALSE
INVARIANT FeePayerSignaturesMatch
CHECK_DEADLOCK FALSE
