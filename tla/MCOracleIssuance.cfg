CONSTANTS
  p1 = p1
  p2 = p2
  r1 = r1
  r2 = r2
  fan = fan
  i1 = i1
  i2 = i2
  h1 = h1
  h2 = h2
  None = None
  Process = {p1, p2}
  Request = {r1, r2}
  Wallet = {fan}
  Identifier = {i1, i2}
  Hash = {h1, h2}
  Input <- MCInput
  ClaimTtl = 2
  ProofTtl = 2
  MaxSerial = 2
  MaxLife = 1
  MaxNow = 3
SPECIFICATION Spec
SYMMETRY Alike
CHECK_DEADLOCK FALSE
INVARIANTS ClaimsApart ProofUsedOncePerWindow OneActivePerProcess
PROPERTIES RefusalsJustified
