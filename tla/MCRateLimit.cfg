CONSTANTS
  strict = strict
  lax = lax
  address = address
  fan = fan
  c1 = c1
  c2 = c2
  None = None
  Process = {strict, lax}
  Strict = {strict}
  Ip = {address}
  Wallet = {fan}
  Limit <- MCLimit
  WindowSecs = 2
  Second = 3
  Call = {c1, c2}
  Instant = {0, 2, 5, 8}
  MaxAsked = 3
SPECIFICATION Spec
SYMMETRY CallSymmetry
CHECK_DEADLOCK FALSE
INVARIANTS WithinLimit WaitingPaysOff
PROPERTIES NoEarlyReset
