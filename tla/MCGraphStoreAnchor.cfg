CONSTANTS
  fan = fan
  purchase = purchase
  edge1 = edge1
  c1 = c1
  c2 = c2
  None = None
  Wallet = {fan}
  EventType = {purchase}
  Edge = {edge1}
  Weight = {12}
  Caller = {c1}
  MaxEvent = 2
  MaxVersion = 4
SPECIFICATION Spec
INVARIANT LatestAnchorIsCurrent
