CONSTANTS
  None = None
  c1 = c1
  c2 = c2
  text = text
  Call = {c1, c2}
  Input <- MCInput
  Delta <- MCDelta
  Text = {text}
  Under <- MCUnder
  MaxTicks = 7
SPECIFICATION Spec
SYMMETRY CallSymmetry
CHECK_DEADLOCK FALSE
INVARIANTS TypeOK TicksAreCounted ModelMovesLittle ExhaustedIsSettled
PROPERTIES LateTruthNeedsCore SettledIsFinal
