CONSTANTS
  fan = fan
  release = release
  membership = membership
  music = music
  core = core
  q1 = q1
  c1 = c1
  c2 = c2
  None = None
  Wallet = {fan}
  Item = {release, membership}
  Target = {music, core}
  target <- MCTarget
  Action = {"purchase", "membership_upgrade"}
  Sensitive = {"membership_upgrade"}
  Proof = {q1}
  Input <- MCInput
  Posted <- MCPosted
  Call = {c1, c2}
  MaxEvent = 4
  MaxVersion = 7
  MaxAsked = 2
SPECIFICATION Spec
SYMMETRY CallSymmetry
CHECK_DEADLOCK FALSE
INVARIANTS TypeOK ExecutedIsOnRecord ExecutedIsAttested AttestationServesOneSnapshot
