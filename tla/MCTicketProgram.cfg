CONSTANTS
  auth = auth
  alice = alice
  bob = bob
  p1 = p1
  n1 = n1
  n2 = n2
  k1 = k1
  k2 = k2
  base = base
  patch = patch
  None = None
  Wallet = {auth, alice, bob}
  UpgradeAuthority = auth
  Proof = {p1}
  Nonce = {n1, n2}
  OracleKey = {k1, k2}
  ModelHash = {base, patch}
  Signed <- MCSigned
  Ask = {0, 2, 3}
  Genesis = 10
  Rent = 1
  ResaleFeeBps = 2
  BpsScale = 4
  U64Max = 5
  MaxResales = 2
  MaxNow = 2
SPECIFICATION Spec
INVARIANTS TokenInOnePlace EscrowMatchesListing OnlyHolderHasTicketAccount ListingsCanBeClosed
PROPERTIES PaymentBuysTicket ReceiptHistory StrandedStaysStranded ImplementsOwnership
