------------------------- MODULE TicketProgramProofs -------------------------
(***************************************************************************)
(* TLAPS proofs about TicketProgram, for every set of wallets, proofs,     *)
(* nonces, signed payloads and prices. The second part is about what       *)
(* happens to one ticket over time: the action properties, and that the    *)
(* program implements TicketOwnership.                                     *)
(***************************************************************************)
EXTENDS TicketProgram, TLAPS

(* The resale fee never exceeds the sale price, so the proceeds of         *)
(* fill_ticket_listing (checked_sub) never fail.                           *)
LEMMA FeeBounded ==
  ASSUME NEW ask \in Nat
  PROVE  ResaleFee(ask) \in Nat /\ ResaleFee(ask) <= ask
<1> DEFINE q == (ask * ResaleFeeBps) \div BpsScale
<1>1. ResaleFeeBps \in Nat /\ BpsScale \in Nat /\ BpsScale > 0 /\ ResaleFeeBps <= BpsScale
  BY AmountAssumption
<1>2. ask * ResaleFeeBps \in Nat /\ ask * ResaleFeeBps <= ask * BpsScale
  BY <1>1
<1>3. q \in Nat /\ BpsScale * q <= ask * ResaleFeeBps
  BY <1>1, <1>2
<1>4. BpsScale * q <= BpsScale * ask
  BY <1>1, <1>2, <1>3
<1>5. q <= ask
  BY <1>1, <1>3, <1>4
<1>6. QED
  BY <1>3, <1>5 DEF ResaleFee

-----------------------------------------------------------------------------
(* Every signed payload names a mint of its user.                          *)
LEMMA SignedPayloads ==
  ASSUME NEW p \in Signed
  PROVE  /\ p \in Payload
         /\ MintOf(p) \in Mint
         /\ MintOf(p)[1] = p.user
BY SignedAssumption DEF Payload, Mint, MintOf

(* What a debit does to the balances.                                      *)
LEMMA DebitedBalances ==
  ASSUME NEW balance \in [Wallet -> Nat], NEW w \in Wallet, NEW amount \in Nat,
         balance[w] >= amount
  PROVE  /\ Debited(balance, w, amount) \in [Wallet -> Nat]
         /\ \A v \in Wallet : v # w => Debited(balance, w, amount)[v] = balance[v]
BY DEF Debited

(* The price is paid by the buyer and reaches the authority.               *)
LEMMA ExecuteBalances ==
  ASSUME TypeOK, NEW w \in Wallet, NEW p \in Signed, ExecuteShield(w, p)
  PROVE  /\ lamports' \in [Wallet -> Nat]
         /\ \A v \in Wallet : v # w => lamports'[v] >= lamports[v]
<1>1. PICK price, owner, cost : /\ price = p.price /\ owner = globalConfig
                                /\ cost = 4 * Rent + p.price
  OBVIOUS
<1>2. /\ price \in Nat /\ cost \in Nat /\ owner \in Wallet
      /\ lamports \in [Wallet -> Nat] /\ lamports[w] >= cost
  BY <1>1, SignedPayloads, AmountAssumption DEF ExecuteShield, TypeOK, Payload, CanPay
<1>3. PICK paid : paid = Debited(lamports, w, cost)
  OBVIOUS
<1>4. /\ paid \in [Wallet -> Nat]
      /\ \A v \in Wallet : v # w => paid[v] = lamports[v]
  BY <1>2, <1>3, DebitedBalances
<1>5. lamports' = Credited(paid, owner, price)
  BY <1>1, <1>3 DEF ExecuteShield
<1>6. /\ lamports' \in [Wallet -> Nat]
      /\ \A v \in Wallet : lamports'[v] >= paid[v]
  <2>1. PICK c : c = Credited(paid, owner, price)
    OBVIOUS
  <2>2. c \in [Wallet -> Nat] /\ \A v \in Wallet : c[v] >= paid[v]
    BY <1>2, <1>4, <2>1 DEF Credited
  <2> QED BY <1>5, <2>1, <2>2
<1> QED BY <1>4, <1>6

(* The buyer pays; the seller and the authority are paid.                  *)
LEMMA FillBalances ==
  ASSUME TypeOK, NEW b \in Wallet, NEW s \in Wallet, NEW m \in Mint,
         FillTicketListing(b, s, m)
  PROVE  /\ lamports' \in [Wallet -> Nat]
         /\ \A v \in Wallet : v # b => lamports'[v] >= lamports[v]
<1>1. PICK ask, fee, owner : /\ ask = listing[m].ask /\ fee = ResaleFee(ask)
                             /\ owner = globalConfig
  OBVIOUS
<1>2. /\ ask \in Nat /\ owner \in Wallet /\ lamports \in [Wallet -> Nat] /\ Rent \in Nat
      /\ lamports[b] >= Rent + ask
  BY <1>1, AmountAssumption
  DEF FillTicketListing, OnSaleBy, TypeOK, TicketListing, CanPay
<1>3. fee \in Nat /\ fee <= ask
  BY <1>1, <1>2, FeeBounded
<1>4. PICK cost, gain : cost = Rent + ask /\ gain = ask - fee + 2 * Rent
  OBVIOUS
<1>5. cost \in Nat /\ gain \in Nat /\ lamports[b] >= cost
  BY <1>2, <1>3, <1>4
<1>6. PICK paid, earned : paid = Debited(lamports, b, cost) /\ earned = Credited(paid, s, gain)
  OBVIOUS
<1>7. /\ paid \in [Wallet -> Nat]
      /\ \A v \in Wallet : v # b => paid[v] = lamports[v]
  BY <1>2, <1>5, <1>6, DebitedBalances
<1>8. /\ earned \in [Wallet -> Nat]
      /\ \A v \in Wallet : earned[v] >= paid[v]
  <2>1. PICK c : c = Credited(paid, s, gain)
    OBVIOUS
  <2>2. c \in [Wallet -> Nat] /\ \A v \in Wallet : c[v] >= paid[v]
    BY <1>5, <1>7, <2>1 DEF Credited
  <2> QED BY <1>6, <2>1, <2>2
<1>9. lamports' = Credited(earned, owner, fee)
  BY <1>1, <1>4, <1>6 DEF FillTicketListing, Settle
<1>10. /\ lamports' \in [Wallet -> Nat]
       /\ \A v \in Wallet : lamports'[v] >= earned[v]
  <2>1. PICK c : c = Credited(earned, owner, fee)
    OBVIOUS
  <2>2. c \in [Wallet -> Nat] /\ \A v \in Wallet : c[v] >= earned[v]
    BY <1>2, <1>3, <1>8, <2>1 DEF Credited
  <2> QED BY <1>9, <2>1, <2>2
<1>11. \A v \in Wallet : paid[v] \in Nat /\ earned[v] \in Nat /\ lamports'[v] \in Nat
  BY <1>7, <1>8, <1>10
<1> QED BY <1>7, <1>8, <1>10, <1>11

(* Type correctness, one step per instruction.                             *)
LEMMA TypeStep ==
  TypeOK /\ [Next]_vars => TypeOK'
<1> SUFFICES ASSUME TypeOK, [Next]_vars PROVE TypeOK'
  OBVIOUS
<1> USE AmountAssumption, WalletAssumption DEF TypeOK
<1>1. CASE UNCHANGED vars
  BY <1>1 DEF vars
<1>2. ASSUME NEW w \in Wallet, InitializeV2(w) PROVE TypeOK'
  BY <1>2 DEF InitializeV2, CanPay, market
<1>3. ASSUME NEW w \in Wallet, NEW k \in OracleKey, NEW h \in ModelHash,
             InitializeAdminConfig(w, k, h)
      PROVE  TypeOK'
  BY <1>3 DEF InitializeAdminConfig, CanPay, market, AdminConfig
<1>4. ASSUME NEW w \in Wallet, NEW k \in OracleKey, RotateOracle(w, k) PROVE TypeOK'
  BY <1>4 DEF RotateOracle, AdminOnly, market, AdminConfig
<1>5. ASSUME NEW w \in Wallet, NEW h \in ModelHash, SetScoringModelHash(w, h) PROVE TypeOK'
  BY <1>5 DEF SetScoringModelHash, AdminOnly, market, AdminConfig
<1>6. ASSUME NEW w \in Wallet, NEW h \in ModelHash, ResetAdminGuardrails(w, h) PROVE TypeOK'
  BY <1>6 DEF ResetAdminGuardrails, AdminOnly, market, AdminConfig
<1>7. ASSUME NEW w \in Wallet, NEW p \in Signed, ExecuteShield(w, p) PROVE TypeOK'
  <2>1. p \in Payload /\ MintOf(p) \in Mint
    BY SignedPayloads
  <2>2. p.price \in Nat
    BY <2>1 DEF Payload
  <2>3. receipt' \in [Mint -> TicketReceipt \cup {None}]
    <3>1. PICK r : r = [original |-> w, holder |-> w, price |-> p.price,
                        lastPrice |-> p.price, listed |-> FALSE, resales |-> 0]
      OBVIOUS
    <3>2. r \in TicketReceipt
      BY <2>2, <3>1 DEF TicketReceipt
    <3>3. receipt' = [receipt EXCEPT ![MintOf(p)] = r]
      BY <1>7, <3>1 DEF ExecuteShield
    <3> QED BY <3>2, <3>3
  <2>4. lamports' \in [Wallet -> Nat]
    BY <1>7, ExecuteBalances
  <2>5. ticketToken' \in [Mint -> [Wallet -> TokenAccount]]
    BY <1>7, <2>1 DEF ExecuteShield, TokenAccount
  <2>6. QED
    BY <1>7, <2>1, <2>3, <2>4, <2>5 DEF ExecuteShield, governance
<1>8. ASSUME NEW w \in Wallet, NEW m \in Mint, NEW ask \in Ask, ListTicket(w, m, ask)
      PROVE  TypeOK'
  <2>1. ask \in Nat
    BY AskAssumption
  <2>2. receipt' \in [Mint -> TicketReceipt \cup {None}]
    <3>1. PICK r : r = receipt[m]
      OBVIOUS
    <3>2. r \in TicketReceipt
      BY <1>8, <3>1 DEF ListTicket
    <3>3. [r EXCEPT !.listed = TRUE] \in TicketReceipt
      BY <3>2 DEF TicketReceipt
    <3>4. receipt' = [receipt EXCEPT ![m] = [r EXCEPT !.listed = TRUE]]
      BY <1>8, <3>1 DEF ListTicket
    <3> QED BY <3>3, <3>4
  <2>3. listing' \in [Mint -> TicketListing \cup {None}]
    BY <1>8, <2>1 DEF ListTicket, TicketListing
  <2>4. ticketToken' \in [Mint -> [Wallet -> TokenAccount]] /\ escrow' \in [Mint -> TokenAccount]
    BY <1>8 DEF ListTicket, EscrowTicket, TokenAccount
  <2>5. QED
    BY <1>8, <2>2, <2>3, <2>4 DEF ListTicket, CanPay, governance
<1>9. ASSUME NEW w \in Wallet, NEW m \in Mint, CancelTicketListing(w, m) PROVE TypeOK'
  <2>1. receipt' \in [Mint -> TicketReceipt \cup {None}]
    <3>1. PICK r : r = receipt[m]
      OBVIOUS
    <3>2. r \in TicketReceipt
      BY <1>9, <3>1 DEF CancelTicketListing, OnSaleBy
    <3>3. [r EXCEPT !.listed = FALSE] \in TicketReceipt
      BY <3>2 DEF TicketReceipt
    <3>4. receipt' = [receipt EXCEPT ![m] = [r EXCEPT !.listed = FALSE]]
      BY <1>9, <3>1 DEF CancelTicketListing
    <3> QED BY <3>3, <3>4
  <2>2. QED
    BY <1>9, <2>1 DEF CancelTicketListing, ReleaseTicket, TokenAccount, governance
<1>10. ASSUME NEW b \in Wallet, NEW s \in Wallet, NEW m \in Mint, FillTicketListing(b, s, m)
       PROVE  TypeOK'
  <2> DEFINE ask == listing[m].ask
  <2>1. ask \in Nat /\ globalConfig \in Wallet
    BY <1>10 DEF FillTicketListing, OnSaleBy, TicketListing
  <2>3. receipt' \in [Mint -> TicketReceipt \cup {None}]
    <3>1. PICK r : r = receipt[m]
      OBVIOUS
    <3>2. r \in TicketReceipt
      BY <1>10, <3>1 DEF FillTicketListing, OnSaleBy
    <3>3. PICK moved : moved = [r EXCEPT !.holder = b, !.lastPrice = ask]
      OBVIOUS
    <3>4. moved \in TicketReceipt
      BY <2>1, <3>2, <3>3 DEF TicketReceipt
    <3>8. r.resales + 1 \in Nat
      BY <3>2 DEF TicketReceipt
    <3>5. PICK sold : sold = [moved EXCEPT !.listed = FALSE, !.resales = r.resales + 1]
      OBVIOUS
    <3>6. sold \in TicketReceipt
      BY <3>4, <3>5, <3>8 DEF TicketReceipt
    <3>7. receipt' = [receipt EXCEPT ![m] = sold]
      BY <1>10, <3>1, <3>3, <3>5 DEF FillTicketListing, RecordSale
    <3> QED BY <3>6, <3>7
  <2>4. lamports' \in [Wallet -> Nat]
    BY <1>10, FillBalances
  <2>5. QED
    BY <1>10, <2>3, <2>4 DEF FillTicketListing, ReleaseTicket, TokenAccount, governance
<1>11. ASSUME NEW v \in Wallet, NEW w \in Wallet, NEW m \in Mint, TransferOut(m, w, v)
       PROVE  TypeOK'
  BY <1>11 DEF TransferOut, TokenAccount, governance
<1>12. ASSUME NEW v \in Wallet, NEW w \in Wallet, NEW m \in Mint, TransferBack(m, v, w)
       PROVE  TypeOK'
  BY <1>12 DEF TransferBack, TokenAccount, governance
<1>13. ASSUME NEW v \in Wallet, NEW w \in Wallet, NEW m \in Mint, TransferOther(m, v, w)
       PROVE  TypeOK'
  BY <1>13 DEF TransferOther, market, governance
<1>14. ASSUME NEW w \in Wallet, NEW m \in Mint, CloseEmpty(m, w) PROVE TypeOK'
  BY <1>14 DEF CloseEmpty, TokenAccount, governance
<1>15. ASSUME NEW w \in Wallet, NEW m \in Mint, Burn(m, w) PROVE TypeOK'
  <2>1. \/ ticketToken' = [ticketToken EXCEPT ![m][w] = "empty"] /\ otherToken' = otherToken
        \/ otherToken' = [otherToken EXCEPT ![m][w] = FALSE] /\ ticketToken' = ticketToken
    BY <1>15 DEF Burn
  <2>2. /\ ticketToken' \in [Mint -> [Wallet -> TokenAccount]]
        /\ otherToken' \in [Mint -> [Wallet -> BOOLEAN]]
    <3>1. CASE ticketToken' = [ticketToken EXCEPT ![m][w] = "empty"] /\ otherToken' = otherToken
      BY <3>1 DEF TokenAccount
    <3>2. CASE otherToken' = [otherToken EXCEPT ![m][w] = FALSE] /\ ticketToken' = ticketToken
      BY <3>2
    <3> QED BY <2>1, <3>1, <3>2
  <2>3. burned' \subseteq Mint
    BY <1>15 DEF Burn
  <2> QED BY <1>15, <2>2, <2>3 DEF Burn, governance
<1>16. CASE Tick
  BY <1>16 DEF Tick, market, governance
<1>17. QED
  BY <1>1, <1>2, <1>3, <1>4, <1>5, <1>6, <1>7, <1>8, <1>9, <1>10, <1>11, <1>12,
     <1>13, <1>14, <1>15, <1>16 DEF Next

LEMMA TypeInit == Init => TypeOK
BY AmountAssumption DEF Init, TypeOK, TokenAccount

(* Every reachable state is well typed; in particular no wallet is ever    *)
(* overdrawn by prices, fees and deposits.                                 *)
THEOREM TypeCorrect == Spec => []TypeOK
BY TypeInit, TypeStep, PTL DEF Spec

-----------------------------------------------------------------------------
(* The places of a token as a function of its accounts.                    *)
PlacesOf(t, o, e) ==
  {<<"ticket", w>> : w \in {v \in Wallet : t[v] = "one"}}
    \cup {<<"other", w>> : w \in {v \in Wallet : o[v]}}
    \cup {<<"escrow", w>> : w \in {v \in {UpgradeAuthority} : e = "one"}}

AtTicket(w) == {<<"ticket", w>>}
AtOther(w) == {<<"other", w>>}
AtEscrow == {<<"escrow", UpgradeAuthority>>}

LEMMA PlaceKinds ==
  ASSUME NEW t, NEW o, NEW e
  PROVE  /\ \A w \in Wallet : <<"ticket", w>> \in PlacesOf(t, o, e) <=> t[w] = "one"
         /\ \A w \in Wallet : <<"other", w>> \in PlacesOf(t, o, e) <=> o[w]
         /\ <<"escrow", UpgradeAuthority>> \in PlacesOf(t, o, e) <=> e = "one"
<1>1. ASSUME NEW w \in Wallet
      PROVE  <<"ticket", w>> \in PlacesOf(t, o, e) <=> t[w] = "one"
  BY DEF PlacesOf
<1>2. ASSUME NEW w \in Wallet
      PROVE  <<"other", w>> \in PlacesOf(t, o, e) <=> o[w]
  BY DEF PlacesOf
<1>3. <<"escrow", UpgradeAuthority>> \in PlacesOf(t, o, e) <=> e = "one"
  BY DEF PlacesOf
<1>4. QED
  BY <1>1, <1>2, <1>3

LEMMA PlaceShapes ==
  ASSUME NEW t, NEW o, NEW e, NEW x \in PlacesOf(t, o, e)
  PROVE  \/ \E w \in Wallet : x = <<"ticket", w>> /\ t[w] = "one"
         \/ \E w \in Wallet : x = <<"other", w>> /\ o[w]
         \/ x = <<"escrow", UpgradeAuthority>> /\ e = "one"
BY DEF PlacesOf

(* What it means to be in one place, and in none.                          *)
LEMMA FromTicket ==
  ASSUME NEW t, NEW o, NEW e, NEW w \in Wallet, PlacesOf(t, o, e) = AtTicket(w)
  PROVE  e # "one" /\ \A v \in Wallet : ~o[v] /\ (v # w => t[v] # "one")
<1>1. /\ \A v \in Wallet : <<"other", v>> # <<"ticket", w>>
      /\ \A v \in Wallet : v # w => <<"ticket", v>> # <<"ticket", w>>
      /\ <<"escrow", UpgradeAuthority>> # <<"ticket", w>>
  OBVIOUS
<1>2. QED
  BY <1>1, PlaceKinds DEF AtTicket

LEMMA ToTicket ==
  ASSUME NEW t, NEW o, NEW e, NEW w \in Wallet,
         t[w] = "one" /\ e # "one" /\ \A v \in Wallet : ~o[v] /\ (v # w => t[v] # "one")
  PROVE  PlacesOf(t, o, e) = AtTicket(w)
<1>1. \A x : x \in PlacesOf(t, o, e) <=> x = <<"ticket", w>>
  BY PlaceKinds, PlaceShapes
<1>2. QED
  BY <1>1 DEF AtTicket

LEMMA FromOther ==
  ASSUME NEW t, NEW o, NEW e, NEW w \in Wallet, PlacesOf(t, o, e) = AtOther(w)
  PROVE  o[w] /\ e # "one" /\ \A v \in Wallet : t[v] # "one" /\ (v # w => ~o[v])
<1>1. /\ \A v \in Wallet : <<"ticket", v>> # <<"other", w>>
      /\ \A v \in Wallet : v # w => <<"other", v>> # <<"other", w>>
      /\ <<"escrow", UpgradeAuthority>> # <<"other", w>>
  OBVIOUS
<1>2. QED
  BY <1>1, PlaceKinds DEF AtOther

LEMMA ToOther ==
  ASSUME NEW t, NEW o, NEW e, NEW w \in Wallet,
         o[w] /\ e # "one" /\ \A v \in Wallet : t[v] # "one" /\ (v # w => ~o[v])
  PROVE  PlacesOf(t, o, e) = AtOther(w)
<1>1. \A x : x \in PlacesOf(t, o, e) <=> x = <<"other", w>>
  BY PlaceKinds, PlaceShapes
<1>2. QED
  BY <1>1 DEF AtOther

LEMMA OnlyEscrow ==
  ASSUME NEW t, NEW o, NEW e
  PROVE  PlacesOf(t, o, e) = AtEscrow <=>
           e = "one" /\ \A v \in Wallet : t[v] # "one" /\ ~o[v]
<1> DEFINE P == PlacesOf(t, o, e)
<1>1. ASSUME P = AtEscrow PROVE e = "one" /\ \A v \in Wallet : t[v] # "one" /\ ~o[v]
  <2>1. /\ \A v \in Wallet : <<"ticket", v>> # <<"escrow", UpgradeAuthority>>
        /\ \A v \in Wallet : <<"other", v>> # <<"escrow", UpgradeAuthority>>
    OBVIOUS
  <2>2. QED
    BY <1>1, <2>1, PlaceKinds DEF AtEscrow
<1>2. ASSUME e = "one" /\ \A v \in Wallet : t[v] # "one" /\ ~o[v] PROVE P = AtEscrow
  <2>1. \A x : x \in P <=> x = <<"escrow", UpgradeAuthority>>
    BY <1>2, PlaceKinds, PlaceShapes
  <2>2. QED
    BY <2>1 DEF AtEscrow
<1>3. QED
  BY <1>1, <1>2

LEMMA Nowhere ==
  ASSUME NEW t, NEW o, NEW e
  PROVE  PlacesOf(t, o, e) = {} <=>
           e # "one" /\ \A v \in Wallet : t[v] # "one" /\ ~o[v]
<1> DEFINE P == PlacesOf(t, o, e)
<1>1. ASSUME P = {} PROVE e # "one" /\ \A v \in Wallet : t[v] # "one" /\ ~o[v]
  BY <1>1, PlaceKinds
<1>2. ASSUME e # "one" /\ \A v \in Wallet : t[v] # "one" /\ ~o[v] PROVE P = {}
  <2>1. \A x : x \in P <=> FALSE
    BY <1>2, PlaceKinds, PlaceShapes
  <2>2. QED
    BY <2>1
<1>3. QED
  BY <1>1, <1>2

-----------------------------------------------------------------------------
(* The inductive invariant of custody. Where the token is cannot be kept   *)
(* without knowing that escrow and listing agree, and neither without      *)
(* knowing whose derived accounts exist.                                   *)
Custody ==
  /\ TypeOK
  /\ TokenInOnePlace
  /\ EscrowMatchesListing
  /\ OnlyHolderHasTicketAccount

LEMMA CustodyInit == Init => Custody
<1> SUFFICES ASSUME Init PROVE Custody
  OBVIOUS
<1>1. TokenInOnePlace
  BY DEF Init, TokenInOnePlace, Issued, Places
<1>2. QED
  BY <1>1, TypeInit DEF Init, Custody, EscrowMatchesListing, OnlyHolderHasTicketAccount

(* Only these variables of a mint matter to its custody.                   *)
Frame(m) ==
  /\ (m \in proofUse') = (m \in proofUse) /\ (m \in burned') = (m \in burned)
  /\ receipt'[m] = receipt[m] /\ listing'[m] = listing[m] /\ escrow'[m] = escrow[m]
  /\ ticketToken'[m] = ticketToken[m] /\ otherToken'[m] = otherToken[m]

OnePlace(m) ==
  /\ Issued(m) <=> receipt[m] # None
  /\ IF Issued(m) /\ m \notin burned THEN \E x \in Places(m) : Places(m) = {x}
                                      ELSE Places(m) = {}
  /\ m \in burned => Issued(m)

EscrowOK(m) ==
  /\ escrow[m] # "empty"
  /\ (escrow[m] = "one") <=> (listing[m] # None)
  /\ (listing[m] # None) <=> (receipt[m] # None /\ receipt[m].listed)
  /\ listing[m] # None => listing[m].seller = receipt[m].holder

AccountsOK(m) ==
  \A w \in Wallet :
    ticketToken[m][w] # "absent" =>
      receipt[m] # None /\ receipt[m].holder = w /\ ~receipt[m].listed

MintOK(m) == OnePlace(m) /\ EscrowOK(m) /\ AccountsOK(m)

LEMMA CustodyByMint == Custody <=> TypeOK /\ \A m \in Mint : MintOK(m)
BY DEF Custody, TokenInOnePlace, EscrowMatchesListing, OnlyHolderHasTicketAccount,
       MintOK, OnePlace, EscrowOK, AccountsOK

LEMMA FrameKeeps ==
  ASSUME NEW m \in Mint, MintOK(m), Frame(m)
  PROVE  MintOK(m)'
<1>1. Places(m)' = Places(m)
  BY DEF Frame, Places
<1>2. QED
  BY <1>1 DEF Frame, MintOK, OnePlace, Issued, EscrowOK, AccountsOK

(* A mint with a token somewhere was issued and is not burned, and         *)
(* conversely one place is what custody asks of it.                        *)
LEMMA TokenIsLive ==
  ASSUME NEW m, OnePlace(m), NEW x \in Places(m)
  PROVE  m \in proofUse /\ m \notin burned /\ receipt[m] # None
BY DEF OnePlace, Issued

LEMMA OnePlaceAfter ==
  ASSUME NEW m, NEW x, Places(m)' = {x},
         m \in proofUse', m \notin burned', receipt'[m] # None
  PROVE  OnePlace(m)'
BY DEF OnePlace, Issued

LEMMA CustodyStep == Custody /\ [Next]_vars => Custody'
<1> SUFFICES ASSUME Custody, [Next]_vars PROVE Custody'
  OBVIOUS
<1> USE WalletAssumption
<1>a. TypeOK /\ TypeOK' /\ \A m \in Mint : MintOK(m)
  BY CustodyByMint, TypeStep
<1> SUFFICES ASSUME NEW n \in Mint PROVE MintOK(n)'
  BY <1>a DEF Custody, TokenInOnePlace, EscrowMatchesListing,
     OnlyHolderHasTicketAccount, MintOK, OnePlace, EscrowOK, AccountsOK
<1>p. /\ Places(n) = PlacesOf(ticketToken[n], otherToken[n], escrow[n])
      /\ Places(n)' = PlacesOf(ticketToken'[n], otherToken'[n], escrow'[n])
  BY DEF Places, PlacesOf
<1>b. MintOK(n) /\ (Frame(n) => MintOK(n)')
  BY <1>a, FrameKeeps
<1>1. CASE UNCHANGED <<proofUse, burned, market, otherToken>>
  BY <1>1, <1>b DEF market, Frame
<1>2. \/ UNCHANGED <<proofUse, burned, market, otherToken>>
      \/ \E w \in Wallet, p \in Signed : ExecuteShield(w, p)
      \/ \E w \in Wallet, m \in Mint, ask \in Ask : ListTicket(w, m, ask)
      \/ \E w \in Wallet, m \in Mint : CancelTicketListing(w, m)
      \/ \E b, s \in Wallet, m \in Mint : FillTicketListing(b, s, m)
      \/ \E v, w \in Wallet, m \in Mint : TransferOut(m, w, v)
      \/ \E v, w \in Wallet, m \in Mint : TransferBack(m, v, w)
      \/ \E v, w \in Wallet, m \in Mint : TransferOther(m, v, w)
      \/ \E w \in Wallet, m \in Mint : CloseEmpty(m, w)
      \/ \E w \in Wallet, m \in Mint : Burn(m, w)
  BY DEF Next, vars, market, InitializeV2, InitializeAdminConfig, RotateOracle,
     SetScoringModelHash, ResetAdminGuardrails, Tick
<1>3. ASSUME NEW w \in Wallet, NEW p \in Signed, ExecuteShield(w, p) PROVE MintOK(n)'
  <2> DEFINE m == MintOf(p)
  <2>1. m \in Mint
    BY SignedPayloads
  <2>2. CASE n # m
    BY <1>3, <1>a, <1>b, <2>1, <2>2 DEF ExecuteShield, governance, Frame, TypeOK
  <2>3. CASE n = m
    <3>1. Places(n) = {} /\ escrow[n] # "one" /\ listing[n] = None
      BY <1>b, <1>3, <2>3 DEF MintOK, OnePlace, EscrowOK, Issued, ExecuteShield, AccountsFree
    <3>2. /\ \A v \in Wallet : ticketToken[n][v] # "one" /\ ~otherToken[n][v]
      BY <3>1, <1>p, Nowhere
    <3>a. /\ ticketToken'[n] = [ticketToken[n] EXCEPT ![w] = "one"]
          /\ escrow'[n] # "one" /\ otherToken'[n] = otherToken[n]
      BY <1>3, <1>a, <2>1, <2>3, <3>1 DEF ExecuteShield, TypeOK
    <3>b. ticketToken[n] \in [Wallet -> TokenAccount]
      BY <1>a DEF TypeOK
    <3>3. Places(n)' = AtTicket(w)
      BY <3>a, <3>b, <3>2, <1>p, ToTicket
    <3>4. /\ receipt'[n] # None /\ receipt'[n].holder = w /\ ~receipt'[n].listed
          /\ n \in proofUse'
      <4>0. p \in Payload /\ m \in Mint
        BY SignedPayloads
      <4>1. receipt'[n] = [original |-> w, holder |-> w, price |-> p.price,
                           lastPrice |-> p.price, listed |-> FALSE, resales |-> 0]
        BY <1>3, <1>a, <2>1, <2>3 DEF ExecuteShield, TypeOK
      <4>2. p.price \in Nat
        BY <4>0 DEF Payload
      <4>3. receipt'[n] \in TicketReceipt
        BY <4>1, <4>2 DEF TicketReceipt
      <4>4. receipt'[n].holder = w /\ receipt'[n].listed = FALSE
        BY <4>1
      <4>5. n \in proofUse'
        BY <1>3, <2>3 DEF ExecuteShield
      <4>6. QED
        BY <4>3, <4>4, <4>5, NoneAssumption
    <3>5. \A v \in Wallet : ticketToken'[n][v] # "absent" => v = w
      BY <1>3, <1>a, <1>b, <2>1, <2>3
      DEF ExecuteShield, AccountsFree, TypeOK, MintOK, AccountsOK
    <3>6. OnePlace(n)'
      <4>1. n \notin burned'
        BY <1>3, <1>b, <2>3 DEF ExecuteShield, AccountsFree, MintOK, OnePlace, Issued
      <4> QED BY <3>3, <3>4, <4>1, OnePlaceAfter DEF AtTicket
    <3>7. EscrowOK(n)' /\ AccountsOK(n)'
      BY <3>1, <3>4, <3>5, <1>3, <1>b DEF MintOK, EscrowOK, AccountsOK, ExecuteShield
    <3> QED BY <3>6, <3>7 DEF MintOK
  <2>4. QED
    BY <2>2, <2>3
<1>4. ASSUME NEW w \in Wallet, NEW m \in Mint, NEW ask \in Ask, ListTicket(w, m, ask)
      PROVE  MintOK(n)'
  <2>1. CASE n # m
    BY <1>4, <1>a, <1>b, <2>1 DEF ListTicket, EscrowTicket, Frame, TypeOK
  <2>2. CASE n = m
    <3>1. <<"ticket", w>> \in Places(n) /\ n \in proofUse
      BY <1>4, <1>b, <2>2
      DEF ListTicket, HoldsTicket, Places, MintOK, OnePlace, Issued
    <3>2. Places(n) = AtTicket(w)
      BY <3>1, <1>b DEF MintOK, OnePlace, Issued, AtTicket
    <3>3. \A v \in Wallet : ~otherToken[n][v] /\ (v # w => ticketToken[n][v] # "one")
      <4>1. PlacesOf(ticketToken[n], otherToken[n], escrow[n]) = AtTicket(w)
        BY <3>2, <1>p
      <4>2. QED
        BY <4>1, FromTicket
    <3>4. /\ ticketToken'[n][w] = "absent" /\ escrow'[n] = "one"
          /\ \A v \in Wallet : v # w => ticketToken'[n][v] = ticketToken[n][v]
          /\ otherToken' = otherToken /\ burned' = burned /\ n \in proofUse'
      BY <1>4, <1>a, <2>2, <3>1 DEF ListTicket, EscrowTicket, TypeOK
    <3>5. Places(n)' = AtEscrow
      <4>1. \A v \in Wallet : ticketToken'[n][v] # "one" /\ ~otherToken'[n][v]
        BY <3>3, <3>4
      <4>2. QED
        BY <4>1, <3>4, <1>p, OnlyEscrow
    <3>6. /\ receipt'[n] # None /\ receipt'[n].listed /\ receipt'[n].holder = w
          /\ listing'[n] # None /\ listing'[n].seller = w
      <4>1. receipt[n] \in TicketReceipt /\ receipt'[n] = [receipt[n] EXCEPT !.listed = TRUE]
        BY <1>4, <1>a, <2>2 DEF ListTicket, TypeOK
      <4>a. receipt'[n] \in TicketReceipt /\ receipt'[n].holder = receipt[n].holder
        BY <4>1 DEF TicketReceipt
      <4>b. receipt'[n].listed = TRUE
        BY <4>1 DEF TicketReceipt
      <4>c. receipt[n].holder = w
        BY <1>4, <2>2 DEF ListTicket
      <4>2. receipt'[n] \in TicketReceipt /\ receipt'[n].listed /\ receipt'[n].holder = w
        BY <4>a, <4>b, <4>c
      <4>3. listing'[n] = [seller |-> w, ask |-> ask] /\ ask \in Nat
        BY <1>4, <1>a, <2>2, AskAssumption, AmountAssumption DEF ListTicket, TypeOK
      <4>4. listing'[n] \in TicketListing
        BY <4>3 DEF TicketListing
      <4>5. QED
        BY <4>2, <4>3, <4>4, NoneAssumption
    <3>o. OnePlace(n)'
      <4>1. n \notin burned
        BY <3>1, <1>b, TokenIsLive DEF MintOK
      <4> QED BY <3>4, <3>5, <3>6, <4>1, OnePlaceAfter DEF AtEscrow
    <3>7. \A v \in Wallet : ticketToken'[n][v] = "absent"
      BY <3>4, <1>4, <1>b, <2>2 DEF MintOK, AccountsOK, ListTicket
    <3>8. QED
      BY <3>4, <3>6, <3>7, <3>o DEF MintOK, EscrowOK, AccountsOK
  <2>3. QED
    BY <2>1, <2>2
<1>5. ASSUME NEW w \in Wallet, NEW s \in Wallet, NEW m \in Mint,
             OnSaleBy(m, s), ReleaseTicket(m, w),
             UNCHANGED <<proofUse, burned, otherToken>>,
             NEW r \in TicketReceipt, r.holder = w, ~r.listed,
             receipt' = [receipt EXCEPT ![m] = r]
      PROVE  MintOK(n)'
  <2>1. CASE n # m
    BY <1>5, <1>a, <1>b, <2>1 DEF ReleaseTicket, Frame, TypeOK
  <2>2. CASE n = m
    <3>1. <<"escrow", UpgradeAuthority>> \in Places(n) /\ n \in proofUse
      BY <1>5, <1>b, <2>2 DEF OnSaleBy, Places, MintOK, OnePlace, Issued
    <3>2. Places(n) = AtEscrow
      BY <3>1, <1>b DEF MintOK, OnePlace, Issued, AtEscrow
    <3>3. \A v \in Wallet : ~otherToken[n][v] /\ ticketToken[n][v] # "one"
      BY <3>2, <1>p, OnlyEscrow
    <3>4. \A v \in Wallet : ticketToken[n][v] = "absent"
      BY <1>5, <1>b, <2>2 DEF OnSaleBy, MintOK, AccountsOK
    <3>5. /\ ticketToken'[n][w] = "one" /\ escrow'[n] = "absent" /\ listing'[n] = None
          /\ \A v \in Wallet : v # w => ticketToken'[n][v] = "absent"
          /\ receipt'[n] = r /\ n \in proofUse'
      BY <1>5, <1>a, <2>2, <3>1, <3>4 DEF ReleaseTicket, TypeOK
    <3>6. Places(n)' = AtTicket(w)
      <4>1. /\ ticketToken'[n][w] = "one" /\ escrow'[n] # "one"
            /\ \A u \in Wallet : ~otherToken'[n][u] /\ (u # w => ticketToken'[n][u] # "one")
        BY <3>3, <3>5, <1>5
      <4>2. PlacesOf(ticketToken'[n], otherToken'[n], escrow'[n]) = AtTicket(w)
        BY <4>1, ToTicket
      <4> QED BY <4>2, <1>p
    <3>7. r # None
      BY NoneAssumption
    <3>o. OnePlace(n)'
      <4>1. n \notin burned
        BY <3>1, <1>b, TokenIsLive DEF MintOK
      <4> QED BY <1>5, <3>5, <3>6, <3>7, <4>1, OnePlaceAfter DEF AtTicket
    <3>8. QED
      BY <1>5, <3>5, <3>7, <3>o DEF MintOK, EscrowOK, AccountsOK
  <2>3. QED
    BY <2>1, <2>2
<1>6. ASSUME NEW w \in Wallet, NEW m \in Mint, CancelTicketListing(w, m) PROVE MintOK(n)'
  <2> DEFINE r == [receipt[m] EXCEPT !.listed = FALSE]
  <2>1. receipt[m] \in TicketReceipt /\ receipt[m].holder = w
    BY <1>6, <1>a DEF CancelTicketListing, OnSaleBy, TypeOK
  <2>2. r \in TicketReceipt /\ r.holder = w /\ ~r.listed
    BY <2>1 DEF TicketReceipt
  <2>3. receipt' = [receipt EXCEPT ![m] = r]
    BY <1>6 DEF CancelTicketListing
  <2>4. QED
    BY <1>5, <1>6, <2>2, <2>3 DEF CancelTicketListing
<1>7. ASSUME NEW b \in Wallet, NEW s \in Wallet, NEW m \in Mint, FillTicketListing(b, s, m)
      PROVE  MintOK(n)'
  <2> DEFINE r == [receipt[m] EXCEPT !.holder = b, !.lastPrice = listing[m].ask,
                                     !.listed = FALSE, !.resales = @ + 1]
  <2>1. receipt[m] \in TicketReceipt /\ listing[m].ask \in Nat
    BY <1>7, <1>a DEF FillTicketListing, OnSaleBy, TypeOK, TicketListing
  <2>0. receipt[m].resales + 1 \in Nat
    BY <2>1 DEF TicketReceipt
  <2>a. r \in TicketReceipt
    BY <2>0, <2>1 DEF TicketReceipt
  <2>b. r.holder = b
    BY <2>1 DEF TicketReceipt
  <2>c. r.listed = FALSE
    BY <2>1 DEF TicketReceipt
  <2>2. r \in TicketReceipt /\ r.holder = b /\ ~r.listed
    BY <2>a, <2>b, <2>c
  <2>3. receipt' = [receipt EXCEPT ![m] = r]
    BY <1>7, <2>1, <1>a DEF FillTicketListing, RecordSale, TypeOK, TicketReceipt
  <2>4. QED
    BY <1>5, <1>7, <2>2, <2>3 DEF FillTicketListing
<1>8. ASSUME NEW v \in Wallet, NEW w \in Wallet, NEW m \in Mint, TransferOut(m, w, v)
      PROVE  MintOK(n)'
  <2>1. CASE n # m
    BY <1>8, <1>a, <1>b, <2>1 DEF TransferOut, Frame, TypeOK
  <2>2. CASE n = m
    <3>1. <<"ticket", w>> \in Places(n)
      BY <1>8, <2>2 DEF TransferOut, Places
    <3>2. Places(n) = AtTicket(w) /\ n \in proofUse
      BY <3>1, <1>b DEF MintOK, OnePlace, Issued, AtTicket
    <3>3. /\ \A u \in Wallet : ~otherToken[n][u] /\ (u # w => ticketToken[n][u] # "one")
          /\ escrow[n] # "one"
      <4>1. PlacesOf(ticketToken[n], otherToken[n], escrow[n]) = AtTicket(w)
        BY <3>2, <1>p
      <4>2. QED
        BY <4>1, FromTicket
    <3>4. /\ ticketToken'[n][w] = "empty" /\ otherToken'[n][v]
          /\ \A u \in Wallet : /\ u # w => ticketToken'[n][u] = ticketToken[n][u]
                               /\ u # v => ~otherToken'[n][u]
          /\ UNCHANGED <<proofUse, burned, escrow, receipt, listing>>
      BY <1>8, <1>a, <2>2, <3>3 DEF TransferOut, TypeOK
    <3>5. Places(n)' = AtOther(v)
      <4>1. /\ otherToken'[n][v] /\ escrow'[n] # "one"
            /\ \A u \in Wallet : ticketToken'[n][u] # "one" /\ (u # v => ~otherToken'[n][u])
        BY <3>3, <3>4
      <4>2. PlacesOf(ticketToken'[n], otherToken'[n], escrow'[n]) = AtOther(v)
        BY <4>1, ToOther
      <4> QED BY <4>2, <1>p
    <3>o. OnePlace(n)'
      <4>1. n \notin burned /\ receipt[n] # None
        BY <3>1, <1>b, TokenIsLive DEF MintOK
      <4> QED BY <3>2, <3>4, <3>5, <4>1, OnePlaceAfter DEF AtOther
    <3>6. QED
      BY <1>8, <1>b, <2>2, <3>4, <3>o DEF TransferOut, MintOK, EscrowOK, AccountsOK
  <2>3. QED
    BY <2>1, <2>2
<1>9. ASSUME NEW v \in Wallet, NEW w \in Wallet, NEW m \in Mint, TransferBack(m, v, w)
      PROVE  MintOK(n)'
  <2>1. CASE n # m
    BY <1>9, <1>a, <1>b, <2>1 DEF TransferBack, Frame, TypeOK
  <2>2. CASE n = m
    <3>1. <<"other", v>> \in Places(n)
      BY <1>9, <2>2 DEF TransferBack, Places
    <3>2. Places(n) = AtOther(v) /\ n \in proofUse
      BY <3>1, <1>b DEF MintOK, OnePlace, Issued, AtOther
    <3>3. /\ \A u \in Wallet : ticketToken[n][u] # "one" /\ (otherToken[n][u] => u = v)
          /\ escrow[n] # "one"
      BY <3>2, <1>p, FromOther
    <3>4. /\ ticketToken'[n][w] = "one"
          /\ \A u \in Wallet : /\ u # w => ticketToken'[n][u] = ticketToken[n][u]
                               /\ ~otherToken'[n][u]
          /\ UNCHANGED <<proofUse, burned, escrow, receipt, listing>>
      BY <1>9, <1>a, <2>2, <3>3 DEF TransferBack, TypeOK
    <3>5. Places(n)' = AtTicket(w)
      <4>1. /\ ticketToken'[n][w] = "one" /\ escrow'[n] # "one"
            /\ \A u \in Wallet : ~otherToken'[n][u] /\ (u # w => ticketToken'[n][u] # "one")
        BY <3>3, <3>4
      <4>2. PlacesOf(ticketToken'[n], otherToken'[n], escrow'[n]) = AtTicket(w)
        BY <4>1, ToTicket
      <4> QED BY <4>2, <1>p
    <3>o. OnePlace(n)'
      <4>1. n \notin burned /\ receipt[n] # None
        BY <3>1, <1>b, TokenIsLive DEF MintOK
      <4> QED BY <3>2, <3>4, <3>5, <4>1, OnePlaceAfter DEF AtTicket
    <3>6. QED
      BY <1>9, <1>b, <2>2, <3>4, <3>o DEF TransferBack, MintOK, EscrowOK, AccountsOK
  <2>3. QED
    BY <2>1, <2>2
<1>10. ASSUME NEW v \in Wallet, NEW w \in Wallet, NEW m \in Mint, TransferOther(m, v, w)
       PROVE  MintOK(n)'
  <2>1. CASE n # m
    BY <1>10, <1>a, <1>b, <2>1 DEF TransferOther, market, Frame, TypeOK
  <2>2. CASE n = m
    <3>1. <<"other", v>> \in Places(n)
      BY <1>10, <2>2 DEF TransferOther, Places
    <3>2. Places(n) = AtOther(v) /\ n \in proofUse
      BY <3>1, <1>b DEF MintOK, OnePlace, Issued, AtOther
    <3>3. /\ \A u \in Wallet : ticketToken[n][u] # "one" /\ (otherToken[n][u] => u = v)
          /\ escrow[n] # "one"
      BY <3>2, <1>p, FromOther
    <3>4. /\ otherToken'[n][w]
          /\ \A u \in Wallet : u # w => ~otherToken'[n][u]
          /\ UNCHANGED <<proofUse, burned, escrow, receipt, listing, ticketToken>>
      BY <1>10, <1>a, <2>2, <3>3 DEF TransferOther, market, TypeOK
    <3>5. Places(n)' = AtOther(w)
      <4>1. /\ otherToken'[n][w] /\ escrow'[n] # "one"
            /\ \A u \in Wallet : ticketToken'[n][u] # "one" /\ (u # w => ~otherToken'[n][u])
        BY <3>3, <3>4
      <4>2. PlacesOf(ticketToken'[n], otherToken'[n], escrow'[n]) = AtOther(w)
        BY <4>1, ToOther
      <4> QED BY <4>2, <1>p
    <3>o. OnePlace(n)'
      <4>1. n \notin burned /\ receipt[n] # None
        BY <3>1, <1>b, TokenIsLive DEF MintOK
      <4> QED BY <3>2, <3>4, <3>5, <4>1, OnePlaceAfter DEF AtOther
    <3>6. QED
      BY <1>b, <3>4, <3>o DEF MintOK, EscrowOK, AccountsOK
  <2>3. QED
    BY <2>1, <2>2
<1>11. ASSUME NEW w \in Wallet, NEW m \in Mint, CloseEmpty(m, w) PROVE MintOK(n)'
  <2>1. CASE n # m
    BY <1>11, <1>a, <1>b, <2>1 DEF CloseEmpty, Frame, TypeOK
  <2>2. CASE n = m
    <3>1. /\ ticketToken[n][w] = "empty" /\ ticketToken'[n][w] = "absent"
          /\ \A u \in Wallet : u # w => ticketToken'[n][u] = ticketToken[n][u]
          /\ UNCHANGED <<proofUse, burned, escrow, receipt, listing, otherToken>>
      BY <1>11, <1>a, <2>2 DEF CloseEmpty, TypeOK
    <3>2. \A u \in Wallet : (ticketToken'[n][u] = "one") <=> (ticketToken[n][u] = "one")
      BY <3>1
    <3>3. Places(n)' = Places(n)
      BY <3>1, <3>2 DEF Places
    <3>4. QED
      BY <1>b, <3>1, <3>3 DEF MintOK, OnePlace, EscrowOK, AccountsOK, Issued,
          AtTicket, AtOther, AtEscrow
  <2>3. QED
    BY <2>1, <2>2
<1>12. ASSUME NEW w \in Wallet, NEW m \in Mint, Burn(m, w) PROVE MintOK(n)'
  <2>1. CASE n # m
    BY <1>12, <1>a, <1>b, <2>1 DEF Burn, Frame, TypeOK
  <2>2. CASE n = m
    <3>1. /\ n \in burned' /\ UNCHANGED <<proofUse, escrow, receipt, listing>>
          /\ \A u \in Wallet : ticketToken'[n][u] # "absent" => ticketToken[n][u] # "absent"
      BY <1>12, <1>a, <2>2 DEF Burn, TypeOK
    <3>2. n \in proofUse /\ Places(n)' = {}
      <4>1. CASE ticketToken[n][w] = "one" /\ otherToken' = otherToken
        <5>1. Places(n) = AtTicket(w) /\ n \in proofUse
          BY <4>1, <1>b DEF Places, MintOK, OnePlace, Issued, AtTicket
        <5>2. /\ escrow[n] # "one"
              /\ \A u \in Wallet : ~otherToken[n][u] /\ (u # w => ticketToken[n][u] # "one")
          <6>1. PlacesOf(ticketToken[n], otherToken[n], escrow[n]) = AtTicket(w)
            BY <5>1, <1>p
          <6> QED BY <6>1, FromTicket
        <5>3. ticketToken'[n] = [ticketToken[n] EXCEPT ![w] = "empty"]
          BY <1>12, <1>a, <2>2, <4>1, <5>2 DEF Burn, TypeOK
        <5>4. \A u \in Wallet : ticketToken'[n][u] # "one" /\ ~otherToken'[n][u]
          BY <1>a, <4>1, <5>2, <5>3 DEF TypeOK
        <5> QED BY <3>1, <5>1, <5>2, <5>4, <1>p, Nowhere
      <4>2. CASE otherToken[n][w] /\ ticketToken' = ticketToken
        <5>1. Places(n) = AtOther(w) /\ n \in proofUse
          BY <4>2, <1>b DEF Places, MintOK, OnePlace, Issued, AtOther
        <5>2. /\ escrow[n] # "one"
              /\ \A u \in Wallet : ticketToken[n][u] # "one" /\ (u # w => ~otherToken[n][u])
          <6>1. PlacesOf(ticketToken[n], otherToken[n], escrow[n]) = AtOther(w)
            BY <5>1, <1>p
          <6> QED BY <6>1, FromOther
        <5>3. otherToken'[n] = [otherToken[n] EXCEPT ![w] = FALSE]
          BY <1>12, <1>a, <2>2, <4>2, <5>2 DEF Burn, TypeOK
        <5>4. \A u \in Wallet : ticketToken'[n][u] # "one" /\ ~otherToken'[n][u]
          BY <1>a, <4>2, <5>2, <5>3 DEF TypeOK
        <5> QED BY <3>1, <5>1, <5>2, <5>4, <1>p, Nowhere
      <4> QED BY <1>12, <2>2, <4>1, <4>2 DEF Burn
    <3> QED
      BY <1>b, <3>1, <3>2 DEF MintOK, OnePlace, EscrowOK, AccountsOK, Issued
  <2>3. QED
    BY <2>1, <2>2
<1>13. QED
  BY <1>1, <1>2, <1>3, <1>4, <1>6, <1>7, <1>8, <1>9, <1>10, <1>11, <1>12

(* In every reachable state each consumed attestation has one token in one *)
(* place, escrow, listing and receipt agree, and only the holder of an     *)
(* unlisted ticket has a derived ticket account.                           *)
THEOREM CustodyHolds == Spec => []Custody
BY CustodyInit, CustodyStep, PTL DEF Spec

(* The parts of custody that the model-checking run names.                 *)
THEOREM OneTokenInOnePlace == Spec => []TokenInOnePlace
<1>1. Custody => TokenInOnePlace
  BY DEF Custody
<1>2. QED
  BY <1>1, CustodyHolds, PTL

(* Receipt, listing and escrow tell of the same sale (list, cancel, fill). *)
THEOREM ListingsAgree == Spec => []EscrowMatchesListing
<1>1. Custody => EscrowMatchesListing
  BY DEF Custody
<1>2. QED
  BY <1>1, CustodyHolds, PTL

(* Cancel and fill never meet an account an earlier owner left behind.     *)
THEOREM NoLeftoverAccounts == Spec => []OnlyHolderHasTicketAccount
<1>1. Custody => OnlyHolderHasTicketAccount
  BY DEF Custody
<1>2. QED
  BY <1>1, CustodyHolds, PTL

-----------------------------------------------------------------------------
(* The instructions that change a receipt or a listing.                    *)
LEMMA MarketSteps ==
  ASSUME [Next]_vars
  PROVE  \/ UNCHANGED <<receipt, listing>>
         \/ \E w \in Wallet, p \in Signed : ExecuteShield(w, p)
         \/ \E w \in Wallet, m \in Mint, ask \in Ask : ListTicket(w, m, ask)
         \/ \E w \in Wallet, m \in Mint : CancelTicketListing(w, m)
         \/ \E b, s \in Wallet, m \in Mint : FillTicketListing(b, s, m)
BY DEF Next, vars, market, InitializeV2, InitializeAdminConfig, RotateOracle,
   SetScoringModelHash, ResetAdminGuardrails, Tick, TransferOut, TransferBack,
   TransferOther, CloseEmpty, Burn

-----------------------------------------------------------------------------
(* What each of them does to the receipt of its mint.                      *)
LEMMA ReceiptAfterExecute ==
  ASSUME TypeOK, NEW w \in Wallet, NEW p \in Signed, ExecuteShield(w, p)
  PROVE  LET m == MintOf(p) IN
         /\ m \in Mint /\ m[1] = w /\ receipt[m] = None
         /\ receipt'[m] \in TicketReceipt /\ receipt'[m].holder = w
         /\ \A n \in Mint \ {m} : receipt'[n] = receipt[n]
<1> DEFINE m == MintOf(p)
<1>1. p \in Payload /\ m \in Mint /\ m[1] = p.user
  BY SignedPayloads
<1>2. p.user = w /\ receipt[m] = None
  BY DEF ExecuteShield, FieldsValid, AccountsFree
<1>3. p.price \in Nat
  BY <1>1 DEF Payload
<1>4. receipt'[m] = [original |-> w, holder |-> w, price |-> p.price,
                     lastPrice |-> p.price, listed |-> FALSE, resales |-> 0]
  BY <1>1 DEF ExecuteShield, TypeOK
<1>5. receipt'[m] \in TicketReceipt /\ receipt'[m].holder = w
  BY <1>3, <1>4 DEF TicketReceipt
<1>6. \A n \in Mint \ {m} : receipt'[n] = receipt[n]
  BY DEF ExecuteShield, TypeOK
<1>7. QED
  BY <1>1, <1>2, <1>5, <1>6

LEMMA ReceiptAfterList ==
  ASSUME TypeOK, NEW w \in Wallet, NEW m \in Mint, NEW ask \in Ask, ListTicket(w, m, ask)
  PROVE  /\ receipt[m] \in TicketReceipt
         /\ receipt'[m] = [receipt[m] EXCEPT !.listed = TRUE]
         /\ \A n \in Mint \ {m} : receipt'[n] = receipt[n]
BY DEF ListTicket, TypeOK

LEMMA ReceiptAfterCancel ==
  ASSUME TypeOK, NEW w \in Wallet, NEW m \in Mint, CancelTicketListing(w, m)
  PROVE  /\ receipt[m] \in TicketReceipt
         /\ receipt'[m] = [receipt[m] EXCEPT !.listed = FALSE]
         /\ \A n \in Mint \ {m} : receipt'[n] = receipt[n]
BY DEF CancelTicketListing, OnSaleBy, TypeOK

Sold(b, s, m) ==
  /\ receipt[m] \in TicketReceipt /\ receipt[m].listed /\ receipt[m].holder = s
  /\ b # s
  /\ receipt'[m] \in TicketReceipt
  /\ receipt'[m].original = receipt[m].original
  /\ receipt'[m].price = receipt[m].price
  /\ receipt'[m].resales = receipt[m].resales + 1
  /\ receipt'[m].holder = b
  /\ receipt'[m].listed = FALSE
  /\ \A n \in Mint \ {m} : receipt'[n] = receipt[n]

LEMMA ReceiptAfterFill ==
  ASSUME TypeOK, NEW b \in Wallet, NEW s \in Wallet, NEW m \in Mint, FillTicketListing(b, s, m)
  PROVE  Sold(b, s, m)
<1> DEFINE r == [receipt[m] EXCEPT !.holder = b, !.lastPrice = listing[m].ask,
                                   !.listed = FALSE, !.resales = @ + 1]
<1>1. receipt[m] \in TicketReceipt /\ listing[m] \in TicketListing
  BY DEF FillTicketListing, OnSaleBy, TypeOK
<1>2. receipt' = [receipt EXCEPT ![m] = r]
  BY <1>1 DEF FillTicketListing, RecordSale, TypeOK, TicketReceipt
<1>3. listing[m].ask \in Nat /\ receipt[m].resales + 1 \in Nat
  BY <1>1 DEF TicketListing, TicketReceipt
<1>4. r \in TicketReceipt
  BY <1>1, <1>3 DEF TicketReceipt
<1>5. /\ r.original = receipt[m].original /\ r.price = receipt[m].price
      /\ r.resales = receipt[m].resales + 1 /\ r.holder = b
  BY <1>1 DEF TicketReceipt
<1>6. r.listed = FALSE
  BY <1>1 DEF TicketReceipt
<1>7. receipt'[m] = r /\ \A n \in Mint \ {m} : receipt'[n] = receipt[n]
  BY <1>2 DEF TypeOK
<1>8. receipt[m].listed /\ receipt[m].holder = s /\ b # s
  BY DEF FillTicketListing, OnSaleBy
<1>9. QED
  BY <1>1, <1>4, <1>5, <1>6, <1>7, <1>8 DEF Sold

-----------------------------------------------------------------------------
(* The history of one receipt, across one step.                            *)
History(m) ==
  receipt[m] # None =>
    LET old == receipt[m]
        new == receipt'[m] IN
    /\ new # None
    /\ new.original = old.original /\ new.price = old.price
    /\ IF new.holder = old.holder
       THEN new.resales = old.resales
       ELSE old.listed /\ ~new.listed /\ new.resales = old.resales + 1

LEMMA SameReceipt ==
  ASSUME NEW m, receipt'[m] = receipt[m]
  PROVE  History(m)
BY DEF History

LEMMA HistoryStep ==
  ASSUME TypeOK, [Next]_vars, NEW n \in Mint
  PROVE  History(n)
<1>1. CASE UNCHANGED <<receipt, listing>>
  BY <1>1, SameReceipt
<1>2. ASSUME NEW w \in Wallet, NEW p \in Signed, ExecuteShield(w, p) PROVE History(n)
  <2>1. CASE n = MintOf(p)
    BY <1>2, <2>1, ReceiptAfterExecute DEF History
  <2>2. CASE n # MintOf(p)
    BY <1>2, <2>2, ReceiptAfterExecute, SameReceipt
  <2>3. QED
    BY <2>1, <2>2
<1>3. ASSUME NEW m \in Mint, NEW flag \in BOOLEAN, receipt[m] \in TicketReceipt,
             receipt'[m] = [receipt[m] EXCEPT !.listed = flag],
             \A k \in Mint \ {m} : receipt'[k] = receipt[k]
      PROVE  History(n)
  <2>1. CASE n = m
    <3>1. /\ receipt'[n] \in TicketReceipt
          /\ receipt'[n].original = receipt[n].original
          /\ receipt'[n].price = receipt[n].price
          /\ receipt'[n].holder = receipt[n].holder
          /\ receipt'[n].resales = receipt[n].resales
      BY <1>3, <2>1 DEF TicketReceipt
    <3>2. QED
      BY <3>1, NoneAssumption DEF History
  <2>2. CASE n # m
    BY <1>3, <2>2, SameReceipt
  <2>3. QED
    BY <2>1, <2>2
<1>4. ASSUME NEW b \in Wallet, NEW s \in Wallet, NEW m \in Mint, FillTicketListing(b, s, m)
      PROVE  History(n)
  <2>1. Sold(b, s, m)
    BY <1>4, ReceiptAfterFill
  <2>2. CASE n = m
    BY <2>1, <2>2, NoneAssumption DEF History, Sold
  <2>3. CASE n # m
    BY <2>1, <2>3, SameReceipt DEF Sold
  <2>4. QED
    BY <2>2, <2>3
<1>5. QED
  BY <1>1, <1>2, <1>3, <1>4, MarketSteps, ReceiptAfterList, ReceiptAfterCancel

(* The original buyer and the purchase price of a receipt are final, and   *)
(* its holder changes only in a sale of a listed ticket, which counts one  *)
(* resale (execute_shield, list, cancel and fill).                         *)
THEOREM ReceiptsKeepHistory == Spec => ReceiptHistory
<1>1. TypeOK /\ [Next]_vars => \A m \in Mint : History(m)
  BY HistoryStep
<1>2. TypeOK /\ [Next]_vars => [\A m \in Mint : receipt[m] # None =>
        LET old == receipt[m]
            new == receipt'[m] IN
        /\ new # None
        /\ new.original = old.original /\ new.price = old.price
        /\ IF new.holder = old.holder
           THEN new.resales = old.resales
           ELSE old.listed /\ ~new.listed /\ new.resales = old.resales + 1]_vars
  BY <1>1 DEF History
<1>3. QED
  BY <1>2, TypeCorrect, PTL DEF Spec, ReceiptHistory

-----------------------------------------------------------------------------
(* A stranded ticket, across one step: every instruction that opens a      *)
(* derived account of a mint needs another one, a listing, or no receipt.  *)
LEMMA StrandedStep ==
  ASSUME TypeOK, [Next]_vars, NEW n \in Mint, Stranded(n)
  PROVE  Stranded(n)'
<1> USE DEF Stranded
<1>1. CASE UNCHANGED market
  BY <1>1 DEF market
<1>2. ASSUME NEW w \in Wallet, NEW p \in Signed, ExecuteShield(w, p) PROVE Stranded(n)'
  <2>1. MintOf(p) \in Mint /\ receipt[MintOf(p)] = None
    BY <1>2, SignedPayloads DEF ExecuteShield, AccountsFree
  <2>2. n # MintOf(p)
    BY <2>1
  <2>3. QED
    BY <1>2, <2>1, <2>2 DEF ExecuteShield, TypeOK
<1>3. ASSUME NEW w \in Wallet, NEW m \in Mint, NEW ask \in Ask, ListTicket(w, m, ask)
      PROVE  Stranded(n)'
  BY <1>3 DEF ListTicket, HoldsTicket, EscrowTicket, TypeOK
<1>4. ASSUME NEW w \in Wallet, NEW m \in Mint, CancelTicketListing(w, m) PROVE Stranded(n)'
  BY <1>4 DEF CancelTicketListing, OnSaleBy, ReleaseTicket, TypeOK
<1>5. ASSUME NEW b \in Wallet, NEW s \in Wallet, NEW m \in Mint, FillTicketListing(b, s, m)
      PROVE  Stranded(n)'
  BY <1>5 DEF FillTicketListing, OnSaleBy, RecordSale, ReleaseTicket, TypeOK
<1>6. ASSUME NEW v \in Wallet, NEW w \in Wallet, NEW m \in Mint, TransferOut(m, w, v)
      PROVE  Stranded(n)'
  BY <1>6 DEF TransferOut, TypeOK
<1>7. ASSUME NEW v \in Wallet, NEW w \in Wallet, NEW m \in Mint, TransferBack(m, v, w)
      PROVE  Stranded(n)'
  BY <1>7 DEF TransferBack, TypeOK
<1>8. ASSUME NEW w \in Wallet, NEW m \in Mint, CloseEmpty(m, w) PROVE Stranded(n)'
  BY <1>8 DEF CloseEmpty, TypeOK
<1>b. ASSUME NEW w \in Wallet, NEW m \in Mint, Burn(m, w) PROVE Stranded(n)'
  BY <1>b DEF Burn, TypeOK
<1>9. \/ UNCHANGED market
      \/ \E w \in Wallet, p \in Signed : ExecuteShield(w, p)
      \/ \E w \in Wallet, m \in Mint, ask \in Ask : ListTicket(w, m, ask)
      \/ \E w \in Wallet, m \in Mint : CancelTicketListing(w, m)
      \/ \E b, s \in Wallet, m \in Mint : FillTicketListing(b, s, m)
      \/ \E v, w \in Wallet, m \in Mint : TransferOut(m, w, v)
      \/ \E v, w \in Wallet, m \in Mint : TransferBack(m, v, w)
      \/ \E w \in Wallet, m \in Mint : CloseEmpty(m, w)
      \/ \E w \in Wallet, m \in Mint : Burn(m, w)
  BY DEF Next, vars, market, InitializeV2, InitializeAdminConfig, RotateOracle,
     SetScoringModelHash, ResetAdminGuardrails, TransferOther, Tick
<1>10. QED
  BY <1>1, <1>2, <1>3, <1>4, <1>5, <1>6, <1>7, <1>8, <1>b, <1>9

(* Once the holder of an unlisted ticket has closed the derived account,   *)
(* no sequence of instructions brings the ticket back to the market.       *)
THEOREM StrandedForever == Spec => StrandedStaysStranded
<1>1. TypeOK /\ [Next]_vars => [\A m \in Mint : Stranded(m) => Stranded(m)']_vars
  BY StrandedStep
<1>2. QED
  BY <1>1, TypeCorrect, PTL DEF Spec, StrandedStaysStranded

-----------------------------------------------------------------------------
(* The refinement. Holders and asks are never None, so the mapping tells   *)
(* an absent account from a present one.                                   *)
OwnerOf == [m \in Mint |-> IF receipt[m] = None THEN None ELSE receipt[m].holder]
OfferOf == [m \in Mint |-> IF listing[m] = None THEN None ELSE listing[m].ask]

LEMMA NeverNone ==
  ASSUME TypeOK, NEW m \in Mint
  PROVE  /\ receipt[m] # None => receipt[m] \in TicketReceipt /\ receipt[m].holder # None
         /\ listing[m] # None => listing[m] \in TicketListing /\ listing[m].ask # None
BY NoneAssumption DEF TypeOK, TicketReceipt, TicketListing

(* The initial accounts map to the initial ledger, and every instruction   *)
(* to an issue, an offer, a withdrawal, a sale or a stutter.               *)
LEMMA LedgerInit == Init => Ownership!Init
BY DEF Init, Ownership!Init

LEMMA LedgerStep ==
  ASSUME TypeOK, TypeOK', [Next]_vars
  PROVE  [Ownership!Next]_(Ownership!ownershipVars)
<1> SUFFICES Ownership!Next \/ (OwnerOf' = OwnerOf /\ OfferOf' = OfferOf)
  BY DEF Ownership!ownershipVars, OwnerOf, OfferOf
<1>1. CASE UNCHANGED <<receipt, listing>>
  BY <1>1 DEF OwnerOf, OfferOf
<1>2. ASSUME NEW w \in Wallet, NEW p \in Signed, ExecuteShield(w, p) PROVE Ownership!Next
  <2> DEFINE m == MintOf(p)
  <2>1. /\ m \in Mint /\ m[1] = w /\ receipt[m] = None
        /\ receipt'[m] \in TicketReceipt /\ receipt'[m].holder = w
        /\ \A n \in Mint \ {m} : receipt'[n] = receipt[n]
    BY <1>2, ReceiptAfterExecute
  <2>2. OwnerOf[m] = None /\ OwnerOf' = [OwnerOf EXCEPT ![m] = w]
    BY <2>1, NoneAssumption DEF OwnerOf
  <2>3. OfferOf' = OfferOf
    BY <1>2 DEF ExecuteShield, OfferOf
  <2>4. [n \in Mint |-> n[1]][m] = w
    BY <2>1
  <2>5. Ownership!Issue(m)
    BY <2>2, <2>3, <2>4 DEF Ownership!Issue, OwnerOf, OfferOf
  <2>6. QED
    BY <2>1, <2>5 DEF Ownership!Next
<1>3. ASSUME NEW w \in Wallet, NEW m \in Mint, NEW ask \in Ask, ListTicket(w, m, ask)
      PROVE  Ownership!Next
  <2>1. /\ receipt[m] \in TicketReceipt
        /\ receipt'[m] = [receipt[m] EXCEPT !.listed = TRUE]
        /\ \A n \in Mint \ {m} : receipt'[n] = receipt[n]
    BY <1>3, ReceiptAfterList
  <2>2. receipt'[m] \in TicketReceipt /\ receipt'[m].holder = receipt[m].holder
    BY <2>1 DEF TicketReceipt
  <2>3. OwnerOf[m] # None /\ OwnerOf' = OwnerOf
    BY <2>1, <2>2, NeverNone, NoneAssumption DEF OwnerOf
  <2>4. ask \in Ask \ {0} /\ ask \in Nat
    BY <1>3, AskAssumption, AmountAssumption DEF ListTicket
  <2>5. listing[m] = None /\ listing' = [listing EXCEPT ![m] = [seller |-> w, ask |-> ask]]
    BY <1>3 DEF ListTicket
  <2>6. [seller |-> w, ask |-> ask] \in TicketListing
    BY <2>4 DEF TicketListing
  <2>7. OfferOf[m] = None /\ OfferOf' = [OfferOf EXCEPT ![m] = ask]
    BY <2>5, <2>6, NoneAssumption DEF OfferOf, TypeOK
  <2>8. Ownership!Offer(m, ask)
    BY <2>3, <2>7 DEF Ownership!Offer, OwnerOf, OfferOf
  <2>9. QED
    BY <2>4, <2>8 DEF Ownership!Next
<1>4. ASSUME NEW w \in Wallet, NEW m \in Mint, CancelTicketListing(w, m) PROVE Ownership!Next
  <2>1. /\ receipt[m] \in TicketReceipt
        /\ receipt'[m] = [receipt[m] EXCEPT !.listed = FALSE]
        /\ \A n \in Mint \ {m} : receipt'[n] = receipt[n]
    BY <1>4, ReceiptAfterCancel
  <2>2. receipt'[m] \in TicketReceipt /\ receipt'[m].holder = receipt[m].holder
    BY <2>1 DEF TicketReceipt
  <2>3. OwnerOf' = OwnerOf
    BY <2>1, <2>2, NoneAssumption DEF OwnerOf
  <2>4. listing[m] # None /\ listing' = [listing EXCEPT ![m] = None]
    BY <1>4 DEF CancelTicketListing, OnSaleBy, ReleaseTicket
  <2>5. OfferOf[m] # None /\ OfferOf' = [OfferOf EXCEPT ![m] = None]
    BY <2>4, NeverNone DEF OfferOf, TypeOK
  <2>6. Ownership!Withdraw(m)
    BY <2>3, <2>5 DEF Ownership!Withdraw, OwnerOf, OfferOf
  <2>7. QED
    BY <2>6 DEF Ownership!Next
<1>5. ASSUME NEW b \in Wallet, NEW s \in Wallet, NEW m \in Mint, FillTicketListing(b, s, m)
      PROVE  Ownership!Next
  <2>1. Sold(b, s, m)
    BY <1>5, ReceiptAfterFill
  <2>2. OwnerOf[m] = s /\ OwnerOf' = [OwnerOf EXCEPT ![m] = b]
    BY <2>1, NoneAssumption DEF Sold, OwnerOf
  <2>3. listing[m] # None /\ listing' = [listing EXCEPT ![m] = None]
    BY <1>5 DEF FillTicketListing, OnSaleBy, ReleaseTicket
  <2>4. OfferOf[m] # None /\ OfferOf' = [OfferOf EXCEPT ![m] = None]
    BY <2>3, NeverNone DEF OfferOf, TypeOK
  <2>5. b # s
    BY <2>1 DEF Sold
  <2>6. Ownership!Sell(m, b)
    BY <2>2, <2>4, <2>5 DEF Ownership!Sell, OwnerOf, OfferOf
  <2>7. QED
    BY <2>6 DEF Ownership!Next
<1>6. QED
  BY <1>1, <1>2, <1>3, <1>4, <1>5, MarketSteps

(* Every behaviour of the program's accounts is a behaviour of the ledger: *)
(* a ticket is issued once, to the wallet its attestation names, and is    *)
(* resold only to a buyer that took the owner's offer.                     *)
THEOREM ProgramImplementsLedger == Spec => ImplementsOwnership
<1>1. TypeOK /\ [Next]_vars => TypeOK'
  BY TypeStep
<1>2. TypeOK /\ TypeOK' /\ [Next]_vars
        => [Ownership!Next]_(Ownership!ownershipVars)
  BY LedgerStep
<1>3. QED
  BY <1>1, <1>2, LedgerInit, TypeCorrect, PTL
  DEF Spec, ImplementsOwnership, Ownership!Spec

-----------------------------------------------------------------------------
(* Payments: what an instruction takes from a wallet beyond a deposit.     *)
BuysOne(w) ==
  \E m \in Mint :
    /\ receipt'[m] # None /\ receipt'[m].holder = w
    /\ receipt[m] = None \/ receipt[m].holder # w

LEMMA Deposits ==
  ASSUME TypeOK, [Next]_vars, NEW w \in Wallet
  PROVE  \/ lamports[w] - lamports'[w] <= Rent
         \/ \E v \in Wallet, p \in Signed : ExecuteShield(v, p)
         \/ \E b, s \in Wallet, m \in Mint : FillTicketListing(b, s, m)
<1> USE AmountAssumption DEF TypeOK
<1>1. CASE lamports' = lamports
  BY <1>1
<1>2. ASSUME NEW v \in Wallet,
             \/ lamports' = [lamports EXCEPT ![v] = @ - Rent]
             \/ lamports' = [lamports EXCEPT ![v] = @ + Rent]
      PROVE  lamports[w] - lamports'[w] <= Rent
  <2>1. lamports[v] \in Nat /\ lamports[w] \in Nat
    OBVIOUS
  <2>2. lamports'[w] \in {lamports[w], lamports[w] - Rent, lamports[w] + Rent}
    BY <1>2, <2>1
  <2> QED BY <2>1, <2>2
<1>3. \/ lamports' = lamports
      \/ \E v \in Wallet : \/ lamports' = [lamports EXCEPT ![v] = @ - Rent]
                           \/ lamports' = [lamports EXCEPT ![v] = @ + Rent]
      \/ \E v \in Wallet, p \in Signed : ExecuteShield(v, p)
      \/ \E b, s \in Wallet, m \in Mint : FillTicketListing(b, s, m)
  <2>1. CASE UNCHANGED vars
    BY <2>1 DEF vars
  <2>2. CASE Next
    BY <2>2 DEF Next, InitializeV2, InitializeAdminConfig, RotateOracle, SetScoringModelHash,
       ResetAdminGuardrails, ListTicket, CancelTicketListing, TransferOut, TransferBack,
       TransferOther, CloseEmpty, Burn, Tick
  <2> QED BY <2>1, <2>2
<1> QED BY <1>1, <1>2, <1>3

LEMMA ExecutePays ==
  ASSUME TypeOK, NEW v \in Wallet, NEW p \in Signed, ExecuteShield(v, p),
         NEW w \in Wallet, lamports[w] - lamports'[w] > Rent
  PROVE  BuysOne(w)
<1> USE AmountAssumption
<1>1. w = v
  <2>1. SUFFICES ASSUME w # v PROVE FALSE
    OBVIOUS
  <2>2. lamports'[w] >= lamports[w] /\ lamports'[w] \in Nat /\ lamports[w] \in Nat
    BY <2>1, ExecuteBalances DEF TypeOK
  <2> QED BY <2>2
<1>2. PICK m \in Mint : m = MintOf(p)
  BY SignedPayloads
<1>3. receipt[m] = None /\ receipt'[m] # None /\ receipt'[m].holder = v
  BY <1>2, ReceiptAfterExecute, NoneAssumption
<1> QED BY <1>1, <1>3 DEF BuysOne

LEMMA FillPays ==
  ASSUME TypeOK, NEW b \in Wallet, NEW s \in Wallet, NEW m \in Mint,
         FillTicketListing(b, s, m),
         NEW w \in Wallet, lamports[w] - lamports'[w] > Rent
  PROVE  BuysOne(w)
<1> USE AmountAssumption
<1>1. w = b
  <2>1. SUFFICES ASSUME w # b PROVE FALSE
    OBVIOUS
  <2>2. lamports'[w] >= lamports[w] /\ lamports'[w] \in Nat /\ lamports[w] \in Nat
    BY <2>1, FillBalances DEF TypeOK
  <2> QED BY <2>2
<1>2. Sold(b, s, m)
  BY ReceiptAfterFill
<1> QED BY <1>1, <1>2, NoneAssumption DEF BuysOne, Sold

(* A wallet loses more than one deposit only to become a ticket's holder   *)
(* in the same instruction (execute_shield, fill_ticket_listing).          *)
THEOREM PaymentsBuyTickets == Spec => PaymentBuysTicket
<1>1. ASSUME TypeOK, [Next]_vars, NEW w \in Wallet, lamports[w] - lamports'[w] > Rent
      PROVE  BuysOne(w)
  <2>1. lamports[w] \in Nat /\ lamports'[w] \in Nat
    BY <1>1, TypeStep DEF TypeOK
  <2>2. ~(lamports[w] - lamports'[w] <= Rent)
    BY <1>1, <2>1, AmountAssumption
  <2> QED BY <1>1, <2>2, Deposits, ExecutePays, FillPays
<1>2. TypeOK /\ [Next]_vars =>
        [\A w \in Wallet : lamports[w] - lamports'[w] > Rent => BuysOne(w)]_vars
  BY <1>1
<1>3. (\A w \in Wallet : lamports[w] - lamports'[w] > Rent => BuysOne(w)) <=>
        (\A w \in Wallet : lamports[w] - lamports'[w] > Rent =>
           \E m \in Mint :
             /\ receipt'[m] # None /\ receipt'[m].holder = w
             /\ receipt[m] = None \/ receipt[m].holder # w)
  BY DEF BuysOne
<1> QED BY <1>2, <1>3, TypeCorrect, PTL DEF Spec, PaymentBuysTicket

-----------------------------------------------------------------------------
(* A listing leaves nothing in the way of closing it: the seller's records *)
(* and the escrow are as cancel and fill require, and nobody's derived     *)
(* ticket account is in use, so that the new one can be created.           *)
ListingsAreReady ==
  \A m \in Mint : listing[m] # None =>
    /\ OnSaleBy(m, listing[m].seller)
    /\ \A w \in Wallet : ticketToken[m][w] = "absent"

(* What is left for cancel and fill to ask of a listing is the caller's    *)
(* balance, the arithmetic of the fee and of the resale count, and a buyer *)
(* other than the seller: the guards ListingsCanBeClosed does not assume   *)
(* hold in every reachable state.                                          *)
THEOREM ListingsStayReady == Spec => []ListingsAreReady
<1>1. Custody => ListingsAreReady
  <2>1. SUFFICES ASSUME Custody, NEW m \in Mint, listing[m] # None
                 PROVE  /\ OnSaleBy(m, listing[m].seller)
                        /\ \A w \in Wallet : ticketToken[m][w] = "absent"
    BY DEF ListingsAreReady
  <2>2. EscrowOK(m) /\ AccountsOK(m)
    BY <2>1, CustodyByMint DEF MintOK
  <2>3. OnSaleBy(m, listing[m].seller)
    BY <2>1, <2>2 DEF EscrowOK, OnSaleBy
  <2>4. \A w \in Wallet : ticketToken[m][w] = "absent"
    BY <2>1, <2>2 DEF EscrowOK, AccountsOK
  <2> QED BY <2>3, <2>4
<1> QED BY <1>1, CustodyHolds, PTL
=============================================================================
