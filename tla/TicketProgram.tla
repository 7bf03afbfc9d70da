---------------------------- MODULE TicketProgram ----------------------------
(***************************************************************************)
(* The on-chain program programs/unforgiven_v2 (lib.rs): governance of the *)
(* oracle key and the scoring model, one-time execution of an oracle       *)
(* attestation into a ticket, and the escrowed resale market.              *)
(*                                                                         *)
(* A Solana transaction is atomic: an instruction that fails anywhere      *)
(* leaves every account as it was, so every instruction is one step, with  *)
(* all its requirements as guards, and a failing one is a stutter.         *)
(* Recorded timestamps and events are left out: no instruction reads them. *)
(***************************************************************************)
EXTENDS Integers, FiniteSets

CONSTANTS
  Wallet,            \* keys that sign transactions and own lamports
  UpgradeAuthority,  \* the wallet that may initialise the program
  Proof,             \* zk proof hashes
  Nonce,             \* oracle nonces
  OracleKey,         \* ed25519 keys an oracle may sign with
  ModelHash,         \* scoring model hashes
  Signed,            \* payloads some oracle key has signed, with that key
  Ask,               \* ask prices sellers try
  Genesis,           \* lamports each wallet starts with
  Rent,              \* deposit of one account (sizes abstracted to one amount)
  ResaleFeeBps, BpsScale,
  U64Max,            \* the largest u64
  MaxResales,        \* bound: where checked_add of resale_count fails
  MaxNow,            \* bound: the last clock tick explored
  None               \* an account that does not exist

(* The address of a ticket mint is derived from exactly these three.       *)
Mint == Wallet \X Proof \X Nonce

Payload == [user : Wallet, proof : Proof, nonce : Nonce, model : ModelHash,
            expiry : Nat, wellFormed : BOOLEAN, blocked : BOOLEAN,
            price : Nat, key : OracleKey]

AdminConfig == [authority : Wallet, oracle : OracleKey, model : ModelHash]

TicketReceipt == [original : Wallet, holder : Wallet, price : Nat,
                  lastPrice : Nat, listed : BOOLEAN, resales : Nat]

TicketListing == [seller : Wallet, ask : Nat]

(* A token account of a ticket mint: absent, open and empty, or holding    *)
(* the one token of the mint.                                              *)
TokenAccount == {"absent", "empty", "one"}

ASSUME WalletAssumption == UpgradeAuthority \in Wallet
ASSUME SignedAssumption == Signed \subseteq Payload
ASSUME AskAssumption == Ask \subseteq 0..U64Max
ASSUME AmountAssumption ==
  /\ Genesis \in Nat /\ Rent \in Nat /\ U64Max \in Nat
  /\ MaxResales \in Nat /\ MaxNow \in Nat
  /\ ResaleFeeBps \in Nat /\ BpsScale \in Nat \ {0}
  /\ ResaleFeeBps <= BpsScale
ASSUME NoneAssumption ==
  None \notin Wallet \cup AdminConfig \cup TicketReceipt \cup TicketListing \cup Nat

VARIABLES
  globalConfig,  \* authority of GlobalConfigV2, or None
  adminConfig,   \* AdminConfig, or None
  proofUse,      \* consumed (user, proof, nonce) triples: ProofUse accounts
  mints,         \* ticket mints created, authorities removed
  burned,        \* mints whose token was burned: the supply is 0 for good
  receipt,       \* TicketReceipt of each mint, or None
  listing,       \* TicketListing of each mint, or None
  escrow,        \* listing_escrow_token of each mint
  ticketToken,   \* the derived ticket token account of each mint and owner
  otherToken,    \* is the token in an ordinary token account of the owner?
  lamports,      \* balance of each wallet
  now            \* Clock::unix_timestamp

governance == <<globalConfig, adminConfig>>
market == <<receipt, listing, escrow, ticketToken>>
vars == <<globalConfig, adminConfig, proofUse, mints, burned, receipt, listing, escrow,
          ticketToken, otherToken, lamports, now>>

TypeOK ==
  /\ globalConfig \in Wallet \cup {None}
  /\ adminConfig \in AdminConfig \cup {None}
  /\ proofUse \subseteq Mint
  /\ mints \subseteq Mint
  /\ burned \subseteq Mint
  /\ receipt \in [Mint -> TicketReceipt \cup {None}]
  /\ listing \in [Mint -> TicketListing \cup {None}]
  /\ escrow \in [Mint -> TokenAccount]
  /\ ticketToken \in [Mint -> [Wallet -> TokenAccount]]
  /\ otherToken \in [Mint -> [Wallet -> BOOLEAN]]
  /\ lamports \in [Wallet -> Nat]
  /\ now \in Nat

Init ==
  /\ globalConfig = None
  /\ adminConfig = None
  /\ proofUse = {}
  /\ mints = {}
  /\ burned = {}
  /\ receipt = [m \in Mint |-> None]
  /\ listing = [m \in Mint |-> None]
  /\ escrow = [m \in Mint |-> "absent"]
  /\ ticketToken = [m \in Mint |-> [w \in Wallet |-> "absent"]]
  /\ otherToken = [m \in Mint |-> [w \in Wallet |-> FALSE]]
  /\ lamports = [w \in Wallet |-> Genesis]
  /\ now = 0

-----------------------------------------------------------------------------
(* A system transfer or an account deposit fails without the lamports.     *)
CanPayAnything(w, amount) == TRUE
CanPay(w, amount) == lamports[w] >= amount

(* What a transfer does to the balances. Who pays and who is paid may be   *)
(* one wallet, so that transfers are applied one after the other.          *)
Credited(balance, w, amount) == [balance EXCEPT ![w] = @ + amount]
Debited(balance, w, amount) == [balance EXCEPT ![w] = @ - amount]

-----------------------------------------------------------------------------
(* Governance instructions.                                                *)

(* `init` of the singleton: only the upgrade authority, only once.         *)
InitializeV2(w) ==
  /\ w = UpgradeAuthority
  /\ globalConfig = None
  /\ CanPay(w, Rent)
  /\ globalConfig' = w
  /\ lamports' = [lamports EXCEPT ![w] = @ - Rent]
  /\ UNCHANGED <<burned, adminConfig, proofUse, mints, market, otherToken, now>>

InitializeAdminConfig(w, k, h) ==
  /\ w = UpgradeAuthority
  /\ adminConfig = None
  /\ CanPay(w, Rent)
  /\ adminConfig' = [authority |-> w, oracle |-> k, model |-> h]
  /\ lamports' = [lamports EXCEPT ![w] = @ - Rent]
  /\ UNCHANGED <<burned, globalConfig, proofUse, mints, market, otherToken, now>>

(* The accounts every governance instruction requires (AdminOnly).         *)
AdminOnly(w) ==
  /\ adminConfig # None
  /\ adminConfig.authority = w

RotateOracle(w, k) ==
  /\ AdminOnly(w)
  /\ adminConfig' = [adminConfig EXCEPT !.oracle = k]
  /\ UNCHANGED <<burned, globalConfig, proofUse, mints, market, otherToken, lamports, now>>

SetScoringModelHash(w, h) ==
  /\ AdminOnly(w)
  /\ adminConfig' = [adminConfig EXCEPT !.model = h]
  /\ UNCHANGED <<burned, globalConfig, proofUse, mints, market, otherToken, lamports, now>>

(* The same write as SetScoringModelHash, with the baseline hash.          *)
ResetAdminGuardrails(w, baseline) ==
  /\ AdminOnly(w)
  /\ adminConfig' = [adminConfig EXCEPT !.model = baseline]
  /\ UNCHANGED <<burned, globalConfig, proofUse, mints, market, otherToken, lamports, now>>

-----------------------------------------------------------------------------
(* Attestations.                                                           *)

MintOf(p) == <<p.user, p.proof, p.nonce>>

(* validate_preview_request_fields: wellFormed stands for the range checks *)
(* on policy, dignity, velocity, mode and elapsed time.                    *)
FieldsValidForAnyone(p, w) ==
  /\ p.wellFormed
  /\ p.expiry > now
  /\ p.model = adminConfig.model
FieldsValid(p, w) ==
  /\ p.wellFormed
  /\ p.expiry > now
  /\ p.model = adminConfig.model
  /\ p.user = w

(* verify_ed25519_ix: the payload is signed, by the configured oracle key. *)
OracleSigned(p) == p \in Signed /\ p.key = adminConfig.oracle

(* create_pda_account refuses an address that is already in use.           *)
TokenAccountFree(m, w) == ticketToken[m][w] = "absent"
AccountsFree(m, w) ==
  /\ m \notin proofUse
  /\ m \notin mints
  /\ ticketToken[m][w] = "absent"
  /\ receipt[m] = None

(* execute_shield: consume the attestation, charge the quoted price, mint  *)
(* the ticket. The user pays for four accounts before the price.           *)
ExecuteShield(w, p) ==
  LET m == MintOf(p) IN
  /\ globalConfig # None /\ adminConfig # None
  /\ FieldsValid(p, w)
  /\ OracleSigned(p)
  /\ AccountsFree(m, w)
  /\ ~p.blocked
  /\ CanPay(w, 4 * Rent + p.price)
  /\ proofUse' = proofUse \cup {m}
  /\ mints' = mints \cup {m}
  /\ ticketToken' = [ticketToken EXCEPT ![m][w] = "one"]
  /\ receipt' = [receipt EXCEPT ![m] =
                   [original |-> w, holder |-> w, price |-> p.price,
                    lastPrice |-> p.price, listed |-> FALSE, resales |-> 0]]
  /\ lamports' = Credited(Debited(lamports, w, 4 * Rent + p.price), globalConfig, p.price)
  /\ UNCHANGED <<burned, governance, listing, escrow, otherToken, now>>

-----------------------------------------------------------------------------
(* The resale market.                                                      *)

(* The seller's ticket account, which must hold the token: only the        *)
(* derived account of (mint, seller) is accepted.                          *)
HoldsTicketAnywhere(m, w) == ticketToken[m][w] = "one" \/ otherToken[m][w]
HoldsTicket(m, w) == ticketToken[m][w] = "one"

(* The token goes to escrow and the seller's ticket account is closed.     *)
EscrowKeepingAccount(m, w) ==
  /\ ticketToken' = [ticketToken EXCEPT ![m][w] = "empty"]
  /\ escrow' = [escrow EXCEPT ![m] = "one"]
EscrowTicket(m, w) ==
  /\ ticketToken' = [ticketToken EXCEPT ![m][w] = "absent"]
  /\ escrow' = [escrow EXCEPT ![m] = "one"]

(* list_ticket. Two accounts are paid for before the third is refunded.    *)
ListTicket(w, m, ask) ==
  /\ ask > 0
  /\ receipt[m] # None
  /\ ~receipt[m].listed
  /\ receipt[m].holder = w
  /\ HoldsTicket(m, w)
  /\ listing[m] = None
  /\ escrow[m] = "absent"
  /\ CanPay(w, 2 * Rent)
  /\ EscrowTicket(m, w)
  /\ listing' = [listing EXCEPT ![m] = [seller |-> w, ask |-> ask]]
  /\ receipt' = [receipt EXCEPT ![m].listed = TRUE]
  /\ lamports' = [lamports EXCEPT ![w] = @ - Rent]
  /\ UNCHANGED <<burned, governance, proofUse, mints, otherToken, now>>

(* What cancelling and filling both require of the mint's accounts.        *)
OnSaleBy(m, seller) ==
  /\ receipt[m] # None
  /\ receipt[m].listed
  /\ receipt[m].holder = seller
  /\ listing[m] # None
  /\ listing[m].seller = seller
  /\ escrow[m] = "one"

(* The token leaves escrow for a ticket account that must not exist yet;   *)
(* the escrow and the listing are closed.                                  *)
ReleaseKeepingListing(m, w) ==
  /\ ticketToken[m][w] = "absent"
  /\ ticketToken' = [ticketToken EXCEPT ![m][w] = "one"]
  /\ escrow' = [escrow EXCEPT ![m] = "absent"]
  /\ UNCHANGED listing
ReleaseTicket(m, w) ==
  /\ ticketToken[m][w] = "absent"
  /\ ticketToken' = [ticketToken EXCEPT ![m][w] = "one"]
  /\ escrow' = [escrow EXCEPT ![m] = "absent"]
  /\ listing' = [listing EXCEPT ![m] = None]

CancelTicketListing(w, m) ==
  /\ OnSaleBy(m, w)
  /\ CanPay(w, Rent)
  /\ ReleaseTicket(m, w)
  /\ receipt' = [receipt EXCEPT ![m].listed = FALSE]
  /\ lamports' = [lamports EXCEPT ![w] = @ + Rent]
  /\ UNCHANGED <<burned, governance, proofUse, mints, otherToken, now>>

(* compute_resale_fee: checked_mul fails where the product leaves u64.     *)
FeeStrictlyBelow(ask) == ask * ResaleFeeBps < U64Max - 1
FeeComputable(ask) == ask * ResaleFeeBps <= U64Max
ResaleFee(ask) == (ask * ResaleFeeBps) \div BpsScale

(* The buyer pays the proceeds and the fee, and the deposit of the new     *)
(* account; the deposits of escrow and listing return to the seller.       *)
Settle(buyer, seller, ask) ==
  LET fee == ResaleFee(ask)
      paid == Debited(lamports, buyer, Rent + ask)
      earned == Credited(paid, seller, ask - fee + 2 * Rent)
  IN lamports' = Credited(earned, globalConfig, fee)

RecordSaleToSeller(m, buyer, ask) ==
  receipt' = [receipt EXCEPT ![m].lastPrice = ask, ![m].listed = FALSE,
                             ![m].resales = @ + 1]
RecordSale(m, buyer, ask) ==
  receipt' = [receipt EXCEPT ![m].holder = buyer, ![m].lastPrice = ask,
                             ![m].listed = FALSE, ![m].resales = @ + 1]

FillTicketListing(buyer, seller, m) ==
  LET ask == listing[m].ask IN
  /\ globalConfig # None
  /\ OnSaleBy(m, seller)
  /\ buyer # seller
  /\ FeeComputable(ask)
  /\ CanPay(buyer, Rent + ask)
  /\ receipt[m].resales < MaxResales
  /\ ReleaseTicket(m, buyer)
  /\ RecordSale(m, buyer, ask)
  /\ Settle(buyer, seller, ask)
  /\ UNCHANGED <<burned, governance, proofUse, mints, otherToken, now>>

-----------------------------------------------------------------------------
(* What owners may do with the SPL token program alone, and the clock.     *)

TransferOut(m, w, v) ==
  /\ ticketToken[m][w] = "one"
  /\ ticketToken' = [ticketToken EXCEPT ![m][w] = "empty"]
  /\ otherToken' = [otherToken EXCEPT ![m][v] = TRUE]
  /\ UNCHANGED <<burned, governance, proofUse, mints, receipt, listing, escrow, lamports, now>>

TransferBack(m, v, w) ==
  /\ otherToken[m][v]
  /\ ticketToken[m][w] = "empty"
  /\ otherToken' = [otherToken EXCEPT ![m][v] = FALSE]
  /\ ticketToken' = [ticketToken EXCEPT ![m][w] = "one"]
  /\ UNCHANGED <<burned, governance, proofUse, mints, receipt, listing, escrow, lamports, now>>

TransferOther(m, v, w) ==
  /\ v # w
  /\ otherToken[m][v]
  /\ otherToken' = [otherToken EXCEPT ![m][v] = FALSE, ![m][w] = TRUE]
  /\ UNCHANGED <<burned, governance, proofUse, mints, market, lamports, now>>

CloseEmpty(m, w) ==
  /\ ticketToken[m][w] = "empty"
  /\ ticketToken' = [ticketToken EXCEPT ![m][w] = "absent"]
  /\ lamports' = [lamports EXCEPT ![w] = @ + Rent]
  /\ UNCHANGED <<burned, governance, proofUse, mints, receipt, listing, escrow, otherToken, now>>

(* The owner destroys the token. Nobody can mint another.                  *)
Burn(m, w) ==
  /\ \/ /\ ticketToken[m][w] = "one"
        /\ ticketToken' = [ticketToken EXCEPT ![m][w] = "empty"]
        /\ UNCHANGED otherToken
     \/ /\ otherToken[m][w]
        /\ otherToken' = [otherToken EXCEPT ![m][w] = FALSE]
        /\ UNCHANGED ticketToken
  /\ burned' = burned \cup {m}
  /\ UNCHANGED <<governance, proofUse, mints, receipt, listing, escrow, lamports, now>>

Tick ==
  /\ now < MaxNow
  /\ now' = now + 1
  /\ UNCHANGED <<burned, governance, proofUse, mints, market, otherToken, lamports>>

Next ==
  \/ \E w \in Wallet : InitializeV2(w)
  \/ \E w \in Wallet, k \in OracleKey, h \in ModelHash : InitializeAdminConfig(w, k, h)
  \/ \E w \in Wallet, k \in OracleKey : RotateOracle(w, k)
  \/ \E w \in Wallet, h \in ModelHash : SetScoringModelHash(w, h)
  \/ \E w \in Wallet, h \in ModelHash : ResetAdminGuardrails(w, h)
  \/ \E w \in Wallet, p \in Signed : ExecuteShield(w, p)
  \/ \E w \in Wallet, m \in Mint, ask \in Ask : ListTicket(w, m, ask)
  \/ \E w \in Wallet, m \in Mint : CancelTicketListing(w, m)
  \/ \E buyer, seller \in Wallet, m \in Mint : FillTicketListing(buyer, seller, m)
  \/ \E v, w \in Wallet, m \in Mint : TransferOut(m, w, v)
  \/ \E v, w \in Wallet, m \in Mint : TransferBack(m, v, w)
  \/ \E v, w \in Wallet, m \in Mint : TransferOther(m, v, w)
  \/ \E w \in Wallet, m \in Mint : CloseEmpty(m, w)
  \/ \E w \in Wallet, m \in Mint : Burn(m, w)
  \/ Tick

Spec == Init /\ [][Next]_vars

-----------------------------------------------------------------------------
(* Properties.                                                             *)

Issued(m) == m \in proofUse

(* The token accounts that hold the token of a mint.                       *)
Places(m) ==
  {<<"ticket", w>> : w \in {v \in Wallet : ticketToken[m][v] = "one"}}
    \cup {<<"other", w>> : w \in {v \in Wallet : otherToken[m][v]}}
    \cup {<<"escrow", w>> : w \in {v \in {UpgradeAuthority} : escrow[m] = "one"}}

(* An attestation that was consumed has exactly one ticket, whose token is *)
(* in exactly one account, through any resale, cancellation or transfer    *)
(* outside the program, until its owner burns it, and in none after that;  *)
(* one that was not consumed has none (execute_shield with list, cancel    *)
(* and fill).                                                              *)
TokenInOnePlace ==
  \A m \in Mint :
    /\ Issued(m) <=> receipt[m] # None
    /\ IF Issued(m) /\ m \notin burned THEN \E x \in Places(m) : Places(m) = {x}
                                        ELSE Places(m) = {}
    /\ m \in burned => Issued(m)

(* The receipt's listed flag, the listing account and the escrow account   *)
(* always agree, and the listing's seller is the receipt's holder, so that *)
(* cancel and fill never meet accounts of different sales.                 *)
EscrowMatchesListing ==
  \A m \in Mint :
    /\ escrow[m] # "empty"
    /\ (escrow[m] = "one") <=> (listing[m] # None)
    /\ (listing[m] # None) <=> (receipt[m] # None /\ receipt[m].listed)
    /\ listing[m] # None => listing[m].seller = receipt[m].holder

(* A derived ticket account exists only for the current holder of an       *)
(* unlisted ticket: the `init` of cancel and of fill never meets one that  *)
(* an earlier owner left behind.                                           *)
OnlyHolderHasTicketAccount ==
  \A m \in Mint, w \in Wallet :
    ticketToken[m][w] # "absent" =>
      receipt[m] # None /\ receipt[m].holder = w /\ ~receipt[m].listed

(* A listing can always be closed: a seller with the deposit of one account*)
(* can cancel it, also at a price no buyer can ever pay, and any other     *)
(* wallet with the lamports can fill it if its fee stays within u64,       *)
(* whoever owned the ticket before.                                        *)
ListingsCanBeClosed ==
  \A m \in Mint : listing[m] # None =>
    LET l == listing[m] IN
    /\ lamports[l.seller] >= Rent => ENABLED CancelTicketListing(l.seller, m)
    /\ \A b \in Wallet \ {l.seller} :
         /\ globalConfig # None
         /\ lamports[b] >= Rent + l.ask
         /\ l.ask * ResaleFeeBps <= U64Max /\ receipt[m].resales < MaxResales
         => ENABLED FillTicketListing(b, l.seller, m)

(* A wallet loses more than one deposit in an instruction only when the    *)
(* same instruction makes it the holder of a ticket: prices, sale prices   *)
(* and fees are never taken for nothing (execute_shield, fill, list).      *)
PaymentBuysTicket ==
  [][\A w \in Wallet :
       lamports[w] - lamports'[w] > Rent =>
         \E m \in Mint :
           /\ receipt'[m] # None /\ receipt'[m].holder = w
           /\ receipt[m] = None \/ receipt[m].holder # w]_vars

(* A receipt is never rewritten by a second execution: the original buyer  *)
(* and the purchase price are final, and the resale count moves by one     *)
(* exactly when the holder changes, which only a sale on offer does.       *)
ReceiptHistory ==
  [][\A m \in Mint : receipt[m] # None =>
       LET old == receipt[m]
           new == receipt'[m] IN
       /\ new # None
       /\ new.original = old.original /\ new.price = old.price
       /\ IF new.holder = old.holder
          THEN new.resales = old.resales
          ELSE old.listed /\ ~new.listed /\ new.resales = old.resales + 1]_vars

(* A ticket whose holder moved the token out, or burned it, and closed the *)
(* derived account can never be listed again: no instruction recreates the *)
(* account for an unlisted ticket.                                         *)
Stranded(m) ==
  /\ receipt[m] # None /\ ~receipt[m].listed
  /\ \A w \in Wallet : ticketToken[m][w] = "absent"
StrandedStaysStranded == [][\A m \in Mint : Stranded(m) => Stranded(m)']_vars

(* The abstract ledger of TicketOwnership, read off the receipts.          *)
Ownership ==
  INSTANCE TicketOwnership WITH
    Ticket <- Mint, Owner <- Wallet, Price <- Ask \ {0},
    beneficiary <- [m \in Mint |-> m[1]],
    owner <- [m \in Mint |-> IF receipt[m] = None THEN None ELSE receipt[m].holder],
    offer <- [m \in Mint |-> IF listing[m] = None THEN None ELSE listing[m].ask]

(* Every behaviour of the accounts is a behaviour of the abstract ledger.  *)
ImplementsOwnership == Ownership!Spec
=============================================================================
