--------------------------- MODULE TicketOwnership ---------------------------
(***************************************************************************)
(* What the ticket program promises its users: a ticket is issued once, to *)
(* the one wallet its attestation names; it changes hands only in a sale   *)
(* the owner offered; an offer ends in a sale or is withdrawn.             *)
(***************************************************************************)
CONSTANTS
  Ticket, Owner, Price,
  beneficiary,   \* the wallet each ticket may be issued to
  None

VARIABLES
  owner,   \* owner of each ticket, None before it is issued
  offer    \* price the owner asks, None while not for sale

ownershipVars == <<owner, offer>>

Init ==
  /\ owner = [t \in Ticket |-> None]
  /\ offer = [t \in Ticket |-> None]

Issue(t) ==
  /\ owner[t] = None
  /\ owner' = [owner EXCEPT ![t] = beneficiary[t]]
  /\ UNCHANGED offer

Offer(t, price) ==
  /\ owner[t] # None
  /\ offer[t] = None
  /\ offer' = [offer EXCEPT ![t] = price]
  /\ UNCHANGED owner

Withdraw(t) ==
  /\ offer[t] # None
  /\ offer' = [offer EXCEPT ![t] = None]
  /\ UNCHANGED owner

Sell(t, buyer) ==
  /\ offer[t] # None
  /\ buyer # owner[t]
  /\ owner' = [owner EXCEPT ![t] = buyer]
  /\ offer' = [offer EXCEPT ![t] = None]

Next ==
  \E t \in Ticket :
    \/ Issue(t)
    \/ \E price \in Price : Offer(t, price)
    \/ Withdraw(t)
    \/ \E buyer \in Owner : Sell(t, buyer)

Spec == Init /\ [][Next]_ownershipVars
=============================================================================
