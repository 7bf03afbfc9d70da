--------------------------- MODULE MCTicketProgram ---------------------------
(* A small instance of TicketProgram for TLC. *)
EXTENDS TicketProgram

CONSTANTS auth, alice, bob, p1, n1, n2, k1, k2, base, patch

(* One payload, with the fields the instance varies. *)
Pay(u, n, h, e, k, price) ==
  [user |-> u, proof |-> p1, nonce |-> n, model |-> h, expiry |-> e,
   wellFormed |-> TRUE, blocked |-> FALSE, price |-> price, key |-> k]

(* Two payloads for alice share an id (one signed after a key rotation), one   *)
(* of bob's is signed under the patched model, and one of each is unusable.    *)
MCSigned ==
  LET first == Pay(alice, n1, base, 1, k1, 1) IN
  { first,
    Pay(alice, n1, base, 2, k2, 2),
    Pay(bob, n1, patch, 2, k1, 1),
    [first EXCEPT !.nonce = n2, !.blocked = TRUE],
    [first EXCEPT !.nonce = n2, !.wellFormed = FALSE] }
=============================================================================
