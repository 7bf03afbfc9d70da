----------------------------- MODULE MCHubWorkflow -----------------------------
(* Small instances of HubWorkflow for TLC. *)
EXTENDS HubWorkflow, TLC

CONSTANTS fan, release, membership, music, core, q1, c1, c2

Wants(action, item, proof, bias) ==
  [wallet |-> fan, item |-> item, action |-> action, proof |-> proof, bias |-> bias]

(* An upgrade with and without proofs; purchases are posted directly.          *)
MCInput ==
  { Wants("membership_upgrade", membership, None, "none"),
    Wants("membership_upgrade", membership, q1, "none") }

(* For the two disagreements: one request, and one with suspicious telemetry.  *)
OneInput == {Wants("purchase", release, q1, "none")}
SuspiciousInput == {Wants("purchase", release, q1, "step_up")}

MCPosted == {[type |-> "purchase", item |-> release, decision |-> "allow"]}
MCTarget == (release :> music) @@ (membership :> core)

CallSymmetry == Permutations(Call)
=============================================================================
