--------------------------- MODULE MCOracleIssuance ---------------------------
(* A small instance of OracleIssuance for TLC. *)
EXTENDS OracleIssuance, TLC

CONSTANTS p1, p2, r1, r2, fan, i1, i2, h1, h2

Asked(bundle, hash) ==
  [verified |-> TRUE, valid |-> TRUE, encodable |-> TRUE,
   wallet |-> fan, hash |-> hash, bundle |-> bundle]

(* Bundles that share an identifier, two bundles under one hash, a request     *)
(* that cannot be encoded, one that fails its checks, and a guest's.           *)
MCInput ==
  { Asked(<<i1>>, h1), Asked(<<i1, i2>>, h2), Asked(<<i2>>, h1),
    [Asked(<<i2>>, h1) EXCEPT !.encodable = FALSE],
    [Asked(<<i1>>, h1) EXCEPT !.valid = FALSE],
    [Asked(<<>>, h1) EXCEPT !.verified = FALSE] }

(* Slots and processes are alike.                                              *)
Alike == Permutations(Request) \cup Permutations(Process)
=============================================================================
