------------------------------ MODULE MCRateLimit ------------------------------
(* A small instance of RateLimit for TLC. *)
EXTENDS RateLimit, TLC

CONSTANTS strict, lax, address, fan, c1, c2

(* The address may ask twice in a window, the wallet once.                     *)
MCLimit == (address :> 2) @@ (fan :> 1)

CallSymmetry == Permutations(Call)
=============================================================================
