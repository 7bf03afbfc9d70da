------------------------------ MODULE MCOpenWorld ------------------------------
(* A small instance of OpenWorld for TLC. *)
EXTENDS OpenWorld, TLC

CONSTANTS c1, c2, text

Do(type, target, clue) == [type |-> type, target |-> target, clue |-> clue]

(* Enough to find, use and confirm, to show a clue to another witness, and to  *)
(* spoil it by a lie.                                                          *)
MCInput ==
  { Do("SEARCH", None, None), Do("USE_CLUE", "picha", 1),
    Do("INTERROGATE", "picha", None), Do("LIE", "picha", None),
    Do("USE_CLUE", "witness", 1) }

(* Proposals beyond the bounds and at them.                                    *)
Points(t, p, r, h) == [truth |-> t, purity |-> p, relation |-> r, humanity |-> h]
MCDelta == {Points(9, 9, 9, 9), Points(-3, -3, 1, 0)}

(* Of the scores this instance can reach or be proposed, those whose sum of    *)
(* doubles is less than its exact half: 51, 89, 72 and 45 add up to            *)
(* 63.49999999999999. Two points more on each give 65.5, and 66.               *)
MCUnder ==
  { Points(33, 91, 69, 47), Points(33, 91, 74, 47), Points(46, 80, 65, 47),
    Points(46, 100, 67, 45), Points(51, 89, 72, 45) }

(* Requests are interchangeable: the properties are invariants and actions.    *)
CallSymmetry == Permutations(Call)
=============================================================================
