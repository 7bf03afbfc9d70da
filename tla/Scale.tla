--------------------------------- MODULE Scale ---------------------------------
(***************************************************************************)
(* What both games of services/hide-sis-engine reckon with.                *)
(***************************************************************************)
EXTENDS Integers

CONSTANT None

Clamp(x, low, high) == IF x < low THEN low ELSE IF x > high THEN high ELSE x

(* Math.round(a / b) for b > 0 and a >= 0.                                 *)
Rounded(a, b) == (2 * a + b) \div (2 * b)
================================================================================
