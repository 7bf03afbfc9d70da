------------------------------ MODULE MCLabSession ------------------------------
(* A small instance of LabSession for TLC. *)
EXTENDS LabSession, TLC

CONSTANTS c1, c2

Story(at) == [scenario |-> "narrative", at |-> at]
Event(at) == [scenario |-> "pressure_sim", at |-> at]

(* Parts of good and of odd telemetry, which submissions add up.               *)
MCReport ==
  { Story([reading |-> 90, progress |-> 120]), Story([entropy |-> 30, latency |-> 600]),
    Story([reading |-> 44, blur |-> 6]),
    Event([click |-> 300, retry |-> 4]), Event([wait |-> -1, latency |-> 20, blur |-> 4]),
    Event([click |-> 1201, retry |-> 2]) }

CallSymmetry == Permutations(Call)
=============================================================================
