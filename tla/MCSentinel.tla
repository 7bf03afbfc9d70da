------------------------------- MODULE MCSentinel -------------------------------
(* A small instance of Sentinel for TLC. *)
EXTENDS Sentinel

CONSTANTS s1, s2
=============================================================================
