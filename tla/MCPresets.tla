------------------------------ MODULE MCPresets ------------------------------
(* A small instance of Presets for TLC. *)
EXTENDS Presets

CONSTANTS c1, a1, a2, r1

MCCallerOf == [r \in Requests |-> c1]
=============================================================================
