------------------------------ MODULE MCSystem ------------------------------
(* Small instances of System for TLC. *)
EXTENDS System, TLC

CONSTANTS j1, j2, n1, n2, s1, s2, ConvertRetries, WebhookRetries

MCMaxRetry == [k \in Kinds |-> IF k = "convert" THEN ConvertRetries ELSE WebhookRetries]

\* Slots of one kind and job are interchangeable, and so are sweepers.
Symmetry == Permutations(Slots) \cup Permutations(Sweepers)
=============================================================================
