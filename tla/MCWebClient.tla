----------------------------- MODULE MCWebClient -----------------------------
(* A small instance of WebClient for TLC. *)
EXTENDS WebClient

CONSTANTS j1, c1, c2, k1, k2, padded, photo, webp, heic

MCOwner == [k \in Keys |-> IF k = k1 THEN c1 ELSE c2]
MCTrim == [r \in RawKeys |-> CASE r = padded -> k1
                               [] r = EmptyField -> NoKey
                               [] OTHER -> r]
MCConvertible == {<<photo, webp>>}
=============================================================================
