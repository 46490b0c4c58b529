--------------------------- MODULE MCTokenManager ---------------------------
(* Instances of TokenManager for TLC. *)
EXTENDS TokenManager

CONSTANTS c1, c2
=============================================================================
