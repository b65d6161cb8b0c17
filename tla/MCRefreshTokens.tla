--------------------------- MODULE MCRefreshTokens ---------------------------
(***************************************************************************)
(* Instances of RefreshTokens for TLC: calls are interchangeable.           *)
(***************************************************************************)
EXTENDS RefreshTokens, TLC

CallSymmetry == Permutations(Calls)
=============================================================================
