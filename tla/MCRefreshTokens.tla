--------------------------- MODULE MCRefreshTokens ---------------------------
(***************************************************************************)
(* Instances of RefreshTokens for TLC: one user, a few tokens, and the     *)
(* endpoints a run is about.                                               *)
(***************************************************************************)
EXTENDS RefreshTokens, TLC

RequestSymmetry == Permutations(Requests)
=============================================================================
