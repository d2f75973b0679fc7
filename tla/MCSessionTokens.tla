--------------------------- MODULE MCSessionTokens ---------------------------
(* One user, two requests at a time. *)
EXTENDS SessionTokens, TLC

CONSTANTS r1, r2, c1, c2

MCRequests == {r1, r2}
MCCodes == {c1, c2}
Symmetry == Permutations(MCRequests) \union Permutations(MCCodes)
=============================================================================
