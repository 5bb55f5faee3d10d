---------------------------- MODULE MCOidcFlow ----------------------------
(* OidcFlow for TLC: all IDs are interchangeable.                          *)
EXTENDS OidcFlow, TLC

Symmetry ==
  Permutations(Req) \cup Permutations(AuthReq) \cup Permutations(Code)
    \cup Permutations(Grant) \cup Permutations(User)
=============================================================================
