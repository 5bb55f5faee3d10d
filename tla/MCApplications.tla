--------------------------- MODULE MCApplications ---------------------------
(* Applications for TLC: all IDs are interchangeable.                      *)
EXTENDS Applications, TLC

Symmetry == Permutations(App) \cup Permutations(Secret) \cup Permutations(Req)
=============================================================================
