----------------------------- MODULE MCAccounts -----------------------------
(* Accounts for TLC: all identities are interchangeable.                   *)
EXTENDS Accounts, TLC

Symmetry ==
  UNION {Permutations(S) : S \in {Req, Id, Name, Email, Otp}}
=============================================================================
