------------------------------ MODULE TokenLife ------------------------------
(***************************************************************************)
(* What the refresh-token store promises of a single token, whatever runs  *)
(* concurrently: a token is issued at most once, to one user it keeps, and *)
(* a token that has ended (rotated, revoked, expired, or never handed over *)
(* to the store) is not accepted again.                                    *)
(***************************************************************************)
CONSTANTS User, Token, NoUser

VARIABLES
  owner,   \* the user a token is accepted for, or NoUser
  ended    \* the tokens that will never be accepted again

Init == owner = [t \in Token |-> NoUser] /\ ended = {}

Issue(t, u) ==
  /\ owner[t] = NoUser /\ t \notin ended
  /\ owner' = [owner EXCEPT ![t] = u]
  /\ UNCHANGED ended

End(t) ==
  /\ owner' = [owner EXCEPT ![t] = NoUser]
  /\ ended' = ended \cup {t}

Next == \E t \in Token : End(t) \/ \E u \in User : Issue(t, u)

Spec == Init /\ [][Next]_<<owner, ended>>
=============================================================================
