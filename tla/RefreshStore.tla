---------------------------- MODULE RefreshStore ----------------------------
(***************************************************************************)
(* The Redis keys in which the IAM service keeps its refresh tokens        *)
(* (internal/data/authn.go) and the commands it sends to them:             *)
(*   rt       refresh_token:<t>, a string: the user the token belongs to,  *)
(*            or NoUser when the key does not exist                        *)
(*   idx      user_tokens:<u>, a set: the tokens of the user; a Redis set  *)
(*            without members is a key that does not exist                 *)
(*   armed    user_tokens:<u> carries a time to live                       *)
(*   covered  the tokens whose own key had been set when the time to live  *)
(*            of user_tokens:<u> was last renewed.  Both keys are given    *)
(*            the same duration, so those tokens expire before the set.    *)
(* One command is one atomic step: Redis runs commands one at a time, and  *)
(* nothing in the repository groups them in a transaction.                 *)
(***************************************************************************)
EXTENDS FiniteSets

CONSTANTS User, Token, NoUser

ASSUME NoUserAssumption == NoUser \notin User

VARIABLES rt, idx, armed, covered

store == <<rt, idx, armed, covered>>

StoreTypeOK ==
  /\ rt \in [Token -> User \cup {NoUser}]
  /\ idx \in [User -> SUBSET Token]
  /\ armed \in [User -> BOOLEAN]
  /\ covered \in [User -> SUBSET Token]

StoreInit ==
  /\ rt = [t \in Token |-> NoUser]
  /\ idx = [u \in User |-> {}]
  /\ armed = [u \in User |-> FALSE]
  /\ covered = [u \in User |-> {}]

Live(t) == rt[t] # NoUser

(* SET refresh_token:<t> <u> EX <refresh expiry> *)
SetKey(t, u) ==
  /\ rt' = [rt EXCEPT ![t] = u]
  /\ UNCHANGED <<idx, armed, covered>>

(* DEL refresh_token:<t>: no error when the key is already gone. *)
DelKey(t) ==
  /\ rt' = [rt EXCEPT ![t] = NoUser]
  /\ UNCHANGED <<idx, armed, covered>>

(* SADD user_tokens:<u> <t>: a set it has to create has no time to live. *)
AddToIndex(u, t) ==
  /\ idx' = [idx EXCEPT ![u] = @ \cup {t}]
  /\ UNCHANGED <<rt, armed, covered>>

(* EXPIRE user_tokens:<u> <refresh expiry>: no error when there is no set. *)
RenewIndex(u) ==
  /\ IF idx[u] = {}
       THEN UNCHANGED <<armed, covered>>
       ELSE /\ armed' = [armed EXCEPT ![u] = TRUE]
            /\ covered' = [covered EXCEPT ![u] = {t \in Token : rt[t] = u}]
  /\ UNCHANGED <<rt, idx>>

(* DEL user_tokens:<u> *)
DelIndex(u) ==
  /\ idx' = [idx EXCEPT ![u] = {}]
  /\ armed' = [armed EXCEPT ![u] = FALSE]
  /\ covered' = [covered EXCEPT ![u] = {}]
  /\ UNCHANGED rt

(* Redis drops a token key at the end of its time to live. *)
KeyExpires(t) == Live(t) /\ DelKey(t)

(* Redis drops an index: only one that carries a time to live, and not     *)
(* before the tokens that were set when it was last renewed.               *)
IndexExpires(u) ==
  /\ armed[u]
  /\ \A t \in covered[u] : ~Live(t)
  /\ DelIndex(u)
=============================================================================
