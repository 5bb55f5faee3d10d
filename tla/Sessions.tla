------------------------------ MODULE Sessions ------------------------------
(***************************************************************************)
(* Refresh-token sessions of the IAM service: the usecases of              *)
(* internal/biz/authn.go and the purge of internal/biz/user.go that issue, *)
(* rotate and revoke refresh tokens, running concurrently over the Redis   *)
(* keys of RefreshStore and the user rows of the database.                 *)
(*                                                                         *)
(* A request of Proc is at one label of its handler; each label performs   *)
(* one Redis command or one database statement, the granularity at which   *)
(* requests of one or of several replicas interleave.  A command may fail  *)
(* (at most MaxFaults times) and a request may be abandoned (the process   *)
(* crashes, or its context is cancelled).                                  *)
(*                                                                         *)
(* Variables that are not in the program record what the properties speak  *)
(* of: minted, handed, origin, auth, lost, disturbed, revokeDue, faults.   *)
(***************************************************************************)
EXTENDS RefreshStore, Naturals

CONSTANTS
  Proc,        \* requests the service can have in flight
  NoToken,
  MaxPw,       \* bound: how often a password changes
  MaxFaults    \* bound: failed commands and abandoned requests

ASSUME SessionsAssumption ==
  /\ NoToken \notin Token
  /\ MaxPw \in Nat
  /\ MaxFaults \in Nat

VARIABLES
  row,         \* the user row: "unverified", "verified", or "purged"
  pw,          \* the password of the row, by version
  req,         \* the request each process is serving
  minted,      \* tokens drawn so far from the random source
  handed,      \* tokens some client received in a response
  origin,      \* the login token a token descends from
  auth,        \* the password version that login was checked against
  lost,        \* tokens dropped from the index while nobody revoked them
  disturbed,   \* users whose operations overlapped, or were torn
  revokeDue,   \* users whose sessions must be revoked, and are not yet
  faults

rows == <<row, pw>>
lineage == <<minted, origin, auth>>
vars == <<rt, idx, armed, covered, row, pw, req, minted, handed, origin, auth,
          lost, disturbed, revokeDue, faults>>

-----------------------------------------------------------------------------
(* Requests *)

Saving   == {"set", "sadd", "expire"}
Deleting == {"delget", "delkey", "members", "delidx", "readd"}
Revoking == {"rmembers", "rdel", "rdelidx"}
Label == {"idle", "hash", "getuser", "check", "update"}
           \cup Saving \cup Deleting \cup Revoking
Op == {"none", "login", "refresh", "logout", "revoke"}

Request ==
  [op: Op, pc: Label, usr: User \cup {NoUser}, par: Token \cup {NoToken},
   chd: Token \cup {NoToken},
   snap: SUBSET Token, todo: SUBSET Token]

NoRequest ==
  [op |-> "none", pc |-> "idle", usr |-> NoUser, par |-> NoToken,
   chd |-> NoToken, snap |-> {}, todo |-> {}]

At(p, l) == req[p].pc = l
Usr(p) == req[p].usr
Become(p, r) == req' = [req EXCEPT ![p] = r]
Return(p) == Become(p, NoRequest)

(* A request at another label; holding the token it has drawn; with what   *)
(* SMembers returned and the members it has still to handle.               *)
Move(r, l) == [r EXCEPT !.pc = l]
Hold(r, l, t) == [r EXCEPT !.pc = l, !.chd = t]
Scan(r, l, members, rest) ==
  [r EXCEPT !.pc = l, !.snap = members, !.todo = rest]
Arrive(o, l, u, t) ==
  [NoRequest EXCEPT !.op = o, !.pc = l, !.usr = u, !.par = t]

Goto(p, l) == Become(p, Move(req[p], l))

(* Two requests on one account conflict unless both only add a token.      *)
Conflict(p, o, u) ==
  \E q \in Proc \ {p} : Usr(q) = u /\ ~(o = "login" /\ req[q].op = "login")

Begin(p, o, l, u, t) ==
  /\ At(p, "idle")
  /\ Become(p, Arrive(o, l, u, t))
  /\ disturbed' = IF Conflict(p, o, u) THEN disturbed \cup {u} ELSE disturbed

(* A fresh refresh token: 32 random bytes, never drawn twice.              *)
Mint(p, t, v, root) ==
  /\ t \notin minted
  /\ minted' = minted \cup {t}
  /\ origin' = [origin EXCEPT ![t] = root]
  /\ auth' = [auth EXCEPT ![t] = v]

(* What a request that ends here leaves out of the index: the members it   *)
(* still had to write back, or the token it has set but not added.         *)
Torn(p) ==
  IF At(p, "readd")
    THEN {t \in req[p].todo \ idx[Usr(p)] : rt[t] = Usr(p)}
    ELSE {}

Dropped(p) == IF At(p, "sadd") THEN {req[p].chd} ELSE Torn(p)

(* Bounds: a request that will draw a token or change a password begins    *)
(* only while Token and MaxPw leave room for it.                           *)
TokenRoom ==
  Cardinality(minted)
    + Cardinality({q \in Proc : req[q].pc \in {"hash", "getuser"}})
  < Cardinality(Token)
PwRoom(u) ==
  pw[u] + Cardinality({q \in Proc :
            Usr(q) = u /\ req[q].pc \in {"check", "update"}}) < MaxPw

-----------------------------------------------------------------------------
(* LoginByEmailPassword.  A login of an account whose row is not verified  *)
(* when it is first read ends in an error and changes nothing.             *)

LoginUser(p, u) ==
  /\ TokenRoom
  /\ row[u] = "verified"
  /\ Begin(p, "login", "hash", u, NoToken)
  /\ UNCHANGED <<store, rows, lineage, handed, lost, revokeDue, faults>>

(* GetPasswordHash and BcryptCheck of the right password, on a second read *)
(* of the row; a wrong password and a row that is gone return an error.    *)
LoginHash(p) ==
  /\ At(p, "hash")
  /\ \/ /\ row[Usr(p)] # "purged"
        /\ \E t \in Token :
             /\ Mint(p, t, pw[Usr(p)], t)
             /\ Become(p, Hold(req[p], "set", t))
     \/ Return(p) /\ UNCHANGED lineage
  /\ UNCHANGED <<store, rows, handed, lost, disturbed, revokeDue, faults>>

-----------------------------------------------------------------------------
(* SaveRefreshToken: set the key, add it to the index, renew the index.    *)

(* Variant: a refresh keeps the token it was given. *)
SaveSet_SameToken(p) ==
  /\ At(p, "set")
  /\ SetKey(IF req[p].op = "refresh" THEN req[p].par ELSE req[p].chd, Usr(p))
  /\ Goto(p, "sadd")
  /\ UNCHANGED <<rows, lineage, handed, lost, disturbed, revokeDue, faults>>

SaveSet(p) ==
  /\ At(p, "set")
  /\ SetKey(req[p].chd, Usr(p))
  /\ Goto(p, "sadd")
  /\ UNCHANGED <<rows, lineage, handed, lost, disturbed, revokeDue, faults>>

SaveIndex(p) ==
  /\ At(p, "sadd")
  /\ AddToIndex(Usr(p), req[p].chd)
  /\ Goto(p, "expire")
  /\ UNCHANGED <<rows, lineage, handed, lost, disturbed, revokeDue, faults>>

(* Variant: only a set without a time to live is given one. *)
SaveExpire_Once(p) ==
  /\ At(p, "expire")
  /\ IF armed[Usr(p)] THEN UNCHANGED store ELSE RenewIndex(Usr(p))
  /\ handed' = handed \cup {req[p].chd}
  /\ Return(p)
  /\ UNCHANGED <<rows, lineage, lost, disturbed, revokeDue, faults>>

(* ... and the response hands the token to the client. *)
SaveExpire(p) ==
  /\ At(p, "expire")
  /\ RenewIndex(Usr(p))
  /\ handed' = handed \cup {req[p].chd}
  /\ Return(p)
  /\ UNCHANGED <<rows, lineage, lost, disturbed, revokeDue, faults>>

-----------------------------------------------------------------------------
(* RefreshToken: look the token up, look the user up, draw the new token,  *)
(* then DeleteRefreshToken of the old and SaveRefreshToken of the new one. *)

RefreshGet(p, t) ==
  /\ TokenRoom
  /\ t \in handed
  /\ Live(t)
  /\ Begin(p, "refresh", "getuser", rt[t], t)
  /\ UNCHANGED <<store, rows, lineage, handed, lost, revokeDue, faults>>

(* Variant: the old token is not deleted. *)
RefreshUser_NoDelete(p) ==
  /\ At(p, "getuser")
  /\ \E t \in Token :
       /\ Mint(p, t, auth[req[p].par], origin[req[p].par])
       /\ Become(p, Hold(req[p], "set", t))
  /\ UNCHANGED <<store, rows, handed, lost, disturbed, revokeDue, faults>>

RefreshUser(p) ==
  /\ At(p, "getuser")
  /\ \/ /\ row[Usr(p)] # "purged"
        /\ \E t \in Token :
             /\ Mint(p, t, auth[req[p].par], origin[req[p].par])
             /\ Become(p, Hold(req[p], "delget", t))
     \/ /\ row[Usr(p)] = "purged"
        /\ Return(p)
        /\ UNCHANGED lineage
  /\ UNCHANGED <<store, rows, handed, lost, disturbed, revokeDue, faults>>

(* Logout: DeleteRefreshToken of the token the client presents.            *)
LogoutGet(p, t) ==
  /\ t \in handed
  /\ Live(t)
  /\ Begin(p, "logout", "delkey", rt[t], t)
  /\ UNCHANGED <<store, rows, lineage, handed, lost, revokeDue, faults>>

-----------------------------------------------------------------------------
(* DeleteRefreshToken: whatever it returns, a refresh goes on to save the  *)
(* new token and a logout answers the client.                              *)

(* Variant: a logout falls through to the saving of a token. *)
AfterDelete_NoReturn(p) ==
  Become(p, Scan(req[p], "set", {}, {}))

AfterDelete(p) ==
  IF req[p].op = "refresh"
    THEN Become(p, Scan(req[p], "set", {}, {}))
    ELSE Return(p)

DeleteGet(p) ==
  /\ At(p, "delget")
  /\ IF Live(req[p].par) THEN Goto(p, "delkey") ELSE AfterDelete(p)
  /\ UNCHANGED <<store, rows, lineage, handed, lost, disturbed, revokeDue,
                 faults>>

DeleteKey(p) ==
  /\ At(p, "delkey")
  /\ DelKey(req[p].par)
  /\ Goto(p, "members")
  /\ UNCHANGED <<rows, lineage, handed, lost, disturbed, revokeDue, faults>>

DeleteMembers(p) ==
  /\ At(p, "members")
  /\ Become(p, Scan(req[p], "delidx", idx[Usr(p)], {}))
  /\ UNCHANGED <<store, rows, lineage, handed, lost, disturbed, revokeDue,
                 faults>>

(* Variants: the members are not written back; their keys are deleted too. *)
DeleteIndex_NoReAdd(p) ==
  /\ At(p, "delidx")
  /\ DelIndex(Usr(p))
  /\ AfterDelete(p)
  /\ UNCHANGED <<rows, lineage, handed, lost, disturbed, revokeDue, faults>>

DeleteIndex_Forget(p) ==
  /\ At(p, "delidx")
  /\ DelIndex(Usr(p))
  /\ lost' = lost \cup {t \in idx[Usr(p)] : rt[t] = Usr(p)}
  /\ AfterDelete(p)
  /\ UNCHANGED <<rows, lineage, handed, disturbed, revokeDue, faults>>

DeleteIndex_AllKeys(p) ==
  /\ At(p, "delidx")
  /\ idx' = [idx EXCEPT ![Usr(p)] = {}]
  /\ rt' = [t \in Token |-> IF t \in req[p].snap THEN NoUser ELSE rt[t]]
  /\ AfterDelete(p)
  /\ UNCHANGED <<armed, covered, rows, lineage, handed, lost, disturbed,
                 revokeDue, faults>>

(* Del of the whole index: live members added since SMembers are dropped.  *)
DeleteIndex(p) ==
  LET u == Usr(p)
      rest == req[p].snap \ {req[p].par}
  IN  /\ At(p, "delidx")
      /\ DelIndex(u)
      /\ lost' = lost \cup {t \in idx[u] \ rest : rt[t] = u}
      /\ IF rest = {}
           THEN AfterDelete(p)
           ELSE Become(p, Scan(req[p], "readd", {}, rest))
      /\ UNCHANGED <<rows, lineage, handed, disturbed, revokeDue, faults>>

(* SAdd of the other members, one command each, in any order.              *)
DeleteReAdd(p) ==
  /\ At(p, "readd")
  /\ \E t \in req[p].todo :
       /\ AddToIndex(Usr(p), t)
       /\ IF req[p].todo = {t}
            THEN AfterDelete(p)
            ELSE Become(p, Scan(req[p], "readd", {}, req[p].todo \ {t}))
  /\ UNCHANGED <<rows, lineage, handed, lost, disturbed, revokeDue, faults>>

-----------------------------------------------------------------------------
(* DeleteUserRefreshTokens, and the operations that end in it.             *)

(* LogoutAllDevices *)
LogoutAll(p, u) ==
  /\ Begin(p, "revoke", "rmembers", u, NoToken)
  /\ UNCHANGED <<store, rows, lineage, handed, lost, revokeDue, faults>>

(* ChangePassword reads the hash first; ResetPassword starts at the update *)
(* with the user of the mailed token it has consumed.                      *)
ChangePassword(p, u) ==
  /\ PwRoom(u)
  /\ Begin(p, "revoke", "check", u, NoToken)
  /\ UNCHANGED <<store, rows, lineage, handed, lost, revokeDue, faults>>

ResetPassword(p, u) ==
  /\ PwRoom(u)
  /\ Begin(p, "revoke", "update", u, NoToken)
  /\ UNCHANGED <<store, rows, lineage, handed, lost, revokeDue, faults>>

(* A wrong current password, or no row, ends the request.                  *)
ChangeCheck(p) ==
  /\ At(p, "check")
  /\ \/ row[Usr(p)] # "purged" /\ Goto(p, "update")
     \/ Return(p)
  /\ UNCHANGED <<store, rows, lineage, handed, lost, disturbed, revokeDue,
                 faults>>

(* Variant: the sessions are not revoked. *)
UpdatePassword_NoRevoke(p) ==
  /\ At(p, "update")
  /\ pw' = [pw EXCEPT ![Usr(p)] = @ + 1]
  /\ revokeDue' = revokeDue \cup {Usr(p)}
  /\ Return(p)
  /\ UNCHANGED <<store, row, lineage, handed, lost, disturbed, faults>>

UpdatePassword(p) ==
  LET u == Usr(p) IN
  /\ At(p, "update")
  /\ IF row[u] = "purged"
       THEN Return(p) /\ UNCHANGED <<pw, revokeDue>>
       ELSE /\ pw' = [pw EXCEPT ![u] = @ + 1]
            /\ revokeDue' = revokeDue \cup {u}
            /\ Goto(p, "rmembers")
  /\ UNCHANGED <<store, row, lineage, handed, lost, disturbed, faults>>

(* PurgeUser: PurgeCascade removes the row, then the tokens are revoked.   *)
Purge(p, u) ==
  /\ row[u] # "purged"
  /\ Begin(p, "revoke", "rmembers", u, NoToken)
  /\ row' = [row EXCEPT ![u] = "purged"]
  /\ revokeDue' = revokeDue \cup {u}
  /\ UNCHANGED <<store, pw, lineage, handed, lost, faults>>

RevokeMembers(p) ==
  /\ At(p, "rmembers")
  /\ Become(p, Scan(req[p], IF idx[Usr(p)] = {} THEN "rdelidx" ELSE "rdel",
                    idx[Usr(p)], idx[Usr(p)]))
  /\ UNCHANGED <<store, rows, lineage, handed, lost, disturbed, revokeDue,
                 faults>>

(* Variant: the loop stops after the first token. *)
RevokeKey_FirstOnly(p) ==
  /\ At(p, "rdel")
  /\ \E t \in req[p].todo :
       /\ DelKey(t)
       /\ Become(p, Scan(req[p], "rdelidx", req[p].snap, req[p].todo \ {t}))
  /\ UNCHANGED <<rows, lineage, handed, lost, disturbed, revokeDue, faults>>

(* Variant: the members are read again before each deletion. *)
RevokeKey_Rescan(p) ==
  /\ At(p, "rdel")
  /\ \E t \in req[p].todo : DelKey(t) /\ Goto(p, "rmembers")
  /\ UNCHANGED <<rows, lineage, handed, lost, disturbed, revokeDue, faults>>

RevokeKey(p) ==
  /\ At(p, "rdel")
  /\ \E t \in req[p].todo :
       /\ DelKey(t)
       /\ Become(p, Scan(req[p], IF req[p].todo = {t} THEN "rdelidx" ELSE "rdel",
                       req[p].snap, req[p].todo \ {t}))
  /\ UNCHANGED <<rows, lineage, handed, lost, disturbed, revokeDue, faults>>

RevokeIndex(p) ==
  LET u == Usr(p) IN
  /\ At(p, "rdelidx")
  /\ DelIndex(u)
  /\ lost' = lost \cup {t \in idx[u] : rt[t] = u}
  /\ revokeDue' = revokeDue \ {u}
  /\ Return(p)
  /\ UNCHANGED <<rows, lineage, handed, disturbed, faults>>

-----------------------------------------------------------------------------
(* The environment *)

(* VerifyEmail of the mailed link *)
VerifyEmail(u) ==
  /\ row[u] = "unverified"
  /\ row' = [row EXCEPT ![u] = "verified"]
  /\ UNCHANGED <<store, pw, req, lineage, handed, lost, disturbed, revokeDue,
                 faults>>

TokenExpires(t) ==
  /\ KeyExpires(t)
  /\ UNCHANGED <<rows, req, lineage, handed, lost, disturbed, revokeDue,
                 faults>>

(* A set can expire between the SAdd and the Expire of a new token.        *)
UserIndexExpires(u) ==
  /\ IndexExpires(u)
  /\ lost' = lost \cup {t \in idx[u] : rt[t] = u}
  /\ disturbed' =
       IF \A t \in idx[u] : rt[t] # u THEN disturbed ELSE disturbed \cup {u}
  /\ UNCHANGED <<rows, req, lineage, handed, revokeDue, faults>>

(* A request ends on an error.  A command that took effect and reported an *)
(* error all the same is this step after the successful one.               *)
Fail(p) ==
  /\ ~At(p, "idle")
  /\ faults < MaxFaults
  /\ faults' = faults + 1
  /\ lost' = lost \cup Dropped(p)
  /\ disturbed' = IF Torn(p) = {} THEN disturbed ELSE disturbed \cup {Usr(p)}
  /\ UNCHANGED <<store, rows, lineage, handed, revokeDue>>

(* The command at the request's label fails: an error of DeleteRefreshToken *)
(* is only logged, any other error ends the request.                       *)
Fault(p) ==
  /\ Fail(p)
  /\ IF req[p].pc \in Deleting THEN AfterDelete(p) ELSE Return(p)

(* The replica stops, or the caller goes away, between two commands.       *)
Abandon(p) == Fail(p) /\ Return(p)

-----------------------------------------------------------------------------
Init ==
  /\ StoreInit
  /\ row = [u \in User |-> "unverified"]
  /\ pw = [u \in User |-> 0]
  /\ req = [p \in Proc |-> NoRequest]
  /\ minted = {} /\ handed = {} /\ lost = {}
  /\ origin = [t \in Token |-> NoToken]
  /\ auth = [t \in Token |-> 0]
  /\ disturbed = {} /\ revokeDue = {}
  /\ faults = 0

(* What a handler does on its own once it has begun. *)
Step(p) ==
  \/ LoginHash(p) \/ SaveSet(p) \/ SaveIndex(p) \/ SaveExpire(p)
  \/ RefreshUser(p) \/ DeleteGet(p) \/ DeleteKey(p) \/ DeleteMembers(p)
  \/ DeleteIndex(p) \/ DeleteReAdd(p)
  \/ ChangeCheck(p) \/ UpdatePassword(p)
  \/ RevokeMembers(p) \/ RevokeKey(p) \/ RevokeIndex(p)

Arrival(p) ==
  \/ \E u \in User : \/ LoginUser(p, u) \/ LogoutAll(p, u)
                     \/ ChangePassword(p, u) \/ ResetPassword(p, u)
                     \/ Purge(p, u)
  \/ \E t \in Token : RefreshGet(p, t) \/ LogoutGet(p, t)

Next ==
  \/ \E p \in Proc : Step(p) \/ Arrival(p) \/ Fault(p) \/ Abandon(p)
  \/ \E u \in User : VerifyEmail(u) \/ UserIndexExpires(u)
  \/ \E t \in Token : TokenExpires(t)

Spec == Init /\ [][Next]_vars

(* A handler that has begun runs on: the Go scheduler is fair to it, and   *)
(* every call it makes returns or fails.                                   *)
FairSpec == Spec /\ \A p \in Proc : WF_vars(Step(p))

-----------------------------------------------------------------------------
(* Properties *)

TypeOK ==
  /\ StoreTypeOK
  /\ row \in [User -> {"unverified", "verified", "purged"}]
  /\ pw \in [User -> Nat]
  /\ req \in [Proc -> Request]
  /\ minted \in SUBSET Token
  /\ handed \in SUBSET minted
  /\ origin \in [Token -> Token \cup {NoToken}]
  /\ auth \in [Token -> Nat]
  /\ lost \in SUBSET Token
  /\ disturbed \in SUBSET User
  /\ revokeDue \in SUBSET User
  /\ faults \in Nat

(* A live token is in the index of its user, unless the request that saves *)
(* it has not added it yet, a DeleteRefreshToken still holds it among the  *)
(* members to write back, or it was dropped by one of the steps that       *)
(* record it in lost: no other interleaving of SaveRefreshToken,           *)
(* DeleteRefreshToken and DeleteUserRefreshTokens loses a token.           *)
IndexComplete ==
  \A t \in Token, u \in User :
    rt[t] = u =>
      \/ t \in idx[u] \cup lost
      \/ \E p \in Proc : At(p, "sadd") /\ req[p].chd = t
      \/ \E p \in Proc : At(p, "readd") /\ Usr(p) = u /\ t \in req[p].todo

(* A token a client holds is dropped from the index only if operations on  *)
(* its account overlapped, one of them not a login, or one was broken off  *)
(* while it wrote the index back.                                          *)
LossNeedsOverlap ==
  \A t \in lost \cap handed : Live(t) => rt[t] \in disturbed

(* The index never expires under a token a client holds: when it carries a *)
(* time to live, that was renewed after the token was set.                 *)
IndexOutlivesTokens ==
  \A t \in handed : Live(t) /\ armed[rt[t]] => t \in covered[rt[t]]

(* DeleteUserRefreshTokens has really deleted every token it found in the  *)
(* index once it is past it, whatever runs beside it: none comes back.     *)
SnapshotRevoked ==
  \A p \in Proc : req[p].pc \in {"rdel", "rdelidx"} =>
    \A t \in req[p].snap \ req[p].todo : ~Live(t)

(* On an account without overlapping operations, the tokens clients hold   *)
(* are all dead when a logout from all devices, a password change or a     *)
(* purge has gone through the index.                                       *)
RevokeComplete ==
  \A p \in Proc : At(p, "rdelidx") /\ Usr(p) \notin disturbed =>
    \A t \in handed : rt[t] # Usr(p)

(* On such an account a client's token always rests on a login with the    *)
(* present password of a row that still exists, unless the revocation that *)
(* a password change or a purge owes is still to be done or has failed.    *)
AuthCurrent ==
  \A t \in handed : Live(t) /\ rt[t] \notin disturbed \cup revokeDue =>
    auth[t] = pw[rt[t]] /\ row[rt[t]] # "purged"

(* Refresh rotates: without a failed command and without overlapping       *)
(* operations, of the tokens descending from one login only one is live.   *)
OnePerLogin ==
  \A t1, t2 \in handed :
    /\ faults = 0
    /\ Live(t1) /\ Live(t2) /\ origin[t1] = origin[t2]
    /\ rt[t1] \notin disturbed
    => t1 = t2

(* A step deletes a token only by its expiry, by the logout or refresh     *)
(* that presents it, or by revoking the tokens of the user it belongs to.  *)
OnlyOwnTokensDie ==
  [][\A t \in Token : Live(t) /\ ~Live(t)' =>
       \/ req' = req
       \/ \E p \in Proc : At(p, "delkey") /\ req[p].par = t
       \/ \E p \in Proc : At(p, "rdel") /\ Usr(p) = rt[t]]_vars

(* Drawn, and no request is still about to set it. *)
Unset == {"set"} \cup Deleting
Pending(t) == \E p \in Proc : req[p].pc \in Unset /\ req[p].chd = t
Settled == {t \in minted : ~Pending(t)}

(* The store keeps the promise of TokenLife: a token has ended once it is  *)
(* settled and not live, and nothing brings it back.                       *)
Ended == {t \in Settled : ~Live(t)}
Life == INSTANCE TokenLife WITH owner <- rt, ended <- Ended
LivesOnce == Life!Spec

(* The inductive invariant on which all proofs rest: the locals of a       *)
(* handler at each of its labels, that no two requests hold the same fresh *)
(* token, and that only settled tokens have keys.                          *)
Local(p) ==
  /\ Usr(p) = NoUser => req[p] = NoRequest
  /\ At(p, "idle") => Usr(p) = NoUser
  /\ req[p].pc \in {"hash", "getuser"} => req[p].chd = NoToken
  /\ req[p].pc \in Saving => req[p].chd # NoToken
  /\ req[p].op = "refresh" /\ req[p].pc \in Deleting => req[p].chd # NoToken
  /\ req[p].pc \in Deleting \cup {"getuser"} =>
       req[p].par \in handed /\ req[p].op \in {"refresh", "logout"}
  /\ req[p].chd # NoToken => req[p].chd \in minted \ handed
  /\ req[p].pc \in Unset /\ req[p].chd # NoToken => ~Live(req[p].chd)
  /\ req[p].pc \in {"sadd", "expire"} => rt[req[p].chd] \in {Usr(p), NoUser}
  /\ req[p].snap \cup req[p].todo \subseteq Settled

LocalsOK == \A p \in Proc : Local(p)

Distinct ==
  \A p, q \in Proc : p # q /\ req[p].chd = req[q].chd => req[p].chd = NoToken

KeysOK ==
  /\ \A t \in Token : Live(t) => t \in Settled
  /\ handed \subseteq Settled
  /\ \A u \in User : idx[u] \subseteq Settled
  /\ \A u \in User : armed[u] => idx[u] # {}

IInv == TypeOK /\ LocalsOK /\ Distinct /\ KeysOK

(* The companions of IInv, which carry the properties it does not imply.   *)
(* The tokens of an index, and those read from it, are its user's.         *)
OwnIndex ==
  /\ \A u \in User : \A t \in idx[u] : rt[t] \in {u, NoUser}
  /\ \A p \in Proc : \A t \in req[p].snap \cup req[p].todo :
       rt[t] \in {Usr(p), NoUser}

(* Only logins overlap on an account that is not disturbed.                *)
Alone ==
  /\ \A p, q \in Proc :
       p # q /\ Usr(p) = Usr(q) /\ Usr(p) \in User \ disturbed =>
         req[p].op = "login"
  /\ \A p \in Proc : req[p].op = "login" => req[p].pc \in {"hash"} \cup Saving

(* ... so that what was read from its index is still all there is.         *)
StillWhole ==
  \A p \in Proc :
    /\ req[p].pc \in {"members", "delidx", "readd"} => ~Live(req[p].par)
    /\ At(p, "rdelidx") => req[p].todo = {}
    /\ req[p].pc \in {"delidx", "rdel", "rdelidx"} /\ Usr(p) \notin disturbed =>
         idx[Usr(p)] \subseteq req[p].snap

(* Elsewhere only a token that never reached a client is dropped.          *)
LossKnown ==
  /\ lost \subseteq Settled
  /\ \A t \in lost : Live(t) /\ rt[t] \notin disturbed =>
       t \notin handed /\ \A p \in Proc : req[p].chd # t

(* What a login or a refresh is about to hand out is current, too.         *)
AuthHeld ==
  \A p \in Proc : Usr(p) \in User \ (disturbed \cup revokeDue) =>
    /\ req[p].chd # NoToken =>
         auth[req[p].chd] = pw[Usr(p)] /\ row[Usr(p)] # "purged"
    /\ At(p, "getuser") => auth[req[p].par] = pw[Usr(p)]

(* All tokens that descend from one login are of one user.                 *)
Belongs(t, u) ==
  rt[t] = u \/ \E p \in Proc : Usr(p) = u /\ t \in {req[p].par, req[p].chd}

Families ==
  /\ \A t \in minted : origin[t] \in minted
  /\ \A t1, t2 \in minted : origin[t1] = origin[t2] =>
       \A u1, u2 \in User : Belongs(t1, u1) /\ Belongs(t2, u2) => u1 = u2
  /\ \A p \in Proc :
       /\ At(p, "hash") => req[p].op = "login"
       /\ At(p, "getuser") => req[p].op = "refresh"
       /\ req[p].par # NoToken => req[p].par \in minted
       /\ req[p].chd # NoToken =>
            \/ req[p].op = "login" /\ origin[req[p].chd] = req[p].chd
            \/ req[p].op = "refresh" /\ req[p].par # NoToken
               /\ origin[req[p].chd] = origin[req[p].par]

(* A request that presents a token has the only one of its family, and one *)
(* that is about to hand out a token has deleted it.                       *)
OneInHand ==
  \A p \in Proc : faults = 0 /\ Usr(p) \notin disturbed =>
    \A t \in handed : Live(t) =>
      /\ req[p].pc \in {"getuser", "delget", "delkey"} =>
           t = req[p].par \/ origin[t] # origin[req[p].par]
      /\ req[p].chd # NoToken /\ req[p].pc \notin {"delget", "delkey"} =>
           origin[t] # origin[req[p].chd]

(* Every request returns. *)
RequestsEnd == \A p \in Proc : []<>At(p, "idle")

(* Without failures the revocation a password change or a purge owes is    *)
(* carried out.                                                            *)
RevocationHappens == \A u \in User : []<>(u \notin revokeDue \/ faults > 0)
=============================================================================
