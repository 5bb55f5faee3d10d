------------------------------ MODULE OidcFlow ------------------------------
(***************************************************************************)
(* The OpenID Connect provider's storage (internal/data/oidc_storage.go)   *)
(* and the completion of a login (internal/oidc/login.go).  An             *)
(* authorization request is stored, completed by a user who has logged in, *)
(* given a code at the callback, and exchanged for tokens; a refresh token *)
(* is replaced by a new one.  Everything is a key in Redis, read and       *)
(* written one command at a time by concurrent requests; a command may     *)
(* fail and a request may be broken off.                                   *)
(*                                                                         *)
(* The order in which the storage is called is that of the zitadel/oidc    *)
(* library, which is external: it asks Done before it saves a code, checks *)
(* the client of a code or a refresh token, and deletes the authorization  *)
(* request before it answers.  There is one client: a record carries its   *)
(* ID or no ID.  A grant stands for the access token and the refresh token *)
(* of one answer.  The client may ask for tokens of its own (whether it is *)
(* admitted is in module Applications).                                    *)
(*                                                                         *)
(* loggedIn, source, answered and overlapped record what the properties    *)
(* speak of.                                                               *)
(***************************************************************************)
EXTENDS Naturals, FiniteSets

CONSTANTS
  Req,                      \* handlers in flight
  AuthReq, Code, Grant,     \* IDs of authorization requests, codes, grants
  User, Client,
  Nobody,                   \* no user yet
  None,                     \* no such key, no such reference
  MaxFaults                 \* bound: failures and keys that expire

ASSUME OidcAssumption ==
  /\ MaxFaults \in Nat
  /\ None \notin AuthReq \cup Code \cup Grant \cup User \cup {Nobody, Client}
  /\ Nobody \notin User /\ Client \notin User \cup {Nobody}
  /\ AuthReq \cap Grant = {}

VARIABLES
  request,     \* oidc:auth_request:<a>: its user; Nobody until it is done
  code,        \* oidc:auth_code:<c>: the authorization request
  access,      \* oidc:access_token:<g>: the user, or the client
  refresh,     \* oidc:refresh_token:<g>: the user, and whether with the client
  task,        \* the handler's locals
  drawn,       \* IDs drawn so far
  loggedIn,    \* per authorization request, the users who completed it
  source,      \* what a grant was issued for: a request, or another grant
  answered,    \* grants whose tokens a client received
  lapsed,      \* grants whose access token is past its own expiry
  overlapped,  \* sources used by another handler while one consumed them
  faults

keys == <<request, code, access, refresh>>
record == <<loggedIn, source, answered, overlapped>>
vars == <<keys, task, drawn, lapsed, record, faults>>

Subject == User \cup {Client, Nobody}
RefreshMeta == [user : Subject, client : BOOLEAN]
Label == {"idle", "complete", "code", "byid", "access", "rotate", "refresh",
          "delete", "answer"}
NoTask == [pc |-> "idle", from |-> None, user |-> Nobody, grant |-> None]

At(q, l) == task[q].pc = l
Goto(q, l) == task' = [task EXCEPT ![q].pc = l]
Start(q, l, x, u) ==
  /\ At(q, "idle")
  /\ task' = [task EXCEPT ![q] =
                [NoTask EXCEPT !.pc = l, !.from = x, !.user = u]]
Finish(q) == task' = [task EXCEPT ![q] = NoTask]

(* Another handler holds a copy of what q is consuming.                    *)
Holding == {"complete", "access", "rotate", "refresh", "delete"}
Shared(q, x) ==
  \E r \in Req \ {q} : task[r].from = x /\ task[r].pc \in Holding

-----------------------------------------------------------------------------
(* CreateAuthRequest: the ID is new, the user is set by the completion.    *)
Authorize(a) ==
  /\ a \notin drawn
  /\ drawn' = drawn \cup {a}
  /\ request' = [request EXCEPT ![a] = Nobody]
  /\ UNCHANGED <<code, access, refresh, task, record, lapsed, faults>>

(* completeOIDCRequest: Get, and Set of the record with user and done,     *)
(* whatever has happened to the key in between.                            *)
CompleteRead(q, a, u) ==
  /\ request[a] # None
  /\ Start(q, "complete", a, u)
  /\ UNCHANGED <<keys, drawn, record, lapsed, faults>>

CompleteSet(q) ==
  LET a == task[q].from IN
  /\ At(q, "complete")
  /\ request' = [request EXCEPT ![a] = task[q].user]
  /\ loggedIn' = [loggedIn EXCEPT ![a] = @ \cup {task[q].user}]
  /\ Finish(q)
  /\ UNCHANGED <<code, access, refresh, drawn, source, answered, overlapped,
                 lapsed, faults>>

(* Variant: Done answers true for every request.                           *)
Callback_NotDone(q, a) ==
  /\ request[a] # None
  /\ Start(q, "code", a, Nobody)
  /\ UNCHANGED <<keys, drawn, record, lapsed, faults>>

(* The callback: AuthRequestByID, Done, SaveAuthCode.                      *)
Callback(q, a) ==
  /\ request[a] \in User
  /\ Start(q, "code", a, Nobody)
  /\ UNCHANGED <<keys, drawn, record, lapsed, faults>>

SaveAuthCode(q, c) ==
  /\ At(q, "code")
  /\ c \notin drawn
  /\ drawn' = drawn \cup {c}
  /\ code' = [code EXCEPT ![c] = task[q].from]
  /\ Finish(q)
  /\ UNCHANGED <<request, access, refresh, record, lapsed, faults>>

(* The exchange: AuthRequestByCode is two look-ups, and the code stays.    *)
ByCode(q, c) ==
  /\ code[c] # None
  /\ Start(q, "byid", code[c], Nobody)
  /\ UNCHANGED <<keys, drawn, record, lapsed, faults>>

ByID(q) ==
  LET a == task[q].from IN
  /\ At(q, "byid")
  /\ IF request[a] = None
       THEN Finish(q)
       ELSE task' = [task EXCEPT ![q].pc = "access", ![q].user = request[a]]
  /\ UNCHANGED <<keys, drawn, record, lapsed, faults>>

(* TokenRequestByRefreshToken; the library refuses a record without the    *)
(* client's ID.                                                            *)
ByRefreshToken(q, g) ==
  /\ refresh[g] # None /\ refresh[g].client
  /\ Start(q, "access", g, refresh[g].user)
  /\ UNCHANGED <<keys, drawn, record, lapsed, faults>>

(* The client is its own subject, and gets no refresh token.               *)
ClientCredentialsTokenRequest(q) ==
  /\ Start(q, "access", None, Client)
  /\ UNCHANGED <<keys, drawn, record, lapsed, faults>>

-----------------------------------------------------------------------------
(* CreateAccessToken, then CreateAccessAndRefreshTokens if the client gets *)
(* a refresh token, which a refresh always does.                           *)
SetAccessToken(q, g) ==
  LET x == task[q].from IN
  /\ At(q, "access")
  /\ g \notin drawn
  /\ drawn' = drawn \cup {g}
  /\ source' = [source EXCEPT ![g] = x]
  /\ access' = [access EXCEPT ![g] = task[q].user]
  /\ \E l \in IF x = None THEN {"answer"}
             ELSE IF x \in Grant THEN {"rotate"} ELSE {"refresh", "delete"} :
       task' = [task EXCEPT ![q].pc = l, ![q].grant = g]
  /\ UNCHANGED <<request, code, refresh, loggedIn, answered, overlapped,
                 lapsed, faults>>

(* Variant: the refresh token in use is kept.                              *)
DeleteOld_Keep(q) ==
  /\ At(q, "rotate")
  /\ Goto(q, "refresh")
  /\ UNCHANGED <<keys, drawn, record, lapsed, faults>>

(* Del of the refresh token in use; its error is ignored.                  *)
DeleteOld(q) ==
  LET g == task[q].from IN
  /\ At(q, "rotate")
  /\ \/ /\ refresh' = [refresh EXCEPT ![g] = None]
        /\ overlapped' = IF Shared(q, g) THEN overlapped \cup {g}
                         ELSE overlapped
        /\ UNCHANGED faults
     \/ /\ faults < MaxFaults
        /\ faults' = faults + 1
        /\ overlapped' = overlapped \cup {g}
        /\ UNCHANGED refresh
  /\ Goto(q, "refresh")
  /\ UNCHANGED <<request, code, access, drawn, loggedIn, source, answered,
                 lapsed>>

(* The new record has the client's ID only if the request is an            *)
(* authorization request: a refresh token's record is not one.             *)
SetRefreshToken(q) ==
  LET t == task[q] IN
  /\ At(q, "refresh")
  /\ refresh' = [refresh EXCEPT ![t.grant] =
                   [user |-> t.user, client |-> t.from \in AuthReq]]
  /\ Goto(q, IF t.from \in AuthReq THEN "delete" ELSE "answer")
  /\ UNCHANGED <<request, code, access, drawn, record, lapsed, faults>>

(* Variant: the code is deleted and the authorization request left.        *)
DeleteAuthRequest_Code(q) ==
  LET a == task[q].from IN
  /\ At(q, "delete")
  /\ code' = [c \in Code |-> IF code[c] = a THEN None ELSE code[c]]
  /\ overlapped' = IF Shared(q, a) THEN overlapped \cup {a} ELSE overlapped
  /\ Goto(q, "answer")
  /\ UNCHANGED <<request, access, refresh, drawn, loggedIn, source, answered,
                 lapsed, faults>>

(* DeleteAuthRequest, the last step before the answer.                     *)
DeleteAuthRequest(q) ==
  LET a == task[q].from IN
  /\ At(q, "delete")
  /\ request' = [request EXCEPT ![a] = None]
  /\ overlapped' = IF Shared(q, a) THEN overlapped \cup {a} ELSE overlapped
  /\ Goto(q, "answer")
  /\ UNCHANGED <<code, access, refresh, drawn, loggedIn, source, answered,
                 lapsed, faults>>

Answer(q) ==
  /\ At(q, "answer")
  /\ answered' = answered \cup {task[q].grant}
  /\ Finish(q)
  /\ UNCHANGED <<keys, drawn, loggedIn, source, overlapped, lapsed, faults>>

(* RevokeToken deletes the keys of both kinds with the ID it is given; the *)
(* errors are ignored.  For a refresh token that is the access token's ID, *)
(* which GetRefreshTokenInfo returns, or the token itself if the library   *)
(* was told that it is another kind and does not ask.                      *)
RevokeToken(g) ==
  /\ \/ access[g] # None /\ access' = [access EXCEPT ![g] = None]
        /\ UNCHANGED refresh
     \/ refresh[g] # None /\ refresh' = [refresh EXCEPT ![g] = None]
        /\ UNCHANGED access
  /\ UNCHANGED <<request, code, task, drawn, record, lapsed, faults>>

-----------------------------------------------------------------------------
(* A key's time to live ends.                                              *)
KeyExpires ==
  /\ faults < MaxFaults
  /\ faults' = faults + 1
  /\ \/ \E a \in AuthReq :
          /\ request[a] # None
          /\ request' = [request EXCEPT ![a] = None]
          /\ UNCHANGED <<code, access, refresh, lapsed>>
     \/ \E c \in Code :
          /\ code[c] # None
          /\ code' = [code EXCEPT ![c] = None]
          /\ UNCHANGED <<request, access, refresh, lapsed>>
     \/ \E g \in Grant :
          /\ access[g] # None
          /\ access' = [access EXCEPT ![g] = None]
          /\ lapsed' = lapsed \cup {g}
          /\ UNCHANGED <<request, code, refresh>>
     \/ \E g \in Grant :
          /\ refresh[g] # None
          /\ refresh' = [refresh EXCEPT ![g] = None]
          /\ UNCHANGED <<request, code, access, lapsed>>
  /\ UNCHANGED <<task, drawn, record>>

(* A command fails and its error is returned, or the request is broken     *)
(* off: the client receives nothing.                                       *)
Fail(q) ==
  /\ ~At(q, "idle")
  /\ faults < MaxFaults
  /\ faults' = faults + 1
  /\ Finish(q)
  /\ UNCHANGED <<keys, drawn, record, lapsed>>

Init ==
  /\ request = [a \in AuthReq |-> None]
  /\ code = [c \in Code |-> None]
  /\ access = [g \in Grant |-> None]
  /\ refresh = [g \in Grant |-> None]
  /\ task = [q \in Req |-> NoTask]
  /\ drawn = {} /\ answered = {} /\ overlapped = {}
  /\ lapsed = {} /\ faults = 0
  /\ loggedIn = [a \in AuthReq |-> {}]
  /\ source = [g \in Grant |-> None]

Arrival(q) ==
  \/ \E a \in AuthReq : Callback(q, a) \/ \E u \in User : CompleteRead(q, a, u)
  \/ \E c \in Code : ByCode(q, c)
  \/ \E g \in Grant : ByRefreshToken(q, g)
  \/ ClientCredentialsTokenRequest(q)

Step(q) ==
  \/ CompleteSet(q) \/ \E c \in Code : SaveAuthCode(q, c)
  \/ ByID(q) \/ \E g \in Grant : SetAccessToken(q, g)
  \/ DeleteOld(q) \/ SetRefreshToken(q) \/ DeleteAuthRequest(q) \/ Answer(q)

Next ==
  \/ \E a \in AuthReq : Authorize(a)
  \/ \E q \in Req : Arrival(q) \/ Step(q) \/ Fail(q)
  \/ \E g \in Grant : RevokeToken(g)
  \/ KeyExpires

Spec == Init /\ [][Next]_vars

-----------------------------------------------------------------------------
Task == [pc : Label, from : AuthReq \cup Grant \cup {None}, user : Subject,
         grant : Grant \cup {None}]

TypeOK ==
  /\ request \in [AuthReq -> Subject \cup {None}]
  /\ code \in [Code -> AuthReq \cup {None}]
  /\ access \in [Grant -> Subject \cup {None}]
  /\ refresh \in [Grant -> RefreshMeta \cup {None}]
  /\ task \in [Req -> Task]
  /\ drawn \subseteq AuthReq \cup Code \cup Grant
  /\ loggedIn \in [AuthReq -> SUBSET User]
  /\ source \in [Grant -> AuthReq \cup Grant \cup {None}]
  /\ answered \subseteq Grant /\ lapsed \subseteq Grant
  /\ overlapped \subseteq AuthReq \cup Grant
  /\ faults \in 0..MaxFaults

(* The users an authorization request or a refresh token may stand for.    *)
Entitled(x) ==
  IF x \in AuthReq THEN loggedIn[x]
  ELSE IF source[x] = None THEN {Client}
  ELSE IF source[x] \in AuthReq THEN loggedIn[source[x]]
  ELSE IF source[x] \in Grant /\ source[source[x]] \in AuthReq
         THEN loggedIn[source[source[x]]]
  ELSE {}

(* Tokens are for a user who has completed the login of the authorization  *)
(* request they go back to, through the refresh in between too, and for    *)
(* the client only if it asked for tokens of its own.                      *)
SubjectLoggedIn ==
  \A g \in Grant :
    /\ access[g] # None => access[g] \in Entitled(g)
    /\ refresh[g] # None => refresh[g].user \in Entitled(g)

(* An authorization request is answered with tokens once, however many     *)
(* codes it was given and however often they are presented, unless another *)
(* exchange or a completion held it while it was deleted; and a refresh    *)
(* token has one successor, unless two refreshes held it or its deletion   *)
(* failed.                                                                 *)
AnswersTo(x) == {g \in answered : source[g] = x}

AnsweredOnce ==
  \A x \in AuthReq \cup Grant :
    x \in overlapped \/ Cardinality(AnswersTo(x)) <= 1

(* What was answered is gone for good: no completion brings the request    *)
(* back, and the replaced refresh token is not accepted again.             *)
AnsweredGone ==
  \A x \in AuthReq \cup Grant :
    x \in overlapped \/ AnswersTo(x) = {}
      \/ IF x \in AuthReq THEN request[x] = None ELSE refresh[x] = None

(* SetIntrospectionFromToken: the token itself is valid and its user       *)
(* exists; the stored record of the access token is not read.              *)
SetIntrospectionFromToken(g) == g \in answered \ lapsed /\ source[g] # None

(* "tokenMeta is stored in Redis for token introspection and userinfo"     *)
(* (oidc_storage.go:166): introspection reports a token active only while  *)
(* its record is stored.                                                   *)
IntrospectionFollowsStore ==
  \A g \in Grant : SetIntrospectionFromToken(g) => access[g] # None

-----------------------------------------------------------------------------
(* Why the invariants hold.  A request is for nobody until a login is      *)
(* completed, and for one who completed it from then on; it has codes only *)
(* after that.                                                             *)
RequestsOK ==
  \A a \in AuthReq :
    /\ request[a] \in loggedIn[a] \cup {Nobody, None}
    /\ request[a] = Nobody => loggedIn[a] = {}
    /\ a \notin drawn => request[a] = None /\ loggedIn[a] = {}

CodesOK == \A c \in Code : code[c] # None => loggedIn[code[c]] # {}

(* Where a handler issues tokens, its user is entitled to them.            *)
Issuing == {"access", "rotate", "refresh", "delete", "answer"}

TaskOK(t) ==
  /\ t.pc = "idle" => t.from = None
  /\ t.pc = "complete" => t.from \in AuthReq \cap drawn /\ t.user \in User
  /\ t.pc \in {"code", "byid"} => t.from \in AuthReq /\ loggedIn[t.from] # {}
  /\ t.pc \in Issuing =>
       \/ t.from = None /\ t.user = Client /\ t.pc \in {"access", "answer"}
       \/ /\ t.from \in AuthReq /\ t.user \in loggedIn[t.from]
          /\ t.pc # "rotate"
       \/ /\ t.from \in Grant \cap drawn /\ t.pc # "delete"
          /\ source[t.from] \in AuthReq /\ t.user \in loggedIn[source[t.from]]
  /\ t.pc \in Issuing \ {"access"} =>
       t.grant \in Grant \cap drawn /\ source[t.grant] = t.from

TasksOK == \A q \in Req : TaskOK(task[q])

(* A refresh token that goes with the client is of the first generation.   *)
GrantsOK ==
  \A g \in Grant :
    /\ refresh[g] # None /\ refresh[g].client => source[g] \in AuthReq
    /\ source[g] \in Grant => source[g] \in drawn
    /\ source[g] \in AuthReq => loggedIn[source[g]] # {}
    /\ g \notin drawn =>
         /\ access[g] = None /\ refresh[g] = None /\ source[g] = None
         /\ g \notin answered

(* A grant whose refresh token is still to be stored is one handler's and  *)
(* nothing comes from it yet.                                              *)
Unstored(q, g) == task[q].pc \in {"rotate", "refresh"} /\ task[q].grant = g

UnstoredOK ==
  \A q \in Req, g \in Grant : Unstored(q, g) =>
    /\ refresh[g] = None
    /\ \A h \in Grant : source[h] # g
    /\ \A r \in Req : task[r].from # g /\ (r # q => ~Unstored(r, g))

(* One handler at most is past the deletion of what it consumes, and then  *)
(* nobody else has it in hand; once it is answered nobody has.             *)
Gone(x) == IF x \in AuthReq THEN request[x] = None ELSE refresh[x] = None

Busy(q, x) == task[q].from = x /\ task[q].pc \in Holding \cup {"answer"}

Past(q, x) ==
  /\ task[q].from = x
  /\ task[q].pc = "answer" \/ (x \in Grant /\ task[q].pc = "refresh")

Consumed(x) ==
  /\ \A q \in Req : Past(q, x) =>
       Gone(x) /\ \A r \in Req \ {q} : ~Busy(r, x)
  /\ \A g \in AnswersTo(x) :
       /\ Gone(x) /\ \A q \in Req : ~Busy(q, x)
       /\ \A h \in AnswersTo(x) : h = g

ConsumedOnce == \A x \in AuthReq \cup Grant : x \in overlapped \/ Consumed(x)

IInv ==
  /\ TypeOK /\ RequestsOK /\ CodesOK /\ TasksOK /\ GrantsOK
  /\ SubjectLoggedIn /\ UnstoredOK /\ ConsumedOnce
=============================================================================
