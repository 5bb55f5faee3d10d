------------------------------ MODULE Accounts ------------------------------
(***************************************************************************)
(* User accounts and the links mailed to their owners: sign-up, profile    *)
(* update, soft deletion, restoring and purging (internal/biz/user.go,     *)
(* internal/data/user.go), email verification and password reset           *)
(* (internal/biz/authn.go) with their one-time tokens (internal/data/      *)
(* otp.go).                                                                *)
(*                                                                         *)
(* A request is at one label of its handler; each label is one statement   *)
(* on the users table, one Redis command or one mail.  Statements are      *)
(* atomic and the table enforces the unique constraints of                 *)
(* internal/data/schema/user.go; nothing is done in a transaction.  A      *)
(* statement, command or mail may fail, and a request may be broken off.   *)
(* What a password change does to the sessions is in module Sessions.      *)
(*                                                                         *)
(* mail, taken, moved and effects record what the properties speak of.     *)
(***************************************************************************)
EXTENDS Naturals, FiniteSets

CONSTANTS
  Req,                   \* requests in flight
  Id, Name, Email, Otp,
  NoRow, Keep,           \* no such row; a field an update leaves alone
  MaxFaults              \* bound: failures

ASSUME AccountsAssumption ==
  MaxFaults \in Nat /\ Keep \notin Name \cup Email

VARIABLES
  row,       \* the users table, by ID
  otp,       \* iam:<purpose>:<hash>: the token's purpose and user
  req,       \* the request each handler serves
  mail,      \* links that reached a mailbox
  taken,     \* IDs and tokens drawn so far
  moved,     \* IDs whose email was changed, or that name a second account
  effects,   \* how often a token changed a row
  faults

ghosts == <<taken, moved, effects>>
vars == <<row, otp, req, mail, ghosts, faults>>

Purpose == {"verify", "reset"}
Row == [name : Name, email : Email, verified : BOOLEAN, deleted : BOOLEAN,
        reset : BOOLEAN]
ASSUME NoRowAssumption == NoRow \notin Row
NoOtp == [purpose |-> "none", id |-> NoRow]

Op == {"none", "signup", "create", "update", "delete", "restore",
       "askverify", "askreset", "verify", "reset"}
Label == {"idle", "name", "email", "insert", "otp", "send", "write"}
NoRequest == [op |-> "none", pc |-> "idle", name |-> Keep, email |-> Keep,
              id |-> NoRow, orig |-> NoRow, purpose |-> "none", otp |-> NoRow]

Exists(i) == row[i] # NoRow
Holder(field, v) == {i \in Id : Exists(i) /\ row[i][field] = v}

At(q, l) == req[q].pc = l
Goto(q, l) == req' = [req EXCEPT ![q].pc = l]
Begin(q, r) == At(q, "idle") /\ req' = [req EXCEPT ![q] = r]

(* The request answers, with success or with an error.                     *)
Return(q) == req' = [req EXCEPT ![q] = NoRequest]

(* Bound: a request that will draw a token begins while Otp has room.      *)
Room ==
  Cardinality(taken \cap Otp)
    + Cardinality({q \in Req : req[q].op \in {"signup", "create", "askverify",
                                             "askreset"} /\ req[q].pc # "send"})
  < Cardinality(Otp)

-----------------------------------------------------------------------------
(* SignupByEmail and CreateUser: two look-ups, which see soft-deleted rows *)
(* too, the insert, and a verification mail.                               *)

Register(q, op, n, e) ==
  /\ Room
  /\ Begin(q, [NoRequest EXCEPT !.op = op, !.pc = "name",
                                !.name = n, !.email = e])
  /\ UNCHANGED <<row, otp, mail, ghosts, faults>>

CheckName(q) ==
  /\ At(q, "name") /\ req[q].op # "update"
  /\ IF Holder("name", req[q].name) = {}
       THEN Goto(q, "email")
       ELSE Return(q)
  /\ UNCHANGED <<row, otp, mail, ghosts, faults>>

CheckEmail(q) ==
  /\ At(q, "email") /\ req[q].op # "update"
  /\ IF Holder("email", req[q].email) = {}
       THEN Goto(q, "insert")
       ELSE Return(q)
  /\ UNCHANGED <<row, otp, mail, ghosts, faults>>

(* Variant: the two look-ups are trusted. *)
Unique_Trusted(i, n, e) == i \in Id

(* The unique constraints, over all rows, deleted ones included.           *)
Unique(i, n, e) == Holder("name", n) \cup Holder("email", e) \subseteq {i}

(* A sign-up draws a new ID; an administrator who creates a user may name  *)
(* one, which is then free, but may have belonged to a purged account.     *)
InsertUser(q) ==
  /\ At(q, "insert")
  /\ \/ \E i \in Id :
          /\ ~Exists(i)
          /\ i \in taken => req[q].op = "create"
          /\ Unique(i, req[q].name, req[q].email)
          /\ row' = [row EXCEPT ![i] =
                       [name |-> req[q].name, email |-> req[q].email,
                        verified |-> FALSE, deleted |-> FALSE, reset |-> FALSE]]
          /\ req' = [req EXCEPT ![q].pc = "otp", ![q].id = i,
                                ![q].purpose = "verify"]
          /\ taken' = taken \cup {i}
          /\ moved' = IF i \in taken THEN moved \cup {i} ELSE moved
     \/ /\ \A i \in Id : ~Exists(i) => ~Unique(i, req[q].name, req[q].email)
        /\ Return(q)
        /\ UNCHANGED <<row, taken, moved>>
  /\ UNCHANGED <<otp, mail, effects, faults>>

-----------------------------------------------------------------------------
(* A link: draw a token, set its key, render and send the mail.            *)

SetToken(q, t) ==
  /\ At(q, "otp")
  /\ t \notin taken
  /\ taken' = taken \cup {t}
  /\ otp' = [otp EXCEPT ![t] = [purpose |-> req[q].purpose, id |-> req[q].id]]
  /\ req' = [req EXCEPT ![q].pc = "send", ![q].otp = t]
  /\ UNCHANGED <<row, mail, moved, effects, faults>>

Send(q) ==
  /\ At(q, "send")
  /\ mail' = mail \cup {[otp |-> req[q].otp, purpose |-> req[q].purpose,
                         id |-> req[q].id, to |-> req[q].email]}
  /\ Return(q)
  /\ UNCHANGED <<row, otp, ghosts, faults>>

(* RequestEmailVerification and RequestPasswordReset: an email nobody has, *)
(* or one already verified, is answered with success and no mail.          *)
AskLink(q, op, e) ==
  /\ Room
  /\ \E i \in Holder("email", e) :
       /\ op = "askverify" => ~row[i].verified
       /\ Begin(q, [NoRequest EXCEPT
                      !.op = op, !.pc = "otp", !.email = e, !.id = i,
                      !.purpose = IF op = "askverify" THEN "verify" ELSE "reset"])
  /\ UNCHANGED <<row, otp, mail, ghosts, faults>>

(* Variants: the token is left in place; its key does not tell purposes    *)
(* apart.                                                                  *)
UseLink_Get(q, purpose, t) ==
  /\ otp[t].purpose = purpose
  /\ Begin(q, [NoRequest EXCEPT !.op = purpose, !.pc = "write",
                                !.id = otp[t].id, !.otp = t])
  /\ UNCHANGED <<row, otp, mail, ghosts, faults>>

UseLink_AnyPurpose(q, purpose, t) ==
  /\ otp[t] # NoOtp
  /\ otp' = [otp EXCEPT ![t] = NoOtp]
  /\ Begin(q, [NoRequest EXCEPT !.op = purpose, !.pc = "write",
                                !.id = otp[t].id, !.otp = t])
  /\ UNCHANGED <<row, mail, ghosts, faults>>

(* VerifyEmail and ResetPassword of a token that was mailed: GetDel, then  *)
(* the update.  A token whose key is gone is an error and changes nothing. *)
UseLink(q, purpose, t) ==
  /\ otp[t].purpose = purpose
  /\ otp' = [otp EXCEPT ![t] = NoOtp]
  /\ Begin(q, [NoRequest EXCEPT !.op = purpose, !.pc = "write",
                                !.id = otp[t].id, !.otp = t])
  /\ UNCHANGED <<row, mail, ghosts, faults>>

-----------------------------------------------------------------------------
(* UpdateUser, DeleteUser, RestoreUser: a read that decides, and a write   *)
(* of the fields concerned.  GetUserById does not see deleted rows; the    *)
(* update of one ID does.                                                  *)

Update(q, i, n, e) ==
  /\ Exists(i) /\ ~row[i].deleted
  /\ Begin(q, [NoRequest EXCEPT
                 !.op = "update", !.id = i, !.orig = row[i],
                 !.name = n, !.email = e,
                 !.pc = IF n \notin {Keep, row[i].name} THEN "name"
                        ELSE IF e \notin {Keep, row[i].email} THEN "email"
                        ELSE "write"])
  /\ UNCHANGED <<row, otp, mail, ghosts, faults>>

UpdateCheck(q) ==
  LET r == req[q] IN
  /\ r.op = "update"
  /\ \/ /\ At(q, "name")
        /\ IF Holder("name", r.name) # {} THEN Return(q)
           ELSE Goto(q, IF r.email \notin {Keep, r.orig.email} THEN "email"
                        ELSE "write")
     \/ /\ At(q, "email")
        /\ IF Holder("email", r.email) # {} THEN Return(q)
           ELSE Goto(q, "write")
  /\ UNCHANGED <<row, otp, mail, ghosts, faults>>

(* DeleteUser reads like UpdateUser, RestoreUser sees deleted rows too.    *)
Mark(q, op, i) ==
  /\ Exists(i)
  /\ op = "delete" => ~row[i].deleted
  /\ Begin(q, [NoRequest EXCEPT !.op = op, !.pc = "write", !.id = i])
  /\ UNCHANGED <<row, otp, mail, ghosts, faults>>

Renamed(r, old) ==
  [old EXCEPT !.name = IF r.name = Keep THEN @ ELSE r.name,
              !.email = IF r.email = Keep THEN @ ELSE r.email]

(* The fields a write sets.                                                *)
Written_Set(r, old) ==
  CASE r.op = "update"  -> Renamed(r, old)
    [] r.op = "delete"  -> [old EXCEPT !.deleted = TRUE]
    [] r.op = "restore" -> [old EXCEPT !.deleted = FALSE]
    [] r.op = "verify"  -> [old EXCEPT !.verified = TRUE]
    [] r.op = "reset"   -> [old EXCEPT !.reset = TRUE]

(* Variant: an update writes back the whole row it has read. *)
Written_Whole(r, old) ==
  IF r.op = "update" THEN Renamed(r, r.orig) ELSE Written_Set(r, old)

(* ... over the row as it then is, not as the request has read it.         *)
Written(r, old) == Written_Set(r, old)

WriteUser(q) ==
  LET r == req[q]
      i == r.id
      new == Written(r, row[i])
  IN  /\ At(q, "write")
      /\ IF Exists(i) /\ Unique(i, new.name, new.email)
           THEN /\ row' = [row EXCEPT ![i] = new]
                /\ moved' = IF new.email # row[i].email THEN moved \cup {i}
                            ELSE moved
                /\ effects' = IF r.op \in Purpose
                                THEN [effects EXCEPT ![r.otp] = @ + 1]
                                ELSE effects
                /\ Return(q)
           ELSE Return(q) /\ UNCHANGED <<row, moved, effects>>
      /\ UNCHANGED <<otp, mail, taken, faults>>

(* PurgeUser removes the row, deleted or not; its tokens stay.             *)
Purge(i) ==
  /\ Exists(i)
  /\ row' = [row EXCEPT ![i] = NoRow]
  /\ UNCHANGED <<otp, req, mail, ghosts, faults>>

-----------------------------------------------------------------------------
OtpExpires(t) ==
  /\ otp[t] # NoOtp
  /\ otp' = [otp EXCEPT ![t] = NoOtp]
  /\ UNCHANGED <<row, req, mail, ghosts, faults>>

(* The statement, command or mail at the request's label fails.  A         *)
(* registration whose row is there has succeeded all the same: that its    *)
(* verification mail failed is only logged.                                *)
Fault(q) ==
  /\ ~At(q, "idle")
  /\ faults < MaxFaults
  /\ faults' = faults + 1
  /\ Return(q)
  /\ UNCHANGED <<row, otp, mail, ghosts>>

Init ==
  /\ row = [i \in Id |-> NoRow]
  /\ otp = [t \in Otp |-> NoOtp]
  /\ req = [q \in Req |-> NoRequest]
  /\ mail = {} /\ taken = {} /\ moved = {}
  /\ effects = [t \in Otp |-> 0]
  /\ faults = 0

Arrival(q) ==
  \/ \E n \in Name, e \in Email, op \in {"signup", "create"} :
       Register(q, op, n, e)
  \/ \E i \in Id, n \in Name \cup {Keep}, e \in Email \cup {Keep} :
       Update(q, i, n, e)
  \/ \E i \in Id, op \in {"delete", "restore"} : Mark(q, op, i)
  \/ \E e \in Email, op \in {"askverify", "askreset"} : AskLink(q, op, e)
  \/ \E m \in mail, purpose \in Purpose : UseLink(q, purpose, m.otp)

Step(q) ==
  \/ CheckName(q) \/ CheckEmail(q) \/ InsertUser(q)
  \/ \E t \in Otp : SetToken(q, t)
  \/ Send(q) \/ UpdateCheck(q) \/ WriteUser(q)

Next ==
  \/ \E q \in Req : Arrival(q) \/ Step(q) \/ Fault(q)
  \/ \E i \in Id : Purge(i)
  \/ \E t \in Otp : OtpExpires(t)

Spec == Init /\ [][Next]_vars

-----------------------------------------------------------------------------
Request ==
  [op : Op, pc : Label, name : Name \cup {Keep}, email : Email \cup {Keep},
   id : Id \cup {NoRow}, orig : Row \cup {NoRow},
   purpose : Purpose \cup {"none"}, otp : Otp \cup {NoRow}]

TypeOK ==
  /\ row \in [Id -> Row \cup {NoRow}]
  /\ otp \in [Otp -> [purpose : Purpose, id : Id] \cup {NoOtp}]
  /\ req \in [Req -> Request]
  /\ mail \subseteq [otp : Otp, purpose : Purpose, id : Id, to : Email]
  /\ taken \subseteq Id \cup Otp
  /\ moved \subseteq Id
  /\ effects \in [Otp -> Nat]
  /\ faults \in 0..MaxFaults

(* Whatever sign-ups, updates and restores race, no two accounts, deleted  *)
(* ones included, share a name or an email: restoring never collides.      *)
NamesUnique ==
  \A i, j \in Id :
    /\ i # j /\ Exists(i) /\ Exists(j)
    => row[i].name # row[j].name /\ row[i].email # row[j].email

(* A link works at most once, however many requests present it.            *)
LinkWorksOnce == \A t \in Otp : effects[t] <= 1

(* A verified account has received a verification link at the address it   *)
(* has, unless the address was changed after registration, or the account  *)
(* took over the ID of a purged one.                                       *)
VerifiedByMail ==
  \A i \in Id : Exists(i) /\ row[i].verified /\ i \notin moved =>
    \E m \in mail : m.purpose = "verify" /\ m.id = i /\ m.to = row[i].email

(* An update based on an earlier read never undoes what another request    *)
(* wrote meanwhile: only DeleteUser and RestoreUser change the deletion,   *)
(* and nothing takes back a verification or a password reset.              *)
NoLostUpdate ==
  [][\A i \in Id : Exists(i) /\ row'[i] # NoRow =>
       /\ row[i].verified => row'[i].verified
       /\ row[i].reset => row'[i].reset
       /\ row'[i].deleted # row[i].deleted =>
            \E q \in Req : req[q].op \in {"delete", "restore"} /\ req[q].id = i]_vars

-----------------------------------------------------------------------------
(* Why the invariants hold.  What a request has in hand, by its label.     *)
Creating == {"signup", "create"}
Mailing == Creating \cup {"askverify", "askreset"}
Changing == {"update", "delete", "restore"}

RequestOK(r) ==
  /\ r.op \in Creating => r.name \in Name /\ r.email \in Email
  /\ r.op = "update" => r.orig \in Row /\ r.id \in Id
  /\ r.pc \in {"name", "email"} => r.op \in Creating \cup {"update"}
  /\ r.pc = "insert" => r.op \in Creating
  /\ r.pc \in {"otp", "send"} =>
       r.op \in Mailing /\ r.purpose \in Purpose /\ r.email \in Email
  /\ r.pc = "send" => r.otp \in Otp
  /\ r.pc = "write" =>
       r.op \in Changing \cup Purpose /\ (r.op \in Purpose => r.otp \in Otp)
  /\ r.pc \in {"otp", "send", "write"} => r.id \in Id

LocalsOK == \A q \in Req : RequestOK(req[q])

(* The request has used the link up and is about to write.                 *)
Writes(q, t) == At(q, "write") /\ req[q].op \in Purpose /\ req[q].otp = t

(* The request has set the token and is about to mail it.                  *)
Mails(q, t) == At(q, "send") /\ req[q].otp = t

(* A link is set, in the hands of one request, or used up.                 *)
LinkOnce ==
  \A t \in Otp :
    /\ otp[t] # NoOtp => effects[t] = 0 /\ \A q \in Req : ~Writes(q, t)
    /\ \A q \in Req : Writes(q, t) => effects[t] = 0
    /\ \A q, p \in Req : Writes(q, t) /\ Writes(p, t) => p = q
    /\ t \notin taken =>
         /\ otp[t] = NoOtp /\ effects[t] = 0
         /\ \A q \in Req : ~Writes(q, t) /\ ~Mails(q, t)
         /\ \A m \in mail : m.otp # t

(* Nothing refers to an ID that was not drawn.                             *)
IdsDrawn ==
  /\ \A i \in Id : Exists(i) => i \in taken
  /\ \A m \in mail : m.id \in taken
  /\ \A t \in Otp : otp[t] # NoOtp => otp[t].id \in taken
  /\ \A q \in Req :
       req[q].op = "update" \/ req[q].pc \in {"otp", "send", "write"} =>
         req[q].id \in taken

(* A mail, or a request about to send one, names the token's key, and the  *)
(* address of the account unless that was moved.                           *)
Settled(i) == Exists(i) /\ i \notin moved

MailsTrue ==
  /\ \A m \in mail :
       /\ otp[m.otp] # NoOtp => otp[m.otp] = [purpose |-> m.purpose, id |-> m.id]
       /\ Settled(m.id) => row[m.id].email = m.to
  /\ \A q \in Req :
       /\ At(q, "send") /\ otp[req[q].otp] # NoOtp =>
            otp[req[q].otp] = [purpose |-> req[q].purpose, id |-> req[q].id]
       /\ req[q].pc \in {"otp", "send"} /\ Settled(req[q].id) =>
            row[req[q].id].email = req[q].email

(* A verification link that works was mailed.                              *)
Mailed(i) == \E m \in mail : m.purpose = "verify" /\ m.id = i

Verifying ==
  \A q \in Req : At(q, "write") /\ req[q].op = "verify" => Mailed(req[q].id)

IInv ==
  /\ TypeOK /\ LocalsOK /\ LinkOnce /\ IdsDrawn /\ MailsTrue /\ Verifying
  /\ NamesUnique /\ LinkWorksOnce /\ VerifiedByMail
=============================================================================
