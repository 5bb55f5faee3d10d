--------------------------- MODULE Accounts_proofs ---------------------------
(***************************************************************************)
(* The accounts and their links, for every number of requests, accounts,   *)
(* names, addresses and tokens: IInv is inductive.  The unique constraints *)
(* make the look-ups before them unnecessary; GetDel hands a token to one  *)
(* request, so a link is set, in one hand, or used up; and what a mail     *)
(* says was true when it was sent and stays true until the address moves.  *)
(***************************************************************************)
EXTENDS Accounts, TLAPS

LEMMA Parts ==
  IInv <=> /\ TypeOK /\ LocalsOK /\ LinkOnce /\ IdsDrawn /\ MailsTrue
           /\ Verifying /\ NamesUnique /\ LinkWorksOnce /\ VerifiedByMail
BY DEF IInv

(* A request that answers has nothing in hand.                             *)
LEMMA Idle == NoRequest \in Request /\ RequestOK(NoRequest)
BY DEF NoRequest, Request, RequestOK, Op, Label, Creating, Mailing, Changing,
       Purpose

LEMMA InitInv == Init => IInv
<1> SUFFICES ASSUME Init PROVE IInv OBVIOUS
<1> USE DEF Init
<1>1. TypeOK BY AccountsAssumption, Idle DEF TypeOK
<1>2. LocalsOK BY Idle DEF LocalsOK
<1>3. \A q \in Req : req[q].pc = "idle" /\ req[q].op = "none"
  BY DEF NoRequest
<1>4. LinkOnce BY <1>3 DEF LinkOnce, Writes, Mails, At
<1>5. IdsDrawn BY <1>3 DEF IdsDrawn, Exists
<1>6. MailsTrue /\ Verifying BY <1>3 DEF MailsTrue, Verifying, At
<1>7. NamesUnique /\ LinkWorksOnce /\ VerifiedByMail
  BY DEF NamesUnique, LinkWorksOnce, VerifiedByMail, Exists
<1>8. QED BY <1>1, <1>2, <1>4, <1>5, <1>6, <1>7, Parts

(* What a step that gives one request a new record does to the others.     *)
LEMMA Become ==
  ASSUME TypeOK, LocalsOK, NEW q \in Req, NEW r \in Request, RequestOK(r),
         req' = [req EXCEPT ![q] = r]
  PROVE  /\ req' \in [Req -> Request] /\ req'[q] = r
         /\ \A p \in Req \ {q} : req'[p] = req[p]
         /\ LocalsOK'
<1>1. /\ req' \in [Req -> Request] /\ req'[q] = r
      /\ \A p \in Req \ {q} : req'[p] = req[p]
  BY DEF TypeOK
<1>2. \A p \in Req : RequestOK(req'[p]) BY <1>1 DEF LocalsOK
<1>3. QED BY <1>1, <1>2 DEF LocalsOK, RequestOK

(* A step of one request that touches neither the table nor the store, and *)
(* leaves the request at a label where it has no link in hand, or about to *)
(* draw a token for an account that has the request's address.             *)
LEMMA Quiet ==
  ASSUME IInv, NEW q \in Req, NEW r \in Request, RequestOK(r),
         req' = [req EXCEPT ![q] = r],
         UNCHANGED <<row, otp, mail, ghosts>>, faults' \in 0..MaxFaults,
         r.pc # "send", r.pc = "write" => r.op \notin Purpose,
         r.op = "update" \/ r.pc \in {"otp", "write"} => r.id \in taken,
         r.pc = "otp" /\ Settled(r.id) => row[r.id].email = r.email
  PROVE  IInv'
<1> USE Parts DEF ghosts
<1>1. /\ req' \in [Req -> Request] /\ req'[q] = r
      /\ \A p \in Req \ {q} : req'[p] = req[p]
      /\ LocalsOK'
  BY Become
<1>2. TypeOK' BY <1>1 DEF TypeOK
<1>3. \A p \in Req, t \in Otp :
        /\ Writes(p, t)' => Writes(p, t)
        /\ Mails(p, t)' => Mails(p, t)
  BY <1>1 DEF Writes, Mails, At
<1>4. LinkOnce' BY <1>3 DEF LinkOnce
<1>5. IdsDrawn' BY <1>1 DEF IdsDrawn, Exists
<1>6. \A i \in Id : Settled(i)' <=> Settled(i) BY DEF Settled, Exists
<1>7. MailsTrue' BY <1>1, <1>6 DEF MailsTrue, At, Settled, Exists
<1>8. Verifying' BY <1>1 DEF Verifying, At, Mailed, Purpose
<1>9. NamesUnique' /\ LinkWorksOnce' /\ VerifiedByMail'
  BY DEF NamesUnique, LinkWorksOnce, VerifiedByMail, Exists
<1>10. QED BY <1>1, <1>2, <1>4, <1>5, <1>7, <1>8, <1>9, PTL

(* The fields of a request that has moved to another label.                *)
LEMMA Moved ==
  ASSUME TypeOK, NEW q \in Req, NEW l \in Label
  PROVE  LET r == [req[q] EXCEPT !.pc = l] IN
         /\ r \in Request /\ r.pc = l
         /\ r.op = req[q].op /\ r.name = req[q].name /\ r.email = req[q].email
         /\ r.id = req[q].id /\ r.orig = req[q].orig
         /\ r.purpose = req[q].purpose /\ r.otp = req[q].otp
         /\ [req EXCEPT ![q].pc = l] = [req EXCEPT ![q] = r]
BY DEF TypeOK, Request

(* A request that answers, with success or with an error.                  *)
LEMMA ReturnInv ==
  ASSUME IInv, NEW q \in Req, Return(q),
         UNCHANGED <<row, otp, mail, ghosts>>, faults' \in 0..MaxFaults
  PROVE  IInv'
BY Idle, Quiet DEF Return, NoRequest

LEMMA RegisterInv ==
  ASSUME IInv, NEW q \in Req, NEW op \in {"signup", "create"},
         NEW n \in Name, NEW e \in Email, Register(q, op, n, e)
  PROVE  IInv'
<1> DEFINE r == [NoRequest EXCEPT !.op = op, !.pc = "name",
                                  !.name = n, !.email = e]
<1>1. r \in Request /\ RequestOK(r) /\ r.pc = "name" /\ r.op = op
  BY AccountsAssumption
     DEF Request, RequestOK, NoRequest, Op, Label, Creating, Mailing, Changing,
         Purpose
<1>2. req' = [req EXCEPT ![q] = r] BY DEF Register, Begin
<1> HIDE DEF r
<1>3. UNCHANGED <<row, otp, mail, ghosts>> /\ faults' \in 0..MaxFaults
  BY Parts DEF Register, TypeOK
<1>4. QED BY <1>1, <1>2, <1>3, Quiet

(* A look-up that goes on to the next one, or to the insert or the update. *)
LEMMA CheckInv ==
  ASSUME IInv, NEW q \in Req,
         CheckName(q) \/ CheckEmail(q) \/ UpdateCheck(q)
  PROVE  IInv'
<1>1. /\ UNCHANGED <<row, otp, mail, ghosts>> /\ faults' \in 0..MaxFaults
      /\ RequestOK(req[q])
  BY Parts DEF CheckName, CheckEmail, UpdateCheck, TypeOK, LocalsOK
<1>2. ASSUME NEW l \in Label, Goto(q, l), l \in {"email", "insert", "write"},
             req[q].op \in Creating \cup {"update"},
             l = "insert" => req[q].op \in Creating,
             l = "write" => req[q].op = "update" /\ req[q].id \in Id \cap taken
      PROVE  IInv'
  <2> DEFINE r == [req[q] EXCEPT !.pc = l]
  <2>1. r \in Request /\ r.pc = l /\ r.op = req[q].op /\ r.id = req[q].id
        /\ r.name = req[q].name /\ r.email = req[q].email
        /\ r.orig = req[q].orig /\ req' = [req EXCEPT ![q] = r]
    BY <1>2, Moved, Parts DEF Goto
  <2> HIDE DEF r
  <2>2. RequestOK(r)
    BY <1>1, <1>2, <2>1 DEF RequestOK, Creating, Changing, Mailing, Purpose
  <2>3. r.op \notin Purpose BY <1>2, <2>1 DEF Creating, Purpose
  <2>4. r.op = "update" \/ r.pc = "write" => r.id \in taken
    BY <1>2, <2>1, Parts DEF IdsDrawn
  <2>5. r.pc \notin {"send", "otp"} BY <1>2, <2>1
  <2>6. QED BY <1>1, <2>1, <2>2, <2>3, <2>4, <2>5, Quiet
<1>3. CASE Return(q) BY <1>1, <1>3, ReturnInv
<1>4. CASE CheckName(q)
  <2>1. req[q].op \in Creating
    BY <1>1, <1>4 DEF CheckName, At, RequestOK
  <2>2. CASE Goto(q, "email") BY <1>2, <2>1, <2>2 DEF Label
  <2>3. QED BY <1>3, <1>4, <2>2 DEF CheckName
<1>5. CASE CheckEmail(q)
  <2>1. req[q].op \in Creating
    BY <1>1, <1>5 DEF CheckEmail, At, RequestOK
  <2>2. CASE Goto(q, "insert") BY <1>2, <2>1, <2>2 DEF Label
  <2>3. QED BY <1>3, <1>5, <2>2 DEF CheckEmail
<1>6. CASE UpdateCheck(q)
  <2>1. req[q].op = "update" /\ req[q].pc \in {"name", "email"}
    BY <1>6 DEF UpdateCheck, At
  <2>2. req[q].id \in Id \cap taken
    BY <1>1, <2>1, Parts DEF RequestOK, IdsDrawn
  <2>3. CASE Goto(q, "email") BY <1>2, <2>1, <2>3 DEF Label
  <2>4. CASE Goto(q, "write") BY <1>2, <2>1, <2>2, <2>4 DEF Label, Creating
  <2>5. QED BY <1>3, <1>6, <2>3, <2>4 DEF UpdateCheck
<1>7. QED BY <1>4, <1>5, <1>6

(* Asking for a link: the account found has the address asked for.         *)
LEMMA AskLinkInv ==
  ASSUME IInv, NEW q \in Req, NEW op \in {"askverify", "askreset"},
         NEW e \in Email, AskLink(q, op, e)
  PROVE  IInv'
<1>1. PICK i \in Holder("email", e) :
        Begin(q, [NoRequest EXCEPT
                    !.op = op, !.pc = "otp", !.email = e, !.id = i,
                    !.purpose = IF op = "askverify" THEN "verify" ELSE "reset"])
  BY DEF AskLink
<1> DEFINE r == [NoRequest EXCEPT
                   !.op = op, !.pc = "otp", !.email = e, !.id = i,
                   !.purpose = IF op = "askverify" THEN "verify" ELSE "reset"]
<1>2. i \in Id /\ Exists(i) /\ row[i].email = e BY DEF Holder
<1>3. /\ r \in Request /\ RequestOK(r) /\ r.pc = "otp" /\ r.op = op
      /\ r.id = i /\ r.email = e
  BY <1>2 DEF Request, RequestOK, NoRequest, Op, Label, Creating, Mailing,
              Changing, Purpose
<1>4. req' = [req EXCEPT ![q] = r] BY <1>1 DEF Begin
<1> HIDE DEF r
<1>5. UNCHANGED <<row, otp, mail, ghosts>> /\ faults' \in 0..MaxFaults
  BY Parts DEF AskLink, TypeOK
<1>6. i \in taken BY <1>2, Parts DEF IdsDrawn
<1>7. QED BY <1>2, <1>3, <1>4, <1>5, <1>6, Quiet

LEMMA UpdateInv ==
  ASSUME IInv, NEW q \in Req, NEW i \in Id, NEW n \in Name \cup {Keep},
         NEW e \in Email \cup {Keep}, Update(q, i, n, e)
  PROVE  IInv'
<1>1. PICK l \in {"name", "email", "write"} :
        req' = [req EXCEPT ![q] =
                  [NoRequest EXCEPT !.op = "update", !.id = i, !.orig = row[i],
                                    !.name = n, !.email = e, !.pc = l]]
  BY DEF Update, Begin
<1>2. PICK old \in Row : old = row[i]
  BY Parts DEF Update, Exists, TypeOK
<1> DEFINE r == [NoRequest EXCEPT !.op = "update", !.id = i, !.orig = old,
                                  !.name = n, !.email = e, !.pc = l]
<1>3. /\ r \in Request /\ RequestOK(r) /\ r.pc = l /\ r.op = "update"
      /\ r.id = i
  BY DEF Request, RequestOK, NoRequest, Op, Label, Creating, Mailing,
         Changing, Purpose
<1>4. req' = [req EXCEPT ![q] = r] BY <1>1, <1>2
<1> HIDE DEF r
<1>5. /\ UNCHANGED <<row, otp, mail, ghosts>> /\ faults' \in 0..MaxFaults
      /\ i \in taken
  BY Parts DEF Update, TypeOK, IdsDrawn
<1>6. QED BY <1>3, <1>4, <1>5, Quiet DEF Purpose

LEMMA MarkInv ==
  ASSUME IInv, NEW q \in Req, NEW op \in {"delete", "restore"}, NEW i \in Id,
         Mark(q, op, i)
  PROVE  IInv'
<1> DEFINE r == [NoRequest EXCEPT !.op = op, !.pc = "write", !.id = i]
<1>1. r \in Request /\ RequestOK(r) /\ r.pc = "write" /\ r.op = op /\ r.id = i
  BY DEF Request, RequestOK, NoRequest, Op, Label, Creating, Mailing,
         Changing, Purpose
<1>2. req' = [req EXCEPT ![q] = r] BY DEF Mark, Begin
<1> HIDE DEF r
<1>3. /\ UNCHANGED <<row, otp, mail, ghosts>> /\ faults' \in 0..MaxFaults
      /\ i \in taken
  BY Parts DEF Mark, TypeOK, IdsDrawn
<1>4. QED BY <1>1, <1>2, <1>3, Quiet DEF Purpose

LEMMA FaultInv ==
  ASSUME IInv, NEW q \in Req, Fault(q) PROVE IInv'
<1>1. faults' \in 0..MaxFaults
  BY AccountsAssumption, Parts DEF Fault, TypeOK
<1>2. QED BY <1>1, ReturnInv DEF Fault

-----------------------------------------------------------------------------
(* The insert: the constraints keep names apart; an ID that was drawn      *)
(* before counts as moved, and nothing refers to one that was not.         *)
LEMMA InsertUserInv ==
  ASSUME IInv, NEW q \in Req, InsertUser(q) PROVE IInv'
<1> USE Parts
<1>1. /\ UNCHANGED <<otp, mail, effects, faults>> /\ faults' \in 0..MaxFaults
      /\ At(q, "insert") /\ req[q].op \in Creating
      /\ req[q].name \in Name /\ req[q].email \in Email
  BY DEF InsertUser, TypeOK, LocalsOK, RequestOK, At
<1>2. CASE Return(q) /\ UNCHANGED <<row, taken, moved>>
  BY <1>1, <1>2, ReturnInv DEF ghosts
<1>3. ASSUME NEW i \in Id, ~Exists(i), Unique(i, req[q].name, req[q].email),
             row' = [row EXCEPT ![i] =
                       [name |-> req[q].name, email |-> req[q].email,
                        verified |-> FALSE, deleted |-> FALSE, reset |-> FALSE]],
             req' = [req EXCEPT ![q].pc = "otp", ![q].id = i,
                                ![q].purpose = "verify"],
             taken' = taken \cup {i},
             moved' = IF i \in taken THEN moved \cup {i} ELSE moved
      PROVE  IInv'
  <2>1. PICK new \in Row :
          /\ row' = [row EXCEPT ![i] = new]
          /\ new.name = req[q].name /\ new.email = req[q].email
          /\ new.verified = FALSE
    <3> DEFINE new == [name |-> req[q].name, email |-> req[q].email,
                       verified |-> FALSE, deleted |-> FALSE, reset |-> FALSE]
    <3>1. new \in Row BY <1>1 DEF Row
    <3>2. QED BY <1>3, <3>1
  <2>2. PICK r \in Request :
          /\ req' = [req EXCEPT ![q] = r]
          /\ r.pc = "otp" /\ r.id = i /\ r.purpose = "verify"
          /\ r.op = req[q].op /\ r.email = req[q].email
          /\ r.name = req[q].name /\ r.orig = req[q].orig
    <3> DEFINE r == [req[q] EXCEPT !.pc = "otp", !.id = i, !.purpose = "verify"]
    <3>1. /\ r \in Request
          /\ r.pc = "otp" /\ r.id = i /\ r.purpose = "verify"
          /\ r.op = req[q].op /\ r.email = req[q].email
          /\ r.name = req[q].name /\ r.orig = req[q].orig
      BY DEF TypeOK, Request, Label, Purpose
    <3>2. req' = [req EXCEPT ![q] = r] BY <1>3 DEF TypeOK, Request
    <3>3. QED BY <3>1, <3>2
  <2>3. RequestOK(r) /\ r.op \notin Purpose \cup {"update"}
    BY <1>1, <2>2 DEF RequestOK, Creating, Mailing, Purpose
  <2>4. /\ req' \in [Req -> Request] /\ req'[q] = r
        /\ \A p \in Req \ {q} : req'[p] = req[p]
        /\ LocalsOK'
    BY <2>2, <2>3, Become
  <2>5. /\ row' \in [Id -> Row \cup {NoRow}] /\ row'[i] = new
        /\ \A j \in Id \ {i} : row'[j] = row[j]
    BY <2>1 DEF TypeOK
  <2>6. TypeOK' BY <1>1, <1>3, <2>4, <2>5 DEF TypeOK
  <2>7. \A p \in Req, t \in Otp :
          /\ Writes(p, t)' => Writes(p, t)
          /\ Mails(p, t)' => Mails(p, t)
    BY <2>2, <2>4 DEF Writes, Mails, At
  <2>8. LinkOnce' BY <1>1, <1>3, <2>7 DEF LinkOnce
  <2>9. IdsDrawn' BY <1>1, <1>3, <2>2, <2>3, <2>4, <2>5 DEF IdsDrawn, Exists
  <2>10. \A j \in Id \ {i} : Settled(j)' => Settled(j)
    BY <1>3, <2>5 DEF Settled, Exists
  <2>11. Settled(i)' => i \notin taken BY <1>3 DEF Settled
  <2>12. MailsTrue'
    <3>1. ASSUME NEW m \in mail
          PROVE  /\ otp[m.otp] # NoOtp =>
                      otp[m.otp] = [purpose |-> m.purpose, id |-> m.id]
                 /\ Settled(m.id)' => row'[m.id].email = m.to
      BY <2>5, <2>10, <2>11 DEF MailsTrue, IdsDrawn, TypeOK
    <3>2. ASSUME NEW p \in Req
          PROVE  /\ At(p, "send")' /\ otp[req'[p].otp] # NoOtp =>
                      otp[req'[p].otp] =
                        [purpose |-> req'[p].purpose, id |-> req'[p].id]
                 /\ req'[p].pc \in {"otp", "send"} =>
                      \A j \in Id : j = req'[p].id /\ Settled(j)' =>
                        row'[j].email = req'[p].email
      <4>1. CASE p = q BY <4>1, <2>1, <2>2, <2>4, <2>5 DEF At
      <4>2. CASE p # q
        <5>1. req'[p] = req[p] BY <4>2, <2>4
        <5>2. req[p].pc \in {"otp", "send"} =>
                req[p].id \in Id \cap taken
          BY DEF IdsDrawn, LocalsOK, RequestOK
        <5>3. QED BY <5>1, <5>2, <2>5, <2>10, <2>11 DEF MailsTrue, At
      <4>3. QED BY <4>1, <4>2
    <3>3. \A p \in Req : req'[p].pc \in {"otp", "send"} => req'[p].id \in Id
      BY <2>4 DEF LocalsOK, RequestOK
    <3>4. QED BY <3>1, <3>2, <3>3, <1>1 DEF MailsTrue, At, Settled, Exists
  <2>13. Verifying' BY <1>1, <2>2, <2>4 DEF Verifying, At, Mailed
  <2>14. NamesUnique'
    BY <1>1, <1>3, <2>1, <2>5, NoRowAssumption
       DEF NamesUnique, Exists, Unique, Holder
  <2>15. LinkWorksOnce' BY <1>1 DEF LinkWorksOnce
  <2>16. VerifiedByMail'
    BY <1>1, <1>3, <2>1, <2>5, <2>10 DEF VerifiedByMail, Settled, Exists
  <2>17. QED BY <2>4, <2>6, <2>8, <2>9, <2>12, <2>13, <2>14, <2>15, <2>16, PTL
<1>4. QED BY <1>2, <1>3 DEF InsertUser

(* A drawn token is new: no mail and no request names it.                  *)
LEMMA SetTokenInv ==
  ASSUME IInv, NEW q \in Req, NEW t \in Otp, SetToken(q, t) PROVE IInv'
<1> USE Parts DEF SetToken
<1>1. /\ UNCHANGED <<row, mail, moved, effects, faults>>
      /\ taken' = taken \cup {t} /\ t \notin taken
      /\ At(q, "otp") /\ RequestOK(req[q])
      /\ otp' = [otp EXCEPT ![t] = [purpose |-> req[q].purpose,
                                    id |-> req[q].id]]
  BY DEF LocalsOK
<1>2. /\ req[q].op \in Mailing /\ req[q].purpose \in Purpose
      /\ req[q].email \in Email /\ req[q].id \in Id \cap taken
  BY <1>1 DEF RequestOK, At, IdsDrawn
<1>3. PICK r \in Request :
        /\ req' = [req EXCEPT ![q] = r]
        /\ r.pc = "send" /\ r.otp = t /\ r.op = req[q].op
        /\ r.id = req[q].id /\ r.purpose = req[q].purpose
        /\ r.name = req[q].name /\ r.email = req[q].email
  <2> DEFINE r == [req[q] EXCEPT !.pc = "send", !.otp = t]
  <2>1. /\ r \in Request
        /\ r.pc = "send" /\ r.otp = t /\ r.op = req[q].op
        /\ r.id = req[q].id /\ r.purpose = req[q].purpose
        /\ r.name = req[q].name /\ r.email = req[q].email
    BY DEF TypeOK, Request, Label
  <2>2. req' = [req EXCEPT ![q] = r] BY DEF TypeOK, Request
  <2>3. QED BY <2>1, <2>2
<1> HIDE DEF SetToken
<1>4. RequestOK(r) /\ r.op # "update" /\ r.op \notin Purpose
  BY <1>1, <1>2, <1>3 DEF RequestOK, Mailing, Creating, Purpose
<1>5. /\ req' \in [Req -> Request] /\ req'[q] = r
      /\ \A p \in Req \ {q} : req'[p] = req[p]
      /\ LocalsOK'
  BY <1>3, <1>4, Become
<1>6. /\ otp' \in [Otp -> [purpose : Purpose, id : Id] \cup {NoOtp}]
      /\ otp'[t] = [purpose |-> r.purpose, id |-> r.id]
      /\ \A u \in Otp \ {t} : otp'[u] = otp[u]
  BY <1>1, <1>2, <1>3 DEF TypeOK
<1>7. TypeOK' BY <1>1, <1>5, <1>6 DEF TypeOK
<1>8. \A p \in Req, u \in Otp :
        /\ Writes(p, u)' => Writes(p, u)
        /\ Mails(p, u)' => Mails(p, u) \/ u = t
  BY <1>3, <1>5 DEF Writes, Mails, At
<1>9. LinkOnce' BY <1>1, <1>6, <1>8 DEF LinkOnce
<1>10. IdsDrawn'
  BY <1>1, <1>2, <1>3, <1>4, <1>5, <1>6 DEF IdsDrawn, Exists
<1>11. \A i \in Id : Settled(i)' <=> Settled(i)
  BY <1>1 DEF Settled, Exists
<1>12. MailsTrue'
  <2>1. \A m \in mail : m.otp # t BY <1>1 DEF LinkOnce
  <2>2. \A p \in Req \ {q} : At(p, "send") => req[p].otp # t
    BY <1>1 DEF LinkOnce, Mails
  <2>3. \A p \in Req : At(p, "send") => req[p].otp \in Otp
    BY DEF LocalsOK, RequestOK, At
  <2>4. QED
    BY <1>1, <1>3, <1>5, <1>6, <1>11, <2>1, <2>2, <2>3
       DEF MailsTrue, At, Settled, Exists, TypeOK
<1>13. Verifying' BY <1>1, <1>3, <1>5 DEF Verifying, At, Mailed
<1>14. NamesUnique' /\ LinkWorksOnce' /\ VerifiedByMail'
  BY <1>1 DEF NamesUnique, LinkWorksOnce, VerifiedByMail, Exists
<1>15. QED BY <1>5, <1>7, <1>9, <1>10, <1>12, <1>13, <1>14, PTL

(* The mail says what the key says.                                        *)
LEMMA SendInv ==
  ASSUME IInv, NEW q \in Req, Send(q) PROVE IInv'
<1> USE Parts
<1> DEFINE m == [otp |-> req[q].otp, purpose |-> req[q].purpose,
                 id |-> req[q].id, to |-> req[q].email]
<1>1. /\ UNCHANGED <<row, otp, taken, moved, effects, faults>>
      /\ mail' = mail \cup {m} /\ At(q, "send")
      /\ req' = [req EXCEPT ![q] = NoRequest]
  BY DEF Send, Return, ghosts
<1>2. PICK n \in [otp : Otp, purpose : Purpose, id : Id, to : Email] :
        /\ n = m /\ n.otp \in taken /\ n.id \in taken
        /\ n.otp = req[q].otp /\ n.purpose = req[q].purpose
        /\ n.id = req[q].id /\ n.to = req[q].email
  <2>1. /\ req[q].purpose \in Purpose /\ req[q].email \in Email
        /\ req[q].otp \in Otp \cap taken /\ req[q].id \in Id \cap taken
    BY <1>1 DEF LocalsOK, RequestOK, At, IdsDrawn, LinkOnce, Mails
  <2>2. m \in [otp : Otp, purpose : Purpose, id : Id, to : Email] BY <2>1
  <2>3. QED BY <2>1, <2>2
<1> HIDE DEF m
<1>3. mail' = mail \cup {n} BY <1>1, <1>2
<1>4. /\ req' \in [Req -> Request] /\ req'[q] = NoRequest
      /\ \A p \in Req \ {q} : req'[p] = req[p]
      /\ LocalsOK'
  BY <1>1, Idle, Become
<1>5. NoRequest.pc = "idle" /\ NoRequest.op = "none" BY DEF NoRequest
<1>6. TypeOK' BY <1>1, <1>2, <1>3, <1>4 DEF TypeOK
<1>7. \A p \in Req, u \in Otp :
        /\ Writes(p, u)' => Writes(p, u)
        /\ Mails(p, u)' => Mails(p, u)
  BY <1>4, <1>5 DEF Writes, Mails, At
<1>8. LinkOnce' BY <1>1, <1>2, <1>3, <1>7 DEF LinkOnce
<1>9. IdsDrawn' BY <1>1, <1>2, <1>3, <1>4, <1>5 DEF IdsDrawn, Exists
<1>10. MailsTrue'
  <2>1. /\ otp[n.otp] # NoOtp => otp[n.otp] = [purpose |-> n.purpose,
                                               id |-> n.id]
        /\ Settled(n.id) => row[n.id].email = n.to
    BY <1>1, <1>2 DEF MailsTrue, At
  <2>2. QED
    BY <1>1, <1>3, <1>4, <1>5, <2>1 DEF MailsTrue, At, Settled, Exists
<1>11. Verifying' BY <1>1, <1>4, <1>5 DEF Verifying, At, Mailed
<1>12. NamesUnique' /\ LinkWorksOnce'
  BY <1>1 DEF NamesUnique, LinkWorksOnce, Exists
<1>13. VerifiedByMail' BY <1>1, <1>3 DEF VerifiedByMail, Exists
<1>14. QED BY <1>4, <1>6, <1>8, <1>9, <1>10, <1>11, <1>12, <1>13, PTL

(* GetDel hands the link to one request.                                   *)
LEMMA UseLinkInv ==
  ASSUME IInv, NEW q \in Req, NEW purpose \in Purpose, NEW m \in mail,
         UseLink(q, purpose, m.otp)
  PROVE  IInv'
<1> USE Parts
<1>1. PICK t \in Otp : t = m.otp BY DEF TypeOK
<1>2. PICK i \in Id : otp[t] = [purpose |-> purpose, id |-> i]
  BY <1>1 DEF UseLink, TypeOK, NoOtp, Purpose
<1> DEFINE r == [NoRequest EXCEPT !.op = purpose, !.pc = "write",
                                  !.id = i, !.otp = t]
<1>3. /\ r \in Request /\ RequestOK(r) /\ r.pc = "write" /\ r.op = purpose
      /\ r.id = i /\ r.otp = t
  BY DEF Request, RequestOK, NoRequest, Op, Label, Creating, Mailing,
         Changing, Purpose
<1>4. req' = [req EXCEPT ![q] = r] BY <1>1, <1>2 DEF UseLink, Begin
<1> HIDE DEF r
<1>5. /\ UNCHANGED <<row, mail, taken, moved, effects, faults>>
      /\ otp' = [otp EXCEPT ![t] = NoOtp]
  BY <1>1 DEF UseLink, ghosts
<1>6. otp[t] # NoOtp BY <1>2 DEF NoOtp, Purpose
<1>7. /\ t \in taken /\ i \in taken /\ effects[t] = 0
      /\ \A p \in Req : ~Writes(p, t)
  BY <1>2, <1>6 DEF LinkOnce, IdsDrawn
<1>8. /\ req' \in [Req -> Request] /\ req'[q] = r
      /\ \A p \in Req \ {q} : req'[p] = req[p]
      /\ LocalsOK'
  BY <1>3, <1>4, Become
<1>9. /\ otp' \in [Otp -> [purpose : Purpose, id : Id] \cup {NoOtp}]
      /\ otp'[t] = NoOtp
      /\ \A u \in Otp \ {t} : otp'[u] = otp[u]
  BY <1>5 DEF TypeOK
<1>10. TypeOK' BY <1>5, <1>8, <1>9 DEF TypeOK
<1>11. \A p \in Req, u \in Otp :
         /\ Writes(p, u)' => Writes(p, u) \/ (p = q /\ u = t)
         /\ Mails(p, u)' => Mails(p, u)
  BY <1>3, <1>8 DEF Writes, Mails, At
<1>12. LinkOnce' BY <1>5, <1>7, <1>9, <1>11 DEF LinkOnce
<1>13. IdsDrawn' BY <1>3, <1>5, <1>7, <1>8, <1>9 DEF IdsDrawn, Exists
<1>14. MailsTrue'
  <2>1. \A p \in Req : At(p, "send") => req[p].otp \in Otp
    BY DEF LocalsOK, RequestOK, At
  <2>2. QED
    BY <1>3, <1>5, <1>8, <1>9, <2>1
       DEF MailsTrue, At, Settled, Exists, TypeOK
<1>15. Verifying'
  <2>1. otp[t].purpose = purpose /\ otp[t].id = i BY <1>2
  <2>2. otp[t] = [purpose |-> m.purpose, id |-> m.id]
    BY <1>1, <1>6 DEF MailsTrue
  <2>3. otp[t].purpose = m.purpose /\ otp[t].id = m.id BY <2>2
  <2>4. m.purpose = purpose /\ m.id = i BY <2>1, <2>3
  <2>5. QED BY <1>3, <1>5, <1>8, <2>4 DEF Verifying, At, Mailed
<1>16. NamesUnique' /\ LinkWorksOnce' /\ VerifiedByMail'
  BY <1>5 DEF NamesUnique, LinkWorksOnce, VerifiedByMail, Exists
<1>17. QED
  BY <1>8, <1>10, <1>12, <1>13, <1>14, <1>15, <1>16, PTL

(* A write sets the fields its operation is about and keeps the others.    *)
LEMMA WrittenRow ==
  ASSUME NEW r \in Request, RequestOK(r), r.pc = "write", NEW old \in Row
  PROVE  /\ Written(r, old) \in Row
         /\ Written(r, old).verified = (old.verified \/ r.op = "verify")
         /\ Written(r, old).reset = (old.reset \/ r.op = "reset")
         /\ r.op \notin {"delete", "restore"} =>
              Written(r, old).deleted = old.deleted
<1>1. r.op \in {"update", "delete", "restore", "verify", "reset"}
  BY DEF RequestOK, Changing, Purpose
<1>2. CASE r.op = "update"
  <2>1. Written(r, old) = Renamed(r, old)
    BY <1>2 DEF Written, Written_Set
  <2>2. /\ Renamed(r, old) \in Row
        /\ Renamed(r, old).verified = old.verified
        /\ Renamed(r, old).reset = old.reset
        /\ Renamed(r, old).deleted = old.deleted
    BY DEF Renamed, Row, Request
  <2>3. QED BY <1>2, <2>1, <2>2 DEF Row
<1>3. CASE r.op = "delete" BY <1>3 DEF Written, Written_Set, Row
<1>4. CASE r.op = "restore" BY <1>4 DEF Written, Written_Set, Row
<1>5. CASE r.op = "verify" BY <1>5 DEF Written, Written_Set, Row
<1>6. CASE r.op = "reset" BY <1>6 DEF Written, Written_Set, Row
<1>7. QED BY <1>1, <1>2, <1>3, <1>4, <1>5, <1>6

(* The update statement: the row as it then is, constraints and all.       *)
LEMMA WriteUserInv ==
  ASSUME IInv, NEW q \in Req, WriteUser(q) PROVE IInv'
<1> USE Parts
<1>1. PICK r \in Request : r = req[q] BY DEF TypeOK
<1>2. /\ UNCHANGED <<otp, mail, taken, faults>> /\ faults' \in 0..MaxFaults
      /\ RequestOK(r) /\ r.pc = "write" /\ At(q, "write") /\ Return(q)
  BY <1>1 DEF WriteUser, LocalsOK, TypeOK, At
<1>3. PICK i \in Id : i = r.id BY <1>2 DEF RequestOK
<1>4. CASE UNCHANGED <<row, moved, effects>>
  BY <1>2, <1>4, ReturnInv DEF ghosts
<1>5. ASSUME Exists(i), NEW new, new = Written(r, row[i]),
             Unique(i, new.name, new.email),
             row' = [row EXCEPT ![i] = new],
             moved' = IF new.email # row[i].email THEN moved \cup {i}
                      ELSE moved,
             effects' = IF r.op \in Purpose
                          THEN [effects EXCEPT ![r.otp] = @ + 1] ELSE effects
      PROVE  IInv'
  <2>1. row[i] \in Row BY <1>5 DEF Exists, TypeOK
  <2>2. new \in Row /\ new.verified = (row[i].verified \/ r.op = "verify")
    BY <1>2, <1>5, <2>1, WrittenRow
  <2>3. /\ req' \in [Req -> Request] /\ req'[q] = NoRequest
        /\ \A p \in Req \ {q} : req'[p] = req[p]
        /\ LocalsOK'
    BY <1>2, Idle, Become DEF Return
  <2>4. NoRequest.pc = "idle" /\ NoRequest.op = "none" BY DEF NoRequest
  <2>5. /\ row' \in [Id -> Row \cup {NoRow}] /\ row'[i] = new
        /\ \A j \in Id \ {i} : row'[j] = row[j]
    BY <1>5, <2>2 DEF TypeOK
  <2>6. r.op \in Purpose => r.otp \in Otp BY <1>2 DEF RequestOK
  <2>7. TypeOK' BY <1>2, <1>5, <2>3, <2>5, <2>6 DEF TypeOK
  <2>8. \A p \in Req, u \in Otp :
          /\ Writes(p, u)' => Writes(p, u) /\ p # q
          /\ Mails(p, u)' => Mails(p, u)
    BY <2>3, <2>4 DEF Writes, Mails, At
  <2>9. \A u \in Otp : effects'[u] = effects[u]
                         \/ (Writes(q, u) /\ effects'[u] = effects[u] + 1)
    BY <1>1, <1>2, <1>5, <2>6 DEF TypeOK, Writes
  <2>10. LinkOnce'
    BY <1>2, <2>8, <2>9 DEF LinkOnce
  <2>11. LinkWorksOnce'
    BY <2>9 DEF LinkOnce, LinkWorksOnce, TypeOK
  <2>12. i \in taken BY <1>5 DEF IdsDrawn
  <2>13. IdsDrawn' BY <1>2, <2>3, <2>4, <2>5, <2>12 DEF IdsDrawn, Exists
  <2>14. \A j \in Id :
           Settled(j)' => Settled(j) /\ row'[j].email = row[j].email
    BY <1>5, <2>5 DEF Settled, Exists
  <2>15. MailsTrue'
    <3>1. \A m \in mail : Settled(m.id)' => row'[m.id].email = m.to
      BY <2>14 DEF MailsTrue, TypeOK
    <3>2. \A p \in Req : req'[p].pc \in {"otp", "send"} =>
            p # q /\ req'[p] = req[p] /\ req[p].id \in Id
      <4>1. \A p \in Req : req[p].pc \in {"otp", "send"} => req[p].id \in Id
        BY DEF LocalsOK, RequestOK
      <4>2. QED BY <2>3, <2>4, <4>1
    <3>3. \A p \in Req : req[p].pc \in {"otp", "send"} =>
            \A j \in Id : j = req[p].id /\ Settled(j)' =>
              row'[j].email = req[p].email
      <4> SUFFICES ASSUME NEW p \in Req, req[p].pc \in {"otp", "send"},
                          NEW j \in Id, j = req[p].id, Settled(j)'
                   PROVE  row'[j].email = req[p].email
        OBVIOUS
      <4>1. Settled(j) /\ row'[j].email = row[j].email BY <2>14
      <4>2. Settled(req[p].id) BY <4>1
      <4>3. QED BY <4>1, <4>2 DEF MailsTrue
    <3>4. QED BY <1>2, <3>1, <3>2, <3>3 DEF MailsTrue, At, Settled, Exists
  <2>16. Verifying' BY <1>2, <2>3, <2>4 DEF Verifying, At, Mailed
  <2>17. NamesUnique'
    BY <1>5, <2>5, NoRowAssumption DEF NamesUnique, Exists, Unique, Holder
  <2>18. VerifiedByMail'
    <3>1. ASSUME NEW j \in Id, Settled(j)', row'[j].verified
          PROVE  \E m \in mail : /\ m.purpose = "verify" /\ m.id = j
                                 /\ m.to = row'[j].email
      <4>1. Settled(j) /\ row'[j].email = row[j].email BY <3>1, <2>14
      <4>2. CASE row[j].verified
        BY <4>1, <4>2 DEF VerifiedByMail, Settled
      <4>3. CASE ~row[j].verified
        <5>1. j = i /\ r.op = "verify" BY <3>1, <4>3, <2>2, <2>5
        <5>2. PICK m \in mail : m.purpose = "verify" /\ m.id = i
          BY <5>1, <1>1, <1>2, <1>3 DEF Verifying, Mailed
        <5>3. row[i].email = m.to BY <4>1, <5>1, <5>2 DEF MailsTrue
        <5>4. QED BY <4>1, <5>1, <5>2, <5>3
      <4>4. QED BY <4>2, <4>3
    <3>2. QED BY <1>2, <3>1 DEF VerifiedByMail, Settled, Exists
  <2>19. QED
    BY <2>3, <2>7, <2>10, <2>11, <2>13, <2>15, <2>16, <2>17, <2>18, PTL
<1>6. QED BY <1>1, <1>3, <1>4, <1>5 DEF WriteUser

(* A purged row and an expired key only take away.                         *)
LEMMA PurgeInv ==
  ASSUME IInv, NEW i \in Id, Purge(i) PROVE IInv'
<1> USE Parts
<1>1. /\ UNCHANGED <<otp, req, mail, taken, moved, effects, faults>>
      /\ row' \in [Id -> Row \cup {NoRow}] /\ row'[i] = NoRow
      /\ \A j \in Id \ {i} : row'[j] = row[j]
  BY DEF Purge, ghosts, TypeOK
<1>2. TypeOK' BY <1>1 DEF TypeOK
<1>3. LocalsOK' BY <1>1 DEF LocalsOK, RequestOK
<1>4. LinkOnce' BY <1>1 DEF LinkOnce, Writes, Mails, At
<1>5. IdsDrawn' BY <1>1 DEF IdsDrawn, Exists
<1>6. \A j \in Id : Exists(j)' => j # i /\ Exists(j) BY <1>1 DEF Exists
<1>7. MailsTrue'
  <2>1. \A q \in Req : req[q].pc \in {"otp", "send"} => req[q].id \in Id
    BY DEF LocalsOK, RequestOK
  <2>2. QED BY <1>1, <2>1 DEF MailsTrue, At, Settled, Exists, TypeOK
<1>8. Verifying' BY <1>1 DEF Verifying, At, Mailed
<1>9. NamesUnique' BY <1>1, <1>6 DEF NamesUnique, Exists
<1>10. LinkWorksOnce' BY <1>1 DEF LinkWorksOnce
<1>11. VerifiedByMail' BY <1>1, <1>6 DEF VerifiedByMail, Exists
<1>12. QED
  BY <1>2, <1>3, <1>4, <1>5, <1>7, <1>8, <1>9, <1>10, <1>11, PTL

LEMMA OtpExpiresInv ==
  ASSUME IInv, NEW t \in Otp, OtpExpires(t) PROVE IInv'
<1> USE Parts
<1>1. /\ UNCHANGED <<row, req, mail, taken, moved, effects, faults>>
      /\ otp' \in [Otp -> [purpose : Purpose, id : Id] \cup {NoOtp}]
      /\ \A u \in Otp : otp'[u] = otp[u] \/ otp'[u] = NoOtp
  BY DEF OtpExpires, ghosts, TypeOK
<1>2. TypeOK' BY <1>1 DEF TypeOK
<1>3. LocalsOK' BY <1>1 DEF LocalsOK, RequestOK
<1>4. LinkOnce' BY <1>1 DEF LinkOnce, Writes, Mails, At
<1>5. IdsDrawn' BY <1>1 DEF IdsDrawn, Exists
<1>6. MailsTrue'
  <2>1. \A q \in Req : At(q, "send") => req[q].otp \in Otp
    BY DEF LocalsOK, RequestOK, At
  <2>2. QED BY <1>1, <2>1 DEF MailsTrue, At, Settled, Exists, TypeOK
<1>7. Verifying' BY <1>1 DEF Verifying, At, Mailed
<1>8. NamesUnique' /\ LinkWorksOnce' /\ VerifiedByMail'
  BY <1>1 DEF NamesUnique, LinkWorksOnce, VerifiedByMail, Exists
<1>9. QED BY <1>2, <1>3, <1>4, <1>5, <1>6, <1>7, <1>8, PTL

-----------------------------------------------------------------------------
LEMMA StepInv == IInv /\ [Next]_vars => IInv'
<1> SUFFICES ASSUME IInv, [Next]_vars PROVE IInv' OBVIOUS
<1>1. ASSUME NEW q \in Req, Arrival(q) PROVE IInv'
  BY <1>1, RegisterInv, UpdateInv, MarkInv, AskLinkInv, UseLinkInv DEF Arrival
<1>2. ASSUME NEW q \in Req, Step(q) PROVE IInv'
  BY <1>2, CheckInv, InsertUserInv, SetTokenInv, SendInv, WriteUserInv DEF Step
<1>3. ASSUME NEW q \in Req, Fault(q) PROVE IInv' BY <1>3, FaultInv
<1>4. CASE \E i \in Id : Purge(i) BY <1>4, PurgeInv
<1>5. CASE \E t \in Otp : OtpExpires(t) BY <1>5, OtpExpiresInv
<1>6. CASE UNCHANGED vars
  <2> USE <1>6, Parts DEF vars, ghosts
  <2>1. TypeOK' /\ LocalsOK' BY DEF TypeOK, LocalsOK, RequestOK
  <2>2. LinkOnce' /\ IdsDrawn'
    BY DEF LinkOnce, Writes, Mails, At, IdsDrawn, Exists
  <2>3. MailsTrue' /\ Verifying'
    BY DEF MailsTrue, Verifying, At, Settled, Exists, Mailed
  <2>4. NamesUnique' /\ LinkWorksOnce' /\ VerifiedByMail'
    BY DEF NamesUnique, LinkWorksOnce, VerifiedByMail, Exists
  <2>5. QED BY <2>1, <2>2, <2>3, <2>4, PTL
<1>7. QED BY <1>1, <1>2, <1>3, <1>4, <1>5, <1>6 DEF Next

(* IInv is inductive.                                                      *)
THEOREM Inductive == Spec => []IInv
<1>1. QED BY InitInv, StepInv, PTL DEF Spec

(* Type correctness, for every number of requests, accounts and tokens.    *)
THEOREM TypeCorrect == Spec => []TypeOK
<1>1. IInv => TypeOK BY Parts
<1>2. QED BY <1>1, Inductive, PTL

(* Whatever sign-ups, updates and restores race, no two accounts, deleted  *)
(* ones included, share a name or an email.                                *)
THEOREM Unambiguous == Spec => []NamesUnique
<1>1. IInv => NamesUnique BY Parts
<1>2. QED BY <1>1, Inductive, PTL

(* A mailed link changes an account at most once, however many requests    *)
(* present it at the same time.                                            *)
THEOREM LinkOnceOnly == Spec => []LinkWorksOnce
<1>1. IInv => LinkWorksOnce BY Parts
<1>2. QED BY <1>1, Inductive, PTL

(* An account is verified only through a link that was mailed to the       *)
(* address it has, outside the recorded exceptions.                        *)
THEOREM VerifiedMailed == Spec => []VerifiedByMail
<1>1. IInv => VerifiedByMail BY Parts
<1>2. QED BY <1>1, Inductive, PTL

(* What a step of the table does to a row that stays: only WriteUser       *)
(* changes one, and only in the fields its operation is about.             *)
LEMMA RowStep ==
  ASSUME IInv, [Next]_vars, NEW i \in Id, Exists(i), row'[i] # NoRow
  PROVE  /\ row[i].verified => row'[i].verified
         /\ row[i].reset => row'[i].reset
         /\ row'[i].deleted # row[i].deleted =>
              \E q \in Req : req[q].op \in {"delete", "restore"}
                              /\ req[q].id = i
<1> USE Parts
<1>1. ASSUME NEW q \in Req, InsertUser(q) PROVE row'[i] = row[i]
  BY <1>1 DEF InsertUser, TypeOK
<1>2. ASSUME NEW q \in Req, WriteUser(q), row'[i] # row[i]
      PROVE  /\ req[q].id = i /\ row[i] \in Row
             /\ row'[i] = Written(req[q], row[i])
             /\ req[q] \in Request /\ RequestOK(req[q])
             /\ req[q].pc = "write"
  <2>1. row[i] \in Row BY DEF TypeOK, Exists
  <2>2. req[q].pc = "write" /\ RequestOK(req[q]) /\ req[q] \in Request
    BY <1>2 DEF WriteUser, At, LocalsOK, TypeOK
  <2>3. req[q].id = i /\ row'[i] = Written(req[q], row[i])
    BY <1>2 DEF WriteUser, TypeOK
  <2>4. QED BY <2>1, <2>2, <2>3
<1>3. ASSUME NEW j \in Id, Purge(j) PROVE row'[i] = row[i]
  BY <1>3 DEF Purge, TypeOK
<1>4. CASE \E q \in Req : WriteUser(q) /\ row'[i] # row[i]
  <2>1. PICK q \in Req : WriteUser(q) /\ row'[i] # row[i] BY <1>4
  <2>2. PICK r \in Request :
          /\ r = req[q] /\ r.id = i /\ RequestOK(r) /\ r.pc = "write"
          /\ row[i] \in Row /\ row'[i] = Written(r, row[i])
    BY <1>2, <2>1
  <2>3. /\ row'[i].verified = (row[i].verified \/ r.op = "verify")
        /\ row'[i].reset = (row[i].reset \/ r.op = "reset")
        /\ r.op \notin {"delete", "restore"} =>
             row'[i].deleted = row[i].deleted
    BY <2>2, WrittenRow
  <2>4. QED BY <2>2, <2>3
<1>5. CASE row'[i] = row[i] BY <1>5
<1>6. ASSUME NEW q \in Req,
             Arrival(q) \/ CheckName(q) \/ CheckEmail(q) \/ Send(q)
               \/ UpdateCheck(q) \/ Fault(q) \/ \E t \in Otp : SetToken(q, t)
      PROVE  row' = row
  BY <1>6 DEF Arrival, Register, Update, Mark, AskLink, UseLink, CheckName,
       CheckEmail, Send, UpdateCheck, Fault, SetToken
<1>7. ASSUME NEW t \in Otp, OtpExpires(t) PROVE row' = row
  BY <1>7 DEF OtpExpires
<1>8. UNCHANGED vars => row' = row BY DEF vars
<1>9. QED
  BY <1>1, <1>3, <1>4, <1>5, <1>6, <1>7, <1>8 DEF Next, Step

(* No write takes back a verification, a reset or a deletion that another  *)
(* request has written since the row was read.                             *)
THEOREM UpdatesKeep == Spec => NoLostUpdate
<1>1. IInv /\ [Next]_vars =>
        [\A i \in Id : Exists(i) /\ row'[i] # NoRow =>
           /\ row[i].verified => row'[i].verified
           /\ row[i].reset => row'[i].reset
           /\ row'[i].deleted # row[i].deleted =>
                \E q \in Req : req[q].op \in {"delete", "restore"}
                                /\ req[q].id = i]_vars
  BY RowStep
<1>2. QED BY <1>1, Inductive, PTL DEF Spec, NoLostUpdate
=============================================================================
