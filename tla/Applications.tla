---------------------------- MODULE Applications ----------------------------
(***************************************************************************)
(* OAuth applications (internal/biz/application.go and its repository,     *)
(* internal/data/application.go), the page that lists them and the one     *)
(* that regenerates a secret (web/iam/src/routes/_app/applications), and   *)
(* the look-ups by which the OpenID Connect provider admits a client       *)
(* (internal/data/oidc_storage.go), one SQL statement per step.            *)
(*                                                                         *)
(* That an exchange of a code reads the client before its secret, and the  *)
(* check of the grant type on the client it has read, are the zitadel/oidc *)
(* library's, which is external.  A secret stands for its hash, too.  The  *)
(* fields that an update sets together are one: whether the grant types    *)
(* let the client ask for tokens.                                          *)
(*                                                                         *)
(* unsure, allowed, replaced and strays, and list.owed, are of record.     *)
(***************************************************************************)
EXTENDS Integers, FiniteSets, Sequences, SequencesExt

CONSTANTS
  App, Secret,
  Req,         \* handlers in flight
  None,
  PageSize,
  MaxLost      \* bound: requests whose answer is lost

ASSUME AppAssumption ==
  /\ None \notin App \cup Secret \cup Nat /\ IsFiniteSet(App)
  /\ MaxLost \in Nat /\ PageSize \in Nat \ {0}

VARIABLES
  row,         \* the table; deleted_at is not null: deleted
  task,        \* the handlers' locals
  drawn,       \* secrets generated so far
  shown,       \* the secret the application's page shows, once
  told,        \* the secrets that clients have been given
  list,        \* a reader of the list, page by page, and the rows it is owed
  lost,
  unsure,      \* applications whose regenerations overlapped or were lost
  allowed,     \* requests that the row allowed at a moment of theirs
  replaced,    \* requests whose secret was good, and was then replaced
  strays       \* clients admitted that never were allowed

table == <<row, allowed, replaced>>      \* with what its changes record
secrets == <<drawn, shown, told>>
vars == <<table, task, secrets, list, lost, unsure, strays>>

Row == [secret : Secret, open : BOOLEAN, at : Nat, deleted : BOOLEAN]
ASSUME RowAssumption == None \notin Row
Label == {"idle", "hash", "answer", "secret", "client"}
NoTask == [pc |-> "idle", app |-> None, secret |-> None]

Live(r) == {a \in App : r[a] # None /\ ~r[a].deleted}
At(q, l) == task[q].pc = l
Goto(q, l) == task' = [task EXCEPT ![q].pc = l]
Start(q, l, a, s) ==
  /\ At(q, "idle")
  /\ task' = [task EXCEPT ![q] = [pc |-> l, app |-> a, secret |-> s]]
Finish(q) == task' = [task EXCEPT ![q] = NoTask]

Allows(r, t) == t.app \in Live(r) /\ r[t.app].open /\ r[t.app].secret = t.secret
(* The table becomes r: requests in flight may be allowed now.             *)
Commit(r) ==
  /\ row' = r
  /\ allowed' = allowed \cup {q \in Req : /\ At(q, "secret") \/ At(q, "client")
                                          /\ Allows(r, task[q])}
  /\ replaced' = replaced \cup
       {q \in Req : At(q, "client") /\ task[q].secret # r[task[q].app].secret}

-----------------------------------------------------------------------------
(* The order of the list: newest first, rows of one time in any order.     *)
Orders ==
  {o \in SetToSeqs(Live(row)) :
     \A i, j \in DOMAIN o : i < j => row[o[i]].at >= row[o[j]].at}
Tied == \E a, b \in Live(row) : a # b /\ row[a].at = row[b].at
Before(a) == {b \in Live(row) : row[b].at >= row[a].at}

Offset(page) == (page - 1) * PageSize

(* How far the pages read so far reach; and whether the page being read is *)
(* taken for the last although it does not reach n rows.                   *)
Covered == Offset(list.page + (IF list.total = None THEN 1 ELSE 0))
EndsShortOf(n) ==
  list.total # None /\ list.total <= list.page * PageSize
                    /\ list.page * PageSize < n

-----------------------------------------------------------------------------
(* Administration: one statement each, on a row that is not deleted.       *)

(* The answer carries the secret, which the page that creates applications *)
(* drops, and clients of the API do not.  The time is taken before the row *)
(* is inserted: rows may appear in another order, and times may be equal.  *)
(* Bound: there are as many times as applications, enough for every order. *)
Create(a, s, b) ==
  /\ row[a] = None /\ s \notin drawn
  /\ drawn' = drawn \cup {s} /\ told' = told \cup {s}
  /\ \E t \in 1..Cardinality(App) :
       Commit([row EXCEPT ![a] =
                 [secret |-> s, open |-> b, at |-> t, deleted |-> FALSE]])
  /\ list' = [list EXCEPT !.owed =
                 IF EndsShortOf(Cardinality(Live(row)) + 1) THEN {} ELSE @]
  /\ UNCHANGED <<task, shown, lost, unsure, strays>>

(* Update, whose second statement reads the row back for the answer.       *)
Update(a, b) ==
  /\ a \in Live(row) /\ row[a].open # b
  /\ Commit([row EXCEPT ![a].open = b])
  /\ UNCHANGED <<task, secrets, list, lost, unsure, strays>>

Delete(a) ==
  /\ a \in Live(row)
  /\ Commit([row EXCEPT ![a].deleted = TRUE])
  /\ list' = [list EXCEPT !.owed =
                 IF Tied \/ Cardinality(Before(a)) <= Covered THEN {} ELSE @ \ {a}]
  /\ UNCHANGED <<task, secrets, lost, unsure, strays>>

Regenerating(a) ==
  {q \in Req : task[q].pc \in {"hash", "answer"} /\ task[q].app = a}

RegenerateClientSecret(q, a, s) ==
  /\ row[a] # None /\ s \notin drawn
  /\ drawn' = drawn \cup {s}
  /\ Start(q, "hash", a, s)
  /\ unsure' = IF Regenerating(a) = {} THEN unsure \ {a} ELSE unsure \cup {a}
  /\ UNCHANGED <<table, shown, told, list, lost, strays>>

(* Variant: the hash is stored after the answer, if at all.                *)
UpdateClientSecretHash_Later(q) ==
  /\ At(q, "hash")
  /\ Goto(q, "answer")
  /\ UNCHANGED <<table, secrets, list, lost, unsure, strays>>

UpdateClientSecretHash(q) ==
  LET t == task[q] IN
  /\ At(q, "hash")
  /\ IF t.app \in Live(row)
       THEN Goto(q, "answer") /\ Commit([row EXCEPT ![t.app].secret = t.secret])
       ELSE Finish(q) /\ UNCHANGED table
  /\ UNCHANGED <<secrets, list, lost, unsure, strays>>

(* The page shows the secret of the answer that came last.                 *)
Regenerated(q) ==
  LET a == task[q].app IN
  /\ At(q, "answer")
  /\ shown' = [shown EXCEPT ![a] = task[q].secret]
  /\ told' = told \cup {task[q].secret}
  /\ Finish(q)
  /\ UNCHANGED <<table, drawn, list, lost, unsure, strays>>

(* A statement fails, or the answer is lost: the page is as it was.        *)
Lost(q) ==
  /\ At(q, "hash") \/ At(q, "answer")
  /\ lost < MaxLost
  /\ lost' = lost + 1
  /\ unsure' = unsure \cup {task[q].app}
  /\ Finish(q)
  /\ UNCHANGED <<table, secrets, list, strays>>

-----------------------------------------------------------------------------
(* A client that was given a secret asks for tokens.  For a code or a      *)
(* refresh token, the client and its grant types are read first, and read  *)
(* again for the secret; with its own credentials, the secret first.       *)

(* The second look-up decides.                                             *)
Admit(q, yes) ==
  /\ strays' = IF yes /\ q \notin allowed \cup replaced
                 THEN strays \cup {task[q].app} ELSE strays
  /\ allowed' = allowed \ {q} /\ replaced' = replaced \ {q}
  /\ Finish(q)
  /\ UNCHANGED <<row, secrets, list, lost, unsure>>

AskTokens(q, l, a, s) ==
  /\ s \in told
  /\ Start(q, l, a, s)
  /\ allowed' = IF Allows(row, [app |-> a, secret |-> s])
                  THEN allowed \cup {q} ELSE allowed
  /\ UNCHANGED <<row, secrets, list, lost, unsure, replaced, strays>>

GetClientByClientID(q, a, s) ==
  /\ a \in Live(row) /\ row[a].open
  /\ AskTokens(q, "secret", a, s)

(* Variant: the secret of any application will do.                         *)
AuthorizeClientIDSecret_Any(q) ==
  LET t == task[q] IN
  At(q, "secret") /\ Admit(q, \E a \in Live(row) : row[a].secret = t.secret)

AuthorizeClientIDSecret(q) ==
  LET t == task[q] IN
  At(q, "secret") /\ Admit(q, t.app \in Live(row) /\ row[t.app].secret = t.secret)

ClientCredentials(q, a, s) ==
  /\ a \in Live(row) /\ row[a].secret = s
  /\ AskTokens(q, "client", a, s)

ReadClient(q) ==
  LET a == task[q].app IN
  At(q, "client") /\ Admit(q, a \in Live(row) /\ row[a].open)

-----------------------------------------------------------------------------
(* The list, page by page.  The total of a page is counted by a statement  *)
(* of its own, before the rows.                                            *)
NoList == [page |-> 0, total |-> None, owed |-> {}]

ListCount ==
  /\ list.total = None
  /\ list' = [page |-> list.page + 1, total |-> Cardinality(Live(row)),
              owed |-> IF list.page = 0 THEN Live(row) ELSE list.owed]
  /\ UNCHANGED <<table, task, secrets, lost, unsure, strays>>

OnPage(o) ==
  LET from == Offset(list.page) IN
  {o[i] : i \in (from + 1)..(from + PageSize) \cap DOMAIN o}

(* Variant: a page with nothing new on it is taken for the end.            *)
ListPage_NoNews ==
  /\ list.total # None
  /\ \E o \in Orders :
       list' = [page |-> IF /\ list.page * PageSize < list.total
                            /\ OnPage(o) \cap list.owed # {}
                           THEN list.page ELSE 0,
                total |-> None,
                owed |-> IF Tied THEN {} ELSE list.owed \ OnPage(o)]
  /\ UNCHANGED <<table, task, secrets, lost, unsure, strays>>

(* The reader goes on as long as the total says that there is more, and    *)
(* begins again.                                                           *)
ListPage ==
  /\ list.total # None
  /\ \E o \in Orders :
       list' = [page |-> IF list.page * PageSize < list.total
                           THEN list.page ELSE 0,
                total |-> None,
                owed |-> IF Tied THEN {} ELSE list.owed \ OnPage(o)]
  /\ UNCHANGED <<table, task, secrets, lost, unsure, strays>>

Init ==
  /\ row = [a \in App |-> None] /\ drawn = {} /\ lost = 0
  /\ task = [q \in Req |-> NoTask]
  /\ shown = [a \in App |-> None] /\ told = {} /\ list = NoList
  /\ unsure = {} /\ allowed = {} /\ replaced = {} /\ strays = {}

Next ==
  \/ \E a \in App :
       \/ \E s \in Secret, b \in BOOLEAN : Create(a, s, b)
       \/ \E b \in BOOLEAN : Update(a, b)
       \/ Delete(a)
       \/ \E q \in Req, s \in Secret :
            \/ RegenerateClientSecret(q, a, s)
            \/ GetClientByClientID(q, a, s) \/ ClientCredentials(q, a, s)
  \/ \E q \in Req : \/ UpdateClientSecretHash(q) \/ Regenerated(q) \/ Lost(q)
                     \/ AuthorizeClientIDSecret(q) \/ ReadClient(q)
  \/ ListCount \/ ListPage

Spec == Init /\ [][Next]_vars

-----------------------------------------------------------------------------
TypeOK ==
  /\ row \in [App -> Row \cup {None}] /\ drawn \subseteq Secret
  /\ \A a, b \in App : row[a] # None /\ row[b] # None /\ a # b
                          => row[a].secret # row[b].secret
  /\ task \in [Req -> [pc : Label, app : App \cup {None},
                      secret : Secret \cup {None}]]
  /\ shown \in [App -> told \cup {None}] /\ told \subseteq drawn
  /\ list \in [page : Nat, total : Nat \cup {None}, owed : SUBSET App]
  /\ lost \in 0..MaxLost /\ unsure \subseteq App
  /\ allowed \subseteq Req /\ replaced \subseteq Req
  /\ strays \subseteq App

(* "The new client secret (shown only once)" is the one that works: what   *)
(* the page shows when no regeneration is in flight is what the table has, *)
(* unless two of them overlapped or the last one's answer was lost.        *)
ShownWorks ==
  \A a \in Live(row) :
    a \in unsure \/ Regenerating(a) # {} \/ shown[a] \in {None, row[a].secret}

(* A client is admitted only if there was a moment, since its request      *)
(* arrived, at which the row allowed it: not deleted, with the grant type  *)
(* and with the secret presented.  Neither look-up sees all of this, and a *)
(* client that uses its own credentials while its secret is replaced is    *)
(* the exception.                                                          *)
GrantedAtOnce == strays = {}

(* What makes the two inductive.  A task's application has a row; an       *)
(* application without a row has no secret shown.                          *)
Placed ==
  /\ \A q \in Req : ~At(q, "idle") =>
       /\ task[q].app \in App /\ task[q].secret \in Secret
       /\ row[task[q].app] # None
  /\ \A a \in App : row[a] = None => shown[a] = None

(* A secret that is not stored yet is new to everybody.                    *)
Fresh ==
  /\ \A a \in App : row[a] # None => row[a].secret \in drawn
  /\ \A q \in Req :
       /\ task[q].pc \in {"hash", "answer"} => task[q].secret \in drawn
       /\ At(q, "hash") =>
            /\ task[q].secret \notin told
            /\ \A a \in App : row[a] # None => row[a].secret # task[q].secret
            /\ \A r \in Req \ {q} : task[r].pc \in {"hash", "answer"} =>
                                     task[r].secret # task[q].secret

(* A regeneration that nobody disturbs.                                    *)
Calm ==
  \A a \in Live(row) \ unsure : \A q \in Regenerating(a) :
    Regenerating(a) = {q} /\ (At(q, "answer") => row[a].secret = task[q].secret)

(* What the first look-up of a client has seen, and what is left of it.    *)
SecretAsked(q) ==
  LET t == task[q] IN
  At(q, "secret") =>
    t.secret \in told /\ (q \in allowed \/ row[t.app].secret # t.secret)
ClientAsked(q) ==
  LET t == task[q] IN
  At(q, "client") =>
    \/ q \in replaced
    \/ /\ row[t.app].secret = t.secret
       /\ q \in allowed \/ t.app \notin Live(row) \/ ~row[t.app].open
Asked == \A q \in Req : SecretAsked(q) /\ ClientAsked(q)

IInv ==
  TypeOK /\ Placed /\ Fresh /\ Calm /\ Asked /\ ShownWorks /\ GrantedAtOnce

(* Who reads the list to its end has seen every application that was there *)
(* when it began and has not been deleted, whatever is created or deleted  *)
(* meanwhile, but for three cases: a row on a page already read is         *)
(* deleted, and the rest moves up; a row is created between the count and  *)
(* the rows of the last page, and one moves off it; two rows have one      *)
(* time, and their order is open.                                          *)
ListComplete == list.page = 0 => list.owed = {}

(* What makes it inductive: what the reader is owed is still ahead.        *)
Sweep ==
  /\ list.total # None => list.page # 0
  /\ list.owed \subseteq Live(row)
  /\ list.owed # {} => ~EndsShortOf(Cardinality(Live(row)))
  /\ \A a \in list.owed : Cardinality(Before(a)) > Covered
=============================================================================
