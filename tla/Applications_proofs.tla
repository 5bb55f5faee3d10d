------------------------ MODULE Applications_proofs ------------------------
(***************************************************************************)
(* OAuth applications for every number of applications, secrets, requests  *)
(* and lost answers: the secret shown is the one that works, whoever is    *)
(* admitted was allowed at some moment, and who reads the list to its end  *)
(* has seen it all.                                                        *)
(***************************************************************************)
EXTENDS Applications, FiniteSetTheorems, TLAPS

Task == [pc : Label, app : App \cup {None}, secret : Secret \cup {None}]
TaskOK == task \in [Req -> Task]
ListOK ==
  list \in [page : Nat, total : Nat \cup {None}, owed : SUBSET App]
RowOK ==
  /\ row \in [App -> Row \cup {None}] /\ drawn \subseteq Secret
  /\ \A a, b \in App : row[a] # None /\ row[b] # None /\ a # b
                          => row[a].secret # row[b].secret
ToldOK == shown \in [App -> told \cup {None}] /\ told \subseteq drawn
RestOK ==
  /\ lost \in 0..MaxLost /\ unsure \subseteq App
  /\ allowed \subseteq Req /\ replaced \subseteq Req /\ strays \subseteq App

LEMMA Types == TypeOK <=> TaskOK /\ ListOK /\ RowOK /\ ToldOK /\ RestOK
BY DEF TypeOK, Task, TaskOK, ListOK, RowOK, ToldOK, RestOK

(* What a step does to the task of one handler, and to no other.           *)
LEMMA Moves ==
  ASSUME TaskOK, NEW q \in Req
  PROVE  /\ \A l \in Label : Goto(q, l) =>
              /\ TaskOK' /\ task'[q].pc = l
              /\ task'[q].app = task[q].app /\ task'[q].secret = task[q].secret
              /\ \A r \in Req \ {q} : task'[r] = task[r]
         /\ \A l \in Label, a \in App, s \in Secret : Start(q, l, a, s) =>
              /\ task[q].pc = "idle" /\ TaskOK' /\ task'[q].pc = l
              /\ task'[q].app = a /\ task'[q].secret = s
              /\ \A r \in Req \ {q} : task'[r] = task[r]
         /\ Finish(q) =>
              /\ TaskOK' /\ task'[q].pc = "idle"
              /\ \A r \in Req \ {q} : task'[r] = task[r]
<1> USE DEF TaskOK
<1>1. ASSUME NEW l \in Label, Goto(q, l)
      PROVE  /\ TaskOK' /\ task'[q].pc = l
             /\ task'[q].app = task[q].app /\ task'[q].secret = task[q].secret
             /\ \A r \in Req \ {q} : task'[r] = task[r]
  <2>1. task' = [task EXCEPT ![q] = [task[q] EXCEPT !.pc = l]]
    BY <1>1 DEF Goto
  <2>2. /\ [task[q] EXCEPT !.pc = l] \in Task
        /\ [task[q] EXCEPT !.pc = l].pc = l
        /\ [task[q] EXCEPT !.pc = l].app = task[q].app
        /\ [task[q] EXCEPT !.pc = l].secret = task[q].secret
    BY DEF Task
  <2>3. QED BY <2>1, <2>2
<1>2. ASSUME NEW l \in Label, NEW a \in App, NEW s \in Secret, Start(q, l, a, s)
      PROVE  /\ task[q].pc = "idle" /\ TaskOK' /\ task'[q].pc = l
             /\ task'[q].app = a /\ task'[q].secret = s
             /\ \A r \in Req \ {q} : task'[r] = task[r]
  BY <1>2 DEF Start, At, Task
<1>3. ASSUME Finish(q)
      PROVE  /\ TaskOK' /\ task'[q].pc = "idle"
             /\ \A r \in Req \ {q} : task'[r] = task[r]
  BY <1>3 DEF Finish, NoTask, Task, Label
<1>4. QED BY <1>1, <1>2, <1>3

LEMMA CountsOK ==
  ASSUME RowOK
  PROVE  Cardinality(App) \in Nat /\ Cardinality(Live(row)) \in Nat
<1>1. Live(row) \in SUBSET App
  BY DEF Live
<1>2. QED BY <1>1, AppAssumption, FS_Subset, FS_CardinalityType

LEMMA InitInv == Init => IInv
<1> SUFFICES ASSUME Init PROVE IInv OBVIOUS
<1> USE AppAssumption DEF Init
<1>1. TypeOK
  BY DEF TypeOK, NoTask, NoList, Label
<1>2. QED
  BY <1>1
  DEF IInv, Placed, Fresh, Calm, Asked, SecretAsked, ClientAsked,
      ShownWorks, GrantedAtOnce, At, NoTask,
      Regenerating, Live

-----------------------------------------------------------------------------
(* Steps that change only the list, or nothing.                            *)
LEMMA ListSteps ==
  ASSUME IInv,
         ListCount \/ ListPage \/ UNCHANGED vars
  PROVE  IInv'
<1>1. UNCHANGED <<table, task, secrets, lost, unsure, strays>>
  BY DEF ListCount, ListPage, vars
<1>2. TypeOK BY DEF IInv
<1>3. ListOK'
  <2>1. ListOK /\ RowOK /\ Live(row) \subseteq App BY <1>2, Types DEF Live
  <2>2. CASE UNCHANGED vars BY <2>1, <2>2 DEF vars, ListOK
  <2>3. CASE ListCount
    <3>1. Cardinality(Live(row)) \in Nat BY <2>1, CountsOK
    <3>2. QED BY <2>1, <2>3, <3>1 DEF ListCount, ListOK
  <2>4. CASE ListPage
    <3>1. PICK o \in Orders :
            list' = [page |-> IF list.page * PageSize < list.total
                                THEN list.page ELSE 0,
                     total |-> None,
                     owed |-> IF Tied THEN {} ELSE list.owed \ OnPage(o)]
      BY <2>4 DEF ListPage
    <3> DEFINE S == IF Tied THEN {} ELSE list.owed \ OnPage(o)
    <3>2. S \subseteq App BY <2>1 DEF ListOK
    <3> HIDE DEF S
    <3>3. list' = [page |-> IF list.page * PageSize < list.total
                              THEN list.page ELSE 0,
                   total |-> None, owed |-> S]
      BY <3>1 DEF S
    <3>4. QED BY <2>1, <3>2, <3>3 DEF ListOK
  <2>5. QED BY <2>2, <2>3, <2>4
<1>4. TypeOK'
  <2>1. TaskOK /\ RowOK /\ ToldOK /\ RestOK BY <1>2, Types
  <2>2. TaskOK' /\ RowOK' /\ ToldOK' /\ RestOK'
    BY <1>1, <2>1 DEF TaskOK, RowOK, ToldOK, RestOK, table, secrets
  <2>3. QED BY <1>3, <2>2, Types, PTL
<1>5. QED
  BY <1>1, <1>4
  DEF IInv, Placed, Fresh, Calm, Asked, SecretAsked, ClientAsked, ShownWorks,
      GrantedAtOnce, At, Live, Regenerating, table, secrets

-----------------------------------------------------------------------------
(* Steps of the table.  A commit records whom it allows, and whose secret  *)
(* it replaces.                                                            *)
LEMMA Commits ==
  ASSUME RestOK, NEW r, Commit(r), UNCHANGED <<lost, unsure, strays>>
  PROVE  /\ row' = r /\ RestOK' /\ allowed \subseteq allowed'
         /\ replaced \subseteq replaced'
         /\ \A q \in Req : At(q, "client") =>
              q \in replaced' \/ task[q].secret = r[task[q].app].secret
         /\ \A q \in Req :
              At(q, "client") /\ Allows(r, task[q]) => q \in allowed'
BY DEF Commit, RestOK

LEMMA CreateStep ==
  ASSUME IInv, NEW a \in App, NEW s \in Secret, NEW g \in BOOLEAN,
         Create(a, s, g)
  PROVE  IInv'
<1> USE RowAssumption
<1>1. TaskOK /\ ListOK /\ RowOK /\ ToldOK /\ RestOK BY Types DEF IInv
<1>2. PICK t \in 1..Cardinality(App) :
        Commit([row EXCEPT ![a] =
                  [secret |-> s, open |-> g, at |-> t, deleted |-> FALSE]])
  BY DEF Create
<1> DEFINE n == [secret |-> s, open |-> g, at |-> t, deleted |-> FALSE]
           r == [row EXCEPT ![a] = n]
<1>3. n \in Row /\ n.secret = s /\ n # None
  <2>1. t \in Nat BY <1>1, CountsOK
  <2>2. n \in Row BY <2>1 DEF Row
  <2>3. QED BY <2>2
<1>4. /\ UNCHANGED <<task, shown, lost, unsure, strays>>
      /\ row[a] = None /\ s \notin drawn /\ drawn' = drawn \cup {s}
      /\ told' = told \cup {s} /\ ListOK'
  BY <1>1 DEF Create, ListOK
<1> HIDE DEF n
<1>5. /\ row' = r /\ RestOK' /\ allowed \subseteq allowed'
      /\ replaced \subseteq replaced'
  BY <1>1, <1>2, <1>4, Commits DEF n
<1>6. row'[a] = n /\ \A b \in App \ {a} : row'[b] = row[b]
  BY <1>1, <1>5 DEF RowOK
<1>7. RowOK' /\ ToldOK' /\ TaskOK' /\ ListOK'
  <2>1. \A b \in App : row[b] # None => row[b].secret \in drawn
    BY DEF IInv, Fresh
  <2>2. RowOK' BY <1>1, <1>3, <1>4, <1>5, <1>6, <2>1 DEF RowOK
  <2>3. ToldOK' BY <1>1, <1>4 DEF ToldOK
  <2>4. QED BY <1>1, <1>4, <2>2, <2>3 DEF TaskOK
<1>8. Live(row) \subseteq App /\ Live(row') \subseteq Live(row) \cup {a}
      /\ a \notin Live(row)
  BY <1>4, <1>6 DEF Live
<1>9. Placed' BY <1>3, <1>4, <1>6 DEF IInv, Placed, At
<1>10. Fresh' BY <1>3, <1>4, <1>6 DEF IInv, Fresh, At
<1>11. Regenerating(a) = {}
  BY <1>4 DEF IInv, Placed, Regenerating, At
<1>12. Calm'
  BY <1>4, <1>6, <1>8, <1>11 DEF IInv, Calm, Regenerating, At
<1>13. Asked'
  <2>1. \A q \in Req : ~At(q, "idle") => task[q].app \in App \ {a}
    BY <1>4 DEF IInv, Placed
  <2>2. \A b \in App \ {a} : b \in Live(row') => b \in Live(row)
    BY <1>8
  <2>3. \A q \in Req : SecretAsked(q)'
    BY <1>4, <1>5, <1>6, <2>1 DEF IInv, Asked, SecretAsked, At
  <2>4. ASSUME NEW q \in Req PROVE ClientAsked(q)'
    <3>1. ClientAsked(q) /\ task' = task
      BY <1>4 DEF IInv, Asked
    <3>2. At(q, "client") => row'[task[q].app] = row[task[q].app]
      BY <1>6, <2>1 DEF At
    <3>3. At(q, "client") => task[q].app \in App \ {a}
      BY <2>1 DEF At
    <3>4. QED BY <1>5, <2>2, <3>1, <3>2, <3>3 DEF ClientAsked, At
  <2>5. QED BY <2>3, <2>4 DEF Asked
<1>14. ShownWorks'
  <2>1. shown[a] = None BY <1>4 DEF IInv, Placed
  <2>2. QED BY <1>4, <1>6, <1>8, <2>1 DEF IInv, ShownWorks, Regenerating
<1>15. GrantedAtOnce' BY <1>4 DEF IInv, GrantedAtOnce
<1>16. QED
  BY <1>5, <1>7, <1>9, <1>10, <1>12, <1>13, <1>14, <1>15, Types, PTL DEF IInv

(* A live row keeps its secret, or is deleted.                             *)
LEMMA ChangeStep ==
  ASSUME IInv, NEW a \in App,
         (\E b \in BOOLEAN : Update(a, b)) \/ Delete(a)
  PROVE  IInv'
<1> USE RowAssumption
<1>1. TaskOK /\ ListOK /\ RowOK /\ ToldOK /\ RestOK BY Types DEF IInv
<1>2. /\ UNCHANGED <<task, drawn, shown, told, lost, unsure, strays>>
      /\ ListOK' /\ a \in Live(row)
  BY <1>1 DEF Update, Delete, ListOK, secrets
<1>3. PICK n \in Row : /\ n.secret = row[a].secret
                      /\ Commit([row EXCEPT ![a] = n])
  <2>1. ASSUME a \in Live(row) PROVE row[a] \in Row
    BY <1>1, <2>1 DEF RowOK, Live
  <2>2. ASSUME NEW b \in BOOLEAN, Update(a, b)
        PROVE  \E n \in Row : /\ n.secret = row[a].secret
                             /\ Commit([row EXCEPT ![a] = n])
    <3>1. [row[a] EXCEPT !.open = b] \in Row
          /\ [row[a] EXCEPT !.open = b].secret = row[a].secret
      BY <2>1, <2>2 DEF Update, Row
    <3>2. QED BY <2>2, <3>1 DEF Update
  <2>3. ASSUME Delete(a)
        PROVE  \E n \in Row : /\ n.secret = row[a].secret
                             /\ Commit([row EXCEPT ![a] = n])
    <3>1. [row[a] EXCEPT !.deleted = TRUE] \in Row
          /\ [row[a] EXCEPT !.deleted = TRUE].secret = row[a].secret
      BY <2>1, <2>3 DEF Delete, Row
    <3>2. QED BY <2>3, <3>1 DEF Delete
  <2>4. QED BY <2>2, <2>3
<1>4. /\ row' = [row EXCEPT ![a] = n] /\ RestOK' /\ allowed \subseteq allowed'
      /\ replaced \subseteq replaced'
      /\ \A q \in Req :
           At(q, "client") /\ Allows(row', task[q]) => q \in allowed'
  BY <1>1, <1>2, <1>3, Commits
<1>5. row'[a] = n /\ n # None /\ \A b \in App \ {a} : row'[b] = row[b]
  BY <1>1, <1>3, <1>4 DEF RowOK
<1>6. Live(row') \subseteq Live(row) /\ Live(row) \subseteq App /\ row[a] # None
  BY <1>2, <1>5 DEF Live
<1>7. \A b \in App :
        /\ row'[b] = None <=> row[b] = None
        /\ row[b] # None => row'[b].secret = row[b].secret
  BY <1>3, <1>5, <1>6
<1>8. RowOK' /\ ToldOK' /\ TaskOK'
  <2>1. row' \in [App -> Row \cup {None}] BY <1>1, <1>4 DEF RowOK
  <2>2. QED BY <1>1, <1>2, <1>7, <2>1 DEF RowOK, ToldOK, TaskOK
<1>9. Placed' /\ Fresh'
  <2>1. Placed' BY <1>2, <1>7 DEF IInv, Placed, At
  <2>2. Fresh' BY <1>2, <1>7 DEF IInv, Fresh, At
  <2>3. QED BY <2>1, <2>2
<1>10. Calm'
  BY <1>2, <1>6, <1>7 DEF IInv, Calm, Regenerating, At, Live
<1>11. Asked'
  <2>1. \A q \in Req : ~At(q, "idle") =>
          task[q].app \in App /\ row[task[q].app] # None
    BY DEF IInv, Placed
  <2>2. \A q \in Req : SecretAsked(q)'
    BY <1>2, <1>4, <1>7, <2>1 DEF IInv, Asked, SecretAsked, At
  <2>3. \A q \in Req : ClientAsked(q)'
    BY <1>2, <1>4, <1>7, <2>1 DEF IInv, Asked, ClientAsked, At, Allows
  <2>4. QED BY <2>2, <2>3 DEF Asked
<1>12. ShownWorks' /\ GrantedAtOnce'
  BY <1>2, <1>6, <1>7
  DEF IInv, ShownWorks, GrantedAtOnce, Regenerating, Live
<1>13. QED
  BY <1>2, <1>4, <1>8, <1>9, <1>10, <1>11, <1>12, Types, PTL DEF IInv

-----------------------------------------------------------------------------
(* Regenerating a secret                                                   *)

LEMMA RegenerateStep ==
  ASSUME IInv, NEW q \in Req, NEW a \in App, NEW s \in Secret,
         RegenerateClientSecret(q, a, s)
  PROVE  IInv'
<1>1. TaskOK /\ ListOK /\ RowOK /\ ToldOK /\ RestOK BY Types DEF IInv
<1>2. /\ UNCHANGED <<row, allowed, replaced, shown, told, list, lost, strays>>
      /\ row[a] # None /\ s \notin drawn /\ drawn' = drawn \cup {s}
      /\ unsure' = IF Regenerating(a) = {} THEN unsure \ {a}
                                            ELSE unsure \cup {a}
      /\ Start(q, "hash", a, s)
  BY DEF RegenerateClientSecret, table
<1>3. /\ task[q].pc = "idle" /\ TaskOK' /\ task'[q].pc = "hash"
      /\ task'[q].app = a /\ task'[q].secret = s
      /\ \A r \in Req \ {q} : task'[r] = task[r]
  BY <1>1, <1>2, Moves DEF Label
<1>4. RowOK' /\ ToldOK' /\ ListOK' /\ RestOK'
  BY <1>1, <1>2 DEF RowOK, ToldOK, ListOK, RestOK
<1>5. Placed' BY <1>2, <1>3 DEF IInv, Placed, At
<1>6. Fresh'
  <2>1. s \notin told BY <1>1, <1>2 DEF ToldOK
  <2>2. QED BY <1>2, <1>3, <2>1 DEF IInv, Fresh, At
<1>7. /\ Regenerating(a)' = Regenerating(a) \cup {q}
      /\ \A b \in App \ {a} : Regenerating(b)' = Regenerating(b)
  BY <1>3 DEF Regenerating
<1>8. Live(row') = Live(row) /\ Live(row) \subseteq App BY <1>2 DEF Live
<1>9. Calm'
  <2>1. ASSUME NEW b \in Live(row), b \notin unsure', NEW r \in Regenerating(b)'
        PROVE  Regenerating(b)' = {r}
               /\ (At(r, "answer")' => row[b].secret = task'[r].secret)
    <3>1. CASE b = a
      <4>1. Regenerating(a) = {} BY <1>2, <2>1, <3>1
      <4>2. r = q BY <1>7, <2>1, <3>1, <4>1
      <4>3. QED BY <1>3, <1>7, <3>1, <4>1, <4>2 DEF At
    <3>2. CASE b # a
      <4>1. b \notin unsure /\ r \in Regenerating(b) /\ r \in Req \ {q}
        BY <1>2, <1>3, <1>7, <1>8, <2>1, <3>2 DEF Regenerating
      <4>2. QED BY <1>3, <1>7, <1>8, <2>1, <3>2, <4>1 DEF IInv, Calm, At
    <3>3. QED BY <3>1, <3>2
  <2>2. QED BY <1>2, <1>8, <2>1 DEF Calm
<1>10. Asked'
  <2>1. \A r \in Req : SecretAsked(r)'
    BY <1>2, <1>3 DEF IInv, Asked, SecretAsked, At
  <2>2. \A r \in Req : ClientAsked(r)'
    BY <1>2, <1>3, <1>8 DEF IInv, Asked, ClientAsked, At
  <2>3. QED BY <2>1, <2>2 DEF Asked
<1>11. ShownWorks' /\ GrantedAtOnce'
  BY <1>2, <1>7, <1>8 DEF IInv, ShownWorks, GrantedAtOnce
<1>12. QED
  BY <1>3, <1>4, <1>5, <1>6, <1>9, <1>10, <1>11, Types, PTL DEF IInv

(* The hash is stored: nobody has the secret yet, and so nobody who is     *)
(* waiting for its second look-up is admitted with it.                     *)
LEMMA StoreStep ==
  ASSUME IInv, NEW q \in Req, UpdateClientSecretHash(q),
         task[q].app \in Live(row)
  PROVE  IInv'
<1> USE RowAssumption
<1> DEFINE a == task[q].app
           s == task[q].secret
<1>1. TaskOK /\ ListOK /\ RowOK /\ ToldOK /\ RestOK BY Types DEF IInv
<1>2. /\ UNCHANGED <<drawn, shown, told, list, lost, unsure, strays>>
      /\ At(q, "hash") /\ Goto(q, "answer")
      /\ Commit([row EXCEPT ![a].secret = s])
  BY DEF UpdateClientSecretHash, secrets
<1>3. a \in App /\ s \in Secret /\ row[a] # None /\ row[a] \in Row
  BY <1>1, <1>2 DEF IInv, Placed, At, RowOK
<1> DEFINE n == [row[a] EXCEPT !.secret = s]
<1>4. n \in Row /\ n.secret = s /\ n.open = row[a].open
      /\ n.deleted = row[a].deleted
  BY <1>3 DEF Row
<1>5. Commit([row EXCEPT ![a] = n]) BY <1>2
<1> HIDE DEF a, s, n
<1>6. /\ row' = [row EXCEPT ![a] = n] /\ RestOK' /\ allowed \subseteq allowed'
      /\ replaced \subseteq replaced'
      /\ \A r \in Req : At(r, "client") =>
           r \in replaced' \/ task[r].secret = row'[task[r].app].secret
      /\ \A r \in Req :
           At(r, "client") /\ Allows(row', task[r]) => r \in allowed'
  BY <1>1, <1>2, <1>5, Commits
<1>7. row'[a] = n /\ n # None /\ \A b \in App \ {a} : row'[b] = row[b]
  BY <1>1, <1>3, <1>4, <1>6 DEF RowOK
<1>8. Live(row') = Live(row) /\ Live(row) \subseteq App /\ a \in Live(row)
  BY <1>3, <1>4, <1>7 DEF Live, a
<1>9. /\ TaskOK' /\ task'[q].pc = "answer"
      /\ task'[q].app = a /\ task'[q].secret = s
      /\ \A r \in Req \ {q} : task'[r] = task[r]
  BY <1>1, <1>2, Moves DEF Label, a, s
<1>10. /\ s \in drawn \ told
       /\ \A b \in App : row[b] # None => row[b].secret # s
       /\ \A r \in Req \ {q} : task[r].pc \in {"hash", "answer"} =>
                                task[r].secret # s
  BY <1>2 DEF IInv, Fresh, At, s
<1>11. RowOK' /\ ToldOK' /\ ListOK'
  <2>1. row' \in [App -> Row \cup {None}] BY <1>1, <1>4, <1>6 DEF RowOK
  <2>2. RowOK' BY <1>1, <1>2, <1>4, <1>7, <1>10, <2>1 DEF RowOK
  <2>3. QED BY <1>1, <1>2, <2>2 DEF ToldOK, ListOK
<1>12. Placed'
  BY <1>2, <1>3, <1>7, <1>9 DEF IInv, Placed, At
<1>13. Fresh'
  BY <1>2, <1>3, <1>4, <1>7, <1>9, <1>10 DEF IInv, Fresh, At
<1>14. \A b \in App : Regenerating(b)' = Regenerating(b)
  BY <1>2, <1>9 DEF Regenerating, At, a
<1>15. Calm'
  <2>1. ASSUME NEW b \in Live(row), b \notin unsure, NEW r \in Regenerating(b)
        PROVE  Regenerating(b) = {r}
               /\ (At(r, "answer")' => row'[b].secret = task'[r].secret)
    <3>1. Regenerating(b) = {r}
          /\ (At(r, "answer") => row[b].secret = task[r].secret)
      BY <2>1 DEF IInv, Calm
    <3>2. CASE r = q
      BY <1>4, <1>7, <1>9, <2>1, <3>1, <3>2 DEF Regenerating, a
    <3>3. CASE r # q
      <4>1. b # a
        BY <1>2, <3>1, <3>3 DEF Regenerating, At, a
      <4>2. QED
        BY <1>7, <1>8, <1>9, <2>1, <3>1, <3>3, <4>1 DEF Regenerating, At
    <3>4. QED BY <3>2, <3>3
  <2>2. QED BY <1>2, <1>8, <1>14, <2>1 DEF Calm
<1>16. Asked'
  <2>1. \A r \in Req : ~At(r, "idle") => task[r].app \in App
    BY DEF IInv, Placed
  <2>2. \A r \in Req : SecretAsked(r)'
    BY <1>2, <1>4, <1>6, <1>7, <1>9, <1>10, <2>1
    DEF IInv, Asked, SecretAsked, At
  <2>3. \A r \in Req : ClientAsked(r)'
    BY <1>6, <1>9, <2>1 DEF ClientAsked, At, Allows
  <2>4. QED BY <2>2, <2>3 DEF Asked
<1>17. ShownWorks'
  <2>1. Regenerating(a) # {} BY <1>2 DEF Regenerating, At, a
  <2>2. QED BY <1>2, <1>7, <1>8, <1>14, <2>1 DEF IInv, ShownWorks
<1>18. GrantedAtOnce' BY <1>2 DEF IInv, GrantedAtOnce
<1>19. QED
  BY <1>6, <1>9, <1>11, <1>12, <1>13, <1>15, <1>16, <1>17, <1>18, Types, PTL
  DEF IInv

(* A regeneration ends: with the answer, lost, or on a deleted row.        *)
LEMMA EndStep ==
  ASSUME IInv, NEW q \in Req,
         \/ Regenerated(q) \/ Lost(q)
         \/ UpdateClientSecretHash(q) /\ task[q].app \notin Live(row)
  PROVE  IInv'
<1>1. TaskOK /\ ListOK /\ RowOK /\ ToldOK /\ RestOK BY Types DEF IInv
<1>2. /\ UNCHANGED <<row, allowed, replaced, drawn, list, strays>>
      /\ Finish(q) /\ task[q].pc \in {"hash", "answer"}
  BY DEF Regenerated, Lost, UpdateClientSecretHash, table, secrets, At
<1>3. PICK a \in App, s \in Secret :
        a = task[q].app /\ s = task[q].secret /\ s \in drawn
  BY <1>2 DEF IInv, Placed, Fresh, At
<1>4. \/ /\ At(q, "answer") /\ shown' = [shown EXCEPT ![a] = s]
         /\ told' = told \cup {s} /\ UNCHANGED <<lost, unsure>>
      \/ /\ UNCHANGED <<shown, told>>
         /\ lost < MaxLost /\ lost' = lost + 1 /\ unsure' = unsure \cup {a}
      \/ /\ UNCHANGED <<shown, told, lost, unsure>> /\ a \notin Live(row)
  BY <1>3 DEF Regenerated, Lost, UpdateClientSecretHash, secrets
<1>5. /\ TaskOK' /\ task'[q].pc = "idle"
      /\ \A r \in Req \ {q} : task'[r] = task[r]
  BY <1>1, <1>2, Moves
<1>6. RestOK' /\ RowOK' /\ ListOK'
  <2>1. lost' \in 0..MaxLost BY <1>1, <1>4, AppAssumption DEF RestOK
  <2>2. unsure' \subseteq App BY <1>1, <1>3, <1>4 DEF RestOK
  <2>3. QED BY <1>1, <1>2, <2>1, <2>2 DEF RestOK, RowOK, ListOK
<1>7. ToldOK' BY <1>1, <1>2, <1>3, <1>4 DEF ToldOK
<1>8. \A b \in App \ {a} : shown'[b] = shown[b]
  BY <1>1, <1>4 DEF ToldOK
<1>9. Placed'
  <2>1. row[a] # None BY <1>2, <1>3 DEF IInv, Placed, At
  <2>2. QED BY <1>2, <1>5, <1>8, <2>1 DEF IInv, Placed, At
<1>10. Fresh'
  <2>1. \A r \in Req \ {q} : At(r, "hash") => task[r].secret \notin told'
    BY <1>2, <1>3, <1>4 DEF IInv, Fresh
  <2>2. QED BY <1>2, <1>5, <2>1 DEF IInv, Fresh, At
<1>11. /\ Regenerating(a)' = Regenerating(a) \ {q} /\ q \in Regenerating(a)
       /\ \A b \in App \ {a} : Regenerating(b)' = Regenerating(b)
  BY <1>2, <1>3, <1>5 DEF Regenerating
<1>12. Live(row') = Live(row) /\ Live(row) \subseteq App BY <1>2 DEF Live
<1>13. unsure \subseteq unsure' BY <1>4
<1>14. Calm'
  <2>1. ASSUME NEW b \in Live(row), b \notin unsure', NEW r \in Regenerating(b)'
        PROVE  Regenerating(b)' = {r}
               /\ (At(r, "answer")' => row[b].secret = task'[r].secret)
    <3>1. r \in Regenerating(b) /\ r \in Req \ {q} /\ b \notin unsure
      BY <1>5, <1>11, <1>12, <1>13, <2>1 DEF Regenerating
    <3>2. Regenerating(b) = {r}
          /\ (At(r, "answer") => row[b].secret = task[r].secret)
      BY <2>1, <3>1 DEF IInv, Calm
    <3>3. QED BY <1>5, <1>11, <1>12, <2>1, <3>1, <3>2 DEF At
  <2>2. QED BY <1>2, <1>12, <2>1 DEF Calm
<1>15. Asked'
  <2>1. \A r \in Req : SecretAsked(r)'
    BY <1>2, <1>4, <1>5 DEF IInv, Asked, SecretAsked, At
  <2>2. \A r \in Req : ClientAsked(r)'
    BY <1>2, <1>5, <1>12 DEF IInv, Asked, ClientAsked, At
  <2>3. QED BY <2>1, <2>2 DEF Asked
<1>16. ShownWorks'
  <2>1. ASSUME a \in Live(row), a \notin unsure', Regenerating(a)' = {}
        PROVE  shown'[a] = row[a].secret
    <3>1. At(q, "answer") /\ shown' = [shown EXCEPT ![a] = s]
          /\ a \notin unsure
      BY <1>4, <2>1
    <3>2. row[a].secret = s BY <1>3, <1>11, <2>1, <3>1 DEF IInv, Calm
    <3>3. QED BY <1>1, <1>3, <3>1, <3>2 DEF ToldOK
  <2>2. ASSUME NEW b \in Live(row), b # a
        PROVE  \/ b \in unsure' \/ Regenerating(b)' # {}
               \/ shown'[b] \in {None, row[b].secret}
    BY <1>8, <1>11, <1>12, <1>13, <2>2 DEF IInv, ShownWorks
  <2>3. QED BY <1>2, <1>12, <2>1, <2>2 DEF ShownWorks
<1>17. GrantedAtOnce' BY <1>2 DEF IInv, GrantedAtOnce
<1>18. QED
  BY <1>5, <1>6, <1>7, <1>9, <1>10, <1>14, <1>15, <1>16, <1>17, Types, PTL
  DEF IInv

-----------------------------------------------------------------------------
(* Clients that ask for tokens                                             *)

(* Steps of them change neither rows nor secrets, nor a regeneration.      *)
LEMMA ClientFrame ==
  ASSUME IInv, NEW q \in Req,
         UNCHANGED <<row, secrets, list, lost, unsure>>,
         TaskOK', RestOK', strays' = {}, Asked',
         task[q].pc \notin {"hash", "answer"},
         task'[q].pc \notin {"hash", "answer"},
         \A r \in Req \ {q} : task'[r] = task[r],
         task'[q].pc = "idle"
           \/ /\ task'[q].app \in App /\ task'[q].secret \in Secret
              /\ row[task'[q].app] # None
  PROVE  IInv'
<1>1. UNCHANGED <<drawn, shown, told>> BY DEF secrets
<1>2. TaskOK /\ ListOK /\ RowOK /\ ToldOK /\ RestOK BY Types DEF IInv
<1>3. RowOK' /\ ToldOK' /\ ListOK' BY <1>1, <1>2 DEF RowOK, ToldOK, ListOK
<1>4. Placed' BY <1>1 DEF IInv, Placed, At
<1>5. Fresh' BY <1>1 DEF IInv, Fresh, At
<1>6. \A b \in App : Regenerating(b)' = Regenerating(b) BY DEF Regenerating
<1>7. Live(row') = Live(row) /\ Live(row) \subseteq App BY DEF Live
<1>8. Calm'
  <2>1. \A b \in App : \A r \in Regenerating(b) : r # q /\ r \in Req
    BY DEF Regenerating
  <2>2. QED BY <1>6, <1>7, <2>1 DEF IInv, Calm, At
<1>9. ShownWorks' BY <1>1, <1>6, <1>7 DEF IInv, ShownWorks
<1>10. TypeOK' BY <1>3, Types, PTL
<1>11. GrantedAtOnce' BY DEF GrantedAtOnce
<1>12. QED BY <1>4, <1>5, <1>8, <1>9, <1>10, <1>11 DEF IInv

LEMMA AskStep ==
  ASSUME IInv, NEW q \in Req, NEW a \in App, NEW s \in Secret,
         GetClientByClientID(q, a, s) \/ ClientCredentials(q, a, s)
  PROVE  IInv'
<1> USE RowAssumption
<1>1. TaskOK /\ RestOK BY Types DEF IInv
<1>2. PICK l \in {"secret", "client"} :
        /\ AskTokens(q, l, a, s) /\ a \in Live(row)
        /\ l = "secret" => row[a].open
        /\ l = "client" => row[a].secret = s
  BY DEF GetClientByClientID, ClientCredentials
<1>3. /\ s \in told /\ Start(q, l, a, s)
      /\ allowed' = IF Allows(row, [app |-> a, secret |-> s])
                      THEN allowed \cup {q} ELSE allowed
      /\ UNCHANGED <<row, secrets, list, lost, unsure, replaced, strays>>
  BY <1>2 DEF AskTokens
<1>4. /\ task[q].pc = "idle" /\ TaskOK' /\ task'[q].pc = l
      /\ task'[q].app = a /\ task'[q].secret = s
      /\ \A r \in Req \ {q} : task'[r] = task[r]
  BY <1>1, <1>2, <1>3, Moves DEF Label
<1>5. RestOK' /\ allowed \subseteq allowed' BY <1>1, <1>3 DEF RestOK
<1>6. row[a] # None /\ (row[a].open /\ row[a].secret = s => q \in allowed')
  BY <1>2, <1>3 DEF Allows, Live
<1>7. strays' = {} BY <1>3 DEF IInv, GrantedAtOnce
<1>8. Asked'
  <2>1. UNCHANGED <<row, told, replaced>> BY <1>3 DEF secrets
  <2>2. Live(row') = Live(row) BY <2>1
  <2>3. \A r \in Req \ {q} : SecretAsked(r)' /\ ClientAsked(r)'
    BY <1>4, <1>5, <2>1, <2>2 DEF IInv, Asked, SecretAsked, ClientAsked, At
  <2>4. SecretAsked(q)' /\ ClientAsked(q)'
    BY <1>2, <1>3, <1>4, <1>6, <2>1 DEF SecretAsked, ClientAsked, At
  <2>5. QED BY <2>3, <2>4 DEF Asked
<1>9. QED
  BY <1>2, <1>3, <1>4, <1>5, <1>6, <1>7, <1>8, ClientFrame

(* The second look-up sees what the record of the first makes up for.      *)
LEMMA AdmitStep ==
  ASSUME IInv, NEW q \in Req, AuthorizeClientIDSecret(q) \/ ReadClient(q)
  PROVE  IInv'
<1>1. TaskOK /\ RestOK BY Types DEF IInv
<1>2. PICK yes \in BOOLEAN :
        /\ Admit(q, yes) /\ task[q].pc \in {"secret", "client"}
        /\ yes => q \in allowed \cup replaced
  <2>1. CASE AuthorizeClientIDSecret(q)
    <3> DEFINE yes == task[q].app \in Live(row)
                       /\ row[task[q].app].secret = task[q].secret
    <3>1. yes \in BOOLEAN /\ At(q, "secret") /\ Admit(q, yes)
      BY <2>1 DEF AuthorizeClientIDSecret
    <3>2. yes => q \in allowed BY <3>1 DEF IInv, Asked, SecretAsked
    <3> HIDE DEF yes
    <3>3. QED BY <3>1, <3>2 DEF At
  <2>2. CASE ReadClient(q)
    <3> DEFINE yes == task[q].app \in Live(row) /\ row[task[q].app].open
    <3>1. yes \in BOOLEAN /\ At(q, "client") /\ Admit(q, yes)
      BY <2>2 DEF ReadClient
    <3>2. yes => q \in allowed \cup replaced
      BY <3>1 DEF IInv, Asked, ClientAsked
    <3> HIDE DEF yes
    <3>3. QED BY <3>1, <3>2 DEF At
  <2>3. QED BY <2>1, <2>2
<1>3. /\ strays' = strays /\ Finish(q)
      /\ allowed' = allowed \ {q} /\ replaced' = replaced \ {q}
      /\ UNCHANGED <<row, secrets, list, lost, unsure>>
  BY <1>2 DEF Admit
<1>4. /\ TaskOK' /\ task'[q].pc = "idle"
      /\ \A r \in Req \ {q} : task'[r] = task[r]
  BY <1>1, <1>3, Moves
<1>5. RestOK' /\ strays' = {} BY <1>1, <1>3 DEF RestOK, IInv, GrantedAtOnce
<1>6. Asked'
  <2>1. UNCHANGED <<row, told>> BY <1>3 DEF secrets
  <2>2. Live(row') = Live(row) BY <2>1
  <2>3. \A r \in Req \ {q} : SecretAsked(r)' /\ ClientAsked(r)'
    BY <1>3, <1>4, <2>1, <2>2 DEF IInv, Asked, SecretAsked, ClientAsked, At
  <2>4. SecretAsked(q)' /\ ClientAsked(q)'
    BY <1>4 DEF SecretAsked, ClientAsked, At
  <2>5. QED BY <2>3, <2>4 DEF Asked
<1>7. QED BY <1>2, <1>3, <1>4, <1>5, <1>6, ClientFrame

-----------------------------------------------------------------------------
LEMMA Inductive == Spec => []IInv
<1>1. ASSUME IInv, [Next]_vars PROVE IInv'
  <2>1. CASE ListCount \/ ListPage \/ UNCHANGED vars BY <1>1, <2>1, ListSteps
  <2>2. ASSUME NEW q \in Req, UpdateClientSecretHash(q) PROVE IInv'
    BY <1>1, <2>2, StoreStep, EndStep
  <2>3. QED
    BY <1>1, <2>1, <2>2, CreateStep, ChangeStep, RegenerateStep, EndStep,
       AskStep, AdmitStep
    DEF Next
<1>2. QED BY <1>1, InitInv, PTL DEF Spec

(* The variables keep their types, and no two applications ever have the   *)
(* same secret.                                                            *)
THEOREM TypeCorrect == Spec => []TypeOK
<1>1. IInv => TypeOK BY DEF IInv
<1>2. QED BY <1>1, Inductive, PTL

(* The secret that the page of an application shows is the one that        *)
(* UpdateClientSecretHash stored last, for any number of regenerations,    *)
(* unless two of them overlapped or an answer was lost.                    *)
THEOREM ShownIsStored == Spec => []ShownWorks
<1>1. IInv => ShownWorks BY DEF IInv
<1>2. QED BY <1>1, Inductive, PTL

(* However updates, deletions and regenerations come between the look-ups  *)
(* of a client (GetClientByClientID, AuthorizeClientIDSecret), it is       *)
(* admitted only if the row allowed it at some moment of the request, but  *)
(* for one with its own credentials whose secret is replaced meanwhile.    *)
THEOREM AdmittedOnce == Spec => []GrantedAtOnce
<1>1. IInv => GrantedAtOnce BY DEF IInv
<1>2. QED BY <1>1, Inductive, PTL

-----------------------------------------------------------------------------
(* The list: what precedes a row is finite, and the row is one of it.      *)
LEMMA BeforeCount ==
  ASSUME RowOK, NEW a \in Live(row)
  PROVE  /\ IsFiniteSet(Live(row)) /\ Before(a) \subseteq Live(row)
         /\ Cardinality(Before(a)) \in 1..Cardinality(Live(row))
         /\ Cardinality(Live(row)) \in Nat
<1>1. Live(row) \in SUBSET App
  BY DEF Live
<1>2. IsFiniteSet(Live(row)) /\ Cardinality(Live(row)) \in Nat
  BY <1>1, AppAssumption, FS_Subset, FS_CardinalityType
<1>3. a \in Before(a) /\ Before(a) \in SUBSET Live(row)
  BY RowAssumption DEF Before, RowOK, Row, Live
<1>4. /\ IsFiniteSet(Before(a)) /\ Cardinality(Before(a)) \in Nat
      /\ Cardinality(Before(a)) <= Cardinality(Live(row))
  BY <1>2, <1>3, FS_Subset, FS_CardinalityType
<1>5. Cardinality(Before(a)) # 0
  BY <1>3, <1>4, FS_EmptySet
<1>6. QED BY <1>2, <1>3, <1>4, <1>5

(* In an order without ties a row stands where the count of its            *)
(* predecessors says.                                                      *)
LEMMA Position ==
  ASSUME RowOK, ~Tied, NEW o \in Orders, NEW a \in Live(row)
  PROVE  \E i \in DOMAIN o : o[i] = a /\ i = Cardinality(Before(a)) /\ i \in Nat
<1> DEFINE n == Cardinality(Live(row))
<1>1. /\ IsFiniteSet(Live(row)) /\ Before(a) \subseteq Live(row) /\ n \in Nat
  BY BeforeCount
<1>2. /\ o \in [1..n -> Live(row)]
      /\ \A i, j \in 1..n : i # j => o[i] # o[j]
      /\ \A i, j \in 1..n : i < j => row[o[i]].at >= row[o[j]].at
  BY DEF Orders, SetToSeqs
<1> HIDE DEF n
<1>3. o \in Injection(1..n, Live(row))
  BY <1>2 DEF Injection, IsInjective
<1>4. Cardinality(1..n) = Cardinality(Live(row))
  BY <1>1, FS_Interval DEF n
<1>5. o \in Surjection(1..n, Live(row))
  BY <1>1, <1>3, <1>4, FS_Injection
<1>6. PICK i \in 1..n : o[i] = a
  BY <1>5 DEF Surjection
<1>7. ASSUME NEW j \in 1..n PROVE o[j] \in Before(a) <=> j <= i
  <2>1. /\ row[o[j]].at \in Nat /\ row[a].at \in Nat
        /\ o[j] \in Live(row)
    BY <1>2, <1>7, RowAssumption DEF RowOK, Row, Live
  <2>2. j # i => row[o[j]].at # row[a].at
    BY <1>2, <1>6, <1>7, <2>1 DEF Tied
  <2>3. CASE j < i
    BY <1>1, <1>2, <1>6, <1>7, <2>1, <2>3 DEF Before
  <2>4. CASE j = i
    BY <1>6, <2>1, <2>4 DEF Before
  <2>5. CASE j > i
    <3>1. row[a].at >= row[o[j]].at
      BY <1>1, <1>2, <1>6, <1>7, <2>5
    <3>2. row[o[j]].at < row[a].at
      BY <2>1, <2>2, <2>5, <3>1, <1>6, <1>1
    <3>3. QED BY <1>1, <2>1, <2>5, <3>2, <1>6 DEF Before
  <2>6. QED BY <1>1, <1>6, <2>3, <2>4, <2>5
<1> DEFINE f == [j \in 1..i |-> o[j]]
<1>8. f \in Injection(1..i, Before(a))
  <2>1. \A j \in 1..i : j \in 1..n /\ o[j] \in Before(a)
    BY <1>1, <1>6, <1>7
  <2>2. f \in [1..i -> Before(a)]
    BY <2>1
  <2>3. \A j, k \in 1..i : f[j] = f[k] => j = k
    BY <1>2, <2>1
  <2>4. QED BY <2>2, <2>3 DEF Injection, IsInjective
<1>9. f \in Surjection(1..i, Before(a))
  <2>1. ASSUME NEW b \in Before(a) PROVE \E j \in 1..i : f[j] = b
    <3>1. PICK j \in 1..n : o[j] = b
      BY <1>1, <1>5 DEF Surjection
    <3>2. j <= i
      BY <1>7, <2>1, <3>1
    <3>3. j \in 1..i /\ f[j] = b
      BY <1>1, <1>6, <3>1, <3>2
    <3>4. QED BY <3>3
  <2>2. QED BY <1>8, <2>1 DEF Surjection, Injection
<1>10. IsFiniteSet(Before(a)) /\ IsFiniteSet(1..i) /\ Cardinality(1..i) = i
  BY <1>1, <1>6, FS_Subset, FS_Interval
<1>11. Cardinality(Before(a)) = i
  <2> HIDE DEF f
  <2>1. Cardinality(1..i) = Cardinality(Before(a))
    BY <1>8, <1>9, <1>10, FS_Injection
  <2>2. QED BY <1>10, <2>1
<1>12. QED BY <1>1, <1>2, <1>6, <1>11

(* A row that is created only pushes the others back.                      *)
LEMMA PushedBack ==
  ASSUME RowOK, RowOK', NEW a \in Live(row), Live(row) \subseteq Live(row'),
         \A b \in Live(row) : row'[b].at = row[b].at
  PROVE  Cardinality(Before(a)) <= Cardinality(Before(a)')
<1>1. Before(a) \in SUBSET Before(a)'
  BY DEF Before
<1>2. Live(row') \in SUBSET App /\ Before(a)' \in SUBSET Live(row')
  BY DEF Live, Before
<1>3. IsFiniteSet(Before(a)')
  BY <1>2, AppAssumption, FS_Subset
<1>4. QED BY <1>1, <1>3, FS_Subset

(* Steps that leave the list and the rows in place.                        *)
LEMMA SweepKept ==
  ASSUME Sweep, ListComplete, UNCHANGED list, Live(row') = Live(row),
         \A b \in Live(row) : row'[b].at = row[b].at
  PROVE  Sweep' /\ ListComplete'
<1>1. \A a \in Live(row) : Before(a)' = Before(a)
  BY DEF Before
<1>2. /\ Covered' = Covered
      /\ EndsShortOf(Cardinality(Live(row)))'
         <=> EndsShortOf(Cardinality(Live(row)))
  BY DEF Covered, EndsShortOf
<1>3. QED BY <1>1, <1>2 DEF Sweep, ListComplete

(* A creation, unless the page being read then ends the list too early.    *)
LEMMA SweepCreate ==
  ASSUME IInv, IInv', Sweep, ListComplete,
         NEW a \in App, NEW s \in Secret, NEW g \in BOOLEAN, Create(a, s, g)
  PROVE  Sweep' /\ ListComplete'
<1>1. RowOK /\ RowOK' /\ ListOK
  BY Types, PTL DEF IInv
<1>2. PICK t \in 1..Cardinality(App) :
        row' = [row EXCEPT ![a] =
                 [secret |-> s, open |-> g, at |-> t, deleted |-> FALSE]]
  BY DEF Create, Commit
<1>3. row[a] = None
  BY DEF Create
<1>4. /\ Live(row') = Live(row) \cup {a} /\ a \notin Live(row)
      /\ \A b \in Live(row) : row'[b].at = row[b].at
  <2> DEFINE n == [secret |-> s, open |-> g, at |-> t, deleted |-> FALSE]
  <2>1. n # None /\ ~n.deleted
    <3>1. Cardinality(App) \in Nat
      BY AppAssumption, FS_CardinalityType
    <3>2. n \in Row
      BY <3>1 DEF Row
    <3>3. QED BY <3>2, RowAssumption
  <2>2. row' = [row EXCEPT ![a] = n]
    BY <1>2
  <2> HIDE DEF n
  <2>3. row'[a] = n /\ \A b \in App \ {a} : row'[b] = row[b]
    BY <1>1, <2>2 DEF RowOK
  <2>4. a \notin Live(row)
    BY <1>3 DEF Live
  <2>5. Live(row') = Live(row) \cup {a}
    BY <2>1, <2>3, <2>4 DEF Live
  <2>6. \A b \in Live(row) : row'[b].at = row[b].at
    BY <2>3, <2>4 DEF Live
  <2>7. QED BY <2>4, <2>5, <2>6
<1>5. /\ Cardinality(Live(row)) \in Nat
      /\ Cardinality(Live(row')) = Cardinality(Live(row)) + 1
  <2>1. Live(row) \in SUBSET App
    BY DEF Live
  <2>2. IsFiniteSet(Live(row)) /\ Cardinality(Live(row)) \in Nat
    BY <2>1, AppAssumption, FS_Subset, FS_CardinalityType
  <2>3. QED BY <1>4, <2>2, FS_AddElement
<1> DEFINE S == IF EndsShortOf(Cardinality(Live(row)) + 1) THEN {} ELSE list.owed
<1>6. list' = [list EXCEPT !.owed = S]
  BY DEF Create
<1>7. list'.page = list.page /\ list'.total = list.total /\ list'.owed = S
  <2> HIDE DEF S
  <2>1. QED BY <1>1, <1>6 DEF ListOK
<1>8. list'.total # None => list'.page # 0
  BY <1>7 DEF Sweep
<1>9. CASE EndsShortOf(Cardinality(Live(row)) + 1)
  BY <1>7, <1>8, <1>9 DEF Sweep, ListComplete
<1>10. CASE ~EndsShortOf(Cardinality(Live(row)) + 1)
  <2>1. list'.owed = list.owed
    BY <1>7, <1>10
  <2>2. ~EndsShortOf(Cardinality(Live(row)))'
    BY <1>5, <1>7, <1>10 DEF EndsShortOf
  <2>3. Covered' = Covered /\ Covered \in Int
    BY <1>1, <1>7, AppAssumption DEF Covered, Offset, ListOK
  <2>4. ASSUME NEW b \in list.owed PROVE Cardinality(Before(b)') > Covered
    <3>1. b \in Live(row) /\ Cardinality(Before(b)) > Covered
      BY DEF Sweep
    <3>2. Cardinality(Before(b)) <= Cardinality(Before(b)')
      BY <1>1, <1>4, <3>1, PushedBack
    <3>3. Cardinality(Before(b)) \in Nat /\ Cardinality(Before(b)') \in Nat
      <4>1. Before(b) \in SUBSET App /\ Before(b)' \in SUBSET App
        BY DEF Before, Live
      <4>2. QED BY <4>1, AppAssumption, FS_Subset, FS_CardinalityType
    <3>4. QED BY <2>3, <3>1, <3>2, <3>3
  <2>5. list.owed \subseteq Live(row')
    BY <1>4 DEF Sweep
  <2>6. QED
    BY <1>7, <1>8, <2>1, <2>2, <2>3, <2>4, <2>5 DEF Sweep, ListComplete
<1>11. QED BY <1>9, <1>10

(* A row is deleted that no page read so far has had: it is gone from      *)
(* before those that the reader is owed, and was still ahead itself.       *)
LEMMA Ahead ==
  ASSUME RowOK, ~Tied, NEW a \in Live(row), NEW b \in Live(row), a # b,
         NEW k \in Int, Cardinality(Before(a)) > k, Cardinality(Before(b)) > k
  PROVE  Cardinality(Before(b) \ {a}) > k
<1>1. /\ IsFiniteSet(Before(a)) /\ IsFiniteSet(Before(b))
      /\ Cardinality(Before(a)) \in Nat /\ Cardinality(Before(b)) \in Nat
  <2>1. Before(a) \in SUBSET App /\ Before(b) \in SUBSET App
    BY DEF Before, Live
  <2>2. QED BY <2>1, AppAssumption, FS_Subset, FS_CardinalityType
<1>2. CASE a \notin Before(b)
  <2>1. Before(b) \ {a} = Before(b)
    BY <1>2
  <2>2. QED BY <2>1
<1>3. CASE a \in Before(b)
  <2>1. \A c \in Live(row) : row[c].at \in Nat
    BY RowAssumption DEF RowOK, Row, Live
  <2>2. row[a].at > row[b].at
    BY <1>3, <2>1 DEF Before, Tied
  <2>3. Before(a) \in SUBSET (Before(b) \ {b}) /\ b \in Before(b)
    BY <2>1, <2>2 DEF Before
  <2>4. /\ Cardinality(Before(b) \ {b}) = Cardinality(Before(b)) - 1
        /\ IsFiniteSet(Before(b) \ {b})
    BY <1>1, <2>3, FS_RemoveElement
  <2>5. Cardinality(Before(a)) <= Cardinality(Before(b)) - 1
    BY <2>3, <2>4, FS_Subset
  <2>6. Cardinality(Before(b) \ {a}) = Cardinality(Before(b)) - 1
    BY <1>1, <1>3, FS_RemoveElement
  <2>7. QED BY <1>1, <2>5, <2>6
<1>4. QED BY <1>2, <1>3

LEMMA SweepDelete ==
  ASSUME IInv, IInv', Sweep, ListComplete, NEW a \in App, Delete(a)
  PROVE  Sweep' /\ ListComplete'
<1>1. RowOK /\ RowOK' /\ ListOK
  BY Types, PTL DEF IInv
<1>2. a \in Live(row) /\ row' = [row EXCEPT ![a].deleted = TRUE]
  BY DEF Delete, Commit
<1>3. /\ Live(row') = Live(row) \ {a}
      /\ \A b \in Live(row') : row'[b].at = row[b].at
  <2> DEFINE n == [row[a] EXCEPT !.deleted = TRUE]
  <2>1. row[a] \in Row
    BY <1>1, <1>2 DEF Live, RowOK
  <2>2. n.deleted /\ row' = [row EXCEPT ![a] = n]
    BY <1>2, <2>1 DEF Row
  <2> HIDE DEF n
  <2>3. row'[a] = n /\ \A b \in App \ {a} : row'[b] = row[b]
    BY <1>1, <2>2 DEF RowOK
  <2>4. QED BY <2>2, <2>3 DEF Live
<1> DEFINE S == IF Tied \/ Cardinality(Before(a)) <= Covered
                  THEN {} ELSE list.owed \ {a}
<1>4. list' = [list EXCEPT !.owed = S]
  BY DEF Delete
<1>5. list'.page = list.page /\ list'.total = list.total /\ list'.owed = S
  <2> HIDE DEF S
  <2>1. QED BY <1>1, <1>4 DEF ListOK
<1>6. list'.total # None => list'.page # 0
  BY <1>5 DEF Sweep
<1>7. list'.page = 0 => list'.owed = {}
  BY <1>5 DEF ListComplete
<1>8. CASE S = {}
  BY <1>5, <1>6, <1>7, <1>8 DEF Sweep, ListComplete
<1>9. CASE S # {}
  <2>1. /\ ~Tied /\ ~(Cardinality(Before(a)) <= Covered)
        /\ S = list.owed \ {a} /\ list.owed # {}
    BY <1>9
  <2> HIDE DEF S
  <2>2. Covered' = Covered /\ Covered \in Int
    BY <1>1, <1>5, AppAssumption DEF Covered, Offset, ListOK
  <2>3. /\ Cardinality(Live(row)) \in Nat /\ Cardinality(Live(row')) \in Nat
        /\ Cardinality(Live(row')) <= Cardinality(Live(row))
    <3>1. Live(row) \in SUBSET App /\ Live(row') \in SUBSET Live(row)
      BY <1>3 DEF Live
    <3>2. IsFiniteSet(Live(row))
      BY <3>1, AppAssumption, FS_Subset
    <3>3. QED BY <3>1, <3>2, FS_Subset, FS_CardinalityType
  <2>4. ~EndsShortOf(Cardinality(Live(row)))'
    <3>1. ~EndsShortOf(Cardinality(Live(row)))
      BY <2>1 DEF Sweep
    <3>2. list.page * PageSize \in Nat
      BY <1>1, AppAssumption DEF ListOK
    <3>3. QED BY <1>5, <2>3, <3>1, <3>2 DEF EndsShortOf
  <2>5. ASSUME NEW b \in S PROVE b \in Live(row') /\ Cardinality(Before(b)') > Covered
    <3>1. b \in Live(row) /\ b # a /\ Cardinality(Before(b)) > Covered
      BY <2>1 DEF Sweep
    <3>2. Before(b)' = Before(b) \ {a}
      BY <1>3, <3>1 DEF Before
    <3>3. Cardinality(Before(a)) > Covered
      BY <1>1, <1>2, <2>1, <2>2, BeforeCount
    <3>4. Cardinality(Before(b) \ {a}) > Covered
      BY <1>1, <1>2, <2>1, <2>2, <3>1, <3>3, Ahead
    <3>5. QED BY <1>3, <3>1, <3>2, <3>4
  <2>6. QED BY <1>5, <1>6, <1>7, <2>2, <2>4, <2>5 DEF Sweep, ListComplete
<1>10. QED BY <1>8, <1>9

(* The reader takes the next page: what it is owed and not shown is still  *)
(* ahead, so that there is a next page.                                    *)
LEMMA SweepPage ==
  ASSUME IInv, Sweep, ListComplete, ListPage
  PROVE  Sweep' /\ ListComplete'
<1> DEFINE k == list.page * PageSize
<1>1. PICK o \in Orders :
        list' = [page |-> IF k < list.total THEN list.page ELSE 0,
                 total |-> None,
                 owed |-> IF Tied THEN {} ELSE list.owed \ OnPage(o)]
  BY DEF ListPage
<1>2. /\ RowOK /\ ListOK /\ list.page \in Nat /\ list.page # 0
      /\ list.total # None /\ list.total \in Nat /\ PageSize \in Nat
  <2>1. RowOK /\ ListOK /\ PageSize \in Nat
    BY Types, AppAssumption DEF IInv
  <2>2. list.total # None
    BY DEF ListPage
  <2>3. QED BY <2>1, <2>2 DEF ListOK, Sweep
<1>3. row' = row
  BY DEF ListPage, table
<1>4. /\ list'.page = IF k < list.total THEN list.page ELSE 0
      /\ list'.total = None
      /\ list'.owed = IF Tied THEN {} ELSE list.owed \ OnPage(o)
  BY <1>1
<1>5. k \in Nat /\ Covered = k - PageSize /\ Offset(list.page) = k - PageSize
  <2>1. list.page + 0 = list.page
    BY <1>2
  <2>2. QED BY <1>2, <2>1 DEF Covered, Offset
<1> HIDE DEF k
<1>6. ASSUME NEW a \in list'.owed
      PROVE  /\ a \in list.owed /\ a \in Live(row)
             /\ Cardinality(Before(a)) > k
             /\ Cardinality(Before(a)) \in 1..Cardinality(Live(row))
             /\ Cardinality(Live(row)) \in Nat
  <2>1. ~Tied /\ a \in list.owed /\ a \notin OnPage(o)
    BY <1>4
  <2>2. a \in Live(row) /\ Cardinality(Before(a)) > Covered
    BY <2>1 DEF Sweep
  <2>3. PICK i \in DOMAIN o : o[i] = a /\ i = Cardinality(Before(a)) /\ i \in Nat
    BY <1>2, <2>1, <2>2, Position
  <2>4. i \notin (k - PageSize + 1)..(k - PageSize + PageSize)
    BY <1>5, <2>1, <2>3 DEF OnPage
  <2>5. i > k
    BY <1>2, <1>5, <2>2, <2>3, <2>4
  <2>6. QED BY <1>2, <2>1, <2>2, <2>3, <2>5, BeforeCount
<1>7. list'.owed # {} => list'.page = list.page
  <2> SUFFICES ASSUME NEW a \in list'.owed PROVE k < list.total
    BY <1>4
  <2>1. ~EndsShortOf(Cardinality(Live(row)))
    BY <1>6 DEF Sweep
  <2>2. k < Cardinality(Live(row))
    BY <1>5, <1>6
  <2>3. QED BY <1>2, <1>5, <2>1, <2>2 DEF EndsShortOf, k
<1>8. ListComplete'
  BY <1>2, <1>7 DEF ListComplete
<1>9. ~EndsShortOf(Cardinality(Live(row)))'
  BY <1>4 DEF EndsShortOf
<1>10. ASSUME NEW a \in list'.owed PROVE Cardinality(Before(a)') > Covered'
  <2>1. Before(a)' = Before(a)
    BY <1>3 DEF Before
  <2>2. Covered' = k
    BY <1>2, <1>4, <1>7 DEF Covered, Offset, k
  <2>3. QED BY <1>6, <2>1, <2>2
<1>11. list'.owed \subseteq Live(row')
  BY <1>3, <1>6
<1>12. QED BY <1>4, <1>8, <1>9, <1>10, <1>11 DEF Sweep

(* The rows are counted, for the first page of a listing or for a later    *)
(* one.                                                                    *)
LEMMA SweepCount ==
  ASSUME IInv, Sweep, ListComplete, ListCount
  PROVE  Sweep' /\ ListComplete'
<1>1. RowOK /\ ListOK /\ PageSize \in Nat
  BY Types, AppAssumption DEF IInv
<1>2. Cardinality(Live(row)) \in Nat
  BY <1>1, CountsOK
<1>3. /\ list'.page = list.page + 1 /\ list'.total = Cardinality(Live(row))
      /\ list'.owed = IF list.page = 0 THEN Live(row) ELSE list.owed
      /\ list.total = None /\ row' = row
  BY DEF ListCount, table
<1>4. list.page \in Nat /\ list'.page # 0 /\ list'.page \in Nat
  BY <1>1, <1>3 DEF ListOK
<1>5. list'.total # None
  BY <1>2, <1>3, AppAssumption
<1>6. Live(row') = Live(row) /\ \A a : Before(a)' = Before(a)
  BY <1>3 DEF Before
<1>7. Covered' = Covered
  BY <1>3, <1>4, <1>5 DEF Covered
<1>8. ASSUME NEW a \in list'.owed
      PROVE  a \in Live(row) /\ Cardinality(Before(a)) > Covered
  <2>1. CASE list.page = 0
    <3>1. Covered = 0
      BY <1>1, <1>3, <2>1 DEF Covered, Offset
    <3>2. a \in Live(row) /\ Cardinality(Before(a)) \in 1..Cardinality(Live(row))
      BY <1>1, <1>3, <2>1, BeforeCount
    <3>3. QED BY <1>2, <3>1, <3>2
  <2>2. CASE list.page # 0
    BY <1>3, <2>2 DEF Sweep
  <2>3. QED BY <2>1, <2>2
<1>9. ~EndsShortOf(Cardinality(Live(row)))'
  <2>1. list'.page * PageSize \in Nat
    BY <1>1, <1>4
  <2>2. QED BY <1>2, <1>3, <1>6, <2>1 DEF EndsShortOf
<1>10. Sweep'
  BY <1>4, <1>6, <1>7, <1>8, <1>9 DEF Sweep
<1>11. QED BY <1>4, <1>10 DEF ListComplete

LEMMA SweepStep ==
  ASSUME IInv, IInv', Sweep, ListComplete, [Next]_vars
  PROVE  Sweep' /\ ListComplete'
<1>1. RowOK /\ RowOK' /\ ListOK /\ TypeOK
  BY Types, PTL DEF IInv
<1>2. ASSUME UNCHANGED list, Live(row') = Live(row),
             \A b \in Live(row) : row'[b].at = row[b].at
      PROVE  Sweep' /\ ListComplete'
  BY <1>2, SweepKept
<1>3. CASE UNCHANGED <<row, list>>
  BY <1>2, <1>3
<1>4. ASSUME NEW a \in App, Delete(a) PROVE Sweep' /\ ListComplete'
  BY <1>4, SweepDelete
<1>5. ASSUME NEW a \in App, NEW s \in Secret, NEW g \in BOOLEAN, Create(a, s, g)
      PROVE  Sweep' /\ ListComplete'
  BY <1>5, SweepCreate
<1>6. ASSUME NEW a \in App, NEW b \in BOOLEAN, Update(a, b)
      PROVE  Sweep' /\ ListComplete'
  <2>1. row' = [row EXCEPT ![a].open = b] /\ list' = list /\ a \in Live(row)
    BY <1>6 DEF Update, Commit
  <2>2. /\ Live(row') = Live(row)
        /\ \A x \in Live(row) : row'[x].at = row[x].at
    BY <1>1, <2>1, RowAssumption DEF Live, RowOK, Row
  <2>3. QED BY <1>2, <2>1, <2>2
<1>7. ASSUME NEW q \in Req, UpdateClientSecretHash(q)
      PROVE  Sweep' /\ ListComplete'
  <2>1. list' = list
    BY <1>7 DEF UpdateClientSecretHash
  <2>2. CASE row' = row
    BY <1>3, <2>1, <2>2
  <2>3. CASE row' # row
    <3>1. PICK a \in Live(row), s \in Secret :
            row' = [row EXCEPT ![a].secret = s]
      BY <1>7, <2>3 DEF UpdateClientSecretHash, Commit, table, IInv, Placed, At
    <3> DEFINE n == [row[a] EXCEPT !.secret = s]
    <3>2. row[a] \in Row /\ a \in App /\ row[a] # None /\ ~row[a].deleted
      BY <1>1 DEF Live, RowOK
    <3>3. n \in Row /\ n.at = row[a].at /\ (n.deleted <=> row[a].deleted)
      BY <3>2 DEF Row
    <3>4. row' = [row EXCEPT ![a] = n]
      BY <3>1
    <3> HIDE DEF n
    <3>5. /\ Live(row') = Live(row)
          /\ \A x \in Live(row) : row'[x].at = row[x].at
      BY <1>1, <3>2, <3>3, <3>4, RowAssumption DEF Live, RowOK
    <3>6. QED BY <1>2, <2>1, <3>5
  <2>4. QED BY <2>2, <2>3
<1>8. ASSUME NEW q \in Req,
             \/ Regenerated(q) \/ Lost(q)
             \/ AuthorizeClientIDSecret(q) \/ ReadClient(q)
             \/ \E a \in App, s \in Secret :
                  \/ RegenerateClientSecret(q, a, s)
                  \/ GetClientByClientID(q, a, s) \/ ClientCredentials(q, a, s)
      PROVE  UNCHANGED <<row, list>>
  BY <1>8 DEF Regenerated, Lost, AuthorizeClientIDSecret, ReadClient, Admit,
     RegenerateClientSecret, GetClientByClientID, ClientCredentials, AskTokens,
     table
<1>9. QED
  BY <1>3, <1>4, <1>5, <1>6, <1>7, <1>8, SweepCount, SweepPage
  DEF Next, vars, table

(* Who reads the list of applications to its end (applicationRepo.List),   *)
(* for every number of them and every size of a page, has seen all that    *)
(* were there when it began and still are, but for the three cases that    *)
(* ListComplete names.                                                     *)
THEOREM ListedWhole == Spec => []ListComplete
<1>1. Init => Sweep /\ ListComplete
  BY DEF Init, NoList, Sweep, ListComplete, EndsShortOf
<1>2. IInv /\ IInv' /\ Sweep /\ ListComplete /\ [Next]_vars
      => Sweep' /\ ListComplete'
  BY SweepStep
<1>3. QED BY <1>1, <1>2, Inductive, PTL DEF Spec
=============================================================================
