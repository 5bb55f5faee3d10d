--------------------------- MODULE OidcFlow_proofs ---------------------------
(***************************************************************************)
(* The tokens of the OpenID Connect provider, for every number of          *)
(* handlers, authorization requests, codes, grants and users: IInv is      *)
(* inductive.  Whoever a handler issues tokens to has completed the login  *)
(* they go back to; and who is past the deletion of what it consumes was   *)
(* alone with it, so that nobody can bring it back or answer it again.     *)
(***************************************************************************)
EXTENDS OidcFlow, FiniteSetTheorems, TLAPS

LEMMA Parts ==
  IInv <=> /\ TypeOK /\ RequestsOK /\ CodesOK /\ TasksOK /\ GrantsOK
           /\ SubjectLoggedIn /\ UnstoredOK /\ ConsumedOnce
BY DEF IInv

LEMMA Idle ==
  /\ NoTask \in Task /\ TaskOK(NoTask)
  /\ NoTask.pc = "idle" /\ NoTask.from = None
BY DEF NoTask, Task, Label, Subject, TaskOK, Issuing

LEMMA InitInv == Init => IInv
<1> SUFFICES ASSUME Init PROVE IInv OBVIOUS
<1> USE DEF Init
<1>1. TypeOK BY OidcAssumption, Idle DEF TypeOK
<1>2. RequestsOK BY OidcAssumption DEF RequestsOK
<1>3. CodesOK BY DEF CodesOK
<1>4. TasksOK BY Idle DEF TasksOK
<1>5. GrantsOK BY OidcAssumption DEF GrantsOK
<1>6. SubjectLoggedIn BY DEF SubjectLoggedIn
<1>7. UnstoredOK BY Idle DEF UnstoredOK, Unstored
<1>8. ConsumedOnce
  BY Idle DEF ConsumedOnce, Consumed, Past, Busy, AnswersTo
<1>9. QED BY <1>1, <1>2, <1>3, <1>4, <1>5, <1>6, <1>7, <1>8, Parts

(* What a step that gives one handler new locals does to the others.       *)
LEMMA Become ==
  ASSUME TypeOK, NEW q \in Req, NEW t \in Task,
         task' = [task EXCEPT ![q] = t]
  PROVE  /\ task' \in [Req -> Task] /\ task'[q] = t
         /\ \A p \in Req \ {q} : task'[p] = task[p]
BY DEF TypeOK

(* Logins are only added, and what a drawn grant goes back to stays.       *)
Grow ==
  /\ drawn \subseteq drawn'
  /\ \A a \in AuthReq : loggedIn[a] \subseteq loggedIn'[a]
  /\ \A g \in Grant \cap drawn : source'[g] = source[g]

LEMMA TaskKept ==
  ASSUME Grow, NEW t \in Task, TaskOK(t) PROVE TaskOK(t)'
BY DEF Grow, TaskOK, Task

LEMMA EntitledKept ==
  ASSUME Grow, GrantsOK, NEW g \in Grant \cap drawn
  PROVE  Entitled(g) \subseteq Entitled(g)'
BY OidcAssumption DEF Grow, GrantsOK, Entitled

(* A step of one handler that leaves the keys and the records alone: what  *)
(* it takes in hand, it has just found stored.                             *)
LEMMA TaskStep ==
  ASSUME IInv, NEW q \in Req, NEW t \in Task, TaskOK(t),
         task' = [task EXCEPT ![q] = t],
         UNCHANGED <<keys, drawn, record, lapsed>>, faults' \in 0..MaxFaults,
         t.pc \notin {"rotate", "refresh", "answer"},
         t.pc \in Holding =>
           \A x \in AuthReq \cup Grant : t.from = x => ~Gone(x),
         t.from \in Grant => refresh[t.from] # None
  PROVE  IInv'
<1> USE Parts DEF keys, record
<1>1. /\ task' \in [Req -> Task] /\ task'[q] = t
      /\ \A p \in Req \ {q} : task'[p] = task[p]
  BY Become
<1>2. TypeOK' BY <1>1 DEF TypeOK
<1>3. RequestsOK' /\ CodesOK' BY DEF RequestsOK, CodesOK
<1>4. Grow BY DEF Grow
<1>5. TasksOK' BY <1>1, <1>4, TaskKept DEF TasksOK, TypeOK
<1>6. GrantsOK' BY DEF GrantsOK
<1>7. SubjectLoggedIn' BY DEF SubjectLoggedIn, Entitled
<1>8. UnstoredOK' BY <1>1 DEF UnstoredOK, Unstored
<1>9. ASSUME NEW x \in AuthReq \cup Grant, Consumed(x) PROVE Consumed(x)'
  <2>1. Gone(x)' <=> Gone(x) BY DEF Gone
  <2>2. AnswersTo(x)' = AnswersTo(x) BY DEF AnswersTo
  <2>3. \A p \in Req : Past(p, x)' => Past(p, x) /\ p # q
    BY <1>1 DEF Past
  <2>4. \A p \in Req : Busy(p, x)' => Busy(p, x) \/ ~Gone(x)
    BY <1>1 DEF Busy
  <2>5. QED BY <1>9, <2>1, <2>2, <2>3, <2>4 DEF Consumed
<1>10. ConsumedOnce' BY <1>9 DEF ConsumedOnce
<1>11. QED
  BY <1>2, <1>3, <1>5, <1>6, <1>7, <1>8, <1>10, PTL

(* A handler that ends.                                                    *)
LEMMA FinishInv ==
  ASSUME IInv, NEW q \in Req, Finish(q),
         UNCHANGED <<keys, drawn, record, lapsed>>, faults' \in 0..MaxFaults
  PROVE  IInv'
BY Idle, TaskStep, OidcAssumption DEF Finish, Holding

(* A handler that begins.                                                  *)
LEMMA StartFacts ==
  ASSUME IInv, NEW q \in Req, NEW l \in Label,
         NEW x \in AuthReq \cup Grant \cup {None}, NEW u \in Subject,
         Start(q, l, x, u)
  PROVE  \E t \in Task : /\ task' = [task EXCEPT ![q] = t]
                         /\ t.pc = l /\ t.from = x /\ t.user = u
<1> DEFINE t == [NoTask EXCEPT !.pc = l, !.from = x, !.user = u]
<1>1. t \in Task /\ t.pc = l /\ t.from = x /\ t.user = u
  BY DEF NoTask, Task
<1>2. QED BY <1>1 DEF Start

LEMMA CompleteReadInv ==
  ASSUME IInv, NEW q \in Req, NEW a \in AuthReq, NEW u \in User,
         CompleteRead(q, a, u)
  PROVE  IInv'
<1> USE Parts
<1>1. PICK t \in Task : /\ task' = [task EXCEPT ![q] = t]
                        /\ t.pc = "complete" /\ t.from = a /\ t.user = u
  BY StartFacts DEF CompleteRead, Label, Subject
<1>2. /\ UNCHANGED <<keys, drawn, record, lapsed>> /\ faults' \in 0..MaxFaults
      /\ request[a] # None
  BY DEF CompleteRead, TypeOK
<1>3. a \in drawn /\ ~Gone(a) /\ a \notin Grant
  BY <1>2, OidcAssumption DEF RequestsOK, Gone
<1>4. TaskOK(t) BY <1>1, <1>3 DEF TaskOK, Issuing
<1>5. QED BY <1>1, <1>2, <1>3, <1>4, TaskStep

LEMMA CallbackInv ==
  ASSUME IInv, NEW q \in Req, NEW a \in AuthReq, Callback(q, a)
  PROVE  IInv'
<1> USE Parts
<1>1. PICK t \in Task : /\ task' = [task EXCEPT ![q] = t]
                        /\ t.pc = "code" /\ t.from = a
  BY StartFacts DEF Callback, Label, Subject
<1>2. /\ UNCHANGED <<keys, drawn, record, lapsed>> /\ faults' \in 0..MaxFaults
      /\ request[a] \in User
  BY DEF Callback, TypeOK
<1>3. loggedIn[a] # {} /\ a \notin Grant
  BY <1>2, OidcAssumption DEF RequestsOK
<1>4. TaskOK(t) BY <1>1, <1>3 DEF TaskOK, Issuing
<1>5. QED BY <1>1, <1>2, <1>3, <1>4, TaskStep DEF Holding

LEMMA ByCodeInv ==
  ASSUME IInv, NEW q \in Req, NEW c \in Code, ByCode(q, c)
  PROVE  IInv'
<1> USE Parts
<1>1. PICK a \in AuthReq : a = code[c] /\ loggedIn[a] # {}
  BY DEF ByCode, TypeOK, CodesOK
<1>2. PICK t \in Task : /\ task' = [task EXCEPT ![q] = t]
                        /\ t.pc = "byid" /\ t.from = a
  BY <1>1, StartFacts DEF ByCode, Label, Subject
<1>3. UNCHANGED <<keys, drawn, record, lapsed>> /\ faults' \in 0..MaxFaults
  BY DEF ByCode, TypeOK
<1>4. TaskOK(t) /\ a \notin Grant
  BY <1>1, <1>2, OidcAssumption DEF TaskOK, Issuing
<1>5. QED BY <1>1, <1>2, <1>3, <1>4, TaskStep DEF Holding

(* The record found has a user: whoever drew a code for it was logged in.  *)
LEMMA ByIDInv ==
  ASSUME IInv, NEW q \in Req, ByID(q) PROVE IInv'
<1> USE Parts
<1>1. /\ UNCHANGED <<keys, drawn, record, lapsed>> /\ faults' \in 0..MaxFaults
      /\ task[q].pc = "byid" /\ TaskOK(task[q]) /\ task[q] \in Task
  BY DEF ByID, TypeOK, TasksOK, At
<1>2. PICK a \in AuthReq : a = task[q].from /\ loggedIn[a] # {}
  BY <1>1 DEF TaskOK
<1>3. CASE request[a] = None BY <1>1, <1>2, <1>3, FinishInv DEF ByID
<1>4. CASE request[a] # None
  <2>1. PICK u \in User : u = request[a] /\ u \in loggedIn[a]
    BY <1>2, <1>4 DEF RequestsOK, TypeOK
  <2> DEFINE t == [task[q] EXCEPT !.pc = "access", !.user = u]
  <2>2. t \in Task /\ t.pc = "access" /\ t.from = a /\ t.user = u
    BY <1>1, <1>2 DEF Task, Label, Subject
  <2>3. task' = [task EXCEPT ![q] = t]
    BY <1>1, <1>2, <1>4, <2>1 DEF ByID, TypeOK, Task
  <2> HIDE DEF t
  <2>4. TaskOK(t) BY <1>2, <2>1, <2>2 DEF TaskOK, Issuing
  <2>5. ~Gone(a) /\ a \notin Grant BY <1>4, OidcAssumption DEF Gone
  <2>6. QED BY <1>1, <2>2, <2>3, <2>4, <2>5, TaskStep
<1>5. QED BY <1>3, <1>4

(* A refresh token that goes with the client has one login behind it.      *)
LEMMA ByRefreshTokenInv ==
  ASSUME IInv, NEW q \in Req, NEW g \in Grant, ByRefreshToken(q, g)
  PROVE  IInv'
<1> USE Parts
<1>1. refresh[g] # None /\ refresh[g].client /\ refresh[g] \in RefreshMeta
  BY DEF ByRefreshToken, TypeOK
<1>2. PICK u \in Subject : u = refresh[g].user BY <1>1 DEF RefreshMeta
<1>3. PICK t \in Task : /\ task' = [task EXCEPT ![q] = t]
                        /\ t.pc = "access" /\ t.from = g /\ t.user = u
  BY <1>2, StartFacts DEF ByRefreshToken, Label
<1>4. UNCHANGED <<keys, drawn, record, lapsed>> /\ faults' \in 0..MaxFaults
  BY DEF ByRefreshToken, TypeOK
<1>5. g \in drawn /\ source[g] \in AuthReq /\ ~Gone(g) /\ g \notin AuthReq
  BY <1>1, OidcAssumption DEF GrantsOK, Gone
<1>6. u \in loggedIn[source[g]]
  BY <1>1, <1>2, <1>5, OidcAssumption DEF SubjectLoggedIn, Entitled
<1>7. TaskOK(t) BY <1>3, <1>5, <1>6 DEF TaskOK, Issuing
<1>8. QED BY <1>1, <1>3, <1>4, <1>5, <1>7, TaskStep

LEMMA ClientCredentialsInv ==
  ASSUME IInv, NEW q \in Req, ClientCredentialsTokenRequest(q)
  PROVE  IInv'
<1> USE Parts
<1>1. PICK t \in Task : /\ task' = [task EXCEPT ![q] = t]
                        /\ t.pc = "access" /\ t.from = None /\ t.user = Client
  BY StartFacts DEF ClientCredentialsTokenRequest, Label, Subject
<1>2. UNCHANGED <<keys, drawn, record, lapsed>> /\ faults' \in 0..MaxFaults
  BY DEF ClientCredentialsTokenRequest, TypeOK
<1>3. TaskOK(t) BY <1>1 DEF TaskOK, Issuing
<1>4. QED BY <1>1, <1>2, <1>3, TaskStep, OidcAssumption

LEMMA FailInv ==
  ASSUME IInv, NEW q \in Req, Fail(q) PROVE IInv'
<1>1. faults' \in 0..MaxFaults
  BY OidcAssumption, Parts DEF Fail, TypeOK
<1>2. QED BY <1>1, FinishInv DEF Fail

-----------------------------------------------------------------------------
(* Keys that are taken away, by a revocation or by their time to live.     *)
LEMMA Fewer ==
  ASSUME IInv, UNCHANGED <<task, drawn, record>>, TypeOK',
         \A a \in AuthReq : request'[a] \in {request[a], None},
         \A c \in Code : code'[c] \in {code[c], None},
         \A g \in Grant : access'[g] \in {access[g], None}
                            /\ refresh'[g] \in {refresh[g], None}
  PROVE  IInv'
<1> USE Parts DEF record
<1>1. RequestsOK' BY OidcAssumption DEF RequestsOK
<1>2. CodesOK' BY DEF CodesOK
<1>3. TasksOK' BY DEF TasksOK, TaskOK
<1>4. GrantsOK' BY DEF GrantsOK
<1>5. SubjectLoggedIn' BY DEF SubjectLoggedIn, Entitled
<1>6. UnstoredOK' BY DEF UnstoredOK, Unstored
<1>7. ASSUME NEW x \in AuthReq \cup Grant, Consumed(x) PROVE Consumed(x)'
  <2>1. Gone(x) => Gone(x)' BY DEF Gone
  <2>2. QED BY <1>7, <2>1 DEF Consumed, AnswersTo, Past, Busy
<1>8. ConsumedOnce' BY <1>7 DEF ConsumedOnce
<1>9. QED BY <1>1, <1>2, <1>3, <1>4, <1>5, <1>6, <1>8, PTL

LEMMA RevokeTokenInv ==
  ASSUME IInv, NEW g \in Grant, RevokeToken(g) PROVE IInv'
<1> USE Parts DEF record
<1>1. /\ UNCHANGED <<request, code, task, drawn, record, lapsed, faults>>
      /\ access' \in [Grant -> Subject \cup {None}]
      /\ refresh' \in [Grant -> RefreshMeta \cup {None}]
      /\ \A h \in Grant : access'[h] \in {access[h], None}
                            /\ refresh'[h] \in {refresh[h], None}
  BY DEF RevokeToken, TypeOK
<1>2. TypeOK' BY <1>1 DEF TypeOK
<1>3. QED BY <1>1, <1>2, Fewer

LEMMA KeyExpiresInv ==
  ASSUME IInv, KeyExpires PROVE IInv'
<1> USE Parts DEF record
<1>1. /\ UNCHANGED <<task, drawn, record>> /\ faults' \in 0..MaxFaults
  BY OidcAssumption DEF KeyExpires, TypeOK
<1>2. /\ request' \in [AuthReq -> Subject \cup {None}]
      /\ \A a \in AuthReq : request'[a] \in {request[a], None}
      /\ code' \in [Code -> AuthReq \cup {None}]
      /\ \A c \in Code : code'[c] \in {code[c], None}
  BY DEF KeyExpires, TypeOK
<1>3. /\ access' \in [Grant -> Subject \cup {None}]
      /\ refresh' \in [Grant -> RefreshMeta \cup {None}]
      /\ lapsed' \subseteq Grant
      /\ \A h \in Grant : access'[h] \in {access[h], None}
                            /\ refresh'[h] \in {refresh[h], None}
  BY DEF KeyExpires, TypeOK
<1>4. TypeOK' BY <1>1, <1>2, <1>3 DEF TypeOK
<1>5. QED BY <1>1, <1>2, <1>3, <1>4, Fewer

-----------------------------------------------------------------------------
(* A new request: nobody has logged in to it, nothing comes from it.       *)
LEMMA AuthorizeInv ==
  ASSUME IInv, NEW a \in AuthReq, Authorize(a) PROVE IInv'
<1> USE Parts DEF record
<1>1. /\ UNCHANGED <<code, access, refresh, task, record, lapsed, faults>>
      /\ a \notin drawn /\ drawn' = drawn \cup {a}
      /\ request' \in [AuthReq -> Subject \cup {None}] /\ request'[a] = Nobody
      /\ \A b \in AuthReq \ {a} : request'[b] = request[b]
  BY DEF Authorize, TypeOK, Subject
<1>2. loggedIn[a] = {} BY <1>1 DEF RequestsOK
<1>3. TypeOK' BY <1>1 DEF TypeOK
<1>4. RequestsOK' BY <1>1, <1>2 DEF RequestsOK
<1>5. CodesOK' BY <1>1 DEF CodesOK
<1>6. Grow BY <1>1 DEF Grow
<1>7. TasksOK' BY <1>1, <1>6, TaskKept DEF TasksOK, TypeOK
<1>8. GrantsOK' BY <1>1 DEF GrantsOK
<1>9. SubjectLoggedIn' BY <1>1 DEF SubjectLoggedIn, Entitled
<1>10. UnstoredOK' BY <1>1 DEF UnstoredOK, Unstored
<1>11. \A q \in Req : ~Past(q, a)
  <2>1. \A q \in Req : TaskOK(task[q]) BY DEF TasksOK
  <2>2. QED BY <1>1, <1>2, <2>1, OidcAssumption DEF Past, TaskOK, Issuing
<1>12. AnswersTo(a) = {}
  BY <1>1, <1>2 DEF AnswersTo, GrantsOK, TypeOK
<1>13. ASSUME NEW x \in AuthReq \cup Grant, Consumed(x) PROVE Consumed(x)'
  <2>1. x # a => (Gone(x)' <=> Gone(x)) BY <1>1 DEF Gone
  <2>2. AnswersTo(x)' = AnswersTo(x) BY <1>1 DEF AnswersTo
  <2>3. \A q \in Req : (Past(q, x)' <=> Past(q, x)) /\ (Busy(q, x)' <=> Busy(q, x))
    BY <1>1 DEF Past, Busy
  <2>4. QED BY <1>11, <1>12, <1>13, <2>1, <2>2, <2>3 DEF Consumed
<1>14. ConsumedOnce' BY <1>1, <1>13 DEF ConsumedOnce
<1>15. QED
  BY <1>3, <1>4, <1>5, <1>7, <1>8, <1>9, <1>10, <1>14, PTL

(* The completion writes the record back, deleted or not: whoever did      *)
(* that with a request that is gone was in hand when it was deleted.       *)
LEMMA CompleteSetInv ==
  ASSUME IInv, NEW q \in Req, CompleteSet(q) PROVE IInv'
<1> USE Parts
<1>1. PICK a \in AuthReq, u \in User :
        a = task[q].from /\ u = task[q].user /\ a \in drawn
  BY DEF CompleteSet, At, TasksOK, TaskOK
<1>2. /\ UNCHANGED <<code, access, refresh, drawn, source, answered,
                     overlapped, lapsed, faults>>
      /\ task[q].pc = "complete"
      /\ request' \in [AuthReq -> Subject \cup {None}] /\ request'[a] = u
      /\ \A b \in AuthReq \ {a} : request'[b] = request[b]
      /\ loggedIn' \in [AuthReq -> SUBSET User]
      /\ loggedIn'[a] = loggedIn[a] \cup {u}
      /\ \A b \in AuthReq \ {a} : loggedIn'[b] = loggedIn[b]
      /\ task' = [task EXCEPT ![q] = NoTask]
  BY <1>1 DEF CompleteSet, At, Finish, TypeOK, Subject
<1>3. /\ task' \in [Req -> Task] /\ task'[q] = NoTask
      /\ \A p \in Req \ {q} : task'[p] = task[p]
  BY <1>2, Idle, Become
<1>4. TypeOK' BY <1>2, <1>3 DEF TypeOK
<1>5. RequestsOK' BY <1>1, <1>2, OidcAssumption DEF RequestsOK
<1>6. CodesOK' BY <1>2, OidcAssumption DEF CodesOK, TypeOK
<1>7. Grow BY <1>2 DEF Grow
<1>8. TasksOK' BY <1>3, <1>7, Idle, TaskKept DEF TasksOK, TypeOK
<1>9. GrantsOK' BY <1>2, OidcAssumption DEF GrantsOK
<1>10. SubjectLoggedIn'
  <2>1. \A g \in Grant : access[g] # None \/ refresh[g] # None => g \in drawn
    BY DEF GrantsOK
  <2>2. \A g \in Grant \cap drawn : Entitled(g) \subseteq Entitled(g)'
    BY <1>7, EntitledKept
  <2>3. QED BY <1>2, <2>1, <2>2 DEF SubjectLoggedIn
<1>11. UnstoredOK' BY <1>2, <1>3, Idle, OidcAssumption DEF UnstoredOK, Unstored
<1>12. ASSUME NEW x \in AuthReq \cup Grant, Consumed(x) PROVE Consumed(x)'
  <2>1. x # a => (Gone(x)' <=> Gone(x)) BY <1>2 DEF Gone
  <2>2. AnswersTo(x)' = AnswersTo(x) BY <1>2 DEF AnswersTo
  <2>3. \A p \in Req : /\ Past(p, x)' => Past(p, x) /\ p # q
                       /\ Busy(p, x)' => Busy(p, x)
    BY <1>3, Idle, OidcAssumption DEF Past, Busy, Holding
  <2>4. Busy(q, a) BY <1>1, <1>2 DEF Busy, Holding
  <2>5. QED BY <1>12, <2>1, <2>2, <2>3, <2>4 DEF Consumed
<1>13. ConsumedOnce' BY <1>2, <1>12 DEF ConsumedOnce
<1>14. QED
  BY <1>4, <1>5, <1>6, <1>8, <1>9, <1>10, <1>11, <1>13, PTL

LEMMA SaveAuthCodeInv ==
  ASSUME IInv, NEW q \in Req, NEW c \in Code, SaveAuthCode(q, c)
  PROVE  IInv'
<1> USE Parts DEF record
<1>1. PICK a \in AuthReq : a = task[q].from /\ loggedIn[a] # {}
  BY DEF SaveAuthCode, At, TasksOK, TaskOK
<1>2. /\ UNCHANGED <<request, access, refresh, record, lapsed, faults>>
      /\ drawn' = drawn \cup {c} /\ c \notin drawn
      /\ code' \in [Code -> AuthReq \cup {None}] /\ code'[c] = a
      /\ \A d \in Code \ {c} : code'[d] = code[d]
      /\ task' = [task EXCEPT ![q] = NoTask]
  BY <1>1 DEF SaveAuthCode, Finish, TypeOK
<1>3. /\ task' \in [Req -> Task] /\ task'[q] = NoTask
      /\ \A p \in Req \ {q} : task'[p] = task[p]
  BY <1>2, Idle, Become
<1>4. TypeOK' BY <1>2, <1>3 DEF TypeOK
<1>5. RequestsOK' BY <1>2 DEF RequestsOK
<1>6. CodesOK' BY <1>1, <1>2 DEF CodesOK
<1>7. Grow BY <1>2 DEF Grow
<1>8. TasksOK' BY <1>3, <1>7, Idle, TaskKept DEF TasksOK, TypeOK
<1>9. GrantsOK' BY <1>2 DEF GrantsOK
<1>10. SubjectLoggedIn' BY <1>2 DEF SubjectLoggedIn, Entitled
<1>11. UnstoredOK' BY <1>2, <1>3, Idle, OidcAssumption DEF UnstoredOK, Unstored
<1>12. ASSUME NEW x \in AuthReq \cup Grant, Consumed(x) PROVE Consumed(x)'
  <2>1. Gone(x)' <=> Gone(x) BY <1>2 DEF Gone
  <2>2. AnswersTo(x)' = AnswersTo(x) BY <1>2 DEF AnswersTo
  <2>3. \A p \in Req : /\ Past(p, x)' => Past(p, x) /\ p # q
                       /\ Busy(p, x)' => Busy(p, x)
    BY <1>3, Idle, OidcAssumption DEF Past, Busy, Holding
  <2>4. QED BY <1>12, <2>1, <2>2, <2>3 DEF Consumed
<1>13. ConsumedOnce' BY <1>2, <1>12 DEF ConsumedOnce
<1>14. QED
  BY <1>4, <1>5, <1>6, <1>8, <1>9, <1>10, <1>11, <1>13, PTL

(* The handler's locals while it issues tokens.                            *)
LEMMA Holds ==
  ASSUME IInv, NEW q \in Req, task[q].pc \in Issuing
  PROVE  /\ task[q] \in Task /\ TaskOK(task[q])
         /\ task[q].pc \in Issuing \ {"access"} =>
              /\ task[q].grant \in Grant \cap drawn
              /\ source[task[q].grant] = task[q].from
BY Parts DEF TypeOK, TasksOK, TaskOK

(* A new grant has the subject the handler is entitled to, and nobody      *)
(* knows it yet.                                                           *)
LEMMA SetAccessTokenInv ==
  ASSUME IInv, NEW q \in Req, NEW g \in Grant, SetAccessToken(q, g)
  PROVE  IInv'
<1> USE Parts
<1>1. PICK x \in AuthReq \cup Grant \cup {None}, u \in Subject :
        x = task[q].from /\ u = task[q].user
  BY DEF TypeOK, Task
<1>2. task[q].pc = "access" /\ task[q] \in Task /\ TaskOK(task[q])
  BY Holds DEF SetAccessToken, At, Issuing
<1>3. PICK l \in Label :
        /\ x = None => l = "answer"
        /\ x \in Grant => l = "rotate"
        /\ x \in AuthReq => l \in {"refresh", "delete"}
        /\ task' = [task EXCEPT ![q].pc = l, ![q].grant = g]
  BY <1>1, OidcAssumption DEF SetAccessToken, Label
<1>4. PICK t \in Task :
        /\ t.pc = l /\ t.grant = g /\ t.from = x /\ t.user = u
        /\ task' = [task EXCEPT ![q] = t]
  <2> DEFINE t == [task[q] EXCEPT !.pc = l, !.grant = g]
  <2>1. /\ t \in Task /\ t.pc = l /\ t.grant = g /\ t.from = x /\ t.user = u
        /\ task' = [task EXCEPT ![q] = t]
    BY <1>1, <1>2, <1>3 DEF Task, TypeOK
  <2>2. QED BY <2>1
<1>5. /\ UNCHANGED <<request, code, refresh, loggedIn, answered, overlapped,
                     lapsed, faults>>
      /\ g \notin drawn /\ drawn' = drawn \cup {g}
      /\ source' \in [Grant -> AuthReq \cup Grant \cup {None}]
      /\ source'[g] = x
      /\ \A h \in Grant \ {g} : source'[h] = source[h]
      /\ access' \in [Grant -> Subject \cup {None}] /\ access'[g] = u
      /\ \A h \in Grant \ {g} : access'[h] = access[h]
  BY <1>1 DEF SetAccessToken, TypeOK
<1>6. /\ task' \in [Req -> Task] /\ task'[q] = t
      /\ \A p \in Req \ {q} : task'[p] = task[p]
  BY <1>4, Become
<1>7. /\ x = None => u = Client
      /\ x \in AuthReq => u \in loggedIn[x]
      /\ x \in Grant => /\ x \in drawn /\ source[x] \in AuthReq
                        /\ u \in loggedIn[source[x]]
  BY <1>1, <1>2, OidcAssumption DEF TaskOK, Issuing
<1>8. TypeOK' BY <1>5, <1>6 DEF TypeOK
<1>9. RequestsOK' BY <1>5 DEF RequestsOK
<1>10. CodesOK' BY <1>5 DEF CodesOK
<1>11. Grow BY <1>5 DEF Grow
<1>12. TasksOK'
  <2>1. TaskOK(t)'
    <3>1. x \in Grant => source'[x] = source[x] BY <1>5, <1>7
    <3>2. t.grant \in Grant \cap drawn' /\ source'[t.grant] = t.from
      BY <1>4, <1>5
    <3>3. l \in {"answer", "rotate", "refresh", "delete"} BY <1>1, <1>3
    <3>4. \/ x = None /\ u = Client /\ l = "answer"
          \/ x \in AuthReq /\ u \in loggedIn'[x] /\ l # "rotate"
          \/ /\ x \in Grant \cap drawn' /\ l # "delete"
             /\ source'[x] \in AuthReq /\ u \in loggedIn'[source'[x]]
      BY <1>1, <1>3, <1>5, <1>7, <3>1, OidcAssumption
    <3>5. QED BY <1>4, <3>2, <3>3, <3>4 DEF TaskOK, Issuing
  <2>2. \A p \in Req \ {q} : TaskOK(task[p])'
    <3>1. ASSUME NEW p \in Req \ {q} PROVE TaskOK(task[p])'
      <4>1. PICK s \in Task : s = task[p] /\ TaskOK(s)
        BY DEF TasksOK, TypeOK
      <4>2. TaskOK(s)' BY <1>11, <4>1, TaskKept
      <4>3. task'[p] = s BY <1>6, <4>1
      <4>4. QED BY <4>2, <4>3
    <3>2. QED BY <3>1
  <2>3. TaskOK(task[q])' BY <1>6, <2>1
  <2>4. QED BY <2>2, <2>3 DEF TasksOK
<1>13. GrantsOK' BY <1>5, <1>7, OidcAssumption DEF GrantsOK
<1>14. SubjectLoggedIn'
  <2>1. ASSUME NEW h \in Grant, h # g
        PROVE  /\ access'[h] # None => access'[h] \in Entitled(h)'
               /\ refresh'[h] # None => refresh'[h].user \in Entitled(h)'
    <3>1. access[h] # None \/ refresh[h] # None => h \in drawn
      BY DEF GrantsOK
    <3>2. h \in drawn => Entitled(h) \subseteq Entitled(h)'
      BY <1>11, EntitledKept
    <3>3. QED BY <1>5, <2>1, <3>1, <3>2 DEF SubjectLoggedIn
  <2>2. refresh'[g] = None BY <1>5 DEF GrantsOK
  <2>3. u \in Entitled(g)'
    <3>1. x \in Grant => x # g /\ source'[x] = source[x] BY <1>5, <1>7
    <3>2. QED BY <1>1, <1>5, <1>7, <3>1, OidcAssumption DEF Entitled
  <2>4. QED BY <1>5, <2>1, <2>2, <2>3 DEF SubjectLoggedIn
<1>15. \A p \in Req : task[p].from # g /\ ~Unstored(p, g)
  <2>1. ASSUME NEW p \in Req PROVE task[p].from # g /\ ~Unstored(p, g)
    <3>1. task[p] \in Task /\ TaskOK(task[p]) BY DEF TasksOK, TypeOK
    <3>2. task[p].from # g
      BY <1>5, <3>1, OidcAssumption DEF TaskOK, Task, Label, Issuing
    <3>3. ~Unstored(p, g) BY <1>5, <3>1 DEF TaskOK, Unstored, Issuing
    <3>4. QED BY <3>2, <3>3
  <2>2. QED BY <2>1
<1>16. \A k \in Grant : source'[k] = source[k] \/ (k = g /\ source'[k] = x)
  BY <1>5
<1>17. UnstoredOK'
  <2>1. \A p \in Req, h \in Grant :
          Unstored(p, h)' <=> IF p = q THEN h = g /\ l \in {"rotate", "refresh"}
                              ELSE Unstored(p, h)
    BY <1>4, <1>6 DEF Unstored
  <2>2. \A p \in Req : task'[p].from = task[p].from BY <1>1, <1>4, <1>6
  <2>3. ASSUME NEW p \in Req \ {q}, NEW h \in Grant, Unstored(p, h)
        PROVE  /\ refresh'[h] = None
               /\ \A k \in Grant : source'[k] # h
               /\ \A r \in Req : task'[r].from # h /\ (r # p => ~Unstored(r, h)')
    <3>1. /\ h # g /\ refresh[h] = None
          /\ \A k \in Grant : source[k] # h
          /\ \A r \in Req : task[r].from # h /\ (r # p => ~Unstored(r, h))
      BY <2>3, <1>15 DEF UnstoredOK
    <3>2. QED BY <1>1, <1>5, <1>16, <2>1, <2>2, <3>1
  <2>4. /\ refresh'[g] = None
        /\ \A k \in Grant : source'[k] # g
        /\ \A r \in Req : task'[r].from # g /\ (r # q => ~Unstored(r, g)')
    BY <1>1, <1>5, <1>15, <1>16, <2>1, <2>2, OidcAssumption DEF GrantsOK
  <2>5. QED BY <2>1, <2>3, <2>4 DEF UnstoredOK
<1>18. ASSUME NEW y \in AuthReq \cup Grant, Consumed(y) PROVE Consumed(y)'
  <2>1. Gone(y)' <=> Gone(y) BY <1>5 DEF Gone
  <2>2. AnswersTo(y)' = AnswersTo(y)
    <3>1. g \notin answered BY <1>5 DEF GrantsOK
    <3>2. QED BY <1>5, <3>1 DEF AnswersTo, TypeOK
  <2>3. \A p \in Req : /\ Past(p, y)' => Past(p, y) /\ p # q
                       /\ Busy(p, y)' => Busy(p, y)
    BY <1>1, <1>2, <1>3, <1>4, <1>6, OidcAssumption DEF Past, Busy, Holding
  <2>4. QED BY <1>18, <2>1, <2>2, <2>3 DEF Consumed
<1>19. ConsumedOnce' BY <1>5, <1>18 DEF ConsumedOnce
<1>20. QED
  BY <1>8, <1>9, <1>10, <1>12, <1>13, <1>14, <1>17, <1>19, PTL

-----------------------------------------------------------------------------
(* A handler that goes on to another label keeps what it has.              *)
LEMMA MoveTask ==
  ASSUME TypeOK, NEW q \in Req, NEW l \in Label, Goto(q, l)
  PROVE  \E t \in Task : /\ task' = [task EXCEPT ![q] = t]
                         /\ t.pc = l /\ t.from = task[q].from
                         /\ t.user = task[q].user /\ t.grant = task[q].grant
<1> DEFINE t == [task[q] EXCEPT !.pc = l]
<1>1. /\ t \in Task /\ t.pc = l /\ t.from = task[q].from
      /\ t.user = task[q].user /\ t.grant = task[q].grant
  BY DEF TypeOK, Task
<1>2. task' = [task EXCEPT ![q] = t] BY DEF Goto
<1>3. QED BY <1>1, <1>2

(* A handler alone with what it deletes was the first to answer it.        *)
LEMMA DeleteStep ==
  ASSUME IInv, NEW q \in Req, NEW x \in AuthReq \cup Grant,
         task[q].from = x, Busy(q, x), Consumed(x), ~Shared(q, x)
  PROVE  /\ AnswersTo(x) = {}
         /\ \A r \in Req \ {q} : ~Busy(r, x) /\ ~Past(r, x)
<1>1. AnswersTo(x) = {} BY DEF Consumed
<1>2. \A r \in Req \ {q} : ~Past(r, x) BY DEF Consumed
<1>3. \A r \in Req \ {q} : ~Busy(r, x) BY <1>2 DEF Shared, Busy, Past
<1>4. QED BY <1>1, <1>2, <1>3

LEMMA DeleteOldInv ==
  ASSUME IInv, NEW q \in Req, DeleteOld(q) PROVE IInv'
<1> USE Parts
<1>1. /\ task[q].pc = "rotate" /\ Goto(q, "refresh")
      /\ UNCHANGED <<request, code, access, drawn, loggedIn, source, answered,
                     lapsed>>
      /\ faults' \in 0..MaxFaults
  BY OidcAssumption DEF DeleteOld, At, TypeOK
<1>2. PICK g \in Grant \cap drawn, u \in Subject :
        /\ g = task[q].from /\ u = task[q].user /\ g \notin AuthReq
        /\ source[g] \in AuthReq /\ u \in loggedIn[source[g]]
        /\ task[q].grant \in Grant \cap drawn /\ source[task[q].grant] = g
  BY <1>1, Holds, OidcAssumption DEF Issuing, TaskOK, Task
<1>3. PICK t \in Task :
        /\ task' = [task EXCEPT ![q] = t]
        /\ t.pc = "refresh" /\ t.from = g /\ t.user = u
        /\ t.grant = task[q].grant
  BY <1>1, <1>2, MoveTask DEF Label
<1>4. /\ task' \in [Req -> Task] /\ task'[q] = t
      /\ \A p \in Req \ {q} : task'[p] = task[p]
  BY <1>3, Become
<1>5. /\ refresh' \in [Grant -> RefreshMeta \cup {None}]
      /\ \A h \in Grant : refresh'[h] \in {refresh[h], None}
      /\ overlapped \subseteq overlapped'
      /\ overlapped' \subseteq AuthReq \cup Grant
      /\ g \notin overlapped' => refresh'[g] = None /\ ~Shared(q, g)
  BY <1>2 DEF DeleteOld, TypeOK
<1>6. TypeOK' BY <1>1, <1>4, <1>5 DEF TypeOK
<1>7. RequestsOK' /\ CodesOK' BY <1>1 DEF RequestsOK, CodesOK
<1>8. Grow BY <1>1 DEF Grow
<1>9. TaskOK(t) BY <1>2, <1>3 DEF TaskOK, Issuing
<1>10. TasksOK' BY <1>4, <1>8, <1>9, TaskKept DEF TasksOK, TypeOK
<1>11. GrantsOK' BY <1>1, <1>5 DEF GrantsOK
<1>12. SubjectLoggedIn' BY <1>1, <1>5 DEF SubjectLoggedIn, Entitled
<1>13. UnstoredOK'
  <2>1. /\ \A p \in Req, h \in Grant : Unstored(p, h)' <=> Unstored(p, h)
        /\ \A p \in Req : task'[p].from = task[p].from
    BY <1>1, <1>2, <1>3, <1>4 DEF Unstored
  <2>2. QED BY <1>1, <1>5, <2>1 DEF UnstoredOK
<1>14. ASSUME NEW y \in AuthReq \cup Grant, Consumed(y), y \notin overlapped'
       PROVE  Consumed(y)'
  <2>1. AnswersTo(y)' = AnswersTo(y) BY <1>1 DEF AnswersTo
  <2>2. Gone(y) => Gone(y)' BY <1>1, <1>5 DEF Gone
  <2>3. CASE y = g
    <3>1. Busy(q, g) BY <1>1, <1>2 DEF Busy, Holding
    <3>2. /\ AnswersTo(g) = {}
          /\ \A r \in Req \ {q} : ~Busy(r, g) /\ ~Past(r, g)
      BY <1>2, <1>5, <1>14, <2>3, <3>1, DeleteStep
    <3>3. \A r \in Req \ {q} : ~Busy(r, g)' /\ ~Past(r, g)'
      BY <1>4, <3>2 DEF Busy, Past
    <3>4. Gone(g)' BY <1>2, <1>5, <1>14, <2>3 DEF Gone
    <3>5. QED BY <2>1, <2>3, <3>2, <3>3, <3>4 DEF Consumed
  <2>4. CASE y # g
    <3>1. \A p \in Req : /\ Past(p, y)' => Past(p, y)
                         /\ Busy(p, y)' => Busy(p, y)
      BY <1>3, <1>4, <2>4 DEF Past, Busy
    <3>2. QED BY <1>14, <2>1, <2>2, <3>1 DEF Consumed
  <2>5. QED BY <2>3, <2>4
<1>15. ConsumedOnce' BY <1>5, <1>14 DEF ConsumedOnce
<1>16. QED
  BY <1>6, <1>7, <1>10, <1>11, <1>12, <1>13, <1>15, PTL

LEMMA DeleteAuthRequestInv ==
  ASSUME IInv, NEW q \in Req, DeleteAuthRequest(q) PROVE IInv'
<1> USE Parts
<1>1. /\ task[q].pc = "delete" /\ Goto(q, "answer")
      /\ UNCHANGED <<code, access, refresh, drawn, loggedIn, source, answered,
                     lapsed, faults>>
  BY DEF DeleteAuthRequest, At
<1>2. PICK a \in AuthReq, u \in Subject :
        /\ a = task[q].from /\ u = task[q].user /\ u \in loggedIn[a]
        /\ task[q].grant \in Grant \cap drawn /\ source[task[q].grant] = a
  BY <1>1, Holds, OidcAssumption DEF Issuing, TaskOK, Task
<1>3. PICK t \in Task :
        /\ task' = [task EXCEPT ![q] = t]
        /\ t.pc = "answer" /\ t.from = a /\ t.user = u
        /\ t.grant = task[q].grant
  BY <1>1, <1>2, MoveTask DEF Label
<1>4. /\ task' \in [Req -> Task] /\ task'[q] = t
      /\ \A p \in Req \ {q} : task'[p] = task[p]
  BY <1>3, Become
<1>5. /\ request' \in [AuthReq -> Subject \cup {None}] /\ request'[a] = None
      /\ \A b \in AuthReq \ {a} : request'[b] = request[b]
      /\ overlapped \subseteq overlapped'
      /\ overlapped' \subseteq AuthReq \cup Grant
      /\ a \notin overlapped' => ~Shared(q, a)
  BY <1>2 DEF DeleteAuthRequest, TypeOK
<1>6. TypeOK' BY <1>1, <1>4, <1>5 DEF TypeOK
<1>7. RequestsOK' /\ CodesOK'
  BY <1>1, <1>2, <1>5, OidcAssumption DEF RequestsOK, CodesOK
<1>8. Grow BY <1>1 DEF Grow
<1>9. TaskOK(t) BY <1>2, <1>3 DEF TaskOK, Issuing
<1>10. TasksOK' BY <1>4, <1>8, <1>9, TaskKept DEF TasksOK, TypeOK
<1>11. GrantsOK' BY <1>1 DEF GrantsOK
<1>12. SubjectLoggedIn' BY <1>1 DEF SubjectLoggedIn, Entitled
<1>13. UnstoredOK'
  <2>1. /\ \A p \in Req, h \in Grant : Unstored(p, h)' <=> Unstored(p, h)
        /\ \A p \in Req : task'[p].from = task[p].from
    BY <1>1, <1>2, <1>3, <1>4 DEF Unstored
  <2>2. QED BY <1>1, <2>1 DEF UnstoredOK
<1>14. ASSUME NEW y \in AuthReq \cup Grant, Consumed(y), y \notin overlapped'
       PROVE  Consumed(y)'
  <2>1. AnswersTo(y)' = AnswersTo(y) BY <1>1 DEF AnswersTo
  <2>2. Gone(y) => Gone(y)' BY <1>1, <1>5 DEF Gone
  <2>3. CASE y = a
    <3>1. Busy(q, a) BY <1>1, <1>2 DEF Busy, Holding
    <3>2. /\ AnswersTo(a) = {}
          /\ \A r \in Req \ {q} : ~Busy(r, a) /\ ~Past(r, a)
      BY <1>2, <1>5, <1>14, <2>3, <3>1, DeleteStep
    <3>3. \A r \in Req \ {q} : ~Busy(r, a)' /\ ~Past(r, a)'
      BY <1>4, <3>2 DEF Busy, Past
    <3>4. Gone(a)' BY <1>5 DEF Gone
    <3>5. QED BY <2>1, <2>3, <3>2, <3>3, <3>4 DEF Consumed
  <2>4. CASE y # a
    <3>1. \A p \in Req : /\ Past(p, y)' => Past(p, y)
                         /\ Busy(p, y)' => Busy(p, y)
      BY <1>3, <1>4, <2>4 DEF Past, Busy
    <3>2. QED BY <1>14, <2>1, <2>2, <3>1 DEF Consumed
  <2>5. QED BY <2>3, <2>4
<1>15. ConsumedOnce' BY <1>5, <1>14 DEF ConsumedOnce
<1>16. QED
  BY <1>6, <1>7, <1>10, <1>11, <1>12, <1>13, <1>15, PTL

(* The refresh token is stored for the first time, before anyone knows it. *)
LEMMA SetRefreshTokenInv ==
  ASSUME IInv, NEW q \in Req, SetRefreshToken(q) PROVE IInv'
<1> USE Parts DEF record
<1>1. /\ task[q].pc = "refresh"
      /\ UNCHANGED <<request, code, access, drawn, record, lapsed, faults>>
      /\ refresh' = [refresh EXCEPT ![task[q].grant] =
                       [user |-> task[q].user,
                        client |-> task[q].from \in AuthReq]]
      /\ Goto(q, IF task[q].from \in AuthReq THEN "delete" ELSE "answer")
  BY DEF SetRefreshToken, At
<1>2. PICK x \in AuthReq \cup Grant, u \in Subject, h \in Grant \cap drawn :
        /\ x = task[q].from /\ u = task[q].user /\ h = task[q].grant
        /\ source[h] = x
        /\ x \in AuthReq => u \in loggedIn[x]
        /\ x \in Grant => /\ x \in drawn /\ source[x] \in AuthReq
                          /\ u \in loggedIn[source[x]]
  BY <1>1, Holds, OidcAssumption DEF Issuing, TaskOK, Task
<1>3. PICK l \in {"delete", "answer"} :
        (l = "delete" <=> x \in AuthReq) /\ Goto(q, l)
  BY <1>1, <1>2
<1>4. PICK t \in Task :
        /\ task' = [task EXCEPT ![q] = t]
        /\ t.pc = l /\ t.from = x /\ t.user = u /\ t.grant = h
  BY <1>2, <1>3, MoveTask DEF Label
<1>5. /\ task' \in [Req -> Task] /\ task'[q] = t
      /\ \A p \in Req \ {q} : task'[p] = task[p]
  BY <1>4, Become
<1>6. PICK m \in RefreshMeta :
        /\ refresh' = [refresh EXCEPT ![h] = m]
        /\ m.user = u /\ (m.client <=> x \in AuthReq)
  <2>1. ASSUME NEW b \in BOOLEAN, b = (task[q].from \in AuthReq),
               b <=> x \in AuthReq
        PROVE  \E m \in RefreshMeta :
                 /\ refresh' = [refresh EXCEPT ![h] = m]
                 /\ m.user = u /\ (m.client <=> x \in AuthReq)
    <3> DEFINE m == [user |-> u, client |-> b]
    <3>1. m \in RefreshMeta /\ m.user = u /\ m.client = b BY DEF RefreshMeta
    <3>2. refresh' = [refresh EXCEPT ![h] = m] BY <1>1, <1>2, <2>1
    <3> HIDE DEF m
    <3>3. QED BY <2>1, <3>1, <3>2
  <2>2. CASE x \in AuthReq
    <3>1. TRUE = (task[q].from \in AuthReq) BY <1>2, <2>2
    <3>2. QED BY <2>1, <2>2, <3>1
  <2>3. CASE x \notin AuthReq
    <3>1. FALSE = (task[q].from \in AuthReq) BY <1>2, <2>3
    <3>2. QED BY <2>1, <2>3, <3>1
  <2>4. QED BY <2>2, <2>3
<1>7. /\ refresh' \in [Grant -> RefreshMeta \cup {None}] /\ refresh'[h] = m
      /\ \A k \in Grant \ {h} : refresh'[k] = refresh[k]
  BY <1>6 DEF TypeOK
<1>8. TypeOK' BY <1>1, <1>5, <1>7 DEF TypeOK
<1>9. RequestsOK' /\ CodesOK' BY <1>1 DEF RequestsOK, CodesOK
<1>10. Grow BY <1>1 DEF Grow
<1>11. TaskOK(t) BY <1>2, <1>3, <1>4, OidcAssumption DEF TaskOK, Issuing
<1>12. TasksOK' BY <1>5, <1>10, <1>11, TaskKept DEF TasksOK, TypeOK
<1>13. GrantsOK' BY <1>1, <1>2, <1>6, <1>7 DEF GrantsOK
<1>14. SubjectLoggedIn'
  <2>1. \A k \in Grant : Entitled(k)' = Entitled(k) BY <1>1 DEF Entitled
  <2>2. u \in Entitled(h) BY <1>2, OidcAssumption DEF Entitled
  <2>3. QED BY <1>1, <1>6, <1>7, <2>1, <2>2 DEF SubjectLoggedIn
<1>15. Unstored(q, h) BY <1>1, <1>2 DEF Unstored
<1>16. UnstoredOK'
  <2>1. /\ \A p \in Req, k \in Grant :
             Unstored(p, k)' => Unstored(p, k) /\ p # q /\ k # h
        /\ \A p \in Req : task'[p].from = task[p].from
    BY <1>2, <1>3, <1>4, <1>5, <1>15 DEF Unstored, UnstoredOK
  <2>2. QED BY <1>1, <1>7, <2>1 DEF UnstoredOK
<1>17. ASSUME NEW y \in AuthReq \cup Grant, Consumed(y) PROVE Consumed(y)'
  <2>1. AnswersTo(y)' = AnswersTo(y) BY <1>1 DEF AnswersTo
  <2>2. \A p \in Req : /\ Past(p, y)' => Past(p, y)
                       /\ Busy(p, y)' => Busy(p, y)
    BY <1>1, <1>2, <1>3, <1>4, <1>5, OidcAssumption DEF Past, Busy, Holding
  <2>3. CASE y # h \/ y \in AuthReq
    <3>1. Gone(y) => Gone(y)' BY <1>1, <1>7, <2>3 DEF Gone
    <3>2. QED BY <1>17, <2>1, <2>2, <3>1 DEF Consumed
  <2>4. CASE y = h
    <3>1. \A p \in Req : ~Past(p, h) BY <1>15 DEF UnstoredOK, Past
    <3>2. AnswersTo(h) = {} BY <1>15 DEF UnstoredOK, AnswersTo, TypeOK
    <3>3. QED BY <2>1, <2>2, <2>4, <3>1, <3>2 DEF Consumed
  <2>5. QED BY <2>3, <2>4
<1>18. ConsumedOnce' BY <1>1, <1>17 DEF ConsumedOnce
<1>19. QED
  BY <1>8, <1>9, <1>12, <1>13, <1>14, <1>16, <1>18, PTL

(* The first answer is the only one: its handler was alone.                *)
LEMMA AnswerInv ==
  ASSUME IInv, NEW q \in Req, Answer(q) PROVE IInv'
<1> USE Parts
<1>1. /\ task[q].pc = "answer" /\ task' = [task EXCEPT ![q] = NoTask]
      /\ answered' = answered \cup {task[q].grant}
      /\ UNCHANGED <<keys, drawn, loggedIn, source, overlapped, lapsed, faults>>
  BY DEF Answer, At, Finish
<1>2. PICK h \in Grant \cap drawn :
        h = task[q].grant /\ source[h] = task[q].from
  BY <1>1, Holds DEF Issuing
<1>3. /\ task' \in [Req -> Task] /\ task'[q] = NoTask
      /\ \A p \in Req \ {q} : task'[p] = task[p]
  BY <1>1, Idle, Become
<1>4. TypeOK' BY <1>1, <1>2, <1>3 DEF TypeOK, keys
<1>5. RequestsOK' /\ CodesOK' BY <1>1 DEF RequestsOK, CodesOK, keys
<1>6. Grow BY <1>1 DEF Grow
<1>7. TasksOK' BY <1>3, <1>6, Idle, TaskKept DEF TasksOK, TypeOK
<1>8. GrantsOK' BY <1>1, <1>2 DEF GrantsOK, keys
<1>9. SubjectLoggedIn' BY <1>1 DEF SubjectLoggedIn, Entitled, keys
<1>10. UnstoredOK'
  BY <1>1, <1>3, Idle, OidcAssumption DEF UnstoredOK, Unstored, keys
<1>11. ASSUME NEW y \in AuthReq \cup Grant, Consumed(y) PROVE Consumed(y)'
  <2>1. Gone(y)' <=> Gone(y) BY <1>1 DEF Gone, keys
  <2>2. \A p \in Req : /\ Past(p, y)' => Past(p, y) /\ p # q
                       /\ Busy(p, y)' => Busy(p, y) /\ p # q
    BY <1>3, Idle, OidcAssumption DEF Past, Busy
  <2>3. CASE y # source[h]
    <3>1. AnswersTo(y)' = AnswersTo(y)
      BY <1>1, <1>2, <2>3 DEF AnswersTo
    <3>2. QED BY <1>11, <2>1, <2>2, <3>1 DEF Consumed
  <2>4. CASE y = source[h]
    <3>1. Past(q, y) /\ Busy(q, y) BY <1>1, <1>2, <2>4 DEF Past, Busy
    <3>2. AnswersTo(y) = {} BY <1>11, <3>1 DEF Consumed
    <3>3. AnswersTo(y)' = {h} BY <1>1, <1>2, <2>4, <3>2 DEF AnswersTo
    <3>4. Gone(y) /\ \A p \in Req \ {q} : ~Busy(p, y)
      BY <1>11, <3>1 DEF Consumed
    <3>5. QED BY <1>11, <2>1, <2>2, <3>3, <3>4 DEF Consumed
  <2>5. QED BY <2>3, <2>4
<1>12. ConsumedOnce' BY <1>1, <1>11 DEF ConsumedOnce
<1>13. QED
  BY <1>4, <1>5, <1>7, <1>8, <1>9, <1>10, <1>12, PTL

-----------------------------------------------------------------------------
LEMMA StepInv == IInv /\ [Next]_vars => IInv'
<1> SUFFICES ASSUME IInv, [Next]_vars PROVE IInv' OBVIOUS
<1>1. CASE \E a \in AuthReq : Authorize(a) BY <1>1, AuthorizeInv
<1>2. ASSUME NEW q \in Req, Arrival(q) PROVE IInv'
  BY <1>2, CallbackInv, CompleteReadInv, ByCodeInv, ByRefreshTokenInv,
     ClientCredentialsInv DEF Arrival
<1>3. ASSUME NEW q \in Req, Step(q) PROVE IInv'
  BY <1>3, CompleteSetInv, SaveAuthCodeInv, ByIDInv, SetAccessTokenInv,
     DeleteOldInv, SetRefreshTokenInv, DeleteAuthRequestInv, AnswerInv
     DEF Step
<1>4. ASSUME NEW q \in Req, Fail(q) PROVE IInv' BY <1>4, FailInv
<1>5. CASE \E g \in Grant : RevokeToken(g) BY <1>5, RevokeTokenInv
<1>6. CASE KeyExpires BY <1>6, KeyExpiresInv
<1>7. CASE UNCHANGED vars
  <2>1. TypeOK' BY <1>7, Parts DEF vars, keys, record, TypeOK
  <2>2. QED BY <1>7, <2>1, Fewer DEF vars, keys, record
<1>8. QED BY <1>1, <1>2, <1>3, <1>4, <1>5, <1>6, <1>7 DEF Next

(* IInv is inductive.                                                      *)
THEOREM Inductive == Spec => []IInv
<1>1. QED BY InitInv, StepInv, PTL DEF Spec

(* Type correctness, for every number of handlers, requests and grants.    *)
THEOREM TypeCorrect == Spec => []TypeOK
<1>1. IInv => TypeOK BY Parts
<1>2. QED BY <1>1, Inductive, PTL

(* Whatever completions, exchanges and refreshes overlap, tokens are for a *)
(* user who completed the login they go back to.                           *)
THEOREM SubjectsEntitled == Spec => []SubjectLoggedIn
<1>1. IInv => SubjectLoggedIn BY Parts
<1>2. QED BY <1>1, Inductive, PTL

(* An authorization request, or a refresh token, is answered once, unless  *)
(* somebody else held it while it was deleted or its deletion failed.      *)
THEOREM AnswersOnce == Spec => []AnsweredOnce
<1>1. ASSUME IInv, NEW x \in AuthReq \cup Grant, x \notin overlapped
      PROVE  Cardinality(AnswersTo(x)) <= 1
  <2>1. Consumed(x) BY <1>1, Parts DEF ConsumedOnce
  <2>2. CASE AnswersTo(x) = {} BY <2>2, FS_EmptySet
  <2>3. ASSUME NEW g \in AnswersTo(x)
        PROVE  Cardinality(AnswersTo(x)) <= 1
    <3>1. AnswersTo(x) = {g} BY <2>1, <2>3 DEF Consumed
    <3>2. Cardinality({g}) = 1 BY FS_Singleton
    <3>3. QED BY <3>1, <3>2
  <2>4. QED BY <2>2, <2>3
<1>2. IInv => AnsweredOnce BY <1>1 DEF AnsweredOnce
<1>3. QED BY <1>2, Inductive, PTL

(* What was answered is gone for good: neither a late completion nor a     *)
(* refresh brings it back, outside the same exceptions.                    *)
THEOREM AnsweredStaysGone == Spec => []AnsweredGone
<1>1. ASSUME IInv, NEW x \in AuthReq \cup Grant, x \notin overlapped,
             AnswersTo(x) # {}
      PROVE  Gone(x)
  BY <1>1, Parts DEF ConsumedOnce, Consumed
<1>2. IInv => AnsweredGone BY <1>1 DEF AnsweredGone, Gone
<1>3. QED BY <1>2, Inductive, PTL
=============================================================================
