---------------------------- MODULE Seeder_proofs ----------------------------
(***************************************************************************)
(* The seeded administrator, for every number of replicas, accounts and    *)
(* failures: IInv is inductive.  The set of those who have the tuple, are  *)
(* about to get it or hold the seeded email grows only when the email is   *)
(* taken while nobody holds it, and from the second time on somebody has   *)
(* given it up before.                                                     *)
(***************************************************************************)
EXTENDS Seeder, FiniteSetTheorems, TLAPS

LEMMA Parts == IInv <=> TypeOK /\ RowsDrawn /\ Hands /\ Ready
BY DEF IInv

LEMMA InitInv == Init => IInv
<1> SUFFICES ASSUME Init PROVE IInv OBVIOUS
<1> USE SeederAssumption DEF Init
<1>1. TypeOK
  <2>1. \A r \in Replica : pc[r] = "down" /\ found[r] = NoRow OBVIOUS
  <2>2. pc \in [Replica -> Label] /\ found \in [Replica -> Id \cup {NoRow}]
    BY DEF Label
  <2>3. moved \in 0..MaxChanges /\ faults \in 0..MaxFaults OBVIOUS
  <2>4. QED BY <2>1, <2>2, <2>3 DEF TypeOK
<1>2. RowsDrawn BY DEF RowsDrawn, Exists
<1>3. Hands
  <2>1. ByEmail = {} /\ Held = {} BY DEF Held, ByEmail, Exists
  <2>2. QED BY <2>1, FS_EmptySet DEF Hands
<1>4. Ready BY DEF Ready, At
<1>5. QED BY <1>1, <1>2, <1>3, <1>4, Parts

(* The three ways the holders change.                                      *)
LEMMA HandsSame ==
  ASSUME TypeOK, Hands, moved' = moved, ByEmail' = ByEmail,
         Held' \subseteq Held
  PROVE  Hands'
<1>1. IsFiniteSet(Held') /\ Cardinality(Held') <= Cardinality(Held)
  BY FS_Subset DEF Hands
<1>2. Cardinality(Held) \in Nat /\ Cardinality(Held') \in Nat
  BY <1>1, FS_CardinalityType DEF Hands
<1>3. QED BY <1>1, <1>2 DEF Hands, TypeOK

LEMMA HandsTaken ==
  ASSUME TypeOK, Hands, moved' = moved, ByEmail = {}, NEW i, ByEmail' = {i},
         Held' \subseteq Held \cup {i}
  PROVE  Hands'
<1>1. /\ IsFiniteSet(Held \cup {i})
      /\ Cardinality(Held \cup {i}) <= Cardinality(Held) + 1
  <2>1. IsFiniteSet(Held) BY DEF Hands
  <2>2. Cardinality(Held) \in Nat BY <2>1, FS_CardinalityType
  <2>3. /\ IsFiniteSet(Held \cup {i})
        /\ Cardinality(Held \cup {i}) =
             IF i \in Held THEN Cardinality(Held) ELSE Cardinality(Held) + 1
    BY <2>1, FS_AddElement
  <2>4. QED BY <2>2, <2>3
<1>2. /\ IsFiniteSet(Held')
      /\ Cardinality(Held') <= Cardinality(Held \cup {i})
  BY <1>1, FS_Subset
<1>3. Cardinality(Held') \in Nat /\ Cardinality(Held \cup {i}) \in Nat
  BY <1>1, <1>2, FS_CardinalityType
<1>4. Cardinality(Held) <= moved /\ moved \in Nat
  <2>1. moved \in Nat BY DEF TypeOK
  <2>2. Cardinality(Held) <= moved + 0 BY DEF Hands
  <2>3. QED BY <2>1, <2>2
<1>5. Cardinality(Held) \in Nat BY FS_CardinalityType DEF Hands
<1>6. Cardinality(Held') <= moved' + 1 BY <1>1, <1>2, <1>3, <1>4, <1>5
<1>7. Cardinality(Held') <= moved' + (IF ByEmail' = {} THEN 0 ELSE 1)
  BY <1>6
<1>8. \A j, k \in ByEmail' : j = k OBVIOUS
<1>9. QED BY <1>2, <1>7, <1>8 DEF Hands

LEMMA HandsGiven ==
  ASSUME TypeOK, Hands, moved' = moved + 1, ByEmail' \subseteq ByEmail,
         Held' \subseteq Held
  PROVE  Hands'
<1>1. IsFiniteSet(Held') /\ Cardinality(Held') <= Cardinality(Held)
  BY FS_Subset DEF Hands
<1>2. Cardinality(Held) \in Nat /\ Cardinality(Held') \in Nat
  BY <1>1, FS_CardinalityType DEF Hands
<1>3. Cardinality(Held) <= moved + 1 /\ moved \in Nat
  <2>1. moved \in Nat BY DEF TypeOK
  <2>2. CASE ByEmail = {}
    <3>1. Cardinality(Held) <= moved + 0 BY <2>2 DEF Hands
    <3>2. QED BY <1>2, <2>1, <3>1
  <2>3. CASE ByEmail # {} BY <2>1, <2>3 DEF Hands
  <2>4. QED BY <2>1, <2>2, <2>3
<1>4. Cardinality(Held') <= moved' BY <1>1, <1>2, <1>3
<1>5. \A i, j \in ByEmail' : i = j BY DEF Hands
<1>6. moved' <= moved' + 1 /\ moved' \in Nat BY <1>3
<1>7. Cardinality(Held') <= moved' + (IF ByEmail' = {} THEN 0 ELSE 1)
  BY <1>2, <1>4, <1>6
<1>8. QED BY <1>1, <1>5, <1>7 DEF Hands

-----------------------------------------------------------------------------
LEMMA StartInv ==
  ASSUME IInv, NEW r \in Replica, Start(r) PROVE IInv'
<1> USE Parts DEF Start, Goto
<1>1. TypeOK' BY DEF TypeOK, Label, At
<1>2. RowsDrawn' BY DEF RowsDrawn, Exists
<1>3. ByEmail' = ByEmail BY DEF ByEmail, Exists
<1>4. Hands' BY <1>3, HandsSame DEF Held
<1>5. Ready' BY <1>3 DEF Ready, TypeOK, At
<1>6. QED BY <1>1, <1>2, <1>4, <1>5, PTL

(* Whom the query finds holds the email.                                   *)
LEMMA QueryAdminInv ==
  ASSUME IInv, NEW r \in Replica, QueryAdmin(r) PROVE IInv'
<1> USE Parts
<1>1. /\ UNCHANGED <<row, tuple, drawn, moved, refused, faults>>
      /\ pc[r] = "query"
  BY DEF QueryAdmin, At
<1>2. ByEmail' = ByEmail /\ RowsDrawn'
  BY <1>1 DEF ByEmail, Exists, RowsDrawn
<1>3. CASE Goto(r, "create") /\ UNCHANGED found
  <2>1. TypeOK' BY <1>1, <1>3 DEF TypeOK, Goto, Label
  <2>2. Hands' BY <1>1, <1>2, <1>3, HandsSame DEF Held
  <2>3. Ready' BY <1>1, <1>2, <1>3 DEF Ready, TypeOK, Goto, At
  <2>4. QED BY <1>2, <2>1, <2>2, <2>3, PTL
<1>4. ASSUME NEW i \in ByEmail, found' = [found EXCEPT ![r] = i],
             Goto(r, IF row[i].verified THEN "tuple" ELSE "verify")
      PROVE  IInv'
  <2>1. i \in Id /\ i \in drawn BY DEF ByEmail, RowsDrawn
  <2>2. /\ pc' \in [Replica -> Label] /\ found' \in [Replica -> Id \cup {NoRow}]
        /\ pc'[r] = (IF row[i].verified THEN "tuple" ELSE "verify")
        /\ found'[r] = i
        /\ \A s \in Replica \ {r} : pc'[s] = pc[s] /\ found'[s] = found[s]
    BY <1>4, <2>1 DEF TypeOK, Goto, Label
  <2>3. TypeOK' BY <1>1, <2>1, <2>2 DEF TypeOK
  <2>4. Held' \subseteq Held BY <1>1, <1>2, <2>2 DEF Held
  <2>5. Hands' BY <1>1, <1>2, <2>4, HandsSame
  <2>6. Ready' BY <1>1, <1>2, <2>2 DEF Ready, At
  <2>7. QED BY <1>2, <2>3, <2>5, <2>6, PTL
<1>5. QED BY <1>3, <1>4 DEF QueryAdmin

LEMMA SetEmailVerifiedInv ==
  ASSUME IInv, NEW r \in Replica, SetEmailVerified(r) PROVE IInv'
<1> USE Parts
<1>1. PICK i \in Id : i = found[r] /\ i \in drawn
  BY DEF SetEmailVerified, At, TypeOK
<1>2. /\ UNCHANGED <<tuple, found, drawn, moved, refused, faults>>
      /\ pc[r] = "verify"
      /\ pc' \in [Replica -> Label] /\ pc'[r] = "tuple"
      /\ \A s \in Replica \ {r} : pc'[s] = pc[s]
  BY DEF SetEmailVerified, At, Goto, TypeOK, Label
<1>3. /\ row' \in [Id -> Row \cup {NoRow}]
      /\ \A j \in Id \ {i} : row'[j] = row[j]
      /\ Exists(i) => /\ row'[i] \in Row /\ row'[i].email = row[i].email
                      /\ row'[i].verified
      /\ ~Exists(i) => row'[i] = row[i]
  BY <1>1 DEF SetEmailVerified, TypeOK, Row, Exists
<1>4. \A j \in Id : Exists(j)' <=> Exists(j)
  BY <1>3, NoRowAssumption DEF Exists
<1>5. ByEmail' = ByEmail BY <1>3, <1>4 DEF ByEmail
<1>6. TypeOK' BY <1>1, <1>2, <1>3 DEF TypeOK
<1>7. RowsDrawn' BY <1>2, <1>4 DEF RowsDrawn
<1>8. Hands' BY <1>2, <1>5, HandsSame DEF Held
<1>9. Ready'
  <2>1. \A j \in ByEmail : row[j].verified => row'[j].verified
    BY <1>3 DEF ByEmail
  <2>2. i \in ByEmail => row'[i].verified BY <1>3 DEF ByEmail
  <2>3. QED BY <1>1, <1>2, <1>5, <2>1, <2>2 DEF Ready, At
<1>10. QED BY <1>6, <1>7, <1>8, <1>9, PTL

(* The insert succeeds only if nobody holds the email.                     *)
LEMMA CreateAdminInv ==
  ASSUME IInv, NEW r \in Replica, CreateAdmin(r) PROVE IInv'
<1> USE Parts
<1>1. UNCHANGED <<tuple, moved, faults>> /\ pc[r] = "create"
  BY DEF CreateAdmin, At
<1>2. CASE Down(r) /\ refused' = TRUE /\ UNCHANGED <<row, drawn>>
  <2>1. /\ found' \in [Replica -> Id \cup {NoRow}] /\ found'[r] = NoRow
        /\ pc' \in [Replica -> Label] /\ pc'[r] = "down"
        /\ \A s \in Replica \ {r} : pc'[s] = pc[s] /\ found'[s] = found[s]
    BY <1>2 DEF Down, Goto, TypeOK, Label
  <2>2. ByEmail' = ByEmail /\ RowsDrawn'
    BY <1>2 DEF ByEmail, Exists, RowsDrawn
  <2>3. TypeOK' BY <1>1, <1>2, <2>1 DEF TypeOK
  <2>4. Held' \subseteq Held
    BY <1>1, <2>1, <2>2, SeederAssumption DEF Held
  <2>5. Hands' BY <1>1, <2>2, <2>4, HandsSame
  <2>6. Ready' BY <1>1, <1>2, <2>1, <2>2 DEF Ready, At
  <2>7. QED BY <2>2, <2>3, <2>5, <2>6, PTL
<1>3. ASSUME ByEmail = {}, NEW i \in Id \ drawn,
             row' = [row EXCEPT ![i] =
                       [email |-> TRUE, name |-> TRUE, verified |-> TRUE]],
             drawn' = drawn \cup {i}, found' = [found EXCEPT ![r] = i],
             Goto(r, "tuple"), UNCHANGED refused
      PROVE  IInv'
  <2>1. /\ row' \in [Id -> Row \cup {NoRow}]
        /\ row'[i] \in Row /\ row'[i].email /\ row'[i].verified
        /\ \A j \in Id \ {i} : row'[j] = row[j]
    BY <1>3 DEF TypeOK, Row
  <2>2. /\ found' \in [Replica -> Id \cup {NoRow}] /\ found'[r] = i
        /\ pc' \in [Replica -> Label] /\ pc'[r] = "tuple"
        /\ \A s \in Replica \ {r} : pc'[s] = pc[s] /\ found'[s] = found[s]
    BY <1>3 DEF Goto, TypeOK, Label
  <2>3. ByEmail' = {i}
    BY <1>3, <2>1, NoRowAssumption DEF ByEmail, Exists
  <2>4. TypeOK' BY <1>1, <1>3, <2>1, <2>2 DEF TypeOK
  <2>5. RowsDrawn' BY <1>3, <2>1 DEF RowsDrawn, Exists
  <2>6. Held' \subseteq Held \cup {i} BY <1>1, <2>2, <2>3 DEF Held
  <2>7. Hands' BY <1>1, <1>3, <2>3, <2>6, HandsTaken
  <2>8. Ready'
    <3>1. moved = 0 /\ faults = 0 =>
            \A s \in Replica \ {r} : pc[s] \notin {"verify", "tuple", "up"}
      BY <1>3 DEF Ready
    <3>2. QED BY <1>1, <2>1, <2>2, <2>3, <3>1 DEF Ready, At
  <2>9. QED BY <2>4, <2>5, <2>7, <2>8, PTL
<1>4. QED BY <1>2, <1>3 DEF CreateAdmin

(* Only whom the replica found gets the tuple.                             *)
LEMMA EnsureTupleInv ==
  ASSUME IInv, NEW r \in Replica, EnsureTuple(r) PROVE IInv'
<1> USE Parts
<1>1. PICK i \in Id : i = found[r] /\ i \in drawn
  BY DEF EnsureTuple, At, TypeOK
<1>2. /\ UNCHANGED <<row, found, drawn, moved, refused>>
      /\ pc[r] = "tuple"
      /\ pc' \in [Replica -> Label] /\ pc'[r] = "up"
      /\ \A s \in Replica \ {r} : pc'[s] = pc[s]
  BY DEF EnsureTuple, At, Goto, TypeOK, Label
<1>3. /\ faults' \in 0..MaxFaults
      /\ \/ tuple' = tuple \cup {i} /\ faults' = faults
         \/ tuple' = tuple /\ faults' # 0
  BY <1>1, SeederAssumption DEF EnsureTuple, TypeOK
<1>4. TypeOK' BY <1>1, <1>2, <1>3 DEF TypeOK
<1>5. ByEmail' = ByEmail /\ RowsDrawn'
  BY <1>2 DEF ByEmail, Exists, RowsDrawn
<1>6. Held' \subseteq Held BY <1>1, <1>2, <1>3, <1>5 DEF Held
<1>7. Hands' BY <1>2, <1>5, <1>6, HandsSame
<1>8. Ready' BY <1>1, <1>2, <1>3, <1>5 DEF Ready, At
<1>9. QED BY <1>4, <1>5, <1>7, <1>8, PTL

(* A failure keeps or forgets whom the replica found.                      *)
LEMMA FailureInv ==
  ASSUME IInv, NEW r \in Replica, StatementFails(r) \/ Crash(r)
  PROVE  IInv'
<1> USE Parts
<1>1. /\ UNCHANGED <<row, tuple, drawn, moved, refused>>
      /\ faults' \in 0..MaxFaults /\ faults' # 0
  BY SeederAssumption DEF StatementFails, Crash, TypeOK
<1>2. /\ pc' \in [Replica -> Label]
      /\ found' \in [Replica -> Id \cup {NoRow}]
      /\ \A s \in Replica \ {r} : pc'[s] = pc[s] /\ found'[s] = found[s]
      /\ \/ pc'[r] = "tuple" /\ found'[r] = found[r] /\ found[r] \in drawn
         \/ pc'[r] = "down" /\ found'[r] = NoRow
  BY DEF StatementFails, Crash, Down, Goto, At, TypeOK, Label
<1>3. TypeOK' BY <1>1, <1>2 DEF TypeOK
<1>4. ByEmail' = ByEmail /\ RowsDrawn'
  BY <1>1 DEF ByEmail, Exists, RowsDrawn
<1>5. Held' \subseteq Held BY <1>1, <1>2, <1>4, SeederAssumption DEF Held
<1>6. Hands' BY <1>1, <1>4, <1>5, HandsSame
<1>7. Ready' BY <1>1 DEF Ready
<1>8. QED BY <1>3, <1>4, <1>6, <1>7, PTL

-----------------------------------------------------------------------------
(* The other operations on the table: each changes one row.                *)
LEMMA SignUpInv ==
  ASSUME IInv, NEW i \in Id, SignUp(i) PROVE IInv'
<1> USE Parts
<1>1. PICK e, n \in BOOLEAN :
        /\ e => ByEmail = {}
        /\ row' = [row EXCEPT ![i] =
                     [email |-> e, name |-> n, verified |-> FALSE]]
  BY DEF SignUp
<1>2. /\ UNCHANGED <<tuple, pc, found, moved, refused, faults>>
      /\ i \notin drawn /\ drawn' = drawn \cup {i} /\ ~Exists(i)
  BY DEF SignUp, RowsDrawn
<1>3. /\ row' \in [Id -> Row \cup {NoRow}]
      /\ row'[i] \in Row /\ row'[i].email = e
      /\ \A j \in Id \ {i} : row'[j] = row[j]
  BY <1>1 DEF TypeOK, Row
<1>4. ByEmail' = IF e THEN {i} ELSE ByEmail
  BY <1>1, <1>2, <1>3, NoRowAssumption DEF ByEmail, Exists
<1>5. TypeOK' BY <1>2, <1>3 DEF TypeOK
<1>6. RowsDrawn' BY <1>2, <1>3 DEF RowsDrawn, Exists
<1>7. Hands'
  <2>1. CASE e BY <1>1, <1>2, <1>4, <2>1, HandsTaken DEF Held
  <2>2. CASE ~e BY <1>2, <1>4, <2>2, HandsSame DEF Held
  <2>3. QED BY <2>1, <2>2
<1>8. Ready'
  <2>1. SUFFICES ASSUME moved = 0, faults = 0, NEW r \in Replica,
                        pc[r] \in {"verify", "tuple", "up"}
                 PROVE  /\ found[r] \in ByEmail'
                        /\ pc[r] \in {"tuple", "up"} =>
                             row'[found[r]].verified
                        /\ pc[r] = "up" => found[r] \in tuple
    BY <1>2 DEF Ready, At
  <2>2. found[r] \in ByEmail /\ found[r] # i
    BY <1>2, <2>1 DEF Ready, ByEmail
  <2>3. QED BY <1>1, <1>3, <1>4, <2>1, <2>2 DEF Ready, At, ByEmail
<1>9. QED BY <1>5, <1>6, <1>7, <1>8, PTL

(* The email is given up, or taken while nobody holds it.                  *)
LEMMA ChangeEmailInv ==
  ASSUME IInv, NEW i \in Id, ChangeEmail(i) PROVE IInv'
<1> USE Parts
<1>1. /\ UNCHANGED <<tuple, pc, found, drawn, refused, faults>>
      /\ Exists(i) /\ row[i] \in Row
      /\ IF row[i].email THEN moved' = moved + 1 /\ moved' \in 0..MaxChanges
                         ELSE ByEmail = {} /\ moved' = moved
  BY SeederAssumption DEF ChangeEmail, TypeOK, Exists
<1>2. /\ row' \in [Id -> Row \cup {NoRow}]
      /\ row'[i] \in Row /\ row'[i].email = ~row[i].email
      /\ \A j \in Id \ {i} : row'[j] = row[j]
  BY <1>1 DEF ChangeEmail, TypeOK, Row
<1>3. \A j \in Id : Exists(j)' <=> Exists(j)
  BY <1>1, <1>2, NoRowAssumption DEF Exists
<1>4. TypeOK' BY <1>1, <1>2 DEF TypeOK
<1>5. RowsDrawn' BY <1>1, <1>3 DEF RowsDrawn
<1>6. CASE row[i].email
  <2>1. ByEmail' \subseteq ByEmail BY <1>2, <1>3, <1>6 DEF ByEmail
  <2>2. Hands' BY <1>1, <1>6, <2>1, HandsGiven DEF Held
  <2>3. Ready' BY <1>1, <1>6 DEF Ready, TypeOK
  <2>4. QED BY <1>4, <1>5, <2>2, <2>3, PTL
<1>7. CASE ~row[i].email
  <2>1. ByEmail = {} BY <1>1, <1>7
  <2>2. ByEmail' = {i} BY <1>1, <1>2, <1>3, <1>7, <2>1 DEF ByEmail
  <2>3. Hands' BY <1>1, <1>7, <2>1, <2>2, HandsTaken DEF Held
  <2>4. moved = 0 /\ faults = 0 =>
          \A r \in Replica : pc[r] \notin {"verify", "tuple", "up"}
    BY <2>1 DEF Ready
  <2>5. Ready' BY <1>1, <1>7, <2>4 DEF Ready, At
  <2>6. QED BY <1>4, <1>5, <2>3, <2>5, PTL
<1>8. QED BY <1>6, <1>7

LEMMA PurgeInv ==
  ASSUME IInv, NEW i \in Id, Purge(i) PROVE IInv'
<1> USE Parts
<1>1. /\ UNCHANGED <<tuple, pc, found, drawn, refused, faults>>
      /\ moved' = moved + 1 /\ moved' \in 0..MaxChanges
      /\ row' \in [Id -> Row \cup {NoRow}] /\ row'[i] = NoRow
      /\ \A j \in Id \ {i} : row'[j] = row[j]
  BY SeederAssumption DEF Purge, TypeOK
<1>2. TypeOK' BY <1>1 DEF TypeOK
<1>3. RowsDrawn' BY <1>1 DEF RowsDrawn, Exists
<1>4. ByEmail' \subseteq ByEmail BY <1>1 DEF ByEmail, Exists
<1>5. Hands' BY <1>1, <1>4, HandsGiven DEF Held
<1>6. Ready' BY <1>1 DEF Ready, TypeOK
<1>7. QED BY <1>2, <1>3, <1>5, <1>6, PTL

-----------------------------------------------------------------------------
LEMMA StepInv == IInv /\ [Next]_vars => IInv'
<1> SUFFICES ASSUME IInv, [Next]_vars PROVE IInv' OBVIOUS
<1>1. ASSUME NEW r \in Replica, Run(r) PROVE IInv'
  BY <1>1, StartInv, QueryAdminInv, SetEmailVerifiedInv, CreateAdminInv,
     EnsureTupleInv DEF Run
<1>2. ASSUME NEW r \in Replica, StatementFails(r) \/ Crash(r) PROVE IInv'
  BY <1>2, FailureInv
<1>3. CASE People BY <1>3, SignUpInv, ChangeEmailInv, PurgeInv DEF People
<1>4. CASE UNCHANGED vars
  <2> USE <1>4, Parts DEF vars
  <2>1. TypeOK' BY DEF TypeOK
  <2>2. ByEmail' = ByEmail /\ RowsDrawn' BY DEF ByEmail, Exists, RowsDrawn
  <2>3. Hands' BY <2>2, HandsSame DEF Held
  <2>4. Ready' BY <2>2 DEF Ready, At
  <2>5. QED BY <2>1, <2>2, <2>3, <2>4, PTL
<1>5. QED BY <1>1, <1>2, <1>3, <1>4 DEF Next

(* IInv is inductive.                                                      *)
THEOREM Inductive == Spec => []IInv
<1>1. QED BY InitInv, StepInv, PTL DEF Spec

(* Type correctness, for every number of replicas and accounts.            *)
THEOREM TypeCorrect == Spec => []TypeOK
<1>1. IInv => TypeOK BY Parts
<1>2. QED BY <1>1, Inductive, PTL

(* However many replicas start together, crash and start again, there is   *)
(* at most one administrator more than the seeded email changed hands.     *)
THEOREM AtMostOneAdmin == Spec => []OneAdmin
<1>1. ASSUME IInv PROVE OneAdmin
  <2> USE Parts
  <2>1. IsFiniteSet(tuple) /\ Cardinality(tuple) <= Cardinality(Held)
    BY <1>1, FS_Subset DEF Hands, Held
  <2>2. Cardinality(tuple) \in Nat /\ Cardinality(Held) \in Nat
    BY <1>1, <2>1, FS_CardinalityType DEF Hands
  <2>3. moved \in Nat BY <1>1 DEF TypeOK
  <2>4. Cardinality(Held) <= moved + 0 \/ Cardinality(Held) <= moved + 1
    BY <1>1 DEF Hands
  <2>5. QED BY <2>1, <2>2, <2>3, <2>4 DEF OneAdmin
<1>2. QED BY <1>1, Inductive, PTL

(* A service that is up has its administrator, verified and with the       *)
(* tuple, unless a call failed or the account has changed.                 *)
THEOREM AdminIsReady == Spec => []AdminReady
<1>1. IInv => AdminReady BY Parts DEF Ready, AdminReady, At
<1>2. QED BY <1>1, Inductive, PTL
=============================================================================
