------------------------------- MODULE Seeder -------------------------------
(***************************************************************************)
(* The seeding of the administrator (internal/data/seed.go), run before    *)
(* the start of every replica of the service (cmd/server/main.go): look    *)
(* the administrator up by email, create it or correct its verification,   *)
(* and write the authorization tuple of the platform administrator.        *)
(* Replicas start together, crash and are started again; meanwhile people  *)
(* sign up, and accounts change their email, verify it or are purged.      *)
(*                                                                         *)
(* Only the seeded email and the seeded name matter: a row says whether it *)
(* holds them.  moved and refused record what the properties speak of.     *)
(***************************************************************************)
EXTENDS Naturals, FiniteSets

CONSTANTS
  Replica,
  Id,             \* user IDs: never drawn twice
  NoRow,          \* no such row, no user found
  MaxFaults,      \* bound: crashes and failing calls
  MaxChanges      \* bound: emails changed and accounts purged

ASSUME SeederAssumption ==
  MaxFaults \in Nat /\ MaxChanges \in Nat /\ NoRow \notin Id

VARIABLES
  row,        \* the users table
  tuple,      \* users with the tuple admin of platform:default
  pc, found,  \* where each replica is, and the user it has found or created
  drawn,      \* IDs drawn so far
  moved,      \* how often an account was purged or gave up the seeded email
  refused,    \* a start was refused although no call had failed
  faults

vars == <<row, tuple, pc, found, drawn, moved, refused, faults>>

Row == [email : BOOLEAN, name : BOOLEAN, verified : BOOLEAN]
ASSUME NoRowAssumption == NoRow \notin Row
Label == {"down", "query", "verify", "create", "tuple", "up"}

Exists(i) == row[i] # NoRow
ByEmail == {i \in Id : Exists(i) /\ row[i].email}
ByName == {i \in Id : Exists(i) /\ row[i].name}

At(r, l) == pc[r] = l
Goto(r, l) == pc' = [pc EXCEPT ![r] = l]

Down(r) ==
  /\ Goto(r, "down")
  /\ found' = [found EXCEPT ![r] = NoRow]

-----------------------------------------------------------------------------
(* Seeder.Run *)

Start(r) ==
  /\ At(r, "down")
  /\ Goto(r, "query")
  /\ UNCHANGED <<row, tuple, found, drawn, moved, refused, faults>>

QueryAdmin(r) ==
  /\ At(r, "query")
  /\ \/ \E i \in ByEmail :
          /\ found' = [found EXCEPT ![r] = i]
          /\ Goto(r, IF row[i].verified THEN "tuple" ELSE "verify")
     \/ ByEmail = {} /\ Goto(r, "create") /\ UNCHANGED found
  /\ UNCHANGED <<row, tuple, drawn, moved, refused, faults>>

(* A row that is gone by now is an error like any other: only logged.      *)
SetEmailVerified(r) ==
  LET i == found[r] IN
  /\ At(r, "verify")
  /\ row' = IF Exists(i) THEN [row EXCEPT ![i].verified = TRUE] ELSE row
  /\ Goto(r, "tuple")
  /\ UNCHANGED <<tuple, found, drawn, moved, refused, faults>>

(* Variant: the unique constraints do not exist.                           *)
CreateAdmin_Twice(r) ==
  /\ At(r, "create")
  /\ \E i \in Id \ drawn :
       /\ row' = [row EXCEPT ![i] =
                    [email |-> TRUE, name |-> TRUE, verified |-> TRUE]]
       /\ drawn' = drawn \cup {i}
       /\ found' = [found EXCEPT ![r] = i]
  /\ Goto(r, "tuple")
  /\ UNCHANGED <<tuple, moved, refused, faults>>

(* Variant: an insert that is refused is tried again in place.             *)
CreateAdmin_Insist(r) ==
  /\ At(r, "create")
  /\ IF ByEmail \cup ByName = {}
       THEN /\ \E i \in Id \ drawn :
                 /\ row' = [row EXCEPT ![i] =
                      [email |-> TRUE, name |-> TRUE, verified |-> TRUE]]
                 /\ drawn' = drawn \cup {i}
                 /\ found' = [found EXCEPT ![r] = i]
            /\ Goto(r, "tuple")
       ELSE UNCHANGED <<row, drawn, found, pc>>
  /\ UNCHANGED <<tuple, moved, refused, faults>>

(* A name or an email that is taken refuses the insert: the start fails.   *)
CreateAdmin(r) ==
  /\ At(r, "create")
  /\ IF ByEmail \cup ByName = {}
       THEN /\ \E i \in Id \ drawn :
                 /\ row' = [row EXCEPT ![i] =
                      [email |-> TRUE, name |-> TRUE, verified |-> TRUE]]
                 /\ drawn' = drawn \cup {i}
                 /\ found' = [found EXCEPT ![r] = i]
            /\ Goto(r, "tuple")
            /\ UNCHANGED refused
       ELSE Down(r) /\ refused' = TRUE /\ UNCHANGED <<row, drawn>>
  /\ UNCHANGED <<tuple, moved, faults>>

(* Variant: the start goes on without waiting for the tuple.               *)
EnsureTuple_Skip(r) ==
  /\ At(r, "tuple")
  /\ Goto(r, "up")
  /\ UNCHANGED <<row, tuple, found, drawn, moved, refused, faults>>

(* ensurePlatformAdmin; a failure is logged and the start goes on.         *)
EnsureTuple(r) ==
  /\ At(r, "tuple")
  /\ \/ tuple' = tuple \cup {found[r]} /\ UNCHANGED faults
     \/ faults < MaxFaults /\ faults' = faults + 1 /\ UNCHANGED tuple
  /\ Goto(r, "up")
  /\ UNCHANGED <<row, found, drawn, moved, refused>>

(* A failed correction of the verification is logged; any other failed     *)
(* statement ends the start.                                               *)
StatementFails(r) ==
  /\ pc[r] \in {"query", "verify", "create"}
  /\ faults < MaxFaults
  /\ faults' = faults + 1
  /\ IF At(r, "verify") THEN Goto(r, "tuple") /\ UNCHANGED found ELSE Down(r)
  /\ UNCHANGED <<row, tuple, drawn, moved, refused>>

(* A replica is stopped or crashes, wherever it is.                        *)
Crash(r) ==
  /\ ~At(r, "down")
  /\ faults < MaxFaults
  /\ faults' = faults + 1
  /\ Down(r)
  /\ UNCHANGED <<row, tuple, drawn, moved, refused>>

-----------------------------------------------------------------------------
(* The other operations on the table, through any replica that is up: a    *)
(* sign-up with the seeded email or name, a change of email that takes or  *)
(* leaves the seeded one, a purge.                                         *)
Serving == \E r \in Replica : At(r, "up")

SignUp(i) ==
  /\ Serving
  /\ i \notin drawn
  /\ Cardinality(Id \ drawn) > 1     \* bound: an ID is left for the seeder
  /\ drawn' = drawn \cup {i}
  /\ \E e, n \in BOOLEAN :
       /\ e \/ n                      \* other accounts do not matter here
       /\ e => ByEmail = {}
       /\ n => ByName = {}
       /\ row' = [row EXCEPT ![i] =
                    [email |-> e, name |-> n, verified |-> FALSE]]
  /\ UNCHANGED <<tuple, pc, found, moved, refused, faults>>

ChangeEmail(i) ==
  /\ Serving
  /\ Exists(i)
  /\ IF row[i].email THEN moved < MaxChanges /\ moved' = moved + 1
                     ELSE ByEmail = {} /\ UNCHANGED moved
  /\ row' = [row EXCEPT ![i].email = ~@]
  /\ UNCHANGED <<tuple, pc, found, drawn, refused, faults>>

Purge(i) ==
  /\ Serving
  /\ Exists(i) /\ moved < MaxChanges
  /\ Cardinality(Id \ drawn) > 1
  /\ row' = [row EXCEPT ![i] = NoRow]
  /\ moved' = moved + 1
  /\ UNCHANGED <<tuple, pc, found, drawn, refused, faults>>

Init ==
  /\ row = [i \in Id |-> NoRow]
  /\ tuple = {} /\ drawn = {}
  /\ pc = [r \in Replica |-> "down"]
  /\ found = [r \in Replica |-> NoRow]
  /\ moved = 0 /\ refused = FALSE /\ faults = 0

Run(r) ==
  Start(r) \/ QueryAdmin(r) \/ SetEmailVerified(r) \/ CreateAdmin(r)
    \/ EnsureTuple(r)

People == \E i \in Id : SignUp(i) \/ ChangeEmail(i) \/ Purge(i)

Next ==
  \/ \E r \in Replica : Run(r) \/ StatementFails(r) \/ Crash(r)
  \/ People

Spec == Init /\ [][Next]_vars

(* A replica that is down is started again, and its start runs on.         *)
FairSpec == Spec /\ \A r \in Replica : WF_vars(Run(r))

-----------------------------------------------------------------------------
TypeOK ==
  /\ row \in [Id -> Row \cup {NoRow}]
  /\ tuple \subseteq Id
  /\ pc \in [Replica -> Label]
  /\ found \in [Replica -> Id \cup {NoRow}]
  /\ \A r \in Replica :
       /\ pc[r] \in {"verify", "tuple", "up"} => found[r] \in drawn
       /\ pc[r] \in {"down", "query", "create"} => found[r] = NoRow
  /\ drawn \subseteq Id
  /\ moved \in 0..MaxChanges
  /\ refused \in BOOLEAN
  /\ faults \in 0..MaxFaults

(* However many replicas start together, crash and start again, the        *)
(* platform has one administrator, and at most one more for every time the *)
(* seeded email changed hands by a purge or a change of email.             *)
OneAdmin == Cardinality(tuple) <= 1 + moved

(* A service that is up has its administrator: found by email, verified,   *)
(* with the tuple, unless a call failed or the account has changed.        *)
AdminReady ==
  moved = 0 /\ faults = 0 =>
    \A r \in Replica : At(r, "up") =>
      /\ found[r] \in ByEmail \cap tuple
      /\ row[found[r]].verified

(* Every replica is up in the end, however the starts collide, unless an   *)
(* account has changed.                                                    *)
AllUp == <>[](moved > 0 \/ \A r \in Replica : At(r, "up"))

(* "Each step is idempotent" (seed.go:34): where no call fails, a service  *)
(* that was started can be started again.                                  *)
StartsAgain == ~refused

-----------------------------------------------------------------------------
(* Why OneAdmin holds: whoever has the tuple, or is about to get it, has   *)
(* held the seeded email, which has one holder at a time and passes from   *)
(* one to the next only by a purge or a change of email.                   *)
RowsDrawn == \A i \in Id : Exists(i) => i \in drawn

Held == tuple \cup ByEmail \cup {i \in Id : \E r \in Replica : found[r] = i}

Hands ==
  /\ \A i, j \in ByEmail : i = j
  /\ IsFiniteSet(Held)
  /\ Cardinality(Held) <= moved + (IF ByEmail = {} THEN 0 ELSE 1)

(* Why AdminReady holds: each label of the start adds to what is ready.    *)
Ready ==
  moved = 0 /\ faults = 0 =>
    \A r \in Replica :
      /\ pc[r] \in {"verify", "tuple", "up"} => found[r] \in ByEmail
      /\ pc[r] \in {"tuple", "up"} => row[found[r]].verified
      /\ At(r, "up") => found[r] \in tuple

IInv == TypeOK /\ RowsDrawn /\ Hands /\ Ready
=============================================================================
