-------------------------------- MODULE Cap --------------------------------
(***************************************************************************)
(* The proof-of-work captcha server (pkg/cap/cap.go): a challenge is       *)
(* stored in Redis, redeemed for a verification token, and the token       *)
(* validated by the operation it protects, the sign-up.  Requests run      *)
(* concurrently, and several may present the same challenge or token; a    *)
(* Redis command is one step and may fail, and a request may be broken off *)
(* between two of them.                                                    *)
(*                                                                         *)
(* Whether a list of solutions hashes to its targets is an input, right or *)
(* wrong: the hashes and the pseudo-random salts only matter to who solves *)
(* them.  stem, created, passed and entries record what the properties     *)
(* speak of.                                                               *)
(***************************************************************************)
EXTENDS Naturals

CONSTANTS
  Req,              \* requests to RedeemChallenge in flight
  Challenge,        \* challenge tokens: 25 random bytes, never drawn twice
  Ticket,           \* verification tokens, likewise
  NoChallenge,
  ExpiresIn, TicketTTL,
  MaxTime           \* bound: how long the clock runs

ASSUME CapAssumption ==
  /\ NoChallenge \notin Challenge /\ Challenge \cap Ticket = {}
  /\ ExpiresIn \in Nat \ {0} /\ TicketTTL \in Nat \ {0} /\ MaxTime \in Nat

VARIABLES
  now,
  opened,     \* cap:challenge:<c>: when the record expires; NoRecord if none
  drawn,      \* challenge and verification tokens drawn so far
  ticket,     \* cap:token:<id>:<hash>: when the key expires; NoRecord if none
  pc, held,   \* a request, and the challenge it has taken
  expires,    \* ... the Expires field of its record
  right,      \* ... whether its solutions hash to their targets
  stem,       \* the challenge a verification token was granted for
  created,    \* per challenge, when it was created
  passed,     \* ... and when its solutions were accepted
  entries     \* how often a challenge's tokens were found valid

NoRecord == 0
store == <<opened, ticket>>
requests == <<pc, held, expires, right>>
record == <<stem, created, passed, entries>>
vars == <<now, store, drawn, requests, record>>

(* The request answers, and forgets what it took.                          *)
Release(q) ==
  /\ pc' = [pc EXCEPT ![q] = "idle"]
  /\ held' = [held EXCEPT ![q] = NoChallenge]
  /\ UNCHANGED <<expires, right>>

-----------------------------------------------------------------------------
(* CreateChallenge: expires is computed first, and the key's time to live  *)
(* starts when Redis runs the command, so the key never dies before the    *)
(* record does.                                                            *)
CreateChallenge(c) ==
  /\ c \notin drawn
  /\ drawn' = drawn \cup {c}
  /\ opened' = [opened EXCEPT ![c] = now + ExpiresIn]
  /\ created' = [created EXCEPT ![c] = now]
  /\ UNCHANGED <<now, ticket, requests, stem, passed, entries>>

(* Variant: the record is read and left in place.                          *)
TakeChallenge_Get(q, c, ok) ==
  /\ pc[q] = "idle"
  /\ opened[c] # NoRecord
  /\ pc' = [pc EXCEPT ![q] = "check"]
  /\ held' = [held EXCEPT ![q] = c]
  /\ expires' = [expires EXCEPT ![q] = opened[c]]
  /\ right' = [right EXCEPT ![q] = ok]
  /\ UNCHANGED <<now, store, drawn, record>>

(* RedeemChallenge, first command: GetDel of the record.  Without one the  *)
(* answer is "invalid or expired", and nothing changes.                    *)
TakeChallenge(q, c, ok) ==
  /\ pc[q] = "idle"
  /\ opened[c] # NoRecord
  /\ opened' = [opened EXCEPT ![c] = NoRecord]
  /\ pc' = [pc EXCEPT ![q] = "check"]
  /\ held' = [held EXCEPT ![q] = c]
  /\ expires' = [expires EXCEPT ![q] = opened[c]]
  /\ right' = [right EXCEPT ![q] = ok]
  /\ UNCHANGED <<now, ticket, drawn, record>>

(* Variant: the key's time to live is trusted to end the record.           *)
CheckSolutions_NoExpiry(q) ==
  /\ pc[q] = "check"
  /\ IF right[q]
       THEN /\ pc' = [pc EXCEPT ![q] = "save"]
            /\ passed' = [passed EXCEPT ![held[q]] = now]
            /\ UNCHANGED <<held, expires, right>>
       ELSE Release(q) /\ UNCHANGED passed
  /\ UNCHANGED <<now, store, drawn, stem, created, entries>>

(* The record must not have expired and every solution must be right; a    *)
(* wrong number of solutions is a wrong list.                              *)
CheckSolutions(q) ==
  /\ pc[q] = "check"
  /\ IF expires[q] >= now /\ right[q]
       THEN /\ pc' = [pc EXCEPT ![q] = "save"]
            /\ passed' = [passed EXCEPT ![held[q]] = now]
            /\ UNCHANGED <<held, expires, right>>
       ELSE Release(q) /\ UNCHANGED passed
  /\ UNCHANGED <<now, store, drawn, stem, created, entries>>

(* The verification token is drawn, its key set and the token returned.    *)
GrantTicket(q, k) ==
  /\ pc[q] = "save"
  /\ k \notin drawn
  /\ drawn' = drawn \cup {k}
  /\ ticket' = [ticket EXCEPT ![k] = now + TicketTTL]
  /\ stem' = [stem EXCEPT ![k] = held[q]]
  /\ Release(q)
  /\ UNCHANGED <<now, opened, created, passed, entries>>

(* GetDel or Set failed, or the request was broken off: the challenge it   *)
(* has taken is gone all the same.                                         *)
Fail(q) ==
  /\ pc[q] # "idle"
  /\ Release(q)
  /\ UNCHANGED <<now, store, drawn, record>>

(* Variant: the key is read and left in place.                             *)
ValidateToken_Get(k) ==
  /\ ticket[k] # NoRecord
  /\ entries' = [entries EXCEPT ![stem[k]] = @ + 1]
  /\ UNCHANGED <<now, store, drawn, requests, stem, created, passed>>

(* ValidateToken: GetDel of the key; a malformed token, no key or a failed *)
(* command mean false, and nothing changes.                                *)
ValidateToken(k) ==
  /\ ticket[k] # NoRecord
  /\ ticket' = [ticket EXCEPT ![k] = NoRecord]
  /\ entries' = [entries EXCEPT ![stem[k]] = @ + 1]
  /\ UNCHANGED <<now, opened, drawn, requests, stem, created, passed>>

(* GetDel took effect, but its answer was an error: false, and no key.     *)
ValidateLost(k) ==
  /\ ticket[k] # NoRecord
  /\ ticket' = [ticket EXCEPT ![k] = NoRecord]
  /\ UNCHANGED <<now, opened, drawn, requests, record>>

-----------------------------------------------------------------------------
(* The clock, and Redis ending keys: at the end of their time to live or,  *)
(* seen from the service's clock, later.                                   *)
Tick ==
  /\ now < MaxTime
  /\ now' = now + 1
  /\ UNCHANGED <<store, drawn, requests, record>>

ChallengeEnds(c) ==
  /\ opened[c] # NoRecord /\ now >= opened[c]
  /\ opened' = [opened EXCEPT ![c] = NoRecord]
  /\ UNCHANGED <<now, ticket, drawn, requests, record>>

TicketEnds(k) ==
  /\ ticket[k] # NoRecord /\ now >= ticket[k]
  /\ ticket' = [ticket EXCEPT ![k] = NoRecord]
  /\ UNCHANGED <<now, opened, drawn, requests, record>>

Init ==
  /\ now = 0 /\ drawn = {}
  /\ opened = [c \in Challenge |-> NoRecord]
  /\ ticket = [k \in Ticket |-> NoRecord]
  /\ pc = [q \in Req |-> "idle"]
  /\ held = [q \in Req |-> NoChallenge]
  /\ expires = [q \in Req |-> 0]
  /\ right = [q \in Req |-> FALSE]
  /\ stem = [k \in Ticket |-> NoChallenge]
  /\ created = [c \in Challenge |-> 0]
  /\ passed = [c \in Challenge |-> 0]
  /\ entries = [c \in Challenge |-> 0]

Handle(q) ==
  CheckSolutions(q) \/ Fail(q) \/ \E k \in Ticket : GrantTicket(q, k)

Redis ==
  \/ \E c \in Challenge : ChallengeEnds(c)
  \/ \E k \in Ticket : TicketEnds(k)

Next ==
  \/ \E c \in Challenge : CreateChallenge(c)
  \/ \E q \in Req : Handle(q)
  \/ \E q \in Req, c \in Challenge, ok \in BOOLEAN : TakeChallenge(q, c, ok)
  \/ \E k \in Ticket : ValidateToken(k) \/ ValidateLost(k)
  \/ Tick \/ Redis

Spec == Init /\ [][Next]_vars

-----------------------------------------------------------------------------
TypeOK ==
  /\ now \in Nat
  /\ drawn \in SUBSET (Challenge \cup Ticket)
  /\ opened \in [Challenge -> Nat]
  /\ ticket \in [Ticket -> Nat]
  /\ pc \in [Req -> {"idle", "check", "save"}]
  /\ held \in [Req -> Challenge \cup {NoChallenge}]
  /\ \A q \in Req : pc[q] = "idle" <=> held[q] = NoChallenge
  /\ expires \in [Req -> Nat]
  /\ right \in [Req -> BOOLEAN]
  /\ stem \in [Ticket -> Challenge \cup {NoChallenge}]
  /\ created \in [Challenge -> Nat]
  /\ passed \in [Challenge -> Nat]
  /\ entries \in [Challenge -> Nat]

(* However often a challenge is presented, and by however many requests at *)
(* once, it is granted one verification token and lets one entry through.  *)
OneEntryPerChallenge ==
  /\ \A k1, k2 \in Ticket :
       stem[k1] = stem[k2] /\ stem[k1] # NoChallenge => k1 = k2
  /\ \A c \in Challenge : entries[c] <= 1

(* No solution is accepted later than the time announced to the client     *)
(* with the challenge, however long Redis keeps the key.                   *)
SolvedInTime ==
  \A k \in Ticket : stem[k] # NoChallenge =>
    passed[stem[k]] <= created[stem[k]] + ExpiresIn

(* Why OneEntryPerChallenge holds: a challenge is in one place at a time,  *)
(* stored, taken by one request, granted as one token, or used up.         *)
Granted(c) == \E k \in Ticket : stem[k] = c

HeldOnce(q) ==
  held[q] # NoChallenge =>
    /\ held[q] \in drawn /\ ~Granted(held[q])
    /\ \A r \in Req \ {q} : held[r] # held[q]

OnePlace ==
  /\ \A c \in Challenge : opened[c] # NoRecord =>
       c \in drawn /\ ~Granted(c) /\ \A q \in Req : held[q] # c
  /\ \A q \in Req : HeldOnce(q)
  /\ \A k \in Ticket : stem[k] # NoChallenge => {k, stem[k]} \subseteq drawn
  /\ \A k \in Ticket : ticket[k] # NoRecord =>
       stem[k] # NoChallenge /\ entries[stem[k]] = 0
  /\ \A c \in Challenge : ~Granted(c) => entries[c] = 0

(* Why SolvedInTime holds: a record carries the time announced with its    *)
(* challenge, wherever it is.                                              *)
Announced ==
  /\ \A c \in Challenge :
       opened[c] # NoRecord => opened[c] = created[c] + ExpiresIn
  /\ \A q \in Req :
       /\ pc[q] = "check" => expires[q] = created[held[q]] + ExpiresIn
       /\ pc[q] = "save" => passed[held[q]] <= created[held[q]] + ExpiresIn

IInv ==
  TypeOK /\ OneEntryPerChallenge /\ SolvedInTime /\ OnePlace /\ Announced
=============================================================================
