----------------------------- MODULE JwksClient -----------------------------
(***************************************************************************)
(* The client of a JSON Web Key Set endpoint (pkg/jwks/client.go): a       *)
(* verifier cached for cacheTTL behind a read-write lock, checked again    *)
(* under the write lock before it is fetched.  Callers run concurrently;   *)
(* meanwhile time passes and the issuer rotates its keys: a verifier is    *)
(* named by the generation of the keys it was built from.  A fetch takes   *)
(* any time and may fail.                                                  *)
(*                                                                         *)
(* stamped, seen and call record what the properties speak of: when the    *)
(* cached verifier was stored, the newest one returned so far, and for     *)
(* each call when it began, what had been returned by then, what it        *)
(* returned and when that had been stored.                                 *)
(***************************************************************************)
EXTENDS RWLock, Naturals

CONSTANTS
  CacheTTL,
  MaxTime,      \* bound: how long the clock runs
  MaxGen        \* bound: how often the issuer rotates its keys

ASSUME JwksAssumption == CacheTTL \in Nat /\ MaxTime \in Nat /\ MaxGen \in Nat

VARIABLES
  verifier, lastFetch,     \* the fields of Client; verifier 0 is nil
  pc,                      \* where each caller is in Verifier
  built,                   \* what fetchAndBuild returned to it
  now, gen,                \* the clock; the keys the issuer publishes
  stamped, seen, call

cache == <<verifier, lastFetch, stamped>>
world == <<now, gen>>
record == <<seen, call>>
vars == <<lock, cache, pc, built, world, record>>

Label == {"idle", "rlock", "unlocked", "lock", "get", "store", "stamp"}
Fetching == {"get", "store", "stamp"}
NoCall == [since |-> 0, floor |-> 0, ret |-> 0, stored |-> 0]

Goto(c, l) == pc' = [pc EXCEPT ![c] = l]

Fresh == verifier # 0 /\ now - lastFetch < CacheTTL

(* The call returns the verifier v, which was stored at time t.            *)
Return(c, v, t) ==
  /\ Goto(c, "idle")
  /\ call' = [call EXCEPT ![c].ret = v, ![c].stored = t]
  /\ seen' = IF v > seen THEN v ELSE seen

-----------------------------------------------------------------------------
(* Verifier *)

Call(c) ==
  /\ pc[c] = "idle"
  /\ RLock(c)
  /\ Goto(c, "rlock")
  /\ call' = [call EXCEPT ![c] = [NoCall EXCEPT !.since = now, !.floor = seen]]
  /\ UNCHANGED <<cache, built, world, seen>>

ReadCache(c) ==
  /\ pc[c] = "rlock" /\ Reads(c)
  /\ RUnlock(c)
  /\ IF Fresh
       THEN Return(c, verifier, stamped)
       ELSE Goto(c, "unlocked") /\ UNCHANGED record
  /\ UNCHANGED <<cache, built, world>>

AskLock(c) ==
  /\ pc[c] = "unlocked"
  /\ Lock(c)
  /\ Goto(c, "lock")
  /\ UNCHANGED <<cache, built, world, record>>

(* Variants: no second check; the lock is released for the fetch.          *)
Recheck_None(c) ==
  /\ pc[c] = "lock" /\ Writes(c)
  /\ Goto(c, "get")
  /\ UNCHANGED <<lock, cache, built, world, record>>

Recheck_Release(c) ==
  /\ pc[c] = "lock" /\ Writes(c)
  /\ Unlock(c)
  /\ IF Fresh
       THEN Return(c, verifier, stamped)
       ELSE Goto(c, "get") /\ UNCHANGED record
  /\ UNCHANGED <<cache, built, world>>

Recheck(c) ==
  /\ pc[c] = "lock" /\ Writes(c)
  /\ IF Fresh
       THEN Return(c, verifier, stamped) /\ Unlock(c)
       ELSE Goto(c, "get") /\ UNCHANGED <<lock, record>>
  /\ UNCHANGED <<cache, built, world>>

(* fetchAndBuild: the issuer answers with the keys of that moment.         *)
FetchKeys(c) ==
  /\ pc[c] = "get"
  /\ built' = [built EXCEPT ![c] = gen]
  /\ Goto(c, "store")
  /\ UNCHANGED <<lock, cache, world, record>>

(* Variants: the caller tries again; a failure counts as a fetch.          *)
FetchFails_Retry(c) ==
  /\ pc[c] = "get"
  /\ Unlock(c)
  /\ Goto(c, "unlocked")
  /\ UNCHANGED <<cache, built, world, record>>

FetchFails_Stamp(c) ==
  /\ pc[c] = "get"
  /\ lastFetch' = now
  /\ Unlock(c)
  /\ Goto(c, "idle")
  /\ UNCHANGED <<verifier, stamped, built, world, record>>

(* No answer, another status than 200, a body or a key that does not       *)
(* parse: the error is returned and the cache stays as it is.              *)
FetchFails(c) ==
  /\ pc[c] = "get"
  /\ Unlock(c)
  /\ Goto(c, "idle")
  /\ UNCHANGED <<cache, built, world, record>>

StoreVerifier(c) ==
  /\ pc[c] = "store"
  /\ verifier' = built[c]
  /\ Goto(c, "stamp")
  /\ UNCHANGED <<lock, lastFetch, stamped, built, world, record>>

(* lastFetch is the time after the fetch; the deferred unlock follows.     *)
StampFetch(c) ==
  /\ pc[c] = "stamp"
  /\ lastFetch' = now
  /\ stamped' = now
  /\ Unlock(c)
  /\ Return(c, built[c], now)
  /\ UNCHANGED <<verifier, built, world>>

-----------------------------------------------------------------------------
(* The clock and the issuer *)

Tick ==
  /\ now < MaxTime
  /\ now' = now + 1
  /\ UNCHANGED <<lock, cache, pc, built, gen, record>>

Rotate ==
  /\ gen < MaxGen
  /\ gen' = gen + 1
  /\ UNCHANGED <<lock, cache, pc, built, now, record>>

Init ==
  /\ LockInit
  /\ verifier = 0 /\ lastFetch = 0 /\ stamped = 0
  /\ pc = [c \in Caller |-> "idle"]
  /\ built = [c \in Caller |-> 0]
  /\ now = 0 /\ gen = 1
  /\ seen = 0 /\ call = [c \in Caller |-> NoCall]

Step(c) ==
  \/ ReadCache(c) \/ AskLock(c) \/ Recheck(c)
  \/ FetchKeys(c) \/ FetchFails(c) \/ StoreVerifier(c) \/ StampFetch(c)

Next ==
  \/ \E c \in Caller : Call(c) \/ Step(c)
  \/ Tick \/ Rotate

Spec == Init /\ [][Next]_vars

(* A caller that holds the lock runs on, and its fetch ends: the issuer    *)
(* answers or the connection breaks.                                       *)
FairSpec == Spec /\ \A c \in Caller : WF_vars(Step(c))

-----------------------------------------------------------------------------
TypeOK ==
  /\ LockTypeOK
  /\ verifier \in 0..gen /\ lastFetch \in 0..now /\ stamped \in 0..now
  /\ pc \in [Caller -> Label]
  /\ built \in [Caller -> 0..gen]
  /\ now \in Nat /\ gen \in Nat /\ seen \in Nat
  /\ call \in [Caller -> [since : Nat, floor : Nat, ret : Nat, stored : Nat]]

(* However many callers find the cache expired at once, one of them        *)
(* fetches and stores, and nobody else touches the cache meanwhile ...     *)
OneFetch ==
  \A c \in Caller : pc[c] \in Fetching =>
    /\ \A d \in Caller \ {c} : pc[d] \notin Fetching
    /\ readers = {}

(* ... and the callers that waited for it use what it stored: within       *)
(* CacheTTL of a stored verifier nobody fetches again.                     *)
NoNeedlessFetch ==
  [][\A c \in Caller : pc[c] # "get" /\ pc'[c] = "get" =>
       verifier = 0 \/ now - stamped >= CacheTTL]_vars

(* A call never returns a verifier that had expired when the call began.   *)
NeverExpired ==
  \A c \in Caller : call[c].ret # 0 =>
    \/ call[c].stored >= call[c].since
    \/ call[c].since - call[c].stored < CacheTTL

(* Key generations never run backwards for the callers: what a call        *)
(* returns is at least as new as all that was returned before it began.    *)
NeverOlder == \A c \in Caller : call[c].ret # 0 => call[c].ret >= call[c].floor

(* Why they hold: whoever fetches holds the write lock, the cached         *)
(* verifier never goes backwards, and the two times of a fetch agree.      *)
FetcherHolds == \A c \in Caller : pc[c] \in Fetching => Writes(c)

CacheGrows ==
  /\ lastFetch = stamped
  /\ seen <= verifier
  /\ \A c \in Caller :
       /\ pc[c] = "store" => verifier <= built[c]
       /\ pc[c] = "stamp" => verifier = built[c]
       /\ call[c].since <= now /\ call[c].floor <= seen

IInv == TypeOK /\ FetcherHolds /\ CacheGrows /\ NeverExpired /\ NeverOlder

(* Every call returns, with a verifier or an error.                        *)
CallsReturn == \A c \in Caller : pc[c] # "idle" ~> pc[c] = "idle"
=============================================================================
