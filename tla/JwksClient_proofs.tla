-------------------------- MODULE JwksClient_proofs --------------------------
(***************************************************************************)
(* The safety of the key set client for every set of callers, every time   *)
(* to live and every bound: IInv is inductive.  The caller between its     *)
(* second look at the cache and the stamp of its fetch is the first writer *)
(* of the lock, so the cache stands still for everybody else; the keys it  *)
(* fetches are at least as new as the cached ones.                         *)
(***************************************************************************)
EXTENDS JwksClient, TLAPS, SequenceTheorems

LEMMA InitInv == Init => IInv
BY JwksAssumption
   DEF Init, LockInit, IInv, TypeOK, LockTypeOK, FetcherHolds, CacheGrows,
       NeverExpired, NeverOlder, Label, Fetching, NoCall

-----------------------------------------------------------------------------
(* The lock: its type is kept, and whoever writes goes on writing until it *)
(* unlocks.                                                                *)

LEMMA Locks ==
  ASSUME LockTypeOK, NEW c \in Caller,
         RLock(c) \/ RUnlock(c) \/ Lock(c) \/ Unlock(c) \/ UNCHANGED lock
  PROVE  LockTypeOK'
<1> USE DEF LockTypeOK
<1>1. CASE RLock(c) BY <1>1 DEF RLock
<1>2. CASE RUnlock(c) BY <1>2 DEF RUnlock
<1>3. CASE Lock(c) BY <1>3 DEF Lock
<1>4. CASE Unlock(c) BY <1>4 DEF Unlock
<1>5. CASE UNCHANGED lock BY <1>5 DEF lock
<1>6. QED BY <1>1, <1>2, <1>3, <1>4, <1>5

LEMMA KeepsWriting ==
  ASSUME LockTypeOK, NEW c \in Caller, NEW d \in Caller, Writes(d),
         RLock(c) \/ RUnlock(c) \/ Lock(c) \/ UNCHANGED lock
  PROVE  Writes(d)'
<1> USE DEF LockTypeOK, Writes
<1>1. CASE RLock(c) BY <1>1 DEF RLock
<1>2. CASE RUnlock(c) BY <1>2 DEF RUnlock
<1>3. CASE Lock(c) BY <1>3 DEF Lock
<1>4. CASE UNCHANGED lock BY <1>4 DEF lock
<1>5. QED BY <1>1, <1>2, <1>3, <1>4

(* A fetcher is alone: the write lock is one caller's.                     *)
LEMMA Alone ==
  ASSUME FetcherHolds
  PROVE  OneFetch
BY DEF FetcherHolds, OneFetch, Writes

-----------------------------------------------------------------------------
(* The type invariant, one step per action.                                *)
LEMMA TypeStep ==
  ASSUME IInv, [Next]_vars
  PROVE  TypeOK'
<1> USE JwksAssumption DEF IInv, TypeOK, Label
<1>1. ASSUME NEW c \in Caller, Call(c) PROVE TypeOK'
  BY <1>1, Locks DEF Call, Goto, cache, world, NoCall
<1>2. ASSUME NEW c \in Caller, ReadCache(c) PROVE TypeOK'
  BY <1>2, Locks DEF ReadCache, Goto, Return, cache, world, record
<1>3. ASSUME NEW c \in Caller, AskLock(c) PROVE TypeOK'
  BY <1>3, Locks DEF AskLock, Goto, cache, world, record
<1>4. ASSUME NEW c \in Caller, Recheck(c) PROVE TypeOK'
  <2>1. LockTypeOK' BY <1>4, Locks DEF Recheck
  <2>2. CASE Fresh
    BY <1>4, <2>1, <2>2 DEF Recheck, Goto, Return, cache, world
  <2>3. CASE ~Fresh
    BY <1>4, <2>1, <2>3 DEF Recheck, Goto, cache, world, record
  <2>4. QED BY <2>2, <2>3
<1>5. ASSUME NEW c \in Caller, FetchKeys(c) PROVE TypeOK'
  BY <1>5, Locks DEF FetchKeys, Goto, cache, world, record
<1>6. ASSUME NEW c \in Caller, FetchFails(c) PROVE TypeOK'
  BY <1>6, Locks DEF FetchFails, Goto, cache, world, record
<1>7. ASSUME NEW c \in Caller, StoreVerifier(c) PROVE TypeOK'
  BY <1>7, Locks DEF StoreVerifier, Goto, world, record
<1>8. ASSUME NEW c \in Caller, StampFetch(c) PROVE TypeOK'
  <2>1. LockTypeOK' BY <1>8, Locks DEF StampFetch
  <2>2. /\ lastFetch' = now /\ stamped' = now
        /\ UNCHANGED <<verifier, built, now, gen>>
    BY <1>8 DEF StampFetch, world
  <2>3. pc' \in [Caller -> Label] BY <1>8 DEF StampFetch, Goto, Return
  <2>4. call' \in [Caller -> [since : Nat, floor : Nat, ret : Nat,
                              stored : Nat]]
    <3>1. built[c] \in Nat /\ now \in Nat OBVIOUS
    <3>2. call' = [call EXCEPT ![c].ret = built[c], ![c].stored = now]
      BY <1>8 DEF StampFetch, Return
    <3>3. QED BY <3>1, <3>2
  <2>5. seen' \in Nat BY <1>8 DEF StampFetch, Return
  <2>6. QED BY <2>1, <2>2, <2>3, <2>4, <2>5
<1>9. ASSUME Tick \/ Rotate \/ UNCHANGED vars PROVE TypeOK'
  BY <1>9 DEF Tick, Rotate, vars, lock, LockTypeOK, cache, world, record
<1>10. QED
  BY <1>1, <1>2, <1>3, <1>4, <1>5, <1>6, <1>7, <1>8, <1>9 DEF Next, Step

(* A caller begins to fetch as the writer; only the writer itself unlocks. *)
LEMMA HoldsStep ==
  ASSUME IInv, [Next]_vars
  PROVE  FetcherHolds'
<1> USE DEF IInv, TypeOK, FetcherHolds, Fetching
<1>1. ASSUME NEW c \in Caller,
             Call(c) \/ ReadCache(c) \/ AskLock(c) \/ FetchKeys(c)
               \/ StoreVerifier(c)
      PROVE  FetcherHolds'
  <2>1. RLock(c) \/ RUnlock(c) \/ Lock(c) \/ UNCHANGED lock
    BY <1>1 DEF Call, ReadCache, AskLock, FetchKeys, StoreVerifier
  <2>2. \A d \in Caller : pc'[d] \in Fetching => pc[d] \in Fetching
    BY <1>1 DEF Call, ReadCache, AskLock, FetchKeys, StoreVerifier, Goto,
                Return
  <2>3. QED BY <2>1, <2>2, KeepsWriting
<1>2. ASSUME NEW c \in Caller, FetchFails(c) \/ StampFetch(c)
      PROVE  FetcherHolds'
  <2>1. \A d \in Caller : pc'[d] \notin Fetching
    BY <1>2, Alone DEF OneFetch, FetchFails, StampFetch, Goto, Return
  <2>2. QED BY <2>1
<1>3. ASSUME NEW c \in Caller, Recheck(c) PROVE FetcherHolds'
  <2>1. \A d \in Caller \ {c} : pc[d] \notin Fetching
    BY <1>3 DEF Recheck, Writes
  <2>2. CASE Fresh
    BY <1>3, <2>1, <2>2 DEF Recheck, Goto, Return
  <2>3. CASE ~Fresh
    BY <1>3, <2>1, <2>3 DEF Recheck, Goto, lock, Writes
  <2>4. QED BY <2>2, <2>3
<1>4. ASSUME Tick \/ Rotate \/ UNCHANGED vars PROVE FetcherHolds'
  BY <1>4 DEF Tick, Rotate, vars, lock, Writes
<1>5. QED BY <1>1, <1>2, <1>3, <1>4 DEF Next, Step

(* What a call returns was cached: it is as new as all returned before,    *)
(* and it was fresh when it was read, so also when the call began.         *)
LEMMA CacheStep ==
  ASSUME IInv, [Next]_vars
  PROVE  CacheGrows' /\ NeverExpired' /\ NeverOlder'
<1> DEFINE Kept == CacheGrows' /\ NeverExpired' /\ NeverOlder'
<1> USE JwksAssumption
      DEF IInv, TypeOK, CacheGrows, NeverExpired, NeverOlder
<1>1. ASSUME NEW c \in Caller, Call(c) PROVE Kept
  BY <1>1 DEF Call, Goto, cache, world, NoCall
<1>2. ASSUME NEW c \in Caller, ReadCache(c) \/ Recheck(c) PROVE Kept
  <2>1. UNCHANGED <<cache, built, world>> BY <1>2 DEF ReadCache, Recheck
  <2>2. CASE Fresh
    <3>1. Return(c, verifier, stamped) BY <1>2, <2>2 DEF ReadCache, Recheck
    <3>2. seen' = verifier
      <4>1. verifier \in Nat /\ seen \in Nat /\ seen <= verifier OBVIOUS
      <4>2. seen' = IF verifier > seen THEN verifier ELSE seen
        BY <3>1 DEF Return
      <4>3. QED BY ONLY <4>1, <4>2
    <3>3. /\ pc' = [pc EXCEPT ![c] = "idle"]
          /\ call' = [call EXCEPT ![c].ret = verifier, ![c].stored = stamped]
      BY <3>1 DEF Return, Goto
    <3>4. now - stamped < CacheTTL BY <2>2 DEF Fresh
    <3>5. CacheGrows' BY <2>1, <3>2, <3>3 DEF cache, world
    <3>6. NeverExpired' BY <2>1, <3>3, <3>4 DEF cache, world
    <3>7. NeverOlder' BY <2>1, <3>3
    <3>8. QED BY <3>5, <3>6, <3>7
  <2>3. CASE ~Fresh
    BY <1>2, <2>1, <2>3 DEF ReadCache, Recheck, Goto, cache, world, record
  <2>4. QED BY <2>2, <2>3
<1>3. ASSUME NEW c \in Caller, AskLock(c) \/ FetchFails(c) PROVE Kept
  BY <1>3 DEF AskLock, FetchFails, Goto, cache, world, record
<1>4. ASSUME NEW c \in Caller, FetchKeys(c) PROVE Kept
  BY <1>4 DEF FetchKeys, Goto, cache, world, record
<1>5. ASSUME NEW c \in Caller, StoreVerifier(c) PROVE Kept
  <2>1. \A d \in Caller \ {c} : pc[d] \notin {"store", "stamp"}
    BY <1>5, Alone DEF OneFetch, Fetching, StoreVerifier
  <2>2. QED BY <1>5, <2>1 DEF StoreVerifier, Goto, world, record
<1>6. ASSUME NEW c \in Caller, StampFetch(c) PROVE Kept
  BY <1>6 DEF StampFetch, Goto, Return, world
<1>7. ASSUME Tick \/ Rotate \/ UNCHANGED vars PROVE Kept
  BY <1>7 DEF Tick, Rotate, vars, cache, world, record
<1>8. QED
  BY <1>1, <1>2, <1>3, <1>4, <1>5, <1>6, <1>7 DEF Next, Step

(* Every reachable state satisfies the inductive invariant.                *)
THEOREM Inductive == Spec => []IInv
<1>1. IInv /\ [Next]_vars => IInv'
  BY TypeStep, HoldsStep, CacheStep DEF IInv
<1>2. QED BY InitInv, <1>1, PTL DEF Spec

(* The types of the cache, of the lock and of what every caller holds.     *)
THEOREM TypeCorrect == Spec => []TypeOK
BY Inductive, PTL DEF IInv

(* Verifier: one caller at a time fetches, and the others leave the cache  *)
(* alone until it is done.                                                 *)
THEOREM FetchAlone == Spec => []OneFetch
<1>1. IInv => OneFetch BY Alone DEF IInv
<1>2. QED BY Inductive, <1>1, PTL

(* The second check of Verifier: a fetch begins only when no verifier has  *)
(* been stored for cacheTTL.                                               *)
THEOREM NoHerd == Spec => NoNeedlessFetch
<1> DEFINE Needed ==
      \A c \in Caller : pc[c] # "get" /\ pc'[c] = "get" =>
        verifier = 0 \/ now - stamped >= CacheTTL
<1>1. ASSUME IInv, [Next]_vars PROVE Needed
  <2> USE <1>1 DEF IInv, TypeOK
  <2>1. ASSUME NEW c \in Caller, Recheck(c) PROVE Needed
    BY <2>1, JwksAssumption DEF Recheck, Fresh, Goto, Return, CacheGrows
  <2>2. ASSUME NEW c \in Caller, Call(c) \/ (Step(c) /\ ~Recheck(c))
        PROVE  Needed
    BY <2>2 DEF Call, Step, ReadCache, AskLock, FetchKeys, FetchFails,
                StoreVerifier, StampFetch, Goto, Return
  <2>3. ASSUME Tick \/ Rotate \/ UNCHANGED vars PROVE Needed
    BY <2>3 DEF Tick, Rotate, vars
  <2>4. QED BY <1>1, <2>1, <2>2, <2>3 DEF Next
<1>2. QED BY Inductive, <1>1, PTL DEF Spec, NoNeedlessFetch

(* A call of Verifier returns nothing that had expired when it began.      *)
THEOREM FreshReturned == Spec => []NeverExpired
BY Inductive, PTL DEF IInv

(* A call of Verifier returns keys at least as new as all those returned   *)
(* before it began.                                                        *)
THEOREM NewReturned == Spec => []NeverOlder
BY Inductive, PTL DEF IInv
=============================================================================
