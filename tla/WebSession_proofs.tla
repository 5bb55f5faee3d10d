------------------------- MODULE WebSession_proofs -------------------------
(***************************************************************************)
(* The session of the web client for every number of accounts, pairs of    *)
(* tokens and calls in flight: whose user the tab shows, and that refusals *)
(* and logouts last.                                                       *)
(***************************************************************************)
EXTENDS WebSession, FiniteSetTheorems, TLAPS

(* What the functions of the store do to the parts of it.                  *)
LEMMA Stores ==
  ASSUME NEW s \in Store, NEW p \in Pair, NEW u \in Account, NEW b \in BOOLEAN
  PROVE  /\ setTokens(s, p) \in Store /\ setUser(s, u) \in Store
         /\ setLoginExpired(s, b) \in Store
         /\ setTokens(s, p).mem.pair = p
         /\ setTokens(s, p).disk.pair \in {p, s.disk.pair}
         /\ setTokens(s, p).mem.user = s.mem.user
         /\ setTokens(s, p).disk.user = s.disk.user
         /\ setUser(s, u).mem.pair = s.mem.pair
         /\ setUser(s, u).disk.pair = s.disk.pair
         /\ setUser(s, u).mem.user = u /\ setUser(s, u).disk.user = u
         /\ setLoginExpired(s, b).mem.pair = s.mem.pair
         /\ setLoginExpired(s, b).mem.user = s.mem.user
         /\ setLoginExpired(s, b).disk = s.disk
BY DEF Store, Copy, AuthState, setTokens, setUser, setLoginExpired

LEMMA Cleared ==
  ASSUME NEW s
  PROVE  /\ clearAuth(s) \in Store
         /\ clearAuth(s).mem.pair = None /\ clearAuth(s).mem.user = None
         /\ clearAuth(s).disk.pair = None /\ clearAuth(s).disk.user = None
BY DEF clearAuth, authStore, Empty, Store, Copy, AuthState

LEMMA Opened ==
  ASSUME NEW d \in Copy
  PROVE  /\ authStore(d) \in AuthState
         /\ authStore(d).pair = d.pair /\ authStore(d).user = d.user
BY DEF authStore, Copy, AuthState

LEMMA InitInv == Init => IInv
<1> SUFFICES ASSUME Init PROVE IInv OBVIOUS
<1> USE WebAssumption, StoreAssumption DEF Init
<1>1. Empty \in Copy /\ Empty.pair = None /\ Empty.user = None
  BY DEF Empty, Copy
<1>2. /\ store.disk = Empty /\ store.mem \in AuthState
      /\ store.mem.pair = None /\ store.mem.user = None
  BY <1>1, Opened
<1>3. TypeOK
  <2>1. Cardinality({}) = 0 BY FS_EmptySet
  <2>2. store \in Store BY <1>1, Opened DEF Store
  <2>3. calls \subseteq Call /\ Cardinality(calls) <= MaxCalls BY <2>1
  <2>4. QED BY <2>2, <2>3 DEF TypeOK, Page
<1>4. QED
  BY <1>1, <1>2, <1>3
  DEF IInv, Known, Held, Drawn, Recorded, Lonely, UserIsOwner, Belongs,
      RefusedGone, SignedOut

-----------------------------------------------------------------------------
(* The inductive invariant, part by part: who owns what, the store, the    *)
(* calls.                                                                  *)
Sound(m) == m.user = None \/ (m.pair # None /\ m.user = owner[m.pair])
OwnerOK == owner \in [Pair -> Account \cup {None}]
StoreOK ==
  /\ store \in Store
  /\ blended \in [tab : BOOLEAN, copy : BOOLEAN]
  /\ \A m \in {store.mem, store.disk} : m.pair # None => owner[m.pair] # None
  /\ blended.tab \/ Sound(store.mem)
  /\ blended.copy \/ Sound(store.disk)
Fits(c) ==
  /\ c \in Call
  /\ (c.kind \in {"login", "dialog"}) = (c.pair = None)
  /\ c.kind \in {"login", "dialog"} => c.who # None /\ c.for = None
  /\ c.kind = "renew" => c.for # None
CallsOK ==
  /\ Cardinality(calls) <= MaxCalls
  /\ \A c \in calls : Fits(c) /\ (c.pair # None => owner[c.pair] # None)
RestOK ==
  /\ page \in Page /\ busy \in BOOLEAN /\ left \in BOOLEAN
  /\ life \in [Pair -> SUBSET {"access", "refresh"}]
RefusedOK ==
  /\ refused \subseteq Pair
  /\ \A p \in refused : owner[p] # None

LEMMA Parts ==
  IInv <=> /\ OwnerOK /\ StoreOK /\ CallsOK /\ RestOK /\ RefusedOK
           /\ RefusedGone /\ SignedOut
<1> USE StoreAssumption
<1>1. ASSUME IInv PROVE OwnerOK /\ StoreOK /\ CallsOK /\ RestOK /\ RefusedOK
  <2>1. OwnerOK /\ RestOK BY <1>1 DEF IInv, TypeOK, OwnerOK, RestOK
  <2>2. RefusedOK
    BY <1>1 DEF IInv, TypeOK, Known, Held, Drawn, RefusedOK
  <2>3. StoreOK
    BY <1>1 DEF IInv, TypeOK, Known, Held, Drawn, Recorded, Lonely,
                UserIsOwner, Belongs, StoreOK, Sound, Store, AuthState, Copy
  <2>4. CallsOK
    BY <1>1 DEF IInv, TypeOK, Known, Held, Drawn, CallsOK, Fits
  <2>5. QED BY <2>1, <2>2, <2>3, <2>4
<1>2. ASSUME OwnerOK, StoreOK, CallsOK, RestOK, RefusedOK
      PROVE  TypeOK /\ Known /\ Recorded /\ UserIsOwner
  <2>1. TypeOK
    BY <1>2 DEF OwnerOK, StoreOK, CallsOK, Fits, RestOK, RefusedOK, TypeOK
  <2>2. Recorded /\ UserIsOwner
    BY <1>2 DEF StoreOK, Sound, Recorded, Lonely, UserIsOwner, Belongs
  <2>3. Known
    BY <1>2 DEF OwnerOK, StoreOK, CallsOK, Fits, RefusedOK, Known, Held,
                Drawn, Store, AuthState, Copy, Call
  <2>4. QED BY <2>1, <2>2, <2>3
<1>3. QED BY <1>1, <1>2 DEF IInv

(* Calls that are made, and what becomes of a call that is renewed.        *)
Hidden(c) == [c EXCEPT !.shown = FALSE]
Trying(c, p) == [c EXCEPT !.kind = "renew", !.for = c.kind, !.pair = p]
Again(c, p) == [c EXCEPT !.kind = c.for, !.pair = p]

LEMMA Calls ==
  /\ \A k \in {"login", "dialog"}, a \in Account : Fits(Sign(k, a))
  /\ \A k \in Bearing, p \in Pair, b \in BOOLEAN : Fits(Bear(k, p, b))
  /\ \A c : Fits(c) => Fits(Hidden(c)) /\ Hidden(c).pair = c.pair
                                      /\ Hidden(c).kind = c.kind
  /\ \A c, p : Fits(c) /\ p \in Pair /\ c.kind \in Bearing =>
       Fits(Trying(c, p)) /\ Trying(c, p).pair = p
  /\ \A c, p : Fits(c) /\ p \in Pair /\ c.kind = "renew" =>
       Fits(Again(c, p)) /\ Again(c, p).pair = p
<1> USE StoreAssumption, NoneAssumption DEF Fits, Call, Kind, Bearing
<1>1. \A k \in {"login", "dialog"}, a \in Account : Fits(Sign(k, a))
  BY DEF Sign
<1>2. \A k \in Bearing, p \in Pair, b \in BOOLEAN : Fits(Bear(k, p, b))
  BY DEF Bear
<1>3. ASSUME NEW c, Fits(c)
      PROVE  /\ Fits(Hidden(c))
             /\ Hidden(c).pair = c.pair /\ Hidden(c).kind = c.kind
  BY <1>3 DEF Hidden
<1>4. ASSUME NEW c, NEW p \in Pair, Fits(c), c.kind \in Bearing
      PROVE  Fits(Trying(c, p)) /\ Trying(c, p).pair = p
  <2> DEFINE d == Trying(c, p)
  <2>1. d.kind = "renew" /\ d.for = c.kind /\ d.pair = p /\ p # None
    BY <1>4 DEF Trying
  <2>2. d \in Call BY <1>4 DEF Trying
  <2> HIDE DEF d
  <2>3. Fits(d) BY <2>1, <2>2, <1>4
  <2>4. QED BY <2>1, <2>3 DEF d
<1>5. ASSUME NEW c, NEW p \in Pair, Fits(c), c.kind = "renew"
      PROVE  Fits(Again(c, p)) /\ Again(c, p).pair = p
  <2> DEFINE d == Again(c, p)
  <2>1. c \in Call /\ c.for \in Bearing BY <1>5
  <2>2. d.kind = c.for /\ d.for = c.for /\ d.pair = p /\ p # None
    BY <2>1 DEF Again
  <2>3. d \in Call BY <2>1, <1>5 DEF Again
  <2> HIDE DEF d
  <2>4. Fits(d) BY <2>1, <2>2, <2>3, <1>5
  <2>5. QED BY <2>2, <2>4 DEF d
<1> HIDE DEF Fits, Call, Kind, Bearing
<1>6. QED BY <1>1, <1>2, <1>3, <1>4, <1>5

-----------------------------------------------------------------------------
(* One step of Next, part by part *)

(* Tokens keep their owner, and life its type.                             *)
LEMMA OwnerStep ==
  ASSUME IInv, [Next]_vars
  PROVE  /\ OwnerOK' /\ life' \in [Pair -> SUBSET {"access", "refresh"}]
         /\ \A p \in Pair : owner[p] # None => owner'[p] = owner[p]
<1> DEFINE Grows == /\ OwnerOK'
                    /\ life' \in [Pair -> SUBSET {"access", "refresh"}]
                    /\ \A p \in Pair : owner[p] # None => owner'[p] = owner[p]
<1> USE StoreAssumption, Parts DEF OwnerOK, RestOK
<1>1. CASE UNCHANGED server BY <1>1 DEF server
<1>2. ASSUME NEW p \in Pair, NEW a \in Account, Grant(p, a),
             \/ life' = [life EXCEPT ![p] = {"access", "refresh"}]
             \/ \E q \in Pair :
                  life' = [life EXCEPT ![p] = {"access", "refresh"},
                                       ![q] = @ \ {"refresh"}]
      PROVE  Grows
  BY <1>2 DEF Grant, Drawn
<1>3. ASSUME NEW c \in calls, Answer(c) PROVE Grows
  <2>1. Fits(c) BY DEF CallsOK
  <2>2. ASSUME NEW p \in Pair, LoginAnswered(c, p) \/ DialogAnswered(c, p)
        PROVE  Grows
    <3>1. c.who \in Account
      BY <2>1, <2>2 DEF Fits, Call, LoginAnswered, DialogAnswered
    <3>2. QED BY <1>2, <2>2, <3>1 DEF LoginAnswered, DialogAnswered
  <2>3. ASSUME NEW p \in Pair, Renewed(c, p) PROVE Grows
    <3>1. c.pair \in Pair /\ owner[c.pair] \in Account
      BY <2>1, <2>3 DEF Fits, Call, Renewed, CallsOK
    <3>2. QED BY <1>2, <2>3, <3>1 DEF Renewed
  <2>4. CASE \/ RoleAnswered(c) \/ RoleFails(c) \/ SignFails(c)
             \/ UserAnswered(c) \/ StartRenew(c) \/ CallFails(c)
    BY <1>1, <2>4
    DEF RoleAnswered, RoleFails, SignFails, UserAnswered, StartRenew, CallFails
  <2>5. QED BY <1>3, <2>2, <2>3, <2>4 DEF Answer
<1>4. CASE Use
  BY <1>1, <1>4
  DEF Use, Reload, Logout, SaveProfile, Navigate, SubmitLogin, SubmitDialog
<1>5. ASSUME NEW p, NEW x, Lapse(p, x) PROVE Grows
  BY <1>5 DEF Lapse
<1>6. ASSUME NEW p \in Pair, NEW a \in Account, OtherTabIn(p, a) PROVE Grows
  BY <1>2, <1>6 DEF OtherTabIn
<1>7. CASE OtherTabOut \/ UNCHANGED vars
  BY <1>1, <1>7 DEF OtherTabOut, vars
<1>8. QED BY <1>3, <1>4, <1>5, <1>6, <1>7 DEF Next

(* What a step that leaves its store with Put has to show.                 *)
LEMMA PutOK ==
  ASSUME OwnerOK', NEW s \in Store, NEW b \in BOOLEAN, Put(s, b),
         \A m \in {s.mem, s.disk} : m.pair # None => owner'[m.pair] # None,
         \/ b \/ s.mem.user = None
         \/ s.mem.pair # None /\ s.mem.user = owner'[s.mem.pair]
  PROVE  StoreOK'
<1>1. store' = s
      /\ blended' = [tab |-> b, copy |-> b \/ s.disk.pair # s.mem.pair
                                           \/ s.disk.user # s.mem.user]
  BY DEF Put
<1>2. blended' \in [tab : BOOLEAN, copy : BOOLEAN] BY <1>1
<1>3. blended.tab' \/ Sound(s.mem)' BY <1>1 DEF Sound
<1>4. blended.copy' \/ Sound(s.disk)' BY <1>1 DEF Sound
<1>5. QED BY <1>1, <1>2, <1>3, <1>4 DEF StoreOK, Sound

(* The parts of the store that matter stay.                                *)
LEMMA Kept ==
  ASSUME IInv, [Next]_vars, store' \in Store, UNCHANGED blended,
         store'.mem.pair = store.mem.pair, store'.mem.user = store.mem.user,
         store'.disk = store.disk
  PROVE  StoreOK'
<1> USE StoreAssumption
<1>1. \A p \in Pair : owner[p] # None => owner'[p] = owner[p] BY OwnerStep
<1>2. StoreOK BY Parts
<1>3. /\ store.mem.pair \in Pair \cup {None}
      /\ store.disk.pair \in Pair \cup {None}
  BY <1>2 DEF StoreOK, Store, AuthState, Copy
<1>4. QED BY <1>1, <1>2, <1>3 DEF StoreOK, Sound

LEMMA AnswerStore ==
  ASSUME IInv, [Next]_vars, NEW c \in calls, Answer(c)
  PROVE  StoreOK'
<1> USE StoreAssumption
<1>1. /\ OwnerOK' /\ OwnerOK /\ StoreOK /\ Fits(c)
      /\ c.pair # None => c.pair \in Pair /\ owner[c.pair] \in Account
      /\ \A p \in Pair : owner[p] # None => owner'[p] = owner[p]
  <2>1. OwnerOK /\ StoreOK /\ CallsOK BY Parts
  <2>2. QED BY <2>1, OwnerStep DEF CallsOK, OwnerOK, Fits, Call
<1>2. /\ store \in Store
      /\ store.mem.pair # None =>
           store.mem.pair \in Pair /\ owner[store.mem.pair] # None
      /\ store.disk.pair # None =>
           store.disk.pair \in Pair /\ owner[store.disk.pair] # None
      /\ blended.tab \in BOOLEAN
      /\ blended.tab \/ Sound(store.mem)
  BY <1>1 DEF StoreOK, Store, AuthState, Copy
(* New tokens, from a login or a renewal.                                  *)
<1>3. ASSUME NEW p \in Pair, NEW a \in Account, Grant(p, a), NEW s \in Store,
             NEW b \in BOOLEAN, Put(s, b), s.mem.pair = p,
             s.disk.pair \in {p, store.disk.pair},
             s.mem.user = store.mem.user,
             b \/ store.mem.user \in {None, a}
      PROVE  StoreOK'
  <2>1. owner'[p] = a /\ a # None BY <1>1, <1>3 DEF Grant, OwnerOK
  <2>2. \A m \in {s.mem, s.disk} : m.pair # None => owner'[m.pair] # None
    BY <1>1, <1>2, <1>3, <2>1
  <2>3. b \/ s.mem.user = None
        \/ (s.mem.pair # None /\ s.mem.user = owner'[s.mem.pair])
    BY <1>3, <2>1
  <2>4. QED BY <1>1, <1>3, <2>2, <2>3, PutOK
<1>4. ASSUME NEW a \in Account
      PROVE  Over(a) \in BOOLEAN /\ (Over(a) \/ store.mem.user \in {None, a})
  BY <1>2 DEF Over, Sound
<1>5. ASSUME NEW p \in Pair, LoginAnswered(c, p) PROVE StoreOK'
  <2>1. c.who \in Account /\ Grant(p, c.who)
        /\ Put(setTokens(store, p), Over(c.who))
    BY <1>1, <1>5 DEF Fits, Call, LoginAnswered
  <2>2. QED BY <1>2, <1>3, <1>4, <2>1, Stores
<1>6. ASSUME NEW p \in Pair, DialogAnswered(c, p) PROVE StoreOK'
  <2> DEFINE t == setTokens(store, p)
             s == setLoginExpired(t, FALSE)
  <2>1. c.who \in Account /\ Grant(p, c.who) /\ Put(s, Over(c.who))
    BY <1>1, <1>6 DEF Fits, Call, DialogAnswered
  <2>2. t \in Store /\ t.mem.pair = p /\ t.mem.user = store.mem.user
        /\ t.disk.pair \in {p, store.disk.pair}
    BY <1>2, <2>1, Stores
  <2> HIDE DEF t
  <2>3. s \in Store /\ s.mem.pair = p /\ s.mem.user = store.mem.user
        /\ s.disk.pair \in {p, store.disk.pair}
    BY <2>1, <2>2, Stores
  <2> HIDE DEF s
  <2>4. QED BY <1>3, <1>4, <2>1, <2>3
<1>7. ASSUME NEW p \in Pair, Renewed(c, p) PROVE StoreOK'
  <2> DEFINE b == blended.tab \/ c.pair # store.mem.pair
  <2>1. c.pair \in Pair /\ owner[c.pair] \in Account
        /\ Grant(p, owner[c.pair]) /\ Put(setTokens(store, p), b)
    BY <1>1, <1>7 DEF Fits, Renewed
  <2>2. b \in BOOLEAN /\ (b \/ store.mem.user \in {None, owner[c.pair]})
    BY <1>2 DEF Sound
  <2> HIDE DEF b
  <2>3. QED BY <1>2, <1>3, <2>1, <2>2, Stores
(* A user, for tokens that may not be in the store any more.               *)
<1>8. ASSUME c.pair \in Pair,
             Put(setUser(store, owner[c.pair]), c.pair # store.mem.pair)
      PROVE  StoreOK'
  <2> DEFINE s == setUser(store, owner[c.pair])
  <2>1. owner[c.pair] \in Account /\ c.pair # None
        /\ owner'[c.pair] = owner[c.pair]
    BY <1>1, <1>8
  <2>2. s \in Store /\ s.mem.pair = store.mem.pair
        /\ s.disk.pair = store.disk.pair /\ s.mem.user = owner[c.pair]
    BY <1>1, <1>2, <2>1, Stores
  <2>3. Put(s, c.pair # store.mem.pair) BY <1>8
  <2> HIDE DEF s
  <2>4. \A m \in {s.mem, s.disk} : m.pair # None => owner'[m.pair] # None
    BY <1>1, <1>2, <2>2
  <2>5. (c.pair # store.mem.pair)
        \/ (s.mem.pair # None /\ s.mem.user = owner'[s.mem.pair])
    BY <2>1, <2>2
  <2>6. QED BY <1>1, <2>2, <2>3, <2>4, <2>5, PutOK
<1>9. ASSUME NEW s,
             s \in {clearAuth(store), setLoginExpired(clearAuth(store), TRUE)},
             Put(s, FALSE)
      PROVE  StoreOK'
  <2> DEFINE t == clearAuth(store)
  <2>1. t \in Store /\ t.mem.pair = None /\ t.mem.user = None
        /\ t.disk.pair = None
    BY Cleared
  <2> HIDE DEF t
  <2>2. s \in Store /\ s.mem.pair = None /\ s.mem.user = None
        /\ s.disk.pair = None
    <3>1. CASE s = t BY <2>1, <3>1
    <3>2. CASE s = setLoginExpired(t, TRUE)
      BY <2>1, <3>2 DEF setLoginExpired, Store, AuthState
    <3>3. QED BY <1>9, <3>1, <3>2 DEF t
  <2>3. QED BY <1>1, <1>9, <2>2, PutOK
<1>10. ASSUME Put(setLoginExpired(store, TRUE), blended.tab) PROVE StoreOK'
  <2> DEFINE s == setLoginExpired(store, TRUE)
  <2>1. s \in Store /\ s.mem.pair = store.mem.pair
        /\ s.mem.user = store.mem.user /\ s.disk = store.disk
        /\ Put(s, blended.tab)
    BY <1>2, <1>10 DEF setLoginExpired, Store, AuthState
  <2> HIDE DEF s
  <2>2. \A m \in {s.mem, s.disk} : m.pair # None => owner'[m.pair] # None
    BY <1>1, <1>2, <2>1
  <2>3. blended.tab \/ s.mem.user = None
        \/ (s.mem.pair # None /\ s.mem.user = owner'[s.mem.pair])
    BY <1>1, <1>2, <2>1 DEF Sound
  <2>4. QED BY <1>1, <1>2, <2>1, <2>2, <2>3, PutOK
<1>11. ASSUME RoleAnswered(c) \/ UserAnswered(c) \/ RoleFails(c) PROVE StoreOK'
  <2>1. ASSUME Accepted(c.pair) PROVE c.pair \in Pair BY <1>1, <2>1 DEF Accepted
  <2>2. ASSUME Refuse(c) PROVE StoreOK'
    <3>1. Put(clearAuth(store), FALSE) BY <2>2 DEF Refuse
    <3>2. QED BY <1>9, <3>1
  <2>3. CASE RoleAnswered(c)
    <3>1. Accepted(c.pair)
          /\ (Refuse(c) \/ Put(setUser(store, owner[c.pair]),
                               c.pair # setUser(store, owner[c.pair]).mem.pair))
      BY <2>3 DEF RoleAnswered
    <3>2. setUser(store, owner[c.pair]).mem.pair = store.mem.pair
      BY <1>2 DEF setUser, Store, AuthState
    <3>3. QED BY <1>8, <2>1, <2>2, <3>1, <3>2
  <2>4. CASE UserAnswered(c) BY <1>8, <2>1, <2>4 DEF UserAnswered
  <2>5. CASE RoleFails(c) BY <2>2, <2>5 DEF RoleFails
  <2>6. QED BY <1>11, <2>3, <2>4, <2>5
<1>12. ASSUME SignFails(c) PROVE StoreOK'
  <2> DEFINE s == setLoginExpired(store, TRUE)
  <2>1. s \in Store /\ s.mem.pair = store.mem.pair
        /\ s.mem.user = store.mem.user /\ s.disk = store.disk
    BY <1>2 DEF setLoginExpired, Store, AuthState
  <2>2. store' \in {store, s} /\ UNCHANGED blended BY <1>12 DEF SignFails
  <2> HIDE DEF s
  <2>3. QED BY <1>2, <2>1, <2>2, Kept
<1>13. ASSUME StartRenew(c) PROVE StoreOK' BY <1>2, <1>13, Kept DEF StartRenew
<1>14. ASSUME CallFails(c) PROVE StoreOK'
  <2>1. CASE UNCHANGED <<store, blended>> BY <1>2, <2>1, Kept
  <2>2. QED BY <1>9, <1>10, <1>14, <2>1 DEF CallFails
<1>15. QED BY <1>5, <1>6, <1>7, <1>11, <1>12, <1>13, <1>14 DEF Answer

LEMMA StoreStep ==
  ASSUME IInv, [Next]_vars
  PROVE  StoreOK'
<1> USE StoreAssumption
<1>1. /\ OwnerOK' /\ OwnerOK /\ StoreOK /\ store \in Store
      /\ \A p \in Pair : owner[p] # None => owner'[p] = owner[p]
  BY Parts, OwnerStep DEF StoreOK
<1>2. /\ store.mem.pair \in Pair \cup {None} /\ store.disk \in Copy
      /\ store.disk.pair \in Pair \cup {None} /\ store.mem \in AuthState
  BY <1>1 DEF Store, AuthState, Copy
<1>3. ASSUME UNCHANGED <<store, blended>> PROVE StoreOK'
  BY <1>1, <1>3, Kept
<1>4. CASE Logout
  <2>1. Put(clearAuth(store), FALSE) BY <1>4 DEF Logout
  <2>2. QED BY <1>1, <2>1, PutOK, Cleared
<1>5. CASE Reload
  <2> DEFINE s == [disk |-> store.disk, mem |-> authStore(store.disk)]
  <2>1. store' = s /\ blended' = [blended EXCEPT !.tab = blended.copy]
        /\ UNCHANGED owner
    BY <1>5 DEF Reload, server
  <2>2. s \in Store /\ s.disk = store.disk /\ s.mem.pair = store.disk.pair
        /\ s.mem.user = store.disk.user
    BY <1>2, Opened DEF Store
  <2> HIDE DEF s
  <2>3. QED BY <1>1, <2>1, <2>2 DEF StoreOK, Sound
<1>6. ASSUME NEW d \in Copy, Overwrite(d), d.pair = None => d.user = None,
             d.pair # None => owner'[d.pair] # None
                              /\ d.user \in {None, owner'[d.pair]}
      PROVE  StoreOK'
  <2>1. store' = [store EXCEPT !.disk = d]
        /\ blended' = [blended EXCEPT !.copy = FALSE]
    BY <1>6 DEF Overwrite
  <2>2. store' \in Store /\ store'.disk = d /\ store'.mem = store.mem
    BY <1>1, <2>1 DEF Store
  <2>3. QED BY <1>1, <1>2, <1>6, <2>1, <2>2 DEF StoreOK, Sound
<1>7. CASE OtherTabOut
  BY <1>6, <1>7 DEF OtherTabOut, Empty, Copy
<1>8. ASSUME NEW p \in Pair, NEW a \in Account, OtherTabIn(p, a) PROVE StoreOK'
  <2>1. PICK u \in {a, None} : Overwrite([pair |-> p, user |-> u])
    BY <1>8 DEF OtherTabIn
  <2>2. owner'[p] = a /\ a # None /\ p # None
    BY <1>1, <1>8 DEF OtherTabIn, Grant, OwnerOK
  <2>3. QED BY <1>6, <2>1, <2>2 DEF Copy
<1>9. ASSUME NEW p, NEW x, Lapse(p, x) PROVE StoreOK'
  BY <1>3, <1>9 DEF Lapse
<1>10. CASE Use
  BY <1>3, <1>4, <1>5, <1>10
  DEF Use, SaveProfile, Navigate, SubmitLogin, SubmitDialog
<1>11. CASE UNCHANGED vars BY <1>3, <1>11 DEF vars
<1>12. QED BY <1>7, <1>8, <1>9, <1>10, <1>11, AnswerStore DEF Next

-----------------------------------------------------------------------------
(* The calls in flight *)

LEMMA CarryOK ==
  ASSUME IInv, [Next]_vars, NEW C, Carry(C),
         \A c \in C : c \in calls
           \/ (Fits(c) /\ (c.pair # None => owner'[c.pair] # None))
  PROVE  CallsOK'
<1>1. CallsOK /\ \A p \in Pair : owner[p] # None => owner'[p] = owner[p]
  BY Parts, OwnerStep
<1>2. \A c \in calls : c.pair # None => owner'[c.pair] # None
  BY <1>1 DEF CallsOK, Fits, Call
<1>3. calls' = C /\ Cardinality(C) <= MaxCalls BY DEF Carry
<1>4. QED BY <1>1, <1>2, <1>3 DEF CallsOK

LEMMA DetachedOK ==
  ASSUME IInv, [Next]_vars, NEW C \in SUBSET calls, NEW D,
         Carry(Detached(C) \cup D),
         \A c \in D : Fits(c) /\ (c.pair # None => owner'[c.pair] # None)
  PROVE  CallsOK'
<1>1. CallsOK /\ \A p \in Pair : owner[p] # None => owner'[p] = owner[p]
  BY Parts, OwnerStep
<1>2. ASSUME NEW c \in calls
      PROVE  /\ Fits(Hidden(c))
             /\ Hidden(c).pair # None => owner'[Hidden(c).pair] # None
  <2>1. Fits(c) /\ (c.pair # None => owner[c.pair] # None) BY <1>1 DEF CallsOK
  <2>2. c.pair \in Pair \cup {None} BY <2>1 DEF Fits, Call
  <2>3. QED BY <1>1, <2>1, <2>2, Calls
<1>3. \A c \in Detached(C) : Fits(c) /\ (c.pair # None => owner'[c.pair] # None)
  <2>1. Detached(C) = {Hidden(c) : c \in C} BY DEF Detached, Hidden
  <2>2. QED BY <1>2, <2>1
<1>4. QED BY <1>3, CarryOK

LEMMA AnswerCalls ==
  ASSUME IInv, [Next]_vars, NEW c \in calls, Answer(c)
  PROVE  CallsOK'
<1> USE StoreAssumption
<1>1. /\ Fits(c)
      /\ c.pair # None => c.pair \in Pair
      /\ c.pair # None => owner[c.pair] \in Account
      /\ store.mem.pair \in Pair \cup {None}
      /\ store.mem.pair # None => owner[store.mem.pair] # None
      /\ \A p \in Pair : owner[p] # None => owner'[p] = owner[p]
      /\ OwnerOK
  <2>1. OwnerOK /\ StoreOK /\ CallsOK BY Parts
  <2>2. QED
    BY <2>1, OwnerStep
    DEF CallsOK, OwnerOK, StoreOK, Fits, Call, Store, AuthState
<1>2. ASSUME NEW C \in SUBSET calls, Carry(C) PROVE CallsOK' BY <1>2, CarryOK
<1>3. ASSUME NEW p \in Pair, LoginAnswered(c, p) PROVE CallsOK'
  <2> DEFINE d == Bear("check", p, c.shown)
  <2>1. Carry((calls \ {c}) \cup {d}) /\ Grant(p, c.who) /\ c.who \in Account
    BY <1>1, <1>3 DEF LoginAnswered, Fits, Call
  <2>2. owner'[p] # None BY <1>1, <2>1 DEF Grant, OwnerOK
  <2>3. c.shown \in BOOLEAN /\ "check" \in Bearing
    BY <1>1 DEF Fits, Call, Bearing
  <2>4. Fits(d) BY <2>3, Calls
  <2>5. d.pair = p BY DEF Bear
  <2> HIDE DEF d
  <2>6. QED BY <2>1, <2>2, <2>4, <2>5, CarryOK
<1>4. ASSUME NEW p \in Pair, Renewed(c, p) PROVE CallsOK'
  <2> DEFINE d == Again(c, p)
  <2>1. Carry((calls \ {c}) \cup {d}) /\ c.kind = "renew"
        /\ Grant(p, owner[c.pair])
    BY <1>4 DEF Renewed, Again
  <2>2. owner[c.pair] \in Account BY <1>1, <2>1 DEF Fits
  <2>3. owner'[p] # None BY <1>1, <2>1, <2>2 DEF Grant, OwnerOK
  <2>4. Fits(d) /\ d.pair = p BY <1>1, <2>1, Calls
  <2> HIDE DEF d
  <2>5. QED BY <2>1, <2>3, <2>4, CarryOK
<1>5. ASSUME StartRenew(c) PROVE CallsOK'
  <2> DEFINE q == store.mem.pair
             d == Trying(c, q)
  <2>1. Carry((calls \ {c}) \cup {d}) /\ c.kind \in Bearing
        /\ q # None /\ UNCHANGED owner
    BY <1>5 DEF StartRenew, isAuthenticated, server, Trying
  <2>2. q \in Pair /\ owner'[q] # None BY <1>1, <2>1
  <2>3. Fits(d) /\ d.pair = q BY <1>1, <2>1, <2>2, Calls
  <2> HIDE DEF d
  <2>4. QED BY <2>1, <2>2, <2>3, CarryOK
<1>6. CASE RoleAnswered(c)
  <2> DEFINE D == {}
  <2>1. \/ Carry(calls \ {c})
        \/ Carry(Detached(calls \ {c}) \cup D)
    BY <1>6 DEF RoleAnswered, Refuse
  <2>2. \A d \in D : Fits(d) /\ (d.pair # None => owner'[d.pair] # None)
    OBVIOUS
  <2> HIDE DEF D
  <2>3. QED BY <1>2, <2>1, <2>2, DetachedOK
<1>7. CASE \/ RoleFails(c) \/ SignFails(c) \/ UserAnswered(c) \/ CallFails(c)
           \/ \E p \in Pair : DialogAnswered(c, p)
  BY <1>2, <1>7
  DEF RoleFails, Refuse, SignFails, UserAnswered, CallFails, DialogAnswered
<1>8. QED BY <1>3, <1>4, <1>5, <1>6, <1>7 DEF Answer

LEMMA CallsStep ==
  ASSUME IInv, [Next]_vars
  PROVE  CallsOK'
<1> USE StoreAssumption
<1>1. /\ StoreOK /\ CallsOK
      /\ \A p \in Pair : owner[p] # None => owner'[p] = owner[p]
  BY Parts, OwnerStep
<1>2. ASSUME NEW p \in Pair, owner[p] # None, NEW k \in Bearing
      PROVE  LET d == Bear(k, p, FALSE) IN
             Fits(d) /\ (d.pair # None => owner'[d.pair] # None)
  <2>1. Fits(Bear(k, p, FALSE)) BY Calls
  <2>2. QED BY <1>1, <1>2, <2>1 DEF Bear
<1>3. \A s \in Store : s.mem.pair \in Pair \cup {None} BY DEF Store, AuthState
<1>4. ASSUME NEW s \in Store, s.mem.pair # None => owner[s.mem.pair] # None
      PROVE  \A d \in Mounted(s) :
               Fits(d) /\ (d.pair # None => owner'[d.pair] # None)
  BY <1>2, <1>3, <1>4 DEF Mounted, isAuthenticated, Bearing
<1>5. store \in Store /\ store.disk \in Copy
      /\ (store.mem.pair # None => owner[store.mem.pair] # None)
      /\ (store.disk.pair # None => owner[store.disk.pair] # None)
  BY <1>1 DEF StoreOK, Store
<1>6. ASSUME UNCHANGED calls PROVE CallsOK'
  <2>1. \A c \in calls : Fits(c) => c.pair \in Pair \cup {None}
    BY DEF Fits, Call
  <2>2. QED BY <1>1, <1>6, <2>1 DEF CallsOK
<1>7. CASE Reload
  <2> DEFINE s == [disk |-> store.disk, mem |-> authStore(store.disk)]
  <2>1. s \in Store /\ s.mem.pair = store.disk.pair
    BY <1>5, Opened DEF Store
  <2>2. \E g : Carry(IF g = "console" THEN Mounted(s) ELSE {})
    BY <1>7 DEF Reload
  <2> HIDE DEF s
  <2>3. QED BY <1>4, <1>5, <2>1, <2>2, CarryOK
<1>8. ASSUME NEW g, Navigate(g) PROVE CallsOK'
  <2> DEFINE D == IF g = "console" THEN Mounted(store) ELSE {}
  <2>1. Carry(Detached(calls) \cup D) BY <1>8 DEF Navigate
  <2>2. \A d \in D : Fits(d) /\ (d.pair # None => owner'[d.pair] # None)
    BY <1>4, <1>5
  <2> HIDE DEF D
  <2>3. QED BY <2>1, <2>2, DetachedOK
<1>9. CASE Logout
  <2> DEFINE D == {}
  <2>1. Carry(Detached(calls) \cup D) BY <1>9 DEF Logout
  <2>2. \A d \in D : Fits(d) /\ (d.pair # None => owner'[d.pair] # None)
    OBVIOUS
  <2> HIDE DEF D
  <2>3. QED BY <2>1, <2>2, DetachedOK
<1>10. CASE SaveProfile
  <2>1. Carry(calls \cup {Bear("user", store.mem.pair, FALSE)})
        /\ store.mem.pair \in Pair /\ owner[store.mem.pair] # None
    BY <1>3, <1>5, <1>10 DEF SaveProfile, isAuthenticated
  <2>2. QED BY <1>2, <2>1, CarryOK DEF Bearing
<1>11. ASSUME NEW a \in Account, SubmitLogin(a) \/ SubmitDialog(a)
       PROVE  CallsOK'
  <2>1. PICK k \in {"login", "dialog"} : Carry(calls \cup {Sign(k, a)})
    BY <1>11 DEF SubmitLogin, SubmitDialog
  <2>2. Fits(Sign(k, a)) BY Calls
  <2>3. Sign(k, a).pair = None BY DEF Sign
  <2>4. QED BY <2>1, <2>2, <2>3, CarryOK
<1>12. ASSUME NEW p, NEW x, Lapse(p, x) PROVE CallsOK' BY <1>6, <1>12 DEF Lapse
<1>13. ASSUME OtherTabOut \/ \E p \in Pair, a \in Account : OtherTabIn(p, a)
       PROVE  CallsOK'
  BY <1>6, <1>13 DEF OtherTabOut, OtherTabIn, Overwrite
<1>14. CASE UNCHANGED vars BY <1>6, <1>14 DEF vars
<1>15. QED
  BY <1>7, <1>8, <1>9, <1>10, <1>11, <1>12, <1>13, <1>14, AnswerCalls
  DEF Next, Use

-----------------------------------------------------------------------------
(* The rest: what was refused, and what was left *)

LEMMA RestStep ==
  ASSUME IInv, [Next]_vars
  PROVE  RestOK' /\ RefusedOK'
<1> USE StoreAssumption
<1>1. /\ RestOK /\ RefusedOK /\ CallsOK
      /\ life' \in [Pair -> SUBSET {"access", "refresh"}]
      /\ \A p \in Pair : owner[p] # None => owner'[p] = owner[p]
  BY Parts, OwnerStep DEF RestOK
<1>2. ASSUME NEW c \in calls, Refuse(c), "check" \in {c.kind, c.for}
      PROVE  RefusedOK'
  <2>1. c.pair \in Pair /\ owner[c.pair] # None
    BY <1>1, <1>2, NoneAssumption DEF CallsOK, Fits, Call, Bearing
  <2>2. QED BY <1>1, <1>2, <2>1 DEF Refuse, RefusedOK
<1>3. ASSUME refused' = refused PROVE RefusedOK' BY <1>1, <1>3 DEF RefusedOK
<1>4. RefusedOK'
  <2>1. ASSUME NEW c \in calls, Answer(c) PROVE RefusedOK'
    BY <1>2, <1>3, <2>1
    DEF Answer, LoginAnswered, DialogAnswered, Renewed, RoleAnswered, RoleFails,
        SignFails, UserAnswered, StartRenew, CallFails
  <2>2. QED
    BY <1>3, <2>1
    DEF Next, Use, Reload, Logout, SaveProfile, Navigate, SubmitLogin,
        SubmitDialog, Lapse, OtherTabOut, OtherTabIn, Overwrite, vars
<1>5. page' \in Page /\ busy' \in BOOLEAN /\ left' \in BOOLEAN
  <2>1. ASSUME NEW c \in calls, Answer(c)
        PROVE  page' \in Page /\ busy' \in BOOLEAN /\ left' = left
    BY <1>1, <2>1
    DEF Answer, LoginAnswered, DialogAnswered, Renewed, RoleAnswered, RoleFails,
        Refuse, SignFails, UserAnswered, StartRenew, CallFails, Settled, Show,
        RestOK, Page, view
  <2>2. QED
    BY <1>1, <2>1
    DEF Next, Use, Reload, Logout, SaveProfile, Navigate, SubmitLogin, Show,
        SubmitDialog, Lapse, OtherTabOut, OtherTabIn, Overwrite, vars, view,
        RestOK, Page
<1>6. QED BY <1>1, <1>4, <1>5 DEF RestOK

(* The pairs of the store come from it, or are new, and a refusal is       *)
(* recorded together with the removal of the tokens.                       *)
LEMMA RefusedStep ==
  ASSUME IInv, [Next]_vars
  PROVE  RefusedGone'
<1> USE StoreAssumption
<1>1. RefusedGone /\ RefusedOK /\ StoreOK /\ store \in Store
      /\ store.mem \in AuthState /\ store.disk \in Copy
  BY Parts DEF StoreOK, Store
<1>2. None \notin refused BY <1>1 DEF RefusedOK
<1>3. ASSUME refused' = refused,
             {store'.mem.pair, store'.disk.pair}
               \subseteq {store.mem.pair, store.disk.pair, None}
      PROVE  RefusedGone'
  BY <1>1, <1>2, <1>3 DEF RefusedGone
<1>4. ASSUME NEW p \in Pair, NEW a, Grant(p, a), refused' = refused,
             {store'.mem.pair, store'.disk.pair}
               \subseteq {store.mem.pair, store.disk.pair, p}
      PROVE  RefusedGone'
  <2>1. p \notin refused BY <1>1, <1>4 DEF Grant, Drawn, RefusedOK
  <2>2. QED BY <1>1, <1>4, <2>1 DEF RefusedGone
<1>5. \A p \in Pair : /\ setTokens(store, p).mem.pair = p
                     /\ setTokens(store, p).disk.pair \in {p, store.disk.pair}
  BY <1>1 DEF setTokens, Store, AuthState, Copy
<1>6. \A u : /\ setUser(store, u).mem.pair = store.mem.pair
             /\ setUser(store, u).disk.pair = store.disk.pair
  BY <1>1 DEF setUser, Store, AuthState, Copy
<1>7. \A s \in Store : /\ setLoginExpired(s, TRUE).mem.pair = s.mem.pair
                      /\ setLoginExpired(s, FALSE).mem.pair = s.mem.pair
                      /\ setLoginExpired(s, TRUE).disk = s.disk
                      /\ setLoginExpired(s, FALSE).disk = s.disk
  BY DEF setLoginExpired, Store, AuthState
<1>8. /\ \A p \in Pair : setTokens(store, p) \in Store
      /\ clearAuth(store) \in Store
      /\ clearAuth(store).mem.pair = None /\ clearAuth(store).disk.pair = None
  <2>1. \A p \in Pair : setTokens(store, p) \in Store
    BY <1>1 DEF setTokens, Store, AuthState, Copy
  <2>2. QED BY <2>1, Cleared
<1>9. ASSUME Put(clearAuth(store), FALSE),
             \E x : \/ refused' = refused
                    \/ refused' = refused \cup {x} /\ x # None
      PROVE  RefusedGone'
  BY <1>2, <1>8, <1>9 DEF Put, RefusedGone
<1>10. ASSUME NEW c \in calls, Answer(c) PROVE RefusedGone'
  <2>1. ASSUME NEW p \in Pair, LoginAnswered(c, p) PROVE RefusedGone'
    BY <1>4, <1>5, <2>1 DEF LoginAnswered, Put
  <2>2. ASSUME NEW p \in Pair, DialogAnswered(c, p) PROVE RefusedGone'
    <3>1. /\ store' = setLoginExpired(setTokens(store, p), FALSE)
          /\ Grant(p, c.who) /\ refused' = refused
      BY <2>2 DEF DialogAnswered, Put
    <3>2. store'.mem.pair = p /\ store'.disk.pair \in {p, store.disk.pair}
      BY <1>5, <1>7, <1>8, <3>1
    <3>3. QED BY <1>4, <3>1, <3>2
  <2>3. ASSUME NEW p \in Pair, Renewed(c, p) PROVE RefusedGone'
    BY <1>4, <1>5, <2>3 DEF Renewed, Put
  <2>4. ASSUME Refuse(c), "check" \in {c.kind, c.for} PROVE RefusedGone'
    <3>1. c.pair # None
      BY <2>4, Parts, NoneAssumption DEF CallsOK, Fits, Bearing
    <3>2. QED BY <1>9, <2>4, <3>1 DEF Refuse
  <2>5. CASE RoleAnswered(c)
    <3>1. CASE Refuse(c) BY <2>4, <2>5, <3>1 DEF RoleAnswered
    <3>2. CASE refused' = refused /\ store' = setUser(store, owner[c.pair])
      BY <1>3, <1>6, <3>2
    <3>3. QED BY <2>5, <3>1, <3>2 DEF RoleAnswered, Put
  <2>6. CASE RoleFails(c) BY <2>4, <2>6 DEF RoleFails
  <2>7. CASE UserAnswered(c) BY <1>3, <1>6, <2>7 DEF UserAnswered, Put
  <2>8. CASE SignFails(c) BY <1>1, <1>3, <1>7, <2>8 DEF SignFails
  <2>9. CASE StartRenew(c) BY <1>3, <2>9 DEF StartRenew
  <2>10. CASE CallFails(c)
    BY <1>1, <1>3, <1>7, <1>8, <2>10 DEF CallFails, Put
  <2>11. QED
    BY <1>10, <2>1, <2>2, <2>3, <2>5, <2>6, <2>7, <2>8, <2>9, <2>10 DEF Answer
<1>11. CASE Reload
  BY <1>1, <1>3, <1>11, Opened DEF Reload
<1>12. CASE Logout BY <1>9, <1>12, StoreAssumption DEF Logout
<1>13. ASSUME NEW p \in Pair, NEW a, OtherTabIn(p, a) PROVE RefusedGone'
  BY <1>1, <1>4, <1>13 DEF OtherTabIn, Overwrite, Store
<1>14. CASE OtherTabOut
  BY <1>1, <1>3, <1>14 DEF OtherTabOut, Overwrite, Store, Empty
<1>15. CASE \/ SaveProfile \/ \E g \in Page : Navigate(g)
            \/ \E a \in Account : SubmitLogin(a) \/ SubmitDialog(a)
            \/ \E p, x : Lapse(p, x)
            \/ UNCHANGED vars
  BY <1>3, <1>15
  DEF SaveProfile, Navigate, SubmitLogin, SubmitDialog, Lapse, vars
<1>16. QED
  BY <1>10, <1>11, <1>12, <1>13, <1>14, <1>15 DEF Next, Use

(* A tab that was left has nothing in flight that brings tokens, and the   *)
(* guard keeps it on the login page.                                       *)
LEMMA LeftStep ==
  ASSUME IInv, [Next]_vars
  PROVE  SignedOut'
<1> USE StoreAssumption
<1>1. SignedOut /\ CallsOK /\ store \in Store /\ RestOK
  BY Parts DEF StoreOK
<1>2. ASSUME left' = left, page' = page, calls' \subseteq calls,
             left => store'.mem.pair = None
      PROVE  SignedOut'
  BY <1>1, <1>2 DEF SignedOut
<1>3. ASSUME ~left' PROVE SignedOut' BY <1>3 DEF SignedOut
<1>4. store.mem \in AuthState BY <1>1 DEF Store
<1>5. \A u : setUser(store, u).mem.pair = store.mem.pair
  BY <1>4 DEF setUser, AuthState
<1>6. setLoginExpired(store, TRUE).mem.pair = store.mem.pair
  BY <1>1 DEF setLoginExpired, Store, AuthState
<1>7. clearAuth(store).mem.pair = None
      /\ setLoginExpired(clearAuth(store), TRUE).mem.pair = None
  <2> DEFINE t == clearAuth(store)
  <2>1. t \in Store /\ t.mem.pair = None BY Cleared
  <2> HIDE DEF t
  <2>2. setLoginExpired(t, TRUE).mem.pair = None
    BY <2>1 DEF setLoginExpired, Store, AuthState
  <2>3. QED BY <2>1, <2>2 DEF t
<1>8. ASSUME NEW c \in calls, Answer(c) PROVE SignedOut'
  <2>1. left' = left
    BY <1>8
    DEF Answer, LoginAnswered, DialogAnswered, Renewed, RoleAnswered, RoleFails,
        SignFails, UserAnswered, StartRenew, CallFails
  <2>2. CASE ~left BY <1>3, <2>1, <2>2
  <2>3. CASE left
    <3>1. c.kind \in Bearing /\ ~isAuthenticated(store) /\ page = "login"
          /\ store.mem.pair = None
      BY <1>1, <2>3 DEF SignedOut, isAuthenticated
    <3>2. \/ RoleAnswered(c) \/ RoleFails(c) \/ UserAnswered(c) \/ CallFails(c)
      BY <1>8, <3>1
      DEF Answer, LoginAnswered, DialogAnswered, Renewed, SignFails, StartRenew,
          Bearing
    <3>3. ASSUME Refuse(c) PROVE SignedOut'
      BY <1>2, <1>7, <2>1, <3>3 DEF Refuse, Put, Carry
    <3>4. CASE RoleAnswered(c)
      <4>1. ~isAuthenticated(setUser(store, owner[c.pair]))
        BY <1>5, <3>1 DEF isAuthenticated
      <4>2. \/ Refuse(c)
            \/ /\ store' = setUser(store, owner[c.pair])
               /\ Carry(calls \ {c}) /\ UNCHANGED view
        BY <3>1, <3>4, <4>1 DEF RoleAnswered, Put
      <4>3. QED BY <1>2, <1>5, <2>1, <3>1, <3>3, <4>2 DEF Put, Carry, view
    <3>5. CASE RoleFails(c) BY <3>3, <3>5 DEF RoleFails
    <3>6. CASE UserAnswered(c)
      BY <1>2, <1>5, <2>1, <3>1, <3>6 DEF UserAnswered, Put, Carry, view
    <3>7. CASE CallFails(c)
      BY <1>2, <1>6, <1>7, <2>1, <3>1, <3>7 DEF CallFails, Put, Carry, view
    <3>8. QED BY <3>2, <3>4, <3>5, <3>6, <3>7
  <2>4. QED BY <1>1, <2>2, <2>3 DEF RestOK
<1>9. ASSUME NEW g \in Page, Navigate(g) PROVE SignedOut'
  BY <1>1, <1>3, <1>9 DEF Navigate, SignedOut, isAuthenticated, Page
<1>10. CASE Logout
  <2>1. /\ store'.mem.pair = None /\ page' = "login" /\ calls' = Detached(calls)
        /\ left' = (\A c \in calls : c.kind \in Bearing)
    BY <1>7, <1>10 DEF Logout, Put, Show, Carry
  <2>2. \A c \in calls : Hidden(c).kind = c.kind BY <1>1, Calls DEF CallsOK
  <2>3. calls' = {Hidden(c) : c \in calls} BY <2>1 DEF Detached, Hidden
  <2>4. QED BY <2>1, <2>2, <2>3 DEF SignedOut
<1>11. CASE SaveProfile \/ \E a \in Account : SubmitDialog(a)
  BY <1>1, <1>3, <1>11 DEF SaveProfile, SubmitDialog, SignedOut
<1>12. CASE Reload \/ \E a \in Account : SubmitLogin(a)
  BY <1>3, <1>12 DEF Reload, SubmitLogin
<1>13. ASSUME NEW d, Overwrite(d) PROVE SignedOut'
  BY <1>1, <1>2, <1>13 DEF Overwrite, SignedOut, Store, view
<1>14. CASE OtherTabOut \/ \E p \in Pair, a \in Account : OtherTabIn(p, a)
  BY <1>13, <1>14 DEF OtherTabOut, OtherTabIn
<1>15. CASE UNCHANGED vars \/ \E p, x : Lapse(p, x)
  BY <1>1, <1>2, <1>15 DEF vars, view, Lapse, SignedOut
<1>16. QED
  BY <1>8, <1>9, <1>10, <1>11, <1>12, <1>14, <1>15 DEF Next, Use

-----------------------------------------------------------------------------
LEMMA Inductive == Spec => []IInv
<1>1. ASSUME IInv, [Next]_vars PROVE IInv'
  <2>1. OwnerOK' /\ StoreOK' /\ CallsOK' /\ RestOK' /\ RefusedOK'
    BY <1>1, OwnerStep, StoreStep, CallsStep, RestStep
  <2>2. RefusedGone' /\ SignedOut' BY <1>1, RefusedStep, LeftStep
  <2>3. QED BY <2>1, <2>2, Parts, PTL
<1>2. QED BY <1>1, InitInv, PTL DEF Spec

(* The variables keep their types, a call carries tokens unless it signs   *)
(* in, and no more than MaxCalls are in flight.                            *)
THEOREM TypeCorrect == Spec => []TypeOK
<1>1. IInv => TypeOK BY DEF IInv
<1>2. QED BY <1>1, Inductive, PTL

(* Outside the recorded exceptions the user shown is the account whose     *)
(* tokens are sent, in the tab (stores/auth.ts) and in its copy.           *)
THEOREM UserOwns == Spec => []UserIsOwner
<1>1. IInv => UserIsOwner BY DEF IInv
<1>2. QED BY <1>1, Inductive, PTL

(* Tokens of a login that login.tsx refused are nowhere in the browser.    *)
THEOREM RefusalLasts == Spec => []RefusedGone
<1>1. IInv => RefusedGone BY DEF IInv
<1>2. QED BY <1>1, Inductive, PTL

(* A tab signed out with only calls that bear tokens in flight stays       *)
(* without tokens, whatever is answered (clearAuth, setUser, onError).     *)
THEOREM LogoutLasts == Spec => []LogoutSticks
<1>1. IInv => LogoutSticks BY DEF IInv, SignedOut, LogoutSticks
<1>2. QED BY <1>1, Inductive, PTL
=============================================================================
