--------------------------- MODULE Sessions_proofs ---------------------------
(***************************************************************************)
(* The safety of Sessions, for every set of processes, users and tokens    *)
(* and every bound: IInv holds initially and every step of Next preserves  *)
(* it (one lemma per action, after the facts on the record of a request),  *)
(* the steps are steps of TokenLife, and the companions of IInv carry the  *)
(* invariants that IInv alone does not imply.  For these the effect of     *)
(* each action is stated once, as its shape.                               *)
(***************************************************************************)
EXTENDS Sessions, TLAPS

(* The labels at which a drawn token is still to be set.                   *)
LEMMA Labels ==
  \A l \in Label :
    l \in Unset <=>
      l \in {"set", "delget", "delkey", "members", "delidx", "readd"}
BY DEF Label, Unset, Deleting

(* A request moved to another label keeps everything else.                 *)
LEMMA MoveReq ==
  ASSUME NEW r \in Request, NEW l \in Label
  PROVE  /\ Move(r, l) \in Request
         /\ Move(r, l).op = r.op /\ Move(r, l).pc = l
         /\ Move(r, l).usr = r.usr /\ Move(r, l).par = r.par
         /\ Move(r, l).chd = r.chd
         /\ Move(r, l).snap = r.snap /\ Move(r, l).todo = r.todo
BY DEF Move, Request

(* A request that draws a token keeps everything else.                     *)
LEMMA HoldReq ==
  ASSUME NEW r \in Request, NEW l \in Label, NEW t \in Token
  PROVE  /\ Hold(r, l, t) \in Request
         /\ Hold(r, l, t).op = r.op /\ Hold(r, l, t).pc = l
         /\ Hold(r, l, t).usr = r.usr /\ Hold(r, l, t).par = r.par
         /\ Hold(r, l, t).chd = t
         /\ Hold(r, l, t).snap = r.snap /\ Hold(r, l, t).todo = r.todo
<1> DEFINE m == [r EXCEPT !.pc = l]
<1>1. m \in Request /\ m.op = r.op /\ m.pc = l /\ m.usr = r.usr /\ m.par = r.par
        /\ m.snap = r.snap /\ m.todo = r.todo
  BY DEF Request
<1>2. Hold(r, l, t) = [m EXCEPT !.chd = t] BY DEF Hold
<1>3. QED BY <1>1, <1>2 DEF Request

(* A request that reads the members of an index keeps user and tokens.     *)
LEMMA ScanReq ==
  ASSUME NEW r \in Request, NEW l \in Label,
         NEW M \in SUBSET Token, NEW T \in SUBSET Token
  PROVE  /\ Scan(r, l, M, T) \in Request
         /\ Scan(r, l, M, T).op = r.op /\ Scan(r, l, M, T).pc = l
         /\ Scan(r, l, M, T).usr = r.usr /\ Scan(r, l, M, T).par = r.par
         /\ Scan(r, l, M, T).chd = r.chd
         /\ Scan(r, l, M, T).snap = M /\ Scan(r, l, M, T).todo = T
BY DEF Scan, Request

(* The empty request is a request at idle with no user and no token.       *)
LEMMA NoReq ==
  /\ NoRequest \in Request
  /\ NoRequest.op = "none" /\ NoRequest.pc = "idle" /\ NoRequest.usr = NoUser
  /\ NoRequest.par = NoToken /\ NoRequest.chd = NoToken
  /\ NoRequest.snap = {} /\ NoRequest.todo = {}
BY DEF NoRequest, Request, Op, Label

(* The fields of a request that arrives.                                   *)
LEMMA ArriveReq ==
  ASSUME NEW o \in Op, NEW l \in Label, NEW u \in User, NEW t \in Token \cup {NoToken}
  PROVE  /\ Arrive(o, l, u, t) \in Request
         /\ Arrive(o, l, u, t).op = o /\ Arrive(o, l, u, t).pc = l
         /\ Arrive(o, l, u, t).usr = u /\ Arrive(o, l, u, t).par = t
         /\ Arrive(o, l, u, t).chd = NoToken
         /\ Arrive(o, l, u, t).snap = {} /\ Arrive(o, l, u, t).todo = {}
BY NoReq DEF Arrive, Request

(* Become changes the request of one process only.                         *)
LEMMA BecomeReq ==
  ASSUME TypeOK, NEW p \in Proc, NEW r \in Request, Become(p, r)
  PROVE  /\ req' \in [Proc -> Request]
         /\ req'[p] = r
         /\ \A q \in Proc \ {p} : req'[q] = req[q]
BY DEF TypeOK, Become

(* A step of p that gives it a token nobody else holds keeps the locals of *)
(* the others and Distinct.                                                *)
LEMMA Frame ==
  ASSUME IInv, TypeOK', NEW p \in Proc,
         \A q \in Proc \ {p} : req'[q] = req[q],
         minted \subseteq minted',
         req'[p].chd \in {NoToken, req[p].chd} \/ req'[p].chd \notin minted,
         req'[p].pc \in Unset /\ req'[p].chd \in minted =>
           req[p].pc \in Unset /\ req'[p].chd = req[p].chd,
         handed \subseteq handed', handed' \subseteq handed \cup {req[p].chd},
         \A t \in Token : \/ rt'[t] \in {rt[t], NoUser}
                          \/ At(p, "set") /\ t = req[p].chd
  PROVE  /\ Settled \subseteq Settled'
         /\ req'[p].pc \notin Unset /\ req[p].chd # NoToken => req[p].chd \in Settled'
         /\ \A q \in Proc \ {p} : Local(q)'
         /\ Distinct'
<1> USE SessionsAssumption, NoUserAssumption DEF IInv
<1>1. Settled \subseteq Settled'
  BY DEF Settled, Pending
<1>2. ASSUME NEW q \in Proc \ {p} PROVE Local(q)'
  <2>1. Local(q) /\ req'[q] = req[q] /\ Distinct
    BY DEF LocalsOK
  <2>2. req[q].chd # NoToken => req[q].chd \in Token /\ req[q].chd # req[p].chd
    BY <2>1 DEF Distinct, TypeOK, Request
  <2>3. req[q].chd # NoToken => req[q].chd \in minted' \ handed'
    BY <2>1, <2>2 DEF Local
  <2>4. req[q].chd # NoToken => rt'[req[q].chd] \in {rt[req[q].chd], NoUser}
    BY <2>2
  <2>5. At(q, "idle")' = At(q, "idle") /\ Usr(q)' = Usr(q)
    BY <2>1 DEF At, Usr
  <2>6. req[q].pc \in Unset /\ req[q].chd # NoToken => ~Live(req[q].chd)'
    BY <2>1, <2>4 DEF Local, Live
  <2>7. req[q].pc \in {"sadd", "expire"} =>
          rt'[req[q].chd] \in {Usr(q), NoUser}
    BY <2>1, <2>4 DEF Local, Saving
  <2>8. req[q].snap \cup req[q].todo \subseteq Settled'
    BY <1>1, <2>1 DEF Local
  <2>9. QED
    BY <2>1, <2>3, <2>5, <2>6, <2>7, <2>8 DEF Local, Live
<1>3. Distinct'
  <2>1. \A q \in Proc : req[q].chd # NoToken => req[q].chd \in minted
    BY DEF LocalsOK, Local
  <2>2. QED BY <2>1 DEF Distinct
<1>4. req'[p].pc \notin Unset /\ req[p].chd # NoToken => req[p].chd \in Settled'
  <2>1. req[p].chd # NoToken => req[p].chd \in minted
    BY DEF LocalsOK, Local
  <2>2. QED BY <2>1 DEF Settled, Pending, Distinct
<1>5. QED BY <1>1, <1>2, <1>3, <1>4

(* A step of the environment that leaves the requests alone keeps their    *)
(* locals.                                                                 *)
LEMMA FrameEnv ==
  ASSUME IInv, TypeOK', UNCHANGED <<req, minted, handed>>,
         \A t \in Token : rt'[t] \in {rt[t], NoUser}
  PROVE  Settled' = Settled /\ LocalsOK' /\ Distinct'
<1> USE SessionsAssumption, NoUserAssumption DEF IInv
<1>1. Settled' = Settled
  BY DEF Settled, Pending
<1>2. ASSUME NEW q \in Proc PROVE Local(q)'
  <2>1. Local(q) /\ (req[q].chd # NoToken => req[q].chd \in Token)
    BY DEF LocalsOK, TypeOK, Request
  <2>2. At(q, "idle")' = At(q, "idle") /\ Usr(q)' = Usr(q)
    BY DEF At, Usr
  <2>3. req[q].chd # NoToken => rt'[req[q].chd] \in {rt[req[q].chd], NoUser}
    BY <2>1
  <2>4. req[q].pc \in Unset /\ req[q].chd # NoToken => ~Live(req[q].chd)'
    BY <2>1, <2>3 DEF Local, Live
  <2>5. req[q].pc \in {"sadd", "expire"} =>
          rt'[req[q].chd] \in {Usr(q), NoUser}
    BY <2>1, <2>3 DEF Local, Saving
  <2>6. QED
    BY <1>1, <2>1, <2>2, <2>4, <2>5 DEF Local, Live
<1>3. QED BY <1>1, <1>2 DEF LocalsOK, Distinct

(* The fields of a request of a reachable state.                           *)
LEMMA ReqFacts ==
  ASSUME IInv, NEW p \in Proc
  PROVE  /\ req[p] \in Request /\ req[p].op \in Op /\ req[p].pc \in Label
         /\ req[p].usr \in User \cup {NoUser}
         /\ req[p].par \in Token \cup {NoToken}
         /\ req[p].chd \in Token \cup {NoToken}
         /\ req[p].snap \in SUBSET Token /\ req[p].todo \in SUBSET Token
         /\ Local(p)
         /\ ~At(p, "idle") => req[p].usr \in User
BY NoReq DEF IInv, TypeOK, LocalsOK, Request, Local, At, Usr

(* The empty request satisfies Local.                                      *)
LEMMA IdleLocal ==
  ASSUME NEW p \in Proc, req'[p] = NoRequest
  PROVE  Local(p)'
BY NoReq DEF Local, At, Usr, Saving, Deleting, Unset

(* A request that returns keeps the locals of all requests.                *)
LEMMA ReturnFrame ==
  ASSUME IInv, TypeOK', NEW p \in Proc, Return(p), minted' = minted,
         handed \subseteq handed', handed' \subseteq handed \cup {req[p].chd},
         \A t \in Token : rt'[t] \in {rt[t], NoUser}
  PROVE  /\ Settled \subseteq Settled'
         /\ req[p].chd # NoToken => req[p].chd \in Settled'
         /\ LocalsOK'
         /\ Distinct'
<1> USE SessionsAssumption, NoUserAssumption, NoReq
<1>1. req'[p] = NoRequest /\ \A q \in Proc \ {p} : req'[q] = req[q]
  BY BecomeReq DEF Return, IInv
<1>2. "idle" \notin Unset
  BY DEF Unset, Deleting
<1>3. /\ Settled \subseteq Settled'
      /\ req[p].chd # NoToken => req[p].chd \in Settled'
      /\ \A q \in Proc \ {p} : Local(q)'
      /\ Distinct'
  BY <1>1, <1>2, Frame
<1>4. Local(p)'
  BY <1>1, IdleLocal
<1>5. QED BY <1>3, <1>4 DEF LocalsOK

(* A handler moves to another label without drawing a token.               *)
LEMMA PassFrame ==
  ASSUME IInv, TypeOK', NEW p \in Proc, ~At(p, "idle"),
         NEW l \in Label, l \notin {"idle", "hash", "getuser", "sadd", "expire"},
         l \in Unset => req[p].pc \in Deleting,
         l = "set" => req[p].op = "refresh",
         \A q \in Proc \ {p} : req'[q] = req[q],
         req'[p].op = req[p].op, req'[p].pc = l, req'[p].usr = req[p].usr,
         req'[p].par = req[p].par, req'[p].chd = req[p].chd,
         req'[p].snap \subseteq Settled, req'[p].todo \subseteq Settled,
         UNCHANGED <<minted, handed>>,
         \A t \in Token : rt'[t] \in {rt[t], NoUser}
  PROVE  /\ Settled \subseteq Settled'
         /\ LocalsOK'
         /\ Distinct'
<1> USE SessionsAssumption, NoUserAssumption, ReqFacts
<1>1. l \in Unset => req[p].pc \in Unset
  BY DEF Unset
<1>2. /\ Settled \subseteq Settled'
      /\ \A q \in Proc \ {p} : Local(q)'
      /\ Distinct'
  BY <1>1, Frame
<1>3. req[p].pc \in Unset /\ req[p].chd # NoToken => ~Live(req[p].chd)'
  BY DEF Local, Live
<1>4. Local(p)'
  BY <1>1, <1>2, <1>3 DEF Local, At, Usr, Saving, Deleting, Unset, IInv
<1>5. QED BY <1>2, <1>4 DEF LocalsOK

(* A step that leaves keys and sets alone keeps KeysOK when no settled     *)
(* token is unsettled.                                                     *)
LEMMA KeysFrame ==
  ASSUME IInv, Settled \subseteq Settled', UNCHANGED <<idx, armed, handed>>,
         \A t \in Token : rt'[t] \in {rt[t], NoUser}
  PROVE  KeysOK'
BY DEF IInv, KeysOK, Live

(* A request arrives.                                                      *)
LEMMA BeginFrame ==
  ASSUME IInv, TypeOK', NEW p \in Proc, NEW o \in Op, NEW l \in Label, NEW u \in User,
         NEW t \in Token \cup {NoToken}, Begin(p, o, l, u, t),
         l \notin Saving \cup {"idle"},
         l \in Deleting \cup {"getuser"} => t \in handed /\ o \in {"refresh", "logout"},
         l \in Deleting => o = "logout",
         UNCHANGED <<rt, idx, armed, minted, handed>>
  PROVE  LocalsOK' /\ Distinct' /\ KeysOK'
<1> USE SessionsAssumption, NoUserAssumption, ReqFacts
<1>1. /\ \A q \in Proc \ {p} : req'[q] = req[q]
      /\ req'[p].op = o /\ req'[p].pc = l /\ req'[p].usr = u /\ req'[p].par = t
      /\ req'[p].chd = NoToken /\ req'[p].snap = {} /\ req'[p].todo = {}
  BY ArriveReq, BecomeReq DEF Begin, IInv
<1>2. NoToken \notin minted
  BY DEF IInv, TypeOK
<1>3. /\ Settled \subseteq Settled'
      /\ \A q \in Proc \ {p} : Local(q)'
      /\ Distinct'
  BY <1>1, <1>2, Frame
<1>4. Local(p)'
  BY <1>1 DEF Local, At, Usr, Saving
<1>5. KeysOK'
  BY <1>3, KeysFrame
<1>6. QED BY <1>3, <1>4, <1>5 DEF LocalsOK

(* A request that arrives is well typed.                                   *)
LEMMA BeginTyped ==
  ASSUME IInv, NEW p \in Proc, NEW o \in Op, NEW l \in Label, NEW u \in User,
         NEW t \in Token \cup {NoToken}, Begin(p, o, l, u, t)
  PROVE  req' \in [Proc -> Request] /\ disturbed' \in SUBSET User
BY ArriveReq, BecomeReq DEF Begin, IInv, TypeOK

(* The arrival of a request preserves the invariant.                       *)
LEMMA ArrivalStep ==
  ASSUME IInv, NEW p \in Proc, Arrival(p)
  PROVE  IInv'
<1> USE SessionsAssumption, NoUserAssumption
<1> USE DEF IInv, store, rows, lineage, TypeOK, StoreTypeOK, Op, Label, Saving,
            Deleting, Revoking
<1>1. ASSUME NEW u \in User, LoginUser(p, u) PROVE IInv'
  <2>1. TypeOK' BY <1>1, BeginTyped DEF LoginUser
  <2>2. QED BY <1>1, <2>1, BeginFrame DEF LoginUser
<1>2. ASSUME NEW u \in User, LogoutAll(p, u) PROVE IInv'
  <2>1. TypeOK' BY <1>2, BeginTyped DEF LogoutAll
  <2>2. QED BY <1>2, <2>1, BeginFrame DEF LogoutAll
<1>3. ASSUME NEW u \in User, ChangePassword(p, u) PROVE IInv'
  <2>1. TypeOK' BY <1>3, BeginTyped DEF ChangePassword
  <2>2. QED BY <1>3, <2>1, BeginFrame DEF ChangePassword
<1>4. ASSUME NEW u \in User, ResetPassword(p, u) PROVE IInv'
  <2>1. TypeOK' BY <1>4, BeginTyped DEF ResetPassword
  <2>2. QED BY <1>4, <2>1, BeginFrame DEF ResetPassword
<1>5. ASSUME NEW u \in User, Purge(p, u) PROVE IInv'
  <2>1. TypeOK' BY <1>5, BeginTyped DEF Purge
  <2>2. QED BY <1>5, <2>1, BeginFrame DEF Purge
<1>6. ASSUME NEW t \in Token, RefreshGet(p, t) PROVE IInv'
  <2>1. rt[t] \in User BY <1>6 DEF RefreshGet, Live
  <2>2. TypeOK' BY <1>6, <2>1, BeginTyped DEF RefreshGet
  <2>3. QED BY <1>6, <2>1, <2>2, BeginFrame DEF RefreshGet
<1>7. ASSUME NEW t \in Token, LogoutGet(p, t) PROVE IInv'
  <2>1. rt[t] \in User BY <1>7 DEF LogoutGet, Live
  <2>2. TypeOK' BY <1>7, <2>1, BeginTyped DEF LogoutGet
  <2>3. QED BY <1>7, <2>1, <2>2, BeginFrame DEF LogoutGet
<1>8. QED BY <1>1, <1>2, <1>3, <1>4, <1>5, <1>6, <1>7 DEF Arrival

(* SaveSet preserves the invariant.                                        *)
LEMMA StepSaveSet ==
  ASSUME IInv, NEW p \in Proc, SaveSet(p)
  PROVE  IInv'
<1> USE SessionsAssumption, NoUserAssumption, ReqFacts, Labels
<1> USE DEF IInv, At, Usr
<1>1. /\ rt' = [rt EXCEPT ![req[p].chd] = req[p].usr]
      /\ UNCHANGED <<idx, armed, covered, row, pw, minted, origin, auth, handed,
                     lost, disturbed, revokeDue, faults>>
      /\ req[p].pc = "set" /\ Become(p, Move(req[p], "sadd"))
  BY DEF SaveSet, SetKey, Goto, rows, lineage
<1>2. /\ req' \in [Proc -> Request]
      /\ \A q \in Proc \ {p} : req'[q] = req[q]
      /\ req'[p].op = req[p].op /\ req'[p].pc = "sadd"
      /\ req'[p].usr = req[p].usr /\ req'[p].par = req[p].par
      /\ req'[p].chd = req[p].chd /\ req'[p].snap = req[p].snap
      /\ req'[p].todo = req[p].todo
  BY <1>1, MoveReq, BecomeReq DEF Label, Saving
<1>3. TypeOK'
  BY <1>1, <1>2 DEF TypeOK, StoreTypeOK
<1>4. /\ Settled \subseteq Settled'
      /\ req[p].chd \in Settled'
      /\ \A q \in Proc \ {p} : Local(q)'
      /\ Distinct'
  <2>1. \A t \in Token : rt'[t] \in {rt[t], NoUser} \/ t = req[p].chd
    BY <1>1 DEF TypeOK, StoreTypeOK
  <2>2. "sadd" \notin Unset /\ req[p].chd # NoToken
    BY <1>1 DEF Local, Saving, Unset, Deleting
  <2>3. QED BY <1>1, <1>2, <1>3, <2>1, <2>2, Frame
<1>5. Local(p)'
  BY <1>1, <1>2, <1>4 DEF Local, Saving, Deleting, Unset, TypeOK, StoreTypeOK
<1>6. KeysOK'
  BY <1>1, <1>4 DEF KeysOK, Live, TypeOK, StoreTypeOK
<1>7. QED BY <1>2, <1>3, <1>4, <1>5, <1>6 DEF LocalsOK

(* SaveIndex preserves the invariant.                                      *)
LEMMA StepSaveIndex ==
  ASSUME IInv, NEW p \in Proc, SaveIndex(p)
  PROVE  IInv'
<1> USE SessionsAssumption, NoUserAssumption, ReqFacts
<1> USE DEF IInv, At, Usr
<1>1. /\ idx' = [idx EXCEPT ![req[p].usr] = @ \cup {req[p].chd}]
      /\ UNCHANGED <<rt, armed, covered, row, pw, minted, origin, auth, handed,
                     lost, disturbed, revokeDue, faults>>
      /\ req[p].pc = "sadd" /\ Become(p, Move(req[p], "expire"))
  BY DEF SaveIndex, AddToIndex, Goto, rows, lineage
<1>2. /\ req' \in [Proc -> Request]
      /\ \A q \in Proc \ {p} : req'[q] = req[q]
      /\ req'[p].op = req[p].op /\ req'[p].pc = "expire"
      /\ req'[p].usr = req[p].usr /\ req'[p].par = req[p].par
      /\ req'[p].chd = req[p].chd /\ req'[p].snap = req[p].snap
      /\ req'[p].todo = req[p].todo
  BY <1>1, MoveReq, BecomeReq DEF Label, Saving
<1>3. "expire" \notin Unset /\ req[p].chd # NoToken
  BY <1>1 DEF Local, Saving, Unset, Deleting
<1>4. TypeOK'
  BY <1>1, <1>2, <1>3 DEF TypeOK, StoreTypeOK
<1>5. /\ Settled \subseteq Settled'
      /\ req[p].chd \in Settled'
      /\ \A q \in Proc \ {p} : Local(q)'
      /\ Distinct'
  BY <1>1, <1>2, <1>3, <1>4, Frame DEF TypeOK, StoreTypeOK
<1>6. Local(p)'
  BY <1>1, <1>2, <1>3, <1>5 DEF Local, Saving, Deleting, Unset
<1>7. KeysOK'
  BY <1>1, <1>3, <1>5 DEF KeysOK, Live, TypeOK, StoreTypeOK
<1>8. QED BY <1>2, <1>4, <1>5, <1>6, <1>7 DEF LocalsOK

(* SaveExpire preserves the invariant.                                     *)
LEMMA StepSaveExpire ==
  ASSUME IInv, NEW p \in Proc, SaveExpire(p)
  PROVE  IInv'
<1> USE SessionsAssumption, NoUserAssumption, ReqFacts
<1> USE DEF IInv, At, Usr
<1>1. /\ UNCHANGED <<rt, idx, row, pw, minted, origin, auth,
                     lost, disturbed, revokeDue, faults>>
      /\ req[p].pc = "expire" /\ Return(p)
      /\ handed' = handed \cup {req[p].chd}
      /\ req[p].chd # NoToken /\ req[p].chd \in minted
  BY DEF SaveExpire, RenewIndex, rows, lineage, Local, Saving
<1>2. TypeOK'
  <2>1. /\ armed' \in [User -> BOOLEAN]
        /\ covered' \in [User -> SUBSET Token]
    <3>1. /\ [armed EXCEPT ![Usr(p)] = TRUE] \in [User -> BOOLEAN]
          /\ [covered EXCEPT ![Usr(p)] = {t \in Token : rt[t] = Usr(p)}]
               \in [User -> SUBSET Token]
      BY DEF TypeOK, StoreTypeOK
    <3>2. QED BY <3>1 DEF SaveExpire, RenewIndex, TypeOK, StoreTypeOK
  <2>2. req' \in [Proc -> Request]
    BY <1>1, NoReq, BecomeReq DEF Return
  <2>3. QED BY <1>1, <2>1, <2>2 DEF TypeOK, StoreTypeOK
<1>3. /\ Settled \subseteq Settled'
      /\ req[p].chd \in Settled'
      /\ LocalsOK' /\ Distinct'
  BY <1>1, <1>2, ReturnFrame
<1>4. KeysOK'
  BY <1>1, <1>3 DEF KeysOK, Live, SaveExpire, RenewIndex, TypeOK, StoreTypeOK
<1>5. QED BY <1>2, <1>3, <1>4

(* Drawing a token: LoginHash and RefreshUser.                             *)
LEMMA MintFrame ==
  ASSUME IInv, NEW p \in Proc, NEW t \in Token, NEW v \in Nat,
         NEW x \in Token \cup {NoToken}, Mint(p, t, v, x),
         NEW l \in {"set", "delget"}, Become(p, Hold(req[p], l, t)),
         req[p].chd = NoToken, ~At(p, "idle"),
         l = "delget" => req[p].pc = "getuser",
         UNCHANGED <<store, rows, handed, lost, disturbed, revokeDue, faults>>
  PROVE  IInv'
<1> USE SessionsAssumption, NoUserAssumption, ReqFacts
<1> USE DEF IInv, At, Usr
<1>1. /\ UNCHANGED <<rt, idx, armed, covered, row, pw, handed, lost, disturbed,
                     revokeDue, faults>>
      /\ minted' = minted \cup {t} /\ t \notin minted
  BY DEF Mint, store, rows
<1>2. /\ req' \in [Proc -> Request]
      /\ \A q \in Proc \ {p} : req'[q] = req[q]
      /\ req'[p].op = req[p].op /\ req'[p].pc = l
      /\ req'[p].usr = req[p].usr /\ req'[p].par = req[p].par
      /\ req'[p].chd = t /\ req'[p].snap = req[p].snap
      /\ req'[p].todo = req[p].todo
  <2> DEFINE r == Hold(req[p], l, t)
  <2>1. /\ r \in Request
        /\ r.op = req[p].op /\ r.pc = l /\ r.usr = req[p].usr
        /\ r.par = req[p].par /\ r.chd = t
        /\ r.snap = req[p].snap /\ r.todo = req[p].todo
    <3>1. l \in Label /\ req[p] \in Request
      BY DEF Label, Saving, Deleting
    <3>2. QED BY <3>1, HoldReq
  <2>2. Become(p, r)
    OBVIOUS
  <2> HIDE DEF r
  <2>3. req' \in [Proc -> Request] /\ req'[p] = r
        /\ \A q \in Proc \ {p} : req'[q] = req[q]
    BY <2>1, <2>2, BecomeReq
  <2>4. QED BY <2>1, <2>3
<1>3. TypeOK'
  BY <1>1, <1>2 DEF TypeOK, StoreTypeOK, Mint
<1>4. /\ Settled \subseteq Settled'
      /\ \A q \in Proc \ {p} : Local(q)'
      /\ Distinct'
  BY <1>1, <1>2, <1>3, Frame
<1>5. ~Live(t)
  BY <1>1 DEF KeysOK, Settled
<1>6. Local(p)'
  BY <1>1, <1>2, <1>4, <1>5 DEF Local, Live, Saving, Deleting, Unset, TypeOK
<1>7. KeysOK'
  BY <1>1, <1>4, KeysFrame
<1>8. QED BY <1>2, <1>3, <1>4, <1>6, <1>7 DEF LocalsOK

(* A request that returns leaving the store and the tokens as they are.    *)
LEMMA ReturnStep ==
  ASSUME IInv, NEW p \in Proc, Return(p), UNCHANGED <<store, lineage, handed>>,
         row' \in [User -> {"unverified", "verified", "purged"}],
         pw' \in [User -> Nat], lost' \in SUBSET Token,
         disturbed' \in SUBSET User, revokeDue' \in SUBSET User, faults' \in Nat
  PROVE  IInv'
<1>1. TypeOK'
  BY NoReq, BecomeReq DEF TypeOK, StoreTypeOK, Return, IInv, store, lineage
<1>2. LocalsOK' /\ Distinct' /\ Settled \subseteq Settled'
  BY <1>1, ReturnFrame DEF store, lineage, IInv, TypeOK, StoreTypeOK
<1>3. KeysOK'
  BY <1>2, KeysFrame DEF store, IInv, TypeOK, StoreTypeOK
<1>4. QED BY <1>1, <1>2, <1>3 DEF IInv

(* LoginHash preserves the invariant.                                      *)
LEMMA StepLoginHash ==
  ASSUME IInv, NEW p \in Proc, LoginHash(p)
  PROVE  IInv'
<1> USE SessionsAssumption, NoUserAssumption, ReqFacts
<1>1. req[p].chd = NoToken /\ ~At(p, "idle") /\ Usr(p) \in User
  BY DEF LoginHash, At, Local, Usr
<1>2. CASE Return(p) /\ UNCHANGED lineage
  BY <1>2, ReturnStep DEF LoginHash, rows, IInv, TypeOK, lineage
<1>3. CASE ~(Return(p) /\ UNCHANGED lineage)
  <2>1. PICK t \in Token : /\ Mint(p, t, pw[Usr(p)], t)
                           /\ Become(p, Hold(req[p], "set", t))
    BY <1>3 DEF LoginHash
  <2>2. pw[Usr(p)] \in Nat
    BY <1>1 DEF IInv, TypeOK
  <2>3. QED BY <1>1, <2>1, <2>2, MintFrame DEF LoginHash
<1>4. QED BY <1>2, <1>3

(* RefreshUser preserves the invariant.                                    *)
LEMMA StepRefreshUser ==
  ASSUME IInv, NEW p \in Proc, RefreshUser(p)
  PROVE  IInv'
<1> USE SessionsAssumption, NoUserAssumption, ReqFacts
<1>1. /\ req[p].chd = NoToken /\ At(p, "getuser") /\ ~At(p, "idle")
      /\ req[p].par \in Token
  BY DEF RefreshUser, At, Local, IInv, TypeOK
<1>2. CASE Return(p) /\ UNCHANGED lineage
  BY <1>2, ReturnStep DEF RefreshUser, rows, IInv, TypeOK, lineage
<1>3. CASE ~(Return(p) /\ UNCHANGED lineage)
  <2>1. PICK t \in Token :
          /\ Mint(p, t, auth[req[p].par], origin[req[p].par])
          /\ Become(p, Hold(req[p], "delget", t))
    BY <1>3 DEF RefreshUser
  <2>2. auth[req[p].par] \in Nat /\ origin[req[p].par] \in Token \cup {NoToken}
    BY <1>1 DEF IInv, TypeOK
  <2>3. QED BY <1>1, <2>1, <2>2, MintFrame DEF RefreshUser, At
<1>4. QED BY <1>2, <1>3

-----------------------------------------------------------------------------
(* DeleteRefreshToken *)

(* Facts on what a deleting request does next, whatever it did to the store. *)
LEMMA AfterDeleteFrame ==
  ASSUME IInv, NEW p \in Proc, req[p].pc \in Deleting, AfterDelete(p),
         UNCHANGED <<minted, handed, rt>>
  PROVE  /\ req' \in [Proc -> Request]
         /\ TypeOK' => Settled \subseteq Settled' /\ LocalsOK' /\ Distinct'
<1> USE SessionsAssumption, NoUserAssumption, ReqFacts
<1>1. ~At(p, "idle") /\ req[p].op \in {"refresh", "logout"}
  BY DEF At, Deleting, Local
<1>2. \A t \in Token : rt'[t] \in {rt[t], NoUser}
  OBVIOUS
<1>3. CASE req[p].op = "refresh"
  <2>1. Become(p, Scan(req[p], "set", {}, {})) /\ "set" \in Label
    BY <1>3 DEF AfterDelete, Label, Saving
  <2>2. /\ req' \in [Proc -> Request]
        /\ \A q \in Proc \ {p} : req'[q] = req[q]
        /\ req'[p].op = req[p].op /\ req'[p].pc = "set"
        /\ req'[p].usr = req[p].usr /\ req'[p].par = req[p].par
        /\ req'[p].chd = req[p].chd /\ req'[p].snap = {} /\ req'[p].todo = {}
    BY <2>1, ScanReq, BecomeReq DEF IInv
  <2>3. QED BY <1>1, <1>2, <1>3, <2>1, <2>2, PassFrame
<1>4. CASE req[p].op # "refresh"
  <2>1. Return(p)
    BY <1>4 DEF AfterDelete
  <2>2. req' \in [Proc -> Request]
    BY <2>1, NoReq, BecomeReq DEF Return, IInv
  <2>3. QED BY <1>2, <2>1, <2>2, ReturnFrame
<1>5. QED BY <1>3, <1>4

(* DeleteGet preserves the invariant.                                      *)
LEMMA StepDeleteGet ==
  ASSUME IInv, NEW p \in Proc, DeleteGet(p)
  PROVE  IInv'
<1> USE SessionsAssumption, NoUserAssumption, ReqFacts
<1>1. /\ UNCHANGED <<rt, idx, armed, covered, row, pw, minted, origin, auth,
                     handed, lost, disturbed, revokeDue, faults>>
      /\ req[p].pc = "delget" /\ req[p].pc \in Deleting /\ ~At(p, "idle")
  BY DEF DeleteGet, store, rows, lineage, At, Deleting
<1>2. /\ req' \in [Proc -> Request]
      /\ TypeOK' => Settled \subseteq Settled' /\ LocalsOK' /\ Distinct'
  <2>1. CASE Live(req[p].par)
    <3>1. /\ req' \in [Proc -> Request]
          /\ \A q \in Proc \ {p} : req'[q] = req[q]
          /\ req'[p].op = req[p].op /\ req'[p].pc = "delkey"
          /\ req'[p].usr = req[p].usr /\ req'[p].par = req[p].par
          /\ req'[p].chd = req[p].chd /\ req'[p].snap = req[p].snap
          /\ req'[p].todo = req[p].todo
      BY <2>1, MoveReq, BecomeReq DEF DeleteGet, Goto, Label, Deleting, IInv
    <3>2. req[p].snap \subseteq Settled /\ req[p].todo \subseteq Settled
      BY DEF Local
    <3>3. "delkey" \in Label /\ "delkey" # "set"
      BY DEF Label, Deleting
    <3>4. QED BY <1>1, <3>1, <3>2, <3>3, PassFrame
  <2>2. CASE ~Live(req[p].par)
    BY <1>1, <2>2, AfterDeleteFrame DEF DeleteGet
  <2>3. QED BY <2>1, <2>2
<1>3. TypeOK'
  BY <1>1, <1>2 DEF TypeOK, StoreTypeOK, IInv
<1>4. KeysOK'
  BY <1>1, <1>2, <1>3, KeysFrame
<1>5. QED BY <1>2, <1>3, <1>4 DEF IInv

(* DeleteKey preserves the invariant.                                      *)
LEMMA StepDeleteKey ==
  ASSUME IInv, NEW p \in Proc, DeleteKey(p)
  PROVE  IInv'
<1> USE SessionsAssumption, NoUserAssumption, ReqFacts
<1>1. /\ UNCHANGED <<idx, armed, covered, row, pw, minted, origin, auth,
                     handed, lost, disturbed, revokeDue, faults>>
      /\ rt' = [rt EXCEPT ![req[p].par] = NoUser]
      /\ req[p].pc = "delkey" /\ req[p].pc \in Deleting /\ ~At(p, "idle")
  BY DEF DeleteKey, DelKey, rows, lineage, At, Deleting
<1>2. /\ req' \in [Proc -> Request]
      /\ \A q \in Proc \ {p} : req'[q] = req[q]
      /\ req'[p].op = req[p].op /\ req'[p].pc = "members"
      /\ req'[p].usr = req[p].usr /\ req'[p].par = req[p].par
      /\ req'[p].chd = req[p].chd /\ req'[p].snap = req[p].snap
      /\ req'[p].todo = req[p].todo
  BY MoveReq, BecomeReq DEF DeleteKey, Goto, Label, Deleting, IInv
<1>3. TypeOK'
  BY <1>1, <1>2 DEF TypeOK, StoreTypeOK, IInv
<1>4. Settled \subseteq Settled' /\ LocalsOK' /\ Distinct'
  <2>1. req[p].snap \subseteq Settled /\ req[p].todo \subseteq Settled
    BY DEF Local
  <2>2. "members" \in Label /\ "members" # "set"
    BY DEF Label, Deleting
  <2>3. \A t \in Token : rt'[t] \in {rt[t], NoUser}
    BY <1>1 DEF IInv, TypeOK, StoreTypeOK
  <2>4. QED BY <1>1, <1>2, <1>3, <2>1, <2>2, <2>3, PassFrame
<1>5. KeysOK'
  BY <1>1, <1>4, KeysFrame DEF IInv, TypeOK, StoreTypeOK
<1>6. QED BY <1>3, <1>4, <1>5 DEF IInv

(* DeleteMembers preserves the invariant.                                  *)
LEMMA StepDeleteMembers ==
  ASSUME IInv, NEW p \in Proc, DeleteMembers(p)
  PROVE  IInv'
<1> USE SessionsAssumption, NoUserAssumption, ReqFacts
<1>1. /\ UNCHANGED <<rt, idx, armed, covered, row, pw, minted, origin, auth,
                     handed, lost, disturbed, revokeDue, faults>>
      /\ req[p].pc = "members" /\ req[p].pc \in Deleting /\ ~At(p, "idle")
      /\ req[p].usr \in User
  BY DEF DeleteMembers, store, rows, lineage, At, Deleting
<1>2. idx[req[p].usr] \subseteq Settled /\ idx[req[p].usr] \in SUBSET Token
  BY <1>1 DEF IInv, KeysOK, TypeOK, StoreTypeOK
<1>3. /\ req' \in [Proc -> Request]
      /\ \A q \in Proc \ {p} : req'[q] = req[q]
      /\ req'[p].op = req[p].op /\ req'[p].pc = "delidx"
      /\ req'[p].usr = req[p].usr /\ req'[p].par = req[p].par
      /\ req'[p].chd = req[p].chd
      /\ req'[p].snap = idx[req[p].usr] /\ req'[p].todo = {}
  BY <1>2, ScanReq, BecomeReq DEF DeleteMembers, Label, Deleting, IInv, Usr
<1>4. TypeOK'
  BY <1>1, <1>3 DEF TypeOK, StoreTypeOK, IInv
<1>5. Settled \subseteq Settled' /\ LocalsOK' /\ Distinct'
  <2>1. "delidx" \in Label /\ "delidx" # "set"
    BY DEF Label, Deleting
  <2>2. QED BY <1>1, <1>2, <1>3, <1>4, <2>1, PassFrame
<1>6. KeysOK'
  BY <1>1, <1>5, KeysFrame
<1>7. QED BY <1>4, <1>5, <1>6 DEF IInv

(* DeleteIndex preserves the invariant.                                    *)
LEMMA StepDeleteIndex ==
  ASSUME IInv, NEW p \in Proc, DeleteIndex(p)
  PROVE  IInv'
<1> USE SessionsAssumption, NoUserAssumption, ReqFacts
<1> DEFINE u == req[p].usr
           rest == req[p].snap \ {req[p].par}
<1>1. /\ UNCHANGED <<rt, row, pw, minted, origin, auth, handed, disturbed,
                     revokeDue, faults>>
      /\ idx' = [idx EXCEPT ![u] = {}]
      /\ armed' = [armed EXCEPT ![u] = FALSE]
      /\ covered' = [covered EXCEPT ![u] = {}]
      /\ lost' = lost \cup {t \in idx[u] \ rest : rt[t] = u}
      /\ req[p].pc = "delidx" /\ req[p].pc \in Deleting /\ ~At(p, "idle")
      /\ u \in User
  BY DEF DeleteIndex, DelIndex, rows, lineage, At, Usr, Deleting
<1>2. rest \subseteq Settled /\ rest \in SUBSET Token
  BY DEF Local
<1>3. /\ req' \in [Proc -> Request]
      /\ TypeOK' => Settled \subseteq Settled' /\ LocalsOK' /\ Distinct'
  <2>1. CASE rest = {}
    BY <1>1, <2>1, AfterDeleteFrame DEF DeleteIndex
  <2>2. CASE rest # {}
    <3>1. /\ req' \in [Proc -> Request]
          /\ \A q \in Proc \ {p} : req'[q] = req[q]
          /\ req'[p].op = req[p].op /\ req'[p].pc = "readd"
          /\ req'[p].usr = req[p].usr /\ req'[p].par = req[p].par
          /\ req'[p].chd = req[p].chd
          /\ req'[p].snap = {} /\ req'[p].todo = rest
      BY <1>2, <2>2, ScanReq, BecomeReq DEF DeleteIndex, Label, Deleting, IInv
    <3>2. "readd" \in Label /\ "readd" # "set"
      BY DEF Label, Deleting
    <3>3. QED BY <1>1, <1>2, <3>1, <3>2, PassFrame
  <2>3. QED BY <2>1, <2>2
<1>4. TypeOK'
  <2>1. idx[u] \in SUBSET Token
    BY <1>1 DEF TypeOK, StoreTypeOK, IInv
  <2>2. lost' \in SUBSET Token
    BY <1>1, <2>1 DEF TypeOK, IInv
  <2>3. QED BY <1>1, <1>3, <2>2 DEF TypeOK, StoreTypeOK, IInv
<1>5. KeysOK'
  BY <1>1, <1>3, <1>4 DEF KeysOK, Live, IInv, TypeOK, StoreTypeOK
<1>6. QED BY <1>3, <1>4, <1>5 DEF IInv

(* DeleteReAdd preserves the invariant.                                    *)
LEMMA StepDeleteReAdd ==
  ASSUME IInv, NEW p \in Proc, DeleteReAdd(p)
  PROVE  IInv'
<1> USE SessionsAssumption, NoUserAssumption, ReqFacts
<1>1. PICK t \in req[p].todo :
        /\ AddToIndex(Usr(p), t)
        /\ IF req[p].todo = {t}
             THEN AfterDelete(p)
             ELSE Become(p, Scan(req[p], "readd", {}, req[p].todo \ {t}))
  BY DEF DeleteReAdd
<1>2. /\ UNCHANGED <<rt, armed, covered, row, pw, minted, origin, auth, handed,
                     lost, disturbed, revokeDue, faults>>
      /\ idx' = [idx EXCEPT ![req[p].usr] = @ \cup {t}]
      /\ req[p].pc = "readd" /\ req[p].pc \in Deleting /\ ~At(p, "idle")
      /\ t \in Token /\ t \in Settled /\ req[p].todo \subseteq Settled
  BY <1>1 DEF DeleteReAdd, AddToIndex, rows, lineage, At, Usr, Deleting, Local
<1>3. /\ req' \in [Proc -> Request]
      /\ TypeOK' => Settled \subseteq Settled' /\ LocalsOK' /\ Distinct'
  <2>1. CASE req[p].todo = {t}
    BY <1>1, <1>2, <2>1, AfterDeleteFrame
  <2>2. CASE req[p].todo # {t}
    <3>1. /\ req' \in [Proc -> Request]
          /\ \A q \in Proc \ {p} : req'[q] = req[q]
          /\ req'[p].op = req[p].op /\ req'[p].pc = "readd"
          /\ req'[p].usr = req[p].usr /\ req'[p].par = req[p].par
          /\ req'[p].chd = req[p].chd
          /\ req'[p].snap = {} /\ req'[p].todo = req[p].todo \ {t}
      <4> DEFINE r == Scan(req[p], "readd", {}, req[p].todo \ {t})
      <4>1. /\ r \in Request
            /\ r.op = req[p].op /\ r.pc = "readd" /\ r.usr = req[p].usr
            /\ r.par = req[p].par /\ r.chd = req[p].chd
            /\ r.snap = {} /\ r.todo = req[p].todo \ {t}
        <5>1. "readd" \in Label /\ req[p].todo \ {t} \in SUBSET Token
          BY DEF Label, Deleting
        <5>2. QED BY <5>1, ScanReq
      <4>2. Become(p, r)
        BY <1>1, <2>2
      <4> HIDE DEF r
      <4>3. req' \in [Proc -> Request] /\ req'[p] = r
            /\ \A q \in Proc \ {p} : req'[q] = req[q]
        BY <4>1, <4>2, BecomeReq DEF IInv
      <4>4. QED BY <4>1, <4>3
    <3>2. "readd" \in Label /\ "readd" # "set"
      BY DEF Label, Deleting
    <3>3. QED BY <1>2, <3>1, <3>2, PassFrame
  <2>3. QED BY <2>1, <2>2
<1>4. TypeOK'
  BY <1>2, <1>3 DEF TypeOK, StoreTypeOK, IInv
<1>5. KeysOK'
  BY <1>2, <1>3, <1>4 DEF KeysOK, Live, IInv, TypeOK, StoreTypeOK
<1>6. QED BY <1>3, <1>4, <1>5 DEF IInv

-----------------------------------------------------------------------------
(* The operations that end in DeleteUserRefreshTokens *)

(* From the labels of those operations to the labels of the revocation.    *)
LEMMA RevokePass ==
  ASSUME IInv, NEW p \in Proc, req[p].pc \in {"check", "update"} \cup Revoking,
         NEW l \in {"update"} \cup Revoking, Goto(p, l),
         UNCHANGED <<store, lineage, handed>>,
         row' = row, pw' \in [User -> Nat], lost' = lost, disturbed' = disturbed,
         revokeDue' \in SUBSET User, faults' = faults
  PROVE  IInv'
<1> USE SessionsAssumption, NoUserAssumption, ReqFacts
<1>1. /\ ~At(p, "idle") /\ l \in Label /\ l \notin Unset
      /\ l \notin {"idle", "hash", "getuser", "sadd", "expire", "set"}
  BY DEF Label, Revoking, Unset, Deleting, At
<1>2. UNCHANGED <<rt, idx, armed, covered, minted, origin, auth>>
  BY DEF store, lineage
<1>3. /\ req' \in [Proc -> Request]
      /\ \A q \in Proc \ {p} : req'[q] = req[q]
      /\ req'[p].op = req[p].op /\ req'[p].pc = l
      /\ req'[p].usr = req[p].usr /\ req'[p].par = req[p].par
      /\ req'[p].chd = req[p].chd /\ req'[p].snap = req[p].snap
      /\ req'[p].todo = req[p].todo
  BY <1>1, MoveReq, BecomeReq DEF Goto, IInv
<1>4. TypeOK'
  BY <1>2, <1>3 DEF TypeOK, StoreTypeOK, IInv
<1>5. req[p].snap \subseteq Settled /\ req[p].todo \subseteq Settled
  BY DEF Local
<1>6. Settled \subseteq Settled' /\ LocalsOK' /\ Distinct'
  BY <1>1, <1>2, <1>3, <1>4, <1>5, PassFrame
<1>7. KeysOK'
  BY <1>2, <1>6, KeysFrame
<1>8. QED BY <1>4, <1>6, <1>7 DEF IInv

(* ChangeCheck preserves the invariant.                                    *)
LEMMA StepChangeCheck ==
  ASSUME IInv, NEW p \in Proc, ChangeCheck(p)
  PROVE  IInv'
<1>1. CASE Return(p)
  BY <1>1, ReturnStep DEF ChangeCheck, rows, IInv, TypeOK
<1>2. CASE Goto(p, "update")
  BY <1>2, RevokePass DEF ChangeCheck, At, rows, IInv, TypeOK
<1>3. QED BY <1>1, <1>2 DEF ChangeCheck

(* UpdatePassword preserves the invariant.                                 *)
LEMMA StepUpdatePassword ==
  ASSUME IInv, NEW p \in Proc, UpdatePassword(p)
  PROVE  IInv'
<1>1. Usr(p) \in User /\ req[p].pc = "update"
  BY ReqFacts DEF UpdatePassword, At, Usr
<1>2. CASE row[Usr(p)] = "purged"
  BY <1>2, ReturnStep DEF UpdatePassword, IInv, TypeOK
<1>3. CASE row[Usr(p)] # "purged"
  <2>1. pw' \in [User -> Nat] /\ revokeDue' \in SUBSET User
    BY <1>1, <1>3 DEF UpdatePassword, IInv, TypeOK
  <2>2. QED
    BY <1>1, <1>3, <2>1, RevokePass DEF UpdatePassword, Revoking
<1>4. QED BY <1>2, <1>3

(* RevokeMembers preserves the invariant.                                  *)
LEMMA StepRevokeMembers ==
  ASSUME IInv, NEW p \in Proc, RevokeMembers(p)
  PROVE  IInv'
<1> USE SessionsAssumption, NoUserAssumption, ReqFacts
<1> DEFINE l == IF idx[Usr(p)] = {} THEN "rdelidx" ELSE "rdel"
<1>1. /\ UNCHANGED <<rt, idx, armed, covered, row, pw, minted, origin, auth,
                     handed, lost, disturbed, revokeDue, faults>>
      /\ ~At(p, "idle") /\ Usr(p) \in User
      /\ l \in Label /\ l \notin Unset
      /\ l \notin {"idle", "hash", "getuser", "sadd", "expire", "set"}
  BY DEF RevokeMembers, store, rows, lineage, At, Usr, Label, Revoking, Unset,
         Deleting
<1>2. idx[Usr(p)] \subseteq Settled /\ idx[Usr(p)] \in SUBSET Token
  BY <1>1 DEF IInv, KeysOK, TypeOK, StoreTypeOK
<1>3. /\ req' \in [Proc -> Request]
      /\ \A q \in Proc \ {p} : req'[q] = req[q]
      /\ req'[p].op = req[p].op /\ req'[p].pc = l
      /\ req'[p].usr = req[p].usr /\ req'[p].par = req[p].par
      /\ req'[p].chd = req[p].chd
      /\ req'[p].snap = idx[Usr(p)] /\ req'[p].todo = idx[Usr(p)]
  BY <1>1, <1>2, ScanReq, BecomeReq DEF RevokeMembers, IInv
<1> HIDE DEF l
<1>4. TypeOK'
  BY <1>1, <1>3 DEF TypeOK, StoreTypeOK, IInv
<1>5. Settled \subseteq Settled' /\ LocalsOK' /\ Distinct'
  BY <1>1, <1>2, <1>3, <1>4, PassFrame
<1>6. KeysOK'
  BY <1>1, <1>5, KeysFrame
<1>7. QED BY <1>4, <1>5, <1>6 DEF IInv

(* RevokeKey preserves the invariant.                                      *)
LEMMA StepRevokeKey ==
  ASSUME IInv, NEW p \in Proc, RevokeKey(p)
  PROVE  IInv'
<1> USE SessionsAssumption, NoUserAssumption, ReqFacts
<1>1. PICK t \in req[p].todo :
        /\ DelKey(t)
        /\ Become(p, Scan(req[p], IF req[p].todo = {t} THEN "rdelidx" ELSE "rdel",
                          req[p].snap, req[p].todo \ {t}))
  BY DEF RevokeKey
<1> DEFINE l == IF req[p].todo = {t} THEN "rdelidx" ELSE "rdel"
<1>2. /\ UNCHANGED <<idx, armed, covered, row, pw, minted, origin, auth,
                     handed, lost, disturbed, revokeDue, faults>>
      /\ rt' = [rt EXCEPT ![t] = NoUser]
      /\ ~At(p, "idle")
      /\ l \in Label /\ l \notin Unset
      /\ l \notin {"idle", "hash", "getuser", "sadd", "expire", "set"}
      /\ req[p].snap \subseteq Settled /\ req[p].todo \subseteq Settled
  BY <1>1 DEF RevokeKey, DelKey, rows, lineage, At, Label, Revoking, Unset,
              Deleting, Local
<1>3. /\ req' \in [Proc -> Request]
      /\ \A q \in Proc \ {p} : req'[q] = req[q]
      /\ req'[p].op = req[p].op /\ req'[p].pc = l
      /\ req'[p].usr = req[p].usr /\ req'[p].par = req[p].par
      /\ req'[p].chd = req[p].chd
      /\ req'[p].snap = req[p].snap /\ req'[p].todo = req[p].todo \ {t}
  BY <1>1, <1>2, ScanReq, BecomeReq DEF IInv
<1> HIDE DEF l
<1>4. \A x \in Token : rt'[x] \in {rt[x], NoUser}
  BY <1>2 DEF IInv, TypeOK, StoreTypeOK
<1>5. TypeOK'
  BY <1>2, <1>3 DEF TypeOK, StoreTypeOK, IInv
<1>6. Settled \subseteq Settled' /\ LocalsOK' /\ Distinct'
  BY <1>2, <1>3, <1>4, <1>5, PassFrame
<1>7. KeysOK'
  BY <1>2, <1>4, <1>6, KeysFrame
<1>8. QED BY <1>5, <1>6, <1>7 DEF IInv

(* RevokeIndex preserves the invariant.                                    *)
LEMMA StepRevokeIndex ==
  ASSUME IInv, NEW p \in Proc, RevokeIndex(p)
  PROVE  IInv'
<1> USE SessionsAssumption, NoUserAssumption, ReqFacts
<1> DEFINE u == req[p].usr
<1>1. /\ UNCHANGED <<rt, row, pw, minted, origin, auth, handed, disturbed, faults>>
      /\ idx' = [idx EXCEPT ![u] = {}]
      /\ armed' = [armed EXCEPT ![u] = FALSE]
      /\ covered' = [covered EXCEPT ![u] = {}]
      /\ lost' = lost \cup {t \in idx[u] : rt[t] = u}
      /\ revokeDue' = revokeDue \ {u}
      /\ Return(p) /\ u \in User
  BY DEF RevokeIndex, DelIndex, rows, lineage, At, Usr
<1>2. TypeOK'
  <2>1. idx[u] \in SUBSET Token
    BY <1>1 DEF TypeOK, StoreTypeOK, IInv
  <2>2. req' \in [Proc -> Request]
    BY <1>1, NoReq, BecomeReq DEF Return, IInv
  <2>3. QED BY <1>1, <2>1, <2>2 DEF TypeOK, StoreTypeOK, IInv
<1>3. Settled \subseteq Settled' /\ LocalsOK' /\ Distinct'
  BY <1>1, <1>2, ReturnFrame
<1>4. KeysOK'
  BY <1>1, <1>3 DEF KeysOK, Live, IInv, TypeOK, StoreTypeOK
<1>5. QED BY <1>2, <1>3, <1>4 DEF IInv

-----------------------------------------------------------------------------
(* Failures and the environment *)

(* A failure keeps the variables that no request owns well typed.          *)
LEMMA FailTyped ==
  ASSUME IInv, NEW p \in Proc, Fail(p)
  PROVE  /\ UNCHANGED <<rt, idx, armed, covered, row, pw, minted, origin, auth,
                        handed, revokeDue>>
         /\ lost' \in SUBSET Token /\ disturbed' \in SUBSET User
         /\ faults' \in Nat
<1> USE SessionsAssumption, NoUserAssumption, ReqFacts
<1>1. Usr(p) \in User
  BY DEF Fail, Usr
<1>2. Dropped(p) \in SUBSET Token
  BY DEF Dropped, Torn, At, Local, Saving
<1>3. QED
  BY <1>1, <1>2 DEF Fail, store, rows, lineage, IInv, TypeOK

(* Abandon preserves the invariant.                                        *)
LEMMA StepAbandon ==
  ASSUME IInv, NEW p \in Proc, Fail(p), Return(p)
  PROVE  IInv'
BY FailTyped, ReturnStep DEF IInv, TypeOK, store, lineage

(* Fault preserves the invariant.                                          *)
LEMMA StepFault ==
  ASSUME IInv, NEW p \in Proc, Fault(p)
  PROVE  IInv'
<1>1. CASE req[p].pc \notin Deleting
  BY <1>1, StepAbandon DEF Fault
<1>2. CASE req[p].pc \in Deleting
  <2>1. UNCHANGED <<rt, idx, armed, covered, minted, handed>>
    BY FailTyped DEF Fault
  <2>2. /\ req' \in [Proc -> Request]
        /\ TypeOK' => Settled \subseteq Settled' /\ LocalsOK' /\ Distinct'
    BY <1>2, <2>1, AfterDeleteFrame DEF Fault
  <2>3. TypeOK'
    BY <2>2, FailTyped DEF Fault, IInv, TypeOK, StoreTypeOK
  <2>4. KeysOK'
    BY <2>1, <2>2, <2>3, KeysFrame
  <2>5. QED BY <2>2, <2>3, <2>4 DEF IInv
<1>3. QED BY <1>1, <1>2

(* Expiry and the verification of an email address preserve the invariant. *)
LEMMA EnvironmentStep ==
  ASSUME IInv,
         \/ \E u \in User : VerifyEmail(u) \/ UserIndexExpires(u)
         \/ \E t \in Token : TokenExpires(t)
  PROVE  IInv'
<1> USE SessionsAssumption, NoUserAssumption
<1>1. ASSUME NEW u \in User, VerifyEmail(u) PROVE IInv'
  <2>1. /\ UNCHANGED <<rt, idx, armed, req, minted, handed>>
        /\ TypeOK'
    BY <1>1 DEF VerifyEmail, store, lineage, IInv, TypeOK, StoreTypeOK
  <2>2. Settled' = Settled /\ LocalsOK' /\ Distinct'
    BY <2>1, FrameEnv
  <2>3. QED BY <2>1, <2>2, KeysFrame DEF IInv
<1>2. ASSUME NEW u \in User, UserIndexExpires(u) PROVE IInv'
  <2>1. /\ UNCHANGED <<rt, req, minted, handed, row, pw, origin, auth,
                       revokeDue, faults>>
        /\ idx' = [idx EXCEPT ![u] = {}]
        /\ armed' = [armed EXCEPT ![u] = FALSE]
        /\ covered' = [covered EXCEPT ![u] = {}]
    BY <1>2 DEF UserIndexExpires, IndexExpires, DelIndex, rows, lineage
  <2>2. lost' \in SUBSET Token /\ disturbed' \in SUBSET User
    BY <1>2 DEF UserIndexExpires, IInv, TypeOK, StoreTypeOK
  <2>3. TypeOK'
    BY <2>1, <2>2 DEF IInv, TypeOK, StoreTypeOK
  <2>4. Settled' = Settled /\ LocalsOK' /\ Distinct'
    BY <2>1, <2>3, FrameEnv
  <2>5. KeysOK'
    BY <2>1, <2>4 DEF KeysOK, Live, IInv, TypeOK, StoreTypeOK
  <2>6. QED BY <2>3, <2>4, <2>5 DEF IInv
<1>3. ASSUME NEW t \in Token, TokenExpires(t) PROVE IInv'
  <2>1. /\ UNCHANGED <<idx, armed, covered, req, minted, handed>>
        /\ \A x \in Token : rt'[x] \in {rt[x], NoUser}
        /\ TypeOK'
    BY <1>3 DEF TokenExpires, KeyExpires, DelKey, rows, lineage, IInv, TypeOK,
                StoreTypeOK
  <2>2. Settled' = Settled /\ LocalsOK' /\ Distinct'
    BY <2>1, FrameEnv
  <2>3. QED BY <2>1, <2>2, KeysFrame DEF IInv
<1>4. QED BY <1>1, <1>2, <1>3

(* Every step of a handler preserves the invariant.                        *)
LEMMA HandlerStep ==
  ASSUME IInv, NEW p \in Proc, Step(p)
  PROVE  IInv'
BY StepLoginHash, StepSaveSet, StepSaveIndex, StepSaveExpire, StepRefreshUser,
   StepDeleteGet, StepDeleteKey, StepDeleteMembers, StepDeleteIndex,
   StepDeleteReAdd, StepChangeCheck, StepUpdatePassword, StepRevokeMembers,
   StepRevokeKey, StepRevokeIndex DEF Step

(* A stuttering step preserves the invariant.                              *)
LEMMA Stutter ==
  ASSUME IInv, UNCHANGED vars
  PROVE  IInv'
<1>1. UNCHANGED <<rt, idx, armed, covered, row, pw, req, minted, handed, origin,
                  auth, lost, disturbed, revokeDue, faults>>
  BY DEF vars
<1>2. TypeOK'
  BY <1>1 DEF IInv, TypeOK, StoreTypeOK
<1>3. Settled' = Settled /\ LocalsOK' /\ Distinct'
  BY <1>1, <1>2, FrameEnv DEF IInv, TypeOK, StoreTypeOK
<1>4. KeysOK'
  BY <1>1, <1>3, KeysFrame DEF IInv, TypeOK, StoreTypeOK
<1>5. QED BY <1>2, <1>3, <1>4 DEF IInv

(* The invariant holds initially.                                          *)
LEMMA InitIInv == Init => IInv
<1> SUFFICES ASSUME Init PROVE IInv
  OBVIOUS
<1> USE SessionsAssumption, NoUserAssumption, NoReq
<1>1. TypeOK
  BY DEF Init, StoreInit, TypeOK, StoreTypeOK
<1>2. \A p \in Proc : req[p] = NoRequest
  BY DEF Init
<1>3. LocalsOK
  BY <1>2 DEF LocalsOK, Local, At, Usr, Saving, Deleting, Unset
<1>4. Distinct /\ KeysOK
  BY <1>2 DEF Distinct, KeysOK, Init, StoreInit, Live
<1>5. QED BY <1>1, <1>3, <1>4 DEF IInv

(* Every step preserves the invariant.                                     *)
LEMMA NextIInv == IInv /\ [Next]_vars => IInv'
<1> SUFFICES ASSUME IInv, [Next]_vars PROVE IInv'
  OBVIOUS
<1>1. CASE UNCHANGED vars
  BY <1>1, Stutter
<1>2. CASE Next
  BY <1>2, HandlerStep, ArrivalStep, StepFault, StepAbandon, EnvironmentStep
     DEF Next, Abandon
<1>3. QED BY <1>1, <1>2

(* The inductive invariant, and with it type correctness, for every number *)
(* of users, tokens and requests and any number of failures.               *)
THEOREM Inductive == Spec => []IInv
BY InitIInv, NextIInv, PTL DEF Spec

(* Every variable of every reachable state has its type; in particular a   *)
(* token handed to a client was drawn, and no request of any handler mixes *)
(* up its locals.                                                          *)
THEOREM TypeCorrect == Spec => []TypeOK
<1>1. IInv => TypeOK
  BY DEF IInv
<1>2. QED BY <1>1, Inductive, PTL

-----------------------------------------------------------------------------
(* What the inductive invariant gives: the store keeps the promise of      *)
(* TokenLife, and a revocation deletes what it found.                      *)

(* A handler step that keeps the drawn token and stays on its side of the  *)
(* command that sets it leaves the settled tokens as they are.             *)
LEMMA SettledSame ==
  ASSUME IInv, NEW p \in Proc, minted' = minted,
         \A q \in Proc \ {p} : req'[q] = req[q],
         req'[p].chd = req[p].chd,
         req'[p].pc \in Unset <=> req[p].pc \in Unset
  PROVE  Settled' = Settled
BY DEF Settled, Pending

(* A request that returns settles the token it drew.                       *)
LEMMA SettledReturn ==
  ASSUME IInv, NEW p \in Proc, minted' = minted, Return(p)
  PROVE  Settled' = Settled \cup ({req[p].chd} \ {NoToken})
<1> USE SessionsAssumption, NoReq, ReqFacts
<1>1. /\ \A q \in Proc \ {p} : req'[q] = req[q]
      /\ req'[p].chd = NoToken
      /\ req'[p].pc \notin Unset
  BY BecomeReq DEF Return, IInv, Unset, Deleting
<1>2. req[p].chd # NoToken => req[p].chd \in minted
  BY DEF Local
<1>3. NoToken \notin minted
  BY DEF IInv, TypeOK
<1>4. ASSUME NEW t \in minted
      PROVE  t \in Settled' <=> t \in Settled \cup {req[p].chd}
  <2>1. CASE t = req[p].chd
    <3>1. \A q \in Proc \ {p} : req'[q].chd # t
      BY <1>1, <1>3, <2>1 DEF IInv, Distinct
    <3>2. QED BY <1>1, <2>1, <3>1 DEF Settled, Pending
  <2>2. CASE t # req[p].chd
    BY <1>1, <1>3, <2>2 DEF Settled, Pending
  <2>3. QED BY <2>1, <2>2
<1>5. Settled \subseteq minted /\ Settled' \subseteq minted
  BY DEF Settled
<1>6. QED BY <1>2, <1>3, <1>4, <1>5

(* A token just drawn is not settled, and drawing it settles no other.     *)
LEMMA SettledMint ==
  ASSUME IInv, NEW p \in Proc, NEW t \in Token \ minted,
         minted' = minted \cup {t},
         NEW l \in {"set", "delget"}, Become(p, Hold(req[p], l, t)),
         req[p].chd = NoToken
  PROVE  Settled' = Settled
<1> USE SessionsAssumption, ReqFacts
<1>1. /\ \A q \in Proc \ {p} : req'[q] = req[q]
      /\ req'[p].chd = t /\ req'[p].pc = l
  BY HoldReq, BecomeReq DEF IInv, Label, Saving, Deleting
<1>2. l \in Unset
  BY DEF Unset, Deleting
<1>3. NoToken \notin minted
  BY DEF IInv, TypeOK
<1>4. t \notin Settled'
  BY <1>1, <1>2 DEF Settled, Pending
<1>5. ASSUME NEW x \in minted PROVE Pending(x)' <=> Pending(x)
  BY <1>1, <1>3 DEF Pending
<1>6. QED BY <1>4, <1>5 DEF Settled

(* The three ways in which a step changes a token, and the refinement.     *)
LEMMA Quiet ==
  ASSUME rt' = rt, Settled' = Settled
  PROVE  UNCHANGED <<rt, Ended>>
BY DEF Ended, Live

(* Deleting the key of a settled token ends it.                            *)
LEMMA Killed ==
  ASSUME IInv, NEW t \in Settled, rt' = [rt EXCEPT ![t] = NoUser], Settled' = Settled
  PROVE  Life!End(t)
<1>1. t \in Token /\ rt \in [Token -> User \cup {NoUser}] /\ Settled \subseteq Token
  BY DEF IInv, TypeOK, StoreTypeOK, Settled
<1>2. Ended' = Ended \cup {t}
  BY <1>1 DEF Ended, Live
<1>3. QED BY <1>2 DEF Life!End

(* A request that returns ends the token it drew, unless it is live.       *)
LEMMA Returned ==
  ASSUME IInv, NEW p \in Proc, rt' = rt, minted' = minted, Return(p)
  PROVE  \/ UNCHANGED <<rt, Ended>>
         \/ \E t \in Token : Life!End(t)
<1>1. Settled' = Settled \cup ({req[p].chd} \ {NoToken})
  BY SettledReturn
<1>2. CASE req[p].chd = NoToken
  BY <1>1, <1>2, Quiet
<1>3. CASE req[p].chd # NoToken /\ Live(req[p].chd)
  <2>1. req[p].chd \in Settled
    BY <1>3, ReqFacts DEF IInv, KeysOK
  <2>2. QED BY <1>1, <2>1, Quiet
<1>4. CASE req[p].chd # NoToken /\ ~Live(req[p].chd)
  <2>1. req[p].chd \in Token /\ rt \in [Token -> User \cup {NoUser}]
    BY <1>4, ReqFacts DEF IInv, TypeOK, StoreTypeOK
  <2>2. Ended' = Ended \cup {req[p].chd}
    BY <1>1, <1>4 DEF Ended, Live
  <2>3. rt' = [rt EXCEPT ![req[p].chd] = NoUser]
    BY <1>4, <2>1 DEF Live
  <2>4. QED BY <2>1, <2>2, <2>3 DEF Life!End
<1>5. QED BY <1>2, <1>3, <1>4

(* Whatever follows DeleteRefreshToken ends at most the drawn token.       *)
LEMMA AfterDeleted ==
  ASSUME IInv, NEW p \in Proc, rt' = rt, minted' = minted,
         req[p].pc \in Deleting, AfterDelete(p)
  PROVE  \/ UNCHANGED <<rt, Ended>>
         \/ \E t \in Token : Life!End(t)
<1>1. CASE req[p].op = "refresh"
  <2>1. /\ \A q \in Proc \ {p} : req'[q] = req[q]
        /\ req'[p].chd = req[p].chd /\ req'[p].pc = "set"
    BY <1>1, ReqFacts, ScanReq, BecomeReq DEF AfterDelete, IInv, Label, Saving
  <2>2. Settled' = Settled
    BY <2>1, SettledSame DEF Unset
  <2>3. QED BY <2>2, Quiet
<1>2. CASE req[p].op # "refresh"
  BY <1>2, Returned DEF AfterDelete
<1>3. QED BY <1>1, <1>2

(* Every step of a handler issues or ends one token, or none.              *)
LEMMA HandlerLife ==
  ASSUME IInv, NEW p \in Proc, Step(p)
  PROVE  [Life!Next]_<<rt, Ended>>
<1> USE SessionsAssumption, NoUserAssumption, ReqFacts
<1>a. SUFFICES \/ UNCHANGED <<rt, Ended>>
               \/ \E t \in Token : Life!End(t) \/ \E u \in User : Life!Issue(t, u)
  BY DEF Life!Next
<1>1. CASE LoginHash(p)
  <2>1. CASE Return(p) /\ UNCHANGED lineage
    BY <1>1, <2>1, Returned DEF LoginHash, store, lineage
  <2>2. CASE ~(Return(p) /\ UNCHANGED lineage)
    <3>1. PICK t \in Token : /\ Mint(p, t, pw[Usr(p)], t)
                             /\ Become(p, Hold(req[p], "set", t))
      BY <1>1, <2>2 DEF LoginHash
    <3>2. req[p].chd = NoToken /\ rt' = rt
      BY <1>1 DEF LoginHash, At, Local, store
    <3>3. QED BY <3>1, <3>2, SettledMint, Quiet DEF Mint
  <2>3. QED BY <2>1, <2>2
<1>2. CASE RefreshUser(p)
  <2>1. CASE Return(p) /\ UNCHANGED lineage
    BY <1>2, <2>1, Returned DEF RefreshUser, store, lineage
  <2>2. CASE ~(Return(p) /\ UNCHANGED lineage)
    <3>1. PICK t \in Token :
            /\ Mint(p, t, auth[req[p].par], origin[req[p].par])
            /\ Become(p, Hold(req[p], "delget", t))
      BY <1>2, <2>2 DEF RefreshUser
    <3>2. req[p].chd = NoToken /\ rt' = rt
      BY <1>2 DEF RefreshUser, At, Local, store
    <3>3. QED BY <3>1, <3>2, SettledMint, Quiet DEF Mint
  <2>3. QED BY <2>1, <2>2
<1>3. CASE SaveSet(p)
  <2> DEFINE t == req[p].chd
             u == req[p].usr
  <2>a. req[p].pc = "set" /\ Become(p, Move(req[p], "sadd"))
    BY <1>3 DEF SaveSet, At, Goto
  <2>b. rt' = [rt EXCEPT ![t] = u] /\ minted' = minted
    BY <1>3 DEF SaveSet, SetKey, lineage, Usr
  <2>c. t # NoToken /\ t \in minted /\ ~Live(t) /\ u \in User
    BY <2>a DEF Local, Saving, Unset, Usr, At, NoRequest
  <2>d. t \in Token
    BY <2>c DEF IInv, TypeOK
  <2>e. \A q \in Proc \ {p} : req'[q] = req[q] /\ req[q].chd # t
    <3>1. \A q \in Proc \ {p} : req'[q] = req[q]
      <4>1. Move(req[p], "sadd") \in Request
        BY MoveReq DEF Label, Saving
      <4>2. QED BY <2>a, <4>1, BecomeReq DEF IInv
    <3>2. \A q \in Proc \ {p} : req[q].chd # t
      BY <2>c DEF IInv, Distinct
    <3>3. QED BY <3>1, <3>2
  <2>f. req'[p].chd = t /\ req'[p].pc = "sadd"
    BY <2>a, MoveReq, BecomeReq DEF Label, Saving, IInv
  <2>1. /\ rt' = [rt EXCEPT ![t] = u] /\ minted' = minted
        /\ req[p].pc = "set" /\ t # NoToken /\ t \in minted /\ t \in Token
        /\ ~Live(t) /\ u \in User
        /\ \A q \in Proc \ {p} : req'[q] = req[q] /\ req[q].chd # t
        /\ req'[p].chd = t /\ req'[p].pc = "sadd"
    BY <2>a, <2>b, <2>c, <2>d, <2>e, <2>f
  <2>2. t \notin Settled
    BY <2>1 DEF Settled, Pending, Unset
  <2>3. Settled' = Settled \cup {t}
    BY <2>1 DEF Settled, Pending, Unset, Deleting
  <2>4. Ended' = Ended
    BY <2>1, <2>2, <2>3 DEF Ended, Live, IInv, TypeOK, StoreTypeOK, Settled
  <2>5. Life!Issue(t, u)
    BY <2>1, <2>2, <2>4 DEF Life!Issue, Ended, Live
  <2>6. QED BY <2>1, <2>5
<1>4. CASE SaveIndex(p)
  <2>1. /\ \A q \in Proc \ {p} : req'[q] = req[q]
        /\ req'[p].chd = req[p].chd /\ req'[p].pc = "expire" /\ req[p].pc = "sadd"
        /\ rt' = rt /\ minted' = minted
    BY <1>4, MoveReq, BecomeReq
       DEF SaveIndex, AddToIndex, Goto, lineage, At, Label, Saving, IInv
  <2>2. QED BY <2>1, SettledSame, Quiet DEF Unset, Deleting
<1>5. CASE SaveExpire(p)
  BY <1>5, Returned DEF SaveExpire, RenewIndex, lineage
<1>6. CASE DeleteGet(p)
  <2>1. rt' = rt /\ minted' = minted /\ req[p].pc = "delget"
    BY <1>6 DEF DeleteGet, store, lineage, At
  <2>2. CASE Live(req[p].par)
    <3>1. /\ \A q \in Proc \ {p} : req'[q] = req[q]
          /\ req'[p].chd = req[p].chd /\ req'[p].pc = "delkey"
      BY <1>6, <2>2, MoveReq, BecomeReq DEF DeleteGet, Goto, Label, Deleting, IInv
    <3>2. QED BY <2>1, <3>1, SettledSame, Quiet DEF Unset, Deleting
  <2>3. CASE ~Live(req[p].par)
    BY <1>6, <2>1, <2>3, AfterDeleted DEF DeleteGet, Deleting
  <2>4. QED BY <2>2, <2>3
<1>7. CASE DeleteKey(p)
  <2>1. /\ \A q \in Proc \ {p} : req'[q] = req[q]
        /\ req'[p].chd = req[p].chd /\ req'[p].pc = "members"
        /\ req[p].pc = "delkey"
        /\ rt' = [rt EXCEPT ![req[p].par] = NoUser] /\ minted' = minted
    BY <1>7, MoveReq, BecomeReq
       DEF DeleteKey, DelKey, Goto, lineage, At, Label, Deleting, IInv
  <2>2. req[p].par \in Settled /\ req[p].par \in Token
    BY <2>1 DEF Local, Deleting, IInv, KeysOK, TypeOK
  <2>3. Settled' = Settled
    BY <2>1, SettledSame DEF Unset, Deleting
  <2>4. QED BY <2>1, <2>2, <2>3, Killed
<1>8. CASE DeleteMembers(p)
  <2>1. idx[Usr(p)] \in SUBSET Token
    BY <1>8 DEF DeleteMembers, At, Usr, IInv, TypeOK, StoreTypeOK
  <2>2. /\ \A q \in Proc \ {p} : req'[q] = req[q]
        /\ req'[p].chd = req[p].chd /\ req'[p].pc = "delidx"
        /\ req[p].pc = "members" /\ rt' = rt /\ minted' = minted
    BY <1>8, <2>1, ScanReq, BecomeReq
       DEF DeleteMembers, store, lineage, At, Label, Deleting, IInv
  <2>3. QED BY <2>2, SettledSame, Quiet DEF Unset, Deleting
<1>9. CASE DeleteIndex(p)
  <2> DEFINE rest == req[p].snap \ {req[p].par}
  <2>1. req[p].pc = "delidx" /\ rt' = rt /\ minted' = minted
    BY <1>9 DEF DeleteIndex, DelIndex, lineage, At
  <2>2. CASE rest = {}
    BY <1>9, <2>1, <2>2, AfterDeleted DEF DeleteIndex, Deleting
  <2>3. CASE rest # {}
    <3>1. rest \in SUBSET Token
      OBVIOUS
    <3>2. /\ \A q \in Proc \ {p} : req'[q] = req[q]
          /\ req'[p].chd = req[p].chd /\ req'[p].pc = "readd"
      BY <1>9, <2>3, <3>1, ScanReq, BecomeReq DEF DeleteIndex, Label, Deleting, IInv
    <3>3. QED BY <2>1, <3>2, SettledSame, Quiet DEF Unset, Deleting
  <2>4. QED BY <2>2, <2>3
<1>10. CASE DeleteReAdd(p)
  <2>1. PICK t \in req[p].todo :
          IF req[p].todo = {t}
            THEN AfterDelete(p)
            ELSE Become(p, Scan(req[p], "readd", {}, req[p].todo \ {t}))
    BY <1>10 DEF DeleteReAdd
  <2>2. req[p].pc = "readd" /\ rt' = rt /\ minted' = minted
    BY <1>10 DEF DeleteReAdd, AddToIndex, lineage, At
  <2>3. CASE req[p].todo = {t}
    BY <2>1, <2>2, <2>3, AfterDeleted DEF Deleting
  <2>4. CASE req[p].todo # {t}
    <3>1. /\ \A q \in Proc \ {p} : req'[q] = req[q]
          /\ req'[p].chd = req[p].chd /\ req'[p].pc = "readd"
      BY <2>1, <2>4, ScanReq, BecomeReq DEF Label, Deleting, IInv
    <3>2. QED BY <2>2, <3>1, SettledSame, Quiet DEF Unset, Deleting
  <2>5. QED BY <2>3, <2>4
<1>11. CASE ChangeCheck(p)
  <2>1. rt' = rt /\ minted' = minted /\ req[p].pc = "check"
    BY <1>11 DEF ChangeCheck, store, lineage, At
  <2>2. CASE Return(p)
    BY <2>1, <2>2, Returned
  <2>3. CASE ~Return(p)
    <3>1. /\ \A q \in Proc \ {p} : req'[q] = req[q]
          /\ req'[p].chd = req[p].chd /\ req'[p].pc = "update"
      BY <1>11, <2>3, MoveReq, BecomeReq DEF ChangeCheck, Goto, Label, IInv
    <3>2. QED BY <2>1, <3>1, SettledSame, Quiet DEF Unset, Deleting
  <2>4. QED BY <2>2, <2>3
<1>12. CASE UpdatePassword(p)
  <2>1. rt' = rt /\ minted' = minted /\ req[p].pc = "update"
    BY <1>12 DEF UpdatePassword, store, lineage, At
  <2>2. CASE Return(p)
    BY <2>1, <2>2, Returned
  <2>3. CASE ~Return(p)
    <3>1. /\ \A q \in Proc \ {p} : req'[q] = req[q]
          /\ req'[p].chd = req[p].chd /\ req'[p].pc = "rmembers"
      BY <1>12, <2>3, MoveReq, BecomeReq
         DEF UpdatePassword, Goto, Label, Revoking, IInv
    <3>2. QED BY <2>1, <3>1, SettledSame, Quiet DEF Unset, Deleting
  <2>4. QED BY <2>2, <2>3
<1>13. CASE RevokeMembers(p)
  <2> DEFINE l == IF idx[Usr(p)] = {} THEN "rdelidx" ELSE "rdel"
  <2>1. idx[Usr(p)] \in SUBSET Token /\ l \in Label /\ l \notin Unset
    BY <1>13 DEF RevokeMembers, At, Usr, IInv, TypeOK, StoreTypeOK, Label,
                 Revoking, Unset, Deleting
  <2>2. /\ \A q \in Proc \ {p} : req'[q] = req[q]
        /\ req'[p].chd = req[p].chd /\ req'[p].pc = l
        /\ req[p].pc = "rmembers" /\ rt' = rt /\ minted' = minted
    BY <1>13, <2>1, ScanReq, BecomeReq DEF RevokeMembers, store, lineage, At, IInv
  <2> HIDE DEF l
  <2>3. QED BY <2>1, <2>2, SettledSame, Quiet DEF Unset, Deleting
<1>14. CASE RevokeKey(p)
  <2>1. PICK t \in req[p].todo :
          /\ DelKey(t)
          /\ Become(p, Scan(req[p], IF req[p].todo = {t} THEN "rdelidx" ELSE "rdel",
                            req[p].snap, req[p].todo \ {t}))
    BY <1>14 DEF RevokeKey
  <2> DEFINE l == IF req[p].todo = {t} THEN "rdelidx" ELSE "rdel"
  <2>2. l \in Label /\ l \notin Unset
    BY DEF Label, Revoking, Unset, Deleting
  <2>a. req[p].pc = "rdel" /\ minted' = minted /\ rt' = [rt EXCEPT ![t] = NoUser]
    BY <1>14, <2>1 DEF RevokeKey, DelKey, lineage, At
  <2>b. t \in Settled /\ t \in Token
    BY <2>1 DEF Local
  <2>c. req[p].snap \in SUBSET Token /\ req[p].todo \ {t} \in SUBSET Token
    OBVIOUS
  <2>d. Become(p, Scan(req[p], l, req[p].snap, req[p].todo \ {t}))
    BY <2>1
  <2> HIDE DEF l
  <2>3. /\ \A q \in Proc \ {p} : req'[q] = req[q]
        /\ req'[p].chd = req[p].chd /\ req'[p].pc = l
    BY <2>2, <2>c, <2>d, ScanReq, BecomeReq DEF IInv
  <2>4. Settled' = Settled
    BY <2>2, <2>3, <2>a, SettledSame DEF Unset, Deleting
  <2>5. QED BY <2>a, <2>b, <2>4, Killed
<1>15. CASE RevokeIndex(p)
  BY <1>15, Returned DEF RevokeIndex, DelIndex, lineage
<1>16. QED
  BY <1>1, <1>2, <1>3, <1>4, <1>5, <1>6, <1>7, <1>8, <1>9, <1>10, <1>11, <1>12,
     <1>13, <1>14, <1>15 DEF Step

(* The arrival of a request neither issues nor ends a token.               *)
LEMMA BeginLife ==
  ASSUME IInv, NEW p \in Proc, NEW o \in Op, NEW l \in Label, NEW u \in User,
         NEW t \in Token \cup {NoToken}, Begin(p, o, l, u, t),
         rt' = rt, minted' = minted
  PROVE  UNCHANGED <<rt, Ended>>
<1> USE SessionsAssumption, NoUserAssumption, ReqFacts
<1>1. /\ \A q \in Proc \ {p} : req'[q] = req[q]
      /\ req'[p].chd = NoToken /\ req[p].chd = NoToken
  BY ArriveReq, BecomeReq, NoReq DEF Begin, IInv, At, Usr, Local
<1>2. NoToken \notin minted
  BY DEF IInv, TypeOK
<1>3. Settled' = Settled
  BY <1>1, <1>2 DEF Settled, Pending
<1>4. QED BY <1>3, Quiet

(* The same, for each of the operations that arrive.                       *)
LEMMA ArrivalLife ==
  ASSUME IInv, NEW p \in Proc, Arrival(p)
  PROVE  UNCHANGED <<rt, Ended>>
<1> USE SessionsAssumption, NoUserAssumption
<1> USE DEF store, lineage, Op, Label, Saving, Deleting, Revoking
<1>1. ASSUME NEW u \in User,
             \/ LoginUser(p, u) \/ LogoutAll(p, u) \/ ChangePassword(p, u)
             \/ ResetPassword(p, u) \/ Purge(p, u)
      PROVE  UNCHANGED <<rt, Ended>>
  BY <1>1, BeginLife DEF LoginUser, LogoutAll, ChangePassword, ResetPassword, Purge
<1>2. ASSUME NEW t \in Token, RefreshGet(p, t) \/ LogoutGet(p, t)
      PROVE  UNCHANGED <<rt, Ended>>
  <2>1. rt[t] \in User
    BY <1>2 DEF RefreshGet, LogoutGet, Live, IInv, TypeOK, StoreTypeOK
  <2>2. QED BY <1>2, <2>1, BeginLife DEF RefreshGet, LogoutGet
<1>3. QED BY <1>1, <1>2 DEF Arrival

(* Every step of Sessions is a step of TokenLife or a stutter.             *)
LEMMA StepLife == IInv /\ [Next]_vars => [Life!Next]_<<rt, Ended>>
<1> SUFFICES ASSUME IInv, [Next]_vars PROVE [Life!Next]_<<rt, Ended>>
  OBVIOUS
<1>1. ASSUME NEW p \in Proc, Fault(p) \/ Abandon(p)
      PROVE  \/ UNCHANGED <<rt, Ended>>
             \/ \E t \in Token : Life!End(t)
  <2>1. rt' = rt /\ minted' = minted
    BY <1>1 DEF Fault, Abandon, Fail, store, lineage
  <2>2. CASE Return(p)
    BY <2>1, <2>2, Returned
  <2>3. CASE ~Return(p)
    BY <1>1, <2>1, <2>3, AfterDeleted DEF Fault, Abandon
  <2>4. QED BY <2>2, <2>3
<1>2. ASSUME NEW u \in User, VerifyEmail(u) \/ UserIndexExpires(u)
      PROVE  UNCHANGED <<rt, Ended>>
  <2>1. rt' = rt /\ minted' = minted /\ req' = req
    BY <1>2 DEF VerifyEmail, UserIndexExpires, IndexExpires, DelIndex, store, lineage
  <2>2. Settled' = Settled
    BY <2>1 DEF Settled, Pending
  <2>3. QED BY <2>1, <2>2, Quiet
<1>3. ASSUME NEW t \in Token, TokenExpires(t)
      PROVE  Life!End(t)
  <2>1. rt' = [rt EXCEPT ![t] = NoUser] /\ minted' = minted /\ req' = req /\ Live(t)
    BY <1>3 DEF TokenExpires, KeyExpires, DelKey, lineage
  <2>2. Settled' = Settled /\ t \in Settled
    BY <2>1 DEF Settled, Pending, IInv, KeysOK
  <2>3. QED BY <2>1, <2>2, Killed
<1>4. CASE UNCHANGED vars
  <2>1. rt' = rt /\ minted' = minted /\ req' = req
    BY <1>4 DEF vars
  <2>2. Settled' = Settled
    BY <2>1 DEF Settled, Pending
  <2>3. QED BY <2>1, <2>2, Quiet
<1>5. CASE Next
  BY <1>1, <1>2, <1>3, <1>5, HandlerLife, ArrivalLife DEF Next, Life!Next
<1>6. QED BY <1>4, <1>5

(* Whatever requests run concurrently and fail, a token is issued once, to *)
(* one user, and is never accepted again after it was deleted or expired.  *)
THEOREM Implements == Spec => LivesOnce
<1>1. Init => Life!Init
  <2> SUFFICES ASSUME Init PROVE Life!Init
    OBVIOUS
  <2>1. Ended = {}
    BY DEF Init, Ended, Settled
  <2>2. QED BY <2>1 DEF Init, StoreInit, Life!Init
<1>2. QED
  BY <1>1, StepLife, Inductive, PTL DEF Spec, LivesOnce, Life!Spec
-----------------------------------------------------------------------------
(* A settled token that is not live stays so.                              *)
LEMMA DeadStays ==
  ASSUME IInv, [Next]_vars, NEW x \in Ended
  PROVE  ~Live(x)'
<1>1. [Life!Next]_<<rt, Ended>>
  BY StepLife
<1>2. x \in Token /\ rt[x] = NoUser /\ rt \in [Token -> User \cup {NoUser}]
  BY DEF Ended, Settled, Live, IInv, TypeOK, StoreTypeOK
<1>3. CASE UNCHANGED <<rt, Ended>>
  BY <1>2, <1>3 DEF Live
<1>4. ASSUME NEW t \in Token, Life!End(t)
      PROVE  ~Live(x)'
  BY <1>2, <1>4 DEF Life!End, Live
<1>5. ASSUME NEW t \in Token, NEW u \in User, Life!Issue(t, u)
      PROVE  ~Live(x)'
  <2>1. t # x /\ rt' = [rt EXCEPT ![t] = u]
    BY <1>5 DEF Life!Issue
  <2>2. QED BY <1>2, <2>1 DEF Live
<1>6. QED BY <1>1, <1>3, <1>4, <1>5 DEF Life!Next

(* A step of one handler leaves the requests of the others alone.          *)
LEMMA OthersKept ==
  ASSUME IInv, NEW p \in Proc, NEW q \in Proc,
         Step(q) \/ Arrival(q) \/ Fault(q) \/ Abandon(q), p # q
  PROVE  req'[p] = req[p]
<1>1. ASSUME NEW r, Become(q, r) PROVE req'[p] = req[p]
  BY <1>1 DEF Become, IInv, TypeOK
<1>2. (\E r : Become(q, r)) => req'[p] = req[p]
  BY <1>1
<1>3. CASE Arrival(q)
  BY <1>2, <1>3 DEF Arrival, LoginUser, LogoutAll, ChangePassword, ResetPassword,
     Purge, RefreshGet, LogoutGet, Begin
<1>4. CASE Fault(q) \/ Abandon(q)
  BY <1>2, <1>4 DEF Fault, Abandon, AfterDelete, Return
<1>5. CASE Step(q)
  <2>1. CASE \/ LoginHash(q) \/ RefreshUser(q) \/ SaveSet(q) \/ SaveIndex(q)
             \/ SaveExpire(q) \/ ChangeCheck(q) \/ UpdatePassword(q)
    BY <1>2, <2>1 DEF LoginHash, RefreshUser, SaveSet, SaveIndex, SaveExpire,
       ChangeCheck, UpdatePassword, Goto, Return
  <2>2. CASE \/ DeleteGet(q) \/ DeleteKey(q) \/ DeleteMembers(q)
             \/ DeleteIndex(q) \/ DeleteReAdd(q)
    BY <1>2, <2>2 DEF DeleteGet, DeleteKey, DeleteMembers, DeleteIndex,
       DeleteReAdd, AfterDelete, Goto, Return
  <2>3. CASE RevokeMembers(q) \/ RevokeKey(q) \/ RevokeIndex(q)
    BY <1>2, <2>3 DEF RevokeMembers, RevokeKey, RevokeIndex, Return
  <2>4. QED BY <1>5, <2>1, <2>2, <2>3 DEF Step
<1>6. QED BY <1>3, <1>4, <1>5

(* Where a handler can be after its step, unless it is revoking.           *)
LEMMA NotRevoking ==
  ASSUME IInv, NEW p \in Proc,
         \/ Arrival(p) \/ Fault(p) \/ Abandon(p)
         \/ Step(p) /\ ~RevokeMembers(p) /\ ~RevokeKey(p)
  PROVE  req'[p].pc \notin {"rdel", "rdelidx"}
<1> USE SessionsAssumption, NoUserAssumption, NoReq, ReqFacts
<1>0. ASSUME NEW l \in Label, NEW t \in Token, Become(p, Hold(req[p], l, t))
      PROVE  req'[p].pc = l
  <2>1. Hold(req[p], l, t) \in Request /\ Hold(req[p], l, t).pc = l
    BY HoldReq
  <2>2. QED BY <1>0, <2>1, BecomeReq DEF IInv
<1> USE DEF IInv, Label, Saving, Deleting, Revoking, Op
<1>1. Return(p) => req'[p].pc = "idle"
  BY BecomeReq DEF Return
<1>2. \A l \in Label : Goto(p, l) => req'[p].pc = l
  BY MoveReq, BecomeReq DEF Goto
<1>3. \A l \in Label, a, b \in SUBSET Token :
        Become(p, Scan(req[p], l, a, b)) => req'[p].pc = l
  BY ScanReq, BecomeReq
<1>4. AfterDelete(p) => req'[p].pc \in {"set", "idle"}
  BY <1>1, <1>3 DEF AfterDelete
<1>5. \A o \in Op, l \in Label, u \in User, t \in Token \cup {NoToken} :
        Begin(p, o, l, u, t) => req'[p].pc = l
  BY ArriveReq, BecomeReq DEF Begin
<1>6. CASE Arrival(p)
  <2>1. ASSUME NEW t \in Token, RefreshGet(p, t) \/ LogoutGet(p, t)
        PROVE  req'[p].pc \notin {"rdel", "rdelidx"}
    <3>1. rt[t] \in User
      BY <2>1 DEF RefreshGet, LogoutGet, Live, TypeOK, StoreTypeOK
    <3>2. QED BY <1>5, <2>1, <3>1 DEF RefreshGet, LogoutGet
  <2>2. QED BY <1>5, <1>6, <2>1
    DEF Arrival, LoginUser, LogoutAll, ChangePassword, ResetPassword, Purge
<1>7. CASE Fault(p) \/ Abandon(p)
  BY <1>1, <1>4, <1>7 DEF Fault, Abandon
<1>8. CASE Step(p) /\ ~RevokeMembers(p) /\ ~RevokeKey(p)
  <2>1. CASE LoginHash(p) \/ RefreshUser(p)
    BY <1>0, <1>1, <2>1 DEF LoginHash, RefreshUser
  <2>2. CASE SaveSet(p) \/ SaveIndex(p) \/ SaveExpire(p) \/ RevokeIndex(p)
    BY <1>1, <1>2, <2>2 DEF SaveSet, SaveIndex, SaveExpire, RevokeIndex
  <2>3. CASE DeleteGet(p) \/ DeleteKey(p) \/ ChangeCheck(p) \/ UpdatePassword(p)
    BY <1>1, <1>2, <1>4, <2>3 DEF DeleteGet, DeleteKey, ChangeCheck, UpdatePassword
  <2>4. CASE DeleteMembers(p)
    <3>1. idx[Usr(p)] \in SUBSET Token
      BY <2>4 DEF DeleteMembers, At, Usr, TypeOK, StoreTypeOK
    <3>2. QED BY <1>3, <2>4, <3>1 DEF DeleteMembers
  <2>5. CASE DeleteIndex(p)
    <3>1. req[p].snap \ {req[p].par} \in SUBSET Token
      OBVIOUS
    <3>2. QED BY <1>3, <1>4, <2>5, <3>1 DEF DeleteIndex
  <2>6. CASE DeleteReAdd(p)
    BY <1>3, <1>4, <2>6 DEF DeleteReAdd
  <2>7. QED BY <1>8, <2>1, <2>2, <2>3, <2>4, <2>5, <2>6 DEF Step
<1>9. QED BY <1>6, <1>7, <1>8

(* Every step keeps what a revocation has deleted deleted.                 *)
LEMMA SnapshotStep == IInv /\ SnapshotRevoked /\ [Next]_vars => SnapshotRevoked'
<1> SUFFICES ASSUME IInv, SnapshotRevoked, [Next]_vars,
                    NEW p \in Proc, req'[p].pc \in {"rdel", "rdelidx"},
                    NEW x \in req'[p].snap \ req'[p].todo
             PROVE  ~Live(x)'
  BY DEF SnapshotRevoked
<1> USE SessionsAssumption, NoUserAssumption, ReqFacts
<1>1. CASE req'[p] = req[p]
  <2>1. x \in Settled
    BY <1>1 DEF Local
  <2>2. ~Live(x)
    BY <1>1 DEF SnapshotRevoked
  <2>3. QED BY <2>1, <2>2, DeadStays DEF Ended
<1>2. CASE RevokeMembers(p)
  <2>1. idx[Usr(p)] \in SUBSET Token
    BY <1>2 DEF RevokeMembers, At, Usr, IInv, TypeOK, StoreTypeOK
  <2>2. \A l \in Label : Become(p, Scan(req[p], l, idx[Usr(p)], idx[Usr(p)])) =>
          req'[p].snap \ req'[p].todo = {}
    BY <2>1, ScanReq, BecomeReq DEF IInv
  <2>3. QED BY <1>2, <2>2 DEF RevokeMembers, Label, Revoking
<1>3. CASE RevokeKey(p)
  <2>1. PICK t \in req[p].todo :
          /\ DelKey(t)
          /\ Become(p, Scan(req[p], IF req[p].todo = {t} THEN "rdelidx" ELSE "rdel",
                            req[p].snap, req[p].todo \ {t}))
    BY <1>3 DEF RevokeKey
  <2>2. req[p].pc = "rdel" /\ req[p].todo \ {t} \in SUBSET Token
    BY <1>3 DEF RevokeKey, At
  <2>3. \A l \in Label :
          Become(p, Scan(req[p], l, req[p].snap, req[p].todo \ {t})) =>
            req'[p].snap = req[p].snap /\ req'[p].todo = req[p].todo \ {t}
    BY <2>2, ScanReq, BecomeReq DEF IInv
  <2>4. req'[p].snap = req[p].snap /\ req'[p].todo = req[p].todo \ {t}
    BY <2>1, <2>3 DEF Label, Revoking
  <2>5. CASE x = t
    <3>1. t \in Token /\ rt \in [Token -> User \cup {NoUser}]
      BY DEF IInv, TypeOK, StoreTypeOK
    <3>2. rt' = [rt EXCEPT ![t] = NoUser]
      BY <2>1 DEF DelKey
    <3>3. QED BY <2>5, <3>1, <3>2 DEF Live
  <2>6. CASE x # t
    <3>1. x \in req[p].snap \ req[p].todo
      BY <2>4, <2>6
    <3>2. x \in Settled /\ ~Live(x)
      BY <2>2, <3>1 DEF Local, SnapshotRevoked
    <3>3. QED BY <3>2, DeadStays DEF Ended
  <2>7. QED BY <2>5, <2>6
<1>4. CASE req'[p] # req[p] /\ ~RevokeMembers(p) /\ ~RevokeKey(p)
  <2>1. req' # req
    BY <1>4
  <2>2. /\ Next
        /\ \A u \in User : ~VerifyEmail(u) /\ ~UserIndexExpires(u)
        /\ \A t \in Token : ~TokenExpires(t)
    BY <2>1 DEF vars, VerifyEmail, UserIndexExpires, TokenExpires
  <2>3. PICK q \in Proc : Step(q) \/ Arrival(q) \/ Fault(q) \/ Abandon(q)
    BY <2>2 DEF Next
  <2>4. p = q
    BY <1>4, <2>3, OthersKept
  <2>5. req'[p].pc \notin {"rdel", "rdelidx"}
    BY <1>4, <2>3, <2>4, NotRevoking
  <2>6. QED BY <2>5
<1>5. QED BY <1>1, <1>2, <1>3, <1>4

(* Whatever runs beside it, DeleteUserRefreshTokens has deleted every      *)
(* token it found once it is past it: no save, no write-back and no        *)
(* rotation brings one of them back.                                       *)
THEOREM RevocationSticks == Spec => []SnapshotRevoked
<1>1. Init => SnapshotRevoked
  BY DEF Init, SnapshotRevoked, NoRequest
<1>2. QED BY <1>1, SnapshotStep, Inductive, PTL DEF Spec

-----------------------------------------------------------------------------
(* The shape of a step: what it does to the request of its process, with   *)
(* the other requests as they were, and to every other variable.  The      *)
(* invariants below speak of what the shapes change.                       *)
Others(p) == \A q \in Proc \ {p} : req'[q] = req[q]

Went(p, l, c, S, T) ==
  /\ Others(p)
  /\ req'[p].op = req[p].op /\ req'[p].pc = l /\ req'[p].usr = req[p].usr
  /\ req'[p].par = req[p].par /\ req'[p].chd = c
  /\ req'[p].snap = S /\ req'[p].todo = T

Left(p) ==
  /\ Others(p)
  /\ req'[p].op = "none" /\ req'[p].pc = "idle" /\ req'[p].usr = NoUser
  /\ req'[p].par = NoToken /\ req'[p].chd = NoToken
  /\ req'[p].snap = {} /\ req'[p].todo = {}

Came(p, o, l, u, t) ==
  /\ Others(p)
  /\ req[p].pc = "idle" /\ req[p].usr = NoUser /\ req[p].chd = NoToken
  /\ req'[p].op = o /\ req'[p].pc = l /\ req'[p].usr = u
  /\ req'[p].par = t /\ req'[p].chd = NoToken
  /\ req'[p].snap = {} /\ req'[p].todo = {}

(* After DeleteRefreshToken: on to saving the new token, or done.          *)
Done(p) ==
  \/ req[p].op = "refresh" /\ Went(p, "set", req[p].chd, {}, {})
  \/ req[p].op # "refresh" /\ Left(p)

LEMMA GotoShape ==
  ASSUME IInv, NEW p \in Proc, NEW l \in Label, Goto(p, l)
  PROVE  Went(p, l, req[p].chd, req[p].snap, req[p].todo)
<1>1. Move(req[p], l) \in Request
  BY ReqFacts, MoveReq
<1>2. QED BY <1>1, ReqFacts, MoveReq, BecomeReq DEF Goto, Went, Others, IInv

LEMMA HoldShape ==
  ASSUME IInv, NEW p \in Proc, NEW l \in Label, NEW t \in Token,
         Become(p, Hold(req[p], l, t))
  PROVE  Went(p, l, t, req[p].snap, req[p].todo)
<1>1. Hold(req[p], l, t) \in Request
  BY ReqFacts, HoldReq
<1>2. QED BY <1>1, ReqFacts, HoldReq, BecomeReq DEF Went, Others, IInv

LEMMA ScanShape ==
  ASSUME IInv, NEW p \in Proc, NEW l \in Label,
         NEW S \in SUBSET Token, NEW T \in SUBSET Token,
         Become(p, Scan(req[p], l, S, T))
  PROVE  Went(p, l, req[p].chd, S, T)
<1>1. Scan(req[p], l, S, T) \in Request
  BY ReqFacts, ScanReq
<1>2. QED BY <1>1, ReqFacts, ScanReq, BecomeReq DEF Went, Others, IInv

LEMMA ReturnShape ==
  ASSUME IInv, NEW p \in Proc, Return(p)
  PROVE  Left(p)
BY NoReq, BecomeReq DEF Return, Left, Others, IInv

LEMMA DoneShape ==
  ASSUME IInv, NEW p \in Proc, AfterDelete(p)
  PROVE  Done(p)
<1>1. "set" \in Label
  BY DEF Label, Saving
<1>2. QED BY <1>1, ReturnShape, ScanShape DEF AfterDelete, Done

LEMMA BeginShape ==
  ASSUME IInv, NEW p \in Proc, NEW o \in Op, NEW l \in Label, NEW u \in User,
         NEW t \in Token \cup {NoToken}, Begin(p, o, l, u, t)
  PROVE  /\ Came(p, o, l, u, t)
         /\ disturbed' = IF Conflict(p, o, u) THEN disturbed \cup {u} ELSE disturbed
<1>1. req[p].usr = NoUser /\ req[p].pc = "idle" /\ req[p].chd = NoToken
  BY ReqFacts, NoReq DEF Begin, At, Local, Usr
<1>2. Arrive(o, l, u, t) \in Request
  BY ArriveReq
<1>3. QED BY <1>1, <1>2, ArriveReq, BecomeReq DEF Begin, Came, Others, IInv

(* A login finds the hash: it draws a token or returns.                    *)
LEMMA LoginHashShape ==
  ASSUME IInv, NEW p \in Proc, LoginHash(p)
  PROVE  /\ req[p].pc = "hash" /\ req[p].usr \in User /\ req[p].chd = NoToken
         /\ UNCHANGED <<rt, idx, armed, covered, row, pw, handed, lost,
            disturbed, revokeDue, faults>>
         /\ \/ Left(p) /\ UNCHANGED <<minted, origin, auth>>
            \/ /\ row[req[p].usr] # "purged"
               /\ \E t \in Token :
                    /\ Mint(p, t, pw[req[p].usr], t)
                    /\ Went(p, "set", t, req[p].snap, req[p].todo)
<1>1. At(p, "hash") /\ "set" \in Label
  BY DEF LoginHash, Label, Saving
<1>2. req[p].pc = "hash" /\ req[p].usr \in User /\ req[p].chd = NoToken
  BY <1>1, ReqFacts DEF At, Local
<1>3. QED BY <1>1, <1>2, ReturnShape, HoldShape
  DEF LoginHash, store, rows, lineage, Usr

(* A refresh finds the user: it draws a token or returns.                  *)
LEMMA RefreshUserShape ==
  ASSUME IInv, NEW p \in Proc, RefreshUser(p)
  PROVE  /\ req[p].pc = "getuser" /\ req[p].usr \in User
         /\ req[p].chd = NoToken
         /\ req[p].par \in handed /\ req[p].op \in {"refresh", "logout"}
         /\ UNCHANGED <<rt, idx, armed, covered, row, pw, handed, lost,
            disturbed, revokeDue, faults>>
         /\ \/ Left(p) /\ UNCHANGED <<minted, origin, auth>>
            \/ /\ row[req[p].usr] # "purged"
               /\ \E t \in Token :
                    /\ Mint(p, t, auth[req[p].par], origin[req[p].par])
                    /\ Went(p, "delget", t, req[p].snap, req[p].todo)
<1>1. At(p, "getuser") /\ "delget" \in Label
  BY DEF RefreshUser, Label, Deleting
<1>2. /\ req[p].pc = "getuser" /\ req[p].usr \in User /\ req[p].chd = NoToken
      /\ req[p].par \in handed /\ req[p].op \in {"refresh", "logout"}
  BY <1>1, ReqFacts DEF At, Local
<1>3. QED BY <1>1, <1>2, ReturnShape, HoldShape
  DEF RefreshUser, store, rows, lineage, Usr

(* SaveRefreshToken sets the drawn token.                                  *)
LEMMA SaveSetShape ==
  ASSUME IInv, NEW p \in Proc, SaveSet(p)
  PROVE  /\ req[p].pc = "set" /\ req[p].usr \in User
         /\ req[p].chd \in minted \ handed /\ ~Live(req[p].chd)
         /\ UNCHANGED <<idx, armed, covered, row, pw, minted, origin, auth,
            handed, lost, disturbed, revokeDue, faults>>
         /\ rt' = [rt EXCEPT ![req[p].chd] = req[p].usr]
         /\ Went(p, "sadd", req[p].chd, req[p].snap, req[p].todo)
<1>1. At(p, "set") /\ "sadd" \in Label
  BY DEF SaveSet, Label, Saving, Deleting, Revoking
<1>2. req[p].pc = "set" /\ req[p].usr \in User
  BY <1>1, ReqFacts DEF At
<1>3. req[p].chd \in minted \ handed /\ ~Live(req[p].chd)
  BY <1>2, ReqFacts DEF Local, Saving, Unset
<1>4. QED BY <1>1, <1>2, <1>3, GotoShape DEF SaveSet, SetKey, rows, lineage, Usr

(* ... adds it to the index ...                                            *)
LEMMA SaveIndexShape ==
  ASSUME IInv, NEW p \in Proc, SaveIndex(p)
  PROVE  /\ req[p].pc = "sadd" /\ req[p].usr \in User
         /\ req[p].chd \in minted \ handed
         /\ rt[req[p].chd] \in {req[p].usr, NoUser}
         /\ UNCHANGED <<rt, armed, covered, row, pw, minted, origin, auth,
            handed, lost, disturbed, revokeDue, faults>>
         /\ idx' = [idx EXCEPT ![req[p].usr] = @ \cup {req[p].chd}]
         /\ Went(p, "expire", req[p].chd, req[p].snap, req[p].todo)
<1>1. At(p, "sadd") /\ "expire" \in Label
  BY DEF SaveIndex, Label, Saving, Deleting, Revoking
<1>2. req[p].pc = "sadd" /\ req[p].usr \in User
  BY <1>1, ReqFacts DEF At
<1>3. req[p].chd \in minted \ handed /\ rt[req[p].chd] \in {req[p].usr, NoUser}
  BY <1>2, ReqFacts DEF Local, Saving, Usr
<1>4. QED BY <1>1, <1>2, <1>3, GotoShape
  DEF SaveIndex, AddToIndex, rows, lineage, Usr

(* ... and renews the index.                                               *)
LEMMA SaveExpireShape ==
  ASSUME IInv, NEW p \in Proc, SaveExpire(p)
  PROVE  /\ req[p].pc = "expire" /\ req[p].usr \in User
         /\ req[p].chd \in minted \ handed
         /\ rt[req[p].chd] \in {req[p].usr, NoUser}
         /\ UNCHANGED <<rt, idx, row, pw, minted, origin, auth, lost,
            disturbed, revokeDue, faults>>
         /\ handed' = handed \cup {req[p].chd}
         /\ \/ idx[req[p].usr] = {} /\ UNCHANGED <<armed, covered>>
            \/ /\ armed' = [armed EXCEPT ![req[p].usr] = TRUE]
               /\ covered' = [covered EXCEPT ![req[p].usr] =
                                               {t \in Token : rt[t] = req[p].usr}]
         /\ Left(p)
<1>1. At(p, "expire") /\ "idle" \in Label
  BY DEF SaveExpire, Label, Saving, Deleting, Revoking
<1>2. req[p].pc = "expire" /\ req[p].usr \in User
  BY <1>1, ReqFacts DEF At
<1>3. req[p].chd \in minted \ handed /\ rt[req[p].chd] \in {req[p].usr, NoUser}
  BY <1>2, ReqFacts DEF Local, Saving, Usr
<1>4. QED BY <1>1, <1>2, <1>3, ReturnShape
  DEF SaveExpire, RenewIndex, rows, lineage, Usr

(* DeleteRefreshToken looks the old token up.                              *)
LEMMA DeleteGetShape ==
  ASSUME IInv, NEW p \in Proc, DeleteGet(p)
  PROVE  /\ req[p].pc = "delget" /\ req[p].usr \in User
         /\ req[p].par \in handed /\ req[p].op \in {"refresh", "logout"}
         /\ UNCHANGED <<rt, idx, armed, covered, row, pw, minted, origin, auth,
            handed, lost, disturbed, revokeDue, faults>>
         /\ \/ /\ Live(req[p].par)
               /\ Went(p, "delkey", req[p].chd, req[p].snap, req[p].todo)
            \/ ~Live(req[p].par) /\ Done(p)
<1>1. At(p, "delget") /\ "delkey" \in Label
  BY DEF DeleteGet, Label, Saving, Deleting, Revoking
<1>2. req[p].pc = "delget" /\ req[p].usr \in User
  BY <1>1, ReqFacts DEF At
<1>3. req[p].par \in handed /\ req[p].op \in {"refresh", "logout"}
  BY <1>2, ReqFacts DEF Local, Deleting
<1>4. QED BY <1>1, <1>2, <1>3, GotoShape, DoneShape
  DEF DeleteGet, store, rows, lineage

(* ... deletes it ...                                                      *)
LEMMA DeleteKeyShape ==
  ASSUME IInv, NEW p \in Proc, DeleteKey(p)
  PROVE  /\ req[p].pc = "delkey" /\ req[p].usr \in User
         /\ req[p].par \in handed /\ req[p].op \in {"refresh", "logout"}
         /\ UNCHANGED <<idx, armed, covered, row, pw, minted, origin, auth,
            handed, lost, disturbed, revokeDue, faults>>
         /\ rt' = [rt EXCEPT ![req[p].par] = NoUser]
         /\ Went(p, "members", req[p].chd, req[p].snap, req[p].todo)
<1>1. At(p, "delkey") /\ "members" \in Label
  BY DEF DeleteKey, Label, Saving, Deleting, Revoking
<1>2. req[p].pc = "delkey" /\ req[p].usr \in User
  BY <1>1, ReqFacts DEF At
<1>3. req[p].par \in handed /\ req[p].op \in {"refresh", "logout"}
  BY <1>2, ReqFacts DEF Local, Deleting
<1>4. QED BY <1>1, <1>2, <1>3, GotoShape DEF DeleteKey, DelKey, rows, lineage

(* ... reads the index ...                                                 *)
LEMMA DeleteMembersShape ==
  ASSUME IInv, NEW p \in Proc, DeleteMembers(p)
  PROVE  /\ req[p].pc = "members" /\ req[p].usr \in User
         /\ req[p].par \in handed /\ req[p].op \in {"refresh", "logout"}
         /\ UNCHANGED <<rt, idx, armed, covered, row, pw, minted, origin, auth,
            handed, lost, disturbed, revokeDue, faults>>
         /\ Went(p, "delidx", req[p].chd, idx[req[p].usr], {})
<1>1. At(p, "members") /\ "delidx" \in Label
  BY DEF DeleteMembers, Label, Saving, Deleting, Revoking
<1>2. req[p].pc = "members" /\ req[p].usr \in User
  BY <1>1, ReqFacts DEF At
<1>3. req[p].par \in handed /\ req[p].op \in {"refresh", "logout"}
  BY <1>2, ReqFacts DEF Local, Deleting
<1>4. idx[req[p].usr] \in SUBSET Token
  BY <1>2 DEF IInv, TypeOK, StoreTypeOK
<1>5. QED BY <1>1, <1>2, <1>3, <1>4, ScanShape
  DEF DeleteMembers, store, rows, lineage, Usr

(* ... deletes the index ...                                               *)
LEMMA DeleteIndexShape ==
  ASSUME IInv, NEW p \in Proc, DeleteIndex(p)
  PROVE  /\ req[p].pc = "delidx" /\ req[p].usr \in User
         /\ req[p].par \in handed /\ req[p].op \in {"refresh", "logout"}
         /\ UNCHANGED <<rt, row, pw, minted, origin, auth, handed, disturbed,
            revokeDue, faults>>
         /\ idx' = [idx EXCEPT ![req[p].usr] = {}]
         /\ armed' = [armed EXCEPT ![req[p].usr] = FALSE]
         /\ covered' = [covered EXCEPT ![req[p].usr] = {}]
         /\ lost' = lost \cup
                 {t \in idx[req[p].usr] \ (req[p].snap \ {req[p].par}) :
                    rt[t] = req[p].usr}
         /\ \/ req[p].snap \ {req[p].par} = {} /\ Done(p)
            \/ Went(p, "readd", req[p].chd, {}, req[p].snap \ {req[p].par})
<1>1. At(p, "delidx") /\ "readd" \in Label
  BY DEF DeleteIndex, Label, Saving, Deleting, Revoking
<1>2. req[p].pc = "delidx" /\ req[p].usr \in User
  BY <1>1, ReqFacts DEF At
<1>3. req[p].par \in handed /\ req[p].op \in {"refresh", "logout"}
  BY <1>2, ReqFacts DEF Local, Deleting
<1>4. req[p].snap \ {req[p].par} \in SUBSET Token
  BY ReqFacts
<1>5. \/ req[p].snap \ {req[p].par} = {} /\ Done(p)
      \/ Went(p, "readd", req[p].chd, {}, req[p].snap \ {req[p].par})
  BY <1>1, <1>4, ScanShape, DoneShape DEF DeleteIndex
<1>6. QED BY <1>1, <1>2, <1>3, <1>5 DEF DeleteIndex, DelIndex, rows, lineage, Usr

(* ... and writes the other members back.                                  *)
LEMMA DeleteReAddShape ==
  ASSUME IInv, NEW p \in Proc, DeleteReAdd(p)
  PROVE  /\ req[p].pc = "readd" /\ req[p].usr \in User
         /\ req[p].par \in handed /\ req[p].op \in {"refresh", "logout"}
         /\ UNCHANGED <<rt, armed, covered, row, pw, minted, origin, auth,
            handed, lost, disturbed, revokeDue, faults>>
         /\ \E t \in req[p].todo :
              /\ idx' = [idx EXCEPT ![req[p].usr] = @ \cup {t}]
              /\ \/ req[p].todo = {t} /\ Done(p)
                 \/ Went(p, "readd", req[p].chd, {}, req[p].todo \ {t})
<1>1. At(p, "readd") /\ "readd" \in Label
  BY DEF DeleteReAdd, Label, Saving, Deleting, Revoking
<1>2. req[p].pc = "readd" /\ req[p].usr \in User
  BY <1>1, ReqFacts DEF At
<1>3. req[p].par \in handed /\ req[p].op \in {"refresh", "logout"}
  BY <1>2, ReqFacts DEF Local, Deleting
<1>4. PICK t \in req[p].todo :
        /\ AddToIndex(Usr(p), t)
        /\ IF req[p].todo = {t}
             THEN AfterDelete(p)
             ELSE Become(p, Scan(req[p], "readd", {}, req[p].todo \ {t}))
  BY DEF DeleteReAdd
<1>5. {} \in SUBSET Token /\ req[p].todo \ {t} \in SUBSET Token
  BY ReqFacts
<1>6. \/ req[p].todo = {t} /\ Done(p)
      \/ Went(p, "readd", req[p].chd, {}, req[p].todo \ {t})
  BY <1>1, <1>4, <1>5, ScanShape, DoneShape
<1>7. idx' = [idx EXCEPT ![req[p].usr] = @ \cup {t}]
  BY <1>4 DEF AddToIndex, Usr
<1>8. QED BY <1>1, <1>2, <1>3, <1>4, <1>6, <1>7
  DEF DeleteReAdd, AddToIndex, rows, lineage

(* ChangePassword checks the current password.                             *)
LEMMA ChangeCheckShape ==
  ASSUME IInv, NEW p \in Proc, ChangeCheck(p)
  PROVE  /\ req[p].pc = "check" /\ req[p].usr \in User
         /\ UNCHANGED <<rt, idx, armed, covered, row, pw, minted, origin, auth,
            handed, lost, disturbed, revokeDue, faults>>
         /\ Left(p) \/ Went(p, "update", req[p].chd, req[p].snap, req[p].todo)
<1>1. At(p, "check") /\ "update" \in Label
  BY DEF ChangeCheck, Label, Saving, Deleting, Revoking
<1>2. req[p].pc = "check" /\ req[p].usr \in User
  BY <1>1, ReqFacts DEF At
<1>3. QED BY <1>1, <1>2, GotoShape, ReturnShape
  DEF ChangeCheck, store, rows, lineage

(* ... and stores the new one.                                             *)
LEMMA UpdatePasswordShape ==
  ASSUME IInv, NEW p \in Proc, UpdatePassword(p)
  PROVE  /\ req[p].pc = "update" /\ req[p].usr \in User
         /\ UNCHANGED <<rt, idx, armed, covered, row, minted, origin, auth,
            handed, lost, disturbed, faults>>
         /\ \/ Left(p) /\ UNCHANGED <<pw, revokeDue>>
            \/ /\ pw' = [pw EXCEPT ![req[p].usr] = @ + 1]
               /\ revokeDue' = revokeDue \cup {req[p].usr}
               /\ Went(p, "rmembers", req[p].chd, req[p].snap, req[p].todo)
<1>1. At(p, "update") /\ "rmembers" \in Label
  BY DEF UpdatePassword, Label, Saving, Deleting, Revoking
<1>2. req[p].pc = "update" /\ req[p].usr \in User
  BY <1>1, ReqFacts DEF At
<1>3. QED BY <1>1, <1>2, GotoShape, ReturnShape
  DEF UpdatePassword, store, lineage, Usr

(* A revocation reads the index ...                                        *)
LEMMA RevokeMembersShape ==
  ASSUME IInv, NEW p \in Proc, RevokeMembers(p)
  PROVE  /\ req[p].pc = "rmembers" /\ req[p].usr \in User
         /\ UNCHANGED <<rt, idx, armed, covered, row, pw, minted, origin, auth,
            handed, lost, disturbed, revokeDue, faults>>
         /\ \E l \in {"rdel", "rdelidx"} :
              /\ l = "rdelidx" <=> idx[req[p].usr] = {}
              /\ Went(p, l, req[p].chd, idx[req[p].usr], idx[req[p].usr])
<1>1. At(p, "rmembers") /\ "rdel" \in Label
  BY DEF RevokeMembers, Label, Saving, Deleting, Revoking
<1>2. req[p].pc = "rmembers" /\ req[p].usr \in User
  BY <1>1, ReqFacts DEF At
<1> DEFINE l == IF idx[req[p].usr] = {} THEN "rdelidx" ELSE "rdel"
<1>3. /\ l \in {"rdel", "rdelidx"} /\ l \in Label
      /\ l = "rdelidx" <=> idx[req[p].usr] = {}
  BY DEF Label, Revoking
<1>4. Become(p, Scan(req[p], l, idx[req[p].usr], idx[req[p].usr]))
  BY DEF RevokeMembers, Usr
<1> HIDE DEF l
<1>5. idx[req[p].usr] \in SUBSET Token
  BY <1>2 DEF IInv, TypeOK, StoreTypeOK
<1>6. Went(p, l, req[p].chd, idx[req[p].usr], idx[req[p].usr])
  BY <1>3, <1>4, <1>5, ScanShape
<1>7. QED BY <1>1, <1>2, <1>3, <1>6 DEF RevokeMembers, store, rows, lineage

(* ... deletes the members ...                                             *)
LEMMA RevokeKeyShape ==
  ASSUME IInv, NEW p \in Proc, RevokeKey(p)
  PROVE  /\ req[p].pc = "rdel" /\ req[p].usr \in User
         /\ UNCHANGED <<idx, armed, covered, row, pw, minted, origin, auth,
            handed, lost, disturbed, revokeDue, faults>>
         /\ \E t \in req[p].todo, l \in {"rdel", "rdelidx"} :
              /\ rt' = [rt EXCEPT ![t] = NoUser]
              /\ l = "rdelidx" <=> req[p].todo = {t}
              /\ Went(p, l, req[p].chd, req[p].snap, req[p].todo \ {t})
<1>1. At(p, "rdel") /\ "rdel" \in Label
  BY DEF RevokeKey, Label, Saving, Deleting, Revoking
<1>2. req[p].pc = "rdel" /\ req[p].usr \in User
  BY <1>1, ReqFacts DEF At
<1>3. PICK t \in req[p].todo :
        /\ DelKey(t)
        /\ Become(p, Scan(req[p], IF req[p].todo = {t} THEN "rdelidx" ELSE "rdel",
                          req[p].snap, req[p].todo \ {t}))
  BY DEF RevokeKey
<1> DEFINE l == IF req[p].todo = {t} THEN "rdelidx" ELSE "rdel"
<1>4. /\ l \in {"rdel", "rdelidx"} /\ l \in Label
      /\ l = "rdelidx" <=> req[p].todo = {t}
  BY DEF Label, Revoking
<1>5. Become(p, Scan(req[p], l, req[p].snap, req[p].todo \ {t}))
  BY <1>3
<1> HIDE DEF l
<1>6. req[p].snap \in SUBSET Token /\ req[p].todo \ {t} \in SUBSET Token
  BY ReqFacts
<1>7. Went(p, l, req[p].chd, req[p].snap, req[p].todo \ {t})
  BY <1>4, <1>5, <1>6, ScanShape
<1>8. rt' = [rt EXCEPT ![t] = NoUser]
  BY <1>3 DEF DelKey
<1>9. QED BY <1>1, <1>2, <1>3, <1>4, <1>7, <1>8
  DEF RevokeKey, DelKey, rows, lineage

(* ... and the index.                                                      *)
LEMMA RevokeIndexShape ==
  ASSUME IInv, NEW p \in Proc, RevokeIndex(p)
  PROVE  /\ req[p].pc = "rdelidx" /\ req[p].usr \in User
         /\ UNCHANGED <<rt, row, pw, minted, origin, auth, handed, disturbed,
            faults>>
         /\ idx' = [idx EXCEPT ![req[p].usr] = {}]
         /\ armed' = [armed EXCEPT ![req[p].usr] = FALSE]
         /\ covered' = [covered EXCEPT ![req[p].usr] = {}]
         /\ lost' = lost \cup {t \in idx[req[p].usr] : rt[t] = req[p].usr}
         /\ revokeDue' = revokeDue \ {req[p].usr}
         /\ Left(p)
<1>1. At(p, "rdelidx") /\ "idle" \in Label
  BY DEF RevokeIndex, Label, Saving, Deleting, Revoking
<1>2. req[p].pc = "rdelidx" /\ req[p].usr \in User
  BY <1>1, ReqFacts DEF At
<1>3. QED BY <1>1, <1>2, ReturnShape
  DEF RevokeIndex, DelIndex, rows, lineage, Usr

(* A request that arrives, with the effects of the purge that may come     *)
(* with it.                                                                *)
Enters(p, o, l, u, t) ==
  /\ Came(p, o, l, u, t)
  /\ disturbed' =
       IF Conflict(p, o, u) THEN disturbed \cup {u} ELSE disturbed
  /\ UNCHANGED <<rt, idx, armed, covered, pw, minted, origin, auth, handed,
                 lost, faults>>

Entry(p) ==
  \E u \in User :
    \/ /\ Enters(p, "login", "hash", u, NoToken)
       /\ UNCHANGED <<row, revokeDue>>
    \/ /\ \E l \in {"rmembers", "check", "update"} :
            Enters(p, "revoke", l, u, NoToken)
       /\ UNCHANGED <<row, revokeDue>>
    \/ /\ Enters(p, "revoke", "rmembers", u, NoToken)
       /\ row' = [row EXCEPT ![u] = "purged"]
       /\ revokeDue' = revokeDue \cup {u}
    \/ /\ \E t \in handed :
            /\ rt[t] = u
            /\ \/ Enters(p, "refresh", "getuser", u, t)
               \/ Enters(p, "logout", "delkey", u, t)
       /\ UNCHANGED <<row, revokeDue>>

LEMMA ArrivalShape ==
  ASSUME IInv, NEW p \in Proc, Arrival(p)
  PROVE  Entry(p)
<1> USE DEF Op, Label, Saving, Deleting, Revoking, store, rows, lineage
<1>1. ASSUME NEW u \in User, LoginUser(p, u) PROVE Entry(p)
  <2>1. Begin(p, "login", "hash", u, NoToken)
    BY <1>1 DEF LoginUser
  <2>2. Enters(p, "login", "hash", u, NoToken)
    BY <1>1, <2>1, BeginShape DEF LoginUser, Enters
  <2>3. QED BY <1>1, <2>2 DEF LoginUser, Entry
<1>2. ASSUME NEW u \in User, NEW l \in {"rmembers", "check", "update"},
             Begin(p, "revoke", l, u, NoToken),
             UNCHANGED <<store, pw, lineage, handed, lost, faults>>
      PROVE  Enters(p, "revoke", l, u, NoToken)
  BY <1>2, BeginShape DEF Enters
<1>3. ASSUME NEW u \in User,
             LogoutAll(p, u) \/ ChangePassword(p, u) \/ ResetPassword(p, u)
      PROVE Entry(p)
  <2>1. PICK l \in {"rmembers", "check", "update"} :
          Begin(p, "revoke", l, u, NoToken)
    BY <1>3 DEF LogoutAll, ChangePassword, ResetPassword
  <2>2. UNCHANGED <<store, rows, lineage, handed, lost, revokeDue, faults>>
    BY <1>3 DEF LogoutAll, ChangePassword, ResetPassword
  <2>3. Enters(p, "revoke", l, u, NoToken)
    BY <1>2, <2>1, <2>2
  <2>4. QED BY <2>2, <2>3 DEF Entry
<1>4. ASSUME NEW u \in User, Purge(p, u) PROVE Entry(p)
  <2>1. Enters(p, "revoke", "rmembers", u, NoToken)
    BY <1>2, <1>4 DEF Purge
  <2>2. QED BY <1>4, <2>1 DEF Purge, Entry
<1>5. ASSUME NEW t \in Token, RefreshGet(p, t) \/ LogoutGet(p, t) PROVE Entry(p)
  <2>1. rt[t] \in User /\ t \in handed
    BY <1>5 DEF RefreshGet, LogoutGet, Live, IInv, TypeOK, StoreTypeOK
  <2>2. \/ Begin(p, "refresh", "getuser", rt[t], t)
        \/ Begin(p, "logout", "delkey", rt[t], t)
    BY <1>5 DEF RefreshGet, LogoutGet
  <2>3. UNCHANGED <<store, rows, lineage, handed, lost, revokeDue, faults>>
    BY <1>5 DEF RefreshGet, LogoutGet
  <2>4. \/ Enters(p, "refresh", "getuser", rt[t], t)
        \/ Enters(p, "logout", "delkey", rt[t], t)
    BY <2>1, <2>2, <2>3, BeginShape DEF Enters
  <2>5. QED BY <2>1, <2>3, <2>4 DEF Entry
<1>6. QED BY <1>1, <1>3, <1>4, <1>5 DEF Arrival

(* A request that fails or is broken off.                                  *)
LEMMA FailShape ==
  ASSUME IInv, NEW p \in Proc, Fault(p) \/ Abandon(p)
  PROVE  /\ req[p].pc # "idle" /\ req[p].usr \in User
         /\ UNCHANGED <<rt, idx, armed, covered, row, pw, minted, origin, auth,
                        handed, revokeDue>>
         /\ faults' = faults + 1
         /\ lost' = lost \cup Dropped(p)
         /\ disturbed' =
              IF Torn(p) = {} THEN disturbed ELSE disturbed \cup {req[p].usr}
         /\ Left(p) \/ (req[p].pc \in Deleting /\ Done(p))
<1>1. Fail(p)
  BY DEF Fault, Abandon
<1>2. req[p].usr \in User
  BY <1>1, ReqFacts DEF Fail
<1>3. Left(p) \/ (req[p].pc \in Deleting /\ Done(p))
  BY ReturnShape, DoneShape DEF Fault, Abandon
<1>4. QED BY <1>1, <1>2, <1>3 DEF Fail, store, rows, lineage, Usr, At

(* What every step keeps: what was drawn, handed out, dropped or disturbed *)
(* stays so, and a settled token keeps its user until it dies.             *)
Kept ==
  /\ minted \subseteq minted' /\ handed \subseteq handed'
  /\ lost \subseteq lost' /\ disturbed \subseteq disturbed'
  /\ \A q \in Proc :
       /\ req'[q].chd \in {req[q].chd, NoToken} \/ req'[q].chd \notin minted
       /\ req'[q].pc \in Unset /\ req'[q].chd \in minted =>
            req[q].pc \in Unset
       /\ req'[q].usr \in {req[q].usr, NoUser} \/ req[q].usr = NoUser

LEMMA StepKept ==
  ASSUME IInv, NEW p \in Proc, Step(p)
  PROVE  Kept
<1> USE ReqFacts DEF Kept, Others
<1>0. NoToken \notin minted
  BY SessionsAssumption DEF IInv, TypeOK
<1>a. Left(p) => \A q \in Proc :
       /\ req'[q].chd \in {req[q].chd, NoToken}
       /\ req'[q].pc \in Unset => req[q].pc \in Unset
       /\ req'[q].usr \in {req[q].usr, NoUser}
  BY DEF Left, Unset, Deleting
<1>b. ASSUME NEW l, NEW S, NEW T, Went(p, l, req[p].chd, S, T),
             l \in Unset => req[p].pc \in Unset
      PROVE \A q \in Proc :
              /\ req'[q].chd = req[q].chd /\ req'[q].usr = req[q].usr
              /\ req'[q].pc \in Unset => req[q].pc \in Unset
  BY <1>b DEF Went
<1>c. Done(p) /\ req[p].pc \in Unset => \A q \in Proc :
       /\ req'[q].chd \in {req[q].chd, NoToken}
       /\ req'[q].pc \in Unset => req[q].pc \in Unset
       /\ req'[q].usr \in {req[q].usr, NoUser}
  BY <1>a, <1>b DEF Done
<1>d. ASSUME NEW l, NEW t \in Token \ minted, Went(p, l, t, req[p].snap, req[p].todo)
      PROVE \A q \in Proc :
              /\ req'[q].chd = req[q].chd \/ req'[q].chd \notin minted
              /\ req'[q].pc \in Unset /\ req'[q].chd \in minted => req[q].pc \in Unset
              /\ req'[q].usr = req[q].usr
  BY <1>d DEF Went
<1>1. CASE LoginHash(p)
  BY <1>1, <1>a, <1>d, LoginHashShape DEF Mint
<1>2. CASE RefreshUser(p)
  BY <1>2, <1>a, <1>d, RefreshUserShape DEF Mint
<1> USE DEF Unset, Deleting
<1>3. CASE SaveSet(p)
  BY <1>3, <1>b, SaveSetShape
<1>4. CASE SaveIndex(p)
  BY <1>4, <1>b, SaveIndexShape
<1>5. CASE SaveExpire(p)
  BY <1>5, <1>a, SaveExpireShape
<1>6. CASE DeleteGet(p)
  BY <1>6, <1>b, <1>c, DeleteGetShape
<1>7. CASE DeleteKey(p)
  BY <1>7, <1>b, DeleteKeyShape
<1>8. CASE DeleteMembers(p)
  BY <1>8, <1>b, DeleteMembersShape
<1>9. CASE DeleteIndex(p)
  BY <1>9, <1>b, <1>c, DeleteIndexShape
<1>10. CASE DeleteReAdd(p)
  BY <1>10, <1>b, <1>c, DeleteReAddShape
<1>11. CASE ChangeCheck(p)
  BY <1>11, <1>a, <1>b, ChangeCheckShape
<1>12. CASE UpdatePassword(p)
  BY <1>12, <1>a, <1>b, UpdatePasswordShape
<1>13. CASE RevokeMembers(p)
  BY <1>13, <1>b, RevokeMembersShape
<1>14. CASE RevokeKey(p)
  BY <1>14, <1>b, RevokeKeyShape
<1>15. CASE RevokeIndex(p)
  BY <1>15, <1>a, RevokeIndexShape
<1>16. QED
  BY <1>1, <1>2, <1>3, <1>4, <1>5, <1>6, <1>7, <1>8, <1>9, <1>10, <1>11,
     <1>12, <1>13, <1>14, <1>15 DEF Step

LEMMA EntryKept ==
  ASSUME IInv, NEW p \in Proc, Entry(p)
  PROVE  Kept
<1>1. PICK o \in Op, l \in Label, u \in User, t \in Token \cup {NoToken} :
        Enters(p, o, l, u, t)
  BY DEF Entry, Op, Label, Saving, Deleting, Revoking, IInv, TypeOK
<1>2. NoToken \notin minted
  BY SessionsAssumption DEF IInv, TypeOK
<1>3. QED BY <1>1, <1>2 DEF Kept, Enters, Came, Others

LEMMA FailKept ==
  ASSUME IInv, NEW p \in Proc, Fault(p) \/ Abandon(p)
  PROVE  Kept
<1>1. Left(p) => Kept
  BY FailShape DEF Kept, Left, Others, Unset, Deleting
<1>2. req[p].pc \in Deleting /\ Done(p) => Kept
  BY <1>1, FailShape DEF Kept, Done, Went, Others, Unset
<1>3. QED BY <1>1, <1>2, FailShape

LEMMA NextKept ==
  ASSUME IInv, [Next]_vars
  PROVE  Kept
<1>1. ASSUME req' = req, minted' = minted, handed' = handed,
             lost \subseteq lost', disturbed \subseteq disturbed'
      PROVE  Kept
  BY <1>1 DEF Kept
<1>2. CASE UNCHANGED vars
  BY <1>1, <1>2 DEF vars
<1>3. ASSUME NEW u \in User, VerifyEmail(u) \/ UserIndexExpires(u) PROVE Kept
  BY <1>1, <1>3 DEF VerifyEmail, UserIndexExpires, lineage
<1>4. ASSUME NEW t \in Token, TokenExpires(t) PROVE Kept
  BY <1>1, <1>4 DEF TokenExpires, lineage
<1>5. QED BY <1>2, <1>3, <1>4, StepKept, ArrivalShape, EntryKept, FailKept DEF Next

LEMMA SettledKept ==
  ASSUME IInv, [Next]_vars
  PROVE  /\ Settled \subseteq Settled'
         /\ \A t \in Settled : rt'[t] \in {rt[t], NoUser}
<1>1. Settled \subseteq Settled'
  <2>1. ASSUME NEW t \in Settled PROVE t \in minted' /\ ~Pending(t)'
    BY <2>1, NextKept, SessionsAssumption DEF Kept, Settled, Pending, IInv, TypeOK
  <2>2. QED BY <2>1 DEF Settled
<1>2. ASSUME NEW t \in Settled PROVE rt'[t] \in {rt[t], NoUser}
  <2>1. CASE ~Live(t)
    BY <2>1, DeadStays DEF Ended, Live
  <2>2. CASE Live(t)
    <3>1. t \in Token /\ rt[t] # NoUser /\ rt \in [Token -> User \cup {NoUser}]
      BY <2>2 DEF Settled, Live, IInv, TypeOK, StoreTypeOK
    <3>2. [Life!Next]_<<rt, Ended>>
      BY StepLife
    <3>3. CASE UNCHANGED <<rt, Ended>>
      BY <3>3
    <3>4. CASE Life!Next
      BY <3>1, <3>4 DEF Life!Next, Life!End, Life!Issue
    <3>5. QED BY <3>2, <3>3, <3>4
  <2>3. QED BY <2>1, <2>2
<1>3. QED BY <1>1, <1>2

-----------------------------------------------------------------------------
(* Every index holds tokens of its own user only.                          *)

(* Where the tokens of an index come from in a step.                       *)
LEMMA IndexFrom ==
  ASSUME IInv, [Next]_vars, NEW u \in User, NEW t \in idx'[u]
  PROVE  \/ t \in idx[u]
         \/ \E p \in Proc : SaveIndex(p) /\ Usr(p) = u /\ t = req[p].chd
         \/ \E p \in Proc : DeleteReAdd(p) /\ Usr(p) = u /\ t \in req[p].todo
<1> USE DEF IInv, TypeOK, StoreTypeOK, Usr
<1>1. CASE idx' = idx
  BY <1>1
<1>2. ASSUME NEW p \in Proc, SaveIndex(p)
      PROVE  t \in idx[u] \/ (Usr(p) = u /\ t = req[p].chd)
  BY <1>2, SaveIndexShape
<1>3. ASSUME NEW p \in Proc, DeleteReAdd(p)
      PROVE  t \in idx[u] \/ (Usr(p) = u /\ t \in req[p].todo)
  <2>1. PICK x \in req[p].todo : idx' = [idx EXCEPT ![req[p].usr] = @ \cup {x}]
    BY <1>3, DeleteReAddShape
  <2>2. QED BY <2>1
<1>4. ASSUME NEW p \in Proc, Step(p), ~SaveIndex(p), ~DeleteReAdd(p)
      PROVE  t \in idx[u]
  <2>1. CASE LoginHash(p) \/ RefreshUser(p) \/ SaveSet(p) \/ SaveExpire(p)
             \/ ChangeCheck(p) \/ UpdatePassword(p)
    BY <1>1, <2>1, LoginHashShape, RefreshUserShape, SaveSetShape,
       SaveExpireShape, ChangeCheckShape, UpdatePasswordShape
  <2>2. CASE DeleteGet(p) \/ DeleteKey(p) \/ DeleteMembers(p)
             \/ RevokeMembers(p) \/ RevokeKey(p)
    BY <1>1, <2>2, DeleteGetShape, DeleteKeyShape, DeleteMembersShape,
       RevokeMembersShape, RevokeKeyShape
  <2>3. CASE DeleteIndex(p)
    BY <2>3, DeleteIndexShape
  <2>4. CASE RevokeIndex(p)
    BY <2>4, RevokeIndexShape
  <2>5. QED BY <1>4, <2>1, <2>2, <2>3, <2>4 DEF Step
<1>5. ASSUME NEW p \in Proc, Arrival(p) \/ Fault(p) \/ Abandon(p)
      PROVE  idx' = idx
  BY <1>5, ArrivalShape, FailShape DEF Entry, Enters
<1>6. ASSUME NEW v \in User, VerifyEmail(v) \/ UserIndexExpires(v)
      PROVE  t \in idx[u]
  BY <1>6 DEF VerifyEmail, UserIndexExpires, IndexExpires, DelIndex, store
<1>7. ASSUME NEW x \in Token, TokenExpires(x) PROVE idx' = idx
  BY <1>7 DEF TokenExpires, KeyExpires, DelKey
<1>8. QED BY <1>1, <1>2, <1>3, <1>4, <1>5, <1>6, <1>7 DEF Next, vars, store

(* A request takes only the step its label names.                          *)
LEMMA AtLabel ==
  ASSUME IInv, NEW p \in Proc, Step(p) \/ Arrival(p)
  PROVE  /\ req[p].pc = "sadd" => SaveIndex(p)
         /\ req[p].pc = "readd" => DeleteReAdd(p)
         /\ req[p].pc = "delidx" => DeleteIndex(p)
         /\ req[p].pc = "rdel" => RevokeKey(p)
         /\ req[p].pc = "rdelidx" => RevokeIndex(p)
         /\ req[p].pc = "delget" => DeleteGet(p)
         /\ req[p].pc = "delkey" => DeleteKey(p)
         /\ Step(p) => req[p].pc # "idle"
<1>1. Arrival(p) => req[p].pc = "idle"
  BY ArrivalShape DEF Entry, Enters, Came
<1>2. /\ LoginHash(p) => req[p].pc = "hash"
      /\ RefreshUser(p) => req[p].pc = "getuser"
      /\ SaveSet(p) => req[p].pc = "set"
      /\ SaveExpire(p) => req[p].pc = "expire"
      /\ ChangeCheck(p) => req[p].pc = "check"
      /\ UpdatePassword(p) => req[p].pc = "update"
  BY ONLY DEF LoginHash, RefreshUser, SaveSet, SaveExpire, ChangeCheck,
     UpdatePassword, At
<1>3. /\ DeleteGet(p) => req[p].pc = "delget"
      /\ DeleteKey(p) => req[p].pc = "delkey"
      /\ DeleteMembers(p) => req[p].pc = "members"
      /\ RevokeMembers(p) => req[p].pc = "rmembers"
  BY ONLY DEF DeleteGet, DeleteKey, DeleteMembers, RevokeMembers, At
<1>4. /\ SaveIndex(p) => req[p].pc = "sadd"
      /\ DeleteReAdd(p) => req[p].pc = "readd"
      /\ DeleteIndex(p) => req[p].pc = "delidx"
      /\ RevokeKey(p) => req[p].pc = "rdel"
      /\ RevokeIndex(p) => req[p].pc = "rdelidx"
  BY ONLY DEF SaveIndex, DeleteReAdd, DeleteIndex, RevokeKey, RevokeIndex, At
<1>5. QED BY <1>1, <1>2, <1>3, <1>4 DEF Step

(* Where the members come from that a request has read.                    *)
LEMMA ReadFrom ==
  ASSUME IInv, [Next]_vars, NEW p \in Proc,
         NEW t \in req'[p].snap \cup req'[p].todo
  PROVE  /\ Usr(p)' = Usr(p) /\ Usr(p) \in User
         /\ t \in idx[Usr(p)] \cup req[p].snap \cup req[p].todo
<1> USE DEF Usr
<1>1. CASE req'[p] = req[p]
  BY <1>1, ReqFacts, NoReq DEF Local
<1>2. ASSUME NEW l, NEW c, NEW S, NEW T, Went(p, l, c, S, T),
             S \cup T \subseteq idx[Usr(p)] \cup req[p].snap \cup req[p].todo
      PROVE  Usr(p)' = Usr(p) /\ t \in idx[Usr(p)] \cup req[p].snap \cup req[p].todo
  BY <1>2 DEF Went
<1>3. ~Left(p) /\ ~Entry(p)
  BY DEF Left, Entry, Enters, Came
<1>4. Done(p) => Usr(p)' = Usr(p) /\ t \in idx[Usr(p)] \cup req[p].snap \cup req[p].todo
  BY <1>2, <1>3 DEF Done
<1>5. CASE Step(p)
  <2>1. ASSUME LoginHash(p) \/ RefreshUser(p) \/ ChangeCheck(p) \/
               UpdatePassword(p) \/ SaveSet(p) \/ SaveIndex(p) \/
               SaveExpire(p)
        PROVE  Usr(p)' = Usr(p) /\ t \in idx[Usr(p)] \cup req[p].snap \cup req[p].todo
    BY <1>2, <1>3, <1>4, <2>1, LoginHashShape, RefreshUserShape,
       ChangeCheckShape, UpdatePasswordShape, SaveSetShape,
       SaveIndexShape, SaveExpireShape
  <2>2. ASSUME DeleteGet(p) \/ DeleteKey(p) \/ DeleteMembers(p) \/
               DeleteIndex(p) \/ DeleteReAdd(p)
        PROVE  Usr(p)' = Usr(p) /\ t \in idx[Usr(p)] \cup req[p].snap \cup req[p].todo
    BY <1>2, <1>3, <1>4, <2>2, DeleteGetShape, DeleteKeyShape,
       DeleteMembersShape, DeleteIndexShape, DeleteReAddShape
  <2>3. ASSUME RevokeMembers(p) \/ RevokeKey(p) \/ RevokeIndex(p)
        PROVE  Usr(p)' = Usr(p) /\ t \in idx[Usr(p)] \cup req[p].snap \cup req[p].todo
    BY <1>2, <1>3, <1>4, <2>3, RevokeMembersShape, RevokeKeyShape,
       RevokeIndexShape
  <2>4. Usr(p)' = Usr(p) /\ t \in idx[Usr(p)] \cup req[p].snap \cup req[p].todo
    BY <2>1, <2>2, <2>3, <1>5 DEF Step
  <2>5. req[p].pc # "idle"
    BY <1>5, AtLabel
  <2>6. QED BY <2>4, <2>5, ReqFacts DEF At
<1>6. CASE Arrival(p) \/ Fault(p) \/ Abandon(p)
  BY <1>3, <1>4, <1>6, ArrivalShape, FailShape
<1>7. CASE req' = req
  BY <1>1, <1>7
<1>8. ASSUME NEW q \in Proc \ {p}, Step(q) \/ Arrival(q) \/ Fault(q) \/ Abandon(q)
      PROVE  req'[p] = req[p]
  BY <1>8, OthersKept
<1>9. QED BY <1>1, <1>5, <1>6, <1>7, <1>8
  DEF Next, vars, VerifyEmail, UserIndexExpires, TokenExpires

LEMMA OwnIndexStep == IInv /\ OwnIndex /\ [Next]_vars => OwnIndex'
<1> SUFFICES ASSUME IInv, OwnIndex, [Next]_vars PROVE OwnIndex'
  OBVIOUS
<1> USE ReqFacts
<1>1. ASSUME NEW u \in User, NEW t \in Settled, rt[t] \in {u, NoUser}
      PROVE  rt'[t] \in {u, NoUser}
  BY <1>1, SettledKept
<1>2. ASSUME NEW u \in User, NEW t \in idx'[u] PROVE rt'[t] \in {u, NoUser}
  <2>1. CASE t \in idx[u]
    BY <1>1, <2>1 DEF OwnIndex, IInv, KeysOK
  <2>2. ASSUME NEW p \in Proc, SaveIndex(p), Usr(p) = u, t = req[p].chd
        PROVE  rt'[t] \in {u, NoUser}
    BY <2>2, SaveIndexShape DEF Usr
  <2>3. ASSUME NEW p \in Proc, Usr(p) = u, t \in req[p].todo
        PROVE  rt'[t] \in {u, NoUser}
    BY <1>1, <2>3 DEF OwnIndex, Local
  <2>4. QED BY <2>1, <2>2, <2>3, IndexFrom
<1>3. ASSUME NEW p \in Proc, NEW t \in req'[p].snap \cup req'[p].todo
      PROVE  rt'[t] \in {Usr(p)', NoUser}
  <2>1. /\ Usr(p)' = Usr(p) /\ Usr(p) \in User
        /\ t \in idx[Usr(p)] \cup req[p].snap \cup req[p].todo
    BY ReadFrom
  <2>2. t \in Settled /\ rt[t] \in {Usr(p), NoUser}
    BY <2>1 DEF OwnIndex, IInv, KeysOK, Local
  <2>3. QED BY <1>1, <2>1, <2>2
<1>4. QED BY <1>2, <1>3 DEF OwnIndex

LEMMA OwnIndexAlways == Spec => []OwnIndex
<1>1. Init => OwnIndex
  BY DEF Init, StoreInit, OwnIndex, NoRequest
<1>2. QED BY <1>1, OwnIndexStep, Inductive, PTL DEF Spec

(* Whatever runs concurrently, a step deletes a live token only by its     *)
(* expiry, by the request that presents it, or by a revocation for its     *)
(* user.                                                                   *)
THEOREM NobodyElses == Spec => OnlyOwnTokensDie
<1>1. ASSUME IInv, OwnIndex, [Next]_vars, NEW t \in Token, Live(t), ~Live(t)'
      PROVE  \/ req' = req
             \/ \E p \in Proc : At(p, "delkey") /\ req[p].par = t
             \/ \E p \in Proc : At(p, "rdel") /\ Usr(p) = rt[t]
  <2> USE <1>1 DEF Live, IInv, TypeOK, StoreTypeOK, At, Usr
  <2>1. rt' # rt
    BY <1>1
  <2>2. CASE req' = req
    BY <2>2
  <2>3. ASSUME NEW p \in Proc, SaveSet(p) PROVE FALSE
    BY <2>3, SaveSetShape, ReqFacts
  <2>4. ASSUME NEW p \in Proc, DeleteKey(p)
        PROVE  At(p, "delkey") /\ req[p].par = t
    BY <2>4, DeleteKeyShape
  <2>5. ASSUME NEW p \in Proc, RevokeKey(p)
        PROVE  At(p, "rdel") /\ Usr(p) = rt[t]
    <3>1. req[p].pc = "rdel" /\ \E x \in req[p].todo : rt' = [rt EXCEPT ![x] = NoUser]
      BY <2>5, RevokeKeyShape
    <3>2. t \in req[p].todo
      BY <3>1
    <3>3. QED BY <3>1, <3>2 DEF OwnIndex
  <2>6. ASSUME NEW p \in Proc, Step(p), ~SaveSet(p), ~DeleteKey(p), ~RevokeKey(p)
        PROVE  FALSE
    BY <2>1, <2>6, LoginHashShape, RefreshUserShape, SaveIndexShape,
       SaveExpireShape, DeleteGetShape, DeleteMembersShape, DeleteIndexShape,
       DeleteReAddShape, ChangeCheckShape, UpdatePasswordShape,
       RevokeMembersShape, RevokeIndexShape DEF Step
  <2>7. ASSUME NEW p \in Proc, Arrival(p) \/ Fault(p) \/ Abandon(p)
        PROVE  FALSE
    BY <2>1, <2>7, ArrivalShape, FailShape DEF Entry, Enters
  <2>8. QED BY <2>2, <2>3, <2>4, <2>5, <2>6, <2>7
    DEF Next, vars, VerifyEmail, UserIndexExpires, TokenExpires
<1>2. IInv /\ OwnIndex /\ [Next]_vars =>
        [\A t \in Token : Live(t) /\ ~Live(t)' =>
           \/ req' = req
           \/ \E p \in Proc : At(p, "delkey") /\ req[p].par = t
           \/ \E p \in Proc : At(p, "rdel") /\ Usr(p) = rt[t]]_vars
  BY <1>1
<1>3. QED BY <1>2, OwnIndexAlways, Inductive, PTL DEF Spec, OnlyOwnTokensDie

-----------------------------------------------------------------------------
(* No interleaving but the recorded ones loses a token from its index.     *)

(* A request changes by its own steps only.                                *)
LEMMA Mover ==
  ASSUME IInv, [Next]_vars, NEW p \in Proc
  PROVE  req'[p] = req[p] \/ Step(p) \/ Arrival(p) \/ Fault(p) \/ Abandon(p)
<1>1. CASE req' = req
  BY <1>1
<1>2. ASSUME NEW q \in Proc \ {p}, Step(q) \/ Arrival(q) \/ Fault(q) \/ Abandon(q)
      PROVE  req'[p] = req[p]
  BY <1>2, OthersKept
<1>3. QED BY <1>1, <1>2 DEF Next, vars, VerifyEmail, UserIndexExpires, TokenExpires

(* Where the request that holds a token back is.                           *)
WritesBack(t, u) ==
  \E p \in Proc : At(p, "readd") /\ Usr(p) = u /\ t \in req[p].todo

(* A token that leaves the index is held back, or recorded in lost.        *)
LEMMA IndexTo ==
  ASSUME IInv, [Next]_vars, NEW u \in User, NEW t \in idx[u],
         rt[t] = u
  PROVE  t \in idx'[u] \cup lost' \/ WritesBack(t, u)'
<1> USE DEF IInv, TypeOK, StoreTypeOK, Usr
<1>1. CASE idx' = idx
  BY <1>1
<1>2. ASSUME NEW p \in Proc, SaveIndex(p) PROVE t \in idx'[u]
  BY <1>2, SaveIndexShape
<1>3. ASSUME NEW p \in Proc, DeleteReAdd(p) PROVE t \in idx'[u]
  <2>1. PICK x \in req[p].todo : idx' = [idx EXCEPT ![req[p].usr] = @ \cup {x}]
    BY <1>3, DeleteReAddShape
  <2>2. QED BY <2>1
<1>4. ASSUME NEW p \in Proc, RevokeIndex(p) PROVE t \in idx'[u] \cup lost'
  BY <1>4, RevokeIndexShape
<1>5. ASSUME NEW p \in Proc, DeleteIndex(p)
      PROVE  t \in idx'[u] \cup lost' \/ WritesBack(t, u)'
  <2> HIDE DEF Usr
  <2>0. /\ idx' = [idx EXCEPT ![req[p].usr] = {}]
        /\ lost' = lost \cup
             {x \in idx[req[p].usr] \ (req[p].snap \ {req[p].par}) :
                rt[x] = req[p].usr}
    BY <1>5, DeleteIndexShape
  <2>1. CASE req[p].usr # u
    BY <2>0, <2>1
  <2>2. CASE req[p].usr = u /\ t \notin req[p].snap \ {req[p].par}
    <3>1. t \in {x \in idx[req[p].usr] \ (req[p].snap \ {req[p].par}) :
                  rt[x] = req[p].usr}
      BY <2>2
    <3>2. QED BY <2>0, <3>1
  <2>3. CASE req[p].usr = u /\ t \in req[p].snap \ {req[p].par}
    <3>1. Went(p, "readd", req[p].chd, {}, req[p].snap \ {req[p].par})
      BY <1>5, <2>3, DeleteIndexShape
    <3>2. At(p, "readd")' /\ Usr(p)' = u /\ t \in req'[p].todo
      BY <2>3, <3>1 DEF Went, At, Usr
    <3>3. QED BY <3>2 DEF WritesBack
  <2>4. QED BY <2>1, <2>2, <2>3
<1>6. ASSUME NEW p \in Proc, Step(p), ~SaveIndex(p), ~DeleteReAdd(p),
             ~DeleteIndex(p), ~RevokeIndex(p)
      PROVE  idx' = idx
  BY <1>6, LoginHashShape, RefreshUserShape, SaveSetShape, SaveExpireShape,
     DeleteGetShape, DeleteKeyShape, DeleteMembersShape, ChangeCheckShape,
     UpdatePasswordShape, RevokeMembersShape, RevokeKeyShape DEF Step
<1>7. ASSUME NEW p \in Proc, Arrival(p) \/ Fault(p) \/ Abandon(p)
      PROVE  idx' = idx
  BY <1>7, ArrivalShape, FailShape DEF Entry, Enters
<1>8. ASSUME NEW v \in User, VerifyEmail(v) \/ UserIndexExpires(v)
      PROVE  t \in idx'[u] \cup lost'
  BY <1>8 DEF VerifyEmail, UserIndexExpires, IndexExpires, DelIndex, store
<1>9. ASSUME NEW x \in Token, TokenExpires(x) PROVE idx' = idx
  BY <1>9 DEF TokenExpires, KeyExpires, DelKey
<1>10. QED
  BY <1>1, <1>2, <1>3, <1>4, <1>5, <1>6, <1>7, <1>8, <1>9 DEF Next, vars, store

LEMMA IndexCompleteStep == IInv /\ IndexComplete /\ [Next]_vars => IndexComplete'
<1> SUFFICES ASSUME IInv, IndexComplete, [Next]_vars,
                    NEW t \in Token, NEW u \in User, rt'[t] = u
             PROVE  \/ t \in idx'[u] \cup lost'
                    \/ (\E p \in Proc : At(p, "sadd") /\ req[p].chd = t)'
                    \/ WritesBack(t, u)'
  BY DEF IndexComplete, WritesBack
<1> USE ReqFacts DEF At, Usr
<1>1. CASE rt[t] # u
  <2>1. t \notin Settled
    BY <1>1, SettledKept, NoUserAssumption
  <2>2. rt[t] = NoUser
    BY <2>1 DEF IInv, KeysOK, Live
  <2>3. \E p \in Proc : SaveSet(p) /\ req[p].chd = t
    <3>1. [Life!Next]_<<rt, Ended>>
      BY StepLife
    <3>2. rt \in [Token -> User \cup {NoUser}] /\ u # NoUser
      BY NoUserAssumption DEF IInv, TypeOK, StoreTypeOK
    <3>3. rt' # rt
      BY <1>1
    <3>4. ASSUME NEW p \in Proc, SaveSet(p) PROVE req[p].chd = t
      BY <1>1, <3>2, <3>4, SaveSetShape
    <3>5. ASSUME NEW p \in Proc, DeleteKey(p) PROVE FALSE
      BY <1>1, <3>2, <3>5, DeleteKeyShape
    <3>6. ASSUME NEW p \in Proc, RevokeKey(p) PROVE FALSE
      BY <1>1, <3>2, <3>6, RevokeKeyShape
    <3>7. ASSUME NEW p \in Proc, Step(p), ~SaveSet(p), ~DeleteKey(p), ~RevokeKey(p)
          PROVE  FALSE
      BY <3>3, <3>7, LoginHashShape, RefreshUserShape, SaveIndexShape,
         SaveExpireShape, DeleteGetShape, DeleteMembersShape, DeleteIndexShape,
         DeleteReAddShape, ChangeCheckShape, UpdatePasswordShape,
         RevokeMembersShape, RevokeIndexShape DEF Step
    <3>8. ASSUME NEW p \in Proc, Arrival(p) \/ Fault(p) \/ Abandon(p)
          PROVE  FALSE
      BY <3>3, <3>8, ArrivalShape, FailShape DEF Entry, Enters
    <3>9. ASSUME NEW v \in User, VerifyEmail(v) \/ UserIndexExpires(v) PROVE FALSE
      BY <3>3, <3>9 DEF VerifyEmail, UserIndexExpires, IndexExpires, DelIndex, store
    <3>10. ASSUME NEW x \in Token, TokenExpires(x) PROVE FALSE
      BY <1>1, <3>2, <3>10 DEF TokenExpires, KeyExpires, DelKey
    <3>11. QED BY <3>3, <3>4, <3>5, <3>6, <3>7, <3>8, <3>9, <3>10
      DEF Next, vars, store
  <2>4. QED BY <2>3, SaveSetShape DEF Went
<1>2. CASE rt[t] = u /\ t \in idx[u]
  BY <1>2, IndexTo
<1>3. CASE t \in lost
  BY <1>3, NextKept DEF Kept
<1>4. ASSUME NEW p \in Proc, At(p, "sadd"), req[p].chd = t, rt[t] = u
      PROVE  t \in idx'[u] \cup lost' \/ (At(p, "sadd") /\ req[p].chd = t)'
  <2>1. CASE req'[p] = req[p]
    BY <1>4, <2>1
  <2>2. CASE Step(p) \/ Arrival(p)
    <3>1. SaveIndex(p)
      BY <1>4, <2>2, AtLabel
    <3>2. req[p].usr = u
      BY <1>4, <3>1, SaveIndexShape, NoUserAssumption
    <3>3. QED BY <1>4, <3>1, <3>2, SaveIndexShape DEF IInv, TypeOK, StoreTypeOK
  <2>3. CASE Fault(p) \/ Abandon(p)
    BY <1>4, <2>3, FailShape DEF Dropped
  <2>4. QED BY <2>1, <2>2, <2>3, Mover
<1>5. ASSUME NEW p \in Proc, At(p, "readd"), Usr(p) = u, t \in req[p].todo,
             rt[t] = u, t \notin idx[u]
      PROVE  t \in idx'[u] \cup lost' \/ WritesBack(t, u)'
  <2>1. CASE req'[p] = req[p]
    BY <1>5, <2>1 DEF WritesBack
  <2>2. CASE Step(p) \/ Arrival(p)
    <3>1. PICK x \in req[p].todo :
            /\ idx' = [idx EXCEPT ![req[p].usr] = @ \cup {x}]
            /\ \/ req[p].todo = {x} /\ Done(p)
               \/ Went(p, "readd", req[p].chd, {}, req[p].todo \ {x})
      BY <1>5, <2>2, AtLabel, DeleteReAddShape
    <3>2. CASE x = t
      BY <1>5, <3>1, <3>2 DEF IInv, TypeOK, StoreTypeOK
    <3>3. CASE x # t
      BY <1>5, <3>1, <3>3 DEF Went, WritesBack
    <3>4. QED BY <3>2, <3>3
  <2>3. CASE Fault(p) \/ Abandon(p)
    BY <1>5, <2>3, FailShape DEF Dropped, Torn
  <2>4. QED BY <2>1, <2>2, <2>3, Mover
<1>6. QED
  BY <1>1, <1>2, <1>3, <1>4, <1>5 DEF IndexComplete, WritesBack

(* Between SaveRefreshToken, DeleteRefreshToken and DeleteUserRefreshTokens *)
(* no other interleaving loses a live token from the index.                *)
THEOREM IndexHolds == Spec => []IndexComplete
<1>1. Init => IndexComplete
  BY NoUserAssumption DEF Init, StoreInit, IndexComplete
<1>2. QED BY <1>1, IndexCompleteStep, Inductive, PTL DEF Spec

-----------------------------------------------------------------------------
(* An index never expires under a token that a client holds.               *)

(* A token reaches a client at the end of SaveRefreshToken.                *)
LEMMA Handout ==
  ASSUME IInv, [Next]_vars, NEW t \in handed' \ handed
  PROVE  \E p \in Proc : SaveExpire(p) /\ req[p].chd = t
<1>1. handed' # handed
  OBVIOUS
<1>2. ASSUME NEW p \in Proc, SaveExpire(p) PROVE req[p].chd = t
  BY <1>2, SaveExpireShape
<1>3. ASSUME NEW p \in Proc, Step(p), ~SaveExpire(p) PROVE handed' = handed
  BY <1>3, LoginHashShape, RefreshUserShape, SaveSetShape, SaveIndexShape,
     DeleteGetShape, DeleteKeyShape, DeleteMembersShape, DeleteIndexShape,
     DeleteReAddShape, ChangeCheckShape, UpdatePasswordShape,
     RevokeMembersShape, RevokeKeyShape, RevokeIndexShape DEF Step
<1>4. ASSUME NEW p \in Proc, Arrival(p) \/ Fault(p) \/ Abandon(p)
      PROVE  handed' = handed
  BY <1>4, ArrivalShape, FailShape DEF Entry, Enters
<1>5. QED
  BY <1>1, <1>2, <1>3, <1>4
  DEF Next, vars, VerifyEmail, UserIndexExpires, TokenExpires

(* The time to live of an index goes with it, or is renewed over all its   *)
(* user's tokens.                                                          *)
LEMMA ArmedFrom ==
  ASSUME IInv, [Next]_vars, NEW u \in User
  PROVE  \/ ~armed'[u]
         \/ armed'[u] = armed[u] /\ covered'[u] = covered[u]
         \/ covered'[u] = {t \in Token : rt[t] = u}
<1> USE DEF IInv, TypeOK, StoreTypeOK
<1>1. CASE UNCHANGED <<armed, covered>>
  BY <1>1
<1>2. ASSUME NEW v \in User, armed' = [armed EXCEPT ![v] = FALSE],
             covered' = [covered EXCEPT ![v] = {}]
      PROVE  ~armed'[u] \/ (armed'[u] = armed[u] /\ covered'[u] = covered[u])
  BY <1>2
<1>3. ASSUME NEW p \in Proc, SaveExpire(p)
      PROVE  \/ armed'[u] = armed[u] /\ covered'[u] = covered[u]
             \/ covered'[u] = {t \in Token : rt[t] = u}
  BY <1>3, SaveExpireShape
<1>4. ASSUME NEW p \in Proc, DeleteIndex(p)
      PROVE  ~armed'[u] \/ (armed'[u] = armed[u] /\ covered'[u] = covered[u])
  <2>1. /\ req[p].usr \in User
        /\ armed' = [armed EXCEPT ![req[p].usr] = FALSE]
        /\ covered' = [covered EXCEPT ![req[p].usr] = {}]
    BY <1>4, DeleteIndexShape
  <2>2. QED BY <1>2, <2>1
<1>5. ASSUME NEW p \in Proc, RevokeIndex(p)
      PROVE  ~armed'[u] \/ (armed'[u] = armed[u] /\ covered'[u] = covered[u])
  <2>1. /\ req[p].usr \in User
        /\ armed' = [armed EXCEPT ![req[p].usr] = FALSE]
        /\ covered' = [covered EXCEPT ![req[p].usr] = {}]
    BY <1>5, RevokeIndexShape
  <2>2. QED BY <1>2, <2>1
<1>6. ASSUME NEW p \in Proc, Step(p), ~SaveExpire(p), ~DeleteIndex(p), ~RevokeIndex(p)
      PROVE  UNCHANGED <<armed, covered>>
  BY <1>6, LoginHashShape, RefreshUserShape, SaveSetShape, SaveIndexShape,
     DeleteGetShape, DeleteKeyShape, DeleteMembersShape, DeleteReAddShape,
     ChangeCheckShape, UpdatePasswordShape, RevokeMembersShape, RevokeKeyShape
  DEF Step
<1>7. ASSUME NEW p \in Proc, Arrival(p) \/ Fault(p) \/ Abandon(p)
      PROVE  UNCHANGED <<armed, covered>>
  BY <1>7, ArrivalShape, FailShape DEF Entry, Enters
<1>8. ASSUME NEW v \in User, UserIndexExpires(v)
      PROVE  ~armed'[u] \/ (armed'[u] = armed[u] /\ covered'[u] = covered[u])
  BY <1>2, <1>8 DEF UserIndexExpires, IndexExpires, DelIndex
<1>9. ASSUME NEW v \in User, VerifyEmail(v) PROVE UNCHANGED <<armed, covered>>
  BY <1>9 DEF VerifyEmail, store
<1>10. ASSUME NEW x \in Token, TokenExpires(x) PROVE UNCHANGED <<armed, covered>>
  BY <1>10 DEF TokenExpires, KeyExpires, DelKey
<1>11. CASE UNCHANGED vars
  BY <1>11 DEF vars
<1>12. QED
  BY <1>1, <1>3, <1>4, <1>5, <1>6, <1>7, <1>8, <1>9, <1>10, <1>11 DEF Next

LEMMA OutlivesStep ==
  IInv /\ IndexOutlivesTokens /\ [Next]_vars => IndexOutlivesTokens'
<1> SUFFICES ASSUME IInv, IndexOutlivesTokens, [Next]_vars,
                    NEW t \in handed', rt'[t] # NoUser, armed'[rt'[t]]
             PROVE  t \in covered'[rt'[t]]
  BY DEF IndexOutlivesTokens, Live
<1>1. CASE t \in handed
  <2>1. t \in Settled /\ t \in Token
    BY <1>1 DEF IInv, KeysOK, TypeOK
  <2>2. rt'[t] = rt[t] /\ rt[t] \in User
    BY <2>1, SettledKept DEF IInv, TypeOK, StoreTypeOK
  <2>3. QED BY <1>1, <2>1, <2>2, ArmedFrom DEF IndexOutlivesTokens, Live
<1>2. CASE t \notin handed
  <2>1. PICK p \in Proc : SaveExpire(p) /\ req[p].chd = t
    BY <1>2, Handout
  <2>2. /\ req[p].usr \in User /\ rt' = rt /\ t \in minted
        /\ rt[t] \in {req[p].usr, NoUser}
        /\ \/ idx[req[p].usr] = {} /\ UNCHANGED <<armed, covered>>
           \/ covered' = [covered EXCEPT ![req[p].usr] =
                                           {x \in Token : rt[x] = req[p].usr}]
    BY <2>1, SaveExpireShape
  <2>3. CASE idx[req[p].usr] = {} /\ UNCHANGED <<armed, covered>>
    BY <2>2, <2>3 DEF IInv, KeysOK
  <2>4. CASE covered' = [covered EXCEPT ![req[p].usr] =
                                        {x \in Token : rt[x] = req[p].usr}]
    BY <2>2, <2>4 DEF IInv, TypeOK, StoreTypeOK
  <2>5. QED BY <2>2, <2>3, <2>4
<1>3. QED BY <1>1, <1>2

(* When the index of a user carries a time to live, that was renewed after *)
(* each of the tokens was set that clients of the user hold.               *)
THEOREM IndexStays == Spec => []IndexOutlivesTokens
<1>1. Init => IndexOutlivesTokens
  BY DEF Init, IndexOutlivesTokens
<1>2. QED BY <1>1, OutlivesStep, Inductive, PTL DEF Spec

-----------------------------------------------------------------------------
(* What is not lost on an account on which nothing overlaps.               *)

(* A request keeps its operation, its user and what it presented until it  *)
(* returns.                                                                *)
LEMMA Stays ==
  ASSUME IInv, [Next]_vars, NEW p \in Proc
  PROVE  \/ req'[p].usr = NoUser /\ req'[p].op = "none" /\ req'[p].pc = "idle"
            /\ req'[p].par = NoToken /\ req'[p].chd = NoToken
         \/ /\ req[p].usr \in User /\ req'[p].usr = req[p].usr
            /\ req'[p].op = req[p].op /\ req'[p].par = req[p].par
         \/ Entry(p)
<1> DEFINE R == \/ req'[p].usr = NoUser /\ req'[p].op = "none"
                   /\ req'[p].pc = "idle" /\ req'[p].par = NoToken
                   /\ req'[p].chd = NoToken
                \/ /\ req[p].usr \in User /\ req'[p].usr = req[p].usr
                   /\ req'[p].op = req[p].op /\ req'[p].par = req[p].par
<1>1. CASE req'[p] = req[p]
  BY <1>1, ReqFacts, NoReq DEF Local, Usr
<1>2. Left(p) => R
  BY DEF Left
<1>3. ASSUME NEW l, NEW c, NEW S, NEW T, Went(p, l, c, S, T), req[p].usr \in User
      PROVE  R
  BY <1>3 DEF Went
<1>4. Done(p) /\ req[p].usr \in User => R
  BY <1>2, <1>3 DEF Done
<1> HIDE DEF R
<1>5. CASE Step(p)
  <2>1. R
    <3>1. ASSUME LoginHash(p) \/ RefreshUser(p) \/ ChangeCheck(p) \/
                 UpdatePassword(p) \/ SaveSet(p) \/ SaveIndex(p) \/
                 SaveExpire(p)
          PROVE  R
      BY <1>2, <1>3, <1>4, <3>1, LoginHashShape, RefreshUserShape,
         ChangeCheckShape, UpdatePasswordShape, SaveSetShape,
         SaveIndexShape, SaveExpireShape
    <3>2. ASSUME DeleteGet(p) \/ DeleteKey(p) \/ DeleteMembers(p) \/
                 DeleteIndex(p) \/ DeleteReAdd(p)
          PROVE  R
      BY <1>2, <1>3, <1>4, <3>2, DeleteGetShape, DeleteKeyShape,
         DeleteMembersShape, DeleteIndexShape, DeleteReAddShape
    <3>3. ASSUME RevokeMembers(p) \/ RevokeKey(p) \/ RevokeIndex(p)
          PROVE  R
      BY <1>2, <1>3, <1>4, <3>3, RevokeMembersShape, RevokeKeyShape,
         RevokeIndexShape
    <3>4. QED BY <3>1, <3>2, <3>3, <1>5 DEF Step
  <2>2. QED BY <2>1 DEF R
<1>6. CASE Fault(p) \/ Abandon(p)
  <2>1. R
    BY <1>2, <1>4, <1>6, FailShape
  <2>2. QED BY <2>1 DEF R
<1>7. QED BY <1>1, <1>5, <1>6, Mover, ArrivalShape

(* A request that takes a step has arrived before.                         *)
LEMMA StepBusy ==
  ASSUME IInv, NEW p \in Proc, Step(p)
  PROVE  req[p].pc # "idle" /\ req[p].usr \in User /\ ~Entry(p)
<1>1. req[p].pc # "idle" /\ req[p].usr \in User
  BY AtLabel, ReqFacts DEF At
<1>2. QED BY <1>1 DEF Entry, Enters, Came

LEMMA AloneStep == IInv /\ Alone /\ [Next]_vars => Alone'
<1> SUFFICES ASSUME IInv, Alone, [Next]_vars PROVE Alone'
  OBVIOUS
<1> USE NoUserAssumption DEF Usr
<1>1. ASSUME NEW p \in Proc, NEW q \in Proc, p # q, req'[p].usr = req'[q].usr,
             req'[p].usr \in User \ disturbed'
      PROVE  req'[p].op = "login"
  <2>1. req'[p].usr \notin disturbed
    BY <1>1, NextKept DEF Kept
  <2>2. ASSUME NEW x \in Proc, Entry(x), NEW y \in Proc \ {x},
               req'[y].usr = req'[x].usr, req'[x].usr \notin disturbed'
        PROVE  req'[x].op = "login" /\ req'[y].op = "login"
    BY <2>2 DEF Entry, Enters, Came, Others, Conflict
  <2>3. CASE ~Entry(p) /\ ~Entry(q)
    BY <1>1, <2>1, <2>3, Stays DEF Alone
  <2>4. QED BY <1>1, <2>2, <2>3
<1>2. ASSUME NEW p \in Proc, req'[p].op = "login"
      PROVE  req'[p].pc \in {"hash"} \cup Saving
  <2> USE ReqFacts DEF Alone, Saving, Deleting, Local
  <2>1. CASE req'[p] = req[p]
    BY <1>2, <2>1
  <2>2. CASE Arrival(p)
    BY <1>2, <2>2, ArrivalShape DEF Entry, Enters, Came
  <2>3. CASE Fault(p) \/ Abandon(p)
    BY <1>2, <2>3, FailShape DEF Left, Done, Went
  <2>4. CASE Step(p)
    <3>1. ~Left(p) /\ ~Done(p)
      BY <1>2 DEF Left, Done, Went
    <3>2. req[p].op = "login"
      BY <1>2, <2>4, Stays, StepBusy
    <3>3. QED BY <1>2, <2>4, <3>1, <3>2, LoginHashShape, RefreshUserShape,
      SaveSetShape, SaveIndexShape, SaveExpireShape, DeleteGetShape,
      DeleteKeyShape, DeleteMembersShape, DeleteIndexShape, DeleteReAddShape,
      ChangeCheckShape, UpdatePasswordShape, RevokeMembersShape,
      RevokeKeyShape, RevokeIndexShape DEF Step, Went
  <2>5. QED BY <2>1, <2>2, <2>3, <2>4, Mover
<1>3. QED BY <1>1, <1>2 DEF Alone

LEMMA StillWholeStep ==
  IInv /\ Alone /\ StillWhole /\ [Next]_vars => StillWhole'
<1> SUFFICES ASSUME IInv, Alone, StillWhole, [Next]_vars, NEW p \in Proc
             PROVE  /\ req'[p].pc \in {"members", "delidx", "readd"} =>
                         rt'[req'[p].par] = NoUser
                    /\ req'[p].pc = "rdelidx" => req'[p].todo = {}
                    /\ /\ req'[p].pc \in {"delidx", "rdel", "rdelidx"}
                       /\ req'[p].usr \notin disturbed'
                       => idx'[req'[p].usr] \subseteq req'[p].snap
  BY DEF StillWhole, At, Usr, Live
<1>0. ASSUME RevokeKey(p)
      PROVE  \E t, l : /\ l \in {"rdel", "rdelidx"}
                       /\ l = "rdelidx" => req[p].todo = {t}
                       /\ Went(p, l, req[p].chd, req[p].snap, req[p].todo \ {t})
  <2>1. \E t \in req[p].todo, l \in {"rdel", "rdelidx"} :
          /\ rt' = [rt EXCEPT ![t] = NoUser]
          /\ l = "rdelidx" <=> req[p].todo = {t}
          /\ Went(p, l, req[p].chd, req[p].snap, req[p].todo \ {t})
    BY <1>0, RevokeKeyShape
  <2>2. QED BY ONLY <2>1
<1> USE ReqFacts
<1>1. ASSUME NEW t \in handed, ~Live(t) PROVE rt'[t] = NoUser
  <2>1. t \in Ended
    BY <1>1 DEF IInv, KeysOK, Ended
  <2>2. QED BY <2>1, DeadStays DEF Live
<1>2. CASE req'[p] = req[p]
  <2>1. req'[p].pc \in {"members", "delidx", "readd"} => rt'[req'[p].par] = NoUser
    BY <1>1, <1>2 DEF StillWhole, Local, Deleting
  <2>2. ASSUME req[p].pc \in {"delidx", "rdel", "rdelidx"},
               req[p].usr \notin disturbed', NEW t \in idx'[req[p].usr]
        PROVE  t \in req[p].snap
    <3>1. req[p].usr \in User \ disturbed
      BY <2>2, NextKept DEF Kept, At
    <3>2. req[p].op # "login"
      BY <2>2 DEF Alone, Saving
    <3>3. ASSUME NEW q \in Proc, SaveIndex(q) \/ DeleteReAdd(q), Usr(q) = req[p].usr
          PROVE  FALSE
      <4>1. req[q].pc \in {"sadd", "readd"}
        BY <3>3, SaveIndexShape, DeleteReAddShape
      <4>2. QED BY <2>2, <3>1, <3>2, <3>3, <4>1 DEF Alone, Usr
    <3>4. t \in idx[req[p].usr]
      BY <2>2, <3>1, <3>3, IndexFrom
    <3>5. QED BY <2>2, <3>1, <3>4 DEF StillWhole, Usr
  <2>3. QED BY <1>2, <2>1, <2>2 DEF StillWhole, At
<1>3. CASE Arrival(p)
  BY <1>3, ArrivalShape DEF Entry, Enters, Came
<1>4. ~Left(p) \/ req'[p].pc = "idle"
  BY DEF Left
<1>5. Done(p) => req'[p].pc \in {"set", "idle"}
  BY DEF Done, Left, Went
<1>6. CASE Fault(p) \/ Abandon(p)
  BY <1>4, <1>5, <1>6, FailShape
<1>7. CASE DeleteKey(p)
  <2>1. Went(p, "members", req[p].chd, req[p].snap, req[p].todo)
        /\ rt' = [rt EXCEPT ![req[p].par] = NoUser] /\ req[p].par \in handed
    BY <1>7, DeleteKeyShape
  <2>2. rt'[req[p].par] = NoUser
    BY <2>1 DEF IInv, TypeOK, StoreTypeOK
  <2>3. QED BY <2>1, <2>2 DEF Went
<1>8. CASE DeleteMembers(p)
  BY <1>1, <1>8, DeleteMembersShape DEF Went, StillWhole
<1>9. CASE DeleteIndex(p)
  BY <1>1, <1>4, <1>5, <1>9, DeleteIndexShape DEF Went, StillWhole
<1>10. CASE DeleteReAdd(p)
  <2>1. Done(p) \/ \E T : Went(p, "readd", req[p].chd, {}, T)
    BY <1>10, DeleteReAddShape
  <2>2. req[p].pc = "readd" /\ req[p].par \in handed
    BY <1>10, DeleteReAddShape
  <2>3. QED BY <1>1, <1>5, <2>1, <2>2 DEF Went, StillWhole
<1>11. CASE RevokeMembers(p)
  BY <1>11, RevokeMembersShape DEF Went
<1>12. CASE RevokeKey(p)
  <2>1. PICK t, l : /\ l \in {"rdel", "rdelidx"}
                    /\ l = "rdelidx" => req[p].todo = {t}
                    /\ Went(p, l, req[p].chd, req[p].snap, req[p].todo \ {t})
    BY <1>0, <1>12
  <2>2. req[p].pc = "rdel" /\ idx' = idx /\ disturbed' = disturbed
    BY <1>12, RevokeKeyShape
  <2>3. QED BY <2>1, <2>2 DEF Went, StillWhole, Usr
<1>13. CASE Step(p) /\ ~DeleteKey(p) /\ ~DeleteMembers(p) /\ ~DeleteIndex(p)
            /\ ~DeleteReAdd(p) /\ ~RevokeMembers(p) /\ ~RevokeKey(p)
  <2>1. req'[p].pc \in {"idle", "set", "delget", "sadd", "expire", "delkey",
                        "update", "rmembers"}
    BY <1>4, <1>5, <1>13, LoginHashShape, RefreshUserShape, SaveSetShape,
       SaveIndexShape, SaveExpireShape, DeleteGetShape, ChangeCheckShape,
       UpdatePasswordShape, RevokeIndexShape DEF Step, Went
  <2>2. QED BY <2>1
<1>14. QED
  BY <1>2, <1>3, <1>6, <1>7, <1>8, <1>9, <1>10, <1>11, <1>12, <1>13, Mover

(* Where a token is dropped from an index.                                 *)
LEMMA LostFrom ==
  ASSUME IInv, [Next]_vars, NEW t \in lost' \ lost
  PROVE  \/ \E p \in Proc :
              /\ DeleteIndex(p)
              /\ t \in idx[req[p].usr] \ (req[p].snap \ {req[p].par})
              /\ rt[t] = req[p].usr
         \/ \E p \in Proc :
              RevokeIndex(p) /\ t \in idx[req[p].usr] /\ rt[t] = req[p].usr
         \/ \E p \in Proc : (Fault(p) \/ Abandon(p)) /\ t \in Dropped(p)
         \/ \E u \in User : UserIndexExpires(u) /\ t \in idx[u] /\ rt[t] = u
<1>1. lost' # lost
  OBVIOUS
<1>2. ASSUME NEW p \in Proc, DeleteIndex(p)
      PROVE  /\ t \in idx[req[p].usr] \ (req[p].snap \ {req[p].par})
             /\ rt[t] = req[p].usr
  <2>1. lost' = lost \cup
          {x \in idx[req[p].usr] \ (req[p].snap \ {req[p].par}) :
             rt[x] = req[p].usr}
    BY <1>2, DeleteIndexShape
  <2>2. QED BY <2>1
<1>3. ASSUME NEW p \in Proc, RevokeIndex(p)
      PROVE  t \in idx[req[p].usr] /\ rt[t] = req[p].usr
  BY <1>3, RevokeIndexShape
<1>4. ASSUME NEW p \in Proc, Fault(p) \/ Abandon(p)
      PROVE  t \in Dropped(p)
  BY <1>4, FailShape
<1>5. ASSUME NEW u \in User, UserIndexExpires(u)
      PROVE  t \in idx[u] /\ rt[t] = u
  BY <1>5 DEF UserIndexExpires
<1>6. ASSUME NEW p \in Proc, Step(p), ~DeleteIndex(p), ~RevokeIndex(p)
      PROVE  lost' = lost
  BY <1>6, LoginHashShape, RefreshUserShape, SaveSetShape, SaveIndexShape,
     SaveExpireShape, DeleteGetShape, DeleteKeyShape, DeleteMembersShape,
     DeleteReAddShape, ChangeCheckShape, UpdatePasswordShape,
     RevokeMembersShape, RevokeKeyShape DEF Step
<1>7. ASSUME NEW p \in Proc, Arrival(p) PROVE lost' = lost
  BY <1>7, ArrivalShape DEF Entry, Enters
<1>8. QED BY <1>1, <1>2, <1>3, <1>4, <1>5, <1>6, <1>7
  DEF Next, vars, VerifyEmail, TokenExpires

LEMMA LossKnownStep ==
  /\ IInv /\ Alone /\ StillWhole /\ SnapshotRevoked /\ LossKnown
  /\ [Next]_vars
  => LossKnown'
<1> SUFFICES ASSUME IInv, Alone, StillWhole, SnapshotRevoked, LossKnown,
                    [Next]_vars, NEW t \in lost'
             PROVE  /\ t \in Settled'
                    /\ Live(t)' /\ rt'[t] \notin disturbed' =>
                         t \notin handed' /\ \A q \in Proc : req'[q].chd # t
  BY DEF LossKnown
<1> USE ReqFacts
<1>1. CASE t \in lost
  <2>1. t \in Settled /\ t \in Settled' /\ t \in minted
    BY <1>1, SettledKept DEF LossKnown, Settled
  <2>2. ASSUME Live(t)', rt'[t] \notin disturbed'
        PROVE  t \notin handed' /\ \A q \in Proc : req'[q].chd # t
    <3>1. rt'[t] = rt[t] /\ Live(t)
      BY <2>1, <2>2, SettledKept DEF Live
    <3>2. rt[t] \notin disturbed
      BY <2>2, <3>1, NextKept DEF Kept
    <3>3. t \notin handed /\ \A q \in Proc : req[q].chd # t
      BY <1>1, <3>1, <3>2 DEF LossKnown
    <3>4. t \notin handed'
      BY <3>3, Handout
    <3>5. \A q \in Proc : req'[q].chd # t
      BY <2>1, <3>3, NextKept, SessionsAssumption DEF Kept, IInv, TypeOK
    <3>6. QED BY <3>4, <3>5
  <2>3. QED BY <2>1, <2>2
<1>2. ASSUME NEW p \in Proc, DeleteIndex(p),
             t \in idx[req[p].usr] \ (req[p].snap \ {req[p].par}),
             rt[t] = req[p].usr
      PROVE  t \in Settled /\ (~Live(t)' \/ rt'[t] \in disturbed')
  <2>1. /\ req[p].pc = "delidx" /\ req[p].usr \in User
        /\ rt' = rt /\ disturbed' = disturbed
    BY <1>2, DeleteIndexShape
  <2>2. t \in Settled
    BY <1>2, <2>1 DEF IInv, KeysOK
  <2>3. CASE req[p].usr \in disturbed
    BY <1>2, <2>1, <2>2, <2>3
  <2>4. CASE req[p].usr \notin disturbed
    <3>1. t = req[p].par
      BY <1>2, <2>1, <2>4 DEF StillWhole, Usr
    <3>2. ~Live(t)
      BY <2>1, <3>1 DEF StillWhole
    <3>3. QED BY <2>1, <2>2, <3>2 DEF Live
  <2>5. QED BY <2>3, <2>4
<1>3. ASSUME NEW p \in Proc, RevokeIndex(p), t \in idx[req[p].usr],
             rt[t] = req[p].usr
      PROVE  t \in Settled /\ (~Live(t)' \/ rt'[t] \in disturbed')
  <2>1. /\ req[p].pc = "rdelidx" /\ req[p].usr \in User
        /\ rt' = rt /\ disturbed' = disturbed
    BY <1>3, RevokeIndexShape
  <2>2. t \in Settled
    BY <1>3, <2>1 DEF IInv, KeysOK
  <2>3. CASE req[p].usr \in disturbed
    BY <1>3, <2>1, <2>2, <2>3
  <2>4. CASE req[p].usr \notin disturbed
    <3>1. t \in req[p].snap \ req[p].todo
      BY <1>3, <2>1, <2>4 DEF StillWhole, Usr, At
    <3>2. ~Live(t)
      BY <2>1, <3>1 DEF SnapshotRevoked
    <3>3. QED BY <2>1, <2>2, <3>2 DEF Live
  <2>5. QED BY <2>3, <2>4
<1>4. ASSUME NEW p \in Proc, Fault(p) \/ Abandon(p), t \in Dropped(p)
      PROVE  /\ t \in Settled
             /\ \/ rt'[t] \in disturbed'
                \/ t \notin handed' /\ \A q \in Proc : req'[q].chd # t
  <2>1. CASE req[p].pc = "sadd"
    <3>1. t = req[p].chd /\ t # NoToken /\ t \in minted \ handed
      BY <1>4, <2>1 DEF Dropped, At, Local, Saving
    <3>2. t \in Settled
      BY <2>1, <3>1 DEF Settled, Pending, IInv, Distinct, Unset, Deleting
    <3>3. Left(p) /\ handed' = handed
      BY <1>4, <2>1, FailShape DEF Deleting
    <3>4. \A q \in Proc : req'[q].chd # t
      BY <3>1, <3>3 DEF Left, Others, IInv, Distinct
    <3>5. QED BY <3>1, <3>2, <3>3, <3>4
  <2>2. CASE req[p].pc # "sadd"
    <3>1. t \in Torn(p) /\ t \in req[p].todo /\ rt[t] = req[p].usr
      BY <1>4, <2>2 DEF Dropped, Torn, At, Usr
    <3>2. disturbed' = disturbed \cup {req[p].usr} /\ rt' = rt
      BY <1>4, <3>1, FailShape
    <3>3. QED BY <3>1, <3>2 DEF Local
  <2>3. QED BY <2>1, <2>2
<1>5. ASSUME NEW u \in User, UserIndexExpires(u), t \in idx[u], rt[t] = u
      PROVE  t \in Settled /\ rt'[t] \in disturbed'
  BY <1>5 DEF UserIndexExpires, IndexExpires, DelIndex, IInv, KeysOK
<1>6. QED BY <1>1, <1>2, <1>3, <1>4, <1>5, LostFrom, SettledKept

LEMMA Companions == Spec => [](Alone /\ StillWhole /\ LossKnown)
<1>1. Init => Alone /\ StillWhole /\ LossKnown
  <2> SUFFICES ASSUME Init PROVE Alone /\ StillWhole /\ LossKnown
    OBVIOUS
  <2>1. \A p \in Proc : req[p] = NoRequest
    BY DEF Init
  <2>2. Alone /\ StillWhole
    BY <2>1, NoReq, NoUserAssumption DEF Alone, StillWhole, Usr, At
  <2>3. LossKnown
    BY DEF Init, LossKnown
  <2>4. QED BY <2>2, <2>3
<1>2. QED
  BY <1>1, AloneStep, StillWholeStep, LossKnownStep, Inductive,
     RevocationSticks, PTL DEF Spec

(* A token a client holds is dropped from its index only when operations   *)
(* on the account overlapped, or one was broken off.                       *)
THEOREM LossRecorded == Spec => []LossNeedsOverlap
<1>1. LossKnown => LossNeedsOverlap
  BY DEF LossKnown, LossNeedsOverlap
<1>2. QED BY <1>1, Companions, PTL

(* With no such overlap a revocation leaves no client's token alive: it is *)
(* alone on the account, the index is what it read, and it was complete.   *)
LEMMA RevokeCompleteHere ==
  IInv /\ IndexComplete /\ SnapshotRevoked /\ Alone /\ StillWhole /\ LossKnown
  => RevokeComplete
<1> SUFFICES ASSUME IInv, IndexComplete, SnapshotRevoked, Alone, StillWhole,
                    LossKnown, NEW p \in Proc, At(p, "rdelidx"),
                    Usr(p) \notin disturbed, NEW t \in handed, rt[t] = Usr(p)
             PROVE  FALSE
  BY DEF RevokeComplete
<1> USE ReqFacts DEF At
<1>1. Usr(p) \in User /\ t \in Token /\ Live(t)
  BY NoUserAssumption DEF Usr, Live, IInv, TypeOK
<1>2. t \notin idx[Usr(p)]
  BY <1>1 DEF StillWhole, SnapshotRevoked
<1>3. t \notin lost
  BY <1>1 DEF LossKnown
<1>4. ~\E q \in Proc : req[q].pc = "sadd" /\ req[q].chd = t
  BY DEF Local, Saving
<1>5. ~\E q \in Proc : req[q].pc = "readd" /\ Usr(q) = Usr(p) /\ t \in req[q].todo
  BY <1>1 DEF Alone, Saving
<1>6. QED BY <1>1, <1>2, <1>3, <1>4, <1>5 DEF IndexComplete

(* A logout from all devices, a password change and a purge have ended     *)
(* every session of the account, unless an operation overlapped.           *)
THEOREM RevokesAll == Spec => []RevokeComplete
BY RevokeCompleteHere, Inductive, IndexHolds, RevocationSticks, Companions, PTL

-----------------------------------------------------------------------------
(* Sessions rest on the present password.                                  *)

(* Where the password, the row and the debt of a user change.              *)
LEMMA AccountFrom ==
  ASSUME IInv, [Next]_vars, NEW u \in User, u \notin revokeDue'
  PROVE  /\ pw'[u] = pw[u]
         /\ row[u] # "purged" => row'[u] # "purged"
         /\ u \notin revokeDue \/ \E p \in Proc : RevokeIndex(p) /\ Usr(p) = u
<1> USE DEF IInv, TypeOK
<1>1. CASE UNCHANGED <<pw, row, revokeDue>>
  BY <1>1
<1>2. ASSUME NEW p \in Proc, UpdatePassword(p)
      PROVE  pw'[u] = pw[u] /\ row' = row /\ u \notin revokeDue
  BY <1>2, UpdatePasswordShape
<1>3. ASSUME NEW p \in Proc, RevokeIndex(p)
      PROVE  pw' = pw /\ row' = row /\ (u \notin revokeDue \/ Usr(p) = u)
  BY <1>3, RevokeIndexShape DEF Usr
<1>4. ASSUME NEW p \in Proc, Step(p), ~UpdatePassword(p), ~RevokeIndex(p)
      PROVE  UNCHANGED <<pw, row, revokeDue>>
  BY <1>4, LoginHashShape, RefreshUserShape, SaveSetShape, SaveIndexShape,
     SaveExpireShape, DeleteGetShape, DeleteKeyShape, DeleteMembersShape,
     DeleteIndexShape, DeleteReAddShape, ChangeCheckShape, RevokeMembersShape,
     RevokeKeyShape DEF Step
<1>5. ASSUME NEW p \in Proc, Arrival(p)
      PROVE  /\ pw' = pw /\ u \notin revokeDue
             /\ row[u] # "purged" => row'[u] # "purged"
  <2>1. PICK v \in User :
          /\ pw' = pw
          /\ \/ UNCHANGED <<row, revokeDue>>
             \/ /\ row' = [row EXCEPT ![v] = "purged"]
                /\ revokeDue' = revokeDue \cup {v}
    BY <1>5, ArrivalShape DEF Entry, Enters
  <2>2. QED BY <2>1
<1>6. ASSUME NEW p \in Proc, Fault(p) \/ Abandon(p)
      PROVE  UNCHANGED <<pw, row, revokeDue>>
  BY <1>6, FailShape
<1>7. ASSUME NEW v \in User, VerifyEmail(v)
      PROVE  /\ UNCHANGED <<pw, revokeDue>>
             /\ row[u] # "purged" => row'[u] # "purged"
  BY <1>7 DEF VerifyEmail
<1>8. QED BY <1>1, <1>2, <1>3, <1>4, <1>5, <1>6, <1>7
  DEF Next, vars, rows, UserIndexExpires, TokenExpires

(* A token that has been drawn keeps its password and its family.          *)
LEMMA LineageKept ==
  ASSUME IInv, [Next]_vars, NEW t \in minted
  PROVE  auth'[t] = auth[t] /\ origin'[t] = origin[t]
<1> USE DEF IInv, TypeOK
<1>1. CASE UNCHANGED <<auth, origin>>
  BY <1>1
<1>2. ASSUME NEW p \in Proc, LoginHash(p)
      PROVE  auth'[t] = auth[t] /\ origin'[t] = origin[t]
  BY <1>2, LoginHashShape DEF Mint
<1>3. ASSUME NEW p \in Proc, RefreshUser(p)
      PROVE  auth'[t] = auth[t] /\ origin'[t] = origin[t]
  BY <1>3, RefreshUserShape DEF Mint
<1>4. ASSUME NEW p \in Proc, Step(p), ~LoginHash(p), ~RefreshUser(p)
      PROVE  UNCHANGED <<auth, origin>>
  BY <1>4, SaveSetShape, SaveIndexShape, SaveExpireShape, DeleteGetShape,
     DeleteKeyShape, DeleteMembersShape, DeleteIndexShape, DeleteReAddShape,
     ChangeCheckShape, UpdatePasswordShape, RevokeMembersShape, RevokeKeyShape,
     RevokeIndexShape DEF Step
<1>5. ASSUME NEW p \in Proc, Arrival(p) \/ Fault(p) \/ Abandon(p)
      PROVE  UNCHANGED <<auth, origin>>
  BY <1>5, ArrivalShape, FailShape DEF Entry, Enters
<1>6. QED BY <1>1, <1>2, <1>3, <1>4, <1>5
  DEF Next, vars, lineage, VerifyEmail, UserIndexExpires, TokenExpires

(* The token a request holds was held before, or has just been drawn.      *)
LEMMA HeldFrom ==
  ASSUME IInv, [Next]_vars, NEW p \in Proc, req'[p].chd # NoToken
  PROVE  \/ req'[p].chd = req[p].chd
         \/ LoginHash(p) /\ \E t \in Token :
              Mint(p, t, pw[req[p].usr], t) /\ req'[p].chd = t
         \/ RefreshUser(p) /\ \E t \in Token :
              /\ Mint(p, t, auth[req[p].par], origin[req[p].par])
              /\ req'[p].chd = t
<1>1. ~Left(p) /\ ~Entry(p)
  BY DEF Left, Entry, Enters, Came
<1>2. Done(p) => req'[p].chd = req[p].chd
  BY <1>1 DEF Done, Went
<1>3. CASE LoginHash(p)
  BY <1>1, <1>3, LoginHashShape DEF Went
<1>4. CASE RefreshUser(p)
  BY <1>1, <1>4, RefreshUserShape DEF Went
<1>5. CASE Step(p) /\ ~LoginHash(p) /\ ~RefreshUser(p)
  BY <1>1, <1>2, <1>5, SaveSetShape, SaveIndexShape, SaveExpireShape,
     DeleteGetShape, DeleteKeyShape, DeleteMembersShape, DeleteIndexShape,
     DeleteReAddShape, ChangeCheckShape, UpdatePasswordShape,
     RevokeMembersShape, RevokeKeyShape, RevokeIndexShape DEF Step, Went
<1>6. CASE Arrival(p) \/ Fault(p) \/ Abandon(p)
  BY <1>1, <1>2, <1>6, ArrivalShape, FailShape
<1>7. QED BY <1>3, <1>4, <1>5, <1>6, Mover

LEMMA AuthHeldStep ==
  IInv /\ Alone /\ AuthHeld /\ AuthCurrent /\ [Next]_vars => AuthHeld'
<1> SUFFICES ASSUME IInv, Alone, AuthHeld, AuthCurrent, [Next]_vars, NEW p \in Proc,
                    req'[p].usr \in User \ (disturbed' \cup revokeDue')
             PROVE  /\ req'[p].chd # NoToken =>
                         /\ auth'[req'[p].chd] = pw'[req'[p].usr]
                         /\ row'[req'[p].usr] # "purged"
                    /\ req'[p].pc = "getuser" => auth'[req'[p].par] = pw'[req'[p].usr]
  BY DEF AuthHeld, At, Usr
<1> DEFINE u == req'[p].usr
<1> USE ReqFacts
<1>1. u \in User /\ u \notin disturbed /\ u # NoUser
  BY NextKept, NoUserAssumption DEF Kept
<1>2. u \notin revokeDue
  <2>1. ASSUME NEW q \in Proc, RevokeIndex(q), req[q].usr = u PROVE FALSE
    <3>1. Left(q) /\ req[q].pc = "rdelidx"
      BY <2>1, RevokeIndexShape
    <3>2. q # p /\ req'[p] = req[p]
      BY <1>1, <3>1 DEF Left, Others
    <3>3. QED BY <1>1, <2>1, <3>1, <3>2 DEF Alone, Usr, Saving
  <2>2. QED BY <1>1, <2>1, AccountFrom DEF Usr
<1>3. pw'[u] = pw[u] /\ (row[u] # "purged" => row'[u] # "purged")
  BY <1>1, AccountFrom
<1>4. CASE Entry(p)
  <2>1. req'[p].chd = NoToken
    BY <1>4 DEF Entry, Enters, Came
  <2>2. ASSUME req'[p].pc = "getuser"
        PROVE  req'[p].par \in handed /\ rt[req'[p].par] = u
    BY <1>4, <2>2 DEF Entry, Enters, Came
  <2>3. ASSUME req'[p].pc = "getuser" PROVE auth'[req'[p].par] = pw'[u]
    <3>1. auth[req'[p].par] = pw[u]
      BY <1>1, <1>2, <2>2, <2>3 DEF AuthCurrent, Live
    <3>2. req'[p].par \in minted
      BY <2>2, <2>3 DEF IInv, TypeOK
    <3>3. QED BY <1>3, <3>1, <3>2, LineageKept
  <2>4. QED BY <2>1, <2>3
<1>5. CASE ~Entry(p)
  <2>1. req[p].usr = u /\ req'[p].par = req[p].par
    BY <1>1, <1>5, Stays
  <2>2. ASSUME req'[p].chd # NoToken
        PROVE  auth'[req'[p].chd] = pw'[u] /\ row'[u] # "purged"
    <3>1. CASE req'[p].chd = req[p].chd
      <4>1. auth[req[p].chd] = pw[u] /\ row[u] # "purged"
        BY <1>1, <1>2, <2>1, <2>2, <3>1 DEF AuthHeld, Usr
      <4>2. req[p].chd \in minted
        BY <2>2, <3>1 DEF Local
      <4>3. QED BY <1>3, <3>1, <4>1, <4>2, LineageKept
    <3>2. ASSUME LoginHash(p), NEW t \in Token,
                 Mint(p, t, pw[req[p].usr], t), req'[p].chd = t
          PROVE  auth'[t] = pw'[u] /\ row'[u] # "purged"
      <4>1. ~Left(p)
        BY <2>2 DEF Left
      <4>2. row[u] # "purged"
        BY <2>1, <3>2, <4>1, LoginHashShape
      <4>3. auth'[t] = pw[u]
        BY <2>1, <3>2 DEF Mint, IInv, TypeOK
      <4>4. QED BY <1>3, <4>2, <4>3
    <3>3. ASSUME RefreshUser(p), NEW t \in Token, req'[p].chd = t,
                 Mint(p, t, auth[req[p].par], origin[req[p].par])
          PROVE  auth'[t] = pw'[u] /\ row'[u] # "purged"
      <4>1. ~Left(p)
        BY <2>2 DEF Left
      <4>2. row[u] # "purged" /\ req[p].pc = "getuser"
        BY <2>1, <3>3, <4>1, RefreshUserShape
      <4>3. auth'[t] = auth[req[p].par]
        BY <3>3 DEF Mint, IInv, TypeOK
      <4>4. auth[req[p].par] = pw[u]
        BY <1>1, <1>2, <2>1, <4>2 DEF AuthHeld, Usr, At
      <4>5. QED BY <1>3, <4>2, <4>3, <4>4
    <3>4. QED BY <2>2, <3>1, <3>2, <3>3, HeldFrom
  <2>3. ASSUME req'[p].pc = "getuser" PROVE auth'[req'[p].par] = pw'[u]
    <3>1. ~Left(p) /\ ~Done(p)
      BY <2>3 DEF Left, Done, Went
    <3>2. ~Step(p)
      BY <2>3, <3>1, LoginHashShape, RefreshUserShape, SaveSetShape,
       SaveIndexShape, SaveExpireShape, DeleteGetShape, DeleteKeyShape,
       DeleteMembersShape, DeleteIndexShape, DeleteReAddShape,
       ChangeCheckShape, UpdatePasswordShape, RevokeMembersShape,
       RevokeKeyShape, RevokeIndexShape DEF Step, Went
    <3>3. req'[p] = req[p]
      BY <1>5, <3>1, <3>2, Mover, ArrivalShape, FailShape
    <3>4. auth[req[p].par] = pw[u] /\ req[p].par \in minted
      BY <1>1, <1>2, <2>1, <2>3, <3>3 DEF AuthHeld, Usr, At, Local, IInv, TypeOK
    <3>5. QED BY <1>3, <3>3, <3>4, LineageKept
  <2>4. QED BY <2>2, <2>3
<1>6. QED BY <1>4, <1>5

LEMMA AuthCurrentStep ==
  /\ IInv /\ RevokeComplete /\ AuthHeld /\ AuthCurrent
  /\ [Next]_vars
  => AuthCurrent'
<1> SUFFICES ASSUME IInv, RevokeComplete, AuthHeld, AuthCurrent, [Next]_vars,
                    NEW t \in handed', rt'[t] # NoUser,
                    rt'[t] \notin disturbed' \cup revokeDue'
             PROVE  auth'[t] = pw'[rt'[t]] /\ row'[rt'[t]] # "purged"
  BY DEF AuthCurrent, Live
<1> USE ReqFacts
<1>1. CASE t \in handed
  <2>1. t \in Settled /\ t \in minted /\ t \in Token
    BY <1>1 DEF IInv, KeysOK, TypeOK
  <2>2. rt'[t] = rt[t] /\ rt[t] \in User
    BY <2>1, SettledKept DEF IInv, TypeOK, StoreTypeOK
  <2>3. rt[t] \notin disturbed
    BY <2>2, NextKept DEF Kept
  <2>4. rt[t] \notin revokeDue
    <3>1. ASSUME NEW q \in Proc, RevokeIndex(q), Usr(q) = rt[t] PROVE FALSE
      BY <1>1, <2>3, <3>1, RevokeIndexShape DEF RevokeComplete, At
    <3>2. QED BY <2>2, <3>1, AccountFrom
  <2>5. auth[t] = pw[rt[t]] /\ row[rt[t]] # "purged"
    BY <1>1, <2>2, <2>3, <2>4, NoUserAssumption DEF AuthCurrent, Live
  <2>6. QED BY <2>1, <2>2, <2>5, AccountFrom, LineageKept
<1>2. CASE t \notin handed
  <2>1. PICK p \in Proc : SaveExpire(p) /\ req[p].chd = t
    BY <1>2, Handout
  <2>2. /\ req[p].usr \in User /\ t \in minted
        /\ rt[t] \in {req[p].usr, NoUser}
        /\ UNCHANGED <<rt, row, pw, auth, disturbed, revokeDue>>
    BY <2>1, SaveExpireShape
  <2>3. t # NoToken
    BY <2>2, SessionsAssumption DEF IInv, TypeOK
  <2>4. QED BY <2>1, <2>2, <2>3 DEF AuthHeld, Usr
<1>3. QED BY <1>1, <1>2

(* On an account without overlapping operations every session rests on the *)
(* present password of a row that exists, unless a revocation is owed.     *)
THEOREM SessionsCurrent == Spec => []AuthCurrent
<1>1. Init => AuthHeld /\ AuthCurrent
  <2> SUFFICES ASSUME Init PROVE AuthHeld /\ AuthCurrent
    OBVIOUS
  <2>1. \A p \in Proc : req[p] = NoRequest
    BY DEF Init
  <2>2. AuthHeld
    BY <2>1, NoReq, NoUserAssumption DEF AuthHeld, Usr, At
  <2>3. AuthCurrent
    BY DEF Init, AuthCurrent
  <2>4. QED BY <2>2, <2>3
<1>2. QED
  BY <1>1, AuthHeldStep, AuthCurrentStep, Inductive, Companions, RevokesAll,
     PTL DEF Spec

-----------------------------------------------------------------------------
(* Refresh rotates: of the tokens of one login only one is live.           *)

(* A request that draws a token: the root of a family, or one more of the  *)
(* family of the token it presents.                                        *)
Mints(p, t) ==
  /\ t \in Token \ minted /\ minted' = minted \cup {t}
  /\ UNCHANGED <<rt, handed>>
  /\ Others(p)
  /\ req[p].usr \in User /\ req'[p].usr = req[p].usr
  /\ req'[p].op = req[p].op /\ req'[p].par = req[p].par /\ req'[p].chd = t
  /\ \/ req[p].pc = "hash" /\ origin'[t] = t
     \/ /\ req[p].pc = "getuser" /\ req[p].par \in handed
        /\ origin'[t] = origin[req[p].par]

LEMMA MintFrom ==
  ASSUME IInv, [Next]_vars, NEW t \in minted' \ minted
  PROVE  \E p \in Proc : Mints(p, t)
<1> USE DEF IInv, TypeOK
<1>1. minted' # minted
  OBVIOUS
<1>2. ASSUME NEW p \in Proc, LoginHash(p) PROVE Mints(p, t)
  <2>1. PICK s \in Token : /\ Mint(p, s, pw[req[p].usr], s)
                           /\ Went(p, "set", s, req[p].snap, req[p].todo)
    BY <1>1, <1>2, LoginHashShape
  <2>2. s = t
    BY <2>1 DEF Mint
  <2>3. QED BY <1>2, <2>1, <2>2, LoginHashShape DEF Mint, Mints, Went
<1>3. ASSUME NEW p \in Proc, RefreshUser(p) PROVE Mints(p, t)
  <2>1. PICK s \in Token :
          /\ Mint(p, s, auth[req[p].par], origin[req[p].par])
          /\ Went(p, "delget", s, req[p].snap, req[p].todo)
    BY <1>1, <1>3, RefreshUserShape
  <2>2. s = t
    BY <2>1 DEF Mint
  <2>3. QED BY <1>3, <2>1, <2>2, RefreshUserShape DEF Mint, Mints, Went
<1>4. ASSUME NEW p \in Proc, Step(p), ~LoginHash(p), ~RefreshUser(p)
      PROVE  minted' = minted
  BY <1>4, SaveSetShape, SaveIndexShape, SaveExpireShape, DeleteGetShape,
     DeleteKeyShape, DeleteMembersShape, DeleteIndexShape, DeleteReAddShape,
     ChangeCheckShape, UpdatePasswordShape, RevokeMembersShape, RevokeKeyShape,
     RevokeIndexShape DEF Step
<1>5. ASSUME NEW p \in Proc, Arrival(p) \/ Fault(p) \/ Abandon(p)
      PROVE  minted' = minted
  BY <1>5, ArrivalShape, FailShape DEF Entry, Enters
<1>6. QED BY <1>1, <1>2, <1>3, <1>4, <1>5
  DEF Next, vars, lineage, VerifyEmail, UserIndexExpires, TokenExpires

(* A token gets its user when the request that drew it sets it.            *)
LEMMA KeyFrom ==
  ASSUME IInv, [Next]_vars, NEW t \in Token, rt'[t] \notin {rt[t], NoUser}
  PROVE  \E p \in Proc : SaveSet(p) /\ req[p].chd = t /\ rt'[t] = req[p].usr
<1> USE DEF IInv, TypeOK, StoreTypeOK
<1>1. ASSUME NEW s, rt' = rt \/ rt' = [rt EXCEPT ![s] = NoUser] PROVE FALSE
  BY <1>1
<1>2. ASSUME NEW p \in Proc, SaveSet(p)
      PROVE  req[p].chd = t /\ rt'[t] = req[p].usr
  BY <1>2, SaveSetShape
<1>3. ASSUME NEW p \in Proc, Step(p), ~SaveSet(p) PROVE FALSE
  BY <1>1, <1>3, LoginHashShape, RefreshUserShape, SaveIndexShape,
     SaveExpireShape, DeleteGetShape, DeleteKeyShape, DeleteMembersShape,
     DeleteIndexShape, DeleteReAddShape, ChangeCheckShape,
     UpdatePasswordShape, RevokeMembersShape, RevokeKeyShape,
     RevokeIndexShape DEF Step
<1>4. ASSUME NEW p \in Proc, Arrival(p) \/ Fault(p) \/ Abandon(p) PROVE FALSE
  BY <1>1, <1>4, ArrivalShape, FailShape DEF Entry, Enters
<1>5. ASSUME NEW s \in Token, TokenExpires(s) PROVE FALSE
  BY <1>1, <1>5 DEF TokenExpires, KeyExpires, DelKey
<1>6. QED BY <1>1, <1>2, <1>3, <1>4, <1>5
  DEF Next, vars, store, VerifyEmail, UserIndexExpires, IndexExpires, DelIndex

(* Requests enter their first label, and the labels before the old token   *)
(* is deleted, in this order only.                                         *)
LEMMA FirstLabel ==
  ASSUME IInv, [Next]_vars, NEW p \in Proc
  PROVE  /\ req'[p].pc \in {"hash", "getuser"} =>
              req'[p] = req[p] \/ Entry(p)
         /\ req'[p].pc \in {"getuser", "delget", "delkey"} =>
              Entry(p) \/ req[p].pc \in {"getuser", "delget", "delkey"}
<1> DEFINE First == req'[p].pc \in {"hash", "getuser"}
           Early == req'[p].pc \in {"getuser", "delget", "delkey"}
<1>1. Left(p) \/ Done(p) => ~First /\ ~Early
  BY DEF Left, Done, Went
<1>2. CASE Step(p)
  BY <1>1, <1>2, LoginHashShape, RefreshUserShape, SaveSetShape,
     SaveIndexShape, SaveExpireShape, DeleteGetShape, DeleteKeyShape,
     DeleteMembersShape, DeleteIndexShape, DeleteReAddShape,
     ChangeCheckShape, UpdatePasswordShape, RevokeMembersShape,
     RevokeKeyShape, RevokeIndexShape DEF Step, Went
<1>3. CASE Fault(p) \/ Abandon(p)
  BY <1>1, <1>3, FailShape
<1>4. QED BY <1>2, <1>3, Mover, ArrivalShape

(* A token belongs only to users it belonged to when it was drawn.         *)
LEMMA BelongsFrom ==
  ASSUME IInv, [Next]_vars, NEW t \in minted, NEW u \in User, Belongs(t, u)'
  PROVE  Belongs(t, u)
<1> USE DEF Belongs, Usr
<1>1. t \in Token /\ t # NoToken /\ u # NoUser
  BY SessionsAssumption, NoUserAssumption DEF IInv, TypeOK
<1>2. CASE rt'[t] = u
  BY <1>1, <1>2, KeyFrom
<1>3. ASSUME NEW p \in Proc, req'[p].usr = u, t \in {req'[p].par, req'[p].chd}
      PROVE  Belongs(t, u)
  <2>1. CASE Entry(p)
    <3>1. req'[p].chd = NoToken
      BY <2>1 DEF Entry, Enters, Came
    <3>2. rt[t] = u
      BY <1>1, <1>3, <2>1, <3>1 DEF Entry, Enters, Came
    <3>3. QED BY <3>2
  <2>2. CASE ~Entry(p)
    <3>1. req[p].usr = u /\ req'[p].par = req[p].par
      BY <1>1, <1>3, <2>2, Stays
    <3>2. req'[p].chd = t => req[p].chd = t
      BY <1>1, HeldFrom DEF Mint
    <3>3. QED BY <1>3, <3>1, <3>2
  <2>3. QED BY <2>1, <2>2
<1>4. QED BY <1>2, <1>3

LEMMA BelongsNew ==
  ASSUME IInv, Families, NEW p \in Proc, NEW t, Mints(p, t), NEW u \in User,
         Belongs(t, u)'
  PROVE  u = req[p].usr
<1>1. rt'[t] # u
  BY NoUserAssumption DEF Mints, IInv, KeysOK, Live, Settled
<1>2. PICK q \in Proc : req'[q].usr = u /\ t \in {req'[q].par, req'[q].chd}
  BY <1>1 DEF Belongs, Usr
<1>3. CASE q = p
  BY <1>2, <1>3 DEF Mints
<1>4. CASE q # p
  <2>1. req'[q] = req[q] /\ t \notin minted /\ t \in Token
    BY <1>4 DEF Mints, Others
  <2>2. t # NoToken
    BY <2>1, SessionsAssumption
  <2>3. req[q].par # NoToken => req[q].par \in minted
    BY DEF Families
  <2>4. req[q].chd # NoToken => req[q].chd \in minted
    BY ReqFacts DEF Local
  <2>5. QED BY <1>2, <2>1, <2>2, <2>3, <2>4
<1>5. QED BY <1>3, <1>4

LEMMA FamiliesStep == IInv /\ Families /\ [Next]_vars => Families'
<1> SUFFICES ASSUME IInv, Families, [Next]_vars PROVE Families'
  OBVIOUS
<1>0. handed \subseteq minted /\ minted \subseteq Token /\ NoToken \notin minted
  BY SessionsAssumption DEF IInv, TypeOK
<1>1. ASSUME NEW t \in minted' PROVE origin'[t] \in minted'
  <2>1. CASE t \in minted
    BY <2>1, LineageKept, NextKept DEF Families, Kept
  <2>2. CASE t \notin minted
    <3>1. PICK p \in Proc : Mints(p, t)
      BY <2>2, MintFrom
    <3>2. QED BY <1>0, <3>1 DEF Mints, Families
  <2>3. QED BY <2>1, <2>2
<1>2. ASSUME NEW p \in Proc, NEW t1, Mints(p, t1), NEW t2 \in minted',
             origin'[t1] = origin'[t2], NEW u \in User, Belongs(t2, u)'
      PROVE  u = req[p].usr
  <2>1. CASE t2 = t1
    BY <1>2, <2>1, BelongsNew
  <2>2. CASE t2 # t1
    <3>1. t2 \in minted
      BY <1>2, <2>2 DEF Mints
    <3>2. Belongs(t2, u) /\ origin'[t2] = origin[t2] /\ origin[t2] \in minted
      BY <1>2, <3>1, BelongsFrom, LineageKept DEF Families
    <3>3. /\ req[p].par \in minted /\ origin[req[p].par] = origin[t2]
          /\ req[p].usr \in User
      BY <1>0, <1>2, <3>2 DEF Mints
    <3>4. Belongs(req[p].par, req[p].usr)
      BY DEF Belongs, Usr
    <3>5. QED BY <3>1, <3>2, <3>3, <3>4 DEF Families
  <2>3. QED BY <2>1, <2>2
<1>3. ASSUME NEW t1 \in minted', NEW t2 \in minted', origin'[t1] = origin'[t2],
             NEW u1 \in User, NEW u2 \in User, Belongs(t1, u1)', Belongs(t2, u2)'
      PROVE  u1 = u2
  <2>1. CASE t1 \in minted /\ t2 \in minted
    BY <1>3, <2>1, BelongsFrom, LineageKept DEF Families
  <2>2. ASSUME NEW p \in Proc, Mints(p, t1) PROVE u1 = u2
    BY <1>2, <1>3, <2>2
  <2>3. ASSUME NEW p \in Proc, Mints(p, t2) PROVE u1 = u2
    BY <1>2, <1>3, <2>3
  <2>4. QED BY <2>1, <2>2, <2>3, MintFrom
<1>4. ASSUME NEW p \in Proc
      PROVE /\ req'[p].pc = "hash" => req'[p].op = "login"
            /\ req'[p].pc = "getuser" => req'[p].op = "refresh"
  BY FirstLabel DEF Entry, Enters, Came, Families, At
<1>5. ASSUME NEW p \in Proc, req'[p].par # NoToken PROVE req'[p].par \in minted'
  <2>1. Entry(p) => req'[p].par \in minted
    BY <1>0, <1>5 DEF Entry, Enters, Came
  <2>2. ~Entry(p) => req'[p].par \in minted
    BY <1>5, Stays DEF Families
  <2>3. QED BY <2>1, <2>2, NextKept DEF Kept
<1>6. ASSUME NEW p \in Proc, req'[p].chd # NoToken
      PROVE  \/ req'[p].op = "login" /\ origin'[req'[p].chd] = req'[p].chd
             \/ req'[p].op = "refresh" /\ req'[p].par # NoToken
                /\ origin'[req'[p].chd] = origin'[req'[p].par]
  <2>1. ~Entry(p)
    BY <1>6 DEF Entry, Enters, Came
  <2>2. req'[p].op = req[p].op /\ req'[p].par = req[p].par
    BY <1>6, <2>1, Stays
  <2>3. CASE req'[p].chd = req[p].chd
    <3>1. req[p].chd \in minted /\ (req[p].par # NoToken => req[p].par \in minted)
      BY <1>6, <2>3, ReqFacts DEF Local, Families
    <3>2. \/ req[p].op = "login" /\ origin[req[p].chd] = req[p].chd
          \/ req[p].op = "refresh" /\ req[p].par # NoToken
             /\ origin[req[p].chd] = origin[req[p].par]
      BY <1>6, <2>3 DEF Families
    <3>3. QED BY <2>2, <2>3, <3>1, <3>2, LineageKept
  <2>4. ASSUME LoginHash(p), NEW t \in Token,
               Mint(p, t, pw[req[p].usr], t), req'[p].chd = t
        PROVE  req'[p].op = "login" /\ origin'[t] = t
    <3>1. req[p].op = "login"
      BY <2>4, LoginHashShape DEF Families, At
    <3>2. QED BY <2>2, <2>4, <3>1 DEF Mint, IInv, TypeOK
  <2>5. ASSUME RefreshUser(p), NEW t \in Token, req'[p].chd = t,
               Mint(p, t, auth[req[p].par], origin[req[p].par])
        PROVE  /\ req'[p].op = "refresh" /\ req'[p].par # NoToken
               /\ origin'[t] = origin'[req'[p].par]
    <3>1. req[p].op = "refresh" /\ req[p].par \in minted
      BY <1>0, <2>5, RefreshUserShape DEF Families, At
    <3>2. origin'[req[p].par] = origin[req[p].par]
      BY <3>1, LineageKept
    <3>3. origin'[t] = origin[req[p].par]
      BY <2>5 DEF Mint, IInv, TypeOK
    <3>4. QED BY <1>0, <2>2, <3>1, <3>2, <3>3
  <2>6. QED BY <1>6, <2>3, <2>4, <2>5, HeldFrom
<1>7. QED BY <1>1, <1>3, <1>4, <1>5, <1>6 DEF Families, At

(* Without a failure there has been none before.                           *)
LEMMA NoFault ==
  ASSUME IInv, [Next]_vars, faults' = 0
  PROVE  faults = 0 /\ \A p \in Proc : ~Fault(p) /\ ~Abandon(p)
<1>0. faults \in Nat
  BY DEF IInv, TypeOK
<1>1. ASSUME NEW p \in Proc, Fault(p) \/ Abandon(p) PROVE FALSE
  BY <1>0, <1>1, FailShape
<1>2. ASSUME NEW p \in Proc, Step(p) PROVE faults' = faults
  BY <1>2, LoginHashShape, RefreshUserShape, SaveSetShape, SaveIndexShape,
     SaveExpireShape, DeleteGetShape, DeleteKeyShape, DeleteMembersShape,
     DeleteIndexShape, DeleteReAddShape, ChangeCheckShape,
     UpdatePasswordShape, RevokeMembersShape, RevokeKeyShape,
     RevokeIndexShape DEF Step
<1>3. ASSUME NEW p \in Proc, Arrival(p) PROVE faults' = faults
  BY <1>3, ArrivalShape DEF Entry, Enters
<1>4. faults = 0
  BY <1>1, <1>2, <1>3
  DEF Next, vars, VerifyEmail, UserIndexExpires, TokenExpires
<1>5. QED BY <1>1, <1>4

(* What a client held and still holds.                                     *)
LEMMA LiveFrom ==
  ASSUME IInv, [Next]_vars, NEW t \in handed, rt'[t] # NoUser
  PROVE  /\ t \in minted /\ Live(t) /\ rt'[t] = rt[t] /\ rt[t] \in User
         /\ origin'[t] = origin[t]
<1>1. t \in Settled /\ t \in minted /\ t \in Token
  BY DEF IInv, KeysOK, TypeOK
<1>2. QED BY <1>1, SettledKept, LineageKept DEF Live, IInv, TypeOK, StoreTypeOK

(* A token handed out now was in the hand of a request of its user.        *)
LEMMA HandedNow ==
  ASSUME IInv, [Next]_vars, NEW t \in handed' \ handed, rt'[t] # NoUser
  PROVE  \E q \in Proc :
           /\ req[q].pc = "expire" /\ req[q].chd = t /\ t # NoToken
           /\ t \in minted /\ handed' = handed \cup {t}
           /\ rt[t] = req[q].usr /\ req[q].usr \in User
           /\ UNCHANGED <<rt, origin, disturbed>>
           /\ Left(q)
<1>1. PICK q \in Proc : SaveExpire(q) /\ req[q].chd = t
  BY Handout
<1>2. t \in minted /\ t # NoToken
  BY <1>1, SaveExpireShape, SessionsAssumption DEF IInv, TypeOK
<1>3. QED BY <1>1, <1>2, SaveExpireShape

LEMMA OneInHandStep ==
  /\ IInv /\ Alone /\ Families /\ OnePerLogin /\ OneInHand
  /\ [Next]_vars
  => OneInHand'
<1> SUFFICES ASSUME IInv, Alone, Families, OnePerLogin, OneInHand, [Next]_vars,
                    NEW p \in Proc, faults' = 0, req'[p].usr \notin disturbed',
                    NEW t \in handed', rt'[t] # NoUser
             PROVE  /\ req'[p].pc \in {"getuser", "delget", "delkey"} =>
                         \/ t = req'[p].par
                         \/ origin'[t] # origin'[req'[p].par]
                    /\ /\ req'[p].chd # NoToken
                       /\ req'[p].pc \notin {"delget", "delkey"}
                       => origin'[t] # origin'[req'[p].chd]
  BY DEF OneInHand, At, Usr, Live
<1> USE ReqFacts
<1>0. /\ faults = 0 /\ ~Fault(p) /\ ~Abandon(p)
      /\ handed \subseteq minted /\ minted \subseteq Token /\ NoToken \notin minted
      /\ \A s \in minted : origin'[s] = origin[s]
  BY NoFault, LineageKept, SessionsAssumption DEF IInv, TypeOK
<1>1. CASE Entry(p)
  <2>1. req'[p].chd = NoToken /\ UNCHANGED <<rt, origin, handed>>
    BY <1>1 DEF Entry, Enters, Came
  <2>2. ASSUME req'[p].pc \in {"getuser", "delget", "delkey"},
               origin'[t] = origin'[req'[p].par]
        PROVE  t = req'[p].par
    <3>1. /\ req'[p].par \in handed /\ rt[req'[p].par] = req'[p].usr
          /\ req'[p].usr \in User
      BY <1>1, <2>2 DEF Entry, Enters, Came
    <3>2. req'[p].usr \notin disturbed
      BY <3>1, NextKept DEF Kept
    <3>3. Live(req'[p].par) /\ Live(t)
      BY <2>1, <3>1, NoUserAssumption DEF Live
    <3>4. QED BY <1>0, <2>1, <2>2, <3>1, <3>2, <3>3 DEF OnePerLogin
  <2>3. QED BY <2>1, <2>2
<1>2. CASE ~Entry(p) /\ req'[p].usr = NoUser
  <2>1. /\ req'[p].usr = NoUser /\ req'[p].pc = "idle" /\ req'[p].chd = NoToken
    BY <1>2, Stays, NoUserAssumption
  <2>2. QED BY <2>1
<1>3. CASE ~Entry(p) /\ req'[p].usr # NoUser
  <2>1. /\ req[p].usr \in User /\ req'[p].usr = req[p].usr
        /\ req'[p].op = req[p].op /\ req'[p].par = req[p].par
        /\ req[p].usr \notin disturbed
    BY <1>3, Stays, NextKept DEF Kept
  <2>2. req[p].par # NoToken => origin'[req[p].par] = origin[req[p].par]
    BY <1>0 DEF Families
  <2>3. ASSUME req'[p].pc \in {"getuser", "delget", "delkey"}
        PROVE  /\ req[p].pc \in {"getuser", "delget", "delkey"}
               /\ req[p].par \in minted /\ req[p].op \in {"refresh", "logout"}
    <3>1. req[p].pc \in {"getuser", "delget", "delkey"}
      BY <1>3, <2>3, FirstLabel
    <3>2. req[p].par \in handed /\ req[p].op \in {"refresh", "logout"}
      BY <3>1 DEF Local, Deleting
    <3>3. QED BY <1>0, <3>1, <3>2
  <2>4. CASE t \in handed
    <3>1. t \in minted /\ Live(t) /\ rt'[t] = rt[t] /\ origin'[t] = origin[t]
      BY <2>4, LiveFrom
    <3>2. ASSUME req'[p].pc \in {"getuser", "delget", "delkey"}
          PROVE  t = req'[p].par \/ origin'[t] # origin'[req'[p].par]
      BY <1>0, <2>1, <2>2, <2>3, <2>4, <3>1, <3>2 DEF OneInHand, Usr
    <3>3. ASSUME req'[p].chd # NoToken, req'[p].pc \notin {"delget", "delkey"}
          PROVE  origin'[t] # origin'[req'[p].chd]
      <4>1. CASE req'[p].chd = req[p].chd
        <5>1. req[p].chd \in minted
          BY <3>3, <4>1 DEF Local
        <5>2. CASE req[p].pc \notin {"delget", "delkey"}
          BY <1>0, <2>1, <2>4, <3>1, <3>3, <4>1, <5>1, <5>2 DEF OneInHand, Usr
        <5>3. CASE req[p].pc \in {"delget", "delkey"}
          <6>1. Step(p)
            BY <1>0, <1>3, <3>3, <5>3, Mover, ArrivalShape
          <6>2. \/ req[p].pc = "delget" /\ DeleteGet(p)
                \/ req[p].pc = "delkey" /\ DeleteKey(p)
            BY <5>3, <6>1, AtLabel
          <6>3. t # req[p].par
            <7>1. CASE DeleteGet(p)
              BY <3>1, <3>3, <7>1, DeleteGetShape DEF Went
            <7>2. CASE DeleteKey(p)
              BY <3>1, <7>2, DeleteKeyShape DEF Live, IInv, TypeOK, StoreTypeOK
            <7>3. QED BY <6>2, <7>1, <7>2
          <6>4. origin[t] # origin[req[p].par]
            BY <1>0, <2>1, <2>4, <3>1, <5>3, <6>3 DEF OneInHand, Usr
          <6>5. origin[req[p].chd] = origin[req[p].par]
            BY <3>3, <4>1, <5>3 DEF Families, Local, Deleting
          <6>6. QED BY <1>0, <3>1, <4>1, <5>1, <6>4, <6>5
        <5>4. QED BY <5>2, <5>3
      <4>2. ASSUME LoginHash(p), NEW s \in Token,
                   Mint(p, s, pw[req[p].usr], s), req'[p].chd = s
            PROVE  origin'[t] # origin'[req'[p].chd]
        BY <3>1, <4>2 DEF Families, Mint, IInv, TypeOK
      <4>3. ASSUME RefreshUser(p) PROVE FALSE
        BY <3>3, <4>3, RefreshUserShape DEF Left, Went
      <4>4. QED BY <3>3, <4>1, <4>2, <4>3, HeldFrom
    <3>4. QED BY <3>2, <3>3
  <2>5. CASE t \notin handed
    <3>1. PICK q \in Proc :
             /\ req[q].pc = "expire" /\ req[q].chd = t /\ t # NoToken
             /\ t \in minted /\ handed' = handed \cup {t}
             /\ rt[t] = req[q].usr /\ req[q].usr \in User
             /\ UNCHANGED <<rt, origin, disturbed>>
             /\ Left(q)
      BY <2>5, HandedNow
    <3>2. q # p /\ req'[p] = req[p]
      BY <1>3, <3>1 DEF Left, Others
    <3>3. Belongs(t, req[q].usr)
      BY <3>1 DEF Belongs
    <3>4. ASSUME NEW s \in {req[p].par, req[p].chd}, s \in minted,
                 origin[s] = origin[t]
          PROVE  /\ req[p].op = "login" /\ req[q].op = "login"
                 /\ origin[t] = t
      <4>1. Belongs(s, req[p].usr)
        BY DEF Belongs, Usr
      <4>2. req[p].usr = req[q].usr
        BY <2>1, <3>1, <3>3, <3>4, <4>1 DEF Families
      <4>3. req[p].op = "login" /\ req[q].op = "login"
        BY <2>1, <3>2, <4>2 DEF Alone, Usr
      <4>4. QED BY <3>1, <4>3 DEF Families
    <3>5. ASSUME req'[p].pc \in {"getuser", "delget", "delkey"},
                 origin'[t] = origin'[req'[p].par]
          PROVE  FALSE
      BY <2>1, <2>3, <3>1, <3>4, <3>5
    <3>6. ASSUME req'[p].chd # NoToken, origin'[t] = origin'[req'[p].chd]
          PROVE  FALSE
      <4>1. req[p].chd \in minted /\ req[p].chd # NoToken
        BY <3>2, <3>6 DEF Local
      <4>2. req[p].op = "login" /\ origin[t] = t /\ origin[req[p].chd] = t
        BY <3>1, <3>2, <3>4, <3>6, <4>1
      <4>3. req[p].chd = t
        BY <4>1, <4>2 DEF Families
      <4>4. QED BY <3>1, <3>2, <4>3 DEF IInv, Distinct
    <3>7. QED BY <3>5, <3>6
  <2>6. QED BY <2>4, <2>5
<1>4. QED BY <1>1, <1>2, <1>3

LEMMA OnePerLoginStep ==
  /\ IInv /\ Families /\ OnePerLogin /\ OneInHand
  /\ [Next]_vars
  => OnePerLogin'
<1> SUFFICES ASSUME IInv, Families, OnePerLogin, OneInHand, [Next]_vars,
                    NEW t1 \in handed', NEW t2 \in handed', faults' = 0,
                    rt'[t1] # NoUser, rt'[t2] # NoUser,
                    origin'[t1] = origin'[t2], rt'[t1] \notin disturbed'
             PROVE  t1 = t2
  BY DEF OnePerLogin, Live
<1>0. faults = 0
  BY NoFault
<1>1. CASE t1 \in handed /\ t2 \in handed
  <2>1. /\ Live(t1) /\ Live(t2) /\ rt'[t1] = rt[t1] /\ rt[t1] \in User
        /\ origin[t1] = origin[t2]
    BY <1>1, LiveFrom
  <2>2. rt[t1] \notin disturbed
    BY <2>1, NextKept DEF Kept
  <2>3. QED BY <1>0, <1>1, <2>1, <2>2 DEF OnePerLogin
<1>2. ASSUME NEW x \in handed' \ handed, NEW y \in handed, rt'[x] # NoUser,
             rt'[y] # NoUser, origin'[x] = origin'[y],
             rt'[x] \notin disturbed' \/ rt'[y] \notin disturbed'
      PROVE  FALSE
  <2>1. PICK q \in Proc :
           /\ req[q].pc = "expire" /\ req[q].chd = x /\ x # NoToken
           /\ x \in minted /\ handed' = handed \cup {x}
           /\ rt[x] = req[q].usr /\ req[q].usr \in User
           /\ UNCHANGED <<rt, origin, disturbed>>
           /\ Left(q)
    BY <1>2, HandedNow
  <2>2. y \in minted /\ Live(y) /\ rt[y] \in User
    BY <1>2, LiveFrom
  <2>3. Belongs(x, rt[x]) /\ Belongs(y, rt[y])
    BY DEF Belongs
  <2>4. rt[x] = rt[y]
    BY <1>2, <2>1, <2>2, <2>3 DEF Families
  <2>5. QED BY <1>0, <1>2, <2>1, <2>2, <2>4 DEF OneInHand, Usr
<1>3. CASE t1 \notin handed /\ t2 \notin handed
  BY <1>3, HandedNow
<1>4. QED BY <1>1, <1>2, <1>3

(* Without failures and overlapping operations a login has one live token  *)
(* at a time: a refresh has ended the one it was given before it hands out *)
(* the next.                                                               *)
THEOREM Rotates == Spec => []OnePerLogin
<1>1. Init => Families /\ OneInHand /\ OnePerLogin
  <2> SUFFICES ASSUME Init PROVE Families /\ OneInHand /\ OnePerLogin
    OBVIOUS
  <2>1. \A p \in Proc : req[p] = NoRequest
    BY DEF Init
  <2>2. minted = {} /\ handed = {}
    BY DEF Init
  <2>3. QED BY <2>1, <2>2, NoReq DEF Families, OneInHand, OnePerLogin, At
<1>2. QED
  BY <1>1, FamiliesStep, OneInHandStep, OnePerLoginStep, Inductive,
     Companions, PTL DEF Spec
=============================================================================
