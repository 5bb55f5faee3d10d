------------------------- MODULE SignupForm_proofs -------------------------
(***************************************************************************)
(* The captcha server, then the registration page that is built on it, for *)
(* every set of requests, challenges, tokens and submissions, every time   *)
(* to live and every bound of the clock.                                   *)
(*                                                                         *)
(* The server's IInv is inductive: a challenge is in one place at a time,  *)
(* which no two requests can share because GetDel hands a key out once,    *)
(* and a record carries the time it was announced with wherever it goes.   *)
(* Every step of the composition is a step of the server or none of its    *)
(* business, so what is shown of the server holds of the composition; and  *)
(* as a challenge's tokens are found valid once, an account that is about  *)
(* to be inserted has paid with a challenge that has bought none and that  *)
(* nobody else is spending.                                                *)
(***************************************************************************)
EXTENDS SignupForm, TLAPS

LEMMA InitInv == Init => IInv
<1> SUFFICES ASSUME Init PROVE IInv OBVIOUS
<1> USE CapAssumption DEF Init, NoRecord
<1>1. TypeOK BY DEF TypeOK
<1>2. OneEntryPerChallenge BY DEF OneEntryPerChallenge
<1>3. SolvedInTime BY DEF SolvedInTime
<1>4. OnePlace BY DEF OnePlace, HeldOnce, Granted
<1>5. Announced BY DEF Announced
<1>6. QED BY <1>1, <1>2, <1>3, <1>4, <1>5 DEF IInv

(* A created challenge was never drawn, so nothing refers to it yet.       *)
LEMMA CreateChallengeInv ==
  ASSUME IInv, NEW c \in Challenge, CreateChallenge(c)
  PROVE  IInv'
<1> USE CapAssumption
      DEF CreateChallenge, IInv, TypeOK, requests, NoRecord
<1>1. TypeOK' OBVIOUS
<1>2. OneEntryPerChallenge' BY DEF OneEntryPerChallenge
<1>3. \A d \in Challenge : Granted(d)' <=> Granted(d) BY DEF Granted
<1>4. ~Granted(c) /\ opened[c] = NoRecord /\ \A q \in Req : held[q] # c
  BY DEF OnePlace, HeldOnce, Granted
<1>5. SolvedInTime' BY <1>4 DEF SolvedInTime, Granted
<1>6. OnePlace' BY <1>3, <1>4 DEF OnePlace, HeldOnce
<1>7. Announced' BY <1>4 DEF Announced
<1>8. QED BY <1>1, <1>2, <1>5, <1>6, <1>7

(* GetDel moves the record from the store to the request that got it.      *)
LEMMA TakeChallengeInv ==
  ASSUME IInv, NEW q \in Req, NEW c \in Challenge, NEW ok \in BOOLEAN,
         TakeChallenge(q, c, ok)
  PROVE  IInv'
<1> USE CapAssumption DEF TakeChallenge, IInv, TypeOK, record, NoRecord
<1>1. TypeOK' OBVIOUS
<1>2. OneEntryPerChallenge' BY DEF OneEntryPerChallenge
<1>3. \A d \in Challenge : Granted(d)' <=> Granted(d) BY DEF Granted
<1>4. c \in drawn /\ ~Granted(c) /\ \A r \in Req : held[r] # c
  BY DEF OnePlace
<1>5. SolvedInTime' BY DEF SolvedInTime
<1>6. OnePlace'
  <2>1. \A d \in Challenge : opened'[d] # NoRecord =>
          d # c /\ d \in drawn' /\ ~Granted(d)' /\ \A r \in Req : held'[r] # d
    BY <1>3 DEF OnePlace, HeldOnce
  <2>2. ASSUME NEW r \in Req PROVE HeldOnce(r)'
    <3>1. CASE r = q BY <3>1, <1>3, <1>4 DEF HeldOnce
    <3>2. CASE r # q
      <4>1. held'[r] = held[r] /\ held[r] # c BY <3>2, <1>4
      <4>2. QED BY <3>2, <4>1, <1>3, <1>4 DEF OnePlace, HeldOnce, Granted
    <3>3. QED BY <3>1, <3>2
  <2>3. QED BY <2>1, <2>2, <1>3 DEF OnePlace, HeldOnce
<1>7. Announced' BY DEF Announced
<1>8. QED BY <1>1, <1>2, <1>5, <1>6, <1>7

(* Acceptance is timed for the one challenge the request holds, which no   *)
(* token was granted for; a refusal forgets it.                            *)
LEMMA CheckSolutionsInv ==
  ASSUME IInv, NEW q \in Req, CheckSolutions(q)
  PROVE  IInv'
<1> USE CapAssumption
      DEF CheckSolutions, Release, IInv, TypeOK, store, NoRecord
<1>1. TypeOK' OBVIOUS
<1>2. OneEntryPerChallenge' BY DEF OneEntryPerChallenge
<1>3. \A d \in Challenge : Granted(d)' <=> Granted(d) BY DEF Granted
<1>4. held[q] \in Challenge /\ ~Granted(held[q]) BY DEF OnePlace, HeldOnce
<1>5. SolvedInTime' BY <1>4 DEF SolvedInTime, Granted
<1>6. OnePlace' BY <1>3 DEF OnePlace, HeldOnce
<1>7. Announced'
  <2>1. \A r \in Req \ {q} : held[r] # held[q] BY <1>4 DEF OnePlace, HeldOnce
  <2>2. QED BY <2>1, <1>4 DEF Announced
<1>8. QED BY <1>1, <1>2, <1>5, <1>6, <1>7

(* The token takes the place of the challenge its request held.            *)
LEMMA GrantTicketInv ==
  ASSUME IInv, NEW q \in Req, NEW k \in Ticket, GrantTicket(q, k)
  PROVE  IInv'
<1> USE CapAssumption DEF GrantTicket, Release, IInv, TypeOK, NoRecord
<1> DEFINE c == held[q]
<1>1. TypeOK' OBVIOUS
<1>2. c \in Challenge /\ c \in drawn /\ ~Granted(c) /\ entries[c] = 0
      /\ \A r \in Req \ {q} : held[r] # c
  BY DEF OnePlace, HeldOnce
<1>3. stem[k] = NoChallenge BY DEF OnePlace, HeldOnce
<1>4. \A d \in Challenge : Granted(d)' <=> Granted(d) \/ d = c
  BY <1>2, <1>3 DEF Granted
<1>5. OneEntryPerChallenge'
  BY <1>2, <1>3 DEF OneEntryPerChallenge, Granted
<1>6. SolvedInTime' BY <1>2 DEF SolvedInTime, Announced
<1>7. OnePlace'
  <2>1. \A d \in Challenge : opened'[d] # NoRecord =>
          d \in drawn' /\ ~Granted(d)' /\ \A r \in Req : held'[r] # d
    BY <1>2, <1>4 DEF OnePlace, HeldOnce
  <2>2. ASSUME NEW r \in Req PROVE HeldOnce(r)'
    BY <1>2, <1>4 DEF OnePlace, HeldOnce, Granted
  <2>3. \A j \in Ticket : stem'[j] # NoChallenge =>
          {j, stem'[j]} \subseteq drawn'
    BY <1>2 DEF OnePlace, HeldOnce
  <2>4. \A j \in Ticket : ticket'[j] # NoRecord =>
          stem'[j] # NoChallenge /\ entries'[stem'[j]] = 0
    BY <1>2 DEF OnePlace, HeldOnce
  <2>5. \A d \in Challenge : ~Granted(d)' => entries'[d] = 0
    BY <1>4 DEF OnePlace, HeldOnce
  <2>6. QED BY <2>1, <2>2, <2>3, <2>4, <2>5 DEF OnePlace, HeldOnce
<1>8. Announced' BY <1>2 DEF Announced
<1>9. QED BY <1>1, <1>5, <1>6, <1>7, <1>8

(* A token that is still stored has let nobody in, and no other token was  *)
(* granted for its challenge.                                              *)
LEMMA ValidateTokenInv ==
  ASSUME IInv, NEW k \in Ticket, ValidateToken(k)
  PROVE  IInv'
<1> USE CapAssumption DEF ValidateToken, IInv, TypeOK, requests, NoRecord
<1>1. stem[k] \in Challenge /\ Granted(stem[k]) /\ entries[stem[k]] = 0
  BY DEF OnePlace, HeldOnce, Granted
<1>2. TypeOK' BY <1>1
<1>3. OneEntryPerChallenge' BY <1>1 DEF OneEntryPerChallenge
<1>4. \A d \in Challenge : Granted(d)' <=> Granted(d) BY DEF Granted
<1>5. SolvedInTime' BY DEF SolvedInTime
<1>6. OnePlace'
  <2>1. \A j \in Ticket : ticket'[j] # NoRecord =>
          stem'[j] # NoChallenge /\ entries'[stem'[j]] = 0
    BY <1>1 DEF OnePlace, HeldOnce, OneEntryPerChallenge
  <2>2. \A d \in Challenge : ~Granted(d)' => entries'[d] = 0
    BY <1>1, <1>4 DEF OnePlace, HeldOnce
  <2>3. QED BY <2>1, <2>2, <1>4 DEF OnePlace, HeldOnce
<1>7. Announced' BY DEF Announced
<1>8. QED BY <1>2, <1>3, <1>5, <1>6, <1>7

(* What only ends keys, requests or an instant moves nothing anywhere.     *)
LEMMA EndingsInv ==
  ASSUME IInv, TypeOK', UNCHANGED <<drawn, record>>,
         \A c \in Challenge : opened'[c] \in {opened[c], NoRecord},
         \A k \in Ticket : ticket'[k] \in {ticket[k], NoRecord},
         \A q \in Req :
           \/ /\ pc'[q] = pc[q] /\ held'[q] = held[q]
              /\ expires'[q] = expires[q]
           \/ pc'[q] = "idle" /\ held'[q] = NoChallenge
  PROVE  IInv'
<1> USE CapAssumption DEF IInv, record, NoRecord
<1>1. OneEntryPerChallenge' /\ SolvedInTime'
  BY DEF OneEntryPerChallenge, SolvedInTime
<1>2. \A d \in Challenge : Granted(d)' <=> Granted(d) BY DEF Granted
<1>3. OnePlace'
  <2>1. \A c \in Challenge : opened'[c] # NoRecord =>
          c \in drawn' /\ ~Granted(c)' /\ \A q \in Req : held'[q] # c
    BY <1>2 DEF OnePlace, TypeOK
  <2>2. ASSUME NEW q \in Req PROVE HeldOnce(q)'
    BY DEF OnePlace, HeldOnce, Granted, TypeOK
  <2>3. \A k \in Ticket : ticket'[k] # NoRecord =>
          stem'[k] # NoChallenge /\ entries'[stem'[k]] = 0
    BY DEF OnePlace
  <2>4. QED BY <2>1, <2>2, <2>3, <1>2 DEF OnePlace
<1>4. Announced' BY DEF Announced, TypeOK
<1>5. QED BY <1>1, <1>3, <1>4

LEMMA QuietInv ==
  ASSUME IInv,
         \/ \E q \in Req : Fail(q)
         \/ \E k \in Ticket : ValidateLost(k)
         \/ Tick \/ Redis \/ UNCHANGED vars
  PROVE  IInv'
<1> USE CapAssumption DEF store, requests, NoRecord
<1> TypeOK BY DEF IInv
<1>1. ASSUME NEW q \in Req, Fail(q) PROVE IInv'
  BY <1>1, EndingsInv DEF Fail, Release, TypeOK, record
<1>2. ASSUME NEW k \in Ticket, ValidateLost(k) \/ TicketEnds(k) PROVE IInv'
  BY <1>2, EndingsInv DEF ValidateLost, TicketEnds, TypeOK, record
<1>3. ASSUME Tick PROVE IInv'
  BY <1>3, EndingsInv DEF Tick, TypeOK, record
<1>4. ASSUME NEW c \in Challenge, ChallengeEnds(c) PROVE IInv'
  BY <1>4, EndingsInv DEF ChallengeEnds, TypeOK, record
<1>5. ASSUME UNCHANGED vars PROVE IInv'
  BY <1>5, EndingsInv DEF vars, TypeOK, record
<1>6. QED BY <1>1, <1>2, <1>3, <1>4, <1>5 DEF Redis

LEMMA StepInv == IInv /\ [Next]_vars => IInv'
<1> SUFFICES ASSUME IInv, [Next]_vars PROVE IInv' OBVIOUS
<1>1. QED
  BY CreateChallengeInv, TakeChallengeInv, CheckSolutionsInv, GrantTicketInv,
     ValidateTokenInv, QuietInv DEF Next, Handle

(* Every reachable state satisfies the inductive invariant.                *)
THEOREM Inductive == Spec => []IInv
BY InitInv, StepInv, PTL DEF Spec

(* RedeemChallenge and ValidateToken: one challenge is granted at most one *)
(* verification token, and lets at most one entry through.                 *)
THEOREM OneEntry == Spec => []OneEntryPerChallenge
BY Inductive, PTL DEF IInv

(* RedeemChallenge compares the record's own deadline: no solution is      *)
(* accepted after the time announced to the client.                        *)
THEOREM InTime == Spec => []SolvedInTime
BY Inductive, PTL DEF IInv

-----------------------------------------------------------------------------
(* The composition.                                                        *)
LEMMA FormStart == FormInit => FormSafe
<1> SUFFICES ASSUME FormInit PROVE FormSafe OBVIOUS
<1> USE DEF FormInit, NoSub
<1>1. SubOK BY DEF SubOK
<1>2. QED BY <1>1 DEF FormSafe, OneAccountPerChallenge

(* The parts of the form keep to their ranges.                             *)
LEMMA SubKept ==
  ASSUME IInv, FormSafe, [FormNext]_formVars PROVE SubOK'
<1> USE DEF FormSafe, SubOK, NoSub
<1>1. CASE Widget
  BY <1>1 DEF Widget, Ask, Present, PresentLate
<1>2. ASSUME NEW q \in Req, Redeems(q) PROVE SubOK'
  BY <1>2 DEF Redeems, Redeem, Grant
<1>3. ASSUME NEW s \in Submission, Submit(s) PROVE SubOK'
  BY <1>3 DEF Submit, mounted
<1>4. ASSUME NEW s \in Submission, RejectCaptcha(s) PROVE SubOK'
  BY <1>4 DEF RejectCaptcha
<1>5. ASSUME NEW s \in Submission, Validate(s) PROVE SubOK'
  BY <1>4, <1>5 DEF Validate, mounted
<1>6. ASSUME NEW s \in Submission, Insert(s) PROVE SubOK'
  BY <1>6 DEF Insert, mounted
<1>7. CASE GiveUp \/ Others \/ UNCHANGED formVars
  BY <1>7 DEF GiveUp, Others, formVars, form, mounted
<1>8. QED BY <1>1, <1>2, <1>3, <1>5, <1>6, <1>7 DEF FormNext, Serve

(* Every step of the composition is a step of Cap, or leaves it alone.     *)
LEMMA CapStep ==
  ASSUME SubOK, [FormNext]_formVars PROVE [Next]_vars
<1> SUFFICES Next \/ UNCHANGED vars OBVIOUS
<1> USE DEF Next, SubOK
<1>1. CASE Widget
  BY <1>1 DEF Widget, Ask, Present, PresentLate
<1>2. ASSUME NEW q \in Req, Redeems(q) PROVE Next
  BY <1>2 DEF Redeems, Redeem, Grant, Handle
<1>3. ASSUME NEW s \in Submission, Submit(s) \/ Insert(s)
      PROVE  UNCHANGED vars
  BY <1>3 DEF Submit, Insert
<1>4. ASSUME NEW s \in Submission, Validate(s) PROVE Next \/ UNCHANGED vars
  BY <1>4 DEF Validate
<1>5. CASE Others BY <1>5 DEF Others
<1>6. CASE GiveUp \/ UNCHANGED formVars BY <1>6 DEF GiveUp, formVars
<1>7. QED BY <1>1, <1>2, <1>3, <1>4, <1>5, <1>6 DEF FormNext, Serve

(* The challenge of a granted token and the count of its entries: the one  *)
(* never changes, the other never falls.                                   *)
LEMMA Grows ==
  ASSUME IInv, [Next]_vars
  PROVE  /\ \A k \in Ticket : stem[k] # NoChallenge => stem'[k] = stem[k]
         /\ \A c \in Challenge : entries[c] > 0 => entries'[c] > 0
<1> USE DEF IInv, TypeOK
<1>1. ASSUME NEW c \in Challenge, CreateChallenge(c)
      PROVE  UNCHANGED <<stem, entries>>
  BY <1>1 DEF CreateChallenge
<1>2. ASSUME NEW q \in Req, NEW c \in Challenge, NEW ok \in BOOLEAN,
             TakeChallenge(q, c, ok)
      PROVE  UNCHANGED <<stem, entries>>
  BY <1>2 DEF TakeChallenge, record
<1>3. ASSUME NEW q \in Req, CheckSolutions(q) \/ Fail(q)
      PROVE  UNCHANGED <<stem, entries>>
  BY <1>3 DEF CheckSolutions, Fail, record
<1>4. ASSUME NEW q \in Req, NEW k \in Ticket, GrantTicket(q, k)
      PROVE  /\ stem[k] = NoChallenge /\ entries' = entries
             /\ stem' = [stem EXCEPT ![k] = held[q]]
  BY <1>4 DEF GrantTicket, OnePlace
<1>5. ASSUME NEW k \in Ticket, ValidateToken(k)
      PROVE  stem' = stem /\ entries' = [entries EXCEPT ![stem[k]] = @ + 1]
  BY <1>5 DEF ValidateToken
<1>6. CASE \/ \E k \in Ticket : ValidateLost(k)
           \/ Tick \/ Redis \/ UNCHANGED vars
  BY <1>6 DEF ValidateLost, Tick, Redis, ChallengeEnds, TicketEnds, vars, record
<1>7. QED BY <1>1, <1>2, <1>3, <1>4, <1>5, <1>6 DEF Next, Handle

(* A step that puts nobody in the place of inserting an account.           *)
LEMMA NobodyPays ==
  ASSUME IInv, FormSafe, [Next]_vars, SubOK', bought' = bought,
         \A s \in Submission : sub'[s].at = "insert" => sub'[s] = sub[s]
  PROVE  FormSafe'
<1> USE DEF FormSafe, SubOK
<1>1. ASSUME NEW s \in Submission, sub'[s].at = "insert"
      PROVE  /\ sub[s].at = "insert" /\ Inserting(s)
             /\ Paying(s)' = Paying(s) /\ Paying(s) \in Challenge
  <2>1. sub[s].at = "insert" /\ sub'[s].ticket = sub[s].ticket BY <1>1
  <2>2. Inserting(s) /\ sub[s].ticket \in Ticket BY <2>1
  <2>3. QED BY <2>1, <2>2, Grows DEF Inserting, Paying, IInv, TypeOK
<1>2. ASSUME NEW s \in Submission, sub'[s].at = "insert"
      PROVE  Inserting(s)'
  <2>1. entries'[Paying(s)] > 0 /\ bought'[Paying(s)] = 0
    BY <1>1, <1>2, Grows DEF Inserting
  <2>2. \A r \in Submission \ {s} :
          sub'[r].at = "insert" => Paying(r)' # Paying(s)'
    BY <1>1, <1>2 DEF Inserting
  <2>3. QED BY <1>1, <1>2, <2>1, <2>2 DEF Inserting
<1>3. QED BY <1>2, Grows DEF OneAccountPerChallenge

(* ValidateToken found the token: its challenge had let nobody in.         *)
LEMMA PaysOnce ==
  ASSUME IInv, FormSafe, SubOK', NEW s \in Submission,
         sub[s].at = "validate", ValidateToken(sub[s].ticket),
         sub' = [sub EXCEPT ![s].at = "insert"], bought' = bought
  PROVE  FormSafe'
<1> DEFINE k == sub[s].ticket
           c == stem[k]
<1> USE DEF FormSafe, SubOK
<1>1. k \in Ticket OBVIOUS
<1>2. c \in Challenge /\ entries[c] = 0
  BY <1>1 DEF ValidateToken, IInv, TypeOK, OnePlace
<1>3. stem' = stem /\ entries' = [entries EXCEPT ![c] = @ + 1]
  BY DEF ValidateToken
<1>4. /\ bought[c] = 0
      /\ \A r \in Submission : sub[r].at = "insert" => Paying(r) # c
  BY <1>2 DEF Inserting
<1>5. \A r \in Submission : Paying(r)' = Paying(r) BY <1>3 DEF Paying
<1>6. ASSUME NEW r \in Submission, sub'[r].at = "insert"
      PROVE  Inserting(r)'
  <2>1. CASE r = s
    <3>1. Paying(r)' = c BY <2>1, <1>5 DEF Paying
    <3>2. entries'[c] > 0 /\ bought'[c] = 0
      BY <1>2, <1>3, <1>4 DEF IInv, TypeOK
    <3>3. ASSUME NEW u \in Submission \ {r}, sub'[u].at = "insert"
          PROVE  Paying(u)' # c
      BY <3>3, <2>1, <1>4, <1>5
    <3>4. c # NoChallenge BY <1>2, CapAssumption
    <3>5. QED BY <3>1, <3>2, <3>3, <3>4 DEF Inserting
  <2>2. CASE r # s
    <3>1. sub[r].at = "insert" /\ Inserting(r) BY <1>6, <2>2
    <3>2. Paying(r) \in Challenge /\ Paying(r) # c
      BY <3>1, <1>4 DEF Inserting, Paying, IInv, TypeOK
    <3>3. QED
      BY <3>1, <3>2, <1>2, <1>3, <1>5, <2>2 DEF Inserting, Paying, IInv, TypeOK
  <2>3. QED BY <2>1, <2>2
<1>7. QED
  BY <1>2, <1>3, <1>6 DEF OneAccountPerChallenge, IInv, TypeOK

(* Insert: the challenge that has paid has now bought its account.         *)
LEMMA BuysOnce ==
  ASSUME IInv, FormSafe, SubOK', NEW s \in Submission, Insert(s)
  PROVE  FormSafe'
<1> USE DEF FormSafe, SubOK
<1>1. UNCHANGED <<stem, entries>> BY DEF Insert, vars, record
<1>2. Inserting(s) /\ Paying(s) \in Challenge
  BY DEF Insert, Inserting, Paying, IInv, TypeOK
<1>3. ASSUME NEW r \in Submission, sub'[r].at = "insert"
      PROVE  /\ r # s /\ sub'[r] = sub[r] /\ Inserting(r)
             /\ Paying(r) # Paying(s) /\ Paying(r)' = Paying(r)
             /\ Paying(r) \in Challenge
  <2>1. r # s /\ sub'[r] = sub[r] BY <1>3 DEF Insert, NoSub
  <2>2. QED BY <2>1, <1>1, <1>2, <1>3 DEF Inserting, Paying, IInv, TypeOK
<1>4. \/ bought' = bought
      \/ bought' = [bought EXCEPT ![Paying(s)] = @ + 1]
  BY DEF Insert, Paying
<1>5. ASSUME NEW r \in Submission, sub'[r].at = "insert"
      PROVE  Inserting(r)'
  BY <1>1, <1>3, <1>4, <1>5 DEF Inserting
<1>6. QED BY <1>1, <1>2, <1>4, <1>5 DEF Inserting, OneAccountPerChallenge

LEMMA FormKept ==
  ASSUME IInv, FormSafe, [FormNext]_formVars PROVE FormSafe'
<1>1. SubOK' /\ [Next]_vars BY SubKept, CapStep DEF FormSafe
<1>2. CASE UNCHANGED <<sub, bought>> BY <1>1, <1>2, NobodyPays
<1>3. ASSUME NEW s \in Submission, Submit(s) PROVE FormSafe'
  BY <1>1, <1>3, NobodyPays DEF Submit, FormSafe, SubOK
<1>4. ASSUME NEW s \in Submission, Validate(s) PROVE FormSafe'
  <2>1. CASE RejectCaptcha(s)
    BY <1>1, <2>1, NobodyPays DEF RejectCaptcha, NoSub, FormSafe, SubOK
  <2>2. QED BY <1>1, <1>4, <2>1, PaysOnce DEF Validate
<1>5. ASSUME NEW s \in Submission, Insert(s) PROVE FormSafe'
  BY <1>1, <1>5, BuysOnce
<1>6. QED
  BY <1>2, <1>3, <1>4, <1>5
  DEF FormNext, Widget, Ask, Present, PresentLate, Redeems, Redeem, Grant,
      Serve, GiveUp, Others, formVars, form

LEMMA FormInductive == FormSpec => [](IInv /\ FormSafe)
<1>1. FormInit => IInv /\ FormSafe BY InitInv, FormStart DEF FormInit
<1>2. IInv /\ FormSafe /\ [FormNext]_formVars => IInv' /\ FormSafe'
  BY CapStep, FormKept, StepInv DEF FormSafe
<1>3. QED BY <1>1, <1>2, PTL DEF FormSpec

(* SignupByEmail and the page use pkg/cap as anyone may: the composition   *)
(* implements the captcha server.                                          *)
THEOREM Composes == FormSpec => Spec
<1>1. FormSafe /\ [FormNext]_formVars => [Next]_vars
  BY CapStep DEF FormSafe
<1>2. FormInit => Init BY DEF FormInit
<1>3. QED BY <1>1, <1>2, FormInductive, PTL DEF FormSpec, Spec

(* SignupByEmail: one solved challenge buys one account, through time-outs *)
(* and repeated submissions.                                               *)
THEOREM OneAccount == FormSpec => []OneAccountPerChallenge
BY FormInductive, PTL DEF FormSafe
(* The type invariant of the page, in two halves.                          *)
MountedOK ==
  /\ widget \in {"ask", "solve", "wait", "done"}
  /\ puzzle \in Challenge \cup {NoChallenge}
  /\ asking \in Req \cup {NoReq}
  /\ capToken \in Ticket \cup {NoTicket}
  /\ widget = "solve" => puzzle # NoChallenge
  /\ widget = "wait" <=> asking # NoReq
  /\ widget = "done" <=> capToken # NoTicket

HandlersOK ==
  /\ waiting \in Submission \cup {NoSubmission}
  /\ success \in BOOLEAN
  /\ sub \in [Submission -> [at : {"none", "validate", "insert"},
                             ticket : Ticket \cup {NoTicket}]]
  /\ \A s \in Submission : sub[s].at = "none" <=> sub[s].ticket = NoTicket
  /\ bought \in [Challenge -> Nat]
  /\ timeouts \in 0..MaxTimeouts

LEMMA Halves == FormTypeOK <=> TypeOK /\ MountedOK /\ HandlersOK
BY DEF FormTypeOK, MountedOK, HandlersOK

LEMMA PageStart == FormInit => FormTypeOK
<1> SUFFICES ASSUME FormInit PROVE FormTypeOK OBVIOUS
<1>1. TypeOK BY InitInv DEF FormInit, IInv
<1>2. MountedOK BY FormAssumption DEF FormInit, MountedOK
<1>3. NoSub \in [at : {"none", "validate", "insert"},
                ticket : Ticket \cup {NoTicket}]
  BY DEF NoSub
<1>4. \A s \in Submission :
        sub[s] = NoSub /\ NoSub.at = "none" /\ NoSub.ticket = NoTicket
  BY DEF FormInit, NoSub
<1>5. /\ sub \in [Submission -> [at : {"none", "validate", "insert"},
                                ticket : Ticket \cup {NoTicket}]]
      /\ \A s \in Submission : sub[s].at = "none" <=> sub[s].ticket = NoTicket
  BY <1>3, <1>4 DEF FormInit
<1>6. HandlersOK
  <2>1. waiting \in Submission \cup {NoSubmission} /\ success \in BOOLEAN
    BY DEF FormInit
  <2>2. bought \in [Challenge -> Nat] BY DEF FormInit
  <2>3. timeouts \in 0..MaxTimeouts BY FormAssumption DEF FormInit
  <2>4. QED BY <1>5, <2>1, <2>2, <2>3 DEF HandlersOK
<1>7. QED BY <1>1, <1>2, <1>6, Halves

(* The widget waits exactly while it has a redemption, and is done exactly *)
(* while the page holds a token.                                           *)
LEMMA MountedKept ==
  ASSUME MountedOK, [FormNext]_formVars PROVE MountedOK'
<1> USE FormAssumption, CapAssumption DEF MountedOK
<1>1. CASE Ask BY <1>1 DEF Ask
<1>2. CASE PresentLate BY <1>2 DEF PresentLate
<1>3. ASSUME NEW q \in Req, Present(q) PROVE MountedOK'
  BY <1>3 DEF Present
<1>4. ASSUME NEW q \in Req, Redeem(q) PROVE MountedOK'
  BY <1>4 DEF Redeem
<1>5. ASSUME NEW q \in Req, NEW k \in Ticket, Grant(q, k) PROVE MountedOK'
  BY <1>5 DEF Grant
<1>6. ASSUME NEW s \in Submission, RejectCaptcha(s) PROVE MountedOK'
  BY <1>6 DEF RejectCaptcha
<1>7. ASSUME NEW s \in Submission, Validate(s) PROVE MountedOK'
  BY <1>6, <1>7 DEF Validate, mounted
<1>8. ASSUME NEW s \in Submission, Submit(s) \/ Insert(s) PROVE MountedOK'
  BY <1>8 DEF Submit, Insert, mounted
<1>9. CASE GiveUp \/ Others \/ UNCHANGED formVars
  BY <1>9 DEF GiveUp, Others, formVars, form, mounted
<1>10. QED
  BY <1>1, <1>2, <1>3, <1>4, <1>5, <1>7, <1>8, <1>9
  DEF FormNext, Widget, Redeems, Serve

(* A handler has a token exactly while it runs.                            *)
LEMMA HandlersKept ==
  ASSUME MountedOK, HandlersOK, [FormNext]_formVars PROVE HandlersOK'
<1> USE FormAssumption DEF HandlersOK
<1>1. CASE Widget BY <1>1 DEF Widget, Ask, PresentLate, Present, page
<1>2. ASSUME NEW q \in Req, Redeems(q) PROVE HandlersOK'
  BY <1>2 DEF Redeems, Redeem, Grant, page
<1>3. ASSUME NEW s \in Submission, Submit(s) PROVE HandlersOK'
  <2>1. capToken \in Ticket /\ capToken # NoTicket
    BY <1>3 DEF Submit, MountedOK
  <2>2. QED BY <1>3, <2>1 DEF Submit
<1>4. ASSUME NEW s \in Submission, RejectCaptcha(s) PROVE HandlersOK'
  <2>1. waiting' \in Submission \cup {NoSubmission}
    BY <1>4 DEF RejectCaptcha
  <2>2. QED BY <1>4, <2>1 DEF RejectCaptcha, NoSub
<1>5. ASSUME NEW s \in Submission, Validate(s) PROVE HandlersOK'
  BY <1>4, <1>5 DEF Validate, page
<1>6. ASSUME NEW s \in Submission, Insert(s) PROVE HandlersOK'
  <2>1. waiting' \in Submission \cup {NoSubmission}
    BY <1>6 DEF Insert
  <2>2. success' \in BOOLEAN BY <1>6 DEF Insert
  <2>3. bought' \in [Challenge -> Nat] BY <1>6 DEF Insert
  <2>4. QED BY <1>6, <2>1, <2>2, <2>3 DEF Insert, NoSub
<1>7. CASE GiveUp BY <1>7 DEF GiveUp
<1>8. CASE Others \/ UNCHANGED formVars
  BY <1>8 DEF Others, formVars, form, page
<1>9. QED
  BY <1>1, <1>2, <1>3, <1>5, <1>6, <1>7, <1>8 DEF FormNext, Serve

(* register.tsx: the type invariant, in which the status of the widget is  *)
(* tied to the redemption it waits for and to the token the page holds.    *)
THEOREM PageTypes == FormSpec => []FormTypeOK
<1>1. MountedOK /\ HandlersOK /\ [FormNext]_formVars
      => MountedOK' /\ HandlersOK'
  BY MountedKept, HandlersKept
<1>2. QED
  BY <1>1, PageStart, Halves, FormInductive, PTL DEF FormSpec, IInv
=============================================================================
