----------------------------- MODULE SignupForm -----------------------------
(***************************************************************************)
(* The registration page (web/iam/src/routes/_auth/register.tsx), the      *)
(* sign-up operation (internal/service/authn.go) and the captcha server of *)
(* module Cap, composed: the page's widget draws and redeems a challenge,  *)
(* the page submits the verification token it was told of, and the service *)
(* validates the token before it inserts the account.  A submission may be *)
(* refused for its name, or answered after the page has given up on it;    *)
(* everyone else uses the same captcha server.                             *)
(*                                                                         *)
(* An answer and its travel are one step.  The widget is external: it asks *)
(* for a challenge when clicked, and once solved it does nothing until the *)
(* page mounts a new one.  bought records what a property speaks of.       *)
(***************************************************************************)
EXTENDS Cap

CONSTANTS
  Submission,     \* calls of SignupByEmail in flight
  NoTicket, NoReq, NoSubmission,
  MaxTimeouts     \* bound: submissions the page gives up on

ASSUME FormAssumption ==
  /\ NoTicket \notin Ticket /\ NoReq \notin Req
  /\ NoSubmission \notin Submission
  /\ MaxTimeouts \in Nat

VARIABLES
  widget,     \* the mounted widget: "ask", "solve", "wait" or "done"
  puzzle,     \* ... its challenge
  asking,     \* ... the redemption it waits for
  capToken,   \* capTokenRef.current
  waiting,    \* the submission awaited; the status is idle if there is none
  success,    \* the page has left for /register-success
  sub,        \* the sign-up handlers: the command they are at, their token
  bought,     \* accounts inserted on the strength of a challenge
  timeouts

mounted == <<widget, puzzle, asking>>
page == <<waiting, success, timeouts>>
form == <<mounted, capToken, page, sub, bought>>
formVars == <<vars, form>>

NoSub == [at |-> "none", ticket |-> NoTicket]

-----------------------------------------------------------------------------
(* The widget asks for a challenge, and presents its solutions.            *)
Ask ==
  /\ widget = "ask" /\ ~success
  /\ \E c \in Challenge : CreateChallenge(c) /\ puzzle' = c
  /\ widget' = "solve"
  /\ UNCHANGED <<asking, capToken, page, sub, bought>>

Present(q) ==
  /\ widget = "solve"
  /\ TakeChallenge(q, puzzle, TRUE)
  /\ widget' = "wait" /\ asking' = q
  /\ UNCHANGED <<puzzle, capToken, page, sub, bought>>

(* "Challenge invalid or expired": it is gone, or the GETDEL failed.       *)
PresentLate ==
  /\ widget = "solve"
  /\ widget' = "ask"
  /\ UNCHANGED <<vars, puzzle, asking, capToken, page, sub, bought>>

(* The redemption moves on; the widget hears if it fails.                  *)
Redeem(q) ==
  /\ CheckSolutions(q) \/ Fail(q)
  /\ IF q = asking /\ pc'[q] = "idle"
       THEN widget' = "ask" /\ asking' = NoReq
       ELSE UNCHANGED <<widget, asking>>
  /\ UNCHANGED <<puzzle, capToken, page, sub, bought>>

(* The token is granted; the page's widget dispatches "solve".             *)
Grant(q, k) ==
  /\ GrantTicket(q, k)
  /\ IF q = asking
       THEN widget' = "done" /\ asking' = NoReq /\ capToken' = k
       ELSE UNCHANGED <<widget, asking, capToken>>
  /\ UNCHANGED <<puzzle, page, sub, bought>>

-----------------------------------------------------------------------------
(* handleSubmit; without a token the page only shows an error.             *)
Submit(s) ==
  /\ waiting = NoSubmission /\ ~success
  /\ capToken # NoTicket /\ sub[s].at = "none"
  /\ waiting' = s
  /\ sub' = [sub EXCEPT ![s] = [at |-> "validate", ticket |-> capToken]]
  /\ UNCHANGED <<vars, mounted, capToken, success, bought, timeouts>>

(* Variant: the token is cleared, but the widget not mounted anew.         *)
RejectCaptcha_SameWidget(s) ==
  /\ sub' = [sub EXCEPT ![s] = NoSub]
  /\ IF waiting = s
       THEN capToken' = NoTicket /\ waiting' = NoSubmission
       ELSE UNCHANGED <<capToken, waiting>>
  /\ UNCHANGED <<mounted, success, bought, timeouts>>

(* INVALID_CAPTCHA: a page that still waits forgets its token and mounts a *)
(* new widget (RESET_CAP).                                                 *)
RejectCaptcha(s) ==
  /\ sub' = [sub EXCEPT ![s] = NoSub]
  /\ IF waiting = s
       THEN /\ capToken' = NoTicket /\ waiting' = NoSubmission
            /\ widget' = "ask" /\ asking' = NoReq
       ELSE UNCHANGED <<widget, asking, capToken, waiting>>
  /\ UNCHANGED <<puzzle, success, bought, timeouts>>

(* SignupByEmail, first command: a token that is found is used up whatever *)
(* follows; one that is gone, or whose GETDEL fails, is refused.           *)
Validate(s) ==
  LET k == sub[s].ticket IN
  /\ sub[s].at = "validate"
  /\ \/ /\ ValidateToken(k)
        /\ sub' = [sub EXCEPT ![s].at = "insert"]
        /\ UNCHANGED <<mounted, capToken, page, bought>>
     \/ ValidateLost(k) /\ RejectCaptcha(s)
     \/ UNCHANGED vars /\ RejectCaptcha(s)

(* The account is inserted, or refused for its name, its email or an       *)
(* error; the page that still waits leaves, or shows the error and keeps   *)
(* its token (SUBMIT_ERROR).                                               *)
Insert(s) ==
  /\ sub[s].at = "insert"
  /\ sub' = [sub EXCEPT ![s] = NoSub]
  /\ waiting' = IF waiting = s THEN NoSubmission ELSE waiting
  /\ \/ /\ bought' = [bought EXCEPT ![stem[sub[s].ticket]] = @ + 1]
        /\ success' = (success \/ waiting = s)
     \/ UNCHANGED <<bought, success>>
  /\ UNCHANGED <<vars, mounted, capToken, timeouts>>

(* The client's time-out, or a connection that broke: an error like any    *)
(* other to the page, while the handler runs on.                           *)
GiveUp ==
  /\ waiting # NoSubmission /\ timeouts < MaxTimeouts
  /\ waiting' = NoSubmission
  /\ timeouts' = timeouts + 1
  /\ UNCHANGED <<vars, mounted, capToken, success, sub, bought>>

-----------------------------------------------------------------------------
(* Everyone else's challenges and tokens: they do not know this page's.    *)
Foreign(k) == k # capToken /\ \A s \in Submission : sub[s].ticket # k

Others ==
  /\ \/ \E c \in Challenge : CreateChallenge(c)
     \/ \E q \in Req, c \in Challenge, ok \in BOOLEAN :
          c # puzzle /\ TakeChallenge(q, c, ok)
     \/ \E k \in Ticket : Foreign(k) /\ (ValidateToken(k) \/ ValidateLost(k))
     \/ Tick \/ Redis
  /\ UNCHANGED form

FormInit ==
  /\ Init
  /\ widget = "ask" /\ puzzle = NoChallenge /\ asking = NoReq
  /\ capToken = NoTicket /\ waiting = NoSubmission
  /\ success = FALSE /\ timeouts = 0
  /\ sub = [s \in Submission |-> NoSub]
  /\ bought = [c \in Challenge |-> 0]

Widget == Ask \/ PresentLate \/ \E q \in Req : Present(q)
Redeems(q) == Redeem(q) \/ \E k \in Ticket : Grant(q, k)
Serve(s) == Validate(s) \/ Insert(s)

FormNext ==
  \/ Widget \/ \E q \in Req : Redeems(q)
  \/ \E s \in Submission : Submit(s) \/ Serve(s)
  \/ GiveUp \/ Others

FormSpec == FormInit /\ [][FormNext]_formVars

(* Handlers run on, and the user does not tire of the widget and the form. *)
FormFairSpec ==
  /\ FormSpec
  /\ WF_formVars(Widget)
  /\ \A q \in Req : WF_formVars(Redeems(q))
  /\ WF_formVars(\E s \in Submission : Submit(s))
  /\ \A s \in Submission : WF_formVars(Serve(s))

-----------------------------------------------------------------------------
FormTypeOK ==
  /\ TypeOK
  /\ widget \in {"ask", "solve", "wait", "done"}
  /\ puzzle \in Challenge \cup {NoChallenge}
  /\ asking \in Req \cup {NoReq}
  /\ capToken \in Ticket \cup {NoTicket}
  /\ widget = "solve" => puzzle # NoChallenge
  /\ widget = "wait" <=> asking # NoReq
  /\ widget = "done" <=> capToken # NoTicket
  /\ waiting \in Submission \cup {NoSubmission}
  /\ success \in BOOLEAN
  /\ sub \in [Submission -> [at : {"none", "validate", "insert"},
                             ticket : Ticket \cup {NoTicket}]]
  /\ \A s \in Submission : sub[s].at = "none" <=> sub[s].ticket = NoTicket
  /\ bought \in [Challenge -> Nat]
  /\ timeouts \in 0..MaxTimeouts

(* One solved challenge buys one account, however often the form is        *)
(* submitted, given up on and submitted again.                             *)
OneAccountPerChallenge == \A c \in Challenge : bought[c] <= 1

(* Why it holds: who is about to insert an account has had a token of the  *)
(* challenge found valid, and that happens once.                           *)
SubOK ==
  /\ sub \in [Submission -> [at : {"none", "validate", "insert"},
                             ticket : Ticket \cup {NoTicket}]]
  /\ \A s \in Submission : sub[s].at # "none" => sub[s].ticket \in Ticket
  /\ capToken \in Ticket \cup {NoTicket}
  /\ widget = "solve" => puzzle \in Challenge
  /\ bought \in [Challenge -> Nat]

Paying(s) == stem[sub[s].ticket]

Inserting(s) ==
  /\ Paying(s) # NoChallenge
  /\ entries[Paying(s)] > 0 /\ bought[Paying(s)] = 0
  /\ \A r \in Submission \ {s} :
       sub[r].at = "insert" => Paying(r) # Paying(s)

FormSafe ==
  /\ SubOK
  /\ \A s \in Submission : sub[s].at = "insert" => Inserting(s)
  /\ \A c \in Challenge : bought[c] > 0 => entries[c] > 0
  /\ OneAccountPerChallenge

(* The page never comes to a state in which nothing the user does gets an  *)
(* account inserted: not after a refusal that used up the token, nor after *)
(* a token that ended.  Bound: as long as there are tokens left to draw.   *)
TokensLeft ==
  /\ widget = "ask" => ~(Challenge \subseteq drawn)
  /\ widget = "wait" => ~(Ticket \subseteq drawn)

FormEnds == <>(~TokensLeft \/ \E c \in Challenge : bought[c] > 0)
=============================================================================
