----------------------------- MODULE WebSession -----------------------------
(***************************************************************************)
(* The session of the web client in one browser tab: the login page        *)
(* (routes/_auth/login.tsx) and the console with its shell, its profile    *)
(* page and its login-expired dialog (routes/_app, layout/app-shell.tsx,   *)
(* components/login-expired-dialog.tsx), over the store of AuthStore.      *)
(* Calls are answered late, in any order or not at all, after 30 s; the    *)
(* promise behind a call outlives the page that made it, but not a reload. *)
(* Other tabs write the same localStorage, which this one reads on a load. *)
(*                                                                         *)
(* The request library is external.  It sends the tokens in the store; on  *)
(* a 401 it tries the refresh token once (autoRefreshToken), stores what   *)
(* it receives and repeats the call, or reports the 401 and may clear the  *)
(* store first.                                                            *)
(*                                                                         *)
(* The variables of record are what the properties speak of:               *)
(*   blended   whether the user and the tokens of the tab may be of        *)
(*             different accounts, and those of the copy                   *)
(*   refused   pairs whose login ended in a refusal                        *)
(*   left      the tab signed out with no login or renewal in flight       *)
(***************************************************************************)
EXTENDS AuthStore, FiniteSets, Naturals

CONSTANTS
  Admin,       \* the accounts whose role is admin
  MaxCalls     \* bound: calls in flight

ASSUME WebAssumption == Admin \subseteq Account /\ MaxCalls \in Nat

VARIABLES
  store,       \* localStorage and authStore
  page,        \* the page shown
  busy,        \* its form, or its dialog, is waiting for an answer
  calls,       \* calls in flight
  owner, life, \* the server: whose a pair is, which of its tokens work
  blended, refused, left

view == <<page, busy>>
server == <<owner, life>>
vars == <<store, view, calls, server, blended, refused, left>>

Page == {"login", "console"}
Bearing == {"check", "user"}             \* calls that carry tokens
ASSUME NoneAssumption == None \notin Bearing
Kind == Bearing \cup {"login", "dialog", "renew"}
Call == [kind : Kind, pair : Pair \cup {None},
         who : Account \cup {None},      \* who signs in
         for : Bearing \cup {None},      \* what is renewed for, or repeated
         shown : BOOLEAN]                \* the form that made it is mounted

Sign(k, a) ==
  [kind |-> k, pair |-> None, who |-> a, for |-> None, shown |-> TRUE]
Bear(k, p, b) ==
  [kind |-> k, pair |-> p, who |-> None, for |-> None, shown |-> b]

Drawn == {p \in Pair : owner[p] # None}
Accepted(p) == p # None /\ "access" \in life[p]
Held == {store.mem.pair, store.disk.pair} \cup {c.pair : c \in calls}
Detached(C) == {[c EXCEPT !.shown = FALSE] : c \in C}
Carry(C) == Cardinality(C) <= MaxCalls /\ calls' = C

(* The tab leaves the store s; b tells whether what it holds may be of two *)
(* accounts.  So may be the copy, also when another tab wrote a part of it.*)
Put(s, b) ==
  /\ store' = s
  /\ blended' = [tab |-> b, copy |-> b \/ s.disk.pair # s.mem.pair
                                       \/ s.disk.user # s.mem.user]

(* The shell asks for the user when it is mounted and the store has none.  *)
Mounted(s) ==
  IF s.mem.user = None /\ isAuthenticated(s)
    THEN {Bear("user", s.mem.pair, FALSE)} ELSE {}

Show(g) == page' = g /\ busy' = FALSE
Settled(c) == busy' = (busy /\ ~c.shown)

(* The server hands out a new pair.                                        *)
Grant(p, a) == p \notin Drawn /\ owner' = [owner EXCEPT ![p] = a]

-----------------------------------------------------------------------------
(* Pages *)

(* The tab is opened anew on some address: promises are gone.              *)
Reload ==
  LET s == [disk |-> store.disk, mem |-> authStore(store.disk)] IN
  /\ store' = s
  /\ blended' = [blended EXCEPT !.tab = blended.copy]
  /\ \E g \in IF isAuthenticated(s) THEN Page ELSE {"login"} :
       /\ Show(g)
       /\ Carry(IF g = "console" THEN Mounted(s) ELSE {})
  /\ left' = FALSE
  /\ UNCHANGED <<server, refused>>

(* Links and the back button: the guard asks for tokens, not whose.        *)
Navigate(g) ==
  /\ page # g
  /\ g = "console" => isAuthenticated(store)
  /\ Show(g)
  /\ Carry(Detached(calls) \cup IF g = "console" THEN Mounted(store) ELSE {})
  /\ UNCHANGED <<store, server, blended, refused, left>>

(* Sign-out, from the shell or from the dialog.                            *)
Logout ==
  /\ page = "console"
  /\ Put(clearAuth(store), FALSE)
  /\ Show("login")
  /\ Carry(Detached(calls))
  /\ left' = \A c \in calls : c.kind \in Bearing
  /\ UNCHANGED <<server, refused>>

(* The profile is saved, for the user it was loaded for.  The dialog is    *)
(* modal: nothing in the console can be used behind it.                    *)
SaveProfile ==
  /\ page = "console" /\ isAuthenticated(store) /\ ~store.mem.loginExpired
  /\ Carry(calls \cup {Bear("user", store.mem.pair, FALSE)})
  /\ UNCHANGED <<store, view, server, blended, refused, left>>

-----------------------------------------------------------------------------
(* Signing in *)

(* Tokens of account a are stored where another account's may be.          *)
Over(a) ==
  blended.tab \/ (store.mem.pair # None /\ owner[store.mem.pair] # a)

SubmitLogin(a) ==
  /\ page = "login" /\ ~busy
  /\ busy' = TRUE
  /\ Carry(calls \cup {Sign("login", a)})
  /\ left' = FALSE
  /\ UNCHANGED <<store, page, server, blended, refused>>

SubmitDialog(a) ==
  /\ page = "console" /\ store.mem.loginExpired /\ ~busy
  /\ busy' = TRUE
  /\ Carry(calls \cup {Sign("dialog", a)})
  /\ UNCHANGED <<store, page, server, blended, refused, left>>

(* The login page stores the tokens before it knows the role.              *)
LoginAnswered(c, p) ==
  /\ c.kind = "login"
  /\ Grant(p, c.who)
  /\ life' = [life EXCEPT ![p] = {"access", "refresh"}]
  /\ Put(setTokens(store, p), Over(c.who))
  /\ Carry((calls \ {c}) \cup {Bear("check", p, c.shown)})
  /\ UNCHANGED <<view, refused, left>>

(* Variant: a form that is told the account is not admin stays submitted.  *)
Refuse_Busy(c) ==
  /\ Put(clearAuth(store), FALSE)
  /\ Carry(calls \ {c})
  /\ refused' = refused \cup {c.pair}
  /\ UNCHANGED view

(* Whoever is not known to be an administrator is signed out.              *)
Refuse(c) ==
  /\ Put(clearAuth(store), FALSE)
  /\ Settled(c) /\ Carry(calls \ {c})
  /\ refused' = refused \cup {c.pair}
  /\ UNCHANGED page

(* CurrentUserInfo answers the login page: an administrator goes on to the *)
(* console, where the guard sends a tab without tokens back to the page    *)
(* it shows.                                                               *)
RoleAnswered(c) ==
  LET s == setUser(store, owner[c.pair])
      g == IF isAuthenticated(s) THEN "console" ELSE "login" IN
  /\ c.kind = "check" /\ Accepted(c.pair)
  /\ \/ /\ owner[c.pair] \in Admin
        /\ Put(s, c.pair # s.mem.pair)
        /\ IF page = g
             THEN Carry(calls \ {c}) /\ UNCHANGED view
             ELSE Carry(Detached(calls \ {c})) /\ Show(g)
        /\ UNCHANGED refused
     \/ owner[c.pair] \notin Admin /\ Refuse(c)
  /\ UNCHANGED <<server, left>>

(* Its failure is caught, and leaves no role to be admin.                  *)
RoleFails(c) ==
  /\ "check" \in {c.kind, c.for}
  /\ Refuse(c)
  /\ UNCHANGED <<server, left>>

(* The dialog keeps the user of the session that expired.                  *)
DialogAnswered(c, p) ==
  /\ c.kind = "dialog"
  /\ Grant(p, c.who)
  /\ life' = [life EXCEPT ![p] = {"access", "refresh"}]
  /\ Put(setLoginExpired(setTokens(store, p), FALSE), Over(c.who))
  /\ Settled(c) /\ Carry(calls \ {c})
  /\ UNCHANGED <<page, refused, left>>

(* Variant: the dialog keeps loading after a failure.                      *)
SignFails_Busy(c) ==
  /\ c.kind \in {"login", "dialog"}
  /\ busy' = (busy /\ ~(c.shown /\ c.kind = "login"))
  /\ Carry(calls \ {c})
  /\ \E s \in {store, setLoginExpired(store, TRUE)} : store' = s
  /\ UNCHANGED <<page, server, blended, refused, left>>

(* A wrong password is a 401 like any other for onError.                   *)
SignFails(c) ==
  /\ c.kind \in {"login", "dialog"}
  /\ Settled(c) /\ Carry(calls \ {c})
  /\ \E s \in {store, setLoginExpired(store, TRUE)} : store' = s
  /\ UNCHANGED <<page, server, blended, refused, left>>

-----------------------------------------------------------------------------
(* Answers to calls that carry tokens *)

(* CurrentUserInfo answers the shell, or the profile is saved: the user is *)
(* set whatever has become of the tokens in between.                       *)
UserAnswered(c) ==
  /\ c.kind = "user" /\ Accepted(c.pair)
  /\ Put(setUser(store, owner[c.pair]), c.pair # store.mem.pair)
  /\ Carry(calls \ {c})
  /\ UNCHANGED <<view, server, refused, left>>

(* Variant: with the refresh token of when the call was sent.              *)
StartRenew_Sent(c) ==
  /\ c.kind \in Bearing /\ c.for = None /\ ~Accepted(c.pair)
  /\ Carry((calls \ {c}) \cup {[c EXCEPT !.kind = "renew", !.for = c.kind]})
  /\ UNCHANGED <<store, view, server, blended, refused, left>>

(* A 401: the refresh token in the store is tried, once for a call.        *)
StartRenew(c) ==
  /\ c.kind \in Bearing /\ c.for = None /\ ~Accepted(c.pair)
  /\ isAuthenticated(store)
  /\ Carry((calls \ {c}) \cup
    {[c EXCEPT !.kind = "renew", !.for = c.kind, !.pair = store.mem.pair]})
  /\ UNCHANGED <<store, view, server, blended, refused, left>>

Renewed(c, p) ==
  /\ c.kind = "renew" /\ "refresh" \in life[c.pair]
  /\ Grant(p, owner[c.pair])
  /\ life' = [life EXCEPT ![p] = {"access", "refresh"},
                         ![c.pair] = @ \ {"refresh"}]
  /\ Put(setTokens(store, p), blended.tab \/ c.pair # store.mem.pair)
  /\ Carry((calls \ {c}) \cup {[c EXCEPT !.kind = c.for, !.pair = p]})
  /\ UNCHANGED <<view, refused, left>>

(* No answer, another error, or the 401 is reported: onError opens the     *)
(* dialog, perhaps over a store that the library has cleared.              *)
CallFails(c) ==
  /\ "user" \in {c.kind, c.for}
  /\ Carry(calls \ {c})
  /\ \/ UNCHANGED <<store, blended>>
     \/ /\ c.kind = "renew" \/ ~Accepted(c.pair)
        /\ Put(setLoginExpired(store, TRUE), blended.tab)
     \/ /\ c.kind = "renew"
        /\ Put(setLoginExpired(clearAuth(store), TRUE), FALSE)
  /\ UNCHANGED <<view, server, refused, left>>

-----------------------------------------------------------------------------
(* Tokens run out or are revoked, the access token first: until it is      *)
(* refused nobody asks what the refresh token is worth.  A pair that the   *)
(* browser holds nowhere is left as it is.                                 *)
Lapse(p, x) ==
  /\ x \in life[p]
  /\ x = "refresh" => "access" \notin life[p]
  /\ life' = [life EXCEPT ![p] = @ \ {x}]
  /\ UNCHANGED <<store, view, calls, owner, blended, refused, left>>

(* Another tab of the browser signs out, or an account in.                 *)
Overwrite(d) ==
  /\ store' = [store EXCEPT !.disk = d]
  /\ blended' = [blended EXCEPT !.copy = FALSE]
  /\ UNCHANGED <<view, calls, refused, left>>
OtherTabOut ==
  /\ store.disk # Empty
  /\ Overwrite(Empty)
  /\ UNCHANGED server
OtherTabIn(p, a) ==
  /\ Grant(p, a)
  /\ life' = [life EXCEPT ![p] = {"access", "refresh"}]
  /\ \E u \in {a, None} : Overwrite([pair |-> p, user |-> u])

Init ==
  /\ store = [disk |-> Empty, mem |-> authStore(Empty)]
  /\ page = "login" /\ busy = FALSE /\ calls = {}
  /\ owner = [p \in Pair |-> None] /\ life = [p \in Pair |-> {}]
  /\ blended = [tab |-> FALSE, copy |-> FALSE]
  /\ refused = {} /\ left = FALSE

Answer(c) ==
  \/ \E p \in Pair :
       LoginAnswered(c, p) \/ DialogAnswered(c, p) \/ Renewed(c, p)
  \/ RoleAnswered(c) \/ RoleFails(c) \/ SignFails(c)
  \/ UserAnswered(c) \/ StartRenew(c) \/ CallFails(c)

Use ==
  \/ Reload \/ Logout \/ SaveProfile \/ \E g \in Page : Navigate(g)
  \/ \E a \in Account : SubmitLogin(a) \/ SubmitDialog(a)

Next ==
  \/ Use
  \/ \E c \in calls : Answer(c)
  \/ \E p \in Held \ {None} : Lapse(p, "access") \/ Lapse(p, "refresh")
  \/ OtherTabOut \/ \E p \in Pair, a \in Account : OtherTabIn(p, a)

Spec == Init /\ [][Next]_vars

(* A call is answered, or fails after 30 s.  Who faces the dialog goes on  *)
(* signing in, and does not always fail.                                   *)
Repeat == \E a \in Account : SubmitDialog(a)
SignsIn == \E c \in calls, p \in Pair : c.shown /\ DialogAnswered(c, p)
Fairness ==
  /\ WF_vars(\E c \in calls : Answer(c))
  /\ WF_vars(Repeat) /\ SF_vars(SignsIn)
FairSpec == Spec /\ Fairness

-----------------------------------------------------------------------------
TypeOK ==
  /\ store \in Store /\ page \in Page /\ busy \in BOOLEAN
  /\ calls \subseteq Call /\ Cardinality(calls) <= MaxCalls
  /\ \A c \in calls : (c.kind \in {"login", "dialog"}) = (c.pair = None)
  /\ owner \in [Pair -> Account \cup {None}]
  /\ life \in [Pair -> SUBSET {"access", "refresh"}]
  /\ blended \in [tab : BOOLEAN, copy : BOOLEAN]
  /\ refused \subseteq Pair /\ left \in BOOLEAN

(* The name and role shown are those of the account whose tokens are sent: *)
(* through logouts, reloads, renewals, other tabs and answers in any       *)
(* order.  The exceptions are in blended: an answer for tokens that are    *)
(* not in the store any more, a dialog in which somebody else signs in,    *)
(* and a login over another account's session or over what such an answer  *)
(* left behind.                                                            *)
Belongs(m) == m.pair # None /\ m.user # None => m.user = owner[m.pair]
UserIsOwner ==
  (blended.tab \/ Belongs(store.mem)) /\ (blended.copy \/ Belongs(store.disk))

(* A login that the page refused leaves its tokens nowhere, neither in the *)
(* memory nor where a reload would find them.                              *)
RefusedGone == \A p \in refused : p \notin {store.mem.pair, store.disk.pair}

(* A logout lasts: a call sent before it, answered or refused after it,    *)
(* does not sign the tab in again, unless it was itself a login or a       *)
(* renewal.                                                                *)
LogoutSticks == left => store.mem.pair = None

(* What makes the three inductive: pairs in use have been handed out, a    *)
(* renewal knows what it is for, a user without tokens is on record, and a *)
(* tab that was left stays on the login page and sends nothing that signs  *)
(* it in.                                                                  *)
Known ==
  /\ \A p \in Held \cup refused : p # None => p \in Drawn
  /\ \A c \in calls :
       /\ c.kind \in {"login", "dialog"} => c.who # None /\ c.for = None
       /\ c.kind = "renew" => c.for # None
Lonely(m) == m.pair = None /\ m.user # None
Recorded ==
  (Lonely(store.mem) => blended.tab) /\ (Lonely(store.disk) => blended.copy)
SignedOut ==
  left => /\ store.mem.pair = None /\ page = "login"
          /\ \A c \in calls : c.kind \in Bearing
IInv == TypeOK /\ Known /\ Recorded /\ UserIsOwner /\ RefusedGone /\ SignedOut

(* A login submitted with no other call in flight ends in the console or   *)
(* in a form that can be used again.  A failed call of an earlier page may *)
(* clear the store between the login and its check, and the form stays.    *)
LoginSettles ==
  (busy /\ \E a \in Account : calls = {Sign("login", a)}) ~> ~busy

(* The dialog cannot be dismissed: somebody who goes on signing in gets    *)
(* past it, or leaves, unless the bound on pairs is reached.               *)
DialogCloses ==
  (page = "console" /\ store.mem.loginExpired)
    ~> (page = "login" \/ ~store.mem.loginExpired \/ Drawn = Pair)
=============================================================================
