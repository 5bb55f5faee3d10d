# servora-iam, specified

TLA+ modules that model the IAM service of this repository, TLC configurations
that check them on small instances, and TLAPS proofs of the theorems that hold
on every instance.  Paths below are relative to the repository; `internal/`
stands for `app/iam/service/internal/`.

## 1. Inventory

| component | state it keeps | operations | what makes it correct |
|---|---|---|---|
| Refresh-token sessions (`internal/biz/authn.go`, `internal/data/authn.go`) | Redis: `refresh_token:<t>` -> user, `user_tokens:<u>` set | login, refresh, logout, logout everywhere, password change and reset, purge | a token is accepted for one user and never again after it ended; the index holds every live token, or "logout everywhere" misses it; after a password change no session rests on the old password |
| Sign-up, verification, reset (`internal/biz/authn.go`, `internal/data/otp.go`, `internal/service/authn.go`) | Postgres user rows; Redis `iam:<purpose>:<hash>` -> user | sign up, request and consume a mailed token | usernames and emails stay unique whatever races; a mailed token works at most once and only for what it was drawn for; an account can always be verified later |
| User administration (`internal/biz/user.go`, `internal/data/user.go`) | user rows, `deleted_at` | create, update, soft delete, restore, purge | a soft-deleted account keeps its names; restoring never collides |
| OAuth applications (`internal/biz/application.go`, `internal/data/application.go`, `web/iam/src/routes/_app/applications`) | application rows; the secret a page shows once | create, update, delete, regenerate the secret, list page by page; admit a client | the secret shown is the one that works; a client is admitted only as the row allowed it; a reader of the list misses nothing |
| OIDC provider (`internal/data/oidc_storage.go`, `internal/oidc/*.go`) | Redis: authorization requests, codes, access and refresh tokens, with their own times to live | the storage callbacks of the zitadel/oidc library; the login page's completion | a finished request is one a user logged in to; a request or refresh token yields tokens once |
| JWKS client (`pkg/jwks/client.go`) | a verifier and the time it was fetched, behind a read-write lock | `Verifier` | one fetch per expiry, no stale verifier past its time to live, no caller blocked forever |
| Key manager, JWKS endpoints (`pkg/jwks/manager.go`, `endpoints.go`) | keys loaded before serving | read only | - |
| Cap (`pkg/cap/cap.go`) | Redis: `cap:challenge:<t>`, `cap:token:<id>:<hash>` | create and redeem a challenge, validate a token | a challenge is redeemed at most once, a token validated at most once |
| Seeder (`internal/data/seed.go`) | the admin row, the platform tuple | run at start | restarts and concurrent replicas end with one admin |
| Authorization tuples (`internal/data/authz.go`) | OpenFGA tuples and a cache of answers (external) | write or delete, then invalidate | an answer cached before a write is not served after it |
| Servers, service layer, mail | none | routes, conversion, SMTP | - |
| Registration page (`web/iam/src/routes/_auth/register.tsx`, `api.ts`) | the captcha token, the widget, the submission awaited | solve, submit, give up after 30 s | one solved challenge registers one account; the page finds its way back to a new challenge |
| Browser session (`web/iam/src/stores/auth.ts`, `routes/_auth/login.tsx`, `components/login-expired-dialog.tsx`, `layout/app-shell.tsx`, `routes/_app`) | tokens and user in memory and in localStorage, the dialog, calls in flight | log in, role check, log out, renew, reload, navigate, save the profile | the user shown is the one whose tokens are sent; a refusal and a logout last; neither the form nor the dialog traps the user |
| Rest of the web client | tab bar, layout, cursor stack | synchronous, one component each | - |

How they interact: HTTP and gRPC requests run in one goroutine each, in one or
more replicas, and meet only in Postgres and Redis.  Nothing in the service
groups Redis commands in a transaction and no caller uses `RunInEntTx`, so every
command and every statement is a point at which other requests interleave and at
which a request can be broken off.  The web client gives up on a call after 30 s
while its handler runs on, the user repeats it, and answers arrive in any order.

## 2. Plan

Done:

1. `RefreshStore`, `TokenLife`, `Sessions`, `Sessions_proofs`: the core.
2. `RWLock`, `JwksClient`, `JwksClient_proofs`.
3. `Cap`, and its composition with the registration page and the sign-up
   handler, `SignupForm`; `SignupForm_proofs` for both.
4. `Accounts`, `Accounts_proofs`: rows, unique constraints, mailed links, soft
   deletion.
5. `OidcFlow`, `OidcFlow_proofs`: authorization requests, codes, OIDC tokens,
   client credentials.
6. `Seeder`, `Seeder_proofs`.
7. `AuthStore`, `WebSession`, `WebSession_proofs`: the session of the browser.
8. `Applications`, `Applications_proofs`: secrets, deletion and the list, beside
   the clients that ask for tokens.

Every safety property that a run checks is also proved (section 5).

Next:

9. Abstract specifications for what is so far stated by invariants: a mailed
   link (drawn, mailed, used once) that `Accounts` implements, a consumable of
   `OidcFlow` (an authorization request or a refresh token that is answered
   once), each with the step-by-step refinement that `TokenLife` has.

## 3. The modules and the code

Every command to Redis, every SQL statement and every mail is a step; what a
handler does between two of them is part of the step before or after.  A handler
in flight is a record of its locals, its label names the command it is about to
send.  A variable that no code keeps and that only states a property is called a
record in the module's heading.

**`RefreshStore`** - the keys `refresh_token:<t>` and `user_tokens:<u>` and the
commands of `internal/data/authn.go`.  Time is not counted: a token key may
expire at any time, an index only when it carries a time to live and all tokens
that were set when this was last renewed are gone, because both get the same
duration.

**`Sessions`** - `internal/biz/authn.go` over that store: `LoginUser`,
`LoginHash` and `Save*` are `LoginByEmailPassword`; `RefreshGet`, `RefreshUser`,
`Delete*` and `Save*` are `RefreshToken`; `LogoutGet` and `Delete*` are `Logout`;
`LogoutAll`, `ChangePassword`/`ChangeCheck`/`UpdatePassword`, `ResetPassword` and
`Purge` end in `Revoke*`, which is `DeleteUserRefreshTokens`.  A password is its
version, a password is presented right or wrong.  `Fault` is the error path of the command at a
handler's label, `Abandon` a crash or a cancelled request.

**`TokenLife`** - what the store promises of a single token; `Sessions!Life`
maps `owner` to the keys and `ended` to the tokens that are settled and gone.

**`Accounts`** - the users table with its unique constraints
(`internal/data/schema/user.go`), the usecases of `internal/biz/user.go` and the
links of `internal/biz/authn.go` and `internal/data/otp.go`.  A look-up and the
write it decides on are two steps.  An ID is free for a sign-up once, because it
draws a new UUID; an administrator who creates a user may name one.

**`Cap`**, **`SignupForm`** - `pkg/cap/cap.go`; and the page
`web/iam/src/routes/_auth/register.tsx` with `SignupByEmail` of
`internal/service/authn.go` on top.  `SignupForm` EXTENDS `Cap`: its actions are
`Cap`'s actions with what the page or the handler does in the same step.

**`JwksClient`**, **`RWLock`** - `pkg/jwks/client.go` over Go's `sync.RWMutex`,
in which a waiting writer keeps new readers out.

**`OidcFlow`** - `internal/data/oidc_storage.go` and `internal/oidc/login.go`.
The order in which the storage is called, and two checks (the request is done
before it gets a code; a code or refresh token belongs to the client), are the
zitadel/oidc library's and external.  A client that asks for tokens of its own
is their subject and gets no refresh token.

**`Applications`** - `internal/biz/application.go`,
`internal/data/application.go`, the look-ups of clients in
`internal/data/oidc_storage.go` and the page
`web/iam/src/routes/_app/applications/$appId.tsx`.  `RegenerateClientSecret`
draws a secret, `UpdateClientSecretHash` stores it, `Regenerated` is the answer
that reaches the page, `Lost` one that does not.  `GetClientByClientID` and
`AuthorizeClientIDSecret` are the two look-ups for a code or a refresh token,
`ClientCredentials` and `ReadClient` those of a client for itself.  `ListCount`
and `ListPage` are the two statements of `List`, repeated by a reader.

**`AuthStore`**, **`WebSession`** - the functions of
`web/iam/src/stores/auth.ts` as operators on the memory of a tab and on
localStorage, and what calls them: `SubmitLogin`, `LoginAnswered`,
`RoleAnswered`, `RoleFails` and `Refuse` are the login page's `handleSubmit`,
split where it awaits; `SubmitDialog` and `DialogAnswered` the dialog's;
`Mounted`, `UserAnswered` and `Logout` the shell's; `SaveProfile` the profile
page's; `StartRenew`, `Renewed` and `CallFails` are what the request library
does on a 401 with the hooks of `api.ts`.  A promise outlives the page that
made it (`shown` becomes false) and ends with a reload.  Other tabs appear as
writes to localStorage.

**`Seeder`** - `internal/data/seed.go`, called before the servers start, in
several replicas, beside the operations that create, rename and remove the
seeded account.  The instance is configured: without a seed configuration the
seeder does nothing (`seed.go:36-39`), without an OpenFGA client it writes no
tuple (`seed.go:96-98`).

**`MCSessions`**, **`MCAccounts`**, **`MCOidcFlow`**, **`MCApplications`** add
the symmetry sets.

## 4. The runs

| run | instance | what it shows |
|---|---|---|
| `sessions_race` | 1 user, 3 tokens, 2 requests, 1 password change | all interleavings of two operations: a token leaves the index only where `lost` says so (`IndexComplete`); an index never expires under a token (`IndexOutlivesTokens`); what a revocation has passed stays dead (`SnapshotRevoked`), and without overlap everything is dead (`RevokeComplete`); one live token per login (`OnePerLogin`); the store implements `TokenLife` (`LivesOnce`) |
| `sessions_faults` | 1 user, 2 tokens, 2 requests, 1 failure, fair | the same with a failed command or a broken-off request anywhere, and that without overlap or failure nothing leaves the index (`LossNeedsOverlap`); every request returns (`RequestsEnd`), and a revocation that is owed is carried out (`RevocationHappens`) |
| `sessions_accounts` | 2 users, 3 tokens, 1 request, 2 password changes, 1 failure | tokens rest on the present password (`AuthCurrent`); nobody's tokens are deleted on behalf of another user (`OnlyOwnTokensDie`) |
| `accounts` | 2 accounts, 1 name, 2 emails, 2 links, 2 requests, 1 failure | `NamesUnique`, `LinkWorksOnce`, `VerifiedByMail`, `NoLostUpdate` |
| `signup` | 2 challenges, 2 tokens, 2 redemptions, 2 submissions, 1 time-out, fair | a challenge is granted one token and lets one entry through (`OneEntryPerChallenge`), no solution is accepted late (`SolvedInTime`), one challenge buys one account (`OneAccountPerChallenge`), the page never gets stuck (`FormEnds`) |
| `jwks_client` | 2 callers, 5 ticks, 3 key generations, fair | `OneFetch`, `NoNeedlessFetch`, `NeverExpired`, `NeverOlder`, `CallsReturn` |
| `oidc` | 1 request, 2 codes, 3 grants, 2 users, 2 handlers, 1 failure or expiry | tokens are for a user who logged in to that request, also through a refresh, or for a client that asked for its own (`SubjectLoggedIn`); a request and a refresh token are answered once, and are gone afterwards, unless two handlers held them at once (`AnsweredOnce`, `AnsweredGone`) |
| `seeder` | 2 replicas, 3 IDs, 2 failures, 2 changes of the account, fair | `OneAdmin`, `AdminReady`, `AllUp` |
| `web_session` | 1 administrator, 1 other account, 2 pairs of tokens, 2 calls in flight, other tabs, fair | `UserIsOwner`, `RefusedGone`, `LogoutSticks`; the form and the dialog never trap the user (`LoginSettles`, `DialogCloses`) |
| `applications` | 3 applications, 3 secrets, 2 requests, 1 lost answer, pages of 1 row | the secret shown works (`ShownWorks`), a client is admitted only as the row allowed it at some moment (`GrantedAtOnce`), a reader of the list misses nothing while rows come and go (`ListComplete`) |
| `oidc_introspect`, `seeder_again` | smallest instance | a violation each, section 6 |

**Bounds.**  Constants named `Max...` and the sizes of the sets of tokens, links,
codes and grants are bounds of the instances, never of the code.  Two handlers
are what the races here need: every record in question is read by one and
changed by another.  Three tokens are a login, its refresh and an independent
login, or one refresh after another; a third grant is a refresh after two exchanges of one code.
One failure reaches every error path once, and with a second handler what the
others make of it; two in `Seeder`, where a restart follows a failure.  One name and two
emails make two accounts compete for the name while their emails collide or not.
The clock of `signup` passes the end of a challenge and of a token, that of
`jwks_client` two lifetimes of the cache.  A request that would draw a token
beyond the bound does not begin, so no handler is cut off half-way by a bound.
In `web_session` two
pairs are a session and the one that replaces it, by renewal, by another login
or from another tab; two calls are the one that is late and the one it meets.
In `applications` a reader asks for a second page once two rows exist, and the
third row is created, or another deleted, between the two pages, or between a
count and its rows; as many creation times as rows allow every order, and ties.
Three secrets are those of three rows, or of one row and two regenerations that
overlap or follow each other, or of two rows and one regeneration.
The runs without a deadlock check are those in which every ID may be used up or
every process down when the bounds are reached.

**Ghosts in properties.**  Some promises do not hold under all interleavings; they are stated with the
exact exception.  `disturbed` is a user on whose account operations overlapped,
one of them not a login; `lost` collects the tokens that the known steps drop
from the index; `overlapped` in `OidcFlow` is a source that another handler held while
one consumed it; `moved` in `Accounts` an account whose email was changed (which
leaves it verified).  `unsure` in `Applications` is an application whose
regenerations overlapped or were lost.  `list.owed` holds the applications that
were there when the listing began and that it has not had yet; a deleted one is
taken out, and all of them in three cases: a row on a page already read is
deleted, a row is created between the count and the rows of a page that the
count makes the last, although it no longer reaches all rows, or two rows have
one time.  A deletion further on or a creation between two pages is no exception;
`replaced` a client that used its own credentials while its secret was replaced,
and that an update then opened.  `blended` in `WebSession` says that the user and
the tokens of a tab (or of localStorage) may be of two accounts, because an answer came for tokens that were no
longer in the store, somebody else signed in over a session, or another tab wrote one of the keys.  The code has these windows; the runs show that there
are no others.

**Fairness.**  Weak fairness of each handler's own steps, taken together: a
goroutine is scheduled, and every call it makes returns an answer or an error.
It is never assumed of arrivals, failures or expiry.  `JwksClient` assumes in
particular that a fetch ends: `http.Client` without a time-out leaves that to
the connection.  `Seeder` assumes that a replica that is down is started
again, which a Kubernetes Deployment (`manifests/k8s/iam/deployment.yaml`) does.
`SignupForm` assumes a user who keeps clicking the widget and submitting.
`WebSession` assumes that a call is answered or fails, which the 30 s of
`api.ts` see to, and, for `DialogCloses`, that whoever faces the dialog keeps
signing in and does not fail every time.

**Type invariants.**  Every module that specifies a part of the code states one,
and TLAPS proves each of them (section 5).  That of `Sessions` is also checked in
`sessions_faults`; of the others the runs check the properties that say more.

## 5. The proofs

TLAPS checks the following for all values of the constants, from the named
assumptions of the modules: what `NoUser`, `NoToken`, `NoRow`, `None` and the like are
not elements of; that bounds and durations are natural numbers; that lifetimes in
`Cap` are positive, a page of the list has a row, and the applications are finitely many.

The pattern is the same everywhere.  `IInv` of the module says what the state is
between any two steps; `Inductive` (or the lemma of that name) proves `Spec =>
[]IInv` with one step per action; the theorems follow from it, or from a
further invariant that is inductive relative to it.  All parts of every `IInv` and
every companion named below were checked by TLC on the instances of section 4 first.

- `Sessions_proofs`.  `IInv` says beyond types what each handler's locals are at
  each label (`LocalsOK`), that no two requests hold one fresh token (`Distinct`),
  and that every live, handed-over or indexed token has been drawn and is not
  waiting to be set (`KeysOK`).  Without `Distinct` a handler could set a token
  another one has already ended.  From it follow
  `Implements` (`Spec => LivesOnce`: initial states and every step, under the
  refinement mapping of `Life`) and `RevocationSticks` (a token in the snapshot
  of a revocation is settled, so nothing sets it again).  The other properties are proved
  from the *shape* of each action, one lemma per action that says what it does to
  the request of its process and to every variable, and from what no step takes
  back (`NextKept`):
  - `NobodyElses`: the tokens of an index, and those a handler has read from it,
    are of its user or dead (`OwnIndex`), so a revocation deletes its own.
  - `IndexHolds` and `IndexStays`: who holds a token that is not in the index is
    traced from step to step; a time to live covers what was live when it was set, and what is
    handed out has just renewed it.
  - `LossRecorded`, `RevokesAll`: on an account that is not disturbed only logins
    overlap (`Alone`), so what was read from the index is still all of it (`StillWhole`) and
    what was dropped reached no client (`LossKnown`).  `RevokeComplete` is then a
    consequence of `IndexComplete`, `SnapshotRevoked` and these three, with no
    induction of its own.
  - `SessionsCurrent`: the token a login or a refresh holds is already current
    (`AuthHeld`); a revocation that pays the debt of a password change has left
    nothing alive, by `RevokeComplete`.
  - `Rotates`: a token belongs to one user, also while it is only in hand, and so does
    its whole family (`Families`); a request that presents a token has the only live
    one of its family, and has deleted it by the time it hands out the next
    (`OneInHand`).
- `SignupForm_proofs`.  Of `Cap`: `OneEntry` and `InTime`; the strengthening is
  that a challenge is in one place at a time, stored, taken, granted or used up
  (`OnePlace`), and that a record carries the announced time wherever it is
  (`Announced`).  Of the form: `Composes` (every step of the composition is a step
  of `Cap` or leaves its variables alone, so `Cap`'s theorems hold in it),
  `PageTypes` and `OneAccount`: who is about to insert has had a token
  of its challenge found valid, which happens once (`FormSafe`, relative to `Cap`'s
  `IInv`).
- `JwksClient_proofs`: `TypeCorrect`, `FetchAlone`, `NoHerd`, `FreshReturned`,
  `NewReturned`.  Whoever fetches holds the write lock (`FetcherHolds`); the
  cached verifier only grows and is stamped when it is stored (`CacheGrows`).
- `WebSession_proofs`: `TypeCorrect`, `UserOwns`, `RefusalLasts` and
  `LogoutLasts`.  Their `IInv` adds that every pair in use has been handed out, so
  that its owner does not change and a new pair is none of the refused; that a
  user without tokens is on record; and that a tab that was left stays on the
  login page with nothing in flight but calls that carry tokens.  One lemma per
  part of the invariant, one step per action.
- `Applications_proofs`: `TypeCorrect`, `ShownIsStored` and `AdmittedOnce`: a
  secret which is not stored yet is in no row, in no other regeneration and with
  no client (`Fresh`), so that storing it can admit nobody whose first look-up
  was made before; a regeneration nobody disturbed has the secret of the row
  (`Calm`); and what is left of what a client's first look-up saw (`Asked`).
  `ListedWhole` counts: what the reader is owed stands beyond the end of the
  pages read (`Sweep`), because a creation only pushes a row back (`PushedBack`) and
  the deletion of a row beyond that end leaves it beyond (`Ahead`).  That a row's
  place in an order without ties is the number of rows before it is a bijection
  (`Position`); `PageSize` and the number of rows are arbitrary.
- `Accounts_proofs`: `TypeCorrect`, `Unambiguous` (`NamesUnique`), `LinkOnceOnly`,
  `VerifiedMailed` and `UpdatesKeep` (the action property `NoLostUpdate`).  A
  link is stored, in the hands of one request, or used up (`LinkOnce`); nothing
  refers to an ID that was not drawn (`IdsDrawn`); a mail names what its token is stored for, and
  the address of the account unless that was moved (`MailsTrue`); a request that is
  about to verify has used up a link that was mailed (`Verifying`).
- `OidcFlow_proofs`: `TypeCorrect`, `SubjectsEntitled`, `AnswersOnce` and
  `AnsweredStaysGone`.  The user of a handler that issues tokens is entitled to them, and so is
  the user of a grant it starts from (`TasksOK`, `GrantsOK`), which covers chains of
  refreshes of any length; a grant whose refresh token is not stored yet is one
  handler's (`UnstoredOK`); a source that never had two holders is in one hand
  after it is deleted, and in none after it is answered (`ConsumedOnce`).
- `Seeder_proofs`: `TypeCorrect`, `AtMostOneAdmin`, `AdminIsReady`.  Whoever has the tuple
  or is about to get it has held the seeded email; there is one holder at a
  time, and a new one only after a change that `moved` counts (`Held`, `Hands`, a bound on a cardinality);
  each label of a start adds to what is ready (`Ready`).

Only model-checked, because liveness under fairness is out of this prover's reach:
`RequestsEnd` and `RevocationHappens` of `Sessions`, `CallsReturn` of
`JwksClient`, `FormEnds`, `AllUp` of `Seeder`, `LoginSettles` and `DialogCloses` of
`WebSession`.

## 6. What the models found

- `oidc_introspect`: `SetIntrospectionFromToken` never reads the stored record
  of the token, so a token whose record was revoked is still reported active; the
  comment at `internal/data/oidc_storage.go:166` says the record is stored for
  introspection.
- `seeder_again`: the seeder looks the administrator up by the configured email and
  inserts the configured name.  After the administrator changed its email, the
  next start fails on the unique name, while `internal/data/seed.go:34` calls
  every step idempotent.

Seen while modelling, and kept in the models as the code has it:

- The index of a user loses a live token when a `DeleteRefreshToken` rebuilds it
  while a login adds to it, and when a set expires between the `SAdd` and the
  `Expire` of a new token.
- The record of a rotated OIDC refresh token carries no client, so the library
  refuses a second refresh.  `GetRefreshTokenInfo` returns the access token's ID
  as the refresh token's, so a refresh token that is revoked stays, and only the
  record of its access token goes; `RevokeToken` of `OidcFlow` has both outcomes.
- A change of email keeps `email_verified`.
- `RequestPasswordReset` answers with an error when the token cannot be stored or
  the mail cannot be sent, which only happens for an email that belongs to an
  account; the comment at `internal/biz/authn.go:437` says it always succeeds.
- `routes/_auth/login.tsx:139` calls a failed `CurrentUserInfo` non-critical,
  and then refuses the login because no role was read.
- The login page stores the tokens before it checks the role; a reload in between
  leaves an account that is not an administrator in the console.
- The login-expired dialog takes the login of any account and keeps the user of the
  one before, and shows no user when the store had been cleared.  A wrong password
  is a 401 like any other, and a 401 that answers late opens the dialog over
  tokens that work.
- When a failed call of an earlier page clears the store while a login is being
  checked, the guard sends the administrator back to the page it is on, and the
  form stays submitted until the page is left or reloaded; `LoginSettles` is
  stated without such a call.
- Two regenerations of one secret that overlap may be answered in the other
  order than they were stored, and the page shows the one that does not work.
  The page that creates an application drops the secret it is sent, so the
  first secret the console shows is a regenerated one; it asks for no grant
  types either.  Other clients of the API may do both, as `Create` allows.
- A client that uses its own credentials is checked for its secret and then read
  again: if the secret is replaced and the application opened in between, it is
  admitted although the row never allowed it (`replaced`).
- A reader of the list may miss a row when another, on a page already read, is
  deleted, when one is created between the count and the rows of the last page,
  and when two have the same time.
- `removeOtherTabs` and `removeRightTabs` of `stores/tabbar.ts` move the active
  tab without navigating there, unlike `removeTab`, which returns the path to go to.

## 7. Not modelled

The tab bar and the layout store change synchronously, in one component each; the hook
`use-cursor-pagination.ts` has no caller.  In `List` a page beyond 2^31 rows wraps in 32
bits; where depends on the inputs of that one call.
Out of scope: the key manager and the JWKS endpoints (read-only after start),
servers and middleware (an external framework; no state), the conversions of the
service layer, mail rendering and SMTP (I/O; that it fails is in `Accounts`),
authorization tuples (external and uncalled), the sample service, and manifests.

Most of the Go code is generated: messages, validators, transport stubs and the
ent client, some 27,000 lines.  What the ent client does to a row (`Set...`,
`Where`, `Only`, `Count`, the unique constraints of the schema) is part of the
actions that call it; the generated text itself is not translated.  Contents
that decide nothing are abstracted: hashes, signatures, JSON, templates, log
lines, the other fields of a profile or of an application.
