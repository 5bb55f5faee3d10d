----------------------------- MODULE AuthStore -----------------------------
(***************************************************************************)
(* The store of the web client's session (web/iam/src/stores/auth.ts): the *)
(* tokens and the user in the memory of one browser tab, and their copy in *)
(* localStorage, which all tabs of the browser share and read only when    *)
(* they load.  An access token and its refresh token are one pair.  The    *)
(* functions of the module are operators on a store s, the memory of the   *)
(* tab that calls them together with the copy.                             *)
(***************************************************************************)
CONSTANTS
  Pair,      \* token pairs
  Account,
  None       \* null

ASSUME StoreAssumption == None \notin Pair \cup Account

Copy == [pair : Pair \cup {None}, user : Account \cup {None}]
AuthState == [pair : Pair \cup {None}, user : Account \cup {None},
              loginExpired : BOOLEAN]
Store == [disk : Copy, mem : AuthState]

Empty == [pair |-> None, user |-> None]
authStore(disk) ==
  [pair |-> disk.pair, user |-> disk.user, loginExpired |-> FALSE]

setTokens(s, p) ==
  IF s.mem.pair = p
    THEN s
    ELSE [disk |-> [s.disk EXCEPT !.pair = p],
          mem |-> [s.mem EXCEPT !.pair = p, !.loginExpired = FALSE]]

(* Variants: the user is left in the memory, or the tokens in localStorage. *)
clearAuth_Memory(s) ==
  [disk |-> Empty, mem |-> [authStore(Empty) EXCEPT !.user = s.mem.user]]
clearAuth_Disk(s) ==
  [disk |-> [Empty EXCEPT !.pair = s.disk.pair], mem |-> authStore(Empty)]

clearAuth(s) == [disk |-> Empty, mem |-> authStore(Empty)]

setUser(s, u) ==
  [disk |-> [s.disk EXCEPT !.user = u], mem |-> [s.mem EXCEPT !.user = u]]

setLoginExpired(s, b) == [s EXCEPT !.mem.loginExpired = b]

isAuthenticated(s) == s.mem.pair # None
=============================================================================
