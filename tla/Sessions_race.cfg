\* Two requests on one account, every interleaving, no failures.
SPECIFICATION Spec
CONSTANTS
  User = {u1}
  Token = {t1, t2, t3}
  Proc = {p1, p2}
  NoUser = NoUser
  NoToken = NoToken
  MaxPw = 1
  MaxFaults = 0
SYMMETRY Symmetry
INVARIANTS
  IndexComplete
  IndexOutlivesTokens
  SnapshotRevoked
  RevokeComplete
  OnePerLogin
PROPERTIES
  LivesOnce
