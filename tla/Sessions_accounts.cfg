\* Two accounts, two password changes and one failure, one request at a time.
SPECIFICATION Spec
CONSTANTS
  User = {u1, u2}
  Token = {t1, t2, t3}
  Proc = {p1}
  NoUser = NoUser
  NoToken = NoToken
  MaxPw = 2
  MaxFaults = 1
SYMMETRY Symmetry
INVARIANTS
  AuthCurrent
PROPERTIES
  OnlyOwnTokensDie
