\* Two fair requests on one account, one failed command or abandoned request.
\* Symmetry is not sound for liveness and is not used.
SPECIFICATION FairSpec
CONSTANTS
  User = {u1}
  Token = {t1, t2}
  Proc = {p1, p2}
  NoUser = NoUser
  NoToken = NoToken
  MaxPw = 1
  MaxFaults = 1
INVARIANTS
  TypeOK
  IndexComplete
  LossNeedsOverlap
PROPERTIES
  RequestsEnd
  RevocationHappens
