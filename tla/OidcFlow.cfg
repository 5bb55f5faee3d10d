\* Two handlers on one authorization request, two users, two codes, three
\* grants, and one failure or one key that expires.
SPECIFICATION Spec
CONSTANTS
  Req = {q1, q2}
  AuthReq = {a1}
  Code = {c1, c2}
  Grant = {g1, g2, g3}
  User = {u1, u2}
  Client = Client
  Nobody = Nobody
  None = None
  MaxFaults = 1
SYMMETRY Symmetry
INVARIANTS SubjectLoggedIn AnsweredOnce AnsweredGone
CHECK_DEADLOCK FALSE
