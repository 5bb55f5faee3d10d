SPECIFICATION Spec
CONSTANTS
  App = {a1, a2, a3}
  Secret = {s1, s2, s3}
  Req = {q1, q2}
  None = None
  PageSize = 1
  MaxLost = 1
SYMMETRY Symmetry
INVARIANTS ShownWorks GrantedAtOnce ListComplete
CHECK_DEADLOCK FALSE
