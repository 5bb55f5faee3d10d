SPECIFICATION Spec
CONSTANTS
  Req = {q1}
  AuthReq = {a1}
  Code = {c1}
  Grant = {g1}
  User = {u1}
  Client = Client
  Nobody = Nobody
  None = None
  MaxFaults = 1
INVARIANT IntrospectionFollowsStore
CHECK_DEADLOCK FALSE
