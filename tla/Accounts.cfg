\* Two requests on two accounts, one failure.
SPECIFICATION Spec
CONSTANTS
  Req = {q1, q2}
  Id = {i1, i2}
  Name = {n1}
  Email = {e1, e2}
  Otp = {t1, t2}
  NoRow = NoRow
  Keep = Keep
  MaxFaults = 1
SYMMETRY Symmetry
INVARIANTS NamesUnique LinkWorksOnce VerifiedByMail
PROPERTIES NoLostUpdate
CHECK_DEADLOCK FALSE
