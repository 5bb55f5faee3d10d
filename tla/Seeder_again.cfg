SPECIFICATION Spec
CONSTANTS
  Replica = {r1}
  Id = {i1, i2}
  NoRow = NoRow
  MaxFaults = 1
  MaxChanges = 1
INVARIANT StartsAgain
CHECK_DEADLOCK FALSE
