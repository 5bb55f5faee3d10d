\* Two fair replicas, two failures, two changes of accounts; symmetry is not
\* sound for liveness and is not used.
SPECIFICATION FairSpec
CONSTANTS
  Replica = {r1, r2}
  Id = {i1, i2, i3}
  NoRow = NoRow
  MaxFaults = 2
  MaxChanges = 2
INVARIANTS OneAdmin AdminReady
PROPERTIES AllUp
CHECK_DEADLOCK FALSE
