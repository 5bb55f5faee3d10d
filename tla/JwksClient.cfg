\* Two fair callers; symmetry is not sound for liveness and is not used.
SPECIFICATION FairSpec
CONSTANTS
  Caller = {c1, c2}
  CacheTTL = 2
  MaxTime = 4
  MaxGen = 3
INVARIANTS OneFetch NeverExpired NeverOlder
PROPERTIES NoNeedlessFetch CallsReturn
