SPECIFICATION FairSpec
CONSTANTS
  Account = {adm, usr}
  Admin = {adm}
  Pair = {p1, p2}
  None = None
  MaxCalls = 2
INVARIANTS UserIsOwner RefusedGone LogoutSticks
PROPERTIES LoginSettles DialogCloses
CHECK_DEADLOCK FALSE
