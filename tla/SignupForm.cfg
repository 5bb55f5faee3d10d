\* One page, two redemptions and two sign-ups in flight; symmetry is not sound
\* for liveness and is not used.
SPECIFICATION FormFairSpec
CONSTANTS
  Req = {q1, q2}
  Challenge = {ch1, ch2}
  Ticket = {k1, k2}
  Submission = {s1, s2}
  NoChallenge = NoChallenge
  NoTicket = NoTicket
  NoReq = NoReq
  NoSubmission = NoSubmission
  ExpiresIn = 1
  TicketTTL = 1
  MaxTime = 2
  MaxTimeouts = 1
INVARIANTS OneEntryPerChallenge SolvedInTime OneAccountPerChallenge
PROPERTIES FormEnds
CHECK_DEADLOCK FALSE
