SPECIFICATION Spec
CONSTANTS
  Workers = {w1, w2}
  HR = hr
  Team = {p1, p2}
  Workloads <- MCWorkloads
  MaxMoves = 2
  MaxEditions = 1
  Failures = TRUE
SYMMETRY Alike
INVARIANTS MailsMatchMoves DebriefGate
PROPERTIES PurgeSticks

CHECK_DEADLOCK FALSE
