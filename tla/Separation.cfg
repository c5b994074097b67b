SPECIFICATION Spec
CONSTANTS
  Workers = {w1, w2}
  Days <- MCDays
  Filings <- MCFilings
  Edits <- MCEdits
  MaxLeaves = 1
  BlockingTasks = {t1}
  HandStatuses = {"ACTIVE", "TERMINATED"}
  Failures = TRUE
SYMMETRY RequestsAreAlike
INVARIANTS BypassRecorded
PROPERTIES TerminationJustified
