SPECIFICATION Spec
CONSTANTS
  Workers = {w1, w2}
  Cohort = 3
  Lanes = 2
  Staff = {e1, e2}
  Workloads <- MCWorkloads
  MaxEdits = 3
  Failures = TRUE
INVARIANTS CohortServed LettersMatch CourseReviewed
PROPERTIES ApprovalEnds

CHECK_DEADLOCK FALSE
