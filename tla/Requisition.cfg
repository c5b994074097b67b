SPECIFICATION Spec
CONSTANTS
  Workers = {w1, w2}
  Approvers <- MCApprovers
  ApproverLists <- MCApproverLists
  MaxEditions = 2
  MaxApplications = 2
  Failures = TRUE
SYMMETRY RequestsAreAlike
INVARIANTS EverUnanimous DecisionsSettle
PROPERTIES PipelineCleared PostingStaysUp

CHECK_DEADLOCK FALSE
