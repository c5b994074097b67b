SPECIFICATION Spec
CONSTANTS
  Workers = {w1, w2}
  FormKeys <- MCFormKeys
  ProfileForms <- MCProfileForms
  UploadKinds <- MCUploadKinds
  Extensions <- MCOneExtension
  SubmittedKinds <- MCSubmittedKinds
  ChequeKind = "Void Cheque"
  ChecklistInputs <- MCChecklistInputs
  MaxDocs = 2
  MaxTasks = 2
  Failures = FALSE
SYMMETRY RequestsAreAlike
INVARIANTS StatusSettled ActiveIsHired
PROPERTIES ActivatedThroughGates
