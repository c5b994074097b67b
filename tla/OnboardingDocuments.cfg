SPECIFICATION Spec
CONSTANTS
  Workers = {w1, w2}
  FormKeys <- MCFormKeys
  ProfileForms <- MCProfileForms
  UploadKinds <- MCUploadKinds
  Extensions <- MCOneExtension
  SubmittedKinds <- MCJustCheque
  ChequeKind = "Void Cheque"
  ChecklistInputs <- MCChecklistInputs
  MaxDocs = 2
  MaxTasks = 1
  Failures = TRUE
SYMMETRY RequestsAreAlike
INVARIANTS VerifiedWasSeen PaperworkFiled
PROPERTIES CustodyKept
