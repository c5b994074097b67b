--------------------------- MODULE MCOnboardingCase ---------------------------
(* A small preboarding case for TLC: two overlapping requests, two forms   *)
(* (the new-hire form and one other), one upload kind, one document that   *)
(* is generated verified and the void cheque HR has to verify.             *)
EXTENDS OnboardingCase, TLC

MCFormKeys == {"personal", "handbook"}
MCProfileForms == {"personal"}
MCUploadKinds == {"td1-federal"}
MCOneExtension == {"pdf"}
MCSubmittedKinds == <<"New Hire Form", "Void Cheque">>
MCChecklistInputs == {[blocking |-> TRUE, status |-> "Pending"],
                      [blocking |-> FALSE, status |-> "Completed"]}
MCJustCheque == <<"Void Cheque">>

RequestsAreAlike == Permutations(Workers)
===============================================================================
