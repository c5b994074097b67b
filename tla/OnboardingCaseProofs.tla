------------------------- MODULE OnboardingCaseProofs -------------------------
(* What holds of a preboarding case for any number of requests, forms,      *)
(* documents and checklists.                                                *)
EXTENDS OnboardingCase, TLAPS

(* A generated document has a name of its own among the stored names, so    *)
(* the row a worker carries while it carries none is well-typed.            *)
LEMMA NoRowType == NoRow \in DocRows
BY DEF NoRow, DocRows, DocNames, GeneratedKinds, DocStatus

LEMMA UploadedRowType ==
    ASSUME NEW i \in Nat, NEW name \in UploadKinds \X Extensions
    PROVE  [id |-> i, file |-> i, name |-> name, status |-> "Needs Verification"] \in DocRows
BY DEF DocRows, DocNames, DocStatus

(* generateSubmittedDocuments returns document rows, whose ids follow base. *)
LEMMA SubmittedType ==
    ASSUME NEW base \in Nat
    PROVE  /\ SubmittedDocuments(base) \subseteq DocRows
           /\ \A d \in SubmittedDocuments(base) : d.file = d.id
<1> SUFFICES ASSUME NEW i \in 1..Len(SubmittedKinds)
             PROVE  LET d == [id |-> base + i - 1, file |-> base + i - 1,
                              name |-> <<SubmittedKinds[i], "generated">>,
                              status |-> IF SubmittedKinds[i] = ChequeKind
                                           THEN "Needs Verification" ELSE "Verified"]
                    IN  d \in DocRows /\ d.file = d.id
  BY DEF SubmittedDocuments
<1>1. base + i - 1 \in Nat
  BY ParametersAssumption
<1>2. <<SubmittedKinds[i], "generated">> \in DocNames
  BY DEF DocNames, GeneratedKinds
<1> QED
  BY <1>1, <1>2 DEF DocRows, DocStatus

(* A decision on a document row leaves rows of the same shape. *)
LEMMA SetDocStatusType ==
    ASSUME NEW id, NEW new \in DocStatus, docs \subseteq DocRows, SetDocStatus(id, new)
    PROVE  docs' \subseteq DocRows
BY DEF SetDocStatus, DocRows

(* The status settle derives is a status. *)
LEMMA NextStatusType == status \in CaseStatus => nextStatus \in CaseStatus
BY DEF nextStatus, CaseStatus

LEMMA FilesType ==
    ASSUME NEW rows, rows \subseteq DocRows
    PROVE  FilesVerifiedIn(rows) \subseteq Nat
BY DEF FilesVerifiedIn, DocRows
(* The steps a handler's continuation is built from. *)
LEMMA GotoType ==
    ASSUME RequestTypeOK, NEW w \in Workers, NEW label \in PCs, Goto(w, label)
    PROVE  pc' \in [Workers -> PCs]
BY DEF RequestTypeOK, Goto

LEMMA ForgetType ==
    ASSUME RequestTypeOK, NEW w \in Workers, Forget(w)
    PROVE  /\ snapForms' \in [Workers -> SUBSET FormKeys]
           /\ newStatus' \in [Workers -> CaseStatus]
           /\ row' \in [Workers -> DocRows]
           /\ victims' \in [Workers -> SUBSET Nat]
           /\ copies' \in [Workers -> SUBSET DocRows]
           /\ next' \in [Workers -> {"settle", "idle"}]
BY NoRowType DEF RequestTypeOK, Forget, CaseStatus

LEMMA AnswerType ==
    ASSUME RequestTypeOK, NEW w \in Workers, Answer(w)
    PROVE  RequestTypeOK'
<1>1. pc' \in [Workers -> PCs]
  BY DEF RequestTypeOK, Answer, Goto, PCs
<1> QED
  BY <1>1, ForgetType DEF RequestTypeOK, Answer

LEMMA ThenSettleType ==
    ASSUME RequestTypeOK, NEW w \in Workers, ThenSettle(w)
    PROVE  RequestTypeOK'
<1>1. pc' \in [Workers -> PCs]
  BY DEF RequestTypeOK, ThenSettle, Goto, PCs
<1> QED
  BY <1>1, ForgetType DEF RequestTypeOK, ThenSettle

LEMMA KeepLocalsType ==
    ASSUME RequestTypeOK, NEW w \in Workers, NEW label \in PCs, Goto(w, label),
           UNCHANGED locals
    PROVE  RequestTypeOK'
BY GotoType DEF RequestTypeOK, locals

LEMMA AfterFilingType ==
    ASSUME RequestTypeOK, NEW w \in Workers, AfterFiling(w)
    PROVE  RequestTypeOK'
BY AnswerType, ThenSettleType DEF AfterFiling

(* The requests of one worker, arriving or under way, keep the types: what  *)
(* they write to the case, and what they carry.                             *)
LEMMA RequestStepType ==
    ASSUME TypeOK, NEW w \in Workers, Arrive(w) \/ Handle(w) \/ Die(w)
    PROVE  TypeOK'
<1> USE DEF TypeOK
<1>h. solo' \in BOOLEAN /\ died' \in BOOLEAN
  BY DEF Arrive, Handle, Die, CaseTypeOK
<1>1. CASE SettleRead(w)
  <2>1. CaseTypeOK'
    BY <1>1, <1>h DEF SettleRead, CaseTypeOK, case, ids
  <2>2. RequestTypeOK'
    BY <1>1, AnswerType, NextStatusType DEF SettleRead, CaseTypeOK, RequestTypeOK, Goto, PCs
  <2> QED
    BY <2>1, <2>2
<1>2. CASE SetStatus(w)
  <2>1. CaseTypeOK'
    BY <1>2, <1>h DEF SetStatus, CaseTypeOK, RequestTypeOK, ids
  <2>2. RequestTypeOK'
    BY <1>2, AnswerType DEF SetStatus
  <2> QED
    BY <2>1, <2>2
<1>3. CASE MarkFormRead(w)
  <2>1. CaseTypeOK'
    BY <1>3, <1>h DEF MarkFormRead, CaseTypeOK, case, ids
  <2>2. RequestTypeOK'
    BY <1>3 DEF MarkFormRead, CaseTypeOK, RequestTypeOK, Goto, PCs
  <2> QED
    BY <2>1, <2>2
<1>4. CASE MarkFormWrite(w)
  <2>1. CaseTypeOK'
    BY <1>4, <1>h DEF MarkFormWrite, CaseTypeOK, RequestTypeOK, ids
  <2>2. RequestTypeOK'
    BY <1>4, ThenSettleType DEF MarkFormWrite
  <2> QED
    BY <2>1, <2>2
<1>5. CASE SubmitProfileRead(w)
  <2>1. CaseTypeOK'
    BY <1>5, <1>h DEF SubmitProfileRead, CaseTypeOK, case, ids
  <2>2. RequestTypeOK'
    BY <1>5 DEF SubmitProfileRead, CaseTypeOK, RequestTypeOK, Goto, PCs
  <2> QED
    BY <2>1, <2>2
<1>6. CASE SubmitProfileWrite(w)
  <2>1. CaseTypeOK'
    BY <1>6, <1>h, ParametersAssumption DEF SubmitProfileWrite, CaseTypeOK, RequestTypeOK, ids
  <2>2. RequestTypeOK'
    BY <1>6, ThenSettleType DEF SubmitProfileWrite
  <2> QED
    BY <2>1, <2>2
<1>7. CASE UploadRead(w)
  <2>1. CaseTypeOK'
    <3>1. nextDoc \in Nat
      BY DEF CaseTypeOK
    <3>2. nextDoc' = nextDoc + 1
      BY <1>7 DEF UploadRead
    <3>3. nextDoc' \in Nat
      BY <3>1, <3>2
    <3> QED
      BY <1>7, <1>h, <3>3 DEF UploadRead, CaseTypeOK, case
  <2>2. RequestTypeOK'
    <3>1. pc' \in [Workers -> PCs]
      BY <1>7, GotoType DEF UploadRead, PCs
    <3>2. nextDoc \in Nat
      BY DEF CaseTypeOK
    <3>3. PICK name \in UploadKinds \X Extensions :
            row' = [row EXCEPT ![w] = [id |-> nextDoc, file |-> nextDoc,
                                       name |-> name, status |-> "Needs Verification"]]
      BY <1>7 DEF UploadRead
    <3>4. row \in [Workers -> DocRows]
      BY DEF RequestTypeOK
    <3>5. row' \in [Workers -> DocRows]
      BY <3>2, <3>3, <3>4, UploadedRowType
    <3> QED
      BY <1>7, <3>1, <3>5 DEF UploadRead, RequestTypeOK
  <2> QED
    BY <2>1, <2>2
<1>8. CASE UploadDelete(w)
  <2>1. CaseTypeOK'
    BY <1>8, <1>h DEF UploadDelete, CaseTypeOK, case, ids
  <2>2. RequestTypeOK'
    BY <1>8 DEF UploadDelete, CaseTypeOK, RequestTypeOK, Goto, PCs, DocRows
  <2> QED
    BY <2>1, <2>2
<1>9. CASE UploadCommit(w)
  <2>1. CaseTypeOK'
    BY <1>9, <1>h DEF UploadCommit, CaseTypeOK, RequestTypeOK, ids, Show, Surviving, DocRows
  <2>2. RequestTypeOK'
    BY <1>9, ThenSettleType DEF UploadCommit
  <2> QED
    BY <2>1, <2>2
<1>10. CASE FinalizeRead(w)
  <2>1. CaseTypeOK'
    <3>1. nextDoc \in Nat /\ Len(SubmittedKinds) \in Nat
      BY ParametersAssumption DEF CaseTypeOK
    <3>2. nextDoc' = nextDoc + Len(SubmittedKinds)
      BY <1>10 DEF FinalizeRead
    <3>3. nextDoc' \in Nat
      BY <3>1, <3>2
    <3> QED
      BY <1>10, <1>h, <3>3 DEF FinalizeRead, CaseTypeOK, case
  <2>2. RequestTypeOK'
    BY <1>10 DEF FinalizeRead, CaseTypeOK, RequestTypeOK, Goto, PCs, DocRows
  <2> QED
    BY <2>1, <2>2
<1>11. CASE FinalizeDelete(w)
  <2>1. CaseTypeOK'
    BY <1>11, <1>h DEF FinalizeDelete, CaseTypeOK, case, ids
  <2>2. RequestTypeOK'
    BY <1>11 DEF FinalizeDelete, CaseTypeOK, RequestTypeOK, Goto, PCs, DocRows
  <2> QED
    BY <2>1, <2>2
<1>12. CASE FinalizeCommit(w)
  <2>1. CaseTypeOK'
    <3> DEFINE generated == SubmittedDocuments(row[w].id)
    <3>1. row[w].id \in Nat
      BY DEF RequestTypeOK, DocRows
    <3>2. generated \subseteq DocRows
      BY <3>1, SubmittedType
    <3>3. FilesVerifiedIn(generated) \subseteq Nat
      BY <3>2, FilesType
    <3>4. docs' \subseteq DocRows
      BY <1>12, <3>2 DEF FinalizeCommit, CaseTypeOK, Surviving
    <3>5. shown' \subseteq [id : Nat, file : Nat]
      BY <1>12, <3>4 DEF FinalizeCommit, CaseTypeOK, Show, DocRows
    <3> QED
      BY <1>12, <1>h, <3>3, <3>4, <3>5 DEF FinalizeCommit, CaseTypeOK, ids
  <2>2. RequestTypeOK'
    BY <1>12, KeepLocalsType DEF FinalizeCommit, PCs
  <2> QED
    BY <2>1, <2>2
<1>13. CASE FinalizeStatus(w)
  <2>1. CaseTypeOK'
    BY <1>13, <1>h DEF FinalizeStatus, CaseTypeOK, CaseStatus, ids
  <2>2. RequestTypeOK'
    BY <1>13, ThenSettleType DEF FinalizeStatus
  <2> QED
    BY <2>1, <2>2
<1>14. CASE VerifyDocument(w)
  <2>1. CaseTypeOK'
    BY <1>14, <1>h, SetDocStatusType DEF VerifyDocument, CaseTypeOK, DocStatus, ids
  <2>2. RequestTypeOK'
    BY <1>14, KeepLocalsType DEF VerifyDocument, PCs
  <2> QED
    BY <2>1, <2>2
<1>15. CASE VerifyRead(w)
  <2>1. CaseTypeOK'
    BY <1>15, <1>h DEF VerifyRead, CaseTypeOK, case, ids
  <2>2. RequestTypeOK'
    BY <1>15, ThenSettleType DEF VerifyRead, RequestTypeOK, Goto, PCs
  <2> QED
    BY <2>1, <2>2
<1>16. CASE RejectDocument(w)
  <2>1. CaseTypeOK'
    BY <1>16, <1>h, SetDocStatusType DEF RejectDocument, CaseTypeOK, DocStatus, ids
  <2>2. RequestTypeOK'
    BY <1>16, ThenSettleType DEF RejectDocument
  <2> QED
    BY <2>1, <2>2
<1>17. CASE SetTaskStatus(w)
  <2>1. CaseTypeOK'
    BY <1>17, <1>h DEF SetTaskStatus, CaseTypeOK, TaskRows, ids
  <2>2. RequestTypeOK'
    BY <1>17, ThenSettleType DEF SetTaskStatus
  <2> QED
    BY <2>1, <2>2
<1>18. CASE DeleteTask(w)
  <2>1. CaseTypeOK'
    BY <1>18, <1>h DEF DeleteTask, CaseTypeOK, ids
  <2>2. RequestTypeOK'
    BY <1>18, ThenSettleType DEF DeleteTask
  <2> QED
    BY <2>1, <2>2
<1>19. CASE ChecklistDelete(w)
  <2>1. CaseTypeOK'
    BY <1>19, <1>h DEF ChecklistDelete, CaseTypeOK, case
  <2>2. RequestTypeOK'
    BY <1>19 DEF ChecklistDelete, CaseTypeOK, RequestTypeOK, Goto, PCs, DocRows, TaskRows
  <2> QED
    BY <2>1, <2>2
<1>20. CASE ChecklistCommit(w)
  <2>1. CaseTypeOK'
    BY <1>20, <1>h, ParametersAssumption DEF ChecklistCommit, CaseTypeOK, RequestTypeOK, TaskRows, TaskStatus, DocRows, ids
  <2>2. RequestTypeOK'
    BY <1>20, ThenSettleType DEF ChecklistCommit
  <2> QED
    BY <2>1, <2>2
<1>21. CASE TouchCase(w)
  <2>1. CaseTypeOK'
    BY <1>21, <1>h DEF TouchCase, CaseTypeOK, case, ids
  <2>2. RequestTypeOK'
    BY <1>21, ThenSettleType DEF TouchCase
  <2> QED
    BY <2>1, <2>2
<1>22. CASE ActivateRead(w)
  <2>1. CaseTypeOK'
    BY <1>22, <1>h DEF ActivateRead, CaseTypeOK, case, ids
  <2>2. RequestTypeOK'
    BY <1>22, KeepLocalsType DEF ActivateRead, PCs
  <2> QED
    BY <2>1, <2>2
<1>23. CASE ActivateStatus(w)
  <2>1. CaseTypeOK'
    BY <1>23, <1>h DEF ActivateStatus, CaseTypeOK, CaseStatus, ids
  <2>2. RequestTypeOK'
    BY <1>23, KeepLocalsType DEF ActivateStatus, PCs
  <2> QED
    BY <2>1, <2>2
<1>24. CASE ActivateHire(w)
  <2>1. CaseTypeOK'
    BY <1>24, <1>h DEF ActivateHire, CaseTypeOK, ids
  <2>2. RequestTypeOK'
    BY <1>24, KeepLocalsType DEF ActivateHire, PCs
  <2> QED
    BY <2>1, <2>2
<1>25. CASE Heal(w)
  <2>1. CaseTypeOK'
    BY <1>25, <1>h DEF Heal, CaseTypeOK, ids
  <2>2. RequestTypeOK'
    BY <1>25, KeepLocalsType, AnswerType DEF Heal, PCs
  <2> QED
    BY <2>1, <2>2
<1>26. CASE PublishDocs(w)
  <2>1. CaseTypeOK'
    BY <1>26, <1>h DEF PublishDocs, CaseTypeOK, case, ids
  <2>2. RequestTypeOK'
    BY <1>26, AfterFilingType DEF PublishDocs, CaseTypeOK, RequestTypeOK, Goto, PCs
  <2> QED
    BY <2>1, <2>2
<1>27. CASE PublishHave(w)
  <2>1. CaseTypeOK'
    BY <1>27, <1>h DEF PublishHave, CaseTypeOK, case, ids
  <2>2. RequestTypeOK'
    BY <1>27 DEF PublishHave, RequestTypeOK, Goto, PCs
  <2> QED
    BY <2>1, <2>2
<1>28. CASE PublishFile(w)
  <2>1. CaseTypeOK'
    BY <1>28, <1>h DEF PublishFile, CaseTypeOK, RequestTypeOK, DocRows, VaultRows, ids
  <2>2. RequestTypeOK'
    BY <1>28, AfterFilingType DEF PublishFile, RequestTypeOK
  <2> QED
    BY <2>1, <2>2
<1>29. CASE Die(w)
  <2>1. CaseTypeOK'
    BY <1>29, <1>h DEF Die, CaseTypeOK, case, ids
  <2>2. RequestTypeOK'
    BY <1>29, AnswerType DEF Die
  <2> QED
    BY <2>1, <2>2
<1> QED
  BY <1>1, <1>2, <1>3, <1>4, <1>5, <1>6, <1>7, <1>8, <1>9, <1>10, <1>11, <1>12, <1>13, <1>14, <1>15, <1>16, <1>17, <1>18, <1>19, <1>20, <1>21, <1>22, <1>23, <1>24, <1>25, <1>26, <1>27, <1>28, <1>29 DEF Arrive, Handle

LEMMA TypeInit == Init => TypeOK
<1> SUFFICES ASSUME Init PROVE TypeOK
  OBVIOUS
<1>1. tasks \subseteq TaskRows
  BY DEF Init, TaskRows, TaskStatus
<1>2. nextDoc \in Nat /\ nextTask \in Nat
  BY DEF Init
<1>3. CaseTypeOK
  BY <1>1, <1>2 DEF Init, CaseTypeOK, CaseStatus
<1>4. RequestTypeOK
  BY NoRowType DEF Init, RequestTypeOK, CaseStatus, PCs
<1> QED
  BY <1>3, <1>4 DEF TypeOK

LEMMA TypeStep == TypeOK /\ [Next]_vars => TypeOK'
<1> SUFFICES ASSUME TypeOK, [Next]_vars PROVE TypeOK'
  OBVIOUS
<1>1. CASE AcceptInvite /\ UNCHANGED <<solo, died>>
  BY <1>1 DEF AcceptInvite, TypeOK, CaseTypeOK, RequestTypeOK, ids, locals
<1>2. ASSUME NEW w \in Workers, Arrive(w) \/ Handle(w) \/ Die(w) PROVE TypeOK'
  BY <1>2, RequestStepType
<1>3. CASE UNCHANGED vars
  BY <1>3 DEF vars, case, ids, locals, TypeOK, CaseTypeOK, RequestTypeOK
<1> QED
  BY <1>1, <1>2, <1>3 DEF Next

(* TypeOK holds throughout, whatever the requests do. *)
THEOREM TypeCorrect == Spec => []TypeOK
BY TypeInit, TypeStep, PTL DEF Spec
-------------------------------------------------------------------------------
(* Why only vouched-for paperwork is filed.  Every document row is created   *)
(* with its file and never given another, so the id HR decides on names the  *)
(* file HR saw; a request that is about to store an upload carries it        *)
(* unverified, and one that is filing carries approved files only.           *)

RowsKeepTheirFile ==
    /\ \A d \in docs : d.file = d.id
    /\ \A s \in shown : s.file = s.id

UploadsUnverified ==
    \A w \in Workers : pc[w] \in {"upload.delete", "upload.commit"} =>
        row[w].file = row[w].id /\ row[w].status = "Needs Verification"

CopiesApproved == \A w \in Workers : \A d \in copies[w] : d.file \in approved

VaultApproved == \A v \in vault : v.file \in approved

CustodyInv ==
    /\ TypeOK
    /\ RowsKeepTheirFile
    /\ UploadsUnverified
    /\ CopiesApproved
    /\ VaultApproved
    /\ VerifiedWasSeen

(* Which requests touch the documents, and which the vault. *)
LEMMA WhoTouchesDocuments ==
    ASSUME NEW w \in Workers, Arrive(w) \/ Handle(w) \/ Die(w)
    PROVE  \/ UploadCommit(w) \/ FinalizeCommit(w) \/ VerifyDocument(w) \/ RejectDocument(w)
           \/ UNCHANGED <<docs, shown, approved>>
<1>1. CASE Arrive(w)
  BY <1>1 DEF Arrive, case, MarkFormRead, SubmitProfileRead, UploadRead, FinalizeRead,
     SetTaskStatus, DeleteTask, ChecklistDelete, TouchCase, ActivateRead
<1>2. CASE Handle(w)
  BY <1>2 DEF Handle, case, SettleRead, SetStatus, MarkFormWrite, SubmitProfileWrite,
     UploadDelete, FinalizeDelete, FinalizeStatus, VerifyRead, ChecklistCommit,
     ActivateStatus, ActivateHire, Heal, PublishDocs, PublishHave, PublishFile
<1>3. CASE Die(w)
  BY <1>3 DEF Die, case
<1> QED
  BY <1>1, <1>2, <1>3

LEMMA WhoTouchesVault ==
    ASSUME NEW w \in Workers, Arrive(w) \/ Handle(w) \/ Die(w)
    PROVE  PublishFile(w) \/ UNCHANGED vault
<1>1. CASE Arrive(w)
  BY <1>1 DEF Arrive, case, MarkFormRead, SubmitProfileRead, UploadRead, FinalizeRead,
     VerifyDocument, RejectDocument, SetTaskStatus, DeleteTask, ChecklistDelete,
     TouchCase, ActivateRead
<1>2. CASE Handle(w)
  BY <1>2 DEF Handle, case, SettleRead, SetStatus, MarkFormWrite, SubmitProfileWrite,
     UploadDelete, UploadCommit, FinalizeDelete, FinalizeCommit, FinalizeStatus,
     VerifyRead, ChecklistCommit, ActivateStatus, ActivateHire, Heal, PublishDocs,
     PublishHave
<1>3. CASE Die(w)
  BY <1>3 DEF Die, case
<1> QED
  BY <1>1, <1>2, <1>3

(* No request withdraws an approval. *)
LEMMA ApprovalStands ==
    ASSUME NEW w \in Workers, Arrive(w) \/ Handle(w) \/ Die(w)
    PROVE  approved \subseteq approved'
BY WhoTouchesDocuments DEF UploadCommit, FinalizeCommit, VerifyDocument, RejectDocument

(* What a request carries when it is filing or uploading, by what its next  *)
(* step does with its locals.                                               *)
LEMMA WhoTouchesLocals ==
    ASSUME NEW w \in Workers, Arrive(w) \/ Handle(w) \/ Die(w)
    PROVE  \/ UploadRead(w) \/ UploadDelete(w) \/ PublishDocs(w) \/ PublishHave(w)
           \/ PublishFile(w) \/ FinalizeRead(w) \/ ChecklistDelete(w)
           \/ Answer(w) \/ ThenSettle(w)
           \/ /\ UNCHANGED <<row, copies>>
              /\ \E label \in PCs \ {"upload.delete", "upload.commit"} : Goto(w, label)
<1>1. CASE Arrive(w)
  BY <1>1 DEF Arrive, PCs, locals, MarkFormRead, SubmitProfileRead, VerifyDocument,
     RejectDocument, SetTaskStatus, DeleteTask, TouchCase, ActivateRead
<1>2. CASE Handle(w)
  BY <1>2 DEF Handle, PCs, locals, SettleRead, SetStatus, MarkFormWrite,
     SubmitProfileWrite, UploadCommit, FinalizeDelete, FinalizeCommit, FinalizeStatus,
     VerifyRead, ChecklistCommit, ActivateStatus, ActivateHire, Heal
<1>3. CASE Die(w)
  BY <1>3 DEF Die
<1> QED
  BY <1>1, <1>2, <1>3
(* Storing, generating, verifying and rejecting keep every row on its file  *)
(* and let no file be verified that nobody saw.                             *)
LEMMA DocumentsStep ==
    ASSUME CustodyInv, NEW w \in Workers, Arrive(w) \/ Handle(w) \/ Die(w)
    PROVE  RowsKeepTheirFile' /\ VerifiedWasSeen'
<1> USE DEF RowsKeepTheirFile, VerifiedWasSeen, FilesVerifiedIn
<1>0. /\ \A d \in docs : d.file = d.id /\ (d.status = "Verified" => d.file \in approved)
      /\ \A s \in shown : s.file = s.id
  BY DEF CustodyInv
<1>s. Show(docs') /\ (\A d \in docs' : d.file = d.id) => \A s \in shown' : s.file = s.id
  BY <1>0 DEF Show
<1>1. CASE UploadCommit(w)
  <2>1. row[w].file = row[w].id /\ row[w].status = "Needs Verification"
    BY <1>1 DEF CustodyInv, UploadsUnverified, UploadCommit, AtAwait
  <2>2. docs' \subseteq docs \union {row[w]} /\ Show(docs') /\ UNCHANGED approved
    BY <1>1 DEF UploadCommit, Surviving
  <2>3. \A d \in docs' : d.file = d.id /\ (d.status = "Verified" => d.file \in approved')
    BY <1>0, <2>1, <2>2
  <2> QED
    BY <1>s, <2>2, <2>3
<1>2. CASE FinalizeCommit(w)
  <2> DEFINE generated == SubmittedDocuments(row[w].id)
  <2>1. \A d \in generated : d.file = d.id
    <3>1. row[w].id \in Nat
      BY DEF CustodyInv, TypeOK, RequestTypeOK, DocRows
    <3> QED
      BY <3>1, SubmittedType
  <2>2. docs' \subseteq docs \union generated /\ Show(docs')
    BY <1>2 DEF FinalizeCommit, Surviving
  <2>3. \A d \in generated : d.status = "Verified" => d.file \in approved'
    BY <1>2 DEF FinalizeCommit
  <2>4. \A d \in docs' : d.file = d.id /\ (d.status = "Verified" => d.file \in approved')
    <3>1. approved \subseteq approved'
      BY ApprovalStands
    <3> HIDE DEF generated
    <3> QED
      BY <1>0, <2>1, <2>2, <2>3, <3>1
  <2> QED
    BY <1>s, <2>2, <2>4
<1>3. CASE VerifyDocument(w)
  <2>1. PICK seen \in shown :
          /\ docs' = {IF d.id = seen.id THEN [d EXCEPT !.status = "Verified"] ELSE d : d \in docs}
          /\ approved' = approved \union {seen.file}
          /\ UNCHANGED shown
    BY <1>3 DEF VerifyDocument, SetDocStatus
  <2>2. docs \subseteq DocRows
    BY DEF CustodyInv, TypeOK, CaseTypeOK
  <2>3. \A d \in docs : d.id = seen.id => d.file \in approved'
    BY <1>0, <2>1
  <2>4. \A d \in docs' : d.file = d.id /\ (d.status = "Verified" => d.file \in approved')
    BY <1>0, <2>1, <2>2, <2>3 DEF DocRows
  <2> QED
    BY <1>0, <2>1, <2>4
<1>4. CASE RejectDocument(w)
  <2>1. PICK r \in docs :
          /\ docs' = {IF d.id = r.id THEN [d EXCEPT !.status = "Pending"] ELSE d : d \in docs}
          /\ UNCHANGED <<shown, approved>>
    BY <1>4 DEF RejectDocument, SetDocStatus
  <2>2. docs \subseteq DocRows
    BY DEF CustodyInv, TypeOK, CaseTypeOK
  <2>3. \A d \in docs' : d.file = d.id /\ (d.status = "Verified" => d.file \in approved')
    BY <1>0, <2>1, <2>2 DEF DocRows
  <2> QED
    BY <1>0, <2>1, <2>3
<1>5. CASE UNCHANGED <<docs, shown, approved>>
  BY <1>0, <1>5
<1> QED
  BY <1>1, <1>2, <1>3, <1>4, <1>5, WhoTouchesDocuments

(* A request about to store an upload carries the row it made unverified.   *)
LEMMA UploadsStep ==
    ASSUME CustodyInv, NEW w \in Workers, Arrive(w) \/ Handle(w) \/ Die(w)
    PROVE  UploadsUnverified'
<1> USE DEF UploadsUnverified
<1>0. pc \in [Workers -> PCs] /\ row \in [Workers -> DocRows] /\ UploadsUnverified
  BY DEF CustodyInv, TypeOK, RequestTypeOK
<1>1. CASE UploadRead(w)
  <2>1. PICK name \in UploadKinds \X Extensions :
          row' = [row EXCEPT ![w] = [id |-> nextDoc, file |-> nextDoc,
                                     name |-> name, status |-> "Needs Verification"]]
    BY <1>1 DEF UploadRead
  <2>2. pc' = [pc EXCEPT ![w] = "upload.delete"]
    BY <1>1 DEF UploadRead, Goto
  <2> QED
    BY <1>0, <2>1, <2>2
<1>2. CASE UploadDelete(w)
  BY <1>0, <1>2 DEF UploadDelete, AtAwait, Goto
<1>3. CASE PublishDocs(w) \/ PublishHave(w) \/ PublishFile(w)
  BY <1>0, <1>3 DEF PublishDocs, PublishHave, PublishFile, AtAwait, AfterFiling, Goto,
     Answer, ThenSettle, Forget
<1>4. CASE FinalizeRead(w) \/ ChecklistDelete(w)
  BY <1>0, <1>4 DEF FinalizeRead, ChecklistDelete, Goto
<1>5. CASE Answer(w) \/ ThenSettle(w)
  BY <1>0, <1>5 DEF Answer, ThenSettle, Goto, Forget
<1>6. CASE /\ UNCHANGED <<row, copies>>
           /\ \E label \in PCs \ {"upload.delete", "upload.commit"} : Goto(w, label)
  BY <1>0, <1>6 DEF Goto
<1> QED
  BY <1>1, <1>2, <1>3, <1>4, <1>5, <1>6, WhoTouchesLocals

(* What a request is about to file was verified when it read the case, and  *)
(* no approval is withdrawn.                                                *)
LEMMA CopiesStep ==
    ASSUME CustodyInv, NEW w \in Workers, Arrive(w) \/ Handle(w) \/ Die(w)
    PROVE  CopiesApproved'
<1> USE DEF CopiesApproved
<1>0. copies \in [Workers -> SUBSET DocRows] /\ CopiesApproved
  BY DEF CustodyInv, TypeOK, RequestTypeOK
<1>a. approved \subseteq approved'
  BY ApprovalStands
<1>1. CASE PublishDocs(w)
  <2>1. \A d \in docs : d.status = "Verified" => d.file \in approved
    BY DEF CustodyInv, VerifiedWasSeen, FilesVerifiedIn
  <2> QED
    BY <1>0, <1>a, <1>1, <2>1 DEF PublishDocs, AfterFiling, Answer, ThenSettle, Forget
<1>2. CASE PublishHave(w) \/ PublishFile(w)
  BY <1>0, <1>a, <1>2 DEF PublishHave, PublishFile, AfterFiling, Answer, ThenSettle, Forget
<1>3. CASE UploadRead(w) \/ UploadDelete(w) \/ FinalizeRead(w) \/ ChecklistDelete(w)
  BY <1>0, <1>a, <1>3 DEF UploadRead, UploadDelete, FinalizeRead, ChecklistDelete
<1>4. CASE Answer(w) \/ ThenSettle(w)
  BY <1>0, <1>a, <1>4 DEF Answer, ThenSettle, Forget
<1>5. CASE UNCHANGED <<row, copies>>
  BY <1>0, <1>a, <1>5
<1> QED
  BY <1>1, <1>2, <1>3, <1>4, <1>5, WhoTouchesLocals

LEMMA VaultStep ==
    ASSUME CustodyInv, NEW w \in Workers, Arrive(w) \/ Handle(w) \/ Die(w)
    PROVE  VaultApproved'
<1>a. approved \subseteq approved' /\ VaultApproved /\ CopiesApproved
  BY ApprovalStands DEF CustodyInv
<1>1. CASE PublishFile(w)
  BY <1>a, <1>1 DEF PublishFile, VaultApproved, CopiesApproved
<1> QED
  BY <1>a, <1>1, WhoTouchesVault DEF VaultApproved

LEMMA CustodyInduction == Spec => []CustodyInv
<1>1. Init => CustodyInv
  <2>1. Init => TypeOK
    BY TypeInit
  <2> QED
    BY <2>1 DEF Init, CustodyInv, RowsKeepTheirFile, UploadsUnverified, CopiesApproved,
       VaultApproved, VerifiedWasSeen, FilesVerifiedIn
<1>2. CustodyInv /\ [Next]_vars => CustodyInv'
  <2> SUFFICES ASSUME CustodyInv, [Next]_vars PROVE CustodyInv'
    OBVIOUS
  <2>1. TypeOK'
    BY TypeStep DEF CustodyInv
  <2>2. ASSUME NEW w \in Workers, Arrive(w) \/ Handle(w) \/ Die(w) PROVE CustodyInv'
    BY <2>1, <2>2, DocumentsStep, UploadsStep, CopiesStep, VaultStep DEF CustodyInv
  <2>3. CASE UNCHANGED <<docs, shown, approved, vault, pc, row, copies>>
    BY <2>1, <2>3 DEF CustodyInv, RowsKeepTheirFile, UploadsUnverified, CopiesApproved,
       VaultApproved, VerifiedWasSeen, FilesVerifiedIn
  <2>4. CASE AcceptInvite
    BY <2>3, <2>4 DEF AcceptInvite, locals
  <2>5. CASE UNCHANGED vars
    BY <2>3, <2>5 DEF vars, case, locals
  <2> QED
    BY <2>2, <2>4, <2>5 DEF Next
<1> QED
  BY <1>1, <1>2, PTL DEF Spec

(* Every verified document holds a file somebody saw when deciding, however *)
(* re-uploads, rejections and regenerations overlap with the decision.      *)
THEOREM VerifiedWasSeenAlways == Spec => []VerifiedWasSeen
BY CustodyInduction, PTL DEF CustodyInv

(* Onboarding keeps the custody of paperwork that DocumentCustody promises. *)
THEOREM CustodyImplemented == Spec => CustodyKept
<1> DEFINE filed == {v.file : v \in vault}
<1>1. Init => Custody!Init
  BY DEF Init, Custody!Init
<1>2. CustodyInv /\ CustodyInv' /\ [Next]_vars => [Custody!Next]_(Custody!custody)
  <2> SUFFICES ASSUME CustodyInv, [Next]_vars
               PROVE  Custody!Next \/ UNCHANGED <<approved, filed>>
    BY DEF Custody!custody
  <2>1. ASSUME NEW w \in Workers, Arrive(w) \/ Handle(w) \/ Die(w)
        PROVE  Custody!Next \/ UNCHANGED <<approved, filed>>
    <3>1. CASE UNCHANGED vault
      BY <2>1, <3>1, ApprovalStands DEF Custody!Next, Custody!Approve
    <3>2. CASE PublishFile(w) /\ ~UNCHANGED vault
      <4>1. PICK d \in copies[w] :
              vault' = vault \union {[file |-> d.file, name |-> d.name, by |-> w]}
        BY <3>2 DEF PublishFile
      <4> DEFINE copy == [file |-> d.file, name |-> d.name, by |-> w]
      <4>a. vault' = vault \union {copy} /\ copy.file = d.file
        BY <4>1
      <4>2. d.file \in approved /\ UNCHANGED approved
        BY <3>2, <4>1 DEF CustodyInv, CopiesApproved, PublishFile
      <4>3. filed' = filed \union {d.file}
        <5> HIDE DEF copy
        <5> QED
          BY <4>a
      <4> QED
        BY <4>2, <4>3 DEF Custody!Next, Custody!File
    <3> QED
      BY <2>1, <3>1, <3>2, WhoTouchesVault
  <2>2. CASE AcceptInvite \/ UNCHANGED vars
    BY <2>2 DEF AcceptInvite, vars, case
  <2> QED
    BY <2>1, <2>2 DEF Next
<1> QED
  BY <1>1, <1>2, CustodyInduction, PTL DEF Spec, CustodyKept, Custody!Spec

(* Nothing reaches the vault that nobody vouched for. *)
THEOREM OnlyApprovedFiled == Spec => []Custody!OnlyApproved
<1>1. CustodyInv => Custody!OnlyApproved
  BY DEF CustodyInv, VaultApproved, Custody!OnlyApproved
<1> QED
  BY <1>1, CustodyInduction, PTL
-------------------------------------------------------------------------------
(***************************************************************************)
(* Where a request goes, and what of it its step leaves alone.             *)
(***************************************************************************)
LEMMA GotoAt ==
    ASSUME TypeOK, NEW w \in Workers, NEW label, Goto(w, label)
    PROVE  pc'[w] = label /\ \A v \in Workers \ {w} : pc'[v] = pc[v]
BY DEF TypeOK, RequestTypeOK, Goto

LEMMA ForgetAt ==
    ASSUME TypeOK, NEW w \in Workers, Forget(w)
    PROVE  /\ newStatus'[w] = "Invited" /\ copies'[w] = {}
           /\ \A v \in Workers \ {w} :
                /\ snapForms'[v] = snapForms[v] /\ newStatus'[v] = newStatus[v]
                /\ copies'[v] = copies[v] /\ next'[v] = next[v]
BY DEF TypeOK, RequestTypeOK, Forget

LEMMA AnswerAt ==
    ASSUME TypeOK, NEW w \in Workers, Answer(w)
    PROVE  pc'[w] = "idle" /\ newStatus'[w] = "Invited"
BY GotoAt, ForgetAt DEF Answer

LEMMA ThenSettleAt ==
    ASSUME TypeOK, NEW w \in Workers, ThenSettle(w)
    PROVE  pc'[w] = "settle" /\ newStatus'[w] = "Invited"
BY GotoAt, ForgetAt DEF ThenSettle

LEMMA AfterFilingAt ==
    ASSUME TypeOK, NEW w \in Workers, AfterFiling(w)
    PROVE  \/ next[w] = "settle" /\ pc'[w] = "settle" /\ newStatus'[w] = "Invited"
           \/ next[w] = "idle" /\ pc'[w] = "idle" /\ newStatus'[w] = "Invited"
BY AnswerAt, ThenSettleAt DEF AfterFiling, TypeOK, RequestTypeOK

(* A request changes nothing of what the others carry. *)
LEMMA OthersKeep ==
    ASSUME TypeOK, NEW w \in Workers, Arrive(w) \/ Handle(w) \/ Die(w),
           NEW v \in Workers \ {w}
    PROVE  /\ pc'[v] = pc[v] /\ snapForms'[v] = snapForms[v]
           /\ newStatus'[v] = newStatus[v] /\ copies'[v] = copies[v] /\ next'[v] = next[v]
<1> USE DEF TypeOK, RequestTypeOK, locals
<1>1. CASE Answer(w) \/ ThenSettle(w)
  BY <1>1, GotoAt, ForgetAt DEF Answer, ThenSettle
<1>2. CASE Arrive(w)
  BY <1>1, <1>2, GotoAt
  DEF Arrive, MarkFormRead, SubmitProfileRead, UploadRead, FinalizeRead, VerifyDocument,
      RejectDocument, SetTaskStatus, DeleteTask, ChecklistDelete, TouchCase, ActivateRead
<1>3. CASE SettleRead(w) \/ SetStatus(w) \/ MarkFormWrite(w) \/ SubmitProfileWrite(w)
  BY <1>1, <1>3, GotoAt DEF SettleRead, SetStatus, MarkFormWrite, SubmitProfileWrite
<1>4. CASE UploadDelete(w) \/ UploadCommit(w) \/ FinalizeDelete(w) \/ FinalizeCommit(w)
           \/ FinalizeStatus(w)
  BY <1>1, <1>4, GotoAt
  DEF UploadDelete, UploadCommit, FinalizeDelete, FinalizeCommit, FinalizeStatus
<1>5. CASE VerifyRead(w) \/ ChecklistCommit(w) \/ ActivateStatus(w) \/ ActivateHire(w) \/ Heal(w)
  BY <1>1, <1>5, GotoAt DEF VerifyRead, ChecklistCommit, ActivateStatus, ActivateHire, Heal
<1>6. CASE PublishDocs(w) \/ PublishHave(w) \/ PublishFile(w)
  BY <1>1, <1>6, GotoAt DEF PublishDocs, PublishHave, PublishFile, AfterFiling
<1>7. CASE Die(w)
  BY <1>1, <1>7 DEF Die
<1> QED
  BY <1>2, <1>3, <1>4, <1>5, <1>6, <1>7 DEF Handle

(* Which requests write the status, and which the hire's record. *)
LEMMA WhoTouchesStatus ==
    ASSUME NEW w \in Workers, Arrive(w) \/ Handle(w) \/ Die(w)
    PROVE  SetStatus(w) \/ FinalizeStatus(w) \/ ActivateStatus(w) \/ UNCHANGED status
<1>1. CASE Arrive(w)
  BY <1>1 DEF Arrive, case, MarkFormRead, SubmitProfileRead, UploadRead, FinalizeRead,
     VerifyDocument, RejectDocument, SetTaskStatus, DeleteTask, ChecklistDelete,
     TouchCase, ActivateRead
<1>2. CASE Handle(w)
  BY <1>2 DEF Handle, case, SettleRead, MarkFormWrite, SubmitProfileWrite, UploadDelete,
     UploadCommit, FinalizeDelete, FinalizeCommit, VerifyRead, ChecklistCommit,
     ActivateHire, Heal, PublishDocs, PublishHave, PublishFile
<1>3. CASE Die(w)
  BY <1>3 DEF Die, case
<1> QED
  BY <1>1, <1>2, <1>3

LEMMA WhoTouchesHire ==
    ASSUME NEW w \in Workers, Arrive(w) \/ Handle(w) \/ Die(w)
    PROVE  ActivateHire(w) \/ Heal(w) \/ UNCHANGED hire
<1>1. CASE Arrive(w)
  BY <1>1 DEF Arrive, case, MarkFormRead, SubmitProfileRead, UploadRead, FinalizeRead,
     VerifyDocument, RejectDocument, SetTaskStatus, DeleteTask, ChecklistDelete,
     TouchCase, ActivateRead
<1>2. CASE Handle(w)
  BY <1>2 DEF Handle, case, SettleRead, SetStatus, MarkFormWrite, SubmitProfileWrite,
     UploadDelete, UploadCommit, FinalizeDelete, FinalizeCommit, FinalizeStatus,
     VerifyRead, ChecklistCommit, ActivateStatus, PublishDocs, PublishHave, PublishFile
<1>3. CASE Die(w)
  BY <1>3 DEF Die, case
<1> QED
  BY <1>1, <1>2, <1>3
-------------------------------------------------------------------------------
(* domain/onboarding-status.ts's nextStatus, case by case, before a step    *)
(* and after it.                                                            *)
LEMMA NextStatusIs ==
    /\ status = "Active" => nextStatus = "Active"
    /\ status = "Invited" /\ forms = {} => nextStatus = "Invited"
    /\ status = "Invited" /\ forms # {} => nextStatus = "Forms In Progress"
    /\ status \notin {"Active", "Invited"} /\ forms # FormKeys => nextStatus = "Forms In Progress"
    /\ status \notin {"Active", "Invited"} /\ forms = FormKeys /\ canActivate
         => nextStatus = "Ready to Activate"
    /\ status \notin {"Active", "Invited"} /\ forms = FormKeys /\ ~canActivate
         => nextStatus = "Pending Verification"
<1> HIDE DEF canActivate
<1> QED
  BY DEF nextStatus, FormsDone

LEMMA NextStatusBecomes ==
    /\ status' = "Active" => nextStatus' = "Active"
    /\ status' = "Invited" /\ forms' = {} => nextStatus' = "Invited"
    /\ status' = "Invited" /\ forms' # {} => nextStatus' = "Forms In Progress"
    /\ status' \notin {"Active", "Invited"} /\ forms' # FormKeys
         => nextStatus' = "Forms In Progress"
    /\ status' \notin {"Active", "Invited"} /\ forms' = FormKeys /\ canActivate'
         => nextStatus' = "Ready to Activate"
    /\ status' \notin {"Active", "Invited"} /\ forms' = FormKeys /\ ~canActivate'
         => nextStatus' = "Pending Verification"
<1> HIDE DEF canActivate
<1> QED
  BY DEF nextStatus, FormsDone

(* The status a case is settled on is neither Active nor, unless it is the  *)
(* case's own, Invited.                                                     *)
LEMMA SettledOn == nextStatus = status \/ nextStatus \notin {"Active", "Invited"}
<1>1. CASE status = "Active"
  BY <1>1, NextStatusIs
<1>2. CASE status = "Invited"
  <2>1. CASE forms = {}
    BY <1>2, <2>1, NextStatusIs
  <2>2. CASE forms # {}
    BY <1>2, <2>2, NextStatusIs
  <2> QED
    BY <2>1, <2>2
<1>3. CASE status \notin {"Active", "Invited"}
  <2>1. CASE forms # FormKeys
    BY <1>3, <2>1, NextStatusIs
  <2>2. CASE forms = FormKeys /\ canActivate
    BY <1>3, <2>2, NextStatusIs
  <2>3. CASE forms = FormKeys /\ ~canActivate
    BY <1>3, <2>3, NextStatusIs
  <2> QED
    BY <2>1, <2>2, <2>3
<1> QED
  BY <1>1, <1>2, <1>3

(* Where an arriving request goes. *)
LEMMA ArriveGoes ==
    ASSUME TypeOK, NEW w \in Workers, Arrive(w)
    PROVE  /\ pc[w] = "idle"
           /\ pc'[w] \in {"markForm", "submit", "upload.delete", "finalize.delete", "verify.read",
                          "settle", "checklist.commit", "heal", "activate.status"}
           /\ pc'[w] \in {"markForm", "submit"} => snapForms'[w] = forms
           /\ pc'[w] = "activate.status" => canActivate /\ UNCHANGED <<tasks, docs>>
           /\ pc'[w] = "heal" => status = "Active"
           /\ newStatus'[w] \in {newStatus[w], "Invited"}
           /\ UNCHANGED <<status, forms, hire, vault>>
<1> USE DEF AtAwait
<1> HIDE DEF canActivate
<1>1. CASE MarkFormRead(w) \/ SubmitProfileRead(w)
  <2>1. pc[w] = "idle" /\ UNCHANGED <<status, forms, hire, vault, newStatus>>
    BY <1>1 DEF MarkFormRead, SubmitProfileRead, case
  <2>2. pc'[w] \in {"markForm", "submit"}
    BY <1>1, GotoAt DEF MarkFormRead, SubmitProfileRead
  <2>3. snapForms'[w] = forms
    BY <1>1 DEF MarkFormRead, SubmitProfileRead, TypeOK, RequestTypeOK
  <2> QED
    BY <2>1, <2>2, <2>3
<1>2. CASE UploadRead(w) \/ FinalizeRead(w) \/ ChecklistDelete(w)
  <2>1. pc[w] = "idle" /\ UNCHANGED <<status, forms, hire, vault, newStatus>>
    BY <1>2 DEF UploadRead, FinalizeRead, ChecklistDelete, case
  <2>2. pc'[w] \in {"upload.delete", "finalize.delete", "checklist.commit"}
    BY <1>2, GotoAt DEF UploadRead, FinalizeRead, ChecklistDelete
  <2> QED
    BY <2>1, <2>2
<1>3. CASE RejectDocument(w) \/ SetTaskStatus(w) \/ DeleteTask(w) \/ TouchCase(w)
  BY <1>3, ThenSettleAt DEF RejectDocument, SetTaskStatus, DeleteTask, TouchCase, case
<1>4. CASE VerifyDocument(w)
  BY <1>4, GotoAt DEF VerifyDocument, locals
<1>5. CASE ActivateRead(w)
  <2>1. CASE status = "Active" /\ Goto(w, "heal")
    BY <1>5, <2>1, GotoAt DEF ActivateRead, case, locals
  <2>2. CASE canActivate /\ Goto(w, "activate.status")
    BY <1>5, <2>2, GotoAt DEF ActivateRead, case, locals
  <2> QED
    BY <1>5, <2>1, <2>2 DEF ActivateRead
<1> QED
  BY <1>1, <1>2, <1>3, <1>4, <1>5 DEF Arrive

(* Where a handled await leaves its request. *)
LEMMA HandleGoes ==
    ASSUME TypeOK, NEW w \in Workers, Handle(w)
    PROVE  /\ pc[w] # "idle"
           /\ pc'[w] \notin {"markForm", "submit", "heal", "activate.status", "verify.read"}
           /\ pc'[w] = "idle" =>
                \/ SetStatus(w)
                \/ pc[w] = "heal" /\ UNCHANGED status
                \/ SettleRead(w) /\ nextStatus = status
                \/ /\ pc[w] \in {"publish.docs", "publish.file"} /\ next[w] = "idle"
                   /\ UNCHANGED status
           /\ pc'[w] = "setStatus" =>
                /\ SettleRead(w) /\ nextStatus # status
                /\ newStatus'[w] = nextStatus
           /\ pc'[w] # "setStatus" => newStatus'[w] \in {newStatus[w], "Invited"}
           /\ pc'[w] = "activate.hire" => ActivateStatus(w)
           /\ pc'[w] = "publish.docs" =>
                \/ ActivateHire(w) \/ Heal(w)
                \/ VerifyRead(w) /\ status = "Active" /\ next'[w] = "settle"
           /\ pc'[w] \in {"publish.have", "publish.file"} =>
                /\ pc[w] \in {"publish.docs", "publish.have", "publish.file"}
                /\ next'[w] = next[w] /\ UNCHANGED status
<1> USE DEF AtAwait
<1> HIDE DEF nextStatus
<1>1. CASE SetStatus(w) \/ MarkFormWrite(w) \/ SubmitProfileWrite(w) \/ UploadCommit(w)
           \/ FinalizeStatus(w) \/ ChecklistCommit(w)
  BY <1>1, AnswerAt, ThenSettleAt
  DEF SetStatus, MarkFormWrite, SubmitProfileWrite, UploadCommit, FinalizeStatus, ChecklistCommit
<1>2. CASE SettleRead(w)
  <2>1. CASE nextStatus = status
    BY <1>2, <2>1, AnswerAt DEF SettleRead
  <2>2. CASE nextStatus # status
    BY <1>2, <2>2, GotoAt DEF SettleRead, TypeOK, RequestTypeOK
  <2> QED
    BY <2>1, <2>2
<1>3. CASE UploadDelete(w) \/ FinalizeDelete(w)
  BY <1>3, GotoAt DEF UploadDelete, FinalizeDelete
<1>4. CASE FinalizeCommit(w) \/ ActivateStatus(w) \/ ActivateHire(w)
  BY <1>4, GotoAt DEF FinalizeCommit, ActivateStatus, ActivateHire, locals
<1>5. CASE VerifyRead(w)
  <2>1. CASE status = "Active"
    BY <1>5, <2>1, GotoAt DEF VerifyRead, TypeOK, RequestTypeOK
  <2>2. CASE status # "Active"
    BY <1>5, <2>2, ThenSettleAt DEF VerifyRead
  <2> QED
    BY <2>1, <2>2
<1>6. CASE Heal(w)
  BY <1>6, GotoAt, AnswerAt DEF Heal, locals
<1>7. CASE PublishDocs(w)
  <2>1. pc[w] = "publish.docs" /\ UNCHANGED status
    BY <1>7 DEF PublishDocs, case
  <2>2. AfterFiling(w) \/ (Goto(w, "publish.have") /\ UNCHANGED <<newStatus, next>>)
    BY <1>7 DEF PublishDocs
  <2> QED
    BY <2>1, <2>2, AfterFilingAt, GotoAt
<1>8. CASE PublishHave(w)
  BY <1>8, GotoAt DEF PublishHave, case
<1>9. CASE PublishFile(w)
  <2>1. pc[w] = "publish.file" /\ UNCHANGED status
    BY <1>9 DEF PublishFile
  <2>2. AfterFiling(w) \/ UNCHANGED <<pc, newStatus, next>>
    BY <1>9 DEF PublishFile
  <2> QED
    BY <2>1, <2>2, AfterFilingAt
<1> QED
  BY <1>1, <1>2, <1>3, <1>4, <1>5, <1>6, <1>7, <1>8, <1>9 DEF Handle
-------------------------------------------------------------------------------
(***************************************************************************)
(* Why an active case has a hire.  A settling never makes a case active    *)
(* (nextStatus keeps Active but does not give it), so only an activation   *)
(* does, and it has the hire's record still to write.                      *)
(***************************************************************************)
SettlingIsModest ==
    \A w \in Workers : /\ newStatus[w] # "Active"
                       /\ pc[w] = "setStatus" => newStatus[w] # "Invited"

HireComes ==
    ~died /\ status = "Active"
      => hire = "ACTIVE" \/ \E w \in Workers : pc[w] = "activate.hire"

LEMMA ModestStep ==
    ASSUME TypeOK, SettlingIsModest, NEW w \in Workers, Arrive(w) \/ Handle(w) \/ Die(w)
    PROVE  SettlingIsModest'
<1>1. /\ newStatus'[w] # "Active"
      /\ pc'[w] = "setStatus" => newStatus'[w] # "Invited"
  <2>1. CASE Arrive(w)
    BY <2>1, ArriveGoes DEF SettlingIsModest
  <2>2. CASE Handle(w)
    BY <2>2, HandleGoes, SettledOn DEF SettlingIsModest
  <2>3. CASE Die(w)
    BY <2>3, AnswerAt DEF Die
  <2> QED
    BY <2>1, <2>2, <2>3
<1> QED
  BY <1>1, OthersKeep DEF SettlingIsModest

LEMMA HireStep ==
    ASSUME TypeOK, SettlingIsModest, HireComes, NEW w \in Workers, Arrive(w) \/ Handle(w) \/ Die(w)
    PROVE  HireComes'
<1> SUFFICES ASSUME ~died', status' = "Active", hire' # "ACTIVE"
             PROVE  \E v \in Workers : pc'[v] = "activate.hire"
  BY DEF HireComes
<1>1. CASE ActivateStatus(w)
  BY <1>1, GotoAt DEF ActivateStatus
<1>2. CASE UNCHANGED status
  <2>1. ~died /\ status = "Active"
    <3>1. died' = died \/ died' = TRUE
      BY Zenon DEF Arrive, Handle, Die
    <3> QED
      BY <1>2, <3>1
  <2>2. UNCHANGED hire
    BY WhoTouchesHire DEF ActivateHire, Heal
  <2>3. PICK v \in Workers : pc[v] = "activate.hire"
    BY <2>1, <2>2 DEF HireComes
  <2>4. CASE v = w
    <3>1. Handle(w)
      BY <2>1, <2>3, <2>4, ArriveGoes DEF Die
    <3>2. ActivateHire(w)
      BY <2>3, <2>4, <3>1
      DEF Handle, AtAwait, SettleRead, SetStatus, MarkFormWrite, SubmitProfileWrite,
          UploadDelete, UploadCommit, FinalizeDelete, FinalizeCommit, FinalizeStatus,
          VerifyRead, ChecklistCommit, ActivateStatus, Heal, PublishDocs, PublishHave, PublishFile
    <3> QED
      BY <3>2 DEF ActivateHire
  <2> QED
    BY <2>3, <2>4, OthersKeep
<1>3. CASE SetStatus(w) \/ FinalizeStatus(w)
  BY <1>3 DEF SetStatus, FinalizeStatus, SettlingIsModest
<1> QED
  BY <1>1, <1>2, <1>3, WhoTouchesStatus

(* A step is the acceptance of the invitation, one request's, or none. *)
LEMMA StepBy ==
    ASSUME [Next]_vars
    PROVE  \/ \E w \in Workers : Arrive(w) \/ Handle(w) \/ Die(w)
           \/ /\ hire = "none" /\ hire' = "PRE_HIRE"
              /\ UNCHANGED <<status, forms, tasks, docs, vault, approved, shown, solo, died,
                             ids, pc, locals>>
           \/ UNCHANGED vars
BY DEF Next, AcceptInvite

HireInv == TypeOK /\ SettlingIsModest /\ HireComes

LEMMA HireInduction == Spec => []HireInv
<1>1. Init => HireInv
  BY TypeInit DEF Init, HireInv, SettlingIsModest, HireComes
<1>2. HireInv /\ [Next]_vars => HireInv'
  <2> SUFFICES ASSUME HireInv, [Next]_vars PROVE SettlingIsModest' /\ HireComes'
    BY TypeStep DEF HireInv
  <2>1. ASSUME NEW w \in Workers, Arrive(w) \/ Handle(w) \/ Die(w)
        PROVE  SettlingIsModest' /\ HireComes'
    BY <2>1, ModestStep, HireStep DEF HireInv
  <2>2. CASE hire = "none" /\ UNCHANGED <<status, died, pc, locals>>
    BY <2>2 DEF HireInv, SettlingIsModest, HireComes, locals
  <2>3. CASE UNCHANGED vars
    BY <2>3 DEF HireInv, SettlingIsModest, HireComes, vars, case, locals
  <2> QED
    BY <2>1, <2>2, <2>3, StepBy
<1> QED
  BY <1>1, <1>2, PTL DEF Spec

(* Once nothing is in flight and nothing died, an active case has a listed  *)
(* employee, whatever demoted or promoted the case while activate.command   *)
(* was between its status write and the employee's.                         *)
THEOREM ActiveAlwaysHired == Spec => []ActiveIsHired
<1>1. HireInv => ActiveIsHired
  BY DEF HireInv, HireComes, ActiveIsHired, Quiet, InFlight, AtAwait
<1> QED
  BY <1>1, HireInduction, PTL
-------------------------------------------------------------------------------
(***************************************************************************)
(* What a request that runs alone may rely on: nothing it read goes stale. *)
(***************************************************************************)
Alone == \A v, w \in Workers : InFlight(v) /\ InFlight(w) => v = w

(* What the awaits of request w have seen of the case still holds. *)
StillSees(w) ==
    /\ pc[w] \in {"markForm", "submit"} => snapForms[w] = forms
    /\ pc[w] = "setStatus" => newStatus[w] = nextStatus
    /\ pc[w] = "activate.status" => canActivate
    /\ pc[w] \in {"activate.hire", "heal"} => status = "Active"
    /\ pc[w] \in {"publish.docs", "publish.have", "publish.file"} /\ next[w] = "idle"
         => status = "Active"

SoloCase == solo => Alone /\ \A w \in Workers : StillSees(w)

(* The gates and the derived status depend on the case only. *)
LEMMA GatesStand ==
    ASSUME UNCHANGED <<forms, tasks, docs>>
    PROVE  canActivate' = canActivate
BY DEF canActivate, FormsDone, BlockingDone, AllVerified

LEMMA NextStatusStands ==
    ASSUME UNCHANGED <<status, forms, tasks, docs>>
    PROVE  nextStatus' = nextStatus
<1>1. canActivate' = canActivate
  BY GatesStand
<1> QED
  BY <1>1 DEF nextStatus, FormsDone

(* A request beside an idle one sees nothing, so nothing it saw is stale.   *)
LEMMA IdleSees ==
    ASSUME NEW v \in Workers, pc'[v] = "idle"
    PROVE  StillSees(v)'
BY DEF StillSees

LEMMA ArriveAlone ==
    ASSUME TypeOK, NEW w \in Workers, Arrive(w)
    PROVE  SoloCase'
<1> SUFFICES ASSUME solo' PROVE Alone' /\ \A v \in Workers : StillSees(v)'
  BY DEF SoloCase
<1>1. \A v \in Workers \ {w} : pc'[v] = "idle"
  <2>1. \A v \in Workers \ {w} : pc[v] = "idle"
    BY DEF Arrive, InFlight, AtAwait
  <2> QED
    BY <2>1, OthersKeep
<1>2. StillSees(w)'
  BY ArriveGoes, GatesStand DEF StillSees
<1> QED
  BY <1>1, <1>2, IdleSees DEF Alone, InFlight, AtAwait

LEMMA HandleAlone ==
    ASSUME TypeOK, SoloCase, NEW w \in Workers, Handle(w)
    PROVE  SoloCase'
<1> SUFFICES ASSUME solo PROVE Alone' /\ \A v \in Workers : StillSees(v)'
  BY DEF SoloCase, Handle
<1>0. Alone /\ StillSees(w)
  BY DEF SoloCase
<1>1. \A v \in Workers \ {w} : pc'[v] = "idle"
  <2>1. \A v \in Workers \ {w} : pc[v] = "idle"
    BY <1>0, HandleGoes DEF Alone, InFlight, AtAwait
  <2> QED
    BY <2>1, OthersKeep
<1>2. StillSees(w)'
  <2>1. pc'[w] \notin {"markForm", "submit", "heal", "activate.status"}
    BY HandleGoes
  <2>2. pc'[w] = "setStatus" => newStatus'[w] = nextStatus'
    <3>1. SettleRead(w) => UNCHANGED <<status, forms, tasks, docs>>
      BY DEF SettleRead, case
    <3> QED
      BY <3>1, HandleGoes, NextStatusStands
  <2>3. pc'[w] = "activate.hire" => status' = "Active"
    BY HandleGoes DEF ActivateStatus
  <2>4. pc'[w] = "publish.docs" /\ next'[w] = "idle" => status' = "Active"
    <3>1. (ActivateHire(w) \/ Heal(w)) => UNCHANGED status /\ pc[w] \in {"activate.hire", "heal"}
      BY DEF ActivateHire, Heal, AtAwait
    <3>2. pc'[w] = "publish.docs" /\ next'[w] = "idle" => ActivateHire(w) \/ Heal(w)
      BY HandleGoes
    <3> QED
      BY <1>0, <3>1, <3>2 DEF StillSees
  <2>5. pc'[w] \in {"publish.have", "publish.file"} /\ next'[w] = "idle" => status' = "Active"
    BY <1>0, HandleGoes DEF StillSees
  <2> HIDE DEF nextStatus, canActivate
  <2> QED
    BY <2>1, <2>2, <2>3, <2>4, <2>5 DEF StillSees
<1> QED
  BY <1>1, <1>2, IdleSees DEF Alone, InFlight, AtAwait

(* What leaves the requests, the forms, the status and the gates alone. *)
LEMMA StutterAlone ==
    ASSUME SoloCase, UNCHANGED <<status, forms, tasks, docs, solo, pc, locals>>
    PROVE  SoloCase'
<1>1. nextStatus' = nextStatus /\ canActivate' = canActivate
  BY GatesStand, NextStatusStands
<1>2. \A w \in Workers : StillSees(w) => StillSees(w)'
  BY <1>1 DEF StillSees, locals
<1>3. Alone => Alone'
  BY DEF Alone, InFlight, AtAwait
<1> QED
  BY <1>2, <1>3 DEF SoloCase

SoloInv == TypeOK /\ SettlingIsModest /\ SoloCase

LEMMA SoloInduction == Spec => []SoloInv
<1>1. Init => SoloInv
  BY TypeInit DEF Init, SoloInv, SettlingIsModest, SoloCase, Alone, StillSees, InFlight, AtAwait
<1>2. SoloInv /\ [Next]_vars => SoloInv'
  <2> SUFFICES ASSUME SoloInv, [Next]_vars PROVE SettlingIsModest' /\ SoloCase'
    BY TypeStep DEF SoloInv
  <2>1. ASSUME NEW w \in Workers, Arrive(w) \/ Handle(w) \/ Die(w)
        PROVE  SettlingIsModest' /\ SoloCase'
    <3>1. Die(w) => SoloCase'
      BY DEF Die, SoloCase
    <3> QED
      BY <2>1, <3>1, ModestStep, ArriveAlone, HandleAlone DEF SoloInv
  <2>2. CASE UNCHANGED <<status, forms, tasks, docs, solo, pc, locals>>
    BY <2>2, StutterAlone DEF SoloInv, SettlingIsModest, locals
  <2>3. CASE UNCHANGED vars
    BY <2>2, <2>3 DEF vars, case
  <2> QED
    BY <2>1, <2>2, <2>3, StepBy
<1> QED
  BY <1>1, <1>2, PTL DEF Spec

(* A request that runs alone turns a case active only with every gate       *)
(* clear: the gates activate.command.ts checks on the case as first read    *)
(* are still clear when it writes, and nothing else writes Active.          *)
THEOREM GatesAlwaysHold == Spec => ActivatedThroughGates
<1>1. ASSUME SoloInv, solo, status # "Active", status' = "Active",
             NEW w \in Workers, Arrive(w) \/ Handle(w) \/ Die(w)
      PROVE  canActivate
  <2>1. ActivateStatus(w)
    BY <1>1, WhoTouchesStatus DEF SoloInv, SettlingIsModest, SetStatus, FinalizeStatus
  <2> QED
    BY <1>1, <2>1 DEF SoloInv, SoloCase, StillSees, ActivateStatus, AtAwait
<1>2. SoloInv /\ [Next]_vars
        => [status # "Active" /\ status' = "Active" /\ solo => canActivate]_vars
  <2> HIDE DEF canActivate
  <2> QED
    BY <1>1, StepBy
<1> QED
  BY <1>2, SoloInduction, PTL DEF Spec, ActivatedThroughGates
-------------------------------------------------------------------------------
(***************************************************************************)
(* Why settling heals.  nextStatus goes one step at a time from Invited,   *)
(* so a settling is enough only where a case still invited has no more     *)
(* than one request's forms: forms marked on an invited case are always    *)
(* followed by a settling, and none sends a case back to Invited.          *)
(***************************************************************************)
MarksAreSettled ==
    ~died /\ status = "Invited" /\ forms # {}
      => \E w \in Workers : pc[w] \in {"settle", "setStatus"}

WizardOpen == solo /\ ~died /\ status = "Invited" => forms = {} \/ forms # FormKeys

WizardInv == SoloInv /\ MarksAreSettled /\ WizardOpen /\ StatusSettled

LEMMA WhoTouchesForms ==
    ASSUME NEW w \in Workers, Arrive(w) \/ Handle(w) \/ Die(w)
    PROVE  MarkFormWrite(w) \/ SubmitProfileWrite(w) \/ UNCHANGED forms
<1>1. CASE Arrive(w)
  BY <1>1 DEF Arrive, case, MarkFormRead, SubmitProfileRead, UploadRead, FinalizeRead,
     VerifyDocument, RejectDocument, SetTaskStatus, DeleteTask, ChecklistDelete,
     TouchCase, ActivateRead
<1>2. CASE Handle(w)
  BY <1>2 DEF Handle, case, SettleRead, SetStatus, UploadDelete, UploadCommit,
     FinalizeDelete, FinalizeCommit, FinalizeStatus, VerifyRead, ChecklistCommit,
     ActivateStatus, ActivateHire, Heal, PublishDocs, PublishHave, PublishFile
<1>3. CASE Die(w)
  BY <1>3 DEF Die, case
<1> QED
  BY <1>1, <1>2, <1>3

(* Nobody writes Invited. *)
LEMMA InvitedOnce ==
    ASSUME SettlingIsModest, NEW w \in Workers, Arrive(w) \/ Handle(w) \/ Die(w),
           status' = "Invited"
    PROVE  UNCHANGED status
BY WhoTouchesStatus DEF SetStatus, FinalizeStatus, ActivateStatus, SettlingIsModest, AtAwait

LEMMA MarksStep ==
    ASSUME TypeOK, SettlingIsModest, MarksAreSettled,
           NEW w \in Workers, Arrive(w) \/ Handle(w)
    PROVE  MarksAreSettled'
<1> SUFFICES ASSUME ~died', status' = "Invited", forms' # {}
             PROVE  \E v \in Workers : pc'[v] \in {"settle", "setStatus"}
  BY DEF MarksAreSettled
<1>1. ~died /\ status = "Invited"
  <2>1. died' = died
    BY Zenon DEF Arrive, Handle
  <2> QED
    BY <2>1, InvitedOnce
<1>2. CASE MarkFormWrite(w) \/ SubmitProfileWrite(w)
  BY <1>2, ThenSettleAt DEF MarkFormWrite, SubmitProfileWrite
<1>3. CASE UNCHANGED forms
  <2>1. PICK v \in Workers : pc[v] \in {"settle", "setStatus"}
    BY <1>1, <1>3 DEF MarksAreSettled
  <2>2. CASE v = w
    <3>1. Handle(w)
      BY <2>1, <2>2, ArriveGoes
    <3>2. SettleRead(w)
      <4>1. ~SetStatus(w)
        BY DEF SetStatus, SettlingIsModest, AtAwait
      <4> QED
        BY <2>1, <2>2, <3>1, <4>1
        DEF Handle, AtAwait, MarkFormWrite, SubmitProfileWrite, UploadDelete, UploadCommit,
            FinalizeDelete, FinalizeCommit, FinalizeStatus, VerifyRead, ChecklistCommit,
            ActivateStatus, ActivateHire, Heal, PublishDocs, PublishHave, PublishFile
    <3>3. nextStatus = "Forms In Progress"
      BY <1>1, <1>3, NextStatusIs
    <3> QED
      BY <1>1, <3>2, <3>3, GotoAt DEF SettleRead
  <2> QED
    BY <2>1, <2>2, OthersKeep
<1> QED
  BY <1>2, <1>3, WhoTouchesForms

(* A request that runs alone finds an invited case untouched. *)
LEMMA AloneIsUntouched ==
    ASSUME MarksAreSettled, ~died, status = "Invited", NEW w \in Workers,
           pc[w] \notin {"settle", "setStatus"}, \A v \in Workers \ {w} : pc[v] = "idle"
    PROVE  forms = {}
BY DEF MarksAreSettled

LEMMA WizardStep ==
    ASSUME TypeOK, SettlingIsModest, SoloCase, MarksAreSettled, WizardOpen,
           NEW w \in Workers, Arrive(w) \/ Handle(w)
    PROVE  WizardOpen'
<1> SUFFICES ASSUME solo', ~died', status' = "Invited"
             PROVE  forms' = {} \/ forms' # FormKeys
  BY DEF WizardOpen
<1>1. ~died /\ status = "Invited"
  <2>1. died' = died
    BY Zenon DEF Arrive, Handle
  <2> QED
    BY <2>1, InvitedOnce
<1>2. CASE Arrive(w)
  <2>1. \A v \in Workers \ {w} : pc[v] = "idle"
    BY <1>2 DEF Arrive, InFlight, AtAwait
  <2> QED
    BY <1>1, <1>2, <2>1, ArriveGoes, AloneIsUntouched
<1>3. CASE Handle(w)
  <2>1. solo /\ Alone
    BY <1>3 DEF Handle, SoloCase
  <2>2. \A v \in Workers \ {w} : pc[v] = "idle"
    BY <1>3, <2>1, HandleGoes DEF Alone, InFlight, AtAwait
  <2>3. CASE MarkFormWrite(w)
    <3>1. PICK key \in FormKeys : forms' = snapForms[w] \union {key}
      BY <2>3 DEF MarkFormWrite
    <3>2. snapForms[w] = {}
      BY <1>1, <2>1, <2>2, <2>3, AloneIsUntouched DEF MarkFormWrite, AtAwait, SoloCase, StillSees
    <3> QED
      BY <3>1, <3>2, WizardAssumption
  <2>4. CASE SubmitProfileWrite(w)
    <3>1. snapForms[w] = {}
      BY <1>1, <2>1, <2>2, <2>4, AloneIsUntouched
      DEF SubmitProfileWrite, AtAwait, SoloCase, StillSees
    <3> QED
      BY <2>4, <3>1, WizardAssumption DEF SubmitProfileWrite
  <2>5. CASE UNCHANGED forms
    BY <1>1, <2>1, <2>5 DEF WizardOpen
  <2> QED
    BY <2>3, <2>4, <2>5, WhoTouchesForms
<1> QED
  BY <1>2, <1>3

(* The last await of a request that ran alone leaves the status derived. *)
LEMMA SettledStep ==
    ASSUME TypeOK, SettlingIsModest, SoloCase, WizardOpen, NEW w \in Workers, Arrive(w) \/ Handle(w)
    PROVE  StatusSettled'
<1> SUFFICES ASSUME Quiet', solo', ~died' PROVE status' = nextStatus'
  BY DEF StatusSettled
<1>0. pc'[w] = "idle"
  BY DEF Quiet, InFlight, AtAwait
<1>1. Handle(w)
  BY <1>0, ArriveGoes
<1>2. solo /\ ~died /\ StillSees(w)
  BY <1>1 DEF Handle, SoloCase
<1>3. CASE SetStatus(w)
  <2>1. status' = nextStatus /\ UNCHANGED <<forms, tasks, docs>>
    BY <1>2, <1>3 DEF SetStatus, StillSees, AtAwait
  <2>2. nextStatus \notin {"Active", "Invited"}
    BY <1>2, <1>3 DEF SetStatus, StillSees, AtAwait, SettlingIsModest
  <2>3. canActivate' = canActivate
    BY <2>1, GatesStand
  <2>4. forms' # FormKeys => nextStatus' = "Forms In Progress"
    BY <2>1, <2>2, NextStatusBecomes
  <2>5. forms # FormKeys => nextStatus = "Forms In Progress"
    BY <2>2, NextStatusIs
  <2>6. CASE forms # FormKeys
    BY <2>1, <2>4, <2>5, <2>6
  <2>7. CASE forms = FormKeys
    <3>1. status \notin {"Active", "Invited"}
      BY <1>2, <2>2, <2>7, NextStatusIs DEF WizardOpen
    <3>2. CASE canActivate
      BY <2>1, <2>2, <2>3, <2>7, <3>1, <3>2, NextStatusIs, NextStatusBecomes
    <3>3. CASE ~canActivate
      BY <2>1, <2>2, <2>3, <2>7, <3>1, <3>3, NextStatusIs, NextStatusBecomes
    <3> QED
      BY <3>2, <3>3
  <2> QED
    BY <2>6, <2>7
<1>4. CASE SettleRead(w) /\ nextStatus = status
  <2>1. UNCHANGED <<status, forms, tasks, docs>>
    BY <1>4 DEF SettleRead, case
  <2> QED
    BY <1>4, <2>1, NextStatusStands
<1>5. CASE status = "Active" /\ UNCHANGED status
  BY <1>5, NextStatusBecomes
<1> QED
  BY <1>0, <1>1, <1>2, <1>3, <1>4, <1>5, HandleGoes DEF StillSees

LEMMA StutterSettled ==
    ASSUME MarksAreSettled, WizardOpen, StatusSettled,
           UNCHANGED <<status, forms, tasks, docs, solo, died, pc, locals>>
    PROVE  MarksAreSettled' /\ WizardOpen' /\ StatusSettled'
<1>1. MarksAreSettled' /\ WizardOpen'
  BY DEF MarksAreSettled, WizardOpen
<1>2. Quiet' => Quiet
  BY DEF Quiet, InFlight, AtAwait
<1> QED
  BY <1>1, <1>2, NextStatusStands DEF StatusSettled

LEMMA WizardInduction == Spec => []WizardInv
<1>1. Init => WizardInv
  <2> SUFFICES ASSUME Init PROVE MarksAreSettled /\ WizardOpen /\ StatusSettled /\ SettlingIsModest
                                  /\ SoloCase /\ TypeOK
    BY DEF WizardInv, SoloInv
  <2>1. MarksAreSettled /\ WizardOpen /\ StatusSettled
    BY NextStatusIs DEF Init, MarksAreSettled, WizardOpen, StatusSettled
  <2> QED
    BY <2>1, TypeInit DEF Init, SettlingIsModest, SoloCase, Alone, StillSees, InFlight, AtAwait
<1>2. SoloInv /\ SoloInv' /\ WizardInv /\ [Next]_vars => WizardInv'
  <2> SUFFICES ASSUME SoloInv, WizardInv, [Next]_vars
               PROVE  MarksAreSettled' /\ WizardOpen' /\ StatusSettled'
    BY DEF WizardInv
  <2>1. ASSUME NEW w \in Workers, Arrive(w) \/ Handle(w)
        PROVE  MarksAreSettled' /\ WizardOpen' /\ StatusSettled'
    BY <2>1, MarksStep, WizardStep, SettledStep DEF WizardInv, SoloInv
  <2>2. ASSUME NEW w \in Workers, Die(w)
        PROVE  MarksAreSettled' /\ WizardOpen' /\ StatusSettled'
    BY <2>2 DEF Die, MarksAreSettled, WizardOpen, StatusSettled
  <2>3. CASE UNCHANGED <<status, forms, tasks, docs, solo, died, pc, locals>>
    BY <2>3, StutterSettled DEF WizardInv
  <2>4. CASE UNCHANGED vars
    BY <2>3, <2>4 DEF vars, case
  <2> QED
    BY <2>1, <2>2, <2>3, <2>4, StepBy
<1> QED
  BY <1>1, <1>2, SoloInduction, PTL DEF Spec

(* Settling heals: one request that runs alone, on a case whose requests    *)
(* may have raced before, leaves the status derived from the forms, the     *)
(* checklist and the documents (onboarding.settle.ts ends every handler     *)
(* that does not end in an active case).                                    *)
THEOREM StatusAlwaysSettles == Spec => []StatusSettled
<1>1. WizardInv => StatusSettled
  BY DEF WizardInv
<1> QED
  BY <1>1, WizardInduction, PTL
-------------------------------------------------------------------------------
(***************************************************************************)
(* Why a verification and an activation that cross still file the papers:  *)
(* while a verified document of an active case is not in the vault, some   *)
(* request is on its way to file it, or to take the case back.             *)
(***************************************************************************)
WillFile(w, d) ==
    \/ pc[w] \in {"verify.read", "activate.hire", "finalize.status"}
    \/ pc[w] = "publish.docs" /\ hire # "none"
    \/ pc[w] \in {"publish.have", "publish.file"} /\ \E c \in copies[w] : c.name = d.name

PaperworkComes ==
    ~died /\ status = "Active"
      => \A d \in docs : d.status = "Verified" /\ d.name \notin FiledNames
           => \E w \in Workers : WillFile(w, d)

(* The handler a request is parked in, where it files papers. *)
LEMMA WhoHandles ==
    ASSUME NEW w \in Workers, Handle(w)
    PROVE  /\ pc[w] = "verify.read" => VerifyRead(w)
           /\ pc[w] = "activate.hire" => ActivateHire(w)
           /\ pc[w] = "finalize.status" => FinalizeStatus(w)
           /\ pc[w] = "publish.docs" => PublishDocs(w)
           /\ pc[w] = "publish.have" => PublishHave(w)
           /\ pc[w] = "publish.file" => PublishFile(w)
BY DEF Handle, AtAwait, SettleRead, SetStatus, MarkFormWrite, SubmitProfileWrite,
       UploadDelete, UploadCommit, FinalizeDelete, FinalizeCommit, FinalizeStatus,
       VerifyRead, ChecklistCommit, ActivateStatus, ActivateHire, Heal, PublishDocs,
       PublishHave, PublishFile

(* Nothing a request does takes a name from the vault or a hire's record.   *)
LEMMA FiledStays ==
    ASSUME NEW w \in Workers, Arrive(w) \/ Handle(w) \/ Die(w)
    PROVE  FiledNames \subseteq FiledNames' /\ (hire # "none" => hire' # "none")
<1>1. vault \subseteq vault'
  BY WhoTouchesVault DEF PublishFile
<1>2. hire # "none" => hire' # "none"
  BY WhoTouchesHire DEF ActivateHire, Heal
<1> QED
  BY <1>1, <1>2 DEF FiledNames

(* But for a decision of HR and a generation, a document that is verified   *)
(* was so before.                                                           *)
LEMMA VerifiedBefore ==
    ASSUME CustodyInv, NEW w \in Workers, Arrive(w) \/ Handle(w) \/ Die(w),
           ~VerifyDocument(w), ~FinalizeCommit(w), NEW d \in docs', d.status = "Verified"
    PROVE  d \in docs
<1>1. CASE UploadCommit(w)
  <2>1. row[w].status = "Needs Verification"
    BY <1>1 DEF CustodyInv, UploadsUnverified, UploadCommit, AtAwait
  <2> QED
    BY <1>1, <2>1 DEF UploadCommit, Surviving
<1>2. CASE RejectDocument(w)
  <2>1. PICK r \in docs :
          docs' = {IF e.id = r.id THEN [e EXCEPT !.status = "Pending"] ELSE e : e \in docs}
    BY <1>2 DEF RejectDocument, SetDocStatus
  <2>2. \A e \in docs : [e EXCEPT !.status = "Pending"].status = "Pending"
    BY DEF CustodyInv, TypeOK, CaseTypeOK, DocRows
  <2> QED
    BY <2>1, <2>2
<1>3. CASE UNCHANGED <<docs, shown, approved>>
  BY <1>3
<1> QED
  BY <1>1, <1>2, <1>3, WhoTouchesDocuments

(* A request on its way to file a document has it filed, or still will,     *)
(* or somebody else will.                                                   *)
LEMMA FilerStep ==
    ASSUME CustodyInv, HireInv, ~died, status = "Active", status' = "Active",
           NEW w \in Workers, Handle(w), NEW d \in docs, d.status = "Verified",
           d.name \notin FiledNames', d.name \notin FiledNames, WillFile(w, d)
    PROVE  \E v \in Workers : WillFile(v, d)'
<1> USE DEF WillFile
<1>t. TypeOK /\ copies \in [Workers -> SUBSET DocRows]
  BY DEF CustodyInv, TypeOK, RequestTypeOK
<1>1. CASE pc[w] = "verify.read"
  <2>1. VerifyRead(w) /\ UNCHANGED hire
    BY <1>1, WhoHandles DEF VerifyRead, case
  <2>2. pc'[w] = "publish.docs"
    BY <1>t, <2>1, GotoAt DEF VerifyRead
  <2>3. CASE hire # "none"
    BY <2>1, <2>2, <2>3
  <2>4. CASE hire = "none"
    <3>1. PICK v \in Workers : pc[v] = "activate.hire"
      BY <2>4 DEF HireInv, HireComes
    <3> QED
      BY <1>1, <1>t, <3>1, OthersKeep
  <2> QED
    BY <2>3, <2>4
<1>2. CASE pc[w] = "activate.hire"
  BY <1>2, <1>t, WhoHandles, GotoAt DEF ActivateHire
<1>3. CASE pc[w] = "finalize.status"
  BY <1>3, WhoHandles DEF FinalizeStatus
<1>4. CASE pc[w] = "publish.docs" /\ hire # "none"
  <2> DEFINE verified == {e \in docs : e.status = "Verified"}
  <2>1. PublishDocs(w) /\ d \in verified
    BY <1>4, WhoHandles
  <2>2. copies' = [copies EXCEPT ![w] = verified] /\ Goto(w, "publish.have")
    BY <1>4, <2>1 DEF PublishDocs
  <2>3. d \in copies'[w]
    BY <1>t, <2>1, <2>2
  <2> QED
    BY <1>t, <2>2, <2>3, GotoAt
<1>5. CASE pc[w] = "publish.have" /\ \E c \in copies[w] : c.name = d.name
  <2>1. PICK c \in copies[w] : c.name = d.name
    BY <1>5
  <2>2. PublishHave(w)
    BY <1>5, WhoHandles
  <2>3. c \in copies'[w]
    BY <1>t, <2>1, <2>2 DEF PublishHave
  <2> QED
    BY <1>t, <2>1, <2>2, <2>3, GotoAt DEF PublishHave
<1>6. CASE pc[w] = "publish.file" /\ \E c \in copies[w] : c.name = d.name
  <2>1. PICK c \in copies[w] : c.name = d.name
    BY <1>6
  <2>2. PublishFile(w)
    BY <1>6, WhoHandles
  <2>3. PICK e \in copies[w] :
          /\ vault' = vault \union {[file |-> e.file, name |-> e.name, by |-> w]}
          /\ copies' = [copies EXCEPT ![w] = copies[w] \ {e}]
          /\ UNCHANGED pc
    BY <2>1, <2>2 DEF PublishFile
  <2>4. e.name \in FiledNames'
    <3> DEFINE copy == [file |-> e.file, name |-> e.name, by |-> w]
    <3>1. copy \in vault' /\ copy.name = e.name
      BY <2>3
    <3> QED
      BY <3>1 DEF FiledNames
  <2>5. c \in copies'[w]
    BY <1>t, <2>1, <2>3, <2>4
  <2> QED
    BY <1>6, <2>1, <2>3, <2>5
<1> QED
  BY <1>1, <1>2, <1>3, <1>4, <1>5, <1>6

LEMMA PaperworkStep ==
    ASSUME CustodyInv, HireInv, PaperworkComes, NEW w \in Workers, Arrive(w) \/ Handle(w)
    PROVE  PaperworkComes'
<1>t. TypeOK
  BY DEF CustodyInv
<1> SUFFICES ASSUME ~died', status' = "Active", NEW d \in docs', d.status = "Verified",
                    d.name \notin FiledNames'
             PROVE  \E v \in Workers : WillFile(v, d)'
  BY DEF PaperworkComes
<1>0. ~died
  <2>1. died' = died
    BY Zenon DEF Arrive, Handle
  <2> QED
    BY <2>1
<1>1. CASE ActivateStatus(w)
  BY <1>1, <1>t, GotoAt DEF ActivateStatus, WillFile
<1>2. CASE VerifyDocument(w) \/ FinalizeCommit(w)
  BY <1>2, <1>t, GotoAt DEF VerifyDocument, FinalizeCommit, WillFile
<1>3. CASE ~ActivateStatus(w) /\ ~VerifyDocument(w) /\ ~FinalizeCommit(w)
  <2>1. status = "Active"
    BY <1>3, WhoTouchesStatus DEF SetStatus, FinalizeStatus, HireInv, SettlingIsModest
  <2>2. d \in docs
    BY <1>3, VerifiedBefore
  <2>3. d.name \notin FiledNames
    BY FiledStays
  <2>4. PICK v \in Workers : WillFile(v, d)
    BY <1>0, <2>1, <2>2, <2>3 DEF PaperworkComes
  <2>5. CASE v = w
    <3>1. Handle(w)
      BY <1>t, <2>4, <2>5, ArriveGoes DEF WillFile
    <3> QED
      BY <1>0, <2>1, <2>2, <2>3, <2>4, <2>5, <3>1, FilerStep
  <2>6. CASE v # w
    BY <1>t, <2>4, <2>6, OthersKeep, FiledStays DEF WillFile
  <2> QED
    BY <2>5, <2>6
<1> QED
  BY <1>1, <1>2, <1>3

LEMMA PaperworkInduction == Spec => []PaperworkComes
<1>1. Init => PaperworkComes
  BY DEF Init, PaperworkComes
<1>2. CustodyInv /\ HireInv /\ PaperworkComes /\ [Next]_vars => PaperworkComes'
  <2> SUFFICES ASSUME CustodyInv, HireInv, PaperworkComes, [Next]_vars PROVE PaperworkComes'
    OBVIOUS
  <2>1. ASSUME NEW w \in Workers, Arrive(w) \/ Handle(w) PROVE PaperworkComes'
    BY <2>1, PaperworkStep
  <2>2. ASSUME NEW w \in Workers, Die(w) PROVE PaperworkComes'
    BY <2>2 DEF Die, PaperworkComes
  <2>3. CASE /\ hire' # "none"
             /\ UNCHANGED <<status, docs, vault, died, pc, locals>>
    BY <2>3 DEF PaperworkComes, WillFile, FiledNames, locals
  <2>4. CASE UNCHANGED vars
    BY <2>4 DEF PaperworkComes, WillFile, FiledNames, locals, vars, case
  <2> QED
    BY <2>1, <2>2, <2>3, <2>4, StepBy
<1> QED
  BY <1>1, <1>2, CustodyInduction, HireInduction, PTL DEF Spec

(* Once nothing is in flight and nothing died, an active hire's verified    *)
(* documents are in the vault by name, even when HR's late verification     *)
(* and the activation crossed: verify-document.command.ts writes the        *)
(* document before it reads the status, activate.command.ts the status      *)
(* before it reads the documents.                                           *)
THEOREM PaperworkAlwaysFiled == Spec => []PaperworkFiled
<1>1. PaperworkComes => PaperworkFiled
  BY DEF PaperworkComes, PaperworkFiled, WillFile, Quiet, InFlight, AtAwait
<1> QED
  BY <1>1, PaperworkInduction, PTL
===============================================================================
