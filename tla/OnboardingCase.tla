---------------------------- MODULE OnboardingCase ----------------------------
(***************************************************************************)
(* One preboarding case: its status, wizard forms, checklist, documents    *)
(* and the paperwork filed to the hire's vault, under requests of the hire *)
(* (by-token routes) and of HR that run at the same time.                  *)
(*                                                                         *)
(* Every command handler of contexts/onboarding is a chain of awaited      *)
(* database calls, none of which spans a read and the write that depends   *)
(* on it.  Each action below is one such call; a worker is one request in  *)
(* flight, pc[w] is the await it is parked at, and the other per-worker    *)
(* variables are the JavaScript locals it carries across awaits.  A        *)
(* request arrives together with its first call, so an idle worker holds   *)
(* nothing.                                                                *)
(*                                                                         *)
(* Abstracted: the audit trail, consent entries and attached policies (no  *)
(* gate reads them), the profile's contents and the writing of the         *)
(* Employee and User rows, which HireProvisioning models await by await;   *)
(* here the hire's record is only absent, pre-hire or listed as active.    *)
(***************************************************************************)
EXTENDS Naturals, Sequences

CONSTANTS
    Workers,        \* requests that can be in flight at the same time
    FormKeys,       \* FORM_KEYS, the wizard's forms
    ProfileForms,   \* the forms the new-hire form marks by itself
    UploadKinds,    \* UPLOAD_KINDS, what the hire may upload
    Extensions,     \* the file extensions an upload may carry
    SubmittedKinds, \* what generateSubmittedDocuments lists, in order
    ChequeKind,     \* the one of them that HR has to verify
    ChecklistInputs,\* the one-task checklists HR may send
    MaxDocs,        \* bound: document rows created in a behaviour
    MaxTasks,       \* bound: checklist rows created in a behaviour
    Failures        \* TRUE when a request may die between two awaits

ASSUME ParametersAssumption ==
    /\ ProfileForms \subseteq FormKeys
    /\ Len(SubmittedKinds) \in Nat
    /\ ChecklistInputs \subseteq [blocking : BOOLEAN, status : {"Pending", "Completed"}]
    /\ MaxDocs \in Nat
    /\ MaxTasks \in Nat \ {0}
    /\ Failures \in BOOLEAN

(* No single request completes the wizard. *)
ASSUME WizardAssumption ==
    /\ ProfileForms # FormKeys
    /\ \A key \in FormKeys : FormKeys # {key}

VARIABLES
    status,     \* OnboardingCase.status
    forms,      \* the form flags that are true
    tasks,      \* ChecklistTask rows
    docs,       \* CaseDocument rows, each with the file it holds
    hire,       \* the linked Employee: absent, pre-hire or active
    vault,      \* VaultDocument rows filed for the hire
    approved,   \* history: the files HR's decision or the generator verified
    shown,      \* history: which file HR may have seen under which row id
    solo,       \* history: the last request to arrive ran alone and unharmed
    died,       \* history: a request has died
    nextDoc,    \* the next document row's id
    nextTask,   \* the next checklist row's id
    pc,         \* the await each request is parked at
    snapForms,  \* the form flags a request read
    newStatus,  \* the status settle decided to write
    row,        \* the document a request carries; its id is the first of the
                \* row ids a request is about to create
    victims,    \* the rows a replace transaction found to delete
    copies,     \* the verified documents still to be filed
    next        \* where a request goes after filing

case == <<status, forms, tasks, docs, hire, vault, approved, shown>>
ids == <<nextDoc, nextTask>>
locals == <<snapForms, newStatus, row, victims, copies, next>>
vars == <<case, solo, died, ids, pc, locals>>
-------------------------------------------------------------------------------
CaseStatus == {"Invited", "Forms In Progress", "Pending Verification",
               "Ready to Activate", "Active"}
DocStatus == {"Pending", "Needs Verification", "Verified"}
TaskStatus == {"Pending", "Completed"}  \* "In-Progress" opens no gate that "Pending" does not

(* A stored name: an upload keeps the uploader's extension in it, so one   *)
(* kind has as many names as extensions; generated names are fixed.        *)
GeneratedKinds == {ChequeKind} \union {SubmittedKinds[i] : i \in 1..Len(SubmittedKinds)}
DocNames == (UploadKinds \X Extensions) \union (GeneratedKinds \X {"generated"})

DocRows == [id : Nat, file : Nat, name : DocNames, status : DocStatus]
TaskRows == [id : Nat, blocking : BOOLEAN, status : TaskStatus]
VaultRows == [file : Nat, name : DocNames, by : Workers]

PCs == {"idle", "markForm", "submit", "upload.delete", "upload.commit",
        "finalize.delete", "finalize.commit", "finalize.status",
        "verify.read", "checklist.commit", "activate.status", "activate.hire",
        "heal", "publish.docs", "publish.have", "publish.file",
        "settle", "setStatus"}

NoRow == [id |-> 0, file |-> 0, name |-> <<ChequeKind, "generated">>,
          status |-> "Pending"]

CaseTypeOK ==
    /\ status \in CaseStatus
    /\ forms \subseteq FormKeys
    /\ tasks \subseteq TaskRows
    /\ docs \subseteq DocRows
    /\ hire \in {"none", "PRE_HIRE", "ACTIVE"}
    /\ vault \subseteq VaultRows
    /\ approved \subseteq Nat
    /\ shown \subseteq [id : Nat, file : Nat]
    /\ solo \in BOOLEAN
    /\ died \in BOOLEAN
    /\ nextDoc \in Nat
    /\ nextTask \in Nat

RequestTypeOK ==
    /\ pc \in [Workers -> PCs]
    /\ snapForms \in [Workers -> SUBSET FormKeys]
    /\ newStatus \in [Workers -> CaseStatus]
    /\ row \in [Workers -> DocRows]
    /\ victims \in [Workers -> SUBSET Nat]
    /\ copies \in [Workers -> SUBSET DocRows]
    /\ next \in [Workers -> {"settle", "idle"}]

TypeOK == CaseTypeOK /\ RequestTypeOK
-------------------------------------------------------------------------------
(* domain/onboarding-status.ts *)

FormsDone == forms = FormKeys
BlockingDone == \A t \in tasks : t.blocking => t.status = "Completed"
AllVerified == \A d \in docs : d.status = "Verified"

canActivate == FormsDone /\ BlockingDone /\ AllVerified

nextStatus ==
    CASE status = "Active" -> "Active"
      [] status = "Invited" -> IF forms = {} THEN "Invited" ELSE "Forms In Progress"
      [] status \notin {"Active", "Invited"} /\ ~FormsDone -> "Forms In Progress"
      [] status \notin {"Active", "Invited"} /\ FormsDone ->
            IF canActivate THEN "Ready to Activate" ELSE "Pending Verification"
-------------------------------------------------------------------------------
Goto(w, label) == pc' = [pc EXCEPT ![w] = label]
AtAwait(w, label) == pc[w] = label

(* A continuation that needs none of the locals. *)
Forget(w) ==
    /\ snapForms' = [snapForms EXCEPT ![w] = {}]
    /\ newStatus' = [newStatus EXCEPT ![w] = "Invited"]
    /\ row' = [row EXCEPT ![w] = NoRow]
    /\ victims' = [victims EXCEPT ![w] = {}]
    /\ copies' = [copies EXCEPT ![w] = {}]
    /\ next' = [next EXCEPT ![w] = "idle"]

Answer(w) == Goto(w, "idle") /\ Forget(w)
ThenSettle(w) == Goto(w, "settle") /\ Forget(w)

(* createCase: an invited case with the generated checklist. *)
Init ==
    /\ status = "Invited"
    /\ forms = {}
    /\ tasks = {[id |-> 1, blocking |-> TRUE, status |-> "Pending"]}
    /\ docs = {}
    /\ hire = "none"
    /\ vault = {}
    /\ approved = {}
    /\ shown = {}
    /\ solo = TRUE
    /\ died = FALSE
    /\ nextDoc = 1
    /\ nextTask = 2
    /\ pc = [w \in Workers |-> "idle"]
    /\ snapForms = [w \in Workers |-> {}]
    /\ newStatus = [w \in Workers |-> "Invited"]
    /\ row = [w \in Workers |-> NoRow]
    /\ victims = [w \in Workers |-> {}]
    /\ copies = [w \in Workers |-> {}]
    /\ next = [w \in Workers |-> "idle"]
-------------------------------------------------------------------------------
(* settle: read the case, derive its status, write it when it differs.     *)
(* The write is unconditional: it does not look at the status again.       *)

SettleRead(w) ==
    /\ AtAwait(w, "settle")
    /\ IF nextStatus = status
         THEN Answer(w)
         ELSE /\ newStatus' = [newStatus EXCEPT ![w] = nextStatus]
              /\ Goto(w, "setStatus")
              /\ UNCHANGED <<snapForms, row, victims, copies, next>>
    /\ UNCHANGED <<case, ids>>

SetStatus(w) ==
    /\ AtAwait(w, "setStatus")
    /\ status' = newStatus[w]
    /\ Answer(w)
    /\ UNCHANGED <<forms, tasks, docs, hire, vault, approved, shown, ids>>
-------------------------------------------------------------------------------
(* The hire's requests *)

(* AcceptInviteHandler: the hire gets a pre-hire record and a login. *)
AcceptInvite ==
    /\ hire = "none"
    /\ hire' = "PRE_HIRE"
    /\ UNCHANGED <<status, forms, tasks, docs, vault, approved, shown,
                   ids, pc, locals>>

MarkFormRead(w) ==
    /\ AtAwait(w, "idle")
    /\ snapForms' = [snapForms EXCEPT ![w] = forms]
    /\ Goto(w, "markForm")
    /\ UNCHANGED <<case, ids, newStatus, row, victims, copies, next>>

MarkFormWrite(w) ==
    /\ AtAwait(w, "markForm")
    /\ \E key \in FormKeys : forms' = snapForms[w] \union {key}
    /\ ThenSettle(w)
    /\ UNCHANGED <<status, tasks, docs, hire, vault, approved, shown, ids>>

(* SubmitProfileHandler: refused once the case is active. *)
SubmitProfileRead(w) ==
    /\ AtAwait(w, "idle")
    /\ status # "Active"
    /\ snapForms' = [snapForms EXCEPT ![w] = forms]
    /\ Goto(w, "submit")
    /\ UNCHANGED <<case, ids, newStatus, row, victims, copies, next>>

SubmitProfileWrite(w) ==
    /\ AtAwait(w, "submit")
    /\ forms' = snapForms[w] \union ProfileForms
    /\ ThenSettle(w)
    /\ UNCHANGED <<status, tasks, docs, hire, vault, approved, shown, ids>>

(* UploadCaseDocumentHandler: refused once the case is active. *)
UploadRead(w) ==
    /\ AtAwait(w, "idle")
    /\ status # "Active"
    /\ nextDoc <= MaxDocs
    /\ \E name \in UploadKinds \X Extensions :
         row' = [row EXCEPT ![w] = [id |-> nextDoc, file |-> nextDoc,
                                    name |-> name, status |-> "Needs Verification"]]
    /\ nextDoc' = nextDoc + 1
    /\ Goto(w, "upload.delete")
    /\ UNCHANGED <<case, nextTask, snapForms, newStatus, victims, copies, next>>

(* upsertCaseFile's transaction: under READ COMMITTED its DELETE sees the  *)
(* rows committed when it starts, and its effect appears at commit.        *)
UploadDelete(w) ==
    /\ AtAwait(w, "upload.delete")
    /\ victims' = [victims EXCEPT ![w] = {d.id : d \in {e \in docs : e.name = row[w].name}}]
    /\ Goto(w, "upload.commit")
    /\ UNCHANGED <<case, ids, snapForms, newStatus, row, copies, next>>

Show(rows) == shown' = shown \union {[id |-> d.id, file |-> d.file] : d \in rows}

Surviving(w) == {d \in docs : d.id \notin victims[w]}

(* Mutant: a re-upload updates the row in place and keeps its id. *)
UploadCommitInPlace(w) ==
    /\ AtAwait(w, "upload.commit")
    /\ docs' = IF \E d \in docs : d.name = row[w].name
                 THEN {IF d.name = row[w].name THEN [row[w] EXCEPT !.id = d.id]
                                               ELSE d : d \in docs}
                 ELSE docs \union {row[w]}
    /\ Show(docs')
    /\ ThenSettle(w)
    /\ UNCHANGED <<status, forms, tasks, hire, vault, approved, ids>>

UploadCommit(w) ==
    /\ AtAwait(w, "upload.commit")
    /\ docs' = Surviving(w) \union {row[w]}
    /\ Show(docs')
    /\ ThenSettle(w)
    /\ UNCHANGED <<status, forms, tasks, hire, vault, approved, ids>>

(* FinalizeSubmissionHandler: a replay after submission returns at once.   *)
FinalizeRead(w) ==
    /\ AtAwait(w, "idle")
    /\ status \in {"Invited", "Forms In Progress"}
    /\ nextDoc + Len(SubmittedKinds) <= MaxDocs + 1
    /\ row' = [row EXCEPT ![w].id = nextDoc]
    /\ nextDoc' = nextDoc + Len(SubmittedKinds)
    /\ Goto(w, "finalize.delete")
    /\ UNCHANGED <<case, nextTask, snapForms, newStatus, victims, copies, next>>

FinalizeDelete(w) ==
    /\ AtAwait(w, "finalize.delete")
    /\ victims' = [victims EXCEPT ![w] = {d.id : d \in docs}]
    /\ Goto(w, "finalize.commit")
    /\ UNCHANGED <<case, ids, snapForms, newStatus, row, copies, next>>

(* generateSubmittedDocuments: everything but the void cheque is verified. *)
SubmittedDocuments(base) ==
    {[id |-> base + i - 1, file |-> base + i - 1,
      name |-> <<SubmittedKinds[i], "generated">>,
      status |-> IF SubmittedKinds[i] = ChequeKind THEN "Needs Verification"
                                                   ELSE "Verified"]
        : i \in 1..Len(SubmittedKinds)}

FilesVerifiedIn(rows) == {d.file : d \in {e \in rows : e.status = "Verified"}}

FinalizeCommit(w) ==
    /\ AtAwait(w, "finalize.commit")
    /\ LET generated == SubmittedDocuments(row[w].id)
       IN  /\ docs' = Surviving(w) \union generated
           /\ approved' = approved \union FilesVerifiedIn(generated)
    /\ Show(docs')
    /\ Goto(w, "finalize.status")
    /\ UNCHANGED <<status, forms, tasks, hire, vault, ids, locals>>

FinalizeStatus(w) ==
    /\ AtAwait(w, "finalize.status")
    /\ status' = "Pending Verification"
    /\ ThenSettle(w)
    /\ UNCHANGED <<forms, tasks, docs, hire, vault, approved, shown, ids>>
-------------------------------------------------------------------------------
(* HR's requests *)

SetDocStatus(id, new) ==
    docs' = {IF d.id = id THEN [d EXCEPT !.status = new] ELSE d : d \in docs}

OnCase(id) == \E d \in docs : d.id = id

(* HR looks at a document on screen and decides later, by the row's id;    *)
(* by then another file may have taken its place.  An unknown row is a     *)
(* 404, which changes nothing.                                             *)
VerifyDocument(w) ==
    /\ AtAwait(w, "idle")
    /\ \E seen \in shown :
         /\ OnCase(seen.id)
         /\ SetDocStatus(seen.id, "Verified")
         /\ approved' = approved \union {seen.file}
    /\ Goto(w, "verify.read")
    /\ UNCHANGED <<status, forms, tasks, hire, vault, shown, ids, locals>>

(* Mutant: a late verification is left to the activation. *)
VerifyReadWithoutFiling(w) ==
    /\ AtAwait(w, "verify.read")
    /\ ThenSettle(w)
    /\ UNCHANGED <<case, ids>>

(* A late verification is filed at once; otherwise activation files it. *)
VerifyRead(w) ==
    /\ AtAwait(w, "verify.read")
    /\ IF status = "Active"
         THEN /\ Goto(w, "publish.docs")
              /\ next' = [next EXCEPT ![w] = "settle"]
              /\ UNCHANGED <<snapForms, newStatus, row, victims, copies>>
         ELSE ThenSettle(w)
    /\ UNCHANGED <<case, ids>>

(* RejectDocumentHandler: parked as Pending, still blocking activation. *)
RejectDocument(w) ==
    /\ AtAwait(w, "idle")
    /\ \E d \in docs : SetDocStatus(d.id, "Pending")
    /\ ThenSettle(w)
    /\ UNCHANGED <<status, forms, tasks, hire, vault, approved, shown, ids>>

SetTaskStatus(w) ==
    /\ AtAwait(w, "idle")
    /\ \E t \in tasks, new \in TaskStatus :
         tasks' = (tasks \ {t}) \union {[t EXCEPT !.status = new]}
    /\ ThenSettle(w)
    /\ UNCHANGED <<status, forms, docs, hire, vault, approved, shown, ids>>

(* Mutant: the handler forgets to settle. *)
DeleteTaskUnsettled(w) ==
    /\ AtAwait(w, "idle")
    /\ \E t \in tasks : tasks' = tasks \ {t}
    /\ UNCHANGED <<status, forms, docs, hire, vault, approved, shown, ids, pc, locals>>

DeleteTask(w) ==
    /\ AtAwait(w, "idle")
    /\ \E t \in tasks : tasks' = tasks \ {t}
    /\ ThenSettle(w)
    /\ UNCHANGED <<status, forms, docs, hire, vault, approved, shown, ids>>

(* SetChecklistHandler: replaceChecklist deletes and re-creates every row. *)
ChecklistDelete(w) ==
    /\ AtAwait(w, "idle")
    /\ nextTask <= MaxTasks
    /\ victims' = [victims EXCEPT ![w] = {t.id : t \in tasks}]
    /\ row' = [row EXCEPT ![w].id = nextTask]
    /\ nextTask' = nextTask + 1
    /\ Goto(w, "checklist.commit")
    /\ UNCHANGED <<case, nextDoc, snapForms, newStatus, copies, next>>

ChecklistCommit(w) ==
    /\ AtAwait(w, "checklist.commit")
    /\ \E new \in ChecklistInputs :
         tasks' = {t \in tasks : t.id \notin victims[w]}
                    \union {[id |-> row[w].id, blocking |-> new.blocking,
                              status |-> new.status]}
    /\ ThenSettle(w)
    /\ UNCHANGED <<status, forms, docs, hire, vault, approved, shown, ids>>

(* TogglePolicyHandler, and the hire's AddConsentHandler: what they write  *)
(* is no gate; they settle the case like everyone else.                    *)
TouchCase(w) ==
    /\ AtAwait(w, "idle")
    /\ ThenSettle(w)
    /\ UNCHANGED <<case, ids>>
-------------------------------------------------------------------------------
(* ActivateHandler: the gates are checked on the case as first read. *)

(* Mutant: the gates are only shown on the screen. *)
ActivateReadUngated(w) ==
    /\ AtAwait(w, "idle")
    /\ IF status = "Active" THEN Goto(w, "heal") ELSE Goto(w, "activate.status")
    /\ UNCHANGED <<case, ids, locals>>

ActivateRead(w) ==
    /\ AtAwait(w, "idle")
    /\ \/ status = "Active" /\ Goto(w, "heal")
       \/ status # "Active" /\ canActivate /\ Goto(w, "activate.status")
    /\ UNCHANGED <<case, ids, locals>>

ActivateStatus(w) ==
    /\ AtAwait(w, "activate.status")
    /\ status' = "Active"
    /\ Goto(w, "activate.hire")
    /\ UNCHANGED <<forms, tasks, docs, hire, vault, approved, shown,
                   ids, locals>>

(* Mutant: a hire who never accepted is not provisioned. *)
ActivateAcceptedHire(w) ==
    /\ AtAwait(w, "activate.hire")
    /\ hire' = IF hire = "none" THEN "none" ELSE "ACTIVE"
    /\ Goto(w, "publish.docs")
    /\ UNCHANGED <<status, forms, tasks, docs, vault, approved, shown,
                   ids, locals>>

(* provisionEmployee, then activateEmployee when the record was there. *)
ActivateHire(w) ==
    /\ AtAwait(w, "activate.hire")
    /\ hire' = "ACTIVE"
    /\ Goto(w, "publish.docs")
    /\ UNCHANGED <<status, forms, tasks, docs, vault, approved, shown,
                   ids, locals>>

(* A replay on an active case: a record it had to create gets the vault    *)
(* copies; one that was still pre-hire is only promoted.                   *)
Heal(w) ==
    /\ AtAwait(w, "heal")
    /\ hire' = "ACTIVE"
    /\ IF hire = "none" THEN Goto(w, "publish.docs") /\ UNCHANGED locals
                        ELSE Answer(w)
    /\ UNCHANGED <<status, forms, tasks, docs, vault, approved, shown, ids>>
-------------------------------------------------------------------------------
(* publishVerifiedDocsToVault: read the case's verified documents, read    *)
(* what the vault already has by name, file the rest one row at a time.    *)

AfterFiling(w) ==
    IF next[w] = "settle"
      THEN ThenSettle(w)
      ELSE Answer(w)

(* Mutant: every document of the case is filed. *)
PublishAllDocs(w) ==
    /\ AtAwait(w, "publish.docs")
    /\ IF hire = "none" \/ docs = {}
         THEN AfterFiling(w)
         ELSE /\ copies' = [copies EXCEPT ![w] = docs]
              /\ Goto(w, "publish.have")
              /\ UNCHANGED <<snapForms, newStatus, row, victims, next>>
    /\ UNCHANGED <<case, ids>>

PublishDocs(w) ==
    /\ AtAwait(w, "publish.docs")
    /\ LET verified == {d \in docs : d.status = "Verified"}
       IN  IF hire = "none" \/ verified = {}
             THEN AfterFiling(w)
             ELSE /\ copies' = [copies EXCEPT ![w] = verified]
                  /\ Goto(w, "publish.have")
                  /\ UNCHANGED <<snapForms, newStatus, row, victims, next>>
    /\ UNCHANGED <<case, ids>>

FiledNames == {v.name : v \in vault}

PublishHave(w) ==
    /\ AtAwait(w, "publish.have")
    /\ copies' = [copies EXCEPT ![w] = {d \in @ : d.name \notin FiledNames}]
    /\ Goto(w, "publish.file")
    /\ UNCHANGED <<case, ids, snapForms, newStatus, row, victims, next>>

(* "by" tells the copies two requests file of one document apart. *)
PublishFile(w) ==
    /\ AtAwait(w, "publish.file")
    /\ IF copies[w] = {}
         THEN AfterFiling(w) /\ UNCHANGED vault
         ELSE /\ \E d \in copies[w] :
                   /\ vault' = vault \union {[file |-> d.file, name |-> d.name, by |-> w]}
                   /\ copies' = [copies EXCEPT ![w] = @ \ {d}]
              /\ UNCHANGED <<pc, snapForms, newStatus, row, victims, next>>
    /\ UNCHANGED <<status, forms, tasks, docs, hire, approved, shown, ids>>
-------------------------------------------------------------------------------
InFlight(w) == ~AtAwait(w, "idle")

(* What the hire and HR ask for. *)
Arrive(w) ==
    /\ \/ MarkFormRead(w) \/ SubmitProfileRead(w) \/ UploadRead(w) \/ FinalizeRead(w)
       \/ VerifyDocument(w) \/ RejectDocument(w)
       \/ SetTaskStatus(w) \/ DeleteTask(w) \/ ChecklistDelete(w) \/ TouchCase(w)
       \/ ActivateRead(w)
    /\ solo' = (\A v \in Workers \ {w} : ~InFlight(v))
    /\ UNCHANGED died

(* What a handler does once its request has arrived. *)
Handle(w) ==
    /\ \/ SettleRead(w) \/ SetStatus(w)
       \/ MarkFormWrite(w) \/ SubmitProfileWrite(w)
       \/ UploadDelete(w) \/ UploadCommit(w)
       \/ FinalizeDelete(w) \/ FinalizeCommit(w) \/ FinalizeStatus(w)
       \/ VerifyRead(w) \/ ChecklistCommit(w)
       \/ ActivateStatus(w) \/ ActivateHire(w) \/ Heal(w)
       \/ PublishDocs(w) \/ PublishHave(w) \/ PublishFile(w)
    /\ UNCHANGED <<solo, died>>

(* The process restarts, or a call fails: the request dies where it is.    *)
(* Bound: one death in a behaviour.                                        *)
Die(w) ==
    /\ Failures /\ ~died
    /\ InFlight(w)
    /\ Answer(w)
    /\ died' = TRUE
    /\ solo' = FALSE
    /\ UNCHANGED <<case, ids>>

Next ==
    \/ AcceptInvite /\ UNCHANGED <<solo, died>>
    \/ \E w \in Workers : Arrive(w) \/ Handle(w) \/ Die(w)

Spec == Init /\ [][Next]_vars
-------------------------------------------------------------------------------
(* Properties *)

Quiet == \A w \in Workers : ~InFlight(w)

(* Only paperwork HR vouched for (or the generator signed) reaches the     *)
(* hire's vault, whatever is re-uploaded, rejected or regenerated while    *)
(* publishVerifiedDocsToVault is on its way; and nothing leaves the vault. *)
Custody == INSTANCE DocumentCustody WITH filed <- {v.file : v \in vault}
CustodyKept == Custody!Spec

(* A verified document holds the file HR had on screen when deciding: a    *)
(* re-upload that lands between HR's look and HR's click is not verified   *)
(* unseen, because upsertCaseFile gives the new file a row of its own.     *)
VerifiedWasSeen == FilesVerifiedIn(docs) \subseteq approved

(* Once nothing is in flight, an active hire's verified documents are in   *)
(* the vault by name, even when a verification and the activation crossed: *)
(* the activation writes the status before it reads the documents and the  *)
(* verification writes the document before it reads the status.            *)
PaperworkFiled ==
    Quiet /\ ~died /\ status = "Active"
        => \A d \in docs : d.status = "Verified" => d.name \in FiledNames

(* A case still active when nothing is in flight has a listed employee:    *)
(* the status is never the only thing an activation leaves behind, however *)
(* other requests demote or re-promote the case around it.                 *)
ActiveIsHired ==
    Quiet /\ ~died /\ status = "Active" => hire = "ACTIVE"

(* Settling heals: one request that runs alone leaves the status derived   *)
(* from the forms, the checklist and the documents, whatever an earlier    *)
(* race had left there.  (Not so after a death: forms that were completed  *)
(* but not settled on an invited case take two settles, since nextStatus   *)
(* goes one step at a time from Invited.)                                  *)
StatusSettled == Quiet /\ solo /\ ~died => status = nextStatus

(* A request running alone turns a case active only with every gate clear. *)
ActivatedThroughGates ==
    [][status # "Active" /\ status' = "Active" /\ solo => canActivate]_vars

===============================================================================
