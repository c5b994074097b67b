----------------------------- MODULE Requisition -----------------------------
(***************************************************************************)
(* One requisition of contexts/recruitment, from draft to deletion: it is  *)
(* edited, submitted to its named approvers, decided, published, applied   *)
(* to.  Each action is one awaited call of RecruitmentRepository; what a   *)
(* request read before is in req[w], and its guards are not checked again  *)
(* when it writes.  A transaction is one action, except the deletion,      *)
(* whose two statements an application can come between.                   *)
(*                                                                         *)
(* Abstracted: who the actor is (guards on roles), archiving and the cost  *)
(* of hire (no handler here reads them), the wording of title and          *)
(* description (a description is there or not, a salary band is posted or  *)
(* not), the hiring team, and what follows an application's counting.      *)
(***************************************************************************)
EXTENDS Naturals, FiniteSets

CONSTANTS
    Workers,         \* requests that can be in flight at the same time
    Approvers,       \* employees a requisition may name
    ApproverLists,   \* the lists of them a form may carry
    MaxEditions,     \* bound: replacements of the approver list
    MaxApplications, \* bound: applications
    Failures         \* TRUE when a request may die between two awaits

ASSUME RequisitionAssumption ==
    /\ ApproverLists \subseteq SUBSET Approvers
    /\ MaxEditions \in Nat
    /\ MaxApplications \in Nat
    /\ Failures \in BOOLEAN

VARIABLES
    status,     \* Requisition.status, "deleted" without a row
    band,       \* a salary range is posted (neither bound is 0)
    jd,         \* there is a job description
    approvals,  \* RequisitionApproval rows; replacing the list makes new rows,
                \* so a row is known by its approver and the list's edition
    edition,    \* how often the list was replaced
    applicants, \* Requisition.applicants, the counter
    candidates, \* Candidate rows under the requisition
    orphans,    \* Candidate rows whose requisition is gone
    nextCandidate,
    req,        \* the requests in flight
    unanimous,  \* history: all named approvers had approved at one time
    solo,       \* history: the last request to arrive ran alone and unharmed
    died        \* history: a request has died

posting == <<status, band, jd>>
list == <<approvals, edition>>
pipeline == <<applicants, candidates, orphans, nextCandidate>>
vars == <<posting, list, pipeline, req, unanimous, solo, died>>
-------------------------------------------------------------------------------
ReqStatus == {"Draft", "Pending Approval", "Approved", "Published"}
Decision == {"Pending", "Approved", "Rejected"}

Approvals == [edition : Nat, approver : Approvers, decision : Decision]

Awaits == {"idle", "edit", "submit", "decide", "decide.settle", "decide.approve",
           "decide.reject", "publishing", "publish", "delete.candidates",
           "delete.commit", "apply.create", "apply.count"}

Idle == [at |-> "idle", wasDraft |-> FALSE, mine |-> {}, victims |-> {}, candidate |-> 0]

Requests == [at : Awaits,
             wasDraft : BOOLEAN,       \* the requisition was a draft when read
             mine : SUBSET Approvals,  \* the approver's row as it will be
             victims : SUBSET Nat,     \* the candidates found to delete
             candidate : Nat]          \* the candidate an application creates

TypeOK ==
    /\ status \in ReqStatus \union {"deleted"}
    /\ band \in BOOLEAN
    /\ jd \in BOOLEAN
    /\ approvals \subseteq Approvals
    /\ edition \in Nat
    /\ applicants \in Nat
    /\ candidates \subseteq Nat
    /\ orphans \subseteq Nat
    /\ nextCandidate \in Nat
    /\ req \in [Workers -> Requests]
    /\ unanimous \in BOOLEAN
    /\ solo \in BOOLEAN
    /\ died \in BOOLEAN

Exists == status # "deleted"

Undecided(approvers, ed) ==
    {[edition |-> ed, approver |-> a, decision |-> "Pending"] : a \in approvers}

(* Mutant: an empty list counts as approved by all. *)
settleVacuously(rows) ==
    IF \E a \in rows : a.decision = "Rejected" THEN "rejected"
    ELSE IF \A a \in rows : a.decision = "Approved" THEN "approved"
    ELSE "pending"

settleApprovals(rows) ==
    IF \E a \in rows : a.decision = "Rejected" THEN "rejected"
    ELSE IF rows # {} /\ \A a \in rows : a.decision = "Approved" THEN "approved"
    ELSE "pending"

AllApproved(rows) == rows # {} /\ \A a \in rows : a.decision = "Approved"
-------------------------------------------------------------------------------
AtAwait(w, label) == req[w].at = label
Goto(w, label) == req' = [req EXCEPT ![w].at = label]
Answer(w) == req' = [req EXCEPT ![w] = Idle]
InFlight(w) == ~AtAwait(w, "idle")

(* createRequisition *)
Init ==
    /\ status = "Draft"
    /\ band \in BOOLEAN
    /\ jd \in BOOLEAN
    /\ \E approvers \in ApproverLists : approvals = Undecided(approvers, 0)
    /\ edition = 0
    /\ applicants = 0
    /\ candidates = {}
    /\ orphans = {}
    /\ nextCandidate = 1
    /\ req = [w \in Workers |-> Idle]
    /\ unanimous = FALSE
    /\ solo = TRUE
    /\ died = FALSE
-------------------------------------------------------------------------------
(* updateRequisition: at any stage until the first application; the list   *)
(* of approvers is replaced only in a draft.                               *)

UpdateRequisition(w) ==
    /\ AtAwait(w, "idle")
    /\ Exists
    /\ applicants = 0
    /\ status = "Draft" => edition < MaxEditions
    /\ req' = [req EXCEPT ![w].at = "edit", ![w].wasDraft = (status = "Draft")]
    /\ UNCHANGED <<posting, list, pipeline, unanimous>>

UpdateWrite(w) ==
    /\ AtAwait(w, "edit")
    /\ IF Exists
         THEN /\ band' \in BOOLEAN
              /\ jd' \in BOOLEAN
              /\ IF req[w].wasDraft
                   THEN /\ edition' = edition + 1
                        /\ \E approvers \in ApproverLists :
                             approvals' = Undecided(approvers, edition + 1)
                   ELSE UNCHANGED list
         ELSE UNCHANGED <<band, jd, list>>
    /\ Answer(w)
    /\ UNCHANGED <<status, pipeline, unanimous>>
-------------------------------------------------------------------------------
(* submitForApproval: a draft that names someone and posts a band. *)

(* Mutant: a requisition past its draft can be submitted again. *)
SubmitAnything(w) ==
    /\ AtAwait(w, "idle")
    /\ Exists
    /\ approvals # {}
    /\ band
    /\ Goto(w, "submit")
    /\ UNCHANGED <<posting, list, pipeline, unanimous>>

SubmitForApproval(w) ==
    /\ AtAwait(w, "idle")
    /\ status = "Draft"
    /\ approvals # {}
    /\ band
    /\ Goto(w, "submit")
    /\ UNCHANGED <<posting, list, pipeline, unanimous>>

(* Mutant: earlier decisions survive a re-submission. *)
SubmitWithoutReset(w) ==
    /\ AtAwait(w, "submit")
    /\ status' = IF Exists THEN "Pending Approval" ELSE status
    /\ Answer(w)
    /\ UNCHANGED <<band, jd, list, pipeline, unanimous>>

SubmitWrite(w) ==
    /\ AtAwait(w, "submit")
    /\ IF Exists
         THEN /\ approvals' = {[a EXCEPT !.decision = "Pending"] : a \in approvals}
              /\ status' = "Pending Approval"
         ELSE UNCHANGED <<approvals, status>>
    /\ Answer(w)
    /\ UNCHANGED <<band, jd, edition, pipeline, unanimous>>
-------------------------------------------------------------------------------
(* decide: an approver's answer, then the settling of all of them. *)

Decide(w) ==
    /\ AtAwait(w, "idle")
    /\ status = "Pending Approval"
    /\ \E a \in approvals, decision \in {"Approved", "Rejected"} :
         /\ a.decision = "Pending"
         /\ req' = [req EXCEPT ![w].at = "decide",
                               ![w].mine = {[a EXCEPT !.decision = decision]}]
    /\ UNCHANGED <<posting, list, pipeline, unanimous>>

SameRow(a, b) == a.edition = b.edition /\ a.approver = b.approver

(* The row is updated by its id; a replaced one is gone and the call fails. *)
DecideWrite(w) ==
    /\ AtAwait(w, "decide")
    /\ \E mine \in req[w].mine :
         IF \E a \in approvals : SameRow(a, mine)
           THEN /\ approvals' = {a \in approvals : ~SameRow(a, mine)} \union {mine}
                /\ Goto(w, "decide.settle")
           ELSE UNCHANGED approvals /\ Answer(w)
    /\ unanimous' = (unanimous \/ AllApproved(approvals'))
    /\ UNCHANGED <<posting, edition, pipeline>>

DecideSettle(w) ==
    /\ AtAwait(w, "decide.settle")
    /\ CASE settleApprovals(approvals) = "approved" -> Goto(w, "decide.approve")
         [] settleApprovals(approvals) = "rejected" -> Goto(w, "decide.reject")
         [] settleApprovals(approvals) = "pending"  -> Answer(w)
    /\ UNCHANGED <<posting, list, pipeline, unanimous>>

(* The outcome is written whatever has become of the requisition.          *)
SetStatus(w, label, new) ==
    /\ AtAwait(w, label)
    /\ status' = IF Exists THEN new ELSE status
    /\ Answer(w)
    /\ UNCHANGED <<band, jd, list, pipeline, unanimous>>

DecideApprove(w) == SetStatus(w, "decide.approve", "Approved")
DecideReject(w) == SetStatus(w, "decide.reject", "Draft")
-------------------------------------------------------------------------------
(* updatePublishing and publish *)

UpdatePublishing(w) ==
    /\ AtAwait(w, "idle")
    /\ status \in {"Approved", "Published"}
    /\ Goto(w, "publishing")
    /\ UNCHANGED <<posting, list, pipeline, unanimous>>

PublishingWrite(w) ==
    /\ AtAwait(w, "publishing")
    /\ jd' \in IF Exists THEN BOOLEAN ELSE {jd}
    /\ Answer(w)
    /\ UNCHANGED <<status, band, list, pipeline, unanimous>>

Publish(w) ==
    /\ AtAwait(w, "idle")
    /\ status = "Approved"
    /\ jd /\ band
    /\ Goto(w, "publish")
    /\ UNCHANGED <<posting, list, pipeline, unanimous>>

PublishWrite(w) == SetStatus(w, "publish", "Published")
-------------------------------------------------------------------------------
(* deleteRequisition: "delete the role" also clears its pipeline. *)

DeleteRequisition(w) ==
    /\ AtAwait(w, "idle")
    /\ Exists
    /\ Goto(w, "delete.candidates")
    /\ UNCHANGED <<posting, list, pipeline, unanimous>>

(* Mutant: the candidates are left to the foreign key. *)
DeleteNoCandidates(w) ==
    /\ AtAwait(w, "delete.candidates")
    /\ Goto(w, "delete.commit")
    /\ UNCHANGED <<posting, list, pipeline, unanimous>>

(* The transaction's DELETE of the candidates it finds ... *)
DeleteCandidates(w) ==
    /\ AtAwait(w, "delete.candidates")
    /\ req' = [req EXCEPT ![w].at = "delete.commit", ![w].victims = candidates]
    /\ UNCHANGED <<posting, list, pipeline, unanimous>>

(* ... and of the row, whose approvals cascade, and whose later candidates *)
(* lose their requisition (onDelete: SetNull).  Both take effect at commit. *)
DeleteCommit(w) ==
    /\ AtAwait(w, "delete.commit")
    /\ IF Exists
         THEN /\ status' = "deleted"
              /\ approvals' = {}
              /\ applicants' = 0
              /\ candidates' = {}
              /\ orphans' = orphans \union (candidates \ req[w].victims)
         ELSE UNCHANGED <<status, approvals, applicants, candidates, orphans>>
    /\ Answer(w)
    /\ UNCHANGED <<band, jd, edition, nextCandidate, unanimous>>
-------------------------------------------------------------------------------
(* apply: the candidate first, which needs the requisition's row, then the *)
(* counter.                                                                *)

Apply(w) ==
    /\ AtAwait(w, "idle")
    /\ status = "Published"
    /\ nextCandidate <= MaxApplications
    /\ req' = [req EXCEPT ![w].at = "apply.create", ![w].candidate = nextCandidate]
    /\ nextCandidate' = nextCandidate + 1
    /\ UNCHANGED <<posting, list, applicants, candidates, orphans, unanimous>>

ApplyCreate(w) ==
    /\ AtAwait(w, "apply.create")
    /\ IF Exists
         THEN candidates' = candidates \union {req[w].candidate} /\ Goto(w, "apply.count")
         ELSE UNCHANGED candidates /\ Answer(w)
    /\ UNCHANGED <<posting, list, applicants, orphans, nextCandidate, unanimous>>

ApplyCount(w) ==
    /\ AtAwait(w, "apply.count")
    /\ applicants' = IF Exists THEN applicants + 1 ELSE applicants
    /\ Answer(w)
    /\ UNCHANGED <<posting, list, candidates, orphans, nextCandidate, unanimous>>
-------------------------------------------------------------------------------
Arrive(w) ==
    /\ \/ UpdateRequisition(w) \/ SubmitForApproval(w) \/ Decide(w)
       \/ UpdatePublishing(w) \/ Publish(w) \/ DeleteRequisition(w) \/ Apply(w)
    /\ solo' = (\A v \in Workers \ {w} : ~InFlight(v))
    /\ UNCHANGED died

Handle(w) ==
    /\ \/ UpdateWrite(w) \/ SubmitWrite(w)
       \/ DecideWrite(w) \/ DecideSettle(w) \/ DecideApprove(w) \/ DecideReject(w)
       \/ PublishingWrite(w) \/ PublishWrite(w)
       \/ DeleteCandidates(w) \/ DeleteCommit(w)
       \/ ApplyCreate(w) \/ ApplyCount(w)
    /\ UNCHANGED <<solo, died>>

(* The process restarts, or a call fails.  Bound: one death.  A transaction *)
(* that dies leaves nothing behind.                                        *)
Die(w) ==
    /\ Failures /\ ~died
    /\ InFlight(w)
    /\ Answer(w)
    /\ died' = TRUE
    /\ solo' = FALSE
    /\ UNCHANGED <<posting, list, pipeline, unanimous>>

Next == \E w \in Workers : Arrive(w) \/ Handle(w) \/ Die(w)

Spec == Init /\ [][Next]_vars
-------------------------------------------------------------------------------
(* Properties *)

Quiet == \A w \in Workers : ~InFlight(w)

(* "A requisition advances only when every named approver has approved":   *)
(* whatever lists, submissions and late decisions crossed, a requisition   *)
(* that is approved or published once had them all.                        *)
EverUnanimous == status \in {"Approved", "Published"} => unanimous

(* Decisions that cross settle: when nothing is in flight, a requisition   *)
(* does not await approval with every approver's approval, or a rejection, *)
(* already in.                                                             *)
DecisionsSettle ==
    Quiet /\ ~died /\ status = "Pending Approval" => settleApprovals(approvals) = "pending"

(* A deletion with no application under way leaves no candidate behind.    *)
PipelineCleared == [][solo => orphans' = orphans]_vars

(* A posting candidates can see is taken down only by a deletion, or by a  *)
(* request that crossed its publication.                                   *)
PostingStaysUp ==
    [][solo /\ status = "Published" => status' \in {"Published", "deleted"}]_vars
===============================================================================
