------------------------------ MODULE Workplace ------------------------------
(***************************************************************************)
(* Letters and learning (contexts/workplace, and the agent runs of         *)
(* contexts/platform): one run of mass letters from the drafting to the    *)
(* vault, and one peer-created course from the draft to its assignments.   *)
(* One action per awaited call that changes state; what a request read     *)
(* before is kept in req[w].                                               *)
(*                                                                         *)
(* Abstracted: of a letter only whether it is ready; of a course its       *)
(* status and which edition its text is; of an assignment its status.      *)
(* Templates, announcements, assets and single letters are rows nothing    *)
(* else depends on.                                                        *)
(***************************************************************************)
EXTENDS Naturals, FiniteSets

CONSTANTS
    Workers,    \* requests that can be in flight at the same time
    Cohort,     \* the number of employees the letters go to
    Lanes,      \* letters drafted at the same time
    Staff,      \* employees a course can be assigned to
    Workloads,  \* sets of kinds of requests; a behaviour has those of one
    MaxEdits,   \* bound: edits of the course
    Failures    \* TRUE when a request may die between two awaits

ASSUME WorkplaceAssumption ==
    /\ Cohort \in Nat
    /\ Lanes \in Nat \ {0}
    /\ MaxEdits \in Nat \ {0}
    /\ Failures \in BOOLEAN

VARIABLES
    run,        \* the AgentRun: its status and the count of affected employees
    items,      \* AgentRunItem.status per employee
    letters,    \* VaultDocuments ever filed per employee for this run
    course,     \* TrainingCourse: status and edition of the text
    approved,   \* history: the edition HR last published, 0 if none
    withdrawn,  \* history: HR's last decision was to reject it
    assigned,   \* TrainingAssignment.status per employee
    req,        \* the requests in flight
    workload,   \* the kinds of requests this behaviour has
    crossed     \* history: the run was "set" by HR, or "reopened" while an approval
                \* was under way; a decision on the "course" crossed an edit or a
                \* removal; a request "died"

lettering == <<run, items, letters>>
learning == <<course, approved, withdrawn, assigned>>
vars == <<lettering, learning, req, workload, crossed>>
-------------------------------------------------------------------------------
AgentStatus == {"RUNNING", "AWAITING_APPROVAL", "COMPLETED"}
ItemStatus == {"Pending", "Issued", "Failed"}
CourseStatus == {"DRAFT", "PENDING_APPROVAL", "PUBLISHED", "REJECTED"}
TrainingStatus == {"ASSIGNED", "IN_PROGRESS", "COMPLETED"}

Employees == 1..Cohort
Lists == [Employees -> ItemStatus \union {"none"}]
Nobody == [i \in Employees |-> "none"]

Awaits == {"idle", "draft", "claim", "file", "commit", "fail",
           "edit", "remove", "assign", "progress"}

Idle == [at |-> "idle", list |-> Nobody, cursor |-> 1, lane |-> [l \in 1..Lanes |-> 0],
         item |-> 0, issued |-> 0, submit |-> FALSE, to |-> {}, status |-> "ASSIGNED"]

Requests == [at : Awaits,
             list : Lists,                   \* the items drafted, or those the run had when read
             cursor : 1..(Cohort + 1),       \* the next employee to draft for
             lane : [1..Lanes -> 0..Cohort], \* whom each lane drafts for, 0 when it is done
             item : 0..Cohort,               \* the item that is being filed
             issued : 0..Cohort,             \* the count the approval keeps
             submit : BOOLEAN,               \* the owner asks for the approval
             to : SUBSET Staff,              \* left to be assigned
             status : TrainingStatus]        \* the status to be set

TypeOK ==
    /\ run \in [status : AgentStatus \union {"none"}, affected : 0..Cohort]
    /\ items \in Lists
    /\ letters \in [Employees -> Nat]
    /\ course \in [status : CourseStatus \union {"none"}, text : 0..MaxEdits]
    /\ approved \in 0..MaxEdits
    /\ withdrawn \in BOOLEAN
    /\ assigned \in [Staff -> TrainingStatus \union {"none"}]
    /\ req \in [Workers -> Requests]
    /\ workload \in Workloads
    /\ crossed \subseteq {"set", "reopened", "course", "died"}

AtAwait(w, label) == req[w].at = label
InFlight(w) == ~AtAwait(w, "idle")
Answer(w) == req' = [req EXCEPT ![w] = Idle]
Others(w, labels) == \E v \in Workers \ {w} : req[v].at \in labels
Cross(what, happens) == crossed' = crossed \union {x \in {what} : happens}
Having(list, status) == {i \in Employees : list[i] = status}

Init ==
    /\ run = [status |-> "none", affected |-> 0]
    /\ items = Nobody
    /\ letters = [i \in Employees |-> 0]
    /\ course = [status |-> "none", text |-> 0] /\ approved = 0 /\ withdrawn = FALSE
    /\ assigned = [e \in Staff |-> "none"]
    /\ req = [w \in Workers |-> Idle]
    /\ workload \in Workloads
    /\ crossed = {}
-------------------------------------------------------------------------------
(* queue: the letters are drafted by mapWithConcurrency, whose lanes share *)
(* a cursor; then one insert creates the run with all its items.           *)

(* What the lanes take before the first await. *)
FirstTaken == [l \in 1..Lanes |-> IF l <= Cohort THEN l ELSE 0]

MassIssue(w) ==
    /\ AtAwait(w, "idle") /\ run.status = "none" /\ ~Others(w, {"draft"})
    /\ req' = [req EXCEPT ![w].at = "draft", ![w].lane = FirstTaken,
                          ![w].cursor = IF Lanes < Cohort THEN Lanes + 1 ELSE Cohort + 1]
    /\ UNCHANGED <<lettering, learning, workload, crossed>>

(* Mutant: the cursor is moved before it is read. *)
TakeAfterMoving(r, l) ==
    IF r.cursor >= Cohort THEN [r EXCEPT !.lane[l] = 0]
    ELSE [r EXCEPT !.lane[l] = r.cursor + 1, !.cursor = @ + 1]

(* A lane that has finished takes the next employee, if there is one. *)
Take(r, l) ==
    IF r.cursor > Cohort THEN [r EXCEPT !.lane[l] = 0]
    ELSE [r EXCEPT !.lane[l] = r.cursor, !.cursor = @ + 1]

(* A draft that is blocked or fails becomes an item that failed. *)
Draft(w) ==
    /\ AtAwait(w, "draft")
    /\ \E l \in 1..Lanes, status \in {"Pending", "Failed"} :
         /\ req[w].lane[l] # 0
         /\ req' = [req EXCEPT ![w] = Take([@ EXCEPT !.list[req[w].lane[l]] = status], l)]
    /\ UNCHANGED <<lettering, learning, workload, crossed>>

CreateRun(w) ==
    /\ AtAwait(w, "draft") /\ \A l \in 1..Lanes : req[w].lane[l] = 0
    /\ run' = [status |-> "AWAITING_APPROVAL", affected |-> Cohort]
    /\ items' = req[w].list
    /\ Answer(w)
    /\ UNCHANGED <<letters, learning, workload, crossed>>
-------------------------------------------------------------------------------
(* tryApprove: the run is read with its items and claimed; each item that  *)
(* was pending when read is filed in a transaction of its own, which looks *)
(* at the item again.                                                      *)

TryApprove(w) ==
    /\ AtAwait(w, "idle") /\ run.status = "AWAITING_APPROVAL"
    /\ req' = [req EXCEPT ![w].at = "claim", ![w].list = items]
    /\ UNCHANGED <<lettering, learning, workload, crossed>>

Claim(w) ==
    /\ AtAwait(w, "claim")
    /\ IF run.status = "AWAITING_APPROVAL"
         THEN /\ run' = [run EXCEPT !.status = "RUNNING"]
              /\ req' = [req EXCEPT ![w].at = "file",
                                    ![w].issued = Cardinality(Having(req[w].list, "Issued"))]
         ELSE UNCHANGED run /\ Answer(w)
    /\ UNCHANGED <<items, letters, learning, workload, crossed>>

(* Items are taken in the order of their ids. *)
NextItem(w, i) ==
    /\ req[w].list[i] = "Pending"
    /\ \A j \in 1..(i - 1) : req[w].list[j] # "Pending"

(* The transaction reads the item; a letter that cannot be read fails. *)
FileRead(w) ==
    /\ AtAwait(w, "file")
    /\ \E i \in Employees, readable \in BOOLEAN :
         /\ NextItem(w, i)
         /\ req' = [req EXCEPT ![w].item = i,
                               ![w].at = IF readable /\ items[i] = "Pending" THEN "commit" ELSE "fail"]
    /\ UNCHANGED <<lettering, learning, workload, crossed>>

Filed(r) == [r EXCEPT !.at = "file", !.list[r.item] = "none", !.item = 0]

(* Mutant: document and item are not one transaction. *)
CommitDocument(w) ==
    /\ AtAwait(w, "commit")
    /\ letters' = [letters EXCEPT ![req[w].item] = @ + 1]
    /\ \/ /\ items' = [items EXCEPT ![req[w].item] = "Issued"]
          /\ req' = [req EXCEPT ![w] = [Filed(@) EXCEPT !.issued = @ + 1]]
       \/ UNCHANGED items /\ req' = [req EXCEPT ![w].at = "fail"]
    /\ UNCHANGED <<run, learning, workload, crossed>>

Commit(w) ==
    /\ AtAwait(w, "commit")
    /\ \/ /\ letters' = [letters EXCEPT ![req[w].item] = @ + 1]
          /\ items' = [items EXCEPT ![req[w].item] = "Issued"]
          /\ req' = [req EXCEPT ![w] = [Filed(req[w]) EXCEPT !.issued = req[w].issued + 1]]
       \/ UNCHANGED <<letters, items>> /\ req' = [req EXCEPT ![w].at = "fail"]
    /\ UNCHANGED <<run, learning, workload, crossed>>

MarkFailed(w) ==
    /\ AtAwait(w, "fail")
    /\ items' = [items EXCEPT ![req[w].item] = "Failed"]
    /\ req' = [req EXCEPT ![w] = Filed(@)]
    /\ UNCHANGED <<run, letters, learning, workload, crossed>>

(* Mutant: a run with failed letters is left for another attempt. *)
FinishUnlessFailed(w) ==
    /\ AtAwait(w, "file") /\ Having(req[w].list, "Pending") = {}
    /\ run' = IF Having(items, "Failed") = {}
                THEN [status |-> "COMPLETED", affected |-> req[w].issued] ELSE run
    /\ Answer(w)
    /\ UNCHANGED <<items, letters, learning, workload, crossed>>

Finish(w) ==
    /\ AtAwait(w, "file") /\ Having(req[w].list, "Pending") = {}
    /\ run' = [status |-> "COMPLETED", affected |-> req[w].issued]
    /\ Answer(w)
    /\ UNCHANGED <<items, letters, learning, workload, crossed>>

(* setAgentRunStatus: HR puts the run into another state, whatever it is in; *)
(* "Completed" is TryApprove.                                              *)
SetAgentRunStatus(w) ==
    /\ AtAwait(w, "idle") /\ run.status # "none"
    /\ \E status \in {"RUNNING", "AWAITING_APPROVAL"} : run' = [run EXCEPT !.status = status]
    /\ crossed' = crossed \union {"set"}
                  \union {x \in {"reopened"} : Others(w, {"claim", "file", "commit", "fail"})}
    /\ UNCHANGED <<items, letters, learning, req, workload>>
-------------------------------------------------------------------------------
(* A peer course: its owner edits, submits and removes it while the row as *)
(* read is not published; HR decides, assigns and removes.                 *)

CreatePeerCourse(w) ==
    /\ AtAwait(w, "idle") /\ course = [status |-> "none", text |-> 0]
    /\ course' = [status |-> "DRAFT", text |-> 1]
    /\ UNCHANGED <<lettering, approved, withdrawn, assigned, req, workload, crossed>>

(* Mutant: only a course that awaits its approval is closed to its owner. *)
OpenWhilePublished == course.status \notin {"none", "PENDING_APPROVAL"}

OpenToOwner == course.status \notin {"none", "PUBLISHED"}

UpdatePeerCourse(w) ==
    /\ AtAwait(w, "idle") /\ OpenToOwner
    /\ \E submit \in BOOLEAN : req' = [req EXCEPT ![w].at = "edit", ![w].submit = submit]
    /\ UNCHANGED <<lettering, learning, workload, crossed>>

(* The status read before does not guard the write. *)
EditWrite(w) ==
    /\ AtAwait(w, "edit") /\ course.text < MaxEdits
    /\ course' = IF course.status = "none" THEN course
                 ELSE [status |-> IF req[w].submit THEN "PENDING_APPROVAL" ELSE course.status,
                       text |-> course.text + 1]
    /\ Answer(w)
    /\ UNCHANGED <<lettering, approved, withdrawn, assigned, workload, crossed>>

DeletePeerCourse(w) ==
    /\ AtAwait(w, "idle") /\ OpenToOwner
    /\ req' = [req EXCEPT ![w].at = "remove"]
    /\ UNCHANGED <<lettering, learning, workload, crossed>>

(* The assignments go with the course. *)
Removal ==
    /\ course' = [course EXCEPT !.status = "none"]
    /\ assigned' = [e \in Staff |-> "none"]

RemoveWrite(w) ==
    /\ AtAwait(w, "remove")
    /\ Removal
    /\ Answer(w)
    /\ UNCHANGED <<lettering, approved, withdrawn, workload, crossed>>

DeleteCourse(w) ==
    /\ AtAwait(w, "idle") /\ course.status # "none"
    /\ Removal
    /\ UNCHANGED <<lettering, approved, withdrawn, req, workload, crossed>>

(* updateCourse: HR publishes or rejects, in any state. *)
UpdateCourse(w) ==
    /\ AtAwait(w, "idle") /\ course.status # "none"
    /\ \E status \in {"PUBLISHED", "REJECTED"} :
         /\ course' = [course EXCEPT !.status = status]
         /\ approved' = IF status = "PUBLISHED" THEN course.text ELSE approved
         /\ withdrawn' = (status = "REJECTED")
    /\ Cross("course", Others(w, {"edit", "remove"}))
    /\ UNCHANGED <<lettering, assigned, req, workload>>

AssignTraining(w) ==
    /\ AtAwait(w, "idle") /\ course.status = "PUBLISHED"
    /\ \E to \in SUBSET Staff \ {{}} : req' = [req EXCEPT ![w].at = "assign", ![w].to = to]
    /\ UNCHANGED <<lettering, learning, workload, crossed>>

(* One upsert per employee; one for a course that is gone fails. *)
Upsert(w) ==
    /\ AtAwait(w, "assign")
    /\ \E e \in req[w].to :
         IF course.status = "none"
           THEN UNCHANGED assigned /\ Answer(w)
           ELSE /\ assigned' = [assigned EXCEPT ![e] = IF @ = "none" THEN "ASSIGNED" ELSE @]
                /\ req' = [req EXCEPT ![w] = IF @.to = {e} THEN Idle ELSE [@ EXCEPT !.to = req[w].to \ {e}]]
    /\ UNCHANGED <<lettering, course, approved, withdrawn, workload, crossed>>

(* updateAssignment: the employee, or HR, sets any status. *)
UpdateAssignment(w) ==
    /\ AtAwait(w, "idle")
    /\ \E e \in Staff, status \in TrainingStatus :
         /\ assigned[e] # "none"
         /\ req' = [req EXCEPT ![w].at = "progress", ![w].to = {e}, ![w].status = status]
    /\ UNCHANGED <<lettering, learning, workload, crossed>>

ProgressWrite(w) ==
    /\ AtAwait(w, "progress")
    /\ assigned' = [e \in Staff |->
          IF e \in req[w].to /\ assigned[e] # "none" THEN req[w].status ELSE assigned[e]]
    /\ Answer(w)
    /\ UNCHANGED <<lettering, course, approved, withdrawn, workload, crossed>>
-------------------------------------------------------------------------------
Arrive(w) ==
    \/ "letters" \in workload /\ (MassIssue(w) \/ TryApprove(w) \/ SetAgentRunStatus(w))
    \/ "course" \in workload /\ \/ CreatePeerCourse(w) \/ UpdatePeerCourse(w) \/ DeletePeerCourse(w)
                                \/ DeleteCourse(w) \/ UpdateCourse(w)
                                \/ AssignTraining(w) \/ UpdateAssignment(w)

Handle(w) ==
    \/ Draft(w) \/ CreateRun(w)
    \/ Claim(w) \/ FileRead(w) \/ Commit(w) \/ MarkFailed(w) \/ Finish(w)
    \/ EditWrite(w) \/ RemoveWrite(w) \/ Upsert(w) \/ ProgressWrite(w)

(* The process restarts, or a call outside a transaction fails.            *)
Die(w) ==
    /\ Failures /\ InFlight(w)
    /\ Answer(w)
    /\ Cross("died", TRUE)
    /\ UNCHANGED <<lettering, learning, workload>>

Next == \E w \in Workers : Arrive(w) \/ Handle(w) \/ Die(w)

(* The event loop gets to every request that waits for the database. *)
Spec == Init /\ [][Next]_vars /\ \A w \in Workers : WF_vars(Handle(w))
-------------------------------------------------------------------------------
(* Properties *)

(* However the lanes interleave, the run has one letter, drafted or failed, *)
(* for every employee of the cohort.                                        *)
CohortServed == run.status # "none" => Having(items, "none") = {}

(* "an item is issued" and "the letter is in the vault" are one fact, once  *)
(* each, and a completed run counts them, whatever approvals overlap, fail  *)
(* or die half-way, unless HR reopened the run under one that was at work.  *)
LettersMatch ==
    "reopened" \notin crossed =>
        /\ \A i \in Employees : letters[i] = IF items[i] = "Issued" THEN 1 ELSE 0
        /\ run.status = "COMPLETED" => run.affected = Cardinality(Having(items, "Issued"))

(* A run that is claimed is completed, unless its request dies or HR sets   *)
(* its status by hand.                                                      *)
ApprovalEnds ==
    run.status = "RUNNING" ~> run.status # "RUNNING" \/ crossed \intersect {"set", "died"} # {}

(* A published course is the text HR published, and as long as HR has not   *)
(* rejected it since, that is the text of those it was assigned to: unless  *)
(* HR's decision crossed an edit or a removal by the owner.  (Rejecting a   *)
(* published course leaves its assignments and opens it to its owner again, *)
(* whose next edit they read without a review.)                             *)
CourseReviewed ==
    "course" \notin crossed =>
        /\ course.status = "PUBLISHED" => course.text = approved
        /\ (\E e \in Staff : assigned[e] # "none") =>
              approved # 0 /\ (withdrawn \/ course.text = approved)
===============================================================================
