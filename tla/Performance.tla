----------------------------- MODULE Performance -----------------------------
(***************************************************************************)
(* Performance and growth (contexts/performance): one review between its   *)
(* employee, the manager of the reporting line and HR; the probation sweep *)
(* HR's dashboard runs over the new hires; one goal, one 1-on-1 agenda, one *)
(* feedback request.  A request is a read and, after the await, a write    *)
(* that may find the row changed; what was read is kept in req[w].         *)
(*                                                                         *)
(* Abstracted: of a text only who wrote it; of tenure only which trigger   *)
(* day has passed; of a goal its status and the kinds of entries on its    *)
(* trail.  Kudos and PIPs are rows nothing else reads.                     *)
(***************************************************************************)
EXTENDS Naturals

CONSTANTS
    Workers,    \* requests that can be in flight at the same time
    Subject,    \* the employee under review, who is not an HR admin
    Manager,    \* a manager of the Subject's department
    HR,         \* the HR admin
    Hires,      \* employees on probation
    Names,      \* what they may be called; two may share a name
    Workloads,  \* sets of kinds of requests; a behaviour has those of one
    MaxEntries, \* bound: talking points and action items ever written
    Failures    \* TRUE when a request may die between two awaits

ASSUME PerformanceAssumption ==
    /\ MaxEntries \in Nat
    /\ Failures \in BOOLEAN

VARIABLES
    name,       \* per hire: Employee.name, which stays as it is
    review,     \* the PerformanceReview of the Subject
    line,       \* Employee.managerId of the Subject
    tenure,     \* per hire: "early", "day 60" or "day 80"
    probation,  \* per hire: the state of the probationary review
    notices,    \* intents of the agent runs the sweeps created
    goal,       \* Goal.status, and the kinds of its GoalUpdates
    agenda,     \* OneOnOne.talkingPoints and actionItems, two JSON columns
    written,    \* how many entries were ever put on it
    feedback,   \* FeedbackRequest.status
    req,        \* the requests in flight
    workload,   \* the kinds of requests this behaviour has
    copies,     \* history: probationary reviews per hire
    noticed,    \* history: hires whose probationary review was announced
    opened,     \* history: hires whose probationary review HR opened by hand
    sawManager, \* history: the Subject has read the manager's evaluation
    crossed     \* history: "sweeps" crossed, a request "died"

reviewing == <<review, line, sawManager>>
probating == <<name, tenure, probation, notices, copies, noticed, opened>>
meeting == <<agenda, written>>
growing == <<goal, feedback>>
vars == <<reviewing, probating, meeting, growing, req, workload, crossed>>
-------------------------------------------------------------------------------
REVIEW_FLOW == <<"DRAFT", "SELF_EVALUATION", "MANAGER_EVALUATION", "CALIBRATED", "COMPLETED">>
ReviewStates == {REVIEW_FLOW[i] : i \in 1..5}

People == {Subject, Manager, HR}
Actions == {"initialize", "escalate"}
Intents == Actions \X Names
Points == 1..MaxEntries
Items == (1..MaxEntries) \X BOOLEAN     \* id and done

NoReview == [state |-> "none", self |-> "none", manager |-> "none",
             selfSubmitted |-> FALSE, managerSubmitted |-> FALSE, acknowledged |-> FALSE]

Reviews == [state : ReviewStates \union {"none"},
            self : {"none", "employee", "HR"}, manager : {"none", "evaluator", "HR"},
            selfSubmitted : BOOLEAN, managerSubmitted : BOOLEAN, acknowledged : BOOLEAN]

Agendas == [points : SUBSET Points, items : SUBSET Items]

Awaits == {"idle", "self", "manager", "acknowledge", "advance", "sweep", "notice",
           "points", "items", "weight", "progress", "feedback"}

Idle == [at |-> "idle", state |-> "none", todo |-> {}, seen |-> {}, hire |-> "none",
         agenda |-> [points |-> {}, items |-> {}]]

Requests == [at : Awaits,
             state : ReviewStates \union {"none"},  \* the review's state as read
             todo : SUBSET (Hires \X Actions),      \* what is left of the sweep
             seen : SUBSET Intents,                 \* the agent runs it read
             hire : Hires \union {"none"},          \* whose notice is next
             agenda : Agendas]                      \* the agenda as read

TypeOK ==
    /\ review \in Reviews
    /\ line \in People \ {Subject}
    /\ name \in [Hires -> Names]
    /\ tenure \in [Hires -> {"early", "day 60", "day 80"}]
    /\ probation \in [Hires -> {"none", "open", "completed"}]
    /\ notices \subseteq Intents
    /\ goal \in [completed : BOOLEAN, trail : SUBSET {"progress", "adjusted", "blocked"}]
    /\ agenda \in Agendas /\ written \in 0..MaxEntries
    /\ feedback \in {"none", "PENDING", "COMPLETED"}
    /\ req \in [Workers -> Requests]
    /\ workload \in Workloads
    /\ copies \in [Hires -> Nat] /\ noticed \subseteq Hires /\ opened \subseteq Hires
    /\ sawManager \in BOOLEAN
    /\ crossed \subseteq {"sweeps", "died"}

AtAwait(w, label) == req[w].at = label
InFlight(w) == ~AtAwait(w, "idle")
Answer(w) == req' = [req EXCEPT ![w] = Idle]
Goto(w, label) == req' = [req EXCEPT ![w].at = label]
Others(w, labels) == \E v \in Workers \ {w} : req[v].at \in labels
Cross(what, happens) == crossed' = crossed \union {x \in {what} : happens}

Init ==
    /\ review = NoReview
    /\ line \in People \ {Subject}
    /\ name \in [Hires -> Names]
    /\ tenure = [h \in Hires |-> "early"]
    /\ probation = [h \in Hires |-> "none"]
    /\ notices = {}
    /\ goal = [completed |-> FALSE, trail |-> {}]
    /\ agenda = [points |-> {}, items |-> {}] /\ written = 0
    /\ feedback = "none"
    /\ req = [w \in Workers |-> Idle]
    /\ workload \in Workloads
    /\ copies = [h \in Hires |-> 0] /\ noticed = {} /\ opened = {} /\ sawManager = FALSE
    /\ crossed = {}
-------------------------------------------------------------------------------
(* The review: HR opens it and moves it on; the employee, then the manager *)
(* of the line or HR hand in, each guarded again in the write.             *)

CreateReview(w) ==
    /\ AtAwait(w, "idle") /\ review.state = "none"
    /\ review' = [NoReview EXCEPT !.state = "DRAFT"]
    /\ UNCHANGED <<line, sawManager, probating, meeting, growing, req, workload, crossed>>

nextReviewState(s) ==
    IF s = "COMPLETED" THEN s ELSE REVIEW_FLOW[(CHOOSE i \in 1..5 : REVIEW_FLOW[i] = s) + 1]

ReadReview(w, label) ==
    /\ AtAwait(w, "idle") /\ review.state # "none"
    /\ req' = [req EXCEPT ![w].at = label, ![w].state = review.state]
    /\ UNCHANGED <<reviewing, probating, meeting, growing, workload, crossed>>

SubmitSelfEvaluation(w) == review.state = "SELF_EVALUATION" /\ ReadReview(w, "self")
SubmitManagerEvaluation(w) == review.state = "MANAGER_EVALUATION" /\ ReadReview(w, "manager")
AcknowledgeReview(w) ==
    review.state = "COMPLETED" /\ ~review.acknowledged /\ ReadReview(w, "acknowledge")
AdvanceReviewState(w) == ReadReview(w, "advance")

WriteReview(w, label, from, change) ==
    /\ AtAwait(w, label)
    /\ review' = IF review.state = from THEN change ELSE review
    /\ Answer(w)
    /\ UNCHANGED <<line, sawManager, probating, meeting, growing, workload, crossed>>

SelfWrite(w) == WriteReview(w, "self", "SELF_EVALUATION",
    [review EXCEPT !.self = "employee", !.selfSubmitted = TRUE, !.state = "MANAGER_EVALUATION"])

ManagerWrite(w) == WriteReview(w, "manager", "MANAGER_EVALUATION",
    [review EXCEPT !.manager = "evaluator", !.managerSubmitted = TRUE, !.state = "CALIBRATED"])

AcknowledgeWrite(w) == WriteReview(w, "acknowledge", review.state,
    [review EXCEPT !.acknowledged = TRUE])

AdvanceWrite(w) == WriteReview(w, "advance", req[w].state,
    [review EXCEPT !.state = nextReviewState(req[w].state)])

(* updateReview: HR fills in either text, in any state. *)
UpdateReview(w) ==
    /\ AtAwait(w, "idle") /\ review.state # "none"
    /\ \/ review' = [review EXCEPT !.self = "HR"]
       \/ review' = [review EXCEPT !.manager = "HR"]
    /\ UNCHANGED <<line, sawManager, probating, meeting, growing, req, workload, crossed>>

(* Mutant: the manager's evaluation shows as soon as there is one. *)
SharedOnceWritten == review.manager # "none"

(* What getMyReviews leaves in the employee's own review. *)
ManagerEvaluationShown == review.state = "COMPLETED" /\ review.manager # "none"

GetMyReviews(w) ==
    /\ AtAwait(w, "idle") /\ ManagerEvaluationShown
    /\ sawManager' = TRUE
    /\ UNCHANGED <<review, line, probating, meeting, growing, req, workload, crossed>>

(* The employee gets another manager meanwhile. *)
Reassign(w) ==
    /\ AtAwait(w, "idle")
    /\ line' \in People \ {Subject, line}
    /\ UNCHANGED <<review, sawManager, probating, meeting, growing, req, workload, crossed>>
-------------------------------------------------------------------------------
(* runProbationSweep: employees, probationary reviews and intents are read *)
(* together; then, hire by hire, one or two inserts.                       *)

probationAction(h) ==
    CASE probation[h] = "none" /\ tenure[h] # "early" -> {"initialize"}
      [] probation[h] = "open" /\ tenure[h] = "day 80" -> {"escalate"}
      [] OTHER -> {}

(* Mutant: the intents carry no name. *)
AnnouncedAnybody(w, action, h) == \E n \in Names : <<action, n>> \in req[w].seen

Announced(w, action, h) == <<action, name[h]>> \in req[w].seen

Sweep(w) ==
    /\ AtAwait(w, "idle") /\ \E h \in Hires : probationAction(h) # {}
    /\ req' = [req EXCEPT ![w].at = "sweep", ![w].seen = notices,
                          ![w].todo = {t \in Hires \X Actions : t[2] \in probationAction(t[1])}]
    /\ Cross("sweeps", Others(w, {"sweep", "notice"}))
    /\ UNCHANGED <<reviewing, probating, meeting, growing, workload>>

Done(w, t) ==
    req' = [req EXCEPT ![w] = IF @.todo = {t} THEN Idle
                              ELSE [@ EXCEPT !.at = "sweep", !.hire = "none", !.todo = req[w].todo \ {t}]]

SweepInitialize(w) ==
    /\ AtAwait(w, "sweep")
    /\ \E t \in req[w].todo :
         /\ t[2] = "initialize"
         /\ probation' = [probation EXCEPT ![t[1]] = "open"]
         /\ copies' = [copies EXCEPT ![t[1]] = @ + 1]
         /\ req' = [req EXCEPT ![w].at = "notice", ![w].hire = t[1]]
    /\ UNCHANGED <<name, tenure, notices, noticed, opened, reviewing, meeting, growing, workload, crossed>>

SweepNotice(w) ==
    /\ AtAwait(w, "notice")
    /\ LET h == req[w].hire IN
         /\ IF Announced(w, "initialize", h)
              THEN UNCHANGED <<notices, noticed>>
              ELSE /\ notices' = notices \union {<<"initialize", name[h]>>}
                   /\ noticed' = noticed \union {h}
         /\ Done(w, <<h, "initialize">>)
    /\ UNCHANGED <<name, tenure, probation, copies, opened, reviewing, meeting, growing, workload, crossed>>

SweepEscalate(w) ==
    /\ AtAwait(w, "sweep")
    /\ \E t \in req[w].todo :
         /\ t[2] = "escalate"
         /\ notices' = IF Announced(w, "escalate", t[1]) THEN notices
                       ELSE notices \union {<<"escalate", name[t[1]]>>}
         /\ Done(w, t)
    /\ UNCHANGED <<name, tenure, probation, copies, noticed, opened, reviewing, meeting, growing, workload, crossed>>

(* A day passes; a probationary review is advanced to its end. *)
TimePasses(h) ==
    /\ tenure' = [tenure EXCEPT ![h] = IF @ = "early" THEN "day 60" ELSE "day 80"]
    /\ UNCHANGED <<name, probation, notices, copies, noticed, opened, reviewing, meeting, growing,
                   req, workload, crossed>>

CompleteProbation(h) ==
    /\ probation[h] = "open"
    /\ probation' = [probation EXCEPT ![h] = "completed"]
    /\ UNCHANGED <<name, tenure, notices, copies, noticed, opened, reviewing, meeting, growing,
                   req, workload, crossed>>

(* createReview with the cycle label the sweep looks for: HR opens a hire's *)
(* probationary review by hand, in one insert that announces nothing.       *)
(* Bound: none is on file yet.                                              *)
OpenProbation(h) ==
    /\ probation[h] = "none"
    /\ probation' = [probation EXCEPT ![h] = "open"]
    /\ copies' = [copies EXCEPT ![h] = @ + 1]
    /\ opened' = opened \union {h}
    /\ UNCHANGED <<name, tenure, notices, noticed, reviewing, meeting, growing, req, workload, crossed>>
-------------------------------------------------------------------------------
(* The shared agenda: each write replaces a whole JSON column with the one *)
(* read before, changed.  Who may take a point off is abstracted.          *)

ReadAgenda(w, label) ==
    /\ AtAwait(w, "idle")
    /\ req' = [req EXCEPT ![w].at = label, ![w].agenda = agenda]
    /\ UNCHANGED <<reviewing, probating, meeting, growing, workload, crossed>>

WriteAgenda(w, label) ==
    /\ AtAwait(w, label)
    /\ Answer(w)
    /\ UNCHANGED <<reviewing, probating, growing, workload, crossed>>

AddTalkingPoint(w) ==
    /\ WriteAgenda(w, "points") /\ written < MaxEntries
    /\ written' = written + 1
    /\ agenda' = [agenda EXCEPT !.points = req[w].agenda.points \union {written'}]

RemoveTalkingPoint(w) ==
    /\ WriteAgenda(w, "points")
    /\ \E point \in req[w].agenda.points :
         /\ agenda' = [agenda EXCEPT !.points = req[w].agenda.points \ {point}]
    /\ UNCHANGED written

AddActionItem(w) ==
    /\ WriteAgenda(w, "items") /\ written < MaxEntries
    /\ written' = written + 1
    /\ agenda' = [agenda EXCEPT !.items = req[w].agenda.items \union {<<written', FALSE>>}]

Toggled(items, item, done) == (items \ {item}) \union {<<item[1], done>>}

ToggleActionItem(w) ==
    /\ WriteAgenda(w, "items")
    /\ \E item \in req[w].agenda.items, done \in BOOLEAN :
         /\ agenda' = [agenda EXCEPT !.items = Toggled(req[w].agenda.items, item, done)]
    /\ UNCHANGED written
-------------------------------------------------------------------------------
(* Goals: progress of 100 completes one, less reopens it.  A change of the *)
(* weight is only put on the trail, one past the guardrail as blocked.     *)

UpdateGoalProgress(w) ==
    /\ AtAwait(w, "idle")
    /\ Goto(w, "progress")
    /\ UNCHANGED <<reviewing, probating, meeting, growing, workload, crossed>>

ProgressWrite(w) ==
    /\ AtAwait(w, "progress")
    /\ \E completed \in BOOLEAN :
         goal' = [completed |-> completed, trail |-> goal.trail \union {"progress"}]
    /\ Answer(w)
    /\ UNCHANGED <<reviewing, probating, meeting, feedback, workload, crossed>>

RequestWeightChange(w) ==
    /\ AtAwait(w, "idle") /\ ~goal.completed
    /\ Goto(w, "weight")
    /\ UNCHANGED <<reviewing, probating, meeting, growing, workload, crossed>>

WeightWrite(w) ==
    /\ AtAwait(w, "weight")
    /\ \E entry \in {"adjusted", "blocked"} : goal' = [goal EXCEPT !.trail = @ \union {entry}]
    /\ Answer(w)
    /\ UNCHANGED <<reviewing, probating, meeting, feedback, workload, crossed>>

RequestFeedback(w) ==
    /\ AtAwait(w, "idle") /\ feedback = "none"
    /\ feedback' = "PENDING"
    /\ UNCHANGED <<reviewing, probating, meeting, goal, req, workload, crossed>>

RespondFeedback(w) ==
    /\ AtAwait(w, "idle") /\ feedback = "PENDING"
    /\ Goto(w, "feedback")
    /\ UNCHANGED <<reviewing, probating, meeting, growing, workload, crossed>>

FeedbackWrite(w) ==
    /\ AtAwait(w, "feedback")
    /\ feedback' = "COMPLETED"
    /\ Answer(w)
    /\ UNCHANGED <<reviewing, probating, meeting, goal, workload, crossed>>
-------------------------------------------------------------------------------
Arrive(w) ==
    \/ "review" \in workload /\ \/ CreateReview(w) \/ SubmitSelfEvaluation(w)
                                \/ SubmitManagerEvaluation(w) \/ AcknowledgeReview(w)
                                \/ AdvanceReviewState(w) \/ UpdateReview(w)
                                \/ GetMyReviews(w) \/ Reassign(w)
    \/ "sweep" \in workload /\ Sweep(w)
    \/ "agenda" \in workload /\ (ReadAgenda(w, "points") \/ ReadAgenda(w, "items"))
    \/ "growth" \in workload /\ \/ UpdateGoalProgress(w) \/ RequestWeightChange(w)
                                \/ RequestFeedback(w) \/ RespondFeedback(w)

Handle(w) ==
    \/ SelfWrite(w) \/ ManagerWrite(w) \/ AcknowledgeWrite(w) \/ AdvanceWrite(w)
    \/ SweepInitialize(w) \/ SweepNotice(w) \/ SweepEscalate(w)
    \/ AddTalkingPoint(w) \/ RemoveTalkingPoint(w) \/ AddActionItem(w) \/ ToggleActionItem(w)
    \/ ProgressWrite(w) \/ WeightWrite(w) \/ FeedbackWrite(w)

(* The process restarts, a call fails, or a check made on the row as read  *)
(* refuses the request.  Bound: one death.                                 *)
Die(w) ==
    /\ Failures /\ "died" \notin crossed
    /\ InFlight(w)
    /\ Answer(w)
    /\ Cross("died", TRUE)
    /\ UNCHANGED <<reviewing, probating, meeting, growing, workload>>

Elapse ==
    "sweep" \in workload /\ \E h \in Hires : TimePasses(h) \/ CompleteProbation(h) \/ OpenProbation(h)

Next == Elapse \/ \E w \in Workers : Arrive(w) \/ Handle(w) \/ Die(w)

Spec == Init /\ [][Next]_vars
-------------------------------------------------------------------------------
(* Properties *)

(* "each side's writing hidden until the other has committed": no employee *)
(* hands in a self-evaluation after having read the manager's evaluation,  *)
(* whatever HR wrote into either and however the review was moved on.      *)
IndependentSelf == [][review'.selfSubmitted /\ ~review.selfSubmitted => ~sawManager]_vars

Namesake(h) == \E g \in Hires \ {h} : name[g] = name[h]

Sweeping(h) == \E w \in Workers : <<h, "initialize">> \in req[w].todo

(* "reviews are created once per employee, and agent-run entries are        *)
(* deduped by intent": a hire whose probationary review HR did not open by  *)
(* hand gets one, and the manager hears of it, unless sweeps crossed, one    *)
(* died, or a namesake was announced before.                                *)
ProbationAnnounced ==
    "sweeps" \notin crossed => \A h \in Hires \ opened :
        /\ copies[h] <= 1
        /\ probation[h] # "none" /\ ~Sweeping(h) /\ ~Namesake(h) /\ "died" \notin crossed
             => h \in noticed
===============================================================================
