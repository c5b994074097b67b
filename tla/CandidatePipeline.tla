-------------------------- MODULE CandidatePipeline --------------------------
(***************************************************************************)
(* One candidate of a published requisition, from the application to the   *)
(* purge of the personal data (contexts/recruitment): the stage machine    *)
(* and its mails, the two-way mailbox, the notes, the panel's scorecards   *)
(* and the privacy purge.  One action per awaited call that changes state; *)
(* what a request read before is kept in req[w].                           *)
(*                                                                         *)
(* Abstracted: of every record only whether it holds personal data; of a   *)
(* card only its status and whether its ratings are there; of questions    *)
(* and criteria only which edition a row belongs to.  Reads that change    *)
(* nothing are left out, except the profile, which shows a panelist the    *)
(* others' cards and the audit trail.                                      *)
(***************************************************************************)
EXTENDS Naturals

CONSTANTS
    Workers,      \* requests that can be in flight at the same time
    HR,           \* the HR admin, who may score as well
    Team,         \* hiring-team members who are not HR
    Workloads,    \* sets of kinds of requests; a behaviour has those of one
    MaxMoves,     \* bound: stage changes
    MaxEditions,  \* bound: replacements of the questions, and of the criteria
    Failures      \* TRUE when a request may die between two awaits

ASSUME PipelineAssumption ==
    /\ HR \notin Team
    /\ MaxMoves \in Nat /\ MaxEditions \in Nat
    /\ Failures \in BOOLEAN

VARIABLES
    stage,      \* Candidate.stage, "none" before the application
    withdrawn,  \* Candidate.withdrawnAt is set
    purged,     \* Candidate.anonymizedAt is set
    dated,      \* Candidate.interviewDate is set
    personal,   \* the records that hold personal data of the candidate
    counted,    \* Requisition.applicants is not 0
    panel,      \* team members with isPanelMember
    questions,  \* the edition of the pre-screening questions, and if one is required
    criteria,   \* the edition of the scorecard criteria
    cards,      \* ScorecardSubmission per panelist
    rated,      \* panelists whose card has its ratings
    trail,      \* panelists whose recommendation an audit event repeats
    templates,  \* triggers that have a CommunicationTemplate
    mails,      \* CommunicationLog rows per trigger
    req,        \* the requests in flight
    workload,   \* the kinds of requests this behaviour has
    moves,      \* stage changes so far
    entries,    \* history: how often the event of a trigger happened
    peeked,     \* history: who saw what of the others' before submitting a card
    spoke,      \* history: who has submitted a card
    crossed     \* history: "moves", "team" or "purge" was crossed by another
                \* request, "template" was missing, a request "died"

profile == <<withdrawn, purged, dated>>
posting == <<counted, panel, questions, criteria>>
scoring == <<cards, rated, trail, peeked, spoke>>
mailing == <<templates, mails, entries>>
vars == <<stage, profile, personal, posting, scoring, mailing, req, workload, moves, crossed>>
-------------------------------------------------------------------------------
CandidateStages == {"Applied", "AI Screened", "Interview", "Offer", "Hired", "Rejected"}
Triggers == {"Application Received", "Interview Scheduled", "Rejected"}
CardStatus == {"Draft", "Submitted"}
Panelists == Team \union {HR}

(* The row itself, the answers, the resume, the notes, the bodies of the   *)
(* mails, the From addresses of the inbound ones, the audit details.       *)
PersonalData == {"row", "answers", "resume", "notes", "mail", "sender", "audit"}

(* What the purge removes or rewrites. *)
Purgeable == {"row", "answers", "resume", "notes", "mail"}

Kinds == {"apply", "stage", "withdraw", "purge", "note", "manual", "inbound", "template",
          "questions", "criteria", "team", "score", "detail"}

Awaits == {"idle", "apply.create", "apply.count", "apply.resume", "apply.audit",
           "mail.find", "mail.write", "stage.write", "withdraw", "purge", "note",
           "manual", "manual.audit", "inbound", "questions", "criteria", "team",
           "score", "score.audit"}

Idle == [at |-> "idle", named |-> FALSE, asked |-> FALSE, stage |-> "none", from |-> "none",
         trigger |-> "none", edition |-> 0, who |-> HR, card |-> "none"]

Requests == [at : Awaits,
             named : BOOLEAN,     \* the candidate's name was still there when read
             asked : BOOLEAN,     \* there was a required question when read
             stage : CandidateStages \union {"none"},  \* the stage asked for
             from : CandidateStages \union {"none"},   \* the stage it was read in
             trigger : Triggers \union {"none"},
             edition : 0..MaxEditions,  \* of the questions or criteria read
             who : Panelists,
             card : CardStatus \union {"none"}]

TypeOK ==
    /\ stage \in CandidateStages \union {"none"}
    /\ withdrawn \in BOOLEAN /\ purged \in BOOLEAN /\ dated \in BOOLEAN
    /\ personal \subseteq PersonalData
    /\ counted \in BOOLEAN
    /\ panel \subseteq Team
    /\ questions \in [edition : 0..MaxEditions, required : BOOLEAN]
    /\ criteria \in 0..MaxEditions
    /\ cards \in [Panelists -> CardStatus \union {"none"}]
    /\ rated \subseteq {p \in Panelists : cards[p] # "none"}
    /\ trail \subseteq Panelists
    /\ templates \subseteq Triggers
    /\ mails \in [Triggers -> Nat] /\ entries \in [Triggers -> Nat]
    /\ req \in [Workers -> Requests]
    /\ workload \in Workloads
    /\ moves \in 0..MaxMoves
    /\ peeked \subseteq Team \X {"card", "recommendation"} /\ spoke \subseteq Panelists
    /\ crossed \subseteq {"moves", "team", "purge", "template", "died"}

Exists == stage # "none"
AtAwait(w, label) == req[w].at = label
InFlight(w) == ~AtAwait(w, "idle")
Answer(w) == req' = [req EXCEPT ![w] = Idle]
Goto(w, label) == req' = [req EXCEPT ![w].at = label]
Holds(data) == personal' = personal \union data
Cross(what, happens) == crossed' = crossed \union {x \in {what} : happens}
Others(w, labels) == \E v \in Workers \ {w} : req[v].at \in labels

Init ==
    /\ stage = "none"
    /\ withdrawn = FALSE /\ purged = FALSE /\ dated = FALSE
    /\ personal = {}
    /\ counted = FALSE
    /\ panel \in SUBSET Team
    /\ \E required \in BOOLEAN : questions = [edition |-> 0, required |-> required]
    /\ criteria = 0
    /\ cards = [p \in Panelists |-> "none"] /\ rated = {} /\ trail = {}
    /\ templates = Triggers
    /\ mails = [t \in Triggers |-> 0] /\ entries = [t \in Triggers |-> 0]
    /\ req = [w \in Workers |-> Idle]
    /\ workload \in Workloads
    /\ moves = 0
    /\ peeked = {} /\ spoke = {} /\ crossed = {}
-------------------------------------------------------------------------------
(* sendTemplated: the trigger's template is looked up, then logged as sent *)
(* with the name the caller had read.                                      *)

AfterMail(w) == IF req[w].trigger = "Application Received" THEN Goto(w, "apply.audit") ELSE Answer(w)

MailFind(w) ==
    /\ AtAwait(w, "mail.find")
    /\ IF req[w].trigger \in templates THEN Goto(w, "mail.write") ELSE AfterMail(w)
    /\ Cross("template", req[w].trigger \notin templates)
    /\ UNCHANGED <<stage, profile, personal, posting, scoring, mailing, workload, moves>>

(* A template deleted since fails the insert, and the request with it. *)
MailWrite(w) ==
    /\ AtAwait(w, "mail.write")
    /\ IF req[w].trigger \in templates
         THEN /\ mails' = [mails EXCEPT ![req[w].trigger] = @ + 1]
              /\ Holds(IF req[w].named THEN {"mail"} ELSE {})
              /\ AfterMail(w)
         ELSE UNCHANGED <<mails, personal>> /\ Answer(w)
    /\ Cross("template", req[w].trigger \notin templates)
    /\ UNCHANGED <<stage, profile, posting, scoring, templates, entries, workload, moves>>

(* createTemplate, updateTemplate, deleteTemplate *)
EditTemplates(w) ==
    /\ AtAwait(w, "idle")
    /\ \E t \in Triggers : templates' \in {templates \union {t}, templates \ {t}}
    /\ UNCHANGED <<stage, profile, personal, posting, scoring, mails, entries, req, workload,
                   moves, crossed>>
-------------------------------------------------------------------------------
(* apply: the required questions must be answered; candidate and answers   *)
(* are one insert, then the counter, the resume (best effort), the mail    *)
(* and the audit event, whose detail is the name.                          *)

Apply(w) ==
    /\ AtAwait(w, "idle") /\ ~Exists /\ ~Others(w, {"apply.create"})
    /\ req' = [req EXCEPT ![w].at = "apply.create", ![w].named = TRUE,
                          ![w].edition = questions.edition, ![w].asked = questions.required,
                          ![w].trigger = "Application Received"]
    /\ UNCHANGED <<stage, profile, personal, posting, scoring, mailing, workload, moves, crossed>>

(* Answers to questions that are gone fail the insert, and the application. *)
ApplyCreate(w) ==
    /\ AtAwait(w, "apply.create")
    /\ IF req[w].asked => req[w].edition = questions.edition
         THEN /\ stage' = "Applied"
              /\ Holds({"row"} \union {x \in {"answers"} : req[w].asked})
              /\ entries' = [entries EXCEPT !["Application Received"] = @ + 1]
              /\ Goto(w, "apply.count")
         ELSE UNCHANGED <<stage, personal, entries>> /\ Answer(w)
    /\ Cross("team", Others(w, {"team"}))
    /\ UNCHANGED <<profile, posting, scoring, templates, mails, workload, moves>>

ApplyCount(w) ==
    /\ AtAwait(w, "apply.count")
    /\ counted' = TRUE
    /\ \E label \in {"apply.resume", "mail.find"} : Goto(w, label)
    /\ Cross("team", Others(w, {"team"}))
    /\ UNCHANGED <<stage, profile, personal, panel, questions, criteria, scoring, mailing,
                   workload, moves>>

(* Parsed by the AI provider first; a failure is only logged. *)
ApplyResume(w) ==
    /\ AtAwait(w, "apply.resume")
    /\ \/ Holds({"resume"})
       \/ Failures /\ UNCHANGED personal
    /\ Goto(w, "mail.find")
    /\ UNCHANGED <<stage, profile, posting, scoring, mailing, workload, moves, crossed>>

ApplyAudit(w) ==
    /\ AtAwait(w, "apply.audit")
    /\ Holds({"audit"})
    /\ Answer(w)
    /\ UNCHANGED <<stage, profile, posting, scoring, mailing, workload, moves, crossed>>
-------------------------------------------------------------------------------
(* setCandidateStageScoped: any stage may follow any other; entering       *)
(* Interview stamps the interview date, entering Interview or Rejected     *)
(* mails the candidate, if the stage read before was another one.          *)

TriggerOf(s) == CASE s = "Interview" -> "Interview Scheduled"
                  [] s = "Rejected"  -> "Rejected"
                  [] OTHER           -> "none"

SetCandidateStage(w) ==
    /\ AtAwait(w, "idle") /\ Exists /\ moves < MaxMoves
    /\ \E s \in CandidateStages :
         req' = [req EXCEPT ![w].at = "stage.write", ![w].stage = s, ![w].from = stage,
                            ![w].named = ~purged, ![w].trigger = TriggerOf(s)]
    /\ moves' = moves + 1
    /\ Cross("moves", Others(w, {"stage.write", "mail.find", "mail.write"}))
    /\ UNCHANGED <<stage, profile, personal, posting, scoring, mailing, workload>>

(* Mutant: a move to the stage it already has is announced again. *)
Reannounced(w) == req[w].trigger # "none"

Announced(w) == req[w].trigger # "none" /\ req[w].stage # req[w].from

StageWrite(w) ==
    /\ AtAwait(w, "stage.write")
    /\ stage' = req[w].stage
    /\ dated' = (dated \/ req[w].stage = "Interview")
    /\ entries' = IF stage # req[w].stage /\ req[w].trigger # "none"
                    THEN [entries EXCEPT ![req[w].trigger] = @ + 1] ELSE entries
    /\ IF Announced(w) THEN Goto(w, "mail.find") ELSE Answer(w)
    /\ UNCHANGED <<withdrawn, purged, personal, posting, scoring, templates, mails, workload,
                   moves, crossed>>
-------------------------------------------------------------------------------
(* The candidate's portal and mailbox; the token dies with the purge.      *)

WithdrawByToken(w) ==
    /\ AtAwait(w, "idle") /\ Exists /\ ~purged /\ ~withdrawn
    /\ Goto(w, "withdraw")
    /\ UNCHANGED <<stage, profile, personal, posting, scoring, mailing, workload, moves, crossed>>

WithdrawWrite(w) ==
    /\ AtAwait(w, "withdraw")
    /\ withdrawn' = TRUE
    /\ Answer(w)
    /\ UNCHANGED <<stage, purged, dated, personal, posting, scoring, mailing, workload, moves, crossed>>

(* Mutant: a reply found by the candidate's id is taken from anybody. *)
InboundUnchecked(w) ==
    /\ AtAwait(w, "idle") /\ Exists
    /\ Goto(w, "inbound")
    /\ UNCHANGED <<stage, profile, personal, posting, scoring, mailing, workload, moves, crossed>>

RecordInboundReply(w) ==
    /\ AtAwait(w, "idle") /\ Exists /\ ~purged
    /\ Goto(w, "inbound")
    /\ UNCHANGED <<stage, profile, personal, posting, scoring, mailing, workload, moves, crossed>>

InboundWrite(w) ==
    /\ AtAwait(w, "inbound")
    /\ Holds({"mail", "sender"})
    /\ Answer(w)
    /\ UNCHANGED <<stage, profile, posting, scoring, mailing, workload, moves, crossed>>

(* sendManualCommunication: rendered with the name read before; the audit  *)
(* event repeats the subject.                                              *)
SendManual(w) ==
    /\ AtAwait(w, "idle") /\ Exists
    /\ req' = [req EXCEPT ![w].at = "manual", ![w].named = ~purged]
    /\ UNCHANGED <<stage, profile, personal, posting, scoring, mailing, workload, moves, crossed>>

ManualWrite(w) ==
    /\ AtAwait(w, "manual")
    /\ Holds({x \in {"mail"} : req[w].named})
    /\ Goto(w, "manual.audit")
    /\ UNCHANGED <<stage, profile, posting, scoring, mailing, workload, moves, crossed>>

ManualAudit(w) ==
    /\ AtAwait(w, "manual.audit")
    /\ Holds({x \in {"audit"} : req[w].named})
    /\ Answer(w)
    /\ UNCHANGED <<stage, profile, posting, scoring, mailing, workload, moves, crossed>>

(* addNote, whatever has become of the candidate *)
AddNote(w) ==
    /\ AtAwait(w, "idle") /\ Exists
    /\ Goto(w, "note")
    /\ UNCHANGED <<stage, profile, personal, posting, scoring, mailing, workload, moves, crossed>>

NoteWrite(w) ==
    /\ AtAwait(w, "note")
    /\ Holds({"notes"})
    /\ Answer(w)
    /\ UNCHANGED <<stage, profile, posting, scoring, mailing, workload, moves, crossed>>

(* purgeCandidate: idempotent, one transaction over five tables. *)
PurgeCandidate(w) ==
    /\ AtAwait(w, "idle") /\ Exists /\ ~purged
    /\ Goto(w, "purge")
    /\ UNCHANGED <<stage, profile, personal, posting, scoring, mailing, workload, moves, crossed>>

PurgeWrite(w) ==
    /\ AtAwait(w, "purge")
    /\ purged' = TRUE
    /\ personal' = personal \ Purgeable
    /\ Cross("purge", Others(w, Awaits \ {"idle"}))
    /\ Answer(w)
    /\ UNCHANGED <<stage, withdrawn, dated, posting, scoring, mailing, workload, moves>>
-------------------------------------------------------------------------------
(* Replacing the questions takes the answers with it, replacing the        *)
(* criteria the ratings: both cascade.                                     *)

EditQuestions(w) ==
    /\ AtAwait(w, "idle")
    /\ Goto(w, "questions")
    /\ UNCHANGED <<stage, profile, personal, posting, scoring, mailing, workload, moves, crossed>>

QuestionsWrite(w) ==
    /\ AtAwait(w, "questions") /\ questions.edition < MaxEditions
    /\ \E required \in BOOLEAN :
         questions' = [edition |-> questions.edition + 1, required |-> required]
    /\ personal' = personal \ {"answers"}
    /\ Answer(w)
    /\ UNCHANGED <<stage, profile, counted, panel, criteria, scoring, mailing, workload, moves, crossed>>

SetScorecardCriteria(w) ==
    /\ AtAwait(w, "idle")
    /\ Goto(w, "criteria")
    /\ UNCHANGED <<stage, profile, personal, posting, scoring, mailing, workload, moves, crossed>>

CriteriaWrite(w) ==
    /\ AtAwait(w, "criteria") /\ criteria < MaxEditions
    /\ criteria' = criteria + 1
    /\ rated' = {}
    /\ Answer(w)
    /\ UNCHANGED <<stage, profile, personal, counted, panel, questions, cards, trail, peeked, spoke,
                   mailing, workload, moves, crossed>>

(* updateRequisition replaces the hiring team until the first application  *)
(* is counted.                                                             *)
EditTeam(w) ==
    /\ AtAwait(w, "idle") /\ ~counted
    /\ Goto(w, "team")
    /\ Cross("team", Others(w, {"apply.create", "apply.count"}))
    /\ UNCHANGED <<stage, profile, personal, posting, scoring, mailing, workload, moves>>

TeamWrite(w) ==
    /\ AtAwait(w, "team")
    /\ panel' \in SUBSET Team
    /\ Answer(w)
    /\ UNCHANGED <<stage, profile, personal, counted, questions, criteria, scoring, mailing,
                   workload, moves, crossed>>
-------------------------------------------------------------------------------
(* submitScorecard: HR or a panel member; a card replaces the panelist's   *)
(* earlier one, as a draft or finally; then an audit event repeats the     *)
(* recommendation, the draft's too.                                        *)

SubmitScorecard(w) ==
    /\ AtAwait(w, "idle") /\ Exists
    /\ \E p \in panel \union {HR}, status \in CardStatus :
         req' = [req EXCEPT ![w].at = "score", ![w].who = p, ![w].card = status,
                            ![w].edition = criteria]
    /\ UNCHANGED <<stage, profile, personal, posting, scoring, mailing, workload, moves, crossed>>

(* Ratings of criteria that are gone fail the transaction. *)
CardWrite(w) ==
    /\ AtAwait(w, "score")
    /\ IF req[w].edition = criteria
         THEN /\ cards' = [cards EXCEPT ![req[w].who] = req[w].card]
              /\ rated' = rated \union {req[w].who}
              /\ spoke' = spoke \union {p \in {req[w].who} : req[w].card = "Submitted"}
              /\ Goto(w, "score.audit")
         ELSE UNCHANGED <<cards, rated, spoke>> /\ Answer(w)
    /\ UNCHANGED <<stage, profile, personal, posting, trail, peeked, mailing, workload, moves, crossed>>

ScoreAudit(w) ==
    /\ AtAwait(w, "score.audit")
    /\ trail' = trail \union {req[w].who}
    /\ Answer(w)
    /\ UNCHANGED <<stage, profile, personal, posting, cards, rated, peeked, spoke, mailing,
                   workload, moves, crossed>>

(* Mutant: a draft of one's own unlocks the others' cards. *)
VisibleAfterDraft(p) ==
    {q \in Panelists : \/ q = p /\ cards[q] # "none"
                       \/ cards[q] = "Submitted" /\ (p = HR \/ p \notin panel \/ cards[p] # "none")}

(* The debrief gate of getCandidateDetail. *)
visibleScorecards(p) ==
    {q \in Panelists : \/ q = p /\ cards[q] # "none"
                       \/ cards[q] = "Submitted" /\ (p = HR \/ p \notin panel \/ cards[p] = "Submitted")}

(* The profile: the cards behind the gate, and the whole audit trail.      *)
Shown(p) == {x \in {"card"} : visibleScorecards(p) \ {p} # {}}
                \union {x \in {"recommendation"} : trail \ {p} # {}}

GetCandidateDetail(w) ==
    /\ AtAwait(w, "idle") /\ Exists
    /\ \E p \in Team \ spoke :
         /\ Shown(p) # {}
         /\ peeked' = peeked \union ({p} \X Shown(p))
    /\ UNCHANGED <<stage, profile, personal, posting, cards, rated, trail, spoke, mailing, req,
                   workload, moves, crossed>>
-------------------------------------------------------------------------------
Arrive(w) ==
    \/ "apply" \in workload /\ Apply(w)
    \/ "stage" \in workload /\ SetCandidateStage(w)
    \/ "withdraw" \in workload /\ WithdrawByToken(w)
    \/ "purge" \in workload /\ PurgeCandidate(w)
    \/ "note" \in workload /\ AddNote(w)
    \/ "manual" \in workload /\ SendManual(w)
    \/ "inbound" \in workload /\ RecordInboundReply(w)
    \/ "template" \in workload /\ EditTemplates(w)
    \/ "questions" \in workload /\ EditQuestions(w)
    \/ "criteria" \in workload /\ SetScorecardCriteria(w)
    \/ "team" \in workload /\ EditTeam(w)
    \/ "score" \in workload /\ SubmitScorecard(w)
    \/ "detail" \in workload /\ GetCandidateDetail(w)

Handle(w) ==
    \/ ApplyCreate(w) \/ ApplyCount(w) \/ ApplyResume(w) \/ ApplyAudit(w)
    \/ MailFind(w) \/ MailWrite(w) \/ StageWrite(w)
    \/ WithdrawWrite(w) \/ InboundWrite(w) \/ ManualWrite(w) \/ ManualAudit(w)
    \/ NoteWrite(w) \/ PurgeWrite(w)
    \/ QuestionsWrite(w) \/ CriteriaWrite(w) \/ TeamWrite(w) \/ CardWrite(w) \/ ScoreAudit(w)

(* The process restarts, or a call fails.  Bound: one death. *)
Die(w) ==
    /\ Failures /\ "died" \notin crossed
    /\ InFlight(w)
    /\ Answer(w)
    /\ Cross("died", TRUE)
    /\ UNCHANGED <<stage, profile, personal, posting, scoring, mailing, workload, moves>>

Next == \E w \in Workers : Arrive(w) \/ Handle(w) \/ Die(w)

Spec == Init /\ [][Next]_vars
-------------------------------------------------------------------------------
(* Properties *)

Quiet == \A w \in Workers : ~InFlight(w)

(* A candidate is mailed once for each time the application was received,  *)
(* an interview stage was entered or the application was rejected, unless  *)
(* two stage changes crossed, a template was missing or a request died.    *)
MailsMatchMoves ==
    Quiet /\ crossed \intersect {"moves", "template", "died"} = {} => mails = entries

(* Once purged, a record takes up no personal data again, the hiring team's *)
(* own notes apart, unless a request was under way when it was purged.      *)
PurgeSticks == [][purged /\ "purge" \notin crossed => personal' \ personal \subseteq {"notes"}]_vars

(* The gate on the panel's cards: no one submits a first card after having *)
(* seen a colleague's, however drafts, resubmissions and the composition of *)
(* the panel change, unless an edit of the team crossed the application or  *)
(* an application died uncounted.  It is less than the "nobody reads the    *)
(* panel before forming an independent opinion" of the code's comment: the  *)
(* recommendations of the others' cards, drafts included, are on the trail  *)
(* of the same profile, and one who reads them there may still submit a     *)
(* first card.                                                             *)
DebriefGate ==
    crossed \intersect {"team", "died"} = {} => \A p \in spoke : <<p, "card">> \notin peeked
===============================================================================
