----------------------- MODULE CandidatePipelineProofs ------------------------
(***************************************************************************)
(* What the pipeline guarantees a candidate and a panel for any number of  *)
(* requests, panelists, stage changes and editions of the questions and    *)
(* the criteria.  Sense says what a request in flight carries with it, and *)
(* OneApplication that there is never more than one application under way. *)
(***************************************************************************)
EXTENDS CandidatePipeline, TLAPS

Mailing == {"mail.find", "mail.write"}

(* A request on its way from the application to its audit event. *)
Applying(w) ==
    \/ req[w].at \in {"apply.create", "apply.count", "apply.resume", "apply.audit"}
    \/ req[w].at \in Mailing /\ req[w].trigger = "Application Received"

Sense(w) == LET r == req[w] IN
    /\ r.at \in Mailing => r.trigger # "none"
    /\ r.at = "stage.write" => r.stage \in CandidateStages /\ r.trigger = TriggerOf(r.stage)
    /\ r.at \in {"apply.create", "apply.count", "apply.resume", "apply.audit"}
         => r.trigger = "Application Received"
    /\ r.at = "score" => r.card \in CardStatus
    /\ r.at \notin {"idle", "apply.create", "questions", "criteria", "team"} => Exists
    /\ r.at = "apply.create" => ~Exists

OneApplication == \A v, w \in Workers : Applying(v) /\ Applying(w) => v = w

CoreInv == TypeOK /\ (\A w \in Workers : Sense(w)) /\ OneApplication /\ (purged => Exists)

LEMMA IdleTyped == Idle \in Requests /\ Idle.at = "idle" /\ Idle.trigger = "none"
BY PipelineAssumption DEF Idle, Requests, Awaits, Panelists

LEMMA TriggersOfStages ==
    ASSUME NEW s \in CandidateStages
    PROVE  TriggerOf(s) \in {"none", "Interview Scheduled", "Rejected"}
BY DEF TriggerOf, CandidateStages

LEMMA AnswerTyped ==
    ASSUME req \in [Workers -> Requests], NEW w \in Workers, Answer(w)
    PROVE  /\ req' \in [Workers -> Requests] /\ req'[w] = Idle /\ ~Applying(w)'
           /\ \A v \in Workers \ {w} : req'[v] = req[v]
BY IdleTyped DEF Answer, Applying, Mailing

LEMMA GotoTyped ==
    ASSUME req \in [Workers -> Requests], NEW w \in Workers, NEW label \in Awaits, Goto(w, label)
    PROVE  /\ req' \in [Workers -> Requests]
           /\ req'[w].at = label /\ req'[w].trigger = req[w].trigger /\ req'[w].named = req[w].named
           /\ req'[w].stage = req[w].stage /\ req'[w].from = req[w].from /\ req'[w].who = req[w].who
           /\ req'[w].card = req[w].card
           /\ \A v \in Workers \ {w} : req'[v] = req[v]
<1>1. /\ [req[w] EXCEPT !.at = label] \in Requests
      /\ req' = [req EXCEPT ![w] = [req[w] EXCEPT !.at = label]]
    BY DEF Goto, Requests
<1> QED
    BY <1>1 DEF Requests

(* What a new request carries with it. *)
LEMMA ApplyTyped ==
    ASSUME TypeOK, NEW w \in Workers, Apply(w)
    PROVE  /\ req' \in [Workers -> Requests]
           /\ req'[w].at = "apply.create" /\ req'[w].trigger = "Application Received"
           /\ \A v \in Workers \ {w} : req'[v] = req[v]
<1> DEFINE r == [req[w] EXCEPT !.at = "apply.create", !.named = TRUE, !.edition = questions.edition,
                               !.asked = questions.required, !.trigger = "Application Received"]
<1>1. req \in [Workers -> Requests] /\ questions.edition \in 0..MaxEditions /\ questions.required \in BOOLEAN
      /\ "apply.create" \in Awaits /\ "Application Received" \in Triggers
    BY DEF TypeOK, Awaits, Triggers
<1>2. r \in Requests /\ r.at = "apply.create" /\ r.trigger = "Application Received"
    BY <1>1 DEF Requests
<1>3. req' = [req EXCEPT ![w] = r]
    BY DEF Apply
<1> HIDE DEF r
<1> QED
    BY <1>1, <1>2, <1>3

LEMMA StageTyped ==
    ASSUME TypeOK, NEW w \in Workers, SetCandidateStage(w)
    PROVE  /\ req' \in [Workers -> Requests]
           /\ req'[w].at = "stage.write" /\ req'[w].stage \in CandidateStages
           /\ req'[w].trigger = TriggerOf(req'[w].stage)
           /\ req'[w].from = stage /\ req'[w].named = ~purged
           /\ \A v \in Workers \ {w} : req'[v] = req[v]
<1>1. PICK s \in CandidateStages :
        req' = [req EXCEPT ![w].at = "stage.write", ![w].stage = s, ![w].from = stage,
                           ![w].named = ~purged, ![w].trigger = TriggerOf(s)]
    BY DEF SetCandidateStage
<1>2. PICK t \in Triggers \union {"none"} : t = TriggerOf(s)
    BY TriggersOfStages DEF Triggers
<1> DEFINE r == [req[w] EXCEPT !.at = "stage.write", !.stage = s, !.from = stage,
                               !.named = ~purged, !.trigger = t]
<1>3. req \in [Workers -> Requests] /\ stage \in CandidateStages \union {"none"} /\ (~purged) \in BOOLEAN
      /\ "stage.write" \in Awaits
    BY DEF TypeOK, Awaits
<1>4. /\ r \in Requests /\ r.at = "stage.write" /\ r.stage = s /\ r.from = stage /\ r.named = ~purged
      /\ r.trigger = t
    BY <1>3 DEF Requests
<1>5. req' = [req EXCEPT ![w] = r]
    BY <1>1, <1>2
<1> HIDE DEF r
<1> QED
    BY <1>2, <1>3, <1>4, <1>5

LEMMA ScoreTyped ==
    ASSUME TypeOK, NEW w \in Workers, SubmitScorecard(w)
    PROVE  /\ req' \in [Workers -> Requests]
           /\ req'[w].at = "score" /\ req'[w].who \in panel \union {HR} /\ req'[w].card \in CardStatus
           /\ \A v \in Workers \ {w} : req'[v] = req[v]
<1>1. PICK p \in panel \union {HR}, status \in CardStatus :
        req' = [req EXCEPT ![w].at = "score", ![w].who = p, ![w].card = status, ![w].edition = criteria]
    BY DEF SubmitScorecard
<1> DEFINE r == [req[w] EXCEPT !.at = "score", !.who = p, !.card = status, !.edition = criteria]
<1>2. req \in [Workers -> Requests] /\ p \in Panelists /\ criteria \in 0..MaxEditions /\ "score" \in Awaits
    BY DEF TypeOK, Awaits, Panelists
<1>3. r \in Requests /\ r.at = "score" /\ r.who = p /\ r.card = status
    BY <1>2 DEF Requests
<1>4. req' = [req EXCEPT ![w] = r]
    BY <1>1
<1> HIDE DEF r
<1> QED
    BY <1>2, <1>3, <1>4

LEMMA ManualTyped ==
    ASSUME TypeOK, NEW w \in Workers, SendManual(w)
    PROVE  /\ req' \in [Workers -> Requests]
           /\ req'[w].at = "manual" /\ req'[w].named = ~purged
           /\ \A v \in Workers \ {w} : req'[v] = req[v]
<1> DEFINE r == [req[w] EXCEPT !.at = "manual", !.named = ~purged]
<1>1. req \in [Workers -> Requests] /\ (~purged) \in BOOLEAN /\ "manual" \in Awaits
    BY DEF TypeOK, Awaits
<1>2. r \in Requests /\ r.at = "manual" /\ r.named = ~purged
    BY <1>1 DEF Requests
<1>3. req' = [req EXCEPT ![w] = r]
    BY DEF SendManual
<1> HIDE DEF r
<1> QED
    BY <1>1, <1>2, <1>3
-------------------------------------------------------------------------------
(* A mail that is still to be written for what has already happened. *)
Owes(w, t) ==
    \/ req[w].at \in Mailing /\ req[w].trigger = t
    \/ req[w].at \in {"apply.count", "apply.resume"} /\ t = "Application Received"

(* A stage change under way, with its mail. *)
Mover(w) ==
    \/ req[w].at = "stage.write"
    \/ req[w].at \in Mailing /\ req[w].trigger # "Application Received"

MailInv == crossed \intersect {"moves", "template", "died"} = {} =>
    /\ \A v, w \in Workers : Mover(v) /\ Mover(w) => v = w
    /\ \A w \in Workers : req[w].at = "stage.write" => req[w].from = stage
    /\ \A t \in Triggers : entries[t] = mails[t] + IF \E w \in Workers : Owes(w, t) THEN 1 ELSE 0

(* A request that takes up no personal data but the team's notes. *)
Harmless(w) ==
    /\ ~Applying(w) /\ req[w].at # "inbound"
    /\ req[w].at \in {"stage.write", "manual", "manual.audit"} \union Mailing => ~req[w].named

PurgeInv == purged /\ "purge" \notin crossed => \A w \in Workers : Harmless(w)

PanelInv ==
    /\ \A p \in Panelists : cards[p] = "Submitted" => p \in spoke
    /\ crossed \intersect {"team", "died"} = {} =>
         /\ Exists => counted \/ \E w \in Workers : req[w].at = "apply.count"
         /\ Exists => \A w \in Workers : req[w].at # "team"
         /\ peeked # {} => Exists
         /\ \A w \in Workers : req[w].at = "score" => req[w].who \in panel \union {HR}
         /\ \A p \in panel \union spoke : <<p, "card">> \notin peeked
-------------------------------------------------------------------------------
(* The frame of a step: the request that moves makes sense where it goes. *)
LEMMA RequestStep ==
    ASSUME CoreInv, NEW w \in Workers, TypeOK', Sense(w)', \A v \in Workers \ {w} : req'[v] = req[v],
           Exists => Exists', Exists' => Exists \/ Applying(w), purged' => Exists',
           Applying(w)' => Applying(w) \/ \A v \in Workers \ {w} : ~Applying(v)
    PROVE  CoreInv'
<1>1. \A v \in Workers \ {w} : Applying(v)' <=> Applying(v)
    BY DEF Applying
<1>2. OneApplication'
    BY <1>1 DEF CoreInv, OneApplication
<1>3. ASSUME NEW v \in Workers \ {w}
      PROVE  Sense(v)'
  <2>1. req[v].at = "apply.create" => ~Applying(w) /\ ~Exists
      BY DEF CoreInv, OneApplication, Applying, Sense
  <2> QED
      BY <2>1 DEF CoreInv, Sense
<1> QED
    BY <1>2, <1>3 DEF CoreInv

Frame == <<stage, profile, personal, posting, scoring, mailing, workload, moves>>

(* An arrival that only notes what it is for. *)
LEMMA NoteArrives ==
    ASSUME CoreInv, NEW w \in Workers, UNCHANGED Frame,
           NEW label \in {"withdraw", "inbound", "note", "purge", "questions", "criteria", "team"},
           Goto(w, label), label \notin {"questions", "criteria", "team"} => Exists,
           crossed' \subseteq crossed \union {"team"}
    PROVE  CoreInv'
<1>1. req \in [Workers -> Requests] /\ label \in Awaits
    BY DEF CoreInv, TypeOK, Awaits
<1>2. /\ req' \in [Workers -> Requests] /\ \A v \in Workers \ {w} : req'[v] = req[v]
      /\ req'[w].at = label
    BY <1>1, GotoTyped
<1>3. UNCHANGED <<stage, withdrawn, purged, dated, personal, counted, panel, questions, criteria, cards,
                  rated, trail, templates, mails, entries, workload, moves, peeked, spoke>>
    BY DEF Frame, profile, posting, scoring, mailing
<1>4. TypeOK'
    BY <1>2, <1>3 DEF CoreInv, TypeOK
<1>5. Sense(w)' /\ ~Applying(w)'
    BY <1>2, <1>3 DEF Sense, Applying, Mailing, Exists
<1> QED
    BY <1>2, <1>3, <1>4, <1>5, RequestStep DEF Exists, CoreInv

LEMMA ArriveHolds ==
    ASSUME CoreInv, NEW w \in Workers, Arrive(w)
    PROVE  CoreInv'
<1>0. req \in [Workers -> Requests] /\ AtAwait(w, "idle")
    BY DEF CoreInv, TypeOK, Arrive, Apply, SetCandidateStage, WithdrawByToken, PurgeCandidate, AddNote,
           SendManual, RecordInboundReply, EditTemplates, EditQuestions, SetScorecardCriteria, EditTeam,
           SubmitScorecard, GetCandidateDetail
<1>1. CASE WithdrawByToken(w) \/ PurgeCandidate(w) \/ AddNote(w) \/ RecordInboundReply(w)
           \/ EditQuestions(w) \/ SetScorecardCriteria(w) \/ EditTeam(w)
    BY <1>1, NoteArrives DEF WithdrawByToken, PurgeCandidate, AddNote, RecordInboundReply, EditQuestions,
           SetScorecardCriteria, EditTeam, Frame, Cross
<1>2. CASE Apply(w)
  <2>1. /\ ~Exists /\ \A v \in Workers \ {w} : req[v].at # "apply.create"
        /\ UNCHANGED <<Frame, crossed>>
      BY <1>2 DEF Apply, Others, Frame
  <2>2. UNCHANGED <<stage, withdrawn, purged, dated, personal, counted, panel, questions, criteria, cards,
                    rated, trail, templates, mails, entries, workload, moves, peeked, spoke, crossed>>
      BY <2>1 DEF Frame, profile, posting, scoring, mailing
  <2>3. /\ req' \in [Workers -> Requests]
        /\ req'[w].at = "apply.create" /\ req'[w].trigger = "Application Received"
        /\ \A v \in Workers \ {w} : req'[v] = req[v]
      BY <1>2, ApplyTyped DEF CoreInv
  <2>4. \A v \in Workers \ {w} : ~Applying(v)
      BY <2>1 DEF CoreInv, Sense, Applying, Mailing
  <2>5. TypeOK'
      BY <2>2, <2>3 DEF CoreInv, TypeOK
  <2>6. Sense(w)'
      BY <2>1, <2>2, <2>3 DEF Sense, Mailing, Exists
  <2> QED
      BY <2>2, <2>3, <2>4, <2>5, <2>6, RequestStep DEF Exists, CoreInv
<1>3. CASE SetCandidateStage(w)
  <2>1. Exists /\ moves' = moves + 1 /\ moves < MaxMoves
        /\ UNCHANGED <<stage, profile, personal, posting, scoring, mailing, workload>>
        /\ crossed' \subseteq crossed \union {"moves"}
      BY <1>3 DEF SetCandidateStage, Cross
  <2>2. UNCHANGED <<stage, withdrawn, purged, dated, personal, counted, panel, questions, criteria, cards,
                    rated, trail, templates, mails, entries, workload, peeked, spoke>>
      BY <2>1 DEF profile, posting, scoring, mailing
  <2>3. /\ req' \in [Workers -> Requests]
        /\ req'[w].at = "stage.write" /\ req'[w].stage \in CandidateStages
        /\ req'[w].trigger = TriggerOf(req'[w].stage)
        /\ \A v \in Workers \ {w} : req'[v] = req[v]
      BY <1>3, StageTyped DEF CoreInv
  <2>4. moves' \in 0..MaxMoves
      BY <2>1, PipelineAssumption DEF CoreInv, TypeOK
  <2>5. TypeOK'
      BY <2>1, <2>2, <2>3, <2>4 DEF CoreInv, TypeOK
  <2>6. Sense(w)' /\ ~Applying(w)'
      BY <2>1, <2>2, <2>3 DEF Sense, Mailing, Exists, Applying
  <2> QED
      BY <2>1, <2>2, <2>3, <2>5, <2>6, RequestStep DEF Exists, CoreInv
<1>4. CASE SendManual(w) \/ SubmitScorecard(w)
  <2>1. Exists /\ UNCHANGED <<Frame, crossed>>
      BY <1>4 DEF SendManual, SubmitScorecard, Frame
  <2>2. UNCHANGED <<stage, withdrawn, purged, dated, personal, counted, panel, questions, criteria, cards,
                    rated, trail, templates, mails, entries, workload, moves, peeked, spoke, crossed>>
      BY <2>1 DEF Frame, profile, posting, scoring, mailing
  <2>3. /\ req' \in [Workers -> Requests]
        /\ \/ req'[w].at = "manual"
           \/ req'[w].at = "score" /\ req'[w].card \in CardStatus
        /\ \A v \in Workers \ {w} : req'[v] = req[v]
      BY <1>4, ManualTyped, ScoreTyped DEF CoreInv
  <2>4. TypeOK'
      BY <2>2, <2>3 DEF CoreInv, TypeOK
  <2>5. Sense(w)' /\ ~Applying(w)'
      BY <2>1, <2>2, <2>3 DEF Sense, Mailing, Exists, Applying
  <2> QED
      BY <2>1, <2>2, <2>3, <2>4, <2>5, RequestStep DEF Exists, CoreInv
<1>5. CASE EditTemplates(w) \/ GetCandidateDetail(w)
  <2>1. UNCHANGED <<stage, withdrawn, purged, dated, personal, counted, panel, questions, criteria, cards,
                    rated, trail, mails, entries, workload, moves, spoke, req, crossed>>
      BY <1>5 DEF EditTemplates, GetCandidateDetail, profile, posting, scoring, mailing
  <2>2. templates' \in SUBSET Triggers /\ peeked' \in SUBSET (Team \X {"card", "recommendation"})
      BY <1>5 DEF EditTemplates, GetCandidateDetail, Shown, scoring, mailing, CoreInv, TypeOK
  <2>3. TypeOK'
      BY <2>1, <2>2 DEF CoreInv, TypeOK
  <2>4. Sense(w)' /\ (Applying(w)' <=> Applying(w))
      BY <2>1 DEF CoreInv, Sense, Exists, Applying
  <2> QED
      BY <2>1, <2>3, <2>4, RequestStep DEF Exists, CoreInv
<1> QED
    BY <1>1, <1>2, <1>3, <1>4, <1>5 DEF Arrive
-------------------------------------------------------------------------------
(* The awaits of the handlers: each goes on to another await or answers. *)
LEMMA HandleMoves ==
    ASSUME CoreInv, NEW w \in Workers, Handle(w) \/ Die(w)
    PROVE  /\ req' \in [Workers -> Requests] /\ \A v \in Workers \ {w} : req'[v] = req[v]
           /\ \/ req'[w] = Idle
              \/ /\ req'[w].trigger = req[w].trigger /\ req'[w].named = req[w].named
                 /\ req[w].at = "apply.create" => req'[w].at = "apply.count"
                 /\ req[w].at = "apply.count" => req'[w].at \in {"apply.resume", "mail.find"}
                 /\ req[w].at = "apply.resume" => req'[w].at = "mail.find"
                 /\ req[w].at = "mail.find" => req'[w].at = "mail.write" \/ (Applying(w) /\ req'[w].at = "apply.audit")
                 /\ req[w].at = "mail.write" => Applying(w) /\ req'[w].at = "apply.audit"
                 /\ req[w].at = "stage.write" => Announced(w) /\ req'[w].at = "mail.find"
                 /\ req[w].at = "manual" => req'[w].at = "manual.audit"
                 /\ req[w].at = "score" => req'[w].at = "score.audit"
                 /\ req[w].at \in {"apply.create", "apply.count", "apply.resume", "mail.find", "mail.write",
                                   "stage.write", "manual", "score"}
<1>1. req \in [Workers -> Requests] /\ Sense(w)
    BY DEF CoreInv, TypeOK
<1>2. CASE Answer(w)
    BY <1>1, <1>2, AnswerTyped
<1>3. \/ Answer(w)
      \/ req[w].at = "apply.create" /\ Goto(w, "apply.count")
      \/ req[w].at = "apply.count" /\ (Goto(w, "apply.resume") \/ Goto(w, "mail.find"))
      \/ req[w].at = "apply.resume" /\ Goto(w, "mail.find")
      \/ req[w].at = "mail.find" /\ (Goto(w, "mail.write") \/ (Applying(w) /\ Goto(w, "apply.audit")))
      \/ req[w].at = "mail.write" /\ Applying(w) /\ Goto(w, "apply.audit")
      \/ req[w].at = "stage.write" /\ Announced(w) /\ Goto(w, "mail.find")
      \/ req[w].at = "manual" /\ Goto(w, "manual.audit")
      \/ req[w].at = "score" /\ Goto(w, "score.audit")
  <2>1. CASE MailFind(w) \/ MailWrite(w)
      BY <2>1 DEF MailFind, MailWrite, AfterMail, AtAwait, Applying, Mailing
  <2>2. CASE ApplyCreate(w) \/ ApplyCount(w) \/ ApplyResume(w) \/ StageWrite(w) \/ ManualWrite(w)
           \/ CardWrite(w)
    <3>1. CASE ApplyCreate(w)
        BY <3>1 DEF ApplyCreate, AtAwait
    <3>2. CASE ApplyCount(w)
        BY <3>2 DEF ApplyCount, AtAwait
    <3>3. CASE ApplyResume(w) \/ ManualWrite(w)
        BY <3>3 DEF ApplyResume, ManualWrite, AtAwait
    <3>4. CASE StageWrite(w)
        BY <3>4 DEF StageWrite, AtAwait
    <3>5. CASE CardWrite(w)
        BY <3>5 DEF CardWrite, AtAwait
    <3> QED
        BY <2>2, <3>1, <3>2, <3>3, <3>4, <3>5
  <2> QED
      BY <2>1, <2>2 DEF Handle, Die, ApplyAudit, WithdrawWrite, InboundWrite, ManualAudit, NoteWrite, PurgeWrite,
           QuestionsWrite, CriteriaWrite, TeamWrite, ScoreAudit
<1>4. ASSUME NEW label \in {"apply.count", "apply.resume", "mail.find", "mail.write", "apply.audit", "manual.audit",
                            "score.audit"},
             Goto(w, label)
      PROVE  /\ req' \in [Workers -> Requests] /\ \A v \in Workers \ {w} : req'[v] = req[v]
             /\ req'[w].at = label /\ req'[w].trigger = req[w].trigger /\ req'[w].named = req[w].named
  <2>1. label \in Awaits
      BY DEF Awaits
  <2> QED
      BY <1>1, <1>4, <2>1, GotoTyped
<1> QED
    BY <1>2, <1>3, <1>4

(* What they write. *)
LEMMA HandleWrites ==
    ASSUME CoreInv, NEW w \in Workers, Handle(w) \/ Die(w)
    PROVE  /\ TypeOK' /\ workload' = workload /\ moves' = moves
           /\ Exists => Exists'
           /\ Exists' => Exists \/ req[w].at = "apply.create"
           /\ purged' => Exists'
           /\ req[w].at = "apply.create" => Exists' \/ req'[w] = Idle
<1>0. /\ req[w] \in Requests /\ Sense(w)
      /\ req' \in [Workers -> Requests]
    BY HandleMoves DEF CoreInv, TypeOK
<1>1. /\ workload' = workload /\ moves' = moves
      /\ withdrawn' \in BOOLEAN /\ purged' \in BOOLEAN /\ dated' \in BOOLEAN /\ counted' \in BOOLEAN
    BY DEF CoreInv, TypeOK, Handle, Die, ApplyCreate, ApplyCount, ApplyResume, ApplyAudit, MailFind, MailWrite,
           StageWrite, WithdrawWrite, InboundWrite, ManualWrite, ManualAudit, NoteWrite, PurgeWrite,
           QuestionsWrite, CriteriaWrite, TeamWrite, CardWrite, ScoreAudit, profile, posting
<1>2. /\ stage' \in CandidateStages \union {"none"}
      /\ Exists => Exists'
      /\ Exists' => Exists \/ req[w].at = "apply.create"
      /\ purged' => Exists'
  <2>1. CASE UNCHANGED stage
    <3>1. purged' => purged \/ req[w].at = "purge"
        BY DEF Handle, Die, AtAwait, ApplyCreate, ApplyCount, ApplyResume, ApplyAudit, MailFind, MailWrite,
           StageWrite, WithdrawWrite, InboundWrite, ManualWrite, ManualAudit, NoteWrite, PurgeWrite,
           QuestionsWrite, CriteriaWrite, TeamWrite, CardWrite, ScoreAudit, profile
    <3> QED
        BY <1>0, <2>1, <3>1 DEF CoreInv, TypeOK, Exists, Sense
  <2>2. CASE ApplyCreate(w) /\ stage' = "Applied"
      BY <2>2 DEF ApplyCreate, AtAwait, CandidateStages, Exists
  <2>3. CASE StageWrite(w)
      BY <1>0, <2>3 DEF StageWrite, AtAwait, Sense, CandidateStages, Exists, Mailing
  <2> QED
      BY <2>1, <2>2, <2>3 DEF Handle, Die, ApplyCreate, ApplyCount, ApplyResume, ApplyAudit, MailFind,
           MailWrite, WithdrawWrite, InboundWrite, ManualWrite, ManualAudit, NoteWrite, PurgeWrite,
           QuestionsWrite, CriteriaWrite, TeamWrite, CardWrite, ScoreAudit
<1>3. personal' \subseteq PersonalData
  <2>1. personal' \subseteq personal \/ \E data \in SUBSET PersonalData : Holds(data)
    <3>1. CASE ApplyCreate(w)
        BY <3>1 DEF ApplyCreate, PersonalData
    <3>2. CASE ApplyResume(w) \/ ApplyAudit(w) \/ InboundWrite(w) \/ NoteWrite(w)
        BY <3>2 DEF ApplyResume, ApplyAudit, InboundWrite, NoteWrite, PersonalData
    <3>3. CASE MailWrite(w) \/ ManualWrite(w) \/ ManualAudit(w)
        BY <3>3 DEF MailWrite, ManualWrite, ManualAudit, PersonalData
    <3> QED
        BY <3>1, <3>2, <3>3 DEF Handle, Die, ApplyCount, MailFind, StageWrite, WithdrawWrite, PurgeWrite,
             QuestionsWrite, CriteriaWrite, TeamWrite, CardWrite, ScoreAudit
  <2> QED
      BY <2>1 DEF Holds, CoreInv, TypeOK
<1>4. /\ panel' \in SUBSET Team /\ criteria' \in 0..MaxEditions
      /\ questions' \in [edition : 0..MaxEditions, required : BOOLEAN]
  <2>1. CASE UNCHANGED <<panel, criteria, questions>>
      BY <2>1 DEF CoreInv, TypeOK
  <2>2. CASE TeamWrite(w)
      BY <2>2 DEF TeamWrite, CoreInv, TypeOK
  <2>3. CASE CriteriaWrite(w)
      BY <2>3, PipelineAssumption DEF CriteriaWrite, CoreInv, TypeOK
  <2>4. CASE QuestionsWrite(w)
    <3>1. questions.edition \in 0..MaxEditions /\ questions.edition < MaxEditions
        BY <2>4 DEF QuestionsWrite, CoreInv, TypeOK
    <3>2. questions.edition + 1 \in 0..MaxEditions
        BY <3>1, PipelineAssumption
    <3> QED
        BY <2>4, <3>2 DEF QuestionsWrite, CoreInv, TypeOK
  <2> QED
      BY <2>1, <2>2, <2>3, <2>4 DEF Handle, Die, ApplyCreate, ApplyCount, ApplyResume, ApplyAudit, MailFind,
           MailWrite, StageWrite, WithdrawWrite, InboundWrite, ManualWrite, ManualAudit, NoteWrite, PurgeWrite,
           CardWrite, ScoreAudit, posting
<1>5. /\ cards' \in [Panelists -> CardStatus \union {"none"}]
      /\ rated' \subseteq {p \in Panelists : cards'[p] # "none"}
      /\ trail' \subseteq Panelists
      /\ peeked' \subseteq Team \X {"card", "recommendation"} /\ spoke' \subseteq Panelists
  <2>1. CASE UNCHANGED <<cards, spoke>> /\ rated' \in {rated, {}} /\ peeked' = peeked
           /\ trail' \in {trail, trail \union {req[w].who}}
      BY <1>0, <2>1 DEF CoreInv, TypeOK, Requests
  <2>2. CASE CardWrite(w)
    <3>1. PICK p \in Panelists : p = req[w].who
        BY <1>0 DEF Requests
    <3>2. PICK card \in CardStatus : card = req[w].card
        BY <1>0, <2>2 DEF CardWrite, AtAwait, Sense
    <3>3. CASE cards' = [cards EXCEPT ![p] = card] /\ rated' = rated \union {p}
               /\ spoke' = spoke \union {q \in {p} : card = "Submitted"} /\ peeked' = peeked /\ trail' = trail
      <4>1. card # "none"
          BY DEF CardStatus
      <4> QED
          BY <3>3, <4>1 DEF CoreInv, TypeOK
    <3>4. CASE UNCHANGED <<cards, rated, trail, spoke, peeked>>
        BY <3>4 DEF CoreInv, TypeOK
    <3> QED
        BY <2>2, <3>1, <3>2, <3>3, <3>4 DEF CardWrite
  <2> QED
      BY <2>1, <2>2 DEF Handle, Die, ApplyCreate, ApplyCount, ApplyResume, ApplyAudit, MailFind, MailWrite,
           StageWrite, WithdrawWrite, InboundWrite, ManualWrite, ManualAudit, NoteWrite, PurgeWrite,
           QuestionsWrite, CriteriaWrite, TeamWrite, ScoreAudit, scoring
<1>6. templates' \subseteq Triggers /\ mails' \in [Triggers -> Nat] /\ entries' \in [Triggers -> Nat]
  <2>1. templates' = templates
      BY DEF Handle, Die, ApplyCreate, ApplyCount, ApplyResume, ApplyAudit, MailFind, MailWrite,
           StageWrite, WithdrawWrite, InboundWrite, ManualWrite, ManualAudit, NoteWrite, PurgeWrite,
           QuestionsWrite, CriteriaWrite, TeamWrite, CardWrite, ScoreAudit, mailing
  <2>2. mails' = mails \/ mails' = [mails EXCEPT ![req[w].trigger] = @ + 1]
      BY DEF Handle, Die, ApplyCreate, ApplyCount, ApplyResume, ApplyAudit, MailFind, MailWrite,
           StageWrite, WithdrawWrite, InboundWrite, ManualWrite, ManualAudit, NoteWrite, PurgeWrite,
           QuestionsWrite, CriteriaWrite, TeamWrite, CardWrite, ScoreAudit, mailing
  <2>3. entries' = entries \/ entries' = [entries EXCEPT !["Application Received"] = @ + 1]
                           \/ entries' = [entries EXCEPT ![req[w].trigger] = @ + 1]
      BY DEF Handle, Die, ApplyCreate, ApplyCount, ApplyResume, ApplyAudit, MailFind, MailWrite,
           StageWrite, WithdrawWrite, InboundWrite, ManualWrite, ManualAudit, NoteWrite, PurgeWrite,
           QuestionsWrite, CriteriaWrite, TeamWrite, CardWrite, ScoreAudit, mailing
  <2>4. ASSUME NEW f \in [Triggers -> Nat], NEW t
        PROVE  [f EXCEPT ![t] = f[t] + 1] \in [Triggers -> Nat]
    <3>1. CASE t \in Triggers
        BY <3>1
    <3>2. CASE t \notin Triggers
        BY <3>2
    <3> QED
        BY <3>1, <3>2
  <2>5. templates \subseteq Triggers /\ mails \in [Triggers -> Nat] /\ entries \in [Triggers -> Nat]
      BY DEF CoreInv, TypeOK
  <2>6. mails' \in [Triggers -> Nat]
      BY ONLY <2>2, <2>4, <2>5
  <2>7. entries' \in [Triggers -> Nat]
    <3>1. CASE entries' = entries
        BY <2>5, <3>1
    <3>2. CASE entries' = [entries EXCEPT !["Application Received"] = @ + 1]
        BY ONLY <2>4, <2>5, <3>2
    <3>3. CASE entries' = [entries EXCEPT ![req[w].trigger] = @ + 1]
        BY ONLY <2>4, <2>5, <3>3
    <3> QED
        BY <2>3, <3>1, <3>2, <3>3
  <2> QED
      BY <2>1, <2>5, <2>6, <2>7
<1>7. crossed' \subseteq {"moves", "team", "purge", "template", "died"}
    BY DEF CoreInv, TypeOK, Handle, Die, ApplyCreate, ApplyCount, ApplyResume, ApplyAudit, MailFind, MailWrite,
           StageWrite, WithdrawWrite, InboundWrite, ManualWrite, ManualAudit, NoteWrite, PurgeWrite,
           QuestionsWrite, CriteriaWrite, TeamWrite, CardWrite, ScoreAudit, Cross
<1>8. req[w].at = "apply.create" => Exists' \/ req'[w] = Idle
  <2>1. req[w].at = "apply.create" => ApplyCreate(w) \/ Die(w)
      BY DEF Handle, AtAwait, ApplyCount, ApplyResume, ApplyAudit, MailFind, MailWrite,
           StageWrite, WithdrawWrite, InboundWrite, ManualWrite, ManualAudit, NoteWrite, PurgeWrite,
           QuestionsWrite, CriteriaWrite, TeamWrite, CardWrite, ScoreAudit
  <2> QED
      BY <1>0, <2>1, AnswerTyped DEF ApplyCreate, Die, Exists, CoreInv, TypeOK
<1> QED
    BY <1>0, <1>1, <1>2, <1>3, <1>4, <1>5, <1>6, <1>7, <1>8 DEF CoreInv, TypeOK

LEMMA HandleHolds ==
    ASSUME CoreInv, NEW w \in Workers, Handle(w) \/ Die(w)
    PROVE  CoreInv'
<1>1. /\ TypeOK' /\ (Exists => Exists') /\ (purged' => Exists')
      /\ Exists' => Exists \/ Applying(w)
      /\ req[w].at = "apply.create" => Exists' \/ req'[w] = Idle
    BY HandleWrites DEF Applying
<1>2. Sense(w)
    BY DEF CoreInv
<1>3. Sense(w)' /\ (Applying(w)' => Applying(w))
  <2>1. CASE req'[w] = Idle
      BY <2>1, IdleTyped DEF Sense, Applying, Mailing
  <2>2. CASE req'[w] # Idle
    <3>1. Announced(w) => req[w].trigger # "none"
        BY DEF Announced
    <3>2. req[w].at = "stage.write" => req[w].trigger # "Application Received"
        BY <1>2, TriggersOfStages DEF Sense
    <3> QED
        BY <1>1, <1>2, <2>2, <3>1, <3>2, HandleMoves DEF Sense, Applying, Mailing
  <2> QED
      BY <2>1, <2>2
<1>4. \A v \in Workers \ {w} : req'[v] = req[v]
    BY HandleMoves
<1> QED
    BY <1>1, <1>3, <1>4, RequestStep

LEMMA CoreHolds == CoreInv /\ [Next]_vars => CoreInv'
<1> SUFFICES ASSUME CoreInv, [Next]_vars PROVE CoreInv'
    OBVIOUS
<1>1. CASE UNCHANGED vars
    BY <1>1 DEF vars, profile, posting, scoring, mailing, CoreInv, TypeOK, Sense, OneApplication,
                Applying, Exists
<1> QED
    BY <1>1, ArriveHolds, HandleHolds DEF Next

LEMMA CoreStarts == Init => CoreInv
<1> SUFFICES ASSUME Init PROVE CoreInv
    OBVIOUS
<1>1. TypeOK
  <2>1. questions \in [edition : 0..MaxEditions, required : BOOLEAN]
    <3>1. 0 \in 0..MaxEditions
        BY PipelineAssumption
    <3> QED
        BY <3>1 DEF Init
  <2>2. /\ mails \in [Triggers -> Nat] /\ entries \in [Triggers -> Nat] /\ req \in [Workers -> Requests]
        /\ cards \in [Panelists -> CardStatus \union {"none"}]
      BY IdleTyped DEF Init
  <2>3. moves \in 0..MaxMoves /\ criteria \in 0..MaxEditions
      BY PipelineAssumption DEF Init
  <2> QED
      BY <2>1, <2>2, <2>3 DEF Init, TypeOK
<1>2. \A w \in Workers : Sense(w) /\ ~Applying(w)
    BY IdleTyped DEF Init, Sense, Applying, Mailing
<1> QED
    BY <1>1, <1>2 DEF Init, CoreInv, OneApplication
-------------------------------------------------------------------------------
(* Type correctness, what a request carries with it, and one application.  *)
THEOREM TypesHold == Spec => []TypeOK
<1>1. CoreInv => TypeOK
    BY DEF CoreInv
<1> QED
    BY <1>1, CoreStarts, CoreHolds, PTL DEF Spec

(* Each arrival starts where its kind starts. *)
LEMMA ArriveMoves ==
    ASSUME CoreInv, NEW w \in Workers, Arrive(w)
    PROVE  /\ req[w].at = "idle" /\ \A v \in Workers \ {w} : req'[v] = req[v]
           /\ EditTemplates(w) \/ GetCandidateDetail(w) => req' = req
           /\ WithdrawByToken(w) => req'[w].at = "withdraw"
           /\ PurgeCandidate(w) => req'[w].at = "purge"
           /\ AddNote(w) => req'[w].at = "note"
           /\ RecordInboundReply(w) => req'[w].at = "inbound"
           /\ EditQuestions(w) => req'[w].at = "questions"
           /\ SetScorecardCriteria(w) => req'[w].at = "criteria"
           /\ EditTeam(w) => req'[w].at = "team"
           /\ Apply(w) => req'[w].at = "apply.create" /\ req'[w].trigger = "Application Received"
           /\ SetCandidateStage(w) =>
                /\ req'[w].at = "stage.write" /\ req'[w].stage \in CandidateStages
                /\ req'[w].trigger = TriggerOf(req'[w].stage)
                /\ req'[w].from = stage /\ req'[w].named = ~purged
           /\ SendManual(w) => req'[w].at = "manual" /\ req'[w].named = ~purged
           /\ SubmitScorecard(w) => req'[w].at = "score" /\ req'[w].who \in panel \union {HR}
<1>0. TypeOK /\ req \in [Workers -> Requests]
    BY DEF CoreInv, TypeOK
<1>1. ASSUME NEW label \in Awaits, Goto(w, label)
      PROVE  req'[w].at = label /\ \A v \in Workers \ {w} : req'[v] = req[v]
    BY <1>0, <1>1, GotoTyped
<1>2. {"withdraw", "purge", "note", "inbound", "questions", "criteria", "team"} \subseteq Awaits
    BY DEF Awaits
<1>3. req[w].at = "idle"
    BY DEF Arrive, AtAwait, Apply, SetCandidateStage, WithdrawByToken, PurgeCandidate, AddNote, SendManual,
           RecordInboundReply, EditTemplates, EditQuestions, SetScorecardCriteria, EditTeam,
           SubmitScorecard, GetCandidateDetail
<1>4. EditTemplates(w) \/ GetCandidateDetail(w) => req' = req
    BY DEF EditTemplates, GetCandidateDetail
<1>5. WithdrawByToken(w) => req'[w].at = "withdraw" /\ \A v \in Workers \ {w} : req'[v] = req[v]
    BY <1>1, <1>2 DEF WithdrawByToken
<1>6. PurgeCandidate(w) => req'[w].at = "purge" /\ \A v \in Workers \ {w} : req'[v] = req[v]
    BY <1>1, <1>2 DEF PurgeCandidate
<1>7. AddNote(w) => req'[w].at = "note" /\ \A v \in Workers \ {w} : req'[v] = req[v]
    BY <1>1, <1>2 DEF AddNote
<1>8. RecordInboundReply(w) => req'[w].at = "inbound" /\ \A v \in Workers \ {w} : req'[v] = req[v]
    BY <1>1, <1>2 DEF RecordInboundReply
<1>9. EditQuestions(w) => req'[w].at = "questions" /\ \A v \in Workers \ {w} : req'[v] = req[v]
    BY <1>1, <1>2 DEF EditQuestions
<1>10. SetScorecardCriteria(w) => req'[w].at = "criteria" /\ \A v \in Workers \ {w} : req'[v] = req[v]
    BY <1>1, <1>2 DEF SetScorecardCriteria
<1>11. EditTeam(w) => req'[w].at = "team" /\ \A v \in Workers \ {w} : req'[v] = req[v]
    BY <1>1, <1>2 DEF EditTeam
<1>12. /\ Apply(w) \/ SetCandidateStage(w) \/ SendManual(w) \/ SubmitScorecard(w)
             => \A v \in Workers \ {w} : req'[v] = req[v]
       /\ Apply(w) => req'[w].at = "apply.create" /\ req'[w].trigger = "Application Received"
       /\ SendManual(w) => req'[w].at = "manual" /\ req'[w].named = ~purged
       /\ SubmitScorecard(w) => req'[w].at = "score" /\ req'[w].who \in panel \union {HR}
    BY <1>0, ApplyTyped, StageTyped, ManualTyped, ScoreTyped
<1>13. SetCandidateStage(w) =>
                /\ req'[w].at = "stage.write" /\ req'[w].stage \in CandidateStages
                /\ req'[w].trigger = TriggerOf(req'[w].stage)
                /\ req'[w].from = stage /\ req'[w].named = ~purged
    BY <1>0, StageTyped
<1>14. \A v \in Workers \ {w} : req'[v] = req[v]
    BY <1>4, <1>5, <1>6, <1>7, <1>8, <1>9, <1>10, <1>11, <1>12 DEF Arrive
<1> QED
    BY <1>3, <1>4, <1>5, <1>6, <1>7, <1>8, <1>9, <1>10, <1>11, <1>12, <1>13, <1>14

LEMMA CrossedGrows ==
    ASSUME NEW w \in Workers, Arrive(w) \/ Handle(w) \/ Die(w)
    PROVE  crossed \subseteq crossed' /\ (Die(w) => "died" \in crossed')
BY DEF Arrive, Apply, SetCandidateStage, WithdrawByToken, PurgeCandidate, AddNote, SendManual,
       RecordInboundReply, EditTemplates, EditQuestions, SetScorecardCriteria, EditTeam,
       SubmitScorecard, GetCandidateDetail, Handle, Die, ApplyCreate, ApplyCount, ApplyResume, ApplyAudit,
       MailFind, MailWrite, StageWrite, WithdrawWrite, InboundWrite, ManualWrite, ManualAudit, NoteWrite,
       PurgeWrite, QuestionsWrite, CriteriaWrite, TeamWrite, CardWrite, ScoreAudit, Cross
-------------------------------------------------------------------------------
(* The panel *)

(* Steps that leave the panel, the cards and the count alone. *)
LEMMA PanelAlone ==
    ASSUME PanelInv, NEW w \in Workers, UNCHANGED <<counted, panel, cards, spoke, peeked>>,
           Exists' <=> Exists, crossed \subseteq crossed', \A v \in Workers \ {w} : req'[v] = req[v],
           req[w].at # "apply.count", req'[w].at \notin {"team", "score"}
    PROVE  PanelInv'
<1>1. \A v \in Workers : req[v].at = "apply.count" => req'[v].at = "apply.count"
    OBVIOUS
<1>2. \A v \in Workers : req'[v].at \in {"team", "score"} => req'[v] = req[v]
    OBVIOUS
<1> QED
    BY <1>1, <1>2 DEF PanelInv

LEMMA PanelArrives ==
    ASSUME CoreInv, PanelInv, NEW w \in Workers, Arrive(w)
    PROVE  PanelInv'
<1>1. /\ req[w].at = "idle" /\ \A v \in Workers \ {w} : req'[v] = req[v]
      /\ crossed \subseteq crossed' /\ stage' = stage
    BY ArriveMoves, CrossedGrows DEF Arrive, Apply, SetCandidateStage, WithdrawByToken, PurgeCandidate, AddNote,
           SendManual, RecordInboundReply, EditTemplates, EditQuestions, SetScorecardCriteria, EditTeam,
           SubmitScorecard, GetCandidateDetail
<1>2. CASE GetCandidateDetail(w)
  <2>1. UNCHANGED <<counted, panel, cards, spoke, req>> /\ Exists
      BY <1>2 DEF GetCandidateDetail, posting
  <2>2. PICK p \in Team \ spoke : peeked' = peeked \union ({p} \X Shown(p))
      BY <1>2 DEF GetCandidateDetail
  <2>3. p # HR /\ cards[p] # "Submitted" /\ p \in Panelists
      BY <2>2, PipelineAssumption DEF PanelInv, Panelists
  <2>4. p \in panel => "card" \notin Shown(p)
      BY <2>2, <2>3 DEF visibleScorecards, Shown
  <2>5. \A q \in panel \union spoke : <<q, "card">> \in peeked' => <<q, "card">> \in peeked
      BY <2>2, <2>4
  <2> QED
      BY <1>1, <2>1, <2>5 DEF PanelInv, Exists
<1>3. CASE EditTeam(w)
  <2>1. /\ UNCHANGED <<counted, panel, cards, spoke, peeked>> /\ ~counted /\ req'[w].at = "team"
        /\ Others(w, {"apply.create", "apply.count"}) => "team" \in crossed'
      BY <1>3, ArriveMoves DEF EditTeam, posting, scoring, Cross
  <2>2. SUFFICES ASSUME crossed' \intersect {"team", "died"} = {}
                 PROVE  PanelInv'
      BY <1>1, <2>1 DEF PanelInv
  <2>3. \A v \in Workers \ {w} : req[v].at # "apply.count"
      BY <2>1, <2>2 DEF Others
  <2>4. ~Exists
      BY <1>1, <2>1, <2>2, <2>3 DEF PanelInv
  <2> QED
      BY <1>1, <2>1, <2>2, <2>4 DEF PanelInv, Exists
<1>4. CASE SubmitScorecard(w)
  <2>1. /\ UNCHANGED <<counted, panel, cards, spoke, peeked, crossed>>
        /\ req'[w].at = "score" /\ req'[w].who \in panel \union {HR}
      BY <1>4, ArriveMoves DEF SubmitScorecard, posting, scoring
  <2>2. \A v \in Workers : req[v].at = "apply.count" => req'[v].at = "apply.count"
      BY <1>1
  <2>3. \A v \in Workers : req'[v].at = "team" => req[v].at = "team"
      BY <1>1, <2>1
  <2>4. \A v \in Workers : req'[v].at = "score" => req'[v].who \in panel \union {HR} \/ req'[v] = req[v]
      BY <1>1, <2>1
  <2> QED
      BY <1>1, <2>1, <2>2, <2>3, <2>4 DEF PanelInv, Exists
<1>5. CASE Apply(w) \/ SetCandidateStage(w) \/ WithdrawByToken(w) \/ PurgeCandidate(w) \/ AddNote(w)
           \/ SendManual(w) \/ RecordInboundReply(w) \/ EditTemplates(w) \/ EditQuestions(w)
           \/ SetScorecardCriteria(w)
  <2>1. UNCHANGED <<counted, panel, cards, spoke, peeked>>
      BY <1>5 DEF Apply, SetCandidateStage, WithdrawByToken, PurgeCandidate, AddNote,
           SendManual, RecordInboundReply, EditTemplates, EditQuestions, SetScorecardCriteria, posting, scoring
  <2>2. req'[w].at \notin {"team", "score"}
      BY <1>1, <1>5, ArriveMoves
  <2> QED
      BY <1>1, <2>1, <2>2, PanelAlone DEF Exists
<1> QED
    BY <1>2, <1>3, <1>4, <1>5 DEF Arrive

LEMMA PanelHandles ==
    ASSUME CoreInv, PanelInv, NEW w \in Workers, Handle(w) \/ Die(w)
    PROVE  PanelInv'
<1>1. /\ \A v \in Workers \ {w} : req'[v] = req[v]
      /\ crossed \subseteq crossed' /\ req'[w].at \notin {"team", "score"}
      /\ Exists' <=> Exists \/ (req[w].at = "apply.create" /\ Exists')
    BY HandleMoves, HandleWrites, CrossedGrows, IdleTyped
<1>2. \A v \in Workers : req'[v].at \in {"team", "score"} => req'[v] = req[v]
    BY <1>1
<1>3. CASE ApplyCreate(w)
  <2>1. /\ UNCHANGED <<counted, panel, cards, spoke, peeked>> /\ req[w].at = "apply.create" /\ ~Exists
        /\ Others(w, {"team"}) => "team" \in crossed'
      BY <1>3 DEF ApplyCreate, AtAwait, posting, scoring, Cross, CoreInv, Sense
  <2>2. CASE ~Exists'
      BY <1>1, <2>1, <2>2, PanelAlone
  <2>3. CASE Exists'
    <3>1. req'[w].at = "apply.count"
      <4>1. Goto(w, "apply.count")
          BY <1>3, <2>1, <2>3 DEF ApplyCreate, Exists
      <4>2. req \in [Workers -> Requests] /\ "apply.count" \in Awaits
          BY DEF CoreInv, TypeOK, Awaits
      <4> QED
          BY <4>1, <4>2, GotoTyped
    <3>2. SUFFICES ASSUME crossed' \intersect {"team", "died"} = {}
                   PROVE  PanelInv'
        BY <2>1 DEF PanelInv
    <3>3. \A v \in Workers \ {w} : req[v].at # "team"
        BY <2>1, <3>2 DEF Others
    <3> QED
        BY <1>1, <1>2, <2>1, <2>3, <3>1, <3>2, <3>3 DEF PanelInv
  <2> QED
      BY <2>2, <2>3
<1>4. CASE ApplyCount(w)
  <2>1. UNCHANGED <<panel, cards, spoke, peeked, stage>> /\ counted'
      BY <1>4 DEF ApplyCount, scoring
  <2> QED
      BY <1>1, <1>2, <2>1 DEF PanelInv, Exists
<1>5. CASE TeamWrite(w)
  <2>1. UNCHANGED <<counted, cards, spoke, peeked, stage, crossed>> /\ req[w].at = "team"
      BY <1>5 DEF TeamWrite, AtAwait, scoring
  <2>2. crossed \intersect {"team", "died"} = {} => ~Exists
      BY <2>1 DEF PanelInv
  <2>3. \A v \in Workers : req'[v].at = "score" => Exists
      BY <1>2 DEF CoreInv, Sense
  <2> QED
      BY <1>1, <1>2, <2>1, <2>2, <2>3 DEF PanelInv, Exists
<1>6. CASE CardWrite(w)
  <2>1. /\ UNCHANGED <<counted, panel, peeked, stage, crossed>> /\ req[w].at = "score"
      BY <1>6 DEF CardWrite, AtAwait, posting
  <2>2. PICK p \in Panelists : p = req[w].who
      BY DEF CoreInv, TypeOK, Requests
  <2>3. CASE UNCHANGED <<cards, spoke>>
      BY <1>1, <1>2, <2>1, <2>3, PanelAlone DEF Exists
  <2>4. CASE /\ cards' = [cards EXCEPT ![p] = req[w].card]
             /\ spoke' = spoke \union {q \in {p} : req[w].card = "Submitted"}
    <3>1. \A q \in Panelists : cards'[q] = "Submitted" => q \in spoke'
        BY <2>4 DEF PanelInv, CoreInv, TypeOK
    <3>2. crossed \intersect {"team", "died"} = {} => p \in panel \union {HR}
        BY <2>1, <2>2 DEF PanelInv
    <3>3. p = HR => <<p, "card">> \notin peeked
        BY PipelineAssumption DEF CoreInv, TypeOK
    <3>4. crossed \intersect {"team", "died"} = {} => <<p, "card">> \notin peeked
        BY <3>2, <3>3 DEF PanelInv
    <3>5. \A v \in Workers : req[v].at = "apply.count" => req'[v].at = "apply.count"
        BY <1>1, <2>1
    <3> QED
        BY <1>2, <2>1, <2>4, <3>1, <3>4, <3>5 DEF PanelInv, Exists
  <2> QED
      BY <1>6, <2>2, <2>3, <2>4 DEF CardWrite
<1>7. CASE Die(w)
  <2>1. UNCHANGED <<counted, panel, cards, spoke, peeked>> /\ "died" \in crossed'
      BY <1>7, CrossedGrows DEF Die, posting, scoring
  <2> QED
      BY <2>1 DEF PanelInv
<1>8. CASE ApplyResume(w) \/ ApplyAudit(w) \/ MailFind(w) \/ MailWrite(w) \/ StageWrite(w)
           \/ WithdrawWrite(w) \/ InboundWrite(w) \/ ManualWrite(w) \/ ManualAudit(w)
           \/ NoteWrite(w) \/ PurgeWrite(w) \/ QuestionsWrite(w) \/ CriteriaWrite(w)
           \/ ScoreAudit(w)
  <2>1. UNCHANGED <<counted, panel, cards, spoke, peeked>> /\ req[w].at \notin {"apply.count", "apply.create"}
      BY <1>8 DEF ApplyResume, ApplyAudit, MailFind, MailWrite, StageWrite, WithdrawWrite, InboundWrite,
           ManualWrite, ManualAudit, NoteWrite, PurgeWrite, QuestionsWrite, CriteriaWrite, ScoreAudit,
           AtAwait, posting, scoring
  <2> QED
      BY <1>1, <2>1, PanelAlone
<1> QED
    BY <1>3, <1>4, <1>5, <1>6, <1>7, <1>8 DEF Handle

(* The gate on the panel's cards holds: no one submits a first card after   *)
(* having seen a colleague's, however drafts, resubmissions and the         *)
(* composition of the panel change, unless an edit of the team crossed the  *)
(* application or an application died.  What the audit trail tells of the   *)
(* others' recommendations is outside of it.                                *)
THEOREM DebriefGateHolds == Spec => []DebriefGate
<1> DEFINE Inv == CoreInv /\ PanelInv
<1>1. Init => Inv
  <2>1. Init => PanelInv
    <3>1. Init => \A w \in Workers : req[w].at = "idle"
        BY IdleTyped DEF Init
    <3> QED
        BY <3>1 DEF Init, PanelInv, Exists
  <2> QED
      BY <2>1, CoreStarts
<1>2. Inv /\ [Next]_vars => Inv'
  <2> SUFFICES ASSUME Inv, [Next]_vars PROVE PanelInv'
      BY CoreHolds
  <2>1. CASE UNCHANGED vars
      BY <2>1 DEF vars, posting, scoring, PanelInv, Exists
  <2> QED
      BY <2>1, PanelArrives, PanelHandles DEF Next
<1>3. Inv => DebriefGate
    BY DEF PanelInv, DebriefGate
<1> QED
    BY <1>1, <1>2, <1>3, PTL DEF Spec
-------------------------------------------------------------------------------
(* The privacy of a candidate *)

LEMMA PurgeHolds == CoreInv /\ PurgeInv /\ [Next]_vars => PurgeInv'
<1> SUFFICES ASSUME CoreInv, PurgeInv, [Next]_vars, purged', "purge" \notin crossed',
                    NEW v \in Workers
             PROVE  Harmless(v)'
    BY DEF PurgeInv
<1>1. CASE UNCHANGED vars
    BY <1>1 DEF vars, profile, PurgeInv, Harmless, Applying
<1>2. ASSUME NEW w \in Workers, PurgeWrite(w)
      PROVE  Harmless(v)'
  <2>1. req'[w] = Idle /\ \A u \in Workers \ {w} : req'[u] = req[u]
      BY <1>2, AnswerTyped DEF PurgeWrite, CoreInv, TypeOK
  <2>2. \A u \in Workers \ {w} : req[u].at \notin Awaits \ {"idle"}
      BY <1>2 DEF PurgeWrite, Cross, Others
  <2>3. \A u \in Workers : req[u].at \in Awaits
      BY DEF CoreInv, TypeOK, Requests
  <2>4. req'[v].at = "idle"
      BY <2>1, <2>2, <2>3, IdleTyped
  <2> QED
      BY <2>4 DEF Harmless, Applying, Mailing
<1>3. ASSUME NEW w \in Workers, Arrive(w) \/ Handle(w) \/ Die(w), ~PurgeWrite(w)
      PROVE  Harmless(v)'
  <2>1. purged /\ "purge" \notin crossed
    <3>1. purged' = purged
        BY <1>3 DEF profile, Arrive, Apply, SetCandidateStage, WithdrawByToken, PurgeCandidate, AddNote, SendManual,
           RecordInboundReply, EditTemplates, EditQuestions, SetScorecardCriteria, EditTeam,
           SubmitScorecard, GetCandidateDetail, Handle, Die, ApplyCreate, ApplyCount, ApplyResume, ApplyAudit,
           MailFind, MailWrite, StageWrite, WithdrawWrite, InboundWrite, ManualWrite, ManualAudit, NoteWrite,
           QuestionsWrite, CriteriaWrite, TeamWrite, CardWrite, ScoreAudit
    <3> QED
        BY <1>3, <3>1, CrossedGrows
  <2>2. Harmless(w) /\ Harmless(v) /\ Sense(w) /\ Exists
      BY <2>1 DEF PurgeInv, CoreInv
  <2>3. CASE v # w
    <3>1. req'[v] = req[v]
        BY <1>3, <2>3, ArriveMoves, HandleMoves
    <3> QED
        BY <2>2, <3>1 DEF Harmless, Applying
  <2>4. CASE v = w /\ Arrive(w)
    <3>1. ~Apply(w) /\ ~WithdrawByToken(w) /\ ~PurgeCandidate(w) /\ ~RecordInboundReply(w)
        BY <2>1, <2>2 DEF Apply, WithdrawByToken, PurgeCandidate, RecordInboundReply
    <3>2. CASE EditTemplates(w) \/ GetCandidateDetail(w)
        BY <2>2, <2>4, <3>2, ArriveMoves DEF Harmless, Applying
    <3>3. CASE AddNote(w) \/ EditQuestions(w) \/ SetScorecardCriteria(w) \/ EditTeam(w) \/ SubmitScorecard(w)
      <4>1. req'[w].at \in {"note", "questions", "criteria", "team", "score"}
          BY <2>4, <3>3, ArriveMoves
      <4> QED
          BY <2>4, <4>1 DEF Harmless, Applying, Mailing
    <3>4. CASE SetCandidateStage(w) \/ SendManual(w)
      <4>1. req'[w].at \in {"stage.write", "manual"} /\ ~req'[w].named
          BY <2>1, <2>4, <3>4, ArriveMoves
      <4> QED
          BY <2>4, <4>1 DEF Harmless, Applying, Mailing
    <3> QED
        BY <2>4, <3>1, <3>2, <3>3, <3>4 DEF Arrive
  <2>5. CASE v = w /\ ~Arrive(w)
    <3>1. CASE req'[w] = Idle
        BY <2>5, <3>1, IdleTyped DEF Harmless, Applying, Mailing
    <3>2. CASE req'[w] # Idle
      <4>1. req[w].at = "stage.write" => req[w].trigger # "Application Received"
          BY <2>2, TriggersOfStages DEF Sense
      <4> QED
          BY <1>3, <2>2, <2>5, <3>2, <4>1, HandleMoves DEF Harmless, Applying, Mailing
    <3> QED
        BY <3>1, <3>2
  <2> QED
      BY <1>3, <2>3, <2>4, <2>5
<1> QED
    BY <1>1, <1>2, <1>3 DEF Next

(* Once purged, a record takes up no personal data again, the hiring team's *)
(* own notes apart, unless a request was under way when it was purged.      *)
THEOREM PurgesStick == Spec => PurgeSticks
<1> DEFINE Step == purged /\ "purge" \notin crossed => personal' \ personal \subseteq {"notes"}
           Inv == CoreInv /\ PurgeInv
<1>1. Init => Inv
  <2>1. Init => PurgeInv
      BY DEF Init, PurgeInv
  <2> QED
      BY <2>1, CoreStarts
<1>2. Inv /\ [Next]_vars => Inv'
    BY CoreHolds, PurgeHolds
<1>3. Inv /\ [Next]_vars => [Step]_vars
  <2> SUFFICES ASSUME Inv, NEW w \in Workers, Arrive(w) \/ Handle(w) \/ Die(w),
                      purged, "purge" \notin crossed
               PROVE  personal' \ personal \subseteq {"notes"}
      BY DEF Next
  <2>1. Harmless(w) /\ Sense(w) /\ Exists
      BY DEF PurgeInv, CoreInv
  <2>2. ~ApplyCreate(w) /\ ~ApplyResume(w) /\ ~ApplyAudit(w) /\ ~InboundWrite(w)
      BY <2>1 DEF Harmless, Applying, ApplyCreate, ApplyResume, ApplyAudit, InboundWrite, AtAwait
  <2>3. CASE MailWrite(w) \/ ManualWrite(w) \/ ManualAudit(w)
    <3>1. ~req[w].named
        BY <2>1, <2>3 DEF Harmless, MailWrite, ManualWrite, ManualAudit, AtAwait, Mailing
    <3> QED
        BY <2>3, <3>1 DEF MailWrite, ManualWrite, ManualAudit, Holds
  <2>4. CASE NoteWrite(w)
      BY <2>4 DEF NoteWrite, Holds
  <2>5. CASE personal' \subseteq personal
      BY <2>5
  <2> QED
      BY <2>2, <2>3, <2>4, <2>5 DEF Arrive, Apply, SetCandidateStage, WithdrawByToken, PurgeCandidate, AddNote,
           SendManual, RecordInboundReply, EditTemplates, EditQuestions, SetScorecardCriteria, EditTeam,
           SubmitScorecard, GetCandidateDetail, Handle, Die, ApplyCount, MailFind, StageWrite, WithdrawWrite,
           PurgeWrite, QuestionsWrite, CriteriaWrite, TeamWrite, CardWrite, ScoreAudit
<1>4. Spec => [][Step]_vars
    BY <1>1, <1>2, <1>3, PTL DEF Spec
<1> QED
    BY <1>4 DEF PurgeSticks
-------------------------------------------------------------------------------
(* The mails *)

Clean == crossed \intersect {"moves", "template", "died"} = {}

LEMMA Debtors ==
    ASSUME CoreInv, NEW w \in Workers
    PROVE  /\ Owes(w, "Application Received") => Applying(w)
           /\ \A t \in Triggers \ {"Application Received"} : Owes(w, t) => Mover(w)
           /\ Mover(w) => ~Applying(w)
           /\ \A s, t \in Triggers : Owes(w, s) /\ Owes(w, t) => s = t
BY DEF CoreInv, Sense, Owes, Applying, Mover, Mailing

(* Steps that neither promise nor write a mail. *)
LEMMA MailAlone ==
    ASSUME MailInv, NEW w \in Workers, UNCHANGED <<stage, mails, entries>>, crossed \subseteq crossed',
           \A v \in Workers \ {w} : req'[v] = req[v],
           req[w].at \notin {"apply.count", "apply.resume"} \union Mailing,
           req'[w].at \notin {"stage.write", "apply.count", "apply.resume"} \union Mailing
    PROVE  MailInv'
<1> SUFFICES ASSUME Clean' PROVE MailInv'
    BY DEF MailInv, Clean
<1>1. Clean
    BY DEF Clean
<1>2. \A v \in Workers : Mover(v)' => Mover(v) /\ v # w
    BY DEF Mover
<1>3. \A v \in Workers : req'[v].at = "stage.write" => req'[v] = req[v]
    OBVIOUS
<1>4. \A t \in Triggers : (\E v \in Workers : Owes(v, t))' <=> \E v \in Workers : Owes(v, t)
    BY DEF Owes
<1> QED
    BY <1>1, <1>2, <1>3, <1>4 DEF MailInv, Clean

LEMMA MailArrives ==
    ASSUME CoreInv, MailInv, NEW w \in Workers, Arrive(w)
    PROVE  MailInv'
<1>1. /\ req[w].at = "idle" /\ \A v \in Workers \ {w} : req'[v] = req[v]
      /\ crossed \subseteq crossed' /\ UNCHANGED <<stage, mails, entries>>
    BY ArriveMoves, CrossedGrows DEF Arrive, Apply, SetCandidateStage, WithdrawByToken, PurgeCandidate, AddNote,
           SendManual, RecordInboundReply, EditTemplates, EditQuestions, SetScorecardCriteria, EditTeam,
           SubmitScorecard, GetCandidateDetail, mailing
<1>2. CASE SetCandidateStage(w)
  <2>1. SUFFICES ASSUME Clean' PROVE MailInv'
      BY DEF MailInv, Clean
  <2>2. Clean /\ \A v \in Workers \ {w} : req[v].at \notin {"stage.write"} \union Mailing
      BY <1>1, <1>2, <2>1 DEF SetCandidateStage, Cross, Others, Clean, Mailing
  <2>3. \A v \in Workers : Mover(v)' => v = w
      BY <1>1, <2>2 DEF Mover
  <2>4. req'[w].at = "stage.write" /\ req'[w].from = stage
      BY <1>2, ArriveMoves
  <2>5. \A v \in Workers, t \in Triggers : Owes(v, t)' <=> Owes(v, t)
      BY <1>1, <2>4 DEF Owes, Mailing
  <2> QED
      BY <1>1, <2>2, <2>3, <2>4, <2>5 DEF MailInv, Clean, Mover
<1>3. CASE ~SetCandidateStage(w)
  <2>1. req'[w].at \notin {"stage.write", "apply.count", "apply.resume"} \union Mailing
    <3>1. CASE EditTemplates(w) \/ GetCandidateDetail(w)
        BY <1>1, <3>1, ArriveMoves DEF Mailing
    <3>2. CASE ~EditTemplates(w) /\ ~GetCandidateDetail(w)
        BY <1>3, <3>2, ArriveMoves DEF Arrive, Mailing
    <3> QED
        BY <3>1, <3>2
  <2> QED
      BY <1>1, <2>1, MailAlone DEF Mailing
<1> QED
    BY <1>2, <1>3

LEMMA MailHandles ==
    ASSUME CoreInv, MailInv, NEW w \in Workers, Handle(w) \/ Die(w), Clean'
    PROVE  MailInv'
<1>0. /\ \A v \in Workers \ {w} : req'[v] = req[v]
      /\ crossed \subseteq crossed' /\ Clean /\ req \in [Workers -> Requests] /\ Sense(w)
      /\ mails \in [Triggers -> Nat] /\ entries \in [Triggers -> Nat]
      /\ "Application Received" \in Triggers
    BY HandleMoves, CrossedGrows DEF Clean, CoreInv, TypeOK, Triggers
<1>1. /\ \A u, v \in Workers : Mover(u) /\ Mover(v) => u = v
      /\ \A v \in Workers : req[v].at = "stage.write" => req[v].from = stage
      /\ \A t \in Triggers : entries[t] = mails[t] + IF \E v \in Workers : Owes(v, t) THEN 1 ELSE 0
    BY <1>0 DEF MailInv, Clean
<1>a. \A t \in Triggers : /\ mails[t] \in Nat
                           /\ ((\E v \in Workers : Owes(v, t)) => entries[t] = mails[t] + 1)
                           /\ ((\A v \in Workers : ~Owes(v, t)) => entries[t] = mails[t])
  <2> SUFFICES ASSUME NEW t \in Triggers
               PROVE  /\ mails[t] \in Nat
                      /\ ((\E v \in Workers : Owes(v, t)) => entries[t] = mails[t] + 1)
                      /\ ((\A v \in Workers : ~Owes(v, t)) => entries[t] = mails[t])
      OBVIOUS
  <2>1. mails[t] \in Nat /\ entries[t] = mails[t] + IF \E v \in Workers : Owes(v, t) THEN 1 ELSE 0
      BY <1>0, <1>1
  <2> QED
      BY <2>1
<1>2. \A v \in Workers \ {w} : /\ Mover(v)' <=> Mover(v)
                               /\ \A t \in Triggers : Owes(v, t)' <=> Owes(v, t)
    BY <1>0 DEF Mover, Owes
<1>3. CASE ApplyCreate(w)
  <2>1. /\ UNCHANGED mails /\ req[w].at = "apply.create" /\ ~Exists
        /\ \/ stage' = "Applied" /\ Goto(w, "apply.count")
              /\ entries' = [entries EXCEPT !["Application Received"] = @ + 1]
           \/ UNCHANGED <<stage, entries>> /\ Answer(w)
      BY <1>0, <1>3 DEF ApplyCreate, AtAwait, Sense
  <2>2. CASE UNCHANGED <<stage, entries>> /\ Answer(w)
    <3>1. req'[w].at = "idle"
        BY <1>0, <2>2, AnswerTyped, IdleTyped
    <3> QED
        BY <1>0, <2>1, <2>2, <3>1, MailAlone DEF Mailing
  <2>3. CASE stage' = "Applied" /\ Goto(w, "apply.count")
             /\ entries' = [entries EXCEPT !["Application Received"] = @ + 1]
    <3>1. req'[w].at = "apply.count"
      <4>1. "apply.count" \in Awaits
          BY DEF Awaits
      <4> QED
          BY <1>0, <2>3, <4>1, GotoTyped
    <3>2. \A v \in Workers \ {w} : ~Applying(v)
        BY <2>1 DEF CoreInv, OneApplication, Applying
    <3>3. \A v \in Workers : ~Owes(v, "Application Received")
        BY <2>1, <3>2, Debtors DEF Owes, Mailing
    <3>4. \A t \in Triggers : entries'[t] = mails'[t] + IF \E v \in Workers : Owes(v, t)' THEN 1 ELSE 0
      <4>1. Owes(w, "Application Received")'
          BY <3>1 DEF Owes
      <4>2. \A t \in Triggers \ {"Application Received"} : ~Owes(w, t)' /\ ~Owes(w, t)
          BY <2>1, <3>1 DEF Owes, Mailing
      <4>3. entries'["Application Received"] = mails["Application Received"] + 1
          BY <1>0, <1>a, <2>3, <3>3
      <4>4. \A t \in Triggers \ {"Application Received"} : entries'[t] = entries[t]
          BY <1>0, <2>3
      <4>5. ASSUME NEW t \in Triggers \ {"Application Received"}
            PROVE  entries'[t] = mails'[t] + IF \E v \in Workers : Owes(v, t)' THEN 1 ELSE 0
        <5>1. (\E v \in Workers : Owes(v, t)') <=> \E v \in Workers : Owes(v, t)
            BY <1>2, <4>2
        <5> QED
            BY <1>1, <2>1, <4>4, <5>1
      <4> QED
          BY <2>1, <4>1, <4>3, <4>5
    <3>5. ~Mover(w)' /\ \A v \in Workers : req'[v].at # "stage.write"
        BY <1>0, <2>1, <3>1 DEF Mover, Mailing, CoreInv, Sense
    <3> QED
        BY <1>1, <1>2, <3>4, <3>5 DEF MailInv
  <2> QED
      BY <2>1, <2>2, <2>3
<1>4. ASSUME UNCHANGED <<stage, mails, entries>>, Mover(w)' <=> Mover(w),
             \A t \in Triggers : Owes(w, t)' <=> Owes(w, t), req'[w].at # "stage.write"
      PROVE  MailInv'
  <2>1. \A v \in Workers : Mover(v)' <=> Mover(v)
      BY <1>2, <1>4
  <2>2. \A v \in Workers, t \in Triggers : Owes(v, t)' <=> Owes(v, t)
      BY <1>2, <1>4
  <2> QED
      BY <1>0, <1>1, <1>4, <2>1, <2>2 DEF MailInv
<1>5. CASE ApplyCount(w) \/ ApplyResume(w)
  <2>1. UNCHANGED <<stage, mails, entries>> /\ req[w].at \in {"apply.count", "apply.resume"}
        /\ (Goto(w, "apply.resume") \/ Goto(w, "mail.find"))
      BY <1>5 DEF ApplyCount, ApplyResume, AtAwait, mailing
  <2>2. {"apply.resume", "mail.find"} \subseteq Awaits
      BY DEF Awaits
  <2>3. req'[w].at \in {"apply.resume", "mail.find"} /\ req'[w].trigger = req[w].trigger
      BY <1>0, <2>1, <2>2, GotoTyped
  <2>4. req[w].trigger = "Application Received"
      BY <1>0, <2>1 DEF Sense
  <2> QED
      BY <1>4, <2>1, <2>3, <2>4 DEF Mover, Owes, Mailing
<1>6. CASE MailFind(w)
  <2>1. UNCHANGED <<stage, mails, entries>> /\ Goto(w, "mail.write") /\ req[w].at = "mail.find"
      BY <1>0, <1>6 DEF MailFind, AtAwait, mailing, Clean, Cross
  <2>2. "mail.write" \in Awaits
      BY DEF Awaits
  <2>3. req'[w].at = "mail.write" /\ req'[w].trigger = req[w].trigger
      BY <1>0, <2>1, <2>2, GotoTyped
  <2> QED
      BY <1>4, <2>1, <2>3 DEF Mover, Owes, Mailing
<1>7. CASE MailWrite(w)
  <2>0. PICK t \in Triggers : t = req[w].trigger
      BY <1>0, <1>7 DEF MailWrite, AtAwait, Clean, Cross, CoreInv, TypeOK
  <2>1. /\ UNCHANGED <<stage, entries>> /\ req[w].at = "mail.write" /\ AfterMail(w)
        /\ mails' = [mails EXCEPT ![t] = @ + 1]
      BY <1>0, <1>7, <2>0 DEF MailWrite, AtAwait, Clean, Cross
  <2>2. req'[w].at \in {"idle", "apply.audit"}
    <3>1. "apply.audit" \in Awaits
        BY DEF Awaits
    <3> QED
        BY <1>0, <2>1, <3>1, AnswerTyped, IdleTyped, GotoTyped DEF AfterMail
  <2>3. Owes(w, t) /\ \A s \in Triggers \ {t} : ~Owes(w, s)
      BY <2>0, <2>1 DEF Owes, Mailing
  <2>4. \A v \in Workers \ {w} : ~Owes(v, t)
    <3>1. CASE t = "Application Received"
        BY <2>3, <3>1, Debtors DEF CoreInv, OneApplication
    <3>2. CASE t # "Application Received"
        BY <1>1, <2>3, <3>2, Debtors
    <3> QED
        BY <3>1, <3>2
  <2>5. ~Mover(w)' /\ req'[w].at # "stage.write" /\ \A s \in Triggers : ~Owes(w, s)'
      BY <2>2 DEF Mover, Owes, Mailing
  <2>6. entries'[t] = mails'[t] /\ \A v \in Workers : ~Owes(v, t)'
    <3>1. \A v \in Workers : ~Owes(v, t)'
        BY <1>2, <2>4, <2>5
    <3>2. entries[t] = mails[t] + 1
        BY <1>a, <2>3
    <3> QED
        BY <1>0, <2>1, <3>1, <3>2
  <2>7. ASSUME NEW s \in Triggers \ {t}
        PROVE  entries'[s] = mails'[s] + IF \E v \in Workers : Owes(v, s)' THEN 1 ELSE 0
    <3>1. (\E v \in Workers : Owes(v, s)') <=> \E v \in Workers : Owes(v, s)
        BY <1>2, <2>3, <2>5
    <3> QED
        BY <1>0, <1>1, <2>1, <3>1
  <2>8. \A s \in Triggers : entries'[s] = mails'[s] + IF \E v \in Workers : Owes(v, s)' THEN 1 ELSE 0
    <3>1. mails'[t] \in Nat
      <4>1. mails'[t] = mails[t] + 1 /\ mails[t] \in Nat
          BY <1>0, <2>1
      <4> QED
          BY <4>1
    <3>2. entries'[t] = mails'[t] + IF \E v \in Workers : Owes(v, t)' THEN 1 ELSE 0
        BY <2>6, <3>1
    <3> QED
        BY <2>7, <3>2
  <2>9. \A v \in Workers : req'[v].at = "stage.write" => req'[v].from = stage'
      BY <1>0, <1>1, <2>1, <2>5
  <2> QED
      BY <1>1, <1>2, <2>5, <2>8, <2>9 DEF MailInv
<1>8. CASE StageWrite(w)
  <2>1. /\ UNCHANGED mails /\ req[w].at = "stage.write" /\ stage' = req[w].stage /\ req[w].from = stage
        /\ \A v \in Workers \ {w} : ~Mover(v)
        /\ \A s \in Triggers : ~Owes(w, s)
      BY <1>1, <1>8 DEF StageWrite, AtAwait, Mover, Owes, Mailing
  <2>2. \A v \in Workers : req'[v].at # "stage.write"
    <3>1. req'[w].at # "stage.write"
        BY <2>1, HandleMoves, IdleTyped
    <3> QED
        BY <1>0, <2>1, <3>1 DEF Mover
  <2>3. CASE Announced(w)
    <3>1. PICK t \in Triggers \ {"Application Received"} : t = req[w].trigger
        BY <1>0, <2>1, <2>3, TriggersOfStages DEF Announced, Sense, Triggers
    <3>2. /\ Goto(w, "mail.find") /\ entries' = [entries EXCEPT ![t] = @ + 1]
        BY <1>8, <2>1, <2>3, <3>1 DEF StageWrite, Announced
    <3>3. req'[w].at = "mail.find" /\ req'[w].trigger = t
      <4>1. "mail.find" \in Awaits
          BY DEF Awaits
      <4> QED
          BY <1>0, <3>1, <3>2, <4>1, GotoTyped
    <3>4. \A v \in Workers : ~Owes(v, t)
        BY <2>1, <3>1, Debtors
    <3>5. Owes(w, t)' /\ \A s \in Triggers \ {t} : ~Owes(w, s)'
        BY <3>3 DEF Owes, Mailing
    <3>6. entries'[t] = mails'[t] + 1
      <4>1. entries[t] = mails[t]
          BY <1>a, <3>4
      <4> QED
          BY <1>0, <2>1, <3>2, <4>1
    <3>7. ASSUME NEW s \in Triggers \ {t}
          PROVE  entries'[s] = mails'[s] + IF \E v \in Workers : Owes(v, s)' THEN 1 ELSE 0
      <4>1. (\E v \in Workers : Owes(v, s)') <=> \E v \in Workers : Owes(v, s)
          BY <1>2, <2>1, <3>5
      <4> QED
          BY <1>0, <1>1, <2>1, <3>2, <4>1
    <3>8. \A s \in Triggers : entries'[s] = mails'[s] + IF \E v \in Workers : Owes(v, s)' THEN 1 ELSE 0
        BY <3>5, <3>6, <3>7
    <3>9. \A v \in Workers \ {w} : ~Mover(v)'
        BY <1>2, <2>1
    <3> QED
        BY <2>2, <3>8, <3>9 DEF MailInv
  <2>4. CASE ~Announced(w)
    <3>1. Answer(w) /\ UNCHANGED entries
        BY <1>8, <2>1, <2>4 DEF StageWrite, Announced
    <3>2. req'[w].at = "idle"
        BY <1>0, <3>1, AnswerTyped, IdleTyped
    <3>3. ~Mover(w)' /\ \A s \in Triggers : ~Owes(w, s)'
        BY <3>2 DEF Mover, Owes, Mailing
    <3>4. \A v \in Workers, s \in Triggers : Owes(v, s)' <=> Owes(v, s)
        BY <1>2, <2>1, <3>3
    <3> QED
        BY <1>1, <1>2, <2>1, <2>2, <3>1, <3>3, <3>4 DEF MailInv
  <2> QED
      BY <2>3, <2>4
<1>9. CASE ApplyAudit(w) \/ WithdrawWrite(w) \/ InboundWrite(w) \/ ManualWrite(w) \/ ManualAudit(w)
           \/ NoteWrite(w) \/ PurgeWrite(w) \/ QuestionsWrite(w) \/ CriteriaWrite(w) \/ TeamWrite(w) \/ CardWrite(w)
           \/ ScoreAudit(w)
  <2>1. UNCHANGED <<stage, mails, entries>>
        /\ req[w].at \in {"apply.audit", "withdraw", "inbound", "manual", "manual.audit", "note", "purge",
                          "questions", "criteria", "team", "score", "score.audit"}
      BY <1>9 DEF ApplyAudit, WithdrawWrite, InboundWrite, ManualWrite, ManualAudit, NoteWrite, PurgeWrite,
           QuestionsWrite, CriteriaWrite, TeamWrite, CardWrite, ScoreAudit, AtAwait, mailing
  <2>2. req'[w].at \in {"idle", "manual.audit", "score.audit"}
      BY <2>1, HandleMoves, IdleTyped
  <2> QED
      BY <1>0, <2>1, <2>2, MailAlone DEF Mailing
<1>10. ~Die(w)
    BY CrossedGrows DEF Clean
<1> QED
    BY <1>3, <1>5, <1>6, <1>7, <1>8, <1>9, <1>10 DEF Handle

(* A candidate is mailed once for each time the application was received,   *)
(* an interview stage was entered or the application was rejected, unless   *)
(* two stage changes crossed, a template was missing or a request died.     *)
THEOREM MailsAlwaysMatchMoves == Spec => []MailsMatchMoves
<1> DEFINE Inv == CoreInv /\ MailInv
<1>1. Init => Inv
  <2>1. Init => MailInv
    <3> SUFFICES ASSUME Init PROVE MailInv
        OBVIOUS
    <3>1. \A w \in Workers : req[w].at = "idle"
        BY IdleTyped DEF Init
    <3>2. \A w \in Workers : ~Mover(w) /\ \A t \in Triggers : ~Owes(w, t)
        BY <3>1 DEF Mover, Owes, Mailing
    <3>3. \A t \in Triggers : mails[t] = 0 /\ entries[t] = 0
        BY DEF Init
    <3> QED
        BY <3>1, <3>2, <3>3 DEF MailInv
  <2> QED
      BY <2>1, CoreStarts
<1>2. Inv /\ [Next]_vars => Inv'
  <2> SUFFICES ASSUME Inv, [Next]_vars PROVE MailInv'
      BY CoreHolds
  <2>1. CASE UNCHANGED vars
      BY <2>1 DEF vars, mailing, MailInv, Mover, Owes
  <2>2. CASE ~Clean'
      BY <2>2 DEF MailInv, Clean
  <2> QED
      BY <2>1, <2>2, MailArrives, MailHandles DEF Next
<1>3. Inv => MailsMatchMoves
  <2> SUFFICES ASSUME Inv, Quiet, Clean PROVE mails = entries
      BY DEF MailsMatchMoves, Clean
  <2>1. \A w \in Workers, t \in Triggers : ~Owes(w, t)
      BY DEF Quiet, InFlight, AtAwait, Owes, Mailing
  <2>2. mails \in [Triggers -> Nat] /\ entries \in [Triggers -> Nat]
      BY DEF CoreInv, TypeOK
  <2>3. \A t \in Triggers : entries[t] = mails[t]
      BY <2>1, <2>2 DEF MailInv, Clean
  <2> QED
      BY <2>2, <2>3
<1> QED
    BY <1>1, <1>2, <1>3, PTL DEF Spec
===============================================================================
