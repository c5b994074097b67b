--------------------------- MODULE PerformanceProofs ---------------------------
(***************************************************************************)
(* What the review and the probation sweep guarantee for any number of     *)
(* requests, hires and names: the manager's evaluation is out of reach of  *)
(* a self-evaluation still to be handed in, and every new hire gets one    *)
(* probationary review of which the manager hears.                         *)
(***************************************************************************)
EXTENDS Performance, TLAPS

Sweepers == {"sweep", "notice"}

(* What a request in flight carries with it. *)
Sense(w) ==
    /\ req[w].at = "advance" => req[w].state \in ReviewStates
    /\ req[w].at \notin Sweepers => req[w].todo = {}
    /\ req[w].at = "notice" => req[w].hire \in Hires /\ <<req[w].hire, "initialize">> \in req[w].todo

CoreInv == TypeOK /\ \A w \in Workers : Sense(w)

LEMMA ReviewStatesAre ==
    ReviewStates = {"DRAFT", "SELF_EVALUATION", "MANAGER_EVALUATION", "CALIBRATED", "COMPLETED"}
BY DEF ReviewStates, REVIEW_FLOW

(* A review moves on to a state of the flow, and a completed one stays. *)
LEMMA NextStates ==
    ASSUME NEW s \in ReviewStates
    PROVE  nextReviewState(s) \in ReviewStates /\ (s = "COMPLETED" => nextReviewState(s) = s)
<1>1. CASE s = "COMPLETED"
    BY <1>1 DEF nextReviewState
<1>2. CASE s # "COMPLETED"
  <2> DEFINE i == CHOOSE j \in 1..5 : REVIEW_FLOW[j] = s
  <2>1. \E j \in 1..5 : REVIEW_FLOW[j] = s
      BY DEF ReviewStates
  <2>2. i \in 1..5 /\ REVIEW_FLOW[i] = s
      BY <2>1
  <2>3. REVIEW_FLOW[5] = "COMPLETED"
      BY DEF REVIEW_FLOW
  <2>4. i + 1 \in 1..5
    <3> HIDE DEF i
    <3> QED
        BY <1>2, <2>2, <2>3
  <2>5. nextReviewState(s) = REVIEW_FLOW[i + 1]
      BY <1>2 DEF nextReviewState
  <2> HIDE DEF i
  <2> QED
      BY <1>2, <2>4, <2>5 DEF ReviewStates
<1> QED
    BY <1>1, <1>2

LEMMA IdleTyped == Idle \in Requests /\ Idle.at = "idle" /\ Idle.todo = {}
BY DEF Idle, Requests, Awaits, Agendas

LEMMA RequestTyped ==
    ASSUME req \in [Workers -> Requests], NEW w \in Workers, NEW r \in Requests, req' = [req EXCEPT ![w] = r]
    PROVE  req' \in [Workers -> Requests] /\ req'[w] = r /\ \A v \in Workers \ {w} : req'[v] = req[v]
OBVIOUS

LEMMA AnswerTyped ==
    ASSUME req \in [Workers -> Requests], NEW w \in Workers, Answer(w)
    PROVE  req' \in [Workers -> Requests] /\ req'[w] = Idle /\ \A v \in Workers \ {w} : req'[v] = req[v]
BY IdleTyped, RequestTyped DEF Answer

LEMMA GotoTyped ==
    ASSUME req \in [Workers -> Requests], NEW w \in Workers, NEW label \in Awaits, Goto(w, label)
    PROVE  /\ req' \in [Workers -> Requests] /\ \A v \in Workers \ {w} : req'[v] = req[v]
           /\ req'[w].at = label /\ req'[w].todo = req[w].todo
<1>1. PICK r \in Requests : r = [req[w] EXCEPT !.at = label]
    BY DEF Requests
<1>2. r.at = label /\ r.todo = req[w].todo
    BY <1>1 DEF Requests
<1>3. req' = [req EXCEPT ![w] = r]
    BY <1>1 DEF Goto
<1> QED
    BY <1>2, <1>3, RequestTyped

LEMMA ReadReviewTyped ==
    ASSUME TypeOK, NEW w \in Workers, NEW label \in Awaits, ReadReview(w, label)
    PROVE  /\ req' \in [Workers -> Requests] /\ \A v \in Workers \ {w} : req'[v] = req[v]
           /\ req'[w].at = label /\ req'[w].todo = req[w].todo /\ req'[w].state \in ReviewStates
<1>1. req \in [Workers -> Requests] /\ review.state \in ReviewStates
    BY DEF TypeOK, ReadReview, Reviews
<1>2. PICK r \in Requests : r = [req[w] EXCEPT !.at = label, !.state = review.state]
    BY <1>1 DEF Requests
<1>3. r.at = label /\ r.todo = req[w].todo /\ r.state = review.state
    BY <1>1, <1>2 DEF Requests
<1>4. req' = [req EXCEPT ![w] = r]
    BY <1>2 DEF ReadReview
<1> QED
    BY <1>1, <1>3, <1>4, RequestTyped

LEMMA ReadAgendaTyped ==
    ASSUME TypeOK, NEW w \in Workers, NEW label \in Awaits, ReadAgenda(w, label)
    PROVE  /\ req' \in [Workers -> Requests] /\ \A v \in Workers \ {w} : req'[v] = req[v]
           /\ req'[w].at = label /\ req'[w].todo = req[w].todo
<1>1. req \in [Workers -> Requests] /\ agenda \in Agendas
    BY DEF TypeOK
<1>2. PICK r \in Requests : r = [req[w] EXCEPT !.at = label, !.agenda = agenda]
    BY <1>1 DEF Requests
<1>3. r.at = label /\ r.todo = req[w].todo
    BY <1>1, <1>2 DEF Requests
<1>4. req' = [req EXCEPT ![w] = r]
    BY <1>2 DEF ReadAgenda
<1> QED
    BY <1>1, <1>3, <1>4, RequestTyped

LEMMA SweepTyped ==
    ASSUME TypeOK, NEW w \in Workers, Sweep(w)
    PROVE  /\ req' \in [Workers -> Requests] /\ \A v \in Workers \ {w} : req'[v] = req[v]
           /\ req'[w].at = "sweep" /\ req'[w].seen = notices
           /\ req'[w].todo = {t \in Hires \X Actions : t[2] \in probationAction(t[1])}
<1>1. req \in [Workers -> Requests] /\ notices \in SUBSET Intents /\ "sweep" \in Awaits
    BY DEF TypeOK, Awaits
<1>2. PICK todo \in SUBSET (Hires \X Actions) : todo = {t \in Hires \X Actions : t[2] \in probationAction(t[1])}
    OBVIOUS
<1>3. PICK r \in Requests : r = [req[w] EXCEPT !.at = "sweep", !.seen = notices, !.todo = todo]
    BY <1>1 DEF Requests
<1>4. r.at = "sweep" /\ r.todo = todo /\ r.seen = notices
    BY <1>1, <1>3 DEF Requests
<1>5. req' = [req EXCEPT ![w] = r]
    BY <1>2, <1>3 DEF Sweep
<1> QED
    BY <1>1, <1>2, <1>4, <1>5, RequestTyped

LEMMA DoneTyped ==
    ASSUME req \in [Workers -> Requests], NEW w \in Workers, NEW t, Done(w, t)
    PROVE  /\ req' \in [Workers -> Requests] /\ \A v \in Workers \ {w} : req'[v] = req[v]
           /\ req'[w].todo = req[w].todo \ {t}
           /\ \/ req'[w].at = "idle" /\ req'[w].todo = {}
              \/ req'[w].at = "sweep" /\ req'[w].seen = req[w].seen
<1>1. CASE req[w].todo = {t}
  <2>1. req' = [req EXCEPT ![w] = Idle]
      BY <1>1 DEF Done
  <2> QED
      BY <1>1, <2>1, IdleTyped, RequestTyped
<1>2. CASE req[w].todo # {t}
  <2>1. PICK r \in Requests : r = [req[w] EXCEPT !.at = "sweep", !.hire = "none", !.todo = @ \ {t}]
      BY DEF Requests, Awaits
  <2>2. r.at = "sweep" /\ r.todo = req[w].todo \ {t} /\ r.seen = req[w].seen
      BY <2>1 DEF Requests
  <2>3. req' = [req EXCEPT ![w] = r]
    <3>1. req' = [req EXCEPT ![w] = [req[w] EXCEPT !.at = "sweep", !.hire = "none", !.todo = req[w].todo \ {t}]]
        BY <1>2 DEF Done
    <3> QED
        BY <2>1, <3>1
  <2> QED
      BY <2>2, <2>3, RequestTyped
<1> QED
    BY <1>1, <1>2

LEMMA NoticeTyped ==
    ASSUME req \in [Workers -> Requests], NEW w \in Workers, NEW h \in Hires,
           req' = [req EXCEPT ![w].at = "notice", ![w].hire = h]
    PROVE  /\ req' \in [Workers -> Requests] /\ \A v \in Workers \ {w} : req'[v] = req[v]
           /\ req'[w].at = "notice" /\ req'[w].hire = h
           /\ req'[w].todo = req[w].todo /\ req'[w].seen = req[w].seen
<1>1. PICK r \in Requests : r = [req[w] EXCEPT !.at = "notice", !.hire = h]
    BY DEF Requests, Awaits
<1>2. r.at = "notice" /\ r.hire = h /\ r.todo = req[w].todo /\ r.seen = req[w].seen
    BY <1>1 DEF Requests
<1>3. req' = [req EXCEPT ![w] = r]
    BY <1>1
<1> QED
    BY <1>2, <1>3, RequestTyped
-------------------------------------------------------------------------------
(* The manager's evaluation is shown at the end of the flow only. *)
ReviewInv == sawManager => review.state = "COMPLETED"

(* What was announced was announced for somebody of that name, and what a  *)
(* sweep has seen is still there.                                          *)
AnnouncedIsNoticed == \A n \in Names : <<"initialize", n>> \in notices => \E h \in noticed : name[h] = n
SeenIsPosted == \A w \in Workers : req[w].at \in Sweepers => req[w].seen \subseteq notices

(* While sweeps do not cross there is one, and what it has still to        *)
(* initialize has no probationary review yet, unless HR opened it by hand. *)
OneSweep == \A v, w \in Workers : req[v].at \in Sweepers /\ req[w].at \in Sweepers => v = w
OneCopy == \A h \in Hires \ opened : copies[h] = IF probation[h] = "none" THEN 0 ELSE 1
ToOpen ==
    \A w \in Workers, h \in Hires \ opened : <<h, "initialize">> \in req[w].todo =>
        probation[h] = "none" \/ (req[w].at = "notice" /\ req[w].hire = h)
Heard ==
    \A h \in Hires \ opened :
        probation[h] # "none" /\ ~Sweeping(h) /\ ~Namesake(h) /\ "died" \notin crossed => h \in noticed

SweepInv ==
    /\ AnnouncedIsNoticed /\ SeenIsPosted
    /\ "sweeps" \notin crossed => OneSweep /\ OneCopy /\ ToOpen /\ Heard
-------------------------------------------------------------------------------
(* The request that moves. *)
LEMMA RequestMoves ==
    ASSUME CoreInv, NEW w \in Workers, Arrive(w) \/ Handle(w) \/ Die(w)
    PROVE  /\ req' \in [Workers -> Requests] /\ \A v \in Workers \ {w} : req'[v] = req[v]
           /\ Sense(w)'
           /\ ~Sweep(w) /\ ~SweepInitialize(w) /\ ~SweepNotice(w) /\ ~SweepEscalate(w) /\ ~Die(w)
                => req[w].at \notin Sweepers /\ req'[w].at \notin Sweepers
<1>0. TypeOK /\ req \in [Workers -> Requests] /\ req[w] \in Requests /\ Sense(w)
    BY DEF CoreInv, TypeOK
<1>1. CASE Answer(w) /\ ~SweepNotice(w) /\ ~SweepEscalate(w)
  <2>1. /\ req' \in [Workers -> Requests] /\ \A v \in Workers \ {w} : req'[v] = req[v]
        /\ req'[w] = Idle
      BY <1>0, <1>1, AnswerTyped
  <2>2. Sense(w)' /\ req'[w].at \notin Sweepers
      BY <2>1, IdleTyped DEF Sense, Sweepers
  <2>3. ~Die(w) => req[w].at \notin Sweepers
    <3>1. ASSUME Arrive(w), ~Sweep(w)
          PROVE  req[w].at = "idle"
        BY <3>1 DEF Arrive, AtAwait, CreateReview, SubmitSelfEvaluation, SubmitManagerEvaluation,
             AcknowledgeReview, AdvanceReviewState, UpdateReview, GetMyReviews, Reassign, ReadReview, ReadAgenda,
             UpdateGoalProgress, RequestWeightChange, RequestFeedback, RespondFeedback
    <3>2. ASSUME Sweep(w)
          PROVE  req[w].at = "idle"
        BY <3>2 DEF Sweep, AtAwait
    <3>3. ASSUME SweepInitialize(w)
          PROVE  FALSE
      <4>1. PICK h \in Hires : req' = [req EXCEPT ![w].at = "notice", ![w].hire = h]
          BY <1>0, <3>3 DEF SweepInitialize, Requests
      <4> QED
          BY <1>0, <2>1, <4>1, IdleTyped, NoticeTyped
    <3>4. ASSUME Handle(w), ~SweepInitialize(w)
          PROVE  req[w].at \notin Sweepers
        BY <1>1, <3>4 DEF Handle, AtAwait, SelfWrite, ManagerWrite, AcknowledgeWrite, AdvanceWrite, WriteReview,
             AddTalkingPoint, RemoveTalkingPoint, AddActionItem, ToggleActionItem, WriteAgenda,
             ProgressWrite, WeightWrite, FeedbackWrite, Sweepers
    <3> QED
        BY <3>1, <3>2, <3>3, <3>4 DEF Sweepers
  <2> QED
      BY <2>1, <2>2, <2>3
<1>2. ASSUME NEW label \in Awaits \ Sweepers, label # "advance", Goto(w, label), AtAwait(w, "idle")
      PROVE  /\ req' \in [Workers -> Requests] /\ \A v \in Workers \ {w} : req'[v] = req[v]
             /\ Sense(w)' /\ req[w].at \notin Sweepers /\ req'[w].at \notin Sweepers
  <2>1. /\ req' \in [Workers -> Requests] /\ \A v \in Workers \ {w} : req'[v] = req[v]
        /\ req'[w].at = label /\ req'[w].todo = req[w].todo
      BY <1>0, <1>2, GotoTyped
  <2> QED
      BY <1>0, <1>2, <2>1 DEF Sense, AtAwait, Sweepers
<1>3. ASSUME NEW label \in Awaits \ Sweepers, ReadReview(w, label) \/ (label # "advance" /\ ReadAgenda(w, label))
      PROVE  /\ req' \in [Workers -> Requests] /\ \A v \in Workers \ {w} : req'[v] = req[v]
             /\ Sense(w)' /\ req[w].at \notin Sweepers /\ req'[w].at \notin Sweepers
  <2>1. /\ req' \in [Workers -> Requests] /\ \A v \in Workers \ {w} : req'[v] = req[v]
        /\ req'[w].at = label /\ req'[w].todo = req[w].todo
        /\ label = "advance" => req'[w].state \in ReviewStates
      BY <1>0, <1>3, ReadReviewTyped, ReadAgendaTyped
  <2>2. req[w].at = "idle"
      BY <1>3 DEF ReadReview, ReadAgenda, AtAwait
  <2> QED
      BY <1>0, <2>1, <2>2 DEF Sense, Sweepers
<1>4. ASSUME UNCHANGED req, req[w].at = "idle"
      PROVE  /\ req' \in [Workers -> Requests] /\ \A v \in Workers \ {w} : req'[v] = req[v]
             /\ Sense(w)' /\ req[w].at \notin Sweepers /\ req'[w].at \notin Sweepers
    BY <1>0, <1>4 DEF Sense, Sweepers
<1>5. CASE Sweep(w)
  <2>1. /\ req' \in [Workers -> Requests] /\ \A v \in Workers \ {w} : req'[v] = req[v]
        /\ req'[w].at = "sweep"
      BY <1>0, <1>5, SweepTyped
  <2> QED
      BY <1>5, <2>1 DEF Sense, Sweepers
<1>6. CASE SweepInitialize(w)
  <2>1. PICK t \in req[w].todo : /\ t[2] = "initialize"
                                 /\ req' = [req EXCEPT ![w].at = "notice", ![w].hire = t[1]]
      BY <1>6 DEF SweepInitialize
  <2>2. t \in Hires \X Actions
      BY <1>0 DEF Requests
  <2>3. PICK h \in Hires : h = t[1] /\ t = <<h, "initialize">>
      BY <2>1, <2>2
  <2>4. req' = [req EXCEPT ![w].at = "notice", ![w].hire = h]
      BY <2>1, <2>3
  <2>5. /\ req' \in [Workers -> Requests] /\ \A v \in Workers \ {w} : req'[v] = req[v]
        /\ req'[w].at = "notice" /\ req'[w].hire = h /\ req'[w].todo = req[w].todo
      BY <1>0, <2>4, NoticeTyped
  <2>6. Sense(w)'
      BY <2>3, <2>5 DEF Sense, Sweepers
  <2> QED
      BY <1>6, <2>5, <2>6
<1>7. CASE SweepNotice(w) \/ SweepEscalate(w)
  <2>1. \E t : Done(w, t)
      BY <1>7 DEF SweepNotice, SweepEscalate
  <2>2. /\ req' \in [Workers -> Requests] /\ \A v \in Workers \ {w} : req'[v] = req[v]
        /\ \/ req'[w].at = "idle" /\ req'[w].todo = {}
           \/ req'[w].at = "sweep"
      BY <1>0, <2>1, DoneTyped
  <2> QED
      BY <1>7, <2>2 DEF Sense, Sweepers
<1>8. CASE Arrive(w) /\ ~Sweep(w)
  <2>0. {"self", "manager", "acknowledge", "advance", "points", "items", "progress", "weight", "feedback"}
          \subseteq Awaits \ Sweepers
      BY DEF Awaits, Sweepers
  <2>1. CASE SubmitSelfEvaluation(w) \/ SubmitManagerEvaluation(w) \/ AcknowledgeReview(w) \/ AdvanceReviewState(w)
      BY <1>3, <2>0, <2>1 DEF SubmitSelfEvaluation, SubmitManagerEvaluation, AcknowledgeReview, AdvanceReviewState
  <2>2. CASE ReadAgenda(w, "points") \/ ReadAgenda(w, "items")
      BY <1>3, <2>0, <2>2
  <2>3. CASE UpdateGoalProgress(w) \/ RequestWeightChange(w) \/ RespondFeedback(w)
      BY <1>2, <2>0, <2>3 DEF UpdateGoalProgress, RequestWeightChange, RespondFeedback
  <2>4. CASE CreateReview(w) \/ UpdateReview(w) \/ GetMyReviews(w) \/ Reassign(w) \/ RequestFeedback(w)
      BY <1>4, <2>4 DEF CreateReview, UpdateReview, GetMyReviews, Reassign, RequestFeedback, AtAwait
  <2> QED
      BY <1>8, <2>1, <2>2, <2>3, <2>4 DEF Arrive
<1> QED
    BY <1>1, <1>5, <1>6, <1>7, <1>8 DEF Handle, Die, SelfWrite, ManagerWrite, AcknowledgeWrite, AdvanceWrite,
         WriteReview, AddTalkingPoint, RemoveTalkingPoint, AddActionItem, ToggleActionItem, WriteAgenda,
         ProgressWrite, WeightWrite, FeedbackWrite

(* The review, as it is moved on. *)
LEMMA ReviewMoves ==
    ASSUME CoreInv, NEW w \in Workers, Arrive(w) \/ Handle(w) \/ Die(w)
    PROVE  /\ review' \in Reviews
           /\ review.state = "COMPLETED" => review'.state = "COMPLETED"
           /\ review'.selfSubmitted /\ ~review.selfSubmitted => review.state = "SELF_EVALUATION"
           /\ sawManager' \in BOOLEAN /\ (sawManager' => sawManager \/ review'.state = "COMPLETED")
<1>0. review \in Reviews /\ sawManager \in BOOLEAN
    BY DEF CoreInv, TypeOK
<1>1. CASE UNCHANGED <<review, sawManager>>
    BY <1>0, <1>1
<1>2. CASE GetMyReviews(w)
    BY <1>0, <1>2 DEF GetMyReviews, ManagerEvaluationShown
<1>3. CASE CreateReview(w)
    BY <1>0, <1>3, ReviewStatesAre DEF CreateReview, NoReview, Reviews
<1>4. CASE UpdateReview(w)
    BY <1>0, <1>4 DEF UpdateReview, Reviews
<1>5. ASSUME NEW label, NEW from, NEW change \in Reviews, WriteReview(w, label, from, change),
              from = "COMPLETED" => change.state = "COMPLETED",
              change.selfSubmitted /\ ~review.selfSubmitted => from = "SELF_EVALUATION"
      PROVE  /\ review' \in Reviews
             /\ review.state = "COMPLETED" => review'.state = "COMPLETED"
             /\ review'.selfSubmitted /\ ~review.selfSubmitted => review.state = "SELF_EVALUATION"
             /\ sawManager' = sawManager
    BY <1>0, <1>5 DEF WriteReview
<1>7. CASE SelfWrite(w)
  <2>1. PICK change \in Reviews : change = [review EXCEPT !.self = "employee", !.selfSubmitted = TRUE,
                                                          !.state = "MANAGER_EVALUATION"]
      BY <1>0, ReviewStatesAre DEF Reviews
  <2>2. WriteReview(w, "self", "SELF_EVALUATION", change)
      BY <1>7, <2>1 DEF SelfWrite
  <2> QED
      BY <1>0, <1>5, <2>2
<1>8. CASE ManagerWrite(w)
  <2>1. PICK change \in Reviews : change = [review EXCEPT !.manager = "evaluator", !.managerSubmitted = TRUE,
                                                          !.state = "CALIBRATED"]
      BY <1>0, ReviewStatesAre DEF Reviews
  <2>2. WriteReview(w, "manager", "MANAGER_EVALUATION", change) /\ change.selfSubmitted = review.selfSubmitted
      BY <1>0, <1>8, <2>1 DEF ManagerWrite, Reviews
  <2> QED
      BY <1>0, <1>5, <2>2
<1>9. CASE AcknowledgeWrite(w)
  <2>1. PICK change \in Reviews : change = [review EXCEPT !.acknowledged = TRUE]
      BY <1>0 DEF Reviews
  <2>2. PICK from : from = review.state
      OBVIOUS
  <2>3. /\ WriteReview(w, "acknowledge", from, change)
        /\ change.selfSubmitted = review.selfSubmitted /\ change.state = from
      BY <1>0, <1>9, <2>1, <2>2 DEF AcknowledgeWrite, Reviews
  <2> QED
      BY <1>0, <1>5, <2>3
<1>6. CASE AdvanceWrite(w)
  <2>1. req[w].state \in ReviewStates
      BY <1>6 DEF AdvanceWrite, WriteReview, AtAwait, CoreInv, Sense
  <2>2. PICK next \in ReviewStates : /\ next = nextReviewState(req[w].state)
                                     /\ req[w].state = "COMPLETED" => next = "COMPLETED"
      BY <2>1, NextStates
  <2>3. /\ sawManager' = sawManager
        /\ review' = IF review.state = req[w].state THEN [review EXCEPT !.state = next] ELSE review
      BY <1>6, <2>2 DEF AdvanceWrite, WriteReview
  <2> QED
      BY <1>0, <2>2, <2>3 DEF Reviews
<1> QED
    BY <1>0, <1>1, <1>2, <1>3, <1>4, <1>6, <1>7, <1>8, <1>9 DEF Arrive, Handle, Die, SubmitSelfEvaluation, SubmitManagerEvaluation,
         AcknowledgeReview, AdvanceReviewState, ReadReview, Reassign, ReadAgenda, Sweep, UpdateGoalProgress,
         RequestWeightChange, RequestFeedback, RespondFeedback, SweepInitialize, SweepNotice, SweepEscalate,
         AddTalkingPoint, RemoveTalkingPoint, AddActionItem, ToggleActionItem, WriteAgenda,
         ProgressWrite, WeightWrite, FeedbackWrite, reviewing
-------------------------------------------------------------------------------
LEMMA CoreStarts == Init => CoreInv
<1> SUFFICES ASSUME Init PROVE CoreInv
    OBVIOUS
<1>1. req \in [Workers -> Requests] /\ \A w \in Workers : req[w] = Idle
    BY IdleTyped DEF Init
<1>2. \A w \in Workers : Sense(w)
    BY <1>1, IdleTyped DEF Sense, Sweepers
<1>3. NoReview \in Reviews
    BY ReviewStatesAre DEF NoReview, Reviews
<1>4. 0 \in 0..MaxEntries
    BY PerformanceAssumption
<1> QED
    BY <1>1, <1>2, <1>3, <1>4 DEF Init, CoreInv, TypeOK, Agendas, Intents

(* The shared agenda, and the growth records. *)
LEMMA AgendaTyped ==
    ASSUME CoreInv, NEW w \in Workers, Arrive(w) \/ Handle(w) \/ Die(w)
    PROVE  agenda' \in Agendas /\ written' \in 0..MaxEntries
<1>0. /\ agenda \in Agendas /\ written \in Nat /\ written <= MaxEntries /\ MaxEntries \in Nat
      /\ req[w].agenda \in Agendas
  <2>1. agenda \in Agendas /\ written \in 0..MaxEntries /\ req[w] \in Requests
      BY DEF CoreInv, TypeOK
  <2>2. req[w].agenda \in Agendas
      BY <2>1 DEF Requests
  <2> QED
      BY <2>1, <2>2, PerformanceAssumption
<1>1. CASE UNCHANGED meeting
    BY <1>0, <1>1 DEF meeting
<1>2. CASE AddTalkingPoint(w)
  <2>1. written + 1 \in Points /\ written' = written + 1
      BY <1>0, <1>2 DEF AddTalkingPoint, Points
  <2>2. PICK points \in SUBSET Points : points = req[w].agenda.points \union {written + 1}
      BY <1>0, <2>1 DEF Agendas
  <2>3. agenda' = [agenda EXCEPT !.points = points]
      BY <1>2, <2>1, <2>2 DEF AddTalkingPoint
  <2> QED
      BY <1>0, <2>1, <2>3 DEF Agendas, Points
<1>3. CASE RemoveTalkingPoint(w)
    BY <1>0, <1>3 DEF RemoveTalkingPoint, Agendas
<1>4. CASE AddActionItem(w)
  <2>0. written < MaxEntries /\ written' = written + 1
      BY <1>4 DEF AddActionItem
  <2>1. written + 1 \in 1..MaxEntries /\ written' = written + 1
      BY <1>0, <2>0
  <2>4. <<written + 1, FALSE>> \in Items
      BY <2>1 DEF Items
  <2>5. req[w].agenda.items \subseteq Items
      BY <1>0 DEF Agendas
  <2>2. PICK items \in SUBSET Items : items = req[w].agenda.items \union {<<written + 1, FALSE>>}
      BY <2>4, <2>5
  <2>3. agenda' = [agenda EXCEPT !.items = items]
      BY <1>4, <2>1, <2>2 DEF AddActionItem
  <2> QED
      BY <1>0, <2>1, <2>3 DEF Agendas
<1>5. CASE ToggleActionItem(w)
  <2>1. PICK item \in req[w].agenda.items, done \in BOOLEAN :
            agenda' = [agenda EXCEPT !.items = Toggled(req[w].agenda.items, item, done)]
      BY <1>5 DEF ToggleActionItem
  <2>2. item \in Items
      BY <1>0, <2>1 DEF Agendas
  <2>5. req[w].agenda.items \subseteq Items
      BY <1>0 DEF Agendas
  <2>6. <<item[1], done>> \in Items
      BY <2>1, <2>2 DEF Items
  <2>3. PICK items \in SUBSET Items : items = Toggled(req[w].agenda.items, item, done)
      BY <2>5, <2>6 DEF Toggled
  <2>4. agenda' = [agenda EXCEPT !.items = items]
      BY <2>1, <2>3
  <2> QED
      BY <1>0, <1>5, <2>4 DEF Agendas, ToggleActionItem
<1> QED
    BY <1>1, <1>2, <1>3, <1>4, <1>5 DEF Arrive, Handle, Die, CreateReview, UpdateReview, GetMyReviews,
         SubmitSelfEvaluation, SubmitManagerEvaluation,
         AcknowledgeReview, AdvanceReviewState, ReadReview, Reassign, ReadAgenda, Sweep, UpdateGoalProgress,
         RequestWeightChange, RequestFeedback, RespondFeedback, SweepInitialize, SweepNotice, SweepEscalate,
         SelfWrite, ManagerWrite, AcknowledgeWrite, AdvanceWrite, WriteReview,
         ProgressWrite, WeightWrite, FeedbackWrite, meeting

LEMMA GrowthTyped ==
    ASSUME CoreInv, NEW w \in Workers, Arrive(w) \/ Handle(w) \/ Die(w)
    PROVE  /\ goal' \in [completed : BOOLEAN, trail : SUBSET {"progress", "adjusted", "blocked"}]
           /\ feedback' \in {"none", "PENDING", "COMPLETED"}
           /\ line' \in People \ {Subject}
           /\ workload' \in Workloads
           /\ crossed' \subseteq {"sweeps", "died"}
<1>0. /\ goal \in [completed : BOOLEAN, trail : SUBSET {"progress", "adjusted", "blocked"}]
      /\ feedback \in {"none", "PENDING", "COMPLETED"}
      /\ line \in People \ {Subject}
      /\ workload \in Workloads
      /\ crossed \subseteq {"sweeps", "died"}
    BY DEF CoreInv, TypeOK
<1>1. goal' \in [completed : BOOLEAN, trail : SUBSET {"progress", "adjusted", "blocked"}]
  <2>1. CASE UNCHANGED goal
      BY <1>0, <2>1
  <2>2. CASE ProgressWrite(w)
      BY <1>0, <2>2 DEF ProgressWrite
  <2>3. CASE WeightWrite(w)
      BY <1>0, <2>3 DEF WeightWrite
  <2> QED
      BY <2>1, <2>2, <2>3 DEF Arrive, Handle, Die, CreateReview, UpdateReview, GetMyReviews,
         SubmitSelfEvaluation, SubmitManagerEvaluation,
         AcknowledgeReview, AdvanceReviewState, ReadReview, Reassign, ReadAgenda, Sweep, UpdateGoalProgress,
         RequestWeightChange, RequestFeedback, RespondFeedback, SweepInitialize, SweepNotice, SweepEscalate,
         SelfWrite, ManagerWrite, AcknowledgeWrite, AdvanceWrite, WriteReview,
         AddTalkingPoint, RemoveTalkingPoint, AddActionItem, ToggleActionItem, WriteAgenda, FeedbackWrite, growing
<1>2. feedback' \in {"none", "PENDING", "COMPLETED"}
    BY <1>0 DEF Arrive, Handle, Die, CreateReview, UpdateReview, GetMyReviews,
         SubmitSelfEvaluation, SubmitManagerEvaluation,
         AcknowledgeReview, AdvanceReviewState, ReadReview, Reassign, ReadAgenda, Sweep, UpdateGoalProgress,
         RequestWeightChange, RequestFeedback, RespondFeedback, SweepInitialize, SweepNotice, SweepEscalate,
         SelfWrite, ManagerWrite, AcknowledgeWrite, AdvanceWrite, WriteReview, ProgressWrite, WeightWrite,
         AddTalkingPoint, RemoveTalkingPoint, AddActionItem, ToggleActionItem, WriteAgenda, FeedbackWrite, growing
<1>3. line' \in People \ {Subject}
    BY <1>0 DEF Arrive, Handle, Die, CreateReview, UpdateReview, GetMyReviews,
         SubmitSelfEvaluation, SubmitManagerEvaluation,
         AcknowledgeReview, AdvanceReviewState, ReadReview, Reassign, ReadAgenda, Sweep, UpdateGoalProgress,
         RequestWeightChange, RequestFeedback, RespondFeedback, SweepInitialize, SweepNotice, SweepEscalate,
         SelfWrite, ManagerWrite, AcknowledgeWrite, AdvanceWrite, WriteReview, ProgressWrite, WeightWrite,
         AddTalkingPoint, RemoveTalkingPoint, AddActionItem, ToggleActionItem, WriteAgenda, FeedbackWrite, reviewing
<1>4. workload' = workload
    BY DEF Arrive, Handle, Die, CreateReview, UpdateReview, GetMyReviews,
         SubmitSelfEvaluation, SubmitManagerEvaluation,
         AcknowledgeReview, AdvanceReviewState, ReadReview, Reassign, ReadAgenda, Sweep, UpdateGoalProgress,
         RequestWeightChange, RequestFeedback, RespondFeedback, SweepInitialize, SweepNotice, SweepEscalate,
         SelfWrite, ManagerWrite, AcknowledgeWrite, AdvanceWrite, WriteReview, ProgressWrite, WeightWrite,
         AddTalkingPoint, RemoveTalkingPoint, AddActionItem, ToggleActionItem, WriteAgenda, FeedbackWrite
<1>5. crossed' \subseteq {"sweeps", "died"}
  <2>1. CASE UNCHANGED crossed
      BY <1>0, <2>1
  <2>2. CASE Sweep(w)
      BY <1>0, <2>2 DEF Sweep, Cross
  <2>3. CASE Die(w)
      BY <1>0, <2>3 DEF Die, Cross
  <2> QED
      BY <2>1, <2>2, <2>3 DEF Arrive, Handle, CreateReview, UpdateReview, GetMyReviews,
         SubmitSelfEvaluation, SubmitManagerEvaluation,
         AcknowledgeReview, AdvanceReviewState, ReadReview, Reassign, ReadAgenda, UpdateGoalProgress,
         RequestWeightChange, RequestFeedback, RespondFeedback, SweepInitialize, SweepNotice, SweepEscalate,
         SelfWrite, ManagerWrite, AcknowledgeWrite, AdvanceWrite, WriteReview, ProgressWrite, WeightWrite,
         AddTalkingPoint, RemoveTalkingPoint, AddActionItem, ToggleActionItem, WriteAgenda, FeedbackWrite
<1> QED
    BY <1>0, <1>1, <1>2, <1>3, <1>4, <1>5

(* Every step but those of a sweep leaves the probationary reviews alone. *)
LEMMA OthersLeaveProbation ==
    ASSUME NEW w \in Workers, Arrive(w) \/ Handle(w) \/ Die(w),
           ~SweepInitialize(w), ~SweepNotice(w), ~SweepEscalate(w)
    PROVE  UNCHANGED probating /\ (~Sweep(w) /\ ~Die(w) => UNCHANGED crossed)
BY DEF Arrive, Handle, Die, CreateReview, UpdateReview, GetMyReviews,
     SubmitSelfEvaluation, SubmitManagerEvaluation,
     AcknowledgeReview, AdvanceReviewState, ReadReview, Reassign, ReadAgenda, Sweep, UpdateGoalProgress,
     RequestWeightChange, RequestFeedback, RespondFeedback,
     SelfWrite, ManagerWrite, AcknowledgeWrite, AdvanceWrite, WriteReview, ProgressWrite, WeightWrite,
     AddTalkingPoint, RemoveTalkingPoint, AddActionItem, ToggleActionItem, WriteAgenda, FeedbackWrite

LEMMA ProbationTyped ==
    ASSUME CoreInv, NEW w \in Workers, Arrive(w) \/ Handle(w) \/ Die(w)
    PROVE  /\ name' = name /\ tenure' = tenure
           /\ probation' \in [Hires -> {"none", "open", "completed"}]
           /\ notices' \subseteq Intents
           /\ copies' \in [Hires -> Nat] /\ noticed' \subseteq Hires /\ opened' \subseteq Hires
<1>0. /\ name \in [Hires -> Names] /\ probation \in [Hires -> {"none", "open", "completed"}]
      /\ notices \subseteq Intents
      /\ copies \in [Hires -> Nat] /\ noticed \subseteq Hires /\ opened \subseteq Hires
      /\ Sense(w) /\ req[w] \in Requests
    BY DEF CoreInv, TypeOK
<1>1. CASE UNCHANGED probating
    BY <1>0, <1>1 DEF probating
<1>2. CASE SweepInitialize(w)
  <2>1. PICK t \in req[w].todo : /\ probation' = [probation EXCEPT ![t[1]] = "open"]
                                 /\ copies' = [copies EXCEPT ![t[1]] = @ + 1]
      BY <1>2 DEF SweepInitialize
  <2>2. t[1] \in Hires
      BY <1>0 DEF Requests
  <2> QED
      BY <1>0, <1>2, <2>1, <2>2 DEF SweepInitialize
<1>3. CASE SweepNotice(w)
  <2>1. req[w].hire \in Hires
      BY <1>0, <1>3 DEF SweepNotice, AtAwait, Sense
  <2> QED
      BY <1>0, <1>3, <2>1 DEF SweepNotice, Intents, Actions
<1>4. CASE SweepEscalate(w)
  <2>1. \A t \in req[w].todo : <<"escalate", name[t[1]]>> \in Intents
      BY <1>0 DEF Requests, Intents, Actions
  <2> QED
      BY <1>0, <1>4, <2>1 DEF SweepEscalate
<1> QED
    BY <1>1, <1>2, <1>3, <1>4, OthersLeaveProbation

LEMMA CoreHolds == CoreInv /\ [Next]_vars => CoreInv'
<1> SUFFICES ASSUME CoreInv, [Next]_vars PROVE CoreInv'
    OBVIOUS
<1>1. CASE UNCHANGED vars
    BY <1>1 DEF vars, reviewing, probating, meeting, growing, CoreInv, TypeOK, Sense
<1>2. CASE Elapse
  <2>1. /\ UNCHANGED <<name, notices, noticed, reviewing, meeting, growing, req, workload, crossed>>
        /\ copies' \in [Hires -> Nat] /\ opened' \subseteq Hires
        /\ tenure' \in [Hires -> {"early", "day 60", "day 80"}]
        /\ probation' \in [Hires -> {"none", "open", "completed"}]
    <3>0. PICK h \in Hires : TimePasses(h) \/ CompleteProbation(h) \/ OpenProbation(h)
        BY <1>2 DEF Elapse
    <3>1. CASE TimePasses(h) \/ CompleteProbation(h)
        BY <3>1 DEF TimePasses, CompleteProbation, CoreInv, TypeOK
    <3>2. CASE OpenProbation(h)
      <4>1. copies \in [Hires -> Nat] /\ copies' = [copies EXCEPT ![h] = copies[h] + 1]
          BY <3>2 DEF OpenProbation, CoreInv, TypeOK
      <4>2. copies' \in [Hires -> Nat]
          BY <4>1
      <4> QED
          BY <3>2, <4>2 DEF OpenProbation, CoreInv, TypeOK
    <3> QED
        BY <3>0, <3>1, <3>2
  <2> QED
      BY <2>1 DEF CoreInv, TypeOK, Sense, reviewing, meeting, growing
<1>3. ASSUME NEW w \in Workers, Arrive(w) \/ Handle(w) \/ Die(w)
      PROVE  CoreInv'
  <2>1. \A v \in Workers : Sense(v)'
      BY <1>3, RequestMoves DEF CoreInv, Sense
  <2>2. tenure \in [Hires -> {"early", "day 60", "day 80"}] /\ name \in [Hires -> Names]
      BY DEF CoreInv, TypeOK
  <2> QED
      BY <1>3, <2>1, <2>2, RequestMoves, ReviewMoves, AgendaTyped, GrowthTyped, ProbationTyped DEF CoreInv, TypeOK
<1> QED
    BY <1>1, <1>2, <1>3 DEF Next

(* The types of the review, the probation, the agenda and the requests hold *)
(* in every behaviour.                                                      *)
THEOREM TypesHold == Spec => []TypeOK
<1>1. CoreInv => TypeOK
    BY DEF CoreInv
<1> QED
    BY <1>1, CoreStarts, CoreHolds, PTL DEF Spec

(* No employee hands in a self-evaluation after having read what the        *)
(* manager wrote: it shows at the end of the flow, which no step leaves,    *)
(* and a self-evaluation is taken in its own state only.                    *)
THEOREM SelfIsIndependent == Spec => IndependentSelf
<1> DEFINE Step == review'.selfSubmitted /\ ~review.selfSubmitted => ~sawManager
<1>1. Init => ReviewInv
    BY DEF Init, ReviewInv
<1>2. CoreInv /\ ReviewInv /\ [Next]_vars => ReviewInv' /\ [Step]_vars
  <2> SUFFICES ASSUME CoreInv, ReviewInv, [Next]_vars PROVE ReviewInv' /\ (UNCHANGED vars \/ Step)
      OBVIOUS
  <2>1. CASE UNCHANGED reviewing
      BY <2>1 DEF ReviewInv, reviewing
  <2>2. ASSUME NEW w \in Workers, Arrive(w) \/ Handle(w) \/ Die(w)
        PROVE  ReviewInv' /\ Step
      BY <2>2, ReviewMoves DEF ReviewInv
  <2> QED
      BY <2>1, <2>2 DEF Next, Elapse, TimePasses, CompleteProbation, OpenProbation, vars
<1> QED
    BY <1>1, <1>2, CoreStarts, CoreHolds, PTL DEF Spec, IndependentSelf
-------------------------------------------------------------------------------
(* A step that takes no part in a sweep, or only ends one by dying. *)
LEMMA OtherStepsKeepSweeps ==
    ASSUME CoreInv, SweepInv, NEW w \in Workers, Arrive(w) \/ Handle(w) \/ Die(w),
           ~Sweep(w), ~SweepInitialize(w), ~SweepNotice(w), ~SweepEscalate(w)
    PROVE  SweepInv'
<1>1. UNCHANGED <<name, probation, notices, copies, noticed, opened>>
    BY OthersLeaveProbation DEF probating
<1>2. \A v \in Workers : Sense(v) /\ Sense(v)' /\ (v # w => req'[v] = req[v])
    BY RequestMoves DEF CoreInv, Sense
<1>3. CASE Die(w)
  <2>1. req'[w] = Idle /\ "died" \in crossed' /\ ("sweeps" \in crossed => "sweeps" \in crossed')
      BY <1>3, AnswerTyped DEF Die, Cross, CoreInv, TypeOK
  <2>2. \A v \in Workers : req'[v].at \in Sweepers => req'[v] = req[v]
      BY <1>2, <2>1, IdleTyped DEF Sweepers
  <2>3. \A v \in Workers : req'[v] = req[v] \/ req'[v].todo = {}
      BY <1>2, <2>1, IdleTyped
  <2>4. AnnouncedIsNoticed'
      BY <1>1 DEF SweepInv, AnnouncedIsNoticed
  <2>5. SeenIsPosted'
      BY <1>1, <2>2 DEF SweepInv, SeenIsPosted
  <2>6. ASSUME "sweeps" \notin crossed
        PROVE  OneSweep' /\ OneCopy' /\ ToOpen' /\ Heard'
    <3>1. OneSweep'
        BY <2>2, <2>6 DEF SweepInv, OneSweep
    <3>2. OneCopy'
        BY <1>1, <2>6 DEF SweepInv, OneCopy
    <3>3. ToOpen'
        BY <1>1, <2>3, <2>6 DEF SweepInv, ToOpen
    <3>4. Heard'
        BY <2>1 DEF Heard
    <3> QED
        BY <3>1, <3>2, <3>3, <3>4
  <2> QED
      BY <2>1, <2>4, <2>5, <2>6 DEF SweepInv
<1>4. CASE ~Die(w)
  <2>1. UNCHANGED crossed /\ req[w].at \notin Sweepers /\ req'[w].at \notin Sweepers
      BY <1>4, OthersLeaveProbation, RequestMoves
  <2>2. \A v \in Workers : req'[v] = req[v] \/ (req[v].at \notin Sweepers /\ req'[v].at \notin Sweepers)
      BY <1>2, <2>1
  <2>3. \A v \in Workers : req'[v].todo = req[v].todo
      BY <1>2, <2>2 DEF Sense
  <2>4. \A h \in Hires : Sweeping(h)' <=> Sweeping(h)
      BY <2>3 DEF Sweeping
  <2>5. AnnouncedIsNoticed' /\ SeenIsPosted'
      BY <1>1, <2>2 DEF SweepInv, AnnouncedIsNoticed, SeenIsPosted
  <2>6. ASSUME "sweeps" \notin crossed
        PROVE  OneSweep' /\ OneCopy' /\ ToOpen' /\ Heard'
    <3>1. OneSweep'
        BY <2>2, <2>6 DEF SweepInv, OneSweep
    <3>2. OneCopy'
        BY <1>1, <2>6 DEF SweepInv, OneCopy
    <3>3. ToOpen'
      <4>1. \A v \in Workers : req'[v] = req[v] \/ req'[v].todo = {}
          BY <1>2, <2>2 DEF Sense
      <4> QED
          BY <1>1, <2>6, <4>1 DEF SweepInv, ToOpen
    <3>4. Heard'
        BY <1>1, <2>1, <2>4, <2>6 DEF SweepInv, Heard, Namesake
    <3> QED
        BY <3>1, <3>2, <3>3, <3>4
  <2> QED
      BY <2>1, <2>5, <2>6 DEF SweepInv
<1> QED
    BY <1>3, <1>4

LEMMA SweepStarts ==
    ASSUME CoreInv, SweepInv, NEW w \in Workers, Sweep(w)
    PROVE  SweepInv'
<1>1. UNCHANGED <<name, probation, notices, copies, noticed, opened>>
    BY DEF Sweep, probating
<1>2. /\ \A v \in Workers \ {w} : req'[v] = req[v]
      /\ req'[w].at = "sweep" /\ req'[w].seen = notices
      /\ req'[w].todo = {t \in Hires \X Actions : t[2] \in probationAction(t[1])}
    BY SweepTyped DEF CoreInv
<1>3. crossed' = crossed \union {x \in {"sweeps"} : Others(w, {"sweep", "notice"})}
    BY DEF Sweep, Cross
<1>4. req[w].at = "idle" /\ req[w].todo = {}
    BY DEF Sweep, AtAwait, CoreInv, Sense, Sweepers
<1>5. AnnouncedIsNoticed' /\ SeenIsPosted'
    BY <1>1, <1>2 DEF SweepInv, AnnouncedIsNoticed, SeenIsPosted
<1>6. ASSUME "sweeps" \notin crossed'
      PROVE  "sweeps" \notin crossed /\ OneSweep' /\ OneCopy' /\ ToOpen' /\ Heard'
  <2>0. "sweeps" \notin crossed /\ ~Others(w, {"sweep", "notice"})
      BY <1>3, <1>6
  <2>1. OneSweep'
      BY <1>2, <2>0 DEF OneSweep, Others, Sweepers
  <2>2. OneCopy'
      BY <1>1, <2>0 DEF SweepInv, OneCopy
  <2>3. \A h \in Hires : "initialize" \in probationAction(h) => probation[h] = "none"
      BY DEF probationAction
  <2>4. ToOpen'
    <3> SUFFICES ASSUME NEW v \in Workers, NEW h \in Hires \ opened, <<h, "initialize">> \in req'[v].todo
                 PROVE  probation[h] = "none" \/ (req'[v].at = "notice" /\ req'[v].hire = h)
        BY <1>1 DEF ToOpen
    <3>1. CASE v = w
        BY <1>2, <2>3, <3>1
    <3>2. CASE v # w
        BY <1>2, <2>0, <3>2 DEF SweepInv, ToOpen
    <3> QED
        BY <3>1, <3>2
  <2>5. \A h \in Hires : Sweeping(h) => Sweeping(h)'
      BY <1>2, <1>4 DEF Sweeping
  <2>6. Heard'
      BY <1>1, <1>3, <2>0, <2>5 DEF SweepInv, Heard, Namesake
  <2> QED
      BY <2>0, <2>1, <2>2, <2>4, <2>6
<1> QED
    BY <1>5, <1>6 DEF SweepInv

LEMMA InitializeKeepsSweeps ==
    ASSUME CoreInv, SweepInv, NEW w \in Workers, SweepInitialize(w)
    PROVE  SweepInv'
<1>0. /\ req \in [Workers -> Requests] /\ req[w] \in Requests /\ req[w].at = "sweep"
      /\ probation \in [Hires -> {"none", "open", "completed"}] /\ copies \in [Hires -> Nat]
      /\ \A v \in Workers : Sense(v)
    BY DEF CoreInv, TypeOK, SweepInitialize, AtAwait
<1>1. PICK t \in req[w].todo :
            /\ t[2] = "initialize"
            /\ probation' = [probation EXCEPT ![t[1]] = "open"]
            /\ copies' = [copies EXCEPT ![t[1]] = @ + 1]
            /\ req' = [req EXCEPT ![w].at = "notice", ![w].hire = t[1]]
    BY DEF SweepInitialize
<1>2. PICK h \in Hires : t[1] = h /\ t = <<h, "initialize">>
    BY <1>0, <1>1 DEF Requests
<1>3. /\ probation'[h] = "open" /\ copies'[h] = copies[h] + 1
      /\ \A g \in Hires \ {h} : probation'[g] = probation[g] /\ copies'[g] = copies[g]
    BY <1>0, <1>1, <1>2
<1>4. /\ \A v \in Workers \ {w} : req'[v] = req[v]
      /\ req'[w].at = "notice" /\ req'[w].hire = h
      /\ req'[w].todo = req[w].todo /\ req'[w].seen = req[w].seen
    BY <1>0, <1>1, <1>2, NoticeTyped
<1>5. UNCHANGED <<name, notices, noticed, opened, crossed>>
    BY DEF SweepInitialize
<1>6. \A v \in Workers : req'[v].todo = req[v].todo /\ req'[v].seen = req[v].seen
                         /\ (req'[v].at \in Sweepers <=> req[v].at \in Sweepers)
    BY <1>0, <1>4 DEF Sweepers
<1>7. AnnouncedIsNoticed' /\ SeenIsPosted'
    BY <1>5, <1>6 DEF SweepInv, AnnouncedIsNoticed, SeenIsPosted
<1>8. ASSUME "sweeps" \notin crossed
      PROVE  OneSweep' /\ OneCopy' /\ ToOpen' /\ Heard'
  <2>1. OneSweep'
      BY <1>6, <1>8 DEF SweepInv, OneSweep
  <2>2. h \notin opened => probation[h] = "none"
      BY <1>0, <1>1, <1>2, <1>8 DEF SweepInv, ToOpen
  <2>3. OneCopy'
      BY <1>3, <1>5, <1>8, <2>2 DEF SweepInv, OneCopy
  <2>4. ToOpen'
    <3> SUFFICES ASSUME NEW v \in Workers, NEW g \in Hires \ opened, <<g, "initialize">> \in req'[v].todo
                 PROVE  probation'[g] = "none" \/ (req'[v].at = "notice" /\ req'[v].hire = g)
        BY <1>5 DEF ToOpen
    <3>1. v = w
        BY <1>0, <1>6, <1>8 DEF SweepInv, OneSweep, Sense, Sweepers
    <3>2. CASE g = h
        BY <1>4, <3>1, <3>2
    <3>3. CASE g # h
        BY <1>0, <1>3, <1>6, <1>8, <3>1, <3>3 DEF SweepInv, ToOpen
    <3> QED
        BY <3>2, <3>3
  <2>5. Sweeping(h)' /\ \A g \in Hires : Sweeping(g)' <=> Sweeping(g)
      BY <1>1, <1>2, <1>6 DEF Sweeping
  <2>6. Heard'
      BY <1>3, <1>5, <1>8, <2>5 DEF SweepInv, Heard, Namesake
  <2> QED
      BY <2>1, <2>3, <2>4, <2>6
<1> QED
    BY <1>5, <1>7, <1>8 DEF SweepInv

(* A sweep that goes on to its next item, or ends. *)
LEMMA DoneKeepsSweeps ==
    ASSUME CoreInv, SweepInv, NEW w \in Workers, NEW t, Done(w, t), req[w].at \in Sweepers,
           UNCHANGED <<name, probation, copies, opened, crossed>>,
           notices \subseteq notices', noticed \subseteq noticed',
           AnnouncedIsNoticed',
           \/ req[w].at = "sweep" /\ t[2] # "initialize"
           \/ /\ t = <<req[w].hire, "initialize">>
              /\ (~Namesake(req[w].hire) => req[w].hire \in noticed')
    PROVE  SweepInv'
<1>0. /\ req \in [Workers -> Requests] /\ req[w] \in Requests
      /\ \A v \in Workers : Sense(v)
    BY DEF CoreInv, TypeOK
<1>1. /\ \A v \in Workers \ {w} : req'[v] = req[v]
      /\ req'[w].todo = req[w].todo \ {t}
      /\ \/ req'[w].at = "idle" /\ req'[w].todo = {}
         \/ req'[w].at = "sweep" /\ req'[w].seen = req[w].seen
    BY <1>0, DoneTyped
<1>2. SeenIsPosted'
  <2> SUFFICES ASSUME NEW v \in Workers, req'[v].at \in Sweepers
               PROVE  req'[v].seen \subseteq notices'
      BY DEF SeenIsPosted
  <2>1. req[v].at \in Sweepers /\ req'[v].seen = req[v].seen
      BY <1>1 DEF Sweepers
  <2> QED
      BY <2>1 DEF SweepInv, SeenIsPosted
<1>3. ASSUME "sweeps" \notin crossed
      PROVE  OneSweep' /\ OneCopy' /\ ToOpen' /\ Heard'
  <2>1. OneSweep'
    <3>1. \A v \in Workers : req'[v].at \in Sweepers => req[v].at \in Sweepers
        BY <1>1
    <3> QED
        BY <1>3, <3>1 DEF SweepInv, OneSweep
  <2>2. OneCopy'
      BY <1>3 DEF SweepInv, OneCopy
  <2>3. ToOpen'
    <3> SUFFICES ASSUME NEW v \in Workers, NEW g \in Hires \ opened, <<g, "initialize">> \in req'[v].todo
                 PROVE  probation[g] = "none" \/ (req'[v].at = "notice" /\ req'[v].hire = g)
        BY DEF ToOpen
    <3>1. CASE v # w
        BY <1>1, <1>3, <3>1 DEF SweepInv, ToOpen
    <3>2. CASE v = w
      <4>1. <<g, "initialize">> \in req[w].todo /\ <<g, "initialize">> # t
          BY <1>1, <3>2
      <4>2. probation[g] = "none" \/ (req[w].at = "notice" /\ req[w].hire = g)
          BY <1>3, <4>1 DEF SweepInv, ToOpen
      <4> QED
          BY <4>1, <4>2
    <3> QED
        BY <3>1, <3>2
  <2>4. ASSUME NEW h \in Hires \ opened, probation[h] # "none", ~Sweeping(h)', ~Namesake(h), "died" \notin crossed
        PROVE  h \in noticed'
    <3>1. CASE Sweeping(h)
      <4>1. PICK v \in Workers : <<h, "initialize">> \in req[v].todo
          BY <3>1 DEF Sweeping
      <4>2. v = w /\ t = <<h, "initialize">>
          BY <1>1, <2>4, <4>1 DEF Sweeping
      <4> QED
          BY <2>4, <4>2
    <3>2. CASE ~Sweeping(h)
        BY <1>3, <2>4, <3>2 DEF SweepInv, Heard
    <3> QED
        BY <3>1, <3>2
  <2>5. Heard'
      BY <2>4 DEF Heard, Namesake
  <2> QED
      BY <2>1, <2>2, <2>3, <2>5
<1> QED
    BY <1>2, <1>3 DEF SweepInv

LEMMA NoticeKeepsSweeps ==
    ASSUME CoreInv, SweepInv, NEW w \in Workers, SweepNotice(w)
    PROVE  SweepInv'
<1>0. req[w].at = "notice" /\ req[w].hire \in Hires /\ name \in [Hires -> Names] /\ noticed \subseteq Hires
    BY DEF SweepNotice, AtAwait, CoreInv, TypeOK, Sense
<1>1. UNCHANGED <<name, probation, copies, opened, crossed>> /\ Done(w, <<req[w].hire, "initialize">>)
    BY DEF SweepNotice
<1>2. CASE Announced(w, "initialize", req[w].hire)
  <2>1. UNCHANGED <<notices, noticed>>
      BY <1>2 DEF SweepNotice
  <2>2. <<"initialize", name[req[w].hire]>> \in notices
      BY <1>0, <1>2 DEF Announced, SweepInv, SeenIsPosted, Sweepers
  <2>3. \E h \in noticed : name[h] = name[req[w].hire]
      BY <1>0, <2>2 DEF SweepInv, AnnouncedIsNoticed
  <2>4. ~Namesake(req[w].hire) => req[w].hire \in noticed
      BY <1>0, <2>3 DEF Namesake
  <2>5. AnnouncedIsNoticed'
      BY <1>1, <2>1 DEF SweepInv, AnnouncedIsNoticed
  <2> QED
      BY <1>0, <1>1, <2>1, <2>4, <2>5, DoneKeepsSweeps DEF Sweepers
<1>3. CASE ~Announced(w, "initialize", req[w].hire)
  <2>1. /\ notices' = notices \union {<<"initialize", name[req[w].hire]>>}
        /\ noticed' = noticed \union {req[w].hire}
      BY <1>3 DEF SweepNotice
  <2>2. AnnouncedIsNoticed'
      BY <1>0, <1>1, <2>1 DEF SweepInv, AnnouncedIsNoticed
  <2> QED
      BY <1>0, <1>1, <2>1, <2>2, DoneKeepsSweeps DEF Sweepers
<1> QED
    BY <1>2, <1>3

LEMMA EscalateKeepsSweeps ==
    ASSUME CoreInv, SweepInv, NEW w \in Workers, SweepEscalate(w)
    PROVE  SweepInv'
<1>1. PICK t \in req[w].todo :
            /\ t[2] = "escalate"
            /\ notices' = IF Announced(w, "escalate", t[1]) THEN notices
                          ELSE notices \union {<<"escalate", name[t[1]]>>}
            /\ Done(w, t)
    BY DEF SweepEscalate
<1>2. UNCHANGED <<name, probation, copies, noticed, opened, crossed>> /\ req[w].at = "sweep"
    BY DEF SweepEscalate, AtAwait
<1>3. notices \subseteq notices' /\ \A n \in Names : <<"initialize", n>> \in notices' => <<"initialize", n>> \in notices
    BY <1>1
<1>4. AnnouncedIsNoticed'
    BY <1>2, <1>3 DEF SweepInv, AnnouncedIsNoticed
<1> QED
    BY <1>1, <1>2, <1>3, <1>4, DoneKeepsSweeps DEF Sweepers

(* A hire whose probationary review HR did not open by hand gets one, and   *)
(* the manager hears of it, unless sweeps crossed, one died, or a namesake  *)
(* was announced before.                                                    *)
THEOREM ProbationIsAnnounced == Spec => []ProbationAnnounced
<1>1. Init => SweepInv
  <2> SUFFICES ASSUME Init PROVE SweepInv
      OBVIOUS
  <2>1. \A w \in Workers : req[w] = Idle
      BY DEF Init
  <2>2. notices = {} /\ \A h \in Hires : probation[h] = "none" /\ copies[h] = 0
      BY DEF Init
  <2>3. \A w \in Workers : req[w].at \notin Sweepers /\ req[w].todo = {}
      BY <2>1, IdleTyped DEF Sweepers
  <2> QED
      BY <2>2, <2>3 DEF SweepInv, AnnouncedIsNoticed, SeenIsPosted, OneSweep, OneCopy, ToOpen, Heard
<1>2. CoreInv /\ SweepInv /\ [Next]_vars => SweepInv'
  <2> SUFFICES ASSUME CoreInv, SweepInv, [Next]_vars PROVE SweepInv'
      OBVIOUS
  <2>1. CASE UNCHANGED vars
      BY <2>1 DEF vars, probating, SweepInv, AnnouncedIsNoticed, SeenIsPosted, OneSweep, OneCopy, ToOpen, Heard,
           Sweeping, Namesake
  <2>2. CASE Elapse
    <3>1. UNCHANGED <<name, notices, noticed, req, crossed>> /\ opened \subseteq opened'
        BY <2>2 DEF Elapse, TimePasses, CompleteProbation, OpenProbation
    <3>2. \A h \in Hires \ opened' : copies'[h] = copies[h] /\ (probation'[h] = "none" <=> probation[h] = "none")
        BY <2>2 DEF Elapse, TimePasses, CompleteProbation, OpenProbation, CoreInv, TypeOK
    <3>3. AnnouncedIsNoticed' /\ SeenIsPosted'
        BY <3>1 DEF SweepInv, AnnouncedIsNoticed, SeenIsPosted
    <3>4. "sweeps" \notin crossed => OneSweep' /\ OneCopy' /\ ToOpen' /\ Heard'
        BY <3>1, <3>2 DEF SweepInv, OneSweep, OneCopy, ToOpen, Heard, Sweeping, Namesake
    <3> QED
        BY <3>1, <3>3, <3>4 DEF SweepInv
  <2>3. ASSUME NEW w \in Workers, Arrive(w) \/ Handle(w) \/ Die(w)
        PROVE  SweepInv'
      BY <2>3, OtherStepsKeepSweeps, SweepStarts, InitializeKeepsSweeps, NoticeKeepsSweeps, EscalateKeepsSweeps
  <2> QED
      BY <2>1, <2>2, <2>3 DEF Next
<1>3. CoreInv /\ SweepInv => ProbationAnnounced
  <2> SUFFICES ASSUME SweepInv, "sweeps" \notin crossed PROVE OneCopy /\ Heard => ProbationAnnounced
      BY DEF SweepInv, ProbationAnnounced
  <2>1. OneCopy => \A h \in Hires \ opened : copies[h] <= 1
      BY DEF OneCopy
  <2> QED
      BY <2>1 DEF Heard, ProbationAnnounced
<1> QED
    BY <1>1, <1>2, <1>3, CoreStarts, CoreHolds, PTL DEF Spec
===============================================================================
