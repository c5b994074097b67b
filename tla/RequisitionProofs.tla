-------------------------- MODULE RequisitionProofs --------------------------
(***************************************************************************)
(* What the requisition's approval chain guarantees whatever the number of *)
(* requests, approvers, editions and applications.                         *)
(***************************************************************************)
EXTENDS Requisition, TLAPS

(* A step is taken by one request: an arrival, an await or a death.        *)
LEMMA StepBy ==
    ASSUME Next
    PROVE  \E w \in Workers : Arrive(w) \/ Handle(w) \/ Die(w)
BY DEF Next
-------------------------------------------------------------------------------
(* Types *)

LEMMA InitTyped == Init => TypeOK
<1> SUFFICES ASSUME Init PROVE TypeOK
    OBVIOUS
<1>1. approvals \subseteq Approvals
    BY RequisitionAssumption DEF Init, Undecided, Approvals, Decision
<1>2. req \in [Workers -> Requests]
    BY DEF Init, Idle, Requests, Awaits
<1> QED
    BY <1>1, <1>2 DEF Init, TypeOK, ReqStatus

(* Going to another await, or answering, keeps the requests typed. *)
LEMMA GotoTyped ==
    ASSUME TypeOK, NEW w \in Workers, NEW label \in Awaits, Goto(w, label)
    PROVE  req' \in [Workers -> Requests]
BY DEF TypeOK, Goto, Requests

LEMMA AnswerTyped ==
    ASSUME TypeOK, NEW w \in Workers, Answer(w)
    PROVE  req' \in [Workers -> Requests]
BY DEF TypeOK, Answer, Requests, Idle, Awaits

(* An arrival changes only its request, but for an application's number. *)
LEMMA ArriveTyped ==
    ASSUME TypeOK, NEW w \in Workers, Arrive(w)
    PROVE  TypeOK'
<1>1. req' \in [Workers -> Requests]
  <2>1. CASE UpdateRequisition(w)
    <3>1. PICK wasDraft \in BOOLEAN :
            req' = [req EXCEPT ![w].at = "edit", ![w].wasDraft = wasDraft]
        BY <2>1, Zenon DEF UpdateRequisition
    <3> QED
        BY <3>1 DEF TypeOK, Requests, Awaits
  <2>2. CASE SubmitForApproval(w)
      BY <2>2, GotoTyped DEF SubmitForApproval, Awaits
  <2>3. CASE Decide(w)
    <3>1. PICK a \in approvals, decision \in {"Approved", "Rejected"} :
            req' = [req EXCEPT ![w].at = "decide",
                               ![w].mine = {[a EXCEPT !.decision = decision]}]
        BY <2>3 DEF Decide
    <3>2. [a EXCEPT !.decision = decision] \in Approvals
        BY DEF TypeOK, Approvals, Decision
    <3> QED
        BY <3>1, <3>2 DEF TypeOK, Requests, Awaits
  <2>4. CASE UpdatePublishing(w)
      BY <2>4, GotoTyped DEF UpdatePublishing, Awaits
  <2>5. CASE Publish(w)
      BY <2>5, GotoTyped DEF Publish, Awaits
  <2>6. CASE DeleteRequisition(w)
      BY <2>6, GotoTyped DEF DeleteRequisition, Awaits
  <2>7. CASE Apply(w)
      BY <2>7 DEF TypeOK, Apply, Requests, Awaits
  <2> QED
      BY <2>1, <2>2, <2>3, <2>4, <2>5, <2>6, <2>7 DEF Arrive
<1>2. UNCHANGED <<posting, list, applicants, candidates, orphans, unanimous>>
    BY DEF Arrive, UpdateRequisition, SubmitForApproval, Decide, UpdatePublishing,
           Publish, DeleteRequisition, Apply, pipeline
<1>3. nextCandidate' = nextCandidate \/ nextCandidate' = nextCandidate + 1
    BY DEF Arrive, UpdateRequisition, SubmitForApproval, Decide, UpdatePublishing,
           Publish, DeleteRequisition, Apply, pipeline
<1>4. solo' \in BOOLEAN /\ died' = died
    BY DEF Arrive
<1> QED
    BY <1>1, <1>2, <1>3, <1>4 DEF TypeOK, posting, list

LEMMA UndecidedTyped ==
    ASSUME NEW approvers \in ApproverLists, NEW ed \in Nat
    PROVE  Undecided(approvers, ed) \subseteq Approvals
BY RequisitionAssumption DEF Undecided, Approvals, Decision

LEMMA HandleTyped ==
    ASSUME TypeOK, NEW w \in Workers, Handle(w)
    PROVE  TypeOK'
<1> USE DEF posting, list, pipeline
<1>0. solo' = solo /\ died' = died
    BY DEF Handle
<1>1. CASE UpdateWrite(w)
  <2>1. req' \in [Workers -> Requests]
      BY <1>1, AnswerTyped DEF UpdateWrite
  <2>2. edition' \in Nat
      BY <1>1 DEF UpdateWrite, TypeOK
  <2>3. approvals' \subseteq Approvals
    <3>1. CASE approvals' = approvals
        BY <3>1 DEF TypeOK
    <3>2. CASE \E approvers \in ApproverLists : approvals' = Undecided(approvers, edition + 1)
      <4>1. edition + 1 \in Nat
          BY DEF TypeOK
      <4> QED
          BY <3>2, <4>1, UndecidedTyped
    <3> QED
        BY <1>1, <3>1, <3>2 DEF UpdateWrite
  <2>4. band' \in BOOLEAN /\ jd' \in BOOLEAN
      BY <1>1 DEF UpdateWrite, TypeOK
  <2> QED
      BY <1>0, <1>1, <2>1, <2>2, <2>3, <2>4 DEF UpdateWrite, TypeOK
<1>2. CASE SubmitWrite(w)
  <2>1. approvals' \subseteq Approvals
    <3>1. \A a \in Approvals : [a EXCEPT !.decision = "Pending"] \in Approvals
        BY DEF Approvals, Decision
    <3>2. \/ approvals' = approvals
          \/ approvals' = {[a EXCEPT !.decision = "Pending"] : a \in approvals}
        BY <1>2 DEF SubmitWrite
    <3>3. CASE approvals' = {[a EXCEPT !.decision = "Pending"] : a \in approvals}
        BY <3>1, <3>3 DEF TypeOK
    <3> QED
        BY <3>2, <3>3 DEF TypeOK
  <2> QED
      BY <1>0, <1>2, <2>1, AnswerTyped DEF SubmitWrite, TypeOK, ReqStatus
<1>3. CASE DecideWrite(w)
  <2>1. PICK mine \in req[w].mine :
          IF \E a \in approvals : SameRow(a, mine)
            THEN /\ approvals' = {a \in approvals : ~SameRow(a, mine)} \union {mine}
                 /\ Goto(w, "decide.settle")
            ELSE UNCHANGED approvals /\ Answer(w)
      BY <1>3 DEF DecideWrite
  <2>2. mine \in Approvals
      BY DEF TypeOK, Requests
  <2>3. approvals' \subseteq Approvals
      BY <2>1, <2>2 DEF TypeOK
  <2>4. req' \in [Workers -> Requests]
      BY <2>1, GotoTyped, AnswerTyped DEF Awaits
  <2>5. unanimous' \in BOOLEAN
      BY <1>3 DEF DecideWrite, TypeOK
  <2> QED
      BY <1>0, <1>3, <2>3, <2>4, <2>5 DEF DecideWrite, TypeOK
<1>4. CASE DecideSettle(w)
  <2>1. settleApprovals(approvals) \in {"approved", "rejected", "pending"}
      BY DEF settleApprovals
  <2>2. req' \in [Workers -> Requests]
      BY <1>4, <2>1, GotoTyped, AnswerTyped DEF DecideSettle, Awaits
  <2> QED
      BY <1>0, <1>4, <2>2 DEF DecideSettle, TypeOK
<1>5. CASE DecideApprove(w)
    BY <1>0, <1>5, AnswerTyped DEF DecideApprove, SetStatus, TypeOK, ReqStatus
<1>6. CASE DecideReject(w)
    BY <1>0, <1>6, AnswerTyped DEF DecideReject, SetStatus, TypeOK, ReqStatus
<1>7. CASE PublishingWrite(w)
    BY <1>0, <1>7, AnswerTyped DEF PublishingWrite, TypeOK
<1>8. CASE PublishWrite(w)
    BY <1>0, <1>8, AnswerTyped DEF PublishWrite, SetStatus, TypeOK, ReqStatus
<1>9. CASE DeleteCandidates(w)
  <2>1. req' \in [Workers -> Requests]
      BY <1>9 DEF DeleteCandidates, TypeOK, Requests, Awaits
  <2> QED
      BY <1>0, <1>9, <2>1 DEF DeleteCandidates, TypeOK
<1>10. CASE DeleteCommit(w)
  <2>1. applicants' = applicants \/ applicants' = 0
      BY <1>10 DEF DeleteCommit
  <2>2. /\ approvals' \subseteq approvals
        /\ candidates' \subseteq candidates
        /\ orphans' \subseteq orphans \union candidates
        /\ status' = status \/ status' = "deleted"
      BY <1>10 DEF DeleteCommit
  <2> QED
      BY <1>0, <1>10, <2>1, <2>2, AnswerTyped DEF DeleteCommit, TypeOK
<1>11. CASE ApplyCreate(w)
  <2>1. req' \in [Workers -> Requests]
      BY <1>11, GotoTyped, AnswerTyped DEF ApplyCreate, Awaits
  <2>2. candidates' \subseteq Nat
    <3>1. req[w].candidate \in Nat
        BY DEF TypeOK, Requests
    <3>2. candidates' \subseteq candidates \union {req[w].candidate}
        BY <1>11 DEF ApplyCreate
    <3> QED
        BY <3>1, <3>2 DEF TypeOK
  <2> QED
      BY <1>0, <1>11, <2>1, <2>2 DEF ApplyCreate, TypeOK
<1>12. CASE ApplyCount(w)
  <2>1. applicants' \in Nat
      BY <1>12 DEF ApplyCount, TypeOK
  <2> QED
      BY <1>0, <1>12, <2>1, AnswerTyped DEF ApplyCount, TypeOK
<1> QED
    BY <1>1, <1>2, <1>3, <1>4, <1>5, <1>6, <1>7, <1>8, <1>9, <1>10, <1>11, <1>12 DEF Handle

LEMMA DieTyped ==
    ASSUME TypeOK, NEW w \in Workers, Die(w)
    PROVE  TypeOK'
BY AnswerTyped DEF Die, TypeOK, posting, list, pipeline

LEMMA StutterTyped == TypeOK /\ UNCHANGED vars => TypeOK'
BY DEF TypeOK, vars, posting, list, pipeline

(* Every reachable state of a requisition is well typed: in particular no  *)
(* handler of recruitment.repository.ts stores a status or a decision that *)
(* the database's enums lack.                                              *)
THEOREM TypeCorrect == Spec => []TypeOK
<1>1. TypeOK /\ [Next]_vars => TypeOK'
    BY StepBy, ArriveTyped, HandleTyped, DieTyped, StutterTyped
<1> QED
    BY InitTyped, <1>1, PTL DEF Spec
-------------------------------------------------------------------------------
(***************************************************************************)
(* EverUnanimous.  The status is written awaits after the approvals were   *)
(* read, so the invariant also speaks of the requests that are about to    *)
(* write it, and of rows that are all approved before anyone settles them. *)
(***************************************************************************)
ApprovalInv ==
    /\ EverUnanimous
    /\ AllApproved(approvals) => unanimous
    /\ \A w \in Workers : req[w].at \in {"decide.approve", "publish"} => unanimous

LEMMA InitApproved == Init => ApprovalInv
BY DEF Init, ApprovalInv, EverUnanimous, AllApproved, Undecided, Idle

(* Where a request goes next, for a request that is typed. *)
LEMMA GotoAt ==
    ASSUME TypeOK, NEW w \in Workers, NEW label, Goto(w, label)
    PROVE  /\ req'[w].at = label
           /\ req'[w].victims = req[w].victims
           /\ \A v \in Workers \ {w} : req'[v] = req[v]
BY DEF TypeOK, Goto, Requests

LEMMA AnswerAt ==
    ASSUME TypeOK, NEW w \in Workers, Answer(w)
    PROVE  /\ req'[w].at = "idle"
           /\ \A v \in Workers \ {w} : req'[v] = req[v]
BY DEF TypeOK, Answer, Idle

(* Where an arrival stops first, and what its guard saw. *)
LEMMA ArriveAt ==
    ASSUME TypeOK, NEW w \in Workers, Arrive(w)
    PROVE  /\ \A v \in Workers \ {w} : req'[v] = req[v]
           /\ req'[w].at \in {"edit", "submit", "decide", "publishing", "publish",
                              "delete.candidates", "apply.create"}
           /\ req'[w].at = "submit" => status = "Draft"
           /\ req'[w].at = "decide" => status = "Pending Approval"
           /\ req'[w].at = "publish" => status = "Approved"
           /\ UNCHANGED <<status, approvals, candidates, orphans, unanimous>>
<1> USE DEF posting, list, pipeline
<1>1. CASE UpdateRequisition(w)
  <2>1. PICK wasDraft : req' = [req EXCEPT ![w].at = "edit", ![w].wasDraft = wasDraft]
      BY <1>1, Zenon DEF UpdateRequisition
  <2>2. /\ req'[w].at = "edit"
        /\ \A v \in Workers \ {w} : req'[v] = req[v]
      BY <2>1 DEF TypeOK, Requests
  <2>3. UNCHANGED <<status, approvals, candidates, orphans, unanimous>>
      BY <1>1, Zenon DEF UpdateRequisition
  <2> QED
      BY <2>2, <2>3
<1>2. CASE SubmitForApproval(w)
    BY <1>2, GotoAt DEF SubmitForApproval
<1>3. CASE Decide(w)
  <2>1. PICK mine : req' = [req EXCEPT ![w].at = "decide", ![w].mine = mine]
      BY <1>3, Zenon DEF Decide
  <2>2. /\ req'[w].at = "decide"
        /\ \A v \in Workers \ {w} : req'[v] = req[v]
      BY <2>1 DEF TypeOK, Requests
  <2>3. /\ UNCHANGED <<status, approvals, candidates, orphans, unanimous>>
        /\ status = "Pending Approval"
      BY <1>3, Zenon DEF Decide
  <2> QED
      BY <2>2, <2>3
<1>4. CASE UpdatePublishing(w)
  <2>1. /\ req'[w].at = "publishing"
        /\ \A v \in Workers \ {w} : req'[v] = req[v]
      BY <1>4, GotoAt DEF UpdatePublishing
  <2> QED
      BY <1>4, <2>1 DEF UpdatePublishing
<1>5. CASE Publish(w)
  <2>1. /\ req'[w].at = "publish"
        /\ \A v \in Workers \ {w} : req'[v] = req[v]
      BY <1>5, GotoAt DEF Publish
  <2> QED
      BY <1>5, <2>1 DEF Publish
<1>6. CASE DeleteRequisition(w)
  <2>1. /\ req'[w].at = "delete.candidates"
        /\ \A v \in Workers \ {w} : req'[v] = req[v]
      BY <1>6, GotoAt DEF DeleteRequisition
  <2> QED
      BY <1>6, <2>1 DEF DeleteRequisition
<1>7. CASE Apply(w)
    BY <1>7 DEF Apply, TypeOK, Requests
<1> QED
    BY <1>1, <1>2, <1>3, <1>4, <1>5, <1>6, <1>7 DEF Arrive

(* A settling goes where its outcome says. *)
LEMMA SettleNext ==
    ASSUME NEW w \in Workers, DecideSettle(w)
    PROVE  \/ settleApprovals(approvals) = "approved" /\ Goto(w, "decide.approve")
           \/ settleApprovals(approvals) = "rejected" /\ Goto(w, "decide.reject")
           \/ settleApprovals(approvals) = "pending" /\ Answer(w)
<1>1. settleApprovals(approvals) \in {"approved", "rejected", "pending"}
    BY DEF settleApprovals
<1> QED
    BY <1>1 DEF DecideSettle

(* How a handled await moves its request on. *)
LEMMA HandleAt ==
    ASSUME TypeOK, NEW w \in Workers, Handle(w)
    PROVE  /\ ~AtAwait(w, "idle")
           /\ \A v \in Workers \ {w} : req'[v] = req[v]
           /\ req'[w].at \in {"idle", "decide.settle", "decide.approve", "decide.reject",
                              "delete.commit", "apply.count"}
           /\ req'[w].at = "decide.settle" => DecideWrite(w)
           /\ req'[w].at \in {"decide.approve", "decide.reject"} => DecideSettle(w)
           /\ req'[w].at = "delete.commit" => DeleteCandidates(w)
<1>1. CASE UpdateWrite(w)
    BY <1>1, AnswerAt DEF UpdateWrite, AtAwait
<1>2. CASE SubmitWrite(w)
    BY <1>2, AnswerAt DEF SubmitWrite, AtAwait
<1>3. CASE DecideWrite(w)
    BY <1>3, GotoAt, AnswerAt DEF DecideWrite, AtAwait
<1>4. CASE DecideSettle(w)
  <2>1. AtAwait(w, "decide.settle")
      BY <1>4 DEF DecideSettle
  <2>2. CASE Goto(w, "decide.approve")
      BY <1>4, <2>1, <2>2, GotoAt DEF AtAwait
  <2>3. CASE Goto(w, "decide.reject")
      BY <1>4, <2>1, <2>3, GotoAt DEF AtAwait
  <2>4. CASE Answer(w)
      BY <2>1, <2>4, AnswerAt DEF AtAwait
  <2> QED
      BY <1>4, <2>2, <2>3, <2>4, SettleNext
<1>5. CASE DecideApprove(w) \/ DecideReject(w) \/ PublishWrite(w)
    BY <1>5, AnswerAt DEF DecideApprove, DecideReject, PublishWrite, SetStatus, AtAwait
<1>6. CASE PublishingWrite(w)
    BY <1>6, AnswerAt DEF PublishingWrite, AtAwait
<1>7. CASE DeleteCandidates(w)
    BY <1>7 DEF DeleteCandidates, TypeOK, Requests, AtAwait
<1>8. CASE DeleteCommit(w)
    BY <1>8, AnswerAt DEF DeleteCommit, AtAwait
<1>9. CASE ApplyCreate(w)
    BY <1>9, GotoAt, AnswerAt DEF ApplyCreate, AtAwait
<1>10. CASE ApplyCount(w)
    BY <1>10, AnswerAt DEF ApplyCount, AtAwait
<1> QED
    BY <1>1, <1>2, <1>3, <1>4, <1>5, <1>6, <1>7, <1>8, <1>9, <1>10 DEF Handle

LEMMA ArriveApproved ==
    ASSUME TypeOK, ApprovalInv, NEW w \in Workers, Arrive(w)
    PROVE  ApprovalInv'
<1>1. UNCHANGED <<status, approvals, unanimous>>
    BY ArriveAt
<1>2. req'[w].at = "publish" => unanimous
    BY ArriveAt DEF ApprovalInv, EverUnanimous
<1> QED
    BY <1>1, <1>2, ArriveAt DEF ApprovalInv, EverUnanimous, AllApproved

(* A list somebody is asked about anew is not yet approved. *)
LEMMA AskedAnew ==
    ASSUME NEW rows, \A a \in rows : a.decision = "Pending"
    PROVE  ~AllApproved(rows)
BY DEF AllApproved

LEMMA HandleApproved ==
    ASSUME TypeOK, ApprovalInv, NEW w \in Workers, Handle(w)
    PROVE  ApprovalInv'
<1> USE DEF posting, list, pipeline
(* Where the status changes, the request that writes it vouches for it. *)
<1>1. /\ unanimous => unanimous'
      /\ AllApproved(approvals') => unanimous'
  <2>1. CASE UpdateWrite(w)
    <3>1. \/ approvals' = approvals
          \/ \A a \in approvals' : a.decision = "Pending"
        BY <2>1 DEF UpdateWrite, Undecided
    <3> QED
        BY <2>1, <3>1, AskedAnew DEF UpdateWrite, ApprovalInv
  <2>2. CASE SubmitWrite(w)
    <3>1. \A a \in Approvals : [a EXCEPT !.decision = "Pending"].decision = "Pending"
        BY DEF Approvals
    <3>2. \/ approvals' = approvals
          \/ approvals' = {[a EXCEPT !.decision = "Pending"] : a \in approvals}
        BY <2>2 DEF SubmitWrite
    <3>3. CASE approvals' = {[a EXCEPT !.decision = "Pending"] : a \in approvals}
      <4>1. \A a \in approvals' : a.decision = "Pending"
          BY <3>1, <3>3 DEF TypeOK
      <4>2. unanimous' = unanimous
          BY <2>2 DEF SubmitWrite
      <4> QED
          BY <4>1, <4>2, AskedAnew
    <3> QED
        BY <2>2, <3>2, <3>3, Zenon DEF SubmitWrite, ApprovalInv
  <2>3. CASE DecideWrite(w)
      BY <2>3, Zenon DEF DecideWrite
  <2>4. CASE DeleteCommit(w)
    <3>1. (approvals' = approvals \/ approvals' = {}) /\ unanimous' = unanimous
        BY <2>4 DEF DeleteCommit
    <3> QED
        BY <3>1 DEF ApprovalInv, AllApproved
  <2>5. CASE approvals' = approvals /\ unanimous' = unanimous
      BY <2>5 DEF ApprovalInv
  <2> QED
      BY <2>1, <2>2, <2>3, <2>4, <2>5
      DEF Handle, DecideSettle, DecideApprove, DecideReject, SetStatus, PublishingWrite,
          PublishWrite, DeleteCandidates, ApplyCreate, ApplyCount
<1>2. status' \in {"Approved", "Published"} => unanimous
  <2>1. CASE status' = status
      BY <2>1 DEF ApprovalInv, EverUnanimous
  <2>2. CASE DecideApprove(w) \/ PublishWrite(w)
      BY <2>2 DEF DecideApprove, PublishWrite, SetStatus, AtAwait, ApprovalInv
  <2>3. CASE status' \in {"Draft", "Pending Approval", "deleted"}
      BY <2>3
  <2> QED
      BY <2>1, <2>2, <2>3
      DEF Handle, UpdateWrite, SubmitWrite, DecideWrite, DecideSettle, DecideReject, SetStatus,
          PublishingWrite, DeleteCandidates, DeleteCommit, ApplyCreate, ApplyCount
<1>3. req'[w].at \in {"decide.approve", "publish"} => unanimous
  <2>1. SUFFICES ASSUME req'[w].at = "decide.approve" PROVE unanimous
      BY HandleAt
  <2>2. DecideSettle(w)
      BY <2>1, HandleAt
  <2>3. settleApprovals(approvals) = "approved"
    <3>1. CASE Goto(w, "decide.reject")
        BY <2>1, <3>1, GotoAt
    <3>2. CASE Answer(w)
        BY <2>1, <3>2, AnswerAt
    <3> QED
        BY <2>2, <3>1, <3>2, SettleNext
  <2> QED
      BY <2>3 DEF settleApprovals, AllApproved, ApprovalInv
<1>4. \A v \in Workers : req'[v].at \in {"decide.approve", "publish"} => unanimous'
    BY <1>1, <1>3, HandleAt DEF ApprovalInv
<1> QED
    BY <1>1, <1>2, <1>4 DEF ApprovalInv, EverUnanimous, AllApproved

LEMMA DieApproved ==
    ASSUME TypeOK, ApprovalInv, NEW w \in Workers, Die(w)
    PROVE  ApprovalInv'
BY AnswerAt DEF Die, ApprovalInv, EverUnanimous, AllApproved, posting, list, pipeline

LEMMA StutterApproved == ApprovalInv /\ UNCHANGED vars => ApprovalInv'
BY DEF ApprovalInv, EverUnanimous, AllApproved, vars, posting, list, pipeline

(* "A requisition advances only when EVERY named approver has approved"    *)
(* (approval.service.ts), for any number of overlapping requests: however  *)
(* edits, submissions, decisions and publications cross, an approved or    *)
(* published requisition once had every approver of a non-empty list.      *)
THEOREM OnlyUnanimousAdvances == Spec => []EverUnanimous
<1>1. TypeOK /\ ApprovalInv /\ [Next]_vars => ApprovalInv'
    BY StepBy, ArriveApproved, HandleApproved, DieApproved, StutterApproved
<1>2. ApprovalInv => EverUnanimous
    BY DEF ApprovalInv
<1> QED
    BY InitApproved, TypeCorrect, <1>1, <1>2, PTL DEF Spec
-------------------------------------------------------------------------------
(***************************************************************************)
(* What a request may rely on that runs alone: nothing it read goes stale, *)
(* so its guards still hold at each of its later awaits.                   *)
(***************************************************************************)
SoloInv ==
    solo =>
      /\ \A v, w \in Workers : InFlight(v) /\ InFlight(w) => v = w
      /\ \A w \in Workers :
           /\ req[w].at = "submit" => status = "Draft"
           /\ req[w].at \in {"decide", "decide.settle", "decide.approve", "decide.reject"}
                => status = "Pending Approval"
           /\ req[w].at = "publish" => status = "Approved"
           /\ req[w].at = "delete.commit" => candidates \subseteq req[w].victims

LEMMA InitSolo == Init => SoloInv
BY DEF Init, SoloInv, InFlight, AtAwait, Idle

LEMMA ArriveSolo ==
    ASSUME TypeOK, NEW w \in Workers, Arrive(w)
    PROVE  SoloInv'
<1> SUFFICES ASSUME solo'
             PROVE  /\ \A u, v \in Workers : InFlight(u)' /\ InFlight(v)' => u = v
                    /\ \A v \in Workers :
                         /\ req'[v].at = "submit" => status' = "Draft"
                         /\ req'[v].at \in {"decide", "decide.settle", "decide.approve",
                                            "decide.reject"} => status' = "Pending Approval"
                         /\ req'[v].at = "publish" => status' = "Approved"
                         /\ req'[v].at = "delete.commit" => candidates' \subseteq req'[v].victims
    BY DEF SoloInv
<1>1. \A v \in Workers \ {w} : req[v].at = "idle"
    BY DEF Arrive, InFlight, AtAwait
<1>2. \A v \in Workers \ {w} : req'[v].at = "idle"
    BY <1>1, ArriveAt
<1> QED
    BY <1>2, ArriveAt DEF InFlight, AtAwait

LEMMA HandleSolo ==
    ASSUME TypeOK, SoloInv, NEW w \in Workers, Handle(w)
    PROVE  SoloInv'
<1> SUFFICES ASSUME solo
             PROVE  /\ \A u, v \in Workers : InFlight(u)' /\ InFlight(v)' => u = v
                    /\ \A v \in Workers :
                         /\ req'[v].at = "submit" => status' = "Draft"
                         /\ req'[v].at \in {"decide", "decide.settle", "decide.approve",
                                            "decide.reject"} => status' = "Pending Approval"
                         /\ req'[v].at = "publish" => status' = "Approved"
                         /\ req'[v].at = "delete.commit" => candidates' \subseteq req'[v].victims
    BY DEF SoloInv, Handle
<1>1. \A v \in Workers \ {w} : req[v].at = "idle"
    BY HandleAt DEF SoloInv, InFlight, AtAwait
<1>2. \A v \in Workers \ {w} : req'[v].at = "idle"
    BY <1>1, HandleAt
<1>3. req'[w].at \in {"decide.settle", "decide.approve", "decide.reject"}
        => status' = "Pending Approval"
  <2>1. CASE DecideWrite(w)
      BY <2>1 DEF DecideWrite, AtAwait, SoloInv, posting
  <2>2. CASE DecideSettle(w)
      BY <2>2 DEF DecideSettle, AtAwait, SoloInv, posting
  <2> QED
      BY <2>1, <2>2, HandleAt
<1>4. req'[w].at = "delete.commit" => candidates' \subseteq req'[w].victims
  <2>1. SUFFICES ASSUME DeleteCandidates(w) PROVE candidates' \subseteq req'[w].victims
      BY HandleAt
  <2> QED
      BY <2>1 DEF DeleteCandidates, TypeOK, Requests, pipeline
<1> QED
    BY <1>2, <1>3, <1>4, HandleAt DEF InFlight, AtAwait

LEMMA DieSolo == ASSUME NEW w \in Workers, Die(w) PROVE SoloInv'
BY DEF Die, SoloInv

LEMMA StutterSolo == SoloInv /\ UNCHANGED vars => SoloInv'
BY DEF SoloInv, InFlight, AtAwait, vars, posting, list, pipeline

LEMMA SoloAlways == Spec => []SoloInv
<1>1. TypeOK /\ SoloInv /\ [Next]_vars => SoloInv'
    BY StepBy, ArriveSolo, HandleSolo, DieSolo, StutterSolo
<1> QED
    BY InitSolo, TypeCorrect, <1>1, PTL DEF Spec

(* deleteRequisition's promise that ' "delete the role" also clears its    *)
(* pipeline ' holds of a deletion that no application crosses.             *)
THEOREM DeletionClears == Spec => PipelineCleared
<1>1. ASSUME TypeOK, SoloInv, solo, NEW w \in Workers, Handle(w)
      PROVE  orphans' = orphans
  <2>1. CASE DeleteCommit(w)
    <3>1. candidates \subseteq req[w].victims
        BY <1>1, <2>1 DEF DeleteCommit, AtAwait, SoloInv
    <3> QED
        BY <2>1, <3>1 DEF DeleteCommit
  <2> QED
      BY <1>1, <2>1
      DEF Handle, UpdateWrite, SubmitWrite, DecideWrite, DecideSettle, DecideApprove, DecideReject,
          SetStatus, PublishingWrite, PublishWrite, DeleteCandidates, ApplyCreate, ApplyCount,
          pipeline
<1>2. ASSUME TypeOK, NEW w \in Workers, Arrive(w) \/ Die(w)
      PROVE  orphans' = orphans
    BY <1>2, ArriveAt DEF Die, pipeline
<1>3. TypeOK /\ SoloInv /\ [Next]_vars => [solo => orphans' = orphans]_vars
    BY <1>1, <1>2, StepBy
<1> QED
    BY TypeCorrect, SoloAlways, <1>3, PTL DEF Spec, PipelineCleared

(* A published posting leaves the careers page only by its deletion, as    *)
(* long as no other request crosses the one that is running.               *)
THEOREM PostingsStayUp == Spec => PostingStaysUp
<1>1. ASSUME TypeOK, SoloInv, solo, status = "Published", NEW w \in Workers, Handle(w)
      PROVE  status' \in {"Published", "deleted"}
  <2>1. /\ req[w].at # "submit"
        /\ req[w].at # "decide.approve"
        /\ req[w].at # "decide.reject"
      BY <1>1 DEF SoloInv
  <2> QED
      BY <1>1, <2>1
      DEF Handle, UpdateWrite, SubmitWrite, DecideWrite, DecideSettle, DecideApprove, DecideReject,
          SetStatus, PublishingWrite, PublishWrite, DeleteCandidates, DeleteCommit, ApplyCreate,
          ApplyCount, AtAwait, posting
<1>2. ASSUME TypeOK, NEW w \in Workers, Arrive(w) \/ Die(w)
      PROVE  status' = status
    BY <1>2, ArriveAt DEF Die, posting
<1>3. TypeOK /\ SoloInv /\ [Next]_vars
        => [solo /\ status = "Published" => status' \in {"Published", "deleted"}]_vars
    BY <1>1, <1>2, StepBy
<1> QED
    BY TypeCorrect, SoloAlways, <1>3, PTL DEF Spec, PostingStaysUp
-------------------------------------------------------------------------------
(***************************************************************************)
(* Why decisions that cross still settle: a decision that completes or     *)
(* spoils the list is followed by a look at the list, and the list changes *)
(* back to undecided only as a whole.                                      *)
(***************************************************************************)
Settling(w) == req[w].at \in {"decide.settle", "decide.approve", "decide.reject"}

SettleInv ==
    ~died /\ status = "Pending Approval" /\ settleApprovals(approvals) # "pending"
      => \E w \in Workers : Settling(w)

(* A list nobody has decided on is pending, and so is no list.              *)
LEMMA UndecidedIsPending ==
    ASSUME NEW rows, \A a \in rows : a.decision = "Pending"
    PROVE  settleApprovals(rows) = "pending"
BY DEF settleApprovals

(* A new list of approvers has no decision in it. *)
LEMMA UndecidedRows ==
    ASSUME NEW approvers, NEW ed
    PROVE  \A a \in Undecided(approvers, ed) : a.decision = "Pending"
<1> SUFFICES ASSUME NEW b \in approvers
             PROVE  [edition |-> ed, approver |-> b, decision |-> "Pending"].decision = "Pending"
    BY DEF Undecided
<1> QED
    OBVIOUS

LEMMA InitSettles == Init => SettleInv
BY DEF Init, SettleInv

LEMMA ArriveSettles ==
    ASSUME TypeOK, SettleInv, NEW w \in Workers, Arrive(w)
    PROVE  SettleInv'
<1>1. UNCHANGED <<status, approvals, died>>
    BY ArriveAt DEF Arrive
<1>2. \A v \in Workers : Settling(v) => Settling(v)'
  <2>1. req[w].at = "idle"
      BY DEF Arrive, UpdateRequisition, SubmitForApproval, Decide, UpdatePublishing, Publish,
             DeleteRequisition, Apply, AtAwait
  <2> QED
      BY <2>1, ArriveAt DEF Settling
<1> QED
    BY <1>1, <1>2 DEF SettleInv, settleApprovals

LEMMA HandleSettles ==
    ASSUME TypeOK, SettleInv, NEW w \in Workers, Handle(w)
    PROVE  SettleInv'
<1> SUFFICES ASSUME ~died, status' = "Pending Approval", settleApprovals(approvals') # "pending"
             PROVE  \E v \in Workers : Settling(v)'
  <2>1. died' = died /\ settleApprovals(approvals)' = settleApprovals(approvals')
      BY DEF Handle, settleApprovals
  <2> QED
      BY <2>1 DEF SettleInv
<1> USE DEF posting, list, pipeline
(* A step of a request that is not settling leaves the others settling.    *)
<1>1. CASE status' = status /\ approvals' = approvals /\ ~Settling(w)
  <2>1. PICK v \in Workers : Settling(v)
      BY <1>1 DEF SettleInv
  <2>2. v # w /\ req'[v] = req[v]
      BY <1>1, <2>1, HandleAt
  <2> QED
      BY <2>1, <2>2 DEF Settling
<1>2. CASE UpdateWrite(w)
  <2>1. \/ approvals' = approvals
        \/ \A a \in approvals' : a.decision = "Pending"
    <3>1. CASE Exists /\ req[w].wasDraft
      <4>1. PICK approvers \in ApproverLists : approvals' = Undecided(approvers, edition + 1)
          BY <1>2, <3>1 DEF UpdateWrite
      <4>2. \A a \in Undecided(approvers, edition + 1) : a.decision = "Pending"
          BY UndecidedRows
      <4> QED
          BY <4>1, <4>2, Zenon
    <3>2. CASE ~(Exists /\ req[w].wasDraft)
        BY <1>2, <3>2 DEF UpdateWrite
    <3> QED
        BY <3>1, <3>2
  <2>2. status' = status /\ ~Settling(w)
      BY <1>2 DEF UpdateWrite, AtAwait, Settling
  <2> QED
      BY <1>1, <2>1, <2>2, UndecidedIsPending
<1>3. CASE SubmitWrite(w)
  <2>1. CASE Exists
    <3>1. \A a \in Approvals : [a EXCEPT !.decision = "Pending"].decision = "Pending"
        BY DEF Approvals
    <3>2. approvals' = {[a EXCEPT !.decision = "Pending"] : a \in approvals}
        BY <1>3, <2>1 DEF SubmitWrite
    <3>3. \A a \in approvals' : a.decision = "Pending"
        BY <3>1, <3>2 DEF TypeOK
    <3> QED
        BY <3>3, UndecidedIsPending
  <2>2. CASE ~Exists
      BY <1>3, <2>2 DEF SubmitWrite, Exists
  <2> QED
      BY <2>1, <2>2
<1>4. CASE DecideWrite(w)
  <2>1. CASE Goto(w, "decide.settle")
      BY <2>1, GotoAt DEF Settling
  <2>2. CASE approvals' = approvals
      BY <1>1, <1>4, <2>2 DEF DecideWrite, AtAwait, Settling
  <2> QED
      BY <1>4, <2>1, <2>2 DEF DecideWrite
<1>5. CASE DecideSettle(w)
  <2>1. approvals' = approvals
      BY <1>5 DEF DecideSettle
  <2>2. Goto(w, "decide.approve") \/ Goto(w, "decide.reject")
      BY <1>5, <2>1, SettleNext
  <2> QED
      BY <2>2, GotoAt DEF Settling
<1>6. CASE DecideApprove(w) \/ DecideReject(w) \/ PublishWrite(w)
    BY <1>6 DEF DecideApprove, DecideReject, PublishWrite, SetStatus, Exists
<1>7. CASE DeleteCommit(w)
    BY <1>1, <1>7 DEF DeleteCommit, AtAwait, Settling
<1>8. CASE PublishingWrite(w) \/ DeleteCandidates(w) \/ ApplyCreate(w) \/ ApplyCount(w)
    BY <1>1, <1>8 DEF PublishingWrite, DeleteCandidates, ApplyCreate, ApplyCount, AtAwait, Settling
<1> QED
    BY <1>2, <1>3, <1>4, <1>5, <1>6, <1>7, <1>8 DEF Handle

LEMMA DieSettles == ASSUME NEW w \in Workers, Die(w) PROVE SettleInv'
BY DEF Die, SettleInv

LEMMA StutterSettles == SettleInv /\ UNCHANGED vars => SettleInv'
<1> SUFFICES ASSUME SettleInv, UNCHANGED vars PROVE SettleInv'
    OBVIOUS
<1>1. UNCHANGED <<status, approvals, req, died>>
    BY DEF vars, posting, list, pipeline
<1>2. settleApprovals(approvals)' = settleApprovals(approvals)
    BY <1>1 DEF settleApprovals
<1> QED
    BY <1>1, <1>2 DEF SettleInv, Settling

(* Approvals that come in at the same time settle: with no call under way  *)
(* and none that died, no requisition waits for approval although every    *)
(* approver approved it, or one rejected it (decide settles on a fresh     *)
(* read of the whole list, not on the one its guard saw).                  *)
THEOREM DecisionsAlwaysSettle == Spec => []DecisionsSettle
<1>1. TypeOK /\ SettleInv /\ [Next]_vars => SettleInv'
    BY StepBy, ArriveSettles, HandleSettles, DieSettles, StutterSettles
<1>2. SettleInv => DecisionsSettle
    BY DEF SettleInv, DecisionsSettle, Settling, Quiet, InFlight, AtAwait
<1> QED
    BY InitSettles, TypeCorrect, <1>1, <1>2, PTL DEF Spec
===============================================================================
