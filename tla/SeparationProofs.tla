--------------------------- MODULE SeparationProofs ---------------------------
(***************************************************************************)
(* What the finalization of a termination guarantees for any calendar, any *)
(* board of tasks and any leave: a termination that nothing crosses passes *)
(* both gates, and one on the statutory override leaves its record.        *)
(***************************************************************************)
EXTENDS Separation, WellFoundedInduction, TLAPS

LeaveRequests == [at : {"idle", "edit", "cancel"}, id : Nat, edit : Edits \union Decisions \union {Nothing}]

(* An edit, a decision or nothing, merged into a row, leaves a row. *)
LEMMA MergedTyped ==
    ASSUME NEW row \in Leaves, NEW edit \in Edits \union Decisions \union {Nothing}
    PROVE  Merged(row, edit) \in Leaves
<1>1. /\ DOMAIN row = {"id", "type", "start", "end", "hours", "status"}
      /\ row = [f \in DOMAIN row |-> row[f]]
    BY DEF Leaves
<1> DEFINE merged == [id |-> IF "id" \in DOMAIN edit THEN edit["id"] ELSE row.id,
                      type |-> IF "type" \in DOMAIN edit THEN edit["type"] ELSE row.type,
                      start |-> IF "start" \in DOMAIN edit THEN edit["start"] ELSE row.start,
                      end |-> IF "end" \in DOMAIN edit THEN edit["end"] ELSE row.end,
                      hours |-> IF "hours" \in DOMAIN edit THEN edit["hours"] ELSE row.hours,
                      status |-> IF "status" \in DOMAIN edit THEN edit["status"] ELSE row.status]
<1>2. Merged(row, edit) = merged
    BY <1>1 DEF Merged
<1>3. CASE edit = Nothing
  <2>1. DOMAIN edit = {}
      BY <1>3 DEF Nothing
  <2> QED
      BY <1>2, <2>1 DEF Leaves
<1>4. CASE edit \in Decisions
  <2>1. DOMAIN edit = {"status"} /\ edit["status"] \in Statuses
      BY <1>4 DEF Decisions, Statuses
  <2> QED
      BY <1>2, <2>1 DEF Leaves
<1>5. CASE edit \in Edits
  <2> DEFINE content == [type |-> row.type, start |-> row.start, end |-> row.end, hours |-> row.hours,
                         status |-> row.status]
  <2>1. content \in Contents /\ DOMAIN content = {"type", "start", "end", "hours", "status"}
      BY DEF Leaves, Contents
  <2>2. Merged(content, edit) \in Contents /\ "id" \notin DOMAIN edit
      BY <1>5, <2>1, LeaveAssumption
  <2>3. \A f \in {"type", "start", "end", "hours", "status"} :
            Merged(content, edit)[f] = IF f \in DOMAIN edit THEN edit[f] ELSE content[f]
      BY <2>1 DEF Merged
  <2>4. Merged(content, edit) = [type |-> merged.type, start |-> merged.start, end |-> merged.end,
                                 hours |-> merged.hours, status |-> merged.status]
    <3>1. DOMAIN Merged(content, edit) = {"type", "start", "end", "hours", "status"}
        BY <2>1 DEF Merged
    <3> QED
        BY <2>2, <2>3, <3>1 DEF Contents
  <2>5. merged.id = row.id /\ row.id \in Nat
      BY <2>2 DEF Leaves
  <2>6. merged \in Leaves
      BY <2>2, <2>4, <2>5 DEF Contents, Leaves
  <2> QED
      BY <1>2, <2>6
<1> QED
    BY <1>3, <1>4, <1>5

LEMMA RestingTyped == Resting \in LeaveRequests /\ Resting.at = "idle"
BY DEF Resting, LeaveRequests

LEMMA LeaveTyped ==
    ASSUME LeaveTypeOK, NEW w \in Workers, LeaveArrive(w) \/ LeaveHandle(w) \/ LeaveDie(w)
    PROVE  LeaveTypeOK' /\ \A v \in Workers \ {w} : leaveReq'[v] = leaveReq[v]
<1>0. leaves \subseteq Leaves /\ nextLeave \in Nat /\ leaveReq \in [Workers -> LeaveRequests]
    BY DEF LeaveTypeOK, LeaveRequests
<1>1. LeaveAnswer(w) => /\ leaveReq' \in [Workers -> LeaveRequests]
                        /\ \A v \in Workers \ {w} : leaveReq'[v] = leaveReq[v]
    BY <1>0, RestingTyped DEF LeaveAnswer
<1>2. CASE CreateLeave(w)
  <2>1. PICK form \in Filings :
            leaves' = leaves \union {[id |-> nextLeave, type |-> form.type, start |-> form.start,
                                      end |-> form.end, hours |-> form.hours, status |-> "PENDING"]}
      BY <1>2 DEF CreateLeave
  <2>2. form \in Forms
      BY LeaveAssumption
  <2>3. leaves' \subseteq Leaves
      BY <1>0, <2>1, <2>2 DEF Forms, Leaves, Statuses
  <2> QED
      BY <1>0, <1>2, <2>3 DEF CreateLeave, LeaveTypeOK, LeaveRequests
<1>3. ASSUME NEW at \in {"edit", "cancel"}, NEW row \in leaves,
             NEW edit \in Edits \union Decisions \union {Nothing}, Read(w, at, row, edit)
      PROVE  LeaveTypeOK' /\ \A v \in Workers \ {w} : leaveReq'[v] = leaveReq[v]
  <2>1. row.id \in Nat
      BY <1>0 DEF Leaves
  <2>2. [at |-> at, id |-> row.id, edit |-> edit] \in LeaveRequests
      BY <2>1 DEF LeaveRequests
  <2>3. leaveReq' \in [Workers -> LeaveRequests] /\ \A v \in Workers \ {w} : leaveReq'[v] = leaveReq[v]
      BY <1>0, <1>3, <2>2 DEF Read
  <2> QED
      BY <1>0, <1>3, <2>3 DEF Read, LeaveTypeOK, LeaveRequests
<1>4. CASE UpdateStatus(w) \/ UpdateLeave(w) \/ CancelLeave(w)
    BY <1>3, <1>4 DEF UpdateStatus, UpdateLeave, CancelLeave
<1>5. CASE WriteLeave(w)
  <2>1. leaveReq[w].edit \in Edits \union Decisions \union {Nothing}
      BY <1>0 DEF LeaveRequests
  <2>2. leaves' \subseteq Leaves
      BY <1>0, <1>5, <2>1, MergedTyped DEF WriteLeave, Named
  <2> QED
      BY <1>0, <1>1, <1>5, <2>2 DEF WriteLeave, LeaveTypeOK, LeaveRequests
<1>6. CASE DeleteLeave(w) \/ LeaveDie(w)
    BY <1>0, <1>1, <1>6 DEF DeleteLeave, LeaveDie, LeaveTypeOK, LeaveRequests
<1> QED
    BY <1>2, <1>4, <1>5, <1>6 DEF LeaveArrive, LeaveHandle
-------------------------------------------------------------------------------
(* A worker handles a leave or a separation, not both. *)
CoreInv == TypeOK /\ \A w \in Workers : LeaveIdle(w) \/ SepAt(w, "idle")

LEMMA RestTyped == Rest \in SepRequests /\ Rest.at = "idle"
BY DEF Rest, SepRequests, SepAwaits

LEMMA RequestTyped ==
    ASSUME sepReq \in [Workers -> SepRequests], NEW w \in Workers, NEW r \in SepRequests,
           sepReq' = [sepReq EXCEPT ![w] = r]
    PROVE  sepReq' \in [Workers -> SepRequests] /\ sepReq'[w] = r
           /\ \A v \in Workers \ {w} : sepReq'[v] = sepReq[v]
OBVIOUS

LEMMA AnswerTyped ==
    ASSUME sepReq \in [Workers -> SepRequests], NEW w \in Workers, Answer(w)
    PROVE  sepReq' \in [Workers -> SepRequests] /\ sepReq'[w] = Rest
           /\ \A v \in Workers \ {w} : sepReq'[v] = sepReq[v]
BY RestTyped, RequestTyped DEF Answer

LEMMA GotoTyped ==
    ASSUME sepReq \in [Workers -> SepRequests], NEW w \in Workers, NEW label \in SepAwaits, Goto(w, label)
    PROVE  /\ sepReq' \in [Workers -> SepRequests] /\ \A v \in Workers \ {w} : sepReq'[v] = sepReq[v]
           /\ sepReq'[w].at = label /\ sepReq'[w].used = sepReq[w].used
<1>1. PICK r \in SepRequests : r = [sepReq[w] EXCEPT !.at = label]
    BY DEF SepRequests
<1>2. r.at = label /\ r.used = sepReq[w].used
    BY <1>1 DEF SepRequests
<1>3. sepReq' = [sepReq EXCEPT ![w] = r]
    BY <1>1 DEF Goto
<1> QED
    BY <1>2, <1>3, RequestTyped

(* The form to finalize, as it arrives. *)
LEMMA FormTyped ==
    ASSUME TypeOK, NEW w \in Workers, FinalizeTermination(w)
    PROVE  /\ sepReq' \in [Workers -> SepRequests] /\ \A v \in Workers \ {w} : sepReq'[v] = sepReq[v]
           /\ sepReq'[w].at = "final.leaves" /\ (sepReq'[w].override \/ open = {})
<1>1. PICK form \in [override : BOOLEAN, statutory : BOOLEAN, certified : BOOLEAN, details : BOOLEAN] :
         /\ form.override \/ open = {}
         /\ sepReq' = [sepReq EXCEPT ![w] =
              [at |-> "final.leaves", override |-> form.override, statutory |-> form.statutory,
               certified |-> form.certified, details |-> form.details, used |-> FALSE]]
    BY DEF FinalizeTermination
<1>2. PICK r \in SepRequests :
          r = [at |-> "final.leaves", override |-> form.override, statutory |-> form.statutory,
               certified |-> form.certified, details |-> form.details, used |-> FALSE]
    BY <1>1 DEF SepRequests, SepAwaits
<1>3. r.at = "final.leaves" /\ r.override = form.override
    BY <1>2
<1> QED
    BY <1>1, <1>2, <1>3, RequestTyped DEF TypeOK

(* The lock: what goes on to the write has used the certified override if  *)
(* there was leave to protect.                                             *)
LEMMA LockTyped ==
    ASSUME TypeOK, NEW w \in Workers, FinalizeLeaves(w)
    PROVE  /\ sepReq' \in [Workers -> SepRequests] /\ \A v \in Workers \ {w} : sepReq'[v] = sepReq[v]
           /\ \/ sepReq'[w].at = "idle"
              \/ /\ sepReq'[w].at = "final.write" /\ sepReq'[w].override = sepReq[w].override
                 /\ ActiveStatutory(leaves) # {} => sepReq'[w].statutory /\ sepReq'[w].certified
<1>0. sepReq \in [Workers -> SepRequests] /\ sepReq[w] \in SepRequests
    BY DEF TypeOK
<1> DEFINE active == ActiveStatutory(leaves) # {}
           used == active /\ sepReq[w].statutory /\ sepReq[w].certified
<1>1. CASE active /\ ~used
  <2>1. Answer(w)
      BY <1>1 DEF FinalizeLeaves
  <2> QED
      BY <1>0, <2>1, AnswerTyped, RestTyped
<1>2. CASE ~(active /\ ~used)
  <2>0. used \in BOOLEAN
      BY <1>0 DEF SepRequests
  <2>1. sepReq' = [sepReq EXCEPT ![w].at = "final.write", ![w].used = used]
      BY <1>2 DEF FinalizeLeaves
  <2> HIDE DEF used
  <2>2. PICK r \in SepRequests : r = [sepReq[w] EXCEPT !.at = "final.write", !.used = used]
      BY <1>0, <2>0 DEF SepRequests, SepAwaits
  <2>3. /\ r.at = "final.write" /\ r.override = sepReq[w].override
        /\ r.statutory = sepReq[w].statutory /\ r.certified = sepReq[w].certified
      BY <1>0, <2>2 DEF SepRequests
  <2>4. sepReq' = [sepReq EXCEPT ![w] = r]
      BY <1>0, <2>1, <2>2
  <2>5. active => sepReq[w].statutory /\ sepReq[w].certified
      BY <1>2 DEF used
  <2> QED
      BY <1>0, <2>3, <2>4, <2>5, RequestTyped
<1> QED
    BY <1>1, <1>2
-------------------------------------------------------------------------------
(* The operations of the separation. *)
SepArrive(w) == SetTaskStatus(w) \/ UpdateEmployee(w) \/ SaveOffboarding(w) \/ FinalizeTermination(w)
SaveHandle(w) == SaveWrite(w) \/ SaveFind(w) \/ SaveCreate(w)
SepHandle(w) == SaveHandle(w) \/ FinalizeLeaves(w) \/ FinalizeWrite(w) \/ FinalizeRecord(w)

(* Whatever becomes of a request to save, it does not come to finalize. *)
LEMMA SaveTyped ==
    ASSUME TypeOK, NEW w \in Workers, SaveOffboarding(w) \/ SaveHandle(w)
    PROVE  /\ sepReq' \in [Workers -> SepRequests] /\ \A v \in Workers \ {w} : sepReq'[v] = sepReq[v]
           /\ sepReq'[w].at \in {"idle", "save", "save.find", "save.create"}
<1>1. sepReq \in [Workers -> SepRequests] /\ {"save", "save.find", "save.create"} \subseteq SepAwaits
    BY DEF TypeOK, SepAwaits
<1>2. CASE Answer(w)
    BY <1>1, <1>2, AnswerTyped, RestTyped
<1>3. CASE Goto(w, "save") \/ Goto(w, "save.find") \/ Goto(w, "save.create")
    BY <1>1, <1>3, GotoTyped
<1> QED
    BY <1>2, <1>3 DEF SaveOffboarding, SaveHandle, SaveWrite, SaveFind, SaveCreate

(* After the write of a termination there is its record to write, if the   *)
(* override was used.                                                      *)
LEMMA WriteTyped ==
    ASSUME TypeOK, NEW w \in Workers, FinalizeWrite(w)
    PROVE  /\ sepReq' \in [Workers -> SepRequests] /\ \A v \in Workers \ {w} : sepReq'[v] = sepReq[v]
           /\ sepReq'[w].at \in {"idle", "final.record"}
           /\ sepReq[w].used => sepReq'[w].at = "final.record" /\ sepReq'[w].used
<1>1. sepReq \in [Workers -> SepRequests] /\ "final.record" \in SepAwaits
    BY DEF TypeOK, SepAwaits
<1>2. CASE sepReq[w].details \/ sepReq[w].used
  <2>1. Goto(w, "final.record")
      BY <1>2 DEF FinalizeWrite
  <2> QED
      BY <1>1, <2>1, GotoTyped
<1>3. CASE ~(sepReq[w].details \/ sepReq[w].used)
  <2>1. Answer(w)
      BY <1>3 DEF FinalizeWrite
  <2> QED
      BY <1>1, <1>3, <2>1, AnswerTyped, RestTyped
<1> QED
    BY <1>2, <1>3

LEMMA RecordTyped ==
    ASSUME TypeOK, NEW w \in Workers, FinalizeRecord(w)
    PROVE  /\ sepReq' \in [Workers -> SepRequests] /\ \A v \in Workers \ {w} : sepReq'[v] = sepReq[v]
           /\ sepReq'[w].at = "idle"
BY AnswerTyped, RestTyped DEF FinalizeRecord, TypeOK

LEMMA SepTyped ==
    ASSUME TypeOK, NEW w \in Workers, SepArrive(w) \/ SepHandle(w)
    PROVE  sepReq' \in [Workers -> SepRequests] /\ \A v \in Workers \ {w} : sepReq'[v] = sepReq[v]
<1>1. CASE SetTaskStatus(w) \/ UpdateEmployee(w)
    BY <1>1 DEF SetTaskStatus, UpdateEmployee, TypeOK
<1> QED
    BY <1>1, FormTyped, SaveTyped, LockTyped, WriteTyped, RecordTyped DEF SepArrive, SepHandle

LEMMA BoardTyped ==
    ASSUME TypeOK, NEW w \in Workers, SepArrive(w) \/ SepHandle(w)
    PROVE  /\ UNCHANGED today /\ employee' \in EmployeeStatus /\ open' \subseteq BlockingTasks
           /\ records' \subseteq BOOLEAN /\ announced' \in Nat /\ overridden' \in BOOLEAN
<1>0. /\ employee \in EmployeeStatus /\ open \subseteq BlockingTasks /\ records \subseteq BOOLEAN
      /\ announced \in Nat /\ overridden \in BOOLEAN /\ sepReq[w].used \in BOOLEAN
    BY DEF TypeOK, SepRequests
<1>1. {"OFFBOARDING", "TERMINATED"} \subseteq EmployeeStatus
    BY DEF EmployeeStatus
<1>2. CASE SetTaskStatus(w)
  <2>1. open' \subseteq BlockingTasks
      BY <1>0, <1>2 DEF SetTaskStatus
  <2> QED
      BY <1>0, <1>2, <2>1 DEF SetTaskStatus
<1>3. CASE UpdateEmployee(w)
    BY <1>0, <1>3, SeparationAssumption DEF UpdateEmployee
<1>4. CASE SaveOffboarding(w) \/ FinalizeTermination(w) \/ SaveFind(w) \/ FinalizeLeaves(w)
    BY <1>0, <1>4 DEF SaveOffboarding, FinalizeTermination, SaveFind, FinalizeLeaves, board
<1>5. CASE SaveWrite(w) \/ SaveCreate(w) \/ FinalizeRecord(w)
    BY <1>0, <1>1, <1>5 DEF SaveWrite, SaveCreate, FinalizeRecord
<1>6. CASE FinalizeWrite(w)
  <2>1. overridden' \in BOOLEAN
      BY <1>0, <1>6 DEF FinalizeWrite
  <2> QED
      BY <1>0, <1>1, <1>6, <2>1 DEF FinalizeWrite
<1> QED
    BY <1>2, <1>3, <1>4, <1>5, <1>6 DEF SepArrive, SepHandle, SaveHandle

(* A step is a step of the leave, of the separation, a death or a day. *)
LeaveStep(w) ==
    /\ \/ Free(w) /\ LeaveArrive(w) /\ solo' = (\A v \in Workers \ {w} : Free(v))
       \/ LeaveHandle(w) /\ UNCHANGED solo
    /\ UNCHANGED <<board, sepReq, overridden, died>>
SepStep(w) ==
    /\ \/ Free(w) /\ SepArrive(w) /\ solo' = (\A v \in Workers \ {w} : Free(v))
       \/ SepHandle(w) /\ UNCHANGED solo
    /\ UNCHANGED <<leaveVars, died>>

LEMMA Steps ==
    ASSUME Next
    PROVE  NextDay \/ \E w \in Workers : LeaveStep(w) \/ SepStep(w) \/ Die(w)
<1>1. ASSUME NEW w \in Workers, Arrive(w)
      PROVE  LeaveStep(w) \/ SepStep(w)
    BY <1>1 DEF Arrive, LeaveStep, SepStep, SepArrive
<1>2. ASSUME NEW w \in Workers, Handle(w)
      PROVE  LeaveStep(w) \/ SepStep(w)
    BY <1>2 DEF Handle, LeaveStep, SepStep, SepHandle, SaveHandle
<1> QED
    BY <1>1, <1>2 DEF Next

LEMMA CoreStarts == Init => CoreInv
<1> SUFFICES ASSUME Init PROVE CoreInv
    OBVIOUS
<1>1. LeaveTypeOK
    BY RestingTyped DEF Init, LeaveInit, LeaveTypeOK, LeaveRequests
<1>2. today \in Days
  <2>1. \E d \in Days : \A e \in Days : d <= e
    <3>1. PICK d \in Days : \A e \in Days : ~(<<e, d>> \in OpToRel(<, Nat))
        BY LeaveAssumption, NatLessThanWellFounded, WFMin
    <3>2. \A e \in Days : ~(e < d)
        BY <3>1, LeaveAssumption DEF OpToRel
    <3> QED
        BY <3>2, LeaveAssumption
  <2> QED
      BY <2>1 DEF Init
<1>3. sepReq \in [Workers -> SepRequests] /\ \A w \in Workers : SepAt(w, "idle")
    BY RestTyped DEF Init, SepAt
<1> QED
    BY <1>1, <1>2, <1>3 DEF Init, CoreInv, TypeOK, EmployeeStatus

LEMMA CoreHolds == CoreInv /\ [Next]_vars => CoreInv'
<1> SUFFICES ASSUME CoreInv, [Next]_vars PROVE CoreInv'
    OBVIOUS
<1>0. TypeOK /\ LeaveTypeOK /\ \A w \in Workers : LeaveIdle(w) \/ SepAt(w, "idle")
    BY DEF CoreInv, TypeOK
<1>1. CASE UNCHANGED vars
    BY <1>1 DEF vars, board, leaveVars, CoreInv, TypeOK, LeaveTypeOK, LeaveIdle, SepAt
<1>2. CASE NextDay
    BY <1>2 DEF NextDay, leaveVars, CoreInv, TypeOK, LeaveTypeOK, LeaveIdle, SepAt
<1>3. ASSUME NEW w \in Workers, LeaveStep(w)
      PROVE  CoreInv'
  <2>1. LeaveTypeOK' /\ \A v \in Workers \ {w} : leaveReq'[v] = leaveReq[v]
      BY <1>0, <1>3, LeaveTyped DEF LeaveStep
  <2>2. UNCHANGED <<board, sepReq, overridden, died>> /\ solo' \in BOOLEAN
      BY <1>0, <1>3 DEF LeaveStep, TypeOK
  <2>3. TypeOK'
      BY <1>0, <2>1, <2>2 DEF TypeOK, board
  <2>4. CASE Free(w)
    <3>1. \A v \in Workers : (LeaveIdle(v) \/ SepAt(v, "idle"))'
        BY <1>0, <2>1, <2>2, <2>4 DEF Free, LeaveIdle, SepAt
    <3> QED
        BY <2>3, <3>1 DEF CoreInv
  <2>5. CASE LeaveHandle(w)
    <3>1. LeaveAnswer(w) /\ leaveReq \in [Workers -> LeaveRequests]
        BY <1>0, <2>5 DEF LeaveHandle, WriteLeave, DeleteLeave, LeaveTypeOK, LeaveRequests
    <3>2. leaveReq'[w].at = "idle"
        BY <3>1, RestingTyped DEF LeaveAnswer
    <3>3. \A v \in Workers : (LeaveIdle(v) \/ SepAt(v, "idle"))'
        BY <1>0, <2>1, <2>2, <3>2 DEF LeaveIdle, SepAt
    <3> QED
        BY <2>3, <3>3 DEF CoreInv
  <2> QED
      BY <1>3, <2>4, <2>5 DEF LeaveStep
<1>4. ASSUME NEW w \in Workers, SepStep(w)
      PROVE  CoreInv'
  <2>1. sepReq' \in [Workers -> SepRequests] /\ \A v \in Workers \ {w} : sepReq'[v] = sepReq[v]
      BY <1>0, <1>4, SepTyped DEF SepStep
  <2>2. UNCHANGED <<leaveVars, died>> /\ solo' \in BOOLEAN
      BY <1>0, <1>4 DEF SepStep, TypeOK
  <2>3. TypeOK'
      BY <1>0, <1>4, <2>1, <2>2, BoardTyped DEF SepStep, TypeOK, LeaveTypeOK, leaveVars
  <2>4. LeaveIdle(w)
    <3>1. CASE Free(w)
        BY <3>1 DEF Free
    <3>2. CASE SepHandle(w)
      <4>1. ~SepAt(w, "idle")
          BY <3>2 DEF SepHandle, SaveHandle, SaveWrite, SaveFind, SaveCreate, FinalizeLeaves, FinalizeWrite,
               FinalizeRecord, SepAt
      <4> QED
          BY <1>0, <4>1
    <3> QED
        BY <1>4, <3>1, <3>2 DEF SepStep
  <2>5. \A v \in Workers : (LeaveIdle(v) \/ SepAt(v, "idle"))'
      BY <1>0, <2>1, <2>2, <2>4 DEF LeaveIdle, SepAt, leaveVars
  <2> QED
      BY <2>3, <2>5 DEF CoreInv
<1>5. ASSUME NEW w \in Workers, Die(w)
      PROVE  CoreInv'
  <2>1. UNCHANGED <<board, overridden>> /\ died' = TRUE /\ solo' = FALSE
      BY <1>5 DEF Die
  <2>2. CASE LeaveDie(w) /\ UNCHANGED sepReq
    <3>1. LeaveTypeOK' /\ \A v \in Workers \ {w} : leaveReq'[v] = leaveReq[v]
        BY <1>0, <2>2, LeaveTyped
    <3>2. leaveReq'[w].at = "idle"
        BY <1>0, <2>2, RestingTyped DEF LeaveDie, LeaveAnswer, LeaveTypeOK
    <3>3. TypeOK'
        BY <1>0, <2>1, <2>2, <3>1 DEF TypeOK, board
    <3>4. \A v \in Workers : (LeaveIdle(v) \/ SepAt(v, "idle"))'
        BY <1>0, <2>2, <3>1, <3>2 DEF LeaveIdle, SepAt
    <3> QED
        BY <3>3, <3>4 DEF CoreInv
  <2>3. CASE Answer(w) /\ UNCHANGED leaveVars
    <3>1. /\ sepReq' \in [Workers -> SepRequests] /\ sepReq'[w].at = "idle"
          /\ \A v \in Workers \ {w} : sepReq'[v] = sepReq[v]
        BY <1>0, <2>3, AnswerTyped, RestTyped DEF TypeOK
    <3>2. TypeOK'
        BY <1>0, <2>1, <2>3, <3>1 DEF TypeOK, LeaveTypeOK, board, leaveVars
    <3>3. \A v \in Workers : (LeaveIdle(v) \/ SepAt(v, "idle"))'
        BY <1>0, <2>3, <3>1 DEF LeaveIdle, SepAt, leaveVars
    <3> QED
        BY <3>2, <3>3 DEF CoreInv
  <2> QED
      BY <1>5, <2>2, <2>3 DEF Die
<1> QED
    BY <1>1, <1>2, <1>3, <1>4, <1>5, Steps
-------------------------------------------------------------------------------
(* The types of the leave, the board and the requests hold in every        *)
(* behaviour.                                                              *)
THEOREM TypesHold == Spec => []TypeOK
<1>1. CoreInv => TypeOK
    BY DEF CoreInv
<1> QED
    BY <1>1, CoreStarts, CoreHolds, PTL DEF Spec
-------------------------------------------------------------------------------
(* A termination on the override has its record, or a request in flight    *)
(* that is about to write it.                                              *)
RecordDue == \E w \in Workers : SepAt(w, "final.record") /\ sepReq[w].used
BypassInv == ~died /\ overridden => TRUE \in records \/ RecordDue

(* That bypass is recorded: once nothing is in flight and nothing died, a  *)
(* termination on the override has left its record, details or not.        *)
THEOREM BypassIsRecorded == Spec => []BypassRecorded
<1>1. Init => BypassInv
    BY DEF Init, BypassInv
<1>2. CoreInv /\ BypassInv /\ [Next]_vars => BypassInv'
  <2> SUFFICES ASSUME CoreInv, BypassInv, [Next]_vars, ~died', overridden'
               PROVE  (TRUE \in records \/ RecordDue)'
      BY DEF BypassInv
  <2>0. TypeOK
      BY DEF CoreInv
  <2>1. CASE UNCHANGED <<board, sepReq, overridden, died>>
      BY <2>1 DEF board, BypassInv, RecordDue, SepAt
  <2>2. ASSUME NEW w \in Workers, SepStep(w), ~SetTaskStatus(w), ~UpdateEmployee(w)
        PROVE  (TRUE \in records \/ RecordDue)'
    <3>1. UNCHANGED died /\ \A v \in Workers \ {w} : sepReq'[v] = sepReq[v]
        BY <2>0, <2>2, SepTyped DEF SepStep
    <3>2. CASE FinalizeWrite(w)
      <4>1. sepReq[w].at = "final.write" /\ overridden' = (overridden \/ sepReq[w].used) /\ UNCHANGED records
          BY <3>2 DEF FinalizeWrite, SepAt
      <4>2. CASE sepReq[w].used
          BY <2>0, <3>2, <4>2, WriteTyped DEF RecordDue, SepAt
      <4>3. CASE ~sepReq[w].used
          BY <3>1, <4>1, <4>3 DEF BypassInv, RecordDue, SepAt
      <4> QED
          BY <4>2, <4>3
    <3>3. CASE FinalizeRecord(w)
      <4>1. records' = records \union {sepReq[w].used} /\ UNCHANGED overridden
          BY <3>3 DEF FinalizeRecord
      <4>2. sepReq[w].used \in BOOLEAN
          BY <2>0 DEF TypeOK, SepRequests
      <4> QED
          BY <3>1, <4>1, <4>2 DEF BypassInv, RecordDue, SepAt
    <3>4. CASE ~FinalizeWrite(w) /\ ~FinalizeRecord(w)
      <4>1. UNCHANGED <<records, overridden>> /\ ~SepAt(w, "final.record")
          BY <2>2, <3>4 DEF SepStep, SepArrive, SepHandle, SaveHandle, SaveOffboarding, FinalizeTermination,
               SaveWrite, SaveFind, SaveCreate, FinalizeLeaves, Free, SepAt, board
      <4> QED
          BY <3>1, <4>1 DEF BypassInv, RecordDue, SepAt
    <3> QED
        BY <3>2, <3>3, <3>4
  <2>3. ASSUME NEW w \in Workers, SetTaskStatus(w) \/ UpdateEmployee(w), UNCHANGED died
        PROVE  (TRUE \in records \/ RecordDue)'
      BY <2>3 DEF SetTaskStatus, UpdateEmployee, BypassInv, RecordDue, SepAt
  <2>4. CASE NextDay
      BY <2>4 DEF NextDay, BypassInv, RecordDue, SepAt
  <2>5. ASSUME NEW w \in Workers, LeaveStep(w) \/ SepStep(w) \/ Die(w)
        PROVE  (TRUE \in records \/ RecordDue)'
      BY <2>1, <2>2, <2>3, <2>5 DEF LeaveStep, SepStep, Die
  <2> QED
      BY <2>1, <2>4, <2>5, Steps DEF vars
<1>3. BypassInv => BypassRecorded
    BY DEF BypassInv, BypassRecorded, RecordDue, Quiet, Free, SepAt
<1> QED
    BY <1>1, <1>2, <1>3, CoreStarts, CoreHolds, PTL DEF Spec
-------------------------------------------------------------------------------
(* While the last arrival runs alone, it is the only one in flight, and    *)
(* what the gates read still is what they read.                            *)
Alone == \A v, w \in Workers : ~Free(v) /\ ~Free(w) => v = w
GatePassed == \A w \in Workers :
    SepAt(w, "final.leaves") \/ SepAt(w, "final.write") => sepReq[w].override \/ open = {}
LockPassed == \A w \in Workers :
    SepAt(w, "final.write") /\ Protected => sepReq[w].statutory /\ sepReq[w].certified

SoloInv == solo => Alone /\ GatePassed /\ LockPassed

(* The lock looks for the leave that protects. *)
LEMMA LockLooks ==
    ASSUME TypeOK
    PROVE  Protected <=> ActiveStatutory(leaves) # {}
<1>1. \A l \in leaves : l.start \in Nat /\ l.end \in Nat
    BY LeaveAssumption DEF TypeOK, LeaveTypeOK, Leaves
<1>2. today \in Nat
    BY LeaveAssumption DEF TypeOK
<1>3. \A l \in leaves : today \in l.start .. l.end <=> l.start <= today /\ today <= l.end
    BY <1>1, <1>2
<1> QED
    BY <1>3 DEF Protected, ActiveStatutory

(* Finalizing a termination that nothing crosses passes both gates: open   *)
(* blocking tasks only with the override, a protected leave -- first day,  *)
(* last day and every edit of it included -- only with the certified one,  *)
(* whatever HR set the status to by hand, which passes neither.            *)
THEOREM TerminationsAreJustified == Spec => TerminationJustified
<1> DEFINE Step == \A w \in Workers : solo /\ FinalizeWrite(w) =>
                      /\ open = {} \/ sepReq[w].override
                      /\ Protected => sepReq[w].statutory /\ sepReq[w].certified
<1>1. Init => SoloInv
    BY RestTyped DEF Init, LeaveInit, SoloInv, Alone, GatePassed, LockPassed, Free, LeaveIdle, SepAt,
         Rest, Resting
<1>2. CoreInv /\ SoloInv /\ [Next]_vars => SoloInv'
  <2> SUFFICES ASSUME CoreInv, SoloInv, [Next]_vars, solo'
               PROVE  Alone' /\ GatePassed' /\ LockPassed'
      BY DEF SoloInv
  <2>0. /\ TypeOK /\ TypeOK' /\ LeaveTypeOK
        /\ \A w \in Workers : (LeaveIdle(w) \/ SepAt(w, "idle")) /\ (LeaveIdle(w) \/ SepAt(w, "idle"))'
      BY CoreHolds DEF CoreInv, TypeOK
  <2>1. CASE UNCHANGED vars
      BY <2>1 DEF vars, board, leaveVars, SoloInv, Alone, GatePassed, LockPassed, Free, LeaveIdle, SepAt, Protected
  <2>2. ASSUME NEW w \in Workers, LeaveStep(w)
        PROVE  Alone' /\ GatePassed' /\ LockPassed'
    <3>1. UNCHANGED <<board, sepReq>> /\ \A v \in Workers \ {w} : leaveReq'[v] = leaveReq[v]
        BY <2>0, <2>2, LeaveTyped DEF LeaveStep
    <3>2. \A v \in Workers \ {w} : Free(v)
      <4>1. CASE Free(w)
          BY <2>2, <4>1 DEF LeaveStep, SoloInv, LeaveHandle, WriteLeave, DeleteLeave, Free, LeaveIdle
      <4>2. CASE ~Free(w)
          BY <2>2, <4>2 DEF LeaveStep, SoloInv, Alone
      <4> QED
          BY <4>1, <4>2
    <3>3. \A v \in Workers : SepAt(v, "idle") /\ SepAt(v, "idle")'
      <4>1. SepAt(w, "idle")
          BY <2>0, <2>2 DEF LeaveStep, Free, LeaveHandle, WriteLeave, DeleteLeave, LeaveIdle
      <4> QED
          BY <3>1, <3>2, <4>1 DEF Free, SepAt
    <3>4. Alone'
        BY <3>1, <3>2 DEF Alone, Free, LeaveIdle, SepAt
    <3> QED
        BY <3>3, <3>4 DEF GatePassed, LockPassed, SepAt
  <2>3. ASSUME NEW w \in Workers, SepStep(w)
        PROVE  Alone' /\ GatePassed' /\ LockPassed'
    <3>1. UNCHANGED leaveVars /\ UNCHANGED today /\ \A v \in Workers \ {w} : sepReq'[v] = sepReq[v]
        BY <2>0, <2>3, SepTyped, BoardTyped DEF SepStep
    <3>2. Free(w) => ~SepHandle(w)
        BY DEF Free, SepAt, SepHandle, SaveHandle, SaveWrite, SaveFind, SaveCreate, FinalizeLeaves, FinalizeWrite,
             FinalizeRecord
    <3>3. \A v \in Workers \ {w} : Free(v) /\ Free(v)'
      <4>1. CASE Free(w)
        <5>1. \A v \in Workers \ {w} : Free(v)
            BY <2>3, <3>2, <4>1 DEF SepStep
        <5> QED
            BY <3>1, <5>1 DEF Free, LeaveIdle, SepAt, leaveVars
      <4>2. CASE ~Free(w)
        <5>1. \A v \in Workers \ {w} : Free(v)
            BY <2>3, <4>2 DEF SepStep, SoloInv, Alone
        <5> QED
            BY <3>1, <5>1 DEF Free, LeaveIdle, SepAt, leaveVars
      <4> QED
          BY <4>1, <4>2
    <3>4. Alone'
        BY <3>3 DEF Alone
    <3>5. Protected' <=> Protected
        BY <3>1 DEF Protected, leaveVars
    <3>6. \A v \in Workers \ {w} : SepAt(v, "idle")'
        BY <3>3 DEF Free
    <3>7. CASE \/ Free(w) /\ (SetTaskStatus(w) \/ UpdateEmployee(w))
               \/ SaveOffboarding(w) \/ SaveHandle(w) \/ FinalizeRecord(w) \/ FinalizeWrite(w)
      <4>1. sepReq'[w].at \notin {"final.leaves", "final.write"}
        <5>1. CASE Free(w) /\ (SetTaskStatus(w) \/ UpdateEmployee(w))
            BY <5>1 DEF Free, SepAt, SetTaskStatus, UpdateEmployee
        <5> QED
            BY <2>0, <3>7, <5>1, SaveTyped, WriteTyped, RecordTyped
      <4> QED
          BY <3>4, <3>6, <4>1 DEF GatePassed, LockPassed, SepAt
    <3>8. CASE FinalizeTermination(w)
      <4>1. sepReq'[w].at = "final.leaves" /\ (sepReq'[w].override \/ open = {}) /\ UNCHANGED open
          BY <2>0, <3>8, FormTyped DEF FinalizeTermination, board
      <4> QED
          BY <3>4, <3>6, <4>1 DEF GatePassed, LockPassed, SepAt
    <3>9. CASE FinalizeLeaves(w)
      <4>1. SepAt(w, "final.leaves") /\ UNCHANGED <<open, solo>>
          BY <2>3, <3>2, <3>9 DEF FinalizeLeaves, SepStep, board, SepHandle
      <4>2. sepReq[w].override \/ open = {}
          BY <4>1 DEF SoloInv, GatePassed
      <4>3. sepReq'[w].at = "final.write" =>
                /\ sepReq'[w].override \/ open' = {}
                /\ Protected' => sepReq'[w].statutory /\ sepReq'[w].certified
          BY <2>0, <3>5, <3>9, <4>1, <4>2, LockTyped, LockLooks
      <4>4. sepReq'[w].at \in {"idle", "final.write"}
          BY <2>0, <3>9, LockTyped
      <4> QED
          BY <3>4, <3>6, <4>3, <4>4 DEF GatePassed, LockPassed, SepAt
    <3> QED
        BY <2>3, <3>7, <3>8, <3>9 DEF SepStep, SepArrive, SepHandle
  <2> QED
      BY <2>1, <2>2, <2>3, Steps DEF NextDay, Die
<1>3. SoloInv => Step
    BY DEF SoloInv, GatePassed, LockPassed, FinalizeWrite
<1> QED
    BY <1>1, <1>2, <1>3, CoreStarts, CoreHolds, PTL DEF Spec, TerminationJustified
===============================================================================
