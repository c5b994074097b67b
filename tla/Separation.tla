----------------------------- MODULE Separation -----------------------------
(***************************************************************************)
(* The separation of one employee (contexts/offboarding) while the same    *)
(* employee's leave (TimeOff) is filed, edited, decided and cancelled.     *)
(* finalizeTermination passes a gate of blocking tasks, then a lock for    *)
(* leave that statute protects, each in an await of its own, and writes in *)
(* a third.                                                                *)
(*                                                                         *)
(* Abstracted: names are unambiguous (the code refuses the others); the    *)
(* tasks of the board by whether blocking ones are open (nothing reads the *)
(* others, or an assignee); the record of a termination by whether it      *)
(* documents the statutory override.                                       *)
(***************************************************************************)
EXTENDS TimeOff, FiniteSets

CONSTANTS
    BlockingTasks,  \* ids of the blocking OffboardingTask rows
    HandStatuses,   \* what HR may set the employee's status to by hand
    Failures        \* TRUE when a request may die between two awaits

EmployeeStatus == {"ACTIVE", "PRE_HIRE", "ON_STATUTORY_LEAVE", "OFFBOARDING", "TERMINATED"}

ASSUME SeparationAssumption ==
    /\ Failures \in BOOLEAN
    /\ HandStatuses \subseteq EmployeeStatus

VARIABLES
    today,      \* the day
    employee,   \* Employee.status
    open,       \* blocking tasks that are not completed
    records,    \* termination records: whether they document the override
    announced,  \* AgentRun rows that tell of the saved case
    sepReq,     \* requests in flight here
    overridden, \* history: a termination went through on the override
    solo,       \* history: the last arrival ran alone, unharmed, within a day
    died        \* history: a request has died

board == <<today, employee, open, records, announced>>
vars == <<leaveVars, board, sepReq, overridden, solo, died>>
-------------------------------------------------------------------------------
SepAwaits == {"idle", "save", "save.find", "save.create",
              "final.leaves", "final.write", "final.record"}

(* What the form to finalize carries, and the override it came to use. *)
SepRequests == [at : SepAwaits, override : BOOLEAN, statutory : BOOLEAN,
                certified : BOOLEAN, details : BOOLEAN, used : BOOLEAN]

Rest == [at |-> "idle", override |-> FALSE, statutory |-> FALSE, certified |-> FALSE,
         details |-> FALSE, used |-> FALSE]

TypeOK ==
    /\ LeaveTypeOK
    /\ today \in Days
    /\ employee \in EmployeeStatus
    /\ open \subseteq BlockingTasks
    /\ records \subseteq BOOLEAN
    /\ announced \in Nat
    /\ sepReq \in [Workers -> SepRequests]
    /\ overridden \in BOOLEAN
    /\ solo \in BOOLEAN
    /\ died \in BOOLEAN

Init ==
    /\ LeaveInit
    /\ today = CHOOSE d \in Days : \A e \in Days : d <= e
    /\ employee = "ACTIVE"
    /\ open = BlockingTasks
    /\ records = {}
    /\ announced = 0
    /\ sepReq = [w \in Workers |-> Rest]
    /\ overridden = FALSE
    /\ solo = TRUE
    /\ died = FALSE

SepAt(w, label) == sepReq[w].at = label
Goto(w, label) == sepReq' = [sepReq EXCEPT ![w].at = label]
Answer(w) == sepReq' = [sepReq EXCEPT ![w] = Rest]
Free(w) == LeaveIdle(w) /\ SepAt(w, "idle")
-------------------------------------------------------------------------------
(* findActiveStatutoryLeave, over the rows of the employee. *)

(* Mutant: the last day of a leave does not count. *)
ActiveStatutoryButLast(rows) ==
    {l \in rows : l.status = "APPROVED" /\ l.type = "statutory" /\ l.start <= today /\ today < l.end}

ActiveStatutory(rows) ==
    {l \in rows : l.status = "APPROVED" /\ l.type = "statutory" /\ l.start <= today /\ today <= l.end}
-------------------------------------------------------------------------------
SetTaskStatus(w) ==
    /\ \E t \in BlockingTasks : open' \in {open \union {t}, open \ {t}}
    /\ UNCHANGED <<today, employee, records, announced, sepReq, overridden>>

(* people.updateEmployee: the form admits every status, TERMINATED too. *)
UpdateEmployee(w) ==
    /\ employee' \in HandStatuses
    /\ UNCHANGED <<today, open, records, announced, sepReq, overridden>>

(* saveOffboarding: the employee, then one run to tell of it. *)
SaveOffboarding(w) ==
    /\ employee # "TERMINATED"
    /\ Goto(w, "save")
    /\ UNCHANGED <<board, overridden>>

SaveWrite(w) ==
    /\ SepAt(w, "save")
    /\ employee' = "OFFBOARDING"
    /\ Goto(w, "save.find")
    /\ UNCHANGED <<today, open, records, announced, overridden>>

SaveFind(w) ==
    /\ SepAt(w, "save.find")
    /\ IF announced > 0 THEN Answer(w) ELSE Goto(w, "save.create")
    /\ UNCHANGED <<board, overridden>>

SaveCreate(w) ==
    /\ SepAt(w, "save.create")
    /\ announced' = announced + 1
    /\ Answer(w)
    /\ UNCHANGED <<today, employee, open, records, overridden>>
-------------------------------------------------------------------------------
(* finalizeTermination *)

(* The blocking tasks, unless the form overrides them; a form that is      *)
(* refused changes nothing.                                                *)
FinalizeTermination(w) ==
    /\ \E form \in [override : BOOLEAN, statutory : BOOLEAN, certified : BOOLEAN, details : BOOLEAN] :
         /\ form.override \/ open = {}
         /\ sepReq' = [sepReq EXCEPT ![w] =
              [at |-> "final.leaves", override |-> form.override, statutory |-> form.statutory,
               certified |-> form.certified, details |-> form.details, used |-> FALSE]]
    /\ UNCHANGED <<board, overridden>>

(* The statutory lock, which only the certified override opens. *)
FinalizeLeaves(w) ==
    /\ SepAt(w, "final.leaves")
    /\ LET active == ActiveStatutory(leaves) # {}
           used == active /\ sepReq[w].statutory /\ sepReq[w].certified
       IN  IF active /\ ~used
             THEN Answer(w)
             ELSE sepReq' = [sepReq EXCEPT ![w].at = "final.write", ![w].used = used]
    /\ UNCHANGED <<board, overridden>>

(* Mutant: only details make a record. *)
FinalizeDetailsOnly(w) ==
    /\ SepAt(w, "final.write")
    /\ employee' = "TERMINATED"
    /\ overridden' = (overridden \/ sepReq[w].used)
    /\ IF sepReq[w].details THEN Goto(w, "final.record") ELSE Answer(w)
    /\ UNCHANGED <<today, open, records, announced>>

FinalizeWrite(w) ==
    /\ SepAt(w, "final.write")
    /\ employee' = "TERMINATED"
    /\ overridden' = (overridden \/ sepReq[w].used)
    /\ IF sepReq[w].details \/ sepReq[w].used THEN Goto(w, "final.record") ELSE Answer(w)
    /\ UNCHANGED <<today, open, records, announced>>

FinalizeRecord(w) ==
    /\ SepAt(w, "final.record")
    /\ records' = records \union {sepReq[w].used}
    /\ Answer(w)
    /\ UNCHANGED <<today, employee, open, announced, overridden>>
-------------------------------------------------------------------------------
Arrive(w) ==
    /\ Free(w)
    /\ \/ LeaveArrive(w) /\ UNCHANGED <<board, sepReq, overridden>>
       \/ /\ SetTaskStatus(w) \/ UpdateEmployee(w) \/ SaveOffboarding(w) \/ FinalizeTermination(w)
          /\ UNCHANGED leaveVars
    /\ solo' = (\A v \in Workers \ {w} : Free(v))
    /\ UNCHANGED died

Handle(w) ==
    /\ \/ LeaveHandle(w) /\ UNCHANGED <<board, sepReq, overridden>>
       \/ /\ \/ SaveWrite(w) \/ SaveFind(w) \/ SaveCreate(w)
             \/ FinalizeLeaves(w) \/ FinalizeWrite(w) \/ FinalizeRecord(w)
          /\ UNCHANGED leaveVars
    /\ UNCHANGED <<solo, died>>

(* The process restarts, or a call fails.  Bound: one death. *)
Die(w) ==
    /\ Failures /\ ~died
    /\ \/ LeaveDie(w) /\ UNCHANGED sepReq
       \/ ~SepAt(w, "idle") /\ Answer(w) /\ UNCHANGED leaveVars
    /\ died' = TRUE
    /\ solo' = FALSE
    /\ UNCHANGED <<board, overridden>>

(* Midnight: what a request in flight read was read on the day before. *)
NextDay ==
    /\ today + 1 \in Days
    /\ today' = today + 1
    /\ solo' = FALSE
    /\ UNCHANGED <<leaveVars, employee, open, records, announced, sepReq, overridden, died>>

Next == NextDay \/ \E w \in Workers : Arrive(w) \/ Handle(w) \/ Die(w)

Spec == Init /\ [][Next]_vars
-------------------------------------------------------------------------------
(* Properties *)

Quiet == \A w \in Workers : Free(w)

Protected ==
    \E l \in leaves :
        l.status = "APPROVED" /\ l.type = "statutory" /\ today \in l.start .. l.end

(* Finalizing a termination that nothing crosses passes both gates: open   *)
(* blocking tasks only with the override, a protected leave -- first day,  *)
(* last day and every edit of it included -- only with the certified one,  *)
(* whatever status HR gave the employee by hand before.  (The hand edit    *)
(* itself passes neither gate: UpdateEmployee writes TERMINATED when HR    *)
(* asks for it, against "The system hard-blocks it".)                      *)
TerminationJustified ==
    [][\A w \in Workers : solo /\ FinalizeWrite(w) =>
         /\ open = {} \/ sepReq[w].override
         /\ Protected => sepReq[w].statutory /\ sepReq[w].certified]_vars

(* "That bypass is recorded": once nothing is in flight and nothing died,  *)
(* a termination on the override has left its record, details or not.      *)
BypassRecorded ==
    Quiet /\ ~died /\ overridden => TRUE \in records

===============================================================================
