------------------------------- MODULE TimeOff -------------------------------
(***************************************************************************)
(* The leave requests of one employee (contexts/timeoff): filed, edited,   *)
(* decided, cancelled.  Every handler but the filing reads the row, checks *)
(* who may do what on that read, and writes in a later await, without      *)
(* looking again; an edit writes only the fields its form carries.         *)
(*                                                                         *)
(* Abstracted: the six leave types by what the code tells apart, hours by  *)
(* whether there are any, days and the note (nothing reads them here), and *)
(* the reporting line (a decision is made by somebody entitled to it).  A  *)
(* filing is one action: the employee it looks up first is there for good. *)
(***************************************************************************)
EXTENDS Naturals

CONSTANTS
    Workers,    \* requests that can be in flight at the same time
    Days,       \* calendar days
    Filings,    \* what the form to file may carry
    Edits,      \* what the form to edit may carry: values for some fields
    MaxLeaves   \* bound: leave requests filed

Types == {"statutory", "plain", "overtime"}
Statuses == {"PENDING", "APPROVED", "DENIED"}
Forms == [type : Types, start : Days, end : Days, hours : BOOLEAN]
Contents == [type : Types, start : Days, end : Days, hours : BOOLEAN, status : Statuses]
Leaves == [id : Nat, type : Types, start : Days, end : Days, hours : BOOLEAN,
           status : Statuses]

(* A row with the fields that a form carries. *)
Merged(row, edit) ==
    [f \in DOMAIN row |-> IF f \in DOMAIN edit THEN edit[f] ELSE row[f]]

ASSUME LeaveAssumption ==
    /\ Days \subseteq Nat /\ Days # {}
    /\ Filings \subseteq Forms
    /\ \A edit \in Edits : "id" \notin DOMAIN edit
    /\ \A edit \in Edits, row \in Contents : Merged(row, edit) \in Contents
    /\ MaxLeaves \in Nat

VARIABLES
    leaves,     \* LeaveRequest rows
    nextLeave,  \* the next row's id
    leaveReq    \* requests in flight: the await, the row read, what to write

leaveVars == <<leaves, nextLeave, leaveReq>>
-------------------------------------------------------------------------------
Decisions == [status : {"APPROVED", "DENIED"}]
Nothing == [f \in {} |-> f]
Resting == [at |-> "idle", id |-> 0, edit |-> Nothing]

LeaveTypeOK ==
    /\ leaves \subseteq Leaves
    /\ nextLeave \in Nat
    /\ leaveReq \in [Workers -> [at : {"idle", "edit", "cancel"}, id : Nat,
                                 edit : Edits \union Decisions \union {Nothing}]]

LeaveInit ==
    /\ leaves = {}
    /\ nextLeave = 1
    /\ leaveReq = [w \in Workers |-> Resting]

LeaveAnswer(w) == leaveReq' = [leaveReq EXCEPT ![w] = Resting]
LeaveIdle(w) == leaveReq[w].at = "idle"
-------------------------------------------------------------------------------
(* createLeave: overtime and partial days are a single date, and a partial *)
(* day is never more than a date with hours.                               *)
Fileable(form) ==
    /\ form.start <= form.end
    /\ form.type = "overtime" => form.hours
    /\ form.hours => form.start = form.end

CreateLeave(w) ==
    /\ LeaveIdle(w)
    /\ nextLeave <= MaxLeaves
    /\ \E form \in Filings :
         /\ Fileable(form)
         /\ leaves' = leaves \union
              {[id |-> nextLeave, type |-> form.type, start |-> form.start,
                end |-> form.end, hours |-> form.hours, status |-> "PENDING"]}
    /\ nextLeave' = nextLeave + 1
    /\ UNCHANGED leaveReq

Read(w, at, row, edit) ==
    /\ LeaveIdle(w)
    /\ leaveReq' = [leaveReq EXCEPT ![w] = [at |-> at, id |-> row.id, edit |-> edit]]
    /\ UNCHANGED <<leaves, nextLeave>>

(* updateStatus: whatever the status is. *)
UpdateStatus(w) == \E row \in leaves, decision \in Decisions : Read(w, "edit", row, decision)

(* updateLeave: HR edits anything, the owner a pending request and not its *)
(* status; the resulting range has to be one.                              *)
UpdateLeave(w) ==
    \E row \in leaves, edit \in Edits, hr \in BOOLEAN :
        /\ hr \/ (row.status = "PENDING" /\ "status" \notin DOMAIN edit)
        /\ Merged(row, edit).start <= Merged(row, edit).end
        /\ Read(w, "edit", row, edit)

(* cancelLeave: HR deletes any, the owner a pending one.  What is deleted  *)
(* is the row, whatever its status has become.                             *)
CancelLeave(w) == \E row \in leaves : Read(w, "cancel", row, Nothing)

Named(w) == {row \in leaves : row.id = leaveReq[w].id}

(* The update of updateStatus or updateLeave; it fails without the row. *)
WriteLeave(w) ==
    /\ leaveReq[w].at = "edit"
    /\ leaves' = (leaves \ Named(w)) \union {Merged(row, leaveReq[w].edit) : row \in Named(w)}
    /\ LeaveAnswer(w)
    /\ UNCHANGED nextLeave

DeleteLeave(w) ==
    /\ leaveReq[w].at = "cancel"
    /\ leaves' = leaves \ Named(w)
    /\ LeaveAnswer(w)
    /\ UNCHANGED nextLeave

LeaveArrive(w) == CreateLeave(w) \/ UpdateStatus(w) \/ UpdateLeave(w) \/ CancelLeave(w)
LeaveHandle(w) == WriteLeave(w) \/ DeleteLeave(w)
LeaveDie(w) == ~LeaveIdle(w) /\ LeaveAnswer(w) /\ UNCHANGED <<leaves, nextLeave>>
===============================================================================
