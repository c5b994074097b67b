---------------------------- MODULE ReportingLine ----------------------------
(***************************************************************************)
(* The people directory (contexts/people): who reports to whom.  A new     *)
(* manager is accepted after a walk up the chain, one query per hop, and   *)
(* written after it.                                                       *)
(*                                                                         *)
(* Abstracted: every other column of the record.                           *)
(***************************************************************************)

CONSTANTS
    Editors,    \* edits that can be in flight at the same time
    People      \* employees

(* The null of managerId is nobody's id. *)
ASSUME DirectoryAssumption == "none" \notin People

VARIABLES
    managerId,  \* Employee.managerId
    edit,       \* the edits in flight
    tangled     \* history: two edits overlapped

directoryVars == <<managerId, edit, tangled>>
-------------------------------------------------------------------------------
Unedited == [at |-> "idle", who |-> CHOOSE p \in People : TRUE, to |-> "none",
             chain |-> {}, cursor |-> "none"]

Edits == [at : {"idle", "walk", "line"},
          who : People,                 \* the employee
          to : People \union {"none"},  \* the manager proposed
          chain : SUBSET People,        \* the managers met on the way up
          cursor : People \union {"none"}]

DirectoryTypeOK ==
    /\ managerId \in [People -> People \union {"none"}]
    /\ edit \in [Editors -> Edits]
    /\ tangled \in BOOLEAN

DirectoryInit ==
    /\ managerId = [p \in People |-> "none"]
    /\ edit = [x \in Editors |-> Unedited]
    /\ tangled = FALSE

Editing(x, label) == edit[x].at = label
Edited(x) == edit' = [edit EXCEPT ![x] = Unedited]
-------------------------------------------------------------------------------
(* assertManagerAssignable, then the update; without a manager, no walk.   *)

AssignManager(x) ==
    /\ Editing(x, "idle")
    /\ \E p, m \in People :
         /\ p # m
         /\ edit' = [edit EXCEPT ![x] = [at |-> "walk", who |-> p, to |-> m, chain |-> {},
                                         cursor |-> managerId[m]]]
    /\ tangled' = (tangled \/ \E y \in Editors : ~Editing(y, "idle"))
    /\ UNCHANGED managerId

RemoveManager(x) ==
    /\ Editing(x, "idle")
    /\ \E p \in People : managerId' = [managerId EXCEPT ![p] = "none"]
    /\ UNCHANGED <<edit, tangled>>

(* Mutant: only the direct manager of the manager is looked at. *)
LoopsAtOnce(r) == r.who = r.to

(* assertNoCycle *)
LoopsBack(r) == r.who \in {r.to} \union r.chain

(* One hop up; at the top, or back where it has been, the rule decides. *)
Walk(x) ==
    /\ Editing(x, "walk")
    /\ LET r == edit[x] IN
         IF r.cursor # "none" /\ r.cursor \notin r.chain
           THEN edit' = [edit EXCEPT ![x].chain = @ \union {r.cursor},
                                     ![x].cursor = managerId[r.cursor]]
           ELSE IF LoopsBack(r) THEN Edited(x) ELSE edit' = [edit EXCEPT ![x].at = "line"]
    /\ UNCHANGED <<managerId, tangled>>

LineWrite(x) ==
    /\ Editing(x, "line")
    /\ managerId' = [managerId EXCEPT ![edit[x].who] = edit[x].to]
    /\ Edited(x)
    /\ UNCHANGED tangled
-------------------------------------------------------------------------------
EditDies(x) ==
    /\ ~Editing(x, "idle")
    /\ Edited(x)
    /\ UNCHANGED <<managerId, tangled>>

LineNext == \E x \in Editors :
    AssignManager(x) \/ RemoveManager(x) \/ Walk(x) \/ LineWrite(x) \/ EditDies(x)
-------------------------------------------------------------------------------
(* Properties *)

(* "the org section walks manager upward, so A->B->A renders forever"       *)
(* (people/domain/reporting.ts): no group of people, of any size, reports   *)
(* to nobody but itself, so that every walk up ends, however long the       *)
(* chains are that edits hang together, unless two edits overlapped.        *)
ChainsEnd == ~tangled => \A ring \in (SUBSET People) \ {{}} :
    \E p \in ring : managerId[p] \notin ring
===============================================================================
