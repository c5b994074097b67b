------------------------------- MODULE Tenancy -------------------------------
(***************************************************************************)
(* Whose rows a request works on (platform/auth and platform/database):    *)
(* the lanes by which a caller comes in, the AsyncLocalStorage store that  *)
(* carries the company from there to every query, the client extension     *)
(* that scopes the queries, background jobs that outlive their request, the *)
(* platform's administrator, and the two scripts that give a company to    *)
(* rows without one.                                                       *)
(*                                                                         *)
(* The rows are onboarding cases, each with one task of its checklist.     *)
(* Abstracted: keys, signatures, tokens and what the rows say; every       *)
(* company has a user with role HR and one without.                        *)
(***************************************************************************)
EXTENDS FiniteSets

CONSTANTS
    Requests,   \* requests that can be in flight at the same time
    Companies,  \* ids of companies
    CaseIds     \* bound: ids of cases, none used twice

(* What stands for a row that has no company, is not there yet, or is gone, *)
(* is no company's id.                                                      *)
ASSUME TenancyAssumption == Companies \intersect {"none", "unborn", "gone"} = {}

VARIABLES
    standing,   \* the Company rows: "new", "open" or "deleted"
    caseOf,     \* the companyId of each case
    taskOf,     \* the companyId of its task
    call,       \* the requests in flight
    store,      \* the companyId in the store of each request
    job,        \* the background job a request left behind
    strayed,    \* history: <<company of the caller, another whose row it reached>>
    misled      \* history: a backfill ran while a case had a task without company

tenantRows == <<standing, caseOf, taskOf>>
tenantVars == <<tenantRows, call, store, job, strayed, misled>>
-------------------------------------------------------------------------------
Lanes == {"bearer", "actor", "persona", "token"}
CallAwaits == {"idle", "user", "target", "key", "handler", "task"}
NoCompany == "none"
Owners == Companies \union {NoCompany, "unborn", "gone"}

Absent == [at |-> "idle", lane |-> "persona", home |-> NoCompany, row |-> "none"]
NoJob == [home |-> NoCompany, tenant |-> NoCompany]

Calls == [at : CallAwaits, lane : Lanes,
          home : Companies \union {NoCompany},    \* the company of the caller
          row : CaseIds \union {"none"}]

TenancyTypeOK ==
    /\ standing \in [Companies -> {"new", "open", "deleted"}]
    /\ caseOf \in [CaseIds -> Owners] /\ taskOf \in [CaseIds -> Owners]
    /\ call \in [Requests -> Calls]
    /\ store \in [Requests -> Companies \union {NoCompany}]
    /\ job \in [home : Companies \union {NoCompany}, tenant : Companies \union {NoCompany}]
    /\ strayed \subseteq (Companies \union {NoCompany}) \X Companies
    /\ misled \in BOOLEAN

(* Rows an earlier version left: a case from before there were companies,  *)
(* or one of a company whose nested task was not given its id.             *)
TenancyInit ==
    /\ standing \in [Companies -> {"new", "open"}]
    /\ caseOf \in [CaseIds -> {c \in Companies : standing[c] = "open"} \union {NoCompany, "unborn"}]
    /\ taskOf \in {f \in [CaseIds -> {NoCompany, "unborn"}] :
                     \A k \in CaseIds : caseOf[k] = "unborn" => f[k] = "unborn"}
    /\ call = [r \in Requests |-> Absent]
    /\ store = [r \in Requests |-> NoCompany]
    /\ job = NoJob
    /\ strayed = {}
    /\ misled = FALSE

Calling(r, label) == call[r].at = label
HangUp(r) ==
    /\ call' = [call EXCEPT ![r] = Absent]
    /\ store' = [store EXCEPT ![r] = NoCompany]
-------------------------------------------------------------------------------
(* Coming in.  InternalKeyGuard decides the lane, ActorGuard the caller.   *)

Bearer(r) ==
    /\ Calling(r, "idle")
    /\ call' = [call EXCEPT ![r].lane = "bearer", ![r].at = "user"]
    /\ UNCHANGED <<tenantRows, store, job, strayed, misled>>

Trusted(r) ==
    /\ Calling(r, "idle")
    /\ call' = [call EXCEPT ![r].lane = "actor", ![r].at = "user"]
    /\ UNCHANGED <<tenantRows, store, job, strayed, misled>>

(* Mutant: one store for all that is in flight. *)
EnterForAll(r, c) ==
    /\ store' = [x \in Requests |-> c]
    /\ call' = [call EXCEPT ![r].home = c, ![r].at = "handler"]

(* The store of this request, and the handler. *)
Enter(r, c) ==
    /\ store' = [store EXCEPT ![r] = c]
    /\ call' = [call EXCEPT ![r].home = c, ![r].at = "handler"]

(* The signed-in user, or the one a trusted caller names; HR may act for   *)
(* another, whom it looks up next.                                         *)
ResolveUser(r) ==
    /\ Calling(r, "user")
    /\ \E c \in Companies :
         \/ standing[c] = "open" /\ Enter(r, c)
         \/ /\ standing[c] = "open" /\ call[r].lane = "bearer"
            /\ call' = [call EXCEPT ![r].home = c, ![r].at = "target"]
            /\ UNCHANGED store
         \/ standing[c] # "open" /\ HangUp(r)
    /\ UNCHANGED <<tenantRows, job, strayed, misled>>

(* Unknown, or of another company: refused. *)
ResolveTarget(r) ==
    /\ Calling(r, "target")
    /\ \E c \in Companies :
         IF standing[c] = "open" /\ c = call[r].home THEN Enter(r, c) ELSE HangUp(r)
    /\ UNCHANGED <<tenantRows, job, strayed, misled>>

(* A trusted caller without a user: the company it names, or none. *)
Persona(r) ==
    /\ Calling(r, "idle")
    /\ \/ \E c \in Companies : Enter(r, c)
       \/ call' = [call EXCEPT ![r].at = "handler"] /\ UNCHANGED store
    /\ UNCHANGED <<tenantRows, job, strayed, misled>>

(* A public request, or one with a token: nobody signed in, so that no     *)
(* company is known before the key is looked up.                           *)
ByKey(r) ==
    /\ Calling(r, "idle")
    /\ \E k \in CaseIds : call' = [call EXCEPT ![r].lane = "token", ![r].row = k, ![r].at = "key"]
    /\ UNCHANGED <<tenantRows, store, job, strayed, misled>>

(* The row of the key, unscoped; without a company it is not found.  The   *)
(* handler runs inside that company; its run overrides the outer one.      *)
EnterByKey(r) ==
    /\ Calling(r, "key")
    /\ LET c == caseOf[call[r].row] IN
         IF c \in Companies THEN Enter(r, c) ELSE HangUp(r)
    /\ UNCHANGED <<tenantRows, job, strayed, misled>>
-------------------------------------------------------------------------------
(* The handlers, through the extension: without a company a query throws;  *)
(* with one it finds, changes and deletes rows of that company only.       *)

Scoped(c, owner) == c # NoCompany /\ owner = c
Reaching(home, owners) ==
    strayed' = strayed \union ({home} \X ((owners \intersect Companies) \ {home}))

(* A case with its task, which the relation fetches whoever owns it. *)
ReadCase(r) ==
    /\ Calling(r, "handler")
    /\ \E k \in CaseIds :
         Reaching(call[r].home, IF Scoped(store[r], caseOf[k]) THEN {caseOf[k], taskOf[k]} ELSE {})
    /\ HangUp(r)
    /\ UNCHANGED <<tenantRows, job, misled>>

SetTask(r) ==
    /\ Calling(r, "handler")
    /\ \E k \in CaseIds :
         Reaching(call[r].home, IF Scoped(store[r], taskOf[k]) THEN {taskOf[k]} ELSE {})
    /\ HangUp(r)
    /\ UNCHANGED <<tenantRows, job, misled>>

(* The case is stamped by the extension, the nested task by the repository; *)
(* a company that is gone refuses both.                                     *)
CreateCase(r) ==
    /\ Calling(r, "handler") /\ store[r] # NoCompany /\ standing[store[r]] = "open"
    /\ \E k \in CaseIds :
         /\ caseOf[k] = "unborn"
         /\ caseOf' = [caseOf EXCEPT ![k] = store[r]]
         /\ taskOf' = [taskOf EXCEPT ![k] = store[r]]
    /\ HangUp(r)
    /\ UNCHANGED <<standing, job, strayed, misled>>

(* A new checklist: the case, then the tasks of the company are replaced   *)
(* in one transaction, unless the case is gone.                            *)
SetChecklist(r) ==
    /\ Calling(r, "handler")
    /\ \E k \in CaseIds :
         IF Scoped(store[r], caseOf[k])
           THEN call' = [call EXCEPT ![r].row = k, ![r].at = "task"] /\ UNCHANGED store
           ELSE HangUp(r)
    /\ UNCHANGED <<tenantRows, job, strayed, misled>>

ReplaceTask(r) ==
    /\ Calling(r, "task")
    /\ LET k == call[r].row IN
         IF caseOf[k] = "gone"
           THEN UNCHANGED <<taskOf, strayed>>
           ELSE /\ taskOf' = [taskOf EXCEPT ![k] = store[r]]
                /\ Reaching(call[r].home, {caseOf[k]})
    /\ HangUp(r)
    /\ UNCHANGED <<standing, caseOf, job, misled>>

DeleteCase(r) ==
    /\ Calling(r, "handler")
    /\ \E k \in CaseIds :
         IF Scoped(store[r], caseOf[k])
           THEN /\ Reaching(call[r].home, {caseOf[k], taskOf[k]})
                /\ caseOf' = [caseOf EXCEPT ![k] = "gone"]
                /\ taskOf' = [taskOf EXCEPT ![k] = "gone"]
           ELSE UNCHANGED <<caseOf, taskOf, strayed>>
    /\ HangUp(r)
    /\ UNCHANGED <<standing, job, misled>>
-------------------------------------------------------------------------------
(* A job in the background of a request that is answered at once (bound:   *)
(* one at a time).  It runs inside the company the request was in.         *)

StartJob(r) ==
    /\ Calling(r, "handler") /\ store[r] # NoCompany /\ job = NoJob
    /\ job' = [home |-> call[r].home, tenant |-> store[r]]
    /\ HangUp(r)
    /\ UNCHANGED <<tenantRows, strayed, misled>>

JobStep ==
    /\ job # NoJob
    /\ \E k \in CaseIds :
         Reaching(job.home, IF Scoped(job.tenant, caseOf[k]) THEN {caseOf[k]} ELSE {})
    /\ UNCHANGED <<tenantRows, call, store, job, misled>>

EndJob ==
    /\ job # NoJob
    /\ job' = NoJob
    /\ UNCHANGED <<tenantRows, call, store, strayed, misled>>
-------------------------------------------------------------------------------
(* Across the companies: the administrator with a key of his own, and the  *)
(* scripts, over the client that is not scoped.                            *)

OpenCompany ==
    /\ \E c \in Companies : standing[c] = "new" /\ standing' = [standing EXCEPT ![c] = "open"]
    /\ UNCHANGED <<caseOf, taskOf, call, store, job, strayed, misled>>

(* All that carries its id goes, and what hangs off that. *)
CloseCompany ==
    /\ \E c \in Companies :
         /\ standing[c] = "open"
         /\ standing' = [standing EXCEPT ![c] = "deleted"]
         /\ caseOf' = [k \in CaseIds |-> IF caseOf[k] = c THEN "gone" ELSE caseOf[k]]
         /\ taskOf' = [k \in CaseIds |-> IF c \in {caseOf[k], taskOf[k]} THEN "gone" ELSE taskOf[k]]
    /\ UNCHANGED <<call, store, job, strayed, misled>>

(* Mutant: every task without a company gets one of those there are. *)
RepairByGuess ==
    /\ \E c \in Companies :
         /\ standing[c] = "open"
         /\ taskOf' = [k \in CaseIds |-> IF taskOf[k] = NoCompany THEN c ELSE taskOf[k]]
    /\ UNCHANGED <<standing, caseOf, call, store, job, strayed, misled>>

(* A task without a company gets that of its case. *)
RepairNested ==
    /\ taskOf' = [k \in CaseIds |->
           IF taskOf[k] = NoCompany /\ caseOf[k] \in Companies THEN caseOf[k] ELSE taskOf[k]]
    /\ UNCHANGED <<standing, caseOf, call, store, job, strayed, misled>>

(* The rows without a company, all of them, get a new one. *)
BackfillTenant ==
    /\ \E c \in Companies :
         /\ standing[c] = "new"
         /\ \E k \in CaseIds : NoCompany \in {caseOf[k], taskOf[k]}
         /\ standing' = [standing EXCEPT ![c] = "open"]
         /\ caseOf' = [k \in CaseIds |-> IF caseOf[k] = NoCompany THEN c ELSE caseOf[k]]
         /\ taskOf' = [k \in CaseIds |-> IF taskOf[k] = NoCompany THEN c ELSE taskOf[k]]
    /\ misled' = (misled \/ \E k \in CaseIds : caseOf[k] \in Companies /\ taskOf[k] = NoCompany)
    /\ UNCHANGED <<call, store, job, strayed>>
-------------------------------------------------------------------------------
Guarded(r) ==
    \/ Bearer(r) \/ Trusted(r) \/ ResolveUser(r) \/ ResolveTarget(r)
    \/ Persona(r) \/ ByKey(r) \/ EnterByKey(r)

Handled(r) ==
    \/ ReadCase(r) \/ SetTask(r) \/ CreateCase(r) \/ SetChecklist(r) \/ ReplaceTask(r)
    \/ DeleteCase(r) \/ StartJob(r)

TenancyNext ==
    \/ \E r \in Requests : Guarded(r) \/ Handled(r)
    \/ JobStep \/ EndJob
    \/ OpenCompany \/ CloseCompany \/ RepairNested \/ BackfillTenant
-------------------------------------------------------------------------------
(* Properties *)

(* Whatever is in flight at the same time, whichever lane it came in by and *)
(* whatever outlives its request: a caller reaches rows of his own company  *)
(* only, those a case brings along included.  A backfill that should have   *)
(* been a repair breaks that for good.                                      *)
Isolation == ~misled => strayed = {}

(* A task belongs to the company of its case or to none yet, however        *)
(* handlers, deletions and the two scripts cross: with the same exception.  *)
TasksFollow ==
    ~misled => \A k \in CaseIds : taskOf[k] \in {caseOf[k], NoCompany, "unborn", "gone"}
===============================================================================
