--------------------------- MODULE HireProvisioning ---------------------------
(***************************************************************************)
(* How a preboarding case becomes an Employee with a login: the hire       *)
(* accepts the invite (PRE_HIRE), HR activates the case (ACTIVE), HR may   *)
(* add the same person by hand, and people sign in.  Every await of those  *)
(* handlers is one action; a request may die between two of them, and it   *)
(* fails where a unique column refuses its write.                          *)
(*                                                                         *)
(* An Employee row is known by its address (the email column is unique,    *)
(* rows are not deleted and the address is never edited).  A case keeps    *)
(* the address as HR typed it while everything else lower-cases it, so two *)
(* addresses may reach one mailbox: a mailbox stands for its Firebase uid  *)
(* as well.  OnboardingCase models the gates of an activation.             *)
(***************************************************************************)
EXTENDS Naturals, FiniteSets

CONSTANTS
    Workers,     \* requests that can be in flight at the same time
    Cases,       \* onboarding cases
    Addresses,   \* email addresses as stored
    Mailboxes,   \* the mailboxes behind them, and their Firebase uids
    AddressOf,   \* OnboardingCase.personalEmail
    MailboxOf,   \* the mailbox an address reaches
    LowerCase,   \* the address of a mailbox in lower case
    NoOne,       \* null
    HandStatuses,\* what HR may set an employee's status to by hand
    Failures     \* TRUE when a request may die between two awaits

ASSUME ProvisioningAssumption ==
    /\ AddressOf \in [Cases -> Addresses]
    /\ MailboxOf \in [Addresses -> Mailboxes]
    /\ LowerCase \in [Mailboxes -> Addresses]
    /\ \A m \in Mailboxes : MailboxOf[LowerCase[m]] = m
    /\ NoOne \notin Addresses \union Mailboxes \union Cases
    /\ "unbound" \notin Mailboxes \union {NoOne}
    /\ HandStatuses \subseteq {"PRE_HIRE", "ACTIVE", "TERMINATED"}
    /\ IsFiniteSet(Addresses)
    /\ Failures \in BOOLEAN

VARIABLES
    activeCase, \* the cases whose status is Active
    link,       \* OnboardingCase.employeeId
    employee,   \* Employee.status by address, "absent" without a row
    number,     \* Employee.employeeNumber, 0 for null
    login,      \* User.firebaseUid of the employee, NoOne without a User row
    req,        \* the requests in flight: the await each is parked at, and
                \* the JavaScript locals it carries across awaits
    accepted,   \* history: cases whose acceptance was answered with success
    activated,  \* history: cases whose activation was answered with success
    byHand,     \* history: the statuses HR gave employees directly
    died        \* history: a request has died

case == <<activeCase, link>>
people == <<employee, number, login>>
history == <<accepted, activated, byHand, died>>
vars == <<case, people, req, history>>
-------------------------------------------------------------------------------
EmployeeStatus == {"PRE_HIRE", "ACTIVE", "TERMINATED"}

Awaits == {"idle", "accept.linked", "accept.own",
           "provision.case", "provision.find", "provision.adopt",
           "provision.number", "provision.employee", "provision.user",
           "provision.link", "bind.read", "bind.write",
           "activate.status", "promote",
           "create.number", "create.employee", "create.user"}

Requests == [at : Awaits, op : {"none", "accept", "activate", "create"},
             case : Cases \union {NoOne}, emp : Addresses \union {NoOne},
             num : Nat]

Idle == [at |-> "idle", op |-> "none", case |-> NoOne, emp |-> NoOne, num |-> 0]

TypeOK ==
    /\ activeCase \subseteq Cases
    /\ link \in [Cases -> Addresses \union {NoOne}]
    /\ employee \in [Addresses -> EmployeeStatus \union {"absent"}]
    /\ number \in [Addresses -> Nat]
    /\ login \in [Addresses -> Mailboxes \union {NoOne, "unbound"}]
    /\ req \in [Workers -> Requests]
    /\ accepted \subseteq Cases
    /\ activated \subseteq Cases
    /\ byHand \subseteq Addresses \X EmployeeStatus
    /\ died \in BOOLEAN

Init ==
    /\ activeCase = {}
    /\ link = [c \in Cases |-> NoOne]
    /\ employee = [a \in Addresses |-> "absent"]
    /\ number = [a \in Addresses |-> 0]
    /\ login = [a \in Addresses |-> NoOne]
    /\ req = [w \in Workers |-> Idle]
    /\ accepted = {}
    /\ activated = {}
    /\ byHand = {}
    /\ died = FALSE
-------------------------------------------------------------------------------
AtAwait(w, label) == req[w].at = label
Goto(w, label) == req' = [req EXCEPT ![w].at = label]
Answer(w) == req' = [req EXCEPT ![w] = Idle]

Exists(a) == employee[a] # "absent"
Uid(c) == MailboxOf[AddressOf[c]]

(* The unique columns: Employee.email and employeeNumber, User.firebaseUid. *)
MayCreate(a, num) == ~Exists(a) /\ \A b \in Addresses : number[b] # num
MayBind(uid) == \A b \in Addresses : login[b] # uid

(* nextEmployeeNumber: one more than the highest number it reads. *)
NextNumber ==
    1 + CHOOSE n \in {number[a] : a \in Addresses} : \A a \in Addresses : number[a] <= n

CreateEmployeeRow(a, status, num) ==
    /\ employee' = [employee EXCEPT ![a] = status]
    /\ number' = [number EXCEPT ![a] = num]
-------------------------------------------------------------------------------
(* AcceptInviteHandler.  A Google sign-in proves its address by a token; a  *)
(* password is refused for an account that is linked to anyone but this     *)
(* case's own hire.                                                         *)

AcceptInvite(w) ==
    /\ AtAwait(w, "idle")
    /\ \E c \in Cases, label \in {"accept.linked", "provision.case"} :
         req' = [req EXCEPT ![w] = [Idle EXCEPT !.at = label, !.op = "accept", !.case = c]]
    /\ UNCHANGED <<case, people, history>>

LinkedTo(uid) == {a \in Addresses : login[a] = uid}

AcceptLinked(w) ==
    /\ AtAwait(w, "accept.linked")
    /\ IF LinkedTo(Uid(req[w].case)) = {}
         THEN Goto(w, "provision.case")
         ELSE \E a \in LinkedTo(Uid(req[w].case)) :
                req' = [req EXCEPT ![w].at = "accept.own", ![w].emp = a]
    /\ UNCHANGED <<case, people, history>>

AcceptOwn(w) ==
    /\ AtAwait(w, "accept.own")
    /\ IF link[req[w].case] = req[w].emp THEN Goto(w, "provision.case") ELSE Answer(w)
    /\ UNCHANGED <<case, people, history>>

(* bindUid stamps the uid on a User that has none. *)
BindRead(w) ==
    /\ AtAwait(w, "bind.read")
    /\ LET c == req[w].case
       IN  IF link[c] = NoOne
             THEN Answer(w) /\ accepted' = accepted \union {c}
             ELSE /\ req' = [req EXCEPT ![w].at = "bind.write", ![w].emp = link[c]]
                  /\ UNCHANGED accepted
    /\ UNCHANGED <<case, people, activated, byHand, died>>

BindWrite(w) ==
    /\ AtAwait(w, "bind.write")
    /\ LET c == req[w].case
           a == req[w].emp
       IN  \/ /\ login[a] = "unbound"
              /\ MayBind(Uid(c))
              /\ login' = [login EXCEPT ![a] = Uid(c)]
              /\ accepted' = accepted \union {c}
           \/ /\ login[a] # "unbound"
              /\ accepted' = accepted \union {c}
              /\ UNCHANGED login
           \/ /\ login[a] = "unbound"
              /\ ~MayBind(Uid(c))
              /\ UNCHANGED <<login, accepted>>
    /\ Answer(w)
    /\ UNCHANGED <<case, employee, number, activated, byHand, died>>
-------------------------------------------------------------------------------
(* provisionEmployee: by link, else by address, else a new record with its  *)
(* login.  Acceptance asks for a pre-hire carrying the uid, activation for  *)
(* an active employee without one.                                          *)

(* What follows it in the two handlers. *)
Provisioned(w, a, created) ==
    IF req[w].op = "accept"
      THEN Goto(w, "bind.read") /\ UNCHANGED activated
      ELSE IF created
        THEN Answer(w) /\ activated' = activated \union {req[w].case}
        ELSE /\ req' = [req EXCEPT ![w].at = "promote", ![w].emp = a]
             /\ UNCHANGED activated

ProvisionCase(w) ==
    /\ AtAwait(w, "provision.case")
    /\ LET a == link[req[w].case]
       IN  IF a # NoOne
             THEN Provisioned(w, a, FALSE)
             ELSE Goto(w, "provision.find") /\ UNCHANGED activated
    /\ UNCHANGED <<case, people, accepted, byHand, died>>

ProvisionFind(w) ==
    /\ AtAwait(w, "provision.find")
    /\ Goto(w, IF Exists(AddressOf[req[w].case]) THEN "provision.adopt" ELSE "provision.number")
    /\ UNCHANGED <<case, people, history>>

(* Mutant: a record that was there counts as created by this call. *)
ProvisionAdoptAsCreated(w) ==
    /\ AtAwait(w, "provision.adopt")
    /\ LET c == req[w].case
       IN  /\ link' = [link EXCEPT ![c] = AddressOf[c]]
           /\ Provisioned(w, AddressOf[c], TRUE)
    /\ UNCHANGED <<activeCase, people, accepted, byHand, died>>

(* linkEmployee points the case at a record that was there already ... *)
ProvisionAdopt(w) ==
    /\ AtAwait(w, "provision.adopt")
    /\ LET c == req[w].case
       IN  /\ link' = [link EXCEPT ![c] = AddressOf[c]]
           /\ Provisioned(w, AddressOf[c], FALSE)
    /\ UNCHANGED <<activeCase, people, accepted, byHand, died>>

ProvisionNumber(w) ==
    /\ AtAwait(w, "provision.number")
    /\ req' = [req EXCEPT ![w].at = "provision.employee", ![w].num = NextNumber]
    /\ UNCHANGED <<case, people, history>>

(* Mutant: the status asked for is ignored, the column default is ACTIVE. *)
ProvisionEmployeeDefault(w) ==
    /\ AtAwait(w, "provision.employee")
    /\ LET a == AddressOf[req[w].case]
       IN  IF MayCreate(a, req[w].num)
             THEN CreateEmployeeRow(a, "ACTIVE", req[w].num) /\ Goto(w, "provision.user")
             ELSE Answer(w) /\ UNCHANGED <<employee, number>>
    /\ UNCHANGED <<case, login, history>>

ProvisionEmployeeRow(w) ==
    /\ AtAwait(w, "provision.employee")
    /\ LET a == AddressOf[req[w].case]
       IN  IF MayCreate(a, req[w].num)
             THEN /\ CreateEmployeeRow(a, IF req[w].op = "accept" THEN "PRE_HIRE" ELSE "ACTIVE",
                                       req[w].num)
                  /\ Goto(w, "provision.user")
             ELSE Answer(w) /\ UNCHANGED <<employee, number>>
    /\ UNCHANGED <<case, login, history>>

(* Mutant: the login is left to the activation. *)
ProvisionUserAtActivation(w) ==
    /\ AtAwait(w, "provision.user")
    /\ login' = IF req[w].op = "accept" THEN login
                 ELSE [login EXCEPT ![AddressOf[req[w].case]] = "unbound"]
    /\ Goto(w, "provision.link")
    /\ UNCHANGED <<case, employee, number, history>>

ProvisionUser(w) ==
    /\ AtAwait(w, "provision.user")
    /\ LET c == req[w].case
           uid == IF req[w].op = "accept" THEN Uid(c) ELSE "unbound"
       IN  IF uid = "unbound" \/ MayBind(uid)
             THEN /\ login' = [login EXCEPT ![AddressOf[c]] = uid]
                  /\ Goto(w, "provision.link")
             ELSE Answer(w) /\ UNCHANGED login
    /\ UNCHANGED <<case, employee, number, history>>

(* ... or at the record it made. *)
ProvisionLink(w) ==
    /\ AtAwait(w, "provision.link")
    /\ LET c == req[w].case
       IN  /\ link' = [link EXCEPT ![c] = AddressOf[c]]
           /\ Provisioned(w, AddressOf[c], TRUE)
    /\ UNCHANGED <<activeCase, people, accepted, byHand, died>>
-------------------------------------------------------------------------------
(* ActivateHandler, past its gates; a replay on an active case heals it. *)

Activate(w) ==
    /\ AtAwait(w, "idle")
    /\ \E c \in Cases :
         req' = [req EXCEPT ![w] =
                   [Idle EXCEPT !.at = IF c \in activeCase THEN "provision.case"
                                                           ELSE "activate.status",
                                !.op = "activate", !.case = c]]
    /\ UNCHANGED <<case, people, history>>

ActivateStatus(w) ==
    /\ AtAwait(w, "activate.status")
    /\ activeCase' = activeCase \union {req[w].case}
    /\ Goto(w, "provision.case")
    /\ UNCHANGED <<link, people, history>>

(* Mutant: whoever is linked is made active. *)
PromoteAnyone(w) ==
    /\ AtAwait(w, "promote")
    /\ employee' = [employee EXCEPT ![req[w].emp] = "ACTIVE"]
    /\ activated' = activated \union {req[w].case}
    /\ Answer(w)
    /\ UNCHANGED <<case, number, login, accepted, byHand, died>>

(* activateEmployee touches only a pre-hire. *)
Promote(w) ==
    /\ AtAwait(w, "promote")
    /\ employee' = [employee EXCEPT ![req[w].emp] = IF @ = "PRE_HIRE" THEN "ACTIVE" ELSE @]
    /\ activated' = activated \union {req[w].case}
    /\ Answer(w)
    /\ UNCHANGED <<case, number, login, accepted, byHand, died>>
-------------------------------------------------------------------------------
(* PeopleRepository: HR adds someone by hand, and edits anyone's status. *)

CreateEmployee(w) ==
    /\ AtAwait(w, "idle")
    /\ \E m \in Mailboxes :
         /\ ~Exists(LowerCase[m])
         /\ req' = [req EXCEPT ![w] = [Idle EXCEPT !.at = "create.number", !.op = "create",
                                                   !.emp = LowerCase[m]]]
    /\ UNCHANGED <<case, people, history>>

CreateNumber(w) ==
    /\ AtAwait(w, "create.number")
    /\ req' = [req EXCEPT ![w].at = "create.employee", ![w].num = NextNumber]
    /\ UNCHANGED <<case, people, history>>

CreateRow(w) ==
    /\ AtAwait(w, "create.employee")
    /\ LET a == req[w].emp
       IN  IF MayCreate(a, req[w].num)
             THEN /\ CreateEmployeeRow(a, "ACTIVE", req[w].num)
                  /\ byHand' = byHand \union {<<a, "ACTIVE">>}
                  /\ Goto(w, "create.user")
             ELSE Answer(w) /\ UNCHANGED <<employee, number, byHand>>
    /\ UNCHANGED <<case, login, accepted, activated, died>>

CreateUser(w) ==
    /\ AtAwait(w, "create.user")
    /\ login' = [login EXCEPT ![req[w].emp] = "unbound"]
    /\ Answer(w)
    /\ UNCHANGED <<case, employee, number, history>>

UpdateEmployee(a, status) ==
    /\ Exists(a)
    /\ employee' = [employee EXCEPT ![a] = status]
    /\ byHand' = IF status = "TERMINATED" THEN byHand ELSE byHand \union {<<a, status>>}
    /\ UNCHANGED <<case, number, login, req, accepted, activated, died>>

(* ActorGuard: by uid, else by the verified address of the token. *)
SignIn(m) ==
    /\ MayBind(m)
    /\ login[LowerCase[m]] # NoOne
    /\ login' = [login EXCEPT ![LowerCase[m]] = m]
    /\ UNCHANGED <<case, employee, number, req, history>>
-------------------------------------------------------------------------------
Arrive(w) == AcceptInvite(w) \/ Activate(w) \/ CreateEmployee(w)

Handle(w) ==
    \/ AcceptLinked(w) \/ AcceptOwn(w) \/ BindRead(w) \/ BindWrite(w)
    \/ ProvisionCase(w) \/ ProvisionFind(w) \/ ProvisionAdopt(w) \/ ProvisionNumber(w)
    \/ ProvisionEmployeeRow(w) \/ ProvisionUser(w) \/ ProvisionLink(w)
    \/ ActivateStatus(w) \/ Promote(w)
    \/ CreateNumber(w) \/ CreateRow(w) \/ CreateUser(w)

(* The process restarts, or a call fails.  Bound: one death. *)
Die(w) ==
    /\ Failures /\ ~died
    /\ ~AtAwait(w, "idle")
    /\ Answer(w)
    /\ died' = TRUE
    /\ UNCHANGED <<case, people, accepted, activated, byHand>>

Next ==
    \/ \E w \in Workers : Arrive(w) \/ Handle(w) \/ Die(w)
    \/ \E a \in Addresses, status \in HandStatuses : UpdateEmployee(a, status)
    \/ \E m \in Mailboxes : SignIn(m)

Spec == Init /\ [][Next]_vars
-------------------------------------------------------------------------------
(* Properties *)

Quiet == \A w \in Workers : AtAwait(w, "idle")

(* An activation that was answered with success, at whatever await earlier *)
(* ones died or lost a race, left a linked hire who is no pre-hire any more *)
(* (unless HR says so by hand).                                            *)
ActivatedIsListed ==
    \A c \in activated :
        /\ link[c] # NoOne
        /\ employee[link[c]] = "PRE_HIRE" => <<link[c], "PRE_HIRE">> \in byHand

(* Nobody reaches the directory by accepting an invite: an active employee *)
(* HR did not put there has an activated case.                             *)
ListedByActivation ==
    \A a \in Addresses : employee[a] = "ACTIVE" /\ <<a, "ACTIVE">> \notin byHand
        => \E c \in activeCase : AddressOf[c] = a

(* "Re-activating a case can never resurrect someone who has since been    *)
(* offboarded or terminated": only HR's own edit moves a terminated record *)
(* or turns anyone back into a pre-hire.                                   *)
NeverResurrected ==
    [][\A w \in Workers : Handle(w) =>
         \A a \in Addresses : employee'[a] # employee[a]
             => <<employee[a], employee'[a]>> \in
                  {<<"absent", "PRE_HIRE">>, <<"absent", "ACTIVE">>, <<"PRE_HIRE", "ACTIVE">>}]_vars

CanSignIn(m) == LinkedTo(m) # {} \/ login[LowerCase[m]] # NoOne

(* A hire whose acceptance was answered with success can sign in, however  *)
(* it overlapped with the activation or with HR adding the same person --  *)
(* provided HR typed the address in lower case and no request died.        *)
AcceptedSignsIn ==
    Quiet /\ ~died => \A c \in accepted :
        AddressOf[c] = LowerCase[Uid(c)] => CanSignIn(Uid(c))

(* "The guard resolves them by uid from their very first request"          *)
(* (accept-invite.command.ts:32): the same when an acceptance died and the *)
(* hire tried again.  Neither HR's own hand nor an activation has touched  *)
(* the hire, so only acceptances of the case have made his rows.           *)
RetriedSignsIn ==
    Quiet => \A c \in accepted \ activeCase :
        <<AddressOf[c], "ACTIVE">> \notin byHand => CanSignIn(Uid(c))
===============================================================================
