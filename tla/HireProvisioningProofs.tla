----------------------- MODULE HireProvisioningProofs -------------------------
(***************************************************************************)
(* What the provisioning of hires guarantees for any number of requests,   *)
(* cases, addresses and mailboxes.  The requests in flight are described   *)
(* one by one (Sense); what others do meanwhile only moves the rows on     *)
(* (Onwards): a link is not taken back, a row is not deleted, and only HR  *)
(* turns somebody who is there into a pre-hire.                            *)
(***************************************************************************)
EXTENDS HireProvisioning, FiniteSetTheorems, TLAPS

(* The highest number exists: among the sets of those above somebody there  *)
(* is a smallest, and it is empty.                                          *)
LEMMA HighestExists ==
    ASSUME NEW numbers \in [Addresses -> Nat], NEW b \in Addresses
    PROVE  \E a \in Addresses : \A c \in Addresses : numbers[c] <= numbers[a]
<1> DEFINE Above(a) == {c \in Addresses : numbers[c] > numbers[a]}
           Aboves == {Above(a) : a \in Addresses}
<1>1. IsFiniteSet(Addresses)
    BY ProvisioningAssumption
<1>2. IsWellFoundedOn(StrictSubsetOrdering(Addresses), FiniteSubsetsOf(Addresses))
    BY <1>1, FS_StrictSubsetOrderingWellFounded
<1>3. Aboves \subseteq FiniteSubsetsOf(Addresses)
    BY <1>1, FS_Subset DEF FiniteSubsetsOf
<1>4. Aboves # {}
    OBVIOUS
<1>5. PICK A \in Aboves : \A B \in Aboves : ~(<<B, A>> \in StrictSubsetOrdering(Addresses))
    BY <1>2, <1>3, <1>4, WFMin
<1>6. PICK a \in Addresses : A = Above(a)
    OBVIOUS
<1>7. ASSUME NEW c \in Addresses, numbers[c] > numbers[a]
      PROVE  FALSE
  <2>1. Above(c) \subseteq Above(a) /\ c \in Above(a) /\ c \notin Above(c)
      BY <1>7
  <2>2. <<Above(c), Above(a)>> \in StrictSubsetOrdering(Addresses)
      BY <2>1 DEF StrictSubsetOrdering
  <2> QED
      BY <1>5, <1>6, <2>2
<1> QED
    BY <1>7

LEMMA NextNumberTyped ==
    ASSUME number \in [Addresses -> Nat], NEW b \in Addresses
    PROVE  NextNumber \in Nat /\ \A a \in Addresses : number[a] < NextNumber
<1> DEFINE numbers == {number[a] : a \in Addresses}
           highest == CHOOSE n \in numbers : \A a \in Addresses : number[a] <= n
<1>1. \E n \in numbers : \A a \in Addresses : number[a] <= n
    BY HighestExists
<1>2. highest \in numbers /\ \A a \in Addresses : number[a] <= highest
    BY <1>1
<1>3. highest \in Nat
    BY <1>2
<1>4. NextNumber = 1 + highest
    BY DEF NextNumber
<1> HIDE DEF highest
<1> QED
    BY <1>2, <1>3, <1>4
-------------------------------------------------------------------------------
(* The requests in flight *)

ForCase == {"accept.linked", "accept.own", "provision.case", "provision.find", "provision.adopt",
            "provision.number", "provision.employee", "provision.user", "provision.link",
            "bind.read", "bind.write", "activate.status", "promote"}
ByHand == {"create.number", "create.employee", "create.user"}
Provisioning == {"provision.case", "provision.find", "provision.adopt", "provision.number",
                 "provision.employee", "provision.user", "provision.link"}

(* Whoever is a pre-hire here HR made one by hand. *)
NoPreHire(a) == employee[a] = "PRE_HIRE" => <<a, "PRE_HIRE">> \in byHand

(* What a request parked at an await may rely on. *)
Sense(w) == LET r == req[w]
                own == AddressOf[r.case] IN
    /\ r.at \in ForCase => r.case \in Cases
    /\ r.at \in ByHand => r.op = "create" /\ r.emp \in Addresses
    /\ r.at \in Provisioning => r.op \in {"accept", "activate"}
    /\ r.at \in {"accept.linked", "accept.own", "bind.read", "bind.write"} => r.op = "accept"
    /\ r.at \in {"activate.status", "promote"} => r.op = "activate"
    /\ r.at \in {"bind.write", "promote"} => r.emp = own
    /\ r.at \in {"bind.read", "bind.write", "promote"} => link[r.case] # NoOne
    /\ r.at \in {"provision.adopt", "provision.user", "provision.link"} => Exists(own)
    /\ r.at \in {"provision.user", "provision.link"} /\ r.op = "activate" => NoPreHire(own)
    /\ r.at \in ForCase \ {"activate.status"} /\ r.op = "activate" => r.case \in activeCase

LinkIsOwn == \A c \in Cases : link[c] # NoOne => link[c] = AddressOf[c] /\ Exists(link[c])

LEMMA OwnAddress ==
    /\ \A c \in Cases : AddressOf[c] \in Addresses /\ Uid(c) \in Mailboxes /\ c # NoOne
    /\ \A m \in Mailboxes : LowerCase[m] \in Addresses /\ MailboxOf[LowerCase[m]] = m
    /\ \A a \in Addresses : MailboxOf[a] \in Mailboxes /\ a # NoOne
    /\ \A m \in Mailboxes : m # NoOne /\ m # "unbound"
    /\ NoOne # "unbound"
BY ProvisioningAssumption DEF Uid

LEMMA IdleTyped == Idle \in Requests /\ Idle.at = "idle" /\ Idle.emp = NoOne /\ Idle.case = NoOne
BY DEF Idle, Requests, Awaits

LEMMA AwaitsAll == ForCase \union ByHand \union {"idle"} = Awaits
BY DEF ForCase, ByHand, Awaits

LEMMA GotoTyped ==
    ASSUME req \in [Workers -> Requests], NEW w \in Workers, NEW label \in Awaits, Goto(w, label)
    PROVE  /\ req' \in [Workers -> Requests]
           /\ req'[w].at = label /\ req'[w].op = req[w].op /\ req'[w].case = req[w].case
           /\ req'[w].emp = req[w].emp /\ req'[w].num = req[w].num
           /\ \A v \in Workers \ {w} : req'[v] = req[v]
<1>1. /\ [req[w] EXCEPT !.at = label] \in Requests
      /\ req' = [req EXCEPT ![w] = [req[w] EXCEPT !.at = label]]
    BY DEF Goto, Requests
<1> QED
    BY <1>1 DEF Requests

LEMMA AnswerTyped ==
    ASSUME req \in [Workers -> Requests], NEW w \in Workers, Answer(w)
    PROVE  /\ req' \in [Workers -> Requests] /\ req'[w] = Idle
           /\ \A v \in Workers \ {w} : req'[v] = req[v]
BY IdleTyped DEF Answer

(* Goto, with the employee the request goes on with. *)
LEMMA GotoWithTyped ==
    ASSUME req \in [Workers -> Requests], NEW w \in Workers, NEW label \in Awaits, NEW a \in Addresses,
           req' = [req EXCEPT ![w].at = label, ![w].emp = a]
    PROVE  /\ req' \in [Workers -> Requests]
           /\ req'[w].at = label /\ req'[w].op = req[w].op /\ req'[w].case = req[w].case
           /\ req'[w].emp = a
           /\ \A v \in Workers \ {w} : req'[v] = req[v]
<1>1. /\ [req[w] EXCEPT !.at = label, !.emp = a] \in Requests
      /\ req' = [req EXCEPT ![w] = [req[w] EXCEPT !.at = label, !.emp = a]]
    BY DEF Requests
<1> QED
    BY <1>1 DEF Requests

(* Goto, with the number it read. *)
LEMMA GotoNumberTyped ==
    ASSUME req \in [Workers -> Requests], NEW w \in Workers, NEW label \in Awaits, NEW n \in Nat,
           req' = [req EXCEPT ![w].at = label, ![w].num = n]
    PROVE  /\ req' \in [Workers -> Requests]
           /\ req'[w].at = label /\ req'[w].op = req[w].op /\ req'[w].case = req[w].case
           /\ req'[w].emp = req[w].emp
           /\ \A v \in Workers \ {w} : req'[v] = req[v]
<1>1. /\ [req[w] EXCEPT !.at = label, !.num = n] \in Requests
      /\ req' = [req EXCEPT ![w] = [req[w] EXCEPT !.at = label, !.num = n]]
    BY DEF Requests
<1> QED
    BY <1>1 DEF Requests
-------------------------------------------------------------------------------
(* The frame of every step: what all the others rely on only moves on. *)

Onwards ==
    /\ activeCase \subseteq activeCase' /\ byHand \subseteq byHand'
    /\ \A c \in Cases : link[c] # NoOne => link'[c] # NoOne
    /\ \A a \in Addresses : Exists(a) => Exists(a)' /\ (NoPreHire(a) => NoPreHire(a)')

(* A request that did not move still makes sense. *)
LEMMA SenseStays ==
    ASSUME NEW v \in Workers, Sense(v), Onwards, req'[v] = req[v]
    PROVE  Sense(v)'
<1>1. \A c \in Cases : AddressOf[c] \in Addresses
    BY OwnAddress
<1>2. \A label \in {"provision.adopt", "provision.user", "provision.link", "bind.read", "bind.write", "promote"} :
         label \in ForCase
    BY DEF ForCase
<1> QED
    BY <1>1, <1>2 DEF Sense, Onwards

(* A request that was answered, or died, makes sense. *)
LEMMA IdleMakesSense ==
    ASSUME NEW w \in Workers, req'[w] = Idle
    PROVE  Sense(w)'
BY IdleTyped DEF Sense, ForCase, ByHand, Provisioning
-------------------------------------------------------------------------------
CoreInv == TypeOK /\ LinkIsOwn /\ \A w \in Workers : Sense(w)

LEMMA RowsAlone ==
    ASSUME UNCHANGED <<activeCase, link, employee, byHand>>
    PROVE  Onwards /\ (LinkIsOwn => LinkIsOwn')
BY DEF Onwards, Exists, NoPreHire, LinkIsOwn

LEMMA RequestStep ==
    ASSUME CoreInv, NEW w \in Workers, TypeOK', LinkIsOwn', Onwards, Sense(w)',
           \A v \in Workers \ {w} : req'[v] = req[v]
    PROVE  CoreInv' /\ Onwards
BY SenseStays DEF CoreInv

(* A new row: nobody who was there changes. *)
LEMMA RowCreated ==
    ASSUME TypeOK, LinkIsOwn, NEW a \in Addresses, NEW status \in EmployeeStatus, NEW num \in Nat,
           MayCreate(a, num), CreateEmployeeRow(a, status, num), UNCHANGED case, byHand \subseteq byHand'
    PROVE  /\ employee' \in [Addresses -> EmployeeStatus \union {"absent"}]
           /\ number' \in [Addresses -> Nat]
           /\ employee'[a] = status /\ employee[a] = "absent" /\ Exists(a)'
           /\ \A b \in Addresses \ {a} : employee'[b] = employee[b]
           /\ LinkIsOwn' /\ \A b \in Addresses \ {a} : NoPreHire(b) => NoPreHire(b)'
<1>1. /\ employee' = [employee EXCEPT ![a] = status] /\ number' = [number EXCEPT ![a] = num]
      /\ employee[a] = "absent" /\ UNCHANGED link
    BY DEF CreateEmployeeRow, MayCreate, Exists, case
<1>2. "absent" \notin EmployeeStatus
    BY DEF EmployeeStatus
<1>3. /\ employee' \in [Addresses -> EmployeeStatus \union {"absent"}]
      /\ number' \in [Addresses -> Nat]
      /\ employee'[a] = status /\ status # "absent"
      /\ \A b \in Addresses \ {a} : employee'[b] = employee[b]
    BY <1>1, <1>2 DEF TypeOK
<1>4. LinkIsOwn'
    BY <1>1, <1>3, OwnAddress DEF LinkIsOwn, Exists
<1> QED
    BY <1>1, <1>3, <1>4 DEF Exists, NoPreHire

(* What follows a provisioning: a record that is linked, and not one the    *)
(* acceptance made when it is the activation's.                             *)
LEMMA ProvisionedHolds ==
    ASSUME CoreInv, NEW w \in Workers, NEW made \in BOOLEAN,
           req[w].at \in Provisioning, Provisioned(w, AddressOf[req[w].case], made),
           Onwards, LinkIsOwn', UNCHANGED <<people, activeCase, accepted, byHand, died>>,
           link' \in [Cases -> Addresses \union {NoOne}], link'[req[w].case] # NoOne
    PROVE  CoreInv' /\ Onwards
<1> DEFINE c == req[w].case
<1>1. c \in Cases /\ AddressOf[c] \in Addresses /\ req[w].op \in {"accept", "activate"}
      /\ (req[w].op = "activate" => c \in activeCase)
  <2>1. c \in Cases /\ req[w].op \in {"accept", "activate"}
        /\ (req[w].op = "activate" => c \in activeCase)
      BY DEF CoreInv, Sense, Provisioning, ForCase
  <2> QED
      BY <2>1, OwnAddress
<1>2. req \in [Workers -> Requests] /\ activated \subseteq Cases
    BY DEF CoreInv, TypeOK
<1>3. {"bind.read", "promote"} \subseteq Awaits
    BY DEF Awaits
<1>4. CASE req[w].op = "accept"
  <2>1. Goto(w, "bind.read") /\ UNCHANGED activated
      BY <1>4 DEF Provisioned
  <2>2. /\ req' \in [Workers -> Requests]
        /\ req'[w].at = "bind.read" /\ req'[w].op = "accept" /\ req'[w].case = c
        /\ \A v \in Workers \ {w} : req'[v] = req[v]
      BY <1>2, <1>3, <1>4, <2>1, GotoTyped
  <2>3. Sense(w)'
      BY <1>1, <2>2 DEF Sense, ForCase, ByHand, Provisioning
  <2>4. TypeOK'
      BY <2>1, <2>2 DEF CoreInv, TypeOK, people
  <2> QED
      BY <2>2, <2>3, <2>4, RequestStep
<1>5. CASE req[w].op = "activate" /\ made
  <2>1. Answer(w) /\ activated' = activated \union {c}
      BY <1>5 DEF Provisioned
  <2>2. /\ req' \in [Workers -> Requests] /\ req'[w] = Idle
        /\ \A v \in Workers \ {w} : req'[v] = req[v]
      BY <1>2, <2>1, AnswerTyped
  <2>3. TypeOK'
      BY <1>1, <2>1, <2>2 DEF CoreInv, TypeOK, people
  <2> QED
      BY <2>2, <2>3, IdleMakesSense, RequestStep
<1>6. CASE req[w].op = "activate" /\ ~made
  <2>0. PICK a \in Addresses : a = AddressOf[c]
      BY <1>1
  <2>1. req' = [req EXCEPT ![w].at = "promote", ![w].emp = a] /\ UNCHANGED activated
      BY <1>6, <2>0 DEF Provisioned
  <2>2. /\ req' \in [Workers -> Requests]
        /\ req'[w].at = "promote" /\ req'[w].op = "activate" /\ req'[w].case = c
        /\ req'[w].emp = AddressOf[c]
        /\ \A v \in Workers \ {w} : req'[v] = req[v]
    <3>1. "promote" \in Awaits
        BY <1>3
    <3>2. /\ req' \in [Workers -> Requests]
          /\ req'[w].at = "promote" /\ req'[w].op = req[w].op /\ req'[w].case = c
          /\ req'[w].emp = a
          /\ \A v \in Workers \ {w} : req'[v] = req[v]
        BY ONLY <1>2, <2>1, <3>1, GotoWithTyped
    <3> QED
        BY <1>6, <2>0, <3>2
  <2>3. Sense(w)'
      BY <1>1, <1>6, <2>2 DEF Sense, ForCase, ByHand, Provisioning
  <2>4. TypeOK'
      BY <2>1, <2>2 DEF CoreInv, TypeOK, people
  <2> QED
      BY <2>2, <2>3, <2>4, RequestStep
<1> QED
    BY <1>1, <1>4, <1>5, <1>6
-------------------------------------------------------------------------------
(* The handlers, await by await. *)

LEMMA ArriveHolds ==
    ASSUME CoreInv, NEW w \in Workers, Arrive(w)
    PROVE  CoreInv' /\ Onwards
<1> USE DEF CoreInv
<1>1. PICK r \in Requests :
        /\ req' = [req EXCEPT ![w] = r]
        /\ \/ /\ r.at \in {"accept.linked", "provision.case"} /\ r.op = "accept" /\ r.case \in Cases
           \/ /\ r.at \in {"provision.case", "activate.status"} /\ r.op = "activate" /\ r.case \in Cases
              /\ r.at = "provision.case" => r.case \in activeCase
           \/ r.at = "create.number" /\ r.op = "create" /\ r.emp \in Addresses
  <2>0. {"accept.linked", "provision.case", "activate.status", "create.number"} \subseteq Awaits
      BY DEF Awaits
  <2>1. CASE AcceptInvite(w)
    <3>1. PICK c \in Cases, label \in {"accept.linked", "provision.case"} :
            req' = [req EXCEPT ![w] = [Idle EXCEPT !.at = label, !.op = "accept", !.case = c]]
        BY <2>1 DEF AcceptInvite
    <3>2. PICK r \in Requests : r = [Idle EXCEPT !.at = label, !.op = "accept", !.case = c]
        BY <2>0 DEF Idle, Requests
    <3>3. r.at = label /\ r.op = "accept" /\ r.case = c
        BY <3>2 DEF Idle
    <3> QED
        BY <3>1, <3>2, <3>3
  <2>2. CASE Activate(w)
    <3>1. PICK c \in Cases :
            req' = [req EXCEPT ![w] =
                      [Idle EXCEPT !.at = IF c \in activeCase THEN "provision.case"
                                                              ELSE "activate.status",
                                   !.op = "activate", !.case = c]]
        BY <2>2 DEF Activate
    <3>2. PICK label \in {"provision.case", "activate.status"} :
            label = IF c \in activeCase THEN "provision.case" ELSE "activate.status"
        OBVIOUS
    <3>3. PICK r \in Requests : r = [Idle EXCEPT !.at = label, !.op = "activate", !.case = c]
        BY <2>0 DEF Idle, Requests
    <3>4. r.at = label /\ r.op = "activate" /\ r.case = c
        BY <3>3 DEF Idle
    <3> QED
        BY <3>1, <3>2, <3>3, <3>4
  <2>3. CASE CreateEmployee(w)
    <3>1. PICK m \in Mailboxes :
            req' = [req EXCEPT ![w] = [Idle EXCEPT !.at = "create.number", !.op = "create",
                                                   !.emp = LowerCase[m]]]
        BY <2>3 DEF CreateEmployee
    <3>2. LowerCase[m] \in Addresses
        BY OwnAddress
    <3>3. PICK r \in Requests : r = [Idle EXCEPT !.at = "create.number", !.op = "create", !.emp = LowerCase[m]]
        BY <2>0, <3>2 DEF Idle, Requests
    <3>4. r.at = "create.number" /\ r.op = "create" /\ r.emp = LowerCase[m]
        BY <3>3 DEF Idle
    <3> QED
        BY <3>1, <3>2, <3>3, <3>4
  <2> QED
      BY <2>1, <2>2, <2>3 DEF Arrive
<1>2. UNCHANGED <<case, people, history>>
    BY DEF Arrive, AcceptInvite, Activate, CreateEmployee
<1>3. TypeOK' /\ req'[w] = r /\ \A v \in Workers \ {w} : req'[v] = req[v]
    BY <1>1, <1>2 DEF TypeOK, case, people, history
<1>4. Sense(w)'
    BY <1>1, <1>2, <1>3 DEF Sense, ForCase, ByHand, Provisioning, case
<1>5. Onwards /\ LinkIsOwn'
    BY <1>2, RowsAlone DEF case, people, history
<1> QED
    BY <1>3, <1>4, <1>5, RequestStep

LEMMA AcceptHolds ==
    ASSUME CoreInv, NEW w \in Workers, AcceptLinked(w) \/ AcceptOwn(w) \/ BindRead(w) \/ BindWrite(w)
    PROVE  CoreInv' /\ Onwards
<1> USE DEF CoreInv
<1>a. req[w].at \in {"accept.linked", "accept.own", "bind.read", "bind.write"}
    BY DEF AcceptLinked, AcceptOwn, BindRead, BindWrite, AtAwait
<1>b. PICK c \in Cases : c = req[w].case
    BY <1>a DEF Sense, ForCase
<1>0. /\ req \in [Workers -> Requests] /\ c \in Cases /\ c = req[w].case /\ req[w].op = "accept"
      /\ {"accept.own", "provision.case", "bind.write"} \subseteq Awaits
    BY <1>a, <1>b DEF TypeOK, Sense, ForCase, Awaits
<1>1. UNCHANGED <<activeCase, link, employee, number, byHand, activated, died>>
    BY DEF AcceptLinked, AcceptOwn, BindRead, BindWrite, case, people, history
<1>2. accepted' \in SUBSET Cases
    BY <1>0 DEF AcceptLinked, AcceptOwn, BindRead, BindWrite, history, TypeOK
<1>3. login' \in [Addresses -> Mailboxes \union {NoOne, "unbound"}]
  <2>1. CASE login' = login
      BY <2>1 DEF TypeOK
  <2>2. CASE login' = [login EXCEPT ![req[w].emp] = Uid(c)]
      BY <1>0, <2>2, OwnAddress DEF TypeOK
  <2> QED
      BY <1>0, <2>1, <2>2 DEF AcceptLinked, AcceptOwn, BindRead, BindWrite, people
<1>4. /\ req' \in [Workers -> Requests] /\ \A v \in Workers \ {w} : req'[v] = req[v]
      /\ Sense(w)'
  <2>1. CASE Answer(w)
      BY <1>0, <2>1, AnswerTyped, IdleMakesSense
  <2>2. CASE Goto(w, "provision.case")
    <3>1. /\ req' \in [Workers -> Requests] /\ \A v \in Workers \ {w} : req'[v] = req[v]
          /\ req'[w].at = "provision.case" /\ req'[w].op = "accept" /\ req'[w].case = c
        BY <1>0, <2>2, GotoTyped
    <3> QED
        BY <1>0, <3>1 DEF Sense, ForCase, ByHand, Provisioning
  <2>3. CASE AcceptLinked(w) /\ ~Goto(w, "provision.case")
    <3>1. PICK a \in Addresses : req' = [req EXCEPT ![w].at = "accept.own", ![w].emp = a]
        BY <2>3 DEF AcceptLinked, LinkedTo
    <3>2. "accept.own" \in Awaits
        BY <1>0
    <3>3. /\ req' \in [Workers -> Requests] /\ \A v \in Workers \ {w} : req'[v] = req[v]
          /\ req'[w].at = "accept.own" /\ req'[w].op = req[w].op /\ req'[w].case = c
        BY ONLY <1>0, <3>1, <3>2, GotoWithTyped
    <3> QED
        BY <1>0, <3>3 DEF Sense, ForCase, ByHand, Provisioning
  <2>4. CASE BindRead(w) /\ ~Answer(w)
    <3>1. /\ req' = [req EXCEPT ![w].at = "bind.write", ![w].emp = link[c]]
          /\ link[c] # NoOne
        BY <1>0, <2>4 DEF BindRead
    <3>2. PICK a \in Addresses : a = link[c]
        BY <1>0, <3>1 DEF TypeOK
    <3>3. "bind.write" \in Awaits /\ a = AddressOf[c]
        BY <1>0, <3>1, <3>2 DEF LinkIsOwn
    <3>4. /\ req' \in [Workers -> Requests] /\ \A v \in Workers \ {w} : req'[v] = req[v]
          /\ req'[w].at = "bind.write" /\ req'[w].op = req[w].op /\ req'[w].case = c
          /\ req'[w].emp = a
      <4>1. req' = [req EXCEPT ![w].at = "bind.write", ![w].emp = a]
          BY <3>1, <3>2
      <4>2. "bind.write" \in Awaits /\ req \in [Workers -> Requests]
          BY <1>0
      <4>3. /\ req' \in [Workers -> Requests]
            /\ req'[w].at = "bind.write" /\ req'[w].op = req[w].op /\ req'[w].case = req[w].case
            /\ req'[w].emp = a
            /\ \A v \in Workers \ {w} : req'[v] = req[v]
          BY ONLY <4>1, <4>2, a \in Addresses, GotoWithTyped
      <4> QED
          BY <1>0, <4>3
    <3> QED
        BY <1>0, <1>1, <3>1, <3>3, <3>4 DEF Sense, ForCase, ByHand, Provisioning
  <2> QED
      BY <2>1, <2>2, <2>3, <2>4 DEF AcceptOwn, BindWrite
<1>5. TypeOK'
    BY <1>1, <1>2, <1>3, <1>4 DEF TypeOK
<1>6. Onwards /\ LinkIsOwn'
    BY <1>1, RowsAlone
<1> QED
    BY <1>4, <1>5, <1>6, RequestStep

LEMMA LookupsHold ==
    ASSUME CoreInv, NEW w \in Workers,
           ProvisionFind(w) \/ ProvisionNumber(w) \/ ActivateStatus(w) \/ CreateNumber(w)
    PROVE  CoreInv' /\ Onwards
<1> USE DEF CoreInv
<1>0. /\ req \in [Workers -> Requests]
      /\ {"provision.adopt", "provision.number", "provision.employee", "provision.case",
          "create.employee"} \subseteq Awaits
    BY DEF TypeOK, Awaits
<1>1. UNCHANGED <<link, people, accepted, activated, byHand, died>>
    BY DEF ProvisionFind, ProvisionNumber, ActivateStatus, CreateNumber, case, history
<1>2. CASE ProvisionFind(w)
  <2>1. req[w].at = "provision.find" /\ UNCHANGED activeCase
        /\ Goto(w, IF Exists(AddressOf[req[w].case]) THEN "provision.adopt" ELSE "provision.number")
      BY <1>2 DEF ProvisionFind, AtAwait, case
  <2>2. PICK label \in {"provision.adopt", "provision.number"} :
          Goto(w, label) /\ (label = "provision.adopt" => Exists(AddressOf[req[w].case]))
      BY <2>1
  <2>3. /\ req' \in [Workers -> Requests] /\ \A v \in Workers \ {w} : req'[v] = req[v]
        /\ req'[w].at = label /\ req'[w].op = req[w].op /\ req'[w].case = req[w].case
      BY <1>0, <2>2, GotoTyped
  <2>4. TypeOK'
      BY <1>1, <2>1, <2>3 DEF TypeOK, people
  <2>5. Onwards /\ LinkIsOwn'
      BY <1>1, <2>1, RowsAlone DEF people
  <2>6. Exists(AddressOf[req[w].case])' = Exists(AddressOf[req[w].case])
      BY <1>1, <2>3 DEF Exists, people
  <2>7. Sense(w)'
      BY <1>1, <2>1, <2>2, <2>3, <2>6 DEF Sense, ForCase, ByHand, Provisioning
  <2> QED
      BY <2>3, <2>4, <2>5, <2>7, RequestStep
<1>3. CASE ProvisionNumber(w) \/ CreateNumber(w)
  <2>1. PICK label \in {"provision.employee", "create.employee"} :
          /\ req' = [req EXCEPT ![w].at = label, ![w].num = NextNumber]
          /\ UNCHANGED activeCase
          /\ \/ label = "provision.employee" /\ req[w].at = "provision.number"
             \/ label = "create.employee" /\ req[w].at = "create.number"
      BY <1>3 DEF ProvisionNumber, CreateNumber, AtAwait, case
  <2>2. NextNumber \in Nat
    <3>1. \E b \in Addresses : TRUE
      <4>1. req[w].case \in Cases \/ req[w].emp \in Addresses
          BY <2>1 DEF Sense, ForCase, ByHand
      <4> QED
          BY <4>1, OwnAddress
    <3> QED
        BY <3>1, NextNumberTyped DEF TypeOK
  <2>3. label \in Awaits
      BY <1>0
  <2>4. /\ req' \in [Workers -> Requests] /\ \A v \in Workers \ {w} : req'[v] = req[v]
        /\ req'[w].at = label /\ req'[w].op = req[w].op /\ req'[w].case = req[w].case
        /\ req'[w].emp = req[w].emp
      BY ONLY <1>0, <2>1, <2>2, <2>3, GotoNumberTyped
  <2>5. TypeOK'
      BY <1>1, <2>1, <2>4 DEF TypeOK, people
  <2>6. Onwards /\ LinkIsOwn'
      BY <1>1, <2>1, RowsAlone DEF people
  <2>7. Sense(w)'
      BY <1>1, <2>1, <2>4 DEF Sense, ForCase, ByHand, Provisioning
  <2> QED
      BY <2>4, <2>5, <2>6, <2>7, RequestStep
<1>4. CASE ActivateStatus(w)
  <2>1. /\ activeCase' = activeCase \union {req[w].case} /\ Goto(w, "provision.case")
        /\ req[w].at = "activate.status"
      BY <1>4 DEF ActivateStatus, AtAwait
  <2>2. req[w].case \in Cases /\ req[w].op = "activate"
      BY <2>1 DEF Sense, ForCase
  <2>3. /\ req' \in [Workers -> Requests] /\ \A v \in Workers \ {w} : req'[v] = req[v]
        /\ req'[w].at = "provision.case" /\ req'[w].op = "activate" /\ req'[w].case = req[w].case
      BY <1>0, <2>1, <2>2, GotoTyped
  <2>4. TypeOK'
      BY <1>1, <2>1, <2>2, <2>3 DEF TypeOK, people
  <2>5. Onwards /\ LinkIsOwn'
      BY <1>1, <2>1 DEF Onwards, LinkIsOwn, Exists, NoPreHire, people
  <2>6. Sense(w)'
      BY <2>1, <2>2, <2>3 DEF Sense, ForCase, ByHand, Provisioning
  <2> QED
      BY <2>3, <2>4, <2>5, <2>6, RequestStep
<1> QED
    BY <1>2, <1>3, <1>4
-------------------------------------------------------------------------------
LEMMA ProvisionHolds ==
    ASSUME CoreInv, NEW w \in Workers,
           \/ ProvisionCase(w) \/ ProvisionAdopt(w) \/ ProvisionEmployeeRow(w)
           \/ ProvisionUser(w) \/ ProvisionLink(w)
    PROVE  CoreInv' /\ Onwards
<1> USE DEF CoreInv
<1>a. req[w].at \in Provisioning
    BY DEF ProvisionCase, ProvisionAdopt, ProvisionEmployeeRow, ProvisionUser, ProvisionLink,
           AtAwait, Provisioning
<1>b. PICK c \in Cases : c = req[w].case
    BY <1>a DEF Sense, ForCase, Provisioning
<1>c. PICK own \in Addresses : own = AddressOf[c]
    BY OwnAddress
<1>0. /\ req \in [Workers -> Requests] /\ c = req[w].case /\ own = AddressOf[c]
      /\ req[w].op \in {"accept", "activate"} /\ req[w].at \in Provisioning
      /\ req[w].num \in Nat /\ link[c] \in Addresses \union {NoOne}
      /\ {"provision.find", "provision.user", "provision.link"} \subseteq Awaits
    BY <1>a, <1>b, <1>c DEF TypeOK, Sense, ForCase, Provisioning, Requests, Awaits
<1>1. CASE ProvisionCase(w)
  <2>1. UNCHANGED <<case, people, accepted, byHand, died>>
      BY <1>1 DEF ProvisionCase
  <2>2. Onwards /\ LinkIsOwn'
      BY <2>1, RowsAlone DEF case, people
  <2>3. CASE link[c] # NoOne
    <3>1. link[c] = own /\ Provisioned(w, own, FALSE)
        BY <1>0, <1>1, <2>3 DEF ProvisionCase, LinkIsOwn
    <3>2. link' \in [Cases -> Addresses \union {NoOne}] /\ link'[c] # NoOne
        BY <2>1, <2>3 DEF TypeOK, case
    <3>3. UNCHANGED <<people, activeCase, accepted, byHand, died>> /\ FALSE \in BOOLEAN
        BY <2>1 DEF case
    <3> QED
        BY <1>0, <2>2, <3>1, <3>2, <3>3, ProvisionedHolds
  <2>4. CASE link[c] = NoOne
    <3>1. Goto(w, "provision.find") /\ UNCHANGED activated
        BY <1>0, <1>1, <2>4 DEF ProvisionCase
    <3>2. /\ req' \in [Workers -> Requests] /\ \A v \in Workers \ {w} : req'[v] = req[v]
          /\ req'[w].at = "provision.find" /\ req'[w].op = req[w].op /\ req'[w].case = c
        BY <1>0, <3>1, GotoTyped
    <3>3. req[w].op = "activate" => c \in activeCase'
        BY <1>0, <2>1 DEF Sense, ForCase, Provisioning, case
    <3>4. Sense(w)'
        BY <1>0, <3>2, <3>3 DEF Sense, ForCase, ByHand, Provisioning
    <3>5. TypeOK'
        BY <2>1, <3>1, <3>2 DEF TypeOK, case, people
    <3> QED
        BY <2>2, <3>2, <3>4, <3>5, RequestStep
  <2> QED
      BY <2>3, <2>4
<1>2. CASE ProvisionAdopt(w) \/ ProvisionLink(w)
  <2>1. /\ link' = [link EXCEPT ![c] = own]
        /\ UNCHANGED <<activeCase, people, accepted, byHand, died>>
        /\ req[w].at \in {"provision.adopt", "provision.link"}
      BY <1>0, <1>2 DEF ProvisionAdopt, ProvisionLink, AtAwait
  <2>2. Exists(own)
      BY <1>0, <2>1 DEF Sense
  <2>3. PICK made \in BOOLEAN : Provisioned(w, own, made)
      BY <1>0, <1>2 DEF ProvisionAdopt, ProvisionLink
  <2>4. /\ link' \in [Cases -> Addresses \union {NoOne}] /\ link'[c] = own
        /\ \A d \in Cases \ {c} : link'[d] = link[d]
      BY <1>0, <2>1 DEF TypeOK
  <2>5. link'[c] # NoOne
      BY <1>0, <2>4, OwnAddress
  <2>6. Onwards /\ LinkIsOwn'
      BY <1>0, <2>1, <2>2, <2>4, <2>5 DEF Onwards, LinkIsOwn, Exists, NoPreHire, people
  <2> QED
      BY <1>0, <2>1, <2>3, <2>4, <2>5, <2>6, ProvisionedHolds
<1>3. CASE ProvisionEmployeeRow(w)
  <2>1. UNCHANGED <<case, login, history>> /\ req[w].at = "provision.employee"
      BY <1>3 DEF ProvisionEmployeeRow, AtAwait
  <2>2. CASE MayCreate(own, req[w].num)
    <3>1. PICK status \in {"PRE_HIRE", "ACTIVE"} :
            /\ status = IF req[w].op = "accept" THEN "PRE_HIRE" ELSE "ACTIVE"
            /\ CreateEmployeeRow(own, status, req[w].num) /\ Goto(w, "provision.user")
        BY <1>0, <1>3, <2>2 DEF ProvisionEmployeeRow
    <3>2. /\ req' \in [Workers -> Requests] /\ \A v \in Workers \ {w} : req'[v] = req[v]
          /\ req'[w].at = "provision.user" /\ req'[w].op = req[w].op /\ req'[w].case = c
        BY <1>0, <3>1, GotoTyped
    <3>3. status \in EmployeeStatus /\ byHand \subseteq byHand' /\ UNCHANGED case
        BY <2>1 DEF EmployeeStatus, history
    <3>4. /\ employee' \in [Addresses -> EmployeeStatus \union {"absent"}]
          /\ number' \in [Addresses -> Nat]
          /\ employee'[own] = status /\ employee[own] = "absent" /\ Exists(own)'
          /\ \A b \in Addresses \ {own} : employee'[b] = employee[b]
          /\ LinkIsOwn' /\ \A b \in Addresses \ {own} : NoPreHire(b) => NoPreHire(b)'
        BY <1>0, <2>2, <3>1, <3>3, RowCreated
    <3>5. TypeOK'
        BY <2>1, <3>2, <3>4 DEF TypeOK, case, history
    <3>6. Onwards
        BY <2>1, <3>4 DEF Onwards, Exists, case, history
    <3>7. req[w].op = "activate" => c \in activeCase' /\ NoPreHire(own)'
        BY <1>0, <2>1, <3>1, <3>4 DEF Sense, ForCase, Provisioning, case, NoPreHire
    <3>8. Sense(w)'
        BY <1>0, <3>2, <3>4, <3>7 DEF Sense, ForCase, ByHand, Provisioning
    <3> QED
        BY <3>2, <3>4, <3>5, <3>6, <3>8, RequestStep
  <2>3. CASE ~MayCreate(own, req[w].num)
    <3>1. Answer(w) /\ UNCHANGED <<employee, number>>
        BY <1>0, <1>3, <2>3 DEF ProvisionEmployeeRow
    <3>2. /\ req' \in [Workers -> Requests] /\ \A v \in Workers \ {w} : req'[v] = req[v]
          /\ Sense(w)'
        BY <1>0, <3>1, AnswerTyped, IdleMakesSense
    <3>3. TypeOK' /\ Onwards /\ LinkIsOwn'
        BY <2>1, <3>1, <3>2, RowsAlone DEF TypeOK, case, history
    <3> QED
        BY <3>2, <3>3, RequestStep
  <2> QED
      BY <2>2, <2>3
<1>4. CASE ProvisionUser(w)
  <2>1. UNCHANGED <<case, employee, number, history>> /\ req[w].at = "provision.user"
      BY <1>4 DEF ProvisionUser, AtAwait
  <2>2. Onwards /\ LinkIsOwn'
      BY <2>1, RowsAlone DEF case, history
  <2>3. CASE Goto(w, "provision.link") /\ \E uid \in Mailboxes \union {"unbound"} :
               login' = [login EXCEPT ![own] = uid]
    <3>1. /\ req' \in [Workers -> Requests] /\ \A v \in Workers \ {w} : req'[v] = req[v]
          /\ req'[w].at = "provision.link" /\ req'[w].op = req[w].op /\ req'[w].case = c
        BY <1>0, <2>3, GotoTyped
    <3>2. login' \in [Addresses -> Mailboxes \union {NoOne, "unbound"}]
        BY <1>0, <2>3 DEF TypeOK
    <3>3. TypeOK'
        BY <2>1, <3>1, <3>2 DEF TypeOK, case, history
    <3>4. Exists(own)' /\ (req[w].op = "activate" => c \in activeCase' /\ NoPreHire(own)')
        BY <1>0, <2>1 DEF Sense, ForCase, Provisioning, Exists, NoPreHire, case, history
    <3>5. Sense(w)'
        BY <1>0, <3>1, <3>4 DEF Sense, ForCase, ByHand, Provisioning
    <3> QED
        BY <2>2, <3>1, <3>3, <3>5, RequestStep
  <2>4. CASE Answer(w) /\ UNCHANGED login
    <3>1. /\ req' \in [Workers -> Requests] /\ \A v \in Workers \ {w} : req'[v] = req[v]
          /\ Sense(w)'
        BY <1>0, <2>4, AnswerTyped, IdleMakesSense
    <3>2. TypeOK'
        BY <2>1, <2>4, <3>1 DEF TypeOK, case, history
    <3> QED
        BY <2>2, <3>1, <3>2, RequestStep
  <2>5. Uid(c) \in Mailboxes
      BY <1>0, OwnAddress
  <2> QED
      BY <1>0, <1>4, <2>3, <2>4, <2>5 DEF ProvisionUser
<1> QED
    BY <1>1, <1>2, <1>3, <1>4

LEMMA RowsHold ==
    ASSUME CoreInv, NEW w \in Workers, Promote(w) \/ CreateRow(w) \/ CreateUser(w) \/ Die(w)
    PROVE  CoreInv' /\ Onwards
<1> USE DEF CoreInv
<1>0. /\ req \in [Workers -> Requests] /\ "create.user" \in Awaits /\ req[w].num \in Nat
    BY DEF TypeOK, Awaits, Requests
<1>1. CASE Promote(w)
  <2>1. /\ employee' = [employee EXCEPT ![req[w].emp] = IF @ = "PRE_HIRE" THEN "ACTIVE" ELSE @]
        /\ activated' = activated \union {req[w].case} /\ Answer(w) /\ req[w].at = "promote"
        /\ UNCHANGED <<case, number, login, accepted, byHand, died>>
      BY <1>1 DEF Promote, AtAwait
  <2>2. /\ req' \in [Workers -> Requests] /\ \A v \in Workers \ {w} : req'[v] = req[v]
        /\ Sense(w)'
      BY <1>0, <2>1, AnswerTyped, IdleMakesSense
  <2>3. req[w].case \in Cases
      BY <2>1 DEF Sense, ForCase
  <2>4. /\ employee' \in [Addresses -> EmployeeStatus \union {"absent"}]
        /\ \A a \in Addresses : employee'[a] = employee[a]
                                \/ (employee[a] = "PRE_HIRE" /\ employee'[a] = "ACTIVE")
      BY <2>1 DEF TypeOK, EmployeeStatus
  <2>5. TypeOK'
      BY <2>1, <2>2, <2>3, <2>4 DEF TypeOK, case
  <2>6. Onwards
      BY <2>1, <2>4 DEF Onwards, Exists, NoPreHire, case
  <2>7. LinkIsOwn'
      BY <2>1, <2>4, OwnAddress DEF LinkIsOwn, Exists, case
  <2> QED
      BY <2>2, <2>5, <2>6, <2>7, RequestStep
<1>2. CASE CreateRow(w)
  <2>1. UNCHANGED <<case, login, accepted, activated, died>> /\ req[w].at = "create.employee"
      BY <1>2 DEF CreateRow, AtAwait
  <2>0. PICK a \in Addresses : a = req[w].emp
      BY <2>1 DEF Sense, ByHand
  <2>2. a = req[w].emp /\ req[w].op = "create"
      BY <2>0, <2>1 DEF Sense, ByHand
  <2>3. CASE MayCreate(a, req[w].num)
    <3>1. /\ CreateEmployeeRow(a, "ACTIVE", req[w].num) /\ Goto(w, "create.user")
          /\ byHand' = byHand \union {<<a, "ACTIVE">>}
        BY <1>2, <2>2, <2>3 DEF CreateRow
    <3>2. /\ req' \in [Workers -> Requests] /\ \A v \in Workers \ {w} : req'[v] = req[v]
          /\ req'[w].at = "create.user" /\ req'[w].op = "create" /\ req'[w].emp = a
        BY <1>0, <2>2, <3>1, GotoTyped
    <3>3. /\ "ACTIVE" \in EmployeeStatus /\ UNCHANGED case /\ byHand \subseteq byHand'
          /\ <<a, "ACTIVE">> \in Addresses \X EmployeeStatus
        BY <2>1, <2>2, <3>1 DEF EmployeeStatus
    <3>4. /\ employee' \in [Addresses -> EmployeeStatus \union {"absent"}]
          /\ number' \in [Addresses -> Nat]
          /\ employee'[a] = "ACTIVE" /\ employee[a] = "absent" /\ Exists(a)'
          /\ \A b \in Addresses \ {a} : employee'[b] = employee[b]
          /\ LinkIsOwn' /\ \A b \in Addresses \ {a} : NoPreHire(b) => NoPreHire(b)'
        BY <1>0, <2>2, <2>3, <3>1, <3>3, RowCreated
    <3>5. byHand' \in SUBSET (Addresses \X EmployeeStatus)
        BY <3>1, <3>3 DEF TypeOK
    <3>6. TypeOK'
        BY <2>1, <3>2, <3>4, <3>5 DEF TypeOK, case
    <3>7. NoPreHire(a)'
        BY <3>4 DEF NoPreHire
    <3>8. Onwards
        BY <2>1, <3>3, <3>4, <3>7 DEF Onwards, Exists, case
    <3>9. Sense(w)'
        BY <2>2, <3>2 DEF Sense, ForCase, ByHand, Provisioning
    <3> QED
        BY <3>2, <3>4, <3>6, <3>8, <3>9, RequestStep
  <2>4. CASE ~MayCreate(a, req[w].num)
    <3>1. Answer(w) /\ UNCHANGED <<employee, number, byHand>>
        BY <1>2, <2>2, <2>4 DEF CreateRow
    <3>2. /\ req' \in [Workers -> Requests] /\ \A v \in Workers \ {w} : req'[v] = req[v]
          /\ Sense(w)'
        BY <1>0, <3>1, AnswerTyped, IdleMakesSense
    <3>3. TypeOK' /\ Onwards /\ LinkIsOwn'
        BY <2>1, <3>1, <3>2, RowsAlone DEF TypeOK, case
    <3> QED
        BY <3>2, <3>3, RequestStep
  <2> QED
      BY <2>3, <2>4
<1>3. CASE CreateUser(w) \/ Die(w)
  <2>1. Answer(w) /\ UNCHANGED <<case, employee, number, accepted, activated, byHand>>
      BY <1>3 DEF CreateUser, Die, people, history
  <2>2. /\ req' \in [Workers -> Requests] /\ \A v \in Workers \ {w} : req'[v] = req[v]
        /\ Sense(w)'
      BY <1>0, <2>1, AnswerTyped, IdleMakesSense
  <2>3. died' \in BOOLEAN /\ login' \in [Addresses -> Mailboxes \union {NoOne, "unbound"}]
      BY <1>3 DEF CreateUser, Die, people, history, TypeOK
  <2>4. TypeOK' /\ Onwards /\ LinkIsOwn'
      BY <2>1, <2>2, <2>3, RowsAlone DEF TypeOK, case
  <2> QED
      BY <2>2, <2>4, RequestStep
<1> QED
    BY <1>1, <1>2, <1>3
-------------------------------------------------------------------------------
LEMMA CoreHolds ==
    ASSUME CoreInv, [Next]_vars
    PROVE  CoreInv' /\ Onwards
<1> USE DEF CoreInv
<1>1. CASE UNCHANGED vars
  <2>1. UNCHANGED <<activeCase, link, employee, byHand, number, login, req, accepted, activated, died>>
      BY <1>1 DEF vars, case, people, history
  <2>2. Onwards /\ LinkIsOwn' /\ TypeOK'
      BY <2>1, RowsAlone DEF TypeOK
  <2>3. \A v \in Workers : Sense(v)'
      BY <2>1, <2>2, SenseStays
  <2> QED
      BY <2>2, <2>3
<1>2. ASSUME NEW w \in Workers, Arrive(w) \/ Handle(w) \/ Die(w)
      PROVE  CoreInv' /\ Onwards
    BY <1>2, ArriveHolds, AcceptHolds, LookupsHold, ProvisionHolds, RowsHold DEF Handle
<1>3. ASSUME NEW a \in Addresses, NEW status \in HandStatuses, UpdateEmployee(a, status)
      PROVE  CoreInv' /\ Onwards
  <2>1. /\ employee' = [employee EXCEPT ![a] = status] /\ Exists(a)
        /\ byHand' = IF status = "TERMINATED" THEN byHand ELSE byHand \union {<<a, status>>}
        /\ UNCHANGED <<activeCase, link, number, login, req, accepted, activated, died>>
      BY <1>3 DEF UpdateEmployee, case
  <2>2. status \in EmployeeStatus /\ status # "absent"
      BY ProvisioningAssumption DEF EmployeeStatus
  <2>3. /\ employee' \in [Addresses -> EmployeeStatus \union {"absent"}] /\ employee'[a] = status
        /\ \A b \in Addresses \ {a} : employee'[b] = employee[b]
        /\ byHand' \in SUBSET (Addresses \X EmployeeStatus) /\ byHand \subseteq byHand'
      BY <2>1, <2>2 DEF TypeOK
  <2>4. TypeOK'
      BY <2>1, <2>3 DEF TypeOK
  <2>5. NoPreHire(a)'
      BY <2>1, <2>3 DEF NoPreHire
  <2>6. Onwards
      BY <2>1, <2>2, <2>3, <2>5 DEF Onwards, Exists, NoPreHire
  <2>7. LinkIsOwn'
      BY <2>1, <2>2, <2>3, OwnAddress DEF LinkIsOwn, Exists
  <2>8. \A v \in Workers : Sense(v)'
      BY <2>1, <2>6, SenseStays
  <2> QED
      BY <2>4, <2>6, <2>7, <2>8
<1>4. ASSUME NEW m \in Mailboxes, SignIn(m)
      PROVE  CoreInv' /\ Onwards
  <2>1. /\ login' = [login EXCEPT ![LowerCase[m]] = m]
        /\ UNCHANGED <<activeCase, link, employee, byHand, number, req, accepted, activated, died>>
      BY <1>4 DEF SignIn, case, history
  <2>2. TypeOK'
      BY <2>1 DEF TypeOK
  <2>3. Onwards /\ LinkIsOwn'
      BY <2>1, RowsAlone
  <2>4. \A v \in Workers : Sense(v)'
      BY <2>1, <2>3, SenseStays
  <2> QED
      BY <2>2, <2>3, <2>4
<1> QED
    BY <1>1, <1>2, <1>3, <1>4 DEF Next

LEMMA CoreStarts == Init => CoreInv
<1> SUFFICES ASSUME Init PROVE CoreInv
    OBVIOUS
<1>1. TypeOK
    BY IdleTyped DEF Init, TypeOK
<1>2. \A w \in Workers : Sense(w)
    BY IdleTyped DEF Init, Sense, ForCase, ByHand, Provisioning
<1> QED
    BY <1>1, <1>2 DEF Init, CoreInv, LinkIsOwn

(* Type correctness, with the numbers: the next is a natural number because *)
(* there are finitely many addresses.                                       *)
THEOREM TypesHold == Spec => []TypeOK
<1>1. CoreInv /\ [Next]_vars => CoreInv'
    BY CoreHolds
<1>2. CoreInv => TypeOK
    BY DEF CoreInv
<1> QED
    BY <1>1, <1>2, CoreStarts, PTL DEF Spec
-------------------------------------------------------------------------------
(* Who is in the directory *)

(* How the status of an employee changes. *)
LEMMA EmployeeChanges ==
    ASSUME CoreInv, [Next]_vars, NEW a \in Addresses, employee'[a] # employee[a]
    PROVE  \/ employee[a] = "absent" /\ employee'[a] = "PRE_HIRE"
           \/ /\ employee[a] \in {"absent", "PRE_HIRE"} /\ employee'[a] = "ACTIVE"
              /\ \E c \in activeCase : AddressOf[c] = a
           \/ employee'[a] # "TERMINATED" /\ <<a, employee'[a]>> \in byHand'
           \/ employee'[a] = "TERMINATED"
<1>1. ASSUME NEW w \in Workers, ProvisionEmployeeRow(w)
      PROVE  /\ employee[a] = "absent"
             /\ \/ employee'[a] = "PRE_HIRE"
                \/ employee'[a] = "ACTIVE" /\ \E c \in activeCase : AddressOf[c] = a
  <2>1. PICK own \in Addresses : own = AddressOf[req[w].case] /\ req[w].case \in Cases
      BY <1>1, OwnAddress DEF ProvisionEmployeeRow, AtAwait, CoreInv, Sense, ForCase
  <2>2. /\ employee[own] = "absent"
        /\ employee' = [employee EXCEPT ![own] = IF req[w].op = "accept" THEN "PRE_HIRE" ELSE "ACTIVE"]
      BY <1>1, <2>1 DEF ProvisionEmployeeRow, MayCreate, Exists, CreateEmployeeRow
  <2>3. a = own /\ employee'[a] = IF req[w].op = "accept" THEN "PRE_HIRE" ELSE "ACTIVE"
      BY <2>2 DEF CoreInv, TypeOK
  <2>4. req[w].op = "accept" \/ req[w].case \in activeCase
      BY <1>1 DEF ProvisionEmployeeRow, AtAwait, CoreInv, Sense, ForCase, Provisioning
  <2> QED
      BY <2>1, <2>2, <2>3, <2>4
<1>2. ASSUME NEW w \in Workers, Promote(w)
      PROVE  employee[a] = "PRE_HIRE" /\ employee'[a] = "ACTIVE" /\ \E c \in activeCase : AddressOf[c] = a
  <2>1. /\ req[w].emp = AddressOf[req[w].case] /\ req[w].case \in activeCase
      BY <1>2 DEF Promote, AtAwait, CoreInv, Sense, ForCase
  <2>2. employee' = [employee EXCEPT ![req[w].emp] = IF @ = "PRE_HIRE" THEN "ACTIVE" ELSE @]
      BY <1>2 DEF Promote
  <2>3. a = req[w].emp /\ employee[a] = "PRE_HIRE" /\ employee'[a] = "ACTIVE"
      BY <2>2 DEF CoreInv, TypeOK
  <2> QED
      BY <2>1, <2>3
<1>3. ASSUME NEW w \in Workers, CreateRow(w)
      PROVE  employee'[a] # "TERMINATED" /\ <<a, employee'[a]>> \in byHand'
  <2>1. /\ employee' = [employee EXCEPT ![req[w].emp] = "ACTIVE"]
        /\ byHand' = byHand \union {<<req[w].emp, "ACTIVE">>}
      BY <1>3 DEF CreateRow, CreateEmployeeRow
  <2>2. a = req[w].emp /\ employee'[a] = "ACTIVE"
      BY <2>1 DEF CoreInv, TypeOK
  <2> QED
      BY <2>1, <2>2
<1>4. ASSUME NEW b \in Addresses, NEW status \in HandStatuses, UpdateEmployee(b, status)
      PROVE  \/ employee'[a] # "TERMINATED" /\ <<a, employee'[a]>> \in byHand'
             \/ employee'[a] = "TERMINATED"
  <2>1. /\ employee' = [employee EXCEPT ![b] = status]
        /\ byHand' = IF status = "TERMINATED" THEN byHand ELSE byHand \union {<<b, status>>}
      BY <1>4 DEF UpdateEmployee
  <2>2. a = b /\ employee'[a] = status
      BY <2>1 DEF CoreInv, TypeOK
  <2> QED
      BY <2>1, <2>2
<1>5. \/ \E w \in Workers : ProvisionEmployeeRow(w) \/ Promote(w) \/ CreateRow(w)
      \/ \E b \in Addresses, status \in HandStatuses : UpdateEmployee(b, status)
    BY DEF Next, vars, people, history, Arrive, AcceptInvite, Activate, CreateEmployee, Handle, AcceptLinked,
           AcceptOwn, BindRead, BindWrite, ProvisionCase, ProvisionFind, ProvisionAdopt, ProvisionNumber,
           ProvisionUser, ProvisionLink, ActivateStatus, CreateNumber, CreateUser, Die, SignIn
<1> QED
    BY <1>1, <1>2, <1>3, <1>4, <1>5

(* Nobody reaches the directory by accepting an invite: an active employee  *)
(* HR did not put there has an activated case.                              *)
THEOREM ListedOnlyByActivation == Spec => []ListedByActivation
<1> DEFINE Inv == CoreInv /\ ListedByActivation
<1>1. Init => Inv
  <2>1. Init => ListedByActivation
      BY DEF Init, ListedByActivation
  <2> QED
      BY <2>1, CoreStarts
<1>2. Inv /\ [Next]_vars => Inv'
  <2> SUFFICES ASSUME Inv, [Next]_vars, NEW a \in Addresses, employee'[a] = "ACTIVE",
                      <<a, "ACTIVE">> \notin byHand'
               PROVE  \E c \in activeCase' : AddressOf[c] = a
      BY CoreHolds DEF ListedByActivation
  <2>1. activeCase \subseteq activeCase' /\ byHand \subseteq byHand'
      BY CoreHolds DEF Onwards
  <2>2. CASE employee'[a] = employee[a]
      BY <2>1, <2>2 DEF ListedByActivation
  <2>3. CASE employee'[a] # employee[a]
      BY <2>1, <2>3, EmployeeChanges
  <2> QED
      BY <2>2, <2>3
<1> QED
    BY <1>1, <1>2, PTL DEF Spec

(* Only HR's own edit moves a terminated record or turns anyone back into a *)
(* pre-hire: whatever await an activation died at, and however often it is  *)
(* replayed.                                                                *)
THEOREM NobodyIsResurrected == Spec => NeverResurrected
<1> DEFINE Step == \A w \in Workers : Handle(w) =>
                \A a \in Addresses : employee'[a] # employee[a]
                    => <<employee[a], employee'[a]>> \in
                         {<<"absent", "PRE_HIRE">>, <<"absent", "ACTIVE">>, <<"PRE_HIRE", "ACTIVE">>}
<1>1. CoreInv /\ [Next]_vars => [Step]_vars
  <2> SUFFICES ASSUME CoreInv, [Next]_vars, NEW w \in Workers, Handle(w), NEW a \in Addresses,
                      employee'[a] # employee[a]
               PROVE  \/ employee[a] = "absent" /\ employee'[a] \in {"PRE_HIRE", "ACTIVE"}
                      \/ employee[a] = "PRE_HIRE" /\ employee'[a] = "ACTIVE"
      OBVIOUS
  <2>1. ProvisionEmployeeRow(w) \/ Promote(w) \/ CreateRow(w)
      BY DEF people, history, Handle, AcceptLinked,
             AcceptOwn, BindRead, BindWrite, ProvisionCase, ProvisionFind, ProvisionAdopt, ProvisionNumber,
             ProvisionUser, ProvisionLink, ActivateStatus, CreateNumber, CreateUser
  <2>2. CASE Promote(w)
      BY <2>2 DEF Promote, CoreInv, TypeOK
  <2>3. CASE ProvisionEmployeeRow(w) \/ CreateRow(w)
      BY <2>3 DEF ProvisionEmployeeRow, CreateRow, CreateEmployeeRow, MayCreate, Exists, CoreInv, TypeOK
  <2> QED
      BY <2>1, <2>2, <2>3
<1>2. CoreInv /\ [Next]_vars => CoreInv'
    BY CoreHolds
<1>3. Spec => [][Step]_vars
    BY <1>1, <1>2, CoreStarts, PTL DEF Spec
<1> QED
    BY <1>3 DEF NeverResurrected
-------------------------------------------------------------------------------
(* An activation that was answered with success left a linked hire who is   *)
(* no pre-hire any more, at whatever await earlier ones died or lost a      *)
(* race, unless HR says so by hand.                                         *)
THEOREM ActivatedStaysListed == Spec => []ActivatedIsListed
<1> DEFINE Listed == \A c \in activated : link[c] # NoOne /\ NoPreHire(link[c])
           Inv == CoreInv /\ Listed
<1>1. Init => Inv
  <2>1. Init => Listed
      BY DEF Init
  <2> QED
      BY <2>1, CoreStarts
<1>2. Inv /\ [Next]_vars => Inv'
  <2> SUFFICES ASSUME Inv, [Next]_vars PROVE Listed'
      BY CoreHolds
  <2>1. CoreInv' /\ Onwards
      BY CoreHolds
  <2>2. activated \subseteq Cases /\ activated' \subseteq Cases
      BY <2>1 DEF CoreInv, TypeOK
  <2>3. ASSUME NEW c \in activated
        PROVE  link'[c] # NoOne /\ NoPreHire(link[c])' /\ link'[c] = link[c]
    <3>1. link[c] # NoOne /\ NoPreHire(link[c]) /\ c \in Cases
        BY <2>2
    <3>2. link[c] = AddressOf[c] /\ Exists(AddressOf[c]) /\ AddressOf[c] \in Addresses
        BY <3>1, OwnAddress DEF CoreInv, LinkIsOwn
    <3>3. link'[c] # NoOne
        BY <2>1, <3>1 DEF Onwards
    <3>4. link'[c] = AddressOf[c]
        BY <2>1, <3>1, <3>3 DEF CoreInv, LinkIsOwn
    <3>5. PICK a \in Addresses : a = AddressOf[c]
        BY <3>2
    <3>6. NoPreHire(a)'
        BY <2>1, <3>1, <3>2, <3>5 DEF Onwards
    <3> QED
        BY <3>2, <3>3, <3>4, <3>5, <3>6 DEF NoPreHire
  <2>4. ASSUME NEW c \in activated' \ activated
        PROVE  link'[c] # NoOne /\ NoPreHire(link[c])'
    <3>1. PICK w \in Workers : ProvisionCase(w) \/ ProvisionAdopt(w) \/ ProvisionLink(w) \/ Promote(w)
        BY <2>4 DEF Next, vars, people, history, Arrive, AcceptInvite, Activate, CreateEmployee, Handle,
             AcceptLinked, AcceptOwn, BindRead, BindWrite, ProvisionFind, ProvisionNumber,
             ProvisionEmployeeRow, ProvisionUser, ActivateStatus, CreateNumber, CreateRow, CreateUser,
             Die, SignIn, UpdateEmployee
    <3>2. ProvisionLink(w) \/ Promote(w)
        BY <2>4, <3>1 DEF ProvisionCase, ProvisionAdopt, Provisioned
    <3>3. PICK a \in Addresses : a = AddressOf[c] /\ c \in Cases
        BY <2>2, <2>4, OwnAddress
    <3>4. CASE ProvisionLink(w)
      <4>1. /\ link' = [link EXCEPT ![req[w].case] = AddressOf[req[w].case]]
            /\ UNCHANGED <<people, byHand>> /\ req[w].at = "provision.link"
            /\ req[w].case = c /\ req[w].op # "accept"
          BY <2>4, <3>4 DEF ProvisionLink, Provisioned, AtAwait
      <4>2. link'[c] = a
          BY <3>3, <4>1 DEF CoreInv, TypeOK
      <4>3. NoPreHire(a)
          BY <3>3, <4>1 DEF CoreInv, Sense, Provisioning
      <4>4. NoPreHire(a)'
          BY <4>1, <4>3 DEF NoPreHire, people
      <4>5. a # NoOne
          BY ProvisioningAssumption
      <4> QED
          BY <4>2, <4>4, <4>5 DEF NoPreHire
    <3>5. CASE Promote(w)
      <4>1. /\ employee' = [employee EXCEPT ![req[w].emp] = IF @ = "PRE_HIRE" THEN "ACTIVE" ELSE @]
            /\ UNCHANGED link /\ req[w].at = "promote" /\ req[w].case = c
          BY <2>4, <3>5 DEF Promote, AtAwait, case
      <4>2. req[w].emp = a /\ link[c] # NoOne
          BY <3>3, <4>1 DEF CoreInv, Sense
      <4>3. link'[c] = a /\ employee'[a] # "PRE_HIRE"
          BY <3>3, <4>1, <4>2 DEF CoreInv, TypeOK, LinkIsOwn
      <4>4. NoPreHire(a)' /\ a # NoOne
          BY <4>3, ProvisioningAssumption DEF NoPreHire
      <4> QED
          BY <4>3, <4>4 DEF NoPreHire
    <3> QED
        BY <3>2, <3>4, <3>5
  <2> QED
      BY <2>3, <2>4 DEF NoPreHire
<1>3. Inv => ActivatedIsListed
    BY DEF ActivatedIsListed, NoPreHire
<1> QED
    BY <1>1, <1>2, <1>3, PTL DEF Spec
-------------------------------------------------------------------------------
(* Who can sign in *)

(* A request that made a row and has its login still to make. *)
Pending(w, a) ==
    \/ req[w].at = "provision.user" /\ AddressOf[req[w].case] = a
    \/ req[w].at = "create.user" /\ req[w].emp = a

LoginInv ==
    /\ \A a \in Addresses : /\ login[a] \in {NoOne, "unbound", MailboxOf[a]}
                            /\ login[a] # NoOne => Exists(a)
    /\ \A w \in Workers, a \in Addresses : Pending(w, a) => Exists(a) /\ login[a] = NoOne
    /\ \A v, w \in Workers, a \in Addresses : Pending(v, a) /\ Pending(w, a) => v = w
    /\ ~died => \A a \in Addresses : Exists(a) /\ login[a] = NoOne =>
                  (\E w \in Workers : Pending(w, a)) \/ \E b \in Addresses : login[b] = MailboxOf[a]

(* Steps that leave rows and logins alone, and may lose a request's claim   *)
(* only by a death.                                                         *)
LEMMA LoginAlone ==
    ASSUME LoginInv, UNCHANGED login, died => died', \A a \in Addresses : Exists(a)' <=> Exists(a),
           \A w \in Workers, a \in Addresses : /\ Pending(w, a)' => Pending(w, a)
                                               /\ died' \/ (Pending(w, a) => Pending(w, a)')
    PROVE  LoginInv'
BY DEF LoginInv

(* A login that is bound, or made by the request that has it to make. *)
LEMMA LoginMade ==
    ASSUME CoreInv, LoginInv, NEW b \in Addresses, NEW x \in {"unbound", MailboxOf[b]},
           login[b] \in {NoOne, "unbound"}, Exists(b),
           login' = [login EXCEPT ![b] = x], UNCHANGED <<employee, died>>,
           \A w \in Workers, a \in Addresses :
              /\ Pending(w, a)' => Pending(w, a) /\ (login[b] = NoOne => a # b)
              /\ a # b => (Pending(w, a) => Pending(w, a)')
    PROVE  LoginInv'
<1>1. \A a \in Addresses : login'[a] = IF a = b THEN x ELSE login[a]
    BY DEF CoreInv, TypeOK
<1>2. x # NoOne /\ \A a \in Addresses : MailboxOf[a] # NoOne /\ MailboxOf[a] # "unbound"
    BY OwnAddress
<1>3. \A a, c \in Addresses : login[a] = MailboxOf[c] => a # b /\ login'[a] = MailboxOf[c]
    BY <1>1, <1>2
<1>4. \A a \in Addresses : Exists(a)' <=> Exists(a)
    BY DEF Exists
<1>5. \A w \in Workers, a \in Addresses : Pending(w, a)' => Exists(a)' /\ login'[a] = NoOne
    BY <1>1, <1>4 DEF LoginInv
<1>6. \A v, w \in Workers, a \in Addresses : Pending(v, a)' /\ Pending(w, a)' => v = w
    BY DEF LoginInv
<1>7. \A a \in Addresses : /\ login'[a] \in {NoOne, "unbound", MailboxOf[a]}
                           /\ login'[a] # NoOne => Exists(a)'
    BY <1>1, <1>4 DEF LoginInv
<1>8. ASSUME ~died, NEW a \in Addresses, Exists(a)', login'[a] = NoOne
      PROVE  (\E w \in Workers : Pending(w, a)') \/ \E c \in Addresses : login'[c] = MailboxOf[a]
  <2>1. a # b /\ login[a] = NoOne /\ Exists(a)
      BY <1>1, <1>2, <1>4, <1>8
  <2>2. (\E w \in Workers : Pending(w, a)) \/ \E c \in Addresses : login[c] = MailboxOf[a]
      BY <1>8, <2>1 DEF LoginInv
  <2> QED
      BY <1>3, <2>1, <2>2
<1> QED
    BY <1>5, <1>6, <1>7, <1>8 DEF LoginInv

(* A row that is made, by a request that has its login to make. *)
LEMMA RowMade ==
    ASSUME CoreInv, LoginInv, NEW b \in Addresses, NEW w \in Workers, NEW status \in EmployeeStatus,
           ~Exists(b), employee' = [employee EXCEPT ![b] = status], UNCHANGED <<login, died>>,
           \A a \in Addresses : (Pending(w, a)' <=> a = b) /\ ~Pending(w, a),
           \A v \in Workers \ {w} : req'[v] = req[v]
    PROVE  LoginInv'
<1>1. \A a \in Addresses : Exists(a)' <=> a = b \/ Exists(a)
    BY DEF CoreInv, TypeOK, Exists, EmployeeStatus
<1>2. login[b] = NoOne /\ \A v \in Workers : ~Pending(v, b)
    BY DEF LoginInv
<1>3. \A v \in Workers \ {w}, a \in Addresses : Pending(v, a)' <=> Pending(v, a)
    BY DEF Pending
<1>4. \A v \in Workers, a \in Addresses : Pending(v, a)' =>
         (v = w /\ a = b) \/ (v # w /\ Pending(v, a) /\ a # b)
    BY <1>2, <1>3
<1>5. \A v \in Workers, a \in Addresses : Pending(v, a) => Pending(v, a)'
    BY <1>3
<1> QED
    BY <1>1, <1>2, <1>4, <1>5 DEF LoginInv
-------------------------------------------------------------------------------
(* Only the request itself moves. *)
LEMMA OthersParked ==
    ASSUME CoreInv, NEW w \in Workers, Arrive(w) \/ Handle(w) \/ Die(w)
    PROVE  \A v \in Workers \ {w} : req'[v] = req[v]
<1>1. req \in [Workers -> Requests]
    BY DEF CoreInv, TypeOK
<1>2. CASE Arrive(w)
    BY <1>1, <1>2 DEF Arrive, AcceptInvite, Activate, CreateEmployee
<1>3. CASE AcceptLinked(w) \/ AcceptOwn(w) \/ BindRead(w) \/ BindWrite(w)
    BY <1>1, <1>3 DEF AcceptLinked, AcceptOwn, BindRead, BindWrite, Goto, Answer
<1>4. CASE ProvisionCase(w) \/ ProvisionAdopt(w) \/ ProvisionLink(w)
    BY <1>1, <1>4 DEF ProvisionCase, ProvisionAdopt, ProvisionLink, Provisioned, Goto, Answer
<1>5. CASE ProvisionFind(w) \/ ProvisionNumber(w) \/ ProvisionEmployeeRow(w) \/ ProvisionUser(w)
    BY <1>1, <1>5 DEF ProvisionFind, ProvisionNumber, ProvisionEmployeeRow, ProvisionUser, Goto, Answer
<1>6. CASE ActivateStatus(w) \/ Promote(w) \/ CreateNumber(w) \/ CreateRow(w) \/ CreateUser(w) \/ Die(w)
    BY <1>1, <1>6 DEF ActivateStatus, Promote, CreateNumber, CreateRow, CreateUser, Die, Goto, Answer
<1> QED
    BY <1>2, <1>3, <1>4, <1>5, <1>6 DEF Handle

(* A step of one request leaves the claims of the others. *)
LEMMA ClaimsOfOthers ==
    ASSUME CoreInv, NEW w \in Workers, Arrive(w) \/ Handle(w) \/ Die(w)
    PROVE  \A v \in Workers \ {w}, a \in Addresses : Pending(v, a)' <=> Pending(v, a)
BY OthersParked DEF Pending

Claiming == {"provision.user", "create.user"}

(* The steps that make no row and no login of their own. *)
Plain(w) ==
    \/ Arrive(w) \/ AcceptLinked(w) \/ AcceptOwn(w) \/ BindRead(w)
    \/ ProvisionCase(w) \/ ProvisionFind(w) \/ ProvisionAdopt(w) \/ ProvisionNumber(w)
    \/ ProvisionLink(w) \/ ActivateStatus(w) \/ Promote(w) \/ CreateNumber(w)

LEMMA PlainClaimsNothing ==
    ASSUME CoreInv, NEW w \in Workers, Plain(w)
    PROVE  /\ UNCHANGED <<login, died>> /\ \A a \in Addresses : Exists(a)' <=> Exists(a)
           /\ \A a \in Addresses : ~Pending(w, a) /\ ~Pending(w, a)'
<1>1. req \in [Workers -> Requests] /\ req[w] \in Requests
    BY DEF CoreInv, TypeOK
<1>2. req[w].at \notin Claiming
    BY DEF Plain, Arrive, AcceptInvite, Activate, CreateEmployee, AcceptLinked, AcceptOwn, BindRead,
           ProvisionCase, ProvisionFind, ProvisionAdopt, ProvisionNumber, ProvisionLink, ActivateStatus,
           Promote, CreateNumber, AtAwait, Claiming
<1>3. req'[w].at \notin Claiming
  <2>1. ASSUME NEW label, Goto(w, label)
        PROVE  req'[w].at = label
      BY <1>1, <2>1 DEF Goto, Requests
  <2>2. ASSUME Answer(w)
        PROVE  req'[w].at = "idle"
      BY <1>1, <2>2 DEF Answer, Idle
  <2>3. ASSUME NEW made, Provisioned(w, AddressOf[req[w].case], made)
                         \/ Provisioned(w, link[req[w].case], made)
        PROVE  req'[w].at \in {"bind.read", "idle", "promote"}
    <3>1. CASE Goto(w, "bind.read") \/ Answer(w)
        BY <2>1, <2>2, <3>1
    <3>2. CASE \E a : req' = [req EXCEPT ![w].at = "promote", ![w].emp = a]
        BY <1>1, <3>2 DEF Requests
    <3> QED
        BY <2>3, <3>1, <3>2 DEF Provisioned
  <2>4. CASE Arrive(w)
      BY <1>1, <2>4 DEF Arrive, AcceptInvite, Activate, CreateEmployee, Idle, Claiming
  <2>5. CASE AcceptLinked(w) \/ BindRead(w) \/ ProvisionNumber(w) \/ CreateNumber(w)
    <3>1. CASE AcceptLinked(w)
      <4>1. Goto(w, "provision.case")
            \/ \E a \in Addresses : req' = [req EXCEPT ![w].at = "accept.own", ![w].emp = a]
          BY <3>1 DEF AcceptLinked, LinkedTo
      <4>2. CASE \E a \in Addresses : req' = [req EXCEPT ![w].at = "accept.own", ![w].emp = a]
          BY <1>1, <4>2 DEF Requests, Claiming
      <4> QED
          BY <2>1, <4>1, <4>2 DEF Claiming
    <3>3. CASE BindRead(w)
      <4>1. Answer(w)
            \/ req' = [req EXCEPT ![w].at = "bind.write", ![w].emp = link[req[w].case]]
          BY <3>3 DEF BindRead
      <4>2. CASE req' = [req EXCEPT ![w].at = "bind.write", ![w].emp = link[req[w].case]]
          BY <1>1, <4>2 DEF Requests, Claiming
      <4> QED
          BY <2>2, <4>1, <4>2 DEF Claiming
    <3>2. CASE ProvisionNumber(w) \/ CreateNumber(w)
        BY <1>1, <3>2 DEF ProvisionNumber, CreateNumber, Requests, Claiming
    <3> QED
        BY <2>5, <3>1, <3>2, <3>3
  <2>6. CASE AcceptOwn(w) \/ ProvisionFind(w) \/ ActivateStatus(w) \/ Promote(w)
      BY <2>1, <2>2, <2>6 DEF AcceptOwn, ProvisionFind, ActivateStatus, Promote, Claiming
  <2>7. CASE ProvisionCase(w) \/ ProvisionAdopt(w) \/ ProvisionLink(w)
      BY <2>1, <2>3, <2>7 DEF ProvisionCase, ProvisionAdopt, ProvisionLink, Claiming
  <2> QED
      BY <2>4, <2>5, <2>6, <2>7 DEF Plain
<1>4. UNCHANGED <<login, died>>
    BY DEF Plain, Arrive, AcceptInvite, Activate, CreateEmployee, AcceptLinked, AcceptOwn, BindRead,
           ProvisionCase, ProvisionFind, ProvisionAdopt, ProvisionNumber, ProvisionLink, ActivateStatus,
           Promote, CreateNumber, people, history
<1>5. \A a \in Addresses : Exists(a)' <=> Exists(a)
  <2>1. CASE Promote(w)
      BY <2>1 DEF Promote, Exists, CoreInv, TypeOK
  <2>2. CASE UNCHANGED employee
      BY <2>2 DEF Exists
  <2> QED
      BY <2>1, <2>2 DEF Plain, Arrive, AcceptInvite, Activate, CreateEmployee, AcceptLinked, AcceptOwn,
           BindRead, ProvisionCase, ProvisionFind, ProvisionAdopt, ProvisionNumber, ProvisionLink,
           ActivateStatus, CreateNumber, people
<1> QED
    BY <1>2, <1>3, <1>4, <1>5 DEF Pending, Claiming
-------------------------------------------------------------------------------
LEMMA LoginsHold ==
    ASSUME CoreInv, LoginInv, [Next]_vars
    PROVE  LoginInv'
<1>0. /\ req \in [Workers -> Requests] /\ \A w \in Workers : req[w] \in Requests
      /\ "provision.user" \in Awaits /\ "create.user" \in Awaits /\ "provision.link" \in Awaits
    BY DEF CoreInv, TypeOK, Awaits
<1>1. CASE UNCHANGED vars
    BY <1>1, LoginAlone DEF vars, people, history, Pending, Exists
<1>2. ASSUME NEW w \in Workers, Plain(w)
      PROVE  LoginInv'
  <2>1. \A v \in Workers \ {w}, a \in Addresses : Pending(v, a)' <=> Pending(v, a)
      BY <1>2, ClaimsOfOthers DEF Plain, Handle
  <2>2. /\ UNCHANGED <<login, died>> /\ \A a \in Addresses : Exists(a)' <=> Exists(a)
        /\ \A a \in Addresses : ~Pending(w, a) /\ ~Pending(w, a)'
      BY <1>2, PlainClaimsNothing
  <2> QED
      BY <2>1, <2>2, LoginAlone
<1>3. ASSUME NEW w \in Workers, Die(w)
      PROVE  LoginInv'
  <2>1. \A v \in Workers \ {w}, a \in Addresses : Pending(v, a)' <=> Pending(v, a)
      BY <1>3, ClaimsOfOthers
  <2>2. UNCHANGED <<login, employee>> /\ died' /\ req'[w] = Idle
      BY <1>0, <1>3 DEF Die, people, Answer
  <2>3. \A a \in Addresses : ~Pending(w, a)'
      BY <2>2, IdleTyped DEF Pending
  <2> QED
      BY <2>1, <2>2, <2>3, LoginAlone DEF Exists
<1>4. ASSUME NEW w \in Workers, ProvisionEmployeeRow(w) \/ CreateRow(w)
      PROVE  LoginInv'
  <2>1. PICK b \in Addresses : b = IF req[w].at = "create.employee" THEN req[w].emp ELSE AddressOf[req[w].case]
      BY <1>4, OwnAddress DEF ProvisionEmployeeRow, CreateRow, AtAwait, CoreInv, Sense, ForCase, ByHand
  <2>2. /\ UNCHANGED <<login, died>> /\ \A a \in Addresses : ~Pending(w, a)
      BY <1>4 DEF ProvisionEmployeeRow, CreateRow, history, Pending, AtAwait
  <2>3. \A v \in Workers \ {w}, a \in Addresses : Pending(v, a)' <=> Pending(v, a)
      BY <1>4, ClaimsOfOthers DEF Handle
  <2>4. CASE MayCreate(b, req[w].num)
    <3>1. ~Exists(b) /\ \E status \in EmployeeStatus : employee' = [employee EXCEPT ![b] = status]
        BY <1>4, <2>1, <2>4 DEF ProvisionEmployeeRow, CreateRow, AtAwait, CreateEmployeeRow, MayCreate,
                                EmployeeStatus
    <3>2. \A a \in Addresses : Pending(w, a)' <=> a = b
      <4>1. CASE ProvisionEmployeeRow(w)
        <5>1. Goto(w, "provision.user") /\ b = AddressOf[req[w].case]
            BY <2>1, <2>4, <4>1 DEF ProvisionEmployeeRow, AtAwait
        <5>2. req'[w].at = "provision.user" /\ req'[w].case = req[w].case
            BY <1>0, <5>1, GotoTyped
        <5> QED
            BY <5>1, <5>2 DEF Pending
      <4>2. CASE CreateRow(w)
        <5>1. Goto(w, "create.user") /\ b = req[w].emp
            BY <2>1, <2>4, <4>2 DEF CreateRow, AtAwait
        <5>2. req'[w].at = "create.user" /\ req'[w].emp = req[w].emp
            BY <1>0, <5>1, GotoTyped
        <5> QED
            BY <5>1, <5>2 DEF Pending
      <4> QED
          BY <1>4, <4>1, <4>2
    <3>3. \A v \in Workers \ {w} : req'[v] = req[v]
        BY <1>4, OthersParked DEF Handle
    <3> QED
        BY <2>2, <3>1, <3>2, <3>3, RowMade
  <2>5. CASE ~MayCreate(b, req[w].num)
    <3>1. Answer(w) /\ UNCHANGED employee
        BY <1>4, <2>1, <2>5 DEF ProvisionEmployeeRow, CreateRow, AtAwait
    <3>2. req'[w] = Idle
        BY <1>0, <3>1, AnswerTyped
    <3>3. \A a \in Addresses : ~Pending(w, a)'
        BY <3>2, IdleTyped DEF Pending
    <3> QED
        BY <2>2, <2>3, <3>1, <3>3, LoginAlone DEF Exists
  <2> QED
      BY <2>4, <2>5
<1>5. ASSUME NEW w \in Workers, ProvisionUser(w)
      PROVE  LoginInv'
  <2>0. PICK c \in Cases : c = req[w].case
      BY <1>5 DEF ProvisionUser, AtAwait, CoreInv, Sense, ForCase
  <2>1. PICK b \in Addresses : b = AddressOf[c]
      BY OwnAddress
  <2>2. /\ UNCHANGED <<employee, died>> /\ Pending(w, b) /\ \A a \in Addresses : Pending(w, a) => a = b
      BY <1>5, <2>0, <2>1 DEF ProvisionUser, AtAwait, history, Pending
  <2>3. \A v \in Workers \ {w}, a \in Addresses : Pending(v, a)' <=> Pending(v, a)
      BY <1>5, ClaimsOfOthers DEF Handle
  <2>4. Exists(b) /\ login[b] = NoOne /\ \A v \in Workers \ {w} : ~Pending(v, b)
      BY <2>2 DEF LoginInv
  <2>5. CASE Goto(w, "provision.link")
             /\ \E x \in {"unbound", MailboxOf[b]} : login' = [login EXCEPT ![b] = x]
    <3>1. req'[w].at = "provision.link"
        BY <1>0, <2>5, GotoTyped
    <3>2. \A a \in Addresses : ~Pending(w, a)'
        BY <3>1 DEF Pending
    <3> QED
        BY <2>2, <2>3, <2>4, <2>5, <3>2, LoginMade
  <2>6. CASE Answer(w) /\ UNCHANGED login /\ ~MayBind(MailboxOf[b])
    <3>1. req'[w] = Idle
        BY <1>0, <2>6, AnswerTyped
    <3>2. \A a \in Addresses : ~Pending(w, a)' /\ (Exists(a)' <=> Exists(a))
        BY <2>2, <3>1, IdleTyped DEF Pending, Exists
    <3>3. \E a \in Addresses : login'[a] = MailboxOf[b]
        BY <2>6 DEF MayBind
    <3> QED
        BY <2>2, <2>3, <2>6, <3>2, <3>3 DEF LoginInv
  <2> QED
      BY <1>5, <2>0, <2>1, <2>5, <2>6 DEF ProvisionUser, Uid
<1>6. ASSUME NEW w \in Workers, CreateUser(w)
      PROVE  LoginInv'
  <2>1. PICK b \in Addresses : b = req[w].emp
      BY <1>6 DEF CreateUser, AtAwait, CoreInv, Sense, ByHand
  <2>2. /\ UNCHANGED <<employee, died>> /\ Pending(w, b) /\ \A a \in Addresses : Pending(w, a) => a = b
        /\ Answer(w) /\ login' = [login EXCEPT ![b] = "unbound"]
      BY <1>6, <2>1 DEF CreateUser, AtAwait, history, Pending
  <2>3. \A v \in Workers \ {w}, a \in Addresses : Pending(v, a)' <=> Pending(v, a)
      BY <1>6, ClaimsOfOthers DEF Handle
  <2>4. Exists(b) /\ login[b] = NoOne /\ \A v \in Workers \ {w} : ~Pending(v, b)
      BY <2>2 DEF LoginInv
  <2>5. req'[w] = Idle
      BY <1>0, <2>2, AnswerTyped
  <2>6. \A a \in Addresses : ~Pending(w, a)'
      BY <2>5, IdleTyped DEF Pending
  <2> QED
      BY <2>2, <2>3, <2>4, <2>6, LoginMade
<1>7. ASSUME NEW w \in Workers, BindWrite(w)
      PROVE  LoginInv'
  <2>0. PICK c \in Cases : c = req[w].case
      BY <1>7 DEF BindWrite, AtAwait, CoreInv, Sense, ForCase
  <2>1. PICK b \in Addresses : b = AddressOf[c] /\ b = req[w].emp
      BY <1>7, <2>0, OwnAddress DEF BindWrite, AtAwait, CoreInv, Sense
  <2>2. UNCHANGED <<employee, died>> /\ Answer(w) /\ \A a \in Addresses : ~Pending(w, a)
      BY <1>7 DEF BindWrite, AtAwait, Pending
  <2>3. \A v \in Workers \ {w}, a \in Addresses : Pending(v, a)' <=> Pending(v, a)
      BY <1>7, ClaimsOfOthers DEF Handle
  <2>4. req'[w] = Idle
      BY <1>0, <2>2, AnswerTyped
  <2>5. \A a \in Addresses : ~Pending(w, a)'
      BY <2>4, IdleTyped DEF Pending
  <2>6. CASE UNCHANGED login
      BY <2>2, <2>3, <2>5, <2>6, LoginAlone DEF Exists
  <2>7. CASE login[b] = "unbound" /\ login' = [login EXCEPT ![b] = MailboxOf[b]]
    <3>1. Exists(b) /\ login[b] # NoOne
        BY <2>7, OwnAddress DEF LoginInv
    <3> QED
        BY <2>2, <2>3, <2>5, <2>7, <3>1, LoginMade
  <2> QED
      BY <1>7, <2>0, <2>1, <2>6, <2>7 DEF BindWrite, Uid
<1>8. ASSUME NEW a \in Addresses, NEW status \in HandStatuses, UpdateEmployee(a, status)
      PROVE  LoginInv'
  <2>1. /\ UNCHANGED <<login, died, req>> /\ Exists(a) /\ employee' = [employee EXCEPT ![a] = status]
      BY <1>8 DEF UpdateEmployee
  <2>2. status # "absent"
      BY ProvisioningAssumption
  <2>3. \A b \in Addresses : Exists(b)' <=> Exists(b)
      BY <2>1, <2>2 DEF Exists, CoreInv, TypeOK
  <2> QED
      BY <2>1, <2>3, LoginAlone DEF Pending
<1>9. ASSUME NEW m \in Mailboxes, SignIn(m)
      PROVE  LoginInv'
  <2>1. PICK b \in Addresses : b = LowerCase[m] /\ m = MailboxOf[b]
      BY OwnAddress
  <2>2. /\ UNCHANGED <<employee, died, req>> /\ login' = [login EXCEPT ![b] = MailboxOf[b]]
        /\ login[b] # NoOne /\ login[b] # m
      BY <1>9, <2>1 DEF SignIn, MayBind, history
  <2>3. Exists(b) /\ login[b] \in {NoOne, "unbound"}
      BY <2>1, <2>2 DEF LoginInv
  <2>4. \A w \in Workers, a \in Addresses : Pending(w, a)' <=> Pending(w, a)
      BY <2>2 DEF Pending
  <2> QED
      BY <2>2, <2>3, <2>4, LoginMade
<1> QED
  <2>1. ASSUME NEW w \in Workers, Arrive(w) \/ Handle(w) \/ Die(w)
        PROVE  LoginInv'
      BY <2>1, <1>2, <1>3, <1>4, <1>5, <1>6, <1>7 DEF Plain, Handle
  <2> QED
      BY <1>1, <1>8, <1>9, <2>1 DEF Next

(* A hire whose acceptance was answered with success can sign in, however   *)
(* it overlapped with the activation or with HR adding the same person,     *)
(* provided HR typed the address in lower case and no request died.         *)
THEOREM AcceptedCanSignIn == Spec => []AcceptedSignsIn
<1> DEFINE Linked == \A c \in accepted : link[c] # NoOne
           Inv == CoreInv /\ LoginInv /\ Linked
<1>1. Init => Inv
  <2>1. Init => LoginInv
      BY IdleTyped DEF Init, LoginInv, Pending, Exists
  <2>2. Init => Linked
      BY DEF Init
  <2> QED
      BY <2>1, <2>2, CoreStarts
<1>2. Inv /\ [Next]_vars => Inv'
  <2> SUFFICES ASSUME Inv, [Next]_vars PROVE Linked'
      BY CoreHolds, LoginsHold
  <2>1. CoreInv' /\ Onwards
      BY CoreHolds
  <2>2. accepted \subseteq Cases
      BY DEF CoreInv, TypeOK
  <2>3. \A c \in accepted' \ accepted :
          \E w \in Workers : BindRead(w) \/ BindWrite(w)
    <3> SUFFICES ASSUME NEW c \in accepted' \ accepted
                 PROVE  \E w \in Workers : BindRead(w) \/ BindWrite(w)
        OBVIOUS
    <3> QED
        BY DEF Next, vars, people, history, Arrive, AcceptInvite, Activate, CreateEmployee, Handle,
             AcceptLinked, AcceptOwn, ProvisionCase, ProvisionAdopt, ProvisionFind, ProvisionNumber,
             ProvisionEmployeeRow, ProvisionUser, ProvisionLink, ActivateStatus, Promote, CreateNumber,
             CreateRow, CreateUser, Die, SignIn, UpdateEmployee
  <2>4. ASSUME NEW w \in Workers, BindRead(w) \/ BindWrite(w), NEW c \in accepted' \ accepted
        PROVE  c \in Cases /\ link[c] # NoOne
      BY <2>4 DEF BindRead, BindWrite, AtAwait, CoreInv, Sense, ForCase
  <2> QED
      BY <2>1, <2>2, <2>3, <2>4 DEF Onwards
<1>3. Inv => AcceptedSignsIn
  <2> SUFFICES ASSUME Inv, Quiet, ~died, NEW c \in accepted, AddressOf[c] = LowerCase[Uid(c)]
               PROVE  CanSignIn(Uid(c))
      BY DEF AcceptedSignsIn
  <2>1. c \in Cases /\ link[c] = AddressOf[c] /\ Exists(AddressOf[c]) /\ AddressOf[c] \in Addresses
      BY OwnAddress DEF CoreInv, TypeOK, LinkIsOwn
  <2>2. \A w \in Workers : ~Pending(w, AddressOf[c])
      BY DEF Quiet, AtAwait, Pending
  <2>3. login[AddressOf[c]] # NoOne \/ \E b \in Addresses : login[b] = Uid(c)
      BY <2>1, <2>2 DEF LoginInv, Uid
  <2> QED
      BY <2>3 DEF CanSignIn, LinkedTo
<1> QED
    BY <1>1, <1>2, <1>3, PTL DEF Spec
===============================================================================
