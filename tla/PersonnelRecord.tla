---------------------------- MODULE PersonnelRecord ----------------------------
(***************************************************************************)
(* One hire's personal data in its two homes: the form kept on the         *)
(* onboarding case (`profile`) and the employee row HR reads (`record`).   *)
(* The hire submits and corrects the form until the case is activated,     *)
(* each submission pushes the form onto the row, activation pushes it once *)
(* more, and from then on HR and the hire edit the row by hand -- unless a *)
(* settle computed before takes the case out of Active again.  Emergency   *)
(* contacts are rows of their own, mirrored from the form and edited by    *)
(* hand too.  A value is the name of who wrote it: a submission, "hand",   *)
(* or "none".  Every awaited database call is one action.                  *)
(***************************************************************************)
EXTENDS Naturals, FiniteSets

CONSTANTS
    Typists,      \* submissions of the form
    Clerks,       \* requests that add an emergency contact
    MaxAsked      \* bound: submissions, activations, hand edits and additions in all

(* A request is one submission, one addition or the activation, and none of
   them is called what an empty column holds. *)
ASSUME RecordAssumption ==
    /\ Typists \intersect Clerks = {}
    /\ {"activation", "none"} \intersect (Typists \cup Clerks) = {}

VARIABLES
    activated,    \* the case's status is Active
    profile,      \* the form stored on the case
    linked,       \* the case names its employee
    record,       \* the employee row
    contacts,     \* the emergency contact rows
    desk,         \* the request each submission, clerk or activation stands for
    asked,        \* requests so far
    past          \* history: what the properties compare the rows with

recordVars == <<activated, profile, linked, record, contacts, desk, asked, past>>

HR == "activation"
Jobs == Typists \cup {HR}
Untyped == "none"
Columns == {"sin", "rest", "private"}
NoProfile == [c \in Columns |-> Untyped]
(* What the create at the invite's acceptance leaves on the row. *)
Blank == [sin |-> Untyped, rest |-> Untyped, private |-> Untyped, named |-> "case", status |-> "PRE_HIRE"]
NoRecord == [Blank EXCEPT !.status = "no row"]
(* A request: `flag` is a clerk's isPrimary and an activation's replay, `kin`
   the contact row a sync found. *)
NoRequest == [at |-> "ready", form |-> NoProfile, flag |-> FALSE, kin |-> Untyped]

RecordTypeOK ==
    /\ activated \in BOOLEAN /\ linked \in BOOLEAN
    /\ DOMAIN profile = Columns
    /\ \A c \in contacts : c.by \in Jobs \cup Clerks
    /\ DOMAIN desk = Jobs \cup Clerks
    /\ asked \in 0..MaxAsked

(* A case whose hire accepted the invite has a row already, else none. *)
RecordInit ==
    /\ activated = FALSE /\ profile = NoProfile
    /\ linked \in BOOLEAN /\ record = IF linked THEN Blank ELSE NoRecord
    /\ contacts = {}
    /\ desk = [j \in Jobs \cup Clerks |-> NoRequest]
    /\ asked = 0
    /\ past = [typed |-> Untyped, crossed |-> FALSE, alone |-> FALSE, settled |-> FALSE,
               byHand |-> {}, overlapped |-> FALSE]

Busy(j) == desk[j].at \notin {"ready", "done"}
Ask == asked < MaxAsked /\ asked' = asked + 1
Go(j, step) == desk' = [desk EXCEPT ![j].at = step]
-------------------------------------------------------------------------------
(* The wizard sends the form: every required column, the secrets and the
   privacy choice only if the hire typed them. *)
Forms == {[sin |-> s, rest |-> "form", private |-> p] : s, p \in {"typed", Untyped}}
Signed(t, form) == [c \in Columns |-> IF form[c] = Untyped THEN Untyped ELSE t]

(* Every read of a case but one goes through the mapper, which masks. *)
Masked(form) == [form EXCEPT !.sin = IF @ = Untyped THEN Untyped ELSE "mask"]

Submit(t, form, refused) ==
    /\ Ask /\ desk[t].at = "ready"
    /\ IF refused THEN Go(t, "done")
       ELSE desk' = [desk EXCEPT ![t] = [NoRequest EXCEPT !.at = "secrets", !.form = Signed(t, form)]]
    /\ past' = [past EXCEPT !.crossed = @ \/ \E u \in Typists : Busy(u),
                            !.alone = @ /\ refused,
                            !.byHand = IF activated THEN @ ELSE {}]
    /\ UNCHANGED <<activated, profile, linked, record, contacts>>

(* Mutant: a correction is accepted after activation too. *)
SubmitAlways(t, form) == Submit(t, form, FALSE)

(* findByToken: an activated case takes no more corrections. *)
SubmitProfile(t, form) == Submit(t, form, activated)

rawProfile == profile

(* withSecretsOnFile: an omitted secret is the one on file, and none at all is
   refused. *)
SecretsFrom(t, onFile) ==
    LET form == [desk[t].form EXCEPT !.sin = IF @ = Untyped THEN onFile.sin ELSE @] IN
    /\ desk[t].at = "secrets"
    /\ desk' = [desk EXCEPT ![t].form = form, ![t].at = IF form.sin = Untyped THEN "done" ELSE "save"]
    /\ UNCHANGED <<activated, profile, linked, record, contacts, asked, past>>

(* Mutant: the secret is carried forward from the read every client gets. *)
MaskedSecrets(t) == SecretsFrom(t, Masked(profile))

withSecretsOnFile(t) == SecretsFrom(t, rawProfile)

SaveProfile(t) ==
    /\ desk[t].at = "save"
    /\ profile' = desk[t].form
    /\ Go(t, IF desk[t].form.private = Untyped THEN "sync" ELSE "birthday")
    /\ past' = [past EXCEPT !.typed = IF desk[t].form.sin = t THEN t ELSE @]
    /\ UNCHANGED <<activated, linked, record, contacts, asked>>

(* The privacy choice goes at once to the employees of the case's name: to
   this one only while the row still bears that name. *)
SpreadBirthday(t) ==
    /\ desk[t].at = "birthday"
    /\ Go(t, "sync")
    /\ record' = IF record.status # "no row" /\ record.named = "case"
                 THEN [record EXCEPT !.private = desk[t].form.private] ELSE record
    /\ UNCHANGED <<activated, profile, linked, contacts, asked, past>>
-------------------------------------------------------------------------------
(* syncEmployeeFromProfile, of a submission, which settles the case next, or
   of the activation. *)
Synced(j) == IF j = HR THEN "done" ELSE "settle"

SyncRead(j) ==
    /\ desk[j].at = "sync"
    /\ IF ~linked \/ profile = NoProfile THEN Go(j, Synced(j))
       ELSE desk' = [desk EXCEPT ![j].form = profile, ![j].at = "push"]
    /\ UNCHANGED <<activated, profile, linked, record, contacts, asked, past>>

hrisFieldsFromCase(form, row) ==
    [row EXCEPT !.sin = form.sin, !.rest = form.rest, !.private = form.private,
                !.named = IF form = NoProfile THEN "case" ELSE "legal"]

SyncPush(j) ==
    /\ desk[j].at = "push"
    /\ record' = hrisFieldsFromCase(desk[j].form, record)
    /\ Go(j, "kin")
    /\ UNCHANGED <<activated, profile, linked, contacts, asked, past>>

(* The contact mirrors the form: some row the employee has is overwritten, and
   only an employee without one gets one.  A row deleted in between fails the
   request. *)
SyncKin(j) ==
    /\ desk[j].at = "kin"
    /\ \/ contacts = {} /\ Go(j, "create kin")
       \/ \E c \in contacts : desk' = [desk EXCEPT ![j].at = "update kin", ![j].kin = c.by]
    /\ UNCHANGED <<activated, profile, linked, record, contacts, asked, past>>

KinThere(j) == desk[j].kin = Untyped \/ \E c \in contacts : c.by = desk[j].kin

WriteKin(j) ==
    /\ desk[j].at \in {"create kin", "update kin"}
    /\ contacts' = IF desk[j].at = "create kin"
                   THEN contacts \cup {[by |-> j, primary |-> FALSE]} ELSE contacts
    /\ desk' = [desk EXCEPT ![j] = [NoRequest EXCEPT !.at = IF KinThere(j) THEN Synced(j) ELSE "done"]]
    /\ past' = IF j = HR /\ KinThere(j) THEN [past EXCEPT !.settled = TRUE] ELSE past
    /\ UNCHANGED <<activated, profile, linked, record, asked>>

(* settle, the end of a submission: an Active case stays so; for any other a
   status is computed, and written if it is not the one read. *)
Settle(t) ==
    /\ desk[t].at = "settle"
    /\ Go(t, "done") \/ (~activated /\ Go(t, "status"))
    /\ UNCHANGED <<activated, profile, linked, record, contacts, asked, past>>

(* By now the case may be Active: what was computed before takes it back. *)
SettleWrite(t) ==
    /\ desk[t].at = "status"
    /\ activated' = FALSE
    /\ Go(t, "done")
    /\ UNCHANGED <<profile, linked, record, contacts, asked, past>>

(* The settle of any other handler of the case (OnboardingCase), which read
   it before the activation. *)
SettleElsewhere ==
    /\ activated /\ activated' = FALSE
    /\ UNCHANGED <<profile, linked, record, contacts, desk, asked, past>>
-------------------------------------------------------------------------------
(* Activation, past the gates of OnboardingCase: the status, the row, the
   sync.  Of an active case it is a replay that only provisions and promotes. *)
Activate ==
    /\ Ask /\ ~Busy(HR)
    /\ desk' = [desk EXCEPT ![HR] = [NoRequest EXCEPT !.at = IF activated THEN "provision" ELSE "status",
                                                   !.flag = activated]]
    /\ past' = IF activated THEN past
               ELSE [past EXCEPT !.alone = \A t \in Typists : ~Busy(t), !.settled = FALSE,
                                 !.byHand = {}]
    /\ UNCHANGED <<activated, profile, linked, record, contacts>>

SetActive ==
    /\ desk[HR].at = "status"
    /\ activated' = TRUE
    /\ Go(HR, "provision")
    /\ UNCHANGED <<profile, linked, record, contacts, asked, past>>

(* provisionEmployee: the case's employee, else the one of that address (left
   by an attempt that died before linking it), else a new one. *)
ProvisionRead ==
    /\ desk[HR].at = "provision"
    /\ desk' = [desk EXCEPT ![HR].form = profile,
                            ![HR].at = IF linked THEN "promote"
                                       ELSE IF record.status # "no row" THEN "adopt" ELSE "create"]
    /\ UNCHANGED <<activated, profile, linked, record, contacts, asked, past>>

CreateHire ==
    /\ desk[HR].at = "create"
    /\ record' = hrisFieldsFromCase(desk[HR].form, [Blank EXCEPT !.status = "ACTIVE"])
    /\ Go(HR, "link")
    /\ UNCHANGED <<activated, profile, linked, contacts, asked, past>>

After == IF desk[HR].flag THEN "done" ELSE "sync"

LinkEmployee ==
    /\ desk[HR].at \in {"link", "adopt"}
    /\ linked' = TRUE
    /\ Go(HR, IF desk[HR].at = "adopt" THEN "promote"
              ELSE IF desk[HR].form = NoProfile THEN After ELSE "first kin")
    /\ UNCHANGED <<activated, profile, record, contacts, asked, past>>

FirstKin ==
    /\ desk[HR].at = "first kin"
    /\ contacts' = contacts \cup {[by |-> HR, primary |-> FALSE]}
    /\ Go(HR, After)
    /\ UNCHANGED <<activated, profile, linked, record, asked, past>>

(* activateEmployee touches a pre-hire only. *)
PromoteTo(step) ==
    /\ desk[HR].at = "promote"
    /\ record' = IF record.status = "PRE_HIRE" THEN [record EXCEPT !.status = "ACTIVE"] ELSE record
    /\ Go(HR, step)
    /\ UNCHANGED <<activated, profile, linked, contacts, asked, past>>

(* Mutant: activation trusts the row the submissions left. *)
PromoteOnly == PromoteTo(IF desk[HR].flag THEN "done" ELSE "kin")

Promote == PromoteTo(After)
-------------------------------------------------------------------------------
(* updateEmployee: HR edits any column, the employee all but the secrets. *)
UpdateEmployee(who, column) ==
    /\ Ask /\ record.status # "no row"
    /\ who = "hr" \/ column # "sin"
    /\ record' = [record EXCEPT ![column] = "hand"]
    /\ past' = [past EXCEPT !.alone = FALSE,
                !.byHand = IF activated /\ \A j \in Jobs : Busy(j) => desk[j].flag
                           THEN @ \cup {column} ELSE @]
    /\ UNCHANGED <<activated, profile, linked, contacts, desk>>

(* addEmergencyContact: the employee found, the others' mark cleared for a
   primary one, the row. *)
AddContact(k, primary) ==
    /\ Ask /\ desk[k].at = "ready" /\ record.status # "no row"
    /\ desk' = [desk EXCEPT ![k].at = IF primary THEN "clear" ELSE "create", ![k].flag = primary]
    /\ past' = [past EXCEPT !.overlapped = @ \/ \E b \in Clerks : Busy(b)]
    /\ UNCHANGED <<activated, profile, linked, record, contacts>>

(* Mutant: the other contacts keep their mark. *)
KeepPrimary(k) ==
    /\ desk[k].at = "clear"
    /\ Go(k, "create")
    /\ UNCHANGED <<activated, profile, linked, record, contacts, asked, past>>

ClearPrimary(k) ==
    /\ desk[k].at = "clear"
    /\ contacts' = {[c EXCEPT !.primary = FALSE] : c \in contacts}
    /\ Go(k, "create")
    /\ UNCHANGED <<activated, profile, linked, record, asked, past>>

CreateContact(k) ==
    /\ desk[k].at = "create"
    /\ contacts' = contacts \cup {[by |-> k, primary |-> desk[k].flag]}
    /\ Go(k, "done")
    /\ UNCHANGED <<activated, profile, linked, record, asked, past>>

DeleteContact(c) ==
    /\ contacts' = contacts \ {c}
    /\ UNCHANGED <<activated, profile, linked, record, desk, asked, past>>

(* A database call fails or the process stops: what is written stays. *)
Fail(j) ==
    /\ Busy(j)
    /\ desk' = [desk EXCEPT ![j] = [NoRequest EXCEPT !.at = "done"]]
    /\ past' = IF j = HR THEN [past EXCEPT !.alone = FALSE] ELSE past
    /\ UNCHANGED <<activated, profile, linked, record, contacts, asked>>

Submission(t) ==
    \/ \E form \in Forms : SubmitProfile(t, form)
    \/ withSecretsOnFile(t) \/ SaveProfile(t) \/ SpreadBirthday(t)
    \/ Settle(t) \/ SettleWrite(t)

Activation ==
    \/ Activate \/ SetActive \/ ProvisionRead \/ CreateHire \/ LinkEmployee \/ FirstKin \/ Promote

RecordNext ==
    \/ \E t \in Typists : Submission(t)
    \/ \E j \in Jobs : SyncRead(j) \/ SyncPush(j) \/ SyncKin(j) \/ WriteKin(j)
    \/ Activation \/ SettleElsewhere
    \/ \E who \in {"hr", "self"}, c \in Columns : UpdateEmployee(who, c)
    \/ \E k \in Clerks, p \in BOOLEAN : AddContact(k, p)
    \/ \E k \in Clerks : ClearPrimary(k) \/ CreateContact(k)
    \/ \E c \in contacts : DeleteContact(c)
    \/ \E j \in Jobs \cup Clerks : Fail(j)
-------------------------------------------------------------------------------
(* "What gets STORED always carries both" (submit-profile.command.ts): a form
   on file has its secrets, never the mask a client reads, and unless two
   submissions crossed they are the ones last typed, however many
   corrections left them out. *)
SecretsCarried ==
    /\ profile # NoProfile => profile.sin \in Typists
    /\ past.crossed \/ profile.sin = past.typed

(* "The submitted form is the truth by now" (activate.command.ts): once an
   activation that no submission, hand edit or failure crossed has ended, the
   employee's row is listed and agrees with the form, even if every submission
   before it failed short of its own sync; and so it stays until the next hand
   edit, or until a hire whose case a late settle reopened hands in the form. *)
RecordFollows ==
    past.alone /\ past.settled =>
        /\ linked /\ record.status = "ACTIVE"
        /\ \A c \in Columns : record[c] = profile[c]

(* "After activation the record is HRIS-owned" (submit-profile.command.ts), as
   far as the code has it: what HR or the employee typed into the row of an
   Active case, with no submission under way, is not overwritten by the form,
   replays of the activation included, until a form is handed in or an
   activation begun while the case is not Active.  That takes a settle computed
   before the activation and written after it, which reopens the case; then the
   form does overwrite the row. *)
HandEditsKept == \A c \in past.byHand : record[c] = "hand"

(* At most one emergency contact is the primary one, unless two requests that
   add one crossed: whatever the form's sync writes, whatever fails. *)
OnePrimary ==
    past.overlapped \/ \A c, d \in contacts : c.primary /\ d.primary => c = d
===============================================================================
