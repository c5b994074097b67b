----------------------------- MODULE HiringViews ------------------------------
(***************************************************************************)
(* Who sees whom in the recruitment screens (contexts/recruitment): the    *)
(* lists, the profile and the resume file of the candidates of one         *)
(* requisition, read call by call while HR edits the hiring team and       *)
(* switches Blind Hiring, and candidates apply.                            *)
(*                                                                         *)
(* Abstracted: of a response only whose name and which alias it shows, and *)
(* where; an application is one insert, in the order of its dates.         *)
(***************************************************************************)
EXTENDS Naturals, Sequences, FiniteSets

CONSTANTS
    Creator,    \* the employee who created the requisition, its hiring manager
    Colleagues, \* other employees without role HR
    Candidates, \* people who may apply
    Looks       \* screens that can be loading at the same time

VARIABLES
    blind,      \* Requisition.blindHiring
    posted,     \* published, with a slug
    hiringTeam, \* HiringTeamMember rows
    applicants, \* Candidate rows of the requisition by appliedDate
    onFile,     \* candidates with a CandidateResume
    look,       \* the screens that are loading
    exposed,    \* history: where a name was shown although the posting was
                \* blind all the time
    aliases     \* history: the aliases each candidate was shown under

hiring == <<blind, posted, hiringTeam, applicants, onFile>>
viewVars == <<hiring, look, exposed, aliases>>
-------------------------------------------------------------------------------
Employees == Colleagues \union {Creator}
Places == {"list", "assigned", "profile", "file", "trail"}

LookAwaits == {"idle", "list.rows", "list.blind", "ordinals", "access", "member",
               "profile", "file.blind", "file"}

NobodyLooks == [at |-> "idle", who |-> Creator, place |-> "list", shown |-> {}, blindAllAlong |-> FALSE]

LookStates ==
    [at : LookAwaits,
     who : Employees,             \* a viewer who is not HR: HR sees every name
     place : Places,
     shown : SUBSET Candidates,   \* the rows read so far
     blindAllAlong : BOOLEAN]     \* history: blind since the screen was asked for

ViewsTypeOK ==
    /\ blind \in BOOLEAN /\ posted \in BOOLEAN
    /\ hiringTeam \subseteq Colleagues
    /\ applicants \in Seq(Candidates)
    /\ onFile \subseteq Candidates
    /\ look \in [Looks -> LookStates]
    /\ exposed \subseteq Places
    /\ aliases \in [Candidates -> SUBSET (0..Cardinality(Candidates))]

ViewsInit ==
    /\ blind \in BOOLEAN
    /\ posted = FALSE
    /\ hiringTeam \in SUBSET Colleagues
    /\ applicants = <<>> /\ onFile = {}
    /\ look = [l \in Looks |-> NobodyLooks]
    /\ exposed = {}
    /\ aliases = [c \in Candidates |-> {}]

Loading(l, label) == look[l].at = label
Load(l, label) == look' = [look EXCEPT ![l].at = label]
Rendered(l) == look' = [look EXCEPT ![l] = NobodyLooks]
Rows == {applicants[i] : i \in 1..Len(applicants)}
-------------------------------------------------------------------------------
(* What HR and the candidates do meanwhile, each in one statement that     *)
(* matters here.                                                           *)

(* updatePublishing *)
SwitchBlind ==
    /\ blind' = ~blind
    /\ look' = [l \in Looks |-> [look[l] EXCEPT !.blindAllAlong = FALSE]]
    /\ UNCHANGED <<posted, hiringTeam, applicants, onFile, exposed, aliases>>

Post ==
    /\ ~posted /\ posted' = TRUE
    /\ UNCHANGED <<blind, hiringTeam, applicants, onFile, look, exposed, aliases>>

EditHiringTeam ==
    /\ \E members \in SUBSET Colleagues : hiringTeam' = members
    /\ UNCHANGED <<blind, posted, applicants, onFile, look, exposed, aliases>>

(* The page of a posting, and with it the application, needs no more. *)
getJobBySlug == posted

ApplyToJob ==
    /\ getJobBySlug
    /\ \E c \in Candidates \ Rows :
         /\ applicants' = Append(applicants, c)
         /\ onFile' \in {onFile, onFile \union {c}}
    /\ UNCHANGED <<blind, posted, hiringTeam, look, exposed, aliases>>
-------------------------------------------------------------------------------
(* Who is let in. *)

assertOnHiringTeam(e) == e = Creator \/ e \in hiringTeam

Open(l, e, place, label) ==
    look' = [look EXCEPT ![l] = [at |-> label, who |-> e, place |-> place, shown |-> {},
                                 blindAllAlong |-> blind]]

(* The hiring manager or the team, by the row read first. *)
GetRequisitionCandidates(l) ==
    /\ Loading(l, "idle")
    /\ \E e \in Employees :
         /\ assertOnHiringTeam(e)
         /\ Open(l, e, "list", "list.rows")
    /\ UNCHANGED <<hiring, exposed, aliases>>

(* Only of teams one is on; rows and the switch are one query. *)
GetAssignedCandidates(l) ==
    /\ Loading(l, "idle")
    /\ \E e \in hiringTeam :
         IF blind
           THEN /\ look' = [look EXCEPT ![l] = [at |-> "ordinals", who |-> e, place |-> "assigned",
                                                shown |-> Rows, blindAllAlong |-> TRUE]]
           ELSE UNCHANGED look
    /\ UNCHANGED <<hiring, exposed, aliases>>

GetCandidate(l) ==
    /\ Loading(l, "idle")
    /\ \E e \in Employees, c \in Rows, place \in {"profile", "file"} :
         look' = [look EXCEPT ![l] = [at |-> "access", who |-> e, place |-> place, shown |-> {c},
                                      blindAllAlong |-> blind]]
    /\ UNCHANGED <<hiring, exposed, aliases>>

(* assertCandidateAccess: the hiring manager, or else a member row. *)
Access(l) ==
    /\ Loading(l, "access")
    /\ Load(l, IF look[l].who # Creator THEN "member"
                ELSE IF look[l].place = "file" THEN "file.blind" ELSE "profile")
    /\ UNCHANGED <<hiring, exposed, aliases>>

Member(l) ==
    /\ Loading(l, "member")
    /\ IF look[l].who \in hiringTeam
         THEN Load(l, IF look[l].place = "file" THEN "file.blind" ELSE "profile")
         ELSE Rendered(l)
    /\ UNCHANGED <<hiring, exposed, aliases>>
-------------------------------------------------------------------------------
(* What they see. *)

(* A name leaves the server. *)
Expose(l, places) ==
    exposed' = IF look[l].blindAllAlong THEN exposed \union places ELSE exposed

ListRows(l) ==
    /\ Loading(l, "list.rows")
    /\ look' = [look EXCEPT ![l].shown = Rows, ![l].at = "list.blind"]
    /\ UNCHANGED <<hiring, exposed, aliases>>

(* getCandidatesForRequisition looks at the switch after the rows. *)
ListBlind(l) ==
    /\ Loading(l, "list.blind")
    /\ IF blind
         THEN Load(l, "ordinals") /\ UNCHANGED exposed
         ELSE Expose(l, {p \in {"list"} : look[l].shown # {}}) /\ Rendered(l)
    /\ UNCHANGED <<hiring, aliases>>

(* Mutant: numbered as they are listed. *)
OrdinalsOfList(c, shown) == Cardinality({d \in shown : \E i, j \in 1..Len(applicants) :
                                           d = applicants[i] /\ c = applicants[j] /\ j <= i})

(* The place by date among all rows there are when it is asked. *)
blindOrdinals(c, shown) == CHOOSE i \in 1..Len(applicants) : applicants[i] = c

(* The trail of a profile is not rewritten, and its oldest event says who  *)
(* applied.                                                                *)
Ordinals(l) ==
    /\ Loading(l, "ordinals")
    /\ aliases' = [c \in Candidates |->
           aliases[c] \union (IF c \in look[l].shown THEN {blindOrdinals(c, look[l].shown)} ELSE {})]
    /\ Expose(l, {p \in {"trail"} : look[l].place = "profile"})
    /\ Rendered(l)
    /\ UNCHANGED hiring

(* getCandidateDetail has the switch in the row it reads. *)
Profile(l) ==
    /\ Loading(l, "profile")
    /\ IF blind
         THEN Load(l, "ordinals") /\ UNCHANGED exposed
         ELSE Expose(l, {"profile"}) /\ Rendered(l)
    /\ UNCHANGED <<hiring, aliases>>

FileBlind(l) ==
    /\ Loading(l, "file.blind")
    /\ IF blind THEN Rendered(l) ELSE Load(l, "file")
    /\ UNCHANGED <<hiring, exposed, aliases>>

GetResumeFile(l) ==
    /\ Loading(l, "file")
    /\ Expose(l, {p \in {"file"} : look[l].shown \subseteq onFile})
    /\ Rendered(l)
    /\ UNCHANGED <<hiring, aliases>>
-------------------------------------------------------------------------------
ViewsNext ==
    \/ \E l \in Looks :
         \/ GetRequisitionCandidates(l) \/ GetAssignedCandidates(l) \/ GetCandidate(l)
         \/ Access(l) \/ Member(l)
         \/ ListRows(l) \/ ListBlind(l) \/ Ordinals(l) \/ Profile(l)
         \/ FileBlind(l) \/ GetResumeFile(l)
    \/ SwitchBlind \/ Post \/ EditHiringTeam \/ ApplyToJob
-------------------------------------------------------------------------------
(* Properties *)

(* While a posting stays blind no list, profile or resume shows a name to  *)
(* anybody but HR, in whatever order the switch, the team and the          *)
(* applicants change between the calls of a screen; and every screen shows *)
(* a candidate under the same alias, which no other candidate ever has.    *)
BlindHolds ==
    /\ exposed \subseteq {"trail"}
    /\ \A c \in Candidates : Cardinality(aliases[c]) <= 1
    /\ \A c, d \in Candidates : c # d => aliases[c] \intersect aliases[d] = {}

(* Comment of recruitment.repository.ts:1027-1028: "Enforced HERE (not in  *)
(* the UI) so a scoped API call can never leak the name".                  *)
NameNeverLeaks == exposed = {}
===============================================================================
