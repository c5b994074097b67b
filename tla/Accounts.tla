------------------------------ MODULE Accounts -------------------------------
(***************************************************************************)
(* Companies and the logins of their founders: the public signup           *)
(* (contexts/identity) between Firebase, which it calls three times, and   *)
(* one transaction of the database; and the platform administration, which *)
(* creates and deletes companies and logins.                               *)
(*                                                                         *)
(* Firebase is external: an account per address, with a uid and a password. *)
(* Abstracted: all companies ask for the same name, so that their slugs     *)
(* compete; of a password only which signup chose it.                       *)
(***************************************************************************)
EXTENDS Naturals

CONSTANTS
    Workers,    \* requests that can be in flight at the same time
    Emails,     \* addresses of founders
    MaxSignups, \* bound: signups, and with them uids and passwords
    Failures    \* TRUE when a request may die, or a call fail

VARIABLES
    account,    \* Firebase: per address the uid and the signup that set the password
    nextUid,    \* Firebase: the next uid
    company,    \* per slug: the address of the company's founder, if it has one
    founder,    \* per address: whether there is an employee, and the uid of its user
    signups,    \* how many signups there were
    signup,     \* the requests in flight
    welcomed,   \* history: per address the last signup that succeeded
    doubtful    \* history: addresses with two signups at the same time, or with a
                \* founder's account that a failed lookup reported as missing

accountVars == <<account, nextUid, company, founder, signups, signup, welcomed, doubtful>>
-------------------------------------------------------------------------------
NoAccount == [uid |-> 0, password |-> 0]
Stranger == [employed |-> FALSE, uid |-> 0]
Slugs == 1..(MaxSignups + 1)

SignupAwaits == {"idle", "find", "linked", "slug", "get", "create", "password",
                 "transaction", "undo"}

Waiting == [at |-> "idle", email |-> CHOOSE e \in Emails : TRUE, existing |-> 0, uid |-> 0,
            slug |-> 0, made |-> FALSE, id |-> 0]

Signups == [at : SignupAwaits, email : Emails,
            existing : 0..MaxSignups, \* the account's uid, when one was found
            uid : 0..MaxSignups,      \* the uid it goes on with
            slug : 0..(MaxSignups + 1),
            made : BOOLEAN,           \* it created the account itself
            id : 0..MaxSignups]       \* which signup it is

AccountsTypeOK ==
    /\ account \in [Emails -> [uid : 0..MaxSignups, password : 0..MaxSignups]]
    /\ nextUid \in 1..(MaxSignups + 1)
    /\ company \in [Slugs -> Emails \union {"none", "nobody"}]
    /\ founder \in [Emails -> [employed : BOOLEAN, uid : 0..MaxSignups]]
    /\ signups \in 0..MaxSignups
    /\ signup \in [Workers -> Signups]
    /\ welcomed \in [Emails -> 0..MaxSignups]
    /\ doubtful \subseteq Emails

AccountsInit ==
    /\ account = [e \in Emails |-> NoAccount]
    /\ nextUid = 1
    /\ company = [s \in Slugs |-> "none"]
    /\ founder = [e \in Emails |-> Stranger]
    /\ signups = 0
    /\ signup = [w \in Workers |-> Waiting]
    /\ welcomed = [e \in Emails |-> 0]
    /\ doubtful = {}

SigningUp(w, label) == signup[w].at = label
Continue(w, label) == signup' = [signup EXCEPT ![w].at = label]
Respond(w) == signup' = [signup EXCEPT ![w] = Waiting]
firebase == <<account, nextUid>>
workspaces == <<company, founder, welcomed>>
-------------------------------------------------------------------------------
(* companySignup, call by call. *)

CompanySignup(w) ==
    /\ SigningUp(w, "idle") /\ signups < MaxSignups
    /\ signups' = signups + 1
    /\ \E e \in Emails :
         /\ signup' = [signup EXCEPT ![w].at = "find", ![w].email = e, ![w].id = signups']
         /\ doubtful' = doubtful \union
              {f \in {e} : \E v \in Workers : ~SigningUp(v, "idle") /\ signup[v].email = f}
    /\ UNCHANGED <<firebase, workspaces>>

Linked(uid) == \E e \in Emails : founder[e].employed /\ founder[e].uid = uid

(* findUserByEmail: whatever error it meets, it answers that there is no    *)
(* account.                                                                *)
FindUser(w) ==
    /\ SigningUp(w, "find")
    /\ \E found \in {TRUE, ~Failures} :
         LET e == signup[w].email
             uid == IF found THEN account[e].uid ELSE 0
         IN  /\ signup' = [signup EXCEPT ![w].existing = uid,
                                         ![w].at = IF uid = 0 THEN "slug" ELSE "linked"]
             /\ doubtful' = doubtful \union {f \in {e} : ~found /\ Linked(account[f].uid)}
    /\ UNCHANGED <<firebase, workspaces, signups>>

(* Mutant: an account that exists is adopted, linked or not. *)
AdoptAny(w) ==
    /\ SigningUp(w, "linked")
    /\ Continue(w, "slug")
    /\ UNCHANGED <<firebase, workspaces, signups, doubtful>>

(* An account that is linked to a workspace is refused, any other adopted. *)
RefuseLinked(w) ==
    /\ SigningUp(w, "linked")
    /\ IF Linked(signup[w].existing) THEN Respond(w) ELSE Continue(w, "slug")
    /\ UNCHANGED <<firebase, workspaces, signups, doubtful>>

Taken(s) == company[s] # "none"

(* dedupeSlug: the first that is not taken. *)
dedupeSlug == CHOOSE s \in Slugs : ~Taken(s) /\ \A t \in Slugs : t < s => Taken(t)

UniqueCompanySlug(w) ==
    /\ SigningUp(w, "slug")
    /\ signup' = [signup EXCEPT ![w].slug = dedupeSlug, ![w].uid = signup[w].existing,
                                ![w].at = IF signup[w].existing = 0 THEN "get" ELSE "password"]
    /\ UNCHANGED <<firebase, workspaces, signups, doubtful>>

(* provisionUser: get the account, or else -- there is none, or the call    *)
(* failed -- create it, which fails if it is there.                        *)
ProvisionGet(w) ==
    /\ SigningUp(w, "get")
    /\ \E got \in {TRUE, ~Failures} :
         LET uid == IF got THEN account[signup[w].email].uid ELSE 0 IN
         signup' = [signup EXCEPT ![w].uid = uid, ![w].at = IF uid = 0 THEN "create" ELSE "password"]
    /\ UNCHANGED <<firebase, workspaces, signups, doubtful>>

ProvisionCreate(w) ==
    /\ SigningUp(w, "create")
    /\ IF account[signup[w].email].uid = 0
         THEN /\ account' = [account EXCEPT ![signup[w].email] = [uid |-> nextUid, password |-> 0]]
              /\ nextUid' = nextUid + 1
              /\ signup' = [signup EXCEPT ![w].uid = nextUid, ![w].made = TRUE, ![w].at = "password"]
         ELSE UNCHANGED firebase /\ Respond(w)
    /\ UNCHANGED <<workspaces, signups, doubtful>>

SetPassword(w) ==
    /\ SigningUp(w, "password")
    /\ LET e == signup[w].email IN
         \/ /\ account[e].uid = signup[w].uid
            /\ account' = [account EXCEPT ![e].password = signup[w].id]
            /\ Continue(w, "transaction")
         \/ /\ account[e].uid # signup[w].uid \/ Failures
            /\ UNCHANGED account /\ Continue(w, "undo")
    /\ UNCHANGED <<nextUid, workspaces, signups, doubtful>>

(* Company, settings, employee and user, if slug, address and uid are free. *)
FinishCompanySignup(w) ==
    /\ SigningUp(w, "transaction")
    /\ LET e == signup[w].email IN
         \/ /\ ~Taken(signup[w].slug) /\ ~founder[e].employed /\ ~Linked(signup[w].uid)
            /\ company' = [company EXCEPT ![signup[w].slug] = e]
            /\ founder' = [founder EXCEPT ![e] = [employed |-> TRUE, uid |-> signup[w].uid]]
            /\ welcomed' = [welcomed EXCEPT ![e] = signup[w].id]
            /\ Respond(w)
         \/ /\ Taken(signup[w].slug) \/ founder[e].employed \/ Linked(signup[w].uid) \/ Failures
            /\ UNCHANGED workspaces /\ Continue(w, "undo")
    /\ UNCHANGED <<firebase, signups, doubtful>>

(* The account goes, unless it was found at first; a failure is swallowed. *)
Undo(w) ==
    /\ SigningUp(w, "undo")
    /\ \E deleted \in {TRUE, ~Failures} : LET e == signup[w].email IN
         account' = [account EXCEPT ![e] =
             IF signup[w].existing = 0 /\ @.uid = signup[w].uid /\ deleted THEN NoAccount ELSE @]
    /\ Respond(w)
    /\ UNCHANGED <<nextUid, workspaces, signups, doubtful>>

SignupDies(w) ==
    /\ Failures /\ ~SigningUp(w, "idle")
    /\ Respond(w)
    /\ UNCHANGED <<firebase, workspaces, signups, doubtful>>
-------------------------------------------------------------------------------
(* Platform administration: a company without people (bound: one at a      *)
(* time); a company with everything it owns; a login, whose employee stays. *)

CreateCompany ==
    /\ \A s \in Slugs : company[s] # "nobody"
    /\ company' = [company EXCEPT ![dedupeSlug] = "nobody"]
    /\ UNCHANGED <<firebase, founder, welcomed, signups, signup, doubtful>>

DeleteCompany ==
    /\ \E s \in Slugs :
         /\ Taken(s)
         /\ company' = [company EXCEPT ![s] = "none"]
         /\ founder' = [e \in Emails |-> IF company[s] = e THEN Stranger ELSE founder[e]]
    /\ UNCHANGED <<firebase, welcomed, signups, signup, doubtful>>

DeleteUser ==
    /\ \E e \in Emails :
         /\ founder[e].uid # 0
         /\ founder' = [founder EXCEPT ![e].uid = 0]
    /\ UNCHANGED <<firebase, company, welcomed, signups, signup, doubtful>>
-------------------------------------------------------------------------------
Signup(w) ==
    \/ CompanySignup(w) \/ FindUser(w) \/ RefuseLinked(w) \/ UniqueCompanySlug(w)
    \/ ProvisionGet(w) \/ ProvisionCreate(w) \/ SetPassword(w) \/ FinishCompanySignup(w)
    \/ Undo(w) \/ SignupDies(w)

AccountsNext ==
    \/ \E w \in Workers : Signup(w)
    \/ CreateCompany \/ DeleteCompany \/ DeleteUser
-------------------------------------------------------------------------------
(* Properties *)

(* A founder who was told the workspace is there signs in with the password *)
(* of that signup as long as nobody deletes company or login, whatever      *)
(* later signups with the address are tried, fail or die half-way: unless   *)
(* two of them overlapped, or a later one's first lookup of the founder's   *)
(* account failed.  (A failed lookup passes for "no account": that signup   *)
(* then gets the account it was to refuse, overwrites its password and,     *)
(* when the transaction is refused, deletes it -- against "Only delete what *)
(* THIS call created -- never a pre-existing account".)                     *)
FounderSignsIn ==
    \A e \in Emails \ doubtful :
        founder[e].uid # 0 => account[e] = [uid |-> founder[e].uid, password |-> welcomed[e]]
===============================================================================
