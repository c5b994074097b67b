# Verification of ninja-hr-backend

TLA+ models of the backend's own logic, the TLC runs that check them on small
instances, and TLAPS proofs of the results that hold for every instance.

The program is a NestJS monolith over one PostgreSQL database (Prisma).  It has
no queues and no locks: concurrency is HTTP requests overlapping at every
`await`, plus a few fire-and-forget promises.  A handler reads rows, checks
guards on what it read, and writes rows several awaits later, with `$transaction([...])`
around some groups of writes but never around a read and the write that depends on
it.  That is what is hard here, and what a unit test (one handler on a mock
repository) does not reach.  So all the models have the same shape: **one action per
awaited database call**, a set of requests in flight (`Workers`, `Editors`, `Sessions`,
...), and per request the await it is parked at and the locals it carries across it.

## 1. Inventory

| component (`src/src/contexts/...`) | state it keeps | operations | correct when |
|---|---|---|---|
| **Onboarding case** (`onboarding/`) | OnboardingCase.status, form flags, checklist tasks, case documents, vault documents | create, accept invite, mark form, submit profile, upload, finalize, verify/reject document, task status, delete task, replace checklist, toggle policy, set assignees, activate | status agrees with forms/tasks/documents; activation passes its gates; only vouched-for paperwork is filed, all of it |
| **Hire provisioning** (`onboarding/infrastructure`, `people/`, `platform/auth/actor.guard.ts`) | Employee (status, number, email), User (uid), case link | accept invite (3 ways), provision, activate, manual creation, hand status edit, sign-in | an activated hire is listed; nobody is listed by acceptance alone; terminated people stay so; an accepted hire can sign in |
| **Personal data** (`onboarding/`, `people/`) | the form on the case, the employee's row, emergency contacts | submit and correct the form, synchronise, activate, edit by hand, add and delete contacts | secrets survive masked corrections; the row follows the form until activation and HR afterwards, while the case stays Active; one primary contact |
| **Requisition** (`recruitment/`) | Requisition.status, band, JD, approval rows, applicant counter | create, edit, submit, decide, publishing prep, publish, delete, apply | advances only on unanimous approval; decisions settle; deletion clears the pipeline; a public posting stays up |
| **Candidate** (`recruitment/`) | stage, mails, notes, answers, scorecards, resume, hiring team | apply, stage change, mails in and out, withdraw, score, edit team/questions/criteria, purge | one mail per move; a purged candidate keeps no personal data; a panelist's first card comes before he sees a colleague's |
| **Hiring screens** (`recruitment/`) | blindHiring, team, resume files | lists, profile, resume file, switch, team edits | no name shown while blind; one alias per candidate everywhere |
| **Time off** (`timeoff/`) | LeaveRequest rows | create, edit, cancel, decide | an owner changes only what is pending; the lock sees every protected leave |
| **Offboarding** (`offboarding/`) | offboarding run, tasks, Employee.status | start/save, task status, assignee, finalize termination | no finalized termination with blocking tasks or during protected leave without a recorded override |
| **Mass letters, agent runs** (`workplace/`, `platform/`) | AgentRun.status, items, letters | draft, approve, set status | each employee has one letter; issued iff filed; a claimed run completes |
| **Peer courses** (`workplace/`) | TrainingCourse, TrainingAssignment | create, edit, submit, decide, delete, assign, progress | what is published is what HR approved; so is what is assigned, unless HR withdrew it since |
| **Policy ingestion** (`platform/`) | PolicyDocument.status, chunks, embeddings | upload, ingest in the background, retry, delete, retrieve | a Ready document is retrieved from in full; nothing is left Processing |
| **Performance** (`performance/`) | reviews, goals, probation, 1:1s, feedback | create, hand in, share, advance, acknowledge, sweep, agenda and goal edits | each side's words hidden until both are in; one announced probationary review |
| **People directory** (`people/`) | reporting line | edit manager | no cycle |
| **Identity, platform administration** (`identity/`, `platform-admin/`) | Company, User, Firebase account | company signup with compensation, create/delete company, delete user | a founder who was welcomed can sign in |
| **Tenant isolation** (`platform/database/`, `platform/auth/`, `scripts/`) | AsyncLocalStorage store, companyId of every row | enter, scope a query, nested create, background job, repair, backfill | a caller reaches rows of his company only |
| **Settings** (`platform/`) | the CompanySettings row | get, save | an option reads as its last sender left it, an emptied list as the default |
| **Tool library, chat, guardrails** (`tool-library/`, `platform/`, `platform/ai/`) | grants, conversation turns, the limiter's times | enable, grant, run, ask | replaced grants settle; questions are answered, in order |
| **HTTP, DTOs, mappers; assets, announcements** | -- | validation, formatting, single statements | -- |

*Interactions.*  The onboarding activation writes the Employee that people, time
off, offboarding and the auth guard read; acceptance, activation and manual creation
meet on the unique columns `Employee.email`, `employeeNumber`, `User.firebaseUid`.
Offboarding's termination guard reads the leave that time off decides.  Recruitment's
publication opens the public `apply` route, and its applications close the edits of the
hiring team.  Mass letters end in the vault that onboarding files into.  Everything a
request does passes the tenant store of its own request.  All of it is shared database
state: contexts do not call each other's handlers except onboarding -> people (profile)
and peer courses -> performance.

*Hard behaviours*: stale reads written back, guards checked awaits before the write,
delete-and-recreate transactions overlapping, failures between two writes, retries of
half-done work, background promises lost at restart.  `PROJECT.json` lists each as a
hazard at its line, with the properties about it; two have none, because the code
simply loses what the race loses and says nothing else.

## 2. Modules

| module | models | status |
|---|---|---|
| `OnboardingCase` | all command handlers of `onboarding/application/commands`, `settle`, the repository writes they make | checked, proved |
| `DocumentCustody` | abstract promise: a file is filed after it was approved, and stays | refined by `OnboardingCase` |
| `OnboardingCaseProofs` | theorems about `OnboardingCase` | proved |
| `HireProvisioning` | acceptance, provisioning, activation, manual creation, hand edits, sign-in | checked, proved |
| `HireProvisioningProofs` | theorems about `HireProvisioning` | proved |
| `Requisition` | the requisition from draft to deletion, with `apply` | checked, proved |
| `RequisitionProofs` | theorems about `Requisition` | proved |
| `CandidatePipeline` | one candidate from the application to the purge, with mails, notes and the panel's scorecards | checked, proved |
| `CandidatePipelineProofs` | theorems about `CandidatePipeline` | proved |
| `TimeOff` | the leave requests of one employee | checked, in `Separation` |
| `Separation` | `TimeOff` composed with the offboarding of that employee and the lock that reads the leave | checked, proved |
| `SeparationProofs` | theorems about `Separation` | proved |
| `Workplace` | a run of mass letters and its approval; a peer course and its assignments | safety checked and proved, liveness checked |
| `WorkplaceProofs` | theorems about `Workplace` and about `PolicyIngestion` | proved |
| `Performance` | a review, the probation sweep, a 1-on-1 agenda, a goal, a feedback request | checked, proved |
| `PerformanceProofs` | theorems about `Performance` | proved |
| `PolicyChunker` | `chunkPolicyText` as a function of the blocks of a text, and what it promises | checked, in `PolicyIngestion` |
| `PolicyIngestion` | the handbook's upload, background ingestion, retry, deletion and retrieval | safety checked and proved, liveness checked |
| `Accounts` | company signup with Firebase, platform administration | checked, in `Workspace` |
| `ReportingLine` | the walk up the chain and the write of a new manager | checked, in `Workspace` |
| `Assistant` | tool grants, tool runs, chat turns, the shared rate limit | checked, in `Workspace` |
| `Tenancy` | lanes into the company, the store, scoped queries, jobs, repair and backfill | checked, in `Workspace` |
| `HiringViews` | the recruitment screens under blind hiring | checked, in `Workspace` |
| `PersonnelRecord` | a hire's personal data on the form and on the row | checked, in `Workspace` |
| `CompanySettings` | the settings row | checked, in `Workspace` |
| `Workspace` | the seven modules above as one system | checked, proved |
| `WorkspaceProofs` | theorems about `Workspace` and each of its parts | proved |
| `MC*` | instances for TLC | |

### Correspondence with the code

`PROJECT.json` "map" gives the lines behind every definition.  In short:

* **OnboardingCase.**  `pc[w]` is the await request `w` is parked at.  A handler's
  first read is the arrival (`MarkFormRead`, `UploadRead`, `ActivateRead`, ...), each
  later call is an action (`MarkFormWrite`, `UploadDelete`/`UploadCommit`, ...), and
  every handler that ends in `settle` continues with `SettleRead` then `SetStatus`.
  `nextStatus` and `canActivate` are the pure functions of `onboarding-status.ts`.
  `upsertCaseFile`, `replaceDocuments` and `replaceChecklist` are delete-then-create
  transactions: at READ COMMITTED the delete removes the rows its snapshot finds, so
  two actions, one that notes the victims and one that commits.  A document row has
  the id it was created with and the file it was created for.
* **HireProvisioning.**  An Employee is known by its stored address; addresses that
  differ in case reach one mailbox, which is how `provisionEmployee` (address as typed)
  and every lookup (lower case) can disagree.  `req[w]` records op, case, employee and
  number.  A unique-column refusal ends the request, as the thrown P2002 does.
  The gates of activation are taken as clear here, they belong to `OnboardingCase`.
* **PersonnelRecord.**  A value is the name of who wrote it.  `desk[j]` is the request a
  submission, an activation or a clerk stands for; `SubmitProfile`, `withSecretsOnFile`,
  `SaveProfile`, `SpreadBirthday`, `SyncRead`, `SyncPush`, `SyncKin`, `WriteKin` are the
  awaits of one submission, which ends in `Settle` and `SettleWrite`.  A settle that read
  the case before the activation and writes after it reopens the case; so may the settle
  of any other handler of the case (`SettleElsewhere`).  `linked` at the start is a hire who
  accepted the invite before the form came in; a hire who did not gets the row from the
  activation.
* **Requisition.**  An approval row is its approver and the edition of the list it
  belongs to: replacing the list makes new rows, so a late decision on a replaced row
  finds nothing to update and fails.  `DecideWrite`, `DecideSettle` and
  `DecideApprove`/`DecideReject` are the three awaits of `decide`; the last writes the
  status without looking.  Transactions are single actions except the deletion, whose
  DELETE of candidates and of the row an application can come between.
* **CandidatePipeline.**  `personal` is the set of records that hold personal data;
  `mails` and `entries` count per trigger what was logged and what happened.  A move,
  a mail's template lookup and its log entry are awaits of their own.  `visibleScorecards`
  is the filter of the detail view, `trail` the recommendations that audit events repeat
  (`ScoreAudit`, an await after the card), `Shown` what both let a viewer see of the
  others, and `peeked` remembers who saw what.
* **HiringViews.**  A screen is opened, its rows loaded, the flag read, the aliases
  numbered, and only then rendered; `exposed` collects the places where a name was
  shown although the posting was blind all the time the screen was loading.
* **CompanySettings.**  A value is the save that sent it and whether it was an empty list.
  `settingsRowToDto` reads an empty list as the default, in `getSettings` and in what
  `Carry` takes over from the row that was found.
* **TimeOff, Separation.**  `Separation` EXTENDS `TimeOff`: both act for the same
  `Workers`, a request is in one of them or in neither.  An edit carries only the
  fields of its form and is merged into the row as it then is, so the check of the
  range may have been made against another end.  `FinalizeTermination`,
  `FinalizeLeaves`, `FinalizeWrite`, `FinalizeRecord` are the awaits of one handler;
  `NextDay` lets midnight fall between any two.  `UpdateEmployee` is the hand edit of the
  status, which asks nothing.
* **Workplace.**  `lane` and `cursor` are the closures of `mapWithConcurrency`; a lane
  that finishes takes the employee at the cursor in the same synchronous step.  The
  claim is a conditional update; each item is read and committed in its own
  transaction, which looks at the item's status again.  `withdrawn` says that HR rejected
  the course after it was published: its assignments stay, and its owner may edit it.
* **Performance.**  The two evaluations record who wrote them, since HR's
  `updateReview` writes into either; `GetMyReviews` is the read through which the
  employee sees the manager's words.  A sweep carries the list it computed
  (`probationAction`) and the agent runs it read; `OpenProbation` is HR's own `createReview`
  with the cycle label the sweep looks for.
* **PolicyChunker, PolicyIngestion.**  The chunker is pure: a text is the sequence of
  its blocks' lengths, a chunk the sequence of characters it holds, and `Sound` the
  reference (every character in a chunk, blocks in order, bounded size, the overlap).
  The ingestion is what goes on after `void Promise.resolve(...)`: the slot of the
  request that started it lives on as the job.  `uploads` are the texts that will be
  uploaded, chosen at the start; each stands for all texts with as many chunks.
  Every throw leads to `failed`, the catch.  `retrieve` is what the chat gets when it
  asks: the chunks of Ready documents that have a vector.
* **Accounts.**  Firebase is external: a uid and the last password set per address.
  All companies want one name, so `dedupeSlug` has work to do.  The transaction that
  creates company, settings, employee and user is one action and may be refused by a
  unique column; `Undo` is the catch.  `FindUser` answers "no account" also when Firebase
  fails, as the catch of `findUserByEmail` does.
* **Tenancy.**  `store[r]` is the AsyncLocalStorage object of request `r`, opened empty
  by the middleware; the lanes (a signed-in user, one a trusted caller names, a trusted
  caller without a user, the key of a row) set it; `Scoped` is the filter of the client extension.  A checklist created
  nested in a case is what the extension did not always stamp: the repair script gives
  each such row its parent's company, the backfill all of them one.
* **Workspace.**  Its components share no row, so a behaviour busies one of them:
  `workload`, chosen at the start.  That keeps the product of eight independent state
  spaces out of a run and loses no interleaving within a component.

History variables are never read by guards (`approved`, `shown`, `solo`, `died`,
`accepted`, `activated`, `byHand`, `unanimous`, `overridden`, `lost`, `entries`,
`peeked`, `opened`, `withdrawn`, `crossed`, `past`, `lastSent`, `strayed`, ...).  `solo` says that the last
request to arrive found nothing in flight and nothing has arrived or died since:
properties that start with it say what one undisturbed request does **from whatever
state earlier races left**.  `crossed`, `muddled`, `overlapped`, `doubtful`, `tangled`, `unsure`
name the one race (for `doubtful`, also the one failed call) the code does lose, and the
property holds through everything else.
This is weaker than atomicity and is what the code delivers; without each exception TLC
shows the race.

### Abstractions shared by the models

* Prisma's `findUnique` with `include` is several SELECTs; it is one atomic read here.
* Audit rows and consent entries are left out where no guard reads them; wording is.
* In `OnboardingCase`: policies and assignees are not state (the settle after them is
  kept as `TouchCase`); the profile's contents are in `PersonnelRecord`;
  `rejectDocument`'s read of the case and its write are one action (nothing it reads can
  change in between).
* `In-Progress` tasks behave as `Pending`: no gate tells them apart.
* In `Requisition`: archiving, job-board links and cost of hire are left out; a salary
  band is "posted" when neither bound is 0, as the guards test it.
* In `TimeOff` and `Separation`: the six leave types are three (protected, overtime,
  other), a name always finds one employee, the board is its blocking tasks.
* In `CandidatePipeline`: one candidate; one application in creation at a time.  In
  `Workplace`: one run being drafted at a time.  In `HiringViews`: one screen loading at
  a time (two were tried, with the same result), applications arrive in the order of
  their dates.  In `PersonnelRecord`: one activation at a time, with replays.
* In `Performance`: whether a trigger day has passed, not dates.
* In `Tenancy`: the rows are cases and their checklists; other nested or unread creates
  (a note on a candidate) are left out.
* Roles are not modelled except where a property is about them (`HiringViews`,
  `Performance`, `Tenancy`): elsewhere an action is available to somebody entitled to it.

## 3. Runs

| run | instance | shows |
|---|---|---|
| `onboarding_documents` | 2 requests, 1 death, 2 document rows, 1 task | `VerifiedWasSeen`, `PaperworkFiled`; refinement `CustodyKept` |
| `onboarding_checklist` | 2 requests, 2 checklist rows, 2 document rows, both kinds of generated document | `StatusSettled`, `ActiveIsHired`, `ActivatedThroughGates` |
| `hire_provisioning` | 2 cases for one mailbox in two spellings, 2 requests, 1 death, hand termination | `ActivatedIsListed`, `ListedByActivation`, `AcceptedSignsIn`, `NeverResurrected` |
| `requisition` | 2 requests, 1 death, 2 approvers, lists of 0/1/2, 3 editions, 2 applications | `EverUnanimous`, `DecisionsSettle`, `PipelineCleared`, `PostingStaysUp` |
| `candidate_pipeline` | 2 requests, 1 death, 2 team members, 2 moves, 1 edition of questions and criteria, 5 workloads | `MailsMatchMoves`, `DebriefGate`, `PurgeSticks` |
| `performance` | 2 requests, 1 death, 2 hires with 2 names, 3 agenda entries, 4 workloads | `ProbationAnnounced`, `IndependentSelf` |
| `workplace` | 2 requests, 1 death, 3 letters on 2 lanes, 2 employees, 3 edits, 2 workloads | `CohortServed`, `LettersMatch`, `CourseReviewed`; liveness `ApprovalEnds` |
| `separation` | 2 requests, 1 death, 2 days, 1 leave row of 2 types edited at either end, 1 blocking task, the status Active or Terminated by hand | `TerminationJustified`, `BypassRecorded` |
| `policy_ingestion` | 2 slots for requests and jobs, 2 uploads of any of 1111 texts, batches of 2, rejected calls, restarts | `ReadySearchable`, `UploadReplaces`; liveness `ProcessingEnds` |
| `workspace` | one of 8 workloads at a time; per workload 2 requests (1 screen) with failures; see below | `FounderSignsIn`, `ChainsEnd`, `GrantsSettle`, `QuestionsAnswered`, `Isolation`, `TasksFollow`, `BlindHolds`, `SecretsCarried`, `RecordFollows`, `HandEditsKept`, `OnePrimary`, `OptionsKept` |

Two runs exhibit disagreements between the code and what it says of itself
(the findings of `PROJECT.json` quote the lines):

| run | what TLC finds |
|---|---|
| `hire_retried_sign_in` | a retried acceptance succeeds without ever creating the login; only acceptances have touched that hire's rows, no activation and no manual creation |
| `blind_name` | a panel member reads the candidate's name in the audit trail of a blind profile |

*Bounds.*  Two requests in flight are what every race here needs: each is a request
that read something and one that changed it; the second may be followed by any number
of further requests while the first is parked.  One death leaves every partial state
a handler can leave, and every handler can run after it.  `MaxDocs`/`MaxTasks` count
rows ever created: two are needed for a replacement, and a replaced, verified and
filed document is reached.  Three editions let an old decision meet a new list after
an intermediate one.  Two days are the fewest that have a first and a last day of
leave, an inverted range and a midnight; one leave row meets every edit, decision and
cancellation of itself.  Two moves (`MaxMoves`) let a second stage change meet the mail
of the first; one new edition of questions and of criteria makes an old answer stale.
Its five workloads (mails; purge by stages; purge by arrivals; the panel while its members
change; the panel while its criteria do) put every two operations that share state
beside each other.
Three letters on two lanes make one lane take a second letter while the other is
busy.  Three agenda entries outnumber the requests.  Texts of up to three blocks of up
to nine characters, cut at 5 with an overlap of 2, have blocks that are blank, fit, fill
a chunk, and split into three; documents of up to three chunks have no batch, a short
one, a full one and a second one (an unsound text of any length would be kept).
`requisition` was also run to the end with three requests (21 million states, two
editions), with the same result, outside the regular runs.

In `workspace`: three signups (`MaxSignups`) over two addresses let a failed attempt, a
retry and another founder meet; three people make cycles of one, two and three; three
questions (`MaxTurns`), two per window of two ticks and four ticks (`MaxTime`) refuse
a question and accept it later; two companies, each with a case that may be created and
deleted and two requests by every lane, are the fewest that can mix; two candidates
swap ordinals; three requests on a hire's record (`MaxAsked`) are a submission, a
correction and what follows, and `PersonnelRecord` alone also passed with four (3.0
million states); three saves (`MaxSaves`) are one that sets an option or empties a list, one
that leaves it out and one after it.

Requests are interchangeable, so `SYMMETRY` is sound for invariants and for the
action properties used; `policy_ingestion` and `workplace`, which check liveness, have
none.

*Deadlock* is checked where a system goes on for ever; `CHECK_DEADLOCK FALSE` stands in
the configurations of systems that really end once their bounds are used up or their row
is deleted: `Requisition`, `CandidatePipeline`, `Performance`, `Workplace`, `Workspace`.

Every property of a passing run has a mutant: a plausible slip in one definition
(a dropped guard, a skipped reset, an unfiltered read) under which TLC finds that
property violated in the same run.

*Fairness.*  `PolicyIngestion` assumes weak fairness of each slot's `Step`, `Workplace`
of each request's next await.  A continuation is run by the event loop, the database
answers or rejects, and the providers' clients are built with a timeout of 60 s
(`gemini.provider.ts:79`, `anthropic.provider.ts:26`), so no call stays pending for
ever; arrivals, `Reject`, `Restart` and deaths have none, and `ProcessingEnds` and
`ApprovalEnds` say what a restart or a death costs.  Elsewhere nothing retries by itself,
and "eventually" would depend on a person.

### Disagreements met while modelling, without a run

* A settle computed before an activation takes the case out of Active
  (`onboarding.settle.ts:11`), where a unit test "keeps Active terminal"
  (`onboarding-status.spec.ts:17`).  The hire's next correction is then accepted, and it, or
  a second activation, overwrites what HR typed into the row meanwhile, against "After
  activation the record is HRIS-owned" (`submit-profile.command.ts:37`).
* A submission with forms open settles back to Forms In Progress, so a replay of it
  regenerates the documents (`finalize-submission.command.ts:19-21`).
* A re-upload with another file extension is a second document
  (`upload-case-document.command.ts:63`, against `onboarding.types.ts:44`).
* A published requisition may be edited to a salary of 0 and stays public without a band
  (`recruitment.repository.ts:323`, against `:469`).
* A leave approved between the lock's read and the write of a termination is terminated
  through without an override (`offboarding.repository.ts:138`, against `:117`).
* The undo of a failed signup deletes the Firebase account it created, also when an
  overlapping signup of the address adopted it meanwhile and succeeded
  (`identity.controller.ts:104`).  A lookup that fails answers "no account"
  (`firebase-admin.service.ts:76-83`): one such failure, with no overlap, lets a later signup
  skip the check for a linked account (`identity.controller.ts:84-88`), overwrite the
  founder's password (`:98`) and, when the transaction refuses the address, delete the
  founder's login, against "Only delete what THIS call created" (`:102-103`).  A signup that
  fails on an account it found leaves the new password on it.
* Activation overwrites what HR or the hire typed into the employee's row before it, and
  writes nulls where the form is empty (`onboarding.repository.ts:341` and following),
  where the comment at `:496-498` has what was not provided stay "null rather than
  overwriting something HR set by hand"; the birthday's privacy is updated by name and
  reaches namesakes; a replay of the activation does not synchronise again.
* `updateLeave` does not repeat the rules for overtime and partial days that
  `createLeave` enforces (`timeoff.repository.ts:104-123` and `:147-164`); two one-ended
  edits of a leave, each checked against the other's old end, store an inverted range,
  which hides the leave from the termination lock.
* The people directory sets any status by hand, `Terminated` included (`people.dto.ts:24,62`,
  `people.repository.ts:210`), past both gates, where `termination-guard.ts:6-8` says "The
  system hard-blocks it" and `offboarding.repository.ts:117-120` says the like.
  `TerminationJustified` is about what `finalizeTermination` writes; the hand edit is in its
  bounds and is not one.
* HR's rejection of a published course leaves its assignments and opens it to its owner
  (`workplace.repository.ts:310-330`, `:239-258`), whose next edit the assigned employees
  read without a review;
  an edit that crosses HR's decision changes the published text.
* The audit trail of a candidate's profile is returned unfiltered
  (`recruitment.repository.ts:1020-1024`) and repeats every recommendation, drafts included
  (`:1391-1397`), before the viewer's own card, against "A Draft is PRIVATE to its author"
  and "nobody reads the panel before forming an independent opinion" (`:936-939`).
  `DebriefGate` is about the cards, and `peeked` holds the pairs that show this.
* A list of departments or job titles saved empty is stored so, reads as the defaults
  (`platform.mapper.ts:61-66`), and is replaced by them at the next save that leaves it out
  (`platform.repository.ts:42-53`), against "must not wipe values previously saved" (`:39-41`);
  the form admits it (`platform.dto.ts:36-47`).
* HR's manual creation that dies before its `user.create` (`people.repository.ts:108-136`)
  leaves a later, first acceptance as `hire_retried_sign_in` leaves a retried one.
* A probationary review HR opens with `createReview` is announced to nobody
  (`performance.repository.ts:197-207`): the sweep finds it and takes it for its own.
* Two uploads of a handbook that cross each delete what there was and then create their
  own, so both stay, where the plan says "one active handbook per tenant"
  (`docs/superpowers/plans/2026-07-15-agent-module-c-policy-rag.md:21`); two retries that
  cross may take a document from Ready back to Processing, and a restart leaves it there,
  out of the reach of a retry.
* Two managers assigned at once close a cycle; two probation sweeps at once open two
  reviews; a new hire who shares a name with one who was announced before is not
  announced; of two settings saves or agenda edits at once one is lost; two stage changes
  from one read mail the candidate twice; two added primary contacts are both primary.
* The purge leaves the details of audit events and the sender's address of inbound mails.

## 4. Proofs

Every safety property and action property that a passing run checks is also a theorem of
its module's specification: for any number of requests (infinitely many included), rows,
people and values, any deaths, rejections and restarts the model allows, and any bound.
The theorems are listed in `PROJECT.json`; each `...Proofs` module begins with what it
shows.

*Assumptions.*  Only the named ones on the constants, which every run evaluates.  Most say
that a bound is a number and a switch a Boolean.  The others say:

| assumption | what it says beyond that | why the code justifies it |
|---|---|---|
| `WizardAssumption` (`OnboardingCase`) | the forms of one submission are not all forms, nor is a single one | `FORM_KEYS` has five, a submission marks two, `markForm` one |
| `ProvisioningAssumption` | every mailbox has its lower-case spelling; the marks for "nobody" are no addresses; hand edits are statuses an employee has | normalisation of addresses; DTO validation |
| `PipelineAssumption`, `RecordAssumption`, `TenancyAssumption`, `DirectoryAssumption` | different roles have different names, and none is called "none" | names of model values |
| `AssistantAssumption` | finitely many requests at once | one process; counting the unanswered questions needs it |
| `LeaveAssumption` | days are numbers and there is one; an edit never sets the id and keeps a row a row | `updateLeave` merges dates, type and status |
| `IngestionAssumption` | a batch has at least one chunk | `EMBED_BATCH_SIZE` is a positive constant |

One theorem has a hypothesis beyond these: `TextAlwaysSearchable` (the chunker's outcomes
are sound: what recursion over a text yields is checked, not proved).

*Shape of the arguments.*  In most modules a first invariant (`CoreInv`, or `TypeOK`)
holds types and **sense**: what a request carries agrees with the await it is parked at.
A frame lemma says that a step of one request leaves every other request's slot alone, so
that only the moving request and the rows it writes are left to show.  The properties
themselves are hardly ever inductive: they speak of moments when nothing is in flight, and
the invariant must say what the requests in flight still owe.

**`OnboardingCaseProofs`**

* `TypeCorrect`; `VerifiedWasSeenAlways`, `CustodyImplemented`, `OnlyApprovedFiled`.
  `CustodyInv`: types; `RowsKeepTheirFile` (a row's file is its id: rows are replaced,
  never refilled); `UploadsUnverified`; `CopiesApproved` (files carried towards the vault
  are approved); `VaultApproved`; `VerifiedWasSeen`.  An upload in flight might otherwise
  carry a verified row, and a publication in flight carries copies that may have left
  `docs`.  With it each step maps to `Approve`, `File` or a stutter of `DocumentCustody`.
* `ActiveAlwaysHired`.  `HireInv`: a settle never carries Active (`SettlingIsModest`), so
  an Active case without its hire has an activation that is about to write it.
* `GatesAlwaysHold`.  `SoloInv`: while `solo`, at most one request is in flight, and what
  its guards saw is still so at each of its awaits (`StillSees`).
* `StatusAlwaysSettles`.  `WizardInv`: a lone request that has marked forms is on its way
  to a settle; an Invited case that nobody disturbs has no form or not all of them, since
  `nextStatus` leaves Invited one step at a time.
* `PaperworkAlwaysFiled`.  A verified document of an Active case that is not in the vault
  has a request that *will file* it: an activation that has not read the documents yet, a
  verification that has not read the status yet, or either with the copy in hand.  This is
  the argument why the two crossing writes and reads cannot both miss.

**`RequisitionProofs`**

* `TypeCorrect`; `OnlyUnanimousAdvances`.  The status is written awaits after the approvals
  were read, so `ApprovalInv` adds that a request about to write Approved or Published has
  unanimity behind it, and that a list that is all approved, settled or not, makes it so.
* `DeletionClears`, `PostingsStayUp`.  `SoloInv`: what the guards of a lone request saw
  still holds; a deletion's victims are all the candidates there are.
* `DecisionsAlwaysSettle`.  `SettleInv`: a decided list under Pending Approval has a
  request on its way to settle it.  The last decision on a list reads it after its own write,
  and a list goes back to undecided only as a whole.

**`HireProvisioningProofs`**

* `TypesHold`, `ListedOnlyByActivation`, `NobodyIsResurrected`, `ActivatedStaysListed`.
  `CoreInv` = types, `LinkIsOwn` (a link is the case's own address) and the sense of
  requests (one at `promote` has activated its case).  `Onwards` says which way a row, a
  link and a case can move at all.
* `AcceptedCanSignIn`.  `LoginInv`: a login is its mailbox's own; a row without a login
  has exactly one request that will write it, unless one died.

**`CandidatePipelineProofs`**

* `TypesHold`.  `CoreInv` also has that one application at a time is being created.
* `DebriefGateHolds`.  `PanelInv`: a viewer who has seen a colleague's card is neither on
  the panel nor has spoken; a member becomes one before the application counts.  It says
  nothing of the recommendations on the audit trail, which no gate hides.
* `PurgesStick`.  `PurgeInv`: after an undisturbed purge every request in flight carries
  no personal data but the team's notes.
* `MailsAlwaysMatchMoves`.  `MailInv`: per trigger, what happened is what was mailed plus
  the one mail a request still owes, and a lone mover's `from` is the stage.

**`PerformanceProofs`**

* `TypesHold`; `SelfIsIndependent`: the manager's words have been seen in a completed
  review only (`ReviewInv`).
* `ProbationIsAnnounced`.  `SweepInv`: a sweep's list of the announced is a part of them,
  a lone sweep's work has no review yet, and a hire with one was heard of, shares a name,
  is in a sweep's hands, or had it opened by HR.

**`SeparationProofs`**

* `TypesHold` (of `TimeOff` and the offboarding together: a worker is in one of them).
* `BypassIsRecorded`.  `BypassInv`: an override that terminated has its record, or a
  request about to write one.
* `TerminationsAreJustified`, about the writes of `finalizeTermination`, whatever the hand
  edit set before.  `SoloInv`: a lone finalization has passed the task gate
  before it reads the leaves, and the lock before it writes, on the same day.  `LockLooks`:
  the lock's query finds a leave exactly when one protects.

**`WorkplaceProofs`**

* `TypesHold`; `CohortAlwaysServed`; `LettersAlwaysMatch`.  `LettersInv`: unless HR
  reopened a run under an approval at work, one approval is at work, its list is what is
  still to be done, an item is Issued iff its letter is in the vault, and what it counted
  is what is there.  The sizes (`Having`) are cardinalities, with lemmas of their own.
* `CoursesAreReviewed`.  `CourseInv`: a published course is the approved text, nobody is
  editing it, and what is assigned was approved and, until HR withdraws it, is that text.
* `IngestionTyped`, `TextAlwaysSearchable` (`ReadySearchable`).  `IngestInv`: an
  upload's own job shares its document with deletions only until its chunks are there
  (`Apart`); a job past that point knows that the document's chunks are the whole text and
  that those in neither its rest nor its batch have a vector (`VectorsSoFar`); a document's
  chunks are none or all.  Several jobs of one document, a deletion under any of them, a
  failure at any call and a restart each leave that as it was: they leave a document's rows
  alone, take them away, or add vectors (`RowKept`, `RowGone`, `RowOn`).
* `UploadAlwaysReplaces` (`UploadReplaces`).  `OpenInv`: a request that nothing
  crosses is the only one in its handler, and at the create it finds no document -- jobs
  only write documents that are still there (`StepMoves`).

**`WorkspaceProofs`**.  `StepOfOnePart`: a step of the workspace is a step of one part or
leaves it alone, so each part is proved by itself.

* `OptionsAreKept` (`SettingsInv`: a save that does not send a sure option found it
  reading as it reads now, an emptied list as the default).
* `ChainsAlwaysEnd` (`LineInv`: the people a walk has passed report to one another, to
  where it stands or to nobody, and the person being edited is not among them).  `ChainsEnd` is stated by rings: every set of people has one who reports outside
  of it; `LinkClosesNoRing` is the step.
* `TenantsIsolated`, `TasksAlwaysFollow` (`TenancyInv`: a call's store holds its caller's
  company from its entry to its end, the background job keeps its home, no row changes hands
  but the ownerless ones).
* `SecretsAlwaysCarried` (`SecretsInv`), `OnePrimaryAlways` (`PrimaryInv`: a lone writer of
  a primary contact has cleared the others), `HandEditsAlwaysKept` and `RecordAlwaysFollows`
  (`HiredInv`: where the row is in the activation, that no synchronisation is under way over
  a hand edit -- a form handed in to a reopened case ends the claim -- and that a
  synchronisation alone carries the form on file).
* `GrantsAlwaysSettle` (`GrantsInv`: what the grants are between the four calls of a lone
  replacement).
* `QuestionsAlwaysAnswered` (`ChatInv`: at every prefix no more answers than questions, and
  the difference at the end is what is in flight).
* `BlindAlwaysHolds` (`ViewsInv`: an alias is the place of the application; a screen that
  was blind all along still is, and shows only people who are there).
* `FounderAlwaysSignsIn` (`FoundersInv`: an address that is not `doubtful` has one
  signup at work and that one was told of any linked account, nobody of that address has
  a login while it is between its check and its end, and the account it is about to record is the one it made with its password).

*Only model-checked*: the liveness properties `ProcessingEnds` and `ApprovalEnds`; that
the chunker's outcomes are sound (`PolicyChunker`, evaluated over 1111 texts); the two runs
that exhibit a disagreement.

*Out of the prover's reach, left to TLC*: liveness under fairness and ENABLED; induction
over data (what the chunker's recursive functions compute for every text), for which the
installed provers cannot instantiate the library's theorems.  No RECURSIVE operator is
used anywhere.

## 5. Plan

What is left:

1. An abstract specification of `PolicyIngestion` (a document is there as a whole or not at
   all) and of the approval of letters (every letter issued at most once), refined as
   `OnboardingCase` refines `DocumentCustody`; both invariants needed are proved above.
2. Lemmas about the pure helpers that are not recursive (`nextStatus`, `settleApprovals`,
   `nextReviewState`) as results of their own rather than inside the proofs that use them.
3. The two hazards without a property (section 1): a history variable for what a race
   loses would give them one.

### Not modelled

* HTTP routing, DTO validation, mappers, modules, seeds: formatting and wiring without
  state of their own.  The inputs the models enumerate are those validation lets through.
* Single statements nothing else depends on: assets, announcements, letter templates and
  single letters, vault listings, kudos, improvement plans, department delegation of
  offboarding tasks, interview slots and guides, archiving, job-board links, template
  edits beyond their presence.
* Analytics, snapshots and listings: reads that change nothing, except those a property is
  about (blind hiring, scorecards, reviews, retrieval).
* Text in, text out: job descriptions, message and letter drafting, resume parsing, the
  copilot's prompts, input and output classifiers, provider clients, the tool catalogue.
  What they answer is not a state of this program; that they answer, refuse or fail is.
* `updateEmployee`'s check of a start date against the date of birth: one row, one write.
