# Verification of the cooler-service CRM

TLA+ modules, TLC runs and TLAPS proofs about a service desk: Admin raises complaints and
gives them to service centres, a centre's Owner books technicians, a technician visits and
submits the work on his phone, and the customer's *Happy Code* confirms it before the
complaint closes. Paths below are relative to `server/src` unless they start with `client/`.

Contents: 1 the system; 2 the modules and how they read against the code; 3 the runs, their
bounds and fairness; 4 findings, and lesser divergences; 5 the proofs; 6 what is only
model-checked; 7 what is not modelled; 8 what could follow.

## 1. The system

### Components, their state and their operations

| Component | State | Operations that change it | What makes it correct |
|---|---|---|---|
| Complaint workflow (`modules/complaints/workflow.service.ts`) | the `Complaint` document: status, centre, technician, Happy Code metadata, SLA record, review, rating, closure history | assign or move the centre, assign a technician, book, call off and start a visit, submit, review, send back, verify, regenerate, close, rate, reopen, cancel, hold, resume - each one MongoDB transaction | complaint, visits and part requests always tell one story; nobody is left holding work they cannot act on; closures are confirmed and never lost |
| Status machine (`core/statusMachine.ts`) | none: a table of moves | `assertTransition`, `availableTransitions` | closing needs a confirmation; every status keeps a way on other than cancellation |
| Happy Code (`core/happyCode.ts`) | issued, verified, attempts, lock | issue, regenerate, verify | the last attempt locks; a locked code can be replaced |
| SLA clock (`core/sla.ts`, `modules/sla`) | running, paused, breached, completed; deadlines | start, pause, resume, respond, complete, breach on read, sweep, rule edits | a breach is on record exactly when the work took longer than promised; due dates stand |
| Intake and reads (`complaint.service.ts`, `recommendation.service.ts`) | complaint, number, first timeline rows | create; `getComplaint` saves a breach it derives | all of a complaint is raised, or nothing; a read never undoes a handler's write |
| Visits (`modules/visits`, `models/visit.model.ts`) | visits numbered per complaint | booked, moved, started, completed, cancelled | an ended visit is never rewritten; an open one belongs to who holds the job |
| Parts and stock (`modules/parts`) | requests, usage lines, stock counts | request, decide, withdraw, record, finalise, adjust, set | waiting requests are with the centre that holds the job; stock is never negative nor deducted twice |
| Access control (`middleware`, `core/scope.ts`) | none | authenticate, role check, scope | a deactivated account or centre acts on nothing; a complaint is seen by its holder |
| Accounts and centres (`modules/users`, `modules/masters`) | users, centres, `isActive` | create, edit, deactivate, reset password | no half-made centre; what a deactivation strands is reported |
| Masters (customers, cities, catalogue) | records with unique keys | find or create | one record per key, whoever comes first |
| Sign-in (`modules/auth`) | sessions, failed attempts, lock | login, refresh, logout, change password | a revoked session stays revoked; attempts are capped under concurrency |
| Complaint numbers (`core/complaintNumber.ts`) | one counter per year | next number | unique and without gaps, in the year of the company's clock |
| Attachments (`modules/attachments`) | rows and stored bytes | upload | never a row without bytes, nor bytes without a row |
| Timeline and audit (`core/audit.ts`, `modules/audit`) | append-only rows | append | what the reports read back can be told apart |
| Integrity checker (`scripts/check-integrity.ts`) | none (read-only) | - | it reports faults, and only faults |
| Reports and dashboards (`modules/reports`, `modules/masters/centerOverview.service.ts`) | none: queries | the sweep | the same thing has one figure everywhere; a figure opens the list it counted |
| Web client: session (`client/src/lib/api.ts`, `auth.tsx`) | stored session, query cache, requests under way | sign in and out, renew, ask | one person's data never meets another's eyes; a bad signal signs nobody out |
| Web client: pages (`client/src/pages`) | forms, drafts on the phone | the requests their buttons send | a page offers what the server accepts, and somebody is always offered a way on |
| Service worker (`client/public/sw.js`) | the files of one release | adopt a page, prune | a release is kept whole or not taken |
| Settings, start-up, seed scripts | configuration | - | - |

### How they interact

Every workflow handler runs through `inTransaction` (`workflow.service.ts` 92-123): it
finds the complaint inside the caller's scope, changes the complaint, its visits and its
part requests, and saves them together. It asks the status machine (`assertTransition`)
for the move, the Happy Code module for a typed code, and the SLA module for the clock.
`authenticate` has re-read the caller's account, centre and session before. The parts service
shares the complaint's documents with the workflow: it reads the complaint's centre when a
request is raised, and the workflow withdraws requests when the complaint moves. Reports
call the breach sweep before they count. Nothing runs on a timer: a deadline that passed is
noticed by the next read or report. The client's pages ask the server for the moves open to
their role, add conditions of their own, and send one request per button; all tabs share one
stored session and each renews it by itself.

### What is hard

* **Long sequences of legal calls.** Twelve statuses, three roles and some twenty handlers
  over five documents. A visit, a request, a rating or a verification left behind by one
  handler is found by another, several handlers later. Many comments in the code
  ("found in the pre-launch review") are about such sequences.
* **Accounts that vanish.** A technician, or a whole centre, can be deactivated between
  any two calls; the job must still come home.
* **Overlapping transactions and calls outside one.** `getComplaint`'s breach save, uploads,
  the office screens and sign-in run without a transaction; two transactions that write
  different documents do not conflict.
* **Failure half-way.** The process stops, or one write of several is refused, between the
  customer and the complaint, a centre and its owner, a row and its bytes.
* **The bad signal.** Lost replies, renewals and files, on a phone several people use.
* **The same rule in several places.** The table, nine conditions of the pages, the
  filters behind each figure, and the checker each say again what the workflow does.
* **Limits.** The Happy Code's last attempt, the last part in stock, the login lockout, the
  sessions kept.

The project's hazard list (`PROJECT.json`) has each at its line.

## 2. Modules

| Module | Models |
|---|---|
| `StatusMachine` | `core/statusMachine.ts`: the statuses, the table `TRANSITIONS` with its two generated families, the preconditions, `assertTransition` |
| `ComplaintWorkflow` | one complaint with its visits, part requests and the accounts around it; every handler of `workflow.service.ts`, the request handlers of `parts.service.ts`, `getComplaint`'s breach, the sweep, deactivation |
| `ServiceLifecycle` | abstract: what the desk promises about one complaint - who holds it, when it may close, what a closure leaves behind - in five variables |
| `ComplaintService` | the refinement mapping from the workflow's documents to `ServiceLifecycle` |
| `Screens` | the Owner's and Admin's complaint pages and the technician's phone: which buttons each shows, and the requests they send to `ComplaintWorkflow` |
| `VisitDrafts` | what a technician types on a phone and when it is kept, submitted and dropped, beside `Screens` |
| `Figures`, `Dashboards` | what one complaint adds to every figure of the dashboards and the centre's page, the lists these open; the queues, the schedule and the banners that tell people what to do |
| `Reports` | the complaint, service-centre and technician reports over the workflow, with the rejections on the timeline that they read back |
| `IntegrityCheck` | the filters of `scripts/check-integrity.ts` over the workflow's states |
| `SlaClock` | `core/sla.ts` with time: deadlines, holds, breaches, the snapshot a reader is shown, rule edits, and `getComplaint` as a read and a later save |
| `ClockPages` | what the lists, a complaint's own page, the dashboards, the reports and a centre's page say of a clock, each as it reads it |
| `PartsStock` | `parts.service.ts` with the workflow handlers beside it, as transactions that overlap: requests, decisions, usage lines, stock |
| `PartsLedger` | abstract: requests, usage lines and shelves as one clerk would keep them, one entry at a time |
| `PartsDesk` | the pages parts are asked for, answered and confirmed on, over `PartsStock` |
| `SignIn` | accounts, lockout, sessions, tokens and passwords, each `await` a step |
| `Intake` | raising complaints and making customers, centres and accounts; deactivating a centre; the yearly counter; transactions that abort or run again |
| `Uploads` | the bytes, the row and the timeline entry of a photo |
| `Records` | `Intake` and `Uploads` in one process that may stop |
| `Browser` | the stored session over tabs, its renewal, the requests that wait for it and the query cache |
| `OfflineShell` | the service worker: a release gathered file by file |
| `IntakeForm`, `Recommendation` | the form a complaint is raised on, and the ranking of the centres it proposes |
| `MC...` | the instances TLC checks; `MCClockAndRecords` and `MCStockAndSessions` put two parts that share no state into one run |
| `..._proofs` | the theorems of section 5 |

`Screens` extends `ComplaintService` extends `ComplaintWorkflow` extends `StatusMachine`;
`VisitDrafts`, `Figures` and `Reports` build on these. `SlaClock` extends `StatusMachine` too,
and `ClockPages` extends `SlaClock`.
Three modules look at the same complaint, each with what the others leave out:
`ComplaintWorkflow` has every guard, with atomic handlers and a clock without time; `SlaClock`
has time, and any move the status table allows; `PartsStock` has the atomicity of the database,
and of the complaint only what the parts service asks of it.

### How `ComplaintWorkflow` reads against the code

* **State.** `complaint` is the stored document, field for field where a property can tell
  the difference. Dates and sub-documents are `"set"` or `None`; `closedBy` keeps the role
  of who closed; `serviceRating` and a closure's `rating` keep the centre they name.
  `visits[v]` is the visit with sequence number `v`, `"UNBOOKED"` while there is none.
  `requests[r]` likewise. `active` is the set of accounts and centres whose `isActive` is set.
* **Init** is `createComplaint`: a complaint without a centre (`NEW`), or sent to an active
  one at creation (`ASSIGNED`).
* **Actions** have the handlers' names. The guard is the handler's scope check, its early
  refusals and `assertTransition` on the projected complaint; a refusal changes nothing, so
  it is not a step. Inputs are quantified: a reason is given or not, a code is right, wrong
  or absent. `closeComplaint` with a wrong code saves the attempt and closes nothing; that
  path is the action `closeWithWrongCode`.
* **Who calls.** `Admin`, `Owner(c)` and `Tech(t)` are the three kinds of caller.
  `MayAct(auth)` is the sign-in check of `authenticate.ts` together with `complaintScope`.
  Which caller may send which request follows the routers (`AdminSteps`, `OwnerSteps`,
  `TechnicianSteps`). Every Owner of a centre has the same rights on a complaint, so an
  Owner is its centre. Admin accounts are always active: an Admin cannot deactivate itself.
* **Choices of the environment.** Whether a deadline has passed (`late`, `recordBreach`) and
  how the SLA rule's switches stand (`shouldPause`): both change at any time outside the
  complaint.
* **`findOne` without a sort** (the booked visit a reassignment takes along) is any such visit.
* **`Spec` and `ScreenSpec`.** `Spec` is every request the API accepts, in any order.
  `ScreenSpec` is the same but for one request: `resume-work` is sent only while the complaint
  waits for parts, where the client's screens offer it
  (`client/src/pages/tech/JobDetailPage.tsx` 433, `client/src/pages/center/ComplaintDetailPage.tsx`
  296). The difference is a finding (section 4), and what it would break is stated of `ScreenSpec`.
  A phone that still shows an older page can send it as well; pages show fresh data here.

### The promise and its refinement

`ServiceLifecycle` has no technician, visit, code, clock or request: a complaint *waits*, is
*attended*, closed or cancelled, at a holder; the word is given only for attended work, only
the desk closes without it, a rating is the holder's for the standing closure, a reopening files
the closure and carries nothing over. `ComplaintService` maps the twelve statuses to the four
stages and the stored fields to the others; `KeepsLifecycle` is the abstract `Spec` under that
mapping. One thing in it is the code's and not what one might wish: a word given for work still
stands when the complaint is sent on to another centre.

### How `Screens`, `VisitDrafts` and `Dashboards` read against the code

* A page is a record of its buttons, each with the condition that shows it: the server's
  `nextActions` and what the component adds. `OwnerSends`, `AdminSends` and `PhoneSends` are the
  requests, with the inputs the dialog can produce (every reason box is filled in, the booking
  dialog names no technician). Pages show the data as it stands.
* Two refusals are left to the server's message (`MayBeRefused`): the Owner's page does not say
  that the code is locked, and only a note says that the technician to be sent has left.
* The visit flow keeps a draft per technician and visit. `submit`, `arrive`, `fail`, `onSuccess`
  and `onError` are the two ends of one request whose reply may be lost; `forgetFinishedDrafts` is
  what opening a job does. Nobody sets out while a submission is on its way, and what other phones
  submit is `elsewhere`. `writer` and `filed` are history.
* `Figures` counts one complaint: a figure is a sum over complaints, so a figure and the list it
  opens agree if they agree on each. A tile is its figure (`shown`) and the query behind its link
  (`listed`). Filters that reach both alike (period, city, product, search) are left out. There is no time here: a
  clock runs out when the sweep finds it, which is how the dashboards, the reports and a list of what is late see it, since
  all three sweep first. What is said of a clock without a sweep, or counted down to, is in `ClockPages`.
* `Dashboards` has the Owner's three queues, the schedule, the sections of the phone's first
  screen, and as sets of buttons what each banner tells its reader to do or to wait for.

### How `Reports` and `IntegrityCheck` read against the code

* `submissions` are the visits in the order of `resolution.submittedAt`, which need not be the order they were
  booked in: a visit left booked by a bare resume request can be started and resolved after a later one.
* `rejections` is the part of the timeline the reports read: a rejection's date is how many resolutions
  were older. The report finds the work it judged by dates alone (`judged`); `work`, which no report reads, is
  what was in fact judged.
* `IntegrityCheck` has the script's filters by name; `AlarmsAreExplained` says which of them a
  sound run of the service can trip.

### How `SlaClock` reads against the code

* `now` counts from the creation of the complaint; a minute, a millisecond and a step of `Tick`
  are the same unit, so the factor 60 000 of `startTracking` is not seen.
* `sla` is the stored sub-document, field for field; an absent stamp is `None`. `reference`,
  `resolutionBreached` and `responseBreached` are the parts of `snapshot`; `Overdue` is the
  condition of `applyBreach` and of the sweep's filter. `pausedTotalMs` is never absent, so the
  `$ifNull` of the filter is not seen.
* Handlers that do the same to the clock are one action (`moveOn`, `putOnHold`, `takeUp`,
  `closeComplaint`); any rule of the table may let them through, which allows at least what
  the workflow's other guards do.
* `readComplaint` and `saveBreach` are the two halves of `getComplaint` around its `await`. The
  save sets the whole sub-document (`complaint.sla = withBreach`), from the values that were
  read. A read that derives no breach saves nothing and is not a step.
* `ClockPages` adds no variable. `SlaCell` and `SlaCard` show the derived snapshot (the deadline with the time on hold,
  against now), the list of the clock as it is or, when late complaints were asked for, as `sweepBreaches` leaves it
  (`swept`), the page of the clock `getComplaint` has brought up to date. `slaBreached` and `wasBreached` are the dashboards'
  and the reports' filters, after their sweep. `overdue` and `DueText` are a centre's page: the stored state, without a sweep,
  and the stored due date, without the time on hold.
* `worked`, `promised` and `overwritten` are history: how long the clock ran, what was promised,
  and whether a save has undone another handler's write. No action reads them, but for
  the counting itself.

### How `PartsStock` and `PartsDesk` read against the code

* A transaction (`session.withTransaction`) is `begin`, which takes a snapshot, and then one
  handler at its commit, judging by the snapshot. It commits only if no document it writes was
  written by another since (`stale`); otherwise `abort`, and `withTransaction` begins again.
  Documents a handler only reads are not protected: this is the database's snapshot isolation, and
  it is where the module's finding comes from.
* `setStock` and `adjustStock` are single updates outside a transaction, atomic by themselves; the
  filter `{ availableQuantity: { $gte: ... } }` is the guard of the same step.
* There is one part, stocked at every centre: no handler relates two parts. "OPEN" stands for
  every status that is not terminal, since the parts service asks nothing else of it; what the workflow
  allows in between is in `ComplaintWorkflow`.
* `late` replaces the comparison of a line's `createdAt` with `closedAt` or `cancelledAt`. Ending and
  reopening empty it, as they set and clear the stamp the line is compared with.
* `counted` is history: what stock would be had nothing been used. The report's sums of quantities are counted
  part by part (`Parts`): a number of pieces is a cardinality, which the provers have facts about.
* `PartsLedger` has what is left when the transactions are done. `PartsStock` maps its requests to
  it (`Asked`: an approved request still waits for its part), its usage lines and shelves as they are, and its late lines
  to those that may not be deducted. An approval, a transaction that begins or aborts, and what is done to the complaint
  alone are stutters; a move or an end withdraws all waiting requests in one step, a reopening readmits the late lines.
* `PartsDesk` adds no variable: what is pressed is judged by a transaction that has just begun
  (`Fresh`), over every `Setting` of what `PartsStock` does not keep (a retired part, a missing
  stock row, no submitted work to show).

### How `SignIn` and `Browser` read against the code

* `SignIn` has the server's side. A call is one request; its `seen` is the copy of the account it
  has read, and every step of it between two `await`s is an action. Single updates (`countAttempt`,
  `extend`) are atomic; `savePassword` writes only the fields `user.save()` has changed in its copy.
  A password is known by how many were set before it, a token by its session and its stamp
  (`ims`). `misses`, `crossed`, `left` and `era` are history.
* `Browser` has the client's side: what the server answers is its environment. `store` is
  `localStorage`, `event` an undelivered storage event, `refreshing[tab]` the one renewal a tab has
  under way, `request[r]` where a request stands. A tab's own changes reach its listeners at
  once. A change of person drops the queries under way (`dropped`); a command runs on, and one of them, "resume work",
  puts its answer into the cache itself (`runsOn`), so `cache` keeps by which kind of request an entry came. Two assumptions: a storage event is delivered before anybody signs in next and before its tab
  makes a request of its own; and a renewed token outlives what is resent with it.

### How `Intake`, `Uploads` and `Records` read against the code

* `createComplaint` is a transaction over the same database the office screens write to one update
  at a time. `seen` is its snapshot; its own writes are not in `db` before the commit; an insert or
  an increment another open transaction has made is a transient error, and the callback begins again
  (`runAgain`). The unique indexes (mobile, code, city) are the guards of the inserts.
* Every request carries what was typed. `lost` (cities whose race was answered with an error), `cut`
  (requests a stop or a deactivation broke off) and `reported` (complaints named in answers to
  deactivations) are history, as is a complaint's `blind` (its transaction read the centre before
  the deactivation that preceded its commit).
* `Uploads` has the four writes of `uploadAttachment` in order, each of which may fail, and the
  `catch` that removes the bytes. `trip` is the visit a photo is filed under.
* `Records` lets one process serve both and stop between any two steps.

### How `OfflineShell`, `IntakeForm` and `Recommendation` read against the code

* A release is the page that names its files (`Named`), what those name in turn (`Inner`) and the
  files the server has while it serves that release (`Built`). `adoption` is the page being gathered;
  `torn` records that the server moved on while its inner files were gathered.
* `IntakeForm` has the fields other fields depend on and the lookups behind them, each answered
  when it likes; an address is complete or missing. `shownAddress` is what stands on the screen,
  `offered` the centres listed there (asked for by pincode, city and state, and kept by query), `pending` what was sent and
  the screen it was sent from. A centre may be deactivated, or made active again, meanwhile; `closed` is history.
* `Recommendation` is `recommendServiceCenters` with its scores; `RanksFairly` says without
  scores what it promises; it is proved (`RankingIsFair`), and TLC evaluates it as an assumption of `MCBrowser` over
  every answer to every query on up to three centres. `sorted` leaves entries that compare equal in any order.

## 3. Runs

| Run | Specification and bounds | Shows |
|---|---|---|
| `screens` (`ScreenWorkflow.cfg`) | `DraftsSpec` within a bound on drafts: the workflow driven from its screens, with one phone; two centres, three technicians (two interchangeable at the first), two visits, one wrong code locks, one reopening, at most one account or centre inactive at a time; no part requests | `WordsAreTheirOwn`, `AlarmsAreExplained`, `OpenVisitHasItsHolder`, `WorkUnderReviewIsCredited`, `ClockFollowsWork`, `OfferedIsAccepted`, `SomebodyIsOffered`, `NothingWaitsUnseen`, `ToldIsOnThePage`, `DraftsOutliveTrouble` |
| `api` (`ApiWorkflow.cfg`) | `ReportsSpec`: every request the API accepts; two centres with a technician each, one part request, two visits, two attempts, one reopening, nobody inactive; parts are asked for where no code was wrong, and a third visit is booked where neither was and nothing reopened (`OneThingAtATime`) | `TypeOK`, `TechnicianWorksForHolder`, `WaitingRequestsFollowComplaint`, `ClosedOnConfirmation`, `RatingJudgesStandingClosure`, `FiguresAddUp`, `TilesOpenWhatTheyCount`, `EndedVisitsStand`, and the refinement `KeepsLifecycle` |
| `clock_and_records` (`ClockAndRecords.cfg`) | the clock: two rules, of one unit and two, one with both pauses and one with none; one reader; time up to 5. Or the records: two calls and two uploaders at a time, three requests in all; two mobiles, two cities, one centre code, two years; one photo, two visits, three keys | `VerdictIsTrue`, `SnapshotAgrees`, `LateIsLateEverywhere`, `TimelyResponseStands`; `NumbersAreConsecutive`, `NothingHalfMade`, `StrandedIsReported`, `FilesHaveTheirRows` |
| `stock_and_sessions` (`StockAndSessions.cfg`) | stock: two centres, two transactions at a time; two usage lines of one part with at most one in stock, or one request. Or sessions: one account, two calls at a time, one session kept, two ids, two attempts, one password change, two moments | `StockIsAccountedFor`, `DeskOffersWhatIsAccepted`, and the refinement `KeepsLedger`; `GuessesAreCapped`, `ChangeEndsSessions`, `SessionsAreCapped`, `EndedSessionsStayEnded` |
| `browser` (`Browser.cfg`) | two people, two tabs, a query and a "resume work", two token pairs; or two releases of three files, two deployments, three page loads; or a form over two customers, addresses and products, and a centre | `CacheIsItsPersons`, `BadSignalKeepsSession`, `ReleaseIsWhole`, `SentAsShown`, `SignOutsAreFinal`, and the liveness property `RequestsSettle` |
| `stranded_visit` | `Spec`, the instance of `api` | a counterexample to `NoStrandedVisit` |
| `rework_confirmation` | `ScreenSpec`, the instance of `api` | a counterexample to `ReworkNeedsItsOwnConfirmation` |
| `closed_clock` | the clock of `clock_and_records` | a counterexample to `ClosedClockHasEnded` |
| `breached_tile` | the same | a counterexample to `BreachedTileOpensWhatItCounts` |
| `stranded_request` | the stock of `stock_and_sessions`, without usage lines | a counterexample to `WaitingRequestsAreHeld` |
| `former_command` | the session of `browser` | a counterexample to `NewCacheIsNewPersons` |
| `lost_photo` | the records of `clock_and_records` | a counterexample to `AnsweredIsOnFile` |

### What the passing runs say

* **`screens`.** Whatever people press, in any order, with accounts coming and going: an open
  visit belongs to who holds the complaint, submitted work to who did it, the clock stands still
  only on a hold. Every button shown would be accepted now (`OfferedIsAccepted`), and as
  long as somebody can work, somebody who can sign in is shown a button that gets the complaint on
  otherwise than by cancelling it, at its own centre while that can work (`SomebodyIsOffered`). Open
  work is in exactly the queue where it can be done, or on the schedule, on hold or with Admin
  (`NothingWaitsUnseen`), and no banner names a step that is not there (`ToldIsOnThePage`). What a
  technician typed is filed with his own visit and under his own name, and is dropped from
  the phone only once its visit is over, but for the case of section 4. What the integrity checker
  would report is one of four known false alarms.
* **`api`.** The same complaint under every request the API takes: who holds it, on whose word it
  closes, what a reopening keeps; the lifecycle is implemented; each rejection in the
  timeline is matched by its date to the work it was of, so no revisit rate passes 100 %; the
  figures of reports, dashboards and centre pages agree; and a tile opens exactly what it
  counted, but for the one of finding 6.
* **`clock_and_records`.** *Clock:* time, for the part of the state where it matters. A first response that was in time stays so
  whatever holds come after it (`TimelyResponseStands`). Lists, a complaint's page, dashboards and reports each find out by
  themselves whether a complaint is late, some from the record and some from the dates, some after a sweep; they
  always agree, and the rows of a centre's page are never the less alarming (`LateIsLateEverywhere`).
  *Records:* numbers run from 1 without gap or duplicate over aborts, re-runs, stops and the
  turn of the year; nothing half-made stays but in the named cases; photos have row and
  bytes both or neither.
* **`stock_and_sessions`.** *Stock:* the database's isolation. Though each
  transaction judges by a snapshot, nothing is left that one clerk doing one thing at a time would not have left
  (`KeepsLedger`): no request is decided twice, no line deducted twice or after it is barred. `DeskOffersWhatIsAccepted` is
  both ways: a button is shown if and only if its request would succeed. *Sessions:* all interleavings of two calls' awaits. A
  token that is still accepted comes from the present password, but for sessions in the making at the change.
* **`browser`.** A tab that has heard of the last change shows only its person's data and caches nothing a query has fetched for
  another (one command's answer is finding 7); only a
  sign-out or a refusal ends a session; one that the server has ended and the browser has let go of never
  comes back, whatever renewals other tabs still ask for (`SignOutsAreFinal`); requests that share a renewal are all released. Separately,
  the offline shell is always whole, and the address, the product and the centre sent are the ones
  shown, but in the cases of section 4.

### Why the bounds are enough

*Two parts in one run.* `clock_and_records`, `stock_and_sessions` and `browser` each check parts that share no variable. A
behaviour is one of them from its first state (`part`), and the others stand still in one of their initial states, so what is
explored is the sum of the parts and not their product. In `stock_and_sessions` calls and transactions, and session ids and
usage lines, are the same model values, so that one set of permutations is a symmetry of both.

*Workflow.* Two centres are needed for a move and suffice, as no handler
looks at a third. A second technician at one centre is needed for a reassignment inside it; no property
of `api` is about one, so that run has one each (`mcOneEach`).
Two visits give the interesting pairs: one ended and one open, one under way and one being
booked. The reports need a third, for the last visit booked not to be the last resolved. No handler reads both
a code and a part request, so `api` has one or the other in a life of the complaint (`OneThingAtATime`). One reopening gives a second life after a first; it files one closure. One
attempt (in `screens`) makes locking cheap to reach; two attempts (in `api`) separate a counted
attempt from the locking one. Part requests touch nothing the properties of `screens` speak
of; the pages' part buttons are in `PartsDesk`. Deactivation disables requests and
enables none, and changes no document, so the safety properties of `api` lose nothing without it;
what needs it is in `screens`. There the drafts are followed while the complaint is at the first
centre, nobody is deactivated and nothing reopened (`mcPhoneAtCentreA`, a guard of `mcNext` that lets through every
state without drafts): two technicians of one centre on one phone over two visits is the case the draft
keys are for. In `api` the two centres are interchangeable (`mcSwapped`). Neither run checks deadlock: with the
bound on reopenings used up a cancelled complaint rightly stops; `SomebodyIsOffered` says more.

*Clock.* 5 units hold a window of 2, a hold, a reopening and a second window; one
reader suffices, because a late save needs one read and no save reads another.

*Stock.* One item and two lines is the contest for the last part; a behaviour has usage lines or
requests (`mcOneKind`), as they share no document and no handler reads both. Two transactions give every overlap
of two; a third can only make more of the documents they read stale.

*Sign-in.* Two calls give every pair of requests on one account, the only document they share. One
kept session makes a second sign-in trim; one change gives an old and a new password; two moments
separate a stamp before a change from one after. The re-hash of an old hash is in the module
(`Rehashing`) and off in the run, for what it does is known (section 4).

*Browser.* Two tabs and two
people are what sharing is about; the second pair is a renewal or another person's session. The third kind of request, a
file, is in the module and not in the run: it is a query whose refusal signs nobody out. Two releases
with a file of their own each and one in common, one deployment forth and one back.

*Records.* Two calls race for a key, one of them may be a transaction; three requests let a third find what
two left. One photo on two visits, and as many keys as uploads.

The theorems of section 5 do not depend on these bounds.

### Fairness and liveness

`Browser` states fairness of what the browser and the network do by themselves: a request under way is
answered, refused or fails (`Answers`, `throwRefused`), so does a renewal (`RefreshAnswers`), and a storage
event is delivered (`onStorage`). A `fetch` settles in the end, and the event loop runs what is ready; nothing more is
used. No fairness is assumed of people. `RequestsSettle` follows: a request that was sent settles,
also when its renewal is lost or belongs to another request.

Elsewhere no liveness is stated: whether a person sends the next request is not up to
the code. That the next request is *possible*, and on whose page, is `SomebodyIsOffered`.

## 4. Findings and divergences

Findings, each shown by a run:

1. **A resume request strands a booked visit** (`stranded_visit`). `resumeWork`
   (`workflow.service.ts` 1464) asks for a visit under way only while `WAITING_FOR_PARTS`, and the
   table lets a technician go from `VISIT_SCHEDULED` to `IN_PROGRESS` (the rule is
   meant for `startVisit`). Assign, book, resume: the complaint is `IN_PROGRESS`, its visit
   `SCHEDULED`. The integrity checker calls this an error (350-353): nothing can be submitted
   because no visit is under way, and the visit can no longer be started. The Owner can still
   call the visit off and book another.
2. **Rework on an old confirmation** (`rework_confirmation`). The comment on `requireRework`
   (1379-1380) promises that work sent back needs its own confirmation. The Owner's rejection
   in `reviewResolution` records the same "sent back" and keeps `verifiedAt`. The next
   submission with any code typed closes the complaint, since an already verified code
   accepts anything.
3. **A read restarts a closed clock** (`closed_clock`). `getComplaint` (`complaint.service.ts`
   580) saves the whole clock it read, outside a transaction. A closure in between is
   overwritten: the complaint is `CLOSED`, its clock `BREACHED` and still counting, `completedAt` gone.
   `VerdictIsTrue` and the theorem `DeadlinesFrozen` therefore except what such a save has overwritten;
   `SnapshotAgrees` and `LateIsLateEverywhere` hold even so.
4. **A request stays with a centre that lost the job** (`stranded_request`). `createPartRequest` and
   `assignServiceCenter` write no common document. Overlapping, both commit: the request is
   raised in the old centre's queue after the withdrawal looked. `decidePartRequest` asks that the
   request and the complaint be the caller's, so no Owner can decide it until the complaint comes back.
5. **A lost photo** (`lost_photo`). When a photo's timeline entry fails, the `catch` of `uploadAttachment`
   removes the bytes and leaves the row (`attachments.service.ts` 163-174). The retry finds the row and is answered
   "already uploaded".
6. **The centre page's "SLA breached" tile** (`breached_tile`). `ServiceCenterDetailPage.tsx` 129-130 says that each link lists
   exactly what its figure counted. `listComplaints` sweeps breaches before it filters on them (`complaint.service.ts` 535), as
   the dashboard does before it counts them; `serviceCenterOverview` does not (`modules/masters/centerOverview.service.ts` 87).
   What ran late since anybody last looked is on the list and not in the tile. The list is never the shorter one
   (`LateIsLateEverywhere`).
7. **A former person's command** (`former_command`). `auth.tsx` 57-58 says that a request in flight for the previous person cannot
   land in the new person's cache. `client/src/pages/tech/JobDetailPage.tsx` 120 writes the answer of "resume work" into the cache, and
   `queryClient.clear()` stops no command. Resume, sign out, another signs in on the phone, the answer comes: the
   first one's complaint is in the second one's cache, though marked stale at once.

Lesser divergences met while modelling. Properties name and except the first group, so they would break if
these cases were any wider; the second is only noted.

* *Drafts*: any failed send after which the complaint is not `IN_PROGRESS` is taken for success
  (`client/src/pages/tech/VisitFlowPage.tsx` 246-262), so a hold set elsewhere drops a draft of a visit that goes on.
* *Checker*: four reports on sound data - closed by Admin without a code; reopened after being
  cancelled without a centre; reopened with only a cancellation behind it; ended visits of a former centre.
* *Banners*: the Owner is told to resume work that a former technician has on site, and cannot; a locked code
  hides what Admin's banner asks for.
* *Figures*: the centre page counts a reopened complaint as waiting for a technician though its row names the former
  one; a deactivated centre's "still need a new service center" counts work in `ADMIN_CONFIRMATION`, which cannot be
  moved; the deactivation dialog promises to reassign submitted work.
* *Parts*: a part retired before its centre stocked it can no longer be confirmed; a usage line of a centre whose
  complaint has moved, or whose complaint shows no submitted work, can be confirmed on no page.
* *Form*: for a customer whose city is not among the first 200, the address part is hidden, and a different
  address entered for an earlier customer is still sent, against the comment in `CreateComplaintPage.tsx` 105-109. A centre once
  chosen stays chosen: it is sent while the list for a new address has not come, and after the centre was deactivated and has
  left the list (the server then refuses it).
* *Centre page*: its rows count down to the due date without the time on hold (`ServiceCenterDetailPage.tsx` 440-455), so after a
  hold a row may say "overdue" where the list has time left; never the other way round.
* *Offline*: when the server moves on while a page's inner files are gathered, they are taken for text and the page is
  stored without them.
* *Deactivation*: a complaint whose transaction read the centre before its deactivation commits after it, at an
  inactive centre, named in no answer.

Only noted:

* *Clock*: `snapshot` (`core/sla.ts` 151) adds all the time on hold to the response deadline, also what came after
  the response, so a late response is later shown as timely; never a timely one as late (`TimelyResponseStands`). No
  report counts it.
* *Sign-in*: once the scrypt parameters are raised, a sign-in that re-hashes beside a reset writes the old password back
  (`modules/auth/auth.service.ts` 316; otherwise never, `OnlyRehashingTakesBack`); a token stamped in the
  millisecond of a change is accepted (`<` where a comment says "at or before").
* *Renewal*: one granted before a sign-out and delivered after it stores the ended session again, until the server next
  refuses it (`client/src/lib/api.ts` 194; afterwards never, `SignOutsAreFinal`); a late refusal clears the next person's
  session (183); a command refused after the person changed is sent again with the new person's token.
* *Service-centre report*: credits all work to the centre that holds the complaint now, where its header says who
  submitted it. "Waiting for a service center" counts cancelled complaints that never had one.
* *Visit tiles*: "Upcoming visits" opens the week, today's included and nothing beyond; "Visits booked" opens the missed
  ones when there are any. Both day limits mix the browser's day with the company's.
* *Lists* are cut at 100 or 200 rows, after which a count taken from them is short.
* *Wording*: "You sent this work back" also when Admin did; "the technician is working on this" when nothing is booked.
* *Records*: the state of a customer's city can be edited away from the customer's record; two uploads of one photo at a
  time make two whole rows; a complaint sent twice is raised twice.
* *Two service workers* over one cache may prune each other's files while the worker itself is being updated.

## 5. Proofs

All theorems are for every value of the constants that satisfies the named assumptions of the
module; none depends on the bounds of the runs. Each rests on an inductive invariant, with one
lemma per handler.

**`ComplaintWorkflow_proofs`** - `TypeCorrect`: `Spec => []TypeOK`. Types alone are not inductive:
the attempt count stays within `0..MaxAttempts` only because a code that is neither verified nor
locked has an attempt left. `CodeInv` says so, and that a verified code has spent none
(`requireRework` takes a verification away and must not leave a spent, unlocked code behind).

The same module has six more properties of whatever the API accepts: `TechnicianPlaced`, `RequestsFollow`,
`ClosedRightly`, `RatedRightly`, `VisitsStandForGood`, `ClosuresStandForGood`. Their invariant is
`PromiseInv`. `WaitingRequestsFollowComplaint` needs the most: a correction of the centre while
`ASSIGNED` withdraws no request, so there must be none waiting. The invariant says so
(`QuietRequests`): a request waits only with the centre that holds the complaint, and never at `NEW` or
`ASSIGNED`, because the ways back to these statuses withdraw what waits. `ClosedOnConfirmation` rests
on facts about the table, proved from its definition: every rule
into `CLOSED` either asks for a verified code or is Admin's, and `REOPENED` is the only
way out. The two action properties follow from the invariant and the shape of each handler.

`LifecycleKept`: `Spec => KeepsLifecycle`, is the refinement. `PromiseInv` serves as the
invariant: it says that a closed complaint is signed, was confirmed or closed by Admin, and bears its holder's rating only.
From the table come lemmas on where each move starts and what it requires; above them stands one
lemma per step of the lifecycle (what a handler must have done to the mapped variables to be that
step), and one per handler that says which step, or stutter, it is. The abstract variables are
expanded in these lemmas only.

What remains of the module is for the two that build on it. `JobInv` (`JobsHold`: `Spec => []JobInv`) adds to `PromiseInv` that
whoever is on a job is on the document (`JobHasItsPeople`), that the signature, the filed closures and the count of
reopenings fit the status (`RecordAddsUp`), and that the clock has ended exactly while the complaint is closed and is
`BREACHED` until then exactly when a breach is on record (`ClockOfJob`).
Assumptions: `CentreOfAssumption`, `NoneAssumption`, `BoundsAssumption`.

**`Screens_proofs`** - the workflow as its screens drive it. `NothingStranded`, `OpenVisitsAreHeld`,
`ReviewedWorkIsCredited` and `ClockKeepsWithWork` are inductive only together, and with `JobInv` (`ScreenInv`).
That whoever is on a job is on the document is why a complaint that
gets its first centre can leave visits alone: it has never had a technician, so none is open.
`NoStrandedVisit`, which a run refutes of `Spec`, is a theorem of `ScreenSpec`: the one request that
differs is all that is wrong. `AlarmsExplained`, `NothingUnseen` and `ToldIsOffered` follow from `ScreenInv`
and from lemmas on what `availableTransitions` offers in each status (`OwnerMoves`, `AdminMoves`; `CentreMoves`: what a deactivated
centre's page says still needs a new one can be given one). `PhoneIsAScreen` is a refinement: the
phone with its drafts and lost replies takes no step of the workflow that `ScreenSpec` does not, because a reply that
is late finds its visit still the only one under way (`PhoneInv`). From it come `WordsFiledRightly`
and `DraftsKept`.
Assumptions: those of the workflow.

**`Reports_proofs`** - the figures, over every request the API accepts. `TilesAreTrue`: `Spec => []TilesOpenWhatTheyCount`, and
`FiguresHoldTogether`: `ReportsSpec => []FiguresAddUp`. What a tile counts and what its list holds are reduced to one
condition on the complaint each (`DashboardCounts`, `CentrePage`, `Queries`); `JobInv` makes the conditions equal. A
technician's jobs, counted at his centre, are listed from everywhere because he works for the centre that holds his
job; late by the clock's state is late by the breach on record because of `ClockOfJob`. Of
the centre page's tiles, "SLA breached" is not among them: a run refutes it. The rejections need an invariant
of their own (`ReportInv`): each resolved visit is written down once, the last is the one the complaint
points at, and is what is under review; so a rejection is of the one submitted last before it, no two are of
the same (`RejectionsInOrder`), and their work is an injection into the resolutions, which bounds every revisit rate.
`NextRecorded` says what each of the handlers is to the records: a submission, or a step that sends back only what was
under review. A sum of rows of which one at most counts is a cardinality of at most one (`AtMostOne`).
Assumptions: those of the workflow.

**`SignIn_proofs`** - `SignInTypes`, `GuessesCapped`, `SessionsEndForGood`, `ChangesEndSessions`, `CapHolds`, for any
number of overlapping calls. Guesses: the count on the document is never behind the wrong
passwords tried (`GuessInv`); the claim is one atomic update. Changes: `EraInv` adds what a call has read and not yet
used - whoever is still to sign or renew has read the account as it is, or its session is named as made across the
change (`crossed`). `OnlyRehashingTakesBack`: `Spec => [](~Rehashing => LatestPasswordStands)`, for no copy a sign-in decides
by has an old hash to replace (`PlainInv`); with `Rehashing` TLC finds the counterexample section 4 notes. The cap: two sign-ins may both have read which sessions are surplus and not yet deleted them, so
the count of live sessions is not inductive. `CapInv` caps what would be left after any set of the pending deletions.
Assumptions: `LimitsAssumption`, `NoneAssumption`, `RehashingAssumption`, and `FiniteAssumption`: finitely many calls and
session ids, without which there is no counting.

**`Client_proofs`** - `CacheFollowsPerson`, `SignedInSurvivesSignal`, `SignOutsStand`, `OfflinePageIsWhole`,
`FormSendsWhatItShows`, `RankingIsFair`. In
`BrowserInv` a tab's cache is of the person it *shows*, whether or not it has heard of the last change, and what a query
will bring is of that person or no longer wanted (`CacheInv`; the one command that writes the cache is excepted, as finding 7 has it); and while nobody signed out and the server ended nothing,
no renewal is rejected, for the server rejects only sessions it no longer has (`Untroubled`, `SessionInv`).
`SignOutsStand`: `Spec => SignOutsAreFinal`; session numbers are handed out once (`SidInv`), so a sign-in makes no old one
live, and a renewal asked for a session the server has ended is refused, or had been granted before. The shell
needs little more than the property. The form's third part needs what its lists hold (`Complete`): each is of the server's centres
and has every one that was active all along, so a chosen centre that is not listed has been inactive (`ListedAreActive`, from
`RankingIsFair`; it takes centres that can be ranked, `Places`).
`RankingIsFair` is `RanksFairly` for any finite set of centres (with names that can be ordered, and a pincode each, which
their schema requires) and any query. That the answer's lists exist at
all needs induction: among the finite sets that could not be put in order a smallest one would be, without its last element,
in order (`SortingExists`, from the well-foundedness of strict inclusion, which takes sets and no operators). A sequence of a set
has each element once (`SequenceOfSet`), and what covers an address more closely scores higher (`CloserScores`).
Assumptions: `NoneAssumption`, `MaxPairsAssumption`, `FilesAssumption`, `NothingAssumption`, `ShellBoundsAssumption`,
`FormAssumption`.

**`Records_proofs`** - `RecordsTypes`, `NumbersInARow`, `NothingIsHalfMade`, `StrandedAreNamed`, `FilesKeepTheirRows`, for
any number of calls and uploads in a process that stops anywhere. `IntakeInv` says of a transaction past its checks what
it may still rely on: its number is the next of the year and nobody else holds one of that year (`NumberInv`: the
counter is written, so a second taker conflicts), the customer it found is there or nobody else is making one
(`CustomerInv`), the city that lost a race will be found when read again (`CityInv`), a centre's owner exists or
the request still has to make it or was cut off (`CentreInv`). `UploadInv`: a key under way is nobody
else's and in no timeline entry.
Assumptions: `YearAssumption`, `RequestsAssumption`, `TripsAssumption`.

**`SlaClock_proofs`** - `ClockTypes`, `VerdictsAreTrue`, `SnapshotsAgree`, `LateEverywhere`, `DeadlinesFrozen`,
`BreachesStandForGood`, `TimelyResponsesStand`. `ClockInv` has two halves. `SoundClock` says that
the stamps are in order, and that a breach on record was past the deadline when it was
found; it holds of the stored clock *and* of what a reader is about to save, so a late save keeps it.
`TrueClock` is the book-keeping: `now + promised = resolutionDueAt + pausedTotalMs + worked` while the
clock runs, with `pausedAt` for `now` while it stands still. A late save breaks it, hence
`overwritten`. Each operation of `core/sla.ts` is shown once to keep both (`PauseGood`, `ResumeGood`, ...).
`LateEverywhere` needs `SoundClock` only, hence also holds after a late save: a breach on record was past the deadline, holds
included, when it was found, so the lists that go by dates and the figures that go by the record cannot part.
Assumptions: `RulesAssumption` (what the rule's schema refuses), `AbsenceAssumption`, `MaxTimeAssumption`.

**`PartsStock_proofs`** - `StockTypes`, `PartDecisionsStand`, `LateLinesNeverCount`, for any number of
overlapping transactions. `SnapshotCurrent` says that a document not written since is as the snapshot
has it: `SnapshotsKept` proves it of any step that names the documents it writes. Its third part is the
subtle one. `finalizeUsage` reads the complaint and does not write it, so it may commit on a
complaint that has been closed or reopened since. It is still right about late lines: a line it sees,
and nobody has written since, existed at its snapshot; if it is late now, the complaint was
already ended then, and the snapshot shows both. `StockAddsUp`: `StockSpec => []StockIsAccountedFor`. Given `StockInv`,
every step keeps the account of each centre (`StockAccount`): finalising adds the one line's parts to those used
(`PartsOfOneMore`) and takes as many off the shelf of the line's own centre.
`LedgerKept`: `StockSpec => KeepsLedger`, the refinement. The ledger judges by what is, a transaction by its snapshot; that the
two agree on the documents it writes is `SnapshotCurrent` again (`RequestRead`, `LineRead`, `ComplaintRead`), and what a
handler only reads is not the ledger's business, but for the late lines. One lemma per handler says which entry, or stutter, it is.
Assumptions: `BoundsAssumption`, and `LinesAssumption`: finitely many lines, without which there is no sum.

## 6. Only model-checked

* What the pages offer (`OfferedIsAccepted`, `SomebodyIsOffered`, `DeskOffersWhatIsAccepted`) is about
  `ENABLED`, and `RequestsSettle` is liveness: the proof system handles neither.
* The counterexamples.

Proved and in no passing run: `TypeOK` of `SlaClock` and `SignIn`, `StockTypeOK` and `RecordsTypeOK` (with `Intake` and `Uploads`),
`DeadlinesAreFrozen`, `BreachesStand`, `LatestPasswordStands`, `NoStrandedVisit` of `ScreenSpec`, and what the refinements checked there imply:
`ClosuresAreKept` (by `KeepsLifecycle`), `DecisionsStand` and `LateLinesStayOut` (by `KeepsLedger`). The type predicates of `Browser` and
`OfflineShell` are conjuncts of proved invariants; those of `ServiceLifecycle` and `PartsLedger` document the shape
of the state.

## 7. Not modelled, and why

* `rescheduleVisit` (`visits.service.ts` 365) writes a visit's date and its history, and never the status; no decision
  reads them. It checks the status and saves later, so a visit just begun can be dated anew.
* Reports: averages, trends, cities, labels, exports, the product report. They are sums and groupings over what
  `Reports` counts.
* Masters: edits of names, prices, products, models and territories are single updates; complaints keep copies. Creating
  a product or a territory has the shape of creating a customer. A technician's deactivation reports his open work as a centre's
  does.
* Attachments: downloads, image checks and the S3 driver. The timeline and the audit log but for
  the rows something reads back.
* The integrity checker's checks of references, scopes and configuration, and of stored dates.
* Settings, start-up, error formatting, database connection, seed and maintenance scripts.
* The client's layout, search, the Admin's forms for records, and stale pages: a page shows what the server
  would answer now, but for `VisitDrafts`, `Browser` and `IntakeForm`, which are about what is old.

Abstracted: names, notes, addresses, formatting; the Happy Code's digits and encryption (a typed
code is right or wrong); hashing and signing; wall-clock dates outside `SlaClock`.

## 8. What could follow

1. Pairs of workflow handlers under snapshot isolation, as `PartsStock` has them for parts.
2. Pages that show an older answer, for the buttons of `Screens`.
3. A strengthening of `SlaClock` that proves its properties of a `getComplaint` that saves only the breach.
