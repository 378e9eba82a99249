# SolutionsHub in TLA+

SolutionsHub is a FastAPI application over PostgreSQL. Staff of a company submit
solutions to a catalogue; a submission is reviewed, approved, published, and
reviewed again every six months. This directory holds TLA+ modules of its
workflow and of the requests and jobs that run it concurrently, the TLC
configurations that check them, and TLAPS proofs about them.

- `tlc -config workflow_admin.cfg MCWorkflow` checks one run; `PROJECT.json`
  lists the runs with their module and configuration.
- `tlapm WorkflowProofs.tla` checks one proof module.

Paths below are relative to `src/`.

## 1. Inventory

### Components

| component | code | state it keeps | operations | hard behaviour |
|---|---|---|---|---|
| Authorisation policy | `app/policy.py`, `app/enums.py` | none; reads role rows, the record, its contacts | one guard per action | guards read state that changes between the guard and the write |
| Workflow state machine | `app/workflow.py` | status, revision, reference number, assigned reviewer, versions, decisions, review cycles | `submit` and eleven actions through `perform` | long legal sequences, revisions, reopening |
| Submission requests | `app/routers/submissions.py` | the record, contacts, attachments, comments | create, edit (with submit and resubmit on save), action, upload, detach, comment, resolve, delete | no row lock, no version check; partial failure of save-and-submit |
| Domain model, database | `app/models.py`, `app/db.py` | the tables | the unit of work, READ COMMITTED, `expire_on_commit` off | only changed columns are written; loaded rows go stale |
| Notification outbox | `app/services/notifications.py` | `notification_log` | `queue`, `send_pending` | passes overlap; stale counts; crashes between mail and commit |
| Scheduler | `app/services/scheduler.py` | an advisory lock; nothing in memory | delivery, action reminders, review cycles, purge | two workers, one lock; broken runs; business days; rows loaded before requests close them |
| Sign-in and sessions | `app/auth.py`, `app/routers/auth.py` | links, sessions, users, the bootstrap admin | request link, verify, renew, sign out | expiry against renewal; links and sessions used twice |
| Rate limits, CSRF | `app/security.py` | counters per window | check and count | two first requests of a window; a counter row that makes requests wait for each other |
| Administration | `app/routers/admin.py` | role rows, disabled accounts, reference data | grant, revoke, disable, retry a mail | admins acting on each other |
| Catalogue, export | `app/routers/catalogue.py`, `app/services/export.py` | none | list, page, package | which version is shown |
| Attachment storage | `app/services/storage.py` | blobs | save, load, delete | blobs change before the commit, and are not rolled back |
| Email backends | `app/services/email.py` | none (external) | send | an error after the mail was taken |
| Pages, content, wiring | `app/templating.py`, `app/content.py`, `app/main.py` | none | rendering | none here |
| Configuration, seeding | `app/config.py`, `app/seed.py` | settings, reference rows | start-up | the seed runs again at each deployment |
| Infrastructure | `startup.sh`, `infra/` | none | start and kill the workers | one event loop per worker, blocked by a row lock |

### How they interact

A request loads the submission (`_load`), asks the policy, calls the workflow on
the loaded object, queues mail rows in the same session, and commits once. After
the commit a background task, or the request itself, runs `send_pending`. The
scheduler runs in every worker: each job tries one PostgreSQL advisory lock and
is skipped when it is taken; a job that runs may queue rows, and ends with a
delivery pass. So the components share the database only. What makes that hard:

1. **Stale loads.** Nothing locks or versions a row between load and commit; two
   requests that both passed their guards both commit. SQLAlchemy writes only
   columns that differ from what was loaded, so the second lands on a record it
   never saw.
2. **Overlapping deliveries.** Only jobs take the lock; passes behind requests do
   not. Two passes hold the same row with the same count.
3. **Crashes.** A worker can stop between the mail and its commit, in the middle
   of a run of a job, or while it holds the lock.
4. **Long legal sequences.** Withdraw and reopen, updates and resubmission, and
   edits by admins reach places the checks of `submit` never saw.
5. **Time.** Links, sessions, reminders and review notices compare stored moments
   with now, by dates, business days or durations.
6. **Locks nobody asked for.** A flushed row stays locked until the commit. That
   serialises requests where nothing else does (the counter of a network, the row
   of a user) and blocks the event loop of a worker where an `async` handler
   flushes between two files.
7. **Two stores.** Attachments are rows in the database and blobs beside it; only
   the rows take part in the transaction.

### What makes each component correct

- Workflow: the catalogue only shows what was approved in its current revision;
  one decision per revision; one open review cycle while published; no approver
  among the contacts; one number per record; the approved content does not change
  afterwards.
- Requests: with one in flight they are the workflow; with several, what
  survives: duties separated, a reviewer to go back to, no way round the number but
  withdrawing and reopening, deletion and numbering are not undone, nothing
  unapproved is shown.
- Outbox: sent means accepted; failed means every attempt was made; a mail goes out
  twice for four reasons only; a late pass does not queue a settled row again; every
  row settles as long as some job comes round.
- Reminders: not too often, nobody forgotten, escalated in time.
- Review cycles: a published offering always has an open cycle; the notice comes
  first, a week lies between two messages, a closed cycle falls silent, nobody is
  forgotten by a run that goes through, and neglect reaches the admins.
- Attachments: a live row has its blob, a blob its row or its upload; the limit;
  every request ends.
- Sign-in: a link opens one session, the newest link only, a disabled account is
  signed out, an admin always remains; and what of this survives when requests
  overlap.

`PROJECT.json` lists each hazard at its line with the properties that cover it.

## 2. Modules

| module | models | role |
|---|---|---|
| `Policy` | `policy.py`, `enums.py` | the guards as operators on a submission record |
| `Lifecycle` | `workflow.py`, `_apply_form`, `_store_uploads` | what each handler makes of a record, as functions from record to record |
| `Workflow` | whole requests, one after another | the **abstract specification** of a submission |
| `WorkflowTx` | the same requests as transactions that load and commit | the detailed specification; implements `Workflow` when serial |
| `Notifications` | outbox, jobs, lock, retry | independent of the workflow |
| `Reminders` | the hourly reminder job beside requests | independent; takes non-overlap from the lock of `Notifications` |
| `SignIn` | links, sessions, bootstrap, admins | independent; provides the role rows `Policy` takes as given |
| `ReviewCycles` | publications, confirmations, reopenings and the hourly review job | independent; takes non-overlap of runs from `Notifications`, shows what overlapping requests leave of `OneOpenCycle` in `Workflow` |
| `Uploads` | attachments, blobs, row lock, event loops, workers | independent; the files of `Workflow` with their blobs |
| `AccessTx` | rate limits, links, sessions, accounts, admins as overlapping requests | the operations of `SignIn`, overlapping |
| `WorkflowProofs`, `WorkflowTxProofs`, `SignInProofs`, `ReviewCyclesProofs`, `RemindersProofs`, `NotificationsProofs`, `UploadsProofs`, `AccessTxProofs` | theorems | one for each specification |
| `MCWorkflow`, `MCWorkflowTx`, `MCNotifications`, `MCReminders`, `MCSignIn`, `MCReviewCycles`, `MCUploads`, `MCAccessTx` | instances for TLC | |

### Policy and Lifecycle

`Submission` is the record of `models.py` cut to what the properties tell apart:
status, revision, number, creator, content (the required text as one field,
group, owners, the acknowledgement, the attached files), assigned reviewer, the
versions with the content they snapshot and their approver, the decisions, the
review cycles, blocking comments and the archive mark. `RoleRow` is a constant
set of active role rows with an optional group scope, as `User.has_role` reads
them. Each handler `_claim`, `_approve`, ... is one function (`Claimed`,
`Approved`, ...) and every guard keeps its name in camel case. `Saved` is the
edit handler: the form is written, then submission or resubmission is tried, and
when that fails the form stays. Notes, times, wording and events that change no
status are left out here.

### Workflow

One action per endpoint or workflow action, each from `_load` to the commit. A
request that is refused is a stuttering step. `Init` is `create`, as a draft or
submitted at once. The counter of reference numbers is one year's. Mail is left
out (it is queued in the same transaction and cannot refuse it).

### WorkflowTx

`inflight` maps a request to what it does on which snapshot. `Load...` evaluates
the guard on the committed row and keeps the snapshot; `Commit` applies the
handler to the *snapshot* and merges the columns and child rows that changed
into the row as it is *then* (`Merged`: `Dirty` for columns, `Rows` for
versions, decisions and cycles, `Members` for owners and files, with the owner
rows the form always deletes and inserts again). The reference counter is the
exception: it is read under its own row lock at the commit. `Abandon` is a
rollback. The load is one step, and the flushes and the commit are one step
because the first flush takes the row lock. Uploads are apart from edits here.

### Notifications

`row` is the table; `sender` says where each request's or job's pass stands and
which rows it holds with which (stale) values; `lock` is the advisory lock.
`Send` and `Record` are two steps, so a crash or another pass comes between the
mail and the commit. `Outcome` is what a provider may do: take the mail, refuse
it, or take it and report an error. `LoadRetry` and `CommitRetry` are the admin's
retry, which also resets only what differs from what it loaded. `tried`,
`accepted` and `doubt` are history; a row is in doubt when its mail may go out twice:
two passes held it at once, the provider took the mail and reported an error, the pass
died before it recorded the mail, or an admin retried it.

### Reminders

Days, of which day 0 is a Monday: the code compares dates (`.date()`) only. `log`
is each submission's events; those of requests set `last_action_at`, reminders
do not. A run loads the waiting submissions (`job.todo`), takes them in any
order, and for each looks up the reminders recorded by then; requests act in
between, so stage and last action are stale. `Break` ends a run anywhere.
Timestamps are taken to be in the order of the commits. `Staffed` says which
shared audiences have somebody to write to.

### SignIn

One request after another. `tokens` and `sessions` are tables in the order of
insertion; `Renewed` is the sliding renewal every page view makes; `Verify` uses
up the link, opens the session, creates the account and, for the configured
address, the first admin row; `GrantAdmin`, `RevokeAdmin` and `ToggleDisabled`
are the admin pages, with the checks on oneself. Everybody's address is on an
allowed domain, sessions are always "remembered" (`routers/auth.py:38` passes
it), and the nightly purge is left out since a purged row would be refused anyway.

### ReviewCycles

Days are counted. `cycles` is the table in the order of ids, `sent` what the owners
were written about each cycle. A request is two steps, `Load` (the guard, and the
open cycles of the submission it saw) and `Commit` (closes those it saw, opens
what its kind opens); the status it checked may have changed in between. `Start`
loads the open cycles once, by due date; `Turn` takes the next: the submission is
looked at when its first cycle comes up (`known`, as the session keeps it), the
message and the row are one commit; `Finish` and `Break` end the run. The rows the
job holds may have been closed since. `swept` says that a run of today went
through, so that `NobodyForgotten` and `NeglectIsEscalated` can be stated as
safety, day by day.

### Uploads

One submission. An upload is an `async` handler: it awaits the next file
(`reading`), stores it (`Store`: row inserted, blob saved), records an event, which
updates the submission and takes its row lock (`Touch`), and ends. Between two
awaits it holds the event loop of its worker, also while it waits for the lock
(`LoopFree`, `Waits`). Deletions are `def` handlers in threads: blobs first
(`Drop`), then the event, then the commit. `Fail` is an error in one request,
`Crash` the end of a worker, `Kill` gunicorn's `--timeout` (`startup.sh`), for a
worker whose loop stands still. Rows change at the commit, blobs at once.

### AccessTx

The operations of `SignIn` as requests of several steps, each a wait for a row and
the reads after it, without the clock. `counters` holds per bucket and window the
counts of its rows: two first requests of a window insert two, after which
`scalar_one_or_none` raises (`Split`). `Locked` is the wait for a counter another
request has updated; `Held` the wait for a row of `users`. Role and session are
checked when an admin's request begins; `stale` records that somebody's commit came
after he was no longer an admin, and `late` that a sign-in met a disabling.

## 3. Runs

### Passing

| run | states | question | instance |
|---|---|---|---|
| `workflow_admin` | 629 952 | Do the catalogue, the decisions, the cycles, the duties and the number stay consistent over requests in any order, admins included? | four people, one of them an admin; two revisions, two cycles, one blocking comment; two files at once against a limit of one |
| `tx_overlap` | 1 618 516 | What still holds of the committed record when two requests overlap: approval, duties, the reviewer, the number, the deletion? | two requests; an approver who submits and an admin who may be an owner; two numbers |
| `tx_serial` | 96 504 | With one request in flight, do transactions implement `Workflow`; and without admins, does anything change what was approved, or get past review incomplete? | one request; a submitter, a reviewer, an approver and a publisher; three revisions, forms with each kind of fault, files, a comment |
| `notify` | 285 034 | Is the log truthful, what sends a mail twice, and does every row settle? | jobs of two workers, a request, two rows, passes of one row, two crashes, one retry |
| `reminders` | 1 596 358 | Who is reminded when, and when is somebody else copied? | two submissions, eight days with a weekend, thresholds 1 to 3 |
| `review_cycles` | 6 447 994 | Is a published offering always under review, and who hears what of a cycle that falls due while requests close it? | one offering, two requests, three cycles of two days, six days, a week of two |
| `uploads` | 673 581 | Do rows and blobs agree through failures and crashes, does the limit hold, does every request end? | two requests on one worker or two, three attachments, a limit of two, one fault |
| `access_tx` | 1 739 633 | What of the promises of `sign_in` survives when two requests overlap? | two people, two networks, two requests at a time, four in all, two windows |
| `sign_in` | 1 667 696 | Are links and sessions used once, the disabled signed out, an admin always left? | the bootstrap admin and two colleagues (symmetric), three links, two sessions, four moments |

Every constant that bounds the model is named (`Max...`) and stands in a guard.
Why the bounds are enough:

- *Revisions, cycles.* The handlers look at a revision only by comparing it with
  that of the newest decision, and at cycles only as open or closed; two of each
  make every such comparison come out both ways, `tx_serial` takes a third revision.
- *Requests in flight.* Two show every lost or stale write between a load and a
  commit. A third adds no new kind of merge, since `Merged` relates one snapshot
  to the row as it is.
- *Numbers.* Two let both of two overlapping submissions take one.
- *Forms.* They cover complete, incomplete, missing consent, one the parser
  refuses, and one that makes the approver an owner.
- *Attempts and the pass limit.* Two attempts instead of five have a first, a
  repeated and a last one; a limit of one instead of 100 with two rows puts a
  failing row before another one.
- *Reminders.* With thresholds of one day the third reminder of an unanswered
  action, and the fourth for owners, fit into the first week; the weekend lies
  inside the window; `OneActive` lets one submission be acted on and another wait.
- *Sign-in.* Two sessions are enough for one person twice and for two admins
  acting on each other; four moments let links, sliding and absolute times pass,
  with `Sliding < Remember` as in the settings.

- *Review cycles.* A cycle of two days with a notice a day before, a week of two
  days and a patience of one let the notice, the first and second reminder, the
  copy to the admins and a run after days without one happen within six days; three
  cycles are what two overlapping confirmations leave of one. Cycles of other
  submissions only add turns, since no action relates two submissions.
- *Uploads.* Two requests on one loop block each other, two workers wait for each
  other's row; three attachments exceed a limit of two. One fault is one failure,
  crash or refused deletion beside any number of kills.
- *Access.* Two requests show every pair of steps; four in a row take a link from
  its request to two verifications, or two admins through disabling each other and
  a later sign-in; two windows let a limit start anew. Runs from an empty
  installation and from one with two admins.

`CHECK_DEADLOCK FALSE` stands in every configuration but `reminders`: the bounded
models stop when their counters run out, and the workflow may stop for good (an
archived record).

### Violations: where code and documents part

| run | what TLC shows |
|---|---|
| `doc_gap_free` | Two submissions of one draft that overlap take two numbers, and the record keeps the second (`workflow.py:146`); the table is to make the numbers gap-free (models.py:75, docs/03:272). |
| `doc_remember` | The first renewal cuts a remembered session from 30 days to 8 hours (`auth.py:228`; login.html:13, docs/04:122). |
| `doc_notify_retry` | Two retries around a failing last attempt leave a row queued with its attempts used up, which no pass ever selects (`routers/admin.py:289`, `services/notifications.py:75`). |

Seen while modelling, without a run of their own:

- `workflow.py:285`: a draft that is withdrawn and reopened is Submitted without a
  reference number, which docs/02:129 assigns at submission. `UnnumberedWasReopened`
  states that this is the only way.
- Reopening a published record takes it out of the catalogue; docs/02:139 promises
  that the last approved version stays the published view.
- `routers/submissions.py:491`: a transition commits although its guard no longer
  holds on the row; docs/02:143 has transitions validated.
- `auth.py:113`: a link is read and marked used in two statements, docs/04:91 says
  "consumed atomically". Two verifications open two sessions unless the counter row
  of their network serialises them (`OneSessionPerNetwork`); of two first sign-ins
  the second fails on the row of the user.
- `security.py:121`: two first requests of a window leave two counter rows, and
  every request of that bucket fails for the rest of the window. Of two requests
  that read the same count one is lost.
- `routers/admin.py:146`: two admins who revoke or disable each other at once lock
  everybody out; the rows of disabled admins stay active and keep the bootstrap
  from being honoured again.
- `routers/admin.py:178`: a sign-in that overlaps the disabling leaves a session
  that enabling the account revives.
- `routers/submissions.py:241`: overlapping uploads exceed the limit of docs/03:58;
  an upload that commits after the deletion of the submission leaves live rows on
  an archived record; a failed upload leaves its blobs; two deletions of one
  attachment record two events.
- `routers/submissions.py:250`: two uploads on one event loop stop the worker, the
  one holding the row and the other the loop, until gunicorn kills it after 120 s.
- `services/scheduler.py:178`: owners can be told that a review is due just after
  they have confirmed it. When the job has been down, the copy to the admins can
  come up to a week late, and a first notice long after the due date has none.
- docs/03:169 lets admins rename reference data, for which there is no handler;
  `startup.sh` runs the seed at every start, which may undo what an admin
  has switched off (`seed.py`).
- `workflow.py:322`: overlapping confirmations open two cycles; docs/02:182 closes
  one and opens one.
- `services/export.py:123`: the approvals of a reopened record are of an earlier
  revision than the content beside them (docs/02:226).
- `policy.py:141`: an admin reopens a withdrawn record, which docs/02:141 calls
  terminal. `policy.py:103`: an admin completes the review of a record he is a
  contact of, against docs/04:148. `policy.py:58`: an admin edits in every status
  that is not terminal, docs/02:45 names Submitted and Updates Required.
- `submissions.py:454`: an edit of a submitted record is saved with whatever is
  missing from it; docs/02:113 says Submitted is complete enough to review.
- `services/notifications.py:72`: a pass behind a request and a job send the same
  mail twice (`MailedOnce` lists the reasons there are); the docstring of `services/scheduler.py:3` says the lock makes the
  jobs safe. A late failing pass can also mark a sent row failed
  (`notifications.py:93`); docs/03:95 calls the row the mail's delivery result.
- docs/02:163 has reminders run each weekday morning; the job is hourly. A run with
  stale rows can remind of an action just taken, and that reminder counts towards
  the escalation of the next stage. A pool without staff is never reminded.
- docs/02:183 closes a review cycle when the new revision is published; the code
  closes it when the record is reopened, so that a record under revision has none
  to be reminded of. `OneOpenCycle` is what both agree on: while the record is
  published, one is open, and no old one beside it.

### Mutants

Each property of a passing run has a mutant: an operator just before the
definition it changes, marked "Mutant:" in its comment, that a plausible mistake
would produce. With it TLC finds the property violated.

## 4. Fairness

Two modules assume any. `Notifications` has `WF_vars(JobStep)`: APScheduler starts the
delivery job every 60 seconds in every worker (`services/scheduler.py:214`), the
providers answer or time out, and the advisory lock dies with its connection; so
*some* job comes round and takes its steps. The condition is on all jobs together,
since one worker may well be skipped for ever. Passes behind requests are owed
nothing. Crashes and retries are finitely many in the model, which is what
"eventually" needs: a provider or a worker that dies at every attempt settles
nothing. `EveryRowSettles` allows one retry per behaviour; `doc_notify_retry`
shows why two would not do.

`Uploads` has `SF_vars(Step(r))` for each request and `WF_vars(Kill(w))` for each
worker. PostgreSQL queues those who wait for a row and asyncio those who wait for a
turn, so nobody who could go on again and again is overtaken for ever; the thread or
the loop itself runs. Weak fairness would be too little, since another request may
take the row each time it is free. The kill is gunicorn's `--timeout 120`: without
it `EveryRequestEnds` is violated, which is what its mutant shows. No fairness is
assumed of faults or of clients who begin requests. No other module has a liveness property: people need
not act, and the reminders' promise is stated as safety, day by day
(`NobodyForgotten` after a run that went through).

## 5. Proofs

All theorems hold for every value of the constants that meets the named
assumptions (`PolicyAssumption`, `LifecycleAssumption`, `WorkflowAssumption`, `WorkflowTxAssumption`,
`SignInAssumption`, `ReviewCyclesAssumption`, `RemindersAssumption`, `NotificationsAssumption`,
`UploadsAssumption`, `AccessTxAssumption`): any people, roles, forms, files,
offerings, workers, networks, overlapping requests, durations and bounds.

Every specification has its type invariant as `TypeCorrect`. The type invariants and
two strengthenings (`BooksKept`, `OneUsableLink`) were checked by TLC before they were
proved and are no longer part of a run, which leaves the runs to the properties above
them. Every safety property of a passing run is stated by a theorem, those
of `tx_serial` about the content by theorems about `Workflow`.

**`WorkflowProofs`.** `TypeCorrect` is by cases over the actions, with a typing
lemma per group of handlers (`TransitionTypes`, `DecisionTypes`, `CycleTypes`, `SavedType`),
which `WorkflowTxProofs` has as well: the two specifications share names, so neither
proof module can extend the other. For the rest, `StepIsMove` shows that every step is
one of nine *moves* of the record (`Quiet`, `Advance`, `Revise`, `Grant`,
`Refuse`, `GoLive`, `Renew`, `Restart`, `Retire`): the policy and the forms
are dealt with once there, and each invariant is then preserved move by move. The
inductive invariant `IInv` is `TypeOK` with `BooksKept`, `CatalogueIsApproved`,
`OneDecisionPerRevision`, `CyclesKept`, `DutiesSeparated`. `CyclesKept` strengthens
`OneOpenCycle` by "no cycle is open while the record is not published", without which
publishing could open a second one. `BooksKept` is the other strengthening: that no revision is decided twice needs that a
record waiting for a decision has none in its revision, and that the catalogue
shows the approved revision needs that `approved_version_id` names the newest
version; the runs check the two it is for.

Of the number and the content: `NumberedOnce` strengthens `NoNumberLost` to "the counter is
0 or 1 and equals the number". `ApprovalBinds`, of which `ApprovedStays` and `CompleteStays` are the
halves, has the hypothesis `NoAdmin`: an
admin may edit after the approval (`policy.py:58`), so the two invariants hold of
staff only.

**`WorkflowTxProofs`.** For any number of overlapping requests. `IInv` says of each
request in flight that it was allowed on the record it loaded (`Fine`) and that the
row has only gained versions since (`Before`). `ResultAdds` sums up what a handler
may make of a record, `RowsType` and `VersionsKept` what the unit of work makes of
that in the row as it is at the commit: stored versions stay, at most one is added,
by an approver who was no contact of what he saw. So `ApprovedFirst` needs that a
stale load of an approved record was of an approved record (`Shown`), and
`DeletionStands` that nobody acts on a deleted one. `ReviewerStaysNamed` and
`NumberedUnlessReopened` are about two columns each, of which a commit may write one
and keep the other as somebody else left it. So `IInv` has them of what every request
loaded (`Sound`), of what its handler makes of that (`ResultKeeps`), and has the row
only gain reviewer, number and revision since (`Grown`): whichever column is whose,
the new status then meets a reviewer and a number at least as good as those it was
decided on. `SerialIsWorkflow` is the
refinement that `tx_serial` checks: with one request at a time (`OneAtATime`, which
also lets a form come without attachments) the row stands still under it (`Held`), so
that the merge is what the handler made of it (`MergedAlone`) and every commit one of
the requests of `Workflow`. `tx_serial` reads `ApprovedContentFrozen` and
`ReviewedIsComplete` through the same instance; their theorems are about `Workflow`
and so hold of serial transactions.

**`SignInProofs`.** `IInv` adds to the four invariants that if somebody is an
admin, one of them has an active account (`AdminCanSignIn`), and that a session's
link is used up (`SessionLinksUsed`), without which a link could open a second
session. `Kept` says a step only renews or revokes sessions; most steps are
`KeptStep`. The point of `AdminStays` is `ActorRemains`: whoever revokes or
disables is an admin with an active account and may not choose himself.

**`ReviewCyclesProofs`.** `IInv` is in three parts. `Tracked` adds to
`PublishedIsTracked` that a request holds rows of its own submission only
(`HoldsOwn`), so that what it closes cannot be another's. `Told` adds to
`NoticeFirst`, `WeekApart` and `ClosedIsQuiet` what the row of a cycle says of its
messages (`Recorded`: notified exactly if there is one, `last` the day of the last)
and that nothing late was said yet of a cycle that is open or still before the run
(`LateOnce`). Requests only extend the table (`Extends`), a turn notes one message
(`Notes`); each part is preserved by those two shapes. That the reminder comes
after the notice needs the order of the two conditions in the code: a cycle that is
overdue has its notice due, so if that does not apply it was sent. The third part is
`CaughtUp`, on which `NobodyForgotten` and `NeglectIsEscalated` rest: for each offering
that was published before today, a run of today has said what is to be said of its open
cycle or still has it before it. `StartTakesAll` says that a run begins with every open
cycle; a commit of today leaves its offering unpublished or with a cycle of today, which
is not looked at (`CommitUnsettles`). `CopiedFrom` says of every overdue message
that it has the copy exactly from the day on which patience ends. Here `Week` must be positive, or a
message of today would be as old as a week; the code has seven days.

**`RemindersProofs`.** `IInv` is `Typed`, the three invariants and `CaughtUp`. `Typed`
has the order of events (`InOrder`): days do not fall, and a submission begins with an
action, so that the newest action and the newest reminder exist (`NewestIs`, by
well-foundedness of the numbers). `RemindersSpaced`: a reminder is written only if it is
far enough from the newest one, hence from all (`DueIsFar`), and the run's `now` is not
after the day it writes. `EscalatedInTime`: the run counts the reminders since
the action it loaded; later actions only make that count too high, never too low
(`DueIsCopied`). `NobodyForgotten`: in a run of today every submission is still to come
or has been served, and a row that is stale by then was acted on today, which is no
longer outstanding (`ActServes`, `NotDueServed`). `CountedDayByDay` ties the calendar to
the code: the loop of `business_days_between`, which adds up weekday by weekday, ends
with the number of weekdays that `BusinessDays` is defined as.

**`NotificationsProofs`.** What the log says is about calls that were made, so
`IInv` relates the counts in the table (`Counted`), and those that every pass holds
(`Owed`), to the calls: a count never runs ahead of them, a held row is not used up
when it is taken, and the call that a pass is about to record was made. A pass that
writes an old count back lowers it, which keeps this; that the row then says failed
too late, never too early, is what `FailedIsTrue` rests on. The sessions of passes
are sequences cut from the table by `Select`, which carries most of the typing.
`MailedOnce` needs a second invariant, `Single`: of a row that is not in doubt (`Once`),
one pass at most is to mail or to record it, and once the provider has taken its mail,
that pass is about to record it or the row says sent, in which case nobody will select it
again. `OnlyRetriesRequeue` follows step by step (`RetryStep`) from the columns a pass writes.

**`UploadsProofs`.** `IInv` says of each request what it owns (`Sane`): an upload
rows that nobody has committed and whose blobs are stored, a deletion rows that were
committed; that no two uploads own the same row (`Apart`), that ids are not used
again (`Unused`), and of each row that its blob is where it belongs (`RowsTrue`).
`FilesAlwaysKept` and `NeverLeftOver` follow. `LimitKept` needs in addition what an
upload alone may count on: while no two have overlapped, the count it goes by is at
least the live rows with what it added itself (deletions can make it too high).

**`AccessTxProofs`.** `IInv` is the typing of tables and requests, with where a
request of each kind can be and what it has counted by then (`Fine`), and
`Exclusive`: no two requests count on the same row of a counter, since whoever
found it has locked it. `Steps` sorts the seventeen actions by what they do to
accounts, admins and sessions. `SignedOutWhenDisabled` needs besides
that a toggle under way that is to disable somebody knows every open session of his
that did not come late (`KnowsSessions`). `AdminKept` needs the order of things
before there is an admin (`Orderly`: nobody acts, so nobody was disabled) and that
who revokes or disables chooses somebody else. `BootstrapGrantedOnce` rests on the
lock of the user's row, which the sign-in that grants holds (`GrantsOnce`).
`SessionPerNetwork` and `UsableLinkPerWindow` are about what was counted when a link
was used or asked for (`Doors`, `Letters`): who counts after another on the same
counter is further on, unless the counter was split (`Behind`, `SplitByBehind`).

**Only model-checked.** Liveness (`EveryRowSettles`, `EveryRequestEnds`), which with
fairness and ENABLED is out of the prover's reach.

## 6. Abstractions

- Texts, titles and notes are one field, blank or full; parsing faults are one
  flag of the form (`clean`).
- Mail is not part of the workflow modules, and templates, recipients and
  wording are not part of `Notifications`.
- One submission in `Workflow` and `WorkflowTx`: requests of different
  submissions share the reference counter only.
- Role rows are a constant of the workflow. A request reads them with the record,
  so a change of roles in flight is like the stale loads that are modelled.
- `Reminders` compares days. The hour of the run does not matter to the code.
- `SignIn` has no overlapping requests, no cookies and no rate limits; a refused
  request stutters. `AccessTx` has overlap and rate limits but no expiry, renewal or
  sign-out, which are in `SignIn`; requests refused before they write are left out.
- `ReviewCycles` knows of a status only whether it is published; owners exist;
  requests do not run past midnight, the job may. Every kind of request that is not
  one of the four leaves cycles alone.
- `Uploads` gives every file the same name, the worst case; the status lets
  attachments be changed throughout. An edit takes the row lock a statement earlier
  than the upload form, which makes it wait earlier for the same row.

## 7. Not modelled

- *The connection pool*: requests that wait for a connection hold nothing another
  needs, except in `Uploads`, where the row lock already shows the wait.
- *Reference data and seeding*: single-row toggles by admins and insertions at
  start-up; see the plan.
- *The nightly purge*: deletes rows that are refused anyway.
- *Other roles than admin* as they change: `Policy` takes them as a fixed set of
  rows; a change in flight is one more stale load.
- Rendering, headers, CSRF signing, word limits, settings, migrations, resources:
  no state worth a model, or cryptography.
- The email providers: external, as three outcomes.

## 8. Plan

Done: `Policy`, `Lifecycle`, `Workflow`, `WorkflowTx` with the refinement,
`Notifications`, `Reminders`, `SignIn`, `ReviewCycles`, `Uploads` (with workers and
event loops), `AccessTx` (with the rate limits); the loser of a year's first number
is `Abandon` in `WorkflowTx`. Left, the most important first:

1. `Reference`: groups and lookups switched off by admins, taken by forms, and
   inserted by the seed of a deployment.
2. `Roles`: grants and revocations of every role with their scope, composed with
   the guards of `Policy`.
3. An abstract specification of the outbox, for `Notifications` to implement.

Runs for new modules will replace runs that a proof has made redundant, so that each
run keeps asking a question of its own; their bounds will be of the size used here.
