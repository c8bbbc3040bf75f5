# Verification of the Advance Deposit Tracker

TLA+ models of the backend under `src/backend/app`, checked with TLC and proved
about with TLAPS. The tracker follows an advance payment to a supplier: an
author raises a *deposit request* with one or more payment *tranches*, Accounts
record a TT copy and payment details on each tranche and mark it paid, and the
request completes and locks with its last payment. Around it stand adjustments
between invoices, remarks on files, stored analytics, default flags, notices,
projections, bank statements and the screens that count all of this.

1. [The system](#1-the-system) 2. [Modules](#2-modules) 3. [Runs](#3-runs)
4. [Proofs](#4-proofs) 5. [Not modelled, disagreements, plan](#5-not-modelled-disagreements-plan)

## 1. The system

| Part | State | Operations | Interacts with |
|---|---|---|---|
| Deposit requests (`deposit_request_service.py`, `api/v1/requests.py`) | status, lock, deleted, deposit, invoice total, numbers | create, PATCH, hold, resume, cancel, reject, reopen, HoM approve and reject, soft delete, lists and KPIs | tranches, supplier flags, projections' lock, trigger |
| Status table, record lock (`domain/rules/`) | none | which role may move a status where | consulted by the services |
| Database trigger (`0031_reopen_processed_on_add.py`) | none | refuses status pairs, whatever the role | every UPDATE of a status |
| Tranches (`tranche_service.py`) | status, amount, release, TT copy, details | update, add, release, delete, cancel (authors); attach or remove TT copy, details, pay, reject (Accounts) | request, payment row, adjustments |
| Payment details (`payment_service.py`) | one row per request | save, process, TT copy, ship date | completion, the freeze of the file |
| Bulk payment (`requests.py:349-490`) | none of its own | next payable tranche of several requests | tranche service |
| Invoice adjustments (`adjustment_service.py`) | source, destination, amount, status | create, approve, reject | tranches of two requests |
| File remarks (`file_remark_service.py`) | kind, status, revised amount | create, decide, apply amount, replay | invoice total |
| Analytics engine, snapshot job, supplier flags (`analytics/`) | a snapshot per request, flags per supplier | refresh, recalculate, seed, flag, resolve | requests and payments; read by dashboards and by submissions |
| Screens and reports (`analytics_service.py`, `report_service.py`, parts of others) | none | every screen draws its own rows | snapshots, tranches, requests |
| Notices (`notification_service.py`) | bell rows, which are the dedupe ledger | background tasks, half-hourly fallback, daily reminders | run after the commit of a call |
| Projections (`projection_service.py`) | a filing per vertical and month, the lock's switch | file, status page, banner, gate, dashboards | submissions |
| Bank statements (`bank_statement_service.py`) | statements and their rows | upload, extract, delete | none |
| Presence (`presence_service.py`, `usePresence.ts`) | last seen, views, section views | heartbeat, absence dialog, dots, badges | stamps of requests, tranches, remarks |
| Database session (`core/database.py`) | a transaction per call | commit after the handler, roll back on an exception | all of the above |

What is hard. Two uvicorn workers serve calls concurrently, and every call is
one READ COMMITTED transaction. Only `pay_tranche` locks the request row; most
handlers read the request without a lock, wait for the row lock of one tranche
and write the request later. SQLAlchemy does not refresh an object the session
already holds, even when it is selected again FOR UPDATE. Background tasks run
after the commit of their call (every endpoint takes its session with
`scope="function"`), in sessions of their own, in any order with other calls,
and die with the worker. Snapshots are overwritten without a version, notices
deduplicated without a lock, time stamps taken when a transaction begins. And
handlers and screens written over a year of change notes have to agree on a few
rules: money once paid stays, completion locks, a closed file is frozen, the
derived deposit follows the tranches, one quantity is the same everywhere.

PROJECT.json lists the hazards at their lines with the properties that cover
them, and says which are real and uncovered.

## 2. Modules

| Module | What it is |
|---|---|
| `StatusTransitions` | the role-aware table, the trigger's pairs, the lock rule; pure definitions |
| `PaymentPromise` | abstract: status, lock and the set of paid tranches of one request |
| `TrancheLifecycle` | one request with its tranches and payment row; one action per API call, run alone. Implements `PaymentPromise` |
| `Outstanding` | extends it: what trackers, queues, lists, cards, projections and reports say is paid and to be paid |
| `TrancheConcurrency` | the handlers of one request as concurrent transactions, one action per SQL statement. Implements `PaymentPromise` |
| `PaidBalance` | abstract: every paid tranche is an account that is never overdrawn |
| `Adjustments` | adjustments between requests as concurrent transactions. Implements `PaidBalance` |
| `FileRemarks` | the remarks of one request and the files that their replay leaves |
| `AnalyticsEngine` | the day arithmetic of `compute`, pure |
| `Snapshots` | refresh, recalculation and seeds as concurrent sessions, flags, calendar |
| `Dashboards` | extends it: the populations of every analytics screen and report |
| `Notices` | who is told what, by tasks and jobs that run late, fail and get lost |
| `ProjectionCalendar` | the periods of a date, pure |
| `Intake` | submissions, numbering, corrections, filings, the lock of a vertical |
| `RunningBalance` | the correction of bank rows by the printed balance, pure |
| `BankStatements` | uploads, extractions, deletions as concurrent tasks |
| `Presence` | dots, badges and the absence dialog against transactions that commit late |
| `Sums` | lemmas the proofs share: finite induction, and what a fold that adds computes |
| `TrancheLifecycleProofs` | theorems about `TrancheLifecycle` and `Outstanding` |
| `TrancheConcurrencyProofs` | about `TrancheConcurrency` |
| `LedgerProofs` | about `FileRemarks` and `Adjustments` |
| `IntakeProofs` | about what comes in: `Intake` with `ProjectionCalendar`, `BankStatements` with `RunningBalance` |
| `SnapshotsProofs`, `NoticesProofs`, `PresenceProofs` | about `Snapshots` with `Dashboards`, `Notices`, `Presence` |
| `MC*` | values of constants for TLC |

In all of them a call that is refused changes no state and is not a step, and
texts, names, audit rows and files are left out. Definitions called mutants in
a comment are wrong on purpose: nothing uses them but the mutation tests listed
in PROJECT.json, which show that each property can fail.

**TrancheLifecycle.** `status`, `locked`, `deleted`, `deposit`, `total` are
columns of `deposit_requests`; `tranches[n]` is the row with `tranche_number` n;
`payment` is `payment_details`; `adjs[n]` the adjustments that name tranche n.
Each action has its handler's name. The guard is every refusal of the handler
in conjunction, and the action includes what the handler triggers: `SyncTotals`
after a change of the live rows, completion after the last payment or a delete
that leaves only paid tranches, the reopening done by an add. Details of a
tranche are `none`, `partial` or `complete` (date and bank); dates, bank names
and the secondary currency are abstracted. `dropped` stands for the rejection
columns, which reject and cancel both fill in.

**Outstanding.** Each screen is a set of tranches drawn by its own list of
statuses. Weeks, people, bands, priorities, the financial year and pages are
left out: all rows are in one group. The average of the trend is over one month.

**TrancheConcurrency.** `req` and `tr` are committed rows; `sess[s]` is a
session's place in its handler, the request as it read it (`seen`) and will
write it (`out`). `View(s)` is what its statements see. `reqOwner` and
`rowOwner` are row locks, held until `Commit` or `Rollback`. `Fails` is a
timeout, lost connection or dying worker at any point. An inserted tranche
shares the key of its request, which FOR UPDATE waits for. A bulk payment uses
the objects loaded at its start. The super admin, whom the record lock does not
stop, is left to the serial model; adjustments to `Adjustments`.

**Adjustments.** Create, approve and reject lock the source and only read the
destination; the insert shares both tranches' keys. The other handlers appear
as the moves an adjustment can notice: pay, drop, delete, ship. The names of the
specification begin with `Adj`, those of `BankStatements` with `Bank`, because
one proof module speaks of two models.

**FileRemarks.** Files are replayed from the approved remarks in decision
order, as `_replay` does, by a fold: the remark decided last is replayed on what
the others leave. `Happens` switches on what may happen to the request
meanwhile, and numbers that are typed in.

**Snapshots, Dashboards.** A pass keeps what it read, locks each snapshot it
writes until its batch commits, and stages flags that reach the database with
the commit. A failure rolls the batch back and ends the pass. The status
`rejected_by_accounts` is with the frozen ones. A dashboard is a set of
requests; amounts are sums over it, so two screens agree for every amount when
the sets do. The ten days after which "graced" ends on one screen are a
constant, equal to the grace days in the run, as in the default configuration.

**Notices.** One worker session runs the tasks of a call one after the other
and those of later calls behind them, at most `MaxQueue` when a call commits;
each job has a session. The start of a job is merged with its read. `bell`
holds the rows as a set and is the only ledger; `mailed` the e-mails that were
sent. `item[i]` is an adjustment or a remark with its state, raiser and decider.

**Intake.** `call[s]` is a transaction between its statements; the two reads of
the gates are one step. `standing[s]` is a history variable: what was true at
every moment since the call began. There is one supplier, one vertical and one
of the two invoice numbers. UTC and local date are the same.

**BankStatements, RunningBalance.** Amounts are cents. The vision model copies
digits right and may swap or drop columns; the header is read in full, without
opening or closing balance, or not at all. Pages are merged. Daily balances and
the grand total are left out.

**Presence.** A row carries the time its transaction began and is visible from
the commit on; `viewed` and `opened` are taken at the call. Stamps are unique,
the clocks of application and database are equal, loading a page and marking it
viewed are one step. `fresh`, `late` and `hid` are history variables: what
changed since a user looked, what of it was hidden by a stamp from before, and
when the page was hidden.

## 3. Runs

| Run | Instance | What it shows |
|---|---|---|
| `lifecycle` | 2 tranches, amount 1, total 2, adjustments on one | money sits only where it may, completed files have nothing open, nothing is closed silently, closed files are frozen, the promise is kept |
| `ledger` | amounts 1 and 2, total 3, payment edits | `deposit_amount` stays the sum of the live tranches within the total, and all screens of `Outstanding` add up, through every handler (`BooksStay`) |
| `concurrent` | 2 sessions, all calls but bulk | no double payment, none undone, completion locks, promise kept, with failures anywhere |
| `calls_end` | 2 sessions, 3 tranches; pay, bulk, delete, details | every call ends in spite of opposite lock orders; the last payment completes the file |
| `adjustments` | 2 sessions, 2 adjustments, 2 requests | no source overdrawn, value comes from paid tranches only, no named tranche goes, accounts kept, every call ends |
| `remarks` | 4 remarks, 4 file numbers, 1 session | live files are worth the deposit; an open remark still describes its file |
| `snapshots` | 2 requests, 2 suppliers, 4 days, refresh and recalculation and seeds | stored rows are consistent; the refresh catches up; overdue files' suppliers end up flagged; screens reconcile and agree |
| `notices` | 1 request or 1 item, 4 users, 3 events, 1 loss | follow-ups come after the primary notice, Accounts are not asked early, all concerned hear of an item, lost tasks and reminders are made up for |
| `intake` | 2 sessions, 3 requests, 2 months of 3 days | numbers without gap or clash; what held all through a submission was respected; no lock unannounced |
| `statements` | 2 uploads of one period, 2 documents | no period twice; swapped and blank columns recovered; one misread row shows; extractions end |
| `presence` | 1 super admin, 2 requests, 1 remark, 2 sessions, 6 instants | what changed is flagged, what was seen stays quiet, the dialog counts what came in an absence |
| `bulk_race` | 2 sessions, pay and bulk | violated: a double payment (docstring of `tranche_service.py:7-8`) |

**Bounds.** Two tranches are enough for a rule that tells apart "this one",
"another one" and "none left"; `calls_end` has three so that two payments and a
remaining tranche coexist. Amounts and totals are chosen so that the ceiling is
reached and exceeded. In `adjustments` the source is worth 3 and each
adjustment 2, so one fits and two do not. `remarks` has as many file numbers as
a chain of two splits and a change needs. In `snapshots` a request passes
through its date, its graced date and the day after, and two events can come
between a pass's read and its commit. `MaxQueue` of 2 lets a decision overtake
the notice of what it decides. Two months of three days have every kind of
boundary: month end, year end, the opening of the window. Six instants let two
transactions straddle two looks.

`MCNotices` restricts a behaviour to requests or to items: the two share only
the queue, in which either can come first. `MCSnapshots` starts from one
request to be paid and one already processed. The three runs `Lifecycle`,
`LifecycleLedger` and `Remarks` do not look for deadlock because a deleted
request or an exhausted list is an end; `Notices`, `Intake`, `Presence` and
`Adjust` because their bounds run out.

**Fairness.** `TrancheConcurrency`, `Adjustments`: strong fairness of a
session's statements (an event loop resumes a handler whose query returned,
PostgreSQL serves the waiters of a row in order), weak fairness of the deadlock
detector. `Snapshots`: weak fairness of the calendar, the start of a refresh
(APScheduler's interval) and of passes under way; seeds and administrators owe
nothing. `Notices`: weak fairness of session steps, of the two jobs and of
time; losses are bounded by `MaxLosses`. `BankStatements`: weak fairness of an
extraction that lives. Calls never need to arrive, failures never need to
happen.

Properties are stated so that they hold of the code as it is; where a rule has
an exception in the code, the property names it (section 5 lists these).

## 4. Proofs

Eight modules hold proofs that tlapm checks to the last leaf. All but `Sums`
give an inductive invariant, one lemma per action or group of actions, and
derive the theorems that PROJECT.json lists. Each is for every value of the
constants within the module's named ASSUME: positive amounts, non-empty or
finite sets, sentinel values outside the sets they complete. No fact about sums
is assumed.
A theorem that needs more says so in its statement; there are such hypotheses
about the calls that run concurrently (`KeepsToPay`, `PaysAndDeletes`,
`Promising` and the absence of the bulk payment), about steps of remarks
(`NothingStale`), about the amounts of a bank statement (`NoSingleCents`) and
the grace period.

**Sums.** `SumOn(f, S)` is the fold of `+` over a finite set. The library
defines a fold by recursion with a `CHOOSE`, so `Solvable` first shows, by
induction on the subsets of a finite set, that such equations have a solution,
and `AnyOrder` that the sum does not depend on the order chosen. From there on:
sums add up, a change of one value moves the sum by as much (`OneChange`), no
value exceeds the sum, smaller values have a smaller sum (`SumsOrdered`), and a
sum over a part is the sum of the values cut down to it (`SumOnPart`).

**TrancheLifecycleProofs.** `IInv`, the conjunction of the safety invariants,
the types and `CancelledHasReason`. The last is the strengthening:
`CompletedHasNothingOpen` excuses a file on which a once-cancelled tranche was
paid, recognised by the columns that cancelling fills in and nothing clears.
Most handlers change one row that they neither pay nor revive and are instances
of `RowChange`; add, delete, pay and transitions have a lemma each. `Refinement`
is `Spec => PromiseKept`. Some theorems state definitions that no run checks any
more, because they are the supports of the others: `ProcessedIsLocked`,
`PaidWasReady`, `AlwaysATranche`, `AdjustmentsKeepTheirTranche`,
`PaidRowsAreFinal` and `IInv` itself. `BooksStayCorrect` is about `Outstanding`:
a handler that changes a row and re-syncs the deposit moves the sum of the live
tranches by what the row weighs more or less (`RowMovesSum`), and the ceiling of
add and update bounds just that, so the deposit stays the sum and within the
total (`NextLedger`). That all screens add up is then no matter of steps: it
follows from the ledger (`LedgerAddsUp`), given the types, an invoice total and
that the first tranche was released when it was raised (`Known`), which the tile
of the tranches to be released relies on.

**TrancheConcurrencyProofs.** `IndInv` (`LocksAreHeld`) says which places of a
handler own the tranche row and the request row, and what a session still knows
there: the row it locked is as it was when it checked it, since only the owner
of a row commits to it, and `out` is the committed request but for what the
session writes. `ProcessedIsLocked` and `PaidIsFinal` follow for every set of
calls, `NoDoublePayment` for every set without the bulk payment, which the run
`bulk_race` shows to be needed. `CompletionNotMissed` needs a file that is open
to have something to pay (`OpenHasToPay`); this is inductive because a payment
counts the other rows under the request lock. Its hypothesis `KeepsToPay`
leaves out delete and cancel, which take tranches away, reject beside bulk, and
transitions back into the queue. Payments, bulk payments, edits of the details
and deletes, the calls of the run `calls_end`, are the hypothesis
`PaysAndDeletes` of `CompletionFoundByDeletes`. A delete reads the request
before it locks anything, and updates it only if the sum of the tranches left
differs from the deposit it read. `QueueHasWork` says why it always does: in
the queue the deposit covers the live tranches, both only shrink, and the
delete's own tranche has been in what it read. So the delete, too, looks at its
siblings as the owner of the request row and knows whether work remains. That
the sum falls with a live row (`LiveSumFalls`) follows from `Sums`.
`Refinement` is the promise for every set of calls that satisfies `Promising`:
no bulk payment, and no hold or reject of the whole file by Accounts, which read
the paid tranches before they write the status. The proof found a step that no
run shows, because it takes four sessions: an add that read the file as
completed can reopen it after a reopening, a hold and a lock have come in
between. `PaymentPromise` allows a move into the queue to lift the lock.

**LedgerProofs**, file remarks. Everything is for any number of sessions and
everything clients do (`Happens`). First the replay: a fold over the approved
remarks is one step of the latest on the ledger of the others (`LedgerStep`), it
does not see rows it does not replay (`SameLedger`), a remark decided after all
others is replayed last (`DecidedLast`), a file is worth no less if it started
with more (`LargerStart`), and one more remark takes only from the files it
names (`OneMoreRemark`). `AtHand` is the invariant of the calls at work: each
writes a row of its own and has a decision time of its own
(`DecisionsHaveTheirTime`), so "in the order of the decisions" means one order,
even if transactions commit in another. `LedgerSteps` sums up what a step can do
to the ledger: nothing, one remark more, a decided one decided again, a root
number moved, a deposit grown.
`OpenRemarksGoStaleByAnother` needs no hypothesis: an open remark becomes one
about a file that is worth less only by the approval of another remark that
touches its file, by a second decision on an approved remark, or by a corrected
root number. The list of selectable files prevents the first for one session
(`OpenRemarkIsCurrent`, run `remarks`) and not for two.
`LedgerIsWorthDeposit` has a hypothesis about steps, `NothingStale`: a remark is
approved once and after those decided before it; its file is then worth what the
remark says and the new number nothing; the root number changes by an approved
file change only; the deposit does not grow after one. The service checks none
of this when it commits, and a violation of the parts about approvals, the root
number or growth is how the code loses value (section 5). With one session, the
picked numbers and the bounds of the run `remarks`, every step satisfies it. The
proof carries `Worth`, the live files are worth the deposit, and `Grows`: until
a file change is approved, whatever the deposit grows by goes to the root file,
through all splits replayed on it.

**LedgerProofs**, adjustments. The invariant says who holds a lock, that a
session's uncommitted decision carries the balance it computed, and that nobody
else can move that balance while the source is locked. From it `NeverOverdrawn`,
`AlwaysBacked`, `NamesSurvive`, and the refinement `KeepsAccounts`. The amounts
given away are added with `SumOver`, a fold; that another adjustment adds its
amount to the sum is proved (`SumIsAdditive`).

**SnapshotsProofs.** Every staged and stored snapshot is a value of `compute`
on some inputs and some day, so it is consistent (`AlwaysCharged`), and an
overdue one's supplier is flagged, staged or resolved (`DefaultersKnown`).
`ShippedIsStatic` and `ChargeFlipsAfterGrace` are the two halves of what the
refresh may skip: static once the graced date has passed, not before.
`ScreensAgreeOnceSettled` is the safety half of `ScreensAgree`: where the
snapshot of a paid file on its way is the one of the day, and its supplier is
flagged if it is late, `Agree` holds of it, for every calendar. Its hypothesis
is `GraceDays <= GracedTop`: with a longer grace period than the first bucket's
ten days, buckets and tables differ on the files between. That snapshots become
current and suppliers flagged is left to `SnapshotsFollow` and
`DefaultersFlagged`. `AlwaysReconciled` is `ScreensReconcile` for every
increasing list of bucket edges: the ranges between them partition the days
(`OneRange`, by induction on the edges), the bands of the ageing grid are unions
of buckets, and whoever is charged has been measured (`ChargedIsMeasured`), so
has a bucket.

**NoticesProofs.** `TableInv` ties what is planned to what is stored: a batch
that a session is about to write is backed by rows nobody deletes (a follow-up
by its primary notice) or by a status the request has been in. `ItemInv` keeps
account of duties: whatever an item has gone through, a task about it still
waits, or has read and planned a batch to everybody concerned, or that batch
stands in the table, unless a task was lost. Hence `FollowUpAfterPrimary`,
`AccountsNotAskedEarly` and `ItemsAreHeard`, for any number of users, requests,
items, events and losses.

**IntakeProofs**, submissions. The invariant ties a session between the lock and
the insert to the highest number it read: `NeverClashes`, `Consecutive`.
`LockAnnounced` and `AlwaysEditable` are about the calendar, for every length of
month and opening of the window. `HistoryInv` is about what has held ever since
a call began: a check that found a gate open or a number free found it absent
from that history, and the history only shrinks. Hence `GatesAreKept` and
`StandingNumberStays`, between whose reads and insert anything may commit.

**IntakeProofs**, bank statements. A stored row is what its task made of its
document (`StatementsMatchTasks`), so periods are unique. What the correction
computes is proved for statements of any length, from the equations of its
recursive functions: that such a function exists is shown by induction on the
set of the naturals where it would fail (`Smallest` in `Sums`, from the
well-foundedness of < on naturals), and the rows are followed by the same
induction. `MisreadRowsAreRecovered` and `MisreadingShows` have the hypothesis
`NoSingleCents`: every printed movement is zero or more than the tolerance of
one cent (`bank_statement_service.py:164`, 210). It is needed: a movement of one
cent left blank is neither recovered nor noticed.

**PresenceProofs.** Every stamp that stands in a row, a view or a page is one
the clock has given out, an open transaction's stamp is its own, and an item is
newer than the last look exactly if it has changed since or was hidden by a
transaction from before (`MarkersMatchStamps`). Hence `QuietWhenSeen`,
`AwayReportsArrivals` and, because the K newest of a finite set are K
(`NewestAreCounted`), `ChangesAreFlagged`.

Every invariant and action property that a run checks is stated by a theorem,
`LedgerKeepsValue` under its hypothesis, but for `OpenRemarkIsCurrent`, which
holds for one session and is only model-checked. So is liveness (`CallsEnd`,
`SnapshotsFollow`, `DefaultersFlagged`, `ScreensAgree`, `LostIsCaughtUp`,
`DueIsReminded`, `ExtractionsEnd`), which is out of the provers' reach. Neither
checked nor proved is `CompletionNotMissed` with cancels or transitions beside payments.

## 5. Not modelled, disagreements, plan

### Not modelled

Projection reminders, push subscriptions, delivery of e-mails and read markers
of notices; projection amounts per currency and filings of several verticals in
a call; master data of suppliers, customers and banks and its import;
authentication (a role is a parameter of every action), audit log (append-only
in the same transaction), Drive (external), election of the scheduler's worker
by file lock (an operating-system lock; only its consequences, lost runs, are
modelled), rendering of reports and the BI export, the frontend but for its
presence hook, and the older copy under `hf_space`. Batches of several
requests in `bulk_pay` are modelled one request at a time.

### Where code and text disagree

One run shows a disagreement and is a finding: `bulk_race`. The others were
found with the models by enlarging a bound or dropping a named exception; the
properties exclude them by name.

Tranches and requests:
- a cancelled tranche can be paid, which completes the file with another one
  unpaid (`tranche_service.py:9-10` against 421-424, 459-460);
- an add that read the request before its last payment leaves an unpaid tranche
  on a completed, locked file (`tranche_service.py:177-179`, 187);
- Accounts hold a file while its payment commits
  (`deposit_request_service.py:431-432`, 445): for this reason the targets of
  `concurrent` are the author's; a reject beside the calls of `calls_end` makes
  `CompletionNotMissed` fail in the same way;
- the super admin reopens a completed file by resume, which leaves it locked
  (`status_transitions.py:69`);
- a reopened request may share its invoice number with one raised meanwhile
  (`deposit_request_service.py:427-428`, `test_duplicate_invoice.py:1-2`).

Adjustments and remarks:
- approve and reject both check the status before they wait for the lock; the
  later overwrites the earlier. `PaidBalance` has `GiveBack` for it. The
  destination is not locked and may be paid or cancelled between an approval's
  look at it and its commit; no property speaks of destinations;
- typed file numbers, a corrected invoice number or a tranche added after a
  file change break the replay's value; two sessions can raise two remarks on
  one file.

Snapshots and screens:
- two overdue files of one unflagged supplier in one batch stage two flags;
  the unique key refuses them, the batch rolls back, and the next refresh does
  the same (`snapshot_job.py:36-37`, 139, 153). The run has a supplier for each;
- a snapshot taken within the grace days of a file that shipped late stays
  without its charge, because the refresh then skips it; and a refresh that
  read an overdue file before its shipment can overwrite the seed's snapshot,
  so the file counts as delayed and as shipped for good
  (`analytics_service.py:393-396`);
- monthly trends, summary and NPA keep cancelled and rejected files, against
  the comment at `analytics_service.py:330`; merchandiser and vertical tables
  lose files without one; the two trackers keep files that Accounts rejected,
  against the docstring at 1040-1041; the summary's exposure counts cancelled
  files;
- a reopened file is in the total but has no KPI card; a file whose remaining
  tranches are cancelled stays pending with nothing payable; a
  `payment_status` edited by hand can contradict the processed card.

Notices, intake, statements, presence:
- a request let through by the resume endpoint is never announced to Accounts;
  an adjustment rejected before its first task runs is announced as recorded
  (`notification_service.py:1215-1220`); executives get an e-mail at every run
  for a raiser without a user account;
- from the 25th on, a vertical locked for the current month is not in the
  banner, which asks for the next one; `models/projection.py:1-8`,
  `api/v1/projections.py:1-7` and the docstring of `submit` describe an older
  rule;
- a misread first row of a statement without opening balance passes the check
  (`bank_statement_service.py:7-9`); an extraction lost with its process leaves
  its statement processing (12-14);
- a change by a transaction that began before the user opened the file never
  gets its dot (`presence_service.py:9-11`); the absence dialog counts requests
  created, not those that came to Accounts by an approval (7-8); a beat that
  lands after the page was hidden shortens the absence; changes of the payment
  row raise no dot.

### Plan

1. Batches of several requests in `bulk_pay`, and the lock order among them.
2. Projection reminders in `Notices`; suppliers' master data.
