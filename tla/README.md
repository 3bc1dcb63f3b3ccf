# A TLA+ verification of Ledger AI

This directory holds TLA+ models of Ledger AI (the FastAPI service, its RQ
workers and its maintenance thread under `src/apps/api/ledgerai/`), TLC
configurations that check them on small instances, and TLAPS proofs of what
matters most for every value of the constants. Nothing here is executed by the
product. Paths below are relative to `src/apps/api/ledgerai/` unless they start
with `src/`.

Run a model with `tlc -config X.cfg M`, where the run table below names `M` and
`X.cfg`; check a proof with `tlapm M.tla`. All constants are in the `.cfg`
files and the `MC*` modules.

## 1. The system

Four kinds of process share a Postgres database, an S3-like object store and a
Redis server, and no transaction spans two of the three:

* **API processes** (FastAPI). A request runs on the event loop in one session
  (`db.py:get_db`) and hands blocking work to threads with a second, synchronous
  session. A handler can be cut short at any await.
* **RQ workers.** A worker forks a work horse for each job. The horse may be
  killed, time out, or raise; RQ retries at once, `Retry(max = attempts - 1)`,
  and calls `on_failure` after the last attempt. A worker process that dies
  takes its job with it.
* **The maintenance thread** inside each worker process
  (`maintenance/supervisor.py`), which runs three sweeps on a schedule kept in
  Redis.
* **Outside**: the identity provider (Clerk), its webhook, and the browser.

Sessions are created with `autoflush=False` and `expire_on_commit=False`
(`db.py:34,41`), transactions are READ COMMITTED. Several models depend on both:
a query does not see what its own session has added and not flushed, and a row
read before a commit of somebody else is not read again.

### Components, their state and what makes them correct

| Component | State | Operations | What must hold |
|---|---|---|---|
| quota (`services/quota.py`) | `user_usage`, `usage_reservations` | reserve, attach, convert, release, expire | every limit, for concurrent requests, slow jobs and midnight |
| upload pipeline (`routers/uploads.py`, `jobs/process_upload.py`, `jobs/queue.py`, `services/storage.py`) | `uploads`, `processing_jobs`, objects, RQ jobs | upload, run, retry, reject, fail, time out | one upload per content, no stranded bytes, every upload ends, every claim returns |
| retention (`services/lifecycle.py`, `jobs/retention.py`) | the same tables | stuck jobs, failed files, receipts, statements, claims | it collects what others leave and disturbs nothing that is alive |
| maintenance schedule (`maintenance/`) | a lock and a marker per sweep in Redis | tick | one runner, an interval apart, again and again |
| account deletion and identity (`services/account_deletion.py`, `jobs/account_reconcile.py`, `services/identity.py`, `services/clerk_admin.py`, `routers/settings.py`, `routers/webhooks.py`, `deps.py`) | `users`, `deleted_identities`, objects, the provider's identity | provision, admit, record, purge, revoke, retry | a deleted subject is erased everywhere, and stays deleted |
| statement review (`routers/statements.py`, `services/statements/staging.py`) | `statement_imports`, `statement_import_rows`, `transactions` | stage, correct, confirm, discard, expire | a statement is imported at most once; its PDF goes |
| receipts (`services/receipts.py`, `routers/receipts.py`) | `receipts`, `transactions` | match, confirm, link, edit, delete | one transaction per receipt and one receipt per transaction |
| ingest (`services/ingest.py`, `services/normalize.py`, `services/csv_parser.py`) | `accounts`, `transactions` | parse, resolve an account, insert or skip | no row twice, no row lost, nothing imported changes what is there |
| corrections (`services/corrections.py`, `routers/transactions.py`) | `transaction_corrections` | correct one row, or every row of its merchant | what a person decided on one row stays; later imports learn from it |
| alerts (`services/alerts/`) | `alerts` | detect, rule on | one alert per transaction and kind; a ruling is never undone by a job |
| demo accounts and sign-in (`services/demo.py`, `jobs/demo_cleanup.py`, `routers/auth.py`, `security/jwt.py`) | `users` | provision, sign in, renew, expire, clean up | one account per key or identity, none beyond its deadline |
| rate limiting (`security/ratelimit.py`) | counters in Redis | count, refuse | the limit per window, with and without Redis |
| analysis (`services/analysis/`, `routers/analysis.py`) | `analysis_runs`, a cache in Redis | understand, plan, execute, narrate, stream, replay | a replayed answer is as new as the data; every stream ends; figures are computed, never told |
| dashboard (`routers/dashboard.py`) | none | months, categories, trend | agrees with the answers |
| statement parsing and verification (`services/statements/`) | none | columns, rows, pages, balance chain, check against the rendering | a row reconciles with the balances or is reviewed |
| receipt reading (`services/ocr/`) | none | fields and their confidence | a guess is reviewed |
| categorisation and language models (`services/categorize/`, `services/ai/`) | a breaker and a cache per process | place, narrate, plan, fall back | a model is the last resort and never decides alone |
| the rest | | | listed in `PROJECT.json` with the reason it is left out |

How they interact: an upload claims budget (quota), stores bytes and enqueues a
job; the job converts the claim and writes transactions (ingest, alerts), a
receipt or a staged statement; review turns a statement or a receipt into
transactions; retention ends whatever was abandoned; deletion cuts across all of
them. The owner's corrections change what was imported and teach what is imported
next; questions are answered from the transactions, through a cache whose key is
a watermark over them. The schedule runs retention, the demo cleanup and the
deletion's reconciliation pass.

### Where it is hard

`PROJECT.json` lists the hazards at their lines. The recurring shapes are:

* a check in one transaction and the act in a later one (upload lookup and
  insert, tombstone and profile, review status and correction);
* an effect outside the database that a rollback does not undo (put, enqueue,
  delete of an object, revocation of an identity);
* a job that runs again after a part of it was committed;
* two sweeps or two requests over the same rows, with row locks taken in
  different orders;
* clock readings that are older than the lock they are used under, and
  `updated_at` columns that name the moment a transaction began, not the moment
  it committed;
* rules over amounts, dates and words where two signals disagree (a printed sign
  and a balance, a claimed figure and a rendered one, a phrase and a baseline).

## 2. Modules

| Module | Models | Extended by |
|---|---|---|
| `Quota` | the budget of one account under its day lock | `MCQuota`, `QuotaProofs` |
| `UploadPipeline` | request, job and sweep over one account's uploads | `MCUploadPipeline`, `PipelineProofs` |
| `MaintenanceSchedule` | one sweep's lock and marker, any number of workers | `RedisProofs` |
| `AccountDeletion` | one subject's profile, tombstone, files and identity | `MCAccountDeletion`, `LifecycleProofs` |
| `StatementReview` | one statement from staging to import or removal | `MCStatementReview`, `LifecycleProofs` |
| `Receipts` | receipts from the job that reads them to confirmation or removal | `MCReceipts`, `ReceiptProofs` |
| `Book` | what the tables of transactions and alerts promise (abstract) | instantiated by `Ledger` |
| `Ledger` | imports, corrections, alerts and the deletion of all data together | `MCLedger`, `LedgerProofs` |
| `Answers` | questions, their streams and the cache, over changing data | `MCAnswers`, `RedisProofs` |
| `Visits` | rate limiter, demo and GitHub sign-in, tokens, demo cleanup | `MCVisits`, `RedisProofs` |
| `Reading` | rules that read statements, exports and receipts | `MCRules` |
| `Detecting` | rules that raise alerts, match receipts and categorise | `MCRules` |
| `Planning` | periods, plans, refinements, queries, dashboard figures | `Telling` |
| `Telling` | matching words, narration, the number check, the model client | `MCRules` |
| `MCRules` | the inputs of the rules and what is promised of each kind | `RuleProofs`, `AnsweringProofs` |

Each action is one transaction, one call to an outside system, or the part of a
handler between two such points. `PROJECT.json` maps every definition to its
lines. Definitions marked *Mutant* are faulty variants kept beside the
definition they vary; no specification uses them.

**Quota.** `phase[r]` follows one reservation: `arrived` has read the clock,
`locked` holds the day row, `claimed` has inserted and not committed (so nobody
else counts it), `held` is live, `lapsed` was swept or expired. `FindClaim` and
`Convert` are the two halves of `commit_by_upload`, between which the row can be
swept. `usage` is `user_usage`; the stored bytes, rows and pages are recomputed
from `upload` and `resultsDay`, as `_committed_counts` does. `late` remembers
claims that were used after they expired. `quota.reconcile`, which only tests
call, is left out; so are the exempt (demo) accounts, which reserve nothing.

**UploadPipeline.** `request` is the handler's program counter, `row`, `status`,
`stage`, `keyed` and `claim` the columns it leaves, `object` the bytes, `job`,
`step` and `attempts` the RQ job. Ages are counted in the thresholds the code
compares with, in their order (30 minutes, 2 hours, review hours, 7 days, 30
days). `PutFails` and `EnqueueFails` may have taken effect. `KillHorse` is a
kill, a timeout, or an exception in a failure handler; `LoseWorker` is the loss
of the process, after which nobody calls `on_failure`. `SweepRead`, `SweepLoad`
and `SweepCommit` are the jobs read as abandoned, their uploads loaded, and the
end of `retention_sweep`'s transaction; in between a slow worker may go on.
`LoadRows` and `BeginRun` keep a run's reading apart from its first write. Since
a session leaves out of its UPDATE a column assigned the value it was loaded
with, `seen` remembers the runs that loaded their upload as COMPLETE and `spared`
the uploads the sweep loaded as FAILED; a handler that rolled back loads afresh,
and only the sweep writes beside it, the same value. The parser's verdict is
`Sound`. Requests the rate limiter turned away are `refused` from the start:
`Arrivals` bounds how many are not. `cancel_queued_jobs`, part of account
deletion, is left out.

**MaintenanceSchedule.** One evaluation of `run_sweep_if_due` is `FindDue`,
`Acquire`, `Recheck`, the sweep, `WriteMarker`, `Release`, each of which may
fail, lose its reply (`Ghost` holds a lock whose SET was applied and whose reply
was lost) or be the last thing its process does. `since` is the age of the
evaluation's clock reading, which is also the bound on its length.

**AccountDeletion.** Requests authenticate (`LookUpTombstone`, `LookUpProfile` ..
`Admit`) and then visit, upload, preview or delete. `pass` is the reconciliation pass with the
tombstone as it read it; its database writes are invisible until `PassCommits`,
its purge and revocation are not. The webhook may be delivered at any time after
the identity is gone, any number of times. Invitations and the admission rules
are a refusal that may happen (`RefuseProfile`). `condemned` remembers the profiles
an intent was recorded for while the deletion was pending and no pass was under
way: what a purge must not leave behind. There is one pass at a time
because `OneRunner` holds of the schedule.

**StatementReview.** `importLock` and `uploadLock` are the two row locks, taken
in opposite orders by a confirmation and a removal; `AbortVictim` is Postgres
resolving the deadlock. `saw` is what `stage()` read before it wrote: the ORM
writes only attributes that changed, so a status read as NEEDS_REVIEW is not
written back. A row's digest is its text and its line; an edited row has a text
of its own. The destination account is fixed, and the alerts raised inside the
confirmation's transaction are not part of the state.

**Receipts.** `row` is the receipts row as far as confirming looks at it,
`created` the transactions a confirmation inserted, each with the receipt its
digest is made of. A request loads its receipt without a lock (`seen`) and its
UPDATE writes only the columns that differ from what it loaded (`Updated`);
`InsertTransaction` and `FindTransaction` are the two outcomes of INSERT .. ON
CONFLICT DO NOTHING, which waits for an uncommitted insert of the same digest.
`CheckClaims` and `CommitConfirm` are the two ends of `confirm_link`. The sweep
reads (`SweepReads`) and deletes by id in one transaction (`SweepCommits`). The
history variables name what the properties exempt: receipts confirmed since the
sweep read them, receipts whose last confirmation overlapped another, and
receipts the job wrote again after their confirmation. Which account a created
transaction goes to, currencies, match scores and rejected candidates are left
out; transactions themselves are not deleted.

**Book and Ledger.** `Book` has four kinds of step: jobs `Import` (they add
entries and alerts and change none) or `Proceed` without touching the book, the
owner `Decide`s (entries and alerts change, none comes or goes), and a deletion
`Erase`s (entries and alerts only go), after which nothing is added. Whose step
it is shows in `imports`, the progress of the jobs: `Import` and `Proceed` change
it, `Decide` and `Erase` do not, so a job that rewrites what is there is no
`Decide`. `Ledger` is the detailed system: `at[u]`
follows the job of one CSV file from `_set_stage` to `_set_stage`, with the rows
and alerts it has inserted and not committed (`mine`, `raised`), the account it
resolved and the memory it loaded; `edit[e]` follows one PATCH of a transaction
from its unlocked read (`LoadTransaction`), over the two queries of
`apply_bulk_correction` (`GatherCategory`, `GatherMerchant`), to the flush and
commit (`CommitEdit`), which waits for rows the deletion holds; `erase` follows
the deletion over its locks. An insert that conflicts with an open transaction
waits, which is the guard of `InsertRows`. A correction records when its edit
began (its `created_at`) and when it committed; a later import takes the one
that began last. `KeepsBook` is `Book` under the mapping `entry <- Entry`,
`imports <- at` (every step of a job moves its `at`, and of the others only the
deletion's cancelling of queued jobs does, which touches no row),
`erased <- erase = "done"`. One upload is one file of rows; confirmed statements
and receipts also insert transactions, in modules of their own.

**Answers.** A request reads the watermark, asks the cache, replays a run or
computes one: three data statements (`selecting`, `aggregating`, `composing`),
each its own snapshot, then a commit, then the cache write. `data`, `began` and
`open` are the ledger as far as the watermark (`count`, `max(updated_at)`) tells
it apart. `version`, `basis`, `oldest` and `overtaken` are history variables that
say which data an answer was computed from. Redis loses any key at any time and
any call; a client leaves between two steps; the deletion deletes rows and runs,
purges the cache by its index, and commits. What the steps compute is in
`Planning` and `Telling`.

**Visits.** Time counts down: `life` of an account, `window` of the counter,
`TokenLife`. A visitor passes the limiter (`INCR` and `EXPIRE` in one script,
which may be stranded, unreachable or, with `LoseCounter`, lost), then looks up its key or GitHub id,
inserts under the unique constraints, seeds the account and commits, or loses
the race and looks again. The sweep lists expired accounts in a batch and
deletes them one by one, and one failure rolls the batch back. `left` says
when the limiter's window is over: it begins with the first request counted, and a
counter begun anew after a loss keeps it open until that one expires. `Faults`
bounds the failures and losses.

**Reading, Detecting, Planning, Telling, MCRules.** Pure functions of the
source as operators over small records: amounts as cents with the marks printed
around them, dates as days counted from an origin, words as model values. A
`MCRules` state is one input, of one of eighteen kinds, and all inputs of all
kinds are initial states; each property says what the rules promise of each
kind. `Telling` uses `Planning`'s plans. A document's rows are known by page and
line, and a statement's history by its balances, so that a promise about a
document of any length can be stated place by place. `None` stands for nothing
that is read off a page (`ReadingAssumption`).

## 3. Runs

| Run | Module / cfg | Checks | Shows |
|---|---|---|---|
| `quota_days` | `MCQuota` / `_days` | `TypeOK`, `UsageCountsConversions`, `DailyUploadsBounded`, `LimitsKept` | the limits hold for three racing requests over two days |
| `upload_twins` | `MCUploadPipeline` / `_twins` | `OneUploadPerContent`, `ObjectsReachable` | two uploads of the same bytes leave one row and strand nothing |
| `upload_settles` | `MCUploadPipeline` / `_settles` | `CompleteIsCharged`, `StoryAgrees`, `EveryUploadSettles`, `EveryClaimReturns` | uploads end and claims return, whatever dies |
| `schedule_workers` | `MaintenanceSchedule` / `_workers` | `OneRunner`, `CompletionsSpaced`, `SweepsRecur` | the schedule is a mutex, spaced and live |
| `deletion_races` | `MCAccountDeletion` / `_races` | `PurgedMeansNoProfile`, `CompleteMeansErased`, `ProgressIsKept`, `TombstoneDenies`, `DeletionEnds` | a deletion moves forward only, denies at once, erases, and ends |
| `statement_races` | `MCStatementReview` / `_races` | `ImportedOnce`, `PurgedAutomatically`, `RequestsAnswered` | no line becomes two transactions, the statement and its PDF go, nobody waits for ever |
| `receipt_races` | `MCReceipts` / `_races` | `TypeOK`, `CreatedOnce`, `LinkedOnce`, `LinkModeTrue`, `ReviewedIsOpen`, `SweepSparesConfirmed` | confirming, editing, deleting, sweeping and re-reading a receipt in any order |
| `ledger_races` | `MCLedger` / `_races` | `FilesWhole`, `DecisionStands`, `KeepsBook` | imports, corrections, rulings and the deletion implement the book in any order, and a committed file has all its lines |
| `ask_replays` | `MCAnswers` / `_replays` | `ReplayCurrent`, `CacheNamesAnswers`, `EveryAskEnds` | the cache replays committed answers no older than the data |
| `visits_races` | `MCVisits` / `_races` | `OneAccountEach`, `DeadlineHolds`, `BudgetKept`, `VisitsEnd` | one account each, none beyond its deadline, no window beyond a budget per counter, and everyone gets in |
| `rules_hold` | `MCRules` / `_inputs` | `ReadingHolds`, `DetectingHolds`, `AnsweringHolds` | the rules keep their promises on every small input |
| `deletion_preview` | `MCAccountDeletion` / `_preview` | `PreviewRemovesNothing` (violated) | see below |

**Bounds, and why they are enough.** Three requests in `quota_days` are one more
than every limit admits, with unequal sizes so that a byte limit can be missed
by one; the clock has two days (`MaxTime = 2`, `DayLength = 2`) and a TTL of one
tick, so midnight and expiry fall between any two steps. Two requests in the
`twins` are the most the unique constraint distinguishes, with one retry.
`settles` follows one request at a time (`Arrivals = 1`), with any of five files
(a CSV, and an image and a statement of either verdict) and three runs of its
job, so that a run may follow a completion and overlap two sweeps: uploads meet
only at the unique constraint and the budget, which `twins` and `quota_days`
check, and nothing makes a worker take a job, so another upload's job can delay
nothing that the properties count on. Three workers in `schedule_workers` let one hold the lock, one
wait and one act on an old reading; `RunLimit = 2 < LockTTL = 3 < Interval = 4`
is the order of the retention sweep and the demo cleanup (a lock of 15 minutes, a
day, an hour); the reconciliation of deletions has an interval of five minutes,
shorter than its lock's life, which the theorems about the lease cover: they
assume nothing of the interval.
`deletion_races` has a request that deletes or previews, one that uploads and one
that visits, for a subject with a profile, and the first with either of the others
for a subject without, and two attempts.
`statement_races` has two confirmations with a correction, or a confirmation
with a discard (one of each lock order is enough for a deadlock), or two
corrections that leave a line out and take it back, the sweep and
a job of two runs, over a statement of one line, since the operations treat
lines independently except for equal digests. `receipt_races` has two receipts,
one with a total and a date and one that needs an edit first, one transaction
from elsewhere, and three requests at a time. Two receipts are the fewest that
can share a transaction; two runs of the job let one of them find the row of the
other. `ledger_races` has two files that share one of two lines, so that a row
can be skipped by either, two runs of each job, one individual and one bulk
correction of the only merchant, the bulk one renaming it as well, and a line
that may be alerted on; the user has one account, so that the two jobs contend
for the shared line (with an account each they would not meet). `ask_replays`
has two requests, which is one run and one replay or refinement, with at most
two writes of one row or a write and an import: two writes are the fewest that
can overlap so that the one that began first commits last. `visits_races` has
three visitors of which two share a key, an id or an address; accounts live two
ticks, tokens one, the counter's window two; one admission per window and two
failures or losses. The inputs of `rules_hold` are bounded in `MCRules`, where the case
that matters is named at each kind: two or three rows of a statement with one
figure misread by up to twice an amount, two pages of up to three lines, books
of three charges on a few days, the days around month ends, the end of February
and New Year, five calls around the breaker's threshold. Answers are told of sums,
counts, averages and greatest amounts, around names, texts and labels that
have a number of their own and ones that have none; a question names two merchants at most
(`MaxNamed`), one of a name too short to be found, and one whose name has a
category's phrase in the middle of a word.

Deadlock is not checked where the system may really stop: requests and jobs are
finite. `schedule_workers` has no terminal state and checks it.

**Fairness.** The event loop runs an accepted request (WF on its steps); a busy
worker works (WF on its steps, in which failing counts as working). Nothing
makes a worker take a queued job: an upload must settle even if none does. The
retention sweep's commit and the pass's steps get strong fairness or, in
`StatementReview`, the assumption that a sweep is not killed every time: that the
schedule runs them again and again is `SweepsRecur`, and a sweep that always dies
at the same point would defeat any schedule. In `MaintenanceSchedule` itself
ticks are weakly fair and Redis, the sweep and the process may fail any number
of times but not every time (SF per kind of step, over all workers). Postgres
ends a deadlock (`deadlock_timeout`). The event loop resumes every stream of an
answer it has begun (`Answers`), and visitors ask again, time passes and the demo
sweep is scheduled (`Visits`). `Ledger` has no liveness property: what ends an
upload is `UploadPipeline`'s. Nothing makes the object store or the
identity provider answer; liveness properties name what remains when they do
not.

### Disagreements with the repository's own words

The violation run checks one statement of the repository and finds it broken;
`PROJECT.json` quotes both sides.

* **`PreviewRemovesNothing`.** `delete_account` records and commits the
  tombstone before it looks at `dry_run`. A preview is a deletion.

Other deviations met while modelling are in the models as the code has them, and
the properties are stated around them:

* When the last attempt of a job fails with an ordinary exception, its handler
  commits FAILED, and `mark_job_failed` then returns before releasing the claim.
  The slot comes back when the claim expires (`EveryClaimReturns`), not at the
  terminal point that `routers/uploads.py:301-303` speaks of.
* Two links of one transaction that overlap both pass the check, and two
  receipts then share it; the next link of that transaction finds two claimants
  and fails with an internal error (`LinkedOnce`, `raced`). Overlapping
  confirmations of one receipt can leave it with the link of one and the mode of
  another (`LinkModeTrue`). A job that runs again returns a confirmed receipt to
  the review queue (`rewritten`), and the sweep deletes a receipt confirmed
  after it was read (`confirmedSince`).
* Requests that read the clock on either side of midnight lock different day
  rows, so the concurrency limit holds per day and not across two
  (`LimitsKept`, `OneDay`).
* `_reject_upload` clears the key even when the object could not be deleted
  (`storageFault`); a discard that failed leaves an object no sweep looks for; a
  receipt's rows go even when its file could not be deleted.
* `retention_sweep` overwrites a job that completes between its read and its
  commit, although `services/lifecycle.py:517-519` calls it "safe to run
  concurrently with normal traffic". Where the upload had an outcome already, the
  two do not even agree: a retry that loaded its upload as COMPLETE does not write
  it again, so a sweep's FAILED stays beside a job shown as COMPLETE; and a sweep
  that loaded an upload as FAILED leaves a COMPLETE written meanwhile beside the
  job it fails (`StoryAgrees`, `contested`).
* Uploading a file again after its job failed is answered as already processed.
* A sweep that outlasts `LOCK_TTL_MS` runs beside a second one; `RunLimit` is the
  assumption that none does.
* When the object store fails during the route's purge the users row is deleted
  all the same, and the pass then finds nothing to purge (`lingering`).
* A retried job that looks its import up after a confirmation puts it back to
  review (`reopened`); a sweep that read an import before its confirmation
  deletes the committed import; an import committed or removed while the store
  refused the delete keeps its PDF for good.

* `provision_profile` checks the tombstone, asks the provider over the network,
  then inserts (`services/identity.py:206`). A tombstone recorded in between has
  no profile to mark, and the new one is not removed unless another intent comes
  in time, although `models/tables.py:229` and `docs/security.md:420` say a deleted
  subject is not provisioned again (`PurgedMeansNoProfile` and `TombstoneDenies`
  are about the profiles it was recorded for, `condemned`).
* `source_line` starts again on every page and the digest leaves the page out
  (`services/statements/staging.py:156-166`): a charge printed at the same line
  of two pages has the same digest twice, and the confirmation fails on the
  unique constraint every time.
* `confirm_link` refuses only the transaction the receipt already has
  (`services/receipts.py:402`): a receipt that created a transaction can be
  linked to an imported one afterwards; both stay (README.md:149 says one or the
  other).
* The stored bytes a request is judged by add only what is held by today's
  claims (`services/quota.py:262`).

Of the ledger:

* Two jobs of a user without an account each create "Imported Account", and a
  job that is retried may resolve its account differently than before; the same
  lines are then imported once per account, although `services/ingest.py:3-7`
  says a retried job or a file uploaded again converges to the same rows. No
  property denies it: that an account has a line at most once is the shape of
  `txn` (the unique hash), and `FilesWhole` asks for every line of a file in some
  account.
* A bulk correction overwrites an individual one that committed after it had
  gathered its rows (`o.began < c.done` in `DecisionStands`).
* "Most recent wins" among the corrections an import learns from uses
  `created_at`, the moment the transaction began, not the one it committed.
* The deletion leaves rows that a job committed after the deletion had read the
  table (`services/lifecycle.py:453`), with their upload set to NULL, and
  `routers/settings.py:378-391` reports what it counted; a deadlock with a worker
  rolls it back after the files are gone.

Of the answers and visits:

* A write that began before and committed after another one does not move the
  watermark; the answer replayed then is older than the data (`overtaken`). The
  three statements of one answer can see three versions of the data.
* The cache key has neither the day nor the base currency in it: "last 30 days"
  is replayed the next day within the entry's life.
* A run that straddles the deletion of all data commits after it and stays; an
  entry that could not be indexed outlives the purge, but names no run.
* A limiter's counter that Redis loses lets another budget through in the same
  window (`lost` in `BudgetKept`); `security/ratelimit.py:343` speaks of a fixed
  window.
* The demo cleanup's failure on one account rolls back the deletions flushed
  before it, which its report still counts. `delete_demo_user` says "expired" and
  does not look. A key used again after its account expired gets an account that
  every request refuses. Two GitHub ids that race with one verified address: the
  loser has to try again.

Of the rules (the properties are stated around them, with the exact exception in
their formulas):

* Reading: `year_hint` misdates the rows of a statement that crosses New Year; a
  balance misread by twice an amount next to it flips a sign and reconciles; a
  statement without signs whose rows are all credits after the first keeps the
  first sign; a page with columns of its own that are not corroborated is dropped
  (`parse.py:370-389`); a page with dated balances and too few amounts takes
  balances for amounts (`layout.py:181-196`); "1.234,56" of a CSV is 1.23; a
  debit of "0.00" hides the credit; a trailing "D" is negative in a PDF and
  positive in a CSV; a longer figure that contains the claimed digits counts as
  rendered.
* Detecting: near duplicates are missed when the later row was imported first;
  two first charges of a merchant on one day silence "new merchant"; the score
  minimum excludes no candidate, so that beyond the limit of ten (two in the run)
  an outflow is left out by its score alone, and by the order of the query among
  equals; a transaction that two receipts hold (which overlapping links leave, see
  above) makes the search of every other receipt it is near fail
  (`services/receipts.py:208-214`).
* Planning: widening an ungrouped comparison drops its baseline and keeps its
  intent, so that the stored plan no longer validates; a "recurring" question
  that compares keeps a baseline inside the widened period; a trend of more than
  25 months is cut; "last N years" on February 29 and "last 0 days" raise; the
  dashboard's income has transfers in while spending has none out; the rows of a plan that averages do not add up to its total, which is
  the average of all; the answer shows both side by side.
* Telling: the template narration fails its own number check when the total is
  negative, or when a merchant's or a category's name, the text searched for, the
  label of the largest row or of a period has a number that is neither small nor a
  year ("Route 66", `narrate.py:146-155,229`); integers up to 31 and years
  pass unverified although `narrator_llm.py:5` says every figure is checked; a
  phrase of a category is dropped wherever the joined names of the merchants have
  its letters, so that "lunch" is lost in a question that also names a merchant
  "Lunchbox", and a category
  with one phrase inside and one outside depends on the order of a Python set
  (`planner_rules.py:125-133`); merchants beyond the twentieth named are ignored
  (`:153`); after its cooldown the breaker
  forgets its failures, so as many calls as its threshold go through before it
  opens again, where `client.py:73` says one probe; a merchant is sent to the
  model again after a failure, an unusable reply or a lost cache
  (`categorizer_llm.py:4-5`: at most once, ever).

## 4. Proofs

The eight proof modules build on the invariants below. Constants have the
assumptions the component's module names and no more.

`QuotaProofs` proves, for any set of requests, any sizes, limits, day length,
TTL and clock:

* `TypeCorrect`: `Spec => []TypeOK`;
* `DailyLimitHolds`: `Spec => []DailyUploadsBounded`;
* `UsageIsExact`: `Spec => []UsageCountsConversions`;
* `LimitsHold`: `Spec => []LimitsKept`.

None of the three limits is inductive. The invariant `IInv` adds that the day row
is held by exactly the request between its lock and its commit
(`LockHeldByReserver`), that a claim being converted has not been counted yet
(`ConvertingUncounted`), that a claim used after it expired is never live
(`LateNeverLive`), that results are of the day of a converted claim
(`ResultsFollowClaim`), and, the heart of it, that while a request has inserted
and not committed the room it saw is still there under every limit (`RoomKept`):
a step that makes a claim count against a day holds that day's row or moves a
claim from one counted set to another, and time only takes claims away. Pages are
counted over all days at once (`PagesFit`), since a claim may be made on one day
and its results stored on the next. Sums of bytes and pages over sets of requests
are folds. That a sum exists and is unique, that it grows with one member and
splits over two parts, follows from families of partial sums and the least
counterexample to their extension (`SumsExist`, `SumsAgree`, `SumSplit`), without
the induction theorems the prover cannot instantiate.

`RedisProofs` is about the three components that trust Redis with something.

Of the answers, for any asks, rows, writes, scripts and failures of Redis (the
proofs use the initial condition and the steps, not the fairness):

* `AnswersTypeCorrect`: `FairSpec => []TypeOK`;
* `ReplaysAreCurrent`: `FairSpec => []ReplayCurrent`;
* `CacheNamesRecords`: `FairSpec => []CacheNamesAnswers`.

A replay is current because its key is, so the invariant speaks of every
watermark somebody may meet again (`Reckonings`: those of requests under way and
those in keys of the cache). A watermark that counted rows is met again only over
the data it was counted from (`WatermarksReckoned`): either nothing has moved, or
there is a newer write, or the newest one counted is gone for good, or rows are
missing and none has come, unless a write that began before the newest one
counted committed after it. The deletion, which takes several commits, needs the
second case to say that the newer write does not go before the one counted does.
A count of no rows carries the clock and is nobody else's (`EmptyIsOwn`). What a
request finds and what it replays has then seen all the request has counted
(`FoundIsCurrent`, `HitIsCurrent`). The attempt showed the model to be wrong in
one place: a deletion that removed nothing counted as new data, for which
`ReplayCurrent` is false.

Of the lease of a sweep, for any number of workers, any interval and any TTL,
under the hypothesis that no evaluation outlasts the lock (`RunLimit < LockTTL`):

* `OnlyOneRunner`: `ScheduleSpec => []OneRunner`;
* `RunsAreSpaced`: `ScheduleSpec => CompletionsSpaced`.

The invariant ties a worker between `Acquire` and `Release` to the lock it still
holds, because the lock has at least `LockTTL - since` left, and bounds the age
of the marker from below while a run that found itself due is under way.

Of the visitors, for any requests, keys, addresses, budgets, lifetimes and
faults:

* `VisitsTypeCorrect`: `VisitsFairSpec => []VisitsTypeOK`;
* `AccountsAreOwn`: `VisitsFairSpec => []OneAccountEach`;
* `DeadlinesHold`: `VisitsFairSpec => []DeadlineHolds`;
* `BudgetHolds`: `VisitsFairSpec => []BudgetKept`.

A row is pending exactly while its visit seeds or commits (`PhaseRows`); the
unique keys make it the only one of its visitor among committed and pending rows
(`Alone`); a demo is complete before it commits (`Seeded`); and those a window
admitted are no more than its counter says and one budget for each that was lost,
while a counter expires exactly when the window ends (`WithinBudget`). The
module extends all three components at once, so the names of the schedule and of
the visitors say whose they are (`ScheduleSpec`, `VisitsFairSpec`).

`ReceiptProofs` proves, for any receipts, requests and number of job runs:

* `ReceiptsTypeCorrect`: `Spec => []TypeOK`;
* `OneTransactionPerReceipt`: `Spec => []CreatedOnce`;
* `SweepOnlyTakesUnconfirmed`: `Spec => SweepSparesConfirmed`;
* `ReviewQueueIsOpen`: `Spec => []ReviewedIsOpen`;
* `TransactionsLinkOnce`: `Spec => []LinkedOnce`;
* `ModesAreTrue`: `Spec => []LinkModeTrue`.

All six rest on `Typed`, the types together with what a request under way has
(`Targeted`, `InsertedAreCreates`). One transaction per receipt needs that an
uncommitted insert is alone (`InsertsAlone`). The review queue needs what a
confirmation relies on when it leaves the status out of its UPDATE: that the
status it read is still there (`SeenConfirmed`), that it has a transaction to
write (`HasTransaction`), and that a receipt that was deleted does not come back
under the same request (`GoneForGood`). The two facts about links are inductive
together (`Joined`): a confirmation nobody committed beside still knows its
receipt's transaction and mode (`Fresh`), a checked transaction is claimed by no
other receipt until somebody commits (`Unclaimed`), a receipt without a transaction
has produced none (`HashLinked`), and therefore whoever finds the transaction in
place of inserting it was overtaken (`FoundOvertaken`). It also takes that the job
that found no receipt is the one that writes it (`JobAlone`).

`LedgerProofs` proves, for any files and lines, any accounts and hints, any
edits and number of runs, with and without the deletion:

* `LedgerTypeCorrect`: `Spec => []TypeOK`;
* `LedgerKeepsBook`: `Spec => KeepsBook`, the refinement of `Book`;
* `DecisionsStand`: `Spec => []DecisionStands`;
* `FilesArriveWhole`: `Spec => []FilesWhole`.

Types need that the `CHOOSE`s of the code are answered: of the corrections of a
merchant one began last (`LatestExists`), of the accounts that match one is first
(`LeastNatural`, from the well-foundedness of the natural numbers), and that a
job in the queue has a run left (`Underway`). The refinement needs that a row
inserted and not committed is nobody else's and not in the table yet
(`MineApart`), that an alert inserted and not committed is about a row that is
there and has none (`RaisedApart`), and that no job commits after the deletion
has (`ErasedEmpty`); then every commit of a job adds only and moves the job, every
commit of an edit keeps the rows there are and moves none, and all else touches
no row. `DecisionStands` is
inductive together with two facts: a correction belongs to an edit that is done
(`CorrectionsSettled`), so that its target no longer changes, and whatever an
edit has gathered was decided alone only after the edit began (`HitsFresh`),
which is what excluding protected rows at the time of the query buys.
`FilesWhole` is inductive together with `NoneMissing`: each line of a job that has
inserted is among its own open rows or the committed ones, because the insert
waited for whoever held it open, and no row goes before the deletion commits.

`LifecycleProofs` proves of `AccountDeletion`, for any requests and any number of
attempts:

* `DeletionTypeCorrect`: `Spec => []TypeOK`;
* `DeletionOnlyAdvances`: `Spec => ProgressIsKept`;
* `TombstoneAlwaysDenies`: `Spec => []TombstoneDenies`;
* `PurgeRemovesProfile`: `Spec => []PurgedMeansNoProfile`;
* `CompleteErases`: `Spec => []CompleteMeansErased`.

The status only advances because nobody but the pass, one at a time, takes a
deletion forward, so that the state it read of the tombstone is still there when
it commits (`PassCurrent`). Erasure needs where everything of the subject can
still be: a profile the deletion was recorded for is locked as long as it is there
and the tombstone names it (`ProfileMarked`), the pass knows that profile or it is
gone (`PassKnows`), and every file that nothing excuses
belongs to the profile that is still to be purged (`FilesClaimed`).

`PipelineProofs` proves, for any requests and contents, attempts, workers and ages
of the sweep:

* `PipelineTypeCorrect`: `Spec => []TypeOK`;
* `UploadsAreUnique`: `Spec => []OneUploadPerContent`;
* `NoObjectForgotten`: `Spec => []ObjectsReachable`;
* `CompletionIsCharged`: `Spec => []CompleteIsCharged`;
* `OneStory`: `Spec => []StoryAgrees`.

The invariant follows the row through its request (`RowFollows`) and its job
(`JobFollows`): a row that is inserted and not committed is the only one of its
content, because the insert waits for a twin or loses to it (`OneAlive`); a claim
is given up only by a request that has no upload yet, after its time to live, or
where nothing can complete any more (`ClaimFollows`); the terminal stage and the
status are written in one commit (`StoryHolds`), and an outcome changes between
a reading and the write that leaves it out only for a job that is contested
(`ContestFollows`); and at every point of the request
the object is the row's, the request's to remove, or the sweep's
(`ObjectFollows`).

`LifecycleProofs` proves of `StatementReview` (whose names say so, because the
module extends both components), for any lines and any number of requests, job
runs and sweeps:

* `ReviewTypeCorrect`: `ReviewSpec => []ReviewTypeOK`;
* `LinesConfirmOnce`: `ReviewSpec => []ImportedOnce`.

A line becomes two transactions if two confirmations read it pending. They do not:
from its `FOR UPDATE` to its commit a confirmation holds the row's lock
(`LockHeld`), a locked import stays under review (`ReviewHeld`), an import under
review has an empty ledger unless a job reopened it (`ReviewOpen`), and what a
confirmation is about to import it takes from the pending lines, each once
(`PendingOnce`).

`RuleProofs` (what is detected and read) and `AnsweringProofs` (what is asked and
answered) prove what the rules promise, first of any input, then of the inputs of
the run:

* `DetectingIsSound`: `Spec => []DetectingHolds`, for any windows, sample sizes
  and floors of the detectors and any number of matches offered. It follows from `LargerIsSaidMoreOf` (a larger
  charge raises every alert about size a smaller one raises, in any book),
  `LargeIsNotNormal`, `RepeatsAreReported`, `NearerRanksHigher` and
  `MatchesAreBest` (of a finite set in any order, those with fewer than the limit
  before them are the best, and as many as the limit unless they are all:
  `BestOfOrder`), and from what a median is: the value of a rank, found by
  counting those below it (`KthIs`, `KthOnly`), which raising the greatest value
  does not move (`RaiseKeepsMedian`); so the greatest charge of a history hides
  nothing (`GreatestHidesNothing`).
* `ReadingIsSound`: `Spec => []ReadingHolds`, for any row minimum of a table and
  any budget of unread figures. Of a balance chain of any length, whatever was
  misread for whatever, are proved `ChainSettlesAmounts`, `AmountsReconcile`,
  `SignsAreKnown` and `MisreadingShows`; of any number of pages of any length
  `NothingIsLost`; of any amount, period, page and receipt `ParsersAgree`,
  `ColumnsAgree`, `YearIsOwn`, `AcceptedIsDrawn` and `GuessIsReviewed`.
* `AnsweringIsSound`: `Spec => []AnsweringHolds`, all seven parts of it, for any
  settings of the model client, in every calendar that covers the days the run
  asks about (`Covered`: it has seventeen years and begins between 2007 and 2018,
  so that the days and the named years of the run are in it and what a phrase goes
  back to is too; the configuration's does). It follows from theorems about any
  input:
  * periods (`PeriodsSound`): `PeriodsAreSound`, for any day and any phrase the
    calendar reaches (`Reached`);
  * plans (`PlansCoherent`): `PlansAreCoherent`, for any question about a period
    after the first year, from `FollowUpsHold`: a plan that can be asked
    (`Askable`) is turned by every follow-up offered into another such plan, which
    is the invariant that bounds no number of follow-ups;
  * figures (`SurfacesAgree`): `FiguresAgree`, for any book of whole cents, from
    `GroupsAddUp`: the rows of an answer are the rows of the buckets, each once and
    none missing (`BucketRows`), and buckets partition what was selected, so that
    sums and counts of them add up;
  * telling (`NumbersAreComputed`): `AnswersAreChecked`, for any book and plan, from
    what an answer is (`ExecutedIs`) and the template's numbers (`TemplatePasses`):
    of sums, counts, averages and extremes, its figures pass whatever the words
    around them say, and all of it passes where those have plain numbers;
  * words, calls and replies: `NamesAreSettled` (any words, merchants and
    categories, and whatever is inside the names), `BreakerIsSound` (any sequence of calls) and `ModelIsAskedLast`
    (any charges of any merchants, with a memory that may be forgotten at any).

Balance chain and breaker are folds over a sequence of any length. `WalkExists`
says that such a fold has a history, one state per element, each made from the one
before; it is proved from the definition of the fold by the greatest part of the
sequence that has one. A set of numbers with 0 and with the successor of each of
its members is all of `Nat` (`AllNaturals`, from the least number outside it), and
stands in for the induction theorems. The chain's history gives for each row the
last balance before it (`ChainPrevious`); with it every row that passes carries
the difference of two balances, and telescoping is left to the reader of the
statement: each amount is a difference of its own. The breaker keeps that its log
agrees with its counter of failures, that an open breaker's last failure is the
moment it opened, and that everything refused so far was within a cooldown
(`BreakerInv`). A merchant's category is
remembered exactly while a reply about it was of use and nothing was forgotten since
(`PlacingInv`). The calendar is a table that sums months: it has no gaps
(`MonthsFollow`), its months are in order (`MonthsInOrder`), and so every day has
one month (`MonthIs`, `MonthOnly`) and months and their limits determine each other
(`MonthPeriodIs`). A month has 28 to 31 days, and so have some months on average
(`MonthsApart`), which places the days of the run without computing the table. A
phrase reaches a period that has something before it (`Preceded`), from which the
period before it follows (`BaselineIs`).

A sum over a finite set is the library's fold over a set, which takes its members
in no known order. That it is a value at all is shown by families of partial sums
(`SumsExist`, `SumsAgree`, `SumIsValue`); it then splits over two parts
(`SumSplit`) and over any number of them (`SumByParts`), which is all that groups,
months and slices need. An order of a finite set exists (`OrderExists`), and
nothing else of it is used: whichever way the database breaks ties, the rows are
the same set (`InOrderIs`). The hypothesis that there is room (`Grouping`,
`RoomForAll`) is the limit of 25 rows: beyond it the rows of an answer are the
largest ones and do not add up, as the code intends. Months without transactions
are filled in as rows of an empty bucket (`FilledIs`), so that the rows of months
are those of the buckets too.

Three hypotheses state where the code does not keep its promise, and the model
shows the same: widening an ungrouped comparison (`LosesBaseline`), the quarter to come, and years
back from 29 February. What a page resolves is proved by counting: each line has one word
at a place, so the words of a shape at a place are as many as the lines that have
one (`OneWordEach`, `PopulatedIs`), which settles which columns exist
(`ColumnsAre`), for a page and for the document (`DocumentIsPlain`). The
hypotheses (`AnyBook`, `AnyChain`, `PlainPages`, `Kept`, `AnyQuestion`, ...) are the
types of the run's inputs without their bounds, and the proofs of
`DetectingIsSound`, `ReadingIsSound` and `AnsweringIsSound` show that the run's
inputs satisfy them.

For the proofs the model says some things in another form: the uncertain first row
is a definition of its own (`Unsure`), rows are known by page and line where they
were a filtered sequence, a chain is given by its balances and its amounts are
their differences, the rows of an answer are put in any order of their key, groups
are a set before they are ordered, and `None` and `NoPeriod` are assumed to be none
of the things read and no number or period.

Only model-checked:

* liveness, which needs fairness and `ENABLED`: `EveryUploadSettles`,
  `EveryClaimReturns`, `SweepsRecur`, `DeletionEnds`, `PurgedAutomatically`,
  `RequestsAnswered`, `EveryAskEnds`, `VisitsEnd`;
* the violation `PreviewRemovesNothing` states, which one run exhibits.

Every invariant and every action property a passing run checks is stated by a
theorem. Not stated for every input is what lies outside the hypotheses above: an
answer with more groups than it has room for, or a calendar that begins later than
a phrase goes back to.

## 5. Not modelled

* **Text and images**: words into lines of a PDF, the OCR engine, image
  preprocessing, header guessing of CSV files, the words of a question into
  intents, redaction. They are character-level scanners without state; the
  models begin where their results are typed.
* **Libraries and services**: cryptography of tokens and passwords, the PDF
  library, the language model's transport, Postgres, Redis, RQ, the object store
  and the identity provider beyond the calls and failures the models have.
* **Data**: the seeded taxonomy (`alembic/versions/`, a table of 2 800 lines),
  merchant patterns, keywords, the demo dataset.
* **Run by hand or once**: migrations, backfill, the command line.
* **No two steps to interleave**: consent (one append-only row), listings,
  search, export, settings reads, and the web application, whose requests are the
  inputs of the models.
* **Of modelled parts**: `quota.reconcile` (only tests call it),
  `cancel_queued_jobs` outside `BeginErase`, invitations and admission rules of
  the identity (a refusal that may happen), the account a receipt's or a
  statement's transaction goes to, the impact preview of a correction, password
  login.

A next step would compose `StatementReview` and `Receipts` with `Ledger` as
further importers of `Book`.
