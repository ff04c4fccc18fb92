# TLA+ models of iluvtrade

Specifications of the parts of iluvtrade where several requests, threads,
processes, transactions or commands touch the same data, with TLC
configurations that check them on small instances and TLAPS proofs that hold
for every instance. Paths below are relative to `backend/iluvtrade/` unless they
start elsewhere.

Contents: [the system](#the-system) · [modules](#modules-and-the-code) ·
[runs](#the-runs) · [disagreements](#where-the-code-and-its-documentation-disagree) ·
[fairness](#fairness) · [proofs](#what-is-proved) · [not modelled](#what-is-not-modelled) ·
[plan](#plan)

## The system

iluvtrade is a FastAPI application (`main.py`, `api/v1/*`) in one or more
worker processes over one database, PostgreSQL or SQLite, and a directory of
stored objects. A request runs in one transaction that commits when the handler
returns and rolls back when it raises (`api/deps.py:41`). Each process also has
a pool of backtest worker threads and a table of session runner threads, which
open transactions of their own. The quantitative engine (AlphaLab) is a separate
package behind `alphalab_bridge/`. Outside the application, an operator rotates
keys with a command and backs up with `scripts/backup_recovery.py`.

Nothing is shared between these threads but the database, the object store and,
inside a process, the runner table, so **what can go wrong is decided by which
rows a transaction reads, which it locks, and what it writes back.** The code
uses three forms, and a model must tell them apart:

1. a conditional UPDATE with the expected value in its WHERE clause (session
   transitions, runner claim, one-time tokens, second factors): one atomic step;
2. a locked read (`FOR UPDATE SKIP LOCKED` for jobs, `FOR NO KEY UPDATE` for the
   audit chain), which SQLite ignores;
3. a plain read, a decision, and an UPDATE by primary key of the columns whose
   loaded value changed: two steps, and a lost update between them. No
   transaction here runs above READ COMMITTED.

### Inventory

| Component | State | Operations | Hard behaviour | What makes it correct |
|---|---|---|---|---|
| Trading sessions (`trading/`) | session row, order/fill/position rows, runner threads | start, pause, resume, stop, kill; run, project, finish | requests against a running thread; two processes; crash; replay after resume | one claim; it stops within a record; the tables follow the engine; terminal is terminal |
| Backtest queue (`backtests/`) | job and run rows, worker threads | submit, cancel, requeue orphans, claim, execute | two workers, cancellation races, worker loss, SQLite without locks | one worker per job; bounded attempts; every job ends; a completed job has its run |
| Audit chain (`platform/audit.py`) | events with position and hash | record, verify | concurrent appends inside larger transactions, rollback, lock order | no gap or fork; damage shows; no deadlock |
| RedDesk (`reddesk/`) | listing, offered versions, purchases, entitlements | submit, review, publish, withdraw, offer, purchase, refund, advance, expire, resolve | read-then-write requests on the same rows, repeated purchases, the end of a term | a refund revokes; a licence moves only on request; ended stays ended |
| Billing provider (`billing/`) | none | charge, refund | settles inside the call | a charge is settled once |
| Datasets (`data/ingest.py`, `common/storage.py`) | dataset versions, canonical files | inspect, ingest, approve, reject, verified read | numbering race, file before row, preview against import, a file that changes while it is read | what is run is what was reviewed and what was hashed |
| Data algorithms (`data/cleaning.py`, `temporal.py`, `schema.py`, `quality.py`) | none | detect, clean, check spacing, stamp, score | boundaries, offset changes, several instruments in one file | every line accounted for; no bar is seen before it ends |
| Strategies (`strategies/`) | versions with a content hash | edit draft, publish, verify | edit against publish | a backtest runs what its record says |
| Accounts, passwords, second factors (`platform/accounts.py`, `passwords.py`, `mfa.py`) | user row, session and reset-token rows, TOTP counter, recovery codes | login, switch, logout, issue, redeem, enrol, confirm, spend, disable | replay, two live tokens, a reset against a login, a factor checked on an old row | used once; after a reset no earlier session |
| Brokers (`brokers/`) | connection state, sealed credential, keys | begin, authorize, disconnect, rotate, retire keys | rotation beside a disconnect; 06:00 IST | what is stored opens; a removed credential stays removed |
| Backup (`scripts/backup_recovery.py`) | stopped services, bundles, Restic snapshots, a lock | back up, retry, rehearse | failure of any command, kill, overlapping invocations | every snapshot restores or does not verify; nothing is removed that is not stored; what it stops it starts |
| Invitations, rate limiter (`platform/`) | rows; counters per window | accept, revoke; hit, sweep | last commit wins; mixed window lengths | see *not modelled* |
| Rest: notifications, fetch, views, shell, migrations, web client, deployment | rows appended, none, schema | | little | |

How they interact: sessions and backtests ask RedDesk (`resolve_version`) or
strategies (`resolve_runnable`) and datasets (`require_approved`) for permission
when they are created; every component appends to the audit chain and to
notifications inside its own transaction; runners and workers take their input
from stored objects and write results through `projection.py` or `runner.py`;
credentials and TOTP secrets are sealed under the same keys; a backup stops every
other service and copies both the database and the objects.

`PROJECT.json` lists every component with its status, and under `hazards` each of
the behaviours above at the line where it bites, with the properties that cover
it or a note.

## Modules and the code

| Module | Role |
|---|---|
| `TradingSessions` | one session: its row, the requests, the runner threads, the projection |
| `JobQueue` | abstract: the queue that those who submit and cancel are promised |
| `BacktestJobs` | the queue: job and run rows, requests, processes, workers, both databases; implements `JobQueue` on PostgreSQL with one process |
| `AuditLog` | abstract: an append-only log with atomic transactions |
| `AuditChain` | the hash chain, its locks and its verification; implements `AuditLog` |
| `RedDesk` | one listing and one buyer's licences |
| `Research` | dataset versions, a strategy version, and the runs that use both |
| `DatasetImport` | the algorithms an import applies to one file |
| `Accounts` | one account: password, second factor, sessions, reset tokens |
| `Brokers` | one broker connection, its token, the sealing keys and their rotation |
| `Recovery` | the backup script, its lock, bundles and repository |
| `MC...` | finite instances for TLC |
| `...Proofs` | theorems about the module of that name; `DatasetProofs` is about `Research` and `DatasetImport` |

In all of them a request or thread has a place (`pc`, `client`, `request`, `run`)
and a record of what its current transaction has read; an action is one
transaction, or the read or write half of one that decides on what it read.
Nothing can change a row between the first UPDATE of a transaction and its
commit, so the write half and the commit are one step. An assignment that leaves
a loaded column as it was is not part of the UPDATE the ORM sends, and is
modelled so (`FinalStatus`, `Assign`, `WriteListing`, `WriteOffers`, `Changed`).

**TradingSessions.** `status` and `killed` are the row. `Start`, `Pause`,
`ResumeCommit` and `RequestStop` are `_transition` (`trading/sessions.py:271`),
one conditional UPDATE; `ResumeCheck` is the read of the kill-switch flag before
it; `EngageKillSwitch` writes unconditionally. `Launch` is
`SessionRunner.launch` after the request's commit: it declines while a thread
for the session is alive. A runner goes `load` → `claim` → (`check` → `advance`
→ `project`?)* → `finish` → `write` → `exit`; `except` is the handler around
it. The engine is deterministic in (dataset, parameters, seed), so its book is a
function of the number of records processed: the constants `SubmitAt` and
`FillAt` say at which record an order is submitted and filled, `Records + 1`
being the close of the final slice, which happens only when the data ran out. A
projection upserts orders, appends missing fills and replaces positions.
`claims`, `overrun` and `lost` are history variables. One session is enough:
sessions share only the runner table, which is keyed by session.

**BacktestJobs.** A job is identified by its idempotency key, which the unique
constraint makes sound. `RowLocks` is TRUE on PostgreSQL (`SKIP LOCKED`), FALSE
on SQLite. `RequeueRead`/`RequeueWrite` are `requeue_orphans` at the start of a
process, `ClaimRead`/`ClaimWrite` are `claim_next`, `Load` … `Settle` are
`process_one`, `RunRefused` the unique constraint on `backtest_runs.job_id`,
`TransactionFails` any other error. `lost` is a history variable. `Queue` maps the
tables to `JobQueue`: the status and the attempts are as users see them, a
cancellation is asked for when `cancel_requested_at` is written, and the result is
there when the run row is. A cancellation is inexact in `JobQueue` too: it may be
written over a status it did not see, and what was under way may be written over it.

**AuditChain.** A transaction (`Writers`) may insert rows that refer to the
organization (a KEY SHARE lock on PostgreSQL, the write lock on SQLite), then
record events: lock the organization, read the head, insert, and at last commit
or roll back. SHA-256 is taken to be injective in what it covers: the hash of an
event is the sequence of what was hashed up to it. `Breaks` is `verify_chain`.

**RedDesk.** Every endpoint is a read step and a write step (`refund` has three:
the purchase, the licence, the writes). `VALIDATING` is never committed and the
text of a listing is never edited, so validity is a matter of what is offered.
The manual provider settles at once, so a purchase is PAID or REFUNDED.
`resolve_version` changes nothing: `MayRefuse` says when the row it takes first
can be one that is not live. `refund`, `expire_due` and `record_payout` are
called by no route yet; the first two are modelled because tests and docs
treat them as operations of the system.

**Research.** Three components composed along the path data takes. An import is
`BeginImport` (checks and `_next_version`), `WriteFile` (a temporary file
renamed over the key), `InsertVersion` (the row, under the unique constraint); a
crash may come between any two. `Preview` binds what the user saw to what they
may confirm (`preview_identity`). A review (`ReadApprove`/`Approve`,
`ReadReject`/`RejectVersion`), an edit, a publication and a submission each
decide on a row they read earlier. `Load` and `Compute` are the two passes over
the canonical file, which may be altered (`Alter`) at any moment, between them
too. A content stands for the bytes, the rows and their SHA-256; `reviewed` is a
history variable. A backtest verifies the strategy's hash before it runs
(`Intact`); a session does not look (`trading/runner.py:99`), so
`BacktestRanRecorded` is about backtests.

**DatasetImport.** The pure part of an import, read line by line: date order from
a sample of the lines that have a time (`Format`), what a declaration may say (`Valid`), one iteration
of the loop of `clean()` (`ReadLine`: unusable, duplicate, out of order or
accepted), then spacing, offset changes, confirmation and the move to interval
ends (`Canonicalize`), and the quality score. `truth` is what the file means: the
importer never reads it except through what the lines show, and the properties
compare its conclusions with it. Labels are the clock of the file's zone, whose
offset changes once; `Instants` is therefore empty or has two members around the
change.

**Accounts.** The user's row with the columns requests write; a request knows the
row as it read it and writes what it changed (`Changed`). `Matches` is the WHERE
clause with which `verify_challenge` spends a factor. A reset is three steps:
the read, the conditional claim of the token together with the look at the live
sessions, and the commit, between which the user's row is locked. A session's
`after` is how many resets had looked before it was on record. `stamp` numbers
secrets and lists of codes, so that a reused one would be recognised.

**Brokers.** The row, the key a credential is sealed under, the keys of the
deployment, and the venue (external: what `brokers/zerodha.py` expects of it).
`NewKey`, `WriteRotation` and `DropRetired` are the rotation docs/DEPLOYMENT.md
describes, carried out to the letter. A refused authorization is a rollback
(`Refused`): the ERROR state and the attempt it had assigned go with it.
Time is in half hours of UTC, which divide both 5:30 and 06:00. `TOTP` secrets
are in the model only by the key they are sealed under.

**Recovery.** Each invocation holds the `flock` and goes `stop` → `check` → `dump`
→ `copy` → `again` → `seal` → `resume` → `verify` → `upload` → `exists` →
`forget` → `remains`; any command may fail, and a kill may come anywhere and takes
the command being run with it. `Verify` (`_verify_bundle`) and `Upload` (`restic
backup`) read the bundle separately and nothing protects it in between, so
`Damage` may come at any time after the digests were taken. Docker, pg_dump
and Restic are external, as the script uses them: a graceful stop may stop some
services and fail; Restic may report an error for a snapshot that is there. The
application and a client outside Compose write a file, then its row. A digest
stands for what it was computed from. Two history variables serve the properties
and guard nothing: `spoiled`, the bundles damaged between `Verify` and the end of
`Upload`, and `replaced`, those whose last snapshot retention dropped while two
younger ones stayed.

## The runs

Every passing run explores its whole state space. Deadlock checking is off where
a system may legitimately come to rest: `JobsRaces` (bounded jobs, cancellations
and crashes are used up), `ResearchRuns` and `Recoveries` (the same with uploads,
runs and captures), `Imports` (a file ends imported or failed).

| Run | Question | Bounds | States |
|---|---|---|---|
| `SessionsRaces` | Do requests and runners of two processes keep one claim, an owner of RUNNING, and at most one more record after a stop? | 2 processes, 2 concurrent requests, 2 records, 2 orders, a strategy that raises on the second record, 2 accepted starts, 1 fault | 1.0 M |
| `SessionsCrashes` | Do the tables follow the engine, also through faults and a crash, and is a stop of a session being processed carried out? | 1 process, 3 records, interval 2, a fill between two interval writes and one at the close, 3 starts, 2 faults, 1 crash, fair | 177 k |
| `JobsRaces` | One worker per job, no RUNNING job without a worker, the queue of `JobQueue`, and does every job end? | PostgreSQL, 1 process, 2 workers, 1 job, 2 requests, 2 attempts, 2 cancellations, 1 fault, 2 crashes, fair | 89 k |
| `AuditRaces` | Does the chain verify, show damage, never deadlock, implement the log? | 2 transactions, 2 bodies, 3 events, both databases | 191 k |
| `Licences` | Do refunds, advances and expiry racing each other leave licences right? | 2 requests, 2 versions, 2 purchases, 1 term, both policies, with and without a term | 1.2 M |
| `ResearchRuns` | Is what was computed on reviewed, and is it what was recorded, through overlapping imports, reviews, edits and a file that changes under the reader? | 2 requests, 2 versions, a dense and a sparse content, 2 behaviours, 1 run, 1 alteration, 1 crash | 1.5 M |
| `Imports` | Are lines accounted for and bars never early, whatever is in the file? | every file of 3 lines of 2 instruments and 4 labels, some without a time or a price, 2 bar intervals, an offset change, 3 policies, 20 declarations, 8 meanings in both orders of day and month and in ISO | 4.9 M |
| `AccountRaces` | Are tokens and factors used once, and does a reset sign out? | 2 requests, 2 time steps, 3 secrets or lists, 2 sessions, 2 tokens | 3.3 M |
| `Brokers` | Does the documented key rotation strand a credential, and does a disconnect forget one? | 2 requests, 2 tokens, 2 keys, 2 attempts, 4 moments over two mornings | 1.9 M |
| `Recoveries` | Does every snapshot restore or show that it was damaged, does a bundle leave staging only for the repository, does the application come back? | 2 invocations, 1 service, 1 object, 2 captures, 3 snapshots, 1 kill or damaged bundle | 0.9 M |

Why these bounds are enough to be interesting: two concurrent requests or two
threads are what each race needs; two records give a session a first, a middle
and a last position; an interval of 2 over 3 records has a fill no interval write
would catch; two attempts with two crashes reach the attempt limit and the job
that must fail at start-up; three events give the chain a first, an inner and a
last row; two versions and two licences let an advance and a refund meet on one
licence while the other stands; two dataset versions can take one number; three
lines of two instruments hold a duplicate, a line out of order, and a bar of
another length; three snapshots exceed the two that retention always keeps; the
moments of `Brokers` are 05:30 and 06:00 IST, midnight IST and the next 06:00.
`JobsRaces` has one job and one process: the safety of many jobs is proved, and
what several processes do is told under the disagreements. `RunRefused`, the
branch of `Settle` in which a second run of a job is refused, needs SQLite or two
processes and so is not taken in it. `Licences` has no idempotency keys: a key
only matters to `OnePurchasePerKey`. All constants called `Max...` but
`MaxAttempts` bound the model and correspond to nothing in the code; the theorems
hold for all their values.

The type invariants hold as theorems and, save that of `TradingSessions`, are in
no run.

Each property of a passing run has a mutant in `PROJECT.json`: an operator in the
module that changes one mapped definition the way a plausible bug would (no
lock, an unchecked transition, an off-by-one in the attempts, a forgotten
revocation, a WHERE clause without one of its conditions), and that makes TLC
report the property violated.

What the properties say:

- `ClaimedOnce`, `RunningHasRunner`, `AtMostOneMoreRecord`: the runner is
  exclusive per start; RUNNING means somebody will write how it ends; "the session
  halts after the current record" is literally true.
- `EveryFillProjected`, `TablesAgree`: the rows a user reads agree with the engine
  while the session runs and when it is over, including orders that fill at the
  close of the final slice. `StopOfRunningCompletes`: a stop that reaches a
  runner is carried out.
- `ExclusiveWorker`, `RunningHasWorker`, `AttemptsBounded`, `CompletedHasRun`,
  `EveryJobEnds`: the contract of the queue. `ImplementsQueue`: every step of the
  tables is one the users are promised; a job is queued once, never run again after
  its result, and final unless its cancellation was asked for.
- `ChainVerifies`, `NoLockCycle`, `DamageShows`, `ImplementsLog`: the contract of
  the chain. `NoLockCycle` is stated locally (whoever is waited for waits for
  nobody), which excludes a cycle of any length.
- `RefundRevokes`, `VersionMovesOnRequest`, `EndedStaysEnded`: the contract of a
  licence.
- `VersionsComplete`: versions are numbered without gap or duplicate and have
  their rows on disk. `OnlyReviewed`, `RanAsRecorded`: the provenance of a result.
- `Accounted`, `KeptAsDeclared`: "nothing is dropped without a record", and the
  rows kept are those the policy describes, as a specification over the whole
  file. `DatesNeverSwapped`, `NoLookahead`: a date is never read in the other
  order, and no bar is stamped before its interval is over unless the user vouched
  for that instrument. `ScoreTellsBuildable`: overlapping penalties never reach 0.
- `ResetOnce`, `OneKeyUnlessOverlapping`, `ResetSignsOut`, `FactorOnce`,
  `FactorIsCurrent`: one use each, for the account as it is at the commit. They
  name the overlaps in which the code promises less.
- `CredentialOpens`, `ExpiryAgrees`, `DisconnectForgets`: a stored credential can
  be used or is known to be dead, and forgetting it is not best effort.
- `SnapshotsRestorable`: a snapshot can be restored; the only one that cannot was
  damaged between the script's check and Restic's reading, and it does not verify.
  `NothingLost`: a bundle leaves staging only once it is in the repository, and
  the repository only while two younger ones stay. `StoppedIsResumed`,
  `WindowEnds`: a backup lets go of the application.

## Where the code and its documentation disagree

Two runs end in a violation, each of one property quoted from a comment or doc;
`PROJECT.json` quotes the line.

| Run | Property | What happens |
|---|---|---|
| `KillOverwritten` | `HaltedIsTerminal` | a kill that commits between the runner's last read and its first UPDATE is overwritten with STOPPED |
| `StrandedSecrets` | `SecretsOpen` | `rotate-credentials` re-seals broker credentials alone and reports clean; users' TOTP secrets are sealed under the same keys and cannot be opened once the retired key is removed, as docs/DEPLOYMENT.md:29 says to do |

The modules also state properties that TLC refutes and no listed run repeats. To
see one, put it alone in a `.cfg` of its module.

- Sessions: a runner that has not noticed a pause works beside the one another
  process started after the resume (`ExclusiveRunner`), and takes STARTING for a
  stop, writing STOPPED over the accepted resume (`QueuedIsNotStopped`); a session
  that ended can become HALTED (`StoppedOrFailedIsTerminal`); a stop is undone by a
  runner that ends as PAUSED (`StopIsNotUndone`); a stop of a session nobody runs
  waits for ever (`StopCompletes`); a resume declined by `launch`, because the old
  thread has not quite ended, is never taken up (`StartingIsTakenUp`); a resumed
  session replays from the start, so order rows and fills of the two runs disagree
  for a while (`FilledOrderReadsFilled`). A session whose process crashed stays
  RUNNING: nothing looks at sessions at start-up (docs/DEPLOYMENT.md:100, :332).
- Jobs: on SQLite two workers claim one job (`ExclusiveWorker` with `RowLocks`
  FALSE). With two processes, which `deploy/entrypoint.sh:36` allows, a start
  requeues a job another process is running (`LiveJobIsNotRequeued`). A
  cancellation can come after the worker's last look (`CancelIsHonoured`), and one
  that decided on QUEUED can turn a completed job into CANCELLED with its run
  still stored (`CancelledStoresNothing`; `worker.py:138`).
- Audit: removing the newest event leaves a shorter chain that verifies, while
  `audit.py:36` says that a deleted event is detected. `DamageShows` is therefore
  about every row but the newest.
- RedDesk: a live licence beside a revoked one for the same version may be refused
  (`LicenceResolves`); two requests with one idempotency key both buy
  (`OnePurchasePerKey`; docs/PAYMENTS.md:55); a withdrawn listing returns when a
  submit, review or publish read its earlier status (`WithdrawnStays`); two offers
  made current at once leave two current versions (`OneCurrent`).
- Research: an edit that read the draft commits after the publication, so a
  published version's behaviour changes (`PublishedNeverChanges`); the worker's
  check of the hash then refuses the backtest, a session does not look. An approval
  that read a version pending commits after its rejection (`RejectedStays`).
- Accounts: a login that rehashes an outdated hash restores the password a reset
  just replaced (`PasswordStays`); an enrolment begun beside a confirmation enables
  a secret nobody proved, and a second confirmation lets a time step serve again
  (`ProvedAndSpent`). A switch of workspace that commits after a reset looked for
  sessions leaves a live one: `ResetSignsOut` excepts it.
- Brokers: a rotation writes back the credential it read before a disconnect
  removed it, or over a newer one (`RevokedHoldsNothing`, `ConnectedIsAlive`). A
  refused authorization rolls back its ERROR state, its count of the attempt and
  its audit event; a `begin` over a connected account makes the next disconnect
  skip the venue's logout; `rotate-credentials --dry-run` reports complete like a
  real rotation.
- Recovery: a bundle damaged after `_verify_bundle` read it and before Restic has
  is stored all the same (`UploadedAsVerified`; `backup_recovery.py:1126`, :1127),
  and removed from staging afterwards. Such a snapshot fails `--verify-bundle`.

Seen while reading, not modelled: starting or resuming a session does not ask
again for the licence that creating it required; two concurrent refunds call the
provider twice; a payout misses a purchase that commits after it was totalled; a
version newly offered on a published listing is on sale without review; the
quality report does not show the lines a KEEP_LAST policy superseded, and a late
duplicate that is also out of order loses both bars (`KeptAsDeclared` says so);
the audit event of a refused URL import is rolled back with it; the rate
limiter's sweep compares the window number of the policy being hit with those of
policies of other lengths, and so may forget a counter whose window is not over
(`platform/ratelimit.py:178`); of an acceptance and a revocation of one
invitation that overlap, both commit (`platform/invitations.py:181`).

## Fairness

Safety runs assume none. `TradingSessions!Fairness` is weak fairness of a runner's
steps (a live daemon thread is scheduled, every step of it is finite), of the call
to `launch` that follows a committed request, and of a resume that has read the
row. `BacktestJobs!Fairness` is weak fairness of a worker's steps (the pool polls
for ever, the engine ends on a finite dataset) and of a process's start
(`docker-compose.yml` restarts it). `Recovery!Fairness` is weak fairness of each
invocation's next command: the script waits for nobody but the commands it runs,
which are taken to end. No request, fault, crash or repair is fair: nobody has to
press a button. Crashes are bounded, so a process is up for good in the end; a job
whose workers keep dying is failed by the start that follows its last attempt.

## What is proved

All proofs are checked by TLAPS and hold for any number of processes, requests,
workers, records, orders, transactions, events, versions, tokens, keys, faults and
crashes, and for files of any number of lines and instruments. They assume only the named ASSUMEs of the modules (ranges of the
constants), and where stated `SingleProcess` (`\A p, q \in Processes : p = q`) and
`RowLocks`.

| Theorem | Property | Assumes | The strengthening it rests on |
|---|---|---|---|
| `TypeCorrect` | `TypeOK` | – | a runner advances only while a record is left |
| `OneClaim` | `ClaimedOnce` | – | a CREATED or STARTING session has no claim since its last resume |
| `OneMoreRecordAtMost` | `AtMostOneMoreRecord` | – | a runner about to advance has no overrun yet: it saw RUNNING, and a claim resets every count |
| `RunningIsRun` | `RunningHasRunner` | – | the answering runner's last write will change the row: it did not load HALTED or its own outcome |
| `FillsAreProjected` | `EveryFillProjected` | – | `fillsSeen` is the engine's count at every step but the last ones |
| `FirstRunAgrees` | `FirstRunOrdersAgree` | – | until the second accepted start there is one runner at most, and the fills of the table are its engine's |
| `TablesAlwaysAgree` | `TablesAgree` | one process | `FullInv`: a session that reads STOPPED has no runner left that could project, and a runner at its last record closed the final slice or failed |
| `JobsTypeCorrect` | `TypeOK` | – | a worker that is not idle has a job |
| `CompletedJobsHaveRuns` | `CompletedHasRun` | – | the one transaction that writes COMPLETED writes the run |
| `AttemptsAreBounded` | `AttemptsBounded` | one process | a queued job has an attempt left, a claim read one that had, an orphan's attempts are as read |
| `OneWorkerPerJob` | `ExclusiveWorker` | one process, locks | from the claim's read to the last commit a worker is alone; what it claims is still QUEUED, what it works on never is |
| `RunningJobsHaveWorkers` | `RunningHasWorker` | one process, locks | only a cancellation ends a job under its worker; what a start takes for an orphan is one |
| `EndedJobsStay` | `TerminalIsFinal` | one process, locks | the same |
| `JobsImplementQueue` | `ImplementsQueue` | one process, locks | `QueueInv`: a job with a run is COMPLETED or CANCELLED; what a worker works on, or a start took for an orphan, has no run and is RUNNING or CANCELLED; what a claim or a settle has read still holds where it relies on it. A settle is `End`, a start after a crash is `Return` of its orphans, reads are stutters |
| `AuditTypeCorrect`, `ChainAlwaysVerifies` | `TypeOK`, `ChainVerifies` | – | `IInv`: committed rows, and committed rows with any transaction's own, form a chain; only the lock's holder has own rows; a head that was read is a row of the chain, the last one if the lock is held |
| `LockedHeadIsCurrent` | `HeadIsCurrent` | – | the same |
| `NeverDeadlocked` | `NoLockCycle` | – | the same |
| `DamageAlwaysShows` | `DamageShows` | – | a lemma on chains: altering row i breaks row i, removing it breaks its successor |
| `ChainImplementsLog` | `ImplementsLog` | – | an insert is `Record`, an end is `Commit` or `Rollback`, every other step a stutter, under the map of rows to bodies |
| `RedDeskTypeCorrect`, `EndedLicencesStayEnded` | `TypeOK`, `EndedStaysEnded` | – | what a request remembers names rows that exist |
| `RefundedIsRevoked`, `WhatIsSoldIsFrozen`, `VersionsMoveOnRequest` | `RefundRevokes`, `SoldIsFrozen`, `VersionMovesOnRequest` | – | `SafeInv`: whatever is offered, or will be offered, sold or advanced to by a request in progress, is frozen; a licence a refund read as ended has ended |
| `ResearchTypeCorrect`, `VersionsAreComplete` | `TypeOK`, `VersionsComplete` | – | `StoreInv`: an import in progress has the next number or one that is taken by now, its file is there from the moment it has written it, and no two are of one version |
| `RunsAreReviewed`, `RunsAreAsRecorded` | `OnlyReviewed`, `RanAsRecorded` | – | `RunInv`: what was submitted is reviewed and published, an executing backtest holds the behaviour of its hash; and `Kept`: the content of a stored version never changes |
| `ConfirmationsArePreviewed` | `ConfirmedAsPreviewed` | – | the preview held is the identity of what was seen; no step but `BeginImport` starts an import |
| `ImportTypeCorrect`, `EveryLineAccounted`, `RowsKeptAsDeclared` | `ImportTypeOK`, `Accounted`, `KeptAsDeclared` | – | `LoopInv`, the invariant of the loop of `clean()`: each row is of a line read and of its key, the last time of an instrument is the latest read, and each line read is a row, rejected or superseded |
| `DatesAsWritten` | `DatesNeverSwapped` | – | `FormatKnown`: no line is read before the sample shows one order or the user declares it; a lemma on what a date over twelve says |
| `NoBarBeforeItsEnd` | `NoLookahead` | – | `TextFits`: two labels of one instrument are equal or at least its true interval apart; so an interval the bars show (`ShownInterval`) is no shorter than the true one |
| `ScoreOfBuildable` | `ScoreTellsBuildable` | – | `FewRejected`: no more lines are rejected than were read; lemmas: gaps are fewer than rows, the rejections of different reasons are disjoint, so the weighted shares stay below 100 |
| `AccountsTypeCorrect`, `FactorsServeOnce`, `FactorsAreCurrent`, `PasswordsMoveByReset` | `TypeOK`, `FactorOnce`, `FactorIsCurrent`, `PasswordMovesByReset` | – | `UserInv`: every secret, list and confirmation is at most `stamp`, a request holds a factor the row it read admits, and lists with a code in common are of one secret |
| `TokensResetOnce`, `KeysOverlapOnly`, `ResetsSignOut` | `ResetOnce`, `OneKeyUnlessOverlapping`, `ResetSignsOut` | – | `RowsInv`: one reset at a time holds a claim, the token it holds is unused, and every session it has not seen is younger |
| `BrokersTypeCorrect`, `ExpiryIsTheVenues`, `DisconnectForgetsIt`, `TokenMoves` | `TypeOK`, `ExpiryAgrees`, `DisconnectForgets`, `TokenMovesOnRequest` | – | `TypeInv`, with arithmetic on 06:00 IST as lemmas |
| `CredentialsOpen` | `CredentialOpens` | – | `KeysInv`: while the report is clean the row is under the current key; a rotation in progress can open what it read, and the row is still that or already under the current key |
| `RecoveryTypeCorrect`, `WhatIsStoppedIsResumed` | `TypeOK`, `StoppedIsResumed` | – | `Serving`: the holder of the lock knows what it stopped, and has started it when it uploads |
| `SnapshotsAreRestorable` | `SnapshotsRestorable` | – | `Consistent`: between the dump and the copy the rows of the dump have their files on the volume; digests were taken of a dump with its files; a bundle about to be uploaded verifies or is spoiled |
| `NothingIsLost` | `NothingLost` | – | `Kept`: an invocation that stored a snapshot finds the repository with one, and looks for its own there before a bundle goes; a lemma on retention: whatever leaves the repository leaves it to two younger ones |

`SingleProcess` and `RowLocks` cannot be dropped: without locks TLC refutes
`ExclusiveWorker`, and two processes refute it through `requeue_orphans`; two
processes refute `CompletedIsFullyProjected`: a runner that has not noticed a pause
writes STOPPED beside the unfinished projection of the one that took over. No module
with a theorem uses a RECURSIVE operator.

Only model-checked: the liveness properties `EveryJobEnds`,
`StopOfRunningCompletes` and `WindowEnds`, since TLAPS has no support for fairness
and ENABLED. Every other property of a passing run is a theorem.

## What is not modelled

- The engine's arithmetic, risk checks and order types: a separate package.
- Text: parsing, formatting, hashing of documents, HTTP, logging, notifications'
  wording; the API's shapes and the web client.
- `sessions.create`, where permission is checked; several sessions, organizations,
  listings, datasets or accounts at once: their rows are disjoint, and the audit
  chain is per organization.
- Invitations and the rate limiter: each is one row or one counter under forms the
  other modules show; what was seen of them is told above.
- `ZerodhaAdapter`: requests to another company's API, constructed by tests alone.
- A restore, which docs/BACKUP_RECOVERY.md describes as a manual procedure.
- Anything marked `not_modelled` in `PROJECT.json`, with its reason there.

## Plan

1. *(done)* `TradingSessions`, `BacktestJobs`, `AuditChain` over `AuditLog`,
   `RedDesk`, `Research`, `DatasetImport`, `Accounts`, `Brokers`, `Recovery`, and the
   proofs of all; `JobQueue`, which `BacktestJobs` implements.
2. `Licensing`: `TradingSessions` and `BacktestJobs` composed with `RedDesk` at
   `create`, `start` and `resume`. Abstract specification: an organization runs only
   what it may run.
3. `RateLimiter`: windows and the sweep, against a counter per identity and window.
