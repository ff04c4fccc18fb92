---------------------------- MODULE BacktestJobs ----------------------------
(***************************************************************************)
(* The backtest queue: rows of backtest_jobs and backtest_runs, the API    *)
(* requests that submit and cancel jobs (backtests/service.py), and the    *)
(* worker threads that claim and execute them (backtests/worker.py), in    *)
(* one or several API processes on PostgreSQL or SQLite.                   *)
(*                                                                         *)
(* A job is identified by its idempotency key: the unique constraint on    *)
(* (organization_id, idempotency_key) lets a key have one row at most.     *)
(*                                                                         *)
(* A transaction that decides on what it read is two steps, the read and   *)
(* the write that commits; no row changes between a transaction's first    *)
(* write and its commit.  An assignment that changes no loaded value is    *)
(* not in the UPDATE.                                                      *)
(***************************************************************************)
EXTENDS Integers, FiniteSets

CONSTANTS
    Jobs,           \* idempotency keys
    Clients,        \* requests being served at the same time
    Processes,      \* API processes, each with a BacktestWorkerPool
    Workers,        \* worker threads
    Host,           \* the process a worker belongs to
    NoJob,          \* a worker that never had a job
    RowLocks,       \* SELECT ... FOR UPDATE SKIP LOCKED: TRUE on PostgreSQL only
    MaxAttempts,    \* backtest_max_attempts
    MaxCancels,     \* bound on cancel requests
    MaxFaults,      \* bound on transactions that fail
    MaxCrashes      \* bound on process crashes

ASSUME JobsAssumption ==
    /\ IsFiniteSet(Jobs)
    /\ NoJob \notin Jobs
    /\ Host \in [Workers -> Processes]
    /\ RowLocks \in BOOLEAN
    /\ MaxAttempts \in Nat \ {0}
    /\ MaxCancels \in Nat
    /\ MaxFaults \in Nat
    /\ MaxCrashes \in Nat

VARIABLES
    status,       \* BacktestJob.status; "NONE" while the row does not exist
    attempts,     \* BacktestJob.attempts
    cancelAsked,  \* BacktestJob.cancel_requested_at is set
    queuedAt,     \* BacktestJob.queued_at
    hasRun,       \* a BacktestRun with this job_id exists
    request,      \* what each request is doing, with the status it read
    up,           \* the process is running and its pool has started
    orphans,      \* requeue_orphans: the RUNNING jobs it read, with their attempts
    pc,           \* where each worker is
    job,          \* the job it is working on
    seen,         \* what its current transaction read of that job
    outcome,      \* what it will record
    lost,         \* history: RUNNING jobs whose worker died or gave up silently
    cancels, faults, crashes

rowVars    == <<status, attempts, cancelAsked, queuedAt, hasRun>>
workerVars == <<pc, job, seen, outcome>>
boundVars  == <<cancels, faults, crashes>>
vars == <<status, attempts, cancelAsked, queuedAt, hasRun, request, up, orphans,
          pc, job, seen, outcome, lost, cancels, faults, crashes>>
-----------------------------------------------------------------------------
JobStatus == {"QUEUED", "RUNNING", "COMPLETED", "FAILED", "CANCELLED"}

(* JobStatus.is_terminal. *)
Terminal == {"COMPLETED", "FAILED", "CANCELLED"}

WorkerPc == {"idle", "claim", "load", "engine", "settle", "write"}

(* A worker has a job from the commit of the claim to its last commit. *)
Working == {"load", "engine", "settle", "write"}

Executing(w, k) == pc[w] \in Working /\ job[w] = k

(* What a transaction reads of a job row. *)
RowOf(k) == [status |-> status[k], attempts |-> attempts[k], cancel |-> cancelAsked[k]]

Exists == {k \in Jobs : status[k] # "NONE"}

Idle == [pc |-> "idle"]
Requests == {Idle} \cup [pc : {"submit"}, job : Jobs]
                   \cup [pc : {"cancel"}, job : Jobs, read : JobStatus]

(* Rows a claim has locked and not yet committed; none in the mutant. *)
NoLocks == {}
LockedRows == IF RowLocks THEN {job[w] : w \in {v \in Workers : pc[v] = "claim"}} ELSE {}

(* No job, no process: the first start of each process is a Start too. *)
Init ==
    /\ status = [k \in Jobs |-> "NONE"]
    /\ attempts = [k \in Jobs |-> 0]
    /\ cancelAsked = [k \in Jobs |-> FALSE]
    /\ queuedAt = [k \in Jobs |-> 0]
    /\ hasRun = [k \in Jobs |-> FALSE]
    /\ request = [c \in Clients |-> Idle]
    /\ up = [p \in Processes |-> "down"]
    /\ orphans = [p \in Processes |-> [k \in {} |-> 0]]
    /\ pc = [w \in Workers |-> "idle"]
    /\ job = [w \in Workers |-> NoJob]
    /\ seen = [w \in Workers |-> [status |-> "NONE", attempts |-> 0, cancel |-> FALSE]]
    /\ outcome = [w \in Workers |-> "done"]
    /\ lost = {}
    /\ cancels = 0
    /\ faults = 0
    /\ crashes = 0
-----------------------------------------------------------------------------
(***************************************************************************)
(* Requests.                                                               *)
(***************************************************************************)

(* submit: the lookup on the key finds nothing and the request goes on to  *)
(* validate and insert; a key that is found is answered with its job.      *)
SubmitLookup(c, k) ==
    /\ request[c] = Idle
    /\ status[k] = "NONE"
    /\ request' = [request EXCEPT ![c] = [pc |-> "submit", job |-> k]]
    /\ UNCHANGED <<rowVars, up, orphans, workerVars, lost, boundVars>>

QueueRow(k) ==
    /\ status' = [status EXCEPT ![k] = "QUEUED"]
    /\ queuedAt' = [queuedAt EXCEPT ![k] = Cardinality(Exists)]

(* The INSERT; on an IntegrityError the request is answered with the job   *)
(* the other one created.  The mutant overwrites it.                       *)
InsertOrReplace(k) == QueueRow(k)
InsertOnce(k) == IF status[k] = "NONE" THEN QueueRow(k) ELSE UNCHANGED <<status, queuedAt>>
Insert(k) == InsertOnce(k)

SubmitInsert(c) ==
    /\ request[c].pc = "submit"
    /\ Insert(request[c].job)
    /\ request' = [request EXCEPT ![c] = Idle]
    /\ UNCHANGED <<attempts, cancelAsked, hasRun, up, orphans, workerVars, lost, boundVars>>

(* cancel loads the job and refuses a terminal one ... *)
CancelRead(c, k) ==
    /\ cancels < MaxCancels
    /\ request[c] = Idle
    /\ status[k] \in JobStatus \ Terminal
    /\ request' = [request EXCEPT ![c] = [pc |-> "cancel", job |-> k, read |-> status[k]]]
    /\ cancels' = cancels + 1
    /\ UNCHANGED <<rowVars, up, orphans, workerVars, lost, faults, crashes>>

(* ... and asks for the cancellation, or cancels it outright if it was     *)
(* QUEUED when it was loaded.                                              *)
CancelWrite(c) ==
    /\ request[c].pc = "cancel"
    /\ LET k == request[c].job IN
       /\ k \notin LockedRows
       /\ cancelAsked' = [cancelAsked EXCEPT ![k] = TRUE]
       /\ status' = [status EXCEPT ![k] = IF request[c].read = "QUEUED" THEN "CANCELLED" ELSE @]
    /\ request' = [request EXCEPT ![c] = Idle]
    /\ UNCHANGED <<attempts, queuedAt, hasRun, up, orphans, workerVars, lost, boundVars>>
-----------------------------------------------------------------------------
(***************************************************************************)
(* A process: BacktestWorkerPool.start runs requeue_orphans, then starts   *)
(* the workers.                                                            *)
(***************************************************************************)
Running == {k \in Jobs : status[k] = "RUNNING"}

RequeueRead(p) ==
    /\ up[p] = "down"
    /\ up' = [up EXCEPT ![p] = "starting"]
    /\ orphans' = [orphans EXCEPT ![p] = [k \in Running |-> attempts[k]]]
    /\ UNCHANGED <<rowVars, request, workerVars, lost, boundVars>>

(* The attempt budget; the mutant is off by one. *)
OneMoreAttempt(n) == n <= MaxAttempts
AttemptsLeft(n) == n < MaxAttempts

(* What an orphan becomes.  The mutant leaves one without attempts as it   *)
(* was.                                                                    *)
RequeuedOrLeft(n) == IF AttemptsLeft(n) THEN "QUEUED" ELSE "RUNNING"
RequeuedAs(n) == IF AttemptsLeft(n) THEN "QUEUED" ELSE "FAILED"

RequeueWrite(p) ==
    /\ up[p] = "starting"
    /\ LET found == DOMAIN orphans[p] IN
       /\ found \cap LockedRows = {}
       /\ status' = [k \in Jobs |-> IF k \in found THEN RequeuedAs(orphans[p][k])
                                    ELSE status[k]]
       /\ lost' = lost \ found
    /\ up' = [up EXCEPT ![p] = "up"]
    /\ orphans' = [orphans EXCEPT ![p] = [k \in {} |-> 0]]
    /\ UNCHANGED <<attempts, cancelAsked, queuedAt, hasRun, request, workerVars, boundVars>>

(* A process dies with its threads and is started again. *)
Crash(p) ==
    /\ crashes < MaxCrashes
    /\ up[p] # "down"
    /\ crashes' = crashes + 1
    /\ up' = [up EXCEPT ![p] = "down"]
    /\ orphans' = [orphans EXCEPT ![p] = [k \in {} |-> 0]]
    /\ lost' = lost \cup {job[w] : w \in {v \in Workers : Host[v] = p /\ pc[v] \in Working}}
    /\ pc' = [w \in Workers |-> IF Host[w] = p THEN "idle" ELSE pc[w]]
    /\ UNCHANGED <<rowVars, request, job, seen, outcome, cancels, faults>>
-----------------------------------------------------------------------------
(***************************************************************************)
(* Workers: process_one.                                                   *)
(***************************************************************************)
Goto(w, to) == pc' = [pc EXCEPT ![w] = to]

(* Jobs a worker may claim: QUEUED, unless another claim holds the row.    *)
Claimable == {k \in Jobs : status[k] = "QUEUED"} \ LockedRows

(* claim_next selects the oldest one ... *)
ClaimRead(w) ==
    /\ up[Host[w]] = "up"
    /\ pc[w] = "idle"
    /\ \E k \in Claimable :
          /\ \A j \in Claimable : queuedAt[k] <= queuedAt[j]
          /\ job' = [job EXCEPT ![w] = k]
          /\ seen' = [seen EXCEPT ![w] = RowOf(k)]
    /\ Goto(w, "claim")
    /\ UNCHANGED <<rowVars, request, up, orphans, outcome, lost, boundVars>>

(* ... and marks it RUNNING ... *)
ClaimWrite(w) ==
    /\ pc[w] = "claim"
    /\ ~seen[w].cancel
    /\ status' = [status EXCEPT ![job[w]] = "RUNNING"]
    /\ attempts' = [attempts EXCEPT ![job[w]] = seen[w].attempts + 1]
    /\ Goto(w, "load")
    /\ UNCHANGED <<cancelAsked, queuedAt, hasRun, request, up, orphans, job, seen, outcome,
                   lost, boundVars>>

(* ... or CANCELLED if that was asked for. *)
ClaimCancelled(w) ==
    /\ pc[w] = "claim"
    /\ seen[w].cancel
    /\ status' = [status EXCEPT ![job[w]] = "CANCELLED"]
    /\ Goto(w, "idle")
    /\ UNCHANGED <<attempts, cancelAsked, queuedAt, hasRun, request, up, orphans, job, seen,
                   outcome, lost, boundVars>>

(* _execute_claimed loads what the run needs and whether it is cancelled;  *)
(* a refused dataset or strategy version is an error.                      *)
Load(w) ==
    /\ pc[w] = "load"
    /\ \/ /\ outcome' = [outcome EXCEPT ![w] = "error"]
          /\ Goto(w, "settle")
       \/ /\ cancelAsked[job[w]]
          /\ outcome' = [outcome EXCEPT ![w] = "cancelled"]
          /\ Goto(w, "settle")
       \/ /\ ~cancelAsked[job[w]]
          /\ outcome' = [outcome EXCEPT ![w] = "done"]
          /\ Goto(w, "engine")
    /\ UNCHANGED <<rowVars, request, up, orphans, job, seen, lost, boundVars>>

(* The engine run, outside any transaction: it ends or raises. *)
Execute(w) ==
    /\ pc[w] = "engine"
    /\ \E o \in {"done", "error"} : outcome' = [outcome EXCEPT ![w] = o]
    /\ Goto(w, "settle")
    /\ UNCHANGED <<rowVars, request, up, orphans, job, seen, lost, boundVars>>

(* The last transaction loads the job ... *)
SettleRead(w) ==
    /\ pc[w] = "settle"
    /\ seen' = [seen EXCEPT ![w] = RowOf(job[w])]
    /\ Goto(w, "write")
    /\ UNCHANGED <<rowVars, request, up, orphans, job, outcome, lost, boundVars>>

(* The loaded row, with a status assigned to it, is flushed. *)
Assign(w, s) == status' = [status EXCEPT ![job[w]] = IF seen[w].status = s THEN @ ELSE s]

(* Cancelled before the engine ran; the mutant leaves the row RUNNING.     *)
CancelledUnrecorded(w) == outcome[w] = "cancelled" /\ UNCHANGED <<status, hasRun>>
Cancelled(w) ==
    /\ outcome[w] = "cancelled"
    /\ IF seen[w].status \in Terminal THEN UNCHANGED status ELSE Assign(w, "CANCELLED")
    /\ UNCHANGED hasRun

Failed(w) ==
    /\ outcome[w] = "error"
    /\ IF seen[w].status \in Terminal THEN UNCHANGED status ELSE Assign(w, "FAILED")
    /\ UNCHANGED hasRun

(* A run cancelled meanwhile is thrown away. *)
Discard(w) == seen[w].cancel

(* The mutant of Discarded throws the run away and calls it a success. *)
DiscardedAsSuccess(w) ==
    outcome[w] = "done" /\ Discard(w) /\ Assign(w, "COMPLETED") /\ UNCHANGED hasRun
Discarded(w) ==
    /\ outcome[w] = "done"
    /\ Discard(w)
    /\ Assign(w, "CANCELLED")
    /\ UNCHANGED hasRun

Succeeded(w) ==
    /\ outcome[w] = "done"
    /\ ~Discard(w)
    /\ ~hasRun[job[w]]
    /\ hasRun' = [hasRun EXCEPT ![job[w]] = TRUE]
    /\ Assign(w, "COMPLETED")

(* ... and records how it went. *)
SettleWrite(w) ==
    /\ pc[w] = "write"
    /\ job[w] \notin LockedRows
    /\ Cancelled(w) \/ Failed(w) \/ Discarded(w) \/ Succeeded(w)
    /\ Goto(w, "idle")
    /\ UNCHANGED <<attempts, cancelAsked, queuedAt, request, up, orphans, job, seen, outcome,
                   lost, boundVars>>

(* A job that already has a run, because two workers executed it: only on  *)
(* SQLite, or where a second process requeued what the first was running.  *)
SecondRun(w) == outcome[w] = "done" /\ ~Discard(w) /\ hasRun[job[w]]

(* The run's INSERT is refused: its job_id is unique.  The exception       *)
(* handler records a failure instead.                                      *)
RunRefused(w) ==
    /\ pc[w] = "write"
    /\ SecondRun(w)
    /\ outcome' = [outcome EXCEPT ![w] = "error"]
    /\ Goto(w, "settle")
    /\ UNCHANGED <<rowVars, request, up, orphans, job, seen, lost, boundVars>>

Settle(w) ==
    /\ pc[w] = "write"
    /\ IF SecondRun(w) THEN RunRefused(w) ELSE SettleWrite(w)

(* A transaction fails and rolls back: a claim is forgotten, a result is   *)
(* recorded as a failure, and a failure is recorded nowhere.               *)
TransactionFails(w) ==
    /\ faults < MaxFaults
    /\ faults' = faults + 1
    /\ \/ /\ pc[w] = "claim"
          /\ Goto(w, "idle")
          /\ UNCHANGED <<outcome, lost>>
       \/ /\ pc[w] \in {"settle", "write"} /\ outcome[w] # "error"
          /\ outcome' = [outcome EXCEPT ![w] = "error"]
          /\ Goto(w, "settle")
          /\ UNCHANGED lost
       \/ /\ pc[w] \in {"settle", "write"} /\ outcome[w] = "error"
          /\ lost' = lost \cup {job[w]}
          /\ Goto(w, "idle")
          /\ UNCHANGED outcome
    /\ UNCHANGED <<rowVars, request, up, orphans, job, seen, cancels, crashes>>
-----------------------------------------------------------------------------
Request(c) == \/ \E k \in Jobs : SubmitLookup(c, k) \/ CancelRead(c, k)
              \/ SubmitInsert(c) \/ CancelWrite(c)

ProcessStep(p) == RequeueRead(p) \/ RequeueWrite(p)

WorkerStep(w) == \/ ClaimRead(w) \/ ClaimWrite(w) \/ ClaimCancelled(w)
                 \/ Load(w) \/ Execute(w) \/ SettleRead(w) \/ Settle(w)

Next == \/ \E c \in Clients : Request(c)
        \/ \E p \in Processes : ProcessStep(p) \/ Crash(p)
        \/ \E w \in Workers : WorkerStep(w) \/ TransactionFails(w)

Spec == Init /\ [][Next]_vars

(* Worker threads are scheduled and poll for ever, the engine terminates   *)
(* on a finite dataset, and a process that died is started again           *)
(* (docker-compose.yml: restart: unless-stopped).                          *)
Fairness == /\ \A w \in Workers : WF_vars(WorkerStep(w))
            /\ \A p \in Processes : WF_vars(ProcessStep(p))

FairSpec == Spec /\ Fairness
-----------------------------------------------------------------------------
(* Every variable holds a value of its column or local's type. *)
TypeOK ==
    /\ status \in [Jobs -> JobStatus \cup {"NONE"}]
    /\ attempts \in [Jobs -> Nat]
    /\ cancelAsked \in [Jobs -> BOOLEAN]
    /\ queuedAt \in [Jobs -> Nat]
    /\ hasRun \in [Jobs -> BOOLEAN]
    /\ request \in [Clients -> Requests]
    /\ up \in [Processes -> {"down", "starting", "up"}]
    /\ DOMAIN orphans = Processes
    /\ \A p \in Processes : /\ orphans[p] \in [DOMAIN orphans[p] -> Nat]
                            /\ DOMAIN orphans[p] \subseteq Jobs
    /\ pc \in [Workers -> WorkerPc]
    /\ job \in [Workers -> Jobs \cup {NoJob}]
    /\ seen \in [Workers -> [status : JobStatus \cup {"NONE"}, attempts : Nat, cancel : BOOLEAN]]
    /\ outcome \in [Workers -> {"done", "cancelled", "error"}]
    /\ lost \subseteq Jobs
    /\ cancels \in Nat /\ faults \in Nat /\ crashes \in Nat

(* Two workers never run one job. *)
ExclusiveWorker ==
    \A v, w \in Workers, k \in Jobs : Executing(v, k) /\ Executing(w, k) => v = w

(* A RUNNING job has a worker that will record how it ends, unless its     *)
(* worker died or could not record it, which the next start repairs.       *)
RunningHasWorker ==
    \A k \in Jobs : status[k] = "RUNNING" /\ k \notin lost => \E w \in Workers : Executing(w, k)

(* A job that reliably kills its worker is not attempted for ever.         *)
AttemptsBounded == \A k \in Jobs : attempts[k] <= MaxAttempts

(* COMPLETED means that the result is there.                               *)
CompletedHasRun == \A k \in Jobs : status[k] = "COMPLETED" => hasRun[k]

(* A job that ended and was not asked to be cancelled stays as it ended,   *)
(* whatever is submitted again and whoever restarts: its run is the        *)
(* evidence the user was shown.                                            *)
TerminalIsFinal ==
    [][\A k \in Jobs : status[k] \in Terminal /\ ~cancelAsked'[k] => status'[k] = status[k]]_status

(* A cancelled run does not appear in the history.                         *)
CancelledStoresNothing == \A k \in Jobs : status[k] = "CANCELLED" => ~hasRun[k]

(* A cancellation accepted before the job ended is honoured: the result    *)
(* is discarded.                                                           *)
CancelIsHonoured ==
    [][\A k \in Jobs : cancelAsked[k] /\ status[k] \notin Terminal => status'[k] # "COMPLETED"]_status

(* Only jobs of dead workers are returned to the queue.                    *)
LiveJobIsNotRequeued ==
    [][\A k \in Jobs : (\E w \in Workers : Executing(w, k)) /\ status[k] = "RUNNING"
                          => status'[k] # "QUEUED"]_status

(* Every submitted job ends, unless the last thing that happened to it is  *)
(* that its worker could not record how it ended: then it waits for the    *)
(* next start of a process.                                                *)
EveryJobEnds == \A k \in Jobs : status[k] = "QUEUED" ~> status[k] \in Terminal \/ k \in lost

(* The rows of backtest_jobs and backtest_runs, whatever requests, workers *)
(* and restarts do to them, are the queue that users are promised: queued  *)
(* once, started a bounded number of times and never after a result, and   *)
(* final unless cancelled.                                                 *)
Queue == INSTANCE JobQueue WITH MaxStarts <- MaxAttempts, state <- status, starts <- attempts,
                                asked <- cancelAsked, result <- hasRun

ImplementsQueue == Queue!Spec
=============================================================================
