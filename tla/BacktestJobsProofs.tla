------------------------- MODULE BacktestJobsProofs -------------------------
(***************************************************************************)
(* Proofs about BacktestJobs, for any number of jobs, requests, workers,   *)
(* attempts, faults and crashes.                                           *)
(***************************************************************************)
EXTENDS BacktestJobs, FiniteSetTheorems, TLAPS

-----------------------------------------------------------------------------
(* Type correctness.  It is inductive together with the fact that a worker *)
(* that is not idle has a job.                                             *)
BusyHasJob == \A w \in Workers : pc[w] # "idle" => job[w] \in Jobs

TypeInv == TypeOK /\ BusyHasJob

(* A pending request names a job, and a cancellation the status it read. *)
LEMMA RequestType ==
  ASSUME TypeOK, NEW c \in Clients
  PROVE  /\ request[c].pc = "submit" => request[c].job \in Jobs
         /\ request[c].pc = "cancel" => request[c].job \in Jobs /\ request[c].read \in JobStatus
<1>1. request[c] \in Requests
  BY DEF TypeOK
<1> QED
  BY <1>1 DEF Requests, Idle

(* What a transaction reads of a row fits the variable that keeps it. *)
LEMMA RowType ==
  ASSUME TypeOK, NEW k \in Jobs
  PROVE  RowOf(k) \in [status : JobStatus \cup {"NONE"}, attempts : Nat, cancel : BOOLEAN]
BY DEF TypeOK, RowOf

LEMMA ExistsCount == Cardinality(Exists) \in Nat
<1>1. IsFiniteSet(Exists)
  BY FS_Subset, JobsAssumption DEF Exists
<1> QED
  BY <1>1, FS_CardinalityType

(* A worker's last transaction either ends the job or, having loaded a     *)
(* job that had ended, leaves it; COMPLETED comes with a run.              *)
LEMMA SettleEffect ==
  ASSUME TypeInv, NEW w \in Workers, SettleWrite(w)
  PROVE  /\ job[w] \in Jobs
         /\ \E s \in JobStatus \cup {"NONE"} :
               /\ status' = [status EXCEPT ![job[w]] = s]
               /\ \/ s \in Terminal
                  \/ s = status[job[w]] /\ seen[w].status \in Terminal
               /\ s = "COMPLETED" => status[job[w]] = s \/ hasRun'[job[w]]
         /\ hasRun' = hasRun \/ hasRun' = [hasRun EXCEPT ![job[w]] = TRUE]
<1> DEFINE k == job[w]
<1>1. k \in Jobs /\ status[k] \in JobStatus \cup {"NONE"}
  BY DEF SettleWrite, TypeInv, TypeOK, BusyHasJob
<1>2. status = [status EXCEPT ![k] = status[k]]
  BY <1>1 DEF TypeInv, TypeOK
<1>3. CASE Cancelled(w)
  BY <1>1, <1>2, <1>3 DEF Cancelled, Assign, Terminal, JobStatus
<1>4. CASE Failed(w)
  BY <1>1, <1>2, <1>4 DEF Failed, Assign, Terminal, JobStatus
<1>5. CASE Discarded(w)
  <2>1. hasRun' = hasRun /\ Assign(w, "CANCELLED")
    BY <1>5 DEF Discarded
  <2>2. CASE seen[w].status = "CANCELLED"
    <3>1. status' = [status EXCEPT ![k] = status[k]]
      BY <2>1, <2>2 DEF Assign
    <3> QED
      BY <1>1, <2>1, <2>2, <3>1 DEF Terminal
  <2>3. CASE seen[w].status # "CANCELLED"
    <3>1. status' = [status EXCEPT ![k] = "CANCELLED"]
      BY <2>1, <2>3 DEF Assign
    <3> QED
      BY <1>1, <2>1, <3>1 DEF Terminal, JobStatus
  <2> QED
    BY <2>2, <2>3
<1>6. CASE Succeeded(w)
  <2>1. hasRun' = [hasRun EXCEPT ![k] = TRUE] /\ hasRun'[k]
    BY <1>1, <1>6 DEF Succeeded, TypeInv, TypeOK
  <2>2. Assign(w, "COMPLETED")
    BY <1>6 DEF Succeeded
  <2> QED
    BY <1>1, <1>2, <2>1, <2>2 DEF Assign, Terminal, JobStatus
<1> QED
  BY <1>3, <1>4, <1>5, <1>6 DEF SettleWrite

LEMMA InitTypeInv == Init => TypeInv
BY JobsAssumption DEF Init, TypeInv, TypeOK, BusyHasJob, Requests, Idle, WorkerPc, JobStatus

LEMMA NextTypeInv == TypeInv /\ [Next]_vars => TypeInv'
<1> SUFFICES ASSUME TypeInv, [Next]_vars PROVE TypeInv'
  OBVIOUS
<1> USE DEF TypeInv, BusyHasJob
<1>1. ASSUME NEW c \in Clients, NEW k \in Jobs, SubmitLookup(c, k) PROVE TypeInv'
  BY <1>1 DEF SubmitLookup, rowVars, workerVars, boundVars, TypeOK, Requests
<1>2. ASSUME NEW c \in Clients, SubmitInsert(c) PROVE TypeInv'
  <2>1. status' \in [Jobs -> JobStatus \cup {"NONE"}] /\ queuedAt' \in [Jobs -> Nat]
    <3>1. request[c].job \in Jobs /\ Cardinality(Exists) \in Nat
      BY <1>2, RequestType, ExistsCount DEF SubmitInsert
    <3>2. CASE status[request[c].job] = "NONE"
      BY <1>2, <3>1, <3>2 DEF SubmitInsert, Insert, InsertOnce, QueueRow, TypeOK, JobStatus
    <3>3. CASE status[request[c].job] # "NONE"
      BY <1>2, <3>3 DEF SubmitInsert, Insert, InsertOnce, TypeOK
    <3> QED
      BY <3>2, <3>3
  <2> QED
    BY <1>2, <2>1 DEF SubmitInsert, workerVars, boundVars, TypeOK, Requests
<1>3. ASSUME NEW c \in Clients, NEW k \in Jobs, CancelRead(c, k) PROVE TypeInv'
  BY <1>3 DEF CancelRead, rowVars, workerVars, TypeOK, Requests
<1>4. ASSUME NEW c \in Clients, CancelWrite(c) PROVE TypeInv'
  BY <1>4, RequestType DEF CancelWrite, workerVars, boundVars, TypeOK, Requests, JobStatus
<1>5. ASSUME NEW p \in Processes, RequeueRead(p) PROVE TypeInv'
  BY <1>5 DEF RequeueRead, Running, rowVars, workerVars, boundVars, TypeOK
<1>6. ASSUME NEW p \in Processes, RequeueWrite(p) PROVE TypeInv'
  BY <1>6 DEF RequeueWrite, RequeuedAs, workerVars, boundVars, TypeOK, JobStatus
<1>7. ASSUME NEW p \in Processes, Crash(p) PROVE TypeInv'
  BY <1>7 DEF Crash, rowVars, TypeOK, WorkerPc, Working
<1>8. ASSUME NEW w \in Workers, ClaimRead(w) PROVE TypeInv'
  BY <1>8, RowType DEF ClaimRead, Claimable, Goto, rowVars, boundVars, TypeOK, WorkerPc
<1>9. ASSUME NEW w \in Workers, ClaimWrite(w) PROVE TypeInv'
  <2>1. status' \in [Jobs -> JobStatus \cup {"NONE"}]
    BY <1>9 DEF ClaimWrite, TypeOK, JobStatus
  <2>2. attempts' \in [Jobs -> Nat]
    BY <1>9 DEF ClaimWrite, TypeOK
  <2> QED
    BY <1>9, <2>1, <2>2 DEF ClaimWrite, Goto, boundVars, TypeOK, WorkerPc
<1>17. ASSUME NEW w \in Workers, ClaimCancelled(w) PROVE TypeInv'
  BY <1>17 DEF ClaimCancelled, Goto, boundVars, TypeOK, WorkerPc, JobStatus
<1>10. ASSUME NEW w \in Workers, Load(w) PROVE TypeInv'
  BY <1>10 DEF Load, Goto, rowVars, boundVars, TypeOK, WorkerPc
<1>11. ASSUME NEW w \in Workers, Execute(w) PROVE TypeInv'
  BY <1>11 DEF Execute, Goto, rowVars, boundVars, TypeOK, WorkerPc
<1>12. ASSUME NEW w \in Workers, SettleRead(w) PROVE TypeInv'
  BY <1>12, RowType DEF SettleRead, Goto, rowVars, boundVars, TypeOK, WorkerPc
<1>13. ASSUME NEW w \in Workers, SettleWrite(w) PROVE TypeInv'
  <2>1. status' \in [Jobs -> JobStatus \cup {"NONE"}] /\ hasRun' \in [Jobs -> BOOLEAN]
    <3>1. PICK s \in JobStatus \cup {"NONE"} : status' = [status EXCEPT ![job[w]] = s]
      BY <1>13, SettleEffect
    <3>2. hasRun' = hasRun \/ hasRun' = [hasRun EXCEPT ![job[w]] = TRUE]
      BY <1>13, SettleEffect
    <3> QED
      BY <3>1, <3>2 DEF TypeOK
  <2> QED
    BY <1>13, <2>1 DEF SettleWrite, Goto, boundVars, TypeOK, WorkerPc
<1>14. ASSUME NEW w \in Workers, RunRefused(w) PROVE TypeInv'
  BY <1>14 DEF RunRefused, Goto, rowVars, boundVars, TypeOK, WorkerPc
<1>15. ASSUME NEW w \in Workers, TransactionFails(w) PROVE TypeInv'
  <2>1. /\ pc' \in [Workers -> WorkerPc]
        /\ outcome' \in [Workers -> {"done", "cancelled", "error"}]
        /\ lost' \subseteq Jobs
    BY <1>15 DEF TransactionFails, Goto, TypeOK, WorkerPc
  <2>2. \A v \in Workers : pc'[v] # "idle" => pc[v] # "idle"
    BY <1>15 DEF TransactionFails, Goto, TypeOK
  <2> QED
    BY <1>15, <2>1, <2>2 DEF TransactionFails, rowVars, TypeOK
<1>16. CASE UNCHANGED vars
  BY <1>16 DEF vars, TypeOK
<1> QED
  BY <1>1, <1>2, <1>3, <1>4, <1>5, <1>6, <1>7, <1>8, <1>9, <1>10, <1>11, <1>12, <1>13, <1>14,
     <1>15, <1>16, <1>17
  DEF Next, Request, ProcessStep, WorkerStep, Settle

(* Every variable keeps to the values its column or local can hold. *)
THEOREM JobsTypeCorrect == Spec => []TypeOK
<1>1. TypeInv => TypeOK
  BY DEF TypeInv
<1> QED
  BY <1>1, InitTypeInv, NextTypeInv, PTL DEF Spec
-----------------------------------------------------------------------------
(* COMPLETED is written in the transaction that inserts the run, and runs  *)
(* are never removed: on any database, with any number of processes.       *)
LEMMA NextCompleted == TypeInv /\ CompletedHasRun /\ [Next]_vars => CompletedHasRun'
<1> SUFFICES ASSUME TypeInv, CompletedHasRun, [Next]_vars PROVE CompletedHasRun'
  OBVIOUS
<1> USE DEF CompletedHasRun
<1>1. ASSUME NEW c \in Clients, SubmitInsert(c) PROVE CompletedHasRun'
  BY <1>1, RequestType
  DEF SubmitInsert, Insert, InsertOnce, QueueRow, TypeInv, TypeOK
<1>2. ASSUME NEW c \in Clients, CancelWrite(c) PROVE CompletedHasRun'
  BY <1>2, RequestType DEF CancelWrite, TypeInv, TypeOK
<1>3. ASSUME NEW p \in Processes, RequeueWrite(p) PROVE CompletedHasRun'
  BY <1>3 DEF RequeueWrite, RequeuedAs, TypeInv, TypeOK
<1>4. ASSUME NEW w \in Workers, ClaimWrite(w) PROVE CompletedHasRun'
  BY <1>4 DEF ClaimWrite, TypeInv, TypeOK, BusyHasJob
<1>5. ASSUME NEW w \in Workers, ClaimCancelled(w) PROVE CompletedHasRun'
  BY <1>5 DEF ClaimCancelled, TypeInv, TypeOK, BusyHasJob
<1>6. ASSUME NEW w \in Workers, SettleWrite(w) PROVE CompletedHasRun'
  <2>1. PICK s \in JobStatus \cup {"NONE"} :
          /\ status' = [status EXCEPT ![job[w]] = s]
          /\ s = "COMPLETED" => status[job[w]] = s \/ hasRun'[job[w]]
    BY <1>6, SettleEffect
  <2>2. job[w] \in Jobs /\ \A k \in Jobs : hasRun[k] => hasRun'[k]
    BY <1>6, SettleEffect DEF TypeInv, TypeOK
  <2> QED
    BY <2>1, <2>2 DEF TypeInv, TypeOK
<1>7. CASE UNCHANGED <<status, hasRun>>
  BY <1>7
<1> QED
  BY <1>1, <1>2, <1>3, <1>4, <1>5, <1>6, <1>7
  DEF Next, Request, ProcessStep, WorkerStep, Settle, SubmitLookup, CancelRead, RequeueRead, Crash,
      ClaimRead, Load, Execute, SettleRead, RunRefused, TransactionFails, rowVars, vars

(* A COMPLETED job has its result, however workers, cancellations, faults  *)
(* and restarts interleave, with row locks or without.                     *)
THEOREM CompletedJobsHaveRuns == Spec => []CompletedHasRun
<1>1. Init => CompletedHasRun
  BY DEF Init, CompletedHasRun
<1> QED
  BY <1>1, InitTypeInv, NextTypeInv, NextCompleted, PTL DEF Spec
-----------------------------------------------------------------------------
(* Workers run only in a process whose pool has started. *)
HostInv == \A w \in Workers : up[Host[w]] # "up" => pc[w] = "idle"

LEMMA NextHostInv == TypeInv /\ HostInv /\ [Next]_vars => HostInv'
<1> SUFFICES ASSUME TypeInv, HostInv, [Next]_vars PROVE HostInv'
  OBVIOUS
<1> USE JobsAssumption DEF HostInv, TypeInv, TypeOK
<1>1. ASSUME NEW p \in Processes, RequeueRead(p) PROVE HostInv'
  BY <1>1 DEF RequeueRead, workerVars
<1>2. ASSUME NEW p \in Processes, RequeueWrite(p) PROVE HostInv'
  BY <1>2 DEF RequeueWrite, workerVars
<1>3. ASSUME NEW p \in Processes, Crash(p) PROVE HostInv'
  BY <1>3 DEF Crash
<1>4. ASSUME NEW w \in Workers, WorkerStep(w) \/ TransactionFails(w) PROVE HostInv'
  <2>1. up' = up /\ (pc[w] # "idle" \/ up[Host[w]] = "up")
    BY <1>4 DEF WorkerStep, Settle, ClaimRead, ClaimWrite, ClaimCancelled, Load, Execute, SettleRead,
                SettleWrite, RunRefused, TransactionFails
  <2>2. \A v \in Workers : v # w => pc'[v] = pc[v]
    BY <1>4 DEF WorkerStep, Settle, ClaimRead, ClaimWrite, ClaimCancelled, Load, Execute, SettleRead,
                SettleWrite, RunRefused, TransactionFails, Goto
  <2> QED
    BY <2>1, <2>2
<1>5. CASE UNCHANGED <<up, pc>>
  BY <1>5
<1> QED
  BY <1>1, <1>2, <1>3, <1>4, <1>5
  DEF Next, Request, ProcessStep, SubmitLookup, SubmitInsert, CancelRead, CancelWrite, workerVars, vars

(* With one process nothing runs while its pool is starting. *)
SingleProcess == \A p, q \in Processes : p = q

LEMMA NothingRunsAtStart ==
  ASSUME HostInv, SingleProcess, NEW p \in Processes, up[p] # "up", NEW w \in Workers
  PROVE  pc[w] = "idle"
BY JobsAssumption DEF HostInv, SingleProcess
-----------------------------------------------------------------------------
(* The attempt budget.  A queued job has an attempt left, a claim decides  *)
(* on the attempts of a job that had one left, and what requeue_orphans    *)
(* read is still so when it writes.                                        *)
BudgetKept == \A k \in Jobs : /\ attempts[k] <= MaxAttempts
                              /\ status[k] = "QUEUED" => attempts[k] < MaxAttempts
                              /\ status[k] = "NONE" => attempts[k] = 0

ClaimsWithinBudget == \A w \in Workers : pc[w] = "claim" => seen[w].attempts < MaxAttempts

OrphansCurrent == \A p \in Processes : up[p] = "starting" =>
                      \A k \in DOMAIN orphans[p] : orphans[p][k] = attempts[k]

AttemptsInv == BudgetKept /\ ClaimsWithinBudget /\ OrphansCurrent

LEMMA NextAttemptsInv ==
  ASSUME SingleProcess, TypeInv, HostInv, AttemptsInv, [Next]_vars
  PROVE  AttemptsInv'
<1> USE DEF AttemptsInv, BudgetKept, ClaimsWithinBudget, OrphansCurrent, TypeInv, TypeOK
<1>0. TypeInv'
  BY NextTypeInv
<1>1. ASSUME NEW c \in Clients, SubmitInsert(c) PROVE AttemptsInv'
  <2>1. request[c].job \in Jobs
    BY <1>1, RequestType DEF SubmitInsert
  <2>2. \A k \in Jobs : status'[k] # status[k] => status[k] = "NONE" /\ status'[k] = "QUEUED"
    BY <1>1, <2>1 DEF SubmitInsert, Insert, InsertOnce, QueueRow
  <2>3. UNCHANGED <<attempts, pc, seen, up, orphans>>
    BY <1>1 DEF SubmitInsert, workerVars
  <2> QED
    BY <2>2, <2>3, JobsAssumption
<1>2. ASSUME NEW c \in Clients, CancelWrite(c) PROVE AttemptsInv'
  <2>1. request[c].job \in Jobs
    BY <1>2, RequestType DEF CancelWrite
  <2>2. \A k \in Jobs : status'[k] \in {status[k], "CANCELLED"}
    BY <1>2, <2>1 DEF CancelWrite
  <2> QED
    BY <1>2, <2>2 DEF CancelWrite, workerVars
<1>3. ASSUME NEW p \in Processes, RequeueRead(p) PROVE AttemptsInv'
  <2>1. \A q \in Processes : q # p => orphans'[q] = orphans[q] /\ up'[q] = up[q]
    BY <1>3 DEF RequeueRead
  <2>2. orphans'[p] = [k \in Running |-> attempts[k]]
    BY <1>3 DEF RequeueRead
  <2>3. \A q \in Processes : up'[q] = "starting" =>
            \A k \in DOMAIN orphans'[q] : orphans'[q][k] = attempts[k]
    BY <2>1, <2>2
  <2> QED
    BY <1>3, <2>3 DEF RequeueRead, rowVars, workerVars
<1>4. ASSUME NEW p \in Processes, RequeueWrite(p) PROVE AttemptsInv'
  <2>1. \A k \in Jobs : status'[k] = IF k \in DOMAIN orphans[p] THEN RequeuedAs(attempts[k])
                                    ELSE status[k]
    BY <1>4 DEF RequeueWrite
  <2>2. \A k \in Jobs : status'[k] = "QUEUED" => attempts[k] < MaxAttempts
    BY <2>1 DEF RequeuedAs, AttemptsLeft
  <2>3. \A k \in Jobs : status'[k] = "NONE" => attempts[k] = 0
    BY <2>1 DEF RequeuedAs
  <2>4. \A q \in Processes : up'[q] # "starting"
    BY <1>4 DEF RequeueWrite, SingleProcess, TypeOK
  <2> QED
    BY <1>4, <2>2, <2>3, <2>4 DEF RequeueWrite, workerVars
<1>5. ASSUME NEW p \in Processes, Crash(p) PROVE AttemptsInv'
  BY <1>5 DEF Crash, rowVars
<1>6. ASSUME NEW w \in Workers, ClaimRead(w) PROVE AttemptsInv'
  <2>1. \A v \in Workers : pc'[v] = "claim" => seen'[v].attempts < MaxAttempts
    BY <1>6 DEF ClaimRead, Claimable, RowOf, Goto
  <2> QED
    BY <1>6, <2>1 DEF ClaimRead, rowVars
<1>7. ASSUME NEW w \in Workers, ClaimWrite(w) PROVE AttemptsInv'
  <2>1. job[w] \in Jobs /\ seen[w].attempts + 1 <= MaxAttempts /\ seen[w].attempts \in Nat
    BY <1>7, JobsAssumption DEF ClaimWrite, BusyHasJob
  <2>2. \A k \in Jobs :
          /\ status'[k] \in {"RUNNING", status[k]}
          /\ status'[k] = status[k] /\ status[k] # "RUNNING" => attempts'[k] = attempts[k]
          /\ attempts'[k] <= MaxAttempts
    BY <1>7, <2>1 DEF ClaimWrite
  <2>3. \A p \in Processes : up[p] = "up"
    BY <1>7, NothingRunsAtStart DEF ClaimWrite
  <2>4. \A v \in Workers : pc'[v] = "claim" => pc[v] = "claim"
    BY <1>7 DEF ClaimWrite, Goto
  <2>5. BudgetKept'
    BY <2>2
  <2>6. ClaimsWithinBudget' /\ OrphansCurrent'
    BY <1>7, <2>3, <2>4 DEF ClaimWrite
  <2> QED
    BY <2>5, <2>6
<1>8. ASSUME NEW w \in Workers, ClaimCancelled(w) PROVE AttemptsInv'
  BY <1>8 DEF ClaimCancelled, Goto, BusyHasJob
<1>9. ASSUME NEW w \in Workers, SettleWrite(w) PROVE AttemptsInv'
  <2>1. PICK s \in JobStatus \cup {"NONE"} :
          /\ status' = [status EXCEPT ![job[w]] = s]
          /\ s \in Terminal \/ s = status[job[w]]
    BY <1>9, SettleEffect
  <2>2. \A k \in Jobs : status'[k] \in Terminal \/ status'[k] = status[k]
    BY <2>1
  <2> QED
    BY <1>9, <2>2 DEF SettleWrite, Goto, Terminal
<1>10. ASSUME NEW w \in Workers, SettleRead(w) PROVE AttemptsInv'
  BY <1>10 DEF SettleRead, Goto, rowVars
<1>11. ASSUME NEW w \in Workers, Load(w) \/ Execute(w) \/ RunRefused(w) \/ TransactionFails(w)
       PROVE  AttemptsInv'
  <2>1. UNCHANGED <<rowVars, up, orphans, seen>> /\ \A v \in Workers : pc'[v] = "claim" => pc[v] = "claim"
    BY <1>11 DEF Load, Execute, RunRefused, TransactionFails, Goto
  <2> QED
    BY <2>1 DEF rowVars
<1>12. CASE UNCHANGED <<status, attempts, up, orphans, pc, seen>>
  BY <1>12
<1> QED
  BY <1>1, <1>2, <1>3, <1>4, <1>5, <1>6, <1>7, <1>8, <1>9, <1>10, <1>11, <1>12
  DEF Next, Request, ProcessStep, WorkerStep, Settle, SubmitLookup, CancelRead, rowVars, workerVars, vars

(* However often its worker dies, a job is not attempted more often than   *)
(* backtest_max_attempts: with one process, with row locks or without.     *)
THEOREM AttemptsAreBounded == SingleProcess => (Spec => []AttemptsBounded)
<1> SUFFICES ASSUME SingleProcess PROVE Spec => []AttemptsBounded
  OBVIOUS
<1>1. Init => HostInv /\ AttemptsInv
  BY JobsAssumption DEF Init, HostInv, AttemptsInv, BudgetKept, ClaimsWithinBudget, OrphansCurrent
<1>2. TypeInv /\ HostInv /\ AttemptsInv /\ [Next]_vars => AttemptsInv'
  BY NextAttemptsInv
<1>3. AttemptsInv => AttemptsBounded
  BY DEF AttemptsInv, BudgetKept, AttemptsBounded
<1> QED
  BY <1>1, <1>2, <1>3, InitTypeInv, NextTypeInv, NextHostInv, PTL DEF Spec
-----------------------------------------------------------------------------
(* Ownership, with row locks and one process.  From the read of the claim  *)
(* to its last commit a worker is alone with its job; a job being claimed  *)
(* is still QUEUED, because its row is locked, and one being worked on     *)
(* never is, because only a starting pool puts jobs back.                  *)
OneOwner == \A v, w \in Workers : pc[v] # "idle" /\ pc[w] # "idle" /\ job[v] = job[w] => v = w

ClaimedIsQueued == \A w \in Workers : pc[w] = "claim" => status[job[w]] = "QUEUED"

WorkedIsNotQueued ==
    \A w \in Workers : pc[w] \in Working => status[job[w]] \notin {"QUEUED", "NONE"}

OwnInv == OneOwner /\ ClaimedIsQueued /\ WorkedIsNotQueued

(* A row that is not locked is not being claimed. *)
LEMMA UnlockedRow ==
  ASSUME RowLocks, NEW k, k \notin LockedRows, NEW w \in Workers, pc[w] = "claim"
  PROVE  job[w] # k
BY DEF LockedRows

LEMMA NextOwnInv ==
  ASSUME SingleProcess, RowLocks, TypeInv, HostInv, OwnInv, [Next]_vars
  PROVE  OwnInv'
<1> USE DEF OwnInv, OneOwner, ClaimedIsQueued, WorkedIsNotQueued, TypeInv, BusyHasJob
<1>1. ASSUME NEW c \in Clients, SubmitInsert(c) PROVE OwnInv'
  <2>1. request[c].job \in Jobs
    BY <1>1, RequestType DEF SubmitInsert
  <2>2. \A k \in Jobs : status'[k] # status[k] => status[k] = "NONE"
    BY <1>1, <2>1 DEF SubmitInsert, Insert, InsertOnce, QueueRow, TypeOK
  <2>3. UNCHANGED <<pc, job>>
    BY <1>1 DEF SubmitInsert, workerVars
  <2> QED
    BY <2>2, <2>3 DEF Working
<1>2. ASSUME NEW c \in Clients, CancelWrite(c) PROVE OwnInv'
  <2>1. request[c].job \in Jobs
    BY <1>2, RequestType DEF CancelWrite
  <2>2. \A k \in Jobs : status'[k] # status[k] => status'[k] = "CANCELLED" /\ k \notin LockedRows
    BY <1>2, <2>1 DEF CancelWrite, TypeOK
  <2>3. UNCHANGED <<pc, job>>
    BY <1>2 DEF CancelWrite, workerVars
  <2> QED
    BY <2>2, <2>3, UnlockedRow DEF Working
<1>3. ASSUME NEW p \in Processes, RequeueWrite(p) PROVE OwnInv'
  <2>1. \A w \in Workers : pc[w] = "idle"
    BY <1>3, NothingRunsAtStart DEF RequeueWrite
  <2> QED
    BY <1>3, <2>1 DEF RequeueWrite, workerVars, Working
<1>4. ASSUME NEW p \in Processes, Crash(p) PROVE OwnInv'
  BY <1>4 DEF Crash, rowVars, TypeOK, Working
<1>5. ASSUME NEW w \in Workers, ClaimRead(w) PROVE OwnInv'
  <2>1. PICK k \in Claimable : job' = [job EXCEPT ![w] = k]
    BY <1>5 DEF ClaimRead
  <2>2. k \in Jobs /\ status[k] = "QUEUED" /\ k \notin LockedRows
    BY <2>1 DEF Claimable
  <2>3. \A v \in Workers : pc[v] # "idle" => job[v] # k
    BY <2>2, UnlockedRow DEF TypeOK, WorkerPc, Working
  <2>4. pc' = [pc EXCEPT ![w] = "claim"] /\ pc[w] = "idle" /\ status' = status
    BY <1>5 DEF ClaimRead, Goto, rowVars
  <2> QED
    BY <2>1, <2>2, <2>3, <2>4 DEF TypeOK, Working
<1>6. ASSUME NEW w \in Workers, NEW s \in {"RUNNING", "CANCELLED"}, NEW to \in {"load", "idle"},
             pc[w] = "claim", s = "CANCELLED" => to = "idle",
             status' = [status EXCEPT ![job[w]] = s], pc' = [pc EXCEPT ![w] = to], job' = job
      PROVE  OwnInv'
  <2>1. job[w] \in Jobs
    BY <1>6
  <2>2. \A v \in Workers : v # w /\ pc[v] # "idle" => job[v] # job[w]
    BY <1>6
  <2> QED
    BY <1>6, <2>1, <2>2 DEF TypeOK, Working
<1>7. ASSUME NEW w \in Workers, SettleWrite(w) PROVE OwnInv'
  <2>1. PICK s \in JobStatus \cup {"NONE"} :
          /\ status' = [status EXCEPT ![job[w]] = s]
          /\ s \in Terminal \/ s = status[job[w]]
    BY <1>7, SettleEffect
  <2>2. job[w] \in Jobs /\ pc[w] = "write" /\ pc' = [pc EXCEPT ![w] = "idle"] /\ job' = job
    BY <1>7 DEF SettleWrite, Goto
  <2>3. \A v \in Workers : v # w /\ pc[v] # "idle" => job[v] # job[w]
    BY <2>2
  <2> QED
    BY <2>1, <2>2, <2>3 DEF TypeOK, Working
<1>8. ASSUME NEW w \in Workers,
             Load(w) \/ Execute(w) \/ SettleRead(w) \/ RunRefused(w) \/ TransactionFails(w)
      PROVE  OwnInv'
  <2>1. UNCHANGED <<status, job>>
    BY <1>8 DEF Load, Execute, SettleRead, RunRefused, TransactionFails, rowVars
  <2>2. \A v \in Workers : pc'[v] # pc[v] =>
            pc'[v] = "idle" \/ (pc[v] \in Working /\ pc'[v] \in Working)
    BY <1>8 DEF Load, Execute, SettleRead, RunRefused, TransactionFails, Goto, TypeOK, Working
  <2> QED
    BY <2>1, <2>2 DEF Working
<1>9. CASE UNCHANGED <<status, pc, job>>
  BY <1>9
<1>10. ASSUME NEW w \in Workers, ClaimWrite(w) PROVE OwnInv'
  BY <1>6, <1>10 DEF ClaimWrite, Goto
<1>11. ASSUME NEW w \in Workers, ClaimCancelled(w) PROVE OwnInv'
  BY <1>6, <1>11 DEF ClaimCancelled, Goto
<1> QED
  BY <1>1, <1>2, <1>3, <1>4, <1>5, <1>7, <1>8, <1>9, <1>10, <1>11
  DEF Next, Request, ProcessStep, WorkerStep, Settle, SubmitLookup, CancelRead, RequeueRead, rowVars,
      workerVars, vars

(* Two workers never run one job: on PostgreSQL with one process.          *)
THEOREM OneWorkerPerJob == SingleProcess /\ RowLocks => (Spec => []ExclusiveWorker)
<1> SUFFICES ASSUME SingleProcess, RowLocks PROVE Spec => []ExclusiveWorker
  OBVIOUS
<1>1. Init => HostInv /\ OwnInv
  BY DEF Init, HostInv, OwnInv, OneOwner, ClaimedIsQueued, WorkedIsNotQueued, Working
<1>2. TypeInv /\ HostInv /\ OwnInv /\ [Next]_vars => OwnInv'
  BY NextOwnInv
<1>3. OwnInv => ExclusiveWorker
  BY DEF OwnInv, OneOwner, ExclusiveWorker, Executing, Working
<1> QED
  BY <1>1, <1>2, <1>3, InitTypeInv, NextTypeInv, NextHostInv, PTL DEF Spec
-----------------------------------------------------------------------------
(* What happens to a job while a worker has it: only a cancellation ends   *)
(* it, so a worker that loaded an ended job leaves an ended job; and what  *)
(* a starting pool took for an orphan is one, unless it was cancelled.     *)
LoadedEndedIsEnded ==
    \A w \in Workers : pc[w] = "write" /\ seen[w].status \in Terminal => status[job[w]] \in Terminal

EndedIsCancelled ==
    \A w \in Workers : pc[w] \in Working /\ status[job[w]] \in Terminal => cancelAsked[job[w]]

OrphansRunning ==
    \A p \in Processes : up[p] = "starting" =>
        \A k \in DOMAIN orphans[p] : status[k] = "RUNNING" \/ cancelAsked[k]

EndInv == LoadedEndedIsEnded /\ EndedIsCancelled /\ OrphansRunning

Board == RunningHasWorker /\ EndInv

LEMMA NextBoard ==
  ASSUME SingleProcess, RowLocks, TypeInv, HostInv, OwnInv, Board, [Next]_vars
  PROVE  Board'
<1> USE DEF Board, EndInv, LoadedEndedIsEnded, EndedIsCancelled, OrphansRunning, RunningHasWorker,
            Executing, OwnInv, OneOwner, ClaimedIsQueued, WorkedIsNotQueued, TypeInv, BusyHasJob
<1>1. ASSUME NEW c \in Clients, SubmitInsert(c) PROVE Board'
  <2>1. request[c].job \in Jobs
    BY <1>1, RequestType DEF SubmitInsert
  <2>2. \A k \in Jobs : status'[k] # status[k] => status[k] = "NONE" /\ status'[k] = "QUEUED"
    BY <1>1, <2>1 DEF SubmitInsert, Insert, InsertOnce, QueueRow, TypeOK
  <2>3. UNCHANGED <<pc, job, seen, cancelAsked, up, orphans, lost>>
    BY <1>1 DEF SubmitInsert, workerVars
  <2>4. RunningHasWorker'
    BY <2>2, <2>3
  <2>5. LoadedEndedIsEnded' /\ EndedIsCancelled'
    BY <2>2, <2>3 DEF Working, Terminal
  <2>6. OrphansRunning'
    BY <2>2, <2>3 DEF TypeOK
  <2> QED
    BY <2>4, <2>5, <2>6
<1>2. ASSUME NEW c \in Clients, CancelWrite(c) PROVE Board'
  <2>1. request[c].job \in Jobs
    BY <1>2, RequestType DEF CancelWrite
  <2>2. \A k \in Jobs :
          /\ cancelAsked[k] => cancelAsked'[k]
          /\ status'[k] # status[k] => status'[k] = "CANCELLED" /\ cancelAsked'[k]
    BY <1>2, <2>1 DEF CancelWrite, TypeOK
  <2>3. UNCHANGED <<pc, job, seen, up, orphans, lost>>
    BY <1>2 DEF CancelWrite, workerVars
  <2>4. RunningHasWorker'
    BY <2>2, <2>3
  <2>5. LoadedEndedIsEnded' /\ EndedIsCancelled'
    BY <2>2, <2>3 DEF Working, Terminal
  <2>6. OrphansRunning'
    BY <2>2, <2>3 DEF TypeOK
  <2> QED
    BY <2>4, <2>5, <2>6
<1>3. ASSUME NEW p \in Processes, RequeueRead(p) PROVE Board'
  <2>1. UNCHANGED <<pc, job, seen, cancelAsked, status, lost>>
    BY <1>3 DEF RequeueRead, rowVars, workerVars
  <2>2. \A q \in Processes : q = p
    BY DEF SingleProcess
  <2>3. DOMAIN orphans'[p] = Running
    BY <1>3 DEF RequeueRead, TypeOK
  <2>4. OrphansRunning'
    BY <2>1, <2>2, <2>3 DEF Running
  <2> QED
    BY <2>1, <2>4
<1>4. ASSUME NEW p \in Processes, RequeueWrite(p) PROVE Board'
  <2>1. \A w \in Workers : pc[w] = "idle"
    BY <1>4, NothingRunsAtStart DEF RequeueWrite
  <2>2. UNCHANGED <<pc, job>>
    BY <1>4 DEF RequeueWrite, workerVars
  <2>3. \A k \in Jobs : status'[k] = "RUNNING" => k \notin DOMAIN orphans[p] /\ status[k] = "RUNNING"
    BY <1>4 DEF RequeueWrite, RequeuedAs
  <2>4. \A k \in Jobs : k \notin DOMAIN orphans[p] /\ k \notin lost' => k \notin lost
    BY <1>4 DEF RequeueWrite
  <2>5. RunningHasWorker'
    BY <2>1, <2>2, <2>3, <2>4 DEF Working
  <2>6. OrphansRunning'
    BY <1>4 DEF RequeueWrite, SingleProcess, TypeOK
  <2> QED
    BY <2>1, <2>2, <2>5, <2>6 DEF Working
<1>5. ASSUME NEW p \in Processes, Crash(p) PROVE Board'
  <2>1. UNCHANGED <<status, cancelAsked, job, seen>>
    BY <1>5 DEF Crash, rowVars
  <2>2. \A w \in Workers :
          /\ pc'[w] \in {pc[w], "idle"}
          /\ pc[w] \in Working => pc'[w] = pc[w] \/ job[w] \in lost'
    BY <1>5 DEF Crash, TypeOK
  <2>3. lost \subseteq lost' /\ \A q \in Processes : up'[q] # "starting"
    BY <1>5 DEF Crash, SingleProcess, TypeOK
  <2>4. RunningHasWorker'
    BY <2>1, <2>2, <2>3
  <2> QED
    BY <2>1, <2>2, <2>3, <2>4 DEF Working
<1>6. ASSUME NEW w \in Workers, ClaimRead(w) PROVE Board'
  <2>1. UNCHANGED <<status, cancelAsked, up, orphans, lost>> /\ pc[w] = "idle"
    BY <1>6 DEF ClaimRead, rowVars
  <2>2. \A v \in Workers : v # w => pc'[v] = pc[v] /\ job'[v] = job[v] /\ seen'[v] = seen[v]
    BY <1>6 DEF ClaimRead, Goto, TypeOK
  <2>3. pc'[w] = "claim"
    BY <1>6 DEF ClaimRead, Goto, TypeOK
  <2> QED
    BY <2>1, <2>2, <2>3 DEF Working
<1>7. ASSUME NEW w \in Workers, ClaimWrite(w) PROVE Board'
  <2>1. UNCHANGED <<cancelAsked, up, orphans, lost, job, seen>> /\ pc[w] = "claim" /\ job[w] \in Jobs
    BY <1>7 DEF ClaimWrite
  <2>2. \A k \in Jobs : status'[k] = IF k = job[w] THEN "RUNNING" ELSE status[k]
    BY <1>7 DEF ClaimWrite, TypeOK
  <2>3. \A v \in Workers : pc'[v] = IF v = w THEN "load" ELSE pc[v]
    BY <1>7 DEF ClaimWrite, Goto, TypeOK
  <2>4. \A v \in Workers : v # w /\ pc[v] # "idle" => job[v] # job[w]
    BY <2>1
  <2>5. RunningHasWorker'
    BY <2>1, <2>2, <2>3 DEF Working
  <2>6. \A p \in Processes : up[p] # "starting"
    BY <2>1, NothingRunsAtStart
  <2>7. EndInv'
    BY <2>1, <2>2, <2>3, <2>4, <2>6 DEF Working, Terminal
  <2> QED
    BY <2>5, <2>7
<1>8. ASSUME NEW w \in Workers, ClaimCancelled(w) PROVE Board'
  <2>1. UNCHANGED <<cancelAsked, up, orphans, lost, job, seen>> /\ pc[w] = "claim" /\ job[w] \in Jobs
    BY <1>8 DEF ClaimCancelled
  <2>2. \A k \in Jobs : status'[k] = IF k = job[w] THEN "CANCELLED" ELSE status[k]
    BY <1>8 DEF ClaimCancelled, TypeOK
  <2>3. \A v \in Workers : pc'[v] = IF v = w THEN "idle" ELSE pc[v]
    BY <1>8 DEF ClaimCancelled, Goto, TypeOK
  <2>4. \A v \in Workers : v # w /\ pc[v] # "idle" => job[v] # job[w]
    BY <2>1
  <2>5. \A p \in Processes : up[p] # "starting"
    BY <2>1, NothingRunsAtStart
  <2>6. RunningHasWorker'
    BY <2>1, <2>2, <2>3 DEF Working
  <2>7. EndInv'
    BY <2>1, <2>2, <2>3, <2>4, <2>5 DEF Working
  <2> QED
    BY <2>6, <2>7
<1>9. ASSUME NEW w \in Workers, SettleWrite(w) PROVE Board'
  <2>1. PICK s \in JobStatus \cup {"NONE"} :
          /\ status' = [status EXCEPT ![job[w]] = s]
          /\ s \in Terminal \/ (s = status[job[w]] /\ seen[w].status \in Terminal)
    BY <1>9, SettleEffect
  <2>2. UNCHANGED <<cancelAsked, up, orphans, lost, job, seen>> /\ pc[w] = "write" /\ job[w] \in Jobs
    BY <1>9 DEF SettleWrite
  <2>3. s \in Terminal
    BY <2>1, <2>2
  <2>4. \A k \in Jobs : status'[k] = IF k = job[w] THEN s ELSE status[k]
    BY <2>1 DEF TypeOK
  <2>5. \A v \in Workers : pc'[v] = IF v = w THEN "idle" ELSE pc[v]
    BY <1>9 DEF SettleWrite, Goto, TypeOK
  <2>6. \A v \in Workers : v # w /\ pc[v] # "idle" => job[v] # job[w]
    BY <2>2
  <2>7. \A p \in Processes : up[p] # "starting"
    BY <2>2, NothingRunsAtStart
  <2>8. RunningHasWorker'
    BY <2>2, <2>3, <2>4, <2>5 DEF Working, Terminal
  <2>9. EndInv'
    BY <2>2, <2>4, <2>5, <2>6, <2>7 DEF Working
  <2> QED
    BY <2>8, <2>9
<1>10. ASSUME NEW w \in Workers, SettleRead(w) PROVE Board'
  <2>1. UNCHANGED <<status, cancelAsked, up, orphans, lost, job>>
    BY <1>10 DEF SettleRead, rowVars
  <2>2. \A v \in Workers : v # w => pc'[v] = pc[v] /\ seen'[v] = seen[v]
    BY <1>10 DEF SettleRead, Goto, TypeOK
  <2>3. pc[w] = "settle" /\ pc'[w] = "write" /\ seen'[w].status = status[job[w]]
    BY <1>10 DEF SettleRead, Goto, RowOf, TypeOK
  <2>4. RunningHasWorker'
    BY <2>1, <2>2, <2>3 DEF Working
  <2>5. EndInv'
    BY <2>1, <2>2, <2>3 DEF Working
  <2> QED
    BY <2>4, <2>5
<1>11. ASSUME NEW w \in Workers, Load(w) \/ Execute(w) \/ RunRefused(w) PROVE Board'
  <2>1. UNCHANGED <<status, cancelAsked, up, orphans, lost, job, seen>>
    BY <1>11 DEF Load, Execute, RunRefused, rowVars
  <2>2. \A v \in Workers : v # w => pc'[v] = pc[v]
    BY <1>11 DEF Load, Execute, RunRefused, Goto, TypeOK
  <2>3. pc[w] \in Working /\ pc'[w] \in {"engine", "settle"}
    BY <1>11 DEF Load, Execute, RunRefused, Goto, TypeOK, Working
  <2>4. RunningHasWorker'
    BY <2>1, <2>2, <2>3 DEF Working
  <2> QED
    BY <2>1, <2>2, <2>3, <2>4 DEF Working
<1>12. ASSUME NEW w \in Workers, TransactionFails(w) PROVE Board'
  <2>1. UNCHANGED <<status, cancelAsked, up, orphans, job, seen>> /\ lost \subseteq lost'
    BY <1>12 DEF TransactionFails, rowVars
  <2>2. \A v \in Workers : v # w => pc'[v] = pc[v]
    BY <1>12 DEF TransactionFails, Goto, TypeOK
  <2>3. \/ pc[w] = "claim" /\ pc'[w] = "idle"
        \/ pc[w] \in Working /\ pc'[w] = "settle"
        \/ pc[w] \in Working /\ pc'[w] = "idle" /\ job[w] \in lost'
    BY <1>12 DEF TransactionFails, Goto, TypeOK, Working
  <2>4. RunningHasWorker'
    BY <2>1, <2>2, <2>3 DEF Working
  <2> QED
    BY <2>1, <2>2, <2>3, <2>4 DEF Working
<1>13. CASE UNCHANGED <<status, cancelAsked, up, orphans, pc, job, seen, lost>>
  BY <1>13
<1> QED
  BY <1>1, <1>2, <1>3, <1>4, <1>5, <1>6, <1>7, <1>8, <1>9, <1>10, <1>11, <1>12, <1>13
  DEF Next, Request, ProcessStep, WorkerStep, Settle, SubmitLookup, CancelRead, rowVars, workerVars, vars

LEMMA InitBoard == Init => HostInv /\ OwnInv /\ Board
BY DEF Init, HostInv, OwnInv, OneOwner, ClaimedIsQueued, WorkedIsNotQueued, Working, Board, EndInv,
       LoadedEndedIsEnded, EndedIsCancelled, OrphansRunning, RunningHasWorker

(* A RUNNING job has a worker that will record how it ends, unless that    *)
(* worker died or failed to record it: on PostgreSQL with one process.     *)
THEOREM RunningJobsHaveWorkers == SingleProcess /\ RowLocks => (Spec => []RunningHasWorker)
<1> SUFFICES ASSUME SingleProcess, RowLocks PROVE Spec => []RunningHasWorker
  OBVIOUS
<1>1. TypeInv /\ HostInv /\ OwnInv /\ [Next]_vars => OwnInv'
  BY NextOwnInv
<1>2. TypeInv /\ HostInv /\ OwnInv /\ Board /\ [Next]_vars => Board'
  BY NextBoard
<1>3. Board => RunningHasWorker
  BY DEF Board
<1> QED
  BY <1>1, <1>2, <1>3, InitBoard, InitTypeInv, NextTypeInv, NextHostInv, PTL DEF Spec

(* The invariants make every step leave alone a job that ended without     *)
(* being asked to.                                                         *)
LEMMA NextTerminal ==
  ASSUME SingleProcess, RowLocks, TypeInv, HostInv, OwnInv, Board, [Next]_vars,
         NEW k \in Jobs, status[k] \in Terminal, ~cancelAsked'[k]
  PROVE  status'[k] = status[k]
<1> USE DEF Board, EndInv, EndedIsCancelled, OrphansRunning, OwnInv, ClaimedIsQueued, TypeInv, BusyHasJob
<1>1. ASSUME NEW c \in Clients, SubmitInsert(c) PROVE status'[k] = status[k]
  BY <1>1, RequestType DEF SubmitInsert, Insert, InsertOnce, QueueRow, TypeOK, Terminal
<1>2. ASSUME NEW c \in Clients, CancelWrite(c) PROVE status'[k] = status[k]
  BY <1>2, RequestType DEF CancelWrite, TypeOK
<1>3. ASSUME NEW p \in Processes, RequeueWrite(p) PROVE status'[k] = status[k]
  <2>1. up[p] = "starting" /\ cancelAsked' = cancelAsked
    BY <1>3 DEF RequeueWrite
  <2>2. k \notin DOMAIN orphans[p]
    BY <2>1 DEF Terminal
  <2> QED
    BY <1>3, <2>2 DEF RequeueWrite
<1>4. ASSUME NEW w \in Workers, ClaimWrite(w) PROVE status'[k] = status[k]
  BY <1>4 DEF ClaimWrite, TypeOK, Terminal
<1>5. ASSUME NEW w \in Workers, ClaimCancelled(w) PROVE status'[k] = status[k]
  BY <1>5 DEF ClaimCancelled, TypeOK, Terminal
<1>6. ASSUME NEW w \in Workers, SettleWrite(w) PROVE status'[k] = status[k]
  <2>1. PICK s \in JobStatus \cup {"NONE"} : status' = [status EXCEPT ![job[w]] = s]
    BY <1>6, SettleEffect
  <2>2. cancelAsked' = cancelAsked /\ pc[w] \in Working /\ job[w] \in Jobs
    BY <1>6 DEF SettleWrite, Working
  <2>3. job[w] # k
    BY <2>2
  <2> QED
    BY <2>1, <2>3 DEF TypeOK
<1>7. CASE status' = status
  BY <1>7
<1> QED
  BY <1>1, <1>2, <1>3, <1>4, <1>5, <1>6, <1>7
  DEF Next, Request, ProcessStep, WorkerStep, Settle, SubmitLookup, CancelRead, RequeueRead, Crash,
      ClaimRead, Load, Execute, SettleRead, RunRefused, TransactionFails, rowVars, vars

(* A job that ended and was not asked to be cancelled stays as it ended:   *)
(* on PostgreSQL with one process.                                         *)
THEOREM EndedJobsStay == SingleProcess /\ RowLocks => (Spec => TerminalIsFinal)
<1> SUFFICES ASSUME SingleProcess, RowLocks PROVE Spec => TerminalIsFinal
  OBVIOUS
<1>1. TypeInv /\ HostInv /\ OwnInv /\ [Next]_vars => OwnInv'
  BY NextOwnInv
<1>2. TypeInv /\ HostInv /\ OwnInv /\ Board /\ [Next]_vars => Board'
  BY NextBoard
<1>3. TypeInv /\ HostInv /\ OwnInv /\ Board /\ [Next]_vars =>
        [\A k \in Jobs : status[k] \in Terminal /\ ~cancelAsked'[k] => status'[k] = status[k]]_status
  BY NextTerminal
<1> QED
  BY <1>1, <1>2, <1>3, InitBoard, InitTypeInv, NextTypeInv, NextHostInv, PTL DEF Spec, TerminalIsFinal
-----------------------------------------------------------------------------
(***************************************************************************)
(* The queue that users are promised, on PostgreSQL with one process.      *)
(*                                                                         *)
(* A job with a result has completed or was cancelled after it.  What a    *)
(* worker has, and what a starting pool took for an orphan, is under way:  *)
(* without a result, and RUNNING or cancelled over that.  What a           *)
(* transaction read still holds where it relies on it: a claim's attempts  *)
(* by the row lock, a wish to cancel because it is never withdrawn.        *)
(***************************************************************************)
ResultIsLast == \A k \in Jobs : hasRun[k] => status[k] \in {"COMPLETED", "CANCELLED"}

Started(k) == ~hasRun[k] /\ status[k] \in {"RUNNING", "CANCELLED"}

WorkedStarted == \A w \in Workers : pc[w] \in Working => Started(job[w])

OrphansStarted ==
    \A p \in Processes : up[p] = "starting" => \A k \in DOMAIN orphans[p] : Started(k)

ReadHolds ==
    \A w \in Workers :
        /\ pc[w] = "claim" => /\ seen[w].attempts = attempts[job[w]]
                              /\ seen[w].cancel => cancelAsked[job[w]]
        /\ pc[w] = "write" => /\ seen[w].status \in {"RUNNING", "CANCELLED"}
                              /\ seen[w].cancel => cancelAsked[job[w]]
        /\ pc[w] \in {"settle", "write"} /\ outcome[w] = "cancelled" => cancelAsked[job[w]]

CancelsExisting ==
    \A c \in Clients : request[c].pc = "cancel" => status[request[c].job] # "NONE"

QueueInv == ResultIsLast /\ WorkedStarted /\ OrphansStarted /\ ReadHolds /\ CancelsExisting

(* How a worker's last transaction ends a job that is under way. *)
LEMMA SettleEnds ==
  ASSUME SingleProcess, RowLocks, TypeInv, HostInv, OwnInv, Board, QueueInv,
         NEW w \in Workers, SettleWrite(w), NEW k, k = job[w]
  PROVE  /\ k \in Jobs /\ Started(k) /\ pc[w] = "write" /\ pc' = [pc EXCEPT ![w] = "idle"]
         /\ status[k] = "CANCELLED" => cancelAsked[k]
         /\ UNCHANGED <<attempts, cancelAsked, request, up, orphans, job, seen, outcome>>
         /\ \/ UNCHANGED <<status, hasRun>>
            \/ /\ status' = [status EXCEPT ![k] = "CANCELLED"] /\ cancelAsked[k]
               /\ hasRun' = hasRun
            \/ status' = [status EXCEPT ![k] = "FAILED"] /\ hasRun' = hasRun
            \/ /\ status' = [status EXCEPT ![k] = "COMPLETED"]
               /\ hasRun' = [hasRun EXCEPT ![k] = TRUE]
<1>1. /\ k \in Jobs /\ pc[w] = "write" /\ pc' = [pc EXCEPT ![w] = "idle"]
      /\ UNCHANGED <<attempts, cancelAsked, request, up, orphans, job, seen, outcome>>
  BY DEF SettleWrite, Goto, TypeInv, BusyHasJob
<1>2. Started(k)
  BY <1>1 DEF QueueInv, WorkedStarted, Working
<1>3. status[k] = "CANCELLED" => cancelAsked[k]
  BY <1>1 DEF Board, EndInv, EndedIsCancelled, Working, Terminal
<1>4. /\ seen[w].status \in {"RUNNING", "CANCELLED"}
      /\ seen[w].cancel => cancelAsked[k]
      /\ outcome[w] = "cancelled" => cancelAsked[k]
  BY <1>1 DEF QueueInv, ReadHolds
<1>5. status = [status EXCEPT ![k] = status[k]]
  BY <1>1 DEF TypeInv, TypeOK
<1>6. CASE Cancelled(w)
  BY <1>1, <1>2, <1>3, <1>4, <1>5, <1>6 DEF Cancelled, Assign, Terminal
<1>7. CASE Failed(w)
  BY <1>1, <1>2, <1>3, <1>4, <1>5, <1>7 DEF Failed, Assign, Terminal
<1>8. CASE Discarded(w)
  BY <1>1, <1>2, <1>3, <1>4, <1>5, <1>8 DEF Discarded, Discard, Assign
<1>9. CASE Succeeded(w)
  BY <1>1, <1>2, <1>3, <1>4, <1>5, <1>9 DEF Succeeded, Assign
<1> QED
  BY <1>6, <1>7, <1>8, <1>9 DEF SettleWrite

LEMMA NextQueueInv ==
  ASSUME SingleProcess, RowLocks, TypeInv, HostInv, OwnInv, Board, QueueInv, [Next]_vars
  PROVE  QueueInv'
<1> USE DEF QueueInv, ResultIsLast, Started, WorkedStarted, OrphansStarted, ReadHolds,
            CancelsExisting, TypeInv, BusyHasJob
<1>1. ASSUME NEW c \in Clients, NEW k \in Jobs, SubmitLookup(c, k) PROVE QueueInv'
  BY <1>1 DEF SubmitLookup, rowVars, workerVars, TypeOK
<1>2. ASSUME NEW c \in Clients, SubmitInsert(c) PROVE QueueInv'
  <2>1. request[c].job \in Jobs
    BY <1>2, RequestType DEF SubmitInsert
  <2>2. \A k \in Jobs : status'[k] # status[k] => status[k] = "NONE" /\ status'[k] = "QUEUED"
    BY <1>2, <2>1 DEF SubmitInsert, Insert, InsertOnce, QueueRow, TypeOK
  <2>3. /\ UNCHANGED <<attempts, cancelAsked, hasRun, up, orphans, pc, job, seen, outcome>>
        /\ \A e \in Clients : request'[e] \in {request[e], Idle}
    BY <1>2 DEF SubmitInsert, workerVars, TypeOK
  <2>4. ResultIsLast' /\ WorkedStarted' /\ ReadHolds'
    BY <2>2, <2>3 DEF Working
  <2>5. OrphansStarted'
    BY <2>2, <2>3 DEF TypeOK
  <2>6. CancelsExisting'
    BY <2>2, <2>3, RequestType DEF Idle
  <2> QED
    BY <2>4, <2>5, <2>6
<1>3. ASSUME NEW c \in Clients, NEW k \in Jobs, CancelRead(c, k) PROVE QueueInv'
  BY <1>3 DEF CancelRead, rowVars, workerVars, TypeOK, JobStatus
<1>4. ASSUME NEW c \in Clients, CancelWrite(c) PROVE QueueInv'
  <2>1. request[c].job \in Jobs /\ status[request[c].job] # "NONE"
    BY <1>4, RequestType DEF CancelWrite
  <2>2. \A k \in Jobs :
          /\ cancelAsked[k] => cancelAsked'[k]
          /\ status'[k] # status[k] => status'[k] = "CANCELLED"
    BY <1>4, <2>1 DEF CancelWrite, TypeOK
  <2>3. /\ UNCHANGED <<attempts, hasRun, up, orphans, pc, job, seen, outcome>>
        /\ \A e \in Clients : request'[e] \in {request[e], Idle}
    BY <1>4 DEF CancelWrite, workerVars, TypeOK
  <2>4. ResultIsLast' /\ WorkedStarted' /\ ReadHolds'
    BY <2>2, <2>3 DEF Working
  <2>5. OrphansStarted'
    BY <2>2, <2>3 DEF TypeOK
  <2>6. CancelsExisting'
    BY <2>2, <2>3, RequestType DEF Idle
  <2> QED
    BY <2>4, <2>5, <2>6
<1>5. ASSUME NEW p \in Processes, RequeueRead(p) PROVE QueueInv'
  <2>1. UNCHANGED <<status, attempts, cancelAsked, hasRun, request, pc, job, seen, outcome>>
    BY <1>5 DEF RequeueRead, rowVars, workerVars
  <2>2. \A q \in Processes : q = p
    BY DEF SingleProcess
  <2>3. DOMAIN orphans'[p] = Running
    BY <1>5 DEF RequeueRead, TypeOK
  <2>4. OrphansStarted'
    BY <2>1, <2>2, <2>3 DEF Running
  <2> QED
    BY <2>1, <2>4
<1>6. ASSUME NEW p \in Processes, RequeueWrite(p) PROVE QueueInv'
  <2>1. \A w \in Workers : pc[w] = "idle"
    BY <1>6, NothingRunsAtStart DEF RequeueWrite
  <2>2. UNCHANGED <<attempts, cancelAsked, hasRun, request, pc, job, seen, outcome>>
    BY <1>6 DEF RequeueWrite, workerVars
  <2>3. \A k \in Jobs : /\ k \in DOMAIN orphans[p] => ~hasRun[k]
                        /\ k \notin DOMAIN orphans[p] => status'[k] = status[k]
                        /\ k \in DOMAIN orphans[p] => status'[k] \in {"QUEUED", "FAILED"}
    BY <1>6 DEF RequeueWrite, RequeuedAs
  <2>4. OrphansStarted'
    BY <1>6 DEF RequeueWrite, SingleProcess, TypeOK
  <2>5. CancelsExisting'
    BY <2>2, <2>3, RequestType
  <2> QED
    BY <2>1, <2>2, <2>3, <2>4, <2>5 DEF Working
<1>7. ASSUME NEW p \in Processes, Crash(p) PROVE QueueInv'
  <2>1. UNCHANGED <<status, attempts, cancelAsked, hasRun, request, job, seen, outcome>>
    BY <1>7 DEF Crash, rowVars
  <2>2. \A w \in Workers : pc'[w] \in {pc[w], "idle"}
    BY <1>7 DEF Crash, TypeOK
  <2>3. \A q \in Processes : up'[q] # "starting"
    BY <1>7 DEF Crash, SingleProcess, TypeOK
  <2> QED
    BY <2>1, <2>2, <2>3 DEF Working
<1>8. ASSUME NEW w \in Workers, ClaimRead(w) PROVE QueueInv'
  <2>1. UNCHANGED <<status, attempts, cancelAsked, hasRun, request, up, orphans, outcome>> /\ pc[w] = "idle"
    BY <1>8 DEF ClaimRead, rowVars
  <2>2. \A v \in Workers : v # w => pc'[v] = pc[v] /\ job'[v] = job[v] /\ seen'[v] = seen[v]
    BY <1>8 DEF ClaimRead, Goto, TypeOK
  <2>3. /\ pc'[w] = "claim" /\ seen'[w].attempts = attempts[job'[w]]
        /\ seen'[w].cancel = cancelAsked[job'[w]]
    BY <1>8 DEF ClaimRead, Goto, RowOf, TypeOK
  <2> QED
    BY <2>1, <2>2, <2>3 DEF Working
<1>9. ASSUME NEW w \in Workers, ClaimWrite(w) PROVE QueueInv'
  <2>1. /\ UNCHANGED <<cancelAsked, hasRun, request, up, orphans, job, seen, outcome>>
        /\ pc[w] = "claim" /\ job[w] \in Jobs
    BY <1>9 DEF ClaimWrite
  <2>2. \A k \in Jobs : /\ status'[k] = IF k = job[w] THEN "RUNNING" ELSE status[k]
                        /\ k # job[w] => attempts'[k] = attempts[k]
    BY <1>9 DEF ClaimWrite, TypeOK
  <2>3. \A v \in Workers : pc'[v] = IF v = w THEN "load" ELSE pc[v]
    BY <1>9 DEF ClaimWrite, Goto, TypeOK
  <2>4. status[job[w]] = "QUEUED" /\ ~hasRun[job[w]]
    BY <2>1 DEF OwnInv, ClaimedIsQueued
  <2>5. \A v \in Workers : v # w /\ pc[v] # "idle" => job[v] # job[w]
    BY <2>1 DEF OwnInv, OneOwner
  <2>6. \A p \in Processes : up[p] # "starting"
    BY <2>1, NothingRunsAtStart
  <2>7. ResultIsLast' /\ OrphansStarted'
    BY <2>1, <2>2, <2>4, <2>6
  <2>8. WorkedStarted'
    BY <2>1, <2>2, <2>3, <2>4, <2>5 DEF Working
  <2>9. ReadHolds'
    BY <2>1, <2>2, <2>3, <2>5
  <2>10. CancelsExisting'
    BY <2>1, <2>2, RequestType
  <2> QED
    BY <2>7, <2>8, <2>9, <2>10
<1>10. ASSUME NEW w \in Workers, ClaimCancelled(w) PROVE QueueInv'
  <2>1. /\ UNCHANGED <<attempts, cancelAsked, hasRun, request, up, orphans, job, seen, outcome>>
        /\ pc[w] = "claim" /\ job[w] \in Jobs
    BY <1>10 DEF ClaimCancelled
  <2>2. \A k \in Jobs : status'[k] = IF k = job[w] THEN "CANCELLED" ELSE status[k]
    BY <1>10 DEF ClaimCancelled, TypeOK
  <2>3. \A v \in Workers : pc'[v] = IF v = w THEN "idle" ELSE pc[v]
    BY <1>10 DEF ClaimCancelled, Goto, TypeOK
  <2>4. \A p \in Processes : up[p] # "starting"
    BY <2>1, NothingRunsAtStart
  <2>5. CancelsExisting'
    BY <2>1, <2>2, RequestType
  <2> QED
    BY <2>1, <2>2, <2>3, <2>4, <2>5 DEF Working
<1>11. ASSUME NEW w \in Workers, Load(w) \/ Execute(w) PROVE QueueInv'
  <2>1. UNCHANGED <<status, attempts, cancelAsked, hasRun, request, up, orphans, job, seen>>
    BY <1>11 DEF Load, Execute, rowVars
  <2>2. \A v \in Workers : v # w => pc'[v] = pc[v] /\ outcome'[v] = outcome[v]
    BY <1>11 DEF Load, Execute, Goto, TypeOK
  <2>3. /\ pc[w] \in Working /\ pc'[w] \in {"engine", "settle"}
        /\ outcome'[w] = "cancelled" => cancelAsked[job[w]]
    BY <1>11 DEF Load, Execute, Goto, TypeOK, Working
  <2> QED
    BY <2>1, <2>2, <2>3 DEF Working
<1>12. ASSUME NEW w \in Workers, SettleRead(w) PROVE QueueInv'
  <2>1. UNCHANGED <<status, attempts, cancelAsked, hasRun, request, up, orphans, job, outcome>>
    BY <1>12 DEF SettleRead, rowVars
  <2>2. \A v \in Workers : v # w => pc'[v] = pc[v] /\ seen'[v] = seen[v]
    BY <1>12 DEF SettleRead, Goto, TypeOK
  <2>3. /\ pc[w] = "settle" /\ pc'[w] = "write" /\ seen'[w].status = status[job[w]]
        /\ seen'[w].cancel = cancelAsked[job[w]]
    BY <1>12 DEF SettleRead, Goto, RowOf, TypeOK
  <2> QED
    BY <2>1, <2>2, <2>3 DEF Working
<1>13. ASSUME NEW w \in Workers, SettleWrite(w) PROVE QueueInv'
  <2> DEFINE k == job[w]
  <2>1. /\ k \in Jobs /\ Started(k) /\ pc[w] = "write"
        /\ UNCHANGED <<attempts, cancelAsked, request, up, orphans, job, seen, outcome>>
    BY <1>13, SettleEnds
  <2>2. /\ \A i \in Jobs \ {k} : status'[i] = status[i] /\ hasRun'[i] = hasRun[i]
        /\ hasRun'[k] => status'[k] = "COMPLETED"
        /\ status'[k] # "NONE"
    BY <1>13, <2>1, SettleEnds DEF TypeOK
  <2>3. \A v \in Workers : pc'[v] = IF v = w THEN "idle" ELSE pc[v]
    BY <1>13 DEF SettleWrite, Goto, TypeOK
  <2>4. \A v \in Workers : v # w /\ pc[v] # "idle" => job[v] # k
    BY <2>1 DEF OwnInv, OneOwner
  <2>5. \A p \in Processes : up[p] # "starting"
    BY <2>1, NothingRunsAtStart
  <2>6. ResultIsLast'
    BY <2>2
  <2>7. WorkedStarted'
    BY <2>1, <2>2, <2>3, <2>4 DEF Working
  <2>8. CancelsExisting'
    BY <2>1, <2>2, RequestType
  <2> QED
    BY <2>1, <2>3, <2>5, <2>6, <2>7, <2>8
<1>14. ASSUME NEW w \in Workers, RunRefused(w) \/ TransactionFails(w) PROVE QueueInv'
  <2>1. UNCHANGED <<status, attempts, cancelAsked, hasRun, request, up, orphans, job, seen>>
    BY <1>14 DEF RunRefused, TransactionFails, rowVars
  <2>2. \A v \in Workers : v # w => pc'[v] = pc[v] /\ outcome'[v] = outcome[v]
    BY <1>14 DEF RunRefused, TransactionFails, Goto, TypeOK
  <2>3. pc'[w] = "idle" \/ (pc[w] \in Working /\ pc'[w] = "settle" /\ outcome'[w] = "error")
    BY <1>14 DEF RunRefused, TransactionFails, Goto, TypeOK, Working
  <2> QED
    BY <2>1, <2>2, <2>3 DEF Working
<1>15. CASE UNCHANGED vars
  BY <1>15 DEF vars
<1> QED
  BY <1>1, <1>2, <1>3, <1>4, <1>5, <1>6, <1>7, <1>8, <1>9, <1>10, <1>11, <1>12, <1>13, <1>14, <1>15
  DEF Next, Request, ProcessStep, WorkerStep, Settle

(* Each step of the code is a step of the queue, or none of its state      *)
(* changes.                                                                *)
LEMMA QueueStep ==
  ASSUME SingleProcess, RowLocks, TypeInv, HostInv, OwnInv, Board, AttemptsInv, QueueInv,
         [Next]_vars
  PROVE  [Queue!Next]_<<status, attempts, cancelAsked, hasRun>>
<1>1. ASSUME NEW c \in Clients, SubmitInsert(c)
      PROVE  Queue!Next \/ UNCHANGED <<status, attempts, cancelAsked, hasRun>>
  <2>1. PICK k \in Jobs : k = request[c].job
    BY <1>1, RequestType DEF SubmitInsert, TypeInv
  <2>2. CASE status[k] = "NONE"
    <3>1. Queue!Submit(k)
      BY <1>1, <2>1, <2>2 DEF SubmitInsert, Insert, InsertOnce, QueueRow, Queue!Submit
    <3> QED
      BY <3>1 DEF Queue!Next
  <2>3. CASE status[k] # "NONE"
    BY <1>1, <2>1, <2>3 DEF SubmitInsert, Insert, InsertOnce
  <2> QED
    BY <2>2, <2>3
<1>2. ASSUME NEW c \in Clients, CancelWrite(c)
      PROVE  Queue!Next
  <2>1. PICK k \in Jobs : k = request[c].job
    BY <1>2, RequestType DEF CancelWrite, TypeInv
  <2>2. status[k] # "NONE"
    BY <1>2, <2>1 DEF CancelWrite, QueueInv, CancelsExisting
  <2>3. status = [status EXCEPT ![k] = status[k]]
    BY DEF TypeInv, TypeOK
  <2>4. Queue!Cancel(k)
    BY <1>2, <2>1, <2>2, <2>3 DEF CancelWrite, Queue!Cancel
  <2> QED
    BY <2>4 DEF Queue!Next
<1>3. ASSUME NEW p \in Processes, RequeueWrite(p)
      PROVE  Queue!Next
  <2> DEFINE S == DOMAIN orphans[p]
  <2>1. up[p] = "starting" /\ UNCHANGED <<attempts, cancelAsked, hasRun>> /\ S \subseteq Jobs
    BY <1>3 DEF RequeueWrite, TypeInv, TypeOK
  <2>2. \A k \in S : Queue!Underway(k)
    BY <2>1 DEF QueueInv, OrphansStarted, Started, Board, EndInv, OrphansRunning, Queue!Underway
  <2>3. \A k \in S : orphans[p][k] = attempts[k]
    BY <2>1 DEF AttemptsInv, OrphansCurrent
  <2>4. status' = [k \in Jobs |-> IF k \notin S THEN status[k]
                                 ELSE IF attempts[k] < MaxAttempts THEN "QUEUED" ELSE "FAILED"]
    BY <1>3, <2>3 DEF RequeueWrite, RequeuedAs, AttemptsLeft
  <2>5. Queue!Return(S)
    BY <2>1, <2>2, <2>4 DEF Queue!Return
  <2> QED
    BY <2>1, <2>5 DEF Queue!Next
<1>4. ASSUME NEW w \in Workers, ClaimWrite(w)
      PROVE  Queue!Next
  <2>1. PICK k \in Jobs : k = job[w]
    BY <1>4 DEF ClaimWrite, TypeInv, BusyHasJob
  <2>2. status[k] = "QUEUED" /\ seen[w].attempts = attempts[k] /\ attempts[k] < MaxAttempts
    BY <1>4, <2>1
    DEF ClaimWrite, OwnInv, ClaimedIsQueued, QueueInv, ReadHolds, AttemptsInv, BudgetKept
  <2>3. attempts' = [attempts EXCEPT ![k] = @ + 1]
    BY <1>4, <2>1, <2>2 DEF ClaimWrite
  <2>4. Queue!Start(k)
    BY <1>4, <2>1, <2>2, <2>3 DEF ClaimWrite, Queue!Start
  <2> QED
    BY <2>4 DEF Queue!Next
<1>5. ASSUME NEW w \in Workers, ClaimCancelled(w)
      PROVE  Queue!Next
  <2>1. PICK k \in Jobs : k = job[w]
    BY <1>5 DEF ClaimCancelled, TypeInv, BusyHasJob
  <2>2. status[k] = "QUEUED" /\ cancelAsked[k]
    BY <1>5, <2>1 DEF ClaimCancelled, OwnInv, ClaimedIsQueued, QueueInv, ReadHolds
  <2>3. Queue!Drop(k)
    BY <1>5, <2>1, <2>2 DEF ClaimCancelled, Queue!Drop
  <2> QED
    BY <2>3 DEF Queue!Next
<1>6. ASSUME NEW w \in Workers, SettleWrite(w)
      PROVE  Queue!Next \/ UNCHANGED <<status, attempts, cancelAsked, hasRun>>
  <2>1. PICK k \in Jobs : k = job[w]
    BY <1>6 DEF SettleWrite, TypeInv, BusyHasJob
  <2>2. /\ Started(k) /\ (status[k] = "CANCELLED" => cancelAsked[k])
        /\ UNCHANGED <<attempts, cancelAsked>>
    BY <1>6, <2>1, SettleEnds
  <2>3. Queue!Underway(k)
    BY <2>2 DEF Started, Queue!Underway
  <2>4. hasRun = [hasRun EXCEPT ![k] = FALSE]
    BY <2>2 DEF Started, TypeInv, TypeOK
  <2>5. \/ UNCHANGED <<status, hasRun>>
        \/ /\ status' = [status EXCEPT ![k] = "CANCELLED"] /\ cancelAsked[k]
           /\ hasRun' = hasRun
        \/ status' = [status EXCEPT ![k] = "FAILED"] /\ hasRun' = hasRun
        \/ /\ status' = [status EXCEPT ![k] = "COMPLETED"]
           /\ hasRun' = [hasRun EXCEPT ![k] = TRUE]
    BY <1>6, <2>1, SettleEnds
  <2>6. \/ UNCHANGED <<status, hasRun>>
        \/ \E how \in Queue!Ended : Queue!End(k, how)
    BY <2>2, <2>3, <2>4, <2>5 DEF Queue!End, Queue!Ended
  <2> QED
    BY <2>2, <2>6 DEF Queue!Next
<1>7. CASE UNCHANGED <<status, attempts, cancelAsked, hasRun>>
  BY <1>7
<1> QED
  BY <1>1, <1>2, <1>3, <1>4, <1>5, <1>6, <1>7
  DEF Next, Request, ProcessStep, WorkerStep, Settle, SubmitLookup, CancelRead, RequeueRead, Crash,
      ClaimRead, Load, Execute, SettleRead, RunRefused, TransactionFails, rowVars, vars

(* On PostgreSQL with one process the tables are the queue that users are  *)
(* promised, for any number of jobs, requests, workers, faults and         *)
(* crashes: queued once, started within the budget and never after a       *)
(* result, and final unless cancelled.                                     *)
THEOREM JobsImplementQueue == SingleProcess /\ RowLocks => (Spec => ImplementsQueue)
<1> SUFFICES ASSUME SingleProcess, RowLocks PROVE Spec => ImplementsQueue
  OBVIOUS
<1>1. Init => Queue!Init
  BY DEF Init, Queue!Init
<1>2. Init => AttemptsInv /\ QueueInv
  BY JobsAssumption DEF Init, AttemptsInv, BudgetKept, ClaimsWithinBudget, OrphansCurrent, QueueInv,
     ResultIsLast, Started, WorkedStarted, OrphansStarted, ReadHolds, CancelsExisting, Working, Idle
<1>3. TypeInv /\ HostInv /\ AttemptsInv /\ [Next]_vars => AttemptsInv'
  BY NextAttemptsInv
<1>4. TypeInv /\ HostInv /\ OwnInv /\ [Next]_vars => OwnInv'
  BY NextOwnInv
<1>5. TypeInv /\ HostInv /\ OwnInv /\ Board /\ [Next]_vars => Board'
  BY NextBoard
<1>6. TypeInv /\ HostInv /\ OwnInv /\ Board /\ QueueInv /\ [Next]_vars => QueueInv'
  BY NextQueueInv
<1>7. TypeInv /\ HostInv /\ OwnInv /\ Board /\ AttemptsInv /\ QueueInv /\ [Next]_vars
          => [Queue!Next]_<<status, attempts, cancelAsked, hasRun>>
  BY QueueStep
<1> QED
  BY <1>1, <1>2, <1>3, <1>4, <1>5, <1>6, <1>7, InitBoard, InitTypeInv, NextTypeInv, NextHostInv, PTL
  DEF Spec, ImplementsQueue, Queue!Spec
=============================================================================
