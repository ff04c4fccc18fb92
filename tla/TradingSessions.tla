-------------------------- MODULE TradingSessions --------------------------
(***************************************************************************)
(* One paper trading session: the row in trading_sessions, the API         *)
(* requests that move it between states (trading/sessions.py,              *)
(* api/v1/trading.py), and the runner threads that drive it through the    *)
(* engine record by record and project the result (trading/runner.py,      *)
(* trading/projection.py).                                                 *)
(*                                                                         *)
(* Sessions share no state but the per-process thread table, which is      *)
(* keyed by session, so one session is modelled.                           *)
(*                                                                         *)
(* A transaction is one step when its outcome is decided by a conditional  *)
(* UPDATE, and two steps - a read, then the write that commits - when the  *)
(* code decides on a value it loaded earlier.  Nothing can change a row    *)
(* between the first UPDATE of a transaction and its commit (row lock on   *)
(* PostgreSQL, write lock on SQLite), so that part is one step.            *)
(***************************************************************************)
EXTENDS Integers, FiniteSets

CONSTANTS
    Processes,          \* API worker processes (uvicorn --workers), each with its RUNNER
    Clients,            \* requests being served at the same time
    NoProcess,          \* a client no process is serving
    Records,            \* length of the dataset
    Orders,             \* the orders the (deterministic) engine run submits
    SubmitAt,           \* the record at which an order is submitted
    FillAt,             \* the record at which it fills; Records + 1 is the close of
                        \* the final slice, Records + 2 is never
    FailingRecords,     \* records on which the strategy raises
    ProjectionInterval, \* PROJECTION_INTERVAL
    MaxStarts,          \* bound on accepted start and resume requests
    MaxFaults,          \* bound on exceptions raised in runner threads
    MaxCrashes          \* bound on process crashes

ASSUME TradingAssumption ==
    /\ NoProcess \notin Processes
    /\ Records \in Nat
    /\ SubmitAt \in [Orders -> 1..(Records + 1)]
    /\ FillAt \in [Orders -> 1..(Records + 2)]
    /\ \A o \in Orders : SubmitAt[o] <= FillAt[o]
    /\ IsFiniteSet(Orders)
    /\ ProjectionInterval \in Nat \ {0}
    /\ MaxStarts \in Nat
    /\ MaxFaults \in Nat
    /\ MaxCrashes \in Nat

VARIABLES
    status,     \* TradingSession.status
    killed,     \* TradingSession.kill_switch_engaged
    client,     \* where each request is: idle, resume (flag read), launch (committed)
    via,        \* the process serving it
    pc,         \* the session's runner thread in each process
    progress,   \* the engine: records processed, Records + 1 once the final slice closed
    fillsSeen,  \* fills_seen in the runner loop
    terminal,   \* the status the runner will write when it ends
    seen,       \* the status it loaded in its last transaction
    proj,       \* the projection tables and columns
    starts,     \* bound: accepted starts and resumes
    claims,     \* history: successful claims since the last accepted resume
    overrun,    \* history: records processed since the session left RUNNING
    lost,       \* history: a runner died without recording how it ended
    faults, crashes

clientVars  == <<client, via>>
runnerVars  == <<progress, fillsSeen, terminal, seen>>
historyVars == <<claims, overrun, lost>>
boundVars   == <<starts, faults, crashes>>
vars == <<status, killed, client, via, pc, progress, fillsSeen, terminal, seen,
          proj, starts, claims, overrun, lost, faults, crashes>>
-----------------------------------------------------------------------------
SessionStatus == {"CREATED", "STARTING", "RUNNING", "PAUSED", "STOPPING",
                  "STOPPED", "FAILED", "HALTED"}

(* SessionStatus.is_terminal. *)
Terminal == {"STOPPED", "FAILED", "HALTED"}

(* Where a runner thread is. "idle": no live thread for the session.       *)
(* "exit": run_session has returned, but the thread is still alive.        *)
RunnerPc == {"idle", "load", "claim", "check", "advance", "project", "finish",
             "write", "except", "exit"}

(* From the claim to the commit of the final status. *)
Active == {"check", "advance", "project", "finish", "write", "except"}

(* The engine's book after i records: it depends on i alone, because the   *)
(* dataset, the parameters, the strategy id and the seed are all stored.   *)
FilledBy(i) == {o \in Orders : FillAt[o] <= i}

OrderStatus(o, i) == IF i < SubmitAt[o] THEN "absent"
                     ELSE IF i < FillAt[o] THEN "working" ELSE "filled"

OrderRow == {"absent", "working", "filled"}

(* An order the engine knows is inserted, or the stored row is brought to  *)
(* where the engine has it.                                                *)
OrderAfter(o, i) == IF OrderStatus(o, i) = "absent" THEN proj.orders[o]
                    ELSE OrderStatus(o, i)

(* project(): orders upserted by sequence, fills appended, positions       *)
(* replaced, the record count and the valuation columns overwritten.       *)
Projected(i) ==
    [orders    |-> [o \in Orders |-> OrderAfter(o, i)],
     fills     |-> proj.fills \cup FilledBy(i),
     positions |-> FilledBy(i),
     records   |-> IF i > Records THEN Records ELSE i]

EmptyProjection ==
    [orders |-> [o \in Orders |-> "absent"], fills |-> {}, positions |-> {}, records |-> 0]

Projections == [orders : [Orders -> OrderRow], fills : SUBSET Orders,
                positions : SUBSET Orders, records : 0..Records]

(* A session freshly created: sessions.create leaves the row CREATED. *)
Init ==
    /\ status = "CREATED"
    /\ killed = FALSE
    /\ client = [c \in Clients |-> "idle"]
    /\ via = [c \in Clients |-> NoProcess]
    /\ pc = [p \in Processes |-> "idle"]
    /\ progress = [p \in Processes |-> 0]
    /\ fillsSeen = [p \in Processes |-> 0]
    /\ terminal = [p \in Processes |-> "STOPPED"]
    /\ seen = [p \in Processes |-> "CREATED"]
    /\ proj = EmptyProjection
    /\ starts = 0
    /\ claims = 0
    /\ overrun = [p \in Processes |-> 0]
    /\ lost = FALSE
    /\ faults = 0
    /\ crashes = 0
-----------------------------------------------------------------------------
(***************************************************************************)
(* API requests.  _transition is one conditional UPDATE: the status is in  *)
(* its WHERE clause, and a request that matches no row is refused and      *)
(* changes nothing.  The mutant is the read-modify-write it replaced.      *)
(***************************************************************************)
TransitionUnchecked(from, to) == status' = to
Transition(from, to) == /\ status \in from
                        /\ status' = to

(* A start or resume has committed and is about to call RUNNER.launch. *)
AcceptedBy(c, p) ==
    /\ starts < MaxStarts
    /\ starts' = starts + 1
    /\ client' = [client EXCEPT ![c] = "launch"]
    /\ via' = [via EXCEPT ![c] = p]

Start(c) ==
    /\ client[c] = "idle"
    /\ Transition({"CREATED"}, "STARTING")
    /\ \E p \in Processes : AcceptedBy(c, p)
    /\ UNCHANGED <<killed, pc, runnerVars, proj, historyVars, faults, crashes>>

Pause ==
    /\ Transition({"RUNNING"}, "PAUSED")
    /\ UNCHANGED <<killed, clientVars, pc, runnerVars, proj, historyVars, boundVars>>

(* resume() first loads the row and refuses a killed session ... *)
ResumeCheck(c) ==
    /\ client[c] = "idle"
    /\ ~killed
    /\ client' = [client EXCEPT ![c] = "resume"]
    /\ \E p \in Processes : via' = [via EXCEPT ![c] = p]
    /\ UNCHANGED <<status, killed, pc, runnerVars, proj, historyVars, boundVars>>

(* ... and then moves PAUSED to STARTING, not to RUNNING (the mutant), so  *)
(* that a runner must claim it.                                            *)
ResumesRunning == "RUNNING"
ResumesTo == "STARTING"

ResumeCommit(c) ==
    /\ client[c] = "resume"
    /\ Transition({"PAUSED"}, ResumesTo)
    /\ AcceptedBy(c, via[c])
    /\ claims' = 0
    /\ UNCHANGED <<killed, pc, runnerVars, proj, overrun, lost, faults, crashes>>

ResumeRefused(c) ==
    /\ client[c] = "resume"
    /\ status # "PAUSED"
    /\ client' = [client EXCEPT ![c] = "idle"]
    /\ via' = [via EXCEPT ![c] = NoProcess]
    /\ UNCHANGED <<status, killed, pc, runnerVars, proj, historyVars, boundVars>>

RequestStop ==
    /\ Transition({"CREATED", "STARTING", "RUNNING", "PAUSED"}, "STOPPING")
    /\ UNCHANGED <<killed, clientVars, pc, runnerVars, proj, historyVars, boundVars>>

(* engage_kill_switch assigns the status whatever it was: no guard. *)
EngageKillSwitch ==
    /\ killed' = TRUE
    /\ status' = "HALTED"
    /\ UNCHANGED <<clientVars, pc, runnerVars, proj, historyVars, boundVars>>

(* SessionRunner.launch, after the request committed: a live thread for    *)
(* the session, whatever it is doing, means nothing is launched.           *)
Launch(c) ==
    /\ client[c] = "launch"
    /\ client' = [client EXCEPT ![c] = "idle"]
    /\ via' = [via EXCEPT ![c] = NoProcess]
    /\ LET p == via[c] IN
       IF pc[p] # "idle"
       THEN UNCHANGED <<pc, runnerVars>>
       ELSE /\ pc' = [pc EXCEPT ![p] = "load"]
            /\ progress' = [progress EXCEPT ![p] = 0]
            /\ fillsSeen' = [fillsSeen EXCEPT ![p] = 0]
            /\ terminal' = [terminal EXCEPT ![p] = "STOPPED"]
            /\ seen' = [seen EXCEPT ![p] = "CREATED"]
    /\ UNCHANGED <<status, killed, proj, historyVars, boundVars>>
-----------------------------------------------------------------------------
(***************************************************************************)
(* The runner thread of process p: _run_session_unscoped.                  *)
(***************************************************************************)
Goto(p, to) == pc' = [pc EXCEPT ![p] = to]

(* _load read and accepted the row; what it refuses is RunnerRaises. *)
Load(p) ==
    /\ pc[p] = "load"
    /\ Goto(p, "claim")
    /\ UNCHANGED <<status, killed, clientVars, runnerVars, proj, historyVars, boundVars>>

(* The exclusive claim: UPDATE ... WHERE status = STARTING. *)
Claimable == status = "STARTING"

Claim(p) ==
    /\ pc[p] = "claim"
    /\ Claimable
    /\ status' = "RUNNING"
    /\ claims' = claims + 1
    /\ overrun' = [q \in Processes |-> 0]
    /\ Goto(p, "check")
    /\ UNCHANGED <<killed, clientVars, runnerVars, proj, lost, boundVars>>

(* rowcount = 0: somebody else got there first, and run_session returns. *)
ClaimRefused(p) ==
    /\ pc[p] = "claim"
    /\ ~Claimable
    /\ Goto(p, "exit")
    /\ UNCHANGED <<status, killed, clientVars, runnerVars, proj, historyVars, boundVars>>

(* _should_continue; the mutant forgets that PAUSED also ends the loop. *)
KeepGoingWhilePaused == status \in {"RUNNING", "PAUSED"}
KeepGoing == status = "RUNNING"

(* What the loop makes of a status that is not RUNNING; the mutant writes  *)
(* back the status it read.                                                *)
EndsAsRead(s) == s
EndsAs(s) == IF s \in {"PAUSED", "HALTED"} THEN s ELSE "STOPPED"

(* The top of the loop, with a record left: _should_continue. *)
ShouldContinue(p) ==
    /\ pc[p] = "check"
    /\ progress[p] < Records
    /\ \/ /\ KeepGoing
          /\ Goto(p, "advance")
          /\ UNCHANGED terminal
       \/ /\ ~KeepGoing
          /\ Goto(p, "finish")
          /\ terminal' = [terminal EXCEPT ![p] = EndsAs(status)]
    /\ UNCHANGED <<status, killed, clientVars, progress, fillsSeen, seen, proj,
                   historyVars, boundVars>>

(* engine.close_final_slice completes the last instant: one more point of  *)
(* progress; the mutant leaves it open.                                    *)
FinalSliceOpen == Records
FinalSliceClosed == Records + 1

(* The data ran out: close_final_slice, without another look at the row. *)
CloseFinalSlice(p) ==
    /\ pc[p] = "check"
    /\ progress[p] >= Records
    /\ progress' = [progress EXCEPT ![p] = FinalSliceClosed]
    /\ terminal' = [terminal EXCEPT ![p] = "STOPPED"]
    /\ Goto(p, "finish")
    /\ UNCHANGED <<status, killed, clientVars, fillsSeen, seen, proj, historyVars, boundVars>>

(* A fill always forces a projection; otherwise one record in              *)
(* ProjectionInterval does, and in the mutant nothing else.                *)
ProjectionByInterval(p, i) == i % ProjectionInterval = 0
ProjectionDue(p, i) == \/ i % ProjectionInterval = 0
                       \/ Cardinality(FilledBy(i)) # fillsSeen[p]

Advance(p) ==
    /\ pc[p] = "advance"
    /\ progress' = [progress EXCEPT ![p] = @ + 1]
    /\ overrun' = [overrun EXCEPT ![p] = IF status = "RUNNING" THEN @ ELSE @ + 1]
    /\ LET i == progress[p] + 1 IN
       \/ /\ i \in FailingRecords
          /\ terminal' = [terminal EXCEPT ![p] = "FAILED"]
          /\ Goto(p, "finish")
          /\ UNCHANGED fillsSeen
       \/ /\ i \notin FailingRecords
          /\ ProjectionDue(p, i)
          /\ fillsSeen' = [fillsSeen EXCEPT ![p] = Cardinality(FilledBy(i))]
          /\ Goto(p, "project")
          /\ UNCHANGED terminal
       \/ /\ i \notin FailingRecords
          /\ ~ProjectionDue(p, i)
          /\ Goto(p, "check")
          /\ UNCHANGED <<fillsSeen, terminal>>
    /\ UNCHANGED <<status, killed, clientVars, seen, proj, claims, lost, boundVars>>

Project(p) ==
    /\ pc[p] = "project"
    /\ proj' = Projected(progress[p])
    /\ Goto(p, "check")
    /\ UNCHANGED <<status, killed, clientVars, runnerVars, historyVars, boundVars>>

(* The final transaction loads the row ... *)
FinishRead(p) ==
    /\ pc[p] = "finish"
    /\ seen' = [seen EXCEPT ![p] = status]
    /\ Goto(p, "write")
    /\ UNCHANGED <<status, killed, clientVars, progress, fillsSeen, terminal, proj,
                   historyVars, boundVars>>

(* The status column the final UPDATE leaves: untouched when the loaded    *)
(* row was HALTED, or already held the value assigned to it (no net change *)
(* means the column is not in the UPDATE).  The mutant replaces RUNNING    *)
(* only.                                                                   *)
FinalStatusOfRunning(p) == IF seen[p] = "RUNNING" THEN terminal[p] ELSE status
FinalStatus(p) == IF seen[p] \in {"HALTED", terminal[p]} THEN status ELSE terminal[p]

(* ... projects the engine's last state and commits the outcome. *)
FinishWrite(p) ==
    /\ pc[p] = "write"
    /\ proj' = Projected(progress[p])
    /\ status' = FinalStatus(p)
    /\ Goto(p, "exit")
    /\ UNCHANGED <<killed, clientVars, runnerVars, historyVars, boundVars>>

(* Anything in the thread may raise: a refused or vanished row, a          *)
(* projection mismatch, a lock timeout.                                    *)
RunnerRaises(p) ==
    /\ faults < MaxFaults
    /\ faults' = faults + 1
    /\ pc[p] \in {"load", "claim"} \cup (Active \ {"except"})
    /\ Goto(p, "except")
    /\ UNCHANGED <<status, killed, clientVars, runnerVars, proj, historyVars, starts, crashes>>

(* SessionRunner._run_session's handler: FAILED, whatever the row holds. *)
RecordFailure(p) ==
    /\ pc[p] = "except"
    /\ status' = "FAILED"
    /\ Goto(p, "exit")
    /\ UNCHANGED <<killed, clientVars, runnerVars, proj, historyVars, boundVars>>

(* The handler's own transaction fails: the thread dies, the row stays. *)
RecordFailureRaises(p) ==
    /\ pc[p] = "except"
    /\ faults < MaxFaults
    /\ faults' = faults + 1
    /\ lost' = TRUE
    /\ Goto(p, "exit")
    /\ UNCHANGED <<status, killed, clientVars, runnerVars, proj, claims, overrun, starts, crashes>>

(* The thread function has returned and is_alive() turns false. *)
ThreadEnds(p) ==
    /\ pc[p] = "exit"
    /\ Goto(p, "idle")
    /\ UNCHANGED <<status, killed, clientVars, runnerVars, proj, historyVars, boundVars>>

(* The process dies with its thread and the requests it was serving, and   *)
(* is restarted: nothing at startup looks at trading sessions.             *)
Crash(p) ==
    /\ crashes < MaxCrashes
    /\ crashes' = crashes + 1
    /\ lost' = (lost \/ pc[p] \in Active)
    /\ Goto(p, "idle")
    /\ client' = [c \in Clients |-> IF via[c] = p THEN "idle" ELSE client[c]]
    /\ via' = [c \in Clients |-> IF via[c] = p THEN NoProcess ELSE via[c]]
    /\ UNCHANGED <<status, killed, runnerVars, proj, claims, overrun, starts, faults>>
-----------------------------------------------------------------------------
Request == \/ \E c \in Clients : \/ Start(c) \/ ResumeCheck(c)
                                 \/ ResumeCommit(c) \/ ResumeRefused(c)
           \/ Pause \/ RequestStop \/ EngageKillSwitch

RunnerStep(p) == \/ Load(p) \/ Claim(p) \/ ClaimRefused(p)
                 \/ ShouldContinue(p) \/ CloseFinalSlice(p) \/ Advance(p)
                 \/ Project(p) \/ FinishRead(p) \/ FinishWrite(p)
                 \/ RecordFailure(p) \/ ThreadEnds(p)

Fault(p) == RunnerRaises(p) \/ RecordFailureRaises(p) \/ Crash(p)

Next == \/ Request
        \/ \E c \in Clients : Launch(c)
        \/ \E p \in Processes : RunnerStep(p) \/ Fault(p)

Spec == Init /\ [][Next]_vars

(* A live thread is scheduled, and a request that committed goes on to     *)
(* call launch; nobody is obliged to press a button, and nothing fails by  *)
(* necessity.                                                              *)
Fairness == /\ \A p \in Processes : WF_vars(RunnerStep(p))
            /\ \A c \in Clients : WF_vars(Launch(c)) /\ WF_vars(ResumeCommit(c) \/ ResumeRefused(c))

FairSpec == Spec /\ Fairness
-----------------------------------------------------------------------------
(* Every variable holds a value of its column or local's type. *)
TypeOK ==
    /\ status \in SessionStatus
    /\ killed \in BOOLEAN
    /\ client \in [Clients -> {"idle", "resume", "launch"}]
    /\ via \in [Clients -> Processes \cup {NoProcess}]
    /\ pc \in [Processes -> RunnerPc]
    /\ progress \in [Processes -> 0..(Records + 1)]
    /\ fillsSeen \in [Processes -> Nat]
    /\ terminal \in [Processes -> {"STOPPED", "PAUSED", "HALTED", "FAILED"}]
    /\ seen \in [Processes -> SessionStatus]
    /\ proj \in Projections
    /\ starts \in Nat
    /\ claims \in Nat
    /\ overrun \in [Processes -> Nat]
    /\ lost \in BOOLEAN
    /\ faults \in Nat
    /\ crashes \in Nat

(* However many start requests and runners race, from one resume to the    *)
(* next the session is claimed once: two runners would feed bars into one  *)
(* portfolio (the conditional UPDATEs of _transition and run_session).     *)
ClaimedOnce == claims <= 1

(* A session shown as RUNNING has a runner that has not yet committed how  *)
(* it ended, unless a runner died without recording anything: RUNNING      *)
(* means "a runner has claimed this session".                              *)
RunningHasRunner ==
    status = "RUNNING" /\ ~lost => \E p \in Processes : pc[p] \in Active

(* "The session will halt after the current record": from the moment a     *)
(* stop, pause, kill or failure takes the session out of RUNNING until the *)
(* next claim, a runner processes at most one more record.                 *)
AtMostOneMoreRecord == \A p \in Processes : overrun[p] <= 1

(* "A fill always forces a write": before a runner looks for the next      *)
(* record, every fill the engine has produced is in session_fills.         *)
EveryFillProjected ==
    \A p \in Processes :
        pc[p] \in {"check", "advance"} => FilledBy(progress[p]) \subseteq proj.fills

(* A stopped session that replayed its whole dataset shows the finished    *)
(* book: every fill, positions to match, and every order as it ended.      *)
CompletedIsFullyProjected ==
    status = "STOPPED" /\ proj.records = Records /\ Records > 0 =>
        /\ proj.fills = FilledBy(Records + 1)
        /\ proj.positions = proj.fills
        /\ \A o \in Orders : proj.orders[o] = OrderStatus(o, Records + 1)

(* An order row never reads as still working beside the fill that          *)
(* completed it.                                                           *)
FilledOrderReadsFilled == \A o \in proj.fills : proj.orders[o] = "filled"

(* Until a session is resumed, and so replayed, its order rows and its     *)
(* fills agree.                                                            *)
FirstRunOrdersAgree == starts <= 1 => FilledOrderReadsFilled

(* The tables agree with the engine when a session is over, and with each  *)
(* other for as long as it has not been resumed.                           *)
TablesAgree == CompletedIsFullyProjected /\ FirstRunOrdersAgree

(* At most one runner holds the session at a time. *)
ExclusiveRunner ==
    \A p, q \in Processes : pc[p] \in Active /\ pc[q] \in Active => p = q

(* HALTED is terminal. *)
HaltedIsTerminal == [][status = "HALTED" => status' = "HALTED"]_status

(* STOPPED and FAILED are terminal. *)
StoppedOrFailedIsTerminal ==
    [][(status \in {"STOPPED", "FAILED"}) => status' = status]_status

(* A stop request is not undone: out of STOPPING a session only ends. *)
StopIsNotUndone == [][status = "STOPPING" => status' \in Terminal]_status

(* A resume is not discarded: "Session resumed; queued to continue."  A    *)
(* queued session is not written STOPPED by a runner of its past.          *)
QueuedIsNotStopped == [][status = "STARTING" => status' # "STOPPED"]_status

(* A stop request is eventually carried out. *)
StopCompletes == status = "STOPPING" ~> status \in Terminal

(* A started or resumed session is eventually taken up, stopped or failed. *)
StartingIsTakenUp == status = "STARTING" ~> status # "STARTING"

(* A stop that reaches a session some runner is still processing is        *)
(* eventually carried out, unless that runner dies without a word.         *)
StopOfRunningCompletes ==
    (status = "STOPPING" /\ \E p \in Processes : pc[p] \in {"check", "advance", "project"})
        ~> status \in Terminal \/ lost
=============================================================================
