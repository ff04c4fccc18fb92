----------------------- MODULE TradingSessionsProofs -----------------------
(***************************************************************************)
(* Proofs about TradingSessions, for any number of processes, concurrent   *)
(* requests, records, orders, faults and crashes.                          *)
(***************************************************************************)
EXTENDS TradingSessions, FiniteSetTheorems, TLAPS

-----------------------------------------------------------------------------
(* The engine's fills after i records.                                     *)

(* There are finitely many, so counting them is meaningful. *)
LEMMA FilledByFinite ==
  ASSUME NEW i \in Nat
  PROVE  IsFiniteSet(FilledBy(i)) /\ Cardinality(FilledBy(i)) \in Nat
<1>1. FilledBy(i) \subseteq Orders
  BY DEF FilledBy
<1>2. IsFiniteSet(FilledBy(i))
  BY <1>1, FS_Subset, TradingAssumption
<1> QED
  BY <1>2, FS_CardinalityType

(* Projecting the engine's state keeps the tables well typed. *)
LEMMA ProjectedType ==
  ASSUME proj \in Projections, NEW i \in 0..(Records + 1)
  PROVE  Projected(i) \in Projections
<1>1. \A o \in Orders : OrderAfter(o, i) \in OrderRow
  BY DEF Projections, OrderAfter, OrderStatus, OrderRow
<1>2. FilledBy(i) \subseteq Orders
  BY DEF FilledBy
<1>3. (IF i > Records THEN Records ELSE i) \in 0..Records
  BY TradingAssumption
<1> QED
  BY <1>1, <1>2, <1>3 DEF Projected, Projections

-----------------------------------------------------------------------------
(* Type correctness.  It is inductive together with the fact that a runner *)
(* advances only while a record is left.                                   *)
LoopBound == \A p \in Processes : pc[p] = "advance" => progress[p] < Records

TypeInv == TypeOK /\ LoopBound

LEMMA InitTypeInv == Init => TypeInv
<1> SUFFICES ASSUME Init PROVE TypeInv
  OBVIOUS
<1>1. EmptyProjection \in Projections
  BY TradingAssumption DEF EmptyProjection, Projections, OrderRow
<1>2. 0 \in 0..(Records + 1)
  BY TradingAssumption
<1> QED
  BY <1>1, <1>2, TradingAssumption DEF Init, TypeInv, TypeOK, LoopBound, SessionStatus, RunnerPc

LEMMA NextTypeInv == TypeInv /\ [Next]_vars => TypeInv'
<1> SUFFICES ASSUME TypeInv, [Next]_vars PROVE TypeInv'
  OBVIOUS
<1>1. ASSUME NEW c \in Clients, Start(c) PROVE TypeInv'
  BY <1>1 DEF Start, Transition, AcceptedBy, runnerVars, historyVars, boundVars, TypeInv, TypeOK, LoopBound, SessionStatus, RunnerPc
<1>2. ASSUME NEW c \in Clients, ResumeCheck(c) PROVE TypeInv'
  BY <1>2 DEF ResumeCheck, runnerVars, historyVars, boundVars, TypeInv, TypeOK, LoopBound, SessionStatus, RunnerPc
<1>3. ASSUME NEW c \in Clients, ResumeCommit(c) PROVE TypeInv'
  BY <1>3 DEF ResumeCommit, Transition, AcceptedBy, ResumesTo, runnerVars, boundVars, TypeInv, TypeOK, LoopBound, SessionStatus, RunnerPc
<1>4. ASSUME NEW c \in Clients, ResumeRefused(c) PROVE TypeInv'
  BY <1>4 DEF ResumeRefused, runnerVars, historyVars, boundVars, TypeInv, TypeOK, LoopBound, SessionStatus, RunnerPc
<1>5. ASSUME NEW c \in Clients, Launch(c) PROVE TypeInv'
  BY <1>5, TradingAssumption
  DEF Launch, runnerVars, historyVars, boundVars, TypeInv, TypeOK, LoopBound, RunnerPc, SessionStatus
<1>6. ASSUME Pause PROVE TypeInv'
  BY <1>6 DEF Pause, Transition, clientVars, runnerVars, historyVars, boundVars, TypeInv, TypeOK, LoopBound, SessionStatus, RunnerPc
<1>7. ASSUME RequestStop PROVE TypeInv'
  BY <1>7 DEF RequestStop, Transition, clientVars, runnerVars, historyVars, boundVars, TypeInv, TypeOK, LoopBound, SessionStatus, RunnerPc
<1>8. ASSUME EngageKillSwitch PROVE TypeInv'
  BY <1>8 DEF EngageKillSwitch, clientVars, runnerVars, historyVars, boundVars, TypeInv, TypeOK, LoopBound, SessionStatus, RunnerPc
<1>9. ASSUME NEW p \in Processes, Load(p) PROVE TypeInv'
  BY <1>9 DEF Load, Goto, clientVars, runnerVars, historyVars, boundVars, TypeInv, TypeOK, LoopBound, SessionStatus, RunnerPc
<1>10. ASSUME NEW p \in Processes, Claim(p) PROVE TypeInv'
  BY <1>10 DEF Claim, Goto, Claimable, clientVars, runnerVars, boundVars, TypeInv, TypeOK, LoopBound, SessionStatus, RunnerPc
<1>11. ASSUME NEW p \in Processes, ClaimRefused(p) PROVE TypeInv'
  BY <1>11 DEF ClaimRefused, Goto, Claimable, clientVars, runnerVars, historyVars, boundVars, TypeInv, TypeOK, LoopBound, SessionStatus, RunnerPc
<1>12. ASSUME NEW p \in Processes, ShouldContinue(p) PROVE TypeInv'
  BY <1>12 DEF ShouldContinue, Goto, KeepGoing, EndsAs, clientVars, historyVars, boundVars, TypeInv, TypeOK, LoopBound, SessionStatus, RunnerPc
<1>13. ASSUME NEW p \in Processes, CloseFinalSlice(p) PROVE TypeInv'
  BY <1>13, TradingAssumption
  DEF CloseFinalSlice, Goto, FinalSliceClosed, clientVars, historyVars, boundVars, TypeInv, TypeOK, LoopBound, RunnerPc
<1>14. ASSUME NEW p \in Processes, Advance(p) PROVE TypeInv'
  <2> USE <1>14 DEF Advance
  <2>1. progress[p] + 1 \in 0..Records
    BY TradingAssumption DEF TypeInv, TypeOK, LoopBound
  <2>2. Cardinality(FilledBy(progress[p] + 1)) \in Nat
    BY <2>1, FilledByFinite
  <2>3. progress' \in [Processes -> 0..(Records + 1)] /\ fillsSeen' \in [Processes -> Nat]
    BY <2>1, <2>2, TradingAssumption DEF TypeInv, TypeOK
  <2> QED
    BY <2>3 DEF Goto, clientVars, boundVars, TypeInv, TypeOK, LoopBound, RunnerPc
<1>15. ASSUME NEW p \in Processes, Project(p) PROVE TypeInv'
  <2>1. proj' \in Projections
    BY <1>15, ProjectedType DEF Project, TypeInv, TypeOK
  <2> QED
    BY <1>15, <2>1 DEF Project, Goto, clientVars, runnerVars, historyVars, boundVars, TypeInv, TypeOK, LoopBound, RunnerPc
<1>16. ASSUME NEW p \in Processes, FinishRead(p) PROVE TypeInv'
  BY <1>16 DEF FinishRead, Goto, clientVars, historyVars, boundVars, TypeInv, TypeOK, LoopBound, SessionStatus, RunnerPc
<1>17. ASSUME NEW p \in Processes, FinishWrite(p) PROVE TypeInv'
  <2>1. proj' \in Projections
    BY <1>17, ProjectedType DEF FinishWrite, TypeInv, TypeOK
  <2> QED
    BY <1>17, <2>1 DEF FinishWrite, Goto, FinalStatus, clientVars, runnerVars, historyVars, boundVars, TypeInv, TypeOK, LoopBound,
                    RunnerPc, SessionStatus
<1>18. ASSUME NEW p \in Processes, RecordFailure(p) PROVE TypeInv'
  BY <1>18 DEF RecordFailure, Goto, clientVars, runnerVars, historyVars, boundVars, TypeInv, TypeOK, LoopBound, SessionStatus, RunnerPc
<1>19. ASSUME NEW p \in Processes, ThreadEnds(p) PROVE TypeInv'
  BY <1>19 DEF ThreadEnds, Goto, clientVars, runnerVars, historyVars, boundVars, TypeInv, TypeOK, LoopBound, SessionStatus, RunnerPc
<1>20. ASSUME NEW p \in Processes, RunnerRaises(p) PROVE TypeInv'
  BY <1>20 DEF RunnerRaises, Goto, clientVars, runnerVars, historyVars, boundVars, TypeInv, TypeOK, LoopBound, SessionStatus, RunnerPc
<1>21. ASSUME NEW p \in Processes, RecordFailureRaises(p) PROVE TypeInv'
  BY <1>21 DEF RecordFailureRaises, Goto, clientVars, runnerVars, TypeInv, TypeOK, LoopBound, SessionStatus, RunnerPc
<1>22. ASSUME NEW p \in Processes, Crash(p) PROVE TypeInv'
  BY <1>22 DEF Crash, Goto, runnerVars, TypeInv, TypeOK, LoopBound, SessionStatus, RunnerPc
<1>23. CASE UNCHANGED vars
  BY <1>23 DEF vars, TypeInv, TypeOK, LoopBound, SessionStatus, RunnerPc
<1> QED
  BY <1>1, <1>2, <1>3, <1>4, <1>5, <1>6, <1>7, <1>8, <1>9,
     <1>10, <1>11, <1>12, <1>13, <1>14, <1>15, <1>16, <1>17, <1>18,
     <1>19, <1>20, <1>21, <1>22, <1>23
  DEF Next, Request, RunnerStep, Fault

(* Every variable keeps to the values its column or local can hold. *)
THEOREM TypeCorrect == Spec => []TypeOK
<1>1. TypeInv => TypeOK
  BY DEF TypeInv
<1> QED
  BY <1>1, InitTypeInv, NextTypeInv, PTL DEF Spec
-----------------------------------------------------------------------------
(* A session that is still CREATED or STARTING has not been claimed since  *)
(* it was created or last resumed.                                         *)
ClaimInv ==
    /\ status \in {"CREATED", "STARTING"} => claims = 0
    /\ claims <= 1

LEMMA NextClaimInv == TypeInv /\ ClaimInv /\ [Next]_vars => ClaimInv'
<1> SUFFICES ASSUME TypeInv, ClaimInv, [Next]_vars PROVE ClaimInv'
  OBVIOUS
<1>1. ASSUME NEW c \in Clients, Start(c) PROVE ClaimInv'
  BY <1>1 DEF Start, Transition, AcceptedBy, runnerVars, historyVars, boundVars, ClaimInv, TypeInv, TypeOK
<1>2. ASSUME NEW c \in Clients, ResumeCheck(c) PROVE ClaimInv'
  BY <1>2 DEF ResumeCheck, runnerVars, historyVars, boundVars, ClaimInv, TypeInv, TypeOK
<1>3. ASSUME NEW c \in Clients, ResumeCommit(c) PROVE ClaimInv'
  BY <1>3 DEF ResumeCommit, Transition, AcceptedBy, ResumesTo, runnerVars, boundVars, ClaimInv, TypeInv, TypeOK
<1>4. ASSUME NEW c \in Clients, ResumeRefused(c) PROVE ClaimInv'
  BY <1>4 DEF ResumeRefused, runnerVars, historyVars, boundVars, ClaimInv, TypeInv, TypeOK
<1>5. ASSUME NEW c \in Clients, Launch(c) PROVE ClaimInv'
  BY <1>5 DEF Launch, runnerVars, historyVars, boundVars, ClaimInv, TypeInv, TypeOK
<1>6. ASSUME Pause PROVE ClaimInv'
  BY <1>6 DEF Pause, Transition, clientVars, runnerVars, historyVars, boundVars, ClaimInv, TypeInv, TypeOK
<1>7. ASSUME RequestStop PROVE ClaimInv'
  BY <1>7 DEF RequestStop, Transition, clientVars, runnerVars, historyVars, boundVars, ClaimInv, TypeInv, TypeOK
<1>8. ASSUME EngageKillSwitch PROVE ClaimInv'
  BY <1>8 DEF EngageKillSwitch, clientVars, runnerVars, historyVars, boundVars, ClaimInv, TypeInv, TypeOK
<1>9. ASSUME NEW p \in Processes, Load(p) PROVE ClaimInv'
  BY <1>9 DEF Load, Goto, clientVars, runnerVars, historyVars, boundVars, ClaimInv, TypeInv, TypeOK
<1>10. ASSUME NEW p \in Processes, Claim(p) PROVE ClaimInv'
  BY <1>10 DEF Claim, Goto, Claimable, clientVars, runnerVars, boundVars, ClaimInv, TypeInv, TypeOK
<1>11. ASSUME NEW p \in Processes, ClaimRefused(p) PROVE ClaimInv'
  BY <1>11 DEF ClaimRefused, Goto, Claimable, clientVars, runnerVars, historyVars, boundVars, ClaimInv, TypeInv, TypeOK
<1>12. ASSUME NEW p \in Processes, ShouldContinue(p) PROVE ClaimInv'
  BY <1>12 DEF ShouldContinue, Goto, KeepGoing, EndsAs, clientVars, historyVars, boundVars, ClaimInv, TypeInv, TypeOK
<1>13. ASSUME NEW p \in Processes, CloseFinalSlice(p) PROVE ClaimInv'
  BY <1>13 DEF CloseFinalSlice, Goto, FinalSliceClosed, clientVars, historyVars, boundVars, ClaimInv, TypeInv, TypeOK
<1>14. ASSUME NEW p \in Processes, Advance(p) PROVE ClaimInv'
  BY <1>14 DEF Advance, Goto, clientVars, boundVars, ClaimInv, TypeInv, TypeOK
<1>15. ASSUME NEW p \in Processes, Project(p) PROVE ClaimInv'
  BY <1>15 DEF Project, Goto, clientVars, runnerVars, historyVars, boundVars, ClaimInv, TypeInv, TypeOK
<1>16. ASSUME NEW p \in Processes, FinishRead(p) PROVE ClaimInv'
  BY <1>16 DEF FinishRead, Goto, clientVars, historyVars, boundVars, ClaimInv, TypeInv, TypeOK
<1>17. ASSUME NEW p \in Processes, FinishWrite(p) PROVE ClaimInv'
  BY <1>17 DEF FinishWrite, Goto, FinalStatus, clientVars, runnerVars, historyVars, boundVars, ClaimInv, TypeInv, TypeOK
<1>18. ASSUME NEW p \in Processes, RecordFailure(p) PROVE ClaimInv'
  BY <1>18 DEF RecordFailure, Goto, clientVars, runnerVars, historyVars, boundVars, ClaimInv, TypeInv, TypeOK
<1>19. ASSUME NEW p \in Processes, ThreadEnds(p) PROVE ClaimInv'
  BY <1>19 DEF ThreadEnds, Goto, clientVars, runnerVars, historyVars, boundVars, ClaimInv, TypeInv, TypeOK
<1>20. ASSUME NEW p \in Processes, RunnerRaises(p) PROVE ClaimInv'
  BY <1>20 DEF RunnerRaises, Goto, clientVars, runnerVars, historyVars, boundVars, ClaimInv, TypeInv, TypeOK
<1>21. ASSUME NEW p \in Processes, RecordFailureRaises(p) PROVE ClaimInv'
  BY <1>21 DEF RecordFailureRaises, Goto, clientVars, runnerVars, ClaimInv, TypeInv, TypeOK
<1>22. ASSUME NEW p \in Processes, Crash(p) PROVE ClaimInv'
  BY <1>22 DEF Crash, Goto, runnerVars, ClaimInv, TypeInv, TypeOK
<1>23. CASE UNCHANGED vars
  BY <1>23 DEF vars, ClaimInv, TypeInv, TypeOK
<1> QED
  BY <1>1, <1>2, <1>3, <1>4, <1>5, <1>6, <1>7, <1>8, <1>9,
     <1>10, <1>11, <1>12, <1>13, <1>14, <1>15, <1>16, <1>17, <1>18,
     <1>19, <1>20, <1>21, <1>22, <1>23
  DEF Next, Request, RunnerStep, Fault

(* However many requests and runners race, in however many processes, from *)
(* one resume to the next the session is claimed by at most one runner.    *)
THEOREM OneClaim == Spec => []ClaimedOnce
<1>1. Init => ClaimInv
  BY DEF Init, ClaimInv
<1>2. ClaimInv => ClaimedOnce
  BY DEF ClaimInv, ClaimedOnce
<1> QED
  BY <1>1, <1>2, InitTypeInv, NextTypeInv, NextClaimInv, PTL DEF Spec

-----------------------------------------------------------------------------
(* Nobody has overrun a RUNNING session, nor has a runner about to advance *)
(* one: it saw the session RUNNING, and everybody's count was reset when   *)
(* the session was last claimed.                                           *)
OverrunInv ==
    /\ status = "RUNNING" => \A p \in Processes : overrun[p] = 0
    /\ \A p \in Processes : pc[p] = "advance" => overrun[p] = 0
    /\ \A p \in Processes : overrun[p] <= 1

LEMMA NextOverrunInv == TypeInv /\ OverrunInv /\ [Next]_vars => OverrunInv'
<1> SUFFICES ASSUME TypeInv, OverrunInv, [Next]_vars PROVE OverrunInv'
  OBVIOUS
<1>1. ASSUME NEW c \in Clients, Start(c) PROVE OverrunInv'
  BY <1>1 DEF Start, Transition, AcceptedBy, runnerVars, historyVars, boundVars, OverrunInv, TypeInv, TypeOK
<1>2. ASSUME NEW c \in Clients, ResumeCheck(c) PROVE OverrunInv'
  BY <1>2 DEF ResumeCheck, runnerVars, historyVars, boundVars, OverrunInv, TypeInv, TypeOK
<1>3. ASSUME NEW c \in Clients, ResumeCommit(c) PROVE OverrunInv'
  BY <1>3 DEF ResumeCommit, Transition, AcceptedBy, ResumesTo, runnerVars, boundVars, OverrunInv, TypeInv, TypeOK
<1>4. ASSUME NEW c \in Clients, ResumeRefused(c) PROVE OverrunInv'
  BY <1>4 DEF ResumeRefused, runnerVars, historyVars, boundVars, OverrunInv, TypeInv, TypeOK
<1>5. ASSUME NEW c \in Clients, Launch(c) PROVE OverrunInv'
  BY <1>5 DEF Launch, runnerVars, historyVars, boundVars, OverrunInv, TypeInv, TypeOK
<1>6. ASSUME Pause PROVE OverrunInv'
  BY <1>6 DEF Pause, Transition, clientVars, runnerVars, historyVars, boundVars, OverrunInv, TypeInv, TypeOK
<1>7. ASSUME RequestStop PROVE OverrunInv'
  BY <1>7 DEF RequestStop, Transition, clientVars, runnerVars, historyVars, boundVars, OverrunInv, TypeInv, TypeOK
<1>8. ASSUME EngageKillSwitch PROVE OverrunInv'
  BY <1>8 DEF EngageKillSwitch, clientVars, runnerVars, historyVars, boundVars, OverrunInv, TypeInv, TypeOK
<1>9. ASSUME NEW p \in Processes, Load(p) PROVE OverrunInv'
  BY <1>9 DEF Load, Goto, clientVars, runnerVars, historyVars, boundVars, OverrunInv, TypeInv, TypeOK
<1>10. ASSUME NEW p \in Processes, Claim(p) PROVE OverrunInv'
  BY <1>10 DEF Claim, Goto, Claimable, clientVars, runnerVars, boundVars, OverrunInv, TypeInv, TypeOK
<1>11. ASSUME NEW p \in Processes, ClaimRefused(p) PROVE OverrunInv'
  BY <1>11 DEF ClaimRefused, Goto, Claimable, clientVars, runnerVars, historyVars, boundVars, OverrunInv, TypeInv, TypeOK
<1>12. ASSUME NEW p \in Processes, ShouldContinue(p) PROVE OverrunInv'
  BY <1>12 DEF ShouldContinue, Goto, KeepGoing, EndsAs, clientVars, historyVars, boundVars, OverrunInv, TypeInv, TypeOK
<1>13. ASSUME NEW p \in Processes, CloseFinalSlice(p) PROVE OverrunInv'
  BY <1>13 DEF CloseFinalSlice, Goto, FinalSliceClosed, clientVars, historyVars, boundVars, OverrunInv, TypeInv, TypeOK
<1>14. ASSUME NEW p \in Processes, Advance(p) PROVE OverrunInv'
  BY <1>14 DEF Advance, Goto, clientVars, boundVars, OverrunInv, TypeInv, TypeOK
<1>15. ASSUME NEW p \in Processes, Project(p) PROVE OverrunInv'
  BY <1>15 DEF Project, Goto, clientVars, runnerVars, historyVars, boundVars, OverrunInv, TypeInv, TypeOK
<1>16. ASSUME NEW p \in Processes, FinishRead(p) PROVE OverrunInv'
  BY <1>16 DEF FinishRead, Goto, clientVars, historyVars, boundVars, OverrunInv, TypeInv, TypeOK
<1>17. ASSUME NEW p \in Processes, FinishWrite(p) PROVE OverrunInv'
  BY <1>17 DEF FinishWrite, Goto, FinalStatus, clientVars, runnerVars, historyVars, boundVars, OverrunInv, TypeInv, TypeOK
<1>18. ASSUME NEW p \in Processes, RecordFailure(p) PROVE OverrunInv'
  BY <1>18 DEF RecordFailure, Goto, clientVars, runnerVars, historyVars, boundVars, OverrunInv, TypeInv, TypeOK
<1>19. ASSUME NEW p \in Processes, ThreadEnds(p) PROVE OverrunInv'
  BY <1>19 DEF ThreadEnds, Goto, clientVars, runnerVars, historyVars, boundVars, OverrunInv, TypeInv, TypeOK
<1>20. ASSUME NEW p \in Processes, RunnerRaises(p) PROVE OverrunInv'
  BY <1>20 DEF RunnerRaises, Goto, clientVars, runnerVars, historyVars, boundVars, OverrunInv, TypeInv, TypeOK
<1>21. ASSUME NEW p \in Processes, RecordFailureRaises(p) PROVE OverrunInv'
  BY <1>21 DEF RecordFailureRaises, Goto, clientVars, runnerVars, OverrunInv, TypeInv, TypeOK
<1>22. ASSUME NEW p \in Processes, Crash(p) PROVE OverrunInv'
  BY <1>22 DEF Crash, Goto, runnerVars, OverrunInv, TypeInv, TypeOK
<1>23. CASE UNCHANGED vars
  BY <1>23 DEF vars, OverrunInv, TypeInv, TypeOK
<1> QED
  BY <1>1, <1>2, <1>3, <1>4, <1>5, <1>6, <1>7, <1>8, <1>9,
     <1>10, <1>11, <1>12, <1>13, <1>14, <1>15, <1>16, <1>17, <1>18,
     <1>19, <1>20, <1>21, <1>22, <1>23
  DEF Next, Request, RunnerStep, Fault

(* Once a session is stopped, paused, killed or failed, no runner          *)
(* processes more than one further record until the session is claimed     *)
(* anew.                                                                   *)
THEOREM OneMoreRecordAtMost == Spec => []AtMostOneMoreRecord
<1>1. Init => OverrunInv
  BY DEF Init, OverrunInv
<1>2. OverrunInv => AtMostOneMoreRecord
  BY DEF OverrunInv, AtMostOneMoreRecord
<1> QED
  BY <1>1, <1>2, InitTypeInv, NextTypeInv, NextOverrunInv, PTL DEF Spec

-----------------------------------------------------------------------------
(* The runner that answers for a RUNNING session is not one whose last     *)
(* write will leave the row as it is.                                      *)
Answers(p) == /\ pc[p] \in Active
              /\ pc[p] = "write" => seen[p] \notin {"HALTED", terminal[p]}

HasRunnerInv == status = "RUNNING" /\ ~lost => \E p \in Processes : Answers(p)

LEMMA NextHasRunnerInv == TypeInv /\ HasRunnerInv /\ [Next]_vars => HasRunnerInv'
<1> SUFFICES ASSUME TypeInv, HasRunnerInv, [Next]_vars, status' = "RUNNING", ~lost'
             PROVE  \E p \in Processes : Answers(p)'
  BY DEF HasRunnerInv
<1>1. ASSUME NEW c \in Clients, Start(c) PROVE \E q \in Processes : Answers(q)'
  BY <1>1 DEF Start, Transition, AcceptedBy, runnerVars, historyVars, boundVars, HasRunnerInv, Answers, Active, TypeInv, TypeOK
<1>2. ASSUME NEW c \in Clients, ResumeCheck(c) PROVE \E q \in Processes : Answers(q)'
  BY <1>2 DEF ResumeCheck, runnerVars, historyVars, boundVars, HasRunnerInv, Answers, Active, TypeInv, TypeOK
<1>3. ASSUME NEW c \in Clients, ResumeCommit(c) PROVE \E q \in Processes : Answers(q)'
  BY <1>3 DEF ResumeCommit, Transition, AcceptedBy, ResumesTo, runnerVars, boundVars, HasRunnerInv, Answers, Active, TypeInv, TypeOK
<1>4. ASSUME NEW c \in Clients, ResumeRefused(c) PROVE \E q \in Processes : Answers(q)'
  BY <1>4 DEF ResumeRefused, runnerVars, historyVars, boundVars, HasRunnerInv, Answers, Active, TypeInv, TypeOK
<1>5. ASSUME NEW c \in Clients, Launch(c) PROVE \E q \in Processes : Answers(q)'
  BY <1>5 DEF Launch, runnerVars, historyVars, boundVars, HasRunnerInv, Answers, Active, TypeInv, TypeOK
<1>6. ASSUME Pause PROVE \E q \in Processes : Answers(q)'
  BY <1>6 DEF Pause, Transition, clientVars, runnerVars, historyVars, boundVars, HasRunnerInv, Answers, Active, TypeInv, TypeOK
<1>7. ASSUME RequestStop PROVE \E q \in Processes : Answers(q)'
  BY <1>7 DEF RequestStop, Transition, clientVars, runnerVars, historyVars, boundVars, HasRunnerInv, Answers, Active, TypeInv, TypeOK
<1>8. ASSUME EngageKillSwitch PROVE \E q \in Processes : Answers(q)'
  BY <1>8 DEF EngageKillSwitch, clientVars, runnerVars, historyVars, boundVars, HasRunnerInv, Answers, Active, TypeInv, TypeOK
<1>9. ASSUME NEW p \in Processes, Load(p) PROVE \E q \in Processes : Answers(q)'
  BY <1>9 DEF Load, Goto, clientVars, runnerVars, historyVars, boundVars, HasRunnerInv, Answers, Active, TypeInv, TypeOK
<1>10. ASSUME NEW p \in Processes, Claim(p) PROVE \E q \in Processes : Answers(q)'
  BY <1>10 DEF Claim, Goto, Claimable, clientVars, runnerVars, boundVars, HasRunnerInv, Answers, Active, TypeInv, TypeOK
<1>11. ASSUME NEW p \in Processes, ClaimRefused(p) PROVE \E q \in Processes : Answers(q)'
  BY <1>11 DEF ClaimRefused, Goto, Claimable, clientVars, runnerVars, historyVars, boundVars, HasRunnerInv, Answers, Active, TypeInv, TypeOK
<1>12. ASSUME NEW p \in Processes, ShouldContinue(p) PROVE \E q \in Processes : Answers(q)'
  BY <1>12 DEF ShouldContinue, Goto, KeepGoing, EndsAs, clientVars, historyVars, boundVars, HasRunnerInv, Answers, Active, TypeInv, TypeOK
<1>13. ASSUME NEW p \in Processes, CloseFinalSlice(p) PROVE \E q \in Processes : Answers(q)'
  BY <1>13 DEF CloseFinalSlice, Goto, FinalSliceClosed, clientVars, historyVars, boundVars, HasRunnerInv, Answers, Active, TypeInv, TypeOK
<1>14. ASSUME NEW p \in Processes, Advance(p) PROVE \E q \in Processes : Answers(q)'
  BY <1>14 DEF Advance, Goto, clientVars, boundVars, HasRunnerInv, Answers, Active, TypeInv, TypeOK
<1>15. ASSUME NEW p \in Processes, Project(p) PROVE \E q \in Processes : Answers(q)'
  BY <1>15 DEF Project, Goto, clientVars, runnerVars, historyVars, boundVars, HasRunnerInv, Answers, Active, TypeInv, TypeOK
<1>16. ASSUME NEW p \in Processes, FinishRead(p) PROVE \E q \in Processes : Answers(q)'
  BY <1>16 DEF FinishRead, Goto, clientVars, historyVars, boundVars, HasRunnerInv, Answers, Active, TypeInv, TypeOK
<1>17. ASSUME NEW p \in Processes, FinishWrite(p) PROVE \E q \in Processes : Answers(q)'
  BY <1>17 DEF FinishWrite, Goto, FinalStatus, clientVars, runnerVars, historyVars, boundVars, HasRunnerInv, Answers, Active, TypeInv, TypeOK
<1>18. ASSUME NEW p \in Processes, RecordFailure(p) PROVE \E q \in Processes : Answers(q)'
  BY <1>18 DEF RecordFailure, Goto, clientVars, runnerVars, historyVars, boundVars, HasRunnerInv, Answers, Active, TypeInv, TypeOK
<1>19. ASSUME NEW p \in Processes, ThreadEnds(p) PROVE \E q \in Processes : Answers(q)'
  BY <1>19 DEF ThreadEnds, Goto, clientVars, runnerVars, historyVars, boundVars, HasRunnerInv, Answers, Active, TypeInv, TypeOK
<1>20. ASSUME NEW p \in Processes, RunnerRaises(p) PROVE \E q \in Processes : Answers(q)'
  BY <1>20 DEF RunnerRaises, Goto, clientVars, runnerVars, historyVars, boundVars, HasRunnerInv, Answers, Active, TypeInv, TypeOK
<1>21. ASSUME NEW p \in Processes, RecordFailureRaises(p) PROVE \E q \in Processes : Answers(q)'
  BY <1>21 DEF RecordFailureRaises, Goto, clientVars, runnerVars, HasRunnerInv, Answers, Active, TypeInv, TypeOK
<1>22. ASSUME NEW p \in Processes, Crash(p) PROVE \E q \in Processes : Answers(q)'
  BY <1>22 DEF Crash, Goto, runnerVars, HasRunnerInv, Answers, Active, TypeInv, TypeOK
<1>23. CASE UNCHANGED vars
  BY <1>23 DEF vars, HasRunnerInv, Answers, Active, TypeInv, TypeOK
<1> QED
  BY <1>1, <1>2, <1>3, <1>4, <1>5, <1>6, <1>7, <1>8, <1>9,
     <1>10, <1>11, <1>12, <1>13, <1>14, <1>15, <1>16, <1>17, <1>18,
     <1>19, <1>20, <1>21, <1>22, <1>23
  DEF Next, Request, RunnerStep, Fault

(* A session shown as RUNNING is being run, unless a runner died without   *)
(* a trace: RUNNING means "a runner has claimed this session".             *)
THEOREM RunningIsRun == Spec => []RunningHasRunner
<1>1. Init => HasRunnerInv
  BY DEF Init, HasRunnerInv
<1>2. HasRunnerInv => RunningHasRunner
  BY DEF HasRunnerInv, RunningHasRunner, Answers
<1> QED
  BY <1>1, <1>2, InitTypeInv, NextTypeInv, NextHasRunnerInv, PTL DEF Spec

-----------------------------------------------------------------------------
(* fills_seen is the engine's own count, so a fill cannot slip by the loop *)
(* uncounted; at the top of the loop every counted fill has been written.  *)
FillInv ==
    \A p \in Processes :
        /\ pc[p] \in {"load", "claim", "check", "advance", "project"} =>
               fillsSeen[p] = Cardinality(FilledBy(progress[p]))
        /\ pc[p] \in {"load", "claim", "check", "advance"} =>
               FilledBy(progress[p]) \subseteq proj.fills

LEMMA NextFillInv == TypeInv /\ FillInv /\ [Next]_vars => FillInv'
<1> SUFFICES ASSUME TypeInv, FillInv, [Next]_vars PROVE FillInv'
  OBVIOUS
<1>1. ASSUME NEW c \in Clients, Start(c) PROVE FillInv'
  BY <1>1 DEF Start, Transition, AcceptedBy, runnerVars, historyVars, boundVars, FillInv, TypeInv, TypeOK
<1>2. ASSUME NEW c \in Clients, ResumeCheck(c) PROVE FillInv'
  BY <1>2 DEF ResumeCheck, runnerVars, historyVars, boundVars, FillInv, TypeInv, TypeOK
<1>3. ASSUME NEW c \in Clients, ResumeCommit(c) PROVE FillInv'
  BY <1>3 DEF ResumeCommit, Transition, AcceptedBy, ResumesTo, runnerVars, boundVars, FillInv, TypeInv, TypeOK
<1>4. ASSUME NEW c \in Clients, ResumeRefused(c) PROVE FillInv'
  BY <1>4 DEF ResumeRefused, runnerVars, historyVars, boundVars, FillInv, TypeInv, TypeOK
<1>5. ASSUME NEW c \in Clients, Launch(c) PROVE FillInv'
  <2>1. FilledBy(0) = {} /\ Cardinality(FilledBy(0)) = 0
    BY TradingAssumption, FS_EmptySet DEF FilledBy
  <2> QED
    BY <1>5, <2>1 DEF Launch, runnerVars, FillInv, TypeInv, TypeOK
<1>6. ASSUME Pause PROVE FillInv'
  BY <1>6 DEF Pause, Transition, clientVars, runnerVars, historyVars, boundVars, FillInv, TypeInv, TypeOK
<1>7. ASSUME RequestStop PROVE FillInv'
  BY <1>7 DEF RequestStop, Transition, clientVars, runnerVars, historyVars, boundVars, FillInv, TypeInv, TypeOK
<1>8. ASSUME EngageKillSwitch PROVE FillInv'
  BY <1>8 DEF EngageKillSwitch, clientVars, runnerVars, historyVars, boundVars, FillInv, TypeInv, TypeOK
<1>9. ASSUME NEW p \in Processes, Load(p) PROVE FillInv'
  BY <1>9 DEF Load, Goto, clientVars, runnerVars, historyVars, boundVars, FillInv, TypeInv, TypeOK
<1>10. ASSUME NEW p \in Processes, Claim(p) PROVE FillInv'
  BY <1>10 DEF Goto, Claim, clientVars, runnerVars, FillInv, TypeInv, TypeOK
<1>11. ASSUME NEW p \in Processes, ClaimRefused(p) PROVE FillInv'
  BY <1>11 DEF ClaimRefused, Goto, Claimable, clientVars, runnerVars, historyVars, boundVars, FillInv, TypeInv, TypeOK
<1>12. ASSUME NEW p \in Processes, ShouldContinue(p) PROVE FillInv'
  BY <1>12 DEF ShouldContinue, Goto, KeepGoing, EndsAs, clientVars, historyVars, boundVars, FillInv, TypeInv, TypeOK
<1>13. ASSUME NEW p \in Processes, CloseFinalSlice(p) PROVE FillInv'
  BY <1>13 DEF CloseFinalSlice, Goto, FinalSliceClosed, clientVars, historyVars, boundVars, FillInv, TypeInv, TypeOK
<1>14. ASSUME NEW p \in Processes, Advance(p) PROVE FillInv'
  <2> USE <1>14 DEF Advance
  <2>1. /\ progress[p] \in Nat /\ progress[p] + 1 \in Nat
        /\ progress'[p] = progress[p] + 1
    BY TradingAssumption DEF TypeInv, TypeOK
  <2>2. FilledBy(progress[p]) \subseteq FilledBy(progress[p] + 1)
    BY <2>1, TradingAssumption DEF FilledBy
  <2>3. ~ProjectionDue(p, progress[p] + 1) => FilledBy(progress[p] + 1) = FilledBy(progress[p])
    BY <2>1, <2>2, FilledByFinite, FS_Subset DEF ProjectionDue, FillInv
  <2>4. CASE progress[p] + 1 \in FailingRecords
    BY <2>4 DEF Goto, clientVars, FillInv, TypeInv, TypeOK
  <2>5. CASE progress[p] + 1 \notin FailingRecords /\ ProjectionDue(p, progress[p] + 1)
    BY <2>1, <2>5 DEF Goto, clientVars, FillInv, TypeInv, TypeOK
  <2>6. CASE progress[p] + 1 \notin FailingRecords /\ ~ProjectionDue(p, progress[p] + 1)
    BY <2>1, <2>3, <2>6 DEF Goto, clientVars, FillInv, TypeInv, TypeOK
  <2> QED
    BY <2>4, <2>5, <2>6
<1>15. ASSUME NEW p \in Processes, Project(p) PROVE FillInv'
  <2>1. proj.fills \subseteq proj'.fills /\ FilledBy(progress[p]) \subseteq proj'.fills
    BY <1>15 DEF Project, Projected
  <2> QED
    BY <1>15, <2>1 DEF Project, Goto, clientVars, runnerVars, historyVars, boundVars, FillInv, TypeInv, TypeOK
<1>16. ASSUME NEW p \in Processes, FinishRead(p) PROVE FillInv'
  BY <1>16 DEF FinishRead, Goto, clientVars, historyVars, boundVars, FillInv, TypeInv, TypeOK
<1>17. ASSUME NEW p \in Processes, FinishWrite(p) PROVE FillInv'
  <2>1. proj.fills \subseteq proj'.fills
    BY <1>17 DEF FinishWrite, Projected
  <2> QED
    BY <1>17, <2>1 DEF Goto, FinishWrite, clientVars, runnerVars, FillInv, TypeInv, TypeOK
<1>18. ASSUME NEW p \in Processes, RecordFailure(p) PROVE FillInv'
  BY <1>18 DEF RecordFailure, Goto, clientVars, runnerVars, historyVars, boundVars, FillInv, TypeInv, TypeOK
<1>19. ASSUME NEW p \in Processes, ThreadEnds(p) PROVE FillInv'
  BY <1>19 DEF ThreadEnds, Goto, clientVars, runnerVars, historyVars, boundVars, FillInv, TypeInv, TypeOK
<1>20. ASSUME NEW p \in Processes, RunnerRaises(p) PROVE FillInv'
  BY <1>20 DEF RunnerRaises, Goto, clientVars, runnerVars, historyVars, boundVars, FillInv, TypeInv, TypeOK
<1>21. ASSUME NEW p \in Processes, RecordFailureRaises(p) PROVE FillInv'
  BY <1>21 DEF RecordFailureRaises, Goto, clientVars, runnerVars, FillInv, TypeInv, TypeOK
<1>22. ASSUME NEW p \in Processes, Crash(p) PROVE FillInv'
  BY <1>22 DEF Crash, Goto, runnerVars, FillInv, TypeInv, TypeOK
<1>23. CASE UNCHANGED vars
  BY <1>23 DEF vars, FillInv, TypeInv, TypeOK
<1> QED
  BY <1>1, <1>2, <1>3, <1>4, <1>5, <1>6, <1>7, <1>8, <1>9,
     <1>10, <1>11, <1>12, <1>13, <1>14, <1>15, <1>16, <1>17, <1>18,
     <1>19, <1>20, <1>21, <1>22, <1>23
  DEF Next, Request, RunnerStep, Fault

(* Every fill the engine has produced is in the table before the runner    *)
(* looks at the next record, whatever the projection interval is.          *)
THEOREM FillsAreProjected == Spec => []EveryFillProjected
<1>1. Init => FillInv
  BY TradingAssumption, FS_EmptySet DEF Init, FillInv, FilledBy
<1>2. FillInv => EveryFillProjected
  BY DEF FillInv, EveryFillProjected
<1> QED
  BY <1>1, <1>2, InitTypeInv, NextTypeInv, NextFillInv, PTL DEF Spec

-----------------------------------------------------------------------------
(* Until a session is resumed there is at most one runner, and the fills   *)
(* of the table are fills its engine has produced.                         *)
FirstRunInv ==
    starts <= 1 =>
        /\ FilledOrderReadsFilled
        /\ starts = 0 => proj.fills = {} /\ status \in {"CREATED", "STOPPING", "HALTED"}
        /\ \A p \in Processes :
               pc[p] # "idle" => /\ starts = 1
                                 /\ proj.fills \subseteq FilledBy(progress[p])
                                 /\ \A c \in Clients : client[c] # "launch"
                                 /\ \A q \in Processes : pc[q] # "idle" => q = p
        /\ \A c \in Clients :
               client[c] = "launch" => /\ starts = 1
                                       /\ proj.fills = {}
                                       /\ \A p \in Processes : pc[p] = "idle"
                                       /\ \A d \in Clients : client[d] = "launch" => d = c

LEMMA NextFirstRunInv == TypeInv /\ FirstRunInv /\ [Next]_vars => FirstRunInv'
<1> SUFFICES ASSUME TypeInv, FirstRunInv, [Next]_vars PROVE FirstRunInv'
  OBVIOUS
<1>1. ASSUME NEW c \in Clients, Start(c) PROVE FirstRunInv'
  <2>1. starts' = starts + 1 /\ starts \in Nat /\ proj' = proj /\ pc' = pc
    BY <1>1 DEF Start, AcceptedBy, TypeInv, TypeOK
  <2>2. SUFFICES ASSUME starts = 0 PROVE FirstRunInv'
    BY <2>1 DEF FirstRunInv
  <2>3. proj.fills = {} /\ (\A p \in Processes : pc[p] = "idle") /\ (\A d \in Clients : client[d] # "launch")
    BY <2>2 DEF FirstRunInv
  <2>4. \A d \in Clients : client'[d] = "launch" => d = c
    BY <1>1, <2>3 DEF Start, AcceptedBy, TypeInv, TypeOK
  <2>5. FilledOrderReadsFilled'
    BY <2>1, <2>3 DEF FilledOrderReadsFilled
  <2> QED
    BY <2>1, <2>2, <2>3, <2>4, <2>5 DEF FirstRunInv
<1>2. ASSUME NEW c \in Clients, ResumeCheck(c) PROVE FirstRunInv'
  BY <1>2 DEF ResumeCheck, runnerVars, historyVars, boundVars, FirstRunInv, TypeInv, TypeOK, FilledOrderReadsFilled
<1>3. ASSUME NEW c \in Clients, ResumeCommit(c) PROVE FirstRunInv'
  <2>1. starts' = starts + 1 /\ starts \in Nat /\ status = "PAUSED"
    BY <1>3 DEF ResumeCommit, Transition, AcceptedBy, TypeInv, TypeOK
  <2>2. starts # 0
    BY <2>1 DEF FirstRunInv
  <2> QED
    BY <2>1, <2>2 DEF FirstRunInv
<1>4. ASSUME NEW c \in Clients, ResumeRefused(c) PROVE FirstRunInv'
  BY <1>4 DEF ResumeRefused, runnerVars, historyVars, boundVars, FirstRunInv, TypeInv, TypeOK, FilledOrderReadsFilled
<1>5. ASSUME NEW c \in Clients, Launch(c) PROVE FirstRunInv'
  BY <1>5 DEF Launch, historyVars, boundVars, runnerVars, FirstRunInv, TypeInv, TypeOK, FilledOrderReadsFilled
<1>6. ASSUME Pause PROVE FirstRunInv'
  BY <1>6 DEF Pause, Transition, clientVars, runnerVars, historyVars, boundVars, FirstRunInv, TypeInv, TypeOK, FilledOrderReadsFilled
<1>7. ASSUME RequestStop PROVE FirstRunInv'
  BY <1>7 DEF RequestStop, Transition, clientVars, runnerVars, historyVars, boundVars, FirstRunInv, TypeInv, TypeOK, FilledOrderReadsFilled
<1>8. ASSUME EngageKillSwitch PROVE FirstRunInv'
  BY <1>8 DEF EngageKillSwitch, clientVars, runnerVars, historyVars, boundVars, FirstRunInv, TypeInv, TypeOK, FilledOrderReadsFilled
<1>9. ASSUME NEW p \in Processes, Load(p) PROVE FirstRunInv'
  BY <1>9 DEF Load, Goto, clientVars, runnerVars, historyVars, boundVars, FirstRunInv, TypeInv, TypeOK, FilledOrderReadsFilled
<1>10. ASSUME NEW p \in Processes, Claim(p) PROVE FirstRunInv'
  BY <1>10 DEF Claim, Goto, Claimable, clientVars, runnerVars, boundVars, FirstRunInv, TypeInv, TypeOK, FilledOrderReadsFilled
<1>11. ASSUME NEW p \in Processes, ClaimRefused(p) PROVE FirstRunInv'
  BY <1>11 DEF ClaimRefused, Goto, clientVars, runnerVars, historyVars, boundVars, FirstRunInv, TypeInv, TypeOK, FilledOrderReadsFilled
<1>12. ASSUME NEW p \in Processes, ShouldContinue(p) PROVE FirstRunInv'
  BY <1>12 DEF ShouldContinue, Goto, KeepGoing, EndsAs, clientVars, boundVars, FirstRunInv, TypeInv, TypeOK, FilledOrderReadsFilled
<1>13. ASSUME NEW p \in Processes, CloseFinalSlice(p) PROVE FirstRunInv'
  <2>1. progress[p] \in Nat /\ progress[p] <= Records + 1 /\ progress' = [progress EXCEPT ![p] = Records + 1]
    BY <1>13, TradingAssumption DEF CloseFinalSlice, FinalSliceClosed, TypeInv, TypeOK
  <2>2. FilledBy(progress[p]) \subseteq FilledBy(Records + 1)
    BY <2>1, TradingAssumption DEF FilledBy
  <2>3. /\ UNCHANGED <<client, starts, proj, status>>
        /\ \A q \in Processes : pc'[q] # "idle" <=> pc[q] # "idle"
    BY <1>13 DEF CloseFinalSlice, Goto, clientVars, boundVars, TypeInv, TypeOK
  <2>4. progress'[p] = Records + 1 /\ \A q \in Processes : q # p => progress'[q] = progress[q]
    BY <2>1 DEF TypeInv, TypeOK
  <2> QED
    BY <2>2, <2>3, <2>4 DEF FirstRunInv, FilledOrderReadsFilled
<1>14. ASSUME NEW p \in Processes, Advance(p) PROVE FirstRunInv'
  <2>1. progress[p] \in Nat /\ progress' = [progress EXCEPT ![p] = progress[p] + 1]
    BY <1>14, TradingAssumption DEF Advance, TypeInv, TypeOK
  <2>2. FilledBy(progress[p]) \subseteq FilledBy(progress[p] + 1)
    BY <2>1, TradingAssumption DEF FilledBy
  <2>3. /\ UNCHANGED <<client, starts, proj, status>>
        /\ \A q \in Processes : pc'[q] # "idle" <=> pc[q] # "idle"
    BY <1>14 DEF Advance, Goto, clientVars, boundVars, TypeInv, TypeOK
  <2>4. progress'[p] = progress[p] + 1 /\ \A q \in Processes : q # p => progress'[q] = progress[q]
    BY <2>1 DEF TypeInv, TypeOK
  <2> QED
    BY <2>2, <2>3, <2>4 DEF FirstRunInv, FilledOrderReadsFilled
<1>15. ASSUME NEW p \in Processes, Project(p) PROVE FirstRunInv'
  <2>1. proj' = Projected(progress[p]) /\ progress[p] \in 0..(Records + 1) /\ progress[p] \in Nat
    BY <1>15, TradingAssumption DEF Project, TypeInv, TypeOK
  <2>2. SUFFICES ASSUME starts <= 1 PROVE FirstRunInv'
    BY <1>15 DEF Project, boundVars, FirstRunInv
  <2>3. proj.fills \subseteq FilledBy(progress[p]) /\ FilledOrderReadsFilled
    BY <1>15, <2>2 DEF Project, FirstRunInv
  <2>4. proj'.fills = FilledBy(progress[p])
    BY <2>1, <2>3 DEF Projected
  <2>5. \A o \in FilledBy(progress[p]) : o \in Orders /\ OrderAfter(o, progress[p]) = "filled"
    BY <2>1, TradingAssumption DEF FilledBy, OrderAfter, OrderStatus
  <2>6. FilledOrderReadsFilled'
    BY <2>1, <2>4, <2>5 DEF FilledOrderReadsFilled, Projected
  <2> QED
    BY <1>15, <2>2, <2>4, <2>6 DEF Project, Goto, clientVars, runnerVars, boundVars, historyVars, FirstRunInv, TypeInv, TypeOK
<1>16. ASSUME NEW p \in Processes, FinishRead(p) PROVE FirstRunInv'
  BY <1>16 DEF FinishRead, Goto, clientVars, boundVars, FirstRunInv, TypeInv, TypeOK, FilledOrderReadsFilled
<1>17. ASSUME NEW p \in Processes, FinishWrite(p) PROVE FirstRunInv'
  <2>1. proj' = Projected(progress[p]) /\ progress[p] \in 0..(Records + 1) /\ progress[p] \in Nat
    BY <1>17, TradingAssumption DEF FinishWrite, TypeInv, TypeOK
  <2>2. SUFFICES ASSUME starts <= 1 PROVE FirstRunInv'
    BY <1>17 DEF FinishWrite, boundVars, FirstRunInv
  <2>3. proj.fills \subseteq FilledBy(progress[p]) /\ FilledOrderReadsFilled
    BY <1>17, <2>2 DEF FinishWrite, FirstRunInv
  <2>4. proj'.fills = FilledBy(progress[p])
    BY <2>1, <2>3 DEF Projected
  <2>5. \A o \in FilledBy(progress[p]) : o \in Orders /\ OrderAfter(o, progress[p]) = "filled"
    BY <2>1, TradingAssumption DEF FilledBy, OrderAfter, OrderStatus
  <2>6. FilledOrderReadsFilled'
    BY <2>1, <2>4, <2>5 DEF FilledOrderReadsFilled, Projected
  <2> QED
    BY <1>17, <2>2, <2>4, <2>6 DEF FinishWrite, Goto, clientVars, runnerVars, boundVars, historyVars, FirstRunInv, TypeInv, TypeOK
<1>18. ASSUME NEW p \in Processes, RecordFailure(p) PROVE FirstRunInv'
  BY <1>18 DEF RecordFailure, Goto, clientVars, runnerVars, historyVars, boundVars, FirstRunInv, TypeInv, TypeOK, FilledOrderReadsFilled
<1>19. ASSUME NEW p \in Processes, ThreadEnds(p) PROVE FirstRunInv'
  BY <1>19 DEF ThreadEnds, Goto, clientVars, runnerVars, historyVars, boundVars, FirstRunInv, TypeInv, TypeOK, FilledOrderReadsFilled
<1>20. ASSUME NEW p \in Processes, RunnerRaises(p) PROVE FirstRunInv'
  BY <1>20 DEF RunnerRaises, Goto, clientVars, runnerVars, Active, FirstRunInv, TypeInv, TypeOK, FilledOrderReadsFilled
<1>21. ASSUME NEW p \in Processes, RecordFailureRaises(p) PROVE FirstRunInv'
  BY <1>21 DEF RecordFailureRaises, Goto, clientVars, runnerVars, FirstRunInv, TypeInv, TypeOK, FilledOrderReadsFilled
<1>22. ASSUME NEW p \in Processes, Crash(p) PROVE FirstRunInv'
  BY <1>22 DEF Crash, Goto, runnerVars, FirstRunInv, TypeInv, TypeOK, FilledOrderReadsFilled
<1>23. CASE UNCHANGED vars
  BY <1>23 DEF vars, FirstRunInv, FilledOrderReadsFilled
<1> QED
  BY <1>1, <1>2, <1>3, <1>4, <1>5, <1>6, <1>7, <1>8, <1>9,
     <1>10, <1>11, <1>12, <1>13, <1>14, <1>15, <1>16, <1>17, <1>18,
     <1>19, <1>20, <1>21, <1>22, <1>23
  DEF Next, Request, RunnerStep, Fault

(* Until a session is resumed, an order row never reads as working beside  *)
(* the fill that completed it.                                             *)
THEOREM FirstRunAgrees == Spec => []FirstRunOrdersAgree
<1>1. Init => FirstRunInv
  BY DEF Init, FirstRunInv, FilledOrderReadsFilled, EmptyProjection
<1>2. FirstRunInv => FirstRunOrdersAgree
  BY DEF FirstRunInv, FirstRunOrdersAgree
<1> QED
  BY <1>1, <1>2, InitTypeInv, NextTypeInv, NextFirstRunInv, PTL DEF Spec

-----------------------------------------------------------------------------
(* One process: a session that reads STOPPED has no runner left that could *)
(* project, and a runner that looked at the last record without closing    *)
(* the final slice failed.                                                 *)
SingleProcess == \A p, q \in Processes : p = q

FullInv ==
    /\ proj.fills \subseteq FilledBy(Records + 1)
    /\ \A p \in Processes :
           /\ pc[p] \in {"finish", "write"} /\ progress[p] = Records => terminal[p] = "FAILED"
           /\ status = "STOPPED" => pc[p] \in {"idle", "load", "claim", "except", "exit"}
    /\ CompletedIsFullyProjected

LEMMA NextFullInv ==
  ASSUME SingleProcess, TypeInv, FullInv, [Next]_vars
  PROVE  FullInv'
<1>1. ASSUME NEW c \in Clients, Start(c) PROVE FullInv'
  BY <1>1 DEF Start, Transition, AcceptedBy, runnerVars, historyVars, FullInv, TypeInv, TypeOK, CompletedIsFullyProjected
<1>2. ASSUME NEW c \in Clients, ResumeCheck(c) PROVE FullInv'
  BY <1>2 DEF ResumeCheck, runnerVars, historyVars, boundVars, FullInv, TypeInv, TypeOK, CompletedIsFullyProjected
<1>3. ASSUME NEW c \in Clients, ResumeCommit(c) PROVE FullInv'
  BY <1>3 DEF ResumeCommit, Transition, AcceptedBy, ResumesTo, runnerVars, FullInv, TypeInv, TypeOK, CompletedIsFullyProjected
<1>4. ASSUME NEW c \in Clients, ResumeRefused(c) PROVE FullInv'
  BY <1>4 DEF ResumeRefused, runnerVars, historyVars, boundVars, FullInv, TypeInv, TypeOK, CompletedIsFullyProjected
<1>5. ASSUME NEW c \in Clients, Launch(c) PROVE FullInv'
  BY <1>5 DEF Launch, historyVars, boundVars, runnerVars, FullInv, TypeInv, TypeOK, CompletedIsFullyProjected
<1>6. ASSUME Pause PROVE FullInv'
  BY <1>6 DEF Pause, Transition, clientVars, runnerVars, historyVars, boundVars, FullInv, TypeInv, TypeOK, CompletedIsFullyProjected
<1>7. ASSUME RequestStop PROVE FullInv'
  BY <1>7 DEF RequestStop, Transition, clientVars, runnerVars, historyVars, boundVars, FullInv, TypeInv, TypeOK, CompletedIsFullyProjected
<1>8. ASSUME EngageKillSwitch PROVE FullInv'
  BY <1>8 DEF EngageKillSwitch, clientVars, runnerVars, historyVars, boundVars, FullInv, TypeInv, TypeOK, CompletedIsFullyProjected
<1>9. ASSUME NEW p \in Processes, Load(p) PROVE FullInv'
  BY <1>9 DEF Load, Goto, clientVars, runnerVars, historyVars, boundVars, FullInv, TypeInv, TypeOK, CompletedIsFullyProjected
<1>10. ASSUME NEW p \in Processes, Claim(p) PROVE FullInv'
  BY <1>10 DEF Claim, Goto, Claimable, clientVars, runnerVars, boundVars, FullInv, TypeInv, TypeOK, CompletedIsFullyProjected
<1>11. ASSUME NEW p \in Processes, ClaimRefused(p) PROVE FullInv'
  BY <1>11 DEF ClaimRefused, Goto, clientVars, runnerVars, historyVars, boundVars, FullInv, TypeInv, TypeOK, CompletedIsFullyProjected
<1>12. ASSUME NEW p \in Processes, ShouldContinue(p) PROVE FullInv'
  BY <1>12 DEF ShouldContinue, Goto, KeepGoing, EndsAs, clientVars, boundVars, FullInv, TypeInv, TypeOK, CompletedIsFullyProjected
<1>13. ASSUME NEW p \in Processes, CloseFinalSlice(p) PROVE FullInv'
  BY <1>13, TradingAssumption DEF CloseFinalSlice, Goto, FinalSliceClosed, clientVars, boundVars, FullInv, TypeInv, TypeOK, CompletedIsFullyProjected
<1>14. ASSUME NEW p \in Processes, Advance(p) PROVE FullInv'
  <2>1. progress[p] \in Nat /\ progress[p] + 1 \in 0..Records /\ Records \in Nat
    BY <1>14, TradingAssumption DEF Advance, TypeInv, TypeOK, LoopBound
  <2>2. progress'[p] = progress[p] + 1 /\ \A q \in Processes : q # p => progress'[q] = progress[q]
    BY <1>14, <2>1 DEF Advance, TypeInv, TypeOK
  <2> QED
    BY <1>14, <2>1, <2>2 DEF Advance, Goto, clientVars, boundVars, FullInv, TypeInv, TypeOK, CompletedIsFullyProjected
<1>15. ASSUME NEW p \in Processes, Project(p) PROVE FullInv'
  <2>1. proj' = Projected(progress[p]) /\ progress[p] \in 0..(Records + 1) /\ progress[p] \in Nat
    BY <1>15, TradingAssumption DEF Project, TypeInv, TypeOK
  <2>2. status # "STOPPED" /\ status' = status
    BY <1>15 DEF Project, FullInv
  <2>3. FilledBy(progress[p]) \subseteq FilledBy(Records + 1)
    BY <2>1, TradingAssumption DEF FilledBy
  <2>4. proj'.fills \subseteq FilledBy(Records + 1)
    BY <2>1, <2>3 DEF Projected, FullInv
  <2> QED
    BY <1>15, <2>2, <2>4 DEF Project, Goto, runnerVars, FullInv, TypeInv, TypeOK, CompletedIsFullyProjected
<1>16. ASSUME NEW p \in Processes, FinishRead(p) PROVE FullInv'
  BY <1>16 DEF FinishRead, Goto, clientVars, boundVars, FullInv, TypeInv, TypeOK, CompletedIsFullyProjected
<1>17. ASSUME NEW p \in Processes, FinishWrite(p) PROVE FullInv'
  <2>1. proj' = Projected(progress[p]) /\ progress[p] \in 0..(Records + 1) /\ progress[p] \in Nat
    BY <1>17, TradingAssumption DEF FinishWrite, TypeInv, TypeOK
  <2>2. FilledBy(progress[p]) \subseteq FilledBy(Records + 1)
    BY <2>1, TradingAssumption DEF FilledBy
  <2>3. proj'.fills \subseteq FilledBy(Records + 1)
    BY <2>1, <2>2 DEF Projected, FullInv
  <2>4. status # "STOPPED" /\ status' = FinalStatus(p) /\ (progress[p] = Records => terminal[p] = "FAILED")
    BY <1>17 DEF FinishWrite, FullInv
  <2>5. status' = "STOPPED" => progress[p] # Records
    BY <2>4 DEF FinalStatus
  <2>6. \A q \in Processes : q = p /\ pc'[q] = "exit"
    BY <1>17 DEF FinishWrite, Goto, SingleProcess, TypeInv, TypeOK
  <2>7. ASSUME status' = "STOPPED", proj'.records = Records, Records > 0
        PROVE  CompletedIsFullyProjected'
    <3>1. progress[p] = Records + 1
      BY <2>1, <2>5, <2>7, TradingAssumption DEF Projected
    <3>2. /\ proj'.fills = proj.fills \cup FilledBy(Records + 1)
          /\ proj'.positions = FilledBy(Records + 1)
          /\ \A o \in Orders : proj'.orders[o] = OrderAfter(o, Records + 1)
      BY <2>1, <3>1 DEF Projected
    <3>3. \A o \in Orders : OrderAfter(o, Records + 1) = OrderStatus(o, Records + 1)
      BY TradingAssumption DEF OrderAfter, OrderStatus
    <3> QED
      BY <3>2, <3>3 DEF CompletedIsFullyProjected, FullInv
  <2> QED
    BY <1>17, <2>3, <2>6, <2>7 DEF FinishWrite, runnerVars, FullInv, CompletedIsFullyProjected
<1>18. ASSUME NEW p \in Processes, RecordFailure(p) PROVE FullInv'
  BY <1>18 DEF RecordFailure, Goto, clientVars, runnerVars, historyVars, boundVars, FullInv, TypeInv, TypeOK, CompletedIsFullyProjected
<1>19. ASSUME NEW p \in Processes, ThreadEnds(p) PROVE FullInv'
  BY <1>19 DEF ThreadEnds, Goto, clientVars, runnerVars, historyVars, boundVars, FullInv, TypeInv, TypeOK, CompletedIsFullyProjected
<1>20. ASSUME NEW p \in Processes, RunnerRaises(p) PROVE FullInv'
  BY <1>20 DEF RunnerRaises, Goto, clientVars, runnerVars, Active, FullInv, TypeInv, TypeOK, CompletedIsFullyProjected
<1>21. ASSUME NEW p \in Processes, RecordFailureRaises(p) PROVE FullInv'
  BY <1>21 DEF RecordFailureRaises, Goto, clientVars, runnerVars, FullInv, TypeInv, TypeOK, CompletedIsFullyProjected
<1>22. ASSUME NEW p \in Processes, Crash(p) PROVE FullInv'
  BY <1>22 DEF Crash, Goto, runnerVars, FullInv, TypeInv, TypeOK, CompletedIsFullyProjected
<1>23. CASE UNCHANGED vars
  BY <1>23 DEF vars, FullInv, CompletedIsFullyProjected
<1> QED
  BY <1>1, <1>2, <1>3, <1>4, <1>5, <1>6, <1>7, <1>8, <1>9,
     <1>10, <1>11, <1>12, <1>13, <1>14, <1>15, <1>16, <1>17, <1>18,
     <1>19, <1>20, <1>21, <1>22, <1>23
  DEF Next, Request, RunnerStep, Fault

(* With one process, the tables of a session that has stopped are those of *)
(* the finished replay, and agree with each other from its start.          *)
THEOREM TablesAlwaysAgree == SingleProcess => (Spec => []TablesAgree)
<1> SUFFICES ASSUME SingleProcess PROVE Spec => []TablesAgree
  OBVIOUS
<1>1. Init => FullInv
  BY DEF Init, FullInv, EmptyProjection, CompletedIsFullyProjected
<1>2. TypeInv /\ FullInv /\ [Next]_vars => FullInv'
  BY NextFullInv
<1>3. FullInv /\ FirstRunOrdersAgree => TablesAgree
  BY DEF FullInv, TablesAgree
<1> QED
  BY <1>1, <1>2, <1>3, InitTypeInv, NextTypeInv, FirstRunAgrees, PTL DEF Spec
=============================================================================
