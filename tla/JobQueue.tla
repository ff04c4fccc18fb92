------------------------------ MODULE JobQueue ------------------------------
(***************************************************************************)
(* What the backtest queue promises to who submits and cancels: a job is   *)
(* queued once, is started a bounded number of times, and ends; it has a   *)
(* result when it completed, and is not run again after that.  A job that  *)
(* nobody asked to cancel stays as it ended.                               *)
(*                                                                         *)
(* A cancellation is not exact: it may be written over a status that it    *)
(* did not see, and what was under way may then be written over it; but no *)
(* job is cancelled unless that was asked for.                             *)
(***************************************************************************)
EXTENDS Integers

CONSTANTS Jobs, MaxStarts

VARIABLES
    state,   \* the status a user is shown; "NONE" before the job is submitted
    starts,  \* how often it was started
    asked,   \* whether its cancellation was asked for
    result   \* whether its result is there

Ended == {"COMPLETED", "FAILED", "CANCELLED"}

Init == /\ state = [k \in Jobs |-> "NONE"]
        /\ starts = [k \in Jobs |-> 0]
        /\ asked = [k \in Jobs |-> FALSE]
        /\ result = [k \in Jobs |-> FALSE]

Submit(k) == /\ state[k] = "NONE"
             /\ state' = [state EXCEPT ![k] = "QUEUED"]
             /\ UNCHANGED <<starts, asked, result>>

Start(k) == /\ state[k] = "QUEUED"
            /\ starts[k] < MaxStarts
            /\ state' = [state EXCEPT ![k] = "RUNNING"]
            /\ starts' = [starts EXCEPT ![k] = @ + 1]
            /\ UNCHANGED <<asked, result>>

(* Started, not ended, and perhaps shown as cancelled. *)
Underway(k) == ~result[k] /\ (state[k] = "RUNNING" \/ (state[k] = "CANCELLED" /\ asked[k]))

End(k, how) == /\ Underway(k)
               /\ how = "CANCELLED" => asked[k]
               /\ state' = [state EXCEPT ![k] = how]
               /\ result' = [result EXCEPT ![k] = (how = "COMPLETED")]
               /\ UNCHANGED <<starts, asked>>

(* After a crash: each is run again, if it may be. *)
Return(S) == /\ \A k \in S : Underway(k)
             /\ state' = [k \in Jobs |-> IF k \notin S THEN state[k]
                                         ELSE IF starts[k] < MaxStarts THEN "QUEUED" ELSE "FAILED"]
             /\ UNCHANGED <<starts, asked, result>>

Cancel(k) == /\ state[k] # "NONE"
             /\ asked' = [asked EXCEPT ![k] = TRUE]
             /\ state' \in {state, [state EXCEPT ![k] = "CANCELLED"]}
             /\ UNCHANGED <<starts, result>>

(* A queued job is not started any more. *)
Drop(k) == /\ state[k] = "QUEUED" /\ asked[k]
           /\ state' = [state EXCEPT ![k] = "CANCELLED"]
           /\ UNCHANGED <<starts, asked, result>>

Next == \/ \E k \in Jobs : \/ Submit(k) \/ Start(k) \/ Cancel(k) \/ Drop(k)
                           \/ \E how \in Ended : End(k, how)
        \/ \E S \in SUBSET Jobs : Return(S)

Spec == Init /\ [][Next]_<<state, starts, asked, result>>
=============================================================================
