------------------------------ MODULE AuditLog ------------------------------
(***************************************************************************)
(* What the audit trail of an organization promises to its callers: each   *)
(* transaction adds the events it recorded, in the order it recorded them, *)
(* all at once when it commits and none when it rolls back; nothing is     *)
(* changed or removed afterwards.                                          *)
(***************************************************************************)
EXTENDS Sequences

CONSTANTS Writers, Bodies

VARIABLES
    log,      \* the committed events
    pending   \* what each open transaction has recorded

Init == /\ log = <<>>
        /\ pending = [w \in Writers |-> <<>>]

Record(w, b) == /\ pending' = [pending EXCEPT ![w] = Append(@, b)]
                /\ UNCHANGED log

Commit(w) == /\ log' = log \o pending[w]
             /\ pending' = [pending EXCEPT ![w] = <<>>]

Rollback(w) == /\ pending' = [pending EXCEPT ![w] = <<>>]
               /\ UNCHANGED log

Next == \E w \in Writers : \/ \E b \in Bodies : Record(w, b)
                           \/ Commit(w) \/ Rollback(w)

Spec == Init /\ [][Next]_<<log, pending>>
=============================================================================
