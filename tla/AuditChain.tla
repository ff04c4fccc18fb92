----------------------------- MODULE AuditChain -----------------------------
(***************************************************************************)
(* The audit hash chain of one organization (platform/audit.py): the       *)
(* transactions of concurrent requests and workers that record events, on  *)
(* PostgreSQL (READ COMMITTED, a lock on the organization's row) or on     *)
(* SQLite (one writer at a time, no row locks), and the verification of    *)
(* the chain they leave.                                                   *)
(***************************************************************************)
EXTENDS Integers, Sequences, SequencesExt

CONSTANTS
    Writers,    \* transactions that may be open at the same time
    NoWriter,
    Bodies,     \* what the hash covers besides the position and the link
    MaxEvents   \* bound on the length of the chain

ASSUME AuditAssumption ==
    /\ NoWriter \notin Writers
    /\ MaxEvents \in Nat

VARIABLES
    backend,   \* the database, fixed when the system is deployed
    events,    \* the committed rows of audit_events, in the order they committed
    own,       \* the rows each open transaction has inserted
    pc,        \* where each transaction is
    keyShare,  \* PostgreSQL: the foreign-key lock it has on the organization's row
    holder,    \* who holds that row FOR NO KEY UPDATE; SQLite: who holds the write lock
    head       \* the head of the chain it read

vars == <<backend, events, own, pc, keyShare, holder, head>>
-----------------------------------------------------------------------------
(* compute_hash: SHA-256 is taken to be injective in what it covers, so a  *)
(* hash is what it was taken over.  The mutant does not cover the body.    *)
PositionHash(sequence, body, previous) ==
    Append(previous, <<sequence, CHOOSE b \in Bodies : TRUE>>)
ComputeHash(sequence, body, previous) == Append(previous, <<sequence, body>>)

Hashes == Seq(Nat \X Bodies)

(* What an empty chain is linked to: (0, GENESIS_HASH). *)
Genesis == [sequence |-> 0, hash |-> <<>>]

(* The rows ORDER BY sequence: what comes before row i, and the last of    *)
(* the rows J.                                                             *)
Before(rows, i) == {j \in DOMAIN rows : \/ rows[j].sequence < rows[i].sequence
                                        \/ rows[j].sequence = rows[i].sequence /\ j < i}

Latest(rows, J) == IF J = {} THEN Genesis
                   ELSE rows[CHOOSE j \in J : \A k \in J \ {j} : k \in Before(rows, j)]

(* chain_head: the row with the highest sequence. *)
ChainHead(rows) == Latest(rows, DOMAIN rows)

NewEvent(last, body) ==
    [sequence |-> last.sequence + 1,
     body     |-> body,
     previous |-> last.hash,
     hash     |-> ComputeHash(last.sequence + 1, body, last.hash)]

(* verify_chain: the rows, in the order of their sequence, that do not     *)
(* follow their predecessor, do not link to it, or do not hash to what     *)
(* they say.                                                               *)
Breaks(rows) ==
    {i \in DOMAIN rows : LET p == Latest(rows, Before(rows, i)) IN
        \/ rows[i].sequence # p.sequence + 1
        \/ rows[i].previous # p.hash
        \/ rows[i].hash # ComputeHash(rows[i].sequence, rows[i].body, rows[i].previous)}

(* What a transaction sees: what is committed and what it inserted. *)
Visible(w) == events \o own[w]

Init ==
    /\ backend \in {"postgresql", "sqlite"}
    /\ events = <<>>
    /\ own = [w \in Writers |-> <<>>]
    /\ pc = [w \in Writers |-> "idle"]
    /\ keyShare = [w \in Writers |-> FALSE]
    /\ holder = NoWriter
    /\ head = [w \in Writers |-> Genesis]
-----------------------------------------------------------------------------
Goto(w, to) == pc' = [pc EXCEPT ![w] = to]

(* A request begins ... *)
Begin(w) ==
    /\ pc[w] = "idle"
    /\ Goto(w, "open")
    /\ UNCHANGED <<backend, events, own, keyShare, holder, head>>

(* ... and may write rows that belong to the organization before it        *)
(* records anything: a foreign-key lock on PostgreSQL, the write lock on   *)
(* SQLite.                                                                 *)
WriteRows(w) ==
    /\ pc[w] = "open"
    /\ \/ /\ backend = "postgresql"
          /\ ~keyShare[w]
          /\ keyShare' = [keyShare EXCEPT ![w] = TRUE]
          /\ UNCHANGED holder
       \/ /\ backend = "sqlite"
          /\ holder = NoWriter
          /\ holder' = w
          /\ UNCHANGED keyShare
    /\ UNCHANGED <<backend, events, own, pc, head>>

(* Whose lock on the organization's row conflicts with FOR NO KEY UPDATE;  *)
(* the mutant is FOR UPDATE, which conflicts with foreign-key locks too.   *)
HoldersAndReferrers(w) == {v \in Writers \ {w} : v = holder \/ keyShare[v]}
Conflicting(w) == {v \in Writers \ {w} : v = holder}

(* record: the lock on the organization's row, which is a plain SELECT on  *)
(* SQLite.                                                                 *)
LockOrganization(w) ==
    /\ pc[w] = "lock"
    /\ \/ /\ backend = "postgresql"
          /\ Conflicting(w) = {}
          /\ holder' = w
       \/ /\ backend = "sqlite"
          /\ UNCHANGED holder
    /\ Goto(w, "head")
    /\ UNCHANGED <<backend, events, own, keyShare, head>>

Record(w) ==
    /\ pc[w] = "open"
    /\ Goto(w, "lock")
    /\ UNCHANGED <<backend, events, own, keyShare, holder, head>>

ReadHead(w) ==
    /\ pc[w] = "head"
    /\ head' = [head EXCEPT ![w] = ChainHead(Visible(w))]
    /\ Goto(w, "insert")
    /\ UNCHANGED <<backend, events, own, keyShare, holder>>

(* The unique constraint on (organization_id, sequence): the position is   *)
(* taken by a row the transaction can see, or by one another transaction   *)
(* has not committed, for which the insert waits.  The mutant is a table   *)
(* without the constraint.                                                 *)
NothingTaken(w, rows) == FALSE
Taken(w, rows) == \E i \in DOMAIN rows : rows[i].sequence = head[w].sequence + 1

Insert(w, b) ==
    /\ pc[w] = "insert"
    /\ head[w].sequence < MaxEvents
    /\ ~Taken(w, Visible(w))
    /\ \A v \in Writers : ~Taken(w, own[v])
    /\ \/ backend = "postgresql" /\ UNCHANGED holder
       \/ backend = "sqlite" /\ holder \in {NoWriter, w} /\ holder' = w
    /\ own' = [own EXCEPT ![w] = Append(@, NewEvent(head[w], b))]
    /\ Goto(w, "open")
    /\ UNCHANGED <<backend, events, keyShare, head>>

(* The end of a transaction gives up its rows and its locks. *)
Ends(w) ==
    /\ own' = [own EXCEPT ![w] = <<>>]
    /\ keyShare' = [keyShare EXCEPT ![w] = FALSE]
    /\ holder' = IF holder = w THEN NoWriter ELSE holder
    /\ Goto(w, "idle")
    /\ UNCHANGED <<backend, head>>

Commit(w) ==
    /\ pc[w] = "open"
    /\ events' = events \o own[w]
    /\ Ends(w)

(* An exception, a lock timeout, an IntegrityError or a crash: session_scope *)
(* rolls back.  The mutant is a record that commits what came before it.   *)
KeepEarlier(w) == events' = events \o SubSeq(own[w], 1, Len(own[w]) - 1)
Undo(w) == UNCHANGED events

Rollback(w) ==
    /\ pc[w] # "idle"
    /\ Undo(w)
    /\ Ends(w)
-----------------------------------------------------------------------------
Transaction(w) == \/ Begin(w) \/ WriteRows(w) \/ Record(w) \/ LockOrganization(w)
                  \/ ReadHead(w) \/ Commit(w) \/ Rollback(w)
                  \/ \E b \in Bodies : Insert(w, b)

Next == \E w \in Writers : Transaction(w)

Spec == Init /\ [][Next]_vars
-----------------------------------------------------------------------------
(* The columns of a row. *)
Events == [sequence : Nat, body : Bodies, previous : Hashes, hash : Hashes]

(* Every variable holds a value of its column or local's type. *)
TypeOK ==
    /\ backend \in {"postgresql", "sqlite"}
    /\ pc \in [Writers -> {"idle", "open", "lock", "head", "insert"}]
    /\ keyShare \in [Writers -> BOOLEAN]
    /\ holder \in Writers \cup {NoWriter}
    /\ DOMAIN own = Writers /\ DOMAIN head = Writers
    /\ events \in Seq(Events)
    /\ \A w \in Writers : own[w] \in Seq(Events)
    /\ \A w \in Writers : head[w].sequence \in Nat /\ head[w].hash \in Hashes

(* Whatever transactions raced, failed or rolled back, the committed chain *)
(* verifies: no gap, no duplicate position, every link right.              *)
ChainVerifies == Breaks(events) = {}

(* One row altered afterwards, or one row other than the newest missing,   *)
(* is reported.  (The newest row missing is a shorter chain that verifies.)*)
DamageShows ==
    \A i \in DOMAIN events :
        /\ \A b \in Bodies \ {events[i].body} : Breaks([events EXCEPT ![i].body = b]) # {}
        /\ i # Len(events) => Breaks(RemoveAt(events, i)) # {}

(* A writer that holds the lock inserts after the head it read: nobody     *)
(* moved the head in between, so its event is not refused.                 *)
HeadIsCurrent ==
    \A w \in Writers : pc[w] = "insert" /\ holder = w => head[w] = ChainHead(Visible(w))

(* What a transaction waits for: the lock on the organization's row, a     *)
(* position another one has inserted at, SQLite's write lock.              *)
WaitsFor(w, v) ==
    /\ v # w
    /\ \/ pc[w] = "lock" /\ backend = "postgresql" /\ v \in Conflicting(w)
       \/ pc[w] = "insert" /\ Taken(w, own[v])
       \/ pc[w] = "insert" /\ backend = "sqlite" /\ v = holder

(* Whoever is waited for waits for nobody, so no transactions that wrote   *)
(* rows of the organization and record events wait for each other in a     *)
(* circle, however many they are.                                          *)
NoLockCycle == \A u, v, w \in Writers : ~(WaitsFor(u, v) /\ WaitsFor(v, w))

(* The chain implements the audit log. *)
BodyOf(rows) == [i \in DOMAIN rows |-> rows[i].body]

Log == INSTANCE AuditLog WITH log <- BodyOf(events),
                              pending <- [w \in Writers |-> BodyOf(own[w])]

ImplementsLog == Log!Spec
=============================================================================
