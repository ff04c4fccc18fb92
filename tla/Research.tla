------------------------------ MODULE Research ------------------------------
(***************************************************************************)
(* What a backtest or a paper session computes on: versions of a dataset   *)
(* (data/ingest.py, common/storage.py) and a version of a strategy         *)
(* (strategies/service.py), from the preview of a file to the run that     *)
(* reads its rows.  Requests overlap on PostgreSQL's READ COMMITTED; the   *)
(* process may die between two steps of an import; a file may be altered   *)
(* on the volume.                                                          *)
(*                                                                         *)
(* A request that decides on what it read is two steps, the read and the   *)
(* commit.  A content stands for the bytes of a file, for the rows they    *)
(* become and for their SHA-256.                                           *)
(***************************************************************************)
EXTENDS Integers, FiniteSets

CONSTANTS
    Clients,      \* requests being served at the same time
    Ids,          \* versions of the dataset
    Contents,     \* files a user may upload or a URL may serve
    Sparse,       \* those whose bars do not show the declared interval
    Settings,     \* declarations and cleaning policies
    None,         \* no row, no file, no hash
    Behaviours,   \* what a strategy version may do
    MaxRuns,      \* bound on backtests and sessions
    MaxAltered,   \* bound on files altered on the volume
    MaxCrashes    \* bound on crashes

ASSUME ResearchAssumption ==
    /\ IsFiniteSet(Ids)
    /\ Sparse \subseteq Contents
    /\ None \notin Contents \cup Behaviours
    /\ MaxRuns \in Nat /\ MaxAltered \in Nat /\ MaxCrashes \in Nat

VARIABLES
    version,    \* the row of each dataset version
    file,       \* its canonical file
    previewed,  \* the preview_id the user holds
    strategy,   \* the row of the strategy version
    request,    \* what each request is doing
    queued,     \* backtests and sessions that were accepted
    exec,       \* the worker or runner that executes them
    results,    \* what was computed, on what
    reviewed,   \* history: dataset versions a review has approved
    altered, crashes

vars == <<version, file, previewed, strategy, request, queued, exec, results, reviewed,
          altered, crashes>>
datasets == <<version, file, previewed, reviewed>>
runs == <<queued, exec, results>>
bounds == <<altered, crashes>>
-----------------------------------------------------------------------------
Altered == "altered"
Statuses == {"PENDING_APPROVAL", "APPROVED", "REJECTED", "FAILED"}
Kinds == {"backtest", "session"}

Row == [number : 1 .. Cardinality(Ids), status : Statuses, content : Contents,
        settings : Settings, confirmed : BOOLEAN, validated : BOOLEAN]

Rows == {None} \cup Row

ASSUME NoRowAssumption == None \notin Row

Stored == {d \in Ids : version[d] # None}
Numbers == {version[d].number : d \in Stored}
Highest == CHOOSE n \in Numbers \cup {0} : \A k \in Numbers : k <= n

(* preview_identity *)
Identity(content, settings) == <<content, settings>>

(* A version imported before declarations were recorded may exist.         *)
Legacy == {[number |-> 1, status |-> "APPROVED", content |-> x, settings |-> s,
            confirmed |-> FALSE, validated |-> FALSE] : x \in Contents \ Sparse, s \in Settings}

Idle == [pc |-> "idle"]

Init ==
    /\ \/ version = [d \in Ids |-> None]
       \/ \E row \in Legacy, d \in Ids : version = [e \in Ids |-> IF e = d THEN row ELSE None]
    /\ file = [d \in Ids |-> IF version[d] = None THEN None ELSE version[d].content]
    /\ previewed = None
    /\ strategy \in [status : {"DRAFT"}, behaviour : Behaviours, hash : {None}]
    /\ request = [c \in Clients |-> Idle]
    /\ queued = {}
    /\ exec = Idle
    /\ results = {}
    /\ reviewed = Stored
    /\ altered = 0
    /\ crashes = 0

Reads(c, r) == request[c] = Idle /\ request' = [request EXCEPT ![c] = r]
Ends(c) == request' = [request EXCEPT ![c] = Idle]
-----------------------------------------------------------------------------
(***************************************************************************)
(* Importing a file.                                                       *)
(***************************************************************************)

(* inspect_bytes, inspect_url: nothing is stored. *)
Preview(content, settings) ==
    /\ previewed' = [id |-> Identity(content, settings), of |-> <<content, settings>>]
    /\ UNCHANGED <<version, file, strategy, request, runs, reviewed, bounds>>

(* _require_preview, for the preview_id the user holds.                    *)
Bound(content, settings, confirming) ==
    confirming => previewed # None /\ previewed.id = Identity(content, settings)

(* _check_confirmation: exactly the instruments that need it. *)
Accepted(content, confirming) == confirming <=> content \in Sparse

(* The steps of an import. *)
Then == [read |-> "write", write |-> "insert", insert |-> "idle"]

Advance(c) ==
    LET next == Then[request[c].pc]
    IN  request' = [request EXCEPT ![c] = IF next = "idle" THEN Idle ELSE [@ EXCEPT !.pc = next]]

(* ingest_upload, ingest_url up to _next_version: what was fetched now is  *)
(* checked against the preview, and the highest number is read.            *)
BeginImport(c, d, content, settings, confirming) ==
    /\ version[d] = None /\ file[d] = None
    /\ \A e \in Clients : request[e].pc \in {"write", "insert"} => request[e].id # d
    /\ Bound(content, settings, confirming)
    /\ Reads(c, [pc |-> Then["read"], id |-> d,
                 row |-> [number |-> Highest + 1, content |-> content, settings |-> settings,
                          confirmed |-> confirming, validated |-> TRUE,
                          status |-> IF Accepted(content, confirming) THEN "PENDING_APPROVAL"
                                     ELSE "FAILED"]])
    /\ UNCHANGED <<datasets, strategy, runs, bounds>>

(* write_jsonl: a temporary file, renamed over the key.  A failed version  *)
(* has no rows.                                                            *)
WriteFile(c) ==
    /\ request[c].pc = "write"
    /\ IF request[c].row.status = "FAILED" THEN UNCHANGED file
       ELSE file' = [file EXCEPT ![request[c].id] = request[c].row.content]
    /\ Advance(c)
    /\ UNCHANGED <<version, previewed, strategy, runs, reviewed, bounds>>

(* uq_dataset_version; the mutant has no constraint. *)
Unconstrained(n) == TRUE
Free(n) == n \notin Numbers

InsertVersion(c) ==
    /\ request[c].pc = "insert"
    /\ IF Free(request[c].row.number)
       THEN version' = [version EXCEPT ![request[c].id] = request[c].row] /\ Advance(c)
       ELSE Ends(c) /\ UNCHANGED version
    /\ UNCHANGED <<file, previewed, strategy, runs, reviewed, bounds>>
-----------------------------------------------------------------------------
(***************************************************************************)
(* Review.                                                                 *)
(***************************************************************************)

(* _require_runnable *)
Runnable(row) == row.validated

(* approve: the status is read; an approved version is returned as it is.  *)
ReadApprove(c, d) ==
    /\ d \in Stored
    /\ version[d].status = "PENDING_APPROVAL" /\ Runnable(version[d])
    /\ Reads(c, [pc |-> "approve", id |-> d])
    /\ UNCHANGED <<datasets, strategy, runs, bounds>>

Approve(c) ==
    /\ request[c].pc = "approve"
    /\ version' = [version EXCEPT ![request[c].id].status = "APPROVED"]
    /\ reviewed' = reviewed \cup {request[c].id}
    /\ Ends(c)
    /\ UNCHANGED <<file, previewed, strategy, runs, bounds>>

ReadReject(c, d) ==
    /\ d \in Stored
    /\ version[d].status \in {"PENDING_APPROVAL", "APPROVED"}
    /\ Reads(c, [pc |-> "reject", id |-> d])
    /\ UNCHANGED <<datasets, strategy, runs, bounds>>

RejectVersion(c) ==
    /\ request[c].pc = "reject"
    /\ version' = [version EXCEPT ![request[c].id].status = "REJECTED"]
    /\ Ends(c)
    /\ UNCHANGED <<file, previewed, strategy, runs, reviewed, bounds>>
-----------------------------------------------------------------------------
(***************************************************************************)
(* The strategy version.                                                   *)
(***************************************************************************)

(* update_draft: frozen is checked on the row as it was read. *)
ReadEdit(c, b) ==
    /\ strategy.status = "DRAFT" /\ b # strategy.behaviour
    /\ Reads(c, [pc |-> "edit", behaviour |-> b])
    /\ UNCHANGED <<datasets, strategy, runs, bounds>>

Edit(c) ==
    /\ request[c].pc = "edit"
    /\ strategy' = [strategy EXCEPT !.behaviour = request[c].behaviour]
    /\ Ends(c)
    /\ UNCHANGED <<datasets, runs, bounds>>

(* publish: the hash is of the fields as they were read; the UPDATE does   *)
(* not write those fields.                                                 *)
ReadPublish(c) ==
    /\ strategy.status = "DRAFT"
    /\ Reads(c, [pc |-> "publish", behaviour |-> strategy.behaviour])
    /\ UNCHANGED <<datasets, strategy, runs, bounds>>

Publish(c) ==
    /\ request[c].pc = "publish"
    /\ strategy' = [strategy EXCEPT !.status = "PUBLISHED", !.hash = request[c].behaviour]
    /\ Ends(c)
    /\ UNCHANGED <<datasets, runs, bounds>>

(* verify_integrity *)
Intact(s) == s.hash = None \/ s.hash = s.behaviour
-----------------------------------------------------------------------------
(***************************************************************************)
(* Backtests and paper sessions.                                           *)
(***************************************************************************)

(* require_approved; the mutant refuses only what failed. *)
NotFailed(d) == version[d].status # "FAILED" /\ Runnable(version[d])
Usable(d) == version[d].status = "APPROVED" /\ file[d] # None /\ Runnable(version[d])

(* resolve_runnable refuses a version that was modified; resolve_version,  *)
(* for a session, does not look.                                           *)
Resolves(kind) == strategy.status # "DRAFT" /\ (kind = "backtest" => Intact(strategy))

ReadSubmit(c, kind, d) ==
    /\ d \in Stored /\ Usable(d) /\ Resolves(kind)
    /\ Reads(c, [pc |-> "submit", id |-> d, kind |-> kind])
    /\ UNCHANGED <<datasets, strategy, runs, bounds>>

Submit(c) ==
    /\ request[c].pc = "submit"
    /\ Cardinality(queued) + Cardinality(results) < MaxRuns
    /\ queued' = queued \cup {[kind |-> request[c].kind, id |-> request[c].id]}
    /\ Ends(c)
    /\ UNCHANGED <<datasets, strategy, exec, results, bounds>>

(* _execute_claimed and the runner's _load, up to the first digest of the  *)
(* canonical file.  Only the worker verifies the strategy version.         *)
Load(q) ==
    /\ exec = Idle
    /\ Runnable(version[q.id])
    /\ q.kind = "backtest" => Intact(strategy)
    /\ file[q.id] = version[q.id].content
    /\ exec' = [pc |-> "hashed", run |-> q, behaviour |-> strategy.behaviour, hash |-> strategy.hash]
    /\ UNCHANGED <<datasets, strategy, request, queued, results, bounds>>

(* The second pass of read_jsonl_verified: what is parsed is hashed again. *)
(* In the mutant the first digest is enough.                               *)
HashedBefore(d) == TRUE
HashedAgain(d) == file[d] = version[d].content

Compute ==
    /\ exec.pc = "hashed"
    /\ LET q == exec.run
       IN  results' = IF HashedAgain(q.id)
                      THEN results \cup {[kind |-> q.kind, id |-> q.id, rows |-> file[q.id],
                                          ran |-> exec.behaviour, recorded |-> exec.hash]}
                      ELSE results
    /\ exec' = Idle
    /\ queued' = queued \ {exec.run}
    /\ UNCHANGED <<datasets, strategy, request, bounds>>
-----------------------------------------------------------------------------
(* A canonical file changes on the volume. *)
Alter(d) ==
    /\ altered < MaxAltered /\ file[d] \notin {None, Altered}
    /\ file' = [file EXCEPT ![d] = Altered]
    /\ altered' = altered + 1
    /\ UNCHANGED <<version, previewed, strategy, request, runs, reviewed, crashes>>

(* The process dies: what was not committed is gone. *)
Crash ==
    /\ crashes < MaxCrashes
    /\ request' = [c \in Clients |-> Idle]
    /\ exec' = Idle
    /\ crashes' = crashes + 1
    /\ UNCHANGED <<datasets, strategy, queued, results, altered>>

ImportStep(c) ==
    \/ \E d \in Ids, x \in Contents, s \in Settings, confirming \in BOOLEAN :
          BeginImport(c, d, x, s, confirming)
    \/ WriteFile(c)
    \/ InsertVersion(c)

ReviewStep(c) ==
    \/ \E d \in Ids : ReadApprove(c, d) \/ ReadReject(c, d)
    \/ Approve(c)
    \/ RejectVersion(c)

StrategyStep(c) ==
    \/ \E b \in Behaviours : ReadEdit(c, b)
    \/ Edit(c)
    \/ ReadPublish(c)
    \/ Publish(c)

RunStep(c) ==
    \/ \E d \in Ids, kind \in Kinds : ReadSubmit(c, kind, d)
    \/ Submit(c)

Next ==
    \/ \E x \in Contents, s \in Settings : Preview(x, s)
    \/ \E c \in Clients : ImportStep(c) \/ ReviewStep(c) \/ StrategyStep(c) \/ RunStep(c)
    \/ \E q \in queued : Load(q)
    \/ Compute
    \/ \E d \in Ids : Alter(d)
    \/ Crash

Spec == Init /\ [][Next]_vars
-----------------------------------------------------------------------------
TypeOK ==
    /\ version \in [Ids -> Rows]
    /\ file \in [Ids -> Contents \cup {None, Altered}]
    /\ strategy \in [status : {"DRAFT", "PUBLISHED"}, behaviour : Behaviours,
                     hash : Behaviours \cup {None}]
    /\ queued \subseteq [kind : Kinds, id : Stored]
    /\ results \subseteq [kind : Kinds, id : Stored, rows : Contents, ran : Behaviours,
                          recorded : Behaviours]
    /\ reviewed \subseteq Stored
    /\ \A c \in Clients :
          request[c].pc \in {"idle", "write", "insert", "approve", "reject", "edit", "publish", "submit"}

(* Versions of a dataset are numbered from one without a gap or a number   *)
(* given twice, however imports overlap and wherever they die.             *)
Numbered ==
    /\ Numbers = 1 .. Cardinality(Stored)
    /\ \A d, e \in Stored : version[d].number = version[e].number => d = e

(* A version that can be reviewed has its rows on the volume: an import    *)
(* that dies leaves a file without a row, never a row without its file.    *)
RowsOnDisk ==
    \A d \in Stored : version[d].status # "FAILED" => file[d] \in {version[d].content, Altered}

(* What an import commits is complete, wherever another one died. *)
VersionsComplete == Numbered /\ RowsOnDisk

(* An import accepted on a confirmation was confirmed by someone who had   *)
(* seen these bytes read this way.                                         *)
ConfirmedAsPreviewed ==
    [][\A c \in Clients :
          (request[c] = Idle /\ request'[c].pc \in {"write", "insert"} /\ request'[c].row.confirmed)
              => previewed.of = <<request'[c].row.content, request'[c].row.settings>>]_vars

(* Nothing is computed on a version no review has approved, or whose       *)
(* timestamps were never declared.                                         *)
OnlyReviewed == \A r \in results : r.id \in reviewed /\ version[r.id].validated

(* The rows a run computed on are the ones whose hash was recorded at      *)
(* import, whatever happens to the file while it is read.                  *)
RowsAsImported == \A r \in results : r.rows = version[r.id].content

(* A backtest ran the behaviour whose hash it records, although an edit    *)
(* may commit after the publication.                                       *)
BacktestRanRecorded == \A r \in results : r.kind = "backtest" => r.ran = r.recorded

(* What a run computed on and ran is what is recorded of it. *)
RanAsRecorded == RowsAsImported /\ BacktestRanRecorded

(* The docstring of publish: "After this the version's behaviour can never *)
(* change."  Refuted: an edit that read the draft commits afterwards.      *)
PublishedNeverChanges ==
    [][strategy.status = "PUBLISHED" => strategy'.behaviour = strategy.behaviour]_vars

(* What reject promises of a version: "it cannot be used".  Refuted: an    *)
(* approval that read it pending commits afterwards.                       *)
RejectedStays ==
    [][\A d \in Ids : (version[d] # None /\ version[d].status = "REJECTED") => version'[d] = version[d]]_vars
=============================================================================
