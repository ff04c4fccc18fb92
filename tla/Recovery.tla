------------------------------ MODULE Recovery ------------------------------
(***************************************************************************)
(* scripts/backup_recovery.py: the coordinated capture of database and     *)
(* storage while the application is stopped, the encrypted upload with     *)
(* Restic and its retention, retries of a bundle that was not uploaded,    *)
(* and rehearsals.  Several invocations may overlap, any command may fail, *)
(* and the script may be killed between any two of them.                   *)
(***************************************************************************)
EXTENDS Integers, Sequences, FiniteSets

CONSTANTS
    Runs,          \* invocations of the script
    Writers,       \* Compose services other than the database
    Files,         \* storage objects; the row that refers to one has its name
    Settings,      \* which parts of the configuration are in order
    MaxBundles,    \* bound on captures
    MaxSnapshots,  \* bound on the repository
    MaxMishaps     \* bound on kills of the script and damaged bundles together

ASSUME RecoveryAssumption ==
    /\ IsFiniteSet(Writers) /\ IsFiniteSet(Files)
    /\ MaxBundles \in Nat /\ MaxSnapshots \in Nat /\ MaxMishaps \in Nat

VARIABLES
    up,        \* writers that are running
    deployed,  \* writers that run when nobody interferes
    leftDown,  \* writers stopped by a run that was killed or could not start them again
    client,    \* is a database client that is not a Compose service connected
    files,     \* storage objects on the volume
    rows,      \* storage objects a committed row refers to
    staging,   \* the bundles in the staging directory
    repo,      \* Restic snapshots of this deployment, in the order of their upload
    lock,      \* the run holding the flock of the staging directory
    run,       \* what each invocation is doing
    mishaps,
    spoiled,   \* history: bundles damaged between their verification and their upload
    replaced   \* history: bundles whose last snapshot made room for two younger ones

history == <<spoiled, replaced>>
vars == <<up, deployed, leftDown, client, files, rows, staging, repo, lock, run, mishaps, history>>
world == <<deployed, leftDown, client, files, rows, mishaps, spoiled, replaced>>
-----------------------------------------------------------------------------
Nobody == "nobody"
ASSUME NobodyAssumption == Nobody \notin Runs
Bundles == 1 .. MaxBundles

(* A bundle: the rows of its dump, the files of its archive, its inventory *)
(* and the digests its manifest records.  A digest stands for the content  *)
(* it was computed from.                                                   *)
NoBundle == [state |-> "none", dump |-> {}, archive |-> {}, list |-> {}, sums |-> {}]

Empty(state) == [NoBundle EXCEPT !.state = state]

Digests(b) == [dump |-> b.dump, archive |-> b.archive, list |-> b.list]

(* _verify_storage_archive: the archive holds what the inventory lists. *)
ArchiveMatches(b) == b.archive = b.list

(* _verify_bundle *)
Verifies(b) == b.sums = {Digests(b)} /\ ArchiveMatches(b)

(* _verify_storage_references *)
Restorable(b) == Verifies(b) /\ b.dump \subseteq b.list

(* What an invocation does when it begins. *)
Fresh(pc, mode, was, b) ==
    [pc |-> pc, mode |-> mode, was |-> was, bundle |-> b,
     stopped |-> FALSE, failed |-> FALSE, stored |-> FALSE]

Idle == Fresh("idle", "none", {}, 0)

Modes == {"execute", "rehearse", "retry"}

(* _rehearsal_config and the checks of the volumes and containers.         *)
Isolated == "isolated" \in Settings

(* BackupConfig.from_environment *)
Configured(mode) ==
    /\ "encrypted" \in Settings
    /\ IF mode = "rehearse" THEN Isolated ELSE "remote" \in Settings

Init ==
    /\ deployed \in SUBSET Writers
    /\ up = deployed
    /\ leftDown = {}
    /\ client = FALSE
    /\ files = {}
    /\ rows = {}
    /\ staging = [b \in Bundles |-> NoBundle]
    /\ repo = <<>>
    /\ lock = Nobody
    /\ run = [p \in Runs |-> Idle]
    /\ mishaps = 0
    /\ spoiled = {}
    /\ replaced = {}
-----------------------------------------------------------------------------
(* The application, or a client outside Compose that the script cannot     *)
(* stop: an object is written before the row that refers to it commits.    *)
WriteFile(f) ==
    /\ up # {} \/ client
    /\ f \notin files
    /\ files' = files \cup {f}
    /\ UNCHANGED <<up, deployed, leftDown, client, rows, staging, repo, lock, run, mishaps,
                   history>>

CommitRow(f) ==
    /\ up # {} \/ client
    /\ f \in files \ rows
    /\ rows' = rows \cup {f}
    /\ UNCHANGED <<up, deployed, leftDown, client, files, staging, repo, lock, run, mishaps,
                   history>>

(* Such a client matters only during a capture. *)
Connect ==
    /\ \/ client
       \/ up = {} /\ \E p \in Runs : run[p].pc \in {"check", "dump", "copy", "again"}
    /\ client' = ~client
    /\ UNCHANGED <<up, deployed, leftDown, files, rows, staging, repo, lock, run, mishaps, history>>

(* A bundle in staging is damaged, at any moment after its digests were    *)
(* taken: nothing protects it between _verify_bundle and the end of restic *)
(* backup.  Which of its files are lost makes no difference to the digests.*)
Damaged(b) == [Empty(b.state) EXCEPT !.sums = b.sums]

Damage(b) ==
    /\ mishaps < MaxMishaps
    /\ mishaps' = mishaps + 1
    /\ Verifies(staging[b]) /\ ~Verifies(Damaged(staging[b]))
    /\ staging' = [staging EXCEPT ![b] = Damaged(@)]
    /\ spoiled' = IF \E p \in Runs : run[p].pc = "upload" /\ run[p].bundle = b
                  THEN spoiled \cup {b} ELSE spoiled
    /\ UNCHANGED <<up, deployed, leftDown, client, files, rows, repo, lock, run, replaced>>

(* The operator starts what a run left down. *)
Repair ==
    /\ leftDown # {}
    /\ \A p \in Runs : run[p] = Idle
    /\ up' = up \cup leftDown
    /\ leftDown' = {}
    /\ UNCHANGED <<deployed, client, files, rows, staging, repo, lock, run, mishaps, history>>
-----------------------------------------------------------------------------
At(p, pc) == run[p].pc = pc
Goes(r, pc) == [r EXCEPT !.pc = pc]
To(p, pc) == run' = [run EXCEPT ![p] = Goes(run[p], pc)]

Taking(p) == run[p].bundle

(* _backup_lock: a second run is refused. *)
Free == lock = Nobody

(* _services *)
Running == up

(* _perform_backup and _capture_only, up to the temporary directory.       *)
Start(p, mode, b) ==
    /\ run[p] = Idle
    /\ mode # "retry" /\ Configured(mode)
    /\ Free
    /\ b \in Bundles /\ staging[b].state = "none"
    /\ \A c \in Bundles : c < b => staging[c].state # "none"
    /\ lock' = p
    /\ staging' = [staging EXCEPT ![b] = Empty("temp")]
    /\ run' = [run EXCEPT ![p] = Fresh("stop", mode, Running, b)]
    /\ UNCHANGED <<up, world, repo>>

(* _upload_pending: any directory in staging, also one a failure left.     *)
Retry(p, b) ==
    /\ run[p] = Idle
    /\ Configured("retry")
    /\ Free
    /\ staging[b].state \in {"complete", "temp", "failed"}
    /\ lock' = p
    /\ run' = [run EXCEPT ![p] = Fresh("verify", "retry", {}, b)]
    /\ UNCHANGED <<up, world, staging, repo>>

(* The graceful stop: it may fail having stopped some of the services.     *)
(* The mutant notes that it stopped them only when the command succeeds.   *)
NotedAfter(p, failed) == run[p].was # {} /\ ~failed
Noted(p, failed) == run[p].was # {}

Stopped(p, noted, failed) == [[run[p] EXCEPT !.stopped = noted] EXCEPT !.failed = failed]

Stop(p) ==
    /\ At(p, "stop")
    /\ \E gone \in SUBSET run[p].was :
           /\ up' = up \ gone
           /\ \E failed \in {gone # run[p].was, run[p].was # {}} :
                  run' = [run EXCEPT ![p] = Goes(Stopped(p, Noted(p, failed), failed),
                                                 IF failed THEN "abandon" ELSE "check")]
    /\ UNCHANGED <<world, staging, repo, lock>>

(* The order of the capture; the mutant takes the storage first. *)
StorageFirst == [check |-> "copy", copy |-> "dump", dump |-> "again", again |-> "seal"]
After == [check |-> "dump", dump |-> "copy", copy |-> "again", again |-> "seal"]

(* The quiescence check and _check_database_has_no_other_clients. *)
Quiet == up = {} /\ ~client

Check(p) ==
    /\ At(p, "check")
    /\ Quiet
    /\ To(p, After["check"])
    /\ UNCHANGED <<up, world, staging, repo, lock>>

(* pg_dump sees the rows committed when it begins. *)
Dump(p) ==
    /\ At(p, "dump")
    /\ staging' = [staging EXCEPT ![Taking(p)].dump = rows]
    /\ To(p, After["dump"])
    /\ UNCHANGED <<up, world, repo, lock>>

(* docker cp, _storage_checksums and _archive_storage. *)
Archived(b) == [[b EXCEPT !.archive = files] EXCEPT !.list = files]

Copy(p) ==
    /\ At(p, "copy")
    /\ staging' = [staging EXCEPT ![Taking(p)] = Archived(staging[Taking(p)])]
    /\ To(p, After["copy"])
    /\ UNCHANGED <<up, world, repo, lock>>

(* The second check of the clients, the manifest, and the rename that      *)
(* completes the bundle.                                                   *)
Again(p) ==
    /\ At(p, "again")
    /\ ~client
    /\ staging' = [staging EXCEPT ![Taking(p)].sums = {Digests(staging[Taking(p)])}]
    /\ To(p, After["again"])
    /\ UNCHANGED <<up, world, repo, lock>>

Seal(p) ==
    /\ At(p, "seal")
    /\ staging' = [staging EXCEPT ![Taking(p)].state = "complete"]
    /\ To(p, "resume")
    /\ UNCHANGED <<up, world, repo, lock>>

(* Any command of the capture fails; or the flush after the rename does.   *)
FailCapture(p) ==
    /\ run[p].pc \in {"stop", "check", "dump", "copy", "again", "seal"}
    /\ run' = [run EXCEPT ![p] = Goes([run[p] EXCEPT !.failed = TRUE], "abandon")]
    /\ \/ UNCHANGED staging
       \/ /\ At(p, "seal")
          /\ staging' = [staging EXCEPT ![Taking(p)].state = "complete"]
    /\ UNCHANGED <<up, world, repo, lock>>

(* What a failed capture leaves: a rehearsal keeps the evidence, a backup  *)
(* removes the temporary directory but not a bundle already renamed.       *)
Abandon(p) ==
    /\ At(p, "abandon")
    /\ staging' = [staging EXCEPT ![Taking(p)] =
                      IF run[p].mode = "rehearse" THEN [@ EXCEPT !.state = "failed"]
                      ELSE IF @.state = "temp" THEN Empty("discarded") ELSE @]
    /\ To(p, "resume")
    /\ UNCHANGED <<up, world, repo, lock>>
-----------------------------------------------------------------------------
End(p) == run' = [run EXCEPT ![p] = Idle] /\ lock' = Nobody

(* The writers this run found running are started and looked at again; an  *)
(* error of the start ends the run, and the operator is told.              *)
(* The mutant does so only after a capture that succeeded.                 *)
RestartsOnSuccess(p) == run[p].stopped /\ ~run[p].failed
Restarts(p) == run[p].stopped

Resume(p) ==
    /\ At(p, "resume")
    /\ \/ /\ up' = IF Restarts(p) THEN up \cup run[p].was ELSE up
          /\ IF run[p].failed THEN End(p) ELSE To(p, "verify") /\ UNCHANGED lock
          /\ UNCHANGED leftDown
       \/ /\ Restarts(p)
          /\ \E started \in SUBSET run[p].was :
                 /\ up' = up \cup started
                 /\ leftDown' = leftDown \cup (run[p].was \ up')
          /\ End(p)
    /\ UNCHANGED <<deployed, client, files, rows, mishaps, staging, repo, history>>

(* A run ends with an error and keeps the bundle. *)
Refuse(p) ==
    /\ run[p].pc \in {"verify", "upload", "exists", "forget", "remains"}
    /\ End(p)
    /\ UNCHANGED <<up, world, staging, repo>>

(* _verify_bundle, which is all that a rehearsal does.                     *)
Verify(p) ==
    /\ At(p, "verify")
    /\ Verifies(staging[Taking(p)])
    /\ IF run[p].mode = "rehearse" THEN End(p) ELSE To(p, "upload") /\ UNCHANGED lock
    /\ UNCHANGED <<up, world, staging, repo>>

(* restic backup reads the bundle again.  It may report an error, or an    *)
(* identifier, whether or not the snapshot is there.                       *)
Snapshot(b) == [bundle |-> b, verifies |-> Verifies(staging[b]),
                restorable |-> Restorable(staging[b])]

Upload(p) ==
    /\ At(p, "upload")
    /\ \E stored \in {FALSE, Len(repo) < MaxSnapshots} :
           /\ repo' = IF stored THEN Append(repo, Snapshot(Taking(p))) ELSE repo
           /\ \/ End(p)
              \/ /\ run' = [run EXCEPT ![p] = Goes([run[p] EXCEPT !.stored = stored], "exists")]
                 /\ UNCHANGED lock
    /\ UNCHANGED <<up, world, staging>>

(* _snapshot_exists: is the snapshot whose identifier Restic reported in   *)
(* the repository?  It was stored last, for nobody else uploads under the  *)
(* lock.  The mutant believes Restic.                                      *)
Reported(p) == TRUE
Found(p) == run[p].stored /\ repo[Len(repo)].bundle = Taking(p)

Exists(p) ==
    /\ At(p, "exists")
    /\ Found(p)
    /\ To(p, "forget")
    /\ UNCHANGED <<up, world, staging, repo, lock>>

(* restic forget --prune: the last two snapshots stay; how many older ones *)
(* the daily, weekly and monthly rules keep depends on their dates.        *)
KeptLast == {i \in 1 .. Len(repo) : i > Len(repo) - 2}

Thinnings ==
    UNION {{f \in [1 .. n -> 1 .. Len(repo)] :
               /\ \A i, j \in 1 .. n : i < j => f[i] < f[j]
               /\ \A k \in KeptLast : \E i \in 1 .. n : f[i] = k} : n \in 0 .. Len(repo)}

Stored(b) == \E i \in 1 .. Len(repo) : repo[i].bundle = b

(* The bundles whose last snapshot goes while two younger ones stay.       *)
MakeRoom(kept) ==
    {b \in Bundles :
        /\ Stored(b)
        /\ \A i \in DOMAIN kept : repo[kept[i]].bundle # b
        /\ \E i, j \in DOMAIN kept :
               /\ kept[i] # kept[j]
               /\ \A k \in 1 .. Len(repo) : repo[k].bundle = b => k < kept[i] /\ k < kept[j]}

Forget(p) ==
    /\ At(p, "forget")
    /\ \E kept \in Thinnings :
           /\ repo' = [i \in DOMAIN kept |-> repo[kept[i]]]
           /\ replaced' = replaced \cup MakeRoom(kept)
    /\ \/ To(p, "remains") /\ UNCHANGED lock
       \/ End(p)
    /\ UNCHANGED <<up, deployed, leftDown, client, files, rows, mishaps, staging, spoiled>>

(* The second _snapshot_exists, then the bundle is removed. *)
Remains(p) ==
    /\ At(p, "remains")
    /\ Found(p)
    /\ staging' = [staging EXCEPT ![Taking(p)] = Empty("gone")]
    /\ End(p)
    /\ UNCHANGED <<up, world, repo>>

(* The script is killed, and the command it runs with it: the kernel drops *)
(* the lock, nothing else is undone.                                       *)
Kill(p) ==
    /\ run[p] # Idle
    /\ mishaps < MaxMishaps
    /\ mishaps' = mishaps + 1
    /\ leftDown' = leftDown \cup (IF run[p].stopped THEN run[p].was \ up ELSE {})
    /\ End(p)
    /\ UNCHANGED <<up, deployed, client, files, rows, staging, repo, history>>
-----------------------------------------------------------------------------
Capture(p) ==
    \/ Stop(p) \/ Check(p) \/ Dump(p) \/ Copy(p) \/ Again(p) \/ Seal(p)
    \/ FailCapture(p) \/ Abandon(p) \/ Resume(p)

Offsite(p) == Verify(p) \/ Upload(p) \/ Exists(p) \/ Forget(p) \/ Remains(p) \/ Refuse(p)

Begin(p) == \E b \in Bundles : Retry(p, b) \/ \E mode \in Modes : Start(p, mode, b)

Outside ==
    \/ \E f \in Files : WriteFile(f) \/ CommitRow(f)
    \/ \E b \in Bundles : Damage(b)
    \/ Connect \/ Repair

Next == Outside \/ \E p \in Runs : Begin(p) \/ Capture(p) \/ Offsite(p) \/ Kill(p)

(* The script executes its commands until it ends; it waits for nobody.    *)
Fairness == \A p \in Runs : WF_vars(Capture(p) \/ Offsite(p))

Spec == Init /\ [][Next]_vars /\ Fairness
-----------------------------------------------------------------------------
TypeOK ==
    /\ deployed \subseteq Writers /\ up \subseteq deployed /\ leftDown \subseteq deployed
    /\ client \in BOOLEAN
    /\ rows \subseteq files /\ files \subseteq Files
    /\ \A b \in Bundles :
           /\ staging[b].state \in {"none", "temp", "complete", "failed", "discarded", "gone"}
           /\ staging[b].dump \cup staging[b].archive \cup staging[b].list \subseteq Files
    /\ \A i \in 1 .. Len(repo) : repo[i].bundle \in Bundles
    /\ spoiled \subseteq Bundles /\ replaced \subseteq Bundles
    /\ \A p \in Runs : run[p] # Idle <=> lock = p
    /\ \A p \in Runs : run[p].was \subseteq deployed /\ run[p].bundle \in 0 .. MaxBundles

(* Every snapshot can be restored: it verifies and holds the file of every *)
(* row of its dump, whatever was retried, was damaged before the upload    *)
(* verified it, or was written by a client that came and went between the  *)
(* two checks.  Only damage between that verification and Restic's own     *)
(* reading gets into a snapshot, and such a snapshot does not verify: a    *)
(* bundle that --verify-bundle accepts is restorable.                      *)
SnapshotsRestorable ==
    \A i \in 1 .. Len(repo) :
        repo[i].restorable \/ (repo[i].bundle \in spoiled /\ ~repo[i].verifies)

(* What is in the repository was verified, so it can be restored.  TLC     *)
(* refutes it: the bundle may be damaged after _verify_bundle has read it. *)
UploadedAsVerified == \A i \in 1 .. Len(repo) : repo[i].restorable

(* A bundle that was removed from staging is in the repository, or was     *)
(* there until its last snapshot made room for two younger ones.           *)
NothingLost ==
    \A b \in Bundles : staging[b].state = "gone" => Stored(b) \/ b \in replaced

(* What a run stops it starts again, however it fails; what is down        *)
(* afterwards is known to be: a kill of the script or a failed start.      *)
StoppedIsResumed ==
    (\A p \in Runs : ~run[p].stopped) => up \cup leftDown = deployed

(* The maintenance window of a run ends: its writers run again, or it was  *)
(* killed or could not start them.                                         *)
WindowEnds ==
    \A w \in Writers : (w \in deployed \ up) ~> (w \in up \cup leftDown)
=============================================================================
