--------------------------- MODULE RecoveryProofs ---------------------------
(***************************************************************************)
(* Proofs about Recovery, for any number of invocations, services, storage *)
(* objects, captures, snapshots and kills.                                 *)
(***************************************************************************)
EXTENDS Recovery, SequenceTheorems, TLAPS

-----------------------------------------------------------------------------
(***************************************************************************)
(* Types, and the lock: one invocation at a time is doing anything.        *)
(***************************************************************************)
Capturing == {"stop", "check", "dump", "copy", "again", "seal"}
Uploading == {"verify", "upload", "exists", "forget", "remains"}
Steps == Capturing \cup {"abandon", "resume"} \cup Uploading

Invocation == [pc : Steps, mode : Modes, was : SUBSET Writers, bundle : Bundles,
               stopped : BOOLEAN, failed : BOOLEAN, stored : BOOLEAN]

Sum == [dump : SUBSET Files, archive : SUBSET Files, list : SUBSET Files]

Bundle == [state : {"none", "temp", "complete", "failed", "discarded", "gone"},
           dump : SUBSET Files, archive : SUBSET Files, list : SUBSET Files, sums : SUBSET Sum]

Entry == [bundle : Bundles, verifies : BOOLEAN, restorable : BOOLEAN]

TypeInv ==
    /\ deployed \subseteq Writers /\ up \subseteq deployed /\ leftDown \subseteq deployed
    /\ client \in BOOLEAN
    /\ rows \subseteq files /\ files \subseteq Files
    /\ staging \in [Bundles -> Bundle]
    /\ repo \in Seq(Entry)
    /\ spoiled \subseteq Bundles /\ replaced \subseteq Bundles
    /\ lock \in Runs \cup {Nobody}
    /\ run \in [Runs -> {Idle} \cup Invocation]
    /\ \A p \in Runs : run[p] # Idle <=> lock = p
    /\ \A p \in Runs : run[p].was \subseteq deployed

LEMMA Acting ==
  ASSUME TypeInv, NEW p \in Runs, run[p].pc # "idle"
  PROVE  /\ run[p] \in Invocation /\ run[p] # Idle /\ lock = p
         /\ run[p].was \subseteq deployed /\ Taking(p) \in Bundles /\ staging[Taking(p)] \in Bundle
         /\ \A q \in Runs : q # p => run[q] = Idle
<1>1. run[p] \in Invocation /\ run[p] # Idle
  BY DEF TypeInv, Idle, Fresh
<1> QED
  BY <1>1 DEF TypeInv, Taking, Invocation

LEMMA NotActing ==
  ASSUME TypeInv, NEW p \in Runs, run[p] = Idle
  PROVE  lock # p
BY DEF TypeInv

(* An invocation goes on. *)
LEMMA TypeGoesOn ==
  ASSUME TypeInv, NEW p \in Runs, NEW what \in Invocation, what.was \subseteq deployed,
         run' = [run EXCEPT ![p] = what], lock' = p, lock \in {p, Nobody}, deployed' = deployed
  PROVE  /\ run' \in [Runs -> {Idle} \cup Invocation]
         /\ lock' \in Runs \cup {Nobody}
         /\ \A q \in Runs : run'[q] # Idle <=> lock' = q
         /\ \A q \in Runs : run'[q].was \subseteq deployed'
<1>1. what # Idle
  BY DEF Invocation, Idle, Fresh, Steps, Capturing, Uploading
<1>2. \A q \in Runs : q # p => run'[q] = run[q] /\ run[q] = Idle
  BY NobodyAssumption DEF TypeInv
<1>3. run'[p] = what
  BY DEF TypeInv
<1> QED
  BY <1>1, <1>2, <1>3 DEF TypeInv

(* An invocation ends. *)
LEMMA TypeEnds ==
  ASSUME TypeInv, NEW p \in Runs, run[p].pc # "idle", End(p), deployed' = deployed
  PROVE  /\ run' \in [Runs -> {Idle} \cup Invocation]
         /\ lock' = Nobody /\ lock' \in Runs \cup {Nobody}
         /\ \A q \in Runs : run'[q] = Idle
         /\ \A q \in Runs : run'[q] # Idle <=> lock' = q
         /\ \A q \in Runs : run'[q].was \subseteq deployed'
<1>1. \A q \in Runs : run'[q] = Idle
  BY Acting DEF End, TypeInv
<1>2. run' \in [Runs -> {Idle} \cup Invocation] /\ lock' = Nobody
  BY DEF End, TypeInv
<1>3. Idle.was = {}
  BY DEF Idle, Fresh
<1> QED
  BY <1>1, <1>2, <1>3, NobodyAssumption

(* What an invocation is doing after a step that changes where it is.      *)
Now(p, pc, s, f, o) ==
    [pc |-> pc, mode |-> run[p].mode, was |-> run[p].was, bundle |-> run[p].bundle,
     stopped |-> s, failed |-> f, stored |-> o]

LEMMA Onward ==
  ASSUME TypeInv, NEW p \in Runs, run[p].pc # "idle", NEW pc \in Steps, NEW s \in BOOLEAN,
         NEW f \in BOOLEAN, NEW o \in BOOLEAN
  PROVE  /\ Now(p, pc, s, f, o) \in Invocation
         /\ Goes(run[p], pc) = Now(p, pc, run[p].stopped, run[p].failed, run[p].stored)
         /\ Goes([run[p] EXCEPT !.failed = f], pc) = Now(p, pc, run[p].stopped, f, run[p].stored)
         /\ Goes([run[p] EXCEPT !.stored = o], pc) = Now(p, pc, run[p].stopped, run[p].failed, o)
         /\ Goes(Stopped(p, s, f), pc) = Now(p, pc, s, f, run[p].stored)
<1>1. run[p] \in Invocation
  BY Acting
<1>2. PICK x \in Steps, m \in Modes, w \in SUBSET Writers, b \in Bundles, t \in BOOLEAN, u \in BOOLEAN,
           v \in BOOLEAN :
        run[p] = [pc |-> x, mode |-> m, was |-> w, bundle |-> b, stopped |-> t, failed |-> u, stored |-> v]
  BY <1>1 DEF Invocation
<1>3. \A a, c, d, e : Now(p, a, c, d, e) =
          [pc |-> a, mode |-> m, was |-> w, bundle |-> b, stopped |-> c, failed |-> d, stored |-> e]
  BY <1>2 DEF Now
<1>4. Now(p, pc, s, f, o) \in Invocation
  BY <1>3 DEF Invocation
<1>5. \A a, c, d, e : Goes(Now(p, a, c, d, e), pc) = Now(p, pc, c, d, e)
  BY <1>3 DEF Goes
<1>6. run[p] = Now(p, x, t, u, v)
  BY <1>2, <1>3
<1>7. [run[p] EXCEPT !.failed = f] = Now(p, x, t, f, v)
  BY <1>2, <1>3
<1>8. [run[p] EXCEPT !.stored = o] = Now(p, x, t, u, o)
  BY <1>2, <1>3
<1>9. Stopped(p, s, f) = Now(p, x, s, f, v)
  <2>1. [run[p] EXCEPT !.stopped = s] = Now(p, x, s, u, v)
    BY <1>2, <1>3
  <2>2. [Now(p, x, s, u, v) EXCEPT !.failed = f] = Now(p, x, s, f, v)
    BY <1>3
  <2> QED
    BY <2>1, <2>2 DEF Stopped
<1>10. run[p].stopped = t /\ run[p].failed = u /\ run[p].stored = v
  BY <1>2
<1> QED
  BY <1>4, <1>5, <1>6, <1>7, <1>8, <1>9, <1>10

LEMMA EmptyBundle ==
  ASSUME NEW x \in {"none", "temp", "complete", "failed", "discarded", "gone"}
  PROVE  Empty(x) \in Bundle /\ Empty(x).state = x /\ Empty(x).sums = {}
BY DEF Empty, NoBundle, Bundle

(* A damaged bundle keeps the digests it had.                              *)
LEMMA DamagedBundle ==
  ASSUME NEW b \in Bundle
  PROVE  Damaged(b) \in Bundle /\ Damaged(b).state = b.state /\ Damaged(b).sums = b.sums
<1>1. PICK e \in Bundle : e = Empty(b.state) /\ e.state = b.state
  BY EmptyBundle DEF Bundle
<1>2. Damaged(b) = [e EXCEPT !.sums = b.sums]
  BY <1>1 DEF Damaged
<1> QED
  BY <1>1, <1>2 DEF Bundle

(* The edits of a bundle keep its type.                                    *)
LEMMA Edited ==
  ASSUME TypeInv, NEW b \in Bundles
  PROVE  /\ \A x \in {"none", "temp", "complete", "failed", "discarded", "gone"} :
                [staging EXCEPT ![b].state = x] \in [Bundles -> Bundle]
         /\ [staging EXCEPT ![b].dump = rows] \in [Bundles -> Bundle]
         /\ [staging EXCEPT ![b] = Archived(staging[b])] \in [Bundles -> Bundle]
         /\ [staging EXCEPT ![b].sums = {Digests(staging[b])}] \in [Bundles -> Bundle]
         /\ [staging EXCEPT ![b] = Damaged(staging[b])] \in [Bundles -> Bundle]
         /\ \A x \in {"temp", "discarded", "gone"} :
                [staging EXCEPT ![b] = Empty(x)] \in [Bundles -> Bundle]
<1>1. staging \in [Bundles -> Bundle] /\ staging[b] \in Bundle /\ rows \subseteq Files /\ files \subseteq Files
  BY DEF TypeInv
<1>2. \A x \in {"none", "temp", "complete", "failed", "discarded", "gone"} :
        [staging EXCEPT ![b].state = x] \in [Bundles -> Bundle]
  BY <1>1 DEF Bundle
<1>3. [staging EXCEPT ![b].dump = rows] \in [Bundles -> Bundle]
  BY <1>1 DEF Bundle
<1>4. [staging EXCEPT ![b] = Archived(staging[b])] \in [Bundles -> Bundle]
  <2>1. [staging[b] EXCEPT !.archive = files] \in Bundle
    BY <1>1 DEF Bundle
  <2>2. Archived(staging[b]) \in Bundle
    BY <1>1, <2>1 DEF Bundle, Archived
  <2> QED
    BY <1>1, <2>2
<1>5. [staging EXCEPT ![b].sums = {Digests(staging[b])}] \in [Bundles -> Bundle]
  <2>1. Digests(staging[b]) \in Sum
    BY <1>1 DEF Digests, Sum, Bundle
  <2>2. {Digests(staging[b])} \in SUBSET Sum
    BY <2>1
  <2> HIDE DEF Sum
  <2> QED
    BY <1>1, <2>2 DEF Bundle
<1>6. [staging EXCEPT ![b] = Damaged(staging[b])] \in [Bundles -> Bundle]
  BY <1>1, DamagedBundle
<1>7. \A x \in {"temp", "discarded", "gone"} :
        [staging EXCEPT ![b] = Empty(x)] \in [Bundles -> Bundle]
  BY <1>1, EmptyBundle
<1> QED
  BY <1>2, <1>3, <1>4, <1>5, <1>6, <1>7

(* What restic forget keeps of the repository.                             *)
LEMMA Thinned ==
  ASSUME TypeInv, NEW kept \in Thinnings, repo' = [i \in DOMAIN kept |-> repo[kept[i]]]
  PROVE  /\ repo' \in Seq(Entry) /\ DOMAIN kept = 1 .. Len(repo')
         /\ \A i \in 1 .. Len(repo') : kept[i] \in 1 .. Len(repo) /\ repo'[i] = repo[kept[i]]
         /\ \A k \in KeptLast : \E i \in DOMAIN kept : kept[i] = k
         /\ Len(repo) >= 1 => Len(repo') >= 1
<1>1. repo \in Seq(Entry) /\ Len(repo) \in Nat
  BY DEF TypeInv
<1>2. PICK n \in 0 .. Len(repo) :
        /\ kept \in [1 .. n -> 1 .. Len(repo)]
        /\ \A k \in KeptLast : \E i \in 1 .. n : kept[i] = k
  BY <1>1 DEF Thinnings
<1>3. \A k \in 1 .. Len(repo) : repo[k] \in Entry
  BY <1>1
<1>4. repo' = [i \in 1 .. n |-> repo[kept[i]]] /\ n \in Nat
  BY <1>1, <1>2
<1>5. \A i \in 1 .. n : repo'[i] = repo[kept[i]] /\ kept[i] \in 1 .. Len(repo)
  BY <1>2, <1>4
<1>6. repo' \in [1 .. n -> Entry]
  BY <1>3, <1>4, <1>5
<1>7. repo' \in Seq(Entry) /\ Len(repo') = n
  BY <1>4, <1>6
<1>8. Len(repo) >= 1 => n >= 1
  <2>1. Len(repo) >= 1 => Len(repo) \in KeptLast
    BY <1>1 DEF KeptLast
  <2> QED
    BY <1>2, <1>4, <2>1
<1> QED
  BY <1>2, <1>5, <1>7, <1>8

(* A bundle that leaves the repository makes room for two younger ones: the*)
(* last two are kept, and it was neither.                                  *)
LEMMA LeavesForYounger ==
  ASSUME TypeInv, NEW kept \in Thinnings, repo' = [i \in DOMAIN kept |-> repo[kept[i]]],
         NEW b \in Bundles, Stored(b)
  PROVE  Stored(b)' \/ b \in MakeRoom(kept)
<1>1. Len(repo) \in Nat
  BY DEF TypeInv
<1>2. PICK l \in Nat : l = Len(repo)
  BY <1>1
<1>3. CASE \E i \in DOMAIN kept : repo[kept[i]].bundle = b
  BY <1>3, Thinned DEF Stored
<1>4. CASE \A i \in DOMAIN kept : repo[kept[i]].bundle # b
  <2>1. PICK k \in 1 .. l : repo[k].bundle = b
    BY <1>2 DEF Stored
  <2>2. l \in KeptLast
    BY <1>2, <2>1 DEF KeptLast
  <2>3. PICK i \in DOMAIN kept : kept[i] = l
    BY <2>2, Thinned
  <2>4. repo[l].bundle # b /\ k # l
    BY <1>4, <2>1, <2>3
  <2>5. l - 1 \in KeptLast
    BY <1>2, <2>1, <2>4 DEF KeptLast
  <2>6. PICK j \in DOMAIN kept : kept[j] = l - 1
    BY <2>5, Thinned
  <2>7. repo[l - 1].bundle # b
    BY <1>4, <2>6
  <2>8. \A m \in 1 .. l : repo[m].bundle = b => m < l - 1 /\ m < l
    BY <2>4, <2>7
  <2>9. kept[i] # kept[j] /\ \A m \in 1 .. Len(repo) : repo[m].bundle = b => m < kept[i] /\ m < kept[j]
    BY <1>2, <2>3, <2>6, <2>8
  <2> QED
    BY <1>4, <2>9 DEF MakeRoom
<1> QED
  BY <1>3, <1>4
-----------------------------------------------------------------------------
(* Each step keeps the types. *)
LEMMA TypeInit == Init => TypeInv
<1> SUFFICES ASSUME Init
             PROVE  TypeInv
  OBVIOUS
<1>1. NoBundle \in Bundle
  BY DEF NoBundle, Bundle
<1>2. staging \in [Bundles -> Bundle] /\ run \in [Runs -> {Idle} \cup Invocation]
  BY <1>1 DEF Init
<1>3. \A p \in Runs : run[p] = Idle /\ lock # p
  BY NobodyAssumption DEF Init
<1>4. Idle.was = {}
  BY DEF Idle, Fresh
<1>5. repo \in Seq(Entry) /\ lock \in Runs \cup {Nobody}
  BY DEF Init
<1>6. /\ deployed \subseteq Writers /\ up \subseteq deployed /\ leftDown \subseteq deployed
      /\ client \in BOOLEAN /\ rows \subseteq files /\ files \subseteq Files
      /\ spoiled \subseteq Bundles /\ replaced \subseteq Bundles
  BY DEF Init
<1> QED
  BY <1>2, <1>3, <1>4, <1>5, <1>6 DEF TypeInv

LEMMA TypeOutside == TypeInv /\ Outside => TypeInv'
<1> SUFFICES ASSUME TypeInv, Outside
             PROVE  TypeInv'
  OBVIOUS
<1>1. ASSUME NEW f \in Files, WriteFile(f)
      PROVE  TypeInv'
  BY <1>1 DEF WriteFile, TypeInv, history
<1>2. ASSUME NEW f \in Files, CommitRow(f)
      PROVE  TypeInv'
  BY <1>2 DEF CommitRow, TypeInv, history
<1>3. ASSUME NEW b \in Bundles, Damage(b)
      PROVE  TypeInv'
  <2>1. staging' \in [Bundles -> Bundle]
    BY <1>3, Edited DEF Damage
  <2> QED
    BY <1>3, <2>1 DEF Damage, TypeInv
<1>4. CASE Connect
  BY <1>4 DEF Connect, TypeInv, history
<1>5. CASE Repair
  BY <1>5 DEF Repair, TypeInv, history
<1> QED
  BY <1>1, <1>2, <1>3, <1>4, <1>5 DEF Outside

LEMMA TypeBegin ==
  ASSUME TypeInv, NEW p \in Runs, Begin(p)
  PROVE  TypeInv'
<1>1. ASSUME NEW b \in Bundles, Retry(p, b)
      PROVE  TypeInv'
  <2>1. Fresh("verify", "retry", {}, b) \in Invocation
    BY DEF Fresh, Invocation, Steps, Uploading, Modes
  <2>2. Fresh("verify", "retry", {}, b).was = {}
    BY DEF Fresh
  <2> QED
    BY <1>1, <2>1, <2>2, TypeGoesOn DEF Retry, Free, TypeInv, world
<1>2. ASSUME NEW b \in Bundles, NEW mode \in Modes, Start(p, mode, b)
      PROVE  TypeInv'
  <2>1. Fresh("stop", mode, Running, b) \in Invocation
    BY DEF Fresh, Invocation, Steps, Capturing, Modes, Running, TypeInv
  <2>2. Fresh("stop", mode, Running, b).was \subseteq deployed
    BY DEF Fresh, Running, TypeInv
  <2>3. staging' \in [Bundles -> Bundle]
    BY <1>2, Edited DEF Start
  <2> QED
    BY <1>2, <2>1, <2>2, <2>3, TypeGoesOn DEF Start, Free, TypeInv, world
<1> QED
  BY <1>1, <1>2 DEF Begin

(* A step of an invocation leads to another. *)
LEMMA TypeTo ==
  ASSUME TypeInv, NEW p \in Runs, run[p].pc # "idle", NEW pc \in Steps, NEW s \in BOOLEAN,
         NEW f \in BOOLEAN, NEW o \in BOOLEAN, run' = [run EXCEPT ![p] = Now(p, pc, s, f, o)],
         lock' = lock, deployed' = deployed
  PROVE  /\ run' \in [Runs -> {Idle} \cup Invocation]
         /\ lock' \in Runs \cup {Nobody}
         /\ \A q \in Runs : run'[q] # Idle <=> lock' = q
         /\ \A q \in Runs : run'[q].was \subseteq deployed'
<1>1. Now(p, pc, s, f, o) \in Invocation
  BY Onward
<1>2. Now(p, pc, s, f, o).was \subseteq deployed
  BY DEF Now, TypeInv
<1>3. lock = p
  BY Acting
<1> QED
  BY <1>1, <1>2, <1>3, TypeGoesOn

(* A plain step of an invocation. *)
LEMMA Moves ==
  ASSUME TypeInv, NEW p \in Runs, run[p].pc # "idle", NEW pc \in Steps, To(p, pc)
  PROVE  run' = [run EXCEPT ![p] = Now(p, pc, run[p].stopped, run[p].failed, run[p].stored)]
         /\ run[p].stopped \in BOOLEAN /\ run[p].failed \in BOOLEAN /\ run[p].stored \in BOOLEAN
<1>1. run[p] \in Invocation
  BY Acting
<1>2. run[p].stopped \in BOOLEAN /\ run[p].failed \in BOOLEAN /\ run[p].stored \in BOOLEAN
  BY <1>1 DEF Invocation
<1> QED
  BY <1>2, Onward DEF To

LEMMA TypeMoves ==
  ASSUME TypeInv, NEW p \in Runs, run[p].pc # "idle", NEW pc \in Steps, To(p, pc),
         lock' = lock, deployed' = deployed
  PROVE  /\ run' \in [Runs -> {Idle} \cup Invocation]
         /\ lock' \in Runs \cup {Nobody}
         /\ \A q \in Runs : run'[q] # Idle <=> lock' = q
         /\ \A q \in Runs : run'[q].was \subseteq deployed'
BY Moves, TypeTo

LEMMA Stops ==
  ASSUME TypeInv, NEW p \in Runs, Stop(p)
  PROVE  \E s \in BOOLEAN, f \in BOOLEAN, pc \in {"abandon", "check"} :
            /\ s <=> run[p].was # {}
            /\ run' = [run EXCEPT ![p] = Now(p, pc, s, f, run[p].stored)]
            /\ run[p].stored \in BOOLEAN
<1>1. run[p].pc = "stop" /\ run[p].stored \in BOOLEAN
  BY Acting DEF Stop, At, Invocation
<1>2. PICK f \in BOOLEAN :
        run' = [run EXCEPT ![p] = Goes(Stopped(p, Noted(p, f), f), IF f THEN "abandon" ELSE "check")]
  BY DEF Stop
<1>3. f \in BOOLEAN /\ Noted(p, f) \in BOOLEAN /\ (Noted(p, f) <=> run[p].was # {})
  BY DEF Noted
<1>4. (IF f THEN "abandon" ELSE "check") \in {"abandon", "check"}
  OBVIOUS
<1>5. {"abandon", "check"} \subseteq Steps
  BY DEF Steps, Capturing
<1>6. Goes(Stopped(p, Noted(p, f), f), IF f THEN "abandon" ELSE "check")
        = Now(p, IF f THEN "abandon" ELSE "check", Noted(p, f), f, run[p].stored)
  BY <1>1, <1>3, <1>4, <1>5, Onward
<1> QED
  BY <1>1, <1>2, <1>3, <1>4, <1>6

LEMMA Fails ==
  ASSUME TypeInv, NEW p \in Runs, FailCapture(p)
  PROVE  /\ run[p].pc # "idle" /\ run[p].stopped \in BOOLEAN /\ run[p].stored \in BOOLEAN
         /\ run' = [run EXCEPT ![p] = Now(p, "abandon", run[p].stopped, TRUE, run[p].stored)]
<1>1. run[p].pc # "idle"
  BY DEF FailCapture
<1>2. run[p].stopped \in BOOLEAN /\ run[p].stored \in BOOLEAN
  BY <1>1, Acting DEF Invocation
<1>3. "abandon" \in Steps
  BY DEF Steps
<1> QED
  BY <1>1, <1>2, <1>3, Onward DEF FailCapture

LEMMA Uploads ==
  ASSUME TypeInv, NEW p \in Runs, Upload(p)
  PROVE  \E stored \in BOOLEAN :
            /\ repo' = IF stored THEN Append(repo, Snapshot(Taking(p))) ELSE repo
            /\ \/ End(p)
               \/ /\ run' = [run EXCEPT ![p] = Now(p, "exists", run[p].stopped, run[p].failed, stored)]
                  /\ lock' = lock
<1>1. run[p].pc # "idle" /\ run[p].stopped \in BOOLEAN /\ run[p].failed \in BOOLEAN
  BY Acting DEF Upload, At, Invocation
<1>2. "exists" \in Steps
  BY DEF Steps, Uploading
<1>3. PICK stored \in {FALSE, Len(repo) < MaxSnapshots} :
        /\ repo' = IF stored THEN Append(repo, Snapshot(Taking(p))) ELSE repo
        /\ \/ End(p)
           \/ /\ run' = [run EXCEPT ![p] = Goes([run[p] EXCEPT !.stored = stored], "exists")]
              /\ lock' = lock
  BY DEF Upload
<1>4. stored \in BOOLEAN
  <2>1. (Len(repo) < MaxSnapshots) \in BOOLEAN
    BY RecoveryAssumption DEF TypeInv
  <2> QED
    BY <2>1, Zenon
<1>5. Goes([run[p] EXCEPT !.stored = stored], "exists")
        = Now(p, "exists", run[p].stopped, run[p].failed, stored)
  BY <1>1, <1>2, <1>4, Onward
<1> QED
  BY <1>3, <1>4, <1>5

LEMMA Stores ==
  ASSUME TypeInv, NEW b \in Bundles, repo' = Append(repo, Snapshot(b))
  PROVE  /\ repo' \in Seq(Entry) /\ Len(repo') = Len(repo) + 1 /\ Len(repo) \in Nat
         /\ \A i \in 1 .. Len(repo) : repo'[i] = repo[i]
         /\ repo'[Len(repo')] = Snapshot(b)
<1>1. Snapshot(b) \in Entry
  BY DEF Snapshot, Entry, Restorable, Verifies
<1> QED
  BY <1>1 DEF TypeInv

LEMMA TypeCapture ==
  ASSUME TypeInv, NEW p \in Runs, Capture(p)
  PROVE  TypeInv'
<1> USE DEF At
<1>1. CASE Stop(p)
  <2>1. PICK s \in BOOLEAN, f \in BOOLEAN, pc \in {"abandon", "check"} :
          run' = [run EXCEPT ![p] = Now(p, pc, s, f, run[p].stored)] /\ run[p].stored \in BOOLEAN
    BY <1>1, Stops
  <2>2. pc \in Steps /\ run[p].pc # "idle"
    BY <1>1 DEF Stop, Steps, Capturing
  <2>3. up' \subseteq up
    BY <1>1 DEF Stop
  <2> QED
    BY <1>1, <2>1, <2>2, <2>3, TypeTo DEF Stop, TypeInv, world
<1>2. CASE Check(p)
  <2>1. "dump" \in Steps /\ After["check"] = "dump"
    BY DEF Steps, Capturing, After
  <2> QED
    BY <1>2, <2>1, TypeMoves DEF Check, TypeInv, world
<1>3. CASE Dump(p)
  <2>1. "copy" \in Steps /\ After["dump"] = "copy"
    BY DEF Steps, Capturing, After
  <2>2. Taking(p) \in Bundles
    BY <1>3, Acting DEF Dump
  <2>3. staging' \in [Bundles -> Bundle]
    BY <1>3, <2>2, Edited DEF Dump
  <2> QED
    BY <1>3, <2>1, <2>3, TypeMoves DEF Dump, TypeInv, world
<1>4. CASE Copy(p)
  <2>1. "again" \in Steps /\ After["copy"] = "again"
    BY DEF Steps, Capturing, After
  <2>2. Taking(p) \in Bundles
    BY <1>4, Acting DEF Copy
  <2>3. staging' \in [Bundles -> Bundle]
    BY <1>4, <2>2, Edited DEF Copy
  <2> QED
    BY <1>4, <2>1, <2>3, TypeMoves DEF Copy, TypeInv, world
<1>5. CASE Again(p)
  <2>1. "seal" \in Steps /\ After["again"] = "seal"
    BY DEF Steps, Capturing, After
  <2>2. Taking(p) \in Bundles
    BY <1>5, Acting DEF Again
  <2>3. staging' \in [Bundles -> Bundle]
    BY <1>5, <2>2, Edited DEF Again
  <2> QED
    BY <1>5, <2>1, <2>3, TypeMoves DEF Again, TypeInv, world
<1>6. CASE Seal(p)
  <2>1. "resume" \in Steps
    BY DEF Steps
  <2>2. Taking(p) \in Bundles
    BY <1>6, Acting DEF Seal
  <2>3. staging' \in [Bundles -> Bundle]
    BY <1>6, <2>2, Edited DEF Seal
  <2> QED
    BY <1>6, <2>1, <2>3, TypeMoves DEF Seal, TypeInv, world
<1>7. CASE FailCapture(p)
  <2>1. "abandon" \in Steps
    BY DEF Steps
  <2>2. Taking(p) \in Bundles
    BY <1>7, Fails, Acting
  <2>3. staging' \in [Bundles -> Bundle]
    <3>1. [staging EXCEPT ![Taking(p)].state = "complete"] \in [Bundles -> Bundle]
      BY <2>2, Edited
    <3>2. staging \in [Bundles -> Bundle]
      BY DEF TypeInv
    <3> QED
      BY <1>7, <3>1, <3>2 DEF FailCapture
  <2>4. /\ run' \in [Runs -> {Idle} \cup Invocation]
        /\ lock' \in Runs \cup {Nobody}
        /\ \A q \in Runs : run'[q] # Idle <=> lock' = q
        /\ \A q \in Runs : run'[q].was \subseteq deployed'
    <3>1. lock' = lock /\ deployed' = deployed
      BY <1>7 DEF FailCapture, world
    <3>2. /\ run[p].pc # "idle" /\ run[p].stopped \in BOOLEAN /\ run[p].stored \in BOOLEAN
          /\ run' = [run EXCEPT ![p] = Now(p, "abandon", run[p].stopped, TRUE, run[p].stored)]
      BY <1>7, Fails
    <3> QED
      BY <2>1, <3>1, <3>2, TypeTo
  <2> QED
    BY <1>7, <2>3, <2>4 DEF FailCapture, TypeInv, world
<1>8. CASE Abandon(p)
  <2>1. "resume" \in Steps
    BY DEF Steps
  <2>2. Taking(p) \in Bundles /\ staging \in [Bundles -> Bundle] /\ staging[Taking(p)] \in Bundle
    BY <1>8, Acting DEF Abandon, TypeInv
  <2>3. \E x \in Bundle : staging' = [staging EXCEPT ![Taking(p)] = x]
    <3>1. [staging[Taking(p)] EXCEPT !.state = "failed"] \in Bundle
      BY <2>2 DEF Bundle
    <3>2. Empty("discarded") \in Bundle
      BY EmptyBundle
    <3> QED
      BY <1>8, <2>2, <3>1, <3>2 DEF Abandon
  <2>4. staging' \in [Bundles -> Bundle]
    BY <2>2, <2>3
  <2> QED
    BY <1>8, <2>1, <2>4, TypeMoves DEF Abandon, TypeInv, world
<1>9. CASE Resume(p)
  <2>1. "verify" \in Steps
    BY DEF Steps, Uploading
  <2>2. run[p].pc # "idle" /\ run[p].was \subseteq deployed /\ deployed' = deployed
    BY <1>9 DEF Resume, TypeInv
  <2>3. up' \subseteq deployed' /\ leftDown' \subseteq deployed'
    BY <1>9, <2>2 DEF Resume, TypeInv
  <2>4. End(p) \/ (To(p, "verify") /\ lock' = lock)
    BY <1>9 DEF Resume
  <2>5. CASE End(p)
    BY <1>9, <2>2, <2>3, <2>5, TypeEnds DEF Resume, TypeInv, history
  <2>6. CASE To(p, "verify") /\ lock' = lock
    BY <1>9, <2>1, <2>2, <2>3, <2>6, TypeMoves DEF Resume, TypeInv, history
  <2> QED
    BY <2>4, <2>5, <2>6
<1> QED
  BY <1>1, <1>2, <1>3, <1>4, <1>5, <1>6, <1>7, <1>8, <1>9 DEF Capture

LEMMA TypeOffsite ==
  ASSUME TypeInv, NEW p \in Runs, Offsite(p)
  PROVE  TypeInv'
<1> USE DEF At
<1>1. CASE Upload(p)
  <2>1. PICK stored \in BOOLEAN :
          /\ repo' = IF stored THEN Append(repo, Snapshot(Taking(p))) ELSE repo
          /\ \/ End(p)
             \/ /\ run' = [run EXCEPT ![p] = Now(p, "exists", run[p].stopped, run[p].failed, stored)]
                /\ lock' = lock
    BY <1>1, Uploads
  <2>2. run[p].pc # "idle" /\ "exists" \in Steps
    BY <1>1 DEF Upload, Steps, Uploading
  <2>3. Taking(p) \in Bundles /\ run[p].stopped \in BOOLEAN /\ run[p].failed \in BOOLEAN
    BY <2>2, Acting DEF Invocation
  <2>4. repo' \in Seq(Entry)
    BY <2>1, <2>3, Stores DEF TypeInv
  <2>5. CASE End(p)
    BY <1>1, <2>2, <2>4, <2>5, TypeEnds DEF Upload, TypeInv, world
  <2>6. CASE /\ run' = [run EXCEPT ![p] = Now(p, "exists", run[p].stopped, run[p].failed, stored)]
             /\ lock' = lock
    BY <1>1, <2>2, <2>3, <2>4, <2>6, TypeTo DEF Upload, TypeInv, world
  <2> QED
    BY <2>1, <2>5, <2>6
<1>2. CASE Exists(p)
  <2>1. "forget" \in Steps
    BY DEF Steps, Uploading
  <2> QED
    BY <1>2, <2>1, TypeMoves DEF Exists, TypeInv, world
<1>3. CASE Forget(p)
  <2>1. "remains" \in Steps /\ run[p].pc # "idle"
    BY <1>3 DEF Forget, Steps, Uploading
  <2>2. repo' \in Seq(Entry)
    BY <1>3, Thinned DEF Forget
  <2>3. replaced' \subseteq Bundles
    BY <1>3 DEF Forget, MakeRoom, TypeInv
  <2>4. CASE End(p)
    BY <1>3, <2>1, <2>2, <2>3, <2>4, TypeEnds DEF Forget, TypeInv
  <2>5. CASE To(p, "remains") /\ lock' = lock
    BY <1>3, <2>1, <2>2, <2>3, <2>5, TypeMoves DEF Forget, TypeInv
  <2> QED
    BY <1>3, <2>4, <2>5 DEF Forget
<1>4. CASE Remains(p)
  <2>1. Taking(p) \in Bundles /\ run[p].pc # "idle"
    BY <1>4, Acting DEF Remains
  <2>2. staging' \in [Bundles -> Bundle]
    BY <1>4, <2>1, Edited DEF Remains
  <2> QED
    BY <1>4, <2>1, <2>2, TypeEnds DEF Remains, TypeInv, world
<1>5. CASE Refuse(p)
  <2>1. run[p].pc # "idle"
    BY <1>5 DEF Refuse
  <2> QED
    BY <1>5, <2>1, TypeEnds DEF Refuse, TypeInv, world
<1>6. CASE Verify(p)
  <2>1. "upload" \in Steps /\ run[p].pc # "idle"
    BY <1>6 DEF Verify, Steps, Uploading
  <2>2. CASE End(p)
    BY <1>6, <2>1, <2>2, TypeEnds DEF Verify, TypeInv, world
  <2>3. CASE To(p, "upload") /\ lock' = lock
    BY <1>6, <2>1, <2>3, TypeMoves DEF Verify, TypeInv, world
  <2> QED
    BY <1>6, <2>2, <2>3 DEF Verify
<1> QED
  BY <1>1, <1>2, <1>3, <1>4, <1>5, <1>6 DEF Offsite

LEMMA TypeKill ==
  ASSUME TypeInv, NEW p \in Runs, Kill(p)
  PROVE  TypeInv'
<1>1. run[p].pc # "idle"
  BY DEF Kill, TypeInv, Invocation, Steps, Capturing, Uploading
<1>2. leftDown' \subseteq deployed'
  BY DEF Kill, TypeInv
<1> QED
  BY <1>1, <1>2, TypeEnds DEF Kill, TypeInv, history

LEMMA TypeNext == TypeInv /\ [Next]_vars => TypeInv'
<1> SUFFICES ASSUME TypeInv, [Next]_vars
             PROVE  TypeInv'
  OBVIOUS
<1>1. CASE Next
  BY <1>1, TypeOutside, TypeBegin, TypeCapture, TypeOffsite, TypeKill DEF Next
<1>2. CASE UNCHANGED vars
  BY <1>2 DEF vars, history, TypeInv
<1> QED
  BY <1>1, <1>2

LEMMA TypeInvImpliesTypeOK == TypeInv => TypeOK
<1> SUFFICES ASSUME TypeInv
             PROVE  TypeOK
  OBVIOUS
<1>1. \A b \in Bundles :
        /\ staging[b].state \in {"none", "temp", "complete", "failed", "discarded", "gone"}
        /\ staging[b].dump \cup staging[b].archive \cup staging[b].list \subseteq Files
  BY DEF TypeInv, Bundle
<1>2. \A i \in 1 .. Len(repo) : repo[i].bundle \in Bundles
  <2>1. \A i \in 1 .. Len(repo) : repo[i] \in Entry
    BY DEF TypeInv
  <2> QED
    BY <2>1 DEF Entry
<1>3. \A p \in Runs : run[p].bundle \in 0 .. MaxBundles
  <2>1. Idle.bundle = 0
    BY DEF Idle, Fresh
  <2> QED
    BY <2>1, RecoveryAssumption DEF TypeInv, Invocation, Bundles
<1> QED
  BY <1>1, <1>2, <1>3 DEF TypeInv, TypeOK

(* The types, and the lock: one invocation at a time is doing anything.    *)
THEOREM RecoveryTypeCorrect == Spec => []TypeOK
<1>1. Spec => []TypeInv
  BY TypeInit, TypeNext, PTL DEF Spec
<1> QED
  BY <1>1, TypeInvImpliesTypeOK, PTL
-----------------------------------------------------------------------------
(***************************************************************************)
(* What is stopped.                                                        *)
(***************************************************************************)
(* Between the stop and the restart the invocation knows what it stopped.  *)
Serving ==
    /\ lock = Nobody => up \cup leftDown = deployed
    /\ \A p \in Runs :
           /\ ~run[p].stopped => lock # p \/ up \cup leftDown = deployed
           /\ run[p].stopped => up \cup leftDown \cup run[p].was = deployed
           /\ run[p].pc \in Uploading => up \cup leftDown = deployed

LEMMA ServingImplies == TypeInv /\ Serving => StoppedIsResumed
<1> SUFFICES ASSUME TypeInv, Serving, \A p \in Runs : ~run[p].stopped
             PROVE  up \cup leftDown = deployed
  BY DEF StoppedIsResumed
<1> QED
  BY DEF TypeInv, Serving

LEMMA ServingInit == Init => Serving
<1> SUFFICES ASSUME Init
             PROVE  Serving
  OBVIOUS
<1>1. \A p \in Runs : ~run[p].stopped /\ run[p].pc \notin Uploading
  BY DEF Init, Idle, Fresh, Uploading
<1> QED
  BY <1>1 DEF Init, Serving

(* When all services run or are known to be down, nothing else matters.    *)
LEMMA ServingAll ==
  ASSUME TypeInv', up' \cup leftDown' = deployed'
  PROVE  Serving'
BY DEF TypeInv, Serving

(* A step of one invocation that leaves the services alone.                *)
LEMMA ServingKept ==
  ASSUME TypeInv, Serving, NEW p \in Runs, run[p].pc # "idle", NEW pc \in Steps \ Uploading,
         NEW f \in BOOLEAN, NEW o \in BOOLEAN,
         run' = [run EXCEPT ![p] = Now(p, pc, run[p].stopped, f, o)],
         UNCHANGED <<up, leftDown, deployed, lock>>
  PROVE  Serving'
<1>1. lock = p /\ p # Nobody
  BY Acting, NobodyAssumption
<1>2. run'[p].stopped = run[p].stopped /\ run'[p].was = run[p].was /\ run'[p].pc = pc
  BY DEF TypeInv, Now
<1>3. \A q \in Runs : q # p => run'[q] = run[q]
  BY DEF TypeInv
<1>4. \A q \in Runs : q # p => ~run[q].stopped /\ run[q].pc \notin Uploading
  BY Acting DEF Idle, Fresh, Uploading
<1> QED
  BY <1>1, <1>2, <1>3, <1>4 DEF Serving

LEMMA ServingMoves ==
  ASSUME TypeInv, Serving, NEW p \in Runs, run[p].pc # "idle", NEW pc \in Steps \ Uploading,
         To(p, pc), UNCHANGED <<up, leftDown, deployed, lock>>
  PROVE  Serving'
BY Moves, ServingKept

LEMMA ServingNext == TypeInv /\ TypeInv' /\ Serving /\ [Next]_vars => Serving'
<1> SUFFICES ASSUME TypeInv, TypeInv', Serving, [Next]_vars
             PROVE  Serving'
  OBVIOUS
<1>1. CASE UNCHANGED vars
  BY <1>1 DEF vars, Serving
<1>2. CASE Outside
  <2>1. CASE Repair
    <3>1. lock = Nobody
      BY <2>1 DEF Repair, TypeInv
    <3> QED
      BY <2>1, <3>1, ServingAll DEF Repair, Serving
  <2>2. CASE UNCHANGED <<up, leftDown, deployed, lock, run>>
    BY <2>2 DEF Serving
  <2> QED
    BY <1>2, <2>1, <2>2 DEF Outside, WriteFile, CommitRow, Damage, Connect
<1>3. ASSUME NEW p \in Runs, Begin(p)
      PROVE  Serving'
  BY <1>3, ServingAll DEF Begin, Retry, Start, Free, Serving, world
<1>4. ASSUME NEW p \in Runs, Capture(p)
      PROVE  Serving'
  <2> USE DEF At
  <2>1. CASE Stop(p)
    <3>1. PICK s \in BOOLEAN, f \in BOOLEAN, pc \in {"abandon", "check"} :
            /\ s <=> run[p].was # {}
            /\ run' = [run EXCEPT ![p] = Now(p, pc, s, f, run[p].stored)]
      BY <2>1, Stops
    <3>2. PICK gone \in SUBSET run[p].was : up' = up \ gone
      BY <2>1 DEF Stop
    <3>3. lock' = p /\ leftDown' = leftDown /\ deployed' = deployed /\ run[p].was \subseteq deployed
      BY <2>1, Acting DEF Stop, world
    <3>4. up \cup leftDown \cup run[p].was = deployed
      BY <3>3, Acting, <2>1 DEF Serving, Stop
    <3>5. run'[p].stopped = s /\ run'[p].was = run[p].was /\ run'[p].pc = pc
      BY <3>1 DEF TypeInv, Now
    <3>6. \A q \in Runs : q # p => run'[q] = run[q] /\ ~run[q].stopped /\ run[q].pc \notin Uploading
      BY <2>1, <3>1, Acting DEF TypeInv, Idle, Fresh, Uploading, Stop
    <3>7. pc \notin Uploading
      BY DEF Uploading
    <3>8. s => up' \cup leftDown' \cup run[p].was = deployed'
      BY <3>2, <3>3, <3>4
    <3>9. ~s => up' \cup leftDown' = deployed'
      BY <3>1, <3>2, <3>3, <3>4
    <3> QED
      BY <3>3, <3>5, <3>6, <3>7, <3>8, <3>9, NobodyAssumption DEF Serving
  <2>2. CASE Check(p)
    BY <2>2, ServingMoves DEF Check, world, After, Steps, Capturing, Uploading
  <2>3. CASE Dump(p)
    BY <2>3, ServingMoves DEF Dump, world, After, Steps, Capturing, Uploading
  <2>4. CASE Copy(p)
    BY <2>4, ServingMoves DEF Copy, world, After, Steps, Capturing, Uploading
  <2>5. CASE Again(p)
    BY <2>5, ServingMoves DEF Again, world, After, Steps, Capturing, Uploading
  <2>6. CASE Seal(p)
    BY <2>6, ServingMoves DEF Seal, world, Steps, Uploading
  <2>7. CASE FailCapture(p)
    <3>1. "abandon" \in Steps \ Uploading
      BY DEF Steps, Uploading
    <3>2. /\ run[p].pc # "idle" /\ run[p].stored \in BOOLEAN
          /\ run' = [run EXCEPT ![p] = Now(p, "abandon", run[p].stopped, TRUE, run[p].stored)]
      BY <2>7, Fails
    <3>3. UNCHANGED <<up, leftDown, deployed, lock>>
      BY <2>7 DEF FailCapture, world
    <3> QED
      BY <3>1, <3>2, <3>3, ServingKept
  <2>8. CASE Abandon(p)
    BY <2>8, ServingMoves DEF Abandon, world, Steps, Uploading
  <2>9. CASE Resume(p)
    <3>1. lock = p /\ run[p].was \subseteq deployed /\ deployed' = deployed
      BY <2>9, Acting DEF Resume
    <3>2. (run[p].stopped => up \cup leftDown \cup run[p].was = deployed)
          /\ (~run[p].stopped => up \cup leftDown = deployed)
      BY <3>1 DEF Serving
    <3>3. up' \cup leftDown' = deployed'
      BY <2>9, <3>1, <3>2 DEF Resume, Restarts, TypeInv
    <3> QED
      BY <3>3, ServingAll
  <2> QED
    BY <1>4, <2>1, <2>2, <2>3, <2>4, <2>5, <2>6, <2>7, <2>8, <2>9 DEF Capture
<1>5. ASSUME NEW p \in Runs, Offsite(p)
      PROVE  Serving'
  <2>1. run[p].pc \in Uploading
    BY <1>5 DEF Offsite, Verify, Upload, Exists, Forget, Remains, Refuse, At, Uploading
  <2>2. UNCHANGED <<up, leftDown, deployed>>
    BY <1>5 DEF Offsite, Verify, Upload, Exists, Forget, Remains, Refuse, world
  <2> QED
    BY <2>1, <2>2, ServingAll DEF Serving
<1>6. ASSUME NEW p \in Runs, Kill(p)
      PROVE  Serving'
  <2>1. lock = p /\ run[p].was \subseteq deployed
    BY <1>6 DEF Kill, TypeInv
  <2>2. up' \cup leftDown' = deployed'
    BY <1>6, <2>1 DEF Kill, Serving, TypeInv
  <2> QED
    BY <2>2, ServingAll
<1> QED
  BY <1>1, <1>2, <1>3, <1>4, <1>5, <1>6 DEF Next

(* No service a run stopped stays down unnoticed: at the end of every run, *)
(* however it failed, what does not run is what a kill or a failed start   *)
(* left down.                                                              *)
THEOREM WhatIsStoppedIsResumed == Spec => []StoppedIsResumed
<1>1. TypeInv /\ Serving /\ [Next]_vars => TypeInv' /\ Serving'
  BY TypeNext, ServingNext
<1>2. Spec => [](TypeInv /\ Serving)
  BY <1>1, TypeInit, ServingInit, PTL DEF Spec
<1> QED
  BY <1>2, ServingImplies, PTL
-----------------------------------------------------------------------------
(***************************************************************************)
(* What is restored.                                                       *)
(***************************************************************************)
(* The rows of the dump have their files in the archive: between the dump  *)
(* and the copy they have them on the volume.  No digests are taken before *)
(* that, and what Restic reads verified when it was looked at.             *)
Bound(b) == \A d \in staging[b].sums : d.dump \subseteq d.list

Unsealed == Capturing \ {"seal"}
Delicate == Unsealed \cup {"upload"}

InCapture(p) ==
    /\ run[p].pc \in Unsealed => staging[Taking(p)].sums = {}
    /\ run[p].pc = "copy" => staging[Taking(p)].dump \subseteq files
    /\ run[p].pc = "again" => staging[Taking(p)].dump \subseteq staging[Taking(p)].list
    /\ run[p].pc = "upload" => Verifies(staging[Taking(p)]) \/ Taking(p) \in spoiled

Consistent ==
    /\ \A b \in Bundles : Bound(b)
    /\ \A p \in Runs : InCapture(p)
    /\ SnapshotsRestorable

LEMMA DelicateSteps ==
  Delicate = {"stop", "check", "dump", "copy", "again", "upload"}
BY DEF Delicate, Unsealed, Capturing

(* Elsewhere nothing is asked of an invocation.                            *)
LEMMA NothingAsked ==
  ASSUME NEW p \in Runs, run[p].pc \notin Delicate
  PROVE  InCapture(p)
BY DelicateSteps DEF InCapture, Delicate, Unsealed

LEMMA ConsistentInit == Init => Consistent
<1> SUFFICES ASSUME Init
             PROVE  Consistent
  OBVIOUS
<1>1. \A b \in Bundles : staging[b].sums = {}
  BY DEF Init, NoBundle
<1>2. \A p \in Runs : run[p].pc \notin Delicate
  BY DelicateSteps DEF Init, Idle, Fresh
<1>3. Len(repo) = 0
  BY DEF Init
<1> QED
  BY <1>1, <1>2, <1>3, NothingAsked DEF Consistent, Bound, SnapshotsRestorable

(* Only the invocation that acts is in a capture or an upload.             *)
LEMMA OthersAreIdle ==
  ASSUME TypeInv, NEW p \in Runs, run[p].pc # "idle", NEW q \in Runs, q # p
  PROVE  run[q].pc \notin Delicate
BY Acting, DelicateSteps DEF Idle, Fresh

(* A bundle that verifies, and whose digests were taken of a dump with its *)
(* files, is restorable.                                                   *)
LEMMA VerifiedIsRestorable ==
  ASSUME NEW b \in Bundles, Bound(b), Verifies(staging[b])
  PROVE  Snapshot(b).restorable
<1>1. Digests(staging[b]).dump \subseteq Digests(staging[b]).list
  BY DEF Bound, Verifies
<1> QED
  BY <1>1 DEF Digests, Snapshot, Restorable

(* What was spoiled stays so, so the snapshots that are there stay as good.*)
LEMMA SnapshotsStay ==
  ASSUME Consistent, repo' = repo, spoiled \subseteq spoiled'
  PROVE  SnapshotsRestorable'
BY DEF Consistent, SnapshotsRestorable

(* A step of p that changes at most its own bundle.                        *)
LEMMA ConsistentStep ==
  ASSUME TypeInv, Consistent, NEW p \in Runs, run[p].pc # "idle", NEW t \in Bundles,
         \A q \in Runs : q # p => run'[q] = run[q],
         \A b \in Bundles : b # t => staging'[b] = staging[b],
         Bound(t)', InCapture(p)', SnapshotsRestorable'
  PROVE  Consistent'
<1>1. \A b \in Bundles : Bound(b)'
  BY DEF Consistent, Bound, Bundles
<1>2. \A q \in Runs : q # p => run'[q].pc \notin Delicate
  BY OthersAreIdle
<1>3. \A q \in Runs : InCapture(q)'
  BY <1>2, DelicateSteps DEF InCapture, Delicate, Unsealed
<1> QED
  BY <1>1, <1>3 DEF Consistent

LEMMA ConsistentOutside ==
  ASSUME TypeInv, Consistent, Outside
  PROVE  Consistent'
<1> USE DEF history
<1>1. ASSUME NEW f \in Files, WriteFile(f)
      PROVE  Consistent'
  BY <1>1 DEF WriteFile, Consistent, Bound, InCapture, SnapshotsRestorable, Taking
<1>2. ASSUME NEW f \in Files, CommitRow(f)
      PROVE  Consistent'
  BY <1>2 DEF CommitRow, Consistent, Bound, InCapture, SnapshotsRestorable, Taking
<1>3. ASSUME NEW b \in Bundles, Damage(b)
      PROVE  Consistent'
  <2>1. staging \in [Bundles -> Bundle] /\ staging[b] \in Bundle /\ staging[b].sums # {}
    BY <1>3 DEF Damage, TypeInv, Verifies
  <2>2. /\ \A c \in Bundles : c # b => staging'[c] = staging[c]
        /\ staging'[b] = Damaged(staging[b])
    BY <1>3, <2>1 DEF Damage
  <2>3. staging'[b].sums = staging[b].sums
    BY <2>1, <2>2, DamagedBundle
  <2>4. \A c \in Bundles : Bound(c)'
    BY <2>2, <2>3 DEF Consistent, Bound
  <2>5. run' = run /\ files' = files /\ repo' = repo /\ spoiled \subseteq spoiled'
    BY <1>3 DEF Damage
  <2>6. ASSUME NEW p \in Runs
        PROVE  InCapture(p)'
    <3>1. CASE run[p].pc \notin Delicate
      BY <2>5, <3>1, DelicateSteps DEF InCapture, Delicate, Unsealed
    <3>2. CASE run[p].pc \in Delicate /\ Taking(p) # b
      <4>1. Taking(p) \in Bundles
        BY <3>2, Acting, DelicateSteps
      <4>2. staging'[Taking(p)] = staging[Taking(p)]
        BY <2>2, <3>2, <4>1
      <4> QED
        BY <2>5, <4>1, <4>2 DEF Consistent, InCapture, Taking
    <3>3. CASE run[p].pc \in Delicate /\ Taking(p) = b
      <4>1. run[p].pc = "upload"
        BY <2>1, <3>3 DEF Consistent, InCapture, Delicate
      <4>2. b \in spoiled'
        BY <1>3, <3>3, <4>1 DEF Damage, Taking
      <4> QED
        BY <2>5, <3>3, <4>1, <4>2 DEF InCapture, Unsealed, Capturing, Taking
    <3> QED
      BY <3>1, <3>2, <3>3
  <2> QED
    BY <2>4, <2>5, <2>6, SnapshotsStay DEF Consistent
<1>4. CASE Connect
  BY <1>4 DEF Connect, Consistent, Bound, InCapture, SnapshotsRestorable, Taking
<1>5. CASE Repair
  BY <1>5 DEF Repair, Consistent, Bound, InCapture, SnapshotsRestorable, Taking
<1> QED
  BY <1>1, <1>2, <1>3, <1>4, <1>5 DEF Outside

LEMMA ConsistentBegin ==
  ASSUME TypeInv, TypeInv', Consistent, NEW p \in Runs, Begin(p)
  PROVE  Consistent'
<1>1. run[p] = Idle /\ lock = Nobody /\ UNCHANGED <<repo, spoiled>>
  BY DEF Begin, Start, Retry, Free, world
<1>2. \A q \in Runs : run[q] = Idle
  BY <1>1, NobodyAssumption DEF TypeInv
<1>3. \A q \in Runs : q # p => run'[q] = Idle
  BY <1>2 DEF Begin, Start, Retry, TypeInv
<1>4. \A q \in Runs : q # p => InCapture(q)'
  BY <1>3, DelicateSteps DEF InCapture, Delicate, Unsealed, Idle, Fresh
<1>5. ASSUME NEW b \in Bundles, Retry(p, b)
      PROVE  Consistent'
  <2>1. run'[p].pc = "verify" /\ staging' = staging
    BY <1>5 DEF Retry, Fresh, TypeInv
  <2>2. InCapture(p)'
    BY <2>1 DEF InCapture, Unsealed, Capturing
  <2> QED
    BY <1>1, <1>4, <2>1, <2>2, SnapshotsStay DEF Consistent, Bound
<1>6. ASSUME NEW b \in Bundles, NEW mode \in Modes, Start(p, mode, b)
      PROVE  Consistent'
  <2>1. run'[p].pc = "stop" /\ run'[p].bundle = b
    BY <1>6 DEF Start, Fresh, TypeInv
  <2>2. staging'[b].sums = {} /\ \A c \in Bundles : c # b => staging'[c] = staging[c]
    BY <1>6, EmptyBundle DEF Start, TypeInv
  <2>3. InCapture(p)'
    BY <2>1, <2>2 DEF InCapture, Taking
  <2>4. \A c \in Bundles : Bound(c)'
    BY <2>2 DEF Consistent, Bound
  <2> QED
    BY <1>1, <1>4, <2>3, <2>4, SnapshotsStay DEF Consistent
<1> QED
  BY <1>5, <1>6 DEF Begin

(* The same, when the invocation goes on or ends and the repository stays. *)
LEMMA ConsistentGoesOn ==
  ASSUME TypeInv, Consistent, NEW p \in Runs, run[p].pc # "idle", NEW pc \in Steps,
         NEW s \in BOOLEAN, NEW f \in BOOLEAN, NEW o \in BOOLEAN, NEW t \in Bundles, t = Taking(p),
         run' = [run EXCEPT ![p] = Now(p, pc, s, f, o)],
         \A b \in Bundles : b # t => staging'[b] = staging[b],
         Bound(t)', repo' = repo, spoiled' = spoiled,
         pc \in Unsealed => staging'[t].sums = {},
         pc = "copy" => staging'[t].dump \subseteq files',
         pc = "again" => staging'[t].dump \subseteq staging'[t].list,
         pc = "upload" => Verifies(staging'[t])
  PROVE  Consistent'
<1>1. run'[p].pc = pc /\ run'[p].bundle = t /\ \A q \in Runs : q # p => run'[q] = run[q]
  BY DEF TypeInv, Now, Taking
<1>2. InCapture(p)'
  BY <1>1 DEF InCapture, Taking
<1> QED
  BY <1>1, <1>2, SnapshotsStay, ConsistentStep

LEMMA ConsistentMoves ==
  ASSUME TypeInv, Consistent, NEW p \in Runs, run[p].pc # "idle", NEW pc \in Steps, To(p, pc),
         NEW t \in Bundles, t = Taking(p),
         \A b \in Bundles : b # t => staging'[b] = staging[b],
         Bound(t)', repo' = repo, spoiled' = spoiled,
         pc \in Unsealed => staging'[t].sums = {},
         pc = "copy" => staging'[t].dump \subseteq files',
         pc = "again" => staging'[t].dump \subseteq staging'[t].list,
         pc = "upload" => Verifies(staging'[t])
  PROVE  Consistent'
<1>1. /\ run' = [run EXCEPT ![p] = Now(p, pc, run[p].stopped, run[p].failed, run[p].stored)]
      /\ run[p].stopped \in BOOLEAN /\ run[p].failed \in BOOLEAN /\ run[p].stored \in BOOLEAN
  BY Moves
<1> QED
  BY <1>1, ConsistentGoesOn

LEMMA ConsistentEnds ==
  ASSUME TypeInv, Consistent, NEW p \in Runs, run[p].pc # "idle", End(p), NEW t \in Bundles,
         \A b \in Bundles : b # t => staging'[b] = staging[b], Bound(t)', SnapshotsRestorable'
  PROVE  Consistent'
<1>1. run'[p].pc = "idle"
  BY DEF End, TypeInv, Idle, Fresh
<1>2. InCapture(p)'
  BY <1>1 DEF InCapture, Unsealed, Capturing
<1>3. \A q \in Runs : q # p => run'[q] = run[q]
  BY DEF End, TypeInv
<1> QED
  BY <1>2, <1>3, ConsistentStep

LEMMA ConsistentCapture ==
  ASSUME TypeInv, TypeInv', Consistent, NEW p \in Runs, Capture(p)
  PROVE  Consistent'
<1> USE DEF At
<1> DEFINE t == Taking(p)
<1>1. run[p].pc # "idle"
  BY DEF Capture, Stop, Check, Dump, Copy, Again, Seal, FailCapture, Abandon, Resume
<1>2. /\ t \in Bundles /\ staging[t] \in Bundle /\ staging \in [Bundles -> Bundle]
      /\ rows \subseteq files
  BY <1>1, Acting DEF TypeInv
<1>3. run[p].pc \in Unsealed => staging[t].sums = {}
  BY DEF Consistent, InCapture
<1>4. Bound(t) /\ \A d \in staging[t].sums : d.dump \subseteq d.list
  BY <1>2 DEF Consistent, Bound
<1>5. staging' = staging => \A b \in Bundles : Bound(b)' 
  BY DEF Consistent, Bound
<1>6. staging'[t].sums = staging[t].sums => \A u \in Bundles : u = t => Bound(u)'
  BY <1>4 DEF Bound
<1> HIDE DEF t
<1>7. PICK u \in Bundles : u = t /\ u = Taking(p)
  BY <1>2 DEF t
<1>8. spoiled' = spoiled
  BY DEF Capture, Stop, Check, Dump, Copy, Again, Seal, FailCapture, Abandon, Resume, world, history
<1>9. CASE Stop(p)
  <2>1. PICK s \in BOOLEAN, f \in BOOLEAN, pc \in {"abandon", "check"} :
          run' = [run EXCEPT ![p] = Now(p, pc, s, f, run[p].stored)] /\ run[p].stored \in BOOLEAN
    BY <1>9, Stops
  <2>2. pc \in Steps /\ pc \notin {"copy", "again"}
    BY DEF Steps, Capturing
  <2>3. staging' = staging /\ repo' = repo /\ run[p].pc \in Unsealed
    BY <1>9 DEF Stop, Unsealed, Capturing
  <2> QED
    BY <1>1, <1>3, <1>5, <1>7, <1>8, <2>1, <2>2, <2>3, ConsistentGoesOn
<1>10. CASE Check(p)
  <2>1. To(p, "dump") /\ "dump" \in Steps /\ run[p].pc \in Unsealed
    BY <1>10 DEF Check, After, Steps, Unsealed, Capturing
  <2>2. staging' = staging /\ repo' = repo
    BY <1>10 DEF Check
  <2> QED
    BY <1>1, <1>3, <1>5, <1>7, <1>8, <2>1, <2>2, ConsistentMoves
<1>11. CASE Dump(p)
  <2>1. To(p, "copy") /\ "copy" \in Steps /\ run[p].pc \in Unsealed
    BY <1>11 DEF Dump, After, Steps, Unsealed, Capturing
  <2>2. staging' = [staging EXCEPT ![u].dump = rows] /\ repo' = repo /\ files' = files
    BY <1>7, <1>11 DEF Dump, world
  <2>3. /\ \A b \in Bundles : b # u => staging'[b] = staging[b]
        /\ staging'[u].dump = rows /\ staging'[u].state = staging[u].state
        /\ staging'[u].sums = staging[u].sums
    BY <1>2, <1>7, <2>2 DEF Bundle
  <2>4. Bound(u)'
    BY <1>6, <1>7, <2>3
  <2> QED
    BY <1>1, <1>2, <1>3, <1>7, <1>8, <2>1, <2>2, <2>3, <2>4, ConsistentMoves
<1>12. CASE Copy(p)
  <2>1. To(p, "again") /\ "again" \in Steps /\ run[p].pc \in Unsealed
    BY <1>12 DEF Copy, After, Steps, Unsealed, Capturing
  <2>2. staging' = [staging EXCEPT ![u] = Archived(staging[u])] /\ repo' = repo /\ files' = files
    BY <1>7, <1>12 DEF Copy, world
  <2>3. Archived(staging[u]).dump = staging[u].dump /\ Archived(staging[u]).state = staging[u].state
        /\ Archived(staging[u]).sums = staging[u].sums /\ Archived(staging[u]).list = files
    <3>1. PICK r \in Bundle : r = [staging[u] EXCEPT !.archive = files]
      BY <1>2, <1>7 DEF Bundle, TypeInv
    <3>2. r.dump = staging[u].dump /\ r.state = staging[u].state /\ r.sums = staging[u].sums
      BY <1>2, <1>7, <3>1 DEF Bundle
    <3>3. Archived(staging[u]) = [r EXCEPT !.list = files]
      BY <3>1 DEF Archived
    <3> QED
      BY <3>2, <3>3 DEF Bundle
  <2>4. /\ \A b \in Bundles : b # u => staging'[b] = staging[b]
        /\ staging'[u] = Archived(staging[u])
    BY <1>2, <1>7, <2>2
  <2>5. staging[u].dump \subseteq files
    BY <1>7, <1>12 DEF Copy, Consistent, InCapture
  <2>6. Bound(u)'
    BY <1>6, <1>7, <2>3, <2>4
  <2> QED
    BY <1>1, <1>3, <1>7, <1>8, <2>1, <2>2, <2>3, <2>4, <2>5, <2>6, ConsistentMoves
<1>13. CASE Again(p)
  <2>1. To(p, "seal") /\ "seal" \in Steps \ Delicate
    BY <1>13, DelicateSteps DEF Again, After, Steps, Capturing
  <2>2. staging' = [staging EXCEPT ![u].sums = {Digests(staging[u])}] /\ repo' = repo
    BY <1>7, <1>13 DEF Again
  <2>3. /\ \A b \in Bundles : b # u => staging'[b] = staging[b]
        /\ staging'[u].sums = {Digests(staging[u])} /\ staging'[u].state = staging[u].state
    BY <1>2, <1>7, <2>2 DEF Bundle
  <2>4. staging[u].dump \subseteq staging[u].list
    BY <1>7, <1>13 DEF Again, Consistent, InCapture
  <2>5. Bound(u)'
    BY <2>3, <2>4 DEF Bound, Digests
  <2> QED
    BY <1>1, <1>7, <1>8, <2>1, <2>2, <2>3, <2>5, ConsistentMoves DEF Delicate
<1>14. CASE Seal(p)
  <2>1. To(p, "resume") /\ "resume" \in Steps \ Delicate
    BY <1>14, DelicateSteps DEF Seal, Steps
  <2>2. staging' = [staging EXCEPT ![u].state = "complete"] /\ repo' = repo
    BY <1>7, <1>14 DEF Seal
  <2>3. /\ \A b \in Bundles : b # u => staging'[b] = staging[b]
        /\ staging'[u].sums = staging[u].sums
    BY <1>2, <1>7, <2>2 DEF Bundle
  <2>4. Bound(u)'
    BY <1>6, <1>7, <2>3
  <2> QED
    BY <1>1, <1>7, <1>8, <2>1, <2>2, <2>3, <2>4, ConsistentMoves DEF Delicate
<1>15. CASE FailCapture(p)
  <2>1. /\ run[p].pc # "idle" /\ run[p].stopped \in BOOLEAN /\ run[p].stored \in BOOLEAN
        /\ run' = [run EXCEPT ![p] = Now(p, "abandon", run[p].stopped, TRUE, run[p].stored)]
    BY <1>15, Fails
  <2>2. "abandon" \in Steps \ Delicate
    BY DelicateSteps DEF Steps
  <2>3. /\ \A b \in Bundles : b # u => staging'[b] = staging[b]
        /\ staging'[u].sums = staging[u].sums /\ repo' = repo
    BY <1>2, <1>7, <1>15 DEF FailCapture, Bundle
  <2>4. Bound(u)'
    BY <1>6, <1>7, <2>3
  <2> QED
    BY <1>7, <1>8, <2>1, <2>2, <2>3, <2>4, ConsistentGoesOn DEF Delicate
<1>16. CASE Abandon(p)
  <2>1. To(p, "resume") /\ "resume" \in Steps \ Delicate
    BY <1>16, DelicateSteps DEF Abandon, Steps
  <2>2. /\ \A b \in Bundles : b # u => staging'[b] = staging[b]
        /\ staging'[u].sums = staging[u].sums \/ staging'[u].sums = {}
        /\ repo' = repo
    BY <1>2, <1>7, <1>16, EmptyBundle DEF Abandon, Bundle
  <2>3. Bound(u)'
    BY <1>6, <1>7, <2>2 DEF Bound
  <2> QED
    BY <1>1, <1>7, <1>8, <2>1, <2>2, <2>3, ConsistentMoves DEF Delicate
<1>17. CASE Resume(p)
  <2>1. staging' = staging /\ repo' = repo
    BY <1>17 DEF Resume
  <2>2. End(p) \/ To(p, "verify")
    BY <1>17 DEF Resume
  <2>3. "verify" \in Steps \ Delicate
    BY DelicateSteps DEF Steps, Uploading
  <2>4. CASE End(p)
    BY <1>1, <1>5, <1>7, <1>8, <2>1, <2>4, SnapshotsStay, ConsistentEnds
  <2>5. CASE To(p, "verify")
    BY <1>1, <1>5, <1>7, <1>8, <2>1, <2>3, <2>5, ConsistentMoves DEF Delicate
  <2> QED
    BY <2>2, <2>4, <2>5
<1> QED
  BY <1>9, <1>10, <1>11, <1>12, <1>13, <1>14, <1>15, <1>16, <1>17 DEF Capture

LEMMA ConsistentOffsite ==
  ASSUME TypeInv, Consistent, NEW p \in Runs, Offsite(p)
  PROVE  Consistent'
<1> USE DEF At
<1>1. run[p].pc # "idle"
  BY DEF Offsite, Verify, Upload, Exists, Forget, Remains, Refuse
<1>2. PICK t \in Bundles : t = Taking(p)
  BY <1>1, Acting
<1>3. staging \in [Bundles -> Bundle] /\ repo \in Seq(Entry)
  BY DEF TypeInv
<1>4. staging' = staging => \A b \in Bundles : Bound(b)'
  BY DEF Consistent, Bound
<1>5. CASE Upload(p)
  <2>1. PICK stored \in BOOLEAN :
          /\ repo' = IF stored THEN Append(repo, Snapshot(t)) ELSE repo
          /\ \/ End(p)
             \/ /\ run' = [run EXCEPT ![p] = Now(p, "exists", run[p].stopped, run[p].failed, stored)]
                /\ lock' = lock
    BY <1>2, <1>5, Uploads
  <2>2. staging' = staging /\ spoiled' = spoiled
    BY <1>5 DEF Upload, world
  <2>3. \/ Snapshot(t).restorable
        \/ Snapshot(t).bundle \in spoiled /\ ~Snapshot(t).verifies
    <3>1. CASE Verifies(staging[t])
      BY <3>1, VerifiedIsRestorable DEF Consistent
    <3>2. CASE ~Verifies(staging[t])
      BY <1>2, <1>5, <3>2 DEF Upload, Consistent, InCapture, Snapshot
    <3> QED
      BY <3>1, <3>2
  <2>4. SnapshotsRestorable'
    <3>1. CASE ~stored
      BY <2>1, <2>2, <3>1, SnapshotsStay
    <3>2. CASE stored
      <4>1. repo' = Append(repo, Snapshot(t))
        BY <2>1, <3>2
      <4>2. \A i \in 1 .. Len(repo') : i \in 1 .. Len(repo) \/ i = Len(repo')
        BY <4>1, Stores, <1>3
      <4> QED
        BY <2>2, <2>3, <4>1, <4>2, Stores DEF Consistent, SnapshotsRestorable
    <3> QED
      BY <3>1, <3>2
  <2>5. CASE End(p)
    BY <1>1, <1>4, <2>2, <2>4, <2>5, ConsistentEnds
  <2>6. CASE run' = [run EXCEPT ![p] = Now(p, "exists", run[p].stopped, run[p].failed, stored)]
    <3>1. run'[p].pc = "exists" /\ \A q \in Runs : q # p => run'[q] = run[q]
      BY <2>6 DEF TypeInv, Now
    <3>2. InCapture(p)'
      BY <3>1 DEF InCapture, Unsealed, Capturing
    <3> QED
      BY <1>1, <1>4, <2>2, <2>4, <3>1, <3>2, ConsistentStep
  <2> QED
    BY <2>1, <2>5, <2>6
<1>6. CASE Exists(p)
  <2>1. To(p, "forget") /\ "forget" \in Steps \ Delicate
    BY <1>6, DelicateSteps DEF Exists, Steps, Uploading
  <2>2. staging' = staging /\ repo' = repo /\ spoiled' = spoiled
    BY <1>6 DEF Exists, world
  <2> QED
    BY <1>1, <1>2, <1>4, <2>1, <2>2, ConsistentMoves DEF Delicate
<1>7. CASE Forget(p)
  <2>1. SnapshotsRestorable' /\ staging' = staging
    BY <1>7, Thinned DEF Forget, Consistent, SnapshotsRestorable
  <2>2. CASE End(p)
    BY <1>1, <1>2, <1>4, <2>1, <2>2, ConsistentEnds
  <2>3. CASE To(p, "remains")
    <3>1. "remains" \in Steps
      BY DEF Steps, Uploading
    <3>2. run'[p].pc = "remains" /\ \A q \in Runs : q # p => run'[q] = run[q]
      BY <1>1, <2>3, <3>1, Moves DEF TypeInv, Now
    <3>3. InCapture(p)'
      BY <3>2 DEF InCapture, Unsealed, Capturing
    <3> QED
      BY <1>1, <1>2, <1>4, <2>1, <3>2, <3>3, ConsistentStep
  <2> QED
    BY <1>7, <2>2, <2>3 DEF Forget
<1>8. CASE Remains(p)
  <2>1. staging' = [staging EXCEPT ![t] = Empty("gone")] /\ End(p) /\ repo' = repo
    BY <1>2, <1>8 DEF Remains
  <2>2. /\ \A b \in Bundles : b # t => staging'[b] = staging[b]
        /\ staging'[t].sums = {}
    BY <1>3, <2>1, EmptyBundle
  <2>3. Bound(t)' /\ SnapshotsRestorable'
    BY <1>8, <2>1, <2>2, SnapshotsStay DEF Bound, Remains, world
  <2> QED
    BY <1>1, <2>1, <2>2, <2>3, ConsistentEnds
<1>9. CASE Refuse(p)
  <2>1. End(p) /\ staging' = staging /\ SnapshotsRestorable'
    BY <1>9, SnapshotsStay DEF Refuse, world
  <2> QED
    BY <1>1, <1>2, <1>4, <2>1, ConsistentEnds
<1>10. CASE Verify(p)
  <2>1. staging' = staging /\ repo' = repo /\ spoiled' = spoiled /\ Verifies(staging'[t])
    BY <1>2, <1>10 DEF Verify, world
  <2>2. CASE End(p)
    BY <1>1, <1>2, <1>4, <2>1, <2>2, SnapshotsStay, ConsistentEnds
  <2>3. CASE To(p, "upload")
    <3>1. "upload" \in Steps \ Unsealed
      BY DEF Steps, Uploading, Unsealed, Capturing
    <3> QED
      BY <1>1, <1>2, <1>4, <2>1, <2>3, <3>1, ConsistentMoves
  <2> QED
    BY <1>10, <2>2, <2>3 DEF Verify
<1> QED
  BY <1>5, <1>6, <1>7, <1>8, <1>9, <1>10 DEF Offsite

LEMMA ConsistentNext == TypeInv /\ TypeInv' /\ Consistent /\ [Next]_vars => Consistent'
<1> SUFFICES ASSUME TypeInv, TypeInv', Consistent, [Next]_vars
             PROVE  Consistent'
  OBVIOUS
<1>1. CASE UNCHANGED vars
  BY <1>1 DEF vars, history, Consistent, Bound, InCapture, SnapshotsRestorable, Taking
<1>2. ASSUME NEW p \in Runs, Kill(p)
      PROVE  Consistent'
  <2>1. run[p].pc # "idle"
    BY <1>2 DEF Kill, TypeInv, Invocation, Steps, Capturing, Uploading
  <2>2. PICK t \in Bundles : t = Taking(p)
    BY <2>1, Acting
  <2>3. End(p) /\ staging' = staging /\ repo' = repo /\ spoiled' = spoiled
    BY <1>2 DEF Kill, history
  <2>4. Bound(t)' /\ SnapshotsRestorable'
    BY <2>3, SnapshotsStay DEF Consistent, Bound
  <2> QED
    BY <2>1, <2>3, <2>4, ConsistentEnds
<1> QED
  BY <1>1, <1>2, ConsistentOutside, ConsistentBegin, ConsistentCapture, ConsistentOffsite DEF Next

(* Every snapshot holds a dump, an archive and digests that verify and the *)
(* file of every row of the dump, unless the bundle was damaged after      *)
(* _verify_bundle had read it and before Restic had: then the snapshot does*)
(* not verify.                                                             *)
THEOREM SnapshotsAreRestorable == Spec => []SnapshotsRestorable
<1>1. TypeInv /\ Consistent /\ [Next]_vars => TypeInv' /\ Consistent'
  BY TypeNext, ConsistentNext
<1>2. Spec => [](TypeInv /\ Consistent)
  BY <1>1, TypeInit, ConsistentInit, PTL DEF Spec
<1>3. Consistent => SnapshotsRestorable
  BY DEF Consistent
<1> QED
  BY <1>2, <1>3, PTL
-----------------------------------------------------------------------------
(***************************************************************************)
(* What is removed.                                                        *)
(***************************************************************************)
(* An invocation that stored a snapshot finds the repository with one.     *)
Kept ==
    /\ NothingLost
    /\ \A p \in Runs : run[p].stored => Len(repo) >= 1

LEMMA KeptInit == Init => Kept
<1> SUFFICES ASSUME Init
             PROVE  Kept
  OBVIOUS
<1>1. \A b \in Bundles : staging[b].state = "none"
  BY DEF Init, NoBundle
<1>2. \A p \in Runs : ~run[p].stored
  BY DEF Init, Idle, Fresh
<1> QED
  BY <1>1, <1>2 DEF Kept, NothingLost

(* A step that removes no bundle and leaves the repository alone.          *)
LEMMA KeptStep ==
  ASSUME TypeInv, Kept, repo' = repo, replaced' = replaced,
         \A b \in Bundles : staging'[b].state = "gone" => staging[b].state = "gone",
         \A p \in Runs : run'[p].stored => run[p].stored
  PROVE  Kept'
BY DEF Kept, NothingLost, Stored, Bundles

LEMMA StoredByMove ==
  ASSUME TypeInv, NEW p \in Runs, run[p].pc # "idle", NEW pc \in Steps, To(p, pc) \/ End(p)
  PROVE  \A q \in Runs : run'[q].stored => run[q].stored
<1>1. ~Idle.stored
  BY DEF Idle, Fresh
<1>2. CASE End(p)
  BY <1>1, <1>2 DEF End, TypeInv
<1>3. CASE To(p, pc)
  BY <1>3, Moves DEF TypeInv, Now
<1> QED
  BY <1>2, <1>3

LEMMA KeptCapture ==
  ASSUME TypeInv, Kept, NEW p \in Runs, Capture(p)
  PROVE  Kept'
<1> USE DEF At
<1>1. run[p].pc # "idle"
  BY DEF Capture, Stop, Check, Dump, Copy, Again, Seal, FailCapture, Abandon, Resume
<1>2. PICK t \in Bundles : t = Taking(p) /\ staging[t] \in Bundle
  BY <1>1, Acting
<1>3. staging \in [Bundles -> Bundle]
  BY DEF TypeInv
<1>4. repo' = repo /\ replaced' = replaced
  BY DEF Capture, Stop, Check, Dump, Copy, Again, Seal, FailCapture, Abandon, Resume, world, history
<1>5. \A b \in Bundles : staging'[b].state = "gone" => staging[b].state = "gone"
  <2>1. CASE Stop(p) \/ Check(p) \/ Resume(p)
    BY <2>1 DEF Stop, Check, Resume
  <2>2. CASE Dump(p)
    BY <1>2, <1>3, <2>2 DEF Dump, Bundle
  <2>3. CASE Copy(p)
    <3>1. PICK r \in Bundle : r = [staging[t] EXCEPT !.archive = files]
      BY <1>2 DEF Bundle, TypeInv
    <3>2. Archived(staging[t]) = [r EXCEPT !.list = files]
      BY <3>1 DEF Archived
    <3>3. Archived(staging[t]).state = staging[t].state
      BY <1>2, <3>1, <3>2 DEF Bundle
    <3> QED
      BY <1>2, <1>3, <2>3, <3>3 DEF Copy
  <2>4. CASE Again(p)
    BY <1>2, <1>3, <2>4 DEF Again, Bundle
  <2>5. CASE Seal(p) \/ FailCapture(p)
    BY <1>2, <1>3, <2>5 DEF Seal, FailCapture, Bundle
  <2>6. CASE Abandon(p)
    BY <1>2, <1>3, <2>6, EmptyBundle DEF Abandon, Bundle
  <2> QED
    BY <2>1, <2>2, <2>3, <2>4, <2>5, <2>6 DEF Capture
<1>6. \A q \in Runs : run'[q].stored => run[q].stored
  <2>1. CASE Stop(p)
    BY <2>1, Stops DEF TypeInv, Now
  <2>2. CASE FailCapture(p)
    BY <2>2, Fails DEF TypeInv, Now
  <2>3. CASE Check(p) \/ Dump(p) \/ Copy(p) \/ Again(p)
    BY <1>1, <2>3, StoredByMove DEF Check, Dump, Copy, Again, After, Steps, Capturing
  <2>4. CASE Seal(p) \/ Abandon(p) \/ Resume(p)
    BY <1>1, <2>4, StoredByMove DEF Seal, Abandon, Resume, Steps, Uploading
  <2> QED
    BY <2>1, <2>2, <2>3, <2>4 DEF Capture
<1> QED
  BY <1>4, <1>5, <1>6, KeptStep

LEMMA KeptOffsite ==
  ASSUME TypeInv, Kept, NEW p \in Runs, Offsite(p)
  PROVE  Kept'
<1> USE DEF At
<1>1. run[p].pc # "idle"
  BY DEF Offsite, Verify, Upload, Exists, Forget, Remains, Refuse
<1>2. PICK t \in Bundles : t = Taking(p) /\ staging[t] \in Bundle
  BY <1>1, Acting
<1>3. staging \in [Bundles -> Bundle] /\ repo \in Seq(Entry)
  BY DEF TypeInv
<1>4. CASE Upload(p)
  <2>1. PICK stored \in BOOLEAN :
          /\ repo' = IF stored THEN Append(repo, Snapshot(t)) ELSE repo
          /\ \/ End(p)
             \/ /\ run' = [run EXCEPT ![p] = Now(p, "exists", run[p].stopped, run[p].failed, stored)]
                /\ lock' = lock
    BY <1>2, <1>4, Uploads
  <2>2. staging' = staging /\ replaced' = replaced
    BY <1>4 DEF Upload, world
  <2>3. stored => /\ Len(repo') = Len(repo) + 1 /\ Len(repo) \in Nat
                  /\ \A i \in 1 .. Len(repo) : repo'[i] = repo[i]
    BY <2>1, Stores
  <2>4. Len(repo') >= Len(repo) /\ Len(repo) \in Nat /\ Len(repo') \in Nat
        /\ (stored => Len(repo') >= 1)
        /\ \A i \in 1 .. Len(repo) : repo'[i] = repo[i]
    BY <1>3, <2>1, <2>3
  <2>5. NothingLost'
    BY <2>2, <2>4 DEF Kept, NothingLost, Stored, Bundles
  <2>6. \A q \in Runs : run'[q].stored => run[q].stored \/ stored
    <3>1. CASE End(p)
      BY <1>1, <3>1, StoredByMove DEF Steps
    <3>2. CASE run' = [run EXCEPT ![p] = Now(p, "exists", run[p].stopped, run[p].failed, stored)]
      BY <3>2 DEF TypeInv, Now
    <3> QED
      BY <2>1, <3>1, <3>2
  <2> QED
    BY <2>4, <2>5, <2>6 DEF Kept
<1>5. CASE Exists(p)
  <2>1. \A q \in Runs : run'[q].stored => run[q].stored
    BY <1>1, <1>5, StoredByMove DEF Exists, Steps, Uploading
  <2> QED
    BY <1>5, <2>1, KeptStep DEF Exists, world
<1>6. CASE Forget(p)
  <2>1. \A q \in Runs : run'[q].stored => run[q].stored
    BY <1>1, <1>6, StoredByMove DEF Forget, Steps, Uploading
  <2>2. PICK kept \in Thinnings :
          /\ repo' = [i \in DOMAIN kept |-> repo[kept[i]]]
          /\ replaced' = replaced \cup MakeRoom(kept)
    BY <1>6 DEF Forget
  <2>3. staging' = staging /\ (Len(repo) >= 1 => Len(repo') >= 1)
    BY <1>6, <2>2, Thinned DEF Forget
  <2>4. ASSUME NEW b \in Bundles, staging[b].state = "gone"
        PROVE  Stored(b)' \/ b \in replaced'
    <3>1. CASE Stored(b)
      BY <2>2, <3>1, LeavesForYounger
    <3>2. CASE b \in replaced
      BY <2>2, <3>2
    <3> QED
      BY <2>4, <3>1, <3>2 DEF Kept, NothingLost
  <2>5. NothingLost'
    BY <2>3, <2>4 DEF NothingLost, Bundles
  <2> QED
    BY <2>1, <2>3, <2>5 DEF Kept
<1>7. CASE Remains(p)
  <2>1. \A q \in Runs : run'[q].stored => run[q].stored
    BY <1>1, <1>7, StoredByMove DEF Remains, Steps
  <2>2. \A b \in Bundles : b # t => staging'[b] = staging[b]
    BY <1>2, <1>3, <1>7 DEF Remains
  <2>3. repo' = repo /\ replaced' = replaced
        /\ repo[Len(repo)].bundle = t /\ Len(repo) \in 1 .. Len(repo)
    BY <1>2, <1>3, <1>7 DEF Remains, Found, Kept, world
  <2>4. NothingLost'
    BY <2>2, <2>3 DEF Kept, NothingLost, Stored, Bundles
  <2> QED
    BY <2>1, <2>3, <2>4 DEF Kept
<1>8. CASE Refuse(p)
  <2>1. \A q \in Runs : run'[q].stored => run[q].stored
    BY <1>1, <1>8, StoredByMove DEF Refuse, Steps
  <2> QED
    BY <1>8, <2>1, KeptStep DEF Refuse, world
<1>9. CASE Verify(p)
  <2>1. "upload" \in Steps
    BY DEF Steps, Uploading
  <2>2. \A q \in Runs : run'[q].stored => run[q].stored
    BY <1>1, <1>9, <2>1, StoredByMove DEF Verify
  <2> QED
    BY <1>9, <2>2, KeptStep DEF Verify, world
<1> QED
  BY <1>4, <1>5, <1>6, <1>7, <1>8, <1>9 DEF Offsite

LEMMA KeptNext == TypeInv /\ Kept /\ [Next]_vars => Kept'
<1> SUFFICES ASSUME TypeInv, Kept, [Next]_vars
             PROVE  Kept'
  OBVIOUS
<1>1. CASE UNCHANGED vars
  BY <1>1, KeptStep DEF vars, history
<1>2. CASE Outside
  <2>1. run' = run /\ repo' = repo /\ replaced' = replaced
    BY <1>2 DEF Outside, WriteFile, CommitRow, Damage, Connect, Repair, history
  <2>2. \A b \in Bundles : staging'[b].state = staging[b].state
    <3>1. ASSUME NEW b \in Bundles, Damage(b)
          PROVE  \A c \in Bundles : staging'[c].state = staging[c].state
      <4>1. staging[b] \in Bundle /\ staging' = [staging EXCEPT ![b] = Damaged(staging[b])]
        BY <3>1 DEF Damage, TypeInv
      <4> QED
        BY <4>1, DamagedBundle DEF TypeInv
    <3> QED
      BY <1>2, <3>1 DEF Outside, WriteFile, CommitRow, Connect, Repair
  <2> QED
    BY <2>1, <2>2, KeptStep
<1>3. ASSUME NEW p \in Runs, Begin(p)
      PROVE  Kept'
  <2>1. repo' = repo /\ replaced' = replaced
    BY <1>3 DEF Begin, Start, Retry, world
  <2>2. \A b \in Bundles : staging'[b].state = "gone" => staging[b].state = "gone"
    BY <1>3, EmptyBundle DEF Begin, Start, Retry, TypeInv
  <2>3. \A q \in Runs : run'[q].stored => run[q].stored
    BY <1>3 DEF Begin, Start, Retry, TypeInv, Fresh
  <2> QED
    BY <2>1, <2>2, <2>3, KeptStep
<1>4. ASSUME NEW p \in Runs, Kill(p)
      PROVE  Kept'
  <2>1. run[p].pc # "idle"
    BY <1>4 DEF Kill, TypeInv, Invocation, Steps, Capturing, Uploading
  <2>2. \A q \in Runs : run'[q].stored => run[q].stored
    BY <1>4, <2>1, StoredByMove DEF Kill, Steps
  <2> QED
    BY <1>4, <2>2, KeptStep DEF Kill, history
<1> QED
  BY <1>1, <1>2, <1>3, <1>4, KeptCapture, KeptOffsite DEF Next

(* A bundle that was removed from staging is in the repository, or was     *)
(* there until two younger snapshots stayed in the place of its last one.  *)
THEOREM NothingIsLost == Spec => []NothingLost
<1>1. TypeInv /\ Kept /\ [Next]_vars => TypeInv' /\ Kept'
  BY TypeNext, KeptNext
<1>2. Spec => [](TypeInv /\ Kept)
  BY <1>1, TypeInit, KeptInit, PTL DEF Spec
<1>3. Kept => NothingLost
  BY DEF Kept
<1> QED
  BY <1>2, <1>3, PTL
=============================================================================
