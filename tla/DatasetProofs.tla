-------------------------- MODULE DatasetProofs ---------------------------
(***************************************************************************)
(* Proofs about datasets and the strategies that run on them: Research,    *)
(* for any number of requests, dataset versions, files, behaviours, runs,  *)
(* alterations and crashes, and DatasetImport, for files of any length and *)
(* any number of instruments, policies, declarations and meanings of a     *)
(* file, of any bar intervals and change of the UTC offset.                *)
(***************************************************************************)
EXTENDS Research, DatasetImport, FiniteSetTheorems, TLAPS

-----------------------------------------------------------------------------
(***************************************************************************)
(* Dataset versions: their rows, their files and their reviews.            *)
(***************************************************************************)
Doing == {Idle}
    \cup [pc : {"write", "insert"}, id : Ids, row : Row]
    \cup [pc : {"approve", "reject"}, id : Ids]
    \cup [pc : {"edit", "publish"}, behaviour : Behaviours]
    \cup [pc : {"submit"}, id : Ids, kind : Kinds]

Importing(c) == request[c].pc \in {"write", "insert"}

(* What a request in progress relies on.  An import has a number that is   *)
(* the next one, or is taken by now; its row is not there yet, and its     *)
(* file is from the moment it has written it.                              *)
Ready(c) ==
    /\ Importing(c) =>
           /\ version[request[c].id] = None
           /\ request[c].row.number <= Cardinality(Stored) + 1
           /\ request[c].row.status # "APPROVED"
    /\ request[c].pc = "insert" /\ request[c].row.status # "FAILED" =>
           file[request[c].id] \in {request[c].row.content, Altered}
    /\ request[c].pc \in {"approve", "reject"} =>
           version[request[c].id] # None /\ version[request[c].id].status # "FAILED"

(* Imports in progress are of different versions. *)
Apart == \A c, e \in Clients :
    Importing(c) /\ Importing(e) /\ request[c].id = request[e].id => c = e

StoreInv ==
    /\ version \in [Ids -> Rows] /\ file \in [Ids -> Contents \cup {None, Altered}]
    /\ request \in [Clients -> Doing]
    /\ Numbered /\ RowsOnDisk
    /\ reviewed \subseteq Stored
    /\ \A d \in Stored : version[d].status = "APPROVED" => d \in reviewed
    /\ \A c \in Clients : Ready(c)
    /\ Apart

LEMMA DoingType ==
  ASSUME StoreInv, NEW c \in Clients
  PROVE  /\ request[c].pc \in {"idle", "write", "insert", "approve", "reject", "edit", "publish", "submit"}
         /\ Importing(c) => request[c].id \in Ids /\ request[c].row \in Row
         /\ request[c].pc \in {"approve", "reject"} => request[c].id \in Ids
         /\ request[c].pc \in {"edit", "publish"} => request[c].behaviour \in Behaviours
         /\ request[c].pc = "submit" => request[c].id \in Ids /\ request[c].kind \in Kinds
<1>1. request[c] \in Doing
  BY DEF StoreInv
<1> QED
  BY <1>1 DEF Doing, Importing, Idle

LEMMA RowType ==
  ASSUME StoreInv, NEW d \in Stored
  PROVE  d \in Ids /\ version[d] \in Row
BY DEF StoreInv, Stored, Rows

(* How many versions there are, and could be. *)
LEMMA Count ==
  ASSUME StoreInv
  PROVE  /\ Cardinality(Stored) \in Nat /\ Cardinality(Ids) \in Nat
         /\ Cardinality(Stored) <= Cardinality(Ids)
         /\ \A d \in Ids \ Stored : /\ Cardinality(Stored) + 1 <= Cardinality(Ids)
                                    /\ Cardinality(Stored \cup {d}) = Cardinality(Stored) + 1
         /\ Highest = Cardinality(Stored)
<1>1. Stored \subseteq Ids /\ IsFiniteSet(Ids)
  BY ResearchAssumption DEF Stored
<1>2. /\ IsFiniteSet(Stored) /\ Cardinality(Stored) <= Cardinality(Ids)
      /\ Cardinality(Stored) = Cardinality(Ids) => Stored = Ids
  BY <1>1, FS_Subset
<1>3. Cardinality(Stored) \in Nat /\ Cardinality(Ids) \in Nat
  BY <1>1, <1>2, FS_CardinalityType
<1>4. ASSUME NEW d \in Ids \ Stored
      PROVE  /\ Cardinality(Stored) + 1 <= Cardinality(Ids)
             /\ Cardinality(Stored \cup {d}) = Cardinality(Stored) + 1
  <2>1. Cardinality(Stored) # Cardinality(Ids)
    BY <1>2, <1>4
  <2>2. Cardinality(Stored \cup {d}) = Cardinality(Stored) + 1
    BY <1>2, <1>4, FS_AddElement
  <2> QED
    BY <1>2, <1>3, <2>1, <2>2
<1>5. Highest = Cardinality(Stored)
  <2> DEFINE n == Cardinality(Stored)
  <2>1. Numbers = 1 .. n
    BY DEF StoreInv, Numbered
  <2> HIDE DEF n
  <2>2. n \in Numbers \cup {0} /\ \A k \in Numbers : k <= n
    BY <1>3, <2>1 DEF n
  <2>3. \A m \in Numbers \cup {0} : (\A k \in Numbers : k <= m) => m = n
    BY <1>3, <2>1 DEF n
  <2> QED
    BY <2>2, <2>3 DEF Highest, n
<1> QED
  BY <1>2, <1>3, <1>4, <1>5
-----------------------------------------------------------------------------
(* A request begins or ends and no row, file or review changes. *)
LEMMA StoreRequest ==
  ASSUME StoreInv, UNCHANGED <<version, file, reviewed>>, NEW c \in Clients, NEW what \in Doing,
         request' = [request EXCEPT ![c] = what],
         what.pc \notin {"write", "insert"},
         what.pc \in {"approve", "reject"} =>
             version[what.id] # None /\ version[what.id].status # "FAILED"
  PROVE  StoreInv'
<1>1. request'[c] = what /\ \A e \in Clients : e # c => request'[e] = request[e]
  BY DEF StoreInv
<1>2. request' \in [Clients -> Doing]
  BY DEF StoreInv
<1>3. /\ Stored' = Stored /\ Numbers' = Numbers
      /\ Numbered' /\ RowsOnDisk'
  BY DEF StoreInv, Numbered, RowsOnDisk, Stored, Numbers
<1>4. Ready(c)'
  BY <1>1 DEF Ready, Importing
<1>5. \A e \in Clients : e # c => Ready(e)'
  BY <1>1, <1>3 DEF StoreInv, Ready, Importing
<1>6. Apart'
  BY <1>1 DEF StoreInv, Apart, Importing
<1> QED
  BY <1>2, <1>3, <1>4, <1>5, <1>6 DEF StoreInv

(* A review sets the status of a version. *)
LEMMA StoreStatus ==
  ASSUME StoreInv, NEW c \in Clients, request[c].pc \in {"approve", "reject"},
         NEW s \in {"APPROVED", "REJECTED"},
         version' = [version EXCEPT ![request[c].id].status = s], file' = file,
         reviewed' = reviewed \/ reviewed' = reviewed \cup {request[c].id},
         s = "APPROVED" => request[c].id \in reviewed',
         request' = [request EXCEPT ![c] = Idle]
  PROVE  StoreInv'
<1> DEFINE d == request[c].id
<1>1. d \in Ids /\ d \in Stored /\ version[d] \in Row /\ version[d].status # "FAILED"
  BY DoingType, RowType DEF StoreInv, Ready, Stored
<1>2. [version[d] EXCEPT !.status = s] \in Row
  BY <1>1 DEF Row, Statuses
<1>3. /\ version'[d] = [version[d] EXCEPT !.status = s]
      /\ \A e \in Ids : e # d => version'[e] = version[e]
      /\ version' \in [Ids -> Rows]
  BY <1>1, <1>2 DEF StoreInv, Rows
<1>4. Stored' = Stored
  BY <1>1, <1>2, <1>3, NoRowAssumption DEF Stored
<1>5. /\ \A e \in Stored : /\ version'[e].number = version[e].number
                           /\ version'[e].content = version[e].content
                           /\ e # d => version'[e].status = version[e].status
      /\ version'[d].status = s
  BY <1>1, <1>3 DEF Row, Stored
<1>6. Numbers' = Numbers
  BY <1>4, <1>5 DEF Numbers
<1>7. Numbered' /\ RowsOnDisk'
  BY <1>1, <1>4, <1>5, <1>6 DEF StoreInv, Numbered, RowsOnDisk
<1>8. /\ request'[c] = Idle /\ \A e \in Clients : e # c => request'[e] = request[e]
      /\ request' \in [Clients -> Doing]
  BY DEF StoreInv, Doing
<1>9. ASSUME NEW e \in Clients
      PROVE  Ready(e)'
  <2>1. CASE e = c
    BY <1>8, <2>1 DEF Ready, Importing, Idle
  <2>2. CASE e # c
    <3>1. request'[e] = request[e] /\ Ready(e)
      BY <1>8, <2>2 DEF StoreInv
    <3>2. Importing(e) => version'[request[e].id] = None
      BY <1>1, <1>3, <3>1, DoingType, NoRowAssumption DEF Ready
    <3>3. request[e].pc \in {"approve", "reject"} =>
              version'[request[e].id] # None /\ version'[request[e].id].status # "FAILED"
      <4> SUFFICES ASSUME request[e].pc \in {"approve", "reject"}
                   PROVE  version'[request[e].id] # None /\ version'[request[e].id].status # "FAILED"
        OBVIOUS
      <4>1. request[e].id \in Stored /\ version[request[e].id].status # "FAILED"
        BY <3>1, DoingType DEF Ready, Stored
      <4> QED
        BY <1>4, <1>5, <4>1 DEF Stored
    <3> QED
      BY <1>4, <3>1, <3>2, <3>3 DEF Ready, Importing
  <2> QED
    BY <2>1, <2>2
<1>10. Apart'
  BY <1>8 DEF StoreInv, Apart, Importing, Idle
<1>11. reviewed' \subseteq Stored' /\ \A e \in Stored' : version'[e].status = "APPROVED" => e \in reviewed'
  BY <1>1, <1>4, <1>5 DEF StoreInv
<1> QED
  BY <1>3, <1>7, <1>8, <1>9, <1>10, <1>11 DEF StoreInv
-----------------------------------------------------------------------------
(* The steps of an import. *)
LEMMA ImportBegins ==
  ASSUME StoreInv, NEW c \in Clients, NEW d \in Ids, NEW x \in Contents, NEW s \in Settings,
         NEW confirming \in BOOLEAN, BeginImport(c, d, x, s, confirming)
  PROVE  StoreInv'
<1> DEFINE row == [number |-> Highest + 1, content |-> x, settings |-> s,
                   confirmed |-> confirming, validated |-> TRUE,
                   status |-> IF Accepted(x, confirming) THEN "PENDING_APPROVAL" ELSE "FAILED"]
           what == [pc |-> "write", id |-> d, row |-> row]
<1>1. /\ version[d] = None /\ UNCHANGED <<version, file, reviewed>>
      /\ request' = [request EXCEPT ![c] = what]
      /\ \A e \in Clients : Importing(e) => request[e].id # d
  BY DEF BeginImport, Reads, Then, datasets, Importing
<1>2. d \notin Stored
  BY <1>1 DEF Stored
<1>3. Highest + 1 \in 1 .. Cardinality(Ids) /\ Highest + 1 <= Cardinality(Stored) + 1
  <2>1. /\ Highest = Cardinality(Stored) /\ Cardinality(Stored) \in Nat /\ Cardinality(Ids) \in Nat
        /\ Cardinality(Stored) + 1 <= Cardinality(Ids)
    BY <1>2, Count
  <2> QED
    BY <2>1
<1>4. (IF Accepted(x, confirming) THEN "PENDING_APPROVAL" ELSE "FAILED") \in Statuses \ {"APPROVED"}
  BY DEF Statuses
<1>5. row \in Row /\ row.status # "APPROVED" /\ row.number = Highest + 1
  BY <1>3, <1>4 DEF Row
<1> HIDE DEF row
<1>6. what \in Doing
  BY <1>5 DEF Doing
<1>7. /\ request'[c] = what /\ \A e \in Clients : e # c => request'[e] = request[e]
      /\ request' \in [Clients -> Doing]
  BY <1>1, <1>6 DEF StoreInv
<1>8. /\ Stored' = Stored /\ Numbers' = Numbers
      /\ Numbered' /\ RowsOnDisk'
  <2>1. version' = version /\ file' = file /\ Numbered /\ RowsOnDisk
    BY <1>1 DEF StoreInv
  <2>2. Stored' = Stored /\ Numbers' = Numbers
    BY <2>1 DEF Stored, Numbers
  <2> QED
    BY <2>1, <2>2 DEF Numbered, RowsOnDisk
<1>9. Ready(c)'
  BY <1>1, <1>3, <1>5, <1>7, <1>8 DEF Ready, Importing
<1>10. \A e \in Clients : e # c => Ready(e)'
  BY <1>1, <1>7, <1>8 DEF StoreInv, Ready, Importing
<1>11. Apart'
  BY <1>1, <1>7 DEF StoreInv, Apart, Importing
<1> QED
  BY <1>1, <1>7, <1>8, <1>9, <1>10, <1>11 DEF StoreInv

LEMMA FileWritten ==
  ASSUME StoreInv, NEW c \in Clients, WriteFile(c)
  PROVE  StoreInv'
<1> DEFINE d == request[c].id
           row == request[c].row
           what == [request[c] EXCEPT !.pc = "insert"]
<1>1. /\ request[c].pc = "write" /\ UNCHANGED <<version, reviewed>>
      /\ file' = IF row.status = "FAILED" THEN file ELSE [file EXCEPT ![d] = row.content]
      /\ request' = [request EXCEPT ![c] = what]
  BY DEF WriteFile, Advance, Then
<1>2. d \in Ids /\ row \in Row /\ version[d] = None /\ Ready(c) /\ Importing(c)
  BY <1>1, DoingType DEF StoreInv, Ready, Importing
<1>3. request[c] = [pc |-> "write", id |-> d, row |-> row]
  <2>1. request[c] \in Doing
    BY DEF StoreInv
  <2> QED
    BY <1>1, <2>1 DEF Doing, Idle
<1>4. what = [pc |-> "insert", id |-> d, row |-> row]
  BY <1>3
<1>5. what \in Doing /\ what.pc = "insert" /\ what.id = d /\ what.row = row
  BY <1>2, <1>4 DEF Doing
<1> HIDE DEF what
<1>6. /\ request'[c] = what /\ \A e \in Clients : e # c => request'[e] = request[e]
      /\ request' \in [Clients -> Doing]
  BY <1>1, <1>5 DEF StoreInv
<1>7. /\ file' \in [Ids -> Contents \cup {None, Altered}]
      /\ \A e \in Ids : e # d => file'[e] = file[e]
      /\ row.status # "FAILED" => file'[d] = row.content
  BY <1>1, <1>2 DEF StoreInv, Row
<1>8. Stored' = Stored /\ Numbers' = Numbers /\ Numbered' /\ d \notin Stored
  BY <1>1, <1>2 DEF StoreInv, Numbered, Stored, Numbers
<1>9. RowsOnDisk'
  BY <1>1, <1>7, <1>8, RowType DEF StoreInv, RowsOnDisk
<1>10. Ready(c)'
  BY <1>1, <1>2, <1>5, <1>6, <1>7, <1>8 DEF Ready, Importing
<1>11. ASSUME NEW e \in Clients, e # c
       PROVE  Ready(e)'
  <2>1. Importing(e) => request[e].id # d
    BY <1>2, <1>11 DEF StoreInv, Apart
  <2>2. Importing(e) => file'[request[e].id] = file[request[e].id]
    BY <1>7, <2>1, DoingType
  <2> QED
    BY <1>1, <1>6, <1>8, <1>11, <2>2 DEF StoreInv, Ready, Importing
<1>12. Apart'
  BY <1>2, <1>5, <1>6 DEF StoreInv, Apart, Importing
<1> QED
  BY <1>1, <1>6, <1>7, <1>8, <1>9, <1>10, <1>11, <1>12 DEF StoreInv

LEMMA VersionInserted ==
  ASSUME StoreInv, NEW c \in Clients, InsertVersion(c)
  PROVE  StoreInv'
<1> DEFINE d == request[c].id
           row == request[c].row
<1>1. /\ request[c].pc = "insert" /\ UNCHANGED <<file, reviewed>>
      /\ request' = [request EXCEPT ![c] = Idle]
      /\ version' = IF row.number \in Numbers THEN version ELSE [version EXCEPT ![d] = row]
  BY DEF InsertVersion, Advance, Then, Ends, Free
<1>2. d \in Ids /\ row \in Row /\ version[d] = None /\ Ready(c) /\ Importing(c)
  BY <1>1, DoingType DEF StoreInv, Ready, Importing
<1>3. CASE row.number \in Numbers
  <2>1. Idle \in Doing /\ Idle.pc = "idle"
    BY DEF Doing, Idle
  <2> QED
    BY <1>1, <1>3, <2>1, StoreRequest
<1>4. CASE row.number \notin Numbers
  <2>1. /\ version'[d] = row /\ \A e \in Ids : e # d => version'[e] = version[e]
        /\ version' \in [Ids -> Rows]
    BY <1>1, <1>2, <1>4 DEF StoreInv, Rows
  <2>2. d \notin Stored /\ Stored' = Stored \cup {d}
    BY <1>2, <2>1, NoRowAssumption DEF Stored
  <2>3. /\ Cardinality(Stored') = Cardinality(Stored) + 1 /\ Cardinality(Stored) \in Nat
    BY <1>2, <2>2, Count
  <2>4. row.number = Cardinality(Stored) + 1
    <3>1. Numbers = 1 .. Cardinality(Stored) /\ row.number <= Cardinality(Stored) + 1
      BY <1>2 DEF StoreInv, Numbered, Ready
    <3>2. row.number \in Nat \ {0}
      BY <1>2, Count DEF Row
    <3> QED
      BY <1>4, <2>3, <3>1, <3>2
  <2>5. Numbers' = Numbers \cup {row.number}
    BY <1>2, <2>1, <2>2, RowType DEF Numbers
  <2>6. Numbered'
    <3>1. Numbers' = 1 .. Cardinality(Stored')
      <4>1. Numbers = 1 .. Cardinality(Stored)
        BY DEF StoreInv, Numbered
      <4> QED
        BY <2>3, <2>4, <2>5, <4>1
    <3>2. \A a, b \in Stored' : version'[a].number = version'[b].number => a = b
      BY <1>4, <2>1, <2>2, RowType DEF StoreInv, Numbered, Numbers
    <3> QED
      BY <3>1, <3>2 DEF Numbered
  <2>7. RowsOnDisk'
    BY <1>1, <1>2, <2>1, <2>2, RowType DEF StoreInv, RowsOnDisk, Ready
  <2>8. /\ request'[c] = Idle /\ \A e \in Clients : e # c => request'[e] = request[e]
        /\ request' \in [Clients -> Doing]
    BY <1>1 DEF StoreInv, Doing
  <2>9. ASSUME NEW e \in Clients
        PROVE  Ready(e)'
    <3>1. CASE e = c
      BY <2>8, <3>1 DEF Ready, Importing, Idle
    <3>2. CASE e # c
      <4>1. request'[e] = request[e] /\ Ready(e)
        BY <2>8, <3>2 DEF StoreInv
      <4>2. Importing(e) => request[e].id # d /\ request[e].id \in Ids /\ request[e].row.number \in Nat
        BY <1>2, <3>2, DoingType, Count DEF StoreInv, Apart, Row
      <4>3. Importing(e) => /\ version'[request[e].id] = None
                            /\ request[e].row.number <= Cardinality(Stored') + 1
        BY <2>1, <2>3, <4>1, <4>2 DEF Ready
      <4>4. request[e].pc \in {"approve", "reject"} => version'[request[e].id] = version[request[e].id]
        BY <1>2, <2>1, <4>1, DoingType DEF Ready
      <4> QED
        BY <1>1, <4>1, <4>3, <4>4 DEF Ready, Importing
    <3> QED
      BY <3>1, <3>2
  <2>10. Apart'
    BY <2>8 DEF StoreInv, Apart, Importing, Idle
  <2>11. reviewed' \subseteq Stored' /\ \A e \in Stored' : version'[e].status = "APPROVED" => e \in reviewed'
    BY <1>1, <1>2, <2>1, <2>2, RowType DEF StoreInv, Ready
  <2> QED
    BY <1>1, <2>1, <2>6, <2>7, <2>8, <2>9, <2>10, <2>11 DEF StoreInv
<1> QED
  BY <1>3, <1>4

LEMMA FileAltered ==
  ASSUME StoreInv, NEW d \in Ids, Alter(d)
  PROVE  StoreInv'
<1>1. /\ file' = [file EXCEPT ![d] = Altered] /\ UNCHANGED <<version, reviewed, request>>
  BY DEF Alter
<1>2. /\ file' \in [Ids -> Contents \cup {None, Altered}]
      /\ \A e \in Ids : file'[e] = file[e] \/ file'[e] = Altered
  BY <1>1 DEF StoreInv
<1>3. Stored' = Stored /\ Numbers' = Numbers /\ Numbered'
  BY <1>1 DEF StoreInv, Numbered, Stored, Numbers
<1>4. RowsOnDisk'
  BY <1>1, <1>2, <1>3, RowType DEF StoreInv, RowsOnDisk
<1>5. ASSUME NEW c \in Clients
      PROVE  Ready(c)'
  BY <1>1, <1>2, <1>3, DoingType DEF StoreInv, Ready, Importing
<1>6. Apart'
  BY <1>1 DEF StoreInv, Apart, Importing
<1> QED
  BY <1>1, <1>2, <1>3, <1>4, <1>5, <1>6 DEF StoreInv

LEMMA StoreCrash ==
  ASSUME StoreInv, Crash
  PROVE  StoreInv'
<1>1. /\ UNCHANGED <<version, file, reviewed>> /\ \A c \in Clients : request'[c] = Idle
      /\ request' \in [Clients -> Doing]
  BY DEF Crash, datasets, Doing
<1>2. Numbered' /\ RowsOnDisk' /\ Stored' = Stored
  BY <1>1 DEF StoreInv, Numbered, RowsOnDisk, Stored, Numbers
<1>3. Apart' /\ \A c \in Clients : Ready(c)'
  BY <1>1 DEF Apart, Ready, Importing, Idle
<1> QED
  BY <1>1, <1>2, <1>3 DEF StoreInv

LEMMA StoreInit == Init => StoreInv
<1> SUFFICES ASSUME Init PROVE StoreInv
  OBVIOUS
<1>1. /\ file = [d \in Ids |-> IF version[d] = None THEN None ELSE version[d].content]
      /\ request = [c \in Clients |-> Idle] /\ reviewed = Stored
  BY DEF Init
<1>2. request \in [Clients -> Doing] /\ Apart /\ \A c \in Clients : Ready(c)
  BY <1>1 DEF Doing, Apart, Ready, Importing, Idle
<1>3. CASE version = [d \in Ids |-> None]
  <2>1. Stored = {} /\ Numbers = {} /\ Cardinality(Stored) = 0
    <3>1. Stored = {} /\ Numbers = {}
      BY <1>3 DEF Stored, Numbers
    <3> QED
      BY <3>1, FS_EmptySet
  <2>2. Numbered /\ RowsOnDisk
    BY <2>1 DEF Numbered, RowsOnDisk
  <2>3. version \in [Ids -> Rows] /\ file \in [Ids -> Contents \cup {None, Altered}]
    BY <1>1, <1>3 DEF Rows
  <2> QED
    BY <1>1, <1>2, <2>1, <2>2, <2>3 DEF StoreInv
<1>4. ASSUME NEW row \in Legacy, NEW d \in Ids, version = [e \in Ids |-> IF e = d THEN row ELSE None]
      PROVE  StoreInv
  <2>1. Cardinality({d}) = 1 /\ Cardinality(Ids) \in Nat /\ 1 <= Cardinality(Ids)
    <3>1. IsFiniteSet(Ids) /\ {d} \subseteq Ids
      BY ResearchAssumption
    <3>2. Cardinality({d}) = 1
      BY FS_Singleton
    <3>3. Cardinality({d}) <= Cardinality(Ids) /\ Cardinality(Ids) \in Nat
      BY <3>1, FS_Subset, FS_CardinalityType
    <3> QED
      BY <3>2, <3>3
  <2>2. PICK x \in Contents, s \in Settings :
          row = [number |-> 1, status |-> "APPROVED", content |-> x, settings |-> s,
                 confirmed |-> FALSE, validated |-> FALSE]
    BY DEF Legacy
  <2>3. row \in Row
    BY <2>1, <2>2 DEF Row, Statuses
  <2>4. Stored = {d} /\ version[d] = row /\ row # None
    BY <1>4, <2>3, NoRowAssumption DEF Stored
  <2>5. Numbers = {1}
    BY <2>2, <2>4 DEF Numbers
  <2>6. Numbered /\ RowsOnDisk
    BY <1>1, <2>1, <2>2, <2>4, <2>5 DEF Numbered, RowsOnDisk
  <2>7. version \in [Ids -> Rows] /\ file \in [Ids -> Contents \cup {None, Altered}]
    BY <1>1, <1>4, <2>2, <2>3, <2>4 DEF Rows
  <2> QED
    BY <1>1, <1>2, <2>6, <2>7 DEF StoreInv
<1> QED
  BY <1>3, <1>4 DEF Init

LEMMA StoreUnchanged ==
  ASSUME StoreInv, UNCHANGED <<version, file, reviewed, request>>
  PROVE  StoreInv'
<1>1. Stored' = Stored /\ Numbers' = Numbers
  BY DEF Stored, Numbers
<1> QED
  BY <1>1 DEF StoreInv, Numbered, RowsOnDisk, Ready, Importing, Apart

(* The strategy version: a published one has the hash of a behaviour.       *)
StrategyInv ==
    /\ strategy \in [status : {"DRAFT", "PUBLISHED"}, behaviour : Behaviours,
                     hash : Behaviours \cup {None}]
    /\ strategy.status = "PUBLISHED" => strategy.hash \in Behaviours

LEMMA StoreStep == StoreInv /\ StrategyInv /\ [Next]_vars => StoreInv'
<1> SUFFICES ASSUME StoreInv, strategy.behaviour \in Behaviours, [Next]_vars PROVE StoreInv'
  BY DEF StrategyInv
<1>1. ASSUME NEW c \in Clients, ImportStep(c) PROVE StoreInv'
  BY <1>1, ImportBegins, FileWritten, VersionInserted DEF ImportStep
<1>2. ASSUME NEW c \in Clients, ReviewStep(c) PROVE StoreInv'
  <2>1. ASSUME NEW d \in Ids, ReadApprove(c, d) PROVE StoreInv'
    <3> DEFINE what == [pc |-> "approve", id |-> d]
    <3>1. /\ what \in Doing /\ what.pc = "approve" /\ what.id = d
          /\ version[d] # None /\ version[d].status # "FAILED"
      BY <2>1 DEF ReadApprove, Doing, Stored
    <3>2. UNCHANGED <<version, file, reviewed>> /\ request' = [request EXCEPT ![c] = what]
      BY <2>1 DEF ReadApprove, Reads, datasets
    <3> HIDE DEF what
    <3> QED
      BY <3>1, <3>2, StoreRequest
  <2>2. ASSUME NEW d \in Ids, ReadReject(c, d) PROVE StoreInv'
    <3> DEFINE what == [pc |-> "reject", id |-> d]
    <3>1. /\ what \in Doing /\ what.pc = "reject" /\ what.id = d
          /\ version[d] # None /\ version[d].status # "FAILED"
      BY <2>2 DEF ReadReject, Doing, Stored
    <3>2. UNCHANGED <<version, file, reviewed>> /\ request' = [request EXCEPT ![c] = what]
      BY <2>2 DEF ReadReject, Reads, datasets
    <3> HIDE DEF what
    <3> QED
      BY <3>1, <3>2, StoreRequest
  <2>3. CASE Approve(c)
    <3>1. /\ request[c].pc = "approve" /\ file' = file
          /\ version' = [version EXCEPT ![request[c].id].status = "APPROVED"]
          /\ reviewed' = reviewed \cup {request[c].id}
          /\ request' = [request EXCEPT ![c] = Idle]
      BY <2>3 DEF Approve, Ends
    <3> QED
      BY <3>1, StoreStatus
  <2>4. CASE RejectVersion(c)
    <3>1. /\ request[c].pc = "reject" /\ file' = file
          /\ version' = [version EXCEPT ![request[c].id].status = "REJECTED"]
          /\ reviewed' = reviewed
          /\ request' = [request EXCEPT ![c] = Idle]
      BY <2>4 DEF RejectVersion, Ends
    <3> QED
      BY <3>1, StoreStatus
  <2> QED
    BY <1>2, <2>1, <2>2, <2>3, <2>4 DEF ReviewStep
<1>3. ASSUME NEW c \in Clients, NEW what \in Doing,
             request' = [request EXCEPT ![c] = what], UNCHANGED <<version, file, reviewed>>,
             what.pc \in {"idle", "edit", "publish", "submit"}
      PROVE  StoreInv'
  BY <1>3, StoreRequest
<1>4. Idle \in Doing /\ Idle.pc = "idle"
  BY DEF Doing, Idle
<1>5. ASSUME NEW c \in Clients, StrategyStep(c) PROVE StoreInv'
  <2>1. ASSUME NEW b \in Behaviours, ReadEdit(c, b) PROVE StoreInv'
    <3> DEFINE what == [pc |-> "edit", behaviour |-> b]
    <3>1. /\ what \in Doing /\ what.pc = "edit"
          /\ UNCHANGED <<version, file, reviewed>> /\ request' = [request EXCEPT ![c] = what]
      BY <2>1 DEF ReadEdit, Reads, datasets, Doing
    <3> HIDE DEF what
    <3> QED
      BY <1>3, <3>1
  <2>2. CASE ReadPublish(c)
    <3> DEFINE what == [pc |-> "publish", behaviour |-> strategy.behaviour]
    <3>1. /\ what \in Doing /\ what.pc = "publish"
          /\ UNCHANGED <<version, file, reviewed>> /\ request' = [request EXCEPT ![c] = what]
      BY <2>2 DEF ReadPublish, Reads, datasets, Doing
    <3> HIDE DEF what
    <3> QED
      BY <1>3, <3>1
  <2>3. CASE Edit(c) \/ Publish(c)
    <3>1. UNCHANGED <<version, file, reviewed>> /\ request' = [request EXCEPT ![c] = Idle]
      BY <2>3 DEF Edit, Publish, Ends, datasets
    <3> QED
      BY <1>3, <1>4, <3>1
  <2> QED
    BY <1>5, <2>1, <2>2, <2>3 DEF StrategyStep
<1>6. ASSUME NEW c \in Clients, RunStep(c) PROVE StoreInv'
  <2>1. ASSUME NEW d \in Ids, NEW kind \in Kinds, ReadSubmit(c, kind, d) PROVE StoreInv'
    <3> DEFINE what == [pc |-> "submit", id |-> d, kind |-> kind]
    <3>1. /\ what \in Doing /\ what.pc = "submit"
          /\ UNCHANGED <<version, file, reviewed>> /\ request' = [request EXCEPT ![c] = what]
      BY <2>1 DEF ReadSubmit, Reads, datasets, Doing
    <3> HIDE DEF what
    <3> QED
      BY <1>3, <3>1
  <2>2. CASE Submit(c)
    <3>1. UNCHANGED <<version, file, reviewed>> /\ request' = [request EXCEPT ![c] = Idle]
      BY <2>2 DEF Submit, Ends, datasets
    <3> QED
      BY <1>3, <1>4, <3>1
  <2> QED
    BY <1>6, <2>1, <2>2 DEF RunStep
<1>7. CASE Crash
  BY <1>7, StoreCrash
<1>8. ASSUME NEW d \in Ids, Alter(d) PROVE StoreInv'
  BY <1>8, FileAltered
<1>9. ASSUME NEW x \in Contents, NEW s \in Settings, Preview(x, s) PROVE StoreInv'
  BY <1>9, StoreUnchanged DEF Preview
<1>10. ASSUME NEW q \in queued, Load(q) PROVE StoreInv'
  BY <1>10, StoreUnchanged DEF Load, datasets
<1>11. CASE Compute
  BY <1>11, StoreUnchanged DEF Compute, datasets
<1>12. CASE UNCHANGED vars
  BY <1>12, StoreUnchanged DEF vars
<1> QED
  BY <1>1, <1>2, <1>5, <1>6, <1>7, <1>8, <1>9, <1>10, <1>11, <1>12 DEF Next

(* The strategy version, for a request with what it read. *)
LEMMA StrategyMoves == StoreInv /\ StrategyInv /\ [Next]_vars => StrategyInv'
<1> SUFFICES ASSUME StoreInv, StrategyInv, [Next]_vars PROVE StrategyInv'
  OBVIOUS
<1>1. ASSUME NEW c \in Clients, Edit(c) PROVE StrategyInv'
  BY <1>1, DoingType DEF Edit, StrategyInv
<1>2. ASSUME NEW c \in Clients, Publish(c) PROVE StrategyInv'
  BY <1>2, DoingType DEF Publish, StrategyInv
<1>3. CASE strategy' = strategy
  BY <1>3 DEF StrategyInv
<1>4. ASSUME NEW c \in Clients, ImportStep(c) \/ ReviewStep(c) \/ RunStep(c) PROVE strategy' = strategy
  BY <1>4 DEF ImportStep, BeginImport, WriteFile, InsertVersion, ReviewStep, ReadApprove, ReadReject,
              Approve, RejectVersion, RunStep, ReadSubmit, Submit
<1>5. ASSUME NEW c \in Clients, StrategyStep(c) PROVE strategy' = strategy \/ Edit(c) \/ Publish(c)
  BY <1>5 DEF StrategyStep, ReadEdit, ReadPublish
<1>6. ASSUME NEW x \in Contents, NEW s \in Settings, Preview(x, s) PROVE strategy' = strategy
  BY <1>6 DEF Preview
<1>7. ASSUME NEW q \in queued, Load(q) PROVE strategy' = strategy
  BY <1>7 DEF Load
<1>8. ASSUME NEW d \in Ids, Alter(d) PROVE strategy' = strategy
  BY <1>8 DEF Alter
<1>9. Compute \/ Crash \/ UNCHANGED vars => strategy' = strategy
  BY DEF Compute, Crash, vars
<1> QED
  BY <1>1, <1>2, <1>3, <1>4, <1>5, <1>6, <1>7, <1>8, <1>9 DEF Next
-----------------------------------------------------------------------------
(***************************************************************************)
(* Runs: what was accepted, what executes, what was computed.              *)
(***************************************************************************)
Run == [kind : Kinds, id : reviewed]

Sound(r) ==
    /\ r.kind \in Kinds /\ r.id \in reviewed
    /\ version[r.id].validated
    /\ r.rows = version[r.id].content
    /\ r.kind = "backtest" => r.ran = r.recorded

RunInv ==
    /\ \A c \in Clients : request[c].pc = "submit" =>
          request[c].id \in reviewed /\ strategy.status = "PUBLISHED"
    /\ queued \subseteq Run
    /\ queued # {} => strategy.status = "PUBLISHED"
    /\ exec # Idle =>
          /\ exec.pc = "hashed" /\ exec.run \in Run
          /\ version[exec.run.id].validated
          /\ exec.behaviour \in Behaviours /\ exec.hash \in Behaviours
          /\ exec.run.kind = "backtest" => exec.behaviour = exec.hash
    /\ results \subseteq [kind : Kinds, id : reviewed, rows : Contents, ran : Behaviours,
                          recorded : Behaviours]
    /\ \A r \in results : Sound(r)

(* What a stored version is stays what it is: only its status moves.  A    *)
(* review is not undone and a publication is not either.                   *)
LEMMA Kept ==
  ASSUME StoreInv, StrategyInv, [Next]_vars
  PROVE  /\ reviewed \subseteq reviewed'
         /\ strategy.status = "PUBLISHED" => strategy'.status = "PUBLISHED"
         /\ \A d \in Stored : /\ version'[d].content = version[d].content
                              /\ version'[d].validated = version[d].validated
<1> DEFINE P == /\ reviewed \subseteq reviewed'
                /\ strategy.status = "PUBLISHED" => strategy'.status = "PUBLISHED"
                /\ \A d \in Stored : /\ version'[d].content = version[d].content
                                     /\ version'[d].validated = version[d].validated
<1>1. ASSUME NEW c \in Clients, InsertVersion(c) PROVE P
  <2>1. /\ request[c].pc = "insert" /\ strategy' = strategy /\ reviewed' = reviewed
        /\ version' = version \/ version' = [version EXCEPT ![request[c].id] = request[c].row]
    BY <1>1 DEF InsertVersion
  <2>2. request[c].id \notin Stored
    BY <2>1 DEF StoreInv, Ready, Importing, Stored
  <2> QED
    BY <2>1, <2>2 DEF Stored, StoreInv
<1>2. ASSUME NEW c \in Clients, Approve(c) \/ RejectVersion(c) PROVE P
  <2>1. PICK s \in {"APPROVED", "REJECTED"} :
          /\ version' = [version EXCEPT ![request[c].id].status = s]
          /\ strategy' = strategy /\ reviewed \subseteq reviewed'
    BY <1>2 DEF Approve, RejectVersion
  <2>2. \A d \in Stored : version[d] \in Row
    BY RowType
  <2>3. \A d \in Stored : /\ version'[d].content = version[d].content
                          /\ version'[d].validated = version[d].validated
    BY <2>1, <2>2 DEF Stored, StoreInv, Row
  <2> QED
    BY <2>1, <2>3
<1>3. ASSUME NEW c \in Clients, Edit(c) \/ Publish(c) PROVE P
  BY <1>3 DEF Edit, Publish, datasets, StrategyInv
<1>4. CASE UNCHANGED <<version, reviewed, strategy>>
  BY <1>4
<1>5. ASSUME NEW c \in Clients, ImportStep(c) \/ ReviewStep(c) \/ StrategyStep(c) \/ RunStep(c) PROVE P
  <2>1. \/ UNCHANGED <<version, reviewed, strategy>>
        \/ InsertVersion(c) \/ Approve(c) \/ RejectVersion(c) \/ Edit(c) \/ Publish(c)
    BY <1>5 DEF ImportStep, BeginImport, WriteFile, ReviewStep, ReadApprove, ReadReject, StrategyStep,
                ReadEdit, ReadPublish, RunStep, ReadSubmit, Submit, datasets
  <2> QED
    BY <1>1, <1>2, <1>3, <1>4, <2>1
<1>6. ASSUME NEW x \in Contents, NEW s \in Settings, Preview(x, s) PROVE P
  BY <1>4, <1>6 DEF Preview
<1>7. ASSUME NEW q \in queued, Load(q) PROVE P
  BY <1>4, <1>7 DEF Load, datasets
<1>8. ASSUME NEW d \in Ids, Alter(d) PROVE P
  BY <1>4, <1>8 DEF Alter
<1>9. Compute \/ Crash \/ UNCHANGED vars => P
  BY <1>4 DEF Compute, Crash, vars, datasets
<1> QED
  BY <1>5, <1>6, <1>7, <1>8, <1>9 DEF Next

(* What a run relies on goes on holding of the runs there are. *)
LEMMA StillSound ==
  ASSUME StoreInv, StrategyInv, RunInv, [Next]_vars
  PROVE  /\ Run \subseteq Run'
         /\ \A q \in Run : version[q.id].validated => version'[q.id].validated
         /\ \A r \in results : Sound(r)'
         /\ results \subseteq [kind : Kinds, id : reviewed', rows : Contents, ran : Behaviours,
                               recorded : Behaviours]
<1>1. /\ reviewed \subseteq reviewed' /\ reviewed \subseteq Stored
      /\ \A d \in reviewed : /\ version'[d].content = version[d].content
                             /\ version'[d].validated = version[d].validated
  BY Kept DEF StoreInv
<1>2. Run \subseteq Run'
  BY <1>1 DEF Run
<1>3. \A q \in Run : version[q.id].validated => version'[q.id].validated
  BY <1>1 DEF Run
<1>4. \A r \in results : Sound(r)'
  BY <1>1 DEF RunInv, Sound
<1>5. results \subseteq [kind : Kinds, id : reviewed', rows : Contents, ran : Behaviours,
                        recorded : Behaviours]
  <2>1. \A r \in results :
          r \in [kind : Kinds, id : reviewed, rows : Contents, ran : Behaviours, recorded : Behaviours]
    BY DEF RunInv
  <2> QED
    BY <1>1, <2>1
<1> QED
  BY <1>2, <1>3, <1>4, <1>5

(* A step that no run takes. *)
LEMMA RunsWait ==
  ASSUME StoreInv, StrategyInv, RunInv, [Next]_vars, queued' = queued, results' = results,
         exec' = exec \/ exec' = Idle,
         \A c \in Clients : request'[c].pc = "submit" =>
             \/ request'[c] = request[c]
             \/ request'[c].id \in reviewed /\ strategy.status = "PUBLISHED"
  PROVE  RunInv'
<1>1. \A c \in Clients : request'[c].pc = "submit" =>
          request'[c].id \in reviewed' /\ strategy'.status = "PUBLISHED"
  BY Kept DEF RunInv
<1>2. queued' \subseteq Run' /\ (queued' # {} => strategy'.status = "PUBLISHED")
  BY Kept, StillSound DEF RunInv
<1>3. exec' # Idle =>
          /\ exec'.pc = "hashed" /\ exec'.run \in Run'
          /\ version'[exec'.run.id].validated
          /\ exec'.behaviour \in Behaviours /\ exec'.hash \in Behaviours
          /\ exec'.run.kind = "backtest" => exec'.behaviour = exec'.hash
  BY StillSound DEF RunInv
<1>4. /\ \A r \in results' : Sound(r)'
      /\ results' \subseteq [kind : Kinds, id : reviewed', rows : Contents, ran : Behaviours,
                             recorded : Behaviours]
  BY StillSound
<1> QED
  BY <1>1, <1>2, <1>3, <1>4 DEF RunInv

LEMMA RunStarts ==
  ASSUME StoreInv, StrategyInv, RunInv, NEW q \in queued, Load(q)
  PROVE  RunInv'
<1>1. /\ exec' = [pc |-> "hashed", run |-> q, behaviour |-> strategy.behaviour, hash |-> strategy.hash]
      /\ UNCHANGED <<version, strategy, request, queued, results, reviewed>>
      /\ version[q.id].validated
      /\ q.kind = "backtest" => strategy.hash = None \/ strategy.hash = strategy.behaviour
  BY DEF Load, datasets, Runnable, Intact
<1>2. q \in Run /\ strategy.status = "PUBLISHED"
  BY DEF RunInv
<1>3. /\ strategy.behaviour \in Behaviours /\ strategy.hash \in Behaviours
      /\ q.kind = "backtest" => strategy.behaviour = strategy.hash
  BY <1>1, <1>2, ResearchAssumption DEF StrategyInv
<1>4. /\ exec'.pc = "hashed" /\ exec'.run = q
      /\ exec'.behaviour = strategy.behaviour /\ exec'.hash = strategy.hash
  BY <1>1
<1>5. Run' = Run /\ \A r \in results : Sound(r)' = Sound(r)
  BY <1>1 DEF Run, Sound
<1> QED
  BY <1>1, <1>2, <1>3, <1>4, <1>5 DEF RunInv

LEMMA RunEnds ==
  ASSUME StoreInv, StrategyInv, RunInv, Compute
  PROVE  RunInv'
<1> DEFINE q == exec.run
           new == [kind |-> q.kind, id |-> q.id, rows |-> file[q.id], ran |-> exec.behaviour,
                   recorded |-> exec.hash]
<1>1. /\ exec.pc = "hashed" /\ exec' = Idle /\ queued' = queued \ {q}
      /\ UNCHANGED <<version, strategy, request, reviewed>>
      /\ results' = IF HashedAgain(q.id) THEN results \cup {new} ELSE results
  BY DEF Compute, datasets
<1>2. exec # Idle
  BY <1>1 DEF Idle
<1>3. /\ q \in Run /\ version[q.id].validated
      /\ exec.behaviour \in Behaviours /\ exec.hash \in Behaviours
      /\ q.kind = "backtest" => exec.behaviour = exec.hash
  BY <1>2 DEF RunInv
<1>4. q.kind \in Kinds /\ q.id \in reviewed /\ q.id \in Stored
  BY <1>3 DEF Run, StoreInv
<1>5. version[q.id].content \in Contents
  BY <1>4, RowType DEF Row
<1>6. ASSUME HashedAgain(q.id)
      PROVE  /\ Sound(new)
             /\ new \in [kind : Kinds, id : reviewed, rows : Contents, ran : Behaviours,
                         recorded : Behaviours]
  BY <1>3, <1>4, <1>5, <1>6 DEF Sound, HashedAgain
<1> HIDE DEF new
<1>7. /\ \A r \in results' : Sound(r)
      /\ results' \subseteq [kind : Kinds, id : reviewed, rows : Contents, ran : Behaviours,
                             recorded : Behaviours]
  BY <1>1, <1>6 DEF RunInv
<1>8. Run' = Run /\ \A r : Sound(r)' = Sound(r)
  BY <1>1 DEF Run, Sound
<1> QED
  BY <1>1, <1>7, <1>8 DEF RunInv

LEMMA RunMoves == StoreInv /\ StrategyInv /\ RunInv /\ [Next]_vars => RunInv'
<1> SUFFICES ASSUME StoreInv, StrategyInv, RunInv, [Next]_vars PROVE RunInv'
  OBVIOUS
<1>1. \A c \in Clients : request[c] \in Doing /\ request \in [Clients -> Doing]
  BY DEF StoreInv
<1>2. ASSUME NEW c \in Clients, NEW what, request' = [request EXCEPT ![c] = what], what.pc # "submit",
             UNCHANGED runs
      PROVE  RunInv'
  <2>1. \A e \in Clients : request'[e].pc = "submit" => request'[e] = request[e]
    BY <1>1, <1>2
  <2> QED
    BY <1>2, <2>1, RunsWait DEF runs
<1>3. Idle.pc # "submit"
  BY DEF Idle
<1>4. ASSUME NEW c \in Clients, ImportStep(c) PROVE RunInv'
  <2>1. ASSUME NEW d \in Ids, NEW x \in Contents, NEW s \in Settings, NEW confirming \in BOOLEAN,
               BeginImport(c, d, x, s, confirming)
        PROVE  RunInv'
    <3>1. PICK row : request' = [request EXCEPT ![c] = [pc |-> "write", id |-> d, row |-> row]]
      BY <2>1 DEF BeginImport, Reads, Then
    <3>2. UNCHANGED runs
      BY <2>1 DEF BeginImport
    <3>3. [pc |-> "write", id |-> d, row |-> row].pc # "submit"
      OBVIOUS
    <3> DEFINE what == [pc |-> "write", id |-> d, row |-> row]
    <3> HIDE DEF what
    <3> QED
      BY <1>2, <3>1, <3>2, <3>3 DEF what
  <2>2. CASE WriteFile(c)
    <3>1. request' = [request EXCEPT ![c] = [request[c] EXCEPT !.pc = "insert"]] /\ UNCHANGED runs
      BY <2>2 DEF WriteFile, Advance, Then
    <3>2. request[c].pc = "write"
      BY <2>2 DEF WriteFile
    <3>3. request[c] = [pc |-> "write", id |-> request[c].id, row |-> request[c].row]
      BY <1>1, <3>2 DEF Doing, Idle
    <3>4. [request[c] EXCEPT !.pc = "insert"].pc # "submit"
      BY <3>3
    <3> QED
      BY <1>2, <3>1, <3>4
  <2>3. CASE InsertVersion(c)
    <3>1. request' = [request EXCEPT ![c] = Idle] /\ UNCHANGED runs
      BY <2>3 DEF InsertVersion, Advance, Then, Ends
    <3> QED
      BY <1>2, <1>3, <3>1
  <2> QED
    BY <1>4, <2>1, <2>2, <2>3 DEF ImportStep
<1>5. ASSUME NEW c \in Clients, ReviewStep(c) \/ StrategyStep(c) PROVE RunInv'
  <2>1. UNCHANGED runs
    BY <1>5 DEF ReviewStep, ReadApprove, ReadReject, Approve, RejectVersion, StrategyStep, ReadEdit,
                Edit, ReadPublish, Publish
  <2>2. \/ request' = [request EXCEPT ![c] = Idle]
        \/ \E d \in Ids : \/ request' = [request EXCEPT ![c] = [pc |-> "approve", id |-> d]]
                         \/ request' = [request EXCEPT ![c] = [pc |-> "reject", id |-> d]]
        \/ \E b : \/ request' = [request EXCEPT ![c] = [pc |-> "edit", behaviour |-> b]]
                 \/ request' = [request EXCEPT ![c] = [pc |-> "publish", behaviour |-> b]]
    BY <1>5 DEF ReviewStep, ReadApprove, ReadReject, Approve, RejectVersion, StrategyStep, ReadEdit,
                Edit, ReadPublish, Publish, Reads, Ends
  <2> QED
    BY <1>2, <1>3, <2>1, <2>2
<1>6. ASSUME NEW c \in Clients, RunStep(c) PROVE RunInv'
  <2>1. ASSUME NEW d \in Ids, NEW kind \in Kinds, ReadSubmit(c, kind, d) PROVE RunInv'
    <3>1. /\ UNCHANGED runs /\ d \in Stored /\ version[d].status = "APPROVED"
          /\ strategy.status # "DRAFT"
          /\ request' = [request EXCEPT ![c] = [pc |-> "submit", id |-> d, kind |-> kind]]
      BY <2>1 DEF ReadSubmit, Reads, Usable, Resolves
    <3>2. d \in reviewed /\ strategy.status = "PUBLISHED"
      BY <3>1 DEF StoreInv, StrategyInv
    <3>3. /\ request'[c].id = d
          /\ \A e \in Clients : e # c => request'[e] = request[e]
      BY <1>1, <3>1
    <3> QED
      BY <3>1, <3>2, <3>3, RunsWait DEF runs
  <2>2. CASE Submit(c)
    <3> DEFINE q == [kind |-> request[c].kind, id |-> request[c].id]
    <3>1. /\ request[c].pc = "submit" /\ queued' = queued \cup {q}
          /\ request' = [request EXCEPT ![c] = Idle]
          /\ UNCHANGED <<version, reviewed, strategy, exec, results>>
      BY <2>2 DEF Submit, Ends, datasets
    <3>2. q \in Run /\ strategy.status = "PUBLISHED"
      BY <3>1, DoingType DEF RunInv, Run
    <3> HIDE DEF q
    <3>3. \A e \in Clients : request'[e].pc = "submit" => request'[e] = request[e]
      BY <1>1, <1>3, <3>1
    <3>4. Run' = Run /\ \A r \in results : Sound(r)' = Sound(r)
      BY <3>1 DEF Run, Sound
    <3> QED
      BY <3>1, <3>2, <3>3, <3>4 DEF RunInv
  <2> QED
    BY <1>6, <2>1, <2>2 DEF RunStep
<1>7. ASSUME NEW q \in queued, Load(q) PROVE RunInv'
  BY <1>7, RunStarts
<1>8. CASE Compute
  BY <1>8, RunEnds
<1>9. ASSUME NEW x \in Contents, NEW s \in Settings, Preview(x, s) PROVE RunInv'
  BY <1>9, RunsWait DEF Preview, runs
<1>10. ASSUME NEW d \in Ids, Alter(d) PROVE RunInv'
  BY <1>10, RunsWait DEF Alter, runs
<1>11. CASE Crash
  <2>1. queued' = queued /\ results' = results /\ exec' = Idle /\ \A c \in Clients : request'[c] = Idle
    BY <1>11 DEF Crash
  <2> QED
    BY <1>3, <2>1, RunsWait
<1>12. CASE UNCHANGED vars
  BY <1>12, RunsWait DEF vars
<1> QED
  BY <1>4, <1>5, <1>6, <1>7, <1>8, <1>9, <1>10, <1>11, <1>12 DEF Next
-----------------------------------------------------------------------------
(***************************************************************************)
(* What is promised.                                                       *)
(***************************************************************************)
Inv == StoreInv /\ StrategyInv /\ RunInv

LEMMA Invariance == Spec => []Inv
<1>1. Init => Inv
  <2> SUFFICES ASSUME Init PROVE StrategyInv /\ RunInv
    BY StoreInit DEF Inv
  <2>1. StrategyInv
    BY DEF Init, StrategyInv
  <2>2. /\ queued = {} /\ exec = Idle /\ results = {}
        /\ \A c \in Clients : request[c] = Idle
    BY DEF Init
  <2>3. RunInv
    BY <2>2 DEF RunInv, Idle
  <2> QED
    BY <2>1, <2>3
<1>2. Inv /\ [Next]_vars => Inv'
  BY StoreStep, StrategyMoves, RunMoves DEF Inv
<1> QED
  BY <1>1, <1>2, PTL DEF Spec

(* The state of the store, of the requests and of the runs is well formed. *)
THEOREM ResearchTypeCorrect == Spec => []TypeOK
<1>1. Inv => TypeOK
  <2> SUFFICES ASSUME Inv PROVE TypeOK
    OBVIOUS
  <2>1. reviewed \subseteq Stored
    BY DEF Inv, StoreInv
  <2>2. queued \subseteq [kind : Kinds, id : Stored]
    BY <2>1 DEF Inv, RunInv, Run
  <2>3. results \subseteq [kind : Kinds, id : Stored, rows : Contents, ran : Behaviours,
                          recorded : Behaviours]
    <3>1. \A r \in results :
            r \in [kind : Kinds, id : reviewed, rows : Contents, ran : Behaviours, recorded : Behaviours]
      BY DEF Inv, RunInv
    <3> QED
      BY <2>1, <3>1
  <2>4. \A c \in Clients : request[c].pc \in
          {"idle", "write", "insert", "approve", "reject", "edit", "publish", "submit"}
    BY DoingType DEF Inv
  <2> QED
    BY <2>1, <2>2, <2>3, <2>4 DEF TypeOK, Inv, StoreInv, StrategyInv
<1> QED
  BY <1>1, Invariance, PTL

(* ingest_upload, ingest_url: versions are numbered without a gap or a     *)
(* duplicate and a version that can be reviewed has its file.              *)
THEOREM VersionsAreComplete == Spec => []VersionsComplete
<1>1. Inv => VersionsComplete
  BY DEF Inv, StoreInv, VersionsComplete
<1> QED
  BY <1>1, Invariance, PTL

(* require_approved, _require_runnable: no backtest or session computes on *)
(* a version that no review approved.                                      *)
THEOREM RunsAreReviewed == Spec => []OnlyReviewed
<1>1. Inv => OnlyReviewed
  BY DEF Inv, RunInv, Sound, OnlyReviewed
<1> QED
  BY <1>1, Invariance, PTL

(* read_jsonl_verified, verify_integrity: what a run computed on and what  *)
(* a backtest ran are what is recorded.                                    *)
THEOREM RunsAreAsRecorded == Spec => []RanAsRecorded
<1>1. Inv => RanAsRecorded
  BY DEF Inv, RunInv, Sound, RanAsRecorded, RowsAsImported, BacktestRanRecorded
<1> QED
  BY <1>1, Invariance, PTL

(* What the user holds is the identity of what they saw. *)
Previewing == previewed # None => previewed.id = previewed.of

LEMMA PreviewingHolds == Spec => []Previewing
<1>1. Init => Previewing
  BY DEF Init, Previewing
<1>2. Previewing /\ [Next]_vars => Previewing'
  <2> SUFFICES ASSUME Previewing, [Next]_vars PROVE Previewing'
    OBVIOUS
  <2>1. CASE previewed' = previewed
    BY <2>1 DEF Previewing
  <2>2. ASSUME NEW x \in Contents, NEW s \in Settings, Preview(x, s) PROVE Previewing'
    BY <2>2 DEF Preview, Previewing, Identity
  <2>3. ASSUME NEW c \in Clients, ImportStep(c) \/ ReviewStep(c) PROVE previewed' = previewed
    BY <2>3 DEF ImportStep, BeginImport, WriteFile, InsertVersion, ReviewStep, ReadApprove, ReadReject,
                Approve, RejectVersion, datasets
  <2>4. ASSUME NEW c \in Clients, StrategyStep(c) \/ RunStep(c) PROVE previewed' = previewed
    BY <2>4 DEF StrategyStep, ReadEdit, Edit, ReadPublish, Publish, RunStep, ReadSubmit, Submit, datasets
  <2>5. ASSUME NEW q \in queued, Load(q) PROVE previewed' = previewed
    BY <2>5 DEF Load, datasets
  <2>6. ASSUME NEW d \in Ids, Alter(d) PROVE previewed' = previewed
    BY <2>6 DEF Alter
  <2>7. Compute \/ Crash \/ UNCHANGED vars => previewed' = previewed
    BY DEF Compute, Crash, vars, datasets
  <2> QED
    BY <2>1, <2>2, <2>3, <2>4, <2>5, <2>6, <2>7 DEF Next
<1> QED
  BY <1>1, <1>2, PTL DEF Spec

(* Whose import a step begins. *)
LEMMA OnlyBeginImport ==
  ASSUME StoreInv, [Next]_vars, NEW c \in Clients, request[c] = Idle,
         request'[c].pc \in {"write", "insert"}
  PROVE  \E d \in Ids, x \in Contents, s \in Settings, confirming \in BOOLEAN :
             BeginImport(c, d, x, s, confirming)
<1>1. request \in [Clients -> Doing] /\ Idle.pc = "idle"
  BY DEF StoreInv, Idle
<1>2. request'[c] # request[c]
  BY <1>1
<1>3. ASSUME NEW e \in Clients, NEW what, request' = [request EXCEPT ![e] = what]
      PROVE  e = c /\ what.pc \in {"write", "insert"}
  BY <1>1, <1>2, <1>3
<1>4. ASSUME NEW e \in Clients, ImportStep(e)
      PROVE  \E d \in Ids, x \in Contents, s \in Settings, confirming \in BOOLEAN :
                 BeginImport(c, d, x, s, confirming)
  <2>1. PICK what : request' = [request EXCEPT ![e] = what]
    BY <1>4 DEF ImportStep, BeginImport, WriteFile, InsertVersion, Advance, Ends, Reads
  <2>2. e = c
    BY <1>3, <2>1
  <2> QED
    BY <1>1, <1>4, <2>2 DEF ImportStep, WriteFile, InsertVersion
<1>5. ASSUME NEW e \in Clients, ReviewStep(e) \/ StrategyStep(e) \/ RunStep(e) PROVE FALSE
  <2>1. \/ request' = [request EXCEPT ![e] = Idle]
        \/ \E d \in Ids : \/ request' = [request EXCEPT ![e] = [pc |-> "approve", id |-> d]]
                         \/ request' = [request EXCEPT ![e] = [pc |-> "reject", id |-> d]]
        \/ \E b : \/ request' = [request EXCEPT ![e] = [pc |-> "edit", behaviour |-> b]]
                 \/ request' = [request EXCEPT ![e] = [pc |-> "publish", behaviour |-> b]]
        \/ \E d \in Ids, k \in Kinds :
                request' = [request EXCEPT ![e] = [pc |-> "submit", id |-> d, kind |-> k]]
    BY <1>5 DEF ReviewStep, ReadApprove, ReadReject, Approve, RejectVersion, StrategyStep, ReadEdit,
                Edit, ReadPublish, Publish, RunStep, ReadSubmit, Submit, Reads, Ends
  <2> QED
    BY <1>1, <1>3, <2>1
<1>6. ASSUME NEW x \in Contents, NEW s \in Settings, Preview(x, s) PROVE FALSE
  BY <1>2, <1>6 DEF Preview
<1>7. ASSUME NEW q \in queued, Load(q) PROVE FALSE
  BY <1>2, <1>7 DEF Load
<1>8. ASSUME NEW d \in Ids, Alter(d) PROVE FALSE
  BY <1>2, <1>8 DEF Alter
<1>9. Compute \/ Crash \/ UNCHANGED vars => FALSE
  BY <1>1, <1>2 DEF Compute, Crash, vars
<1> QED
  BY <1>4, <1>5, <1>6, <1>7, <1>8, <1>9 DEF Next

(* _require_preview: an import that was confirmed is of the bytes, read    *)
(* the way, that were previewed.                                           *)
THEOREM ConfirmationsArePreviewed == Spec => ConfirmedAsPreviewed
<1>1. Inv /\ Previewing /\ [Next]_vars =>
        [\A c \in Clients :
          (request[c] = Idle /\ request'[c].pc \in {"write", "insert"} /\ request'[c].row.confirmed)
              => previewed.of = <<request'[c].row.content, request'[c].row.settings>>]_vars
  <2> SUFFICES ASSUME Inv, Previewing, [Next]_vars, NEW c \in Clients, request[c] = Idle,
                      request'[c].pc \in {"write", "insert"}, request'[c].row.confirmed
               PROVE  previewed.of = <<request'[c].row.content, request'[c].row.settings>>
    OBVIOUS
  <2>1. PICK d \in Ids, x \in Contents, s \in Settings, confirming \in BOOLEAN :
          BeginImport(c, d, x, s, confirming)
    BY OnlyBeginImport DEF Inv
  <2>2. /\ request'[c].row.content = x /\ request'[c].row.settings = s
        /\ request'[c].row.confirmed = confirming
    BY <2>1 DEF BeginImport, Reads, Inv, StoreInv
  <2>3. previewed # None /\ previewed.id = <<x, s>>
    BY <2>1, <2>2 DEF BeginImport, Bound, Identity
  <2> QED
    BY <2>2, <2>3 DEF Previewing
<1> QED
  BY <1>1, Invariance, PreviewingHolds, PTL DEF Spec, ConfirmedAsPreviewed
-----------------------------------------------------------------------------
(***************************************************************************)
(* The import of a file.                                                   *)
(***************************************************************************)
LEMMA LinesAdded ==
  ASSUME NEW S, NEW x
  PROVE  LinesOf(S \cup {x}) = LinesOf(S) \cup {x.line}
BY DEF LinesOf

(* The lines read, the rows kept and what they are declared to mean are of *)
(* the kinds clean() and _canonicalize work on, for any file.              *)
THEOREM ImportTypeCorrect == ImportSpec => []ImportTypeOK
<1>1. ImportInit => ImportTypeOK
  BY ImportAssumption DEF ImportInit, ImportTypeOK, LinesOf
<1>2. ASSUME ImportTypeOK, NEW l \in Lines, Write(l)
      PROVE  ImportTypeOK'
  <2>1. text' \in Seq(Lines) /\ Len(text') = Len(text) + 1 /\ line' = line
    BY <1>2 DEF ImportTypeOK, Write, read
  <2>2. line' \in 0 .. Len(text')
    BY <1>2, <2>1 DEF ImportTypeOK
  <2> QED
    BY <1>2, <2>1, <2>2 DEF ImportTypeOK, Write, read, LinesOf
<1>3. ASSUME ImportTypeOK, NEW d \in Declarations, NEW p \in Policies, Declare(d, p)
      PROVE  ImportTypeOK'
  BY <1>3 DEF ImportTypeOK, Declare, read, LinesOf
<1>4. ASSUME ImportTypeOK, ReadLine
      PROVE  ImportTypeOK'
  <2>1. /\ UNCHANGED <<truth, text, declaration, policy>> /\ stage = "clean"
        /\ line \in Nat /\ line + 1 \in 1 .. Len(text) /\ text[line + 1] \in Lines
        /\ Len(text) \in Nat
    BY <1>4 DEF ReadLine, ImportTypeOK
  <2>2. ASSUME NEW why, Reject(why)
        PROVE  ImportTypeOK'
    <3>1. line' = line + 1 /\ line' \in 0 .. Len(text')
      BY <2>1, <2>2 DEF Reject
    <3>2. LinesOf(rejected') \subseteq 1 .. line'
      BY <1>4, <2>1, <2>2 DEF Reject, LinesOf, ImportTypeOK
    <3> QED
      BY <1>4, <2>1, <2>2, <3>1, <3>2 DEF Reject, ImportTypeOK, LinesOf
  <2>3. CASE Unusable
    BY <2>2, <2>3 DEF Unusable
  <2>4. CASE Duplicate
    <3>1. CASE Reject("duplicate")
      BY <2>2, <3>1
    <3>2. CASE stage' = "failed" /\ rows' = {} /\ UNCHANGED <<line, rejected, dropped, seen, latest>>
      BY <1>4, <2>1, <3>2 DEF ImportTypeOK, LinesOf
    <3> QED
      BY <2>4, <3>1, <3>2 DEF Duplicate
  <2>5. CASE Accept
    <3>1. Instants(Current.label) # {}
      BY <2>5, FS_EmptySet DEF Accept, Readable
    <3>2. Time \in Horizon /\ Time \in Int
      BY <3>1, ImportAssumption DEF Time, Instants, Horizon
    <3>3. Current.sym \in Symbols /\ Current.label \in Labels /\ Key \in Symbols \X Horizon
      BY <2>1, <3>2 DEF Current, Lines, Key
    <3>4. line' = line + 1 /\ line' \in 0 .. Len(text') /\ stage' = stage
      BY <2>1, <2>5 DEF Accept
    <3>5. dropped' \subseteq [line : 1 .. line', by : 1 .. line']
      <4>1. CASE Superseded = {}
        BY <1>4, <2>1, <2>5, <3>4, <4>1 DEF Accept, ImportTypeOK
      <4>2. CASE Superseded # {}
        <5>1. seen[Key] # 0 /\ seen[Key] \in 0 .. line
          BY <1>4, <3>3, <4>2 DEF Superseded, Repeated, ImportTypeOK
        <5> QED
          BY <1>4, <2>1, <2>5, <3>4, <4>2, <5>1 DEF Accept, ImportTypeOK
      <4> QED
        BY <4>1, <4>2
    <3>6. rows' \subseteq [sym : Symbols, time : Int, line : 1 .. line', label : Labels]
      <4>1. CanonicalRow \in [sym : Symbols, time : Int, line : 1 .. line', label : Labels]
        BY <2>1, <3>2, <3>3, <3>4 DEF CanonicalRow
      <4>2. rows' \subseteq rows \cup {CanonicalRow}
        BY <2>5 DEF Accept
      <4>3. rows \subseteq [sym : Symbols, time : Int, line : 1 .. line', label : Labels]
        BY <1>4, <2>1, <3>4 DEF ImportTypeOK
      <4> QED
        BY <4>1, <4>2, <4>3
    <3>7. LinesOf(rejected') \subseteq 1 .. line'
      <4>1. \A x \in rejected' : x \in rejected \/ x.line = line + 1
        BY <2>5 DEF Accept
      <4> QED
        BY <1>4, <2>1, <3>4, <4>1 DEF ImportTypeOK, LinesOf
    <3>8. seen' \in [Symbols \X Horizon -> 0 .. line']
      BY <1>4, <2>1, <2>5, <3>3, <3>4 DEF Accept, ImportTypeOK
    <3>9. latest' \in [Symbols -> Horizon \cup {-1}]
      BY <1>4, <2>5, <3>2, <3>3 DEF Accept, ImportTypeOK
    <3> QED
      BY <1>4, <2>1, <3>4, <3>5, <3>6, <3>7, <3>8, <3>9 DEF ImportTypeOK, LinesOf
  <2> QED
    BY <1>4, <2>3, <2>4, <2>5 DEF ReadLine
<1>5. ASSUME ImportTypeOK, Canonicalize
      PROVE  ImportTypeOK'
  <2>1. CASE stage' = "failed" /\ rows' = {}
    BY <1>5, <2>1 DEF Canonicalize, ImportTypeOK, LinesOf
  <2>2. CASE stage' = "pending" /\ rows' = {[r EXCEPT !.time = EndOf(r.time)] : r \in rows}
    <3>1. declaration.unit \in Int
      BY <1>5, ImportAssumption DEF Canonicalize, ImportTypeOK
    <3>2. ASSUME NEW r \in rows
          PROVE  [r EXCEPT !.time = EndOf(r.time)] \in [sym : Symbols, time : Int, line : 1 .. line, label : Labels]
      <4>1. EndOf(r.time) \in Int
        BY <1>5, <3>1 DEF EndOf, ImportTypeOK
      <4> QED
        BY <1>5, <4>1 DEF ImportTypeOK
    <3> QED
      BY <1>5, <2>2, <3>2 DEF Canonicalize, ImportTypeOK, LinesOf
  <2> QED
    BY <1>5, <2>1, <2>2 DEF Canonicalize
<1>6. ImportTypeOK /\ UNCHANGED importVars => ImportTypeOK'
  BY DEF ImportTypeOK, importVars, LinesOf
<1>7. ImportTypeOK /\ [ImportNext]_importVars => ImportTypeOK'
  BY <1>2, <1>3, <1>4, <1>5, <1>6 DEF ImportNext
<1> QED
  BY <1>1, <1>7, PTL DEF ImportSpec
-----------------------------------------------------------------------------
(* Line i is a usable bar of one instant, At(i); it does not go backwards  *)
(* in the series of its instrument; it is not a duplicate of line j.       *)
Good(i) == UsableLine(text[i]) /\ Cardinality(Instants(text[i].label)) = 1
At(i) == CHOOSE t \in Instants(text[i].label) : TRUE
Forward(i) ==
    policy.ordered => \A j \in 1 .. i - 1 : Good(j) /\ text[j].sym = text[i].sym => At(j) <= At(i)
Place(i) == <<text[i].sym, At(i)>>

(* What the policy keeps of the first n lines. *)
Keeps(i, n) ==
    /\ Good(i) /\ Forward(i)
    /\ \A j \in 1 .. n : Good(j) /\ Place(j) = Place(i) =>
          IF policy.duplicates = "keep_last" THEN j <= i ELSE j < i => ~Forward(j)

(* The loop of clean(), after some of the lines. *)
RowsOfLines ==
    \A r \in rows : /\ Good(r.line) /\ Place(r.line) = <<r.sym, r.time>>
                    /\ r.label = text[r.line].label
                    /\ seen[<<r.sym, r.time>>] = r.line
SeenInOrder ==
    /\ \A i \in 1 .. line : Good(i) /\ Forward(i) => seen[Place(i)] # 0
    /\ \A key \in Symbols \X Horizon, i \in 1 .. line :
           seen[key] = i => Good(i) /\ Forward(i) /\ Place(i) = key
LatestRead ==
    /\ \A i \in 1 .. line : Good(i) => At(i) <= latest[text[i].sym]
    /\ \A s \in Symbols : latest[s] # -1 =>
           \E i \in 1 .. line : Good(i) /\ text[i].sym = s /\ At(i) = latest[s]
RowsKept == LinesOf(rows) = {i \in 1 .. line : Keeps(i, line)}
EveryLine ==
    /\ LinesOf(rows) \cup LinesOf(rejected) \cup LinesOf(dropped) = 1 .. line
    /\ LinesOf(rows) \cap LinesOf(rejected) = {}
    /\ LinesOf(rows) \cap LinesOf(dropped) = {}
    /\ LinesOf(dropped) \cap LinesOf(rejected) = {}

Unread ==
    /\ line = 0 /\ rows = {} /\ rejected = {} /\ dropped = {}
    /\ seen = [key \in Symbols \X Horizon |-> 0]
    /\ latest = [s \in Symbols |-> -1]

LoopInv ==
    /\ stage = "upload" => Unread
    /\ stage = "clean" => RowsOfLines /\ SeenInOrder /\ LatestRead /\ RowsKept /\ EveryLine
    /\ stage = "pending" => RowsKept /\ EveryLine

LEMMA GoodType ==
  ASSUME ImportTypeOK, NEW i \in 1 .. Len(text), Good(i)
  PROVE  /\ text[i] \in Lines /\ text[i].sym \in Symbols
         /\ At(i) \in Instants(text[i].label) /\ At(i) \in Horizon /\ At(i) \in Nat
         /\ Place(i) \in Symbols \X Horizon
<1>1. text[i] \in Lines
  BY DEF ImportTypeOK
<1>2. Instants(text[i].label) # {}
  <2>1. Cardinality(Instants(text[i].label)) # 0
    BY DEF Good
  <2>2. Cardinality({}) = 0
    BY FS_EmptySet
  <2> QED
    BY <2>1, <2>2
<1>3. At(i) \in Instants(text[i].label) /\ At(i) \in Horizon /\ At(i) \in Nat
  BY <1>2, ImportAssumption DEF At, Instants, Horizon
<1> QED
  BY <1>1, <1>3 DEF Lines, Place

(* The line clean() is about to read. *)
LEMMA NextLine ==
  ASSUME ImportTypeOK, stage = "clean", line < Len(text)
  PROVE  /\ line \in Nat /\ Len(text) \in Nat /\ line + 1 \in 1 .. Len(text)
         /\ Current = text[line + 1] /\ Time = At(line + 1) /\ Key = Place(line + 1)
         /\ Good(line + 1) <=> UsableLine(Current) /\ Readable
<1>1. line \in Nat /\ Len(text) \in Nat /\ line + 1 \in 1 .. Len(text)
  BY DEF ImportTypeOK
<1> QED
  BY <1>1 DEF Current, Time, At, Key, Place, Good, Readable

(* What the lines say does not change while they are read. *)
LEMMA SameLines ==
  ASSUME UNCHANGED <<truth, text, policy>>, NEW i
  PROVE  /\ (Good(i)' <=> Good(i)) /\ At(i)' = At(i) /\ Place(i)' = Place(i)
         /\ Forward(i)' <=> Forward(i)
<1>1. \A label : Instants(label)' = Instants(label)
  BY DEF Instants, Wall, Offset, Horizon
<1>2. \A j : Good(j)' <=> Good(j)
  BY <1>1 DEF Good, UsableLine, Filled
<1>3. \A j : At(j)' = At(j)
  BY <1>1 DEF At
<1>4. Forward(i)' <=> Forward(i)
  BY <1>2, <1>3 DEF Forward
<1> QED
  BY <1>2, <1>3, <1>4 DEF Place

LEMMA BackwardsForward ==
  ASSUME ImportTypeOK, LoopInv, stage = "clean", line < Len(text), Good(line + 1)
  PROVE  Backwards <=> ~Forward(line + 1)
<1> DEFINE n == line + 1
<1>1. /\ line \in Nat /\ Len(text) \in Nat /\ n \in 1 .. Len(text)
      /\ Current = text[n] /\ Time = At(n) /\ Good(n)
  BY NextLine
<1> HIDE DEF n
<1>2. LatestRead /\ line = n - 1 /\ n \in Nat
  BY <1>1 DEF LoopInv, n
<1>3. At(n) \in Nat /\ text[n].sym \in Symbols
  BY <1>1, GoodType
<1>4. latest[text[n].sym] \in Int
  BY <1>3, ImportAssumption DEF ImportTypeOK, Horizon
<1>5. \A i \in 1 .. n - 1 : Good(i) => At(i) \in Nat
  BY <1>1, <1>2, GoodType
<1>6. ASSUME At(n) < latest[text[n].sym]
      PROVE  \E i \in 1 .. n - 1 : Good(i) /\ text[i].sym = text[n].sym /\ ~(At(i) <= At(n))
  <2>1. latest[text[n].sym] # -1
    BY <1>3, <1>6
  <2>2. PICK i \in 1 .. line : Good(i) /\ text[i].sym = text[n].sym /\ At(i) = latest[text[n].sym]
    BY <1>2, <1>3, <2>1 DEF LatestRead
  <2> QED
    BY <1>2, <1>3, <1>4, <1>6, <2>2
<1>7. ASSUME NEW i \in 1 .. n - 1, Good(i), text[i].sym = text[n].sym, ~(At(i) <= At(n))
      PROVE  At(n) < latest[text[n].sym]
  <2>1. At(i) <= latest[text[n].sym]
    BY <1>2, <1>7 DEF LatestRead
  <2> QED
    BY <1>3, <1>4, <1>5, <1>7, <2>1
<1> QED
  BY <1>1, <1>2, <1>6, <1>7 DEF Backwards, Forward, n

(* One more line: which of the earlier ones the policy still keeps, and    *)
(* whether it keeps that one.                                              *)
LEMMA KeepsNext ==
  ASSUME NEW n \in Nat, n >= 1
  PROVE  /\ \A i \in 1 .. n - 1 :
                Keeps(i, n) <=>
                    /\ Keeps(i, n - 1)
                    /\ ~(policy.duplicates = "keep_last" /\ Good(n) /\ Place(n) = Place(i))
         /\ Keeps(n, n) <=>
                /\ Good(n) /\ Forward(n)
                /\ \/ policy.duplicates = "keep_last"
                   \/ \A j \in 1 .. n - 1 : Good(j) /\ Place(j) = Place(n) => ~Forward(j)
<1>1. 1 .. n = (1 .. n - 1) \cup {n} /\ \A i \in 1 .. n - 1 : i < n /\ ~(n <= i) /\ ~(n < i)
  OBVIOUS
<1>2. n <= n /\ ~(n < n) /\ \A j \in 1 .. n - 1 : j <= n /\ j < n
  OBVIOUS
<1> QED
  BY <1>1, <1>2 DEF Keeps

LEMMA RowsKeptNext ==
  ASSUME UNCHANGED <<truth, text, policy>>, NEW n \in Nat, line' = n,
         LinesOf(rows') = {i \in 1 .. n : Keeps(i, n)}
  PROVE  RowsKept'
<1>1. \A i : /\ (Good(i)' <=> Good(i)) /\ Place(i)' = Place(i)
             /\ Forward(i)' <=> Forward(i)
  BY SameLines
<1> QED
  BY <1>1 DEF RowsKept, Keeps, LinesOf

(* A line that is rejected, and of which nothing else is remembered. *)
LEMMA LoopReject ==
  ASSUME ImportTypeOK, LoopInv, stage = "clean", line < Len(text), NEW why, Reject(why),
         UNCHANGED <<truth, text, declaration, policy>>,
         Good(line + 1) => Repeated /\ policy.duplicates # "keep_last"
  PROVE  LoopInv'
<1>1. PICK n \in Nat : n = line + 1
  BY NextLine
<1>2. /\ n \in 1 .. Len(text) /\ line = n - 1 /\ line' = n /\ n >= 1
      /\ 1 .. n = (1 .. n - 1) \cup {n} /\ n \notin 1 .. n - 1
      /\ Good(n) => Key = Place(n) /\ seen[Place(n)] # 0 /\ policy.duplicates # "keep_last"
  BY <1>1, NextLine DEF Reject, Repeated
<1>3. RowsOfLines /\ SeenInOrder /\ LatestRead /\ RowsKept /\ EveryLine
  BY DEF LoopInv
<1>4. \A i : /\ (Good(i)' <=> Good(i)) /\ At(i)' = At(i) /\ Place(i)' = Place(i)
             /\ Forward(i)' <=> Forward(i)
  BY SameLines
<1>5. UNCHANGED <<rows, dropped, seen, latest, text, stage>>
  BY DEF Reject
<1>6. ASSUME Good(n)
      PROVE  \E i \in 1 .. n - 1 : Good(i) /\ Forward(i) /\ Place(i) = Place(n)
  <2>1. Place(n) \in Symbols \X Horizon
    BY <1>2, <1>6, GoodType
  <2>2. seen[Place(n)] \in 1 .. n - 1
    BY <1>2, <1>6, <2>1 DEF ImportTypeOK
  <2> QED
    BY <1>2, <1>3, <2>1, <2>2 DEF SeenInOrder
<1>7. RowsOfLines'
  BY <1>3, <1>4, <1>5 DEF RowsOfLines
<1>8. SeenInOrder'
  <2>1. \A i \in 1 .. n : Good(i) /\ Forward(i) => seen[Place(i)] # 0
    BY <1>2, <1>3 DEF SeenInOrder
  <2>2. \A key \in Symbols \X Horizon, i \in 1 .. n :
            seen[key] = i => Good(i) /\ Forward(i) /\ Place(i) = key
    BY <1>2, <1>3 DEF SeenInOrder, ImportTypeOK
  <2> QED
    BY <1>2, <1>4, <1>5, <2>1, <2>2 DEF SeenInOrder
<1>9. LatestRead'
  <2>1. ASSUME Good(n)
        PROVE  At(n) <= latest[text[n].sym]
    BY <1>2, <1>3, <1>6, <2>1 DEF LatestRead, Place
  <2> QED
    BY <1>2, <1>3, <1>4, <1>5, <2>1 DEF LatestRead
<1>10. RowsKept'
  <2>1. ~Keeps(n, n)
    BY <1>2, <1>6, KeepsNext
  <2>2. \A i \in 1 .. n - 1 : Keeps(i, n) <=> Keeps(i, n - 1)
    BY <1>2, KeepsNext
  <2>3. LinesOf(rows') = {i \in 1 .. n - 1 : Keeps(i, n - 1)}
    BY <1>2, <1>3, <1>5 DEF RowsKept, LinesOf
  <2>4. LinesOf(rows') = {i \in 1 .. n : Keeps(i, n)}
    BY <1>2, <2>1, <2>2, <2>3
  <2> QED
    BY <1>2, <2>4, RowsKeptNext
<1>11. EveryLine'
  <2>1. LinesOf(rejected') = LinesOf(rejected) \cup {n}
    <3>1. rejected' = rejected \cup {[line |-> n, why |-> why]}
      BY <1>1 DEF Reject
    <3> QED
      BY <3>1, LinesAdded
  <2>2. LinesOf(rows') = LinesOf(rows) /\ LinesOf(dropped') = LinesOf(dropped)
    BY <1>5 DEF LinesOf
  <2> QED
    BY <1>2, <1>3, <2>1, <2>2 DEF EveryLine
<1> QED
  BY <1>5, <1>7, <1>8, <1>9, <1>10, <1>11 DEF LoopInv

(* The bars that a line accepted under keep_last replaces: those of its    *)
(* place, which are all of one line.                                       *)
LEMMA Replaced ==
  ASSUME ImportTypeOK, LoopInv, stage = "clean", line < Len(text), NEW n, n = line + 1, Good(n),
         Repeated => policy.duplicates = "keep_last"
  PROVE  /\ \A r \in Superseded : r \in rows /\ r.line = seen[Key]
         /\ LinesOf(rows \ Superseded) = {i \in LinesOf(rows) : Place(i) # Place(n)}
         /\ LinesOf(Superseded) = {i \in LinesOf(rows) : Place(i) = Place(n)}
         /\ policy.duplicates # "keep_last" => \A i \in LinesOf(rows) : Place(i) # Place(n)
<1>1. /\ n \in 1 .. Len(text) /\ Current = text[n] /\ Time = At(n) /\ Key = Place(n)
  BY NextLine
<1>2. RowsOfLines
  BY DEF LoopInv
<1>3. \A r \in rows : Place(r.line) = <<r.sym, r.time>> /\ seen[<<r.sym, r.time>>] = r.line /\ r.line \in 1 .. line
  BY <1>2 DEF RowsOfLines, ImportTypeOK
<1>4. \A r \in rows : Place(r.line) = Place(n) => r.sym = Current.sym /\ r.time = Time /\ seen[Key] = r.line
  BY <1>1, <1>3 DEF Place
<1>5. \A r \in rows : r.sym = Current.sym /\ r.time = Time => Place(r.line) = Place(n)
  BY <1>1, <1>3 DEF Place
<1>6. \A r \in rows : Place(r.line) = Place(n) => Repeated
  BY <1>3, <1>4 DEF Repeated, ImportTypeOK
<1>7. Superseded = {r \in rows : Place(r.line) = Place(n)}
  <2>1. CASE Repeated
    BY <1>4, <1>5, <2>1 DEF Superseded
  <2>2. CASE ~Repeated
    BY <1>6, <2>2 DEF Superseded
  <2> QED
    BY <2>1, <2>2
<1> QED
  BY <1>4, <1>6, <1>7 DEF LinesOf, Superseded

(* A line that is accepted, whether or not it goes backwards. *)
LEMMA LoopAccept ==
  ASSUME ImportTypeOK, LoopInv, stage = "clean", line < Len(text), Accept,
         UNCHANGED <<truth, text, declaration, policy>>
  PROVE  LoopInv'
<1>1. PICK n \in Nat : n = line + 1
  BY NextLine
<1>2. /\ n \in 1 .. Len(text) /\ line = n - 1 /\ line' = n /\ n >= 1
      /\ 1 .. n = (1 .. n - 1) \cup {n} /\ n \notin 1 .. n - 1
      /\ Good(n) /\ Key = Place(n) /\ Time = At(n) /\ Current = text[n]
      /\ stage' = "clean"
  BY <1>1, NextLine DEF Accept
<1>3. RowsOfLines /\ SeenInOrder /\ LatestRead /\ RowsKept /\ EveryLine
  BY DEF LoopInv
<1>4. \A i : /\ (Good(i)' <=> Good(i)) /\ At(i)' = At(i) /\ Place(i)' = Place(i)
             /\ (Forward(i)' <=> Forward(i))
  BY SameLines
<1>5. /\ Place(n) \in Symbols \X Horizon /\ At(n) \in Horizon /\ At(n) \in Nat
      /\ text[n].sym \in Symbols
  BY <1>2, GoodType
<1>6. Repeated <=> seen[Place(n)] # 0
  BY <1>2 DEF Repeated
<1>7. Repeated => policy.duplicates = "keep_last"
  BY DEF Accept
<1>8. Backwards <=> ~Forward(n)
  BY <1>1, <1>2, BackwardsForward
<1>9. /\ \A r \in Superseded : r \in rows /\ r.line = seen[Key]
      /\ LinesOf(rows \ Superseded) = {i \in LinesOf(rows) : Place(i) # Place(n)}
      /\ LinesOf(Superseded) = {i \in LinesOf(rows) : Place(i) = Place(n)}
      /\ policy.duplicates # "keep_last" => \A i \in LinesOf(rows) : Place(i) # Place(n)
  BY <1>1, <1>2, <1>7, Replaced
<1>10. LinesOf(rows \ Superseded) = {i \in 1 .. n - 1 : Keeps(i, n)}
  <2>1. \A i \in 1 .. n - 1 :
            Keeps(i, n) <=> /\ Keeps(i, n - 1)
                            /\ ~(policy.duplicates = "keep_last" /\ Good(n) /\ Place(n) = Place(i))
    BY <1>2, KeepsNext
  <2>2. LinesOf(rows) = {i \in 1 .. n - 1 : Keeps(i, n - 1)}
    BY <1>2, <1>3 DEF RowsKept
  <2> QED
    BY <1>2, <1>9, <2>1, <2>2
<1>11. LinesOf(dropped') = LinesOf(dropped) \cup {i \in LinesOf(rows) : Place(i) = Place(n)}
  <2>1. CASE Superseded = {}
    BY <1>9, <2>1 DEF Accept, LinesOf
  <2>2. CASE Superseded # {}
    <3>1. LinesOf(Superseded) = {seen[Key]}
      BY <1>9, <2>2 DEF LinesOf
    <3>2. dropped' = dropped \cup {[line |-> seen[Key], by |-> line + 1]}
      BY <2>2 DEF Accept
    <3>3. LinesOf(dropped') = LinesOf(dropped) \cup {seen[Key]}
      BY <3>2, LinesAdded
    <3> QED
      BY <1>9, <3>1, <3>3
  <2> QED
    BY <2>1, <2>2
<1>12. CASE Backwards
  <2>1. /\ rows' = rows \ Superseded /\ UNCHANGED <<seen, latest>>
        /\ rejected' = rejected \cup {[line |-> n, why |-> "out_of_order"]}
    BY <1>1, <1>12 DEF Accept
  <2>2. RowsOfLines'
    BY <1>3, <1>4, <2>1 DEF RowsOfLines
  <2>3. SeenInOrder'
    <3>1. \A i \in 1 .. n : Good(i) /\ Forward(i) => seen[Place(i)] # 0
      BY <1>2, <1>3, <1>8, <1>12 DEF SeenInOrder
    <3>2. \A key \in Symbols \X Horizon, i \in 1 .. n :
              seen[key] = i => Good(i) /\ Forward(i) /\ Place(i) = key
      BY <1>2, <1>3 DEF SeenInOrder, ImportTypeOK
    <3> QED
      BY <1>2, <1>4, <2>1, <3>1, <3>2 DEF SeenInOrder
  <2>4. LatestRead'
    <3>1. At(n) <= latest[text[n].sym]
      <4>1. latest[text[n].sym] \in Int
        BY <1>5, ImportAssumption DEF ImportTypeOK, Horizon
      <4>2. At(n) < latest[text[n].sym]
        BY <1>2, <1>12 DEF Backwards
      <4> QED
        BY <1>5, <4>1, <4>2
    <3> QED
      BY <1>2, <1>3, <1>4, <2>1, <3>1 DEF LatestRead
  <2>5. RowsKept'
    <3>1. ~Keeps(n, n)
      BY <1>8, <1>12 DEF Keeps
    <3>2. LinesOf(rows') = {i \in 1 .. n : Keeps(i, n)}
      BY <1>2, <1>10, <2>1, <3>1
    <3> QED
      BY <1>2, <3>2, RowsKeptNext
  <2>6. EveryLine'
    <3>1. LinesOf(rejected') = LinesOf(rejected) \cup {n}
      BY <2>1, LinesAdded
    <3>2. LinesOf(rows') = {i \in LinesOf(rows) : Place(i) # Place(n)}
      BY <1>9, <2>1
    <3> QED
      BY <1>2, <1>3, <1>11, <3>1, <3>2 DEF EveryLine
  <2> QED
    BY <1>2, <2>2, <2>3, <2>4, <2>5, <2>6 DEF LoopInv
<1>13. CASE ~Backwards
  <2>1. /\ rows' = (rows \ Superseded) \cup {CanonicalRow}
        /\ seen' = [seen EXCEPT ![Place(n)] = n]
        /\ latest' = [latest EXCEPT ![text[n].sym] = IF @ > At(n) THEN @ ELSE At(n)]
        /\ rejected' = rejected
    BY <1>1, <1>2, <1>13 DEF Accept
  <2>2. /\ CanonicalRow.line = n /\ CanonicalRow.label = text[n].label
        /\ <<CanonicalRow.sym, CanonicalRow.time>> = Place(n)
    BY <1>1, <1>2 DEF CanonicalRow, Place
  <2>3. seen'[Place(n)] = n /\ \A key \in Symbols \X Horizon : key # Place(n) => seen'[key] = seen[key]
    BY <1>5, <2>1 DEF ImportTypeOK
  <2>4. RowsOfLines'
    <3>1. ASSUME NEW r \in rows \ Superseded
          PROVE  /\ Good(r.line) /\ Place(r.line) = <<r.sym, r.time>>
                 /\ r.label = text[r.line].label
                 /\ seen'[<<r.sym, r.time>>] = r.line
      <4>1. /\ Good(r.line) /\ Place(r.line) = <<r.sym, r.time>>
            /\ r.label = text[r.line].label
            /\ seen[<<r.sym, r.time>>] = r.line
        BY <1>3 DEF RowsOfLines
      <4>2. r.line \in LinesOf(rows \ Superseded)
        BY DEF LinesOf
      <4>3. Place(r.line) # Place(n)
        BY <1>9, <4>2
      <4>4. r.line \in 1 .. Len(text)
        BY <1>2 DEF ImportTypeOK
      <4>5. Place(r.line) \in Symbols \X Horizon
        BY <4>1, <4>4, GoodType
      <4> QED
        BY <2>3, <4>1, <4>3, <4>5
    <3> QED
      BY <1>2, <1>4, <2>1, <2>2, <2>3, <3>1 DEF RowsOfLines
  <2>5. SeenInOrder'
    <3>1. \A i \in 1 .. n : Good(i) => Place(i) \in Symbols \X Horizon
      BY <1>2, GoodType
    <3>2. \A i \in 1 .. n : Good(i) /\ Forward(i) => seen'[Place(i)] # 0
      BY <1>2, <1>3, <2>3, <3>1 DEF SeenInOrder
    <3>3. \A key \in Symbols \X Horizon, i \in 1 .. n :
              seen'[key] = i => Good(i) /\ Forward(i) /\ Place(i) = key
      BY <1>2, <1>3, <1>8, <1>13, <2>3 DEF SeenInOrder, ImportTypeOK
    <3> QED
      BY <1>2, <1>4, <3>2, <3>3 DEF SeenInOrder
  <2>6. LatestRead'
    <3> DEFINE s == text[n].sym
    <3>1. /\ latest'[s] = IF latest[s] > At(n) THEN latest[s] ELSE At(n)
          /\ \A x \in Symbols : x # s => latest'[x] = latest[x]
          /\ latest[s] \in Int
      BY <1>5, <2>1, ImportAssumption DEF ImportTypeOK, Horizon
    <3>2. \A i \in 1 .. n : Good(i) => At(i) \in Nat /\ text[i].sym \in Symbols
      BY <1>2, GoodType
    <3>3. \A i \in 1 .. n : Good(i) => At(i) <= latest'[text[i].sym]
      BY <1>2, <1>3, <1>5, <3>1, <3>2 DEF LatestRead
    <3>4. \A x \in Symbols : latest'[x] # -1 =>
              \E i \in 1 .. n : Good(i) /\ text[i].sym = x /\ At(i) = latest'[x]
      BY <1>2, <1>3, <1>5, <3>1 DEF LatestRead
    <3> QED
      BY <1>2, <1>4, <3>3, <3>4 DEF LatestRead
  <2>7. RowsKept'
    <3>1. Keeps(n, n)
      <4>1. CASE policy.duplicates = "keep_last"
        BY <1>2, <1>8, <1>13, <4>1, KeepsNext
      <4>2. CASE policy.duplicates # "keep_last"
        <5>1. \A j \in 1 .. n - 1 : Good(j) /\ Place(j) = Place(n) => ~Forward(j)
          BY <1>2, <1>3, <1>6, <1>7, <4>2 DEF SeenInOrder
        <5> QED
          BY <1>2, <1>8, <1>13, <5>1, KeepsNext
      <4> QED
        BY <4>1, <4>2
    <3>2. LinesOf(rows') = LinesOf(rows \ Superseded) \cup {n}
      BY <2>1, <2>2, LinesAdded
    <3>3. LinesOf(rows') = {i \in 1 .. n : Keeps(i, n)}
      BY <1>2, <1>10, <3>1, <3>2
    <3> QED
      BY <1>2, <3>3, RowsKeptNext
  <2>8. EveryLine'
    <3>1. LinesOf(rows') = {i \in LinesOf(rows) : Place(i) # Place(n)} \cup {n}
      BY <1>9, <2>1, <2>2, LinesAdded
    <3>2. LinesOf(rejected') = LinesOf(rejected)
      BY <2>1
    <3> QED
      BY <1>2, <1>3, <1>11, <3>1, <3>2 DEF EveryLine
  <2> QED
    BY <1>2, <2>4, <2>5, <2>6, <2>7, <2>8 DEF LoopInv
<1> QED
  BY <1>12, <1>13

LEMMA LoopRead ==
  ASSUME ImportTypeOK, LoopInv, ReadLine
  PROVE  LoopInv'
<1>1. /\ stage = "clean" /\ line < Len(text) /\ UNCHANGED <<truth, text, declaration, policy>>
      /\ Good(line + 1) <=> UsableLine(Current) /\ Readable
  BY NextLine DEF ReadLine
<1>2. CASE Unusable
  BY <1>1, <1>2, LoopReject DEF Unusable
<1>3. CASE Duplicate
  <2>1. CASE policy.duplicates = "keep_first" /\ Reject("duplicate")
    BY <1>1, <1>3, <2>1, LoopReject DEF Duplicate
  <2>2. CASE stage' = "failed"
    BY <2>2 DEF LoopInv
  <2> QED
    BY <1>3, <2>1, <2>2 DEF Duplicate
<1>4. CASE Accept
  BY <1>1, <1>4, LoopAccept
<1> QED
  BY <1>2, <1>3, <1>4 DEF ReadLine

LEMMA LoopDeclare ==
  ASSUME ImportTypeOK, LoopInv, NEW d \in Declarations, NEW p \in Policies, Declare(d, p)
  PROVE  LoopInv'
<1>1. Unread' /\ stage' \in {"failed", "clean", "refused"}
  BY DEF LoopInv, Declare, Unread, read
<1>2. (RowsOfLines /\ SeenInOrder /\ LatestRead /\ RowsKept /\ EveryLine)'
  <2>1. 1 .. line' = {}
    BY <1>1 DEF Unread
  <2> QED
    BY <1>1, <2>1 DEF Unread, RowsOfLines, SeenInOrder, LatestRead, RowsKept, EveryLine, LinesOf
<1> QED
  BY <1>1, <1>2 DEF LoopInv

LEMMA LoopCanonicalize ==
  ASSUME ImportTypeOK, LoopInv, Canonicalize
  PROVE  LoopInv'
<1>1. CASE stage' = "failed"
  BY <1>1 DEF LoopInv
<1>2. CASE /\ stage' = "pending"
           /\ rows' = {[r EXCEPT !.time = EndOf(r.time)] : r \in rows}
  <2>1. LinesOf(rows') = LinesOf(rows)
    <3>1. \A r \in rows : [r EXCEPT !.time = EndOf(r.time)].line = r.line
      BY DEF ImportTypeOK
    <3> QED
      BY <1>2, <3>1 DEF LinesOf
  <2>2. RowsKept /\ EveryLine
    BY DEF Canonicalize, LoopInv
  <2>3. UNCHANGED <<truth, text, policy, line, rejected, dropped>> /\ line \in Nat
    BY DEF Canonicalize, ImportTypeOK
  <2>4. RowsKept'
    BY <2>1, <2>2, <2>3, RowsKeptNext DEF RowsKept
  <2>5. EveryLine'
    BY <2>1, <2>2, <2>3 DEF EveryLine, LinesOf
  <2> QED
    BY <1>2, <2>4, <2>5 DEF LoopInv
<1> QED
  BY <1>1, <1>2 DEF Canonicalize

LEMMA LoopNext ==
  ASSUME ImportTypeOK, LoopInv, [ImportNext]_importVars
  PROVE  LoopInv'
<1>1. ASSUME NEW l \in Lines, Write(l)
      PROVE  LoopInv'
  BY <1>1 DEF LoopInv, Write, read, Unread
<1>2. CASE UNCHANGED importVars
  <2>1. UNCHANGED <<truth, text, policy, stage, line, rows, rejected, dropped, seen, latest>>
    BY <1>2 DEF importVars
  <2>2. \A i : /\ (Good(i)' <=> Good(i)) /\ At(i)' = At(i) /\ Place(i)' = Place(i)
               /\ (Forward(i)' <=> Forward(i))
    BY <2>1, SameLines
  <2>3. RowsKept => RowsKept'
    BY <2>1, RowsKeptNext DEF RowsKept, ImportTypeOK
  <2> QED
    BY <2>1, <2>2, <2>3
    DEF LoopInv, Unread, RowsOfLines, SeenInOrder, LatestRead, EveryLine, LinesOf
<1> QED
  BY <1>1, <1>2, LoopRead, LoopDeclare, LoopCanonicalize DEF ImportNext

LEMMA LoopSafe == ImportSpec => []LoopInv
<1>1. ImportInit => LoopInv
  BY DEF ImportInit, LoopInv, Unread
<1>2. ImportTypeOK /\ LoopInv /\ [ImportNext]_importVars => LoopInv'
  BY LoopNext
<1> QED
  BY <1>1, <1>2, ImportTypeCorrect, PTL DEF ImportSpec

(* clean: every line read is a row, is rejected with a reason, or was      *)
(* superseded by a later duplicate.                                        *)
THEOREM EveryLineAccounted == ImportSpec => []Accounted
<1>1. LoopInv => Accounted
  BY DEF LoopInv, EveryLine, Accounted
<1> QED
  BY <1>1, LoopSafe, PTL

(* clean: the rows are the ones that the declared policies on duplicates   *)
(* and on order describe, over the whole file.                             *)
THEOREM RowsKeptAsDeclared == ImportSpec => []KeptAsDeclared
<1>1. ASSUME ImportTypeOK, LoopInv, stage \in {"clean", "pending"}
      PROVE  KeptAsDeclared
  <2> DEFINE Read == {i \in 1 .. line : /\ UsableLine(text[i])
                                        /\ Cardinality(Instants(text[i].label)) = 1}
             InOrder(i) == policy.ordered =>
                               \A j \in {k \in Read : text[k].sym = text[i].sym} : j < i => At(j) <= At(i)
             Same(i) == {j \in {k \in Read : text[k].sym = text[i].sym} : At(j) = At(i)}
  <2>1. LinesOf(rows) = {i \in 1 .. line : Keeps(i, line)} /\ line \in Nat
    BY <1>1 DEF LoopInv, RowsKept, ImportTypeOK
  <2>2. Read = {i \in 1 .. line : Good(i)}
    BY DEF Good
  <2>3. ASSUME NEW i \in 1 .. line
        PROVE  Forward(i) <=> InOrder(i)
    <3>1. \A j : j \in 1 .. i - 1 <=> j \in 1 .. line /\ j < i
      BY <2>1
    <3> QED
      BY <2>2, <3>1 DEF Forward
  <2>4. ASSUME NEW i \in 1 .. line
        PROVE  Keeps(i, line) <=>
                   /\ i \in Read /\ InOrder(i)
                   /\ \A j \in Same(i) : IF policy.duplicates = "keep_last" THEN j <= i
                                         ELSE j < i => ~InOrder(j)
    <3> HIDE DEF InOrder
    <3>1. \A j : j \in Same(i) <=> j \in 1 .. line /\ Good(j) /\ Place(j) = Place(i)
      BY <2>2 DEF Place
    <3> HIDE DEF Same
    <3> QED
      BY <2>2, <2>3, <3>1 DEF Keeps
  <2>5. LinesOf(rows) = {i \in Read : /\ InOrder(i)
                                      /\ \A j \in Same(i) : IF policy.duplicates = "keep_last" THEN j <= i
                                                            ELSE j < i => ~InOrder(j)}
    <3> HIDE DEF InOrder, Same
    <3> QED
      BY <2>1, <2>2, <2>4
  <2> QED
    BY <2>5 DEF KeptAsDeclared, At
<1>2. ImportTypeOK /\ LoopInv => KeptAsDeclared
  <2>1. stage \notin {"clean", "pending"} => KeptAsDeclared
    BY DEF KeptAsDeclared
  <2> QED
    BY <1>1, <2>1
<1> QED
  BY <1>2, ImportTypeCorrect, LoopSafe, PTL
-----------------------------------------------------------------------------
(* The order of day and month is the one a line gives away, or unknown;    *)
(* what it is does not change once the file is there.                      *)
LEMMA FormatWritten ==
  ASSUME truth \in Truths
  PROVE  Format \in {Nothing, truth.written}
<1>1. truth.written \in {"iso", "dmy", "mdy"}
  BY ImportAssumption
<1> QED
  BY <1>1 DEF Format, FirstBig, SecondBig

FormatKnown == stage \in {"clean", "pending"} => Format # Nothing

(* _detect_timestamp_format: whatever lines its sample holds, no accepted  *)
(* import reads day and month in the other order.                          *)
THEOREM DatesAsWritten == ImportSpec => []DatesNeverSwapped
<1>1. ImportInit => FormatKnown
  BY DEF ImportInit, FormatKnown
<1>2. ASSUME FormatKnown, [ImportNext]_importVars
      PROVE  FormatKnown'
  <2>1. UNCHANGED <<truth, text>> => Format' = Format
    BY DEF Format, Sample, FirstBig, SecondBig
  <2>2. ASSUME NEW l \in Lines, Write(l)
        PROVE  FormatKnown'
    BY <2>2 DEF Write, FormatKnown
  <2>3. ASSUME NEW d \in Declarations, NEW p \in Policies, Declare(d, p)
        PROVE  FormatKnown'
    BY <2>1, <2>3 DEF Declare, FormatKnown
  <2>4. CASE ReadLine
    BY <1>2, <2>1, <2>4 DEF ReadLine, FormatKnown
  <2>5. CASE Canonicalize
    BY <1>2, <2>1, <2>5 DEF Canonicalize, FormatKnown
  <2>6. CASE UNCHANGED importVars
    BY <1>2, <2>1, <2>6 DEF importVars, FormatKnown
  <2> QED
    BY <1>2, <2>2, <2>3, <2>4, <2>5, <2>6 DEF ImportNext
<1>3. ImportTypeOK /\ FormatKnown => DatesNeverSwapped
  BY FormatWritten DEF ImportTypeOK, FormatKnown, DatesNeverSwapped
<1> QED
  BY <1>1, <1>2, <1>3, ImportTypeCorrect, PTL DEF ImportSpec
-----------------------------------------------------------------------------
(* Bars of one instrument do not overlap in the file. *)
TextFits ==
    \A i, j \in 1 .. Len(text) :
        text[i].sym = text[j].sym /\ Dated(text[i]) /\ Dated(text[j]) =>
            \/ text[i].label = text[j].label
            \/ text[i].label - text[j].label >= truth.unit[text[i].sym]
            \/ text[j].label - text[i].label >= truth.unit[text[i].sym]

LEMMA TextFitsNext ==
  ASSUME ImportTypeOK, TextFits, [ImportNext]_importVars
  PROVE  TextFits'
<1>1. ASSUME NEW l \in Lines, Write(l)
      PROVE  TextFits'
  <2>1. /\ Len(text') = Len(text) + 1 /\ text'[Len(text) + 1] = l /\ truth' = truth
        /\ \A i \in 1 .. Len(text) : text'[i] = text[i]
        /\ Len(text) \in Nat
    BY <1>1 DEF ImportTypeOK, Write
  <2>2. 1 .. Len(text') = (1 .. Len(text)) \cup {Len(text) + 1}
    BY <2>1
  <2> QED
    BY <1>1, <2>1, <2>2 DEF TextFits, Write, Fits
<1>2. UNCHANGED <<truth, text>> => TextFits'
  BY DEF TextFits
<1> QED
  BY <1>1, <1>2 DEF ImportNext, Declare, ReadLine, Canonicalize, importVars

(* A row is where its line says; positions of rows are the labels of lines. *)
LEMMA RowPosition ==
  ASSUME ImportTypeOK, LoopInv, stage = "clean", NEW r \in rows
  PROVE  /\ r.line \in 1 .. Len(text) /\ r.sym = text[r.line].sym /\ r.label = text[r.line].label
         /\ Dated(text[r.line])
         /\ r.sym \in Symbols /\ r.time \in Int /\ r.label \in Int
         /\ Wall(r.time) = r.label /\ Position(r.time) = r.label
<1>1. /\ r.line \in 1 .. Len(text) /\ r.sym \in Symbols /\ r.time \in Int /\ r.label \in Int
  BY ImportAssumption DEF ImportTypeOK, Labels
<1>2. Good(r.line) /\ Place(r.line) = <<r.sym, r.time>> /\ r.label = text[r.line].label
  BY DEF LoopInv, RowsOfLines
<1>3. r.sym = text[r.line].sym /\ r.time = At(r.line)
  BY <1>2 DEF Place
<1>4. Wall(r.time) = r.label
  BY <1>1, <1>2, <1>3, GoodType DEF Instants
<1>5. truth.kind \in {"date", "naive", "aware"}
  BY ImportAssumption DEF ImportTypeOK
<1>6. Position(r.time) = r.label
  BY <1>4, <1>5 DEF Position, Wall, Zoned
<1>7. Dated(text[r.line])
  BY <1>2 DEF Good, UsableLine, Filled, Dated
<1> QED
  BY <1>1, <1>2, <1>3, <1>4, <1>6, <1>7

(* An interval that two bars of an instrument show is not shorter than     *)
(* that instrument's bars.                                                 *)
LEMMA ShownInterval ==
  ASSUME ImportTypeOK, LoopInv, TextFits, stage = "clean", NEW s \in Symbols,
         declaration.unit \in Gaps(s)
  PROVE  declaration.unit >= truth.unit[s]
<1>1. declaration.unit \in Nat \ {0} /\ truth.unit[s] \in Nat \ {0}
  BY ImportAssumption DEF ImportTypeOK
<1>2. PICK p \in Positions(s) : p + declaration.unit \in Positions(s)
  BY DEF Gaps
<1>3. PICK r \in rows : r.sym = s /\ Position(r.time) = p
  BY <1>2 DEF Positions
<1>4. PICK x \in rows : x.sym = s /\ Position(x.time) = p + declaration.unit
  BY <1>2 DEF Positions
<1>5. PICK i \in 1 .. Len(text) :
        text[i].sym = s /\ text[i].label = p /\ p \in Int /\ Dated(text[i])
  BY <1>3, RowPosition
<1>6. PICK j \in 1 .. Len(text) :
        text[j].sym = s /\ text[j].label = p + declaration.unit /\ Dated(text[j])
  BY <1>4, RowPosition
<1>7. \/ text[i].label = text[j].label
      \/ text[i].label - text[j].label >= truth.unit[s]
      \/ text[j].label - text[i].label >= truth.unit[s]
  BY <1>5, <1>6 DEF TextFits
<1> QED
  BY <1>1, <1>5, <1>6, <1>7

(* check_spacing, _to_interval_end: when a bar is stamped, its interval is *)
(* over, unless the user vouched for its instrument.                       *)
THEOREM NoBarBeforeItsEnd == ImportSpec => []NoLookahead
<1>1. ImportInit => TextFits /\ NoLookahead
  BY DEF ImportInit, TextFits, NoLookahead
<1>2. ASSUME ImportTypeOK, LoopInv, TextFits, Canonicalize, stage' = "pending"
      PROVE  NoLookahead'
  <2>1. /\ stage = "clean" /\ rows' = {[r EXCEPT !.time = EndOf(r.time)] : r \in rows}
        /\ \A s \in Present : Spans(s)
        /\ declaration.confirmed = Ambiguous
        /\ UNCHANGED <<truth, declaration>>
    BY <1>2 DEF Canonicalize, Confirmed
  <2> DEFINE u == declaration.unit
  <2>2. /\ u \in Nat \ {0} /\ \A s \in Symbols : truth.unit[s] \in Nat \ {0}
        /\ truth.shift \in Int /\ Change \in Int
    BY <1>2, <2>1, ImportAssumption DEF ImportTypeOK
  <2>3. ASSUME NEW r \in rows, declaration.confirmed = {} \/ r.sym \notin declaration.confirmed
        PROVE  Wall(EndOf(r.time)) >= r.label + (IF declaration.convention = "interval_start"
                                                 THEN truth.unit[r.sym] ELSE 0)
    <3>1. /\ Wall(r.time) = r.label /\ r.time \in Int /\ r.label \in Int /\ r.sym \in Symbols
      BY <1>2, <2>1, RowPosition
    <3>2. CASE declaration.convention # "interval_start"
      BY <3>1, <3>2 DEF EndOf
    <3>3. CASE declaration.convention = "interval_start"
      <4>1. r.sym \in Present
        BY DEF Present
      <4>2. u \in Gaps(r.sym)
        BY <2>1, <2>3, <4>1 DEF Ambiguous
      <4>3. u >= truth.unit[r.sym]
        BY <1>2, <2>1, <3>1, <4>2, ShownInterval
      <4>4. truth.kind = "naive" => Offset(r.time) = Offset(r.time + u)
        BY <2>1, <3>3, <4>1 DEF Spans
      <4>5. Offset(r.time) \in Int
        BY <2>2 DEF Offset
      <4>6. Wall(r.time + u) = Wall(r.time) + u
        BY <2>2, <3>1, <4>4, <4>5 DEF Wall
      <4> QED
        BY <2>2, <3>1, <3>3, <4>3, <4>6 DEF EndOf
    <3> QED
      BY <3>2, <3>3
  <2>4. \A t : Wall(t)' = Wall(t)
    BY <2>1 DEF Wall, Offset
  <2>5. ASSUME NEW x \in rows',
               Evidence'.status = "validated" \/ x.sym \notin Evidence'.user_declared
        PROVE  Wall(x.time)' >= x.label + (IF declaration'.convention = "interval_start"
                                           THEN truth'.unit[x.sym] ELSE 0)
    <3>1. PICK r \in rows : x = [r EXCEPT !.time = EndOf(r.time)]
      BY <2>1
    <3>2. x.sym = r.sym /\ x.label = r.label /\ x.time = EndOf(r.time)
      BY <1>2, <3>1 DEF ImportTypeOK
    <3>3. declaration.confirmed = {} \/ r.sym \notin declaration.confirmed
      BY <1>2, <2>1, <2>5, <3>2 DEF Evidence, IntervalStatus
    <3> QED
      BY <2>1, <2>3, <2>4, <3>2, <3>3
  <2> QED
    BY <2>5 DEF NoLookahead
<1>3. ASSUME ImportTypeOK, LoopInv, TextFits, NoLookahead, [ImportNext]_importVars
      PROVE  NoLookahead'
  <2>1. CASE stage' # "pending"
    BY <2>1 DEF NoLookahead
  <2>2. CASE UNCHANGED importVars
    <3>1. UNCHANGED <<truth, declaration, rows, stage>>
      BY <2>2 DEF importVars
    <3>2. \A t : Wall(t)' = Wall(t)
      BY <3>1 DEF Wall, Offset
    <3> QED
      BY <1>3, <3>1, <3>2 DEF NoLookahead, Evidence, IntervalStatus
  <2>3. CASE ImportNext /\ stage' = "pending"
    <3>1. Canonicalize
      BY <2>3 DEF ImportNext, Write, Declare, ReadLine, Unusable, Duplicate, Accept, Reject
    <3> QED
      BY <1>2, <1>3, <2>3, <3>1
  <2> QED
    BY <1>3, <2>1, <2>2, <2>3
<1>4. ImportTypeOK /\ LoopInv /\ TextFits /\ NoLookahead /\ [ImportNext]_importVars
          => TextFits' /\ NoLookahead'
  BY <1>3, TextFitsNext
<1> QED
  BY <1>1, <1>4, ImportTypeCorrect, LoopSafe, PTL DEF ImportSpec
-----------------------------------------------------------------------------
(***************************************************************************)
(* The quality score.                                                      *)
(***************************************************************************)
LEMMA ImageFinite ==
  ASSUME NEW S, IsFiniteSet(S), NEW f, DOMAIN f = S, f \in [S -> {f[x] : x \in S}]
  PROVE  IsFiniteSet({f[x] : x \in S})
<1>1. f \in Surjection(S, {f[x] : x \in S})
  BY DEF Surjection
<1> QED
  BY <1>1, FS_Surjection

(* No more lines are rejected than are read; a file that is read has one.  *)
FewRejected ==
    /\ IsFiniteSet(rows) /\ IsFiniteSet(rejected)
    /\ Cardinality(rejected) <= line
    /\ stage \in {"clean", "pending"} => text # <<>>

LEMMA FewRejectedNext ==
  ASSUME ImportTypeOK, FewRejected, [ImportNext]_importVars
  PROVE  FewRejected'
<1>1. line \in Nat /\ Cardinality(rejected) \in Nat
  BY FS_CardinalityType DEF ImportTypeOK, FewRejected
<1>2. ASSUME NEW l \in Lines, Write(l)
      PROVE  FewRejected'
  BY <1>2 DEF FewRejected, Write, read
<1>3. ASSUME NEW d \in Declarations, NEW p \in Policies, Declare(d, p)
      PROVE  FewRejected'
  BY <1>3 DEF FewRejected, Declare, read
<1>4. CASE ReadLine
  <2>1. stage = "clean" /\ text # <<>> /\ text' = text
    BY <1>4 DEF ReadLine, FewRejected
  <2>2. ASSUME NEW x, rejected' = rejected \cup {x}, line' = line + 1
        PROVE  IsFiniteSet(rejected') /\ Cardinality(rejected') <= line'
    <3>1. /\ IsFiniteSet(rejected')
          /\ Cardinality(rejected') = IF x \in rejected THEN Cardinality(rejected)
                                      ELSE Cardinality(rejected) + 1
      BY <2>2, FS_AddElement DEF FewRejected
    <3> QED
      BY <1>1, <2>2, <3>1 DEF FewRejected
  <2>3. ASSUME NEW why, Reject(why)
        PROVE  FewRejected'
    BY <2>1, <2>2, <2>3 DEF Reject, FewRejected
  <2>4. CASE rows' = {} /\ UNCHANGED <<line, rejected, dropped, seen, latest>>
    BY <2>1, <2>4, FS_EmptySet DEF FewRejected
  <2>5. CASE Accept
    <3>1. IsFiniteSet(rows \ Superseded)
      BY FS_Subset DEF FewRejected
    <3>2. IsFiniteSet((rows \ Superseded) \cup {CanonicalRow})
      BY <3>1, FS_AddElement
    <3>3. IsFiniteSet(rows')
      BY <2>5, <3>1, <3>2 DEF Accept
    <3>4. CASE rejected' = rejected
      BY <1>1, <2>1, <2>5, <3>3, <3>4 DEF Accept, FewRejected
    <3>5. CASE rejected' # rejected
      BY <2>1, <2>2, <2>5, <3>3, <3>5 DEF Accept, FewRejected
    <3> QED
      BY <3>4, <3>5
  <2> QED
    BY <1>4, <2>3, <2>4, <2>5 DEF ReadLine, Unusable, Duplicate
<1>5. CASE Canonicalize
  <2>1. UNCHANGED <<text, line, rejected>> /\ stage = "clean" /\ text # <<>>
    BY <1>5 DEF Canonicalize, FewRejected
  <2>2. CASE rows' = {}
    BY <2>1, <2>2, FS_EmptySet DEF FewRejected
  <2>3. CASE rows' = {[r EXCEPT !.time = EndOf(r.time)] : r \in rows}
    <3> DEFINE f == [r \in rows |-> [r EXCEPT !.time = EndOf(r.time)]]
    <3>1. f \in [rows -> {f[r] : r \in rows}] /\ DOMAIN f = rows /\ rows' = {f[r] : r \in rows}
      BY <2>3
    <3> HIDE DEF f
    <3>2. IsFiniteSet(rows')
      BY <3>1, ImageFinite DEF FewRejected
    <3> QED
      BY <2>1, <3>2 DEF FewRejected
  <2> QED
    BY <1>5, <2>2, <2>3 DEF Canonicalize
<1>6. CASE UNCHANGED importVars
  BY <1>6 DEF importVars, FewRejected
<1> QED
  BY <1>2, <1>3, <1>4, <1>5, <1>6 DEF ImportNext

LEMMA GapsCounted ==
  ASSUME FewRejected
  PROVE  GapCount \in Nat
<1> DEFINE f == [r \in rows |-> r.time]
<1>1. f \in [rows -> {f[r] : r \in rows}] /\ DOMAIN f = rows /\ Times = {f[r] : r \in rows}
  BY DEF Times
<1> HIDE DEF f
<1>2. IsFiniteSet(Times)
  BY <1>1, ImageFinite DEF FewRejected
<1> DEFINE wide == {t \in Followed : 20 * Gap(t) > 19 * TwiceTypical}
<1>3. wide \in SUBSET Times
  BY DEF Followed
<1>4. Cardinality(wide) \in Nat
  BY <1>2, <1>3, FS_Subset, FS_CardinalityType
<1> QED
  BY <1>4 DEF GapCount

(* The lines rejected for some reasons, and for others. *)
LEMMA ReasonsApart ==
  ASSUME FewRejected, NEW V, NEW W, V \cap W = {}
  PROVE  /\ Rejections(V) \in Nat /\ Rejections(W) \in Nat
         /\ Rejections(V \cup W) = Rejections(V) + Rejections(W)
         /\ Rejections(V) <= Cardinality(rejected)
<1> DEFINE of(U) == {x \in rejected : x.why \in U}
<1>1. IsFiniteSet(of(V)) /\ IsFiniteSet(of(W)) /\ Cardinality(of(V)) <= Cardinality(rejected)
  BY FS_Subset DEF FewRejected
<1>2. of(V \cup W) = of(V) \cup of(W) /\ of(V) \cap of(W) = {}
  OBVIOUS
<1>3. Cardinality(of(V)) \in Nat /\ Cardinality(of(W)) \in Nat /\ Cardinality({}) = 0
  BY <1>1, FS_CardinalityType, FS_EmptySet
<1>4. Cardinality(of(V) \cup of(W)) = Cardinality(of(V)) + Cardinality(of(W))
                                       - Cardinality(of(V) \cap of(W))
  BY <1>1, FS_Union
<1>5. /\ Rejections(V) = Cardinality(of(V)) /\ Rejections(W) = Cardinality(of(W))
      /\ Rejections(V \cup W) = Cardinality(of(V \cup W))
  BY DEF Rejections
<1> HIDE DEF of
<1>6. Rejections(V \cup W) = Cardinality(of(V)) + Cardinality(of(W)) - 0
  BY <1>2, <1>3, <1>4, <1>5
<1> QED
  BY <1>1, <1>3, <1>5, <1>6

(* A line counts once as rejected and once for its reason, so that the     *)
(* penalties of a file that can be built do not reach the whole score.     *)
LEMMA PenaltyBounded ==
  ASSUME ImportTypeOK, FewRejected, stage = "pending"
  PROVE  Penalty \in Int /\ Penalty < 100 * Total
<1> DEFINE A == {"duplicate"}
           B == {"invalid_price", "non_positive_price", "inconsistent_ohlc"}
           C == {"malformed_row"}
           D == {"out_of_order"}
<1>1. A \cap B = {} /\ (A \cup B) \cap C = {} /\ (A \cup B \cup C) \cap D = {}
      /\ (A \cup B \cup C \cup D) \cap {} = {}
  OBVIOUS
<1> HIDE DEF A, B, C, D
<1>2. /\ Rejections(A) \in Nat /\ Rejections(B) \in Nat
      /\ Rejections(A \cup B) = Rejections(A) + Rejections(B)
  BY <1>1, ReasonsApart
<1>3. /\ Rejections(C) \in Nat
      /\ Rejections(A \cup B \cup C) = Rejections(A \cup B) + Rejections(C)
  BY <1>1, ReasonsApart
<1>4. /\ Rejections(D) \in Nat
      /\ Rejections(A \cup B \cup C \cup D) = Rejections(A \cup B \cup C) + Rejections(D)
  BY <1>1, ReasonsApart
<1>5. Rejections(A \cup B \cup C \cup D) <= Cardinality(rejected)
  BY <1>1, ReasonsApart
<1>6. Cardinality(rejected) \in Nat /\ Total \in Nat /\ Total >= 1 /\ Cardinality(rejected) <= Total
  <2>1. Len(text) \in Nat /\ Len(text) # 0 /\ line \in Nat /\ line <= Len(text)
    BY DEF ImportTypeOK, FewRejected
  <2>2. Cardinality(rejected) \in Nat /\ Cardinality(rejected) <= line
    BY FS_CardinalityType DEF FewRejected
  <2> QED
    BY <2>1, <2>2 DEF Total
<1> DEFINE gaps == IF 10 * GapCount < 5 * Total THEN 10 * GapCount ELSE 5 * Total
           odd == IF Irregular THEN 3 * Total ELSE 0
           R == Cardinality(rejected)
           a == Rejections(A)
           b == Rejections(B)
           c == Rejections(C)
           d == Rejections(D)
<1>7. gaps \in Nat /\ gaps <= 5 * Total
  BY <1>6, GapsCounted
<1>8. odd \in Nat /\ odd <= 3 * Total
  BY <1>6
<1>9. Penalty = 45 * R + 15 * a + 20 * b + 15 * c + 10 * d + gaps + odd
  BY DEF Penalty, A, B, C, D
<1>10. a + b + c + d <= R /\ R \in Nat /\ R <= Total
  BY <1>2, <1>3, <1>4, <1>5, <1>6
<1>11. a \in Nat /\ b \in Nat /\ c \in Nat /\ d \in Nat
  BY <1>2, <1>3, <1>4
<1> HIDE DEF a, b, c, d, R, gaps, odd
<1>12. 45 * R + 15 * a + 20 * b + 15 * c + 10 * d <= 65 * R
  BY <1>10, <1>11
<1> QED
  BY <1>6, <1>7, <1>8, <1>9, <1>10, <1>11, <1>12

(* analyse, _score: only what cannot be built scores 0; the penalties of   *)
(* lines that count under several headings never add up to it.             *)
THEOREM ScoreOfBuildable == ImportSpec => []ScoreTellsBuildable
<1>1. ImportInit => FewRejected
  BY FS_EmptySet DEF ImportInit, FewRejected
<1>2. ImportTypeOK /\ FewRejected /\ [ImportNext]_importVars => FewRejected'
  BY FewRejectedNext
<1>3. ASSUME ImportTypeOK, FewRejected
      PROVE  ScoreTellsBuildable
  <2>1. CASE stage = "pending"
    <3>1. Penalty \in Int /\ Penalty < 100 * Total
      BY <1>3, <2>1, PenaltyBounded
    <3>2. Total \in Nat
      BY <1>3 DEF Total, ImportTypeOK
    <3>3. Score = 100 * Total - Penalty
      BY <2>1, <3>1 DEF Score
    <3>4. Score > 0
      BY <3>1, <3>2, <3>3
    <3> QED
      BY <2>1, <3>4 DEF ScoreTellsBuildable
  <2>2. CASE stage # "pending"
    BY <2>2 DEF ScoreTellsBuildable, Score
  <2> QED
    BY <2>1, <2>2
<1>4. ImportTypeOK /\ FewRejected => ScoreTellsBuildable
  BY <1>3
<1> QED
  BY <1>1, <1>2, <1>4, ImportTypeCorrect, PTL DEF ImportSpec
=============================================================================
