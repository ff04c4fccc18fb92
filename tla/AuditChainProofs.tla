-------------------------- MODULE AuditChainProofs --------------------------
(***************************************************************************)
(* Proofs about AuditChain, for any number of transactions and events.     *)
(***************************************************************************)
EXTENDS AuditChain, SequenceTheorems, TLAPS

-----------------------------------------------------------------------------
(* Sequences of rows that form a chain.                                    *)

(* The row at position n of the chain, the genesis link for n = 0. *)
At(rows, n) == IF n = 0 THEN Genesis ELSE rows[n]

Linked(rows, i) ==
    /\ rows[i].sequence = i
    /\ rows[i].previous = At(rows, i - 1).hash
    /\ rows[i].hash = ComputeHash(i, rows[i].body, rows[i].previous)

Chain(rows) == \A i \in 1..Len(rows) : Linked(rows, i)

LEMMA AtType ==
  ASSUME NEW rows \in Seq(Events), Chain(rows), NEW n \in 0..Len(rows)
  PROVE  /\ At(rows, n).sequence = n
         /\ At(rows, n).hash \in Hashes
<1>1. CASE n = 0
  BY <1>1 DEF At, Genesis, Hashes
<1>2. CASE n # 0
  <2>1. n \in 1..Len(rows) /\ rows[n] \in Events
    BY <1>2
  <2> QED
    BY <1>2, <2>1 DEF At, Chain, Linked, Events
<1> QED
  BY <1>1, <1>2

(* When the rows up to n are numbered from 1, the last of them is row n. *)
LEMMA LatestIsLast ==
  ASSUME NEW rows \in Seq(Events), NEW n \in 0..Len(rows),
         \A i \in 1..n : rows[i].sequence = i
  PROVE  Latest(rows, 1..n) = At(rows, n)
<1>1. CASE n = 0
  BY <1>1 DEF Latest, At
<1>2. CASE n # 0
  <2> DEFINE Tops(j) == \A k \in (1..n) \ {j} : k \in Before(rows, j)
  <2>0. DOMAIN rows = 1..Len(rows) /\ n \in 1..n
    BY <1>2
  <2>1. 1..n \subseteq DOMAIN rows /\ 1..n # {} /\ n \in 1..n
    <3>1. \A j \in 1..n : j \in 1..Len(rows)
      OBVIOUS
    <3> QED
      BY <2>0, <3>1
  <2>2. Tops(n)
    BY <2>1 DEF Before
  <2>3. ASSUME NEW j \in 1..n, Tops(j)
        PROVE  j = n
    <3>1. SUFFICES ASSUME j # n PROVE FALSE
      OBVIOUS
    <3>2. n \in Before(rows, j)
      BY <2>1, <2>3, <3>1
    <3> QED
      BY <2>1, <3>1, <3>2 DEF Before
  <2>4. (CHOOSE j \in 1..n : Tops(j)) = n
    BY <2>1, <2>2, <2>3
  <2>5. Latest(rows, 1..n) = rows[CHOOSE j \in 1..n : Tops(j)]
    BY <2>1 DEF Latest
  <2> QED
    BY <1>2, <2>4, <2>5 DEF At
<1> QED
  BY <1>1, <1>2

LEMMA HeadOfChain ==
  ASSUME NEW rows \in Seq(Events), Chain(rows)
  PROVE  ChainHead(rows) = At(rows, Len(rows))
<1>1. DOMAIN rows = 1..Len(rows) /\ Len(rows) \in 0..Len(rows)
  OBVIOUS
<1>2. \A i \in 1..Len(rows) : rows[i].sequence = i
  BY DEF Chain, Linked
<1> QED
  BY <1>1, <1>2, LatestIsLast DEF ChainHead

(* A chain verifies. *)
LEMMA ChainHasNoBreaks ==
  ASSUME NEW rows \in Seq(Events), Chain(rows)
  PROVE  Breaks(rows) = {}
<1>1. SUFFICES ASSUME NEW i \in 1..Len(rows)
               PROVE  i \notin Breaks(rows)
  BY DEF Breaks
<1>2. \A j \in 1..Len(rows) : rows[j].sequence = j
  BY DEF Chain, Linked
<1>3. Before(rows, i) = 1..(i - 1)
  BY <1>2 DEF Before
<1>4. Latest(rows, Before(rows, i)) = At(rows, i - 1)
  BY <1>2, <1>3, LatestIsLast
<1>5. At(rows, i - 1).sequence = i - 1
  BY AtType
<1> QED
  BY <1>4, <1>5 DEF Breaks, Chain, Linked

(* A chain grows by an event after its head. *)
LEMMA ChainGrows ==
  ASSUME NEW rows \in Seq(Events), Chain(rows), NEW b \in Bodies
  PROVE  LET e == NewEvent(At(rows, Len(rows)), b) IN
         e \in Events /\ Chain(Append(rows, e))
<1> DEFINE n == Len(rows)
           p == At(rows, n)
           e == NewEvent(p, b)
           more == Append(rows, e)
<1>1. p.sequence = n /\ p.hash \in Hashes
  BY AtType
<1>2. /\ e.sequence = n + 1 /\ e.body = b /\ e.previous = p.hash
      /\ e.hash = ComputeHash(n + 1, b, p.hash)
  BY <1>1 DEF NewEvent
<1>3. e.hash \in Hashes
  BY <1>1, <1>2 DEF ComputeHash, Hashes
<1>4. e \in Events
  BY <1>1, <1>2, <1>3 DEF NewEvent, Events
<1>5. /\ Len(more) = n + 1 /\ more[n + 1] = e
      /\ \A i \in 1..n : more[i] = rows[i]
  BY <1>4
<1>6. ASSUME NEW i \in 1..(n + 1)
      PROVE  Linked(more, i)
  <2>1. At(more, i - 1) = At(rows, i - 1)
    BY <1>5 DEF At
  <2>2. CASE i = n + 1
    BY <1>2, <1>5, <2>1, <2>2 DEF Linked
  <2>3. CASE i \in 1..n
    BY <1>5, <2>1, <2>3 DEF Linked, Chain
  <2> QED
    BY <2>2, <2>3
<1> QED
  BY <1>4, <1>5, <1>6 DEF Chain

-----------------------------------------------------------------------------
(* The inductive invariant.  What is committed is a chain, and so is what  *)
(* a transaction would leave if it committed now; only the holder of the   *)
(* lock has uncommitted events; a transaction that is about to insert has  *)
(* read a row of the chain, and the last one if it holds the lock.         *)

OwnNeedsLock == \A w \in Writers : own[w] # <<>> => holder = w

LockedBeforeHead ==
    \A w \in Writers : backend = "postgresql" /\ pc[w] \in {"head", "insert"} => holder = w

HeadWasRead ==
    \A w \in Writers : pc[w] = "insert" =>
        \E n \in 0..Len(Visible(w)) :
            /\ head[w] = At(Visible(w), n)
            /\ holder = w => n = Len(Visible(w))

Chained == Chain(events) /\ \A w \in Writers : Chain(Visible(w))

IInv == TypeOK /\ Chained /\ OwnNeedsLock /\ LockedBeforeHead /\ HeadWasRead

LEMMA VisibleType ==
  ASSUME TypeOK, NEW w \in Writers
  PROVE  /\ Visible(w) \in Seq(Events)
         /\ own[w] = <<>> => Visible(w) = events
BY DEF TypeOK, Visible

(* What a transaction does to its own place and to a lock alone.           *)
LEMMA LocalStep ==
  ASSUME IInv, NEW w \in Writers, NEW to \in {"idle", "open", "lock", "head"},
         Goto(w, to), UNCHANGED <<backend, events, own, head>>,
         keyShare' \in [Writers -> BOOLEAN], holder' \in Writers \cup {NoWriter},
         holder' = holder \/ (holder = NoWriter /\ holder' = w),
         holder' = holder \/ pc[w] # "insert",
         to = "head" /\ backend = "postgresql" => holder' = w
  PROVE  IInv'
<1>1. TypeOK'
  BY DEF IInv, TypeOK, Goto
<1>2. \A v \in Writers : Visible(v)' = Visible(v)
  BY DEF Visible
<1>3. Chained'
  BY <1>2 DEF IInv, Chained
<1>4. OwnNeedsLock'
  BY AuditAssumption DEF IInv, OwnNeedsLock
<1>5. \A v \in Writers \ {w} : pc'[v] = pc[v]
  BY DEF IInv, TypeOK, Goto
<1>6. pc'[w] = to
  BY DEF IInv, TypeOK, Goto
<1>7. LockedBeforeHead'
  BY <1>5, <1>6, AuditAssumption DEF IInv, LockedBeforeHead
<1>8. HeadWasRead'
  <2> SUFFICES ASSUME NEW v \in Writers, pc'[v] = "insert"
               PROVE  \E n \in 0..Len(Visible(v)) :
                         /\ head[v] = At(Visible(v), n)
                         /\ holder' = v => n = Len(Visible(v))
    BY <1>2 DEF HeadWasRead
  <2>1. v # w /\ pc[v] = "insert"
    BY <1>5, <1>6
  <2>2. holder' = v => holder = v
    BY <2>1
  <2> QED
    BY <2>1, <2>2 DEF IInv, HeadWasRead
<1> QED
  BY <1>1, <1>3, <1>4, <1>7, <1>8 DEF IInv

-----------------------------------------------------------------------------
(* The steps. *)

LEMMA InitHolds == Init => IInv
<1> SUFFICES ASSUME Init PROVE IInv
  OBVIOUS
<1>1. TypeOK
  <2>1. <<>> \in Seq(Events) /\ Genesis.sequence \in Nat /\ Genesis.hash \in Hashes
    BY DEF Genesis, Hashes
  <2> QED
    BY <2>1 DEF Init, TypeOK
<1>2. \A w \in Writers : own[w] = <<>> /\ Visible(w) = <<>>
  BY DEF Init, Visible
<1>3. Chained
  BY <1>2 DEF Init, Chained, Chain
<1> QED
  BY <1>1, <1>2, <1>3 DEF Init, IInv, OwnNeedsLock, LockedBeforeHead, HeadWasRead

(* chain_head, read in a transaction, is the last row it can see. *)
LEMMA ReadHeadStep ==
  ASSUME IInv, NEW w \in Writers, ReadHead(w)
  PROVE  IInv'
<1> DEFINE rows == Visible(w)
<1>1. rows \in Seq(Events) /\ Chain(rows)
  BY VisibleType DEF IInv, Chained
<1>2. /\ head'[w] = At(rows, Len(rows))
      /\ \A v \in Writers \ {w} : head'[v] = head[v]
  BY <1>1, HeadOfChain DEF ReadHead, IInv, TypeOK
<1>3. /\ pc'[w] = "insert" /\ pc[w] = "head"
      /\ \A v \in Writers \ {w} : pc'[v] = pc[v]
  BY DEF ReadHead, Goto, IInv, TypeOK
<1>4. head'[w].sequence \in Nat /\ head'[w].hash \in Hashes
  BY <1>1, <1>2, AtType
<1>5. TypeOK'
  BY <1>2, <1>4 DEF ReadHead, Goto, IInv, TypeOK
<1>6. \A v \in Writers : Visible(v)' = Visible(v)
  BY DEF ReadHead, Visible
<1>7. Chained' /\ OwnNeedsLock'
  BY <1>6 DEF ReadHead, IInv, Chained, OwnNeedsLock
<1>8. LockedBeforeHead'
  BY <1>3 DEF ReadHead, IInv, LockedBeforeHead
<1>9. HeadWasRead'
  <2> SUFFICES ASSUME NEW v \in Writers, pc'[v] = "insert"
               PROVE  \E n \in 0..Len(Visible(v)) :
                         /\ head'[v] = At(Visible(v), n)
                         /\ holder' = v => n = Len(Visible(v))
    BY <1>6 DEF HeadWasRead
  <2>1. CASE v = w
    BY <1>1, <1>2, <2>1
  <2>2. CASE v # w
    BY <1>2, <1>3, <2>2 DEF ReadHead, IInv, HeadWasRead
  <2> QED
    BY <2>1, <2>2
<1> QED
  BY <1>5, <1>7, <1>8, <1>9 DEF IInv

(* An event that is inserted follows the last row of the chain: with the   *)
(* lock because the head cannot have moved, without it because otherwise   *)
(* its position is taken.                                                  *)
LEMMA InsertAfterHead ==
  ASSUME IInv, NEW w \in Writers, NEW b \in Bodies, Insert(w, b)
  PROVE  head[w] = At(Visible(w), Len(Visible(w)))
<1> DEFINE rows == Visible(w)
<1>1. rows \in Seq(Events) /\ Chain(rows)
  BY VisibleType DEF IInv, Chained
<1>2. PICK n \in 0..Len(rows) : head[w] = At(rows, n)
  BY DEF Insert, IInv, HeadWasRead
<1>3. head[w].sequence = n
  BY <1>1, <1>2, AtType
<1>4. SUFFICES ASSUME n # Len(rows) PROVE FALSE
  BY <1>2
<1>5. n + 1 \in 1..Len(rows) /\ n + 1 \in DOMAIN rows
  BY <1>1, <1>4
<1>6. rows[n + 1].sequence = n + 1
  BY <1>1, <1>5 DEF Chain, Linked
<1>7. Taken(w, rows)
  BY <1>3, <1>5, <1>6 DEF Taken
<1> QED
  BY <1>7 DEF Insert

LEMMA InsertStep ==
  ASSUME IInv, NEW w \in Writers, NEW b \in Bodies, Insert(w, b)
  PROVE  IInv'
<1> DEFINE e == NewEvent(head[w], b)
           rows == Visible(w)
<1>1. rows \in Seq(Events) /\ Chain(rows)
  BY VisibleType DEF IInv, Chained
<1>2. e \in Events /\ Chain(Append(rows, e))
  BY <1>1, InsertAfterHead, ChainGrows
<1>3. /\ own'[w] = Append(own[w], e)
      /\ \A v \in Writers \ {w} : own'[v] = own[v]
      /\ DOMAIN own' = Writers
  BY DEF Insert, IInv, TypeOK
<1>4. Visible(w)' = Append(rows, e)
  BY <1>2, <1>3 DEF Insert, Visible, IInv, TypeOK
<1>5. \A v \in Writers \ {w} : Visible(v)' = Visible(v)
  BY <1>3 DEF Insert, Visible
<1>6. holder' = w /\ holder \in {NoWriter, w}
  BY DEF Insert, IInv, LockedBeforeHead
<1>7. /\ pc'[w] = "open"
      /\ \A v \in Writers \ {w} : pc'[v] = pc[v]
  BY DEF Insert, Goto, IInv, TypeOK
<1>8. TypeOK'
  <2>1. own[w] \in Seq(Events)
    BY DEF IInv, TypeOK
  <2>2. Append(own[w], e) \in Seq(Events)
    BY <1>2, <2>1
  <2>3. \A v \in Writers : own'[v] \in Seq(Events)
    BY <1>3, <2>2 DEF IInv, TypeOK
  <2> QED
    BY <1>3, <1>6, <2>3 DEF Insert, Goto, IInv, TypeOK
<1>9. Chained'
  BY <1>2, <1>4, <1>5 DEF Insert, IInv, Chained
<1>10. OwnNeedsLock'
  BY <1>3, <1>6, AuditAssumption DEF IInv, OwnNeedsLock
<1>11. LockedBeforeHead'
  BY <1>6, <1>7, AuditAssumption DEF Insert, IInv, LockedBeforeHead
<1>12. HeadWasRead'
  <2> SUFFICES ASSUME NEW v \in Writers, pc'[v] = "insert"
               PROVE  \E n \in 0..Len(Visible(v)') :
                         /\ head'[v] = At(Visible(v)', n)
                         /\ holder' = v => n = Len(Visible(v)')
    BY DEF HeadWasRead
  <2>1. v # w /\ pc[v] = "insert"
    BY <1>7
  <2> QED
    BY <1>5, <1>6, <2>1 DEF Insert, IInv, HeadWasRead
<1> QED
  BY <1>8, <1>9, <1>10, <1>11, <1>12 DEF IInv

(* A transaction ends, with what it recorded or without. *)
LEMMA EndStep ==
  ASSUME IInv, NEW w \in Writers, Ends(w),
         events' = events \/ events' = Visible(w)
  PROVE  IInv'
<1>1. /\ pc'[w] = "idle" /\ own'[w] = <<>>
      /\ \A v \in Writers \ {w} : pc'[v] = pc[v] /\ own'[v] = own[v]
      /\ DOMAIN own' = Writers
  BY DEF Ends, Goto, IInv, TypeOK
<1>2. events' \in Seq(Events) /\ Chain(events')
  BY VisibleType DEF IInv, TypeOK, Chained
<1>3. TypeOK'
  <2>1. \A v \in Writers : own'[v] \in Seq(Events)
    <3>1. <<>> \in Seq(Events)
      OBVIOUS
    <3> QED
      BY <1>1, <3>1 DEF IInv, TypeOK
  <2> QED
    BY <1>1, <1>2, <2>1 DEF Ends, Goto, IInv, TypeOK
<1>4. Visible(w)' = events'
  BY <1>1, <1>2 DEF Visible
<1>5. ASSUME NEW v \in Writers \ {w}
      PROVE  \/ events' = events /\ Visible(v)' = Visible(v)
             \/ /\ holder = w /\ own[v] = <<>>
                /\ events' = events \o own[w] /\ Visible(v)' = events'
  <2>1. CASE own[w] = <<>>
    <3>1. events' = events
      BY <2>1, VisibleType DEF IInv
    <3> QED
      BY <1>1, <3>1 DEF Visible
  <2>2. CASE own[w] # <<>>
    <3>1. holder = w /\ own[v] = <<>>
      BY <2>2 DEF IInv, OwnNeedsLock
    <3>2. Visible(v)' = events'
      BY <1>1, <1>2, <3>1 DEF Visible
    <3>3. Visible(v) = events
      BY <3>1, VisibleType DEF IInv
    <3> QED
      BY <3>1, <3>2, <3>3 DEF Visible
  <2> QED
    BY <2>1, <2>2
<1>6. Chained'
  <2>1. ASSUME NEW v \in Writers
        PROVE  Chain(Visible(v))'
    <3>1. Chain(Visible(v)') <=> Chain(Visible(v))'
      BY DEF Chain, Linked, At
    <3> QED
      BY <1>2, <1>4, <1>5, <3>1 DEF IInv, Chained
  <2> QED
    BY <1>2, <2>1 DEF Chained, Chain, Linked, At
<1>7. OwnNeedsLock'
  BY <1>1 DEF Ends, IInv, OwnNeedsLock
<1>8. LockedBeforeHead'
  BY <1>1 DEF Ends, IInv, LockedBeforeHead
<1>9. HeadWasRead'
  <2> SUFFICES ASSUME NEW v \in Writers, pc'[v] = "insert"
               PROVE  \E n \in 0..Len(Visible(v)') :
                         /\ head'[v] = At(Visible(v)', n)
                         /\ holder' = v => n = Len(Visible(v)')
    BY DEF HeadWasRead
  <2>1. v # w /\ pc[v] = "insert" /\ head'[v] = head[v]
    BY <1>1 DEF Ends
  <2>2. PICK n \in 0..Len(Visible(v)) : /\ head[v] = At(Visible(v), n)
                                        /\ holder = v => n = Len(Visible(v))
    BY <2>1 DEF IInv, HeadWasRead
  <2>3. CASE Visible(v)' = Visible(v)
    BY <2>1, <2>2, <2>3, AuditAssumption DEF Ends
  <2>4. CASE holder = w /\ own[v] = <<>> /\ events' = events \o own[w] /\ Visible(v)' = events'
    <3>1. Visible(v) = events
      BY <2>4, VisibleType DEF IInv
    <3>2. events \in Seq(Events) /\ own[w] \in Seq(Events)
      BY DEF IInv, TypeOK
    <3>3. /\ Len(events') = Len(events) + Len(own[w])
          /\ \A i \in 1..Len(events) : events'[i] = events[i]
      BY <2>4, <3>2
    <3>4. n \in 0..Len(events') /\ At(events', n) = At(events, n)
      BY <2>2, <3>1, <3>2, <3>3 DEF At
    <3>5. holder' # v
      BY <2>4, AuditAssumption DEF Ends
    <3> QED
      BY <2>1, <2>2, <2>4, <3>1, <3>4, <3>5
  <2> QED
    BY <1>5, <2>1, <2>3, <2>4
<1> QED
  BY <1>3, <1>6, <1>7, <1>8, <1>9 DEF IInv

LEMMA StepHolds == IInv /\ [Next]_vars => IInv'
<1> SUFFICES ASSUME IInv, [Next]_vars PROVE IInv'
  OBVIOUS
<1>1. CASE UNCHANGED vars
  BY <1>1 DEF vars, IInv, TypeOK, Chained, OwnNeedsLock, LockedBeforeHead, HeadWasRead, Visible,
              Chain, Linked, At
<1>2. ASSUME NEW w \in Writers, Begin(w)
      PROVE  IInv'
  BY <1>2, LocalStep DEF Begin, IInv, TypeOK
<1>3. ASSUME NEW w \in Writers, WriteRows(w)
      PROVE  IInv'
  <2>1. pc[w] = "open" /\ pc = [pc EXCEPT ![w] = "open"]
    BY <1>3 DEF WriteRows, IInv, TypeOK
  <2>2. Goto(w, "open")
    BY <1>3, <2>1 DEF WriteRows, Goto
  <2>3. /\ keyShare' \in [Writers -> BOOLEAN]
        /\ holder' \in Writers \cup {NoWriter}
        /\ holder' = holder \/ (holder = NoWriter /\ holder' = w)
    BY <1>3 DEF WriteRows, IInv, TypeOK
  <2> QED
    BY <1>3, <2>1, <2>2, <2>3, LocalStep DEF WriteRows
<1>4. ASSUME NEW w \in Writers, Record(w)
      PROVE  IInv'
  BY <1>4, LocalStep DEF Record, IInv, TypeOK
<1>5. ASSUME NEW w \in Writers, LockOrganization(w)
      PROVE  IInv'
  <2>1. holder' = holder \/ (holder = NoWriter /\ holder' = w)
    BY <1>5 DEF LockOrganization, Conflicting, IInv, TypeOK
  <2> QED
    BY <1>5, <2>1, LocalStep DEF LockOrganization, IInv, TypeOK
<1>6. ASSUME NEW w \in Writers, Commit(w)
      PROVE  IInv'
  BY <1>6, EndStep DEF Commit, Visible
<1>7. ASSUME NEW w \in Writers, Rollback(w)
      PROVE  IInv'
  BY <1>7, EndStep DEF Rollback, Undo
<1> QED
  BY <1>1, <1>2, <1>3, <1>4, <1>5, <1>6, <1>7, ReadHeadStep, InsertStep DEF Next, Transaction

LEMMA Invariant == Spec => []IInv
BY InitHolds, StepHolds, PTL DEF Spec

-----------------------------------------------------------------------------
(* Every variable holds a value of its column or local's type, however     *)
(* many transactions append to the chain.                                  *)
THEOREM AuditTypeCorrect == Spec => []TypeOK
<1>1. IInv => TypeOK
  BY DEF IInv
<1> QED
  BY <1>1, Invariant, PTL

(* The committed chain of an organization verifies at every moment: the    *)
(* lock on PostgreSQL, and the unique constraint where there is none, are  *)
(* enough for any number of concurrent transactions.                       *)
THEOREM ChainAlwaysVerifies == Spec => []ChainVerifies
<1>1. IInv => ChainVerifies
  BY ChainHasNoBreaks DEF IInv, TypeOK, Chained, ChainVerifies
<1> QED
  BY <1>1, Invariant, PTL

(* On PostgreSQL and on SQLite, a transaction that inserts an event while  *)
(* it holds the lock inserts it after the newest event there is.           *)
THEOREM LockedHeadIsCurrent == Spec => []HeadIsCurrent
<1>1. ASSUME IInv PROVE HeadIsCurrent
  <2> SUFFICES ASSUME NEW w \in Writers, pc[w] = "insert", holder = w
               PROVE  head[w] = ChainHead(Visible(w))
    BY DEF HeadIsCurrent
  <2>1. head[w] = At(Visible(w), Len(Visible(w)))
    BY <1>1 DEF IInv, HeadWasRead
  <2> QED
    BY <1>1, <2>1, VisibleType, HeadOfChain DEF IInv, Chained
<1> QED
  BY <1>1, Invariant, PTL

(* Transactions of one organization never wait for each other in a circle: *)
(* only the holder of the lock can be waited for.                          *)
THEOREM NeverDeadlocked == Spec => []NoLockCycle
<1>1. ASSUME IInv PROVE NoLockCycle
  <2>1. ASSUME NEW u \in Writers, NEW v \in Writers, WaitsFor(u, v)
        PROVE  v = holder
    <3>1. CASE Taken(u, own[v])
      <4>1. own[v] # <<>>
        BY <3>1 DEF Taken
      <4> QED
        BY <1>1, <4>1 DEF IInv, OwnNeedsLock
    <3> QED
      BY <2>1, <3>1 DEF WaitsFor, Conflicting
  <2>2. \A v, w \in Writers : WaitsFor(v, w) => v # w
    BY DEF WaitsFor
  <2> QED
    BY <2>1, <2>2 DEF NoLockCycle
<1> QED
  BY <1>1, Invariant, PTL

(* A row whose content was changed, and a row that was removed from        *)
(* anywhere but the end, is reported by the verification of a chain.       *)
LEMMA AlteredRowShows ==
  ASSUME NEW rows \in Seq(Events), Chain(rows), NEW i \in 1..Len(rows),
         NEW b \in Bodies \ {rows[i].body}
  PROVE  i \in Breaks([rows EXCEPT ![i].body = b])
<1> DEFINE r == rows[i]
           altered == [rows EXCEPT ![i].body = b]
<1>1. r \in Events
  OBVIOUS
<1>2. i \in DOMAIN altered /\ altered[i] = [r EXCEPT !.body = b]
  OBVIOUS
<1>3. /\ altered[i].sequence = r.sequence /\ altered[i].previous = r.previous
      /\ altered[i].hash = r.hash /\ altered[i].body = b
  BY <1>1, <1>2 DEF Events
<1>4. r.hash = Append(r.previous, <<r.sequence, r.body>>)
  BY DEF Chain, Linked, ComputeHash
<1>5. r.previous \in Hashes /\ r.sequence \in Nat /\ r.body \in Bodies
  BY <1>1 DEF Events
<1>6. Append(r.previous, <<r.sequence, r.body>>) # Append(r.previous, <<r.sequence, b>>)
  <2> DEFINE n == Len(r.previous) + 1
  <2>1. /\ Append(r.previous, <<r.sequence, r.body>>)[n] = <<r.sequence, r.body>>
        /\ Append(r.previous, <<r.sequence, b>>)[n] = <<r.sequence, b>>
    BY <1>5 DEF Hashes
  <2> QED
    BY <2>1
<1> QED
  BY <1>2, <1>3, <1>4, <1>6 DEF Breaks, ComputeHash

LEMMA RemovedRowShows ==
  ASSUME NEW rows \in Seq(Events), Chain(rows), NEW i \in 1..Len(rows), i # Len(rows)
  PROVE  i \in Breaks(RemoveAt(rows, i))
<1> DEFINE rest == RemoveAt(rows, i)
<1>1. /\ SubSeq(rows, 1, i - 1) \in Seq(Events) /\ Len(SubSeq(rows, 1, i - 1)) = i - 1
      /\ \A j \in 1..(i - 1) : SubSeq(rows, 1, i - 1)[j] = rows[j]
  OBVIOUS
<1>2. /\ SubSeq(rows, i + 1, Len(rows)) \in Seq(Events)
      /\ Len(SubSeq(rows, i + 1, Len(rows))) = Len(rows) - i
      /\ \A j \in 1..(Len(rows) - i) : SubSeq(rows, i + 1, Len(rows))[j] = rows[i + j]
  OBVIOUS
<1>3. /\ rest \in Seq(Events) /\ Len(rest) = Len(rows) - 1
      /\ \A j \in 1..(i - 1) : rest[j] = rows[j]
      /\ \A j \in i..(Len(rows) - 1) : rest[j] = rows[j + 1]
  <2> DEFINE before == SubSeq(rows, 1, i - 1)
             after == SubSeq(rows, i + 1, Len(rows))
  <2> HIDE DEF before, after
  <2>1. rest = before \o after
    BY DEF RemoveAt, before, after
  <2>2. /\ before \in Seq(Events) /\ Len(before) = i - 1
        /\ after \in Seq(Events) /\ Len(after) = Len(rows) - i
    BY <1>1, <1>2 DEF before, after
  <2>3. rest \in Seq(Events) /\ Len(rest) = Len(rows) - 1
    <3>1. before \o after \in Seq(Events)
      BY <2>2
    <3>2. Len(before \o after) = (i - 1) + (Len(rows) - i)
      BY <2>2
    <3> QED
      BY <2>1, <3>1, <3>2
  <2>4. ASSUME NEW j \in 1..(i - 1)
        PROVE  rest[j] = rows[j]
    <3>1. rest[j] = before[j]
      BY <2>1, <2>2
    <3> QED
      BY <1>1, <3>1 DEF before
  <2>5. ASSUME NEW j \in i..(Len(rows) - 1)
        PROVE  rest[j] = rows[j + 1]
    <3>1. rest[j] = after[j - (i - 1)] /\ j - (i - 1) \in 1..(Len(rows) - i)
      BY <2>1, <2>2
    <3>2. after[j - (i - 1)] = rows[i + (j - (i - 1))]
      BY <1>2, <3>1 DEF after
    <3> QED
      BY <3>1, <3>2
  <2> QED
    BY <2>3, <2>4, <2>5
<1>4. \A j \in 1..Len(rows) : rows[j].sequence = j
  BY DEF Chain, Linked
<1>5. \A j \in 1..(Len(rows) - 1) : rest[j].sequence = IF j < i THEN j ELSE j + 1
  BY <1>3, <1>4
<1>6. DOMAIN rest = 1..(Len(rows) - 1) /\ i \in 1..(Len(rows) - 1)
  BY <1>3
<1>7. Before(rest, i) = 1..(i - 1)
  BY <1>5, <1>6 DEF Before
<1> HIDE DEF rest
<1>8. Latest(rest, 1..(i - 1)) = At(rest, i - 1)
  <2>1. i - 1 \in 0..Len(rest)
    BY <1>3
  <2>2. \A j \in 1..(i - 1) : rest[j].sequence = j
    BY <1>5
  <2>3. rest \in Seq(Events)
    BY <1>3
  <2> QED
    BY <2>1, <2>2, <2>3, LatestIsLast
<1>9. At(rest, i - 1).sequence = i - 1
  BY <1>5, <1>6 DEF At, Genesis
<1>10. i \in Breaks(rest)
  BY <1>5, <1>6, <1>7, <1>8, <1>9 DEF Breaks
<1> QED
  BY <1>10 DEF rest

(* Damage to a committed chain of any length shows when it is verified.    *)
THEOREM DamageAlwaysShows == Spec => []DamageShows
<1>1. ASSUME IInv PROVE DamageShows
  <2>1. events \in Seq(Events) /\ Chain(events) /\ DOMAIN events = 1..Len(events)
    BY <1>1 DEF IInv, TypeOK, Chained
  <2>2. ASSUME NEW i \in DOMAIN events, NEW b \in Bodies \ {events[i].body}
        PROVE  Breaks([events EXCEPT ![i].body = b]) # {}
    BY <2>1, AlteredRowShows
  <2>3. ASSUME NEW i \in DOMAIN events, i # Len(events)
        PROVE  Breaks(RemoveAt(events, i)) # {}
    BY <2>1, <2>3, RemovedRowShows
  <2> QED
    BY <2>2, <2>3 DEF DamageShows
<1> QED
  BY <1>1, Invariant, PTL

-----------------------------------------------------------------------------
(* The chain implements the audit log.                                     *)

LEMMA BodyOfType ==
  ASSUME NEW rows \in Seq(Events)
  PROVE  /\ BodyOf(rows) \in Seq(Bodies) /\ Len(BodyOf(rows)) = Len(rows)
         /\ \A i \in 1..Len(rows) : BodyOf(rows)[i] = rows[i].body
<1>1. DOMAIN rows = 1..Len(rows) /\ Len(rows) \in Nat
  OBVIOUS
<1>2. \A i \in 1..Len(rows) : rows[i].body \in Bodies
  <2>1. \A i \in 1..Len(rows) : rows[i] \in Events
    OBVIOUS
  <2> QED
    BY <2>1 DEF Events
<1>3. BodyOf(rows) = [i \in 1..Len(rows) |-> rows[i].body]
  BY <1>1 DEF BodyOf
<1> QED
  BY <1>1, <1>2, <1>3

LEMMA BodyOfEmpty == BodyOf(<<>>) = <<>>
BY DEF BodyOf

LEMMA BodyOfConcat ==
  ASSUME NEW r \in Seq(Events), NEW s \in Seq(Events)
  PROVE  BodyOf(r \o s) = BodyOf(r) \o BodyOf(s)
<1>1. r \o s \in Seq(Events) /\ Len(r \o s) = Len(r) + Len(s)
  OBVIOUS
<1>2. /\ BodyOf(r \o s) \in Seq(Bodies)
      /\ BodyOf(r) \o BodyOf(s) \in Seq(Bodies)
      /\ Len(BodyOf(r \o s)) = Len(r) + Len(s)
      /\ Len(BodyOf(r) \o BodyOf(s)) = Len(r) + Len(s)
  <2>1. /\ BodyOf(r) \in Seq(Bodies) /\ Len(BodyOf(r)) = Len(r)
        /\ BodyOf(s) \in Seq(Bodies) /\ Len(BodyOf(s)) = Len(s)
    BY BodyOfType
  <2>2. /\ BodyOf(r) \o BodyOf(s) \in Seq(Bodies)
        /\ Len(BodyOf(r) \o BodyOf(s)) = Len(r) + Len(s)
    <3>1. ASSUME NEW p \in Seq(Bodies), NEW q \in Seq(Bodies)
          PROVE  p \o q \in Seq(Bodies) /\ Len(p \o q) = Len(p) + Len(q)
      OBVIOUS
    <3> QED
      BY <2>1, <3>1
  <2> QED
    BY <1>1, <2>2, BodyOfType
<1>3. ASSUME NEW i \in 1..(Len(r) + Len(s))
      PROVE  BodyOf(r \o s)[i] = (BodyOf(r) \o BodyOf(s))[i]
  <2>1. BodyOf(r \o s)[i] = (r \o s)[i].body
    BY <1>1, BodyOfType
  <2>2. CASE i <= Len(r)
    <3>1. (r \o s)[i] = r[i] /\ BodyOf(r)[i] = r[i].body
      BY <2>2, BodyOfType
    <3>2. (BodyOf(r) \o BodyOf(s))[i] = BodyOf(r)[i]
      BY <2>2, BodyOfType
    <3> QED
      BY <2>1, <3>1, <3>2
  <2>3. CASE i > Len(r)
    <3>1. i - Len(r) \in 1..Len(s)
      BY <2>3
    <3>2. (r \o s)[i] = s[i - Len(r)] /\ BodyOf(s)[i - Len(r)] = s[i - Len(r)].body
      BY <2>3, <3>1, BodyOfType
    <3>3. (BodyOf(r) \o BodyOf(s))[i] = BodyOf(s)[i - Len(r)]
      BY <2>3, <3>1, BodyOfType
    <3> QED
      BY <2>1, <3>2, <3>3
  <2>4. i <= Len(r) \/ i > Len(r)
    OBVIOUS
  <2> QED
    BY <2>2, <2>3, <2>4
<1> QED
  BY <1>2, <1>3, SeqEqual

Pending == [w \in Writers |-> BodyOf(own[w])]

(* A step that leaves the rows alone is a stutter of the log.              *)
LEMMA RowsUnchanged ==
  ASSUME UNCHANGED <<events, own>>
  PROVE  UNCHANGED <<BodyOf(events), Pending>>
BY DEF BodyOf, Pending

LEMMA LogInit == Init => Log!Init
BY BodyOfEmpty DEF Init, Log!Init

LEMMA InsertIsRecord ==
  ASSUME IInv, NEW w \in Writers, NEW b \in Bodies, Insert(w, b)
  PROVE  Log!Record(w, b)
<1> DEFINE e == NewEvent(head[w], b)
<1>1. own[w] \in Seq(Events)
  BY DEF IInv, TypeOK
<1>2. e \in Events /\ e.body = b
  <2>1. Visible(w) \in Seq(Events) /\ Chain(Visible(w))
    BY VisibleType DEF IInv, Chained
  <2> QED
    BY <2>1, InsertAfterHead, ChainGrows DEF NewEvent
<1>3. BodyOf(Append(own[w], e)) = Append(BodyOf(own[w]), b)
  <2> DEFINE more == Append(own[w], e)
  <2>1. /\ more \in Seq(Events) /\ Len(more) = Len(own[w]) + 1
        /\ more[Len(own[w]) + 1] = e
        /\ \A i \in 1..Len(own[w]) : more[i] = own[w][i]
    BY <1>1, <1>2
  <2> HIDE DEF more
  <2>2. /\ BodyOf(more) \in Seq(Bodies) /\ Len(BodyOf(more)) = Len(own[w]) + 1
        /\ \A i \in 1..(Len(own[w]) + 1) : BodyOf(more)[i] = more[i].body
    BY <2>1, BodyOfType
  <2>3. /\ Append(BodyOf(own[w]), b) \in Seq(Bodies)
        /\ Len(Append(BodyOf(own[w]), b)) = Len(own[w]) + 1
        /\ Append(BodyOf(own[w]), b)[Len(own[w]) + 1] = b
        /\ \A i \in 1..Len(own[w]) : Append(BodyOf(own[w]), b)[i] = own[w][i].body
    BY <1>1, BodyOfType
  <2>4. \A i \in 1..(Len(own[w]) + 1) : BodyOf(more)[i] = Append(BodyOf(own[w]), b)[i]
    <3> TAKE i \in 1..(Len(own[w]) + 1)
    <3>1. CASE i = Len(own[w]) + 1
      BY <1>2, <2>1, <2>2, <2>3, <3>1
    <3>2. CASE i \in 1..Len(own[w])
      BY <2>1, <2>2, <2>3, <3>2
    <3>3. Len(own[w]) \in Nat
      BY <1>1
    <3>4. i = Len(own[w]) + 1 \/ i \in 1..Len(own[w])
      BY <3>3
    <3> QED
      BY <3>1, <3>2, <3>4
  <2> QED
    BY <2>2, <2>3, <2>4, SeqEqual DEF more
<1>4. own' = [own EXCEPT ![w] = Append(@, e)] /\ events' = events
  BY DEF Insert
<1>5. Pending' = [Pending EXCEPT ![w] = Append(@, b)]
  BY <1>3, <1>4 DEF Pending, IInv, TypeOK
<1>6. BodyOf(events)' = BodyOf(events)
  BY <1>4 DEF BodyOf
<1> QED
  BY <1>5, <1>6 DEF Pending, Log!Record

LEMMA EndClearsPending ==
  ASSUME IInv, NEW w \in Writers, Ends(w)
  PROVE  Pending' = [Pending EXCEPT ![w] = <<>>]
BY BodyOfEmpty DEF Pending, Ends, IInv, TypeOK

LEMMA LogStep == IInv /\ [Next]_vars => [Log!Next]_<<BodyOf(events), Pending>>
<1> SUFFICES ASSUME IInv, [Next]_vars
             PROVE  Log!Next \/ UNCHANGED <<BodyOf(events), Pending>>
  OBVIOUS
<1>1. CASE UNCHANGED <<events, own>>
  BY <1>1, RowsUnchanged
<1>2. ASSUME NEW w \in Writers, NEW b \in Bodies, Insert(w, b)
      PROVE  Log!Next
  BY <1>2, InsertIsRecord DEF Log!Next
<1>3. ASSUME NEW w \in Writers, Commit(w)
      PROVE  Log!Next
  <2>1. BodyOf(events)' = BodyOf(events) \o BodyOf(own[w])
    BY <1>3, BodyOfConcat DEF Commit, IInv, TypeOK
  <2>2. Pending' = [Pending EXCEPT ![w] = <<>>] /\ Pending[w] = BodyOf(own[w])
    BY <1>3, EndClearsPending DEF Commit, Pending
  <2>3. Log!Commit(w)
    BY <2>1, <2>2 DEF Log!Commit, Pending
  <2> QED
    BY <2>3 DEF Log!Next
<1>4. ASSUME NEW w \in Writers, Rollback(w)
      PROVE  Log!Next
  <2>1. BodyOf(events)' = BodyOf(events)
    BY <1>4 DEF Rollback, Undo, BodyOf
  <2>2. Log!Rollback(w)
    BY <1>4, <2>1, EndClearsPending DEF Rollback, Pending, Log!Rollback
  <2> QED
    BY <2>2 DEF Log!Next
<1>5. ASSUME NEW w \in Writers,
             Begin(w) \/ WriteRows(w) \/ Record(w) \/ LockOrganization(w) \/ ReadHead(w)
      PROVE  UNCHANGED <<events, own>>
  BY <1>5 DEF Begin, WriteRows, Record, LockOrganization, ReadHead
<1>6. CASE UNCHANGED vars
  BY <1>1, <1>6 DEF vars
<1> QED
  BY <1>1, <1>2, <1>3, <1>4, <1>5, <1>6 DEF Next, Transaction

(* Every behaviour of the chain, with any number of concurrent and failing *)
(* transactions, is one of the append-only log: record, commit and         *)
(* rollback are its steps, and everything else is invisible in it.         *)
THEOREM ChainImplementsLog == Spec => ImplementsLog
BY LogInit, LogStep, Invariant, PTL DEF Spec, ImplementsLog, Log!Spec, Pending
=============================================================================
