--------------------------- MODULE RedDeskProofs ---------------------------
(***************************************************************************)
(* Proofs about RedDesk, for any number of requests, versions, keys and    *)
(* purchases, and any clock.                                               *)
(***************************************************************************)
EXTENDS RedDesk, SequenceTheorems, TLAPS

Offered == {"none", "offered", "current"}
Status == {"ACTIVE", "EXPIRED", "REVOKED"}
Licence == [version : Versions, status : Status, until : Nat]
Purchase == [key : Keys \cup {NoKey}, status : {"PAID", "REFUNDED"}]

LEMMA SeqElements ==
  ASSUME NEW S, NEW s \in Seq(S)
  PROVE  DOMAIN s = 1 .. Len(s) /\ \A i \in DOMAIN s : s[i] \in S
OBVIOUS

LEMMA UpdatedSeq ==
  ASSUME NEW S, NEW s \in Seq(S), NEW i \in DOMAIN s, NEW x \in S
  PROVE  [s EXCEPT ![i] = x] \in Seq(S) /\ Len([s EXCEPT ![i] = x]) = Len(s)
OBVIOUS

(* What a request remembers of a row stays a row's number.                 *)
LEMMA SameRows ==
  ASSUME TypeOK
  PROVE  /\ DOMAIN licences = 1 .. Len(licences) /\ DOMAIN purchases = 1 .. Len(purchases)
         /\ DOMAIN licences = DOMAIN purchases
         /\ \A i \in DOMAIN licences : licences[i] \in Licence
         /\ \A i \in DOMAIN purchases : purchases[i] \in Purchase
BY SeqElements DEF TypeOK, Licence, Purchase, Status

LEMMA RememberedKept ==
  ASSUME TypeOK, DOMAIN purchases \subseteq DOMAIN purchases', DOMAIN licences \subseteq DOMAIN licences'
  PROVE  Remembered \subseteq Remembered'
<1>1. ASSUME NEW x \in Remembered
      PROVE  x \in Remembered'
  <2>1. CASE x \in [op : {"refund"}, purchase : DOMAIN purchases]
    BY <2>1 DEF Remembered
  <2>2. CASE x \in [op : {"revoke"}, purchase : DOMAIN purchases,
                    read : {"ACTIVE", "EXPIRED", "REVOKED"}]
    BY <2>2 DEF Remembered
  <2>3. CASE x \in [op : {"advance"}, licence : DOMAIN licences, version : Versions]
    BY <2>3 DEF Remembered
  <2>4. CASE x \in [op : {"expire"}, due : SUBSET DOMAIN licences]
    <3>1. SUBSET DOMAIN licences \subseteq SUBSET DOMAIN licences'
      OBVIOUS
    <3>2. x \in [op : {"expire"}, due : SUBSET DOMAIN licences']
      BY <2>4, <3>1
    <3> QED
      BY <3>2 DEF Remembered
  <2> QED
    BY <1>1, <2>1, <2>2, <2>3, <2>4 DEF Remembered
<1> QED
  BY <1>1

(* What each kind of request remembers. *)
LEMMA RequestType ==
  ASSUME TypeOK, NEW r \in Requests
  PROVE  /\ request[r].op \in Moves => request[r].read \in ListingStatus
         /\ request[r].op = "offer" =>
                /\ request[r].version \in Versions /\ request[r].current \in BOOLEAN
                /\ request[r].read \in [Versions -> Offered]
         /\ request[r].op = "purchase" =>
                request[r].key \in Keys \cup {NoKey} /\ request[r].version \in Versions
         /\ request[r].op = "refund" => request[r].purchase \in DOMAIN purchases
         /\ request[r].op = "revoke" =>
                request[r].purchase \in DOMAIN purchases /\ request[r].read \in Status
         /\ request[r].op = "advance" =>
                request[r].licence \in DOMAIN licences /\ request[r].version \in Versions
         /\ request[r].op = "expire" => request[r].due \subseteq DOMAIN licences
<1>1. request[r] \in Remembered
  BY DEF TypeOK
<1> QED
  BY <1>1 DEF Remembered, Moves, Offered, Status

(* A request that begins, and one that ends, with the rows as they are or  *)
(* as many more of them.                                                   *)
LEMMA RequestsTyped ==
  ASSUME TypeOK, NEW r \in Requests, NEW what,
         DOMAIN purchases \subseteq DOMAIN purchases', DOMAIN licences \subseteq DOMAIN licences',
         what \in Remembered \/ what = Idle,
         request' = [request EXCEPT ![r] = what]
  PROVE  request' \in [Requests -> Remembered']
<1>1. Idle \in Remembered
  BY DEF Idle, Remembered
<1>2. Remembered \subseteq Remembered'
  BY RememberedKept
<1> QED
  BY <1>1, <1>2 DEF TypeOK
-----------------------------------------------------------------------------
LEMMA TypeCreator ==
  ASSUME TypeOK, NEW r \in Requests, CreatorStep(r)
  PROVE  TypeOK'
<1>1. ASSUME NEW move \in Moves, ReadListing(r, move)
      PROVE  TypeOK'
  <2>1. [op |-> move, read |-> listing] \in Remembered
    BY DEF TypeOK, Remembered
  <2>2. request' \in [Requests -> Remembered']
    BY <1>1, <2>1, RequestsTyped DEF ReadListing, Begin
  <2> QED
    BY <1>1, <2>2 DEF ReadListing, TypeOK
<1>2. CASE WriteListing(r)
  <2>1. To[request[r].op] \in ListingStatus
    BY <1>2 DEF WriteListing, To, Moves, ListingStatus
  <2>2. request' \in [Requests -> Remembered']
    BY <1>2, RequestsTyped DEF WriteListing, Finish
  <2> QED
    BY <1>2, <2>1, <2>2 DEF WriteListing, TypeOK
<1>3. ASSUME NEW v \in Versions, NEW current \in BOOLEAN, ReadOffers(r, v, current)
      PROVE  TypeOK'
  <2>1. [op |-> "offer", version |-> v, current |-> current, read |-> offers] \in Remembered
    BY DEF TypeOK, Remembered
  <2>2. request' \in [Requests -> Remembered']
    BY <1>3, <2>1, RequestsTyped DEF ReadOffers, Begin
  <2> QED
    BY <1>3, <2>2 DEF ReadOffers, TypeOK
<1>4. CASE WriteOffers(r)
  <2>1. offers' \in [Versions -> Offered]
    BY <1>4 DEF WriteOffers, TypeOK, Offered
  <2>2. request' \in [Requests -> Remembered']
    BY <1>4, RequestsTyped DEF WriteOffers, Finish
  <2> QED
    BY <1>4, <2>1, <2>2 DEF WriteOffers, TypeOK, Offered
<1> QED
  BY <1>1, <1>2, <1>3, <1>4 DEF CreatorStep

LEMMA TypeBuyer ==
  ASSUME TypeOK, NEW r \in Requests, BuyerStep(r)
  PROVE  TypeOK'
<1>1. ASSUME NEW key \in Keys \cup {NoKey}, NEW v \in Versions, ReadPurchase(r, key, v)
      PROVE  TypeOK'
  <2>1. [op |-> "purchase", key |-> key, version |-> v] \in Remembered
    BY DEF Remembered
  <2>2. request' \in [Requests -> Remembered']
    BY <1>1, <2>1, RequestsTyped DEF ReadPurchase, Begin
  <2> QED
    BY <1>1, <2>2 DEF ReadPurchase, TypeOK
<1>2. CASE WritePurchase(r)
  <2> DEFINE sold == [key |-> request[r].key, status |-> "PAID"]
             licence == [version |-> request[r].version, status |-> "ACTIVE", until |-> Until]
  <2>1. sold \in Purchase /\ purchases \in Seq(Purchase) /\ purchases' = Append(purchases, sold)
    BY <1>2, RequestType DEF WritePurchase, TypeOK, Purchase
  <2>2. Until \in Nat
    BY RedDeskAssumption DEF Until, Never, TypeOK
  <2>3. /\ licence \in Licence /\ licences \in Seq(Licence)
        /\ licences' = Append(licences, licence)
    BY <1>2, <2>2, RequestType DEF WritePurchase, TypeOK, Licence, Status
  <2>4. /\ purchases' \in Seq(Purchase) /\ licences' \in Seq(Licence)
        /\ Len(purchases') = Len(purchases) + 1 /\ Len(licences') = Len(licences) + 1
    BY <2>1, <2>3
  <2>5. /\ DOMAIN purchases \subseteq DOMAIN purchases'
        /\ DOMAIN licences \subseteq DOMAIN licences'
    BY <2>1, <2>3, <2>4, SeqElements
  <2>6. request' \in [Requests -> Remembered']
    BY <1>2, <2>5, RequestsTyped DEF WritePurchase, Finish
  <2> QED
    BY <1>2, <2>4, <2>6 DEF WritePurchase, TypeOK, Purchase, Licence, Status
<1>3. ASSUME NEW i \in DOMAIN purchases, ReadRefund(r, i)
      PROVE  TypeOK'
  <2>1. [op |-> "refund", purchase |-> i] \in Remembered
    BY DEF Remembered
  <2>2. request' \in [Requests -> Remembered']
    BY <1>3, <2>1, RequestsTyped DEF ReadRefund, Begin
  <2> QED
    BY <1>3, <2>2 DEF ReadRefund, TypeOK
<1>4. CASE LookUpLicence(r)
  <2> DEFINE i == request[r].purchase
  <2>1. i \in DOMAIN purchases /\ licences[i].status \in Status
    BY <1>4, RequestType, SameRows DEF LookUpLicence, Licence
  <2>2. [op |-> "revoke", purchase |-> i, read |-> licences[i].status] \in Remembered
    BY <2>1 DEF Remembered, Status
  <2>3. request' \in [Requests -> Remembered']
    BY <1>4, <2>2, RequestsTyped DEF LookUpLicence, TypeOK
  <2> QED
    BY <1>4, <2>3 DEF LookUpLicence, TypeOK
<1>5. CASE WriteRefund(r)
  <2> DEFINE i == request[r].purchase
  <2>1. i \in DOMAIN purchases /\ i \in DOMAIN licences
    BY <1>5, RequestType, SameRows DEF WriteRefund
  <2>2. purchases' \in Seq(Purchase) /\ Len(purchases') = Len(purchases)
    <3>1. [purchases[i] EXCEPT !.status = "REFUNDED"] \in Purchase
      BY <2>1, SameRows DEF Purchase
    <3>2. purchases' = [purchases EXCEPT ![i] = [purchases[i] EXCEPT !.status = "REFUNDED"]]
      BY <1>5 DEF WriteRefund
    <3> QED
      BY <2>1, <3>1, <3>2, UpdatedSeq DEF TypeOK, Purchase
  <2>3. licences' \in Seq(Licence) /\ Len(licences') = Len(licences)
    <3>1. [licences[i] EXCEPT !.status = "REVOKED"] \in Licence
      BY <2>1, SameRows DEF Licence, Status
    <3>2. \/ licences' = licences
          \/ licences' = [licences EXCEPT ![i] = [licences[i] EXCEPT !.status = "REVOKED"]]
      BY <1>5 DEF WriteRefund, Revoke
    <3>3. licences \in Seq(Licence)
      BY DEF TypeOK, Licence, Status
    <3> QED
      BY <2>1, <3>1, <3>2, <3>3, UpdatedSeq
  <2>4. DOMAIN purchases' = DOMAIN purchases /\ DOMAIN licences' = DOMAIN licences
    BY <2>2, <2>3, SameRows, SeqElements
  <2>5. request' \in [Requests -> Remembered']
    BY <1>5, <2>4, RequestsTyped DEF WriteRefund, Finish
  <2> QED
    BY <1>5, <2>2, <2>3, <2>5 DEF WriteRefund, TypeOK, Purchase, Licence, Status
<1>6. ASSUME NEW i \in DOMAIN licences, NEW v \in Versions, ReadAdvance(r, i, v)
      PROVE  TypeOK'
  <2>1. [op |-> "advance", licence |-> i, version |-> v] \in Remembered
    BY DEF Remembered
  <2>2. request' \in [Requests -> Remembered']
    BY <1>6, <2>1, RequestsTyped DEF ReadAdvance, Begin
  <2> QED
    BY <1>6, <2>2 DEF ReadAdvance, TypeOK
<1>7. CASE WriteAdvance(r)
  <2> DEFINE i == request[r].licence
             moved == [licences[i] EXCEPT !.version = request[r].version]
  <2>1. i \in DOMAIN licences /\ moved \in Licence
    BY <1>7, RequestType, SameRows DEF WriteAdvance, Licence
  <2>2. licences' = [licences EXCEPT ![i] = moved]
    BY <1>7 DEF WriteAdvance, Move
  <2>3. licences' \in Seq(Licence) /\ Len(licences') = Len(licences)
    BY <2>1, <2>2, UpdatedSeq DEF TypeOK, Licence, Status
  <2>4. purchases' = purchases /\ DOMAIN licences' = DOMAIN licences
    BY <1>7, <2>2 DEF WriteAdvance
  <2>5. request' \in [Requests -> Remembered']
    BY <1>7, <2>4, RequestsTyped DEF WriteAdvance, Finish
  <2> QED
    BY <1>7, <2>3, <2>5 DEF WriteAdvance, TypeOK, Licence, Status
<1>8. CASE ReadDue(r)
  <2>1. [op |-> "expire", due |-> Overdue] \in Remembered
    BY DEF Remembered, Overdue
  <2>2. request' \in [Requests -> Remembered']
    BY <1>8, <2>1, RequestsTyped DEF ReadDue, Begin
  <2> QED
    BY <1>8, <2>2 DEF ReadDue, TypeOK
<1>9. CASE WriteDue(r)
  <2>1. /\ \A i \in DOMAIN licences : licences[i] \in Licence
        /\ DOMAIN licences = 1 .. Len(licences) /\ Len(licences) \in Nat
    BY SameRows DEF TypeOK
  <2>2. licences' \in [1 .. Len(licences) -> Licence]
    BY <1>9, <2>1 DEF WriteDue, Licence, Status
  <2>3. licences' \in Seq(Licence) /\ Len(licences') = Len(licences)
    BY <2>1, <2>2, LenProperties, SeqDef
  <2>4. purchases' = purchases /\ DOMAIN licences' = DOMAIN licences
    BY <1>9 DEF WriteDue
  <2>5. request' \in [Requests -> Remembered']
    BY <1>9, <2>4, RequestsTyped DEF WriteDue, Finish
  <2> QED
    BY <1>9, <2>3, <2>5 DEF WriteDue, TypeOK, Licence, Status
<1> QED
  BY <1>1, <1>2, <1>3, <1>4, <1>5, <1>6, <1>7, <1>8, <1>9 DEF BuyerStep

LEMMA TypeInit == Init => TypeOK
BY RedDeskAssumption DEF Init, TypeOK, Remembered, Idle, ListingStatus

LEMMA TypeStep == TypeOK /\ [Next]_vars => TypeOK'
<1> SUFFICES ASSUME TypeOK, [Next]_vars
             PROVE  TypeOK'
  OBVIOUS
<1>1. ASSUME NEW r \in Requests, Fail(r)
      PROVE  TypeOK'
  <2>1. request' \in [Requests -> Remembered']
    BY <1>1, RequestsTyped DEF Fail, Finish
  <2> QED
    BY <1>1, <2>1 DEF Fail, TypeOK
<1>2. ASSUME NEW v \in Versions, Publish(v)
      PROVE  TypeOK'
  BY <1>2 DEF Publish, TypeOK, Remembered
<1>3. CASE Tick
  BY <1>3, RedDeskAssumption DEF Tick, TypeOK, Remembered
<1>4. CASE UNCHANGED vars
  BY <1>4 DEF vars, TypeOK, Remembered
<1> QED
  BY <1>1, <1>2, <1>3, <1>4, TypeCreator, TypeBuyer DEF Next

(* Purchases and entitlements keep to their columns' values, and there is  *)
(* one entitlement for each purchase.                                      *)
THEOREM RedDeskTypeCorrect == Spec => []TypeOK
BY TypeInit, TypeStep, PTL DEF Spec
-----------------------------------------------------------------------------
(* What a step may do to a licence that is there.                          *)
LEMMA LicenceSteps ==
  ASSUME TypeOK, [Next]_vars, NEW i \in DOMAIN licences
  PROVE  /\ i \in DOMAIN licences'
         /\ licences'[i].status = "ACTIVE" => licences[i].status = "ACTIVE"
         /\ \/ licences'[i].version = licences[i].version
            \/ \E r \in Requests : /\ request[r].op = "advance" /\ request[r].licence = i
                                   /\ licences'[i].version = request[r].version
<1>0. /\ licences \in Seq(Licence) /\ licences[i] \in Licence
      /\ \A j \in DOMAIN licences : licences[j] \in Licence
  BY SameRows DEF TypeOK, Licence, Status
<1>1. CASE UNCHANGED licences
  BY <1>1
<1>2. ASSUME NEW r \in Requests, WritePurchase(r)
      PROVE  i \in DOMAIN licences' /\ licences'[i] = licences[i]
  BY <1>0, <1>2 DEF WritePurchase
<1>3. ASSUME NEW r \in Requests, WriteRefund(r), ~ UNCHANGED licences
      PROVE  /\ i \in DOMAIN licences' /\ licences'[i].version = licences[i].version
             /\ licences'[i].status \in {licences[i].status, "REVOKED"}
  <2>1. licences' = [licences EXCEPT ![request[r].purchase].status = "REVOKED"]
    BY <1>3 DEF WriteRefund, Revoke
  <2> QED
    BY <1>0, <2>1 DEF Licence
<1>4. ASSUME NEW r \in Requests, WriteAdvance(r)
      PROVE  /\ i \in DOMAIN licences' /\ licences'[i].status = licences[i].status
             /\ \/ licences'[i].version = licences[i].version
                \/ i = request[r].licence /\ licences'[i].version = request[r].version
  <2>1. licences' = [licences EXCEPT ![request[r].licence].version = request[r].version]
    BY <1>4 DEF WriteAdvance, Move
  <2> QED
    BY <1>0, <2>1 DEF Licence
<1>5. ASSUME NEW r \in Requests, WriteDue(r)
      PROVE  /\ i \in DOMAIN licences' /\ licences'[i].version = licences[i].version
             /\ licences'[i].status \in {licences[i].status, "EXPIRED"}
  BY <1>0, <1>5 DEF WriteDue, Licence
<1>6. \/ UNCHANGED licences
      \/ \E r \in Requests : WritePurchase(r) \/ WriteRefund(r) \/ WriteAdvance(r) \/ WriteDue(r)
  BY DEF Next, vars, CreatorStep, BuyerStep, Fail, Publish, Tick, ReadListing, WriteListing,
         ReadOffers, WriteOffers, ReadPurchase, ReadRefund, LookUpLicence, ReadAdvance, ReadDue
<1>7. \A r \in Requests : WriteAdvance(r) => request[r].op = "advance"
  BY DEF WriteAdvance
<1> QED
  BY <1>1, <1>2, <1>3, <1>4, <1>5, <1>6, <1>7

(* expire_due, refund and advance_rolling never give back a licence that   *)
(* was revoked or has expired, in whatever order they commit.              *)
THEOREM EndedLicencesStayEnded == Spec => EndedStaysEnded
<1>1. TypeOK /\ [Next]_vars =>
          [\A i \in DOMAIN licences :
               licences[i].status # "ACTIVE" => licences'[i].status # "ACTIVE"]_vars
  BY LicenceSteps
<1> QED
  BY TypeInit, TypeStep, <1>1, PTL DEF Spec, EndedStaysEnded
-----------------------------------------------------------------------------
(* What requests read stays true enough to act on: only a rolling policy   *)
(* begins an advance, a licence once seen ended is still ended, and a      *)
(* version that was published when it was read is published.               *)
Grounded(r) ==
    /\ request[r].op = "advance" => policy = "rolling"
    /\ request[r].op = "revoke" /\ request[r].read # "ACTIVE" =>
           licences[request[r].purchase].status # "ACTIVE"
    /\ request[r].op \in {"offer", "purchase", "advance"} => request[r].version \in frozen
    /\ request[r].op = "offer" =>
           \A v \in Versions : request[r].read[v] # "none" => v \in frozen

SafeInv ==
    /\ RefundRevokes
    /\ \A i \in DOMAIN licences : licences[i].version \in frozen
    /\ \A v \in Versions : offers[v] # "none" => v \in frozen
    /\ \A r \in Requests : Grounded(r)

LEMMA FixedTerms ==
  ASSUME [Next]_vars
  PROVE  policy' = policy /\ frozen \subseteq frozen'
BY DEF Next, vars, CreatorStep, BuyerStep, Fail, Publish, Tick, ReadListing, WriteListing,
       ReadOffers, WriteOffers, ReadPurchase, WritePurchase, ReadRefund, LookUpLicence, WriteRefund,
       ReadAdvance, WriteAdvance, ReadDue, WriteDue

(* A request that is not new stays grounded. *)
LEMMA GroundedStays ==
  ASSUME TypeOK, SafeInv, [Next]_vars, NEW r \in Requests, request'[r] = request[r]
  PROVE  Grounded(r)'
<1>1. policy' = policy /\ frozen \subseteq frozen'
  BY FixedTerms
<1>2. Grounded(r)
  BY DEF SafeInv
<1>3. request[r].op = "revoke" /\ request[r].read # "ACTIVE" =>
          licences'[request[r].purchase].status # "ACTIVE"
  BY <1>2, RequestType, LicenceSteps, SameRows DEF Grounded
<1> QED
  BY <1>1, <1>2, <1>3 DEF Grounded

(* Only one request moves in a step. *)
LEMMA OthersWait ==
  ASSUME TypeOK, NEW r \in Requests, CreatorStep(r) \/ BuyerStep(r) \/ Fail(r),
         NEW q \in Requests, q # r
  PROVE  request'[q] = request[q]
BY DEF CreatorStep, BuyerStep, Fail, ReadListing, WriteListing,
       ReadOffers, WriteOffers, ReadPurchase, WritePurchase, ReadRefund, LookUpLicence, WriteRefund,
       ReadAdvance, WriteAdvance, ReadDue, WriteDue, Begin, Finish, TypeOK

LEMMA SafeRequest ==
  ASSUME TypeOK, SafeInv, NEW r \in Requests, CreatorStep(r) \/ BuyerStep(r) \/ Fail(r)
  PROVE  SafeInv'
<1>0. [Next]_vars
  BY DEF Next
<1>1. frozen' = frozen /\ policy' = policy
  BY DEF CreatorStep, BuyerStep, Fail, ReadListing, WriteListing, ReadOffers, WriteOffers,
         ReadPurchase, WritePurchase, ReadRefund, LookUpLicence, WriteRefund, ReadAdvance,
         WriteAdvance, ReadDue, WriteDue
<1>2. RefundRevokes'
  <2>1. CASE WriteRefund(r)
    <3> DEFINE i == request[r].purchase
    <3>1. i \in DOMAIN purchases /\ i \in DOMAIN licences /\ licences[i] \in Licence
      BY <2>1, RequestType, SameRows DEF WriteRefund
    <3>2. /\ purchases' = [purchases EXCEPT ![i].status = "REFUNDED"]
          /\ licences' = IF request[r].read = "ACTIVE"
                         THEN [licences EXCEPT ![i].status = "REVOKED"] ELSE licences
      BY <2>1 DEF WriteRefund, Revoke
    <3>3. licences'[i].status # "ACTIVE"
      BY <2>1, <3>1, <3>2 DEF SafeInv, Grounded, WriteRefund, Licence
    <3>4. ASSUME NEW j \in DOMAIN purchases, purchases'[j].status = "REFUNDED"
          PROVE  licences'[j].status # "ACTIVE"
      BY <1>0, <3>2, <3>3, <3>4, LicenceSteps, SameRows DEF SafeInv, RefundRevokes
    <3> QED
      BY <3>2, <3>4 DEF RefundRevokes
  <2>2. CASE WritePurchase(r)
    <3>1. /\ purchases' = Append(purchases, [key |-> request[r].key, status |-> "PAID"])
          /\ purchases \in Seq(Purchase) /\ Len(purchases) \in Nat
      BY <2>2 DEF WritePurchase, TypeOK, Purchase
    <3>2. ASSUME NEW j \in DOMAIN purchases', purchases'[j].status = "REFUNDED"
          PROVE  j \in DOMAIN purchases /\ purchases[j].status = "REFUNDED"
      BY <3>1, <3>2
    <3> QED
      BY <1>0, <3>2, LicenceSteps, SameRows DEF SafeInv, RefundRevokes
  <2>3. CASE purchases' = purchases
    BY <1>0, <2>3, LicenceSteps, SameRows DEF SafeInv, RefundRevokes
  <2> QED
    BY <2>1, <2>2, <2>3 DEF CreatorStep, BuyerStep, Fail, ReadListing, WriteListing, ReadOffers,
       WriteOffers, ReadPurchase, ReadRefund, LookUpLicence, ReadAdvance, WriteAdvance, ReadDue,
       WriteDue
<1>3. \A i \in DOMAIN licences' : licences'[i].version \in frozen
  <2>1. CASE WritePurchase(r)
    <3>1. /\ licences \in Seq(Licence) /\ Len(licences) \in Nat
          /\ licences' = Append(licences, [version |-> request[r].version, status |-> "ACTIVE",
                                           until |-> Until])
      BY <2>1 DEF WritePurchase, TypeOK, Licence, Status
    <3>2. request[r].version \in frozen
      BY <2>1 DEF WritePurchase, SafeInv, Grounded
    <3> QED
      BY <3>1, <3>2 DEF SafeInv
  <2>2. ASSUME NEW i \in DOMAIN licences
        PROVE  licences'[i].version \in frozen
    BY <1>0, LicenceSteps DEF SafeInv, Grounded
  <2>3. CASE DOMAIN licences' = DOMAIN licences
    BY <2>2, <2>3
  <2> QED
    BY <2>1, <2>3 DEF CreatorStep, BuyerStep, Fail, ReadListing, WriteListing, ReadOffers,
       WriteOffers, ReadPurchase, ReadRefund, LookUpLicence, WriteRefund, Revoke, ReadAdvance,
       WriteAdvance, Move, ReadDue, WriteDue
<1>4. \A v \in Versions : offers'[v] # "none" => v \in frozen
  <2>1. CASE WriteOffers(r)
    BY <2>1 DEF WriteOffers, SafeInv, Grounded
  <2>2. CASE offers' = offers
    BY <2>2 DEF SafeInv
  <2> QED
    BY <2>1, <2>2 DEF CreatorStep, BuyerStep, Fail, ReadListing, WriteListing, ReadOffers,
       ReadPurchase, WritePurchase, ReadRefund, LookUpLicence, WriteRefund, ReadAdvance,
       WriteAdvance, ReadDue, WriteDue
<1>5. Grounded(r)'
  <2>1. ASSUME request'[r] = Idle
        PROVE  Grounded(r)'
    BY <2>1 DEF Grounded, Idle
  <2>2. ASSUME NEW move \in Moves, ReadListing(r, move)
        PROVE  Grounded(r)'
    BY <2>2 DEF ReadListing, Begin, Grounded, Moves, TypeOK
  <2>3. ASSUME NEW v \in Versions, NEW current \in BOOLEAN, ReadOffers(r, v, current)
        PROVE  Grounded(r)'
    <3>1. /\ request'[r] = [op |-> "offer", version |-> v, current |-> current, read |-> offers]
          /\ v \in frozen
      BY <2>3 DEF ReadOffers, Begin, Offerable, TypeOK
    <3> QED
      BY <1>1, <3>1 DEF Grounded, SafeInv
  <2>4. ASSUME NEW key \in Keys \cup {NoKey}, NEW v \in Versions, ReadPurchase(r, key, v)
        PROVE  Grounded(r)'
    <3>1. /\ request'[r] = [op |-> "purchase", key |-> key, version |-> v]
          /\ v \in Current
      BY <2>4 DEF ReadPurchase, Begin, TypeOK
    <3> QED
      BY <1>1, <3>1 DEF Grounded, SafeInv, Current
  <2>5. ASSUME NEW i \in DOMAIN purchases, ReadRefund(r, i)
        PROVE  Grounded(r)'
    BY <2>5 DEF ReadRefund, Begin, Grounded, TypeOK
  <2>6. CASE LookUpLicence(r)
    <3>1. /\ request'[r] = [op |-> "revoke", purchase |-> request[r].purchase,
                            read |-> licences[request[r].purchase].status]
          /\ licences' = licences
      BY <2>6 DEF LookUpLicence, TypeOK
    <3> QED
      BY <3>1 DEF Grounded
  <2>7. ASSUME NEW i \in DOMAIN licences, NEW v \in Versions, ReadAdvance(r, i, v)
        PROVE  Grounded(r)'
    <3>1. /\ request'[r] = [op |-> "advance", licence |-> i, version |-> v]
          /\ policy = "rolling" /\ v \in Current
      BY <2>7 DEF ReadAdvance, Begin, MayAdvance, TypeOK
    <3> QED
      BY <1>1, <3>1 DEF Grounded, SafeInv, Current
  <2>8. CASE ReadDue(r)
    BY <2>8 DEF ReadDue, Begin, Grounded, TypeOK
  <2>9. CASE WriteListing(r) \/ WriteOffers(r) \/ WritePurchase(r) \/ WriteRefund(r)
             \/ WriteAdvance(r) \/ WriteDue(r) \/ Fail(r)
    BY <2>1, <2>9 DEF WriteListing, WriteOffers, WritePurchase, WriteRefund, WriteAdvance, WriteDue,
       Fail, Finish, TypeOK
  <2> QED
    BY <2>2, <2>3, <2>4, <2>5, <2>6, <2>7, <2>8, <2>9 DEF CreatorStep, BuyerStep
<1>6. \A q \in Requests : Grounded(q)'
  BY <1>0, <1>5, OthersWait, GroundedStays
<1> QED
  BY <1>1, <1>2, <1>3, <1>4, <1>6 DEF SafeInv

LEMMA SafeStep == TypeOK /\ SafeInv /\ [Next]_vars => SafeInv'
<1> SUFFICES ASSUME TypeOK, SafeInv, [Next]_vars
             PROVE  SafeInv'
  OBVIOUS
<1>1. ASSUME UNCHANGED <<policy, offers, purchases, licences, request>>
      PROVE  SafeInv'
  <2>1. \A q \in Requests : Grounded(q)'
    BY <1>1, GroundedStays
  <2> QED
    BY <1>1, <2>1, FixedTerms DEF SafeInv, RefundRevokes
<1>2. ASSUME NEW r \in Requests, CreatorStep(r) \/ BuyerStep(r) \/ Fail(r)
      PROVE  SafeInv'
  BY <1>2, SafeRequest
<1> QED
  BY <1>1, <1>2 DEF Next, vars, Publish, Tick

LEMMA SafeInit == Init => SafeInv
BY DEF Init, SafeInv, RefundRevokes, Grounded, Idle

(* refund leaves no licence that can be run, whatever raced it.            *)
THEOREM RefundedIsRevoked == Spec => []RefundRevokes
<1>1. SafeInv => RefundRevokes
  BY DEF SafeInv
<1> QED
  BY TypeInit, TypeStep, SafeInit, SafeStep, <1>1, PTL DEF Spec

(* Whatever is on sale or held under a licence is a published version,     *)
(* which cannot be edited (offer_version, assert_mutable).                 *)
THEOREM WhatIsSoldIsFrozen == Spec => []SoldIsFrozen
<1>1. SafeInv => SoldIsFrozen
  BY DEF SafeInv, SoldIsFrozen, Current
<1> QED
  BY TypeInit, TypeStep, SafeInit, SafeStep, <1>1, PTL DEF Spec

(* Only a request of the holder under a rolling policy moves a licence to  *)
(* another version (advance_rolling).                                      *)
THEOREM VersionsMoveOnRequest == Spec => VersionMovesOnRequest
<1>1. TypeOK /\ SafeInv /\ [Next]_vars =>
          [\A i \in DOMAIN licences : licences'[i].version # licences[i].version =>
               /\ policy = "rolling"
               /\ \E r \in Requests : request[r].op = "advance" /\ request[r].licence = i]_vars
  BY LicenceSteps DEF SafeInv, Grounded
<1> QED
  BY TypeInit, TypeStep, SafeInit, SafeStep, <1>1, PTL DEF Spec, VersionMovesOnRequest
=============================================================================
