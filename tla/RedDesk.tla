------------------------------ MODULE RedDesk ------------------------------
(***************************************************************************)
(* One marketplace listing and the licences one buyer holds from it        *)
(* (reddesk/marketplace.py, reddesk/entitlements.py): the lifecycle of the *)
(* listing, the versions it offers, purchases, refunds, advances and       *)
(* expiry, as concurrent requests that read rows and write the columns     *)
(* they changed when they commit (READ COMMITTED).                         *)
(***************************************************************************)
EXTENDS Integers, Sequences, FiniteSets

CONSTANTS
    Requests,      \* requests that may be in progress at the same time
    Versions,      \* versions of the listed strategy
    Keys,          \* idempotency keys of purchases
    NoKey,         \* a purchase sent without one
    MaxPurchases,  \* bound on purchases
    MaxTime        \* bound on the clock, in billing terms

ASSUME RedDeskAssumption ==
    /\ NoKey \notin Keys
    /\ MaxPurchases \in Nat /\ MaxTime \in Nat

VARIABLES
    policy,     \* version_access_policy of the listing, fixed when it is created
    recurring,  \* whether a purchase is for one billing term, fixed likewise
    frozen,     \* the versions that are published
    listing,    \* status of the listing
    offers,     \* listing_versions: is each version offered, is it current
    purchases,  \* rows of purchases
    licences,   \* rows of entitlements, one for each purchase
    now,
    request     \* what each request has read

vars == <<policy, recurring, frozen, listing, offers, purchases, licences, now, request>>
-----------------------------------------------------------------------------
(* VALIDATING is never committed: submit_listing passes through it. *)
ListingStatus == {"DRAFT", "SUBMITTED", "APPROVED", "PUBLISHED", "REJECTED", "WITHDRAWN"}

(* The moves of a listing: from where, to where. *)
Moves == {"submit", "approve", "reject", "publish", "withdraw"}

From == [submit   |-> {"DRAFT", "REJECTED"},
         approve  |-> {"SUBMITTED"},
         reject   |-> {"SUBMITTED"},
         publish  |-> {"APPROVED"},
         withdraw |-> ListingStatus]

To == [submit |-> "SUBMITTED", approve |-> "APPROVED", reject |-> "REJECTED",
       publish |-> "PUBLISHED", withdraw |-> "WITHDRAWN"]

Idle == [op |-> "idle"]

(* The end of a term; a purchase that is not recurring never ends. *)
Never == MaxTime + 1
Until == IF recurring THEN now + 1 ELSE Never

Due(i) == licences[i].until <= now

(* _is_live *)
Live(i) == licences[i].status = "ACTIVE" /\ ~Due(i)

Current == {v \in Versions : offers[v] = "current"}

(* validate_listing: the text of a listing cannot be edited, so what may   *)
(* be wrong is what it offers.                                             *)
Valid ==
    /\ Current # {}
    /\ \A v \in Versions : offers[v] # "none" => v \in frozen

Init ==
    /\ policy \in {"pinned", "rolling"}
    /\ recurring \in BOOLEAN
    /\ frozen = {}
    /\ listing = "DRAFT"
    /\ offers = [v \in Versions |-> "none"]
    /\ purchases = <<>>
    /\ licences = <<>>
    /\ now = 0
    /\ request = [r \in Requests |-> Idle]
-----------------------------------------------------------------------------
Begin(r, what) == request[r] = Idle /\ request' = [request EXCEPT ![r] = what]
Finish(r) == request' = [request EXCEPT ![r] = Idle]

(* A request fails and is rolled back. *)
Fail(r) ==
    /\ request[r] # Idle
    /\ Finish(r)
    /\ UNCHANGED <<policy, recurring, frozen, listing, offers, purchases, licences, now>>

(* strategies.service.publish freezes a draft version. *)
Publish(v) ==
    /\ v \notin frozen
    /\ frozen' = frozen \cup {v}
    /\ UNCHANGED <<policy, recurring, listing, offers, purchases, licences, now, request>>

(* submit_listing, review_listing, publish_listing and withdraw_listing    *)
(* read the listing and check it ...                                       *)
ReadListing(r, move) ==
    /\ listing \in From[move]
    /\ move \in {"submit", "publish"} => Valid
    /\ Begin(r, [op |-> move, read |-> listing])
    /\ UNCHANGED <<policy, recurring, frozen, listing, offers, purchases, licences, now>>

(* ... and write its status, unless they read that status already.         *)
WriteListing(r) ==
    /\ request[r].op \in Moves
    /\ listing' = IF request[r].read = To[request[r].op] THEN listing ELSE To[request[r].op]
    /\ Finish(r)
    /\ UNCHANGED <<policy, recurring, frozen, offers, purchases, licences, now>>

(* offer_version: only a published version. *)
Offerable(v) == v \in frozen

ReadOffers(r, v, current) ==
    /\ Offerable(v)
    /\ Begin(r, [op |-> "offer", version |-> v, current |-> current, read |-> offers])
    /\ UNCHANGED <<policy, recurring, frozen, listing, offers, purchases, licences, now>>

(* The columns it changed from what it read.  Inserting a version that     *)
(* another request has inserted since is refused by uq_listing_version.    *)
Inserts(r) == request[r].read[request[r].version] = "none"

WriteOffers(r) ==
    /\ request[r].op = "offer"
    /\ Inserts(r) => offers[request[r].version] = "none"
    /\ offers' = [v \in Versions |->
           IF v = request[r].version
           THEN IF request[r].current /\ request[r].read[v] # "current" THEN "current"
                ELSE IF Inserts(r) THEN "offered" ELSE offers[v]
           ELSE IF request[r].current /\ request[r].read[v] = "current" THEN "offered"
                ELSE offers[v]]
    /\ Finish(r)
    /\ UNCHANGED <<policy, recurring, frozen, listing, purchases, licences, now>>
-----------------------------------------------------------------------------
(* purchase: the listing is on sale and nothing was bought under this key; *)
(* the version sold is a current one.                                      *)
Bought(key) == \E i \in DOMAIN purchases : purchases[i].key = key /\ key # NoKey

ReadPurchase(r, key, v) ==
    /\ listing = "PUBLISHED"
    /\ ~Bought(key)
    /\ v \in Current
    /\ Begin(r, [op |-> "purchase", key |-> key, version |-> v])
    /\ UNCHANGED <<policy, recurring, frozen, listing, offers, purchases, licences, now>>

(* The manual provider settles at once, so the purchase and its licence    *)
(* are written together.                                                   *)
WritePurchase(r) ==
    /\ request[r].op = "purchase"
    /\ Len(purchases) < MaxPurchases
    /\ purchases' = Append(purchases, [key |-> request[r].key, status |-> "PAID"])
    /\ licences' = Append(licences, [version |-> request[r].version, status |-> "ACTIVE",
                                     until |-> Until])
    /\ Finish(r)
    /\ UNCHANGED <<policy, recurring, frozen, listing, offers, now>>

(* refund: only a PAID purchase ... *)
ReadRefund(r, i) ==
    /\ purchases[i].status = "PAID"
    /\ Begin(r, [op |-> "refund", purchase |-> i])
    /\ UNCHANGED <<policy, recurring, frozen, listing, offers, purchases, licences, now>>

(* ... whose entitlement it looks up once the provider has answered ...    *)
LookUpLicence(r) ==
    /\ request[r].op = "refund"
    /\ request' = [request EXCEPT ![r] = [op |-> "revoke", purchase |-> @.purchase,
                                          read |-> licences[@.purchase].status]]
    /\ UNCHANGED <<policy, recurring, frozen, listing, offers, purchases, licences, now>>

(* ... and revokes when it is ACTIVE.  The mutant forgets to.              *)
LeaveLicence(i, read) == UNCHANGED licences
Revoke(i, read) == licences' = IF read = "ACTIVE"
                               THEN [licences EXCEPT ![i].status = "REVOKED"] ELSE licences

WriteRefund(r) ==
    /\ request[r].op = "revoke"
    /\ purchases' = [purchases EXCEPT ![request[r].purchase].status = "REFUNDED"]
    /\ Revoke(request[r].purchase, request[r].read)
    /\ Finish(r)
    /\ UNCHANGED <<policy, recurring, frozen, listing, offers, now>>

(* advance_rolling: refused for a pinned licence; the mutant is not.       *)
AnyPolicy == TRUE
MayAdvance == policy = "rolling"

ReadAdvance(r, i, v) ==
    /\ MayAdvance
    /\ licences[i].status = "ACTIVE"
    /\ v \in Current
    /\ v # licences[i].version
    /\ Begin(r, [op |-> "advance", licence |-> i, version |-> v])
    /\ UNCHANGED <<policy, recurring, frozen, listing, offers, purchases, licences, now>>

(* Only the version is written.  The mutant writes the row as it was read. *)
MoveRow(i, v) == licences' = [licences EXCEPT ![i].version = v, ![i].status = "ACTIVE"]
Move(i, v) == licences' = [licences EXCEPT ![i].version = v]

WriteAdvance(r) ==
    /\ request[r].op = "advance"
    /\ Move(request[r].licence, request[r].version)
    /\ Finish(r)
    /\ UNCHANGED <<policy, recurring, frozen, listing, offers, purchases, now>>

(* expire_due marks every ACTIVE licence whose term has ended.             *)
Overdue == {i \in DOMAIN licences : licences[i].status = "ACTIVE" /\ Due(i)}

ReadDue(r) ==
    /\ Overdue # {}
    /\ Begin(r, [op |-> "expire", due |-> Overdue])
    /\ UNCHANGED <<policy, recurring, frozen, listing, offers, purchases, licences, now>>

WriteDue(r) ==
    /\ request[r].op = "expire"
    /\ licences' = [i \in DOMAIN licences |->
                       IF i \in request[r].due THEN [licences[i] EXCEPT !.status = "EXPIRED"]
                       ELSE licences[i]]
    /\ Finish(r)
    /\ UNCHANGED <<policy, recurring, frozen, listing, offers, purchases, now>>

Tick ==
    /\ now < MaxTime
    /\ now' = now + 1
    /\ UNCHANGED <<policy, recurring, frozen, listing, offers, purchases, licences, request>>
-----------------------------------------------------------------------------
CreatorStep(r) ==
    \/ \E move \in Moves : ReadListing(r, move)
    \/ WriteListing(r)
    \/ \E v \in Versions, current \in BOOLEAN : ReadOffers(r, v, current)
    \/ WriteOffers(r)

BuyerStep(r) ==
    \/ \E key \in Keys \cup {NoKey}, v \in Versions : ReadPurchase(r, key, v)
    \/ WritePurchase(r)
    \/ \E i \in DOMAIN purchases : ReadRefund(r, i)
    \/ LookUpLicence(r)
    \/ WriteRefund(r)
    \/ \E i \in DOMAIN licences, v \in Versions : ReadAdvance(r, i, v)
    \/ WriteAdvance(r)
    \/ ReadDue(r)
    \/ WriteDue(r)

Next == \/ \E r \in Requests : CreatorStep(r) \/ BuyerStep(r) \/ Fail(r)
        \/ \E v \in Versions : Publish(v)
        \/ Tick

Spec == Init /\ [][Next]_vars
-----------------------------------------------------------------------------
(* What a request remembers between its reads and its writes. *)
Remembered ==
    [op : {"idle"}]
    \cup [op : Moves, read : ListingStatus]
    \cup [op : {"offer"}, version : Versions, current : BOOLEAN,
          read : [Versions -> {"none", "offered", "current"}]]
    \cup [op : {"purchase"}, key : Keys \cup {NoKey}, version : Versions]
    \cup [op : {"refund"}, purchase : DOMAIN purchases]
    \cup [op : {"revoke"}, purchase : DOMAIN purchases, read : {"ACTIVE", "EXPIRED", "REVOKED"}]
    \cup [op : {"advance"}, licence : DOMAIN licences, version : Versions]
    \cup [op : {"expire"}, due : SUBSET DOMAIN licences]

(* Every variable holds a value of its column or local's type; a purchase  *)
(* and its licence are always there together.                              *)
TypeOK ==
    /\ policy \in {"pinned", "rolling"} /\ recurring \in BOOLEAN
    /\ frozen \subseteq Versions
    /\ listing \in ListingStatus
    /\ offers \in [Versions -> {"none", "offered", "current"}]
    /\ purchases \in Seq([key : Keys \cup {NoKey}, status : {"PAID", "REFUNDED"}])
    /\ licences \in Seq([version : Versions, status : {"ACTIVE", "EXPIRED", "REVOKED"},
                         until : Nat])
    /\ Len(licences) = Len(purchases)
    /\ now \in 0..MaxTime
    /\ request \in [Requests -> Remembered]

(* A refunded purchase leaves no licence that can be run, whatever other   *)
(* refund, advance or expiry raced the refund.                             *)
RefundRevokes == \A i \in DOMAIN purchases :
                     purchases[i].status = "REFUNDED" => licences[i].status # "ACTIVE"

(* What buyers hold and what is for sale cannot change: it is published.   *)
SoldIsFrozen == /\ \A i \in DOMAIN licences : licences[i].version \in frozen
                /\ Current \subseteq frozen

(* A licence changes its version only under a rolling policy, by a request *)
(* of its holder, and never because the creator offered something newer.   *)
VersionMovesOnRequest ==
    [][\A i \in DOMAIN licences : licences'[i].version # licences[i].version =>
           /\ policy = "rolling"
           /\ \E r \in Requests : request[r].op = "advance" /\ request[r].licence = i]_vars

(* A licence that was revoked or expired never becomes active again.       *)
EndedStaysEnded ==
    [][\A i \in DOMAIN licences :
           licences[i].status # "ACTIVE" => licences'[i].status # "ACTIVE"]_vars

(* resolve_version takes whichever licence for the version the database    *)
(* returns first, live or not.  A live licence should resolve.             *)
MayRefuse(v) == \E i \in DOMAIN licences : licences[i].version = v /\ ~Live(i)

LicenceResolves == \A i \in DOMAIN licences : Live(i) => ~MayRefuse(licences[i].version)

(* A withdrawn listing is not for sale again.                              *)
WithdrawnStays == [][listing = "WITHDRAWN" => listing' = "WITHDRAWN"]_vars

(* A purchase repeated under its key is the same purchase.                 *)
OnePurchasePerKey == \A i, j \in DOMAIN purchases :
    purchases[i].key = purchases[j].key /\ purchases[i].key # NoKey => i = j

(* A listing sells one version.                                            *)
OneCurrent == Cardinality(Current) <= 1
=============================================================================
