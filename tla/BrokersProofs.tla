--------------------------- MODULE BrokersProofs ---------------------------
(***************************************************************************)
(* Proofs about Brokers, for any number of overlapping requests, tokens,   *)
(* keys and attempts, and any set of moments.                              *)
(***************************************************************************)
EXTENDS Brokers, WellFoundedInduction, TLAPS

-----------------------------------------------------------------------------
(* What a request remembers. *)
Tokens == 0 .. MaxTokens

Remembered ==
    {Idle} \cup [op : {"begin", "authorize", "disconnect", "rotate"}, read : Rows, token : Tokens]

(* Type correctness.  It is inductive together with the facts that a       *)
(* credential is of a token the venue issued and that an authorization in  *)
(* progress had an attempt left.                                           *)
Issued(token) == token \in 0 .. Len(tokens)

TypeInv ==
    /\ TypeOK
    /\ tokens \in Seq([issued : Moments, ended : BOOLEAN]) /\ Len(tokens) <= MaxTokens
    /\ request \in [Requests -> Remembered]
    /\ Issued(row.cred.token)
    /\ \A r \in Requests : request[r].op # "idle" =>
           /\ Issued(request[r].token) /\ Issued(request[r].read.cred.token)
           /\ request[r].op = "authorize" => request[r].read.attempts < MaxAttempts

LEMMA SeqElements ==
  ASSUME NEW S, NEW s \in Seq(S)
  PROVE  DOMAIN s = 1 .. Len(s) /\ \A t \in DOMAIN s : s[t] \in S
OBVIOUS

LEMMA SealedType ==
  ASSUME NEW cred \in Sealed
  PROVE  /\ cred = [token |-> cred.token, key |-> cred.key]
         /\ cred.token \in Tokens /\ cred.key \in 0 .. MaxKeys
         /\ cred # None => cred.token \in 1 .. MaxTokens /\ cred.key \in 1 .. MaxKeys
BY BrokersAssumption DEF Sealed, None, Tokens

(* The write of a request: each column is as the request wants it, or as   *)
(* it was.                                                                 *)
LEMMA WriteEffect ==
  ASSUME TypeInv, NEW r \in Requests, request[r].op # "idle", NEW want \in Rows, Write(r, want)
  PROVE  /\ row' \in Rows
         /\ row'.cred = IF want.cred = request[r].read.cred THEN row.cred ELSE want.cred
         /\ request' = [request EXCEPT ![r] = Idle]
<1>1. row \in Rows /\ request[r].read \in Rows
  BY DEF TypeInv, TypeOK, Remembered, Idle
<1>2. DOMAIN row = {"state", "cred", "attempts"}
  BY <1>1 DEF Rows
<1>3. row' = [c \in {"state", "cred", "attempts"} |->
                 IF want[c] = request[r].read[c] THEN row[c] ELSE want[c]]
  BY <1>2 DEF Write, Changed
<1>4. row' \in Rows
  BY <1>1, <1>3 DEF Rows
<1> QED
  BY <1>3, <1>4 DEF Write, Finish
-----------------------------------------------------------------------------
(* Time. *)
LEMMA FirstOf ==
  ASSUME NEW T, T \subseteq Nat, T # {}
  PROVE  \E t \in T : \A u \in T : t <= u
<1> DEFINE Less == {ss \in Nat \X Nat : ss[1] < ss[2]}
<1>1. IsWellFoundedOn(Less, Nat)
  BY NatLessThanWellFounded DEF OpToRel
<1>2. PICK t \in T : \A u \in T : ~ (<<u, t>> \in Less)
  <2> HIDE DEF Less
  <2> QED
    BY <1>1, WFMin
<1>3. ASSUME NEW u \in T, u < t
      PROVE  FALSE
  <2> DEFINE p == <<u, t>>
  <2>1. p \in Nat \X Nat /\ p[1] = u /\ p[2] = t
    OBVIOUS
  <2>2. p \in Less
    <3> HIDE DEF p
    <3> QED
      BY <1>3, <2>1
  <2> QED
    BY <1>2, <2>2
<1> QED
  BY <1>3

LEMMA FirstIsFirst == First \in Moments
BY FirstOf, BrokersAssumption DEF First

LEMMA NextIsLater ==
  ASSUME Later # {}
  PROVE  (CHOOSE t \in Later : \A u \in Later : t <= u) \in Moments
BY FirstOf, BrokersAssumption DEF Later
-----------------------------------------------------------------------------
LEMMA TypeInit == Init => TypeInv
<1> SUFFICES ASSUME Init
             PROVE  TypeInv
  OBVIOUS
<1>a. row \in Rows
  BY BrokersAssumption DEF Init, Rows, States, None, Sealed
<1>b. totp \in 0 .. MaxKeys /\ clean = FALSE /\ now \in Moments
  BY FirstIsFirst, BrokersAssumption DEF Init
<1>c. keys \in [current : 1 .. MaxKeys, retired : SUBSET (1 .. MaxKeys)]
  <2>1. 1 \in 1 .. MaxKeys
    BY BrokersAssumption
  <2> QED
    BY <2>1 DEF Init
<1>d. DOMAIN tokens = {}
  BY DEF Init
<1>1. TypeOK
  BY <1>a, <1>b, <1>c, <1>d, Zenon DEF TypeOK
<1>2. Issued(row.cred.token) /\ tokens = <<>>
  BY DEF Init, Issued, None
<1>3. \A r \in Requests : request[r] = Idle
  BY DEF Init
<1> QED
  BY <1>1, <1>2, <1>3, BrokersAssumption DEF Init, TypeInv, Remembered, Idle

(* What a request that is not idle remembers. *)
LEMMA RequestType ==
  ASSUME TypeInv, NEW r \in Requests, request[r].op # "idle"
  PROVE  /\ request[r] \in [op : {"begin", "authorize", "disconnect", "rotate"}, read : Rows,
                            token : Tokens]
         /\ request[r].read \in Rows /\ request[r].read.cred \in Sealed
BY DEF TypeInv, Remembered, Idle, Rows

(* A request that ends, having written a row of the right type.            *)
LEMMA EndsTyped ==
  ASSUME TypeInv, NEW r \in Requests, request[r].op # "idle", NEW want \in Rows, Write(r, want),
         Issued(want.cred.token), UNCHANGED <<totp, keys, now>>, clean' \in BOOLEAN,
         tokens' \in Seq([issued : Moments, ended : BOOLEAN]), Len(tokens') = Len(tokens)
  PROVE  TypeInv'
<1>1. /\ row' \in Rows
      /\ row'.cred = row.cred \/ row'.cred = want.cred
      /\ request' = [request EXCEPT ![r] = Idle]
  BY WriteEffect
<1>a. \A t \in DOMAIN tokens' : tokens'[t] \in [issued : Moments, ended : BOOLEAN]
  BY SeqElements
<1>2. TypeOK'
  BY <1>1, <1>a DEF TypeInv, TypeOK
<1>3. request' \in [Requests -> Remembered]
  BY <1>1 DEF TypeInv, Remembered
<1>4. Issued(row.cred.token)' /\ (\A n : Issued(n) => Issued(n)')
  BY <1>1 DEF TypeInv, Issued
<1>5. \A q \in Requests : request'[q] = request[q] \/ request'[q] = Idle
  BY <1>1 DEF TypeInv
<1> QED
  BY <1>2, <1>3, <1>4, <1>5 DEF TypeInv, Idle, Issued

(* A request begins with the row as it is.                                 *)
LEMMA ReadsTyped ==
  ASSUME TypeInv, NEW r \in Requests, NEW op \in {"begin", "authorize", "disconnect", "rotate"},
         op = "authorize" => row.attempts < MaxAttempts, ReadRow(r, op)
  PROVE  TypeInv'
<1>1. /\ request' = [request EXCEPT ![r] = [op |-> op, read |-> row, token |-> 0]]
      /\ UNCHANGED <<row, totp, keys, clean, tokens, now>>
  BY DEF ReadRow, Begin, settings
<1>2. TypeOK'
  BY <1>1 DEF TypeInv, TypeOK
<1>3. request' \in [Requests -> Remembered]
  BY <1>1, BrokersAssumption DEF TypeInv, TypeOK, Remembered, Tokens
<1>4. \A q \in Requests : request'[q] = request[q]
                           \/ request'[q] = [op |-> op, read |-> row, token |-> 0]
  BY <1>1 DEF TypeInv
<1> QED
  BY <1>1, <1>2, <1>3, <1>4 DEF TypeInv, Issued
-----------------------------------------------------------------------------
LEMMA RequestsTyped ==
  ASSUME TypeInv, NEW r \in Requests, ConnectionStep(r) \/ RotationStep(r) \/ Refused(r)
  PROVE  TypeInv'
<1> DEFINE read == request[r].read
<1>1. CASE BeginAuthorization(r)
  BY <1>1, ReadsTyped DEF BeginAuthorization
<1>2. CASE Authorize(r)
  BY <1>2, ReadsTyped DEF Authorize
<1>3. CASE Disconnect(r)
  BY <1>3, ReadsTyped DEF Disconnect
<1>4. CASE ReadRotation(r)
  BY <1>4, ReadsTyped DEF ReadRotation
<1>5. CASE WriteBegin(r)
  <2>1. read \in Rows /\ Issued(read.cred.token) /\ request[r].op # "idle"
    BY <1>5, RequestType DEF WriteBegin, TypeInv
  <2>2. Begun(read) \in Rows /\ Begun(read).cred = read.cred
    BY <2>1 DEF Begun, Rows, States
  <2> QED
    BY <1>5, <2>1, <2>2, EndsTyped DEF WriteBegin, TypeInv, TypeOK, settings
<1>6. CASE Exchange(r)
  <2>1. request[r].op # "idle" /\ request[r].op = "authorize"
    BY <1>6 DEF Exchange
  <2>2. /\ tokens' = Append(tokens, [issued |-> now, ended |-> FALSE])
        /\ [issued |-> now, ended |-> FALSE] \in [issued : Moments, ended : BOOLEAN]
    BY <1>6 DEF Exchange, TypeInv, TypeOK
  <2>3. /\ tokens' \in Seq([issued : Moments, ended : BOOLEAN])
        /\ Len(tokens') = Len(tokens) + 1 /\ Len(tokens') <= MaxTokens
    BY <1>6, <2>2, BrokersAssumption DEF Exchange, TypeInv
  <2>4. /\ request' = [request EXCEPT ![r].token = Len(tokens) + 1]
        /\ UNCHANGED <<row, totp, keys, clean, now>>
    BY <1>6 DEF Exchange, settings
  <2>5. TypeOK'
    BY <2>3, <2>4, SeqElements DEF TypeInv, TypeOK
  <2>6. /\ request'[r] = [request[r] EXCEPT !.token = Len(tokens) + 1]
        /\ \A q \in Requests : q # r => request'[q] = request[q]
        /\ request' = [q \in Requests |-> request'[q]]
    BY <2>4 DEF TypeInv
  <2>7. /\ request'[r] \in Remembered /\ request'[r].op = "authorize"
        /\ request'[r].read = read /\ request'[r].token = Len(tokens')
    BY <2>1, <2>3, <2>6, RequestType, BrokersAssumption DEF Remembered, Tokens
  <2>8. request' \in [Requests -> Remembered]
    BY <2>6, <2>7 DEF TypeInv
  <2>9. Len(tokens) \in Nat /\ Len(tokens') \in Nat /\ 0 .. Len(tokens) \subseteq 0 .. Len(tokens')
    BY <2>3 DEF TypeInv
  <2>10. /\ row'.cred.token \in 0 .. Len(tokens')
         /\ \A q \in Requests : request'[q].op # "idle" =>
                /\ request'[q].token \in 0 .. Len(tokens')
                /\ request'[q].read.cred.token \in 0 .. Len(tokens')
                /\ request'[q].op = "authorize" => request'[q].read.attempts < MaxAttempts
    BY <2>1, <2>4, <2>6, <2>7, <2>9 DEF TypeInv, Issued
  <2> QED
    BY <2>3, <2>5, <2>8, <2>10 DEF TypeInv, Issued
<1>7. CASE WriteAuthorize(r)
  <2> DEFINE want == [state |-> "CONNECTED", attempts |-> read.attempts + 1,
                      cred |-> [token |-> request[r].token, key |-> keys.current]]
  <2>1. /\ read \in Rows /\ request[r].op = "authorize" /\ request[r].token # 0
        /\ Issued(request[r].token) /\ request[r].token \in Tokens
        /\ read.attempts < MaxAttempts
    BY <1>7, RequestType DEF WriteAuthorize, TypeInv
  <2>2. want.cred \in Sealed
    BY <2>1, BrokersAssumption DEF Sealed, Tokens, TypeInv, TypeOK
  <2>3. read.attempts + 1 \in 0 .. MaxAttempts
    BY <2>1, BrokersAssumption DEF Rows
  <2>4. want \in Rows
    BY <2>2, <2>3 DEF Rows, States
  <2> QED
    BY <1>7, <2>1, <2>4, EndsTyped DEF WriteAuthorize, TypeInv, TypeOK, settings
<1>8. CASE WriteDisconnect(r)
  <2>1. /\ read \in Rows /\ Issued(read.cred.token) /\ read.cred \in Sealed
        /\ request[r].op = "disconnect"
    BY <1>8, RequestType DEF WriteDisconnect, TypeInv
  <2>2. PICK told \in BOOLEAN :
           /\ told => Loads(r)
           /\ tokens' = IF told THEN Told(read.cred.token) ELSE tokens
           /\ Write(r, [read EXCEPT !.state = "REVOKED", !.cred = None])
           /\ UNCHANGED <<totp, keys, clean, now>>
    BY <1>8 DEF WriteDisconnect, Forgets, settings
  <2>3. told => read.cred.token \in 1 .. Len(tokens)
    BY <2>1, <2>2, SealedType DEF Loads, Issued
  <2>4. tokens' \in Seq([issued : Moments, ended : BOOLEAN]) /\ Len(tokens') = Len(tokens)
    <3>1. CASE told
      <4>1. tokens' = [tokens EXCEPT ![read.cred.token].ended = TRUE]
        BY <2>2, <3>1 DEF Told
      <4>2. tokens[read.cred.token] \in [issued : Moments, ended : BOOLEAN]
        BY <2>3, <3>1, SeqElements DEF TypeInv
      <4>3. [tokens[read.cred.token] EXCEPT !.ended = TRUE] \in [issued : Moments, ended : BOOLEAN]
        BY <4>2
      <4> QED
        BY <2>3, <3>1, <4>1, <4>3 DEF TypeInv
    <3>2. CASE ~told
      BY <2>2, <3>2 DEF TypeInv
    <3> QED
      BY <3>1, <3>2
  <2>5. [read EXCEPT !.state = "REVOKED", !.cred = None] \in Rows
    BY <2>1 DEF Rows, States, Sealed
  <2>6. Issued([read EXCEPT !.state = "REVOKED", !.cred = None].cred.token)
    BY <2>1 DEF Rows, None, Issued, TypeInv
  <2> QED
    BY <2>1, <2>2, <2>4, <2>5, <2>6, EndsTyped DEF TypeInv, TypeOK
<1>9. CASE WriteRotation(r)
  <2> DEFINE want == [read EXCEPT !.cred = IF Opens(@.key) THEN Reseal(@) ELSE @]
  <2>1. /\ read \in Rows /\ Issued(read.cred.token) /\ read.cred \in Sealed
        /\ request[r].op # "idle"
    BY <1>9, RequestType DEF WriteRotation, TypeInv
  <2>2. clean' \in BOOLEAN
    BY <1>9 DEF WriteRotation, Opens
  <2>3. Opens(read.cred.key) => read.cred.key \in 1 .. MaxKeys
    BY DEF Opens, TypeInv, TypeOK
  <2>4. ASSUME Opens(read.cred.key)
        PROVE  Reseal(read.cred) \in Sealed /\ Reseal(read.cred).token = read.cred.token
    BY <2>1, <2>3, <2>4 DEF Reseal, Sealed, None, TypeInv, TypeOK
  <2>5. want \in Rows /\ want.cred.token = read.cred.token
    BY <2>1, <2>4 DEF Rows
  <2> QED
    BY <1>9, <2>1, <2>2, <2>5, EndsTyped DEF WriteRotation, TypeInv, TypeOK
<1>10. CASE Refused(r)
  <2>1. request' = [request EXCEPT ![r] = Idle] /\ UNCHANGED <<row, totp, keys, clean, tokens, now>>
    BY <1>10 DEF Refused, Finish, settings
  <2>2. request' \in [Requests -> Remembered]
    BY <2>1 DEF TypeInv, Remembered
  <2>3. \A q \in Requests : request'[q] = request[q] \/ request'[q] = Idle
    BY <2>1 DEF TypeInv
  <2> QED
    BY <2>1, <2>2, <2>3 DEF TypeInv, TypeOK, Idle, Issued
<1> QED
  BY <1>1, <1>2, <1>3, <1>4, <1>5, <1>6, <1>7, <1>8, <1>9, <1>10
     DEF ConnectionStep, RotationStep

LEMMA TypeStep == TypeInv /\ [Next]_vars => TypeInv'
<1> SUFFICES ASSUME TypeInv, [Next]_vars
             PROVE  TypeInv'
  OBVIOUS
<1>1. CASE Enrol
  BY <1>1 DEF Enrol, settings, TypeInv, TypeOK, Issued
<1>2. CASE EmptyRotation
  BY <1>2 DEF EmptyRotation, TypeInv, TypeOK, Issued
<1>3. ASSUME NEW new \in [current : 1 .. MaxKeys, retired : SUBSET (1 .. MaxKeys)], Restart(new)
      PROVE  TypeInv'
  BY <1>3 DEF Restart, TypeInv, TypeOK, Issued, Remembered, Idle
<1>4. CASE NewKey
  <2>1. [current |-> keys.current + 1, retired |-> keys.retired \cup {keys.current}]
            \in [current : 1 .. MaxKeys, retired : SUBSET (1 .. MaxKeys)]
    BY <1>4, BrokersAssumption DEF NewKey, TypeInv, TypeOK
  <2> QED
    BY <1>3, <1>4, <2>1 DEF NewKey
<1>5. CASE DropRetired
  <2>1. [keys EXCEPT !.retired = {}] \in [current : 1 .. MaxKeys, retired : SUBSET (1 .. MaxKeys)]
    BY DEF TypeInv, TypeOK
  <2> QED
    BY <1>3, <1>5, <2>1 DEF DropRetired
<1>6. CASE Tick
  BY <1>6, NextIsLater DEF Tick, settings, TypeInv, TypeOK, Issued
<1>7. ASSUME NEW r \in Requests, ConnectionStep(r) \/ RotationStep(r) \/ Refused(r)
      PROVE  TypeInv'
  BY <1>7, RequestsTyped
<1>8. CASE UNCHANGED vars
  BY <1>8 DEF vars, TypeInv, TypeOK, Issued
<1> QED
  BY <1>1, <1>2, <1>4, <1>5, <1>6, <1>7, <1>8 DEF Next

(* Every variable keeps to the values of its column: in particular no      *)
(* interleaving of requests counts more attempts than the limit            *)
(* (MAX_AUTHORIZATION_ATTEMPTS).                                           *)
THEOREM BrokersTypeCorrect == Spec => []TypeOK
<1>1. TypeInv => TypeOK
  BY DEF TypeInv
<1> QED
  BY TypeInit, TypeStep, <1>1, PTL DEF Spec
-----------------------------------------------------------------------------
(* The rotation of the keys.  CredentialOpens is inductive together with:  *)
(* once a rotation has reported clean, what is stored is under the current *)
(* key; and beside a rotation what is stored is under the current key, or  *)
(* is what the rotation read, which opens.                                 *)
Fresh(cred) == cred = None \/ cred.key = keys.current

Rotating(r) ==
    request[r].op = "rotate" =>
        /\ request[r].read.cred # None /\ Opens(request[r].read.cred.key)
        /\ Fresh(row.cred) \/ row.cred = request[r].read.cred

KeysInv ==
    /\ CredentialOpens
    /\ clean => Fresh(row.cred)
    /\ \A r \in Requests : Rotating(r)

(* A step that leaves the keys alone and stores nothing, what was stored,  *)
(* or something under the current key.                                     *)
LEMMA StoresFresh ==
  ASSUME KeysInv, UNCHANGED keys, Fresh(row'.cred) \/ row'.cred = row.cred,
         clean' => clean \/ Fresh(row'.cred),
         \A q \in Requests : request'[q].op = "rotate" =>
             request'[q].op = request[q].op /\ request'[q].read = request[q].read
  PROVE  KeysInv'
<1>1. CredentialOpens'
  BY DEF KeysInv, CredentialOpens, Fresh, Opens
<1>2. clean' => Fresh(row.cred)'
  BY DEF KeysInv, Fresh
<1>3. ASSUME NEW q \in Requests
      PROVE  Rotating(q)'
  BY <1>3 DEF KeysInv, Rotating, Fresh, Opens
<1> QED
  BY <1>1, <1>2, <1>3 DEF KeysInv

LEMMA KeysRequest ==
  ASSUME TypeInv, KeysInv, NEW r \in Requests, ConnectionStep(r) \/ RotationStep(r) \/ Refused(r)
  PROVE  KeysInv'
<1> DEFINE read == request[r].read
<1>0. \A q \in Requests : q # r => request'[q] = request[q]
  BY DEF ConnectionStep, BeginAuthorization, WriteBegin, Authorize, Exchange, WriteAuthorize,
         Disconnect, WriteDisconnect, RotationStep, ReadRotation, WriteRotation, Refused,
         ReadRow, Begin, Finish, Write, TypeInv
<1>1. CASE BeginAuthorization(r) \/ Authorize(r) \/ Disconnect(r)
  <2>1. request'[r].op # "rotate" /\ UNCHANGED <<row, keys, clean>>
    BY <1>1 DEF BeginAuthorization, Authorize, Disconnect, ReadRow, Begin, settings, TypeInv
  <2> QED
    BY <1>0, <2>1, StoresFresh
<1>2. CASE ReadRotation(r)
  <2>1. /\ row.cred # None
        /\ request'[r] = [op |-> "rotate", read |-> row, token |-> 0]
        /\ UNCHANGED <<row, keys, clean>>
    BY <1>2 DEF ReadRotation, ReadRow, Begin, settings, TypeInv
  <2>2. Rotating(r)'
    BY <2>1 DEF KeysInv, CredentialOpens, Rotating, Opens
  <2>3. ASSUME NEW q \in Requests, q # r
        PROVE  Rotating(q)'
    BY <1>0, <2>1, <2>3 DEF KeysInv, Rotating, Fresh, Opens
  <2> QED
    BY <2>1, <2>2, <2>3 DEF KeysInv, CredentialOpens, Fresh, Opens
<1>3. CASE Exchange(r)
  <2>1. request'[r].op # "rotate" /\ UNCHANGED <<row, keys, clean>>
    BY <1>3 DEF Exchange, settings, TypeInv, Remembered, Idle
  <2> QED
    BY <1>0, <2>1, StoresFresh
<1>4. CASE Refused(r)
  <2>1. request'[r].op # "rotate" /\ UNCHANGED <<row, keys, clean>>
    BY <1>4 DEF Refused, Finish, settings, TypeInv, Idle
  <2> QED
    BY <1>0, <2>1, StoresFresh
<1>5. ASSUME NEW want \in Rows, Write(r, want), request[r].op # "idle", UNCHANGED keys,
             Fresh(want.cred) \/ want.cred = read.cred,
             clean' => clean \/ Fresh(row'.cred)
      PROVE  KeysInv'
  <2>1. /\ row'.cred = IF want.cred = read.cred THEN row.cred ELSE want.cred
        /\ request' = [request EXCEPT ![r] = Idle]
    BY <1>5, WriteEffect
  <2>2. request'[r].op # "rotate"
    BY <2>1 DEF TypeInv, Idle
  <2>3. Fresh(row'.cred) \/ row'.cred = row.cred
    BY <1>5, <2>1
  <2> QED
    BY <1>0, <1>5, <2>2, <2>3, StoresFresh
<1>6. CASE WriteBegin(r)
  <2>1. read \in Rows /\ request[r].op # "idle"
    BY <1>6, RequestType DEF WriteBegin
  <2>2. Begun(read) \in Rows /\ Begun(read).cred = read.cred
    BY <2>1 DEF Begun, Rows, States
  <2> QED
    BY <1>5, <1>6, <2>1, <2>2 DEF WriteBegin, settings
<1>7. CASE WriteAuthorize(r)
  <2> DEFINE want == [state |-> "CONNECTED", attempts |-> read.attempts + 1,
                      cred |-> [token |-> request[r].token, key |-> keys.current]]
  <2>1. /\ read \in Rows /\ request[r].op = "authorize" /\ request[r].token \in Tokens \ {0}
        /\ read.attempts < MaxAttempts
    BY <1>7, RequestType DEF WriteAuthorize, TypeInv
  <2>2. want.cred \in Sealed /\ Fresh(want.cred)
    BY <2>1, BrokersAssumption DEF Sealed, Tokens, Fresh, TypeInv, TypeOK
  <2>3. read.attempts + 1 \in 0 .. MaxAttempts
    BY <2>1, BrokersAssumption DEF Rows
  <2>4. want \in Rows
    BY <2>2, <2>3 DEF Rows, States
  <2> QED
    BY <1>5, <1>7, <2>1, <2>2, <2>4 DEF WriteAuthorize, settings
<1>8. CASE WriteDisconnect(r)
  <2> DEFINE want == [read EXCEPT !.state = "REVOKED", !.cred = None]
  <2>1. read \in Rows /\ request[r].op # "idle"
    BY <1>8, RequestType DEF WriteDisconnect
  <2>2. want \in Rows /\ want.cred = None
    BY <2>1 DEF Rows, States, Sealed
  <2>3. Write(r, want) /\ UNCHANGED <<keys, clean>>
    BY <1>8 DEF WriteDisconnect, Forgets, settings
  <2> QED
    BY <1>5, <2>1, <2>2, <2>3 DEF Fresh
<1>9. CASE WriteRotation(r)
  <2> DEFINE want == [read EXCEPT !.cred = IF Opens(@.key) THEN Reseal(@) ELSE @]
  <2>1. read \in Rows /\ read.cred \in Sealed /\ request[r].op = "rotate" /\ Write(r, want)
    BY <1>9, RequestType DEF WriteRotation
  <2>2. Opens(read.cred.key) /\ (Fresh(row.cred) \/ row.cred = read.cred)
    BY <2>1 DEF KeysInv, Rotating
  <2>3. want = [read EXCEPT !.cred = Reseal(@)] /\ read.cred.key \in 1 .. MaxKeys
    BY <2>2 DEF Opens, TypeInv, TypeOK
  <2>4. Reseal(read.cred) \in Sealed /\ Reseal(read.cred).key = keys.current
    BY <2>1, <2>3 DEF Reseal, AlreadyCurrent, Sealed, None, TypeInv, TypeOK
  <2>5. want \in Rows /\ want.cred = Reseal(read.cred) /\ Fresh(want.cred)
    BY <2>1, <2>3, <2>4 DEF Rows, Fresh
  <2>6. row'.cred = IF want.cred = read.cred THEN row.cred ELSE want.cred
    BY <2>1, <2>5, WriteEffect
  <2>7. Fresh(row'.cred)
    BY <2>2, <2>5, <2>6
  <2> QED
    BY <1>5, <1>9, <2>1, <2>5, <2>7 DEF WriteRotation
<1> QED
  BY <1>1, <1>2, <1>3, <1>4, <1>6, <1>7, <1>8, <1>9 DEF ConnectionStep, RotationStep

LEMMA KeysStep == TypeInv /\ KeysInv /\ [Next]_vars => KeysInv'
<1> SUFFICES ASSUME TypeInv, KeysInv, [Next]_vars
             PROVE  KeysInv'
  OBVIOUS
<1>1. CASE Enrol \/ Tick
  BY <1>1, StoresFresh DEF Enrol, Tick, settings
<1>2. CASE EmptyRotation
  BY <1>2, StoresFresh DEF EmptyRotation, Fresh
<1>3. CASE NewKey
  <2>1. /\ keys' = [current |-> keys.current + 1, retired |-> keys.retired \cup {keys.current}]
        /\ row' = row /\ clean' = FALSE /\ \A r \in Requests : request'[r] = Idle
    BY <1>3 DEF NewKey, Restart
  <2> QED
    BY <2>1 DEF KeysInv, CredentialOpens, Opens, Rotating, Idle
<1>4. CASE DropRetired
  <2>1. /\ keys' = [keys EXCEPT !.retired = {}] /\ clean
        /\ row' = row /\ clean' = FALSE /\ \A r \in Requests : request'[r] = Idle
    BY <1>4 DEF DropRetired, Restart
  <2>2. keys'.current = keys.current
    BY <2>1 DEF TypeInv, TypeOK
  <2> QED
    BY <2>1, <2>2 DEF KeysInv, CredentialOpens, Opens, Rotating, Idle, Fresh
<1>5. ASSUME NEW r \in Requests, ConnectionStep(r) \/ RotationStep(r) \/ Refused(r)
      PROVE  KeysInv'
  BY <1>5, KeysRequest
<1>6. CASE UNCHANGED vars
  BY <1>6, StoresFresh DEF vars
<1> QED
  BY <1>1, <1>2, <1>3, <1>4, <1>5, <1>6 DEF Next

(* The rotation docs/DEPLOYMENT.md describes strands no stored credential: *)
(* whatever overlaps it, what is stored opens under the keys that are left *)
(* (rotate_credentials, encrypt_credentials).                              *)
THEOREM CredentialsOpen == Spec => []CredentialOpens
<1>1. Init => KeysInv
  BY DEF Init, KeysInv, CredentialOpens, Fresh, Rotating, Idle
<1>2. KeysInv => CredentialOpens
  BY DEF KeysInv
<1> QED
  BY TypeInit, TypeStep, KeysStep, <1>1, <1>2, PTL DEF Spec
-----------------------------------------------------------------------------
(* token_expiry finds the first 06:00 IST after the moment of issue.       *)
LEMMA ExpiryIsNextSix ==
  ASSUME NEW issued \in Nat
  PROVE  /\ TokenExpiry(issued) \in Int /\ TokenExpiry(issued) > issued
         /\ (TokenExpiry(issued) + Ist) % Day = Six
         /\ \A s \in issued + 1 .. TokenExpiry(issued) - 1 : (s + Ist) % Day # Six
<1> DEFINE local == issued + 11
           day == local \div 48
           candidate == day * 48 + 12
           next == IF candidate <= local THEN candidate + 48 ELSE candidate
<1>1. TokenExpiry(issued) = next - 11
  BY DEF TokenExpiry, Ist, Day, Six
<1>2. /\ local \in Nat /\ day \in Nat
      /\ day * 48 <= local /\ local < day * 48 + 48
  OBVIOUS
<1>3. /\ next \in Nat /\ next > local /\ next <= local + 48
      /\ next = day * 48 + 12 \/ next = (day + 1) * 48 + 12
  BY <1>2
<1>4. next % 48 = 12
  BY <1>2, <1>3
<1>5. ASSUME NEW s \in local + 1 .. next - 1
      PROVE  s % 48 # 12
  BY <1>3, <1>4, <1>5
<1>6. \A s \in issued + 1 .. TokenExpiry(issued) - 1 : s + 11 \in local + 1 .. next - 1
  BY <1>1, <1>3
<1> QED
  BY <1>1, <1>3, <1>4, <1>5, <1>6 DEF Ist, Day, Six

(* The platform takes a stored token for expired exactly when the venue    *)
(* has let it die (is_expired, token_expiry).                              *)
THEOREM ExpiryIsTheVenues == Spec => []ExpiryAgrees
<1>1. TypeInv => ExpiryAgrees
  <2> SUFFICES ASSUME TypeInv, row.cred # None
               PROVE  IsExpired(row.cred.token) <=> DeadAtVenue(row.cred.token)
    BY DEF ExpiryAgrees
  <2> DEFINE issued == tokens[row.cred.token].issued
  <2>1. row.cred \in Sealed
    BY DEF TypeInv, TypeOK, Rows
  <2>2. row.cred.token \in DOMAIN tokens
    BY <2>1, SealedType DEF TypeInv, Issued
  <2>3. issued \in Nat /\ now \in Nat
    BY <2>2, BrokersAssumption DEF TypeInv, TypeOK
  <2> HIDE DEF issued
  <2>4. IsExpired(row.cred.token) <=> now >= TokenExpiry(issued)
    BY DEF IsExpired, issued
  <2>5. DeadAtVenue(row.cred.token) <=> \E six \in issued + 1 .. now : (six + Ist) % Day = Six
    BY DEF DeadAtVenue, issued
  <2>6. CASE now >= TokenExpiry(issued)
    <3>1. TokenExpiry(issued) \in issued + 1 .. now /\ (TokenExpiry(issued) + Ist) % Day = Six
      BY <2>3, <2>6, ExpiryIsNextSix
    <3> QED
      BY <2>4, <2>5, <2>6, <3>1
  <2>7. CASE now < TokenExpiry(issued)
    <3>1. issued + 1 .. now \subseteq issued + 1 .. TokenExpiry(issued) - 1
      BY <2>3, <2>7, ExpiryIsNextSix
    <3>2. ~ (now >= TokenExpiry(issued))
      BY <2>3, <2>7, ExpiryIsNextSix
    <3> QED
      BY <2>3, <2>4, <2>5, <3>1, <3>2, ExpiryIsNextSix
  <2> QED
    BY <2>3, <2>6, <2>7, ExpiryIsNextSix
<1> QED
  BY TypeInit, TypeStep, <1>1, PTL DEF Spec
-----------------------------------------------------------------------------
(* Which steps write the row, and what becomes of the credential.          *)
LEMMA RowWrites ==
  ASSUME TypeInv, [Next]_vars, row' # row
  PROVE  \E r \in Requests :
             /\ request[r].op # "idle" /\ request' = [request EXCEPT ![r] = Idle]
             /\ \/ request[r].op = "begin" /\ row'.cred = row.cred
                \/ request[r].op = "authorize"
                \/ /\ request[r].op = "disconnect"
                   /\ row'.cred = IF request[r].read.cred = None THEN row.cred ELSE None
                \/ /\ request[r].op = "rotate"
                   /\ row'.cred = row.cred \/ row'.cred.token = request[r].read.cred.token
<1>1. PICK r \in Requests :
          WriteBegin(r) \/ WriteAuthorize(r) \/ WriteDisconnect(r) \/ WriteRotation(r)
  BY DEF Next, vars, Enrol, EmptyRotation, NewKey, DropRetired, Restart, Tick, ConnectionStep,
         RotationStep, Refused, BeginAuthorization, Authorize, Exchange, Disconnect,
         ReadRotation, ReadRow
<1> DEFINE read == request[r].read
<1>2. request[r].op # "idle" /\ read \in Rows /\ read.cred \in Sealed
  BY <1>1, RequestType DEF WriteBegin, WriteAuthorize, WriteDisconnect, WriteRotation
<1>3. request' = [request EXCEPT ![r] = Idle]
  BY <1>1 DEF WriteBegin, WriteAuthorize, WriteDisconnect, WriteRotation, Write, Finish
<1>4. CASE WriteBegin(r)
  <2>1. Begun(read) \in Rows /\ Begun(read).cred = read.cred
    BY <1>2 DEF Begun, Rows, States
  <2>2. row'.cred = row.cred
    BY <1>2, <1>4, <2>1, WriteEffect DEF WriteBegin
  <2> QED
    BY <1>2, <1>3, <1>4, <2>2 DEF WriteBegin
<1>5. CASE WriteAuthorize(r)
  BY <1>2, <1>3, <1>5 DEF WriteAuthorize
<1>6. CASE WriteDisconnect(r)
  <2> DEFINE want == [read EXCEPT !.state = "REVOKED", !.cred = None]
  <2>1. want \in Rows /\ want.cred = None
    BY <1>2 DEF Rows, States, Sealed
  <2>2. Write(r, want)
    BY <1>6 DEF WriteDisconnect, Forgets
  <2>3. row'.cred = IF read.cred = None THEN row.cred ELSE None
    BY <1>2, <2>1, <2>2, WriteEffect
  <2> QED
    BY <1>2, <1>3, <1>6, <2>3 DEF WriteDisconnect
<1>7. CASE WriteRotation(r)
  <2> DEFINE want == [read EXCEPT !.cred = IF Opens(@.key) THEN Reseal(@) ELSE @]
  <2>1. Opens(read.cred.key) => read.cred.key \in 1 .. MaxKeys
    BY DEF Opens, TypeInv, TypeOK
  <2>2. ASSUME Opens(read.cred.key)
        PROVE  Reseal(read.cred) \in Sealed /\ Reseal(read.cred).token = read.cred.token
    BY <1>2, <2>1, <2>2 DEF Reseal, Sealed, None, TypeInv, TypeOK
  <2>3. want \in Rows /\ want.cred.token = read.cred.token
    BY <1>2, <2>2 DEF Rows
  <2>4. row'.cred = row.cred \/ row'.cred.token = read.cred.token
    BY <1>2, <1>7, <2>3, WriteEffect DEF WriteRotation
  <2> QED
    BY <1>2, <1>3, <1>7, <2>4 DEF WriteRotation
<1> QED
  BY <1>1, <1>4, <1>5, <1>6, <1>7

(* Forgetting the credential is not best effort (disconnect): the write of *)
(* a disconnect that found a credential leaves none.                       *)
THEOREM DisconnectForgetsIt == Spec => DisconnectForgets
<1>1. TypeInv /\ [Next]_vars =>
          [\A r \in Requests :
               (request[r].op = "disconnect" /\ request'[r] = Idle /\ row' # row)
               => row'.cred = None \/ request[r].read.cred = None]_vars
  <2> SUFFICES ASSUME TypeInv, [Next]_vars, row' # row, NEW r \in Requests,
                      request[r].op = "disconnect", request'[r] = Idle,
                      request[r].read.cred # None
               PROVE  row'.cred = None
    BY Zenon
  <2>1. PICK q \in Requests :
          /\ request' = [request EXCEPT ![q] = Idle]
          /\ request[q].op = "disconnect" =>
                 row'.cred = IF request[q].read.cred = None THEN row.cred ELSE None
    BY RowWrites
  <2>2. q = r
    BY <2>1 DEF TypeInv, Idle
  <2> QED
    BY <2>1, <2>2
<1> QED
  BY TypeInit, TypeStep, <1>1, PTL DEF Spec, DisconnectForgets

(* The token of a connection is replaced by an authorization or destroyed  *)
(* by a disconnect; beside these only a rotation that had read an earlier  *)
(* one writes it back (rotate_all_credentials).                            *)
THEOREM TokenMoves == Spec => TokenMovesOnRequest
<1>1. TypeInv /\ [Next]_vars =>
          [row'.cred.token # row.cred.token =>
              \E r \in Requests :
                  /\ request[r] # Idle /\ request'[r] = Idle
                  /\ \/ request[r].op \in {"authorize", "disconnect"}
                     \/ request[r].op = "rotate" /\ request[r].read.cred # row.cred]_vars
  <2> SUFFICES ASSUME TypeInv, [Next]_vars, row'.cred.token # row.cred.token
               PROVE  \E r \in Requests :
                          /\ request[r] # Idle /\ request'[r] = Idle
                          /\ \/ request[r].op \in {"authorize", "disconnect"}
                             \/ request[r].op = "rotate" /\ request[r].read.cred # row.cred
    BY Zenon
  <2>1. PICK r \in Requests :
          /\ request[r].op # "idle" /\ request' = [request EXCEPT ![r] = Idle]
          /\ \/ request[r].op = "begin" /\ row'.cred = row.cred
             \/ request[r].op = "authorize"
             \/ request[r].op = "disconnect"
             \/ /\ request[r].op = "rotate"
                /\ row'.cred = row.cred \/ row'.cred.token = request[r].read.cred.token
    BY RowWrites
  <2>2. request[r] # Idle /\ request'[r] = Idle
    BY <2>1 DEF Idle, TypeInv
  <2> QED
    BY <2>1, <2>2
<1> QED
  BY TypeInit, TypeStep, <1>1, PTL DEF Spec, TokenMovesOnRequest
=============================================================================
