------------------------------ MODULE Brokers ------------------------------
(***************************************************************************)
(* The connection of one Zerodha account (brokers/service.py), the access  *)
(* token it keeps (brokers/zerodha.py), the keys that seal what is stored  *)
(* (brokers/crypto.py), and their rotation as docs/DEPLOYMENT.md has it.   *)
(* Requests overlap; each writes the columns it changed from what it read  *)
(* (READ COMMITTED).  The venue is external.                               *)
(***************************************************************************)
EXTENDS Integers, Sequences, FiniteSets

CONSTANTS
    Requests,     \* requests and rotations in progress at the same time
    Moments,      \* the half hours of UTC, from a midnight, at which things happen
    MaxTokens,    \* bound on access tokens the venue issues
    MaxKeys,      \* bound on values of ILUVTRADE_SECRET_KEY
    MaxAttempts   \* MAX_AUTHORIZATION_ATTEMPTS

ASSUME BrokersAssumption ==
    /\ Moments \subseteq Nat /\ Moments # {}
    /\ MaxTokens \in Nat /\ MaxKeys \in Nat \ {0} /\ MaxAttempts \in Nat

VARIABLES
    row,      \* the row of broker_connections
    totp,     \* the key a user's mfa_secret is sealed under, 0 for none
    keys,     \* the secret keys: ILUVTRADE_SECRET_KEY and the retired ones
    clean,    \* a rotation has reported that nothing is left under an older key
    tokens,   \* the venue: when it issued each token, and whether it was ended
    now,
    request   \* what each request has read

vars == <<row, totp, keys, clean, tokens, now, request>>
-----------------------------------------------------------------------------
(* EXPIRED and ERROR are assigned by requests that are then rolled back.   *)
States == {"DISCONNECTED", "AUTHORIZING", "CONNECTED", "EXPIRED", "ERROR", "REVOKED"}

None == [token |-> 0, key |-> 0]
Sealed == {None} \cup [token : 1 .. MaxTokens, key : 1 .. MaxKeys]
Rows == [state : States, cred : Sealed, attempts : 0 .. MaxAttempts]

(* decrypt: the current key and the retired ones are tried. *)
Opens(key) == key = keys.current \/ key \in keys.retired

First == CHOOSE t \in Moments : \A u \in Moments : t <= u
Later == {t \in Moments : t > now}

Day == 48      \* half hours
Ist == 11      \* India Standard Time is UTC + 5:30
Six == 12      \* TOKEN_EXPIRY_LOCAL_TIME

(* token_expiry: the next 06:00 IST after the moment a token is issued.    *)
(* The mutant takes six o'clock sharp for the next one.                    *)
SixOrNow(issued) ==
    LET local == issued + Ist
        candidate == (local \div Day) * Day + Six
    IN  (IF candidate < local THEN candidate + Day ELSE candidate) - Ist
TokenExpiry(issued) ==
    LET local == issued + Ist
        candidate == (local \div Day) * Day + Six
    IN  (IF candidate <= local THEN candidate + Day ELSE candidate) - Ist

IsExpired(t) == now >= TokenExpiry(tokens[t].issued)

(* What the venue does: every token dies at 06:00 IST.                     *)
DeadAtVenue(t) == \E six \in tokens[t].issued + 1 .. now : (six + Ist) % Day = Six

Idle == [op |-> "idle"]

(* create_account, and a user who may have enrolled a second factor.       *)
Init ==
    /\ row = [state |-> "DISCONNECTED", cred |-> None, attempts |-> 0]
    /\ totp \in {0, 1}
    /\ keys = [current |-> 1, retired |-> {}]
    /\ clean = FALSE
    /\ tokens = <<>>
    /\ now = First
    /\ request = [r \in Requests |-> Idle]

Begin(r, what) == request[r] = Idle /\ request' = [request EXCEPT ![r] = what]
Finish(r) == request' = [request EXCEPT ![r] = Idle]
settings == <<keys, clean>>

(* The flush writes the columns that differ from what the request read. *)
Changed(r, want) ==
    [c \in DOMAIN row |-> IF want[c] = request[r].read[c] THEN row[c] ELSE want[c]]

Write(r, want) == row' = Changed(r, want) /\ Finish(r)
-----------------------------------------------------------------------------
(* begin_zerodha_authorization: the browser is sent to the venue.          *)
Begun(read) == [read EXCEPT !.state = "AUTHORIZING"]

ReadRow(r, op) ==
    /\ Begin(r, [op |-> op, read |-> row, token |-> 0])
    /\ UNCHANGED <<row, totp, settings, tokens, now>>

BeginAuthorization(r) == ReadRow(r, "begin")

WriteBegin(r) ==
    /\ request[r].op = "begin"
    /\ Write(r, Begun(request[r].read))
    /\ UNCHANGED <<totp, settings, tokens, now>>

(* authorize_zerodha, with attempts left; the request_token is exchanged   *)
(* before anything is written.                                             *)
Authorize(r) == row.attempts < MaxAttempts /\ ReadRow(r, "authorize")

Exchange(r) ==
    /\ request[r].op = "authorize" /\ request[r].token = 0
    /\ Len(tokens) < MaxTokens
    /\ tokens' = Append(tokens, [issued |-> now, ended |-> FALSE])
    /\ request' = [request EXCEPT ![r].token = Len(tokens) + 1]
    /\ UNCHANGED <<row, totp, settings, now>>

(* encrypt_credentials seals under the current key. *)
WriteAuthorize(r) ==
    /\ request[r].op = "authorize" /\ request[r].token # 0
    /\ Write(r, [state |-> "CONNECTED", attempts |-> request[r].read.attempts + 1,
                 cred |-> [token |-> request[r].token, key |-> keys.current]])
    /\ UNCHANGED <<totp, settings, tokens, now>>

(* disconnect ends the token at the venue if load_session gives it one:    *)
(* the row it read is CONNECTED, its credential opens and is not expired.  *)
Disconnect(r) == ReadRow(r, "disconnect")

Loads(r) ==
    LET read == request[r].read
    IN  /\ read.cred # None /\ read.state = "CONNECTED"
        /\ Opens(read.cred.key)
        /\ ~IsExpired(read.cred.token)

(* The venue is told, or it is not; the mutant then keeps the credential.  *)
ForgetsWhenTold(told) == told
Forgets(told) == TRUE

Told(token) == [tokens EXCEPT ![token].ended = TRUE]

WriteDisconnect(r) ==
    /\ request[r].op = "disconnect"
    /\ \E told \in BOOLEAN :
           /\ told => Loads(r)
           /\ tokens' = IF told THEN Told(request[r].read.cred.token) ELSE tokens
           /\ Write(r, [request[r].read EXCEPT
                  !.state = "REVOKED", !.cred = IF Forgets(told) THEN None ELSE @])
    /\ UNCHANGED <<totp, settings, now>>

(* A request is refused, by the venue or otherwise, and rolled back: so is *)
(* the ERROR or EXPIRED it had assigned, and the attempt it had counted.   *)
Refused(r) ==
    /\ request[r] # Idle
    /\ Finish(r)
    /\ UNCHANGED <<row, totp, settings, tokens, now>>
-----------------------------------------------------------------------------
(* begin_enrolment seals a TOTP secret under the same keys. *)
Enrol ==
    /\ totp = 0
    /\ totp' = keys.current
    /\ UNCHANGED <<row, settings, tokens, now, request>>

(* iluvtrade rotate-credentials, a process of its own, reads what to       *)
(* rotate.                                                                 *)
ReadRotation(r) ==
    /\ row.cred # None
    /\ ReadRow(r, "rotate")

(* rotate_credential leaves what is under the current key; the mutant      *)
(* looks at the envelope's version only.                                   *)
CurrentVersion(cred) == TRUE
AlreadyCurrent(cred) == cred.key = keys.current

Reseal(cred) == IF AlreadyCurrent(cred) THEN cred ELSE [cred EXCEPT !.key = keys.current]

(* What cannot be opened is left as it is and reported: exit status 1.     *)
WriteRotation(r) ==
    /\ request[r].op = "rotate"
    /\ LET read == request[r].read
       IN  /\ Write(r, [read EXCEPT !.cred = IF Opens(@.key) THEN Reseal(@) ELSE @])
           /\ clean' = Opens(read.cred.key)
    /\ UNCHANGED <<totp, keys, tokens, now>>

(* Nothing is stored: the report is clean. *)
EmptyRotation ==
    /\ row.cred = None
    /\ clean' = TRUE
    /\ UNCHANGED <<row, totp, keys, tokens, now, request>>

(* The operator, as docs/DEPLOYMENT.md has it: append the current key to   *)
(* the retired ones, set a new one, restart; only when a rotation has      *)
(* reported clean, remove the retired ones.  A restart ends the requests   *)
(* being served; no rotation is in progress.                               *)
Restart(new) ==
    /\ \A r \in Requests : request[r].op # "rotate"
    /\ keys' = new
    /\ clean' = FALSE
    /\ request' = [r \in Requests |-> Idle]
    /\ UNCHANGED <<row, totp, tokens, now>>

NewKey ==
    /\ keys.current < MaxKeys
    /\ Restart([current |-> keys.current + 1, retired |-> keys.retired \cup {keys.current}])

DropRetired ==
    /\ clean /\ keys.retired # {}
    /\ Restart([keys EXCEPT !.retired = {}])

Tick ==
    /\ Later # {}
    /\ now' = CHOOSE t \in Later : \A u \in Later : t <= u
    /\ UNCHANGED <<row, totp, settings, tokens, request>>

ConnectionStep(r) ==
    \/ BeginAuthorization(r) \/ WriteBegin(r)
    \/ Authorize(r) \/ Exchange(r) \/ WriteAuthorize(r)
    \/ Disconnect(r) \/ WriteDisconnect(r)

RotationStep(r) == ReadRotation(r) \/ WriteRotation(r)

Next ==
    \/ Enrol \/ EmptyRotation \/ NewKey \/ DropRetired \/ Tick
    \/ \E r \in Requests : ConnectionStep(r) \/ RotationStep(r) \/ Refused(r)

Spec == Init /\ [][Next]_vars
-----------------------------------------------------------------------------
(* Each row holds what its columns may hold. *)
TypeOK ==
    /\ row \in Rows
    /\ totp \in 0 .. MaxKeys
    /\ keys \in [current : 1 .. MaxKeys, retired : SUBSET (1 .. MaxKeys)]
    /\ clean \in BOOLEAN
    /\ \A t \in DOMAIN tokens : tokens[t] \in [issued : Moments, ended : BOOLEAN]
    /\ now \in Moments

(* The documented rotation strands no broker credential: whatever is       *)
(* authorized, disconnected or rotated meanwhile, what is stored opens     *)
(* under the keys the deployment has kept.                                 *)
CredentialOpens == row.cred # None => Opens(row.cred.key)

(* A stored token is taken for expired when the venue has let it die, not  *)
(* before and not later.                                                   *)
ExpiryAgrees ==
    row.cred # None => (IsExpired(row.cred.token) <=> DeadAtVenue(row.cred.token))

(* "Forgetting the credential is not" best effort: a disconnect that found *)
(* a credential leaves none, whatever the venue answered and whatever else *)
(* committed meanwhile.                                                    *)
DisconnectForgets ==
    [][\A r \in Requests :
           (request[r].op = "disconnect" /\ request'[r] = Idle /\ row' # row)
           => row'.cred = None \/ request[r].read.cred = None]_vars

(* The token of a connection changes when it is authorized or disconnected;*)
(* no other request brings back one that was replaced or destroyed, save a *)
(* rotation that had read it before.                                       *)
TokenMovesOnRequest ==
    [][row'.cred.token # row.cred.token =>
           \E r \in Requests :
               /\ request[r] # Idle /\ request'[r] = Idle
               /\ \/ request[r].op \in {"authorize", "disconnect"}
                  \/ request[r].op = "rotate" /\ request[r].read.cred # row.cred]_vars
-----------------------------------------------------------------------------
(* "Remove once rotate-credentials reports clean": what the deployment has *)
(* sealed still opens.  The TOTP secrets are sealed under the same keys,   *)
(* and the rotation does not look at them.                                 *)
SecretsOpen == totp # 0 => Opens(totp)

(* Refuted: a destroyed credential stays destroyed, and what is shown as   *)
(* connected is not expired.                                               *)
RevokedHoldsNothing == row.state = "REVOKED" => row.cred = None
ConnectedIsAlive == row.state = "CONNECTED" => row.cred # None /\ ~IsExpired(row.cred.token)
=============================================================================
