----------------------------- MODULE Accounts -----------------------------
(***************************************************************************)
(* One account: its password, its second factor, its sessions and its      *)
(* reset tokens (platform/accounts.py, passwords.py, mfa.py), under        *)
(* requests that overlap.                                                  *)
(*                                                                         *)
(* A request reads the user's row and later writes the columns it changed  *)
(* (READ COMMITTED).  A second factor is spent by a conditional UPDATE:    *)
(* it locks the row until the request commits, so spending it and the rest *)
(* of the commit are one step, which tests the row as it is then.          *)
(***************************************************************************)
EXTENDS Integers, Sequences, FiniteSets

CONSTANTS
    Requests,     \* requests that may be in progress at the same time
    Window,       \* TOTP time steps whose codes verify, DRIFT_STEPS either side
    MaxStamps,    \* bound on secrets, lists of recovery codes and confirmations
    MaxSessions,  \* bound on sessions
    MaxTokens     \* bound on reset tokens

ASSUME AccountsAssumption ==
    Window \subseteq Nat \ {0} /\ MaxStamps \in Nat /\ MaxSessions \in Nat /\ MaxTokens \in Nat

VARIABLES
    user,      \* the columns of the user's row that requests write
    sessions,  \* rows of sessions
    tokens,    \* rows of password_reset_tokens
    stamp,     \* the last secret, list of codes or confirmation made
    request,   \* what each request has read
    resets     \* history: resets that committed

vars == <<user, sessions, tokens, stamp, request, resets>>
-----------------------------------------------------------------------------
Idle == [op |-> "idle"]

(* A list of recovery codes, two of the ten; each list is fresh.           *)
Codes == (1 .. MaxStamps) \X {1, 2}
Fresh(n) == {n} \X {1, 2}

(* The row.  hash: the reset that set the password, 0 when it is the one   *)
(* registered, and whether needs_rehash; secret, enabled and counter are 0 *)
(* for NULL; enabled is the time of the confirmation.                      *)
Rows == [hash : [of : Nat, outdated : BOOLEAN], secret : 0 .. MaxStamps,
         enabled : 0 .. MaxStamps, counter : {0} \cup Window, codes : SUBSET Codes]

Registered(outdated) ==
    [hash |-> [of |-> 0, outdated |-> outdated],
     secret |-> 0, enabled |-> 0, counter |-> 0, codes |-> {}]

(* is_enabled *)
Enabled(row) == row.enabled # 0 /\ row.secret # 0

Init ==
    /\ \E outdated \in BOOLEAN : user = Registered(outdated)
    /\ sessions = <<>>
    /\ tokens = <<>>
    /\ stamp = 0
    /\ request = [r \in Requests |-> Idle]
    /\ resets = 0

Begin(r, what) == request[r] = Idle /\ request' = [request EXCEPT ![r] = what]
Finish(r) == request' = [request EXCEPT ![r] = Idle]

(* A reset that has written the password holds the lock of the user's row; *)
(* in the mutant it looks for sessions before it writes it.                *)
Claimed(r) == request[r].op = "reset" /\ request[r].claimed
NotYet == FALSE
Locked == \E r \in Requests : Claimed(r)

(* The caller of an authenticated request.                                 *)
SignedIn == \E s \in DOMAIN sessions : sessions[s].live
-----------------------------------------------------------------------------
(***************************************************************************)
(* Requests that write the user's row: login, begin_enrolment,             *)
(* confirm_enrolment, regenerate_recovery_codes and disable.               *)
(***************************************************************************)
NoFactor == [kind |-> "none"]

(* What verify_challenge may be shown, and accepts on the row it read.     *)
Challenges(row) ==
    {[kind |-> "totp", step |-> c] : c \in Window} \cup
    {[kind |-> "recovery", code |-> k] : k \in row.codes}

(* The operations the row that is read admits, and the factor of each.     *)
Admitted(op) ==
    CASE op = "login"   -> IF Enabled(user) THEN Challenges(user) ELSE {NoFactor}
      [] op = "begin"   -> IF SignedIn /\ ~Enabled(user) THEN {NoFactor} ELSE {}
      [] op = "confirm" -> IF SignedIn /\ ~Enabled(user) /\ user.secret # 0
                           THEN {[kind |-> "proof", step |-> c] : c \in Window} ELSE {}
      [] OTHER          -> IF SignedIn /\ Enabled(user) THEN Challenges(user) ELSE {}

Operations == {"login", "begin", "confirm", "regenerate", "disable"}

ReadUser(r, op) ==
    /\ \E f \in Admitted(op) : Begin(r, [op |-> op, read |-> user, factor |-> f])
    /\ UNCHANGED <<user, sessions, tokens, stamp, resets>>

(* The WHERE of the conditional UPDATE of verify_challenge.  In the first  *)
(* mutant it trusts the check of the row that was read; in the others one  *)
(* of its conditions is missing.                                           *)
Unconditional(r) == TRUE
AnySecret(r) ==
    LET f == request[r].factor IN f.kind = "totp" => user.counter < f.step
Matches(r) ==
    LET f == request[r].factor
        read == request[r].read
    IN  CASE f.kind = "totp"     -> /\ Enabled(user)
                                    /\ user.enabled = read.enabled
                                    /\ user.secret = read.secret
                                    /\ user.counter < f.step
          [] f.kind = "recovery" -> Enabled(user) /\ user.codes = read.codes
          [] OTHER               -> TRUE

(* The columns that UPDATE sets. *)
Spend(r, row) ==
    LET f == request[r].factor
    IN  CASE f.kind = "totp"     -> [row EXCEPT !.counter = f.step]
          [] f.kind = "recovery" -> [row EXCEPT !.codes = request[r].read.codes \ {f.code}]
          [] OTHER               -> row

(* What the request makes of the row it knows.                             *)
Want(r, row) ==
    CASE request[r].op = "login"      -> [row EXCEPT !.hash.outdated = FALSE]
      [] request[r].op = "begin"      -> [row EXCEPT !.secret = stamp + 1, !.enabled = 0,
                                                     !.counter = 0, !.codes = Fresh(stamp + 1)]
      [] request[r].op = "confirm"    -> [row EXCEPT !.enabled = stamp + 1,
                                                     !.counter = request[r].factor.step]
      [] request[r].op = "regenerate" -> [row EXCEPT !.codes = Fresh(stamp + 1)]
      [] request[r].op = "disable"    -> [row EXCEPT !.secret = 0, !.enabled = 0,
                                                     !.counter = 0, !.codes = {}]

(* The flush writes the columns that differ from what the request knows. *)
Changed(known, want, row) ==
    [c \in DOMAIN row |-> IF want[c] = known[c] THEN row[c] ELSE want[c]]

(* A session, by the resets that had looked for sessions before it was on  *)
(* record.  A login writes the user's row, so none is between its look and *)
(* its commit; a switch does not.                                          *)
NewSession(looked) == [live |-> TRUE, after |-> resets + Cardinality(looked)]
Dead == [live |-> FALSE, after |-> 0]

WriteUser(r) ==
    LET op == request[r].op
        known == Spend(r, request[r].read)
    IN  /\ op \in Operations
        /\ ~Locked
        /\ Matches(r)
        /\ user' = Changed(known, Want(r, known), Spend(r, user))
        /\ op \in {"begin", "confirm", "regenerate"} => stamp < MaxStamps
        /\ stamp' = IF op \in {"begin", "confirm", "regenerate"} THEN stamp + 1 ELSE stamp
        /\ op = "login" => Len(sessions) < MaxSessions
        /\ sessions' = IF op = "login"
                       THEN Append(sessions, NewSession({})) ELSE sessions
        /\ Finish(r)
        /\ UNCHANGED <<tokens, resets>>
-----------------------------------------------------------------------------
(***************************************************************************)
(* Sessions.                                                               *)
(***************************************************************************)

(* logout, and the end of a session's time to live.                        *)
EndSession(s) ==
    /\ sessions[s].live
    /\ sessions' = [sessions EXCEPT ![s] = Dead]
    /\ UNCHANGED <<user, tokens, stamp, request, resets>>

(* switch_organization: a live session is exchanged for another; only the  *)
(* rows of sessions are written.                                           *)
ReadSwitch(r, s) ==
    /\ sessions[s].live
    /\ Begin(r, [op |-> "switch", session |-> s])
    /\ UNCHANGED <<user, sessions, tokens, stamp, resets>>

WriteSwitch(r) ==
    /\ request[r].op = "switch"
    /\ Len(sessions) < MaxSessions
    /\ sessions' = Append([sessions EXCEPT ![request[r].session] = Dead],
                           NewSession({q \in Requests : Claimed(q)}))
    /\ Finish(r)
    /\ UNCHANGED <<user, tokens, stamp, resets>>
-----------------------------------------------------------------------------
(***************************************************************************)
(* Reset tokens.                                                           *)
(***************************************************************************)
Valid(t) == tokens[t].valid
Spent(token) == [token EXCEPT !.valid = FALSE, !.seen = 0]
Outstanding == {t \in DOMAIN tokens : Valid(t)}

(* The end of a token's time to live. *)
Lapse(t) ==
    /\ Valid(t)
    /\ tokens' = [tokens EXCEPT ![t] = Spent(@)]
    /\ UNCHANGED <<user, sessions, stamp, request, resets>>

(* issue: the tokens that are outstanding when it looks are consumed, and  *)
(* a new one is made.                                                      *)
ReadIssue(r) ==
    /\ Begin(r, [op |-> "issue", outstanding |-> Outstanding, seen |-> Len(tokens)])
    /\ UNCHANGED <<user, sessions, tokens, stamp, resets>>

(* The mutant leaves the earlier tokens to their time to live.             *)
LeaveThem(r) == {}
Superseded(r) == request[r].outstanding

WriteIssue(r) ==
    /\ request[r].op = "issue"
    /\ Len(tokens) < MaxTokens
    /\ \A q \in Requests : request[q].op = "reset" =>
           ~(request[q].claimed /\ request[q].token \in request[r].outstanding)
    /\ tokens' = Append([t \in DOMAIN tokens |->
                             IF t \in Superseded(r) THEN Spent(tokens[t]) ELSE tokens[t]],
                        [valid |-> TRUE, used |-> 0, seen |-> request[r].seen])
    /\ Finish(r)
    /\ UNCHANGED <<user, sessions, stamp, resets>>

(* consume reads the token; the live sessions are not looked at yet.       *)
ReadReset(r, t) ==
    /\ Valid(t)
    /\ Begin(r, [op |-> "reset", token |-> t, claimed |-> FALSE])
    /\ UNCHANGED <<user, sessions, tokens, stamp, resets>>

(* Its conditional UPDATE, the flush of the password and the SELECT of the *)
(* live sessions: the token's row and the user's are locked from here.     *)
(* The mutant does without the condition.                                  *)
Always(t) == TRUE
Claimable(t) == Valid(t)

ClaimReset(r) ==
    /\ request[r].op = "reset" /\ ~request[r].claimed
    /\ ~Locked
    /\ Claimable(request[r].token)
    /\ request' = [request EXCEPT ![r] = [op |-> "reset", token |-> @.token,
                      claimed |-> TRUE, seen |-> {s \in DOMAIN sessions : sessions[s].live}]]
    /\ UNCHANGED <<user, sessions, tokens, stamp, resets>>

WriteReset(r) ==
    /\ request[r].op = "reset" /\ request[r].claimed
    /\ user' = [user EXCEPT !.hash = [of |-> resets + 1, outdated |-> FALSE]]
    /\ sessions' = [s \in DOMAIN sessions |->
           IF s \in request[r].seen THEN Dead ELSE sessions[s]]
    /\ tokens' = [tokens EXCEPT ![request[r].token] =
                                  [valid |-> FALSE, used |-> @.used + 1, seen |-> 0]]
    /\ resets' = resets + 1
    /\ Finish(r)
    /\ UNCHANGED stamp
-----------------------------------------------------------------------------
(* A request fails and is rolled back. *)
Fail(r) ==
    /\ request[r] # Idle
    /\ Finish(r)
    /\ UNCHANGED <<user, sessions, tokens, stamp, resets>>

UserStep(r) == (\E op \in Operations : ReadUser(r, op)) \/ WriteUser(r)

SessionStep(r) == (\E s \in DOMAIN sessions : ReadSwitch(r, s)) \/ WriteSwitch(r)

TokenStep(r) ==
    \/ ReadIssue(r) \/ WriteIssue(r)
    \/ \E t \in DOMAIN tokens : ReadReset(r, t)
    \/ ClaimReset(r) \/ WriteReset(r)

Next ==
    \/ \E s \in DOMAIN sessions : EndSession(s)
    \/ \E t \in DOMAIN tokens : Lapse(t)
    \/ \E r \in Requests : UserStep(r) \/ SessionStep(r) \/ TokenStep(r) \/ Fail(r)

Spec == Init /\ [][Next]_vars
-----------------------------------------------------------------------------
(* Each row holds what its columns may hold.                               *)
TypeOK ==
    /\ user \in Rows
    /\ \A s \in DOMAIN sessions :
           sessions[s] \in [live : BOOLEAN, after : Nat]
    /\ \A t \in DOMAIN tokens :
           tokens[t] \in [valid : BOOLEAN, used : Nat, seen : Nat]
    /\ stamp \in 0 .. MaxStamps /\ resets \in Nat
    /\ \A r \in Requests : request[r].op \in
           Operations \cup {"idle", "switch", "issue", "reset"}

(* A reset token sets a password once, however many requests present it    *)
(* (the conditional UPDATE of consume).                                    *)
ResetOnce == \A t \in DOMAIN tokens : tokens[t].used <= 1

(* A token that outlives a later one was not there when that one was being *)
(* issued: two keys to one account only come from issues that overlap.     *)
OneKeyUnlessOverlapping ==
    \A t, u \in Outstanding : t < u => tokens[u].seen < t

(* No session that was on record when the last reset committed is live     *)
(* after it, however many logins were in progress; a switch of workspace   *)
(* that committed after the reset looked for sessions is the exception.    *)
ResetSignsOut == \A s \in DOMAIN sessions : sessions[s].live => sessions[s].after >= resets

(* The requests that commit with a second factor in this step.             *)
Answers(r) ==
    /\ request[r].op \in {"login", "regenerate", "disable"} /\ request'[r] = Idle
    /\ request[r].factor # NoFactor
    /\ <<user, sessions>>' # <<user, sessions>>

Unspent(f, row) ==
    CASE f.kind = "totp"     -> row.counter < f.step
      [] f.kind = "recovery" -> f.code \in row.codes

(* A second factor serves once: the row still has it when it is taken and  *)
(* not afterwards, no spent recovery code comes back, and no time step     *)
(* does while the enrolment is the same (verify_challenge).                *)
FactorOnce ==
    [][/\ \A r \in Requests : Answers(r) =>
              /\ Unspent(request[r].factor, user)
              /\ Enabled(user') => ~Unspent(request[r].factor, user')
       /\ user'.codes \ user.codes \subseteq Fresh(stamp + 1)
       /\ user'.enabled = user.enabled => user'.counter >= user.counter]_vars

(* A second factor is one of the enrolment the account has when it is      *)
(* taken, although it was checked on an earlier row.                       *)
FactorIsCurrent ==
    [][\A r \in Requests : Answers(r) =>
           Enabled(user) /\ user.secret = request[r].read.secret]_vars

(* Only a reset changes the password, and no other request brings an older *)
(* one back with the columns it writes; the exception is a login that      *)
(* rehashes the password it read.                                          *)
PasswordMovesByReset ==
    [][user'.hash.of # user.hash.of =>
           \E r \in Requests :
               /\ request[r] # Idle /\ request'[r] = Idle
               /\ \/ request[r].op = "reset"
                  \/ request[r].op = "login" /\ request[r].read.hash.outdated]_vars
-----------------------------------------------------------------------------
(* Refuted: what the code lets happen when requests overlap.  A rehash     *)
(* restores the password a reset replaced.                                 *)
PasswordStays == user.hash.of = resets

(* An enrolment begun beside a confirmation enables a secret nobody        *)
(* proved, and a second confirmation lets a time step be used again.       *)
ProvedAndSpent ==
    [][\A r \in Requests : (request[r].op = "confirm" /\ request'[r] = Idle /\ stamp' # stamp) =>
           /\ user'.secret = request[r].read.secret
           /\ user'.counter >= user.counter]_vars
=============================================================================
