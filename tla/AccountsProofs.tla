-------------------------- MODULE AccountsProofs --------------------------
(***************************************************************************)
(* Proofs about Accounts, for any number of requests, sessions, tokens,    *)
(* enrolments and lists of recovery codes.                                 *)
(***************************************************************************)
EXTENDS Accounts, FiniteSetTheorems, SequenceTheorems, TLAPS

LEMMA SeqElements ==
  ASSUME NEW S, NEW s \in Seq(S)
  PROVE  DOMAIN s = 1 .. Len(s) /\ Len(s) \in Nat /\ \A i \in DOMAIN s : s[i] \in S
OBVIOUS
-----------------------------------------------------------------------------
(***************************************************************************)
(* The user's row.                                                         *)
(***************************************************************************)

(* What a row may hold when the last stamp is the current one; there is a  *)
(* last counter exactly while there is a confirmation.                     *)
Proper(row) ==
    /\ row \in Rows
    /\ row.secret \in 0 .. stamp /\ row.enabled \in 0 .. stamp
    /\ row.codes \subseteq (1 .. stamp) \X {1, 2}
    /\ row.enabled = 0 <=> row.counter = 0

(* The factor a request was admitted with. *)
FactorFits(op, row, f) ==
    /\ op = "login" => IF Enabled(row) THEN f \in Challenges(row) ELSE f = NoFactor
    /\ op = "begin" => ~Enabled(row) /\ f = NoFactor
    /\ op = "confirm" => /\ ~Enabled(row) /\ row.secret # 0
                         /\ f.kind = "proof" /\ f.step \in Window
    /\ op \in {"regenerate", "disable"} => Enabled(row) /\ f \in Challenges(row)

(* What a request that will write the user's row remembers.  A list of     *)
(* recovery codes belongs to one secret, until that secret is removed.     *)
Remembers(r) ==
    request[r].op \in Operations =>
        /\ Proper(request[r].read)
        /\ FactorFits(request[r].op, request[r].read, request[r].factor)
        /\ user.codes \cap request[r].read.codes # {} => user.secret \in {0, request[r].read.secret}

UserInv ==
    /\ stamp \in 0 .. MaxStamps /\ resets \in Nat
    /\ DOMAIN request = Requests
    /\ Proper(user)
    /\ \A r \in Requests : Remembers(r)

LEMMA ChallengeType ==
  ASSUME NEW row, NEW f \in Challenges(row)
  PROVE  /\ f.kind \in {"totp", "recovery"} /\ f # NoFactor
         /\ f.kind = "totp" => f.step \in Window
         /\ f.kind = "recovery" => f.code \in row.codes
BY DEF Challenges, NoFactor

LEMMA FreshIsNew ==
  ASSUME NEW n \in Nat, NEW codes, codes \subseteq (1 .. n) \X {1, 2}
  PROVE  /\ Fresh(n + 1) \cap codes = {} /\ Fresh(n + 1) # codes
         /\ Fresh(n + 1) \subseteq (1 .. n + 1) \X {1, 2}
         /\ (1 .. n) \X {1, 2} \subseteq (1 .. n + 1) \X {1, 2}
<1>1. <<n + 1, 1>> \in Fresh(n + 1)
  BY DEF Fresh
<1>2. ASSUME NEW x \in Fresh(n + 1)
      PROVE  x[1] = n + 1
  BY <1>2 DEF Fresh
<1>3. ASSUME NEW x \in codes
      PROVE  x[1] \in 1 .. n
  BY <1>3
<1>4. Fresh(n + 1) \cap codes = {}
  BY <1>2, <1>3
<1>5. Fresh(n + 1) \subseteq (1 .. n + 1) \X {1, 2}
  BY DEF Fresh
<1> QED
  BY <1>1, <1>4, <1>5

(* The columns verify_challenge sets. *)
LEMMA SpendEffect ==
  ASSUME UserInv, NEW r \in Requests, request[r].op \in Operations, NEW row \in Rows
  PROVE  LET f == request[r].factor
             spent == Spend(r, row)
         IN  /\ spent = [hash |-> spent.hash, secret |-> spent.secret, enabled |-> spent.enabled,
                         counter |-> spent.counter, codes |-> spent.codes]
             /\ spent.hash = row.hash /\ spent.secret = row.secret /\ spent.enabled = row.enabled
             /\ spent.counter = IF f.kind = "totp" THEN f.step ELSE row.counter
             /\ spent.codes = IF f.kind = "recovery" THEN request[r].read.codes \ {f.code}
                              ELSE row.codes
<1>1. CASE request[r].factor.kind = "totp"
  BY <1>1 DEF Spend, Rows
<1>2. CASE request[r].factor.kind = "recovery"
  BY <1>2 DEF Spend, Rows
<1>3. CASE request[r].factor.kind \notin {"totp", "recovery"}
  BY <1>3 DEF Spend, Rows
<1> QED
  BY <1>1, <1>2, <1>3

(* Each column as the request wants it, or as it is. *)
LEMMA Columns ==
  ASSUME UserInv, NEW r \in Requests, WriteUser(r)
  PROVE  LET known == Spend(r, request[r].read)
             row == Spend(r, user)
             want == Want(r, known)
         IN  /\ user' = [hash |-> user'.hash, secret |-> user'.secret, enabled |-> user'.enabled,
                         counter |-> user'.counter, codes |-> user'.codes]
             /\ user'.hash = IF want.hash = known.hash THEN row.hash ELSE want.hash
             /\ user'.secret = IF want.secret = known.secret THEN row.secret ELSE want.secret
             /\ user'.enabled = IF want.enabled = known.enabled THEN row.enabled ELSE want.enabled
             /\ user'.counter = IF want.counter = known.counter THEN row.counter ELSE want.counter
             /\ user'.codes = IF want.codes = known.codes THEN row.codes ELSE want.codes
<1> DEFINE known == Spend(r, request[r].read)
           row == Spend(r, user)
           want == Want(r, known)
<1>1. row = [hash |-> row.hash, secret |-> row.secret, enabled |-> row.enabled,
             counter |-> row.counter, codes |-> row.codes]
  BY SpendEffect DEF WriteUser, UserInv, Proper
<1>2. user' = Changed(known, want, row)
  BY DEF WriteUser
<1> HIDE DEF known, row, want
<1>3. DOMAIN row = {"hash", "secret", "enabled", "counter", "codes"}
  BY <1>1
<1>4. user' = [c \in {"hash", "secret", "enabled", "counter", "codes"} |->
                  IF want[c] = known[c] THEN row[c] ELSE want[c]]
  BY <1>2, <1>3 DEF Changed
<1> QED
  BY <1>4 DEF known, row, want

(* What each request that writes the user's row makes of its columns.      *)
LEMMA UserWrites ==
  ASSUME UserInv, NEW r \in Requests, WriteUser(r)
  PROVE  LET op == request[r].op
             read == request[r].read
             f == request[r].factor
         IN  /\ user' = [hash |-> user'.hash, secret |-> user'.secret, enabled |-> user'.enabled,
                         counter |-> user'.counter, codes |-> user'.codes]
             /\ user'.hash = IF op = "login" /\ read.hash.outdated
                             THEN [read.hash EXCEPT !.outdated = FALSE] ELSE user.hash
             /\ user'.secret = IF op = "begin" THEN stamp + 1
                               ELSE IF op = "disable" THEN 0 ELSE user.secret
             /\ user'.enabled = IF op = "confirm" THEN stamp + 1
                                ELSE IF op = "disable" \/ (op = "begin" /\ read.enabled # 0) THEN 0
                                ELSE user.enabled
             /\ user'.counter = IF f.kind = "proof" THEN f.step
                                ELSE IF op = "disable" \/ (op = "begin" /\ read.enabled # 0) THEN 0
                                ELSE IF f.kind = "totp" THEN f.step ELSE user.counter
             /\ \/ op \in {"begin", "regenerate"} /\ user'.codes = Fresh(stamp + 1)
                \/ op = "disable" /\ user'.codes \in {user.codes, {}}
                \/ op = "confirm" /\ user'.codes = user.codes
                \/ op = "login" /\ user'.codes = IF f.kind = "recovery" THEN user.codes \ {f.code}
                                                 ELSE user.codes
<1> DEFINE op == request[r].op
           read == request[r].read
           f == request[r].factor
           known == Spend(r, read)
           row == Spend(r, user)
           want == Want(r, known)
<1>1. /\ op \in Operations /\ Matches(r)
      /\ Proper(read) /\ FactorFits(op, read, f) /\ Proper(user)
      /\ stamp \in Nat
  BY DEF WriteUser, UserInv, Remembers
<1>2. /\ known = [hash |-> known.hash, secret |-> known.secret, enabled |-> known.enabled,
                  counter |-> known.counter, codes |-> known.codes]
      /\ known.hash = read.hash /\ known.secret = read.secret /\ known.enabled = read.enabled
      /\ known.counter = IF f.kind = "totp" THEN f.step ELSE read.counter
      /\ known.codes = IF f.kind = "recovery" THEN read.codes \ {f.code} ELSE read.codes
  BY <1>1, SpendEffect DEF Proper
<1>3. /\ row.hash = user.hash /\ row.secret = user.secret /\ row.enabled = user.enabled
      /\ row.counter = IF f.kind = "totp" THEN f.step ELSE user.counter
      /\ row.codes = IF f.kind = "recovery" THEN read.codes \ {f.code} ELSE user.codes
  BY <1>1, SpendEffect DEF Proper
<1>4. /\ user' = [hash |-> user'.hash, secret |-> user'.secret, enabled |-> user'.enabled,
                  counter |-> user'.counter, codes |-> user'.codes]
      /\ user'.hash = IF want.hash = known.hash THEN row.hash ELSE want.hash
      /\ user'.secret = IF want.secret = known.secret THEN row.secret ELSE want.secret
      /\ user'.enabled = IF want.enabled = known.enabled THEN row.enabled ELSE want.enabled
      /\ user'.counter = IF want.counter = known.counter THEN row.counter ELSE want.counter
      /\ user'.codes = IF want.codes = known.codes THEN row.codes ELSE want.codes
  BY Columns
<1>5. f.kind = "recovery" => user.codes = read.codes
  BY <1>1 DEF Matches
<1>6. known.codes \subseteq (1 .. stamp) \X {1, 2} /\ Fresh(stamp + 1) # known.codes
  BY <1>1, <1>2, FreshIsNew DEF Proper
<1>7. /\ read.secret # stamp + 1 /\ read.enabled # stamp + 1
      /\ read.hash.outdated \in BOOLEAN /\ read.hash = [of |-> read.hash.of, outdated |-> read.hash.outdated]
  BY <1>1 DEF Proper, Rows
<1> HIDE DEF known, row, want
<1>8. CASE op = "login"
  <2>1. /\ want.hash = [read.hash EXCEPT !.outdated = FALSE]
        /\ want.secret = known.secret /\ want.enabled = known.enabled
        /\ want.counter = known.counter /\ want.codes = known.codes
    BY <1>2, <1>8 DEF want, Want
  <2>2. want.hash = known.hash <=> ~read.hash.outdated
    BY <1>2, <1>7, <2>1
  <2>3. f.kind # "proof"
    BY <1>1, <1>8, ChallengeType DEF FactorFits, NoFactor
  <2> QED
    BY <1>3, <1>4, <1>5, <1>8, <2>1, <2>2, <2>3
<1>9. CASE op = "begin"
  <2>1. /\ want.hash = known.hash /\ want.secret = stamp + 1 /\ want.enabled = 0
        /\ want.counter = 0 /\ want.codes = Fresh(stamp + 1)
    BY <1>2, <1>9 DEF want, Want
  <2>2. f.kind = "none"
    BY <1>1, <1>9 DEF FactorFits, NoFactor
  <2>3. read.enabled = 0 <=> read.counter = 0
    BY <1>1 DEF Proper
  <2> QED
    BY <1>2, <1>3, <1>4, <1>6, <1>7, <1>9, <2>1, <2>2, <2>3
<1>10. CASE op = "confirm"
  <2>1. /\ want.hash = known.hash /\ want.secret = known.secret /\ want.enabled = stamp + 1
        /\ want.counter = f.step /\ want.codes = known.codes
    BY <1>2, <1>10 DEF want, Want
  <2>2. f.kind = "proof" /\ f.step # 0 /\ read.counter = 0
    BY <1>1, <1>10, AccountsAssumption DEF FactorFits, Enabled, Proper
  <2> QED
    BY <1>2, <1>3, <1>4, <1>7, <1>10, <2>1, <2>2
<1>11. CASE op = "regenerate"
  <2>1. /\ want.hash = known.hash /\ want.secret = known.secret /\ want.enabled = known.enabled
        /\ want.counter = known.counter /\ want.codes = Fresh(stamp + 1)
    BY <1>2, <1>11 DEF want, Want
  <2>2. f.kind \in {"totp", "recovery"}
    BY <1>1, <1>11, ChallengeType DEF FactorFits
  <2> QED
    BY <1>3, <1>4, <1>6, <1>11, <2>1, <2>2
<1>12. CASE op = "disable"
  <2>1. /\ want.hash = known.hash /\ want.secret = 0 /\ want.enabled = 0
        /\ want.counter = 0 /\ want.codes = {}
    BY <1>2, <1>12 DEF want, Want
  <2>2. /\ f.kind \in {"totp", "recovery"} /\ read.secret # 0 /\ read.enabled # 0
        /\ f.kind = "totp" => f.step # 0
    BY <1>1, <1>12, ChallengeType, AccountsAssumption DEF FactorFits, Enabled
  <2>3. known.counter # 0
    BY <1>1, <1>2, <2>2 DEF Proper
  <2>4. user'.codes \in {user.codes, {}}
    BY <1>2, <1>3, <1>4, <2>1, <2>2
  <2> QED
    BY <1>2, <1>3, <1>4, <1>12, <2>1, <2>2, <2>3, <2>4
<1> QED
  BY <1>1, <1>8, <1>9, <1>10, <1>11, <1>12 DEF Operations
-----------------------------------------------------------------------------
(* Requests that are still in progress remember what they remembered.      *)
LEMMA ProperLater ==
  ASSUME NEW row, Proper(row), stamp \in Nat, stamp' \in {stamp, stamp + 1}
  PROVE  Proper(row)'
<1>1. (1 .. stamp) \X {1, 2} \subseteq (1 .. stamp') \X {1, 2}
  BY FreshIsNew
<1> QED
  BY <1>1 DEF Proper

LEMMA RequestsRemember ==
  ASSUME UserInv, stamp' \in {stamp, stamp + 1},
         \/ user'.codes \subseteq user.codes /\ user'.secret \in {0, user.secret}
         \/ user'.codes = Fresh(stamp + 1),
         NEW q \in Requests, request'[q] = request[q]
  PROVE  Remembers(q)'
<1> SUFFICES ASSUME request[q].op \in Operations
             PROVE  Remembers(q)'
  BY DEF Remembers, Operations
<1> DEFINE read == request[q].read
<1>1. Remembers(q) /\ Proper(read) /\ stamp \in Nat
  BY DEF UserInv, Remembers
<1>2. Proper(read)'
  BY <1>1, ProperLater
<1>3. Fresh(stamp + 1) \cap read.codes = {}
  BY <1>1, FreshIsNew DEF Proper
<1>4. user'.codes \cap read.codes # {} => user'.secret \in {0, read.secret}
  BY <1>1, <1>3 DEF Remembers
<1> QED
  BY <1>1, <1>2, <1>4 DEF Remembers, FactorFits, Enabled, Challenges

(* A step that leaves the user's row to the others, or writes its password.*)
LEMMA UserKept ==
  ASSUME UserInv, UNCHANGED stamp, resets' \in Nat,
         user' = user \/ \E n \in Nat : user' = [user EXCEPT !.hash = [of |-> n, outdated |-> FALSE]],
         DOMAIN request' = Requests,
         \A q \in Requests : request'[q] = request[q] \/ request'[q].op \notin Operations
  PROVE  UserInv'
<1>1. Proper(user) /\ stamp \in Nat
  BY DEF UserInv
<1>2. /\ user' \in Rows /\ user'.secret = user.secret /\ user'.enabled = user.enabled
      /\ user'.counter = user.counter /\ user'.codes = user.codes
  <2>1. CASE user' = user
    BY <1>1, <2>1 DEF Proper
  <2>2. ASSUME NEW n \in Nat, user' = [user EXCEPT !.hash = [of |-> n, outdated |-> FALSE]]
        PROVE  /\ user' \in Rows /\ user'.secret = user.secret /\ user'.enabled = user.enabled
               /\ user'.counter = user.counter /\ user'.codes = user.codes
    BY <1>1, <2>2 DEF Proper, Rows
  <2> QED
    BY <2>1, <2>2
<1>3. Proper(user)'
  BY <1>1, <1>2 DEF Proper
<1>4. \A q \in Requests : Remembers(q)'
  BY <1>2, RequestsRemember DEF Remembers
<1> QED
  BY <1>3, <1>4 DEF UserInv

LEMMA UserWritten ==
  ASSUME UserInv, NEW r \in Requests, WriteUser(r)
  PROVE  UserInv'
<1> DEFINE op == request[r].op
           read == request[r].read
           f == request[r].factor
<1>1. /\ op \in Operations /\ Matches(r) /\ Proper(read) /\ FactorFits(op, read, f)
      /\ Proper(user) /\ stamp \in Nat
  BY DEF WriteUser, UserInv, Remembers
<1>2. /\ request' = [request EXCEPT ![r] = Idle] /\ resets' = resets
      /\ stamp' = (IF op \in {"begin", "confirm", "regenerate"} THEN stamp + 1 ELSE stamp)
      /\ op \in {"begin", "confirm", "regenerate"} => stamp < MaxStamps
  BY DEF WriteUser, Finish
<1>3. stamp' \in {stamp, stamp + 1} /\ stamp' \in 0 .. MaxStamps
  BY <1>1, <1>2, AccountsAssumption DEF UserInv
<1>4. /\ Fresh(stamp + 1) \subseteq (1 .. stamp + 1) \X {1, 2}
      /\ (1 .. stamp) \X {1, 2} \subseteq (1 .. stamp + 1) \X {1, 2}
  BY <1>1, FreshIsNew DEF Proper
<1>5. \/ user'.codes \subseteq user.codes
      \/ op \in {"begin", "regenerate"} /\ user'.codes = Fresh(stamp + 1)
  BY UserWrites
<1>6. user'.codes \subseteq (1 .. stamp') \X {1, 2}
  BY <1>1, <1>2, <1>4, <1>5 DEF Proper
<1>7. user'.secret \in 0 .. stamp' /\ user'.enabled \in 0 .. stamp'
  <2>1. user.secret \in 0 .. stamp /\ user.enabled \in 0 .. stamp
    BY <1>1 DEF Proper
  <2>2. /\ user'.secret \in {user.secret, 0} \/ (op = "begin" /\ user'.secret = stamp + 1)
        /\ user'.enabled \in {user.enabled, 0} \/ (op = "confirm" /\ user'.enabled = stamp + 1)
    BY UserWrites
  <2> QED
    BY <1>1, <1>2, <2>1, <2>2
<1>8. f.kind \in {"none", "totp", "recovery", "proof"} /\ (f.kind \in {"totp", "proof"} => f.step \in Window)
      /\ (f.kind = "proof" <=> op = "confirm")
      /\ (f.kind = "totp" => user.enabled # 0)
  BY <1>1, ChallengeType DEF FactorFits, NoFactor, Operations, Matches, Enabled
<1>9. 0 \notin Window
  BY AccountsAssumption
<1>10. user'.enabled = 0 <=> user'.counter = 0
  <2>1. /\ user'.enabled = IF op = "confirm" THEN stamp + 1
                            ELSE IF op = "disable" \/ (op = "begin" /\ read.enabled # 0) THEN 0
                            ELSE user.enabled
        /\ user'.counter = IF f.kind = "proof" THEN f.step
                           ELSE IF op = "disable" \/ (op = "begin" /\ read.enabled # 0) THEN 0
                           ELSE IF f.kind = "totp" THEN f.step ELSE user.counter
    BY UserWrites
  <2> QED
    BY <1>1, <1>8, <1>9, <2>1 DEF Proper
<1>11. user'.counter \in {0} \cup Window
  <2>1. user.counter \in {0} \cup Window
    BY <1>1 DEF Proper, Rows
  <2>2. user'.counter \in {0, f.step, user.counter}
    BY UserWrites
  <2>3. user'.counter = f.step => f.kind \in {"totp", "proof"} \/ user'.counter \in {0, user.counter}
    BY UserWrites
  <2> QED
    BY <1>8, <2>1, <2>2, <2>3
<1>12. user'.hash \in [of : Nat, outdated : BOOLEAN]
  <2>1. user.hash \in [of : Nat, outdated : BOOLEAN] /\ read.hash \in [of : Nat, outdated : BOOLEAN]
    BY <1>1 DEF Proper, Rows
  <2>2. [read.hash EXCEPT !.outdated = FALSE] \in [of : Nat, outdated : BOOLEAN]
    BY <2>1
  <2>3. user'.hash = user.hash \/ user'.hash = [read.hash EXCEPT !.outdated = FALSE]
    BY UserWrites
  <2> QED
    BY <2>1, <2>2, <2>3
<1>13. Proper(user)'
  <2>1. 0 .. stamp' \subseteq 0 .. MaxStamps /\ 1 .. stamp' \subseteq 1 .. MaxStamps
    BY <1>3, AccountsAssumption
  <2>2. (1 .. stamp') \X {1, 2} \subseteq Codes
    BY <2>1 DEF Codes
  <2>3. user' = [hash |-> user'.hash, secret |-> user'.secret, enabled |-> user'.enabled,
                 counter |-> user'.counter, codes |-> user'.codes]
    BY UserWrites
  <2>4. user'.secret \in 0 .. MaxStamps /\ user'.enabled \in 0 .. MaxStamps
        /\ user'.codes \in SUBSET Codes
    BY <1>6, <1>7, <2>1, <2>2
  <2>5. user' \in Rows
    BY <1>11, <1>12, <2>3, <2>4 DEF Rows
  <2> QED
    BY <1>6, <1>7, <1>10, <2>5 DEF Proper
<1>14. \/ user'.codes \subseteq user.codes /\ user'.secret \in {0, user.secret}
       \/ user'.codes = Fresh(stamp + 1)
  <2>1. op # "begin" => user'.secret \in {0, user.secret}
    BY UserWrites
  <2>2. op = "begin" => user'.codes = Fresh(stamp + 1)
    BY UserWrites
  <2> QED
    BY <1>5, <2>1, <2>2
<1>15. ASSUME NEW q \in Requests
       PROVE  Remembers(q)'
  <2>1. CASE q = r
    BY <1>2, <2>1 DEF UserInv, Remembers, Idle, Operations
  <2>2. CASE q # r
    <3>1. request'[q] = request[q]
      BY <1>2, <2>2 DEF UserInv
    <3> QED
      BY <1>3, <1>14, <3>1, RequestsRemember
  <2> QED
    BY <2>1, <2>2
<1> QED
  BY <1>2, <1>3, <1>13, <1>15 DEF UserInv

LEMMA UserStays == UserInv /\ [Next]_vars => UserInv'
<1> SUFFICES ASSUME UserInv, [Next]_vars
             PROVE  UserInv'
  OBVIOUS
<1>1. ASSUME NEW s \in DOMAIN sessions, EndSession(s)
      PROVE  UserInv'
  BY <1>1, UserKept DEF EndSession, UserInv
<1>2. ASSUME NEW t \in DOMAIN tokens, Lapse(t)
      PROVE  UserInv'
  BY <1>2, UserKept DEF Lapse, UserInv
<1>3. ASSUME NEW r \in Requests, NEW op \in Operations, ReadUser(r, op)
      PROVE  UserInv'
  <2>1. PICK f \in Admitted(op) :
            request' = [request EXCEPT ![r] = [op |-> op, read |-> user, factor |-> f]]
    BY <1>3 DEF ReadUser, Begin
  <2>2. user' = user /\ stamp' = stamp /\ resets' = resets /\ Proper(user)'
    BY <1>3 DEF ReadUser, UserInv, Proper
  <2>3. FactorFits(op, user, f)
    BY <2>1 DEF Admitted, FactorFits, Operations, NoFactor
  <2>4. Remembers(r)'
    BY <2>1, <2>2, <2>3 DEF Remembers, UserInv, FactorFits, Enabled, Challenges
  <2>5. ASSUME NEW q \in Requests, q # r
        PROVE  Remembers(q)'
    BY <2>1, <2>2, <2>5, RequestsRemember DEF UserInv
  <2> QED
    BY <2>1, <2>2, <2>4, <2>5 DEF UserInv
<1>4. ASSUME NEW r \in Requests, WriteUser(r)
      PROVE  UserInv'
  BY <1>4, UserWritten
<1>5. ASSUME NEW r \in Requests, SessionStep(r) \/ TokenStep(r) \/ Fail(r)
      PROVE  UserInv'
  <2>1. \E what : what.op \notin Operations /\ request' = [request EXCEPT ![r] = what]
    BY <1>5 DEF SessionStep, TokenStep, Fail, ReadSwitch, WriteSwitch, ReadIssue, WriteIssue,
       ReadReset, ClaimReset, WriteReset, Begin, Finish, Operations, Idle
  <2>2. \A q \in Requests : request'[q] = request[q] \/ request'[q].op \notin Operations
    BY <2>1 DEF UserInv
  <2>3. /\ UNCHANGED stamp /\ resets' \in Nat
        /\ user' = user \/ \E n \in Nat : user' = [user EXCEPT !.hash = [of |-> n, outdated |-> FALSE]]
    <3>1. CASE WriteReset(r)
      <4>1. resets + 1 \in Nat
        BY DEF UserInv
      <4> QED
        BY <3>1, <4>1 DEF WriteReset
    <3>2. CASE UNCHANGED <<user, stamp, resets>>
      BY <3>2 DEF UserInv
    <3> QED
      BY <1>5, <3>1, <3>2 DEF SessionStep, TokenStep, Fail, ReadSwitch, WriteSwitch, ReadIssue,
         WriteIssue, ReadReset, ClaimReset
  <2> QED
    BY <2>1, <2>2, <2>3, UserKept DEF UserInv
<1>6. CASE UNCHANGED vars
  BY <1>6, UserKept DEF vars, UserInv
<1> QED
  BY <1>1, <1>2, <1>3, <1>4, <1>5, <1>6 DEF Next, UserStep

LEMMA UserInit == Init => UserInv
BY AccountsAssumption DEF Init, UserInv, Proper, Remembers, Registered, Rows, Idle, Operations, Codes
-----------------------------------------------------------------------------
(* Which steps write the user's row, and which request a factor is of.     *)
LEMMA RowWriters ==
  ASSUME [Next]_vars, user' # user
  PROVE  \E r \in Requests : WriteUser(r) \/ WriteReset(r)
BY DEF Next, vars, EndSession, Lapse, UserStep, SessionStep, TokenStep, Fail, ReadUser, ReadSwitch,
       WriteSwitch, ReadIssue, WriteIssue, ReadReset, ClaimReset

LEMMA FactorWriter ==
  ASSUME UserInv, [Next]_vars, NEW r \in Requests, Answers(r)
  PROVE  WriteUser(r)
<1>1. request[r].op \in {"login", "regenerate", "disable"} /\ request[r] # Idle
  BY DEF Answers, Idle
<1>2. request'[r] = Idle /\ <<user, sessions>>' # <<user, sessions>>
  BY DEF Answers
<1>3. PICK q \in Requests : UserStep(q) \/ SessionStep(q) \/ TokenStep(q)
  BY <1>1, <1>2 DEF Next, vars, EndSession, Lapse, Fail
<1>4. q = r
  <2>1. \E what : request' = [request EXCEPT ![q] = what]
    BY <1>3 DEF UserStep, SessionStep, TokenStep, ReadUser, WriteUser, ReadSwitch, WriteSwitch,
       ReadIssue, WriteIssue, ReadReset, ClaimReset, WriteReset, Begin, Finish
  <2> QED
    BY <1>1, <1>2, <2>1 DEF UserInv
<1> QED
  BY <1>1, <1>3, <1>4 DEF UserStep, SessionStep, TokenStep, ReadUser, ReadSwitch, WriteSwitch,
     ReadIssue, WriteIssue, ReadReset, ClaimReset, WriteReset, Begin

(* What the request that answers with a factor knows of the row. *)
LEMMA FactorKnown ==
  ASSUME UserInv, [Next]_vars, NEW r \in Requests, Answers(r)
  PROVE  LET f == request[r].factor
         IN  /\ Enabled(user) /\ user.secret = request[r].read.secret
             /\ \/ f.kind = "totp" /\ f.step \in Window /\ user.counter < f.step
                \/ f.kind = "recovery" /\ f.code \in user.codes
<1> DEFINE f == request[r].factor
           read == request[r].read
<1>1. WriteUser(r) /\ request[r].op \in {"login", "regenerate", "disable"} /\ f # NoFactor
  BY FactorWriter DEF Answers
<1>2. Matches(r) /\ Remembers(r) /\ f \in Challenges(read)
  BY <1>1 DEF WriteUser, UserInv, Remembers, FactorFits, Operations
<1>3. CASE f.kind = "totp"
  BY <1>2, <1>3, ChallengeType DEF Matches
<1>4. CASE f.kind = "recovery"
  <2>1. Enabled(user) /\ user.codes = read.codes /\ f.code \in read.codes
    BY <1>2, <1>4, ChallengeType DEF Matches
  <2>2. user.secret \in {0, read.secret}
    BY <1>1, <1>2, <2>1 DEF Remembers, Operations
  <2> QED
    BY <1>4, <2>1, <2>2 DEF Enabled
<1> QED
  BY <1>2, <1>3, <1>4, ChallengeType

(* verify_challenge takes a factor only for the enrolment the account has, *)
(* although it checked it on a row that was read before.                   *)
THEOREM FactorsAreCurrent == Spec => FactorIsCurrent
<1>1. UserInv /\ [Next]_vars =>
          [\A r \in Requests : Answers(r) =>
               Enabled(user) /\ user.secret = request[r].read.secret]_vars
  BY FactorKnown
<1> QED
  BY UserInit, UserStays, <1>1, PTL DEF Spec, FactorIsCurrent

(* A time step or a recovery code serves once, whatever requests spend,    *)
(* renew or remove the enrolment meanwhile (verify_challenge).             *)
THEOREM FactorsServeOnce == Spec => FactorOnce
<1> DEFINE Once(r) == Answers(r) =>
               /\ Unspent(request[r].factor, user)
               /\ Enabled(user') => ~Unspent(request[r].factor, user')
           NoneBack ==
               /\ user'.codes \ user.codes \subseteq Fresh(stamp + 1)
               /\ user'.enabled = user.enabled => user'.counter >= user.counter
<1>1. ASSUME UserInv, [Next]_vars, NEW r \in Requests, Answers(r)
      PROVE  /\ Unspent(request[r].factor, user)
             /\ Enabled(user') => ~Unspent(request[r].factor, user')
  <2> DEFINE f == request[r].factor
             op == request[r].op
  <2>1. /\ WriteUser(r) /\ op \in {"login", "regenerate", "disable"}
        /\ Proper(user) /\ stamp \in Nat
    BY <1>1, FactorWriter DEF Answers, UserInv
  <2>2. \/ f.kind = "totp" /\ f.step \in Window /\ user.counter < f.step
        \/ f.kind = "recovery" /\ f.code \in user.codes
    BY <1>1, FactorKnown
  <2>3. Unspent(f, user)
    BY <2>2 DEF Unspent
  <2>4. CASE op = "disable"
    BY <1>1, <2>1, <2>3, <2>4, UserWrites DEF Enabled
  <2>5. CASE op # "disable" /\ f.kind = "totp"
    <3>1. user'.counter = f.step /\ f.step \in Nat
      BY <1>1, <2>1, <2>2, <2>5, UserWrites, AccountsAssumption
    <3> QED
      BY <2>3, <2>5, <3>1 DEF Unspent
  <2>6. CASE op = "login" /\ f.kind = "recovery"
    <3>1. user'.codes = user.codes \ {f.code}
      BY <1>1, <2>1, <2>6, UserWrites
    <3> QED
      BY <2>3, <2>6, <3>1 DEF Unspent
  <2>7. CASE op = "regenerate" /\ f.kind = "recovery"
    <3>1. user'.codes = Fresh(stamp + 1)
      BY <1>1, <2>1, <2>7, UserWrites
    <3>2. Fresh(stamp + 1) \cap user.codes = {}
      BY <2>1, FreshIsNew DEF Proper
    <3> QED
      BY <2>2, <2>3, <2>7, <3>1, <3>2 DEF Unspent
  <2> QED
    BY <2>1, <2>2, <2>4, <2>5, <2>6, <2>7
<1>2. ASSUME UserInv, [Next]_vars
      PROVE  NoneBack
  <2>1. Proper(user) /\ user.counter \in Int
    <3>1. {0} \cup Window \subseteq Int
      BY AccountsAssumption
    <3>2. Proper(user)
      BY <1>2 DEF UserInv
    <3>3. user.counter \in {0} \cup Window
      BY <3>2 DEF Proper, Rows
    <3>4. user.counter \in Int
      BY <3>1, <3>3
    <3> QED
      BY <3>2, <3>4
  <2>2. CASE user' = user
    BY <2>1, <2>2
  <2>3. ASSUME NEW r \in Requests, WriteReset(r)
        PROVE  NoneBack
    <3>1. /\ user'.codes = user.codes /\ user'.counter = user.counter
      BY <2>1, <2>3 DEF WriteReset, Proper, Rows
    <3> QED
      BY <2>1, <3>1
  <2>4. ASSUME NEW r \in Requests, WriteUser(r)
        PROVE  NoneBack
    <3> DEFINE op == request[r].op
               read == request[r].read
               f == request[r].factor
    <3>1. user'.codes \subseteq user.codes \/ user'.codes = Fresh(stamp + 1)
      BY <1>2, <2>4, UserWrites
    <3>2. /\ op \in Operations /\ Matches(r) /\ FactorFits(op, read, f) /\ stamp \in Nat
      BY <1>2, <2>4 DEF WriteUser, UserInv, Remembers
    <3>3. /\ user'.enabled = IF op = "confirm" THEN stamp + 1
                             ELSE IF op = "disable" \/ (op = "begin" /\ read.enabled # 0) THEN 0
                             ELSE user.enabled
          /\ user'.counter = IF f.kind = "proof" THEN f.step
                             ELSE IF op = "disable" \/ (op = "begin" /\ read.enabled # 0) THEN 0
                             ELSE IF f.kind = "totp" THEN f.step ELSE user.counter
      BY <1>2, <2>4, UserWrites
    <3>4. user.enabled # stamp + 1
      BY <2>1, <3>2 DEF Proper
    <3>5. user.enabled = 0 => user.counter = 0
      BY <2>1 DEF Proper
    <3>6. f.kind = "proof" => op = "confirm"
      BY <3>2, ChallengeType DEF FactorFits, NoFactor, Operations
    <3>7. f.kind = "totp" => user.counter < f.step /\ f.step \in Int
      <4>1. f.kind = "totp" => f \in Challenges(read)
        BY <3>2 DEF FactorFits, NoFactor, Operations
      <4> QED
        BY <3>2, <4>1, ChallengeType, AccountsAssumption DEF Matches
    <3>8. user'.enabled = user.enabled => user'.counter >= user.counter
      BY <2>1, <3>3, <3>4, <3>5, <3>6, <3>7
    <3> QED
      BY <3>1, <3>8
  <2> QED
    BY <1>2, <2>2, <2>3, <2>4, RowWriters
<1>3. UserInv /\ [Next]_vars =>
          [/\ \A r \in Requests : Answers(r) =>
                  /\ Unspent(request[r].factor, user)
                  /\ Enabled(user') => ~Unspent(request[r].factor, user')
           /\ user'.codes \ user.codes \subseteq Fresh(stamp + 1)
           /\ user'.enabled = user.enabled => user'.counter >= user.counter]_vars
  BY <1>1, <1>2
<1> QED
  BY UserInit, UserStays, <1>3, PTL DEF Spec, FactorOnce

(* Only consume sets another password; a login that rehashes may write     *)
(* back the one it read.                                                   *)
THEOREM PasswordsMoveByReset == Spec => PasswordMovesByReset
<1>1. UserInv /\ [Next]_vars =>
          [user'.hash.of # user.hash.of =>
              \E r \in Requests :
                  /\ request[r] # Idle /\ request'[r] = Idle
                  /\ \/ request[r].op = "reset"
                     \/ request[r].op = "login" /\ request[r].read.hash.outdated]_vars
  <2> SUFFICES ASSUME UserInv, [Next]_vars, user'.hash.of # user.hash.of
               PROVE  \E r \in Requests :
                          /\ request[r] # Idle /\ request'[r] = Idle
                          /\ \/ request[r].op = "reset"
                             \/ request[r].op = "login" /\ request[r].read.hash.outdated
    BY Zenon
  <2>1. PICK r \in Requests : WriteUser(r) \/ WriteReset(r)
    BY RowWriters
  <2>2. request'[r] = Idle /\ request[r].op \in Operations \cup {"reset"}
    BY <2>1 DEF WriteUser, WriteReset, Finish, UserInv
  <2>3. CASE WriteUser(r)
    <3>1. user'.hash = IF request[r].op = "login" /\ request[r].read.hash.outdated
                       THEN [request[r].read.hash EXCEPT !.outdated = FALSE] ELSE user.hash
      BY <2>3, UserWrites
    <3>2. request[r].op = "login" /\ request[r].read.hash.outdated
      BY <3>1
    <3> QED
      BY <2>2, <3>2 DEF Idle
  <2>4. CASE WriteReset(r)
    BY <2>2, <2>4 DEF WriteReset, Idle
  <2> QED
    BY <2>1, <2>3, <2>4
<1> QED
  BY UserInit, UserStays, <1>1, PTL DEF Spec, PasswordMovesByReset
-----------------------------------------------------------------------------
(***************************************************************************)
(* Sessions and reset tokens.                                              *)
(***************************************************************************)
SessionRow == [live : BOOLEAN, after : Nat]
TokenRow == [valid : BOOLEAN, used : Nat, seen : Nat]

(* What a request in progress relies on: an issue knows every token that   *)
(* was there when it looked and is still outstanding; a reset that has     *)
(* claimed its token is the first to use it, and has seen the sessions it  *)
(* must end.                                                               *)
Pending(r) ==
    /\ request[r].op = "switch" => request[r].session \in DOMAIN sessions
    /\ request[r].op = "issue" =>
           /\ request[r].seen \in 0 .. Len(tokens)
           /\ request[r].outstanding \subseteq DOMAIN tokens
           /\ \A t \in Outstanding : t <= request[r].seen => t \in request[r].outstanding
    /\ request[r].op = "reset" => request[r].token \in DOMAIN tokens
    /\ Claimed(r) =>
           /\ tokens[request[r].token].used = 0
           /\ \A s \in DOMAIN sessions :
                  sessions[s].live /\ s \notin request[r].seen => sessions[s].after > resets

OneClaim == \A q, r \in Requests : Claimed(q) /\ Claimed(r) => q = r

UsedOnce == \A t \in DOMAIN tokens : tokens[t].used <= 1 /\ (Valid(t) => tokens[t].used = 0)

Kinds == Operations \cup {"idle", "switch", "issue", "reset"}

RowsInv ==
    /\ resets \in Nat /\ DOMAIN request = Requests
    /\ sessions \in Seq(SessionRow) /\ tokens \in Seq(TokenRow)
    /\ \A r \in Requests : request[r].op \in Kinds
    /\ \A r \in Requests : Pending(r)
    /\ OneClaim
    /\ UsedOnce
    /\ OneKeyUnlessOverlapping
    /\ ResetSignsOut

LEMMA MappedSeq ==
  ASSUME NEW S, NEW s \in Seq(S), NEW m, DOMAIN m = DOMAIN s, m \in [DOMAIN s -> S]
  PROVE  m \in Seq(S) /\ Len(m) = Len(s)
<1>1. DOMAIN s = 1 .. Len(s) /\ Len(s) \in Nat
  BY SeqElements
<1> QED
  BY <1>1, LenProperties, SeqDef

(* A request that is not concerned keeps what it relies on. *)
LEMMA PendingKept ==
  ASSUME RowsInv, NEW q \in Requests, request'[q] = request[q], tokens' \in Seq(TokenRow),
         DOMAIN sessions \subseteq DOMAIN sessions', Len(tokens) <= Len(tokens'),
         \A t \in Outstanding' : t <= Len(tokens) => t \in Outstanding,
         Claimed(q) =>
             /\ resets' = resets
             /\ tokens'[request[q].token].used = tokens[request[q].token].used
             /\ \A s \in DOMAIN sessions' : sessions'[s].live =>
                    \/ s \in DOMAIN sessions /\ sessions'[s] = sessions[s]
                    \/ sessions'[s].after > resets
  PROVE  Pending(q)'
<1>1. Pending(q)
  BY DEF RowsInv
<1>2. /\ DOMAIN tokens = 1 .. Len(tokens) /\ Len(tokens) \in Nat
      /\ DOMAIN tokens' = 1 .. Len(tokens') /\ Len(tokens') \in Nat
  BY SeqElements DEF RowsInv
<1>3. DOMAIN tokens \subseteq DOMAIN tokens' /\ 0 .. Len(tokens) \subseteq 0 .. Len(tokens')
  BY <1>2
<1>4. request[q].op = "issue" =>
          \A t \in Outstanding' : t <= request[q].seen => t \in request[q].outstanding
  <2> SUFFICES ASSUME request[q].op = "issue", NEW t \in Outstanding', t <= request[q].seen
               PROVE  t \in request[q].outstanding
    OBVIOUS
  <2>1. request[q].seen \in 0 .. Len(tokens) /\ t \in 1 .. Len(tokens')
    BY <1>1, <1>2 DEF Pending, Outstanding
  <2>2. t \in Outstanding
    BY <1>2, <2>1
  <2> QED
    BY <1>1, <2>2 DEF Pending
<1>5. Claimed(q) =>
          /\ tokens'[request[q].token].used = 0
          /\ \A s \in DOMAIN sessions' :
                 sessions'[s].live /\ s \notin request[q].seen => sessions'[s].after > resets'
  BY <1>1 DEF Pending
<1> QED
  BY <1>1, <1>3, <1>4, <1>5 DEF Pending, Claimed

(* A request begins or ends and no row changes. *)
LEMMA RequestMoves ==
  ASSUME RowsInv, NEW r \in Requests, UNCHANGED <<sessions, tokens, resets>>,
         NEW what, request' = [request EXCEPT ![r] = what], what.op \in Kinds,
         what.op = "switch" => what.session \in DOMAIN sessions,
         what.op = "issue" => what.seen = Len(tokens) /\ what.outstanding = Outstanding,
         what.op = "reset" => what.token \in DOMAIN tokens /\ ~what.claimed
  PROVE  RowsInv'
<1>1. request'[r] = what /\ \A q \in Requests : q # r => request'[q] = request[q]
  BY DEF RowsInv
<1>2. ASSUME NEW q \in Requests, q # r
      PROVE  Pending(q)'
  BY <1>1, <1>2, PendingKept DEF RowsInv, Outstanding, Valid
<1>3. Pending(r)'
  <2>1. ~Claimed(r)'
    BY <1>1 DEF Claimed
  <2>2. Len(tokens) \in Nat /\ Outstanding \subseteq DOMAIN tokens /\ Outstanding' = Outstanding
    BY DEF RowsInv, Outstanding, Valid
  <2> QED
    BY <1>1, <2>1, <2>2 DEF Pending
<1>4. OneClaim'
  BY <1>1 DEF RowsInv, OneClaim, Claimed
<1>5. UsedOnce' /\ OneKeyUnlessOverlapping' /\ ResetSignsOut'
  BY DEF RowsInv, UsedOnce, OneKeyUnlessOverlapping, ResetSignsOut, Outstanding, Valid
<1> QED
  BY <1>1, <1>2, <1>3, <1>4, <1>5 DEF RowsInv

(* Sessions change: each that is live was there, or is newer than every    *)
(* reset that has looked.                                                  *)
LEMMA SessionsMove ==
  ASSUME RowsInv, UNCHANGED <<tokens, resets>>, sessions' \in Seq(SessionRow),
         DOMAIN sessions \subseteq DOMAIN sessions',
         DOMAIN request' = Requests,
         \A q \in Requests : request'[q] = request[q] \/ request'[q] = Idle,
         \A s \in DOMAIN sessions' : sessions'[s].live =>
             \/ s \in DOMAIN sessions /\ sessions'[s] = sessions[s]
             \/ sessions'[s].after >= resets /\ (Locked => sessions'[s].after > resets)
  PROVE  RowsInv'
<1>1. ASSUME NEW q \in Requests
      PROVE  Pending(q)' /\ request'[q].op \in Kinds
  <2>1. CASE request'[q] = request[q]
    <3>1. Pending(q)'
      BY <2>1, PendingKept DEF RowsInv, Outstanding, Valid, Locked
    <3> QED
      BY <2>1, <3>1 DEF RowsInv
  <2>2. CASE request'[q] = Idle
    BY <2>2 DEF Pending, Claimed, Idle, Kinds
  <2> QED
    BY <2>1, <2>2
<1>2. OneClaim'
  BY DEF RowsInv, OneClaim, Claimed, Idle
<1>3. ResetSignsOut'
  BY DEF RowsInv, ResetSignsOut
<1>4. UsedOnce' /\ OneKeyUnlessOverlapping'
  BY DEF RowsInv, UsedOnce, OneKeyUnlessOverlapping, Outstanding, Valid
<1> QED
  BY <1>1, <1>2, <1>3, <1>4 DEF RowsInv

LEMMA OthersOutstanding ==
  ASSUME RowsInv, NEW t \in DOMAIN tokens
  PROVE  /\ tokens[t] \in TokenRow /\ Spent(tokens[t]) \in TokenRow
         /\ Spent(tokens[t]).used = tokens[t].used /\ ~Spent(tokens[t]).valid
<1>1. tokens[t] \in TokenRow
  BY SeqElements DEF RowsInv
<1> QED
  BY <1>1 DEF Spent, TokenRow

(* At most one reset has looked for sessions and not committed. *)
LEMMA ClaimedCount ==
  ASSUME RowsInv, NEW looked, looked = {q \in Requests : Claimed(q)}
  PROVE  Cardinality(looked) \in Nat /\ (Locked => Cardinality(looked) = 1)
<1>1. CASE Locked
  <2>1. PICK q \in Requests : Claimed(q)
    BY <1>1 DEF Locked
  <2>2. looked = {q}
    BY <2>1 DEF RowsInv, OneClaim
  <2>3. Cardinality({q}) = 1
    BY FS_Singleton
  <2> QED
    BY <2>2, <2>3
<1>2. CASE ~Locked
  <2>1. looked = {}
    BY <1>2 DEF Locked
  <2>2. Cardinality({}) = 0
    BY FS_EmptySet
  <2> QED
    BY <1>2, <2>1, <2>2
<1> QED
  BY <1>1, <1>2

LEMMA SessionSteps ==
  ASSUME RowsInv, NEW r \in Requests, WriteUser(r) \/ WriteSwitch(r)
  PROVE  RowsInv'
<1>1. /\ sessions \in Seq(SessionRow) /\ Len(sessions) \in Nat /\ resets \in Nat
      /\ DOMAIN sessions = 1 .. Len(sessions)
  BY SeqElements DEF RowsInv
<1>2. UNCHANGED <<tokens, resets>> /\ request' = [request EXCEPT ![r] = Idle]
  BY DEF WriteUser, WriteSwitch, Finish
<1>3. /\ DOMAIN request' = Requests
      /\ \A q \in Requests : request'[q] = request[q] \/ request'[q] = Idle
  BY <1>2 DEF RowsInv
<1>4. Dead \in SessionRow /\ ~Dead.live
  BY DEF Dead, SessionRow
<1>5. CASE WriteUser(r)
  <2>1. NewSession({}) = [live |-> TRUE, after |-> resets] /\ NewSession({}) \in SessionRow
    <3>1. Cardinality({}) = 0
      BY FS_EmptySet
    <3>2. resets + Cardinality({}) = resets
      BY <1>1, <3>1
    <3>3. NewSession({}) = [live |-> TRUE, after |-> resets]
      BY <3>2 DEF NewSession
    <3>4. [live |-> TRUE, after |-> resets] \in SessionRow
      BY <1>1 DEF SessionRow
    <3> QED
      BY <3>3, <3>4
  <2>2. ~Locked
    BY <1>5 DEF WriteUser
  <2>3. CASE sessions' = sessions
    BY <1>1, <1>2, <1>3, <2>3, SessionsMove
  <2>4. CASE sessions' = Append(sessions, NewSession({}))
    <3>1. sessions' \in Seq(SessionRow) /\ DOMAIN sessions' = 1 .. Len(sessions) + 1
      BY <1>1, <2>1, <2>4
    <3>2. \A s \in DOMAIN sessions' :
              \/ s \in DOMAIN sessions /\ sessions'[s] = sessions[s]
              \/ sessions'[s] = NewSession({})
      BY <1>1, <2>4, <3>1
    <3>3. DOMAIN sessions \subseteq DOMAIN sessions'
      BY <1>1, <3>1
    <3> QED
      BY <1>1, <1>2, <1>3, <2>1, <2>2, <3>1, <3>2, <3>3, SessionsMove
  <2> QED
    BY <1>5, <2>3, <2>4 DEF WriteUser
<1>6. CASE WriteSwitch(r)
  <2> DEFINE looked == {q \in Requests : Claimed(q)}
             i == request[r].session
             ended == [sessions EXCEPT ![i] = Dead]
  <2>1. i \in DOMAIN sessions /\ sessions' = Append(ended, NewSession(looked))
    BY <1>6 DEF WriteSwitch, RowsInv, Pending
  <2>2. Cardinality(looked) \in Nat /\ (Locked => Cardinality(looked) = 1)
    BY ClaimedCount
  <2>3. /\ NewSession(looked) \in SessionRow /\ NewSession(looked).after >= resets
        /\ Locked => NewSession(looked).after > resets
    BY <1>1, <2>2 DEF NewSession, SessionRow
  <2> HIDE DEF looked
  <2>4. /\ ended \in Seq(SessionRow) /\ Len(ended) = Len(sessions)
        /\ \A s \in DOMAIN sessions : ended[s] = sessions[s] \/ ended[s] = Dead
    BY <1>1, <1>4, <2>1
  <2> HIDE DEF ended
  <2>5. sessions' \in Seq(SessionRow) /\ DOMAIN sessions' = 1 .. Len(sessions) + 1
    BY <1>1, <2>1, <2>3, <2>4
  <2>6. \A s \in DOMAIN sessions' :
            \/ s \in DOMAIN sessions /\ (sessions'[s] = sessions[s] \/ sessions'[s] = Dead)
            \/ sessions'[s] = NewSession(looked)
    BY <1>1, <2>1, <2>3, <2>4, <2>5
  <2>7. DOMAIN sessions \subseteq DOMAIN sessions'
    BY <1>1, <2>5
  <2> QED
    BY <1>2, <1>3, <1>4, <2>3, <2>5, <2>6, <2>7, SessionsMove
<1> QED
  BY <1>5, <1>6

LEMMA TokensLapse ==
  ASSUME RowsInv, NEW t \in DOMAIN tokens, Lapse(t)
  PROVE  RowsInv'
<1>1. /\ tokens' = [tokens EXCEPT ![t] = Spent(tokens[t])]
      /\ UNCHANGED <<sessions, request, resets>>
  BY DEF Lapse
<1>2. tokens' \in Seq(TokenRow) /\ Len(tokens') = Len(tokens) /\ DOMAIN tokens' = DOMAIN tokens
  BY <1>1, OthersOutstanding DEF RowsInv
<1>3. \A u \in DOMAIN tokens : tokens'[u] = tokens[u] \/ (tokens'[u].used = tokens[u].used /\ ~tokens'[u].valid)
  BY <1>1, OthersOutstanding
<1>4. \A u \in Outstanding' : u \in Outstanding /\ tokens'[u] = tokens[u]
  BY <1>2, <1>3 DEF Outstanding, Valid
<1>5. Len(tokens) <= Len(tokens')
  BY <1>2 DEF RowsInv
<1>6. \A q \in Requests : Claimed(q) => request[q].token \in DOMAIN tokens
  BY DEF RowsInv, Pending, Claimed
<1>7. \A q \in Requests : Pending(q)'
  BY <1>1, <1>2, <1>3, <1>4, <1>5, <1>6, PendingKept
<1>8. OneClaim' /\ ResetSignsOut'
  BY <1>1 DEF RowsInv, OneClaim, Claimed, ResetSignsOut
<1>9. UsedOnce' /\ OneKeyUnlessOverlapping'
  BY <1>2, <1>3, <1>4 DEF RowsInv, UsedOnce, OneKeyUnlessOverlapping, Valid, Outstanding
<1> QED
  BY <1>1, <1>2, <1>7, <1>8, <1>9 DEF RowsInv

LEMMA TokensIssued ==
  ASSUME RowsInv, NEW r \in Requests, WriteIssue(r)
  PROVE  RowsInv'
<1> DEFINE kept == [t \in DOMAIN tokens |->
                        IF t \in Superseded(r) THEN Spent(tokens[t]) ELSE tokens[t]]
           new == [valid |-> TRUE, used |-> 0, seen |-> request[r].seen]
           n == Len(tokens) + 1
<1>1. /\ tokens' = Append(kept, new) /\ request' = [request EXCEPT ![r] = Idle]
      /\ UNCHANGED <<sessions, resets>> /\ request[r].op = "issue"
  BY DEF WriteIssue, Finish
<1>2. /\ Len(tokens) \in Nat /\ DOMAIN tokens = 1 .. Len(tokens) /\ tokens \in Seq(TokenRow)
      /\ request[r].seen \in 0 .. Len(tokens)
  BY <1>1, SeqElements DEF RowsInv, Pending
<1>3. new \in TokenRow
  BY <1>2 DEF TokenRow
<1>4. kept \in [DOMAIN tokens -> TokenRow]
  BY OthersOutstanding
<1>5. kept \in Seq(TokenRow) /\ Len(kept) = Len(tokens)
  BY <1>2, <1>4, MappedSeq
<1>6. ASSUME NEW t \in DOMAIN tokens
      PROVE  /\ kept[t].used = tokens[t].used
             /\ kept[t].valid => kept[t] = tokens[t] /\ t \notin request[r].outstanding
  BY OthersOutstanding DEF Superseded
<1> HIDE DEF kept
<1>7. /\ tokens' \in Seq(TokenRow) /\ Len(tokens') = n /\ DOMAIN tokens' = 1 .. n
      /\ tokens'[n] = new
      /\ \A t \in DOMAIN tokens : tokens'[t] = kept[t]
  BY <1>1, <1>2, <1>3, <1>5
<1>8. ASSUME NEW t \in Outstanding', t # n
      PROVE  t \in Outstanding /\ tokens'[t] = tokens[t] /\ t \notin request[r].outstanding
  <2>1. t \in DOMAIN tokens
    BY <1>2, <1>7, <1>8 DEF Outstanding
  <2> QED
    BY <1>6, <1>7, <2>1, <1>8 DEF Outstanding, Valid
<1>9. ASSUME NEW q \in Requests
      PROVE  Pending(q)' /\ request'[q].op \in Kinds
  <2>1. CASE q = r
    BY <1>1, <2>1 DEF RowsInv, Pending, Claimed, Idle, Kinds
  <2>2. CASE q # r
    <3>1. request'[q] = request[q]
      BY <1>1, <2>2 DEF RowsInv
    <3>2. Claimed(q) => request[q].token \in DOMAIN tokens
      BY DEF RowsInv, Pending, Claimed
    <3>3. \A t \in Outstanding' : t <= Len(tokens) => t \in Outstanding
      BY <1>2, <1>8
    <3>4. DOMAIN sessions \subseteq DOMAIN sessions' /\ Len(tokens) <= Len(tokens')
      BY <1>1, <1>2, <1>7
    <3>5. Claimed(q) => tokens'[request[q].token].used = tokens[request[q].token].used
      BY <1>6, <1>7, <3>2
    <3> QED
      BY <1>1, <1>7, <3>1, <3>3, <3>4, <3>5, PendingKept DEF RowsInv
  <2> QED
    BY <2>1, <2>2
<1>10. OneClaim' /\ ResetSignsOut'
  BY <1>1 DEF RowsInv, OneClaim, Claimed, ResetSignsOut, Idle
<1>11. UsedOnce'
  <2>1. ASSUME NEW t \in DOMAIN tokens'
        PROVE  tokens'[t].used <= 1 /\ (tokens'[t].valid => tokens'[t].used = 0)
    <3>1. CASE t = n
      BY <1>7, <3>1
    <3>2. CASE t \in DOMAIN tokens
      BY <1>6, <1>7, <3>2 DEF RowsInv, UsedOnce, Valid
    <3> QED
      BY <1>2, <1>7, <2>1, <3>1, <3>2
  <2> QED
    BY <2>1 DEF UsedOnce, Valid
<1>12. OneKeyUnlessOverlapping'
  <2> SUFFICES ASSUME NEW t \in Outstanding', NEW u \in Outstanding', t < u
               PROVE  tokens'[u].seen < t
    BY DEF OneKeyUnlessOverlapping
  <2>1. t \in 1 .. n /\ u \in 1 .. n
    BY <1>7 DEF Outstanding
  <2>2. t # n
    BY <1>2, <2>1
  <2>3. t \in Outstanding /\ t \notin request[r].outstanding
    BY <1>8, <2>2
  <2>4. CASE u = n
    <3>1. ~ (t <= request[r].seen)
      BY <1>1, <2>3 DEF RowsInv, Pending
    <3> QED
      BY <1>2, <1>7, <2>1, <2>4, <3>1
  <2>5. CASE u # n
    BY <1>8, <2>3, <2>5 DEF RowsInv, OneKeyUnlessOverlapping
  <2> QED
    BY <2>4, <2>5
<1>13. DOMAIN request' = Requests
  BY <1>1 DEF RowsInv
<1> QED
  BY <1>1, <1>7, <1>9, <1>10, <1>11, <1>12, <1>13 DEF RowsInv

LEMMA ResetClaims ==
  ASSUME RowsInv, NEW r \in Requests, ClaimReset(r)
  PROVE  RowsInv'
<1> DEFINE what == [op |-> "reset", token |-> request[r].token, claimed |-> TRUE,
                    seen |-> {s \in DOMAIN sessions : sessions[s].live}]
<1>1. /\ request' = [request EXCEPT ![r] = what] /\ UNCHANGED <<sessions, tokens, resets>>
      /\ ~Locked /\ Valid(request[r].token) /\ request[r].op = "reset"
  BY DEF ClaimReset, Claimable
<1>2. request'[r] = what /\ \A q \in Requests : q # r => request'[q] = request[q] /\ ~Claimed(q)
  BY <1>1 DEF RowsInv, Locked
<1>3. ASSUME NEW q \in Requests, q # r
      PROVE  Pending(q)'
  BY <1>1, <1>2, <1>3, PendingKept DEF RowsInv, Outstanding, Valid
<1>4. Pending(r)'
  <2>1. request[r].token \in DOMAIN tokens /\ tokens[request[r].token].used = 0
    BY <1>1 DEF RowsInv, Pending, UsedOnce
  <2> QED
    BY <1>1, <1>2, <2>1 DEF Pending
<1>5. OneClaim'
  BY <1>2 DEF OneClaim, Claimed
<1>6. UsedOnce' /\ OneKeyUnlessOverlapping' /\ ResetSignsOut'
  BY <1>1 DEF RowsInv, UsedOnce, OneKeyUnlessOverlapping, ResetSignsOut, Outstanding, Valid
<1>7. DOMAIN request' = Requests /\ \A q \in Requests : request'[q].op \in Kinds
  BY <1>1, <1>2 DEF RowsInv, Kinds
<1> QED
  BY <1>1, <1>3, <1>4, <1>5, <1>6, <1>7 DEF RowsInv

LEMMA ResetCommits ==
  ASSUME RowsInv, NEW r \in Requests, WriteReset(r)
  PROVE  RowsInv'
<1> DEFINE i == request[r].token
           used == [valid |-> FALSE, used |-> tokens[i].used + 1, seen |-> 0]
<1>1. /\ request[r].op = "reset" /\ Claimed(r) /\ request' = [request EXCEPT ![r] = Idle]
      /\ sessions' = [s \in DOMAIN sessions |-> IF s \in request[r].seen THEN Dead ELSE sessions[s]]
      /\ tokens' = [tokens EXCEPT ![i] = used] /\ resets' = resets + 1
  BY DEF WriteReset, Finish, Claimed
<1>2. Pending(r) /\ i \in DOMAIN tokens /\ tokens[i] \in TokenRow /\ tokens[i].used = 0
  BY <1>1, OthersOutstanding DEF RowsInv, Pending
<1>3. used \in TokenRow /\ used.used = 1 /\ ~used.valid
  BY <1>2 DEF TokenRow
<1>4. /\ tokens' \in Seq(TokenRow) /\ Len(tokens') = Len(tokens) /\ DOMAIN tokens' = DOMAIN tokens
      /\ Len(tokens) \in Nat /\ tokens'[i] = used
      /\ \A t \in DOMAIN tokens : t # i => tokens'[t] = tokens[t]
  BY <1>1, <1>2, <1>3 DEF RowsInv
<1> HIDE DEF used
<1>5. sessions' \in Seq(SessionRow) /\ DOMAIN sessions' = DOMAIN sessions
  <2>1. Dead \in SessionRow /\ \A s \in DOMAIN sessions : sessions[s] \in SessionRow
    BY SeqElements DEF Dead, SessionRow, RowsInv
  <2>2. DOMAIN sessions' = DOMAIN sessions /\ sessions' \in [DOMAIN sessions -> SessionRow]
    BY <1>1, <2>1
  <2> QED
    BY <2>2, MappedSeq DEF RowsInv
<1>6. \A t \in Outstanding' : t \in Outstanding /\ tokens'[t] = tokens[t]
  BY <1>3, <1>4 DEF Outstanding, Valid
<1>7. ASSUME NEW q \in Requests
      PROVE  Pending(q)' /\ ~Claimed(q)' /\ request'[q].op \in Kinds
  <2>1. CASE q = r
    BY <1>1, <2>1 DEF RowsInv, Pending, Claimed, Idle, Kinds
  <2>2. CASE q # r
    <3>1. request'[q] = request[q] /\ ~Claimed(q)
      BY <1>1, <2>2 DEF RowsInv, OneClaim
    <3>2. DOMAIN sessions \subseteq DOMAIN sessions' /\ Len(tokens) <= Len(tokens')
      BY <1>4, <1>5
    <3>3. Pending(q)'
      BY <1>4, <1>6, <3>1, <3>2, PendingKept
    <3> QED
      BY <3>1, <3>3 DEF Claimed, RowsInv
  <2> QED
    BY <2>1, <2>2
<1>8. OneClaim'
  BY <1>7 DEF OneClaim
<1>9. UsedOnce' /\ OneKeyUnlessOverlapping'
  BY <1>3, <1>4, <1>6 DEF RowsInv, UsedOnce, OneKeyUnlessOverlapping, Valid
<1>10. ResetSignsOut'
  <2>1. ASSUME NEW s \in DOMAIN sessions, sessions'[s].live
        PROVE  sessions'[s].after >= resets + 1
    <3>1. sessions'[s] = sessions[s] /\ s \notin request[r].seen
      BY <1>1, <2>1 DEF Dead
    <3>2. sessions[s].after > resets
      BY <1>1, <1>2, <2>1, <3>1 DEF Pending
    <3>3. sessions[s] \in SessionRow /\ resets \in Nat
      BY SeqElements DEF RowsInv
    <3>4. sessions[s].after \in Nat
      BY <3>3 DEF SessionRow
    <3> QED
      BY <3>1, <3>2, <3>3, <3>4
  <2> QED
    BY <1>1, <1>5, <2>1 DEF ResetSignsOut
<1>11. resets' \in Nat /\ DOMAIN request' = Requests
  BY <1>1 DEF RowsInv
<1> QED
  BY <1>4, <1>5, <1>7, <1>8, <1>9, <1>10, <1>11 DEF RowsInv

LEMMA RowsStay == RowsInv /\ [Next]_vars => RowsInv'
<1> SUFFICES ASSUME RowsInv, [Next]_vars
             PROVE  RowsInv'
  OBVIOUS
<1>1. ASSUME NEW s \in DOMAIN sessions, EndSession(s)
      PROVE  RowsInv'
  <2>1. /\ sessions' = [sessions EXCEPT ![s] = Dead] /\ UNCHANGED <<tokens, request, resets>>
    BY <1>1 DEF EndSession
  <2>2. Dead \in SessionRow /\ ~Dead.live
    BY DEF Dead, SessionRow
  <2>3. /\ sessions' \in Seq(SessionRow) /\ DOMAIN sessions' = DOMAIN sessions
        /\ \A u \in DOMAIN sessions : sessions'[u] = sessions[u] \/ sessions'[u] = Dead
    BY <2>1, <2>2 DEF RowsInv
  <2> QED
    BY <2>1, <2>2, <2>3, SessionsMove DEF RowsInv
<1>2. ASSUME NEW t \in DOMAIN tokens, Lapse(t)
      PROVE  RowsInv'
  BY <1>2, TokensLapse
<1>3. ASSUME NEW r \in Requests, NEW op \in Operations, ReadUser(r, op)
      PROVE  RowsInv'
  <2>1. PICK f : request' = [request EXCEPT ![r] = [op |-> op, read |-> user, factor |-> f]]
    BY <1>3 DEF ReadUser, Begin
  <2> QED
    BY <1>3, <2>1, RequestMoves DEF ReadUser, Kinds, Operations
<1>4. ASSUME NEW r \in Requests, NEW s \in DOMAIN sessions, ReadSwitch(r, s)
      PROVE  RowsInv'
  BY <1>4, RequestMoves DEF ReadSwitch, Begin, Kinds
<1>5. ASSUME NEW r \in Requests, ReadIssue(r)
      PROVE  RowsInv'
  BY <1>5, RequestMoves DEF ReadIssue, Begin, Kinds
<1>6. ASSUME NEW r \in Requests, NEW t \in DOMAIN tokens, ReadReset(r, t)
      PROVE  RowsInv'
  BY <1>6, RequestMoves DEF ReadReset, Begin, Kinds
<1>7. ASSUME NEW r \in Requests, Fail(r)
      PROVE  RowsInv'
  BY <1>7, RequestMoves DEF Fail, Finish, Idle, Kinds
<1>8. CASE UNCHANGED vars
  <2>1. /\ sessions' \in Seq(SessionRow) /\ DOMAIN request' = Requests
        /\ UNCHANGED <<sessions, tokens, request, resets>>
    BY <1>8 DEF vars, RowsInv
  <2> QED
    BY <2>1, SessionsMove
<1> QED
  BY <1>1, <1>2, <1>3, <1>4, <1>5, <1>6, <1>7, <1>8, SessionSteps, TokensIssued, ResetClaims,
     ResetCommits DEF Next, UserStep, SessionStep, TokenStep

LEMMA RowsInit == Init => RowsInv
BY DEF Init, RowsInv, Pending, OneClaim, UsedOnce, OneKeyUnlessOverlapping, ResetSignsOut,
       Outstanding, Valid, Claimed, Idle, Kinds

(* Every row keeps to the values of its columns.                           *)
THEOREM AccountsTypeCorrect == Spec => []TypeOK
<1>1. UserInv /\ RowsInv => TypeOK
  BY SeqElements DEF UserInv, RowsInv, Proper, TypeOK, SessionRow, TokenRow, Kinds
<1> QED
  BY UserInit, UserStays, RowsInit, RowsStay, <1>1, PTL DEF Spec

(* The conditional UPDATE of consume lets one request use a reset token,   *)
(* whatever requests present it.                                           *)
THEOREM TokensResetOnce == Spec => []ResetOnce
<1>1. RowsInv => ResetOnce
  BY DEF RowsInv, UsedOnce, ResetOnce
<1> QED
  BY RowsInit, RowsStay, <1>1, PTL DEF Spec

(* issue leaves one outstanding token but for issues that overlap it.      *)
THEOREM KeysOverlapOnly == Spec => []OneKeyUnlessOverlapping
<1>1. RowsInv => OneKeyUnlessOverlapping
  BY DEF RowsInv
<1> QED
  BY RowsInit, RowsStay, <1>1, PTL DEF Spec

(* consume ends every session there is when it commits, save those that a  *)
(* switch of workspace opened after it looked.                             *)
THEOREM ResetsSignOut == Spec => []ResetSignsOut
<1>1. RowsInv => ResetSignsOut
  BY DEF RowsInv
<1> QED
  BY RowsInit, RowsStay, <1>1, PTL DEF Spec
=============================================================================
