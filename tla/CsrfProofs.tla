------------------------------ MODULE CsrfProofs ------------------------------
(***************************************************************************)
(* The token arithmetic of the CSRF layer is right for every alphabet, every *)
(* length of the secret and every width of usize that holds the alphabet,   *)
(* and a browser's own token is therefore never declined.                  *)
(***************************************************************************)
EXTENDS Csrf, TLAPS

-----------------------------------------------------------------------------
(* The subtraction *)

\* The constants as numbers.
LEMMA Constants ==
  /\ AlphanumericRange \in Nat /\ AlphanumericRange > 0
  /\ SecretLength \in Nat /\ SecretLength > 0
  /\ Word \in Nat /\ AlphanumericRange <= Word
  /\ NoToken \notin Seq(Characters) /\ NoOrigin \in Origins
BY CsrfAssumption

\* Reduction of a number that is less than one modulus away from its range.
LEMMA ModSmall ==
  ASSUME NEW n \in Nat, NEW a \in 0 .. n - 1
  PROVE  a % n = a
OBVIOUS

\* A sum of two characters wraps at most once.
LEMMA ModSum ==
  ASSUME NEW n \in Nat, NEW a \in 0 .. n - 1, NEW b \in 0 .. n - 1, a + b >= n
  PROVE  (a + b) % n = a + b - n
OBVIOUS

\* A negative number that is less than one modulus below zero.
LEMMA ModBelow ==
  ASSUME NEW n \in Nat, NEW a \in -n .. -1, n > 0
  PROVE  a % n = a + n
OBVIOUS

\* overflowing_sub_chars subtracts modulo the alphabet, not modulo usize.
LEMMA SubChars ==
  ASSUME NEW x \in Characters, NEW y \in Characters
  PROVE  OverflowingSubChars(x, y) = IF x < y THEN x - y + AlphanumericRange ELSE x - y
<1> DEFINE sub == OverflowingSub(x, y)
<1>1. sub.value = (x - y) % Word /\ sub.overflowed = (x < y)  BY DEF OverflowingSub
<1>2. CASE x < y
  <2>1. x - y \in -Word .. -1  BY <1>2, Constants DEF Characters
  <2>2. (x - y) % Word = x - y + Word  BY <2>1, ModBelow, Constants
  <2>3. OverflowingSubChars(x, y) = AlphanumericRange - 1 - ((Word - 1) - sub.value)
    BY <1>1, <1>2 DEF OverflowingSubChars
  <2>4. QED  BY <1>1, <1>2, <2>2, <2>3, Constants DEF Characters
<1>3. CASE ~(x < y)
  <2>1. x - y \in 0 .. Word - 1  BY <1>3, Constants DEF Characters
  <2>2. (x - y) % Word = x - y  BY <2>1, ModSmall, Constants
  <2>3. OverflowingSubChars(x, y) = sub.value  BY <1>1, <1>3 DEF OverflowingSubChars
  <2>4. QED  BY <1>1, <1>3, <2>2, <2>3
<1>4. QED  BY <1>2, <1>3

\* Subtracting a character takes back its addition.
LEMMA AddThenSub ==
  ASSUME NEW s \in Characters, NEW m \in Characters
  PROVE  /\ (s + m) % AlphanumericRange \in Characters
         /\ OverflowingSubChars((s + m) % AlphanumericRange, m) = s
<1> DEFINE x == (s + m) % AlphanumericRange
<1>1. s \in 0 .. AlphanumericRange - 1 /\ m \in 0 .. AlphanumericRange - 1 /\ s + m \in Nat
  BY Constants DEF Characters
<1>2. CASE s + m < AlphanumericRange
  <2>1. s + m \in 0 .. AlphanumericRange - 1  BY <1>1, <1>2, Constants
  <2>2. x = s + m  BY <2>1, ModSmall, Constants
  <2> HIDE DEF x
  <2>3. x \in Characters /\ ~(x < m) /\ x - m = s  BY <1>1, <2>1, <2>2 DEF Characters
  <2>4. OverflowingSubChars(x, m) = s  BY <2>3, SubChars
  <2>5. QED  BY <2>3, <2>4 DEF x
<1>3. CASE s + m >= AlphanumericRange
  <2>1. s + m \in AlphanumericRange .. 2 * AlphanumericRange - 1  BY <1>1, <1>3, Constants
  <2>2. x = s + m - AlphanumericRange  BY <1>1, <1>3, ModSum, Constants
  <2> HIDE DEF x
  <2>3. x \in Characters /\ x < m /\ x - m + AlphanumericRange = s
    BY <1>1, <2>1, <2>2, Constants DEF Characters
  <2>4. OverflowingSubChars(x, m) = s  BY <2>3, SubChars
  <2>5. QED  BY <2>3, <2>4 DEF x
<1>4. QED  BY <1>1, <1>2, <1>3, Constants

-----------------------------------------------------------------------------
(* Tokens *)

\* A secret is a sequence of characters of its length.
LEMMA SecretsAreSequences ==
  ASSUME NEW s \in Secrets
  PROVE  /\ s \in Seq(Characters) /\ Len(s) = SecretLength /\ DOMAIN s = 1 .. SecretLength
         /\ \A i \in 1 .. SecretLength : s[i] \in Characters
BY Constants DEF Secrets

\* A concatenation and its parts.
LEMMA Concatenation ==
  ASSUME NEW S, NEW s \in Seq(S), NEW t \in Seq(S)
  PROVE  /\ s \o t \in Seq(S)
         /\ Len(s \o t) = Len(s) + Len(t)
         /\ SubSeq(s \o t, 1, Len(s)) = s
         /\ SubSeq(s \o t, Len(s) + 1, Len(s \o t)) = t
OBVIOUS

\* Masking a secret doubles its length and stays in the alphabet.
LEMMA MaskType ==
  ASSUME NEW m \in Secrets, NEW s \in Secrets
  PROVE  /\ MaskOp(m, s, TRUE) \in Secrets
         /\ Mask(m, s) \in Seq(Characters)
         /\ Len(Mask(m, s)) = TokenLength
<1>1. DOMAIN m = 1 .. SecretLength /\ DOMAIN s = 1 .. SecretLength  BY SecretsAreSequences
<1>2. MaskOp(m, s, TRUE) = [i \in 1 .. SecretLength |-> (s[i] + m[i]) % AlphanumericRange]
  BY <1>1 DEF MaskOp
<1>3. \A i \in 1 .. SecretLength : (s[i] + m[i]) % AlphanumericRange \in Characters
  BY AddThenSub, SecretsAreSequences
<1>4. MaskOp(m, s, TRUE) \in Secrets  BY <1>2, <1>3 DEF Secrets
<1>5. /\ MaskOp(m, s, TRUE) \in Seq(Characters) /\ Len(MaskOp(m, s, TRUE)) = SecretLength
      /\ m \in Seq(Characters) /\ Len(m) = SecretLength
  BY <1>4, SecretsAreSequences
<1> DEFINE op == MaskOp(m, s, TRUE)
<1> HIDE DEF op
<1>6. m \o op \in Seq(Characters) /\ Len(m \o op) = SecretLength + SecretLength
  <2>1. op \in Seq(Characters) /\ Len(op) = SecretLength  BY <1>5 DEF op
  <2>2. m \o op \in Seq(Characters) /\ Len(m \o op) = Len(m) + Len(op)
    BY <1>5, <2>1, Concatenation
  <2>3. QED  BY <1>5, <2>1, <2>2
<1>7. Mask(m, s) = m \o op  BY DEF Mask, op
<1>8. TokenLength = SecretLength + SecretLength  BY Constants DEF TokenLength
<1>9. QED  BY <1>4, <1>6, <1>7, <1>8

\* unmask_csrf takes back mask_csrf (test_mask, csrf.rs:276-280), whatever the mask,
\* the secret, their length, the alphabet and the width of usize.
THEOREM UnmaskMask ==
  ASSUME NEW m \in Secrets, NEW s \in Secrets
  PROVE  Unmask(Mask(m, s)) = s
<1> DEFINE op == MaskOp(m, s, TRUE)
           token == Mask(m, s)
<1>1. /\ op \in Seq(Characters) /\ Len(op) = SecretLength /\ DOMAIN op = 1 .. SecretLength
      /\ m \in Seq(Characters) /\ Len(m) = SecretLength /\ DOMAIN m = 1 .. SecretLength
  <2>1. op \in Secrets  BY MaskType
  <2>2. QED  BY <2>1, SecretsAreSequences
<1>2. token = m \o op  BY DEF Mask
<1>3. SubSeq(token, 1, SecretLength) = m /\ SubSeq(token, SecretLength + 1, Len(token)) = op
  <2> HIDE DEF op, token
  <2>1. op \in Seq(Characters) /\ m \in Seq(Characters)  BY <1>1
  <2>2. SubSeq(m \o op, 1, Len(m)) = m  BY <2>1, Concatenation
  <2>3. SubSeq(m \o op, Len(m) + 1, Len(m \o op)) = op  BY <2>1, Concatenation
  <2>4. QED  BY <1>1, <1>2, <2>2, <2>3
<1>4. Unmask(token) = MaskOp(m, op, FALSE)
  <2> HIDE DEF op, token
  <2>1. QED  BY <1>3 DEF Unmask
<1>5. MaskOp(m, op, FALSE) = [i \in 1 .. SecretLength |-> OverflowingSubChars(op[i], m[i])]
  <2> HIDE DEF op
  <2>1. QED  BY <1>1 DEF MaskOp
<1>6. \A i \in 1 .. SecretLength : op[i] = (s[i] + m[i]) % AlphanumericRange
  BY SecretsAreSequences DEF MaskOp
<1>7. ASSUME NEW i \in 1 .. SecretLength PROVE OverflowingSubChars(op[i], m[i]) = s[i]
  <2>1. s[i] \in Characters /\ m[i] \in Characters  BY SecretsAreSequences
  <2>2. OverflowingSubChars((s[i] + m[i]) % AlphanumericRange, m[i]) = s[i]
    BY <2>1, AddThenSub
  <2>3. op[i] = (s[i] + m[i]) % AlphanumericRange  BY <1>6
  <2> HIDE DEF op
  <2>4. QED  BY <2>2, <2>3
<1>8. s = [i \in 1 .. SecretLength |-> s[i]]  BY DEF Secrets
<1> HIDE DEF op, token
<1>9. Unmask(token) = s  BY <1>4, <1>5, <1>7, <1>8
<1>10. QED  BY <1>9 DEF token

\* A header made from the cookie passes, plain or masked.
LEMMA EchoValid ==
  ASSUME NEW cookie \in Tokens, NEW header \in Echoes(cookie)
  PROVE  ~Mismatch(cookie, header) /\ header \in Seq(Characters) \cup {NoToken}
<1>1. CASE cookie = NoToken \/ header = NoToken
  <2>1. header \in Seq(Characters) \cup {NoToken}
    BY <1>1 DEF Echoes
  <2>2. QED  BY <1>1, <2>1 DEF Mismatch
<1>2. CASE cookie # NoToken /\ header # NoToken
  <2>1. cookie \in Secrets  BY <1>2 DEF Tokens
  <2>2. CASE header = cookie
    <3>1. header \in Seq(Characters) /\ Len(header) # TokenLength
      BY <2>1, <2>2, SecretsAreSequences, Constants DEF TokenLength
    <3>2. QED  BY <2>2, <3>1 DEF Mismatch, ValidateToken
  <2>3. ASSUME NEW m \in Secrets, header = Mask(m, cookie)
        PROVE  ~Mismatch(cookie, header) /\ header \in Seq(Characters)
    <3>1. header \in Seq(Characters) /\ Len(header) = TokenLength  BY <2>1, <2>3, MaskType
    <3>2. Unmask(header) = cookie  BY <2>1, <2>3, UnmaskMask
    <3>3. QED  BY <3>1, <3>2 DEF Mismatch, ValidateToken
  <2>4. QED  BY <1>2, <2>2, <2>3 DEF Echoes
<1>3. QED  BY <1>1, <1>2

-----------------------------------------------------------------------------
(* Requests *)

\* What may be echoed of a token is a word of the alphabet.
LEMMA EchoesType ==
  ASSUME NEW secret \in Tokens
  PROVE  /\ NoToken \in Echoes(secret)
         /\ Echoes(secret) \subseteq Seq(Characters) \cup {NoToken}
<1>1. NoToken \in Echoes(secret)  BY DEF Echoes
<1>2. QED  BY <1>1, EchoValid

\* A request that is not under way is typed.
LEMMA BlankType == Blank \in RequestType
BY Constants DEF Blank, RequestType, Tokens

\* What a check records of a request.
LEMMA CheckEffect ==
  ASSUME TypeOK, NEW r \in Requests, Check(r)
  PROVE  \E secret \in Tokens, declined \in BOOLEAN :
           /\ requests[r].phase = "sent"
           /\ requests' = [requests EXCEPT ![r] =
                [requests[r] EXCEPT !.phase = "checked", !.added = secret, !.declined = declined]]
           /\ declined <=> \/ Refused(requests[r])
                          \/ Mismatch(requests[r].cookie, requests[r].header)
           /\ secret # NoToken => requests[r].cookie = NoToken
           /\ UNCHANGED <<jar, held, contended>>
<1> DEFINE req == requests[r]
           refused == Refused(req)
           verdict == refused \/ Mismatch(req.cookie, req.header)
<1>1. PICK secret \in IF req.cookie = NoToken /\ ~refused THEN Secrets ELSE {NoToken} :
        requests' = [requests EXCEPT ![r].phase = "checked", ![r].added = secret,
                                     ![r].declined = verdict]
  BY DEF Check
<1>2. req.phase = "sent" /\ UNCHANGED <<jar, held, contended>>  BY DEF Check
<1>3. secret \in Tokens /\ (secret # NoToken => req.cookie = NoToken)
  BY <1>1 DEF Tokens
<1>4. verdict \in BOOLEAN  OBVIOUS
<1>5. requests' = [requests EXCEPT ![r] =
        [req EXCEPT !.phase = "checked", !.added = secret, !.declined = verdict]]
  BY <1>1
<1>6. QED  BY <1>2, <1>3, <1>4, <1>5

\* What sending a request records of it.
LEMMA SendEffect ==
  ASSUME TypeOK, NEW r \in Requests, Send(r)
  PROVE  \E safe, legible \in BOOLEAN, header \in Echoes(held), origin \in Origins :
           /\ requests[r].phase = "idle"
           /\ requests' = [requests EXCEPT ![r] =
                [phase |-> "sent", safe |-> safe, legible |-> legible, cookie |-> jar,
                 header |-> header, origin |-> origin, added |-> NoToken, declined |-> FALSE]]
           /\ contended' = (contended \/ (jar = NoToken /\ UnderWay # {}))
           /\ UNCHANGED <<jar, held>>
BY DEF Send

\* Every step records values of their types.
LEMMA TypeStep ==
  ASSUME TypeOK, [Next]_vars
  PROVE  TypeOK'
<1>1. ASSUME NEW r \in Requests, Send(r) PROVE TypeOK'
  <2>1. PICK safe, legible \in BOOLEAN, header \in Echoes(held), origin \in Origins :
          /\ requests' = [requests EXCEPT ![r] =
               [phase |-> "sent", safe |-> safe, legible |-> legible, cookie |-> jar,
                header |-> header, origin |-> origin, added |-> NoToken, declined |-> FALSE]]
          /\ contended' = (contended \/ (jar = NoToken /\ UnderWay # {}))
          /\ UNCHANGED <<jar, held>>
    BY <1>1, SendEffect
  <2>2. header \in Seq(Characters) \cup {NoToken}  BY EchoesType DEF TypeOK
  <2>3. [phase |-> "sent", safe |-> safe, legible |-> legible, cookie |-> jar,
         header |-> header, origin |-> origin, added |-> NoToken, declined |-> FALSE] \in RequestType
    BY <2>2 DEF TypeOK, RequestType, Tokens
  <2>4. contended' \in BOOLEAN  BY <2>1 DEF TypeOK
  <2>5. QED  BY <2>1, <2>3, <2>4 DEF TypeOK
<1>2. ASSUME NEW r \in Requests, Check(r) PROVE TypeOK'
  <2>1. PICK secret \in Tokens, declined \in BOOLEAN :
          /\ requests' = [requests EXCEPT ![r] =
               [requests[r] EXCEPT !.phase = "checked", !.added = secret, !.declined = declined]]
          /\ UNCHANGED <<jar, held, contended>>
    BY <1>2, CheckEffect
  <2>2. requests[r] \in RequestType  BY DEF TypeOK
  <2>3. [requests[r] EXCEPT !.phase = "checked", !.added = secret, !.declined = declined]
          \in RequestType
    BY <2>2 DEF RequestType
  <2>4. QED  BY <2>1, <2>3 DEF TypeOK
<1>3. ASSUME NEW r \in Requests, Answer(r) PROVE TypeOK'
  <2>1. requests[r] \in RequestType  BY DEF TypeOK
  <2>2. requests[r].added \in Tokens  BY <2>1 DEF RequestType
  <2>3. jar' \in Tokens /\ held' \in Tokens  BY <1>3, <2>2 DEF Answer, TypeOK
  <2>4. QED  BY <1>3, <2>3, BlankType DEF Answer, TypeOK
<1>4. ASSUME NEW r \in Requests, Lose(r) PROVE TypeOK'
  BY <1>4, BlankType DEF Lose, TypeOK
<1>5. CASE UNCHANGED vars  BY <1>5 DEF vars, TypeOK
<1>6. QED  BY <1>1, <1>2, <1>3, <1>4, <1>5 DEF Next

\* The values that the browser and the layer keep have their types.
THEOREM Typing == Spec => []TypeOK
<1>1. Init => TypeOK  BY BlankType DEF Init, TypeOK, Tokens
<1>2. TypeOK /\ [Next]_vars => TypeOK'  BY TypeStep
<1>3. QED  BY <1>1, <1>2, PTL DEF Spec

-----------------------------------------------------------------------------
(* A request is declined for its origin or for a token that does not match *)

Verdict ==
  \A r \in Requests :
    requests[r].declined =>
      /\ requests[r].phase = "checked"
      /\ Refused(requests[r]) \/ Mismatch(requests[r].cookie, requests[r].header)

\* Every step keeps the reasons of a refusal.
LEMMA VerdictStep ==
  ASSUME TypeOK, Verdict, [Next]_vars
  PROVE  Verdict'
<1>1. ASSUME NEW r \in Requests, Send(r) PROVE Verdict'
  <2>1. requests'[r].declined = FALSE /\ \A q \in Requests \ {r} : requests'[q] = requests[q]
    BY <1>1, SendEffect DEF TypeOK
  <2>2. QED  BY <2>1 DEF Verdict
<1>2. ASSUME NEW r \in Requests, Check(r) PROVE Verdict'
  <2>1. PICK secret \in Tokens, declined \in BOOLEAN :
          /\ requests' = [requests EXCEPT ![r] =
               [requests[r] EXCEPT !.phase = "checked", !.added = secret, !.declined = declined]]
          /\ declined <=> \/ Refused(requests[r])
                         \/ Mismatch(requests[r].cookie, requests[r].header)
    BY <1>2, CheckEffect
  <2>2. requests[r] \in RequestType  BY DEF TypeOK
  <2>3. /\ requests'[r].declined = declined /\ requests'[r].phase = "checked"
        /\ requests'[r].safe = requests[r].safe /\ requests'[r].legible = requests[r].legible
        /\ requests'[r].origin = requests[r].origin
        /\ requests'[r].cookie = requests[r].cookie /\ requests'[r].header = requests[r].header
    BY <2>1, <2>2 DEF TypeOK, RequestType
  <2>4. \A q \in Requests \ {r} : requests'[q] = requests[q]  BY <2>1 DEF TypeOK
  <2>5. requests'[r].declined
          => /\ requests'[r].phase = "checked"
             /\ Refused(requests'[r]) \/ Mismatch(requests'[r].cookie, requests'[r].header)
    BY <2>1, <2>3 DEF Refused
  <2>6. QED  BY <2>4, <2>5 DEF Verdict
<1>3. ASSUME NEW r \in Requests, Answer(r) \/ Lose(r) PROVE Verdict'
  <2>1. requests'[r] = Blank /\ \A q \in Requests \ {r} : requests'[q] = requests[q]
    BY <1>3 DEF Answer, Lose, TypeOK
  <2>2. Blank.declined = FALSE  BY DEF Blank
  <2>3. QED  BY <2>1, <2>2 DEF Verdict
<1>4. CASE UNCHANGED vars  BY <1>4 DEF vars, Verdict
<1>5. QED  BY <1>1, <1>2, <1>3, <1>4 DEF Next

\* A request is declined only for its origin or because the cookie and the header that it
\* carries do not match (check_csrf and check_cookie).
THEOREM VerdictInvariant == Spec => []Verdict
<1>1. Init => Verdict  BY DEF Init, Verdict, Blank
<1>2. TypeOK /\ Verdict /\ [Next]_vars => Verdict'  BY VerdictStep
<1>3. QED  BY <1>1, <1>2, Typing, PTL DEF Spec

\* No request is ever declined for a header made from its own cookie.
THEOREM EchoesAreAccepted == Spec => []EchoAccepted
<1>1. TypeOK /\ Verdict => EchoAccepted
  <2> SUFFICES ASSUME TypeOK, Verdict, NEW r \in Requests, requests[r].declined,
                      requests[r].header \in Echoes(requests[r].cookie)
               PROVE  Refused(requests[r])
    BY DEF EchoAccepted
  <2>1. requests[r].cookie \in Tokens  BY DEF TypeOK, RequestType
  <2>2. ~Mismatch(requests[r].cookie, requests[r].header)  BY <2>1, EchoValid
  <2>3. QED  BY <2>2 DEF Verdict, Refused
<1>2. QED  BY <1>1, VerdictInvariant, Typing, PTL

-----------------------------------------------------------------------------
(* Without cookie-less requests together, there is one secret at a time *)

Steady ==
  ~contended =>
    /\ held \in {NoToken, jar}
    /\ \A r \in UnderWay :
         /\ requests[r].cookie = jar
         /\ requests[r].header \in Echoes(jar)
         /\ requests[r].added # NoToken => jar = NoToken
    /\ jar = NoToken => \A q, r \in UnderWay : q = r

\* Every step keeps the one secret.
LEMMA SteadyStep ==
  ASSUME TypeOK, Steady, [Next]_vars
  PROVE  Steady'
<1> SUFFICES ASSUME ~contended' PROVE Steady'  BY DEF Steady
<1>1. ASSUME NEW r \in Requests, Send(r) PROVE Steady'
  <2>1. PICK safe, legible \in BOOLEAN, header \in Echoes(held), origin \in Origins :
          /\ requests' = [requests EXCEPT ![r] =
               [phase |-> "sent", safe |-> safe, legible |-> legible, cookie |-> jar,
                header |-> header, origin |-> origin, added |-> NoToken, declined |-> FALSE]]
          /\ contended' = (contended \/ (jar = NoToken /\ UnderWay # {}))
          /\ UNCHANGED <<jar, held>>
    BY <1>1, SendEffect
  <2>2. ~contended /\ (jar = NoToken => UnderWay = {})  BY <2>1
  <2>3. header \in Echoes(jar)
    <3>1. held = jar \/ held = NoToken  BY <2>2 DEF Steady
    <3>2. Echoes(NoToken) = {NoToken}  BY DEF Echoes
    <3>3. NoToken \in Echoes(jar)  BY EchoesType DEF TypeOK
    <3>4. QED  BY <3>1, <3>2, <3>3
  <2>4. /\ requests'[r].cookie = jar /\ requests'[r].header = header
        /\ requests'[r].added = NoToken
        /\ \A q \in Requests \ {r} : requests'[q] = requests[q]
    BY <2>1 DEF TypeOK
  <2>5. UnderWay' \subseteq UnderWay \cup {r}  BY <2>4 DEF UnderWay
  <2>6. UnderWay \subseteq Requests  BY DEF UnderWay
  <2>7. \A q \in UnderWay' :
          /\ requests'[q].cookie = jar
          /\ requests'[q].header \in Echoes(jar)
          /\ requests'[q].added # NoToken => jar = NoToken
    BY <2>2, <2>3, <2>4, <2>5, <2>6 DEF Steady
  <2>8. jar = NoToken => UnderWay' \subseteq {r}  BY <2>2, <2>5
  <2>9. QED  BY <2>1, <2>2, <2>7, <2>8 DEF Steady
<1>2. ASSUME NEW r \in Requests, Check(r) PROVE Steady'
  <2>1. PICK secret \in Tokens, declined \in BOOLEAN :
          /\ requests[r].phase = "sent"
          /\ requests' = [requests EXCEPT ![r] =
               [requests[r] EXCEPT !.phase = "checked", !.added = secret, !.declined = declined]]
          /\ secret # NoToken => requests[r].cookie = NoToken
          /\ UNCHANGED <<jar, held, contended>>
    BY <1>2, CheckEffect
  <2>2. requests[r] \in RequestType  BY DEF TypeOK
  <2>3. /\ requests'[r].cookie = requests[r].cookie /\ requests'[r].header = requests[r].header
        /\ requests'[r].added = secret /\ requests'[r].phase = "checked"
        /\ \A q \in Requests \ {r} : requests'[q] = requests[q]
    BY <2>1, <2>2 DEF TypeOK, RequestType
  <2>4. r \in UnderWay /\ UnderWay' = UnderWay  BY <2>1, <2>3 DEF UnderWay
  <2>5. QED  BY <2>1, <2>3, <2>4 DEF Steady, UnderWay
<1>3. ASSUME NEW r \in Requests, Answer(r) PROVE Steady'
  <2>1. /\ requests'[r] = Blank /\ \A q \in Requests \ {r} : requests'[q] = requests[q]
        /\ requests[r].phase = "checked" /\ contended' = contended
    BY <1>3 DEF Answer, TypeOK
  <2>2. r \in UnderWay /\ UnderWay' = UnderWay \ {r}
    BY <2>1 DEF UnderWay, Blank
  <2>3. CASE requests[r].added = NoToken
    <3>1. jar' = jar /\ held' \in {held, jar}  BY <1>3, <2>3 DEF Answer
    <3>2. QED  BY <2>1, <2>2, <3>1 DEF Steady, UnderWay
  <2>4. CASE requests[r].added # NoToken
    <3>1. jar = NoToken  BY <2>1, <2>2, <2>4 DEF Steady
    <3>2. held = NoToken /\ UnderWay' = {}  BY <2>1, <2>2, <3>1 DEF Steady
    <3>3. held' \in {NoToken, jar'}  BY <1>3, <3>2 DEF Answer
    <3>4. QED  BY <3>2, <3>3 DEF Steady
  <2>5. QED  BY <2>3, <2>4
<1>4. ASSUME NEW r \in Requests, Lose(r) PROVE Steady'
  <2>1. /\ requests'[r] = Blank /\ \A q \in Requests \ {r} : requests'[q] = requests[q]
        /\ UNCHANGED <<jar, held, contended>>
    BY <1>4 DEF Lose, TypeOK
  <2>2. UnderWay' = UnderWay \ {r}  BY <2>1 DEF UnderWay, Blank
  <2>3. QED  BY <2>1, <2>2 DEF Steady, UnderWay
<1>5. CASE UNCHANGED vars  BY <1>5 DEF vars, Steady, UnderWay
<1>6. QED  BY <1>1, <1>2, <1>3, <1>4, <1>5 DEF Next

\* Unless cookie-less requests have been under way together, every request under way carries
\* the cookie the browser has, and a header made from it (add_csrf_cookie only where none was).
THEOREM SteadyInvariant == Spec => []Steady
<1>1. Init => Steady  BY DEF Init, Steady, UnderWay, Blank
<1>2. TypeOK /\ Steady /\ [Next]_vars => Steady'  BY SteadyStep
<1>3. QED  BY <1>1, <1>2, Typing, PTL DEF Spec

\* A page's token is good for as long as the page is shown, unless cookie-less
\* requests have been under way together.
THEOREM HeldTokensAreAccepted == Spec => []HeldTokenAccepted
<1>1. TypeOK /\ Verdict /\ Steady => HeldTokenAccepted
  <2> SUFFICES ASSUME TypeOK, Verdict, Steady, NEW r \in Requests, requests[r].declined,
                      ~contended
               PROVE  Refused(requests[r])
    BY DEF HeldTokenAccepted
  <2>1. r \in UnderWay  BY DEF Verdict, UnderWay
  <2>2. requests[r].header \in Echoes(requests[r].cookie)  BY <2>1 DEF Steady
  <2>3. requests[r].cookie \in Tokens  BY DEF TypeOK, RequestType
  <2>4. ~Mismatch(requests[r].cookie, requests[r].header)  BY <2>2, <2>3, EchoValid
  <2>5. QED  BY <2>4 DEF Verdict, Refused
<1>2. QED  BY <1>1, VerdictInvariant, SteadyInvariant, Typing, PTL

=============================================================================
