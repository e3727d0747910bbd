--------------------------------- MODULE Csrf ---------------------------------
(***************************************************************************)
(* The CSRF layer (server/src/api/csrf.rs) and a client that may echo its    *)
(* token.  The layer keeps nothing: the secret is in the browser's cookie,  *)
(* and a request carries it back in a header, plain or masked.  A request   *)
(* without the cookie is given a new one; several such requests may be under *)
(* way at once, and their answers may be lost or overtake each other.       *)
(*                                                                         *)
(* A character is its position in ALPHANUMERIC_CHARS; usize has Word values. *)
(***************************************************************************)
EXTENDS Integers, Sequences

CONSTANTS
  Requests,
  AlphanumericRange,      \* ALPHANUMERIC_RANGE, 62
  SecretLength,           \* CSRF_SECRET_LENGTH, 32
  Word,                   \* usize::MAX + 1
  NoToken,                \* no cookie, or no header
  Wildcard,               \* allowed_hosts_wildcard
  AllowedHosts,           \* allowed_hosts: origins
  Origins,                \* what an Origin header may say
  NoOrigin,
  Self                    \* "http://" and the request's host

Characters == 0 .. AlphanumericRange - 1
Secrets == [1 .. SecretLength -> Characters]
TokenLength == 2 * SecretLength

ASSUME CsrfAssumption ==
  /\ AlphanumericRange \in Nat \ {0}
  /\ SecretLength \in Nat \ {0}
  /\ Word \in Nat /\ AlphanumericRange <= Word
  /\ Wildcard \in BOOLEAN
  /\ NoToken \notin Seq(Characters)
  /\ NoOrigin \in Origins

-----------------------------------------------------------------------------
(* The arithmetic of tokens *)

\* usize::overflowing_sub
OverflowingSub(x, y) == [value |-> (x - y) % Word, overflowed |-> x < y]

\* Mutant of OverflowingSubChars: the overflowed value is off by one.
OverflowingSubCharsOffByOne(x, y) ==
  LET sub == OverflowingSub(x, y)
  IN  IF sub.overflowed THEN (AlphanumericRange - ((Word - 1) - sub.value)) % AlphanumericRange
      ELSE sub.value

OverflowingSubChars(x, y) ==
  LET sub == OverflowingSub(x, y)
  IN  IF sub.overflowed THEN AlphanumericRange - 1 - ((Word - 1) - sub.value)
      ELSE sub.value

\* Mutant of MaskOp: the sum is not reduced to the alphabet.
MaskOpUnreduced(mask, chars, add) ==
  [i \in DOMAIN mask \cap DOMAIN chars |->
     IF add THEN chars[i] + mask[i] ELSE OverflowingSubChars(chars[i], mask[i])]

\* The zip ends with the shorter of the two.
MaskOp(mask, chars, add) ==
  [i \in DOMAIN mask \cap DOMAIN chars |->
     IF add THEN (chars[i] + mask[i]) % AlphanumericRange
     ELSE OverflowingSubChars(chars[i], mask[i])]

Mask(mask, secret) == mask \o MaskOp(mask, secret, TRUE)

Unmask(token) ==
  MaskOp(SubSeq(token, 1, SecretLength), SubSeq(token, SecretLength + 1, Len(token)), FALSE)

ValidateToken(token, secret) ==
  IF Len(token) = TokenLength THEN Unmask(token) = secret ELSE token = secret

-----------------------------------------------------------------------------
(* Requests *)

VARIABLES
  jar,        \* the csrf-token cookie of the browser
  held,       \* the token that the shown page has taken from it
  requests,
  contended   \* history: two cookie-less requests have been under way together

vars == <<jar, held, requests, contended>>

Tokens == Secrets \cup {NoToken}

\* What a client may send for the token that it holds: no header, as the frontend
\* does so far, or the token plain or masked, as the tests of csrf.rs do.  None of it
\* is outside of the alphabet, on which mask_op would panic.
Echoes(secret) ==
  IF secret = NoToken THEN {NoToken}
  ELSE {NoToken, secret} \cup {Mask(mask, secret) : mask \in Secrets}

\* legible: the Host header is there, and it and the Origin header are ASCII.
Blank == [phase |-> "idle", safe |-> TRUE, legible |-> TRUE, cookie |-> NoToken, header |-> NoToken,
          origin |-> NoOrigin, added |-> NoToken, declined |-> FALSE]

Init ==
  /\ jar = NoToken
  /\ held = NoToken
  /\ requests = [r \in Requests |-> Blank]
  /\ contended = FALSE

UnderWay == {r \in Requests : requests[r].phase # "idle"}

\* The browser sends a GET or another method, its cookie, and perhaps the page's token.
Send(r) ==
  /\ requests[r].phase = "idle"
  /\ \E safe, legible \in BOOLEAN, header \in Echoes(held), origin \in Origins :
       requests' = [requests EXCEPT ![r] =
         [phase |-> "sent", safe |-> safe, legible |-> legible, cookie |-> jar,
          header |-> header, origin |-> origin, added |-> NoToken, declined |-> FALSE]]
  /\ contended' = (contended \/ (jar = NoToken /\ UnderWay # {}))
  /\ UNCHANGED <<jar, held>>

\* check_cookie's ValidationError: a cookie and a header that do not match.
Mismatch(cookie, header) ==
  cookie # NoToken /\ header # NoToken /\ ~ValidateToken(header, cookie)

\* A present origin must be the host's own unless every host is allowed.
OriginRefused(origin) ==
  origin # NoOrigin /\ ~(Self = origin \/ Wildcard \/ Self \in AllowedHosts)

\* What is answered before any cookie is looked at: 400 or 403, to unsafe methods only.
Refused(req) == ~req.safe /\ (~req.legible \/ OriginRefused(req.origin))

\* Mutant of Check: the answer brings a new cookie whether there was one or not.
CheckRenewing(r) ==
  LET req == requests[r]
      refused == Refused(req)
  IN  /\ req.phase = "sent"
      /\ \E secret \in IF ~refused THEN Secrets ELSE {NoToken} :
           requests' = [requests EXCEPT
             ![r].phase = "checked", ![r].added = secret,
             ![r].declined = refused \/ Mismatch(req.cookie, req.header)]
      /\ UNCHANGED <<jar, held, contended>>

\* check_csrf: the headers of unsafe methods first, then the cookie, which is added
\* where it is missing.
Check(r) ==
  LET req == requests[r]
      refused == Refused(req)
  IN  /\ req.phase = "sent"
      /\ \E secret \in IF req.cookie = NoToken /\ ~refused THEN Secrets ELSE {NoToken} :
           requests' = [requests EXCEPT
             ![r].phase = "checked", ![r].added = secret,
             ![r].declined = refused \/ Mismatch(req.cookie, req.header)]
      /\ UNCHANGED <<jar, held, contended>>

\* The answer arrives with the cookie that was added, and a new page may take the
\* token the cookie now has.
Answer(r) ==
  LET cookie == IF requests[r].added = NoToken THEN jar ELSE requests[r].added
  IN  /\ requests[r].phase = "checked"
      /\ jar' = cookie
      /\ held' \in {held, cookie}
      /\ requests' = [requests EXCEPT ![r] = Blank]
      /\ UNCHANGED contended

\* The request or its answer is lost, or the timeout ends it.
Lose(r) ==
  /\ requests[r].phase # "idle"
  /\ requests' = [requests EXCEPT ![r] = Blank]
  /\ UNCHANGED <<jar, held, contended>>

Next == \E r \in Requests : Send(r) \/ Check(r) \/ Answer(r) \/ Lose(r)

Spec == Init /\ [][Next]_vars

-----------------------------------------------------------------------------
(* Properties *)

RequestType ==
  [phase : {"idle", "sent", "checked"}, safe : BOOLEAN, legible : BOOLEAN, cookie : Tokens,
   header : Seq(Characters) \cup {NoToken}, origin : Origins, added : Tokens,
   declined : BOOLEAN]

TypeOK ==
  /\ jar \in Tokens
  /\ held \in Tokens
  /\ requests \in [Requests -> RequestType]
  /\ contended \in BOOLEAN

\* Whatever mask is drawn and however far the subtraction wraps (csrf.rs:218-258),
\* a token that was made from the request's own cookie is never what it is declined for
\* (test_secret_validate and test_token_validation, csrf.rs:283-293).
EchoAccepted ==
  \A r \in Requests :
    LET req == requests[r]
    IN  req.declined /\ req.header \in Echoes(req.cookie) => Refused(req)

\* A page's token stays good for as long as the page is shown, however many pages
\* and answers later, unless cookie-less requests have been under way together
\* (csrf.rs:180-185 gives each of them another cookie).
HeldTokenAccepted ==
  \A r \in Requests :
    requests[r].declined /\ ~contended => Refused(requests[r])

=============================================================================
