--------------------------- MODULE SessionsProofs ---------------------------
(***************************************************************************)
(* Proofs about Sessions.  What each request knows of its cookies and its    *)
(* session does not depend on the others (Own); that cookies and rows are    *)
(* about the same user does, and holds until a login is disturbed (Quiet).   *)
(***************************************************************************)
EXTENDS Sessions, TLAPS

\* A cookie of an administrator's login and the row of its session are about
\* administrators.
Agrees(table, cookie) ==
  cookie.is_admin /\ table[cookie.sid] \in Users => table[cookie.sid] \in Admins

Earned(cookie, count, earned) ==
  cookie # None => cookie.sid <= count /\ (cookie.is_admin => cookie.sid \in earned)

\* Of one request, where count sessions were created and an administrator logged in
\* in those of earned.
Own(x, count, earned) ==
  /\ x \in RequestType
  /\ Earned(x.cookie, count, earned) /\ Earned(x.set, count, earned)
  /\ x.pc \in {"handle", "manage", "commit"} =>
       x.session \in SessionType /\ (x.session.is_admin => x.session.session_id \in earned)
  /\ x.pc \in {"idle", "auth", "extract", "create"} => x.set = None
  /\ x.pc = "handle" /\ x.set = None =>
       x.cookie # None /\ x.session.session_id = x.cookie.sid
  /\ x.pc \in {"handle", "manage"} /\ x.set # None => ~x.set.is_admin
  /\ x.pc = "manage" => Permitted(x.session)
  /\ x.pc = "commit" =>
       /\ x.kind = "login" /\ x.set # None /\ x.who \in Users
       /\ x.set.sid = x.session.session_id
       /\ x.set.is_admin => x.who \in Admins

\* Of one request, as long as no login was disturbed.
Calm(table, x) ==
  /\ x.pc \in {"auth", "extract"} /\ x.cookie # None => Agrees(table, x.cookie)
  /\ x.pc \in {"handle", "manage"} /\ x.session.is_admin /\ x.session.user_id \in Users
       => x.session.user_id \in Admins
  /\ x.pc = "answered" /\ x.set # None => Agrees(table, x.set)

\* A login is alone; the browser's cookie agrees with its row, or its successor is
\* on the way.
Quiet ==
  /\ \A r, s \in Requests :
       r # s /\ InFlight(r) /\ InFlight(s) => req[r].kind # "login"
  /\ \A r \in Requests : Calm(rows, req[r])
  /\ jar # None =>
       Agrees(rows, jar) \/ \E r \in Requests : LoginAnswered(r) /\ req[r].set # None

SessionsInv ==
  /\ secret \in 0 .. MaxFaults /\ faults \in 0 .. MaxFaults /\ secret <= faults
  /\ rows \in [Sids -> Users \cup {NoUser, None}]
  /\ made \in 0 .. MaxSessions
  /\ jar \in Cookies \cup {None} /\ Earned(jar, made, admined)
  /\ req \in [Requests -> RequestType]
  /\ admined \subseteq Sids /\ disturbed \in BOOLEAN
  /\ \A r \in Requests : Own(req[r], made, admined)
  /\ ~disturbed => Quiet

\* Updates that the database still has to carry out.
LateInv ==
  /\ \A update \in late : update.sid \in Sids /\ update.who \in Users
  /\ late # {} => disturbed

LEMMA IdleOwn ==
  ASSUME NEW count, NEW earned, NEW table
  PROVE  Own(Idle, count, earned) /\ Calm(table, Idle)
<1>1. Idle \in RequestType  BY DEF Idle, RequestType, Kinds
<1>2. QED  BY <1>1 DEF Idle, Own, Earned, Calm

\* More sessions and more logins leave a request what it has.
LEMMA OwnGrows ==
  ASSUME NEW x, NEW m \in Nat, NEW n \in Nat, m <= n, NEW a, NEW b, a \subseteq b,
         Own(x, m, a)
  PROVE  Own(x, n, b)
<1>1. ASSUME NEW c \in Cookies \cup {None}, Earned(c, m, a)  PROVE Earned(c, n, b)
  <2>1. CASE c = None  BY <2>1 DEF Earned
  <2>2. CASE c \in Cookies /\ c # None
    <3>1. c.sid \in Nat  BY <2>2, SessionsAssumption DEF Cookies, Sids
    <3>2. QED  BY <1>1, <2>2, <3>1 DEF Earned
  <2>3. QED  BY <2>1, <2>2
<1>2. x.cookie \in Cookies \cup {None} /\ x.set \in Cookies \cup {None}
  BY DEF Own, RequestType
<1>3. Earned(x.cookie, n, b) /\ Earned(x.set, n, b)  BY <1>1, <1>2 DEF Own
<1>4. QED  BY <1>3 DEF Own

\* The rows that are not another user's agree with a cookie as before.
LEMMA CalmStays ==
  ASSUME NEW x \in RequestType, NEW table, NEW table2,
         \A c \in Cookies : Agrees(table, c) => Agrees(table2, c), Calm(table, x)
  PROVE  Calm(table2, x)
<1>1. x.cookie \in Cookies \cup {None} /\ x.set \in Cookies \cup {None}
  BY DEF RequestType
<1>2. QED  BY <1>1 DEF Calm

\* Answering keeps what is so of a request, unless a login's commit is left out.
LEMMA AnswerOwn ==
  ASSUME NEW x, NEW count, NEW earned, Own(x, count, earned)
  PROVE  /\ Own(Answered(x), count, earned)
         /\ Answered(x).pc = "answered" /\ Answered(x).kind = x.kind
         /\ Answered(x).set = x.set
         /\ x.pc \in {"auth", "extract", "create", "handle", "manage"} =>
              \A table : Calm(table, Answered(x))
<1> DEFINE y == [Idle EXCEPT !.pc = "answered", !.kind = x.kind]
<1>1. /\ Answered(x).pc = "answered" /\ Answered(x).kind = x.kind
      /\ Answered(x).set = x.set /\ Answered(x).cookie = None
  BY DEF Answered, Idle
<1>2. Answered(x) \in RequestType
  <2>1. Answered(x) = [y EXCEPT !.set = x.set]  BY DEF Answered, Idle
  <2>2. x.kind \in Kinds /\ x.set \in Cookies \cup {None} /\ Idle \in RequestType
    BY IdleOwn DEF Own, RequestType
  <2>3. y \in RequestType  BY <2>2, Zenon DEF RequestType
  <2> HIDE DEF y
  <2>4. QED  BY <2>1, <2>2, <2>3, Zenon DEF RequestType
<1>3. Own(Answered(x), count, earned)  BY <1>1, <1>2 DEF Own, Earned
<1>4. ASSUME x.pc \in {"auth", "extract", "create", "handle", "manage"}, NEW table
      PROVE  Calm(table, Answered(x))
  BY <1>1, <1>4 DEF Own, Calm, Agrees
<1>5. QED  BY <1>1, <1>3, <1>4

\* A step of one handler that does not change which requests are in flight and to
\* whose rows the cookies belong.
LEMMA HandlerGoesOn ==
  ASSUME SessionsInv, NEW r \in Requests, InFlight(r), ~At(r, "answered"),
         NEW x, Become(r, x), UNCHANGED <<secret, disturbed>>,
         rows' \in [Sids -> Users \cup {NoUser, None}],
         \A c \in Cookies : Agrees(rows, c) => Agrees(rows', c),
         made' \in 0 .. MaxSessions, made <= made',
         admined \subseteq admined', admined' \subseteq Sids,
         Own(x, made', admined'), x.pc # "idle", x.kind = req[r].kind,
         ~disturbed => Calm(rows', x)
  PROVE  SessionsInv'
<1>1. /\ req' = [req EXCEPT ![r] = x] /\ jar' = jar /\ faults' = faults
      /\ req \in [Requests -> RequestType] /\ x \in RequestType
      /\ made \in Nat /\ made' \in Nat
  BY SessionsAssumption DEF Become, SessionsInv, Own
<1>2. /\ req' \in [Requests -> RequestType]
      /\ req'[r] = x /\ \A s \in Requests \ {r} : req'[s] = req[s]
  BY <1>1
<1>3. \A s \in Requests : Own(req'[s], made', admined')
  <2>1. ASSUME NEW s \in Requests \ {r}  PROVE Own(req'[s], made', admined')
    BY <1>1, <1>2, OwnGrows DEF SessionsInv
  <2>2. QED  BY <1>2, <2>1
<1>4. Earned(jar, made', admined')
  <2>1. CASE jar = None  BY <2>1 DEF Earned
  <2>2. CASE jar # None
    <3>1. jar.sid \in Nat  BY <2>2, SessionsAssumption DEF SessionsInv, Cookies, Sids
    <3>2. QED  BY <1>1, <3>1 DEF SessionsInv, Earned
  <2>3. QED  BY <2>1, <2>2
<1>5. ASSUME ~disturbed  PROVE Quiet'
  <2>1. Quiet  BY <1>5 DEF SessionsInv
  <2>2. \A s \in Requests : Calm(rows', req'[s])
    <3>1. ASSUME NEW s \in Requests \ {r}  PROVE Calm(rows', req'[s])
      <4>1. Calm(rows, req[s]) /\ req[s] \in RequestType  BY <1>1, <2>1 DEF Quiet
      <4>2. QED  BY <1>2, <4>1, CalmStays
    <3>2. QED  BY <1>2, <1>5, <3>1
  <2>3. \A s \in Requests :
          (req'[s].pc # "idle") = (req[s].pc # "idle") /\ req'[s].kind = req[s].kind
    BY <1>2 DEF InFlight
  <2>4. jar' # None =>
          Agrees(rows', jar') \/ \E s \in Requests : LoginAnswered(s)' /\ req'[s].set # None
    <3>1. CASE jar = None  BY <1>1, <3>1
    <3>2. CASE jar # None /\ Agrees(rows, jar)
      BY <1>1, <3>2 DEF SessionsInv
    <3>3. ASSUME NEW s \in Requests, LoginAnswered(s), req[s].set # None
          PROVE  LoginAnswered(s)' /\ req'[s].set # None
      BY <1>2, <3>3 DEF LoginAnswered, At
    <3>4. QED  BY <2>1, <3>1, <3>2, <3>3 DEF Quiet
  <2>5. QED  BY <2>1, <2>2, <2>3, <2>4 DEF Quiet, InFlight
<1>6. QED  BY <1>1, <1>2, <1>3, <1>4, <1>5 DEF SessionsInv

\* The same, where no row, count or login changes.
LEMMA OneRequestGoesOn ==
  ASSUME SessionsInv, NEW r \in Requests, ~At(r, "idle"), ~At(r, "answered"),
         NEW x, Become(r, x), UNCHANGED <<store, history>>,
         Own(x, made, admined), x.pc # "idle", x.kind = req[r].kind,
         ~disturbed => Calm(rows, x)
  PROVE  SessionsInv'
<1>1. UNCHANGED <<secret, rows, made, admined, disturbed>>  BY DEF store, history
<1>2. made \in Nat /\ admined \subseteq Sids  BY SessionsAssumption DEF SessionsInv
<1>3. InFlight(r)  BY DEF InFlight, At
<1>4. /\ rows' \in [Sids -> Users \cup {NoUser, None}] /\ made' \in 0 .. MaxSessions
      /\ Own(x, made', admined') /\ (~disturbed => Calm(rows', x))
      /\ \A c \in Cookies : Agrees(rows, c) => Agrees(rows', c)
      /\ made <= made' /\ admined \subseteq admined' /\ admined' \subseteq Sids
  BY <1>1, <1>2 DEF SessionsInv
<1>5. QED  BY <1>1, <1>3, <1>4, HandlerGoesOn

\* A handler that answers, with what cookie it has set.
LEMMA AnswerStep ==
  ASSUME SessionsInv, NEW r \in Requests,
         req[r].pc \in {"auth", "extract", "create", "handle", "manage"},
         Become(r, Answered(req[r])), UNCHANGED <<store, history>>
  PROVE  SessionsInv'
<1>1. Own(req[r], made, admined)  BY DEF SessionsInv
<1>2. /\ Own(Answered(req[r]), made, admined) /\ Answered(req[r]).pc = "answered"
      /\ Answered(req[r]).kind = req[r].kind /\ Calm(rows, Answered(req[r]))
  BY <1>1, AnswerOwn
<1>3. QED  BY <1>2, OneRequestGoesOn DEF At

LEMMA AuthenticateStep ==
  ASSUME SessionsInv, NEW r \in Requests, Authenticate(r)
  PROVE  SessionsInv'
<1> DEFINE x == [req[r] EXCEPT !.pc = "extract"]
<1>1. req[r].pc = "auth" /\ UNCHANGED <<store, history>>  BY DEF Authenticate, At
<1>2. CASE Become(r, Answered(req[r]))  BY <1>1, <1>2, AnswerStep
<1>3. CASE Become(r, x)
  <2>1. Own(req[r], made, admined) /\ req[r] \in RequestType  BY DEF SessionsInv
  <2>2. x \in RequestType  BY <2>1, Zenon DEF RequestType
  <2>3. /\ x.pc = "extract" /\ x.kind = req[r].kind /\ x.cookie = req[r].cookie
        /\ x.set = req[r].set
    BY <2>1 DEF RequestType
  <2>4. ~disturbed => Calm(rows, req[r])  BY DEF SessionsInv, Quiet
  <2> HIDE DEF x
  <2>5. Own(x, made, admined)  BY <1>1, <2>1, <2>2, <2>3 DEF Own, Earned
  <2>6. ~disturbed => Calm(rows, x)  BY <1>1, <2>3, <2>4 DEF Calm
  <2>7. QED  BY <1>1, <1>3, <2>3, <2>5, <2>6, OneRequestGoesOn DEF At
<1>4. QED  BY <1>2, <1>3 DEF Authenticate

LEMMA ExtractStep ==
  ASSUME SessionsInv, NEW r \in Requests, Extract(r)
  PROVE  SessionsInv'
<1> DEFINE w == req[r]
           cookie == w.cookie
           session == [session_id |-> cookie.sid, user_id |-> rows[cookie.sid],
                       is_admin |-> cookie.is_admin]
           x == [w EXCEPT !.pc = "create"]
           y == [w EXCEPT !.pc = "handle", !.session = session]
<1>1. w.pc = "extract" /\ UNCHANGED <<store, history>>  BY DEF Extract, At
<1>2. Own(w, made, admined) /\ w \in RequestType  BY DEF SessionsInv
<1>3. w.set = None  BY <1>1, <1>2 DEF Own
<1>4. CASE Become(r, x)
  <2>1. x \in RequestType  BY <1>2, Zenon DEF RequestType
  <2>2. x.pc = "create" /\ x.kind = w.kind /\ x.cookie = cookie /\ x.set = w.set
    BY <1>2 DEF RequestType
  <2> HIDE DEF x
  <2>3. Own(x, made, admined)  BY <1>1, <1>2, <2>1, <2>2 DEF Own, Earned
  <2>4. Calm(rows, x)  BY <2>2 DEF Calm
  <2>5. QED  BY <1>1, <1>4, <2>2, <2>3, <2>4, OneRequestGoesOn DEF At
<1>5. CASE Become(r, y) /\ cookie # None /\ rows[cookie.sid] # None
  <2>1. cookie \in Cookies /\ cookie.sid \in Sids /\ cookie.is_admin \in BOOLEAN
    BY <1>2, <1>5 DEF RequestType, Cookies
  <2>2. rows[cookie.sid] \in Users \cup {NoUser}  BY <1>5, <2>1 DEF SessionsInv
  <2>3. session \in SessionType  BY <2>1, <2>2 DEF SessionType
  <2>4. /\ session.session_id = cookie.sid /\ session.is_admin = cookie.is_admin
        /\ session.user_id = rows[cookie.sid]
    OBVIOUS
  <2> HIDE DEF session
  <2>5. y \in RequestType  BY <1>2, <2>3, Zenon DEF RequestType
  <2>6. /\ y.pc = "handle" /\ y.kind = w.kind /\ y.cookie = cookie /\ y.set = w.set
        /\ y.session = session
    BY <1>2 DEF RequestType
  <2>7. ~disturbed => Agrees(rows, cookie)
    BY <1>1, <1>5 DEF SessionsInv, Quiet, Calm
  <2> HIDE DEF y
  <2>8. Own(y, made, admined)
    BY <1>2, <1>3, <1>5, <2>3, <2>4, <2>5, <2>6 DEF Own, Earned
  <2>9. ~disturbed => Calm(rows, y)
    BY <2>4, <2>6, <2>7 DEF Calm, Agrees
  <2>10. QED  BY <1>1, <1>5, <2>6, <2>8, <2>9, OneRequestGoesOn DEF At
<1>6. QED  BY <1>4, <1>5 DEF Extract

\* What a new row changes for none of the cookies.
LEMMA CreateStep ==
  ASSUME SessionsInv, NEW r \in Requests, Create(r)
  PROVE  SessionsInv'
<1> DEFINE w == req[r]
           session == NewSession(made')
           set == NewCookie(made')
           z == [w EXCEPT !.pc = "handle", !.session = session]
           x == [z EXCEPT !.set = set]
<1>1. /\ w.pc = "create" /\ made < MaxSessions /\ made' = made + 1
      /\ rows' = [rows EXCEPT ![made'] = NoUser] /\ UNCHANGED <<secret, history>>
  BY DEF Create, At
<1>2. Own(w, made, admined) /\ w \in RequestType  BY DEF SessionsInv
<1>3. Become(r, x)
  BY <1>2 DEF Create, RequestType
<1>4. made \in Nat /\ made' \in Sids /\ made' \in 0 .. MaxSessions /\ made <= made'
  BY <1>1, SessionsAssumption DEF SessionsInv, Sids
<1>5. /\ session \in SessionType /\ set \in Cookies /\ set.sid = made'
      /\ ~session.is_admin /\ ~set.is_admin
  BY <1>4 DEF NewSession, NewCookie, SessionType, Cookies, SessionsInv
<1>6. set # None  BY <1>5, NoneAssumption
<1> HIDE DEF session, set
<1>7. z \in RequestType  BY <1>2, <1>5, Zenon DEF RequestType
<1>8. z.kind = w.kind /\ z.cookie = w.cookie /\ z.pc = "handle" /\ z.session = session
  BY <1>2 DEF RequestType
<1> HIDE DEF z
<1>9. x \in RequestType  BY <1>5, <1>7, Zenon DEF RequestType
<1>10. /\ x.pc = "handle" /\ x.kind = w.kind /\ x.cookie = w.cookie
       /\ x.session = session /\ x.set = set
  BY <1>7, <1>8 DEF RequestType
<1> HIDE DEF x
<1>11. Own(w, made', admined)  BY <1>2, <1>4, OwnGrows
<1>12. Own(x, made', admined)
  BY <1>4, <1>5, <1>6, <1>9, <1>10, <1>11 DEF Own, Earned
<1>13. Calm(rows', x)  BY <1>5, <1>10 DEF Calm
<1>14. rows' \in [Sids -> Users \cup {NoUser, None}]  BY <1>1, <1>4 DEF SessionsInv
<1>15. ASSUME NEW c \in Cookies, Agrees(rows, c)  PROVE Agrees(rows', c)
  BY <1>1, <1>4, <1>15, SessionsAssumption DEF Agrees, SessionsInv
<1>16. UNCHANGED <<secret, disturbed, admined>> /\ admined \subseteq Sids
  BY <1>1 DEF history, SessionsInv
<1>17. InFlight(r) /\ ~At(r, "answered")  BY <1>1 DEF InFlight, At
<1>18. QED
  BY <1>3, <1>4, <1>10, <1>12, <1>13, <1>14, <1>15, <1>16, <1>17, HandlerGoesOn

LEMMA AdministerStep ==
  ASSUME SessionsInv, NEW r \in Requests, Administer(r)
  PROVE  SessionsInv'
<1> DEFINE w == req[r]
           x == [w EXCEPT !.pc = "manage"]
<1>1. w.pc = "handle" /\ UNCHANGED <<store, history>>  BY DEF Administer, At
<1>2. CASE Become(r, Answered(w))  BY <1>1, <1>2, AnswerStep
<1>3. CASE Become(r, x) /\ Permitted(w.session)
  <2>1. Own(w, made, admined) /\ w \in RequestType  BY DEF SessionsInv
  <2>2. x \in RequestType  BY <2>1, Zenon DEF RequestType
  <2>3. /\ x.pc = "manage" /\ x.kind = w.kind /\ x.cookie = w.cookie
        /\ x.set = w.set /\ x.session = w.session
    BY <2>1 DEF RequestType
  <2>4. ~disturbed => Calm(rows, w)  BY DEF SessionsInv, Quiet
  <2> HIDE DEF x
  <2>5. Own(x, made, admined)  BY <1>1, <1>3, <2>1, <2>2, <2>3 DEF Own, Earned
  <2>6. ~disturbed => Calm(rows, x)  BY <1>1, <2>3, <2>4 DEF Calm
  <2>7. QED  BY <1>1, <1>3, <2>3, <2>5, <2>6, OneRequestGoesOn DEF At
<1>4. QED  BY <1>2, <1>3 DEF Administer

\* The claims of a login are of its session, and earned by its user.
LEMMA SetClaimsStep ==
  ASSUME SessionsInv, NEW r \in Requests, SetClaims(r)
  PROVE  SessionsInv'
<1> DEFINE w == req[r]
<1>1. w.pc = "handle" /\ w.kind = "login" /\ w.set = None /\ UNCHANGED <<store, disturbed>>
  BY DEF SetClaims, At
<1>2. PICK user \in Users :
        /\ Become(r, [w EXCEPT !.pc = "commit", !.who = user,
                               !.set = LoginClaims(w.cookie, user)])
        /\ admined' = IF user \in Admins
                       THEN admined \cup {w.session.session_id} ELSE admined
  BY DEF SetClaims
<1> DEFINE set == LoginClaims(w.cookie, user)
           z == [w EXCEPT !.pc = "commit", !.who = user]
           x == [z EXCEPT !.set = set]
<1>3. Own(w, made, admined) /\ w \in RequestType  BY DEF SessionsInv
<1>4. Become(r, x)  BY <1>2, <1>3 DEF RequestType
<1>5. /\ w.cookie # None /\ w.session.session_id = w.cookie.sid
      /\ w.session \in SessionType
  BY <1>1, <1>3 DEF Own
<1>6. w.cookie \in Cookies  BY <1>3, <1>5 DEF RequestType
<1>7. /\ set \in Cookies /\ set.sid = w.cookie.sid /\ (set.is_admin <=> user \in Admins)
  <2>1. secret \in 0 .. MaxFaults /\ (user \in Admins) \in BOOLEAN  BY DEF SessionsInv
  <2>2. set \in Cookies  BY <1>6, <2>1, Zenon DEF LoginClaims, Cookies
  <2>3. set.sid = w.cookie.sid /\ (set.is_admin <=> user \in Admins)
    BY <1>6 DEF LoginClaims, Cookies
  <2>4. QED  BY <2>2, <2>3
<1>8. set # None  BY <1>7, NoneAssumption
<1>9. user \in Users \cup {NoUser}  OBVIOUS
<1> HIDE DEF set
<1>10. z \in RequestType  BY <1>3, <1>9, Zenon DEF RequestType
<1>11. /\ z.pc = "commit" /\ z.who = user /\ z.kind = w.kind /\ z.cookie = w.cookie
       /\ z.session = w.session
  BY <1>3 DEF RequestType
<1> HIDE DEF z
<1>12. x \in RequestType  BY <1>7, <1>10, Zenon DEF RequestType
<1>13. /\ x.pc = "commit" /\ x.who = user /\ x.kind = w.kind /\ x.cookie = w.cookie
       /\ x.session = w.session /\ x.set = set
  BY <1>10, <1>11 DEF RequestType
<1> HIDE DEF x
<1>14. /\ admined \subseteq admined' /\ admined' \subseteq Sids
       /\ (set.is_admin => set.sid \in admined')
  <2>1. w.session.session_id \in Sids  BY <1>5 DEF SessionType
  <2>2. QED  BY <1>2, <1>5, <1>7, <2>1 DEF SessionsInv
<1>15. /\ UNCHANGED <<secret, rows, made, disturbed>> /\ made \in Nat
       /\ made \in 0 .. MaxSessions
  BY <1>1, SessionsAssumption DEF store, SessionsInv
<1>16. Own(w, made, admined')  BY <1>3, <1>14, <1>15, OwnGrows
<1>17. Own(x, made', admined')
  BY <1>1, <1>5, <1>7, <1>8, <1>12, <1>13, <1>14, <1>15, <1>16 DEF Own, Earned
<1>18. Calm(rows', x)  BY <1>13 DEF Calm
<1>19. InFlight(r) /\ ~At(r, "answered")  BY <1>1 DEF InFlight, At
<1>20. /\ rows' \in [Sids -> Users \cup {NoUser, None}] /\ made' \in 0 .. MaxSessions
       /\ made <= made' /\ \A c \in Cookies : Agrees(rows, c) => Agrees(rows', c)
  BY <1>15 DEF SessionsInv
<1>21. UNCHANGED <<secret, disturbed>>  BY <1>15
<1>22. x.pc # "idle" /\ x.kind = req[r].kind  BY <1>13
<1>23. QED
  BY <1>4, <1>14, <1>17, <1>18, <1>19, <1>20, <1>21, <1>22, HandlerGoesOn

LEMMA HandleStep ==
  ASSUME SessionsInv, NEW r \in Requests, Handle(r), ~Commit(r)
  PROVE  SessionsInv'
<1>1. CASE View(r) \/ Manage(r) \/ LoginRefused(r)
  BY <1>1, AnswerStep DEF View, Manage, LoginRefused, At
<1>2. QED
  BY <1>1, AuthenticateStep, ExtractStep, CreateStep, AdministerStep, SetClaimsStep
  DEF Handle

-----------------------------------------------------------------------------

\* A request is sent with the browser's cookie.
LEMMA SendStep ==
  ASSUME SessionsInv, NEW r \in Requests, NEW kind \in Kinds, Send(r, kind)
  PROVE  SessionsInv'
<1> DEFINE z == [Idle EXCEPT !.pc = "auth", !.kind = kind]
           x == [z EXCEPT !.cookie = jar]
<1>1. /\ req[r].pc = "idle" /\ UNCHANGED <<secret, rows, made, jar, admined, faults>>
      /\ disturbed' = (disturbed \/ \E other \in Requests \ {r} :
                          InFlight(other) /\ "login" \in {kind, req[other].kind})
  BY DEF Send, At, store
<1>2. req' = [req EXCEPT ![r] = x]  BY DEF Send, Idle
<1>3. req'[r] = x /\ \A s \in Requests \ {r} : req'[s] = req[s]  BY <1>2 DEF SessionsInv
<1>4. x \in RequestType
  <2>1. Idle \in RequestType  BY IdleOwn DEF Own
  <2>2. z \in RequestType  BY <2>1, Zenon DEF RequestType
  <2>3. jar \in Cookies \cup {None}  BY DEF SessionsInv
  <2> HIDE DEF z
  <2>4. QED  BY <2>2, <2>3, Zenon DEF RequestType
<1>5. x.pc = "auth" /\ x.kind = kind /\ x.cookie = jar /\ x.set = None
  BY DEF Idle
<1> HIDE DEF x
<1>6. Own(x, made, admined)  BY <1>4, <1>5 DEF Own, Earned, SessionsInv
<1>7. ASSUME ~disturbed'  PROVE Quiet'
  <2>1. Quiet  BY <1>1, <1>7 DEF SessionsInv
  <2>2. \A s \in Requests \ {r} : InFlight(s) => kind # "login" /\ req[s].kind # "login"
    BY <1>1, <1>7
  <2>3. \A s, t \in Requests :
          s # t /\ req'[s].pc # "idle" /\ req'[t].pc # "idle" => req'[s].kind # "login"
    BY <1>3, <1>5, <2>1, <2>2 DEF Quiet, InFlight
  <2>4. jar # None => Agrees(rows, jar)
    BY <1>1, <2>1, <2>2 DEF Quiet, LoginAnswered, At, InFlight
  <2>5. Calm(rows, x)  BY <1>5, <2>4 DEF Calm
  <2>6. \A s \in Requests : Calm(rows, req'[s])  BY <1>3, <2>1, <2>5 DEF Quiet
  <2>7. QED  BY <1>1, <2>3, <2>4, <2>6 DEF Quiet, InFlight
<1>8. disturbed' \in BOOLEAN  BY <1>1 DEF SessionsInv
<1>9. req' \in [Requests -> RequestType] /\ \A s \in Requests : Own(req'[s], made, admined)
  BY <1>2, <1>3, <1>4, <1>6 DEF SessionsInv
<1>10. QED  BY <1>1, <1>7, <1>8, <1>9 DEF SessionsInv

\* A login's row is committed and it is answered.
LEMMA CommitStep ==
  ASSUME SessionsInv, NEW r \in Requests, At(r, "commit"), rows' = Applied(Update(r)),
         req' = [req EXCEPT ![r] = Answered(req[r])],
         faults' \in 0 .. MaxFaults, faults <= faults',
         UNCHANGED <<secret, made, jar, admined, disturbed>>
  PROVE  SessionsInv'
<1> DEFINE w == req[r]
           x == Answered(req[r])
           sid == w.session.session_id
<1>1. Own(w, made, admined) /\ w.pc = "commit"  BY DEF SessionsInv, At
<1>2. /\ Own(x, made, admined) /\ x.pc = "answered" /\ x.kind = w.kind /\ x.set = w.set
  BY <1>1, AnswerOwn
<1>3. /\ w.kind = "login" /\ w.set # None /\ w.who \in Users /\ w.set.sid = sid
      /\ w.set.is_admin => w.who \in Admins
      /\ sid \in Sids
  BY <1>1 DEF Own, SessionType
<1>4. rows' = IF rows[sid] = None THEN rows ELSE [rows EXCEPT ![sid] = w.who]
  BY DEF Applied, Update
<1> HIDE DEF x, sid
<1>5. rows' \in [Sids -> Users \cup {NoUser, None}]  BY <1>3, <1>4 DEF SessionsInv
<1>6. x \in RequestType  BY <1>2 DEF Own
<1>7. /\ req' \in [Requests -> RequestType]
      /\ req'[r] = x /\ \A s \in Requests \ {r} : req'[s] = req[s]
  BY <1>6 DEF SessionsInv, x
<1>8. \A s \in Requests : Own(req'[s], made, admined)  BY <1>2, <1>7 DEF SessionsInv
<1>9. ASSUME ~disturbed  PROVE Quiet'
  <2>1. Quiet  BY <1>9 DEF SessionsInv
  <2>2. \A s \in Requests \ {r} : req[s].pc = "idle"
    BY <1>1, <1>3, <2>1 DEF Quiet, InFlight
  <2>3. Agrees(rows', x.set)
    BY <1>2, <1>3, <1>4, NoneAssumption DEF Agrees, SessionsInv
  <2>4. \A s \in Requests : Calm(rows', req'[s])
    BY <1>2, <1>7, <2>2, <2>3 DEF Calm
  <2>5. LoginAnswered(r)' /\ req'[r].set # None
    BY <1>2, <1>3, <1>7 DEF LoginAnswered, At
  <2>6. \A s, t \in Requests :
          ~(s # t /\ req'[s].pc # "idle" /\ req'[t].pc # "idle")
    BY <1>7, <2>2
  <2>7. QED  BY <2>4, <2>5, <2>6 DEF Quiet, InFlight
<1>10. secret \in Nat /\ faults \in Nat /\ faults' \in Nat /\ secret <= faults
  BY SessionsAssumption DEF SessionsInv
<1>11. QED  BY <1>5, <1>7, <1>8, <1>9, <1>10 DEF SessionsInv

\* The browser takes the answer.
LEMMA ReceiveStep ==
  ASSUME SessionsInv, NEW r \in Requests, Receive(r)
  PROVE  SessionsInv'
<1> DEFINE w == req[r]
<1>1. /\ w.pc = "answered" /\ req' = [req EXCEPT ![r] = Idle]
      /\ jar' = IF w.set = None THEN jar ELSE w.set
      /\ UNCHANGED <<secret, rows, made, admined, disturbed, faults>>
  BY DEF Receive, At, store, history
<1>2. Own(w, made, admined) /\ w \in RequestType  BY DEF SessionsInv
<1>3. Own(Idle, made, admined) /\ Calm(rows, Idle) /\ Idle \in RequestType
  BY IdleOwn DEF Own
<1>4. /\ req' \in [Requests -> RequestType]
      /\ req'[r] = Idle /\ \A s \in Requests \ {r} : req'[s] = req[s]
  BY <1>1, <1>3 DEF SessionsInv
<1>5. jar' \in Cookies \cup {None} /\ Earned(jar', made, admined)
  BY <1>1, <1>2 DEF SessionsInv, Own, RequestType
<1>6. \A s \in Requests : Own(req'[s], made, admined)  BY <1>3, <1>4 DEF SessionsInv
<1>7. ASSUME ~disturbed  PROVE Quiet'
  <2>1. Quiet  BY <1>7 DEF SessionsInv
  <2>2. \A s \in Requests : Calm(rows, req'[s])  BY <1>3, <1>4, <2>1 DEF Quiet
  <2>3. \A s \in Requests : req'[s].pc # "idle" => req'[s] = req[s] /\ InFlight(s)
    BY <1>4 DEF InFlight, Idle
  <2>4. jar' # None => Agrees(rows, jar')
    <3>1. CASE w.set # None  BY <1>1, <2>1, <3>1 DEF Quiet, Calm
    <3>2. CASE w.set = None
      <4>1. ~ \E s \in Requests : LoginAnswered(s) /\ req[s].set # None
        BY <1>1, <2>1, <3>2 DEF Quiet, LoginAnswered, At, InFlight
      <4>2. QED  BY <1>1, <2>1, <3>2, <4>1 DEF Quiet
    <3>3. QED  BY <3>1, <3>2
  <2>5. \A s, t \in Requests :
          s # t /\ req'[s].pc # "idle" /\ req'[t].pc # "idle" => req'[s].kind # "login"
    BY <2>1, <2>3 DEF Quiet
  <2>6. QED  BY <1>1, <2>2, <2>4, <2>5 DEF Quiet, InFlight
<1>8. QED  BY <1>1, <1>4, <1>5, <1>6, <1>7 DEF SessionsInv

-----------------------------------------------------------------------------
(* Faults *)

LEMMA Faults ==
  ASSUME SessionsInv, Fault
  PROVE  /\ faults' \in 0 .. MaxFaults /\ faults' = faults + 1
         /\ secret \in 0 .. MaxFaults /\ secret <= faults /\ faults \in Nat
BY SessionsAssumption DEF SessionsInv, Fault

LEMMA FailStep ==
  ASSUME SessionsInv, NEW r \in Requests, Fail(r)
  PROVE  SessionsInv'
<1> DEFINE w == req[r]
           x == Answered(req[r])
<1>1. /\ Fault /\ w.pc \in {"extract", "create", "handle", "manage", "commit"}
      /\ req' = [req EXCEPT ![r] = x] /\ UNCHANGED <<secret, made, jar, admined>>
  BY DEF Fail
<1>2. CASE AtCommit(r) /\ rows' = Applied(Update(r)) /\ UNCHANGED disturbed
  <2>1. faults' \in 0 .. MaxFaults /\ faults <= faults'  BY <1>1, Faults
  <2>2. UNCHANGED <<secret, made, jar, admined, disturbed>>  BY <1>1, <1>2
  <2>3. QED  BY <1>1, <1>2, <2>1, <2>2, CommitStep DEF AtCommit
<1>3. CASE /\ UNCHANGED rows /\ disturbed' \in BOOLEAN
           /\ disturbed \/ At(r, "commit") => disturbed'
  <2>1. Own(w, made, admined)  BY DEF SessionsInv
  <2>2. /\ Own(x, made, admined) /\ x.pc = "answered" /\ x.kind = w.kind
        /\ w.pc # "commit" => Calm(rows, x)
    BY <1>1, <2>1, AnswerOwn
  <2> HIDE DEF x
  <2>3. /\ req' \in [Requests -> RequestType]
        /\ req'[r] = x /\ \A s \in Requests \ {r} : req'[s] = req[s]
    BY <1>1, <2>2 DEF SessionsInv, Own
  <2>4. \A s \in Requests : Own(req'[s], made, admined)  BY <2>2, <2>3 DEF SessionsInv
  <2>5. ASSUME ~disturbed'  PROVE Quiet'
    <3>1. Quiet /\ w.pc # "commit"  BY <1>3, <2>5 DEF SessionsInv, At
    <3>2. \A s \in Requests : Calm(rows, req'[s])  BY <2>2, <2>3, <3>1 DEF Quiet
    <3>3. \A s \in Requests :
            (req'[s].pc # "idle") = (req[s].pc # "idle") /\ req'[s].kind = req[s].kind
      BY <1>1, <2>2, <2>3
    <3>4. ASSUME NEW s \in Requests, LoginAnswered(s), req[s].set # None
          PROVE  LoginAnswered(s)' /\ req'[s].set # None
      BY <1>1, <2>3, <3>4 DEF LoginAnswered, At
    <3>5. QED  BY <1>1, <1>3, <3>1, <3>2, <3>3, <3>4 DEF Quiet, InFlight
  <2>6. QED  BY <1>1, <1>3, <2>3, <2>4, <2>5, Faults DEF SessionsInv
<1>4. CASE UNCHANGED rows /\ disturbed' = (disturbed \/ At(r, "commit"))
  BY <1>3, <1>4 DEF SessionsInv, At
<1>5. CASE UNCHANGED rows /\ disturbed' = TRUE
  BY <1>3, <1>5
<1>6. QED  BY <1>2, <1>4, <1>5 DEF Fail

LEMMA LoseStep ==
  ASSUME SessionsInv, NEW r \in Requests, Lose(r)
  PROVE  SessionsInv'
<1>1. /\ Fault /\ req' = [req EXCEPT ![r] = Idle]
      /\ disturbed' \in BOOLEAN /\ (disturbed \/ LoginAnswered(r) => disturbed')
      /\ UNCHANGED <<secret, rows, made, jar, admined>>
  BY DEF Lose, Dropped, SessionsInv
<1>2. Own(Idle, made, admined) /\ Calm(rows, Idle) /\ Idle \in RequestType
  BY IdleOwn DEF Own
<1>3. /\ req' \in [Requests -> RequestType]
      /\ req'[r] = Idle /\ \A s \in Requests \ {r} : req'[s] = req[s]
  BY <1>1, <1>2 DEF SessionsInv
<1>4. \A s \in Requests : Own(req'[s], made, admined)  BY <1>2, <1>3 DEF SessionsInv
<1>5. ASSUME ~disturbed'  PROVE Quiet'
  <2>1. Quiet /\ ~LoginAnswered(r)  BY <1>1, <1>5 DEF SessionsInv
  <2>2. \A s \in Requests : Calm(rows, req'[s])  BY <1>2, <1>3, <2>1 DEF Quiet
  <2>3. \A s \in Requests : req'[s].pc # "idle" => req'[s] = req[s]
    BY <1>3 DEF Idle
  <2>4. ASSUME NEW s \in Requests, LoginAnswered(s), req[s].set # None
        PROVE  LoginAnswered(s)' /\ req'[s].set # None
    BY <1>3, <2>1, <2>4 DEF LoginAnswered, At
  <2>5. \A s, t \in Requests :
          s # t /\ req'[s].pc # "idle" /\ req'[t].pc # "idle" => req'[s].kind # "login"
    BY <2>1, <2>3 DEF Quiet, InFlight
  <2>6. QED  BY <1>1, <2>1, <2>2, <2>4, <2>5 DEF Quiet, InFlight
<1>6. QED  BY <1>1, <1>3, <1>4, <1>5, Faults DEF SessionsInv

LEMMA DeleteStep ==
  ASSUME SessionsInv, NEW sid \in Sids, Delete(sid)
  PROVE  SessionsInv'
<1>1. /\ Fault /\ rows' = [rows EXCEPT ![sid] = None]
      /\ UNCHANGED <<secret, made, jar, req, admined, disturbed>>
  BY DEF Delete, history
<1>2. rows' \in [Sids -> Users \cup {NoUser, None}]  BY <1>1 DEF SessionsInv
<1>3. ASSUME NEW c \in Cookies, Agrees(rows, c)  PROVE Agrees(rows', c)
  <2>1. rows'[c.sid] = None \/ rows'[c.sid] = rows[c.sid]
    BY <1>1 DEF Cookies, SessionsInv
  <2>2. QED  BY <1>3, <2>1, NoneAssumption DEF Agrees
<1>4. ASSUME ~disturbed  PROVE Quiet'
  <2>1. Quiet  BY <1>4 DEF SessionsInv
  <2>2. ASSUME NEW s \in Requests  PROVE Calm(rows', req'[s])
    <3>1. req[s] \in RequestType /\ Calm(rows, req[s])  BY <2>1 DEF SessionsInv, Quiet
    <3>2. QED  BY <1>1, <1>3, <3>1, CalmStays
  <2>3. jar # None /\ Agrees(rows, jar) => Agrees(rows', jar)  BY <1>3 DEF SessionsInv
  <2>4. \A s \in Requests : LoginAnswered(s) => LoginAnswered(s)'
    BY <1>1 DEF LoginAnswered, At
  <2>5. QED  BY <1>1, <2>1, <2>2, <2>3, <2>4 DEF Quiet, InFlight
<1>5. QED  BY <1>1, <1>2, <1>4, Faults DEF SessionsInv

LEMMA RestartStep ==
  ASSUME SessionsInv, Restart
  PROVE  SessionsInv'
<1>1. /\ Fault /\ secret' \in {secret, secret + 1} /\ req' = [r \in Requests |-> Idle]
      /\ disturbed' \in BOOLEAN
      /\ disturbed \/ (\E r \in Requests : LoginAnswered(r)) => disturbed'
      /\ UNCHANGED <<rows, made, jar, admined>>
  BY DEF Restart, Dropped, SessionsInv
<1>2. Own(Idle, made, admined) /\ Calm(rows, Idle) /\ Idle \in RequestType
  BY IdleOwn DEF Own
<1>3. req' \in [Requests -> RequestType] /\ \A r \in Requests : req'[r] = Idle
  BY <1>1, <1>2
<1>4. secret' \in 0 .. MaxFaults /\ secret' <= faults'
  BY <1>1, Faults, SessionsAssumption
<1>5. ASSUME ~disturbed'  PROVE Quiet'
  <2>1. Quiet /\ ~ \E r \in Requests : LoginAnswered(r)
    BY <1>1, <1>5 DEF SessionsInv
  <2>2. \A r \in Requests : req'[r].pc = "idle"  BY <1>3 DEF Idle
  <2>3. QED  BY <1>1, <1>2, <1>3, <2>1, <2>2 DEF Quiet, InFlight
<1>6. QED  BY <1>1, <1>2, <1>3, <1>4, <1>5, Faults DEF SessionsInv

\* A late update leaves a row of a user; what else it may break is given up.
LEMMA SettleStep ==
  ASSUME SessionsInv, LateInv, NEW update \in late, Settle(update)
  PROVE  SessionsInv'
<1>1. /\ UNCHANGED <<secret, made, jar, req, admined, disturbed, faults>>
      /\ rows' = Applied(update)
  BY DEF Settle, history
<1>2. update.sid \in Sids /\ update.who \in Users /\ disturbed  BY DEF LateInv
<1>3. rows' \in [Sids -> Users \cup {NoUser, None}]
  BY <1>1, <1>2 DEF Applied, SessionsInv
<1>4. QED  BY <1>1, <1>2, <1>3 DEF SessionsInv

\* What a handler that may be at its COMMIT has to update.
LEMMA UpdateType ==
  ASSUME SessionsInv, NEW r \in Requests, At(r, "commit")
  PROVE  Update(r).sid \in Sids /\ Update(r).who \in Users
BY DEF SessionsInv, Own, At, Update, SessionType

\* An update is only left to the database by a fault that breaks a login off.
LEMMA LateStep ==
  ASSUME SessionsInv, LateInv, [Next]_vars
  PROVE  LateInv'
<1>1. ASSUME disturbed => disturbed',
             \/ late' \subseteq late
             \/ /\ disturbed'
                /\ \E sent \in SUBSET {r \in Requests : At(r, "commit")} :
                     late' = late \cup {Update(r) : r \in sent}
      PROVE  LateInv'
  BY <1>1, UpdateType DEF LateInv
<1>2. ASSUME NEW r \in Requests, Fail(r)  PROVE LateInv'
  <2>0. disturbed => disturbed'  BY <1>2 DEF Fail, At, SessionsInv
  <2>1. CASE UNCHANGED late  BY <1>1, <2>0, <2>1
  <2>2. CASE AtCommit(r) /\ late' = late \cup {Update(r)} /\ disturbed' = TRUE
    <3>1. /\ {r} \in SUBSET {s \in Requests : At(s, "commit")}
          /\ late' = late \cup {Update(s) : s \in {r}}
      BY <2>2 DEF AtCommit
    <3>2. QED  BY <1>1, <2>2, <3>1
  <2>3. QED  BY <1>2, <2>1, <2>2 DEF Fail
<1>3. ASSUME NEW gone, NEW sent \in Committing, Dropped(gone, sent)  PROVE LateInv'
  <2>1. sent \in SUBSET {s \in Requests : At(s, "commit")}  BY DEF Committing, AtCommit
  <2>2. CASE sent = {}  BY <1>1, <1>3, <2>2 DEF Dropped
  <2>3. CASE sent # {}  BY <1>1, <1>3, <2>1, <2>3 DEF Dropped
  <2>4. QED  BY <2>2, <2>3
<1>4. ASSUME UNCHANGED late, disturbed => disturbed'  PROVE LateInv'  BY <1>1, <1>4
<1>5. ASSUME NEW r \in Requests, Handle(r) \/ Receive(r)  PROVE LateInv'
  BY <1>4, <1>5 DEF Handle, Authenticate, Extract, Create, View, Administer, Manage,
     LoginRefused, SetClaims, Commit, Receive, store, history
<1>6. ASSUME NEW r \in Requests, NEW kind \in Kinds, Send(r, kind)  PROVE LateInv'
  BY <1>4, <1>6 DEF Send, store
<1>7. ASSUME NEW r \in Requests, Lose(r)  PROVE LateInv'  BY <1>3, <1>7 DEF Lose
<1>8. CASE Restart  BY <1>3, <1>8 DEF Restart
<1>9. ASSUME NEW sid \in Sids, Delete(sid)  PROVE LateInv'
  BY <1>4, <1>9 DEF Delete, history
<1>10. ASSUME NEW update \in late, Settle(update)  PROVE LateInv'
  BY <1>1, <1>10 DEF Settle, history
<1>11. CASE UNCHANGED vars  BY <1>4, <1>11 DEF vars
<1>12. QED
  BY <1>2, <1>5, <1>6, <1>7, <1>8, <1>9, <1>10, <1>11 DEF Next

-----------------------------------------------------------------------------

LEMMA SessionsStart == Init => SessionsInv
<1> SUFFICES ASSUME Init  PROVE SessionsInv
  OBVIOUS
<1>1. Own(Idle, 0, {}) /\ Calm(rows, Idle) /\ Idle \in RequestType  BY IdleOwn DEF Own
<1>2. /\ secret = 0 /\ rows = [sid \in Sids |-> None] /\ made = 0 /\ jar = None
      /\ req = [r \in Requests |-> Idle] /\ admined = {} /\ disturbed = FALSE /\ faults = 0
  BY DEF Init
<1>3. Quiet  BY <1>1, <1>2 DEF Quiet, InFlight, Idle
<1>4. \A r \in Requests : Own(req[r], made, admined)  BY <1>1, <1>2
<1>5. Earned(jar, made, admined)  BY <1>2 DEF Earned
<1>6. req \in [Requests -> RequestType]  BY <1>1, <1>2
<1>7. 0 \in 0 .. MaxFaults /\ 0 \in 0 .. MaxSessions  BY SessionsAssumption
<1>8. /\ secret \in 0 .. MaxFaults /\ faults \in 0 .. MaxFaults /\ secret <= faults
      /\ made \in 0 .. MaxSessions
  BY <1>2, <1>7
<1>9. rows \in [Sids -> Users \cup {NoUser, None}]  BY <1>2
<1>10. jar \in Cookies \cup {None} /\ admined \subseteq Sids /\ disturbed \in BOOLEAN
  BY <1>2
<1>11. QED  BY <1>3, <1>4, <1>5, <1>6, <1>8, <1>9, <1>10 DEF SessionsInv

LEMMA SessionsSteps == SessionsInv /\ LateInv /\ [Next]_vars => SessionsInv'
<1> SUFFICES ASSUME SessionsInv, LateInv, [Next]_vars  PROVE SessionsInv'
  OBVIOUS
<1>1. ASSUME NEW r \in Requests, Handle(r)  PROVE SessionsInv'
  <2>1. CASE Commit(r)
    <3>1. /\ At(r, "commit") /\ rows' = Applied(Update(r))
          /\ req' = [req EXCEPT ![r] = Answered(req[r])]
          /\ UNCHANGED <<secret, made, jar, admined, disturbed, faults>>
      BY <2>1 DEF Commit, AtCommit, Become, history
    <3>2. faults' \in 0 .. MaxFaults /\ faults <= faults'
      BY <3>1, SessionsAssumption DEF SessionsInv
    <3>3. QED  BY <3>1, <3>2, CommitStep
  <2>2. QED  BY <1>1, <2>1, HandleStep
<1>2. CASE UNCHANGED vars
  BY <1>2 DEF vars, SessionsInv, Quiet, InFlight, LoginAnswered, At
<1>3. QED
  BY <1>1, <1>2, SendStep, ReceiveStep, FailStep, LoseStep, DeleteStep, SettleStep,
     RestartStep
  DEF Next

\* The invariant of the sessions.
THEOREM SessionsInvariant == Spec => [](SessionsInv /\ LateInv)
<1>1. Init => LateInv  BY DEF Init, LateInv
<1>2. SessionsInv /\ LateInv /\ [Next]_vars => SessionsInv' /\ LateInv'
  BY SessionsSteps, LateStep
<1>3. QED  BY <1>1, <1>2, SessionsStart, PTL DEF Spec

\* No cookie names a session whose row was never inserted.
THEOREM SessionsTyping == Spec => []TypeOK
<1>1. SessionsInv /\ LateInv => TypeOK
  BY DEF SessionsInv, LateInv, TypeOK, Own, Earned
<1>2. QED  BY <1>1, SessionsInvariant, PTL

\* Only a login that binds an administrator makes a session one that administers,
\* however many requests overlap and whatever fails.
THEOREM AdminIsEarned == Spec => []AdminNeedsAdminLogin
<1>1. SessionsInv => AdminNeedsAdminLogin
  BY DEF SessionsInv, AdminNeedsAdminLogin, Own, At, Permitted
<1>2. QED  BY <1>1, SessionsInvariant, PTL

\* The row and the claims are about one user, unless a login was disturbed.
THEOREM AdminIsOneUser == Spec => []AdminIsAdministrator
<1>1. SessionsInv => AdminIsAdministrator
  <2> SUFFICES ASSUME SessionsInv, ~disturbed, NEW r \in Requests, At(r, "manage")
               PROVE  req[r].session.user_id \in Admins
    BY DEF AdminIsAdministrator
  <2>1. /\ req[r].session \in SessionType /\ Permitted(req[r].session)
        /\ Calm(rows, req[r]) /\ req[r].pc = "manage"
    BY DEF SessionsInv, Quiet, Own, At
  <2>2. QED  BY <2>1 DEF Permitted, Calm, SessionType
<1>2. QED  BY <1>1, SessionsInvariant, PTL

=============================================================================
