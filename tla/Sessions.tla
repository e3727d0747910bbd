------------------------------ MODULE Sessions ------------------------------
(***************************************************************************)
(* Sessions: the rows of the table sessions, the claims that the cookie      *)
(* carries under the server's secret, and what the extractors Session and    *)
(* AdminSession make of the two (server/src/api/v1/auth.rs).  user_id is read *)
(* from the row, is_admin from the claims; a login writes both, the claims    *)
(* into the response's cookie jar before the row's update and its commit      *)
(* (complete() in api/v1/executor.rs:324-337).                               *)
(*                                                                         *)
(* One browser sends overlapping requests: to look around, to log in and to   *)
(* administer.  Handlers fail or are timed out, answers are lost, rows are    *)
(* deleted, and the server is restarted with the same or with another secret. *)
(* What a login is about was settled before: here any user may be bound in a  *)
(* session that was there before the request.  That the user's own password   *)
(* was verified is FlowExecution's LoginVerified, and no more than that says: *)
(* it needs submissions that do not overlap.                                  *)
(***************************************************************************)
EXTENDS Naturals, FiniteSets

CONSTANTS
  Requests,      \* the browser's requests, each used again and again
  Users, Admins,
  NoUser, None,
  MaxSessions,   \* bound on the sessions that are created
  MaxFaults      \* bound on faults

ASSUME SessionsAssumption ==
  /\ Admins \subseteq Users
  /\ NoUser \notin Users
  /\ MaxSessions \in Nat
  /\ MaxFaults \in Nat

VARIABLES
  secret,    \* which secret the server was started with
  rows,      \* sessions: the user of each, NoUser, or None when there is no row
  made,      \* how many sessions were created; they are numbered
  jar,       \* the browser's session cookie, or None
  req,       \* the requests
  late,      \* updates whose COMMIT was sent by a handler that is gone
  admined,   \* the sessions in which complete() has met an administrator
  disturbed, \* whether a login overlapped another request, or was broken off
             \* between its cookie and its commit or between its commit and its answer
  faults     \* faults so far

vars == <<secret, rows, made, jar, req, late, admined, disturbed, faults>>
store == <<secret, rows, made, late>>
history == <<admined, disturbed>>

Sids == 1 .. MaxSessions
Kinds == {"view", "login", "admin"}

\* Claims, signed: the fields that anything reads.
Cookies == [secret : 0 .. MaxFaults, sid : Sids, is_admin : BOOLEAN]

\* Session
SessionType == [session_id : Sids, user_id : Users \cup {NoUser}, is_admin : BOOLEAN]

RequestType ==
  [pc : {"idle", "auth", "extract", "create", "handle", "manage", "commit", "answered"},
   kind : Kinds,
   cookie : Cookies \cup {None},         \* as it was sent
   session : SessionType \cup {None},
   who : Users \cup {NoUser},            \* the user a login is about
   set : Cookies \cup {None}]            \* the cookie the response sets

Idle ==
  [pc |-> "idle", kind |-> "view", cookie |-> None, session |-> None, who |-> NoUser,
   set |-> None]

ASSUME NoneAssumption == None \notin Cookies /\ None \notin Users \cup {NoUser}

InFlight(r) == req[r].pc # "idle"
At(r, pc) == req[r].pc = pc

\* The response to x, whatever it says: what matters of it is the cookie it sets.
Answered(x) == [Idle EXCEPT !.pc = "answered", !.kind = x.kind, !.set = x.set]

Init ==
  /\ secret = 0
  /\ rows = [sid \in Sids |-> None]
  /\ made = 0
  /\ jar = None
  /\ req = [r \in Requests |-> Idle]
  /\ late = {}
  /\ admined = {}
  /\ disturbed = FALSE
  /\ faults = 0

-----------------------------------------------------------------------------
(* The handlers *)

\* The handler of r goes on with x.
Become(r, x) == req' = [req EXCEPT ![r] = x] /\ UNCHANGED <<jar, faults>>

\* A request is sent with the cookie the browser has.
Send(r, kind) ==
  /\ At(r, "idle")
  /\ req' = [req EXCEPT ![r] = [Idle EXCEPT !.pc = "auth", !.kind = kind, !.cookie = jar]]
  /\ disturbed' = (disturbed \/ \E other \in Requests \ {r} :
                      InFlight(other) /\ "login" \in {kind, req[other].kind})
  /\ UNCHANGED <<store, jar, admined, faults>>

\* handle_auth: no cookie is no error, one that the secret does not fit is; the
\* answer to it sets no cookie.
Authenticate(r) ==
  /\ At(r, "auth")
  /\ LET cookie == req[r].cookie
     IN  IF cookie # None /\ cookie.secret # secret
         THEN Become(r, Answered(req[r]))
         ELSE Become(r, [req[r] EXCEPT !.pc = "extract"])
  /\ UNCHANGED <<store, history>>

\* Mutant of Extract: a cookie without its row is refused.
ExtractStrictly(r) ==
  /\ At(r, "extract")
  /\ LET cookie == req[r].cookie
     IN  Become(r,
           CASE cookie = None -> [req[r] EXCEPT !.pc = "create"]
             [] cookie # None /\ rows[cookie.sid] = None -> Answered(req[r])
             [] OTHER -> [req[r] EXCEPT !.pc = "handle", !.session =
                            [session_id |-> cookie.sid, user_id |-> rows[cookie.sid],
                             is_admin |-> cookie.is_admin]])
  /\ UNCHANGED <<store, history>>

\* Session::from_request_parts reads the row; without cookie or row it goes on to
\* make_new_session.
Extract(r) ==
  /\ At(r, "extract")
  /\ LET cookie == req[r].cookie
     IN  Become(r,
           IF cookie = None \/ rows[cookie.sid] = None
           THEN [req[r] EXCEPT !.pc = "create"]
           ELSE [req[r] EXCEPT !.pc = "handle", !.session =
                   [session_id |-> cookie.sid, user_id |-> rows[cookie.sid],
                    is_admin |-> cookie.is_admin]])
  /\ UNCHANGED <<store, history>>

NewSession(sid) == [session_id |-> sid, user_id |-> NoUser, is_admin |-> FALSE]
NewCookie(sid) == [secret |-> secret, sid |-> sid, is_admin |-> FALSE]

\* Mutant of Create: the cookie is set, but the row is not inserted.
CreateUnstored(r) ==
  /\ At(r, "create")
  /\ made < MaxSessions
  /\ Become(r, [req[r] EXCEPT !.pc = "handle", !.session = NewSession(made + 1),
                              !.set = NewCookie(made + 1)])
  /\ UNCHANGED <<store, history>>

\* make_new_session: the row, then the cookie.
Create(r) ==
  /\ At(r, "create")
  /\ made < MaxSessions
  /\ made' = made + 1
  /\ rows' = [rows EXCEPT ![made'] = NoUser]
  /\ Become(r, [req[r] EXCEPT !.pc = "handle", !.session = NewSession(made'),
                              !.set = NewCookie(made')])
  /\ UNCHANGED <<secret, late, history>>

\* user_info, get_flow and others that only need the session.
View(r) ==
  /\ At(r, "handle")
  /\ req[r].kind = "view"
  /\ Become(r, Answered(req[r]))
  /\ UNCHANGED <<store, history>>

\* Mutant of Permitted: either is enough.
PermittedEither(session) == session.user_id # NoUser \/ session.is_admin

\* AdminSession::from_request_parts
Permitted(session) == session.user_id # NoUser /\ session.is_admin

Administer(r) ==
  /\ At(r, "handle")
  /\ req[r].kind = "admin"
  /\ Become(r, IF Permitted(req[r].session)
               THEN [req[r] EXCEPT !.pc = "manage"] ELSE Answered(req[r]))
  /\ UNCHANGED <<store, history>>

\* The handler of the policy API; see PolicyApi.
Manage(r) ==
  /\ At(r, "manage")
  /\ Become(r, Answered(req[r]))
  /\ UNCHANGED <<store, history>>

\* post_flow finds no execution of a session that was just created.
LoginRefused(r) ==
  /\ At(r, "handle")
  /\ req[r].kind = "login"
  /\ req[r].set # None
  /\ Become(r, Answered(req[r]))
  /\ UNCHANGED <<store, history>>

\* Mutant of LoginClaims: the claim of an earlier login stays.
LoginClaimsKept(cookie, user) ==
  [cookie EXCEPT !.secret = secret, !.is_admin = @ \/ user \in Admins]

\* The request's claims, of the user who has logged in, signed again.
LoginClaims(cookie, user) ==
  [cookie EXCEPT !.secret = secret, !.is_admin = user \in Admins]

\* complete() at a UserLogin stage: the claims of whoever is the pending user of the
\* execution go into the jar, is_admin with them.
SetClaims(r) ==
  /\ At(r, "handle")
  /\ req[r].kind = "login"
  /\ req[r].set = None
  /\ \E user \in Users :
       /\ Become(r, [req[r] EXCEPT !.pc = "commit", !.who = user,
                                   !.set = LoginClaims(req[r].cookie, user)])
       /\ admined' = IF user \in Admins
                      THEN admined \cup {req[r].session.session_id} ELSE admined
  /\ UNCHANGED <<store, disturbed>>

\* The update of a login; that of a deleted row changes nothing.
Update(r) == [sid |-> req[r].session.session_id, who |-> req[r].who]
Applied(update) ==
  IF rows[update.sid] = None THEN rows ELSE [rows EXCEPT ![update.sid] = update.who]

\* A transaction that has not ended keeps the lock of the row it has updated.
Locked(sid) == \E update \in late : update.sid = sid

\* r's transaction comes to its COMMIT.
AtCommit(r) == At(r, "commit") /\ ~Locked(req[r].session.session_id)

\* The update and its commit.  The update waits for the row lock of another one, so
\* updates of a row take effect in the order of their commits.
Commit(r) ==
  /\ AtCommit(r)
  /\ rows' = Applied(Update(r))
  /\ Become(r, Answered(req[r]))
  /\ UNCHANGED <<secret, made, late, history>>

\* The browser takes the answer, and the cookie with it.
Receive(r) ==
  /\ At(r, "answered")
  /\ jar' = IF req[r].set = None THEN jar ELSE req[r].set
  /\ req' = [req EXCEPT ![r] = Idle]
  /\ UNCHANGED <<store, history, faults>>

-----------------------------------------------------------------------------
(* Faults *)

Fault == faults < MaxFaults /\ faults' = faults + 1

\* A query fails or the timeout elapses.  The response still passes the cookie
\* layer, which is outside of the timeout, with whatever is in the jar.  What is not
\* committed is rolled back; when only COMMIT's answer is missing, it was carried out
\* or will be.
Fail(r) ==
  /\ Fault
  /\ req[r].pc \in {"extract", "create", "handle", "manage", "commit"}
  /\ req' = [req EXCEPT ![r] = Answered(@)]
  /\ \/ UNCHANGED <<rows, late>> /\ disturbed' = (disturbed \/ At(r, "commit"))
     \/ AtCommit(r) /\ rows' = Applied(Update(r)) /\ UNCHANGED <<late, disturbed>>
     \/ AtCommit(r) /\ late' = late \cup {Update(r)} /\ disturbed' = TRUE /\ UNCHANGED rows
  /\ UNCHANGED <<secret, made, jar, admined>>

\* The database ends what it was sent.
Settle(update) ==
  /\ late' = late \ {update}
  /\ rows' = Applied(update)
  /\ UNCHANGED <<secret, made, jar, req, history, faults>>

LoginAnswered(r) == At(r, "answered") /\ req[r].kind = "login"

\* Whose COMMIT may have been sent: of the updates of a row all but one wait.
Committing ==
  {sent \in SUBSET {r \in Requests : AtCommit(r)} :
     \A r, s \in sent : Update(r).sid = Update(s).sid => r = s}

\* The requests of gone are dropped: those of sent had sent their COMMIT, and answers
\* that were on their way to the browser are lost.
Dropped(gone, sent) ==
  /\ late' = late \cup {Update(r) : r \in sent}
  /\ disturbed' = (disturbed \/ sent # {} \/ \E r \in gone : LoginAnswered(r))

\* The connection is closed; a handler that is still running is dropped.
Lose(r) ==
  /\ Fault
  /\ InFlight(r)
  /\ req' = [req EXCEPT ![r] = Idle]
  /\ \E sent \in Committing : sent \subseteq {r} /\ Dropped({r}, sent)
  /\ UNCHANGED <<secret, rows, made, jar, admined>>

\* Rows are deleted by hand: the code only expects that it happens.
Delete(sid) ==
  /\ Fault
  /\ rows[sid] # None /\ ~Locked(sid)
  /\ rows' = [rows EXCEPT ![sid] = None]
  /\ UNCHANGED <<secret, made, jar, req, late, history>>

\* The server is started again, with the secret its configuration then has.
Restart ==
  /\ Fault
  /\ secret' \in {secret, secret + 1}
  /\ req' = [r \in Requests |-> Idle]
  /\ \E sent \in Committing : Dropped(Requests, sent)
  /\ UNCHANGED <<rows, made, jar, admined>>

-----------------------------------------------------------------------------
(* Specification *)

Handle(r) ==
  \/ Authenticate(r) \/ Extract(r) \/ Create(r)
  \/ View(r) \/ Administer(r) \/ Manage(r)
  \/ LoginRefused(r) \/ SetClaims(r) \/ Commit(r)

Next ==
  \/ \E r \in Requests :
       \/ \E kind \in Kinds : Send(r, kind)
       \/ Handle(r) \/ Receive(r) \/ Fail(r) \/ Lose(r)
  \/ \E sid \in Sids : Delete(sid)
  \/ \E update \in late : Settle(update)
  \/ Restart

Spec == Init /\ [][Next]_vars

\* The browser looks again and again, handlers are scheduled and answers arrive; the
\* database ends every transaction; faults come to an end by their bound.
FairSpec ==
  /\ Spec
  /\ \A r \in Requests : WF_vars(Send(r, "view") \/ Handle(r) \/ Receive(r))
  /\ WF_vars(\E update \in late : Settle(update))

-----------------------------------------------------------------------------
(* Properties *)

\* Every session that a cookie or a request names has been created: no cookie is
\* set for a session whose row was never inserted.
TypeOK ==
  /\ secret \in 0 .. MaxFaults
  /\ rows \in [Sids -> Users \cup {NoUser, None}]
  /\ made \in 0 .. MaxSessions
  /\ jar \in Cookies \cup {None}
  /\ req \in [Requests -> RequestType]
  /\ \A cookie \in {jar} \cup {req[r].set : r \in Requests} :
       cookie # None => cookie.sid <= made
  /\ \A update \in late : update.sid \in Sids /\ update.who \in Users
  /\ admined \subseteq Sids
  /\ disturbed \in BOOLEAN
  /\ faults \in 0 .. MaxFaults

\* Nobody administers in a session in which no login was about an administrator:
\* whatever fails, is lost or overlaps, is_admin reaches a cookie only in complete(),
\* from the user it has just bound, and a cookie stays with its session.  It is not
\* that the administrator's own password was verified: when submissions overlap, one
\* that identifies an administrator between another's check of a password
\* (api/v1/executor.rs:224) and its mark (255) has that user marked, and 330 copies
\* the user's is_admin.
AdminNeedsAdminLogin ==
  \A r \in Requests : At(r, "manage") =>
    req[r].session.session_id \in admined

\* Who administers is an administrator: user_id and is_admin are about one user,
\* although they are read from the row and from the cookie, as long as no login is
\* overlapped by another request or broken off between its cookie and its commit
\* or between its commit and its answer (auth.rs:292).
AdminIsAdministrator ==
  ~disturbed =>
    \A r \in Requests : At(r, "manage") => req[r].session.user_id \in Admins

\* A browser without a cookie, or with one whose row is gone, comes to have a
\* session; only a cookie under another secret, which nothing clears, keeps it out.
Served == jar # None /\ (jar.secret # secret \/ rows[jar.sid] # None)
SessionObtained == ~Served ~> Served

=============================================================================
