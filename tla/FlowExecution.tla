---------------------------- MODULE FlowExecution ----------------------------
(***************************************************************************)
(* One flow execution (server/src/executor/flow.rs) of one session, shared  *)
(* by the GET and POST requests that server/src/api/v1/executor.rs handles  *)
(* concurrently.  The execution lives in memory behind an Arc: a mutex      *)
(* around current_entry_idx, an atomic is_completed and a read-write lock   *)
(* around the context (pending user, error).  What a login leaves behind    *)
(* lives elsewhere: the user_id of the session's row, written by the        *)
(* request's transaction, and the claims of the session cookie, written to  *)
(* the response.                                                            *)
(*                                                                         *)
(* A request is a process whose program points are named below.  A step     *)
(* ends at an access to shared state or at an await of the database.  The   *)
(* context's read guard is explicit: ReadContext takes it, the step at that *)
(* program point drops it, and a writer (use_mut_context) that meets a      *)
(* reader panics.  A request whose future is dropped at an await (the one   *)
(* second timeout, a closed connection) or whose query fails leaves what it *)
(* did in memory and loses its transaction.                                 *)
(*                                                                         *)
(* What users type is not kept: each lookup and each verification chooses   *)
(* its outcome.                                                             *)
(***************************************************************************)
EXTENDS FlowCheck, FiniteSets

CONSTANTS
  Requests,        \* the requests a browser sends, each sent at most once
  Methods,         \* the methods they may have, a subset of {"GET", "POST"}
  MaxInFlight,     \* bound on the requests being handled at the same time
  MaxPosting,      \* bound on the POSTs among them
  Flows,           \* the flows the execution may have been started for
  IterationLimit,  \* complete() gives up when iterations exceed it (40)
  Unreliable       \* whether awaits may fail or be abandoned

ASSUME ExecutionAssumption ==
  /\ Methods \subseteq {"GET", "POST"}
  /\ MaxInFlight \in Nat \ {0}
  /\ MaxPosting \in Nat
  /\ IterationLimit \in Nat
  /\ Unreliable \in BOOLEAN
  /\ \A f \in Flows :
       /\ Len(f.entries) \in Nat \ {0}
       /\ \A i \in 1 .. Len(f.entries) :
            LET bindings == f.entries[i].bindings
            IN  /\ f.entries[i].stage \in Stages
                /\ Len(bindings) \in Nat /\ DOMAIN bindings = 1 .. Len(bindings)

VARIABLES
  flow, idx, is_completed,       \* FlowExecutionInternal
  pending, error,                \* its ExecutionContext
  cached,                        \* the executor's cache still holds it
  user_id,                       \* sessions.user_id, as committed
  cookie,                        \* sub of the claims in the browser's cookie
  req,                           \* what each request knows
  \* History: the users whose password was verified; the entries completed by a
  \* request working on them; whether two POSTs were in flight together; whether
  \* a submission was lost after its complete_current, or a login's response was.
  verified, passed, overlap, faulted

execution == <<flow, idx, is_completed>>
context == <<pending, error>>
durable == <<user_id, cookie>>
history == <<verified, passed, overlap, faulted>>
vars == <<flow, idx, is_completed, pending, error, cached, user_id, cookie,
          req, verified, passed, overlap, faulted>>

-----------------------------------------------------------------------------
(* Program points *)

\* Program points that read the context: the guard is taken by ReadContext and
\* dropped by the step at the program point.
ReadPoints ==
  {"context", "stage", "password_stage", "pending", "loop_stage", "login",
   "data_stage", "component", "data_pending"}

\* Program points that call use_mut_context.
WritePoints == {"identify", "authenticate", "set_error"}

\* Program points waiting for the database, see also Awaiting.
AwaitPoints == {"session", "user", "lookup_user", "password", "update", "commit"}

ProgramPoints ==
  ReadPoints \cup WritePoints \cup AwaitPoints \cup
  {"unsent", "execution", "check", "check_entry", "check_bindings",
   "submission", "handle_entry", "advance", "loop", "loop_entry",
   "data_entry", "data_completed", "answer", "respond", "done"}

\* Between the check that let a submission through and the end of its handling.
HandlePoints ==
  {"stage", "lookup_user", "identify", "password_stage", "pending", "password",
   "authenticate"}

\* After a submission's complete_current, before its commit has returned.
AdvancedPoints ==
  {"loop", "loop_entry", "loop_stage", "login", "set_error", "update", "commit"}

Outcomes ==
  {"none", "not_found", "failed", "denied", "error", "component", "next",
   "redirect", "locked", "panicked"}

-----------------------------------------------------------------------------
(* State *)

\* Option<PendingUser>; uid = NoUser is None.  The other fields of a pending
\* user are copied from the users row.
Pendings == [uid : MaybeUser, authenticated : BOOLEAN]
NoPending == [uid |-> NoUser, authenticated |-> FALSE]

Entries == 1 .. Len(flow.entries)
Stage(i) == flow.entries[i].stage

\* What a request's handler holds.
RequestStates ==
  [pc         : ProgramPoints,
   method     : {"GET", "POST"},
   reading    : BOOLEAN,              \* it holds the context's read guard
   user       : MaybeUser,            \* the session's user, as extracted
   checked    : Entries \cup {0},     \* the entry whose bindings were checked
   entry      : Entries \cup {0},     \* the entry it works on, 0 for none
   found      : MaybeUser,            \* the result of lookup_user
   snap       : Pendings,             \* its clone of the pending user
   completed  : BOOLEAN,              \* data()'s load of is_completed
   in_data    : BOOLEAN,              \* data() is running
   jar        : MaybeUser,            \* sub of the cookie added to the response
   tx         : MaybeUser,            \* user_id as written by its transaction
   iterations : Nat,                  \* those of complete()
   outcome    : Outcomes]

Blank ==
  [pc |-> "unsent", method |-> "GET", reading |-> FALSE, user |-> NoUser,
   checked |-> 0, entry |-> 0, found |-> NoUser, snap |-> NoPending,
   completed |-> FALSE, in_data |-> FALSE, jar |-> NoUser, tx |-> NoUser,
   iterations |-> 0, outcome |-> "none"]

InFlight(r) == req[r].pc \notin {"unsent", "done"}
Posting(r) == InFlight(r) /\ req[r].method = "POST"

\* The entry a request works on, as a stage.
StageOf(r) == Stage(req[r].entry)

\* The policies of a list of bindings are looked up in the context's storage.
ReadPoint(r) ==
  \/ req[r].pc \in ReadPoints
  \/ /\ req[r].pc = "check"
     /\ Holds(AuthenticationOutput(flow.authentication, req[r].user))
     /\ ReadsPolicy(flow.bindings)
  \/ /\ req[r].pc = "check_bindings"
     /\ ReadsPolicy(flow.entries[req[r].checked].bindings)

\* r is at program point p and holds the read guard p needs.
At(r, p) == req[r].pc = p /\ (ReadPoint(r) => req[r].reading)

\* r waits for the database, at its program point or, the guard already dropped,
\* for the syntax tree of an expression policy.
Awaiting(r) ==
  \/ req[r].pc \in AwaitPoints
  \/ /\ At(r, "check")
     /\ Holds(AuthenticationOutput(flow.authentication, req[r].user))
     /\ AwaitsPolicy(flow.bindings, req[r].user)
  \/ /\ At(r, "check_bindings")
     /\ AwaitsPolicy(flow.entries[req[r].checked].bindings, req[r].user)

\* try_write succeeds.
Unread == \A q \in Requests : ~req[q].reading

\* Request r now holds x.
Become(r, x) == req' = [req EXCEPT ![r] = x]

\* The handler goes on at p; a guard held until now is dropped.
Go(r, p) == Become(r, [req[r] EXCEPT !.pc = p, !.reading = FALSE])

\* The handler returns: its transaction, unless committed, is rolled back.
Return(r, outcome) ==
  Become(r, [req[r] EXCEPT !.pc = "respond", !.reading = FALSE, !.tx = NoUser,
                           !.outcome = outcome])

\* The request's future is gone, and with it the response and the guard.
Dropped(outcome) == [Blank EXCEPT !.pc = "done", !.outcome = outcome]

Init ==
  /\ flow \in Flows
  /\ idx = 1
  /\ is_completed = FALSE
  /\ pending = NoPending
  /\ error = FALSE
  /\ cached = TRUE
  /\ user_id = NoUser
  /\ cookie = NoUser
  /\ req = [r \in Requests |-> Blank]
  /\ verified = {}
  /\ passed = {}
  /\ overlap = FALSE
  /\ faulted = FALSE

-----------------------------------------------------------------------------
(* Receiving a request: the extractors, the cache and the check context *)

\* The browser sends a request.
Send(r) ==
  /\ req[r].pc = "unsent"
  /\ Cardinality({q \in Requests : InFlight(q)}) < MaxInFlight
  /\ \E m \in Methods :
       /\ Become(r, [req[r] EXCEPT !.pc = "session", !.method = m])
       /\ m = "POST" => Cardinality({q \in Requests : Posting(q)}) < MaxPosting
       /\ overlap' = (overlap \/ (m = "POST" /\ \E q \in Requests : Posting(q)))
  /\ UNCHANGED <<execution, context, cached, durable, verified, passed, faulted>>

\* The Session extractor reads the session's row.
ExtractSession(r) ==
  /\ At(r, "session")
  /\ Become(r, [req[r] EXCEPT !.pc = "execution", !.user = user_id])
  /\ UNCHANGED <<execution, context, cached, durable, history>>

\* get_execution: a POST without a cached execution is not found.  A GET would
\* start another execution, with which this module has nothing to do; only that
\* start awaits anything, so no request can be given up here.
GetExecution(r) ==
  /\ At(r, "execution")
  /\ IF cached THEN Go(r, "user") ELSE Return(r, "not_found")
  /\ UNCHANGED <<execution, context, cached, durable, history>>

\* A connection, for a POST also BEGIN, and session.get_user: the users row of
\* the user extracted before.
GetUser(r) ==
  /\ At(r, "user")
  /\ Go(r, "context")
  /\ UNCHANGED <<execution, context, cached, durable, history>>

\* get_check_context clones the pending user for the policies' scope.
GetCheckContext(r) ==
  /\ At(r, "context")
  /\ Go(r, IF req[r].method = "POST" THEN "check" ELSE "data_entry")
  /\ UNCHANGED <<execution, context, cached, durable, history>>

-----------------------------------------------------------------------------
(* FlowExecution::check, called by post_flow and by data() *)

\* What a check leads to.  post_flow goes on only when the check passes; data()
\* goes on to the component when it passes or the execution is completed.
Decide(r, verdict) ==
  CASE verdict = "todo" -> Become(r, Dropped("panicked"))
    [] verdict = "pass" -> Go(r, IF req[r].in_data THEN "answer" ELSE "submission")
    [] verdict = "deny" /\ ~req[r].in_data -> Go(r, "data_entry")
    [] OTHER -> IF req[r].completed THEN Go(r, "answer") ELSE Return(r, "denied")

\* The flow's authentication requirement and bindings.
Check(r) ==
  /\ At(r, "check")
  /\ \E ast \in Evaluations :
       LET verdict == CheckFlow(flow, req[r].user, ast)
       IN  IF verdict = "pass" THEN Go(r, "check_entry") ELSE Decide(r, verdict)
  /\ UNCHANGED <<execution, context, cached, durable, history>>

\* Mutant of CheckEntry: the bindings of the flow's first entry are checked.
CheckFirstEntry(r) ==
  /\ At(r, "check_entry")
  /\ Become(r, [req[r] EXCEPT !.pc = "check_bindings", !.checked = 1])
  /\ UNCHANGED <<execution, context, cached, durable, history>>

\* get_entry as check() calls it.
CheckEntry(r) ==
  /\ At(r, "check_entry")
  /\ Become(r, [req[r] EXCEPT !.pc = "check_bindings", !.checked = idx])
  /\ UNCHANGED <<execution, context, cached, durable, history>>

\* The bindings of the entry that was current at CheckEntry.
CheckEntryBindings(r) ==
  /\ At(r, "check_bindings")
  /\ \E ast \in Evaluations :
       Decide(r, CheckBindings(flow.entries[req[r].checked].bindings,
                               req[r].user, ast))
  /\ UNCHANGED <<execution, context, cached, durable, history>>

-----------------------------------------------------------------------------
(* handle_submission and handle_stage *)

HandleSubmission(r) ==
  /\ At(r, "submission")
  /\ Go(r, IF is_completed THEN "advance" ELSE "handle_entry")
  /\ UNCHANGED <<execution, context, cached, durable, history>>

GetEntry(r) ==
  /\ At(r, "handle_entry")
  /\ Become(r, [req[r] EXCEPT !.pc = "stage", !.entry = idx])
  /\ UNCHANGED <<execution, context, cached, durable, history>>

\* Mutant of Refuse: the error is dropped and the submission counts as accepted.
RefuseIgnored(r) == Go(r, "advance")

\* The form is refused: SubmissionError, answered with data(Some(err)).
Refuse(r) == Go(r, "data_entry")

\* Only identification and password stages look at the form; every other stage
\* accepts any submission.  An identification without uid is refused.
HandleStage(r) ==
  /\ At(r, "stage")
  /\ CASE StageOf(r).kind = "Identification" -> Go(r, "lookup_user") \/ Refuse(r)
       [] StageOf(r).kind = "Password" -> Go(r, "pending")
       [] OTHER -> Go(r, "advance")
  /\ UNCHANGED <<execution, context, cached, durable, history>>

LookupUser(r) ==
  /\ At(r, "lookup_user")
  /\ \/ \E u \in Users :
          Become(r, [req[r] EXCEPT !.pc = "identify", !.found = u])
     \/ Refuse(r)
  /\ UNCHANGED <<execution, context, cached, durable, history>>

\* Mutant of Identify: the mark of the user pending before is kept.
IdentifyKeepingMark(r) ==
  /\ At(r, "identify")
  /\ Unread
  /\ pending' = [pending EXCEPT !.uid = req[r].found]
  /\ Go(r, IF StageOf(r).password # "none" THEN "password_stage" ELSE "advance")
  /\ UNCHANGED <<execution, error, cached, durable, history>>

\* The user found becomes the pending user, not authenticated.
Identify(r) ==
  /\ At(r, "identify")
  /\ Unread
  /\ pending' = [uid |-> req[r].found, authenticated |-> FALSE]
  /\ Go(r, IF StageOf(r).password # "none" THEN "password_stage" ELSE "advance")
  /\ UNCHANGED <<execution, error, cached, durable, history>>

\* lookup_stage of the stage embedded in an identification stage; one that is not
\* a password stage is unreachable!().
LookupPasswordStage(r) ==
  /\ At(r, "password_stage")
  /\ \/ StageOf(r).password = "password" /\ Go(r, "pending")
     \/ StageOf(r).password # "password" /\ Become(r, Dropped("panicked"))
  /\ UNCHANGED <<execution, context, cached, durable, history>>

\* handle_password_stage up to its query: clones the pending user; refused
\* without one, without a password or when no backend is the internal one.
ReadPending(r) ==
  /\ At(r, "pending")
  /\ \/ /\ pending.uid # NoUser
        /\ StageOf(r).internal
        /\ Become(r, [req[r] EXCEPT !.pc = "password", !.reading = FALSE,
                                    !.snap = pending])
     \/ Refuse(r)
  /\ UNCHANGED <<execution, context, cached, durable, history>>

\* Mutant of VerifyPassword: a wrong password counts as a right one.
VerifyAnyPassword(r) ==
  /\ At(r, "password")
  /\ Go(r, "authenticate")
  /\ UNCHANGED <<execution, context, cached, durable, history>>

\* The stored hash of the cloned user is fetched and the password verified.
VerifyPassword(r) ==
  /\ At(r, "password")
  /\ \/ /\ Go(r, "authenticate")
        /\ verified' = verified \cup {req[r].snap.uid}
     \/ Refuse(r) /\ UNCHANGED verified
  /\ UNCHANGED <<execution, context, cached, durable, passed, overlap, faulted>>

\* The user pending now is marked, whoever that is.
Authenticate(r) ==
  /\ At(r, "authenticate")
  /\ Unread
  /\ pending' = IF pending.uid = NoUser THEN pending
                ELSE [pending EXCEPT !.authenticated = TRUE]
  /\ Go(r, "advance")
  /\ UNCHANGED <<execution, error, cached, durable, history>>

\* use_mut_context panics: another request holds the read guard.
ContextLocked(r) ==
  /\ req[r].pc \in WritePoints
  /\ ~Unread
  /\ Become(r, Dropped("locked"))
  /\ faulted' = (faulted \/ req[r].pc \in AdvancedPoints)
  /\ UNCHANGED <<execution, context, cached, durable, verified, passed, overlap>>

-----------------------------------------------------------------------------
(* complete_current and complete() *)

\* Mutants of CompleteCurrent: the end of the entries is not noticed; the entry
\* after the next one becomes current.
CompleteCurrentUnbounded == idx' = idx + 1 /\ UNCHANGED is_completed
CompleteCurrentTwice ==
  IF idx + 2 \in Entries
    THEN idx' = idx + 2 /\ UNCHANGED is_completed
    ELSE is_completed' = TRUE /\ UNCHANGED idx

CompleteCurrent ==
  IF idx + 1 \in Entries
    THEN idx' = idx + 1 /\ UNCHANGED is_completed
    ELSE is_completed' = TRUE /\ UNCHANGED idx

\* Called after an accepted submission and at the end of each turn of the loop.
Advance(r) ==
  /\ At(r, "advance")
  /\ CompleteCurrent
  /\ passed' = IF req[r].entry = idx THEN passed \cup {idx} ELSE passed
  /\ Go(r, "loop")
  /\ UNCHANGED <<flow, context, cached, durable, verified, overlap, faulted>>

Loop(r) ==
  /\ At(r, "loop")
  /\ Go(r, IF is_completed THEN "commit" ELSE "loop_entry")
  /\ UNCHANGED <<execution, context, cached, durable, history>>

LoopEntry(r) ==
  /\ At(r, "loop_entry")
  /\ Become(r, [req[r] EXCEPT !.pc = "loop_stage", !.entry = idx])
  /\ UNCHANGED <<execution, context, cached, durable, history>>

\* Mutant of EndLoop: continue for break.
ContinueLoop(r) == Go(r, "loop")

EndLoop(r) == Go(r, "commit")

\* Stages that need input, and a loop that runs for too long, end complete().
LoopStage(r) ==
  /\ At(r, "loop_stage")
  /\ \/ /\ RequiresInput(StageOf(r)) \/ req[r].iterations > IterationLimit
        /\ EndLoop(r)
        /\ UNCHANGED faulted
     \/ /\ ~RequiresInput(StageOf(r)) /\ req[r].iterations <= IterationLimit
        /\ StageOf(r).kind = "UserLogin"
        /\ Become(r, [req[r] EXCEPT !.pc = "login", !.reading = FALSE,
                                    !.iterations = req[r].iterations + 1])
        /\ UNCHANGED faulted
     \/ /\ ~RequiresInput(StageOf(r)) /\ req[r].iterations <= IterationLimit
        /\ StageOf(r).kind # "UserLogin"      \* todo!()
        /\ Become(r, Dropped("panicked"))
        /\ faulted' = TRUE
  /\ UNCHANGED <<execution, context, cached, durable, verified, passed, overlap>>

\* A UserLogin stage without a pending user fails the request; with one that is
\* not authenticated it sets the error; otherwise the session cookie's claims
\* are replaced in the response's jar.
UserLogin(r) ==
  /\ At(r, "login")
  /\ \/ pending.uid = NoUser /\ Return(r, "failed")
     \/ pending.uid # NoUser /\ ~pending.authenticated /\ Go(r, "set_error")
     \/ /\ pending.uid # NoUser /\ pending.authenticated
        /\ Become(r, [req[r] EXCEPT !.pc = "update", !.reading = FALSE,
                                    !.snap = pending, !.jar = pending.uid])
  /\ UNCHANGED <<execution, context, cached, durable, history>>

SetError(r) ==
  /\ At(r, "set_error")
  /\ Unread
  /\ error' = TRUE
  /\ EndLoop(r)
  /\ UNCHANGED <<execution, pending, cached, durable, history>>

\* update sessions set user_id: waits for the row lock of a transaction that
\* has updated the row and not ended.
UpdateSession(r) ==
  /\ At(r, "update")
  /\ \A q \in Requests \ {r} : req[q].tx = NoUser
  /\ Become(r, [req[r] EXCEPT !.pc = "advance", !.tx = req[r].snap.uid])
  /\ UNCHANGED <<execution, context, cached, durable, history>>

\* Mutant of Commit: the transaction is dropped without commit().
CommitForgotten(r) ==
  /\ At(r, "commit")
  /\ Return(r, "redirect")
  /\ UNCHANGED <<execution, context, cached, durable, history>>

Commit(r) ==
  /\ At(r, "commit")
  /\ user_id' = IF req[r].tx = NoUser THEN user_id ELSE req[r].tx
  /\ Return(r, "redirect")
  /\ UNCHANGED <<execution, context, cached, cookie, history>>

-----------------------------------------------------------------------------
(* FlowExecution::data *)

DataEntry(r) ==
  /\ At(r, "data_entry")
  /\ Become(r, [req[r] EXCEPT !.pc = "data_stage", !.in_data = TRUE, !.entry = idx])
  /\ UNCHANGED <<execution, context, cached, durable, history>>

DataStage(r) ==
  /\ At(r, "data_stage")
  /\ Go(r, "data_completed")
  /\ UNCHANGED <<execution, context, cached, durable, history>>

DataCompleted(r) ==
  /\ At(r, "data_completed")
  /\ Become(r, [req[r] EXCEPT !.pc = "check", !.completed = is_completed])
  /\ UNCHANGED <<execution, context, cached, durable, history>>

\* A completed execution is given up when the query says where to go next.
Answer(r) ==
  /\ At(r, "answer")
  /\ \/ /\ ~req[r].completed
        /\ Go(r, "component")
        /\ UNCHANGED cached
     \/ /\ req[r].completed
        /\ \/ /\ cached' = FALSE
              /\ Become(r, [req[r] EXCEPT !.pc = "data_pending", !.outcome = "next"])
           \/ /\ Become(r, [req[r] EXCEPT !.pc = "data_pending", !.outcome = "error"])
              /\ UNCHANGED cached
  /\ UNCHANGED <<execution, context, durable, history>>

\* The context's error, or the component of the stage looked up by DataStage;
\* the guard is held while the component is built.  Server side stages have no
\* component; those of prompt and consent stages are todo!().
Component(r) ==
  /\ At(r, "component")
  /\ LET shown(o) ==
           Become(r, [req[r] EXCEPT !.pc = "data_pending", !.reading = FALSE,
                                    !.outcome = o])
     IN  CASE error -> shown("error")
           [] ~error /\ StageOf(r).kind \in {"Prompt", "Consent"} ->
                Become(r, Dropped("panicked"))
           [] ~error /\ StageOf(r).kind \in ServerKinds \cup {"Deny"} ->
                shown("denied")
           [] OTHER -> shown("component")
  /\ UNCHANGED <<execution, context, cached, durable, history>>

DataPending(r) ==
  /\ At(r, "data_pending")
  /\ Return(r, req[r].outcome)
  /\ UNCHANGED <<execution, context, cached, durable, history>>

-----------------------------------------------------------------------------
(* The guard, the response, faults, and the specification *)

ReadContext(r) ==
  /\ ReadPoint(r)
  /\ ~req[r].reading
  /\ Become(r, [req[r] EXCEPT !.reading = TRUE])
  /\ UNCHANGED <<execution, context, cached, durable, history>>

\* Mutant of Respond: the jar is not added to the response.
RespondWithoutCookies(r) ==
  /\ At(r, "respond")
  /\ Become(r, [Dropped("none") EXCEPT !.tx = req[r].tx])
  /\ UNCHANGED <<execution, context, cached, durable, history>>

\* The browser takes the response and the cookies of its jar, which the cookie
\* layer adds to every response, also to that of an error.
Respond(r) ==
  /\ At(r, "respond")
  /\ cookie' = IF req[r].jar = NoUser THEN cookie ELSE req[r].jar
  /\ Become(r, [Dropped("none") EXCEPT !.tx = req[r].tx])
  /\ UNCHANGED <<execution, context, cached, user_id, history>>

\* An await fails or takes too long (a response is sent), or the connection to
\* the browser is closed (none is), which also loses a response on its way with
\* the cookie it carries.  The transaction is rolled back, unless its COMMIT is
\* under way: the database will execute that or not, see Settle.
Abort(r) ==
  /\ Unreliable
  /\ LET left == IF req[r].pc \in {"commit", "respond"} THEN req[r].tx ELSE NoUser
     IN  \/ /\ Awaiting(r) \/ req[r].pc = "respond"
            /\ Become(r, [Dropped("none") EXCEPT !.tx = left])
         \/ /\ Awaiting(r)
            /\ Become(r, [req[r] EXCEPT !.pc = "respond", !.reading = FALSE,
                                        !.tx = left, !.outcome = "failed"])
  /\ faulted' = \/ faulted
                \/ req[r].pc \in AdvancedPoints
                \/ req[r].pc = "respond" /\ req[r].jar # NoUser
  /\ UNCHANGED <<execution, context, cached, durable, verified, passed, overlap>>

\* The database ends a transaction whose COMMIT nobody waits for any more.
Settle(r) ==
  /\ req[r].pc \in {"respond", "done"}
  /\ req[r].tx # NoUser
  /\ user_id' \in {user_id, req[r].tx}
  /\ Become(r, [req[r] EXCEPT !.tx = NoUser])
  /\ UNCHANGED <<execution, context, cached, cookie, history>>

\* The cache drops the execution: time to idle, time to live.
Expire ==
  /\ cached
  /\ cached' = FALSE
  /\ UNCHANGED <<execution, context, durable, req, history>>

Handle(r) ==
  \/ ExtractSession(r) \/ GetExecution(r) \/ GetUser(r) \/ GetCheckContext(r)
  \/ Check(r) \/ CheckEntry(r) \/ CheckEntryBindings(r)
  \/ HandleSubmission(r) \/ GetEntry(r) \/ HandleStage(r) \/ LookupUser(r)
  \/ Identify(r) \/ LookupPasswordStage(r) \/ ReadPending(r)
  \/ VerifyPassword(r) \/ Authenticate(r) \/ ContextLocked(r)
  \/ Advance(r) \/ Loop(r) \/ LoopEntry(r) \/ LoopStage(r) \/ UserLogin(r)
  \/ SetError(r) \/ UpdateSession(r) \/ Commit(r)
  \/ DataEntry(r) \/ DataStage(r) \/ DataCompleted(r) \/ Answer(r)
  \/ Component(r) \/ DataPending(r)
  \/ ReadContext(r) \/ Respond(r)

Next ==
  \/ \E r \in Requests : Send(r) \/ Handle(r) \/ Abort(r) \/ Settle(r)
  \/ Expire

Spec == Init /\ [][Next]_vars

\* Handlers run and the database answers; browsers need not send anything,
\* and nothing need fail or expire.
FairSpec == Spec /\ \A r \in Requests : WF_vars(Handle(r)) /\ WF_vars(Settle(r))

-----------------------------------------------------------------------------
(* Properties *)

\* The state has its types; current_entry_idx and every entry a request works
\* on stay within the flow's entries, so get_entry's "Entry index out of
\* bounds" and the indexing by a stale entry never happen.
TypeOK ==
  /\ flow \in Flows
  /\ idx \in Entries
  /\ is_completed \in BOOLEAN
  /\ pending \in Pendings
  /\ error \in BOOLEAN
  /\ cached \in BOOLEAN
  /\ user_id \in MaybeUser
  /\ cookie \in MaybeUser
  /\ req \in [Requests -> RequestStates]
  /\ verified \subseteq Users
  /\ passed \subseteq Entries
  /\ overlap \in BOOLEAN
  /\ faulted \in BOOLEAN

\* While the session's submissions do not overlap, the user its row is bound to
\* is one whose own password this execution has verified: handle_password_stage
\* verifies a clone of the pending user and marks whoever is pending after the
\* query, and an identification in between or before may have replaced it.
LoginVerified == ~overlap => user_id \in verified \cup {NoUser}

\* However submissions overlap and whatever fails, no row is bound unless some
\* password was verified: a pending user is only marked authenticated after a
\* successful verification, and complete() binds only a marked one.
LoginNeedsVerification == user_id # NoUser => verified # {}

\* The access decision that let a submission through still holds where the
\* submission is handled, although the session's user and the current entry are
\* both read again or not at all after the check: the flow's requirement and the
\* user bindings of the entry being handled hold of the user the row names now.
AccessStillHolds ==
  ~overlap /\ ~faulted =>
    \A r \in Requests : req[r].pc \in HandlePoints =>
      /\ Holds(AuthenticationOutput(flow.authentication, user_id))
      /\ \A i \in DOMAIN flow.entries[req[r].entry].bindings :
           LET binding == flow.entries[req[r].entry].bindings[i]
           IN  binding.kind = "User" =>
                 CheckBinding(binding, user_id, [e \in Expressions |-> "true"]) = "pass"

\* No entry is skipped: every entry before the current one, and all of them once
\* the flow is completed, was completed by a request working on that entry.
NoEntrySkipped ==
  ~overlap => passed = IF is_completed THEN Entries ELSE 1 .. (idx - 1)

Quiet == \A r \in Requests : ~InFlight(r)

\* A completed flow that ends in a UserLogin stage has logged its pending user
\* in, unless the user was shown the authentication error: neither the memory
\* nor the row is ahead of the other when nothing failed after complete_current.
LoginCompletes ==
  /\ Quiet /\ is_completed /\ ~overlap /\ ~faulted /\ ~error
  /\ pending.uid # NoUser
  /\ RequiresInput(Stage(1))
  /\ Stage(Len(flow.entries)).kind = "UserLogin"
  => user_id = pending.uid

\* The browser's claims and the row the session is extracted from agree when
\* nothing is in flight and no submission was lost halfway.
CookieMatchesRow == Quiet /\ ~overlap /\ ~faulted => cookie = user_id

\* A page shows the component of an entry whose bindings this request has checked,
\* or of one that was completed meanwhile: data() reads the current entry (flow.rs:56),
\* awaits its stage and then checks whatever entry is current by then.
PageChecked ==
  ~overlap =>
    \A r \in Requests :
      req[r].pc = "component" => req[r].entry \in passed \cup {req[r].checked}

\* use_mut_context expects that nobody else has the context locked.
ContextNeverLocked == \A r \in Requests : req[r].outcome # "locked"

\* With one submission at a time the execution is a walk along its flow
\* (FlowWalk), whatever pages are shown meanwhile and whatever fails.
Walk == INSTANCE FlowWalk WITH
          position <- idx, completed <- is_completed,
          who <- pending.uid, proven <- pending.authenticated,
          provers <- verified, bound <- user_id
WalksTheFlow == Walk!Spec

\* Every request is answered or dropped: no waiting for the guard, for the row
\* lock or in complete()'s loop lasts.
RequestsEnd == \A r \in Requests : req[r].pc = "session" ~> req[r].pc = "done"

=============================================================================
