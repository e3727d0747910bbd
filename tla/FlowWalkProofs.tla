----------------------------- MODULE FlowWalkProofs -----------------------------
(***************************************************************************)
(* A flow execution whose submissions do not overlap is a walk along its    *)
(* flow: proofs about FlowExecution for every set of requests, users and    *)
(* flows, of what holds only then.                                          *)
(*                                                                         *)
(* Two inductive invariants carry them.  WalkInv ties every request to the  *)
(* current entry: a submission past get_entry works on the entry that is    *)
(* still current, since nobody else can move the index, and what its        *)
(* program point says of the pending user lets it pass the entry.  LoginInv *)
(* adds, while nothing fails after complete_current, that the user checked, *)
(* the pending user, the jar, the transaction and the row agree.            *)
(***************************************************************************)
EXTENDS FlowExecutionProofs, FiniteSetTheorems, WellFoundedInduction

-----------------------------------------------------------------------------
(* The invariants *)

\* Program points at which a submission works on the current entry.
WorkPoints == HandlePoints \cup {"loop_stage", "login", "set_error", "update"}

\* Program points from an accepted submission's complete_current to the end of
\* its commit: where a transaction may hold the session's row.
LoopPoints ==
  {"advance", "loop", "loop_entry", "loop_stage", "login", "set_error", "update",
   "commit"}

\* The stages that verify a password: a password stage, and an identification
\* stage with another stage embedded.
AsksPassword(stage) ==
  \/ stage.kind = "Password"
  \/ stage.kind = "Identification" /\ stage.password # "none"

\* What the pending user must be for a stage to be passed.
Satisfied(stage) ==
  /\ stage.kind = "Identification" => pending.uid # NoUser
  /\ AsksPassword(stage) => pending.authenticated

\* A UserLogin entry has been completed.
PassedLogin == \E i \in passed : Stage(i).kind = "UserLogin"

-----------------------------------------------------------------------------
(* Entries *)

\* The entries a request remembers are not ahead of the current one.
Remembered(r) ==
  /\ req[r].entry <= idx
  /\ req[r].in_data => req[r].entry # 0

\* What the program point of a submission says of the entry it works on.
Working(r) ==
  LET q == req[r]
      stage == Stage(idx)
  IN  /\ q.pc \in WorkPoints => ~is_completed /\ q.entry = idx
      /\ q.pc \in {"handle_entry", "loop_entry"} => ~is_completed
      /\ q.pc \in {"lookup_user", "identify"} => stage.kind = "Identification"
      /\ q.pc = "identify" => q.found \in Users
      /\ q.pc \in {"password_stage", "pending", "password", "authenticate"} =>
           /\ AsksPassword(stage)
           /\ stage.kind = "Identification" => pending.uid # NoUser
      /\ q.pc = "password" => stage.internal
      /\ q.pc = "advance" /\ ~is_completed => q.entry = idx /\ Satisfied(stage)
      /\ q.pc \in {"login", "set_error", "update"} => stage.kind = "UserLogin"
      /\ q.tx # NoUser =>
           \/ PassedLogin
           \/ q.pc = "advance" /\ ~is_completed /\ stage.kind = "UserLogin"

\* data() shows what it checked, or what was passed meanwhile.
Showing(r) ==
  LET q == req[r]
  IN  \/ q.pc = "check_bindings" /\ q.in_data
      \/ q.pc = "answer" /\ ~q.completed
      \/ q.pc = "component"
      => q.entry \in passed \cup {q.checked}

\* The entries behind the current one are those passed, a completed flow rests at
\* its last entry, and every request is where its program point says.
Walking ==
  /\ is_completed => idx = Len(flow.entries)
  /\ passed = IF is_completed THEN Entries ELSE 1 .. (idx - 1)
  /\ \A r \in Requests : Remembered(r) /\ Working(r) /\ Showing(r)

\* The inductive invariant of the walk: it asks for submissions that do not
\* overlap, and nothing of failures.
WalkInv == ~overlap => Walking

-----------------------------------------------------------------------------
(* Access *)

\* The user bindings of an entry admit a user.
Admits(entry, user) ==
  \A i \in DOMAIN flow.entries[entry].bindings :
    LET binding == flow.entries[entry].bindings[i]
    IN  binding.kind = "User" =>
          CheckBinding(binding, user, [e \in Expressions |-> "true"]) = "pass"

\* A submission was extracted with the user the row still names, and has passed
\* the checks its program point is behind.
Admitted(r) ==
  LET q == req[r]
  IN  /\ q.tx # NoUser => q.pc \in LoopPoints
      /\ InFlight(r) /\ q.method = "POST" /\ q.pc \notin {"session", "respond"} =>
           q.user = user_id
      /\ \/ q.pc \in {"check_entry", "check_bindings"} /\ ~q.in_data
         \/ q.pc \in {"submission", "handle_entry"} \cup HandlePoints
         => Holds(AuthenticationOutput(flow.authentication, q.user))
      /\ \/ q.pc = "check_bindings" /\ ~q.in_data
         \/ q.pc \in {"submission", "handle_entry"} \cup HandlePoints
         => q.checked = idx
      /\ q.pc \in {"submission", "handle_entry"} \cup HandlePoints =>
           Admits(q.checked, q.user)

-----------------------------------------------------------------------------
(* Bindings *)

\* Program points of complete()'s loop, which a submission leaves for its commit.
Turn == {"loop", "loop_entry", "loop_stage", "login", "set_error", "update"}

\* Where the user of a login is kept: the pending user, the clone, the jar and the
\* transaction agree until the commit hands him to the row.  Only a turn of the
\* loop that has set the error or written the row is followed by another.
BindingOf(r) ==
  LET q == req[r]
  IN  /\ q.tx # NoUser => q.tx = pending.uid /\ q.tx = q.jar
      /\ q.jar # NoUser =>
           /\ q.method = "POST"
           /\ \/ q.pc \in LoopPoints \ {"update"} /\ q.tx = q.jar
              \/ q.pc = "update"
              \/ q.pc = "respond" /\ user_id = q.jar
      /\ q.pc = "update" => q.jar = q.snap.uid /\ q.snap.uid = pending.uid
      /\ q.iterations > 0 =>
           \/ q.pc \in {"login", "set_error", "update", "respond"}
           \/ q.pc \in LoopPoints /\ (error \/ q.tx # NoUser)

\* The browser's claims name the row's user, or a response that will is on its way.
CookieSet ==
  cookie = user_id \/ \E r \in Requests : req[r].pc = "respond" /\ req[r].jar # NoUser

\* The row is bound to the pending user, or a transaction about to be committed.
LoggedIn == user_id = pending.uid \/ \E r \in Requests : req[r].tx # NoUser

\* A flow that began with an entry for input has somebody about to log him in
\* wherever none of its entries asks for input, and has logged him in at its end.
CompletionOf ==
  ~error /\ pending.uid # NoUser /\ RequiresInput(Stage(1)) =>
    /\ is_completed /\ Stage(Len(flow.entries)).kind = "UserLogin" => LoggedIn
    /\ \/ is_completed
       \/ RequiresInput(Stage(idx))
       \/ \E r \in Requests : req[r].pc \in Turn
       \/ LoggedIn

\* What the invariant says of one request.
Held(r) == Admitted(r) /\ BindingOf(r)

\* What holds while nothing fails after complete_current.
Undisturbed ==
  /\ \A r \in Requests : Held(r)
  /\ CookieSet
  /\ CompletionOf

\* The inductive invariant of the login: no overlapping submissions and no fault
\* after complete_current.
LoginInv == ~overlap /\ ~faulted => Undisturbed

-----------------------------------------------------------------------------
(* What a step changes *)

\* Each piece of shared state has its writers.
LEMMA Writers ==
  ASSUME NEW r, Handle(r) \/ Abort(r) \/ Settle(r)
  PROVE  /\ UNCHANGED <<flow, overlap>>
         /\ Advance(r) \/ UNCHANGED <<idx, is_completed, passed>>
         /\ Identify(r) \/ Authenticate(r) \/ UNCHANGED pending
         /\ VerifyPassword(r) \/ UNCHANGED verified
         /\ SetError(r) \/ UNCHANGED error
         /\ Commit(r) \/ Settle(r) \/ UNCHANGED user_id
         /\ Respond(r) \/ UNCHANGED cookie
<1> USE DEF execution, context, durable, history
<1>1. CASE LocalStep(r)
  BY <1>1, LocalSteps
<1>2. CASE Identify(r) \/ Authenticate(r) \/ VerifyPassword(r)
  BY <1>2 DEF Identify, Authenticate, VerifyPassword
<1>3. CASE ContextLocked(r) \/ Advance(r) \/ LoopStage(r) \/ SetError(r)
  BY <1>3 DEF ContextLocked, Advance, LoopStage, SetError
<1>4. CASE Commit(r) \/ Answer(r) \/ Respond(r) \/ Abort(r) \/ Settle(r)
  BY <1>4 DEF Commit, Answer, Respond, Abort, Settle
<1> QED
  BY <1>1, <1>2, <1>3, <1>4, HandleCases

\* A fault is not forgotten.
LEMMA FaultsStay ==
  ASSUME TypeOK, NEW r, Handle(r) \/ Abort(r) \/ Settle(r), faulted
  PROVE  faulted'
<1> USE DEF execution, context, durable, history
<1>1. CASE LocalStep(r)
  BY <1>1, LocalSteps
<1>2. CASE Identify(r) \/ Authenticate(r) \/ VerifyPassword(r)
  BY <1>2 DEF Identify, Authenticate, VerifyPassword
<1>3. CASE Advance(r) \/ SetError(r) \/ Commit(r) \/ Answer(r) \/ Respond(r) \/ Settle(r)
  BY <1>3 DEF Advance, SetError, Commit, Answer, Respond, Settle
<1>4. CASE ContextLocked(r)
  BY <1>4, Zenon DEF ContextLocked
<1>5. CASE LoopStage(r)
  BY <1>5, Zenon DEF LoopStage
<1>6. CASE Abort(r)
  BY <1>6, Zenon DEF Abort
<1> QED
  BY <1>1, <1>2, <1>3, <1>4, <1>5, <1>6, HandleCases

\* The record of r but for its program point, its guard and its outcome.
Carried(r) ==
  /\ req'[r].method = req[r].method
  /\ req'[r].user = req[r].user
  /\ req'[r].checked = req[r].checked
  /\ req'[r].entry = req[r].entry
  /\ req'[r].found = req[r].found
  /\ req'[r].snap = req[r].snap
  /\ req'[r].completed = req[r].completed
  /\ req'[r].in_data = req[r].in_data
  /\ req'[r].jar = req[r].jar
  /\ req'[r].tx = req[r].tx
  /\ req'[r].iterations = req[r].iterations

\* Going on changes nothing else a request holds.
LEMMA GoCarries ==
  ASSUME TypeOK, NEW r \in Requests, NEW p, Go(r, p)
  PROVE  req'[r].pc = p /\ Carried(r)
<1>1. req[r] \in RequestStates
  BY DEF TypeOK
<1>2. req'[r] = [req[r] EXCEPT !.pc = p, !.reading = FALSE]
  BY BecomeEffect DEF Go
<1> QED
  BY <1>1, <1>2 DEF RequestStates, Carried

\* Returning keeps what matters later: who has to get which cookie.
LEMMA ReturnCarries ==
  ASSUME TypeOK, NEW r \in Requests, NEW o, Return(r, o)
  PROVE  /\ req'[r].pc = "respond" /\ req'[r].tx = NoUser
         /\ req'[r].method = req[r].method /\ req'[r].jar = req[r].jar
         /\ req'[r].entry = req[r].entry /\ req'[r].in_data = req[r].in_data
<1>1. req[r] \in RequestStates
  BY DEF TypeOK
<1>2. req'[r] = [req[r] EXCEPT !.pc = "respond", !.reading = FALSE, !.tx = NoUser,
                               !.outcome = o]
  BY BecomeEffect DEF Return
<1> QED
  BY <1>1, <1>2 DEF RequestStates

\* Being dropped forgets everything but perhaps a transaction under way.
LEMMA DroppedForgets ==
  ASSUME TypeOK, NEW r \in Requests, NEW o, NEW u,
         \/ u = NoUser /\ Become(r, Dropped(o))
         \/ Become(r, [Dropped(o) EXCEPT !.tx = u])
  PROVE  /\ req'[r].pc = "done" /\ req'[r].tx = u /\ req'[r].jar = NoUser
         /\ req'[r].entry = 0 /\ ~req'[r].in_data /\ req'[r].iterations = 0
<1>1. \/ u = NoUser /\ req'[r] = Dropped(o)
      \/ req'[r] = [Dropped(o) EXCEPT !.tx = u]
  BY BecomeEffect
<1> QED
  BY <1>1 DEF Dropped, Blank

\* Where the flow's own requirement and bindings lead: not to the component, and
\* past them only when the requirement holds of the user extracted.
LEMMA CheckLeads ==
  ASSUME TypeInv, NEW r \in Requests, Check(r)
  PROVE  \/ Become(r, Dropped("panicked")) \/ Return(r, "denied")
         \/ ~req[r].in_data /\ Go(r, "data_entry")
         \/ req[r].completed /\ Go(r, "answer")
         \/ /\ Holds(AuthenticationOutput(flow.authentication, req[r].user))
            /\ Go(r, "check_entry")
<1>1. PICK ast \in Evaluations :
        LET verdict == CheckFlow(flow, req[r].user, ast)
        IN  IF verdict = "pass" THEN Go(r, "check_entry") ELSE Decide(r, verdict)
  BY DEF Check
<1> DEFINE verdict == CheckFlow(flow, req[r].user, ast)
<1>2. CASE verdict = "pass"
  BY <1>1, <1>2 DEF CheckFlow
<1>3. CASE verdict # "pass"
  <2>1. Decide(r, verdict)
    BY <1>1, <1>3
  <2> HIDE DEF verdict
  <2> QED
    BY <2>1, <1>3 DEF Decide
<1> QED
  BY <1>2, <1>3

\* Where the bindings of the entry lead.
LEMMA BindingsLead ==
  ASSUME TypeInv, NEW r \in Requests, CheckEntryBindings(r)
  PROVE  \/ Become(r, Dropped("panicked")) \/ Return(r, "denied")
         \/ ~req[r].in_data /\ Go(r, "data_entry")
         \/ req[r].completed /\ Go(r, "answer")
         \/ req[r].in_data /\ Go(r, "answer")
         \/ /\ ~req[r].in_data /\ Go(r, "submission")
            /\ \E ast : CheckBindings(flow.entries[req[r].checked].bindings,
                                      req[r].user, ast) = "pass"
<1>1. PICK ast \in Evaluations :
        Decide(r, CheckBindings(flow.entries[req[r].checked].bindings,
                                req[r].user, ast))
  BY DEF CheckEntryBindings
<1> DEFINE verdict == CheckBindings(flow.entries[req[r].checked].bindings,
                                    req[r].user, ast)
<1>2. verdict = "pass" => \E a : CheckBindings(flow.entries[req[r].checked].bindings,
                                               req[r].user, a) = "pass"
  OBVIOUS
<1>3. Decide(r, verdict)
  BY <1>1
<1> HIDE DEF verdict
<1> QED
  BY <1>2, <1>3 DEF Decide

\* A request is sent with what it held before, a method and no more.
LEMMA SendCarries ==
  ASSUME TypeInv, NEW r \in Requests, Send(r)
  PROVE  /\ req[r].pc = "unsent" /\ req'[r].pc = "session"
         /\ req'[r].entry = req[r].entry /\ req'[r].in_data = req[r].in_data
         /\ req'[r].tx = req[r].tx /\ req'[r].jar = req[r].jar
         /\ req'[r].iterations = req[r].iterations
         /\ UNCHANGED <<execution, context, durable, verified, passed, faulted>>
<1>1. req[r] \in RequestStates /\ TypeOK
  BY DEF TypeInv, TypeOK
<1>2. PICK m \in Methods : Become(r, [req[r] EXCEPT !.pc = "session", !.method = m])
  BY DEF Send
<1>3. req'[r] = [req[r] EXCEPT !.pc = "session", !.method = m]
  BY <1>1, <1>2, BecomeEffect
<1> QED
  BY <1>1, <1>3 DEF RequestStates, Send

\* Only a submission, in flight, moves the execution or changes the pending user.
LEMMA Movers ==
  ASSUME TypeInv, NEW r \in Requests,
         Advance(r) \/ Identify(r) \/ Authenticate(r) \/ SetError(r) \/ Commit(r)
  PROVE  Posting(r)
<1>1. req[r].pc \in {"advance", "identify", "authenticate", "set_error", "commit"}
  BY DEF Advance, Identify, Authenticate, SetError, Commit, At
<1> QED
  BY <1>1, GoodRequests DEF Good, RequestShape, PostPoints, Posting, InFlight

\* So does only a submission work on an entry.
LEMMA Workers ==
  ASSUME TypeInv, NEW r \in Requests, req[r].pc \in PostPoints
  PROVE  Posting(r)
  BY GoodRequests DEF Good, RequestShape, PostPoints, Posting, InFlight

-----------------------------------------------------------------------------
(* The walk along the entries *)

\* What Walking says of one request.
Walker(r) == Remembered(r) /\ Working(r) /\ Showing(r)

\* The request that takes a step goes on working on the current entry, with what
\* its new program point says: get_entry is the only place where it takes an entry
\* up, and complete_current the only one where the entry is left.
LEMMA OwnWalk ==
  ASSUME TypeInv, VerifiedUsers, Walking, NEW r \in Requests,
         Handle(r) \/ Abort(r) \/ Settle(r)
  PROVE  Walker(r)'
<1> DEFINE q == req[r]
<1>1. q \in RequestStates /\ RequestShape(q)
  BY GoodRequests DEF Good
<1>2. TypeOK /\ idx \in Entries /\ Entries \subseteq Nat /\ 0 < idx /\ idx \in Nat
  BY DEF TypeInv, TypeOK, Entries
<1>3. Remembered(r) /\ Working(r) /\ Showing(r)
  BY DEF Walking
<1>4. ASSUME NEW p, Go(r, p) PROVE req'[r].pc = p /\ Carried(r)
  BY <1>2, <1>4, GoCarries
<1>5. ASSUME NEW o, Return(r, o)
      PROVE  /\ req'[r].pc = "respond" /\ req'[r].tx = NoUser
             /\ req'[r].entry = q.entry /\ req'[r].in_data = q.in_data
  BY <1>2, <1>5, ReturnCarries
<1>6. ASSUME NEW o, Become(r, Dropped(o))
      PROVE  /\ req'[r].pc = "done" /\ req'[r].tx = NoUser
             /\ req'[r].entry = 0 /\ ~req'[r].in_data
  BY <1>2, <1>6, DroppedForgets
<1>7. ASSUME NEW x, Become(r, x) PROVE req'[r] = x
  BY <1>2, <1>7, BecomeEffect
<1>8. ASSUME ~Advance(r)
      PROVE  UNCHANGED <<flow, idx, is_completed, passed>>
  BY <1>8, Writers
<1> USE DEF At, Walker, Remembered, Working, Showing, PassedLogin, Stage, StageOf,
            Carried, WorkPoints, HandlePoints
<1>9. ASSUME LocalStep(r)
      PROVE  UNCHANGED <<flow, idx, is_completed, passed, pending>>
  BY <1>9, LocalSteps DEF execution, history, context
<1>11. CASE GetUser(r)
  BY <1>11, <1>1, <1>2, <1>3, <1>4, <1>9 DEF GetUser, LocalStep
<1>12. CASE GetCheckContext(r)
  BY <1>12, <1>1, <1>2, <1>3, <1>4, <1>9 DEF GetCheckContext, LocalStep
<1>13. CASE DataStage(r)
  BY <1>13, <1>1, <1>2, <1>3, <1>4, <1>9 DEF DataStage, LocalStep
<1>14. CASE HandleSubmission(r)
  BY <1>14, <1>1, <1>2, <1>3, <1>4, <1>9 DEF HandleSubmission, LocalStep
<1>15. CASE LookupPasswordStage(r)
  BY <1>15, <1>1, <1>2, <1>3, <1>4, <1>6, <1>9 DEF LookupPasswordStage, LocalStep
<1>16. CASE Loop(r)
  BY <1>16, <1>1, <1>2, <1>3, <1>4, <1>9 DEF Loop, LocalStep
<1>17. CASE HandleStage(r)
  BY <1>17, <1>1, <1>2, <1>3, <1>4, <1>9
  DEF HandleStage, Refuse, LocalStep, Satisfied, AsksPassword
<1>18. CASE GetExecution(r)
  BY <1>18, <1>1, <1>2, <1>3, <1>4, <1>5, <1>9 DEF GetExecution, LocalStep
<1>19. CASE ExtractSession(r)
  BY <1>19, <1>1, <1>2, <1>3, <1>7, <1>9
  DEF ExtractSession, LocalStep, RequestStates, Satisfied, AsksPassword
<1>20. CASE CheckEntry(r)
  <2>1. /\ req'[r].pc = "check_bindings" /\ req'[r].checked = idx
        /\ req'[r].entry = q.entry /\ req'[r].in_data = q.in_data
        /\ req'[r].tx = q.tx
    BY <1>20, <1>1, <1>2, <1>7 DEF CheckEntry, RequestStates
  <2>2. UNCHANGED <<flow, idx, is_completed, passed, pending>>
    BY <1>20, <1>9 DEF LocalStep
  <2>3. q.in_data => q.entry \in passed \cup {idx}
    <3>1. /\ q.entry \in 1 .. Len(flow.entries) \cup {0} /\ q.entry <= idx
          /\ q.in_data => q.entry # 0
      BY <1>1, <1>3 DEF RequestStates, Entries
    <3>2. passed = IF is_completed THEN 1 .. Len(flow.entries) ELSE 1 .. (idx - 1)
      BY DEF Walking, Entries
    <3> QED
      BY <3>1, <3>2, <1>2
  <2> QED
    BY <1>20, <2>1, <2>2, <2>3, <1>3 DEF CheckEntry
<1>21. CASE GetEntry(r)
  <2>1. /\ req'[r].pc = "stage" /\ req'[r].entry = idx
        /\ req'[r].tx = q.tx
    BY <1>21, <1>1, <1>7 DEF GetEntry, RequestStates
  <2> QED
    BY <1>21, <2>1, <1>2, <1>3, <1>9 DEF GetEntry, LocalStep
<1>22. CASE LoopEntry(r)
  <2>1. /\ req'[r].pc = "loop_stage"
        /\ req'[r].entry = idx
        /\ req'[r].tx = q.tx
    BY <1>22, <1>1, <1>2, <1>7 DEF LoopEntry, RequestStates
  <2> QED
    BY <1>22, <2>1, <1>1, <1>2, <1>3, <1>9 DEF LoopEntry, LocalStep
<1>23. CASE DataEntry(r)
  <2>1. /\ req'[r].pc = "data_stage"
        /\ req'[r].entry = idx
        /\ req'[r].tx = q.tx
    BY <1>23, <1>1, <1>2, <1>7 DEF DataEntry, RequestStates
  <2> QED
    BY <1>23, <2>1, <1>1, <1>2, <1>3, <1>9 DEF DataEntry, LocalStep
<1>24. CASE DataCompleted(r)
  BY <1>24, <1>1, <1>2, <1>3, <1>7, <1>9
  DEF DataCompleted, LocalStep, RequestStates, Satisfied, AsksPassword
<1>25. CASE UpdateSession(r)
  <2>1. /\ req'[r].pc = "advance"
        /\ req'[r].entry = q.entry
        /\ req'[r].in_data = q.in_data
    BY <1>25, <1>1, <1>2, <1>7 DEF UpdateSession, RequestStates
  <2> QED
    BY <1>25, <2>1, <1>1, <1>2, <1>3, <1>9
    DEF UpdateSession, LocalStep, Satisfied, AsksPassword
<1>26. CASE ReadContext(r)
  BY <1>26, <1>1, <1>2, <1>3, <1>7, <1>9
  DEF ReadContext, LocalStep, RequestStates, Satisfied, AsksPassword
<1>27. CASE LookupUser(r)
  <2>1. UNCHANGED <<flow, idx, is_completed, passed, pending>>
    BY <1>27, <1>9 DEF LocalStep
  <2>2. q.pc = "lookup_user"
    BY <1>27 DEF LookupUser
  <2>3. ASSUME NEW u \in Users, Become(r, [q EXCEPT !.pc = "identify", !.found = u])
        PROVE  Walker(r)'
    <3>1. /\ req'[r].pc = "identify" /\ req'[r].found = u
          /\ req'[r].entry = q.entry /\ req'[r].in_data = q.in_data
          /\ req'[r].tx = q.tx
      BY <2>3, <1>1, <1>7 DEF RequestStates
    <3> QED
      BY <2>1, <2>2, <3>1, <1>3
  <2>4. CASE Refuse(r)
    BY <2>1, <2>2, <2>4, <1>3, <1>4 DEF Refuse
  <2> QED
    BY <1>27, <2>3, <2>4 DEF LookupUser
<1>28. CASE ReadPending(r)
  <2>1. ASSUME Become(r, [q EXCEPT !.pc = "password", !.reading = FALSE,
                                   !.snap = pending]),
               StageOf(r).internal
        PROVE  Walker(r)'
    <3>1. /\ req'[r].pc = "password"
          /\ req'[r].entry = q.entry /\ req'[r].in_data = q.in_data
          /\ req'[r].tx = q.tx
      BY <2>1, <1>1, <1>7 DEF RequestStates
    <3> QED
      BY <1>28, <2>1, <3>1, <1>3, <1>9 DEF ReadPending, LocalStep
  <2>2. CASE Refuse(r)
    BY <1>28, <2>2, <1>3, <1>4, <1>9 DEF ReadPending, Refuse, LocalStep
  <2> QED
    BY <1>28, <2>1, <2>2 DEF ReadPending
<1>29. CASE UserLogin(r)
  <2>1. ASSUME Become(r, [q EXCEPT !.pc = "update", !.reading = FALSE,
                                   !.snap = pending, !.jar = pending.uid])
        PROVE  Walker(r)'
    <3>1. /\ req'[r].pc = "update"
          /\ req'[r].entry = q.entry /\ req'[r].in_data = q.in_data
          /\ req'[r].tx = q.tx
      BY <2>1, <1>1, <1>7 DEF RequestStates
    <3> QED
      BY <1>29, <3>1, <1>3, <1>9 DEF UserLogin, LocalStep
  <2>2. CASE Return(r, "failed") \/ Go(r, "set_error")
    BY <1>29, <2>2, <1>3, <1>4, <1>5, <1>9
    DEF UserLogin, LocalStep
  <2> QED
    BY <1>29, <2>1, <2>2 DEF UserLogin
<1>30. CASE Component(r)
  <2>1. ASSUME NEW o, Become(r, [q EXCEPT !.pc = "data_pending", !.reading = FALSE,
                                          !.outcome = o])
        PROVE  Walker(r)'
    <3>1. /\ req'[r].pc = "data_pending"
          /\ req'[r].entry = q.entry /\ req'[r].in_data = q.in_data
          /\ req'[r].tx = q.tx
      BY <2>1, <1>1, <1>7 DEF RequestStates
    <3> QED
      BY <1>30, <3>1, <1>3, <1>9 DEF Component, LocalStep
  <2>2. CASE Become(r, Dropped("panicked"))
    BY <1>30, <2>2, <1>2, <1>6, <1>9 DEF Component, LocalStep
  <2> QED
    BY <1>30, <2>1, <2>2 DEF Component
<1>31. CASE DataPending(r)
  BY <1>31, <1>1, <1>2, <1>3, <1>5, <1>9 DEF DataPending, LocalStep
<1>32. CASE Answer(r)
  <2>1. ASSUME NEW o, Become(r, [q EXCEPT !.pc = "data_pending", !.outcome = o])
        PROVE  Walker(r)'
    <3>1. /\ req'[r].pc = "data_pending"
          /\ req'[r].entry = q.entry /\ req'[r].in_data = q.in_data
          /\ req'[r].tx = q.tx
      BY <2>1, <1>1, <1>7 DEF RequestStates
    <3> QED
      BY <1>32, <3>1, <1>3, <1>8 DEF Answer, Advance
  <2>2. ASSUME ~q.completed, Go(r, "component")
        PROVE  Walker(r)'
    BY <1>32, <2>2, <1>3, <1>4, <1>8 DEF Answer, Advance
  <2> QED
    BY <1>32, <2>1, <2>2 DEF Answer
<1>33. CASE Identify(r)
  BY <1>33, <1>1, <1>2, <1>3, <1>4, <1>8, UsersAssumption
  DEF Identify, execution, history, Satisfied, AsksPassword
<1>34. CASE VerifyPassword(r)
  BY <1>34, <1>1, <1>2, <1>3, <1>4 DEF VerifyPassword, Refuse, execution, context
<1>35. CASE Authenticate(r)
  <2>1. pending.uid # NoUser
    BY <1>35, <1>1, UsersAssumption DEF Authenticate, VerifiedUsers, RequestShape
  <2>2. pending' = [pending EXCEPT !.authenticated = TRUE]
    BY <1>35, <2>1 DEF Authenticate
  <2>3. pending'.uid = pending.uid /\ pending'.authenticated
    BY <2>2, <1>2 DEF TypeOK, Pendings
  <2> QED
    BY <1>35, <2>1, <2>3, <1>1, <1>2, <1>3, <1>4
    DEF Authenticate, execution, history, Satisfied
<1>36. CASE Advance(r)
  <2>1. passed \subseteq passed' /\ UNCHANGED flow
    BY <1>36 DEF Advance
  <2>2. q.tx # NoUser => PassedLogin'
    BY <1>36, <2>1, <1>3 DEF Advance
  <2>3. idx' >= idx /\ idx' \in Nat
    BY <1>36, <1>2 DEF Advance, CompleteCurrent
  <2>4. req'[r].pc = "loop" /\ Carried(r)
    BY <1>36, <1>4 DEF Advance
  <2>5. q.entry \in Nat
    <3>1. q.entry \in Entries \cup {0}
      BY <1>1 DEF RequestStates
    <3> QED
      BY <3>1 DEF Entries
  <2>6. Remembered(r)'
    BY <2>3, <2>4, <2>5, <1>2, <1>3
  <2>7. Working(r)'
    BY <2>2, <2>4
  <2>8. Showing(r)'
    BY <2>4
  <2> QED
    BY <2>6, <2>7, <2>8
<1>37. CASE LoopStage(r)
  <2>1. UNCHANGED <<flow, idx, is_completed, passed, pending>>
    BY <1>37 DEF LoopStage, execution, context
  <2>2. ASSUME NEW i, Become(r, [q EXCEPT !.pc = "login", !.reading = FALSE,
                                          !.iterations = i]),
               StageOf(r).kind = "UserLogin"
        PROVE  Walker(r)'
    <3>1. /\ req'[r].pc = "login"
          /\ req'[r].entry = q.entry /\ req'[r].in_data = q.in_data
          /\ req'[r].tx = q.tx
      BY <2>2, <1>1, <1>7 DEF RequestStates
    <3> QED
      BY <1>37, <2>1, <2>2, <3>1, <1>3 DEF LoopStage
  <2>3. CASE Go(r, "commit")
    BY <1>37, <2>1, <2>3, <1>3, <1>4 DEF LoopStage
  <2>4. CASE Become(r, Dropped("panicked"))
    BY <2>1, <2>4, <1>2, <1>6
  <2> QED
    BY <1>37, <2>2, <2>3, <2>4 DEF LoopStage, EndLoop
<1>38. CASE SetError(r)
  BY <1>38, <1>1, <1>2, <1>3, <1>4 DEF SetError, EndLoop, execution, history
<1>39. CASE Commit(r)
  BY <1>39, <1>1, <1>2, <1>3, <1>5 DEF Commit, execution, context, history
<1>40. CASE ContextLocked(r)
  <2>1. UNCHANGED <<flow, idx, is_completed, passed, pending>>
    BY <1>40 DEF ContextLocked, execution, context
  <2> QED
    BY <1>40, <2>1, <1>2, <1>6 DEF ContextLocked
<1>41. CASE Check(r)
  <2>1. UNCHANGED <<flow, idx, is_completed, passed, pending>> /\ q.pc = "check"
    BY <1>41, <1>9 DEF LocalStep, Check
  <2>2. CASE Become(r, Dropped("panicked"))
    BY <2>1, <2>2, <1>2, <1>6
  <2> QED
    BY <2>1, <2>2, <1>3, <1>4, <1>5, <1>41, CheckLeads
<1>42. CASE CheckEntryBindings(r)
  <2>1. /\ UNCHANGED <<flow, idx, is_completed, passed, pending>>
        /\ q.pc = "check_bindings"
    BY <1>42, <1>9 DEF LocalStep, CheckEntryBindings
  <2>2. CASE Become(r, Dropped("panicked"))
    BY <2>1, <2>2, <1>2, <1>6
  <2> QED
    BY <2>1, <2>2, <1>3, <1>4, <1>5, <1>42, BindingsLead
<1>43. CASE Respond(r)
  <2>1. UNCHANGED <<flow, idx, is_completed, passed, pending>> /\ q.pc = "respond"
    BY <1>43 DEF Respond, execution, context, history
  <2>2. /\ req'[r].pc = "done" /\ req'[r].tx = q.tx
        /\ req'[r].entry = 0 /\ ~req'[r].in_data
    BY <1>43, <1>2, DroppedForgets DEF Respond
  <2> QED
    BY <2>1, <2>2, <1>2, <1>3
<1>44. CASE Abort(r)
  <2> DEFINE left == IF q.pc \in {"commit", "respond"} THEN q.tx ELSE NoUser
  <2>1. UNCHANGED <<flow, idx, is_completed, passed, pending>>
    BY <1>44 DEF Abort, execution, context
  <2>2. left # NoUser => PassedLogin
    BY <1>3
  <2>3. \/ Become(r, [Dropped("none") EXCEPT !.tx = left])
        \/ Become(r, [q EXCEPT !.pc = "respond", !.reading = FALSE, !.tx = left,
                               !.outcome = "failed"])
    BY <1>44 DEF Abort
  <2> HIDE DEF left
  <2>4. CASE Become(r, [Dropped("none") EXCEPT !.tx = left])
    <3>1. /\ req'[r].pc = "done" /\ req'[r].tx = left
          /\ req'[r].entry = 0 /\ ~req'[r].in_data
      BY <2>4, <1>2, DroppedForgets
    <3> QED
      BY <2>1, <2>2, <3>1, <1>2
  <2>5. CASE Become(r, [q EXCEPT !.pc = "respond", !.reading = FALSE, !.tx = left,
                                 !.outcome = "failed"])
    <3>1. /\ req'[r].pc = "respond" /\ req'[r].tx = left
          /\ req'[r].entry = q.entry /\ req'[r].in_data = q.in_data
      BY <2>5, <1>1, <1>7 DEF RequestStates
    <3> QED
      BY <2>1, <2>2, <3>1, <1>3
  <2> QED
    BY <2>3, <2>4, <2>5
<1>45. CASE Settle(r)
  <2>1. /\ UNCHANGED <<flow, idx, is_completed, passed, pending>>
        /\ q.pc \in {"respond", "done"}
    BY <1>45 DEF Settle, execution, context, history
  <2>2. /\ req'[r].pc = q.pc /\ req'[r].tx = NoUser
        /\ req'[r].entry = q.entry /\ req'[r].in_data = q.in_data
    BY <1>45, <1>1, <1>7 DEF Settle, RequestStates
  <2> QED
    BY <2>1, <2>2, <1>3
<1> QED
  BY <1>11, <1>12, <1>13, <1>14, <1>15, <1>16, <1>17, <1>18, <1>19, <1>20,
     <1>21, <1>22, <1>23, <1>24, <1>25, <1>26, <1>27, <1>28, <1>29, <1>30,
     <1>31, <1>32, <1>33, <1>34, <1>35, <1>36, <1>37, <1>38, <1>39, <1>40,
     <1>41, <1>42, <1>43, <1>44, <1>45
  DEF Handle

\* The others go on as they were: while one submission moves the execution no other
\* works on it.
LEMMA OthersWalk ==
  ASSUME TypeInv, OneSubmission, Walking, NEW r \in Requests,
         Handle(r) \/ Abort(r) \/ Settle(r),
         NEW q \in Requests, q # r
  PROVE  Walker(q)'
<1>1. req'[q] = req[q]
  BY OthersKept
<1>2. Remembered(q) /\ Working(q) /\ Showing(q)
  BY DEF Walking
<1>3. UNCHANGED flow
  BY Writers
<1> USE DEF Walker, Remembered, Working, Showing, PassedLogin, Stage
<1>4. CASE Advance(r) \/ Identify(r) \/ Authenticate(r)
  <2>1. req[q].pc \notin PostPoints
    BY <1>4, Movers, Workers DEF OneSubmission
  <2>2. passed \subseteq passed' /\ idx' >= idx /\ idx' \in Nat /\ idx \in Nat
    BY <1>4 DEF Advance, Identify, Authenticate, CompleteCurrent, execution, history,
                TypeInv, TypeOK, Entries
  <2>3. req[q].entry \in Nat
    <3>1. req[q].entry \in Entries \cup {0}
      BY GoodRequests DEF Good, RequestStates
    <3> QED
      BY <3>1 DEF Entries
  <2>4. Remembered(q)'
    BY <1>1, <1>2, <2>2, <2>3
  <2>5. Showing(q)'
    BY <1>1, <1>2, <2>2
  <2>6. Working(q)'
    BY <1>1, <1>2, <1>3, <2>1, <2>2 DEF PostPoints, WorkPoints, HandlePoints
  <2> QED
    BY <2>4, <2>5, <2>6
<1>5. CASE ~(Advance(r) \/ Identify(r) \/ Authenticate(r))
  <2>1. UNCHANGED <<idx, is_completed, passed, pending>>
    BY <1>5, Writers
  <2> QED
    BY <2>1, <1>1, <1>2, <1>3 DEF Satisfied
<1> QED
  BY <1>4, <1>5

\* A request that is sent works on nothing yet.
LEMMA SentWalk ==
  ASSUME TypeInv, Walking, NEW r \in Requests, Send(r), NEW q \in Requests
  PROVE  Walker(q)'
<1>1. UNCHANGED <<flow, idx, is_completed, passed, pending>>
  BY SendCarries DEF execution, context
<1>2. Remembered(q) /\ Working(q) /\ Showing(q)
  BY DEF Walking
<1> USE DEF Walker, Remembered, Working, Showing, PassedLogin, Stage, Satisfied,
            WorkPoints, HandlePoints
<1>3. CASE q = r
  BY <1>1, <1>2, <1>3, SendCarries
<1>4. CASE q # r
  <2>1. req'[q] = req[q]
    BY <1>4, OthersKept
  <2> QED
    BY <1>1, <1>2, <2>1
<1> QED
  BY <1>3, <1>4

\* Every step keeps the walk: who works works on the current entry, and the current
\* entry is left only by who works on it.
LEMMA WalkStep ==
  ASSUME TypeInv, VerifiedInv, WalkInv, [Next]_vars
  PROVE  WalkInv'
<1>1. ASSUME NEW r \in Requests, Handle(r) \/ Abort(r) \/ Settle(r), ~overlap'
      PROVE  Walking'
  <2>1. VerifiedUsers /\ Walking /\ OneSubmission /\ UNCHANGED flow
    BY <1>1, Writers DEF VerifiedInv, VerifiedUsers, WalkInv
  <2>2. \A q \in Requests : Walker(q)'
    BY <1>1, <2>1, OwnWalk, OthersWalk
  <2>3. /\ is_completed' => idx' = Len(flow.entries)
        /\ passed' = IF is_completed' THEN Entries ELSE 1 .. (idx' - 1)
    <3>1. CASE Advance(r)
      <4>1. ~is_completed => req[r].entry = idx
        BY <3>1, <2>1 DEF Walking, Working, Advance, At
      <4> DEFINE n == Len(flow.entries)
      <4>2. n \in Nat /\ idx \in 1 .. n /\ Entries = 1 .. n
        BY ExecutionAssumption DEF TypeInv, TypeOK, Entries
      <4>3. /\ is_completed => idx = n
            /\ passed = IF is_completed THEN 1 .. n ELSE 1 .. (idx - 1)
        BY <2>1, <4>2 DEF Walking
      <4>4. /\ IF idx + 1 \in 1 .. n THEN idx' = idx + 1 /\ is_completed' = is_completed
                                     ELSE is_completed' = TRUE /\ idx' = idx
            /\ passed' = IF req[r].entry = idx THEN passed \cup {idx} ELSE passed
        BY <3>1, <4>2 DEF Advance, CompleteCurrent
      <4> HIDE DEF n
      <4>5. /\ is_completed' => idx' = n
            /\ passed' = IF is_completed' THEN 1 .. n ELSE 1 .. (idx' - 1)
        <5>1. CASE is_completed
          <6>1. idx = n /\ passed = 1 .. n
            BY <4>3, <5>1
          <6>2. idx + 1 \notin 1 .. n
            BY <4>2, <6>1
          <6>3. is_completed' /\ idx' = idx
            BY <4>4, <6>2
          <6>4. passed' = passed
            BY <4>2, <4>4, <6>1
          <6> QED
            BY <6>1, <6>3, <6>4
        <5>2. CASE ~is_completed /\ idx + 1 \in 1 .. n
          <6>1. passed = 1 .. (idx - 1) /\ passed' = passed \cup {idx}
            BY <4>1, <4>3, <4>4, <5>2
          <6>2. ~is_completed' /\ idx' = idx + 1
            BY <4>4, <5>2
          <6>3. passed' = 1 .. (idx' - 1)
            BY <4>2, <6>1, <6>2
          <6> QED
            BY <6>2, <6>3
        <5>3. CASE ~is_completed /\ idx + 1 \notin 1 .. n
          <6>1. passed = 1 .. (idx - 1) /\ passed' = passed \cup {idx}
            BY <4>1, <4>3, <4>4, <5>3
          <6>2. is_completed' /\ idx' = idx /\ idx = n
            BY <4>2, <4>4, <5>3
          <6>3. passed' = 1 .. n
            BY <4>2, <6>1, <6>2
          <6> QED
            BY <6>2, <6>3
        <5> QED
          BY <5>1, <5>2, <5>3
      <4> QED
        BY <4>2, <4>5 DEF n
    <3>2. CASE ~Advance(r)
      BY <1>1, <3>2, <2>1, Writers DEF Walking
    <3> QED
      BY <3>1, <3>2
  <2> QED
    BY <2>1, <2>2, <2>3 DEF Walking, Walker, Entries
<1>2. ASSUME NEW r \in Requests, Send(r), ~overlap' PROVE Walking'
  <2>1. Walking /\ UNCHANGED <<flow, idx, is_completed, passed>>
    BY <1>2, SendMoves, SendCarries DEF WalkInv, execution
  <2>2. \A q \in Requests : Walker(q)'
    BY <1>2, <2>1, SentWalk
  <2> QED
    BY <2>1, <2>2 DEF Walking, Walker, Entries
<1>3. CASE Expire \/ UNCHANGED vars
  <2>1. UNCHANGED <<execution, context, req, verified, passed, overlap>>
    BY <1>3 DEF Expire, vars, execution, context, history
  <2> QED
    BY <2>1
    DEF execution, context, WalkInv, Walking, Remembered, Working, Showing,
        PassedLogin, Satisfied, Stage, Entries
<1> QED
  BY <1>1, <1>2, <1>3 DEF Next, WalkInv

\* A new execution has walked nowhere.
LEMMA WalkInit == Init => WalkInv
<1> SUFFICES ASSUME Init PROVE Walking
  BY DEF WalkInv
<1>1. \A r \in Requests : req[r] = Blank
  BY DEF Init
<1>2. \A r \in Requests : Remembered(r) /\ Working(r) /\ Showing(r)
  BY <1>1
  DEF Init, Blank, Remembered, Working, Showing, WorkPoints, HandlePoints
<1> QED
  BY <1>2 DEF Init, Walking

\* The inductive invariants of the walk hold in every behaviour: who works on an
\* entry of the execution works on the one current_entry_idx points at.
THEOREM WalkInvariant == Spec => [](TypeInv /\ VerifiedInv /\ WalkInv)
<1>1. Init => VerifiedInv
  BY DEF Init, VerifiedInv, VerifiedUsers, OneSubmission, Posting, InFlight,
         NoPending, Blank
<1> QED
  BY <1>1, InitType, TypeStep, VerifiedStep, WalkInit, WalkStep, PTL DEF Spec

\* While submissions do not overlap no entry is skipped, whatever fails and however
\* many pages are asked for meanwhile: complete_current counts up from an index that
\* it reads anew, and the submission that calls it worked on that very entry.
THEOREM EntriesPassed == Spec => []NoEntrySkipped
<1>1. WalkInv => NoEntrySkipped
  BY DEF WalkInv, Walking, NoEntrySkipped
<1> QED
  BY <1>1, WalkInvariant, PTL

\* A page shows the component of an entry whose bindings its request has checked, or
\* of one passed meanwhile, although data() reads the entry before it awaits the
\* stage and checks whatever entry is current after that.
THEOREM PagesChecked == Spec => []PageChecked
<1>1. WalkInv => PageChecked
  BY DEF WalkInv, Walking, Showing, PageChecked
<1> QED
  BY <1>1, WalkInvariant, PTL

-----------------------------------------------------------------------------
(* The execution implements the walk *)

\* The entries passed are those behind the walk's position.
LEMMA PassedBehind ==
  ASSUME TypeInv, Walking
  PROVE  passed \subseteq Walk!Behind
<1>1. idx \in Entries /\ Entries \subseteq Nat /\ Entries = 1 .. Len(flow.entries)
  BY DEF TypeInv, TypeOK, Entries
<1> QED
  BY <1>1 DEF Walking, Walk!Behind

\* A submission's step, while it is the only one, is a step of the walk or none.
LEMMA SubmissionWalks ==
  ASSUME TypeInv, VerifiedUsers, Walking, NEW r \in Requests,
         Handle(r) \/ Abort(r) \/ Settle(r)
  PROVE  [Walk!Next]_(Walk!walk)
<1> DEFINE q == req[r]
<1>1. q \in RequestStates /\ RequestShape(q) /\ Working(r) /\ TypeOK
  BY GoodRequests DEF Good, Walking, TypeInv
<1>2. /\ pending \in Pendings /\ idx \in Entries /\ Entries \subseteq Nat
      /\ Entries = 1 .. Len(flow.entries)
  BY <1>1 DEF TypeOK, Entries
<1>3. /\ UNCHANGED flow
      /\ Advance(r) \/ UNCHANGED <<idx, is_completed>>
      /\ Identify(r) \/ Authenticate(r) \/ UNCHANGED pending
      /\ VerifyPassword(r) \/ UNCHANGED verified
      /\ Commit(r) \/ Settle(r) \/ UNCHANGED user_id
  BY Writers
<1> USE DEF At, execution, context, durable, history, Working, WorkPoints, HandlePoints,
            Stage, AsksPassword, Walk!Here, Walk!AsksPassword
<1>4. CASE Identify(r)
  <2>1. /\ ~is_completed /\ flow.entries[idx].stage.kind = "Identification"
        /\ q.found \in Users
    BY <1>1, <1>4 DEF Identify
  <2>2. pending'.uid = q.found /\ pending'.authenticated = FALSE
    BY <1>4 DEF Identify
  <2>3. UNCHANGED <<flow, idx, is_completed, verified, user_id>>
    BY <1>4 DEF Identify
  <2> QED
    BY <2>1, <2>2, <2>3 DEF Walk!Next, Walk!Identify
<1>5. CASE VerifyPassword(r)
  <2>1. UNCHANGED <<flow, idx, is_completed, pending, user_id>>
    BY <1>5 DEF VerifyPassword
  <2>2. CASE UNCHANGED verified
    BY <2>1, <2>2 DEF Walk!walk
  <2>3. CASE verified' = verified \cup {q.snap.uid}
    <3>1. /\ ~is_completed /\ Walk!AsksPassword /\ Walk!Here.internal
          /\ pending.uid = q.snap.uid /\ pending.uid # NoUser
      BY <1>1, <1>5, UsersAssumption DEF VerifyPassword, VerifiedUsers, RequestShape
    <3> QED
      BY <2>1, <2>3, <3>1 DEF Walk!Next, Walk!Prove
  <2> QED
    BY <1>5, <2>2, <2>3 DEF VerifyPassword
<1>6. CASE Authenticate(r)
  <2>1. UNCHANGED <<flow, idx, is_completed, verified, user_id>>
    BY <1>6 DEF Authenticate
  <2>2. /\ ~is_completed /\ Walk!AsksPassword
        /\ pending.uid \in verified /\ pending.uid # NoUser
    BY <1>1, <1>6, UsersAssumption DEF Authenticate, VerifiedUsers, RequestShape
  <2>3. pending' = [pending EXCEPT !.authenticated = TRUE]
    BY <1>6, <2>2 DEF Authenticate
  <2>4. pending'.uid = pending.uid /\ pending'.authenticated = TRUE
    BY <2>3, <1>2 DEF Pendings
  <2> QED
    BY <2>1, <2>2, <2>4 DEF Walk!Next, Walk!Mark
<1>7. CASE Advance(r)
  <2>1. UNCHANGED <<flow, pending, verified, user_id>>
    BY <1>7 DEF Advance
  <2>2. CASE is_completed
    <3>1. UNCHANGED <<idx, is_completed>>
      <4>1. idx = Len(flow.entries) /\ is_completed = TRUE
        BY <2>2, <1>1 DEF Walking, TypeOK
      <4>2. idx + 1 \notin Entries
        BY <4>1, <1>2
      <4> QED
        BY <4>1, <4>2, <1>7 DEF Advance, CompleteCurrent
    <3> QED
      BY <2>1, <3>1 DEF Walk!walk
  <2>3. CASE ~is_completed
    <3>1. Satisfied(Stage(idx))
      BY <1>1, <1>7, <2>3 DEF Advance
    <3>2. /\ Walk!Here.kind = "Identification" => pending.uid # NoUser
          /\ Walk!AsksPassword => pending.authenticated
      BY <3>1 DEF Satisfied
    <3>3. IF idx < Len(flow.entries)
            THEN idx' = idx + 1 /\ UNCHANGED is_completed
            ELSE is_completed' = TRUE /\ UNCHANGED idx
      BY <1>2, <1>7 DEF Advance, CompleteCurrent
    <3> QED
      BY <2>1, <2>3, <3>2, <3>3 DEF Walk!Next, Walk!Advance
  <2> QED
    BY <2>2, <2>3
<1>8. CASE Commit(r) \/ Settle(r)
  <2>1. UNCHANGED <<flow, idx, is_completed, pending, verified>>
    BY <1>8 DEF Commit, Settle
  <2>2. CASE UNCHANGED user_id
    BY <2>1, <2>2 DEF Walk!walk
  <2>3. CASE user_id' = q.tx /\ q.tx # NoUser
    <3>1. q.pc # "advance"
      BY <1>8 DEF Commit, Settle
    <3>2. PICK i \in passed : Stage(i).kind = "UserLogin"
      BY <1>1, <2>3, <3>1 DEF PassedLogin
    <3>3. i \in Walk!Behind /\ flow.entries[i].stage.kind = "UserLogin"
      BY <3>2, PassedBehind
    <3>4. q.tx \in verified
      BY <2>3 DEF VerifiedUsers
    <3> QED
      BY <2>1, <2>3, <3>3, <3>4 DEF Walk!Next, Walk!Bind
  <2> QED
    BY <1>8, <2>2, <2>3 DEF Commit, Settle
<1>9. CASE ~(\/ Identify(r) \/ VerifyPassword(r) \/ Authenticate(r) \/ Advance(r)
             \/ Commit(r) \/ Settle(r))
  BY <1>3, <1>9 DEF Walk!walk
<1> QED
  BY <1>4, <1>5, <1>6, <1>7, <1>8, <1>9

\* So is every step of the specification.
LEMMA StepWalks ==
  ASSUME TypeInv, VerifiedInv, WalkInv, ~overlap, [Next]_vars
  PROVE  [Walk!Next]_(Walk!walk)
<1>1. VerifiedUsers /\ Walking
  BY DEF VerifiedInv, WalkInv
<1>2. ASSUME NEW r \in Requests, Send(r)  PROVE UNCHANGED Walk!walk
  BY <1>2, SendCarries DEF execution, context, durable, Walk!walk
<1>3. CASE Expire \/ UNCHANGED vars
  BY <1>3 DEF Expire, vars, execution, context, durable, history, Walk!walk
<1> QED
  BY <1>1, <1>2, <1>3, SubmissionWalks DEF Next

\* As long as no two submissions are handled at the same time, an execution is a walk
\* along its flow (FlowWalk), whatever pages are shown, whatever fails and whenever
\* the browser or the one second timeout gives a request up: the steps of flow.rs
\* between two accesses to the context, the entry index or the row are each a step
\* of the walk or change nothing of it.
THEOREM ImplementsWalk == Spec /\ [](~overlap) => WalksTheFlow
<1>1. Init => Walk!Init
  BY DEF Init, Walk!Init, NoPending
<1> QED
  BY <1>1, StepWalks, WalkInvariant, PTL DEF Spec, WalksTheFlow, Walk!Spec

\* Nobody posts beside another submission when one at a time is let through.
LEMMA NoOverlap ==
  ASSUME MaxPosting <= 1, TypeInv, VerifiedInv, ~overlap, [Next]_vars
  PROVE  ~overlap'
<1>1. ASSUME NEW r \in Requests, Send(r) PROVE ~overlap'
  <2>1. PICK m \in Methods :
          /\ m = "POST" => Cardinality({q \in Requests : Posting(q)}) < MaxPosting
          /\ overlap' = (overlap \/ (m = "POST" /\ \E q \in Requests : Posting(q)))
    BY <1>1 DEF Send
  <2>2. ASSUME m = "POST", NEW q \in Requests, Posting(q) PROVE FALSE
    <3> DEFINE Posters == {p \in Requests : Posting(p)}
    <3>1. Posters = {q}
      BY <2>2 DEF VerifiedInv, VerifiedUsers, OneSubmission
    <3>2. Cardinality(Posters) = 1
      BY <3>1, FS_Singleton
    <3>3. Cardinality(Posters) < MaxPosting
      BY <2>1, <2>2
    <3> HIDE DEF Posters
    <3> QED
      BY <3>2, <3>3, ExecutionAssumption
  <2> QED
    BY <2>1, <2>2
<1>2. ASSUME NEW r \in Requests, Handle(r) \/ Abort(r) \/ Settle(r) PROVE ~overlap'
  BY <1>2, Writers
<1>3. CASE Expire \/ UNCHANGED vars
  BY <1>3 DEF Expire, vars, history
<1> QED
  BY <1>1, <1>2, <1>3 DEF Next

\* A browser that sends one submission at a time has that: the execution it submits
\* to implements FlowWalk, for every number of requests, of GETs in flight and every
\* flow.
THEOREM OneAtATimeWalks ==
  ASSUME MaxPosting <= 1
  PROVE  Spec => WalksTheFlow
<1>1. Init => ~overlap
  BY DEF Init
<1>2. TypeInv /\ VerifiedInv /\ ~overlap /\ [Next]_vars => ~overlap'
  BY NoOverlap
<1>3. Spec => [](~overlap)
  BY <1>1, <1>2, WalkInvariant, PTL DEF Spec
<1> QED
  BY <1>3, ImplementsWalk, PTL

\* An entry whose bindings pass admits the user, whatever the policies said: the
\* first binding that does not pass would have decided.
LEMMA PassAdmits ==
  ASSUME TypeOK, NEW entry \in Entries, NEW user, NEW ast,
         CheckBindings(flow.entries[entry].bindings, user, ast) = "pass"
  PROVE  Admits(entry, user)
<1> DEFINE bindings == flow.entries[entry].bindings
           verdict(i) == CheckBinding(bindings[i], user, ast)
           Refused == {i \in DOMAIN bindings : verdict(i) # "pass"}
<1>1. DOMAIN bindings = 1 .. Len(bindings) /\ Len(bindings) \in Nat
  BY ExecutionAssumption DEF TypeOK, Entries
<1>2. Refused = {}
  <2> SUFFICES ASSUME Refused # {} PROVE FALSE
    OBVIOUS
  <2>1. Refused \subseteq Nat
    BY <1>1
  <2>2. PICK i \in Refused : \A j \in Refused : <<j, i>> \notin OpToRel(<, Nat)
    BY <2>1, WFMin, NatLessThanWellFounded, Zenon
  <2>3. \A j \in Refused : ~(j < i)
    BY <2>1, <2>2, Zenon DEF OpToRel
  <2>4. \A j \in 1 .. (i - 1) : verdict(j) = "pass"
    BY <1>1, <2>3
  <2>5. i \in DOMAIN bindings /\ verdict(i) # "pass"
    OBVIOUS
  <2> QED
    BY <2>4, <2>5 DEF CheckBindings
<1>3. ASSUME NEW i \in DOMAIN bindings, bindings[i].kind = "User"
      PROVE  CheckBinding(bindings[i], user, [e \in Expressions |-> "true"]) = "pass"
  BY <1>2, <1>3 DEF CheckBinding, BindingOutput
<1> QED
  BY <1>3 DEF Admits

-----------------------------------------------------------------------------
(* What a login leaves *)

\* The fields of r's record that decide about access and binding.
Preserved(r) ==
  /\ req'[r].method = req[r].method /\ req'[r].user = req[r].user
  /\ req'[r].checked = req[r].checked /\ req'[r].in_data = req[r].in_data
  /\ req'[r].snap = req[r].snap /\ req'[r].jar = req[r].jar
  /\ req'[r].tx = req[r].tx /\ req'[r].iterations = req[r].iterations

\* The request that takes a step keeps its access decision and the user it binds:
\* nobody else commits, moves the index or replaces the pending user meanwhile.
LEMMA OwnLogin ==
  ASSUME TypeInv, VerifiedUsers, Walking, Undisturbed, NEW r \in Requests,
         Handle(r) \/ Abort(r) \/ Settle(r), ~faulted'
  PROVE  Held(r)'
<1> DEFINE q == req[r]
<1>1. q \in RequestStates /\ RequestShape(q)
  BY GoodRequests DEF Good
<1>2. TypeOK /\ pending \in Pendings
  BY DEF TypeInv, TypeOK
<1>3. Admitted(r) /\ BindingOf(r)
  BY DEF Undisturbed, Held
<1>4. ASSUME NEW p, Go(r, p) PROVE req'[r].pc = p /\ Preserved(r)
  BY <1>2, <1>4, GoCarries DEF Carried, Preserved
<1>5. ASSUME NEW o, Return(r, o)
      PROVE  /\ req'[r].pc = "respond" /\ req'[r].tx = NoUser
             /\ req'[r].method = q.method /\ req'[r].jar = q.jar
  BY <1>2, <1>5, ReturnCarries
<1>6. ASSUME NEW o, Become(r, Dropped(o))
      PROVE  /\ req'[r].pc = "done" /\ req'[r].tx = NoUser /\ req'[r].jar = NoUser
             /\ req'[r].iterations = 0
  BY <1>2, <1>6, DroppedForgets
<1>7. ASSUME NEW x, Become(r, x) PROVE req'[r] = x
  BY <1>2, <1>7, BecomeEffect
<1>8. /\ UNCHANGED flow
      /\ Advance(r) \/ UNCHANGED <<idx, is_completed>>
      /\ Identify(r) \/ Authenticate(r) \/ UNCHANGED pending
      /\ SetError(r) \/ UNCHANGED error
      /\ Commit(r) \/ Settle(r) \/ UNCHANGED user_id
  BY Writers
<1>9. ASSUME LocalStep(r)
      PROVE  UNCHANGED <<flow, idx, is_completed, pending, error, user_id>>
  BY <1>9, LocalSteps DEF execution, context, durable
<1>10. ASSUME q.pc \notin LoopPoints \cup {"respond"}
       PROVE  q.tx = NoUser /\ q.jar = NoUser /\ ~(q.iterations > 0)
  BY <1>3, <1>10 DEF Admitted, BindingOf, LoopPoints
<1> USE DEF At, Held, Admitted, Admits, BindingOf, InFlight, HandlePoints, LoopPoints,
            Preserved
<1>11. CASE GetUser(r)
  <2>1. UNCHANGED <<flow, idx, is_completed, pending, error, user_id>>
    BY <1>11, <1>9 DEF LocalStep
  <2> QED
    BY <1>11, <2>1, <1>3, <1>4 DEF GetUser
<1>12. CASE GetCheckContext(r)
  <2>1. UNCHANGED <<flow, idx, is_completed, pending, error, user_id>>
    BY <1>12, <1>9 DEF LocalStep
  <2> QED
    BY <1>12, <2>1, <1>3, <1>4 DEF GetCheckContext
<1>13. CASE DataStage(r)
  <2>1. UNCHANGED <<flow, idx, is_completed, pending, error, user_id>>
    BY <1>13, <1>9 DEF LocalStep
  <2> QED
    BY <1>13, <2>1, <1>3, <1>4 DEF DataStage
<1>14. CASE HandleSubmission(r)
  <2>1. UNCHANGED <<flow, idx, is_completed, pending, error, user_id>>
    BY <1>14, <1>9 DEF LocalStep
  <2> QED
    BY <1>14, <2>1, <1>3, <1>4 DEF HandleSubmission
<1>15. CASE LookupPasswordStage(r)
  <2>1. UNCHANGED <<flow, idx, is_completed, pending, error, user_id>>
    BY <1>15, <1>9 DEF LocalStep
  <2> QED
    BY <1>15, <2>1, <1>3, <1>4, <1>6 DEF LookupPasswordStage
<1>16. CASE Loop(r)
  <2>1. UNCHANGED <<flow, idx, is_completed, pending, error, user_id>>
    BY <1>16, <1>9 DEF LocalStep
  <2> QED
    BY <1>16, <2>1, <1>3, <1>4 DEF Loop
<1>17. CASE HandleStage(r)
  <2>1. UNCHANGED <<flow, idx, is_completed, pending, error, user_id>>
    BY <1>17, <1>9 DEF LocalStep
  <2> QED
    BY <1>17, <2>1, <1>3, <1>4 DEF HandleStage, Refuse
<1>18. CASE GetExecution(r)
  <2>1. UNCHANGED <<flow, idx, is_completed, pending, error, user_id>>
    BY <1>18, <1>9 DEF LocalStep
  <2> QED
    BY <1>18, <2>1, <1>3, <1>4, <1>5, <1>10 DEF GetExecution
<1>19. CASE DataPending(r)
  <2>1. UNCHANGED <<flow, idx, is_completed, pending, error, user_id>>
    BY <1>19, <1>9 DEF LocalStep
  <2> QED
    BY <1>19, <2>1, <1>3, <1>5, <1>10 DEF DataPending
<1>20. CASE ExtractSession(r)
  <2>1. UNCHANGED <<flow, idx, is_completed, pending, error, user_id>>
    BY <1>20, <1>9 DEF LocalStep
  <2>2. /\ req'[r].pc = "execution"
        /\ req'[r].user = user_id
        /\ req'[r].method = q.method
        /\ req'[r].checked = q.checked
        /\ req'[r].in_data = q.in_data
        /\ req'[r].snap = q.snap
        /\ req'[r].jar = q.jar
        /\ req'[r].tx = q.tx
        /\ req'[r].iterations = q.iterations
    BY <1>20, <1>1, <1>2, <1>7 DEF ExtractSession, RequestStates
  <2> QED
    BY <1>20, <2>1, <2>2, <1>1, <1>3 DEF ExtractSession
<1>21. CASE CheckEntry(r)
  <2>1. UNCHANGED <<flow, idx, is_completed, pending, error, user_id>>
    BY <1>21, <1>9 DEF LocalStep
  <2>2. /\ req'[r].pc = "check_bindings"
        /\ req'[r].checked = idx
        /\ req'[r].method = q.method
        /\ req'[r].user = q.user
        /\ req'[r].in_data = q.in_data
        /\ req'[r].snap = q.snap
        /\ req'[r].jar = q.jar
        /\ req'[r].tx = q.tx
        /\ req'[r].iterations = q.iterations
    BY <1>21, <1>1, <1>2, <1>7 DEF CheckEntry, RequestStates
  <2> QED
    BY <1>21, <2>1, <2>2, <1>1, <1>3 DEF CheckEntry
<1>22. CASE GetEntry(r)
  <2>1. UNCHANGED <<flow, idx, is_completed, pending, error, user_id>>
    BY <1>22, <1>9 DEF LocalStep
  <2>2. req'[r].pc = "stage" /\ Preserved(r)
    BY <1>22, <1>1, <1>2, <1>7 DEF GetEntry, RequestStates
  <2> QED
    BY <1>22, <2>1, <2>2, <1>3 DEF GetEntry
<1>23. CASE LoopEntry(r)
  <2>1. UNCHANGED <<flow, idx, is_completed, pending, error, user_id>>
    BY <1>23, <1>9 DEF LocalStep
  <2>2. req'[r].pc = "loop_stage" /\ Preserved(r)
    BY <1>23, <1>1, <1>2, <1>7 DEF LoopEntry, RequestStates
  <2> QED
    BY <1>23, <2>1, <2>2, <1>3 DEF LoopEntry
<1>24. CASE DataCompleted(r)
  <2>1. UNCHANGED <<flow, idx, is_completed, pending, error, user_id>>
    BY <1>24, <1>9 DEF LocalStep
  <2>2. req'[r].pc = "check" /\ Preserved(r)
    BY <1>24, <1>1, <1>2, <1>7 DEF DataCompleted, RequestStates
  <2> QED
    BY <1>24, <2>1, <2>2, <1>3 DEF DataCompleted
<1>25. CASE ReadContext(r)
  <2>1. UNCHANGED <<flow, idx, is_completed, pending, error, user_id>>
    BY <1>25, <1>9 DEF LocalStep
  <2>2. req'[r].pc = q.pc /\ Preserved(r)
    BY <1>25, <1>1, <1>2, <1>7 DEF ReadContext, RequestStates
  <2> QED
    BY <1>25, <2>1, <2>2, <1>3 DEF ReadContext
<1>26. CASE DataEntry(r)
  <2>1. UNCHANGED <<flow, idx, is_completed, pending, error, user_id>>
    BY <1>26, <1>9 DEF LocalStep
  <2>2. /\ req'[r].pc = "data_stage"
        /\ req'[r].method = q.method
        /\ req'[r].user = q.user
        /\ req'[r].checked = q.checked
        /\ req'[r].snap = q.snap
        /\ req'[r].jar = q.jar
        /\ req'[r].tx = q.tx
        /\ req'[r].iterations = q.iterations
    BY <1>26, <1>1, <1>2, <1>7 DEF DataEntry, RequestStates
  <2> QED
    BY <1>26, <2>1, <2>2, <1>1, <1>3 DEF DataEntry
<1>27. CASE UpdateSession(r)
  <2>1. UNCHANGED <<flow, idx, is_completed, pending, error, user_id>>
    BY <1>27, <1>9 DEF LocalStep
  <2>2. /\ req'[r].pc = "advance"
        /\ req'[r].tx = q.snap.uid
        /\ req'[r].method = q.method
        /\ req'[r].user = q.user
        /\ req'[r].checked = q.checked
        /\ req'[r].in_data = q.in_data
        /\ req'[r].snap = q.snap
        /\ req'[r].jar = q.jar
        /\ req'[r].iterations = q.iterations
    BY <1>27, <1>1, <1>2, <1>7 DEF UpdateSession, RequestStates
  <2> QED
    BY <1>27, <2>1, <2>2, <1>1, <1>3, UsersAssumption DEF UpdateSession, RequestShape
<1>28. CASE LookupUser(r)
  <2>1. UNCHANGED <<flow, idx, is_completed, pending, error, user_id>>
    BY <1>28, <1>9 DEF LocalStep
  <2>2. q.pc = "lookup_user"
    BY <1>28 DEF LookupUser
  <2>3. ASSUME NEW u \in Users, Become(r, [q EXCEPT !.pc = "identify", !.found = u])
        PROVE  Held(r)'
    <3>1. req'[r].pc = "identify" /\ Preserved(r)
      BY <2>3, <1>1, <1>7 DEF RequestStates
    <3> QED
      BY <2>1, <2>2, <3>1, <1>3
  <2>4. CASE Refuse(r)
    BY <2>1, <2>2, <2>4, <1>3, <1>4 DEF Refuse
  <2> QED
    BY <1>28, <2>3, <2>4 DEF LookupUser
<1>29. CASE ReadPending(r)
  <2>1. UNCHANGED <<flow, idx, is_completed, pending, error, user_id>>
    BY <1>29, <1>9 DEF LocalStep
  <2>2. q.pc = "pending"
    BY <1>29 DEF ReadPending
  <2>3. CASE Become(r, [q EXCEPT !.pc = "password", !.reading = FALSE, !.snap = pending])
    <3>1. /\ req'[r].pc = "password"
          /\ req'[r].method = q.method /\ req'[r].user = q.user
          /\ req'[r].checked = q.checked /\ req'[r].jar = q.jar
          /\ req'[r].tx = q.tx /\ req'[r].iterations = q.iterations
      BY <2>3, <1>1, <1>7 DEF RequestStates
    <3> QED
      BY <2>1, <2>2, <3>1, <1>3
  <2>4. CASE Refuse(r)
    BY <2>1, <2>2, <2>4, <1>3, <1>4 DEF Refuse
  <2> QED
    BY <1>29, <2>3, <2>4 DEF ReadPending
<1>30. CASE UserLogin(r)
  <2>1. UNCHANGED <<flow, idx, is_completed, pending, error, user_id>>
    BY <1>30, <1>9 DEF LocalStep
  <2>2. q.pc = "login"
    BY <1>30 DEF UserLogin
  <2>3. CASE Become(r, [q EXCEPT !.pc = "update", !.reading = FALSE, !.snap = pending,
                                 !.jar = pending.uid])
    <3>1. /\ req'[r].pc = "update"
          /\ req'[r].snap = pending /\ req'[r].jar = pending.uid
          /\ req'[r].method = q.method /\ req'[r].user = q.user
          /\ req'[r].tx = q.tx
      BY <2>3, <1>1, <1>7 DEF RequestStates
    <3>2. q.method = "POST"
      BY <2>2, <1>1 DEF RequestShape, PostPoints
    <3> QED
      BY <2>1, <2>2, <3>1, <3>2, <1>3
  <2>4. CASE pending.uid = NoUser /\ Return(r, "failed")
    BY <2>1, <2>2, <2>4, <1>3, <1>5
  <2>5. CASE Go(r, "set_error")
    BY <2>1, <2>2, <2>5, <1>3, <1>4
  <2> QED
    BY <1>30, <2>3, <2>4, <2>5 DEF UserLogin
<1>31. CASE Component(r)
  <2>1. UNCHANGED <<flow, idx, is_completed, pending, error, user_id>>
    BY <1>31, <1>9 DEF LocalStep
  <2>2. q.pc = "component"
    BY <1>31 DEF Component
  <2>3. ASSUME NEW o, Become(r, [q EXCEPT !.pc = "data_pending", !.reading = FALSE,
                                          !.outcome = o])
        PROVE  Held(r)'
    <3>1. req'[r].pc = "data_pending" /\ Preserved(r)
      BY <2>3, <1>1, <1>7 DEF RequestStates
    <3> QED
      BY <2>1, <2>2, <3>1, <1>3
  <2>4. CASE Become(r, Dropped("panicked"))
    BY <2>4, <1>6
  <2> QED
    BY <1>31, <2>3, <2>4 DEF Component
<1>32. CASE Answer(r)
  <2>1. UNCHANGED <<flow, idx, is_completed, pending, error, user_id>>
    BY <1>32 DEF Answer, execution, context, durable
  <2>2. q.pc = "answer"
    BY <1>32 DEF Answer
  <2>3. ASSUME NEW o, Become(r, [q EXCEPT !.pc = "data_pending", !.outcome = o])
        PROVE  Held(r)'
    <3>1. req'[r].pc = "data_pending" /\ Preserved(r)
      BY <2>3, <1>1, <1>7 DEF RequestStates
    <3> QED
      BY <2>1, <2>2, <3>1, <1>3
  <2>4. CASE Go(r, "component")
    BY <2>1, <2>2, <2>4, <1>3, <1>4
  <2> QED
    BY <1>32, <2>3, <2>4 DEF Answer
<1>33. CASE Check(r)
  <2>1. UNCHANGED <<flow, idx, is_completed, pending, error, user_id>> /\ q.pc = "check"
    BY <1>33, <1>9 DEF LocalStep, Check
  <2>2. CASE Become(r, Dropped("panicked"))
    BY <2>2, <1>6
  <2>3. CASE Return(r, "denied")
    BY <2>1, <2>3, <1>5, <1>10
  <2>4. CASE Go(r, "data_entry") \/ Go(r, "answer")
    BY <2>1, <2>4, <1>3, <1>4
  <2>5. CASE /\ Holds(AuthenticationOutput(flow.authentication, q.user))
             /\ Go(r, "check_entry")
    BY <2>1, <2>5, <1>3, <1>4
  <2> QED
    BY <1>33, <2>2, <2>3, <2>4, <2>5, CheckLeads
<1>34. CASE CheckEntryBindings(r)
  <2>1. /\ UNCHANGED <<flow, idx, is_completed, pending, error, user_id>>
        /\ q.pc = "check_bindings"
    BY <1>34, <1>9 DEF LocalStep, CheckEntryBindings
  <2>2. CASE Become(r, Dropped("panicked"))
    BY <2>2, <1>6
  <2>3. CASE Return(r, "denied")
    BY <2>1, <2>3, <1>5, <1>10
  <2>4. CASE Go(r, "data_entry") \/ Go(r, "answer")
    BY <2>1, <2>4, <1>3, <1>4
  <2>5. ASSUME ~q.in_data, Go(r, "submission"),
               NEW ast,
               CheckBindings(flow.entries[q.checked].bindings, q.user, ast) = "pass"
        PROVE  Held(r)'
    <3>1. q.checked \in Entries
      BY <2>1, <2>5, <1>2, <1>3 DEF TypeOK
    <3>2. Admits(q.checked, q.user)
      BY <1>2, <2>5, <3>1, PassAdmits
    <3> QED
      BY <2>1, <2>5, <3>2, <1>3, <1>4
  <2> QED
    BY <1>34, <2>2, <2>3, <2>4, <2>5, BindingsLead
<1>35. CASE Identify(r)
  <2>1. UNCHANGED <<flow, idx, is_completed, error, user_id>> /\ q.pc = "identify"
    BY <1>35 DEF Identify, execution, durable
  <2> QED
    BY <1>35, <2>1, <1>3, <1>4, <1>10 DEF Identify
<1>36. CASE VerifyPassword(r)
  <2>1. /\ UNCHANGED <<flow, idx, is_completed, pending, error, user_id>>
        /\ q.pc = "password"
    BY <1>36 DEF VerifyPassword, execution, context, durable
  <2> QED
    BY <1>36, <2>1, <1>3, <1>4 DEF VerifyPassword, Refuse
<1>37. CASE Authenticate(r)
  <2>1. UNCHANGED <<flow, idx, is_completed, error, user_id>> /\ q.pc = "authenticate"
    BY <1>37 DEF Authenticate, execution, durable
  <2>2. Go(r, "advance")
    BY <1>37 DEF Authenticate
  <2> QED
    BY <2>1, <2>2, <1>3, <1>4, <1>10
<1>38. CASE Advance(r)
  <2>1. UNCHANGED <<flow, pending, error, user_id>> /\ q.pc = "advance" /\ Go(r, "loop")
    BY <1>38 DEF Advance, context, durable
  <2> QED
    BY <2>1, <1>3, <1>4
<1>39. CASE LoopStage(r)
  <2>1. /\ UNCHANGED <<flow, idx, is_completed, pending, error, user_id>>
        /\ q.pc = "loop_stage"
    BY <1>39 DEF LoopStage, execution, context, durable
  <2>2. ASSUME NEW i, Become(r, [q EXCEPT !.pc = "login", !.reading = FALSE,
                                          !.iterations = i])
        PROVE  Held(r)'
    <3>1. /\ req'[r].pc = "login"
          /\ req'[r].method = q.method /\ req'[r].user = q.user
          /\ req'[r].jar = q.jar /\ req'[r].tx = q.tx
      BY <2>2, <1>1, <1>7 DEF RequestStates
    <3> QED
      BY <2>1, <3>1, <1>3
  <2>3. CASE Go(r, "commit")
    BY <2>1, <2>3, <1>3, <1>4
  <2>4. CASE Become(r, Dropped("panicked"))
    BY <2>4, <1>6
  <2> QED
    BY <1>39, <2>2, <2>3, <2>4 DEF LoopStage, EndLoop
<1>40. CASE SetError(r)
  <2>1. UNCHANGED <<flow, idx, is_completed, pending, user_id>> /\ q.pc = "set_error"
    BY <1>40 DEF SetError, execution, durable
  <2>2. Go(r, "commit") /\ error'
    BY <1>40 DEF SetError, EndLoop
  <2> QED
    BY <2>1, <2>2, <1>3, <1>4
<1>41. CASE Commit(r)
  <2>1. UNCHANGED <<flow, idx, is_completed, pending, error>> /\ q.pc = "commit"
    BY <1>41 DEF Commit, execution, context
  <2>2. /\ req'[r].pc = "respond" /\ req'[r].tx = NoUser
        /\ req'[r].method = q.method /\ req'[r].jar = q.jar
        /\ user_id' = IF q.tx = NoUser THEN user_id ELSE q.tx
    BY <1>41, <1>5 DEF Commit
  <2> QED
    BY <2>1, <2>2, <1>3
<1>42. CASE ContextLocked(r)
  <2> QED
    BY <1>42, <1>6 DEF ContextLocked
<1>43. CASE Respond(r)
  <2>1. UNCHANGED user_id /\ q.pc = "respond"
    BY <1>43 DEF Respond
  <2>2. /\ req'[r].pc = "done" /\ req'[r].tx = q.tx /\ req'[r].jar = NoUser
        /\ req'[r].iterations = 0
    BY <1>43, <1>2, DroppedForgets DEF Respond
  <2> QED
    BY <2>1, <2>2, <1>3
<1>44. CASE Abort(r)
  <2>1. q.pc \notin LoopPoints /\ q.tx = NoUser /\ q.jar = NoUser
    <3>1. q.pc \notin LoopPoints /\ (q.pc = "respond" => q.jar = NoUser)
      BY <1>44 DEF Abort, Awaiting, AwaitPoints, AdvancedPoints
    <3> QED
      BY <3>1, <1>3, <1>10
  <2>2. \/ Become(r, [Dropped("none") EXCEPT !.tx = NoUser])
        \/ /\ q.pc # "respond"
           /\ Become(r, [q EXCEPT !.pc = "respond", !.reading = FALSE, !.tx = NoUser,
                                  !.outcome = "failed"])
    BY <1>44, <2>1 DEF Abort, Awaiting, AwaitPoints
  <2>3. CASE Become(r, [Dropped("none") EXCEPT !.tx = NoUser])
    <3>1. /\ req'[r].pc = "done" /\ req'[r].tx = NoUser /\ req'[r].jar = NoUser
          /\ req'[r].iterations = 0
      BY <2>3, <1>2, DroppedForgets
    <3> QED
      BY <3>1
  <2>4. CASE Become(r, [q EXCEPT !.pc = "respond", !.reading = FALSE, !.tx = NoUser,
                                 !.outcome = "failed"])
    <3>1. req'[r].pc = "respond" /\ req'[r].tx = NoUser /\ req'[r].jar = q.jar
      BY <2>4, <1>1, <1>7 DEF RequestStates
    <3> QED
      BY <2>1, <3>1
  <2> QED
    BY <2>2, <2>3, <2>4
<1>45. CASE Settle(r)
  <2> QED
    BY <1>45, <1>3 DEF Settle
<1> QED
  BY <1>11, <1>12, <1>13, <1>14, <1>15, <1>16, <1>17, <1>18, <1>19, <1>20,
     <1>21, <1>22, <1>23, <1>24, <1>25, <1>26, <1>27, <1>28, <1>29, <1>30,
     <1>31, <1>32, <1>33, <1>34, <1>35, <1>36, <1>37, <1>38, <1>39, <1>40,
     <1>41, <1>42, <1>43, <1>44, <1>45
  DEF Handle

\* From complete_current to the commit a request takes the steps of the loop, waits
\* for the guard, or is lost.
LEMMA LoopSteps ==
  ASSUME NEW r, Handle(r) \/ Abort(r) \/ Settle(r), req[r].pc \in LoopPoints
  PROVE  \/ Advance(r) \/ Loop(r) \/ LoopEntry(r) \/ LoopStage(r) \/ UserLogin(r)
         \/ SetError(r) \/ UpdateSession(r) \/ Commit(r) \/ ReadContext(r)
         \/ ContextLocked(r) \/ Abort(r)
  BY DEF Handle, LoopPoints, At, Settle, ExtractSession, GetExecution, GetUser,
         GetCheckContext, Check, CheckEntry, CheckEntryBindings, HandleSubmission,
         GetEntry, HandleStage, LookupUser, Identify, LookupPasswordStage, ReadPending,
         VerifyPassword, Authenticate, DataEntry, DataStage, DataCompleted, Answer,
         Component, DataPending, Respond

\* A response is taken by the browser or lost.
LEMMA ResponseTaken ==
  ASSUME NEW r, Handle(r) \/ Abort(r) \/ Settle(r), req[r].pc = "respond"
  PROVE  Respond(r) \/ Abort(r) \/ Settle(r)
  BY DEF Handle, At, ExtractSession, GetExecution, GetUser,
         GetCheckContext, Check, CheckEntry, CheckEntryBindings, HandleSubmission,
         GetEntry, HandleStage, LookupUser, Identify, LookupPasswordStage, ReadPending,
         VerifyPassword, Authenticate, ContextLocked, WritePoints, Advance, Loop,
         LoopEntry, LoopStage, UserLogin, SetError, UpdateSession, Commit, DataEntry,
         DataStage, DataCompleted, Answer, Component, DataPending, ReadContext,
         ReadPoint, ReadPoints

\* Nothing is left to settle when nothing failed.
LEMMA NothingToSettle ==
  ASSUME Undisturbed, NEW r \in Requests
  PROVE  ~Settle(r)
  BY DEF Undisturbed, Held, Admitted, LoopPoints, Settle

\* The others keep what they hold.
LEMMA OthersLogin ==
  ASSUME TypeInv, OneSubmission, Undisturbed, NEW r \in Requests,
         Handle(r) \/ Abort(r), NEW q \in Requests, q # r
  PROVE  Held(q)'
<1>1. req'[q] = req[q]
  BY OthersKept
<1>2. Admitted(q) /\ BindingOf(q) /\ RequestShape(req[q])
  BY GoodRequests DEF Undisturbed, Held, Good
<1>3. UNCHANGED flow
  BY Writers
<1>4. /\ req[q].pc \in LoopPoints \cup {"submission", "handle_entry"} \cup HandlePoints
           => Posting(q)
      /\ req[q].pc = "check_bindings" /\ ~req[q].in_data => Posting(q)
      /\ req[q].pc = "respond" /\ req[q].method = "POST" => Posting(q)
  BY <1>2
  DEF RequestShape, Posting, InFlight, LoopPoints, HandlePoints, PostPoints
<1>5. CASE Advance(r) \/ Identify(r) \/ Authenticate(r) \/ SetError(r) \/ Commit(r)
  <2>1. ~Posting(q)
    BY <1>5, Movers DEF OneSubmission
  <2> QED
    BY <2>1, <1>1, <1>2, <1>3, <1>4
    DEF Held, Admitted, Admits, BindingOf, InFlight, Posting, LoopPoints
<1>6. CASE ~(Advance(r) \/ Identify(r) \/ Authenticate(r) \/ SetError(r) \/ Commit(r))
  <2>1. ~Settle(r)
    BY NothingToSettle
  <2>2. UNCHANGED <<idx, pending, error, user_id>>
    BY <1>6, <2>1, Writers
  <2> QED
    BY <2>2, <1>1, <1>2, <1>3 DEF Held, Admitted, Admits, BindingOf, InFlight
<1> QED
  BY <1>5, <1>6

\* The cookie follows the row.
LEMMA CookieStep ==
  ASSUME TypeInv, Undisturbed, NEW r \in Requests, Handle(r) \/ Abort(r), ~faulted'
  PROVE  CookieSet'
<1> DEFINE Owed(q) == req[q].pc = "respond" /\ req[q].jar # NoUser
<1>1. CookieSet /\ Admitted(r) /\ BindingOf(r) /\ TypeOK
  BY DEF Undisturbed, Held, TypeInv
<1>2. ASSUME NEW q \in Requests, q # r PROVE req'[q] = req[q]
  BY <1>2, OthersKept
<1>3. ~Settle(r)
  BY NothingToSettle
<1>4. CASE Commit(r)
  <2>1. /\ req'[r].pc = "respond" /\ req'[r].jar = req[r].jar /\ req[r].pc = "commit"
        /\ user_id' = IF req[r].tx = NoUser THEN user_id ELSE req[r].tx
        /\ UNCHANGED cookie
    BY <1>4, <1>1, ReturnCarries DEF Commit, At
  <2>2. CASE req[r].tx # NoUser
    BY <2>1, <2>2, <1>1 DEF BindingOf, CookieSet
  <2>3. CASE req[r].tx = NoUser
    BY <2>1, <2>3, <1>1, <1>2 DEF CookieSet
  <2> QED
    BY <2>2, <2>3
<1>5. CASE Respond(r)
  <2>1. /\ UNCHANGED user_id /\ req[r].pc = "respond"
        /\ cookie' = IF req[r].jar = NoUser THEN cookie ELSE req[r].jar
    BY <1>5 DEF Respond, At
  <2>2. CASE req[r].jar # NoUser
    <3>1. user_id = req[r].jar
      BY <2>1, <2>2, <1>1 DEF BindingOf, LoopPoints
    <3> QED
      BY <2>1, <2>2, <3>1 DEF CookieSet
  <2>3. CASE req[r].jar = NoUser
    BY <2>1, <2>3, <1>1, <1>2 DEF CookieSet
  <2> QED
    BY <2>2, <2>3
<1>6. CASE ~Commit(r) /\ ~Respond(r)
  <2>1. UNCHANGED <<user_id, cookie>>
    BY <1>3, <1>6, Writers
  <2>2. req[r].pc # "respond" \/ req[r].jar = NoUser
    BY <1>3, <1>6, ResponseTaken DEF Abort
  <2> QED
    BY <2>1, <2>2, <1>1, <1>2 DEF CookieSet
<1> QED
  BY <1>4, <1>5, <1>6

\* A transaction that has bound the session's row is committed, unless it is lost.
LEMMA TransactionStays ==
  ASSUME TypeInv, Undisturbed, NEW r \in Requests, Handle(r) \/ Abort(r), ~faulted',
         req[r].tx # NoUser, ~Commit(r), pending.uid # NoUser
  PROVE  req'[r].tx # NoUser
<1> DEFINE q == req[r]
<1>1. q \in RequestStates /\ RequestShape(q) /\ TypeOK /\ q.pc \in LoopPoints
  BY GoodRequests DEF Good, TypeInv, Undisturbed, Held, Admitted
<1>2. ASSUME NEW p, Go(r, p) PROVE req'[r].tx = q.tx
  BY <1>1, <1>2, GoCarries DEF Carried
<1>3. ASSUME NEW x, Become(r, x) PROVE req'[r] = x
  BY <1>1, <1>3, BecomeEffect
<1>4. CASE Advance(r) \/ Loop(r) \/ SetError(r)
  BY <1>2, <1>4 DEF Advance, Loop, SetError, EndLoop
<1>5. CASE LoopEntry(r)
  BY <1>1, <1>3, <1>5 DEF LoopEntry, RequestStates
<1>6. CASE ReadContext(r)
  BY <1>1, <1>3, <1>6 DEF ReadContext, RequestStates
<1>7. CASE UpdateSession(r)
  <2>1. q.snap.uid # NoUser
    BY <1>1, <1>7, UsersAssumption DEF UpdateSession, At, RequestShape
  <2> QED
    BY <2>1, <1>1, <1>3, <1>7 DEF UpdateSession, RequestStates
<1>8. CASE LoopStage(r)
  <2>1. ASSUME NEW i, Become(r, [q EXCEPT !.pc = "login", !.reading = FALSE,
                                          !.iterations = i])
        PROVE  req'[r].tx = q.tx
    BY <2>1, <1>1, <1>3 DEF RequestStates
  <2> QED
    BY <2>1, <1>2, <1>8 DEF LoopStage, EndLoop
<1>9. CASE UserLogin(r)
  <2>1. CASE Become(r, [q EXCEPT !.pc = "update", !.reading = FALSE, !.snap = pending,
                                 !.jar = pending.uid])
    BY <2>1, <1>1, <1>3 DEF RequestStates
  <2> QED
    BY <2>1, <1>2, <1>9 DEF UserLogin
<1>10. CASE ContextLocked(r)
  BY <1>1, <1>10 DEF ContextLocked, WritePoints, LoopPoints, AdvancedPoints
<1>11. CASE Abort(r)
  BY <1>1, <1>11 DEF Abort, Awaiting, At, AwaitPoints, LoopPoints, AdvancedPoints
<1> QED
  BY <1>1, <1>4, <1>5, <1>6, <1>7, <1>8, <1>9, <1>10, <1>11, LoopSteps

\* Who takes a turn of the loop either goes on with it, or leaves it with the user
\* logged in, with the error set, with the flow completed or at an entry that waits
\* for input.
LEMMA TurnStep ==
  ASSUME TypeInv, Walking, Undisturbed, NEW r \in Requests, Handle(r) \/ Abort(r),
         req[r].pc \in Turn, ~faulted', ~error', ~error, pending.uid # NoUser
  PROVE  \/ req'[r].pc \in Turn
         \/ is_completed
         \/ RequiresInput(Stage(idx))
         \/ req'[r].tx # NoUser
<1> DEFINE q == req[r]
<1>1. /\ q \in RequestStates /\ RequestShape(q) /\ TypeOK
      /\ q.pc \in LoopPoints \ {"advance", "commit"}
      /\ Working(r) /\ BindingOf(r)
  BY GoodRequests DEF Good, TypeInv, Walking, Undisturbed, Held, Turn, LoopPoints
<1>2. ASSUME NEW p, Go(r, p) PROVE req'[r].pc = p /\ req'[r].tx = q.tx
  BY <1>1, <1>2, GoCarries DEF Carried
<1>3. ASSUME NEW x, Become(r, x) PROVE req'[r] = x
  BY <1>1, <1>3, BecomeEffect
<1>4. CASE Loop(r)
  BY <1>2, <1>4 DEF Loop, Turn
<1>5. CASE LoopEntry(r)
  BY <1>1, <1>3, <1>5 DEF LoopEntry, RequestStates, Turn
<1>6. CASE ReadContext(r)
  BY <1>1, <1>3, <1>6 DEF ReadContext, RequestStates
<1>7. CASE UpdateSession(r)
  <2>1. q.snap.uid # NoUser
    BY <1>1, <1>7, UsersAssumption DEF UpdateSession, At, RequestShape
  <2> QED
    BY <2>1, <1>1, <1>3, <1>7 DEF UpdateSession, RequestStates
<1>8. CASE LoopStage(r)
  <2>1. q.pc = "loop_stage" /\ q.entry = idx
    BY <1>1, <1>8 DEF LoopStage, At, Working, WorkPoints
  <2>2. ASSUME NEW i, Become(r, [q EXCEPT !.pc = "login", !.reading = FALSE,
                                          !.iterations = i])
        PROVE  req'[r].pc = "login"
    BY <2>2, <1>1, <1>3 DEF RequestStates
  <2>3. ASSUME q.iterations > IterationLimit, Go(r, "commit")
        PROVE  req'[r].tx # NoUser
    <3>1. q.iterations > 0
      BY <2>3, <1>1, ExecutionAssumption DEF RequestStates
    <3> QED
      BY <2>1, <2>3, <3>1, <1>1, <1>2 DEF BindingOf
  <2> QED
    BY <2>1, <2>2, <2>3, <1>8 DEF LoopStage, EndLoop, StageOf, Turn
<1>9. CASE UserLogin(r)
  <2>1. CASE Become(r, [q EXCEPT !.pc = "update", !.reading = FALSE, !.snap = pending,
                                 !.jar = pending.uid])
    BY <2>1, <1>1, <1>3 DEF RequestStates, Turn
  <2> QED
    BY <2>1, <1>2, <1>9 DEF UserLogin, Turn
<1>10. CASE SetError(r)
  BY <1>10 DEF SetError
<1>11. CASE ContextLocked(r)
  BY <1>1, <1>11 DEF ContextLocked, WritePoints, LoopPoints, AdvancedPoints
<1>12. CASE Abort(r)
  BY <1>1, <1>12 DEF Abort, Awaiting, At, AwaitPoints, LoopPoints, AdvancedPoints
<1> QED
  BY <1>1, <1>4, <1>5, <1>6, <1>7, <1>8, <1>9, <1>10, <1>11, <1>12, LoopSteps
  DEF Advance, Commit, At

\* The login completes with the flow.
LEMMA CompletionStep ==
  ASSUME TypeInv, VerifiedUsers, Walking, Undisturbed, NEW r \in Requests,
         Handle(r) \/ Abort(r), ~faulted'
  PROVE  CompletionOf'
<1> DEFINE q == req[r]
<1>1. /\ OneSubmission /\ CompletionOf /\ Working(r) /\ Admitted(r) /\ BindingOf(r)
      /\ q \in RequestStates /\ pending \in Pendings
  BY GoodRequests DEF VerifiedUsers, Undisturbed, Held, Walking, Good, TypeInv, TypeOK
<1>2. ASSUME NEW p \in Requests, p # r PROVE req'[p] = req[p]
  BY <1>2, OthersKept
<1>3. /\ UNCHANGED flow /\ ~Settle(r)
      /\ Advance(r) \/ UNCHANGED <<idx, is_completed>>
      /\ Identify(r) \/ Authenticate(r) \/ UNCHANGED pending
      /\ SetError(r) \/ UNCHANGED error
      /\ Commit(r) \/ UNCHANGED user_id
  BY Writers, NothingToSettle
<1> USE DEF Stage
<1>4. CASE SetError(r)
  BY <1>4 DEF SetError, CompletionOf
<1>5. CASE Identify(r)
  <2>1. ~is_completed /\ RequiresInput(Stage(idx))
    BY <1>1, <1>5 DEF Identify, At, Working, WorkPoints, HandlePoints, RequiresInput,
                      ServerKinds
  <2>2. UNCHANGED <<idx, is_completed>>
    BY <1>5 DEF Identify, execution
  <2> QED
    BY <1>3, <2>1, <2>2 DEF CompletionOf
<1>6. CASE ~SetError(r) /\ ~Identify(r)
  <2> SUFFICES ASSUME ~error', pending'.uid # NoUser, RequiresInput(Stage(1))
               PROVE  /\ is_completed' /\ Stage(Len(flow.entries)).kind = "UserLogin"
                           => LoggedIn'
                      /\ \/ is_completed'
                         \/ RequiresInput(flow.entries[idx'].stage)
                         \/ \E p \in Requests : req'[p].pc \in Turn
                         \/ LoggedIn'
    BY <1>3 DEF CompletionOf
  <2>1. ~error /\ pending'.uid = pending.uid /\ pending.uid # NoUser
    <3>1. CASE Authenticate(r)
      BY <3>1, <1>1, <1>3, <1>6 DEF Authenticate, Pendings
    <3>2. CASE ~Authenticate(r)
      BY <3>2, <1>3, <1>6
    <3> QED
      BY <3>1, <3>2
  <2>2. LoggedIn => LoggedIn'
    <3>1. CASE Commit(r)
      <4>1. user_id' = IF q.tx = NoUser THEN user_id ELSE q.tx
        BY <3>1 DEF Commit
      <4> QED
        BY <4>1, <1>1, <1>2, <2>1 DEF LoggedIn, BindingOf
    <3>2. CASE ~Commit(r)
      <4>1. q.tx # NoUser => req'[r].tx # NoUser
        BY <3>2, <2>1, TransactionStays
      <4> QED
        BY <3>2, <4>1, <1>2, <1>3, <2>1 DEF LoggedIn
    <3> QED
      BY <3>1, <3>2
  <2>3. /\ is_completed /\ Stage(Len(flow.entries)).kind = "UserLogin" => LoggedIn
        /\ \/ is_completed
           \/ RequiresInput(Stage(idx))
           \/ \E p \in Requests : req[p].pc \in Turn
           \/ LoggedIn
    BY <2>1, <1>1 DEF CompletionOf
  <2>4. CASE Advance(r)
    <3>1. req'[r].pc = "loop" /\ q.pc = "advance"
      BY <2>4, GoCarries DEF Advance, At, TypeInv
    <3>2. ASSUME is_completed', Stage(Len(flow.entries)).kind = "UserLogin"
          PROVE  LoggedIn'
      <4>1. CASE is_completed
        BY <3>2, <4>1, <2>2, <2>3
      <4>2. CASE ~is_completed
        <5>1. idx = Len(flow.entries)
          <6>1. idx \in 1 .. Len(flow.entries) /\ Len(flow.entries) \in Nat
            BY ExecutionAssumption DEF TypeInv, TypeOK, Entries
          <6>2. idx + 1 \notin 1 .. Len(flow.entries)
            BY <2>4, <3>2, <4>2 DEF Advance, CompleteCurrent, Entries
          <6> QED
            BY <6>1, <6>2
        <5>2. ~RequiresInput(Stage(idx))
          BY <3>2, <5>1 DEF RequiresInput, ServerKinds
        <5>3. ASSUME NEW p \in Requests, req[p].pc \in Turn PROVE FALSE
          <6>1. Posting(p) /\ Posting(r)
            BY <2>4, <5>3, Movers, Workers DEF Turn, PostPoints
          <6> QED
            BY <6>1, <5>3, <3>1, <1>1 DEF OneSubmission, Turn
        <5> QED
          BY <4>2, <5>2, <5>3, <2>2, <2>3
      <4> QED
        BY <4>1, <4>2
    <3> QED
      BY <3>1, <3>2 DEF Turn
  <2>5. CASE ~Advance(r)
    <3>1. UNCHANGED <<idx, is_completed>>
      BY <2>5, <1>3
    <3>2. CASE q.pc \in Turn
      <4>1. \/ req'[r].pc \in Turn \/ is_completed \/ RequiresInput(Stage(idx))
            \/ req'[r].tx # NoUser
        BY <3>2, <2>1, TurnStep
      <4>2. req'[r].tx # NoUser => LoggedIn'
        BY DEF LoggedIn
      <4> QED
        BY <4>1, <4>2, <3>1, <2>2, <2>3
    <3>3. CASE q.pc \notin Turn
      BY <3>1, <3>3, <2>2, <2>3, <1>2
    <3> QED
      BY <3>2, <3>3
  <2> QED
    BY <2>4, <2>5
<1> QED
  BY <1>4, <1>5, <1>6

\* Every step keeps what a login leaves in memory, in the row and in the cookie.
LEMMA LoginStep ==
  ASSUME TypeInv, VerifiedInv, WalkInv, LoginInv, [Next]_vars
  PROVE  LoginInv'
<1>1. ASSUME NEW r \in Requests, Handle(r) \/ Abort(r) \/ Settle(r), ~overlap', ~faulted'
      PROVE  Undisturbed'
  <2>1. VerifiedUsers /\ OneSubmission /\ Walking /\ Undisturbed
    BY <1>1, Writers, FaultsStay
    DEF TypeInv, VerifiedInv, VerifiedUsers, WalkInv, LoginInv
  <2>2. Handle(r) \/ Abort(r)
    BY <1>1, <2>1, NothingToSettle
  <2>3. \A q \in Requests : Held(q)'
    BY <1>1, <2>1, <2>2, OwnLogin, OthersLogin
  <2>4. CookieSet' /\ CompletionOf'
    BY <1>1, <2>1, <2>2, CookieStep, CompletionStep
  <2> QED
    BY <2>3, <2>4 DEF Undisturbed
<1>2. ASSUME NEW r \in Requests, Send(r), ~overlap', ~faulted'
      PROVE  Undisturbed'
  <2>1. Undisturbed /\ UNCHANGED <<execution, context, durable>>
    BY <1>2, SendMoves, SendCarries DEF LoginInv
  <2>2. ASSUME NEW q \in Requests, q # r PROVE req'[q] = req[q]
    BY <1>2, <2>2, OthersKept
  <2>3. /\ req[r].pc = "unsent" /\ req'[r].pc = "session"
        /\ req'[r].tx = req[r].tx /\ req'[r].jar = req[r].jar
        /\ req'[r].iterations = req[r].iterations
    BY <1>2, SendCarries
  <2>4. ASSUME NEW q \in Requests PROVE Held(q)'
    <3>1. Admitted(q) /\ BindingOf(q)
      BY <2>1 DEF Undisturbed, Held
    <3>2. CASE q = r
      BY <3>1, <3>2, <2>1, <2>3
      DEF Held, Admitted, BindingOf, InFlight, HandlePoints, LoopPoints
    <3>3. CASE q # r
      BY <3>1, <3>3, <2>1, <2>2
      DEF Held, Admitted, Admits, BindingOf, InFlight, execution, context, durable
    <3> QED
      BY <3>2, <3>3
  <2>5. CookieSet'
    BY <2>1, <2>2, <2>3 DEF Undisturbed, CookieSet, durable
  <2>6. LoggedIn' = LoggedIn
    BY <2>1, <2>2, <2>3 DEF LoggedIn, durable, context
  <2>7. (\E q \in Requests : req[q].pc \in Turn) =>
          \E q \in Requests : req'[q].pc \in Turn
    BY <2>2, <2>3 DEF Turn
  <2>8. CompletionOf'
    BY <2>1, <2>6, <2>7 DEF Undisturbed, CompletionOf, execution, context, Stage
  <2> QED
    BY <2>4, <2>5, <2>8 DEF Undisturbed
<1>3. CASE Expire \/ UNCHANGED vars
  <2>1. UNCHANGED <<execution, context, durable, req, verified, passed, overlap, faulted>>
    BY <1>3 DEF Expire, vars, execution, context, durable, history
  <2> QED
    BY <2>1
    DEF execution, context, durable, LoginInv, Undisturbed, Held, Admitted, Admits,
        BindingOf, InFlight, CookieSet, CompletionOf, LoggedIn, Stage
<1> QED
  BY <1>1, <1>2, <1>3 DEF Next, LoginInv

\* A new execution has nothing to keep.
LEMMA LoginInit == Init => LoginInv
<1> SUFFICES ASSUME Init PROVE Undisturbed
  BY DEF LoginInv
<1>1. \A r \in Requests : req[r] = Blank
  BY DEF Init
<1>2. \A r \in Requests : Held(r)
  BY <1>1
  DEF Blank, Held, Admitted, BindingOf, InFlight, HandlePoints, LoopPoints
<1> QED
  BY <1>2 DEF Init, Undisturbed, CookieSet, CompletionOf, NoPending, Stage

\* The inductive invariants hold in every behaviour: without overlapping submissions
\* and faults the jar, the transaction, the pending user and the row agree at every
\* program point of complete().
THEOREM LoginInvariant == Spec => [](TypeInv /\ VerifiedInv /\ WalkInv /\ LoginInv)
  BY LoginInit, LoginStep, WalkInvariant, PTL DEF Spec

\* The decision of FlowExecution::check that let a submission through still holds
\* where handle_submission works on it: of the user the row names by then and of the
\* entry that get_entry read again.
THEOREM AccessKept == Spec => []AccessStillHolds
<1>1. TypeInv /\ WalkInv /\ LoginInv => AccessStillHolds
  <2> SUFFICES ASSUME TypeInv, WalkInv, LoginInv, ~overlap, ~faulted,
                      NEW r \in Requests, req[r].pc \in HandlePoints
               PROVE  /\ Holds(AuthenticationOutput(flow.authentication, user_id))
                      /\ Admits(req[r].entry, user_id)
    BY DEF AccessStillHolds, Admits
  <2>1. Admitted(r) /\ Working(r)
    BY DEF WalkInv, Walking, LoginInv, Undisturbed, Held
  <2>2. InFlight(r) /\ req[r].method = "POST" /\ req[r].pc \notin {"session", "respond"}
    BY GoodRequests DEF Good, RequestShape, HandlePoints, PostPoints, InFlight
  <2>3. req[r].user = user_id /\ req[r].checked = idx /\ req[r].entry = idx
    BY <2>1, <2>2 DEF Admitted, Working, WorkPoints
  <2> QED
    BY <2>1, <2>3 DEF Admitted
<1> QED
  BY <1>1, LoginInvariant, PTL

\* With nothing in flight the claims in the browser's cookie name the user of the
\* session's row: UserLogin replaces the cookie before the transaction is committed,
\* but the response that carries it is sent after.
THEOREM CookiesMatch == Spec => []CookieMatchesRow
<1>1. LoginInv => CookieMatchesRow
  BY DEF LoginInv, Undisturbed, CookieSet, CookieMatchesRow, Quiet, InFlight
<1> QED
  BY <1>1, LoginInvariant, PTL

\* A completed flow that ends in a UserLogin entry has bound the row to its pending
\* user, unless it shows the error: complete()'s loop is not left at that entry.
THEOREM LoginsComplete == Spec => []LoginCompletes
<1>1. LoginInv => LoginCompletes
  <2> SUFFICES ASSUME LoginInv, Quiet, is_completed, ~overlap, ~faulted, ~error,
                      pending.uid # NoUser, RequiresInput(Stage(1)),
                      Stage(Len(flow.entries)).kind = "UserLogin"
               PROVE  user_id = pending.uid
    BY DEF LoginCompletes
  <2>1. \A r \in Requests : req[r].tx = NoUser
    BY DEF LoginInv, Undisturbed, Held, Admitted, Quiet, InFlight, LoopPoints
  <2> QED
    BY <2>1 DEF LoginInv, Undisturbed, CompletionOf, LoggedIn
<1> QED
  BY <1>1, LoginInvariant, PTL

=============================================================================
