------------------------- MODULE FlowExecutionProofs -------------------------
(***************************************************************************)
(* Proofs about FlowExecution for every set of requests, users and flows.   *)
(***************************************************************************)
EXTENDS FlowExecution, TLAPS

-----------------------------------------------------------------------------
(* What a request's program point says about what it holds *)

\* Program points that only a POST reaches.
PostPoints ==
  {"submission", "handle_entry", "stage", "lookup_user", "identify",
   "password_stage", "pending", "password", "authenticate", "advance", "loop",
   "loop_entry", "loop_stage", "login", "set_error", "update", "commit"}

RequestShape(q) ==
  /\ q.pc \in PostPoints => q.method = "POST"
  /\ q.pc \in {"check", "check_entry", "check_bindings"} =>
       q.in_data \/ q.method = "POST"
  /\ q.pc \in {"data_stage", "data_completed"} => q.in_data
  /\ q.pc \in {"password", "authenticate", "update"} => q.snap.uid \in Users

Shape == \A r \in Requests : RequestShape(req[r])

\* The type invariant is inductive together with the shape of the requests: a
\* password is only verified, and a row only bound, for somebody.
TypeInv == TypeOK /\ Shape

-----------------------------------------------------------------------------
(* Steps of one request *)

\* The names of the program points and outcomes, so that no proof about requests
\* expands them.
LEMMA Points ==
  /\ ReadPoints \subseteq ProgramPoints
  /\ WritePoints \subseteq ProgramPoints
  /\ AwaitPoints \subseteq ProgramPoints
  /\ {"unsent", "execution", "check", "check_entry", "check_bindings", "submission",
      "handle_entry", "advance", "loop", "loop_entry", "data_entry",
      "data_completed", "answer", "respond", "done"} \subseteq ProgramPoints
  /\ {"user", "context", "stage", "lookup_user", "identify", "password_stage",
      "pending", "password", "authenticate", "loop_stage", "login", "set_error",
      "update", "commit", "data_stage", "component", "data_pending", "session"}
       \subseteq ProgramPoints
  BY DEF ProgramPoints, ReadPoints, WritePoints, AwaitPoints

\* The names of the outcomes.
LEMMA OutcomeNames ==
  {"none", "not_found", "failed", "denied", "error", "component", "next",
   "redirect", "locked", "panicked"} = Outcomes
  BY DEF Outcomes

\* A record of the right type and shape.
Good(x) == x \in RequestStates /\ RequestShape(x)

\* What the invariant says of one request.
LEMMA GoodRequests ==
  ASSUME TypeInv, NEW r \in Requests
  PROVE  Good(req[r])
  BY DEF TypeInv, TypeOK, Shape, Good

\* Become changes the record of r alone.
LEMMA BecomeEffect ==
  ASSUME TypeOK, NEW r \in Requests, NEW x, Become(r, x)
  PROVE  /\ req'[r] = x
         /\ \A q \in Requests \ {r} : req'[q] = req[q]
  BY DEF TypeOK, Become

\* A request that becomes a good record leaves all of them good.
LEMMA BecomeGood ==
  ASSUME TypeInv, NEW r \in Requests, NEW x, Good(x), Become(r, x)
  PROVE  /\ req' \in [Requests -> RequestStates]
         /\ \A q \in Requests : RequestShape(req'[q])
  BY DEF TypeInv, TypeOK, Shape, Good, Become

\* Going on keeps the record good when the new program point asks for nothing more.
LEMMA GoGood ==
  ASSUME TypeInv, NEW r \in Requests, NEW p \in ProgramPoints, Go(r, p),
         p \in PostPoints => req[r].method = "POST",
         p \in {"check", "check_entry", "check_bindings"} =>
           req[r].in_data \/ req[r].method = "POST",
         p \in {"data_stage", "data_completed"} => req[r].in_data,
         p \in {"password", "authenticate", "update"} => req[r].snap.uid \in Users
  PROVE  \E x : Good(x) /\ Become(r, x)
<1>1. Good([req[r] EXCEPT !.pc = p, !.reading = FALSE])
  BY GoodRequests DEF Good, RequestShape, RequestStates
<1> QED
  BY <1>1 DEF Go

\* A handler that returns keeps its record good.
LEMMA ReturnGood ==
  ASSUME NEW q, Good(q), NEW o \in Outcomes, NEW u \in MaybeUser
  PROVE  /\ Good([q EXCEPT !.pc = "respond", !.reading = FALSE, !.tx = u,
                           !.outcome = o])
         /\ Good([q EXCEPT !.pc = "respond", !.tx = u, !.outcome = o])
<1>1. "respond" \in ProgramPoints
  BY Points
<1> QED
  BY <1>1 DEF Good, RequestShape, RequestStates, PostPoints

\* So does one that is dropped.
LEMMA DroppedGood ==
  ASSUME NEW o \in Outcomes, NEW u \in MaybeUser
  PROVE  /\ Good(Dropped(o))
         /\ Good([Dropped(o) EXCEPT !.tx = u])
<1>1. Blank \in RequestStates
  BY DEF Blank, RequestStates, ProgramPoints, Pendings, NoPending, MaybeUser, Outcomes
<1>2. "done" \in ProgramPoints
  BY Points
<1> QED
  BY <1>1, <1>2 DEF Dropped, RequestStates, Good, RequestShape, PostPoints

\* Where the outcome of a check leads.
LEMMA DecideCases ==
  ASSUME TypeInv, NEW r \in Requests, Check(r) \/ CheckEntryBindings(r)
  PROVE  \/ Become(r, Dropped("panicked")) \/ Return(r, "denied")
         \/ \E p \in {"check_entry", "data_entry", "answer"} : Go(r, p)
         \/ req[r].method = "POST" /\ Go(r, "submission")
<1>1. RequestShape(req[r])
  BY GoodRequests DEF Good
<1>2. req[r].pc \in {"check", "check_bindings"}
  BY DEF Check, CheckEntryBindings, At
<1>3. ASSUME NEW v, Decide(r, v)
      PROVE  \/ Become(r, Dropped("panicked")) \/ Return(r, "denied")
             \/ \E p \in {"data_entry", "answer"} : Go(r, p)
             \/ req[r].method = "POST" /\ Go(r, "submission")
  BY <1>1, <1>2, <1>3 DEF Decide, RequestShape
<1>4. Go(r, "check_entry") \/ \E v : Decide(r, v)
  BY DEF Check, CheckEntryBindings
<1> QED
  BY <1>3, <1>4

\* Every step of request r gives it a record of the right type and shape.
LEMMA StepGood ==
  ASSUME TypeInv, NEW r \in Requests,
         Send(r) \/ Handle(r) \/ Abort(r) \/ Settle(r)
  PROVE  \E x : Good(x) /\ Become(r, x)
<1> DEFINE q == req[r]
<1>1. Good(q)
  BY GoodRequests
<1>2. NoUser \in MaybeUser /\ Users \subseteq MaybeUser
  BY DEF MaybeUser
<1>3. ASSUME NEW o \in Outcomes, Return(r, o)
      PROVE  \E x : Good(x) /\ Become(r, x)
  BY <1>1, <1>2, <1>3, ReturnGood DEF Return
<1>4. ASSUME NEW o \in Outcomes, Become(r, Dropped(o))
      PROVE  \E x : Good(x) /\ Become(r, x)
  BY <1>2, <1>4, DroppedGood
<1>5. /\ q \in RequestStates /\ RequestShape(q)
      /\ idx \in Entries /\ user_id \in MaybeUser /\ is_completed \in BOOLEAN
      /\ pending \in Pendings
  BY <1>1 DEF Good, TypeInv, TypeOK
<1> USE DEF At
<1>11. CASE Send(r)
  <2>1. \A m \in {"GET", "POST"} : Good([q EXCEPT !.pc = "session", !.method = m])
    BY <1>11, <1>5, Points DEF Send, Good, RequestShape, PostPoints, RequestStates
  <2> QED
    BY <1>11, <2>1, ExecutionAssumption DEF Send
<1>12. CASE ExtractSession(r)
  <2>1. Good([q EXCEPT !.pc = "execution", !.user = user_id])
    BY <1>12, <1>5, Points DEF ExtractSession, Good, RequestShape, PostPoints, RequestStates
  <2> QED
    BY <1>12, <2>1 DEF ExtractSession
<1>13. CASE GetExecution(r)
  BY <1>13, <1>5, GoGood, Points, <1>3, OutcomeNames DEF GetExecution, RequestShape, PostPoints
<1>14. CASE GetUser(r)
  BY <1>14, <1>5, GoGood, Points DEF GetUser, RequestShape, PostPoints
<1>15. CASE GetCheckContext(r)
  BY <1>15, <1>5, GoGood, Points DEF GetCheckContext, RequestShape, PostPoints
<1>16. CASE Check(r) \/ CheckEntryBindings(r)
  <2> DEFINE Stepped == \E x : Good(x) /\ Become(r, x)
  <2>1. Become(r, Dropped("panicked")) => Stepped
    BY <1>4, OutcomeNames
  <2>2. Return(r, "denied") => Stepped
    BY <1>3, OutcomeNames
  <2>3. q.pc \in {"check", "check_bindings"}
    BY <1>16 DEF Check, CheckEntryBindings
  <2>4. ASSUME NEW p \in {"check_entry", "data_entry", "answer"}, Go(r, p)
        PROVE  Stepped
    BY <2>3, <2>4, <1>5, GoGood, Points DEF RequestShape, PostPoints
  <2>5. q.method = "POST" /\ Go(r, "submission") => Stepped
    BY <2>3, <1>5, GoGood, Points DEF RequestShape, PostPoints
  <2> HIDE DEF Stepped
  <2>6. Stepped
    BY <1>16, <2>1, <2>2, <2>4, <2>5, DecideCases
  <2> QED
    BY <2>6 DEF Stepped
<1>17. CASE CheckEntry(r)
  <2>1. Good([q EXCEPT !.pc = "check_bindings", !.checked = idx])
    BY <1>17, <1>5, Points DEF CheckEntry, Good, RequestShape, PostPoints, RequestStates
  <2> QED
    BY <1>17, <2>1 DEF CheckEntry
<1>19. CASE HandleSubmission(r)
  BY <1>19, <1>5, GoGood, Points DEF HandleSubmission, RequestShape, PostPoints
<1>20. CASE GetEntry(r)
  <2>1. Good([q EXCEPT !.pc = "stage", !.entry = idx])
    BY <1>20, <1>5, Points DEF GetEntry, Good, RequestShape, PostPoints, RequestStates
  <2> QED
    BY <1>20, <2>1 DEF GetEntry
<1>21. CASE HandleStage(r)
  BY <1>21, <1>5, GoGood, Points DEF HandleStage, RequestShape, PostPoints, Refuse
<1>22. CASE LookupUser(r)
  <2>1. \A u \in Users : Good([q EXCEPT !.pc = "identify", !.found = u])
    BY <1>22, <1>2, <1>5, Points
    DEF LookupUser, Good, RequestShape, PostPoints, RequestStates
  <2>2. CASE Refuse(r)
    BY <2>2, GoGood, Points DEF Refuse, PostPoints
  <2> QED
    BY <1>22, <2>1, <2>2 DEF LookupUser
<1>23. CASE Identify(r)
  BY <1>23, <1>5, GoGood, Points DEF Identify, RequestShape, PostPoints
<1>24. CASE LookupPasswordStage(r)
  BY <1>24, <1>4, <1>5, GoGood, Points, OutcomeNames
  DEF LookupPasswordStage, RequestShape, PostPoints
<1>25. CASE ReadPending(r)
  <2>1. ASSUME pending.uid # NoUser
        PROVE  Good([q EXCEPT !.pc = "password", !.reading = FALSE, !.snap = pending])
    <3>1. pending.uid \in Users
      BY <2>1, <1>5 DEF Pendings, MaybeUser
    <3> QED
      BY <1>25, <3>1, <1>5, Points
      DEF ReadPending, Good, RequestShape, PostPoints, RequestStates
  <2>2. CASE Refuse(r)
    BY <2>2, GoGood, Points DEF Refuse, PostPoints
  <2> QED
    BY <1>25, <2>1, <2>2 DEF ReadPending
<1>26. CASE VerifyPassword(r)
  BY <1>26, <1>5, GoGood, Points DEF VerifyPassword, RequestShape, PostPoints, Refuse
<1>27. CASE Authenticate(r)
  BY <1>27, <1>5, GoGood, Points DEF Authenticate, RequestShape, PostPoints
<1>28. CASE ContextLocked(r)
  BY <1>28, <1>4, OutcomeNames DEF ContextLocked
<1>29. CASE Advance(r)
  BY <1>29, <1>5, GoGood, Points DEF Advance, RequestShape, PostPoints
<1>30. CASE Loop(r)
  BY <1>30, <1>5, GoGood, Points DEF Loop, RequestShape, PostPoints
<1>31. CASE LoopEntry(r)
  <2>1. Good([q EXCEPT !.pc = "loop_stage", !.entry = idx])
    BY <1>31, <1>5, Points DEF LoopEntry, Good, RequestShape, PostPoints, RequestStates
  <2> QED
    BY <1>31, <2>1 DEF LoopEntry
<1>32. CASE LoopStage(r)
  <2>1. q.iterations + 1 \in Nat
    BY <1>5 DEF RequestStates
  <2>2. Good([q EXCEPT !.pc = "login", !.reading = FALSE,
                       !.iterations = q.iterations + 1])
    BY <1>32, <2>1, <1>5, Points
    DEF LoopStage, Good, RequestShape, PostPoints, RequestStates
  <2>3. CASE Go(r, "commit")
    BY <1>32, <2>3, <1>5, GoGood, Points DEF LoopStage, RequestShape, PostPoints
  <2> QED
    BY <1>32, <2>2, <2>3, <1>4, OutcomeNames DEF LoopStage, EndLoop
<1>33. CASE UserLogin(r)
  <2>1. CASE Return(r, "failed")
    BY <2>1, <1>3, OutcomeNames
  <2>2. CASE Go(r, "set_error")
    BY <1>33, <2>2, <1>5, GoGood, Points DEF UserLogin, RequestShape, PostPoints
  <2>3. ASSUME pending.uid # NoUser
        PROVE  Good([q EXCEPT !.pc = "update", !.reading = FALSE,
                              !.snap = pending, !.jar = pending.uid])
    <3>1. pending.uid \in Users
      BY <2>3, <1>5 DEF Pendings, MaybeUser
    <3> QED
      BY <1>33, <3>1, <1>2, <1>5, Points
      DEF UserLogin, Good, RequestShape, PostPoints, RequestStates
  <2> QED
    BY <1>33, <2>1, <2>2, <2>3 DEF UserLogin
<1>34. CASE SetError(r)
  BY <1>34, <1>5, GoGood, Points DEF SetError, RequestShape, PostPoints, EndLoop
<1>35. CASE UpdateSession(r)
  <2>1. q.snap.uid \in Users
    BY <1>35, <1>5 DEF UpdateSession, RequestShape
  <2>2. Good([q EXCEPT !.pc = "advance", !.tx = q.snap.uid])
    BY <1>35, <2>1, <1>2, <1>5, Points
    DEF UpdateSession, Good, RequestShape, PostPoints, RequestStates
  <2> QED
    BY <1>35, <2>2 DEF UpdateSession
<1>36. CASE Commit(r)
  BY <1>36, <1>3, OutcomeNames DEF Commit
<1>37. CASE DataEntry(r)
  <2>1. Good([q EXCEPT !.pc = "data_stage", !.in_data = TRUE, !.entry = idx])
    BY <1>37, <1>5, Points DEF DataEntry, Good, RequestShape, PostPoints, RequestStates
  <2> QED
    BY <1>37, <2>1 DEF DataEntry
<1>38. CASE DataStage(r)
  BY <1>38, <1>5, GoGood, Points DEF DataStage, RequestShape, PostPoints
<1>39. CASE DataCompleted(r)
  <2>1. Good([q EXCEPT !.pc = "check", !.completed = is_completed])
    BY <1>39, <1>5, Points DEF DataCompleted, Good, RequestShape, PostPoints, RequestStates
  <2> QED
    BY <1>39, <2>1 DEF DataCompleted
<1>40. CASE Answer(r)
  <2>1. \A o \in Outcomes : Good([q EXCEPT !.pc = "data_pending", !.outcome = o])
    BY <1>40, <1>5, Points DEF Good, RequestShape, PostPoints, RequestStates
  <2>2. CASE Go(r, "component")
    BY <2>2, GoGood, Points DEF PostPoints
  <2> QED
    BY <1>40, <2>1, <2>2, OutcomeNames DEF Answer
<1>41. CASE Component(r)
  <2>1. \A o \in Outcomes :
          Good([q EXCEPT !.pc = "data_pending", !.reading = FALSE, !.outcome = o])
    BY <1>41, <1>5, Points DEF Good, RequestShape, PostPoints, RequestStates
  <2> QED
    BY <1>41, <2>1, <1>4, OutcomeNames DEF Component
<1>42. CASE DataPending(r)
  <2>1. q.outcome \in Outcomes
    BY <1>5 DEF RequestStates
  <2> QED
    BY <1>42, <2>1, <1>3 DEF DataPending
<1>43. CASE ReadContext(r)
  <2>1. Good([q EXCEPT !.reading = TRUE])
    BY <1>43, <1>5, Points DEF ReadContext, Good, RequestShape, PostPoints, RequestStates
  <2> QED
    BY <1>43, <2>1 DEF ReadContext
<1>44. CASE Respond(r)
  <2>1. q.tx \in MaybeUser
    BY <1>5 DEF RequestStates
  <2> QED
    BY <1>44, <2>1, DroppedGood, OutcomeNames DEF Respond
<1>45. CASE Abort(r)
  <2> DEFINE left == IF q.pc \in {"commit", "respond"} THEN q.tx ELSE NoUser
  <2>1. left \in MaybeUser
    BY <1>2, <1>5 DEF RequestStates
  <2>2. \/ Become(r, [Dropped("none") EXCEPT !.tx = left])
        \/ Become(r, [q EXCEPT !.pc = "respond", !.reading = FALSE, !.tx = left,
                               !.outcome = "failed"])
    BY <1>45 DEF Abort
  <2> HIDE DEF left
  <2> QED
    BY <2>1, <2>2, <1>1, DroppedGood, ReturnGood, OutcomeNames
<1>46. CASE Settle(r)
  <2>1. Good([q EXCEPT !.tx = NoUser])
    BY <1>46, <1>2, <1>5 DEF Good, RequestShape, PostPoints, RequestStates
  <2> QED
    BY <1>46, <2>1 DEF Settle
<1> QED
  BY <1>11, <1>12, <1>13, <1>14, <1>15, <1>16, <1>17, <1>19, <1>20,
     <1>21, <1>22, <1>23, <1>24, <1>25, <1>26, <1>27, <1>28, <1>29, <1>30,
     <1>31, <1>32, <1>33, <1>34, <1>35, <1>36, <1>37, <1>38, <1>39, <1>40,
     <1>41, <1>42, <1>43, <1>44, <1>45, <1>46
  DEF Handle

-----------------------------------------------------------------------------
(* What the steps change besides the record of their request *)

\* The steps that change nothing else.
LocalStep(r) ==
  \/ ExtractSession(r) \/ GetExecution(r) \/ GetUser(r) \/ GetCheckContext(r)
  \/ Check(r) \/ CheckEntry(r) \/ CheckEntryBindings(r)
  \/ HandleSubmission(r) \/ GetEntry(r) \/ HandleStage(r) \/ LookupUser(r)
  \/ LookupPasswordStage(r) \/ ReadPending(r) \/ Loop(r) \/ LoopEntry(r)
  \/ UserLogin(r) \/ UpdateSession(r) \/ DataEntry(r) \/ DataStage(r)
  \/ DataCompleted(r) \/ Component(r) \/ DataPending(r) \/ ReadContext(r)

\* Most steps of a handler change nothing but its own record.
LEMMA LocalSteps ==
  ASSUME NEW r, LocalStep(r)
  PROVE  UNCHANGED <<execution, context, cached, durable, history>>
  BY DEF LocalStep, ExtractSession, GetExecution, GetUser, GetCheckContext, Check,
         CheckEntry, CheckEntryBindings, HandleSubmission, GetEntry, HandleStage,
         LookupUser, LookupPasswordStage, ReadPending, Loop, LoopEntry, UserLogin,
         UpdateSession, DataEntry, DataStage, DataCompleted, Component, DataPending,
         ReadContext

\* The steps of a handler, one by one.
LEMMA HandleCases ==
  ASSUME NEW r, Handle(r)
  PROVE  \/ LocalStep(r) \/ Identify(r) \/ VerifyPassword(r) \/ Authenticate(r)
         \/ ContextLocked(r) \/ Advance(r) \/ LoopStage(r) \/ SetError(r)
         \/ Commit(r) \/ Answer(r) \/ Respond(r)
  BY DEF Handle, LocalStep

\* The types of everything else after a step of request r.
LEMMA RestTyped ==
  ASSUME TypeInv, NEW r \in Requests,
         Send(r) \/ Handle(r) \/ Abort(r) \/ Settle(r)
  PROVE  /\ flow' = flow
         /\ idx' \in Entries /\ is_completed' \in BOOLEAN
         /\ pending' \in Pendings /\ error' \in BOOLEAN /\ cached' \in BOOLEAN
         /\ user_id' \in MaybeUser /\ cookie' \in MaybeUser
         /\ verified' \subseteq Users /\ passed' \subseteq Entries
         /\ overlap' \in BOOLEAN /\ faulted' \in BOOLEAN
<1> DEFINE q == req[r]
<1>1. q \in RequestStates /\ RequestShape(q)
  BY GoodRequests DEF Good
<1>2. /\ q.found \in MaybeUser /\ q.jar \in MaybeUser /\ q.tx \in MaybeUser
      /\ q.pc = "password" => q.snap.uid \in Users
  BY <1>1 DEF RequestStates, RequestShape
<1>3. TypeOK
  BY DEF TypeInv
<1> USE DEF execution, context, durable, history
<1>11. CASE Send(r)
  BY <1>11, <1>3 DEF Send, TypeOK
<1>12. CASE LocalStep(r)
  BY <1>12, <1>3, LocalSteps DEF TypeOK
<1>13. CASE Identify(r)
  BY <1>13, <1>2, <1>3 DEF Identify, TypeOK, Pendings
<1>14. CASE VerifyPassword(r)
  BY <1>14, <1>2, <1>3 DEF VerifyPassword, At, TypeOK
<1>15. CASE Authenticate(r)
  BY <1>15, <1>3 DEF Authenticate, TypeOK, Pendings
<1>16. CASE ContextLocked(r)
  BY <1>16, <1>3 DEF ContextLocked, TypeOK
<1>17. CASE Advance(r)
  BY <1>17, <1>3 DEF Advance, CompleteCurrent, TypeOK
<1>18. CASE LoopStage(r)
  BY <1>18, <1>3 DEF LoopStage, TypeOK
<1>19. CASE SetError(r)
  BY <1>19, <1>3 DEF SetError, TypeOK
<1>20. CASE Commit(r)
  BY <1>20, <1>2, <1>3 DEF Commit, TypeOK
<1>21. CASE Answer(r)
  BY <1>21, <1>3 DEF Answer, TypeOK
<1>22. CASE Respond(r)
  BY <1>22, <1>2, <1>3 DEF Respond, TypeOK
<1>23. CASE Abort(r)
  BY <1>23, <1>3 DEF Abort, TypeOK
<1>24. CASE Settle(r)
  BY <1>24, <1>2, <1>3 DEF Settle, TypeOK
<1> QED
  BY <1>11, <1>12, <1>13, <1>14, <1>15, <1>16, <1>17, <1>18, <1>19, <1>20, <1>21,
     <1>22, <1>23, <1>24, HandleCases

-----------------------------------------------------------------------------
(* Type correctness *)

\* A new execution is typed.
LEMMA InitType == Init => TypeInv
<1> SUFFICES ASSUME Init PROVE TypeInv
  OBVIOUS
<1>1. NoUser \in MaybeUser /\ NoPending \in Pendings
  BY DEF MaybeUser, NoPending, Pendings
<1>2. idx \in Entries
  BY ExecutionAssumption DEF Init, Entries
<1>3. Good(Blank)
  BY <1>1, Points, OutcomeNames
  DEF Good, RequestShape, Blank, RequestStates, PostPoints
<1>4. TypeOK
  BY <1>1, <1>2, <1>3 DEF Init, TypeOK, Good
<1>5. Shape
  BY <1>3 DEF Init, Shape, Good
<1> QED
  BY <1>4, <1>5 DEF TypeInv

\* Every step keeps types and shapes.
LEMMA TypeStep == TypeInv /\ [Next]_vars => TypeInv'
<1> SUFFICES ASSUME TypeInv, [Next]_vars PROVE TypeInv'
  OBVIOUS
<1>1. ASSUME NEW r \in Requests, Send(r) \/ Handle(r) \/ Abort(r) \/ Settle(r)
      PROVE  TypeInv'
  <2>1. PICK x : Good(x) /\ Become(r, x)
    BY <1>1, StepGood
  <2>2. /\ req' \in [Requests -> RequestStates]
        /\ \A q \in Requests : RequestShape(req'[q])
    BY <2>1, BecomeGood
  <2>3. flow' = flow
    BY <1>1, RestTyped
  <2>4. Entries' = Entries /\ RequestStates' = RequestStates
    BY <2>3 DEF Entries, RequestStates
  <2>5. flow \in Flows
    BY DEF TypeInv, TypeOK
  <2>6. TypeOK'
    BY <1>1, <2>2, <2>3, <2>4, <2>5, RestTyped DEF TypeOK
  <2>7. Shape'
    BY <2>2 DEF Shape
  <2> QED
    BY <2>6, <2>7 DEF TypeInv
<1>2. CASE Expire
  BY <1>2
  DEF Expire, TypeInv, TypeOK, Shape, execution, context, durable, history, Entries,
      RequestStates
<1>3. CASE UNCHANGED vars
  BY <1>3 DEF vars, TypeInv, TypeOK, Shape, Entries, RequestStates
<1> QED
  BY <1>1, <1>2, <1>3 DEF Next

\* The type invariant with the shape of the requests holds in every behaviour.
THEOREM TypeInvariant == Spec => []TypeInv
<1> QED
  BY InitType, TypeStep, PTL DEF Spec

\* Every variable has its type in every behaviour, for all users, flows and
\* requests: in particular current_entry_idx and the entries that requests
\* remember are entries of the flow, so get_entry never runs out of bounds.
THEOREM Typing == Spec => []TypeOK
<1>1. TypeInv => TypeOK
  BY DEF TypeInv
<1> QED
  BY <1>1, TypeInvariant, PTL

-----------------------------------------------------------------------------
(* What a step of a request does to what a login depends on *)

\* The record of r: where it gets a transaction's user, a clone of the pending
\* user or a verified password from.
Moved(r) ==
  /\ \/ req'[r].tx \in {NoUser, req[r].tx}
     \/ req[r].pc = "update" /\ req'[r].tx = req[r].snap.uid
  /\ req'[r].pc = "password" =>
       UNCHANGED pending /\ req'[r].snap = pending
  /\ req'[r].pc = "authenticate" =>
       /\ req[r].pc = "password" /\ UNCHANGED pending
       /\ req'[r].snap = req[r].snap /\ req[r].snap.uid \in verified'
  /\ req'[r].pc = "update" =>
       UNCHANGED pending /\ req'[r].snap = pending /\ pending.authenticated
  /\ Posting(r)' => Posting(r)

Binding == {"password", "authenticate", "update"}

\* Going on writes no transaction, and starts neither a verification nor a binding.
LEMMA GoMoves ==
  ASSUME TypeOK, NEW r \in Requests, NEW p, p \notin Binding, Go(r, p), InFlight(r)
  PROVE  Moved(r)
<1>1. req[r] \in RequestStates
  BY DEF TypeOK
<1>2. req'[r] = [req[r] EXCEPT !.pc = p, !.reading = FALSE]
  BY BecomeEffect DEF Go
<1>3. req'[r].pc = p /\ req'[r].tx = req[r].tx /\ req'[r].method = req[r].method
  BY <1>1, <1>2 DEF RequestStates
<1> QED
  BY <1>3 DEF Moved, Binding, Posting, InFlight

\* Nor does returning.
LEMMA ReturnMoves ==
  ASSUME TypeOK, NEW r \in Requests, NEW o, Return(r, o), InFlight(r)
  PROVE  Moved(r)
<1>1. req[r] \in RequestStates
  BY DEF TypeOK
<1>2. req'[r] = [req[r] EXCEPT !.pc = "respond", !.reading = FALSE, !.tx = NoUser,
                               !.outcome = o]
  BY BecomeEffect DEF Return
<1>3. /\ req'[r].pc = "respond" /\ req'[r].tx = NoUser
      /\ req'[r].method = req[r].method
  BY <1>1, <1>2 DEF RequestStates
<1> QED
  BY <1>3 DEF Moved, Posting, InFlight

\* Nor does being dropped.
LEMMA DroppedMoves ==
  ASSUME TypeOK, NEW r \in Requests, NEW o, NEW u \in {NoUser, req[r].tx},
         \/ Become(r, Dropped(o))
         \/ Become(r, [Dropped(o) EXCEPT !.tx = u])
  PROVE  Moved(r)
<1>1. \/ req'[r] = Dropped(o)
      \/ req'[r] = [Dropped(o) EXCEPT !.tx = u]
  BY BecomeEffect
<1>2. req'[r].pc = "done" /\ req'[r].tx \in {NoUser, u}
  BY <1>1 DEF Dropped, Blank
<1> QED
  BY <1>2 DEF Moved, Posting, InFlight

\* Every step of a handler moves its record as Moved says.
LEMMA StepMoves ==
  ASSUME TypeInv, NEW r \in Requests, Handle(r) \/ Abort(r) \/ Settle(r)
  PROVE  Moved(r)
<1> DEFINE q == req[r]
<1>1. q \in RequestStates /\ RequestShape(q)
  BY GoodRequests DEF Good
<1>2. TypeOK
  BY DEF TypeInv
<1>3. ASSUME NEW p, p \notin Binding, Go(r, p), InFlight(r) PROVE Moved(r)
  BY <1>2, <1>3, GoMoves
<1>4. ASSUME NEW o, Return(r, o), InFlight(r) PROVE Moved(r)
  BY <1>2, <1>4, ReturnMoves
<1>5. ASSUME NEW o, Become(r, Dropped(o)) PROVE Moved(r)
  BY <1>2, <1>5, DroppedMoves
<1>6. ASSUME NEW x, Become(r, x) PROVE req'[r] = x
  BY <1>2, <1>6, BecomeEffect
<1> USE DEF At
<1>11. CASE GetUser(r)
  BY <1>11, <1>3 DEF GetUser, InFlight, Binding
<1>12. CASE GetCheckContext(r)
  BY <1>12, <1>3 DEF GetCheckContext, InFlight, Binding
<1>13. CASE HandleSubmission(r)
  BY <1>13, <1>3 DEF HandleSubmission, InFlight, Binding
<1>14. CASE HandleStage(r)
  BY <1>14, <1>3 DEF HandleStage, InFlight, Binding, Refuse
<1>15. CASE Identify(r)
  BY <1>15, <1>3 DEF Identify, InFlight, Binding
<1>16. CASE LookupPasswordStage(r)
  BY <1>16, <1>3, <1>5 DEF LookupPasswordStage, InFlight, Binding
<1>17. CASE Authenticate(r)
  BY <1>17, <1>3 DEF Authenticate, InFlight, Binding
<1>18. CASE Advance(r)
  BY <1>18, <1>3 DEF Advance, InFlight, Binding
<1>19. CASE Loop(r)
  BY <1>19, <1>3 DEF Loop, InFlight, Binding
<1>20. CASE SetError(r)
  BY <1>20, <1>3 DEF SetError, InFlight, Binding, EndLoop
<1>21. CASE DataStage(r)
  BY <1>21, <1>3 DEF DataStage, InFlight, Binding
<1>22. CASE GetExecution(r)
  BY <1>22, <1>3, <1>4 DEF GetExecution, InFlight, Binding
<1>23. CASE Check(r) \/ CheckEntryBindings(r)
  <2>1. InFlight(r)
    BY <1>23 DEF Check, CheckEntryBindings, InFlight
  <2>2. {"check_entry", "data_entry", "answer", "submission"} \cap Binding = {}
    BY DEF Binding
  <2> QED
    BY <1>23, <2>1, <2>2, <1>3, <1>4, <1>5, DecideCases
<1>24. CASE ExtractSession(r)
  BY <1>24, <1>1, <1>6 DEF ExtractSession, RequestStates, Moved, Posting, InFlight
<1>25. CASE CheckEntry(r)
  BY <1>25, <1>1, <1>6 DEF CheckEntry, RequestStates, Moved, Posting, InFlight
<1>26. CASE GetEntry(r)
  BY <1>26, <1>1, <1>6 DEF GetEntry, RequestStates, Moved, Posting, InFlight
<1>27. CASE LoopEntry(r)
  BY <1>27, <1>1, <1>6 DEF LoopEntry, RequestStates, Moved, Posting, InFlight
<1>28. CASE DataEntry(r)
  BY <1>28, <1>1, <1>6 DEF DataEntry, RequestStates, Moved, Posting, InFlight
<1>29. CASE DataCompleted(r)
  BY <1>29, <1>1, <1>6 DEF DataCompleted, RequestStates, Moved, Posting, InFlight
<1>30. CASE LookupUser(r)
  BY <1>30, <1>1, <1>3, <1>6
  DEF LookupUser, Refuse, RequestStates, Moved, Posting, InFlight, Binding
<1>31. CASE ReadPending(r)
  <2>1. CASE Refuse(r)
    BY <1>31, <2>1, <1>3 DEF ReadPending, Refuse, InFlight, Binding
  <2>2. CASE Become(r, [q EXCEPT !.pc = "password", !.reading = FALSE, !.snap = pending])
    BY <1>31, <2>2, <1>1, <1>6
    DEF ReadPending, RequestStates, Moved, Posting, InFlight, context
  <2> QED
    BY <1>31, <2>1, <2>2 DEF ReadPending
<1>32. CASE VerifyPassword(r)
  <2>1. CASE Refuse(r)
    BY <1>32, <2>1, <1>3 DEF VerifyPassword, Refuse, InFlight, Binding
  <2>2. ASSUME Go(r, "authenticate"), verified' = verified \cup {q.snap.uid}
        PROVE  Moved(r)
    BY <1>32, <2>2, <1>1, <1>6
    DEF VerifyPassword, Go, RequestStates, Moved, Posting, InFlight, context
  <2> QED
    BY <1>32, <2>1, <2>2 DEF VerifyPassword
<1>33. CASE ContextLocked(r)
  BY <1>33, <1>5 DEF ContextLocked
<1>34. CASE LoopStage(r)
  <2>1. CASE Go(r, "commit")
    BY <1>34, <2>1, <1>3 DEF LoopStage, InFlight, Binding
  <2>2. CASE Become(r, [q EXCEPT !.pc = "login", !.reading = FALSE,
                                 !.iterations = q.iterations + 1])
    BY <1>34, <2>2, <1>1, <1>6 DEF LoopStage, RequestStates, Moved, Posting, InFlight
  <2> QED
    BY <1>34, <2>1, <2>2, <1>5 DEF LoopStage, EndLoop
<1>35. CASE UserLogin(r)
  <2>1. CASE Return(r, "failed") \/ Go(r, "set_error")
    BY <1>35, <2>1, <1>3, <1>4 DEF UserLogin, InFlight, Binding
  <2>2. ASSUME pending.authenticated,
               Become(r, [q EXCEPT !.pc = "update", !.reading = FALSE,
                                   !.snap = pending, !.jar = pending.uid])
        PROVE  Moved(r)
    BY <1>35, <2>2, <1>1, <1>6
    DEF UserLogin, RequestStates, Moved, Posting, InFlight, context
  <2> QED
    BY <1>35, <2>1, <2>2 DEF UserLogin
<1>36. CASE UpdateSession(r)
  BY <1>36, <1>1, <1>6 DEF UpdateSession, RequestStates, Moved, Posting, InFlight
<1>37. CASE Commit(r)
  BY <1>37, <1>4 DEF Commit, InFlight
<1>38. CASE Answer(r)
  BY <1>38, <1>1, <1>3, <1>6
  DEF Answer, RequestStates, Moved, Posting, InFlight, Binding
<1>39. CASE Component(r)
  <2>1. ASSUME NEW o, Become(r, [q EXCEPT !.pc = "data_pending", !.reading = FALSE,
                                          !.outcome = o])
        PROVE  Moved(r)
    BY <1>39, <2>1, <1>1, <1>6 DEF Component, RequestStates, Moved, Posting, InFlight
  <2> QED
    BY <1>39, <2>1, <1>5 DEF Component
<1>40. CASE DataPending(r)
  BY <1>40, <1>4 DEF DataPending, InFlight
<1>41. CASE ReadContext(r)
  <2>1. q.pc \notin Binding
    BY <1>41 DEF ReadContext, ReadPoint, ReadPoints, Binding
  <2> QED
    BY <1>41, <2>1, <1>1, <1>6
    DEF ReadContext, RequestStates, Moved, Posting, InFlight, Binding
<1>42. CASE Respond(r)
  BY <1>42, <1>2, DroppedMoves DEF Respond
<1>43. CASE Abort(r)
  <2> DEFINE left == IF q.pc \in {"commit", "respond"} THEN q.tx ELSE NoUser
  <2>1. left \in {NoUser, q.tx}
    OBVIOUS
  <2>2. \/ Become(r, [Dropped("none") EXCEPT !.tx = left])
        \/ Become(r, [q EXCEPT !.pc = "respond", !.reading = FALSE, !.tx = left,
                               !.outcome = "failed"])
    BY <1>43 DEF Abort
  <2>3. InFlight(r)
    BY <1>43 DEF Abort, Awaiting, AwaitPoints, InFlight
  <2> HIDE DEF left
  <2>4. CASE Become(r, [Dropped("none") EXCEPT !.tx = left])
    BY <2>1, <2>4, <1>2, DroppedMoves
  <2>5. CASE Become(r, [q EXCEPT !.pc = "respond", !.reading = FALSE, !.tx = left,
                                 !.outcome = "failed"])
    BY <2>1, <2>3, <2>5, <1>1, <1>6 DEF RequestStates, Moved, Posting, InFlight
  <2> QED
    BY <2>2, <2>4, <2>5
<1>44. CASE Settle(r)
  BY <1>44, <1>1, <1>6 DEF Settle, RequestStates, Moved, Posting, InFlight
<1> QED
  BY <1>11, <1>12, <1>13, <1>14, <1>15, <1>16, <1>17, <1>18, <1>19,
     <1>20, <1>21, <1>22, <1>23, <1>24, <1>25, <1>26, <1>27, <1>28,
     <1>29, <1>30, <1>31, <1>32, <1>33, <1>34, <1>35, <1>36, <1>37,
     <1>38, <1>39, <1>40, <1>41, <1>42, <1>43, <1>44
  DEF Handle

\* The shared state that a step of r changes, and from what.
LEMMA SharedMoves ==
  ASSUME TypeInv, NEW r \in Requests, Handle(r) \/ Abort(r) \/ Settle(r)
  PROVE  /\ \/ UNCHANGED pending
            \/ /\ req[r].pc = "identify"
               /\ pending' = [uid |-> req[r].found, authenticated |-> FALSE]
            \/ /\ req[r].pc = "authenticate"
               /\ pending' = [pending EXCEPT !.authenticated = TRUE]
         /\ verified \subseteq verified'
         /\ user_id' \in {user_id, req[r].tx}
         /\ UNCHANGED overlap
<1> USE DEF execution, context, durable, history
<1>1. CASE LocalStep(r)
  BY <1>1, LocalSteps
<1>2. CASE Identify(r)
  BY <1>2 DEF Identify, At
<1>3. CASE Authenticate(r)
  BY <1>3 DEF Authenticate, At
<1>4. CASE VerifyPassword(r)
  BY <1>4 DEF VerifyPassword
<1>5. CASE ContextLocked(r) \/ Advance(r) \/ LoopStage(r) \/ SetError(r)
  BY <1>5 DEF ContextLocked, Advance, LoopStage, SetError
<1>6. CASE Commit(r) \/ Answer(r) \/ Respond(r)
  BY <1>6 DEF Commit, Answer, Respond
<1>7. CASE Abort(r) \/ Settle(r)
  BY <1>7 DEF Abort, Settle
<1> QED
  BY <1>1, <1>2, <1>3, <1>4, <1>5, <1>6, <1>7, HandleCases

\* Sending changes a request's program point and method only, and two requests
\* post at the same time only after an overlap.
LEMMA SendMoves ==
  ASSUME TypeInv, NEW r \in Requests, Send(r)
  PROVE  /\ req'[r].tx = req[r].tx /\ req'[r].pc = "session"
         /\ ~overlap' => ~overlap
         /\ Posting(r)' /\ ~overlap' => \A q \in Requests : ~Posting(q)
         /\ UNCHANGED <<pending, verified, user_id>>
<1>1. req[r] \in RequestStates /\ TypeOK
  BY DEF TypeInv, TypeOK
<1>2. PICK m \in Methods :
        /\ Become(r, [req[r] EXCEPT !.pc = "session", !.method = m])
        /\ overlap' = (overlap \/ (m = "POST" /\ \E q \in Requests : Posting(q)))
  BY DEF Send
<1>3. req'[r] = [req[r] EXCEPT !.pc = "session", !.method = m]
  BY <1>1, <1>2, BecomeEffect
<1>4. /\ req'[r].tx = req[r].tx /\ req'[r].pc = "session" /\ req'[r].method = m
  BY <1>1, <1>3 DEF RequestStates
<1>5. overlap \in BOOLEAN
  BY <1>1 DEF TypeOK
<1>6. Posting(r)' => m = "POST"
  BY <1>4 DEF Posting
<1>7. UNCHANGED <<pending, verified, user_id>>
  BY DEF Send, context, durable
<1> QED
  BY <1>2, <1>4, <1>5, <1>6, <1>7

\* Only the record of the request that takes a step changes.
LEMMA OthersKept ==
  ASSUME TypeInv, NEW r \in Requests,
         Send(r) \/ Handle(r) \/ Abort(r) \/ Settle(r),
         NEW q \in Requests, q # r
  PROVE  req'[q] = req[q]
  BY StepGood, BecomeEffect DEF TypeInv

-----------------------------------------------------------------------------
(* No login without a verified password *)

\* Where a verification must have come before: a marked pending user, a bound
\* row, a transaction that has written the row, a request about to mark or bind.
NeedsVerification ==
  /\ pending.authenticated \/ user_id # NoUser => verified # {}
  /\ \A r \in Requests :
       req[r].pc \in {"authenticate", "update"} \/ req[r].tx # NoUser => verified # {}

\* Every step keeps verifications ahead of marks and bindings.
LEMMA NeedsVerificationStep ==
  ASSUME TypeInv, NeedsVerification, [Next]_vars
  PROVE  NeedsVerification'
<1>1. ASSUME NEW r \in Requests, Handle(r) \/ Abort(r) \/ Settle(r)
      PROVE  NeedsVerification'
  <2>1. Moved(r)
    BY <1>1, StepMoves
  <2>2. ASSUME NEW q \in Requests, q # r PROVE req'[q] = req[q]
    BY <1>1, <2>2, OthersKept
  <2>3. verified \subseteq verified'
    BY <1>1, SharedMoves
  <2>4. pending'.authenticated => verified' # {}
    BY <1>1, <2>3, SharedMoves DEF NeedsVerification, TypeInv, TypeOK, Pendings
  <2>5. user_id' # NoUser => verified' # {}
    BY <1>1, <2>3, SharedMoves DEF NeedsVerification
  <2>6. /\ req'[r].pc \in {"authenticate", "update"} => verified' # {}
        /\ req'[r].tx # NoUser => verified' # {}
    BY <2>1, <2>3 DEF Moved, NeedsVerification
  <2> QED
    BY <2>2, <2>3, <2>4, <2>5, <2>6 DEF NeedsVerification
<1>2. ASSUME NEW r \in Requests, Send(r) PROVE NeedsVerification'
  <2>1. ASSUME NEW q \in Requests, q # r PROVE req'[q] = req[q]
    BY <1>2, <2>1, OthersKept
  <2> QED
    BY <1>2, <2>1, SendMoves DEF NeedsVerification
<1>3. CASE Expire \/ UNCHANGED vars
  BY <1>3 DEF Expire, vars, context, durable, history, NeedsVerification
<1> QED
  BY <1>1, <1>2, <1>3 DEF Next

\* Whatever submissions overlap, fail or are abandoned, the session's row is
\* bound to a user only after handle_password_stage has verified some password.
THEOREM VerificationPrecedesLogin == Spec => []LoginNeedsVerification
<1>1. Init => NeedsVerification
  BY DEF Init, NeedsVerification, NoPending, Blank
<1>2. NeedsVerification => LoginNeedsVerification
  BY DEF NeedsVerification, LoginNeedsVerification
<1> QED
  BY <1>1, <1>2, TypeInvariant, NeedsVerificationStep, PTL DEF Spec

-----------------------------------------------------------------------------
(* Without overlapping submissions the user logged in is one verified *)

OneSubmission == \A q, r \in Requests : Posting(q) /\ Posting(r) => q = r

\* The user whose password is being verified stays the pending user until the
\* mark is set, and whoever is marked, about to be bound or bound was verified.
VerifiedUsers ==
  /\ OneSubmission
  /\ pending.authenticated => pending.uid \in verified
  /\ user_id \in verified \cup {NoUser}
  /\ \A r \in Requests :
       /\ req[r].tx \in verified \cup {NoUser}
       /\ req[r].pc \in {"password", "authenticate"} => req[r].snap.uid = pending.uid
       /\ req[r].pc \in {"authenticate", "update"} => req[r].snap.uid \in verified

VerifiedInv == ~overlap => VerifiedUsers

\* Every step keeps the marked, the clones and the bound among the verified.
LEMMA VerifiedStep ==
  ASSUME TypeInv, VerifiedInv, [Next]_vars
  PROVE  VerifiedInv'
<1>1. ASSUME NEW r \in Requests, Handle(r) \/ Abort(r) \/ Settle(r), ~overlap'
      PROVE  VerifiedUsers'
  <2>1. Moved(r)
    BY <1>1, StepMoves
  <2>2. ASSUME NEW q \in Requests, q # r PROVE req'[q] = req[q]
    BY <1>1, <2>2, OthersKept
  <2>3. verified \subseteq verified' /\ ~overlap
    BY <1>1, SharedMoves
  <2>4. VerifiedUsers
    BY <2>3 DEF VerifiedInv
  <2>5. OneSubmission'
    BY <2>1, <2>2, <2>4 DEF Moved, OneSubmission, VerifiedUsers, Posting, InFlight
  <2>6. pending'.authenticated => pending'.uid \in verified'
    BY <1>1, <2>3, <2>4, SharedMoves
    DEF VerifiedUsers, TypeInv, TypeOK, Pendings
  <2>7. user_id' \in verified' \cup {NoUser}
    BY <1>1, <2>3, <2>4, SharedMoves DEF VerifiedUsers
  <2>8. /\ req'[r].tx \in verified' \cup {NoUser}
        /\ req'[r].pc \in {"password", "authenticate"} => req'[r].snap.uid = pending'.uid
        /\ req'[r].pc \in {"authenticate", "update"} => req'[r].snap.uid \in verified'
    BY <2>1, <2>3, <2>4 DEF Moved, VerifiedUsers
  <2>9. ASSUME NEW q \in Requests, q # r
        PROVE  /\ req'[q].tx \in verified' \cup {NoUser}
               /\ req'[q].pc \in {"password", "authenticate"} =>
                    req'[q].snap.uid = pending'.uid
               /\ req'[q].pc \in {"authenticate", "update"} =>
                    req'[q].snap.uid \in verified'
    <3>1. ASSUME req[q].pc \in {"password", "authenticate"}
          PROVE  pending'.uid = pending.uid
      <4>1. Posting(q)
        BY <3>1, GoodRequests DEF Good, RequestShape, PostPoints, Posting, InFlight
      <4>2. ~Posting(r)
        BY <4>1, <2>4, <2>9 DEF VerifiedUsers, OneSubmission
      <4>3. req[r].pc # "identify"
        BY <4>2, GoodRequests DEF Good, RequestShape, PostPoints, Posting, InFlight
      <4> QED
        BY <1>1, <4>3, SharedMoves DEF TypeInv, TypeOK, Pendings
    <3> QED
      BY <3>1, <2>2, <2>3, <2>4, <2>9 DEF VerifiedUsers
  <2> QED
    BY <2>5, <2>6, <2>7, <2>8, <2>9 DEF VerifiedUsers
<1>2. ASSUME NEW r \in Requests, Send(r), ~overlap' PROVE VerifiedUsers'
  <2>1. ASSUME NEW q \in Requests, q # r PROVE req'[q] = req[q]
    BY <1>2, <2>1, OthersKept
  <2>2. VerifiedUsers /\ UNCHANGED <<pending, verified, user_id>>
    BY <1>2, SendMoves DEF VerifiedInv
  <2>3. OneSubmission'
    <3>1. CASE ~Posting(r)'
      BY <2>1, <2>2, <3>1 DEF VerifiedUsers, OneSubmission, Posting, InFlight
    <3>2. CASE Posting(r)'
      BY <1>2, <2>1, <3>2, SendMoves DEF OneSubmission, Posting, InFlight
    <3> QED
      BY <3>1, <3>2
  <2> QED
    BY <1>2, <2>1, <2>2, <2>3, SendMoves DEF VerifiedUsers
<1>3. CASE Expire \/ UNCHANGED vars
  BY <1>3
  DEF Expire, vars, context, durable, history, VerifiedInv, VerifiedUsers,
      OneSubmission, Posting, InFlight
<1> QED
  BY <1>1, <1>2, <1>3 DEF Next, VerifiedInv

\* While the session's submissions do not overlap, the user its row is bound to
\* is one whose password handle_password_stage has verified, although it marks
\* whoever is pending after its query.
THEOREM LoginIsVerified == Spec => []LoginVerified
<1>1. Init => VerifiedInv
  BY DEF Init, VerifiedInv, VerifiedUsers, OneSubmission, Posting, InFlight,
         NoPending, Blank
<1>2. VerifiedInv => LoginVerified
  BY DEF VerifiedInv, VerifiedUsers, LoginVerified
<1> QED
  BY <1>1, <1>2, TypeInvariant, VerifiedStep, PTL DEF Spec

=============================================================================
