-------------------------- MODULE LoadedServerProofs --------------------------
(***************************************************************************)
(* The load test's counter counts its requests and bounds them, for every    *)
(* number of requests and every max_concurrent an argument can hold.  Server *)
(* and load test together are each still what they are alone: the            *)
(* composition's behaviours are behaviours of both specifications, so that   *)
(* what is proved of the tool holds beside any server.  Of the server itself *)
(* three invariants are proved, from what each program point of a request    *)
(* says of the rest of its record.                                           *)
(***************************************************************************)
EXTENDS LoadedServer, FiniteSetTheorems, TLAPS

-----------------------------------------------------------------------------
(* The tool alone *)

\* Numbers below n are at most n many.
LEMMA FewBelow ==
  ASSUME NEW n \in Nat, NEW S \in SUBSET Nat, \A s \in S : s < n
  PROVE  IsFiniteSet(S) /\ Cardinality(S) \in Nat /\ Cardinality(S) <= n
<1>1. CASE n = 0
  <2>1. S = {}  BY <1>1
  <2>2. QED  BY <1>1, <2>1, FS_EmptySet
<1>2. CASE n # 0
  <2>1. n - 1 \in Nat /\ \A s \in S : s <= n - 1  BY <1>2
  <2>2. IsFiniteSet(S) /\ Cardinality(S) <= n - 1 + 1  BY <2>1, FS_BoundedSetOfNaturals
  <2>3. Cardinality(S) \in Nat  BY <2>2, FS_CardinalityType
  <2>4. QED  BY <2>2, <2>3
<1>3. QED  BY <1>1, <1>2

\* A word does not change when it is reduced.
LEMMA WordStays ==
  ASSUME NEW a \in 0 .. Word - 1
  PROVE  a % Word = a
BY LoadTestAssumption

\* fetch_sub takes one from a counter that is not zero.
LEMMA WordLess ==
  ASSUME NEW a \in 1 .. Word - 1
  PROVE  (a + Word - 1) % Word = a - 1
BY LoadTestAssumption

\* What the loop's position says of the counter, and that the requests in flight
\* are among those already spawned.
Ahead ==
  /\ \A n \in flying : n < next
  /\ point \in {"add", "sleep"} => next < Total
  /\ point = "add" => current <= MaxConcurrent
  /\ point = "exited" => flying = {}

ToolInv == ToolTypeOK /\ Counted /\ Bounded /\ Ahead
           /\ (point = "sleep" => Cardinality(flying) <= MaxConcurrent)

\* The requests in flight can be counted.
LEMMA FlyingCounts ==
  ASSUME ToolTypeOK, Ahead
  PROVE  IsFiniteSet(flying) /\ Cardinality(flying) \in Nat /\ Cardinality(flying) <= next
<1>1. next \in Nat /\ flying \in SUBSET Nat  BY LoadTestAssumption DEF ToolTypeOK, Numbers
<1>2. QED  BY <1>1, FewBelow DEF Ahead

\* The loop starts with nothing in flight.
LEMMA ToolStarts == ToolInit => ToolInv
BY LoadTestAssumption, FS_EmptySet
   DEF ToolInit, ToolInv, ToolTypeOK, Counted, Bounded, Ahead, LoopPoints, Numbers

\* Every step of the tool keeps the invariant.
LEMMA ToolStep == ToolInv /\ [ToolNext]_tool => ToolInv'
<1> SUFFICES ASSUME ToolInv, [ToolNext]_tool  PROVE ToolInv'
  OBVIOUS
<1> USE LoadTestAssumption
<1>0. /\ IsFiniteSet(flying) /\ Cardinality(flying) \in Nat /\ Cardinality(flying) <= next
      /\ Word \in Nat /\ Total \in Nat /\ MaxConcurrent \in Nat /\ Total < Word
  BY FlyingCounts DEF ToolInv
<1>1. CASE Load
  BY <1>1 DEF Load, ToolInv, ToolTypeOK, Counted, Bounded, Ahead, LoopPoints
<1>2. CASE Add
  <2>1. current = Cardinality(flying) /\ next < Total
    BY <1>2, <1>0 DEF Add, ToolInv, Counted, Ahead
  <2>2. current + 1 \in 0 .. Word - 1
    BY <2>1, <1>0 DEF ToolInv, ToolTypeOK
  <2>3. current' = current + 1  BY <1>2, <2>2, WordStays DEF Add
  <2>4. QED
    BY <1>2, <1>0, <2>1, <2>2, <2>3
    DEF Add, ToolInv, ToolTypeOK, Counted, Bounded, Ahead, LoopPoints
<1>3. CASE Spawn
  <2>1. next \notin flying /\ next \in Numbers
    BY <1>3 DEF Spawn, ToolInv, ToolTypeOK, Ahead, Numbers
  <2>2. Cardinality(flying') = Cardinality(flying) + 1
    BY <1>3, <1>0, <2>1, FS_AddElement DEF Spawn
  <2>3. current = Cardinality(flying) + 1 /\ Cardinality(flying) <= MaxConcurrent
    BY <1>3 DEF Spawn, ToolInv, Counted
  <2>4. ToolTypeOK'  BY <1>3, <2>1 DEF Spawn, ToolInv, ToolTypeOK, Ahead, LoopPoints, Numbers
  <2>5. Counted' /\ Bounded'  BY <1>3, <1>0, <2>2, <2>3 DEF Spawn, Counted, Bounded
  <2>6. Ahead'  BY <1>3 DEF Spawn, Ahead, ToolInv, ToolTypeOK, Numbers
  <2>7. QED  BY <1>3, <2>4, <2>5, <2>6 DEF Spawn, ToolInv
<1>4. ASSUME NEW n \in Numbers, Finish(n)  PROVE ToolInv'
  <2>0. /\ IsFiniteSet(flying')
        /\ Cardinality(flying') = Cardinality(flying) - 1
    BY <1>4, <1>0, FS_RemoveElement DEF Finish
  <2>1. /\ Cardinality(flying') = Cardinality(flying) - 1
        /\ Cardinality(flying) - 1 \in Nat
    BY <2>0, <1>0, FS_CardinalityType
  <2>2. point # "exited" /\ current \in 1 .. Word - 1
    BY <1>4, <1>0, <2>1 DEF Finish, ToolInv, ToolTypeOK, Counted, Ahead
  <2>3. current' = current - 1
    BY <1>4, <2>2, WordLess DEF Finish
  <2>4. current' \in 0 .. Word - 1
    BY <2>2, <2>3, <1>0
  <2>5. QED
    BY <1>4, <1>0, <2>1, <2>2, <2>3, <2>4
    DEF Finish, ToolInv, ToolTypeOK, Counted, Bounded, Ahead
<1>5. CASE Return
  BY <1>5 DEF Return, ToolInv, ToolTypeOK, Counted, Bounded, Ahead, LoopPoints
<1>6. CASE Exit
  BY <1>6, <1>0, FS_EmptySet DEF Exit, ToolInv, ToolTypeOK, Counted, Bounded, Ahead, LoopPoints
<1>7. CASE UNCHANGED tool
  BY <1>7 DEF tool, ToolInv, ToolTypeOK, Counted, Bounded, Ahead
<1>8. QED  BY <1>1, <1>2, <1>3, <1>4, <1>5, <1>6, <1>7 DEF ToolNext, Loop

\* The invariant of the load test.
THEOREM ToolInvariant == ToolSpec => []ToolInv
<1>1. QED  BY ToolStarts, ToolStep, PTL DEF ToolSpec

\* Every variable of the tool keeps its type; no request has a number twice.
THEOREM ToolTyping == ToolSpec => []ToolTypeOK
<1>1. ToolInv => ToolTypeOK  BY DEF ToolInv
<1>2. QED  BY <1>1, ToolInvariant, PTL

\* The counter is never wrong, and never wraps.
THEOREM CounterCounts == ToolSpec => []Counted
<1>1. ToolInv => Counted  BY DEF ToolInv
<1>2. QED  BY <1>1, ToolInvariant, PTL

\* No more than max_concurrent + 1 requests are in flight.
THEOREM LoadIsBounded == ToolSpec => []Bounded
<1>1. ToolInv => Bounded  BY DEF ToolInv
<1>2. QED  BY <1>1, ToolInvariant, PTL

-----------------------------------------------------------------------------
(* Server and tool together *)

\* A step of the composition is one of the tool, or none.
LEMMA StepOfTool == [LoadedNext]_loaded => [ToolNext]_tool
<1> SUFFICES ASSUME [LoadedNext]_loaded  PROVE [ToolNext]_tool
  OBVIOUS
<1>1. CASE RunLoop  BY <1>1 DEF RunLoop, ToolNext
<1>2. CASE ServerStep  BY <1>2 DEF ServerStep
<1>3. ASSUME NEW n \in Numbers, Request(n)  PROVE [ToolNext]_tool
  BY <1>3 DEF Request
<1>4. ASSUME NEW n \in Numbers, Receive(n)  PROVE [ToolNext]_tool
  BY <1>4 DEF Receive, ToolNext
<1>5. CASE UNCHANGED loaded  BY <1>5 DEF loaded, tool
<1>6. QED  BY <1>1, <1>2, <1>3, <1>4, <1>5 DEF LoadedNext

\* A step of the composition is one of the server, or none.
LEMMA StepOfServer == [LoadedNext]_loaded => [Next]_vars
<1> SUFFICES ASSUME [LoadedNext]_loaded  PROVE [Next]_vars
  OBVIOUS
<1>1. CASE RunLoop  BY <1>1 DEF RunLoop
<1>2. CASE ServerStep
  <2>1. CASE Process  BY <2>1 DEF Next
  <2>2. ASSUME NEW r \in Requests, Handle(r) \/ Timeout(r) \/ Deliver(r) \/ Disconnect(r)
        PROVE  Next
    BY <2>2 DEF Next
  <2>3. ASSUME NEW r \in Browsers, Send(r)  PROVE Next
    BY <2>3 DEF Next, Browsers
  <2>4. QED  BY <1>2, <2>1, <2>2, <2>3 DEF ServerStep
<1>3. ASSUME NEW n \in Numbers, Request(n)  PROVE [Next]_vars
  BY <1>3, LoadedAssumption DEF Request, Next
<1>4. ASSUME NEW n \in Numbers, Receive(n)  PROVE [Next]_vars
  BY <1>4 DEF Receive
<1>5. CASE UNCHANGED loaded  BY <1>5 DEF loaded, vars
<1>6. QED  BY <1>1, <1>2, <1>3, <1>4, <1>5 DEF LoadedNext

\* The tool beside the server is the tool.
THEOREM ToolIsImplemented == LoadedSpec => ToolSpec
<1>1. LoadedInit => ToolInit  BY DEF LoadedInit
<1>2. QED  BY <1>1, StepOfTool, PTL DEF LoadedSpec, ToolSpec

\* The server under load is the server.
THEOREM ServerIsImplemented == LoadedSpec => Spec
<1>1. LoadedInit => Init  BY DEF LoadedInit
<1>2. QED  BY <1>1, StepOfServer, PTL DEF LoadedSpec, Spec

\* However the server answers, drops or refuses, the tool keeps its bound.
THEOREM LoadIsBoundedBesideTheServer == LoadedSpec => []Bounded
BY ToolIsImplemented, LoadIsBounded, PTL

-----------------------------------------------------------------------------
(* The server *)

Api == {"ping", "session", "admin"}

Defaults(table) == {h \in DOMAIN table : table[h].is_default}

\* The flow that x is redirected to is one of its tenant's.
Found(table, x) ==
  /\ x.tenant \in DOMAIN table
  /\ x.flow \in {table[x.tenant].flows[d] : d \in Designations} \ {NoFlow}
  /\ \/ x.tenant = x.want.host
     \/ /\ x.want.host \notin DOMAIN table \/ x.looked = "failed"
        /\ Defaults(table) = {x.tenant}

\* What is so of a request that no handler has begun to answer.
Untouched(x) ==
  x.handled = 0 /\ x.status = 0 /\ x.error = NoError /\ ~x.trace

\* What a request's program point says of the rest of it.
Around(table, x) ==
  /\ ~x.panicked
  /\ x.pc \in {"unsent", "extracting", "layers"} => x.inner /\ x.span = "none" /\ Untouched(x)
  /\ x.pc \in Timed =>
       /\ "cookies" \in x.extensions /\ x.span = "open"
       /\ x.status = 0 /\ x.error = NoError /\ ~x.trace
  /\ x.pc \in Timed \ {"handler"} => x.handled = 0
  /\ x.pc \in {"csrf", "auth", "extract", "new_session"} => x.want.target \in Api
  /\ x.pc \in {"extract", "new_session"} =>
       "auth" \in x.extensions /\ x.want.token \in {"none", "valid"}
  /\ x.pc = "flow" => Found(table, x)
  /\ x.pc \in {"done", "dropped"} => Untouched(x)

\* What its answer says.
Told(table, x) ==
  /\ x.error # "MissingMiddleware"
  /\ x.handled \in {0, 1}
  /\ x.handled = 1 /\ x.want.target \in Api => x.want.token \in {"none", "valid"}
  /\ x.status # 0 => (x.span = "ERROR" <=> ServerError(x.status))
  /\ x.status # 0 /\ x.error # NoError => (x.trace <=> ServerError(x.status))
  /\ x.status = 302 => Found(table, x)

RequestInv(table, x) == x \in RequestType /\ Around(table, x) /\ Told(table, x)

Starting == phase \in {"setup", "preload", "defaults"}

ServerInv ==
  /\ phase \in Phases /\ preloaded \in 0 .. Len(Caches) /\ tenants \in TenantTables
  /\ phase \in {"setup", "preload"} => preloaded < Len(Caches)
  /\ default # NoHost => default \in DOMAIN tenants /\ Defaults(tenants) = {default}
  /\ Starting => \A r \in Requests : req[r].pc = "unsent"
  /\ req \in [Requests -> RequestType]
  /\ \A r \in Requests : RequestInv(tenants, req[r])

\* A record of which nothing is left.
LEMMA BlankRequests ==
  ASSUME NEW table, NEW want \in Wanted, NEW pc \in {"unsent", "done", "dropped"}
  PROVE  RequestInv(table, Blank(want, pc))
<1>1. Blank(want, pc) \in RequestType
  BY DEF Blank, RequestType, ProgramPoints, NoError
<1>2. QED
  BY <1>1 DEF Blank, RequestInv, Around, Told, Untouched, Timed, Waiting, NoError, Kinds,
     InternalKinds, UnauthorizedKinds

\* An answer that stands for no error of the API.
LEMMA Answers ==
  ASSUME NEW table, NEW x, RequestInv(table, x),
         NEW status \in {200, 302, 400, 403, 404, 408, 500},
         x.pc \in Timed \/ (x.pc = "extracting" /\ status = 400),
         status = 302 => Found(table, x)
  PROVE  RequestInv(table, Answered(x, status))
<1> DEFINE y == Answered(x, status)
           span == IF x.span = "open" THEN SpanStatus(status) ELSE x.span
<1>1. /\ x \in RequestType /\ ~x.panicked /\ x.error = NoError /\ x.handled \in {0, 1}
      /\ ~x.trace /\ x.span \in {"none", "open"} /\ (x.span = "none" => status = 400)
      /\ x.handled = 1 /\ x.want.target \in Api => x.want.token \in {"none", "valid"}
  BY DEF RequestInv, Around, Told, Timed, Waiting, Untouched
<1>2. /\ span \in {"none", "OK", "ERROR"}
      /\ span = "ERROR" <=> ServerError(status)
  BY <1>1 DEF SpanStatus, ServerError
<1>3. y = [x EXCEPT !.pc = "answered", !.status = status, !.span = span]
  BY DEF Answered
<1> HIDE DEF y, span
<1>4. y \in RequestType
  <2>1. /\ "answered" \in ProgramPoints /\ status \in Statuses \cup {0}
        /\ span \in {"none", "open", "OK", "ERROR"}
    BY <1>2 DEF ProgramPoints, Statuses
  <2>2. x \in RequestType  BY <1>1
  <2>3. QED  BY <1>3, <2>1, <2>2, Zenon DEF RequestType
<1>5. /\ y.pc = "answered" /\ y.status = status /\ y.span = span
      /\ y.want = x.want /\ y.error = x.error /\ y.trace = x.trace /\ y.handled = x.handled
      /\ y.tenant = x.tenant /\ y.flow = x.flow /\ y.looked = x.looked
      /\ y.panicked = x.panicked
  BY <1>1, <1>3 DEF RequestType
<1>6. Found(table, x) => Found(table, y)  BY <1>5 DEF Found
<1>7. Around(table, y)  BY <1>1, <1>5 DEF Around, Timed, Waiting
<1>8. Told(table, y)  BY <1>1, <1>2, <1>5, <1>6 DEF Told, NoError
<1>9. QED  BY <1>4, <1>7, <1>8 DEF RequestInv, y

\* The tables of is_internal and into_response agree.
LEMMA TablesAgree ==
  ASSUME NEW kind \in Kinds
  PROVE  /\ Status(kind) \in {400, 401, 403, 404, 409, 500}
         /\ IsInternal(kind) \in BOOLEAN
         /\ IsInternal(kind) <=> ServerError(Status(kind))
<1>1. CASE kind \in InternalKinds
  <2>1. kind \in {"Axum", "PwHash", "PoolError", "PostgresError", "MiscInternal",
                  "MissingMiddleware", "JsonWebToken"}
    BY <1>1 DEF InternalKinds
  <2>2. Status(kind) = 500  BY <2>1 DEF Status, UnauthorizedKinds
  <2>3. QED  BY <1>1, <2>2 DEF IsInternal, ServerError
<1>2. CASE kind \in UnauthorizedKinds
  BY <1>2 DEF Status, IsInternal, ServerError, InternalKinds, UnauthorizedKinds
<1>3. CASE kind \in {"NotFound", "Forbidden", "Conflict", "SubmissionError"}
  BY <1>3 DEF Status, IsInternal, ServerError, InternalKinds, UnauthorizedKinds
<1>4. QED  BY <1>1, <1>2, <1>3 DEF Kinds

\* An answer that stands for an error of the API.
LEMMA Failures ==
  ASSUME NEW table, NEW x, RequestInv(table, x), x.pc \in Timed,
         NEW kind \in Kinds, kind # "MissingMiddleware"
  PROVE  RequestInv(table, Failed(x, kind))
<1> DEFINE status == Status(kind)
           trace == IsInternal(kind)
           span == SpanStatus(status)
           y == Failed(x, kind)
<1>1. /\ x \in RequestType /\ ~x.panicked /\ x.handled \in {0, 1} /\ x.span = "open"
      /\ x.handled = 1 /\ x.want.target \in Api => x.want.token \in {"none", "valid"}
  BY DEF RequestInv, Around, Told
<1>2. /\ status \in {400, 401, 403, 404, 409, 500} /\ trace \in BOOLEAN
      /\ trace <=> ServerError(status)
  BY TablesAgree
<1>3. span \in {"OK", "ERROR"} /\ (span = "ERROR" <=> ServerError(status))
  BY DEF SpanStatus
<1>4. y = [[x EXCEPT !.pc = "answered", !.status = status, !.span = span]
             EXCEPT !.error = kind, !.trace = trace]
  BY <1>1 DEF Failed, Answered
<1> HIDE DEF status, trace, span, y
<1>5. y \in RequestType
  <2>1. /\ "answered" \in ProgramPoints /\ status \in Statuses \cup {0}
        /\ span \in {"none", "open", "OK", "ERROR"} /\ kind \in Kinds \cup {NoError}
    BY <1>2, <1>3 DEF ProgramPoints, Statuses
  <2>2. DEFINE z == [x EXCEPT !.pc = "answered", !.status = status, !.span = span]
  <2>3. z \in RequestType  BY <1>1, <2>1, Zenon DEF RequestType
  <2>4. y = [z EXCEPT !.error = kind, !.trace = trace]  BY <1>4
  <2> HIDE DEF z
  <2>5. QED  BY <1>2, <2>1, <2>3, <2>4, Zenon DEF RequestType
<1>6. /\ y.pc = "answered" /\ y.status = status /\ y.span = span /\ y.error = kind
      /\ y.trace = trace /\ y.want = x.want /\ y.handled = x.handled
      /\ y.panicked = x.panicked
  BY <1>1, <1>4 DEF RequestType
<1>7. Around(table, y)  BY <1>1, <1>6 DEF Around, Timed, Waiting
<1>8. Told(table, y)  BY <1>1, <1>2, <1>3, <1>6 DEF Told
<1>9. QED  BY <1>5, <1>7, <1>8 DEF RequestInv, y

\* What the libraries report is an error, and none of a missing layer.
LEMMA CausesHaveKinds ==
  ASSUME NEW cause \in Causes
  PROVE  KindOf(cause) \in Kinds /\ KindOf(cause) # "MissingMiddleware"
BY DEF Causes, KindOf, Kinds, InternalKinds, UnauthorizedKinds

\* Once the server has listened, a step of one request keeps the invariant if it
\* leaves that request with its own.
LEMMA OneRequest ==
  ASSUME ServerInv, NEW r \in Requests, UNCHANGED server, ~Starting,
         req' = [req EXCEPT ![r] = req'[r]], RequestInv(tenants, req'[r])
  PROVE  ServerInv'
<1>1. req' \in [Requests -> RequestType]  BY DEF ServerInv, RequestInv
<1>2. \A s \in Requests : req'[s] = IF s = r THEN req'[r] ELSE req[s]  BY DEF ServerInv
<1>3. \A s \in Requests : RequestInv(tenants, req'[s])  BY <1>2 DEF ServerInv
<1>4. QED  BY <1>1, <1>3 DEF ServerInv, server, Starting

\* A request that goes on inside the timeout.
LEMMA GoesOn ==
  ASSUME NEW table, NEW x, RequestInv(table, x), x.pc \in Timed \ {"handler"},
         NEW y \in RequestType, y.pc \in Timed,
         y.want = x.want, y.status = x.status, y.error = x.error, y.trace = x.trace,
         y.span = x.span, y.panicked = x.panicked, x.extensions \subseteq y.extensions,
         y.handled = IF y.pc = "handler" THEN 1 ELSE 0,
         y.pc \in {"csrf", "auth", "extract", "new_session"} => x.want.target \in Api,
         y.pc \in {"extract", "new_session"} => "auth" \in y.extensions,
         y.pc \in {"extract", "new_session", "handler"} /\ x.want.target \in Api
           => x.want.token \in {"none", "valid"},
         y.pc = "flow" => Found(table, y)
  PROVE  RequestInv(table, y)
<1>1. /\ "cookies" \in x.extensions /\ x.span = "open" /\ x.status = 0
      /\ x.error = NoError /\ ~x.trace /\ ~x.panicked
  BY DEF RequestInv, Around
<1>2. y.pc \notin {"unsent", "extracting", "layers", "done", "dropped"}  BY DEF Timed, Waiting
<1>3. Around(table, y)  BY <1>1, <1>2 DEF Around
<1>4. Told(table, y)  BY <1>1 DEF Told, NoError
<1>5. QED  BY <1>3, <1>4 DEF RequestInv

\* What is known when a request on its way becomes e: OneRequest's hypotheses.
LEMMA OnItsWay ==
  ASSUME ServerInv, NEW r \in Requests, req[r].pc # "unsent"
  PROVE  ~Starting /\ RequestInv(tenants, req[r]) /\ req[r] \in RequestType
BY DEF ServerInv, RequestInv

\* Program points.
LEMMA Points ==
  /\ Timed \subseteq ProgramPoints
  /\ {"unsent", "extracting", "layers", "answered", "done", "dropped"} \subseteq ProgramPoints
  /\ "unsent" \notin Timed
BY DEF Timed, Waiting, ProgramPoints

\* Being sent.
LEMMA SendStep ==
  ASSUME ServerInv, NEW r \in Requests, Send(r)
  PROVE  ServerInv'
<1> DEFINE x == req[r]
           y == [x EXCEPT !.pc = "extracting"]
<1>1. /\ x.pc = "unsent" /\ ~Starting /\ UNCHANGED server /\ req' = [req EXCEPT ![r] = y]
      /\ x \in RequestType /\ RequestInv(tenants, x)
  BY DEF Send, Go, Become, At, Starting, ServerInv
<1>2. req'[r] = y  BY <1>1 DEF ServerInv
<1>3. y \in RequestType  BY <1>1, Points, Zenon DEF RequestType
<1>4. /\ y.pc = "extracting" /\ y.inner = x.inner /\ y.span = x.span /\ y.handled = x.handled
      /\ y.status = x.status /\ y.error = x.error /\ y.trace = x.trace
      /\ y.panicked = x.panicked /\ y.want = x.want
  BY <1>1 DEF RequestType
<1> HIDE DEF x, y
<1>5. RequestInv(tenants, y)
  BY <1>1, <1>3, <1>4 DEF RequestInv, Around, Told, Untouched, Timed, Waiting
<1>6. QED  BY <1>1, <1>2, <1>5, OneRequest DEF x

\* The layers around every route.
LEMMA LayerStep ==
  ASSUME ServerInv, NEW r \in Requests, ExtractHost(r) \/ CallInner(r)
  PROVE  ServerInv'
<1> DEFINE x == req[r]
<1>1. /\ x.pc \in {"extracting", "layers"} /\ UNCHANGED server
      /\ ~Starting /\ x \in RequestType /\ RequestInv(tenants, x)
      /\ x.inner /\ x.span = "none" /\ Untouched(x) /\ ~x.panicked
  <2>1. x.pc \in {"extracting", "layers"} /\ UNCHANGED server
    BY DEF ExtractHost, CallInner, At, Answer, Panic, Become
  <2>2. ~Starting /\ x \in RequestType /\ RequestInv(tenants, x)  BY <2>1, OnItsWay
  <2>3. QED  BY <2>1, <2>2 DEF RequestInv, Around
<1>2. CASE ExtractHost(r) /\ x.want.host = Invalid
  <2>1. x.pc = "extracting" /\ req' = [req EXCEPT ![r] = Answered(x, 400)]
    BY <1>2 DEF ExtractHost, At, Answer, Become
  <2>2. RequestInv(tenants, Answered(x, 400))  BY <1>1, <2>1, Answers
  <2>3. req'[r] = Answered(x, 400)  BY <2>1 DEF ServerInv
  <2>4. QED  BY <1>1, <2>1, <2>2, <2>3, OneRequest
<1>3. CASE ExtractHost(r) /\ x.want.host # Invalid
  <2> DEFINE extensions == x.extensions \cup {"host"}
             y == [x EXCEPT !.pc = "layers", !.extensions = extensions]
  <2>1. x.pc = "extracting" /\ req' = [req EXCEPT ![r] = y]
    BY <1>3 DEF ExtractHost, At, Answer, Become
  <2>2. req'[r] = y  BY <2>1 DEF ServerInv
  <2>3. extensions \in SUBSET {"host", "cookies", "auth"}  BY <1>1 DEF RequestType
  <2> HIDE DEF extensions
  <2>4. y \in RequestType  BY <1>1, <2>3, Points, Zenon DEF RequestType
  <2>5. /\ y.pc = "layers" /\ y.inner = x.inner /\ y.span = x.span /\ y.handled = x.handled
        /\ y.status = x.status /\ y.error = x.error /\ y.trace = x.trace
        /\ y.panicked = x.panicked /\ y.want = x.want
    BY <1>1 DEF RequestType
  <2> HIDE DEF y
  <2>6. RequestInv(tenants, y)
    BY <1>1, <2>4, <2>5 DEF RequestInv, Around, Told, Untouched, Timed, Waiting
  <2>7. QED  BY <1>1, <2>1, <2>2, <2>6, OneRequest
<1>4. CASE CallInner(r)
  <2> DEFINE extensions == x.extensions \cup {"cookies"}
             z == [x EXCEPT !.inner = FALSE, !.span = "open"]
             y == [z EXCEPT !.pc = "route", !.extensions = extensions]
  <2>1. req' = [req EXCEPT ![r] = y]
    BY <1>1, <1>4 DEF CallInner, Become, RequestType
  <2>2. req'[r] = y  BY <2>1 DEF ServerInv
  <2>3. extensions \in SUBSET {"host", "cookies", "auth"} /\ "cookies" \in extensions
    BY <1>1 DEF RequestType
  <2> HIDE DEF extensions
  <2>4. z \in RequestType  BY <1>1, Zenon DEF RequestType
  <2>5. /\ z.span = "open" /\ z.handled = x.handled
        /\ z.status = x.status /\ z.error = x.error /\ z.trace = x.trace
        /\ z.panicked = x.panicked /\ z.want = x.want
    BY <1>1 DEF RequestType
  <2> HIDE DEF z
  <2>6. "route" \in ProgramPoints  BY Points DEF Timed, Waiting
  <2>7. y \in RequestType  BY <2>3, <2>4, <2>6, Zenon DEF RequestType
  <2>8. /\ y.pc = "route" /\ y.extensions = extensions /\ y.span = z.span
        /\ y.handled = z.handled /\ y.status = z.status /\ y.error = z.error
        /\ y.trace = z.trace /\ y.panicked = z.panicked /\ y.want = z.want
    BY <2>4 DEF RequestType
  <2> HIDE DEF y
  <2>9. RequestInv(tenants, y)
    BY <1>1, <2>3, <2>5, <2>7, <2>8 DEF RequestInv, Around, Told, Untouched, Timed, Waiting, NoError
  <2>10. QED  BY <1>1, <2>1, <2>2, <2>9, OneRequest
<1>5. QED  BY <1>2, <1>3, <1>4

\* An answer from inside the timeout.
LEMMA AnswerStep ==
  ASSUME ServerInv, NEW r \in Requests, req[r].pc \in Timed,
         NEW status \in {200, 302, 400, 403, 404, 408, 500},
         status = 302 => Found(tenants, req[r]), Answer(r, status)
  PROVE  ServerInv'
<1>1. /\ ~Starting /\ RequestInv(tenants, req[r])  BY Points, OnItsWay
<1>2. RequestInv(tenants, Answered(req[r], status))  BY <1>1, Answers
<1>3. UNCHANGED server /\ req' = [req EXCEPT ![r] = Answered(req[r], status)]
  BY DEF Answer, Become
<1>4. req'[r] = Answered(req[r], status)  BY <1>3 DEF ServerInv
<1>5. RequestInv(tenants, req'[r]) /\ req' = [req EXCEPT ![r] = req'[r]]
  BY <1>2, <1>3, <1>4
<1>6. QED  BY <1>1, <1>3, <1>5, OneRequest

\* An error of the API from inside the timeout.
LEMMA FailStep ==
  ASSUME ServerInv, NEW r \in Requests, req[r].pc \in Timed,
         NEW kind \in Kinds, kind # "MissingMiddleware", Fail(r, kind)
  PROVE  ServerInv'
<1>1. /\ ~Starting /\ RequestInv(tenants, req[r])  BY Points, OnItsWay
<1>2. RequestInv(tenants, Failed(req[r], kind))  BY <1>1, Failures
<1>3. UNCHANGED server /\ req' = [req EXCEPT ![r] = Failed(req[r], kind)]
  BY DEF Fail, Become
<1>4. req'[r] = Failed(req[r], kind)  BY <1>3 DEF ServerInv
<1>5. QED  BY <1>1, <1>2, <1>3, <1>4, OneRequest

\* A request that goes on to p, where no handler is entered.
LEMMA GoStep ==
  ASSUME ServerInv, NEW r \in Requests, req[r].pc \in Timed \ {"handler"},
         NEW p \in Timed \ {"handler", "flow"}, Go(r, p),
         p \in {"csrf", "auth", "extract", "new_session"} => req[r].want.target \in Api,
         p \in {"extract", "new_session"} =>
           "auth" \in req[r].extensions /\ req[r].want.token \in {"none", "valid"}
  PROVE  ServerInv'
<1> DEFINE x == req[r]
           y == [x EXCEPT !.pc = p]
<1>1. /\ ~Starting /\ RequestInv(tenants, x) /\ x \in RequestType  BY Points, OnItsWay
<1>2. UNCHANGED server /\ req' = [req EXCEPT ![r] = y]  BY DEF Go, Become
<1>3. req'[r] = y  BY <1>2 DEF ServerInv
<1>4. y \in RequestType  BY <1>1, Points, Zenon DEF RequestType
<1>5. /\ y.pc = p /\ y.want = x.want /\ y.status = x.status /\ y.error = x.error
      /\ y.trace = x.trace /\ y.span = x.span /\ y.panicked = x.panicked
      /\ y.extensions = x.extensions /\ y.handled = x.handled
  BY <1>1 DEF RequestType
<1>6. x.handled = 0  BY <1>1 DEF RequestInv, Around
<1> HIDE DEF y
<1>7. RequestInv(tenants, y)  BY <1>1, <1>4, <1>5, <1>6, GoesOn
<1>8. QED  BY <1>1, <1>2, <1>3, <1>7, OneRequest

\* A request whose handler is entered.
LEMMA EnterStep ==
  ASSUME ServerInv, NEW r \in Requests, req[r].pc \in Timed \ {"handler"},
         Enter(r, "handler"),
         req[r].want.target \in Api => req[r].want.token \in {"none", "valid"}
  PROVE  ServerInv'
<1> DEFINE x == req[r]
           handled == x.handled + 1
           y == [x EXCEPT !.pc = "handler", !.handled = handled]
<1>1. /\ ~Starting /\ RequestInv(tenants, x) /\ x \in RequestType  BY Points, OnItsWay
<1>2. x.handled = 0  BY <1>1 DEF RequestInv, Around
<1>3. UNCHANGED server /\ req' = [req EXCEPT ![r] = y]  BY <1>1 DEF Enter, Become, RequestType
<1>4. req'[r] = y  BY <1>3 DEF ServerInv
<1>5. handled = 1 /\ handled \in 0 .. 2  BY <1>2
<1>6. "handler" \in Timed /\ "handler" \in ProgramPoints  BY Points DEF Timed, Waiting
<1> HIDE DEF handled
<1>7. y \in RequestType  BY <1>1, <1>5, <1>6, Zenon DEF RequestType
<1>8. /\ y.pc = "handler" /\ y.want = x.want /\ y.status = x.status /\ y.error = x.error
      /\ y.trace = x.trace /\ y.span = x.span /\ y.panicked = x.panicked
      /\ y.extensions = x.extensions /\ y.handled = handled
  BY <1>1 DEF RequestType
<1> HIDE DEF y
<1>9. RequestInv(tenants, y)  BY <1>1, <1>5, <1>6, <1>7, <1>8, GoesOn
<1>10. QED  BY <1>1, <1>3, <1>4, <1>9, OneRequest

\* The routes, the timeout and the end of a request.
LEMMA RouteStep ==
  ASSUME ServerInv, NEW r \in Requests,
         Route(r) \/ Timeout(r) \/ Deliver(r) \/ Disconnect(r)
  PROVE  ServerInv'
<1>1. CASE Route(r)
  <2>1. /\ req[r].pc = "route" /\ req[r].pc \in Timed \ {"handler"}
        /\ {"csrf", "tenant", "file"} \subseteq Timed \ {"handler", "flow"}
    BY <1>1 DEF Route, At, Timed, Waiting
  <2>2. req[r].want.target \in {"test", "ping", "session", "admin", "redirect", "page"}
    <3>1. req[r] \in RequestType  BY DEF ServerInv
    <3>2. req[r].want \in WantType  BY <3>1, ServerAssumption DEF RequestType
    <3>3. QED  BY <3>2 DEF WantType
  <2>3. CASE req[r].want.target = "test"
    BY <1>1, <2>1, <2>3, EnterStep DEF Route, Api
  <2>4. CASE req[r].want.target \in Api
    <3>1. Go(r, "csrf")  BY <1>1, <2>4 DEF Route, Api
    <3>2. QED  BY <3>1, <2>1, <2>4, GoStep
  <2>5. CASE req[r].want.target = "redirect"
    <3>1. Go(r, "tenant")  BY <1>1, <2>5 DEF Route
    <3>2. QED  BY <3>1, <2>1, GoStep
  <2>6. CASE req[r].want.target = "page"
    <3>1. Go(r, "file")  BY <1>1, <2>6 DEF Route
    <3>2. QED  BY <3>1, <2>1, GoStep
  <2>7. QED  BY <2>2, <2>3, <2>4, <2>5, <2>6 DEF Api
<1>2. CASE Timeout(r)
  <2>1. req[r].pc \in Timed /\ Answer(r, 408)  BY <1>2 DEF Timeout, Timed
  <2>2. QED  BY <2>1, AnswerStep
<1>3. ASSUME NEW p \in {"done", "dropped"}, Leave(r, p), req[r].pc # "unsent"
      PROVE  ServerInv'
  <2>1. ~Starting /\ req[r] \in RequestType  BY <1>3, OnItsWay
  <2>2. req[r].want \in Wanted  BY <2>1 DEF RequestType
  <2>3. RequestInv(tenants, Blank(req[r].want, p))  BY <2>2, BlankRequests
  <2>4. UNCHANGED server /\ req' = [req EXCEPT ![r] = Blank(req[r].want, p)]
    BY <1>3 DEF Leave, Become
  <2>5. req'[r] = Blank(req[r].want, p)  BY <2>4 DEF ServerInv
  <2>6. QED  BY <2>1, <2>3, <2>4, <2>5, OneRequest
<1>4. QED  BY <1>1, <1>2, <1>3 DEF Deliver, Disconnect, At, InFlight

\* The layers of the API.
LEMMA ApiLayerStep ==
  ASSUME ServerInv, NEW r \in Requests, CheckCsrf(r) \/ Authenticate(r)
  PROVE  ServerInv'
<1> DEFINE x == req[r]
<1>1. /\ x.pc \in {"csrf", "auth"} /\ x.pc \in Timed \ {"handler"}
      /\ {"auth", "extract"} \subseteq Timed \ {"handler", "flow"}
  BY DEF CheckCsrf, Authenticate, At, Timed, Waiting
<1>2. ~Starting /\ RequestInv(tenants, x) /\ x \in RequestType  BY <1>1, OnItsWay
<1>3. "cookies" \in x.extensions /\ x.want.target \in Api /\ x.handled = 0
  BY <1>1, <1>2 DEF RequestInv, Around
<1>4. x.want.token \in {"none", "valid", "invalid", "algorithm"}
  BY <1>2, ServerAssumption DEF RequestType, WantType
<1>5. CASE CheckCsrf(r)
  <2>1. CASE Go(r, "auth")  BY <2>1, <1>1, <1>3, GoStep
  <2>2. CASE Answer(r, 403)  BY <2>2, <1>1, AnswerStep
  <2>3. CASE Answer(r, 400)  BY <2>3, <1>1, AnswerStep
  <2>4. QED  BY <1>3, <1>5, <2>1, <2>2, <2>3 DEF CheckCsrf
<1>6. CASE Authenticate(r) /\ x.want.token = "invalid"
  <2>1. Fail(r, KindOf("token"))  BY <1>3, <1>6 DEF Authenticate
  <2>2. "token" \in Causes  BY DEF Causes
  <2>3. QED  BY <1>1, <2>1, <2>2, CausesHaveKinds, FailStep
<1>7. CASE Authenticate(r) /\ x.want.token = "algorithm"
  <2>1. Fail(r, KindOf("token_algorithm"))  BY <1>3, <1>7 DEF Authenticate
  <2>2. "token_algorithm" \in Causes  BY DEF Causes
  <2>3. QED  BY <1>1, <2>1, <2>2, CausesHaveKinds, FailStep
<1>8. CASE Authenticate(r) /\ x.want.token \in {"none", "valid"}
  <2> DEFINE extensions == x.extensions \cup {"auth"}
             p == IF x.want.target = "ping" THEN "handler" ELSE "extract"
             handled == IF x.want.target = "ping" THEN x.handled + 1 ELSE x.handled
             z == [x EXCEPT !.extensions = extensions]
             y == [z EXCEPT !.pc = p, !.handled = handled]
  <2>1. UNCHANGED server /\ req' = [req EXCEPT ![r] = y]
    BY <1>2, <1>3, <1>8 DEF Authenticate, Become, RequestType
  <2>2. req'[r] = y  BY <2>1 DEF ServerInv
  <2>3. /\ extensions \in SUBSET {"host", "cookies", "auth"} /\ "auth" \in extensions
        /\ x.extensions \subseteq extensions
        /\ p \in Timed /\ p \in ProgramPoints /\ p \in {"handler", "extract"}
        /\ handled \in 0 .. 2 /\ handled = IF p = "handler" THEN 1 ELSE 0
    BY <1>2, <1>3, Points DEF RequestType, Timed, Waiting
  <2> HIDE DEF extensions, p, handled
  <2>4. z \in RequestType  BY <1>2, <2>3, Zenon DEF RequestType
  <2>5. /\ z.want = x.want /\ z.status = x.status /\ z.error = x.error
        /\ z.trace = x.trace /\ z.span = x.span /\ z.panicked = x.panicked
        /\ z.extensions = extensions
    BY <1>2 DEF RequestType
  <2> HIDE DEF z
  <2>6. y \in RequestType  BY <2>3, <2>4, Zenon DEF RequestType
  <2>7. /\ y.pc = p /\ y.want = x.want /\ y.status = x.status /\ y.error = x.error
        /\ y.trace = x.trace /\ y.span = x.span /\ y.panicked = x.panicked
        /\ y.extensions = extensions /\ y.handled = handled
    BY <2>4, <2>5 DEF RequestType
  <2> HIDE DEF y
  <2>8. RequestInv(tenants, y)
    <3>1. p \notin {"csrf", "auth", "new_session", "flow"}  BY <2>3
    <3>2. QED  BY <1>1, <1>2, <1>3, <1>8, <2>3, <2>6, <2>7, <3>1, GoesOn
  <2>9. QED  BY <1>2, <2>1, <2>2, <2>8, OneRequest
<1>9. QED  BY <1>4, <1>5, <1>6, <1>7, <1>8

\* The session extractors and the handlers.
LEMMA HandlerStep ==
  ASSUME ServerInv, NEW r \in Requests, ExtractSession(r) \/ NewSession(r) \/ Handler(r)
  PROVE  ServerInv'
<1> DEFINE x == req[r]
<1>1. /\ x.pc \in {"extract", "new_session", "handler"} /\ x.pc \in Timed
      /\ "new_session" \in Timed \ {"handler", "flow"}
  BY DEF ExtractSession, NewSession, Handler, At, Timed, Waiting
<1>2. ~Starting /\ RequestInv(tenants, x) /\ x \in RequestType  BY <1>1, Points, OnItsWay
<1>3. ASSUME NEW cause \in Causes, Fail(r, KindOf(cause))  PROVE ServerInv'
  BY <1>1, <1>3, CausesHaveKinds, FailStep
<1>4. {"pool", "database", "token", "token_algorithm", "forbidden"} \subseteq Causes /\ HandlerFailures \subseteq Causes
  BY ServerAssumption DEF Causes
<1>5. x.pc \in {"extract", "new_session"} =>
        /\ x.want.target \in Api /\ x.want.token \in {"none", "valid"} /\ x.handled = 0
        /\ "auth" \in x.extensions /\ "cookies" \in x.extensions /\ x.pc # "handler"
  BY <1>1, <1>2 DEF RequestInv, Around, Timed, Waiting
<1>6. CASE ExtractSession(r)
  <2>1. CASE Go(r, "new_session")
    BY <1>1, <1>5, <1>6, <2>1, GoStep DEF ExtractSession, At
  <2>2. CASE Enter(r, "handler")
    BY <1>1, <1>5, <1>6, <2>2, EnterStep DEF ExtractSession, At
  <2>3. ASSUME NEW cause \in {"pool", "database", "forbidden"}, Fail(r, KindOf(cause))
        PROVE  ServerInv'
    BY <1>3, <1>4, <2>3
  <2>4. QED  BY <1>5, <1>6, <2>1, <2>2, <2>3 DEF ExtractSession, At
<1>7. CASE NewSession(r)
  <2> DEFINE z == [x EXCEPT !.cookie = TRUE]
             handled == x.handled + 1
             y == [z EXCEPT !.pc = "handler", !.handled = handled]
  <2>1. x.pc = "new_session"  BY <1>7 DEF NewSession, At
  <2>2. z \in RequestType  BY <1>2, Zenon DEF RequestType
  <2>3. /\ z.pc = x.pc /\ z.inner = x.inner /\ z.want = x.want /\ z.status = x.status
        /\ z.error = x.error /\ z.trace = x.trace /\ z.span = x.span
        /\ z.panicked = x.panicked /\ z.extensions = x.extensions /\ z.handled = x.handled
        /\ z.tenant = x.tenant /\ z.flow = x.flow /\ z.looked = x.looked
    BY <1>2 DEF RequestType
  <2>4. ASSUME NEW cause \in {"database", "token", "token_algorithm"}, Fail(r, KindOf(cause))
        PROVE  ServerInv'
    BY <1>3, <1>4, <2>4
  <2>5. CASE Become(r, [x EXCEPT !.cookie = TRUE, !.pc = "handler", !.handled = @ + 1])
    <3>1. UNCHANGED server /\ req' = [req EXCEPT ![r] = y]
      BY <1>2, <2>5 DEF Become, RequestType
    <3>2. req'[r] = y  BY <3>1 DEF ServerInv
    <3>3. handled = 1 /\ handled \in 0 .. 2  BY <1>5, <2>1
    <3>4. "handler" \in Timed /\ "handler" \in ProgramPoints  BY Points DEF Timed, Waiting
    <3> HIDE DEF z, handled
    <3>5. y \in RequestType  BY <2>2, <3>3, <3>4, Zenon DEF RequestType
    <3>6. /\ y.pc = "handler" /\ y.want = x.want /\ y.status = x.status /\ y.error = x.error
          /\ y.trace = x.trace /\ y.span = x.span /\ y.panicked = x.panicked
          /\ y.extensions = x.extensions /\ y.handled = handled
      BY <2>2, <2>3 DEF RequestType
    <3> HIDE DEF y
    <3>7. RequestInv(tenants, y)
      BY <1>1, <1>2, <1>5, <2>1, <3>3, <3>4, <3>5, <3>6, GoesOn
    <3>8. QED  BY <1>2, <3>1, <3>2, <3>7, OneRequest
  <2>6. CASE Become(r, Failed([x EXCEPT !.cookie = TRUE], KindOf("forbidden")))
    <3>1. RequestInv(tenants, z)
      <4> HIDE DEF z
      <4>1. Found(tenants, x) => Found(tenants, z)  BY <2>3 DEF Found
      <4>2. Around(tenants, z) /\ Told(tenants, z)
        BY <1>2, <2>1, <2>3, <4>1 DEF RequestInv, Around, Told
      <4>3. QED  BY <2>2, <4>2 DEF RequestInv
    <3>2. UNCHANGED server /\ req' = [req EXCEPT ![r] = Failed(z, KindOf("forbidden"))]
      BY <2>6 DEF Become
    <3> HIDE DEF z
    <3>3. req'[r] = Failed(z, KindOf("forbidden"))  BY <3>2 DEF ServerInv
    <3>4. RequestInv(tenants, Failed(z, KindOf("forbidden")))
      BY <1>1, <1>4, <2>3, <3>1, CausesHaveKinds, Failures
    <3>5. RequestInv(tenants, req'[r]) /\ req' = [req EXCEPT ![r] = req'[r]]
      BY <3>2, <3>3, <3>4
    <3>6. QED  BY <1>2, <3>2, <3>5, OneRequest
  <2>7. QED  BY <1>5, <1>7, <2>1, <2>4, <2>5, <2>6 DEF NewSession
<1>8. CASE Handler(r)
  <2>1. CASE Answer(r, 200)  BY <1>1, <2>1, AnswerStep
  <2>2. QED  BY <1>3, <1>4, <1>8, <2>1 DEF Handler
<1>9. QED  BY <1>6, <1>7, <1>8

\* What is so of the tenants' table.
LEMMA Tenants ==
  ASSUME tenants \in TenantTables
  PROVE  /\ DOMAIN tenants \subseteq Hosts /\ NoHost \notin DOMAIN tenants
         /\ \A h \in DOMAIN tenants, d \in Designations :
              tenants[h].flows[d] \in Flows \cup {NoFlow}
<1>1. /\ DOMAIN tenants \subseteq Hosts \ {Invalid}
      /\ \A h \in DOMAIN tenants : tenants[h] \in TenantType
  BY ServerAssumption
<1>2. QED  BY <1>1, ServerAssumption DEF TenantType

\* The tenant of a request's host.
LEMMA TenantStep ==
  ASSUME ServerInv, NEW r \in Requests, FindTenant(r)
  PROVE  ServerInv'
<1> DEFINE w == req[r]
           host == w.want.host
<1>1. PICK looked \in {"failed", IF host \in DOMAIN tenants THEN "hit" ELSE "miss"} :
        LET home == HomeOf(host, looked)
            x == [req[r] EXCEPT !.looked = looked, !.tenant = home]
            wanted == x.want.designation
        IN  CASE home = NoHost -> Become(r, Answered(x, 404))
              [] home # NoHost /\ wanted \notin Designations -> Become(r, Answered(x, 400))
              [] OTHER ->
                   LET flow == GetFlow(home, wanted)
                   IN  Become(r, IF flow = NoFlow THEN Answered(x, 404)
                                 ELSE [x EXCEPT !.pc = "flow", !.flow = flow])
  BY DEF FindTenant
<1> DEFINE home == HomeOf(host, looked)
           x == [w EXCEPT !.looked = looked, !.tenant = home]
<1>2. w.pc = "tenant" /\ w.pc \in Timed \ {"handler"} /\ "flow" \in Timed
  BY DEF FindTenant, At, Timed, Waiting
<1>3. ~Starting /\ RequestInv(tenants, w) /\ w \in RequestType  BY <1>2, OnItsWay
<1>4. w.want \in WantType /\ host \in Hosts
  BY <1>3, ServerAssumption DEF RequestType, WantType
<1>5. /\ looked \in {"none", "hit", "miss", "failed"}
      /\ looked = "hit" => host \in DOMAIN tenants
      /\ looked = "miss" => host \notin DOMAIN tenants
  BY <1>1
<1>6. /\ home = IF looked = "hit" THEN host ELSE default
      /\ home # NoHost => home \in DOMAIN tenants
      /\ home \in Hosts \cup {NoHost}
  BY <1>4, <1>5, Tenants DEF HomeOf, ServerInv
<1> HIDE DEF home
<1>7. x \in RequestType  BY <1>3, <1>5, <1>6, Zenon DEF RequestType
<1>8. /\ x.pc = w.pc /\ x.want = w.want /\ x.status = w.status /\ x.error = w.error
      /\ x.trace = w.trace /\ x.span = w.span /\ x.panicked = w.panicked
      /\ x.extensions = w.extensions /\ x.handled = w.handled /\ x.looked = looked
      /\ x.tenant = home /\ x.inner = w.inner
  BY <1>3 DEF RequestType
<1>9. w.status = 0 /\ w.handled = 0  BY <1>2, <1>3 DEF RequestInv, Around
<1> DEFINE flow == GetFlow(home, w.want.designation)
           y == [x EXCEPT !.pc = "flow", !.flow = flow]
<1> HIDE DEF x, w, host
<1>10. RequestInv(tenants, x)
  <2>1. Around(tenants, x)  BY <1>2, <1>3, <1>8 DEF RequestInv, Around
  <2>2. Told(tenants, x)  BY <1>3, <1>8, <1>9 DEF RequestInv, Told
  <2>3. QED  BY <1>7, <2>1, <2>2 DEF RequestInv
<1>11. ASSUME NEW status \in {400, 404}, Become(r, Answered(x, status))
       PROVE  ServerInv'
  <2>1. RequestInv(tenants, Answered(x, status))  BY <1>2, <1>8, <1>10, Answers
  <2>2. UNCHANGED server /\ req' = [req EXCEPT ![r] = Answered(x, status)]
    BY <1>11 DEF Become
  <2>3. req'[r] = Answered(x, status)  BY <2>2 DEF ServerInv
  <2>4. RequestInv(tenants, req'[r]) /\ req' = [req EXCEPT ![r] = req'[r]]
    BY <2>1, <2>2, <2>3
  <2>5. QED  BY <1>3, <2>2, <2>4, OneRequest
<1>12. ASSUME home # NoHost, w.want.designation \in Designations, flow # NoFlow, Become(r, y)
       PROVE  ServerInv'
  <2>1. /\ home \in DOMAIN tenants /\ flow \in Flows
        /\ flow \in {tenants[home].flows[d] : d \in Designations} \ {NoFlow}
    <3> DEFINE e == IF w.want.designation = "recovery" THEN "enrollment"
                    ELSE w.want.designation
    <3>1. e \in Designations /\ flow = tenants[home].flows[e]
      BY <1>12, ServerAssumption DEF GetFlow
    <3>2. home \in DOMAIN tenants  BY <1>6, <1>12
    <3>3. flow \in Flows \cup {NoFlow}  BY <3>1, <3>2, Tenants DEF ServerInv
    <3>4. QED  BY <1>12, <3>1, <3>2, <3>3
  <2> HIDE DEF flow
  <2>2. "flow" \in ProgramPoints  BY <1>2, Points
  <2>3. y \in RequestType  BY <1>7, <2>1, <2>2, Zenon DEF RequestType
  <2>4. /\ y.pc = "flow" /\ y.want = x.want /\ y.status = x.status /\ y.error = x.error
        /\ y.trace = x.trace /\ y.span = x.span /\ y.panicked = x.panicked
        /\ y.extensions = x.extensions /\ y.handled = x.handled /\ y.looked = x.looked
        /\ y.tenant = x.tenant /\ y.flow = flow
    BY <1>7 DEF RequestType
  <2> HIDE DEF y
  <2>5. Found(tenants, y)
    <3>1. CASE looked = "hit"
      BY <1>6, <1>8, <2>1, <2>4, <3>1 DEF Found, host
    <3>2. CASE looked # "hit"
      <4>1. Defaults(tenants) = {home}  BY <1>6, <1>12, <3>2 DEF ServerInv
      <4>2. host \notin DOMAIN tenants \/ looked = "failed"  BY <1>1, <3>2
      <4>3. QED  BY <1>8, <2>1, <2>4, <4>1, <4>2 DEF Found, host
    <3>3. QED  BY <3>1, <3>2
  <2>6. RequestInv(tenants, y)
    <3>1. x.pc \in Timed \ {"handler"} /\ y.pc \in Timed  BY <1>2, <1>8, <2>4
    <3>2. QED  BY <1>8, <1>9, <1>10, <2>3, <2>4, <2>5, <3>1, GoesOn
  <2>7. UNCHANGED server /\ req' = [req EXCEPT ![r] = y]  BY <1>12 DEF Become
  <2>8. req'[r] = y  BY <2>7 DEF ServerInv
  <2>9. QED  BY <1>3, <2>6, <2>7, <2>8, OneRequest
<1>13. CASE home = NoHost
  <2>1. Become(r, Answered(x, 404))  BY <1>1, <1>13 DEF x, w, host, home
  <2>2. QED  BY <1>11, <2>1
<1>14. CASE home # NoHost /\ w.want.designation \notin Designations
  <2>1. Become(r, Answered(x, 400))  BY <1>1, <1>8, <1>14 DEF x, w, host, home
  <2>2. QED  BY <1>11, <2>1
<1>15. CASE home # NoHost /\ w.want.designation \in Designations
  <2>1. Become(r, IF flow = NoFlow THEN Answered(x, 404) ELSE y)
    BY <1>1, <1>8, <1>15 DEF x, w, host, home
  <2>2. QED  BY <1>11, <1>12, <1>15, <2>1
<1>16. QED  BY <1>13, <1>14, <1>15

\* The interface's answers.
LEMMA InterfaceStep ==
  ASSUME ServerInv, NEW r \in Requests, Redirect(r) \/ ServeFile(r)
  PROVE  ServerInv'
<1>1. CASE Redirect(r)
  <2>1. req[r].pc = "flow" /\ req[r].pc \in Timed  BY <1>1 DEF Redirect, At, Timed, Waiting
  <2>2. Found(tenants, req[r])  BY <2>1 DEF ServerInv, RequestInv, Around
  <2>3. QED  BY <1>1, <2>1, <2>2, AnswerStep DEF Redirect
<1>2. CASE ServeFile(r)
  <2>1. req[r].pc \in Timed  BY <1>2 DEF ServeFile, At, Timed, Waiting
  <2>2. QED  BY <1>2, <2>1, AnswerStep DEF ServeFile
<1>3. QED  BY <1>1, <1>2

-----------------------------------------------------------------------------

LEMMA ServerStarts == Init => ServerInv
<1> SUFFICES ASSUME Init  PROVE ServerInv
  OBVIOUS
<1>1. /\ phase = "setup" /\ preloaded = 0 /\ tenants \in TenantTables /\ default = NoHost
      /\ req \in [Requests -> {Blank(want, "unsent") : want \in Wanted}]
  BY DEF Init
<1>2. ASSUME NEW r \in Requests
      PROVE  req[r].pc = "unsent" /\ RequestInv(tenants, req[r])
  <2>1. PICK want \in Wanted : req[r] = Blank(want, "unsent")  BY <1>1
  <2>2. RequestInv(tenants, Blank(want, "unsent"))  BY BlankRequests
  <2>3. Blank(want, "unsent").pc = "unsent"  BY DEF Blank
  <2>4. QED  BY <2>1, <2>2, <2>3
<1>3. req \in [Requests -> RequestType]  BY <1>1, <1>2 DEF RequestInv
<1>4. QED  BY <1>1, <1>2, <1>3 DEF ServerInv, Starting, Phases, Caches

\* The steps of the process.
LEMMA ProcessStep ==
  ASSUME ServerInv, Process
  PROVE  ServerInv'
<1>1. UNCHANGED <<tenants, req>>
  BY DEF Process, Setup, Preload, FindDefault, StartFails, Interrupt, Stop
<1>2. \A r \in Requests : RequestInv(tenants', req'[r])  BY <1>1 DEF ServerInv
<1>3. ASSUME UNCHANGED <<preloaded, default>>, phase' \in Phases \ {"setup", "preload"},
             phase' = "defaults" => Starting
      PROVE  ServerInv'
  BY <1>1, <1>2, <1>3 DEF ServerInv, Starting
<1>4. CASE Setup
  <2>1. /\ phase = "setup" /\ phase' = "preload" /\ UNCHANGED <<preloaded, default>>
    BY <1>4 DEF Setup, Move
  <2>2. QED  BY <1>1, <1>2, <2>1 DEF ServerInv, Starting, Phases
<1>5. CASE Preload
  <2>1. /\ phase = "preload" /\ preloaded' = preloaded + 1 /\ UNCHANGED default
        /\ phase' = IF preloaded' = 5 THEN "defaults" ELSE phase
    BY <1>5 DEF Preload, Caches
  <2>2. preloaded \in 0 .. 4  BY <2>1 DEF ServerInv, Caches
  <2>3. /\ preloaded' \in 0 .. 5 /\ phase' \in {"preload", "defaults"}
        /\ phase' = "preload" => preloaded' < 5
    BY <2>1, <2>2
  <2>4. QED  BY <1>1, <1>2, <2>1, <2>3 DEF ServerInv, Starting, Phases, Caches
<1>6. CASE FindDefault
  <2>1. phase' = "serving" /\ UNCHANGED <<preloaded, tenants>>  BY <1>6 DEF FindDefault, Move
  <2>2. default' # NoHost => default' \in DOMAIN tenants /\ Defaults(tenants) = {default'}
    <3>1. CASE UNCHANGED default  BY <3>1 DEF ServerInv
    <3>2. ASSUME NEW h \in DefaultHosts, DefaultHosts = {h}, default' = h
          PROVE  default' \in DOMAIN tenants /\ Defaults(tenants) = {default'}
      BY <3>2 DEF DefaultHosts, Defaults
    <3>3. QED  BY <1>6, <3>1, <3>2 DEF FindDefault
  <2>3. QED  BY <1>1, <1>2, <2>1, <2>2 DEF ServerInv, Starting, Phases
<1>7. CASE StartFails  BY <1>3, <1>7 DEF StartFails, Phases
<1>8. CASE Interrupt  BY <1>3, <1>8 DEF Interrupt, Phases
<1>9. CASE Stop  BY <1>3, <1>9 DEF Stop, Move, Phases
<1>10. QED  BY <1>4, <1>5, <1>6, <1>7, <1>8, <1>9 DEF Process

LEMMA ServerSteps == ServerInv /\ [Next]_vars => ServerInv'
<1> SUFFICES ASSUME ServerInv, [Next]_vars  PROVE ServerInv'
  OBVIOUS
<1>1. CASE Process  BY <1>1, ProcessStep
<1>2. ASSUME NEW r \in Requests,
             Send(r) \/ Handle(r) \/ Timeout(r) \/ Deliver(r) \/ Disconnect(r)
      PROVE  ServerInv'
  <2>1. CASE Send(r)  BY <2>1, SendStep
  <2>2. CASE Timeout(r) \/ Deliver(r) \/ Disconnect(r)  BY <2>2, RouteStep
  <2>3. CASE Handle(r)
    BY <2>3, LayerStep, RouteStep, ApiLayerStep, HandlerStep, TenantStep, InterfaceStep
    DEF Handle
  <2>4. QED  BY <1>2, <2>1, <2>2, <2>3
<1>3. CASE UNCHANGED vars
  BY <1>3 DEF vars, ServerInv, Starting
<1>4. QED  BY <1>1, <1>2, <1>3 DEF Next

\* The invariant of the server: what each program point of a request says of the
\* layers passed, the answer and the redirect's flow (Around, Told).
THEOREM ServerInvariant == Spec => []ServerInv
<1>1. QED  BY ServerStarts, ServerSteps, PTL DEF Spec

\* Every variable of the server keeps its type, whatever is asked of it.
THEOREM ServerTyping == Spec => []TypeOK
<1>1. ServerInv => TypeOK  BY DEF ServerInv, TypeOK
<1>2. QED  BY <1>1, ServerInvariant, PTL

\* No expect() of the layers fails, no layer is missed and no handler runs twice.
THEOREM LayersAreInOrder == Spec => []LayersFit
<1>1. ServerInv => LayersFit
  <2> SUFFICES ASSUME ServerInv, NEW r \in Requests
               PROVE  /\ ~req[r].panicked
                      /\ req[r].error # "MissingMiddleware"
                      /\ req[r].handled <= 1
                      /\ req[r].handled = 1 /\ req[r].want.target \in {"ping", "session", "admin"}
                           => req[r].want.token \in {"none", "valid"}
    BY DEF LayersFit
  <2>1. Around(tenants, req[r]) /\ Told(tenants, req[r])  BY DEF ServerInv, RequestInv
  <2>2. QED  BY <2>1 DEF Around, Told, Api
<1>2. QED  BY <1>1, ServerInvariant, PTL

\* The telemetry's status and trace agree with the answer.
THEOREM ErrorsAreTold == Spec => []ServerErrorsAreTold
<1>1. ServerInv => ServerErrorsAreTold
  BY DEF ServerInv, RequestInv, Told, ServerErrorsAreTold
<1>2. QED  BY <1>1, ServerInvariant, PTL

\* No redirect leads to another tenant's flow.
THEOREM RedirectsStayWithin == Spec => []RedirectsWithinTenant
<1>1. ServerInv => RedirectsWithinTenant
  <2> SUFFICES ASSUME ServerInv, NEW r \in Requests, req[r].status = 302
               PROVE  \E home \in DOMAIN tenants :
                        /\ req[r].flow \in {tenants[home].flows[d] : d \in Designations} \ {NoFlow}
                        /\ \/ home = req[r].want.host
                           \/ /\ req[r].want.host \notin DOMAIN tenants \/ req[r].looked = "failed"
                              /\ DefaultHosts = {home}
    BY DEF RedirectsWithinTenant
  <2>1. Found(tenants, req[r])  BY DEF ServerInv, RequestInv, Told
  <2>2. req[r].tenant \in DOMAIN tenants  BY <2>1 DEF Found
  <2>3. WITNESS req[r].tenant \in DOMAIN tenants
  <2>4. QED  BY <2>1 DEF Found, Defaults, DefaultHosts
<1>2. QED  BY <1>1, ServerInvariant, PTL

\* So it is under load.
THEOREM LoadedServerTyping == LoadedSpec => []LoadedTypeOK
<1>1. TypeOK /\ ToolTypeOK => LoadedTypeOK  BY DEF LoadedTypeOK
<1>2. QED
  BY <1>1, ServerIsImplemented, ToolIsImplemented, ServerTyping, ToolTyping, PTL

=============================================================================
