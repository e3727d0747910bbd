-------------------------------- MODULE Server --------------------------------
(***************************************************************************)
(* The server as a process (server/src/main.rs) and the way of a request     *)
(* through its layers: the host extraction of ExtensionService with its      *)
(* future of two states (otel_middleware.rs), the trace span, the cookie     *)
(* layer, the timeout of one second, then for the API the CSRF and auth      *)
(* layers and the session extractor (api/v1/mod.rs, api/v1/auth.rs), for the  *)
(* interface the tenant of the host and its flow (interface/flow.rs).        *)
(*                                                                         *)
(* The process preloads its caches, reads the default tenant once, serves,   *)
(* and after an interrupt drains what is in flight.  The database may answer, *)
(* fail, or not answer at all: only the timeout ends a wait for it.          *)
(*                                                                         *)
(* What the handlers of the API do is in FlowExecution, FlowExecutor and      *)
(* PolicyApi; here a handler ends in some status.                            *)
(***************************************************************************)
EXTENDS ApiErrors, FiniteSets, Sequences

CONSTANTS
  Requests,         \* each is sent at most once
  Wanted,           \* what they may ask for
  Hosts,            \* the hosts they may name; Invalid is an unusable Host header
  Designations,     \* of flows
  Flows,
  NoFlow, Invalid, NoHost,
  TenantTables,     \* what the tenants table may hold
  HandlerFailures   \* what may go wrong in a handler of the API

TenantType == [is_default : BOOLEAN, flows : [Designations -> Flows \cup {NoFlow}]]

\* A route, the session cookie and, in the interface's path, the designation.
WantType ==
  [host : Hosts,
   target : {"test", "ping", "session", "admin", "redirect", "page"},
   token : {"none", "valid", "invalid", "algorithm"},
   designation : Designations \cup {"unknown"}]

ASSUME ServerAssumption ==
  /\ Wanted \subseteq WantType
  /\ HandlerFailures \subseteq Causes \ {"forbidden"}
  /\ "enrollment" \in Designations
  /\ NoFlow \notin Flows
  /\ NoHost \notin Hosts
  /\ \A table \in TenantTables :
       DOMAIN table \subseteq Hosts \ {Invalid} /\ \A h \in DOMAIN table : table[h] \in TenantType

VARIABLES
  phase,      \* how far the process is
  preloaded,  \* how many of the five caches are filled
  tenants,    \* the rows of tenants, by host
  default,    \* Defaults.tenant: the default tenant's host, or NoHost
  req         \* the requests

server == <<phase, preloaded, tenants, default>>
vars == <<phase, preloaded, tenants, default, req>>

\* dead: a panic, or an interrupt nobody catches yet.
Phases == {"setup", "preload", "defaults", "serving", "draining", "stopped", "dead"}
Caches == <<"flows", "stages", "policies", "prompts", "tenants">>

-----------------------------------------------------------------------------
(* Requests *)

\* Where a request waits, for the database or a file.
Waiting == {"extract", "new_session", "handler", "tenant", "flow", "file"}
\* Inside the timeout: the layers before a wait run in one poll.
Timed == Waiting \cup {"route", "csrf", "auth"}
ProgramPoints ==
  Timed \cup {"unsent", "extracting", "layers", "answered", "done", "dropped"}

Statuses == {200, 302, 400, 401, 403, 404, 408, 409, 500}

RequestType ==
  [pc : ProgramPoints,
   want : Wanted,
   inner : BOOLEAN,          \* ResponseFuture.inner is Some
   extensions : SUBSET {"host", "cookies", "auth"},
   span : {"none", "open", "OK", "ERROR"},
   status : Statuses \cup {0},
   error : Kinds \cup {NoError},
   trace : BOOLEAN,          \* the error was made with a span trace
   cookie : BOOLEAN,         \* the response has a new session's cookie
   tenant : Hosts \cup {NoHost},
   looked : {"none", "hit", "miss", "failed"},
   flow : Flows \cup {NoFlow},
   handled : 0 .. 2,         \* how often a handler was entered
   panicked : BOOLEAN]

\* A request of which nothing is on the server.
Blank(want, p) ==
  [pc |-> p, want |-> want, inner |-> TRUE, extensions |-> {}, span |-> "none",
   status |-> 0, error |-> NoError, trace |-> FALSE, cookie |-> FALSE,
   tenant |-> NoHost, looked |-> "none", flow |-> NoFlow, handled |-> 0,
   panicked |-> FALSE]

InFlight(r) == req[r].pc \notin {"unsent", "done", "dropped"}
At(r, p) == req[r].pc = p
Become(r, x) == req' = [req EXCEPT ![r] = x] /\ UNCHANGED server

Go(r, p) == Become(r, [req[r] EXCEPT !.pc = p])
Leave(r, p) == Become(r, Blank(req[r].want, p))
Enter(r, p) == Become(r, [req[r] EXCEPT !.pc = p, !.handled = @ + 1])

\* on_response records OK, on_failure then ERROR for a server error.
SpanStatus(status) == IF ServerError(status) THEN "ERROR" ELSE "OK"

\* A response on its way out, through the cookie and the trace layer.
Answered(x, status) ==
  [x EXCEPT !.pc = "answered", !.status = status,
            !.span = IF x.span = "open" THEN SpanStatus(status) ELSE @]
Answer(r, status) == Become(r, Answered(req[r], status))

\* ApiError::from and into_response.
Failed(x, kind) ==
  [Answered(x, Status(kind)) EXCEPT !.error = kind, !.trace = IsInternal(kind)]
Fail(r, kind) == Become(r, Failed(req[r], kind))

\* expect() of what is not there: the connection is closed.
Panic(r) == Become(r, [req[r] EXCEPT !.pc = "dropped", !.panicked = TRUE])

Init ==
  /\ phase = "setup"
  /\ preloaded = 0
  /\ tenants \in TenantTables
  /\ default = NoHost
  /\ req \in [Requests -> {Blank(want, "unsent") : want \in Wanted}]

-----------------------------------------------------------------------------
(* The process *)

Move(from, to) == phase = from /\ phase' = to

\* setup and setup_database, up to the migrations; create_manager.
Setup == Move("setup", "preload") /\ UNCHANGED <<preloaded, tenants, default, req>>

\* find_all of one storage after the other.
Preload ==
  /\ phase = "preload"
  /\ preloaded' = preloaded + 1
  /\ phase' = IF preloaded' = Len(Caches) THEN "defaults" ELSE phase
  /\ UNCHANGED <<tenants, default, req>>

DefaultHosts == {h \in DOMAIN tenants : tenants[h].is_default}

\* Mutant of FindDefault: any tenant is taken for the default one.
FindAnyDefault ==
  /\ Move("defaults", "serving")
  /\ \E h \in DOMAIN tenants : default' = h
  /\ UNCHANGED <<preloaded, tenants, req>>

\* Defaults::new, and the server listens.  A second default tenant is an error
\* of query_opt, as a failing query is: both panic.
FindDefault ==
  /\ Move("defaults", "serving")
  /\ \/ \E h \in DefaultHosts : DefaultHosts = {h} /\ default' = h
     \/ DefaultHosts = {} /\ UNCHANGED default
  /\ UNCHANGED <<preloaded, tenants, req>>

\* expect() at any step before the server listens.
StartFails ==
  /\ phase \in {"setup", "preload", "defaults"}
  /\ phase' = "dead"
  /\ UNCHANGED <<preloaded, tenants, default, req>>

\* ctrl_c is first polled by the server: an earlier interrupt kills the process.
Interrupt ==
  /\ phase \in {"setup", "preload", "defaults", "serving"}
  /\ phase' = IF phase = "serving" THEN "draining" ELSE "dead"
  /\ UNCHANGED <<preloaded, tenants, default, req>>

\* Mutant of Stop: connections on which nothing was sent are waited for.
StopAfterAll ==
  /\ \A r \in Requests : req[r].pc \in {"done", "dropped"}
  /\ Move("draining", "stopped")
  /\ UNCHANGED <<preloaded, tenants, default, req>>

\* The graceful shutdown is complete; the tracer provider is shut down.
Stop ==
  /\ \A r \in Requests : ~InFlight(r)
  /\ Move("draining", "stopped")
  /\ UNCHANGED <<preloaded, tenants, default, req>>

-----------------------------------------------------------------------------
(* The layers of every route *)

Send(r) == At(r, "unsent") /\ phase = "serving" /\ Go(r, "extracting")

\* ResponseFuture in State::Extracting: the host, or the rejection.
ExtractHost(r) ==
  /\ At(r, "extracting")
  /\ IF req[r].want.host = Invalid THEN Answer(r, 400)
     ELSE Become(r, [req[r] EXCEPT !.pc = "layers",
                                   !.extensions = @ \cup {"host"}])

\* The inner service is taken and called: the span, the cookies, the timeout.
CallInner(r) ==
  /\ At(r, "layers")
  /\ IF ~req[r].inner THEN Panic(r)
     ELSE Become(r, [req[r] EXCEPT !.inner = FALSE, !.span = "open", !.pc = "route",
                                   !.extensions = @ \cup {"cookies"}])

\* Mutant of Route: the routes of the API lack the auth layer.
RouteWithoutAuth(r) ==
  /\ At(r, "route")
  /\ CASE req[r].want.target = "test" -> Enter(r, "handler")
       [] req[r].want.target \in {"ping", "session", "admin"} -> Go(r, "extract")
       [] req[r].want.target = "redirect" -> Go(r, "tenant")
       [] req[r].want.target = "page" -> Go(r, "file")

Route(r) ==
  /\ At(r, "route")
  /\ CASE req[r].want.target = "test" -> Enter(r, "handler")
       [] req[r].want.target \in {"ping", "session", "admin"} -> Go(r, "csrf")
       [] req[r].want.target = "redirect" -> Go(r, "tenant")
       [] req[r].want.target = "page" -> Go(r, "file")

\* Mutant of Timeout: the timeout layer is around the interface only.
TimeoutOfInterface(r) == req[r].pc \in {"tenant", "flow", "file"} /\ Answer(r, 408)

\* Elapsed, whatever the request waits for: the response passes through the
\* cookie layer and the trace layer as any other.
Timeout(r) == req[r].pc \in Waiting /\ Answer(r, 408)

\* The client has taken the response, which is not under the timeout.
Deliver(r) == At(r, "answered") /\ Leave(r, "done")

\* The connection is closed, and the request's future with it.
Disconnect(r) == InFlight(r) /\ Leave(r, "dropped")

-----------------------------------------------------------------------------
(* The API *)

\* CsrfEndpoint: declined, or the inner service is called; see Csrf.
CheckCsrf(r) ==
  /\ At(r, "csrf")
  /\ IF "cookies" \notin req[r].extensions THEN Panic(r)
     ELSE Go(r, "auth") \/ Answer(r, 403) \/ Answer(r, 400)

\* AuthService and handle_auth.
Authenticate(r) ==
  /\ At(r, "auth")
  /\ CASE "cookies" \notin req[r].extensions -> Panic(r)
       [] req[r].want.token = "invalid" -> Fail(r, KindOf("token"))
       [] req[r].want.token = "algorithm" -> Fail(r, KindOf("token_algorithm"))
       [] OTHER ->
            Become(r, [req[r] EXCEPT
              !.extensions = @ \cup {"auth"},
              !.pc = IF req[r].want.target = "ping" THEN "handler" ELSE "extract",
              !.handled = IF req[r].want.target = "ping" THEN @ + 1 ELSE @])

\* Session::from_request_parts, and AdminSession's for the policies: a session
\* with a row is an administrator's or not.
ExtractSession(r) ==
  /\ At(r, "extract")
  /\ \/ \E cause \in {"pool", "database"} : Fail(r, KindOf(cause))
     \/ CASE "auth" \notin req[r].extensions -> Fail(r, "MissingMiddleware")
          [] req[r].want.token = "none" -> Go(r, "new_session")
          [] OTHER ->
               \/ Go(r, "new_session")
               \/ Enter(r, "handler")
               \/ req[r].want.target = "admin" /\ Fail(r, KindOf("forbidden"))

\* make_new_session inserts the row and signs the claims, and either may fail; such a
\* session is nobody's.
NewSession(r) ==
  /\ At(r, "new_session")
  /\ \/ Fail(r, KindOf("database"))
     \/ IF "cookies" \notin req[r].extensions THEN Panic(r)
        ELSE
           \/ \E cause \in {"token", "token_algorithm"} : Fail(r, KindOf(cause))
           \/ /\ req[r].want.target = "session"
              /\ Become(r, [req[r] EXCEPT !.cookie = TRUE, !.pc = "handler", !.handled = @ + 1])
           \/ /\ req[r].want.target = "admin"
              /\ Become(r, Failed([req[r] EXCEPT !.cookie = TRUE], KindOf("forbidden")))

\* Any of the handlers.
Handler(r) ==
  /\ At(r, "handler")
  /\ \/ Answer(r, 200)
     \/ /\ req[r].want.target \in {"session", "admin"}
        /\ \E cause \in HandlerFailures : Fail(r, KindOf(cause))

-----------------------------------------------------------------------------
(* The interface *)

\* A lookup that fails is logged and counts as none.
HomeOf(host, looked) == IF looked = "hit" THEN host ELSE default

\* Tenant::get_flow: the recovery flow is the enrollment flow (tenant.rs:39).
GetFlow(host, designation) ==
  tenants[host].flows[IF designation = "recovery" THEN "enrollment" ELSE designation]

\* Data<Tenant>::from_request_parts, the path's designation, the tenant's flow.
FindTenant(r) ==
  LET host == req[r].want.host
  IN  /\ At(r, "tenant")
      /\ \E looked \in {"failed", IF host \in DOMAIN tenants THEN "hit" ELSE "miss"} :
           LET home == HomeOf(host, looked)
               x == [req[r] EXCEPT !.looked = looked, !.tenant = home]
               wanted == x.want.designation
           IN  CASE home = NoHost -> Become(r, Answered(x, 404))
                 [] home # NoHost /\ wanted \notin Designations -> Become(r, Answered(x, 400))
                 [] OTHER ->
                      LET flow == GetFlow(home, wanted)
                      IN  Become(r, IF flow = NoFlow THEN Answered(x, 404)
                                    ELSE [x EXCEPT !.pc = "flow", !.flow = flow])

\* The flow's row, for its slug; a failing lookup is none.
Redirect(r) ==
  /\ At(r, "flow")
  /\ Answer(r, 302) \/ Answer(r, 404)

\* ServeDir and ServeFile; a file that cannot be read is their own server error.
ServeFile(r) == At(r, "file") /\ \E status \in {200, 404, 500} : Answer(r, status)

-----------------------------------------------------------------------------
(* Specification *)

Process ==
  Setup \/ Preload \/ FindDefault \/ StartFails \/ Interrupt \/ Stop

Handle(r) ==
  \/ ExtractHost(r) \/ CallInner(r) \/ Route(r) \/ CheckCsrf(r) \/ Authenticate(r)
  \/ ExtractSession(r) \/ NewSession(r) \/ Handler(r)
  \/ FindTenant(r) \/ Redirect(r) \/ ServeFile(r)

Next ==
  \/ Process
  \/ \E r \in Requests : Send(r) \/ Handle(r) \/ Timeout(r) \/ Deliver(r) \/ Disconnect(r)

Spec == Init /\ [][Next]_vars

\* What goes on whatever the database does: the layers up to the first wait, the
\* timer, clients that take their responses or go away, and the shutdown.
Proceed(r) ==
  \/ ExtractHost(r) \/ CallInner(r) \/ Route(r) \/ CheckCsrf(r) \/ Authenticate(r)
  \/ Timeout(r) \/ Deliver(r)

Progress ==
  /\ \A r \in Requests : WF_vars(Proceed(r))
  /\ WF_vars(Stop)

FairSpec == Spec /\ Progress

-----------------------------------------------------------------------------
(* Properties *)

TypeOK ==
  /\ phase \in Phases
  /\ preloaded \in 0 .. Len(Caches)
  /\ tenants \in TenantTables
  /\ default \in DOMAIN tenants \cup {NoHost}
  /\ req \in [Requests -> RequestType]

\* No expect() of the layers fails and no extractor misses a layer: what each
\* needs of those around it (the cookies, the auth extension, the inner service
\* that is still there) holds on every route, and no handler runs twice or behind
\* a layer that has refused the request.
LayersFit ==
  \A r \in Requests :
    /\ ~req[r].panicked
    /\ req[r].error # "MissingMiddleware"
    /\ req[r].handled <= 1
    /\ req[r].handled = 1 /\ req[r].want.target \in {"ping", "session", "admin"}
         => req[r].want.token \in {"none", "valid"}

\* The telemetry tells a server error from other answers: an answer of 500 has a
\* span with status ERROR and, when it stands for an error of the API, that error
\* was made with its trace; the tables of is_internal and into_response agree
\* (api/mod.rs:117-183), and on_failure comes after on_response.
ServerErrorsAreTold ==
  \A r \in Requests : req[r].status # 0 =>
    /\ req[r].span = "ERROR" <=> ServerError(req[r].status)
    /\ req[r].error # NoError => (req[r].trace <=> ServerError(req[r].status))

\* A redirect leads to a flow of the tenant of the request's host; only for a host
\* without a tenant, or when the lookup failed, to one of the one default tenant.
RedirectsWithinTenant ==
  \A r \in Requests : req[r].status = 302 =>
    \E home \in DOMAIN tenants :
      /\ req[r].flow \in {tenants[home].flows[d] : d \in Designations} \ {NoFlow}
      /\ \/ home = req[r].want.host
         \/ /\ req[r].want.host \notin DOMAIN tenants \/ req[r].looked = "failed"
            /\ DefaultHosts = {home}

\* A tenant's redirect for a designation leads to the flow that the tenant's column
\* of that name holds (model/src/tenant.rs:23-29).
RedirectsAsDesignated ==
  \A r \in Requests :
    req[r].status = 302 => req[r].flow = tenants[req[r].tenant].flows[req[r].want.designation]

\* A request is answered or its client is gone, although the database need not
\* answer and handlers need not end.
RequestsAnswered ==
  \A r \in Requests : At(r, "extracting") ~> req[r].pc \in {"done", "dropped"}

\* Once interrupted, the server comes to its end, whatever is in flight.
ShutdownEnds == phase = "draining" ~> phase = "stopped"

=============================================================================
