# Verification of Authust

TLA+ models of the authentication server in this repository, the TLC runs that
check them on small instances, and TLAPS proofs of what matters most for
instances of every size. Paths below are relative to the repository's root;
`flow.rs` is `server/src/executor/flow.rs` and `executor.rs` without a directory
is `server/src/executor.rs`.

## 1. The system

A browser walks a *flow*: a list of entries, each of which shows a stage
(identification, password, ...) and may be guarded by bindings. The server keeps
a *flow execution* per session and flow in memory, and moves it on with every
accepted form. When it meets a `UserLogin` stage, it binds the session to the
user whose password was verified. Administrators create the policies that
bindings refer to.

| Component | State | Operations |
|---|---|---|
| Flow execution (`executor/flow.rs`, `executor/context.rs`, `api/v1/executor.rs`) | current entry (mutex), completed (atomic), pending user and error (read-write lock), per execution | `get_flow`, `post_flow`: `check`, `handle_submission`, `complete_current`, `complete`, `data` |
| Access checks (`executor/flow.rs`, `model/`) | none | `FlowCheck`, `check_binding`, `check_policy` |
| Flow executor (`executor.rs`) | cache of executions by session and flow, with idle and live times | `get_execution`, `start`, `invalidate_flow` |
| Storage and snapshots (`storage/`) | live cache of rows; per execution a frozen copy | `lookup`, `reverse_lookup`, `create_proxied`, `create_freezed` |
| Sessions (`api/v1/auth.rs`, `auth.rs`) | `sessions` rows; claims in a cookie | the `Session` and `AdminSession` extractors, `make_new_session`, `set_session_cookie` |
| CSRF layer (`api/csrf.rs`) | none; the secret is in a cookie | `check_csrf`, masking and unmasking of tokens |
| Policy API and service (`api/v1/policy.rs`, `service/policy/service.rs`) | policy rows; cached rows; cached syntax trees | `list`, `create_expression`, `create_expiration`, `get_ast`, `invalidate` |
| User service (`service/user.rs`) | none | `lookup_user_uid`, `lookup_user` |
| Server (`main.rs`, `api/mod.rs`, `api/v1/mod.rs`) | how far the process is; the default tenant; 16 connections | `setup_database`, `preload`, `start_server`, the timeout, `ApiError` |
| Policy engine (`policy-engine/`) | none | compilation and evaluation of Rhai expressions |
| Tenants and interface (`interface.rs`, `interface/flow.rs`, `model/src/tenant.rs`) | none | `tenant_flow_redirect`, `Tenant::get_flow` |
| Telemetry (`otel_middleware.rs`) | a future with two states; the span of a request | `ResponseFuture::poll`, `on_response`, `on_failure` |
| Frontend (`frontend/src`) | what is shown; cookies | `FlowView`, `execute_flow`, `execute_flow_post` |
| Load test tool (`tools/`) | a counter of requests in flight | `load_test`, `make_request` |

How they meet: a request passes through `ExtensionLayer`, the trace layer, the
cookie layer and the timeout, for the API then the CSRF and auth layers. Every
handler of a flow runs the session extractor, then takes the
execution from the executor, then a connection from the pool and (for a POST) a
transaction. The execution reads stages and policies from its frozen storage,
but syntax trees from the live policy service, which reads through the live
storage and so takes a second connection while the handler has the first. The
`tower` timeout drops a handler at any `.await`; what the handler did to memory
stays, its transaction is rolled back.

What is hard here, and what has to be right:

* **Overlap.** GETs and POSTs of one session run at the same time on one
  execution, with awaits between reading the pending user, verifying a password
  and marking whoever is then pending. Right: only a verified user is bound, no
  entry is skipped, a decision to let somebody in still holds when it is used.
* **Two places that must agree.** The execution advances in memory; the login is
  written by a transaction and by a cookie. Right: a completed flow has logged
  its user in, row and cookie name the same user, unless a failure is visible.
* **Caches with lives of their own.** Executions idle out, are replaced or
  removed by key. Right: a form reaches the execution that showed it, and a
  browser that goes on gets through.
* **Copies of rows that are being edited.** Right: the frozen storage never
  panics for want of a row.
* **Several statements, several connections.** Right: no half-written policy is
  visible, answers are true, creations do not wait for one another for ever.
* **Wrapping arithmetic.** Right: unmasking undoes masking.
* **A session in two halves.** The user is in the row, `is_admin` in the signed
  cookie. Right: nobody administers in a session in which no login was about an
  administrator, and a browser whose row is gone gets a new session.
* **Layers that rely on each other**, and three places that tell a server error
  from others. Right: no `expect` fails, the three agree.
* **Ends.** Right: requests end whatever the database does, the interrupted server
  stops, the load test tool keeps its bound and comes to its end.

`PROJECT.json` lists every hazard at its line with the property that would catch it.

## 2. Modules

| Module | Models | Theorems |
|---|---|---|
| `FlowCheck` | the access decision as operators, and what a flow is | |
| `FlowWalk` | abstract specification: what an execution promises a session | in `FlowWalkProofs` |
| `FlowExecution` | the handlers on one execution, step by step | `FlowExecutionProofs`, `FlowWalkProofs` |
| `FlowExecutor` | the cache of executions, sessions and the browser | `FlowExecutorProofs` |
| `Sessions` | rows, claims and cookies; the two session extractors; logins | `SessionsProofs` |
| `Snapshot` | the start of an execution: reverse lookups and the frozen storage | `SnapshotProofs` |
| `Csrf` | token arithmetic and the CSRF check | `CsrfProofs` |
| `PolicyTable` | abstract specification: what the policy API promises those who create policies | in `PolicyApiProofs` |
| `PolicyApi` | creating, listing and evaluating policies over a bounded pool | `PolicyApiProofs` |
| `ApiErrors` | errors of the API: what becomes of a failure, its trace, its status | |
| `Server` | the process and a request's way through its layers; tenants and redirects | in `LoadedServerProofs` |
| `LoadTest` | the load test tool alone | in `LoadedServerProofs` |
| `LoadedServer` | server and tool together; it implements both | `LoadedServerProofs` |

The modules `MC...` hold the values TLC uses. `FlowExecution` extends
`FlowCheck`, and instantiates `FlowWalk` with the refinement mapping at its end;
`PolicyApi` does the same with `PolicyTable`.
`FlowExecutor` abstracts from an execution all but its entry, which is what
`FlowExecution` and `FlowExecutor` share; it lets a submission advance the entry
by any number, as `complete()` does. `Sessions` abstracts from the flow and looks
at what a login leaves behind. `LoadedServer` extends `Server` and `LoadTest`: the
tool's requests are some of the server's, and each step is a step of one of the two
or of both. The details of a handler are in the modules above; in `Server` it ends
in some status.

### FlowExecution

`flow`, `idx`, `is_completed` are `FlowExecutionInternal`'s, `pending` and
`error` its `ExecutionContext`'s; `user_id` is the committed column of the
session's row, `cookie` the claims in the browser. A request is a record with a
program point; a step ends where the code touches shared state or awaits the
database. One action per step:

* `ExtractSession` (auth.rs), `GetExecution`, `GetUser`, `GetCheckContext`;
* `Check`, `CheckEntry`, `CheckEntryBindings`: `FlowExecution::check`, which
  reads the current entry anew for the entry's bindings;
* `HandleSubmission`, `GetEntry`, `HandleStage`, `LookupUser`, `Identify`,
  `LookupPasswordStage`, `ReadPending`, `VerifyPassword`, `Authenticate`: the
  submission, which clones the pending user before the query and marks the one
  pending after it;
* `Advance`, `Loop`, `LoopEntry`, `LoopStage`, `UserLogin`, `SetError`,
  `UpdateSession`, `Commit`: `complete_current`, and `complete()` with its
  iteration limit, its `todo!()`s and its row lock;
* `DataEntry` ... `DataPending`: the page, read in several steps;
* `ReadContext` takes the context's read guard, which lives as long as the
  statement; `ContextLocked` is the panic in `use_mut_context`;
* `Respond`, `Abort` (a failed or abandoned await, or a lost response), `Settle`
  (a COMMIT whose answer nobody waits for), `Expire`.

`Awaiting` says where a request may be given up: at its queries, and in `check` where
an expression policy's syntax tree is fetched. `get_execution` is no such point: it
awaits only when it starts an execution, and a GET that does so is about another
execution than this one. A `todo!()`, an embedded stage that is not a password stage
(`unreachable!`, `api/v1/executor.rs:202`) and a context that is locked are panics: the
request is `Dropped`.

Passwords and names are not kept: a lookup or a verification chooses its
outcome. `verified`, `passed`, `overlap` and `faulted` are history: whose
password was right, which entries a submission has completed, whether two
submissions were ever under way together, whether a submission was lost after
`complete_current` or the response of a login was. `context.rs`'s `FieldStorage` is used nowhere and left out.
Moka's and PostgreSQL's own workings are external.

### FlowExecutor

`executions` is the cache (one flow, so the key is the session), `owner` and `at`
an execution's session and entry, `rows` the sessions table, `jar` and `shown`
the browser's cookie and page. `Extract` finds or makes the session, `Find` and
`Start` are two steps of `get_execution` (two GETs may both start), `View` is
`data()` with `invalidate_flow` by key, `Submit` an accepted form, `Fail` any
error, `Expire` the cache's times, `Restart` the loss of memory, `Lose` a lost
request or answer. `View` is one step here, an abstraction: the reads that `data()`
makes one by one, around its awaits, are `FlowExecution`'s. `Receive` follows the 303 to the same URI and applies answers
in the order they come, as `FlowView.vue` does.

### Snapshot

`flow_row` and `stage_rows` are the live rows, edited at any time; `copies` and
`others` what the proxy has kept. `Lookup` is one lookup through the proxy;
`todo` is the recursion of `reverse_lookup` as a list of what is left. `Freeze`
is `create_freezed`. Rows are only what they refer to: any stage may be embedded in
any identification stage, itself included, as the schema has it.

### Csrf

A character is its position in `ALPHANUMERIC_CHARS`; `OverflowingSub` is
`usize::overflowing_sub` with `Word` values. `Check` is `check_csrf`, `Answer`
the arrival of the response with the cookie it may carry. `Refused` are the 400s for a
host or an origin that is missing or not a string (`legible`) and the 403 for another
origin, which come before the cookie is looked at. The frontend sends no token so far; `Echoes` is what a client may send, as the tests of `csrf.rs` do; a header that is not
alphanumeric, on which `mask_op` panics, is never an echo and is left out.

### PolicyApi

`policies` are the committed rows, `serial` the uid sequence, `cached` what the live
storage has read. A request holds a connection at the points in `Holding` and has
written at those in `Writing`; `Extract` takes the session extractor's connection and
`Authorize` returns it, before the handler takes its own (`Connect`). A creation is its three statements and its COMMIT
(`InsertPolicy`, `InsertDetail`, `LinkDetail`, `Commit`), the body of an expression
is read in chunks while a connection is held (`ReadChunk`), an insert waits for a
transaction that has written its slug (`Contended`, external), a list or an
evaluation looks policies up one by one over another connection (`Lookup`) and skips
the ones that fail (`SkipLookup`). `Fail`, `Timeout` and `Restart` may come
anywhere. A COMMIT whose answer nobody waits for any more leaves its row in
`unsettled`: the database carries it out later or never (`Settle`, external), and
until then its slug is held. The cache of syntax trees is left out: nothing in the
repository edits a policy or calls `invalidate`, so a tree cannot go stale.

`PolicyTable` knows no statements, no transactions and no pool: a creation is asked
for, adds a whole policy under a slug and a uid of its own in one step, or adds
nothing, and is told so. One that is told nothing of ("failed", "timeout", or a
restart) may leave a policy that still comes. In the mapping `table` is `policies`,
`late` is `unsettled`, `asked` is the slug a creation was sent with and `told` its
answer; lists and evaluations are stutters.

### Sessions

`rows` is the table, `jar` the browser's cookie: a session's number, `is_admin`
and the secret it is signed with. `Authenticate` is `handle_auth`, `Extract` and
`Create` the `Session` extractor, `Permitted` the condition of `AdminSession`,
`SetClaims` and `Commit` the two halves of a login, whose claims reach the jar
before the row is written. Any user may log in: whether a password was verified is
`FlowExecution`'s. A COMMIT that nobody waits for is in `late` until the database ends
it (`Settle`), and keeps the row's lock until then (`Locked`). `Fail`, `Lose`, `Delete` and `Restart` are the faults:
a query or the timeout (the response still carries the jar), a lost answer, a
deleted row, a new start with the same or another secret. `admined`, the sessions in
which `complete()` has met an administrator, and `disturbed` are history.

### ApiErrors, Server

`phase` is how far `main` is, `tenants` the table, `default` what
`Defaults::find_default` has read. A request carries its extensions, whether
`ResponseFuture` still has the inner service, its span's status and what it is
answered with. `ExtractHost` and `CallInner` are the two states of
`ResponseFuture::poll`; `Route`, `CheckCsrf` and `Authenticate` are synchronous and
run in one poll; where a request waits (`Waiting`) the timeout may elapse. `Failed`
is `ApiError::from` followed by `into_response`, over the two tables of `ApiErrors`.
`NewSession` can fail at its query, at its claims or, without the cookie layer, at an
`expect`. `FindTenant` and `Redirect` are the extractor of the tenant and
`tenant_flow_redirect`; a lookup that fails counts as none, as in the code.
`Interrupt` kills a process that is still starting, for `ctrl_c()` is first polled
by the server. Which kinds of error the library functions report is external;
`HandlerFailures` are those TLC tries in a handler.

### LoadTest, LoadedServer

`current` is the `AtomicU32`, modulo `Word`; `Load`, `Add`, `Spawn` are the loop,
`Finish` a task's end, `Return` and `Exit` the end of `load_test` and of `main`,
which drops the tasks. In `LoadedServer`, `Request` sends a task's request and
`Receive` ends the task when the server has answered, has dropped the request or
refuses connections.

## 3. Runs

| Run | Instance | Question |
|---|---|---|
| `pages` | seventeen flows of every stage kind, with requirements and bindings; three requests, two at a time, at most one of them a POST; failing awaits and lost responses anywhere | `WalksTheFlow`: is an execution a walk of `FlowWalk`; `LoginVerified`, `NoEntrySkipped`; `LoginCompletes`, `CookieMatchesRow`: do memory, row and cookie agree when all is quiet; `AccessStillHolds`, `PageChecked`: is a decision still true where it is used |
| `ends` | two requests of any method that may overlap, fair handlers | `RequestsEnd`; `LoginNeedsVerification` under overlap |
| `locked` | a GET beside a POST, no fault | expected violation of `ContextNeverLocked`, see section 6 |
| `snapshot` | four stages, of which an identification may embed itself, a second one or a password stage, and the second one the first; three flows; edits at any time | `Closed`: is everything needed frozen; `StartEnds`, once the rows are left alone and no stage embeds itself |
| `csrf` | alphabet of 3, word of 4 values, two requests | `EchoAccepted`, `HeldTokenAccepted` |
| `executor` | two requests, two sessions, two executions, two setbacks | `OwnExecution`, `NeverRevived` |
| `finish` | one request at a time, three setbacks, every query with `next` | `SubmittedToItsExecution`, `SessionSticks`, `Finishes` |
| `policies` | three requests, two connections, one slug, two uids | `NoHalfPolicy`, `AnswersHold`, `ListFaithful` |
| `creations` | two requests, two connections, two slugs, two uids | `CreationsEnd`: without any timeout; `CreatedAtOnce`: do creations implement `PolicyTable` |
| `sessions` | two requests, two users, four sessions, one fault; deadlock checked | `AdminNeedsAdminLogin`, `AdminIsAdministrator`, `SessionObtained` |
| `server` | two requests of the tool and a browser's, four tables of tenants, thirteen kinds of request | `LayersFit`, `ServerErrorsAreTold`, `RedirectsWithinTenant`, `Bounded`; `RequestsAnswered`, `ShutdownEnds`, `ToolEnds` |
| `recovery` | one browser, one tenant with both flows | expected violation of `RedirectsAsDesignated`, see section 6 |

Why these bounds are enough to show the cases:

* Two users, so that one can replace the other; flows of up to four entries,
  with two logins, a second identification, two server side stages in a row, and
  stages the code answers with `todo!()` or `unreachable!()`. A flow logs in with one or two POSTs; the
  other requests come before, between or after them. `IterationLimit` stands for 40:
  it is 0 in `pages`, so that `complete()` gives up at a second server side stage,
  and 2 elsewhere, where no flow of the instance meets it.
* An interleaving error of two handlers needs two of them at a time, and a third
  request before or after them (`pages`: three requests, at most one of them a POST
  at a time, since the properties are about submissions that do not overlap; `ends`
  lets two POSTs overlap).
* Two connections are enough for two handlers that each have one and wait for
  another, and three requests for a third one that can get none. Two uids let a
  creation fail after another, and the sequence run out. In `creations` two slugs let
  two creations write at a time or wait for each other; bodies are left to `policies`,
  so that the limit there is 0 and a chunk is a refusal.
* `Word` = 4 and an alphabet of 3 make every subtraction wrap that does with 62
  and 2^64; the proof covers every size.
* In `sessions`, two users of whom one is an administrator let two logins disagree;
  one fault is enough for each of the faults to meet every point of a login, and
  four sessions are more than two requests and a fault can use up: deadlock would
  show. `disturbed` needs no second fault.
* In `server`, a bound of zero and two requests let the tool reach its bound and one
  more, and wait. The tables of tenants are the default tenant beside another, alone,
  missing, and twice. `HandlerFailures` of one element is one failure more than the
  database's, which the extractor has already. `Word` = 4 shows a wrap of the counter
  if there were one.
* `MaxSessions`, `MaxExecutions`, `MaxSetbacks` bound what can go wrong in `finish`.
  If a bound on sessions or executions stopped the browser there, `Finishes` would
  fail.

Symmetry is used over requests, and not in the runs with liveness properties.
`CHECK_DEADLOCK FALSE` is given where a browser may have sent all its requests, or
the bound on executions is met, or both programs have ended. `sessions` checks for deadlock, which its bounded
faults could not hide; in `policies` and `creations` a restart is always possible, so
that waiting is `CreationsEnd`'s matter.

### Fairness

* `FlowExecution!FairSpec`: weak fairness of each handler's steps and of `Settle`:
  tokio runs what is ready, the database answers. Nothing need be sent, fail or
  expire.
* `Snapshot!FairSpec`: weak fairness of the steps of `start()`, not of the edits.
* `FlowExecutor!FairSpec`: weak fairness of handlers and answers, and strong
  fairness of `Proceed`: the user reloads when nothing is shown and always comes
  back to the form, however often they reload in between. Setbacks are bounded, so
  they end.
* `PolicyApi!FairSpec`: weak fairness of a handler's own steps, strong fairness of
  `InsertPolicy`: PostgreSQL wakes the waiter when the transaction it waits for
  ends, and it ends every COMMIT (weak fairness of `Settle`). The timeout is allowed
  and never relied upon; nor is a body, which a client may stop sending.

* `Sessions!FairSpec`: weak fairness of each request's way: the browser looks again,
  handlers run, answers arrive; and of `Settle`. Nobody need log in, and faults are bounded.
* `Server!Progress`: weak fairness of `Proceed`, which is what goes on whatever the
  database does: the layers up to the first wait, the timer of the timeout layer, and
  a client that takes its answer; and of `Stop`. No handler, extractor or lookup is
  assumed to end. `LoadedFairSpec` adds the tool's loop and its tasks, which tokio
  schedules; the server need not even be started.

## 4. Proofs

Everything here holds for every value of the constants that satisfies the
module's `ASSUME`s, which say that counts are numbers, that "none" values are not
ordinary ones, that a flow has an entry (`executor.rs` refuses others) and that an
entry's bindings are a sequence. Every safety property that a run checks, invariant or
action property, is stated by a theorem, and so are the refinements `WalksTheFlow`
and `CreatedAtOnce`.

* **`FlowExecutionProofs`.** `TypeInvariant`: `TypeOK` is inductive together with
  `Shape` (what a program point says of the method and of the users a request
  holds), so that no entry index is ever out of bounds. Then one lemma says how a
  step may change a request's record (`Moved`) and one how it may change shared
  state; on them rest `VerificationPrecedesLogin` (`LoginNeedsVerification`, under
  all overlaps and faults, with the places where a verification must have come
  before as the invariant) and `LoginIsVerified` (`LoginVerified`; the invariant
  says that the user being verified stays pending until marked, which one
  submission at a time ensures).
* **`FlowWalkProofs`.** What holds of an execution while submissions do not overlap,
  in two invariants, each checked by TLC on the instance of `pages` before it was
  proved. `WalkInv` ties every request to the current entry: a submission past
  `get_entry` works on the entry that is still current, for nobody else can move the
  index, and its program point says what of the pending user lets it pass
  (`Satisfied`). None of this is in `NoEntrySkipped` itself, which alone is not
  inductive. From it follow `EntriesPassed`, `PagesChecked` and, action by action, the
  refinement: `ImplementsWalk` maps every step to a step of `FlowWalk` or a stutter
  under `[](~overlap)`, and `OneAtATimeWalks` derives that condition from
  `MaxPosting <= 1`, so that it is `WalksTheFlow` itself. `LoginInv` adds, while
  nothing fails after `complete_current`, that the user checked, the pending user, the
  jar, the transaction and the row agree, wherever the login is (`Held`), and what is
  still to be done for a flow that somebody must be logged in by (`CompletionOf`);
  `AccessKept`, `CookiesMatch` and `LoginsComplete` are read off it. That bindings
  of any length which pass have admitted the user needs the first binding that does not
  (`PassAdmits`): the least element of a set of indices, from well-foundedness of `<`
  on the naturals, in place of an induction over the list.
* **`FlowExecutorProofs`.** `ExecutorInvariant`: what is cached under a session's key
  was started for that session (`Keyed`), and so was what a request has found
  (`Held`). `ExecutionsAreOnesOwn` follows;
  `NoExecutionIsRevived` is an action property from the same invariant, since only a
  new execution is ever inserted. `AloneInvariant` is about a browser whose requests do
  not overlap: the page it shows, submits or is answered with is `Current`, which is to
  say what its session finds in the cache, or completed, or lapsed. A POST carries only
  a page, so that without this the property `SubmittedToItsExecution` says nothing of
  the step before; with it come `FormsReachTheirExecution` and `SessionsStick`.
* **`SessionsProofs`.** `SessionsInvariant` in three parts: `LateInv` says that a COMMIT
  which nobody waits for is of a disturbed login; `Own` says of each request
  alone which of its cookies may carry `is_admin`, and gives `AdminIsEarned`; `Quiet`
  says, as long as nothing is disturbed, that a login is alone and that the browser's
  cookie agrees with its row or its successor is on the way, and gives
  `AdminIsOneUser`.
* **`LoadedServerProofs`.** Of the tool alone, `current` is the number of tasks and of
  the one about to be spawned, so that it never wraps; `LoadIsBounded` follows.
  Of the composition, `ToolIsImplemented` and `ServerIsImplemented`: every step of
  the composition is a step of either or none of it, so `LoadIsBoundedBesideTheServer`
  needs no new proof. `ServerInvariant` says what each program point of a request
  implies for its extensions, its span and its error; `LayersAreInOrder`,
  `ErrorsAreTold` and `RedirectsStayWithin` are read off it.
* **`SnapshotProofs`.** `SnapshotTyping`, and `FrozenStorageIsClosed`: the invariant is
  that what has been visited, and what the copies refer to, is copied or in `todo`.
  It needs no agreement between the copies, which is why edits do no harm.
* **`CsrfProofs`.** `UnmaskMask` for every alphabet no larger than the word;
  `EchoesAreAccepted` from it; `HeldTokensAreAccepted` from the invariant that all
  requests under way carry the one cookie unless cookie-less ones overlapped.
* **`PolicyApiProofs`.** One invariant, `Inv`, of what each request's record says at
  its program point with respect to rows that only grow, gives `PoliciesAreWhole`,
  `AnswersAreTrue` and `ListsAreFaithful`. `Typing` bounds what is kept of a body, and
  the pool, whose holders it counts. `CreationIsOneStep` is the refinement of
  `PolicyTable`, step by step, from `TableInv`: no two rows, committed, unsettled or
  still being written, share a slug or a uid (`Claimed`), and no uid is beyond `serial`.
  It rests on the insert's wait for `Contended`.

Only model-checked: the liveness properties `RequestsEnd`, `StartEnds`, `Finishes`,
`CreationsEnd`, `SessionObtained`, `RequestsAnswered`, `ShutdownEnds` and `ToolEnds`,
which need fairness and ENABLED and are out of the prover's reach. Not proved, for it
is false, is the same without its condition where a property has one (section 5). No
module has a recursive definition: what the code recurses over is a list of what is
left (`todo` of `Snapshot`) or a quantifier over a list's indices (`FlowCheck`).

## 5. What the conditions say

Some properties hold only while submissions (or cookie-less requests) do not
overlap. The condition is part of the property because the code does not do better,
and none of its texts promises more:

* two submissions that both handled an entry both call `complete_current`, and the
  second skips an entry (`NoEntrySkipped`, `~overlap`);
* a second identification between a verification and its mark has the other user
  marked (`LoginVerified`, `~overlap`); `LoginNeedsVerification` is what is left;
* two first GETs start two executions, of which the later one stays
  (`SubmittedToItsExecution`), and make two sessions (`SessionSticks`);
* two first requests are given two CSRF cookies, and a page may keep the token of
  the lost one (`HeldTokenAccepted`, `~contended`).

`disturbed` (`AdminIsAdministrator`) leaves out logins that another request overlaps
or that are broken off between their cookie, their commit and their answer: then the
row and the claims may be about two users, and `AdminSession` joins them. What is
left without the condition is `AdminNeedsAdminLogin`.

It says that a login was about an administrator, and not that his own password was
verified: under overlap, the second case above lets an identification between
`api/v1/executor.rs:224` and `:255` have an administrator marked by another's password.

`StartEnds` asks that edits come to an end and that in the end no stage embeds itself,
however indirectly. The schema does not (`V1__initial.sql:97` refers to any stage), and
`reverse_lookup` (`storage/src/stage.rs:206-208`) goes round such a ring without end;
it also does when a ring is never in the rows at any moment but edits close it behind
the recursion again and again.

`Finishes` needs the query's `next`: without it a completed execution answers with an
error and stays in the cache (`flow.rs:80-82`).

`SessionObtained` leaves out a browser whose cookie was signed with an earlier secret:
`handle_auth` answers 401 before any extractor could replace the cookie, and nothing
clears it. `PageChecked` admits the component of an entry that a submission completed
while the page was being made.

`faulted` leaves out submissions that were dropped or failed after
`complete_current`: the entry is not offered again though its row was not written. It
also leaves out logins whose response was lost, after which the row is bound and the
cookie is not (`CookieMatchesRow`).

## 6. Findings

**Context is locked.** `use_mut_context` takes the lock with
`try_write().expect("Context is locked")` (`flow.rs:35`): it asserts that nobody
holds a read guard. A page load of the same session holds one across the await in
`lookup_stage` (`flow.rs:125`) and while it builds the component (`flow.rs:85`). The
run `locked` shows a POST that identifies a user while a GET looks the stage up: the
handler panics.

**The recovery flow.** `Tenant::get_flow` answers the designation `Recovery` with
`enrollment_flow` (`model/src/tenant.rs:39`), although the tenant has a field
`recovery_flow` (`model/src/tenant.rs:27`), loaded from its own column
(`storage/src/tenant.rs:103`) and read by nothing. The run `recovery` shows a tenant
with both flows whose redirect for recovery leads to enrollment.

## 7. Not modelled

* Policy engine: pure bindings of values into Rhai without state; the outcome of an
  evaluation is a choice in `FlowCheck`. (Its constants `UNSPECIFIED` and `BROADCAST`
  of IPv4 addresses are both `LOCALHOST`, `policy-engine/src/network.rs:63-64`.)
* User service: its lookups are choices of their outcome; the order in which name,
  email and uuid are tried decides nothing but which user is found.
* `PolicyService::invalidate`, and the cache of syntax trees: nothing in the
  repository edits a policy or calls `invalidate`.
* Rows becoming values, `find_all_ids` and the `todo!()`s of the storage: I/O.
* Configuration: read once before anything runs; in `Server` the first step's failure.
* The span's other fields, error texts, the files of the single page application.
* Registration (`api/v1/auth/register.rs`): declared by no module, so not built.
* The frontend's `HomeView`: it sends no request.
* Helm chart, images, JSON schemas: data.

## 8. Plan

Done: the modules of section 2, their runs, and a theorem for every safety property.
What is left:

1. Between the modules: that the executions `FlowExecutor` lets a submission advance
   are those of `FlowExecution`, as a refinement of one abstract specification of an
   entry counter, and the sessions of `Sessions` in the same way.
2. Of `Server`, the safety half of `ShutdownEnds`: that nothing is accepted once the
   server was interrupted.
3. Of `FlowCheck`: which binding decides, as an operator's lemma of its own, from
   `PassAdmits`.
