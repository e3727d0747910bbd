----------------------------- MODULE FlowExecutor -----------------------------
(***************************************************************************)
(* The cache of flow executions (server/src/executor.rs) with the sessions   *)
(* that its keys are made of (server/src/api/v1/auth.rs), one flow and one    *)
(* browser.  A request finds its session, then the execution that is cached  *)
(* for the session, and a GET that finds none starts one; each is a step of  *)
(* its own, and requests may overlap, be lost or outlive what they found.    *)
(*                                                                         *)
(* Of an execution only its entry is kept: FlowExecution has the rest.       *)
(***************************************************************************)
EXTENDS Integers

CONSTANTS
  Requests,
  Entries,          \* the flow's entries; an execution at Entries is completed
  NextGiven,        \* whether a request's query may have, or lack, next
  MaxSessions, MaxExecutions, MaxSetbacks   \* bounds

ASSUME FlowExecutorAssumption ==
  /\ Entries \in Nat \ {0}
  /\ NextGiven \subseteq BOOLEAN
  /\ MaxSessions \in Nat /\ MaxExecutions \in Nat /\ MaxSetbacks \in Nat

None == 0
Sessions == 1 .. MaxSessions
Executions == 1 .. MaxExecutions

VARIABLES
  rows,        \* the sessions table: sessions 1 to rows
  executions,  \* the cache, of one flow: session to execution
  owner,       \* per execution: the session of its key, None before its start
  at,          \* per execution: its entry
  lapsed,      \* history: executions that expired or that a restart took
  jar,         \* the browser's session cookie
  shown,       \* what the browser shows
  requests,
  overlap,     \* history: two requests have been under way together
  setbacks     \* losses, expiries, restarts and refused submissions so far

server == <<rows, executions, owner, at, lapsed>>
browser == <<jar, shown>>
vars == <<rows, executions, owner, at, lapsed, jar, shown, requests, overlap, setbacks>>

Nothing == [screen |-> "nothing", exec |-> None, entry |-> 0]
Redirected == [screen |-> "redirected", exec |-> None, entry |-> 0]
Moved == [screen |-> "moved", exec |-> None, entry |-> 0]
Page(e, i) == [screen |-> "page", exec |-> e, entry |-> i]

Idle == [pc |-> "idle", kind |-> "get", cookie |-> None, page |-> Nothing, next |-> FALSE,
         session |-> None, new |-> FALSE, exec |-> None, answer |-> Nothing]

Init ==
  /\ rows = 0
  /\ executions = [s \in Sessions |-> None]
  /\ owner = [e \in Executions |-> None]
  /\ at = [e \in Executions |-> 0]
  /\ lapsed = {}
  /\ jar = None
  /\ shown = Nothing
  /\ requests = [r \in Requests |-> Idle]
  /\ overlap = FALSE
  /\ setbacks = 0

UnderWay == {r \in Requests : requests[r].pc # "idle"}
Started == {e \in Executions : owner[e] # None}

Setback == setbacks < MaxSetbacks /\ setbacks' = setbacks + 1

-----------------------------------------------------------------------------
(* The browser *)

Send(r, kind, page) ==
  /\ requests[r].pc = "idle"
  /\ \E next \in NextGiven :
       requests' = [requests EXCEPT ![r] =
         [Idle EXCEPT !.pc = "sent", !.kind = kind, !.cookie = jar, !.page = page, !.next = next]]
  /\ overlap' = (overlap \/ UnderWay # {})
  /\ UNCHANGED <<server, browser, setbacks>>

\* A form is submitted from its page; a GET may be sent at any time.
Get(r) == Send(r, "get", Nothing)
Post(r) == shown.screen = "page" /\ Send(r, "post", shown)

\* The answer arrives, with the cookie of a new session; a 303 is followed.
Receive(r) ==
  LET req == requests[r]
      cookie == IF req.new THEN req.session ELSE jar
  IN  /\ req.pc = "answered"
      /\ jar' = cookie
      /\ IF req.answer = Moved
           THEN /\ requests' = [requests EXCEPT ![r] =
                     [Idle EXCEPT !.pc = "sent", !.cookie = cookie, !.next = req.next]]
                /\ UNCHANGED shown
           ELSE /\ requests' = [requests EXCEPT ![r] = Idle]
                /\ shown' = req.answer
      /\ UNCHANGED <<server, overlap, setbacks>>

\* The request or its answer is lost, or the timeout of one second ends it.
Lose(r) ==
  /\ requests[r].pc # "idle"
  /\ Setback
  /\ requests' = [requests EXCEPT ![r] = Idle]
  /\ UNCHANGED <<server, browser, overlap>>

-----------------------------------------------------------------------------
(* The handlers *)

\* Mutant of Extract: every request is given a session of its own.
ExtractAnew(r) ==
  /\ requests[r].pc = "sent"
  /\ rows < MaxSessions
  /\ rows' = rows + 1
  /\ requests' = [requests EXCEPT ![r].pc = "keyed", ![r].session = rows + 1, ![r].new = TRUE]
  /\ UNCHANGED <<executions, owner, at, lapsed, browser, overlap, setbacks>>

\* Session::from_request_parts: the cookie's session if its row exists, else a
\* new one.
Extract(r) ==
  LET cookie == requests[r].cookie
  IN  /\ requests[r].pc = "sent"
      /\ \/ /\ cookie \in 1 .. rows
            /\ requests' = [requests EXCEPT ![r].pc = "keyed", ![r].session = cookie]
            /\ UNCHANGED rows
         \/ /\ cookie \notin 1 .. rows
            /\ rows < MaxSessions
            /\ rows' = rows + 1
            /\ requests' = [requests EXCEPT ![r].pc = "keyed", ![r].session = rows + 1,
                                            ![r].new = TRUE]
      /\ UNCHANGED <<executions, owner, at, lapsed, browser, overlap, setbacks>>

\* Mutant of Key: the key is the flow alone.
KeyOfFlow(session) == 1

\* FlowKey: the session and the flow, which is always the same one here.
Key(session) == session

\* Mutant of Find: a GET starts an execution without looking for one.
FindOrStart(r) ==
  LET hit == executions[Key(requests[r].session)]
  IN  /\ requests[r].pc = "keyed"
      /\ \/ /\ requests[r].kind = "get"
            /\ requests' = [requests EXCEPT ![r].pc = "missed"]
         \/ /\ hit # None /\ requests[r].kind = "post"
            /\ requests' = [requests EXCEPT ![r].pc = "found", ![r].exec = hit]
         \/ /\ hit = None /\ requests[r].kind = "post"
            /\ requests' = [requests EXCEPT ![r].pc = "answered", ![r].answer = Nothing]
      /\ UNCHANGED <<server, browser, overlap, setbacks>>

\* get_execution: only a GET starts an execution that is not cached.
Find(r) ==
  LET hit == executions[Key(requests[r].session)]
  IN  /\ requests[r].pc = "keyed"
      /\ \/ /\ hit # None
            /\ requests' = [requests EXCEPT ![r].pc = "found", ![r].exec = hit]
         \/ /\ hit = None /\ requests[r].kind = "get"
            /\ requests' = [requests EXCEPT ![r].pc = "missed"]
         \/ /\ hit = None /\ requests[r].kind = "post"
            /\ requests' = [requests EXCEPT ![r].pc = "answered", ![r].answer = Nothing]
      /\ UNCHANGED <<server, browser, overlap, setbacks>>

\* start: once the lookups are answered the execution is inserted, over one that
\* another request may have inserted meanwhile.
Start(r) ==
  /\ requests[r].pc = "missed"
  /\ \E e \in Executions \ Started :
       /\ \A f \in Executions \ Started : e <= f
       /\ owner' = [owner EXCEPT ![e] = requests[r].session]
       /\ executions' = [executions EXCEPT ![Key(requests[r].session)] = e]
       /\ requests' = [requests EXCEPT ![r].pc = "found", ![r].exec = e]
  /\ UNCHANGED <<rows, at, lapsed, browser, overlap, setbacks>>

\* FlowExecution::data: the page of the entry, or once completed the redirect to
\* next, with which the key's execution leaves the cache.  A POST is answered with
\* it when access is denied or the submission refused, a setback.  The steps of data()
\* are FlowExecution's and are one here; r has had its execution since Find, so
\* the one that leaves the cache may still be another.
View(r) ==
  LET req == requests[r]
      done == at[req.exec] = Entries
  IN  /\ req.pc = "found"
      /\ IF req.kind = "post" THEN Setback ELSE UNCHANGED setbacks
      /\ executions' = IF done /\ req.next THEN [executions EXCEPT ![Key(req.session)] = None]
                       ELSE executions
      /\ requests' = [requests EXCEPT ![r].pc = "answered",
           ![r].answer = IF ~done THEN Page(req.exec, at[req.exec])
                         ELSE IF req.next THEN Redirected ELSE Nothing]
      /\ UNCHANGED <<rows, owner, at, lapsed, browser, overlap>>

\* Mutant of Advances: the last entry is never completed.
AdvancesNoFurther(i) == IF i < Entries - 1 THEN (i + 1) .. (Entries - 1) ELSE {i}

\* Mutant of Advances: the index is not held at the last entry.
AdvancesPast(i) == (i + 1) .. (Entries + 1)

\* complete_current, and again for each entry without input that follows.
Advances(i) == IF i = Entries THEN {i} ELSE (i + 1) .. Entries

\* Mutant of Submit: the execution is put back into the cache.
SubmitAndKeep(r) ==
  LET req == requests[r]
  IN  /\ req.pc = "found" /\ req.kind = "post"
      /\ \E i \in Advances(at[req.exec]) : at' = [at EXCEPT ![req.exec] = i]
      /\ executions' = [executions EXCEPT ![Key(req.session)] = req.exec]
      /\ requests' = [requests EXCEPT ![r].pc = "answered", ![r].answer = Moved]
      /\ UNCHANGED <<rows, owner, lapsed, browser, overlap, setbacks>>

\* The submission is accepted and answered with a 303 to the same URI.
Submit(r) ==
  LET req == requests[r]
  IN  /\ req.pc = "found" /\ req.kind = "post"
      /\ \E i \in Advances(at[req.exec]) : at' = [at EXCEPT ![req.exec] = i]
      /\ requests' = [requests EXCEPT ![r].pc = "answered", ![r].answer = Moved]
      /\ UNCHANGED <<rows, executions, owner, lapsed, browser, overlap, setbacks>>

\* The handler returns an error, which completing the flow may do after it has
\* advanced.
Fail(r) ==
  LET req == requests[r]
  IN  /\ req.pc \notin {"idle", "answered"}
      /\ Setback
      /\ \/ UNCHANGED at
         \/ /\ req.pc = "found" /\ req.kind = "post"
            /\ \E i \in Advances(at[req.exec]) : at' = [at EXCEPT ![req.exec] = i]
      /\ requests' = [requests EXCEPT ![r].pc = "answered", ![r].answer = Nothing]
      /\ UNCHANGED <<rows, executions, owner, lapsed, browser, overlap>>

-----------------------------------------------------------------------------
(* The cache loses executions *)

\* time_to_idle or time_to_live is over.
Expire(s) ==
  /\ executions[s] # None
  /\ Setback
  /\ lapsed' = lapsed \cup {executions[s]}
  /\ executions' = [executions EXCEPT ![s] = None]
  /\ UNCHANGED <<rows, owner, at, browser, requests, overlap>>

\* Executions are in memory, sessions in the database.
Restart ==
  /\ Setback
  /\ lapsed' = Started
  /\ executions' = [s \in Sessions |-> None]
  /\ requests' = [r \in Requests |-> Idle]
  /\ UNCHANGED <<rows, owner, at, browser, overlap>>

Handle(r) == Extract(r) \/ Find(r) \/ Start(r) \/ View(r) \/ Submit(r)

Next ==
  \/ \E r \in Requests : Get(r) \/ Post(r) \/ Receive(r) \/ Lose(r) \/ Handle(r) \/ Fail(r)
  \/ \E s \in Sessions : Expire(s)
  \/ Restart

Spec == Init /\ [][Next]_vars

\* Handlers run and answers arrive; the user may reload, but asks for the flow while
\* nothing is shown and goes back to submitting the page that is.
Proceed(r) == Post(r) \/ (shown.screen = "nothing" /\ Get(r))
FairSpec ==
  /\ Spec
  /\ \A r \in Requests : WF_vars(Handle(r)) /\ WF_vars(Receive(r)) /\ SF_vars(Proceed(r))

-----------------------------------------------------------------------------
(* Properties *)

Screens == {Nothing, Redirected, Moved} \cup {Page(e, i) : e \in Executions, i \in 0 .. Entries - 1}

RequestType ==
  [pc : {"idle", "sent", "keyed", "missed", "found", "answered"}, kind : {"get", "post"},
   cookie : Sessions \cup {None}, page : Screens, next : BOOLEAN,
   session : Sessions \cup {None}, new : BOOLEAN, exec : Executions \cup {None},
   answer : Screens]

TypeOK ==
  /\ rows \in 0 .. MaxSessions
  /\ executions \in [Sessions -> Executions \cup {None}]
  /\ owner \in [Executions -> Sessions \cup {None}]
  /\ at \in [Executions -> 0 .. Entries]
  /\ lapsed \subseteq Executions
  /\ jar \in Sessions \cup {None}
  /\ shown \in Screens
  /\ requests \in [Requests -> RequestType]
  /\ overlap \in BOOLEAN
  /\ setbacks \in 0 .. MaxSetbacks

\* A form is handled by the execution whose page it was, through losses, expiries
\* and restarts, unless that execution was completed or has lapsed: no one in the
\* midst of a flow is moved to another execution of it (executor.rs:90-101), as
\* long as the browser's requests do not overlap.
SubmittedToItsExecution ==
  \A r \in Requests :
    LET req == requests[r]
    IN  /\ ~overlap /\ req.pc = "found" /\ req.kind = "post"
        => \/ req.exec = req.page.exec
           \/ at[req.page.exec] = Entries
           \/ req.page.exec \in lapsed

\* A request is handled by an execution of its own session, whatever overlaps.
OwnExecution ==
  \A r \in Requests : requests[r].exec # None => owner[requests[r].exec] = requests[r].session

\* An execution that has left the cache never comes back, although requests that
\* hold it go on and remove others by its key.
NeverRevived ==
  [][\A e \in Started : (\E s \in Sessions : executions'[s] = e)
                          => (\E s \in Sessions : executions[s] = e)]_vars

\* Once it has a cookie, the browser keeps its session, unless requests overlap
\* before the first is answered.
SessionSticks == [][jar # None /\ ~overlap' => jar' = jar]_vars

\* A browser that goes on is in the end redirected, after any number of losses,
\* expiries, restarts and refusals that come to an end, if the query of its every
\* request gives next (NextGiven = {TRUE}).  Without next a completed execution answers
\* with an error and stays in the cache (flow.rs:80-82).
Finishes == <>(shown = Redirected)

=============================================================================
