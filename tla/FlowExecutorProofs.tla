------------------------- MODULE FlowExecutorProofs -------------------------
(***************************************************************************)
(* Proofs about FlowExecutor: a request handles an execution of its own      *)
(* session, and what has left the cache stays out of it.  Both rest on the   *)
(* cache's keys: what is cached for a session was started for it.  For a     *)
(* browser whose requests do not overlap the second half proves that its     *)
(* forms reach the executions whose pages they are, and that it keeps its    *)
(* session: the page it shows is current for the cookie it has.              *)
(***************************************************************************)
EXTENDS FlowExecutor, TLAPS

\* What a request's program point says of its session and execution.
Held(x, own) ==
  /\ x \in RequestType
  /\ x.pc \in {"idle", "sent", "keyed", "missed"} => x.exec = None
  /\ x.pc \in {"keyed", "missed", "found"} => x.session \in Sessions
  /\ x.pc = "found" => x.exec \in Executions
  /\ x.exec # None => x.session \in Sessions /\ own[x.exec] = x.session

Keyed(cache, own) == \A s \in Sessions : cache[s] # None => own[cache[s]] = s

ExecutorInv ==
  /\ TypeOK
  /\ \A r \in Requests : Held(requests[r], owner)
  /\ Keyed(executions, owner)

\* What is shown belongs to Screens, and None is no session and no execution.
LEMMA Screenful ==
  /\ {Nothing, Redirected, Moved} \subseteq Screens
  /\ \A e \in Executions, i \in 0 .. Entries - 1 : Page(e, i) \in Screens
  /\ None \notin Sessions /\ None \notin Executions
BY DEF Screens, None, Sessions, Executions

\* A request that is not under way holds nothing.
LEMMA IdleHeld ==
  ASSUME NEW own
  PROVE  Held(Idle, own) /\ Idle \in RequestType
<1>1. Idle \in RequestType  BY Screenful DEF Idle, RequestType
<1>2. QED  BY <1>1 DEF Held, Idle

\* A step that changes one request and no execution's owner.
LEMMA OneRequest ==
  ASSUME ExecutorInv, NEW r \in Requests, NEW x, Held(x, owner),
         requests' = [requests EXCEPT ![r] = x], UNCHANGED owner,
         \A s \in Sessions : executions'[s] \in {executions[s], None},
         executions' \in [Sessions -> Executions \cup {None}],
         rows' \in 0 .. MaxSessions, at' \in [Executions -> 0 .. Entries],
         lapsed' \subseteq Executions, jar' \in Sessions \cup {None}, shown' \in Screens,
         overlap' \in BOOLEAN, setbacks' \in 0 .. MaxSetbacks
  PROVE  ExecutorInv'
<1>1. x \in RequestType  BY DEF Held
<1>2. /\ requests' \in [Requests -> RequestType]
      /\ \A q \in Requests : requests'[q] = IF q = r THEN x ELSE requests[q]
  BY <1>1 DEF ExecutorInv, TypeOK
<1>3. \A q \in Requests : Held(requests'[q], owner)  BY <1>2 DEF ExecutorInv
<1>4. Keyed(executions', owner)  BY DEF ExecutorInv, Keyed
<1>5. QED  BY <1>2, <1>3, <1>4 DEF ExecutorInv, TypeOK

\* A setback is counted within its bound.
LEMMA Setbacks ==
  ASSUME ExecutorInv, Setback
  PROVE  setbacks' \in 0 .. MaxSetbacks
BY FlowExecutorAssumption DEF ExecutorInv, TypeOK, Setback

\* The variables of the cache and the browser that a step leaves alone.
LEMMA Kept ==
  ASSUME ExecutorInv
  PROVE  /\ UNCHANGED executions =>
              /\ executions' \in [Sessions -> Executions \cup {None}]
              /\ \A s \in Sessions : executions'[s] \in {executions[s], None}
         /\ UNCHANGED rows => rows' \in 0 .. MaxSessions
         /\ UNCHANGED at => at' \in [Executions -> 0 .. Entries]
         /\ UNCHANGED lapsed => lapsed' \subseteq Executions
         /\ UNCHANGED jar => jar' \in Sessions \cup {None}
         /\ UNCHANGED shown => shown' \in Screens
         /\ UNCHANGED overlap => overlap' \in BOOLEAN
         /\ UNCHANGED setbacks => setbacks' \in 0 .. MaxSetbacks
BY DEF ExecutorInv, TypeOK

-----------------------------------------------------------------------------

\* A new request has neither session nor execution yet.
LEMMA SendStep ==
  ASSUME ExecutorInv, NEW r \in Requests, Get(r) \/ Post(r)
  PROVE  ExecutorInv'
<1>1. PICK kind \in {"get", "post"}, page \in Screens : Send(r, kind, page)
  BY Screenful DEF Get, Post, ExecutorInv, TypeOK
<1>2. PICK next \in NextGiven :
        requests' = [requests EXCEPT ![r] =
          [Idle EXCEPT !.pc = "sent", !.kind = kind, !.cookie = jar, !.page = page, !.next = next]]
  BY <1>1 DEF Send
<1> DEFINE y == [Idle EXCEPT !.pc = "sent", !.kind = kind]
           z == [y EXCEPT !.cookie = jar, !.page = page]
           x == [z EXCEPT !.next = next]
<1>3. /\ requests' = [requests EXCEPT ![r] = x]
      /\ x.pc = "sent" /\ x.exec = None /\ next \in BOOLEAN
  BY <1>2, FlowExecutorAssumption DEF Idle
<1>4. x \in RequestType
  <2>1. y \in RequestType  BY IdleHeld, Zenon DEF RequestType
  <2>2. jar \in Sessions \cup {None}  BY DEF ExecutorInv, TypeOK
  <2> HIDE DEF y
  <2>3. z \in RequestType  BY <2>1, <2>2, Zenon DEF RequestType
  <2> HIDE DEF z
  <2>4. QED  BY <1>3, <2>3, Zenon DEF RequestType
<1> HIDE DEF x
<1>5. Held(x, owner)  BY <1>3, <1>4 DEF Held
<1>6. UNCHANGED <<rows, executions, owner, at, lapsed, jar, shown, setbacks>>
  BY <1>1 DEF Send, server, browser
<1>7. overlap' \in BOOLEAN  BY <1>1 DEF Send, ExecutorInv, TypeOK
<1>8. QED  BY <1>3, <1>5, <1>6, <1>7, Kept, OneRequest

\* An answer ends its request or has it sent again after a redirect.
LEMMA ReceiveStep ==
  ASSUME ExecutorInv, NEW r \in Requests, Receive(r)
  PROVE  ExecutorInv'
<1> DEFINE req == requests[r]
           cookie == IF req.new THEN req.session ELSE jar
           y == [Idle EXCEPT !.pc = "sent", !.cookie = cookie]
           x == [y EXCEPT !.next = req.next]
<1>1. /\ req \in RequestType /\ jar' = cookie /\ jar' \in Sessions \cup {None}
      /\ UNCHANGED <<rows, executions, owner, at, lapsed, overlap, setbacks>>
  BY DEF Receive, server, ExecutorInv, TypeOK, RequestType
<1>2. CASE requests' = [requests EXCEPT ![r] = Idle] /\ shown' = req.answer
  <2>1. shown' \in Screens  BY <1>1, <1>2 DEF RequestType
  <2>2. QED  BY <1>1, <1>2, <2>1, Kept, IdleHeld, OneRequest
<1>3. CASE requests' = [requests EXCEPT ![r] =
             [Idle EXCEPT !.pc = "sent", !.cookie = cookie, !.next = req.next]]
           /\ UNCHANGED shown
  <2>1. requests' = [requests EXCEPT ![r] = x] /\ x.pc = "sent" /\ x.exec = None
    BY <1>3 DEF Idle
  <2>2. x \in RequestType
    <3>1. cookie \in Sessions \cup {None} /\ req.next \in BOOLEAN  BY <1>1 DEF RequestType
    <3> HIDE DEF cookie, req
    <3>2. y \in RequestType  BY <3>1, IdleHeld, Zenon DEF RequestType
    <3> HIDE DEF y
    <3>3. QED  BY <3>1, <3>2, Zenon DEF RequestType
  <2> HIDE DEF x
  <2>3. Held(x, owner)  BY <2>1, <2>2 DEF Held
  <2>4. QED  BY <1>1, <1>3, <2>1, <2>3, Kept, OneRequest
<1>4. QED  BY <1>2, <1>3 DEF Receive

\* A lost request leaves the server as it was.
LEMMA LoseStep ==
  ASSUME ExecutorInv, NEW r \in Requests, Lose(r)
  PROVE  ExecutorInv'
<1>1. /\ Setback /\ requests' = [requests EXCEPT ![r] = Idle]
      /\ UNCHANGED <<rows, executions, owner, at, lapsed, jar, shown, overlap>>
  BY DEF Lose, server, browser
<1>2. QED  BY <1>1, Setbacks, Kept, IdleHeld, OneRequest

\* A request with its session found or made.
LEMMA ExtractStep ==
  ASSUME ExecutorInv, NEW r \in Requests, Extract(r)
  PROVE  ExecutorInv'
<1> DEFINE req == requests[r]
<1>1. /\ req.pc = "sent" /\ req \in RequestType /\ Held(req, owner)
      /\ UNCHANGED <<executions, owner, at, lapsed, jar, shown, overlap, setbacks>>
      /\ rows \in 0 .. MaxSessions
  BY DEF Extract, browser, ExecutorInv, TypeOK
<1>2. ASSUME NEW session \in Sessions, NEW new \in BOOLEAN, rows' \in 0 .. MaxSessions,
             requests' = [requests EXCEPT ![r] =
               [[req EXCEPT !.pc = "keyed", !.session = session] EXCEPT !.new = new]]
      PROVE  ExecutorInv'
  <2> DEFINE y == [req EXCEPT !.pc = "keyed", !.session = session]
             x == [y EXCEPT !.new = new]
  <2>1. y \in RequestType  BY <1>1, Zenon DEF RequestType
  <2>2. y.pc = "keyed" /\ y.session = session /\ y.exec = req.exec  BY <1>1 DEF RequestType
  <2> HIDE DEF y
  <2>3. x \in RequestType  BY <2>1, Zenon DEF RequestType
  <2>4. x.pc = "keyed" /\ x.session = session /\ x.exec = req.exec
    BY <2>1, <2>2 DEF RequestType
  <2>5. requests' = [requests EXCEPT ![r] = x]  BY <1>2 DEF y
  <2> HIDE DEF x
  <2>6. Held(x, owner)  BY <1>1, <2>3, <2>4 DEF Held
  <2>7. QED  BY <1>1, <1>2, <2>5, <2>6, Kept, OneRequest
<1>3. CASE /\ req.cookie \in 1 .. rows /\ UNCHANGED rows
           /\ requests' = [requests EXCEPT ![r].pc = "keyed", ![r].session = req.cookie]
  <2>1. req.cookie \in Sessions /\ req.new \in BOOLEAN
    BY <1>1, <1>3, FlowExecutorAssumption DEF Sessions, RequestType
  <2>2. requests' = [requests EXCEPT ![r] =
          [[req EXCEPT !.pc = "keyed", !.session = req.cookie] EXCEPT !.new = req.new]]
    BY <1>1, <1>3 DEF ExecutorInv, TypeOK, RequestType
  <2>3. QED  BY <1>1, <1>2, <1>3, <2>1, <2>2
<1>4. CASE /\ rows < MaxSessions /\ rows' = rows + 1
           /\ requests' = [requests EXCEPT ![r].pc = "keyed", ![r].session = rows + 1,
                                           ![r].new = TRUE]
  <2>1. rows + 1 \in Sessions /\ rows' \in 0 .. MaxSessions
    BY <1>1, <1>4, FlowExecutorAssumption DEF Sessions
  <2>2. requests' = [requests EXCEPT ![r] =
          [[req EXCEPT !.pc = "keyed", !.session = rows + 1] EXCEPT !.new = TRUE]]
    BY <1>1, <1>4 DEF ExecutorInv, TypeOK, RequestType
  <2>3. QED  BY <1>2, <2>1, <2>2
<1>5. QED  BY <1>3, <1>4 DEF Extract

\* A request that is answered, whatever it is shown.
LEMMA AnswerHeld ==
  ASSUME ExecutorInv, NEW r \in Requests, NEW screen \in Screens,
         requests' = [requests EXCEPT ![r].pc = "answered", ![r].answer = screen]
  PROVE  \E x : Held(x, owner) /\ requests' = [requests EXCEPT ![r] = x]
<1> DEFINE req == requests[r]
           x == [req EXCEPT !.pc = "answered", !.answer = screen]
<1>1. req \in RequestType /\ Held(req, owner)  BY DEF ExecutorInv, TypeOK
<1>2. requests' = [requests EXCEPT ![r] = x]  BY DEF ExecutorInv, TypeOK
<1>3. x \in RequestType  BY <1>1, Zenon DEF RequestType
<1>4. x.pc = "answered" /\ x.exec = req.exec /\ x.session = req.session
  BY <1>1 DEF RequestType
<1> HIDE DEF x
<1>5. Held(x, owner)  BY <1>1, <1>3, <1>4 DEF Held
<1>6. QED  BY <1>2, <1>5

\* A request that has found e in the cache.
LEMMA FoundHeld ==
  ASSUME ExecutorInv, NEW r \in Requests, NEW e \in Executions, NEW own,
         requests[r].session \in Sessions, own[e] = requests[r].session,
         requests' = [requests EXCEPT ![r].pc = "found", ![r].exec = e]
  PROVE  \E x : Held(x, own) /\ requests' = [requests EXCEPT ![r] = x]
<1> DEFINE req == requests[r]
           x == [req EXCEPT !.pc = "found", !.exec = e]
<1>1. req \in RequestType  BY DEF ExecutorInv, TypeOK
<1>2. requests' = [requests EXCEPT ![r] = x]  BY DEF ExecutorInv, TypeOK
<1>3. x \in RequestType
  <2>1. e \in Executions \cup {None}  OBVIOUS
  <2>2. QED  BY <1>1, <2>1, Zenon DEF RequestType
<1>4. x.pc = "found" /\ x.exec = e /\ x.session = req.session
  BY <1>1 DEF RequestType
<1> HIDE DEF x
<1>5. Held(x, own)  BY <1>3, <1>4 DEF Held
<1>6. QED  BY <1>2, <1>5

\* What is found under a session's key was started for that session.
LEMMA FindStep ==
  ASSUME ExecutorInv, NEW r \in Requests, Find(r)
  PROVE  ExecutorInv'
<1> DEFINE req == requests[r]
           hit == executions[req.session]
<1>1. /\ req.pc = "keyed" /\ req \in RequestType /\ Held(req, owner)
      /\ UNCHANGED <<rows, executions, owner, at, lapsed, jar, shown, overlap, setbacks>>
  BY DEF Find, server, browser, ExecutorInv, TypeOK
<1>2. req.session \in Sessions  BY <1>1 DEF Held
<1>3. CASE hit # None /\ requests' = [requests EXCEPT ![r].pc = "found", ![r].exec = hit]
  <2>1. hit \in Executions /\ owner[hit] = req.session
    BY <1>2, <1>3 DEF ExecutorInv, TypeOK, Keyed
  <2>2. QED  BY <1>1, <1>2, <1>3, <2>1, FoundHeld, Kept, OneRequest
<1>4. CASE requests' = [requests EXCEPT ![r].pc = "missed"]
  <2> DEFINE x == [req EXCEPT !.pc = "missed"]
  <2>1. requests' = [requests EXCEPT ![r] = x]  BY <1>4 DEF ExecutorInv, TypeOK
  <2>2. x \in RequestType  BY <1>1, Zenon DEF RequestType
  <2>3. x.pc = "missed" /\ x.exec = req.exec /\ x.session = req.session
    BY <1>1 DEF RequestType
  <2> HIDE DEF x
  <2>4. Held(x, owner)  BY <1>1, <1>2, <2>2, <2>3 DEF Held
  <2>5. QED  BY <1>1, <2>1, <2>4, Kept, OneRequest
<1>5. CASE requests' = [requests EXCEPT ![r].pc = "answered", ![r].answer = Nothing]
  BY <1>1, <1>5, Screenful, AnswerHeld, Kept, OneRequest
<1>6. QED  BY <1>3, <1>4, <1>5 DEF Find, Key

\* A new execution belongs to the session it is cached for, and nothing that was
\* started before changes its owner.
LEMMA StartStep ==
  ASSUME ExecutorInv, NEW r \in Requests, Start(r)
  PROVE  ExecutorInv'
<1> DEFINE session == requests[r].session
<1>1. requests[r].pc = "missed" /\ session \in Sessions
  BY DEF Start, ExecutorInv, Held
<1>2. PICK e \in Executions \ Started :
        /\ owner' = [owner EXCEPT ![e] = session]
        /\ executions' = [executions EXCEPT ![session] = e]
        /\ requests' = [requests EXCEPT ![r].pc = "found", ![r].exec = e]
  BY DEF Start, Key
<1>3. UNCHANGED <<rows, at, lapsed, jar, shown, overlap, setbacks>>  BY DEF Start, browser
<1>4. /\ owner' \in [Executions -> Sessions \cup {None}]
      /\ owner'[e] = session /\ owner[e] = None
      /\ \A f \in Executions \ {e} : owner'[f] = owner[f]
  BY <1>1, <1>2 DEF ExecutorInv, TypeOK, Started
<1>5. PICK x : Held(x, owner') /\ requests' = [requests EXCEPT ![r] = x]
  BY <1>1, <1>2, <1>4, FoundHeld
<1>6. ASSUME NEW q \in Requests \ {r}  PROVE Held(requests[q], owner')
  <2>1. Held(requests[q], owner)  BY DEF ExecutorInv
  <2>2. requests[q].exec \in Executions \cup {None}
    BY DEF ExecutorInv, TypeOK, RequestType
  <2>3. requests[q].exec # e \/ requests[q].exec = None
    BY <1>4, <2>1, Screenful DEF Held
  <2>4. QED  BY <1>4, <2>1, <2>2, <2>3 DEF Held
<1>7. /\ requests' \in [Requests -> RequestType]
      /\ requests'[r] = x /\ \A q \in Requests \ {r} : requests'[q] = requests[q]
  BY <1>5 DEF ExecutorInv, TypeOK, Held
<1>8. \A q \in Requests : Held(requests'[q], owner')  BY <1>5, <1>6, <1>7
<1>9. Keyed(executions', owner')
  <2> SUFFICES ASSUME NEW s \in Sessions, executions'[s] # None
               PROVE  owner'[executions'[s]] = s
    BY DEF Keyed
  <2>1. CASE s = session  BY <1>1, <1>2, <1>4, <2>1 DEF ExecutorInv, TypeOK
  <2>2. CASE s # session
    <3>1. executions'[s] = executions[s] /\ executions[s] \in Executions
      BY <1>1, <1>2, <2>2 DEF ExecutorInv, TypeOK
    <3>2. owner[executions[s]] = s /\ s # None
      BY <3>1, Screenful DEF ExecutorInv, Keyed
    <3>3. QED  BY <1>4, <3>1, <3>2
  <2>3. QED  BY <2>1, <2>2
<1>10. executions' \in [Sessions -> Executions \cup {None}]
  BY <1>1, <1>2 DEF ExecutorInv, TypeOK
<1>11. QED  BY <1>3, <1>4, <1>7, <1>8, <1>9, <1>10 DEF ExecutorInv, TypeOK

\* A page answers the request; a completed execution leaves the cache.
LEMMA ViewStep ==
  ASSUME ExecutorInv, NEW r \in Requests, View(r)
  PROVE  ExecutorInv'
<1> DEFINE req == requests[r]
           done == at[req.exec] = Entries
           screen == IF ~done THEN Page(req.exec, at[req.exec])
                     ELSE IF req.next THEN Redirected ELSE Nothing
<1>1. /\ req.pc = "found" /\ Held(req, owner)
      /\ UNCHANGED <<rows, owner, at, lapsed, jar, shown, overlap>>
      /\ requests' = [requests EXCEPT ![r].pc = "answered", ![r].answer = screen]
      /\ executions' = IF done /\ req.next THEN [executions EXCEPT ![req.session] = None]
                       ELSE executions
  BY DEF View, browser, ExecutorInv, Key
<1>2. req.exec \in Executions /\ at[req.exec] \in 0 .. Entries
  BY <1>1 DEF Held, ExecutorInv, TypeOK
<1>3. screen \in Screens
  <2>1. CASE ~done
    <3>1. at[req.exec] \in 0 .. Entries - 1  BY <1>2, <2>1, FlowExecutorAssumption
    <3>2. QED  BY <1>2, <2>1, <3>1, Screenful
  <2>2. CASE done  BY <2>2, Screenful
  <2>3. QED  BY <2>1, <2>2
<1> HIDE DEF screen
<1>4. setbacks' \in 0 .. MaxSetbacks
  <2>1. CASE Setback  BY <2>1, Setbacks
  <2>2. CASE UNCHANGED setbacks  BY <2>2, Kept
  <2>3. QED  BY <2>1, <2>2 DEF View
<1>5. /\ executions' \in [Sessions -> Executions \cup {None}]
      /\ \A s \in Sessions : executions'[s] \in {executions[s], None}
  BY <1>1 DEF ExecutorInv, TypeOK
<1>6. QED  BY <1>1, <1>3, <1>4, <1>5, AnswerHeld, Kept, OneRequest

\* An accepted submission advances its execution, a failing one may have.
LEMMA SubmitStep ==
  ASSUME ExecutorInv, NEW r \in Requests, Submit(r) \/ Fail(r)
  PROVE  ExecutorInv'
<1> DEFINE e == requests[r].exec
<1>1. UNCHANGED <<rows, executions, owner, lapsed, jar, shown, overlap>>
  BY DEF Submit, Fail, browser
<1>2. PICK screen \in {Moved, Nothing} :
        requests' = [requests EXCEPT ![r].pc = "answered", ![r].answer = screen]
  BY DEF Submit, Fail
<1>3. screen \in Screens  BY Screenful
<1>4. setbacks' \in 0 .. MaxSetbacks
  BY Setbacks, Kept DEF Submit, Fail
<1>5. at' \in [Executions -> 0 .. Entries]
  <2>1. CASE UNCHANGED at  BY <2>1, Kept
  <2>2. ASSUME requests[r].pc = "found",
               NEW i \in Advances(at[e]), at' = [at EXCEPT ![e] = i]
        PROVE  at' \in [Executions -> 0 .. Entries]
    <3>1. e \in Executions /\ at[e] \in 0 .. Entries
      BY <2>2 DEF ExecutorInv, Held, TypeOK
    <3>2. i \in 0 .. Entries  BY <3>1, FlowExecutorAssumption DEF Advances
    <3>3. QED  BY <2>2, <3>2 DEF ExecutorInv, TypeOK
  <2>3. QED  BY <2>1, <2>2 DEF Submit, Fail
<1>6. QED  BY <1>1, <1>2, <1>3, <1>4, <1>5, AnswerHeld, Kept, OneRequest

\* The cache loses executions: nothing that is held changes its owner.
LEMMA CacheStep ==
  ASSUME ExecutorInv, Restart \/ \E s \in Sessions : Expire(s)
  PROVE  ExecutorInv'
<1>1. CASE Restart
  <2>1. /\ Setback /\ lapsed' = Started /\ executions' = [s \in Sessions |-> None]
        /\ requests' = [r \in Requests |-> Idle]
        /\ UNCHANGED <<rows, owner, at, jar, shown, overlap>>
    BY <1>1 DEF Restart, browser
  <2>2. /\ requests' \in [Requests -> RequestType]
        /\ \A r \in Requests : Held(requests'[r], owner)
    BY <2>1, IdleHeld
  <2>3. lapsed' \subseteq Executions  BY <2>1 DEF Started
  <2>4. Keyed(executions', owner)  BY <2>1 DEF Keyed
  <2>5. executions' \in [Sessions -> Executions \cup {None}]  BY <2>1
  <2>6. QED  BY <2>1, <2>2, <2>3, <2>4, <2>5, Setbacks DEF ExecutorInv, TypeOK
<1>2. ASSUME NEW s \in Sessions, Expire(s)  PROVE ExecutorInv'
  <2>1. /\ Setback /\ lapsed' = lapsed \cup {executions[s]} /\ executions[s] # None
        /\ executions' = [executions EXCEPT ![s] = None]
        /\ UNCHANGED <<rows, owner, at, jar, shown, requests, overlap>>
    BY <1>2 DEF Expire, browser
  <2>2. lapsed' \subseteq Executions  BY <2>1 DEF ExecutorInv, TypeOK
  <2>3. executions' \in [Sessions -> Executions \cup {None}]
    BY <2>1 DEF ExecutorInv, TypeOK
  <2>4. Keyed(executions', owner)  BY <2>1 DEF ExecutorInv, TypeOK, Keyed
  <2>5. QED  BY <2>1, <2>2, <2>3, <2>4, Setbacks DEF ExecutorInv, TypeOK
<1>3. QED  BY <1>1, <1>2

-----------------------------------------------------------------------------

\* At first nothing is cached and nothing under way.
LEMMA ExecutorStarts == Init => ExecutorInv
<1> SUFFICES ASSUME Init  PROVE ExecutorInv
  OBVIOUS
<1>1. 0 \in 0 .. MaxSessions /\ 0 \in 0 .. Entries /\ 0 \in 0 .. MaxSetbacks
  BY FlowExecutorAssumption
<1>2. requests \in [Requests -> RequestType] /\ \A r \in Requests : Held(requests[r], owner)
  BY IdleHeld DEF Init
<1>3. Keyed(executions, owner)  BY DEF Init, Keyed
<1>4. QED  BY <1>1, <1>2, <1>3, Screenful DEF Init, ExecutorInv, TypeOK

\* Every step keeps the invariant.
LEMMA ExecutorSteps == ExecutorInv /\ [Next]_vars => ExecutorInv'
<1> SUFFICES ASSUME ExecutorInv, [Next]_vars  PROVE ExecutorInv'
  OBVIOUS
<1>1. CASE UNCHANGED vars
  BY <1>1 DEF vars, ExecutorInv, TypeOK
<1>2. QED
  BY <1>1, SendStep, ReceiveStep, LoseStep, ExtractStep, FindStep, StartStep, ViewStep,
     SubmitStep, CacheStep DEF Next, Handle

\* The invariant of the cache and of what requests hold of it.
THEOREM ExecutorInvariant == Spec => []ExecutorInv
<1>1. QED  BY ExecutorStarts, ExecutorSteps, PTL DEF Spec

\* The entry of no execution leaves the flow, and every cached execution exists.
THEOREM ExecutorTyping == Spec => []TypeOK
<1>1. ExecutorInv => TypeOK  BY DEF ExecutorInv
<1>2. QED  BY <1>1, ExecutorInvariant, PTL

\* Whatever overlaps, expires or is restarted, a request handles an execution that
\* was started for its own session.
THEOREM ExecutionsAreOnesOwn == Spec => []OwnExecution
<1>1. ExecutorInv => OwnExecution  BY DEF ExecutorInv, Held, OwnExecution
<1>2. QED  BY <1>1, ExecutorInvariant, PTL

\* Only Start inserts into the cache, and only what was never started.
THEOREM NoExecutionIsRevived == Spec => NeverRevived
<1>1. ExecutorInv /\ [Next]_vars =>
        [\A e \in Started : (\E s \in Sessions : executions'[s] = e)
                               => (\E s \in Sessions : executions[s] = e)]_vars
  <2> SUFFICES ASSUME ExecutorInv, [Next]_vars, NEW e \in Started,
                      NEW s \in Sessions, executions'[s] = e
               PROVE  executions[s] = e
    OBVIOUS
  <2>1. e \in Executions /\ e # None /\ owner[e] # None
    BY Screenful DEF Started
  <2>2. CASE \E r \in Requests : Start(r)
    <3>1. PICK r \in Requests : Start(r)  BY <2>2
    <3>2. PICK f \in Executions \ Started :
            executions' = [executions EXCEPT ![requests[r].session] = f]
      BY <3>1 DEF Start, Key
    <3>3. QED  BY <3>2 DEF ExecutorInv, TypeOK
  <2>3. CASE \E r \in Requests : View(r)
    BY <2>1, <2>3 DEF View, ExecutorInv, TypeOK
  <2>4. CASE Restart \/ \E t \in Sessions : Expire(t)
    BY <2>1, <2>4 DEF Restart, Expire, ExecutorInv, TypeOK
  <2>5. CASE UNCHANGED executions  BY <2>5
  <2>6. ASSUME NEW r \in Requests,
               \/ Get(r) \/ Post(r) \/ Receive(r) \/ Lose(r) \/ Extract(r) \/ Find(r)
               \/ Submit(r) \/ Fail(r)
        PROVE  UNCHANGED executions
    BY <2>6 DEF Get, Post, Send, Receive, Lose, Extract, Find, Submit, Fail, server
  <2>7. CASE UNCHANGED vars  BY <2>7 DEF vars
  <2>8. QED  BY <2>2, <2>3, <2>4, <2>5, <2>6, <2>7 DEF Next, Handle
<1>2. QED  BY <1>1, ExecutorInvariant, PTL DEF Spec, NeverRevived


-----------------------------------------------------------------------------
(* Requests that do not overlap *)

\* An execution that a submission need not find again: completed, or taken from the
\* cache by an expiry or a restart.
Gone(e) == at[e] = Entries \/ e \in lapsed

\* Execution e is what session s finds in the cache, unless it is gone.
Current(e, s) == Gone(e) \/ (s # None /\ executions[s] = e)

\* What a request that is under way alone knows: it carries the browser's cookie and
\* has found that session, or, having none, was given a new one; the page it submits,
\* the execution it has found and the page it is answered with are current.
Orderly(x) ==
  /\ x.cookie = jar
  /\ x.pc = "sent" => ~x.new
  /\ x.new => jar = None /\ x.session \in 1 .. rows
  /\ ~x.new /\ x.session # None => x.session = jar
  /\ x.kind = "post" => x.page.screen = "page" /\ Current(x.page.exec, jar)
  /\ x.pc = "missed" => x.kind = "get" /\ executions[x.session] = None
  /\ x.pc = "found" =>
       /\ executions[x.session] \in {x.exec, None}
       /\ Current(x.exec, x.session)
       /\ x.kind = "post" => x.exec = x.page.exec \/ Gone(x.page.exec)
  /\ x.pc = "answered" /\ x.answer.screen = "page" => Current(x.answer.exec, x.session)

Alone ==
  /\ \A q, r \in Requests : requests[q].pc # "idle" /\ requests[r].pc # "idle" => q = r
  /\ jar \in 0 .. rows
  /\ lapsed \subseteq Started
  /\ shown.screen = "page" => Current(shown.exec, jar)
  /\ \A r \in Requests : requests[r].pc # "idle" => Orderly(requests[r])

\* The inductive invariant of a browser that waits for its answers.
AloneInv == ~overlap => Alone

\* A page is a page of some execution.
LEMMA PagesHaveExecutions ==
  ASSUME NEW s \in Screens, s.screen = "page"
  PROVE  s.exec \in Executions
BY DEF Screens, Page, Nothing, Redirected, Moved

\* What is gone stays so: no execution goes back and none is taken out of lapsed.
LEMMA GoneStays ==
  ASSUME ExecutorInv, lapsed \subseteq Started, [Next]_vars,
         NEW e \in Executions, Gone(e)
  PROVE  Gone(e)'
<1>1. ASSUME NEW r \in Requests, Submit(r) \/ Fail(r)  PROVE Gone(e)'
  <2>1. UNCHANGED lapsed  BY <1>1 DEF Submit, Fail
  <2>2. CASE UNCHANGED at  BY <2>1, <2>2 DEF Gone
  <2>3. ASSUME NEW f \in Executions, NEW i \in Advances(at[f]), at' = [at EXCEPT ![f] = i]
        PROVE  Gone(e)'
    BY <2>1, <2>3 DEF Gone, Advances, ExecutorInv, TypeOK
  <2>4. requests[r].pc = "found" => requests[r].exec \in Executions
    BY DEF ExecutorInv, Held
  <2>5. QED  BY <1>1, <2>2, <2>3, <2>4 DEF Submit, Fail
<1>2. CASE Restart  BY <1>2 DEF Restart, Gone
<1>3. ASSUME NEW s \in Sessions, Expire(s)  PROVE Gone(e)'
  BY <1>3 DEF Expire, Gone
<1>4. ASSUME NEW r \in Requests,
             \/ Get(r) \/ Post(r) \/ Receive(r) \/ Lose(r) \/ Extract(r) \/ Find(r)
             \/ Start(r) \/ View(r)
      PROVE  UNCHANGED <<at, lapsed>>
  BY <1>4 DEF Get, Post, Send, Receive, Lose, Extract, Find, Start, View, server
<1>5. CASE UNCHANGED vars  BY <1>5 DEF vars, Gone
<1>6. QED  BY <1>1, <1>2, <1>3, <1>4, <1>5 DEF Next, Handle, Gone

\* The request under way is the only one that a step has to answer for.
LEMMA OneUnderWay ==
  ASSUME NEW r \in Requests,
         \A q \in Requests \ {r} : requests[q].pc = "idle" /\ requests'[q] = requests[q],
         jar' \in 0 .. rows', lapsed' \subseteq Started',
         shown'.screen = "page" => Current(shown.exec, jar)',
         requests'[r].pc # "idle" => Orderly(requests[r])'
  PROVE  Alone'
BY DEF Alone

\* What a request keeps from its sending to its answer.
Carried(r) ==
  /\ requests'[r].cookie = requests[r].cookie /\ requests'[r].kind = requests[r].kind
  /\ requests'[r].page = requests[r].page
  /\ \A q \in Requests \ {r} : requests'[q] = requests[q]

\* A handler's step changes neither the browser nor an execution's owner, and what
\* the browser shows stays current as long as its session finds what it found.
LEMMA HandlerAlone ==
  ASSUME ExecutorInv, Alone, [Next]_vars, NEW r \in Requests, requests[r].pc # "idle",
         \A q \in Requests \ {r} : requests'[q] = requests[q],
         UNCHANGED <<jar, shown, lapsed>>, rows' \in Nat, rows <= rows',
         Started \subseteq Started',
         \A e \in Executions : Current(e, jar) => Current(e, jar)',
         requests'[r].pc # "idle" => Orderly(requests[r])'
  PROVE  Alone'
<1>1. \A q \in Requests \ {r} : requests[q].pc = "idle" /\ requests'[q] = requests[q]
  BY DEF Alone
<1>2. shown.screen = "page" => Current(shown.exec, jar)'
  BY PagesHaveExecutions DEF Alone, ExecutorInv, TypeOK
<1>3. jar' \in 0 .. rows' /\ lapsed' \subseteq Started'
  BY DEF Alone, ExecutorInv, TypeOK
<1>4. QED  BY <1>1, <1>2, <1>3, OneUnderWay

-----------------------------------------------------------------------------

\* A request is sent with the browser's cookie and, if it submits one, its page.
LEMMA SendAlone ==
  ASSUME ExecutorInv, Alone, NEW r \in Requests, Get(r) \/ Post(r), ~overlap'
  PROVE  Alone'
<1>1. PICK kind \in {"get", "post"}, page \in Screens :
        /\ Send(r, kind, page)
        /\ kind = "post" => page = shown /\ shown.screen = "page"
  BY Screenful DEF Get, Post, ExecutorInv, TypeOK
<1>2. PICK next \in NextGiven :
        requests' = [requests EXCEPT ![r] =
          [Idle EXCEPT !.pc = "sent", !.kind = kind, !.cookie = jar, !.page = page, !.next = next]]
  BY <1>1 DEF Send
<1>3. /\ requests'[r].pc = "sent" /\ requests'[r].kind = kind /\ requests'[r].cookie = jar
      /\ requests'[r].page = page /\ ~requests'[r].new /\ requests'[r].session = None
      /\ \A q \in Requests \ {r} : requests'[q] = requests[q]
  BY <1>2 DEF Idle, ExecutorInv, TypeOK
<1>4. UNCHANGED <<rows, executions, owner, at, lapsed, jar, shown>>
  BY <1>1 DEF Send, server, browser
<1>5. \A q \in Requests : requests[q].pc = "idle"
  BY <1>1 DEF Send, UnderWay
<1>6. Orderly(requests[r])'
  BY <1>1, <1>3, <1>4 DEF Orderly, Alone, Current, Gone
<1>7. /\ jar' \in 0 .. rows' /\ lapsed' \subseteq Started'
      /\ shown'.screen = "page" => Current(shown.exec, jar)'
  BY <1>4 DEF Alone, Started, Current, Gone
<1>8. QED  BY <1>3, <1>5, <1>6, <1>7, OneUnderWay

\* The answer is shown with the session it is about: the browser's own, or the one
\* it is given now.
LEMMA ReceiveAlone ==
  ASSUME ExecutorInv, Alone, NEW r \in Requests, Receive(r)
  PROVE  Alone' /\ (jar # None => jar' = jar)
<1> DEFINE req == requests[r]
           cookie == IF req.new THEN req.session ELSE jar
<1>1. /\ req.pc = "answered" /\ req \in RequestType /\ jar' = cookie
      /\ UNCHANGED <<rows, executions, owner, at, lapsed>>
  BY DEF Receive, server, ExecutorInv, TypeOK
<1>2. Orderly(req)  BY <1>1 DEF Alone
<1>3. /\ jar' \in 0 .. rows' /\ lapsed' \subseteq Started'
      /\ jar # None => jar' = jar
  BY <1>1, <1>2 DEF Orderly, Alone, Started, ExecutorInv, TypeOK
<1>4. ASSUME NEW e, Current(e, jar)  PROVE Current(e, jar)'
  BY <1>1, <1>3, <1>4 DEF Current, Gone
<1>5. ASSUME NEW e, req.answer.screen = "page", e = req.answer.exec
      PROVE  Current(e, jar)'
  BY <1>1, <1>2, <1>5 DEF Orderly, Current, Gone
<1>6. CASE /\ requests' = [requests EXCEPT ![r] =
                [Idle EXCEPT !.pc = "sent", !.cookie = cookie, !.next = req.next]]
           /\ UNCHANGED shown
  <2>1. /\ requests'[r].pc = "sent" /\ requests'[r].kind = "get"
        /\ requests'[r].cookie = jar' /\ ~requests'[r].new /\ requests'[r].session = None
        /\ \A q \in Requests \ {r} : requests'[q] = requests[q] /\ requests[q].pc = "idle"
    BY <1>1, <1>6 DEF Idle, Alone, ExecutorInv, TypeOK
  <2>2. Orderly(requests[r])'  BY <2>1 DEF Orderly
  <2>3. shown'.screen = "page" => Current(shown.exec, jar)'
    BY <1>4, <1>6 DEF Alone
  <2>4. QED  BY <1>3, <2>1, <2>2, <2>3, OneUnderWay
<1>7. CASE requests' = [requests EXCEPT ![r] = Idle] /\ shown' = req.answer
  <2>1. /\ requests'[r].pc = "idle"
        /\ \A q \in Requests \ {r} : requests'[q] = requests[q] /\ requests[q].pc = "idle"
    BY <1>1, <1>7 DEF Idle, Alone, ExecutorInv, TypeOK
  <2>2. shown'.screen = "page" => Current(shown.exec, jar)'
    BY <1>5, <1>7
  <2>3. QED  BY <1>3, <2>1, <2>2, OneUnderWay
<1>8. QED  BY <1>6, <1>7 DEF Receive

\* The browser that loses a request still shows what it showed.
LEMMA LoseAlone ==
  ASSUME ExecutorInv, Alone, [Next]_vars, NEW r \in Requests, Lose(r)
  PROVE  Alone'
<1>1. /\ requests[r].pc # "idle" /\ requests' = [requests EXCEPT ![r] = Idle]
      /\ UNCHANGED <<rows, executions, owner, at, lapsed, jar, shown>>
  BY DEF Lose, server, browser
<1>2. requests'[r].pc = "idle" /\ \A q \in Requests \ {r} : requests'[q] = requests[q]
  BY <1>1 DEF Idle, ExecutorInv, TypeOK
<1>3. /\ \A e \in Executions : Current(e, jar) => Current(e, jar)'
      /\ Started \subseteq Started' /\ rows' \in Nat /\ rows <= rows'
  BY <1>1 DEF Current, Gone, Started, ExecutorInv, TypeOK
<1>4. QED  BY <1>1, <1>2, <1>3, HandlerAlone

\* A request with the cookie of a row has that session, one without is given another.
LEMMA ExtractAlone ==
  ASSUME ExecutorInv, Alone, [Next]_vars, NEW r \in Requests, Extract(r)
  PROVE  Alone'
<1> DEFINE req == requests[r]
<1>1. /\ req.pc = "sent" /\ req \in RequestType
      /\ UNCHANGED <<executions, owner, at, lapsed, jar, shown>>
      /\ rows \in Nat /\ jar \in 0 .. rows
  BY DEF Extract, browser, ExecutorInv, TypeOK, Alone
<1>2. Orderly(req) /\ req.cookie = jar /\ ~req.new  BY <1>1 DEF Alone, Orderly
<1>3. /\ \A e \in Executions : Current(e, jar) => Current(e, jar)'
      /\ Started \subseteq Started'
  BY <1>1 DEF Current, Gone, Started
<1>4. ASSUME Carried(r), requests'[r].pc = "keyed", rows' \in Nat, rows <= rows',
             LET x == requests'[r]
             IN  \/ x.new /\ jar = None /\ x.session \in 1 .. rows'
                 \/ ~x.new /\ x.session = jar
      PROVE  Alone'
  <2>1. req.kind = "post" => req.page.screen = "page" /\ req.page.exec \in Executions
                             /\ Current(req.page.exec, jar)
    BY <1>1, <1>2, PagesHaveExecutions DEF Orderly, RequestType
  <2>2. Orderly(requests[r])'  BY <1>1, <1>2, <1>3, <1>4, <2>1 DEF Orderly, Carried
  <2>3. QED  BY <1>1, <1>3, <1>4, <2>2, HandlerAlone DEF Carried
<1>5. CASE /\ req.cookie \in 1 .. rows /\ UNCHANGED rows
           /\ requests' = [requests EXCEPT ![r].pc = "keyed", ![r].session = req.cookie]
  <2>1. /\ Carried(r) /\ requests'[r].pc = "keyed"
        /\ ~requests'[r].new /\ requests'[r].session = jar
    BY <1>1, <1>2, <1>5 DEF Carried, ExecutorInv, TypeOK, RequestType
  <2>2. QED  BY <1>1, <1>4, <1>5, <2>1
<1>6. CASE /\ req.cookie \notin 1 .. rows /\ rows' = rows + 1
           /\ requests' = [requests EXCEPT ![r].pc = "keyed", ![r].session = rows + 1,
                                           ![r].new = TRUE]
  <2>1. /\ Carried(r) /\ requests'[r].pc = "keyed"
        /\ requests'[r].new /\ requests'[r].session = rows + 1
    BY <1>1, <1>2, <1>6 DEF Carried, ExecutorInv, TypeOK, RequestType
  <2>2. jar = None /\ rows + 1 \in 1 .. rows' /\ rows' \in Nat /\ rows <= rows'
    BY <1>1, <1>2, <1>6 DEF None
  <2>3. QED  BY <1>4, <2>1, <2>2
<1>7. QED  BY <1>5, <1>6 DEF Extract

\* A submission finds the execution of its page unless that is gone: the page is
\* current for the browser's session, and that is the session of the request.
LEMMA FindAlone ==
  ASSUME ExecutorInv, Alone, [Next]_vars, NEW r \in Requests, Find(r)
  PROVE  Alone'
<1> DEFINE req == requests[r]
           hit == executions[req.session]
<1>1. /\ req.pc = "keyed" /\ req \in RequestType /\ req.session \in Sessions
      /\ UNCHANGED <<rows, executions, owner, at, lapsed, jar, shown>>
      /\ rows \in Nat /\ req.session # None
  BY Screenful DEF Find, server, browser, ExecutorInv, Held, TypeOK
<1>2. Orderly(req)  BY <1>1 DEF Alone
<1>3. Orderly(requests[r])' => Alone'
  <2>1. \A q \in Requests \ {r} : requests'[q] = requests[q]
    BY DEF Find, ExecutorInv, TypeOK
  <2>2. /\ \A e \in Executions : Current(e, jar) => Current(e, jar)'
        /\ Started \subseteq Started'
    BY <1>1 DEF Current, Gone, Started
  <2>3. QED  BY <1>1, <2>1, <2>2, HandlerAlone
<1>4. CASE hit # None /\ requests' = [requests EXCEPT ![r].pc = "found", ![r].exec = hit]
  <2>1. /\ Carried(r) /\ requests'[r].pc = "found" /\ requests'[r].exec = hit
        /\ requests'[r].new = req.new /\ requests'[r].session = req.session
    BY <1>1, <1>4 DEF Carried, ExecutorInv, TypeOK, RequestType
  <2>2. req.kind = "post" => hit = req.page.exec \/ Gone(req.page.exec)
    BY <1>1, <1>2 DEF Orderly, Current
  <2>3. Orderly(requests[r])'
    BY <1>1, <1>2, <2>1, <2>2 DEF Orderly, Carried, Current, Gone
  <2>4. QED  BY <1>3, <2>3
<1>5. CASE /\ hit = None /\ req.kind = "get"
           /\ requests' = [requests EXCEPT ![r].pc = "missed"]
  <2>1. /\ Carried(r) /\ requests'[r].pc = "missed"
        /\ requests'[r].new = req.new /\ requests'[r].session = req.session
    BY <1>1, <1>5 DEF Carried, ExecutorInv, TypeOK, RequestType
  <2>2. Orderly(requests[r])'  BY <1>1, <1>2, <1>5, <2>1 DEF Orderly, Carried
  <2>3. QED  BY <1>3, <2>2
<1>6. CASE requests' = [requests EXCEPT ![r].pc = "answered", ![r].answer = Nothing]
  <2>1. /\ Carried(r) /\ requests'[r].pc = "answered" /\ requests'[r].answer = Nothing
        /\ requests'[r].new = req.new /\ requests'[r].session = req.session
    BY <1>1, <1>6 DEF Carried, ExecutorInv, TypeOK, RequestType
  <2>2. Orderly(requests[r])'
    BY <1>1, <1>2, <2>1 DEF Orderly, Carried, Current, Gone, Nothing
  <2>3. QED  BY <1>3, <2>2
<1>7. QED  BY <1>4, <1>5, <1>6 DEF Find, Key

\* An execution is started only where the session's key is free, so that nothing
\* current is put over.
LEMMA StartAlone ==
  ASSUME ExecutorInv, Alone, [Next]_vars, NEW r \in Requests, Start(r)
  PROVE  Alone'
<1> DEFINE req == requests[r]
<1>1. /\ req.pc = "missed" /\ req \in RequestType /\ req.session \in Sessions
      /\ UNCHANGED <<rows, at, lapsed, jar, shown>>
      /\ rows \in Nat /\ req.session # None
  BY Screenful DEF Start, browser, ExecutorInv, Held, TypeOK
<1>2. Orderly(req) /\ executions[req.session] = None /\ req.kind = "get"
  BY <1>1 DEF Alone, Orderly
<1>3. PICK e \in Executions \ Started :
        /\ owner' = [owner EXCEPT ![e] = req.session]
        /\ executions' = [executions EXCEPT ![req.session] = e]
        /\ requests' = [requests EXCEPT ![r].pc = "found", ![r].exec = e]
  BY DEF Start, Key
<1>4. /\ Carried(r) /\ requests'[r].pc = "found" /\ requests'[r].exec = e
      /\ requests'[r].new = req.new /\ requests'[r].session = req.session
  BY <1>1, <1>3 DEF Carried, ExecutorInv, TypeOK, RequestType
<1>5. executions'[req.session] = e
  BY <1>1, <1>3 DEF ExecutorInv, TypeOK
<1>6. Started \subseteq Started'
  BY <1>1, <1>3 DEF Started, ExecutorInv, TypeOK
<1>7. ASSUME NEW f \in Executions, Current(f, jar)  PROVE Current(f, jar)'
  <2>1. CASE Gone(f)  BY <1>1, <2>1 DEF Current, Gone
  <2>2. CASE ~Gone(f)
    <3>1. jar # None /\ executions[jar] = f /\ jar # req.session
      BY <1>2, <1>7, <2>2, Screenful DEF Current
    <3>2. executions'[jar] = executions[jar]
      BY <1>1, <1>3, <3>1 DEF ExecutorInv, TypeOK
    <3>3. QED  BY <1>1, <3>1, <3>2 DEF Current
  <2>3. QED  BY <2>1, <2>2
<1>8. Orderly(requests[r])'
  BY <1>1, <1>2, <1>4, <1>5 DEF Orderly, Carried, Current
<1>9. QED  BY <1>1, <1>4, <1>6, <1>7, <1>8, HandlerAlone DEF Carried

\* A completed execution that leads on leaves the cache under the key it was found
\* under: nothing else is there.
LEMMA ViewAlone ==
  ASSUME ExecutorInv, Alone, [Next]_vars, NEW r \in Requests, View(r)
  PROVE  Alone'
<1> DEFINE req == requests[r]
           done == at[req.exec] = Entries
           screen == IF ~done THEN Page(req.exec, at[req.exec])
                     ELSE IF req.next THEN Redirected ELSE Nothing
<1>1. /\ req.pc = "found" /\ req \in RequestType
      /\ req.session \in Sessions /\ req.exec \in Executions
      /\ UNCHANGED <<rows, owner, at, lapsed, jar, shown>>
      /\ rows \in Nat /\ req.session # None
      /\ requests' = [requests EXCEPT ![r].pc = "answered", ![r].answer = screen]
      /\ executions' = IF done /\ req.next THEN [executions EXCEPT ![req.session] = None]
                       ELSE executions
  BY Screenful DEF View, browser, ExecutorInv, Held, TypeOK, Key
<1>2. /\ Orderly(req) /\ executions[req.session] \in {req.exec, None}
      /\ Current(req.exec, req.session)
  BY <1>1 DEF Alone, Orderly
<1>3. /\ Carried(r) /\ requests'[r].pc = "answered" /\ requests'[r].answer = screen
      /\ requests'[r].new = req.new /\ requests'[r].session = req.session
  BY <1>1 DEF Carried, ExecutorInv, TypeOK, RequestType
<1>4. \A e : Gone(e) => Gone(e)'  BY <1>1 DEF Gone
<1>5. ASSUME NEW e \in Executions, NEW s \in Sessions \cup {None}, Current(e, s)
      PROVE  Gone(e)' \/ (s # None /\ executions'[s] = e)
  <2>1. CASE Gone(e)  BY <1>4, <2>1
  <2>2. CASE ~Gone(e)
    <3>1. s \in Sessions /\ s # None /\ executions[s] = e  BY <1>5, <2>2 DEF Current
    <3>2. CASE s = req.session /\ done
      <4>1. e = req.exec  BY <1>2, <3>1, <3>2, Screenful
      <4>2. QED  BY <2>2, <3>2, <4>1 DEF Gone
    <3>3. CASE ~(s = req.session /\ done)
      BY <1>1, <3>1, <3>3 DEF ExecutorInv, TypeOK
    <3>4. QED  BY <3>2, <3>3
  <2>3. QED  BY <2>1, <2>2
<1>6. \A e \in Executions : Current(e, jar) => Current(e, jar)'
  BY <1>1, <1>5 DEF Current, ExecutorInv, TypeOK
<1>7. screen.screen = "page" => screen.exec = req.exec /\ ~done
  BY DEF Page, Nothing, Redirected
<1>8. Orderly(requests[r])'
  <2>1. req.kind = "post" =>
          /\ req.page.screen = "page" /\ req.page.exec \in Executions
          /\ Current(req.page.exec, jar)
    BY <1>1, <1>2, PagesHaveExecutions DEF Orderly, RequestType
  <2>2. ASSUME NEW e \in Executions, e = req.exec, ~done
        PROVE  Gone(e)' \/ executions'[req.session] = e
    BY <1>1, <1>2, <1>5, <2>2
  <2> HIDE DEF screen
  <2>3. ASSUME requests'[r].answer.screen = "page"
        PROVE  Current(requests[r].answer.exec, requests[r].session)'
    <3>1. requests'[r].answer.exec = req.exec /\ ~done  BY <1>3, <1>7, <2>3
    <3>2. QED  BY <1>1, <1>3, <2>2, <3>1 DEF Current
  <2>4. QED  BY <1>1, <1>2, <1>3, <1>6, <2>1, <2>3 DEF Orderly, Carried
<1>9. /\ Started \subseteq Started' /\ rows' \in Nat /\ rows <= rows'
      /\ UNCHANGED <<jar, shown, lapsed>> /\ req.pc # "idle"
      /\ \A q \in Requests \ {r} : requests'[q] = requests[q]
  <2>1. Started \subseteq Started' /\ rows' \in Nat /\ rows <= rows'
    BY DEF View, browser, Started, ExecutorInv, TypeOK
  <2>2. UNCHANGED <<jar, shown, lapsed>> /\ req.pc # "idle"
    BY DEF View, browser
  <2>3. \A q \in Requests \ {r} : requests'[q] = requests[q]
    BY <1>3 DEF Carried
  <2>4. QED  BY <2>1, <2>2, <2>3
<1>10. QED  BY <1>6, <1>8, <1>9, HandlerAlone

\* A submission is answered with a redirect or an error, never with a page; at most
\* its execution has gone on.
LEMMA SubmitAlone ==
  ASSUME ExecutorInv, Alone, [Next]_vars, NEW r \in Requests, Submit(r) \/ Fail(r)
  PROVE  Alone'
<1> DEFINE req == requests[r]
<1>1. /\ req.pc # "idle" /\ req \in RequestType
      /\ UNCHANGED <<rows, executions, owner, lapsed, jar, shown>>
      /\ rows \in Nat
  BY DEF Submit, Fail, browser, ExecutorInv, TypeOK
<1>2. PICK screen \in {Moved, Nothing} :
        requests' = [requests EXCEPT ![r].pc = "answered", ![r].answer = screen]
  BY DEF Submit, Fail
<1>3. /\ Carried(r) /\ requests'[r].pc = "answered" /\ requests'[r].answer = screen
      /\ requests'[r].new = req.new /\ requests'[r].session = req.session
  BY <1>1, <1>2 DEF Carried, ExecutorInv, TypeOK, RequestType
<1>4. Orderly(req) /\ lapsed \subseteq Started  BY <1>1 DEF Alone
<1>5. \A e \in Executions : Gone(e) => Gone(e)'  BY <1>4, GoneStays
<1>6. \A e \in Executions : Current(e, jar) => Current(e, jar)'
  BY <1>1, <1>5 DEF Current
<1>7. req.kind = "post" =>
        /\ req.page.screen = "page" /\ req.page.exec \in Executions
        /\ Current(req.page.exec, jar)
  BY <1>1, <1>4, PagesHaveExecutions DEF Orderly, RequestType
<1>8. screen.screen # "page"  BY DEF Moved, Nothing
<1>9. Orderly(requests[r])'
  BY <1>1, <1>3, <1>4, <1>6, <1>7, <1>8 DEF Orderly, Carried
<1>10. Started \subseteq Started'  BY <1>1 DEF Started
<1>11. QED  BY <1>1, <1>3, <1>6, <1>9, <1>10, HandlerAlone DEF Carried

\* What expires or is taken by a restart is gone for whoever still shows it.
LEMMA CacheAlone ==
  ASSUME ExecutorInv, Alone, [Next]_vars, Restart \/ \E s \in Sessions : Expire(s)
  PROVE  Alone'
<1>1. \A s \in Sessions : executions[s] # None =>
        executions[s] \in Started /\ owner[executions[s]] = s
  BY Screenful DEF ExecutorInv, TypeOK, Keyed, Started
<1>2. \A e \in Executions : Gone(e) => Gone(e)'  BY GoneStays DEF Alone
<1>3. UNCHANGED <<rows, owner, at, jar, shown>> /\ jar \in Sessions \cup {None}
  BY DEF Restart, Expire, browser, ExecutorInv, TypeOK
<1>4. CASE Restart
  <2>1. lapsed' = Started /\ \A r \in Requests : requests'[r].pc = "idle"
    BY <1>4 DEF Restart, Idle
  <2>2. ASSUME NEW e \in Executions, Current(e, jar)  PROVE Current(e, jar)'
    <3>1. CASE Gone(e)  BY <1>2, <3>1 DEF Current
    <3>2. CASE jar # None /\ executions[jar] = e
      <4>1. e \in lapsed'  BY <1>1, <1>3, <2>1, <3>2, Screenful
      <4>2. QED  BY <4>1 DEF Current, Gone
    <3>3. QED  BY <2>2, <3>1, <3>2 DEF Current
  <2>3. shown'.screen = "page" => Current(shown.exec, jar)'
    BY <1>3, <2>2, PagesHaveExecutions DEF Alone, ExecutorInv, TypeOK
  <2>4. jar' \in 0 .. rows' /\ lapsed' \subseteq Started'
    BY <1>3, <2>1 DEF Alone, Started
  <2>5. QED  BY <2>1, <2>3, <2>4 DEF Alone
<1>5. ASSUME NEW s \in Sessions, Expire(s)  PROVE Alone'
  <2>1. /\ executions[s] # None /\ lapsed' = lapsed \cup {executions[s]}
        /\ executions' = [executions EXCEPT ![s] = None] /\ UNCHANGED requests
    BY <1>5 DEF Expire
  <2>2. ASSUME NEW e \in Executions, NEW t \in Sessions \cup {None}, Current(e, t)
        PROVE  Gone(e)' \/ (t # None /\ executions'[t] = e)
    BY <1>2, <2>1, <2>2, Screenful DEF Current, Gone, ExecutorInv, TypeOK
  <2>3. \A e \in Executions : Current(e, jar) => Current(e, jar)'
    BY <1>3, <2>2 DEF Current
  <2>4. shown'.screen = "page" => Current(shown.exec, jar)'
    BY <1>3, <2>3, PagesHaveExecutions DEF Alone, ExecutorInv, TypeOK
  <2>5. lapsed' \subseteq Started'
    BY <1>1, <1>3, <2>1 DEF Alone, Started
  <2>6. ASSUME NEW r \in Requests, requests[r].pc # "idle"
        PROVE  Orderly(requests[r])'
    <3> DEFINE req == requests[r]
    <3>1. req \in RequestType /\ Held(req, owner) /\ Orderly(req)
      BY <2>6 DEF ExecutorInv, TypeOK, Alone
    <3>2. req.kind = "post" =>
            /\ req.page.screen = "page" /\ req.page.exec \in Executions
            /\ Current(requests[r].page.exec, jar)'
      BY <2>1, <2>3, <3>1, PagesHaveExecutions DEF Orderly, RequestType
    <3>3. req.pc = "missed" => executions'[req.session] = None
      BY <2>1, <3>1 DEF Held, Orderly, ExecutorInv, TypeOK
    <3>4. req.pc = "found" => executions'[req.session] \in {req.exec, None}
      BY <2>1, <3>1 DEF Held, Orderly, ExecutorInv, TypeOK
    <3>5. req.pc = "found" => Current(requests[r].exec, requests[r].session)'
      BY <2>1, <2>2, <3>1 DEF Held, Orderly, Current
    <3>6. req.pc = "answered" /\ req.answer.screen = "page" =>
            Current(requests[r].answer.exec, requests[r].session)'
      <4>1. req.answer \in Screens /\ req.session \in Sessions \cup {None}
        BY <3>1 DEF RequestType
      <4>2. QED  BY <2>1, <2>2, <3>1, <4>1, PagesHaveExecutions DEF Orderly, Current
    <3>7. req.pc = "found" /\ req.kind = "post" =>
            req.exec = req.page.exec \/ Gone(requests[r].page.exec)'
      <4>1. req.page \in Screens  BY <3>1 DEF RequestType
      <4>2. QED  BY <1>2, <2>1, <3>1, <4>1, PagesHaveExecutions DEF Orderly, Gone
    <3>8. QED
      BY <1>3, <2>1, <3>1, <3>2, <3>3, <3>4, <3>5, <3>6, <3>7 DEF Orderly
  <2>7. QED  BY <1>3, <2>1, <2>4, <2>5, <2>6 DEF Alone
<1>6. QED  BY <1>4, <1>5

\* A browser without a cookie shows nothing.
LEMMA AloneStarts == Init => AloneInv
<1> SUFFICES ASSUME Init  PROVE Alone
  BY DEF AloneInv
<1>1. rows = 0 /\ jar = 0 /\ shown.screen # "page" /\ lapsed = {}
  BY DEF Init, None, Nothing
<1>2. \A r \in Requests : requests[r].pc = "idle"  BY DEF Init, Idle
<1>3. QED  BY <1>1, <1>2 DEF Alone

\* Every step keeps what the browser shows, sends and is answered current.
LEMMA AloneSteps ==
  ASSUME ExecutorInv, AloneInv, [Next]_vars
  PROVE  AloneInv'
<1> SUFFICES ASSUME ~overlap'  PROVE Alone'
  BY DEF AloneInv
<1>1. ~overlap
  <2>1. ASSUME NEW r \in Requests, Get(r) \/ Post(r)  PROVE ~overlap
    BY <2>1 DEF Get, Post, Send
  <2>2. CASE UNCHANGED overlap  BY <2>2
  <2>3. ASSUME NEW r \in Requests, Receive(r) \/ Lose(r) \/ Handle(r) \/ Fail(r)
        PROVE  UNCHANGED overlap
    BY <2>3 DEF Receive, Lose, Handle, Extract, Find, Start, View, Submit, Fail
  <2>4. QED  BY <2>1, <2>2, <2>3 DEF Next, Expire, Restart, vars
<1>2. Alone  BY <1>1 DEF AloneInv
<1>3. CASE UNCHANGED vars
  BY <1>2, <1>3 DEF vars, Alone, Started, Orderly, Current, Gone
<1>4. QED
  BY <1>2, <1>3, SendAlone, ReceiveAlone, LoseAlone, ExtractAlone, FindAlone, StartAlone,
     ViewAlone, SubmitAlone, CacheAlone DEF Next, Handle

\* The invariant of a browser whose requests do not overlap: the page it shows belongs
\* to what its session finds in the cache, or to an execution that is gone.
THEOREM AloneInvariant == Spec => [](ExecutorInv /\ AloneInv)
<1>1. QED  BY ExecutorInvariant, AloneStarts, AloneSteps, PTL DEF Spec

\* A form is handled by the execution whose page it was, through losses, expiries and
\* restarts and for any number of sessions and executions, unless that execution was
\* completed or has lapsed: get_execution finds by session and flow alone.
THEOREM FormsReachTheirExecution == Spec => []SubmittedToItsExecution
<1>1. ExecutorInv /\ AloneInv => SubmittedToItsExecution
  BY DEF AloneInv, Alone, Orderly, Gone, SubmittedToItsExecution
<1>2. QED  BY <1>1, AloneInvariant, PTL

\* A browser that has a cookie keeps its session, whatever is lost and restarted: the
\* extractor makes a new session only for a cookie without a row, and rows stay.
THEOREM SessionsStick == Spec => SessionSticks
<1>1. ExecutorInv /\ AloneInv /\ [Next]_vars =>
        [jar # None /\ ~overlap' => jar' = jar]_vars
  <2> SUFFICES ASSUME ExecutorInv, AloneInv, [Next]_vars, jar # None, ~overlap'
               PROVE  jar' = jar
    OBVIOUS
  <2>1. ASSUME NEW r \in Requests, Receive(r)  PROVE jar' = jar
    <3>1. ~overlap  BY <2>1 DEF Receive
    <3>2. QED  BY <2>1, <3>1, ReceiveAlone DEF AloneInv
  <2>2. ASSUME NEW r \in Requests, Get(r) \/ Post(r) \/ Lose(r) \/ Handle(r) \/ Fail(r)
        PROVE  jar' = jar
    BY <2>2 DEF Get, Post, Send, Lose, Handle, Extract, Find, Start, View, Submit, Fail,
                browser
  <2>3. QED  BY <2>1, <2>2 DEF Next, Expire, Restart, vars, browser
<1>2. QED  BY <1>1, AloneInvariant, PTL DEF Spec, SessionSticks
=============================================================================
