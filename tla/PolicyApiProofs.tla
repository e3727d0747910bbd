---------------------------- MODULE PolicyApiProofs ----------------------------
(***************************************************************************)
(* Every safety property of PolicyApi, for any number of requests, slugs,    *)
(* connections and uids.  One invariant carries them: what a request's        *)
(* record says at each program point (Kept), with respect to rows that only   *)
(* ever grow.  The bound of the pool is an invariant of its own, and so is    *)
(* TableInv, by which creations implement PolicyTable: what handlers have     *)
(* inserted but not committed is theirs alone.                               *)
(***************************************************************************)
EXTENDS PolicyApi, FiniteSetTheorems, TLAPS

\* Facts of one request's record, given the committed rows.
Created(req, rows) ==
  /\ req.pc \in {"body", "insert"} \cup Writing => req.op \in Create
  /\ req.op \in Create => req.slug \in Slugs
  /\ req.pc \in Writing => req.uid \in Uids
  /\ req.pc = "commit" => req.detail

Answered(req, rows) ==
  /\ req.pc # "answered" => req.answer = "none"
  /\ req.answer = "created" => [uid |-> req.uid, slug |-> req.slug, detail |-> req.detail] \in rows
  /\ req.answer = "conflict" => \E p \in rows : p.slug = req.slug

Listed(req, rows) ==
  /\ req.refs \subseteq Uid(rows)
  /\ req.found \subseteq Uid(rows)
  /\ req.known \subseteq Uid(rows)
  /\ req.op = "list" /\ (req.pc = "lookup" \/ req.answer = "found")
       => req.skipped \/ req.known \subseteq req.found \cup req.refs
  /\ req.answer = "found" => req.refs = {}

Kept(req, rows) == Created(req, rows) /\ Answered(req, rows) /\ Listed(req, rows)

Rows(rows) == rows \subseteq Policies /\ \A p \in rows : p.detail

Inv ==
  /\ Rows(policies) /\ Rows(unsettled)
  /\ serial \in 0 .. MaxUid
  /\ cached \subseteq Uids
  /\ requests \in [Requests -> RequestType]
  /\ \A r \in Requests : Kept(requests[r], policies)

-----------------------------------------------------------------------------
(* Rows that are added disturb no record *)

\* What is kept of a record is still so when rows are added.
LEMMA KeptGrows ==
  ASSUME NEW req, NEW rows, NEW more, Kept(req, rows)
  PROVE  Kept(req, rows \cup more)
<1>1. Uid(rows) \subseteq Uid(rows \cup more)
  BY DEF Uid
<1> QED
  BY <1>1 DEF Kept, Created, Answered, Listed

\* One request's record changes, and rows are added.
LEMMA RequestStep ==
  ASSUME Inv, NEW r \in Requests, NEW req \in RequestType, NEW more,
         requests' = [requests EXCEPT ![r] = req],
         policies' = policies \cup more, Rows(more), Rows(unsettled'),
         serial' \in 0 .. MaxUid, cached' \subseteq Uids,
         Kept(req, policies \cup more)
  PROVE  Inv'
<1>1. Rows(policies')
  BY DEF Inv, Rows
<1>2. requests' \in [Requests -> RequestType]
  BY DEF Inv
<1>3. \A q \in Requests : Kept(requests'[q], policies')
  <2> SUFFICES ASSUME NEW q \in Requests PROVE Kept(requests'[q], policies')
    OBVIOUS
  <2>1. CASE q = r
    BY <2>1 DEF Inv
  <2>2. CASE q # r
    BY <2>2, KeptGrows DEF Inv
  <2> QED
    BY <2>1, <2>2
<1> QED
  BY <1>1, <1>2, <1>3 DEF Inv

\* The same when no row is added.
LEMMA RequestOnlyStep ==
  ASSUME Inv, NEW r \in Requests, NEW req \in RequestType,
         requests' = [requests EXCEPT ![r] = req],
         UNCHANGED policies, Rows(unsettled'),
         serial' \in 0 .. MaxUid, cached' \subseteq Uids,
         Kept(req, policies)
  PROVE  Inv'
<1>1. /\ policies' = policies \cup {}
      /\ Rows({})
      /\ Kept(req, policies \cup {})
  BY DEF Rows
<1> QED
  BY <1>1, RequestStep

\* A request that is not sent promises nothing.
LEMMA UnsentKept ==
  ASSUME NEW rows
  PROVE  Unsent \in RequestType /\ Kept(Unsent, rows)
BY PolicyApiAssumption
   DEF Unsent, RequestType, Kept, Created, Answered, Listed, Uid, Create, Writing, Uids, Holding

-----------------------------------------------------------------------------
(* The initial states and each action *)

\* The invariant holds when the server starts, with or without a policy.
LEMMA InitInv == Init => Inv
<1> SUFFICES ASSUME Init PROVE Inv
  OBVIOUS
<1>1. Rows(policies) /\ Rows(unsettled)
  BY DEF Init, Rows
<1>2. serial \in 0 .. MaxUid
  <2>1. CASE policies = {}
    BY <2>1, FS_EmptySet, PolicyApiAssumption DEF Init
  <2>2. CASE policies # {}
    <3>1. PICK p \in Policies : p.uid = 1 /\ policies = {p}
      BY <2>2 DEF Init
    <3>2. Cardinality(policies) = 1
      BY <3>1, FS_Singleton
    <3> QED
      BY <3>1, <3>2, PolicyApiAssumption DEF Init, Policies, Uids
  <2> QED
    BY <2>1, <2>2
<1>3. cached \subseteq Uids
  BY <1>1 DEF Init, Rows, Uid, Policies
<1>4. \A r \in Requests : requests[r] = Unsent
  BY DEF Init
<1> QED
  BY <1>1, <1>2, <1>3, <1>4, UnsentKept DEF Inv, Init

\* A request of any kind is sent with its promises kept.
LEMMA SendInv ==
  ASSUME Inv, NEW r \in Requests, Send(r)
  PROVE  Inv'
<1>1. PICK req : /\ requests' = [requests EXCEPT ![r] = req]
                 /\ req \in RequestType /\ Kept(req, policies)
  <2>1. CASE \E op \in Create, slug \in Slugs, valid \in BOOLEAN :
               Goes(r, "session", [Unsent EXCEPT !.op = op, !.slug = slug, !.valid = valid])
    <3>1. PICK op \in Create, slug \in Slugs, valid \in BOOLEAN :
               Goes(r, "session", [Unsent EXCEPT !.op = op, !.slug = slug, !.valid = valid])
      BY <2>1
    <3> DEFINE req == [Unsent EXCEPT !.op = op, !.slug = slug, !.valid = valid, !.pc = "session"]
    <3>2. requests' = [requests EXCEPT ![r] = req]
      BY <3>1 DEF Goes, Unsent
    <3>3. req \in RequestType /\ Kept(req, policies)
      <4>1. req \in RequestType
        BY UnsentKept DEF RequestType, Create
      <4>2. Created(req, policies)
        BY PolicyApiAssumption DEF Unsent, Created, Create, Writing
      <4>3. Answered(req, policies)
        BY DEF Unsent, Answered
      <4>4. Listed(req, policies)
        BY DEF Unsent, Listed, Uid
      <4> QED
        BY <4>1, <4>2, <4>3, <4>4 DEF Kept
    <3> QED
      BY <3>2, <3>3
  <2>2. CASE Goes(r, "session", [Unsent EXCEPT !.op = "list", !.known = Uid(policies)])
    <3> DEFINE req == [Unsent EXCEPT !.op = "list", !.known = Uid(policies), !.pc = "session"]
    <3>1. Uid(policies) \subseteq Uids
      BY DEF Inv, Rows, Uid, Policies
    <3>2. requests' = [requests EXCEPT ![r] = req]
      BY <2>2 DEF Goes, Unsent
    <3>3. req \in RequestType /\ Kept(req, policies)
      <4>1. req \in RequestType
        BY <3>1, UnsentKept DEF RequestType, Create
      <4>2. Created(req, policies)
        BY PolicyApiAssumption DEF Unsent, Created, Create, Writing
      <4>3. Answered(req, policies)
        BY DEF Unsent, Answered
      <4>4. Listed(req, policies)
        BY <3>1 DEF Unsent, Listed
      <4> QED
        BY <4>1, <4>2, <4>3, <4>4 DEF Kept
    <3> QED
      BY <3>2, <3>3
  <2>3. CASE \E uid \in Uid(policies) :
               Goes(r, "session", [Unsent EXCEPT !.op = "evaluate", !.refs = {uid}])
    <3>1. PICK uid \in Uid(policies) :
               Goes(r, "session", [Unsent EXCEPT !.op = "evaluate", !.refs = {uid}])
      BY <2>3
    <3> DEFINE req == [Unsent EXCEPT !.op = "evaluate", !.refs = {uid}, !.pc = "session"]
    <3>2. uid \in Uids
      BY DEF Inv, Rows, Uid, Policies
    <3>3. requests' = [requests EXCEPT ![r] = req]
      BY <3>1 DEF Goes, Unsent
    <3>4. req \in RequestType /\ Kept(req, policies)
      <4>1. req \in RequestType
        BY <3>2, UnsentKept DEF RequestType, Create
      <4>2. Created(req, policies)
        BY PolicyApiAssumption DEF Unsent, Created, Create, Writing
      <4>3. Answered(req, policies)
        BY DEF Unsent, Answered
      <4>4. Listed(req, policies)
        BY <3>2 DEF Unsent, Listed
      <4> QED
        BY <4>1, <4>2, <4>3, <4>4 DEF Kept
    <3> QED
      BY <3>3, <3>4
  <2> QED
    BY <2>1, <2>2, <2>3 DEF Send
<1> QED
  BY <1>1, RequestOnlyStep DEF Send, Inv

\* What a handler must know to answer, and the rows that the answer may add.
Answers == {"none", "forbidden", "refused", "conflict", "created", "found", "failed", "timeout"}

\* A handler that answers as allowed keeps the invariant, also when it adds rows.
LEMMA Answering ==
  ASSUME Inv, NEW r \in Requests, NEW answer \in Answers, Answer(r, answer),
         NEW more, policies' = policies \cup more, Rows(more), Rows(unsettled'),
         serial' \in 0 .. MaxUid, cached' \subseteq Uids,
         answer = "created" => Row(r) \in more,
         answer = "conflict" => Taken(requests[r].slug),
         answer = "found" => requests[r].pc = "lookup" /\ requests[r].refs = {}
  PROVE  Inv'
<1> DEFINE old == requests[r]
           req == [old EXCEPT !.pc = "answered", !.answer = answer]
<1>1. old \in RequestType /\ Kept(old, policies \cup more)
  BY KeptGrows DEF Inv
<1>2. requests' = [requests EXCEPT ![r] = req]
  BY DEF Answer
<1>3. req \in RequestType
  BY <1>1 DEF RequestType, Answers
<1>4. Created(req, policies \cup more)
  BY <1>1 DEF Kept, Created, RequestType, Writing
<1>5. Answered(req, policies \cup more)
  <2>1. answer = "conflict" => \E p \in policies \cup more : p.slug = old.slug
    BY DEF Taken
  <2> QED
    BY <1>1, <2>1 DEF Kept, Answered, RequestType, Row
<1>6. Listed(req, policies \cup more)
  BY <1>1 DEF Kept, Listed, RequestType
<1> QED
  BY <1>2, <1>3, <1>4, <1>5, <1>6, RequestStep DEF Kept

\* An answer that adds no row.
LEMMA AnsweringOnly ==
  ASSUME Inv, NEW r \in Requests, NEW answer \in Answers \ {"created"}, Answer(r, answer),
         UNCHANGED <<policies, unsettled, cached>>, serial' \in 0 .. MaxUid,
         answer = "conflict" => Taken(requests[r].slug),
         answer = "found" => requests[r].pc = "lookup" /\ requests[r].refs = {}
  PROVE  Inv'
<1>1. /\ policies' = policies \cup {} /\ Rows({}) /\ Rows(unsettled')
      /\ cached' \subseteq Uids
  BY DEF Rows, Inv
<1> QED
  BY <1>1, Answering

\* A step to another program point before the answer.
LEMMA Going ==
  ASSUME Inv, NEW r \in Requests,
         NEW pc \in {"extract", "connect", "body", "insert", "link", "references", "lookup"},
         Go(r, pc), UNCHANGED <<policies, unsettled, serial, cached>>,
         requests[r].pc \notin {"idle", "answered"},
         pc \in {"body", "insert", "link"} => requests[r].op \in Create,
         IF pc = "link" THEN requests[r].pc \in Writing ELSE requests[r].pc \notin Writing,
         pc = "lookup" => requests[r].op # "list"
  PROVE  Inv'
<1> DEFINE old == requests[r]
           req == [old EXCEPT !.pc = pc]
<1>1. old \in RequestType /\ Kept(old, policies)
  BY DEF Inv
<1>2. requests' = [requests EXCEPT ![r] = req]
  BY DEF Go, Goes
<1>3. req \in RequestType
  BY <1>1 DEF RequestType, Holding
<1>4. Created(req, policies)
  BY <1>1 DEF Kept, Created, RequestType, Writing
<1>5. Answered(req, policies)
  BY <1>1 DEF Kept, Answered, RequestType
<1>6. Listed(req, policies)
  BY <1>1 DEF Kept, Listed, Answered, RequestType
<1> QED
  BY <1>2, <1>3, <1>4, <1>5, <1>6, RequestOnlyStep DEF Kept, Inv

\* The extractors.
LEMMA AuthorizeInv ==
  ASSUME Inv, NEW r \in Requests, Extract(r) \/ Authorize(r)
  PROVE  Inv'
<1>0. CASE Extract(r)
  BY <1>0, Going DEF Extract, Writing
<1> SUFFICES ASSUME Authorize(r) PROVE Inv'
  BY <1>0
<1>2. CASE Answer(r, "forbidden") \/ Answer(r, "refused")
  BY <1>2, AnsweringOnly DEF Authorize, Answers, Inv
<1>3. CASE Go(r, "connect")
  BY <1>3, Going DEF Authorize, Writing
<1> QED
  BY <1>2, <1>3 DEF Authorize

\* Taking a connection.
LEMMA ConnectInv ==
  ASSUME Inv, NEW r \in Requests, Connect(r)
  PROVE  Inv'
<1> DEFINE op == requests[r].op
<1>1. op \in {"expression", "expiration", "list", "evaluate"}
  BY DEF Inv, RequestType, Create
<1>2. requests[r].pc = "connect"
  BY DEF Connect
<1>3. CASE op = "expression"
  <2>1. Go(r, "body")
    BY <1>3 DEF Connect
  <2> QED
    BY <1>2, <1>3, <2>1, Going DEF Connect, Writing, Create
<1>4. CASE op = "expiration"
  <2>1. Go(r, "insert")
    BY <1>4 DEF Connect
  <2> QED
    BY <1>2, <1>4, <2>1, Going DEF Connect, Writing, Create
<1>5. CASE op = "list"
  <2>1. Go(r, "references")
    BY <1>5 DEF Connect
  <2> QED
    BY <1>2, <2>1, Going DEF Connect, Writing
<1>6. CASE op = "evaluate"
  <2>1. Go(r, "lookup")
    BY <1>6 DEF Connect
  <2> QED
    BY <1>2, <1>6, <2>1, Going DEF Connect, Writing
<1> QED
  BY <1>1, <1>3, <1>4, <1>5, <1>6

\* A chunk is kept only within the limit.
LEMMA ReadChunkInv ==
  ASSUME Inv, NEW r \in Requests, ReadChunk(r)
  PROVE  Inv'
<1>1. /\ requests[r] \in RequestType /\ Kept(requests[r], policies)
      /\ requests[r].pc = "body"
  BY DEF ReadChunk, Inv, Kept, Created, Writing
<1>2. PICK size \in Chunks :
        IF requests[r].bytes + size > MaxExpressionLen THEN Answer(r, "refused")
        ELSE requests' = [requests EXCEPT ![r].bytes = @ + size]
  BY DEF ReadChunk
<1>3. CASE requests[r].bytes + size > MaxExpressionLen
  BY <1>1, <1>2, <1>3, AnsweringOnly DEF ReadChunk, Answers, Inv
<1>4. CASE ~(requests[r].bytes + size > MaxExpressionLen)
  <2> DEFINE old == requests[r]
             req == [old EXCEPT !.bytes = old.bytes + size]
  <2>1. old.bytes + size \in 0 .. MaxExpressionLen
    BY <1>1, <1>4, PolicyApiAssumption DEF RequestType
  <2>2. requests' = [requests EXCEPT ![r] = req]
    BY <1>2, <1>4
  <2>3. req \in RequestType
    BY <1>1, <2>1 DEF RequestType
  <2>4. Created(req, policies)
    BY <1>1 DEF Kept, Created, RequestType, Writing
  <2>5. Answered(req, policies)
    BY <1>1 DEF Kept, Answered, RequestType
  <2>6. Listed(req, policies)
    BY <1>1 DEF Kept, Listed, RequestType
  <2> QED
    BY <2>2, <2>3, <2>4, <2>5, <2>6, RequestOnlyStep DEF Kept, Inv, ReadChunk
<1> QED
  BY <1>3, <1>4

\* The end of the body.
LEMMA EndBodyInv ==
  ASSUME Inv, NEW r \in Requests, EndBody(r)
  PROVE  Inv'
<1>1. /\ requests[r].pc = "body"
      /\ requests[r].op \in Create
  BY DEF EndBody, Inv, Kept, Created, Writing
<1>2. CASE requests[r].valid
  BY <1>1, <1>2, Going DEF EndBody, Writing
<1>3. CASE ~requests[r].valid
  BY <1>1, <1>3, AnsweringOnly DEF EndBody, Answers, Inv
<1> QED
  BY <1>2, <1>3

\* The first statement of create: a fresh uid, or a conflict with a row.
LEMMA InsertPolicyInv ==
  ASSUME Inv, NEW r \in Requests, InsertPolicy(r)
  PROVE  Inv'
<1>1. /\ requests[r] \in RequestType /\ Kept(requests[r], policies)
      /\ requests[r].pc = "insert"
  BY DEF InsertPolicy, Inv, Kept, Created, Writing
<1>2. CASE Answer(r, "failed") /\ UNCHANGED serial
  BY <1>2, AnsweringOnly DEF InsertPolicy, Answers, Inv
<1>3. CASE /\ serial < MaxUid /\ serial' = serial + 1
           /\ IF Taken(requests[r].slug) THEN Answer(r, "conflict")
              ELSE Goes(r, "detail", [requests[r] EXCEPT !.uid = serial + 1])
  <2>1. serial' \in 0 .. MaxUid /\ serial + 1 \in Uids /\ serial + 1 \in 0 .. MaxUid
    BY <1>3, PolicyApiAssumption DEF Inv, Uids
  <2>2. CASE Taken(requests[r].slug)
    BY <1>1, <1>3, <2>1, <2>2, AnsweringOnly DEF InsertPolicy, Answers
  <2>3. CASE ~Taken(requests[r].slug)
    <3> DEFINE old == requests[r]
               req == [old EXCEPT !.uid = serial + 1, !.pc = "detail"]
    <3>1. requests' = [requests EXCEPT ![r] = req]
      BY <1>3, <2>3 DEF Goes
    <3>2. req \in RequestType
      BY <1>1, <2>1 DEF RequestType, Holding
    <3>3. Created(req, policies)
      BY <1>1, <2>1 DEF Kept, Created, RequestType, Writing
    <3>4. Answered(req, policies)
      BY <1>1 DEF Kept, Answered, RequestType
    <3>5. Listed(req, policies)
      BY <1>1 DEF Kept, Listed, Answered, RequestType
    <3> QED
      BY <2>1, <3>1, <3>2, <3>3, <3>4, <3>5, RequestOnlyStep DEF Kept, Inv, InsertPolicy
  <2> QED
    BY <2>2, <2>3
<1> QED
  BY <1>2, <1>3 DEF InsertPolicy

\* The second and the third statement.
LEMMA DetailInv ==
  ASSUME Inv, NEW r \in Requests, InsertDetail(r) \/ LinkDetail(r)
  PROVE  Inv'
<1>1. /\ requests[r] \in RequestType /\ Kept(requests[r], policies)
      /\ requests[r].pc \in {"detail", "link"}
      /\ requests[r].op \in Create
  BY DEF InsertDetail, LinkDetail, Inv, Kept, Created, Writing
<1>2. CASE InsertDetail(r)
  BY <1>1, <1>2, Going DEF InsertDetail, Writing
<1>3. CASE LinkDetail(r)
  <2> DEFINE old == requests[r]
             req == [old EXCEPT !.detail = TRUE, !.pc = "commit"]
  <2>1. requests' = [requests EXCEPT ![r] = req]
    BY <1>3 DEF LinkDetail, Goes
  <2>2. req \in RequestType
    BY <1>1 DEF RequestType, Holding
  <2>3. Created(req, policies)
    BY <1>1 DEF Kept, Created, RequestType, Writing
  <2>4. Answered(req, policies)
    BY <1>1 DEF Kept, Answered, RequestType
  <2>5. Listed(req, policies)
    BY <1>1 DEF Kept, Listed, Answered, RequestType
  <2> QED
    BY <1>3, <2>1, <2>2, <2>3, <2>4, <2>5, RequestOnlyStep DEF Kept, Inv, LinkDetail
<1> QED
  BY <1>2, <1>3

\* The row of a transaction that may be committed.
LEMMA CommittedRow ==
  ASSUME Inv, NEW r \in Requests, requests[r].pc = "commit"
  PROVE  Rows({Row(r)})
<1>1. /\ requests[r] \in RequestType /\ Kept(requests[r], policies)
      /\ requests[r].op \in Create
  BY DEF Inv, Kept, Created, Writing
<1>2. requests[r].slug \in Slugs /\ requests[r].uid \in Uids /\ requests[r].detail = TRUE
  BY <1>1 DEF Kept, Created, Writing, RequestType
<1>3. Row(r) \in Policies /\ Row(r).detail = TRUE
  BY <1>2 DEF Row, Policies
<1> QED
  BY <1>3 DEF Rows

\* COMMIT adds a whole policy.
LEMMA CommitInv ==
  ASSUME Inv, NEW r \in Requests, Commit(r)
  PROVE  Inv'
<1>1. Rows({Row(r)})
  BY CommittedRow DEF Commit
<1> QED
  BY <1>1, Answering DEF Commit, Answers, Inv

\* The references listed include what was known before.
LEMMA ListReferencesInv ==
  ASSUME Inv, NEW r \in Requests, ListReferences(r)
  PROVE  Inv'
<1> DEFINE old == requests[r]
           req == [old EXCEPT !.refs = Uid(policies), !.pc = "lookup"]
<1>1. old \in RequestType /\ Kept(old, policies) /\ old.pc = "references"
  BY DEF Inv, ListReferences
<1>2. Uid(policies) \subseteq Uids
  BY DEF Inv, Rows, Uid, Policies
<1>3. requests' = [requests EXCEPT ![r] = req]
  BY DEF ListReferences, Goes
<1>4. req \in RequestType
  BY <1>1, <1>2 DEF RequestType, Holding
<1>5. Created(req, policies)
  BY <1>1 DEF Kept, Created, RequestType, Writing
<1>6. Answered(req, policies)
  BY <1>1 DEF Kept, Answered, RequestType
<1>7. Listed(req, policies)
  BY <1>1 DEF Kept, Listed, Answered, RequestType
<1> QED
  BY <1>3, <1>4, <1>5, <1>6, <1>7, RequestOnlyStep DEF Kept, Inv, ListReferences

\* A lookup moves one uid from the references to those found.
LEMMA LookupInv ==
  ASSUME Inv, NEW r \in Requests, Lookup(r)
  PROVE  Inv'
<1>1. PICK uid \in requests[r].refs :
        /\ cached' = cached \cup ({uid} \cap Uid(policies))
        /\ requests' = [requests EXCEPT ![r].refs = @ \ {uid},
                                        ![r].found = @ \cup ({uid} \cap Uid(policies))]
  BY DEF Lookup
<1> DEFINE old == requests[r]
           req == [old EXCEPT !.refs = old.refs \ {uid},
                              !.found = old.found \cup ({uid} \cap Uid(policies))]
<1>2. old \in RequestType /\ Kept(old, policies) /\ old.pc = "lookup"
  BY DEF Inv, Lookup
<1>3. Uid(policies) \subseteq Uids /\ old.refs \subseteq Uid(policies)
  BY <1>2 DEF Inv, Rows, Uid, Policies, Kept, Listed
<1>4. requests' = [requests EXCEPT ![r] = req] /\ cached' \subseteq Uids
  BY <1>1, <1>3 DEF Inv
<1>5. req \in RequestType
  BY <1>2, <1>3 DEF RequestType
<1>6. Created(req, policies)
  BY <1>2 DEF Kept, Created, RequestType, Writing
<1>7. Answered(req, policies)
  BY <1>2 DEF Kept, Answered, RequestType
<1>8. Listed(req, policies)
  BY <1>2, <1>3 DEF Kept, Listed, Answered, RequestType
<1> QED
  BY <1>4, <1>5, <1>6, <1>7, <1>8, RequestOnlyStep DEF Kept, Inv, Lookup

\* One that fails is remembered as skipped.
LEMMA SkipLookupInv ==
  ASSUME Inv, NEW r \in Requests, SkipLookup(r)
  PROVE  Inv'
<1>1. PICK uid \in requests[r].refs :
        requests' = [requests EXCEPT ![r].refs = @ \ {uid}, ![r].skipped = TRUE]
  BY DEF SkipLookup
<1> DEFINE old == requests[r]
           req == [old EXCEPT !.refs = old.refs \ {uid}, !.skipped = TRUE]
<1>2. old \in RequestType /\ Kept(old, policies) /\ old.pc = "lookup"
  BY DEF Inv, SkipLookup
<1>3. requests' = [requests EXCEPT ![r] = req]
  BY <1>1
<1>4. req \in RequestType
  BY <1>2 DEF RequestType
<1>5. Created(req, policies)
  BY <1>2 DEF Kept, Created, RequestType, Writing
<1>6. Answered(req, policies)
  BY <1>2 DEF Kept, Answered, RequestType
<1>7. Listed(req, policies)
  BY <1>2 DEF Kept, Listed, Answered, RequestType
<1> QED
  BY <1>3, <1>4, <1>5, <1>6, <1>7, RequestOnlyStep DEF Kept, Inv, SkipLookup

\* A list is answered when no reference is left.
LEMMA FoundInv ==
  ASSUME Inv, NEW r \in Requests, Found(r)
  PROVE  Inv'
BY AnsweringOnly DEF Found, Answers, Inv

\* The rows of COMMITs that nobody waits for are whole as well.
LEMMA UnseenRows ==
  ASSUME Inv, NEW dropped \in SUBSET Requests
  PROVE  Rows(unsettled \cup Unseen(dropped))
<1>1. \A p \in Unseen(dropped) : p \in Policies /\ p.detail
  <2> SUFFICES ASSUME NEW r \in Requests, requests[r].pc = "commit"
               PROVE  Row(r) \in Policies /\ Row(r).detail
    BY DEF Unseen
  <2> QED
    BY CommittedRow DEF Rows
<1> QED
  BY <1>1 DEF Inv, Rows

\* A statement fails or the handler is dropped; its COMMIT may still be done.
LEMMA UnseenInv ==
  ASSUME Inv, NEW r \in Requests, Fail(r) \/ Timeout(r)
  PROVE  Inv'
<1>1. Rows(unsettled')
  BY UnseenRows DEF Fail, Timeout
<1>2. policies' = policies \cup {} /\ Rows({})
  BY DEF Fail, Timeout, Rows
<1> QED
  BY <1>1, <1>2, Answering DEF Fail, Timeout, Answers, Inv

\* Such a COMMIT adds a whole row or none.
LEMMA SettleInv ==
  ASSUME Inv, Settle
  PROVE  Inv'
<1>1. PICK row \in unsettled :
        unsettled' = unsettled \ {row} /\ policies' \in {policies, policies \cup {row}}
  BY DEF Settle
<1>2. Rows(policies') /\ Rows(unsettled')
  BY <1>1 DEF Inv, Rows
<1>3. \A r \in Requests : Kept(requests[r], policies')
  <2>1. \A r \in Requests :
          Kept(requests[r], policies) /\ Kept(requests[r], policies \cup {row})
    BY KeptGrows DEF Inv
  <2>2. CASE policies' = policies
    BY <2>1, <2>2
  <2>3. CASE policies' = policies \cup {row}
    BY <2>1, <2>3
  <2> QED
    BY <1>1, <2>2, <2>3
<1> QED
  BY <1>2, <1>3 DEF Inv, Settle

\* The client has its answer.
LEMMA ReceiveInv ==
  ASSUME Inv, NEW r \in Requests, Receive(r)
  PROVE  Inv'
BY UnsentKept, RequestOnlyStep DEF Receive, Inv

\* A restart keeps the rows and forgets the requests.
LEMMA RestartInv ==
  ASSUME Inv, Restart
  PROVE  Inv'
<1>1. Rows(unsettled')
  BY UnseenRows DEF Restart
<1>2. cached' \subseteq Uids
  BY DEF Restart, Inv, Rows, Uid, Policies
<1>3. requests' \in [Requests -> RequestType]
  BY UnsentKept DEF Restart
<1>4. \A r \in Requests : Kept(requests'[r], policies')
  BY UnsentKept DEF Restart
<1> QED
  BY <1>1, <1>2, <1>3, <1>4 DEF Inv, Restart

\* Every step keeps the invariant.
LEMMA NextInv ==
  ASSUME Inv, [Next]_vars
  PROVE  Inv'
<1>1. CASE UNCHANGED vars
  BY <1>1 DEF vars, Inv
<1>2. ASSUME NEW r \in Requests, Send(r) PROVE Inv'
  BY <1>2, SendInv
<1>3. ASSUME NEW r \in Requests, Handle(r) PROVE Inv'
  BY <1>3, AuthorizeInv, ConnectInv, InsertPolicyInv, DetailInv, CommitInv, ListReferencesInv,
     LookupInv, FoundInv DEF Handle
<1>4. ASSUME NEW r \in Requests, ReadChunk(r) \/ EndBody(r) PROVE Inv'
  BY <1>4, ReadChunkInv, EndBodyInv
<1>5. ASSUME NEW r \in Requests, SkipLookup(r) \/ Fail(r) \/ Timeout(r) PROVE Inv'
  BY <1>5, SkipLookupInv, UnseenInv
<1>6. ASSUME NEW r \in Requests, Receive(r) PROVE Inv'
  BY <1>6, ReceiveInv
<1>7. CASE Settle \/ Restart
  BY <1>7, SettleInv, RestartInv
<1> QED
  BY <1>1, <1>2, <1>3, <1>4, <1>5, <1>6, <1>7 DEF Next

\* The facts of every program point hold for any number of requests and connections.
THEOREM Invariant == Spec => []Inv
BY InitInv, NextInv, PTL DEF Spec

-----------------------------------------------------------------------------
(* What follows from it *)

\* No one ever sees a policy without its details: the statements of create are one
\* transaction (api/v1/policy.rs:73-101).
THEOREM PoliciesAreWhole == Spec => []NoHalfPolicy
<1>1. Inv => NoHalfPolicy
  BY DEF Inv, Rows, NoHalfPolicy
<1> QED
  BY <1>1, Invariant, PTL

\* An answer says what is so (api/v1/policy.rs:48-101, api/mod.rs:105-114).
THEOREM AnswersAreTrue == Spec => []AnswersHold
<1>1. Inv => AnswersHold
  BY DEF Inv, Kept, Answered, AnswersHold, Row, Taken
<1> QED
  BY <1>1, Invariant, PTL

\* A list whose lookups succeed names what had been created when it was asked for,
\* and only what is there (service/policy/service.rs:70-96).
THEOREM ListsAreFaithful == Spec => []ListFaithful
<1>1. Inv => ListFaithful
  BY DEF Inv, Kept, Listed, ListFaithful
<1> QED
  BY <1>1, Invariant, PTL

-----------------------------------------------------------------------------
(* The bound of the pool *)

Holders == {r \in Requests : requests[r].pc \in Holding}
PoolInv == Inv /\ Cardinality(Holders) <= Connections

\* The handlers with a connection can be counted.
LEMMA HoldersFinite == IsFiniteSet(Holders) /\ Cardinality(Holders) \in Nat
<1>1. IsFiniteSet(Holders)
  BY PolicyApiAssumption, FS_Subset DEF Holders
<1> QED
  BY <1>1, FS_CardinalityType

\* Connections that are given back.
LEMMA HoldersShrink ==
  ASSUME PoolInv, Holders' \subseteq Holders
  PROVE  Cardinality(Holders') <= Connections
<1>1. Cardinality(Holders') \in Nat /\ Cardinality(Holders') <= Cardinality(Holders)
  BY HoldersFinite, FS_Subset, FS_CardinalityType
<1> QED
  BY <1>1, HoldersFinite, PolicyApiAssumption DEF PoolInv

\* A connection that is taken while one is free.
LEMMA HoldersGrow ==
  ASSUME PoolInv, NEW r \in Requests, Free > 0, Holders' \subseteq Holders \cup {r}
  PROVE  Cardinality(Holders') <= Connections
<1>1. /\ IsFiniteSet(Holders \cup {r})
      /\ \/ Cardinality(Holders \cup {r}) = Cardinality(Holders)
         \/ Cardinality(Holders \cup {r}) = Cardinality(Holders) + 1
  BY HoldersFinite, FS_AddElement, Zenon
<1>2. /\ Cardinality(Holders') \in Nat /\ Cardinality(Holders \cup {r}) \in Nat
      /\ Cardinality(Holders') <= Cardinality(Holders \cup {r})
  BY <1>1, FS_Subset, FS_CardinalityType
<1>3. Cardinality(Holders) + 1 <= Connections
  BY HoldersFinite, PolicyApiAssumption DEF Free, Holders
<1> QED
  BY <1>1, <1>2, <1>3, HoldersFinite, PolicyApiAssumption

\* Only Extract and Connect take a connection that is kept over a step, and they do so
\* while one is free.
LEMMA PoolStep ==
  ASSUME PoolInv, [Next]_vars
  PROVE  Cardinality(Holders') <= Connections
<1>1. CASE UNCHANGED vars
  BY <1>1, HoldersShrink DEF vars, Holders
<1>2. ASSUME NEW r \in Requests, Extract(r) \/ Connect(r)
      PROVE  Cardinality(Holders') <= Connections
  <2>1. Holders' \subseteq Holders \cup {r}
    BY <1>2 DEF Extract, Connect, Go, Goes, Holders, PoolInv, Inv
  <2> QED
    BY <1>2, <2>1, HoldersGrow DEF Extract, Connect
<1>3. ASSUME NEW r \in Requests,
             \/ Send(r) \/ Authorize(r) \/ ReadChunk(r) \/ EndBody(r) \/ InsertPolicy(r)
             \/ InsertDetail(r) \/ LinkDetail(r) \/ Commit(r) \/ ListReferences(r)
             \/ Lookup(r) \/ SkipLookup(r) \/ Found(r) \/ Fail(r) \/ Timeout(r) \/ Receive(r)
      PROVE  Cardinality(Holders') <= Connections
  <2>1. /\ \A q \in Requests \ {r} : requests'[q].pc = requests[q].pc
        /\ requests'[r].pc \in Holding => requests[r].pc \in Holding
    <3>1. requests \in [Requests -> RequestType] /\ requests[r] \in RequestType
      BY DEF PoolInv, Inv
    <3>2. CASE Send(r)
      <4>1. PICK change : Goes(r, "session", change) /\ change \in RequestType
        <5>1. Unsent \in RequestType
          BY UnsentKept
        <5>2. Uid(policies) \subseteq Uids
          BY DEF PoolInv, Inv, Rows, Uid, Policies
        <5>3. ASSUME NEW op \in Create, NEW slug \in Slugs, NEW valid \in BOOLEAN
              PROVE  [Unsent EXCEPT !.op = op, !.slug = slug, !.valid = valid] \in RequestType
          BY <5>1 DEF RequestType, Create
        <5>4. [Unsent EXCEPT !.op = "list", !.known = Uid(policies)] \in RequestType
          BY <5>1, <5>2 DEF RequestType, Create
        <5>5. ASSUME NEW uid \in Uid(policies)
              PROVE  [Unsent EXCEPT !.op = "evaluate", !.refs = {uid}] \in RequestType
          BY <5>1, <5>2 DEF RequestType, Create
        <5> QED
          BY <3>2, <5>3, <5>4, <5>5 DEF Send
      <4> QED
        BY <3>1, <4>1 DEF Goes, Holding, RequestType
    <3>3. CASE Authorize(r) \/ Receive(r)
      BY <3>1, <3>3 DEF Authorize, Receive, Go, Goes, Answer, Unsent, Holding, RequestType
    <3>4. CASE ReadChunk(r)
      <4>1. PICK size \in Chunks :
              IF requests[r].bytes + size > MaxExpressionLen THEN Answer(r, "refused")
              ELSE requests' = [requests EXCEPT ![r].bytes = @ + size]
        BY <3>4 DEF ReadChunk
      <4> QED
        BY <3>1, <3>4, <4>1 DEF ReadChunk, Answer, Holding, RequestType
    <3>5. CASE EndBody(r) \/ InsertPolicy(r)
      BY <3>1, <3>5 DEF EndBody, InsertPolicy, Go, Goes, Answer, Holding, RequestType
    <3>6. CASE InsertDetail(r) \/ LinkDetail(r)
      BY <3>1, <3>6 DEF InsertDetail, LinkDetail, Go, Goes, Answer, Holding, RequestType
    <3>7. CASE Commit(r) \/ ListReferences(r) \/ Lookup(r) \/ SkipLookup(r)
      BY <3>1, <3>7 DEF Commit, ListReferences, Lookup, SkipLookup, Go, Goes, Answer, Holding,
           RequestType
    <3>8. CASE Found(r) \/ Fail(r) \/ Timeout(r)
      BY <3>1, <3>8 DEF Found, Fail, Timeout, Answer, Holding, RequestType
    <3> QED
      BY <1>3, <3>2, <3>3, <3>4, <3>5, <3>6, <3>7, <3>8
  <2>2. Holders' \subseteq Holders
    BY <2>1 DEF Holders
  <2> QED
    BY <2>2, HoldersShrink
<1>4. CASE Restart
  <2>1. Holders' \subseteq Holders
    BY <1>4 DEF Restart, Holders, Unsent, Holding
  <2> QED
    BY <2>1, HoldersShrink
<1>5. CASE Settle
  BY <1>5, HoldersShrink DEF Settle, Holders
<1> QED
  BY <1>1, <1>2, <1>3, <1>4, <1>5 DEF Next, Handle

\* Every variable keeps its type, and handlers never hold more connections than the
\* pool has (main.rs:156).
THEOREM Typing == Spec => []TypeOK
<1>1. Init => PoolInv
  <2> SUFFICES ASSUME Init PROVE Cardinality(Holders) <= Connections
    BY InitInv DEF PoolInv
  <2>1. Holders = {}
    BY DEF Init, Holders, Unsent, Holding
  <2> QED
    BY <2>1, FS_EmptySet, PolicyApiAssumption
<1>2. PoolInv /\ [Next]_vars => PoolInv'
  BY NextInv, PoolStep DEF PoolInv
<1>3. PoolInv => TypeOK
  <2> SUFFICES ASSUME PoolInv PROVE TypeOK
    OBVIOUS
  <2>1. Free >= 0
    BY HoldersFinite, PolicyApiAssumption DEF PoolInv, Free, Holders
  <2> QED
    BY <2>1 DEF PoolInv, Inv, Rows, TypeOK
<1> QED
  BY <1>1, <1>2, <1>3, PTL DEF Spec


-----------------------------------------------------------------------------
(* A creation is one step *)

\* A handler that has inserted its policy has its slug and its uid to itself.
Claimed(r) ==
  requests[r].pc \in Writing =>
    /\ requests[r].uid <= serial
    /\ \A p \in policies \cup unsettled :
         p.slug # requests[r].slug /\ p.uid # requests[r].uid
    /\ \A q \in Requests \ {r} :
         requests[q].pc \in Writing =>
           requests[q].slug # requests[r].slug /\ requests[q].uid # requests[r].uid

\* Which requests create, and that an answer is one.
Placed(req) ==
  /\ req.pc \in {"idle", "references", "lookup"} => req.op \notin Create
  /\ req.pc = "answered" => req.answer # "none"

\* The inductive invariant of the refinement: uids are given in order, and no two of
\* the rows that are there, may come or are being written share a slug or a uid.
TableInv ==
  /\ Inv
  /\ Table!Unique(policies \cup unsettled)
  /\ \A p \in policies \cup unsettled : p.uid <= serial
  /\ \A r \in Requests : Claimed(r) /\ Placed(requests[r])

\* Uids are numbers.
LEMMA UidsAreNumbers ==
  ASSUME Inv
  PROVE  /\ serial \in Nat
         /\ \A p \in policies \cup unsettled : p \in Policies /\ p.detail = TRUE /\ p.uid \in Nat
         /\ \A r \in Requests : requests[r].uid \in Nat
<1>1. \A r \in Requests : requests[r].uid \in 0 .. MaxUid
  BY DEF Inv, RequestType
<1>2. \A p \in policies \cup unsettled : p \in Policies /\ p.detail
  BY DEF Inv, Rows
<1> QED
  BY <1>1, <1>2, PolicyApiAssumption DEF Inv, Policies, Uids

\* Handlers that go, and rows of theirs that come, leave the others' claims alone.
LEMMA ClaimsStay ==
  ASSUME TableInv, [Next]_vars, NEW gone \in SUBSET Requests,
         policies' \cup unsettled' \subseteq policies \cup unsettled \cup Unseen(gone),
         serial <= serial',
         \A q \in Requests :
           requests'[q].pc \in Writing =>
             /\ q \notin gone /\ requests[q].pc \in Writing
             /\ requests'[q].slug = requests[q].slug /\ requests'[q].uid = requests[q].uid,
         \A q \in Requests : Placed(requests'[q])
  PROVE  TableInv'
<1>1. Inv' /\ serial' \in Nat
  BY NextInv, UidsAreNumbers, PolicyApiAssumption DEF TableInv, Inv
<1>2. /\ serial \in Nat
      /\ \A p \in policies \cup unsettled : p.uid \in Nat
      /\ \A q \in Requests : requests[q].uid \in Nat
  BY UidsAreNumbers DEF TableInv
<1>3. ASSUME NEW p \in Unseen(gone)
      PROVE  \E q \in gone : /\ requests[q].pc \in Writing
                             /\ p.slug = requests[q].slug /\ p.uid = requests[q].uid
                             /\ p = Row(q)
  BY DEF Unseen, Writing, Row
<1>4. Table!Unique(policies' \cup unsettled')
  <2> SUFFICES ASSUME NEW p \in policies \cup unsettled \cup Unseen(gone),
                      NEW q \in policies \cup unsettled \cup Unseen(gone),
                      p.slug = q.slug \/ p.uid = q.uid
               PROVE  p = q
    BY DEF Table!Unique
  <2>1. CASE p \in policies \cup unsettled /\ q \in policies \cup unsettled
    BY <2>1 DEF TableInv, Table!Unique
  <2>2. CASE p \in policies \cup unsettled /\ q \in Unseen(gone)
    BY <2>2, <1>3 DEF TableInv, Claimed
  <2>3. CASE p \in Unseen(gone) /\ q \in policies \cup unsettled
    BY <2>3, <1>3 DEF TableInv, Claimed
  <2>4. CASE p \in Unseen(gone) /\ q \in Unseen(gone)
    BY <2>4, <1>3 DEF TableInv, Claimed
  <2> QED
    BY <2>1, <2>2, <2>3, <2>4
<1>5. \A p \in policies' \cup unsettled' : p.uid <= serial'
  <2> SUFFICES ASSUME NEW p \in policies \cup unsettled \cup Unseen(gone)
               PROVE  p.uid <= serial'
    OBVIOUS
  <2>1. p.uid <= serial /\ p.uid \in Nat
    BY <1>2, <1>3 DEF TableInv, Claimed
  <2> QED
    BY <2>1, <1>1, <1>2
<1>6. ASSUME NEW r \in Requests PROVE Claimed(r)'
  <2> SUFFICES ASSUME requests'[r].pc \in Writing PROVE Claimed(r)'
    BY DEF Claimed
  <2>1. /\ r \notin gone /\ Claimed(r) /\ requests[r].pc \in Writing
        /\ requests'[r].slug = requests[r].slug /\ requests'[r].uid = requests[r].uid
    BY DEF TableInv
  <2>2. requests'[r].uid <= serial'
    BY <2>1, <1>1, <1>2 DEF Claimed
  <2>3. \A p \in policies' \cup unsettled' :
          p.slug # requests'[r].slug /\ p.uid # requests'[r].uid
    BY <2>1, <1>3 DEF Claimed
  <2>4. \A q \in Requests \ {r} : requests'[q].pc \in Writing =>
          requests'[q].slug # requests'[r].slug /\ requests'[q].uid # requests'[r].uid
    BY <2>1 DEF Claimed
  <2> QED
    BY <2>2, <2>3, <2>4 DEF Claimed
<1> QED
  BY <1>1, <1>4, <1>5, <1>6 DEF TableInv

\* The same where one request's record changes and no row comes.
LEMMA OneClaimStays ==
  ASSUME TableInv, [Next]_vars, NEW r \in Requests, NEW x,
         requests' = [requests EXCEPT ![r] = x],
         UNCHANGED <<policies, unsettled>>, serial <= serial',
         x.pc \in Writing =>
           requests[r].pc \in Writing /\ x.slug = requests[r].slug /\ x.uid = requests[r].uid,
         Placed(x)
  PROVE  TableInv'
<1>1. \A q \in Requests : requests'[q] = IF q = r THEN x ELSE requests[q]
  BY DEF TableInv, Inv
<1>2. Unseen({}) = {}
  BY DEF Unseen
<1> QED
  BY <1>1, <1>2, ClaimsStay DEF TableInv

\* What a step of one request, to record x, is in the abstract.
LEMMA AskedAndTold ==
  ASSUME Inv, NEW r \in Requests, NEW x, requests' = [requests EXCEPT ![r] = x]
  PROVE  /\ Asking' = [Asking EXCEPT ![r] = Asked(x)]
         /\ Telling' = [Telling EXCEPT ![r] = Told(x)]
         /\ Asking[r] = Asked(requests[r]) /\ Telling[r] = Told(requests[r])
BY DEF Inv, Asking, Telling, Asked, Told

\* A step that neither asks, tells nor changes a row.
LEMMA Silent ==
  ASSUME Inv, NEW r \in Requests, NEW x, requests' = [requests EXCEPT ![r] = x],
         UNCHANGED <<policies, unsettled>>,
         Asked(x) = Asked(requests[r]), Told(x) = Told(requests[r])
  PROVE  UNCHANGED Table!promise
<1>1. UNCHANGED <<Asking, Telling>>
  BY AskedAndTold DEF Asking, Telling
<1> QED
  BY <1>1 DEF Table!promise

\* A creation that is answered was pending.
LEMMA Tells ==
  ASSUME Inv, NEW r \in Requests, requests[r].op \in Create, requests[r].pc # "answered",
         NEW answer, Answer(r, answer)
  PROVE  Table!Tell(r, answer)
<1> DEFINE x == [requests[r] EXCEPT !.pc = "answered", !.answer = answer]
<1>1. requests' = [requests EXCEPT ![r] = x]
  BY DEF Answer
<1>2. requests[r] \in RequestType /\ Kept(requests[r], policies)
  BY DEF Inv
<1>3. /\ x.op = requests[r].op /\ x.slug = requests[r].slug /\ x.answer = answer
  BY <1>2 DEF RequestType
<1>4. requests[r].slug # NoSlug /\ requests[r].answer = "none"
  BY <1>2, PolicyApiAssumption DEF Kept, Created, Answered
<1> HIDE DEF x
<1>5. Asked(x) = Asked(requests[r]) /\ Asked(x) # NoSlug /\ Told(x) = answer
  BY <1>3, <1>4 DEF Asked, Told
<1>6. UNCHANGED Asking
  BY <1>1, <1>5, AskedAndTold DEF Asking
<1>7. Telling' = [Telling EXCEPT ![r] = answer] /\ Asking[r] # NoSlug /\ Telling[r] = "none"
  BY <1>1, <1>4, <1>5, AskedAndTold DEF Told
<1> QED
  BY <1>6, <1>7 DEF Table!Tell, Table!Pending

\* What claims and promises become of a step that changes one record.
LEMMA GoStep ==
  ASSUME TableInv, [Next]_vars, NEW r \in Requests, NEW x,
         requests' = [requests EXCEPT ![r] = x],
         UNCHANGED <<policies, unsettled, serial>>,
         x.pc \in Writing =>
           requests[r].pc \in Writing /\ x.slug = requests[r].slug /\ x.uid = requests[r].uid,
         Placed(x), Asked(x) = Asked(requests[r]), Told(x) = Told(requests[r])
  PROVE  TableInv' /\ UNCHANGED Table!promise
<1>1. serial <= serial'
  BY UidsAreNumbers DEF TableInv
<1>2. TableInv'
  BY <1>1, OneClaimStays
<1>3. UNCHANGED Table!promise
  BY Silent DEF TableInv
<1> QED
  BY <1>2, <1>3

\* An answer that adds no row is the abstract one, or nothing for those who create none.
LEMMA AnswerStep ==
  ASSUME TableInv, [Next]_vars, NEW r \in Requests, requests[r].pc # "answered",
         NEW answer \in Answers \ {"none"}, Answer(r, answer),
         UNCHANGED <<policies, unsettled>>, serial <= serial',
         requests[r].op \in Create =>
           \/ answer \in {"forbidden", "refused", "failed", "timeout"}
           \/ answer = "conflict" /\ Taken(requests[r].slug)
  PROVE  TableInv' /\ [Table!Next]_Table!promise
<1> DEFINE x == [requests[r] EXCEPT !.pc = "answered", !.answer = answer]
<1>1. requests' = [requests EXCEPT ![r] = x]
  BY DEF Answer
<1>2. /\ x.pc = "answered" /\ x.answer = answer
      /\ x.op = requests[r].op /\ x.slug = requests[r].slug
  BY DEF TableInv, Inv, RequestType
<1> HIDE DEF x
<1>3. TableInv'
  BY <1>1, <1>2, OneClaimStays DEF Placed, Writing
<1>4. CASE requests[r].op \notin Create
  BY <1>1, <1>2, <1>3, <1>4, Silent DEF TableInv, Asked, Told
<1>5. CASE requests[r].op \in Create
  <2>1. Table!Tell(r, answer)
    BY <1>5, Tells DEF TableInv
  <2>2. CASE answer \in {"failed", "timeout"}
    <3>1. Table!Unknown(r)
      BY <2>1, <2>2 DEF Table!Unknown, Table!Tell
    <3> QED
      BY <1>3, <3>1 DEF Table!Next
  <2>3. CASE answer \in {"forbidden", "refused"}
    <3>1. Table!Declined(r)
      BY <2>1, <2>3 DEF Table!Declined, Table!Tell
    <3> QED
      BY <1>3, <3>1 DEF Table!Next
  <2>4. CASE answer = "conflict" /\ Taken(requests[r].slug)
    <3>1. Asking[r] = requests[r].slug
      BY <1>1, <1>5, AskedAndTold DEF TableInv, Asked
    <3>2. Table!Declined(r)
      BY <2>1, <2>4, <3>1 DEF Table!Declined, Table!Tell, Taken
    <3> QED
      BY <1>3, <3>2 DEF Table!Next
  <2> QED
    BY <1>5, <2>2, <2>3, <2>4
<1> QED
  BY <1>3, <1>4, <1>5

\* The rows of COMMITs are policies as their creators asked for, unlike any other.
LEMMA MakesRows ==
  ASSUME TableInv, TableInv', NEW gone \in SUBSET Requests, NEW makers,
         policies' \cup unsettled' = policies \cup unsettled \cup Unseen(gone),
         \A q \in gone : requests[q].pc = "commit" => q \in makers
  PROVE  Table!Makes(makers, Unseen(gone))
<1>1. ASSUME NEW p \in Unseen(gone)
      PROVE  /\ p \in Table!Whole /\ p \notin policies \cup unsettled
             /\ \E q \in makers : q \in Requests /\ p.slug = Asked(requests[q])
  <2>1. PICK q \in gone : requests[q].pc = "commit" /\ p = Row(q)
    BY DEF Unseen
  <2>2. /\ requests[q] \in RequestType /\ Kept(requests[q], policies) /\ Claimed(q)
        /\ requests[q].pc \in Writing
    BY <2>1 DEF TableInv, Inv, Writing
  <2>3. /\ requests[q].slug \in Slugs /\ requests[q].uid \in Uids /\ requests[q].detail = TRUE
        /\ requests[q].op \in Create
    BY <2>1, <2>2 DEF Kept, Created, Writing, RequestType
  <2>4. p \in Table!Whole /\ p.slug = Asked(requests[q])
    <3>1. requests[q].uid \in Nat \ {0}
      BY <2>3, PolicyApiAssumption DEF Uids
    <3>2. p = [uid |-> requests[q].uid, slug |-> requests[q].slug, detail |-> TRUE]
      BY <2>1, <2>3 DEF Row
    <3> QED
      BY <2>3, <3>1, <3>2 DEF Table!Whole, Asked
  <2>5. p \notin policies \cup unsettled
    BY <2>1, <2>2 DEF Claimed, Row
  <2> QED
    BY <2>1, <2>4, <2>5
<1>2. Table!Unique(policies \cup unsettled \cup Unseen(gone))
  BY DEF TableInv, Table!Unique
<1> QED
  BY <1>1, <1>2 DEF Table!Makes, Asking

\* A request is sent: it asks for a policy, or for none.
LEMMA SendTable ==
  ASSUME TableInv, [Next]_vars, NEW r \in Requests, Send(r)
  PROVE  TableInv' /\ [Table!Next]_Table!promise
<1>1. /\ requests[r].pc = "idle" /\ requests[r].op \notin Create
      /\ UNCHANGED <<policies, unsettled, serial>> /\ serial <= serial'
  <2>1. requests[r].pc = "idle" /\ UNCHANGED <<policies, unsettled, serial>>
    BY DEF Send
  <2> QED
    BY <2>1, UidsAreNumbers DEF TableInv, Placed
<1>2. CASE \E op \in Create, slug \in Slugs, valid \in BOOLEAN :
             Goes(r, "session", [Unsent EXCEPT !.op = op, !.slug = slug, !.valid = valid])
  <2>1. PICK op \in Create, slug \in Slugs, valid \in BOOLEAN :
             Goes(r, "session", [Unsent EXCEPT !.op = op, !.slug = slug, !.valid = valid])
    BY <1>2
  <2> DEFINE x == [Unsent EXCEPT !.op = op, !.slug = slug, !.valid = valid, !.pc = "session"]
  <2>2. requests' = [requests EXCEPT ![r] = x]
    BY <2>1 DEF Goes, Unsent
  <2>3. x.pc = "session" /\ x.op = op /\ x.slug = slug /\ x.answer = "none"
    BY DEF Unsent
  <2> HIDE DEF x
  <2>4. TableInv'
    BY <1>1, <2>2, <2>3, OneClaimStays DEF Placed, Writing
  <2>5. Table!Ask(r)
    <3>1. Asked(x) = slug /\ Told(x) = Told(requests[r]) /\ Asked(requests[r]) = NoSlug
      BY <1>1, <2>3 DEF Asked, Told
    <3>2. Asking' = [Asking EXCEPT ![r] = slug] /\ Asking[r] = NoSlug
      BY <2>2, <3>1, AskedAndTold DEF TableInv
    <3>3. UNCHANGED Telling
      BY <2>2, <3>1, AskedAndTold DEF TableInv, Telling
    <3> QED
      BY <1>1, <3>2, <3>3 DEF Table!Ask
  <2> QED
    BY <2>4, <2>5 DEF Table!Next
<1>3. ASSUME NEW x, requests' = [requests EXCEPT ![r] = x],
             x.pc = "session", x.op \notin Create
      PROVE  TableInv' /\ UNCHANGED Table!promise
  BY <1>1, <1>3, GoStep DEF Placed, Writing, Asked, Told
<1>4. CASE Goes(r, "session", [Unsent EXCEPT !.op = "list", !.known = Uid(policies)])
  <2> DEFINE x == [Unsent EXCEPT !.op = "list", !.known = Uid(policies), !.pc = "session"]
  <2>1. requests' = [requests EXCEPT ![r] = x] /\ x.pc = "session" /\ x.op \notin Create
    BY <1>4 DEF Goes, Unsent, Create
  <2> QED
    BY <2>1, <1>3
<1>5. CASE \E uid \in Uid(policies) :
             Goes(r, "session", [Unsent EXCEPT !.op = "evaluate", !.refs = {uid}])
  <2>1. PICK uid \in Uid(policies) :
             Goes(r, "session", [Unsent EXCEPT !.op = "evaluate", !.refs = {uid}])
    BY <1>5
  <2> DEFINE x == [Unsent EXCEPT !.op = "evaluate", !.refs = {uid}, !.pc = "session"]
  <2>2. requests' = [requests EXCEPT ![r] = x] /\ x.pc = "session" /\ x.op \notin Create
    BY <2>1 DEF Goes, Unsent, Create
  <2> QED
    BY <2>2, <1>3
<1> QED
  BY <1>2, <1>4, <1>5 DEF Send

\* The client has its answer and is forgotten.
LEMMA ReceiveTable ==
  ASSUME TableInv, [Next]_vars, NEW r \in Requests, Receive(r)
  PROVE  TableInv' /\ [Table!Next]_Table!promise
<1>1. /\ requests' = [requests EXCEPT ![r] = Unsent]
      /\ UNCHANGED <<policies, unsettled, serial>> /\ serial <= serial'
      /\ requests[r].pc = "answered" /\ requests[r].answer # "none"
      /\ Kept(requests[r], policies)
  BY UidsAreNumbers DEF TableInv, Inv, Placed, Receive
<1>2. Unsent.pc = "idle" /\ Unsent.op \notin Create
  BY DEF Unsent, Create
<1>3. TableInv'
  BY <1>1, <1>2, OneClaimStays DEF Placed, Writing
<1>4. CASE requests[r].op \notin Create
  BY <1>1, <1>2, <1>3, <1>4, Silent DEF TableInv, Asked, Told
<1>5. CASE requests[r].op \in Create
  <2>1. requests[r].slug # NoSlug
    BY <1>1, <1>5, PolicyApiAssumption DEF Kept, Created
  <2>2. Table!Forget(r)
    BY <1>1, <1>2, <1>5, <2>1, AskedAndTold
       DEF TableInv, Asked, Told, Table!Forget, Table!Pending
  <2> QED
    BY <1>3, <2>2 DEF Table!Next
<1> QED
  BY <1>3, <1>4, <1>5

\* A handler that goes on without having written asks and is told nothing new.
LEMMA GoingTable ==
  ASSUME TableInv, [Next]_vars, NEW r \in Requests, NEW pc, Go(r, pc),
         requests[r].pc # "answered",
         UNCHANGED <<policies, unsettled, serial>>,
         pc \notin {"idle", "answered"},
         pc \in {"references", "lookup"} => requests[r].op \notin Create,
         pc \in Writing => requests[r].pc \in Writing
  PROVE  TableInv' /\ UNCHANGED Table!promise
<1> DEFINE x == [requests[r] EXCEPT !.pc = pc]
<1>1. requests' = [requests EXCEPT ![r] = x]
  BY DEF Go, Goes
<1>2. /\ x.pc = pc /\ x.op = requests[r].op /\ x.slug = requests[r].slug
      /\ x.uid = requests[r].uid /\ x.answer = requests[r].answer
  BY DEF TableInv, Inv, RequestType
<1> HIDE DEF x
<1> QED
  BY <1>1, <1>2, GoStep DEF Placed, Asked, Told

\* The extractors, and the connection.
LEMMA OpeningTable ==
  ASSUME TableInv, [Next]_vars, NEW r \in Requests,
         Extract(r) \/ Authorize(r) \/ Connect(r)
  PROVE  TableInv' /\ [Table!Next]_Table!promise
<1>1. UNCHANGED <<policies, unsettled, serial>> /\ serial <= serial'
  <2>1. UNCHANGED <<policies, unsettled, serial>>
    BY DEF Extract, Authorize, Connect
  <2> QED
    BY <2>1, UidsAreNumbers DEF TableInv
<1>2. requests[r].pc \in {"session", "extract", "connect"}
  BY DEF Extract, Authorize, Connect
<1>3. CASE Answer(r, "forbidden")
  BY <1>1, <1>2, <1>3, AnswerStep DEF Answers
<1>4. CASE Answer(r, "refused")
  BY <1>1, <1>2, <1>4, AnswerStep DEF Answers
<1>5. CASE Go(r, "extract") \/ Go(r, "connect")
  BY <1>1, <1>2, <1>5, GoingTable DEF Writing
<1>6. CASE Go(r, "body") \/ Go(r, "insert")
  BY <1>1, <1>2, <1>6, GoingTable DEF Writing
<1>7. CASE requests[r].op \notin Create /\ (Go(r, "references") \/ Go(r, "lookup"))
  BY <1>1, <1>2, <1>7, GoingTable DEF Writing
<1> QED
  BY <1>3, <1>4, <1>5, <1>6, <1>7 DEF Extract, Authorize, Connect, Create

\* The body is read, and perhaps refused.
LEMMA BodyTable ==
  ASSUME TableInv, [Next]_vars, NEW r \in Requests, ReadChunk(r) \/ EndBody(r)
  PROVE  TableInv' /\ [Table!Next]_Table!promise
<1>1. UNCHANGED <<policies, unsettled, serial>> /\ serial <= serial'
  <2>1. UNCHANGED <<policies, unsettled, serial>>
    BY DEF ReadChunk, EndBody
  <2> QED
    BY <2>1, UidsAreNumbers DEF TableInv
<1>2. requests[r].pc = "body"
  BY DEF ReadChunk, EndBody
<1>3. CASE Answer(r, "refused")
  BY <1>1, <1>2, <1>3, AnswerStep DEF Answers
<1>4. CASE Go(r, "insert")
  BY <1>1, <1>2, <1>4, GoingTable DEF Writing
<1>5. ASSUME NEW size, requests' = [requests EXCEPT ![r].bytes = @ + size]
      PROVE  TableInv' /\ UNCHANGED Table!promise
  <2> DEFINE x == [requests[r] EXCEPT !.bytes = @ + size]
  <2>1. requests' = [requests EXCEPT ![r] = x]
    BY <1>5
  <2>2. /\ x.pc = requests[r].pc /\ x.op = requests[r].op /\ x.slug = requests[r].slug
        /\ x.uid = requests[r].uid /\ x.answer = requests[r].answer
    BY DEF TableInv, Inv, RequestType
  <2> HIDE DEF x
  <2> QED
    BY <1>1, <1>2, <2>1, <2>2, GoStep DEF Placed, Asked, Told, Writing
<1> QED
  BY <1>3, <1>4, <1>5 DEF ReadChunk, EndBody

\* The index gives a slug to one creation at a time, the sequence a uid to one at all.
LEMMA InsertTable ==
  ASSUME TableInv, [Next]_vars, NEW r \in Requests, InsertPolicy(r)
  PROVE  TableInv' /\ [Table!Next]_Table!promise
<1>1. /\ requests[r].pc = "insert" /\ UNCHANGED <<policies, unsettled>>
      /\ serial \in Nat /\ requests[r] \in RequestType
  BY UidsAreNumbers DEF TableInv, Inv, InsertPolicy
<1>2. CASE Answer(r, "failed") /\ UNCHANGED serial
  BY <1>1, <1>2, AnswerStep DEF Answers
<1>3. CASE serial' = serial + 1 /\ Taken(requests[r].slug) /\ Answer(r, "conflict")
  BY <1>1, <1>3, AnswerStep DEF Answers
<1>4. CASE /\ serial' = serial + 1 /\ ~Taken(requests[r].slug) /\ ~Contended(r)
           /\ Goes(r, "detail", [requests[r] EXCEPT !.uid = serial + 1])
  <2> DEFINE x == [requests[r] EXCEPT !.uid = serial + 1, !.pc = "detail"]
  <2>1. requests' = [requests EXCEPT ![r] = x]
    BY <1>4 DEF Goes
  <2>2. /\ x.pc = "detail" /\ x.op = requests[r].op /\ x.slug = requests[r].slug
        /\ x.uid = serial + 1 /\ x.answer = requests[r].answer
    BY <1>1 DEF RequestType
  <2> HIDE DEF x
  <2>3. UNCHANGED Table!promise
    BY <1>1, <2>1, <2>2, Silent DEF TableInv, Asked, Told
  <2>4. \A q \in Requests : requests'[q] = IF q = r THEN x ELSE requests[q]
    BY <2>1 DEF TableInv, Inv
  <2>5. /\ \A p \in policies \cup unsettled : p.uid <= serial /\ p.uid \in Nat
        /\ \A q \in Requests : requests[q].uid \in Nat
    BY UidsAreNumbers DEF TableInv
  <2>6. ASSUME NEW p \in policies \cup unsettled
        PROVE  p.slug # x.slug /\ p.uid # x.uid /\ p.uid <= serial'
    BY <1>1, <1>4, <2>2, <2>5 DEF Taken, Contended
  <2>7. ASSUME NEW q \in Requests \ {r}, requests[q].pc \in Writing
        PROVE  /\ requests[q].slug # x.slug /\ requests[q].uid # x.uid
               /\ requests[q].uid <= serial'
    <3>1. requests[q].uid <= serial
      BY <2>7 DEF TableInv, Claimed
    <3> QED
      BY <1>1, <1>4, <2>2, <2>5, <2>7, <3>1 DEF Contended
  <2>8. Claimed(r)'
    BY <1>1, <1>4, <2>2, <2>4, <2>6, <2>7 DEF Claimed
  <2>9. ASSUME NEW q \in Requests \ {r} PROVE Claimed(q)'
    <3>1. Claimed(q) /\ requests'[q] = requests[q]
      BY <2>4 DEF TableInv
    <3> QED
      BY <1>1, <2>4, <2>7, <3>1 DEF Claimed
  <2>10. \A q \in Requests : Placed(requests'[q])
    BY <2>2, <2>4 DEF TableInv, Placed
  <2>11. Inv'
    BY NextInv DEF TableInv
  <2>12. \A p \in policies' \cup unsettled' : p.uid <= serial'
    BY <1>1, <2>6
  <2>13. Table!Unique(policies' \cup unsettled')
    BY <1>1 DEF TableInv
  <2>14. TableInv'
    BY <2>8, <2>9, <2>10, <2>11, <2>12, <2>13 DEF TableInv
  <2> QED
    BY <2>3, <2>14
<1> QED
  BY <1>2, <1>3, <1>4 DEF InsertPolicy

\* The second and third statement are not seen by anybody.
LEMMA DetailTable ==
  ASSUME TableInv, [Next]_vars, NEW r \in Requests, InsertDetail(r) \/ LinkDetail(r)
  PROVE  TableInv' /\ [Table!Next]_Table!promise
<1>1. UNCHANGED <<policies, unsettled, serial>>
  BY DEF InsertDetail, LinkDetail
<1>2. CASE InsertDetail(r)
  BY <1>1, <1>2, GoingTable DEF InsertDetail, Writing
<1>3. CASE LinkDetail(r)
  <2> DEFINE x == [requests[r] EXCEPT !.detail = TRUE, !.pc = "commit"]
  <2>1. requests' = [requests EXCEPT ![r] = x] /\ requests[r].pc = "link"
    BY <1>3 DEF LinkDetail, Goes
  <2>2. /\ x.pc = "commit" /\ x.op = requests[r].op /\ x.slug = requests[r].slug
        /\ x.uid = requests[r].uid /\ x.answer = requests[r].answer
    BY DEF TableInv, Inv, RequestType
  <2> HIDE DEF x
  <2> QED
    BY <1>1, <2>1, <2>2, GoStep DEF Placed, Asked, Told, Writing
<1> QED
  BY <1>2, <1>3

\* Lists and evaluations create nothing.
LEMMA LookingTable ==
  ASSUME TableInv, [Next]_vars, NEW r \in Requests,
         ListReferences(r) \/ Lookup(r) \/ SkipLookup(r) \/ Found(r)
  PROVE  TableInv' /\ [Table!Next]_Table!promise
<1>1. UNCHANGED <<policies, unsettled, serial>> /\ serial <= serial'
  <2>1. UNCHANGED <<policies, unsettled, serial>>
    BY DEF ListReferences, Lookup, SkipLookup, Found
  <2> QED
    BY <2>1, UidsAreNumbers DEF TableInv
<1>2. requests[r].pc \in {"references", "lookup"} /\ requests[r].op \notin Create
  <2>1. requests[r].pc \in {"references", "lookup"}
    BY DEF ListReferences, Lookup, SkipLookup, Found
  <2> QED
    BY <2>1 DEF TableInv, Placed
<1>3. CASE Found(r)
  BY <1>1, <1>2, <1>3, AnswerStep DEF Found, Answers
<1>4. ASSUME NEW x, requests' = [requests EXCEPT ![r] = x],
             x.pc = "lookup", x.op = requests[r].op
      PROVE  TableInv' /\ UNCHANGED Table!promise
  BY <1>1, <1>2, <1>4, GoStep DEF Placed, Asked, Told, Writing
<1>5. CASE ListReferences(r)
  <2> DEFINE x == [requests[r] EXCEPT !.refs = Uid(policies), !.pc = "lookup"]
  <2>1. requests' = [requests EXCEPT ![r] = x]
    BY <1>5 DEF ListReferences, Goes
  <2>2. x.pc = "lookup" /\ x.op = requests[r].op
    BY DEF TableInv, Inv, RequestType
  <2> QED
    BY <2>1, <2>2, <1>4
<1>6. CASE Lookup(r)
  <2>1. PICK uid :
          requests' = [requests EXCEPT ![r].refs = @ \ {uid},
                                       ![r].found = @ \cup ({uid} \cap Uid(policies))]
    BY <1>6 DEF Lookup
  <2> DEFINE x == [requests[r] EXCEPT !.refs = @ \ {uid},
                                      !.found = @ \cup ({uid} \cap Uid(policies))]
  <2>2. requests' = [requests EXCEPT ![r] = x]
    BY <2>1
  <2>3. x.pc = "lookup" /\ x.op = requests[r].op
    <3>1. requests[r].pc = "lookup"
      BY <1>6 DEF Lookup
    <3> QED
      BY <3>1 DEF TableInv, Inv, RequestType
  <2> QED
    BY <2>2, <2>3, <1>4
<1>7. CASE SkipLookup(r)
  <2>1. PICK uid : requests' = [requests EXCEPT ![r].refs = @ \ {uid}, ![r].skipped = TRUE]
    BY <1>7 DEF SkipLookup
  <2> DEFINE x == [requests[r] EXCEPT !.refs = @ \ {uid}, !.skipped = TRUE]
  <2>2. requests' = [requests EXCEPT ![r] = x]
    BY <2>1
  <2>3. x.pc = "lookup" /\ x.op = requests[r].op
    <3>1. requests[r].pc = "lookup"
      BY <1>7 DEF SkipLookup
    <3> QED
      BY <3>1 DEF TableInv, Inv, RequestType
  <2> QED
    BY <2>2, <2>3, <1>4
<1> QED
  BY <1>3, <1>5, <1>6, <1>7

\* An answered handler's rows come as its claim goes.
LEMMA LeavingTable ==
  ASSUME TableInv, [Next]_vars, NEW r \in Requests, requests[r].pc # "answered",
         NEW answer \in Answers \ {"none"}, Answer(r, answer),
         policies' \cup unsettled' \subseteq policies \cup unsettled \cup Unseen({r}),
         UNCHANGED serial
  PROVE  TableInv'
<1> DEFINE x == [requests[r] EXCEPT !.pc = "answered", !.answer = answer]
<1>1. requests' = [requests EXCEPT ![r] = x]
  BY DEF Answer
<1>2. x.pc = "answered" /\ x.answer = answer
  BY DEF TableInv, Inv, RequestType
<1> HIDE DEF x
<1>3. \A q \in Requests : requests'[q] = IF q = r THEN x ELSE requests[q]
  BY <1>1 DEF TableInv, Inv
<1>4. \A q \in Requests : Placed(requests'[q])
  BY <1>2, <1>3 DEF TableInv, Placed
<1>5. serial <= serial'
  BY UidsAreNumbers DEF TableInv
<1> QED
  BY <1>2, <1>3, <1>4, <1>5, ClaimsStay DEF Writing

\* What is committed is the policy that was asked for.
LEMMA CommitTable ==
  ASSUME TableInv, [Next]_vars, NEW r \in Requests, Commit(r)
  PROVE  TableInv' /\ [Table!Next]_Table!promise
<1>1. /\ requests[r].pc = "commit" /\ Answer(r, "created")
      /\ policies' = policies \cup {Row(r)} /\ UNCHANGED <<unsettled, serial>>
      /\ Unseen({r}) = {Row(r)}
  BY DEF Commit, Unseen
<1>2. TableInv'
  BY <1>1, LeavingTable DEF Answers
<1>3. requests[r].op \in Create
  BY <1>1 DEF TableInv, Inv, Kept, Created, Writing
<1>4. Table!Tell(r, "created")
  BY <1>1, <1>3, Tells DEF TableInv
<1>5. Table!Makes({r}, {Row(r)})
  BY <1>1, <1>2, MakesRows
<1>6. Table!Created(r)
  BY <1>1, <1>4, <1>5 DEF Table!Created
<1> QED
  BY <1>2, <1>6 DEF Table!Next

\* What is left to the database may come, once, or not.
LEMMA UnseenTable ==
  ASSUME TableInv, [Next]_vars, NEW r \in Requests, Fail(r) \/ Timeout(r)
  PROVE  TableInv' /\ [Table!Next]_Table!promise
<1>1. PICK answer \in {"failed", "timeout"} : Answer(r, answer)
  BY DEF Fail, Timeout
<1>2. /\ requests[r].pc # "answered" /\ unsettled' = unsettled \cup Unseen({r})
      /\ UNCHANGED <<policies, serial>>
  BY DEF Fail, Timeout
<1>3. TableInv'
  BY <1>1, <1>2, LeavingTable DEF Answers
<1>4. CASE requests[r].pc # "commit"
  <2>1. Unseen({r}) = {}
    BY <1>4 DEF Unseen
  <2>2. UNCHANGED <<policies, unsettled>> /\ serial <= serial'
    <3>1. unsettled \cup {} = unsettled /\ serial \in Nat
      BY UidsAreNumbers DEF TableInv
    <3> QED
      BY <1>2, <2>1, <3>1
  <2> QED
    BY <1>1, <1>2, <2>2, AnswerStep DEF Answers
<1>5. CASE requests[r].pc = "commit"
  <2>1. Unseen({r}) = {Row(r)}
    BY <1>5 DEF Unseen
  <2>2. requests[r].op \in Create
    BY <1>5 DEF TableInv, Inv, Kept, Created, Writing
  <2>3. Table!Tell(r, answer)
    BY <1>1, <1>2, <2>2, Tells DEF TableInv
  <2>4. Table!Makes({r}, {Row(r)})
    BY <1>2, <1>3, <2>1, MakesRows
  <2>5. Table!Unknown(r)
    BY <1>1, <1>2, <2>1, <2>3, <2>4 DEF Table!Unknown, Table!Tell
  <2> QED
    BY <1>3, <2>5 DEF Table!Next
<1> QED
  BY <1>4, <1>5

\* The database settles what was left to it.
LEMMA SettleTable ==
  ASSUME TableInv, [Next]_vars, Settle
  PROVE  TableInv' /\ [Table!Next]_Table!promise
<1>1. /\ UNCHANGED <<serial, requests>>
      /\ \E row \in unsettled :
           unsettled' = unsettled \ {row} /\ policies' \in {policies, policies \cup {row}}
  BY DEF Settle
<1>2. TableInv'
  <2>1. policies' \cup unsettled' \subseteq policies \cup unsettled \cup Unseen({})
    BY <1>1
  <2>2. serial <= serial'
    BY <1>1, UidsAreNumbers DEF TableInv
  <2>3. \A q \in Requests : Placed(requests'[q]) /\ requests'[q] = requests[q]
    BY <1>1 DEF TableInv
  <2>4. {} \in SUBSET Requests
    OBVIOUS
  <2> QED
    BY <2>1, <2>2, <2>3, <2>4, ClaimsStay
<1>3. UNCHANGED <<Asking, Telling>>
  BY <1>1 DEF Asking, Telling
<1>4. Table!Settle
  BY <1>1, <1>3 DEF Table!Settle
<1> QED
  BY <1>2, <1>4 DEF Table!Next

\* A restart forgets the requests and leaves their COMMITs to the database.
LEMMA RestartTable ==
  ASSUME TableInv, [Next]_vars, Restart
  PROVE  TableInv' /\ [Table!Next]_Table!promise
<1>1. /\ unsettled' = unsettled \cup Unseen(Requests) /\ UNCHANGED <<policies, serial>>
      /\ \A q \in Requests : requests'[q] = Unsent
  BY DEF Restart
<1>2. TableInv'
  <2>1. \A q \in Requests : requests'[q].pc = "idle" /\ Placed(requests'[q])
    BY <1>1 DEF Unsent, Placed, Create
  <2>2. serial <= serial'
    BY <1>1, UidsAreNumbers DEF TableInv
  <2> QED
    BY <1>1, <2>1, <2>2, ClaimsStay DEF Writing
<1>3. ASSUME NEW q \in Requests, requests[q].pc = "commit"
      PROVE  Table!Pending(q)
  <2>1. Kept(requests[q], policies)
    BY DEF TableInv, Inv
  <2>2. /\ requests[q].op \in Create /\ requests[q].slug # NoSlug
        /\ requests[q].answer = "none"
    BY <1>3, <2>1, PolicyApiAssumption DEF Kept, Created, Answered, Writing
  <2>3. Asking[q] # NoSlug /\ Telling[q] = "none"
    BY <2>2 DEF Asking, Telling, Asked, Told
  <2> QED
    BY <2>3 DEF Table!Pending
<1>4. Table!Makes({q \in Requests : Table!Pending(q)}, Unseen(Requests))
  BY <1>1, <1>2, <1>3, MakesRows
<1>5. /\ Asking' = [q \in Requests |-> NoSlug]
      /\ Telling' = [q \in Requests |-> "none"]
  BY <1>1 DEF Asking, Telling, Asked, Told, Unsent, Create
<1>6. Table!Restart
  BY <1>1, <1>4, <1>5 DEF Table!Restart
<1> QED
  BY <1>2, <1>6 DEF Table!Next

\* At first there is at most one policy, and nobody asks for another.
LEMMA TableStarts == Init => TableInv /\ Table!Init
<1> SUFFICES ASSUME Init PROVE TableInv /\ Table!Init
  OBVIOUS
<1>1. unsettled = {} /\ \A r \in Requests : requests[r] = Unsent
  BY DEF Init
<1>2. CASE policies = {}
  <2>1. Table!Unique(policies \cup unsettled)
    BY <1>1, <1>2 DEF Table!Unique
  <2> QED
    BY <1>1, <1>2, <2>1, InitInv
       DEF TableInv, Claimed, Placed, Unsent, Writing, Create, Table!Init, Table!Unique,
           Asking, Telling, Asked, Told
<1>3. ASSUME NEW p \in Policies, p.uid = 1, p.detail, policies = {p}
      PROVE  TableInv /\ Table!Init
  <2>1. serial = 1
    BY <1>3, FS_Singleton DEF Init
  <2>2. Table!Unique(policies) /\ Table!Unique(policies \cup unsettled)
    BY <1>1, <1>3 DEF Table!Unique
  <2>3. p \in Table!Whole
    <3>1. /\ p = [uid |-> p.uid, slug |-> p.slug, detail |-> p.detail]
          /\ p.slug \in Slugs /\ p.detail = TRUE
      BY <1>3 DEF Policies
    <3>2. p = [uid |-> 1, slug |-> p.slug, detail |-> TRUE]
      BY <1>3, <3>1
    <3>3. [uid |-> 1, slug |-> p.slug, detail |-> TRUE] \in Table!Whole
      BY <3>1 DEF Table!Whole
    <3> QED
      BY <3>2, <3>3
  <2>4. \A r \in Requests : Claimed(r) /\ Placed(requests[r])
    BY <1>1 DEF Claimed, Placed, Unsent, Writing, Create
  <2>5. Asking = [r \in Requests |-> NoSlug] /\ Telling = [r \in Requests |-> "none"]
    BY <1>1 DEF Asking, Telling, Asked, Told, Unsent, Create
  <2>6. TableInv
    BY <1>1, <1>3, <2>1, <2>2, <2>4, InitInv DEF TableInv
  <2>7. Table!Init
    BY <1>1, <1>3, <2>2, <2>3, <2>5 DEF Table!Init
  <2> QED
    BY <2>6, <2>7
<1> QED
  BY <1>2, <1>3 DEF Init

\* Every step is one of the abstract table, or none of it.
LEMMA TableSteps ==
  ASSUME TableInv, [Next]_vars
  PROVE  TableInv' /\ [Table!Next]_Table!promise
<1>1. CASE UNCHANGED vars
  <2>1. UNCHANGED Table!promise
    BY <1>1 DEF vars, Table!promise, Asking, Telling
  <2>2. TableInv'
    BY <1>1, NextInv DEF vars, TableInv, Claimed
  <2> QED
    BY <2>1, <2>2
<1>2. ASSUME NEW r \in Requests, Send(r) \/ Receive(r)
      PROVE  TableInv' /\ [Table!Next]_Table!promise
  BY <1>2, SendTable, ReceiveTable
<1>3. ASSUME NEW r \in Requests, Handle(r) \/ SkipLookup(r)
      PROVE  TableInv' /\ [Table!Next]_Table!promise
  BY <1>3, OpeningTable, InsertTable, DetailTable, CommitTable, LookingTable DEF Handle
<1>4. ASSUME NEW r \in Requests, ReadChunk(r) \/ EndBody(r) \/ Fail(r) \/ Timeout(r)
      PROVE  TableInv' /\ [Table!Next]_Table!promise
  BY <1>4, BodyTable, UnseenTable
<1>5. CASE Settle \/ Restart
  BY <1>5, SettleTable, RestartTable
<1> QED
  BY <1>1, <1>2, <1>3, <1>4, <1>5 DEF Next

\* A creation takes effect as one step, once, or not at all, under a slug and a uid
\* that no other policy has, also when its client is not told (api/v1/policy.rs:48-152).
THEOREM CreationIsOneStep == Spec => CreatedAtOnce
<1>1. CreatedAtOnce <=> Table!Init /\ [][Table!Next]_Table!promise
  BY DEF CreatedAtOnce, Table!Spec
<1> QED
  BY <1>1, TableStarts, TableSteps, PTL DEF Spec
=============================================================================
