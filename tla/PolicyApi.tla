------------------------------- MODULE PolicyApi -------------------------------
(***************************************************************************)
(* Policies and the pool of database connections.  Administrators create     *)
(* and list policies (server/src/api/v1/policy.rs), flow requests look one up *)
(* to evaluate it (server/src/service/policy/service.rs get_ast); all of them *)
(* share the pool (main.rs:156) and the live storage of storage/src/policy.rs, *)
(* which keeps what it has read.  A handler keeps its connection while the     *)
(* live storage takes another one.                                          *)
(*                                                                         *)
(* Of a policy its slug matters, and whether the row refers to its details.  *)
(* An expression is the number of bytes of it that have been read.           *)
(***************************************************************************)
EXTENDS Integers, FiniteSets

CONSTANTS
  Requests,
  Slugs, NoSlug,
  Connections,        \* the pool's max_size
  MaxExpressionLen,   \* MAX_EXPRESSION_LEN
  Chunks,             \* the sizes of a body's chunks
  MaxUid              \* the last uid that the sequence of policies gives

ASSUME PolicyApiAssumption ==
  /\ IsFiniteSet(Requests)
  /\ NoSlug \notin Slugs
  /\ Connections \in Nat \ {0}
  /\ MaxExpressionLen \in Nat
  /\ Chunks \subseteq Nat \ {0}
  /\ MaxUid \in Nat

VARIABLES
  policies,   \* the committed rows
  unsettled,  \* the rows whose COMMIT the database has and no handler waits for
  serial,     \* the last uid that was given
  cached,     \* the uids that the live storage has read
  requests

vars == <<policies, unsettled, serial, cached, requests>>

Uids == 1 .. MaxUid
Policies == [uid : Uids, slug : Slugs, detail : BOOLEAN]

Uid(rows) == {p.uid : p \in rows}

\* slug, uid and detail are of the row that a creation writes, bytes what it has
\* read of the expression; known is what was there when a list was asked for, refs
\* the uids left to look up, found those looked up, skipped that one was not.
Unsent == [pc |-> "idle", op |-> "list", slug |-> NoSlug, valid |-> FALSE, bytes |-> 0,
           uid |-> 0, detail |-> FALSE, known |-> {}, refs |-> {}, found |-> {},
           skipped |-> FALSE, answer |-> "none"]

Row(r) == [uid |-> requests[r].uid, slug |-> requests[r].slug, detail |-> requests[r].detail]

\* The program points at which a handler has its connection, and those at which its
\* transaction has written.
Holding == {"extract", "body", "insert", "detail", "link", "commit", "references", "lookup"}
Writing == {"detail", "link", "commit"}

Free == Connections - Cardinality({r \in Requests : requests[r].pc \in Holding})

\* What preload caches: every policy there is.
Init ==
  /\ policies \in {{}} \cup {{p} : p \in {q \in Policies : q.uid = 1 /\ q.detail}}
  /\ unsettled = {}
  /\ serial = Cardinality(policies)
  /\ cached = Uid(policies)
  /\ requests = [r \in Requests |-> Unsent]

-----------------------------------------------------------------------------
(* A step of a handler *)

\* The request goes on to pc, with the fields that change.
Goes(r, pc, change) == requests' = [requests EXCEPT ![r] = [change EXCEPT !.pc = pc]]
Go(r, pc) == Goes(r, pc, requests[r])

\* The handler returns; its connection goes back and an open transaction is undone.
Answer(r, answer) ==
  requests' = [requests EXCEPT ![r].pc = "answered", ![r].answer = answer]

Create == {"expiration", "expression"}

Send(r) ==
  /\ requests[r].pc = "idle"
  /\ \/ \E op \in Create, slug \in Slugs, valid \in BOOLEAN :
          Goes(r, "session", [Unsent EXCEPT !.op = op, !.slug = slug, !.valid = valid])
     \/ Goes(r, "session", [Unsent EXCEPT !.op = "list", !.known = Uid(policies)])
     \/ \E uid \in Uid(policies) :
          Goes(r, "session", [Unsent EXCEPT !.op = "evaluate", !.refs = {uid}])
  /\ UNCHANGED <<policies, unsettled, serial, cached>>

\* AdminSession, or Session for a flow, takes a connection for its query.
Extract(r) ==
  /\ requests[r].pc = "session"
  /\ Free > 0
  /\ Go(r, "extract")
  /\ UNCHANGED <<policies, unsettled, serial, cached>>

\* It gives the connection back, whoever it lets in.  A negative max_age is then
\* refused.
Authorize(r) ==
  /\ requests[r].pc = "extract"
  /\ \/ requests[r].op # "evaluate" /\ Answer(r, "forbidden")
     \/ requests[r].op = "expiration" /\ ~requests[r].valid /\ Answer(r, "refused")
     \/ ~(requests[r].op = "expiration" /\ ~requests[r].valid) /\ Go(r, "connect")
  /\ UNCHANGED <<policies, unsettled, serial, cached>>

\* Mutant of Connect: the pool has no bound.
ConnectUnbounded(r) ==
  /\ requests[r].pc = "connect"
  /\ Go(r, CASE requests[r].op = "expression" -> "body"
             [] requests[r].op = "expiration" -> "insert"
             [] requests[r].op = "list" -> "references"
             [] OTHER -> "lookup")
  /\ UNCHANGED <<policies, unsettled, serial, cached>>

\* Defaults::connection; a creation begins its transaction.
Connect(r) ==
  /\ requests[r].pc = "connect"
  /\ Free > 0
  /\ Go(r, CASE requests[r].op = "expression" -> "body"
             [] requests[r].op = "expiration" -> "insert"
             [] requests[r].op = "list" -> "references"
             [] OTHER -> "lookup")
  /\ UNCHANGED <<policies, unsettled, serial, cached>>

-----------------------------------------------------------------------------
(* create_expression and create_expiration *)

\* Mutant of ReadChunk: what has been read is checked, not what it comes to.
ReadChunkUnchecked(r) ==
  /\ requests[r].pc = "body"
  /\ \E size \in Chunks :
       IF requests[r].bytes > MaxExpressionLen THEN Answer(r, "refused")
       ELSE requests' = [requests EXCEPT ![r].bytes = @ + size]
  /\ UNCHANGED <<policies, unsettled, serial, cached>>

\* The client sends its body in chunks of its own choice and at its own pace.
ReadChunk(r) ==
  /\ requests[r].pc = "body"
  /\ \E size \in Chunks :
       IF requests[r].bytes + size > MaxExpressionLen THEN Answer(r, "refused")
       ELSE requests' = [requests EXCEPT ![r].bytes = @ + size]
  /\ UNCHANGED <<policies, unsettled, serial, cached>>

\* The body ends; it is refused if it is not UTF-8 or does not compile.
EndBody(r) ==
  /\ requests[r].pc = "body"
  /\ IF requests[r].valid THEN Go(r, "insert") ELSE Answer(r, "refused")
  /\ UNCHANGED <<policies, unsettled, serial, cached>>

\* The unique index has an insert wait for a transaction that has written the slug.
Contended(r) ==
  \/ \E q \in Requests \ {r} :
       requests[q].pc \in Writing /\ requests[q].slug = requests[r].slug
  \/ \E row \in unsettled : row.slug = requests[r].slug

Taken(slug) == \E p \in policies : p.slug = slug

\* Mutant of InsertPolicy: the statement runs outside the transaction.
InsertPolicyDirectly(r) ==
  LET slug == requests[r].slug
  IN  /\ requests[r].pc = "insert"
      /\ serial < MaxUid
      /\ serial' = serial + 1
      /\ IF Taken(slug)
           THEN Answer(r, "conflict") /\ UNCHANGED policies
           ELSE /\ Goes(r, "detail", [requests[r] EXCEPT !.uid = serial + 1])
                /\ policies' = policies \cup {[uid |-> serial + 1, slug |-> slug, detail |-> FALSE]}
      /\ UNCHANGED <<unsettled, cached>>

\* Mutant of InsertPolicy: the slug is looked up before the insert, in place of the
\* unique index.
InsertPolicyUnindexed(r) ==
  /\ requests[r].pc = "insert"
  /\ IF serial = MaxUid THEN Answer(r, "failed")
     ELSE IF Taken(requests[r].slug) THEN Answer(r, "conflict")
     ELSE Goes(r, "detail", [requests[r] EXCEPT !.uid = serial + 1])
  /\ serial' = IF serial = MaxUid \/ Taken(requests[r].slug) THEN serial ELSE serial + 1
  /\ UNCHANGED <<policies, unsettled, cached>>

\* insert into policies: a uid is given even when the slug is taken; the statement
\* fails when there is none left.
InsertPolicy(r) ==
  /\ requests[r].pc = "insert"
  /\ \/ /\ serial = MaxUid
        /\ Answer(r, "failed")
        /\ UNCHANGED serial
     \/ /\ serial < MaxUid
        /\ ~Contended(r)
        /\ serial' = serial + 1
        /\ IF Taken(requests[r].slug)
             THEN Answer(r, "conflict")
             ELSE Goes(r, "detail", [requests[r] EXCEPT !.uid = serial + 1])
  /\ UNCHANGED <<policies, unsettled, cached>>

\* Mutant of InsertDetail: the statement is sent over a connection of its own.
InsertDetailElsewhere(r) ==
  /\ requests[r].pc = "detail"
  /\ Free > 0
  /\ Go(r, "link")
  /\ UNCHANGED <<policies, unsettled, serial, cached>>

\* insert into password_expiration_policies or expression_policies
InsertDetail(r) ==
  /\ requests[r].pc = "detail"
  /\ Go(r, "link")
  /\ UNCHANGED <<policies, unsettled, serial, cached>>

\* update policies
LinkDetail(r) ==
  /\ requests[r].pc = "link"
  /\ Goes(r, "commit", [requests[r] EXCEPT !.detail = TRUE])
  /\ UNCHANGED <<policies, unsettled, serial, cached>>

\* Mutant of Commit: the transaction is dropped.
CommitForgotten(r) ==
  /\ requests[r].pc = "commit"
  /\ Answer(r, "created")
  /\ UNCHANGED <<policies, unsettled, serial, cached>>

Commit(r) ==
  /\ requests[r].pc = "commit"
  /\ policies' = policies \cup {Row(r)}
  /\ Answer(r, "created")
  /\ UNCHANGED <<unsettled, serial, cached>>

-----------------------------------------------------------------------------
(* PolicyService::list_all and get_ast *)

\* list_all_references
ListReferences(r) ==
  /\ requests[r].pc = "references"
  /\ Goes(r, "lookup", [requests[r] EXCEPT !.refs = Uid(policies)])
  /\ UNCHANGED <<policies, unsettled, serial, cached>>

\* Mutant of Lookup: only what is cached is found.
LookupCached(r) ==
  /\ requests[r].pc = "lookup"
  /\ \E uid \in requests[r].refs :
       requests' = [requests EXCEPT ![r].refs = @ \ {uid}, ![r].found = @ \cup ({uid} \cap cached)]
  /\ UNCHANGED <<policies, unsettled, serial, cached>>

\* A lookup in the live storage: what is not cached is read over another connection.
Lookup(r) ==
  /\ requests[r].pc = "lookup"
  /\ \E uid \in requests[r].refs :
       /\ uid \in cached \/ Free > 0
       /\ cached' = cached \cup ({uid} \cap Uid(policies))
       /\ requests' = [requests EXCEPT ![r].refs = @ \ {uid},
                                       ![r].found = @ \cup ({uid} \cap Uid(policies))]
  /\ UNCHANGED <<policies, unsettled, serial>>

\* A lookup that fails is logged and the policy left out.
SkipLookup(r) ==
  /\ requests[r].pc = "lookup"
  /\ \E uid \in requests[r].refs \ cached :
       /\ Free > 0
       /\ requests' = [requests EXCEPT ![r].refs = @ \ {uid}, ![r].skipped = TRUE]
  /\ UNCHANGED <<policies, unsettled, serial, cached>>

\* The list, or the policy's evaluation.
Found(r) ==
  /\ requests[r].pc = "lookup"
  /\ requests[r].refs = {}
  /\ Answer(r, "found")
  /\ UNCHANGED <<policies, unsettled, serial, cached>>

-----------------------------------------------------------------------------
(* Failures *)

\* The rows of those COMMITs whose answer nobody will see.
Unseen(dropped) == {Row(r) : r \in {q \in dropped : requests[q].pc = "commit"}}

\* A statement fails, or the pool makes no connection.
Fail(r) ==
  /\ requests[r].pc \notin {"idle", "answered"}
  /\ unsettled' = unsettled \cup Unseen({r})
  /\ Answer(r, "failed")
  /\ UNCHANGED <<policies, serial, cached>>

\* The timeout of one second drops the handler wherever it is.
Timeout(r) ==
  /\ requests[r].pc \notin {"idle", "answered"}
  /\ unsettled' = unsettled \cup Unseen({r})
  /\ Answer(r, "timeout")
  /\ UNCHANGED <<policies, serial, cached>>

\* Sooner or later the database has carried out such a COMMIT, or has not.
Settle ==
  /\ \E row \in unsettled :
       /\ unsettled' = unsettled \ {row}
       /\ policies' \in {policies, policies \cup {row}}
  /\ UNCHANGED <<serial, cached, requests>>

\* The client has its answer.
Receive(r) ==
  /\ requests[r].pc = "answered"
  /\ requests' = [requests EXCEPT ![r] = Unsent]
  /\ UNCHANGED <<policies, unsettled, serial, cached>>

\* The server ends and starts again; preload fills the storage.
Restart ==
  /\ unsettled' = unsettled \cup Unseen(Requests)
  /\ cached' = Uid(policies)
  /\ requests' = [r \in Requests |-> Unsent]
  /\ UNCHANGED <<policies, serial>>

\* What the server does of its own: not the body, which is the client's to send.
Handle(r) ==
  \/ Extract(r) \/ Authorize(r) \/ Connect(r)
  \/ InsertPolicy(r) \/ InsertDetail(r) \/ LinkDetail(r) \/ Commit(r)
  \/ ListReferences(r) \/ Lookup(r) \/ Found(r)

Next ==
  \/ \E r \in Requests :
       Send(r) \/ Handle(r) \/ ReadChunk(r) \/ EndBody(r) \/ SkipLookup(r)
         \/ Fail(r) \/ Timeout(r) \/ Receive(r)
  \/ Settle
  \/ Restart

Spec == Init /\ [][Next]_vars

\* Handlers run, and an insert that waits is woken by the transaction it waits for;
\* the database ends every COMMIT.
\* Nothing relies on the timeout.
FairSpec ==
  /\ Spec
  /\ \A r \in Requests : WF_vars(Handle(r)) /\ SF_vars(InsertPolicy(r))
  /\ WF_vars(Settle)

-----------------------------------------------------------------------------
(* Properties *)

RequestType ==
  [pc : {"idle", "session", "connect", "answered"} \cup Holding,
   op : Create \cup {"list", "evaluate"}, slug : Slugs \cup {NoSlug}, valid : BOOLEAN,
   bytes : 0 .. MaxExpressionLen, uid : 0 .. MaxUid, detail : BOOLEAN,
   known : SUBSET Uids, refs : SUBSET Uids, found : SUBSET Uids, skipped : BOOLEAN,
   answer : {"none", "forbidden", "refused", "conflict", "created", "found", "failed", "timeout"}]

\* Types, among them that the pool is not overdrawn, and that however a body is cut
\* into chunks, no more than the limit of it is kept in memory (policy.rs:76-82).
TypeOK ==
  /\ policies \subseteq Policies /\ unsettled \subseteq Policies
  /\ serial \in 0 .. MaxUid
  /\ cached \subseteq Uids
  /\ requests \in [Requests -> RequestType]
  /\ Free >= 0

\* However creations and lists interleave, fail, are dropped or retried, no one ever
\* sees a policy without its details, of which from_row would panic
\* (storage/src/policy.rs:88-96): the three statements of create are one step.
NoHalfPolicy == \A p \in policies : p.detail

\* An answer says what is so: what was created is in the table with the uid that was
\* returned, and a conflict is with a policy that is there (policy.rs:48-101).  That
\* nothing comes of a refused creation is CreatedAtOnce's.
AnswersHold ==
  \A r \in Requests :
    /\ requests[r].answer = "created" => Row(r) \in policies
    /\ requests[r].answer = "conflict" => Taken(requests[r].slug)

\* A list whose lookups succeed names every policy that had been created when it was
\* asked for and nothing that is not there, whatever the cache holds (service.rs:70-96).
ListFaithful ==
  \A r \in Requests :
    requests[r].op = "list" /\ requests[r].answer = "found" =>
      /\ requests[r].found \subseteq Uid(policies)
      /\ requests[r].skipped \/ requests[r].known \subseteq requests[r].found

\* A creation that has read its body ends without the help of any timeout: it waits
\* for the unique index alone, never for a connection it cannot be given.
CreationsEnd ==
  \A r \in Requests :
    requests[r].pc \in {"insert"} \cup Writing ~> requests[r].pc \in {"answered", "idle"}

\* What a creation asks for and is told, in the words of PolicyTable.
Asked(req) == IF req.op \in Create THEN req.slug ELSE NoSlug
Told(req) == IF req.op \in Create THEN req.answer ELSE "none"
Asking == [r \in Requests |-> Asked(requests[r])]
Telling == [r \in Requests |-> Told(requests[r])]
Table == INSTANCE PolicyTable WITH
           table <- policies, late <- unsettled, asked <- Asking, told <- Telling

\* Created at once, once, or not at all (PolicyTable): the three statements, the unique
\* index and the transaction make a creation one step, whatever else is created, fails,
\* is dropped or retried; what the client was not told may still come about.
CreatedAtOnce == Table!Spec

=============================================================================
