------------------------------- MODULE Snapshot -------------------------------
(***************************************************************************)
(* The snapshot a flow execution takes of the storage when it starts        *)
(* (server/src/executor.rs start, storage/src/lib.rs create_proxied and      *)
(* create_freezed, the reverse lookups of storage/src/flow.rs and stage.rs). *)
(* Every lookup through the proxy leaves a copy behind; the copies become    *)
(* the frozen storage, which panics when asked for anything else.  The       *)
(* lookups are queries, and the rows they read are edited meanwhile.         *)
(*                                                                         *)
(* A row is what it refers to: nothing else of it matters here.              *)
(***************************************************************************)
EXTENDS Integers, Sequences

CONSTANTS
  Stages, Policies, Prompts,   \* the uids of their rows
  NoStage,                     \* Option::None of an embedded password stage
  FlowRows,                    \* what the row of the flow may be edited to
  StageRows                    \* what the row of a stage may be edited to

References == Stages \cup Policies \cup Prompts

\* A flow's policies are those of its bindings, an entry's those of the entry's.
FlowRowType ==
  [policies : Seq(Policies), entries : Seq([policies : Seq(Policies), stage : Stages])]

\* An identification stage may have a password stage, a prompt stage prompts.
StageRowType == [password : Stages \cup {NoStage}, prompts : Seq(Prompts)]

ASSUME SnapshotAssumption ==
  /\ NoStage \notin Stages
  /\ Stages \cap (Policies \cup Prompts) = {}
  /\ FlowRows \subseteq FlowRowType
  /\ StageRows \in [Stages -> SUBSET StageRowType]

VARIABLES
  flow_row, stage_rows,   \* the live rows
  phase,                  \* how far start() is
  flow,                   \* the flow that start() has looked up by its slug
  entry,                  \* the entry whose lookups reverse_lookup is at
  todo,                   \* the lookups left of it
  copies,                 \* the stages behind the proxy, with their rows
  others                  \* the policies and prompts behind it

rows == <<flow_row, stage_rows>>
vars == <<flow_row, stage_rows, phase, flow, entry, todo, copies, others>>

\* idle, in reverse_lookup before and after the lookup of the flow, and the
\* three outcomes: an execution, None, and a panic or a dropped request.
Phases == {"idle", "flow", "walking", "started", "none", "dropped"}

Frozen == DOMAIN copies \cup others

Init ==
  /\ flow_row \in FlowRows
  /\ stage_rows \in [Stages -> UNION {StageRows[s] : s \in Stages}]
  /\ \A s \in Stages : stage_rows[s] \in StageRows[s]
  /\ phase = "idle"
  /\ flow = flow_row
  /\ entry = 0
  /\ todo = <<>>
  /\ copies = [s \in {} |-> 0]
  /\ others = {}

-----------------------------------------------------------------------------
(* The rows are edited at any time; nothing that is referred to is deleted *)

EditFlow ==
  /\ flow_row' \in FlowRows
  /\ UNCHANGED <<stage_rows, phase, flow, entry, todo, copies, others>>

EditStage(s) ==
  /\ \E row \in StageRows[s] : stage_rows' = [stage_rows EXCEPT ![s] = row]
  /\ UNCHANGED <<flow_row, phase, flow, entry, todo, copies, others>>

-----------------------------------------------------------------------------
(* FlowExecutor::start *)

\* The flow is looked up by its slug; without entries there is no execution.
Start ==
  /\ phase = "idle"
  /\ flow' = flow_row
  /\ phase' = IF Len(flow_row.entries) = 0 THEN "none" ELSE "flow"
  /\ UNCHANGED <<rows, entry, todo, copies, others>>

\* reverse_lookup looks the flow up again, by its uid, and drops what it finds.
LookupFlow ==
  /\ phase = "flow"
  /\ phase' = "walking"
  /\ todo' = flow.policies
  /\ UNCHANGED <<rows, flow, entry, copies, others>>

\* Mutant of Needs: an absent password stage is looked up as well.
NeedsOption(row) == <<row.password>> \o row.prompts

\* What reverse_lookup of a stage looks up.
Needs(row) == IF row.password = NoStage THEN row.prompts ELSE <<row.password>>

\* Mutant of Lookup: the references of a stage met before are not followed again.
LookupFollowingOnce ==
  /\ phase = "walking"
  /\ todo # <<>>
  /\ LET ref == Head(todo)
     IN  IF ref \in Stages
           THEN /\ copies' = [s \in DOMAIN copies \cup {ref} |->
                                IF s = ref THEN stage_rows[ref] ELSE copies[s]]
                /\ todo' = IF ref \in DOMAIN copies THEN Tail(todo)
                           ELSE Needs(stage_rows[ref]) \o Tail(todo)
                /\ UNCHANGED others
           ELSE /\ others' = others \cup {ref}
                /\ todo' = Tail(todo)
                /\ UNCHANGED copies
  /\ UNCHANGED <<rows, phase, flow, entry>>

\* Mutant of Lookup: the stage a reference leads to is looked up for ever.
LookupAgain ==
  /\ phase = "walking"
  /\ todo # <<>>
  /\ IF Head(todo) \in Stages
       THEN UNCHANGED <<others, todo>>
       ELSE others' = others \cup {Head(todo)} /\ todo' = Tail(todo)
  /\ UNCHANGED <<rows, phase, flow, entry, copies>>

\* The next lookup through the proxy keeps a copy; a stage's own references are
\* looked up next.
Lookup ==
  /\ phase = "walking"
  /\ todo # <<>>
  /\ LET ref == Head(todo)
     IN  IF ref \in Stages
           THEN /\ copies' = [s \in DOMAIN copies \cup {ref} |->
                                IF s = ref THEN stage_rows[ref] ELSE copies[s]]
                /\ todo' = Needs(stage_rows[ref]) \o Tail(todo)
                /\ UNCHANGED others
           ELSE /\ others' = others \cup {ref}
                /\ todo' = Tail(todo)
                /\ UNCHANGED copies
  /\ UNCHANGED <<rows, phase, flow, entry>>

\* The policies of an entry's bindings, then its stage.
NextEntry ==
  /\ phase = "walking"
  /\ todo = <<>>
  /\ entry < Len(flow.entries)
  /\ entry' = entry + 1
  /\ todo' = Append(flow.entries[entry + 1].policies, flow.entries[entry + 1].stage)
  /\ UNCHANGED <<rows, phase, flow, copies, others>>

\* create_freezed; the execution is inserted into the cache.
Freeze ==
  /\ phase = "walking"
  /\ todo = <<>>
  /\ entry = Len(flow.entries)
  /\ phase' = "started"
  /\ UNCHANGED <<rows, flow, entry, todo, copies, others>>

\* A lookup fails and its expect panics, or the request is dropped at an await.
Drop ==
  /\ phase \in {"flow", "walking"}
  /\ phase' = "dropped"
  /\ UNCHANGED <<rows, flow, entry, todo, copies, others>>

StartStep == Start \/ LookupFlow \/ Lookup \/ NextEntry \/ Freeze

Next == EditFlow \/ (\E s \in Stages : EditStage(s)) \/ StartStep \/ Drop

Spec == Init /\ [][Next]_vars

\* The handler that starts the execution runs and its queries are answered.
FairSpec == Spec /\ WF_vars(StartStep)

-----------------------------------------------------------------------------
(* Properties *)

Elements(seq) == {seq[i] : i \in DOMAIN seq}

\* What lookup_stage and lookup_policy may ask of the frozen storage: the policies
\* of the flow's bindings, the policies and the stages of its first n entries, and
\* the references of the copies made of stages.
Visited(n) ==
  Elements(flow.policies) \cup
  UNION {Elements(flow.entries[i].policies) \cup {flow.entries[i].stage} : i \in 1 .. n}

Wanted == UNION {Elements(Needs(copies[s])) : s \in DOMAIN copies}

Needed == Visited(Len(flow.entries)) \cup Wanted

TypeOK ==
  /\ flow_row \in FlowRows /\ flow \in FlowRows
  /\ \A s \in Stages : stage_rows[s] \in StageRows[s]
  /\ phase \in Phases
  /\ entry \in 0 .. Len(flow.entries)
  /\ todo \in Seq(References)
  /\ DOMAIN copies \subseteq Stages
  /\ \A s \in DOMAIN copies : copies[s] \in StageRows[s]
  /\ others \subseteq References

\* However the rows are edited while an execution starts, its frozen storage
\* holds everything the execution may ask it for: DummyStorage::find_id never
\* panics, although no two of the copies need be of the same moment.
Closed == phase = "started" => Needed \subseteq Frozen

\* Stages that embed one another for ever, as the rows are now.
Cyclic ==
  \E ring \in SUBSET Stages \ {{}} : \A s \in ring : stage_rows[s].password \in ring

\* Once the rows are left alone and no stage embeds itself, however indirectly, a
\* start that is under way ends, whatever the rows were while it went on: copies of
\* different moments make no ring of stages for reverse_lookup to go round in.
\* The condition is what the code relies on.  The schema lets a stage embed any
\* stage, and reverse_lookup goes round a ring without end, and round one that edits
\* close behind it as well, although no ring is ever in the rows.
StartEnds ==
  <>[][FALSE]_rows /\ <>[]~Cyclic => (phase = "flow" ~> phase \in {"started", "dropped"})

=============================================================================
