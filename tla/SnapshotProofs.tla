---------------------------- MODULE SnapshotProofs ----------------------------
(***************************************************************************)
(* What Snapshot promises, for every set of stages, policies and prompts,   *)
(* every row they may be edited to and any number of edits: the frozen      *)
(* storage is closed under the references an execution may follow.          *)
(***************************************************************************)
EXTENDS Snapshot, TLAPS

-----------------------------------------------------------------------------
(* Sequences and their elements *)

\* The elements of a concatenation are those of its parts.
LEMMA ElementsConcat ==
  ASSUME NEW S, NEW s \in Seq(S), NEW t \in Seq(S)
  PROVE  Elements(s \o t) = Elements(s) \cup Elements(t)
<1>1. ASSUME NEW e \in Elements(s \o t) PROVE e \in Elements(s) \cup Elements(t)
  <2>1. PICK i \in DOMAIN (s \o t) : e = (s \o t)[i]  BY <1>1 DEF Elements
  <2>2. CASE i <= Len(s)  BY <2>1, <2>2 DEF Elements
  <2>3. CASE i > Len(s)
    <3>1. i - Len(s) \in DOMAIN t /\ e = t[i - Len(s)]  BY <2>1, <2>3
    <3>2. QED  BY <3>1 DEF Elements
  <2>4. QED  BY <2>1, <2>2, <2>3
<1>2. ASSUME NEW i \in DOMAIN s PROVE s[i] \in Elements(s \o t)
  <2>1. i \in DOMAIN (s \o t) /\ (s \o t)[i] = s[i]  OBVIOUS
  <2>2. QED  BY <2>1 DEF Elements
<1>3. ASSUME NEW i \in DOMAIN t PROVE t[i] \in Elements(s \o t)
  <2>1. Len(s) + i \in DOMAIN (s \o t) /\ (s \o t)[Len(s) + i] = t[i]  OBVIOUS
  <2>2. QED  BY <2>1 DEF Elements
<1>4. QED  BY <1>1, <1>2, <1>3 DEF Elements

\* An element of a sequence is its head or in its tail.
LEMMA ElementsSplit ==
  ASSUME NEW S, NEW s \in Seq(S), s # <<>>
  PROVE  /\ Elements(s) = {Head(s)} \cup Elements(Tail(s))
         /\ Head(s) \in S /\ Tail(s) \in Seq(S)
<1>1. Head(s) = s[1] /\ 1 \in DOMAIN s  OBVIOUS
<1>2. ASSUME NEW i \in DOMAIN s PROVE s[i] \in {Head(s)} \cup Elements(Tail(s))
  <2>1. CASE i = 1  BY <1>1, <2>1
  <2>2. CASE i # 1
    <3>1. i - 1 \in DOMAIN Tail(s) /\ s[i] = Tail(s)[i - 1]  BY <2>2
    <3>2. QED  BY <3>1 DEF Elements
  <2>3. QED  BY <2>1, <2>2
<1>3. ASSUME NEW i \in DOMAIN Tail(s) PROVE Tail(s)[i] \in Elements(s)
  <2>1. i + 1 \in DOMAIN s /\ s[i + 1] = Tail(s)[i]  OBVIOUS
  <2>2. QED  BY <2>1 DEF Elements
<1>4. QED  BY <1>1, <1>2, <1>3 DEF Elements

\* Append adds one element.
LEMMA ElementsAppend ==
  ASSUME NEW S, NEW s \in Seq(S), NEW e \in S
  PROVE  /\ Elements(Append(s, e)) = Elements(s) \cup {e}
         /\ Append(s, e) \in Seq(S)
<1>1. ASSUME NEW i \in DOMAIN Append(s, e) PROVE Append(s, e)[i] \in Elements(s) \cup {e}
  BY <1>1 DEF Elements
<1>2. ASSUME NEW i \in DOMAIN s PROVE s[i] \in Elements(Append(s, e))
  <2>1. i \in DOMAIN Append(s, e) /\ Append(s, e)[i] = s[i]  OBVIOUS
  <2>2. QED  BY <2>1 DEF Elements
<1>3. e \in Elements(Append(s, e))
  <2>1. Len(s) + 1 \in DOMAIN Append(s, e) /\ Append(s, e)[Len(s) + 1] = e  OBVIOUS
  <2>2. QED  BY <2>1 DEF Elements
<1>4. QED  BY <1>1, <1>2, <1>3 DEF Elements

-----------------------------------------------------------------------------
(* Rows *)

\* What a row refers to is a sequence of references.
LEMMA Rows ==
  /\ \A f \in FlowRows :
       /\ f.policies \in Seq(References)
       /\ Len(f.entries) \in Nat /\ DOMAIN f.entries = 1 .. Len(f.entries)
       /\ \A i \in DOMAIN f.entries :
            f.entries[i].policies \in Seq(References) /\ f.entries[i].stage \in References
  /\ \A s \in Stages : \A row \in StageRows[s] : Needs(row) \in Seq(References)
<1>1. ASSUME NEW f \in FlowRows
      PROVE  /\ f.policies \in Seq(References)
             /\ Len(f.entries) \in Nat /\ DOMAIN f.entries = 1 .. Len(f.entries)
             /\ \A i \in DOMAIN f.entries :
                  f.entries[i].policies \in Seq(References) /\ f.entries[i].stage \in References
  <2>1. f \in FlowRowType  BY <1>1, SnapshotAssumption
  <2>2. f.policies \in Seq(Policies)
        /\ f.entries \in Seq([policies : Seq(Policies), stage : Stages])
    BY <2>1 DEF FlowRowType
  <2>3. \A p \in Seq(Policies) : p \in Seq(References)  BY DEF References
  <2>4. \A i \in DOMAIN f.entries : f.entries[i] \in [policies : Seq(Policies), stage : Stages]
    <3> DEFINE Entry == [policies : Seq(Policies), stage : Stages]
    <3>1. f.entries \in Seq(Entry)  BY <2>2
    <3> HIDE DEF Entry
    <3>2. \A i \in DOMAIN f.entries : f.entries[i] \in Entry  BY <3>1
    <3> USE DEF Entry
    <3>3. QED  BY <3>2
  <2>5. QED  BY <2>2, <2>3, <2>4 DEF References
<1>2. ASSUME NEW s \in Stages, NEW row \in StageRows[s] PROVE Needs(row) \in Seq(References)
  <2>1. row \in StageRowType  BY <1>2, SnapshotAssumption
  <2>2. row.password \in Stages \cup {NoStage} /\ row.prompts \in Seq(Prompts)
    BY <2>1 DEF StageRowType
  <2>3. CASE row.password = NoStage
    <3>1. row.prompts \in Seq(References)  BY <2>2 DEF References
    <3>2. QED  BY <2>3, <3>1 DEF Needs
  <2>4. CASE row.password # NoStage
    <3>1. row.password \in References  BY <2>2, <2>4 DEF References
    <3>2. <<row.password>> \in Seq(References)  BY <3>1
    <3>3. QED  BY <2>4, <3>2 DEF Needs
  <2>5. QED  BY <2>3, <2>4
<1>3. QED  BY <1>1, <1>2

-----------------------------------------------------------------------------
(* The invariant: everything needed so far is kept or about to be looked up *)

NeededSoFar == Visited(entry) \cup Wanted

Walk ==
  /\ phase \in {"idle", "flow"} => entry = 0 /\ todo = <<>> /\ DOMAIN copies = {}
  /\ phase = "walking" => NeededSoFar \subseteq Frozen \cup Elements(todo)
  /\ Closed

SnapshotInv == TypeOK /\ Walk

\* A new snapshot is empty and has nothing to look up.
LEMMA InitInv == Init => SnapshotInv
<1> SUFFICES ASSUME Init PROVE SnapshotInv  OBVIOUS
<1> USE DEF Init
<1>1. Len(flow.entries) \in Nat  BY Rows
<1>2. <<>> \in Seq(References)  OBVIOUS
<1>3. DOMAIN copies = {}  OBVIOUS
<1>4. TypeOK  BY <1>1, <1>2, <1>3 DEF TypeOK, Phases
<1>5. Walk  BY <1>3 DEF Walk, Closed
<1>6. QED  BY <1>4, <1>5 DEF SnapshotInv

\* Neither an edit of a live row nor the end of the request touches the snapshot.
LEMMA RowsEdited ==
  ASSUME SnapshotInv, EditFlow \/ (\E s \in Stages : EditStage(s))
  PROVE  SnapshotInv'
<1>1. UNCHANGED <<phase, flow, entry, todo, copies, others>>  BY DEF EditFlow, EditStage
<1>2. flow_row' \in FlowRows /\ \A s \in Stages : stage_rows'[s] \in StageRows[s]
  <2>1. CASE EditFlow  BY <2>1 DEF EditFlow, SnapshotInv, TypeOK
  <2>2. ASSUME NEW s \in Stages, EditStage(s)
        PROVE  flow_row' \in FlowRows /\ \A q \in Stages : stage_rows'[q] \in StageRows[q]
    <3>1. PICK row \in StageRows[s] : stage_rows' = [stage_rows EXCEPT ![s] = row]
      BY <2>2 DEF EditStage
    <3>2. \A q \in Stages : stage_rows'[q] \in StageRows[q]
      <4>1. SUFFICES ASSUME NEW q \in Stages PROVE stage_rows'[q] \in StageRows[q]  OBVIOUS
      <4>2. stage_rows[q] \in StageRows[q]  BY DEF SnapshotInv, TypeOK
      <4>3. stage_rows'[q] \in {row, stage_rows[q]}  BY <3>1
      <4>4. QED  BY <3>1, <4>2, <4>3
    <3>3. QED  BY <2>2, <3>2 DEF EditStage, SnapshotInv, TypeOK
  <2>3. QED  BY <2>1, <2>2
<1>3. QED
  BY <1>1, <1>2 DEF SnapshotInv, TypeOK, Walk, Closed, Needed, NeededSoFar, Visited, Wanted, Frozen

\* Looking the flow up begins the walk with the policies of its bindings.
LEMMA LookupStarts ==
  ASSUME SnapshotInv, Start \/ LookupFlow
  PROVE  SnapshotInv'
<1>1. CASE Start
  <2> USE <1>1 DEF Start
  <2>1. UNCHANGED <<rows, entry, todo, copies, others>> /\ flow' = flow_row
        /\ phase' \in {"none", "flow"} /\ phase = "idle"
    OBVIOUS
  <2>2. entry = 0 /\ todo = <<>> /\ DOMAIN copies = {}  BY <2>1 DEF SnapshotInv, Walk
  <2>3. Len(flow'.entries) \in Nat  BY <2>1, Rows DEF SnapshotInv, TypeOK
  <2>4. TypeOK'  BY <2>1, <2>2, <2>3 DEF SnapshotInv, TypeOK, Phases, rows
  <2>5. Walk'  BY <2>1, <2>2 DEF Walk, Closed, rows
  <2>6. QED  BY <2>4, <2>5 DEF SnapshotInv
<1>2. CASE LookupFlow
  <2>1. UNCHANGED <<flow_row, stage_rows, flow, entry, copies, others>> /\ todo' = flow.policies
        /\ phase' = "walking" /\ phase = "flow"
    BY <1>2 DEF LookupFlow, rows
  <2>2. entry = 0 /\ DOMAIN copies = {}  BY <2>1 DEF SnapshotInv, Walk
  <2>3. TypeOK'  BY <2>1, Rows DEF SnapshotInv, TypeOK, Phases
  <2>4. NeededSoFar' = Elements(todo')  BY <2>1, <2>2 DEF NeededSoFar, Visited, Wanted
  <2>5. Walk'  BY <2>1, <2>4 DEF Walk, Closed
  <2>6. QED  BY <2>3, <2>5 DEF SnapshotInv
<1>3. QED  BY <1>1, <1>2

\* A lookup keeps what it took from todo; a new copy's references are put there,
\* and what only the copy it replaces referred to was kept before or is still to do.
LEMMA LookupKeeps ==
  ASSUME SnapshotInv, Lookup
  PROVE  SnapshotInv'
<1> DEFINE ref == Head(todo)
<1>1. /\ UNCHANGED <<flow_row, stage_rows, phase, flow, entry>>
      /\ phase = "walking" /\ todo # <<>>
  BY DEF Lookup, rows
<1>2. todo \in Seq(References)  BY DEF SnapshotInv, TypeOK
<1>3. /\ Elements(todo) = {ref} \cup Elements(Tail(todo))
      /\ ref \in References /\ Tail(todo) \in Seq(References)
  BY <1>1, <1>2, ElementsSplit
<1>4. NeededSoFar \subseteq Frozen \cup Elements(todo)  BY <1>1 DEF SnapshotInv, Walk
<1>5. CASE ref \in Stages
  <2> DEFINE new == Needs(stage_rows[ref])
  <2>1. /\ copies' = [s \in DOMAIN copies \cup {ref} |->
                        IF s = ref THEN stage_rows[ref] ELSE copies[s]]
        /\ todo' = new \o Tail(todo) /\ others' = others
    BY <1>5 DEF Lookup
  <2>2. stage_rows[ref] \in StageRows[ref]  BY <1>5 DEF SnapshotInv, TypeOK
  <2>3. new \in Seq(References)  BY <1>5, <2>2, Rows
  <2>4. Elements(todo') = Elements(new) \cup Elements(Tail(todo)) /\ todo' \in Seq(References)
    <3> DEFINE rest == Tail(todo)
    <3>1. new \in Seq(References) /\ rest \in Seq(References)  BY <1>3, <2>3
    <3>2. todo' = new \o rest  BY <2>1
    <3> HIDE DEF new, rest
    <3>3. Elements(new \o rest) = Elements(new) \cup Elements(rest)  BY <3>1, ElementsConcat
    <3>4. todo' \in Seq(References)  BY <3>1, <3>2
    <3> USE DEF rest
    <3>5. QED  BY <3>2, <3>3, <3>4
  <2>5. Frozen' = Frozen \cup {ref}  BY <2>1 DEF Frozen
  <2>6. NeededSoFar' \subseteq NeededSoFar \cup Elements(new)
    <3>1. \A s \in DOMAIN copies' :
            \/ s = ref /\ copies'[s] = stage_rows[ref]
            \/ s \in DOMAIN copies /\ copies'[s] = copies[s]
      BY <2>1
    <3>2. Wanted' \subseteq Wanted \cup Elements(new)  BY <3>1 DEF Wanted
    <3>3. Visited(entry)' = Visited(entry)  BY <1>1 DEF Visited
    <3>4. QED  BY <3>2, <3>3 DEF NeededSoFar
  <2>7. NeededSoFar' \subseteq Frozen' \cup Elements(todo')
    BY <1>3, <1>4, <2>4, <2>5, <2>6
  <2>8. TypeOK'
    <3>1. DOMAIN copies' \subseteq Stages /\ \A s \in DOMAIN copies' : copies'[s] \in StageRows[s]
      BY <1>5, <2>1, <2>2 DEF SnapshotInv, TypeOK
    <3>2. QED  BY <1>1, <2>1, <2>4, <3>1 DEF SnapshotInv, TypeOK
  <2>9. QED  BY <1>1, <2>7, <2>8 DEF SnapshotInv, Walk, Closed
<1>6. CASE ref \notin Stages
  <2>1. others' = others \cup {ref} /\ todo' = Tail(todo) /\ copies' = copies
    BY <1>6 DEF Lookup
  <2>2. Frozen' = Frozen \cup {ref} /\ NeededSoFar' = NeededSoFar
    BY <1>1, <2>1 DEF Frozen, NeededSoFar, Visited, Wanted
  <2>3. TypeOK'  BY <1>1, <1>3, <2>1 DEF SnapshotInv, TypeOK
  <2>4. QED  BY <1>1, <1>3, <1>4, <2>1, <2>2, <2>3 DEF SnapshotInv, Walk, Closed
<1>7. QED  BY <1>5, <1>6

\* An entry is entered with its policies and its stage to be looked up.
LEMMA NextEntryInv ==
  ASSUME SnapshotInv, NextEntry
  PROVE  SnapshotInv'
<1> DEFINE next == flow.entries[entry + 1]
<1>1. /\ UNCHANGED <<flow_row, stage_rows, phase, flow, copies, others>>
      /\ phase = "walking" /\ todo = <<>> /\ entry < Len(flow.entries)
      /\ entry' = entry + 1 /\ todo' = Append(next.policies, next.stage)
  BY DEF NextEntry, rows
<1>2. flow \in FlowRows /\ entry \in 0 .. Len(flow.entries) /\ Len(flow.entries) \in Nat
  BY Rows DEF SnapshotInv, TypeOK
<1>3. entry + 1 \in DOMAIN flow.entries  BY <1>1, <1>2, Rows
<1>4. next.policies \in Seq(References) /\ next.stage \in References  BY <1>2, <1>3, Rows
<1>5. /\ Elements(todo') = Elements(next.policies) \cup {next.stage}
      /\ todo' \in Seq(References)
  <2> HIDE DEF next
  <2>1. QED  BY <1>1, <1>4, ElementsAppend
<1>6. NeededSoFar' \subseteq NeededSoFar \cup Elements(todo')
  <2>1. 1 .. (entry + 1) = (1 .. entry) \cup {entry + 1}  BY <1>2
  <2>2. QED  BY <1>1, <1>5, <2>1 DEF NeededSoFar, Visited, Wanted
<1>7. Elements(todo) = {}  BY <1>1 DEF Elements
<1>8. NeededSoFar \subseteq Frozen  BY <1>1, <1>7 DEF SnapshotInv, Walk
<1>9. Frozen' = Frozen  BY <1>1 DEF Frozen
<1>10. TypeOK'  BY <1>1, <1>2, <1>5 DEF SnapshotInv, TypeOK
<1>11. QED  BY <1>1, <1>6, <1>8, <1>9, <1>10 DEF SnapshotInv, Walk, Closed

\* With nothing left to look up, all that is needed is kept.
LEMMA FreezeClosed ==
  ASSUME SnapshotInv, Freeze \/ Drop
  PROVE  SnapshotInv'
<1>1. UNCHANGED <<flow_row, stage_rows, flow, entry, todo, copies, others>>
      /\ phase' \in {"started", "dropped"}
  BY DEF Freeze, Drop, rows
<1>2. TypeOK'  BY <1>1 DEF SnapshotInv, TypeOK, Phases
<1>3. CASE Freeze
  <2>1. phase = "walking" /\ todo = <<>> /\ entry = Len(flow.entries)  BY <1>3 DEF Freeze
  <2>2. NeededSoFar = Needed  BY <2>1 DEF NeededSoFar, Needed
  <2>3. Elements(todo) = {}  BY <2>1 DEF Elements
  <2>4. Needed \subseteq Frozen  BY <2>1, <2>2, <2>3 DEF SnapshotInv, Walk
  <2>5. Needed' = Needed /\ Frozen' = Frozen  BY <1>1 DEF Needed, Visited, Wanted, Frozen
  <2>6. QED  BY <1>1, <1>2, <2>4, <2>5 DEF SnapshotInv, Walk, Closed
<1>4. CASE Drop
  <2>1. phase' = "dropped"  BY <1>4 DEF Drop
  <2>2. QED  BY <1>2, <2>1 DEF SnapshotInv, Walk, Closed
<1>5. QED  BY <1>3, <1>4

-----------------------------------------------------------------------------
\* Every step of the start, and every edit, keeps the invariant.
THEOREM SnapshotInvariant == Spec => []SnapshotInv
<1>1. Init => SnapshotInv  BY InitInv
<1>2. SnapshotInv /\ [Next]_vars => SnapshotInv'
  <2> SUFFICES ASSUME SnapshotInv, [Next]_vars PROVE SnapshotInv'  OBVIOUS
  <2>1. CASE EditFlow  BY <2>1, RowsEdited
  <2>2. CASE \E s \in Stages : EditStage(s)  BY <2>2, RowsEdited
  <2>3. CASE Start  BY <2>3, LookupStarts
  <2>4. CASE LookupFlow  BY <2>4, LookupStarts
  <2>5. CASE Lookup  BY <2>5, LookupKeeps
  <2>6. CASE NextEntry  BY <2>6, NextEntryInv
  <2>7. CASE Freeze  BY <2>7, FreezeClosed
  <2>8. CASE Drop  BY <2>8, FreezeClosed
  <2>9. CASE UNCHANGED vars
    BY <2>9 DEF vars, SnapshotInv, TypeOK, Walk, Closed, Needed, NeededSoFar, Visited, Wanted, Frozen
  <2>10. QED
    BY <2>1, <2>2, <2>3, <2>4, <2>5, <2>6, <2>7, <2>8, <2>9 DEF Next, StartStep
<1>3. QED  BY <1>1, <1>2, PTL DEF Spec

\* The lookups of a start never leave the flow that was found, nor the references
\* that the storages know.
THEOREM SnapshotTyping == Spec => []TypeOK
<1>1. SnapshotInv => TypeOK  BY DEF SnapshotInv
<1>2. QED  BY <1>1, SnapshotInvariant, PTL

\* The frozen storage of every execution holds all that the execution may ask it
\* for (executor.rs:114-116): DummyStorage::find_id finds every reference.
THEOREM FrozenStorageIsClosed == Spec => []Closed
<1>1. SnapshotInv => Closed  BY DEF SnapshotInv, Walk
<1>2. QED  BY <1>1, SnapshotInvariant, PTL

=============================================================================
