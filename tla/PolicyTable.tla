----------------------------- MODULE PolicyTable -----------------------------
(***************************************************************************)
(* What the policy API promises those who create policies.  A creation is   *)
(* one step: it adds a whole policy under a slug and a uid of its own, and   *)
(* is told so, or adds nothing.  One that the client is told nothing of may  *)
(* still be carried out, once, and until that is settled its slug is nobody  *)
(* else's.                                                                   *)
(***************************************************************************)
EXTENDS Naturals

CONSTANTS Requests, Slugs, NoSlug

VARIABLES
  table,   \* the policies
  late,    \* those that may still turn up in it
  asked,   \* the slug that a request is to create
  told     \* its answer, "none" before

promise == <<table, late, asked, told>>

Whole == [uid : Nat \ {0}, slug : Slugs, detail : {TRUE}]

\* Neither a slug nor a uid is given to two policies.
Unique(rows) == \A p, q \in rows : p.slug = q.slug \/ p.uid = q.uid => p = q

Pending(r) == asked[r] # NoSlug /\ told[r] = "none"

\* Policies that `makers` have asked for, and nothing like them is there or to come.
Makes(makers, rows) ==
  /\ rows \subseteq Whole
  /\ rows \cap (table \cup late) = {}
  /\ Unique(table \cup late \cup rows)
  /\ \A p \in rows : \E r \in makers : p.slug = asked[r]

Tell(r, answer) ==
  /\ Pending(r)
  /\ told' = [told EXCEPT ![r] = answer]
  /\ UNCHANGED asked

Init ==
  /\ table \subseteq Whole /\ Unique(table)
  /\ late = {}
  /\ asked = [r \in Requests |-> NoSlug]
  /\ told = [r \in Requests |-> "none"]

Ask(r) ==
  /\ asked[r] = NoSlug
  /\ \E slug \in Slugs : asked' = [asked EXCEPT ![r] = slug]
  /\ UNCHANGED <<table, late, told>>

Created(r) ==
  /\ Tell(r, "created")
  /\ \E p \in table' : table' = table \cup {p} /\ Makes({r}, {p})
  /\ UNCHANGED late

Declined(r) ==
  /\ \/ Tell(r, "conflict") /\ \E p \in table : p.slug = asked[r]
     \/ Tell(r, "forbidden") \/ Tell(r, "refused")
  /\ UNCHANGED <<table, late>>

\* The client is not told what became of its creation.
Unknown(r) ==
  /\ Tell(r, "failed") \/ Tell(r, "timeout")
  /\ \/ UNCHANGED late
     \/ \E p \in late' : late' = late \cup {p} /\ Makes({r}, {p})
  /\ UNCHANGED table

Forget(r) ==
  /\ asked[r] # NoSlug /\ ~Pending(r)
  /\ asked' = [asked EXCEPT ![r] = NoSlug]
  /\ told' = [told EXCEPT ![r] = "none"]
  /\ UNCHANGED <<table, late>>

Settle ==
  /\ \E p \in late : late' = late \ {p} /\ table' \in {table, table \cup {p}}
  /\ UNCHANGED <<asked, told>>

Restart ==
  /\ asked' = [r \in Requests |-> NoSlug]
  /\ told' = [r \in Requests |-> "none"]
  /\ \E rows \in SUBSET late' : late' = late \cup rows /\ Makes({r \in Requests : Pending(r)}, rows)
  /\ UNCHANGED table

Next ==
  \/ \E r \in Requests : Ask(r) \/ Created(r) \/ Declined(r) \/ Unknown(r) \/ Forget(r)
  \/ Settle
  \/ Restart

Spec == Init /\ [][Next]_promise

=============================================================================
