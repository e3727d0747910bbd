------------------------------- MODULE FlowWalk -------------------------------
(***************************************************************************)
(* What a flow execution promises the session that submits to it one form   *)
(* at a time: a walk along the flow's entries.  The walk passes an          *)
(* identification entry only with somebody identified and a password entry  *)
(* only with that user's password proven; identifying somebody, again or    *)
(* for the first time, takes the mark away; and the session is bound only   *)
(* to a user who has proven the password, after a UserLogin entry has been  *)
(* passed.                                                                  *)
(***************************************************************************)
EXTENDS FlowCheck

CONSTANT Flows

VARIABLES
  flow,
  position, completed,   \* where the walk is
  who, proven,           \* who was identified, and whether marked as proven
  provers,               \* who has given the right password
  bound                  \* whom the session belongs to

walk == <<flow, position, completed, who, proven, provers, bound>>

Here == flow.entries[position].stage
AsksPassword ==
  \/ Here.kind = "Password"
  \/ Here.kind = "Identification" /\ Here.password # "none"

Init ==
  /\ flow \in Flows
  /\ position = 1 /\ completed = FALSE
  /\ who = NoUser /\ proven = FALSE /\ provers = {}
  /\ bound = NoUser

Identify ==
  /\ ~completed /\ Here.kind = "Identification"
  /\ who' \in Users /\ proven' = FALSE
  /\ UNCHANGED <<flow, position, completed, provers, bound>>

\* The right password was given, ...
Prove ==
  /\ ~completed /\ AsksPassword /\ Here.internal
  /\ who # NoUser
  /\ provers' = provers \cup {who}
  /\ UNCHANGED <<flow, position, completed, who, proven, bound>>

\* ... and whoever is identified is marked.
Mark ==
  /\ ~completed /\ AsksPassword
  /\ who \in provers
  /\ proven' = TRUE
  /\ UNCHANGED <<flow, position, completed, who, provers, bound>>

Advance ==
  /\ ~completed
  /\ Here.kind = "Identification" => who # NoUser
  /\ AsksPassword => proven
  /\ IF position < Len(flow.entries)
       THEN position' = position + 1 /\ UNCHANGED completed
       ELSE completed' = TRUE /\ UNCHANGED position
  /\ UNCHANGED <<flow, who, proven, provers, bound>>

\* The entries the walk has passed.
Behind == {i \in 1 .. Len(flow.entries) : i < position \/ completed}

Bind ==
  /\ \E i \in Behind : flow.entries[i].stage.kind = "UserLogin"
  /\ bound' \in provers
  /\ UNCHANGED <<flow, position, completed, who, proven, provers>>

Next == Identify \/ Prove \/ Mark \/ Advance \/ Bind

Spec == Init /\ [][Next]_walk

=============================================================================
