------------------------------- MODULE LoadTest -------------------------------
(***************************************************************************)
(* The load test tool (tools/src/load_test.rs): one loop that spawns a task  *)
(* per request, and a counter that the loop increments before it spawns and  *)
(* each task decrements when its request is over.  The loop waits while the  *)
(* counter exceeds max_concurrent.  The counter is accessed with Relaxed     *)
(* ordering; since only the loop increments it, an old value is never less   *)
(* than the present one, and reading it only makes the loop wait longer.     *)
(***************************************************************************)
EXTENDS Naturals, FiniteSets

CONSTANTS
  Word,            \* the values of an AtomicU32 and of the arguments (2^32)
  Total,           \* requests
  MaxConcurrent    \* max_concurrent

ASSUME LoadTestAssumption ==
  /\ Word \in Nat
  /\ Total \in 0 .. Word - 1
  /\ MaxConcurrent \in 0 .. Word - 1

VARIABLES
  current,   \* current_requests
  next,      \* the loop's i
  point,     \* where the loop is
  flying     \* the requests that are spawned and not over

tool == <<current, next, point, flying>>

Numbers == 0 .. Total - 1

\* At the load, before the increment, sleeping before the spawn; out of the loop,
\* and the process gone.
LoopPoints == {"load", "add", "sleep", "returned", "exited"}

ToolInit ==
  /\ current = 0
  /\ next = 0
  /\ point = "load"
  /\ flying = {}

\* Mutant of Load: the loop does not wait.
LoadAnything ==
  /\ point = "load"
  /\ next < Total
  /\ point' = "add"
  /\ UNCHANGED <<current, next, flying>>

\* Mutant of Load: the comparison is made strict, so that the bound is kept exactly.
LoadBelow ==
  /\ point = "load"
  /\ next < Total
  /\ current < MaxConcurrent
  /\ point' = "add"
  /\ UNCHANGED <<current, next, flying>>

\* Mutant of Load: the range of the loop includes its end.
LoadInclusive ==
  /\ point = "load"
  /\ next <= Total
  /\ current <= MaxConcurrent
  /\ point' = "add"
  /\ UNCHANGED <<current, next, flying>>

\* The while loop ends.
Load ==
  /\ point = "load"
  /\ next < Total
  /\ current <= MaxConcurrent
  /\ point' = "add"
  /\ UNCHANGED <<current, next, flying>>

Add ==
  /\ point = "add"
  /\ current' = (current + 1) % Word
  /\ point' = "sleep"
  /\ UNCHANGED <<next, flying>>

Spawn ==
  /\ point = "sleep"
  /\ flying' = flying \cup {next}
  /\ next' = next + 1
  /\ point' = "load"
  /\ UNCHANGED current

\* make_request has an answer or an error.
Finish(n) ==
  /\ n \in flying
  /\ flying' = flying \ {n}
  /\ current' = (current + Word - 1) % Word
  /\ UNCHANGED <<next, point>>

\* The loop is over; load_test does not wait for the tasks.
Return ==
  /\ point = "load"
  /\ next = Total
  /\ point' = "returned"
  /\ UNCHANGED <<current, next, flying>>

\* main returns: the runtime drops the tasks.
Exit ==
  /\ point = "returned"
  /\ point' = "exited"
  /\ flying' = {}
  /\ UNCHANGED <<current, next>>

Loop == Load \/ Add \/ Spawn \/ Return \/ Exit

ToolNext == Loop \/ \E n \in Numbers : Finish(n)

ToolSpec == ToolInit /\ [][ToolNext]_tool

-----------------------------------------------------------------------------
(* Properties *)

ToolTypeOK ==
  /\ current \in 0 .. Word - 1
  /\ next \in 0 .. Total
  /\ point \in LoopPoints
  /\ flying \subseteq Numbers

\* The counter is the number of requests in flight and of the one about to be
\* spawned: it is never decremented below zero nor wrapped around.
Counted ==
  point # "exited" =>
    current = Cardinality(flying) + (IF point = "sleep" THEN 1 ELSE 0)

\* At most one request more than max_concurrent is in flight: the loop compares
\* with > before it increments, and increments before it spawns.
Bounded == Cardinality(flying) <= MaxConcurrent + 1

=============================================================================
