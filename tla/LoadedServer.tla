---------------------------- MODULE LoadedServer ----------------------------
(***************************************************************************)
(* The server under the load test tool and other clients.  The tool's       *)
(* requests are the numbers of its loop; each is sent when its task runs and *)
(* its task ends when the server has answered it, has dropped it, or does    *)
(* not accept connections.  The tool's client has no timeout of its own      *)
(* (tools/src/load_test.rs:12-17): that its tasks end rests on the server's. *)
(***************************************************************************)
EXTENDS Server, LoadTest

ASSUME LoadedAssumption == Numbers \subseteq Requests

loaded == <<phase, preloaded, tenants, default, req, current, next, point, flying>>

Browsers == Requests \ Numbers

LoadedInit ==
  /\ Init
  /\ ToolInit
  /\ \A n \in Numbers :
       req[n].want.target = "session" /\ req[n].want.token = "none"

Refusing == phase # "serving"

\* client.execute
Request(n) == n \in flying /\ Send(n) /\ UNCHANGED tool

Receive(n) ==
  /\ Finish(n)
  /\ req[n].pc \in {"done", "dropped"} \/ (At(n, "unsent") /\ Refusing)
  /\ UNCHANGED vars

RunLoop == Loop /\ UNCHANGED vars

ServerStep ==
  /\ \/ Process
     \/ \E r \in Requests : Handle(r) \/ Timeout(r) \/ Deliver(r) \/ Disconnect(r)
     \/ \E r \in Browsers : Send(r)
  /\ UNCHANGED tool

LoadedNext ==
  RunLoop \/ ServerStep \/ \E n \in Numbers : Request(n) \/ Receive(n)

LoadedSpec == LoadedInit /\ [][LoadedNext]_loaded

\* The tool's tasks and its loop are scheduled; nothing is assumed of what the
\* server's handlers and the database do.
LoadedFairSpec ==
  /\ LoadedSpec
  /\ Progress
  /\ WF_loaded(RunLoop)
  /\ \A n \in Numbers : WF_loaded(Request(n) \/ Receive(n))

-----------------------------------------------------------------------------
(* Properties *)

LoadedTypeOK == TypeOK /\ ToolTypeOK

\* The load test comes to its end: no request keeps the counter up for ever,
\* whether the server is started before or after it, is shut down in between, or
\* never gets an answer from its database.
ToolEnds == <>(point = "exited")

=============================================================================
