------------------------------ MODULE FlowCheck ------------------------------
(***************************************************************************)
(* The access decision of a flow: server/src/executor/flow.rs (FlowCheck,  *)
(* FlowCheckOutput, check_binding, check_policy) and the static description *)
(* of a flow that the decision and the execution read (model/src/flow.rs,   *)
(* model/src/stage.rs).                                                     *)
(*                                                                         *)
(* A flow is a record of its authentication requirement, its bindings and   *)
(* its entries; an entry is a stage and the bindings of that entry.  The    *)
(* user the decision is about is the user of the session's row, or NoUser. *)
(* What an expression policy's syntax tree evaluates to is an argument      *)
(* (ast): the tree is looked up in the live policy service every time.      *)
(***************************************************************************)
EXTENDS Integers, Sequences

CONSTANTS
  Users,        \* the rows of the users table
  NoUser,       \* Option::None of a user
  Admins,       \* the users with is_admin
  PasswordAge,  \* execution start time - password_change_date, per user
  Expressions   \* the uids of the expression policies

ASSUME UsersAssumption ==
  /\ NoUser \notin Users
  /\ Admins \subseteq Users
  /\ PasswordAge \in [Users -> Int]

MaybeUser == Users \cup {NoUser}

-----------------------------------------------------------------------------
(* Stages *)

ServerKinds == {"UserLogin", "UserLogout", "UserWrite"}
StageKinds ==
  ServerKinds \cup {"Deny", "Prompt", "Identification", "Password", "Consent"}

\* `password` is the stage embedded in an identification stage: none, a password
\* stage, or a stage of another kind (the schema refers to any stage); `internal`
\* says that the (embedded) password stage's backends contain
\* PasswordBackend::Internal.
Embedded == {"none", "password", "other"}
Stages == [kind : StageKinds, password : Embedded, internal : BOOLEAN]

RequiresInput(stage) == stage.kind \notin ServerKinds

-----------------------------------------------------------------------------
(* Outputs of one check *)

Outputs == {"Passed", "Failed", "FailedHard", "Neutral"}

Negate(output) ==
  CASE output = "Passed" -> "Failed"
    [] output = "Failed" -> "Passed"
    [] OTHER -> output

\* FlowCheckOutput::deref
Holds(output) == output \in {"Passed", "Neutral"}

IntoOutput(b) == IF b THEN "Passed" ELSE "Failed"

-----------------------------------------------------------------------------
(* The checks *)

Requirements == {"Superuser", "Required", "None", "Ignored"}

AuthenticationOutput(requirement, user) ==
  CASE requirement = "Superuser" -> IntoOutput(user \in Admins)
    [] requirement = "Required"  -> IntoOutput(user # NoUser)
    [] requirement = "None"      -> IntoOutput(user = NoUser)
    [] OTHER                     -> "Neutral"

\* What evaluating the syntax tree of an expression policy comes to; "absent"
\* is get_ast returning None.  Evaluations gives one result per policy.
AstResults == {"true", "false", "error", "absent"}
Evaluations == [Expressions -> AstResults]

PolicyOutput(policy, user, ast) ==
  CASE policy.kind = "PasswordExpiry" /\ user \in Users ->
         IntoOutput(PasswordAge[user] < policy.max_age)
    [] policy.kind = "Expression" /\ ast[policy.uid] = "true"  -> "Passed"
    [] policy.kind = "Expression" /\ ast[policy.uid] = "false" -> "Failed"
    [] policy.kind = "Expression" /\ ast[policy.uid] = "error" -> "FailedHard"
    [] OTHER -> "Neutral"

BindingOutput(binding, user, ast) ==
  IF binding.kind = "User"
    THEN IntoOutput(user # NoUser /\ user = binding.user)
    ELSE PolicyOutput(binding.policy, user, ast)

\* check_binding: an enabled group binding runs into todo!().
Verdicts == {"pass", "deny", "todo"}

CheckBinding(binding, user, ast) ==
  LET output == BindingOutput(binding, user, ast)
  IN  CASE ~binding.enabled -> "pass"
        [] binding.enabled /\ binding.kind = "Group" -> "todo"
        [] OTHER ->
             IF Holds(IF binding.negate THEN Negate(output) ELSE output)
               THEN "pass" ELSE "deny"

\* The loops of FlowExecution::check: the first binding that does not pass
\* decides.
CheckBindings(bindings, user, ast) ==
  LET verdict(i) == CheckBinding(bindings[i], user, ast)
      decisive(i) == /\ verdict(i) # "pass"
                     /\ \A j \in 1 .. (i - 1) : verdict(j) = "pass"
  IN  IF \E i \in DOMAIN bindings : decisive(i) /\ verdict(i) = "todo"
        THEN "todo"
        ELSE IF \E i \in DOMAIN bindings : decisive(i) THEN "deny" ELSE "pass"

\* The part of FlowExecution::check that does not look at the current entry.
CheckFlow(flow, user, ast) ==
  IF Holds(AuthenticationOutput(flow.authentication, user))
    THEN CheckBindings(flow.bindings, user, ast)
    ELSE "deny"

\* Some check in `bindings` calls lookup_policy, which reads the context.
PolicyBindings(bindings) ==
  {i \in DOMAIN bindings : bindings[i].enabled /\ bindings[i].kind = "Policy"}
ReadsPolicy(bindings) == PolicyBindings(bindings) # {}

\* Some check in `bindings` that is reached awaits get_ast.
AwaitsPolicy(bindings, user) ==
  \E i \in PolicyBindings(bindings), ast \in Evaluations :
    /\ bindings[i].policy.kind = "Expression"
    /\ CheckBindings(SubSeq(bindings, 1, i - 1), user, ast) = "pass"

=============================================================================
