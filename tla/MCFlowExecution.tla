--------------------------- MODULE MCFlowExecution ---------------------------
(* Flows and bounds for model checking FlowExecution. *)
EXTENDS FlowExecution, TLC

CONSTANTS alice, bob, policy

Plain(kind) == [kind |-> kind, password |-> "none", internal |-> TRUE]
\* An identification stage with an embedded password stage.
Credentials == [Plain("Identification") EXCEPT !.password = "password"]

FlowOf(stages) ==
  [authentication |-> "Ignored", bindings |-> <<>>,
   entries |-> [i \in DOMAIN stages |-> [stage |-> stages[i], bindings |-> <<>>]]]

TwoStep == FlowOf(<<Plain("Identification"), Plain("Password"), Plain("UserLogin")>>)
OneStep == FlowOf(<<Credentials, Plain("UserLogin")>>)
NoPassword == FlowOf(<<Plain("Identification"), Plain("UserLogin")>>)
\* A second identification after a verified password.
Reidentify == FlowOf(<<Credentials, Plain("Identification"), Plain("UserLogin")>>)
\* Two logins: the second user replaces the first.
Relogin == FlowOf(<<Credentials, Plain("UserLogin"), Credentials, Plain("UserLogin")>>)
\* Two server side stages in a row.
Twice == FlowOf(<<Credentials, Plain("UserLogin"), Plain("UserLogin")>>)
\* What storage also makes of a UserLogout row (storage/src/stage.rs:115).
Write == FlowOf(<<Credentials, Plain("UserLogin"), Plain("UserWrite")>>)
\* An identification stage with an embedded stage that is not a password stage.
Misnamed == [Credentials EXCEPT !.password = "other"]
Unusual == {FlowOf(<<Plain("Deny"), Plain("UserLogin")>>),
            FlowOf(<<Misnamed, Plain("UserLogin")>>),
            FlowOf(<<Plain("UserLogin")>>),
            FlowOf(<<Plain("Prompt"), Plain("Consent")>>)}

\* Bindings, and flows that a user may or may not enter.
OnlyFor(user) == [enabled |-> TRUE, negate |-> FALSE, kind |-> "User", user |-> user]
NotFor(user) == [OnlyFor(user) EXCEPT !.negate = TRUE]
ByPolicy(kind, max_age) ==
  [enabled |-> TRUE, negate |-> FALSE, kind |-> "Policy",
   policy |-> [kind |-> kind, uid |-> policy, max_age |-> max_age]]
ForGroup == [enabled |-> TRUE, negate |-> FALSE, kind |-> "Group"]
Disabled == [ForGroup EXCEPT !.enabled = FALSE]
Bound(entry, flow_, bindings) ==
  [flow_ EXCEPT !.entries[entry].bindings = bindings]
Requiring(requirement, flow_) == [flow_ EXCEPT !.authentication = requirement]

AccessFlows ==
  {Requiring("None", Relogin),
   Requiring("Superuser", OneStep),
   Bound(3, Relogin, <<Disabled, OnlyFor(alice)>>),
   Bound(3, Relogin, <<NotFor(alice), ForGroup>>),
   Bound(3, Relogin, <<ByPolicy("PasswordExpiry", 5)>>),
   [OneStep EXCEPT !.bindings = <<ByPolicy("Expression", 0)>>]}

MCUsers == {alice, bob}
MCPasswordAge == [u \in MCUsers |-> IF u = alice THEN 1 ELSE 9]
BasicFlows == {TwoStep, OneStep}
SerialFlows ==
  {TwoStep, OneStep, NoPassword, Reidentify, Relogin, Twice, Write} \cup Unusual
PageFlows == SerialFlows \cup AccessFlows
Symmetry == Permutations(Requests)
=============================================================================
