--------------------------- MODULE MCLoadedServer ---------------------------
EXTENDS LoadedServer, TLC

CONSTANTS browser, own, other, login, join, restore

Tenant(default_, authentication, enrollment, recovery) ==
  [is_default |-> default_,
   flows |-> [authentication |-> authentication, enrollment |-> enrollment,
              recovery |-> recovery]]

\* The default tenant beside another one; only a default tenant; only another one;
\* two default tenants.
MCTenantTables ==
  {own :> Tenant(FALSE, login, NoFlow, NoFlow) @@ other :> Tenant(TRUE, restore, join, NoFlow),
   own :> Tenant(TRUE, login, NoFlow, NoFlow),
   own :> Tenant(FALSE, login, NoFlow, NoFlow),
   own :> Tenant(TRUE, login, NoFlow, NoFlow) @@ other :> Tenant(TRUE, login, join, NoFlow)}

\* A tenant with a recovery flow beside its enrollment flow.
RecoveryTables == {own :> Tenant(TRUE, login, join, restore)}

Want(host, target, token, designation) ==
  [host |-> host, target |-> target, token |-> token, designation |-> designation]

MCWanted ==
  {Want(own, "session", token, "unknown") : token \in {"none", "valid", "invalid", "algorithm"}}
    \cup {Want(own, "admin", "valid", "unknown"), Want(own, "ping", "invalid", "unknown"),
          Want(own, "test", "none", "unknown"), Want(own, "page", "none", "unknown"),
          Want(Invalid, "page", "none", "unknown")}
    \cup {Want(host, "redirect", "none", "authentication") : host \in {own, other}}
    \cup {Want(own, "redirect", "none", designation) :
            designation \in {"unknown", "recovery"}}

RecoveryWanted ==
  {Want(own, "redirect", "none", designation) :
     designation \in {"authentication", "enrollment", "recovery"}}

=============================================================================
