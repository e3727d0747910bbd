------------------------------ MODULE ApiErrors ------------------------------
(***************************************************************************)
(* The errors of the API (server/src/api/mod.rs): what a failure becomes,   *)
(* which errors are internal, so that a span trace is captured when they    *)
(* are made, and the status they are answered with.                         *)
(***************************************************************************)
EXTENDS Naturals

ServerError(status) == status >= 500

\* ApiErrorKind; NoError stands for Ok.
NoError == "none"
InternalKinds ==
  {"Axum", "MiscInternal", "MissingMiddleware", "PwHash", "PoolError",
   "PostgresError", "JsonWebToken"}
UnauthorizedKinds ==
  {"InvalidLoginData", "SessionCookieMissing", "InvalidSessionCookie", "Unauthorized"}
Kinds ==
  InternalKinds \cup UnauthorizedKinds
    \cup {"NotFound", "Forbidden", "Conflict", "SubmissionError"}

\* Mutant of IsInternal: the error of the pool is forgotten.
IsInternalButPool(kind) == kind \in InternalKinds \ {"PoolError"}

\* The errors that are logged with the trace captured in From.
IsInternal(kind) == kind \in InternalKinds

\* The match of into_response, apart from is_internal.
Status(kind) ==
  CASE kind \in {"Axum", "PwHash", "PoolError", "PostgresError", "MiscInternal",
                 "MissingMiddleware", "JsonWebToken"} -> 500
    [] kind \in UnauthorizedKinds -> 401
    [] kind = "NotFound" -> 404
    [] kind = "SubmissionError" -> 400
    [] kind = "Forbidden" -> 403
    [] kind = "Conflict" -> 409

\* What can go wrong, as the libraries report it.
Causes ==
  {"pool", "database", "unique",          \* deadpool, tokio_postgres
   "token", "token_algorithm",            \* jsonwebtoken
   "password", "hash",                    \* argon2
   "axum", "missing", "form", "forbidden"}

\* The From conversions: a violated unique index is a conflict, a wrong password
\* is no internal error; of the token's errors those about keys and algorithms are.
KindOf(cause) ==
  CASE cause = "pool" -> "PoolError"
    [] cause = "database" -> "PostgresError"
    [] cause = "unique" -> "Conflict"
    [] cause = "token" -> "InvalidSessionCookie"
    [] cause = "token_algorithm" -> "JsonWebToken"
    [] cause = "password" -> "InvalidLoginData"
    [] cause = "hash" -> "PwHash"
    [] cause = "axum" -> "Axum"
    [] cause = "missing" -> "NotFound"
    [] cause = "form" -> "SubmissionError"
    [] cause = "forbidden" -> "Forbidden"

=============================================================================
