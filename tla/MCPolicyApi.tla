----------------------------- MODULE MCPolicyApi -----------------------------
(* A small instance of PolicyApi. *)
EXTENDS PolicyApi, TLC

CONSTANTS r1, r2, r3, slug1, slug2

Symmetry == Permutations(Requests)

=============================================================================
