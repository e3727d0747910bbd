---------------------------- MODULE MCFlowExecutor ----------------------------
(* Requests and bounds for model checking FlowExecutor. *)
EXTENDS FlowExecutor, TLC

CONSTANTS r1, r2
Symmetry == Permutations(Requests)
=============================================================================
