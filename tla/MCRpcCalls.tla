----------------------------- MODULE MCRpcCalls -----------------------------
(* Instances of RpcCalls for TLC. *)
EXTENDS RpcCalls, TLC

\* The calls and the activations are interchangeable: for safety runs only.
Symmetry == Permutations(Calls) \cup Permutations(Execs)
=============================================================================
