-------------------------- MODULE MCProxyRegistry ---------------------------
(* Instances of ProxyRegistry for TLC. *)
EXTENDS ProxyRegistry, TLC

\* Objects and addresses are interchangeable.
Symmetry == Permutations(Objs) \cup Permutations(Addrs)
=============================================================================
