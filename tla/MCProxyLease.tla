---------------------------- MODULE MCProxyLease ----------------------------
(* Instances of ProxyLease for TLC. *)
EXTENDS ProxyLease, TLC

CONSTANTS c1, c2, i1, i2

\* An object at each of two peers.
HomeOfTwo == i1 :> c1 @@ i2 :> c2

\* One peer with one object.
HomeOfOne == i1 :> c1
=============================================================================
