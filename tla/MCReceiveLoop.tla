--------------------------- MODULE MCReceiveLoop ----------------------------
(* Instances of ReceiveLoop for TLC. *)
EXTENDS ReceiveLoop

\* A task for each message, with the program's own loop at one end or both;
\* the sweep where calls need it to end.
MixedSetups ==
  {<<{}, FALSE>>, <<{"client"}, FALSE>>, <<Hosts, FALSE>>, <<Hosts, TRUE>>}

Awaiting == {<<Hosts, FALSE>>}
=============================================================================
