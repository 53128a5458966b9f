-------------------------- MODULE MCTcpConnection ---------------------------
(* Instances of TcpConnection for TLC. *)
EXTENDS TcpConnection

\* Retries without end or twice, each with and without on_reconnect and sweep.
MixedSetups == {0, 2} \X BOOLEAN \X BOOLEAN

\* createMain with its defaults
DefaultSetup == {<<0, FALSE, FALSE>>}
=============================================================================
