-------------------------- MODULE MCDaemonInstance --------------------------
(* Instances of DaemonInstance for TLC.                                    *)
EXTENDS DaemonInstance

CONSTANTS c1, c2

OneClient  == {c1}
TwoClients == {c1, c2}
StartStop  == {"start", "restart", "exit"}
=============================================================================
