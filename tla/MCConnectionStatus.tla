------------------------ MODULE MCConnectionStatus -------------------------
(* The instance of ConnectionStatus for TLC: seven connectors, three       *)
(* attempts, so that a copy can be older than two writes of the row.       *)
EXTENDS ConnectionStatus

=============================================================================
