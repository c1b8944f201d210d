------------------------- MODULE MCConnectCommands -------------------------
(* ConnectCommands on a small instance; the replies are those of the       *)
(* transports of the application, and every module may have items.         *)
EXTENDS ConnectCommands

NoRequests == {}
OneMode == {"full"}
AllModules == Modules

=============================================================================
