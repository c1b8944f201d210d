----------------------------- MODULE MCLocalRpc -----------------------------
(* An instance of LocalRpc for TLC. *)
EXTENDS LocalRpc

CONSTANTS c1, c2

=============================================================================
