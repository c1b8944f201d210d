-------------------------- MODULE MCScheduledSync --------------------------
(* Instances of ScheduledSync for TLC: which connector each connection is. *)
EXTENDS ScheduledSync

AllGitHub == [c \in Connections |-> "github"]

\* Every connection has a flag of its own.
OneEach == [c \in Connections |-> IF c = 1 THEN "github" ELSE "dokploy"]

OneStep == [t \in ConnectorTypes |-> 1]

=============================================================================
