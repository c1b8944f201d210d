---------------------------- MODULE MCSyncEngine ----------------------------
(* Instances of SyncEngine for TLC: which resources and relations exist.   *)
EXTENDS SyncEngine

CONSTANTS c1, c2, r1, r2, e1

\* One connection.
OneOwner == [r \in Resources |-> c1]

\* One resource each for two connections.
TwoOwners == [r \in Resources |-> IF r = r1 THEN c1 ELSE c2]

\* One relation, from r1 to itself or to r2.
EdgeSource == [e \in Relations |-> r1]
EdgeTarget == [e \in Relations |-> r2]

=============================================================================
