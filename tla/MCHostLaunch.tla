---------------------------- MODULE MCHostLaunch ----------------------------
(* Instances of HostLaunch for TLC. *)
EXTENDS HostLaunch, TLC

CONSTANTS p1, p2, b1, b2

\* Processes, and bridges, are interchangeable in the safety runs.
Symmetry == Permutations(Procs) \cup Permutations(Bridges)

=============================================================================
