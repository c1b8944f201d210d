------------------------------ MODULE SyncSpec ------------------------------
(***************************************************************************)
(* What a synchronisation promises, seen from the database: a run is       *)
(* opened, and then closed by ONE atomic step that reads the stored rows   *)
(* and writes the result, or by a failure that writes nothing but the      *)
(* status, or it is left open and is closed as interrupted by the next     *)
(* start of the process.  SyncEngine, where reading and writing are two    *)
(* steps with other connections in between, is shown to implement this.    *)
(***************************************************************************)
EXTENDS SyncStore

VARIABLES
    up,      \* the process is running and has recovered
    active   \* the open run of each connection, or None

vars == <<tables, up, active>>

Init ==
    /\ StoreInit
    /\ up = TRUE
    /\ active = [c \in Connections |-> None]

\* A connection is created (or its row rewritten by a sync).
Create(c) ==
    /\ up
    /\ c \notin connections
    /\ upsert_connection(c)
    /\ UNCHANGED <<up, active>>

Open(c, mode, s) ==
    /\ up
    /\ active[c] = None
    /\ start_sync_run(c, mode)
    /\ active' = [active EXCEPT ![c] = NewHandle(c, mode, s)]
    /\ UNCHANGED up

\* Read the rows, decide and write, at one instant.
CloseWith(c, b) ==
    /\ up
    /\ active[c] # None
    /\ ValidBatch(active[c], b)
    /\ commit_sync(c, build_commit(c, active[c], b))
    /\ active' = [active EXCEPT ![c] = None]
    /\ UNCHANGED up

CloseFailed(c) ==
    /\ up
    /\ active[c] # None
    /\ commit_sync(c, failed_commit(active[c]))
    /\ active' = [active EXCEPT ![c] = None]
    /\ UNCHANGED up

\* The task gives up; its run keeps the running marker.
LeaveOpen(c) ==
    /\ up
    /\ active[c] # None
    /\ active' = [active EXCEPT ![c] = None]
    /\ UNCHANGED <<tables, up>>

Delete(c) ==
    /\ up
    /\ active[c] = None
    /\ purge_connection(c)
    /\ UNCHANGED <<up, active>>

Stop ==
    /\ up
    /\ up' = FALSE
    /\ active' = [c \in Connections |-> None]
    /\ UNCHANGED tables

Restart ==
    /\ ~ up
    /\ up' = TRUE
    /\ mark_running_syncs_interrupted
    /\ UNCHANGED active

Next ==
    \/ \E c \in Connections :
        \/ Create(c) \/ CloseFailed(c) \/ LeaveOpen(c) \/ Delete(c)
        \/ \E mode \in Modes, s \in Scopes : Open(c, mode, s)
        \/ \E b \in Batches(c) : CloseWith(c, b)
    \/ Stop
    \/ Restart

Spec == Init /\ [][Next]_vars

=============================================================================
