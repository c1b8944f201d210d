----------------------------- MODULE SyncEngine -----------------------------
(***************************************************************************)
(* The synchronisation tasks of the desktop host (next-infra-sync          *)
(* engine.rs, driven by sync_github and its siblings in composition).      *)
(*                                                                         *)
(* Each task owns a SyncEngine over the shared store.  It starts a run,    *)
(* awaits the connector, builds a commit from the rows it reads and only   *)
(* then submits it: three separate acquisitions of the store mutex, with   *)
(* every other connection free to run in between.  The per-connector       *)
(* running flag, held by a task and by a purge, admits one task per        *)
(* connection; here it is the guard engine[c].phase = "idle" of start and  *)
(* purge.  A crash ends every task and leaves the tables; the next start   *)
(* recovers before it admits any work (runtime, Runtime::start).           *)
(***************************************************************************)
EXTENDS SyncStore

VARIABLES
    up,      \* the process is running and has recovered
    engine   \* the task of each connection

vars == <<tables, up, engine>>

Idle == [phase |-> "idle", handle |-> None, batch |-> None, commit |-> None]

SyncInit ==
    /\ StoreInit
    /\ up = TRUE
    /\ engine = [c \in Connections |-> Idle]

\* create_*_connection, and the rewrite of the row at the start of a sync.
CreateConnection(c) ==
    /\ up
    /\ c \notin connections
    /\ upsert_connection(c)
    /\ UNCHANGED <<up, engine>>

\* Mutant: the running flag is not tested.
StartWithoutFlag(c, mode, s) ==
    /\ up
    /\ engine[c].phase # "built"
    /\ start_sync_run(c, mode)
    /\ engine' = [engine EXCEPT ![c] = [Idle EXCEPT
                    !.phase = "running", !.handle = NewHandle(c, mode, s)]]
    /\ UNCHANGED up

\* SyncEngine::start
Start(c, mode, s) ==
    /\ up
    /\ engine[c].phase = "idle"
    /\ start_sync_run(c, mode)
    /\ engine' = [engine EXCEPT ![c] = [Idle EXCEPT
                    !.phase = "running", !.handle = NewHandle(c, mode, s)]]
    /\ UNCHANGED up

\* SyncEngine::commit up to the WriterQueue: validate and build.
Build(c, b) ==
    /\ up
    /\ engine[c].phase = "running"
    /\ ValidBatch(engine[c].handle, b)
    /\ engine' = [engine EXCEPT ![c].phase = "built",
                                ![c].batch = b,
                                ![c].commit = build_commit(c, engine[c].handle, b)]
    /\ UNCHANGED <<tables, up>>

\* The rejected batch: commit returns before it queues anything.
Reject(c, b) ==
    /\ up
    /\ engine[c].phase = "running"
    /\ ~ ValidBatch(engine[c].handle, b)
    /\ engine' = [engine EXCEPT ![c] = Idle]
    /\ UNCHANGED <<tables, up>>

\* WriterQueue::submit of the commit that was built.
Submit(c) ==
    /\ up
    /\ engine[c].phase = "built"
    /\ commit_sync(c, engine[c].commit)
    /\ engine' = [engine EXCEPT ![c] = Idle]
    /\ UNCHANGED up

\* SyncEngine::fail, after a connector or normalizer error.
Fail(c) ==
    /\ up
    /\ engine[c].phase = "running"
    /\ commit_sync(c, failed_commit(engine[c].handle))
    /\ engine' = [engine EXCEPT ![c] = Idle]
    /\ UNCHANGED up

\* The store refuses the write, the clock cannot be read or the task panics:
\* the task ends, its queue is dropped, the run keeps its running marker.
Abandon(c) ==
    /\ up
    /\ engine[c].phase # "idle"
    /\ engine' = [engine EXCEPT ![c] = Idle]
    /\ UNCHANGED <<tables, up>>

\* Mutant: a purge that does not take the running flag.
PurgeWithoutFlag(c) ==
    /\ up
    /\ purge_connection(c)
    /\ UNCHANGED <<up, engine>>

\* purge_connection, under the running flag of the connector.
Purge(c) ==
    /\ up
    /\ engine[c].phase = "idle"
    /\ purge_connection(c)
    /\ UNCHANGED <<up, engine>>

Crash ==
    /\ up
    /\ up' = FALSE
    /\ engine' = [c \in Connections |-> Idle]
    /\ UNCHANGED tables

\* Mutant: recovery does not look at the status of the runs it interrupts.
RecoverAll ==
    /\ ~ up
    /\ up' = TRUE
    /\ runs' = [n \in Runs |-> IF runs[n] # None
                               THEN [runs[n] EXCEPT !.status = "interrupted"]
                               ELSE runs[n]]
    /\ UNCHANGED <<connections, nextRun, resources, resource_versions, relations,
                   relation_versions, changes, cursor, missing, scans, engine>>

\* Runtime::start: SyncEngine::recover before any task is admitted.
Recover ==
    /\ ~ up
    /\ up' = TRUE
    /\ mark_running_syncs_interrupted
    /\ UNCHANGED engine

ConnectionStep(c) ==
    \/ CreateConnection(c)
    \/ \E mode \in Modes, s \in Scopes : Start(c, mode, s)
    \/ \E b \in Batches(c) : Build(c, b) \/ Reject(c, b)
    \/ Submit(c)
    \/ Fail(c)
    \/ Abandon(c)
    \/ Purge(c)

Next ==
    \/ \E c \in Connections : ConnectionStep(c)
    \/ Crash
    \/ Recover

Spec == SyncInit /\ [][Next]_vars

-----------------------------------------------------------------------------
(* Properties.                                                             *)

MissingType == [Connections -> [Scopes -> [Resources -> 0 .. 2]]]

ScanType == [Connections -> [Scopes ->
                Seq([run : Runs, observed : SUBSET Resources])]]

CommitType == [run : Runs, status : {"succeeded", "partial", "failed"},
               resources : [Resources -> ResourceRow \cup {None}],
               resource_versions : SUBSET Resources,
               relations : SUBSET Relations,
               relation_versions : SUBSET Relations,
               changes : SUBSET (Resources \cup Relations),
               cursor_after : Cursors \cup {None},
               missing_scope : Scopes \cup {None},
               missing_counts : [Resources -> 0 .. 2] \cup {None},
               observed : SUBSET Resources]

\* The parts of a commit that belong together.
CommitOK(k) ==
    /\ k \in CommitType
    /\ \A r \in k.resource_versions : k.resources[r] # None
    /\ k.missing_scope # None => k.missing_counts \in [Resources -> 0 .. 2]

TablesOK ==
    /\ connections \subseteq Connections
    /\ runs \in [Runs -> RunRow \cup {None}]
    /\ nextRun \in 1 .. MaxRuns + 1
    /\ resources \in [Resources -> ResourceRow \cup {None}]
    /\ resource_versions \subseteq ResourceVersion
    /\ relations \subseteq Relations
    /\ relation_versions \subseteq RelationVersion
    /\ changes \subseteq Change
    /\ cursor \in [Connections -> Cursors \cup {None}]
    /\ missing \in MissingType
    /\ scans \in ScanType

EngineType == [phase : {"idle", "running", "built"},
               handle : Handle \cup {None},
               batch : AnyBatch \cup {None},
               commit : CommitType \cup {None}]

EngineOK(c) ==
    /\ engine[c].phase = "idle" => engine[c] = Idle
    /\ engine[c].phase # "idle" => engine[c].handle \in Handle
    /\ engine[c].phase = "built" => /\ engine[c].batch \in Batches(c)
                                   /\ CommitOK(engine[c].commit)

\* Type invariant of the tables (projection.rs) and of the tasks (engine.rs).
TypeOK ==
    /\ TablesOK
    /\ up \in BOOLEAN
    /\ engine \in [Connections -> EngineType]
    /\ \A c \in Connections : EngineOK(c)

\* The last k scans of the sequence q all missed r.
MissedIn(q, r, k) ==
    /\ Len(q) >= k
    /\ \A i \in Len(q) - k + 1 .. Len(q) : r \notin q[i].observed

\* The last k authoritative commits of scope s of connection c all missed r.
Missed(c, s, r, k) == MissedIn(scans[c][s], r, k)

\* The persisted count of build_commit never claims more absences than the
\* last authoritative commits of that scope show, whatever partial, failed,
\* abandoned and interrupted runs happened around them.
EvidenceSound ==
    \A c \in Connections, s \in Scopes, r \in Resources :
        Missed(c, s, r, missing[c][s][r])

\* A resource is tombstoned only when the last two authoritative commits of
\* its scope both missed it (engine.rs, the missing-evidence block).
TombstoneSound ==
    \A r \in Resources :
        resources[r] # None /\ resources[r].lifecycle = "tombstoned"
            => Missed(Owner[r], resources[r].scope, r, 2)

\* And it is tombstoned by then: no resource stays active when the last two
\* authoritative commits of its scope come after its last observation.
AbsenceDetected ==
    \A r \in Resources :
        resources[r] # None =>
            LET q == scans[Owner[r]][resources[r].scope]
            IN  /\ Len(q) >= 2
                /\ q[Len(q) - 1].run > resources[r].last_seen
                => resources[r].lifecycle = "tombstoned"

\* The version history reproduces the present: the newest version of every
\* stored resource carries the fingerprint of its row.
HistoryMatches ==
    \A r \in Resources : resources[r] # None =>
        \E v \in resource_versions :
            /\ v.resource = r
            /\ v.fingerprint = resources[r].fingerprint
            /\ \A w \in resource_versions : w.resource = r => w.run <= v.run

\* No silent change: the run a resource row names as its last change has a
\* change row for it, so the timeline shows every transition.
ChangeRecorded ==
    \A r \in Resources : resources[r] # None =>
        [subject |-> r, run |-> resources[r].last_changed] \in changes

CommittedRuns(c) ==
    { n \in Runs : /\ runs[n] # None
                   /\ runs[n].conn = c
                   /\ runs[n].status \in {"succeeded", "partial"} }

\* The stored cursor is that of the newest committed run: failed, abandoned
\* and interrupted runs neither clear nor advance it (SyncEngine::fail).
CursorIsLastCommitted ==
    \A c \in Connections :
        \/ CommittedRuns(c) = {} /\ cursor[c] = None
        \/ \E n \in CommittedRuns(c) :
            /\ cursor[c] = runs[n].cursor_after
            /\ \A m \in CommittedRuns(c) : m <= n

\* Every row refers to rows that exist, also those columns without a foreign
\* key, and nothing of a purged connection remains (purge_connection).
NoOrphans ==
    /\ \A n \in Runs : runs[n] # None => runs[n].conn \in connections
    /\ \A r \in Resources : resources[r] # None =>
            /\ Owner[r] \in connections
            /\ runs[resources[r].last_sync_run] # None
            /\ runs[resources[r].last_sync_run].conn = Owner[r]
    /\ \A v \in resource_versions :
            /\ resources[v.resource] # None
            /\ runs[v.run] # None
            /\ runs[v.run].conn = Owner[v.resource]
    /\ \A e \in relations : resources[Source[e]] # None /\ resources[Target[e]] # None
    /\ \A v \in relation_versions : v.relation \in relations
    /\ \A x \in changes : \/ x.subject \in Resources /\ resources[x.subject] # None
                          \/ x.subject \in relations
    /\ \A c \in Connections \ connections :
            /\ cursor[c] = None
            /\ \A s \in Scopes, r \in Resources : missing[c][s][r] = 0

\* What a task is about to write is what it would compute from the rows as
\* they are now: nothing it read has changed under it.
CommitFresh ==
    \A c \in Connections : engine[c].phase = "built" =>
        engine[c].commit = build_commit(c, engine[c].handle, engine[c].batch)

\* A run that has been closed is never written again, only purged
\* (complete_sync_run does not look at the status it overwrites).
ClosedRunsSettled ==
    [][\A n \in Runs : runs[n] # None /\ runs[n].status # "running"
            => runs'[n] \in {runs[n], None}]_vars

\* Building from a snapshot and writing later is the atomic close of SyncSpec.
Atomic == INSTANCE SyncSpec WITH
            active <- [c \in Connections |-> engine[c].handle]

\* The engine implements the atomic specification.
ImplementsAtomic == Atomic!Spec

=============================================================================
