-------------------------- MODULE SyncEngineProofs --------------------------
(***************************************************************************)
(* Proofs about SyncEngine, for every choice of connections, resources,    *)
(* relations, scopes, contents, cursors and number of runs.                *)
(***************************************************************************)
EXTENDS SyncEngine, TLAPS

USE DEF Runs

-----------------------------------------------------------------------------
(* Types.                                                                  *)

\* An observed resource is projected to a well-typed row (project_resource).
LEMMA ProjectType ==
    ASSUME TablesOK, NEW r \in Resources, NEW o \in Observation, NEW n \in Runs
    PROVE  project_resource(r, o, n) \in ResourceRow
  <1>1. fingerprint(o) \in Fingerprints /\ o.scope \in Scopes
    BY DEF fingerprint, Fingerprints, Observation
  <1>2. resources[r] = None \/ resources[r] \in ResourceRow
    BY DEF TablesOK
  <1>3. CASE resources[r] = None
    BY <1>1, <1>3 DEF project_resource, ResourceRow, FingerprintChanged, Lifecycles
  <1>4. CASE resources[r] \in ResourceRow /\ resources[r] # None
    BY <1>1, <1>4 DEF project_resource, ResourceRow, FingerprintChanged, Lifecycles
  <1> QED
    BY <1>2, <1>3, <1>4

\* A stored resource is tombstoned to a well-typed row (tombstone_resource).
LEMMA TombstoneType ==
    ASSUME TablesOK, NEW r \in Resources, NEW n \in Runs, resources[r] # None
    PROVE  tombstone_resource(r, n) \in ResourceRow
  <1>1. resources[r] \in ResourceRow
    BY DEF TablesOK
  <1> QED
    BY <1>1 DEF tombstone_resource, ResourceRow, Lifecycles

\* The counts of an authoritative run stay within the saturation bound.
LEMMA CountsType ==
    ASSUME TablesOK, NEW c \in Connections, NEW s \in Scopes, NEW b \in Batches(c)
    PROVE  MissingCounts(c, s, b) \in [Resources -> 0 .. 2]
  <1>1. \A r \in Resources : missing[c][s][r] \in 0 .. 2
    BY DEF TablesOK, MissingType
  <1> QED
    BY <1>1 DEF MissingCounts

\* What build_commit hands to the store is a well-formed commit.
LEMMA BuildCommitOK ==
    ASSUME TablesOK, NEW c \in Connections, NEW h \in Handle, NEW b \in Batches(c)
    PROVE  CommitOK(build_commit(c, h, b))
  <1> DEFINE k == build_commit(c, h, b)
  <1>1. /\ h.run \in Runs
        /\ b \in AnyBatch
        /\ b.scope \in Scopes \cup {None}
        /\ b.relations \subseteq Relations
        /\ b.next_cursor \in Cursors \cup {None}
        /\ b.observations \in [Resources -> Observation \cup {None}]
        /\ Authoritative(b) => b.scope \in Scopes
    BY DEF Handle, Batches, AnyBatch, Authoritative
  <1>2. NewTombstones(c, b) \subseteq { r \in Resources : resources[r] # None }
    BY DEF NewTombstones, Tombstoned, Absent
  <1>3. ASSUME NEW r \in Resources
        PROVE  /\ k.resources[r] \in ResourceRow \cup {None}
               /\ b.observations[r] # None => k.resources[r] \in ResourceRow
    <2>1. CASE b.observations[r] # None
      <3>1. b.observations[r] \in Observation
        BY <1>1, <2>1
      <3>2. k.resources[r] = project_resource(r, b.observations[r], h.run)
        BY <2>1 DEF build_commit
      <3> QED
        BY <1>1, <3>1, <3>2, ProjectType
    <2>2. CASE b.observations[r] = None /\ r \in NewTombstones(c, b)
      <3>1. k.resources[r] = tombstone_resource(r, h.run)
        BY <2>2 DEF build_commit
      <3> QED
        BY <1>1, <1>2, <2>2, <3>1, TombstoneType
    <2>3. CASE b.observations[r] = None /\ r \notin NewTombstones(c, b)
      BY <2>3 DEF build_commit
    <2> QED
      BY <2>1, <2>2, <2>3
  <1>4. k.resources \in [Resources -> ResourceRow \cup {None}]
    BY <1>3 DEF build_commit
  <1>5. k.missing_counts \in [Resources -> 0 .. 2] \cup {None}
    BY <1>1, CountsType DEF build_commit
  <1>6. k.missing_scope # None => k.missing_counts \in [Resources -> 0 .. 2]
    BY <1>1, CountsType DEF build_commit
  <1>7. /\ k.missing_scope \in Scopes \cup {None}
        /\ k.run \in Runs
        /\ k.status \in {"succeeded", "partial", "failed"}
        /\ k.cursor_after \in Cursors \cup {None}
        /\ k.relations \subseteq Relations
        /\ k.relation_versions \subseteq Relations
        /\ k.observed \subseteq Resources
        /\ k.resource_versions \subseteq observed_resource_ids(b)
        /\ k.resource_versions \subseteq Resources
    BY <1>1 DEF build_commit, observed_resource_ids
  <1>8. k.changes \subseteq Resources \cup Relations
    BY <1>1, <1>2 DEF build_commit, ChangedResources, observed_resource_ids
  <1>9. k \in CommitType
    <2>1. k = [run |-> k.run, status |-> k.status, resources |-> k.resources,
               resource_versions |-> k.resource_versions,
               relations |-> k.relations,
               relation_versions |-> k.relation_versions,
               changes |-> k.changes, cursor_after |-> k.cursor_after,
               missing_scope |-> k.missing_scope,
               missing_counts |-> k.missing_counts, observed |-> k.observed]
      BY DEF build_commit
    <2> HIDE DEF k
    <2> QED
      BY <2>1, <1>4, <1>5, <1>7, <1>8 DEF CommitType
  <1>10. \A r \in k.resource_versions : k.resources[r] # None
    BY <1>3, <1>7, DisjointAssumption DEF observed_resource_ids
  <1> QED
    BY <1>6, <1>9, <1>10 DEF CommitOK

\* So is the commit of a failed run (SyncEngine::fail).
LEMMA FailedCommitOK ==
    ASSUME NEW h \in Handle
    PROVE  CommitOK(failed_commit(h))
  <1>1. h.run \in Runs /\ h.cursor_before \in Cursors \cup {None}
    BY DEF Handle
  <1> QED
    BY <1>1 DEF failed_commit, CommitOK, CommitType

\* The transaction of commit_sync keeps every table well typed.
LEMMA CommitSyncType ==
    ASSUME TablesOK, NEW c \in Connections, NEW k, CommitOK(k), commit_sync(c, k)
    PROVE  TablesOK'
  <1>1. /\ k.run \in Runs
        /\ k.status \in {"succeeded", "partial", "failed"}
        /\ k.resources \in [Resources -> ResourceRow \cup {None}]
        /\ k.resource_versions \subseteq Resources
        /\ k.relations \subseteq Relations
        /\ k.relation_versions \subseteq Relations
        /\ k.changes \subseteq Resources \cup Relations
        /\ k.cursor_after \in Cursors \cup {None}
        /\ k.missing_scope \in Scopes \cup {None}
        /\ k.observed \subseteq Resources
    BY DEF CommitOK, CommitType
  <1>2. connections' \subseteq Connections /\ nextRun' \in 1 .. MaxRuns + 1
    BY DEF commit_sync, TablesOK
  <1>3. runs' \in [Runs -> RunRow \cup {None}]
    <2>1. runs[k.run] \in RunRow
      BY <1>1 DEF commit_sync, RunStarted, TablesOK
    <2>2. runs' = [runs EXCEPT ![k.run] = [runs[k.run] EXCEPT
                        !.status = k.status, !.cursor_after = k.cursor_after]]
      BY <1>1, <2>1 DEF commit_sync, TablesOK, RunRow
    <2>3. [runs[k.run] EXCEPT !.status = k.status, !.cursor_after = k.cursor_after]
            \in RunRow
      BY <1>1, <2>1 DEF RunRow, Statuses
    <2> QED
      BY <1>1, <2>2, <2>3 DEF TablesOK
  <1>4. resources' \in [Resources -> ResourceRow \cup {None}]
    BY <1>1 DEF commit_sync, TablesOK
  <1>5. resource_versions' \subseteq ResourceVersion
    <2>1. \A r \in k.resource_versions : k.resources[r].fingerprint \in Fingerprints
      BY <1>1 DEF CommitOK, ResourceRow
    <2> QED
      BY <1>1, <2>1 DEF commit_sync, TablesOK, ResourceVersion
  <1>6. relations' \subseteq Relations /\ relation_versions' \subseteq RelationVersion
    BY <1>1 DEF commit_sync, TablesOK, RelationVersion
  <1>7. changes' \subseteq Change
    BY <1>1 DEF commit_sync, TablesOK, Change
  <1>8. cursor' \in [Connections -> Cursors \cup {None}]
    BY <1>1 DEF commit_sync, TablesOK
  <1>9. missing' \in MissingType /\ scans' \in ScanType
    <2>1. CASE k.missing_scope = None
      BY <2>1 DEF commit_sync, TablesOK
    <2>2. CASE k.missing_scope # None
      <3>1. k.missing_scope \in Scopes /\ k.missing_counts \in [Resources -> 0 .. 2]
        BY <1>1, <2>2 DEF CommitOK
      <3>2. missing' = [missing EXCEPT ![c] = [missing[c] EXCEPT
                            ![k.missing_scope] = k.missing_counts]]
        BY <2>2 DEF commit_sync
      <3>3. missing' \in MissingType
        BY <3>1, <3>2 DEF TablesOK, MissingType
      <3> DEFINE Scan == [run : Runs, observed : SUBSET Resources]
                 q == Append(scans[c][k.missing_scope],
                             [run |-> k.run, observed |-> k.observed])
      <3>4. scans[c][k.missing_scope] \in Seq(Scan)
        BY <3>1 DEF TablesOK, ScanType
      <3>5. q \in Seq(Scan)
        BY <1>1, <3>4
      <3>6. scans' = [scans EXCEPT ![c] = [scans[c] EXCEPT ![k.missing_scope] = q]]
        BY <2>2 DEF commit_sync
      <3>7. scans' \in ScanType
        <4> HIDE DEF q
        <4> QED
          BY <3>1, <3>5, <3>6 DEF TablesOK, ScanType
      <3> QED
        BY <3>3, <3>7
    <2> QED
      BY <2>1, <2>2
  <1> QED
    BY <1>2, <1>3, <1>4, <1>5, <1>6, <1>7, <1>8, <1>9 DEF TablesOK

\* Every action keeps the tables and the tasks well typed.
LEMMA TypeStep ==
    TypeOK /\ [Next]_vars => TypeOK'
  <1> SUFFICES ASSUME TypeOK, [Next]_vars PROVE TypeOK'
    OBVIOUS
  <1>0. TablesOK /\ engine \in [Connections -> EngineType]
    BY DEF TypeOK
  <1>i. Idle \in EngineType /\ Idle.phase = "idle"
    BY DEF Idle, EngineType
  <1>a. ASSUME NEW c \in Connections, UNCHANGED up, TablesOK',
               NEW e \in EngineType, engine' = [engine EXCEPT ![c] = e],
               e.phase = "idle" => e = Idle,
               e.phase # "idle" => e.handle \in Handle,
               e.phase = "built" => e.batch \in Batches(c) /\ CommitOK(e.commit)
        PROVE  TypeOK'
    <2>1. engine' \in [Connections -> EngineType]
      BY <1>0, <1>a
    <2>2. ASSUME NEW d \in Connections PROVE EngineOK(d)'
      <3>1. CASE d = c
        BY <1>0, <1>a, <3>1 DEF EngineOK
      <3>2. CASE d # c
        BY <1>0, <1>a, <3>2 DEF EngineOK, TypeOK
      <3> QED
        BY <3>1, <3>2
    <2> QED
      BY <1>a, <2>1, <2>2 DEF TypeOK
  <1>b. ASSUME UNCHANGED engine, TablesOK', up' \in BOOLEAN
        PROVE  TypeOK'
    BY <1>b DEF TypeOK, EngineOK
  <1>1. ASSUME NEW c \in Connections, CreateConnection(c) PROVE TypeOK'
    <2>1. TablesOK'
      BY <1>0, <1>1 DEF CreateConnection, upsert_connection, TablesOK
    <2> QED
      BY <1>1, <1>b, <2>1 DEF CreateConnection, TypeOK
  <1>2. ASSUME NEW c \in Connections, NEW mode \in Modes, NEW s \in Scopes,
               Start(c, mode, s)
        PROVE  TypeOK'
    <2>1. /\ c \in connections
          /\ nextRun \in Runs
          /\ cursor[c] \in Cursors \cup {None}
      BY <1>0, <1>2, BoundAssumption DEF Start, start_sync_run, TablesOK
    <2>2. NewHandle(c, mode, s) \in Handle
      BY <2>1 DEF NewHandle, Handle
    <2>3. [conn |-> c, mode |-> mode, status |-> "running",
           cursor_before |-> cursor[c], cursor_after |-> None] \in RunRow
      BY <2>1 DEF RunRow, Statuses
    <2>4. TablesOK'
      BY <1>0, <1>2, <2>1, <2>3, BoundAssumption DEF Start, start_sync_run, TablesOK
    <2>5. [Idle EXCEPT !.phase = "running", !.handle = NewHandle(c, mode, s)]
            \in EngineType
      BY <2>2 DEF Idle, EngineType
    <2> QED
      BY <1>2, <1>a, <2>2, <2>4, <2>5 DEF Start, Idle
  <1>3. ASSUME NEW c \in Connections, NEW b \in Batches(c), Build(c, b)
        PROVE  TypeOK'
    <2> DEFINE k == build_commit(c, engine[c].handle, b)
    <2>1. engine[c] \in EngineType /\ engine[c].handle \in Handle
      BY <1>0, <1>3 DEF Build, TypeOK, EngineOK
    <2>2. CommitOK(k)
      BY <1>0, <2>1, BuildCommitOK
    <2>3. b \in AnyBatch
      BY DEF Batches
    <2> HIDE DEF k
    <2> DEFINE e == [engine[c] EXCEPT !.phase = "built", !.batch = b, !.commit = k]
    <2>4. e \in EngineType
      BY <2>1, <2>2, <2>3 DEF EngineType, CommitOK
    <2>5. e.phase = "built" /\ e.handle = engine[c].handle /\ e.batch = b /\ e.commit = k
      BY <2>1 DEF EngineType
    <2>6. engine' = [engine EXCEPT ![c] = e]
      BY <1>0, <1>3, <2>1 DEF Build, k, EngineType
    <2>7. TablesOK'
      BY <1>0, <1>3 DEF Build, tables, TablesOK
    <2> HIDE DEF e
    <2> QED
      BY <1>3, <1>a, <2>1, <2>2, <2>4, <2>5, <2>6, <2>7 DEF Build
  <1>4. ASSUME NEW c \in Connections, NEW b \in Batches(c), Reject(c, b)
        PROVE  TypeOK'
    <2>1. TablesOK'
      BY <1>0, <1>4 DEF Reject, tables, TablesOK
    <2> QED
      BY <1>4, <1>a, <1>i, <2>1 DEF Reject
  <1>5. ASSUME NEW c \in Connections, Submit(c) PROVE TypeOK'
    <2>1. CommitOK(engine[c].commit)
      BY <1>5 DEF Submit, TypeOK, EngineOK
    <2>2. TablesOK'
      BY <1>0, <1>5, <2>1, CommitSyncType DEF Submit
    <2> QED
      BY <1>5, <1>a, <1>i, <2>2 DEF Submit
  <1>6. ASSUME NEW c \in Connections, Fail(c) PROVE TypeOK'
    <2>1. CommitOK(failed_commit(engine[c].handle))
      BY <1>6, FailedCommitOK DEF Fail, TypeOK, EngineOK
    <2>2. TablesOK'
      BY <1>0, <1>6, <2>1, CommitSyncType DEF Fail
    <2> QED
      BY <1>6, <1>a, <1>i, <2>2 DEF Fail
  <1>7. ASSUME NEW c \in Connections, Abandon(c) PROVE TypeOK'
    <2>1. TablesOK'
      BY <1>0, <1>7 DEF Abandon, tables, TablesOK
    <2> QED
      BY <1>7, <1>a, <1>i, <2>1 DEF Abandon
  <1>8. ASSUME NEW c \in Connections, Purge(c) PROVE TypeOK'
    <2>1. missing' \in MissingType
      BY <1>0, <1>8 DEF Purge, purge_connection, TablesOK, MissingType
    <2>2. scans' \in ScanType
      <3> DEFINE Scan == [run : Runs, observed : SUBSET Resources]
                 empty == [s \in Scopes |-> <<>>]
      <3>1. empty \in [Scopes -> Seq(Scan)]
        OBVIOUS
      <3>2. scans' = [scans EXCEPT ![c] = empty]
        BY <1>8 DEF Purge, purge_connection
      <3> HIDE DEF empty
      <3> QED
        BY <1>0, <3>1, <3>2 DEF TablesOK, ScanType
    <2>3. TablesOK'
      BY <1>0, <1>8, <2>1, <2>2 DEF Purge, purge_connection, TablesOK
    <2> QED
      BY <1>8, <1>b, <2>3 DEF Purge, TypeOK
  <1>9. CASE Crash
    <2>1. TablesOK'
      BY <1>0, <1>9 DEF Crash, tables, TablesOK
    <2>2. engine' \in [Connections -> EngineType] /\ \A c \in Connections : EngineOK(c)'
      BY <1>9, <1>i DEF Crash, EngineOK
    <2> QED
      BY <1>9, <2>1, <2>2 DEF Crash, TypeOK
  <1>10. CASE Recover
    <2>1. \A n \in Runs : runs[n] # None =>
            [runs[n] EXCEPT !.status = "interrupted"] \in RunRow
      BY <1>0 DEF TablesOK, RunRow, Statuses
    <2>2. TablesOK'
      BY <1>0, <1>10, <2>1 DEF Recover, mark_running_syncs_interrupted, TablesOK
    <2> QED
      BY <1>10, <1>b, <2>2 DEF Recover
  <1>11. CASE UNCHANGED vars
    <2>1. TablesOK'
      BY <1>0, <1>11 DEF vars, tables, TablesOK
    <2> QED
      BY <1>11, <1>b, <2>1 DEF vars, TypeOK
  <1> QED
    BY <1>1, <1>2, <1>3, <1>4, <1>5, <1>6, <1>7, <1>8, <1>9, <1>10, <1>11
       DEF Next, ConnectionStep

\* The initial database is well typed.
LEMMA TypeInit == SyncInit => TypeOK
  <1> SUFFICES ASSUME SyncInit PROVE TypeOK
    OBVIOUS
  <1>1. Idle \in EngineType /\ Idle.phase = "idle"
    BY DEF Idle, EngineType
  <1>2. engine \in [Connections -> EngineType] /\ \A c \in Connections : EngineOK(c)
    BY <1>1 DEF SyncInit, EngineOK
  <1>3. missing \in MissingType /\ scans \in ScanType
    BY DEF SyncInit, StoreInit, MissingType, ScanType
  <1>4. TablesOK
    BY <1>3, BoundAssumption DEF SyncInit, StoreInit, TablesOK
  <1> QED
    BY <1>2, <1>4 DEF SyncInit, TypeOK

\* TypeOK holds in every reachable state, for any constants.
THEOREM TypeCorrect == Spec => []TypeOK
  BY TypeInit, TypeStep, PTL DEF Spec

-----------------------------------------------------------------------------
(* What a task has built stays what it would build now.                    *)

\* The rows that build_commit of connection c reads are not touched.
OwnRowsUnchanged(c) ==
    /\ \A r \in Resources : Owner[r] = c => resources'[r] = resources[r]
    /\ missing'[c] = missing[c]
    /\ \A e \in Relations : Owner[Source[e]] = c =>
            (e \in relations' <=> e \in relations)
    /\ \A v \in RelationVersion : Owner[Source[v.relation]] = c =>
            (v \in relation_versions' <=> v \in relation_versions)

\* build_commit depends on nothing but the rows of its own connection.
LEMMA BuildCommitFrame ==
    ASSUME TablesOK, TablesOK', NEW c \in Connections, NEW h \in Handle,
           NEW b \in Batches(c), OwnRowsUnchanged(c)
    PROVE  build_commit(c, h, b)' = build_commit(c, h, b)
  <1>1. /\ b.observations \in [Resources -> Observation \cup {None}]
        /\ \A r \in Resources : b.observations[r] # None => Owner[r] = c
        /\ b.relations \subseteq Relations
        /\ \A e \in b.relations : Owner[Source[e]] = c
    BY DEF Batches, AnyBatch
  <1>2. ASSUME NEW r \in Resources, b.observations[r] # None
        PROVE  /\ FingerprintChanged(r, b.observations[r])'
                    <=> FingerprintChanged(r, b.observations[r])
               /\ project_resource(r, b.observations[r], h.run)'
                    = project_resource(r, b.observations[r], h.run)
               /\ resources'[r] = resources[r]
    BY <1>1, <1>2 DEF OwnRowsUnchanged, FingerprintChanged, project_resource
  <1>3. \A s : Absent(c, s, b)' = Absent(c, s, b)
    BY DEF OwnRowsUnchanged, Absent
  <1>4. \A s : MissingCounts(c, s, b)' = MissingCounts(c, s, b)
    BY <1>3 DEF OwnRowsUnchanged, MissingCounts
  <1>5. \A s : Tombstoned(c, s, b)' = Tombstoned(c, s, b)
    <2>1. \A s : \A r \in Absent(c, s, b) : Owner[r] = c /\ r \in Resources
      BY DEF Absent
    <2> QED
      BY <1>3, <2>1 DEF OwnRowsUnchanged, Tombstoned
  <1>6. NewTombstones(c, b)' = NewTombstones(c, b)
    BY <1>5 DEF NewTombstones
  <1>7. \A r \in NewTombstones(c, b) : Owner[r] = c /\ r \in Resources
    BY DEF NewTombstones, Tombstoned, Absent
  <1>8. \A r \in NewTombstones(c, b) :
            tombstone_resource(r, h.run)' = tombstone_resource(r, h.run)
    BY <1>7 DEF OwnRowsUnchanged, tombstone_resource
  <1>9. ASSUME NEW e \in b.relations
        PROVE  RelationChanged(e, h.run)' <=> RelationChanged(e, h.run)
    <2>1. e \in relations' <=> e \in relations
      BY <1>1 DEF OwnRowsUnchanged
    <2>2. ASSUME NEW v PROVE (v \in relation_versions' /\ v.relation = e)
                                <=> (v \in relation_versions /\ v.relation = e)
      <3>1. v \in relation_versions \/ v \in relation_versions' => v \in RelationVersion
        BY DEF TablesOK
      <3> QED
        BY <1>1, <3>1 DEF OwnRowsUnchanged
    <2> QED
      BY <2>1, <2>2 DEF RelationChanged, relation_fingerprint
  <1>10. ChangedResources(c, b)' = ChangedResources(c, b)
    BY <1>2, <1>6 DEF ChangedResources, observed_resource_ids
  <1> DEFINE k == build_commit(c, h, b)
  <1>11. (k.resources)' = k.resources
    BY <1>2, <1>6, <1>8 DEF build_commit
  <1>12. (k.resource_versions)' = k.resource_versions
    BY <1>2 DEF build_commit, observed_resource_ids
  <1>13. (k.relation_versions)' = k.relation_versions
    BY <1>9 DEF build_commit
  <1>14. (k.changes)' = k.changes
    BY <1>9, <1>10 DEF build_commit
  <1>15. (k.missing_counts)' = k.missing_counts
    BY <1>4 DEF build_commit
  <1>16. /\ (k.run)' = k.run
         /\ (k.status)' = k.status
         /\ (k.relations)' = k.relations
         /\ (k.cursor_after)' = k.cursor_after
         /\ (k.missing_scope)' = k.missing_scope
         /\ (k.observed)' = k.observed
    BY DEF build_commit, Authoritative, observed_resource_ids
  <1>17. k = [run |-> k.run, status |-> k.status, resources |-> k.resources,
             resource_versions |-> k.resource_versions,
             relations |-> k.relations,
             relation_versions |-> k.relation_versions,
             changes |-> k.changes, cursor_after |-> k.cursor_after,
             missing_scope |-> k.missing_scope,
             missing_counts |-> k.missing_counts, observed |-> k.observed]
    BY DEF build_commit
  <1>18. k' = [run |-> (k.run)', status |-> (k.status)',
             resources |-> (k.resources)',
             resource_versions |-> (k.resource_versions)',
             relations |-> (k.relations)',
             relation_versions |-> (k.relation_versions)',
             changes |-> (k.changes)', cursor_after |-> (k.cursor_after)',
             missing_scope |-> (k.missing_scope)',
             missing_counts |-> (k.missing_counts)', observed |-> (k.observed)']
    BY DEF build_commit
  <1> HIDE DEF k
  <1>19. k' = k
    BY <1>11, <1>12, <1>13, <1>14, <1>15, <1>16, <1>17, <1>18
  <1> QED
    BY <1>19 DEF k

\* A commit built for connection c writes no row of another connection.
LEMMA CommitOwnRows ==
    ASSUME TablesOK, NEW c \in Connections, NEW h \in Handle, NEW b \in Batches(c),
           commit_sync(c, build_commit(c, h, b)),
           NEW d \in Connections, d # c
    PROVE  OwnRowsUnchanged(d)
  <1> DEFINE k == build_commit(c, h, b)
  <1>1. /\ \A r \in Resources : b.observations[r] # None => Owner[r] = c
        /\ b.relations \subseteq Relations
        /\ \A e \in b.relations : Owner[Source[e]] = c
    BY DEF Batches, AnyBatch
  <1>2. \A r \in NewTombstones(c, b) : Owner[r] = c
    BY DEF NewTombstones, Tombstoned, Absent
  <1>3. \A r \in Resources : Owner[r] = d => k.resources[r] = None
    BY <1>1, <1>2 DEF build_commit
  <1>4. k.relations = b.relations /\ k.relation_versions \subseteq b.relations
    BY DEF build_commit
  <1> HIDE DEF k
  <1>5. commit_sync(c, k)
    BY DEF k
  <1>6. \A r \in Resources : Owner[r] = d => resources'[r] = resources[r]
    BY <1>3, <1>5 DEF commit_sync
  <1>7. missing'[d] = missing[d]
    BY <1>5 DEF commit_sync, TablesOK, MissingType
  <1>8. \A e \in Relations : Owner[Source[e]] = d => (e \in relations' <=> e \in relations)
    BY <1>1, <1>4, <1>5 DEF commit_sync
  <1>9. \A v \in RelationVersion : Owner[Source[v.relation]] = d =>
            (v \in relation_versions' <=> v \in relation_versions)
    BY <1>1, <1>4, <1>5 DEF commit_sync, RelationVersion
  <1> QED
    BY <1>6, <1>7, <1>8, <1>9 DEF OwnRowsUnchanged

\* Nor does the commit of a failed run; it writes no row at all.
LEMMA FailedOwnRows ==
    ASSUME TablesOK, NEW c \in Connections, NEW h,
           commit_sync(c, failed_commit(h)), NEW d \in Connections
    PROVE  OwnRowsUnchanged(d)
  BY DEF commit_sync, failed_commit, OwnRowsUnchanged, TablesOK

\* Nor does the purge of another connection.
LEMMA PurgeOwnRows ==
    ASSUME TablesOK, NEW c \in Connections, purge_connection(c),
           NEW d \in Connections, d # c
    PROVE  OwnRowsUnchanged(d)
  <1>1. \A e \in Relations : Owner[Source[e]] = d => e \notin Touching(c)
    BY KeyAssumption DEF Touching
  <1>2. \A v \in RelationVersion : v.relation \in Relations
    BY DEF RelationVersion
  <1> QED
    BY <1>1, <1>2 DEF purge_connection, OwnRowsUnchanged, TablesOK, MissingType

\* No step changes, under a task that has built its commit, what it read.
LEMMA FreshStep ==
    TypeOK /\ CommitFresh /\ [Next]_vars => CommitFresh'
  <1> SUFFICES ASSUME TypeOK, CommitFresh, [Next]_vars,
                      NEW d \in Connections, engine'[d].phase = "built"
               PROVE  (engine[d].commit =
                        build_commit(d, engine[d].handle, engine[d].batch))'
    BY DEF CommitFresh
  <1>0. TablesOK /\ TablesOK' /\ engine \in [Connections -> EngineType]
    BY TypeStep DEF TypeOK
  <1>i. Idle.phase = "idle"
    BY DEF Idle
  \* The task of d did not move and neither did its rows.
  <1>a. ASSUME engine'[d] = engine[d], OwnRowsUnchanged(d)
        PROVE  (engine[d].commit =
                    build_commit(d, engine[d].handle, engine[d].batch))'
    <2>1. /\ engine[d].phase = "built"
          /\ engine[d].handle \in Handle
          /\ engine[d].batch \in Batches(d)
          /\ engine[d].commit = build_commit(d, engine[d].handle, engine[d].batch)
      BY <1>a DEF TypeOK, EngineOK, CommitFresh
    <2>2. PICK h \in Handle, b \in Batches(d) :
            h = engine[d].handle /\ b = engine[d].batch
      BY <2>1
    <2>3. engine'[d].handle = h /\ engine'[d].batch = b
      BY <1>a, <2>2
    <2>4. build_commit(d, h, b)' = build_commit(d, h, b)
      BY <1>0, <1>a, BuildCommitFrame
    <2>5. engine'[d].commit = build_commit(d, h, b)
      BY <1>a, <2>1, <2>2
    <2>6. build_commit(d, engine[d].handle, engine[d].batch)' = build_commit(d, h, b)'
      BY <2>3 DEF build_commit, Authoritative, NewTombstones, Tombstoned, Absent,
                  MissingCounts, observed_resource_ids, ChangedResources,
                  RelationChanged, FingerprintChanged, project_resource,
                  tombstone_resource, fingerprint
    <2> QED
      BY <2>4, <2>5, <2>6
  <1>b. ASSUME UNCHANGED <<resources, missing, relations, relation_versions>>
        PROVE  OwnRowsUnchanged(d)
    BY <1>b DEF OwnRowsUnchanged
  <1>1. ASSUME NEW c \in Connections, CreateConnection(c)
        PROVE  engine'[d] = engine[d] /\ OwnRowsUnchanged(d)
    BY <1>1, <1>b DEF CreateConnection, upsert_connection
  <1>2. ASSUME NEW c \in Connections, NEW mode \in Modes, NEW s \in Scopes,
               Start(c, mode, s)
        PROVE  engine'[d] = engine[d] /\ OwnRowsUnchanged(d)
    BY <1>0, <1>2, <1>b DEF Start, start_sync_run, Idle
  <1>3. ASSUME NEW c \in Connections, NEW b \in Batches(c), Build(c, b), c # d
        PROVE  engine'[d] = engine[d] /\ OwnRowsUnchanged(d)
    BY <1>0, <1>3, <1>b DEF Build, tables
  <1>4. ASSUME NEW c \in Connections, NEW b \in Batches(c), Reject(c, b)
        PROVE  engine'[d] = engine[d] /\ OwnRowsUnchanged(d)
    BY <1>0, <1>4, <1>b, <1>i DEF Reject, tables
  <1>5. ASSUME NEW c \in Connections, Submit(c)
        PROVE  engine'[d] = engine[d] /\ OwnRowsUnchanged(d)
    <2>1. c # d /\ engine'[d] = engine[d]
      BY <1>0, <1>5, <1>i DEF Submit
    <2>2. /\ engine[c].handle \in Handle
          /\ engine[c].batch \in Batches(c)
          /\ commit_sync(c, build_commit(c, engine[c].handle, engine[c].batch))
      BY <1>5 DEF Submit, TypeOK, EngineOK, CommitFresh
    <2>3. PICK h \in Handle, b \in Batches(c) :
            h = engine[c].handle /\ b = engine[c].batch
      BY <2>2
    <2>4. commit_sync(c, build_commit(c, h, b))
      BY <2>2, <2>3
    <2> QED
      BY <1>0, <2>1, <2>4, CommitOwnRows
  <1>6. ASSUME NEW c \in Connections, Fail(c)
        PROVE  engine'[d] = engine[d] /\ OwnRowsUnchanged(d)
    <2>1. PICK h : h = engine[c].handle
      OBVIOUS
    <2>2. commit_sync(c, failed_commit(h))
      BY <1>6, <2>1 DEF Fail
    <2> QED
      BY <1>0, <1>6, <1>i, <2>2, FailedOwnRows DEF Fail
  <1>7. ASSUME NEW c \in Connections, Abandon(c)
        PROVE  engine'[d] = engine[d] /\ OwnRowsUnchanged(d)
    BY <1>0, <1>7, <1>b, <1>i DEF Abandon, tables
  <1>8. ASSUME NEW c \in Connections, Purge(c)
        PROVE  engine'[d] = engine[d] /\ OwnRowsUnchanged(d)
    <2>1. engine' = engine /\ c # d
      BY <1>8 DEF Purge
    <2> QED
      BY <1>0, <1>8, <2>1, PurgeOwnRows DEF Purge
  <1>9. CASE Crash
    BY <1>9, <1>i DEF Crash
  <1>10. CASE Recover
    BY <1>10, <1>a, <1>b DEF Recover, mark_running_syncs_interrupted
  <1>11. CASE UNCHANGED vars
    BY <1>11, <1>a, <1>b DEF vars, tables
  <1>12. ASSUME NEW b \in Batches(d), Build(d, b)
         PROVE  (engine[d].commit =
                    build_commit(d, engine[d].handle, engine[d].batch))'
    <2>1. /\ engine'[d].commit = build_commit(d, engine[d].handle, b)
          /\ engine'[d].handle = engine[d].handle
          /\ engine'[d].batch = b
      BY <1>0, <1>12 DEF Build, EngineType
    <2>2. engine[d].handle \in Handle
      BY <1>12 DEF Build, TypeOK, EngineOK
    <2>3. PICK h \in Handle : h = engine[d].handle
      BY <2>2
    <2>4. OwnRowsUnchanged(d)
      BY <1>12, <1>b DEF Build, tables
    <2>5. build_commit(d, h, b)' = build_commit(d, h, b)
      BY <1>0, <2>4, BuildCommitFrame
    <2>7. engine'[d].handle = h /\ engine'[d].batch = b
      BY <2>1, <2>3
    <2>6. build_commit(d, engine[d].handle, engine[d].batch)' = build_commit(d, h, b)'
      BY <2>7 DEF build_commit, Authoritative, NewTombstones, Tombstoned,
                  Absent, MissingCounts, observed_resource_ids, ChangedResources,
                  RelationChanged, FingerprintChanged, project_resource,
                  tombstone_resource, fingerprint
    <2> QED
      BY <2>1, <2>3, <2>5, <2>6
  <1> QED
    BY <1>a, <1>1, <1>2, <1>3, <1>4, <1>5, <1>6, <1>7, <1>8, <1>9, <1>10, <1>11,
       <1>12 DEF Next, ConnectionStep

-----------------------------------------------------------------------------
(* Absence evidence.                                                       *)

Scan == [run : Runs, observed : SUBSET Resources]

\* One more scan that missed r makes the run of misses one longer.
LEMMA MissedAppend ==
    ASSUME NEW q \in Seq(Scan), NEW x \in Scan, NEW r, NEW k \in Nat,
           MissedIn(q, r, k), r \notin x.observed
    PROVE  MissedIn(Append(q, x), r, k + 1)
  <1>1. Len(q) \in Nat /\ Len(q) >= k
    BY DEF MissedIn
  <1>2. Len(Append(q, x)) = Len(q) + 1
    OBVIOUS
  <1>3. ASSUME NEW i \in (Len(q) + 1) - (k + 1) + 1 .. Len(q) + 1
        PROVE  r \notin Append(q, x)[i].observed
    <2>1. CASE i = Len(q) + 1
      <3>1. Append(q, x)[i] = x
        BY <2>1
      <3> QED
        BY <3>1
    <2>2. CASE i # Len(q) + 1
      <3>1. i \in Len(q) - k + 1 .. Len(q) /\ i \in 1 .. Len(q)
        BY <1>1, <2>2
      <3>2. Append(q, x)[i] = q[i]
        BY <3>1
      <3> QED
        BY <3>1, <3>2 DEF MissedIn
    <2> QED
      BY <2>1, <2>2
  <1> QED
    BY <1>1, <1>2, <1>3 DEF MissedIn

\* Fewer misses are implied by more.
LEMMA MissedWeaken ==
    ASSUME NEW q \in Seq(Scan), NEW r, NEW k \in Nat, NEW j \in Nat,
           MissedIn(q, r, k), j <= k
    PROVE  MissedIn(q, r, j)
  <1>1. Len(q) \in Nat
    OBVIOUS
  <1> QED
    BY <1>1 DEF MissedIn

\* So the misses that were there remain after another miss.
LEMMA MissedStays ==
    ASSUME NEW q \in Seq(Scan), NEW x \in Scan, NEW r, NEW k \in Nat,
           MissedIn(q, r, k), r \notin x.observed
    PROVE  MissedIn(Append(q, x), r, k)
  <1> DEFINE a == Append(q, x)
  <1>1. MissedIn(a, r, k + 1)
    BY MissedAppend
  <1>2. a \in Seq(Scan)
    OBVIOUS
  <1>3. k + 1 \in Nat /\ k <= k + 1
    OBVIOUS
  <1> HIDE DEF a
  <1>4. MissedIn(a, r, k)
    BY <1>1, <1>2, <1>3, MissedWeaken
  <1> QED
    BY <1>4 DEF a

\* Nothing was missed in the empty sequence.
LEMMA MissedEmpty ==
    ASSUME NEW r
    PROVE  MissedIn(<<>>, r, 0)
  <1>1. Len(<<>>) = 0
    OBVIOUS
  <1> QED
    BY <1>1 DEF MissedIn

\* No misses are always there.
LEMMA MissedNone ==
    ASSUME NEW q \in Seq(Scan), NEW r
    PROVE  MissedIn(q, r, 0)
  <1>1. Len(q) \in Nat
    OBVIOUS
  <1> QED
    BY <1>1 DEF MissedIn

\* The evidence part of the inductive invariant.
EvidenceInv ==
    /\ TypeOK
    /\ CommitFresh
    /\ EvidenceSound
    /\ TombstoneSound

\* A commit keeps the evidence honest: this is where counts grow and
\* resources are tombstoned.
LEMMA EvidenceCommit ==
    ASSUME TablesOK, EvidenceSound, TombstoneSound,
           NEW c \in Connections, NEW h \in Handle, NEW b \in Batches(c),
           commit_sync(c, build_commit(c, h, b))
    PROVE  EvidenceSound' /\ TombstoneSound'
  <1> DEFINE k == build_commit(c, h, b)
             x == [run |-> h.run, observed |-> observed_resource_ids(b)]
  <1>1. /\ \A r \in Resources : b.observations[r] # None => Owner[r] = c
        /\ Authoritative(b) => b.scope \in Scopes
        /\ x \in Scan
        /\ \A r \in Resources : r \in x.observed <=> b.observations[r] # None
    BY DEF Batches, AnyBatch, Authoritative, Handle, Scan, observed_resource_ids
  <1>2. \A d \in Connections, s \in Scopes : scans[d][s] \in Seq(Scan)
    BY DEF TablesOK, ScanType, Scan
  <1>3. \A d \in Connections, s \in Scopes, r \in Resources : missing[d][s][r] \in 0 .. 2
    BY DEF TablesOK, MissingType
  \* Only the scope of an authoritative commit is touched.
  <1>4. \A d \in Connections, s \in Scopes :
            ~ (d = c /\ Authoritative(b) /\ s = b.scope) =>
                scans'[d][s] = scans[d][s] /\ missing'[d][s] = missing[d][s]
    BY <1>1, DisjointAssumption
       DEF commit_sync, build_commit, TablesOK, ScanType, MissingType
  <1>5. Authoritative(b) =>
            /\ scans'[c][b.scope] = Append(scans[c][b.scope], x)
            /\ missing'[c][b.scope] = MissingCounts(c, b.scope, b)
    BY <1>1, DisjointAssumption
       DEF commit_sync, build_commit, TablesOK, ScanType, MissingType
  <1>6. ASSUME NEW d \in Connections, NEW s \in Scopes, NEW r \in Resources
        PROVE  MissedIn(scans'[d][s], r, missing'[d][s][r])
    <2>0. MissedIn(scans[d][s], r, missing[d][s][r])
      BY DEF EvidenceSound, Missed
    <2>1. CASE ~ (d = c /\ Authoritative(b) /\ s = b.scope)
      BY <1>4, <2>0, <2>1
    <2>2. CASE d = c /\ Authoritative(b) /\ s = b.scope
      <3> DEFINE q == scans[d][s]
                 m == missing[d][s][r]
      <3>1. scans'[d][s] = Append(q, x) /\ missing'[d][s][r] = MissingCounts(d, s, b)[r]
        BY <1>5, <2>2
      <3>2. q \in Seq(Scan) /\ m \in Nat /\ Append(q, x) \in Seq(Scan)
        BY <1>1, <1>2, <1>3
      <3>3. CASE b.observations[r] # None
        <4>1. MissingCounts(d, s, b)[r] = 0
          BY <3>3 DEF MissingCounts
        <4> QED
          BY <3>1, <3>2, <4>1, MissedNone
      <3>4. CASE b.observations[r] = None
        <4>1. MissedIn(Append(q, x), r, m + 1)
          BY <1>1, <2>0, <3>2, <3>4, MissedAppend
        <4>2. MissingCounts(d, s, b)[r] \in {m, m + 1}
          BY <3>4 DEF MissingCounts
        <4>3. MissedIn(Append(q, x), r, m)
          BY <1>1, <2>0, <3>2, <3>4, MissedStays
        <4> QED
          BY <3>1, <4>1, <4>2, <4>3
      <3> QED
        BY <3>3, <3>4
    <2> QED
      BY <2>1, <2>2
  <1>7. ASSUME NEW r \in Resources, resources'[r] # None,
               resources'[r].lifecycle = "tombstoned"
        PROVE  MissedIn(scans'[Owner[r]][resources'[r].scope], r, 2)
    <2>0. Owner[r] \in Connections
      BY KeyAssumption
    <2>1. resources'[r] = IF k.resources[r] # None THEN k.resources[r] ELSE resources[r]
      BY DEF commit_sync
    <2>2. b.observations[r] = None
      <3>1. ASSUME b.observations[r] # None PROVE FALSE
        <4>1. k.resources[r] = project_resource(r, b.observations[r], h.run)
          BY <3>1 DEF build_commit
        <4>2. k.resources[r].lifecycle = "active"
          BY <4>1 DEF project_resource
        <4>3. k.resources[r] \in ResourceRow
          <5>1. b.observations[r] \in Observation /\ h.run \in Runs
            BY <3>1 DEF Batches, AnyBatch, Handle
          <5> QED
            BY <4>1, <5>1, ProjectType
        <4> QED
          BY <1>7, <2>1, <4>2, <4>3, DisjointAssumption
      <3> QED
        BY <3>1
    <2>3. CASE r \in NewTombstones(c, b)
      <3>1. /\ Authoritative(b)
            /\ Owner[r] = c
            /\ resources[r] # None
            /\ resources[r].scope = b.scope
            /\ missing[c][b.scope][r] + 1 >= 2
        BY <2>3 DEF NewTombstones, Tombstoned, Absent
      <3>2. k.resources[r] = tombstone_resource(r, h.run)
        BY <2>2, <2>3 DEF build_commit
      <3>3. resources[r] \in ResourceRow
        BY <3>1 DEF TablesOK
      <3>4. h.run \in Runs
        BY DEF Handle
      <3>5. k.resources[r] \in ResourceRow /\ k.resources[r].scope = b.scope
        BY <3>1, <3>2, <3>3, <3>4, TombstoneType DEF tombstone_resource, ResourceRow
      <3>6. resources'[r].scope = b.scope
        BY <2>1, <3>5, DisjointAssumption
      <3> DEFINE q == scans[c][b.scope]
      <3>7. q \in Seq(Scan) /\ missing[c][b.scope][r] \in 0 .. 2
        BY <1>1, <1>2, <1>3, <3>1
      <3>8. MissedIn(q, r, missing[c][b.scope][r])
        BY <1>1, <3>1 DEF EvidenceSound, Missed
      <3>9. MissedIn(q, r, 1)
        BY <3>1, <3>7, <3>8, MissedWeaken
      <3>10. MissedIn(Append(q, x), r, 2)
        <4>1. MissedIn(Append(q, x), r, 1 + 1)
          BY <1>1, <2>2, <3>7, <3>9, MissedAppend
        <4> QED
          BY <4>1
      <3> QED
        BY <1>5, <3>1, <3>6, <3>10
    <2>4. CASE r \notin NewTombstones(c, b)
      <3>1. k.resources[r] = None
        BY <2>2, <2>4 DEF build_commit
      <3>2. resources'[r] = resources[r]
        BY <2>1, <3>1
      <3>3. resources[r] \in ResourceRow /\ resources[r].scope \in Scopes
        BY <1>7, <3>2 DEF TablesOK, ResourceRow
      <3> DEFINE s == resources[r].scope
                 q == scans[Owner[r]][s]
      <3>4. MissedIn(q, r, 2) /\ q \in Seq(Scan)
        BY <1>2, <1>7, <2>0, <3>2, <3>3 DEF TombstoneSound, Missed
      <3>5. CASE Owner[r] = c /\ Authoritative(b) /\ s = b.scope
        <4>1. scans'[Owner[r]][s] = Append(q, x)
          BY <1>5, <3>5
        <4>3. MissedIn(Append(q, x), r, 2)
          BY <1>1, <2>2, <3>4, MissedStays
        <4> QED
          BY <3>2, <4>1, <4>3
      <3>6. CASE ~ (Owner[r] = c /\ Authoritative(b) /\ s = b.scope)
        BY <1>4, <2>0, <3>2, <3>3, <3>4, <3>6
      <3> QED
        BY <3>5, <3>6
    <2> QED
      BY <2>3, <2>4
  <1> QED
    BY <1>6, <1>7 DEF EvidenceSound, TombstoneSound, Missed

\* Every step keeps the inductive invariant.
LEMMA EvidenceStep ==
    EvidenceInv /\ [Next]_vars => EvidenceInv'
  <1> SUFFICES ASSUME EvidenceInv, [Next]_vars PROVE EvidenceInv'
    OBVIOUS
  <1>0. TypeOK' /\ CommitFresh'
    BY TypeStep, FreshStep DEF EvidenceInv
  <1>t. TablesOK /\ EvidenceSound /\ TombstoneSound
    BY DEF EvidenceInv, TypeOK
  <1>a. ASSUME UNCHANGED <<resources, missing, scans>>
        PROVE  EvidenceSound' /\ TombstoneSound'
    BY <1>t, <1>a DEF EvidenceSound, TombstoneSound, Missed
  <1>1. ASSUME NEW c \in Connections,
               \/ CreateConnection(c)
               \/ \E mode \in Modes, s \in Scopes : Start(c, mode, s)
               \/ \E b \in Batches(c) : Build(c, b) \/ Reject(c, b)
               \/ Abandon(c)
        PROVE  EvidenceSound' /\ TombstoneSound'
    BY <1>1, <1>a DEF CreateConnection, upsert_connection, Start, start_sync_run,
                      Build, Reject, Abandon, tables
  <1>2. ASSUME NEW c \in Connections, Submit(c)
        PROVE  EvidenceSound' /\ TombstoneSound'
    <2>1. /\ engine[c].handle \in Handle
          /\ engine[c].batch \in Batches(c)
          /\ commit_sync(c, build_commit(c, engine[c].handle, engine[c].batch))
      BY <1>2 DEF Submit, EvidenceInv, TypeOK, EngineOK, CommitFresh
    <2>2. PICK h \in Handle, b \in Batches(c) :
            h = engine[c].handle /\ b = engine[c].batch
      BY <2>1
    <2>3. commit_sync(c, build_commit(c, h, b))
      BY <2>1, <2>2
    <2> QED
      BY <1>t, <2>3, EvidenceCommit
  <1>3. ASSUME NEW c \in Connections, Fail(c)
        PROVE  EvidenceSound' /\ TombstoneSound'
    <2>1. UNCHANGED <<missing, scans>>
      BY <1>3 DEF Fail, commit_sync, failed_commit
    <2>2. resources' = resources
      BY <1>t, <1>3 DEF Fail, commit_sync, failed_commit, TablesOK
    <2> QED
      BY <1>a, <2>1, <2>2
  <1>4. ASSUME NEW c \in Connections, Purge(c)
        PROVE  EvidenceSound' /\ TombstoneSound'
    <2>1. \A d \in Connections, s \in Scopes :
            /\ d # c => scans'[d][s] = scans[d][s] /\ missing'[d][s] = missing[d][s]
            /\ d = c => /\ scans'[d][s] = <<>>
                        /\ \A r \in Resources : missing'[d][s][r] = 0
      BY <1>t, <1>4 DEF Purge, purge_connection, TablesOK, ScanType, MissingType
    <2>2. ASSUME NEW d \in Connections, NEW s \in Scopes, NEW r \in Resources
          PROVE  MissedIn(scans'[d][s], r, missing'[d][s][r])
      <3>1. CASE d # c
        BY <1>t, <2>1, <3>1 DEF EvidenceSound, Missed
      <3>2. CASE d = c
        <4>1. MissedIn(<<>>, r, 0)
          BY MissedEmpty
        <4> QED
          BY <2>1, <3>2, <4>1
      <3> QED
        BY <3>1, <3>2
    <2>3. ASSUME NEW r \in Resources, resources'[r] # None,
                 resources'[r].lifecycle = "tombstoned"
          PROVE  MissedIn(scans'[Owner[r]][resources'[r].scope], r, 2)
      <3>1. Owner[r] # c /\ resources'[r] = resources[r] /\ Owner[r] \in Connections
        BY <1>4, <2>3, KeyAssumption DEF Purge, purge_connection
      <3>2. resources[r].scope \in Scopes
        BY <1>t, <2>3, <3>1 DEF TablesOK, ResourceRow
      <3> QED
        BY <1>t, <2>1, <2>3, <3>1, <3>2 DEF TombstoneSound, Missed
    <2> QED
      BY <2>2, <2>3 DEF EvidenceSound, TombstoneSound, Missed
  <1>5. ASSUME Crash
        PROVE  EvidenceSound' /\ TombstoneSound'
    <2>1. UNCHANGED <<resources, missing, scans>>
      BY <1>5 DEF Crash, tables
    <2> QED
      BY <1>a, <2>1
  <1>6. ASSUME Recover
        PROVE  EvidenceSound' /\ TombstoneSound'
    <2>1. UNCHANGED <<resources, missing, scans>>
      BY <1>6 DEF Recover, mark_running_syncs_interrupted
    <2> QED
      BY <1>a, <2>1
  <1>7. ASSUME UNCHANGED vars
        PROVE  EvidenceSound' /\ TombstoneSound'
    <2>1. UNCHANGED <<resources, missing, scans>>
      BY <1>7 DEF vars, tables
    <2> QED
      BY <1>a, <2>1
  <1>8. EvidenceSound' /\ TombstoneSound'
    <2>1. CASE \E c \in Connections : ConnectionStep(c)
      <3>1. PICK c \in Connections : ConnectionStep(c)
        BY <2>1
      <3> QED
        BY <1>1, <1>2, <1>3, <1>4, <3>1 DEF ConnectionStep
    <2> QED
      BY <1>5, <1>6, <1>7, <2>1 DEF Next
  <1> QED
    BY <1>0, <1>8 DEF EvidenceInv

\* The empty database satisfies it.
LEMMA EvidenceInit == SyncInit => EvidenceInv
  <1> SUFFICES ASSUME SyncInit PROVE EvidenceInv
    OBVIOUS
  <1>1. TypeOK
    BY TypeInit
  <1>2. CommitFresh
    BY DEF SyncInit, CommitFresh, Idle
  <1>3. EvidenceSound
    <2>1. \A r : MissedIn(<<>>, r, 0)
      BY MissedEmpty
    <2> QED
      BY <2>1 DEF SyncInit, StoreInit, EvidenceSound, Missed
  <1>4. TombstoneSound
    BY DEF SyncInit, StoreInit, TombstoneSound
  <1> QED
    BY <1>1, <1>2, <1>3, <1>4 DEF EvidenceInv

\* The persisted count never claims more absences than the last authoritative
\* commits of the scope show, for any number of connections, resources, scopes
\* and runs.
THEOREM EvidenceSoundAlways == Spec => []EvidenceSound
  <1>1. EvidenceInv => EvidenceSound
    BY DEF EvidenceInv
  <1> QED
    BY <1>1, EvidenceInit, EvidenceStep, PTL DEF Spec

\* In every reachable state a tombstoned resource was missed by the last two
\* authoritative commits of its scope, whatever ran in between.
THEOREM TombstoneSoundAlways == Spec => []TombstoneSound
  <1>1. EvidenceInv => TombstoneSound
    BY DEF EvidenceInv
  <1> QED
    BY <1>1, EvidenceInit, EvidenceStep, PTL DEF Spec

\* In every reachable state the commit a task is about to write is the one it
\* would build from the database as it is at that moment.
THEOREM CommitFreshAlways == Spec => []CommitFresh
  <1>1. EvidenceInv => CommitFresh
    BY DEF EvidenceInv
  <1> QED
    BY <1>1, EvidenceInit, EvidenceStep, PTL DEF Spec

=============================================================================
