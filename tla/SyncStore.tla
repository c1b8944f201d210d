----------------------------- MODULE SyncStore -----------------------------
(***************************************************************************)
(* The SQLite projection a synchronisation writes (next-infra-store) and   *)
(* the pure part of the SyncEngine that turns a normalised batch into one  *)
(* SyncCommit (next-infra-sync, engine.rs).                                *)
(*                                                                         *)
(* Every store operation is one SQLite transaction under the SharedStore   *)
(* mutex, hence one operator here.  The operators only constrain the       *)
(* primed table variables; the modules that EXTEND this one turn them into *)
(* the actions of a task (SyncSpec, SyncEngine).                           *)
(*                                                                         *)
(* Data abstraction.  A resource or relation id stands for its stable key  *)
(* (engine.rs 507-545), so Owner, Source and Target are constants.  What a *)
(* provider reports of a resource is a content and a scope.  Times are the *)
(* number of the run that wrote them: runs of one connection never         *)
(* overlap, so this order is the order of the timestamps.                  *)
(***************************************************************************)
EXTENDS Integers, Sequences, FiniteSets

CONSTANTS
    Connections,    \* connection ids
    Resources,      \* resource ids of all connections
    Relations,      \* provider relation ids of all connections
    Scopes,         \* scopes a run can enumerate
    Modes,          \* the modes callers ask for
    Contents,       \* what the provider can say of one resource
    Cursors,        \* opaque provider cursors
    Owner,          \* the connection_id inside a resource key
    Source, Target, \* the endpoints inside a relation key
    MaxRuns,        \* bound on the number of runs that are ever started
    None            \* the Rust None

ASSUME KeyAssumption ==
    /\ Owner \in [Resources -> Connections]
    /\ Source \in [Relations -> Resources]
    /\ Target \in [Relations -> Resources]
    \* normalize_relation stamps both endpoints with the same connection_id
    /\ \A e \in Relations : Owner[Source[e]] = Owner[Target[e]]

ASSUME BoundAssumption == MaxRuns \in Nat

ASSUME ModeAssumption == Modes \subseteq {"full", "incremental", "targeted"}

VARIABLES
    connections,        \* table connections: the ids present
    runs,               \* table sync_runs
    nextRun,            \* the next fresh SyncRunId
    resources,          \* table resources
    resource_versions,  \* table resource_versions
    relations,          \* table relations: the ids present, all active
    relation_versions,  \* table relation_versions
    changes,            \* table changes
    cursor,             \* connector_state.sync_cursor
    missing,            \* connector_state.consecutive_missing_json
    scans               \* history: the authoritative commits per scope

tables == <<connections, runs, nextRun, resources, resource_versions,
            relations, relation_versions, changes, cursor, missing, scans>>

Runs == 1 .. MaxRuns

Coverages == {"authoritative_full", "partial", "incremental", "targeted"}
Statuses == {"running", "succeeded", "partial", "failed", "interrupted"}
Lifecycles == {"active", "tombstoned"}

Fingerprints == Contents \X Scopes

RunRow == [conn : Connections, mode : Modes, status : Statuses,
           cursor_before : Cursors \cup {None},
           cursor_after : Cursors \cup {None}]

ResourceRow == [scope : Scopes, lifecycle : Lifecycles,
                fingerprint : Fingerprints, first_seen : Runs,
                last_seen : Runs, last_changed : Runs, last_sync_run : Runs]

ResourceVersion == [resource : Resources, run : Runs,
                    fingerprint : Fingerprints]

\* normalizer: the fingerprint of a relation hashes its key and its evidence,
\* and the evidence of a provider relation names the run that observed it.
relation_fingerprint(e, run) == <<e, run>>

RelationVersion == [relation : Relations, run : Runs]

Change == [subject : Resources \cup Relations, run : Runs]

\* A started run as its task holds it: SyncRunHandle.
Handle == [run : Runs, mode : Modes, scope : Scopes,
           cursor_before : Cursors \cup {None}]

Observation == [content : Contents, scope : Scopes]

\* None is the absence of a value, and no relation id is a resource id.
ASSUME DisjointAssumption ==
    /\ None \notin Scopes \cup Cursors
    /\ None \notin RunRow
    /\ None \notin ResourceRow
    /\ None \notin Handle
    /\ None \notin Observation
    /\ Resources \cap Relations = {}

\* A ValidatedBatch of connection c: observed resources, relations and the
\* coverage the connector claims.  Only own resources can be in it, because
\* the normalizer stamps every key with the connection of the request.
AnyBatch == [observations : [Resources -> Observation \cup {None}],
             relations : SUBSET Relations,
             coverage : Coverages,
             scope : Scopes \cup {None},
             next_cursor : Cursors \cup {None}]

Batches(c) ==
    { b \in AnyBatch :
        /\ \A r \in Resources : b.observations[r] # None => Owner[r] = c
        /\ \A e \in b.relations : Owner[Source[e]] = c
        \* only authoritative and partial coverage carry a scope
        /\ b.coverage = "authoritative_full" => b.scope # None
        /\ b.coverage \in {"incremental", "targeted"} => b.scope = None }

\* normalizer: a resource fingerprint hashes everything but the timestamps.
fingerprint(o) == <<o.content, o.scope>>

observed_resource_ids(b) == { r \in Resources : b.observations[r] # None }

-----------------------------------------------------------------------------
(* Reading the batch: engine.rs, the part of commit that can fail.         *)

\* validate_coverage: which coverage a mode accepts, and whose scope.
validate_coverage(h, b) ==
    /\ \/ b.coverage = "partial"
       \/ h.mode = "full" /\ b.coverage = "authoritative_full"
       \/ h.mode = "incremental" /\ b.coverage = "incremental"
       \/ h.mode = "targeted" /\ b.coverage = "targeted"
    /\ b.coverage = "authoritative_full" => b.scope = h.scope
    /\ b.coverage = "partial" => b.scope \in {None, h.scope}

\* ensure_relation_endpoint: in this batch, or stored by an earlier run.
ensure_relation_endpoint(b, r) ==
    b.observations[r] # None \/ resources[r] # None

ValidBatch(h, b) ==
    /\ validate_coverage(h, b)
    /\ \A e \in b.relations : /\ ensure_relation_endpoint(b, Source[e])
                              /\ ensure_relation_endpoint(b, Target[e])

-----------------------------------------------------------------------------
(* build_commit: from a batch and the stored rows to one SyncCommit.       *)

\* Mutant: only a new row is a change.
FingerprintChangedNever(r, o) == resources[r] = None

\* The stored row differs from what was observed, or there is none.
FingerprintChanged(r, o) ==
    resources[r] = None \/ resources[r].fingerprint # fingerprint(o)

project_resource(r, o, run) ==
    LET old == resources[r]
    IN  [scope |-> o.scope,
         lifecycle |-> "active",
         fingerprint |-> fingerprint(o),
         first_seen |-> IF old = None THEN run ELSE old.first_seen,
         last_seen |-> run,
         last_changed |-> IF FingerprintChanged(r, o) \/ old.lifecycle # "active"
                          THEN run ELSE old.last_changed,
         last_sync_run |-> run]

tombstone_resource(r, run) ==
    [resources[r] EXCEPT !.lifecycle = "tombstoned",
                         !.last_changed = run,
                         !.last_sync_run = run]

\* list_resources_for_scope, minus what the batch observed.
Absent(c, s, b) ==
    { r \in Resources : /\ Owner[r] = c
                        /\ resources[r] # None
                        /\ resources[r].scope = s
                        /\ b.observations[r] = None }

\* Mutant: an observed resource keeps its count.
MissingCountsKept(c, s, b) ==
    [r \in Resources |->
        IF r \in Absent(c, s, b) /\ missing[c][s][r] < 2
        THEN missing[c][s][r] + 1
        ELSE missing[c][s][r]]

\* MissingEvidenceState after an authoritative run: observed resources lose
\* their count, absent ones gain one, saturating at two.
MissingCounts(c, s, b) ==
    [r \in Resources |->
        IF b.observations[r] # None THEN 0
        ELSE IF r \in Absent(c, s, b) /\ missing[c][s][r] < 2
             THEN missing[c][s][r] + 1
             ELSE missing[c][s][r]]

\* Mutant: the first absence is enough.
TombstonedAtOnce(c, s, b) ==
    { r \in Absent(c, s, b) : resources[r].lifecycle # "tombstoned" }

\* Mutant: the count is compared before it is raised.
TombstonedLate(c, s, b) ==
    { r \in Absent(c, s, b) : /\ missing[c][s][r] >= 2
                              /\ resources[r].lifecycle # "tombstoned" }

\* The absent resources that reach the second absence now.
Tombstoned(c, s, b) ==
    { r \in Absent(c, s, b) : /\ missing[c][s][r] + 1 >= 2
                              /\ resources[r].lifecycle # "tombstoned" }

Authoritative(b) == b.coverage = "authoritative_full"

NewTombstones(c, b) ==
    IF Authoritative(b) THEN Tombstoned(c, b.scope, b) ELSE {}

\* latest_relation_version_fingerprint differs from the observed one.
RelationChanged(e, run) ==
    \/ e \notin relations
    \/ ~ \E v \in relation_versions :
            /\ v.relation = e
            /\ \A w \in relation_versions : w.relation = e => w.run <= v.run
            /\ relation_fingerprint(e, v.run) = relation_fingerprint(e, run)

\* Mutant: a tombstone makes no change row.
ChangedObserved(c, b) ==
    { r \in observed_resource_ids(b) :
        \/ FingerprintChanged(r, b.observations[r])
        \/ resources[r].lifecycle # "active" }

\* The resources whose row a commit changes visibly.
ChangedResources(c, b) ==
    { r \in observed_resource_ids(b) :
        \/ FingerprintChanged(r, b.observations[r])
        \/ resources[r].lifecycle # "active" }
    \cup NewTombstones(c, b)

build_commit(c, h, b) ==
    [run |-> h.run,
     status |-> IF b.coverage = "partial" THEN "partial" ELSE "succeeded",
     resources |->
        [r \in Resources |->
            IF b.observations[r] # None
            THEN project_resource(r, b.observations[r], h.run)
            ELSE IF r \in NewTombstones(c, b) THEN tombstone_resource(r, h.run)
            ELSE None],
     resource_versions |->
        { r \in observed_resource_ids(b) : FingerprintChanged(r, b.observations[r]) },
     relations |-> b.relations,
     relation_versions |-> { e \in b.relations : RelationChanged(e, h.run) },
     changes |-> ChangedResources(c, b)
                 \cup { e \in b.relations : RelationChanged(e, h.run) },
     cursor_after |-> b.next_cursor,
     missing_scope |-> IF Authoritative(b) THEN b.scope ELSE None,
     missing_counts |-> IF Authoritative(b) THEN MissingCounts(c, b.scope, b)
                        ELSE None,
     observed |-> observed_resource_ids(b)]

\* Mutant: a failed run clears the cursor.
failed_commit_clearing(h) ==
    [run |-> h.run,
     status |-> "failed",
     resources |-> [r \in Resources |-> None],
     resource_versions |-> {},
     relations |-> {},
     relation_versions |-> {},
     changes |-> {},
     cursor_after |-> None,
     missing_scope |-> None,
     missing_counts |-> None,
     observed |-> {}]

\* The commit SyncEngine::fail submits: the run, its old cursor, nothing else.
failed_commit(h) ==
    [run |-> h.run,
     status |-> "failed",
     resources |-> [r \in Resources |-> None],
     resource_versions |-> {},
     relations |-> {},
     relation_versions |-> {},
     changes |-> {},
     cursor_after |-> h.cursor_before,
     missing_scope |-> None,
     missing_counts |-> None,
     observed |-> {}]

-----------------------------------------------------------------------------
(* The store transactions: projection.rs.                                  *)

StoreInit ==
    /\ connections = {}
    /\ runs = [n \in Runs |-> None]
    /\ nextRun = 1
    /\ resources = [r \in Resources |-> None]
    /\ resource_versions = {}
    /\ relations = {}
    /\ relation_versions = {}
    /\ changes = {}
    /\ cursor = [c \in Connections |-> None]
    /\ missing = [c \in Connections |-> [s \in Scopes |-> [r \in Resources |-> 0]]]
    /\ scans = [c \in Connections |-> [s \in Scopes |-> <<>>]]

upsert_connection(c) ==
    /\ connections' = connections \cup {c}
    /\ UNCHANGED <<runs, nextRun, resources, resource_versions, relations,
                   relation_versions, changes, cursor, missing, scans>>

\* The handle SyncEngine::start returns for a run it starts now.
NewHandle(c, mode, s) ==
    [run |-> nextRun, mode |-> mode, scope |-> s, cursor_before |-> cursor[c]]

\* start_sync_run inserts the running marker; the foreign key to connections
\* refuses a purged connection.
start_sync_run(c, mode) ==
    /\ c \in connections
    /\ nextRun <= MaxRuns
    /\ runs' = [runs EXCEPT ![nextRun] =
                    [conn |-> c, mode |-> mode, status |-> "running",
                     cursor_before |-> cursor[c], cursor_after |-> None]]
    /\ nextRun' = nextRun + 1
    /\ UNCHANGED <<connections, resources, resource_versions, relations,
                   relation_versions, changes, cursor, missing, scans>>

\* complete_sync_run finds the row of the run, whatever its status.
RunStarted(c, k) == runs[k.run] # None /\ runs[k.run].conn = c

commit_sync(c, k) ==
    /\ RunStarted(c, k)
    /\ runs' = [runs EXCEPT ![k.run].status = k.status,
                            ![k.run].cursor_after = k.cursor_after]
    /\ resources' = [r \in Resources |->
                        IF k.resources[r] # None THEN k.resources[r]
                        ELSE resources[r]]
    /\ resource_versions' = resource_versions \cup
            { [resource |-> r, run |-> k.run,
               fingerprint |-> k.resources[r].fingerprint] : r \in k.resource_versions }
    /\ relations' = relations \cup k.relations
    /\ relation_versions' = relation_versions \cup
            { [relation |-> e, run |-> k.run] : e \in k.relation_versions }
    /\ changes' = changes \cup { [subject |-> x, run |-> k.run] : x \in k.changes }
    /\ cursor' = [cursor EXCEPT ![c] = k.cursor_after]
    /\ IF k.missing_scope = None
       THEN UNCHANGED <<missing, scans>>
       ELSE /\ missing' = [missing EXCEPT ![c][k.missing_scope] = k.missing_counts]
            /\ scans' = [scans EXCEPT ![c][k.missing_scope] =
                            Append(@, [run |-> k.run, observed |-> k.observed])]
    /\ UNCHANGED <<connections, nextRun>>

mark_running_syncs_interrupted ==
    /\ runs' = [n \in Runs |-> IF runs[n] # None /\ runs[n].status = "running"
                               THEN [runs[n] EXCEPT !.status = "interrupted"]
                               ELSE runs[n]]
    /\ UNCHANGED <<connections, nextRun, resources, resource_versions, relations,
                   relation_versions, changes, cursor, missing, scans>>

\* The relations the purge of c deletes: those that touch a resource of c.
Touching(c) == { e \in Relations : Owner[Source[e]] = c \/ Owner[Target[e]] = c }

\* Mutant: the history of the relations survives the purge.
purge_connection_keeping(c) ==
    /\ c \in connections
    /\ connections' = connections \ {c}
    /\ runs' = [n \in Runs |-> IF runs[n] # None /\ runs[n].conn = c
                               THEN None ELSE runs[n]]
    /\ resources' = [r \in Resources |-> IF Owner[r] = c THEN None ELSE resources[r]]
    /\ resource_versions' = { v \in resource_versions : Owner[v.resource] # c }
    /\ relations' = relations \ Touching(c)
    /\ cursor' = [cursor EXCEPT ![c] = None]
    /\ missing' = [missing EXCEPT ![c] = [s \in Scopes |-> [r \in Resources |-> 0]]]
    /\ scans' = [scans EXCEPT ![c] = [s \in Scopes |-> <<>>]]
    /\ UNCHANGED <<nextRun, relation_versions, changes>>

purge_connection(c) ==
    /\ c \in connections
    /\ connections' = connections \ {c}
    /\ runs' = [n \in Runs |-> IF runs[n] # None /\ runs[n].conn = c
                               THEN None ELSE runs[n]]
    /\ resources' = [r \in Resources |-> IF Owner[r] = c THEN None ELSE resources[r]]
    /\ resource_versions' = { v \in resource_versions : Owner[v.resource] # c }
    /\ relations' = relations \ Touching(c)
    /\ relation_versions' = { v \in relation_versions : v.relation \notin Touching(c) }
    /\ changes' = { x \in changes : /\ x.subject \in Resources => Owner[x.subject] # c
                                    /\ x.subject \notin Touching(c) }
    /\ cursor' = [cursor EXCEPT ![c] = None]
    /\ missing' = [missing EXCEPT ![c] = [s \in Scopes |-> [r \in Resources |-> 0]]]
    /\ scans' = [scans EXCEPT ![c] = [s \in Scopes |-> <<>>]]
    /\ UNCHANGED nextRun

=============================================================================
