------------------------- MODULE SyncHistoryProofs -------------------------
(***************************************************************************)
(* More proofs about SyncEngine: the runs and their tasks, references      *)
(* between tables, cursors, versions, changes and detected absences, and   *)
(* that the engine implements the atomic specification SyncSpec.           *)
(***************************************************************************)
EXTENDS SyncEngineProofs

USE DEF Runs

-----------------------------------------------------------------------------
(* Runs and tasks.                                                         *)

\* Run n is in the table, as a run of connection c.
OwnRun(n, c) == runs[n] # None /\ runs[n].conn = c

\* Fresh run ids are free, every run has its connection, and no task is there
\* while the process is down.
RunsInv ==
    /\ \A n \in Runs : n >= nextRun => runs[n] = None
    /\ \A n \in Runs : runs[n] # None => runs[n].conn \in connections
    /\ up \/ \A c \in Connections : engine[c].phase = "idle"

\* The run of a task is open and the newest of its connection, the cursor is
\* still the one the task has read, and what it has built is still valid.
TaskInv(c) ==
    engine[c].phase # "idle" =>
        /\ OwnRun(engine[c].handle.run, c)
        /\ runs[engine[c].handle.run].status = "running"
        /\ \A n \in Runs : OwnRun(n, c) => n <= engine[c].handle.run
        /\ cursor[c] = engine[c].handle.cursor_before
        /\ engine[c].phase = "built" => ValidBatch(engine[c].handle, engine[c].batch)

TasksInv == \A c \in Connections : TaskInv(c)

\* What the later invariants rest on.
BaseInv == TypeOK /\ CommitFresh /\ RunsInv /\ TasksInv

\* The commit a task submits is the one it would build now, from the handle and
\* the batch that it has.
LEMMA SubmitBuilt ==
    ASSUME TypeOK, CommitFresh, NEW c \in Connections, Submit(c)
    PROVE  \E h \in Handle, b \in Batches(c) :
              /\ h = engine[c].handle /\ b = engine[c].batch
              /\ commit_sync(c, build_commit(c, h, b))
  BY DEF Submit, TypeOK, EngineOK, CommitFresh

\* It is well formed and closes the run of that task.
LEMMA SubmitRun ==
    ASSUME TypeOK, CommitFresh, NEW c \in Connections, Submit(c)
    PROVE  CommitOK(engine[c].commit) /\ engine[c].commit.run = engine[c].handle.run
  <1>1. CommitOK(engine[c].commit)
    BY DEF Submit, TypeOK, EngineOK
  <1>2. engine[c].commit = build_commit(c, engine[c].handle, engine[c].batch)
    BY DEF Submit, CommitFresh
  <1>3. build_commit(c, engine[c].handle, engine[c].batch).run = engine[c].handle.run
    BY DEF build_commit
  <1> QED
    BY <1>1, <1>2, <1>3

\* complete_sync_run changes the status and the cursor of one row.
LEMMA CommitRuns ==
    ASSUME TablesOK, NEW c \in Connections, NEW k, CommitOK(k), commit_sync(c, k)
    PROVE  /\ OwnRun(k.run, c)
           /\ \A n \in Runs : n # k.run => runs'[n] = runs[n]
           /\ runs'[k.run] # None
           /\ runs'[k.run].conn = c
           /\ runs'[k.run].status = k.status
           /\ runs'[k.run].cursor_after = k.cursor_after
           /\ \A n \in Runs, d \in Connections : OwnRun(n, d)' <=> OwnRun(n, d)
           /\ \A n \in Runs : runs'[n] # None <=> runs[n] # None
           /\ cursor'[c] = k.cursor_after
           /\ \A d \in Connections \ {c} : cursor'[d] = cursor[d]
           /\ UNCHANGED <<connections, nextRun>>
  <1>0. /\ k.run \in Runs /\ k.status \in Statuses
        /\ k.cursor_after \in Cursors \cup {None}
    BY DEF CommitOK, CommitType, Statuses
  <1>1. runs[k.run] \in RunRow /\ runs[k.run] # None /\ runs[k.run].conn = c
    BY <1>0 DEF commit_sync, RunStarted, TablesOK
  <1>2. runs' = [runs EXCEPT ![k.run] = [runs[k.run] EXCEPT
                    !.status = k.status, !.cursor_after = k.cursor_after]]
    BY <1>0, <1>1 DEF commit_sync, TablesOK, RunRow
  <1>3. /\ runs'[k.run].conn = c
        /\ runs'[k.run].status = k.status
        /\ runs'[k.run].cursor_after = k.cursor_after
    BY <1>0, <1>1, <1>2 DEF TablesOK, RunRow
  <1>4. runs'[k.run] # None
    <2>1. runs'[k.run] \in RunRow
      BY <1>0, <1>1, <1>2 DEF TablesOK, RunRow
    <2> QED
      BY <2>1, DisjointAssumption
  <1>5. \A n \in Runs : n # k.run => runs'[n] = runs[n]
    BY <1>0, <1>2 DEF TablesOK
  <1>6. /\ cursor'[c] = k.cursor_after
        /\ \A d \in Connections \ {c} : cursor'[d] = cursor[d]
        /\ UNCHANGED <<connections, nextRun>>
    BY DEF commit_sync, TablesOK
  <1> QED
    BY <1>0, <1>1, <1>3, <1>4, <1>5, <1>6 DEF OwnRun

\* A task that did not move keeps its invariant when its runs, its cursor and
\* its rows are where they were.
LEMMA TaskFrame ==
    ASSUME TypeOK, NEW d \in Connections, TaskInv(d), engine'[d] = engine[d],
           \A n \in Runs : OwnRun(n, d)' <=> OwnRun(n, d),
           \A n \in Runs : OwnRun(n, d) /\ runs[n].status = "running"
                            /\ engine[d].phase # "idle" /\ n = engine[d].handle.run
                                => runs'[n].status = "running",
           cursor'[d] = cursor[d],
           \A r \in Resources : Owner[r] = d /\ resources[r] # None => resources'[r] # None
    PROVE  TaskInv(d)'
  <1> SUFFICES ASSUME engine[d].phase # "idle"
               PROVE  TaskInv(d)'
    BY DEF TaskInv
  <1>1. engine[d].handle \in Handle /\ engine[d].handle.run \in Runs
    BY DEF TypeOK, EngineOK, Handle
  <1>2. /\ OwnRun(engine[d].handle.run, d)'
        /\ runs'[engine'[d].handle.run].status = "running"
        /\ \A n \in Runs : OwnRun(n, d)' => n <= engine'[d].handle.run
        /\ cursor'[d] = engine'[d].handle.cursor_before
    BY <1>1 DEF TaskInv, OwnRun
  <1>3. ASSUME engine[d].phase = "built", NEW e \in engine[d].batch.relations
        PROVE  /\ ensure_relation_endpoint(engine[d].batch, Source[e])'
               /\ ensure_relation_endpoint(engine[d].batch, Target[e])'
    <2>1. engine[d].batch \in Batches(d)
      BY <1>3 DEF TypeOK, EngineOK
    <2>2. e \in Relations /\ Owner[Source[e]] = d /\ Owner[Target[e]] = d
      BY <1>3, <2>1, KeyAssumption DEF Batches, AnyBatch
    <2>3. Source[e] \in Resources /\ Target[e] \in Resources
      BY <2>2, KeyAssumption
    <2>4. /\ ensure_relation_endpoint(engine[d].batch, Source[e])
          /\ ensure_relation_endpoint(engine[d].batch, Target[e])
      BY <1>3 DEF TaskInv, ValidBatch
    <2> QED
      BY <2>2, <2>3, <2>4 DEF ensure_relation_endpoint
  <1>4. engine[d].phase = "built" => ValidBatch(engine[d].handle, engine[d].batch)'
    <2>1. engine[d].phase = "built" => validate_coverage(engine[d].handle, engine[d].batch)
      BY DEF TaskInv, ValidBatch
    <2>2. engine[d].phase = "built" => validate_coverage(engine[d].handle, engine[d].batch)'
      BY <2>1 DEF validate_coverage
    <2> QED
      BY <1>3, <2>2 DEF ValidBatch, ensure_relation_endpoint
  <1> QED
    BY <1>2, <1>4 DEF TaskInv

\* A task that is idle satisfies it.
LEMMA TaskIdle ==
    ASSUME NEW d \in Connections, engine'[d] = Idle
    PROVE  TaskInv(d)'
  BY DEF TaskInv, Idle

\* Every step keeps the runs and the tasks together.
LEMMA BaseStep ==
    BaseInv /\ [Next]_vars => BaseInv'
  <1> SUFFICES ASSUME BaseInv, [Next]_vars PROVE RunsInv' /\ TasksInv'
    BY TypeStep, FreshStep DEF BaseInv
  <1>0. /\ TypeOK /\ TablesOK /\ engine \in [Connections -> EngineType]
        /\ CommitFresh /\ RunsInv /\ \A d \in Connections : TaskInv(d)
        /\ TypeOK' /\ TablesOK'
    BY TypeStep DEF BaseInv, TypeOK, TasksInv
  <1>i. Idle.phase = "idle"
    BY DEF Idle
  \* The tables of the runs are not touched, and some task becomes idle or none moves.
  <1>a. ASSUME NEW c \in Connections, UNCHANGED <<tables, up>>,
               engine' = [engine EXCEPT ![c] = Idle]
        PROVE  RunsInv' /\ TasksInv'
    <2>1. RunsInv'
      BY <1>0, <1>a, <1>i DEF RunsInv, tables
    <2>2. ASSUME NEW d \in Connections PROVE TaskInv(d)'
      <3>1. CASE d = c
        BY <1>0, <1>a, <3>1, TaskIdle
      <3>2. CASE d # c
        BY <1>0, <1>a, <3>2, TaskFrame DEF tables, OwnRun
      <3> QED
        BY <3>1, <3>2
    <2> QED
      BY <2>1, <2>2 DEF TasksInv
  <1>b. ASSUME UNCHANGED <<runs, nextRun, cursor, resources, up, engine>>,
               connections \subseteq connections'
        PROVE  RunsInv' /\ TasksInv'
    <2>1. RunsInv'
      BY <1>0, <1>b DEF RunsInv
    <2>2. ASSUME NEW d \in Connections PROVE TaskInv(d)'
      BY <1>0, <1>b, TaskFrame DEF OwnRun
    <2> QED
      BY <2>1, <2>2 DEF TasksInv
  \* A commit closes the run of the task that submits it.
  <1>c. ASSUME NEW c \in Connections, NEW k, CommitOK(k), commit_sync(c, k),
               k.run = engine[c].handle.run, UNCHANGED up, up,
               engine' = [engine EXCEPT ![c] = Idle],
               \A r \in Resources : resources[r] # None => resources'[r] # None
        PROVE  RunsInv' /\ TasksInv'
    <2>0. k.run \in Runs
      BY <1>c DEF CommitOK, CommitType
    <2>1. /\ OwnRun(k.run, c)
          /\ \A n \in Runs : n # k.run => runs'[n] = runs[n]
          /\ runs'[k.run].conn = c
          /\ \A n \in Runs, d \in Connections : OwnRun(n, d)' <=> OwnRun(n, d)
          /\ \A n \in Runs : runs'[n] # None <=> runs[n] # None
          /\ \A d \in Connections \ {c} : cursor'[d] = cursor[d]
          /\ UNCHANGED <<connections, nextRun>>
      BY <1>0, <1>c, CommitRuns
    <2>2. RunsInv'
      BY <1>0, <1>c, <2>0, <2>1 DEF RunsInv, OwnRun
    <2>3. ASSUME NEW d \in Connections PROVE TaskInv(d)'
      <3>1. CASE d = c
        BY <1>0, <1>c, <3>1, TaskIdle
      <3>2. CASE d # c
        <4>1. \A n \in Runs : OwnRun(n, d) => runs'[n] = runs[n]
          BY <2>1, <3>2 DEF OwnRun
        <4> QED
          BY <1>0, <1>c, <2>1, <3>2, <4>1, TaskFrame
      <3> QED
        BY <3>1, <3>2
    <2> QED
      BY <2>2, <2>3 DEF TasksInv
  <1>1. ASSUME NEW c \in Connections, CreateConnection(c) PROVE RunsInv' /\ TasksInv'
    BY <1>1, <1>b DEF CreateConnection, upsert_connection
  <1>2. ASSUME NEW c \in Connections, NEW mode \in Modes, NEW s \in Scopes,
               Start(c, mode, s)
        PROVE  RunsInv' /\ TasksInv'
    <2>1. /\ nextRun \in Runs /\ c \in connections /\ up /\ up'
          /\ nextRun' = nextRun + 1 /\ runs[nextRun] = None
          /\ UNCHANGED <<connections, cursor, resources>>
      BY <1>0, <1>2, BoundAssumption DEF Start, start_sync_run, TablesOK, RunsInv
    <2>2. /\ runs'[nextRun] = [conn |-> c, mode |-> mode, status |-> "running",
                               cursor_before |-> cursor[c], cursor_after |-> None]
          /\ \A n \in Runs : n # nextRun => runs'[n] = runs[n]
      BY <1>0, <1>2, <2>1 DEF Start, start_sync_run, TablesOK
    <2>3. runs'[nextRun] # None
      <3>1. runs'[nextRun] \in RunRow
        BY <1>0, <2>1, <2>2 DEF RunRow, Statuses, TablesOK
      <3> QED
        BY <3>1, DisjointAssumption
    <2>4. RunsInv'
      BY <1>0, <2>1, <2>2 DEF RunsInv, TablesOK
    <2>5. ASSUME NEW d \in Connections PROVE TaskInv(d)'
      <3>1. CASE d = c
        <4>1. /\ engine'[d].phase = "running" /\ engine'[d].handle.run = nextRun
              /\ engine'[d].handle.cursor_before = cursor[c]
          BY <1>0, <1>2, <3>1 DEF Start, NewHandle, Idle
        <4>2. \A n \in Runs : runs'[n] # None => n <= nextRun
          BY <1>0, <2>1, <2>2 DEF RunsInv, TablesOK
        <4> QED
          BY <2>1, <2>2, <2>3, <3>1, <4>1, <4>2 DEF TaskInv, OwnRun
      <3>2. CASE d # c
        <4>1. engine'[d] = engine[d]
          BY <1>0, <1>2, <3>2 DEF Start
        <4>2. \A n \in Runs : /\ OwnRun(n, d)' <=> OwnRun(n, d)
                              /\ OwnRun(n, d) => runs'[n] = runs[n]
          BY <2>1, <2>2, <3>2 DEF OwnRun
        <4> QED
          BY <1>0, <2>1, <4>1, <4>2, TaskFrame
      <3> QED
        BY <3>1, <3>2
    <2> QED
      BY <2>4, <2>5 DEF TasksInv
  <1>3. ASSUME NEW c \in Connections, NEW b \in Batches(c), Build(c, b)
        PROVE  RunsInv' /\ TasksInv'
    <2>1. /\ engine'[c].phase = "built" /\ engine'[c].handle = engine[c].handle
          /\ engine'[c].batch = b
          /\ \A d \in Connections \ {c} : engine'[d] = engine[d]
          /\ up /\ up' /\ engine[c].phase = "running"
          /\ ValidBatch(engine[c].handle, b)
          /\ UNCHANGED tables
      BY <1>0, <1>3 DEF Build, EngineType
    <2>2. RunsInv'
      BY <1>0, <2>1 DEF RunsInv, tables
    <2>3. ASSUME NEW d \in Connections PROVE TaskInv(d)'
      <3>1. CASE d = c
        <4>1. /\ OwnRun(engine[d].handle.run, d)
              /\ runs[engine[d].handle.run].status = "running"
              /\ \A n \in Runs : OwnRun(n, d) => n <= engine[d].handle.run
              /\ cursor[d] = engine[d].handle.cursor_before
          BY <1>0, <2>1, <3>1 DEF TaskInv
        <4>2. UNCHANGED <<runs, cursor, resources>>
          BY <2>1 DEF tables
        <4>3. ValidBatch(engine'[c].handle, engine'[c].batch)
          BY <2>1
        <4>4. ValidBatch(engine[c].handle, engine[c].batch)'
          BY <4>2, <4>3 DEF ValidBatch, validate_coverage, ensure_relation_endpoint
        <4> QED
          BY <2>1, <3>1, <4>1, <4>2, <4>4 DEF TaskInv, OwnRun
      <3>2. CASE d # c
        BY <1>0, <2>1, <3>2, TaskFrame DEF tables, OwnRun
      <3> QED
        BY <3>1, <3>2
    <2> QED
      BY <2>2, <2>3 DEF TasksInv
  <1>4. ASSUME NEW c \in Connections, NEW b \in Batches(c), Reject(c, b)
        PROVE  RunsInv' /\ TasksInv'
    BY <1>4, <1>a DEF Reject
  <1>5. ASSUME NEW c \in Connections, Submit(c) PROVE RunsInv' /\ TasksInv'
    <2>1. CommitOK(engine[c].commit) /\ engine[c].commit.run = engine[c].handle.run
      BY <1>0, <1>5, SubmitRun
    <2>2. ASSUME NEW r \in Resources, resources[r] # None PROVE resources'[r] # None
      BY <1>5, <2>2 DEF Submit, commit_sync
    <2> QED
      BY <1>5, <1>c, <2>1, <2>2 DEF Submit
  <1>6. ASSUME NEW c \in Connections, Fail(c) PROVE RunsInv' /\ TasksInv'
    <2> DEFINE k == failed_commit(engine[c].handle)
    <2>1. CommitOK(k) /\ k.run = engine[c].handle.run
      BY <1>0, <1>6, FailedCommitOK DEF Fail, TypeOK, EngineOK, failed_commit
    <2>2. ASSUME NEW r \in Resources, resources[r] # None PROVE resources'[r] # None
      BY <1>6, <2>2 DEF Fail, commit_sync
    <2>3. commit_sync(c, k)
      BY <1>6 DEF Fail
    <2> HIDE DEF k
    <2> QED
      BY <1>6, <1>c, <2>1, <2>2, <2>3 DEF Fail
  <1>7. ASSUME NEW c \in Connections, Abandon(c) PROVE RunsInv' /\ TasksInv'
    BY <1>7, <1>a DEF Abandon
  <1>8. ASSUME NEW c \in Connections, Purge(c) PROVE RunsInv' /\ TasksInv'
    <2>1. /\ UNCHANGED <<up, engine, nextRun>> /\ up
          /\ engine[c].phase = "idle"
          /\ connections' = connections \ {c}
          /\ \A n \in Runs : runs'[n] = IF runs[n] # None /\ runs[n].conn = c
                                        THEN None ELSE runs[n]
          /\ \A d \in Connections \ {c} : cursor'[d] = cursor[d]
          /\ \A r \in Resources : Owner[r] # c => resources'[r] = resources[r]
      BY <1>0, <1>8 DEF Purge, purge_connection, TablesOK
    <2>2. RunsInv'
      BY <1>0, <2>1 DEF RunsInv
    <2>3. ASSUME NEW d \in Connections PROVE TaskInv(d)'
      <3>1. CASE d = c
        BY <2>1, <3>1 DEF TaskInv
      <3>2. CASE d # c
        <4>1. \A n \in Runs : /\ OwnRun(n, d)' <=> OwnRun(n, d)
                              /\ OwnRun(n, d) => runs'[n] = runs[n]
          BY <2>1, <3>2 DEF OwnRun
        <4> QED
          BY <1>0, <2>1, <3>2, <4>1, TaskFrame
      <3> QED
        BY <3>1, <3>2
    <2> QED
      BY <2>2, <2>3 DEF TasksInv
  <1>9. CASE Crash
    <2>1. RunsInv'
      BY <1>0, <1>9, <1>i DEF Crash, tables, RunsInv
    <2>2. ASSUME NEW d \in Connections PROVE TaskInv(d)'
      BY <1>9, TaskIdle DEF Crash
    <2> QED
      BY <2>1, <2>2 DEF TasksInv
  <1>10. CASE Recover
    <2>1. \A d \in Connections : engine[d].phase = "idle"
      BY <1>0, <1>10 DEF Recover, RunsInv
    <2>2. /\ UNCHANGED <<connections, nextRun, engine>> /\ up'
          /\ \A n \in Runs : runs[n] = None => runs'[n] = None
          /\ \A n \in Runs : runs[n] # None => runs'[n].conn = runs[n].conn
      <3>1. \A n \in Runs : runs[n] # None =>
              [runs[n] EXCEPT !.status = "interrupted"].conn = runs[n].conn
        BY <1>0 DEF TablesOK, RunRow
      <3> QED
        BY <1>10, <3>1 DEF Recover, mark_running_syncs_interrupted
    <2>3. RunsInv'
      BY <1>0, <2>2 DEF RunsInv
    <2>4. TasksInv'
      BY <2>1, <2>2 DEF TasksInv, TaskInv
    <2> QED
      BY <2>3, <2>4
  <1>11. CASE UNCHANGED vars
    BY <1>11, <1>b DEF vars, tables
  <1> QED
    BY <1>1, <1>2, <1>3, <1>4, <1>5, <1>6, <1>7, <1>8, <1>9, <1>10, <1>11
       DEF Next, ConnectionStep

LEMMA BaseInit == SyncInit => BaseInv
  <1> SUFFICES ASSUME SyncInit PROVE BaseInv
    OBVIOUS
  <1>1. TypeOK
    BY TypeInit
  <1>2. CommitFresh /\ RunsInv /\ TasksInv
    BY DEF SyncInit, StoreInit, CommitFresh, RunsInv, TasksInv, TaskInv, Idle
  <1> QED
    BY <1>1, <1>2 DEF BaseInv

\* A run that is closed is never written again, only purged: complete_sync_run
\* does not look at the status, but no task has a run that is closed.
THEOREM ClosedRunsAlways == Spec => ClosedRunsSettled
  <1>1. BaseInv /\ [Next]_vars =>
            [\A n \in Runs : runs[n] # None /\ runs[n].status # "running"
                => runs'[n] \in {runs[n], None}]_vars
    <2> SUFFICES ASSUME BaseInv, Next, NEW n \in Runs, runs[n] # None,
                        runs[n].status # "running"
                 PROVE  runs'[n] \in {runs[n], None}
      OBVIOUS
    <2>0. /\ TypeOK /\ TablesOK /\ CommitFresh
          /\ \A d \in Connections : TaskInv(d)
          /\ \A m \in Runs : m >= nextRun => runs[m] = None
      BY DEF BaseInv, TypeOK, TasksInv, RunsInv
    <2>a. ASSUME NEW c \in Connections, NEW k, CommitOK(k), commit_sync(c, k),
                 engine[c].phase # "idle", k.run = engine[c].handle.run
          PROVE  runs'[n] = runs[n]
      <3>1. n # k.run
        BY <2>0, <2>a DEF TaskInv
      <3> QED
        BY <2>0, <2>a, <3>1, CommitRuns
    <2>1. ASSUME NEW c \in Connections, Submit(c) PROVE runs'[n] = runs[n]
      <3>1. CommitOK(engine[c].commit) /\ engine[c].commit.run = engine[c].handle.run
        BY <2>0, <2>1, SubmitRun
      <3> QED
        BY <2>1, <2>a, <3>1 DEF Submit
    <2>2. ASSUME NEW c \in Connections, Fail(c) PROVE runs'[n] = runs[n]
      <3> DEFINE k == failed_commit(engine[c].handle)
      <3>1. CommitOK(k) /\ k.run = engine[c].handle.run
        BY <2>0, <2>2, FailedCommitOK DEF Fail, TypeOK, EngineOK, failed_commit
      <3>2. commit_sync(c, k)
        BY <2>2 DEF Fail
      <3> HIDE DEF k
      <3> QED
        BY <2>2, <2>a, <3>1, <3>2 DEF Fail
    <2>3. ASSUME NEW c \in Connections, NEW mode \in Modes, NEW s \in Scopes,
                 Start(c, mode, s)
          PROVE  runs'[n] = runs[n]
      <3>1. n # nextRun
        BY <2>0 DEF TablesOK
      <3> QED
        BY <2>0, <2>3, <3>1 DEF Start, start_sync_run, TablesOK
    <2>4. ASSUME NEW c \in Connections, Purge(c) PROVE runs'[n] \in {runs[n], None}
      BY <2>4 DEF Purge, purge_connection
    <2>5. ASSUME Recover PROVE runs'[n] = runs[n]
      BY <2>5 DEF Recover, mark_running_syncs_interrupted
    <2>6. ASSUME NEW c \in Connections,
                 \/ CreateConnection(c)
                 \/ \E b \in Batches(c) : Build(c, b) \/ Reject(c, b)
                 \/ Abandon(c)
          PROVE  runs'[n] = runs[n]
      BY <2>6 DEF CreateConnection, upsert_connection, Build, Reject, Abandon, tables
    <2>7. ASSUME Crash PROVE runs'[n] = runs[n]
      BY <2>7 DEF Crash, tables
    <2> QED
      BY <2>1, <2>2, <2>3, <2>4, <2>5, <2>6, <2>7 DEF Next, ConnectionStep
  <1> QED
    BY <1>1, BaseInit, BaseStep, PTL DEF Spec, ClosedRunsSettled

-----------------------------------------------------------------------------
(* The cursor.                                                             *)

CursorOf(c) ==
    \/ CommittedRuns(c) = {} /\ cursor[c] = None
    \/ \E n \in CommittedRuns(c) :
        /\ cursor[c] = runs[n].cursor_after
        /\ \A m \in CommittedRuns(c) : m <= n

\* Rows that are closed, and the cursor, stay: so does the relation between them.
LEMMA CursorFrame ==
    ASSUME NEW d \in Connections, CursorOf(d), CommittedRuns(d)' = CommittedRuns(d),
           \A n \in CommittedRuns(d) : runs'[n].cursor_after = runs[n].cursor_after,
           cursor'[d] = cursor[d]
    PROVE  CursorOf(d)'
  BY DEF CursorOf

\* Every step keeps the cursor at the newest committed run.
LEMMA CursorStep ==
    ASSUME BaseInv, CursorIsLastCommitted, [Next]_vars
    PROVE  CursorIsLastCommitted'
  <1> SUFFICES ASSUME NEW d \in Connections PROVE CursorOf(d)'
    BY DEF CursorIsLastCommitted, CursorOf
  <1>0. /\ TypeOK /\ TablesOK /\ CommitFresh /\ RunsInv
        /\ \A c \in Connections : TaskInv(c)
        /\ CursorOf(d)
    BY DEF BaseInv, TypeOK, TasksInv, CursorIsLastCommitted, CursorOf
  <1>a. ASSUME \A n \in Runs : runs[n] # None /\ runs[n].conn = d => runs'[n] = runs[n],
               \A n \in Runs : runs'[n] # None /\ runs'[n].conn = d => runs'[n] = runs[n],
               cursor'[d] = cursor[d]
        PROVE  CursorOf(d)'
    <2>1. CommittedRuns(d)' = CommittedRuns(d)
      BY <1>a DEF CommittedRuns
    <2>2. \A n \in CommittedRuns(d) : runs'[n].cursor_after = runs[n].cursor_after
      BY <1>a DEF CommittedRuns
    <2> QED
      BY <1>0, <1>a, <2>1, <2>2, CursorFrame
  <1>b. ASSUME UNCHANGED <<runs, cursor>> PROVE CursorOf(d)'
    BY <1>a, <1>b
  \* The commit of another connection.
  <1>c. ASSUME NEW c \in Connections, c # d, NEW k, CommitOK(k), commit_sync(c, k)
        PROVE  CursorOf(d)'
    <2>1. /\ runs'[k.run].conn = c /\ runs[k.run].conn = c
          /\ \A n \in Runs : n # k.run => runs'[n] = runs[n]
          /\ cursor'[d] = cursor[d]
      BY <1>0, <1>c, CommitRuns DEF OwnRun
    <2> QED
      BY <1>a, <1>c, <2>1
  \* Run n of d is closed: it was open, hence not committed, and is the newest.
  <1>d. ASSUME NEW k, CommitOK(k), commit_sync(d, k), engine[d].phase # "idle",
               k.run = engine[d].handle.run
        PROVE  /\ k.run \in Runs /\ k.run \notin CommittedRuns(d)
               /\ \A n \in Runs : n # k.run => runs'[n] = runs[n]
               /\ runs'[k.run] # None /\ runs'[k.run].conn = d
               /\ runs'[k.run].status = k.status
               /\ runs'[k.run].cursor_after = k.cursor_after
               /\ cursor'[d] = k.cursor_after
               /\ \A n \in CommittedRuns(d) : n <= k.run
    <2>1. k.run \in Runs
      BY <1>d DEF CommitOK, CommitType
    <2>2. /\ runs[k.run].status = "running"
          /\ \A n \in Runs : OwnRun(n, d) => n <= k.run
      BY <1>0, <1>d DEF TaskInv
    <2> QED
      BY <1>0, <1>d, <2>1, <2>2, CommitRuns DEF CommittedRuns, OwnRun
  <1>1. ASSUME NEW c \in Connections, Submit(c) PROVE CursorOf(d)'
    <2>1. /\ CommitOK(engine[c].commit) /\ engine[c].commit.run = engine[c].handle.run
          /\ commit_sync(c, engine[c].commit) /\ engine[c].phase = "built"
      BY <1>0, <1>1, SubmitRun DEF Submit
    <2>2. CASE c # d
      BY <1>c, <2>1, <2>2
    <2>3. CASE c = d
      <3> DEFINE n == engine[d].commit.run
      <3>1. engine[d].commit.status \in {"succeeded", "partial"}
        <4>1. engine[d].commit = build_commit(d, engine[d].handle, engine[d].batch)
          BY <1>0, <2>1, <2>3 DEF CommitFresh
        <4>2. build_commit(d, engine[d].handle, engine[d].batch).status
                \in {"succeeded", "partial"}
          BY DEF build_commit
        <4> QED
          BY <4>1, <4>2
      <3>2. /\ n \in CommittedRuns(d)' /\ runs'[n].cursor_after = cursor'[d]
            /\ \A m \in CommittedRuns(d)' : m <= n
        <4>1. /\ n \in Runs
              /\ \A m \in Runs : m # n => runs'[m] = runs[m]
              /\ runs'[n] # None /\ runs'[n].conn = d
              /\ runs'[n].status = engine[d].commit.status
              /\ runs'[n].cursor_after = cursor'[d]
              /\ \A m \in CommittedRuns(d) : m <= n
          BY <1>d, <2>1, <2>3
        <4> HIDE DEF n
        <4>2. n \in CommittedRuns(d)'
          BY <3>1, <4>1 DEF CommittedRuns
        <4>3. ASSUME NEW m \in CommittedRuns(d)' PROVE m <= n
          <5>1. CASE m = n
            BY <4>1, <5>1, BoundAssumption
          <5>2. CASE m # n
            BY <4>1, <5>2 DEF CommittedRuns
          <5> QED
            BY <5>1, <5>2
        <4> QED
          BY <4>1, <4>2, <4>3
      <3> QED
        BY <3>2 DEF CursorOf
    <2> QED
      BY <2>2, <2>3
  <1>2. ASSUME NEW c \in Connections, Fail(c) PROVE CursorOf(d)'
    <2> DEFINE k == failed_commit(engine[c].handle)
    <2>1. CommitOK(k) /\ k.run = engine[c].handle.run /\ k.status = "failed"
          /\ k.cursor_after = engine[c].handle.cursor_before
      BY <1>0, <1>2, FailedCommitOK DEF Fail, TypeOK, EngineOK, failed_commit
    <2>2. commit_sync(c, k) /\ engine[c].phase # "idle"
      BY <1>2 DEF Fail
    <2> HIDE DEF k
    <2>3. CASE c # d
      BY <1>c, <2>1, <2>2, <2>3
    <2>4. CASE c = d
      <3>1. /\ k.run \in Runs /\ k.run \notin CommittedRuns(d)
            /\ \A n \in Runs : n # k.run => runs'[n] = runs[n]
            /\ runs'[k.run].status = k.status
            /\ cursor'[d] = k.cursor_after
        BY <1>d, <2>1, <2>2, <2>4
      <3>2. cursor'[d] = cursor[d]
        BY <1>0, <2>1, <2>2, <2>4, <3>1 DEF TaskInv
      <3>3. CommittedRuns(d)' = CommittedRuns(d)
        BY <2>1, <3>1 DEF CommittedRuns
      <3>4. \A n \in CommittedRuns(d) : runs'[n].cursor_after = runs[n].cursor_after
        BY <3>1 DEF CommittedRuns
      <3> QED
        BY <1>0, <3>2, <3>3, <3>4, CursorFrame
    <2> QED
      BY <2>3, <2>4
  <1>3. ASSUME NEW c \in Connections, NEW mode \in Modes, NEW s \in Scopes,
               Start(c, mode, s)
        PROVE  CursorOf(d)'
    <2>0. nextRun \in Runs /\ runs[nextRun] = None /\ cursor' = cursor
      BY <1>0, <1>3, BoundAssumption DEF Start, start_sync_run, TablesOK, RunsInv
    <2>1. /\ runs'[nextRun].status = "running"
          /\ \A n \in Runs : n # nextRun => runs'[n] = runs[n]
      BY <1>0, <1>3, <2>0 DEF Start, start_sync_run, TablesOK
    <2>2. CommittedRuns(d)' = CommittedRuns(d)
      BY <2>0, <2>1 DEF CommittedRuns
    <2>3. \A n \in CommittedRuns(d) : runs'[n].cursor_after = runs[n].cursor_after
      BY <2>0, <2>1 DEF CommittedRuns
    <2> QED
      BY <1>0, <2>0, <2>2, <2>3, CursorFrame
  <1>4. ASSUME NEW c \in Connections, Purge(c) PROVE CursorOf(d)'
    <2>1. \A n \in Runs : runs'[n] = IF runs[n] # None /\ runs[n].conn = c
                                     THEN None ELSE runs[n]
      BY <1>4 DEF Purge, purge_connection
    <2>2. cursor'[d] = IF d = c THEN None ELSE cursor[d]
      BY <1>0, <1>4 DEF Purge, purge_connection, TablesOK
    <2>3. CASE d = c
      BY <2>1, <2>2, <2>3 DEF CommittedRuns, CursorOf
    <2>4. CASE d # c
      BY <1>a, <2>1, <2>2, <2>4
    <2> QED
      BY <2>3, <2>4
  <1>5. CASE Recover
    <2>0. cursor' = cursor
      BY <1>5 DEF Recover, mark_running_syncs_interrupted
    <2>1. \A n \in Runs : runs[n] # None => runs[n] \in RunRow
      BY <1>0 DEF TablesOK
    <2>2. \A n \in Runs :
            \/ runs'[n] = runs[n]
            \/ /\ runs[n].status = "running" /\ runs'[n].status = "interrupted"
      BY <1>5, <2>1 DEF Recover, mark_running_syncs_interrupted, RunRow
    <2>3. CommittedRuns(d)' = CommittedRuns(d)
      BY <2>2 DEF CommittedRuns
    <2>4. \A n \in CommittedRuns(d) : runs'[n].cursor_after = runs[n].cursor_after
      BY <2>2 DEF CommittedRuns
    <2> QED
      BY <1>0, <2>0, <2>3, <2>4, CursorFrame
  <1>6. ASSUME NEW c \in Connections,
               \/ CreateConnection(c)
               \/ \E b \in Batches(c) : Build(c, b) \/ Reject(c, b)
               \/ Abandon(c)
        PROVE  CursorOf(d)'
    <2>1. UNCHANGED <<runs, cursor>>
      BY <1>6 DEF CreateConnection, upsert_connection, Build, Reject, Abandon, tables
    <2> QED
      BY <1>b, <2>1
  <1>7. ASSUME Crash \/ UNCHANGED vars PROVE CursorOf(d)'
    <2>1. UNCHANGED <<runs, cursor>>
      BY <1>7 DEF Crash, vars, tables
    <2> QED
      BY <1>b, <2>1
  <1> QED
    BY <1>1, <1>2, <1>3, <1>4, <1>5, <1>6, <1>7 DEF Next, ConnectionStep

\* Whatever runs fail, are abandoned or are interrupted, on any number of
\* connections, the stored cursor is the one of the newest committed run.
THEOREM CursorAlways == Spec => []CursorIsLastCommitted
  <1> DEFINE Inv == BaseInv /\ CursorIsLastCommitted
  <1>1. SyncInit => Inv
    <2>1. SyncInit => CursorIsLastCommitted
      BY DEF SyncInit, StoreInit, CursorIsLastCommitted, CommittedRuns
    <2> QED
      BY <2>1, BaseInit
  <1>2. Inv /\ [Next]_vars => Inv'
    BY BaseStep, CursorStep
  <1> QED
    BY <1>1, <1>2, PTL DEF Spec

-----------------------------------------------------------------------------
(* The rows that a commit writes.                                          *)

\* An observed resource gets the row of project_resource.
Observed(c, h, b, r) ==
    /\ b.observations[r] # None /\ Owner[r] = c
    /\ resources'[r] # None
    /\ resources'[r].lifecycle = "active"
    /\ resources'[r].scope = b.observations[r].scope
    /\ resources'[r].fingerprint = fingerprint(b.observations[r])
    /\ resources'[r].last_seen = h.run /\ resources'[r].last_sync_run = h.run
    /\ resources'[r].last_changed =
            IF FingerprintChanged(r, b.observations[r]) \/ resources[r].lifecycle # "active"
            THEN h.run ELSE resources[r].last_changed

\* A resource that was missed for the second time is tombstoned.
Buried(c, h, b, r) ==
    /\ r \in NewTombstones(c, b)
    /\ b.observations[r] = None /\ Owner[r] = c
    /\ resources[r] # None /\ resources'[r] # None
    /\ resources'[r].lifecycle = "tombstoned"
    /\ resources'[r].scope = resources[r].scope
    /\ resources'[r].fingerprint = resources[r].fingerprint
    /\ resources'[r].last_seen = resources[r].last_seen
    /\ resources'[r].last_sync_run = h.run /\ resources'[r].last_changed = h.run

\* Every other row stays.
Untouched(c, b, r) ==
    /\ b.observations[r] = None /\ r \notin NewTombstones(c, b)
    /\ resources'[r] = resources[r]

\* There is no fourth case.
LEMMA CommitRows ==
    ASSUME TablesOK, NEW c \in Connections, NEW h \in Handle, NEW b \in Batches(c),
           commit_sync(c, build_commit(c, h, b)), NEW r \in Resources
    PROVE  Observed(c, h, b, r) \/ Buried(c, h, b, r) \/ Untouched(c, b, r)
  <1> DEFINE k == build_commit(c, h, b)
  <1>0. /\ resources'[r] = IF k.resources[r] # None THEN k.resources[r] ELSE resources[r]
        /\ h.run \in Runs
        /\ b.observations[r] # None => Owner[r] = c /\ b.observations[r] \in Observation
    BY DEF commit_sync, Handle, Batches, AnyBatch
  <1>1. CASE b.observations[r] # None
    <2>1. k.resources[r] = project_resource(r, b.observations[r], h.run)
      BY <1>1 DEF build_commit
    <2>2. project_resource(r, b.observations[r], h.run) \in ResourceRow
      BY <1>0, <1>1, ProjectType
    <2>3. resources'[r] = project_resource(r, b.observations[r], h.run)
          /\ resources'[r] # None
      BY <1>0, <2>1, <2>2, DisjointAssumption
    <2> QED
      BY <1>0, <1>1, <2>3 DEF Observed, project_resource
  <1>2. CASE b.observations[r] = None /\ r \in NewTombstones(c, b)
    <2>1. k.resources[r] = tombstone_resource(r, h.run)
      BY <1>2 DEF build_commit
    <2>2. Owner[r] = c /\ resources[r] # None
      BY <1>2 DEF NewTombstones, Tombstoned, Absent
    <2>3. tombstone_resource(r, h.run) \in ResourceRow
      BY <1>0, <2>2, TombstoneType
    <2>4. resources'[r] = tombstone_resource(r, h.run) /\ resources'[r] # None
      BY <1>0, <2>1, <2>3, DisjointAssumption
    <2>5. resources[r] \in ResourceRow
      BY <2>2 DEF TablesOK
    <2> QED
      BY <1>2, <2>2, <2>4, <2>5 DEF Buried, tombstone_resource, ResourceRow
  <1>3. CASE b.observations[r] = None /\ r \notin NewTombstones(c, b)
    <2>1. k.resources[r] = None
      BY <1>3 DEF build_commit
    <2> QED
      BY <1>0, <1>3, <2>1 DEF Untouched
  <1> QED
    BY <1>1, <1>2, <1>3

\* The resources of a batch whose fingerprint is new get a version each.
Renewed(b) == { r \in observed_resource_ids(b) : FingerprintChanged(r, b.observations[r]) }

\* The rows that a commit adds to the tables of the history.
LEMMA CommitHistory ==
    ASSUME TablesOK, NEW c \in Connections, NEW h \in Handle, NEW b \in Batches(c),
           commit_sync(c, build_commit(c, h, b))
    PROVE  /\ resource_versions' = resource_versions \cup
                { [resource |-> r, run |-> h.run,
                   fingerprint |-> fingerprint(b.observations[r])] : r \in Renewed(b) }
           /\ relations' = relations \cup b.relations
           /\ \E E \in SUBSET b.relations :
                 /\ relation_versions' = relation_versions \cup
                        { [relation |-> e, run |-> h.run] : e \in E }
                 /\ changes' = changes \cup
                        { [subject |-> x, run |-> h.run] : x \in ChangedResources(c, b) \cup E }
  <1> DEFINE k == build_commit(c, h, b)
  <1>1. /\ resource_versions' = resource_versions \cup
            { [resource |-> r, run |-> k.run,
               fingerprint |-> k.resources[r].fingerprint] : r \in k.resource_versions }
        /\ relations' = relations \cup k.relations
        /\ relation_versions' = relation_versions \cup
              { [relation |-> e, run |-> k.run] : e \in k.relation_versions }
        /\ changes' = changes \cup { [subject |-> x, run |-> k.run] : x \in k.changes }
    BY DEF commit_sync
  <1>2. /\ k.run = h.run /\ k.relations = b.relations
        /\ k.resource_versions = Renewed(b)
        /\ k.relation_versions \subseteq b.relations
        /\ k.changes = ChangedResources(c, b) \cup k.relation_versions
    BY DEF build_commit, Renewed
  <1>3. \A r \in Renewed(b) : k.resources[r].fingerprint = fingerprint(b.observations[r])
    BY DEF build_commit, Renewed, observed_resource_ids, project_resource
  <1> HIDE DEF k
  <1>4. resource_versions' = resource_versions \cup
                { [resource |-> r, run |-> h.run,
                   fingerprint |-> fingerprint(b.observations[r])] : r \in Renewed(b) }
    BY <1>1, <1>2, <1>3
  <1>5. relations' = relations \cup b.relations
    BY <1>1, <1>2
  <1>6. /\ relation_versions' = relation_versions \cup
              { [relation |-> e, run |-> h.run] : e \in k.relation_versions }
        /\ changes' = changes \cup
              { [subject |-> x, run |-> h.run] :
                    x \in ChangedResources(c, b) \cup k.relation_versions }
    BY <1>1, <1>2
  <1> QED
    BY <1>2, <1>4, <1>5, <1>6

\* What a failed run writes: nothing but its own row.
LEMMA FailedHistory ==
    ASSUME TablesOK, NEW c \in Connections, NEW h, commit_sync(c, failed_commit(h))
    PROVE  UNCHANGED <<resources, resource_versions, relations, relation_versions,
                       changes, missing, scans>>
  BY DEF commit_sync, failed_commit, TablesOK

-----------------------------------------------------------------------------
(* References between the tables.                                          *)

\* Nothing but runs, connections and cursors moves, and no run disappears.
LEMMA OrphanFrame ==
    ASSUME BaseInv, BaseInv', NoOrphans,
           UNCHANGED <<resources, resource_versions, relations, relation_versions,
                       changes, missing>>,
           connections \subseteq connections',
           \A n \in Runs : runs[n] # None => runs'[n] # None /\ runs'[n].conn = runs[n].conn,
           \A c \in Connections \ connections' : cursor'[c] = cursor[c]
    PROVE  NoOrphans'
  <1>0. TablesOK /\ RunsInv'
    BY DEF BaseInv, TypeOK
  <1>1. \A n \in Runs : runs'[n] # None => runs'[n].conn \in connections'
    BY <1>0 DEF RunsInv
  <1>2. \A r \in Resources : resources[r] # None => resources[r].last_sync_run \in Runs
    BY <1>0 DEF TablesOK, ResourceRow
  <1>3. \A v \in resource_versions : v.run \in Runs
    BY <1>0 DEF TablesOK, ResourceVersion
  <1>4. \A r \in Resources : resources'[r] # None =>
            /\ Owner[r] \in connections'
            /\ runs'[resources'[r].last_sync_run] # None
            /\ runs'[resources'[r].last_sync_run].conn = Owner[r]
    BY <1>2 DEF NoOrphans
  <1>5. \A v \in resource_versions' :
            /\ resources'[v.resource] # None
            /\ runs'[v.run] # None
            /\ runs'[v.run].conn = Owner[v.resource]
    BY <1>3 DEF NoOrphans
  <1>6. /\ \A e \in relations' : resources'[Source[e]] # None /\ resources'[Target[e]] # None
        /\ \A v \in relation_versions' : v.relation \in relations'
        /\ \A x \in changes' : \/ x.subject \in Resources /\ resources'[x.subject] # None
                               \/ x.subject \in relations'
        /\ \A c \in Connections \ connections' :
              /\ cursor'[c] = None
              /\ \A s \in Scopes, r \in Resources : missing'[c][s][r] = 0
    BY DEF NoOrphans
  <1> QED
    BY <1>1, <1>4, <1>5, <1>6 DEF NoOrphans

\* A commit refers to its own run, to its own connection and to resources that
\* it has observed or that are stored.
LEMMA OrphanCommit ==
    ASSUME BaseInv, BaseInv', NoOrphans, NEW c \in Connections, Submit(c)
    PROVE  NoOrphans'
  <1>0. /\ TypeOK /\ TablesOK /\ TablesOK' /\ CommitFresh /\ TaskInv(c)
        /\ RunsInv /\ RunsInv' /\ engine[c].phase = "built"
    BY DEF BaseInv, TypeOK, TasksInv, Submit
  <1>1. PICK h \in Handle, b \in Batches(c) :
            /\ h = engine[c].handle /\ b = engine[c].batch
            /\ commit_sync(c, build_commit(c, h, b))
    BY <1>0, SubmitBuilt
  <1>2. h.run \in Runs /\ b \in AnyBatch
    BY DEF Handle, Batches
  <1>3. /\ OwnRun(h.run, c)
        /\ \A e \in b.relations : /\ ensure_relation_endpoint(b, Source[e])
                                  /\ ensure_relation_endpoint(b, Target[e])
    BY <1>0, <1>1 DEF TaskInv, ValidBatch
  <1>4. c \in connections
    BY <1>0, <1>2, <1>3 DEF RunsInv, OwnRun
  <1>5. /\ \A n \in Runs, d \in Connections : OwnRun(n, d)' <=> OwnRun(n, d)
        /\ \A d \in Connections \ {c} : cursor'[d] = cursor[d]
        /\ UNCHANGED connections
    <2> DEFINE k == build_commit(c, h, b)
    <2>1. CommitOK(k) /\ commit_sync(c, k)
      BY <1>0, <1>1, BuildCommitOK
    <2> HIDE DEF k
    <2> QED
      BY <1>0, <2>1, CommitRuns
  <1>6. \A d \in Connections \ {c} : missing'[d] = missing[d]
    BY <1>0, <1>1, CommitOwnRows DEF OwnRowsUnchanged
  <1>7. \A r \in Resources :
            Observed(c, h, b, r) \/ Buried(c, h, b, r) \/ Untouched(c, b, r)
    BY <1>0, <1>1, CommitRows
  <1>8. \A r \in Resources : /\ resources[r] # None => resources'[r] # None
                             /\ b.observations[r] # None => resources'[r] # None
    BY <1>7 DEF Observed, Buried, Untouched
  <1>9. /\ resource_versions' = resource_versions \cup
              { [resource |-> r, run |-> h.run,
                 fingerprint |-> fingerprint(b.observations[r])] : r \in Renewed(b) }
        /\ relations' = relations \cup b.relations
    BY <1>0, <1>1, CommitHistory
  <1>10. PICK E \in SUBSET b.relations :
                 /\ relation_versions' = relation_versions \cup
                        { [relation |-> e, run |-> h.run] : e \in E }
                 /\ changes' = changes \cup
                        { [subject |-> x, run |-> h.run] : x \in ChangedResources(c, b) \cup E }
    BY <1>0, <1>1, CommitHistory
  <1>11. \A n \in Runs : runs'[n] # None => runs'[n].conn \in connections'
    BY <1>0 DEF RunsInv
  <1>12. ASSUME NEW r \in Resources, resources'[r] # None
         PROVE  Owner[r] \in connections' /\ OwnRun(resources[r].last_sync_run, Owner[r])'
    <2>1. CASE Observed(c, h, b, r) \/ Buried(c, h, b, r)
      BY <1>2, <1>3, <1>4, <1>5, <2>1 DEF Observed, Buried, OwnRun
    <2>2. CASE Untouched(c, b, r)
      <3>1. resources'[r] = resources[r] /\ resources[r].last_sync_run \in Runs
        BY <1>0, <1>12, <2>2 DEF Untouched, TablesOK, ResourceRow
      <3>2. Owner[r] \in connections /\ OwnRun(resources[r].last_sync_run, Owner[r])
        BY <1>12, <3>1 DEF NoOrphans, OwnRun
      <3>3. Owner[r] \in Connections
        BY KeyAssumption
      <3>4. OwnRun(resources[r].last_sync_run, Owner[r]) =>
               runs'[resources[r].last_sync_run] # None
               /\ runs'[resources[r].last_sync_run].conn = Owner[r]
        BY <1>5, <3>1, <3>3 DEF OwnRun
      <3> QED
        BY <1>5, <3>1, <3>2, <3>4 DEF OwnRun
    <2> QED
      BY <1>7, <2>1, <2>2
  <1>13. ASSUME NEW v \in resource_versions'
         PROVE  /\ resources'[v.resource] # None
                /\ runs'[v.run] # None
                /\ runs'[v.run].conn = Owner[v.resource]
    <2>1. CASE v \in resource_versions
      <3>1. v.run \in Runs /\ v.resource \in Resources /\ Owner[v.resource] \in Connections
        BY <1>0, <2>1, KeyAssumption DEF TablesOK, ResourceVersion
      <3>2. resources[v.resource] # None /\ OwnRun(v.run, Owner[v.resource])
        BY <2>1 DEF NoOrphans, OwnRun
      <3> QED
        BY <1>5, <1>8, <3>1, <3>2 DEF OwnRun
    <2>2. CASE v \notin resource_versions
      <3>1. PICK r \in Renewed(b) : v = [resource |-> r, run |-> h.run,
                                   fingerprint |-> fingerprint(b.observations[r])]
        BY <1>9, <2>2
      <3>2. r \in Resources /\ b.observations[r] # None /\ Owner[r] = c
        BY <3>1 DEF Renewed, observed_resource_ids, Batches
      <3> QED
        BY <1>2, <1>3, <1>5, <1>8, <3>1, <3>2 DEF OwnRun
    <2> QED
      BY <2>1, <2>2
  <1>14. ASSUME NEW e \in relations'
         PROVE  resources'[Source[e]] # None /\ resources'[Target[e]] # None
    <2>0. e \in Relations /\ Source[e] \in Resources /\ Target[e] \in Resources
      BY <1>0, KeyAssumption DEF TablesOK
    <2>1. CASE e \in relations
      BY <1>8, <2>0, <2>1 DEF NoOrphans
    <2>2. CASE e \in b.relations
      BY <1>3, <1>8, <2>0, <2>2 DEF ensure_relation_endpoint
    <2> QED
      BY <1>9, <2>1, <2>2
  <1>15. ASSUME NEW v \in relation_versions' PROVE v.relation \in relations'
    BY <1>9, <1>10 DEF NoOrphans
  <1>16. ASSUME NEW x \in changes'
         PROVE  \/ x.subject \in Resources /\ resources'[x.subject] # None
                \/ x.subject \in relations'
    <2>1. CASE x \in changes
      BY <1>8, <1>9, <2>1 DEF NoOrphans
    <2>2. CASE x \notin changes
      <3>1. PICK y \in ChangedResources(c, b) \cup E : x = [subject |-> y, run |-> h.run]
        BY <1>10, <2>2
      <3>2. CASE y \in E
        BY <1>9, <3>1, <3>2
      <3>3. CASE y \in ChangedResources(c, b)
        <4>1. y \in Resources /\ (b.observations[y] # None \/ resources[y] # None)
          BY <3>3 DEF ChangedResources, observed_resource_ids, NewTombstones,
                      Tombstoned, Absent
        <4> QED
          BY <1>8, <3>1, <4>1
      <3> QED
        BY <3>1, <3>2, <3>3
    <2> QED
      BY <2>1, <2>2
  <1>17. ASSUME NEW d \in Connections \ connections'
         PROVE  /\ cursor'[d] = None
                /\ \A s \in Scopes, r \in Resources : missing'[d][s][r] = 0
    <2>1. d # c /\ d \in Connections \ connections
      BY <1>4, <1>5
    <2> QED
      BY <1>5, <1>6, <2>1 DEF NoOrphans
  <1> QED
    BY <1>11, <1>12, <1>13, <1>14, <1>15, <1>16, <1>17 DEF NoOrphans, OwnRun

\* A purge takes everything that refers to the connection with it.
LEMMA OrphanPurge ==
    ASSUME BaseInv, BaseInv', NoOrphans, NEW c \in Connections, purge_connection(c)
    PROVE  NoOrphans'
  <1>0. TablesOK /\ TablesOK' /\ RunsInv'
    BY DEF BaseInv, TypeOK
  <1>1. /\ connections' = connections \ {c}
        /\ \A n \in Runs : runs'[n] = IF runs[n] # None /\ runs[n].conn = c
                                      THEN None ELSE runs[n]
        /\ \A r \in Resources : resources'[r] = IF Owner[r] = c THEN None ELSE resources[r]
        /\ resource_versions' = { v \in resource_versions : Owner[v.resource] # c }
        /\ relations' = relations \ Touching(c)
        /\ relation_versions' = { v \in relation_versions : v.relation \notin Touching(c) }
        /\ changes' = { x \in changes : /\ x.subject \in Resources => Owner[x.subject] # c
                                        /\ x.subject \notin Touching(c) }
    BY DEF purge_connection
  <1>2. \A d \in Connections :
            /\ cursor'[d] = IF d = c THEN None ELSE cursor[d]
            /\ \A s \in Scopes, r \in Resources :
                  missing'[d][s][r] = IF d = c THEN 0 ELSE missing[d][s][r]
    BY <1>0 DEF purge_connection, TablesOK, MissingType
  <1>3. \A n \in Runs : runs'[n] # None => runs'[n].conn \in connections'
    BY <1>0 DEF RunsInv
  <1>4. ASSUME NEW r \in Resources, resources'[r] # None
        PROVE  /\ Owner[r] \in connections'
               /\ runs'[resources'[r].last_sync_run] # None
               /\ runs'[resources'[r].last_sync_run].conn = Owner[r]
    <2>1. Owner[r] # c /\ resources'[r] = resources[r]
      BY <1>1, <1>4
    <2>2. resources[r].last_sync_run \in Runs
      BY <1>0, <1>4, <2>1 DEF TablesOK, ResourceRow
    <2> QED
      BY <1>1, <1>4, <2>1, <2>2 DEF NoOrphans
  <1>5. ASSUME NEW v \in resource_versions'
        PROVE  /\ resources'[v.resource] # None
               /\ runs'[v.run] # None
               /\ runs'[v.run].conn = Owner[v.resource]
    <2>1. v \in resource_versions /\ Owner[v.resource] # c
      BY <1>1
    <2>2. v.run \in Runs /\ v.resource \in Resources
      BY <1>0, <2>1 DEF TablesOK, ResourceVersion
    <2> QED
      BY <1>1, <2>1, <2>2 DEF NoOrphans
  <1>6. ASSUME NEW e \in relations'
        PROVE  resources'[Source[e]] # None /\ resources'[Target[e]] # None
    <2>1. e \in relations /\ e \notin Touching(c) /\ e \in Relations
      BY <1>0, <1>1 DEF TablesOK
    <2>2. /\ Source[e] \in Resources /\ Target[e] \in Resources
          /\ Owner[Source[e]] # c /\ Owner[Target[e]] # c
      BY <2>1, KeyAssumption DEF Touching
    <2> QED
      BY <1>1, <2>1, <2>2 DEF NoOrphans
  <1>7. \A v \in relation_versions' : v.relation \in relations'
    BY <1>1 DEF NoOrphans
  <1>8. ASSUME NEW x \in changes'
        PROVE  \/ x.subject \in Resources /\ resources'[x.subject] # None
               \/ x.subject \in relations'
    BY <1>1 DEF NoOrphans
  <1>9. \A d \in Connections \ connections' :
            /\ cursor'[d] = None
            /\ \A s \in Scopes, r \in Resources : missing'[d][s][r] = 0
    BY <1>1, <1>2 DEF NoOrphans
  <1> QED
    BY <1>3, <1>4, <1>5, <1>6, <1>7, <1>8, <1>9 DEF NoOrphans

LEMMA OrphanStep ==
    ASSUME BaseInv, NoOrphans, [Next]_vars
    PROVE  NoOrphans'
  <1>0. /\ BaseInv' /\ TypeOK /\ TablesOK /\ CommitFresh /\ RunsInv
        /\ \A d \in Connections : TaskInv(d)
    BY BaseStep DEF BaseInv, TypeOK, TasksInv
  <1>1. ASSUME NEW c \in Connections, Submit(c) PROVE NoOrphans'
    BY <1>0, <1>1, OrphanCommit
  <1>2. ASSUME NEW c \in Connections, Fail(c) PROVE NoOrphans'
    <2>0. engine[c].handle \in Handle
      BY <1>0, <1>2 DEF Fail, TypeOK, EngineOK
    <2>1. PICK h \in Handle : h = engine[c].handle
      BY <2>0
    <2>2. commit_sync(c, failed_commit(h)) /\ CommitOK(failed_commit(h))
      BY <1>2, <2>1, FailedCommitOK DEF Fail
    <2>3. UNCHANGED <<resources, resource_versions, relations, relation_versions,
                      changes, missing>>
      BY <1>0, <2>2, FailedHistory
    <2> DEFINE k == failed_commit(h)
    <2>4. CommitOK(k) /\ commit_sync(c, k) /\ k.run = h.run /\ h.run \in Runs
      BY <2>2 DEF failed_commit, Handle
    <2> HIDE DEF k
    <2>5. /\ OwnRun(k.run, c)
          /\ \A n \in Runs : n # k.run => runs'[n] = runs[n]
          /\ runs'[k.run] # None /\ runs'[k.run].conn = c
          /\ \A d \in Connections \ {c} : cursor'[d] = cursor[d]
          /\ UNCHANGED connections
      BY <1>0, <2>4, CommitRuns
    <2>6. c \in connections
      BY <1>0, <2>4, <2>5 DEF RunsInv, OwnRun
    <2>7. \A n \in Runs : runs[n] # None => runs'[n] # None /\ runs'[n].conn = runs[n].conn
      BY <2>4, <2>5 DEF OwnRun
    <2> QED
      BY <1>0, <2>3, <2>5, <2>6, <2>7, OrphanFrame
  <1>3. ASSUME NEW c \in Connections, NEW mode \in Modes, NEW s \in Scopes,
               Start(c, mode, s)
        PROVE  NoOrphans'
    <2>0. nextRun \in Runs /\ runs[nextRun] = None
      BY <1>0, <1>3, BoundAssumption DEF Start, start_sync_run, TablesOK, RunsInv
    <2>1. /\ \A n \in Runs : n # nextRun => runs'[n] = runs[n]
          /\ UNCHANGED <<resources, resource_versions, relations, relation_versions,
                         changes, missing, connections, cursor>>
      BY <1>0, <1>3 DEF Start, start_sync_run, TablesOK
    <2> QED
      BY <1>0, <2>0, <2>1, OrphanFrame
  <1>4. ASSUME NEW c \in Connections, Purge(c) PROVE NoOrphans'
    BY <1>0, <1>4, OrphanPurge DEF Purge
  <1>5. CASE Recover
    <2>1. \A n \in Runs : runs[n] # None =>
            /\ [runs[n] EXCEPT !.status = "interrupted"] \in RunRow
            /\ [runs[n] EXCEPT !.status = "interrupted"].conn = runs[n].conn
      BY <1>0 DEF TablesOK, RunRow, Statuses
    <2>2. \A n \in Runs : runs[n] # None => runs'[n] # None /\ runs'[n].conn = runs[n].conn
      BY <1>5, <2>1, DisjointAssumption DEF Recover, mark_running_syncs_interrupted
    <2>3. UNCHANGED <<resources, resource_versions, relations, relation_versions,
                      changes, missing, connections, cursor>>
      BY <1>5 DEF Recover, mark_running_syncs_interrupted
    <2> QED
      BY <1>0, <2>2, <2>3, OrphanFrame
  <1>6. ASSUME UNCHANGED <<resources, resource_versions, relations, relation_versions,
                           changes, missing, runs, cursor>>,
               connections \subseteq connections'
        PROVE  NoOrphans'
    BY <1>0, <1>6, OrphanFrame
  <1>7. ASSUME NEW c \in Connections,
               \/ CreateConnection(c)
               \/ \E b \in Batches(c) : Build(c, b) \/ Reject(c, b)
               \/ Abandon(c)
        PROVE  NoOrphans'
    BY <1>6, <1>7 DEF CreateConnection, upsert_connection, Build, Reject, Abandon, tables
  <1>8. ASSUME Crash \/ UNCHANGED vars PROVE NoOrphans'
    BY <1>6, <1>8 DEF Crash, vars, tables
  <1> QED
    BY <1>1, <1>2, <1>3, <1>4, <1>5, <1>7, <1>8 DEF Next, ConnectionStep

\* The empty database has no references.
LEMMA OrphanInit == SyncInit => NoOrphans
  BY DEF SyncInit, StoreInit, NoOrphans

\* In every reachable state every row refers to rows that exist, also through the
\* columns without a foreign key, and nothing of a purged connection remains.
THEOREM NoOrphansAlways == Spec => []NoOrphans
  <1> DEFINE Inv == BaseInv /\ NoOrphans
  <1>1. SyncInit => Inv
    BY BaseInit, OrphanInit
  <1>2. Inv /\ [Next]_vars => Inv'
    BY BaseStep, OrphanStep
  <1> QED
    BY <1>1, <1>2, PTL DEF Spec

-----------------------------------------------------------------------------
(* Versions and changes.                                                   *)

VersionOf(r) ==
    \E v \in resource_versions :
        /\ v.resource = r
        /\ v.fingerprint = resources[r].fingerprint
        /\ \A w \in resource_versions : w.resource = r => w.run <= v.run

\* A commit that changes a fingerprint adds the newest version of it, because no
\* version of its connection has a later run; one that does not adds none.
LEMMA HistoryCommit ==
    ASSUME BaseInv, NoOrphans, HistoryMatches, ChangeRecorded, TablesOK',
           NEW c \in Connections, Submit(c)
    PROVE  HistoryMatches' /\ ChangeRecorded'
  <1>0. /\ TypeOK /\ TablesOK /\ CommitFresh /\ TaskInv(c) /\ engine[c].phase = "built"
    BY DEF BaseInv, TypeOK, TasksInv, Submit
  <1>1. PICK h \in Handle, b \in Batches(c) :
            /\ h = engine[c].handle /\ b = engine[c].batch
            /\ commit_sync(c, build_commit(c, h, b))
    BY <1>0, SubmitBuilt
  <1>2. h.run \in Runs
    BY DEF Handle
  <1>3. \A n \in Runs : OwnRun(n, c) => n <= h.run
    BY <1>0, <1>1 DEF TaskInv
  <1>4. resource_versions' = resource_versions \cup
              { [resource |-> r, run |-> h.run,
                 fingerprint |-> fingerprint(b.observations[r])] : r \in Renewed(b) }
    BY <1>0, <1>1, CommitHistory
  <1>5. PICK E \in SUBSET b.relations :
            changes' = changes \cup
                { [subject |-> x, run |-> h.run] : x \in ChangedResources(c, b) \cup E }
    BY <1>0, <1>1, CommitHistory
  <1>6. \A v \in resource_versions : v.run \in Runs /\ v.resource \in Resources
    BY <1>0 DEF TablesOK, ResourceVersion
  <1>7. ASSUME NEW r \in Resources, resources'[r] # None
        PROVE  VersionOf(r)'
    <2>0. Observed(c, h, b, r) \/ Buried(c, h, b, r) \/ Untouched(c, b, r)
      BY <1>0, <1>1, CommitRows
    <2>1. CASE r \in Renewed(b)
      <3> DEFINE v == [resource |-> r, run |-> h.run,
                       fingerprint |-> fingerprint(b.observations[r])]
      <3>1. b.observations[r] # None
        BY <2>1 DEF Renewed, observed_resource_ids
      <3>2. Observed(c, h, b, r)
        BY <2>0, <3>1 DEF Buried, Untouched
      <3>3. v \in resource_versions' /\ v.fingerprint = resources'[r].fingerprint
        BY <1>4, <2>1, <3>2 DEF Observed
      <3>4. ASSUME NEW w \in resource_versions', w.resource = r PROVE w.run <= h.run
        <4>1. CASE w \in resource_versions
          <5>1. OwnRun(w.run, c)
            BY <3>2, <3>4, <4>1 DEF NoOrphans, OwnRun, Observed
          <5> QED
            BY <1>3, <1>6, <4>1, <5>1
        <4>2. CASE w \notin resource_versions
          <5>1. w.run = h.run
            BY <1>4, <4>2
          <5> QED
            BY <1>2, <5>1, BoundAssumption
        <4> QED
          BY <4>1, <4>2
      <3> QED
        BY <3>3, <3>4 DEF VersionOf
    <2>2. CASE r \notin Renewed(b)
      <3>1. resources[r] # None /\ resources'[r].fingerprint = resources[r].fingerprint
        <4>1. CASE Observed(c, h, b, r)
          <5>1. ~ FingerprintChanged(r, b.observations[r])
            BY <2>2, <4>1 DEF Observed, Renewed, observed_resource_ids
          <5> QED
            BY <4>1, <5>1 DEF Observed, FingerprintChanged
        <4>2. CASE Buried(c, h, b, r) \/ Untouched(c, b, r)
          BY <1>7, <4>2 DEF Buried, Untouched
        <4> QED
          BY <2>0, <4>1, <4>2
      <3>2. \A w \in resource_versions' : w.resource = r => w \in resource_versions
        BY <1>4, <2>2
      <3>3. VersionOf(r) /\ resource_versions \subseteq resource_versions'
        BY <1>4, <3>1 DEF HistoryMatches, VersionOf
      <3> QED
        BY <3>1, <3>2, <3>3 DEF VersionOf
    <2> QED
      BY <2>1, <2>2
  <1>8. ASSUME NEW r \in Resources, resources'[r] # None
        PROVE  [subject |-> r, run |-> resources'[r].last_changed] \in changes'
    <2>0. Observed(c, h, b, r) \/ Buried(c, h, b, r) \/ Untouched(c, b, r)
      BY <1>0, <1>1, CommitRows
    <2>1. CASE r \in ChangedResources(c, b)
      <3>0. r \in NewTombstones(c, b) => b.observations[r] = None
        BY DEF NewTombstones, Tombstoned, Absent
      <3>1. resources'[r].last_changed = h.run
        BY <2>0, <2>1, <3>0 DEF ChangedResources, observed_resource_ids, Observed, Buried, Untouched
      <3> QED
        BY <1>5, <2>1, <3>1
    <2>2. CASE r \notin ChangedResources(c, b)
      <3>1. resources[r] # None /\ resources'[r].last_changed = resources[r].last_changed
        BY <1>8, <2>0, <2>2 DEF ChangedResources, observed_resource_ids, Observed,
                                Buried, Untouched, FingerprintChanged
      <3> QED
        BY <1>5, <3>1 DEF ChangeRecorded
    <2> QED
      BY <2>1, <2>2
  <1> QED
    BY <1>7, <1>8 DEF HistoryMatches, VersionOf, ChangeRecorded

LEMMA HistoryStep ==
    ASSUME BaseInv, NoOrphans, HistoryMatches, ChangeRecorded, [Next]_vars
    PROVE  HistoryMatches' /\ ChangeRecorded'
  <1>0. TypeOK /\ TablesOK /\ TablesOK'
    BY BaseStep DEF BaseInv, TypeOK
  <1>a. ASSUME UNCHANGED <<resources, resource_versions, changes>>
        PROVE  HistoryMatches' /\ ChangeRecorded'
    BY <1>a DEF HistoryMatches, ChangeRecorded
  <1>1. ASSUME NEW c \in Connections, Submit(c) PROVE HistoryMatches' /\ ChangeRecorded'
    BY <1>0, <1>1, HistoryCommit
  <1>2. ASSUME NEW c \in Connections, Fail(c) PROVE HistoryMatches' /\ ChangeRecorded'
    <2>1. PICK h : h = engine[c].handle
      OBVIOUS
    <2>2. commit_sync(c, failed_commit(h))
      BY <1>2, <2>1 DEF Fail
    <2> QED
      BY <1>0, <1>a, <2>2, FailedHistory
  <1>3. ASSUME NEW c \in Connections, Purge(c) PROVE HistoryMatches' /\ ChangeRecorded'
    <2>1. /\ \A r \in Resources : resources'[r] = IF Owner[r] = c THEN None ELSE resources[r]
          /\ resource_versions' = { v \in resource_versions : Owner[v.resource] # c }
          /\ changes' = { x \in changes : /\ x.subject \in Resources => Owner[x.subject] # c
                                          /\ x.subject \notin Touching(c) }
      BY <1>3 DEF Purge, purge_connection
    <2>2. ASSUME NEW r \in Resources, resources'[r] # None
          PROVE  /\ VersionOf(r)'
                 /\ [subject |-> r, run |-> resources'[r].last_changed] \in changes'
      <3>1. Owner[r] # c /\ resources'[r] = resources[r]
        BY <2>1, <2>2
      <3>2. r \notin Touching(c)
        BY DisjointAssumption DEF Touching
      <3>3. VersionOf(r)'
        <4>1. PICK v \in resource_versions :
                /\ v.resource = r
                /\ v.fingerprint = resources[r].fingerprint
                /\ \A w \in resource_versions : w.resource = r => w.run <= v.run
          BY <2>2, <3>1 DEF HistoryMatches
        <4>2. v \in resource_versions'
          BY <2>1, <3>1, <4>1
        <4> QED
          BY <2>1, <3>1, <4>1, <4>2 DEF VersionOf
      <3>4. [subject |-> r, run |-> resources[r].last_changed] \in changes
        BY <2>2, <3>1 DEF ChangeRecorded
      <3> QED
        BY <2>1, <3>1, <3>2, <3>3, <3>4
    <2> QED
      BY <2>2 DEF HistoryMatches, VersionOf, ChangeRecorded
  <1>4. ASSUME NEW c \in Connections,
               \/ CreateConnection(c)
               \/ \E mode \in Modes, s \in Scopes : Start(c, mode, s)
               \/ \E b \in Batches(c) : Build(c, b) \/ Reject(c, b)
               \/ Abandon(c)
        PROVE  HistoryMatches' /\ ChangeRecorded'
    BY <1>4, <1>a DEF CreateConnection, upsert_connection, Start, start_sync_run,
                      Build, Reject, Abandon, tables
  <1>5. ASSUME Crash \/ Recover \/ UNCHANGED vars
        PROVE  HistoryMatches' /\ ChangeRecorded'
    BY <1>5, <1>a DEF Crash, Recover, mark_running_syncs_interrupted, vars, tables
  <1> QED
    BY <1>1, <1>2, <1>3, <1>4, <1>5 DEF Next, ConnectionStep

\* The rows and their history, as one inductive invariant.
HistoryInv == BaseInv /\ NoOrphans /\ HistoryMatches /\ ChangeRecorded

LEMMA HistoryAlways == Spec => []HistoryInv
  <1>1. SyncInit => HistoryInv
    <2>1. SyncInit => HistoryMatches /\ ChangeRecorded
      BY DEF SyncInit, StoreInit, HistoryMatches, ChangeRecorded
    <2> QED
      BY <2>1, BaseInit, OrphanInit DEF HistoryInv
  <1>2. HistoryInv /\ [Next]_vars => HistoryInv'
    BY BaseStep, OrphanStep, HistoryStep DEF HistoryInv
  <1> QED
    BY <1>1, <1>2, PTL DEF Spec

\* The newest version of every stored resource carries the fingerprint of its
\* row, for any number of runs, whatever was purged or interrupted in between.
THEOREM HistoryMatchesAlways == Spec => []HistoryMatches
  <1>1. HistoryInv => HistoryMatches
    BY DEF HistoryInv
  <1> QED
    BY <1>1, HistoryAlways, PTL

\* The run that a resource row names as its last change has a change row for it.
THEOREM ChangeRecordedAlways == Spec => []ChangeRecorded
  <1>1. HistoryInv => ChangeRecorded
    BY DEF HistoryInv
  <1> QED
    BY <1>1, HistoryAlways, PTL

-----------------------------------------------------------------------------
(* Absences.                                                               *)

\* The scans of a connection are runs of it.
ScansInv ==
    \A c \in Connections, s \in Scopes :
        \A i \in 1 .. Len(scans[c][s]) : OwnRun(scans[c][s][i].run, c)

\* The scans since a resource was last seen are in its count: one of them, and
\* with two the resource is tombstoned.
CountsUp(q, m, row) ==
    /\ Len(q) >= 1 /\ q[Len(q)].run > row.last_seen => m >= 1
    /\ Len(q) >= 2 /\ q[Len(q) - 1].run > row.last_seen
            => m >= 2 /\ row.lifecycle = "tombstoned"

AbsenceInv ==
    \A r \in Resources : resources[r] # None =>
        CountsUp(scans[Owner[r]][resources[r].scope],
                 missing[Owner[r]][resources[r].scope][r], resources[r])

\* No scan is later than the last observation.
LEMMA CountsSeen ==
    ASSUME NEW q \in Seq(Scan), NEW m, NEW row \in ResourceRow,
           \A i \in 1 .. Len(q) : q[i].run <= row.last_seen
    PROVE  CountsUp(q, m, row)
  <1>1. Len(q) \in Nat
    OBVIOUS
  <1>2. row.last_seen \in Runs /\ \A i \in 1 .. Len(q) : q[i].run \in Runs
    <2>1. \A i \in 1 .. Len(q) : q[i] \in Scan
      OBVIOUS
    <2> QED
      BY <2>1 DEF ResourceRow, Scan
  <1>3. Len(q) >= 1 => Len(q) \in 1 .. Len(q)
    BY <1>1
  <1>4. Len(q) >= 2 => Len(q) - 1 \in 1 .. Len(q)
    BY <1>1
  <1>5. \A i \in 1 .. Len(q) : ~ (q[i].run > row.last_seen)
    BY <1>2, BoundAssumption
  <1> QED
    BY <1>3, <1>4, <1>5 DEF CountsUp

\* One more scan that misses the resource raises the count, and buries it when
\* there was one already.
LEMMA CountsMissed ==
    ASSUME NEW q \in Seq(Scan), NEW x \in Scan, NEW m \in 0 .. 2, NEW n \in 0 .. 2,
           NEW old \in ResourceRow, NEW new \in ResourceRow,
           CountsUp(q, m, old), new.last_seen = old.last_seen,
           m < 2 => n = m + 1, m = 2 => n = 2,
           m >= 1 => new.lifecycle = "tombstoned"
    PROVE  CountsUp(Append(q, x), n, new)
  <1>1. Len(q) \in Nat /\ Len(Append(q, x)) = Len(q) + 1
    OBVIOUS
  <1>2. n >= 1
    OBVIOUS
  <1>3. ASSUME Len(q) + 1 >= 2, Append(q, x)[Len(q)].run > old.last_seen
        PROVE  n >= 2 /\ new.lifecycle = "tombstoned"
    <2>1. Append(q, x)[Len(q)] = q[Len(q)] /\ Len(q) >= 1
      BY <1>1, <1>3
    <2>2. m >= 1
      BY <1>3, <2>1 DEF CountsUp
    <2> QED
      BY <2>2
  <1>4. (Len(q) + 1) - 1 = Len(q)
    BY <1>1
  <1> QED
    BY <1>1, <1>2, <1>3, <1>4 DEF CountsUp

\* Only the scope of an authoritative commit is scanned.
LEMMA CommitScans ==
    ASSUME TablesOK, NEW c \in Connections, NEW h \in Handle, NEW b \in Batches(c),
           commit_sync(c, build_commit(c, h, b))
    PROVE  /\ \A d \in Connections, s \in Scopes :
                ~ (d = c /\ Authoritative(b) /\ s = b.scope) =>
                    scans'[d][s] = scans[d][s] /\ missing'[d][s] = missing[d][s]
           /\ Authoritative(b) =>
                /\ b.scope \in Scopes
                /\ scans'[c][b.scope] = Append(scans[c][b.scope],
                        [run |-> h.run, observed |-> observed_resource_ids(b)])
                /\ missing'[c][b.scope] = MissingCounts(c, b.scope, b)
  <1>1. Authoritative(b) => b.scope \in Scopes
    BY DEF Batches, AnyBatch, Authoritative
  <1>2. \A d \in Connections, s \in Scopes :
            ~ (d = c /\ Authoritative(b) /\ s = b.scope) =>
                scans'[d][s] = scans[d][s] /\ missing'[d][s] = missing[d][s]
    BY <1>1, DisjointAssumption
       DEF commit_sync, build_commit, TablesOK, ScanType, MissingType
  <1>3. Authoritative(b) =>
            /\ scans'[c][b.scope] = Append(scans[c][b.scope],
                    [run |-> h.run, observed |-> observed_resource_ids(b)])
            /\ missing'[c][b.scope] = MissingCounts(c, b.scope, b)
    BY <1>1, DisjointAssumption
       DEF commit_sync, build_commit, TablesOK, ScanType, MissingType
  <1> QED
    BY <1>1, <1>2, <1>3

\* The scans after a commit are runs of their connection, none after its own.
LEMMA ScansCommit ==
    ASSUME BaseInv, ScansInv, NEW c \in Connections, NEW h \in Handle,
           NEW b \in Batches(c), h = engine[c].handle, engine[c].phase = "built",
           commit_sync(c, build_commit(c, h, b))
    PROVE  /\ ScansInv'
           /\ \A s \in Scopes : \A i \in 1 .. Len(scans'[c][s]) :
                    scans'[c][s][i].run <= h.run
  <1>0. /\ TypeOK /\ TablesOK /\ TaskInv(c) /\ h.run \in Runs
    BY DEF BaseInv, TypeOK, TasksInv, Handle
  <1>1. OwnRun(h.run, c) /\ \A n \in Runs : OwnRun(n, c) => n <= h.run
    BY <1>0 DEF TaskInv
  <1>2. \A n \in Runs, d \in Connections : OwnRun(n, d) => OwnRun(n, d)'
    <2> DEFINE k == build_commit(c, h, b)
    <2>1. CommitOK(k) /\ commit_sync(c, k)
      BY <1>0, BuildCommitOK
    <2> HIDE DEF k
    <2> QED
      BY <1>0, <2>1, CommitRuns
  <1> DEFINE x == [run |-> h.run, observed |-> observed_resource_ids(b)]
  <1>3. x \in Scan /\ x.run = h.run
    BY <1>0 DEF Scan, observed_resource_ids
  <1>4. \A d \in Connections, s \in Scopes : scans[d][s] \in Seq(Scan)
    BY <1>0 DEF TablesOK, ScanType, Scan
  <1>5. \A d \in Connections, s \in Scopes :
            \/ scans'[d][s] = scans[d][s]
            \/ d = c /\ scans'[d][s] = Append(scans[d][s], x)
    <2>1. /\ \A d \in Connections, s \in Scopes :
                 ~ (d = c /\ Authoritative(b) /\ s = b.scope) =>
                     scans'[d][s] = scans[d][s] /\ missing'[d][s] = missing[d][s]
          /\ Authoritative(b) =>
                 /\ b.scope \in Scopes
                 /\ scans'[c][b.scope] = Append(scans[c][b.scope],
                         [run |-> h.run, observed |-> observed_resource_ids(b)])
                 /\ missing'[c][b.scope] = MissingCounts(c, b.scope, b)
      BY <1>0, CommitScans
    <2>2. Authoritative(b) => scans'[c][b.scope] = Append(scans[c][b.scope], x)
      BY <2>1
    <2> HIDE DEF x
    <2> QED
      BY <2>1, <2>2
  <1> HIDE DEF x
  <1>6. ASSUME NEW d \in Connections, NEW s \in Scopes, NEW i \in 1 .. Len(scans'[d][s])
        PROVE  /\ scans'[d][s][i].run \in Runs
               /\ OwnRun(scans'[d][s][i].run, d)
    <2> DEFINE q == scans[d][s]
    <2>0. q \in Seq(Scan) /\ Len(q) \in Nat
      BY <1>4
    <2>1. \A j \in 1 .. Len(q) : q[j].run \in Runs /\ OwnRun(q[j].run, d)
      <3>1. \A j \in 1 .. Len(q) : q[j] \in Scan
        BY <2>0
      <3> QED
        BY <3>1 DEF ScansInv, Scan
    <2>2. CASE scans'[d][s] = q
      BY <1>6, <2>1, <2>2
    <2>3. CASE d = c /\ scans'[d][s] = Append(q, x)
      <3>1. CASE i \in 1 .. Len(q)
        <4>1. scans'[d][s][i] = q[i]
          BY <2>0, <2>3, <3>1
        <4> QED
          BY <2>1, <3>1, <4>1
      <3>2. CASE i \notin 1 .. Len(q)
        <4>1. i = Len(q) + 1
          BY <1>3, <2>0, <2>3, <3>2
        <4>2. scans'[d][s][i] = x
          BY <1>3, <2>0, <2>3, <4>1
        <4> QED
          BY <1>0, <1>1, <1>3, <2>3, <4>2
      <3> QED
        BY <3>1, <3>2
    <2> QED
      BY <1>5, <2>2, <2>3
  <1>7. ScansInv'
    <2> SUFFICES ASSUME NEW d \in Connections, NEW s \in Scopes,
                        NEW i \in 1 .. Len(scans'[d][s])
                 PROVE  OwnRun(scans[d][s][i].run, d)'
      BY DEF ScansInv
    <2>1. PICK n \in Runs : n = scans'[d][s][i].run
      BY <1>6
    <2>2. OwnRun(n, d)'
      BY <1>2, <1>6, <2>1
    <2> QED
      BY <2>1, <2>2 DEF OwnRun
  <1> QED
    BY <1>1, <1>6, <1>7

\* Where no run of a scan disappears, the scans stay runs of their connection.
LEMMA ScansFrame ==
    ASSUME TablesOK, ScansInv, UNCHANGED scans,
           \A n \in Runs : runs[n] # None => runs'[n] # None /\ runs'[n].conn = runs[n].conn
    PROVE  ScansInv'
  <1>1. \A c \in Connections, s \in Scopes : \A i \in 1 .. Len(scans[c][s]) :
            scans[c][s][i].run \in Runs
    <2> TAKE c \in Connections, s \in Scopes
    <2> TAKE i \in 1 .. Len(scans[c][s])
    <2>1. scans[c][s] \in Seq(Scan)
      BY DEF TablesOK, ScanType, Scan
    <2>2. scans[c][s][i] \in Scan
      BY <2>1
    <2> QED
      BY <2>2 DEF Scan
  <1> QED
    BY <1>1 DEF ScansInv, OwnRun

\* A commit counts the scans since the last observation.
LEMMA AbsenceCommit ==
    ASSUME BaseInv, TablesOK', ScansInv, AbsenceInv, NEW c \in Connections, Submit(c)
    PROVE  ScansInv' /\ AbsenceInv'
  <1>0. /\ TypeOK /\ TablesOK /\ CommitFresh /\ engine[c].phase = "built"
    BY DEF BaseInv, TypeOK, Submit
  <1>1. PICK h \in Handle, b \in Batches(c) :
            /\ h = engine[c].handle /\ b = engine[c].batch
            /\ commit_sync(c, build_commit(c, h, b))
    BY <1>0, SubmitBuilt
  <1>t. \A d \in Connections, t \in Scopes : scans[d][t] \in Seq(Scan)
    BY <1>0 DEF TablesOK, ScanType, Scan
  <1>2. /\ ScansInv'
        /\ \A s \in Scopes : \A i \in 1 .. Len(scans'[c][s]) : scans'[c][s][i].run <= h.run
    BY <1>0, <1>1, ScansCommit
  <1> DEFINE x == [run |-> h.run, observed |-> observed_resource_ids(b)]
  <1>3. x \in Scan
    BY DEF Scan, observed_resource_ids, Handle
  <1>4. /\ \A d \in Connections, s \in Scopes :
                ~ (d = c /\ Authoritative(b) /\ s = b.scope) =>
                    scans'[d][s] = scans[d][s] /\ missing'[d][s] = missing[d][s]
        /\ Authoritative(b) =>
                /\ b.scope \in Scopes
                /\ scans'[c][b.scope] = Append(scans[c][b.scope], x)
                /\ missing'[c][b.scope] = MissingCounts(c, b.scope, b)
    BY <1>0, <1>1, CommitScans
  <1> HIDE DEF x
  <1>5. ASSUME NEW r \in Resources, resources'[r] # None
        PROVE  CountsUp(scans'[Owner[r]][resources'[r].scope],
                        missing'[Owner[r]][resources'[r].scope][r], resources'[r])
    <2>0. /\ Owner[r] \in Connections
          /\ resources'[r] \in ResourceRow /\ resources'[r].scope \in Scopes
      BY <1>5, KeyAssumption DEF TablesOK, ResourceRow
    <2>1. Observed(c, h, b, r) \/ Buried(c, h, b, r) \/ Untouched(c, b, r)
      BY <1>0, <1>1, CommitRows
    <2>2. CASE Observed(c, h, b, r)
      <3> DEFINE q == scans'[c][resources'[r].scope]
      <3>1. q \in Seq(Scan)
        BY <2>0 DEF TablesOK, ScanType, Scan
      <3>2. Owner[r] = c /\ \A i \in 1 .. Len(q) : q[i].run <= resources'[r].last_seen
        BY <1>2, <2>0, <2>2 DEF Observed
      <3> HIDE DEF q
      <3>3. \A m : CountsUp(q, m, resources'[r])
        BY <2>0, <3>1, <3>2, CountsSeen
      <3> QED
        BY <3>2, <3>3 DEF q
    <2>3. CASE Buried(c, h, b, r) \/ Untouched(c, b, r)
      <3> DEFINE s == resources[r].scope
                 q == scans[Owner[r]][s]
                 m == missing[Owner[r]][s][r]
      <3>1. /\ resources[r] # None /\ resources[r] \in ResourceRow
            /\ resources'[r].scope = s /\ resources'[r].last_seen = resources[r].last_seen
            /\ b.observations[r] = None
        BY <1>0, <1>5, <2>3 DEF Buried, Untouched, TablesOK
      <3>2. s \in Scopes /\ q \in Seq(Scan) /\ m \in 0 .. 2
        <4>1. s \in Scopes
          BY <3>1 DEF ResourceRow
        <4>2. q \in Seq(Scan)
          BY <1>t, <2>0, <4>1
        <4>3. m \in 0 .. 2
          BY <1>0, <2>0, <4>1 DEF TablesOK, MissingType
        <4> QED
          BY <4>1, <4>2, <4>3
      <3>3. CountsUp(q, m, resources[r])
        BY <3>1 DEF AbsenceInv
      <3>4. CASE ~ (Owner[r] = c /\ Authoritative(b) /\ s = b.scope)
        <4>1. Untouched(c, b, r)
          BY <2>3, <3>4 DEF Buried, NewTombstones, Tombstoned, Absent
        <4>2. resources'[r] = resources[r]
          BY <4>1 DEF Untouched
        <4> QED
          BY <1>4, <2>0, <3>2, <3>3, <3>4, <4>2
      <3>5. CASE Owner[r] = c /\ Authoritative(b) /\ s = b.scope
        <4>1. r \in Absent(c, s, b)
          BY <3>1, <3>5 DEF Absent
        <4> DEFINE n == MissingCounts(c, s, b)[r]
        <4>2. n = IF m < 2 THEN m + 1 ELSE m
          BY <3>1, <3>5, <4>1 DEF MissingCounts
        <4>3. m >= 1 => resources'[r].lifecycle = "tombstoned"
          <5>1. CASE Buried(c, h, b, r)
            BY <5>1 DEF Buried
          <5>2. CASE Untouched(c, b, r)
            <6>1. r \notin Tombstoned(c, s, b) /\ resources'[r] = resources[r]
              BY <3>5, <5>2 DEF Untouched, NewTombstones
            <6>2. m >= 1 => missing[c][s][r] + 1 >= 2
              BY <3>2, <3>5
            <6> QED
              BY <4>1, <6>1, <6>2 DEF Tombstoned
          <5> QED
            BY <2>3, <5>1, <5>2
        <4>4. /\ scans'[Owner[r]][resources'[r].scope] = Append(q, x)
              /\ missing'[Owner[r]][resources'[r].scope][r] = n
          BY <1>4, <3>1, <3>5
        <4> HIDE DEF q, m, n
        <4>5. n \in 0 .. 2 /\ (m < 2 => n = m + 1) /\ (m = 2 => n = 2)
          BY <3>2, <4>2
        <4>6. CountsUp(Append(q, x), n, resources'[r])
          BY <1>3, <2>0, <3>1, <3>2, <3>3, <4>3, <4>5, CountsMissed
        <4> QED
          BY <4>4, <4>6
      <3> QED
        BY <3>4, <3>5
    <2> QED
      BY <2>1, <2>2, <2>3
  <1> QED
    BY <1>2, <1>5 DEF AbsenceInv

LEMMA AbsenceStep ==
    ASSUME BaseInv, ScansInv, AbsenceInv, [Next]_vars
    PROVE  ScansInv' /\ AbsenceInv'
  <1>0. TypeOK /\ TablesOK /\ TablesOK' /\ RunsInv
    BY BaseStep DEF BaseInv, TypeOK
  <1>a. ASSUME UNCHANGED <<resources, missing, scans>>,
               \A n \in Runs : runs[n] # None =>
                    runs'[n] # None /\ runs'[n].conn = runs[n].conn
        PROVE  ScansInv' /\ AbsenceInv'
    <2>1. AbsenceInv'
      BY <1>a DEF AbsenceInv
    <2> QED
      BY <1>0, <1>a, <2>1, ScansFrame
  <1>1. ASSUME NEW c \in Connections, Submit(c) PROVE ScansInv' /\ AbsenceInv'
    BY <1>0, <1>1, AbsenceCommit
  <1>2. ASSUME NEW c \in Connections, Fail(c) PROVE ScansInv' /\ AbsenceInv'
    <2>0. engine[c].handle \in Handle
      BY <1>0, <1>2 DEF Fail, TypeOK, EngineOK
    <2>1. PICK h \in Handle : h = engine[c].handle
      BY <2>0
    <2>2. commit_sync(c, failed_commit(h)) /\ CommitOK(failed_commit(h))
      BY <1>2, <2>1, FailedCommitOK DEF Fail
    <2>3. UNCHANGED <<resources, missing, scans>>
      BY <1>0, <2>2, FailedHistory
    <2> DEFINE k == failed_commit(h)
    <2>4. CommitOK(k) /\ commit_sync(c, k) /\ k.run \in Runs
      BY <2>2 DEF failed_commit, Handle
    <2> HIDE DEF k
    <2>5. /\ OwnRun(k.run, c)
          /\ \A n \in Runs : n # k.run => runs'[n] = runs[n]
          /\ runs'[k.run] # None /\ runs'[k.run].conn = c
      BY <1>0, <2>4, CommitRuns
    <2>6. \A n \in Runs : runs[n] # None => runs'[n] # None /\ runs'[n].conn = runs[n].conn
      BY <2>4, <2>5 DEF OwnRun
    <2> QED
      BY <1>a, <2>3, <2>6
  <1>3. ASSUME NEW c \in Connections, NEW mode \in Modes, NEW s \in Scopes,
               Start(c, mode, s)
        PROVE  ScansInv' /\ AbsenceInv'
    <2>0. nextRun \in Runs /\ runs[nextRun] = None
      BY <1>0, <1>3, BoundAssumption DEF Start, start_sync_run, TablesOK, RunsInv
    <2>1. /\ \A n \in Runs : n # nextRun => runs'[n] = runs[n]
          /\ UNCHANGED <<resources, missing, scans>>
      BY <1>0, <1>3 DEF Start, start_sync_run, TablesOK
    <2> QED
      BY <1>a, <2>0, <2>1
  <1>4. ASSUME NEW c \in Connections, Purge(c) PROVE ScansInv' /\ AbsenceInv'
    <2>1. /\ \A n \in Runs : runs'[n] = IF runs[n] # None /\ runs[n].conn = c
                                        THEN None ELSE runs[n]
          /\ \A r \in Resources : resources'[r] = IF Owner[r] = c THEN None ELSE resources[r]
      BY <1>4 DEF Purge, purge_connection
    <2>2. \A d \in Connections, s \in Scopes :
            /\ d # c => scans'[d][s] = scans[d][s] /\ missing'[d][s] = missing[d][s]
            /\ d = c => scans'[d][s] = <<>>
      BY <1>0, <1>4 DEF Purge, purge_connection, TablesOK, ScanType, MissingType
    <2>3. ScansInv'
      <3> SUFFICES ASSUME NEW d \in Connections, NEW s \in Scopes,
                          NEW i \in 1 .. Len(scans'[d][s])
                   PROVE  OwnRun(scans[d][s][i].run, d)'
        BY DEF ScansInv
      <3>1. d # c
        <4>1. ASSUME d = c PROVE FALSE
          <5>1. Len(scans'[d][s]) = 0
            BY <2>2, <4>1
          <5> QED
            BY <5>1
        <4> QED
          BY <4>1
      <3>2. scans'[d][s] = scans[d][s] /\ scans[d][s] \in Seq(Scan)
        BY <1>0, <2>2, <3>1 DEF TablesOK, ScanType, Scan
      <3>3. scans[d][s][i] \in Scan
        BY <3>2
      <3>4. scans[d][s][i].run \in Runs /\ OwnRun(scans[d][s][i].run, d)
        BY <3>2, <3>3 DEF ScansInv, Scan
      <3> QED
        BY <2>1, <3>1, <3>2, <3>4 DEF OwnRun
    <2>4. AbsenceInv'
      <3> SUFFICES ASSUME NEW r \in Resources, resources'[r] # None
                   PROVE  CountsUp(scans'[Owner[r]][resources'[r].scope],
                                   missing'[Owner[r]][resources'[r].scope][r], resources'[r])
        BY DEF AbsenceInv
      <3>1. Owner[r] # c /\ resources'[r] = resources[r] /\ Owner[r] \in Connections
        BY <2>1, KeyAssumption
      <3>2. resources[r].scope \in Scopes
        BY <1>0, <3>1 DEF TablesOK, ResourceRow
      <3> QED
        BY <2>2, <3>1, <3>2 DEF AbsenceInv
    <2> QED
      BY <2>3, <2>4
  <1>5. CASE Recover
    <2>1. \A n \in Runs : runs[n] # None =>
            /\ [runs[n] EXCEPT !.status = "interrupted"] \in RunRow
            /\ [runs[n] EXCEPT !.status = "interrupted"].conn = runs[n].conn
      BY <1>0 DEF TablesOK, RunRow, Statuses
    <2>2. \A n \in Runs : runs[n] # None => runs'[n] # None /\ runs'[n].conn = runs[n].conn
      BY <1>5, <2>1, DisjointAssumption DEF Recover, mark_running_syncs_interrupted
    <2>3. UNCHANGED <<resources, missing, scans>>
      BY <1>5 DEF Recover, mark_running_syncs_interrupted
    <2> QED
      BY <1>a, <2>2, <2>3
  <1>6. ASSUME NEW c \in Connections,
               \/ CreateConnection(c)
               \/ \E b \in Batches(c) : Build(c, b) \/ Reject(c, b)
               \/ Abandon(c)
        PROVE  ScansInv' /\ AbsenceInv'
    BY <1>6, <1>a DEF CreateConnection, upsert_connection, Build, Reject, Abandon, tables
  <1>7. ASSUME Crash \/ UNCHANGED vars PROVE ScansInv' /\ AbsenceInv'
    BY <1>7, <1>a DEF Crash, vars, tables
  <1> QED
    BY <1>1, <1>2, <1>3, <1>4, <1>5, <1>6, <1>7 DEF Next, ConnectionStep

\* No resource stays active once two authoritative commits of its scope have come
\* after its last observation, whatever partial, failed and abandoned runs, moves
\* between scopes and restarts happened around them.
THEOREM AbsenceDetectedAlways == Spec => []AbsenceDetected
  <1> DEFINE Inv == BaseInv /\ ScansInv /\ AbsenceInv
  <1>1. SyncInit => Inv
    <2>1. SyncInit => ScansInv
      <3> SUFFICES ASSUME SyncInit, NEW c \in Connections, NEW s \in Scopes,
                          NEW i \in 1 .. Len(scans[c][s])
                   PROVE  FALSE
        BY DEF ScansInv
      <3>1. Len(scans[c][s]) = 0
        BY DEF SyncInit, StoreInit
      <3> QED
        BY <3>1
    <2>2. SyncInit => AbsenceInv
      BY DEF SyncInit, StoreInit, AbsenceInv
    <2> QED
      BY <2>1, <2>2, BaseInit
  <1>2. Inv /\ [Next]_vars => Inv'
    BY BaseStep, AbsenceStep
  <1>3. Inv => AbsenceDetected
    BY DEF AbsenceInv, AbsenceDetected, CountsUp
  <1> QED
    BY <1>1, <1>2, <1>3, PTL DEF Spec

-----------------------------------------------------------------------------
(* Refinement: reading and writing in two steps is one atomic step.        *)

\* The state of the task as SyncSpec sees it: the handle it has, or None.
OpenRun == [c \in Connections |-> engine[c].handle]

\* The operators of the store are the same in both specifications.
LEMMA SameStore ==
    ASSUME NEW c, NEW h, NEW b
    PROVE  /\ Atomic!Batches(c) = Batches(c)
           /\ Atomic!ValidBatch(h, b) <=> ValidBatch(h, b)
           /\ Atomic!build_commit(c, h, b) = build_commit(c, h, b)
           /\ Atomic!failed_commit(h) = failed_commit(h)
  <1>1. Atomic!Batches(c) = Batches(c)
    BY DEF Atomic!Batches, Batches, Atomic!AnyBatch, AnyBatch, Atomic!Observation,
           Observation, Atomic!Coverages, Coverages
  <1>2. Atomic!ValidBatch(h, b) <=> ValidBatch(h, b)
    BY DEF Atomic!ValidBatch, ValidBatch, Atomic!validate_coverage, validate_coverage,
           Atomic!ensure_relation_endpoint, ensure_relation_endpoint
  <1>3. Atomic!failed_commit(h) = failed_commit(h)
    BY DEF Atomic!failed_commit, failed_commit
  <1>4. Atomic!build_commit(c, h, b) = build_commit(c, h, b)
    BY DEF Atomic!build_commit, build_commit, Atomic!NewTombstones, NewTombstones,
           Atomic!ChangedResources, ChangedResources, Atomic!MissingCounts,
           MissingCounts, Atomic!Authoritative, Authoritative,
           Atomic!project_resource, project_resource, Atomic!RelationChanged,
           RelationChanged, Atomic!FingerprintChanged, FingerprintChanged,
           Atomic!tombstone_resource, tombstone_resource,
           Atomic!observed_resource_ids, observed_resource_ids, Atomic!Tombstoned,
           Tombstoned, Atomic!Absent, Absent, Atomic!fingerprint, fingerprint,
           Atomic!relation_fingerprint, relation_fingerprint
  <1> QED
    BY <1>1, <1>2, <1>3, <1>4

LEMMA SameCommit ==
    ASSUME NEW c, NEW k, commit_sync(c, k)
    PROVE  Atomic!commit_sync(c, k)
  BY DEF Atomic!commit_sync, commit_sync, Atomic!RunStarted, RunStarted

\* What a closing step does to the open run.
LEMMA ClosedRun ==
    ASSUME TypeOK, NEW c \in Connections, engine' = [engine EXCEPT ![c] = Idle]
    PROVE  OpenRun' = [OpenRun EXCEPT ![c] = None]
  <1>1. engine \in [Connections -> EngineType]
    BY DEF TypeOK
  <1>2. Idle.handle = None
    BY DEF Idle
  <1> QED
    BY <1>1, <1>2 DEF OpenRun

\* A task has a handle exactly while it is not idle.
LEMMA OpenIsBusy ==
    ASSUME TypeOK, NEW c \in Connections
    PROVE  OpenRun[c] = engine[c].handle /\ (engine[c].phase # "idle" <=> OpenRun[c] # None)
  <1>1. OpenRun[c] = engine[c].handle
    BY DEF OpenRun
  <1>2. engine[c].phase = "idle" => engine[c].handle = None
    BY DEF TypeOK, EngineOK, Idle
  <1>3. engine[c].phase # "idle" => engine[c].handle # None
    BY DisjointAssumption DEF TypeOK, EngineOK
  <1> QED
    BY <1>1, <1>2, <1>3

\* Every step of the engine is a step of SyncSpec or changes nothing that it sees.
LEMMA AtomicStep ==
    BaseInv /\ [Next]_vars => [Atomic!Next]_(Atomic!vars)
  <1> SUFFICES ASSUME BaseInv, [Next]_vars
               PROVE  Atomic!Next \/ UNCHANGED <<tables, up, OpenRun>>
    BY DEF Atomic!vars, Atomic!tables, tables, OpenRun
  <1>0. /\ TypeOK /\ TablesOK /\ CommitFresh /\ \A d \in Connections : TaskInv(d)
        /\ engine \in [Connections -> EngineType]
    BY DEF BaseInv, TypeOK, TasksInv
  <1>1. ASSUME NEW c \in Connections, CreateConnection(c) PROVE Atomic!Next
    <2>1. Atomic!Create(c)
      BY <1>1 DEF CreateConnection, Atomic!Create, upsert_connection, Atomic!upsert_connection
    <2> QED
      BY <2>1 DEF Atomic!Next
  <1>2. ASSUME NEW c \in Connections, NEW mode \in Modes, NEW s \in Scopes,
               Start(c, mode, s)
        PROVE  Atomic!Next
    <2>1. OpenRun[c] = None
      BY <1>0, <1>2, OpenIsBusy DEF Start
    <2>2. OpenRun' = [OpenRun EXCEPT ![c] = NewHandle(c, mode, s)]
      BY <1>0, <1>2 DEF Start, OpenRun, Idle
    <2>3. Atomic!start_sync_run(c, mode) /\ up /\ UNCHANGED up
      BY <1>2 DEF Start, start_sync_run, Atomic!start_sync_run, Atomic!Runs
    <2>4. Atomic!Open(c, mode, s)
      BY <2>1, <2>2, <2>3 DEF Atomic!Open, OpenRun, NewHandle, Atomic!NewHandle
    <2> QED
      BY <2>4 DEF Atomic!Next
  <1>3. ASSUME NEW c \in Connections, NEW b \in Batches(c), Build(c, b)
        PROVE  UNCHANGED <<tables, up, OpenRun>>
    <2>1. UNCHANGED <<tables, up>>
      BY <1>3 DEF Build
    <2>2. \A d \in Connections : engine'[d].handle = engine[d].handle
      BY <1>0, <1>3 DEF Build, EngineType
    <2> QED
      BY <2>1, <2>2 DEF OpenRun
  <1>a. ASSUME NEW c \in Connections, up, engine[c].phase # "idle",
               UNCHANGED <<tables, up>>, engine' = [engine EXCEPT ![c] = Idle]
        PROVE  Atomic!Next
    <2>1. OpenRun[c] # None /\ OpenRun' = [OpenRun EXCEPT ![c] = None]
      BY <1>0, <1>a, OpenIsBusy, ClosedRun
    <2>2. Atomic!LeaveOpen(c)
      BY <1>a, <2>1 DEF Atomic!LeaveOpen, OpenRun, tables, Atomic!tables
    <2> QED
      BY <2>2 DEF Atomic!Next
  <1>4. ASSUME NEW c \in Connections, NEW b \in Batches(c), Reject(c, b)
        PROVE  Atomic!Next
    BY <1>4, <1>a DEF Reject
  <1>5. ASSUME NEW c \in Connections, Submit(c) PROVE Atomic!Next
    <2>1. PICK h \in Handle, b \in Batches(c) :
            /\ h = engine[c].handle /\ b = engine[c].batch
            /\ commit_sync(c, build_commit(c, h, b))
      BY <1>0, <1>5, SubmitBuilt
    <2>2. ValidBatch(h, b)
      BY <1>0, <1>5, <2>1 DEF Submit, TaskInv
    <2>3. OpenRun[c] = h /\ OpenRun[c] # None /\ OpenRun' = [OpenRun EXCEPT ![c] = None]
      BY <1>0, <1>5, <2>1, OpenIsBusy, ClosedRun DEF Submit
    <2>4. /\ Atomic!commit_sync(c, Atomic!build_commit(c, h, b))
          /\ Atomic!ValidBatch(h, b) /\ b \in Atomic!Batches(c)
      BY <2>1, <2>2, SameStore, SameCommit
    <2>5. Atomic!CloseWith(c, b)
      BY <1>5, <2>3, <2>4 DEF Atomic!CloseWith, Submit, OpenRun
    <2> QED
      BY <2>4, <2>5 DEF Atomic!Next
  <1>6. ASSUME NEW c \in Connections, Fail(c) PROVE Atomic!Next
    <2>1. PICK h : h = engine[c].handle
      OBVIOUS
    <2>2. commit_sync(c, failed_commit(h))
      BY <1>6, <2>1 DEF Fail
    <2>3. OpenRun[c] = h /\ OpenRun[c] # None /\ OpenRun' = [OpenRun EXCEPT ![c] = None]
      BY <1>0, <1>6, <2>1, OpenIsBusy, ClosedRun DEF Fail
    <2>4. Atomic!commit_sync(c, Atomic!failed_commit(h))
      BY <2>2, SameStore, SameCommit
    <2>5. Atomic!CloseFailed(c)
      BY <1>6, <2>3, <2>4 DEF Atomic!CloseFailed, Fail, OpenRun
    <2> QED
      BY <2>5 DEF Atomic!Next
  <1>7. ASSUME NEW c \in Connections, Abandon(c) PROVE Atomic!Next
    BY <1>7, <1>a DEF Abandon
  <1>8. ASSUME NEW c \in Connections, Purge(c) PROVE Atomic!Next
    <2>1. OpenRun[c] = None /\ UNCHANGED <<up, OpenRun>> /\ up
      BY <1>0, <1>8, OpenIsBusy DEF Purge, OpenRun
    <2>2. Atomic!purge_connection(c)
      BY <1>8 DEF Purge, purge_connection, Atomic!purge_connection, Touching,
                  Atomic!Touching, Atomic!Runs
    <2>3. Atomic!Delete(c)
      BY <2>1, <2>2 DEF Atomic!Delete, OpenRun
    <2> QED
      BY <2>3 DEF Atomic!Next
  <1>9. CASE Crash
    <2>1. OpenRun' = [c \in Connections |-> None]
      BY <1>9 DEF Crash, OpenRun, Idle
    <2>2. Atomic!Stop
      BY <1>9, <2>1 DEF Crash, Atomic!Stop, OpenRun, tables, Atomic!tables
    <2> QED
      BY <2>2 DEF Atomic!Next
  <1>10. CASE Recover
    <2>1. Atomic!Restart
      BY <1>10 DEF Recover, Atomic!Restart, mark_running_syncs_interrupted,
                   Atomic!mark_running_syncs_interrupted, Atomic!Runs
    <2> QED
      BY <2>1 DEF Atomic!Next
  <1>11. CASE UNCHANGED vars
    BY <1>11 DEF vars, OpenRun
  <1> QED
    BY <1>1, <1>2, <1>3, <1>4, <1>5, <1>6, <1>7, <1>8, <1>9, <1>10, <1>11
       DEF Next, ConnectionStep

LEMMA AtomicInit == SyncInit => Atomic!Init
  BY DEF SyncInit, StoreInit, Atomic!Init, Atomic!StoreInit, Atomic!Runs, Idle

\* The engine, which builds a commit from what it reads and writes it in a later
\* step, implements the specification in which a run is closed by one atomic
\* step, for any number of connections whose tasks interleave.
THEOREM AtomicImplemented == Spec => ImplementsAtomic
  BY BaseInit, BaseStep, AtomicInit, AtomicStep, PTL
     DEF Spec, ImplementsAtomic, Atomic!Spec

=============================================================================
