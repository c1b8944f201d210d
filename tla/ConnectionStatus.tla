-------------------------- MODULE ConnectionStatus --------------------------
(***************************************************************************)
(* What the row of a connection says of it (health, last success, last     *)
(* attempt), through its creation, its synchronisations and its purge.     *)
(*                                                                         *)
(* The row is read by whoever starts a task, copied into the task, changed *)
(* there and written back whole, several times, each time in a store       *)
(* transaction of its own.  The seven connectors have seven copies of the  *)
(* code; a record says where a copy differs from the others.               *)
(*                                                                         *)
(* Data abstraction.  One connection: rows of different connections do not *)
(* touch.  A time is the number of the attempt it belongs to, 0 is never.  *)
(* What a run writes besides its status is in SyncEngine; that tasks,      *)
(* creates and purges exclude each other is in ScheduledSync, and is the   *)
(* guard ~Flagged here.                                                    *)
(***************************************************************************)
EXTENDS Naturals

CONSTANTS
    Types,        \* connector types to look at
    Origins,      \* who starts tasks: "driver", "manual"
    Faults,       \* "store", "clock", "context", "transport", "normalize", "crash"
    MaxAttempts,  \* bound: attempts
    NoRow

ConnectorTypes == {"github", "ssh", "dokploy", "cloudflare", "supabase-managed",
                   "aliyun", "tencent"}

\* SSH connections are synchronised once, when they are created.
has_live_sync_path(t) == t # "ssh"

ASSUME StatusAssumption ==
    /\ Types \subseteq ConnectorTypes
    /\ Origins \subseteq {"driver", "manual"}
    /\ MaxAttempts \in Nat

VARIABLES
    type,     \* the connector type of the connection
    row,      \* its row in connections, or NoRow
    secret,   \* whether connection_secrets has its credential
    legacy,   \* whether there is a token file of an earlier release
    runs,     \* its rows in sync_runs: the status of the run of each attempt
    attempt,  \* attempts so far
    creator,  \* how far the create command is
    purging,  \* a purge holds the flag after its delete
    scheduled,\* whether the scheduler has an entry for it
    held,     \* a row read by the driver or a command that will start a task
    task      \* the running task, with its copy of the row

vars == <<type, row, secret, legacy, runs, attempt, creator, purging, scheduled,
          held, task>>
store == <<row, secret, runs>>
commands == <<creator, purging, scheduled>>

Attempts == 1 .. MaxAttempts

\* The health of a connection, of ErrorCode what the mappings tell apart.
Healths == {"healthy", "degraded", "auth_failed", "rate_limited", "unreachable"}
Codes == {"auth", "rate_limited", "unreachable", "host_key", "internal"}

Row == [health : Healths, last_success_at : Nat, last_attempt_at : Nat]

Statuses == {"none", "running", "succeeded", "partial", "failed", "interrupted"}

-----------------------------------------------------------------------------
(* The seven connectors.                                                   *)

\* How a failure of the provider, or an error of the host, shows.
connector_health(code) ==
    CASE code = "auth" -> "auth_failed"
      [] code = "rate_limited" -> "rate_limited"
      [] code = "unreachable" -> "unreachable"
      [] OTHER -> "degraded"

ssh_connector_health(code) ==
    IF code = "host_key" THEN "degraded" ELSE "unreachable"

Unreachable(code) == "unreachable"

\* validates: the provider is asked before the row is written;
\* credential: a secret is written after it.
create_github_connection == [validates |-> TRUE, credential |-> TRUE]
create_ssh_connection == [validates |-> FALSE, credential |-> FALSE]
create_dokploy_connection == [validates |-> FALSE, credential |-> TRUE]
create_cloudflare_connection == [validates |-> FALSE, credential |-> TRUE]
create_supabase_managed_connection == [validates |-> FALSE, credential |-> TRUE]
create_aliyun_connection == [validates |-> FALSE, credential |-> TRUE]
create_tencent_connection == [validates |-> FALSE, credential |-> TRUE]

create ==
    CASE type = "github" -> create_github_connection
      [] type = "ssh" -> create_ssh_connection
      [] type = "dokploy" -> create_dokploy_connection
      [] type = "cloudflare" -> create_cloudflare_connection
      [] type = "supabase-managed" -> create_supabase_managed_connection
      [] type = "aliyun" -> create_aliyun_connection
      [] type = "tencent" -> create_tencent_connection

\* credential: the task needs a secret; prepares: it builds a transport of
\* its own, which may fail; marks: errors of the host are written to the row;
\* health: what each error is written as.
sync_github ==
    [credential |-> TRUE, prepares |-> FALSE, marks |-> TRUE,
     health |-> [e \in Codes |-> connector_health(e)]]
sync_ssh ==
    [credential |-> FALSE, prepares |-> FALSE, marks |-> TRUE,
     health |-> [e \in Codes |-> ssh_connector_health(e)]]
sync_dokploy ==
    [credential |-> TRUE, prepares |-> TRUE, marks |-> FALSE,
     health |-> [e \in Codes |-> Unreachable(e)]]
sync_cloudflare ==
    [credential |-> TRUE, prepares |-> FALSE, marks |-> FALSE,
     health |-> [e \in Codes |-> Unreachable(e)]]
sync_supabase_managed ==
    [credential |-> TRUE, prepares |-> TRUE, marks |-> FALSE,
     health |-> [e \in Codes |-> Unreachable(e)]]
sync_aliyun ==
    [credential |-> TRUE, prepares |-> TRUE, marks |-> FALSE,
     health |-> [e \in Codes |-> Unreachable(e)]]
sync_tencent ==
    [credential |-> TRUE, prepares |-> TRUE, marks |-> FALSE,
     health |-> [e \in Codes |-> Unreachable(e)]]

sync ==
    CASE type = "github" -> sync_github
      [] type = "ssh" -> sync_ssh
      [] type = "dokploy" -> sync_dokploy
      [] type = "cloudflare" -> sync_cloudflare
      [] type = "supabase-managed" -> sync_supabase_managed
      [] type = "aliyun" -> sync_aliyun
      [] type = "tencent" -> sync_tencent

-----------------------------------------------------------------------------
NewRow == [health |-> "degraded", last_success_at |-> 0, last_attempt_at |-> 0]

NoTask == [phase |-> "idle", conn |-> NewRow]
Nobody == [origin |-> "nobody", conn |-> NewRow]

\* The flag of the connector type is taken.
Flagged == creator # "idle" \/ purging \/ task.phase # "idle"

\* No connection yet, or a GitHub connection of a release with token files.
Init ==
    /\ type \in Types
    /\ legacy \in BOOLEAN
    /\ legacy => type = "github"
    /\ row = IF legacy THEN NewRow ELSE NoRow
    /\ secret = FALSE
    /\ runs = [n \in Attempts |-> "none"]
    /\ attempt = 0
    /\ creator = "idle" /\ purging = FALSE
    /\ scheduled = legacy
    /\ held = Nobody
    /\ task = NoTask

-----------------------------------------------------------------------------
(* Creating a connection.                                                  *)

CreateBegin ==
    /\ ~Flagged
    /\ row = NoRow /\ held = Nobody /\ attempt = 0
    /\ creator' = "begun"
    /\ UNCHANGED <<type, store, legacy, attempt, purging, scheduled, held, task>>

CreateSave ==
    /\ creator = "begun"
    /\ row' = NewRow
    /\ creator' = IF create.credential THEN "saved" ELSE "keyed"
    /\ UNCHANGED <<type, secret, runs, legacy, attempt, purging, scheduled, held, task>>

CreateSecret ==
    /\ creator = "saved" /\ creator' = "keyed"
    /\ secret' = TRUE
    /\ UNCHANGED <<type, row, runs, legacy, attempt, purging, scheduled, held, task>>

\* refresh_query_context, the registration, whose errors are passed over, and
\* the first task.
CreateFinish ==
    /\ creator = "keyed" /\ creator' = "idle"
    /\ scheduled' \in {has_live_sync_path(type)}
                       \cup (IF "clock" \in Faults THEN {FALSE} ELSE {})
    /\ task' = [phase |-> "spawned", conn |-> NewRow]
    /\ UNCHANGED <<type, store, legacy, attempt, purging, held>>

\* The error returns.  The row is taken back only after its secret could not
\* be stored, and that may fail as well.
CreateFail ==
    /\ creator' = "idle"
    /\ \/ /\ creator = "begun"
          /\ create.validates \/ "store" \in Faults
          /\ UNCHANGED store
       \/ /\ creator = "saved" /\ "store" \in Faults
          /\ row' \in {row, NoRow}
          /\ UNCHANGED <<secret, runs>>
       \/ /\ creator = "keyed" /\ Faults \cap {"clock", "context"} # {}
          /\ UNCHANGED store
    /\ UNCHANGED <<type, legacy, attempt, purging, scheduled, held, task>>

-----------------------------------------------------------------------------
(* Starting a task.                                                        *)

\* The driver resolves a plan, or manual_github_sync reads its connection.
Read(origin) ==
    /\ held = Nobody
    /\ IF origin = "driver" THEN scheduled ELSE type = "github"
    /\ row # NoRow
    /\ held' = [origin |-> origin, conn |-> row]
    /\ UNCHANGED <<type, store, legacy, attempt, commands, task>>

\* The flag is tried: it is taken, or the plan is skipped.
Enqueue ==
    /\ held # Nobody /\ held' = Nobody
    /\ IF Flagged THEN UNCHANGED task
                  ELSE task' = [phase |-> "spawned", conn |-> held.conn]
    /\ UNCHANGED <<type, store, legacy, attempt, commands>>

-----------------------------------------------------------------------------
(* A task: sync_github and its siblings.                                   *)

\* Mutant: the attempt is stamped in the row and not in the copy.
BeginUnstamped ==
    /\ task.phase = "spawned" /\ attempt < MaxAttempts
    /\ attempt' = attempt + 1
    /\ row' = [task.conn EXCEPT !.last_attempt_at = attempt + 1]
    /\ task' = [task EXCEPT !.phase = "begun"]
    /\ UNCHANGED <<type, secret, runs, legacy, commands, held>>

\* The attempt is stamped and the copy is written, whatever the row says now.
Begin ==
    /\ task.phase = "spawned" /\ attempt < MaxAttempts
    /\ attempt' = attempt + 1
    /\ LET conn == [task.conn EXCEPT !.last_attempt_at = attempt + 1]
       IN  /\ row' = conn
           /\ task' = [phase |-> "begun", conn |-> conn]
    /\ UNCHANGED <<type, secret, runs, legacy, commands, held>>

\* A copy of the row with another health, to be written by Close.
Closing(health) ==
    task' = [phase |-> "closing", conn |-> [task.conn EXCEPT !.health = health]]

\* The credential is there, or a token file that is copied into the store if
\* the store lets it.
Credential ==
    /\ task.phase = "begun"
    /\ ~sync.credential \/ secret \/ legacy
    /\ task' = [task EXCEPT !.phase = "keyed"]
    /\ secret' \in IF sync.credential /\ ~secret
                     THEN {TRUE} \cup (IF "store" \in Faults THEN {FALSE} ELSE {})
                     ELSE {secret}
    /\ UNCHANGED <<type, row, runs, legacy, attempt, commands, held>>

\* There is none: of the connectors only GitHub says so in the row.
NoCredential ==
    /\ task.phase = "begun"
    /\ sync.credential /\ ~secret /\ ~legacy
    /\ IF type = "github" THEN Closing("auth_failed") ELSE task' = NoTask
    /\ UNCHANGED <<type, store, legacy, attempt, commands, held>>

\* engine.start; the number of the attempt stands for the id of the run.
Start ==
    /\ task.phase = "keyed"
    /\ runs' = [runs EXCEPT ![attempt] = "running"]
    /\ task' = [task EXCEPT !.phase = "running"]
    /\ UNCHANGED <<type, row, secret, legacy, attempt, commands, held>>

\* Mutant: the health is decided by the answer of the provider alone.
AnswerUnchecked(partial) ==
    /\ task.phase = "running"
    /\ runs' = [runs EXCEPT ![attempt] = "failed"]
    /\ task' = [phase |-> "closing",
                conn |-> [task.conn EXCEPT !.health = "healthy",
                                           !.last_success_at = attempt]]
    /\ UNCHANGED <<type, row, secret, legacy, attempt, commands, held>>

\* The copy after an answer of the provider.
Answered(partial) ==
    IF partial THEN [task.conn EXCEPT !.health = "degraded"]
    ELSE [task.conn EXCEPT !.health = "healthy", !.last_success_at = attempt]

\* The answer is normalised and committed.
Answer(partial) ==
    /\ task.phase = "running"
    /\ runs' = [runs EXCEPT ![attempt] = IF partial THEN "partial" ELSE "succeeded"]
    /\ task' = [phase |-> "closing", conn |-> Answered(partial)]
    /\ UNCHANGED <<type, row, secret, legacy, attempt, commands, held>>

\* It cannot be normalised, and engine.fail closes the run if it can; or it
\* cannot be committed.  By then last_success_at is set in the copy.
Unusable(partial) ==
    /\ task.phase = "running"
    /\ \/ /\ "normalize" \in Faults
          /\ runs' = [runs EXCEPT ![attempt] = "failed"]
       \/ "store" \in Faults /\ UNCHANGED runs
    /\ IF sync.marks
         THEN task' = [phase |-> "closing",
                       conn |-> [Answered(partial) EXCEPT
                                   !.health = sync.health["internal"]]]
         ELSE task' = NoTask
    /\ UNCHANGED <<type, row, secret, legacy, attempt, commands, held>>

\* The provider fails.
Failure(code) ==
    /\ task.phase = "running"
    /\ runs' = [runs EXCEPT ![attempt] = "failed"]
    /\ Closing(sync.health[code])
    /\ UNCHANGED <<type, row, secret, legacy, attempt, commands, held>>

\* The last write of the task.
Close ==
    /\ task.phase = "closing"
    /\ row' = task.conn
    /\ task' = NoTask
    /\ UNCHANGED <<type, secret, runs, legacy, attempt, commands, held>>

\* The error returns: the clock, the store or the transport fails.  A run that
\* was opened stays as it is.
Abort ==
    /\ \/ task.phase = "spawned" /\ Faults \cap {"clock", "store"} # {}
       \/ task.phase = "begun" /\ sync.credential /\ "store" \in Faults
       \/ task.phase = "keyed" /\ sync.prepares /\ "transport" \in Faults
       \/ task.phase = "keyed" /\ ~sync.marks /\ "store" \in Faults
       \/ task.phase = "running" /\ Faults \cap {"clock", "store"} # {}
       \/ task.phase = "closing" /\ "store" \in Faults
    /\ task' = NoTask
    /\ UNCHANGED <<type, store, legacy, attempt, commands, held>>

\* engine.start fails where that is written to the row.
StartFails ==
    /\ task.phase = "keyed" /\ sync.marks /\ "store" \in Faults
    /\ Closing(sync.health["internal"])
    /\ UNCHANGED <<type, store, legacy, attempt, commands, held>>

-----------------------------------------------------------------------------
(* Purge and crash.                                                        *)

\* Row, runs and, by the foreign key, the secret; the token file stays.
PurgeDelete ==
    /\ ~Flagged /\ row # NoRow
    /\ row' = NoRow /\ secret' = FALSE
    /\ runs' = [n \in Attempts |-> "none"]
    /\ purging' = TRUE
    /\ UNCHANGED <<type, legacy, attempt, creator, scheduled, held, task>>

\* The purge waits for the runtime mutex, which the driver has between the
\* read and the flag.
PurgeEnd ==
    /\ purging /\ held.origin # "driver"
    /\ purging' = FALSE /\ scheduled' = FALSE
    /\ UNCHANGED <<type, store, legacy, attempt, creator, held, task>>

\* The host dies; when it starts again recover_startup closes the open runs
\* and the connections of the table are scheduled.
Crash ==
    /\ "crash" \in Faults
    /\ task' = NoTask /\ held' = Nobody
    /\ creator' = "idle" /\ purging' = FALSE
    /\ scheduled' = (row # NoRow /\ has_live_sync_path(type))
    /\ runs' = [n \in Attempts |-> IF runs[n] = "running" THEN "interrupted"
                                                          ELSE runs[n]]
    /\ UNCHANGED <<type, row, secret, legacy, attempt>>

-----------------------------------------------------------------------------
TaskStep ==
    \/ Begin \/ Credential \/ NoCredential \/ Start \/ StartFails \/ Close \/ Abort
    \/ \E partial \in BOOLEAN : Answer(partial) \/ Unusable(partial)
    \/ \E code \in Codes : Failure(code)

Next ==
    \/ CreateBegin \/ CreateSave \/ CreateSecret \/ CreateFinish \/ CreateFail
    \/ \E origin \in Origins : Read(origin)
    \/ Enqueue \/ TaskStep
    \/ PurgeDelete \/ PurgeEnd \/ Crash

Spec == Init /\ [][Next]_vars

-----------------------------------------------------------------------------
(* Properties.                                                             *)

\* The types.
TypeOK ==
    /\ type \in Types
    /\ row \in Row \cup {NoRow}
    /\ secret \in BOOLEAN /\ legacy \in BOOLEAN /\ purging \in BOOLEAN
    /\ scheduled \in BOOLEAN
    /\ runs \in [Attempts -> Statuses]
    /\ attempt \in 0 .. MaxAttempts
    /\ creator \in {"idle", "begun", "saved", "keyed"}
    /\ held \in [origin : Origins \cup {"nobody"}, conn : Row]
    /\ task \in [phase : {"idle", "spawned", "begun", "keyed", "running", "closing"},
                 conn : Row]
    /\ task.phase \in {"begun", "keyed", "running", "closing"} => attempt > 0

\* A row that says healthy has a run that was committed in full at the time it
\* calls its last success, however old the copy was that a task has written
\* back, and whatever failed or was purged since it was read.
HealthyIsBacked ==
    row # NoRow /\ row.health = "healthy"
        => /\ row.last_success_at \in Attempts
           /\ runs[row.last_success_at] = "succeeded"

\* The last attempt of a row never goes back, although every task writes back
\* a copy that may be older than the row.
AttemptsAdvance ==
    [][(row # NoRow /\ row' # NoRow)
         => row'.last_attempt_at >= row.last_attempt_at]_vars

=============================================================================
