--------------------------- MODULE ScheduledSync ---------------------------
(***************************************************************************)
(* Who may synchronise a connection, and when: the Runtime state machine   *)
(* and its Scheduler (next-infra-runtime), the driver thread that ticks    *)
(* them, the sync tasks it spawns, and the commands that use the same      *)
(* flags from other threads (composition: create, manual sync, purge,      *)
(* sleep, wake, quit).                                                     *)
(*                                                                         *)
(* Two things are shared: the runtime mutex, which the driver holds for a  *)
(* whole tick and everyone else for one step, and one AtomicBool per       *)
(* connector type, running[t], which a task, a create or a purge holds     *)
(* across many steps.  The driver takes the mutex and then tries a flag;   *)
(* a purge takes a flag and then waits for the mutex.                      *)
(*                                                                         *)
(* Data abstraction.  Connection ids are naturals, ordered as the BTreeMap *)
(* of the scheduler orders them.  due[c] is what is left of next_due_at -  *)
(* now, so the clock needs no bound.  A row of the table connections is    *)
(* its presence in the set rows; what a sync writes besides is SyncEngine. *)
(***************************************************************************)
EXTENDS Integers, Sequences, FiniteSets

CONSTANTS
    Connections,  \* connection ids that can ever be used
    TypeOf,       \* the connector type of a connection
    Interval,     \* query_sync_interval_millis, in clock steps
    Commands,     \* which commands users and the system give in this instance
    Faults,       \* which faults happen in this instance
    MaxPending,   \* bound on the wake-ups between two ticks
    None

\* The connector types that have a running flag, and among them those the
\* scheduler serves, and those whose task releases the flag when it panics.
ConnectorTypes == {"github", "ssh", "dokploy", "cloudflare",
                   "supabase-managed", "aliyun", "tencent"}

has_live_sync_path(t) == t \in ConnectorTypes \ {"ssh"}

SyncRunGuarded(t) == t \in {"github", "ssh"}

ASSUME ConnectionAssumption ==
    /\ Connections \subseteq Nat
    /\ TypeOf \in [Connections -> ConnectorTypes]
    /\ None \notin Connections

\* Scheduler::register refuses the interval 0.
ASSUME IntervalAssumption == Interval \in [ConnectorTypes -> Nat \ {0}]

ASSUME EnvironmentAssumption ==
    /\ Commands \subseteq {"create", "manual", "purge", "sleep", "quit"}
    /\ Faults \subseteq {"store", "context", "panic", "restart"}
    /\ MaxPending \in Nat

VARIABLES
    state,    \* Runtime.state
    due,      \* Scheduler.entries: time left until next_due_at, or None
    pending,  \* pending_syncs: the catch-up plans of each wake-up
    driver,   \* the driver thread
    running,  \* the *_sync_running flags
    tasks,    \* the spawned sync tasks
    rows,     \* the connections table
    purged,   \* history: the connections a purge has deleted
    fresh,    \* ids not drawn yet (ids are new UUIDs)
    manual,   \* manual_github_sync, per connection
    creator,  \* create_*_connection, per connection
    purger,   \* purge_connection, per connection
    quit      \* persist_user_quit_and_stop or handle_power_off

vars == <<state, due, pending, driver, running, tasks, rows, purged, fresh,
          manual, creator, purger, quit>>

commands == <<manual, creator, purger, quit>>

Tasks == [conn : Connections, origin : {"driver", "manual", "create"},
          phase : {"spawned", "working"}]

\* The tick is over, or the thread is: nobody holds the runtime mutex.
RuntimeFree == driver.phase \in {"waiting", "woken", "gone"}

Waiting == [phase |-> "waiting", plans |-> <<>>, conn |-> None]

\* The registrations of AppState::start: every live connection, one due time.
Registered(S) ==
    [c \in Connections |->
        IF c \in S /\ has_live_sync_path(TypeOf[c]) THEN Interval[TypeOf[c]]
        ELSE None]

\* A started AppState over the connections that an earlier one left.
Init ==
    /\ rows \in SUBSET Connections
    /\ fresh = Connections \ rows
    /\ purged = {}
    /\ state = "running"
    /\ due = Registered(rows)
    /\ pending = <<>>
    /\ driver = Waiting
    /\ running = [t \in ConnectorTypes |-> FALSE]
    /\ tasks = {}
    /\ manual = [c \in Connections |-> "idle"]
    /\ creator = [c \in Connections |-> "idle"]
    /\ purger = [c \in Connections |-> "idle"]
    /\ quit = "no"

-----------------------------------------------------------------------------
(* The scheduler (runtime, Scheduler).                                     *)

\* Time passes; a due time that has come stays due until it is planned.
Clock ==
    /\ \E c \in Connections : due[c] # None /\ due[c] > 0
    /\ due' = [c \in Connections |->
                IF due[c] # None /\ due[c] > 0 THEN due[c] - 1 ELSE due[c]]
    /\ UNCHANGED <<state, pending, driver, running, tasks, rows, purged, fresh,
                   commands>>

Due == { c \in Connections : due[c] # None /\ due[c] <= 0 }

\* Scheduler::plan: the due entries, one plan each, due again an interval on.
Replanned(S) ==
    [c \in Connections |-> IF c \in S THEN Interval[TypeOf[c]] ELSE due[c]]

\* Runtime::plan_due: nothing is planned unless the runtime is running.
plan_due == IF state = "running" THEN Due ELSE {}

-----------------------------------------------------------------------------
(* The driver thread: one tick under the runtime mutex.                    *)

\* recv_timeout has seen no signal; the tick follows whatever comes now.
RecvTimeout ==
    /\ driver.phase = "waiting"
    /\ quit = "no"
    /\ driver' = [driver EXCEPT !.phase = "woken"]
    /\ UNCHANGED <<state, due, pending, running, tasks, rows, purged, fresh,
                   commands>>

\* Drain the catch-up plans, then plan what is due.
Tick ==
    /\ driver.phase = "woken"
    /\ driver' = [phase |-> "dispatching", plans |-> Append(pending, plan_due),
                  conn |-> None]
    /\ pending' = <<>>
    /\ due' = Replanned(plan_due)
    /\ UNCHANGED <<state, running, tasks, rows, purged, fresh, commands>>

\* c is the next plan: the smallest id of the first plan set that has one.
NextPlan(i, c) ==
    /\ c \in driver.plans[i]
    /\ \A d \in driver.plans[i] : c <= d
    /\ \A j \in 1 .. i - 1 : driver.plans[j] = {}

\* The resolver reads the connection; one that is gone is skipped.
Resolve ==
    /\ driver.phase = "dispatching"
    /\ \E i \in DOMAIN driver.plans, c \in Connections :
        /\ NextPlan(i, c)
        /\ LET rest == [driver.plans EXCEPT ![i] = @ \ {c}]
           IN  IF c \in rows
               THEN driver' = [phase |-> "resolved", plans |-> rest, conn |-> c]
               ELSE driver' = [driver EXCEPT !.plans = rest]
    /\ UNCHANGED <<state, due, pending, running, tasks, rows, purged, fresh,
                   commands>>

\* spawn_*_sync: the task owns the flag from here on.
spawn_sync(c, origin) ==
    tasks' = tasks \cup {[conn |-> c, origin |-> origin, phase |-> "spawned"]}

\* Mutant: the driver waits for the flag instead of skipping the plan.
EnqueueBlocking ==
    /\ driver.phase = "resolved"
    /\ ~ running[TypeOf[driver.conn]]
    /\ running' = [running EXCEPT ![TypeOf[driver.conn]] = TRUE]
    /\ spawn_sync(driver.conn, "driver")
    /\ driver' = [driver EXCEPT !.phase = "dispatching", !.conn = None]
    /\ UNCHANGED <<state, due, pending, rows, purged, fresh, commands>>

\* Mutant: the flag is read but not taken.
EnqueueWithoutSwap ==
    /\ driver.phase = "resolved"
    /\ IF running[TypeOf[driver.conn]] THEN UNCHANGED tasks
       ELSE spawn_sync(driver.conn, "driver")
    /\ driver' = [driver EXCEPT !.phase = "dispatching", !.conn = None]
    /\ UNCHANGED <<state, due, pending, running, rows, purged, fresh, commands>>

\* The enqueue callback: take the flag and spawn, or skip this interval.
Enqueue ==
    /\ driver.phase = "resolved"
    /\ LET t == TypeOf[driver.conn]
       IN  IF running[t] THEN UNCHANGED <<running, tasks>>
           ELSE /\ running' = [running EXCEPT ![t] = TRUE]
                /\ spawn_sync(driver.conn, "driver")
    /\ driver' = [driver EXCEPT !.phase = "dispatching", !.conn = None]
    /\ UNCHANGED <<state, due, pending, rows, purged, fresh, commands>>

TickEnd ==
    /\ driver.phase = "dispatching"
    /\ \A i \in DOMAIN driver.plans : driver.plans[i] = {}
    /\ driver' = Waiting
    /\ UNCHANGED <<state, due, pending, running, tasks, rows, purged, fresh,
                   commands>>

-----------------------------------------------------------------------------
(* A sync task: sync_github and its siblings, seen from the flag.          *)

\* The task writes last_attempt_at: an upsert, which inserts a missing row.
TaskBegin(k) ==
    /\ k \in tasks
    /\ k.phase = "spawned"
    /\ rows' = rows \cup {k.conn}
    /\ tasks' = (tasks \ {k}) \cup {[k EXCEPT !.phase = "working"]}
    /\ UNCHANGED <<state, due, pending, driver, running, purged, fresh, commands>>

\* Mutant: a task that fails early keeps the flag.
TaskEndLeaking(k) ==
    /\ k \in tasks
    /\ rows' = IF k.phase = "working" THEN rows \cup {k.conn} ELSE rows
    /\ tasks' = tasks \ {k}
    /\ running' = [running EXCEPT ![TypeOf[k.conn]] = k.phase = "spawned"]
    /\ UNCHANGED <<state, due, pending, driver, purged, fresh, commands>>

\* The task ends: with a health write once it has begun, without one when it
\* could not read the clock or the store refused; the flag is released.
TaskEnd(k) ==
    /\ k \in tasks
    /\ rows' = IF k.phase = "working" THEN rows \cup {k.conn} ELSE rows
    /\ tasks' = tasks \ {k}
    /\ running' = [running EXCEPT ![TypeOf[k.conn]] = FALSE]
    /\ UNCHANGED <<state, due, pending, driver, purged, fresh, commands>>

\* A panic unwinds the task; only a SyncRunGuard releases the flag then.
TaskPanic(k) ==
    /\ "panic" \in Faults
    /\ k \in tasks
    /\ k.phase = "working"
    /\ tasks' = tasks \ {k}
    /\ running' = [running EXCEPT ![TypeOf[k.conn]] = ~ SyncRunGuarded(TypeOf[k.conn])]
    /\ UNCHANGED <<state, due, pending, driver, rows, purged, fresh, commands>>

-----------------------------------------------------------------------------
(* Commands.                                                               *)

\* manual_github_sync reads the connection before it takes the flag.
ManualRead(c) ==
    /\ "manual" \in Commands
    /\ TypeOf[c] = "github"
    /\ c \in rows
    /\ manual[c] = "idle"
    /\ manual' = [manual EXCEPT ![c] = "read"]
    /\ UNCHANGED <<state, due, pending, driver, running, tasks, rows, purged,
                   fresh, creator, purger, quit>>

\* begin_github_sync and, if the flag was free, enqueue_github_sync.
ManualBegin(c) ==
    /\ manual[c] = "read"
    /\ manual' = [manual EXCEPT ![c] = "idle"]
    /\ IF running[TypeOf[c]] THEN UNCHANGED <<running, tasks>>
       ELSE /\ running' = [running EXCEPT ![TypeOf[c]] = TRUE]
            /\ spawn_sync(c, "manual")
    /\ UNCHANGED <<state, due, pending, driver, rows, purged, fresh, creator,
                   purger, quit>>

\* begin_*_sync of a create, which draws a new id.
CreateBegin(c) ==
    /\ "create" \in Commands
    /\ c \in fresh
    /\ ~ running[TypeOf[c]]
    /\ fresh' = fresh \ {c}
    /\ running' = [running EXCEPT ![TypeOf[c]] = TRUE]
    /\ creator' = [creator EXCEPT ![c] = "begun"]
    /\ UNCHANGED <<state, due, pending, driver, tasks, rows, purged, manual,
                   purger, quit>>

\* Validation has succeeded: the row is written.
CreateSave(c) ==
    /\ creator[c] = "begun"
    /\ rows' = rows \cup {c}
    /\ creator' = [creator EXCEPT ![c] = "saved"]
    /\ UNCHANGED <<state, due, pending, driver, running, tasks, purged, fresh,
                   manual, purger, quit>>

\* refresh_query_context, register_*_connection and enqueue_*_sync.
CreateFinish(c) ==
    /\ creator[c] = "saved"
    /\ RuntimeFree
    /\ due' = [due EXCEPT ![c] = Registered({c})[c]]
    /\ spawn_sync(c, "create")
    /\ creator' = [creator EXCEPT ![c] = "idle"]
    /\ UNCHANGED <<state, pending, driver, running, rows, purged, fresh, manual,
                   purger, quit>>

\* Validation or the secret is refused, before or after the row was written
\* (then it is purged again), or the query context is: the row stays.
CreateFail(c) ==
    /\ \/ creator[c] = "begun" /\ UNCHANGED rows
       \/ "context" \in Faults /\ creator[c] = "saved" /\ RuntimeFree /\ UNCHANGED rows
       \/ "store" \in Faults /\ creator[c] = "saved" /\ rows' = rows \ {c}
    /\ running' = [running EXCEPT ![TypeOf[c]] = FALSE]
    /\ creator' = [creator EXCEPT ![c] = "idle"]
    /\ purged' = purged \cup (rows \ rows')
    /\ UNCHANGED <<state, due, pending, driver, tasks, fresh, manual, purger,
                   quit>>

\* existing_connection
PurgeFind(c) ==
    /\ "purge" \in Commands
    /\ purger[c] = "idle"
    /\ c \in rows
    /\ purger' = [purger EXCEPT ![c] = "found"]
    /\ UNCHANGED <<state, due, pending, driver, running, tasks, rows, purged,
                   fresh, manual, creator, quit>>

\* acquire_sync_guard: the flag of the connector type, or sync_in_progress.
PurgeAcquire(c) ==
    /\ purger[c] = "found"
    /\ IF running[TypeOf[c]]
       THEN /\ purger' = [purger EXCEPT ![c] = "idle"]
            /\ UNCHANGED running
       ELSE /\ purger' = [purger EXCEPT ![c] = "guarded"]
            /\ running' = [running EXCEPT ![TypeOf[c]] = TRUE]
    /\ UNCHANGED <<state, due, pending, driver, tasks, rows, purged, fresh,
                   manual, creator, quit>>

\* Mutant: the guard covers the transaction only, and the scheduler entry is
\* removed later.
PurgeDeleteAndRelease(c) ==
    /\ purger[c] = "guarded"
    /\ c \in rows
    /\ rows' = rows \ {c}
    /\ purged' = purged \cup {c}
    /\ purger' = [purger EXCEPT ![c] = "deleted"]
    /\ running' = [running EXCEPT ![TypeOf[c]] = FALSE]
    /\ UNCHANGED <<state, due, pending, driver, tasks, fresh, manual, creator,
                   quit>>

\* The store transaction.
PurgeDelete(c) ==
    /\ purger[c] = "guarded"
    /\ c \in rows
    /\ rows' = rows \ {c}
    /\ purged' = purged \cup {c}
    /\ purger' = [purger EXCEPT ![c] = "deleted"]
    /\ UNCHANGED <<state, due, pending, driver, running, tasks, fresh, manual,
                   creator, quit>>

\* The transaction fails, or the row was gone already: the guard is dropped.
PurgeRefused(c) ==
    /\ purger[c] = "guarded"
    /\ c \notin rows \/ "store" \in Faults
    /\ running' = [running EXCEPT ![TypeOf[c]] = FALSE]
    /\ purger' = [purger EXCEPT ![c] = "idle"]
    /\ UNCHANGED <<state, due, pending, driver, tasks, rows, purged, fresh,
                   manual, creator, quit>>

\* Mutant: the scheduler entry stays.
PurgeUnscheduleForgotten(c) ==
    /\ purger[c] = "deleted"
    /\ RuntimeFree
    /\ purger' = [purger EXCEPT ![c] = "removed"]
    /\ UNCHANGED <<state, due, pending, driver, running, tasks, rows, purged,
                   fresh, manual, creator, quit>>

\* Scheduler::remove, which waits for the runtime mutex with the flag held.
PurgeUnschedule(c) ==
    /\ purger[c] = "deleted"
    /\ RuntimeFree
    /\ due' = [due EXCEPT ![c] = None]
    /\ purger' = [purger EXCEPT ![c] = "removed"]
    /\ UNCHANGED <<state, pending, driver, running, tasks, rows, purged, fresh,
                   manual, creator, quit>>

\* refresh_query_context, and the guard is dropped whether it works or not.
PurgeEnd(c) ==
    /\ purger[c] = "removed"
    /\ RuntimeFree
    /\ running' = [running EXCEPT ![TypeOf[c]] = FALSE]
    /\ purger' = [purger EXCEPT ![c] = "idle"]
    /\ UNCHANGED <<state, due, pending, driver, tasks, rows, purged, fresh,
                   manual, creator, quit>>

-----------------------------------------------------------------------------
(* The life of the runtime.                                                *)

handle_sleep ==
    /\ "sleep" \in Commands
    /\ RuntimeFree
    /\ state = "running"
    /\ state' = "sleeping"
    /\ UNCHANGED <<due, pending, driver, running, tasks, rows, purged, fresh,
                   commands>>

\* Runtime::wake plans one catch-up for each entry that is due.
handle_wake ==
    /\ RuntimeFree
    /\ state = "sleeping"
    /\ Len(pending) < MaxPending
    /\ state' = "running"
    /\ due' = Replanned(Due)
    /\ pending' = Append(pending, Due)
    /\ UNCHANGED <<driver, running, tasks, rows, purged, fresh, commands>>

\* persist_user_quit_and_stop or handle_power_off: signal the driver ...
QuitRequest ==
    /\ "quit" \in Commands
    /\ quit = "no"
    /\ quit' = "joining"
    /\ UNCHANGED <<state, due, pending, driver, running, tasks, rows, purged,
                   fresh, manual, creator, purger>>

\* ... which leaves its loop between two ticks ...
DriverExit ==
    /\ quit = "joining"
    /\ driver.phase = "waiting"
    /\ driver' = [driver EXCEPT !.phase = "gone"]
    /\ UNCHANGED <<state, due, pending, running, tasks, rows, purged, fresh,
                   commands>>

\* Mutant: the driver is signalled and not joined.
RuntimeStopUnjoined ==
    /\ quit = "joining"
    /\ RuntimeFree
    /\ state \in {"running", "sleeping"}
    /\ state' = "stopped"
    /\ quit' = "done"
    /\ UNCHANGED <<due, pending, driver, running, tasks, rows, purged, fresh,
                   manual, creator, purger>>

\* ... and is joined; then Runtime::stop drains and checkpoints, or fails.
RuntimeStop ==
    /\ quit = "joining"
    /\ driver.phase = "gone"
    /\ state \in {"running", "sleeping"}
    /\ \/ state' = "stopped"
       \/ "store" \in Faults /\ state' = "failed"
    /\ quit' = "done"
    /\ UNCHANGED <<due, pending, driver, running, tasks, rows, purged, fresh,
                   manual, creator, purger>>

\* The process ends, at any point, and is launched again: AppState::start.
Restart ==
    /\ "restart" \in Faults
    /\ state' = "running"
    /\ due' = Registered(rows)
    /\ pending' = <<>>
    /\ driver' = Waiting
    /\ running' = [t \in ConnectorTypes |-> FALSE]
    /\ tasks' = {}
    /\ manual' = [c \in Connections |-> "idle"]
    /\ creator' = [c \in Connections |-> "idle"]
    /\ purger' = [c \in Connections |-> "idle"]
    /\ quit' = "no"
    /\ UNCHANGED <<rows, purged, fresh>>

-----------------------------------------------------------------------------
DriverStep == RecvTimeout \/ Tick \/ Resolve \/ Enqueue \/ TickEnd \/ DriverExit

TaskStep(k) == TaskBegin(k) \/ TaskEnd(k)

CreateStep(c) == CreateSave(c) \/ CreateFinish(c) \/ CreateFail(c)

PurgeStep(c) ==
    \/ PurgeAcquire(c) \/ PurgeDelete(c) \/ PurgeRefused(c)
    \/ PurgeUnschedule(c) \/ PurgeEnd(c)

ConnectionStep(c) ==
    \/ ManualRead(c) \/ ManualBegin(c)
    \/ CreateBegin(c) \/ CreateStep(c)
    \/ PurgeFind(c) \/ PurgeStep(c)

Next ==
    \/ Clock
    \/ DriverStep
    \/ \E k \in tasks : TaskStep(k) \/ TaskPanic(k)
    \/ \E c \in Connections : ConnectionStep(c)
    \/ handle_sleep \/ handle_wake
    \/ QuitRequest \/ RuntimeStop
    \/ Restart

Spec == Init /\ [][Next]_vars

\* What the host provides: the clock advances, the driver's recv_timeout
\* returns, a spawned task is polled to its end (every connector bounds its
\* requests by a timeout), a command that has begun is carried through.  A
\* command may wait for the runtime mutex; the driver leaves it free for
\* TICK_MILLIS between two ticks, so the waiter gets it: strong fairness.
\* Nothing obliges a user to give a command or the system to wake.
Fairness ==
    /\ WF_vars(Clock)
    /\ WF_vars(DriverStep)
    /\ WF_vars(RuntimeStop)
    /\ \A c \in Connections :
        /\ WF_vars(\E k \in tasks : k.conn = c /\ TaskStep(k))
        /\ WF_vars(ManualBegin(c))
        /\ SF_vars(CreateStep(c))
        /\ SF_vars(PurgeStep(c))

FairSpec == Spec /\ Fairness

-----------------------------------------------------------------------------
(* Properties.                                                             *)

\* Type invariant; the scheduler only knows live connections, and the driver
\* has a connection in hand exactly between its resolver and its callback.
TypeOK ==
    /\ state \in {"running", "sleeping", "stopped", "failed"}
    /\ due \in [Connections -> Nat \cup {None}]
    /\ \A c \in Connections : due[c] # None => has_live_sync_path(TypeOf[c])
    /\ pending \in Seq(SUBSET Connections)
    /\ driver \in [phase : {"waiting", "woken", "dispatching", "resolved", "gone"},
                   plans : Seq(SUBSET Connections),
                   conn : Connections \cup {None}]
    /\ driver.phase = "resolved" <=> driver.conn # None
    /\ running \in [ConnectorTypes -> BOOLEAN]
    /\ tasks \subseteq Tasks
    /\ rows \subseteq Connections
    /\ purged \subseteq Connections
    /\ fresh \subseteq Connections
    /\ manual \in [Connections -> {"idle", "read"}]
    /\ creator \in [Connections -> {"idle", "begun", "saved"}]
    /\ purger \in [Connections -> {"idle", "found", "guarded", "deleted", "removed"}]
    /\ quit \in {"no", "joining", "done"}

Creating(c) == creator[c] # "idle"
Purging(c) == purger[c] \in {"guarded", "deleted", "removed"}

\* Who relies on the flag of connector type t.
Holders(t) ==
    { <<"task", k>> : k \in { k \in tasks : TypeOf[k.conn] = t } }
    \cup { <<"create", c>> : c \in { c \in Connections : TypeOf[c] = t /\ Creating(c) } }
    \cup { <<"purge", c>> : c \in { c \in Connections : TypeOf[c] = t /\ Purging(c) } }

\* The flag is a lock: whoever works on a connection of a type, be it a task,
\* a create or a purge, does so alone and with the flag set.
SingleFlight ==
    \A t \in ConnectorTypes :
        /\ \A g, h \in Holders(t) : g = h
        /\ Holders(t) # {} => running[t]

\* And no flag stays behind: one that is set has a holder that will release
\* it (SyncRunGuard, "can never permanently block future syncs").
FlagHeld == \A t \in ConnectorTypes : running[t] => Holders(t) # {}

\* A connection whose data was purged does not come back: no task that was
\* planned, resolved or spawned before writes its row again after.
NoResurrection == purged \cap rows = {}

\* The scheduler plans no connection without a row, but for the moment a
\* purge needs to get the runtime mutex.
ScheduledHasRow ==
    \A c \in Connections : due[c] # None => c \in rows \/ purger[c] = "deleted"

\* A purge or a quit that has begun comes to its end: holding the flag and
\* waiting for the mutex never meets the driver holding the mutex and waiting.
CommandsFinish ==
    /\ \A c \in Connections : Purging(c) ~> ~ Purging(c)
    /\ quit = "joining" ~> quit = "done"

TaskStarts(c) ==
    \E k \in tasks' \ tasks : k.conn = c /\ k.phase = "spawned"

\* A connection that stays scheduled in a running host is synchronised again
\* and again (tick: a skipped plan is retried at the next interval).
EveryConnectionSynced ==
    \A c \in Connections :
        <>[](due[c] # None /\ state = "running" /\ quit = "no")
            => []<><<TaskStarts(c)>>_vars

\* Once the runtime is stopped the driver starts no task any more, not even
\* one of the catch-up plans a wake has left (persist_user_quit_and_stop
\* joins the driver first; tick drains those plans in every state).
StopStartsNothing ==
    [][\A k \in tasks' \ tasks :
         k.phase = "spawned" /\ k.origin = "driver"
         => state \notin {"stopped", "failed"}]_vars

=============================================================================
