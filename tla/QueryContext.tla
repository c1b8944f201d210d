---------------------------- MODULE QueryContext ----------------------------
(***************************************************************************)
(* The context that queries are answered from: a revision, the instant at  *)
(* which freshness is evaluated and the schedules of the connections.  It  *)
(* is replaced by the driver after a tick and by every create and purge,   *)
(* each in several steps with nothing locked in between.                   *)
(*                                                                         *)
(* Data abstraction.  Connections have different connector types, so that  *)
(* no command waits for another's flag (ScheduledSync has the flags).  A   *)
(* time of the next sync is there or not; the interval of a connection     *)
(* never changes and is left out.                                          *)
(***************************************************************************)
EXTENDS Integers

CONSTANTS
    Connections,    \* identifiers; one is never used again
    Scheduled,      \* the connections whose connector has a live sync path
    Driver,         \* the driver thread, as a refresher of the context
    MaxClock        \* bound: the clock

ASSUME ContextAssumption ==
    /\ Driver \notin Connections /\ Scheduled \subseteq Connections
    /\ MaxClock \in Nat

VARIABLES
    clock,      \* now()
    rows,       \* the connections in the store
    born,       \* identifiers that are used up
    entries,    \* the connections the scheduler has
    context,    \* QueryContextSnapshot
    op,         \* the command of each connection, and the driver's turn
    settled     \* history: what the last command on a connection has come to

contextVars == <<clock, rows, born, entries, context, op, settled>>

Refreshers == Connections \cup {Driver}

-----------------------------------------------------------------------------
(* The context and its refreshers.                                         *)

Idle == [do |-> "none", pc |-> "idle", at |-> 0, revision |-> 0, due |-> {}, conns |-> {}]

\* AppState::open: the connections that are stored are registered, and the
\* context is refreshed once.
ContextInit ==
    /\ clock = 0
    /\ rows \in SUBSET Connections /\ born = rows
    /\ entries = rows \cap Scheduled
    /\ context = [revision |-> 1, at |-> 0, conns |-> rows, due |-> entries]
    /\ op = [a \in Refreshers |-> Idle]
    /\ settled = [c \in Connections |-> IF c \in rows THEN "created" ELSE "none"]

Clock ==
    /\ clock < MaxClock
    /\ clock' = clock + 1
    /\ UNCHANGED <<rows, born, entries, context, op, settled>>

At(a, pc) == op[a].pc = pc
Goto(a, pc) == op' = [op EXCEPT ![a].pc = pc]

\* Mutant: the connections are read before the revision.
StepAfterRowsFirst(a, pc) ==
    CASE pc = "begin" -> "rows"
      [] pc = "rows" -> "revision"
      [] pc = "revision" -> IF a = Driver THEN "install" ELSE "entries"
      [] OTHER -> "install"

\* The order of the reads: refresh_query_context reads the revision first, then
\* the scheduler, then the connections; the driver has the entries already.
StepAfter(a, pc) ==
    CASE pc = "begin" -> "revision"
      [] pc = "revision" -> IF a = Driver THEN "rows" ELSE "entries"
      [] pc = "entries" -> "rows"
      [] OTHER -> "install"

\* The revision that the new context will have.
ReadRevision(a) ==
    /\ At(a, "revision")
    /\ op' = [op EXCEPT ![a].revision = context.revision + 1,
                        ![a].pc = StepAfter(a, "revision")]
    /\ UNCHANGED <<clock, rows, born, entries, context, settled>>

\* next_due of the entries, with the runtime locked.
ReadEntries(a) ==
    /\ At(a, "entries")
    /\ op' = [op EXCEPT ![a].due = entries, ![a].pc = StepAfter(a, "entries")]
    /\ UNCHANGED <<clock, rows, born, entries, context, settled>>

\* committed_query_context reads the connections.
ReadRows(a) ==
    /\ At(a, "rows")
    /\ op' = [op EXCEPT ![a].conns = rows, ![a].pc = StepAfter(a, "rows")]
    /\ UNCHANGED <<clock, rows, born, entries, context, settled>>

\* Mutant: the driver tries again what was refused, with the revision it has.
refresh_again(a) ==
    LET newer == op[a].revision > context.revision
    IN  /\ At(a, "install")
        /\ context' = IF newer
                        THEN [revision |-> op[a].revision, at |-> op[a].at,
                              conns |-> op[a].conns, due |-> op[a].due \cap op[a].conns]
                        ELSE context
        /\ IF newer /\ op[a].do = "create"
             THEN Goto(a, "register")
             ELSE op' = IF newer \/ a # Driver THEN [op EXCEPT ![a] = Idle] ELSE op
        /\ settled' = IF a \in Connections /\ newer
                        THEN [settled EXCEPT ![a] = IF op[a].do = "create" THEN "created" ELSE "purged"]
                        ELSE settled
        /\ UNCHANGED <<clock, rows, born, entries>>

\* QueryContextRefreshHandle::refresh: only a newer revision is taken.  A create
\* that is refused returns its error and leaves the row; a purge that is refused
\* returns an error after the purge; the driver drops it.
refresh(a) ==
    LET newer == op[a].revision > context.revision
    IN  /\ At(a, "install")
        /\ context' = IF newer
                        THEN [revision |-> op[a].revision, at |-> op[a].at,
                              conns |-> op[a].conns, due |-> op[a].due \cap op[a].conns]
                        ELSE context
        /\ IF newer /\ op[a].do = "create"
             THEN Goto(a, "register")
             ELSE op' = [op EXCEPT ![a] = Idle]
        /\ settled' = IF a \in Connections /\ newer
                        THEN [settled EXCEPT ![a] = IF op[a].do = "create" THEN "created" ELSE "purged"]
                        ELSE settled
        /\ UNCHANGED <<clock, rows, born, entries>>

\* The driver's turn: the entries as the tick has left them.  While the
\* scheduler has none, the context is not refreshed.  There is a turn every
\* second; one that would change the revision alone is left out, which bounds
\* the revisions.
DriverTurn ==
    /\ op[Driver].do = "none" /\ entries # {}
    /\ <<clock, entries \cap rows>> # <<context.at, context.due>>
    /\ op' = [op EXCEPT ![Driver] =
                [Idle EXCEPT !.do = "tick", !.pc = StepAfter(Driver, "begin"),
                             !.at = clock, !.due = entries]]
    /\ UNCHANGED <<clock, rows, born, entries, context, settled>>

\* A create has saved the row and the secret, and refreshes the context.
CreateSave(c) ==
    /\ c \notin born
    /\ born' = born \cup {c} /\ rows' = rows \cup {c}
    /\ op' = [op EXCEPT ![c] = [Idle EXCEPT !.do = "create", !.pc = StepAfter(c, "begin"),
                                            !.at = clock]]
    /\ UNCHANGED <<clock, entries, context, settled>>

\* After the refresh it registers the connection, if it can be scheduled.
CreateRegister(c) ==
    /\ At(c, "register")
    /\ entries' = IF c \in Scheduled THEN entries \cup {c} ELSE entries
    /\ op' = [op EXCEPT ![c] = Idle]
    /\ UNCHANGED <<clock, rows, born, context, settled>>

\* A purge has deleted the connection and all that is its own from the store.
PurgeDelete(c) ==
    /\ c \in rows /\ op[c] = Idle
    /\ rows' = rows \ {c}
    /\ op' = [op EXCEPT ![c] = [Idle EXCEPT !.do = "purge", !.pc = "unschedule"]]
    /\ settled' = [settled EXCEPT ![c] = "none"]
    /\ UNCHANGED <<clock, born, entries, context>>

\* Its second step; the third is the refresh.
PurgeUnschedule(c) ==
    /\ At(c, "unschedule")
    /\ entries' = entries \ {c}
    /\ op' = [op EXCEPT ![c].pc = StepAfter(c, "begin"), ![c].at = clock]
    /\ UNCHANGED <<clock, rows, born, context, settled>>

-----------------------------------------------------------------------------
refresh_query_context(a) == ReadRevision(a) \/ ReadEntries(a) \/ ReadRows(a) \/ refresh(a)

ContextNext ==
    \/ Clock \/ DriverTurn
    \/ \E a \in Refreshers : refresh_query_context(a)
    \/ \E c \in Connections :
          CreateSave(c) \/ CreateRegister(c) \/ PurgeDelete(c) \/ PurgeUnschedule(c)

\* The threads that refresh the context are not stopped: the driver loops until
\* the host quits, and a command that has begun runs to its end.
ContextFairness ==
    /\ WF_contextVars(DriverTurn)
    /\ \A a \in Refreshers : WF_contextVars(refresh_query_context(a))
    /\ \A c \in Connections : WF_contextVars(CreateRegister(c) \/ PurgeUnschedule(c))

ContextSpec == ContextInit /\ [][ContextNext]_contextVars /\ ContextFairness

-----------------------------------------------------------------------------
ContextTypeOK ==
    /\ clock \in Nat /\ rows \subseteq Connections /\ born \subseteq Connections
    /\ entries \subseteq Scheduled
    /\ context \in [revision : Nat, at : Nat, conns : SUBSET Connections, due : SUBSET Scheduled]
    /\ op \in [Refreshers ->
                [do : {"none", "tick", "create", "purge"},
                 pc : {"idle", "revision", "entries", "rows", "install", "register", "unschedule"},
                 at : Nat, revision : Nat, due : SUBSET Scheduled, conns : SUBSET Connections]]
    /\ settled \in [Connections -> {"none", "created", "purged"}]

\* A connection whose create has got past its refresh is in the context until a
\* purge of it begins, and one whose purge has returned without an error never is,
\* whoever else refreshes the context at the same time: of two refreshers that
\* read the same revision the later is refused, and the connections are read
\* after the revision (refresh_query_context, QueryContextRefreshHandle::refresh).
ContextCurrent ==
    \A c \in Connections :
        /\ settled[c] = "created" => c \in context.conns
        /\ settled[c] = "purged" => c \notin context.conns

\* A connection that the scheduler has is in the context with the time of its
\* next sync before long, or leaves the scheduler, although any one refresh of
\* the driver may be refused and is then dropped.
DueShown ==
    \A c \in Scheduled :
        c \in entries ~> (c \in context.conns /\ c \in context.due) \/ c \notin entries

=============================================================================
