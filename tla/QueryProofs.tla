----------------------------- MODULE QueryProofs ----------------------------
(***************************************************************************)
(* Proofs about what a query is made of: the context and its freshness,    *)
(* the relations that are kept locally, the topology around a resource     *)
(* and the pages of a listing, for any number of connections, resources    *)
(* and relations, any clock and any limits.  The four parts share no       *)
(* variable, and each has its own inductive invariant.                     *)
(***************************************************************************)
EXTENDS QueryContext, QueryService, Topology, LocalRelations, FiniteSetTheorems,
        WellFoundedInduction, TLAPS


-----------------------------------------------------------------------------
(* The inductive invariant of the context.                                 *)

\* The commands, and the rows they leave.
CommandInv ==
    /\ rows \subseteq born
    /\ \A a \in Refreshers : op[a].do \in {"create", "purge"} => a \in Connections
    /\ \A c \in Connections :
          /\ op[c].do \in {"none", "create", "purge"}
          /\ op[c].do = "create" => c \in rows
          /\ op[c].do = "purge" => c \notin rows /\ c \in born
          /\ op[c].do = "none" => op[c].pc = "idle"

\* What has settled is so in the store.
SettledInv ==
    \A c \in Connections :
        /\ settled[c] = "created" => c \in rows
        /\ settled[c] = "purged" => c \notin rows /\ c \in born

\* A refresher has at most the revision after the one there is.
RevisionInv ==
    \A a \in Refreshers :
        op[a].pc \in {"entries", "rows", "install"} => op[a].revision <= context.revision + 1

\* What a refresher is about to install shows what has settled, unless the
\* context has been replaced since it read the revision; and its own command.
InstallInv ==
    \A a \in Refreshers : At(a, "install") =>
        /\ op[a].revision > context.revision =>
              \A c \in Connections :
                  /\ settled[c] = "created" => c \in op[a].conns
                  /\ settled[c] = "purged" => c \notin op[a].conns
        /\ op[a].do = "create" => a \in op[a].conns
        /\ op[a].do = "purge" => a \notin op[a].conns

ContextInv ==
    /\ ContextTypeOK /\ CommandInv /\ SettledInv /\ RevisionInv /\ InstallInv /\ ContextCurrent

-----------------------------------------------------------------------------
(* Every step keeps it.                                                    *)

\* Where a refresher goes after each of its reads (the order of
\* refresh_query_context).
LEMMA StepAfterReads ==
    ASSUME NEW a \in Refreshers
    PROVE  /\ StepAfter(a, "begin") = "revision"
           /\ StepAfter(a, "revision") \in {"rows", "entries"}
           /\ StepAfter(a, "entries") = "rows"
           /\ StepAfter(a, "rows") = "install"
BY DEF StepAfter

\* A command or a turn of the driver, as ContextTypeOK has it.
OpRow ==
    [do : {"none", "tick", "create", "purge"},
     pc : {"idle", "revision", "entries", "rows", "install", "register", "unschedule"},
     at : Nat, revision : Nat, due : SUBSET Scheduled, conns : SUBSET Connections]

LEMMA IdleRow == /\ Idle \in OpRow /\ Idle.do = "none" /\ Idle.pc = "idle"
                 /\ Idle.at = 0 /\ Idle.revision = 0 /\ Idle.due = {} /\ Idle.conns = {}
BY DEF Idle, OpRow

\* A step that changes one of them and none of the other variables keeps the types.
LEMMA OpTyped ==
    ASSUME ContextTypeOK, NEW a \in Refreshers, NEW o \in OpRow,
           op' = [op EXCEPT ![a] = o], UNCHANGED <<clock, rows, born, entries, context, settled>>
    PROVE  ContextTypeOK'
BY DEF ContextTypeOK, OpRow

\* AppState::open leaves a context that shows what is stored.
LEMMA ContextInvInit == ContextInit => ContextInv
<1> SUFFICES ASSUME ContextInit PROVE ContextInv
  OBVIOUS
<1> USE ContextAssumption
<1>1. ContextTypeOK
  BY DEF ContextInit, ContextTypeOK, Idle, Refreshers
<1>2. CommandInv /\ SettledInv /\ RevisionInv /\ InstallInv /\ ContextCurrent
  BY DEF ContextInit, CommandInv, SettledInv, RevisionInv, InstallInv, ContextCurrent, Idle,
         Refreshers, At
<1> QED
  BY <1>1, <1>2 DEF ContextInv

\* The read of the revision.
LEMMA ReadRevisionKeeps ==
    ASSUME NEW a \in Refreshers, ContextInv, ReadRevision(a)
    PROVE  ContextInv'
<1> USE ContextAssumption, StepAfterReads
<1> DEFINE next == StepAfter(a, "revision")
<1>1. next \in {"rows", "entries"}
  OBVIOUS
<1> HIDE DEF next
<1>2. /\ op' = [op EXCEPT ![a].revision = context.revision + 1, ![a].pc = next]
      /\ At(a, "revision")
      /\ UNCHANGED <<clock, rows, born, entries, context, settled>>
  BY DEF ReadRevision, next
<1>3. ContextTypeOK'
  <2>1. op[a] \in OpRow
    BY DEF ContextInv, ContextTypeOK, OpRow
  <2>2. [op[a] EXCEPT !.revision = context.revision + 1, !.pc = next] \in OpRow
    <3>1. context.revision + 1 \in Nat
      BY DEF ContextInv, ContextTypeOK
    <3>2. CASE next = "rows"
      BY <2>1, <3>1, <3>2 DEF OpRow
    <3>3. CASE next = "entries"
      BY <2>1, <3>1, <3>3 DEF OpRow
    <3> QED
      BY <1>1, <3>2, <3>3
  <2>3. op' = [op EXCEPT ![a] = [op[a] EXCEPT !.revision = context.revision + 1, !.pc = next]]
    BY <1>2
  <2> QED
    BY <1>2, <2>2, <2>3, OpTyped DEF ContextInv
<1>4. CommandInv' /\ SettledInv' /\ ContextCurrent'
  BY <1>1, <1>2 DEF ContextInv, ContextTypeOK, CommandInv, SettledInv, ContextCurrent, At, Refreshers
<1>5. RevisionInv' /\ InstallInv'
  BY <1>1, <1>2 DEF ContextInv, ContextTypeOK, RevisionInv, InstallInv, At
<1> QED
  BY <1>3, <1>4, <1>5 DEF ContextInv

\* The read of the scheduler.
LEMMA ReadEntriesKeeps ==
    ASSUME NEW a \in Refreshers, ContextInv, ReadEntries(a)
    PROVE  ContextInv'
<1> USE ContextAssumption
<1>1. /\ op' = [op EXCEPT ![a].due = entries, ![a].pc = "rows"]
      /\ At(a, "entries")
      /\ UNCHANGED <<clock, rows, born, entries, context, settled>>
  BY StepAfterReads DEF ReadEntries
<1>2. ContextTypeOK'
  <2>1. op[a] \in OpRow
    BY DEF ContextInv, ContextTypeOK, OpRow
  <2>2. [op[a] EXCEPT !.due = entries, !.pc = "rows"] \in OpRow
    BY <2>1 DEF ContextInv, ContextTypeOK, OpRow
  <2>3. op' = [op EXCEPT ![a] = [op[a] EXCEPT !.due = entries, !.pc = "rows"]]
    BY <1>1
  <2> QED
    BY <1>1, <2>2, <2>3, OpTyped DEF ContextInv
<1>3. CommandInv' /\ SettledInv' /\ ContextCurrent'
  BY <1>1 DEF ContextInv, ContextTypeOK, CommandInv, SettledInv, ContextCurrent, At, Refreshers
<1>4. RevisionInv' /\ InstallInv'
  BY <1>1 DEF ContextInv, ContextTypeOK, RevisionInv, InstallInv, At
<1> QED
  BY <1>2, <1>3, <1>4 DEF ContextInv

\* The read of the connections: what has settled is in the store by then.
LEMMA ReadRowsKeeps ==
    ASSUME NEW a \in Refreshers, ContextInv, ReadRows(a)
    PROVE  ContextInv'
<1> USE ContextAssumption
<1>1. /\ op' = [op EXCEPT ![a].conns = rows, ![a].pc = "install"]
      /\ At(a, "rows")
      /\ UNCHANGED <<clock, rows, born, entries, context, settled>>
  BY StepAfterReads DEF ReadRows
<1>2. ContextTypeOK'
  <2>1. op[a] \in OpRow
    BY DEF ContextInv, ContextTypeOK, OpRow
  <2>2. [op[a] EXCEPT !.conns = rows, !.pc = "install"] \in OpRow
    BY <2>1 DEF ContextInv, ContextTypeOK, OpRow
  <2>3. op' = [op EXCEPT ![a] = [op[a] EXCEPT !.conns = rows, !.pc = "install"]]
    BY <1>1
  <2> QED
    BY <1>1, <2>2, <2>3, OpTyped DEF ContextInv
<1>3. CommandInv' /\ SettledInv' /\ ContextCurrent'
  BY <1>1 DEF ContextInv, ContextTypeOK, CommandInv, SettledInv, ContextCurrent, At, Refreshers
<1>4. RevisionInv'
  BY <1>1 DEF ContextInv, ContextTypeOK, RevisionInv, At
<1>5. InstallInv'
  BY <1>1 DEF ContextInv, ContextTypeOK, InstallInv, CommandInv, SettledInv, At
<1> QED
  BY <1>2, <1>3, <1>4, <1>5 DEF ContextInv

\* The refresh: a newer revision is the one after the last, so that everyone
\* else who has read a revision is refused from now on.
LEMMA RefreshKeeps ==
    ASSUME NEW a \in Refreshers, ContextInv, refresh(a)
    PROVE  ContextInv'
<1> USE ContextAssumption
<1> DEFINE next == [do |-> "create", pc |-> "register", at |-> op[a].at,
                    revision |-> op[a].revision, due |-> op[a].due, conns |-> op[a].conns]
<1>a. At(a, "install") /\ UNCHANGED <<clock, rows, born, entries>>
  BY DEF refresh
<1>1. CASE op[a].revision > context.revision
  <2>1. context' = [revision |-> op[a].revision, at |-> op[a].at,
                    conns |-> op[a].conns, due |-> op[a].due \cap op[a].conns]
    BY <1>1 DEF refresh
  <2>2. op[a].revision = context.revision + 1
    BY <1>1, <1>a DEF ContextInv, ContextTypeOK, RevisionInv, At
  <2>3. PICK o \in {Idle, next} :
           /\ op' = [op EXCEPT ![a] = o]
           /\ o = next <=> op[a].do = "create"
    <3>1. CASE op[a].do = "create"
      <4>1. op' = [op EXCEPT ![a].pc = "register"]
        BY <1>1, <3>1 DEF refresh, Goto
      <4>2. [op[a] EXCEPT !.pc = "register"] = next
        BY <3>1 DEF ContextInv, ContextTypeOK
      <4> QED
        BY <4>1, <4>2, <3>1 DEF Idle
    <3>2. CASE op[a].do # "create"
      BY <1>1, <3>2 DEF refresh, Idle
    <3> QED
      BY <3>1, <3>2
  <2>4. settled' = IF a \in Connections
                     THEN [settled EXCEPT ![a] = IF op[a].do = "create" THEN "created" ELSE "purged"]
                     ELSE settled
    BY <1>1 DEF refresh
  <2>5. a \in Connections => op[a].do \in {"create", "purge"}
    BY <1>a DEF ContextInv, CommandInv, At
  <2>6. ContextTypeOK'
    <3>1. o \in OpRow
      BY DEF ContextInv, ContextTypeOK, Idle, OpRow
    <3> QED
      BY <1>a, <2>1, <2>3, <2>4, <3>1 DEF ContextInv, ContextTypeOK, OpRow
  <2>7. CommandInv'
    BY <1>a, <2>3, <2>5 DEF ContextInv, ContextTypeOK, CommandInv, Idle, Refreshers
  <2>8. SettledInv'
    BY <1>a, <2>4, <2>5 DEF ContextInv, ContextTypeOK, CommandInv, SettledInv
  <2>9. RevisionInv'
    BY <1>a, <2>1, <2>2, <2>3 DEF ContextInv, ContextTypeOK, RevisionInv, Idle
  <2>10. InstallInv'
    <3> SUFFICES ASSUME NEW b \in Refreshers, op'[b].pc = "install"
                 PROVE  /\ op'[b].revision <= context'.revision
                        /\ op'[b].do = "create" => b \in op'[b].conns
                        /\ op'[b].do = "purge" => b \notin op'[b].conns
      BY <2>6 DEF InstallInv, At, ContextTypeOK
    <3>1. b # a /\ op'[b] = op[b]
      BY <2>3 DEF ContextInv, ContextTypeOK, Idle
    <3> QED
      BY <2>1, <2>2, <3>1 DEF ContextInv, ContextTypeOK, RevisionInv, InstallInv, At
  <2>11. ContextCurrent'
    BY <1>1, <1>a, <2>1, <2>4, <2>5 DEF ContextInv, ContextTypeOK, InstallInv, ContextCurrent, At
  <2> QED
    BY <2>6, <2>7, <2>8, <2>9, <2>10, <2>11 DEF ContextInv
<1>2. CASE ~(op[a].revision > context.revision)
  <2>1. op' = [op EXCEPT ![a] = Idle] /\ UNCHANGED <<context, settled>>
    BY <1>2 DEF refresh
  <2>2. ContextTypeOK'
    BY <1>a, <2>1 DEF ContextInv, ContextTypeOK, Idle
  <2>3. CommandInv' /\ SettledInv' /\ ContextCurrent'
    BY <1>a, <2>1 DEF ContextInv, ContextTypeOK, CommandInv, SettledInv, ContextCurrent, Idle, Refreshers
  <2>4. RevisionInv' /\ InstallInv'
    BY <1>a, <2>1 DEF ContextInv, ContextTypeOK, RevisionInv, InstallInv, At, Idle
  <2> QED
    BY <2>2, <2>3, <2>4 DEF ContextInv
<1> QED
  BY <1>1, <1>2

\* The turn of the driver, a create and a purge put a command in the place of a
\* refresher that has none.
LEMMA CommandsKeep ==
    ASSUME ContextInv,
           \/ DriverTurn
           \/ \E c \in Connections :
                 CreateSave(c) \/ CreateRegister(c) \/ PurgeDelete(c) \/ PurgeUnschedule(c)
    PROVE  ContextInv'
<1> USE ContextAssumption
<1>1. CASE DriverTurn
  <2> DEFINE o == [Idle EXCEPT !.do = "tick", !.pc = "revision", !.at = clock, !.due = entries]
  <2>a. o \in OpRow /\ o.do = "tick" /\ o.pc = "revision"
    BY IdleRow DEF OpRow, ContextInv, ContextTypeOK
  <2> HIDE DEF o
  <2>1. op' = [op EXCEPT ![Driver] = o] /\ UNCHANGED <<clock, rows, born, entries, context, settled>>
    <3>1. StepAfter(Driver, "begin") = "revision"
      BY StepAfterReads DEF Refreshers
    <3> QED
      BY <1>1, <3>1 DEF DriverTurn, o
  <2>2. ContextTypeOK'
    BY <2>a, <2>1, OpTyped DEF ContextInv, Refreshers
  <2>3. CommandInv' /\ SettledInv' /\ ContextCurrent'
    BY <2>a, <2>1 DEF ContextInv, ContextTypeOK, CommandInv, SettledInv, ContextCurrent, Refreshers
  <2>4. RevisionInv' /\ InstallInv'
    BY <2>a, <2>1 DEF ContextInv, ContextTypeOK, RevisionInv, InstallInv, At
  <2> QED
    BY <2>2, <2>3, <2>4 DEF ContextInv
<1>2. ASSUME NEW c \in Connections, CreateSave(c) PROVE ContextInv'
  <2> DEFINE o == [Idle EXCEPT !.do = "create", !.pc = "revision", !.at = clock]
  <2>a. o \in OpRow /\ o.do = "create" /\ o.pc = "revision"
    BY IdleRow DEF OpRow, ContextInv, ContextTypeOK
  <2> HIDE DEF o
  <2>1. /\ op' = [op EXCEPT ![c] = o] /\ UNCHANGED <<clock, entries, context, settled>>
        /\ c \notin born /\ born' = born \cup {c} /\ rows' = rows \cup {c}
    <3>1. StepAfter(c, "begin") = "revision"
      BY StepAfterReads DEF Refreshers
    <3> QED
      BY <1>2, <3>1 DEF CreateSave, o
  <2>2. ContextTypeOK'
    BY <2>a, <2>1 DEF ContextInv, ContextTypeOK, OpRow
  <2>3. CommandInv' /\ SettledInv' /\ ContextCurrent'
    BY <2>a, <2>1 DEF ContextInv, ContextTypeOK, CommandInv, SettledInv, ContextCurrent, Refreshers
  <2>4. RevisionInv' /\ InstallInv'
    BY <2>a, <2>1 DEF ContextInv, ContextTypeOK, RevisionInv, InstallInv, At
  <2> QED
    BY <2>2, <2>3, <2>4 DEF ContextInv
<1>3. ASSUME NEW c \in Connections, CreateRegister(c) PROVE ContextInv'
  <2>1. /\ op' = [op EXCEPT ![c] = Idle] /\ UNCHANGED <<clock, rows, born, context, settled>>
        /\ entries' \in {entries, entries \cup {c}} /\ (c \notin Scheduled => entries' = entries)
    BY <1>3 DEF CreateRegister
  <2>2. ContextTypeOK'
    BY <2>1 DEF ContextInv, ContextTypeOK, Idle
  <2>3. CommandInv' /\ SettledInv' /\ ContextCurrent'
    BY <2>1 DEF ContextInv, ContextTypeOK, CommandInv, SettledInv, ContextCurrent, Refreshers, Idle
  <2>4. RevisionInv' /\ InstallInv'
    BY <2>1 DEF ContextInv, ContextTypeOK, RevisionInv, InstallInv, At, Idle
  <2> QED
    BY <2>2, <2>3, <2>4 DEF ContextInv
<1>4. ASSUME NEW c \in Connections, PurgeDelete(c) PROVE ContextInv'
  <2> DEFINE o == [Idle EXCEPT !.do = "purge", !.pc = "unschedule"]
  <2>a. o \in OpRow /\ o.do = "purge" /\ o.pc = "unschedule"
    BY IdleRow DEF OpRow, ContextInv, ContextTypeOK
  <2> HIDE DEF o
  <2>1. /\ op' = [op EXCEPT ![c] = o] /\ UNCHANGED <<clock, born, entries, context>>
        /\ c \in rows /\ op[c].do = "none" /\ rows' = rows \ {c}
        /\ settled' = [settled EXCEPT ![c] = "none"]
    BY <1>4, IdleRow DEF PurgeDelete, o
  <2>2. ContextTypeOK'
    BY <2>a, <2>1 DEF ContextInv, ContextTypeOK, OpRow
  <2>3. CommandInv' /\ SettledInv' /\ ContextCurrent'
    BY <2>a, <2>1 DEF ContextInv, ContextTypeOK, CommandInv, SettledInv, ContextCurrent, Refreshers
  <2>4. RevisionInv' /\ InstallInv'
    BY <2>a, <2>1 DEF ContextInv, ContextTypeOK, RevisionInv, InstallInv, At
  <2> QED
    BY <2>2, <2>3, <2>4 DEF ContextInv
<1>5. ASSUME NEW c \in Connections, PurgeUnschedule(c) PROVE ContextInv'
  <2>1. /\ op' = [op EXCEPT ![c] = [op[c] EXCEPT !.pc = "revision", !.at = clock]]
        /\ UNCHANGED <<clock, rows, born, context, settled>>
        /\ At(c, "unschedule") /\ entries' = entries \ {c}
    <3>1. StepAfter(c, "begin") = "revision"
      BY StepAfterReads DEF Refreshers
    <3>2. op \in [Refreshers -> OpRow]
      BY DEF ContextInv, ContextTypeOK, OpRow
    <3>3. op' = [op EXCEPT ![c] = [op[c] EXCEPT !.pc = "revision", !.at = clock]]
      BY <1>5, <3>1, <3>2 DEF PurgeUnschedule, OpRow
    <3> QED
      BY <1>5, <3>3 DEF PurgeUnschedule
  <2>2. ContextTypeOK'
    <3>1. op[c] \in OpRow
      BY DEF ContextInv, ContextTypeOK, OpRow, Refreshers
    <3>2. [op[c] EXCEPT !.pc = "revision", !.at = clock] \in OpRow
      BY <3>1 DEF ContextInv, ContextTypeOK, OpRow
    <3> QED
      BY <2>1, <3>2 DEF ContextInv, ContextTypeOK, OpRow
  <2>3. CommandInv' /\ SettledInv' /\ ContextCurrent'
    BY <2>1 DEF ContextInv, ContextTypeOK, CommandInv, SettledInv, ContextCurrent, At, Refreshers
  <2>4. RevisionInv' /\ InstallInv'
    BY <2>1 DEF ContextInv, ContextTypeOK, RevisionInv, InstallInv, At
  <2> QED
    BY <2>2, <2>3, <2>4 DEF ContextInv
<1> QED
  BY <1>1, <1>2, <1>3, <1>4, <1>5

LEMMA ContextInvStep == ContextInv /\ [ContextNext]_contextVars => ContextInv'
<1> SUFFICES ASSUME ContextInv, [ContextNext]_contextVars PROVE ContextInv'
  OBVIOUS
<1>1. CASE Clock
  BY <1>1 DEF Clock, ContextInv, ContextTypeOK, CommandInv, SettledInv, RevisionInv, InstallInv,
              ContextCurrent, At
<1>2. ASSUME NEW a \in Refreshers, refresh_query_context(a) PROVE ContextInv'
  BY <1>2, ReadRevisionKeeps, ReadEntriesKeeps, ReadRowsKeeps, RefreshKeeps DEF refresh_query_context
<1>3. CASE UNCHANGED contextVars
  BY <1>3 DEF contextVars, ContextInv, ContextTypeOK, CommandInv, SettledInv, RevisionInv,
              InstallInv, ContextCurrent, At
<1> QED
  BY <1>1, <1>2, <1>3, CommandsKeep DEF ContextNext

\* The context, the rows, the scheduler and the commands keep their types
\* (QueryContextSnapshot, AppState).
THEOREM ContextTypeCorrect == ContextSpec => []ContextTypeOK
<1>1. ContextInv => ContextTypeOK
  BY DEF ContextInv
<1> QED
  BY <1>1, ContextInvInit, ContextInvStep, PTL DEF ContextSpec

\* Of any number of refreshers that race, none takes back what a create or a
\* purge has shown (refresh_query_context, QueryContextRefreshHandle::refresh).
THEOREM ContextCurrentAlways == ContextSpec => []ContextCurrent
<1>1. ContextInv => ContextCurrent
  BY DEF ContextInv
<1> QED
  BY <1>1, ContextInvInit, ContextInvStep, PTL DEF ContextSpec

-----------------------------------------------------------------------------
(* Freshness.                                                              *)

\* The freshness that the store computes from the cutoffs, for filters and
\* counts, is the one that the query source computes from the age, for the body
\* of an answer; at every boundary, and for a clock that has gone back
\* (classify_millis and classify_freshness).
THEOREM FreshnessAgree ==
    ASSUME NEW last_seen_at \in Int, NEW at \in Int, NEW interval \in Nat \ {0}
    PROVE  classify_millis(last_seen_at, cutoffs(at, interval))
             = classify_freshness(last_seen_at, at, interval)
BY DEF classify_millis, classify_freshness, cutoffs


-----------------------------------------------------------------------------
(* The relations that are kept locally.                                    *)

Keys == [by : BindingIds \cup Rules, ends : Pairs, inputs : SUBSET Things]
Statuses == {"active", "unresolved", "disabled"}
RelationLifecycles == {"active", "orphaned", "tombstoned"}

\* What the variables are.
RelationsTypeOK ==
    /\ moment \in Nat
    /\ lifecycle \in [DOMAIN lifecycle -> {"active", "tombstoned"}] /\ DOMAIN lifecycle \subseteq Things
    /\ bindings \in [DOMAIN bindings -> [ends : Pairs, status : Statuses, updated_at : Nat]]
    /\ DOMAIN bindings \subseteq used /\ used \subseteq BindingIds
    /\ relations \in [DOMAIN relations -> RelationLifecycles] /\ DOMAIN relations \subseteq Keys
    /\ versions \in [DOMAIN versions -> [observed_at : Nat, lifecycle : RelationLifecycles]]
    /\ DOMAIN versions \subseteq Keys
    /\ outputs \in [Rules -> SUBSET Keys]

\* A relation of a binding is one of a binding that there was, and has no inputs.
OriginInv ==
    /\ \A k \in DOMAIN relations : k.by \in BindingIds => k.by \in used /\ k.inputs = {}
    /\ \A k \in DOMAIN versions : k.by \in BindingIds => k.by \in used /\ k.inputs = {}

\* No version of a relation of a binding is newer than the binding.
VersionAgeInv ==
    \A k \in DOMAIN versions :
        k.by \in DOMAIN bindings => versions[k].observed_at <= bindings[k.by].updated_at

RelationsInv ==
    /\ RelationsTypeOK /\ OriginInv /\ VersionAgeInv
    /\ RelationsFollow /\ VersionsMatch
\* The tables: what replacing and removing rows leaves.
LEMMA UpsertedType ==
    ASSUME NEW f, NEW g, NEW S,
           f \in [DOMAIN f -> S], g \in [DOMAIN g -> S]
    PROVE  Upserted(f, g) \in [DOMAIN Upserted(f, g) -> S]
BY DEF Upserted

LEMMA RestrictType ==
    ASSUME NEW f, NEW S, NEW V, S \subseteq DOMAIN f, f \in [DOMAIN f -> V]
    PROVE  Restrict(f, S) \in [DOMAIN Restrict(f, S) -> V]
BY DEF Restrict

\* What writing rows leaves in the two tables of the relations: a relation has
\* its row, and the version too unless one of this millisecond was there
\* (upsert_relation, insert_relation_version).
LEMMA RelationsWritten ==
    ASSUME RelationsTypeOK, NEW R,
           R \in [DOMAIN R -> RelationLifecycles], upsert_relations(R)
    PROVE  /\ relations' \in [DOMAIN relations' -> RelationLifecycles]
           /\ DOMAIN relations' = DOMAIN R \cup DOMAIN relations
           /\ \A k \in DOMAIN R : relations'[k] = R[k]
           /\ \A k \in DOMAIN relations \ DOMAIN R : relations'[k] = relations[k]
<1>1. relations' = Upserted(R, relations)
  BY DEF upsert_relations
<1>2. relations \in [DOMAIN relations -> RelationLifecycles]
  BY DEF RelationsTypeOK
<1>3. relations' \in [DOMAIN relations' -> RelationLifecycles]
  BY <1>1, <1>2, UpsertedType
<1>4. /\ DOMAIN relations' = DOMAIN R \cup DOMAIN relations
      /\ \A k \in DOMAIN R : relations'[k] = R[k]
      /\ \A k \in DOMAIN relations \ DOMAIN R : relations'[k] = relations[k]
  BY <1>1 DEF Upserted
<1> QED
  BY <1>3, <1>4

LEMMA VersionsWritten ==
    ASSUME RelationsTypeOK, NEW R,
           R \in [DOMAIN R -> RelationLifecycles], insert_relation_versions(R)
    PROVE  /\ versions' \in [DOMAIN versions' -> [observed_at : Nat, lifecycle : RelationLifecycles]]
           /\ DOMAIN versions' = DOMAIN R \cup DOMAIN versions
           /\ \A k \in DOMAIN versions \ DOMAIN R : versions'[k] = versions[k]
           /\ \A k \in DOMAIN R :
                 \/ versions'[k].observed_at = moment /\ versions'[k].lifecycle = R[k]
                 \/ /\ k \in DOMAIN versions /\ versions[k].observed_at = moment
                    /\ versions'[k] = versions[k]
                    /\ versions[k].lifecycle = R[k] \/ k \in clashed'
           /\ \A k \in clashed \ DOMAIN R : k \in clashed'
<1> DEFINE taken == {k \in DOMAIN R \cap DOMAIN versions : versions[k].observed_at = moment}
           new == [k \in DOMAIN R \ taken |-> [observed_at |-> moment, lifecycle |-> R[k]]]
           V == [observed_at : Nat, lifecycle : RelationLifecycles]
<1>1. /\ versions' = Upserted(new, versions)
      /\ clashed' = (clashed \ DOMAIN R) \cup {k \in taken : versions[k].lifecycle # R[k]}
  BY DEF insert_relation_versions
<1>2. versions \in [DOMAIN versions -> V] /\ moment \in Nat
  BY DEF RelationsTypeOK
<1>3. new \in [DOMAIN new -> V] /\ DOMAIN new = DOMAIN R \ taken
  BY <1>2
<1>4. \A k \in DOMAIN new : new[k].observed_at = moment /\ new[k].lifecycle = R[k]
  OBVIOUS
<1>5. taken \subseteq DOMAIN R \cap DOMAIN versions /\ \A k \in taken : versions[k].observed_at = moment
  OBVIOUS
<1> HIDE DEF new, V, taken
<1>6. versions' \in [DOMAIN versions' -> V]
  BY <1>1, <1>2, <1>3, UpsertedType
<1>7. /\ DOMAIN versions' = DOMAIN new \cup DOMAIN versions
      /\ \A k \in DOMAIN new : versions'[k] = new[k]
      /\ \A k \in DOMAIN versions \ DOMAIN new : versions'[k] = versions[k]
  BY <1>1 DEF Upserted
<1> QED
  BY <1>1, <1>3, <1>4, <1>5, <1>6, <1>7 DEF V

\* The rows that a binding writes: only relations of its own, the one of its ends
\* with the lifecycle of its status, every other tombstoned (binding_commit).
LEMMA BindingRows ==
    ASSUME RelationsTypeOK, NEW b \in BindingIds,
           NEW binding \in [ends : Pairs, status : Statuses, updated_at : Nat]
    PROVE  /\ binding_rows(b, binding) \in [DOMAIN binding_rows(b, binding) -> RelationLifecycles]
           /\ DOMAIN binding_rows(b, binding) \subseteq Keys
           /\ Configured(b, binding.ends) \in DOMAIN binding_rows(b, binding)
           /\ b \in DOMAIN bindings =>
                 Configured(b, bindings[b].ends) \in DOMAIN binding_rows(b, binding)
           /\ \A k \in DOMAIN binding_rows(b, binding) :
                 /\ k.by = b /\ k.inputs = {} /\ k = Configured(b, k.ends)
                 /\ binding_rows(b, binding)[k] = IF k.ends = binding.ends
                                                    THEN relation_lifecycle(binding.status)
                                                    ELSE "tombstoned"
<1>1. relation_lifecycle(binding.status) \in RelationLifecycles
  BY DEF relation_lifecycle, Statuses, RelationLifecycles
<1>2. \A e \in Pairs : /\ Configured(b, e) \in Keys /\ Configured(b, e).by = b
                       /\ Configured(b, e).ends = e /\ Configured(b, e).inputs = {}
  BY DEF Configured, Keys
<1>3. binding.ends \in Pairs /\ (b \in DOMAIN bindings => bindings[b].ends \in Pairs)
  BY DEF RelationsTypeOK
<1> DEFINE L == relation_lifecycle(binding.status)
           kn == Configured(b, binding.ends)
           new == Row(kn, L)
<1>4. DOMAIN new = {kn} /\ new[kn] = L /\ new \in [DOMAIN new -> RelationLifecycles]
  BY <1>1 DEF Row
<1>5. CASE b \in DOMAIN bindings /\ bindings[b].ends # binding.ends
  <2> DEFINE ko == Configured(b, bindings[b].ends)
             old == Row(ko, "tombstoned")
  <2>1. DOMAIN old = {ko} /\ old[ko] = "tombstoned" /\ old \in [DOMAIN old -> RelationLifecycles]
    BY DEF Row, RelationLifecycles
  <2>2. binding_rows(b, binding) = Upserted(new, old)
    BY <1>5 DEF binding_rows
  <2>3. ko # kn /\ kn.ends = binding.ends /\ ko.ends = bindings[b].ends
    BY <1>2, <1>3, <1>5
  <2>5. /\ kn \in Keys /\ kn.by = b /\ kn.inputs = {} /\ kn = Configured(b, kn.ends)
        /\ ko \in Keys /\ ko.by = b /\ ko.inputs = {} /\ ko = Configured(b, ko.ends)
    BY <1>2, <1>3, <1>5
  <2> HIDE DEF new, old, L
  <2>4. /\ DOMAIN Upserted(new, old) = {kn, ko}
        /\ Upserted(new, old)[kn] = L /\ Upserted(new, old)[ko] = "tombstoned"
        /\ Upserted(new, old) \in [DOMAIN Upserted(new, old) -> RelationLifecycles]
    <3> HIDE DEF kn, ko
    <3>1. ko # kn /\ ko \notin DOMAIN new /\ kn \in DOMAIN new
      BY <1>4, <2>3
    <3>2. /\ DOMAIN Upserted(new, old) = DOMAIN new \cup DOMAIN old
          /\ Upserted(new, old)[kn] = new[kn] /\ Upserted(new, old)[ko] = old[ko]
      BY <2>1, <3>1 DEF Upserted
    <3>3. Upserted(new, old) \in [DOMAIN Upserted(new, old) -> RelationLifecycles]
      BY <1>4, <2>1, UpsertedType
    <3> QED BY <1>4, <2>1, <3>2, <3>3
  <2> QED
    BY <1>5, <2>2, <2>3, <2>4, <2>5 DEF L
<1>6. CASE ~(b \in DOMAIN bindings /\ bindings[b].ends # binding.ends)
  <2>1. binding_rows(b, binding) = new
    BY <1>6 DEF binding_rows
  <2>2. kn.ends = binding.ends /\ kn \in Keys /\ kn.by = b /\ kn.inputs = {} /\ kn = Configured(b, kn.ends)
    BY <1>2, <1>3
  <2>3. b \in DOMAIN bindings => Configured(b, bindings[b].ends) = kn
    BY <1>6
  <2> HIDE DEF new
  <2> QED
    BY <1>4, <2>1, <2>2, <2>3
<1> QED
  BY <1>5, <1>6
\* A commit of a binding keeps the invariant, whatever the operation: the binding
\* is new, or it is stored and older than the clock, and no other one that is
\* enabled has its ends (BindingService, commit_binding).
LEMMA CommitBindingKeeps ==
    ASSUME RelationsInv, NEW b \in BindingIds,
           NEW binding \in [ends : Pairs, status : Statuses, updated_at : Nat],
           binding.updated_at = moment,
           b \notin used \/ (b \in DOMAIN bindings /\ moment > bindings[b].updated_at),
           binding.status = "disabled" \/ ~Duplicate(binding.ends, b),
           used' = used \cup {b},
           commit_binding(b, binding)
    PROVE  RelationsInv'
<1> PICK R : R = binding_rows(b, binding)
  OBVIOUS
<1>t. RelationsTypeOK /\ RelationsAssumption
  BY RelationsAssumption DEF RelationsInv
<1>1. /\ upsert_relations(R) /\ insert_relation_versions(R)
      /\ bindings' = Upserted(Row(b, binding), bindings)
      /\ moment' = moment /\ lifecycle' = lifecycle /\ outputs' = outputs
  BY DEF commit_binding
<1>2. /\ R \in [DOMAIN R -> RelationLifecycles]
      /\ DOMAIN R \subseteq Keys
      /\ Configured(b, binding.ends) \in DOMAIN R
      /\ b \in DOMAIN bindings => Configured(b, bindings[b].ends) \in DOMAIN R
      /\ \A k \in DOMAIN R :
            /\ k.by = b /\ k.inputs = {} /\ k = Configured(b, k.ends)
            /\ R[k] = IF k.ends = binding.ends THEN relation_lifecycle(binding.status)
                                               ELSE "tombstoned"
  BY <1>t, BindingRows
<1>3. /\ relations' \in [DOMAIN relations' -> RelationLifecycles]
      /\ DOMAIN relations' = DOMAIN R \cup DOMAIN relations
      /\ \A k \in DOMAIN R : relations'[k] = R[k]
      /\ \A k \in DOMAIN relations \ DOMAIN R : relations'[k] = relations[k]
  <2>1. RelationsTypeOK /\ R \in [DOMAIN R -> RelationLifecycles] /\ upsert_relations(R)
    BY <1>t, <1>1, <1>2
  <2> QED
    BY ONLY <2>1, RelationsWritten
<1>4. /\ versions' \in [DOMAIN versions' -> [observed_at : Nat, lifecycle : RelationLifecycles]]
      /\ DOMAIN versions' = DOMAIN R \cup DOMAIN versions
      /\ \A k \in DOMAIN versions \ DOMAIN R : versions'[k] = versions[k]
      /\ \A k \in clashed \ DOMAIN R : k \in clashed'
  BY <1>t, <1>1, <1>2, VersionsWritten
<1>5. \A k \in DOMAIN R : versions'[k].observed_at = moment /\ versions'[k].lifecycle = R[k]
  <2> TAKE k \in DOMAIN R
  <2>1. \/ versions'[k].observed_at = moment /\ versions'[k].lifecycle = R[k]
        \/ k \in DOMAIN versions /\ versions[k].observed_at = moment
    BY <1>t, <1>1, <1>2, VersionsWritten
  <2>2. k.by = b
    BY <1>2
  <2>3. SUFFICES ASSUME k \in DOMAIN versions, versions[k].observed_at = moment PROVE FALSE
    BY <2>1
  <2>4. b \in used
    BY <2>2, <2>3 DEF RelationsInv, OriginInv
  <2>5. versions[k].observed_at <= bindings[b].updated_at /\ moment > bindings[b].updated_at
    BY <2>2, <2>3, <2>4 DEF RelationsInv, VersionAgeInv
  <2>6. bindings[b].updated_at \in Nat /\ moment \in Nat
    BY <1>t, <2>4 DEF RelationsTypeOK
  <2> QED
    BY <2>3, <2>5, <2>6
<1>6. /\ DOMAIN bindings' = DOMAIN bindings \cup {b}
      /\ bindings'[b] = binding
      /\ \A o \in DOMAIN bindings \ {b} : bindings'[o] = bindings[o]
  BY <1>1 DEF Upserted, Row
<1>7. bindings' \in [DOMAIN bindings' -> [ends : Pairs, status : Statuses, updated_at : Nat]]
  <2> DEFINE B == [ends : Pairs, status : Statuses, updated_at : Nat]
  <2>1. bindings \in [DOMAIN bindings -> B]
    BY <1>t DEF RelationsTypeOK
  <2>2. Row(b, binding) \in [DOMAIN Row(b, binding) -> B]
    BY DEF Row
  <2> HIDE DEF B
  <2>3. bindings' \in [DOMAIN bindings' -> B]
    BY <1>1, <2>1, <2>2, UpsertedType
  <2> QED BY <2>3 DEF B
<1>8. RelationsTypeOK'
  <2>1. DOMAIN relations' \subseteq Keys /\ DOMAIN versions' \subseteq Keys
    BY <1>t, <1>2, <1>3, <1>4 DEF RelationsTypeOK
  <2>2. DOMAIN bindings' \subseteq used' /\ used' \subseteq BindingIds
    BY <1>t, <1>6 DEF RelationsTypeOK
  <2>3. /\ moment' \in Nat
        /\ lifecycle' \in [DOMAIN lifecycle' -> {"active", "tombstoned"}]
        /\ DOMAIN lifecycle' \subseteq Things
        /\ outputs' \in [Rules -> SUBSET Keys]
    BY <1>t, <1>1 DEF RelationsTypeOK
  <2> QED
    BY <1>3, <1>4, <1>7, <2>1, <2>2, <2>3 DEF RelationsTypeOK
<1>9. OriginInv'
  BY <1>2, <1>3, <1>4 DEF RelationsInv, OriginInv
<1>10. VersionAgeInv'
  <2> SUFFICES ASSUME NEW k \in DOMAIN versions', k.by \in DOMAIN bindings'
               PROVE  versions'[k].observed_at <= bindings'[k.by].updated_at
    BY DEF VersionAgeInv
  <2>0. moment \in Nat
    BY <1>t DEF RelationsTypeOK
  <2>1. CASE k \in DOMAIN R
    BY <1>2, <1>5, <1>6, <2>0, <2>1
  <2>2. CASE k \notin DOMAIN R /\ k.by # b
    BY <1>4, <1>6, <2>2 DEF RelationsInv, VersionAgeInv
  <2>3. CASE k \notin DOMAIN R /\ k.by = b
    <3>1. k \in DOMAIN versions /\ versions'[k] = versions[k]
      BY <1>4, <2>3
    <3>2. b \in DOMAIN bindings /\ moment > bindings[b].updated_at
      BY <2>3, <3>1 DEF RelationsInv, OriginInv
    <3>3. versions[k].observed_at <= bindings[b].updated_at
      BY <2>3, <3>1, <3>2 DEF RelationsInv, VersionAgeInv
    <3>4. versions[k].observed_at \in Nat /\ bindings[b].updated_at \in Nat
      BY <1>t, <3>1, <3>2 DEF RelationsTypeOK
    <3> QED
      BY <1>6, <2>0, <2>3, <3>1, <3>2, <3>3, <3>4
  <2> QED
    BY <2>1, <2>2, <2>3
<1>11. RelationsFollow'
  <2>1. \A a, c \in DOMAIN bindings' :
           a # c /\ bindings'[a].ends = bindings'[c].ends
             => "disabled" \in {bindings'[a].status, bindings'[c].status}
    BY <1>6 DEF RelationsInv, RelationsFollow, Duplicate
  <2>2. \A o \in DOMAIN bindings' :
           /\ Configured(o, bindings'[o].ends) \in DOMAIN relations'
           /\ \A k \in DOMAIN relations' : k.by = o =>
                 relations'[k] = IF k.ends = bindings'[o].ends
                                   THEN relation_lifecycle(bindings'[o].status)
                                   ELSE "tombstoned"
    <3> TAKE o \in DOMAIN bindings'
    <3>1. CASE o # b
      <4>1. o \in DOMAIN bindings /\ bindings'[o] = bindings[o]
        BY <1>6, <3>1
      <4>2. Configured(o, bindings[o].ends) \in DOMAIN relations
        BY <4>1 DEF RelationsInv, RelationsFollow
      <4>3. \A k \in DOMAIN relations' : k.by = o =>
               k \in DOMAIN relations /\ relations'[k] = relations[k]
        BY <1>2, <1>3, <3>1
      <4> QED
        BY <1>3, <4>1, <4>2, <4>3 DEF RelationsInv, RelationsFollow
    <3>2. CASE o = b
      <4>1. Configured(o, bindings'[o].ends) \in DOMAIN relations'
        BY <1>2, <1>3, <1>6, <3>2
      <4> SUFFICES ASSUME NEW k \in DOMAIN relations', k.by = b
                   PROVE  relations'[k] = IF k.ends = binding.ends
                                            THEN relation_lifecycle(binding.status)
                                            ELSE "tombstoned"
        BY <1>6, <3>2, <4>1
      <4>2. CASE k \in DOMAIN R
        BY <1>2, <1>3, <4>2
      <4>3. CASE k \notin DOMAIN R
        <5>1. k \in DOMAIN relations /\ relations'[k] = relations[k] /\ k \in Keys
          BY <1>t, <1>3, <4>3 DEF RelationsTypeOK
        <5>2. b \in DOMAIN bindings /\ k.inputs = {}
          BY <5>1 DEF RelationsInv, OriginInv
        <5>3. k = Configured(b, k.ends)
          BY <5>1, <5>2 DEF Keys, Configured
        <5>4. k.ends # binding.ends /\ k.ends # bindings[b].ends
          BY <1>2, <4>3, <5>2, <5>3
        <5> QED
          BY <5>1, <5>2, <5>4 DEF RelationsInv, RelationsFollow
      <4> QED
        BY <4>2, <4>3
    <3> QED
      BY <3>1, <3>2
  <2>3. \A rule \in Rules :
           {k \in DOMAIN relations' : k.by = rule /\ relations'[k] = "active"} = outputs'[rule]
    <3> TAKE rule \in Rules
    <3>1. rule # b
      BY <1>t DEF RelationsAssumption
    <3>2. \A k : k \in DOMAIN relations' /\ k.by = rule
                   <=> k \in DOMAIN relations /\ k.by = rule
      BY <1>2, <1>3, <3>1
    <3>3. \A k \in DOMAIN relations : k.by = rule => relations'[k] = relations[k]
      BY <1>2, <1>3, <3>1
    <3>4. {k \in DOMAIN relations : k.by = rule /\ relations[k] = "active"} = outputs[rule]
      BY DEF RelationsInv, RelationsFollow, inferred_relations_for_rule
    <3> QED
      BY <1>1, <3>2, <3>3, <3>4
  <2> QED
    BY <2>1, <2>2, <2>3 DEF RelationsFollow, inferred_relations_for_rule, relation_lifecycle
<1>12. VersionsMatch'
  BY <1>3, <1>4, <1>5 DEF RelationsInv, VersionsMatch
<1> QED
  BY <1>8, <1>9, <1>10, <1>11, <1>12 DEF RelationsInv
\* The four operations on a binding.
LEMMA BindingStepKeeps ==
    ASSUME RelationsInv, NEW b \in BindingIds, NEW ends \in Pairs,
           create(b, ends) \/ update(b, ends) \/ disable(b) \/ reconcile(b)
    PROVE  RelationsInv'
<1> DEFINE B == [ends : Pairs, status : Statuses, updated_at : Nat]
<1>t. /\ moment \in Nat /\ bindings \in [DOMAIN bindings -> B]
      /\ DOMAIN bindings \subseteq used
  BY DEF RelationsInv, RelationsTypeOK
<1>s. \A e : endpoint_status(e) \in {"active", "unresolved"}
  BY DEF endpoint_status
<1>1. CASE create(b, ends)
  <2> PICK n : n = [ends |-> ends, status |-> endpoint_status(ends), updated_at |-> moment]
    OBVIOUS
  <2>1. n \in B /\ n.updated_at = moment /\ n.ends = ends
    BY <1>t, <1>s DEF Statuses
  <2>2. /\ b \notin used /\ ~Duplicate(n.ends, b)
        /\ used' = used \cup {b} /\ commit_binding(b, n)
    BY <1>1, <2>1 DEF create
  <2> QED
    BY <2>1, <2>2, CommitBindingKeeps
<1>2. CASE update(b, ends)
  <2> DEFINE off == bindings[b].status = "disabled"
  <2> PICK n : n = [ends |-> ends, updated_at |-> moment,
                    status |-> IF off THEN "disabled" ELSE endpoint_status(ends)]
    OBVIOUS
  <2>1. n \in B /\ n.updated_at = moment /\ n.ends = ends /\ (off => n.status = "disabled")
    BY <1>t, <1>s DEF Statuses
  <2>2. /\ b \in DOMAIN bindings /\ moment > bindings[b].updated_at
        /\ off \/ ~Duplicate(n.ends, b)
        /\ used' = used /\ commit_binding(b, n)
    BY <1>2, <2>1 DEF update, ensure_later
  <2>3. used' = used \cup {b} /\ (n.status = "disabled" \/ ~Duplicate(n.ends, b))
    BY <1>t, <2>1, <2>2
  <2> QED
    BY <2>1, <2>2, <2>3, CommitBindingKeeps
<1>3. CASE disable(b)
  <2> PICK n : n = [bindings[b] EXCEPT !.status = "disabled", !.updated_at = moment]
    OBVIOUS
  <2>1. b \in DOMAIN bindings /\ moment > bindings[b].updated_at /\ used' = used /\ commit_binding(b, n)
    BY <1>3 DEF disable, ensure_later
  <2>2. n \in B /\ n.updated_at = moment /\ n.status = "disabled"
    BY <1>t, <2>1 DEF Statuses
  <2>3. used' = used \cup {b}
    BY <1>t, <2>1
  <2> QED
    BY <2>1, <2>2, <2>3, CommitBindingKeeps
<1>4. CASE reconcile(b)
  <2> PICK n : n = [bindings[b] EXCEPT !.status = endpoint_status(bindings[b].ends),
                                       !.updated_at = moment]
    OBVIOUS
  <2>1. /\ b \in DOMAIN bindings /\ moment > bindings[b].updated_at
        /\ used' = used /\ commit_binding(b, n) /\ bindings[b].status # "disabled"
    BY <1>4 DEF reconcile, ensure_later
  <2>2. n \in B /\ n.updated_at = moment /\ n.ends = bindings[b].ends
    BY <1>t, <1>s, <2>1 DEF Statuses
  <2>3. used' = used \cup {b}
    BY <1>t, <2>1
  <2>4. ~Duplicate(n.ends, b)
    BY <2>1, <2>2 DEF RelationsInv, RelationsFollow, Duplicate
  <2> QED
    BY <2>1, <2>2, <2>3, <2>4, CommitBindingKeeps
<1> QED
  BY <1>1, <1>2, <1>3, <1>4

\* A run of a rule (InferenceEngine::run).
LEMMA RunKeeps ==
    ASSUME RelationsInv, NEW rule \in Rules, NEW candidates \in Proposals, run(rule, candidates)
    PROVE  RelationsInv'
<1>p. PICK P : P = {Inferred(rule, c) : c \in candidates}
  OBVIOUS
<1>s. PICK S : S = Stale(rule, P)
  OBVIOUS
<1>r. PICK R : R = Upserted([k \in P |-> "active"], [k \in S |-> "tombstoned"])
  OBVIOUS
<1>t. RelationsTypeOK /\ RelationsAssumption
  BY RelationsAssumption DEF RelationsInv
<1>1. /\ upsert_relations(R) /\ insert_relation_versions(R)
      /\ outputs' = [outputs EXCEPT ![rule] = P]
      /\ moment' = moment /\ lifecycle' = lifecycle /\ bindings' = bindings /\ used' = used
  BY <1>p, <1>s, <1>r DEF run
<1>2. P \subseteq Keys /\ \A k \in P : k.by = rule
  BY <1>p, <1>t DEF RelationsAssumption, Inferred, Keys
<1>3. S \subseteq DOMAIN relations \ P /\ \A k \in S : k.by = rule
  BY <1>s DEF Stale, inferred_relations_for_rule
<1>4. \A k \in DOMAIN relations \ P : k.by = rule /\ k \notin S => relations[k] = "tombstoned"
  BY <1>s DEF Stale, inferred_relations_for_rule
<1>5. /\ DOMAIN R = P \cup S
      /\ \A k \in P : R[k] = "active"
      /\ \A k \in S : R[k] = "tombstoned"
      /\ R \in [DOMAIN R -> RelationLifecycles]
  BY <1>r, <1>3 DEF Upserted, RelationLifecycles
<1>6. DOMAIN R \subseteq Keys /\ \A k \in DOMAIN R : k.by = rule
  BY <1>t, <1>2, <1>3, <1>5 DEF RelationsTypeOK
<1>b. rule \notin BindingIds
  BY <1>t DEF RelationsAssumption
<1>7. /\ relations' \in [DOMAIN relations' -> RelationLifecycles]
      /\ DOMAIN relations' = DOMAIN R \cup DOMAIN relations
      /\ \A k \in DOMAIN R : relations'[k] = R[k]
      /\ \A k \in DOMAIN relations \ DOMAIN R : relations'[k] = relations[k]
  BY <1>t, <1>1, <1>5, RelationsWritten
<1>8. /\ versions' \in [DOMAIN versions' -> [observed_at : Nat, lifecycle : RelationLifecycles]]
      /\ DOMAIN versions' = DOMAIN R \cup DOMAIN versions
      /\ \A k \in DOMAIN versions \ DOMAIN R : versions'[k] = versions[k]
      /\ \A k \in clashed \ DOMAIN R : k \in clashed'
  BY <1>t, <1>1, <1>5, VersionsWritten
<1>9. \A k \in DOMAIN R : versions'[k].lifecycle = R[k] \/ k \in clashed'
  BY <1>t, <1>1, <1>5, VersionsWritten
<1>10. RelationsTypeOK'
  <2>1. DOMAIN relations' \subseteq Keys /\ DOMAIN versions' \subseteq Keys
    BY <1>t, <1>6, <1>7, <1>8 DEF RelationsTypeOK
  <2>2. outputs' \in [Rules -> SUBSET Keys]
    BY <1>t, <1>1, <1>2 DEF RelationsTypeOK
  <2>3. /\ moment' \in Nat
        /\ lifecycle' \in [DOMAIN lifecycle' -> {"active", "tombstoned"}]
        /\ DOMAIN lifecycle' \subseteq Things
        /\ bindings' \in [DOMAIN bindings' -> [ends : Pairs, status : Statuses, updated_at : Nat]]
        /\ DOMAIN bindings' \subseteq used' /\ used' \subseteq BindingIds
    BY <1>t, <1>1 DEF RelationsTypeOK
  <2> QED
    BY <1>7, <1>8, <2>1, <2>2, <2>3 DEF RelationsTypeOK
<1>11. OriginInv'
  BY <1>1, <1>6, <1>7, <1>8, <1>b DEF RelationsInv, OriginInv
<1>12. VersionAgeInv'
  <2> SUFFICES ASSUME NEW k \in DOMAIN versions', k.by \in DOMAIN bindings
               PROVE  versions'[k].observed_at <= bindings[k.by].updated_at
    BY <1>1 DEF VersionAgeInv
  <2>1. k \notin DOMAIN R
    BY <1>t, <1>6, <1>b DEF RelationsTypeOK
  <2> QED
    BY <1>8, <2>1 DEF RelationsInv, VersionAgeInv
<1>13. RelationsFollow'
  <2>1. \A a, c \in DOMAIN bindings' :
           a # c /\ bindings'[a].ends = bindings'[c].ends
             => "disabled" \in {bindings'[a].status, bindings'[c].status}
    BY <1>1 DEF RelationsInv, RelationsFollow
  <2>2. \A o \in DOMAIN bindings' :
           /\ Configured(o, bindings'[o].ends) \in DOMAIN relations'
           /\ \A k \in DOMAIN relations' : k.by = o =>
                 relations'[k] = IF k.ends = bindings'[o].ends
                                   THEN relation_lifecycle(bindings'[o].status)
                                   ELSE "tombstoned"
    <3> TAKE o \in DOMAIN bindings'
    <3>1. o \in DOMAIN bindings /\ o # rule
      BY <1>t, <1>1, <1>b DEF RelationsTypeOK
    <3>2. \A k \in DOMAIN relations' : k.by = o =>
             k \in DOMAIN relations /\ relations'[k] = relations[k]
      BY <1>6, <1>7, <3>1
    <3>3. Configured(o, bindings[o].ends) \in DOMAIN relations
      BY <3>1 DEF RelationsInv, RelationsFollow
    <3> QED
      BY <1>1, <1>7, <3>1, <3>2, <3>3 DEF RelationsInv, RelationsFollow
  <2>3. \A q \in Rules :
           {k \in DOMAIN relations' : k.by = q /\ relations'[k] = "active"} = outputs'[q]
    <3> TAKE q \in Rules
    <3>1. CASE q # rule
      <4>1. outputs'[q] = outputs[q]
        BY <1>t, <1>1, <3>1 DEF RelationsTypeOK
      <4>2. \A k : k \in DOMAIN relations' /\ k.by = q
                     <=> k \in DOMAIN relations /\ k.by = q
        BY <1>6, <1>7, <3>1
      <4>3. \A k \in DOMAIN relations : k.by = q => relations'[k] = relations[k]
        BY <1>6, <1>7, <3>1
      <4>4. {k \in DOMAIN relations : k.by = q /\ relations[k] = "active"} = outputs[q]
        BY DEF RelationsInv, RelationsFollow, inferred_relations_for_rule
      <4> QED
        BY <4>1, <4>2, <4>3, <4>4
    <3>2. CASE q = rule
      <4>1. outputs'[q] = P
        BY <1>t, <1>1, <3>2 DEF RelationsTypeOK
      <4>2. \A k \in P : k \in DOMAIN relations' /\ k.by = q /\ relations'[k] = "active"
        BY <1>2, <1>5, <1>7, <3>2
      <4>3. \A k \in DOMAIN relations' \ P : k.by = q => relations'[k] = "tombstoned"
        BY <1>4, <1>5, <1>7, <3>2
      <4> QED
        BY <4>1, <4>2, <4>3
    <3> QED
      BY <3>1, <3>2
  <2> QED
    BY <2>1, <2>2, <2>3 DEF RelationsFollow, inferred_relations_for_rule, relation_lifecycle
<1>14. VersionsMatch'
  BY <1>6, <1>7, <1>8, <1>9 DEF RelationsInv, VersionsMatch
<1> QED
  BY <1>10, <1>11, <1>12, <1>13, <1>14 DEF RelationsInv

\* A purge of a connection: a binding goes with the relation of its ends, and a
\* relation with its versions and its place in the outputs (purge_connection).
LEMMA PurgeThingsKeeps ==
    ASSUME RelationsInv, NEW c, PurgeThings(c)
    PROVE  RelationsInv'
<1> PICK G : G = PurgedRelations(c)
  OBVIOUS
<1> PICK H : H = PurgedBindings(c)
  OBVIOUS
<1>t. RelationsTypeOK
  BY DEF RelationsInv
<1>1. /\ relations' = Restrict(relations, DOMAIN relations \ G)
      /\ versions' = Restrict(versions, DOMAIN versions \ G)
      /\ outputs' = [r \in Rules |-> outputs[r] \ G]
      /\ bindings' = Restrict(bindings, DOMAIN bindings \ H)
      /\ lifecycle' = Restrict(lifecycle, {r \in Stored : KeptBy[r] # c})
      /\ clashed' = clashed \ G
      /\ moment' = moment /\ used' = used
  BY DEF PurgeThings
<1>2. /\ DOMAIN relations' = DOMAIN relations \ G
      /\ \A k \in DOMAIN relations \ G : relations'[k] = relations[k]
  BY <1>1 DEF Restrict
<1>3. /\ DOMAIN versions' = DOMAIN versions \ G
      /\ \A k \in DOMAIN versions \ G : versions'[k] = versions[k]
  BY <1>1 DEF Restrict
<1>4. /\ DOMAIN bindings' = DOMAIN bindings \ H
      /\ \A b \in DOMAIN bindings \ H : bindings'[b] = bindings[b]
  BY <1>1 DEF Restrict
<1>5. \A b \in DOMAIN bindings \ H : Configured(b, bindings[b].ends) \notin G
  <2> TAKE b \in DOMAIN bindings \ H
  <2>1. Configured(b, bindings[b].ends).ends = bindings[b].ends
    BY DEF Configured
  <2> QED
    BY <2>1 DEF PurgedRelations, PurgedBindings
<1>6. RelationsTypeOK'
  <2>1. relations' \in [DOMAIN relations' -> RelationLifecycles]
    BY <1>t, <1>1, RestrictType DEF RelationsTypeOK
  <2>2. versions' \in [DOMAIN versions' -> [observed_at : Nat, lifecycle : RelationLifecycles]]
    <3> DEFINE V == [observed_at : Nat, lifecycle : RelationLifecycles]
    <3>1. versions \in [DOMAIN versions -> V]
      BY <1>t DEF RelationsTypeOK
    <3> HIDE DEF V
    <3>2. versions' \in [DOMAIN versions' -> V]
      BY <1>1, <3>1, RestrictType
    <3> QED BY <3>2 DEF V
  <2>3. bindings' \in [DOMAIN bindings' -> [ends : Pairs, status : Statuses, updated_at : Nat]]
    <3> DEFINE B == [ends : Pairs, status : Statuses, updated_at : Nat]
    <3>1. bindings \in [DOMAIN bindings -> B]
      BY <1>t DEF RelationsTypeOK
    <3> HIDE DEF B
    <3>2. bindings' \in [DOMAIN bindings' -> B]
      BY <1>1, <3>1, RestrictType
    <3> QED BY <3>2 DEF B
  <2>4. /\ lifecycle' \in [DOMAIN lifecycle' -> {"active", "tombstoned"}]
        /\ DOMAIN lifecycle' \subseteq Things
    BY <1>t, <1>1 DEF RelationsTypeOK, Restrict, Stored
  <2>5. outputs' \in [Rules -> SUBSET Keys]
    BY <1>t, <1>1 DEF RelationsTypeOK
  <2>6. /\ moment' \in Nat /\ DOMAIN bindings' \subseteq used' /\ used' \subseteq BindingIds
        /\ DOMAIN relations' \subseteq Keys /\ DOMAIN versions' \subseteq Keys
    BY <1>t, <1>1, <1>2, <1>3, <1>4 DEF RelationsTypeOK
  <2> QED
    BY <2>1, <2>2, <2>3, <2>4, <2>5, <2>6 DEF RelationsTypeOK
<1>7. OriginInv'
  BY <1>1, <1>2, <1>3 DEF RelationsInv, OriginInv
<1>8. VersionAgeInv'
  BY <1>3, <1>4 DEF RelationsInv, VersionAgeInv
<1>9. RelationsFollow'
  <2>1. \A a, b \in DOMAIN bindings' :
           a # b /\ bindings'[a].ends = bindings'[b].ends
             => "disabled" \in {bindings'[a].status, bindings'[b].status}
    BY <1>4 DEF RelationsInv, RelationsFollow
  <2>2. \A o \in DOMAIN bindings' :
           /\ Configured(o, bindings'[o].ends) \in DOMAIN relations'
           /\ \A k \in DOMAIN relations' : k.by = o =>
                 relations'[k] = IF k.ends = bindings'[o].ends
                                   THEN relation_lifecycle(bindings'[o].status)
                                   ELSE "tombstoned"
    <3> TAKE o \in DOMAIN bindings'
    <3>1. o \in DOMAIN bindings /\ bindings'[o] = bindings[o] /\ o \notin H
      BY <1>4
    <3>2. Configured(o, bindings[o].ends) \in DOMAIN relations
      BY <3>1 DEF RelationsInv, RelationsFollow
    <3>3. Configured(o, bindings[o].ends) \in DOMAIN relations'
      BY <1>2, <1>5, <3>1, <3>2
    <3>4. \A k \in DOMAIN relations' : k \in DOMAIN relations /\ relations'[k] = relations[k]
      BY <1>2
    <3> QED
      BY <3>1, <3>3, <3>4 DEF RelationsInv, RelationsFollow
  <2>3. \A q \in Rules :
           {k \in DOMAIN relations' : k.by = q /\ relations'[k] = "active"} = outputs'[q]
    <3> TAKE q \in Rules
    <3>1. {k \in DOMAIN relations : k.by = q /\ relations[k] = "active"} = outputs[q]
      BY DEF RelationsInv, RelationsFollow, inferred_relations_for_rule
    <3>2. outputs'[q] = outputs[q] \ G
      BY <1>1
    <3> QED
      BY <1>2, <3>1, <3>2
  <2> QED
    BY <2>1, <2>2, <2>3 DEF RelationsFollow, inferred_relations_for_rule, relation_lifecycle
<1>10. VersionsMatch'
  BY <1>1, <1>2, <1>3 DEF RelationsInv, VersionsMatch
<1> QED
  BY <1>6, <1>7, <1>8, <1>9, <1>10 DEF RelationsInv

LEMMA RelationsInitInv == RelationsInit => RelationsInv
<1> SUFFICES ASSUME RelationsInit PROVE RelationsInv
  OBVIOUS
<1>1. RelationsTypeOK
  BY DEF RelationsInit, RelationsTypeOK
<1> QED
  BY <1>1 DEF RelationsInit, RelationsInv, OriginInv, VersionAgeInv, RelationsFollow,
              VersionsMatch, inferred_relations_for_rule

LEMMA RelationsNextInv == RelationsInv /\ [RelationsNext]_relationVars => RelationsInv'
<1> SUFFICES ASSUME RelationsInv, [RelationsNext]_relationVars PROVE RelationsInv'
  OBVIOUS
<1>1. CASE \E b \in BindingIds : \E ends \in Pairs : create(b, ends) \/ update(b, ends)
  BY <1>1, BindingStepKeeps
<1>2. CASE \E b \in BindingIds : disable(b) \/ reconcile(b)
  <2> PICK b \in BindingIds : disable(b) \/ reconcile(b)
    BY <1>2
  <2>1. bindings[b].ends \in Pairs
    BY DEF disable, reconcile, RelationsInv, RelationsTypeOK
  <2> QED
    BY <2>1, BindingStepKeeps
<1>3. CASE \E rule \in Rules, candidates \in Proposals : run(rule, candidates)
  BY <1>3, RunKeeps
<1>4. CASE \E r \in Things : Observe(r)
  <2> PICK r \in Things : Observe(r)
    BY <1>4
  <2>1. UNCHANGED <<moment, bindings, used, relations, versions, outputs, clashed>>
    BY DEF Observe
  <2>2. /\ lifecycle' \in [DOMAIN lifecycle' -> {"active", "tombstoned"}]
        /\ DOMAIN lifecycle' \subseteq Things
    BY DEF Observe, RelationsInv, RelationsTypeOK
  <2>3. RelationsTypeOK'
    BY <2>1, <2>2 DEF RelationsInv, RelationsTypeOK
  <2> QED
    BY <2>1, <2>3 DEF RelationsInv, OriginInv, VersionAgeInv, RelationsFollow, VersionsMatch,
                      inferred_relations_for_rule, relation_lifecycle
<1>5. CASE \E c \in {KeptBy[r] : r \in Things} : PurgeThings(c)
  BY <1>5, PurgeThingsKeeps
<1>6. CASE Pass \/ UNCHANGED relationVars
  <2>1. UNCHANGED <<lifecycle, bindings, used, relations, versions, outputs, clashed>> /\ moment' \in Nat
    BY <1>6 DEF Pass, relationVars, RelationsInv, RelationsTypeOK
  <2>2. RelationsTypeOK'
    BY <2>1 DEF RelationsInv, RelationsTypeOK
  <2> QED
    BY <2>1, <2>2 DEF RelationsInv, OriginInv, VersionAgeInv, RelationsFollow, VersionsMatch,
                      inferred_relations_for_rule, relation_lifecycle
<1> QED
  BY <1>1, <1>2, <1>3, <1>4, <1>5, <1>6 DEF RelationsNext

\* In every state the relations that are kept locally follow the bindings and the
\* last runs of the rules, through every purge: no two enabled bindings say the
\* same, the relation of a binding has the lifecycle of its status, whatever else it
\* ever had is tombstoned, and the active relations of a rule are its last output
\* (BindingService, InferenceEngine::run, purge_connection).
THEOREM RelationsFollowAlways == RelationsSpec => []RelationsFollow
<1>1. RelationsInv => RelationsFollow
  BY DEF RelationsInv
<1> QED
  BY <1>1, RelationsInitInv, RelationsNextInv, PTL DEF RelationsSpec

\* The newest version of a relation shows the lifecycle that it has: no version of a
\* binding's relation is ever ignored, since ensure_later keeps every version of it
\* older than the next change (insert_relation_version).
THEOREM VersionsMatchAlways == RelationsSpec => []VersionsMatch
<1>1. RelationsInv => VersionsMatch
  BY DEF RelationsInv
<1> QED
  BY <1>1, RelationsInitInv, RelationsNextInv, PTL DEF RelationsSpec


-----------------------------------------------------------------------------
(* Induction on the natural numbers, as a fact about sets.                 *)

\* A set of natural numbers that is not empty has a least element.
LEMMA LeastNat ==
    ASSUME NEW T \in SUBSET Nat, T # {}
    PROVE  \E m \in T : \A n \in T : m <= n
<1> DEFINE R == {ss \in Nat \X Nat : ss[1] < ss[2]}
<1>1. IsWellFoundedOn(R, Nat)
  BY NatLessThanWellFounded, Zenon DEF OpToRel
<1>2. \A x, y \in Nat : x < y => <<x, y>> \in R
  OBVIOUS
<1> HIDE DEF R
<1>3. PICK x \in T : \A y \in T : ~ (<<y, x>> \in R)
  BY <1>1, WFMin, Zenon
<1>4. \A y \in T : y \in Nat /\ x \in Nat /\ ~ (y < x)
  BY <1>2, <1>3, Zenon
<1> QED
  BY <1>4

\* A set with zero and the successor of each of its elements has every number.
LEMMA InductionOnNat ==
    ASSUME NEW T \in SUBSET Nat, 0 \in T, \A n \in T : n + 1 \in T
    PROVE  T = Nat
<1> DEFINE M == Nat \ T
<1> SUFFICES ASSUME M # {} PROVE FALSE
  OBVIOUS
<1> HIDE DEF M
<1>1. M \in SUBSET Nat
  BY DEF M
<1>2. PICK m \in M : \A n \in M : m <= n
  BY <1>1, LeastNat
<1>3. m \in Nat /\ m # 0 /\ m \notin T
  BY DEF M
<1>4. m - 1 \in Nat /\ m - 1 \notin M
  BY <1>2, <1>3
<1>5. m - 1 \in T
  BY <1>4 DEF M
<1> QED
  BY <1>3, <1>5

\* What is defined by a first value and a step exists.
LEMMA RecursionOnNat ==
    ASSUME NEW S, NEW s0 \in S, NEW F \in [S -> S]
    PROVE  \E f \in [Nat -> S] : f[0] = s0 /\ \A n \in Nat : f[n + 1] = F[f[n]]
<1> DEFINE Upto(n, g) == g[0] = s0 /\ \A i \in Nat : i < n => g[i + 1] = F[g[i]]
           T == {n \in Nat : \E g \in [Nat -> S] : Upto(n, g)}
<1>1. 0 \in T
  <2>1. [i \in Nat |-> s0] \in [Nat -> S] /\ Upto(0, [i \in Nat |-> s0])
    OBVIOUS
  <2> QED BY <2>1
<1>2. ASSUME NEW n \in T PROVE n + 1 \in T
  <2>1. n \in Nat
    OBVIOUS
  <2>2. PICK g \in [Nat -> S] : Upto(n, g)
    OBVIOUS
  <2> PICK h : h = [g EXCEPT ![n + 1] = F[g[n]]]
    OBVIOUS
  <2>3. h \in [Nat -> S] /\ h[n + 1] = F[g[n]] /\ \A i \in Nat : i # n + 1 => h[i] = g[i]
    BY <2>1, <2>2
  <2>4. Upto(n + 1, h)
    BY <2>1, <2>2, <2>3
  <2>5. \E k \in [Nat -> S] : Upto(n + 1, k)
    <3> HIDE DEF Upto
    <3> QED BY <2>3, <2>4, Zenon
  <2> HIDE DEF Upto
  <2> QED
    BY <2>1, <2>5
<1>3. T = Nat
  <2>1. T \in SUBSET Nat
    OBVIOUS
  <2> HIDE DEF T
  <2> QED BY <1>1, <1>2, <2>1, InductionOnNat
<1>4. \A n \in Nat : \E g \in [Nat -> S] : Upto(n, g)
  BY <1>3
<1>5. ASSUME NEW n \in Nat, NEW m \in Nat, NEW g \in [Nat -> S], NEW h \in [Nat -> S],
             Upto(n, g), Upto(m, h)
      PROVE  \A i \in Nat : i <= n /\ i <= m => g[i] = h[i]
  <2> DEFINE U == {i \in Nat : i <= n /\ i <= m => g[i] = h[i]}
  <2>1. 0 \in U
    BY <1>5
  <2>2. ASSUME NEW i \in U PROVE i + 1 \in U
    BY <1>5, <2>2
  <2>3. U = Nat
    <3>1. U \in SUBSET Nat
      OBVIOUS
    <3> HIDE DEF U
    <3> QED BY <2>1, <2>2, <3>1, InductionOnNat
  <2> QED
    BY <2>3
<1> HIDE DEF Upto
<1> DEFINE G(n) == CHOOSE g \in [Nat -> S] : Upto(n, g)
           f == [n \in Nat |-> G(n)[n]]
<1>6. \A n \in Nat : G(n) \in [Nat -> S] /\ Upto(n, G(n))
  BY <1>4
<1> HIDE DEF G
<1>7. f \in [Nat -> S]
  BY <1>6
<1>8. f[0] = s0
  BY <1>6 DEF Upto
<1>9. ASSUME NEW n \in Nat PROVE f[n + 1] = F[f[n]]
  <2>1. /\ n + 1 \in Nat /\ n < n + 1 /\ n <= n /\ n <= n + 1
    OBVIOUS
  <2>2. f[n + 1] = F[G(n + 1)[n]]
    BY <1>6, <2>1 DEF Upto
  <2>3. G(n)[n] = G(n + 1)[n]
    BY <1>5, <1>6, <2>1
  <2> QED
    BY <2>2, <2>3
<1> QED
  BY <1>7, <1>8, <1>9
-----------------------------------------------------------------------------
(* The resources within a distance of the focus.                           *)

\* The graph is one of relations between resources.
GraphOK ==
    /\ graph \in [DOMAIN graph -> [source : Nodes, target : Nodes]]
    /\ DOMAIN graph \subseteq LinkIds

\* What the recursive definition of Ball says, for every distance.
LEMMA BallUnfolds ==
    ASSUME GraphOK
    PROVE  /\ Ball \in [Nat -> SUBSET Nodes]
           /\ Ball[0] = {Focus}
           /\ \A n \in Nat : Ball[n + 1] = Ball[n] \cup UNION {Ends(r) : r \in Touching(Ball[n])}
<1> DEFINE Grow(X) == X \cup UNION {Ends(r) : r \in Touching(X)}
           F == [X \in SUBSET Nodes |-> Grow(X)]
<1>1. \A r \in DOMAIN graph : Ends(r) \subseteq Nodes
  BY DEF GraphOK, Ends
<1>2. \A X \in SUBSET Nodes : Grow(X) \in SUBSET Nodes
  BY <1>1 DEF Touching
<1> HIDE DEF Grow
<1>3. F \in [SUBSET Nodes -> SUBSET Nodes] /\ {Focus} \in SUBSET Nodes
  BY <1>2, TopologyAssumption DEF TopologyAssumption
<1>4. PICK f \in [Nat -> SUBSET Nodes] : f[0] = {Focus} /\ \A n \in Nat : f[n + 1] = F[f[n]]
  <2>1. PICK S, s0, H : S = SUBSET Nodes /\ s0 = {Focus} /\ H = F
    OBVIOUS
  <2>2. s0 \in S /\ H \in [S -> S]
    BY <1>3, <2>1
  <2>3. \E f \in [Nat -> S] : f[0] = s0 /\ \A n \in Nat : f[n + 1] = H[f[n]]
    BY <2>2, RecursionOnNat
  <2> HIDE DEF F
  <2> QED BY <2>1, <2>3
<1>5. \A n \in Nat : f[n + 1] = Grow(f[n])
  BY <1>4
<1>6. f = [n \in Nat |-> IF n = 0 THEN {Focus} ELSE Grow(f[n - 1])]
  <2>1. \A n \in Nat : n # 0 => n - 1 \in Nat /\ (n - 1) + 1 = n
    OBVIOUS
  <2>2. \A n \in Nat : n # 0 => f[n] = Grow(f[n - 1])
    BY <1>5, <2>1
  <2> QED BY <1>4, <2>2
<1>7. Ball = [n \in Nat |-> IF n = 0 THEN {Focus} ELSE Grow(Ball[n - 1])]
  BY <1>6 DEF Ball, Grow
<1>8. Ball[0] = {Focus} /\ \A n \in Nat : Ball[n + 1] = Grow(Ball[n])
  <2> PICK g : g = Ball
    OBVIOUS
  <2>1. g = [n \in Nat |-> IF n = 0 THEN {Focus} ELSE Grow(g[n - 1])]
    BY <1>7
  <2>2. \A m \in Nat : g[m] = IF m = 0 THEN {Focus} ELSE Grow(g[m - 1])
    BY <2>1, Zenon
  <2>3. \A n \in Nat : n + 1 \in Nat /\ n + 1 # 0 /\ (n + 1) - 1 = n
    OBVIOUS
  <2> QED BY <2>2, <2>3
<1>9. \A n \in Nat : Ball[n] \in SUBSET Nodes
  <2> DEFINE U == {n \in Nat : Ball[n] \in SUBSET Nodes}
  <2>1. 0 \in U
    BY <1>3, <1>8
  <2>2. \A n \in U : n + 1 \in U
    BY <1>2, <1>8
  <2>3. U = Nat
    <3>1. U \in SUBSET Nat
      OBVIOUS
    <3> HIDE DEF U
    <3> QED BY <2>1, <2>2, <3>1, InductionOnNat
  <2> QED BY <2>3
<1>10. Ball = [n \in Nat |-> Ball[n]]
  <2> PICK g : g = Ball
    OBVIOUS
  <2>1. g = [n \in Nat |-> IF n = 0 THEN {Focus} ELSE Grow(g[n - 1])]
    BY <1>7
  <2> QED BY <2>1
<1> QED
  BY <1>8, <1>9, <1>10 DEF Grow
\* A ball has the one before, and both ends of what touches that one.
LEMMA BallGrows ==
    ASSUME GraphOK, NEW n \in Nat
    PROVE  /\ Ball[n] \subseteq Ball[n + 1]
           /\ \A r \in Touching(Ball[n]) : Ends(r) \subseteq Ball[n + 1]
BY BallUnfolds

\* Once nothing is added, nothing ever is.
LEMMA BallStops ==
    ASSUME GraphOK, NEW n \in Nat, Ball[n + 1] = Ball[n], NEW m \in Nat, m >= n
    PROVE  Ball[m] = Ball[n]
<1> DEFINE Grow(X) == X \cup UNION {Ends(r) : r \in Touching(X)}
           U == {k \in Nat : k >= n => Ball[k] = Ball[n]}
<1>1. \A k \in Nat : Ball[k + 1] = Grow(Ball[k])
  BY BallUnfolds
<1> HIDE DEF Grow
<1>2. 0 \in U
  <2>1. 0 >= n => n = 0
    OBVIOUS
  <2> QED BY <2>1
<1>3. ASSUME NEW k \in U PROVE k + 1 \in U
  <2>1. CASE k >= n
    BY <1>1, <2>1
  <2>2. CASE ~(k >= n)
    <3>1. k + 1 >= n => k + 1 = n
      BY <2>2
    <3> QED BY <3>1
  <2> QED
    BY <2>1, <2>2
<1>4. U = Nat
  <2>1. U \in SUBSET Nat
    OBVIOUS
  <2> HIDE DEF U
  <2> QED BY <1>2, <1>3, <2>1, InductionOnNat
<1> QED
  BY <1>4

\* The graph does not change, and neither does what is defined from it.
LEMMA GraphKept ==
    ASSUME graph' = graph
    PROVE  Ball' = Ball /\ GraphOK' = GraphOK /\ (\A r : Ends(r)' = Ends(r))
           /\ (\A S : Touching(S)' = Touching(S))
BY DEF Ball, GraphOK, Ends, Touching

-----------------------------------------------------------------------------
(* The inductive invariant of a topology.                                  *)

\* What the levels before this one have covered, and the relations of this level
\* that are looked at already.
Inner == IF levels = 0 THEN {} ELSE Ball[levels - 1]
Looked == Touching(frontier_ids) \ items

TopologyTypeOK ==
    /\ GraphOK /\ plan \in Plans /\ levels \in Nat
    /\ visited \subseteq Nodes /\ IsFiniteSet(visited)
    /\ frontier_ids \subseteq visited /\ next_frontier \subseteq visited
    /\ edges \subseteq DOMAIN graph /\ items \subseteq Touching(frontier_ids)
    /\ truncated \in BOOLEAN

\* What is offered for a next query was left out for a limit that is reached.
LimitInv ==
    frontier # {} => \/ Cardinality(visited) >= plan.max_nodes
                     \/ Cardinality(edges) >= plan.max_edges

\* Nothing has been left out: a level starts with the ball of its number, of which
\* the frontier is the outermost part; what has been looked at is added.
LevelInv ==
    /\ levels <= plan.depth
    /\ frontier_ids = Ball[levels] \ Inner
    /\ visited = Ball[levels]
    /\ edges = Touching(Inner)

RelationInv ==
    /\ levels < plan.depth
    /\ frontier_ids = Ball[levels] \ Inner
    /\ visited = Ball[levels] \cup UNION {Ends(r) : r \in Looked}
    /\ edges = Touching(Inner) \cup Looked
    /\ next_frontier = visited \ Ball[levels]

ExactInv ==
    ~truncated => /\ phase = "level" => LevelInv
                  /\ phase = "relation" => RelationInv

TopologyInv == TopologyTypeOK /\ LimitInv /\ ExactInv /\ TopologyExact

\* What the code relies on: a level reads relations at its frontier.
LEMMA PageWithin ==
    ASSUME NEW n, NEW S
    PROVE  FirstLinks(n, S) \subseteq S
BY DEF FirstLinks

LEMMA EdgesFinite == TopologyTypeOK => IsFiniteSet(edges) /\ Cardinality(edges) \in Nat
                                       /\ Cardinality(visited) \in Nat
<1> SUFFICES ASSUME TopologyTypeOK PROVE IsFiniteSet(edges) /\ Cardinality(edges) \in Nat
                                         /\ Cardinality(visited) \in Nat
  OBVIOUS
<1>1. edges \subseteq LinkIds /\ IsFiniteSet(LinkIds) /\ IsFiniteSet(visited)
  BY TopologyAssumption DEF TopologyTypeOK, GraphOK, TopologyAssumption
<1>2. IsFiniteSet(edges)
  BY <1>1, FS_Subset
<1> QED
  BY <1>1, <1>2, FS_CardinalityType
\* The limits are counted: an element more is one more.
LEMMA OneMore ==
    ASSUME NEW S, IsFiniteSet(S), NEW x
    PROVE  /\ IsFiniteSet(S \cup {x})
           /\ x \notin S => Cardinality(S \cup {x}) = Cardinality(S) + 1
BY FS_AddElement

\* TopologySound only looks at these.
LEMMA SoundKept ==
    ASSUME TopologySound, truncated \in BOOLEAN, truncated' \in BOOLEAN,
           UNCHANGED <<graph, plan, visited, edges, frontier>>, truncated => truncated'
    PROVE  TopologySound'
BY DEF TopologySound, Ends

-----------------------------------------------------------------------------
(* Every step keeps it.                                                    *)

\* When the frontier is empty the ball has stopped growing, and when the depth is
\* reached it is the one asked for: what there is then is what was asked for.
LEMMA LevelEnds ==
    ASSUME TopologyInv, ~truncated, phase = "level", levels >= plan.depth \/ frontier_ids = {}
    PROVE  visited = Ball[plan.depth] /\ edges = Touching(Ball[plan.depth - 1])
<1>1. GraphOK /\ levels \in Nat /\ plan.depth \in Nat \ {0}
  BY TopologyAssumption DEF TopologyInv, TopologyTypeOK, Plans, TopologyAssumption
<1>2. LevelInv
  BY DEF TopologyInv, ExactInv
<1>3. CASE levels >= plan.depth
  <2>1. levels = plan.depth /\ levels # 0
    BY <1>1, <1>2, <1>3 DEF LevelInv
  <2> QED
    BY <1>2, <2>1 DEF LevelInv, Inner
<1>4. CASE frontier_ids = {}
  <2>1. levels # 0
    <3>1. Ball[0] = {Focus}
      BY <1>1, BallUnfolds
    <3> QED BY <1>2, <1>4, <3>1 DEF LevelInv, Inner
  <2> PICK n \in Nat : n = levels - 1
    BY <1>1, <2>1
  <2>2. levels = n + 1 /\ n <= plan.depth - 1 /\ plan.depth - 1 \in Nat /\ n <= plan.depth
    BY <1>1, <1>2 DEF LevelInv
  <2>3. Ball[n] \subseteq Ball[n + 1]
    BY <1>1, BallGrows
  <2>4. Inner = Ball[n] /\ Ball[n + 1] \subseteq Ball[n]
    BY <1>2, <1>4, <2>1, <2>2 DEF LevelInv, Inner
  <2>5. Ball[n + 1] = Ball[n]
    BY <2>3, <2>4
  <2>6. Ball[plan.depth] = Ball[n]
    BY <1>1, <2>2, <2>5, BallStops
  <2>7. Ball[plan.depth - 1] = Ball[n]
    BY <1>1, <2>2, <2>5, BallStops
  <2> QED
    BY <1>2, <2>2, <2>4, <2>5, <2>6, <2>7 DEF LevelInv
<1> QED
  BY <1>3, <1>4

LEMMA LevelKeeps ==
    ASSUME TopologyInv, Level
    PROVE  TopologyInv'
<1> DEFINE remaining == plan.max_edges - Cardinality(edges)
           read == LevelRelations(remaining)
<1>1. /\ phase = "level" /\ next_frontier' = {}
      /\ UNCHANGED <<graph, plan, visited, frontier_ids, levels, edges, frontier>>
  BY DEF Level
<1>2. /\ Ball' = Ball /\ GraphOK' = GraphOK /\ (\A r : Ends(r)' = Ends(r))
      /\ (\A S : Touching(S)' = Touching(S))
  BY <1>1, GraphKept
<1>3. TopologyTypeOK /\ TopologyExact /\ TopologySound /\ LimitInv /\ ExactInv
  BY DEF TopologyInv, TopologyExact
<1>4. /\ read.items \subseteq Touching(frontier_ids)
      /\ read.more <=> read.items # Touching(frontier_ids)
      /\ read.more \in BOOLEAN
  BY PageWithin DEF LevelRelations
<1> HIDE DEF read, remaining
<1>5. \/ /\ phase' = "done" /\ truncated' = truncated /\ items' = items
         /\ levels >= plan.depth \/ frontier_ids = {}
      \/ phase' = "done" /\ truncated' = TRUE /\ items' = items
      \/ /\ phase' = "relation" /\ truncated' = (truncated \/ read.more) /\ items' = read.items
         /\ ~(levels >= plan.depth)
  BY DEF Level, read, remaining
<1>6. TopologyTypeOK'
  <2>1. items' \subseteq Touching(frontier_ids) /\ truncated' \in BOOLEAN
    BY <1>3, <1>4, <1>5 DEF TopologyTypeOK
  <2> QED
    BY <1>1, <1>2, <1>3, <2>1 DEF TopologyTypeOK, Plans
<1>7. LimitInv'
  BY <1>1, <1>3 DEF LimitInv
<1>8. TopologySound'
  <2>1. truncated \in BOOLEAN /\ truncated' \in BOOLEAN /\ (truncated => truncated')
    BY <1>3, <1>5, <1>6 DEF TopologyTypeOK
  <2> QED
    BY <1>1, <1>3, <2>1, SoundKept
<1>9. ExactInv'
  <2> SUFFICES ASSUME ~truncated', phase' = "relation" PROVE RelationInv'
    BY <1>5 DEF ExactInv
  <2>1. ~truncated /\ ~read.more /\ items' = read.items /\ ~(levels >= plan.depth)
    BY <1>5
  <2>2. LevelInv
    BY <1>1, <1>3, <2>1 DEF ExactInv
  <2>3. Looked' = {} /\ Inner' = Inner
    BY <1>1, <1>2, <1>4, <2>1 DEF Looked, Inner
  <2>4. levels \in Nat /\ plan.depth \in Nat
    BY <1>3, TopologyAssumption DEF TopologyTypeOK, Plans, TopologyAssumption
  <2>5. levels < plan.depth
    BY <2>1, <2>4
  <2> QED
    BY <1>1, <1>2, <2>2, <2>3, <2>5 DEF LevelInv, RelationInv
<1>10. TopologyExact'
  <2> SUFFICES ASSUME phase' = "done", ~truncated'
               PROVE  visited' = Ball'[plan'.depth] /\ edges' = Touching(Ball[plan.depth - 1])'
    BY <1>8 DEF TopologyExact
  <2>1. visited = Ball[plan.depth] /\ edges = Touching(Ball[plan.depth - 1])
    BY <1>1, <1>5, LevelEnds
  <2> QED
    BY <1>1, <1>2, <2>1 DEF Touching, Ends
<1> QED
  BY <1>6, <1>7, <1>9, <1>10 DEF TopologyInv

LEMMA LevelDoneKeeps ==
    ASSUME TopologyInv, LevelDone
    PROVE  TopologyInv'
<1>1. /\ phase = "relation" /\ items = {} /\ phase' = "level"
      /\ frontier_ids' = next_frontier /\ levels' = levels + 1
      /\ UNCHANGED <<graph, plan, visited, edges, frontier, truncated, items, next_frontier>>
  BY DEF LevelDone
<1>2. /\ Ball' = Ball /\ GraphOK' = GraphOK /\ (\A r : Ends(r)' = Ends(r))
      /\ (\A S : Touching(S)' = Touching(S))
  BY <1>1, GraphKept
<1>3. TopologyTypeOK /\ TopologyExact /\ TopologySound /\ LimitInv /\ ExactInv
  BY DEF TopologyInv, TopologyExact
<1>4. TopologyTypeOK'
  BY <1>1, <1>2, <1>3 DEF TopologyTypeOK, Plans
<1>5. LimitInv'
  BY <1>1, <1>3 DEF LimitInv
<1>6. TopologyExact'
  <2>1. TopologySound'
    BY <1>1, <1>3, SoundKept DEF TopologyTypeOK
  <2> QED
    BY <1>1, <2>1 DEF TopologyExact
<1>7. ExactInv'
  <2> SUFFICES ASSUME ~truncated PROVE LevelInv'
    BY <1>1 DEF ExactInv
  <2>1. RelationInv
    BY <1>1, <1>3 DEF ExactInv
  <2>2. levels \in Nat /\ plan.depth \in Nat /\ GraphOK
    BY <1>3, TopologyAssumption DEF TopologyTypeOK, Plans, TopologyAssumption
  <2>3. levels' <= plan'.depth
    BY <1>1, <2>1, <2>2 DEF RelationInv
  <2>4. Inner' = Ball[levels]
    <3>1. levels' # 0 /\ levels' - 1 = levels
      BY <1>1, <2>2
    <3> QED BY <1>2, <3>1 DEF Inner
  <2>5. /\ Ball[levels + 1] = Ball[levels] \cup UNION {Ends(r) : r \in Touching(Ball[levels])}
    BY <2>2, BallUnfolds
  <2>6. Looked = Touching(Ball[levels] \ Inner)
    BY <1>1, <2>1 DEF Looked, RelationInv
  <2>7. Inner \subseteq Ball[levels] /\ \A r \in Touching(Inner) : Ends(r) \subseteq Ball[levels]
    <3>1. CASE levels = 0
      BY <3>1 DEF Inner, Touching
    <3>2. CASE levels # 0
      <4> PICK n \in Nat : n = levels - 1
        BY <2>2, <3>2
      <4>1. levels = n + 1 /\ Inner = Ball[n]
        BY <2>2, <3>2 DEF Inner
      <4> QED BY <2>2, <4>1, BallGrows
    <3> QED BY <3>1, <3>2
  <2>8. Touching(Ball[levels]) = Touching(Inner) \cup Looked
    BY <2>6, <2>7 DEF Touching
  <2>9. visited = Ball[levels + 1]
    BY <2>1, <2>5, <2>7, <2>8 DEF RelationInv
  <2>10. frontier_ids' = Ball[levels + 1] \ Inner'
    BY <1>1, <2>1, <2>4, <2>9 DEF RelationInv
  <2>11. edges' = Touching(Inner)'
    <3>1. Touching(Inner)' = Touching(Ball[levels])
      BY <1>1, <2>4 DEF Touching, Ends
    <3> QED BY <1>1, <2>1, <2>8, <3>1 DEF RelationInv
  <2> QED
    BY <1>1, <1>2, <2>3, <2>9, <2>10, <2>11 DEF LevelInv
<1> QED
  BY <1>4, <1>5, <1>6, <1>7 DEF TopologyInv
LEMMA RelationKeeps ==
    ASSUME TopologyInv, Relation
    PROVE  TopologyInv'
<1>t. TopologyTypeOK /\ TopologyExact /\ TopologySound /\ LimitInv /\ ExactInv
  BY DEF TopologyInv, TopologyExact
<1>p. PICK r : r = CHOOSE x \in items : \A y \in items : x <= y
  OBVIOUS
<1>1. phase = "relation" /\ items # {} /\ items' = items \ {r}
      /\ UNCHANGED <<graph, plan, frontier_ids, levels, phase>>
  BY <1>p DEF Relation
<1>2. r \in items
  <2>1. PICK T : T = items
    OBVIOUS
  <2>2. T \in SUBSET Nat /\ T # {}
    BY <1>t, <1>1, <2>1, TopologyAssumption
       DEF TopologyTypeOK, TopologyAssumption, Touching, GraphOK
  <2>3. \E x \in T : \A y \in T : x <= y
    BY <2>2, LeastNat
  <2> QED BY <1>p, <2>1, <2>3
<1>3. /\ r \in DOMAIN graph /\ r \in Touching(frontier_ids)
      /\ frontier_ids \subseteq visited /\ visited \subseteq Nodes
      /\ graph[r].source \in Nodes /\ graph[r].target \in Nodes
      /\ plan \in Plans /\ plan.max_nodes \in Nat /\ plan.max_edges \in Nat
      /\ IsFiniteSet(visited) /\ IsFiniteSet(edges)
      /\ Cardinality(visited) \in Nat /\ Cardinality(edges) \in Nat
  <2>1. r \in DOMAIN graph /\ r \in Touching(frontier_ids)
    BY <1>t, <1>2 DEF TopologyTypeOK, Touching
  <2>2. graph[r].source \in Nodes /\ graph[r].target \in Nodes
    BY <1>t, <2>1 DEF TopologyTypeOK, GraphOK
  <2>3. plan \in Plans /\ plan.max_nodes \in Nat /\ plan.max_edges \in Nat
    BY <1>t, TopologyAssumption DEF TopologyTypeOK, TopologyAssumption, Plans
  <2> QED BY <1>t, <2>1, <2>2, <2>3, EdgesFinite DEF TopologyTypeOK
<1>n. PICK n : n = Neighbor(r)
  OBVIOUS
<1>4. n.id \in Nodes /\ n.id \in Ends(r) /\ Ends(r) \subseteq frontier_ids \cup {n.id}
  BY <1>3, <1>n DEF Neighbor, Ends, Touching
<1>5. /\ Ball' = Ball /\ GraphOK' = GraphOK /\ (\A q : Ends(q)' = Ends(q))
      /\ (\A S : Touching(S)' = Touching(S))
  BY <1>1, GraphKept
<1> DEFINE noNode == n.id \notin visited /\ Cardinality(visited) >= plan.max_nodes
           noEdge == Cardinality(edges) >= plan.max_edges
           Known == /\ r \in edges
                    /\ UNCHANGED <<visited, edges, frontier, truncated, next_frontier>>
           Full == /\ r \notin edges /\ (noNode \/ noEdge) /\ truncated' = TRUE
                   /\ frontier' = frontier \cup (IF noNode THEN {n} ELSE add_frontier_for_relation(r))
                   /\ UNCHANGED <<visited, edges, next_frontier>>
           Added == /\ r \notin edges /\ ~noNode /\ ~noEdge
                    /\ edges' = edges \cup {r} /\ visited' = visited \cup {n.id}
                    /\ next_frontier' = IF n.id \notin visited THEN next_frontier \cup {n.id}
                                                               ELSE next_frontier
                    /\ UNCHANGED <<frontier, truncated>>
<1>6. Known \/ Full \/ Added
  BY <1>p, <1>n DEF Relation
<1>7. TopologyTypeOK'
  <2>1. items' \subseteq Touching(frontier_ids)
    BY <1>t, <1>1 DEF TopologyTypeOK
  <2>2. /\ visited' \subseteq Nodes /\ IsFiniteSet(visited')
        /\ frontier_ids \subseteq visited' /\ next_frontier' \subseteq visited'
        /\ edges' \subseteq DOMAIN graph /\ truncated' \in BOOLEAN
    <3>1. CASE Known \/ Full
      BY <1>t, <3>1 DEF TopologyTypeOK
    <3>2. CASE Added
      <4>1. IsFiniteSet(visited \cup {n.id})
        BY <1>3, OneMore
      <4> QED BY <1>t, <1>3, <1>4, <3>2, <4>1 DEF TopologyTypeOK
    <3> QED BY <1>6, <3>1, <3>2
  <2> QED
    BY <1>t, <1>1, <1>5, <2>1, <2>2 DEF TopologyTypeOK, Plans
<1>8. CASE Known
  <2>1. LimitInv'
    BY <1>t, <1>1, <1>8 DEF LimitInv
  <2>2. TopologySound'
    BY <1>t, <1>1, <1>8, SoundKept DEF TopologyTypeOK
  <2>3. ExactInv'
    <3> SUFFICES ASSUME ~truncated PROVE RelationInv'
      BY <1>1, <1>8 DEF ExactInv
    <3>1. RelationInv
      BY <1>t, <1>1 DEF ExactInv
    <3>2. Looked' = Looked \cup {r} /\ Inner' = Inner
      BY <1>1, <1>3, <1>5 DEF Looked, Inner
    <3>3. r \in Touching(Inner)
      BY <1>2, <1>8, <3>1 DEF RelationInv, Looked
    <3>4. Ends(r) \subseteq Ball[levels]
      <4>1. levels \in Nat /\ GraphOK
        BY <1>t DEF TopologyTypeOK
      <4>2. levels # 0
        BY <3>3 DEF Inner, Touching
      <4> PICK m \in Nat : m = levels - 1
        BY <4>1, <4>2
      <4>3. levels = m + 1 /\ Inner = Ball[m]
        BY <4>1, <4>2 DEF Inner
      <4> QED BY <3>3, <4>1, <4>3, BallGrows
    <3>5. visited = Ball[levels] \cup UNION {Ends(q) : q \in Looked \cup {r}}
      BY <3>1, <3>4 DEF RelationInv
    <3>6. edges = Touching(Inner) \cup (Looked \cup {r})
      BY <3>1, <3>3 DEF RelationInv
    <3> QED
      BY <1>1, <1>5, <1>8, <3>1, <3>2, <3>5, <3>6 DEF RelationInv
  <2> QED
    BY <1>1, <1>7, <2>1, <2>2, <2>3 DEF TopologyInv, TopologyExact
<1>9. CASE Full
  <2>1. LimitInv'
    BY <1>1, <1>9 DEF LimitInv
  <2>2. \A f \in frontier' : f.id \notin visited'
    BY <1>t, <1>9 DEF TopologySound, add_frontier_for_relation
  <2>3. TopologySound'
    BY <1>t, <1>1, <1>5, <1>9, <2>2 DEF TopologySound
  <2> QED
    BY <1>1, <1>7, <1>9, <2>1, <2>3 DEF TopologyInv, TopologyExact, ExactInv
<1>10. CASE Added
  <2>1. Cardinality(edges') = Cardinality(edges) + 1 /\ Cardinality(edges) < plan.max_edges
    BY <1>3, <1>10, OneMore
  <2>2. /\ Cardinality(visited') <= plan.max_nodes
        /\ Cardinality(visited) >= plan.max_nodes => visited' = visited
    <3>1. CASE n.id \in visited
      <4>1. visited' = visited
        BY <1>10, <3>1
      <4> QED BY <1>t, <4>1 DEF TopologySound
    <3>2. CASE n.id \notin visited
      <4>1. Cardinality(visited') = Cardinality(visited) + 1
        BY <1>3, <1>10, <3>2, OneMore
      <4> QED BY <1>3, <1>10, <3>2, <4>1
    <3> QED BY <3>1, <3>2
  <2>3. frontier # {} => Cardinality(visited) >= plan.max_nodes
    BY <1>t, <1>3, <2>1 DEF LimitInv
  <2>4. LimitInv'
    BY <1>1, <1>10, <2>2, <2>3 DEF LimitInv
  <2>5. TopologySound'
    <3>1. \A f \in frontier' : f.id \notin visited'
      BY <1>t, <1>10, <2>2, <2>3 DEF TopologySound
    <3>2. \A q \in edges' : Ends(q)' \subseteq visited'
      BY <1>t, <1>3, <1>4, <1>5, <1>10 DEF TopologySound
    <3>3. Cardinality(edges') <= plan.max_edges
      BY <1>3, <2>1
    <3> QED BY <1>t, <1>1, <1>10, <2>2, <3>1, <3>2, <3>3 DEF TopologySound
  <2>6. ExactInv'
    <3> SUFFICES ASSUME ~truncated PROVE RelationInv'
      BY <1>1, <1>10 DEF ExactInv
    <3>1. RelationInv
      BY <1>t, <1>1 DEF ExactInv
    <3>2. Looked' = Looked \cup {r} /\ Inner' = Inner
      BY <1>1, <1>3, <1>5 DEF Looked, Inner
    <3>3. frontier_ids \subseteq Ball[levels]
      BY <3>1 DEF RelationInv
    <3>4. visited' = Ball[levels] \cup UNION {Ends(q) : q \in Looked \cup {r}}
      BY <1>4, <1>10, <3>1, <3>3 DEF RelationInv
    <3>5. edges' = Touching(Inner) \cup (Looked \cup {r})
      BY <1>10, <3>1 DEF RelationInv
    <3>6. next_frontier' = visited' \ Ball[levels]
      BY <1>10, <3>1 DEF RelationInv
    <3> QED
      BY <1>1, <1>5, <3>1, <3>2, <3>4, <3>5, <3>6 DEF RelationInv
  <2> QED
    BY <1>1, <1>7, <2>4, <2>5, <2>6 DEF TopologyInv, TopologyExact
<1> QED
  BY <1>6, <1>8, <1>9, <1>10

LEMMA TopologyInitInv == TopologyInit => TopologyInv
<1> SUFFICES ASSUME TopologyInit PROVE TopologyInv
  OBVIOUS
<1>1. GraphOK
  BY DEF TopologyInit, GraphOK
<1>2. /\ plan \in Plans /\ visited = {Focus} /\ frontier_ids = {Focus} /\ levels = 0
      /\ edges = {} /\ frontier = {} /\ truncated = FALSE
      /\ items = {} /\ next_frontier = {} /\ phase = "level"
  BY DEF TopologyInit
<1>3. Focus \in Nodes /\ plan.depth \in Nat /\ plan.max_nodes \in Nat \ {0} /\ plan.max_edges \in Nat
  BY <1>2, TopologyAssumption DEF TopologyAssumption, Plans
<1>4. /\ IsFiniteSet(visited) /\ Cardinality(visited) = 1 /\ Cardinality(edges) = 0
  BY <1>2, FS_Singleton, FS_EmptySet
<1>5. TopologyTypeOK
  BY <1>1, <1>2, <1>3, <1>4 DEF TopologyTypeOK, Touching
<1>6. TopologySound
  BY <1>2, <1>3, <1>4 DEF TopologySound
<1>7. LevelInv
  <2>1. Ball[0] = {Focus}
    BY <1>1, BallUnfolds
  <2>2. Inner = {} /\ Touching({}) = {}
    BY <1>2 DEF Inner, Touching
  <2> QED BY <1>2, <1>3, <2>1, <2>2 DEF LevelInv
<1> QED
  BY <1>2, <1>5, <1>6, <1>7 DEF TopologyInv, TopologyExact, ExactInv, LimitInv

LEMMA TopologyNextInv == TopologyInv /\ [TopologyNext]_topologyVars => TopologyInv'
<1> SUFFICES ASSUME TopologyInv, [TopologyNext]_topologyVars PROVE TopologyInv'
  OBVIOUS
<1>1. CASE UNCHANGED topologyVars
  <2>1. /\ Ball' = Ball /\ GraphOK' = GraphOK /\ (\A r : Ends(r)' = Ends(r))
        /\ (\A S : Touching(S)' = Touching(S))
    BY <1>1, GraphKept DEF topologyVars
  <2>2. UNCHANGED <<graph, plan, visited, frontier_ids, levels, edges, frontier, truncated,
                    items, next_frontier, phase>>
    BY <1>1 DEF topologyVars
  <2>3. TopologyTypeOK' /\ LimitInv' /\ TopologySound'
    BY <2>1, <2>2, SoundKept
       DEF TopologyInv, TopologyTypeOK, LimitInv, TopologyExact, Plans
  <2>4. Inner' = Inner /\ Looked' = Looked
    BY <2>1, <2>2 DEF Inner, Looked
  <2>5. LevelInv' = LevelInv /\ RelationInv' = RelationInv
    BY <2>1, <2>2, <2>4 DEF LevelInv, RelationInv
  <2>6. ExactInv'
    BY <2>2, <2>5 DEF TopologyInv, ExactInv
  <2> QED
    BY <2>1, <2>2, <2>3, <2>6 DEF TopologyInv, TopologyExact
<1> QED
  BY <1>1, LevelKeeps, LevelDoneKeeps, RelationKeeps DEF TopologyNext

\* A topology keeps its limits, has both ends of its edges and offers for a next
\* query only what it does not have; and one that is not marked as truncated has
\* exactly the resources within the depth of the focus and every relation at one
\* that is nearer, for every graph, depth and limits (build_topology).
THEOREM TopologyExactAlways == TopologySpec => []TopologyExact
<1>1. TopologyInv => TopologyExact
  BY DEF TopologyInv
<1> QED
  BY <1>1, TopologyInitInv, TopologyNextInv, PTL DEF TopologySpec


-----------------------------------------------------------------------------
(* The order of the rows, and pages of a finite set of them.               *)

\* The keys of a listing.
KeysOf(kind) == IF kind \in {"changes", "timeline"} THEN Nat \X Nat ELSE {<<n>> : n \in Nat}

\* The rows before a row.
Earlier(kind, S, x) == {y \in S : Before(kind, y, x)}

\* The rows are in a strict total order (the ORDER BY of the statements ends with
\* the key).
LEMMA BeforeOrder ==
    ASSUME NEW kind, NEW x \in KeysOf(kind), NEW y \in KeysOf(kind), NEW z \in KeysOf(kind)
    PROVE  /\ ~Before(kind, x, x)
           /\ Before(kind, x, y) /\ Before(kind, y, z) => Before(kind, x, z)
           /\ x = y \/ Before(kind, x, y) \/ Before(kind, y, x)
<1>1. CASE kind \in {"changes", "timeline"}
  BY <1>1 DEF KeysOf, Before
<1>2. CASE kind \notin {"changes", "timeline"}
  BY <1>2 DEF KeysOf, Before
<1> QED
  BY <1>1, <1>2

LEMMA NoKeyIsNone ==
    ASSUME NEW kind
    PROVE  NoKey \notin KeysOf(kind)
<1>1. \A a, b \in Nat : <<a, b>> # <<>> /\ <<a>> # <<>>
  OBVIOUS
<1>2. \A x \in Nat \X Nat : \E a, b \in Nat : x = <<a, b>>
  OBVIOUS
<1> QED
  BY <1>1, <1>2 DEF KeysOf, NoKey

\* A row has more rows before it than a row before it has.
LEMMA FewerEarlier ==
    ASSUME NEW kind, NEW S, IsFiniteSet(S), S \subseteq KeysOf(kind),
           NEW x \in S, NEW y \in S
    PROVE  /\ Cardinality(Earlier(kind, S, x)) \in Nat
           /\ IsFiniteSet(Earlier(kind, S, x))
           /\ Cardinality(Earlier(kind, S, x)) <= Cardinality(S)
           /\ Before(kind, x, y) =>
                 Cardinality(Earlier(kind, S, x)) < Cardinality(Earlier(kind, S, y))
<1>1. PICK A, B : A = Earlier(kind, S, x) /\ B = Earlier(kind, S, y)
  OBVIOUS
<1>2. A \in SUBSET S /\ B \in SUBSET S
  BY <1>1 DEF Earlier
<1>3. /\ IsFiniteSet(A) /\ Cardinality(A) \in Nat /\ Cardinality(A) <= Cardinality(S)
      /\ IsFiniteSet(B) /\ Cardinality(B) \in Nat
  BY <1>2, FS_Subset, FS_CardinalityType
<1>4. ASSUME Before(kind, x, y) PROVE Cardinality(A) < Cardinality(B)
  <2>1. A \in SUBSET B /\ x \in B /\ x \notin A
    BY <1>1, <1>4, BeforeOrder DEF Earlier
  <2>2. Cardinality(A) <= Cardinality(B) /\ Cardinality(A) # Cardinality(B)
    BY <1>3, <2>1, FS_Subset
  <2> QED BY <1>3, <2>2
<1> QED
  BY <1>1, <1>3, <1>4

\* A page that is not empty has a last row.
LEMMA LastExists ==
    ASSUME NEW kind, NEW S, IsFiniteSet(S), S \subseteq KeysOf(kind), S # {}
    PROVE  /\ LastOf(kind, S) \in S
           /\ \A y \in S : y = LastOf(kind, S) \/ Before(kind, y, LastOf(kind, S))
<1> DEFINE left(x) == Cardinality(S) - Cardinality(Earlier(kind, S, x))
           T == {left(x) : x \in S}
<1>1. Cardinality(S) \in Nat
  BY FS_CardinalityType
<1>2. \A x \in S : left(x) \in Nat
  BY <1>1, FewerEarlier
<1>3. T \in SUBSET Nat /\ T # {}
  BY <1>2
<1>4. PICK m \in T : \A n \in T : m <= n
  <2> HIDE DEF T
  <2> QED BY <1>3, LeastNat
<1>5. PICK x \in S : m = left(x)
  OBVIOUS
<1>6. \A y \in S : y = x \/ Before(kind, y, x)
  <2> SUFFICES ASSUME NEW y \in S, y # x, ~Before(kind, y, x) PROVE FALSE
    OBVIOUS
  <2>1. Before(kind, x, y)
    BY BeforeOrder
  <2>2. Cardinality(Earlier(kind, S, x)) < Cardinality(Earlier(kind, S, y))
    BY <2>1, FewerEarlier
  <2>3. left(x) <= left(y)
    BY <1>4, <1>5
  <2>4. Cardinality(Earlier(kind, S, x)) \in Nat /\ Cardinality(Earlier(kind, S, y)) \in Nat
    BY FewerEarlier
  <2> QED
    BY <1>1, <2>2, <2>3, <2>4
<1> QED
  BY <1>6 DEF LastOf

\* The first rows are before the others.
LEMMA FirstBefore ==
    ASSUME NEW kind, NEW S, IsFiniteSet(S), S \subseteq KeysOf(kind), NEW n \in Nat,
           NEW x \in S, x \notin FirstOf(kind, n, S), NEW y \in FirstOf(kind, n, S)
    PROVE  y \in S /\ Before(kind, y, x)
<1>1. /\ y \in S /\ x # y
      /\ Cardinality(Earlier(kind, S, y)) < n
      /\ ~(Cardinality(Earlier(kind, S, x)) < n)
  BY DEF FirstOf, Earlier
<1>2. /\ Cardinality(Earlier(kind, S, y)) \in Nat /\ Cardinality(Earlier(kind, S, x)) \in Nat
      /\ Before(kind, x, y) =>
            Cardinality(Earlier(kind, S, x)) < Cardinality(Earlier(kind, S, y))
  BY <1>1, FewerEarlier
<1>3. ~Before(kind, x, y)
  BY <1>1, <1>2
<1> QED
  BY <1>1, <1>3, BeforeOrder

\* There is a first row.
LEMMA FirstExists ==
    ASSUME NEW kind, NEW S, IsFiniteSet(S), S \subseteq KeysOf(kind), S # {},
           NEW n \in Nat \ {0}
    PROVE  FirstOf(kind, n, S) # {}
<1> DEFINE size(x) == Cardinality(Earlier(kind, S, x))
           T == {size(x) : x \in S}
<1>1. \A x \in S : size(x) \in Nat /\ IsFiniteSet(Earlier(kind, S, x))
  BY FewerEarlier
<1>2. T \in SUBSET Nat /\ T # {}
  BY <1>1
<1>3. PICK m \in T : \A k \in T : m <= k
  <2> HIDE DEF T
  <2> QED BY <1>2, LeastNat
<1>4. PICK x \in S : m = size(x)
  OBVIOUS
<1>5. Earlier(kind, S, x) = {}
  <2> SUFFICES ASSUME NEW y \in Earlier(kind, S, x) PROVE FALSE
    OBVIOUS
  <2>1. y \in S /\ Before(kind, y, x)
    BY DEF Earlier
  <2>2. size(y) < size(x) /\ size(x) <= size(y)
    BY <1>3, <1>4, <2>1, FewerEarlier
  <2>3. size(y) \in Nat /\ size(x) \in Nat
    BY <1>1, <2>1
  <2> QED BY <2>2, <2>3
<1>6. size(x) = 0
  BY <1>5, FS_EmptySet
<1>7. x \in FirstOf(kind, n, S)
  BY <1>6 DEF FirstOf, Earlier
<1> QED
  BY <1>7

\* The first of the first rows are the first rows.
LEMMA FirstOfFirst ==
    ASSUME NEW kind, NEW S, IsFiniteSet(S), S \subseteq KeysOf(kind), NEW n \in Nat
    PROVE  FirstOf(kind, n, FirstOf(kind, n + 1, S)) = FirstOf(kind, n, S)
<1> PICK Q : Q = FirstOf(kind, n + 1, S)
  OBVIOUS
<1>1. \A x \in S : Cardinality(Earlier(kind, S, x)) \in Nat
  BY FewerEarlier
<1>2. Q \subseteq S /\ FirstOf(kind, n, S) \subseteq Q
  BY <1>1 DEF FirstOf, Earlier
<1>3. ASSUME NEW x \in Q PROVE Earlier(kind, Q, x) = Earlier(kind, S, x)
  <2>1. x \in S /\ Cardinality(Earlier(kind, S, x)) < n + 1
    BY <1>2 DEF FirstOf, Earlier
  <2>2. ASSUME NEW y \in Earlier(kind, S, x) PROVE y \in Q
    <3>1. y \in S /\ Before(kind, y, x)
      BY <2>2 DEF Earlier
    <3>2. Cardinality(Earlier(kind, S, y)) < Cardinality(Earlier(kind, S, x))
      BY <2>1, <3>1, FewerEarlier
    <3>3. Cardinality(Earlier(kind, S, y)) < n + 1
      BY <1>1, <2>1, <3>1, <3>2
    <3> QED BY <3>1, <3>3 DEF FirstOf, Earlier
  <2> QED
    BY <1>2, <2>2 DEF Earlier
<1> QED
  BY <1>2, <1>3 DEF FirstOf, Earlier

\* When one row more adds nothing, there are no more.
LEMMA FirstAll ==
    ASSUME NEW kind, NEW S, IsFiniteSet(S), S \subseteq KeysOf(kind), NEW n \in Nat,
           FirstOf(kind, n, S) = FirstOf(kind, n + 1, S)
    PROVE  FirstOf(kind, n, S) = S
<1> PICK Q : Q = FirstOf(kind, n, S)
  OBVIOUS
<1> DEFINE size(x) == Cardinality(Earlier(kind, S, x))
           T == {size(x) : x \in S \ Q}
<1>1. \A x \in S : size(x) \in Nat /\ IsFiniteSet(Earlier(kind, S, x))
  BY FewerEarlier
<1>2. \A x \in S : x \in Q <=> size(x) < n
  BY DEF FirstOf, Earlier
<1>3. \A x \in S : x \in Q <=> size(x) < n + 1
  BY DEF FirstOf, Earlier
<1>4. Q \subseteq S
  BY DEF FirstOf
<1> SUFFICES ASSUME S \ Q # {} PROVE FALSE
  BY <1>4
<1>5. T \in SUBSET Nat /\ T # {}
  BY <1>1
<1>6. PICK m \in T : \A k \in T : m <= k
  <2> HIDE DEF T
  <2> QED BY <1>5, LeastNat
<1>7. PICK x \in S \ Q : m = size(x)
  OBVIOUS
<1>8. m \in Nat /\ m > n
  BY <1>1, <1>2, <1>3, <1>7
<1>9. PICK E : E = Earlier(kind, S, x)
  OBVIOUS
<1>10. IsFiniteSet(E) /\ E \subseteq S /\ Cardinality(E) = m /\ E \subseteq KeysOf(kind)
  BY <1>1, <1>7, <1>9 DEF Earlier
<1>11. E # {}
  BY <1>8, <1>10, FS_EmptySet
<1>12. PICK z : z = LastOf(kind, E)
  OBVIOUS
<1>13. z \in E /\ \A y \in E : y = z \/ Before(kind, y, z)
  BY <1>10, <1>11, <1>12, LastExists
<1>14. Earlier(kind, S, z) = E \ {z}
  <2>1. z \in S /\ Before(kind, z, x)
    BY <1>9, <1>13 DEF Earlier
  <2>2. \A y \in S : Before(kind, y, z) => Before(kind, y, x) /\ y # z
    BY <2>1, BeforeOrder
  <2> QED BY <1>9, <1>13, <2>1, <2>2 DEF Earlier
<1>15. size(z) = m - 1
  BY <1>10, <1>13, <1>14, FS_RemoveElement
<1>16. z \in S \ Q
  BY <1>2, <1>8, <1>10, <1>13, <1>15
<1>17. m <= size(z)
  BY <1>6, <1>16
<1> QED
  BY <1>8, <1>15, <1>17

\* What a page is: the first rows; without a cursor they are all, and with one it is
\* the last of them and every other row comes after it (read_resource_page,
\* read_relations_for_resources, read_recent_changes).
LEMMA PageIs ==
    ASSUME NEW kind, NEW S, IsFiniteSet(S), S \subseteq KeysOf(kind)
    PROVE  /\ Page(kind, S).items \subseteq S
           /\ Page(kind, S).next_after = NoKey => Page(kind, S).items = S
           /\ Page(kind, S).next_after # NoKey =>
                 /\ Page(kind, S).next_after \in Page(kind, S).items
                 /\ \A y \in Page(kind, S).items :
                       y = Page(kind, S).next_after \/ Before(kind, y, Page(kind, S).next_after)
                 /\ \A x \in S \ Page(kind, S).items : Before(kind, Page(kind, S).next_after, x)
<1>1. PageLimit \in Nat /\ PageLimit \in Nat \ {0}
  BY QueryAssumption DEF QueryAssumption
<1>2. PICK Q, A : Q = FirstOf(kind, PageLimit + 1, S) /\ A = FirstOf(kind, PageLimit, Q)
  OBVIOUS
<1>3. A = FirstOf(kind, PageLimit, S)
  BY <1>1, <1>2, FirstOfFirst
<1>4. /\ Page(kind, S).items = A
      /\ Page(kind, S).next_after = IF A # Q THEN LastOf(kind, A) ELSE NoKey
  BY <1>2 DEF Page
<1>5. A \in SUBSET S /\ A \subseteq KeysOf(kind) /\ IsFiniteSet(A)
  <2>1. A \in SUBSET S
    BY <1>3 DEF FirstOf
  <2> QED BY <2>1, FS_Subset
<1>6. CASE A = Q
  <2>1. FirstOf(kind, PageLimit, S) = FirstOf(kind, PageLimit + 1, S)
    BY <1>2, <1>3, <1>6
  <2>2. A = S
    BY <1>1, <1>3, <2>1, FirstAll
  <2> QED BY <1>4, <1>6, <2>2
<1>7. CASE A # Q
  <2>1. A # {}
    <3>1. S # {}
      BY <1>2, <1>5, <1>7 DEF FirstOf
    <3> QED BY <1>1, <1>3, <3>1, FirstExists
  <2>2. PICK z : z = LastOf(kind, A)
    OBVIOUS
  <2>3. z \in A /\ \A y \in A : y = z \/ Before(kind, y, z)
    BY <1>5, <2>1, <2>2, LastExists
  <2>4. z # NoKey
    BY <1>5, <2>3, NoKeyIsNone
  <2>5. \A x \in S \ A : Before(kind, z, x)
    BY <1>1, <1>3, <2>3, FirstBefore
  <2> QED
    BY <1>4, <1>5, <1>7, <2>2, <2>3, <2>4, <2>5
<1> QED
  BY <1>6, <1>7
-----------------------------------------------------------------------------
(* The inductive invariant of a listing.                                   *)

\* What the store has.
StoreOK ==
    /\ now \in Nat /\ committed \in Nat
    /\ links \subseteq Links
    /\ changes \subseteq Nat \X Resources /\ IsFiniteSet(changes)

ReaderOK ==
    /\ DOMAIN reader = {"pc", "kind", "filter", "about", "context", "after", "got", "stable",
                        "twice", "version", "whole"}
    /\ reader.kind \in Paged \cup Single
    /\ reader.kind \in Single => reader.stable = {}

\* A listing is under way.
Listing == reader.kind \in Paged /\ reader.pc \in {"asked", "paging"}

\* Before the first page there is nothing.  Then what there is ends at the cursor,
\* and whatever was there at every page is there or comes after the cursor.
CursorInv ==
    /\ Listing /\ reader.after = NoKey =>
          reader.got = {} /\ reader.stable = {} /\ reader.version = <<>>
    /\ Listing /\ reader.after # NoKey =>
          /\ reader.after \in KeysOf(reader.kind)
          /\ reader.got \subseteq KeysOf(reader.kind)
          /\ \A x \in reader.got : x = reader.after \/ Before(reader.kind, x, reader.after)
          /\ \A x \in reader.stable : x \in reader.got \/ Before(reader.kind, reader.after, x)

\* The relations up to the cursor, as the store has them; as long as the version is
\* the same they are what the client has.
UpTo(key) == {k \in read_relations_for_resources : k = key \/ Before("relations", k, key)}

VersionInv ==
    Listing /\ reader.kind = "relations" /\ reader.after # NoKey =>
        /\ reader.version # <<>>
        /\ reader.version[1] \in Nat /\ reader.version[1] <= committed
        /\ reader.version[1] = committed => reader.got = UpTo(reader.after)

PagingInv == StoreOK /\ ReaderOK /\ CursorInv /\ VersionInv /\ Paging

\* What one writes for each element of a finite set is finite.
LEMMA FiniteImage ==
    ASSUME NEW S, IsFiniteSet(S), NEW f, DOMAIN f = S
    PROVE  IsFiniteSet({f[x] : x \in S})
<1>1. PICK T : T = {f[x] : x \in S}
  OBVIOUS
<1>2. PICK g : g = [x \in S |-> f[x]]
  OBVIOUS
<1>3. g \in Surjection(S, T)
  BY <1>1, <1>2 DEF Surjection
<1> QED
  BY <1>1, <1>3, FS_Surjection

\* The rows of a listing are finitely many keys.
LEMMA RowsAreKeys ==
    ASSUME StoreOK, ReaderOK, answer(reader).is = "page"
    PROVE  /\ reader.kind \in Paged
           /\ IsFiniteSet(answer(reader).body)
           /\ answer(reader).body \subseteq KeysOf(reader.kind)
           /\ reader.kind = "relations" => answer(reader).body = read_relations_for_resources
<1>0. /\ IsFiniteSet(Resources) /\ IsFiniteSet(Links) /\ Resources \subseteq Nat /\ Links \subseteq Nat
  BY QueryAssumption DEF QueryAssumption
<1>a. ASSUME NEW P, P \subseteq Nat, IsFiniteSet(P)
      PROVE  IsFiniteSet({<<r>> : r \in P}) /\ {<<r>> : r \in P} \subseteq {<<n>> : n \in Nat}
  <2>1. PICK f : f = [r \in P |-> <<r>>]
    OBVIOUS
  <2>2. IsFiniteSet({f[r] : r \in P})
    <3>1. DOMAIN f = P
      BY <2>1
    <3> QED BY <1>a, <3>1, FiniteImage
  <2>3. {f[r] : r \in P} = {<<r>> : r \in P}
    BY <2>1
  <2> QED BY <1>a, <2>2, <2>3
<1>1. CASE reader.kind = "search"
  <2>1. PICK P : P = {p \in Present : push_freshness_filter(reader, p)}
    OBVIOUS
  <2>2. P \in SUBSET Resources
    BY <2>1 DEF Present
  <2>3. P \subseteq Nat /\ IsFiniteSet(P)
    BY <1>0, <2>2, FS_Subset
  <2>4. answer(reader).body = {<<r>> : r \in P}
    BY <1>1, <2>1 DEF answer, search_resources, Listed, Unavailable, read_resource_page
  <2> QED BY <1>1, <1>a, <2>3, <2>4 DEF KeysOf, Paged
<1>2. CASE reader.kind = "relations"
  <2>1. links \subseteq Nat /\ links \in SUBSET Links
    BY <1>0 DEF StoreOK
  <2>2. IsFiniteSet(links)
    BY <1>0, <2>1, FS_Subset
  <2>3. answer(reader).body = {<<l>> : l \in links}
    BY <1>2 DEF answer, get_relations_for_resources, Listed, read_relations_for_resources
  <2>4. PICK P : P = links
    OBVIOUS
  <2>5. IsFiniteSet({<<r>> : r \in P}) /\ {<<r>> : r \in P} \subseteq {<<n>> : n \in Nat}
    BY <1>a, <2>1, <2>2, <2>4
  <2> QED BY <1>2, <2>3, <2>4, <2>5 DEF KeysOf, Paged, read_relations_for_resources
<1>3. CASE reader.kind \in {"changes", "timeline"}
  <2>1. answer(reader).body = changes
    BY <1>3 DEF answer, get_recent_changes, get_timeline, Listed, read_recent_changes
  <2> QED BY <1>0, <1>3, <2>1 DEF KeysOf, Paged, StoreOK
<1>4. CASE reader.kind \in Single
  <2>1. answer(reader).is # "page"
    BY <1>4 DEF answer, Single, get_resource, resource_detail_body, get_health_summary,
                get_sync_status, list_connections, Answered, Unavailable, Missing
  <2> QED BY <2>1
<1> QED
  BY <1>1, <1>2, <1>3, <1>4 DEF ReaderOK, Paged
\* A page of a listing: nothing on it is there already, it closes the gap up to the
\* new cursor, and without one nothing is left.
LEMMA TakePageKeeps ==
    ASSUME PagingInv, reader.pc = "asked", reader.kind \in Paged,
           NEW R, IsFiniteSet(R), R \subseteq KeysOf(reader.kind),
           reader.kind = "relations" => R = read_relations_for_resources,
           reader' = TakePage(reader, R), UNCHANGED <<now, storeVars, snapshot>>
    PROVE  PagingInv'
<1>1. PICK kind, after : kind = reader.kind /\ after = reader.after
  OBVIOUS
<1>2. PICK S : S = {x \in R : after = NoKey \/ Before(kind, after, x)}
  OBVIOUS
<1>3. PICK A, next : A = Page(kind, S).items /\ next = Page(kind, S).next_after
  OBVIOUS
<1>t. StoreOK /\ ReaderOK /\ CursorInv /\ VersionInv /\ Paging
  BY DEF PagingInv
<1>s. UNCHANGED <<now, stored, seen, links, changes, committed, snapshot>>
  BY DEF storeVars
<1>4. S \in SUBSET R /\ S \subseteq KeysOf(kind) /\ IsFiniteSet(S)
  <2>1. S \in SUBSET R
    BY <1>2
  <2> QED BY <1>1, <2>1, FS_Subset
<1>5. /\ A \subseteq S
      /\ next = NoKey => A = S
      /\ next # NoKey => /\ next \in A
                         /\ \A y \in A : y = next \/ Before(kind, y, next)
                         /\ \A x \in S \ A : Before(kind, next, x)
  BY <1>3, <1>4, PageIs
<1>6. Listing
  BY DEF Listing
<1>7. /\ after = NoKey => reader.got = {} /\ reader.stable = {} /\ reader.version = <<>>
      /\ after # NoKey =>
            /\ after \in KeysOf(kind) /\ reader.got \subseteq KeysOf(kind)
            /\ \A x \in reader.got : x = after \/ Before(kind, x, after)
            /\ \A x \in reader.stable : x \in reader.got \/ Before(kind, after, x)
  BY <1>1, <1>t, <1>6 DEF CursorInv
<1>8. A \cap reader.got = {}
  <2> SUFFICES ASSUME NEW x \in A, x \in reader.got PROVE FALSE
    OBVIOUS
  <2>1. after # NoKey /\ Before(kind, after, x) /\ x \in KeysOf(kind)
    BY <1>2, <1>4, <1>5, <1>7
  <2>2. x = after \/ Before(kind, x, after)
    BY <1>7, <2>1
  <2> QED BY <1>7, <2>1, <2>2, BeforeOrder
<1>9. reader' = IF kind = "relations" /\ reader.version \notin {<<>>, metadata(reader)}
                  THEN [reader EXCEPT !.pc = "failed"]
                  ELSE [reader EXCEPT !.pc = IF next = NoKey THEN "done" ELSE "paging",
                                      !.after = next, !.got = reader.got \cup A,
                                      !.stable = IF after = NoKey THEN R ELSE reader.stable \cap R,
                                      !.twice = reader.twice \/ A \cap reader.got # {},
                                      !.version = metadata(reader),
                                      !.whole = (reader.got \cup A = R)]
  BY <1>1, <1>2, <1>3 DEF TakePage
<1>10. StoreOK'
  BY <1>t, <1>s DEF StoreOK
<1>11. ~reader.twice /\ kind \in Paged \cup Single /\ kind \notin Single
  BY <1>1, <1>t DEF Paging, Paged, Single
<1>12. CASE kind = "relations" /\ reader.version \notin {<<>>, metadata(reader)}
  <2>1. reader' = [reader EXCEPT !.pc = "failed"]
    BY <1>9, <1>12
  <2>2. /\ DOMAIN reader' = DOMAIN reader /\ reader'.pc = "failed" /\ reader'.kind = reader.kind
        /\ reader'.twice = reader.twice /\ reader'.stable = reader.stable
    BY <1>t, <2>1 DEF ReaderOK
  <2>3. ReaderOK' /\ Paging'
    BY <1>t, <2>2 DEF ReaderOK, Paging
  <2>4. ~Listing'
    BY <2>2 DEF Listing
  <2> QED
    BY <1>10, <2>3, <2>4 DEF PagingInv, CursorInv, VersionInv
<1>13. CASE ~(kind = "relations" /\ reader.version \notin {<<>>, metadata(reader)})
  <2>1. /\ DOMAIN reader' = DOMAIN reader /\ reader'.kind = kind
        /\ reader'.pc = (IF next = NoKey THEN "done" ELSE "paging")
        /\ reader'.after = next /\ reader'.got = reader.got \cup A
        /\ reader'.stable = (IF after = NoKey THEN R ELSE reader.stable \cap R)
        /\ reader'.twice = (reader.twice \/ A \cap reader.got # {})
        /\ reader'.version = metadata(reader)
        /\ reader'.whole = (reader.got \cup A = R)
    BY <1>1, <1>9, <1>13, <1>t DEF ReaderOK
  <2>2. \A x \in reader'.stable : x \in reader'.got \/ (next # NoKey /\ Before(kind, next, x))
    <3> SUFFICES ASSUME NEW x \in reader'.stable, x \notin reader.got, x \notin A
                 PROVE  next # NoKey /\ Before(kind, next, x)
      BY <2>1
    <3>1. x \in R /\ (after = NoKey \/ Before(kind, after, x))
      BY <1>7, <2>1
    <3>2. x \in S \ A
      BY <1>2, <3>1
    <3> QED BY <1>5, <3>2
  <2>3. reader.kind = "relations" =>
           reader'.got = {k \in R : next = NoKey \/ k = next \/ Before(kind, k, next)}
    <3> SUFFICES ASSUME reader.kind = "relations"
                 PROVE  reader.got \cup A =
                            {k \in R : next = NoKey \/ k = next \/ Before(kind, k, next)}
      BY <2>1
    <3>1. reader.got = {k \in R : after # NoKey /\ (k = after \/ Before(kind, k, after))}
      <4>1. CASE after = NoKey
        BY <1>7, <4>1
      <4>2. CASE after # NoKey
        <5>1. reader.version # <<>> /\ reader.version = metadata(reader)
          BY <1>1, <1>t, <1>6, <1>13, <4>2 DEF VersionInv
        <5>2. reader.version[1] = committed
          BY <5>1 DEF metadata
        <5>3. reader.got = UpTo(after)
          BY <1>1, <1>t, <1>6, <4>2, <5>2 DEF VersionInv
        <5> QED BY <1>1, <4>2, <5>3 DEF UpTo
      <4> QED BY <4>1, <4>2
    <3>2. ASSUME NEW k \in R
          PROVE  k \in reader.got \cup A <=> (next = NoKey \/ k = next \/ Before(kind, k, next))
      <4>1. k \in KeysOf(kind)
        BY <1>1
      <4>2. k \in reader.got \/ k \in S
        BY <1>2, <1>7, <3>1, <4>1, BeforeOrder
      <4>3. CASE next = NoKey
        BY <1>5, <4>2, <4>3
      <4>4. CASE next # NoKey
        <5>1. next \in A /\ next \in KeysOf(kind) /\ next \in S
          BY <1>4, <1>5, <4>4
        <5>2. CASE k \in A
          BY <1>5, <4>4, <5>2
        <5>3. CASE k \in reader.got
          <6>1. after # NoKey /\ (k = after \/ Before(kind, k, after)) /\ Before(kind, after, next)
            BY <1>2, <3>1, <5>1, <5>3
          <6>2. Before(kind, k, next)
            BY <1>7, <4>1, <5>1, <6>1, BeforeOrder
          <6> QED BY <5>3, <6>2
        <5>4. CASE k \notin A /\ k \notin reader.got
          <6>1. Before(kind, next, k)
            BY <1>5, <4>2, <4>4, <5>4
          <6>2. k # next /\ ~Before(kind, k, next)
            BY <4>1, <5>1, <6>1, BeforeOrder
          <6> QED BY <4>4, <5>4, <6>2
        <5> QED BY <5>2, <5>3, <5>4
      <4> QED BY <4>3, <4>4
    <3>3. reader.got \cup A \subseteq R
      BY <1>4, <1>5, <3>1
    <3> QED BY <3>2, <3>3
  <2>4. ReaderOK'
    BY <1>t, <1>11, <2>1 DEF ReaderOK
  <2>5. Paging'
    <3>1. ~reader'.twice
      BY <1>8, <1>11, <2>1
    <3>2. reader'.pc = "done" => reader'.stable \subseteq reader'.got
      BY <2>1, <2>2
    <3>3. reader'.pc = "done" /\ reader'.kind = "relations" => reader'.whole
      BY <1>1, <2>1, <2>3
    <3> QED BY <3>1, <3>2, <3>3 DEF Paging
  <2>6. CursorInv'
    <3>1. reader'.after # NoKey =>
             /\ next \in KeysOf(kind) /\ reader'.got \subseteq KeysOf(kind)
             /\ \A x \in reader'.got : x = next \/ Before(kind, x, next)
      <4> SUFFICES ASSUME next # NoKey
                   PROVE  /\ next \in KeysOf(kind) /\ reader.got \cup A \subseteq KeysOf(kind)
                          /\ \A x \in reader.got \cup A : x = next \/ Before(kind, x, next)
        BY <2>1
      <4>1. next \in A /\ next \in S /\ next \in KeysOf(kind) /\ A \subseteq KeysOf(kind)
        BY <1>4, <1>5
      <4>2. reader.got \subseteq KeysOf(kind)
        BY <1>7
      <4>3. ASSUME NEW x \in reader.got PROVE Before(kind, x, next)
        <5>1. after # NoKey /\ after \in KeysOf(kind) /\ (x = after \/ Before(kind, x, after))
          BY <1>7, <4>3
        <5>2. Before(kind, after, next) /\ x \in KeysOf(kind)
          BY <1>2, <4>1, <4>2, <5>1
        <5> QED BY <4>1, <5>1, <5>2, BeforeOrder
      <4> QED BY <1>5, <4>1, <4>2, <4>3
    <3>2. Listing' => reader'.after # NoKey
      BY <2>1 DEF Listing
    <3> QED BY <2>1, <2>2, <3>1, <3>2 DEF CursorInv
  <2>7. VersionInv'
    <3> SUFFICES ASSUME reader'.kind = "relations", next # NoKey
                 PROVE  /\ reader'.version # <<>>
                        /\ reader'.version[1] \in Nat /\ reader'.version[1] <= committed'
                        /\ reader'.got = UpTo(next)'
      BY <2>1 DEF VersionInv, UpTo
    <3>1. /\ metadata(reader) # <<>> /\ metadata(reader)[1] = committed /\ committed \in Nat
      BY <1>t DEF metadata, StoreOK
    <3>2. UpTo(next)' = {k \in R : k = next \/ Before(kind, k, next)}
      <4>1. read_relations_for_resources' = read_relations_for_resources
        BY <1>s DEF read_relations_for_resources
      <4> QED BY <1>1, <2>1, <4>1 DEF UpTo
    <3>3. reader'.got = UpTo(next)'
      BY <1>1, <2>1, <2>3, <3>2
    <3> QED BY <1>s, <2>1, <3>1, <3>3
  <2> QED
    BY <1>10, <2>4, <2>5, <2>6, <2>7 DEF PagingInv
<1> QED
  BY <1>12, <1>13
\* A step that leaves the reader alone and writes the store only with a new revision.
LEMMA StoreStepKeeps ==
    ASSUME PagingInv, reader' = reader, StoreOK', committed' \in Nat,
           \/ committed' = committed /\ links' = links
           \/ committed' = committed + 1
    PROVE  PagingInv'
<1>t. StoreOK /\ ReaderOK /\ CursorInv /\ VersionInv /\ Paging
  BY DEF PagingInv
<1>1. ReaderOK' /\ CursorInv' /\ Paging' /\ Listing' = Listing
  BY <1>t DEF ReaderOK, CursorInv, Paging, Listing
<1>2. VersionInv'
  <2>1. CASE committed' = committed /\ links' = links
    <3>1. \A k : UpTo(k)' = UpTo(k)
      BY <2>1 DEF UpTo, read_relations_for_resources
    <3> QED BY <1>t, <1>1, <2>1, <3>1 DEF VersionInv, Listing
  <2>2. CASE committed' = committed + 1
    <3> SUFFICES ASSUME Listing, reader.kind = "relations", reader.after # NoKey
                 PROVE  /\ reader.version # <<>> /\ reader.version[1] \in Nat
                        /\ reader.version[1] <= committed' /\ reader.version[1] # committed'
      BY <1>1 DEF VersionInv, Listing
    <3>1. /\ reader.version # <<>> /\ reader.version[1] \in Nat /\ reader.version[1] <= committed
      BY <1>t DEF VersionInv
    <3> QED BY <1>t, <2>2, <3>1 DEF StoreOK
  <2> QED BY <2>1, <2>2
<1> QED
  BY <1>1, <1>2 DEF PagingInv

\* The store is read, and the answer made.
LEMMA ReadKeeps ==
    ASSUME PagingInv, Read
    PROVE  PagingInv'
<1>1. PICK a : a = answer(reader)
  OBVIOUS
<1>t. StoreOK /\ ReaderOK /\ CursorInv /\ VersionInv /\ Paging
  BY DEF PagingInv
<1>2. /\ reader.pc = "asked"
      /\ reader' = CASE a.is = "page" -> TakePage(reader, a.body)
                     [] a.is = "done" -> [reader EXCEPT !.pc = "done", !.got = a.body,
                                                        !.version = metadata(reader)]
                     [] OTHER -> [reader EXCEPT !.pc = a.is]
      /\ UNCHANGED <<now, storeVars, snapshot>>
  BY <1>1 DEF Read
<1>3. CASE a.is = "page"
  <2>1. PICK R : R = a.body
    OBVIOUS
  <2>2. /\ reader.kind \in Paged /\ IsFiniteSet(R) /\ R \subseteq KeysOf(reader.kind)
        /\ reader.kind = "relations" => R = read_relations_for_resources
    BY <1>1, <1>t, <1>3, <2>1, RowsAreKeys
  <2>3. reader' = TakePage(reader, R)
    BY <1>2, <1>3, <2>1
  <2> QED BY <1>2, <2>2, <2>3, TakePageKeeps
<1>4. CASE a.is # "page"
  <2>1. /\ a.is \in {"done", "failed", "missing"}
        /\ a.is = "done" => reader.kind \in Single
        /\ reader.kind = "relations" => a.is = "page"
    BY <1>1, <1>t, <1>4 DEF answer, search_resources, get_relations_for_resources,
       get_recent_changes, get_timeline, get_resource, resource_detail_body,
       get_health_summary, get_sync_status, list_connections, Listed, Answered, Unavailable,
       Missing, ReaderOK, Single, Paged
  <2>2. /\ DOMAIN reader' = DOMAIN reader /\ reader'.kind = reader.kind
        /\ reader'.stable = reader.stable /\ reader'.twice = reader.twice
        /\ reader'.pc = a.is
    <3>1. CASE a.is = "done"
      BY <1>2, <1>t, <3>1 DEF ReaderOK
    <3>2. CASE a.is # "done"
      <4>1. reader' = [reader EXCEPT !.pc = a.is]
        BY <1>2, <1>4, <3>2
      <4> QED BY <1>t, <4>1 DEF ReaderOK
    <3> QED BY <3>1, <3>2
  <2>3. ReaderOK' /\ ~Listing'
    BY <1>t, <2>1, <2>2 DEF ReaderOK, Listing
  <2>4. Paging'
    <3>1. reader'.pc = "done" => reader'.stable = {} /\ reader'.kind # "relations"
      BY <1>t, <1>4, <2>1, <2>2 DEF ReaderOK
    <3>2. ~reader'.twice
      BY <1>t, <2>2 DEF Paging
    <3> QED BY <3>1, <3>2 DEF Paging
  <2>5. StoreOK'
    BY <1>2, <1>t DEF StoreOK, storeVars
  <2> QED
    BY <2>3, <2>4, <2>5 DEF PagingInv, CursorInv, VersionInv
<1> QED
  BY <1>3, <1>4

\* What a client starts with.
LEMMA FreshReader ==
    ASSUME StoreOK', NEW kind \in Paged \cup Single, NEW pc \in {"idle", "asked", "invalid"},
           NEW filter, NEW about, NEW taken,
           reader' = [NoReader EXCEPT !.pc = pc, !.kind = kind, !.filter = filter,
                                      !.about = about, !.context = taken]
    PROVE  PagingInv'
<1>1. /\ DOMAIN reader' = {"pc", "kind", "filter", "about", "context", "after", "got", "stable",
                           "twice", "version", "whole"}
      /\ reader'.pc = pc /\ reader'.kind = kind /\ reader'.after = NoKey /\ reader'.got = {}
      /\ reader'.stable = {} /\ reader'.twice = FALSE /\ reader'.version = <<>>
  BY DEF NoReader
<1> QED
  BY <1>1 DEF PagingInv, ReaderOK, CursorInv, VersionInv, Paging

LEMMA PagingInitInv == QueryInit => PagingInv
<1> SUFFICES ASSUME QueryInit PROVE PagingInv
  OBVIOUS
<1>0. IsFiniteSet(Resources) /\ Resources \subseteq Nat
  BY QueryAssumption DEF QueryAssumption
<1>1. PICK f : f = [r \in Resources |-> <<0, r>>]
  OBVIOUS
<1>2. IsFiniteSet({f[r] : r \in Resources})
  <2>1. DOMAIN f = Resources
    BY <1>1
  <2> QED BY <1>0, <2>1, FiniteImage
<1>3. changes = {f[r] : r \in Resources}
  BY <1>1 DEF QueryInit
<1>4. changes \subseteq Nat \X Resources
  BY DEF QueryInit
<1>5. StoreOK
  BY <1>2, <1>3, <1>4 DEF QueryInit, StoreOK
<1>6. /\ DOMAIN reader = {"pc", "kind", "filter", "about", "context", "after", "got", "stable",
                          "twice", "version", "whole"}
      /\ reader.pc = "idle" /\ reader.kind = "search" /\ reader.stable = {} /\ reader.twice = FALSE
  BY DEF QueryInit, NoReader
<1> QED
  BY <1>5, <1>6 DEF PagingInv, ReaderOK, CursorInv, VersionInv, Paging, Listing, Paged

LEMMA PagingNextInv == PagingInv /\ [QueryNext]_queryVars => PagingInv'
<1> SUFFICES ASSUME PagingInv, [QueryNext]_queryVars PROVE PagingInv'
  OBVIOUS
<1>t. StoreOK /\ ReaderOK
  BY DEF PagingInv
<1>0. IsFiniteSet(Resources) /\ Resources \subseteq Nat
  BY QueryAssumption DEF QueryAssumption
<1>1. CASE Tick \/ Refresh \/ UNCHANGED queryVars
  <2>1. /\ reader' = reader /\ now' \in Nat
        /\ UNCHANGED <<stored, seen, links, changes, committed>>
    BY <1>1, <1>t DEF Tick, Refresh, queryVars, storeVars, StoreOK
  <2>2. StoreOK'
    BY <1>t, <2>1 DEF StoreOK
  <2> QED BY <1>t, <2>1, <2>2, StoreStepKeeps DEF StoreOK
<1>2. ASSUME NEW c \in Conns, Commit(c) PROVE PagingInv'
  <2>1. /\ reader' = reader /\ now' = now /\ committed' = committed + 1
    BY <1>2 DEF Commit
  <2>2. PICK found \in SUBSET Gone(c) :
           /\ links' = links \cup {l \in Links : /\ LinkEnds[l] \cap found # {}
                                                 /\ \A r \in LinkEnds[l] : seen'[r] # NotSeen}
           /\ changes' = changes \cup {<<now, r>> : r \in found}
    BY <1>2 DEF Commit
  <2>3. found \in SUBSET Resources
    BY DEF Gone
  <2>4. IsFiniteSet(found)
    BY <1>0, <2>3, FS_Subset
  <2>5. PICK f : f = [r \in found |-> <<now, r>>]
    OBVIOUS
  <2>6. IsFiniteSet({f[r] : r \in found})
    <3>1. DOMAIN f = found
      BY <2>5
    <3> QED BY <2>4, <3>1, FiniteImage
  <2>7. {f[r] : r \in found} = {<<now, r>> : r \in found}
    BY <2>5
  <2>8. PICK A, B : A = changes /\ B = {<<now, r>> : r \in found}
    OBVIOUS
  <2>9. IsFiniteSet(A \cup B)
    BY <1>t, <2>6, <2>7, <2>8, FS_Union DEF StoreOK
  <2>10. IsFiniteSet(changes')
    BY <2>2, <2>8, <2>9
  <2>11. changes' \subseteq Nat \X Resources
    BY <1>t, <2>2, <2>3 DEF StoreOK
  <2>12. StoreOK'
    BY <1>t, <2>1, <2>2, <2>10, <2>11 DEF StoreOK
  <2> QED BY <2>1, <2>12, StoreStepKeeps DEF StoreOK
<1>3. ASSUME NEW c \in Conns, Purge(c) PROVE PagingInv'
  <2>1. /\ reader' = reader /\ now' = now /\ committed' = committed + 1
        /\ links' \subseteq links /\ changes' \in SUBSET changes
    BY <1>3 DEF Purge
  <2>2. IsFiniteSet(changes')
    BY <1>t, <2>1, FS_Subset DEF StoreOK
  <2>3. StoreOK'
    BY <1>t, <2>1, <2>2 DEF StoreOK
  <2> QED BY <2>1, <2>3, StoreStepKeeps DEF StoreOK
<1>4. CASE Ask
  <2>1. StoreOK'
    BY <1>4, <1>t DEF Ask, StoreOK, storeVars
  <2>a. PICK kind \in Paged \cup Single : \E about, limit, filter :
           reader' = [NoReader EXCEPT !.pc = IF bounded_limit(limit) THEN "asked" ELSE "invalid",
                                      !.kind = kind, !.filter = filter,
                                      !.about = about, !.context = snapshot]
    BY <1>4 DEF Ask
  <2>2. PICK about, limit, filter :
           reader' = [NoReader EXCEPT !.pc = IF bounded_limit(limit) THEN "asked" ELSE "invalid",
                                      !.kind = kind, !.filter = filter,
                                      !.about = about, !.context = snapshot]
    BY <2>a
  <2>3. PICK pc, s : pc = (IF bounded_limit(limit) THEN "asked" ELSE "invalid") /\ s = snapshot
    OBVIOUS
  <2>4. /\ pc \in {"idle", "asked", "invalid"}
        /\ reader' = [NoReader EXCEPT !.pc = pc, !.kind = kind, !.filter = filter,
                                      !.about = about, !.context = s]
    BY <2>2, <2>3
  <2> QED BY <2>1, <2>4, FreshReader
<1>5. CASE AskNext
  <2>1. /\ reader.pc = "paging" /\ reader' = [reader EXCEPT !.pc = "asked", !.context = snapshot]
        /\ UNCHANGED <<now, stored, seen, links, changes, committed>>
    BY <1>5 DEF AskNext, storeVars
  <2>2. /\ DOMAIN reader' = DOMAIN reader /\ reader'.pc = "asked" /\ reader'.kind = reader.kind
        /\ reader'.after = reader.after /\ reader'.got = reader.got
        /\ reader'.stable = reader.stable /\ reader'.twice = reader.twice
        /\ reader'.version = reader.version
    BY <1>t, <2>1 DEF ReaderOK
  <2>3. Listing' = Listing
    BY <2>1, <2>2 DEF Listing
  <2>4. \A k : UpTo(k)' = UpTo(k)
    BY <2>1 DEF UpTo, read_relations_for_resources
  <2> QED
    BY <2>1, <2>2, <2>3, <2>4
       DEF PagingInv, StoreOK, ReaderOK, CursorInv, VersionInv, Paging
<1>6. CASE Read
  BY <1>6, ReadKeeps
<1>7. CASE Leave
  <2>1. StoreOK'
    BY <1>7, <1>t DEF Leave, StoreOK, storeVars
  <2>2. /\ DOMAIN reader' = {"pc", "kind", "filter", "about", "context", "after", "got", "stable",
                             "twice", "version", "whole"}
        /\ reader'.pc = "idle" /\ reader'.kind = "search" /\ reader'.stable = {}
        /\ reader'.twice = FALSE
    BY <1>7 DEF Leave, NoReader
  <2> QED
    BY <2>1, <2>2 DEF PagingInv, ReaderOK, CursorInv, VersionInv, Paging, Listing, Paged
<1> QED
  BY <1>1, <1>2, <1>3, <1>4, <1>5, <1>6, <1>7 DEF QueryNext

\* A listing over several pages shows nothing twice and leaves out nothing that was
\* there at every page, whatever syncs, purges and refreshes come in between; and a
\* client of the relations that has ended has what the store had at the last page,
\* for every size of a page and of the store.
THEOREM PagingAlways == QuerySpec => []Paging
<1>1. PagingInv => Paging
  BY DEF PagingInv
<1> QED
  BY <1>1, PagingInitInv, PagingNextInv, PTL DEF QuerySpec

=============================================================================
