---------------------------- MODULE QueryService ----------------------------
(***************************************************************************)
(* The queries.  One takes the context, then reads the store in one        *)
(* transaction; a listing takes several, one per page.  Syncs, purges and  *)
(* refreshes of the context come in between (QueryContext has how the      *)
(* context is refreshed; here it is refreshed in one step).                *)
(*                                                                         *)
(* Data abstraction.  Resources, relations and changes are their keys: the *)
(* order of the numbers is the order of the identifiers.  Of the filters   *)
(* of a search the freshness is kept, which depends on the context.        *)
(***************************************************************************)
EXTENDS Integers, FiniteSets

CONSTANTS
    Conns,          \* identifiers of connections
    Resources,      \* resource ids
    Owner,          \* the connection of a resource
    Links,          \* relation ids
    LinkEnds,       \* the two resources of a relation
    Interval,       \* query_sync_interval_millis of a connection
    PageLimit,      \* items on a page
    DetailLimit,    \* MAX_DETAIL_RELATIONS, MAX_DETAIL_CHANGES
    MaxConnections, \* MAX_CONNECTIONS
    MaxNow,         \* bound: the clock
    MaxWrites       \* bound: syncs and purges

ASSUME QueryAssumption ==
    /\ Resources \subseteq Nat /\ Owner \in [Resources -> Conns]
    /\ Links \subseteq Nat /\ LinkEnds \in [Links -> SUBSET Resources]
    /\ IsFiniteSet(Resources) /\ IsFiniteSet(Links)
    /\ Interval \in [Conns -> Nat \ {0}]
    /\ PageLimit \in Nat \ {0} /\ DetailLimit \in Nat \ {0} /\ MaxConnections \in Nat
    /\ MaxNow \in Nat /\ MaxWrites \in Nat

VARIABLES
    now,        \* the clock
    stored,     \* the connections in the store
    seen,       \* last_seen_at of the resources in the store
    links,      \* the relations in the store
    changes,    \* the changes in the store: <<observed_at, change_id>>
    committed,  \* committed_revision
    snapshot,   \* the context
    reader      \* a client

storeVars == <<stored, seen, links, changes, committed>>
queryVars == <<now, storeVars, snapshot, reader>>

NotSeen == -1
NoKey == <<>>
Paged == {"search", "relations", "changes", "timeline"}
Single == {"detail", "health", "status", "connections"}

-----------------------------------------------------------------------------
(* Freshness.                                                              *)

\* CommittedQuerySource::cutoffs.
cutoffs(at, interval) == [fresh_after |-> at - interval, expired_after |-> at - 3 * interval]

\* classify_millis of the store, from the cutoffs; a filter on freshness puts
\* the same conditions into the statement.
classify_millis(last_seen_at, cutoff) ==
    IF last_seen_at >= cutoff.fresh_after THEN "fresh"
    ELSE IF last_seen_at >= cutoff.expired_after THEN "stale" ELSE "expired"

\* classify_freshness of the query source, from the age.
classify_freshness(last_seen_at, at, interval) ==
    LET age == IF at > last_seen_at THEN at - last_seen_at ELSE 0
    IN  IF age <= interval THEN "fresh"
        ELSE IF age <= 3 * interval THEN "stale" ELSE "expired"

-----------------------------------------------------------------------------
(* The store and the context.                                              *)

NoReader == [pc |-> "idle", kind |-> "search", filter |-> {}, about |-> 0, context |-> <<>>,
             after |-> NoKey, got |-> {}, stable |-> {}, twice |-> FALSE,
             version |-> <<>>, whole |-> FALSE]

Present == {r \in Resources : seen[r] # NotSeen}
Gone(c) == {r \in Resources : Owner[r] = c}

QueryInit ==
    /\ now = 0
    /\ stored = Conns
    /\ seen = [r \in Resources |-> 0]
    /\ links = Links
    /\ changes = {<<0, r>> : r \in Resources}
    /\ committed = 0
    /\ snapshot = [revision |-> 1, at |-> 0, conns |-> stored]
    /\ reader = NoReader

Tick ==
    /\ now < MaxNow
    /\ now' = now + 1
    /\ UNCHANGED <<storeVars, snapshot, reader>>

\* The context is replaced by one of the connections that are stored.
Refresh ==
    /\ <<snapshot.at, snapshot.conns>> # <<now, stored>>
    /\ snapshot' = [revision |-> snapshot.revision + 1, at |-> now, conns |-> stored]
    /\ UNCHANGED <<now, storeVars, reader>>

\* A sync commits what it has seen, some of it for the first time, and the
\* relations between what is there.  A create before it stores the connection.
Commit(c) ==
    /\ committed < MaxWrites
    /\ stored' = stored \cup {c}
    /\ \E found \in SUBSET Gone(c) :
          /\ seen' = [r \in Resources |-> IF r \in found THEN now ELSE seen[r]]
          /\ links' = links \cup {l \in Links : /\ LinkEnds[l] \cap found # {}
                                                /\ \A r \in LinkEnds[l] : seen'[r] # NotSeen}
          /\ changes' = changes \cup {<<now, r>> : r \in found}
    /\ committed' = committed + 1
    /\ UNCHANGED <<now, snapshot, reader>>

\* A purge: the connection, the resources, their relations and their changes,
\* in one transaction.
Purge(c) ==
    /\ committed < MaxWrites /\ c \in stored
    /\ stored' = stored \ {c}
    /\ seen' = [r \in Resources |-> IF r \in Gone(c) THEN NotSeen ELSE seen[r]]
    /\ links' = {l \in links : LinkEnds[l] \cap Gone(c) = {}}
    /\ changes' = {x \in changes : x[2] \notin Gone(c)}
    /\ committed' = committed + 1
    /\ UNCHANGED <<now, snapshot, reader>>

-----------------------------------------------------------------------------
(* What the store reads, in one transaction.                               *)

Freshness(r, q) == classify_millis(seen[r], cutoffs(q.context.at, Interval[Owner[r]]))

\* Every connection with a resource must be in the context.
validate_cutoffs(q) == \A r \in Present : Owner[r] \in q.context.conns

\* The filter on freshness; it has one condition per connection of the context,
\* and without any the statement is not one.
push_freshness_filter(q, r) == q.filter = {} \/ Freshness(r, q) \in q.filter
EmptyFilter(q) == q.filter # {} /\ q.context.conns = {}

\* The rows of a listing, as keys.
read_resource_page(q) == {<<r>> : r \in {p \in Present : push_freshness_filter(q, p)}}
read_relations_for_resources == {<<l>> : l \in links}
read_recent_changes == changes

\* The relations and the changes of a resource, or that there are too many.
read_resource_detail(r) ==
    [relations_truncated |-> Cardinality({l \in links : r \in LinkEnds[l]}) > DetailLimit,
     recent_changes_truncated |-> Cardinality({x \in changes : x[2] = r}) > DetailLimit]

read_sync_status(c) == c \in stored

\* The resources by freshness.
read_health_projection(q) ==
    [f \in {"fresh", "stale", "expired"} |-> Cardinality({r \in Present : Freshness(r, q) = f})]

read_connections == stored

-----------------------------------------------------------------------------
(* What a query answers.                                                   *)

Listed(rows) == [is |-> "page", body |-> rows]
Answered(body) == [is |-> "done", body |-> body]

\* source_error, contract_error: the query cannot be answered; not_found.
Unavailable == [is |-> "failed", body |-> {}]
Missing == [is |-> "missing", body |-> {}]

search_resources(q) ==
    IF validate_cutoffs(q) /\ ~EmptyFilter(q) THEN Listed(read_resource_page(q)) ELSE Unavailable

get_relations_for_resources(q) == Listed(read_relations_for_resources)
get_recent_changes(q) == Listed(read_recent_changes)

\* The changes in groups; their number is compared with that of the page.
get_timeline(q) == Listed(read_recent_changes)

\* What the request includes and the store has cut cannot be shown, and no
\* resource without its schedule.
resource_detail_body(q) ==
    LET d == read_resource_detail(q.about)
    IN  IF \/ "relations" \in q.filter /\ d.relations_truncated
           \/ "recent_changes" \in q.filter /\ d.recent_changes_truncated
           \/ Owner[q.about] \notin q.context.conns
          THEN Unavailable
          ELSE Answered({classify_freshness(seen[q.about], q.context.at, Interval[Owner[q.about]])})

get_resource(q) == IF q.about \in Present THEN resource_detail_body(q) ELSE Missing

get_health_summary(q) ==
    IF validate_cutoffs(q) THEN Answered({read_health_projection(q)}) ELSE Unavailable

\* A connection without a schedule in the context has no status.
get_sync_status(q) ==
    IF ~read_sync_status(q.about) THEN Missing
    ELSE IF q.about \in q.context.conns THEN Answered({q.about}) ELSE Unavailable

list_connections(q) ==
    IF Cardinality(read_connections) <= MaxConnections THEN Answered(read_connections)
                                                       ELSE Unavailable

answer(q) ==
    CASE q.kind = "search" -> search_resources(q)
      [] q.kind = "relations" -> get_relations_for_resources(q)
      [] q.kind = "changes" -> get_recent_changes(q)
      [] q.kind = "timeline" -> get_timeline(q)
      [] q.kind = "detail" -> get_resource(q)
      [] q.kind = "health" -> get_health_summary(q)
      [] q.kind = "status" -> get_sync_status(q)
      [] OTHER -> list_connections(q)

-----------------------------------------------------------------------------
(* Pages.                                                                  *)

\* Resources and relations are in the order of their ids, changes are by time
\* and id, the newest first.
Before(kind, x, y) ==
    IF kind \in {"changes", "timeline"}
      THEN x[1] > y[1] \/ (x[1] = y[1] /\ x[2] > y[2])
      ELSE x[1] < y[1]

FirstOf(kind, n, S) == {x \in S : Cardinality({y \in S : Before(kind, y, x)}) < n}
LastOf(kind, S) == CHOOSE x \in S : \A y \in S : y = x \/ Before(kind, y, x)

\* Mutant: the cursor is taken before the item beyond the page is dropped.
PageCursorEarly(kind, S) ==
    LET read == FirstOf(kind, PageLimit + 1, S)
        items == FirstOf(kind, PageLimit, read)
    IN  [items |-> items, next_after |-> IF items # read THEN LastOf(kind, read) ELSE NoKey]

\* read_resource_page, read_relations_for_resources and read_recent_changes: one
\* row more than the page is read, and the cursor is the last one on the page.
Page(kind, S) ==
    LET read == FirstOf(kind, PageLimit + 1, S)
        items == FirstOf(kind, PageLimit, read)
    IN  [items |-> items, next_after |-> IF items # read THEN LastOf(kind, items) ELSE NoKey]

\* metadata: what the answer says it was made from.
metadata(q) == <<committed, q.context.at, q.context.revision>>

-----------------------------------------------------------------------------
(* A client.                                                               *)

\* What a request restricts its rows to, or includes in a detail.
Filters(kind) ==
    CASE kind = "search" -> {{}, {"fresh"}, {"stale", "expired"}}
      [] kind = "detail" -> {{}, {"relations"}, {"recent_changes"}}
      [] OTHER -> {{}}

\* A limit outside the range is refused before anything is read.
bounded_limit(limit) == limit \in 1 .. PageLimit

\* The first query of a client: what it asks, with the context of that moment.
Ask ==
    /\ reader.pc = "idle"
    /\ \E kind \in Paged \cup Single, about \in Resources \cup Conns,
           limit \in {0, PageLimit, PageLimit + 1} : \E filter \in Filters(kind) :
          /\ CASE kind = "detail" -> about \in Resources
               [] kind = "status" -> about \in Conns
               [] OTHER -> about = CHOOSE r \in Resources : TRUE
          /\ kind \in Single => limit = PageLimit
          /\ reader' = [NoReader EXCEPT !.pc = IF bounded_limit(limit) THEN "asked" ELSE "invalid",
                                        !.kind = kind, !.filter = filter,
                                        !.about = about, !.context = snapshot]
    /\ UNCHANGED <<now, storeVars, snapshot>>

\* The query for the next page takes the context anew.
AskNext ==
    /\ reader.pc = "paging"
    /\ reader' = [reader EXCEPT !.pc = "asked", !.context = snapshot]
    /\ UNCHANGED <<now, storeVars, snapshot>>

\* A page is added to those before.  The client of the relations
\* (loadAllRelations) gives up when the version of the answers changes.
TakePage(q, rows) ==
    LET p == Page(q.kind, {x \in rows : q.after = NoKey \/ Before(q.kind, q.after, x)})
        got == q.got \cup p.items
    IN  IF q.kind = "relations" /\ q.version \notin {<<>>, metadata(q)}
          THEN [q EXCEPT !.pc = "failed"]
          ELSE [q EXCEPT !.pc = IF p.next_after = NoKey THEN "done" ELSE "paging",
                         !.after = p.next_after, !.got = got,
                         !.stable = IF q.after = NoKey THEN rows ELSE @ \cap rows,
                         !.twice = @ \/ p.items \cap q.got # {},
                         !.version = metadata(q), !.whole = got = rows]

\* The store is read, and the answer made.
Read ==
    LET a == answer(reader)
    IN  /\ reader.pc = "asked"
        /\ reader' = CASE a.is = "page" -> TakePage(reader, a.body)
                       [] a.is = "done" -> [reader EXCEPT !.pc = "done", !.got = a.body,
                                                          !.version = metadata(reader)]
                       [] OTHER -> [reader EXCEPT !.pc = a.is]
        /\ UNCHANGED <<now, storeVars, snapshot>>

\* The client has what it asked for, or an error, and starts again some time.
Leave ==
    /\ reader.pc \in {"done", "failed", "missing", "invalid"}
    /\ reader' = NoReader
    /\ UNCHANGED <<now, storeVars, snapshot>>

QueryNext ==
    \/ Tick \/ Refresh
    \/ \E c \in Conns : Commit(c) \/ Purge(c)
    \/ Ask \/ AskNext \/ Read \/ Leave

QuerySpec == QueryInit /\ [][QueryNext]_queryVars

-----------------------------------------------------------------------------
\* A listing over several pages shows no item twice and leaves out none that was
\* there at every page, although syncs, purges and refreshes come in between; and
\* the client of the relations, which stops when the version of the answers
\* changes, ends with the relations that the store has at the last page
\* (read_resource_page, read_relations_for_resources, read_recent_changes).
Paging ==
    /\ ~reader.twice
    /\ reader.pc = "done" => reader.stable \subseteq reader.got
    /\ reader.pc = "done" /\ reader.kind = "relations" => reader.whole

=============================================================================
