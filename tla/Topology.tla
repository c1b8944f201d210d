------------------------------ MODULE Topology ------------------------------
(***************************************************************************)
(* build_topology: what is around a resource, level by level, within       *)
(* limits on the depth, the nodes and the edges.  The store is locked from *)
(* the first statement to the last, so that the graph does not change; the *)
(* graph and the limits are arbitrary.  Relations are their ids, in the    *)
(* order in which the store returns them.                                  *)
(***************************************************************************)
EXTENDS Integers, FiniteSets

CONSTANTS
    Nodes,          \* resources
    Focus,          \* focus_resource_id
    LinkIds,        \* relation ids
    Depths,         \* plan.depth
    NodeLimits,     \* plan.max_nodes
    EdgeLimits      \* plan.max_edges

ASSUME TopologyAssumption ==
    /\ Focus \in Nodes /\ LinkIds \subseteq Nat /\ IsFiniteSet(LinkIds)
    /\ Depths \subseteq Nat \ {0} /\ NodeLimits \subseteq Nat \ {0} /\ EdgeLimits \subseteq Nat \ {0}

VARIABLES
    graph,          \* the ends of the relations that are stored
    plan,           \* TopologyPlan
    visited, frontier_ids, levels,
    edges,          \* projected_edges
    frontier, truncated,
    items,          \* relations of this level still to look at
    next_frontier,
    phase           \* "level", "relation" or "done"

topologyVars == <<graph, plan, visited, frontier_ids, levels, edges, frontier, truncated,
                  items, next_frontier, phase>>

Ends(r) == {graph[r].source, graph[r].target}

\* The relations at a set of resources, and of some relations the first n.
Touching(S) == {r \in DOMAIN graph : Ends(r) \cap S # {}}
FirstLinks(n, S) == {r \in S : Cardinality({s \in S : s < r}) < n}

\* QueryService::get_topology bounds the plan.
Plans == [depth : Depths, max_nodes : NodeLimits, max_edges : EdgeLimits]

\* The focus is stored.
TopologyInit ==
    /\ graph \in UNION {[S -> [source : Nodes, target : Nodes]] : S \in SUBSET LinkIds}
    /\ plan \in Plans
    /\ visited = {Focus} /\ frontier_ids = {Focus} /\ levels = 0
    /\ edges = {} /\ frontier = {} /\ truncated = FALSE
    /\ items = {} /\ next_frontier = {}
    /\ phase = "level"

\* Mutant: the statement asks for the edges that are left, and not for one more,
\* and a page that is full is taken for the whole.
LevelPage(remaining) ==
    [items |-> FirstLinks(remaining, Touching(frontier_ids)), more |-> FALSE]

\* query_relations_for_resources with a limit of one more than the edges that
\* are left.
LevelRelations(remaining) ==
    LET page == FirstLinks(remaining + 1, Touching(frontier_ids))
    IN  [items |-> page, more |-> page # Touching(frontier_ids)]

\* The head of the loop.
Level ==
    LET remaining == plan.max_edges - Cardinality(edges)
        read == LevelRelations(remaining)
    IN  /\ phase = "level"
        /\ IF levels >= plan.depth \/ frontier_ids = {}
             THEN phase' = "done" /\ UNCHANGED <<truncated, items>>
           ELSE IF remaining = 0
             THEN phase' = "done" /\ truncated' = TRUE /\ UNCHANGED items
           ELSE /\ phase' = "relation"
                /\ truncated' = (truncated \/ read.more)
                /\ items' = read.items
        /\ next_frontier' = {}
        /\ UNCHANGED <<graph, plan, visited, frontier_ids, levels, edges, frontier>>

\* After the last relation of a level.
LevelDone ==
    /\ phase = "relation" /\ items = {}
    /\ frontier_ids' = next_frontier /\ levels' = levels + 1
    /\ phase' = "level"
    /\ UNCHANGED <<graph, plan, visited, edges, frontier, truncated, items, next_frontier>>

\* The end of a relation that is not the one it was found from.
Neighbor(r) ==
    IF graph[r].source \in frontier_ids
      THEN [id |-> graph[r].target, direction |-> "outgoing"]
      ELSE [id |-> graph[r].source, direction |-> "incoming"]

\* add_frontier_for_relation.
add_frontier_for_relation(r) ==
    LET s == graph[r].source
        t == graph[r].target
    IN  IF s \in visited /\ t \notin visited THEN {[id |-> t, direction |-> "outgoing"]}
        ELSE IF t \in visited /\ s \notin visited THEN {[id |-> s, direction |-> "incoming"]}
        ELSE {}

\* The body of the loop over the relations of a level.
Relation ==
    LET r == CHOOSE x \in items : \A y \in items : x <= y
        n == Neighbor(r)
        isNew == n.id \notin visited
        noNode == isNew /\ Cardinality(visited) >= plan.max_nodes
        noEdge == Cardinality(edges) >= plan.max_edges
    IN  /\ phase = "relation" /\ items # {}
        /\ items' = items \ {r}
        /\ IF r \in edges
             THEN UNCHANGED <<visited, edges, frontier, truncated, next_frontier>>
           ELSE IF noNode \/ noEdge
             THEN /\ truncated' = TRUE
                  /\ frontier' = frontier \cup (IF noNode THEN {n} ELSE add_frontier_for_relation(r))
                  /\ UNCHANGED <<visited, edges, next_frontier>>
           ELSE /\ edges' = edges \cup {r}
                /\ visited' = visited \cup {n.id}
                /\ next_frontier' = IF isNew THEN next_frontier \cup {n.id} ELSE next_frontier
                /\ UNCHANGED <<frontier, truncated>>
        /\ UNCHANGED <<graph, plan, frontier_ids, levels, phase>>

TopologyNext == Level \/ LevelDone \/ Relation

TopologySpec == TopologyInit /\ [][TopologyNext]_topologyVars

-----------------------------------------------------------------------------
(* The reference.                                                          *)

\* The resources within n relations of the focus.
Ball[n \in Nat] ==
    IF n = 0 THEN {Focus} ELSE Ball[n - 1] \cup UNION {Ends(r) : r \in Touching(Ball[n - 1])}

\* A topology keeps its limits, has both ends of every edge and offers for a next
\* query only resources that it does not have already.
TopologySound ==
    /\ Cardinality(visited) <= plan.max_nodes /\ Cardinality(edges) <= plan.max_edges
    /\ \A r \in edges : Ends(r) \subseteq visited
    /\ \A f \in frontier : f.id \notin visited
    /\ frontier # {} => truncated

\* One that is not marked as truncated is all there is: the resources within the
\* depth and every relation at a resource that is nearer than the depth; whatever
\* the order of the ids, and although relations already known take places on the
\* page that is read for a level (build_topology).
TopologyExact ==
    /\ TopologySound
    /\ phase = "done" /\ ~truncated =>
          /\ visited = Ball[plan.depth]
          /\ edges = Touching(Ball[plan.depth - 1])

=============================================================================
