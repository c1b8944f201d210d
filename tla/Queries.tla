------------------------------ MODULE Queries -------------------------------
(***************************************************************************)
(* What a query is made of: the context, the pages, the topology and the   *)
(* relations that are kept locally.  The four share the store through      *)
(* what each of them abstracts of it, and no variable: a behaviour moves   *)
(* one of them.                                                            *)
(***************************************************************************)
EXTENDS QueryContext, QueryService, Topology, LocalRelations

VARIABLE part

Parts == {"context", "service", "topology", "relations"}

QueriesInit ==
    /\ part \in Parts
    /\ ContextInit /\ (part = "context" \/ rows = {})
    /\ QueryInit
    /\ RelationsInit
    /\ TopologyInit /\ (part = "topology" \/ (DOMAIN graph = {} /\ plan = CHOOSE p \in Plans : TRUE))

QueriesNext ==
    \/ /\ part = "context" /\ ContextNext
       /\ UNCHANGED <<part, queryVars, topologyVars, relationVars>>
    \/ /\ part = "service" /\ QueryNext
       /\ UNCHANGED <<part, contextVars, topologyVars, relationVars>>
    \/ /\ part = "topology" /\ TopologyNext
       /\ UNCHANGED <<part, contextVars, queryVars, relationVars>>
    \/ /\ part = "relations" /\ RelationsNext
       /\ UNCHANGED <<part, contextVars, queryVars, topologyVars>>

queriesVars == <<part, contextVars, queryVars, topologyVars, relationVars>>

QueriesSpec == QueriesInit /\ [][QueriesNext]_queriesVars /\ ContextFairness

=============================================================================
