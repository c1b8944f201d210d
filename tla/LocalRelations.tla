--------------------------- MODULE LocalRelations ---------------------------
(***************************************************************************)
(* The relations that no provider reports: those a user configures with a  *)
(* binding, and those a rule infers.  Both are rows of the same table as   *)
(* the relations of the providers, with versions of their own; the purge   *)
(* of a connection removes what touches its resources.                     *)
(*                                                                         *)
(* Data abstraction.  The two resources and the kind of a relation are     *)
(* its ends, <<source, target>>: the kind is compared where the ends are.  *)
(* The inputs of an inference are versions of resources, one per resource, *)
(* which exist as long as the resource does.  Of the versions of a         *)
(* relation the newest is kept: none is changed, and no older one can have *)
(* the id of a new one.  An operation that is refused changes nothing.     *)
(* Every operation is one step: it holds the store.                        *)
(***************************************************************************)
EXTENDS Integers, FiniteSets, Functions

CONSTANTS
    Things,         \* resources
    KeptBy,         \* the connection of a resource
    Pairs,          \* ends: <<source, target>>
    BindingIds,     \* one is never used again
    Rules,          \* the rules that are registered
    Proposals,      \* the sets of candidates that a rule may propose
    MaxCandidates,  \* MAX_INFERENCE_CANDIDATES
    MaxMoment       \* bound: the clock

ASSUME RelationsAssumption ==
    /\ Pairs \subseteq Things \X Things
    /\ DOMAIN KeptBy = Things
    /\ BindingIds \cap Rules = {}
    /\ \A P \in Proposals : P \subseteq [ends : Pairs, inputs : SUBSET Things, confidence : Nat]
    /\ MaxCandidates \in Nat /\ MaxMoment \in Nat

VARIABLES
    moment,     \* the clock, in milliseconds
    lifecycle,  \* of the resources that are stored
    bindings,   \* the bindings that are stored
    used,       \* binding ids used so far
    relations,  \* the lifecycle of the relations that are stored
    versions,   \* the newest version of each
    outputs,    \* inference_outputs of the last run of each rule
    clashed     \* history: relations whose last version was ignored

relationVars == <<moment, lifecycle, bindings, used, relations, versions, outputs, clashed>>

Configured(b, ends) == [by |-> b, ends |-> ends, inputs |-> {}]
Inferred(rule, candidate) == [by |-> rule, ends |-> candidate.ends, inputs |-> candidate.inputs]
Stored == DOMAIN lifecycle
Active == {r \in Stored : lifecycle[r] = "active"}

RelationsInit ==
    /\ moment = 1
    /\ lifecycle = [r \in Things |-> "active"]
    /\ bindings = <<>> /\ used = {}
    /\ relations = <<>> /\ versions = <<>>
    /\ outputs = [r \in Rules |-> {}]
    /\ clashed = {}

-----------------------------------------------------------------------------
(* Writing relations.                                                      *)

\* Rows replace those of a table that have their keys.
Row(k, row) == [x \in {k} |-> row]
Upserted(rows, table) ==
    [k \in DOMAIN rows \cup DOMAIN table |-> IF k \in DOMAIN rows THEN rows[k] ELSE table[k]]

\* The rows of a commit replace those there are; relations refer to resources
\* that are stored, or the transaction fails.
upsert_relations(rows) ==
    /\ \A k \in DOMAIN rows : {k.ends[1], k.ends[2]} \subseteq Stored
    /\ relations' = Upserted(rows, relations)

\* INSERT OR IGNORE: the id is the relation and the millisecond.
insert_relation_versions(rows) ==
    LET taken == {k \in DOMAIN rows \cap DOMAIN versions : versions[k].observed_at = moment}
        new == [k \in DOMAIN rows \ taken |-> [observed_at |-> moment, lifecycle |-> rows[k]]]
    IN  /\ versions' = Upserted(new, versions)
        /\ clashed' = (clashed \ DOMAIN rows)
                         \cup {k \in taken : versions[k].lifecycle # rows[k]}

-----------------------------------------------------------------------------
(* Bindings.                                                               *)

endpoint_status(ends) ==
    IF {ends[1], ends[2]} \subseteq Active THEN "active" ELSE "unresolved"

relation_lifecycle(status) ==
    [active |-> "active", unresolved |-> "orphaned", disabled |-> "tombstoned"][status]

\* Another binding with these ends that is not disabled.
Duplicate(ends, b) ==
    \E o \in DOMAIN bindings \ {b} : bindings[o].ends = ends /\ bindings[o].status # "disabled"

\* Mutant: a change in the same millisecond is accepted.
ensure_not_before(b) == moment >= bindings[b].updated_at

ensure_later(b) == moment > bindings[b].updated_at

\* Mutant: the relation of the old ends is left as it is.
binding_rows_new_only(b, binding) ==
    Row(Configured(b, binding.ends), relation_lifecycle(binding.status))

\* binding_commit: the relation of the new ends follows the status; that of the
\* old ends, if they are others, is tombstoned.
binding_rows(b, binding) ==
    LET new == Row(Configured(b, binding.ends), relation_lifecycle(binding.status))
    IN  IF b \in DOMAIN bindings /\ bindings[b].ends # binding.ends
          THEN Upserted(new, Row(Configured(b, bindings[b].ends), "tombstoned"))
          ELSE new

\* commit_binding.
commit_binding(b, binding) ==
    LET rows == binding_rows(b, binding)
    IN  /\ bindings' = Upserted(Row(b, binding), bindings)
        /\ upsert_relations(rows)
        /\ insert_relation_versions(rows)
        /\ UNCHANGED <<moment, lifecycle, outputs>>

create(b, ends) ==
    /\ b \notin used
    /\ ends[1] # ends[2] /\ ~Duplicate(ends, b)
    /\ used' = used \cup {b}
    /\ commit_binding(b, [ends |-> ends, status |-> endpoint_status(ends), updated_at |-> moment])

\* A binding that is disabled stays so, and may then be like another.
update(b, ends) ==
    /\ b \in DOMAIN bindings
    /\ ends[1] # ends[2] /\ ensure_later(b)
    /\ LET off == bindings[b].status = "disabled"
       IN  /\ off \/ ~Duplicate(ends, b)
           /\ commit_binding(b, [ends |-> ends, updated_at |-> moment,
                                 status |-> IF off THEN "disabled" ELSE endpoint_status(ends)])
    /\ UNCHANGED used

disable(b) ==
    /\ b \in DOMAIN bindings /\ bindings[b].status # "disabled"
    /\ ensure_later(b)
    /\ commit_binding(b, [bindings[b] EXCEPT !.status = "disabled", !.updated_at = moment])
    /\ UNCHANGED used

\* The status follows the resources again.
reconcile(b) ==
    /\ b \in DOMAIN bindings
    /\ bindings[b].status \notin {"disabled", endpoint_status(bindings[b].ends)}
    /\ ensure_later(b)
    /\ commit_binding(b, [bindings[b] EXCEPT !.status = endpoint_status(bindings[b].ends),
                                             !.updated_at = moment])
    /\ UNCHANGED used

-----------------------------------------------------------------------------
(* Inference.                                                              *)

\* normalize_candidate and validate_candidate.
validate_candidate(c) ==
    /\ c.ends[1] # c.ends[2] /\ c.inputs # {}
    /\ {c.ends[1], c.ends[2]} \subseteq Active
    /\ c.inputs \subseteq Stored

\* The id of a relation leaves the confidence out.
ConflictingOutput(rule, candidates) ==
    \E c, d \in candidates : Inferred(rule, c) = Inferred(rule, d) /\ c # d

inferred_relations_for_rule(rule) == {k \in DOMAIN relations : k.by = rule}

\* The relations of the rule that are no longer produced.
Stale(rule, produced) ==
    {k \in inferred_relations_for_rule(rule) \ produced : relations[k] # "tombstoned"}

\* InferenceEngine::run: all of it or nothing.
run(rule, candidates) ==
    LET produced == {Inferred(rule, c) : c \in candidates}
        rows == Upserted([k \in produced |-> "active"],
                         [k \in Stale(rule, produced) |-> "tombstoned"])
    IN  /\ Cardinality(candidates) <= MaxCandidates
        /\ \A c \in candidates : validate_candidate(c)
        /\ ~ConflictingOutput(rule, candidates)
        /\ upsert_relations(rows)
        /\ insert_relation_versions(rows)
        /\ outputs' = [outputs EXCEPT ![rule] = produced]
        /\ UNCHANGED <<moment, lifecycle, bindings, used>>

-----------------------------------------------------------------------------
(* The resources.                                                          *)

\* A sync finds a resource gone, or sees it again.  After a purge its id is not
\* used again: it is made from the id of the connection.
Observe(r) ==
    /\ r \in Stored
    /\ lifecycle' = [lifecycle EXCEPT ![r] = IF @ = "active" THEN "tombstoned" ELSE "active"]
    /\ UNCHANGED <<moment, bindings, used, relations, versions, outputs, clashed>>

\* The relations that a purge removes, and the bindings, by the ends they have now.
PurgedRelations(c) ==
    {k \in DOMAIN relations : \E i \in {1, 2} : KeptBy[k.ends[i]] = c /\ k.ends[i] \in Stored}
PurgedBindings(c) ==
    {b \in DOMAIN bindings : \E i \in {1, 2} :
        KeptBy[bindings[b].ends[i]] = c /\ bindings[b].ends[i] \in Stored}

\* purge_connection.
PurgeThings(c) ==
    LET gone == PurgedRelations(c)
    IN  /\ \E r \in Stored : KeptBy[r] = c
        /\ relations' = Restrict(relations, DOMAIN relations \ gone)
        /\ versions' = Restrict(versions, DOMAIN versions \ gone)
        /\ outputs' = [r \in Rules |-> outputs[r] \ gone]
        /\ bindings' = Restrict(bindings, DOMAIN bindings \ PurgedBindings(c))
        /\ lifecycle' = Restrict(lifecycle, {r \in Stored : KeptBy[r] # c})
        /\ clashed' = clashed \ gone
        /\ UNCHANGED <<moment, used>>

Pass ==
    /\ moment < MaxMoment
    /\ moment' = moment + 1
    /\ UNCHANGED <<lifecycle, bindings, used, relations, versions, outputs, clashed>>

RelationsNext ==
    \/ \E b \in BindingIds :
          \/ \E ends \in Pairs : create(b, ends) \/ update(b, ends)
          \/ disable(b) \/ reconcile(b)
    \/ \E rule \in Rules, candidates \in Proposals : run(rule, candidates)
    \/ \E r \in Things : Observe(r)
    \/ \E c \in {KeptBy[r] : r \in Things} : PurgeThings(c)
    \/ Pass

RelationsSpec == RelationsInit /\ [][RelationsNext]_relationVars

-----------------------------------------------------------------------------
\* The relations follow what they come from: no two bindings that are enabled say
\* the same; the relation of a binding has the lifecycle of its status and every
\* other relation it ever had is tombstoned; the relations of a rule that are
\* active are what its last run has produced, less what was purged
\* (BindingService, InferenceEngine::run, purge_connection).
RelationsFollow ==
    /\ \A a, b \in DOMAIN bindings :
          a # b /\ bindings[a].ends = bindings[b].ends
            => "disabled" \in {bindings[a].status, bindings[b].status}
    /\ \A b \in DOMAIN bindings :
          /\ Configured(b, bindings[b].ends) \in DOMAIN relations
          /\ \A k \in DOMAIN relations : k.by = b =>
                relations[k] = IF k.ends = bindings[b].ends
                                           THEN relation_lifecycle(bindings[b].status)
                                           ELSE "tombstoned"
    /\ \A rule \in Rules :
          {k \in inferred_relations_for_rule(rule) : relations[k] = "active"} = outputs[rule]

\* The newest version of a relation shows the lifecycle the relation has: two
\* changes of a binding never fall into one millisecond, where the second version
\* would be ignored (ensure_later, insert_relation_version).  An inference has no
\* such rule, and a relation it has changed twice in one millisecond is left out.
VersionsMatch ==
    \A k \in DOMAIN relations :
        \/ k \in DOMAIN versions /\ versions[k].lifecycle = relations[k]
        \/ k.by \in Rules /\ k \in clashed

=============================================================================
