--------------------------- MODULE ConnectorSync ---------------------------
(***************************************************************************)
(* One synchronisation by a read connector: the state that the connectors  *)
(* have in common and the contract of the connector API that they answer   *)
(* to.  The connectors are in CloudConnectors, GitHubConnector,            *)
(* SshConnector and PlatformConnectors; Connectors composes them.          *)
(*                                                                         *)
(* Data abstraction.  A connector reads listings: all pages of a module,   *)
(* or of a module for one parent.  A page has one item, and items are      *)
(* numbered in the order of the listing, so the limits of the code (pages  *)
(* of 100, 100 pages, 20 domains, ...) become the small constants below.   *)
(* How many items the provider has is chosen when a listing is opened.     *)
(* What the fields of a resource hold is in the normalizer and the engine. *)
(***************************************************************************)
EXTENDS Naturals, Sequences, FiniteSets, ConnectorSchemas

CONSTANTS
    Requests,       \* the first request: connector, mode, state of the configuration
    Modes,          \* modes of later requests
    Stocked,        \* bound: the modules that the provider may have items of
    Faults,         \* replies besides the page that was asked for
    MaxFaults,      \* bound: such replies in a history
    MaxItems,       \* bound: items of a listing
    PageCap,        \* MAX_PAGES_PER_MODULE, MAX_PAGES_PER_ENDPOINT
    RecordCap,      \* MAX_RESOURCES_PER_MODULE
    DomainCap,      \* MAX_DNS_DOMAINS
    WalkCap,        \* MAX_APPLICATIONS_WALK, MAX_TABLES
    RequestBudget,  \* MAX_REQUESTS_PER_BATCH of the GitHub connector
    MaxSyncs        \* bound: syncs by one connector object

ASSUME ConnectorAssumption ==
    /\ MaxFaults \in Nat /\ MaxItems \in Nat /\ MaxSyncs \in Nat
    /\ PageCap \in Nat \ {0} /\ RecordCap \in Nat \ {0}
    /\ DomainCap \in Nat \ {0} /\ WalkCap \in Nat \ {0}
    /\ RequestBudget \in Nat \ {0}
    /\ \A r \in Requests : r = <<r[1], r[2], r[3]>> /\ r[2] \in Modes

VARIABLES
    connector,  \* which connector is running
    mode,       \* SyncRequest.mode
    config,     \* the state of the configuration and the credential
    todo,       \* the listings left to read, the current one first
    cur,        \* how far the current listing is
    acc,        \* what the sync has collected
    unread,     \* history: listings left with items unread, and why
    faults,     \* history: replies other than the page asked for
    out,        \* the SyncOutcome, or the failure
    cache,      \* GitHub: pages and routes kept between syncs
    syncs       \* syncs so far

vars == <<connector, mode, config, todo, cur, acc, unread, faults, out, cache, syncs>>
request == <<connector, mode, config, syncs>>

-----------------------------------------------------------------------------
(* Vocabulary.                                                             *)

\* ErrorCode, of which the connectors tell these apart.
Codes == {"auth", "credential", "permission", "rate_limited", "unavailable",
          "invalid", "budget", "host_key", "cancelled", "config", "schema"}

Coverages == {"full", "incremental", "targeted", "partial", "none"}

Modules == {"compute", "vpc", "subnet", "security_group", "balancer", "domains",
            "records", "public_ip", "repositories", "repository", "workflows", "runs",
            "identity", "uptime", "filesystems", "process_summary", "services",
            "projects", "servers", "deployments", "app_domains", "accounts", "zones",
            "dns_records", "tunnels", "workers", "organizations", "instance", "tables"}

Of(m, p) == [module |-> m, parent |-> p]
Root(m) == Of(m, 0)
Here == Head(todo)

-----------------------------------------------------------------------------
(* The contract of the connector API.                                      *)

accepts_coverage(m, coverage) ==
    <<m, coverage>> \in {<<"full", "full">>, <<"incremental", "incremental">>,
                         <<"targeted", "targeted">>}
        \cup {<<x, "partial">> : x \in {"full", "incremental", "targeted"}}

\* SyncOutcome::validate_for.
validate_for(o, m) ==
    /\ accepts_coverage(m, o.coverage)
    /\ (o.status = "partial") = (o.coverage = "partial")

NoOutcome(status) == [status |-> status, coverage |-> "none", code |-> "none",
                      relations |-> {}]
Failed(code) == [NoOutcome("error") EXCEPT !.code = code]

\* The modules that the batch has resources of, and the relations between them.
FoundModules == {l.module : l \in acc.found}
ModulesOf(relations) == {<<r[1].module, r[2].module>> : r \in relations}

\* The end that the connectors share: partial after a failure, and otherwise
\* the coverage of a complete answer; what the contract forbids is an error,
\* and so is a batch that the application's normalizer does not know.
Concluded(coverage, failure, relations) ==
    LET o == [status |-> IF failure = "none" THEN "complete" ELSE "partial",
              coverage |-> IF failure = "none" THEN coverage ELSE "partial",
              code |-> failure, relations |-> relations]
    IN  IF ~validate_for(o, mode) THEN Failed("invalid")
        ELSE IF ~Registered(connector, FoundModules, ModulesOf(relations)) THEN Failed("schema")
        ELSE o

-----------------------------------------------------------------------------
(* Steps that the connectors share.                                        *)

Empty == [found |-> {}, failure |-> "none", requests |-> 0, used |-> 0, bad |-> {}]

\* A workflow run belongs to a workflow, and the workflows of the repository are
\* the listing before; every document is there once.
Sizes(l) ==
    IF l.module \notin Stocked THEN {0}
    ELSE CASE l.module = "runs" -> IF cur.size > 0 THEN 0 .. MaxItems ELSE {0}
           [] l.module \in {"repository", "identity", "uptime", "filesystems",
                            "process_summary", "services"} -> {1}
           [] OTHER -> 0 .. MaxItems

\* A listing is opened at its first page.
Fresh(rest) ==
    {[page |-> 1, got |-> 0, retries |-> 0, size |-> n] :
        n \in IF rest = <<>> THEN {0} ELSE Sizes(Head(rest))}

Open(rest) == todo' = rest /\ cur' \in Fresh(rest)

\* The items on the page that is asked for.
Items == IF cur.page <= cur.size THEN 1 ELSE 0

\* A reply of the provider: the page, or one of the faults.  Refusals of one
\* request and of its retries are one fault.
Reply(reply) ==
    \/ reply = "page" /\ UNCHANGED faults
    \/ /\ reply \in Faults
       /\ IF cur.retries > 0 /\ reply = "rate_limited"
            THEN UNCHANGED faults
            ELSE faults < MaxFaults /\ faults' = faults + 1

Asking(c) == connector = c /\ out.status = "running" /\ todo # <<>>
Done(c) == connector = c /\ out.status = "running" /\ todo = <<>>

\* The end of the sync with an error; what was collected is dropped.
Fatal(code) ==
    /\ out' = Failed(code)
    /\ todo' = <<>> /\ cur' \in Fresh(<<>>)

\* The listings ls are left with something unread.
Left(ls, why) == unread' = unread \cup {[listing |-> l, why |-> why] : l \in ls}

\* The listings that have an item which the parser or the mapper will refuse.
Bad(unfit) == IF unfit THEN acc.bad \cup {Here} ELSE acc.bad

\* The listings of a sequence.
InSeq(s) == {s[i] : i \in 1 .. Len(s)}

\* The listings of module m for the parents 1 .. n.
Children(m, n) == [p \in 1 .. n |-> Of(m, p)]

\* The failure that was met first is the one that is reported.
First(failure, code) == IF failure = "none" THEN code ELSE failure

\* Relations between two modules, given where both ends are in the batch.
Observed(pairs) ==
    {r \in acc.found \X acc.found : <<r[1].module, r[2].module>> \in pairs}

=============================================================================
