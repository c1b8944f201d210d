---------------------------- MODULE Connectors ----------------------------
(***************************************************************************)
(* The connectors of the desktop application, one sync of one of them at a *)
(* time, and for GitHub, whose connector object keeps pages and routes, a  *)
(* number of syncs one after the other.                                    *)
(***************************************************************************)
EXTENDS CloudConnectors, GitHubConnector, SshConnector, PlatformConnectors

-----------------------------------------------------------------------------
\* ReadConnector::sync before the first request: the error, or none.
Refuses(targets) ==
    CASE connector = "aliyun" -> aliyun_refuses
      [] connector = "tencent" -> tencent_refuses
      [] connector = "github" -> github_refuses(targets)
      [] connector = "ssh" -> ssh_refuses
      [] connector = "dokploy" -> dokploy_refuses
      [] connector = "cloudflare" -> cloudflare_refuses
      [] connector = "supabase-managed" -> supabase_managed_refuses
      [] connector = "supabase-self-hosted" -> supabase_self_hosted_refuses
      [] OTHER -> fixture_refuses

\* The listings that a sync starts with.
Listings(targets) ==
    CASE connector = "aliyun" -> aliyun_modules
      [] connector = "tencent" -> tencent_modules
      [] connector = "github" -> github_listings(targets)
      [] connector = "ssh" -> <<Root("identity")>>
      [] connector = "dokploy" -> dokploy_listings
      [] connector = "cloudflare" -> cloudflare_listings
      [] connector = "supabase-managed" -> supabase_managed_listings
      [] connector = "supabase-self-hosted" -> <<Root("tables")>>
      [] OTHER -> <<>>

\* ReadConnector::validate, for a connection whose provider answers.
Validates ==
    CASE connector = "aliyun" -> aliyun_validate
      [] connector = "tencent" -> tencent_validate
      [] connector = "github" -> github_validate
      [] connector = "ssh" -> ssh_validate
      [] connector = "dokploy" -> dokploy_validate
      [] connector = "cloudflare" -> cloudflare_validate
      [] connector = "supabase-managed" -> supabase_managed_validate
      [] connector = "supabase-self-hosted" -> supabase_self_hosted_validate
      [] OTHER -> fixture_validate

-----------------------------------------------------------------------------
Init ==
    /\ \E r \in Requests : connector = r[1] /\ mode = r[2] /\ config = r[3]
    /\ todo = <<>> /\ cur \in Fresh(<<>>)
    /\ acc = Empty /\ unread = {} /\ faults = 0
    /\ out = NoOutcome("new")
    /\ cache = NoCache /\ syncs = 1

\* A sync starts, or is refused.  targets: of a targeted GitHub sync.
Begin ==
    /\ out.status = "new"
    /\ \E targets \in IF connector = "github" /\ mode = "targeted"
                        THEN SUBSET (1 .. MaxItems) ELSE {{}} :
          IF Refuses(targets) = "none"
            THEN out' = NoOutcome("running") /\ Open(Listings(targets))
            ELSE Fatal(Refuses(targets))
    /\ UNCHANGED <<request, acc, unread, faults, cache>>

\* The next sync by the same connector object.
Again ==
    /\ connector = "github" /\ out.status \in {"complete", "partial", "error"}
    /\ syncs < MaxSyncs
    /\ syncs' = syncs + 1
    /\ mode' \in Modes
    /\ todo' = <<>> /\ cur' \in Fresh(<<>>)
    /\ acc' = Empty /\ unread' = {}
    /\ out' = NoOutcome("new")
    /\ UNCHANGED <<connector, config, faults, cache>>

Step == Begin \/ CloudStep \/ GitHubStep \/ SshStep \/ PlatformStep
Next == Step \/ Again

Spec == Init /\ [][Next]_vars
\* A sync is one task of the runtime, which polls it until it returns; every
\* request has a time-out.
FairSpec == Spec /\ WF_vars(Step)

-----------------------------------------------------------------------------
\* The ways in which the code of a connector leaves items of a listing unread
\* and says nothing.
SilentReasons ==
    CASE connector \in Clouds
           -> {"domain limit", "shared total", "no total", "empty page", "no list"}
      [] connector = "cloudflare" -> {"refused", "page limit", "no total"}
      [] connector = "dokploy" -> {"not opened"}
      [] connector = "github" -> {"cached"}
      [] OTHER -> {}

\* Whatever fails or is cut by a limit the connector knows of shows in the
\* outcome: a sync that is reported complete has left nothing unread but for
\* the silent reasons above.  The engine takes a full coverage as evidence
\* that what is not in the batch is gone, so one failure that is lost on the
\* way through retries, paging, walks and merges becomes wrong tombstones.
GapsKnown ==
    out.status = "complete" => \A u \in unread : u.why \in SilentReasons

\* The requests of one sync are bounded whatever the provider answers: pages,
\* retries, the walk over parents and the budget each have a limit.  The records
\* of a domain of Tencent have no limit of pages: a page with a record that
\* cannot be mapped does not count, so the bound grows with such replies.
RequestLimit ==
    CASE connector = "aliyun"
           -> (MAX_RETRIES + 1) * PageCap * (7 + DomainCap)
      [] connector = "tencent"
           -> (MAX_RETRIES + 1) * (7 * PageCap + RecordCap + DomainCap + faults)
      [] connector = "github" -> RequestBudget
      [] connector = "ssh" -> 5
      [] connector = "dokploy" -> 2 + 2 * WalkCap
      [] connector = "cloudflare" -> PageCap * (2 + 3 * PageCap)
      [] OTHER -> 2
RequestsBounded == acc.requests <= RequestLimit

\* What a connector declares holds of its syncs.  A connection that validate
\* accepts is not refused, in a mode that the descriptor has, for its type, its
\* schema or its credential, not by the application's normalizer either; but the
\* clouds look at the content in sync alone, Cloudflare declares the targeted
\* mode and refuses it, and the fixture has a plan instead.  What a sync has
\* found, and its relations, are of kinds that the descriptor has.
Refusable ==
    \/ connector \in Clouds /\ config \in {"content", "region"}
    \/ connector = "cloudflare" /\ mode = "targeted"
    \/ connector = "fixture"
DeclaredRuns ==
    (Validates /\ mode \in DescriptorOf(connector).sync_modes /\ ~Refusable)
    => ~(out.status = "error" /\ out.code \in {"config", "schema", "credential"})
DeclaredKinds ==
    out.status \in {"complete", "partial"} =>
      /\ UNION {KindsOf(x) : x \in FoundModules} \subseteq DescriptorOf(connector).kinds
      /\ \A r \in ModulesOf(out.relations) :
            KindsOf(r[1]) \X KindsOf(r[2]) \subseteq DescriptorOf(connector).relations
DescriptorKept == DeclaredRuns /\ DeclaredKinds

\* Every sync returns.
Terminates == out.status = "new" ~> out.status \in {"complete", "partial", "error"}

=============================================================================
