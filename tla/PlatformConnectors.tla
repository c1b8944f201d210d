------------------------ MODULE PlatformConnectors -------------------------
(***************************************************************************)
(* The connectors of Dokploy, Cloudflare, managed and self-hosted Supabase *)
(* and the fixture.  Their limits and failures are decided per listing: a  *)
(* listing is read whole or not at all.                                    *)
(***************************************************************************)
EXTENDS ConnectorSync

PlatformFaults == {"auth", "permission", "rate_limited", "unavailable", "invalid",
                   "garbled", "unmappable", "no_total"}

\* Bodies that only the parser or the mapper refuses, later.
Unfit(reply) == reply \in {"garbled", "unmappable"}

-----------------------------------------------------------------------------
(* Dokploy: projects with their applications, servers, and a walk over the *)
(* applications.  Here a request is an endpoint, as request_count has it.  *)

\* The configuration, the credential and the mode.
dokploy_refuses ==
    IF config \in {"type", "content"} THEN "config"
    ELSE IF config = "schema" THEN "schema"
    ELSE IF config = "no_secret" THEN "credential"
    ELSE IF mode # "full" THEN "config"
    ELSE "none"
dokploy_validate == config \notin {"type", "content", "schema", "no_secret"}

dokploy_listings == <<Root("projects"), Root("servers")>>

\* 200 requests, where the walk is 50 applications long.
dokploy_request_budget == 4 * WalkCap

\* The applications that are walked, two endpoints each.
dokploy_walk(apps) ==
    [i \in 1 .. 2 * (IF apps < WalkCap THEN apps ELSE WalkCap) |->
        Of(IF i % 2 = 1 THEN "deployments" ELSE "app_domains", (i + 1) \div 2)]

\* What parse_pages and the mapper accept.
dokploy_parse_pages(reply) == reply # "garbled"
dokploy_map(reply) == reply # "unmappable"

\* fetch_pages follows the cursor to its end, and the pages are parsed only then;
\* every failure on the way, the page limit too, is the end of the sync.
dokploy_fetch(reply) ==
    LET got == cur.got + Items
        apps == IF Here.module = "projects" THEN got ELSE acc.used
        walked == IF Here.module = "servers" THEN dokploy_walk(acc.used) ELSE Tail(todo)
        spent == Here.parent > 0 /\ acc.requests >= dokploy_request_budget
        skipped == {Of("deployments", a) : a \in (WalkCap + 1) .. acc.used}
        parsed == IF dokploy_parse_pages(reply) THEN acc.failure ELSE "garbled"
    IN  /\ Asking("dokploy")
        /\ Reply(reply)
        /\ reply # "no_total"
        /\ reply = "unmappable" => Items = 1
        /\ CASE spent ->
                  /\ acc' = [acc EXCEPT !.failure = "budget"]
                  /\ Left(InSeq(todo), "limit") /\ Open(<<>>)
                  /\ UNCHANGED out
             [] ~spent /\ cur.page > PageCap ->
                  Fatal("budget") /\ UNCHANGED <<acc, unread>>
             [] ~spent /\ cur.page <= PageCap /\ reply \notin {"page", "unmappable", "garbled"} ->
                  Fatal(reply) /\ UNCHANGED <<acc, unread>>
             [] OTHER ->
                  CASE got < cur.size ->
                         /\ cur' = [cur EXCEPT !.page = @ + 1, !.got = got]
                         /\ acc' = [acc EXCEPT !.bad = Bad(~dokploy_map(reply)), !.failure = parsed]
                         /\ UNCHANGED <<todo, unread, out>>
                    [] got >= cur.size /\ parsed = "garbled" ->
                         Fatal("invalid") /\ UNCHANGED <<acc, unread>>
                    [] OTHER ->
                         /\ acc' = [acc EXCEPT !.found = IF got > 0 THEN @ \cup {Here} ELSE @,
                                               !.requests = @ + 1, !.used = apps,
                                               !.bad = Bad(~dokploy_map(reply))]
                         /\ Left(IF Here.module = "servers" THEN skipped ELSE {}, "not opened")
                         /\ Open(walked)
                         /\ UNCHANGED out
        /\ UNCHANGED <<request, cache>>

\* Where both ends were observed; an application is part of its project.
dokploy_map_relations ==
    Observed({<<"projects", "servers">>, <<"projects", "deployments">>,
              <<"projects", "app_domains">>})

dokploy_finish == IF acc.bad # {} THEN Failed("invalid")
                  ELSE Concluded("full", acc.failure, dokploy_map_relations)

DokployFinish ==
    /\ Done("dokploy")
    /\ out' = dokploy_finish
    /\ UNCHANGED <<request, todo, cur, acc, unread, faults, cache>>

-----------------------------------------------------------------------------
(* Cloudflare: accounts and zones, then the records of the zones and the   *)
(* tunnels and workers of the accounts.                                    *)

cloudflare_refuses ==
    IF config \in {"type", "content"} THEN "config"
    ELSE IF config = "schema" THEN "schema"
    ELSE IF config = "no_secret" THEN "credential"
    ELSE IF mode # "full" THEN "config"
    ELSE "none"
cloudflare_validate == config \notin {"type", "content", "schema", "no_secret"}

cloudflare_listings == <<Root("accounts"), Root("zones")>>
cloudflare_children(accounts, zones) ==
    Children("dns_records", zones) \o Children("tunnels", accounts)
    \o Children("workers", accounts)

\* The number of pages is clamped to the limit of the loop, whose check is
\* never reached.
page_count(reply) ==
    IF reply = "no_total" \/ cur.size < 1 THEN 1
    ELSE IF cur.size > PageCap THEN PageCap ELSE cur.size

\* The listing has been read, as far as page_count goes.
CloudflareMerge(got, reply) ==
    /\ acc' = [acc EXCEPT !.found = IF got > 0 THEN @ \cup {Here} ELSE @,
                          !.requests = @ + 1,
                          !.used = IF Here.module = "accounts" THEN got ELSE @,
                          !.bad = Bad(Unfit(reply))]
    /\ Left(IF got < cur.size THEN {Here} ELSE {},
            IF reply = "no_total" THEN "no total" ELSE "page limit")
    /\ Open(IF Here.module = "zones" THEN cloudflare_children(acc.used, got) ELSE Tail(todo))

\* The failures of one module are kept in a hash map, so any of them may be
\* the one that is reported; the modules have an order.
cloudflare_primary(code) ==
    CASE acc.failure = "none" -> {code}
      [] /\ acc.failure # "none"
         /\ \A u \in unread : u.why = "failed" => u.listing.module = Here.module
           -> {acc.failure, code}
      [] OTHER -> {acc.failure}

\* One page.  Failures of accounts and zones are fatal.  Of a child nothing is
\* kept after a failure, its earlier pages neither; a refused credential is not
\* even reported.
cloudflare_fetch(reply) ==
    LET got == cur.got + Items
        fails == reply \notin {"page", "no_total", "unmappable"}
        code == IF reply = "garbled" THEN "invalid" ELSE reply
    IN  /\ Asking("cloudflare")
        /\ Reply(reply)
        /\ reply = "unmappable" => Items = 1
        /\ CASE ~fails /\ cur.page < page_count(reply) ->
                  /\ cur' = [cur EXCEPT !.page = @ + 1, !.got = got]
                  /\ acc' = [acc EXCEPT !.requests = @ + 1, !.bad = Bad(Unfit(reply))]
                  /\ UNCHANGED <<todo, unread, out>>
             [] ~fails /\ cur.page >= page_count(reply) ->
                  CloudflareMerge(got, reply) /\ UNCHANGED out
             [] fails /\ Here.parent = 0 ->
                  Fatal(code) /\ UNCHANGED <<acc, unread>>
             [] fails /\ Here.parent > 0 /\ code = "auth" ->
                  /\ acc' = [acc EXCEPT !.requests = @ + 1, !.bad = @ \ {Here}]
                  /\ Left({Here}, "refused")
                  /\ Open(Tail(todo))
                  /\ UNCHANGED out
             [] OTHER ->
                  /\ \E f \in cloudflare_primary(code) :
                        acc' = [acc EXCEPT !.requests = @ + 1, !.failure = f,
                                             !.bad = @ \ {Here}]
                  /\ Left({Here}, "failed")
                  /\ Open(Tail(todo))
                  /\ UNCHANGED out
        /\ UNCHANGED <<request, cache>>

\* Where both ends were observed.
cloudflare_map_relations ==
    Observed({<<"accounts", "zones">>, <<"accounts", "tunnels">>, <<"accounts", "workers">>,
              <<"zones", "dns_records">>})

\* An item that the mapper refuses, a DNS record of another type for one, is
\* the end of the sync.
cloudflare_finish == IF acc.bad # {} THEN Failed("invalid")
                     ELSE Concluded("full", acc.failure, cloudflare_map_relations)

CloudflareFinish ==
    /\ Done("cloudflare")
    /\ out' = cloudflare_finish
    /\ UNCHANGED <<request, todo, cur, acc, unread, faults, cache>>

-----------------------------------------------------------------------------
(* Supabase: documents that are read whole.                                *)

supabase_managed_refuses ==
    CASE config = "type" -> "config"
      [] config \in {"content", "schema"} -> "schema"
      [] config = "no_secret" -> "credential"
      [] OTHER -> "none"
supabase_managed_validate == config \notin {"type", "content", "schema", "no_secret"}
supabase_managed_listings == <<Root("projects"), Root("organizations")>>

\* The two documents are requested first and parsed afterwards.
supabase_managed_get(reply) ==
    /\ Asking("supabase-managed")
    /\ Reply(reply)
    /\ reply = "unmappable" => cur.size > 0
    /\ IF reply \in {"auth", "unavailable"}
         THEN Fatal(reply) /\ UNCHANGED acc
         ELSE /\ acc' = [acc EXCEPT !.found = IF cur.size > 0 THEN @ \cup {Here} ELSE @,
                                    !.requests = @ + 1, !.bad = Bad(Unfit(reply))]
              /\ Open(Tail(todo))
              /\ UNCHANGED out
    /\ UNCHANGED <<request, unread, cache>>

managed_relations == Observed({<<"organizations", "projects">>})

SupabaseManagedFinish ==
    /\ Done("supabase-managed")
    /\ out' = IF acc.bad # {} THEN Failed("invalid") ELSE Concluded("full", "none", managed_relations)
    /\ UNCHANGED <<request, todo, cur, acc, unread, faults, cache>>

\* The self-hosted connector looks at the type alone, and needs no secret.
supabase_self_hosted_refuses == IF config = "type" THEN "config" ELSE "none"
supabase_self_hosted_validate == config # "type"

map_table_relations == {<<Root("instance"), Root("tables")>>}

\* One document; the tables beyond the limit are a gap.
supabase_self_hosted_sync(reply) ==
    LET truncated == cur.size > WalkCap
        found == {Root("instance")} \cup (IF cur.size > 0 THEN {Here} ELSE {})
    IN  /\ Asking("supabase-self-hosted")
        /\ Reply(reply)
        /\ reply = "unmappable" => cur.size > 0
        /\ IF reply # "page"
             THEN Fatal(IF Unfit(reply) THEN "invalid" ELSE reply) /\ UNCHANGED <<acc, unread>>
             ELSE /\ acc' = [acc EXCEPT !.found = found, !.requests = 1,
                                        !.failure = IF truncated THEN "budget" ELSE "none"]
                  /\ Left(IF truncated THEN {Here} ELSE {}, "limit")
                  /\ Open(Tail(todo))
                  /\ out' = Concluded("full", IF truncated THEN "budget" ELSE "none",
                                      IF cur.size > 0 THEN map_table_relations ELSE {})
        /\ UNCHANGED <<request, cache>>

-----------------------------------------------------------------------------
(* The fixture replays a plan, which says what it covers.                  *)

fixture_refuses == IF config \in {"type", "secret"} THEN "config" ELSE "none"
fixture_validate == config \notin {"type", "secret"}

\* The step of the plan for the mode: an outcome, a failure, or none at all.
fixture_replay ==
    /\ Done("fixture")
    /\ \/ \E status \in {"complete", "partial"}, coverage \in Coverages \ {"none"} :
            LET o == [status |-> status, coverage |-> coverage,
                      code |-> IF status = "partial" THEN "unavailable" ELSE "none",
                      relations |-> {}]
            IN  out' = IF validate_for(o, mode) THEN o ELSE Failed("config")
       \/ \E code \in {"unavailable", "invalid"} : out' = Failed(code)
    /\ UNCHANGED <<request, todo, cur, acc, unread, faults, cache>>

-----------------------------------------------------------------------------
PlatformStep ==
    \/ \E reply \in (Faults \cap PlatformFaults) \cup {"page"} :
          \/ dokploy_fetch(reply) \/ cloudflare_fetch(reply)
    \/ \E reply \in (Faults \cap {"auth", "unavailable", "garbled", "unmappable"})
                    \cup {"page"} :
          supabase_managed_get(reply) \/ supabase_self_hosted_sync(reply)
    \/ DokployFinish \/ CloudflareFinish \/ SupabaseManagedFinish \/ fixture_replay

=============================================================================
