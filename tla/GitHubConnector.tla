-------------------------- MODULE GitHubConnector --------------------------
(***************************************************************************)
(* The GitHub connector: the selected repositories, and of each its        *)
(* workflows and its latest runs.  One connector object serves all syncs   *)
(* of the host.  It keeps the pages of every listing under the address of  *)
(* the first page, with the ETag of the first page, and the routes of the  *)
(* repositories that the last full sync has seen.                          *)
(***************************************************************************)
EXTENDS ConnectorSync

\* Replies of the transport and of classify_status besides a page.
GitHubFaults == {"auth", "permission", "rate_limited", "unavailable", "invalid",
                 "garbled", "unmappable"}
\* What arrives with a status of success, and what of it can be parsed and mapped.
Bodies == {"page", "garbled", "unmappable"}
github_deserialize(reply) == reply # "garbled"
github_map(reply) == reply # "unmappable"

\* The pages that a fetch may have: 20, 1, 2 and 1.
github_max_pages(m) == IF m = "repositories" THEN PageCap ELSE IF m = "workflows" THEN 2 ELSE 1

NoCache == [pages |-> {}, routes |-> {}]

-----------------------------------------------------------------------------
\* The routes of a targeted sync must be known from an earlier full sync.
targeted_routes(targets) ==
    targets # {} /\ \A t \in targets : t \in cache.routes

\* validate_connection_input and the modes.
github_refuses(targets) ==
    IF config \in {"type", "content"} THEN "config"
    ELSE IF config = "schema" THEN "schema"
    ELSE IF config = "no_secret" THEN "credential"
    ELSE IF mode = "incremental" THEN "config"
    ELSE IF mode = "targeted" /\ ~targeted_routes(targets) THEN "invalid"
    ELSE "none"
github_validate == config \notin {"type", "content", "schema", "no_secret"}

\* What a sync starts with.
github_listings(targets) ==
    IF mode = "full" THEN <<Root("repositories")>>
    ELSE [i \in 1 .. Cardinality(targets) |->
             Of("repository",
                CHOOSE t \in targets : Cardinality({u \in targets : u < t}) = i - 1)]

-----------------------------------------------------------------------------
\* Mutant: every listing has the budget to itself.
RemainingPerListing == RequestBudget - (cur.page - 1)

\* The requests that the batch has left.
Remaining == RequestBudget - acc.requests

\* The parents whose children are read once the repositories are known.  The
\* repository of a targeted sync has its children read after all the others.
github_rest(n) ==
    CASE Here.module = "repositories"
           -> [i \in 1 .. 2 * n |-> Of(IF i % 2 = 1 THEN "workflows" ELSE "runs", (i + 1) \div 2)]
      [] Here.module = "repository" /\ n = 1
           -> Tail(todo) \o <<Of("workflows", Here.parent), Of("runs", Here.parent)>>
      [] OTHER -> Tail(todo)

\* The listing ends with n items read; a full sync remembers its routes.
GitHubMerge(n, failure) ==
    /\ acc' = [acc EXCEPT !.found = IF n > 0 THEN @ \cup {Here} ELSE @,
                          !.failure = IF failure = "none" THEN @ ELSE First(@, failure),
                          !.requests = IF failure = "budget" THEN @ ELSE @ + 1]
    /\ Open(github_rest(n))

Routes(n) == IF Here.module = "repositories" THEN 1 .. n ELSE cache.routes

\* A failure after n pages: required_pages and optional_pages.  The pages that
\* were read are mapped, which is fatal if one of them is unusable.
GitHubGap(n, code) ==
    IF code = "auth" \/ acc.bad # {} \/ (n = 0 /\ Here.module \in {"repositories", "repository"})
      THEN /\ Fatal(IF acc.bad # {} /\ code # "auth" THEN "invalid" ELSE code)
           /\ acc' = [acc EXCEPT !.requests = IF code = "budget" THEN @ ELSE @ + 1]
           /\ UNCHANGED <<unread, cache>>
      ELSE /\ GitHubMerge(n, code)
           /\ Left({Here}, IF code = "budget" THEN "limit" ELSE "failed")
           /\ cache' = [cache EXCEPT !.routes = Routes(n)]
           /\ UNCHANGED out

\* Another page of fetch_pages_with_budget is asked for.
Paging == cur.page <= github_max_pages(Here.module) /\ Remaining > 0

\* One page.  When the listing has ended it is cached; only then are its pages
\* parsed and mapped, and one that is unusable is the end of the sync.
github_fetch(reply) ==
    LET got == cur.got + Items
        bad == Bad(~github_deserialize(reply) \/ ~github_map(reply))
        entry == [listing |-> Here, size |-> cur.size, bad |-> bad # {}]
    IN  /\ Asking("github") /\ Paging
        /\ Reply(reply)
        /\ reply = "unmappable" => Items = 1
        /\ CASE reply \in Bodies /\ got < cur.size ->
                  /\ cur' = [cur EXCEPT !.page = @ + 1, !.got = got]
                  /\ acc' = [acc EXCEPT !.requests = @ + 1, !.bad = bad]
                  /\ UNCHANGED <<todo, unread, cache, out>>
             [] reply \in Bodies /\ got >= cur.size ->
                  /\ cache' = [pages |-> {c \in cache.pages : c.listing # Here} \cup {entry},
                               routes |-> IF bad # {} THEN cache.routes ELSE Routes(got)]
                  /\ IF bad # {}
                       THEN Fatal("invalid") /\ acc' = [acc EXCEPT !.requests = @ + 1]
                       ELSE GitHubMerge(got, "none") /\ UNCHANGED out
                  /\ UNCHANGED unread
             [] OTHER -> GitHubGap(cur.got, reply)
        /\ UNCHANGED request

\* The page limit of a fetch, or the request budget in the middle of one.
GitHubPageLimit ==
    /\ Asking("github") /\ ~Paging
    /\ cur.page > 1
    /\ GitHubGap(cur.got, "budget")
    /\ UNCHANGED <<request, faults>>

\* Mutant: the budget that is used up is only noticed inside a listing.
budget_unnoticed ==
    /\ Asking("github") /\ Remaining = 0 /\ cur.page > 1
    /\ acc' = [acc EXCEPT !.failure = First(@, "budget")]
    /\ Left(InSeq(todo), "limit")
    /\ Open(<<>>)
    /\ UNCHANGED <<request, faults, cache, out>>

\* The request budget of the sync is used up: nothing more is opened.
mark_budget_exhausted ==
    /\ Asking("github") /\ Remaining = 0 /\ cur.page = 1
    /\ acc' = [acc EXCEPT !.failure = First(@, "budget")]
    /\ Left(InSeq(todo), "limit")
    /\ Open(<<>>)
    /\ UNCHANGED <<request, faults, cache, out>>

\* fetch_cached: the first page is as it was when it was cached, so the
\* provider may say so, and the cached pages are used, all of them.
github_not_modified ==
    /\ Asking("github") /\ Paging /\ cur.page = 1
    /\ \E c \in cache.pages :
          /\ c.listing = Here
          /\ (c.size = 0) = (cur.size = 0)
          /\ IF c.bad
               THEN /\ Fatal("invalid")
                    /\ acc' = [acc EXCEPT !.requests = @ + 1]
                    /\ UNCHANGED <<unread, cache>>
               ELSE /\ GitHubMerge(c.size, "none")
                    /\ Left(IF c.size = cur.size THEN {} ELSE {Here}, "cached")
                    /\ cache' = [cache EXCEPT !.routes = Routes(c.size)]
                    /\ UNCHANGED out
    /\ UNCHANGED <<request, faults>>

-----------------------------------------------------------------------------
\* A repository contains its workflows; a run names its workflow whether or
\* not that is in the batch.
github_relations ==
    {r \in acc.found \X acc.found : /\ r[1].module \in {"repositories", "repository"}
                                   /\ r[1].parent \in {0, r[2].parent}
                                   /\ r[2].module = "workflows"}
    \cup {<<Of("workflows", l.parent), l>> : l \in {k \in acc.found : k.module = "runs"}}

github_finish == Concluded(IF mode = "targeted" THEN "targeted" ELSE "full",
                           acc.failure, github_relations)

GitHubFinish ==
    /\ Done("github")
    /\ out' = github_finish
    /\ UNCHANGED <<request, todo, cur, acc, unread, faults, cache>>

GitHubStep ==
    \/ \E reply \in (Faults \cap GitHubFaults) \cup {"page"} : github_fetch(reply)
    \/ GitHubPageLimit \/ mark_budget_exhausted \/ github_not_modified \/ GitHubFinish

=============================================================================
