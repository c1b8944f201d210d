-------------------------- MODULE CloudConnectors --------------------------
(***************************************************************************)
(* The Aliyun and the Tencent connector.  Each reads seven modules one     *)
(* after the other and goes on after a module has failed; the DNS module   *)
(* lists the domains first and then the records of each domain.  The two   *)
(* crates are copies that differ in a few places: the operators that they  *)
(* share come first, then the operations of each crate.                    *)
(***************************************************************************)
EXTENDS ConnectorSync

Clouds == {"aliyun", "tencent"}

\* Replies of a transport besides the page, and bodies that are not one.
CloudFaults == {"auth", "rate_limited", "unavailable", "garbled", "unmappable",
                "no_total", "empty", "no_list"}

MAX_RETRIES == 2

-----------------------------------------------------------------------------
(* What the body of a reply is read as: refused, or items and a total.     *)

Refused == [ok |-> FALSE, items |-> 0, total |-> 0]
Envelope(items, total) == [ok |-> TRUE, items |-> items, total |-> total]

\* A page without a total counts as the last one; a body without a list has
\* no page size either and is refused.
aliyun_parse_page_envelope(reply) ==
    CASE reply = "page" -> Envelope(Items, cur.size)
      [] reply = "no_total" -> Envelope(Items, 0)
      [] reply = "empty" -> Envelope(0, cur.size)
      [] OTHER -> Refused

\* A resource without an id cannot be mapped.
aliyun_map(reply) == reply # "unmappable"
tencent_map(reply) == reply # "unmappable"

\* A body without a list and a total, such as an error object in a reply with
\* status 200, is an empty page of an empty listing.
tencent_parse_page_envelope(reply) ==
    CASE reply = "page" -> Envelope(Items, cur.size)
      [] reply = "no_total" -> Envelope(Items, 0)
      [] reply = "empty" -> IF cur.size > 0 THEN Refused ELSE Envelope(0, 0)
      [] reply = "no_list" -> Envelope(0, 0)
      [] OTHER -> Refused

\* The list of domains is read without the checks of an envelope: entries
\* without a name are dropped, and anything that is JSON will do.
domain_names(reply) ==
    CASE reply = "page" -> Envelope(Items, cur.size)
      [] reply = "no_total" -> Envelope(Items, 0)
      [] reply \in {"empty", "unmappable"} -> Envelope(0, cur.size)
      [] reply = "no_list" -> Envelope(0, 0)
      [] OTHER -> Refused

\* A request that cannot be built or signed is never sent.
aliyun_signed_request == config # "region"
tencent_signed_request == config # "region"

-----------------------------------------------------------------------------
(* The two connectors.                                                     *)

aliyun_modules == <<Root("compute"), Root("vpc"), Root("subnet"), Root("security_group"),
                    Root("balancer"), Root("domains"), Root("public_ip")>>
tencent_modules == <<Root("compute"), Root("vpc"), Root("subnet"), Root("security_group"),
                     Root("balancer"), Root("domains"), Root("public_ip")>>

\* Vpcs contain, instances have public addresses; both ends were observed.
aliyun_provider_relations ==
    Observed({<<"vpc", "subnet">>, <<"vpc", "security_group">>, <<"compute", "public_ip">>})
tencent_provider_relations ==
    Observed({<<"vpc", "subnet">>, <<"vpc", "security_group">>, <<"compute", "public_ip">>})

\* The checks before the first request: the error of the sync, or none.
aliyun_refuses ==
    CASE config = "type" -> "config"
      [] config = "no_secret" -> "credential"
      [] config = "content" -> "config"
      [] OTHER -> "none"
tencent_refuses ==
    CASE config = "type" -> "config"
      [] config = "no_secret" -> "credential"
      [] config = "content" -> "config"
      [] OTHER -> "none"

\* validate asks nothing of the provider.
aliyun_validate == config \notin {"type", "no_secret"}
tencent_validate == config \notin {"type", "no_secret"}

signed_request ==
    IF connector = "aliyun" THEN aliyun_signed_request ELSE tencent_signed_request

\* The code of the failure that a reply is, or what was read into it.
ReplyCode(reply) ==
    CASE ~signed_request -> "config"
      [] reply \in Codes -> reply
      [] OTHER -> "invalid"

\* Mutant: a module that was read clears the error of an earlier one.
CloudCollectClears(listing, items, failure, used) ==
    acc' = [acc EXCEPT !.found = IF items > 0 THEN @ \cup {listing} ELSE @,
                       !.failure = failure,
                       !.requests = IF signed_request THEN @ + 1 ELSE @,
                       !.used = used]

\* The error is the one of the last module that failed.
CloudCollect(listing, items, failure, used) ==
    acc' = [acc EXCEPT !.found = IF items > 0 THEN @ \cup {listing} ELSE @,
                       !.failure = IF failure = "none" THEN @ ELSE failure,
                       !.requests = IF signed_request THEN @ + 1 ELSE @,
                       !.used = used]

-----------------------------------------------------------------------------
(* The steps that the two crates share.                                    *)

\* The limits, which are looked at before a page is asked for: of a module, of
\* the domains, and of the records of all domains.
ModuleSpent == cur.page > PageCap \/ cur.got >= RecordCap
DomainsSpent == cur.page > PageCap \/ cur.got >= DomainCap
RecordsSpent == acc.used >= RecordCap
\* The pages of one domain are limited.
AliyunRecordsSpent == RecordsSpent \/ cur.page > PageCap
Spent ==
    CASE Here.module = "domains" -> DomainsSpent
      [] Here.module = "records" -> IF connector = "aliyun" THEN AliyunRecordsSpent
                                                            ELSE RecordsSpent
      [] OTHER -> ModuleSpent

\* A request that was rate limited is sent again, twice at most.
RetryList(reply) ==
    /\ signed_request /\ reply = "rate_limited" /\ cur.retries < MAX_RETRIES
    /\ ~Spent
    /\ Reply(reply)
    /\ cur' = [cur EXCEPT !.retries = @ + 1]
    /\ acc' = [acc EXCEPT !.requests = @ + 1]
    /\ UNCHANGED <<request, todo, unread, out, cache>>

\* What it returns with.
Settled(reply) ==
    /\ Reply(reply)
    /\ reply = "rate_limited" => cur.retries = MAX_RETRIES
    /\ reply = "unmappable" => Items = 1
    /\ ~signed_request => reply = "page"

\* One page p of a module.  It ends where the total is reached, and in one of
\* the crates at an empty page.
ModulePage(reply, p, stops_on_empty) ==
    LET got == cur.got + p.items
        ends == got >= p.total \/ (stops_on_empty /\ p.items = 0)
    IN  /\ Here.module \notin {"domains", "records"}
        /\ ~ModuleSpent
        /\ Settled(reply)
        /\ IF p.ok /\ signed_request
             THEN /\ CloudCollect(Here, p.items, "none", acc.used)
                  /\ IF ends
                       THEN /\ Open(Tail(todo))
                            /\ Left(IF got < cur.size THEN {Here} ELSE {},
                                    IF p.total = 0 /\ p.items = 0 THEN "no list"
                                                                  ELSE "no total")
                       ELSE /\ cur' = [cur EXCEPT !.page = @ + 1, !.got = got, !.retries = 0]
                            /\ UNCHANGED <<todo, unread>>
             ELSE /\ CloudCollect(Here, 0, ReplyCode(reply), acc.used)
                  /\ Left({Here}, "failed")
                  /\ Open(Tail(todo))
        /\ UNCHANGED <<request, out, cache>>

\* The budget of a module is used up before the listing has ended.
ModuleBudget ==
    /\ connector \in Clouds /\ Asking(connector)
    /\ Here.module \notin {"domains", "records"}
    /\ ModuleSpent
    /\ acc' = [acc EXCEPT !.failure = "budget"]
    /\ Left({Here}, "limit")
    /\ Open(Tail(todo))
    /\ UNCHANGED <<request, faults, out, cache>>

\* The domains are truncated, and each has its records read.
OpenRecords(n) ==
    Open(Children("records", IF n < DomainCap THEN n ELSE DomainCap) \o Tail(todo))

\* One page p of the domains.  A failure ends the module, with nothing read.
DomainsPage(reply, p) ==
    LET got == cur.got + p.items
    IN  /\ Here.module = "domains"
        /\ ~DomainsSpent
        /\ Settled(reply)
        /\ IF p.ok /\ signed_request
             THEN /\ CloudCollect(Here, 0, "none", 0)
                  /\ IF got >= p.total \/ p.items = 0
                       THEN /\ OpenRecords(got)
                            /\ Left(IF got < cur.size THEN {Here} ELSE {},
                                    IF p.items > 0 THEN "no total"
                                    ELSE IF p.total = 0 THEN "no list" ELSE "empty page")
                       ELSE /\ cur' = [cur EXCEPT !.page = @ + 1, !.got = got, !.retries = 0]
                            /\ UNCHANGED <<todo, unread>>
             ELSE /\ CloudCollect(Here, 0, ReplyCode(reply), 0)
                  /\ Left({Here}, "failed")
                  /\ Open(Tail(todo))
        /\ UNCHANGED <<request, out, cache>>

\* The limits of the list of domains say nothing.
DomainLimit ==
    /\ connector \in Clouds /\ Asking(connector) /\ Here.module = "domains"
    /\ DomainsSpent
    /\ OpenRecords(cur.got)
    /\ Left({Here}, "domain limit")
    /\ UNCHANGED <<request, acc, faults, out, cache>>

\* The budget of the records, over all domains, ends the module: the domains
\* that are left are dropped, one after the other.  The limit of the pages of
\* one domain, which one of the crates has, ends that domain.
RecordsBudget(spent) ==
    /\ Here.module = "records" /\ spent
    /\ acc' = [acc EXCEPT !.failure = "budget"]
    /\ Left({Here}, "limit")
    /\ Open(Tail(todo))
    /\ UNCHANGED <<request, faults, out, cache>>

\* Why the records of a domain end before all were read.
RecordsCut(p) ==
    CASE p.total > 0 /\ p.items > 0 -> "shared total"
      [] p.total > 0 /\ p.items = 0 -> "empty page"
      [] p.total = 0 /\ p.items > 0 -> "no total"
      [] OTHER -> "no list"

\* One page p of the records of a domain.  The total of the domain is compared
\* with the records of all domains so far.  A record that cannot be mapped is
\* a failure and the listing goes on; any other failure ends the domain.
RecordsPage(reply, p, mapped) ==
    LET items == IF mapped THEN p.items ELSE 0
        used == acc.used + items
        ends == used >= p.total \/ p.items = 0
        seen == cur.got + p.items
    IN  /\ Here.module = "records"
        /\ Settled(reply)
        /\ IF p.ok /\ signed_request
             THEN /\ CloudCollect(Here, items, IF mapped THEN "none" ELSE "invalid", used)
                  /\ unread' = unread
                       \cup (IF mapped THEN {} ELSE {[listing |-> Here, why |-> "failed"]})
                       \cup (IF ends /\ seen < cur.size
                               THEN {[listing |-> Here, why |-> RecordsCut(p)]} ELSE {})
                  /\ IF ends THEN Open(Tail(todo))
                     ELSE /\ cur' = [cur EXCEPT !.page = @ + 1, !.got = seen, !.retries = 0]
                          /\ UNCHANGED todo
             ELSE /\ CloudCollect(Here, 0, ReplyCode(reply), acc.used)
                  /\ Left({Here}, "failed")
                  /\ Open(Tail(todo))
        /\ UNCHANGED <<request, out, cache>>

-----------------------------------------------------------------------------
(* Aliyun.                                                                 *)

aliyun_retry_list(reply) == Asking("aliyun") /\ RetryList(reply)

aliyun_fetch_module(reply) ==
    /\ Asking("aliyun")
    /\ ModulePage(reply, IF aliyun_map(reply) THEN aliyun_parse_page_envelope(reply) ELSE Refused,
                  FALSE)

aliyun_fetch_dns_domains(reply) == Asking("aliyun") /\ DomainsPage(reply, domain_names(reply))

aliyun_fetch_dns_records(reply) ==
    /\ Asking("aliyun") /\ ~AliyunRecordsSpent
    /\ RecordsPage(reply, aliyun_parse_page_envelope(IF aliyun_map(reply) THEN reply ELSE "page"),
                   aliyun_map(reply))

AliyunStep(reply) ==
    \/ aliyun_retry_list(reply) \/ aliyun_fetch_module(reply)
    \/ aliyun_fetch_dns_domains(reply) \/ aliyun_fetch_dns_records(reply)

-----------------------------------------------------------------------------
(* Tencent.                                                                *)

tencent_retry_list(reply) == Asking("tencent") /\ RetryList(reply)

\* An empty page is the last.
tencent_fetch_module(reply) ==
    /\ Asking("tencent")
    /\ ModulePage(reply, IF tencent_map(reply) THEN tencent_parse_page_envelope(reply) ELSE Refused,
                  TRUE)

tencent_fetch_dns_domains(reply) == Asking("tencent") /\ DomainsPage(reply, domain_names(reply))

tencent_fetch_dns_records(reply) ==
    /\ Asking("tencent") /\ ~RecordsSpent
    /\ RecordsPage(reply, tencent_parse_page_envelope(IF tencent_map(reply) THEN reply ELSE "page"),
                   tencent_map(reply))

TencentStep(reply) ==
    \/ tencent_retry_list(reply) \/ tencent_fetch_module(reply)
    \/ tencent_fetch_dns_domains(reply) \/ tencent_fetch_dns_records(reply)

-----------------------------------------------------------------------------
(* The end.                                                                *)

\* A sync that failed and found nothing is an error; for Tencent only if the
\* credential was refused.
aliyun_finish ==
    IF acc.found = {} /\ acc.failure # "none" THEN Failed(acc.failure)
    ELSE Concluded("full", acc.failure, aliyun_provider_relations)
tencent_finish ==
    IF acc.found = {} /\ acc.failure \in {"auth", "credential"} THEN Failed(acc.failure)
    ELSE Concluded("full", acc.failure, tencent_provider_relations)

CloudFinish ==
    /\ connector \in Clouds /\ Done(connector)
    /\ out' = IF connector = "aliyun" THEN aliyun_finish ELSE tencent_finish
    /\ UNCHANGED <<request, todo, cur, acc, unread, faults, cache>>

CloudStep ==
    \/ \E reply \in (Faults \cap CloudFaults) \cup {"page"} : AliyunStep(reply) \/ TencentStep(reply)
    \/ ModuleBudget \/ DomainLimit
    \/ Asking("aliyun") /\ RecordsBudget(AliyunRecordsSpent)
    \/ Asking("tencent") /\ RecordsBudget(RecordsSpent)
    \/ CloudFinish

=============================================================================
