-------------------------- MODULE ConnectorProofs ---------------------------
(***************************************************************************)
(* Proofs about the connectors, for every provider: any number of items,   *)
(* pages and parents, any replies in any order, and any limits.            *)
(***************************************************************************)
EXTENDS Connectors, FiniteSetTheorems, TLAPS

USE DEF MAX_RETRIES

-----------------------------------------------------------------------------
(* Types.                                                                  *)

CurType == [page : Nat \ {0}, got : Nat, retries : Nat, size : Nat]
AccFields == {"found", "failure", "requests", "used", "bad"}
AccOK == DOMAIN acc = AccFields /\ acc.requests \in Nat /\ acc.used \in Nat
TypeInv == cur \in CurType /\ AccOK /\ faults \in Nat

LEMMA FreshTyped ==
    ASSUME cur \in CurType, NEW rest, NEW c \in Fresh(rest)
    PROVE  c \in CurType /\ c.page = 1 /\ c.got = 0 /\ c.retries = 0
<1>1. \A l : Sizes(l) \subseteq Nat
  BY ConnectorAssumption DEF Sizes
<1>2. PICK n : /\ c = [page |-> 1, got |-> 0, retries |-> 0, size |-> n]
               /\ n \in IF rest = <<>> THEN {0} ELSE Sizes(Head(rest))
  BY DEF Fresh
<1>3. n \in Nat
  BY <1>1, <1>2
<1> QED
  BY <1>2, <1>3 DEF CurType

LEMMA OpenTyped ==
    ASSUME cur \in CurType, NEW rest, Open(rest)
    PROVE  cur' \in CurType /\ cur'.page = 1 /\ cur'.got = 0 /\ cur'.retries = 0
BY FreshTyped DEF Open

LEMMA FatalTyped ==
    ASSUME cur \in CurType, NEW code, Fatal(code)
    PROVE  cur' \in CurType /\ todo' = <<>> /\ out' = Failed(code)
BY FreshTyped DEF Fatal

LEMMA ReplyTyped ==
    ASSUME faults \in Nat, NEW reply, Reply(reply)
    PROVE  faults' \in Nat /\ faults' >= faults
BY DEF Reply

LEMMA ItemsTyped == Items \in {0, 1}
BY DEF Items

EnvelopeType == [ok : BOOLEAN, items : {0, 1}, total : Nat]

LEMMA EnvelopesTyped ==
    ASSUME cur \in CurType, NEW reply
    PROVE  /\ Refused \in EnvelopeType
           /\ aliyun_parse_page_envelope(reply) \in EnvelopeType
           /\ tencent_parse_page_envelope(reply) \in EnvelopeType
           /\ domain_names(reply) \in EnvelopeType
<1>1. cur.size \in Nat
  BY DEF CurType
<1>2. /\ Refused \in EnvelopeType
      /\ Envelope(Items, cur.size) \in EnvelopeType /\ Envelope(Items, 0) \in EnvelopeType
      /\ Envelope(0, cur.size) \in EnvelopeType /\ Envelope(0, 0) \in EnvelopeType
  BY <1>1, ItemsTyped DEF EnvelopeType, Refused, Envelope
<1> QED
  BY <1>2 DEF aliyun_parse_page_envelope, tencent_parse_page_envelope, domain_names

\* A page of a cloud is read into one more request, or none, and its items.
LEMMA CollectTyped ==
    ASSUME AccOK, NEW listing, NEW items, NEW failure, NEW used \in Nat,
           CloudCollect(listing, items, failure, used)
    PROVE  AccOK' /\ acc'.requests <= acc.requests + 1 /\ acc'.used = used
BY DEF AccOK, AccFields, CloudCollect

\* One more request, and the items of a listing.
LEMMA CountTyped ==
    ASSUME AccOK, NEW found, NEW failure, NEW used \in Nat,
           \/ acc' = [acc EXCEPT !.found = found, !.requests = @ + 1, !.used = used]
           \/ acc' = [acc EXCEPT !.failure = failure, !.requests = @ + 1, !.used = used]
    PROVE  AccOK' /\ acc'.requests = acc.requests + 1 /\ acc'.used = used
<1>1. DOMAIN acc' = AccFields
  BY DEF AccOK
<1>2. acc'.requests = acc.requests + 1 /\ acc'.used = used
  BY DEF AccOK, AccFields
<1> QED
  BY <1>1, <1>2 DEF AccOK

\* What a step leaves of the numbers.
LEMMA AccTyped ==
    ASSUME AccOK, DOMAIN acc' = AccFields,
           acc'.requests \in {acc.requests, acc.requests + 1, 1},
           acc'.used = acc.used \/ acc'.used \in Nat
    PROVE  AccOK'
BY DEF AccOK

LEMMA PageTyped ==
    ASSUME cur \in CurType, NEW got \in Nat,
           cur' = [cur EXCEPT !.page = @ + 1, !.got = got, !.retries = 0]
    PROVE  /\ cur' \in CurType /\ cur'.page = cur.page + 1 /\ cur'.got = got
           /\ cur'.retries = 0 /\ cur'.size = cur.size
<1>1. PICK page \in Nat \ {0}, old \in Nat, retries \in Nat, size \in Nat :
         cur = [page |-> page, got |-> old, retries |-> retries, size |-> size]
  BY DEF CurType
<1>2. cur' = [page |-> page + 1, got |-> got, retries |-> 0, size |-> size]
  BY <1>1
<1> QED
  BY <1>1, <1>2 DEF CurType

LEMMA NextPageTyped ==
    ASSUME cur \in CurType, NEW got \in Nat,
           cur' = [cur EXCEPT !.page = @ + 1, !.got = got]
    PROVE  /\ cur' \in CurType /\ cur'.page = cur.page + 1 /\ cur'.got = got
           /\ cur'.retries = cur.retries /\ cur'.size = cur.size
<1>1. PICK page \in Nat \ {0}, old \in Nat, retries \in Nat, size \in Nat :
         cur = [page |-> page, got |-> old, retries |-> retries, size |-> size]
  BY DEF CurType
<1>2. cur' = [page |-> page + 1, got |-> got, retries |-> retries, size |-> size]
  BY <1>1
<1> QED
  BY <1>1, <1>2 DEF CurType

LEMMA ModulePageTyped ==
    ASSUME TypeInv, NEW reply, NEW p \in EnvelopeType, NEW stops, ModulePage(reply, p, stops)
    PROVE  TypeInv'
<1>1. cur \in CurType /\ AccOK /\ faults \in Nat /\ acc.used \in Nat
  BY DEF TypeInv, AccOK
<1>2. cur.got + p.items \in Nat
  BY <1>1 DEF CurType, EnvelopeType
<1>3. Reply(reply)
  BY DEF ModulePage, Settled
<1>4. PICK items, failure : CloudCollect(Here, items, failure, acc.used)
  BY DEF ModulePage
<1>5. \/ Open(Tail(todo))
      \/ cur' = [cur EXCEPT !.page = @ + 1, !.got = cur.got + p.items, !.retries = 0]
  BY DEF ModulePage
<1>6. cur' \in CurType
  BY <1>1, <1>2, <1>5, OpenTyped, PageTyped
<1> QED
  BY <1>1, <1>3, <1>4, <1>6, ReplyTyped, CollectTyped DEF TypeInv

LEMMA DomainsPageTyped ==
    ASSUME TypeInv, NEW reply, NEW p \in EnvelopeType, DomainsPage(reply, p)
    PROVE  TypeInv'
<1>1. cur \in CurType /\ AccOK /\ faults \in Nat
  BY DEF TypeInv
<1>2. cur.got + p.items \in Nat
  BY <1>1 DEF CurType, EnvelopeType
<1>3. Reply(reply)
  BY DEF DomainsPage, Settled
<1>4. PICK failure : CloudCollect(Here, 0, failure, 0)
  BY DEF DomainsPage
<1>5. \/ \E rest : Open(rest)
      \/ cur' = [cur EXCEPT !.page = @ + 1, !.got = cur.got + p.items, !.retries = 0]
  BY DEF DomainsPage, OpenRecords
<1>6. cur' \in CurType
  BY <1>1, <1>2, <1>5, OpenTyped, PageTyped
<1> QED
  BY <1>1, <1>3, <1>4, <1>6, ReplyTyped, CollectTyped DEF TypeInv

LEMMA RecordsPageTyped ==
    ASSUME TypeInv, NEW reply, NEW p \in EnvelopeType, NEW mapped \in BOOLEAN,
           RecordsPage(reply, p, mapped)
    PROVE  TypeInv'
<1>1. cur \in CurType /\ AccOK /\ faults \in Nat /\ acc.used \in Nat
  BY DEF TypeInv, AccOK
<1>2. cur.got + p.items \in Nat
  BY <1>1 DEF CurType, EnvelopeType
<1>3. Reply(reply)
  BY DEF RecordsPage, Settled
<1>4. PICK used \in Nat : \E items, failure : CloudCollect(Here, items, failure, used)
  <2>1. PICK items : items = IF mapped THEN p.items ELSE 0
    OBVIOUS
  <2>2. acc.used + items \in Nat
    BY <1>1, <2>1 DEF EnvelopeType
  <2>f. PICK f : f = IF mapped THEN "none" ELSE "invalid"
    OBVIOUS
  <2>3. \/ CloudCollect(Here, items, f, acc.used + items)
        \/ CloudCollect(Here, 0, ReplyCode(reply), acc.used)
    BY <2>1, <2>f DEF RecordsPage
  <2>4. CASE CloudCollect(Here, items, f, acc.used + items)
    BY <2>2, <2>4, Zenon
  <2>5. CASE CloudCollect(Here, 0, ReplyCode(reply), acc.used)
    BY <1>1, <2>5, Zenon
  <2> QED BY <2>3, <2>4, <2>5
<1>5. \/ Open(Tail(todo))
      \/ cur' = [cur EXCEPT !.page = @ + 1, !.got = cur.got + p.items, !.retries = 0]
  BY DEF RecordsPage
<1>6. cur' \in CurType
  BY <1>1, <1>2, <1>5, OpenTyped, PageTyped
<1> QED
  BY <1>1, <1>3, <1>4, <1>6, ReplyTyped, CollectTyped DEF TypeInv

\* A request that is sent again.
LEMMA RetryTyped ==
    ASSUME TypeInv, NEW reply, RetryList(reply)
    PROVE  /\ TypeInv'
           /\ acc' = [acc EXCEPT !.requests = @ + 1] /\ acc'.requests = acc.requests + 1
           /\ acc'.used = acc.used /\ acc'.failure = acc.failure /\ acc'.found = acc.found
           /\ cur'.page = cur.page /\ cur'.retries = cur.retries + 1 /\ cur'.got = cur.got
<1>1. cur \in CurType /\ AccOK /\ faults \in Nat
  BY DEF TypeInv
<1>2. /\ Reply(reply) /\ cur' = [cur EXCEPT !.retries = @ + 1]
      /\ acc' = [acc EXCEPT !.requests = @ + 1]
  BY DEF RetryList
<1>3. /\ cur' \in CurType /\ cur'.page = cur.page /\ cur'.retries = cur.retries + 1
      /\ cur'.got = cur.got
  BY <1>1, <1>2 DEF CurType
<1>4. /\ AccOK' /\ acc'.requests = acc.requests + 1 /\ acc'.used = acc.used
      /\ acc'.failure = acc.failure /\ acc'.found = acc.found
  BY <1>1, <1>2 DEF AccOK, AccFields
<1> QED
  BY <1>1, <1>2, <1>3, <1>4, ReplyTyped DEF TypeInv

\* A step of a cloud that asks for a page is one of these.
LEMMA CloudAsks ==
    ASSUME TypeInv, NEW reply, AliyunStep(reply) \/ TencentStep(reply)
    PROVE  /\ connector \in Clouds /\ out.status = "running" /\ todo # <<>>
           /\ \/ RetryList(reply)
              \/ \E p \in EnvelopeType, stops \in BOOLEAN : ModulePage(reply, p, stops)
              \/ \E p \in EnvelopeType : DomainsPage(reply, p)
              \/ \E p \in EnvelopeType, mapped \in BOOLEAN :
                    /\ RecordsPage(reply, p, mapped) /\ ~Spent
                    /\ mapped \/ reply = "unmappable"
<1>1. cur \in CurType
  BY DEF TypeInv
<1>2. aliyun_map(reply) \in BOOLEAN /\ tencent_map(reply) \in BOOLEAN
  BY DEF aliyun_map, tencent_map
<1>3. PICK r : r = IF aliyun_map(reply) THEN reply ELSE "page"
  OBVIOUS
<1>4. PICK t : t = IF tencent_map(reply) THEN reply ELSE "page"
  OBVIOUS
<1>5. (aliyun_map(reply) \/ reply = "unmappable") /\ (tencent_map(reply) \/ reply = "unmappable")
  BY DEF aliyun_map, tencent_map
<1>6. CASE AliyunStep(reply)
  <2>1. connector = "aliyun" /\ out.status = "running" /\ todo # <<>>
    BY <1>6 DEF AliyunStep, aliyun_retry_list, aliyun_fetch_module,
                aliyun_fetch_dns_domains, aliyun_fetch_dns_records, Asking
  <2>2. CASE aliyun_retry_list(reply)
    BY <2>1, <2>2 DEF aliyun_retry_list, Clouds
  <2>3. CASE aliyun_fetch_module(reply)
    BY <1>1, <2>1, <2>3, EnvelopesTyped DEF aliyun_fetch_module, Clouds
  <2>4. CASE aliyun_fetch_dns_domains(reply)
    BY <1>1, <2>1, <2>4, EnvelopesTyped DEF aliyun_fetch_dns_domains, Clouds
  <2>5. CASE aliyun_fetch_dns_records(reply)
    <3>1. RecordsPage(reply, aliyun_parse_page_envelope(r), aliyun_map(reply))
      BY <1>3, <2>5 DEF aliyun_fetch_dns_records
    <3>2. ~AliyunRecordsSpent /\ Here.module = "records"
      BY <2>5 DEF aliyun_fetch_dns_records, RecordsPage
    <3>3. ~Spent
      BY <2>1, <3>2 DEF Spent
    <3> QED BY <1>1, <1>2, <1>5, <2>1, <3>1, <3>3, EnvelopesTyped DEF Clouds
  <2> QED BY <1>6, <2>2, <2>3, <2>4, <2>5 DEF AliyunStep
<1>7. CASE TencentStep(reply)
  <2>1. connector = "tencent" /\ out.status = "running" /\ todo # <<>>
    BY <1>7 DEF TencentStep, tencent_retry_list, tencent_fetch_module,
                tencent_fetch_dns_domains, tencent_fetch_dns_records, Asking
  <2>2. CASE tencent_retry_list(reply)
    BY <2>1, <2>2 DEF tencent_retry_list, Clouds
  <2>3. CASE tencent_fetch_module(reply)
    BY <1>1, <2>1, <2>3, EnvelopesTyped DEF tencent_fetch_module, Clouds
  <2>4. CASE tencent_fetch_dns_domains(reply)
    BY <1>1, <2>1, <2>4, EnvelopesTyped DEF tencent_fetch_dns_domains, Clouds
  <2>5. CASE tencent_fetch_dns_records(reply)
    <3>1. RecordsPage(reply, tencent_parse_page_envelope(t), tencent_map(reply))
      BY <1>4, <2>5 DEF tencent_fetch_dns_records
    <3>2. ~RecordsSpent /\ Here.module = "records"
      BY <2>5 DEF tencent_fetch_dns_records, RecordsPage
    <3>3. ~Spent
      BY <2>1, <3>2 DEF Spent
    <3> QED BY <1>1, <1>2, <1>5, <2>1, <3>1, <3>3, EnvelopesTyped DEF Clouds
  <2> QED BY <1>7, <2>2, <2>3, <2>4, <2>5 DEF TencentStep
<1> QED
  BY <1>6, <1>7

LEMMA CloudTyped ==
    ASSUME TypeInv, CloudStep
    PROVE  TypeInv'
<1>1. cur \in CurType /\ AccOK /\ faults \in Nat
  BY DEF TypeInv
<1>2. ASSUME NEW reply, AliyunStep(reply) \/ TencentStep(reply) PROVE TypeInv'
  BY <1>2, CloudAsks, RetryTyped, ModulePageTyped, DomainsPageTyped, RecordsPageTyped
<1>3. CASE \/ ModuleBudget \/ DomainLimit
           \/ RecordsBudget(AliyunRecordsSpent) \/ RecordsBudget(RecordsSpent)
  <2>1. faults' = faults /\ \E rest : Open(rest)
    BY <1>3 DEF ModuleBudget, DomainLimit, RecordsBudget, OpenRecords
  <2>2. acc' = acc \/ acc' = [acc EXCEPT !.failure = "budget"]
    BY <1>3 DEF ModuleBudget, DomainLimit, RecordsBudget
  <2>3. AccOK'
    BY <1>1, <2>2 DEF AccOK, AccFields
  <2> QED BY <1>1, <2>1, <2>3, OpenTyped DEF TypeInv
<1>4. CASE CloudFinish
  BY <1>1, <1>4 DEF CloudFinish, TypeInv, AccOK
<1> QED
  BY <1>2, <1>3, <1>4 DEF CloudStep

\* A step of GitHub that asks for a page is one of these.
LEMMA GitHubAsks ==
    ASSUME TypeInv, NEW reply, github_fetch(reply)
    PROVE  /\ connector = "github" /\ out.status = "running" /\ todo # <<>> /\ Remaining > 0
           /\ request' = request /\ Reply(reply)
           /\ \/ /\ cur' = [cur EXCEPT !.page = @ + 1, !.got = cur.got + Items]
                 /\ \E bad : acc' = [acc EXCEPT !.requests = @ + 1, !.bad = bad]
                 /\ todo' = todo /\ unread' = unread /\ out' = out
              \/ /\ Fatal("invalid") /\ acc' = [acc EXCEPT !.requests = @ + 1]
                 /\ unread' = unread
              \/ GitHubMerge(cur.got + Items, "none") /\ out' = out /\ unread' = unread
              \/ GitHubGap(cur.got, reply)
<1>1. /\ connector = "github" /\ out.status = "running" /\ todo # <<>> /\ Remaining > 0
      /\ request' = request /\ Reply(reply)
  BY DEF github_fetch, Asking, Paging
<1>2. cur.size \in Nat /\ cur.got + Items \in Nat
  BY ItemsTyped DEF TypeInv, CurType
<1>3. PICK got : got = cur.got + Items
  OBVIOUS
<1>4. CASE reply \in Bodies /\ got < cur.size /\ ~(got >= cur.size)
  <2>1. /\ cur' = [cur EXCEPT !.page = @ + 1, !.got = got]
        /\ todo' = todo /\ unread' = unread /\ out' = out
    BY <1>3, <1>4 DEF github_fetch
  <2>2. \E bad : acc' = [acc EXCEPT !.requests = @ + 1, !.bad = bad]
    BY <1>3, <1>4, Zenon DEF github_fetch
  <2> QED BY <1>1, <1>3, <2>1, <2>2
<1>5. CASE reply \in Bodies /\ ~(got < cur.size) /\ got >= cur.size
  <2>1. unread' = unread
    BY <1>3, <1>5 DEF github_fetch
  <2>2. \/ Fatal("invalid") /\ acc' = [acc EXCEPT !.requests = @ + 1]
        \/ GitHubMerge(got, "none") /\ out' = out
    BY <1>3, <1>5 DEF github_fetch
  <2> QED BY <1>1, <1>3, <2>1, <2>2
<1>6. CASE reply \notin Bodies
  <2>1. GitHubGap(cur.got, reply)
    BY <1>3, <1>6 DEF github_fetch
  <2> QED BY <1>1, <2>1
<1>7. (got < cur.size /\ ~(got >= cur.size)) \/ (~(got < cur.size) /\ got >= cur.size)
  BY <1>2, <1>3
<1> QED
  BY <1>4, <1>5, <1>6, <1>7

LEMMA GapCases ==
    ASSUME NEW n, NEW code, GitHubGap(n, code)
    PROVE  \/ /\ \E c \in {"invalid", code} : Fatal(c)
              /\ acc' = [acc EXCEPT !.requests = IF code = "budget" THEN @ ELSE @ + 1]
              /\ unread' = unread
           \/ GitHubMerge(n, code) /\ out' = out
BY DEF GitHubGap

LEMMA MergeTyped ==
    ASSUME TypeInv, NEW n, NEW failure, GitHubMerge(n, failure)
    PROVE  cur' \in CurType /\ AccOK'
BY OpenTyped DEF GitHubMerge, TypeInv, AccOK, AccFields

LEMMA GapTyped ==
    ASSUME TypeInv, NEW n, NEW code, GitHubGap(n, code)
    PROVE  cur' \in CurType /\ AccOK'
<1>1. cur \in CurType /\ AccOK
  BY DEF TypeInv
<1>2. ASSUME NEW c, Fatal(c),
             acc' = [acc EXCEPT !.requests = IF code = "budget" THEN @ ELSE @ + 1]
      PROVE  cur' \in CurType /\ AccOK'
  BY <1>1, <1>2, FatalTyped DEF AccOK, AccFields
<1> QED
  BY <1>2, GapCases, MergeTyped

LEMMA GitHubTyped ==
    ASSUME TypeInv, GitHubStep
    PROVE  TypeInv'
<1>1. cur \in CurType /\ AccOK /\ faults \in Nat
  BY DEF TypeInv
<1>2. ASSUME NEW reply, github_fetch(reply) PROVE TypeInv'
  <2>1. Reply(reply)
    BY <1>2, GitHubAsks
  <2>2. CASE /\ cur' = [cur EXCEPT !.page = @ + 1, !.got = cur.got + Items]
             /\ \E bad : acc' = [acc EXCEPT !.requests = @ + 1, !.bad = bad]
    <3>a. cur.got + Items \in Nat
      BY <1>1, ItemsTyped DEF CurType
    <3>1. cur' \in CurType
      BY <1>1, <2>2, <3>a, NextPageTyped
    <3>2. AccOK'
      BY <1>1, <2>2 DEF AccOK, AccFields
    <3> QED BY <1>1, <2>1, <3>1, <3>2, ReplyTyped DEF TypeInv
  <2>3. CASE Fatal("invalid") /\ acc' = [acc EXCEPT !.requests = @ + 1]
    <3>1. AccOK'
      BY <1>1, <2>3 DEF AccOK, AccFields
    <3> QED BY <1>1, <2>1, <2>3, <3>1, FatalTyped, ReplyTyped DEF TypeInv
  <2>4. CASE GitHubMerge(cur.got + Items, "none") \/ GitHubGap(cur.got, reply)
    BY <1>1, <2>1, <2>4, MergeTyped, GapTyped, ReplyTyped DEF TypeInv
  <2> QED BY <1>2, <2>2, <2>3, <2>4, GitHubAsks
<1>3. CASE GitHubPageLimit
  BY <1>1, <1>3, GapTyped DEF GitHubPageLimit, TypeInv
<1>4. CASE mark_budget_exhausted
  <2>1. /\ acc' = [acc EXCEPT !.failure = First(@, "budget")]
        /\ Open(<<>>) /\ faults' = faults
    BY <1>4 DEF mark_budget_exhausted
  <2>2. AccOK'
    BY <1>1, <2>1 DEF AccOK, AccFields
  <2> QED BY <1>1, <2>1, <2>2, OpenTyped DEF TypeInv
<1>5. CASE github_not_modified
  <2>1. PICK c : \/ Fatal("invalid") /\ acc' = [acc EXCEPT !.requests = @ + 1]
                 \/ GitHubMerge(c.size, "none")
    BY <1>5 DEF github_not_modified
  <2>2. faults' = faults
    BY <1>5 DEF github_not_modified
  <2>3. CASE Fatal("invalid") /\ acc' = [acc EXCEPT !.requests = @ + 1]
    <3>1. AccOK'
      BY <1>1, <2>3 DEF AccOK, AccFields
    <3> QED BY <1>1, <2>2, <2>3, <3>1, FatalTyped DEF TypeInv
  <2>4. CASE GitHubMerge(c.size, "none")
    BY <1>1, <2>2, <2>4, MergeTyped DEF TypeInv
  <2> QED BY <2>1, <2>3, <2>4
<1>6. CASE GitHubFinish
  BY <1>1, <1>6 DEF GitHubFinish, TypeInv, AccOK
<1> QED
  BY <1>2, <1>3, <1>4, <1>5, <1>6 DEF GitHubStep

\* The steps of SSH.
LEMMA IdentityCases ==
    ASSUME NEW reply, ssh_identity(reply)
    PROVE  /\ connector = "ssh" /\ out.status = "running" /\ todo # <<>>
           /\ request' = request /\ unread' = unread /\ Reply(reply)
           /\ \/ Fatal(ssh_code(reply)) /\ acc' = acc
              \/ /\ acc' = [acc EXCEPT !.found = @ \cup {Here}, !.requests = @ + 1, !.used = 0]
                 /\ \E services \in BOOLEAN : Open(ssh_planned(services))
                 /\ out' = out
BY DEF ssh_identity, Asking

LEMMA ProbeCases ==
    ASSUME NEW reply, ssh_probe(reply)
    PROVE  /\ connector = "ssh" /\ out.status = "running" /\ todo # <<>>
           /\ request' = request /\ Reply(reply) /\ Here # Root("identity")
           /\ \/ /\ reply \in {"host_key", "cancelled"} /\ Fatal(reply)
                 /\ acc' = acc /\ unread' = unread
              \/ /\ \E used : 
                       /\ used = acc.used + probe_output(Here.module)
                       /\ \/ /\ acc' = [acc EXCEPT !.found = @ \cup {Here},
                                                   !.requests = @ + 1, !.used = used]
                             /\ unread' = unread
                          \/ acc' = [acc EXCEPT !.failure = SshFailure(@, reply),
                                                !.requests = @ + 1, !.used = used]
                 /\ Open(<<>>) \/ Open(Tail(todo))
                 /\ out' = out
<1>1. /\ connector = "ssh" /\ out.status = "running" /\ todo # <<>>
      /\ request' = request /\ Reply(reply) /\ Here # Root("identity")
  BY DEF ssh_probe, Asking
<1>2. PICK used : used = acc.used + probe_output(Here.module)
  OBVIOUS
<1>3. CASE reply \in {"host_key", "cancelled"}
  BY <1>1, <1>3 DEF ssh_probe
<1>4. CASE reply \notin {"host_key", "cancelled"}
  <2>1. \/ /\ acc' = [acc EXCEPT !.found = @ \cup {Here}, !.requests = @ + 1, !.used = used]
           /\ unread' = unread
        \/ acc' = [acc EXCEPT !.failure = SshFailure(@, reply),
                              !.requests = @ + 1, !.used = used]
    BY <1>2, <1>4 DEF ssh_probe
  <2>2. (Open(<<>>) \/ Open(Tail(todo))) /\ out' = out
    BY <1>4 DEF ssh_probe
  <2> QED BY <1>1, <1>2, <2>1, <2>2
<1> QED
  BY <1>3, <1>4

LEMMA SshTyped ==
    ASSUME TypeInv, SshStep
    PROVE  TypeInv'
<1>1. cur \in CurType /\ AccOK /\ faults \in Nat
  BY DEF TypeInv
<1>2. ASSUME NEW reply, ssh_identity(reply) PROVE TypeInv'
  <2>a. PICK found : found = acc.found \cup {Here}
    OBVIOUS
  <2>b. acc' = acc \/ acc' = [acc EXCEPT !.found = found, !.requests = @ + 1, !.used = 0]
    BY <1>2, <2>a, IdentityCases
  <2>1. AccOK'
    BY <1>1, <2>b, CountTyped DEF AccOK
  <2>2. cur' \in CurType
    BY <1>1, <1>2, IdentityCases, FatalTyped, OpenTyped
  <2> QED BY <1>1, <1>2, <2>1, <2>2, IdentityCases, ReplyTyped DEF TypeInv
<1>3. ASSUME NEW reply, ssh_probe(reply) PROVE TypeInv'
  <2>1. probe_output(Here.module) \in Nat
    BY DEF probe_output
  <2>2. PICK used : used = acc.used + probe_output(Here.module)
    OBVIOUS
  <2>3. used \in Nat
    BY <1>1, <2>1, <2>2 DEF AccOK
  <2>a. PICK found, failure :
           found = acc.found \cup {Here} /\ failure = SshFailure(acc.failure, reply)
    OBVIOUS
  <2>4. \/ acc' = acc
        \/ acc' = [acc EXCEPT !.found = found, !.requests = @ + 1, !.used = used]
        \/ acc' = [acc EXCEPT !.failure = failure, !.requests = @ + 1, !.used = used]
    BY <1>3, <2>2, <2>a, ProbeCases
  <2>5. AccOK'
    BY <1>1, <2>3, <2>4, CountTyped DEF AccOK
  <2>6. cur' \in CurType
    BY <1>1, <1>3, ProbeCases, FatalTyped, OpenTyped
  <2> QED BY <1>1, <1>3, <2>5, <2>6, ProbeCases, ReplyTyped DEF TypeInv
<1>4. CASE SshFinish
  BY <1>1, <1>4 DEF SshFinish, TypeInv, AccOK
<1> QED
  BY <1>2, <1>3, <1>4 DEF SshStep

\* The steps of Dokploy.
DokployRest == IF Here.module = "servers" THEN dokploy_walk(acc.used) ELSE Tail(todo)

LEMMA DokployCases ==
    ASSUME TypeInv, NEW reply, dokploy_fetch(reply)
    PROVE  /\ connector = "dokploy" /\ out.status = "running" /\ todo # <<>>
           /\ request' = request /\ Reply(reply)
           /\ \/ /\ acc' = [acc EXCEPT !.failure = "budget"]
                 /\ Open(<<>>) /\ out' = out
              \/ /\ \E code \in {"budget", "invalid", reply} : Fatal(code)
                 /\ acc' = acc /\ unread' = unread
              \/ /\ cur' = [cur EXCEPT !.page = @ + 1, !.got = cur.got + Items]
                 /\ \E bad, failure :
                       /\ acc' = [acc EXCEPT !.bad = bad, !.failure = failure]
                       /\ failure \in {acc.failure, "garbled"}
                 /\ todo' = todo /\ unread' = unread /\ out' = out
              \/ /\ \E found, used, bad :
                       /\ acc' = [acc EXCEPT !.found = found, !.requests = @ + 1,
                                             !.used = used, !.bad = bad]
                       /\ found \in {acc.found, acc.found \cup {Here}}
                       /\ used \in {cur.got + Items, acc.used}
                 /\ \E ls : Left(ls, "not opened")
                 /\ Open(DokployRest) /\ out' = out
<1> DEFINE parsed == IF dokploy_parse_pages(reply) THEN acc.failure ELSE "garbled"
           spent == Here.parent > 0 /\ acc.requests >= dokploy_request_budget
<1>1. /\ connector = "dokploy" /\ out.status = "running" /\ todo # <<>>
      /\ request' = request /\ Reply(reply)
  BY DEF dokploy_fetch, Asking
<1>2. cur.size \in Nat /\ cur.got + Items \in Nat /\ cur.page \in Nat /\ PageCap \in Nat
  BY ItemsTyped, ConnectorAssumption DEF TypeInv, CurType
<1>3. PICK got : got = cur.got + Items
  OBVIOUS
<1>4. CASE spent
  BY <1>1, <1>4 DEF dokploy_fetch
<1>5. CASE ~spent /\ cur.page > PageCap
  BY <1>1, <1>5 DEF dokploy_fetch
<1>6. CASE ~spent /\ ~(cur.page > PageCap) /\ cur.page <= PageCap
           /\ reply \notin {"page", "unmappable", "garbled"}
  BY <1>1, <1>6 DEF dokploy_fetch
<1>7. CASE ~spent /\ ~(cur.page > PageCap) /\ reply \in {"page", "unmappable", "garbled"}
  <2>1. CASE got < cur.size /\ ~(got >= cur.size)
    <3>1. /\ cur' = [cur EXCEPT !.page = @ + 1, !.got = got]
          /\ todo' = todo /\ unread' = unread /\ out' = out
      BY <1>3, <1>7, <2>1 DEF dokploy_fetch
    <3>2. PICK bad : acc' = [acc EXCEPT !.bad = bad, !.failure = parsed]
      BY <1>3, <1>7, <2>1, Zenon DEF dokploy_fetch
    <3> QED BY <1>1, <1>3, <3>1, <3>2
  <2>2. CASE ~(got < cur.size) /\ got >= cur.size /\ parsed = "garbled"
    BY <1>1, <1>3, <1>7, <2>2 DEF dokploy_fetch
  <2>3. CASE ~(got < cur.size) /\ got >= cur.size /\ parsed # "garbled"
    <3>1. PICK apps : apps = IF Here.module = "projects" THEN got ELSE acc.used
      OBVIOUS
    <3>2. PICK found : found = IF got > 0 THEN acc.found \cup {Here} ELSE acc.found
      OBVIOUS
    <3>3. \E bad : acc' = [acc EXCEPT !.found = found, !.requests = @ + 1,
                                      !.used = apps, !.bad = bad]
      BY <1>3, <1>7, <2>3, <3>1, <3>2, Zenon DEF dokploy_fetch
    <3>4. PICK ls : ls = IF Here.module = "servers"
                           THEN {Of("deployments", a) : a \in (WalkCap + 1) .. acc.used} ELSE {}
      OBVIOUS
    <3>5. Left(ls, "not opened") /\ Open(DokployRest) /\ out' = out
      BY <1>3, <1>7, <2>3, <3>4 DEF dokploy_fetch, DokployRest
    <3> QED BY <1>1, <1>3, <3>1, <3>2, <3>3, <3>5
  <2>4. (got < cur.size /\ ~(got >= cur.size)) \/ (~(got < cur.size) /\ got >= cur.size)
    BY <1>2, <1>3
  <2> QED BY <2>1, <2>2, <2>3, <2>4
<1>8. cur.page > PageCap \/ (~(cur.page > PageCap) /\ cur.page <= PageCap)
  BY <1>2
<1> HIDE DEF spent
<1> QED
  BY <1>4, <1>5, <1>6, <1>7, <1>8

\* The steps of Cloudflare.
CloudflareRest(got) ==
    IF Here.module = "zones" THEN cloudflare_children(acc.used, got) ELSE Tail(todo)

LEMMA CloudflareCases ==
    ASSUME TypeInv, NEW reply \in PlatformFaults \cup {"page"}, cloudflare_fetch(reply)
    PROVE  /\ connector = "cloudflare" /\ out.status = "running" /\ todo # <<>>
           /\ request' = request /\ Reply(reply)
           /\ \/ /\ cur' = [cur EXCEPT !.page = @ + 1, !.got = cur.got + Items]
                 /\ \E bad : acc' = [acc EXCEPT !.requests = @ + 1, !.bad = bad]
                 /\ cur.page < page_count(reply)
                 /\ todo' = todo /\ unread' = unread /\ out' = out
              \/ CloudflareMerge(cur.got + Items, reply) /\ out' = out
              \/ /\ \E code \in PlatformFaults : Fatal(code)
                 /\ acc' = acc /\ unread' = unread
              \/ /\ \/ /\ \E bad : acc' = [acc EXCEPT !.requests = @ + 1, !.bad = bad]
                       /\ Left({Here}, "refused")
                    \/ \E f \in PlatformFaults \cup {acc.failure} :
                          /\ \E bad : acc' = [acc EXCEPT !.requests = @ + 1, !.failure = f,
                                                         !.bad = bad]
                          /\ acc.failure = "none" => f # "none"
                          /\ Left({Here}, "failed")
                 /\ Open(Tail(todo)) /\ out' = out
<1> DEFINE fails == reply \notin {"page", "no_total", "unmappable"}
<1>1. /\ connector = "cloudflare" /\ out.status = "running" /\ todo # <<>>
      /\ request' = request /\ Reply(reply)
  BY DEF cloudflare_fetch, Asking
<1>2. cur.size \in Nat /\ cur.page \in Nat /\ PageCap \in Nat
  BY ConnectorAssumption DEF TypeInv, CurType
<1>3. page_count(reply) \in Nat
  BY <1>2 DEF page_count
<1>4. PICK got, count : got = cur.got + Items /\ count = page_count(reply)
  OBVIOUS
<1>5. PICK code : code = IF reply = "garbled" THEN "invalid" ELSE reply
  OBVIOUS
<1>6. fails => code \in PlatformFaults
  BY <1>5 DEF PlatformFaults
<1>7. CASE ~fails /\ cur.page < count /\ ~(cur.page >= count)
  <2>1. /\ cur' = [cur EXCEPT !.page = @ + 1, !.got = got]
        /\ todo' = todo /\ unread' = unread /\ out' = out
    BY <1>4, <1>7 DEF cloudflare_fetch
  <2>2. \E bad : acc' = [acc EXCEPT !.requests = @ + 1, !.bad = bad]
    BY <1>4, <1>7, Zenon DEF cloudflare_fetch
  <2> QED BY <1>1, <1>4, <1>7, <2>1, <2>2
<1>8. CASE ~fails /\ ~(cur.page < count) /\ cur.page >= count
  <2>1. CloudflareMerge(got, reply) /\ out' = out
    BY <1>4, <1>8 DEF cloudflare_fetch
  <2> QED BY <1>1, <1>4, <2>1
<1>9. CASE fails /\ Here.parent = 0
  <2>1. Fatal(code) /\ acc' = acc /\ unread' = unread
    BY <1>5, <1>9 DEF cloudflare_fetch
  <2> QED BY <1>1, <1>6, <1>9, <2>1
<1>10. CASE fails /\ ~(Here.parent = 0)
  <2>1. CASE Here.parent > 0 /\ code = "auth"
    <3>1. /\ acc' = [acc EXCEPT !.requests = @ + 1, !.bad = @ \ {Here}]
          /\ Left({Here}, "refused") /\ Open(Tail(todo)) /\ out' = out
      BY <1>5, <1>10, <2>1 DEF cloudflare_fetch
    <3> QED BY <1>1, <3>1
  <2>2. CASE ~(Here.parent > 0 /\ code = "auth")
    <3>1. /\ \E f \in cloudflare_primary(code) :
                acc' = [acc EXCEPT !.requests = @ + 1, !.failure = f, !.bad = @ \ {Here}]
          /\ Left({Here}, "failed") /\ Open(Tail(todo)) /\ out' = out
      BY <1>5, <1>10, <2>2 DEF cloudflare_fetch
    <3>2. PICK f \in cloudflare_primary(code) :
             acc' = [acc EXCEPT !.requests = @ + 1, !.failure = f, !.bad = @ \ {Here}]
      BY <3>1
    <3>3. f \in {acc.failure, code} /\ (acc.failure = "none" => f = code)
      BY <3>2 DEF cloudflare_primary
    <3>4. f \in PlatformFaults \cup {acc.failure} /\ (acc.failure = "none" => f # "none")
      BY <1>6, <1>10, <3>3 DEF PlatformFaults
    <3> QED BY <1>1, <3>1, <3>2, <3>4
  <2> QED BY <2>1, <2>2
<1>11. (cur.page < count /\ ~(cur.page >= count)) \/ (~(cur.page < count) /\ cur.page >= count)
  BY <1>2, <1>3, <1>4
<1> QED
  BY <1>7, <1>8, <1>9, <1>10, <1>11

LEMMA CloudflareMergeTyped ==
    ASSUME TypeInv, NEW got \in Nat, NEW reply, CloudflareMerge(got, reply)
    PROVE  cur' \in CurType /\ AccOK'
<1>1. cur \in CurType /\ AccOK
  BY DEF TypeInv
<1>2. PICK rest : Open(rest)
  BY DEF CloudflareMerge
<1>3. PICK used : used = IF Here.module = "accounts" THEN got ELSE acc.used
  OBVIOUS
<1>4. used \in Nat
  BY <1>1, <1>3 DEF AccOK
<1>5. \E found, bad : acc' = [acc EXCEPT !.found = found, !.requests = @ + 1, !.used = used,
                                         !.bad = bad]
  BY <1>3, Zenon DEF CloudflareMerge
<1>6. AccOK'
  BY <1>1, <1>4, <1>5 DEF AccOK, AccFields
<1> QED
  BY <1>1, <1>2, <1>6, OpenTyped

\* The steps of the two Supabase connectors.
LEMMA ManagedCases ==
    ASSUME NEW reply, supabase_managed_get(reply)
    PROVE  /\ connector = "supabase-managed" /\ out.status = "running" /\ todo # <<>>
           /\ request' = request /\ unread' = unread /\ Reply(reply)
           /\ \/ reply \in {"auth", "unavailable"} /\ Fatal(reply) /\ acc' = acc
              \/ /\ \E found, bad :
                       /\ acc' = [acc EXCEPT !.found = found, !.requests = @ + 1, !.bad = bad]
                       /\ found \in {acc.found, acc.found \cup {Here}}
                 /\ Open(Tail(todo)) /\ out' = out
<1>1. /\ connector = "supabase-managed" /\ out.status = "running" /\ todo # <<>>
      /\ request' = request /\ unread' = unread /\ Reply(reply)
  BY DEF supabase_managed_get, Asking
<1>2. CASE reply \in {"auth", "unavailable"}
  BY <1>1, <1>2 DEF supabase_managed_get
<1>3. CASE reply \notin {"auth", "unavailable"}
  <2>1. PICK found : found = IF cur.size > 0 THEN acc.found \cup {Here} ELSE acc.found
    OBVIOUS
  <2>2. \E bad : acc' = [acc EXCEPT !.found = found, !.requests = @ + 1, !.bad = bad]
    BY <1>3, <2>1, Zenon DEF supabase_managed_get
  <2>3. Open(Tail(todo)) /\ out' = out
    BY <1>3 DEF supabase_managed_get
  <2> QED BY <1>1, <2>1, <2>2, <2>3
<1> QED
  BY <1>2, <1>3

LEMMA SelfHostedCases ==
    ASSUME NEW reply, supabase_self_hosted_sync(reply)
    PROVE  /\ connector = "supabase-self-hosted" /\ out.status = "running" /\ todo # <<>>
           /\ request' = request /\ Reply(reply)
           /\ \/ /\ \E code \in {"invalid", reply} : Fatal(code)
                 /\ reply # "page" /\ acc' = acc /\ unread' = unread
              \/ /\ \E failure, found, relations :
                       /\ acc' = [acc EXCEPT !.found = found, !.requests = 1, !.failure = failure]
                       /\ failure \in {"none", "budget"}
                       /\ failure = "none" => unread' = unread
                       /\ found \in {{Root("instance")}, {Root("instance"), Here}}
                       /\ relations \in {{}, map_table_relations}
                       /\ out' = Concluded("full", failure, relations)
                 /\ Open(Tail(todo))
<1>1. /\ connector = "supabase-self-hosted" /\ out.status = "running" /\ todo # <<>>
      /\ request' = request /\ Reply(reply)
  BY DEF supabase_self_hosted_sync, Asking
<1>2. CASE reply # "page"
  BY <1>1, <1>2 DEF supabase_self_hosted_sync
<1>3. CASE reply = "page"
  <2>1. PICK found, failure, relations :
           /\ found = {Root("instance")} \cup (IF cur.size > 0 THEN {Here} ELSE {})
           /\ failure = IF cur.size > WalkCap THEN "budget" ELSE "none"
           /\ relations = IF cur.size > 0 THEN map_table_relations ELSE {}
    OBVIOUS
  <2>2. /\ acc' = [acc EXCEPT !.found = found, !.requests = 1, !.failure = failure]
        /\ out' = Concluded("full", failure, relations)
        /\ Open(Tail(todo))
    BY <1>3, <2>1 DEF supabase_self_hosted_sync
  <2>3. failure = "none" => unread' = unread
    BY <1>3, <2>1 DEF supabase_self_hosted_sync, Left
  <2>4. found \in {{Root("instance")}, {Root("instance"), Here}}
    BY <2>1
  <2> QED BY <1>1, <2>1, <2>2, <2>3, <2>4
<1> QED
  BY <1>2, <1>3

LEMMA PlatformTyped ==
    ASSUME TypeInv, PlatformStep
    PROVE  TypeInv'
<1>1. cur \in CurType /\ AccOK /\ faults \in Nat /\ cur.got + Items \in Nat /\ acc.used \in Nat
  BY ItemsTyped DEF TypeInv, CurType, AccOK
<1>2. ASSUME NEW reply, dokploy_fetch(reply) PROVE TypeInv'
  <2>1. cur' \in CurType
    BY <1>1, <1>2, DokployCases, OpenTyped, FatalTyped, NextPageTyped
  <2>a. \/ acc' = acc
        \/ \E failure : acc' = [acc EXCEPT !.failure = failure]
        \/ \E bad, failure : acc' = [acc EXCEPT !.bad = bad, !.failure = failure]
        \/ \E found, used, bad :
              /\ acc' = [acc EXCEPT !.found = found, !.requests = @ + 1,
                                    !.used = used, !.bad = bad]
              /\ used \in {cur.got + Items, acc.used}
    BY <1>2, DokployCases, Zenon
  <2>b. DOMAIN acc' = AccFields
    BY <1>1, <2>a DEF AccOK
  <2>c. acc'.requests \in {acc.requests, acc.requests + 1, 1}
    BY <1>1, <2>a DEF AccOK, AccFields
  <2>d. acc'.used \in Nat
    BY <1>1, <2>a DEF AccOK, AccFields
  <2>2. AccOK'
    BY <1>1, <2>b, <2>c, <2>d, AccTyped
  <2> QED BY <1>1, <1>2, <2>1, <2>2, DokployCases, ReplyTyped DEF TypeInv
<1>3. ASSUME NEW reply \in PlatformFaults \cup {"page"}, cloudflare_fetch(reply) PROVE TypeInv'
  <2>1. CASE CloudflareMerge(cur.got + Items, reply)
    BY <1>1, <1>3, <2>1, CloudflareCases, CloudflareMergeTyped, ReplyTyped DEF TypeInv
  <2>2. CASE ~CloudflareMerge(cur.got + Items, reply)
    <3>1. cur' \in CurType
      BY <1>1, <1>3, <2>2, CloudflareCases, OpenTyped, FatalTyped, NextPageTyped
    <3>a. PICK bad, failure :
             \/ acc' = acc
             \/ acc' = [acc EXCEPT !.requests = @ + 1, !.bad = bad]
             \/ acc' = [acc EXCEPT !.requests = @ + 1, !.failure = failure, !.bad = bad]
      BY <1>3, <2>2, CloudflareCases
    <3>b. DOMAIN acc' = AccFields
      BY <1>1, <3>a DEF AccOK
    <3>c. acc'.requests \in {acc.requests, acc.requests + 1, 1}
      BY <1>1, <3>a DEF AccOK, AccFields
    <3>d. acc'.used \in Nat
      BY <1>1, <3>a DEF AccOK, AccFields
    <3>2. AccOK'
      BY <1>1, <3>b, <3>c, <3>d, AccTyped
    <3> QED BY <1>1, <1>3, <3>1, <3>2, CloudflareCases, ReplyTyped DEF TypeInv
  <2> QED BY <2>1, <2>2
<1>4. ASSUME NEW reply, supabase_managed_get(reply) PROVE TypeInv'
  <2>1. cur' \in CurType
    BY <1>1, <1>4, ManagedCases, OpenTyped, FatalTyped
  <2>a. PICK found, bad :
           \/ acc' = acc
           \/ acc' = [acc EXCEPT !.found = found, !.requests = @ + 1, !.bad = bad]
    BY <1>4, ManagedCases
  <2>b. DOMAIN acc' = AccFields
    BY <1>1, <2>a DEF AccOK
  <2>c. acc'.requests \in {acc.requests, acc.requests + 1, 1}
    BY <1>1, <2>a DEF AccOK, AccFields
  <2>d. acc'.used \in Nat
    BY <1>1, <2>a DEF AccOK, AccFields
  <2>2. AccOK'
    BY <1>1, <2>b, <2>c, <2>d, AccTyped
  <2> QED BY <1>1, <1>4, <2>1, <2>2, ManagedCases, ReplyTyped DEF TypeInv
<1>5. ASSUME NEW reply, supabase_self_hosted_sync(reply) PROVE TypeInv'
  <2>1. cur' \in CurType
    BY <1>1, <1>5, SelfHostedCases, OpenTyped, FatalTyped
  <2>a. PICK found, failure :
           \/ acc' = acc
           \/ acc' = [acc EXCEPT !.found = found, !.requests = 1, !.failure = failure]
    BY <1>5, SelfHostedCases
  <2>b. DOMAIN acc' = AccFields
    BY <1>1, <2>a DEF AccOK
  <2>c. acc'.requests \in {acc.requests, acc.requests + 1, 1}
    BY <1>1, <2>a DEF AccOK, AccFields
  <2>d. acc'.used \in Nat
    BY <1>1, <2>a DEF AccOK, AccFields
  <2>2. AccOK'
    BY <1>1, <2>b, <2>c, <2>d, AccTyped
  <2> QED BY <1>1, <1>5, <2>1, <2>2, SelfHostedCases, ReplyTyped DEF TypeInv
<1>6. CASE DokployFinish \/ CloudflareFinish \/ SupabaseManagedFinish \/ fixture_replay
  BY <1>1, <1>6 DEF DokployFinish, CloudflareFinish, SupabaseManagedFinish, fixture_replay,
                    TypeInv, AccOK
<1> QED
  BY <1>2, <1>3, <1>4, <1>5, <1>6 DEF PlatformStep

\* A sync that starts has collected nothing.
LEMMA BeginCases ==
    ASSUME Begin
    PROVE  /\ out.status = "new" /\ request' = request /\ acc' = acc /\ unread' = unread
           /\ faults' = faults
           /\ \E targets :
                /\ targets \in SUBSET (1 .. MaxItems)
                /\ \/ /\ Refuses(targets) = "none" /\ out' = NoOutcome("running")
                      /\ Open(Listings(targets))
                   \/ Refuses(targets) # "none" /\ Fatal(Refuses(targets))
<1>1. PICK targets \in IF connector = "github" /\ mode = "targeted"
                         THEN SUBSET (1 .. MaxItems) ELSE {{}} :
         IF Refuses(targets) = "none"
           THEN out' = NoOutcome("running") /\ Open(Listings(targets))
           ELSE Fatal(Refuses(targets))
  BY DEF Begin
<1>2. targets \in SUBSET (1 .. MaxItems)
  OBVIOUS
<1> QED
  BY <1>1, <1>2 DEF Begin

LEMMA EmptyTyped ==
    /\ DOMAIN Empty = AccFields /\ Empty.requests = 0 /\ Empty.used = 0
    /\ Empty.failure = "none" /\ Empty.found = {}
BY DEF Empty, AccFields

LEMMA InitTyped == Init => TypeInv
<1> SUFFICES ASSUME Init PROVE TypeInv
  OBVIOUS
<1>1. cur \in {[page |-> 1, got |-> 0, retries |-> 0, size |-> 0]} /\ acc = Empty /\ faults = 0
  BY DEF Init, Fresh
<1> QED
  BY <1>1, EmptyTyped DEF TypeInv, CurType, AccOK

\* The invariant of the types.
LEMMA TypeStep == TypeInv /\ [Next]_vars => TypeInv'
<1> SUFFICES ASSUME TypeInv, [Next]_vars PROVE TypeInv'
  OBVIOUS
<1>1. cur \in CurType /\ AccOK /\ faults \in Nat
  BY DEF TypeInv
<1>2. CASE Begin
  BY <1>1, <1>2, BeginCases, OpenTyped, FatalTyped DEF TypeInv, AccOK
<1>3. CASE Again
  <2>1. acc' = Empty /\ faults' = faults /\ cur' \in Fresh(<<>>)
    BY <1>3 DEF Again
  <2> QED BY <1>1, <2>1, EmptyTyped, FreshTyped DEF TypeInv, AccOK
<1>4. CASE UNCHANGED vars
  BY <1>1, <1>4 DEF vars, TypeInv, AccOK
<1> QED
  BY <1>2, <1>3, <1>4, CloudTyped, GitHubTyped, SshTyped, PlatformTyped DEF Next, Step

-----------------------------------------------------------------------------
(* Gaps are known.                                                         *)

\* As long as no failure is noted, what was left unread was left silently.
GapsInv ==
    /\ acc.failure = "none" => \A u \in unread : u.why \in SilentReasons
    /\ connector \in {"fixture", "supabase-managed"} => unread = {}
    /\ connector = "supabase-self-hosted" /\ out.status \in {"new", "running"} => unread = {}
    /\ GapsKnown

\* A failure that was noted is not forgotten, and what is left unread is left
\* silently or noted.
Noted ==
    /\ connector' = connector
    /\ acc'.failure = "none" =>
          acc.failure = "none" /\ \A u \in unread' : u \in unread \/ u.why \in SilentReasons

\* Only an answer without a failure is complete (Concluded).
LEMMA ConcludedWithoutFailure ==
    ASSUME NEW coverage, NEW failure, NEW rels,
           Concluded(coverage, failure, rels).status = "complete"
    PROVE  failure = "none"
BY DEF Concluded, Failed, NoOutcome

LEMMA FailedIsError ==
    ASSUME NEW code
    PROVE  Failed(code).status = "error" /\ Failed(code).code = code
BY DEF Failed, NoOutcome

\* A step of a sync that goes on, or ends with an error.
LEMMA RunningKeeps ==
    ASSUME GapsInv, Noted, out'.status # "complete",
           connector \in {"fixture", "supabase-managed"} => unread' = unread,
           connector # "supabase-self-hosted"
    PROVE  GapsInv'
<1>1. SilentReasons' = SilentReasons
  BY DEF Noted, SilentReasons
<1> QED
  BY <1>1 DEF GapsInv, Noted, GapsKnown

\* The end of a sync.
LEMMA FinishKeeps ==
    ASSUME GapsInv, connector' = connector, acc' = acc, unread' = unread,
           connector # "supabase-self-hosted",
           out'.status = "complete" => acc.failure = "none" \/ unread = {}
    PROVE  GapsInv'
<1>1. SilentReasons' = SilentReasons
  BY DEF SilentReasons
<1> QED
  BY <1>1 DEF GapsInv, GapsKnown

LEMMA LeftWhy ==
    ASSUME NEW ls, NEW why, NEW whys, Left(ls, why), why \in whys
    PROVE  \A u \in unread' : u \in unread \/ u.why \in whys
BY DEF Left

LEMMA CloudsSilent ==
    ASSUME connector \in Clouds
    PROVE  SilentReasons = {"domain limit", "shared total", "no total", "empty page", "no list"}
BY DEF SilentReasons, Clouds

\* The clouds: what a reply is collected into.
LEMMA CollectNotes ==
    ASSUME DOMAIN acc = AccFields, NEW listing, NEW items, NEW failure, NEW used,
           CloudCollect(listing, items, failure, used)
    PROVE  acc'.failure = "none" <=> acc.failure = "none" /\ failure = "none"
BY DEF CloudCollect, AccFields

LEMMA ReplyCodeFails ==
    ASSUME NEW reply
    PROVE  ReplyCode(reply) # "none"
BY DEF ReplyCode, Codes

LEMMA ModulePageGaps ==
    ASSUME DOMAIN acc = AccFields, connector \in Clouds, out.status = "running",
           NEW reply, NEW p, NEW stops, ModulePage(reply, p, stops)
    PROVE  Noted /\ out'.status # "complete"
<1>1. connector' = connector /\ out' = out
  BY DEF ModulePage, request
<1>2. CASE p.ok /\ signed_request
  <2>1. CloudCollect(Here, p.items, "none", acc.used)
    BY <1>2 DEF ModulePage
  <2>2. PICK why : why = IF p.total = 0 /\ p.items = 0 THEN "no list" ELSE "no total"
    OBVIOUS
  <2>3. PICK ls : ls = IF cur.got + p.items < cur.size THEN {Here} ELSE {}
    OBVIOUS
  <2>4. unread' = unread \/ Left(ls, why)
    BY <1>2, <2>2, <2>3 DEF ModulePage
  <2>5. \A u \in unread' : u \in unread \/ u.why \in {"no list", "no total"}
    BY <2>2, <2>4, LeftWhy
  <2>6. \A u \in unread' : u \in unread \/ u.why \in SilentReasons
    BY <2>5, CloudsSilent
  <2> QED
    BY <1>1, <2>1, <2>6, CollectNotes DEF Noted
<1>3. CASE ~(p.ok /\ signed_request)
  <2>1. CloudCollect(Here, 0, ReplyCode(reply), acc.used)
    BY <1>3 DEF ModulePage
  <2> QED
    BY <1>1, <2>1, ReplyCodeFails, CollectNotes DEF Noted
<1> QED
  BY <1>2, <1>3

LEMMA DomainsPageGaps ==
    ASSUME DOMAIN acc = AccFields, connector \in Clouds, out.status = "running",
           NEW reply, NEW p, DomainsPage(reply, p)
    PROVE  Noted /\ out'.status # "complete"
<1>1. connector' = connector /\ out' = out
  BY DEF DomainsPage, request
<1>2. CASE p.ok /\ signed_request
  <2>1. CloudCollect(Here, 0, "none", 0)
    BY <1>2 DEF DomainsPage
  <2>2. PICK why : why = IF p.items > 0 THEN "no total"
                         ELSE IF p.total = 0 THEN "no list" ELSE "empty page"
    OBVIOUS
  <2>3. PICK ls : ls = IF cur.got + p.items < cur.size THEN {Here} ELSE {}
    OBVIOUS
  <2>4. unread' = unread \/ Left(ls, why)
    BY <1>2, <2>2, <2>3 DEF DomainsPage
  <2>5. \A u \in unread' : u \in unread \/ u.why \in {"no list", "no total", "empty page"}
    BY <2>2, <2>4, LeftWhy
  <2>6. \A u \in unread' : u \in unread \/ u.why \in SilentReasons
    BY <2>5, CloudsSilent
  <2> QED
    BY <1>1, <2>1, <2>6, CollectNotes DEF Noted
<1>3. CASE ~(p.ok /\ signed_request)
  <2>1. CloudCollect(Here, 0, ReplyCode(reply), 0)
    BY <1>3 DEF DomainsPage
  <2> QED
    BY <1>1, <2>1, ReplyCodeFails, CollectNotes DEF Noted
<1> QED
  BY <1>2, <1>3

LEMMA RecordsPageGaps ==
    ASSUME DOMAIN acc = AccFields, connector \in Clouds, out.status = "running",
           NEW reply, NEW p, NEW mapped \in BOOLEAN, RecordsPage(reply, p, mapped)
    PROVE  Noted /\ out'.status # "complete"
<1>1. connector' = connector /\ out' = out
  BY DEF RecordsPage, request
<1>2. CASE p.ok /\ signed_request
  <2>1. PICK items, failure, used :
           /\ failure = IF mapped THEN "none" ELSE "invalid"
           /\ CloudCollect(Here, items, failure, used)
    BY <1>2 DEF RecordsPage
  <2>2. acc'.failure = "none" => mapped
    BY <2>1, CollectNotes
  <2>3. RecordsCut(p) \in {"shared total", "empty page", "no list", "no total"}
    BY DEF RecordsCut
  <2>4. PICK cut : cut = RecordsCut(p)
    OBVIOUS
  <2>5. mapped => \/ unread' = unread
                  \/ unread' = unread \cup {[listing |-> Here, why |-> cut]}
    BY <1>2, <2>4 DEF RecordsPage
  <2>6. mapped => \A u \in unread' : u \in unread \/ u.why = cut
    BY <2>5
  <2>7. mapped => \A u \in unread' : u \in unread \/ u.why \in SilentReasons
    BY <2>3, <2>4, <2>6, CloudsSilent
  <2> QED
    BY <1>1, <2>1, <2>2, <2>7, CollectNotes DEF Noted
<1>3. CASE ~(p.ok /\ signed_request)
  <2>1. CloudCollect(Here, 0, ReplyCode(reply), acc.used)
    BY <1>3 DEF RecordsPage
  <2> QED
    BY <1>1, <2>1, ReplyCodeFails, CollectNotes DEF Noted
<1> QED
  BY <1>2, <1>3

LEMMA CloudGaps ==
    ASSUME TypeInv, GapsInv, CloudStep
    PROVE  GapsInv'
<1>a. DOMAIN acc = AccFields
  BY DEF TypeInv, AccOK
<1>1. ASSUME NEW reply, AliyunStep(reply) \/ TencentStep(reply)
      PROVE  GapsInv'
  <2>1. connector \in Clouds /\ out.status = "running"
    BY <1>1, CloudAsks
  <2>2. ASSUME RetryList(reply)
        PROVE  Noted /\ out'.status # "complete"
    BY <1>a, <2>1, <2>2 DEF RetryList, Noted, request, AccFields
  <2>3. Noted /\ out'.status # "complete"
    BY <1>1, <1>a, <2>1, <2>2, CloudAsks, ModulePageGaps, DomainsPageGaps, RecordsPageGaps
  <2> QED
    BY <2>1, <2>3, RunningKeeps DEF Clouds
<1>2. CASE ModuleBudget
  <2>1. Noted /\ out'.status # "complete" /\ connector \in Clouds
    BY <1>2, <1>a DEF ModuleBudget, Asking, request, Noted, AccFields
  <2> QED BY <2>1, RunningKeeps DEF Clouds
<1>3. CASE DomainLimit
  <2>1. /\ connector \in Clouds /\ connector' = connector /\ out'.status # "complete"
        /\ acc' = acc
    BY <1>3 DEF DomainLimit, Asking, request
  <2>2. PICK ls : Left(ls, "domain limit")
    BY <1>3 DEF DomainLimit
  <2>3. \A u \in unread' : u \in unread \/ u.why \in {"domain limit"}
    BY <2>2, LeftWhy
  <2>4. \A u \in unread' : u \in unread \/ u.why \in SilentReasons
    BY <2>1, <2>3, CloudsSilent
  <2>5. Noted
    BY <1>a, <2>1, <2>4 DEF Noted
  <2> QED BY <2>1, <2>5, RunningKeeps DEF Clouds
<1>4. CASE \/ Asking("aliyun") /\ RecordsBudget(AliyunRecordsSpent)
           \/ Asking("tencent") /\ RecordsBudget(RecordsSpent)
  <2>1. /\ out'.status # "complete" /\ connector \in Clouds /\ connector' = connector
        /\ acc' = [acc EXCEPT !.failure = "budget"]
    BY <1>4 DEF RecordsBudget, Asking, request, Clouds
  <2>2. Noted
    BY <1>a, <2>1 DEF Noted, AccFields
  <2> QED BY <2>1, <2>2, RunningKeeps DEF Clouds
<1>5. CASE CloudFinish
  <2>1. connector' = connector /\ acc' = acc /\ unread' = unread /\ connector \in Clouds
    BY <1>5 DEF CloudFinish, request
  <2>2. out'.status = "complete" => acc.failure = "none"
    BY <1>5, ConcludedWithoutFailure, FailedIsError DEF CloudFinish, aliyun_finish, tencent_finish
  <2> QED BY <2>1, <2>2, FinishKeeps DEF Clouds
<1> QED
  BY <1>1, <1>2, <1>3, <1>4, <1>5 DEF CloudStep

\* GitHub: a listing that ends with a failure notes it.
LEMMA MergeNotes ==
    ASSUME DOMAIN acc = AccFields, NEW n, NEW failure, GitHubMerge(n, failure)
    PROVE  acc'.failure = "none" => acc.failure = "none" /\ failure = "none"
BY DEF GitHubMerge, First, AccFields

LEMMA GapNotes ==
    ASSUME DOMAIN acc = AccFields, out.status = "running", connector' = connector,
           NEW n, NEW code, code # "none", GitHubGap(n, code)
    PROVE  Noted /\ out'.status # "complete"
<1>1. CASE code = "auth" \/ acc.bad # {} \/ (n = 0 /\ Here.module \in {"repositories", "repository"})
  <2>1. /\ unread' = unread
        /\ \E c : out' = Failed(c)
        /\ acc' = [acc EXCEPT !.requests = IF code = "budget" THEN @ ELSE @ + 1]
    BY <1>1 DEF GitHubGap, Fatal
  <2> QED
    BY <2>1, FailedIsError DEF Noted, AccFields
<1>2. CASE ~(code = "auth" \/ acc.bad # {} \/ (n = 0 /\ Here.module \in {"repositories", "repository"}))
  <2>1. GitHubMerge(n, code) /\ out' = out
    BY <1>2 DEF GitHubGap
  <2> QED
    BY <2>1, MergeNotes DEF Noted
<1> QED
  BY <1>1, <1>2

LEMMA GitHubGaps ==
    ASSUME TypeInv, GapsInv, GitHubStep
    PROVE  GapsInv'
<1>a. DOMAIN acc = AccFields
  BY DEF TypeInv, AccOK
<1>b. ASSUME connector = "github", Noted, out'.status # "complete" PROVE GapsInv'
  BY <1>b, RunningKeeps
<1>1. ASSUME NEW reply \in GitHubFaults \cup {"page"}, github_fetch(reply)
      PROVE  GapsInv'
  <2>1. connector = "github" /\ out.status = "running" /\ connector' = connector
    BY <1>1, GitHubAsks DEF request
  <2>2. CASE /\ \E bad : acc' = [acc EXCEPT !.requests = @ + 1, !.bad = bad]
             /\ unread' = unread /\ out' = out
    BY <1>a, <1>b, <2>1, <2>2 DEF Noted, AccFields
  <2>3. CASE Fatal("invalid") /\ acc' = [acc EXCEPT !.requests = @ + 1] /\ unread' = unread
    BY <1>a, <1>b, <2>1, <2>3, FailedIsError DEF Noted, AccFields, Fatal
  <2>4. CASE GitHubMerge(cur.got + Items, "none") /\ out' = out /\ unread' = unread
    BY <1>a, <1>b, <2>1, <2>4, MergeNotes DEF Noted
  <2>5. CASE GitHubGap(cur.got, reply)
    <3>1. reply # "none"
      BY DEF GitHubFaults
    <3> QED BY <1>a, <1>b, <2>1, <2>5, <3>1, GapNotes
  <2> QED BY <1>1, <2>2, <2>3, <2>4, <2>5, GitHubAsks
<1>2. CASE GitHubPageLimit
  <2>1. connector = "github" /\ out.status = "running" /\ connector' = connector
    BY <1>2 DEF GitHubPageLimit, Asking, request
  <2>2. GitHubGap(cur.got, "budget")
    BY <1>2 DEF GitHubPageLimit
  <2> QED BY <1>a, <1>b, <2>1, <2>2, GapNotes
<1>3. CASE mark_budget_exhausted
  <2>1. connector = "github" /\ out.status = "running" /\ connector' = connector
    BY <1>3 DEF mark_budget_exhausted, Asking, request
  <2>2. acc' = [acc EXCEPT !.failure = First(@, "budget")] /\ out' = out
    BY <1>3 DEF mark_budget_exhausted
  <2> QED BY <1>a, <1>b, <2>1, <2>2 DEF Noted, AccFields, First
<1>4. CASE github_not_modified
  <2>1. connector = "github" /\ out.status = "running" /\ connector' = connector
    BY <1>4 DEF github_not_modified, Asking, request
  <2>2. PICK c \in cache.pages :
           \/ /\ Fatal("invalid")
              /\ acc' = [acc EXCEPT !.requests = @ + 1]
              /\ unread' = unread
           \/ /\ GitHubMerge(c.size, "none")
              /\ Left(IF c.size = cur.size THEN {} ELSE {Here}, "cached")
              /\ out' = out
    BY <1>4 DEF github_not_modified
  <2>3. CASE Fatal("invalid") /\ acc' = [acc EXCEPT !.requests = @ + 1] /\ unread' = unread
    BY <1>a, <1>b, <2>1, <2>3, FailedIsError DEF Noted, AccFields, Fatal
  <2>4. CASE /\ GitHubMerge(c.size, "none")
             /\ Left(IF c.size = cur.size THEN {} ELSE {Here}, "cached")
             /\ out' = out
    <3>1. PICK ls : ls = IF c.size = cur.size THEN {} ELSE {Here}
      OBVIOUS
    <3>2. \A u \in unread' : u \in unread \/ u.why \in {"cached"}
      BY <2>4, <3>1, LeftWhy
    <3>3. SilentReasons = {"cached"}
      BY <2>1 DEF SilentReasons, Clouds
    <3> QED BY <1>a, <1>b, <2>1, <2>4, <3>2, <3>3, MergeNotes DEF Noted
  <2> QED BY <2>2, <2>3, <2>4
<1>5. CASE GitHubFinish
  <2>1. connector' = connector /\ acc' = acc /\ unread' = unread /\ connector = "github"
    BY <1>5 DEF GitHubFinish, request, Done
  <2>2. out'.status = "complete" => acc.failure = "none"
    BY <1>5, ConcludedWithoutFailure DEF GitHubFinish, github_finish
  <2> QED BY <2>1, <2>2, FinishKeeps
<1> QED
  BY <1>1, <1>2, <1>3, <1>4, <1>5 DEF GitHubStep

\* SSH: a probe that fails notes it.
LEMMA SshFailureFails ==
    ASSUME NEW f, NEW reply
    PROVE  SshFailure(f, reply) # "none"
BY DEF SshFailure, First, ssh_code, Codes

LEMMA SshGaps ==
    ASSUME TypeInv, GapsInv, SshStep
    PROVE  GapsInv'
<1>a. DOMAIN acc = AccFields
  BY DEF TypeInv, AccOK
<1>b. ASSUME connector = "ssh", Noted, out'.status # "complete" PROVE GapsInv'
  BY <1>b, RunningKeeps
<1>1. ASSUME NEW reply, ssh_identity(reply) PROVE GapsInv'
  <2>1. /\ connector = "ssh" /\ out.status = "running" /\ connector' = connector
        /\ unread' = unread
    BY <1>1, IdentityCases DEF request
  <2>2. PICK found : \/ acc' = acc
                     \/ acc' = [acc EXCEPT !.found = found, !.requests = @ + 1, !.used = 0]
    BY <1>1, IdentityCases
  <2>3. out'.status # "complete"
    BY <1>1, <2>1, IdentityCases, FailedIsError DEF Fatal
  <2>4. Noted
    BY <1>a, <2>1, <2>2 DEF Noted, AccFields
  <2> QED BY <1>b, <2>1, <2>3, <2>4
<1>2. ASSUME NEW reply, ssh_probe(reply) PROVE GapsInv'
  <2>1. connector = "ssh" /\ out.status = "running" /\ connector' = connector
    BY <1>2, ProbeCases DEF request
  <2>2. PICK found, failure, used :
           /\ failure = SshFailure(acc.failure, reply)
           /\ \/ acc' = acc /\ unread' = unread
              \/ /\ acc' = [acc EXCEPT !.found = found, !.requests = @ + 1, !.used = used]
                 /\ unread' = unread
              \/ acc' = [acc EXCEPT !.failure = failure, !.requests = @ + 1, !.used = used]
    BY <1>2, ProbeCases
  <2>3. failure # "none"
    BY <2>2, SshFailureFails
  <2>4. out'.status # "complete"
    BY <1>2, <2>1, ProbeCases, FailedIsError DEF Fatal
  <2>5. Noted
    BY <1>a, <2>1, <2>2, <2>3 DEF Noted, AccFields
  <2> QED BY <1>b, <2>1, <2>4, <2>5
<1>3. CASE SshFinish
  <2>1. connector' = connector /\ acc' = acc /\ unread' = unread /\ connector = "ssh"
    BY <1>3 DEF SshFinish, request, Done
  <2>2. PICK f : /\ f = CASE acc.failure = "garbled" -> "invalid"
                          [] acc.failure = "none" /\ mode = "targeted" -> "budget"
                          [] OTHER -> acc.failure
                 /\ out' = Concluded("full", f, ssh_relations)
    BY <1>3 DEF SshFinish, ssh_finish
  <2>3. out'.status = "complete" => f = "none"
    BY <2>2, ConcludedWithoutFailure
  <2>4. f = "none" => acc.failure = "none"
    BY <2>2
  <2> QED BY <2>1, <2>3, <2>4, FinishKeeps
<1> QED
  BY <1>1, <1>2, <1>3 DEF SshStep

\* The platforms.
LEMMA DokployGaps ==
    ASSUME TypeInv, GapsInv, NEW reply, dokploy_fetch(reply)
    PROVE  GapsInv'
<1>a. DOMAIN acc = AccFields
  BY DEF TypeInv, AccOK
<1>1. connector = "dokploy" /\ out.status = "running" /\ connector' = connector
  BY DokployCases DEF request
<1>2. out'.status # "complete"
  BY <1>1, DokployCases, FailedIsError DEF Fatal
<1>3. SilentReasons = {"not opened"}
  BY <1>1 DEF SilentReasons, Clouds
<1>4. CASE acc' = [acc EXCEPT !.failure = "budget"]
  <2>1. Noted
    BY <1>a, <1>1, <1>4 DEF Noted, AccFields
  <2> QED BY <1>1, <1>2, <2>1, RunningKeeps
<1>5. CASE acc' = acc /\ unread' = unread
  <2>1. Noted
    BY <1>1, <1>5 DEF Noted
  <2> QED BY <1>1, <1>2, <2>1, RunningKeeps
<1>6. CASE /\ \E bad, failure :
                 /\ acc' = [acc EXCEPT !.bad = bad, !.failure = failure]
                 /\ failure \in {acc.failure, "garbled"}
           /\ unread' = unread
  <2>1. Noted
    BY <1>a, <1>1, <1>6 DEF Noted, AccFields
  <2> QED BY <1>1, <1>2, <2>1, RunningKeeps
<1>7. CASE /\ \E found, used, bad :
                 acc' = [acc EXCEPT !.found = found, !.requests = @ + 1,
                                    !.used = used, !.bad = bad]
           /\ \E ls : Left(ls, "not opened")
  <2>1. acc'.failure = acc.failure
    BY <1>a, <1>7 DEF AccFields
  <2>2. \A u \in unread' : u \in unread \/ u.why \in {"not opened"}
    BY <1>7, LeftWhy
  <2>3. Noted
    BY <1>1, <1>3, <2>1, <2>2 DEF Noted
  <2> QED BY <1>1, <1>2, <2>3, RunningKeeps
<1>8. \/ acc' = [acc EXCEPT !.failure = "budget"]
      \/ acc' = acc /\ unread' = unread
      \/ /\ \E bad, failure :
               /\ acc' = [acc EXCEPT !.bad = bad, !.failure = failure]
               /\ failure \in {acc.failure, "garbled"}
         /\ unread' = unread
      \/ /\ \E found, used, bad :
               acc' = [acc EXCEPT !.found = found, !.requests = @ + 1,
                                  !.used = used, !.bad = bad]
         /\ \E ls : Left(ls, "not opened")
  <2>1. ASSUME \E found, used, bad :
                  /\ acc' = [acc EXCEPT !.found = found, !.requests = @ + 1,
                                        !.used = used, !.bad = bad]
                  /\ found \in {acc.found, acc.found \cup {Here}}
                  /\ used \in {cur.got + Items, acc.used}
        PROVE  \E found, used, bad :
                  acc' = [acc EXCEPT !.found = found, !.requests = @ + 1,
                                     !.used = used, !.bad = bad]
    BY <2>1, Zenon
  <2> QED BY <2>1, DokployCases, ZenonT(60)
<1> QED
  BY <1>4, <1>5, <1>6, <1>7, <1>8, Zenon

LEMMA CloudflareGaps ==
    ASSUME TypeInv, GapsInv, NEW reply \in PlatformFaults \cup {"page"}, cloudflare_fetch(reply)
    PROVE  GapsInv'
<1>a. DOMAIN acc = AccFields
  BY DEF TypeInv, AccOK
<1>1. connector = "cloudflare" /\ out.status = "running" /\ connector' = connector
  BY CloudflareCases DEF request
<1>2. out'.status # "complete"
  BY <1>1, CloudflareCases, FailedIsError DEF Fatal
<1>3. SilentReasons = {"refused", "page limit", "no total"}
  BY <1>1 DEF SilentReasons, Clouds
<1>b. ASSUME Noted PROVE GapsInv'
  BY <1>1, <1>2, <1>b, RunningKeeps
<1>4. CASE /\ \/ acc' = acc
              \/ \E bad : acc' = [acc EXCEPT !.requests = @ + 1, !.bad = bad]
           /\ unread' = unread
  BY <1>a, <1>b, <1>1, <1>4 DEF Noted, AccFields
<1>5. CASE CloudflareMerge(cur.got + Items, reply)
  <2>1. PICK why : why = IF reply = "no_total" THEN "no total" ELSE "page limit"
    OBVIOUS
  <2>2. \E ls : Left(ls, why)
    BY <1>5, <2>1 DEF CloudflareMerge
  <2>3. \A u \in unread' : u \in unread \/ u.why \in {"no total", "page limit"}
    BY <2>1, <2>2, LeftWhy
  <2>4. acc'.failure = acc.failure
    BY <1>a, <1>5 DEF CloudflareMerge, AccFields
  <2> QED BY <1>b, <1>1, <1>3, <2>3, <2>4 DEF Noted
<1>6. CASE /\ \E bad : acc' = [acc EXCEPT !.requests = @ + 1, !.bad = bad]
           /\ Left({Here}, "refused")
  <2>1. \A u \in unread' : u \in unread \/ u.why \in {"refused"}
    BY <1>6, LeftWhy
  <2>2. acc'.failure = acc.failure
    BY <1>a, <1>6 DEF AccFields
  <2> QED BY <1>b, <1>1, <1>3, <2>1, <2>2 DEF Noted
<1>7. CASE \E f \in PlatformFaults \cup {acc.failure} :
              /\ \E bad : acc' = [acc EXCEPT !.requests = @ + 1, !.failure = f, !.bad = bad]
              /\ acc.failure = "none" => f # "none"
  <2>1. acc'.failure # "none"
    BY <1>a, <1>7 DEF AccFields, PlatformFaults
  <2> QED BY <1>b, <1>1, <2>1 DEF Noted
<1> QED
  BY <1>4, <1>5, <1>6, <1>7, CloudflareCases, Zenon

LEMMA PlatformGaps ==
    ASSUME TypeInv, GapsInv, PlatformStep
    PROVE  GapsInv'
<1>a. DOMAIN acc = AccFields
  BY DEF TypeInv, AccOK
<1>1. ASSUME NEW reply, supabase_managed_get(reply) PROVE GapsInv'
  <2>1. /\ connector = "supabase-managed" /\ out.status = "running" /\ connector' = connector
        /\ unread' = unread
    BY <1>1, ManagedCases DEF request
  <2>2. PICK found, bad :
           \/ acc' = acc
           \/ acc' = [acc EXCEPT !.found = found, !.requests = @ + 1, !.bad = bad]
    BY <1>1, ManagedCases
  <2>3. Noted
    BY <1>a, <2>1, <2>2 DEF Noted, AccFields
  <2>4. out'.status # "complete"
    BY <1>1, <2>1, ManagedCases, FailedIsError DEF Fatal
  <2> QED BY <2>1, <2>3, <2>4, RunningKeeps
<1>2. ASSUME NEW reply, supabase_self_hosted_sync(reply) PROVE GapsInv'
  <2>1. /\ connector = "supabase-self-hosted" /\ out.status = "running"
        /\ connector' = connector /\ unread = {}
    BY <1>2, SelfHostedCases DEF request, GapsInv
  <2>2. CASE unread' = unread /\ \E code : Fatal(code)
    BY <2>1, <2>2, FailedIsError DEF GapsInv, GapsKnown, Fatal
  <2>3. CASE \E failure, found, relations :
                /\ acc' = [acc EXCEPT !.found = found, !.requests = 1, !.failure = failure]
                /\ failure \in {"none", "budget"}
                /\ failure = "none" => unread' = unread
                /\ out' = Concluded("full", failure, relations)
    <3>1. PICK failure, relations :
             /\ acc'.failure = failure
             /\ failure = "none" => unread' = unread
             /\ out' = Concluded("full", failure, relations)
      BY <1>a, <2>3 DEF AccFields
    <3>2. out'.status = "complete" => failure = "none"
      BY <3>1, ConcludedWithoutFailure
    <3>3. out'.status \notin {"new", "running"}
      BY <3>1 DEF Concluded, Failed, NoOutcome
    <3> QED BY <2>1, <3>1, <3>2, <3>3 DEF GapsInv, GapsKnown
  <2> QED BY <1>2, <2>2, <2>3, SelfHostedCases
<1>3. CASE DokployFinish
  <2>1. connector' = connector /\ acc' = acc /\ unread' = unread /\ connector = "dokploy"
    BY <1>3 DEF DokployFinish, request, Done
  <2>2. out'.status = "complete" => acc.failure = "none"
    BY <1>3, ConcludedWithoutFailure, FailedIsError DEF DokployFinish, dokploy_finish
  <2> QED BY <2>1, <2>2, FinishKeeps
<1>4. CASE CloudflareFinish
  <2>1. connector' = connector /\ acc' = acc /\ unread' = unread /\ connector = "cloudflare"
    BY <1>4 DEF CloudflareFinish, request, Done
  <2>2. out'.status = "complete" => acc.failure = "none"
    BY <1>4, ConcludedWithoutFailure, FailedIsError DEF CloudflareFinish, cloudflare_finish
  <2> QED BY <2>1, <2>2, FinishKeeps
<1>5. CASE SupabaseManagedFinish
  <2>1. /\ connector' = connector /\ acc' = acc /\ unread' = unread
        /\ connector = "supabase-managed"
    BY <1>5 DEF SupabaseManagedFinish, request, Done
  <2>2. unread = {}
    BY <2>1 DEF GapsInv
  <2> QED BY <2>1, <2>2, FinishKeeps
<1>6. CASE fixture_replay
  <2>1. connector' = connector /\ acc' = acc /\ unread' = unread /\ connector = "fixture"
    BY <1>6 DEF fixture_replay, request, Done
  <2>2. unread = {}
    BY <2>1 DEF GapsInv
  <2> QED BY <2>1, <2>2, FinishKeeps
<1> QED
  BY <1>1, <1>2, <1>3, <1>4, <1>5, <1>6, DokployGaps, CloudflareGaps DEF PlatformStep

\* A sync that is reported complete has left nothing unread but what its
\* connector leaves silently, whatever the provider has and answers.
THEOREM GapsKnownAlways == Spec => []GapsKnown
<1>1. Init => TypeInv /\ GapsInv
  <2> SUFFICES ASSUME Init PROVE TypeInv /\ GapsInv
    OBVIOUS
  <2>1. TypeInv
    BY InitTyped
  <2>2. unread = {} /\ out = NoOutcome("new")
    BY DEF Init
  <2> QED BY <2>1, <2>2 DEF GapsInv, GapsKnown
<1>2. TypeInv /\ GapsInv /\ [Next]_vars => (TypeInv /\ GapsInv)'
  <2> SUFFICES ASSUME TypeInv, GapsInv, [Next]_vars PROVE (TypeInv /\ GapsInv)'
    OBVIOUS
  <2>1. TypeInv'
    BY TypeStep
  <2>2. CASE Begin
    <3>1. connector' = connector /\ acc' = acc /\ unread' = unread /\ out.status = "new"
      BY <2>2, BeginCases DEF request
    <3>2. out'.status # "complete"
      BY <2>2, BeginCases, FailedIsError DEF Fatal, NoOutcome
    <3>3. SilentReasons' = SilentReasons
      BY <3>1 DEF SilentReasons
    <3> QED BY <2>1, <3>1, <3>2, <3>3 DEF GapsInv, GapsKnown
  <2>3. CASE Again
    <3>1. unread' = {} /\ connector' = connector
      BY <2>3 DEF Again
    <3> QED BY <2>1, <3>1 DEF GapsInv, GapsKnown
  <2>4. CASE UNCHANGED vars
    BY <2>1, <2>4 DEF vars, GapsInv, GapsKnown, SilentReasons
  <2> QED
    BY <2>1, <2>2, <2>3, <2>4, CloudGaps, GitHubGaps, SshGaps, PlatformGaps DEF Next, Step
<1>3. TypeInv /\ GapsInv => GapsKnown
  BY DEF GapsInv
<1> QED
  BY <1>1, <1>2, <1>3, PTL DEF Spec

-----------------------------------------------------------------------------
(* What a connector declares.                                              *)

Declined == {"config", "schema", "credential"}

\* The modules that a connector reads.
ReadModules(c) ==
    CASE c \in Clouds -> CloudKinds \cup {"domains"}
      [] c = "github" -> {"repositories", "repository", "workflows", "runs"}
      [] c = "ssh" -> {"identity", "uptime", "filesystems", "process_summary", "services"}
      [] c = "dokploy" -> {"projects", "servers", "deployments", "app_domains"}
      [] c = "cloudflare" -> {"accounts", "zones", "dns_records", "tunnels", "workers"}
      [] c = "supabase-managed" -> {"projects", "organizations"}
      [] c = "supabase-self-hosted" -> {"instance", "tables"}
      [] OTHER -> {}

\* The parents of listings: numbers, and what a targeted sync makes of its targets.
Nth(targets, i) == CHOOSE t \in targets : Cardinality({u \in targets : u < t}) = i - 1
Parents == Nat \cup {Nth(targets, i) : targets \in SUBSET (1 .. MaxItems), i \in Nat}
ReadListings(c) == [module : ReadModules(c), parent : Parents]

\* What is in a batch comes from the modules that the connector reads, and no
\* failure in the middle of a sync declines the connection, but for a region.
FoundOK == \A l \in acc.found : l.module \in ReadModules(connector)
CacheOK == DOMAIN cache = {"pages", "routes"} /\ \A c \in cache.pages : c.size \in Nat
KindsInv ==
    /\ todo \in Seq(ReadListings(connector))
    /\ FoundOK
    /\ CacheOK
    /\ connector \in Clouds /\ acc.failure \in Declined => config = "region"
    /\ DescriptorKept

LEMMA ModulesRead ==
    /\ \A c \in Clouds : ReadModules(c) = CloudKinds \cup {"domains"}
    /\ ReadModules("github") = {"repositories", "repository", "workflows", "runs"}
    /\ ReadModules("ssh") =
          {"identity", "uptime", "filesystems", "process_summary", "services"}
    /\ ReadModules("dokploy") = {"projects", "servers", "deployments", "app_domains"}
    /\ ReadModules("cloudflare") = {"accounts", "zones", "dns_records", "tunnels", "workers"}
    /\ ReadModules("supabase-managed") = {"projects", "organizations"}
    /\ ReadModules("supabase-self-hosted") = {"instance", "tables"}
BY DEF ReadModules, Clouds

\* What is read is registered, and what is registered is declared.
LEMMA ReadRegistered ==
    ASSUME NEW c \in Application, NEW x \in ReadModules(c)
    PROVE  KindsOf(x) \subseteq NormalizerOf(c).kinds
BY DEF Application, ReadModules, KindsOf, NormalizerOf, Clouds, CloudKinds, Normalizer,
       github_normalizer, ssh_normalizer, dokploy_normalizer, cloudflare_normalizer,
       supabase_managed_normalizer, aliyun_normalizer, tencent_normalizer

LEMMA RegisteredDeclared ==
    ASSUME NEW c \in Application
    PROVE  /\ NormalizerOf(c).kinds \subseteq DescriptorOf(c).kinds
           /\ NormalizerOf(c).relations \subseteq DescriptorOf(c).relations
BY DEF Application, NormalizerOf, DescriptorOf, Normalizer, Descriptor,
       github_normalizer, ssh_normalizer, dokploy_normalizer, cloudflare_normalizer,
       supabase_managed_normalizer, aliyun_normalizer, tencent_normalizer,
       github_descriptor, ssh_descriptor, dokploy_descriptor, cloudflare_descriptor,
       supabase_managed_descriptor, aliyun_descriptor, tencent_descriptor

\* Relations that the application's normalizer knows.
RelationsKnown(relations) ==
    \A r \in ModulesOf(relations) :
       KindsOf(r[1]) \X KindsOf(r[2]) \subseteq NormalizerOf(connector).relations

\* A sync that goes on, or ends with another error.
LEMMA GoesOn ==
    ASSUME out'.status = "running" \/ (out'.status = "error" /\ out'.code \notin Declined)
    PROVE  DescriptorKept'
BY DEF DescriptorKept, DeclaredRuns, DeclaredKinds, Declined

\* The end of a sync by a connector of the application.
LEMMA ConcludedKept ==
    ASSUME connector \in Application, connector' = connector, acc' = acc, FoundOK,
           NEW coverage, NEW failure, NEW relations, RelationsKnown(relations),
           out' = Concluded(coverage, failure, relations)
    PROVE  DescriptorKept'
<1>1. Registered(connector, FoundModules, ModulesOf(relations))
  <2>1. UNION {KindsOf(x) : x \in FoundModules} \subseteq NormalizerOf(connector).kinds
    BY ReadRegistered DEF FoundModules, FoundOK
  <2> QED BY <2>1 DEF Registered, RelationsKnown
<1>2. \/ out'.status = "error" /\ out'.code = "invalid"
      \/ out'.status \in {"complete", "partial"} /\ out'.relations = relations
  BY <1>1 DEF Concluded, Failed, NoOutcome
<1>3. CASE out'.status = "error" /\ out'.code = "invalid"
  BY <1>3, GoesOn DEF Declined
<1>4. CASE out'.status \in {"complete", "partial"} /\ out'.relations = relations
  <2>1. FoundModules' = FoundModules /\ DescriptorOf(connector)' = DescriptorOf(connector)
        /\ ModulesOf(out.relations)' = ModulesOf(relations)
    BY <1>4 DEF FoundModules, DescriptorOf, ModulesOf
  <2>2. UNION {KindsOf(x) : x \in FoundModules} \subseteq DescriptorOf(connector).kinds
    BY <1>1, RegisteredDeclared DEF Registered
  <2>3. \A r \in ModulesOf(relations) :
           KindsOf(r[1]) \X KindsOf(r[2]) \subseteq DescriptorOf(connector).relations
    BY RegisteredDeclared DEF RelationsKnown
  <2> QED BY <1>4, <2>1, <2>2, <2>3 DEF DescriptorKept, DeclaredRuns, DeclaredKinds
<1> QED
  BY <1>2, <1>3, <1>4

LEMMA ObservedPairs ==
    ASSUME NEW pairs, NEW r \in ModulesOf(Observed(pairs))
    PROVE  r \in pairs
BY DEF ModulesOf, Observed

\* What a sync does to the listings and the batch in the middle.
LEMMA ReadingKeeps ==
    ASSUME KindsInv, connector' = connector, config' = config,
           todo' \in Seq(ReadListings(connector)),
           NEW found, found \in {acc.found, acc.found \cup {Here}}, todo # <<>>,
           acc'.found = found,
           connector \in Clouds /\ acc'.failure \in Declined => config = "region",
           cache' = cache \/ CacheOK',
           out'.status = "running" \/ (out'.status = "error" /\ out'.code \notin Declined)
    PROVE  KindsInv'
<1>1. Here \in ReadListings(connector)
  BY DEF KindsInv, Here
<1>2. FoundOK'
  BY <1>1 DEF KindsInv, FoundOK, ReadListings
<1>3. CacheOK'
  BY DEF KindsInv, CacheOK
<1>4. DescriptorKept'
  BY GoesOn
<1>5. (connector \in Clouds /\ acc.failure \in Declined => config = "region")'
  BY DEF Clouds, Declined
<1> QED
  BY <1>2, <1>3, <1>4, <1>5 DEF KindsInv

LEMMA OpenRead ==
    ASSUME NEW rest \in Seq(ReadListings(connector)), Open(rest)
    PROVE  todo' \in Seq(ReadListings(connector))
BY DEF Open

LEMMA OpenTail ==
    ASSUME todo \in Seq(ReadListings(connector)), todo # <<>>
    PROVE  Tail(todo) \in Seq(ReadListings(connector))
OBVIOUS

LEMMA ClosedRead == <<>> \in Seq(ReadListings(connector))
OBVIOUS

LEMMA ChildrenRead ==
    ASSUME NEW m \in ReadModules(connector), NEW n \in Nat
    PROVE  Children(m, n) \in Seq(ReadListings(connector))
<1>1. \A p \in 1 .. n : Of(m, p) \in ReadListings(connector)
  BY DEF Of, ReadListings, Parents
<1> QED
  BY <1>1 DEF Children

\* The clouds.
LEMMA CollectFields ==
    ASSUME DOMAIN acc = AccFields, NEW listing, NEW items, NEW failure, NEW used,
           CloudCollect(listing, items, failure, used)
    PROVE  /\ acc'.found \in {acc.found, acc.found \cup {listing}}
           /\ acc'.failure = IF failure = "none" THEN acc.failure ELSE failure
BY DEF CloudCollect, AccFields

LEMMA ReplyCodeDeclines ==
    ASSUME connector \in Clouds, NEW reply \in CloudFaults \cup {"page"}, ReplyCode(reply) \in Declined
    PROVE  config = "region"
BY DEF ReplyCode, CloudFaults, Declined, signed_request, aliyun_signed_request,
       tencent_signed_request, Codes

\* What a page of a cloud does.
LEMMA PageReads ==
    ASSUME TypeInv, NEW reply,
           \/ \E p \in EnvelopeType, stops \in BOOLEAN : ModulePage(reply, p, stops)
           \/ \E p \in EnvelopeType : DomainsPage(reply, p)
           \/ \E p \in EnvelopeType, mapped \in BOOLEAN : RecordsPage(reply, p, mapped)
    PROVE  /\ request' = request /\ out' = out /\ cache' = cache
           /\ todo' = todo \/ Open(Tail(todo)) \/ \E n \in Nat : OpenRecords(n)
           /\ \E items, failure, used :
                 /\ CloudCollect(Here, items, failure, used)
                 /\ failure \in {"none", "invalid", ReplyCode(reply)}
<1>1. ASSUME NEW p \in EnvelopeType, NEW stops, ModulePage(reply, p, stops)
      PROVE  /\ request' = request /\ out' = out /\ cache' = cache
             /\ todo' = todo \/ Open(Tail(todo))
             /\ \E items, failure, used :
                   /\ CloudCollect(Here, items, failure, used)
                   /\ failure \in {"none", "invalid", ReplyCode(reply)}
  <2>1. /\ request' = request /\ out' = out /\ cache' = cache
        /\ todo' = todo \/ Open(Tail(todo))
    BY <1>1 DEF ModulePage
  <2>2. \/ CloudCollect(Here, p.items, "none", acc.used)
        \/ CloudCollect(Here, 0, ReplyCode(reply), acc.used)
    BY <1>1 DEF ModulePage
  <2> QED BY <2>1, <2>2
<1>2. ASSUME NEW p \in EnvelopeType, DomainsPage(reply, p)
      PROVE  /\ request' = request /\ out' = out /\ cache' = cache
             /\ todo' = todo \/ Open(Tail(todo)) \/ \E n \in Nat : OpenRecords(n)
             /\ \E items, failure, used :
                   /\ CloudCollect(Here, items, failure, used)
                   /\ failure \in {"none", "invalid", ReplyCode(reply)}
  <2>1. cur.got + p.items \in Nat
    BY DEF TypeInv, CurType, EnvelopeType
  <2>2. /\ request' = request /\ out' = out /\ cache' = cache
        /\ todo' = todo \/ Open(Tail(todo)) \/ OpenRecords(cur.got + p.items)
    BY <1>2 DEF DomainsPage
  <2>3. \/ CloudCollect(Here, 0, "none", 0)
        \/ CloudCollect(Here, 0, ReplyCode(reply), 0)
    BY <1>2 DEF DomainsPage
  <2> QED BY <2>1, <2>2, <2>3
<1>3. ASSUME NEW p \in EnvelopeType, NEW mapped \in BOOLEAN, RecordsPage(reply, p, mapped)
      PROVE  /\ request' = request /\ out' = out /\ cache' = cache
             /\ todo' = todo \/ Open(Tail(todo))
             /\ \E items, failure, used :
                   /\ CloudCollect(Here, items, failure, used)
                   /\ failure \in {"none", "invalid", ReplyCode(reply)}
  <2>1. /\ request' = request /\ out' = out /\ cache' = cache
        /\ todo' = todo \/ Open(Tail(todo))
    BY <1>3 DEF RecordsPage
  <2>2. PICK items, failure :
           /\ items = IF mapped THEN p.items ELSE 0
           /\ failure = IF mapped THEN "none" ELSE "invalid"
    OBVIOUS
  <2>3. \/ CloudCollect(Here, items, failure, acc.used + items)
        \/ CloudCollect(Here, 0, ReplyCode(reply), acc.used)
    BY <1>3, <2>2 DEF RecordsPage
  <2>4. failure \in {"none", "invalid", ReplyCode(reply)}
    BY <2>2
  <2> QED BY <2>1, <2>3, <2>4
<1> QED
  BY <1>1, <1>2, <1>3

LEMMA OpenRecordsRead ==
    ASSUME connector \in Clouds, todo \in Seq(ReadListings(connector)), todo # <<>>,
           NEW n \in Nat, OpenRecords(n)
    PROVE  todo' \in Seq(ReadListings(connector))
<1>1. PICK m : m = IF n < DomainCap THEN n ELSE DomainCap
  OBVIOUS
<1>2. m \in Nat
  BY <1>1, ConnectorAssumption
<1>3. "records" \in ReadModules(connector)
  BY ModulesRead DEF CloudKinds
<1>4. Children("records", m) \in Seq(ReadListings(connector))
  BY <1>2, <1>3, ChildrenRead
<1>5. Children("records", m) \o Tail(todo) \in Seq(ReadListings(connector))
  BY <1>4, OpenTail
<1>6. Open(Children("records", m) \o Tail(todo))
  BY <1>1 DEF OpenRecords
<1> QED
  BY <1>5, <1>6, OpenRead

LEMMA CloudKindsStep ==
    ASSUME TypeInv, KindsInv, CloudStep
    PROVE  KindsInv'
<1>a. DOMAIN acc = AccFields /\ cur.got \in Nat
  BY DEF TypeInv, AccOK, CurType
<1>b. todo \in Seq(ReadListings(connector))
  BY DEF KindsInv
<1>1. ASSUME NEW reply \in CloudFaults \cup {"page"}, AliyunStep(reply) \/ TencentStep(reply)
      PROVE  KindsInv'
  <2>1. connector \in Clouds /\ out.status = "running" /\ todo # <<>>
    BY <1>1, CloudAsks
  <2>2. CASE RetryList(reply)
    <3>1. acc'.found = acc.found /\ acc'.failure = acc.failure
      BY <2>2, RetryTyped
    <3>2. /\ request' = request /\ todo' = todo /\ cache' = cache /\ out' = out
      BY <2>2 DEF RetryList
    <3> QED BY <1>b, <2>1, <3>1, <3>2, ReadingKeeps DEF KindsInv, request
  <2>3. CASE \/ \E p \in EnvelopeType, stops \in BOOLEAN : ModulePage(reply, p, stops)
             \/ \E p \in EnvelopeType : DomainsPage(reply, p)
             \/ \E p \in EnvelopeType, mapped \in BOOLEAN : RecordsPage(reply, p, mapped)
    <3>1. request' = request /\ out' = out /\ cache' = cache
      BY <2>3, PageReads
    <3>2. todo' \in Seq(ReadListings(connector))
      <4>1. todo' = todo \/ Open(Tail(todo)) \/ \E n \in Nat : OpenRecords(n)
        BY <2>3, PageReads
      <4> QED BY <1>b, <2>1, <4>1, OpenRecordsRead, OpenTail, OpenRead
    <3>3. PICK items, failure, used :
             /\ CloudCollect(Here, items, failure, used)
             /\ failure \in {"none", "invalid", ReplyCode(reply)}
      BY <2>3, PageReads
    <3>4. /\ acc'.found \in {acc.found, acc.found \cup {Here}}
          /\ acc'.failure = IF failure = "none" THEN acc.failure ELSE failure
      BY <1>a, <3>3, CollectFields
    <3>5. acc'.failure \in Declined => config = "region"
      BY <2>1, <3>3, <3>4, ReplyCodeDeclines DEF Declined, KindsInv
    <3> QED BY <2>1, <3>1, <3>2, <3>4, <3>5, ReadingKeeps DEF request
  <2> QED BY <1>1, <2>2, <2>3, CloudAsks
<1>2. CASE \/ ModuleBudget
           \/ Asking("aliyun") /\ RecordsBudget(AliyunRecordsSpent)
           \/ Asking("tencent") /\ RecordsBudget(RecordsSpent)
  <2>1. /\ connector \in Clouds /\ out.status = "running" /\ todo # <<>>
        /\ request' = request /\ cache' = cache /\ out' = out
        /\ acc' = [acc EXCEPT !.failure = "budget"] /\ Open(Tail(todo))
    BY <1>2 DEF ModuleBudget, RecordsBudget, Asking, Clouds
  <2>2. acc'.found = acc.found /\ acc'.failure = "budget"
    BY <1>a, <2>1 DEF AccFields
  <2>3. todo' \in Seq(ReadListings(connector))
    BY <1>b, <2>1, OpenTail, OpenRead
  <2> QED BY <2>1, <2>2, <2>3, ReadingKeeps DEF request, Declined
<1>3. CASE DomainLimit
  <2>1. /\ connector \in Clouds /\ out.status = "running" /\ todo # <<>>
        /\ request' = request /\ cache' = cache /\ out' = out /\ acc' = acc
        /\ OpenRecords(cur.got)
    BY <1>3 DEF DomainLimit, Asking
  <2>2. todo' \in Seq(ReadListings(connector))
    BY <1>a, <1>b, <2>1, OpenRecordsRead
  <2> QED BY <2>1, <2>2, ReadingKeeps DEF request, KindsInv
<1>4. CASE CloudFinish
  <2>1. /\ connector \in Clouds /\ request' = request /\ todo' = todo /\ acc' = acc
        /\ cache' = cache
    BY <1>4 DEF CloudFinish
  <2>2. PICK pairs : pairs = {<<"vpc", "subnet">>, <<"vpc", "security_group">>,
                              <<"compute", "public_ip">>}
    OBVIOUS
  <2>3. RelationsKnown(Observed(pairs))
    <3>1. \A r \in pairs : KindsOf(r[1]) \X KindsOf(r[2]) \subseteq NormalizerOf(connector).relations
      BY <2>1, <2>2 DEF KindsOf, NormalizerOf, Clouds, Normalizer, CloudRelations,
                        aliyun_normalizer, tencent_normalizer
    <3> QED BY <3>1, ObservedPairs DEF RelationsKnown
  <2>4. \/ out' = Concluded("full", acc.failure, Observed(pairs))
        \/ out' = Failed(acc.failure) /\ acc.failure # "none"
    BY <1>4, <2>2 DEF CloudFinish, aliyun_finish, tencent_finish,
                      aliyun_provider_relations, tencent_provider_relations
  <2>5. CASE out' = Concluded("full", acc.failure, Observed(pairs))
    <3>1. DescriptorKept'
      BY <2>1, <2>3, <2>5, ConcludedKept DEF request, KindsInv, Clouds, Application
    <3> QED BY <2>1, <3>1 DEF KindsInv, FoundOK, CacheOK, request
  <2>6. CASE out' = Failed(acc.failure)
    <3>1. out'.status = "error" /\ out'.code = acc.failure
      BY <2>6, FailedIsError
    <3>2. acc.failure \in Declined => config = "region"
      BY <2>1 DEF KindsInv
    <3>3. DescriptorKept'
      BY <2>1, <3>1, <3>2
         DEF DescriptorKept, DeclaredRuns, DeclaredKinds, Refusable, Declined, request
    <3> QED BY <2>1, <3>3 DEF KindsInv, FoundOK, CacheOK, request
  <2> QED BY <2>4, <2>5, <2>6
<1> QED
  BY <1>1, <1>2, <1>3, <1>4 DEF CloudStep

\* GitHub: a list of repositories has twice as many children, which are read.
LEMMA GitHubRestRead ==
    ASSUME connector = "github", todo \in Seq(ReadListings(connector)), todo # <<>>, NEW n \in Nat
    PROVE  github_rest(n) \in Seq(ReadListings(connector))
<1>1. /\ "workflows" \in ReadModules(connector) /\ "runs" \in ReadModules(connector)
  BY ModulesRead
<1>2. Here.parent \in Parents
  <2>1. Here \in ReadListings(connector)
    BY DEF Here
  <2> QED BY <2>1 DEF ReadListings
<1>3. /\ Of("workflows", Here.parent) \in ReadListings(connector)
      /\ Of("runs", Here.parent) \in ReadListings(connector)
  BY <1>1, <1>2 DEF Of, ReadListings
<1>4. Tail(todo) \in Seq(ReadListings(connector))
  BY OpenTail
<1>5. Tail(todo) \o <<Of("workflows", Here.parent), Of("runs", Here.parent)>>
         \in Seq(ReadListings(connector))
  BY <1>3, <1>4
<1>6. [i \in 1 .. 2 * n |-> Of(IF i % 2 = 1 THEN "workflows" ELSE "runs", (i + 1) \div 2)]
         \in Seq(ReadListings(connector))
  <2>1. \A i \in 1 .. 2 * n : (i + 1) \div 2 \in Parents
    BY DEF Parents
  <2>2. \A i \in 1 .. 2 * n :
           Of(IF i % 2 = 1 THEN "workflows" ELSE "runs", (i + 1) \div 2) \in ReadListings(connector)
    BY <1>1, <2>1 DEF Of, ReadListings
  <2>3. 2 * n \in Nat
    OBVIOUS
  <2> QED BY <2>2, <2>3
<1> QED
  BY <1>4, <1>5, <1>6 DEF github_rest

LEMMA MergeFields ==
    ASSUME DOMAIN acc = AccFields, NEW n, NEW failure, GitHubMerge(n, failure)
    PROVE  acc'.found \in {acc.found, acc.found \cup {Here}}
<1>1. PICK found, first : /\ found = IF n > 0 THEN acc.found \cup {Here} ELSE acc.found
                          /\ first = IF failure = "none" THEN acc.failure
                                                         ELSE First(acc.failure, failure)
  OBVIOUS
<1>2. acc' = [acc EXCEPT !.found = found, !.failure = first,
                         !.requests = IF failure = "budget" THEN @ ELSE @ + 1]
  BY <1>1 DEF GitHubMerge
<1>3. acc'.found = found
  BY <1>2 DEF AccFields
<1> QED
  BY <1>1, <1>3

\* A merge, or an end that declines nothing.
LEMMA MergeKeeps ==
    ASSUME TypeInv, KindsInv, connector = "github", connector' = connector, config' = config,
           out.status = "running", todo # <<>>, cache' = cache \/ CacheOK',
           NEW n \in Nat, NEW failure, GitHubMerge(n, failure), out' = out
    PROVE  KindsInv'
<1>1. acc'.found \in {acc.found, acc.found \cup {Here}}
  BY MergeFields DEF TypeInv, AccOK
<1>2. todo' \in Seq(ReadListings(connector))
  BY GitHubRestRead, OpenRead DEF GitHubMerge, KindsInv
<1> QED
  BY <1>1, <1>2, ReadingKeeps DEF Clouds

LEMMA FatalKeeps ==
    ASSUME TypeInv, KindsInv, connector' = connector, config' = config, connector \notin Clouds,
           out.status = "running", todo # <<>>, cache' = cache \/ CacheOK',
           acc'.found = acc.found, NEW code, code \notin Declined, Fatal(code)
    PROVE  KindsInv'
<1>1. todo' \in Seq(ReadListings(connector))
  BY DEF Fatal
<1>2. out'.status = "error" /\ out'.code = code
  BY FailedIsError DEF Fatal
<1> QED
  BY <1>1, <1>2, ReadingKeeps

\* GitHub's cache: what is kept of a listing is its size.
LEMMA GitHubCache ==
    ASSUME TypeInv, KindsInv, GitHubStep
    PROVE  CacheOK'
<1>1. CacheOK /\ cur.size \in Nat
  BY DEF KindsInv, TypeInv, CurType
<1>2. ASSUME NEW n, NEW code, GitHubGap(n, code) PROVE CacheOK'
  <2>1. PICK routes : cache' = cache \/ cache' = [cache EXCEPT !.routes = routes]
    BY <1>2 DEF GitHubGap
  <2> QED BY <1>1, <2>1 DEF CacheOK
<1>3. ASSUME NEW reply, github_fetch(reply) PROVE CacheOK'
  <2>1. CASE reply \in Bodies /\ cur.got + Items >= cur.size /\ ~(cur.got + Items < cur.size)
    <3>1. PICK bad, routes :
             cache' = [pages |-> {c \in cache.pages : c.listing # Here}
                                 \cup {[listing |-> Here, size |-> cur.size, bad |-> bad]},
                       routes |-> routes]
      BY <1>3, <2>1, Zenon DEF github_fetch
    <3> QED BY <1>1, <3>1 DEF CacheOK
  <2>2. CASE reply \in Bodies /\ ~(cur.got + Items >= cur.size) /\ cur.got + Items < cur.size
    <3>1. cache' = cache
      BY <1>3, <2>2 DEF github_fetch
    <3> QED BY <1>1, <3>1 DEF CacheOK
  <2>3. CASE reply \notin Bodies
    <3>1. GitHubGap(cur.got, reply)
      BY <1>3, <2>3 DEF github_fetch
    <3> QED BY <1>2, <3>1
  <2>4. \/ cur.got + Items >= cur.size /\ ~(cur.got + Items < cur.size)
        \/ ~(cur.got + Items >= cur.size) /\ cur.got + Items < cur.size
    BY ItemsTyped DEF TypeInv, CurType
  <2> QED BY <2>1, <2>2, <2>3, <2>4
<1>4. CASE GitHubPageLimit
  BY <1>2, <1>4 DEF GitHubPageLimit
<1>5. CASE github_not_modified
  <2>1. PICK routes : cache' = cache \/ cache' = [cache EXCEPT !.routes = routes]
    BY <1>5 DEF github_not_modified
  <2> QED BY <1>1, <2>1 DEF CacheOK
<1>6. CASE mark_budget_exhausted \/ GitHubFinish
  BY <1>1, <1>6 DEF mark_budget_exhausted, GitHubFinish, CacheOK
<1> QED
  BY <1>3, <1>4, <1>5, <1>6 DEF GitHubStep

LEMMA GitHubKindsStep ==
    ASSUME TypeInv, KindsInv, GitHubStep
    PROVE  KindsInv'
<1>a. DOMAIN acc = AccFields /\ cur.got \in Nat /\ cur.got + Items \in Nat
  BY ItemsTyped DEF TypeInv, AccOK, CurType
<1>b. todo \in Seq(ReadListings(connector)) /\ CacheOK'
  BY GitHubCache DEF KindsInv
<1>c. ASSUME connector = "github", out.status = "running", todo # <<>>, request' = request,
             NEW n \in Nat, NEW code \in GitHubFaults \cup {"page", "budget"}, GitHubGap(n, code)
      PROVE  KindsInv'
  <2>1. CASE /\ \E c \in {"invalid", code} : Fatal(c)
             /\ acc' = [acc EXCEPT !.requests = IF code = "budget" THEN @ ELSE @ + 1]
    <3>1. acc'.found = acc.found
      BY <1>a, <2>1 DEF AccFields
    <3>2. "invalid" \notin Declined /\ code \notin Declined
      BY DEF Declined, GitHubFaults
    <3> QED BY <1>b, <1>c, <2>1, <3>1, <3>2, FatalKeeps DEF request, Clouds
  <2>2. CASE GitHubMerge(n, code) /\ out' = out
    BY <1>b, <1>c, <2>2, MergeKeeps DEF request
  <2> QED BY <1>c, <2>1, <2>2, GapCases
<1>1. ASSUME NEW reply \in GitHubFaults \cup {"page"}, github_fetch(reply)
      PROVE  KindsInv'
  <2>1. connector = "github" /\ out.status = "running" /\ todo # <<>> /\ request' = request
    BY <1>1, GitHubAsks
  <2>2. CASE /\ \E bad : acc' = [acc EXCEPT !.requests = @ + 1, !.bad = bad]
             /\ todo' = todo /\ unread' = unread /\ out' = out
    <3>1. acc'.found = acc.found
      BY <1>a, <2>2 DEF AccFields
    <3> QED BY <1>b, <2>1, <2>2, <3>1, ReadingKeeps DEF request, Clouds
  <2>3. CASE Fatal("invalid") /\ acc' = [acc EXCEPT !.requests = @ + 1]
    <3>1. acc'.found = acc.found
      BY <1>a, <2>3 DEF AccFields
    <3> QED BY <1>b, <2>1, <2>3, <3>1, FatalKeeps DEF request, Clouds, Declined
  <2>4. CASE GitHubMerge(cur.got + Items, "none") /\ out' = out
    BY <1>a, <1>b, <2>1, <2>4, MergeKeeps DEF request
  <2>5. CASE GitHubGap(cur.got, reply)
    BY <1>a, <1>c, <2>1, <2>5
  <2> QED BY <1>1, <2>2, <2>3, <2>4, <2>5, GitHubAsks
<1>2. CASE GitHubPageLimit
  <2>1. /\ connector = "github" /\ out.status = "running" /\ todo # <<>> /\ request' = request
        /\ GitHubGap(cur.got, "budget")
    BY <1>2 DEF GitHubPageLimit, Asking
  <2> QED BY <1>a, <1>c, <2>1
<1>3. CASE mark_budget_exhausted
  <2>1. /\ connector = "github" /\ out.status = "running" /\ todo # <<>> /\ request' = request
        /\ acc' = [acc EXCEPT !.failure = First(@, "budget")]
        /\ Open(<<>>) /\ out' = out
    BY <1>3 DEF mark_budget_exhausted, Asking
  <2>2. acc'.found = acc.found
    BY <1>a, <2>1 DEF AccFields
  <2>3. todo' \in Seq(ReadListings(connector))
    BY <2>1 DEF Open
  <2> QED BY <1>b, <2>1, <2>2, <2>3, ReadingKeeps DEF request, Clouds
<1>4. CASE github_not_modified
  <2>1. connector = "github" /\ out.status = "running" /\ todo # <<>> /\ request' = request
    BY <1>4 DEF github_not_modified, Asking
  <2>2. PICK c \in cache.pages :
           \/ Fatal("invalid") /\ acc' = [acc EXCEPT !.requests = @ + 1]
           \/ GitHubMerge(c.size, "none") /\ out' = out
    BY <1>4 DEF github_not_modified
  <2>3. c.size \in Nat
    BY DEF KindsInv, CacheOK
  <2>4. CASE Fatal("invalid") /\ acc' = [acc EXCEPT !.requests = @ + 1]
    <3>1. acc'.found = acc.found
      BY <1>a, <2>4 DEF AccFields
    <3> QED BY <1>b, <2>1, <2>4, <3>1, FatalKeeps DEF request, Clouds, Declined
  <2>5. CASE GitHubMerge(c.size, "none") /\ out' = out
    BY <1>b, <2>1, <2>3, <2>5, MergeKeeps DEF request
  <2> QED BY <2>2, <2>4, <2>5
<1>5. CASE GitHubFinish
  <2>1. /\ connector = "github" /\ request' = request /\ todo' = todo /\ acc' = acc
        /\ cache' = cache
    BY <1>5 DEF GitHubFinish, Done
  <2>2. PICK coverage : out' = Concluded(coverage, acc.failure, github_relations)
    BY <1>5 DEF GitHubFinish, github_finish
  <2>3. \A r \in ModulesOf(github_relations) :
           r \in {<<"repositories", "workflows">>, <<"repository", "workflows">>,
                  <<"workflows", "runs">>}
    BY DEF ModulesOf, github_relations, Of
  <2>4. RelationsKnown(github_relations)
    BY <2>1, <2>3 DEF RelationsKnown, KindsOf, NormalizerOf, Normalizer, github_normalizer
  <2>5. DescriptorKept'
    BY <2>1, <2>2, <2>4, ConcludedKept DEF request, KindsInv, Application
  <2> QED BY <2>1, <2>5 DEF KindsInv, FoundOK, CacheOK, request
<1> QED
  BY <1>1, <1>2, <1>3, <1>4, <1>5 DEF GitHubStep

\* SSH.
LEMMA SshKindsStep ==
    ASSUME TypeInv, KindsInv, SshStep
    PROVE  KindsInv'
<1>a. DOMAIN acc = AccFields
  BY DEF TypeInv, AccOK
<1>b. todo \in Seq(ReadListings(connector))
  BY DEF KindsInv
<1>1. ASSUME NEW reply \in SshFaults \cup {"page"}, ssh_identity(reply) PROVE KindsInv'
  <2>1. /\ connector = "ssh" /\ out.status = "running" /\ todo # <<>> /\ request' = request
        /\ cache' = cache
    BY <1>1, IdentityCases DEF ssh_identity
  <2>2. CASE Fatal(ssh_code(reply)) /\ acc' = acc
    <3>1. ssh_code(reply) \notin Declined
      BY DEF ssh_code, SshFaults, Declined
    <3> QED BY <2>1, <2>2, <3>1, FatalKeeps DEF request, Clouds
  <2>3. CASE /\ acc' = [acc EXCEPT !.found = @ \cup {Here}, !.requests = @ + 1, !.used = 0]
             /\ \E services \in BOOLEAN : Open(ssh_planned(services))
             /\ out' = out
    <3>1. acc'.found = acc.found \cup {Here}
      BY <1>a, <2>3 DEF AccFields
    <3>2. \A m \in {"uptime", "filesystems", "process_summary", "services"} :
             Root(m) \in ReadListings(connector)
      BY <2>1, ModulesRead DEF Root, Of, ReadListings, Parents
    <3>3. \A services \in BOOLEAN : ssh_planned(services) \in Seq(ReadListings(connector))
      BY <3>2 DEF ssh_planned
    <3>4. todo' \in Seq(ReadListings(connector))
      BY <2>3, <3>3, OpenRead
    <3> QED BY <2>1, <2>3, <3>1, <3>4, ReadingKeeps DEF request, Clouds
  <2> QED BY <1>1, <2>2, <2>3, IdentityCases
<1>2. ASSUME NEW reply \in SshFaults \cup {"page"}, ssh_probe(reply) PROVE KindsInv'
  <2>1. /\ connector = "ssh" /\ out.status = "running" /\ todo # <<>> /\ request' = request
        /\ cache' = cache
    BY <1>2, ProbeCases DEF ssh_probe
  <2>2. CASE reply \in {"host_key", "cancelled"} /\ Fatal(reply) /\ acc' = acc
    BY <2>1, <2>2, FatalKeeps DEF request, Clouds, Declined
  <2>3. CASE /\ \E used :
                   /\ used = acc.used + probe_output(Here.module)
                   /\ \/ /\ acc' = [acc EXCEPT !.found = @ \cup {Here},
                                               !.requests = @ + 1, !.used = used]
                         /\ unread' = unread
                      \/ acc' = [acc EXCEPT !.failure = SshFailure(@, reply),
                                            !.requests = @ + 1, !.used = used]
             /\ Open(<<>>) \/ Open(Tail(todo))
             /\ out' = out
    <3>1. PICK found, failure :
             found = acc.found \cup {Here} /\ failure = SshFailure(acc.failure, reply)
      OBVIOUS
    <3>2. PICK used :
             \/ acc' = [acc EXCEPT !.found = found, !.requests = @ + 1, !.used = used]
             \/ acc' = [acc EXCEPT !.failure = failure, !.requests = @ + 1, !.used = used]
      BY <2>3, <3>1
    <3>3. acc'.found \in {acc.found, acc.found \cup {Here}}
      BY <1>a, <3>1, <3>2 DEF AccFields
    <3>4. CASE Open(<<>>)
      BY <2>1, <2>3, <3>3, <3>4, ReadingKeeps, ClosedRead, OpenRead DEF request, Clouds
    <3>5. CASE Open(Tail(todo))
      BY <1>b, <2>1, <2>3, <3>3, <3>5, ReadingKeeps, OpenTail, OpenRead DEF request, Clouds
    <3> QED BY <2>3, <3>4, <3>5
  <2> QED BY <1>2, <2>2, <2>3, ProbeCases
<1>3. CASE SshFinish
  <2>1. /\ connector = "ssh" /\ request' = request /\ todo' = todo /\ acc' = acc
        /\ cache' = cache
    BY <1>3 DEF SshFinish, Done
  <2>2. PICK failure : out' = Concluded("full", failure, ssh_relations)
    BY <1>3, Zenon DEF SshFinish, ssh_finish
  <2>3. \A r \in ModulesOf(ssh_relations) :
           r \in {<<"identity", "filesystems">>, <<"identity", "process_summary">>,
                  <<"identity", "services">>}
    BY DEF ModulesOf, ssh_relations, Root, Of
  <2>4. RelationsKnown(ssh_relations)
    BY <2>1, <2>3 DEF RelationsKnown, KindsOf, NormalizerOf, Normalizer, ssh_normalizer
  <2>5. DescriptorKept'
    BY <2>1, <2>2, <2>4, ConcludedKept DEF request, KindsInv, Application
  <2> QED BY <2>1, <2>5 DEF KindsInv, FoundOK, CacheOK, request
<1> QED
  BY <1>1, <1>2, <1>3 DEF SshStep

\* Dokploy.
LEMMA DokployRestRead ==
    ASSUME connector = "dokploy", TypeInv, todo \in Seq(ReadListings(connector)), todo # <<>>
    PROVE  DokployRest \in Seq(ReadListings(connector))
<1>1. Tail(todo) \in Seq(ReadListings(connector))
  BY OpenTail
<1>2. PICK apps : apps = IF acc.used < WalkCap THEN acc.used ELSE WalkCap
  OBVIOUS
<1>3. 2 * apps \in Nat
  <2>1. apps \in Nat
    BY <1>2, ConnectorAssumption DEF TypeInv, AccOK
  <2> QED BY ONLY <2>1
<1>4. \A i \in 1 .. 2 * apps :
         Of(IF i % 2 = 1 THEN "deployments" ELSE "app_domains", (i + 1) \div 2)
            \in ReadListings(connector)
  <2>1. \A i \in 1 .. 2 * apps : (i + 1) \div 2 \in Parents
    BY <1>3 DEF Parents
  <2> QED BY <2>1, ModulesRead DEF Of, ReadListings
<1>5. dokploy_walk(acc.used) \in Seq(ReadListings(connector))
  BY <1>2, <1>3, <1>4 DEF dokploy_walk
<1> QED
  BY <1>1, <1>5 DEF DokployRest

LEMMA DokployKindsStep ==
    ASSUME TypeInv, KindsInv, NEW reply \in PlatformFaults \cup {"page"}, dokploy_fetch(reply)
    PROVE  KindsInv'
<1>a. DOMAIN acc = AccFields
  BY DEF TypeInv, AccOK
<1>b. todo \in Seq(ReadListings(connector))
  BY DEF KindsInv
<1>1. /\ connector = "dokploy" /\ out.status = "running" /\ todo # <<>> /\ request' = request
      /\ cache' = cache
  BY DokployCases DEF dokploy_fetch
<1>2. CASE acc' = [acc EXCEPT !.failure = "budget"] /\ Open(<<>>) /\ out' = out
  <2>1. acc'.found = acc.found
    BY <1>a, <1>2 DEF AccFields
  <2>2. todo' \in Seq(ReadListings(connector))
    BY <1>2 DEF Open
  <2> QED BY <1>1, <1>2, <2>1, <2>2, ReadingKeeps DEF request, Clouds
<1>3. CASE (\E code \in {"budget", "invalid", reply} : Fatal(code)) /\ acc' = acc
  <2>1. \A code \in {"budget", "invalid", reply} : code \notin Declined
    BY DEF Declined, PlatformFaults
  <2> QED BY <1>1, <1>3, <2>1, FatalKeeps DEF request, Clouds
<1>4. CASE /\ \E bad, failure : acc' = [acc EXCEPT !.bad = bad, !.failure = failure]
           /\ todo' = todo /\ out' = out
  <2>1. acc'.found = acc.found
    BY <1>a, <1>4 DEF AccFields
  <2> QED BY <1>b, <1>1, <1>4, <2>1, ReadingKeeps DEF request, Clouds
<1>5. CASE /\ \E found, used, bad :
                 /\ acc' = [acc EXCEPT !.found = found, !.requests = @ + 1,
                                       !.used = used, !.bad = bad]
                 /\ found \in {acc.found, acc.found \cup {Here}}
           /\ Open(DokployRest) /\ out' = out
  <2>1. acc'.found \in {acc.found, acc.found \cup {Here}}
    BY <1>a, <1>5 DEF AccFields
  <2>2. todo' \in Seq(ReadListings(connector))
    BY <1>b, <1>1, <1>5, DokployRestRead, OpenRead
  <2> QED BY <1>1, <1>5, <2>1, <2>2, ReadingKeeps DEF request, Clouds
<1>6. ASSUME \E found, used, bad :
                /\ acc' = [acc EXCEPT !.found = found, !.requests = @ + 1,
                                      !.used = used, !.bad = bad]
                /\ found \in {acc.found, acc.found \cup {Here}}
                /\ used \in {cur.got + Items, acc.used}
      PROVE  \E found, used, bad :
                /\ acc' = [acc EXCEPT !.found = found, !.requests = @ + 1,
                                      !.used = used, !.bad = bad]
                /\ found \in {acc.found, acc.found \cup {Here}}
  BY <1>6, Zenon
<1>7. ASSUME \E bad, failure :
                /\ acc' = [acc EXCEPT !.bad = bad, !.failure = failure]
                /\ failure \in {acc.failure, "garbled"}
      PROVE  \E bad, failure : acc' = [acc EXCEPT !.bad = bad, !.failure = failure]
  BY <1>7, Zenon
<1> QED
  BY <1>2, <1>3, <1>4, <1>5, <1>6, <1>7, DokployCases, ZenonT(60)

\* Cloudflare.
LEMMA CloudflareRestRead ==
    ASSUME connector = "cloudflare", TypeInv, todo \in Seq(ReadListings(connector)),
           todo # <<>>, NEW got \in Nat
    PROVE  CloudflareRest(got) \in Seq(ReadListings(connector))
<1>1. acc.used \in Nat
  BY DEF TypeInv, AccOK
<1>2. {"dns_records", "tunnels", "workers"} \subseteq ReadModules(connector)
  BY ModulesRead
<1>3. /\ Children("dns_records", got) \in Seq(ReadListings(connector))
      /\ Children("tunnels", acc.used) \in Seq(ReadListings(connector))
      /\ Children("workers", acc.used) \in Seq(ReadListings(connector))
  BY <1>1, <1>2, ChildrenRead
<1>4. cloudflare_children(acc.used, got) \in Seq(ReadListings(connector))
  BY <1>3 DEF cloudflare_children
<1> QED
  BY <1>4, OpenTail DEF CloudflareRest

LEMMA CloudflareKindsStep ==
    ASSUME TypeInv, KindsInv, NEW reply \in PlatformFaults \cup {"page"}, cloudflare_fetch(reply)
    PROVE  KindsInv'
<1>a. DOMAIN acc = AccFields /\ cur.got + Items \in Nat
  BY ItemsTyped DEF TypeInv, AccOK, CurType
<1>b. todo \in Seq(ReadListings(connector))
  BY DEF KindsInv
<1>1. /\ connector = "cloudflare" /\ out.status = "running" /\ todo # <<>>
      /\ request' = request /\ cache' = cache
  BY CloudflareCases DEF cloudflare_fetch
<1>2. CASE /\ \E bad : acc' = [acc EXCEPT !.requests = @ + 1, !.bad = bad]
           /\ todo' = todo /\ out' = out
  <2>1. acc'.found = acc.found
    BY <1>a, <1>2 DEF AccFields
  <2> QED BY <1>b, <1>1, <1>2, <2>1, ReadingKeeps DEF request, Clouds
<1>3. CASE CloudflareMerge(cur.got + Items, reply) /\ out' = out
  <2>1. PICK found, used : /\ found = IF cur.got + Items > 0 THEN acc.found \cup {Here}
                                                            ELSE acc.found
                           /\ used = IF Here.module = "accounts" THEN cur.got + Items ELSE acc.used
    OBVIOUS
  <2>2. \E bad : acc' = [acc EXCEPT !.found = found, !.requests = @ + 1, !.used = used,
                                    !.bad = bad]
    BY <1>3, <2>1, Zenon DEF CloudflareMerge
  <2>3. acc'.found = found
    BY <1>a, <2>2 DEF AccFields
  <2>4. Open(CloudflareRest(cur.got + Items))
    BY <1>3 DEF CloudflareMerge, CloudflareRest
  <2>5. todo' \in Seq(ReadListings(connector))
    BY <1>a, <1>b, <1>1, <2>4, CloudflareRestRead, OpenRead
  <2> QED BY <1>1, <1>3, <2>1, <2>3, <2>5, ReadingKeeps DEF request, Clouds
<1>4. CASE (\E code \in PlatformFaults : Fatal(code)) /\ acc' = acc
  <2>1. \A code \in PlatformFaults : code \notin Declined
    BY DEF Declined, PlatformFaults
  <2> QED BY <1>1, <1>4, <2>1, FatalKeeps DEF request, Clouds
<1>5. CASE /\ \E f, bad : \/ acc' = [acc EXCEPT !.requests = @ + 1, !.bad = bad]
                          \/ acc' = [acc EXCEPT !.requests = @ + 1, !.failure = f, !.bad = bad]
           /\ Open(Tail(todo)) /\ out' = out
  <2>1. acc'.found = acc.found
    BY <1>a, <1>5 DEF AccFields
  <2>2. todo' \in Seq(ReadListings(connector))
    BY <1>b, <1>1, <1>5, OpenTail, OpenRead
  <2> QED BY <1>1, <1>5, <2>1, <2>2, ReadingKeeps DEF request, Clouds
<1> QED
  BY <1>2, <1>3, <1>4, <1>5, CloudflareCases

\* The platforms.
LEMMA PlatformKindsStep ==
    ASSUME TypeInv, KindsInv, PlatformStep
    PROVE  KindsInv'
<1>a. DOMAIN acc = AccFields
  BY DEF TypeInv, AccOK
<1>b. todo \in Seq(ReadListings(connector))
  BY DEF KindsInv
<1>1. ASSUME NEW reply, supabase_managed_get(reply) PROVE KindsInv'
  <2>1. /\ connector = "supabase-managed" /\ out.status = "running" /\ todo # <<>>
        /\ request' = request /\ cache' = cache
    BY <1>1, ManagedCases DEF supabase_managed_get
  <2>2. CASE reply \in {"auth", "unavailable"} /\ Fatal(reply) /\ acc' = acc
    BY <2>1, <2>2, FatalKeeps DEF request, Clouds, Declined
  <2>3. CASE /\ \E found, bad :
                   /\ acc' = [acc EXCEPT !.found = found, !.requests = @ + 1, !.bad = bad]
                   /\ found \in {acc.found, acc.found \cup {Here}}
             /\ Open(Tail(todo)) /\ out' = out
    <3>1. acc'.found \in {acc.found, acc.found \cup {Here}}
      BY <1>a, <2>3 DEF AccFields
    <3>2. todo' \in Seq(ReadListings(connector))
      BY <1>b, <2>1, <2>3, OpenTail, OpenRead
    <3> QED BY <2>1, <2>3, <3>1, <3>2, ReadingKeeps DEF request, Clouds
  <2> QED BY <1>1, <2>2, <2>3, ManagedCases
<1>2. ASSUME NEW reply \in {"auth", "unavailable", "garbled", "unmappable", "page"},
             supabase_self_hosted_sync(reply)
      PROVE  KindsInv'
  <2>1. /\ connector = "supabase-self-hosted" /\ out.status = "running" /\ todo # <<>>
        /\ request' = request /\ cache' = cache
    BY <1>2, SelfHostedCases DEF supabase_self_hosted_sync
  <2>2. CASE (\E code \in {"invalid", reply} : Fatal(code)) /\ acc' = acc
    BY <2>1, <2>2, FatalKeeps DEF request, Clouds, Declined
  <2>3. CASE /\ \E failure, found, relations :
                   /\ acc' = [acc EXCEPT !.found = found, !.requests = 1, !.failure = failure]
                   /\ failure \in {"none", "budget"}
                   /\ failure = "none" => unread' = unread
                   /\ found \in {{Root("instance")}, {Root("instance"), Here}}
                   /\ relations \in {{}, map_table_relations}
                   /\ out' = Concluded("full", failure, relations)
             /\ Open(Tail(todo))
    <3>1. PICK failure, found, relations :
             /\ acc' = [acc EXCEPT !.found = found, !.requests = 1, !.failure = failure]
             /\ found \in {{Root("instance")}, {Root("instance"), Here}}
             /\ relations \in {{}, map_table_relations}
             /\ out' = Concluded("full", failure, relations)
      BY <2>3
    <3>2. acc'.found = found
      BY <1>a, <3>1 DEF AccFields
    <3>3. Here.module \in {"instance", "tables"}
      <4>1. Here \in ReadListings(connector)
        BY <1>b, <2>1 DEF Here
      <4> QED BY <2>1, <4>1, ModulesRead DEF ReadListings
    <3>4. \A l \in acc'.found : l.module \in {"instance", "tables"}
      BY <3>1, <3>2, <3>3 DEF Root, Of
    <3>5. todo' \in Seq(ReadListings(connector))
      BY <1>b, <2>1, <2>3, OpenTail, OpenRead
    <3>6. connector \notin Application /\ connector' = connector
      BY <2>1 DEF Application, request
    <3>7. \/ out'.status = "error" /\ out'.code = "invalid"
          \/ out'.status \in {"complete", "partial"} /\ out'.relations = relations
      BY <3>1, <3>6 DEF Concluded, Failed, NoOutcome, Registered
    <3>8. \A r \in ModulesOf(relations) : r = <<"instance", "tables">>
      BY <3>1 DEF ModulesOf, map_table_relations, Root, Of
    <3>9. DescriptorKept'
      <4>1. CASE out'.status = "error" /\ out'.code = "invalid"
        BY <4>1, GoesOn DEF Declined
      <4>2. CASE out'.status \in {"complete", "partial"} /\ out'.relations = relations
        <5>1. /\ DescriptorOf(connector').kinds = {"instance", "tables"}
              /\ DescriptorOf(connector').relations = {<<"instance", "tables">>}
          BY <2>1, <3>6 DEF DescriptorOf, Descriptor, supabase_self_hosted_descriptor
        <5>2. \A x \in FoundModules' : KindsOf(x) \subseteq {"instance", "tables"}
          BY <3>4 DEF FoundModules, KindsOf
        <5>3. \A r \in ModulesOf(out'.relations) :
                 KindsOf(r[1]) \X KindsOf(r[2]) \subseteq {<<"instance", "tables">>}
          BY <3>8, <4>2 DEF KindsOf
        <5>4. ModulesOf(out.relations)' = ModulesOf(out'.relations)
          BY DEF ModulesOf
        <5> QED BY <4>2, <5>1, <5>2, <5>3, <5>4 DEF DescriptorKept, DeclaredRuns, DeclaredKinds
      <4> QED BY <3>7, <4>1, <4>2
    <3> QED
      BY <2>1, <3>4, <3>5, <3>6, <3>9, ModulesRead DEF KindsInv, FoundOK, CacheOK, Clouds
  <2> QED BY <1>2, <2>2, <2>3, SelfHostedCases
<1>c. ASSUME NEW failure, NEW pairs, request' = request, todo' = todo, acc' = acc, cache' = cache,
             connector \in Application,
             \A r \in pairs : KindsOf(r[1]) \X KindsOf(r[2]) \subseteq NormalizerOf(connector).relations,
             \/ out' = Failed("invalid")
             \/ out' = Concluded("full", failure, Observed(pairs))
      PROVE  KindsInv'
  <2>1. RelationsKnown(Observed(pairs))
    BY <1>c, ObservedPairs DEF RelationsKnown
  <2>2. DescriptorKept'
    <3>1. CASE out' = Failed("invalid")
      BY <3>1, FailedIsError, GoesOn DEF Declined
    <3>2. CASE out' = Concluded("full", failure, Observed(pairs))
      BY <1>c, <2>1, <3>2, ConcludedKept DEF request, KindsInv
    <3> QED BY <1>c, <3>1, <3>2
  <2> QED BY <1>c, <2>2 DEF KindsInv, FoundOK, CacheOK, request
<1>3. CASE DokployFinish
  <2>1. /\ connector = "dokploy" /\ request' = request /\ todo' = todo /\ acc' = acc
        /\ cache' = cache
    BY <1>3 DEF DokployFinish, Done
  <2>2. PICK pairs : pairs = {<<"projects", "servers">>, <<"projects", "deployments">>,
                              <<"projects", "app_domains">>}
    OBVIOUS
  <2>3. out' = Failed("invalid") \/ out' = Concluded("full", acc.failure, Observed(pairs))
    BY <1>3, <2>2 DEF DokployFinish, dokploy_finish, dokploy_map_relations
  <2>4. \A r \in pairs : KindsOf(r[1]) \X KindsOf(r[2]) \subseteq NormalizerOf(connector).relations
    BY <2>1, <2>2 DEF KindsOf, NormalizerOf, Normalizer, dokploy_normalizer
  <2> QED BY <1>c, <2>1, <2>3, <2>4 DEF Application
<1>4. CASE CloudflareFinish
  <2>1. /\ connector = "cloudflare" /\ request' = request /\ todo' = todo /\ acc' = acc
        /\ cache' = cache
    BY <1>4 DEF CloudflareFinish, Done
  <2>2. PICK pairs : pairs = {<<"accounts", "zones">>, <<"accounts", "tunnels">>,
                              <<"accounts", "workers">>, <<"zones", "dns_records">>}
    OBVIOUS
  <2>3. out' = Failed("invalid") \/ out' = Concluded("full", acc.failure, Observed(pairs))
    BY <1>4, <2>2 DEF CloudflareFinish, cloudflare_finish, cloudflare_map_relations
  <2>4. \A r \in pairs : KindsOf(r[1]) \X KindsOf(r[2]) \subseteq NormalizerOf(connector).relations
    BY <2>1, <2>2 DEF KindsOf, NormalizerOf, Normalizer, cloudflare_normalizer
  <2> QED BY <1>c, <2>1, <2>3, <2>4 DEF Application
<1>5. CASE SupabaseManagedFinish
  <2>1. /\ connector = "supabase-managed" /\ request' = request /\ todo' = todo /\ acc' = acc
        /\ cache' = cache
    BY <1>5 DEF SupabaseManagedFinish, Done
  <2>2. PICK pairs : pairs = {<<"organizations", "projects">>}
    OBVIOUS
  <2>3. out' = Failed("invalid") \/ out' = Concluded("full", "none", Observed(pairs))
    BY <1>5, <2>2 DEF SupabaseManagedFinish, managed_relations
  <2>4. \A r \in pairs : KindsOf(r[1]) \X KindsOf(r[2]) \subseteq NormalizerOf(connector).relations
    BY <2>1, <2>2 DEF KindsOf, NormalizerOf, Normalizer, supabase_managed_normalizer
  <2> QED BY <1>c, <2>1, <2>3, <2>4 DEF Application
<1>6. CASE fixture_replay
  <2>1. /\ connector = "fixture" /\ request' = request /\ todo' = todo /\ acc' = acc
        /\ cache' = cache
    BY <1>6 DEF fixture_replay, Done
  <2>2. acc.found = {}
    BY <2>1 DEF KindsInv, FoundOK, ReadModules, Clouds
  <2>3. \/ out'.relations = {}
        \/ out'.status = "error"
    <3>1. CASE \E code \in {"unavailable", "invalid"} : out' = Failed(code)
      BY <3>1, FailedIsError
    <3>2. ASSUME NEW status, NEW coverage,
                 LET o == [status |-> status, coverage |-> coverage,
                           code |-> IF status = "partial" THEN "unavailable" ELSE "none",
                           relations |-> {}]
                 IN  out' = IF validate_for(o, mode) THEN o ELSE Failed("config")
          PROVE  out'.relations = {} \/ out'.status = "error"
      <4>1. PICK code : code = IF status = "partial" THEN "unavailable" ELSE "none"
        OBVIOUS
      <4>2. PICK o : o = [status |-> status, coverage |-> coverage, code |-> code,
                          relations |-> {}]
        OBVIOUS
      <4>3. out' = IF validate_for(o, mode) THEN o ELSE Failed("config")
        BY <3>2, <4>1, <4>2, Zenon
      <4> QED BY <4>2, <4>3, FailedIsError
    <3>3. \/ \E status \in {"complete", "partial"}, coverage \in Coverages \ {"none"} :
               LET o == [status |-> status, coverage |-> coverage,
                         code |-> IF status = "partial" THEN "unavailable" ELSE "none",
                         relations |-> {}]
               IN  out' = IF validate_for(o, mode) THEN o ELSE Failed("config")
          \/ \E code \in {"unavailable", "invalid"} : out' = Failed(code)
      BY <1>6, Zenon DEF fixture_replay
    <3> QED BY <3>1, <3>2, <3>3, Zenon
  <2>4. UNION {KindsOf(x) : x \in FoundModules'} = {}
    BY <2>1, <2>2 DEF FoundModules
  <2>5. out'.status # "error" => ModulesOf(out.relations)' = {}
    BY <2>3 DEF ModulesOf
  <2>6. DescriptorKept'
    BY <2>1, <2>4, <2>5 DEF DescriptorKept, DeclaredRuns, DeclaredKinds, Refusable, request
  <2> QED BY <2>1, <2>6 DEF KindsInv, FoundOK, CacheOK, request
<1> QED
  BY <1>1, <1>2, <1>3, <1>4, <1>5, <1>6, DokployKindsStep, CloudflareKindsStep DEF PlatformStep

\* A connection that is declined was not accepted before, or may be declined.
LEMMA RefusesDeclared ==
    ASSUME NEW targets, Refuses(targets) \in Declined
    PROVE  ~(Validates /\ mode \in DescriptorOf(connector).sync_modes /\ ~Refusable)
<1>1. CASE connector \in Clouds
  BY <1>1 DEF Refuses, Validates, Refusable, Clouds, Declined, aliyun_refuses, tencent_refuses,
              aliyun_validate, tencent_validate
<1>2. CASE connector = "github"
  BY <1>2 DEF Refuses, Validates, Declined, github_refuses, github_validate, DescriptorOf,
              Descriptor, github_descriptor
<1>3. CASE connector = "ssh"
  BY <1>3 DEF Refuses, Validates, Declined, ssh_refuses, ssh_validate, DescriptorOf,
              Descriptor, ssh_descriptor
<1>4. CASE connector = "dokploy"
  BY <1>4 DEF Refuses, Validates, Declined, dokploy_refuses, dokploy_validate, DescriptorOf,
              Descriptor, dokploy_descriptor
<1>5. CASE connector = "cloudflare"
  BY <1>5 DEF Refuses, Validates, Declined, cloudflare_refuses, cloudflare_validate, DescriptorOf,
              Descriptor, cloudflare_descriptor, Refusable
<1>6. CASE connector = "supabase-managed"
  BY <1>6 DEF Refuses, Validates, Declined, supabase_managed_refuses, supabase_managed_validate
<1>7. CASE connector = "supabase-self-hosted"
  BY <1>7 DEF Refuses, Validates, Declined, supabase_self_hosted_refuses,
              supabase_self_hosted_validate
<1>8. CASE connector \notin {"aliyun", "tencent", "github", "ssh", "dokploy", "cloudflare",
                             "supabase-managed", "supabase-self-hosted"}
  BY <1>8 DEF Refuses, Validates, Declined, fixture_refuses, fixture_validate
<1> QED
  BY <1>1, <1>2, <1>3, <1>4, <1>5, <1>6, <1>7, <1>8 DEF Clouds

LEMMA RootRead ==
    ASSUME NEW c, NEW m \in ReadModules(c)
    PROVE  Root(m) \in ReadListings(c)
BY DEF Root, Of, ReadListings, Parents

LEMMA ListingsRead ==
    ASSUME NEW targets \in SUBSET (1 .. MaxItems)
    PROVE  Listings(targets) \in Seq(ReadListings(connector))
<1>r. \A m \in ReadModules(connector) : Root(m) \in ReadListings(connector)
  BY RootRead
<1>1. CASE connector = "aliyun"
  BY <1>1, <1>r, ModulesRead DEF Listings, aliyun_modules, Clouds, CloudKinds
<1>2. CASE connector = "tencent"
  BY <1>2, <1>r, ModulesRead DEF Listings, tencent_modules, Clouds, CloudKinds
<1>3. CASE connector = "github"
  <2>m. MaxItems \in Int /\ 1 \in Int
    BY ConnectorAssumption
  <2>1. IsFiniteSet(1 .. MaxItems)
    BY <2>m, FS_Interval, Zenon
  <2>2. Cardinality(targets) \in Nat
    BY <2>1, FS_Subset, FS_CardinalityType
  <2>3. \A i \in Nat : Nth(targets, i) \in Parents
    BY DEF Parents
  <2>4. \A i \in 1 .. Cardinality(targets) :
           Of("repository", Nth(targets, i)) \in ReadListings(connector)
    BY <1>3, <2>2, <2>3, ModulesRead DEF Of, ReadListings
  <2>5. [i \in 1 .. Cardinality(targets) |-> Of("repository", Nth(targets, i))]
              \in Seq(ReadListings(connector))
    BY <2>2, <2>4
  <2>6. <<Root("repositories")>> \in Seq(ReadListings(connector))
    BY <1>3, <1>r, ModulesRead
  <2>7. github_listings(targets) \in Seq(ReadListings(connector))
    BY <2>5, <2>6 DEF github_listings, Nth
  <2> QED BY <1>3, <2>7 DEF Listings
<1>4. CASE connector = "ssh"
  BY <1>4, <1>r, ModulesRead DEF Listings
<1>5. CASE connector = "dokploy"
  BY <1>5, <1>r, ModulesRead DEF Listings, dokploy_listings
<1>6. CASE connector = "cloudflare"
  BY <1>6, <1>r, ModulesRead DEF Listings, cloudflare_listings
<1>7. CASE connector = "supabase-managed"
  BY <1>7, <1>r, ModulesRead DEF Listings, supabase_managed_listings
<1>8. CASE connector = "supabase-self-hosted"
  BY <1>8, <1>r, ModulesRead DEF Listings
<1>9. CASE connector \notin {"aliyun", "tencent", "github", "ssh", "dokploy", "cloudflare",
                             "supabase-managed", "supabase-self-hosted"}
  BY <1>9, ClosedRead DEF Listings
<1> QED
  BY <1>1, <1>2, <1>3, <1>4, <1>5, <1>6, <1>7, <1>8, <1>9

\* The strengthening holds at first, and every step keeps it.
LEMMA KindsInit == Init => TypeInv /\ KindsInv
<1> SUFFICES ASSUME Init PROVE TypeInv /\ KindsInv
  OBVIOUS
<1>1. TypeInv
  BY InitTyped
<1>2. /\ todo = <<>> /\ acc = Empty /\ cache = NoCache /\ out.status = "new"
  BY DEF Init, NoOutcome
<1>3. DescriptorKept
  BY <1>2 DEF DescriptorKept, DeclaredRuns, DeclaredKinds
<1>4. FoundOK /\ CacheOK
  BY <1>2, EmptyTyped DEF FoundOK, CacheOK, NoCache
<1> QED BY <1>1, <1>2, <1>3, <1>4, EmptyTyped, ClosedRead DEF KindsInv, Declined

LEMMA KindsStep == TypeInv /\ KindsInv /\ [Next]_vars => (TypeInv /\ KindsInv)'
<1> SUFFICES ASSUME TypeInv, KindsInv, [Next]_vars PROVE (TypeInv /\ KindsInv)'
  OBVIOUS
<1>1. TypeInv'
  BY TypeStep
<1>2. CASE Begin
  <2>1. request' = request /\ acc' = acc /\ cache' = cache
    BY <1>2, BeginCases DEF Begin
  <2>2. PICK targets \in SUBSET (1 .. MaxItems) :
           \/ /\ Refuses(targets) = "none" /\ out' = NoOutcome("running")
              /\ Open(Listings(targets))
           \/ Refuses(targets) # "none" /\ Fatal(Refuses(targets))
    BY <1>2, BeginCases
  <2>3. CASE out' = NoOutcome("running") /\ Open(Listings(targets))
    <3>1. todo' \in Seq(ReadListings(connector))
      BY <2>3, ListingsRead, OpenRead
    <3>2. DescriptorKept'
      BY <2>3, GoesOn DEF NoOutcome
    <3> QED BY <1>1, <2>1, <3>1, <3>2 DEF KindsInv, FoundOK, CacheOK, request
  <2>4. CASE Fatal(Refuses(targets))
    <3>1. todo' = <<>> /\ out'.status = "error" /\ out'.code = Refuses(targets)
      BY <2>4, FailedIsError DEF Fatal
    <3>2. /\ Refusable' = Refusable /\ Validates' = Validates
          /\ DescriptorOf(connector)' = DescriptorOf(connector) /\ mode' = mode
      BY <2>1 DEF Refusable, Validates, DescriptorOf, request, aliyun_validate, tencent_validate,
                  github_validate, ssh_validate, dokploy_validate, cloudflare_validate,
                  supabase_managed_validate, supabase_self_hosted_validate, fixture_validate
    <3>3. Refuses(targets) \in Declined =>
             ~(Validates' /\ mode' \in DescriptorOf(connector)'.sync_modes /\ ~Refusable')
      BY <3>2, RefusesDeclared
    <3>4. DescriptorKept'
      BY <3>1, <3>3 DEF DescriptorKept, DeclaredRuns, DeclaredKinds, Declined
    <3> QED BY <1>1, <2>1, <3>1, <3>4, ClosedRead DEF KindsInv, FoundOK, CacheOK, request
  <2> QED BY <2>2, <2>3, <2>4
<1>3. CASE Again
  <2>1. /\ connector' = connector /\ todo' = <<>> /\ acc' = Empty /\ cache' = cache
        /\ out'.status = "new"
    BY <1>3 DEF Again, NoOutcome
  <2>2. DescriptorKept'
    BY <2>1 DEF DescriptorKept, DeclaredRuns, DeclaredKinds
  <2>3. FoundOK' /\ CacheOK'
    BY <2>1, EmptyTyped DEF FoundOK, CacheOK, KindsInv
  <2> QED BY <1>1, <2>1, <2>2, <2>3, EmptyTyped, ClosedRead DEF KindsInv, Declined
<1>4. CASE UNCHANGED vars
  <2>1. DescriptorKept'
    BY <1>4 DEF vars, KindsInv, DescriptorKept, DeclaredRuns, DeclaredKinds, Refusable, Validates,
                FoundModules, ModulesOf, aliyun_validate, tencent_validate, github_validate,
                ssh_validate, dokploy_validate, cloudflare_validate, supabase_managed_validate,
                supabase_self_hosted_validate, fixture_validate
  <2> QED BY <1>1, <1>4, <2>1 DEF vars, KindsInv, FoundOK, CacheOK
<1> QED
  BY <1>1, <1>2, <1>3, <1>4, CloudKindsStep, GitHubKindsStep, SshKindsStep, PlatformKindsStep
     DEF Next, Step

\* What a connector declares holds of its syncs: a connection that it accepts is
\* not declined in the middle of a sync, and what a sync reports is of the kinds
\* that the connector declares.
THEOREM DescriptorKeptAlways == Spec => []DescriptorKept
<1>1. TypeInv /\ KindsInv => DescriptorKept
  BY DEF KindsInv
<1> QED
  BY <1>1, KindsInit, KindsStep, PTL DEF Spec

-----------------------------------------------------------------------------
(* Requests are bounded.  Each connector has a measure of what its sync may *)
(* have asked for so far: what the listings that are behind it can have     *)
(* taken, and the pages and retries of the current one.                     *)

\* The pages of n listings.
Pages(n) == PageCap * n

LEMMA PagesCount ==
    /\ Pages(0) = 0 /\ Pages(1) = PageCap
    /\ Pages(6) = 6 * PageCap /\ Pages(7) = 7 * PageCap
    /\ \A n \in Int : Pages(n) \in Int /\ Pages(n + 1) = Pages(n) + PageCap
    /\ \A m, n \in Int : m <= n => Pages(m) <= Pages(n)
<1>1. PageCap \in Nat
  BY ConnectorAssumption
<1>2. \A n \in Int : PageCap * n \in Int /\ PageCap * (n + 1) = PageCap * n + PageCap
  BY <1>1
<1>3. \A m, n \in Int : m <= n => PageCap * m <= PageCap * n
  <2> SUFFICES ASSUME NEW m \in Int, NEW n \in Int, m <= n PROVE PageCap * m <= PageCap * n
    OBVIOUS
  <2>1. PICK d \in Nat : n = m + d
    <3>1. n - m \in Nat /\ n = m + (n - m)
      OBVIOUS
    <3> QED BY <3>1
  <2>2. PageCap * d \in Nat /\ PageCap * (m + d) = PageCap * m + PageCap * d
    BY <1>1
  <2> QED BY <1>1, <2>1, <2>2
<1>4. /\ PageCap * 0 = 0 /\ PageCap * 1 = PageCap
      /\ PageCap * 6 = 6 * PageCap /\ PageCap * 7 = 7 * PageCap
  BY <1>1
<1> QED
  BY <1>2, <1>3, <1>4 DEF Pages

\* SSH: the identity, and then four probes.
SshRequests ==
    \/ todo = <<Root("identity")>> /\ acc.requests = 0
    \/ /\ acc.requests + Len(todo) <= 5
       /\ \A i \in 1 .. Len(todo) : todo[i] # Root("identity")

\* Dokploy: two listings, and then two endpoints of each application.
DokployRequests ==
    \/ todo = dokploy_listings /\ acc.requests = 0
    \/ todo = <<Root("servers")>> /\ acc.requests = 1
    \/ /\ acc.requests + Len(todo) <= 2 + 2 * WalkCap
       /\ \A i \in 1 .. Len(todo) : todo[i].module \notin {"projects", "servers"}

\* Cloudflare: two listings, and then the children of what they had.
CloudflareRequests ==
    /\ cur.page <= PageCap /\ cur.got < cur.page /\ acc.used <= PageCap
    /\ \/ todo = cloudflare_listings /\ acc.requests <= cur.page - 1
       \/ todo = <<Root("zones")>> /\ acc.requests <= PageCap + cur.page - 1
       \/ /\ todo # <<>>
          /\ acc.requests + Pages(Len(todo)) <= Pages(2 + 3 * PageCap) + cur.page - 1
          /\ \A i \in 1 .. Len(todo) : todo[i].module \notin {"accounts", "zones"}
       \/ todo = <<>> /\ acc.requests <= Pages(2 + 3 * PageCap)

\* GitHub: no request without the budget for it.
LEMMA MergeRequests ==
    ASSUME TypeInv, NEW n, NEW failure, GitHubMerge(n, failure)
    PROVE  acc'.requests = IF failure = "budget" THEN acc.requests ELSE acc.requests + 1
BY DEF TypeInv, AccOK, AccFields, GitHubMerge

LEMMA GapRequests ==
    ASSUME TypeInv, NEW n, NEW code, GitHubGap(n, code)
    PROVE  acc'.requests = IF code = "budget" THEN acc.requests ELSE acc.requests + 1
<1>1. CASE acc' = [acc EXCEPT !.requests = IF code = "budget" THEN @ ELSE @ + 1]
  BY <1>1 DEF TypeInv, AccOK, AccFields
<1> QED
  BY <1>1, GapCases, MergeRequests

LEMMA GitHubRequestsStep ==
    ASSUME TypeInv, acc.requests <= RequestBudget, GitHubStep
    PROVE  acc'.requests <= RequestBudget
<1>a. acc.requests \in Nat /\ RequestBudget \in Nat /\ DOMAIN acc = AccFields
  BY ConnectorAssumption DEF TypeInv, AccOK
<1>b. Remaining > 0 => acc.requests + 1 <= RequestBudget
  BY <1>a DEF Remaining
<1>1. ASSUME NEW reply, github_fetch(reply) PROVE acc'.requests <= RequestBudget
  <2>1. Remaining > 0
    BY <1>1, GitHubAsks
  <2>2. CASE \E bad : acc' = [acc EXCEPT !.requests = @ + 1, !.bad = bad]
    <3>1. acc'.requests = acc.requests + 1
      BY <1>a, <2>2 DEF AccFields
    <3> QED BY <1>b, <2>1, <3>1
  <2>3. CASE acc' = [acc EXCEPT !.requests = @ + 1]
    <3>1. acc'.requests = acc.requests + 1
      BY <1>a, <2>3 DEF AccFields
    <3> QED BY <1>b, <2>1, <3>1
  <2>4. CASE GitHubMerge(cur.got + Items, "none")
    BY <1>a, <1>b, <2>1, <2>4, MergeRequests
  <2>5. CASE GitHubGap(cur.got, reply)
    BY <1>a, <1>b, <2>1, <2>5, GapRequests
  <2> QED BY <1>1, <2>2, <2>3, <2>4, <2>5, GitHubAsks
<1>2. CASE GitHubPageLimit
  BY <1>a, <1>2, GapRequests DEF GitHubPageLimit
<1>3. CASE mark_budget_exhausted
  BY <1>a, <1>3 DEF mark_budget_exhausted, AccFields
<1>4. CASE github_not_modified
  <2>1. Remaining > 0
    BY <1>4 DEF github_not_modified, Paging
  <2>2. PICK c : \/ acc' = [acc EXCEPT !.requests = @ + 1]
                 \/ GitHubMerge(c.size, "none")
    BY <1>4 DEF github_not_modified
  <2>3. acc'.requests = acc.requests + 1
    BY <1>a, <2>2, MergeRequests DEF AccFields
  <2> QED BY <1>b, <2>1, <2>3
<1>5. CASE GitHubFinish
  BY <1>5 DEF GitHubFinish
<1> QED
  BY <1>1, <1>2, <1>3, <1>4, <1>5 DEF GitHubStep

\* SSH.
LEMMA TailOf ==
    ASSUME NEW S, NEW s \in Seq(S), s # <<>>
    PROVE  /\ Len(s) \in Nat \ {0} /\ Len(Tail(s)) = Len(s) - 1
           /\ \A i \in 1 .. Len(Tail(s)) : i + 1 \in 1 .. Len(s) /\ Tail(s)[i] = s[i + 1]
           /\ Head(s) = s[1] /\ 1 \in 1 .. Len(s)
OBVIOUS

LEMMA ConcatOf ==
    ASSUME NEW S, NEW s \in Seq(S), NEW t \in Seq(S)
    PROVE  /\ s \o t \in Seq(S) /\ Len(s) \in Nat /\ Len(t) \in Nat
           /\ Len(s \o t) = Len(s) + Len(t)
OBVIOUS

LEMMA SshRequestsStep ==
    ASSUME TypeInv, KindsInv, SshRequests, SshStep
    PROVE  SshRequests'
<1>a. acc.requests \in Nat /\ DOMAIN acc = AccFields
  BY DEF TypeInv, AccOK
<1>b. todo \in Seq(ReadListings(connector))
  BY DEF KindsInv
<1>1. ASSUME NEW reply, ssh_identity(reply) PROVE SshRequests'
  <2>1. todo # <<>> /\ Here = Root("identity")
    BY <1>1 DEF ssh_identity, Asking
  <2>2. todo = <<Root("identity")>> /\ acc.requests = 0
    BY <1>b, <2>1, TailOf DEF SshRequests, Here
  <2>3. CASE Fatal(ssh_code(reply)) /\ acc' = acc
    BY <2>2, <2>3 DEF Fatal, SshRequests
  <2>4. CASE /\ acc' = [acc EXCEPT !.found = @ \cup {Here}, !.requests = @ + 1, !.used = 0]
             /\ \E services \in BOOLEAN : Open(ssh_planned(services))
    <3>1. acc'.requests = 1
      BY <1>a, <2>2, <2>4 DEF AccFields
    <3>2. PICK services \in BOOLEAN : todo' = ssh_planned(services)
      BY <2>4 DEF Open
    <3>3. /\ Root("uptime") # Root("identity") /\ Root("filesystems") # Root("identity")
          /\ Root("process_summary") # Root("identity") /\ Root("services") # Root("identity")
      BY DEF Root, Of
    <3>4. PICK S : S = {Root("uptime"), Root("filesystems"), Root("process_summary"),
                        Root("services")}
      OBVIOUS
    <3>5. PICK last : last = IF services THEN <<Root("services")>> ELSE <<>>
      OBVIOUS
    <3>6. todo' \in Seq(S) /\ Len(todo') <= 4
      <4>1. last \in Seq(S) /\ Len(last) <= 1
        <5>1. CASE services
          <6>1. last = <<Root("services")>> /\ Root("services") \in S
            BY <3>4, <3>5, <5>1
          <6>2. \A x \in S : <<x>> \in Seq(S) /\ Len(<<x>>) = 1
            OBVIOUS
          <6> QED BY <6>1, <6>2
        <5>2. CASE ~services
          <6>1. last = <<>>
            BY <3>5, <5>2
          <6>2. <<>> \in Seq(S) /\ Len(<<>>) = 0
            OBVIOUS
          <6> QED BY <6>1, <6>2
        <5> QED BY <5>1, <5>2
      <4>2. PICK probes : probes = <<Root("uptime"), Root("filesystems"), Root("process_summary")>>
        OBVIOUS
      <4>3. probes \in Seq(S) /\ Len(probes) = 3
        BY <3>4, <4>2
      <4>4. todo' = probes \o last
        BY <3>2, <3>5, <4>2 DEF ssh_planned
      <4>5. probes \o last \in Seq(S) /\ Len(probes \o last) = Len(probes) + Len(last)
        BY <4>1, <4>3, ConcatOf
      <4>6. Len(last) \in Nat
        BY <4>1, ConcatOf
      <4>7. Len(probes \o last) <= 4
        BY <4>1, <4>3, <4>5, <4>6
      <4> QED BY <4>4, <4>5, <4>7
    <3>7. \A i \in 1 .. Len(todo') : todo'[i] # Root("identity")
      BY <3>3, <3>4, <3>6
    <3>8. acc'.requests + Len(todo') <= 5
      BY <3>1, <3>6
    <3> QED BY <3>7, <3>8 DEF SshRequests
  <2> QED BY <1>1, <2>3, <2>4, IdentityCases
<1>2. ASSUME NEW reply, ssh_probe(reply) PROVE SshRequests'
  <2>1. todo # <<>> /\ Here # Root("identity")
    BY <1>2, ProbeCases
  <2>2. /\ acc.requests + Len(todo) <= 5
        /\ \A i \in 1 .. Len(todo) : todo[i] # Root("identity")
    BY <2>1 DEF SshRequests, Here
  <2>3. acc.requests <= 4 /\ Len(todo) \in Nat
    BY <1>a, <1>b, <2>1, <2>2, TailOf
  <2>4. CASE Fatal(reply) /\ acc' = acc
    BY <1>a, <2>3, <2>4 DEF Fatal, SshRequests
  <2>5. CASE /\ \E used : 
                   \/ acc' = [acc EXCEPT !.found = @ \cup {Here},
                                         !.requests = @ + 1, !.used = used]
                   \/ acc' = [acc EXCEPT !.failure = SshFailure(@, reply),
                                         !.requests = @ + 1, !.used = used]
             /\ Open(<<>>) \/ Open(Tail(todo))
    <3>1. acc'.requests = acc.requests + 1
      BY <1>a, <2>5 DEF AccFields
    <3>2. todo' = <<>> \/ todo' = Tail(todo)
      BY <2>5 DEF Open
    <3>3. CASE todo' = <<>>
      BY <1>a, <2>3, <3>1, <3>3 DEF SshRequests
    <3>4. CASE todo' = Tail(todo)
      <4>1. \A i \in 1 .. Len(todo') : todo'[i] # Root("identity")
        BY <1>b, <2>1, <2>2, <3>4, TailOf
      <4>2. acc'.requests + Len(todo') <= 5
        BY <1>a, <1>b, <2>1, <2>2, <3>1, <3>4, TailOf
      <4> QED BY <4>1, <4>2 DEF SshRequests
    <3> QED BY <3>2, <3>3, <3>4
  <2> QED BY <1>2, <2>4, <2>5, ProbeCases
<1>3. CASE SshFinish
  BY <1>3 DEF SshFinish, SshRequests
<1> QED
  BY <1>1, <1>2, <1>3 DEF SshStep

\* Dokploy.
LEMMA WalkOf ==
    ASSUME NEW apps \in Nat
    PROVE  /\ Len(dokploy_walk(apps)) \in Nat /\ Len(dokploy_walk(apps)) <= 2 * WalkCap
           /\ \A i \in 1 .. Len(dokploy_walk(apps)) :
                 dokploy_walk(apps)[i].module \in {"deployments", "app_domains"}
<1>1. WalkCap \in Nat
  BY ConnectorAssumption
<1>2. PICK m \in Nat : m = (IF apps < WalkCap THEN apps ELSE WalkCap) /\ m <= WalkCap
  BY <1>1
<1> DEFINE s == [i \in 1 .. 2 * m |-> Of(IF i % 2 = 1 THEN "deployments" ELSE "app_domains",
                                          (i + 1) \div 2)]
<1>3. dokploy_walk(apps) = s
  BY <1>2 DEF dokploy_walk
<1>4. Len(s) = 2 * m
  OBVIOUS
<1>5. \A i \in 1 .. 2 * m : s[i].module \in {"deployments", "app_domains"}
  BY DEF Of
<1> HIDE DEF s
<1> QED
  BY <1>1, <1>2, <1>3, <1>4, <1>5

LEMMA DokployRequestsStep ==
    ASSUME TypeInv, KindsInv, DokployRequests,
           (\E reply : dokploy_fetch(reply)) \/ DokployFinish
    PROVE  DokployRequests'
<1>a. acc.requests \in Nat /\ acc.used \in Nat /\ DOMAIN acc = AccFields /\ WalkCap \in Nat
  BY ConnectorAssumption DEF TypeInv, AccOK
<1>b. todo \in Seq(ReadListings(connector)) /\ Len(todo) \in Nat
  BY DEF KindsInv
<1>c. /\ Root("projects").module = "projects" /\ Root("servers").module = "servers"
  BY DEF Root, Of
<1>d. acc.requests <= 2 + 2 * WalkCap
  BY <1>a, <1>b DEF DokployRequests
<1>1. CASE todo' = <<>> /\ acc'.requests = acc.requests
  BY <1>a, <1>d, <1>1 DEF DokployRequests
<1>2. CASE todo' = todo /\ acc'.requests = acc.requests
  BY <1>2 DEF DokployRequests
<1>3. CASE /\ todo # <<>> /\ acc'.requests = acc.requests + 1
           /\ todo' = DokployRest
  <2>1. CASE todo = dokploy_listings /\ acc.requests = 0
    <3>1. Here = Root("projects") /\ Tail(todo) = <<Root("servers")>>
      BY <2>1 DEF dokploy_listings, Here
    <3>2. todo' = <<Root("servers")>>
      BY <1>3, <1>c, <3>1 DEF DokployRest
    <3> QED BY <1>3, <2>1, <3>2 DEF DokployRequests
  <2>2. CASE todo = <<Root("servers")>> /\ acc.requests = 1
    <3>1. Here.module = "servers"
      BY <1>c, <2>2 DEF Here
    <3>2. todo' = dokploy_walk(acc.used)
      BY <1>3, <3>1 DEF DokployRest
    <3>3. PICK w : w = dokploy_walk(acc.used)
      OBVIOUS
    <3>4. /\ Len(w) \in Nat /\ Len(w) <= 2 * WalkCap
          /\ \A i \in 1 .. Len(w) : w[i].module \in {"deployments", "app_domains"}
      BY <1>a, <3>3, WalkOf
    <3>5. todo' = w /\ acc'.requests = 2
      BY <1>3, <2>2, <3>2, <3>3
    <3> QED BY <1>a, <3>4, <3>5 DEF DokployRequests
  <2>3. CASE /\ acc.requests + Len(todo) <= 2 + 2 * WalkCap
             /\ \A i \in 1 .. Len(todo) : todo[i].module \notin {"projects", "servers"}
    <3>1. todo' = Tail(todo)
      BY <1>b, <1>3, <2>3, TailOf DEF DokployRest, Here
    <3>2. \A i \in 1 .. Len(todo') : todo'[i].module \notin {"projects", "servers"}
      BY <1>b, <1>3, <2>3, <3>1, TailOf
    <3>3. acc'.requests + Len(todo') <= 2 + 2 * WalkCap
      BY <1>a, <1>b, <1>3, <2>3, <3>1, TailOf
    <3> QED BY <3>2, <3>3 DEF DokployRequests
  <2> QED BY <2>1, <2>2, <2>3 DEF DokployRequests
<1>4. ASSUME NEW reply, dokploy_fetch(reply) PROVE DokployRequests'
  <2>1. CASE acc' = [acc EXCEPT !.failure = "budget"] /\ Open(<<>>)
    <3>1. acc'.requests = acc.requests /\ todo' = <<>>
      BY <1>a, <2>1 DEF AccFields, Open
    <3> QED BY <1>1, <3>1
  <2>2. CASE (\E code \in {"budget", "invalid", reply} : Fatal(code)) /\ acc' = acc
    BY <1>1, <2>2 DEF Fatal
  <2>3. CASE /\ \E bad, failure :
                   /\ acc' = [acc EXCEPT !.bad = bad, !.failure = failure]
                   /\ failure \in {acc.failure, "garbled"}
             /\ todo' = todo
    <3>1. acc'.requests = acc.requests
      BY <1>a, <2>3 DEF AccFields
    <3> QED BY <1>2, <2>3, <3>1
  <2>4. CASE /\ \E found, used, bad :
                   /\ acc' = [acc EXCEPT !.found = found, !.requests = @ + 1,
                                         !.used = used, !.bad = bad]
                   /\ found \in {acc.found, acc.found \cup {Here}}
                   /\ used \in {cur.got + Items, acc.used}
             /\ Open(DokployRest)
    <3>1. acc'.requests = acc.requests + 1
      BY <1>a, <2>4 DEF AccFields
    <3>2. todo # <<>>
      BY <1>4, DokployCases
    <3> QED BY <1>3, <2>4, <3>1, <3>2 DEF Open
  <2> QED BY <1>4, <2>1, <2>2, <2>3, <2>4, DokployCases, ZenonT(60)
<1>5. CASE DokployFinish
  BY <1>2, <1>5 DEF DokployFinish
<1> QED
  BY <1>4, <1>5

\* Cloudflare.
LEMMA ChildrenOf ==
    ASSUME NEW S, NEW m, NEW n \in Nat, \A p \in Nat : Of(m, p) \in S
    PROVE  Children(m, n) \in Seq(S) /\ Len(Children(m, n)) = n
BY DEF Children

LEMMA CloudflareChildrenOf ==
    ASSUME NEW accounts \in Nat, NEW zones \in Nat
    PROVE  LET c == cloudflare_children(accounts, zones)
           IN  /\ Len(c) = zones + accounts + accounts
               /\ \A i \in 1 .. Len(c) : c[i].module \notin {"accounts", "zones"}
<1> DEFINE S == [module : {"dns_records", "tunnels", "workers"}, parent : Nat]
<1>1. \A p \in Nat : Of("dns_records", p) \in S /\ Of("tunnels", p) \in S /\ Of("workers", p) \in S
  BY DEF Of
<1>2. PICK a, b, c : /\ a = Children("dns_records", zones) /\ b = Children("tunnels", accounts)
                     /\ c = Children("workers", accounts)
  OBVIOUS
<1>4. \A x \in S : x.module \notin {"accounts", "zones"}
  OBVIOUS
<1> HIDE DEF S
<1>3a. Children("dns_records", zones) \in Seq(S) /\ Len(Children("dns_records", zones)) = zones
  BY <1>1, ChildrenOf
<1>3b. Children("tunnels", accounts) \in Seq(S) /\ Len(Children("tunnels", accounts)) = accounts
  BY <1>1, ChildrenOf
<1>3c. Children("workers", accounts) \in Seq(S) /\ Len(Children("workers", accounts)) = accounts
  BY <1>1, ChildrenOf
<1>3. /\ a \in Seq(S) /\ Len(a) = zones
      /\ b \in Seq(S) /\ Len(b) = accounts
      /\ c \in Seq(S) /\ Len(c) = accounts
  BY <1>2, <1>3a, <1>3b, <1>3c
<1>5. a \o b \in Seq(S) /\ Len(a \o b) = zones + accounts
  BY <1>3, ConcatOf
<1>6. (a \o b) \o c \in Seq(S) /\ Len((a \o b) \o c) = zones + accounts + accounts
  BY <1>3, <1>5, ConcatOf
<1>7. PICK d : d = (a \o b) \o c
  OBVIOUS
<1>8. d = cloudflare_children(accounts, zones)
  BY <1>2, <1>7 DEF cloudflare_children
<1>9. d \in Seq(S) /\ Len(d) = zones + accounts + accounts
  BY <1>6, <1>7
<1>10. \A i \in 1 .. Len(d) : d[i] \in S
  BY <1>9
<1> QED
  BY <1>4, <1>8, <1>9, <1>10

\* The next page, and the next listing.
LEMMA PagesNext ==
    ASSUME NEW n \in Nat
    PROVE  /\ PageCap \in Nat /\ Pages(n) \in Int
           /\ Pages(n + 1) = Pages(n) + PageCap /\ Pages(n + 2) = Pages(n) + 2 * PageCap
<1>1. PageCap \in Nat
  BY ConnectorAssumption
<1> QED
  BY <1>1 DEF Pages

LEMMA CloudflareNext ==
    ASSUME TypeInv, CloudflareRequests, todo \in Seq(ReadListings(connector)), todo # <<>>,
           cur.page < PageCap,
           cur' = [cur EXCEPT !.page = @ + 1, !.got = cur.got + Items], todo' = todo,
           acc'.requests = acc.requests + 1, acc'.used = acc.used
    PROVE  CloudflareRequests'
<1>1. /\ cur.page \in Nat \ {0} /\ cur.got \in Nat /\ acc.requests \in Nat /\ PageCap \in Nat
      /\ cur \in CurType
  BY ConnectorAssumption DEF TypeInv, CurType, AccOK
<1>2. PICK got \in Nat : got = cur.got + Items /\ got <= cur.got + 1
  <2>1. PICK g \in Nat, i \in {0, 1} : g = cur.got /\ i = Items
    BY <1>1, ItemsTyped
  <2>2. g + i \in Nat /\ g + i <= g + 1
    OBVIOUS
  <2> QED BY <2>1, <2>2
<1>3. cur' = [cur EXCEPT !.page = @ + 1, !.got = got]
  BY <1>2
<1>4. cur'.page = cur.page + 1 /\ cur'.got = got
  BY <1>1, <1>3, NextPageTyped
<1>5. cur'.page <= PageCap /\ cur'.got < cur'.page /\ acc'.used <= PageCap
  BY <1>1, <1>2, <1>4 DEF CloudflareRequests
<1>6. CASE todo = cloudflare_listings /\ acc.requests <= cur.page - 1
  BY <1>1, <1>4, <1>5, <1>6 DEF CloudflareRequests
<1>7. CASE todo = <<Root("zones")>> /\ acc.requests <= PageCap + cur.page - 1
  BY <1>1, <1>4, <1>5, <1>7 DEF CloudflareRequests
<1>8. CASE /\ acc.requests + Pages(Len(todo)) <= Pages(2 + 3 * PageCap) + cur.page - 1
           /\ \A i \in 1 .. Len(todo) : todo[i].module \notin {"accounts", "zones"}
           /\ Len(todo) \in Nat
  <2>1. PICK x \in Int, y \in Int : x = Pages(Len(todo)) /\ y = Pages(2 + 3 * PageCap)
    <3>a. PageCap \in Nat
      BY <1>1
    <3>b. 2 + 3 * PageCap \in Nat
      BY ONLY <3>a
    <3>1. PICK l \in Nat, m \in Nat : l = Len(todo) /\ m = 2 + 3 * PageCap
      BY <1>8, <3>b
    <3>2. Pages(l) \in Int /\ Pages(m) \in Int
      BY PagesNext
    <3> QED BY <3>1, <3>2
  <2>a. acc.requests + x <= y + cur.page - 1
    BY <1>8, <2>1
  <2>b. acc'.requests + x <= y + cur'.page - 1
    <3>1. PICK a \in Nat, g \in Nat : a = acc.requests /\ g = cur.page
      BY <1>1
    <3>2. a + x <= y + g - 1
      BY <2>a, <3>1
    <3>3. (a + 1) + x <= y + (g + 1) - 1
      BY ONLY <3>2, a \in Nat, g \in Nat, x \in Int, y \in Int
    <3> QED BY <1>4, <3>1, <3>3
  <2>2. acc'.requests + Pages(Len(todo)) <= Pages(2 + 3 * PageCap) + cur'.page - 1
    BY <2>1, <2>b
  <2> QED BY <1>5, <1>8, <2>2 DEF CloudflareRequests
<1>9. Len(todo) \in Nat
  OBVIOUS
<1> QED
  BY <1>6, <1>7, <1>8, <1>9 DEF CloudflareRequests

LEMMA CloudflareOpen ==
    ASSUME TypeInv, CloudflareRequests, todo \in Seq(ReadListings(connector)), todo # <<>>,
           NEW got \in Nat, got <= PageCap, Open(CloudflareRest(got)) \/ Open(Tail(todo)),
           acc'.requests \in Int, acc'.requests <= acc.requests + 1, acc'.used <= PageCap
    PROVE  CloudflareRequests'
<1>1. /\ cur.page \in Nat \ {0} /\ acc.requests \in Nat /\ acc.used \in Nat
      /\ PageCap \in Nat \ {0} /\ cur \in CurType /\ cur.page <= PageCap /\ acc.used <= PageCap
  BY ConnectorAssumption DEF TypeInv, CurType, AccOK, CloudflareRequests
<1>2. cur'.page = 1 /\ cur'.got = 0
  BY <1>1, OpenTyped
<1>3. cur'.page <= PageCap /\ cur'.got < cur'.page /\ acc'.used <= PageCap
  BY <1>1, <1>2
<1>c. Root("accounts").module = "accounts" /\ Root("zones").module = "zones"
  BY DEF Root, Of
<1>4. /\ Pages(2 + 3 * PageCap) \in Int /\ 2 * PageCap <= Pages(2 + 3 * PageCap)
      /\ \A n \in Nat : n <= 3 * PageCap =>
             Pages(n) \in Int /\ 2 * PageCap + Pages(n) <= Pages(2 + 3 * PageCap)
  <2>1. \A n \in Nat : Pages(n + 2) = Pages(n) + 2 * PageCap /\ Pages(n) \in Int
    BY PagesNext
  <2>2. \A n \in Nat : n <= 3 * PageCap => Pages(n + 2) <= Pages(2 + 3 * PageCap)
    <3> TAKE n \in Nat
    <3>1. n + 2 \in Int /\ 2 + 3 * PageCap \in Int
      BY <1>1
    <3>2. n <= 3 * PageCap => n + 2 <= 2 + 3 * PageCap
      BY <1>1
    <3> QED BY <3>1, <3>2, PagesCount
  <2>3. Pages(0) = 0
    BY PagesCount
  <2>4. Pages(2 + 3 * PageCap) \in Int
    BY <1>1, PagesCount
  <2>5. \A n \in Nat : n <= 3 * PageCap =>
             Pages(n) \in Int /\ 2 * PageCap + Pages(n) <= Pages(2 + 3 * PageCap)
    <3> TAKE n \in Nat
    <3>1. Pages(n + 2) = Pages(n) + 2 * PageCap /\ Pages(n) \in Int
      BY <2>1
    <3>2. PICK x \in Int : x = Pages(n)
      BY <3>1
    <3>3. n <= 3 * PageCap => x + 2 * PageCap <= Pages(2 + 3 * PageCap)
      BY <2>2, <3>1, <3>2
    <3> QED BY <1>1, <2>4, <3>2, <3>3
  <2>6. 0 \in Nat /\ 0 <= 3 * PageCap
    BY <1>1
  <2>7. 2 * PageCap + Pages(0) <= Pages(2 + 3 * PageCap)
    BY <2>5, <2>6
  <2> QED BY <1>1, <2>3, <2>4, <2>5, <2>7
<1>5. todo' = CloudflareRest(got) \/ todo' = Tail(todo)
  BY DEF Open
<1>6. CASE todo = cloudflare_listings /\ acc.requests <= cur.page - 1
  <2>1. Here.module # "zones" /\ Tail(todo) = <<Root("zones")>>
    BY <1>6, <1>c DEF cloudflare_listings, Here
  <2>2. todo' = <<Root("zones")>>
    BY <1>5, <2>1 DEF CloudflareRest
  <2>3. acc'.requests <= PageCap + cur'.page - 1
    BY <1>1, <1>2, <1>6
  <2> QED BY <1>3, <2>2, <2>3 DEF CloudflareRequests
<1>7. CASE todo = <<Root("zones")>> /\ acc.requests <= PageCap + cur.page - 1
  <2>1. acc'.requests <= 2 * PageCap
    <3>1. PICK q \in Int, a \in Nat, g \in Nat, c \in Nat :
             q = acc'.requests /\ a = acc.requests /\ g = cur.page /\ c = PageCap
      BY <1>1
    <3>2. q <= a + 1 /\ a <= c + g - 1 /\ g <= c
      BY <1>1, <1>7, <3>1
    <3>3. q <= 2 * c
      BY ONLY <3>2, q \in Int, a \in Nat, g \in Nat, c \in Nat
    <3> QED BY <3>1, <3>3
  <2>d. acc'.requests <= Pages(2 + 3 * PageCap)
    <3>1. PICK q \in Int, m \in Int, y \in Int :
             q = acc'.requests /\ m = 2 * PageCap /\ y = Pages(2 + 3 * PageCap)
      <4>1. PageCap \in Nat
        BY <1>1
      <4>2. 2 * PageCap \in Int
        BY ONLY <4>1
      <4>3. Pages(2 + 3 * PageCap) \in Int
        BY <1>4
      <4> QED BY <4>2, <4>3
    <3>2. q <= m /\ m <= y
      BY <1>4, <2>1, <3>1
    <3>3. q <= y
      BY ONLY <3>2, q \in Int, m \in Int, y \in Int
    <3> QED BY <3>1, <3>3
  <2>2. CASE todo' = Tail(todo)
    <3>1. todo' = <<>>
      BY <1>7, <2>2
    <3>2. acc'.requests <= Pages(2 + 3 * PageCap)
      BY <2>d
    <3> QED BY <1>3, <3>1, <3>2 DEF CloudflareRequests
  <2>3. CASE todo' = cloudflare_children(acc.used, got)
    <3>1. PICK c : c = cloudflare_children(acc.used, got)
      OBVIOUS
    <3>2. /\ Len(c) = got + acc.used + acc.used
          /\ \A i \in 1 .. Len(c) : c[i].module \notin {"accounts", "zones"}
      BY <1>1, <3>1, CloudflareChildrenOf
    <3>3. Len(c) \in Nat /\ Len(c) <= 3 * PageCap
      <4>1. PICK u \in Nat, m \in Nat : u = acc.used /\ m = PageCap /\ u <= m /\ got <= m
        BY <1>1
      <4>2. got + u + u \in Nat /\ got + u <= m + m
        BY ONLY <4>1, u \in Nat, m \in Nat, got \in Nat
      <4>3. got + u + u <= 3 * m
        BY ONLY <4>1, <4>2, u \in Nat, m \in Nat, got \in Nat
      <4> QED BY <3>2, <4>1, <4>2, <4>3
    <3>4. acc'.requests + Pages(Len(c)) <= Pages(2 + 3 * PageCap)
      <4>1. PICK x \in Int, y \in Int : x = Pages(Len(c)) /\ y = Pages(2 + 3 * PageCap)
        BY <1>4, <3>3
      <4>2. 2 * PageCap + x <= y
        BY <1>4, <3>3, <4>1
      <4>3. acc'.requests + x <= y
        <5>1. PICK q \in Int, m \in Nat : q = acc'.requests /\ m = 2 * PageCap
          BY <1>1
        <5>2. q <= m /\ m + x <= y
          BY <2>1, <4>2, <5>1
        <5>3. q + x <= y
          BY ONLY <5>2, q \in Int, m \in Nat, x \in Int, y \in Int
        <5> QED BY <5>1, <5>3
      <4> QED BY <4>1, <4>3
    <3>5. acc'.requests <= Pages(2 + 3 * PageCap)
      BY <2>d
    <3>6. acc'.requests + Pages(Len(todo')) <= Pages(2 + 3 * PageCap) + cur'.page - 1
      BY <1>1, <1>2, <1>4, <2>3, <3>1, <3>3, <3>4
    <3> QED BY <1>3, <2>3, <3>1, <3>2, <3>5, <3>6 DEF CloudflareRequests
  <2>4. Here.module = "zones"
    BY <1>7, <1>c DEF Here
  <2> QED BY <1>5, <2>2, <2>3, <2>4 DEF CloudflareRest
<1>8. CASE /\ acc.requests + Pages(Len(todo)) <= Pages(2 + 3 * PageCap) + cur.page - 1
           /\ \A i \in 1 .. Len(todo) : todo[i].module \notin {"accounts", "zones"}
  <2>1. todo' = Tail(todo)
    BY <1>5, <1>8, TailOf DEF CloudflareRest, Here
  <2>2. PICK n \in Nat : Len(todo) = n + 1 /\ Len(todo') = n
    <3>1. Len(todo) \in Nat \ {0} /\ Len(todo') = Len(todo) - 1
      BY <2>1, TailOf
    <3>2. Len(todo') \in Nat /\ Len(todo) = Len(todo') + 1
      BY <3>1
    <3> QED BY <3>2
  <2>3. \A i \in 1 .. Len(todo') : todo'[i].module \notin {"accounts", "zones"}
    BY <1>8, <2>1, TailOf
  <2>4. Pages(n + 1) = Pages(n) + PageCap /\ Pages(n) \in Int
    BY PagesNext
  <2>5. acc'.requests + Pages(n) <= Pages(2 + 3 * PageCap)
    <3>1. PICK x \in Int, y \in Int : x = Pages(n) /\ y = Pages(2 + 3 * PageCap)
      BY <1>4, <2>4
    <3>2. acc.requests + x + PageCap <= y + cur.page - 1
      <4>1. acc.requests + Pages(n + 1) <= y + cur.page - 1
        BY <1>8, <2>2, <3>1
      <4>2. Pages(n + 1) = x + PageCap
        BY <2>4, <3>1
      <4> QED BY <1>1, <4>1, <4>2
    <3>3. acc'.requests + x <= y
      <4>1. PICK q \in Int, a \in Nat, g \in Nat :
               q = acc'.requests /\ a = acc.requests /\ g = cur.page
        BY <1>1
      <4>2. q <= a + 1 /\ g <= PageCap /\ a + x + PageCap <= y + g - 1
        BY <1>1, <3>2, <4>1
      <4>3. PageCap \in Nat
        BY <1>1
      <4>4. q + x <= y
        BY ONLY <4>2, <4>3, q \in Int, a \in Nat, g \in Nat, x \in Int, y \in Int
      <4> QED BY <4>1, <4>4
    <3> QED BY <3>1, <3>3
  <2>6. acc'.requests + Pages(Len(todo')) <= Pages(2 + 3 * PageCap) + cur'.page - 1
    BY <1>1, <1>2, <1>4, <2>2, <2>4, <2>5
  <2>7. CASE todo' # <<>>
    BY <1>3, <2>3, <2>6, <2>7 DEF CloudflareRequests
  <2>8. CASE todo' = <<>>
    <3>1. n = 0
      BY <2>2, <2>8
    <3>2. acc'.requests <= Pages(2 + 3 * PageCap)
      <4>1. Pages(n) = 0
        BY <3>1, PagesCount
      <4>2. acc'.requests + 0 <= Pages(2 + 3 * PageCap)
        BY <2>5, <4>1
      <4> QED BY <4>2
    <3> QED BY <1>3, <2>8, <3>2 DEF CloudflareRequests
  <2> QED BY <2>7, <2>8
<1> QED
  BY <1>6, <1>7, <1>8 DEF CloudflareRequests

LEMMA CloudflareBound ==
    ASSUME TypeInv, CloudflareRequests, todo \in Seq(ReadListings(connector))
    PROVE  acc.requests <= Pages(2 + 3 * PageCap)
<1>1. /\ cur.page \in Nat \ {0} /\ acc.requests \in Nat /\ PageCap \in Nat \ {0}
      /\ cur.page <= PageCap
  BY ConnectorAssumption DEF TypeInv, CurType, AccOK, CloudflareRequests
<1>2. PICK y \in Int : y = Pages(2 + 3 * PageCap) /\ 2 * PageCap <= y
  <2>1. 2 \in Int /\ 2 + 3 * PageCap \in Int /\ 2 <= 2 + 3 * PageCap
    BY <1>1
  <2>2. Pages(2) <= Pages(2 + 3 * PageCap) /\ Pages(2 + 3 * PageCap) \in Int
    BY <2>1, PagesCount
  <2>3. Pages(2) = 2 * PageCap
    BY <1>1 DEF Pages
  <2> QED BY <2>2, <2>3
<1>3. CASE acc.requests <= PageCap + cur.page - 1
  BY <1>1, <1>2, <1>3
<1>4. CASE todo # <<>> /\ acc.requests + Pages(Len(todo)) <= Pages(2 + 3 * PageCap) + cur.page - 1
  <2>1. 1 \in Int /\ Len(todo) \in Int /\ 1 <= Len(todo)
    BY <1>4, TailOf
  <2>2. Pages(1) <= Pages(Len(todo)) /\ Pages(Len(todo)) \in Int /\ Pages(1) = PageCap
    BY <2>1, PagesCount
  <2>3. PICK x \in Int : x = Pages(Len(todo))
    BY <2>2
  <2>4. PageCap <= x /\ acc.requests + x <= y + cur.page - 1
    BY <1>2, <1>4, <2>2, <2>3
  <2> QED BY <1>1, <1>2, <2>4
<1> QED
  BY <1>1, <1>3, <1>4 DEF CloudflareRequests

LEMMA CloudflareRequestsStep ==
    ASSUME TypeInv, KindsInv, CloudflareRequests,
           (\E reply \in PlatformFaults \cup {"page"} : cloudflare_fetch(reply)) \/ CloudflareFinish
    PROVE  CloudflareRequests'
<1>a. /\ acc.requests \in Nat /\ acc.used \in Nat /\ DOMAIN acc = AccFields /\ PageCap \in Nat \ {0}
      /\ cur \in CurType /\ cur.page \in Nat \ {0} /\ cur.got \in Nat
  BY ConnectorAssumption DEF TypeInv, AccOK, CurType
<1>b. todo \in Seq(ReadListings(connector)) /\ Len(todo) \in Nat
  BY DEF KindsInv
<1>c. cur.page <= PageCap /\ cur.got < cur.page /\ acc.used <= PageCap
  BY DEF CloudflareRequests
<1>1. ASSUME NEW reply \in PlatformFaults \cup {"page"}, cloudflare_fetch(reply)
      PROVE  CloudflareRequests'
  <2>0. todo # <<>>
    BY <1>1, CloudflareCases
  <2>g. PICK got \in Nat : got = cur.got + Items /\ got <= PageCap
    <3>1. PICK g \in Nat, i \in {0, 1} : g = cur.got /\ i = Items
      BY <1>a, ItemsTyped
    <3>2. g + i \in Nat /\ g + i <= PageCap
      BY <1>a, <1>c, <3>1
    <3> QED BY <3>1, <3>2
  <2>1. CASE /\ cur' = [cur EXCEPT !.page = @ + 1, !.got = cur.got + Items]
             /\ \E bad : acc' = [acc EXCEPT !.requests = @ + 1, !.bad = bad]
             /\ cur.page < page_count(reply)
             /\ todo' = todo
    <3>1. acc'.requests = acc.requests + 1 /\ acc'.used = acc.used
      BY <1>a, <2>1 DEF AccFields
    <3>2. cur.size \in Nat
      BY <1>a DEF CurType
    <3>3. page_count(reply) \in Nat /\ page_count(reply) <= PageCap
      BY <1>a, <3>2 DEF page_count
    <3>4. cur.page < PageCap
      BY <1>a, <2>1, <3>3
    <3> QED BY <1>b, <2>0, <2>1, <3>1, <3>4, CloudflareNext
  <2>2. CASE CloudflareMerge(cur.got + Items, reply)
    <3>1. CloudflareMerge(got, reply)
      BY <2>2, <2>g
    <3>2. acc'.requests = acc.requests + 1
      BY <1>a, <3>1 DEF CloudflareMerge, AccFields
    <3>3. acc'.used = IF Here.module = "accounts" THEN got ELSE acc.used
      BY <1>a, <3>1 DEF CloudflareMerge, AccFields
    <3>4. acc'.used <= PageCap
      BY <1>c, <2>g, <3>3
    <3>5. Open(CloudflareRest(got))
      BY <3>1 DEF CloudflareMerge, CloudflareRest
    <3>6. acc'.requests \in Int /\ acc'.requests <= acc.requests + 1
      BY <1>a, <3>2
    <3> QED BY <1>b, <2>0, <2>g, <3>4, <3>5, <3>6, CloudflareOpen
  <2>3. CASE (\E code \in PlatformFaults : Fatal(code)) /\ acc' = acc
    <3>1. todo' = <<>> /\ cur'.page = 1 /\ cur'.got = 0
      <4>1. todo' = <<>> /\ cur' \in Fresh(<<>>)
        BY <2>3 DEF Fatal
      <4> QED BY <1>a, <4>1, FreshTyped
    <3>2. acc.requests <= Pages(2 + 3 * PageCap)
      BY <1>b, CloudflareBound
    <3> QED BY <1>a, <1>c, <2>3, <3>1, <3>2 DEF CloudflareRequests
  <2>4. CASE /\ \/ /\ \E bad : acc' = [acc EXCEPT !.requests = @ + 1, !.bad = bad]
                   /\ Left({Here}, "refused")
                \/ \E f \in PlatformFaults \cup {acc.failure} :
                      /\ \E bad : acc' = [acc EXCEPT !.requests = @ + 1, !.failure = f,
                                                     !.bad = bad]
                      /\ acc.failure = "none" => f # "none"
                      /\ Left({Here}, "failed")
             /\ Open(Tail(todo))
    <3>1. acc'.requests = acc.requests + 1 /\ acc'.used = acc.used
      BY <1>a, <2>4 DEF AccFields
    <3>2. acc'.requests \in Int /\ acc'.requests <= acc.requests + 1 /\ acc'.used <= PageCap
      BY <1>a, <1>c, <3>1
    <3> QED BY <1>b, <2>0, <2>4, <2>g, <3>2, CloudflareOpen
  <2> QED BY <1>1, <2>1, <2>2, <2>3, <2>4, CloudflareCases, ZenonT(60)
<1>2. CASE CloudflareFinish
  BY <1>2 DEF CloudflareFinish, CloudflareRequests, Pages
<1> QED
  BY <1>1, <1>2

\* The two Supabase connectors.
ManagedRequests == acc.requests + Len(todo) <= 2
SelfHostedRequests == acc.requests <= 1

LEMMA ManagedRequestsStep ==
    ASSUME TypeInv, KindsInv, ManagedRequests,
           (\E reply : supabase_managed_get(reply)) \/ SupabaseManagedFinish
    PROVE  ManagedRequests'
<1>a. acc.requests \in Nat /\ DOMAIN acc = AccFields
  BY DEF TypeInv, AccOK
<1>b. todo \in Seq(ReadListings(connector)) /\ Len(todo) \in Nat
  BY DEF KindsInv
<1>1. ASSUME NEW reply, supabase_managed_get(reply) PROVE ManagedRequests'
  <2>1. CASE reply \in {"auth", "unavailable"} /\ Fatal(reply) /\ acc' = acc
    BY <1>a, <1>b, <2>1 DEF Fatal, ManagedRequests
  <2>2. CASE /\ \E found, bad :
                   /\ acc' = [acc EXCEPT !.found = found, !.requests = @ + 1, !.bad = bad]
                   /\ found \in {acc.found, acc.found \cup {Here}}
             /\ Open(Tail(todo)) /\ out' = out
    <3>1. acc'.requests = acc.requests + 1
      BY <1>a, <2>2 DEF AccFields
    <3>2. todo # <<>> /\ todo' = Tail(todo)
      BY <1>1, <2>2, ManagedCases DEF Open
    <3>3. Len(todo') = Len(todo) - 1
      BY <1>b, <3>2, TailOf
    <3> QED BY <1>a, <1>b, <3>1, <3>3 DEF ManagedRequests
  <2> QED BY <1>1, <2>1, <2>2, ManagedCases, Zenon
<1>2. CASE SupabaseManagedFinish
  BY <1>2 DEF SupabaseManagedFinish, ManagedRequests
<1> QED
  BY <1>1, <1>2

LEMMA SelfHostedRequestsStep ==
    ASSUME TypeInv, SelfHostedRequests, NEW reply, supabase_self_hosted_sync(reply)
    PROVE  SelfHostedRequests'
<1>a. acc.requests \in Nat /\ DOMAIN acc = AccFields
  BY DEF TypeInv, AccOK
<1>1. acc'.requests = acc.requests \/ acc'.requests = 1
  BY <1>a DEF supabase_self_hosted_sync, AccFields
<1> QED
  BY <1>a, <1>1 DEF SelfHostedRequests

\* The clouds.  What a listing of records can take: its pages for Aliyun, and
\* for Tencent, where they are paid from another account, the last one.
RecordWeight(n) == IF connector = "aliyun" THEN Pages(n) ELSE n
\* What Tencent pays them from: the records that were read, and the replies
\* with a record that could not be mapped.
Paid == IF connector = "aliyun" THEN 0 ELSE acc.used + faults

\* The requests that the current listing may have taken.
ByRecords == connector = "tencent" /\ todo # <<>> /\ Here.module = "records"
Turns == IF ByRecords THEN cur.retries ELSE 3 * (cur.page - 1) + cur.retries

\* k listings of records are first, and if the domains are still to be read,
\* d is left for the records of each.
Shape(k, d) ==
    /\ \A i \in 1 .. Len(todo) : todo[i].module = "records" <=> i <= k
    /\ \A i \in 1 .. Len(todo) : todo[i].module = "domains" =>
          /\ k = 0 /\ d = RecordWeight(DomainCap) /\ acc.used = 0
          /\ \A j \in 1 .. Len(todo) : todo[j].module = "domains" => j = i

CloudRequests ==
    /\ acc.used <= RecordCap /\ cur.retries <= 2
    /\ todo = <<>> => cur.page = 1 /\ cur.retries = 0
    /\ ~ByRecords => /\ cur.page <= PageCap + 1
                     /\ cur.page = PageCap + 1 => cur.retries = 0
    /\ \E k \in 0 .. Len(todo), d \in {0, RecordWeight(DomainCap)} :
          /\ Shape(k, d)
          /\ acc.requests + 3 * (Pages(Len(todo) - k) + RecordWeight(k) + d)
               <= 3 * (Pages(7) + RecordWeight(DomainCap) + Paid) + Turns

LEMMA RecordWeights ==
    ASSUME NEW n \in Nat
    PROVE  /\ RecordWeight(n) \in Int /\ RecordWeight(n + 1) = RecordWeight(n) + RecordWeight(1)
           /\ RecordWeight(1) \in Nat \ {0} /\ RecordWeight(0) = 0 /\ RecordWeight(n) >= 0
           /\ n <= DomainCap => RecordWeight(n) <= RecordWeight(DomainCap)
           /\ RecordWeight(1) <= PageCap /\ (~(connector = "aliyun") => RecordWeight(1) = 1)
           /\ connector = "aliyun" => RecordWeight(1) = PageCap
<1>1. PageCap \in Nat \ {0} /\ DomainCap \in Nat \ {0}
  BY ConnectorAssumption
<1>2. CASE connector = "aliyun"
  <2>1. \A m : RecordWeight(m) = Pages(m)
    BY <1>2 DEF RecordWeight
  <2>2. Pages(n) \in Int /\ Pages(n + 1) = Pages(n) + PageCap /\ Pages(1) = PageCap /\ Pages(0) = 0
    BY PagesNext, PagesCount
  <2>3. n <= DomainCap => Pages(n) <= Pages(DomainCap)
    BY <1>1, PagesCount
  <2>4. Pages(0) <= Pages(n)
    BY PagesCount
  <2> QED BY <1>1, <1>2, <2>1, <2>2, <2>3, <2>4
<1>3. CASE connector # "aliyun"
  BY <1>1, <1>3 DEF RecordWeight
<1> QED BY <1>2, <1>3

\* What the current listing may have taken is within its weight, and within it
\* by one as long as another page may be asked for.
LEMMA TurnsWithin ==
    ASSUME TypeInv, connector \in Clouds, CloudRequests, todo # <<>>
    PROVE  LET w == IF Here.module = "records" THEN RecordWeight(1) ELSE PageCap
           IN  Turns \in Nat /\ Turns <= 3 * w /\ (~Spent => Turns + 1 <= 3 * w)
<1>1. /\ cur.page \in Nat \ {0} /\ cur.retries \in Nat /\ PageCap \in Nat \ {0}
  BY ConnectorAssumption DEF TypeInv, CurType
<1>2. cur.retries <= 2
  BY DEF CloudRequests
<1>3. CASE ByRecords
  <2>1. connector # "aliyun" /\ Here.module = "records"
    BY <1>3 DEF ByRecords
  <2>2. RecordWeight(1) = 1
    BY <2>1 DEF RecordWeight
  <2> QED BY <1>1, <1>2, <1>3, <2>1, <2>2 DEF Turns
<1>4. CASE ~ByRecords
  <2>1. /\ cur.page <= PageCap + 1
        /\ cur.page = PageCap + 1 => cur.retries = 0
    BY <1>4 DEF CloudRequests
  <2>2. PICK w : w = IF Here.module = "records" THEN RecordWeight(1) ELSE PageCap
    OBVIOUS
  <2>3. w = PageCap
    <3>1. CASE Here.module = "records"
      <4>1. connector = "aliyun"
        BY <1>4, <3>1 DEF ByRecords, Clouds
      <4>2. RecordWeight(1) = PageCap
        BY <4>1, PagesCount DEF RecordWeight
      <4> QED BY <2>2, <3>1, <4>2
    <3> QED BY <2>2, <3>1
  <2>4. ~Spent => cur.page <= PageCap
    <3>1. cur.page > PageCap => Spent
      <4>1. CASE Here.module = "records"
        BY <1>4, <4>1 DEF Spent, AliyunRecordsSpent, ByRecords, Clouds
      <4>2. CASE Here.module # "records"
        BY <4>2 DEF Spent, ModuleSpent, DomainsSpent
      <4> QED BY <4>1, <4>2
    <3> QED BY <1>1, <3>1
  <2>5. Turns = 3 * (cur.page - 1) + cur.retries
    BY <1>4 DEF Turns
  <2>6. Turns \in Nat /\ Turns <= 3 * PageCap /\ (cur.page <= PageCap => Turns + 1 <= 3 * PageCap)
    <3>1. PICK g \in Nat \ {0}, h \in Nat, c \in Nat :
             g = cur.page /\ h = cur.retries /\ c = PageCap
      BY <1>1
    <3>2. h <= 2 /\ g <= c + 1 /\ (g = c + 1 => h = 0)
      BY <1>2, <2>1, <3>1
    <3>3. /\ 3 * (g - 1) + h \in Nat /\ 3 * (g - 1) + h <= 3 * c
          /\ g <= c => 3 * (g - 1) + h + 1 <= 3 * c
      BY ONLY <3>2, g \in Nat \ {0}, h \in Nat, c \in Nat
    <3> QED BY <2>5, <3>1, <3>3
  <2>7. ~Spent => Turns + 1 <= 3 * PageCap
    BY <2>4, <2>6
  <2> QED BY <2>2, <2>3, <2>6, <2>7
<1> QED BY <1>3, <1>4

\* The bound on the requests of a cloud.
CloudLimit == 3 * (Pages(7) + RecordWeight(DomainCap) + Paid)

LEMMA LimitTyped ==
    ASSUME TypeInv
    PROVE  /\ Pages(7) \in Int /\ RecordWeight(DomainCap) \in Int /\ RecordWeight(DomainCap) >= 0
           /\ Paid \in Nat /\ CloudLimit \in Int
<1>1. acc.used \in Nat /\ faults \in Nat /\ DomainCap \in Nat
  BY ConnectorAssumption DEF TypeInv, AccOK
<1>2. Pages(7) \in Int
  BY PagesCount
<1>3. RecordWeight(DomainCap) \in Int /\ RecordWeight(DomainCap) >= 0
  BY <1>1, RecordWeights
<1>4. Paid \in Nat
  BY <1>1 DEF Paid
<1> QED
  BY <1>2, <1>3, <1>4 DEF CloudLimit

\* The weight of the listings is the sum of their weights.
LEMMA FirstWeight ==
    ASSUME NEW n \in Nat \ {0}, NEW k \in 0 .. n
    PROVE  /\ k = 0 => Pages(n - k) = Pages(n - 1) + PageCap /\ Pages(n - 1) \in Int
           /\ k > 0 => /\ Pages(n - k) = Pages((n - 1) - (k - 1)) /\ Pages(n - k) \in Int
                       /\ RecordWeight(k) = RecordWeight(k - 1) + RecordWeight(1)
                       /\ RecordWeight(k - 1) \in Int
<1>1. n - 1 \in Nat /\ (n - 1) + 1 = n /\ n - 0 = n
  OBVIOUS
<1>2. CASE k = 0
  <2>1. Pages((n - 1) + 1) = Pages(n - 1) + PageCap /\ Pages(n - 1) \in Int
    BY <1>1, PagesNext
  <2> QED BY <1>1, <1>2, <2>1
<1>3. CASE k > 0
  <2>1. PICK j \in Nat : k = j + 1 /\ k - 1 = j
    <3>1. k - 1 \in Nat /\ k = (k - 1) + 1
      BY <1>3
    <3> QED BY <3>1
  <2>2. n - k = (n - 1) - (k - 1) /\ n - k \in Nat
    OBVIOUS
  <2>3. Pages(n - k) \in Int
    BY <2>2, PagesNext
  <2>4. RecordWeight(j + 1) = RecordWeight(j) + RecordWeight(1) /\ RecordWeight(j) \in Int
    BY RecordWeights
  <2> QED BY <1>3, <2>1, <2>2, <2>3, <2>4
<1> QED BY <1>2, <1>3

\* The next listing is opened.
LEMMA CloudTail ==
    ASSUME TypeInv, TypeInv', connector \in Clouds, connector' = connector, CloudRequests,
           todo \in Seq(ReadListings(connector)), todo # <<>>, Open(Tail(todo)),
           acc'.requests = acc.requests \/ (acc'.requests <= acc.requests + 1 /\ ~Spent),
           acc'.used >= acc.used, acc'.used <= RecordCap, faults' >= faults,
           acc'.used = acc.used \/ Here.module = "records"
    PROVE  CloudRequests'
<1>a. /\ acc.requests \in Nat /\ acc.used \in Nat /\ faults \in Nat /\ cur \in CurType
      /\ acc'.requests \in Nat /\ acc'.used \in Nat /\ faults' \in Nat /\ PageCap \in Nat \ {0}
      /\ DomainCap \in Nat
  BY ConnectorAssumption DEF TypeInv, AccOK
<1>b. /\ todo' = Tail(todo) /\ Len(todo) \in Nat \ {0} /\ Len(todo') = Len(todo) - 1
      /\ \A i \in 1 .. Len(todo') : i + 1 \in 1 .. Len(todo) /\ todo'[i] = todo[i + 1]
      /\ Here = todo[1] /\ 1 \in 1 .. Len(todo)
  BY TailOf DEF Open, Here
<1>c. cur'.page = 1 /\ cur'.retries = 0
  BY <1>a, OpenTyped
<1>d. Turns' = 0
  BY <1>c DEF Turns
<1>1. PICK k \in 0 .. Len(todo), d \in {0, RecordWeight(DomainCap)} :
          /\ Shape(k, d)
          /\ acc.requests + 3 * (Pages(Len(todo) - k) + RecordWeight(k) + d)
               <= 3 * (Pages(7) + RecordWeight(DomainCap) + Paid) + Turns
  BY DEF CloudRequests
<1>2. Here.module = "records" <=> k > 0
  <2>1. todo[1].module = "records" <=> 1 <= k
    BY <1>1, <1>b DEF Shape
  <2> QED BY <1>b, <2>1
<1>3. PICK j \in 0 .. Len(todo') : j = IF k > 0 THEN k - 1 ELSE 0
  <2>1. Len(todo') \in Nat /\ k <= Len(todo)
    BY <1>b
  <2>2. (IF k > 0 THEN k - 1 ELSE 0) \in 0 .. Len(todo')
    BY <1>b, <2>1
  <2> QED BY <2>2
<1>4. PICK q \in Nat, q1 \in Nat : q = Paid /\ q1 = Paid' /\ q <= q1
  BY <1>a DEF Paid
<1>5. \A n : RecordWeight(n)' = RecordWeight(n)
  BY DEF RecordWeight, Pages
<1>6. PICK w : w = IF Here.module = "records" THEN RecordWeight(1) ELSE PageCap
  OBVIOUS
<1>7. w \in Nat /\ Turns \in Nat /\ Turns <= 3 * w /\ (~Spent => Turns + 1 <= 3 * w)
  <2>1. RecordWeight(1) \in Nat
    BY RecordWeights
  <2> QED BY <1>a, <1>6, <2>1, TurnsWithin
<1>8. PICK x \in Int, y \in Int, x1 \in Int, y1 \in Int, d1 \in Int, p \in Int :
          /\ x = Pages(Len(todo) - k) /\ y = RecordWeight(k) /\ d1 = d
          /\ x1 = Pages(Len(todo') - j) /\ y1 = RecordWeight(j)
          /\ p = Pages(7) + RecordWeight(DomainCap)
          /\ x + y = x1 + y1 + w
  <2>0. d \in Int /\ Pages(7) + RecordWeight(DomainCap) \in Int
    BY LimitTyped
  <2>1. CASE k = 0
    <3>1. Pages(Len(todo) - k) = Pages(Len(todo) - 1) + PageCap /\ Pages(Len(todo) - 1) \in Int
      BY <1>b, <2>1, FirstWeight
    <3>2. RecordWeight(0) = 0
      BY RecordWeights
    <3>3. w = PageCap /\ j = 0 /\ Len(todo') - j = Len(todo) - 1
      BY <1>2, <1>3, <1>6, <1>b, <2>1
    <3>4. PICK x1 \in Int, c \in Int : x1 = Pages(Len(todo) - 1) /\ c = PageCap
      BY <1>a, <3>1
    <3>5. x1 + c \in Int /\ (x1 + c) + 0 = x1 + 0 + c
      BY ONLY x1 \in Int, c \in Int
    <3>6. /\ Pages(Len(todo) - k) = x1 + c /\ RecordWeight(k) = 0
          /\ Pages(Len(todo') - j) = x1 /\ RecordWeight(j) = 0 /\ w = c
      BY <2>1, <3>1, <3>2, <3>3, <3>4
    <3> QED BY <2>0, <3>5, <3>6
  <2>2. CASE k > 0
    <3>1. /\ Pages(Len(todo) - k) = Pages((Len(todo) - 1) - (k - 1)) /\ Pages(Len(todo) - k) \in Int
          /\ RecordWeight(k) = RecordWeight(k - 1) + RecordWeight(1)
          /\ RecordWeight(k - 1) \in Int
      BY <1>b, <2>2, FirstWeight
    <3>2. w = RecordWeight(1) /\ j = k - 1 /\ Len(todo') - j = (Len(todo) - 1) - (k - 1)
      BY <1>2, <1>3, <1>6, <1>b, <2>2
    <3>3. PICK x \in Int, y1 \in Int : /\ x = Pages(Len(todo) - k) /\ y1 = RecordWeight(j)
                                      /\ x = Pages(Len(todo') - j) /\ RecordWeight(k) = y1 + w
      BY <3>1, <3>2
    <3>4. y1 + w \in Int /\ x + (y1 + w) = x + y1 + w
      BY <1>7
    <3> QED BY <2>0, <3>3, <3>4
  <2> QED BY <2>1, <2>2
<1>9. acc'.requests + 3 * (x1 + y1 + d1) <= 3 * (p + q1)
  <2>1. acc.requests + 3 * (x + y + d1) <= 3 * (p + q) + Turns
    BY <1>1, <1>4, <1>8
  <2>2. acc'.requests <= acc.requests + 3 * w - Turns
    BY <1>a, <1>7
  <2>3. PICK r \in Int, r1 \in Int, t \in Int :
            r = acc.requests /\ r1 = acc'.requests /\ t = Turns
    BY <1>a, <1>7
  <2>4. /\ r + 3 * (x + y + d1) <= 3 * (p + q) + t
        /\ r1 <= r + 3 * w - t
    BY <2>1, <2>2, <2>3
  <2>5. r1 + 3 * (x1 + y1 + d1) <= 3 * (p + q1)
    <3>1. PICK v \in Int : v = w /\ x + y = x1 + y1 + v
      BY <1>7, <1>8
    <3>2. r + 3 * (x1 + y1 + v + d1) <= 3 * (p + q) + t /\ r1 <= r + 3 * v - t
      <4>1. x + y + d1 = x1 + y1 + v + d1
        BY <3>1
      <4> QED BY <2>4, <3>1, <4>1
    <3>3. q <= q1
      BY <1>4
    <3> QED BY <3>2, <3>3
  <2> QED BY <2>3, <2>5
<1>10. /\ acc'.requests + 3 * (Pages(Len(todo') - j) + RecordWeight(j)' + d)
             <= 3 * (Pages(7) + RecordWeight(DomainCap)' + Paid') + Turns'
  <2>1. acc'.requests + 3 * (Pages(Len(todo') - j) + RecordWeight(j) + d)
           <= 3 * (Pages(7) + RecordWeight(DomainCap) + Paid') + 0
    <3>1. acc'.requests + 3 * (Pages(Len(todo') - j) + RecordWeight(j) + d) <= 3 * (p + q1)
      BY <1>8, <1>9
    <3>2. 3 * (p + q1) + 0 = 3 * (p + q1)
      OBVIOUS
    <3>3. p + q1 = Pages(7) + RecordWeight(DomainCap) + Paid'
      BY <1>4, <1>8
    <3> QED BY <3>1, <3>2, <3>3
  <2> QED BY <1>5, <1>d, <2>1
<1>11. Shape(j, d)'
  <2>1. ASSUME NEW i \in 1 .. Len(todo') PROVE todo'[i].module = "records" <=> i <= j
    <3>1. todo[i + 1].module = "records" <=> i + 1 <= k
      BY <1>1, <1>b DEF Shape
    <3> QED BY <1>3, <1>b, <3>1
  <2>2. ASSUME NEW i \in 1 .. Len(todo'), todo'[i].module = "domains"
        PROVE  /\ j = 0 /\ d = RecordWeight(DomainCap) /\ acc'.used = 0
               /\ \A m \in 1 .. Len(todo') : todo'[m].module = "domains" => m = i
    <3>1. todo[i + 1].module = "domains" /\ i + 1 \in 1 .. Len(todo)
      BY <1>b, <2>2
    <3>2. /\ k = 0 /\ d = RecordWeight(DomainCap) /\ acc.used = 0
          /\ \A m \in 1 .. Len(todo) : todo[m].module = "domains" => m = i + 1
      BY <1>1, <3>1 DEF Shape
    <3>3. acc'.used = 0 /\ j = 0
      BY <1>2, <1>3, <3>2
    <3>4. ASSUME NEW m \in 1 .. Len(todo'), todo'[m].module = "domains" PROVE m = i
      <4>1. m + 1 = i + 1
        BY <1>b, <3>2, <3>4
      <4> QED BY <4>1
    <3> QED BY <3>2, <3>3, <3>4
  <2>3. RecordWeight(DomainCap)' = RecordWeight(DomainCap)
    BY <1>5
  <2> QED BY <2>1, <2>2, <2>3 DEF Shape
<1>12. d \in {0, RecordWeight(DomainCap)'}
  BY <1>5
<1> QED
  <2>1. /\ acc'.used <= RecordCap /\ cur'.retries <= 2
        /\ todo' = <<>> => cur'.page = 1 /\ cur'.retries = 0
        /\ ~ByRecords' => /\ cur'.page <= PageCap + 1
                          /\ cur'.page = PageCap + 1 => cur'.retries = 0
    BY <1>a, <1>c
  <2>2. Pages(7)' = Pages(7) /\ Pages(Len(todo) - j)' = Pages(Len(todo') - j)
    BY DEF Pages
  <2> QED BY <1>10, <1>11, <1>12, <2>1, <2>2 DEF CloudRequests

\* The listing goes on: with a retry, or with its next page.
LEMMA CloudStay ==
    ASSUME TypeInv, TypeInv', connector \in Clouds, connector' = connector, CloudRequests,
           todo \in Seq(ReadListings(connector)), todo # <<>>, todo' = todo,
           acc'.used <= RecordCap, acc'.used = acc.used \/ Here.module = "records",
           cur'.retries <= 2,
           ~ByRecords => cur'.page <= PageCap + 1 /\ (cur'.page = PageCap + 1 => cur'.retries = 0),
           acc'.requests + Turns + 3 * Paid <= acc.requests + Turns' + 3 * Paid'
    PROVE  CloudRequests'
<1>a. /\ acc.requests \in Nat /\ acc.used \in Nat /\ faults \in Nat /\ cur \in CurType
      /\ acc'.requests \in Nat /\ acc'.used \in Nat /\ faults' \in Nat /\ cur' \in CurType
      /\ DomainCap \in Nat
  BY ConnectorAssumption DEF TypeInv, AccOK
<1>b. Len(todo) \in Nat \ {0} /\ Here = todo[1] /\ 1 \in 1 .. Len(todo)
  BY TailOf DEF Here
<1>1. PICK k \in 0 .. Len(todo), d \in {0, RecordWeight(DomainCap)} :
          /\ Shape(k, d)
          /\ acc.requests + 3 * (Pages(Len(todo) - k) + RecordWeight(k) + d)
               <= 3 * (Pages(7) + RecordWeight(DomainCap) + Paid) + Turns
  BY DEF CloudRequests
<1>2. /\ \A n : RecordWeight(n)' = RecordWeight(n)
      /\ \A n : Pages(n)' = Pages(n)
      /\ ByRecords' <=> ByRecords
  BY DEF RecordWeight, Pages, ByRecords, Here
<1>3. Shape(k, d)'
  <2>1. ASSUME NEW i \in 1 .. Len(todo), todo[i].module = "domains" PROVE acc'.used = 0
    <3>1. k = 0 /\ acc.used = 0
      BY <1>1, <2>1 DEF Shape
    <3>2. Here.module # "records"
      BY <1>1, <1>b, <3>1 DEF Shape
    <3> QED BY <3>1, <3>2
  <2> QED BY <1>1, <1>2, <2>1 DEF Shape
<1>4. Turns \in Int /\ Turns' \in Int /\ Paid \in Int /\ Paid' \in Int
  <2>1. /\ cur.page \in Nat /\ cur.retries \in Nat /\ cur'.page \in Nat /\ cur'.retries \in Nat
    BY <1>a DEF CurType
  <2>2. Turns \in {cur.retries, 3 * (cur.page - 1) + cur.retries}
    BY DEF Turns
  <2>3. Turns' \in {cur'.retries, 3 * (cur'.page - 1) + cur'.retries}
    BY DEF Turns
  <2>4. Paid \in {0, acc.used + faults} /\ Paid' \in {0, acc'.used + faults'}
    BY DEF Paid
  <2>5. 3 * (cur.page - 1) + cur.retries \in Int /\ cur.retries \in Int
    BY <2>1
  <2>6. 3 * (cur'.page - 1) + cur'.retries \in Int /\ cur'.retries \in Int
    BY <2>1
  <2>7. acc.used + faults \in Int /\ acc'.used + faults' \in Int
    BY <1>a
  <2>8. Turns \in Int
    BY ONLY <2>2, <2>5
  <2>9. Turns' \in Int
    BY ONLY <2>3, <2>6
  <2>10. Paid \in Int /\ Paid' \in Int
    BY ONLY <2>4, <2>7
  <2> QED BY <2>8, <2>9, <2>10
<1>5. PICK x \in Int, y \in Int : /\ x = Pages(Len(todo) - k) + RecordWeight(k) + d
                                  /\ y = Pages(7) + RecordWeight(DomainCap)
  <2>1. Len(todo) - k \in Nat /\ k \in Nat
    BY <1>b
  <2>2. Pages(Len(todo) - k) \in Int /\ RecordWeight(k) \in Int
    BY <2>1, PagesNext, RecordWeights
  <2>3. d \in Int /\ Pages(7) \in Int /\ RecordWeight(DomainCap) \in Int
    BY LimitTyped
  <2> QED BY <2>2, <2>3
<1>6. PICK r \in Int, r1 \in Int, t \in Int, t1 \in Int, q \in Int, q1 \in Int :
          /\ r = acc.requests /\ r1 = acc'.requests /\ t = Turns /\ t1 = Turns'
          /\ q = Paid /\ q1 = Paid'
  <2>1. acc.requests \in Int /\ acc'.requests \in Int
    BY <1>a
  <2> QED BY ONLY <1>4, <2>1
<1>7. r + 3 * x <= 3 * (y + q) + t /\ r1 + t + 3 * q <= r + t1 + 3 * q1
  BY <1>1, <1>5, <1>6
<1>8. r1 + 3 * x <= 3 * (y + q1) + t1
  BY ONLY <1>7, r \in Int, r1 \in Int, t \in Int, t1 \in Int, q \in Int, q1 \in Int,
          x \in Int, y \in Int
<1>9. acc'.requests + 3 * (Pages(Len(todo) - k) + RecordWeight(k) + d)
        <= 3 * (Pages(7) + RecordWeight(DomainCap) + Paid') + Turns'
  BY <1>5, <1>6, <1>8
<1>10. /\ k \in 0 .. Len(todo') /\ d \in {0, RecordWeight(DomainCap)'}
       /\ Shape(k, d)'
       /\ acc'.requests + 3 * ((Pages(Len(todo) - k) + RecordWeight(k) + d)')
            <= 3 * ((Pages(7) + RecordWeight(DomainCap) + Paid)') + Turns'
  <2>1. (Pages(Len(todo) - k) + RecordWeight(k) + d)' = Pages(Len(todo) - k) + RecordWeight(k) + d
    BY DEF RecordWeight, Pages
  <2>2. (Pages(7) + RecordWeight(DomainCap) + Paid)' = Pages(7) + RecordWeight(DomainCap) + Paid'
    BY DEF RecordWeight, Pages
  <2>3. RecordWeight(DomainCap)' = RecordWeight(DomainCap)
    BY DEF RecordWeight, Pages
  <2> QED BY <1>3, <1>9, <2>1, <2>2, <2>3
<1>11. /\ acc'.used <= RecordCap /\ cur'.retries <= 2
       /\ todo' = <<>> => cur'.page = 1 /\ cur'.retries = 0
       /\ ~ByRecords' => /\ cur'.page <= PageCap + 1
                         /\ cur'.page = PageCap + 1 => cur'.retries = 0
  BY <1>2
<1> QED
  BY <1>10, <1>11 DEF CloudRequests

LEMMA CloudRetry ==
    ASSUME TypeInv, connector \in Clouds, CloudRequests, NEW reply, RetryList(reply),
           todo \in Seq(ReadListings(connector)), todo # <<>>
    PROVE  CloudRequests'
<1>a. /\ acc.requests \in Nat /\ acc.used \in Nat /\ faults \in Nat /\ PageCap \in Nat
      /\ cur.page \in Nat /\ cur.retries \in Nat
  BY ConnectorAssumption DEF TypeInv, AccOK, CurType
<1>1. /\ TypeInv' /\ acc'.requests = acc.requests + 1 /\ acc'.used = acc.used
      /\ cur'.page = cur.page /\ cur'.retries = cur.retries + 1
  BY RetryTyped
<1>2. /\ connector' = connector /\ todo' = todo /\ ~Spent /\ cur.retries < 2 /\ Reply(reply)
  BY DEF RetryList, request
<1>3. faults' \in Nat /\ faults' >= faults
  BY <1>a, <1>2, ReplyTyped
<1>4. acc'.used <= RecordCap
  BY <1>1 DEF CloudRequests
<1>5. ~ByRecords => cur.page <= PageCap
  BY <1>a, <1>2 DEF Spent, ModuleSpent, DomainsSpent, AliyunRecordsSpent, ByRecords, Clouds
<1>6. Paid' \in Nat /\ Paid \in Nat /\ Paid' >= Paid
  <2>1. PICK u \in Nat, f \in Nat, f1 \in Nat :
           u = acc.used /\ u = acc'.used /\ f = faults /\ f1 = faults' /\ f1 >= f
    BY <1>a, <1>1, <1>3
  <2>2. u + f \in Nat /\ u + f1 \in Nat /\ u + f1 >= u + f
    BY ONLY <2>1, u \in Nat, f \in Nat, f1 \in Nat
  <2>3. \/ Paid = 0 /\ Paid' = 0
        \/ Paid = u + f /\ Paid' = u + f1
    BY <1>2, <2>1 DEF Paid
  <2> QED BY <2>2, <2>3
<1>7. Turns \in Int /\ Turns' = Turns + 1
  <2>1. ByRecords' <=> ByRecords
    BY <1>2 DEF ByRecords, Here
  <2>2. CASE ByRecords
    <3>1. Turns = cur.retries /\ Turns' = cur'.retries
      BY <2>1, <2>2 DEF Turns
    <3> QED BY <1>a, <1>1, <3>1
  <2>3. CASE ~ByRecords
    <3>1. /\ Turns = 3 * (cur.page - 1) + cur.retries
          /\ Turns' = 3 * (cur'.page - 1) + cur'.retries
      BY <2>1, <2>3 DEF Turns
    <3>2. PICK page \in Int, retries \in Int : page = cur.page /\ retries = cur.retries
      BY <1>a
    <3>3. Turns' = 3 * (page - 1) + (retries + 1) /\ Turns = 3 * (page - 1) + retries
      BY <1>1, <3>1, <3>2
    <3> QED BY ONLY <3>3, page \in Int, retries \in Int
  <2> QED BY <2>2, <2>3
<1>8. acc'.requests + Turns + 3 * Paid <= acc.requests + Turns' + 3 * Paid'
  <2>1. PICK t \in Int, q \in Nat, q1 \in Nat, r \in Nat :
            /\ t = Turns /\ q = Paid /\ q1 = Paid' /\ r = acc.requests
    BY <1>a, <1>6, <1>7
  <2>2. Turns' = t + 1 /\ acc'.requests = r + 1 /\ q <= q1
    BY <1>1, <1>6, <1>7, <2>1
  <2>3. (r + 1) + t + 3 * q <= r + (t + 1) + 3 * q1
    BY ONLY <2>2, t \in Int, q \in Nat, q1 \in Nat, r \in Nat
  <2> QED BY <2>1, <2>2, <2>3
<1>9. cur'.retries <= 2
  BY <1>a, <1>1, <1>2
<1>10. ~ByRecords => cur'.page <= PageCap + 1 /\ (cur'.page = PageCap + 1 => cur'.retries = 0)
  BY <1>a, <1>1, <1>5
<1> QED
  BY <1>1, <1>2, <1>4, <1>8, <1>9, <1>10, CloudStay

LEMMA CloudNext ==
    ASSUME TypeInv, TypeInv', connector \in Clouds, connector' = connector, CloudRequests,
           todo \in Seq(ReadListings(connector)), todo # <<>>, todo' = todo, ~Spent,
           NEW got \in Nat, cur' = [cur EXCEPT !.page = @ + 1, !.got = got, !.retries = 0],
           acc'.requests <= acc.requests + 1, acc'.used <= RecordCap, acc'.used >= acc.used,
           acc'.used = acc.used \/ Here.module = "records", faults' >= faults,
           ByRecords => acc'.used + faults' >= acc.used + faults + 1
    PROVE  CloudRequests'
<1>a. /\ acc.requests \in Nat /\ acc.used \in Nat /\ faults \in Nat /\ PageCap \in Nat
      /\ cur.page \in Nat \ {0} /\ cur.retries \in Nat /\ cur \in CurType
      /\ acc'.requests \in Nat /\ acc'.used \in Nat /\ faults' \in Nat
  BY ConnectorAssumption DEF TypeInv, AccOK, CurType
<1>1. cur'.page = cur.page + 1 /\ cur'.retries = 0
  BY <1>a, PageTyped
<1>2. ~ByRecords => cur.page <= PageCap
  BY <1>a DEF Spent, ModuleSpent, DomainsSpent, AliyunRecordsSpent, ByRecords, Clouds
<1>3. cur.retries <= 2
  BY DEF CloudRequests
<1>4. ByRecords' <=> ByRecords
  BY DEF ByRecords, Here
<1>5. PICK q \in Nat, q1 \in Nat : /\ q = Paid /\ q1 = Paid' /\ q <= q1
                                   /\ ByRecords => q1 >= q + 1
  <2>1. CASE connector = "aliyun"
    <3>1. Paid = 0 /\ Paid' = 0 /\ ~ByRecords
      BY <2>1 DEF Paid, ByRecords
    <3> QED BY <3>1
  <2>2. CASE connector # "aliyun"
    <3>1. Paid = acc.used + faults /\ Paid' = acc'.used + faults'
      BY <2>2 DEF Paid
    <3>2. PICK u \in Nat, u1 \in Nat, f \in Nat, f1 \in Nat :
              u = acc.used /\ u1 = acc'.used /\ f = faults /\ f1 = faults'
      BY <1>a
    <3>3. u <= u1 /\ f <= f1 /\ (ByRecords => u1 + f1 >= u + f + 1)
      BY <3>2
    <3>4. u + f \in Nat /\ u1 + f1 \in Nat /\ u + f <= u1 + f1
      BY ONLY <3>3, u \in Nat, u1 \in Nat, f \in Nat, f1 \in Nat
    <3> QED BY <3>1, <3>2, <3>3, <3>4
  <2> QED BY <2>1, <2>2
<1>6. PICK t \in Int, t1 \in Int : /\ t = Turns /\ t1 = Turns'
                                   /\ ByRecords => t <= 2 /\ t1 = 0
                                   /\ ~ByRecords => t + 1 <= t1
  <2>1. CASE ByRecords
    <3>1. Turns = cur.retries /\ Turns' = cur'.retries
      BY <1>4, <2>1 DEF Turns
    <3>2. Turns \in Int /\ Turns' \in Int /\ Turns <= 2 /\ Turns' = 0
      BY <1>a, <1>1, <1>3, <3>1
    <3> QED BY <2>1, <3>2
  <2>2. CASE ~ByRecords
    <3>1. /\ Turns = 3 * (cur.page - 1) + cur.retries
          /\ Turns' = 3 * (cur'.page - 1) + cur'.retries
      BY <1>4, <2>2 DEF Turns
    <3>2. PICK page \in Int, retries \in Int :
              page = cur.page /\ retries = cur.retries /\ retries <= 2
      <4>1. cur.page \in Int /\ cur.retries \in Int
        BY <1>a
      <4> QED BY ONLY <1>3, <4>1
    <3>3. Turns = 3 * (page - 1) + retries /\ Turns' = 3 * ((page + 1) - 1) + 0
      BY <1>1, <3>1, <3>2
    <3>4. 3 * (page - 1) + retries + 1 <= 3 * ((page + 1) - 1) + 0
      BY ONLY <3>2, page \in Int, retries \in Int
    <3>5. 3 * (page - 1) + retries \in Int /\ 3 * ((page + 1) - 1) + 0 \in Int
      BY ONLY <3>2, page \in Int, retries \in Int
    <3> QED BY <2>2, <3>3, <3>4, <3>5
  <2> QED BY <2>1, <2>2
<1>7. acc'.requests + Turns + 3 * Paid <= acc.requests + Turns' + 3 * Paid'
  <2>1. PICK r \in Nat, r1 \in Nat : r = acc.requests /\ r1 = acc'.requests /\ r1 <= r + 1
    BY <1>a
  <2>2. CASE ByRecords
    <3>1. t <= 2 /\ t1 = 0 /\ q1 >= q + 1
      BY <1>5, <1>6, <2>2
    <3>2. r1 + t + 3 * q <= r + t1 + 3 * q1
      <4>1. t <= 2 /\ t1 = 0 /\ q1 >= q + 1 /\ r1 <= r + 1
        BY <2>1, <3>1
      <4> QED BY ONLY <4>1, t \in Int, t1 \in Int, q \in Nat, q1 \in Nat, r \in Nat, r1 \in Nat
    <3> QED BY <1>5, <1>6, <2>1, <3>2
  <2>3. CASE ~ByRecords
    <3>1. t + 1 <= t1 /\ q1 >= q
      BY <1>5, <1>6, <2>3
    <3>2. r1 + t + 3 * q <= r + t1 + 3 * q1
      <4>1. t + 1 <= t1 /\ q1 >= q /\ r1 <= r + 1
        BY <2>1, <3>1
      <4> QED BY ONLY <4>1, t \in Int, t1 \in Int, q \in Nat, q1 \in Nat, r \in Nat, r1 \in Nat
    <3> QED BY <1>5, <1>6, <2>1, <3>2
  <2> QED BY <2>2, <2>3
<1>8. ~ByRecords => cur'.page <= PageCap + 1 /\ (cur'.page = PageCap + 1 => cur'.retries = 0)
  BY <1>a, <1>1, <1>2
<1> QED
  BY <1>1, <1>7, <1>8, CloudStay

\* The domains give way to the records of each.
LEMMA ConcatAt ==
    ASSUME NEW S, NEW s \in Seq(S), NEW t \in Seq(S), NEW i \in 1 .. Len(s \o t)
    PROVE  /\ i <= Len(s) => (s \o t)[i] = s[i]
           /\ i > Len(s) => i - Len(s) \in 1 .. Len(t) /\ (s \o t)[i] = t[i - Len(s)]
OBVIOUS

LEMMA CloudOpens ==
    ASSUME TypeInv, TypeInv', connector \in Clouds, connector' = connector, CloudRequests,
           todo \in Seq(ReadListings(connector)), todo # <<>>, Here.module = "domains",
           NEW n \in Nat, OpenRecords(n),
           acc'.requests = acc.requests \/ (acc'.requests <= acc.requests + 1 /\ ~Spent),
           acc'.used \in {0, acc.used}, faults' >= faults
    PROVE  CloudRequests'
<1>a. /\ acc.requests \in Nat /\ acc.used \in Nat /\ faults \in Nat /\ cur \in CurType
      /\ acc'.requests \in Nat /\ acc'.used \in Nat /\ faults' \in Nat /\ PageCap \in Nat \ {0}
      /\ DomainCap \in Nat /\ RecordCap \in Nat
  BY ConnectorAssumption DEF TypeInv, AccOK
<1>b. /\ Len(todo) \in Nat \ {0} /\ Len(Tail(todo)) = Len(todo) - 1
      /\ \A i \in 1 .. Len(Tail(todo)) : i + 1 \in 1 .. Len(todo) /\ Tail(todo)[i] = todo[i + 1]
      /\ Here = todo[1] /\ 1 \in 1 .. Len(todo)
  BY TailOf DEF Here
<1>1. PICK k \in 0 .. Len(todo), d \in {0, RecordWeight(DomainCap)} :
          /\ Shape(k, d)
          /\ acc.requests + 3 * (Pages(Len(todo) - k) + RecordWeight(k) + d)
               <= 3 * (Pages(7) + RecordWeight(DomainCap) + Paid) + Turns
  BY DEF CloudRequests
<1>2. /\ k = 0 /\ d = RecordWeight(DomainCap) /\ acc.used = 0
      /\ \A j \in 1 .. Len(todo) : todo[j].module = "domains" => j = 1
  BY <1>1, <1>b DEF Shape
<1>3. acc'.used = 0
  BY <1>2
<1>4. PICK m \in Nat : m = (IF n < DomainCap THEN n ELSE DomainCap) /\ m <= DomainCap
  BY <1>a
<1>5. PICK c \in Seq(ReadListings(connector)), rest \in Seq(ReadListings(connector)) :
          /\ c = Children("records", m) /\ rest = Tail(todo)
          /\ Len(c) = m /\ \A i \in 1 .. m : c[i].module = "records"
  <2>1. "records" \in ReadModules(connector)
    BY ModulesRead DEF CloudKinds
  <2>2. Children("records", m) \in Seq(ReadListings(connector))
    BY <2>1, ChildrenRead
  <2>3. Len(Children("records", m)) = m /\ \A i \in 1 .. m : Children("records", m)[i].module = "records"
    BY DEF Children, Of
  <2>4. Tail(todo) \in Seq(ReadListings(connector))
    BY OpenTail
  <2> QED BY <2>2, <2>3, <2>4
<1>6. todo' = c \o rest
  BY <1>4, <1>5 DEF OpenRecords, Open
<1>7. /\ Len(c \o rest) = m + Len(rest) /\ Len(rest) = Len(todo) - 1 /\ Len(rest) \in Nat
  <2>1. Len(c \o rest) = Len(c) + Len(rest) /\ Len(rest) \in Nat
    BY ConcatOf
  <2> QED BY <1>5, <1>b, <2>1
<1>8. ASSUME NEW i \in 1 .. Len(todo')
      PROVE  /\ i <= m => todo'[i].module = "records"
             /\ i > m => todo'[i].module \notin {"records", "domains"}
  <2>1. /\ i <= Len(c) => (c \o rest)[i] = c[i]
        /\ i > Len(c) => i - Len(c) \in 1 .. Len(rest) /\ (c \o rest)[i] = rest[i - Len(c)]
    BY <1>5, <1>6, <1>8, ConcatAt
  <2>2. CASE i <= m
    BY <1>5, <1>6, <2>1, <2>2
  <2>3. CASE i > m
    <3>1. PICK j \in 1 .. Len(rest) : j = i - m /\ todo'[i] = rest[j]
      BY <1>5, <1>6, <2>1, <2>3
    <3>2. /\ j + 1 \in 1 .. Len(todo) /\ rest[j] = todo[j + 1] /\ j + 1 # 1 /\ ~(j + 1 <= 0)
      BY <1>5, <1>b, <3>1
    <3>3. todo[j + 1].module # "domains"
      BY <1>2, <3>2
    <3>4. todo[j + 1].module # "records"
      BY <1>1, <1>2, <3>2 DEF Shape
    <3>5. todo'[i].module \notin {"records", "domains"}
      BY ONLY <3>1, <3>2, <3>3, <3>4
    <3>6. ~(i <= m)
      BY ONLY <2>3, i \in Int, m \in Nat
    <3> QED BY <3>5, <3>6
  <2> QED BY <2>2, <2>3
<1>9. Shape(m, 0)'
  <2>1. ASSUME NEW i \in 1 .. Len(todo')
        PROVE  /\ todo'[i].module = "records" <=> i <= m
               /\ todo'[i].module # "domains"
    <3>1. CASE i <= m
      BY <1>8, <3>1
    <3>2. CASE ~(i <= m)
      <4>1. i > m
        BY <1>4, <1>7, <1>6, <3>2
      <4> QED BY <1>8, <3>2, <4>1
    <3> QED BY <3>1, <3>2
  <2> QED BY <2>1 DEF Shape
<1>10. PICK q \in Nat, q1 \in Nat : q = Paid /\ q1 = Paid' /\ q <= q1
  <2>1. Paid \in {0, acc.used + faults} /\ Paid' \in {0, acc'.used + faults'}
    BY DEF Paid
  <2>2. acc.used + faults = faults /\ acc'.used + faults' = faults'
    <3>1. \A f \in Nat : 0 + f = f
      OBVIOUS
    <3>2. faults \in Nat /\ faults' \in Nat
      BY <1>a
    <3> QED BY <1>2, <1>3, <3>1, <3>2, Zenon
  <2>3. CASE connector = "aliyun"
    BY <2>3 DEF Paid
  <2>4. CASE connector # "aliyun"
    BY <1>a, <2>2, <2>4 DEF Paid
  <2> QED BY <2>3, <2>4
<1>11. PICK t \in Nat, r \in Nat, r1 \in Nat :
          /\ t = Turns /\ r = acc.requests /\ r1 = acc'.requests
          /\ t <= 3 * PageCap /\ r1 + t <= r + 3 * PageCap
  <2>1. Turns \in Nat /\ Turns <= 3 * PageCap /\ (~Spent => Turns + 1 <= 3 * PageCap)
    BY TurnsWithin
  <2>2. acc'.requests + Turns <= acc.requests + 3 * PageCap
    <3>1. PICK a \in Nat, b \in Nat, u \in Nat, cap \in Nat :
             a = acc.requests /\ b = acc'.requests /\ u = Turns /\ cap = PageCap
      BY <1>a, <2>1
    <3>2. /\ u <= 3 * cap
          /\ b = a \/ (b <= a + 1 /\ u + 1 <= 3 * cap)
      BY <2>1, <3>1
    <3>3. b + u <= a + 3 * cap
      BY ONLY <3>2, a \in Nat, b \in Nat, u \in Nat, cap \in Nat
    <3> QED BY <3>1, <3>3
  <2> QED BY <1>a, <2>1, <2>2
<1>12. PICK x \in Int, y \in Int, p \in Int, v \in Int :
          /\ x = Pages(Len(todo) - 1) /\ Pages(Len(todo) - k) = x + PageCap
          /\ y = RecordWeight(DomainCap) /\ p = Pages(7)
          /\ v = RecordWeight(m) /\ v <= y /\ RecordWeight(k) = 0
  <2>1. Pages(Len(todo) - k) = Pages(Len(todo) - 1) + PageCap /\ Pages(Len(todo) - 1) \in Int
    BY <1>b, <1>2, FirstWeight
  <2>2. RecordWeight(DomainCap) \in Int /\ Pages(7) \in Int
    BY LimitTyped
  <2>3. RecordWeight(m) \in Int /\ RecordWeight(m) <= RecordWeight(DomainCap)
    BY <1>4, RecordWeights
  <2>4. RecordWeight(0) = 0
    BY RecordWeights
  <2> QED BY <1>2, <2>1, <2>2, <2>3, <2>4
<1>13. r1 + 3 * (x + v + 0) <= 3 * (p + y + q1)
  <2>1. r + 3 * ((x + PageCap) + 0 + y) <= 3 * (p + y + q) + t
    BY <1>1, <1>2, <1>10, <1>11, <1>12
  <2>2. r1 + 3 * (x + y) <= 3 * (p + y + q)
    <3>1. PICK g \in Int : g = PageCap /\ r1 + t <= r + 3 * g
      BY <1>a, <1>11
    <3>2. r + 3 * (x + y) + 3 * g <= 3 * (p + y + q) + t
      BY <2>1, <3>1
    <3> QED BY <3>1, <3>2
  <2>3. x + v + 0 <= x + y /\ p + y + q <= p + y + q1
    <3>1. v <= y /\ q <= q1
      BY <1>10, <1>12
    <3> QED BY <3>1
  <2>4. 3 * (x + v + 0) <= 3 * (x + y)
    BY <2>3
  <2>5. 3 * (p + y + q) <= 3 * (p + y + q1)
    BY <2>3
  <2>6. r1 + 3 * (x + v + 0) <= r1 + 3 * (x + y)
    BY <2>4
  <2> QED BY <2>2, <2>5, <2>6
<1>14. cur'.page = 1 /\ cur'.retries = 0
  BY <1>a, OpenTyped DEF OpenRecords
<1>15. Turns' = 0
  BY <1>14 DEF Turns
<1>16. Len(todo') - m = Len(todo) - 1 /\ Len(todo') \in Nat /\ m \in 0 .. Len(todo')
  <2>1. Len(todo') = m + Len(rest)
    BY <1>6, <1>7
  <2> QED BY <1>7, <2>1
<1>17. acc'.requests + 3 * (Pages(Len(todo') - m) + RecordWeight(m) + 0)
         <= 3 * (Pages(7) + RecordWeight(DomainCap) + Paid') + 0
  <2>1. Pages(Len(todo') - m) = x
    BY <1>12, <1>16
  <2>2. r1 + 3 * (x + v + 0) <= 3 * (p + y + q1) + 0
    BY <1>13
  <2> QED BY <1>10, <1>11, <1>12, <2>1, <2>2
<1>18. acc'.requests + 3 * (Pages(Len(todo') - m) + RecordWeight(m)' + 0)
         <= 3 * (Pages(7) + RecordWeight(DomainCap)' + Paid') + Turns'
  <2>1. RecordWeight(m)' = RecordWeight(m) /\ RecordWeight(DomainCap)' = RecordWeight(DomainCap)
    BY DEF RecordWeight, Pages
  <2> QED BY <1>15, <1>17, <2>1
<1>19. /\ acc'.used <= RecordCap /\ cur'.retries <= 2
       /\ todo' = <<>> => cur'.page = 1 /\ cur'.retries = 0
       /\ ~ByRecords' => /\ cur'.page <= PageCap + 1
                         /\ cur'.page = PageCap + 1 => cur'.retries = 0
  BY <1>a, <1>3, <1>14
<1>20. Pages(7)' = Pages(7) /\ Pages(Len(todo) - m)' = Pages(Len(todo') - m)
  BY DEF Pages
<1> QED
  BY <1>9, <1>16, <1>18, <1>19, <1>20 DEF CloudRequests

\* The pages of the clouds.
LEMMA DomainsUnused ==
    ASSUME CloudRequests, todo \in Seq(ReadListings(connector)), todo # <<>>,
           Here.module = "domains"
    PROVE  acc.used = 0
BY TailOf DEF CloudRequests, Shape, Here

LEMMA ModulePageRequests ==
    ASSUME TypeInv, TypeInv', connector \in Clouds, CloudRequests,
           todo \in Seq(ReadListings(connector)), todo # <<>>,
           NEW reply, NEW p \in EnvelopeType, NEW stops, ModulePage(reply, p, stops)
    PROVE  CloudRequests'
<1>a. /\ acc.requests \in Nat /\ acc.used \in Nat /\ faults \in Nat /\ cur \in CurType /\ AccOK
      /\ acc'.requests \in Nat /\ cur.got \in Nat /\ p.items \in {0, 1}
  BY DEF TypeInv, AccOK, CurType, EnvelopeType
<1>1. /\ connector' = connector /\ Reply(reply) /\ ~Spent
      /\ Here.module \notin {"domains", "records"}
  BY DEF ModulePage, Settled, request, Spent
<1>2. faults' \in Nat /\ faults' >= faults
  BY <1>a, <1>1, ReplyTyped
<1>3. acc'.requests <= acc.requests + 1 /\ acc'.used = acc.used
  <2>1. PICK items, failure : CloudCollect(Here, items, failure, acc.used)
    BY DEF ModulePage
  <2> QED BY <1>a, <2>1, CollectTyped
<1>4. acc'.used <= RecordCap /\ acc'.used >= acc.used
  BY <1>a, <1>3 DEF CloudRequests
<1>5. CASE Open(Tail(todo))
  BY <1>1, <1>2, <1>3, <1>4, <1>5, CloudTail
<1>6. CASE /\ cur' = [cur EXCEPT !.page = @ + 1, !.got = cur.got + p.items, !.retries = 0]
           /\ todo' = todo
  <2>1. PICK got \in Nat : got = cur.got + p.items
    BY <1>a
  <2>2. cur' = [cur EXCEPT !.page = @ + 1, !.got = got, !.retries = 0]
    BY <1>6, <2>1
  <2>3. ~ByRecords
    BY <1>1 DEF ByRecords
  <2> QED BY <1>1, <1>2, <1>3, <1>4, <1>6, <2>2, <2>3, CloudNext
<1> QED
  BY <1>5, <1>6 DEF ModulePage

LEMMA DomainsPageRequests ==
    ASSUME TypeInv, TypeInv', connector \in Clouds, CloudRequests,
           todo \in Seq(ReadListings(connector)), todo # <<>>,
           NEW reply, NEW p \in EnvelopeType, DomainsPage(reply, p)
    PROVE  CloudRequests'
<1>a. /\ acc.requests \in Nat /\ acc.used \in Nat /\ faults \in Nat /\ cur \in CurType /\ AccOK
      /\ acc'.requests \in Nat /\ cur.got \in Nat /\ p.items \in {0, 1}
  BY DEF TypeInv, AccOK, CurType, EnvelopeType
<1>1. /\ connector' = connector /\ Reply(reply) /\ ~Spent /\ Here.module = "domains"
  BY DEF DomainsPage, Settled, request, Spent
<1>2. faults' \in Nat /\ faults' >= faults
  BY <1>a, <1>1, ReplyTyped
<1>3. acc'.requests <= acc.requests + 1 /\ acc'.used = acc.used
  <2>1. PICK items, failure : CloudCollect(Here, items, failure, 0)
    BY DEF DomainsPage
  <2>2. acc.used = 0
    BY <1>1, DomainsUnused
  <2> QED BY <1>a, <2>1, <2>2, CollectTyped
<1>4. acc'.used <= RecordCap /\ acc'.used >= acc.used
  BY <1>a, <1>3 DEF CloudRequests
<1>5. CASE Open(Tail(todo))
  BY <1>1, <1>2, <1>3, <1>4, <1>5, CloudTail
<1>6. PICK got \in Nat : got = cur.got + p.items
  BY <1>a
<1>7. CASE /\ cur' = [cur EXCEPT !.page = @ + 1, !.got = cur.got + p.items, !.retries = 0]
           /\ todo' = todo
  <2>1. cur' = [cur EXCEPT !.page = @ + 1, !.got = got, !.retries = 0]
    BY <1>6, <1>7
  <2>2. ~ByRecords
    BY <1>1 DEF ByRecords
  <2> QED BY <1>1, <1>2, <1>3, <1>4, <1>7, <2>1, <2>2, CloudNext
<1>8. CASE OpenRecords(cur.got + p.items)
  <2>1. OpenRecords(got)
    BY <1>6, <1>8
  <2> QED BY <1>1, <1>2, <1>3, <2>1, CloudOpens
<1> QED
  BY <1>5, <1>7, <1>8 DEF DomainsPage

LEMMA RecordsPageRequests ==
    ASSUME TypeInv, TypeInv', connector \in Clouds, CloudRequests,
           todo \in Seq(ReadListings(connector)), todo # <<>>, ~Spent,
           NEW reply, NEW p \in EnvelopeType, NEW mapped \in BOOLEAN,
           RecordsPage(reply, p, mapped), mapped \/ reply = "unmappable"
    PROVE  CloudRequests'
<1>a. /\ acc.requests \in Nat /\ acc.used \in Nat /\ faults \in Nat /\ cur \in CurType /\ AccOK
      /\ acc'.requests \in Nat /\ cur.got \in Nat /\ p.items \in {0, 1} /\ RecordCap \in Nat
  BY ConnectorAssumption DEF TypeInv, AccOK, CurType, EnvelopeType
<1>1. /\ connector' = connector /\ Reply(reply) /\ Here.module = "records"
  BY DEF RecordsPage, Settled, request
<1>2. faults' \in Nat /\ faults' >= faults /\ (reply = "unmappable" => faults' = faults + 1)
  <2>1. reply = "unmappable" => faults' = faults + 1
    BY <1>1 DEF Reply
  <2> QED BY <1>a, <1>1, <2>1, ReplyTyped
<1>3. acc.used < RecordCap
  BY <1>a, <1>1 DEF Spent, AliyunRecordsSpent, RecordsSpent
<1>i. PICK items \in {0, 1} : items = IF mapped THEN p.items ELSE 0
  BY <1>a
<1>u. PICK used \in Nat : used = acc.used + items /\ used >= acc.used /\ used <= RecordCap
  <2>1. CASE items = 0
    BY <1>a, <1>3, <2>1
  <2>2. CASE items = 1
    BY <1>a, <1>3, <2>2
  <2> QED BY <2>1, <2>2
<1>4. CASE p.ok /\ signed_request
  <2>1. /\ \E failure : CloudCollect(Here, items, failure, used)
        /\ IF used >= p.total \/ p.items = 0 THEN Open(Tail(todo))
           ELSE /\ cur' = [cur EXCEPT !.page = @ + 1, !.got = cur.got + p.items, !.retries = 0]
                /\ todo' = todo
    BY <1>4, <1>i, <1>u DEF RecordsPage
  <2>2. acc'.requests <= acc.requests + 1 /\ acc'.used = used
    BY <1>a, <2>1, CollectTyped
  <2>3. CASE Open(Tail(todo))
    BY <1>1, <1>2, <1>u, <2>2, <2>3, CloudTail
  <2>4. CASE /\ p.items # 0 /\ todo' = todo
             /\ cur' = [cur EXCEPT !.page = @ + 1, !.got = cur.got + p.items, !.retries = 0]
    <3>1. PICK got \in Nat : got = cur.got + p.items
      BY <1>a
    <3>2. cur' = [cur EXCEPT !.page = @ + 1, !.got = got, !.retries = 0]
      BY <2>4, <3>1
    <3>3. acc'.used + faults' >= acc.used + faults + 1
      <4>1. PICK u \in Nat, f \in Nat, f1 \in Nat : u = acc.used /\ f = faults /\ f1 = faults'
        BY <1>a, <1>2
      <4>2. CASE mapped
        <5>1. used = u + 1
          BY <1>a, <1>i, <1>u, <2>4, <4>1, <4>2
        <5>2. f1 >= f
          BY <1>2, <4>1
        <5>3. (u + 1) + f1 >= u + f + 1
          BY <5>2
        <5> QED BY <2>2, <4>1, <5>1, <5>3
      <4>3. CASE ~mapped
        <5>1. used = u + 0 /\ f1 = f + 1
          BY <1>2, <1>i, <1>u, <4>1, <4>3
        <5>2. (u + 0) + (f + 1) >= u + f + 1
          OBVIOUS
        <5> QED BY <2>2, <4>1, <5>1, <5>2
      <4> QED BY <4>2, <4>3
    <3> QED BY <1>1, <1>2, <1>u, <2>2, <2>4, <3>2, <3>3, CloudNext
  <2> QED BY <2>1, <2>3, <2>4
<1>5. CASE ~(p.ok /\ signed_request)
  <2>1. /\ \E failure : CloudCollect(Here, 0, failure, acc.used)
        /\ Open(Tail(todo))
    BY <1>5 DEF RecordsPage
  <2>2. acc'.requests <= acc.requests + 1 /\ acc'.used = acc.used
    BY <1>a, <2>1, CollectTyped
  <2>3. acc'.used >= acc.used /\ acc'.used <= RecordCap
    BY <1>a, <1>3, <2>2
  <2> QED BY <1>1, <1>2, <2>1, <2>2, <2>3, CloudTail
<1> QED
  BY <1>4, <1>5

LEMMA CloudRequestsStep ==
    ASSUME TypeInv, KindsInv, CloudRequests, CloudStep
    PROVE  CloudRequests'
<1>t. TypeInv'
  BY CloudTyped
<1>a. DOMAIN acc = AccFields /\ acc.used \in Nat /\ faults \in Nat /\ cur.got \in Nat
  BY DEF TypeInv, AccOK, CurType
<1>b. todo \in Seq(ReadListings(connector))
  BY DEF KindsInv
<1>c. acc.used <= RecordCap
  BY DEF CloudRequests
<1>1. ASSUME NEW reply, AliyunStep(reply) \/ TencentStep(reply) PROVE CloudRequests'
  <2>0. connector \in Clouds /\ todo # <<>>
    BY <1>1, CloudAsks
  <2>1. CASE RetryList(reply)
    BY <1>b, <2>0, <2>1, CloudRetry
  <2>2. CASE \E p \in EnvelopeType, stops \in BOOLEAN : ModulePage(reply, p, stops)
    BY <1>b, <1>t, <2>0, <2>2, ModulePageRequests
  <2>3. CASE \E p \in EnvelopeType : DomainsPage(reply, p)
    BY <1>b, <1>t, <2>0, <2>3, DomainsPageRequests
  <2>4. CASE \E p \in EnvelopeType, mapped \in BOOLEAN :
                /\ RecordsPage(reply, p, mapped) /\ ~Spent
                /\ mapped \/ reply = "unmappable"
    BY <1>b, <1>t, <2>0, <2>4, RecordsPageRequests
  <2> QED BY <1>1, <2>1, <2>2, <2>3, <2>4, CloudAsks
\* A limit takes no request.
<1>2. ASSUME connector \in Clouds, todo # <<>>, connector' = connector,
             acc' = [acc EXCEPT !.failure = "budget"], Open(Tail(todo)), faults' = faults
      PROVE  CloudRequests'
  <2>1. acc'.requests = acc.requests /\ acc'.used = acc.used
    BY <1>2, <1>a DEF AccFields
  <2>2. acc'.used >= acc.used /\ acc'.used <= RecordCap /\ faults' >= faults
    BY <1>2, <1>a, <1>c, <2>1
  <2> QED BY <1>2, <1>b, <1>t, <2>1, <2>2, CloudTail
<1>3. CASE ModuleBudget
  <2>1. /\ connector \in Clouds /\ todo # <<>> /\ connector' = connector
        /\ acc' = [acc EXCEPT !.failure = "budget"] /\ Open(Tail(todo)) /\ faults' = faults
    BY <1>3 DEF ModuleBudget, Asking, request
  <2> QED BY <1>2, <2>1
<1>4. CASE DomainLimit
  <2>1. /\ connector \in Clouds /\ todo # <<>> /\ connector' = connector
        /\ acc' = acc /\ OpenRecords(cur.got) /\ faults' = faults /\ Here.module = "domains"
    BY <1>4 DEF DomainLimit, Asking, request
  <2>2. faults' >= faults
    BY <1>a, <2>1
  <2> QED BY <1>a, <1>b, <1>t, <2>1, <2>2, CloudOpens
<1>5. CASE Asking("aliyun") /\ RecordsBudget(AliyunRecordsSpent)
  <2>1. /\ connector \in Clouds /\ todo # <<>> /\ connector' = connector
        /\ acc' = [acc EXCEPT !.failure = "budget"] /\ Open(Tail(todo)) /\ faults' = faults
    BY <1>5 DEF RecordsBudget, Asking, request, Clouds
  <2> QED BY <1>2, <2>1
<1>6. CASE Asking("tencent") /\ RecordsBudget(RecordsSpent)
  <2>1. /\ connector \in Clouds /\ todo # <<>> /\ connector' = connector
        /\ acc' = [acc EXCEPT !.failure = "budget"] /\ Open(Tail(todo)) /\ faults' = faults
    BY <1>6 DEF RecordsBudget, Asking, request, Clouds
  <2> QED BY <1>2, <2>1
<1>7. CASE CloudFinish
  <2>1. connector' = connector /\ acc' = acc /\ todo' = todo /\ cur' = cur /\ faults' = faults
    BY <1>7 DEF CloudFinish, request
  <2> QED
    BY <2>1 DEF CloudRequests, Shape, Turns, Paid, ByRecords, RecordWeight, Pages, Here
<1> QED
  BY <1>1, <1>3, <1>4, <1>5, <1>6, <1>7 DEF CloudStep

\* What holds of the requests of each connector.
Reading == Clouds \cup {"github", "ssh", "dokploy", "cloudflare", "supabase-managed",
                        "supabase-self-hosted"}
RequestsInv ==
    /\ out.status = "new" => acc = Empty
    /\ connector \in Clouds => CloudRequests
    /\ connector = "github" => acc.requests <= RequestBudget
    /\ connector = "ssh" => SshRequests
    /\ connector = "dokploy" => DokployRequests
    /\ connector = "cloudflare" => CloudflareRequests
    /\ connector = "supabase-managed" => ManagedRequests
    /\ connector = "supabase-self-hosted" => SelfHostedRequests
    /\ connector \notin Reading => acc.requests = 0

\* A sync that has asked for nothing yet: it has not begun, or was refused, or
\* its first listings are open.
Opened ==
    /\ connector \in Clouds => todo = aliyun_modules
    /\ connector = "ssh" => todo = <<Root("identity")>>
    /\ connector = "dokploy" => todo = dokploy_listings
    /\ connector = "cloudflare" => todo = cloudflare_listings
    /\ connector = "supabase-managed" => todo = supabase_managed_listings
Started ==
    /\ TypeInv /\ acc = Empty /\ cur.page = 1 /\ cur.got = 0 /\ cur.retries = 0
    /\ todo = <<>> \/ Opened

LEMMA CloudStarted ==
    ASSUME TypeInv, acc = Empty, cur.page = 1, cur.retries = 0, connector \in Clouds,
           todo = <<>> \/ todo = aliyun_modules
    PROVE  CloudRequests
<1>a. /\ acc.requests = 0 /\ acc.used = 0 /\ RecordCap \in Nat /\ PageCap \in Nat \ {0}
      /\ Turns = 0
  BY ConnectorAssumption, EmptyTyped DEF Turns
<1>1. /\ acc.used <= RecordCap /\ cur.retries <= 2
      /\ cur.page <= PageCap + 1 /\ (cur.page = PageCap + 1 => cur.retries = 0)
  BY <1>a
<1>2. PICK p \in Int, v \in Int, q \in Nat :
          /\ p = Pages(7) /\ v = RecordWeight(DomainCap) /\ q = Paid /\ p >= 0 /\ v >= 0
  <2>1. Pages(7) >= 0 /\ Pages(7) \in Int
    BY <1>a, PagesCount
  <2> QED BY <2>1, LimitTyped
<1>3. RecordWeight(0) = 0 /\ Pages(0) = 0
  BY RecordWeights, PagesCount
<1>4. CASE todo = <<>>
  <2>1. Len(todo) = 0 /\ Len(todo) - 0 = 0 /\ 0 \in 0 .. Len(todo)
    BY <1>4
  <2>2. Shape(0, 0)
    BY <1>4 DEF Shape
  <2>3. 0 + 3 * (0 + 0 + 0) <= 3 * (p + v + q) + 0
    <3>1. p >= 0 /\ v >= 0
      BY <1>2
    <3> QED BY ONLY <3>1, p \in Int, v \in Int, q \in Nat
  <2>4. acc.requests + 3 * (Pages(Len(todo) - 0) + RecordWeight(0) + 0)
          <= 3 * (Pages(7) + RecordWeight(DomainCap) + Paid) + Turns
    BY <1>2, <1>3, <1>a, <2>1, <2>3
  <2> QED BY <1>1, <2>1, <2>2, <2>4 DEF CloudRequests
<1>5. CASE todo = aliyun_modules
  <2>1. Len(todo) = 7 /\ Len(todo) - 0 = 7 /\ 0 \in 0 .. Len(todo) /\ todo # <<>>
    BY <1>5 DEF aliyun_modules
  <2>2. \A i \in 1 .. 7 : todo[i].module # "records" /\ (todo[i].module = "domains" <=> i = 6)
    BY <1>5 DEF aliyun_modules, Root, Of
  <2>3. Shape(0, v)
    BY <1>2, <1>a, <2>1, <2>2 DEF Shape
  <2>4. 0 + 3 * (p + 0 + v) <= 3 * (p + v + q) + 0
    BY ONLY p \in Int, v \in Int, q \in Nat
  <2>5. acc.requests + 3 * (Pages(Len(todo) - 0) + RecordWeight(0) + v)
          <= 3 * (Pages(7) + RecordWeight(DomainCap) + Paid) + Turns
    BY <1>2, <1>3, <1>a, <2>1, <2>4
  <2> QED BY <1>1, <1>2, <2>1, <2>3, <2>5 DEF CloudRequests
<1> QED
  BY <1>4, <1>5

LEMMA StartedRequests == Started => RequestsInv
<1> SUFFICES ASSUME Started PROVE RequestsInv
  OBVIOUS
<1>a. /\ TypeInv /\ acc = Empty /\ acc.requests = 0 /\ acc.used = 0
      /\ cur.page = 1 /\ cur.got = 0 /\ cur.retries = 0
      /\ PageCap \in Nat \ {0} /\ WalkCap \in Nat /\ RequestBudget \in Nat
  BY ConnectorAssumption, EmptyTyped DEF Started
<1>1. connector \in Clouds => CloudRequests
  BY <1>a, CloudStarted DEF Started, Opened
<1>2. connector = "ssh" => SshRequests
  <2>1. CASE todo = <<>>
    BY <1>a, <2>1 DEF SshRequests
  <2> QED BY <1>a, <2>1 DEF Started, Opened, SshRequests
<1>3. connector = "dokploy" => DokployRequests
  <2>1. CASE todo = <<>>
    BY <1>a, <2>1 DEF DokployRequests
  <2> QED BY <1>a, <2>1 DEF Started, Opened, DokployRequests
<1>4. connector = "cloudflare" => CloudflareRequests
  <2>1. CASE todo = <<>>
    <3>1. 0 \in Int /\ 2 + 3 * PageCap \in Int /\ 0 <= 2 + 3 * PageCap
      BY <1>a
    <3>2. 0 <= Pages(2 + 3 * PageCap)
      BY <3>1, PagesCount
    <3> QED BY <1>a, <2>1, <3>2 DEF CloudflareRequests
  <2> QED BY <1>a, <2>1 DEF Started, Opened, CloudflareRequests
<1>5. connector = "supabase-managed" => ManagedRequests
  <2>1. CASE todo = <<>>
    BY <1>a, <2>1 DEF ManagedRequests
  <2>2. CASE connector = "supabase-managed" /\ todo = supabase_managed_listings
    <3>1. Len(todo) = 2
      BY <2>2 DEF supabase_managed_listings
    <3> QED BY <1>a, <3>1 DEF ManagedRequests
  <2> QED BY <2>1, <2>2 DEF Started, Opened
<1>6. connector = "supabase-self-hosted" => SelfHostedRequests
  BY <1>a DEF SelfHostedRequests
<1> QED
  BY <1>a, <1>1, <1>2, <1>3, <1>4, <1>5, <1>6 DEF RequestsInv

\* The invariant gives the bound.
LEMMA RequestsInvBounds ==
    ASSUME TypeInv, KindsInv, RequestsInv
    PROVE  RequestsBounded
<1>a. /\ acc.requests \in Nat /\ acc.used \in Nat /\ faults \in Nat /\ WalkCap \in Nat
      /\ PageCap \in Nat \ {0} /\ DomainCap \in Nat /\ RecordCap \in Nat /\ RequestBudget \in Nat
      /\ todo \in Seq(ReadListings(connector)) /\ Len(todo) \in Nat
  BY ConnectorAssumption DEF TypeInv, AccOK, KindsInv
<1>1. CASE connector \in Clouds
  <2>1. CloudRequests /\ acc.used <= RecordCap
    BY <1>1 DEF RequestsInv, CloudRequests
  <2>2. PICK k \in 0 .. Len(todo), d \in {0, RecordWeight(DomainCap)} :
          /\ Shape(k, d)
          /\ acc.requests + 3 * (Pages(Len(todo) - k) + RecordWeight(k) + d)
               <= 3 * (Pages(7) + RecordWeight(DomainCap) + Paid) + Turns
    BY <2>1 DEF CloudRequests
  <2>3. PICK p \in Int, v \in Int, q \in Nat, c \in Nat :
          /\ p = Pages(7) /\ v = RecordWeight(DomainCap) /\ q = Paid /\ p >= 0 /\ v >= 0
          /\ c = d
    <3>1. Pages(7) >= 0 /\ Pages(7) \in Int
      BY <1>a, PagesCount
    <3> QED BY <3>1, LimitTyped
  <2>4. PICK t \in Int, x \in Int : /\ x = Pages(Len(todo) - k) + RecordWeight(k)
                                    /\ t = Turns /\ t <= 3 * x
    <3>1. Len(todo) - k \in Nat /\ k \in Nat
      BY <1>a
    <3>2. /\ Pages(Len(todo) - k) \in Int /\ RecordWeight(k) \in Int /\ RecordWeight(k) >= 0
          /\ Pages(Len(todo) - k) >= 0
      <4>1. Pages(0) <= Pages(Len(todo) - k) /\ Pages(0) = 0
        BY <3>1, PagesCount
      <4> QED BY <3>1, <4>1, PagesNext, RecordWeights
    <3>3. CASE todo = <<>>
      <4>1. Turns = 0
        BY <2>1, <3>3 DEF CloudRequests, Turns, ByRecords
      <4> QED BY <3>2, <4>1
    <3>4. CASE todo # <<>>
      <4>0. /\ Len(todo) \in Nat \ {0} /\ Here = todo[1] /\ 1 \in 1 .. Len(todo)
        BY <1>a, <3>4, TailOf DEF Here
      <4>1. Here.module = "records" <=> 1 <= k
        BY <2>2, <4>0 DEF Shape
      <4>2. PICK w \in Nat : w = IF Here.module = "records" THEN RecordWeight(1) ELSE PageCap
        <5>1. RecordWeight(1) \in Nat
          BY RecordWeights
        <5> QED BY <1>a, <5>1
      <4>3. Turns \in Nat /\ Turns <= 3 * w
        BY <1>1, <2>1, <3>4, <4>2, TurnsWithin
      <4>4. w <= Pages(Len(todo) - k) + RecordWeight(k)
        <5>1. CASE k = 0
          <6>1. Pages(Len(todo) - k) = Pages(Len(todo) - 1) + PageCap /\ Pages(Len(todo) - 1) \in Int
            BY <4>0, <5>1, FirstWeight
          <6>2. Pages(Len(todo) - 1) >= 0
            <7>1. Len(todo) - 1 \in Nat
              BY <4>0
            <7>2. Pages(0) <= Pages(Len(todo) - 1) /\ Pages(0) = 0
              BY <7>1, PagesCount
            <7> QED BY <6>1, <7>2
          <6>3. w = PageCap
            BY <4>1, <4>2, <5>1
          <6> QED BY <1>a, <3>2, <6>1, <6>2, <6>3
        <5>2. CASE k > 0
          <6>1. /\ RecordWeight(k) = RecordWeight(k - 1) + RecordWeight(1)
                /\ RecordWeight(k - 1) \in Int
            BY <4>0, <5>2, FirstWeight
          <6>2. RecordWeight(k - 1) >= 0
            <7>1. k - 1 \in Nat
              BY <5>2
            <7> QED BY <7>1, RecordWeights
          <6>3. w = RecordWeight(1)
            BY <4>1, <4>2, <5>2
          <6> QED BY <3>2, <6>1, <6>2, <6>3
        <5> QED BY <5>1, <5>2
      <4>5. PICK x \in Int : x = Pages(Len(todo) - k) + RecordWeight(k)
        BY <3>2
      <4>6. 3 * w <= 3 * x
        <5>1. w <= x
          BY <4>4, <4>5
        <5> QED BY ONLY <5>1, w \in Nat, x \in Int
      <4> QED BY <4>3, <4>5, <4>6
    <3> QED BY <3>3, <3>4
  <2>5. acc.requests <= 3 * (p + v + q)
    <3>1. PICK r \in Nat : r = acc.requests /\ r + 3 * (x + c) <= 3 * (p + v + q) + t
      BY <1>a, <2>2, <2>3, <2>4
    <3>2. 3 * (x + c) >= t
      BY ONLY <2>4, c \in Nat, x \in Int, t \in Int
    <3>3. r <= 3 * (p + v + q)
      <4>1. PICK z \in Int, y \in Int : z = 3 * (x + c) /\ y = 3 * (p + v + q)
        OBVIOUS
      <4>2. r + z <= y + t /\ z >= t
        BY <3>1, <3>2, <4>1
      <4>3. r <= y
        BY <4>2
      <4> QED BY <4>1, <4>3
    <3> QED BY <3>1, <3>3
  <2>6. p = 7 * PageCap
    BY <2>3, PagesCount
  <2>7. CASE connector = "aliyun"
    <3>1. q = 0 /\ v = PageCap * DomainCap
      BY <2>3, <2>7 DEF Paid, RecordWeight, Pages
    <3>2. 3 * (7 * PageCap + PageCap * DomainCap + 0) = (2 + 1) * PageCap * (7 + DomainCap)
      BY <1>a
    <3> QED BY <2>5, <2>6, <2>7, <3>1, <3>2 DEF RequestsBounded, RequestLimit
  <2>8. CASE connector = "tencent"
    <3>1. q = acc.used + faults /\ v = DomainCap
      BY <2>3, <2>8 DEF Paid, RecordWeight
    <3>2. acc.requests <= (2 + 1) * (7 * PageCap + RecordCap + DomainCap + faults)
      <4>1. p + v + q <= 7 * PageCap + RecordCap + DomainCap + faults
        BY <1>a, <2>1, <2>6, <3>1
      <4>2. PICK y \in Int, z \in Int : /\ y = p + v + q
                                        /\ z = 7 * PageCap + RecordCap + DomainCap + faults
        BY <1>a, <2>3
      <4>3. 3 * y <= (2 + 1) * z
        BY <4>1, <4>2
      <4> QED BY <1>a, <2>5, <4>2, <4>3
    <3> QED BY <2>8, <3>2 DEF RequestsBounded, RequestLimit
  <2> QED BY <1>1, <2>7, <2>8 DEF Clouds
<1>2. CASE connector = "github"
  BY <1>2 DEF RequestsInv, RequestsBounded, RequestLimit
<1>3. CASE connector = "ssh"
  <2>1. acc.requests <= 5
    BY <1>3, <1>a DEF RequestsInv, SshRequests
  <2> QED BY <1>3, <2>1 DEF RequestsBounded, RequestLimit
<1>4. CASE connector = "dokploy"
  <2>1. acc.requests <= 2 + 2 * WalkCap
    BY <1>4, <1>a DEF RequestsInv, DokployRequests
  <2> QED BY <1>4, <2>1 DEF RequestsBounded, RequestLimit
<1>5. CASE connector = "cloudflare"
  <2>1. acc.requests <= PageCap * (2 + 3 * PageCap)
    BY <1>5, <1>a, CloudflareBound DEF RequestsInv, Pages
  <2> QED BY <1>5, <2>1 DEF RequestsBounded, RequestLimit
<1>6. CASE connector \notin {"aliyun", "tencent", "github", "ssh", "dokploy", "cloudflare"}
  <2>1. acc.requests <= 2
    BY <1>6, <1>a DEF RequestsInv, ManagedRequests, SelfHostedRequests, Reading, Clouds
  <2> QED BY <1>6, <2>1 DEF RequestsBounded, RequestLimit
<1> QED
  BY <1>1, <1>2, <1>3, <1>4, <1>5, <1>6 DEF Clouds

\* How a sync ends: with an error, or concluded.
LEMMA Ends ==
    /\ \A code : Failed(code).status # "new" /\ (Fatal(code) => out'.status # "new")
    /\ \A coverage, failure, rels : Concluded(coverage, failure, rels).status # "new"
<1>1. \A code : Failed(code).status # "new"
  BY FailedIsError
<1>2. \A code : Fatal(code) => out'.status # "new"
  BY <1>1 DEF Fatal
<1>3. ASSUME NEW coverage, NEW failure, NEW rels
      PROVE  Concluded(coverage, failure, rels).status # "new"
  <2>1. PICK o : /\ o = [status |-> IF failure = "none" THEN "complete" ELSE "partial",
                         coverage |-> IF failure = "none" THEN coverage ELSE "partial",
                         code |-> failure, relations |-> rels]
    OBVIOUS
  <2>2. Concluded(coverage, failure, rels) \in {o, Failed("invalid"), Failed("schema")}
    BY <2>1 DEF Concluded
  <2> QED BY <1>1, <2>1, <2>2
<1> QED
  BY <1>1, <1>2, <1>3

\* A step of a connector leaves the sync begun.
LEMMA StaysBegun ==
    ASSUME TypeInv, CloudStep \/ GitHubStep \/ SshStep \/ PlatformStep
    PROVE  connector' = connector /\ out'.status # "new"
<1>1. CASE CloudStep
  <2>1. ASSUME NEW reply, AliyunStep(reply) \/ TencentStep(reply)
        PROVE  connector' = connector /\ out'.status # "new"
    <3>1. out.status = "running"
      BY <2>1, CloudAsks
    <3>2. request' = request /\ out' = out
      BY <2>1, CloudAsks, PageReads DEF RetryList
    <3> QED BY <3>1, <3>2 DEF request
  <2>2. CASE \/ ModuleBudget \/ DomainLimit
             \/ Asking("aliyun") /\ RecordsBudget(AliyunRecordsSpent)
             \/ Asking("tencent") /\ RecordsBudget(RecordsSpent)
    BY <2>2 DEF ModuleBudget, DomainLimit, RecordsBudget, Asking, request
  <2>3. CASE CloudFinish
    BY <2>3, Ends DEF CloudFinish, aliyun_finish, tencent_finish, request
  <2> QED BY <1>1, <2>1, <2>2, <2>3 DEF CloudStep
<1>2. CASE GitHubStep
  <2>1. connector' = connector /\ out.status = "running"
    BY <1>2, GitHubAsks DEF GitHubStep, GitHubPageLimit, mark_budget_exhausted, github_not_modified,
                            GitHubFinish, Asking, Done, request
  <2>2. CASE \/ out' = out \/ \E code : Fatal(code)
    BY <2>1, <2>2, Ends
  <2>3. CASE GitHubFinish
    BY <2>1, <2>3, Ends DEF GitHubFinish, github_finish
  <2>4. CASE (\E reply : github_fetch(reply)) \/ GitHubPageLimit
    <3>1. \/ out' = out \/ \E code : Fatal(code)
      BY <2>4, GitHubAsks, GapCases DEF GitHubPageLimit
    <3> QED BY <2>2, <3>1
  <2>5. CASE mark_budget_exhausted \/ github_not_modified
    <3>1. \/ out' = out \/ \E code : Fatal(code)
      BY <2>5 DEF mark_budget_exhausted, github_not_modified
    <3> QED BY <2>2, <3>1
  <2> QED BY <1>2, <2>3, <2>4, <2>5 DEF GitHubStep
<1>3. CASE SshStep
  <2>1. CASE \E reply : ssh_identity(reply) \/ ssh_probe(reply)
    BY <2>1, IdentityCases, ProbeCases, Ends DEF request
  <2>2. CASE SshFinish
    BY <2>2, Ends DEF SshFinish, ssh_finish, request
  <2> QED BY <1>3, <2>1, <2>2 DEF SshStep
<1>4. CASE PlatformStep
  <2>1. CASE \E reply : dokploy_fetch(reply)
    BY <2>1, DokployCases, Ends DEF request
  <2>2. CASE \E reply \in PlatformFaults \cup {"page"} : cloudflare_fetch(reply)
    BY <2>2, CloudflareCases, Ends DEF request
  <2>3. CASE \E reply : supabase_managed_get(reply)
    BY <2>3, ManagedCases, Ends DEF request
  <2>4. CASE \E reply : supabase_self_hosted_sync(reply)
    <3>1. PICK reply : supabase_self_hosted_sync(reply)
      BY <2>4
    <3>2. \/ \E code : Fatal(code)
          \/ \E failure, relations : out' = Concluded("full", failure, relations)
      BY <3>1, SelfHostedCases, Zenon
    <3>3. connector' = connector
      BY <3>1, SelfHostedCases DEF request
    <3> QED BY <3>2, <3>3, Ends
  <2>5. CASE DokployFinish \/ CloudflareFinish \/ SupabaseManagedFinish
    BY <2>5, Ends DEF DokployFinish, CloudflareFinish, SupabaseManagedFinish, dokploy_finish,
                      cloudflare_finish, request
  <2>6. CASE fixture_replay
    <3>1. connector' = connector
      BY <2>6 DEF fixture_replay, request
    <3>2. \/ \E code : out' = Failed(code)
          \/ out'.status \in {"complete", "partial"}
      <4>1. ASSUME NEW status \in {"complete", "partial"}, NEW coverage,
                   LET o == [status |-> status, coverage |-> coverage,
                             code |-> IF status = "partial" THEN "unavailable" ELSE "none",
                             relations |-> {}]
                   IN  out' = IF validate_for(o, mode) THEN o ELSE Failed("config")
            PROVE  out'.status = status \/ out' = Failed("config")
        <5>1. PICK code : code = IF status = "partial" THEN "unavailable" ELSE "none"
          OBVIOUS
        <5>2. PICK o : o = [status |-> status, coverage |-> coverage, code |-> code,
                            relations |-> {}]
          OBVIOUS
        <5>3. out' = IF validate_for(o, mode) THEN o ELSE Failed("config")
          BY <4>1, <5>1, <5>2, Zenon
        <5> QED BY <5>2, <5>3
      <4>2. \/ \E status \in {"complete", "partial"}, coverage \in Coverages \ {"none"} :
                 LET o == [status |-> status, coverage |-> coverage,
                           code |-> IF status = "partial" THEN "unavailable" ELSE "none",
                           relations |-> {}]
                 IN  out' = IF validate_for(o, mode) THEN o ELSE Failed("config")
            \/ \E code \in {"unavailable", "invalid"} : out' = Failed(code)
        BY <2>6, Zenon DEF fixture_replay
      <4> QED BY <4>1, <4>2, Zenon
    <3> QED BY <3>1, <3>2, Ends
  <2> QED BY <1>4, <2>1, <2>2, <2>3, <2>4, <2>5, <2>6 DEF PlatformStep
<1> QED
  BY <1>1, <1>2, <1>3, <1>4

\* Every step keeps the invariant.
LEMMA RequestsStep ==
    ASSUME TypeInv, KindsInv, RequestsInv, [Next]_vars
    PROVE  RequestsInv'
<1>t. TypeInv'
  BY TypeStep
<1>a. acc.requests \in Nat /\ DOMAIN acc = AccFields /\ cur \in CurType
  BY DEF TypeInv, AccOK
<1>1. CASE Begin
  <2>1. /\ request' = request /\ acc' = acc /\ acc = Empty
    BY <1>1, BeginCases DEF RequestsInv
  <2>2. PICK targets \in SUBSET (1 .. MaxItems) :
           \/ Open(Listings(targets)) \/ Fatal(Refuses(targets))
    BY <1>1, BeginCases
  <2>3. CASE Fatal(Refuses(targets))
    <3>1. todo' = <<>> /\ cur' \in Fresh(<<>>)
      BY <2>3 DEF Fatal
    <3>2. cur'.page = 1 /\ cur'.got = 0 /\ cur'.retries = 0
      BY <1>a, <3>1, FreshTyped
    <3>3. Started'
      BY <1>t, <2>1, <3>1, <3>2 DEF Started, Empty
    <3> QED BY <3>3, StartedRequests, PTL
  <2>4. CASE Open(Listings(targets))
    <3>1. todo' = Listings(targets) /\ cur' \in Fresh(Listings(targets))
      BY <2>4 DEF Open
    <3>2. cur'.page = 1 /\ cur'.got = 0 /\ cur'.retries = 0
      BY <1>a, <3>1, FreshTyped
    <3>3. connector' = connector
      BY <2>1 DEF request
    <3>4. Opened'
      <4>1. connector = "aliyun" => Listings(targets) = aliyun_modules
        BY DEF Listings
      <4>2. connector = "tencent" => Listings(targets) = aliyun_modules
        BY DEF Listings, aliyun_modules, tencent_modules
      <4>3. /\ connector = "ssh" => Listings(targets) = <<Root("identity")>>
            /\ connector = "dokploy" => Listings(targets) = dokploy_listings
            /\ connector = "cloudflare" => Listings(targets) = cloudflare_listings
            /\ connector = "supabase-managed" => Listings(targets) = supabase_managed_listings
        BY DEF Listings
      <4> QED BY <3>1, <3>3, <4>1, <4>2, <4>3
              DEF Opened, Clouds, aliyun_modules, dokploy_listings, cloudflare_listings,
                  supabase_managed_listings, Root, Of
    <3>5. Started'
      BY <1>t, <2>1, <3>2, <3>4 DEF Started, Empty
    <3> QED BY <3>5, StartedRequests, PTL
  <2> QED BY <2>2, <2>3, <2>4
<1>2. CASE Again
  <2>1. todo' = <<>> /\ acc' = Empty /\ cur' \in Fresh(<<>>)
    BY <1>2 DEF Again
  <2>2. cur'.page = 1 /\ cur'.got = 0 /\ cur'.retries = 0
    BY <1>a, <2>1, FreshTyped
  <2>3. Started'
    BY <1>t, <2>1, <2>2 DEF Started, Empty
  <2> QED BY <2>3, StartedRequests, PTL
<1>3. CASE UNCHANGED vars
  BY <1>3 DEF vars, RequestsInv, CloudRequests, Shape, Turns, Paid, ByRecords, RecordWeight, Pages,
              Here, SshRequests, DokployRequests, CloudflareRequests, ManagedRequests,
              SelfHostedRequests, Empty, dokploy_listings, cloudflare_listings, Root, Of
\* A step of a connector, which is running.
<1>r. ASSUME connector' = connector, out'.status # "new"
      PROVE  /\ connector \in Clouds /\ CloudRequests' => RequestsInv'
             /\ connector = "github" /\ acc'.requests <= RequestBudget => RequestsInv'
             /\ connector = "ssh" /\ SshRequests' => RequestsInv'
             /\ connector = "dokploy" /\ DokployRequests' => RequestsInv'
             /\ connector = "cloudflare" /\ CloudflareRequests' => RequestsInv'
             /\ connector = "supabase-managed" /\ ManagedRequests' => RequestsInv'
             /\ connector = "supabase-self-hosted" /\ SelfHostedRequests' => RequestsInv'
             /\ connector \notin Reading /\ acc'.requests = 0 => RequestsInv'
  BY <1>r DEF RequestsInv, Reading, Clouds
<1>4. CASE CloudStep
  <2>1. connector \in Clouds
    BY <1>4, CloudAsks DEF CloudStep, ModuleBudget, DomainLimit, CloudFinish, Asking, Clouds
  <2>2. CloudRequests'
    BY <1>4, <2>1, CloudRequestsStep DEF RequestsInv
  <2> QED BY <1>4, <1>r, <2>1, <2>2, StaysBegun
<1>5. CASE GitHubStep
  <2>1. connector = "github"
    BY <1>5, GitHubAsks DEF GitHubStep, GitHubPageLimit, mark_budget_exhausted, github_not_modified,
                            GitHubFinish, Asking, Done
  <2>2. acc'.requests <= RequestBudget
    BY <1>5, <2>1, GitHubRequestsStep DEF RequestsInv
  <2> QED BY <1>5, <1>r, <2>1, <2>2, StaysBegun
<1>6. CASE SshStep
  <2>1. connector = "ssh"
    BY <1>6, IdentityCases, ProbeCases DEF SshStep, SshFinish, Done
  <2>2. SshRequests'
    BY <1>6, <2>1, SshRequestsStep DEF RequestsInv
  <2> QED BY <1>6, <1>r, <2>1, <2>2, StaysBegun
<1>7. CASE PlatformStep
  <2>1. CASE (\E reply : dokploy_fetch(reply)) \/ DokployFinish
    <3>1. connector = "dokploy"
      BY <2>1, DokployCases DEF DokployFinish, Done
    <3>2. DokployRequests'
      BY <2>1, <3>1, DokployRequestsStep DEF RequestsInv
    <3> QED BY <1>7, <1>r, <3>1, <3>2, StaysBegun
  <2>2. CASE \/ \E reply \in PlatformFaults \cup {"page"} : cloudflare_fetch(reply)
             \/ CloudflareFinish
    <3>1. connector = "cloudflare"
      BY <2>2, CloudflareCases DEF CloudflareFinish, Done
    <3>2. CloudflareRequests'
      BY <2>2, <3>1, CloudflareRequestsStep DEF RequestsInv
    <3> QED BY <1>7, <1>r, <3>1, <3>2, StaysBegun
  <2>3. CASE (\E reply : supabase_managed_get(reply)) \/ SupabaseManagedFinish
    <3>1. connector = "supabase-managed"
      BY <2>3, ManagedCases DEF SupabaseManagedFinish, Done
    <3>2. ManagedRequests'
      BY <2>3, <3>1, ManagedRequestsStep DEF RequestsInv
    <3> QED BY <1>7, <1>r, <3>1, <3>2, StaysBegun
  <2>4. CASE \E reply : supabase_self_hosted_sync(reply)
    <3>1. connector = "supabase-self-hosted"
      BY <2>4, SelfHostedCases
    <3>2. SelfHostedRequests'
      BY <2>4, <3>1, SelfHostedRequestsStep DEF RequestsInv
    <3> QED BY <1>7, <1>r, <3>1, <3>2, StaysBegun
  <2>5. CASE fixture_replay
    <3>1. connector = "fixture" /\ acc' = acc
      BY <2>5 DEF fixture_replay, Done
    <3>2. connector \notin Reading
      BY <3>1 DEF Reading, Clouds
    <3>3. acc'.requests = 0
      BY <3>1, <3>2 DEF RequestsInv
    <3> QED BY <1>7, <1>r, <3>2, <3>3, StaysBegun
  <2> QED BY <1>7, <2>1, <2>2, <2>3, <2>4, <2>5 DEF PlatformStep
<1> QED
  BY <1>1, <1>2, <1>3, <1>4, <1>5, <1>6, <1>7 DEF Next, Step

\* The requests of one sync are bounded whatever the provider answers, by the
\* pages, the retries, the walks and the budget of the connector.
THEOREM RequestsBoundedAlways == Spec => []RequestsBounded
<1>1. Init => RequestsInv
  <2> SUFFICES ASSUME Init PROVE RequestsInv
    OBVIOUS
  <2>1. TypeInv /\ acc = Empty /\ todo = <<>> /\ cur \in Fresh(<<>>)
    BY InitTyped DEF Init
  <2>2. cur.page = 1 /\ cur.got = 0 /\ cur.retries = 0
    BY <2>1 DEF Fresh
  <2> QED BY <2>1, <2>2, StartedRequests DEF Started
<1>2. TypeInv /\ KindsInv /\ RequestsInv /\ [Next]_vars => (TypeInv /\ KindsInv /\ RequestsInv)'
  BY TypeStep, KindsStep, RequestsStep
<1>3. TypeInv /\ KindsInv /\ RequestsInv => RequestsBounded
  BY RequestsInvBounds
<1> QED
  BY <1>1, <1>2, <1>3, KindsInit, PTL DEF Spec

=============================================================================
