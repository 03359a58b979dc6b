----------------------------- MODULE CrawlProofs -----------------------------
(***************************************************************************)
(* The crawl threads and the select thread at work on the queue, the level *)
(* pool, the DNS cache and the pools, for any web, any number of threads   *)
(* and any limits.  Sound is the inductive invariant: the types, what the  *)
(* counts of an item in hand still allow (Counts: the item may be queued   *)
(* once more), and what an address in hand is an address of (Addressed).   *)
(***************************************************************************)
EXTENDS Crawl, FiniteSetTheorems, TLAPS

\* What the checks a thread has passed say of the counts it holds.
Counts ==
    \A t \in Threads :
        /\ pc[t] # "pop" => qi[t].fail_count <= max_url_fail_count
        /\ pc[t] \in {"look", "ask", "noip"} => qi[t].dns_count <= max_dns_query_count
        /\ pc[t] \in {"pop", "look", "ask", "noip", "gate"} => redirect_count[t] = 0
        /\ pc[t] = "askr" => redirect_count[t] < max_url_redirect_count

\* What is remembered for a site is its address or NO_IP; a thread that has
\* not been redirected has the address of its URL's site, and one that was
\* redirected once the address of the site it was sent to.
Addressed ==
    /\ \A s \in DOMAIN m_ip_list : m_ip_list[s] \in {s, NO_IP}
    /\ \A t \in Threads :
        /\ pc[t] \in {"ask", "askr"} <=> asking[t] # NoSite
        /\ pc[t] = "ask" => asking[t] = Site(t)
        /\ pc[t] \in {"noip", "gate", "fetch", "got", "askr"} /\ redirect_count[t] = 0
              => ip[t] \in {Site(t), NO_IP}
        /\ pc[t] = "fetch" /\ redirect_count[t] = 0 => target[t] = Site(t)
        /\ pc[t] = "fetch" /\ redirect_count[t] = 1 => ip[t] \in {target[t], NO_IP}

Sound == TypeOK /\ Counts /\ Addressed

-----------------------------------------------------------------------------
(* Sequences, items and jobs *)

LEMMA AppendItem ==
    ASSUME NEW S, NEW q \in Seq(S), NEW e \in S
    PROVE  /\ Append(q, e) \in Seq(S)
           /\ Len(Append(q, e)) = Len(q) + 1
           /\ \A i \in 1 .. Len(q) : Append(q, e)[i] = q[i]
           /\ Append(q, e)[Len(q) + 1] = e
OBVIOUS

LEMMA TakeItem ==
    ASSUME NEW S, NEW q \in Seq(S), q # <<>>
    PROVE  /\ Head(q) \in S /\ Head(q) = q[1]
           /\ Tail(q) \in Seq(S)
           /\ Len(q) \in Nat \ {0} /\ Len(Tail(q)) = Len(q) - 1
           /\ \A i \in 1 .. Len(q) - 1 : Tail(q)[i] = q[i + 1]
OBVIOUS

\* The limits are numbers.
LEMMA LimitTypes ==
    /\ max_url_fail_count \in Nat \ {0}
    /\ max_url_redirect_count \in Nat \ {0}
    /\ max_dns_query_count \in Nat \ {0}
    /\ QueueSize \in Nat \ {0}
BY CrawlAssumption

\* The site of a job is a site.
LEMMA SiteOfJob == ASSUME NEW j \in Jobs PROVE SiteOf[Url(j)] \in Sites
BY CrawlAssumption DEF Jobs, Url

LEMMA ItemTypes ==
    ASSUME NEW item \in SSQItem
    PROVE  item.job \in Jobs /\ item.fail_count \in Nat /\ item.dns_count \in Nat
BY LimitTypes DEF SSQItem

\* A thread past its pop holds an item, whose site is a site.
LEMMA InHandItem ==
    ASSUME TypeOK, NEW t \in Threads, pc[t] # "pop"
    PROVE  qi[t] \in SSQItem /\ qi[t].job \in Jobs /\ Site(t) \in Sites
<1>1. qi[t] \in SSQItem
  BY DEF TypeOK
<1>2. qi[t].job \in Jobs
  BY <1>1 DEF SSQItem
<1> QED
  BY <1>1, <1>2, SiteOfJob DEF Site

\* The jobs of a page's links are jobs.
LEMMA JobsFromAreJobs == ASSUME NEW j \in Jobs PROVE JobsFrom(j) \subseteq Jobs
<1>1. LinksOf[Url(j)] \subseteq Urls
  BY CrawlAssumption DEF Jobs, Url
<1>2. \A l \in Urls : Normal[l] # "" => Normal[l] \in Urls
  BY CrawlAssumption
<1> DEFINE cq == IF Pool(j) = "CPQ" THEN "CPQ" ELSE "COQ"
           iq == IF Pool(j) = "CPQ" THEN "IPQ" ELSE "IOQ"
           links == LinksOf[Url(j)] \ Malformed
           cates == {<<l, cq>> : l \in {x \in links : Kind[x] = "cate"}}
           items == {<<Normal[l], iq>> : l \in {x \in links : Kind[x] = "item" /\ Normal[x] # ""}}
<1>3. cq \in Pools /\ iq \in Pools
  BY DEF Pools
<1>4. links \subseteq Urls
  BY <1>1
<1> HIDE DEF cq, iq, links
<1>5. cates \subseteq Jobs
  BY <1>3, <1>4 DEF Jobs
<1>6. ASSUME NEW x \in items PROVE x \in Jobs
  <2>1. PICK l \in links : Normal[l] # "" /\ x = <<Normal[l], iq>>
    OBVIOUS
  <2>2. Normal[l] \in Urls
    BY <1>2, <1>4, <2>1
  <2> QED
    BY <1>3, <2>1, <2>2 DEF Jobs
<1>7. JobsFrom(j) = cates \cup items
  BY DEF JobsFrom, cq, iq, links
<1> QED
  BY <1>5, <1>6, <1>7

\* A job that is settled stays typed.
LEMMA SettleTypes ==
    ASSUME TypeOK, NEW j \in Jobs, NEW f \in Fates, Settle(j, f)
    PROVE  fate' \in [Jobs -> SUBSET Fates]
BY DEF TypeOK, Settle

LEMMA SettleAllTypes ==
    ASSUME TypeOK, NEW J, NEW f \in Fates, SettleAll(J, f)
    PROVE  fate' \in [Jobs -> SUBSET Fates]
BY DEF TypeOK, SettleAll

\* An item pushed, or dropped.
LEMMA PushTypes ==
    ASSUME TypeOK, NEW item \in SSQItem, PushOrDrop(item)
    PROVE  m_queue' \in Seq(SSQItem) /\ fate' \in [Jobs -> SUBSET Fates]
<1>1. item.job \in Jobs
  BY DEF SSQItem
<1>2. CASE Queue!push(item) /\ UNCHANGED fate
  BY <1>2, AppendItem DEF Queue!push, TypeOK
<1>3. CASE Queue!push_refused /\ Settle(item.job, "DROPPED")
  <2>1. fate' \in [Jobs -> SUBSET Fates]
    BY <1>1, <1>3, SettleTypes DEF Fates
  <2>2. m_queue' = m_queue
    BY <1>3 DEF Queue!push_refused, Queue!vars
  <2> QED
    BY <2>1, <2>2 DEF TypeOK
<1> QED
  BY <1>2, <1>3 DEF PushOrDrop

\* An item with one more failure counted is an item.
LEMMA CountedItem ==
    ASSUME NEW item \in SSQItem
    PROVE  /\ item.fail_count <= max_url_fail_count =>
                [item EXCEPT !.fail_count = @ + 1] \in SSQItem
           /\ item.dns_count <= max_dns_query_count =>
                [item EXCEPT !.dns_count = @ + 1] \in SSQItem
<1>1. max_url_fail_count \in Nat /\ max_dns_query_count \in Nat
  BY LimitTypes
<1>2. ASSUME item.fail_count <= max_url_fail_count
      PROVE  [item EXCEPT !.fail_count = @ + 1] \in SSQItem
  BY <1>1, <1>2 DEF SSQItem
<1>3. ASSUME item.dns_count <= max_dns_query_count
      PROVE  [item EXCEPT !.dns_count = @ + 1] \in SSQItem
  BY <1>1, <1>3 DEF SSQItem
<1> QED
  BY <1>2, <1>3

\* A thread that goes back to the top of its loop, having left the pools and
\* the select thread alone.
LEMMA NextUrlSound ==
    ASSUME Sound, NEW t \in Threads, pc[t] \notin {"ask", "askr"}, NextUrl(t),
           m_queue' \in Seq(SSQItem), fate' \in [Jobs -> SUBSET Fates],
           seen' \subseteq Jobs, known' \subseteq seen', waiting' \subseteq seen', seen \subseteq seen',
           UNCHANGED selVars
    PROVE  Sound'
<1> USE NoItemAssumption DEF NextUrl, Goto, selVars
<1>0. TypeOK /\ Counts /\ Addressed /\ 0 \in 0 .. max_url_redirect_count
  BY LimitTypes DEF Sound
<1>1. TypeOK'
  <2>1. pc' \in [Threads -> {"pop", "look", "ask", "noip", "gate", "fetch", "got",
                           "askr", "sort"}]
    BY <1>0 DEF TypeOK
  <2>2. qi' \in [Threads -> SSQItem \cup {NoItem}]
    BY <1>0 DEF TypeOK
  <2>3. (\A u \in Threads : pc[u] = "pop" <=> qi[u] = NoItem)'
    BY <1>0 DEF TypeOK
  <2>4. target' \in [Threads -> Sites \cup {NoSite}]
        /\ file_length' \in [Threads -> Outcomes \cup {"none"}]
        /\ location' \in [Threads -> Sites \cup {NoSite}]
        /\ redirect_count' \in [Threads -> 0 .. max_url_redirect_count]
    BY <1>0 DEF TypeOK
  <2>5. (DOMAIN m_ip_list \subseteq Sites
    /\ asking \in [Threads \cup {Selector} -> Sites \cup {NoSite}]
    /\ ip \in [Threads \cup {Selector} -> Sites \cup {NO_IP}])'
    BY <1>0 DEF TypeOK
  <2> QED
    BY <1>0, <2>1, <2>2, <2>3, <2>4, <2>5 DEF TypeOK
<1>2. Counts'
  BY <1>0 DEF TypeOK, Counts
<1>3. Addressed'
  BY <1>0 DEF TypeOK, Addressed, Site
<1> QED
  BY <1>1, <1>2, <1>3 DEF Sound

-----------------------------------------------------------------------------
(* The crawl thread keeps Sound: one lemma per step of its loop *)

LEMMA HitDns ==
    ASSUME Sound, NEW c \in Threads \cup {Selector}, NEW s, Dns!Hit(c, s)
    PROVE  /\ s \in Sites /\ m_ip_list[s] \in {s, NO_IP}
           /\ asking[c] = NoSite
           /\ ip' = [ip EXCEPT ![c] = m_ip_list[s]]
           /\ UNCHANGED <<m_ip_list, asking>>
BY DEF Dns!Hit, Sound, TypeOK, Addressed

LEMMA ResolveDns ==
    ASSUME Sound, NEW c \in Threads \cup {Selector}, asking[c] # NoSite,
           NEW a \in Resolver[asking[c]], Dns!Resolve(c, a)
    PROVE  /\ asking[c] \in Sites /\ a \in {asking[c], NO_IP}
           /\ DOMAIN m_ip_list' \subseteq Sites
           /\ \A s \in DOMAIN m_ip_list' : m_ip_list'[s] \in {s, NO_IP}
           /\ ip' = [ip EXCEPT ![c] = a]
           /\ asking' = [asking EXCEPT ![c] = NoSite]
<1>1. asking[c] \in Sites
  BY DEF Sound, TypeOK
<1>2. a \in {asking[c], NO_IP}
  BY <1>1, CrawlAssumption
<1>3. m_ip_list' = [x \in DOMAIN m_ip_list \cup {asking[c]} |->
                       IF x \in DOMAIN m_ip_list THEN m_ip_list[x] ELSE a]
  BY DEF Dns!Resolve, Dns!put_ip
<1>4. DOMAIN m_ip_list \subseteq Sites /\ \A s \in DOMAIN m_ip_list : m_ip_list[s] \in {s, NO_IP}
  BY DEF Sound, TypeOK, Addressed
<1>5. DOMAIN m_ip_list' \subseteq Sites
  BY <1>1, <1>3, <1>4
<1>6. \A s \in DOMAIN m_ip_list' : m_ip_list'[s] \in {s, NO_IP}
  BY <1>2, <1>3, <1>4
<1> QED
  BY <1>1, <1>2, <1>5, <1>6 DEF Dns!Resolve

LEMMA TakeSound == ASSUME Sound, NEW t \in Threads, Take(t) PROVE Sound'
<1> USE NoItemAssumption DEF Take, Goto, poolVars, selVars, fetchVars, dnsVars, Queue!pop
<1>0. TypeOK /\ Counts /\ Addressed
  BY DEF Sound
<1>1. /\ Head(m_queue) \in SSQItem /\ Tail(m_queue) \in Seq(SSQItem)
      /\ Head(m_queue).fail_count \in Nat /\ Head(m_queue).dns_count \in Nat
  <2>1. Head(m_queue) \in SSQItem /\ Tail(m_queue) \in Seq(SSQItem)
    BY <1>0, TakeItem DEF TypeOK
  <2> QED
    BY <2>1, ItemTypes
<1>2. /\ Head(m_queue).fail_count <= max_url_fail_count
      /\ Head(m_queue).dns_count <= max_dns_query_count
  BY <1>1, LimitTypes DEF Reject
<1>3. TypeOK'
  BY <1>0, <1>1 DEF TypeOK
<1>4. Counts'
  BY <1>0, <1>2 DEF TypeOK, Counts
<1>5. Addressed'
  BY <1>0 DEF TypeOK, Addressed, Site
<1> QED
  BY <1>3, <1>4, <1>5 DEF Sound

LEMMA DiscardSound == ASSUME Sound, NEW t \in Threads, Discard(t) PROVE Sound'
<1> USE DEF Discard, poolVars, selVars, threadVars, dnsVars, Queue!pop
<1>0. TypeOK /\ Counts /\ Addressed
  BY DEF Sound
<1>1. /\ Head(m_queue) \in SSQItem /\ Tail(m_queue) \in Seq(SSQItem)
      /\ Head(m_queue).job \in Jobs
  <2>1. Head(m_queue) \in SSQItem /\ Tail(m_queue) \in Seq(SSQItem)
    BY <1>0, TakeItem DEF TypeOK
  <2> QED
    BY <2>1, ItemTypes
<1>3. fate' \in [Jobs -> SUBSET Fates]
  BY <1>0, <1>1, SettleTypes DEF Fates
<1>4. TypeOK'
  BY <1>0, <1>1, <1>3 DEF TypeOK
<1>5. Counts'
  BY <1>0 DEF Counts
<1>6. Addressed'
  BY <1>0 DEF Addressed, Site
<1> QED
  BY <1>4, <1>5, <1>6 DEF Sound

LEMMA LookUpSound == ASSUME Sound, NEW t \in Threads, LookUp(t) PROVE Sound'
<1> USE DEF LookUp, Goto, queueVars, poolVars, selVars, fetchVars
<1>0. TypeOK /\ Counts /\ Addressed /\ Site(t) \in Sites /\ NoSite \notin Sites
  BY InHandItem, CrawlAssumption DEF Sound
<1>1. CASE Dns!Hit(t, Site(t)) /\ Goto(t, AfterGetIp(m_ip_list[Site(t)]))
  <2>1. /\ m_ip_list[Site(t)] \in {Site(t), NO_IP}
        /\ ip' = [ip EXCEPT ![t] = m_ip_list[Site(t)]]
        /\ UNCHANGED <<m_ip_list, asking>>
    BY <1>1, HitDns
  <2>2. TypeOK'
    BY <1>0, <1>1, <2>1 DEF TypeOK, AfterGetIp
  <2>3. Counts'
    BY <1>0, <1>1, <2>1 DEF TypeOK, Counts, AfterGetIp
  <2>4. Addressed'
    BY <1>0, <1>1, <2>1 DEF TypeOK, Addressed, AfterGetIp, Site
  <2> QED
    BY <2>2, <2>3, <2>4 DEF Sound
<1>2. CASE Dns!Miss(t, Site(t)) /\ Goto(t, "ask")
  <2>2. TypeOK'
    BY <1>0, <1>2 DEF TypeOK, Dns!Miss
  <2>3. Counts'
    BY <1>0, <1>2 DEF TypeOK, Counts
  <2>4. Addressed'
    BY <1>0, <1>2 DEF TypeOK, Addressed, Site, Dns!Miss
  <2> QED
    BY <2>2, <2>3, <2>4 DEF Sound
<1> QED
  BY <1>1, <1>2

LEMMA GetIpSound == ASSUME Sound, NEW t \in Threads, GetIp(t) PROVE Sound'
<1> USE DEF GetIp, Goto, queueVars, poolVars, selVars, fetchVars
<1>0. TypeOK /\ Counts /\ Addressed /\ NoSite \notin Sites
  BY CrawlAssumption DEF Sound
<1>1. asking[t] = Site(t) /\ asking[t] # NoSite
  BY <1>0 DEF Addressed
<1>2. PICK a \in Resolver[asking[t]] : Dns!Resolve(t, a) /\ Goto(t, AfterGetIp(a))
  OBVIOUS
<1>3. /\ asking[t] \in Sites /\ a \in {asking[t], NO_IP}
      /\ DOMAIN m_ip_list' \subseteq Sites
      /\ \A s \in DOMAIN m_ip_list' : m_ip_list'[s] \in {s, NO_IP}
      /\ ip' = [ip EXCEPT ![t] = a]
      /\ asking' = [asking EXCEPT ![t] = NoSite]
  BY <1>1, <1>2, ResolveDns
<1>4. TypeOK'
  BY <1>0, <1>2, <1>3 DEF TypeOK, AfterGetIp
<1>5. Counts'
  BY <1>0, <1>2 DEF TypeOK, Counts, AfterGetIp
<1>6. Addressed'
  BY <1>0, <1>1, <1>2, <1>3 DEF TypeOK, Addressed, AfterGetIp, Site
<1> QED
  BY <1>4, <1>5, <1>6 DEF Sound

LEMMA RequeueNoIpSound == ASSUME Sound, NEW t \in Threads, RequeueNoIp(t) PROVE Sound'
<1> DEFINE item == [qi[t] EXCEPT !.dns_count = @ + 1]
<1>0. TypeOK /\ Counts /\ Addressed
  BY DEF Sound
<1>1. /\ pc[t] = "noip" /\ PushOrDrop(item)
      /\ qi' = [qi EXCEPT ![t] = item] /\ pc' = [pc EXCEPT ![t] = "gate"]
      /\ UNCHANGED <<dnsVars, poolVars, selVars, fetchVars>>
  BY DEF RequeueNoIp, Goto
<1>2. qi[t] \in SSQItem
  BY <1>0, <1>1, InHandItem
<1>3. item \in SSQItem /\ item.fail_count = qi[t].fail_count /\ item.job = qi[t].job
  <2>1. item \in SSQItem
    BY <1>0, <1>1, <1>2, CountedItem DEF Counts
  <2> QED
    BY <1>2, <2>1 DEF SSQItem
<1> HIDE DEF item
<1>4. m_queue' \in Seq(SSQItem) /\ fate' \in [Jobs -> SUBSET Fates]
  BY <1>0, <1>1, <1>3, PushTypes
<1> USE DEF dnsVars, poolVars, selVars, fetchVars
<1>5. TypeOK'
  BY <1>0, <1>1, <1>3, <1>4, NoItemAssumption DEF TypeOK
<1>6. Counts'
  BY <1>0, <1>1, <1>3 DEF TypeOK, Counts
<1>7. Addressed'
  BY <1>0, <1>1, <1>3 DEF TypeOK, Addressed, Site
<1> QED
  BY <1>5, <1>6, <1>7 DEF Sound

LEMMA EnterSound == ASSUME Sound, NEW t \in Threads, Enter(t) PROVE Sound'
<1> USE DEF Enter, Goto, queueVars, dnsVars, poolVars, selVars
<1>0. TypeOK /\ Counts /\ Addressed /\ Site(t) \in Sites
  BY InHandItem DEF Sound
<1>1. TypeOK'
  BY <1>0 DEF TypeOK
<1>2. Counts'
  BY <1>0 DEF TypeOK, Counts
<1>3. Addressed'
  BY <1>0 DEF TypeOK, Counts, Addressed, Site
<1> QED
  BY <1>1, <1>2, <1>3 DEF Sound

LEMMA DelaySound == ASSUME Sound, NEW t \in Threads, Delay(t) PROVE Sound'
<1>0. TypeOK /\ qi[t] \in SSQItem
  BY InHandItem DEF Sound, Delay
<1>1. m_queue' \in Seq(SSQItem) /\ fate' \in [Jobs -> SUBSET Fates]
  BY <1>0, PushTypes DEF Delay
<1> QED
  BY <1>0, <1>1, NextUrlSound DEF Delay, poolVars, TypeOK

LEMMA FetchedSound == ASSUME Sound, NEW t \in Threads, Fetched(t) PROVE Sound'
<1> USE DEF Fetched, Goto, queueVars, dnsVars, poolVars, selVars
<1>0. TypeOK /\ Counts /\ Addressed
  BY DEF Sound
<1>1. TypeOK'
  BY <1>0 DEF TypeOK
<1>2. Counts'
  BY <1>0 DEF TypeOK, Counts
<1>3. Addressed'
  BY <1>0 DEF TypeOK, Counts, Addressed, Site
<1> QED
  BY <1>1, <1>2, <1>3 DEF Sound

LEMMA NotFoundSound == ASSUME Sound, NEW t \in Threads, NotFound(t) PROVE Sound'
<1>0. TypeOK /\ qi[t].job \in Jobs
  BY InHandItem DEF Sound, NotFound
<1>1. fate' \in [Jobs -> SUBSET Fates]
  BY <1>0, SettleTypes DEF NotFound, Fates
<1> QED
  BY <1>0, <1>1, NextUrlSound DEF NotFound, queueVars, poolVars, TypeOK

\* The two ways on from the answer for a redirection's site.
LEMMA AfterRedirectSound ==
    ASSUME Sound, NEW t \in Threads, pc[t] \in {"got", "askr"},
           redirect_count[t] < max_url_redirect_count,
           NEW s \in Sites, NEW a \in {s, NO_IP}, AfterRedirectIp(t, s, a),
           ip' = [ip EXCEPT ![t] = a],
           DOMAIN m_ip_list' \subseteq Sites,
           \A x \in DOMAIN m_ip_list' : m_ip_list'[x] \in {x, NO_IP},
           asking' = [asking EXCEPT ![t] = NoSite],
           UNCHANGED <<queueVars, poolVars, selVars, qi, fate>>
    PROVE  Sound'
<1> USE DEF AfterRedirectIp, Refetch, BreakOff, Goto, queueVars, poolVars, selVars
<1>0. TypeOK /\ Counts /\ Addressed /\ NoSite \notin Sites /\ NO_IP \notin Sites
  BY CrawlAssumption DEF Sound
<1>1. TypeOK'
  <2>0. redirect_count[t] + 1 \in 0 .. max_url_redirect_count
    BY <1>0, LimitTypes DEF TypeOK
  <2>1. redirect_count' \in [Threads -> 0 .. max_url_redirect_count]
    BY <1>0, <2>0 DEF TypeOK
  <2>2. pc' \in [Threads -> {"pop", "look", "ask", "noip", "gate", "fetch", "got",
                             "askr", "sort"}]
    BY <1>0 DEF TypeOK
  <2>3. (\A u \in Threads : pc[u] = "pop" <=> qi[u] = NoItem)'
    BY <1>0 DEF TypeOK
  <2>4. (target \in [Threads -> Sites \cup {NoSite}]
           /\ file_length \in [Threads -> Outcomes \cup {"none"}]
           /\ location \in [Threads -> Sites \cup {NoSite}])'
    BY <1>0 DEF TypeOK
  <2>5. (asking \in [Threads \cup {Selector} -> Sites \cup {NoSite}]
           /\ ip \in [Threads \cup {Selector} -> Sites \cup {NO_IP}])'
    BY <1>0 DEF TypeOK
  <2> QED
    BY <1>0, <2>1, <2>2, <2>3, <2>4, <2>5 DEF TypeOK
<1>2. Counts'
  BY <1>0 DEF TypeOK, Counts
<1>3. Addressed'
  BY <1>0, LimitTypes DEF TypeOK, Addressed, Site
<1> QED
  BY <1>1, <1>2, <1>3 DEF Sound

LEMMA FollowSound == ASSUME Sound, NEW t \in Threads, Follow(t) PROVE Sound'
<1> DEFINE s == location[t]
<1>0. TypeOK /\ Counts /\ Addressed /\ NoSite \notin Sites /\ NO_IP \notin Sites
  BY CrawlAssumption DEF Sound
<1>1. /\ pc[t] = "got" /\ s \in Sites /\ redirect_count[t] < max_url_redirect_count
      /\ UNCHANGED <<queueVars, poolVars, selVars, qi, fate>>
  BY <1>0 DEF Follow, MayFollow, TypeOK
<1>2. asking[t] = NoSite
  BY <1>0, <1>1 DEF Addressed
<1> HIDE DEF s
<1>3. CASE s = Site(t) /\ Refetch(t, s) /\ UNCHANGED dnsVars
  <2> USE <1>0, <1>1, <1>3, LimitTypes
          DEF Refetch, Goto, queueVars, poolVars, selVars, dnsVars, TypeOK
  <2>1. TypeOK'
    OBVIOUS
  <2>2. Counts'
    BY DEF Counts
  <2>3. Addressed'
    BY DEF Addressed, Site
  <2> QED
    BY <2>1, <2>2, <2>3 DEF Sound
<1>4. CASE Dns!Hit(t, s) /\ AfterRedirectIp(t, s, m_ip_list[s])
  <2>1. /\ m_ip_list[s] \in {s, NO_IP}
        /\ ip' = [ip EXCEPT ![t] = m_ip_list[s]]
        /\ UNCHANGED <<m_ip_list, asking>>
    BY <1>4, HitDns
  <2>2. asking' = [asking EXCEPT ![t] = NoSite]
    BY <1>0, <1>2, <2>1 DEF TypeOK
  <2>3. /\ DOMAIN m_ip_list' \subseteq Sites
        /\ \A x \in DOMAIN m_ip_list' : m_ip_list'[x] \in {x, NO_IP}
    BY <1>0, <2>1 DEF TypeOK, Addressed
  <2> QED
    BY <1>1, <1>4, <2>1, <2>2, <2>3, AfterRedirectSound
<1>5. CASE Dns!Miss(t, s) /\ Goto(t, "askr") /\ UNCHANGED fetchVars
  <2> USE <1>0, <1>1, <1>5, LimitTypes
          DEF Dns!Miss, Goto, queueVars, poolVars, selVars, fetchVars, TypeOK
  <2>1. TypeOK'
    OBVIOUS
  <2>2. Counts'
    BY DEF Counts
  <2>3. Addressed'
    BY DEF Addressed, Site
  <2> QED
    BY <2>1, <2>2, <2>3 DEF Sound
<1> QED
  BY <1>3, <1>4, <1>5 DEF Follow, s

LEMMA GetRedirectIpSound == ASSUME Sound, NEW t \in Threads, GetRedirectIp(t) PROVE Sound'
<1>0. TypeOK /\ Counts /\ Addressed
  BY DEF Sound
<1>1. pc[t] = "askr" /\ asking[t] # NoSite /\ redirect_count[t] < max_url_redirect_count
  BY <1>0 DEF GetRedirectIp, Counts, Addressed
<1>2. PICK a \in Resolver[asking[t]] : Dns!Resolve(t, a) /\ AfterRedirectIp(t, asking[t], a)
  BY DEF GetRedirectIp
<1>3. /\ asking[t] \in Sites /\ a \in {asking[t], NO_IP}
      /\ DOMAIN m_ip_list' \subseteq Sites
      /\ \A s \in DOMAIN m_ip_list' : m_ip_list'[s] \in {s, NO_IP}
      /\ ip' = [ip EXCEPT ![t] = a]
      /\ asking' = [asking EXCEPT ![t] = NoSite]
  BY <1>1, <1>2, ResolveDns
<1> QED
  BY <1>1, <1>2, <1>3, AfterRedirectSound DEF GetRedirectIp

LEMMA LeaveSound == ASSUME Sound, NEW t \in Threads, Leave(t) PROVE Sound'
<1> USE DEF Leave, Goto, queueVars, dnsVars, poolVars, selVars, fetchVars
<1>0. TypeOK /\ Counts /\ Addressed
  BY DEF Sound
<1>1. TypeOK'
  BY <1>0 DEF TypeOK
<1>2. Counts'
  BY <1>0 DEF TypeOK, Counts
<1>3. Addressed'
  BY <1>0 DEF TypeOK, Addressed, Site
<1> QED
  BY <1>1, <1>2, <1>3 DEF Sound

LEMMA RedirectNotFoundSound == ASSUME Sound, NEW t \in Threads, RedirectNotFound(t) PROVE Sound'
<1>0. TypeOK /\ qi[t].job \in Jobs
  BY InHandItem DEF Sound, RedirectNotFound
<1>1. fate' \in [Jobs -> SUBSET Fates]
  BY <1>0, SettleTypes DEF RedirectNotFound, Fates
<1> QED
  BY <1>0, <1>1, NextUrlSound DEF RedirectNotFound, queueVars, poolVars, TypeOK

LEMMA NetFailSound == ASSUME Sound, NEW t \in Threads, NetFail(t) PROVE Sound'
<1>0. TypeOK /\ qi[t] \in SSQItem /\ qi[t].fail_count <= max_url_fail_count
  BY InHandItem DEF Sound, NetFail, Counts
<1>1. m_queue' \in Seq(SSQItem) /\ fate' \in [Jobs -> SUBSET Fates]
  BY <1>0, CountedItem, PushTypes DEF NetFail
<1> QED
  BY <1>0, <1>1, NextUrlSound DEF NetFail, poolVars, TypeOK

LEMMA StoreSound == ASSUME Sound, NEW t \in Threads, Store(t) PROVE Sound'
<1>0. TypeOK /\ qi[t].job \in Jobs
  BY InHandItem DEF Sound, Store
<1>1. fate' \in [Jobs -> SUBSET Fates]
  BY <1>0, SettleTypes DEF Store, write_page_list, Fates
<1>2. /\ seen' \subseteq Jobs /\ waiting' \subseteq seen' /\ known' \subseteq seen'
      /\ seen \subseteq seen'
  BY <1>0, JobsFromAreJobs DEF Store, write_to_queue, push_url, poolVars, TypeOK
<1> QED
  BY <1>0, <1>1, <1>2, NextUrlSound DEF Store, queueVars, TypeOK

-----------------------------------------------------------------------------
(* So do the select thread and the clock *)

LEMMA HangSound == ASSUME Sound, Hang PROVE Sound'
<1> USE DEF Hang, queueVars, dnsVars, poolVars, threadVars
<1>0. TypeOK /\ Counts /\ Addressed
  BY DEF Sound
<1>1. TypeOK'
  BY <1>0 DEF TypeOK
<1> QED
  BY <1>0, <1>1 DEF Sound, Counts, Addressed, Site

LEMMA CopySound == ASSUME Sound, Copy PROVE Sound'
<1> USE DEF Copy, queueVars, dnsVars, poolVars, threadVars
<1>0. TypeOK /\ Counts /\ Addressed
  BY DEF Sound
<1>1. picked' \subseteq seen
  BY <1>0 DEF TypeOK, WaitingIn
<1>2. TypeOK'
  BY <1>0, <1>1 DEF TypeOK
<1> QED
  BY <1>0, <1>2 DEF Sound, Counts, Addressed, Site

LEMMA ClearDrainedSound == ASSUME Sound, ClearDrained PROVE Sound'
<1> USE DEF ClearDrained, queueVars, dnsVars, threadVars
<1>0. TypeOK /\ Counts /\ Addressed
  BY DEF Sound
<1>1. fate' \in [Jobs -> SUBSET Fates]
  BY <1>0, SettleAllTypes DEF Fates
<1>2. at' \in 1 .. 4 /\ selpc' \in {"copy", "quota"}
  BY <1>0 DEF TypeOK
<1>3. TypeOK'
  BY <1>0, <1>1, <1>2 DEF TypeOK
<1> QED
  BY <1>0, <1>3 DEF Sound, Counts, Addressed, Site

LEMMA SelectUrlSound == ASSUME Sound, select_url PROVE Sound'
<1> USE DEF select_url, queueVars, dnsVars, poolVars, threadVars
<1>0. TypeOK /\ Counts /\ Addressed
  BY DEF Sound
<1>1. buffer' \subseteq seen /\ picked' \subseteq seen
  BY <1>0 DEF TypeOK
<1>2. m_sites' \subseteq Sites /\ m_sites \subseteq m_sites'
  <2>1. PICK B \in SUBSET {j \in picked : Selectable(j)} :
           \E S \in SUBSET {SiteOf[Url(j)] : j \in B} : m_sites' = m_sites \cup S
    OBVIOUS
  <2>2. \A j \in B : SiteOf[Url(j)] \in Sites
    BY <1>0, <2>1, SiteOfJob DEF TypeOK
  <2>3. PICK S \in SUBSET {SiteOf[Url(j)] : j \in B} : m_sites' = m_sites \cup S
    BY <2>1
  <2>4. S \subseteq Sites
    BY <2>2, <2>3
  <2>5. m_sites \subseteq Sites
    BY <1>0 DEF TypeOK
  <2> QED
    BY <2>3, <2>4, <2>5
<1>3. fate' \in [Jobs -> SUBSET Fates]
  BY <1>0, SettleAllTypes DEF Fates
<1>4. TypeOK'
  BY <1>0, <1>1, <1>2, <1>3 DEF TypeOK
<1>5. Counts'
  BY <1>0 DEF Counts
<1>6. Addressed'
  BY <1>0 DEF Addressed, Site
<1> QED
  BY <1>4, <1>5, <1>6 DEF Sound

LEMMA InsertUrlSound == ASSUME Sound, insert_url PROVE Sound'
<1> USE DEF insert_url, Dns!clear_map, queueVars, threadVars
<1>0. TypeOK /\ Counts /\ Addressed
  BY DEF Sound
<1>1. fate' \in [Jobs -> SUBSET Fates]
  BY <1>0, SettleAllTypes DEF Fates
<1>2. waiting' \subseteq seen
  BY <1>0 DEF TypeOK
<1>3. TypeOK'
  BY <1>0, <1>1, <1>2 DEF TypeOK
<1>4. Counts'
  BY <1>0 DEF Counts
<1>5. Addressed'
  BY <1>0 DEF Addressed, Site
<1> QED
  BY <1>3, <1>4, <1>5 DEF Sound

LEMMA EndSamsaraSound == ASSUME Sound, EndSamsara PROVE Sound'
<1> USE DEF EndSamsara, Queue!clear, dnsVars, poolVars, threadVars
<1>0. TypeOK /\ Counts /\ Addressed
  BY DEF Sound
<1>1. fate' \in [Jobs -> SUBSET Fates]
  BY <1>0, SettleAllTypes DEF Fates
<1>2. TypeOK'
  BY <1>0, <1>1 DEF TypeOK
<1> QED
  BY <1>0, <1>2 DEF Sound, Counts, Addressed, Site

LEMMA ClearUrlsSound == ASSUME Sound, clear_urls PROVE Sound'
<1> USE DEF clear_urls, queueVars, dnsVars, threadVars
<1>0. TypeOK /\ Counts /\ Addressed
  BY DEF Sound
<1>1. fate' \in [Jobs -> SUBSET Fates]
  BY <1>0, SettleAllTypes DEF Fates
<1>2. at' \in 1 .. 4 /\ selpc' \in {"clear", "over"}
  BY <1>0 DEF TypeOK
<1>3. TypeOK'
  BY <1>0, <1>1, <1>2 DEF TypeOK
<1> QED
  BY <1>0, <1>3 DEF Sound, Counts, Addressed, Site

LEMMA RefreshSound == ASSUME Sound, Refresh PROVE Sound'
<1> USE DEF Refresh, queueVars, poolVars, threadVars
<1>0. TypeOK /\ Counts /\ Addressed /\ Selector \notin Threads
  BY CrawlAssumption DEF Sound
<1>1. /\ DOMAIN m_ip_list' \subseteq Sites
      /\ \A s \in DOMAIN m_ip_list' : m_ip_list'[s] \in {s, NO_IP}
      /\ \E a \in Sites \cup {NO_IP} : ip' = [ip EXCEPT ![Selector] = a]
      /\ \E s \in Sites \cup {NoSite} : asking' = [asking EXCEPT ![Selector] = s]
      /\ refresh' \subseteq m_sites
  <2>1. CASE \E s \in refresh : Dns!Hit(Selector, s) /\ refresh' = refresh \ {s}
    <3>1. PICK s \in refresh : Dns!Hit(Selector, s) /\ refresh' = refresh \ {s}
      BY <2>1
    <3>2. /\ s \in Sites /\ m_ip_list[s] \in {s, NO_IP}
          /\ asking[Selector] = NoSite
          /\ ip' = [ip EXCEPT ![Selector] = m_ip_list[s]]
          /\ UNCHANGED <<m_ip_list, asking>>
      BY <3>1, HitDns
    <3>3. asking' = [asking EXCEPT ![Selector] = NoSite]
      BY <1>0, <3>2 DEF TypeOK
    <3> QED
      BY <1>0, <3>1, <3>2, <3>3 DEF TypeOK, Addressed
  <2>2. CASE (\E s \in refresh : Dns!Miss(Selector, s)) /\ UNCHANGED refresh
    <3>1. ip' = [ip EXCEPT ![Selector] = ip[Selector]] /\ ip[Selector] \in Sites \cup {NO_IP}
      BY <1>0, <2>2 DEF TypeOK, Dns!Miss
    <3> QED
      BY <1>0, <2>2, <3>1 DEF TypeOK, Addressed, Dns!Miss
  <2>3. CASE /\ asking[Selector] # NoSite
             /\ \E a \in Resolver[asking[Selector]] : Dns!Resolve(Selector, a)
             /\ refresh' = refresh \ {asking[Selector]}
    <3>1. PICK a \in Resolver[asking[Selector]] : Dns!Resolve(Selector, a)
      BY <2>3
    <3>2. /\ asking[Selector] \in Sites /\ a \in {asking[Selector], NO_IP}
          /\ DOMAIN m_ip_list' \subseteq Sites
          /\ \A s \in DOMAIN m_ip_list' : m_ip_list'[s] \in {s, NO_IP}
          /\ ip' = [ip EXCEPT ![Selector] = a]
          /\ asking' = [asking EXCEPT ![Selector] = NoSite]
      BY <2>3, <3>1, ResolveDns
    <3> QED
      BY <1>0, <2>3, <3>2 DEF TypeOK
  <2> QED
    BY <2>1, <2>2, <2>3
<1>2. TypeOK'
  BY <1>0, <1>1 DEF TypeOK
<1>3. Counts'
  BY <1>0 DEF Counts
<1>4. \A t \in Threads : asking'[t] = asking[t] /\ ip'[t] = ip[t]
  BY <1>0, <1>1 DEF TypeOK
<1>5. Addressed'
  BY <1>0, <1>1, <1>4 DEF Addressed, Site
<1> QED
  BY <1>2, <1>3, <1>5 DEF Sound

LEMMA FreshItem == ASSUME NEW j \in Jobs
                   PROVE  [job |-> j, fail_count |-> 0, dns_count |-> 0] \in SSQItem
BY LimitTypes DEF SSQItem

LEMMA InsertSound == ASSUME Sound, Insert PROVE Sound'
<1> USE DEF Insert, dnsVars, poolVars, threadVars
<1>0. TypeOK /\ Counts /\ Addressed
  BY DEF Sound
<1>1. PICK j \in buffer :
         /\ Queue!push([job |-> j, fail_count |-> 0, dns_count |-> 0])
         /\ buffer' = buffer \ {j}
  OBVIOUS
<1>2. m_queue' \in Seq(SSQItem)
  BY <1>0, <1>1, FreshItem, AppendItem DEF TypeOK, Queue!push
<1>3. TypeOK'
  BY <1>0, <1>1, <1>2 DEF TypeOK
<1>4. Counts'
  BY <1>0 DEF Counts
<1>5. Addressed'
  BY <1>0 DEF Addressed, Site
<1> QED
  BY <1>3, <1>4, <1>5 DEF Sound

LEMMA InsertedSound == ASSUME Sound, Inserted PROVE Sound'
<1> USE DEF Inserted, queueVars, poolVars, threadVars
<1>0. TypeOK /\ Counts /\ Addressed /\ Selector \notin Threads
  BY CrawlAssumption DEF Sound
<1>1. TypeOK'
  BY <1>0 DEF TypeOK
<1>2. Counts'
  BY <1>0 DEF Counts
<1>3. Addressed'
  BY <1>0 DEF Addressed, Site, TypeOK
<1> QED
  BY <1>1, <1>2, <1>3 DEF Sound

LEMMA InitSound == Init => Sound
<1> SUFFICES ASSUME Init PROVE Sound
  OBVIOUS
<1> USE DEF Init, Queue!Init, Dns!Init
<1>0. Seeds \subseteq Jobs
  <2>1. Seeds \subseteq (Urls \ Malformed) \X {"CPQ", "COQ"}
    BY CrawlAssumption
  <2> QED
    BY <2>1 DEF Jobs, Pools
<1>1. TypeOK
  BY <1>0, LimitTypes DEF TypeOK
<1>2. Counts
  BY DEF Counts
<1>3. Addressed
  BY DEF Addressed
<1> QED
  BY <1>1, <1>2, <1>3 DEF Sound

\* Every step of every thread keeps Sound.
LEMMA NextSound == Sound /\ [Next]_vars => Sound'
<1> SUFFICES ASSUME Sound, [Next]_vars PROVE Sound'
  OBVIOUS
<1>1. ASSUME NEW t \in Threads, CrawlStep(t) PROVE Sound'
  BY <1>1, TakeSound, DiscardSound, LookUpSound, GetIpSound, RequeueNoIpSound,
     EnterSound, DelaySound, FetchedSound, NotFoundSound, FollowSound,
     GetRedirectIpSound, LeaveSound, RedirectNotFoundSound, NetFailSound, StoreSound
     DEF CrawlStep
<1>2. CASE SelectStep
  BY <1>2, HangSound, CopySound, ClearDrainedSound, SelectUrlSound, InsertUrlSound,
     RefreshSound, InsertSound, InsertedSound, EndSamsaraSound, ClearUrlsSound
     DEF SelectStep
<1>3. CASE Tick \/ Reload \/ UNCHANGED vars
  BY <1>3 DEF Tick, Reload, vars, queueVars, dnsVars, poolVars, selVars, threadVars,
              Sound, TypeOK, Counts, Addressed, Site
<1> QED
  BY <1>1, <1>2, <1>3 DEF Next

LEMMA SoundInvariant == Spec => []Sound
BY InitSound, NextSound, PTL DEF Spec

\* The state of the crawl always has its type: in particular the counts of a
\* queued item never pass their limits by more than one.
THEOREM CrawlType == Spec => []TypeOK
<1>1. Sound => TypeOK
  BY DEF Sound
<1> QED
  BY <1>1, SoundInvariant, PTL

\* The first fetch of a URL and the first redirection go to an address of the
\* site they name, however the select thread clears the cache meanwhile.
THEOREM CrawlFetchesItsSite == Spec => []FetchesItsSite
<1>1. Sound => FetchesItsSite
  <2> SUFFICES ASSUME Sound, NEW t \in Threads, pc[t] = "fetch", redirect_count[t] <= 1
               PROVE  ip[t] \in {target[t], NO_IP}
    BY DEF FetchesItsSite
  <2>1. redirect_count[t] \in {0, 1}
    BY LimitTypes DEF Sound, TypeOK
  <2> QED
    BY <2>1 DEF Sound, Addressed
<1> QED
  BY <1>1, SoundInvariant, PTL

-----------------------------------------------------------------------------
(* The queue *)

\* What any step does to the queue is one of CSelectedQueue's operations.
LEMMA QueueStep ==
    ASSUME Sound, [Next]_vars
    PROVE  \/ \E item \in SSQItem : Queue!push(item)
           \/ Queue!pop
           \/ Queue!clear
           \/ UNCHANGED queueVars
<1>0. TypeOK
  BY DEF Sound
<1>1. ASSUME NEW item \in SSQItem, PushOrDrop(item)
      PROVE  Queue!push(item) \/ UNCHANGED queueVars
  BY <1>1 DEF PushOrDrop, Queue!push_refused, Queue!vars, queueVars
<1>2. ASSUME NEW t \in Threads, Take(t) \/ Discard(t) PROVE Queue!pop
  BY <1>2 DEF Take, Discard
<1>3. ASSUME NEW t \in Threads, RequeueNoIp(t)
      PROVE  \E item \in SSQItem : PushOrDrop(item)
  <2>1. [qi[t] EXCEPT !.dns_count = @ + 1] \in SSQItem
    BY <1>0, <1>3, InHandItem, CountedItem DEF RequeueNoIp, Sound, Counts
  <2> QED
    BY <1>3, <2>1 DEF RequeueNoIp
<1>4. ASSUME NEW t \in Threads, Delay(t) PROVE \E item \in SSQItem : PushOrDrop(item)
  BY <1>0, <1>4, InHandItem DEF Delay
<1>5. ASSUME NEW t \in Threads, NetFail(t) PROVE \E item \in SSQItem : PushOrDrop(item)
  <2>1. [qi[t] EXCEPT !.fail_count = @ + 1] \in SSQItem
    BY <1>0, <1>5, InHandItem, CountedItem DEF NetFail, Sound, Counts
  <2> QED
    BY <1>5, <2>1 DEF NetFail
<1>6. CASE Insert
  BY <1>0, <1>6, FreshItem DEF Insert, TypeOK
<1>7. ASSUME NEW t \in Threads,
             \/ LookUp(t) \/ GetIp(t) \/ Enter(t) \/ Fetched(t) \/ NotFound(t) \/ Follow(t)
             \/ GetRedirectIp(t) \/ Leave(t) \/ RedirectNotFound(t) \/ Store(t)
      PROVE  UNCHANGED queueVars
  BY <1>7 DEF LookUp, GetIp, Enter, Fetched, NotFound, Follow, GetRedirectIp, Leave,
              RedirectNotFound, Store
<1>8. CASE EndSamsara
  BY <1>8 DEF EndSamsara
<1>9. CASE \/ Hang \/ Copy \/ ClearDrained \/ select_url \/ insert_url \/ Refresh
           \/ Inserted \/ clear_urls \/ Tick \/ Reload \/ UNCHANGED vars
  BY <1>9 DEF Hang, Copy, ClearDrained, select_url, insert_url, Refresh, Inserted,
              clear_urls, Tick, Reload, vars
<1> QED
  BY <1>1, <1>2, <1>3, <1>4, <1>5, <1>6, <1>7, <1>8, <1>9 DEF Next, CrawlStep, SelectStep

\* Whatever threads push and pop, the queue's counter is its length and stays
\* within the capacity, although the full test is only an equality.
THEOREM CrawlQueueBounded == Spec => []QueueBounded
<1> USE LimitTypes DEF QueueBounded, Queue!QueueBounded
<1>1. Init => QueueBounded
  BY DEF Init, Queue!Init
<1>2. ASSUME Sound, QueueBounded, [Next]_vars PROVE QueueBounded'
  <2>0. m_queue \in Seq(SSQItem)
    BY <1>2 DEF Sound, TypeOK
  <2>1. CASE \E item \in SSQItem : Queue!push(item)
    BY <1>2, <2>0, <2>1, AppendItem DEF Queue!push, Queue!Full
  <2>2. CASE Queue!pop
    BY <1>2, <2>0, <2>2, TakeItem DEF Queue!pop
  <2>3. CASE Queue!clear
    BY <2>3 DEF Queue!clear
  <2>4. CASE UNCHANGED queueVars
    BY <1>2, <2>4 DEF queueVars
  <2> QED
    BY <1>2, <2>1, <2>2, <2>3, <2>4, QueueStep
<1>3. Sound /\ QueueBounded /\ [Next]_vars => QueueBounded'
  BY <1>2
<1> QED
  BY <1>1, <1>3, SoundInvariant, PTL DEF Spec

\* CSelectedQueue by itself, under any pushes and pops and clear: the counter is
\* the length of the deque and never passes the capacity.
THEOREM SelectedQueueBounded == Queue!Spec => []Queue!QueueBounded
<1> DEFINE Inv == Queue!TypeOK /\ Queue!QueueBounded
<1> USE LimitTypes DEF Queue!TypeOK, Queue!QueueBounded
<1>1. Queue!Init => Inv
  BY DEF Queue!Init
<1>2. Inv /\ [Queue!Next]_(Queue!vars) => Inv'
  <2> SUFFICES ASSUME Inv, [Queue!Next]_(Queue!vars) PROVE Inv'
    OBVIOUS
  <2>1. ASSUME NEW item \in SSQItem, Queue!push(item) PROVE Inv'
    BY <2>1, AppendItem DEF Queue!push, Queue!Full
  <2>2. CASE Queue!pop
    BY <2>2, TakeItem DEF Queue!pop
  <2>3. CASE Queue!clear
    BY <2>3 DEF Queue!clear
  <2>4. CASE UNCHANGED Queue!vars
    BY <2>4 DEF Queue!vars
  <2> QED
    BY <2>1, <2>2, <2>3, <2>4 DEF Queue!Next, Queue!push_refused, Queue!pop_empty
<1>3. Inv => Queue!QueueBounded
  OBVIOUS
<1> QED
  BY <1>1, <1>2, <1>3, PTL DEF Queue!Spec

-----------------------------------------------------------------------------
(* No URL vanishes *)

\* A selection starts with an empty buffer: nothing in it is overwritten.
BufferEmptied == selpc \in {"copy", "wipe", "quota"} => buffer = {}

Traced == NothingVanishes /\ BufferEmptied

\* A push that is refused leaves the drop on record.
LEMMA PushCopies ==
    ASSUME TypeOK, NEW item \in SSQItem, PushOrDrop(item), NEW j \in Jobs
    PROVE  /\ Queued(j) # {} => Queued(j)' # {}
           /\ fate[j] \subseteq fate'[j]
           /\ j = item.job => Queued(j)' # {} \/ fate'[j] # {}
<1>0. m_queue \in Seq(SSQItem) /\ item.job \in Jobs /\ fate \in [Jobs -> SUBSET Fates]
  BY ItemTypes DEF TypeOK
<1>1. CASE Queue!push(item) /\ UNCHANGED fate
  <2>1. m_queue' = Append(m_queue, item)
    BY <1>1 DEF Queue!push
  <2>2. /\ m_queue' \in Seq(SSQItem) /\ Len(m_queue) \in Nat
        /\ Len(m_queue') = Len(m_queue) + 1
        /\ \A i \in 1 .. Len(m_queue) : m_queue'[i] = m_queue[i]
        /\ m_queue'[Len(m_queue) + 1] = item
    BY <1>0, <2>1, AppendItem
  <2>3. DOMAIN m_queue = 1 .. Len(m_queue) /\ DOMAIN m_queue' = 1 .. Len(m_queue) + 1
    BY <1>0, <2>2
  <2> QED
    BY <1>1, <2>2, <2>3 DEF Queued
<1>2. CASE Queue!push_refused /\ Settle(item.job, "DROPPED")
  <2>1. m_queue' = m_queue
    BY <1>2 DEF Queue!push_refused, Queue!vars
  <2> QED
    BY <1>0, <1>2, <2>1 DEF Settle, Queued
<1> QED
  BY <1>1, <1>2 DEF PushOrDrop

\* A pop takes a copy of one job only, the head's.
LEMMA PopCopies ==
    ASSUME TypeOK, Queue!pop, NEW j \in Jobs, j # Head(m_queue).job, Queued(j) # {}
    PROVE  Queued(j)' # {}
<1>0. m_queue \in Seq(SSQItem) /\ m_queue # <<>> /\ m_queue' = Tail(m_queue)
  BY DEF TypeOK, Queue!pop
<1>1. /\ Head(m_queue) = m_queue[1] /\ m_queue' \in Seq(SSQItem)
      /\ Len(m_queue) \in Nat \ {0} /\ Len(m_queue') = Len(m_queue) - 1
      /\ \A i \in 1 .. Len(m_queue) - 1 : m_queue'[i] = m_queue[i + 1]
  BY <1>0, TakeItem
<1>2. PICK i \in 1 .. Len(m_queue) : m_queue[i].job = j
  BY <1>0 DEF Queued
<1>3. i - 1 \in 1 .. Len(m_queue') /\ m_queue'[i - 1] = m_queue[i]
  BY <1>1, <1>2
<1>4. DOMAIN m_queue' = 1 .. Len(m_queue')
  BY <1>1
<1> QED
  BY <1>2, <1>3, <1>4 DEF Queued

\* A settled job has a fate, and the others keep theirs.
LEMMA SettleKeeps ==
    ASSUME TypeOK, NEW k \in Jobs, NEW f, Settle(k, f), NEW j \in Jobs
    PROVE  fate[j] \subseteq fate'[j] /\ (j = k => fate'[j] # {})
BY DEF Settle, TypeOK

LEMMA SettleAllKeeps ==
    ASSUME TypeOK, NEW J, NEW f, SettleAll(J, f), NEW j \in Jobs
    PROVE  fate[j] \subseteq fate'[j] /\ (j \in J => fate'[j] # {})
BY DEF SettleAll, TypeOK

\* A thread that goes back to the top of its loop has queued its item again
\* or settled its job.
LEMMA NextUrlTraced ==
    ASSUME Sound, Traced, NEW t \in Threads, pc[t] # "pop", NextUrl(t),
           UNCHANGED selVars,
           waiting \subseteq waiting', seen' \subseteq seen \cup waiting', seen' \subseteq Jobs,
           \A j \in Jobs : /\ Queued(j) # {} => Queued(j)' # {}
                           /\ fate[j] \subseteq fate'[j]
                           /\ j = qi[t].job => Queued(j)' # {} \/ fate'[j] # {}
    PROVE  Traced'
<1>0. TypeOK /\ NothingVanishes
  BY DEF Sound, Traced
<1>1. qi' = [qi EXCEPT ![t] = NoItem] /\ UNCHANGED <<picked, buffer, selpc>>
  BY DEF NextUrl, selVars
<1>2. ASSUME NEW j \in seen'
      PROVE  \/ j \in waiting' \cup picked' \cup buffer'
             \/ Queued(j)' # {} \/ InHand(j)' # {}
             \/ fate'[j] # {}
  <2>1. CASE j \in waiting'
    BY <2>1
  <2>2. CASE /\ j \in seen
             /\ j \in waiting \cup picked \cup buffer \/ Queued(j) # {} \/ fate[j] # {}
    BY <1>1, <2>2
  <2>3. CASE j \in seen /\ InHand(j) # {}
    <3>1. PICK u \in Threads : qi[u] # NoItem /\ qi[u].job = j
      BY <2>3 DEF InHand
    <3>2. CASE u = t
      BY <3>1, <3>2
    <3>3. CASE u # t
      <4>1. qi'[u] = qi[u]
        BY <1>0, <1>1, <3>3 DEF TypeOK
      <4> QED
        BY <3>1, <4>1 DEF InHand
    <3> QED
      BY <3>2, <3>3
  <2> QED
    BY <1>0, <1>2, <2>1, <2>2, <2>3 DEF NothingVanishes, NoCopy
<1>3. NothingVanishes'
  BY <1>2 DEF NothingVanishes, NoCopy
<1> QED
  BY <1>1, <1>3 DEF Traced, BufferEmptied

\* A step that touches neither the jobs nor their copies.
LEMMA SameTraced ==
    ASSUME Traced, UNCHANGED <<m_queue, seen, waiting, picked, buffer, qi, fate>>,
           selpc' \in {"copy", "wipe", "quota"} => buffer = {}
    PROVE  Traced'
<1>1. NothingVanishes'
  BY DEF Traced, NothingVanishes, NoCopy, Queued, InHand
<1> QED
  BY <1>1 DEF Traced, BufferEmptied

LEMMA TakeTraced == ASSUME Sound, Traced, NEW t \in Threads, Take(t) PROVE Traced'
<1>0. TypeOK /\ NothingVanishes /\ BufferEmptied
  BY DEF Sound, Traced
<1>1. /\ pc[t] = "pop" /\ Queue!pop /\ qi' = [qi EXCEPT ![t] = Head(m_queue)]
      /\ UNCHANGED <<seen, waiting, selpc, picked, buffer, fate>>
  BY DEF Take, poolVars, selVars
<1>2. Head(m_queue) \in SSQItem
  BY <1>0, <1>1, TakeItem DEF TypeOK, Queue!pop
<1>3. qi'[t] = Head(m_queue) /\ Head(m_queue) # NoItem
  BY <1>0, <1>1, <1>2, NoItemAssumption DEF TypeOK
<1>4. ASSUME NEW j \in Jobs, NEW u \in Threads, qi[u] # NoItem, qi[u].job = j
      PROVE  InHand(j)' # {}
  <2>1. u # t
    BY <1>0, <1>1, <1>4 DEF TypeOK
  <2>2. qi'[u] = qi[u]
    BY <1>0, <1>1, <2>1 DEF TypeOK
  <2> QED
    BY <1>4, <2>2 DEF InHand
<1>5. ASSUME NEW j \in Jobs, Queued(j) # {} PROVE Queued(j)' # {} \/ InHand(j)' # {}
  <2>1. CASE j = Head(m_queue).job
    BY <1>3, <2>1 DEF InHand
  <2>2. CASE j # Head(m_queue).job
    BY <1>0, <1>1, <1>5, <2>2, PopCopies
  <2> QED
    BY <2>1, <2>2
<1>6. ASSUME NEW j \in Jobs, InHand(j) # {} PROVE InHand(j)' # {}
  BY <1>4, <1>6 DEF InHand
<1>7. NothingVanishes'
  BY <1>0, <1>1, <1>5, <1>6 DEF TypeOK, NothingVanishes, NoCopy
<1> QED
  BY <1>0, <1>1, <1>7 DEF Traced, BufferEmptied

LEMMA DiscardTraced == ASSUME Sound, Traced, NEW t \in Threads, Discard(t) PROVE Traced'
<1>0. TypeOK /\ NothingVanishes /\ BufferEmptied
  BY DEF Sound, Traced
<1>1. /\ Queue!pop /\ Settle(Head(m_queue).job, "FAILED")
      /\ UNCHANGED <<seen, waiting, selpc, picked, buffer, qi>>
  BY DEF Discard, poolVars, selVars, threadVars
<1>2. Head(m_queue).job \in Jobs
  BY <1>0, <1>1, TakeItem, ItemTypes DEF TypeOK, Queue!pop
<1>3. ASSUME NEW j \in Jobs
      PROVE  /\ fate[j] \subseteq fate'[j]
             /\ Queued(j) # {} => Queued(j)' # {} \/ fate'[j] # {}
  BY <1>0, <1>1, <1>2, SettleKeeps, PopCopies
<1>4. ASSUME NEW j \in Jobs PROVE InHand(j)' = InHand(j)
  BY <1>1 DEF InHand
<1>5. NothingVanishes'
  BY <1>0, <1>1, <1>3, <1>4 DEF TypeOK, NothingVanishes, NoCopy
<1> QED
  BY <1>0, <1>1, <1>5 DEF Traced, BufferEmptied

LEMMA RequeueNoIpTraced ==
    ASSUME Sound, Traced, NEW t \in Threads, RequeueNoIp(t) PROVE Traced'
<1> DEFINE item == [qi[t] EXCEPT !.dns_count = @ + 1]
<1>0. TypeOK /\ NothingVanishes /\ BufferEmptied
  BY DEF Sound, Traced
<1>1. /\ pc[t] = "noip" /\ PushOrDrop(item) /\ qi' = [qi EXCEPT ![t] = item]
      /\ UNCHANGED <<seen, waiting, selpc, picked, buffer>>
  BY DEF RequeueNoIp, poolVars, selVars
<1>2. qi[t] \in SSQItem
  BY <1>0, <1>1, InHandItem
<1>3. item \in SSQItem
  BY <1>1, <1>2, CountedItem DEF Sound, Counts
<1>4. item.job = qi[t].job
  BY <1>2 DEF SSQItem
<1> HIDE DEF item
<1>5. ASSUME NEW j \in Jobs, InHand(j) # {} PROVE InHand(j)' # {}
  <2>1. PICK u \in Threads : qi[u] # NoItem /\ qi[u].job = j
    BY <1>5 DEF InHand
  <2>2. qi'[u].job = j /\ qi'[u] # NoItem
    BY <1>0, <1>1, <1>3, <1>4, <2>1, NoItemAssumption DEF TypeOK
  <2> QED
    BY <2>2 DEF InHand
<1>6. ASSUME NEW j \in Jobs
      PROVE  fate[j] \subseteq fate'[j] /\ (Queued(j) # {} => Queued(j)' # {})
  BY <1>0, <1>1, <1>3, PushCopies
<1>7. NothingVanishes'
  BY <1>0, <1>1, <1>5, <1>6 DEF TypeOK, NothingVanishes, NoCopy
<1> QED
  BY <1>0, <1>1, <1>7 DEF Traced, BufferEmptied

LEMMA DelayTraced == ASSUME Sound, Traced, NEW t \in Threads, Delay(t) PROVE Traced'
<1>0. TypeOK /\ pc[t] # "pop" /\ qi[t] \in SSQItem
  BY InHandItem DEF Sound, Delay
<1>1. \A j \in Jobs : /\ Queued(j) # {} => Queued(j)' # {}
                      /\ fate[j] \subseteq fate'[j]
                      /\ j = qi[t].job => Queued(j)' # {} \/ fate'[j] # {}
  BY <1>0, PushCopies DEF Delay
<1> QED
  BY <1>0, <1>1, NextUrlTraced DEF Delay, poolVars, TypeOK

LEMMA NetFailTraced == ASSUME Sound, Traced, NEW t \in Threads, NetFail(t) PROVE Traced'
<1> DEFINE item == [qi[t] EXCEPT !.fail_count = @ + 1]
<1>0. TypeOK /\ pc[t] # "pop" /\ qi[t] \in SSQItem
  BY InHandItem DEF Sound, NetFail
<1>1. item \in SSQItem
  BY <1>0, CountedItem DEF Sound, Counts
<1>2. item.job = qi[t].job
  BY <1>0 DEF SSQItem
<1>3. PushOrDrop(item)
  BY DEF NetFail
<1> HIDE DEF item
<1>4. \A j \in Jobs : /\ Queued(j) # {} => Queued(j)' # {}
                      /\ fate[j] \subseteq fate'[j]
                      /\ j = qi[t].job => Queued(j)' # {} \/ fate'[j] # {}
  BY <1>0, <1>1, <1>2, <1>3, PushCopies
<1> QED
  BY <1>0, <1>4, NextUrlTraced DEF NetFail, poolVars, TypeOK

LEMMA SettledTraced ==
    ASSUME Sound, Traced, NEW t \in Threads, NotFound(t) \/ RedirectNotFound(t)
    PROVE  Traced'
<1>0. TypeOK /\ pc[t] # "pop" /\ qi[t].job \in Jobs
  BY InHandItem DEF Sound, NotFound, RedirectNotFound
<1>1. \A j \in Jobs : /\ Queued(j)' = Queued(j)
                      /\ fate[j] \subseteq fate'[j]
                      /\ j = qi[t].job => fate'[j] # {}
  BY <1>0, SettleKeeps DEF NotFound, RedirectNotFound, queueVars, Queued
<1> QED
  BY <1>0, <1>1, NextUrlTraced DEF NotFound, RedirectNotFound, poolVars, TypeOK

\* The links of a stored page wait in their pools.
LEMMA StoreTraced == ASSUME Sound, Traced, NEW t \in Threads, Store(t) PROVE Traced'
<1>0. TypeOK /\ pc[t] # "pop" /\ qi[t].job \in Jobs
  BY InHandItem DEF Sound, Store
<1>1. \A j \in Jobs : Queued(j)' = Queued(j)
  BY DEF Store, queueVars, Queued
<1>2. \E f : Settle(qi[t].job, f)
  BY DEF Store, write_page_list
<1>3. \A j \in Jobs : fate[j] \subseteq fate'[j] /\ (j = qi[t].job => fate'[j] # {})
  BY <1>0, <1>2, SettleKeeps
<1>4. waiting \subseteq waiting' /\ seen' \subseteq seen \cup waiting' /\ seen' \subseteq Jobs
  BY <1>0, JobsFromAreJobs DEF Store, write_to_queue, push_url, poolVars, TypeOK
<1> QED
  BY <1>0, <1>1, <1>3, <1>4, NextUrlTraced DEF Store

\* A step of the select thread that leaves the copies alone: a job it takes
\* from where it was held is held elsewhere or on record.
LEMMA SelectorTraced ==
    ASSUME Sound, Traced, UNCHANGED <<m_queue, seen, qi>>,
           \A j \in Jobs :
              /\ fate[j] \subseteq fate'[j]
              /\ j \in waiting \cup picked \cup buffer =>
                    j \in waiting' \cup picked' \cup buffer' \/ fate'[j] # {},
           BufferEmptied'
    PROVE  Traced'
<1>1. \A j \in Jobs : Queued(j)' = Queued(j) /\ InHand(j)' = InHand(j)
  BY DEF Queued, InHand
<1>2. TypeOK /\ NothingVanishes
  BY DEF Sound, Traced
<1>3. NothingVanishes'
  BY <1>1, <1>2 DEF TypeOK, NothingVanishes, NoCopy
<1> QED
  BY <1>3 DEF Traced

LEMMA CopyTraced == ASSUME Sound, Traced, Copy PROVE Traced'
<1>1. UNCHANGED <<m_queue, seen, qi, waiting, buffer, fate>> /\ picked \subseteq picked'
  BY DEF Copy, queueVars, poolVars, threadVars
<1>2. BufferEmptied'
  BY <1>1 DEF Traced, BufferEmptied, Copy
<1> QED
  BY <1>1, <1>2, SelectorTraced

\* What the clearing of a pool takes was copied before or is overlooked.
LEMMA ClearDrainedTraced == ASSUME Sound, Traced, ClearDrained PROVE Traced'
<1> DEFINE J == WaitingIn(DrainOrder[at])
<1>0. TypeOK
  BY DEF Sound
<1>1. /\ waiting' = waiting \ J /\ SettleAll(J \ picked, "OVERLOOKED")
      /\ UNCHANGED <<m_queue, seen, qi, picked, buffer>>
  BY DEF ClearDrained, queueVars, threadVars
<1>2. BufferEmptied'
  BY <1>1 DEF Traced, BufferEmptied, ClearDrained
<1> HIDE DEF J
<1>3. \A j \in Jobs : fate[j] \subseteq fate'[j] /\ (j \in J \ picked => fate'[j] # {})
  BY <1>0, <1>1, SettleAllKeeps
<1> QED
  BY <1>1, <1>2, <1>3, SelectorTraced

\* A job that select_url has picked is in the buffer, left over, or on record
\* as unselected.
LEMMA SelectUrlTraced == ASSUME Sound, Traced, select_url PROVE Traced'
<1> DEFINE ready == {j \in picked : Selectable(j)}
<1>0. TypeOK /\ buffer = {}
  BY DEF Sound, Traced, BufferEmptied, select_url
<1>1. PICK B \in SUBSET ready : buffer' = B /\ picked' = ready \ B
  BY DEF select_url
<1>2. /\ SettleAll(picked \ ready, "UNSELECTED")
      /\ selpc' \in {"insert", "end"} /\ UNCHANGED <<m_queue, seen, qi, waiting>>
  BY DEF select_url, queueVars, poolVars, threadVars
<1>3. ready \subseteq picked
  OBVIOUS
<1> HIDE DEF ready
<1>4. \A j \in Jobs : fate[j] \subseteq fate'[j] /\ (j \in picked \ ready => fate'[j] # {})
  BY <1>0, <1>2, SettleAllKeeps
<1>5. BufferEmptied'
  BY <1>2 DEF BufferEmptied
<1> QED
  BY <1>0, <1>1, <1>2, <1>4, <1>5, SelectorTraced

LEMMA InsertUrlTraced == ASSUME Sound, Traced, insert_url PROVE Traced'
<1> DEFINE back == {j \in picked : GivenBack(j)}
<1>0. TypeOK
  BY DEF Sound
<1>1. /\ waiting' = waiting \cup back /\ SettleAll(picked \ back, "UNSELECTED")
      /\ selpc' = "push" /\ UNCHANGED <<m_queue, seen, qi, buffer>>
  BY DEF insert_url, queueVars, threadVars
<1> HIDE DEF back
<1>2. \A j \in Jobs : fate[j] \subseteq fate'[j] /\ (j \in picked \ back => fate'[j] # {})
  BY <1>0, <1>1, SettleAllKeeps
<1>3. BufferEmptied'
  BY <1>1 DEF BufferEmptied
<1> QED
  BY <1>1, <1>2, <1>3, SelectorTraced

\* The samsara's end leaves what it clears on record.
LEMMA EndSamsaraTraced == ASSUME Sound, Traced, EndSamsara PROVE Traced'
<1> DEFINE J == {m_queue[i].job : i \in DOMAIN m_queue}
<1>0. TypeOK /\ NothingVanishes
  BY DEF Sound, Traced
<1>1. /\ SettleAll(J, "CLEARED") /\ selpc' = "clear"
      /\ UNCHANGED <<seen, qi, waiting, picked, buffer>>
  BY DEF EndSamsara, poolVars, threadVars
<1>2. \A j \in Jobs : Queued(j) # {} => j \in J
  BY DEF Queued
<1> HIDE DEF J
<1>3. \A j \in Jobs : fate[j] \subseteq fate'[j] /\ (j \in J => fate'[j] # {})
  BY <1>0, <1>1, SettleAllKeeps
<1>4. \A j \in Jobs : InHand(j)' = InHand(j)
  BY <1>1 DEF InHand
<1>5. NothingVanishes'
  BY <1>0, <1>1, <1>2, <1>3, <1>4 DEF TypeOK, NothingVanishes, NoCopy
<1> QED
  BY <1>1, <1>5 DEF Traced, BufferEmptied

LEMMA ClearUrlsTraced == ASSUME Sound, Traced, clear_urls PROVE Traced'
<1> DEFINE J == WaitingIn(ClearOrder[at])
<1>0. TypeOK
  BY DEF Sound
<1>1. /\ waiting' = waiting \ J /\ SettleAll(J, "CLEARED")
      /\ selpc' \in {"clear", "over"} /\ UNCHANGED <<m_queue, seen, qi, picked, buffer>>
  BY DEF clear_urls, queueVars, threadVars
<1> HIDE DEF J
<1>2. \A j \in Jobs : fate[j] \subseteq fate'[j] /\ (j \in J => fate'[j] # {})
  BY <1>0, <1>1, SettleAllKeeps
<1>3. BufferEmptied'
  BY <1>1 DEF BufferEmptied
<1> QED
  BY <1>1, <1>2, <1>3, SelectorTraced

LEMMA InsertTraced == ASSUME Sound, Traced, Insert PROVE Traced'
<1>0. TypeOK /\ NothingVanishes
  BY DEF Sound, Traced
<1>1. PICK k \in buffer :
         /\ Queue!push([job |-> k, fail_count |-> 0, dns_count |-> 0])
         /\ buffer' = buffer \ {k}
  BY DEF Insert
<1>2. selpc' = "push" /\ UNCHANGED <<seen, waiting, picked, qi, fate>>
  BY DEF Insert, poolVars, threadVars
<1>3. k \in Jobs
  BY <1>0, <1>1 DEF TypeOK
<1> DEFINE item == [job |-> k, fail_count |-> 0, dns_count |-> 0]
<1>4. item \in SSQItem /\ item.job = k /\ PushOrDrop(item)
  BY <1>1, <1>2, <1>3, FreshItem DEF PushOrDrop
<1>5. m_queue' = Append(m_queue, item) /\ m_queue \in Seq(SSQItem)
  BY <1>0, <1>1 DEF Queue!push, TypeOK
<1> HIDE DEF item
<1>6. \A j \in Jobs : InHand(j)' = InHand(j) /\ (Queued(j) # {} => Queued(j)' # {})
  BY <1>0, <1>2, <1>4, PushCopies DEF InHand
<1>7. Queued(k)' # {}
  <2>1. Len(m_queue) + 1 \in DOMAIN m_queue' /\ m_queue'[Len(m_queue) + 1] = item
    BY <1>4, <1>5, AppendItem
  <2> QED
    BY <1>4, <2>1 DEF Queued
<1>8. NothingVanishes'
  BY <1>0, <1>1, <1>2, <1>6, <1>7 DEF TypeOK, NothingVanishes, NoCopy
<1> QED
  BY <1>2, <1>8 DEF Traced, BufferEmptied

\* Every step of every thread keeps track of every job.
LEMMA NextTraced == ASSUME Sound, Traced, [Next]_vars PROVE Traced'
<1> USE DEF queueVars, poolVars, selVars, threadVars, fetchVars
<1>0. BufferEmptied
  BY DEF Traced
<1>1. ASSUME NEW t \in Threads,
             \/ LookUp(t) \/ GetIp(t) \/ Enter(t) \/ Fetched(t)
             \/ Follow(t) \/ GetRedirectIp(t) \/ Leave(t)
      PROVE  Traced'
  <2>1. UNCHANGED <<m_queue, seen, waiting, picked, buffer, qi, fate, selpc>>
    BY <1>1 DEF LookUp, GetIp, Enter, Fetched, Follow, GetRedirectIp, Leave
  <2> QED
    BY <1>0, <2>1, SameTraced DEF BufferEmptied
<1>2. CASE Hang \/ Refresh \/ Inserted
  BY <1>2, SameTraced DEF Hang, Refresh, Inserted
<1>3. CASE Tick \/ Reload \/ UNCHANGED vars
  BY <1>0, <1>3, SameTraced DEF Tick, Reload, vars, BufferEmptied
<1> QED
  BY <1>1, <1>2, <1>3, TakeTraced, DiscardTraced, RequeueNoIpTraced, DelayTraced,
     NetFailTraced, SettledTraced, StoreTraced, CopyTraced, ClearDrainedTraced,
     SelectUrlTraced, InsertUrlTraced, InsertTraced, EndSamsaraTraced, ClearUrlsTraced
     DEF Next, CrawlStep, SelectStep

\* No URL vanishes: on every path through crawl_thread and through the select
\* thread, what ever entered a pool waits, is held somewhere, or ended in one
\* of the named ways.
THEOREM CrawlNothingVanishes == Spec => []NothingVanishes
<1>1. Init => Traced
  BY DEF Init, Traced, NothingVanishes, BufferEmptied
<1>2. Sound /\ Traced /\ [Next]_vars => Traced'
  BY NextTraced
<1>3. Traced => NothingVanishes
  BY DEF Traced
<1> QED
  BY <1>1, <1>2, <1>3, SoundInvariant, PTL DEF Spec

-----------------------------------------------------------------------------
(* The weight of the copies of a job *)

\* A power of two, which the prover knows as a number of subsets only.
LEMMA PowerOfTwo ==
    ASSUME NEW n \in Nat
    PROVE  2 ^ n \in Nat /\ 2 ^ n >= 1 /\ 2 ^ (n + 1) = 2 ^ n + 2 ^ n
<1> DEFINE A == SUBSET (1 .. n)
           C == SUBSET (1 .. n + 1)
           B == C \ A
           f == [X \in A |-> X \cup {n + 1}]
<1>1. IsFiniteSet(A) /\ Cardinality(A) = 2 ^ n
  <2>1. IsFiniteSet(1 .. n) /\ Cardinality(1 .. n) = n
    BY FS_Interval
  <2> QED  BY <2>1, FS_SUBSET
<1>2. IsFiniteSet(C) /\ Cardinality(C) = 2 ^ (n + 1)
  <2>1. IsFiniteSet(1 .. n + 1) /\ Cardinality(1 .. n + 1) = n + 1
    BY FS_Interval
  <2> QED  BY <2>1, FS_SUBSET
<1>3. A \subseteq C /\ A # {}
  <2>1. {} \in A /\ 1 .. n \subseteq 1 .. n + 1
    OBVIOUS
  <2> QED  BY <2>1
<1>4. ExistsBijection(A, B)
  <2>1. f \in [A -> B]
    OBVIOUS
  <2>2. \A X, Y \in A : f[X] = f[Y] => X = Y
    <3>1. ASSUME NEW X \in A, NEW Y \in A, f[X] = f[Y], NEW x
          PROVE  x \in X <=> x \in Y
      BY <3>1
    <3> QED  BY <3>1
  <2>3. \A Y \in B : \E X \in A : f[X] = Y
    <3>1. ASSUME NEW Y \in B
          PROVE  Y \ {n + 1} \in A /\ f[Y \ {n + 1}] = Y
      <4>1. n + 1 \in Y
        OBVIOUS
      <4> QED  BY <4>1
    <3> QED  BY <3>1
  <2> HIDE DEF A, B, f
  <2>4. f \in Bijection(A, B)
    BY <2>1, <2>2, <2>3 DEF Bijection, Injection, Surjection, IsInjective
  <2> QED  BY <2>4 DEF ExistsBijection
<1> HIDE DEF A, C
<1>5. IsFiniteSet(B) /\ Cardinality(B) = Cardinality(A)
  BY <1>1, <1>4, FS_Bijection
<1>6. A \cap B = {} /\ A \cup B = C
  BY <1>3
<1>7. Cardinality(C) = Cardinality(A) + Cardinality(B)
  BY <1>1, <1>5, <1>6, FS_Union, FS_EmptySet
<1>8. Cardinality(A) \in Nat /\ Cardinality(A) # 0
  BY <1>1, <1>3, FS_CardinalityType, FS_EmptySet
<1> QED  BY <1>1, <1>2, <1>5, <1>7, <1>8

\* A set of numbers has a least one: what holds of 0, and of n + 1 if of n, has
\* no least exception.
LEMMA Least ==
    ASSUME NEW S \in SUBSET Nat, S # {}
    PROVE  \E x \in S : \A y \in S : x <= y
<1> DEFINE R == {ss \in Nat \X Nat : ss[1] < ss[2]}
<1>1. IsWellFoundedOn(R, Nat)
  BY NatLessThanWellFounded DEF OpToRel
<1>2. PICK x \in S : \A y \in S : <<y, x>> \notin R
  <2> HIDE DEF R
  <2> QED  BY <1>1, WFMin
<1>3. ASSUME NEW y \in S PROVE x <= y
  <2>1. x \in Nat /\ y \in Nat
    OBVIOUS
  <2>2. ~(y < x)
    BY <1>2, <2>1
  <2> QED  BY <2>1, <2>2
<1> QED  BY <1>3

\* What a copy weighs: the whole at first, half as much after each NO_IP.
LEMMA Weights ==
    /\ Whole \in Nat /\ Whole >= 1
    /\ \A item \in SSQItem :
          /\ Weight(item) \in 1 .. Whole /\ Weight(item) \in Nat
          /\ item.dns_count = 0 => Weight(item) = Whole
          /\ item.dns_count <= max_dns_query_count =>
                Weight(item) = Weight([item EXCEPT !.dns_count = @ + 1])
                                 + Weight([item EXCEPT !.dns_count = @ + 1])
          /\ Weight([item EXCEPT !.fail_count = @ + 1]) = Weight(item)
<1>0. PICK D \in Nat : D = max_dns_query_count + 1
  BY LimitTypes
<1>1. \A n \in Nat : 2 ^ n \in Nat /\ 2 ^ n >= 1 /\ 2 ^ (n + 1) = 2 ^ n + 2 ^ n
  BY PowerOfTwo
<1>2. \A k \in Nat : k <= D => 2 ^ (D - k) <= 2 ^ D
  <2> SUFFICES ASSUME \E k \in Nat : k <= D /\ ~(2 ^ (D - k) <= 2 ^ D)
               PROVE  FALSE
    OBVIOUS
  <2> DEFINE T == {k \in Nat : k <= D /\ ~(2 ^ (D - k) <= 2 ^ D)}
  <2>2. PICK k \in T : \A i \in T : k <= i
    <3>1. T \in SUBSET Nat /\ T # {}
      OBVIOUS
    <3> HIDE DEF T
    <3> QED  BY <3>1, Least
  <2>3. k # 0
    BY <1>0, <1>1
  <2>4. k - 1 \in Nat /\ k - 1 <= D /\ k - 1 \notin T
    BY <2>2, <2>3, <1>0
  <2>5. 2 ^ (D - (k - 1)) <= 2 ^ D
    BY <2>4
  <2>6. D - k \in Nat /\ D - (k - 1) = (D - k) + 1
    BY <1>0
  <2>7. 2 ^ (D - (k - 1)) = 2 ^ (D - k) + 2 ^ (D - k)
    BY <1>1, <2>6
  <2>8. 2 ^ (D - k) \in Nat /\ 2 ^ D \in Nat
    BY <1>0, <1>1, <2>6
  <2>9. 2 ^ (D - k) <= 2 ^ D
    BY <2>5, <2>7, <2>8
  <2> QED  BY <2>9
<1>3. Whole \in Nat /\ Whole >= 1 /\ Whole = 2 ^ D
  BY <1>0, <1>1 DEF Whole
<1>4. ASSUME NEW item \in SSQItem
      PROVE  /\ Weight(item) \in 1 .. Whole /\ Weight(item) \in Nat
             /\ item.dns_count = 0 => Weight(item) = Whole
             /\ item.dns_count <= max_dns_query_count =>
                   Weight(item) = Weight([item EXCEPT !.dns_count = @ + 1])
                                    + Weight([item EXCEPT !.dns_count = @ + 1])
             /\ Weight([item EXCEPT !.fail_count = @ + 1]) = Weight(item)
  <2>1. PICK d \in 0 .. D : item.dns_count = d
    BY <1>0 DEF SSQItem
  <2>0. \A x : Weight(x) = 2 ^ (max_dns_query_count + 1 - x.dns_count)
    BY DEF Weight
  <2>2. D - d \in Nat /\ d \in Nat /\ d <= D /\ Weight(item) = 2 ^ (D - d)
    <3>1. Weight(item) = 2 ^ (max_dns_query_count + 1 - d)
      BY <2>0, <2>1
    <3>2. max_dns_query_count + 1 - d = D - d
      BY <1>0, LimitTypes
    <3> QED  BY <3>1, <3>2
  <2>3. Weight(item) \in 1 .. Whole /\ Weight(item) \in Nat
    BY <1>1, <1>2, <1>3, <2>2
  <2>4. d = 0 => Weight(item) = Whole
    BY <1>0, <1>3, <2>2
  <2>5. ASSUME d <= max_dns_query_count
        PROVE  Weight(item) = Weight([item EXCEPT !.dns_count = @ + 1])
                                + Weight([item EXCEPT !.dns_count = @ + 1])
    <3>1. [item EXCEPT !.dns_count = @ + 1].dns_count = d + 1
      BY <2>1 DEF SSQItem
    <3>2. Weight([item EXCEPT !.dns_count = @ + 1]) = 2 ^ (D - (d + 1))
      <4>1. Weight([item EXCEPT !.dns_count = @ + 1]) = 2 ^ (max_dns_query_count + 1 - (d + 1))
        BY <2>0, <3>1
      <4>2. max_dns_query_count + 1 - (d + 1) = D - (d + 1)
        BY <1>0, LimitTypes
      <4> QED  BY <4>1, <4>2
    <3>3. D - (d + 1) \in Nat /\ D - d = (D - (d + 1)) + 1
      BY <1>0, <2>2, <2>5, LimitTypes
    <3> QED  BY <1>1, <2>2, <3>2, <3>3
  <2>6. [item EXCEPT !.fail_count = @ + 1].dns_count = item.dns_count
    BY DEF SSQItem
  <2>7. Weight([item EXCEPT !.fail_count = @ + 1]) = Weight(item)
    BY <2>6 DEF Weight
  <2> QED  BY <2>1, <2>3, <2>4, <2>5, <2>7
<1> QED  BY <1>3, <1>4

\* What x, an item or none, has of job j, and what the items of f have.
Share(x, j) == IF x # NoItem /\ x.job = j THEN Weight(x) ELSE 0
Has(f, j) == {i \in DOMAIN f : f[i] # NoItem /\ f[i].job = j}
Parts(f, j) == {p \in Has(f, j) \X (1 .. Whole) : p[2] <= Weight(f[p[1]])}
Others(f, j, i) == {p \in Parts(f, j) : p[1] # i}

\* The items of f are finitely many.
Items(f) == IsFiniteSet(DOMAIN f) /\ \A i \in DOMAIN f : f[i] \in SSQItem \cup {NoItem}

LEMMA PartsFinite ==
    ASSUME NEW f, Items(f), NEW j
    PROVE  IsFiniteSet(Parts(f, j)) /\ Cardinality(Parts(f, j)) \in Nat
<1>1. IsFiniteSet(Has(f, j))
  <2>1. IsFiniteSet(DOMAIN f) /\ Has(f, j) \in SUBSET (DOMAIN f)
    BY DEF Items, Has
  <2> QED  BY <2>1, FS_Subset
<1>2. IsFiniteSet(1 .. Whole)
  BY Weights, FS_Interval
<1>3. IsFiniteSet(Has(f, j) \X (1 .. Whole))
  BY <1>1, <1>2, FS_Product
<1>4. Parts(f, j) \in SUBSET (Has(f, j) \X (1 .. Whole))
  BY DEF Parts
<1>5. IsFiniteSet(Parts(f, j))
  BY <1>3, <1>4, FS_Subset
<1> QED  BY <1>5, FS_CardinalityType

\* The parts of one item are as many as it weighs.
LEMMA PartsOfOne ==
    ASSUME NEW f, Items(f), NEW j, NEW i \in DOMAIN f
    PROVE  LET S == {p \in Parts(f, j) : p[1] = i}
           IN  IsFiniteSet(S) /\ Cardinality(S) = Share(f[i], j)
<1> DEFINE S == {p \in Parts(f, j) : p[1] = i}
<1>1. CASE f[i] # NoItem /\ f[i].job = j
  <2>1. PICK w \in 1 .. Whole : w = Weight(f[i])
    <3>1. f[i] \in SSQItem
      BY <1>1 DEF Items
    <3> QED  BY <3>1, Weights
  <2>2. w \in Nat /\ Whole \in Nat /\ i \in Has(f, j)
    BY <1>1, <2>1, Weights DEF Has
  <2>3. S = {p \in {i} \X (1 .. w) : TRUE}
    BY <2>1, <2>2 DEF Parts
  <2> DEFINE g == [k \in 1 .. w |-> <<i, k>>]
  <2>4. g \in Bijection(1 .. w, S)
    <3>1. g \in [1 .. w -> S]
      BY <2>3
    <3>2. \A k, l \in 1 .. w : g[k] = g[l] => k = l
      OBVIOUS
    <3>3. \A p \in S : \E k \in 1 .. w : g[k] = p
      <4>1. ASSUME NEW p \in S PROVE p[2] \in 1 .. w /\ g[p[2]] = p
        BY <2>3
      <4> QED  BY <4>1
    <3> HIDE DEF g, S
    <3> QED  BY <3>1, <3>2, <3>3 DEF Bijection, Injection, Surjection, IsInjective
  <2>5. IsFiniteSet(1 .. w) /\ Cardinality(1 .. w) = w
    BY <2>2, FS_Interval
  <2> HIDE DEF g, S
  <2>6. IsFiniteSet(S) /\ Cardinality(S) = w
    BY <2>4, <2>5, FS_Bijection DEF ExistsBijection
  <2> QED  BY <1>1, <2>1, <2>6 DEF Share, S
<1>2. CASE ~(f[i] # NoItem /\ f[i].job = j)
  <2>1. S = {}
    BY <1>2 DEF Parts, Has
  <2> HIDE DEF S
  <2> QED  BY <1>2, <2>1, FS_EmptySet DEF Share, S
<1> QED  BY <1>1, <1>2

\* One item and the others.
LEMMA PartsSplit ==
    ASSUME NEW f, Items(f), NEW j, NEW i \in DOMAIN f
    PROVE  /\ IsFiniteSet(Others(f, j, i)) /\ Cardinality(Others(f, j, i)) \in Nat
           /\ Share(f[i], j) \in Nat
           /\ Cardinality(Parts(f, j)) = Share(f[i], j) + Cardinality(Others(f, j, i))
<1> DEFINE P == Parts(f, j)
           S == {p \in P : p[1] = i}
           O == Others(f, j, i)
<1>1. IsFiniteSet(P)
  BY PartsFinite
<1>2. IsFiniteSet(S) /\ Cardinality(S) = Share(f[i], j)
  BY PartsOfOne
<1>3. O \in SUBSET P /\ S \cup O = P /\ S \cap O = {}
  BY DEF Others
<1> HIDE DEF P, S, O
<1>4. IsFiniteSet(O)
  BY <1>1, <1>3, FS_Subset
<1>5. Cardinality(S) \in Nat /\ Cardinality(O) \in Nat
  BY <1>2, <1>4, FS_CardinalityType
<1>6. Cardinality(P) = Cardinality(S) + Cardinality(O)
  <2>1. Cardinality(S \cup O) = Cardinality(S) + Cardinality(O) - Cardinality(S \cap O)
    BY <1>2, <1>4, FS_Union
  <2>2. Cardinality(S \cap O) = 0
    BY <1>3, FS_EmptySet
  <2> QED  BY <1>3, <1>5, <2>1, <2>2
<1> QED  BY <1>2, <1>4, <1>5, <1>6 DEF P, O

\* The item in one place is replaced.
LEMMA ReplaceParts ==
    ASSUME NEW f, Items(f), NEW j, NEW t \in DOMAIN f, NEW x \in SSQItem \cup {NoItem}
    PROVE  LET g == [f EXCEPT ![t] = x]
           IN  /\ Items(g)
               /\ Cardinality(Parts(g, j)) + Share(f[t], j)
                    = Cardinality(Parts(f, j)) + Share(x, j)
<1> DEFINE g == [f EXCEPT ![t] = x]
<1>1. DOMAIN g = DOMAIN f /\ g[t] = x /\ \A i \in DOMAIN f : i # t => g[i] = f[i]
  OBVIOUS
<1> HIDE DEF g
<1>2. Items(g)
  BY <1>1 DEF Items
<1>3. Others(g, j, t) = Others(f, j, t)
  BY <1>1 DEF Others, Parts, Has
<1>4. /\ Share(f[t], j) \in Nat /\ Cardinality(Others(f, j, t)) \in Nat
      /\ Cardinality(Parts(f, j)) = Share(f[t], j) + Cardinality(Others(f, j, t))
  BY PartsSplit
<1>5. /\ Share(x, j) \in Nat
      /\ Cardinality(Parts(g, j)) = Share(x, j) + Cardinality(Others(f, j, t))
  BY <1>1, <1>2, <1>3, PartsSplit
<1>6. Cardinality(Parts(g, j)) + Share(f[t], j) = Cardinality(Parts(f, j)) + Share(x, j)
  BY <1>4, <1>5
<1> QED  BY <1>2, <1>6 DEF g

LEMMA QueueItems == ASSUME NEW q \in Seq(SSQItem) PROVE Items(q)
<1>1. Len(q) \in Nat /\ DOMAIN q = 1 .. Len(q) /\ \A i \in 1 .. Len(q) : q[i] \in SSQItem
  OBVIOUS
<1> QED  BY <1>1, FS_Interval DEF Items

\* An item is queued, ...
LEMMA AppendParts ==
    ASSUME NEW q \in Seq(SSQItem), NEW e \in SSQItem, NEW j
    PROVE  Cardinality(Parts(Append(q, e), j)) = Cardinality(Parts(q, j)) + Share(e, j)
<1> DEFINE r == Append(q, e)  n == Len(q) + 1
<1>1. /\ r \in Seq(SSQItem) /\ Len(q) \in Nat /\ Len(r) = n /\ r[n] = e
      /\ DOMAIN r = 1 .. n /\ DOMAIN q = 1 .. Len(q)
      /\ \A i \in 1 .. Len(q) : r[i] = q[i]
  BY AppendItem
<1> HIDE DEF r
<1>2. \A i : i \in 1 .. n /\ i # n <=> i \in 1 .. Len(q)
  BY <1>1
<1>3. Others(r, j, n) = Parts(q, j)
  <2>1. \A i : i \in Has(r, j) /\ i # n <=> i \in Has(q, j)
    BY <1>1, <1>2 DEF Has
  <2>2. \A i \in Has(q, j) : r[i] = q[i]
    BY <1>1 DEF Has
  <2> HIDE DEF n
  <2> QED  BY <2>1, <2>2 DEF Others, Parts
<1>4. Items(r) /\ Items(q) /\ n \in DOMAIN r
  BY <1>1, QueueItems
<1>5. /\ Share(e, j) \in Nat /\ Cardinality(Parts(q, j)) \in Nat
      /\ Cardinality(Parts(r, j)) = Share(e, j) + Cardinality(Parts(q, j))
  BY <1>1, <1>3, <1>4, PartsSplit
<1> QED  BY <1>5 DEF r

\* ... or taken from the queue.
LEMMA TailParts ==
    ASSUME NEW q \in Seq(SSQItem), q # <<>>, NEW j
    PROVE  Cardinality(Parts(q, j)) = Cardinality(Parts(Tail(q), j)) + Share(Head(q), j)
<1> DEFINE r == Tail(q)
<1>1. /\ r \in Seq(SSQItem) /\ Len(q) \in Nat \ {0} /\ Len(r) = Len(q) - 1
      /\ DOMAIN r = 1 .. Len(q) - 1 /\ DOMAIN q = 1 .. Len(q)
      /\ \A i \in 1 .. Len(q) - 1 : r[i] = q[i + 1]
      /\ Head(q) = q[1]
  BY TakeItem
<1> HIDE DEF r
<1>2. Items(r) /\ Items(q) /\ 1 \in DOMAIN q
  BY <1>1, QueueItems
<1> DEFINE P == Parts(r, j)
           O == Others(q, j, 1)
           g == [p \in P |-> <<p[1] + 1, p[2]>>]
<1>3. \A i \in Has(r, j) : i \in Int /\ i + 1 \in Has(q, j) /\ i + 1 # 1 /\ r[i] = q[i + 1]
  BY <1>1 DEF Has
<1>4. \A i \in Has(q, j) : i # 1 => i \in Int /\ i - 1 \in Has(r, j) /\ r[i - 1] = q[i]
  <2>1. ASSUME NEW i \in Has(q, j), i # 1
        PROVE  i \in Int /\ i - 1 \in Has(r, j) /\ r[i - 1] = q[i]
    <3>1. i \in 1 .. Len(q) /\ i - 1 \in 1 .. Len(q) - 1 /\ (i - 1) + 1 = i
      BY <1>1, <2>1 DEF Has
    <3>2. r[i - 1] = q[i]
      BY <1>1, <3>1
    <3> QED  BY <1>1, <3>1, <3>2 DEF Has
  <2> QED  BY <2>1
<1>5. g \in Bijection(P, O)
  <2>1. g \in [P -> O]
    BY <1>3 DEF Parts, Others
  <2>2. \A p, s \in P : g[p] = g[s] => p = s
    <3>1. ASSUME NEW p \in P, NEW s \in P, g[p] = g[s] PROVE p = s
      <4>1. p \in Has(r, j) \X (1 .. Whole) /\ s \in Has(r, j) \X (1 .. Whole)
        BY DEF Parts
      <4>2. p[1] \in Int /\ s[1] \in Int
        BY <1>3, <4>1
      <4>3. p[1] + 1 = s[1] + 1 /\ p[2] = s[2]
        BY <3>1
      <4> QED  BY <4>1, <4>2, <4>3
    <3> QED  BY <3>1
  <2>3. \A o \in O : \E p \in P : g[p] = o
    <3>1. ASSUME NEW o \in O
          PROVE  <<o[1] - 1, o[2]>> \in P /\ g[<<o[1] - 1, o[2]>>] = o
      <4>1. /\ o \in Has(q, j) \X (1 .. Whole) /\ o[1] # 1
            /\ o[2] <= Weight(q[o[1]])
        BY DEF Parts, Others
      <4>2. o[1] \in Int /\ o[1] - 1 \in Has(r, j) /\ r[o[1] - 1] = q[o[1]]
        BY <1>4, <4>1
      <4>3. <<o[1] - 1, o[2]>> \in P
        BY <4>1, <4>2 DEF Parts
      <4> QED  BY <4>1, <4>2, <4>3
    <3> QED  BY <3>1
  <2> HIDE DEF g, P, O
  <2> QED  BY <2>1, <2>2, <2>3 DEF Bijection, Injection, Surjection, IsInjective
<1>6. IsFiniteSet(P)
  BY <1>2, PartsFinite
<1> HIDE DEF g, P, O
<1>7. Cardinality(O) = Cardinality(P)
  BY <1>5, <1>6, FS_Bijection DEF ExistsBijection
<1>8. /\ Share(Head(q), j) \in Nat /\ Cardinality(O) \in Nat
      /\ Cardinality(Parts(q, j)) = Share(Head(q), j) + Cardinality(O)
  BY <1>1, <1>2, PartsSplit DEF O
<1> QED  BY <1>7, <1>8 DEF P, r

-----------------------------------------------------------------------------
(* A job is copied only for want of an address *)

Copies(j) == Cardinality(Parts(m_queue, j)) + Cardinality(Parts(qi, j))

\* What the select thread has not made an item of yet.
Held == waiting \cup picked \cup buffer

\* Beside CopiesHalve: until the samsara ends, a pool knows all that was ever
\* pushed into it, and a job the select thread holds has no copies yet; nor has
\* one that was never pushed.
Fresh == /\ \A j \in Jobs : j \notin seen => Copies(j) = 0
         /\ ~Ending => \A j \in Held : Copies(j) = 0

\* Until then a job is held once, except in the pool that is copied and about
\* to be cleared.
HeldOnce == /\ known = seen
            /\ buffer \cap (waiting \cup picked) = {}
            /\ \A j \in picked \cap waiting : selpc = "wipe" /\ Pool(j) = DrainOrder[at]

Few == /\ \A j \in Jobs : Copies(j) <= Whole
       /\ Fresh
       /\ ~Ending => HeldOnce
       /\ BufferEmptied

\* CopiesHalve counts these parts.
LEMMA CopiesParts ==
    ASSUME TypeOK, NEW j
    PROVE  /\ QueuedParts(j) = Parts(m_queue, j)
           /\ InHandParts(j) = Parts(qi, j)
           /\ Items(m_queue) /\ Items(qi)
           /\ Cardinality(Parts(m_queue, j)) \in Nat
           /\ Cardinality(Parts(qi, j)) \in Nat
           /\ Copies(j) \in Nat
<1>0. /\ m_queue \in Seq(SSQItem) /\ qi \in [Threads -> SSQItem \cup {NoItem}]
      /\ DOMAIN qi = Threads
  BY DEF TypeOK
<1>1. \A i \in DOMAIN m_queue : m_queue[i] # NoItem
  BY <1>0, NoItemAssumption
<1>2. Items(m_queue) /\ Items(qi)
  BY <1>0, QueueItems, CrawlAssumption DEF Items
<1>3. QueuedParts(j) = Parts(m_queue, j)
  BY <1>1 DEF QueuedParts, Queued, Parts, Has
<1>4. InHandParts(j) = Parts(qi, j)
  BY <1>0 DEF InHandParts, InHand, Parts, Has
<1>5. Cardinality(Parts(m_queue, j)) \in Nat /\ Cardinality(Parts(qi, j)) \in Nat
  BY <1>2, PartsFinite
<1> QED  BY <1>2, <1>3, <1>4, <1>5 DEF Copies

\* A thread takes another item, or none, in its hands.
LEMMA HandCopies ==
    ASSUME TypeOK, NEW t \in Threads, NEW x \in SSQItem \cup {NoItem}, NEW j,
           qi' = [qi EXCEPT ![t] = x]
    PROVE  /\ Share(qi[t], j) \in Nat /\ Share(x, j) \in Nat
           /\ Cardinality(Parts(qi, j))' \in Nat
           /\ Cardinality(Parts(qi, j))' + Share(qi[t], j)
                = Cardinality(Parts(qi, j)) + Share(x, j)
<1>0. Items(qi) /\ t \in DOMAIN qi
  BY CopiesParts DEF TypeOK
<1> DEFINE g == [qi EXCEPT ![t] = x]
<1>1. Items(g) /\ t \in DOMAIN g /\ g[t] = x
  BY <1>0, ReplaceParts
<1>2. Cardinality(Parts(g, j)) + Share(qi[t], j) = Cardinality(Parts(qi, j)) + Share(x, j)
  BY <1>0, ReplaceParts
<1> HIDE DEF g
<1>3. Share(qi[t], j) \in Nat /\ Share(x, j) \in Nat
  BY <1>0, <1>1, PartsSplit
<1>4. Cardinality(Parts(g, j)) \in Nat
  BY <1>1, PartsFinite
<1> QED  BY <1>2, <1>3, <1>4 DEF g, Parts, Has, Share, Weight

\* An item is put back, or dropped.
LEMMA PushedCopies ==
    ASSUME TypeOK, NEW item \in SSQItem, PushOrDrop(item), NEW j
    PROVE  /\ Cardinality(Parts(m_queue, j))' \in Nat
           /\ Share(item, j) \in Nat
           /\ Cardinality(Parts(m_queue, j))'
                 <= Cardinality(Parts(m_queue, j)) + Share(item, j)
<1>0. m_queue \in Seq(SSQItem) /\ Cardinality(Parts(m_queue, j)) \in Nat
  BY CopiesParts DEF TypeOK
<1>1. Share(item, j) \in Nat
  <2>1. Weight(item) \in Nat
    BY Weights
  <2> QED  BY <2>1 DEF Share
<1>2. CASE m_queue' = m_queue
  BY <1>0, <1>1, <1>2 DEF Parts, Has
<1>3. CASE m_queue' = Append(m_queue, item)
  <2>1. Cardinality(Parts(Append(m_queue, item), j))
          = Cardinality(Parts(m_queue, j)) + Share(item, j)
    BY <1>0, AppendParts
  <2>2. Parts(m_queue, j)' = Parts(Append(m_queue, item), j)
    BY <1>3 DEF Parts, Has, Weight
  <2> QED  BY <1>0, <1>1, <2>1, <2>2
<1> QED  BY <1>2, <1>3 DEF PushOrDrop, Queue!push, Queue!push_refused, Queue!vars

\* An item is taken from the queue.
LEMMA PoppedCopies ==
    ASSUME TypeOK, Queue!pop, NEW j
    PROVE  /\ Head(m_queue) \in SSQItem
           /\ Cardinality(Parts(m_queue, j))' \in Nat
           /\ Share(Head(m_queue), j) \in Nat
           /\ Cardinality(Parts(m_queue, j))
                 = Cardinality(Parts(m_queue, j))' + Share(Head(m_queue), j)
<1>0. /\ m_queue \in Seq(SSQItem) /\ m_queue # <<>> /\ m_queue' = Tail(m_queue)
      /\ Head(m_queue) \in SSQItem /\ Tail(m_queue) \in Seq(SSQItem)
  BY TakeItem DEF Queue!pop, TypeOK
<1>1. Share(Head(m_queue), j) \in Nat
  <2>1. Weight(Head(m_queue)) \in Nat
    BY <1>0, Weights
  <2> QED  BY <2>1 DEF Share
<1>2. Parts(m_queue, j)' = Parts(Tail(m_queue), j)
  BY <1>0 DEF Parts, Has, Weight
<1>3. Cardinality(Parts(Tail(m_queue), j)) \in Nat
  BY <1>0, QueueItems, PartsFinite
<1>4. Cardinality(Parts(m_queue, j))
        = Cardinality(Parts(Tail(m_queue), j)) + Share(Head(m_queue), j)
  BY <1>0, TailParts
<1> QED  BY <1>0, <1>1, <1>2, <1>3, <1>4

LEMMA NoShare == ASSUME NEW j PROVE Share(NoItem, j) = 0
BY DEF Share

\* A thread that has done with an item.
LEMMA EndedCopies ==
    ASSUME TypeOK, NEW t \in Threads, NextUrl(t), NEW j
    PROVE  /\ Share(qi[t], j) \in Nat /\ Cardinality(Parts(qi, j))' \in Nat
           /\ Cardinality(Parts(qi, j))' + Share(qi[t], j) = Cardinality(Parts(qi, j))
<1>1. qi' = [qi EXCEPT ![t] = NoItem]
  BY DEF NextUrl
<1>2. Cardinality(Parts(qi, j)) \in Nat
  BY CopiesParts
<1>3. /\ Share(qi[t], j) \in Nat /\ Cardinality(Parts(qi, j))' \in Nat
      /\ Cardinality(Parts(qi, j))' + Share(qi[t], j)
           = Cardinality(Parts(qi, j)) + Share(NoItem, j)
  BY <1>1, HandCopies
<1> QED  BY <1>2, <1>3, NoShare

\* What a step does to the copies of a job: none but the select thread's Insert
\* makes them weigh more.
LEMMA CopiesStep ==
    ASSUME Sound, [Next]_vars, NEW j \in Jobs
    PROVE  \/ Copies(j)' \in Nat /\ Copies(j)' <= Copies(j)
           \/ Insert /\ j \in buffer /\ buffer' = buffer \ {j} /\ Copies(j)' = Copies(j) + Whole
<1> DEFINE Q == Cardinality(Parts(m_queue, j))
           H == Cardinality(Parts(qi, j))
           Goal == Copies(j)' \in Nat /\ Copies(j)' <= Copies(j)
<1>0. TypeOK /\ (\E q, h \in Nat : Q = q /\ H = h)
  BY CopiesParts DEF Sound
<1>q. PICK q \in Nat, h \in Nat : Q = q /\ H = h
  BY <1>0
<1>c. ASSUME NEW r \in Nat, NEW g \in Nat, Q' = r, H' = g, r + g <= q + h PROVE Goal
  <2>1. Copies(j) = q + h /\ Copies(j)' = r + g
    BY <1>q, <1>c DEF Copies
  <2> QED  BY <1>c, <2>1
<1>a. ASSUME UNCHANGED m_queue PROVE Q' = q
  BY <1>a, <1>q DEF Parts, Has, Weight
<1>b. ASSUME UNCHANGED qi PROVE H' = h
  BY <1>b, <1>q DEF Parts, Has, Weight
<1> HIDE DEF Q, H
<1>1. ASSUME UNCHANGED <<m_queue, qi>> PROVE Goal
  <2>1. Q' = q /\ H' = h
    BY <1>1, <1>a, <1>b
  <2> QED  BY <1>c, <2>1
<1>2. ASSUME NEW t \in Threads, Take(t) PROVE Goal
  <2>1. Queue!pop /\ qi' = [qi EXCEPT ![t] = Head(m_queue)] /\ qi[t] = NoItem
    BY <1>0, <1>2 DEF Take, TypeOK
  <2>2. PICK s \in Nat, r \in Nat :
           Head(m_queue) \in SSQItem /\ s = Share(Head(m_queue), j) /\ Q' = r /\ q = r + s
    BY <1>0, <1>q, <2>1, PoppedCopies DEF Q
  <2>3. PICK g \in Nat : H' = g /\ g + Share(NoItem, j) = h + s
    <3>1. /\ Cardinality(Parts(qi, j))' \in Nat
          /\ Cardinality(Parts(qi, j))' + Share(qi[t], j)
               = Cardinality(Parts(qi, j)) + Share(Head(m_queue), j)
      BY <1>0, <2>1, <2>2, HandCopies
    <3> QED  BY <1>q, <2>1, <2>2, <3>1 DEF H
  <2>4. r + g <= q + h
    BY <2>2, <2>3, NoShare
  <2> QED  BY <1>c, <2>2, <2>3, <2>4
<1>3. ASSUME NEW t \in Threads, Discard(t) PROVE Goal
  <2>1. Queue!pop /\ UNCHANGED qi
    BY <1>3 DEF Discard, threadVars
  <2>2. PICK s \in Nat, r \in Nat : Q' = r /\ q = r + s
    BY <1>0, <1>q, <2>1, PoppedCopies DEF Q
  <2>3. H' = h /\ r + h <= q + h
    BY <1>b, <2>1, <2>2
  <2> QED  BY <1>c, <2>2, <2>3
<1>4. ASSUME NEW t \in Threads, RequeueNoIp(t) PROVE Goal
  <2> DEFINE item == [qi[t] EXCEPT !.dns_count = @ + 1]
  <2>1. PushOrDrop(item) /\ qi' = [qi EXCEPT ![t] = item] /\ pc[t] = "noip"
    BY <1>4 DEF RequeueNoIp
  <2>2. qi[t] \in SSQItem /\ qi[t].dns_count <= max_dns_query_count
    BY <1>0, <2>1, InHandItem DEF Sound, Counts
  <2>3. item \in SSQItem /\ Weight(qi[t]) = Weight(item) + Weight(item)
    BY <2>2, CountedItem, Weights
  <2>4. item.job = qi[t].job /\ item # NoItem /\ qi[t] # NoItem
    BY <2>2, <2>3, NoItemAssumption DEF SSQItem
  <2> HIDE DEF item
  <2>5. Share(qi[t], j) = Share(item, j) + Share(item, j)
    BY <2>3, <2>4 DEF Share
  <2>6. PICK s \in Nat, r \in Nat : s = Share(item, j) /\ Q' = r /\ r <= q + s
    BY <1>0, <1>q, <2>1, <2>3, PushedCopies DEF Q
  <2>7. PICK g \in Nat : H' = g /\ g + (s + s) = h + s
    BY <1>0, <1>q, <2>1, <2>3, <2>5, <2>6, HandCopies DEF H
  <2>8. r + g <= q + h
    BY <2>6, <2>7
  <2> QED  BY <1>c, <2>6, <2>7, <2>8
<1>5. ASSUME NEW t \in Threads, NEW item \in SSQItem, PushOrDrop(item), NextUrl(t),
             Share(item, j) = Share(qi[t], j)
      PROVE  Goal
  <2>1. PICK s \in Nat, r \in Nat : s = Share(item, j) /\ Q' = r /\ r <= q + s
    BY <1>0, <1>q, <1>5, PushedCopies DEF Q
  <2>2. PICK g \in Nat : H' = g /\ g + s = h
    BY <1>0, <1>q, <1>5, <2>1, EndedCopies DEF H
  <2>3. r + g <= q + h
    BY <2>1, <2>2
  <2> QED  BY <1>c, <2>1, <2>2, <2>3
<1>6. ASSUME NEW t \in Threads, Delay(t) PROVE Goal
  <2>1. PushOrDrop(qi[t]) /\ NextUrl(t) /\ pc[t] = "gate"
    BY <1>6 DEF Delay
  <2>2. qi[t] \in SSQItem
    BY <1>0, <2>1, InHandItem
  <2> QED  BY <1>5, <2>1, <2>2
<1>7. ASSUME NEW t \in Threads, NetFail(t) PROVE Goal
  <2> DEFINE item == [qi[t] EXCEPT !.fail_count = @ + 1]
  <2>1. PushOrDrop(item) /\ NextUrl(t) /\ pc[t] = "sort"
    BY <1>7 DEF NetFail
  <2>2. qi[t] \in SSQItem /\ qi[t].fail_count <= max_url_fail_count
    BY <1>0, <2>1, InHandItem DEF Sound, Counts
  <2>3. item \in SSQItem /\ Weight(item) = Weight(qi[t])
    BY <2>2, CountedItem, Weights
  <2>4. item.job = qi[t].job /\ item # NoItem /\ qi[t] # NoItem
    BY <2>2, <2>3, NoItemAssumption DEF SSQItem
  <2> HIDE DEF item
  <2>5. Share(item, j) = Share(qi[t], j)
    BY <2>3, <2>4 DEF Share
  <2> QED  BY <1>5, <2>1, <2>3, <2>5
<1>8. ASSUME NEW t \in Threads, NextUrl(t), UNCHANGED m_queue PROVE Goal
  <2>1. PICK s \in Nat, g \in Nat : H' = g /\ g + s = h
    BY <1>0, <1>q, <1>8, EndedCopies DEF H
  <2>2. Q' = q /\ q + g <= q + h
    BY <1>8, <1>a, <2>1
  <2> QED  BY <1>c, <2>1, <2>2
<1>9. ASSUME NEW t \in Threads, NotFound(t) \/ RedirectNotFound(t) \/ Store(t) PROVE Goal
  BY <1>8, <1>9 DEF NotFound, RedirectNotFound, Store, queueVars
<1>10. ASSUME NEW t \in Threads,
              \/ LookUp(t) \/ GetIp(t) \/ Enter(t) \/ Fetched(t)
              \/ Follow(t) \/ GetRedirectIp(t) \/ Leave(t)
       PROVE  Goal
  BY <1>1, <1>10 DEF LookUp, GetIp, Enter, Fetched, Follow, GetRedirectIp, Leave, queueVars
<1>11. ASSUME \/ Hang \/ Copy \/ ClearDrained \/ select_url \/ insert_url \/ Refresh
              \/ Inserted \/ clear_urls \/ Tick \/ Reload \/ UNCHANGED vars
       PROVE  Goal
  BY <1>1, <1>11 DEF Hang, Copy, ClearDrained, select_url, insert_url, Refresh, Inserted,
                     clear_urls, Tick, Reload, vars, queueVars, threadVars
<1>13. ASSUME EndSamsara PROVE Goal
  <2>1. m_queue' = <<>> /\ UNCHANGED qi
    BY <1>13 DEF EndSamsara, Queue!clear, threadVars
  <2>2. Parts(m_queue, j)' = {}
    BY <2>1 DEF Parts, Has
  <2>3. Q' = 0
    BY <2>2, FS_EmptySet DEF Q
  <2>4. H' = h
    BY <1>b, <2>1
  <2> QED  BY <1>c, <2>3, <2>4
<1>12. ASSUME Insert
       PROVE  Goal \/ (j \in buffer /\ buffer' = buffer \ {j} /\ Copies(j)' = Copies(j) + Whole)
  <2>1. PICK k \in buffer : /\ Queue!push([job |-> k, fail_count |-> 0, dns_count |-> 0])
                            /\ buffer' = buffer \ {k}
    BY <1>12 DEF Insert
  <2> DEFINE item == [job |-> k, fail_count |-> 0, dns_count |-> 0]
  <2>2. /\ item \in SSQItem /\ item.job = k /\ item.dns_count = 0 /\ item # NoItem
        /\ m_queue \in Seq(SSQItem) /\ m_queue' = Append(m_queue, item)
    BY <1>0, <2>1, FreshItem, NoItemAssumption DEF TypeOK, Queue!push
  <2>3. Weight(item) = Whole /\ Whole \in Nat
    BY <2>2, Weights
  <2> HIDE DEF item
  <2>4. Cardinality(Parts(Append(m_queue, item), j))
          = Cardinality(Parts(m_queue, j)) + Share(item, j)
    BY <2>2, AppendParts
  <2>5. Parts(m_queue, j)' = Parts(Append(m_queue, item), j)
    BY <2>2 DEF Parts, Has, Weight
  <2>6. Q' = q + Share(item, j) /\ H' = h
    BY <1>12, <1>b, <1>q, <2>4, <2>5 DEF Q, Insert, threadVars
  <2>8. CASE k = j
    <3>1. Share(item, j) = Whole
      BY <2>2, <2>3, <2>8 DEF Share
    <3>2. Copies(j) = q + h /\ Copies(j)' = (q + Whole) + h
      BY <1>q, <2>6, <3>1 DEF Copies, Q, H
    <3> QED  BY <2>1, <2>3, <2>8, <3>2
  <2>9. CASE k # j
    <3>1. Share(item, j) = 0
      BY <2>2, <2>9 DEF Share
    <3>2. Q' = q
      BY <2>6, <3>1
    <3> QED  BY <1>c, <2>6, <3>2
  <2> QED  BY <2>8, <2>9
<1> QED
  BY <1>2, <1>3, <1>4, <1>6, <1>7, <1>9, <1>10, <1>11, <1>12, <1>13
     DEF Next, CrawlStep, SelectStep

\* What a step does to the pools and the buffer: jobs come in once, and go from
\* a pool to the buffer.
LEMMA PoolStep ==
    ASSUME Sound, Few, [Next]_vars
    PROVE  /\ seen \subseteq seen'
           /\ ~Ending' => ~Ending /\ HeldOnce' /\ Held' \subseteq Held \cup (seen' \ seen)
           /\ BufferEmptied'
<1> USE DEF queueVars, poolVars, selVars, threadVars, fetchVars
<1> DEFINE Goal ==
             /\ seen \subseteq seen'
             /\ ~Ending' => ~Ending /\ HeldOnce' /\ Held' \subseteq Held \cup (seen' \ seen)
             /\ BufferEmptied'
<1>0. /\ ~Ending => HeldOnce
      /\ waiting \subseteq seen /\ picked \subseteq seen /\ buffer \subseteq seen
      /\ BufferEmptied
  BY DEF Few, Sound, TypeOK
<1>1. ASSUME UNCHANGED <<known, waiting, seen, picked, buffer, selpc, at>> PROVE Goal
  BY <1>0, <1>1 DEF BufferEmptied, HeldOnce, Held, Ending
<1>2. ASSUME NEW t \in Threads, CrawlStep(t), ~Store(t) PROVE Goal
  <2>1. UNCHANGED <<known, waiting, seen, picked, buffer, selpc, at>>
    BY <1>2 DEF CrawlStep, Take, Discard, LookUp, GetIp, RequeueNoIp, Enter, Delay, Fetched,
                NotFound, Follow, GetRedirectIp, Leave, RedirectNotFound, NetFail
  <2> QED  BY <1>1, <2>1
<1>3. ASSUME NEW t \in Threads, Store(t) PROVE Goal
  <2>1. UNCHANGED <<picked, buffer, selpc, at>>
    BY <1>3 DEF Store
  <2>2. CASE UNCHANGED <<known, waiting, seen>>
    BY <1>1, <2>1, <2>2
  <2>3. CASE write_to_queue(qi[t].job)
    <3>1. PICK J : /\ known' = known \cup J /\ waiting' = waiting \cup (J \ known)
                   /\ seen' = seen \cup J
      BY <2>3 DEF write_to_queue, push_url
    <3>2. ~Ending => HeldOnce' /\ Held' \subseteq Held \cup (seen' \ seen)
      BY <1>0, <2>1, <3>1 DEF HeldOnce, Held
    <3> QED  BY <1>0, <2>1, <3>1, <3>2 DEF BufferEmptied, Ending
  <2> QED  BY <1>3, <2>2, <2>3 DEF Store
<1>4. CASE Hang
  BY <1>0, <1>4 DEF Hang, HeldOnce, Held, Ending, BufferEmptied
<1>5. CASE Copy
  <2>1. /\ selpc = "copy" /\ selpc' = "wipe"
        /\ picked' = picked \cup WaitingIn(DrainOrder[at])
        /\ UNCHANGED <<known, waiting, seen, buffer, at>>
    BY <1>5 DEF Copy
  <2>2. HeldOnce /\ ~Ending /\ buffer = {}
    BY <1>0, <2>1 DEF Ending, BufferEmptied
  <2>3. HeldOnce' /\ Held' \subseteq Held
    BY <2>1, <2>2 DEF HeldOnce, Held, WaitingIn
  <2> QED  BY <2>1, <2>2, <2>3 DEF BufferEmptied
<1>6. CASE ClearDrained
  <2>1. /\ selpc = "wipe" /\ selpc' \in {"copy", "quota"}
        /\ waiting' = waiting \ WaitingIn(DrainOrder[at])
        /\ UNCHANGED <<known, seen, picked, buffer>>
    BY <1>6 DEF ClearDrained
  <2>2. HeldOnce /\ ~Ending /\ buffer = {}
    BY <1>0, <2>1 DEF Ending, BufferEmptied
  <2>3. HeldOnce' /\ Held' \subseteq Held
    BY <2>1, <2>2 DEF HeldOnce, Held, WaitingIn
  <2> QED  BY <2>1, <2>2, <2>3 DEF BufferEmptied
<1>7. CASE select_url
  <2>1. /\ selpc = "quota" /\ selpc' \in {"insert", "end"}
        /\ UNCHANGED <<known, waiting, seen>>
    BY <1>7 DEF select_url
  <2>2. PICK B \in SUBSET picked : buffer' = B /\ picked' \subseteq picked \ B
    BY <1>7 DEF select_url
  <2>3. HeldOnce /\ ~Ending
    BY <1>0, <2>1 DEF Ending
  <2>4. HeldOnce' /\ Held' \subseteq Held
    BY <2>1, <2>2, <2>3 DEF HeldOnce, Held
  <2> QED  BY <2>1, <2>3, <2>4 DEF BufferEmptied
<1>8. CASE insert_url
  <2>1. /\ selpc = "insert" /\ selpc' = "push" /\ picked' = {}
        /\ UNCHANGED <<known, seen, buffer>>
    BY <1>8 DEF insert_url
  <2>2. PICK J \in SUBSET picked : waiting' = waiting \cup J
    BY <1>8 DEF insert_url
  <2>3. HeldOnce /\ ~Ending
    BY <1>0, <2>1 DEF Ending
  <2>4. HeldOnce' /\ Held' \subseteq Held
    BY <2>1, <2>2, <2>3 DEF HeldOnce, Held
  <2> QED  BY <2>1, <2>3, <2>4 DEF BufferEmptied
<1>9. CASE Refresh \/ Insert
  <2>1. /\ UNCHANGED <<known, waiting, seen, picked, at>> /\ buffer' \subseteq buffer
        /\ selpc = "push" /\ selpc' = "push"
    BY <1>9 DEF Refresh, Insert
  <2> QED  BY <1>0, <2>1 DEF BufferEmptied, HeldOnce, Held, Ending
<1>10. CASE Inserted
  BY <1>0, <1>10 DEF Inserted, BufferEmptied, HeldOnce, Held, Ending
<1>11. CASE EndSamsara \/ clear_urls
  <2>1. selpc' \in {"clear", "over"} /\ seen' = seen
    BY <1>11 DEF EndSamsara, clear_urls
  <2> QED  BY <2>1 DEF BufferEmptied, Ending
<1>12. CASE Tick \/ Reload \/ UNCHANGED vars
  BY <1>1, <1>12 DEF Tick, Reload, vars
<1> QED
  BY <1>2, <1>3, <1>4, <1>5, <1>6, <1>7, <1>8, <1>9, <1>10, <1>11, <1>12
     DEF Next, SelectStep

LEMMA NextFew == ASSUME Sound, Few, [Next]_vars PROVE Few'
<1>1. /\ seen \subseteq seen'
      /\ ~Ending' => ~Ending /\ HeldOnce' /\ Held' \subseteq Held \cup (seen' \ seen)
      /\ BufferEmptied'
  BY PoolStep
<1>2. /\ \A j \in Jobs : Copies(j) \in Nat /\ Copies(j) <= Whole
      /\ \A j \in Jobs : j \notin seen => Copies(j) = 0
      /\ ~Ending => \A j \in Held : Copies(j) = 0
      /\ ~Ending => HeldOnce
      /\ Whole \in Nat
      /\ seen' \subseteq Jobs /\ buffer \subseteq seen /\ Held' \subseteq Jobs
  BY CopiesParts, Weights, NextSound DEF Few, Fresh, Sound, TypeOK, Held
<1>3. ASSUME Insert PROVE ~Ending
  BY <1>3 DEF Insert, Ending
<1>4. ASSUME NEW j \in Jobs PROVE Copies(j)' <= Whole
  <2>1. CASE Copies(j)' \in Nat /\ Copies(j)' <= Copies(j)
    <3>1. PICK c \in Nat, d \in Nat : Copies(j)' = c /\ Copies(j) = d
      BY <1>2, <2>1
    <3> QED  BY <1>2, <2>1, <3>1
  <2>2. CASE Insert /\ j \in buffer /\ Copies(j)' = Copies(j) + Whole
    <3>1. Copies(j) = 0
      BY <1>2, <1>3, <2>2 DEF Held
    <3> QED  BY <1>2, <2>2, <3>1
  <2> QED  BY <2>1, <2>2, CopiesStep
<1>5. ASSUME NEW j \in Jobs, j \notin seen' \/ (~Ending' /\ j \in Held')
      PROVE  Copies(j)' = 0
  <2>1. Copies(j) = 0
    BY <1>1, <1>2, <1>5
  <2>2. CASE Copies(j)' \in Nat /\ Copies(j)' <= Copies(j)
    BY <2>1, <2>2
  <2>3. CASE Insert /\ j \in buffer /\ buffer' = buffer \ {j}
    <3>1. seen' = seen /\ waiting' = waiting /\ picked' = picked
      BY <2>3 DEF Insert, poolVars
    <3>2. j \notin Held'
      BY <1>2, <1>3, <2>3, <3>1 DEF Held, HeldOnce
    <3> QED  BY <1>2, <1>5, <2>3, <3>1, <3>2
  <2> QED  BY <2>2, <2>3, CopiesStep
<1>6. Fresh'
  BY <1>2, <1>5 DEF Fresh
<1>7. ~Ending' => HeldOnce'
  BY <1>1
<1> QED  BY <1>1, <1>4, <1>6, <1>7 DEF Few, Whole

LEMMA InitFew == Init => Few
<1> SUFFICES ASSUME Init PROVE Few
  OBVIOUS
<1>1. m_queue = <<>> /\ qi = [t \in Threads |-> NoItem]
  BY DEF Init, Queue!Init
<1>2. ASSUME NEW j \in Jobs PROVE Copies(j) = 0
  <2>1. Parts(m_queue, j) = {} /\ Parts(qi, j) = {}
    BY <1>1 DEF Parts, Has
  <2> QED  BY <2>1, FS_EmptySet DEF Copies
<1>3. /\ waiting = Seeds /\ known = Seeds /\ seen = Seeds /\ picked = {} /\ buffer = {}
      /\ selpc = "copy"
  BY DEF Init
<1>4. Seeds \subseteq Jobs
  BY <1>3, InitSound DEF Sound, TypeOK
<1>5. Fresh
  BY <1>2, <1>3, <1>4 DEF Fresh, Held
<1>6. HeldOnce /\ BufferEmptied
  BY <1>3 DEF HeldOnce, BufferEmptied
<1> QED  BY <1>2, <1>5, <1>6, Weights DEF Few

LEMMA FewInvariant == Spec => []Few
<1>1. Sound /\ Few /\ [Next]_vars => Few'
  BY NextFew
<1> QED  BY <1>1, InitFew, SoundInvariant, PTL DEF Spec

\* The copies of a job never weigh more than the one first pushed, whichever
\* threads queue it again for want of an address, for delay or for an error.
THEOREM CrawlCopiesHalve == Spec => []CopiesHalve
<1>1. Sound /\ Few => CopiesHalve
  BY CopiesParts DEF Sound, Few, CopiesHalve, Copies
<1> QED  BY <1>1, SoundInvariant, FewInvariant, PTL

-----------------------------------------------------------------------------
(* A queue that is large enough refuses nothing *)

\* The links of a page make finitely many jobs.
LEMMA FiniteJobs == ASSUME NEW j \in Jobs PROVE IsFiniteSet(JobsFrom(j))
<1>1. IsFiniteSet(LinksOf[Url(j)])
  BY CrawlAssumption DEF Jobs, Url
<1> DEFINE cq == IF Pool(j) = "CPQ" THEN "CPQ" ELSE "COQ"
           iq == IF Pool(j) = "CPQ" THEN "IPQ" ELSE "IOQ"
           links == LinksOf[Url(j)] \ Malformed
           C == {x \in links : Kind[x] = "cate"}
           I == {x \in links : Kind[x] = "item" /\ Normal[x] # ""}
           cates == {<<l, cq>> : l \in C}
           items == {<<Normal[l], iq>> : l \in I}
<1>2. C \in SUBSET LinksOf[Url(j)] /\ I \in SUBSET LinksOf[Url(j)]
  OBVIOUS
<1>3. JobsFrom(j) = cates \cup items
  BY DEF JobsFrom
<1> HIDE DEF C, I, cq, iq
<1>4. IsFiniteSet(C) /\ IsFiniteSet(I)
  BY <1>1, <1>2, FS_Subset
<1>5. IsFiniteSet(cates)
  <2> DEFINE f == [l \in C |-> <<l, cq>>]
  <2>1. f \in Surjection(C, cates)
    BY DEF Surjection
  <2> HIDE DEF f, cates
  <2> QED  BY <1>4, <2>1, FS_Surjection
<1>6. IsFiniteSet(items)
  <2> DEFINE f == [l \in I |-> <<Normal[l], iq>>]
  <2>1. f \in Surjection(I, items)
    BY DEF Surjection
  <2> HIDE DEF f, items
  <2> QED  BY <1>4, <2>1, FS_Surjection
<1> HIDE DEF cates, items
<1> QED  BY <1>3, <1>5, <1>6, FS_Union

\* Families of at most w elements each make at most w times as many as families.
LEMMA Families ==
    ASSUME NEW C, IsFiniteSet(C), NEW K, IsFiniteSet(K), NEW w \in Nat, NEW fam \in [C -> K],
           \A k \in K : Cardinality({c \in C : fam[c] = k}) <= w
    PROVE  Cardinality(C) <= Cardinality(K) * w
<1> DEFINE F(k) == {c \in C : fam[c] = k}
<1>1. ASSUME NEW k \in K PROVE \E f : f \in Injection(F(k), 1 .. w)
  <2>1. IsFiniteSet(F(k))
    BY FS_Subset
  <2> DEFINE n == Cardinality(F(k))
  <2>2. n \in Nat /\ n <= w /\ ExistsBijection(1 .. n, F(k))
    BY <2>1, FS_CardinalityType
  <2>3. IsFiniteSet(1 .. n) /\ Cardinality(1 .. n) = n
    BY <2>2, FS_Interval
  <2> HIDE DEF n, F
  <2>4. ExistsBijection(F(k), 1 .. n)
    BY <2>1, <2>3, FS_SameCardinalityBij DEF n
  <2>5. PICK f : f \in Bijection(F(k), 1 .. n)
    BY <2>4 DEF ExistsBijection
  <2>6. 1 .. n \subseteq 1 .. w
    BY <2>2
  <2>7. f \in Injection(F(k), 1 .. w)
    BY <2>5, <2>6 DEF Bijection, Injection
  <2> QED  BY <2>7
<1> DEFINE num == [k \in K |-> CHOOSE f : f \in Injection(F(k), 1 .. w)]
           g == [c \in C |-> <<fam[c], num[fam[c]][c]>>]
<1> HIDE DEF F
<1>2. \A k \in K : num[k] \in Injection(F(k), 1 .. w)
  BY <1>1
<1> HIDE DEF num
<1>3. \A k \in K : /\ num[k] \in [F(k) -> 1 .. w]
                   /\ \A c, d \in F(k) : num[k][c] = num[k][d] => c = d
  BY <1>2 DEF Injection, IsInjective
<1>4. \A c \in C : fam[c] \in K /\ c \in F(fam[c])
  BY DEF F
<1>5. g \in [C -> K \X (1 .. w)]
  BY <1>3, <1>4
<1>6. \A c, d \in C : g[c] = g[d] => c = d
  <2>1. ASSUME NEW c \in C, NEW d \in C, g[c] = g[d] PROVE c = d
    <3>1. fam[c] = fam[d] /\ num[fam[c]][c] = num[fam[d]][d]
      BY <2>1
    <3> QED  BY <1>3, <1>4, <3>1
  <2> QED  BY <2>1
<1>7. g \in Injection(C, K \X (1 .. w))
  <2> HIDE DEF g
  <2> QED  BY <1>5, <1>6 DEF Injection, IsInjective
<1>8. IsFiniteSet(1 .. w) /\ Cardinality(1 .. w) = w
  BY FS_Interval
<1>9. IsFiniteSet(K \X (1 .. w)) /\ Cardinality(K \X (1 .. w)) = Cardinality(K) * w
  BY <1>8, FS_Product
<1> HIDE DEF g
<1> QED  BY <1>7, <1>9, FS_Injection

\* Each queued copy has a part, and so has the one in hand.
LEMMA CopiesHaveParts ==
    ASSUME Sound, Few, NEW j \in Jobs
    PROVE  /\ IsFiniteSet(Queued(j))
           /\ Cardinality(Queued(j)) + (IF InHand(j) = {} THEN 0 ELSE 1) <= Whole
           /\ Queued(j) # {} \/ InHand(j) # {} => j \in seen
<1> DEFINE Q == Parts(m_queue, j)
           H == Parts(qi, j)
<1>0. /\ TypeOK /\ m_queue \in Seq(SSQItem) /\ qi \in [Threads -> SSQItem \cup {NoItem}]
      /\ Items(m_queue) /\ Items(qi)
      /\ Cardinality(Q) \in Nat /\ Cardinality(H) \in Nat /\ Whole \in Nat /\ Whole >= 1
      /\ Cardinality(Q) + Cardinality(H) <= Whole
      /\ j \notin seen => Cardinality(Q) + Cardinality(H) = 0
  BY CopiesParts, Weights DEF Sound, TypeOK, Few, Fresh, Copies
<1>1. IsFiniteSet(Q) /\ IsFiniteSet(H)
  BY <1>0, PartsFinite
<1>2. \A i \in Queued(j) : <<i, 1>> \in Q
  <2>1. ASSUME NEW i \in Queued(j) PROVE <<i, 1>> \in Q
    <3>1. m_queue[i] \in SSQItem /\ i \in DOMAIN m_queue /\ m_queue[i].job = j
      BY <1>0 DEF Queued
    <3>2. i \in Has(m_queue, j) /\ Weight(m_queue[i]) \in 1 .. Whole
      BY <3>1, NoItemAssumption, Weights DEF Has
    <3> QED  BY <1>0, <3>2 DEF Parts
  <2> QED  BY <2>1
<1>3. \A t \in InHand(j) : <<t, 1>> \in H
  <2>1. ASSUME NEW t \in InHand(j) PROVE <<t, 1>> \in H
    <3>1. qi[t] \in SSQItem /\ t \in DOMAIN qi /\ qi[t] # NoItem /\ qi[t].job = j
      BY <1>0 DEF InHand
    <3>2. t \in Has(qi, j) /\ Weight(qi[t]) \in 1 .. Whole
      BY <3>1, Weights DEF Has
    <3> QED  BY <1>0, <3>2 DEF Parts
  <2> QED  BY <2>1
<1> HIDE DEF Q, H
<1>4. IsFiniteSet(Queued(j)) /\ Cardinality(Queued(j)) <= Cardinality(Q)
  <2> DEFINE g == [i \in Queued(j) |-> <<i, 1>>]
  <2>1. g \in [Queued(j) -> Q] /\ \A i, k \in Queued(j) : g[i] = g[k] => i = k
    BY <1>2
  <2> HIDE DEF g
  <2>2. g \in Injection(Queued(j), Q)
    BY <2>1 DEF Injection, IsInjective
  <2> QED  BY <1>1, <2>2, FS_Injection
<1>5. Cardinality(Queued(j)) \in Nat
  BY <1>4, FS_CardinalityType
<1>6. InHand(j) # {} => Cardinality(H) # 0
  BY <1>1, <1>3, FS_EmptySet
<1>7. Queued(j) # {} => Cardinality(Q) # 0
  BY <1>1, <1>2, FS_EmptySet
<1>8. Cardinality(Queued(j)) + (IF InHand(j) = {} THEN 0 ELSE 1) <= Whole
  <2>1. PICK a \in Nat, b \in Nat, c \in Nat :
           a = Cardinality(Q) /\ b = Cardinality(H) /\ c = Cardinality(Queued(j))
    BY <1>0, <1>5
  <2> QED  BY <1>0, <1>4, <1>6, <2>1
<1>9. Queued(j) # {} \/ InHand(j) # {} => j \in seen
  BY <1>0, <1>6, <1>7
<1> QED  BY <1>4, <1>8, <1>9

\* With room for every copy of every job, a queue is not full while a thread
\* has an item in hand.
LEMMA NotFull ==
    ASSUME Sound, Few, QueueBounded, IsFiniteSet(seen),
           QueueSize >= Cardinality(seen) * Whole,
           NEW t \in Threads, pc[t] # "pop"
    PROVE  ~Queue!Full
<1> SUFFICES ASSUME Queue!Full PROVE FALSE
  OBVIOUS
<1> DEFINE n == Len(m_queue)
           item(c) == IF c = n + 1 THEN qi[t] ELSE m_queue[c]
           C == 1 .. n + 1
           fam == [c \in C |-> item(c).job]
           F(k) == {c \in C : fam[c] = k}
<1>0. /\ TypeOK /\ m_queue \in Seq(SSQItem) /\ n \in Nat /\ n = QueueSize
      /\ DOMAIN m_queue = 1 .. n
      /\ qi[t] \in SSQItem /\ qi[t] # NoItem /\ Whole \in Nat
  <2>1. TypeOK /\ m_queue \in Seq(SSQItem)
    BY DEF Sound, TypeOK
  <2>2. n \in Nat /\ DOMAIN m_queue = 1 .. n
    BY <2>1
  <2>3. n = QueueSize
    BY DEF Queue!Full, QueueBounded, Queue!QueueBounded
  <2>4. qi[t] \in SSQItem /\ qi[t] # NoItem
    BY <2>1, InHandItem, NoItemAssumption
  <2> QED  BY <2>1, <2>2, <2>3, <2>4, Weights
<1>1. \A c \in C : item(c) \in SSQItem
  BY <1>0
<1>2. \A c \in 1 .. n : c \in C /\ c # n + 1 /\ item(c) = m_queue[c]
  BY <1>0
<1>3. \A c \in C : c = n + 1 \/ c \in 1 .. n
  BY <1>0
<1>4. n + 1 \in C /\ item(n + 1) = qi[t]
  BY <1>0
<1> HIDE DEF item, n, C
<1>5. ASSUME NEW c \in C PROVE fam[c] \in seen
  <2>1. fam[c] \in Jobs
    BY <1>1, ItemTypes
  <2>2. CASE c = n + 1
    <3>1. t \in InHand(fam[c])
      BY <1>0, <1>4, <2>2 DEF InHand
    <3> QED  BY <2>1, <3>1, CopiesHaveParts
  <2>3. CASE c \in 1 .. n
    <3>1. c \in Queued(fam[c])
      BY <1>0, <1>2, <2>3 DEF Queued
    <3> QED  BY <2>1, <3>1, CopiesHaveParts
  <2> QED  BY <1>3, <2>2, <2>3
<1>6. ASSUME NEW k \in seen PROVE Cardinality(F(k)) <= Whole
  <2>0. k \in Jobs
    BY <1>0 DEF TypeOK
  <2>1. /\ IsFiniteSet(Queued(k))
        /\ Cardinality(Queued(k)) + (IF InHand(k) = {} THEN 0 ELSE 1) <= Whole
    BY <2>0, CopiesHaveParts
  <2>2. Cardinality(Queued(k)) \in Nat
    BY <2>1, FS_CardinalityType
  <2>3. \A c \in 1 .. n : c \in F(k) <=> c \in Queued(k)
    BY <1>0, <1>2 DEF Queued
  <2>4. Queued(k) \subseteq 1 .. n
    BY <1>0 DEF Queued
  <2>5. CASE qi[t].job = k
    <3>1. F(k) = Queued(k) \cup {n + 1}
      BY <1>2, <1>3, <1>4, <2>3, <2>4, <2>5
    <3>2. n + 1 \notin Queued(k)
      BY <1>2, <2>4
    <3>3. Cardinality(Queued(k) \cup {n + 1}) = Cardinality(Queued(k)) + 1
      BY <2>1, <3>2, FS_AddElement
    <3>4. InHand(k) # {}
      BY <1>0, <2>5 DEF InHand
    <3> HIDE DEF F
    <3> QED  BY <2>1, <3>1, <3>3, <3>4
  <2>6. CASE qi[t].job # k
    <3>1. F(k) = Queued(k)
      BY <1>2, <1>3, <1>4, <2>3, <2>4, <2>6
    <3> HIDE DEF F
    <3> QED  BY <1>0, <2>1, <2>2, <3>1
  <2> QED  BY <2>5, <2>6
<1>7. IsFiniteSet(C) /\ Cardinality(C) = n + 1
  BY <1>0, FS_Interval DEF C
<1>8. fam \in [C -> seen]
  BY <1>5
<1> HIDE DEF fam
<1>9. Cardinality(C) <= Cardinality(seen) * Whole
  BY <1>0, <1>6, <1>7, <1>8, Families
<1>10. Cardinality(seen) \in Nat
  BY FS_CardinalityType
<1>11. PICK m \in Int : m = Cardinality(seen) * Whole
  BY <1>0, <1>10
<1> QED  BY <1>0, <1>7, <1>9, <1>11

\* Beside RoomSuffices: what was ever pushed is finite.
Roomy == IsFiniteSet(seen) /\ RoomSuffices

LEMMA Bigger ==
    ASSUME NEW a \in Nat, NEW b \in Nat, a <= b, NEW w \in Nat
    PROVE  a * w <= b * w
<1>1. PICK d \in Nat : b = a + d
  BY b - a \in Nat
<1>2. b * w = a * w + d * w /\ d * w \in Nat /\ a * w \in Nat
  BY <1>1
<1> QED  BY <1>2

\* A step drops something only from a full queue.
LEMMA DropsWhenFull ==
    ASSUME Sound, [Next]_vars, NEW j \in Jobs, "DROPPED" \notin fate[j], "DROPPED" \in fate'[j]
    PROVE  Queue!Full /\ seen' = seen /\ \E t \in Threads : pc[t] # "pop"
<1> USE DEF queueVars, poolVars, selVars, threadVars, fetchVars
<1>0. TypeOK /\ fate \in [Jobs -> SUBSET Fates]
  BY DEF Sound, TypeOK
<1>1. fate' # fate
  OBVIOUS
<1>2. ASSUME NEW k, NEW f, Settle(k, f), f # "DROPPED" PROVE FALSE
  BY <1>0, <1>2 DEF Settle
<1>3. ASSUME NEW t \in Threads, Discard(t) PROVE FALSE
  BY <1>2, <1>3 DEF Discard
<1>4. ASSUME NEW t \in Threads, NotFound(t) \/ RedirectNotFound(t) PROVE FALSE
  BY <1>2, <1>4 DEF NotFound, RedirectNotFound
<1>5. ASSUME NEW t \in Threads, Store(t) PROVE FALSE
  BY <1>2, <1>5 DEF Store, write_page_list
<1>6. ASSUME NEW item, PushOrDrop(item) PROVE Queue!Full
  BY <1>1, <1>6 DEF PushOrDrop, Queue!push_refused
<1>7. ASSUME NEW t \in Threads, RequeueNoIp(t) \/ Delay(t) \/ NetFail(t)
      PROVE  Queue!Full /\ seen' = seen /\ pc[t] # "pop"
  BY <1>6, <1>7 DEF RequeueNoIp, Delay, NetFail
<1>8. ASSUME NEW t \in Threads,
             \/ Take(t) \/ LookUp(t) \/ GetIp(t) \/ Enter(t) \/ Fetched(t)
             \/ Follow(t) \/ GetRedirectIp(t) \/ Leave(t)
      PROVE  FALSE
  BY <1>1, <1>8 DEF Take, LookUp, GetIp, Enter, Fetched, Follow, GetRedirectIp, Leave
<1>9. ASSUME NEW J, NEW f, SettleAll(J, f), f # "DROPPED" PROVE FALSE
  BY <1>0, <1>9 DEF SettleAll
<1>10. ASSUME ClearDrained \/ select_url \/ insert_url \/ EndSamsara \/ clear_urls
       PROVE  FALSE
  BY <1>9, <1>10 DEF ClearDrained, select_url, insert_url, EndSamsara, clear_urls
<1>11. ASSUME \/ Hang \/ Copy \/ Refresh \/ Insert \/ Inserted
              \/ Tick \/ Reload \/ UNCHANGED vars
       PROVE  FALSE
  BY <1>1, <1>11 DEF Hang, Copy, Refresh, Insert, Inserted, Tick, Reload, vars
<1> QED
  BY <1>3, <1>4, <1>5, <1>7, <1>8, <1>10, <1>11 DEF Next, CrawlStep, SelectStep

\* What was pushed stays finite.
LEMMA SeenFinite ==
    ASSUME Sound, IsFiniteSet(seen), [Next]_vars
    PROVE  IsFiniteSet(seen') /\ seen \subseteq seen'
<1> USE DEF queueVars, poolVars, selVars, threadVars, fetchVars
<1>1. ASSUME NEW t \in Threads, Store(t)
      PROVE  IsFiniteSet(seen') /\ seen \subseteq seen'
  <2>1. qi[t].job \in Jobs
    BY <1>1, InHandItem DEF Sound, Store
  <2>2. seen' = seen \/ seen' = seen \cup JobsFrom(qi[t].job)
    BY <1>1 DEF Store, write_to_queue, push_url
  <2>3. IsFiniteSet(seen \cup JobsFrom(qi[t].job))
    BY <2>1, FiniteJobs, FS_Union
  <2> QED  BY <2>2, <2>3
<1>2. ASSUME NEW t \in Threads, CrawlStep(t), ~Store(t) PROVE seen' = seen
  BY <1>2 DEF CrawlStep, Take, Discard, LookUp, GetIp, RequeueNoIp, Enter, Delay, Fetched,
              NotFound, Follow, GetRedirectIp, Leave, RedirectNotFound, NetFail
<1>3. CASE SelectStep \/ Tick \/ Reload \/ UNCHANGED vars
  BY <1>3 DEF SelectStep, Hang, Copy, ClearDrained, select_url, insert_url, Refresh, Insert,
              Inserted, EndSamsara, clear_urls, Tick, Reload, vars
<1> QED  BY <1>1, <1>2, <1>3 DEF Next

LEMMA NextRoomy == ASSUME Sound, Few, QueueBounded, Roomy, [Next]_vars PROVE Roomy'
<1>1. IsFiniteSet(seen) /\ IsFiniteSet(seen') /\ seen \subseteq seen'
  BY SeenFinite DEF Roomy
<1>2. /\ Cardinality(seen) \in Nat /\ Cardinality(seen') \in Nat
      /\ Cardinality(seen) <= Cardinality(seen')
  BY <1>1, FS_CardinalityType, FS_Subset
<1>3. ASSUME QueueSize >= Cardinality(seen') * Whole, NEW j \in Jobs, "DROPPED" \in fate'[j]
      PROVE  FALSE
  <2>1. QueueSize >= Cardinality(seen) * Whole
    <3>1. PICK a \in Nat, b \in Nat, w \in Nat :
             a = Cardinality(seen) /\ b = Cardinality(seen') /\ w = Whole /\ a <= b
      BY <1>2, Weights
    <3>2. a * w <= b * w /\ a * w \in Nat /\ b * w \in Nat
      BY <3>1, Bigger
    <3> QED  BY <1>3, <3>1, <3>2, LimitTypes
  <2>2. "DROPPED" \notin fate[j]
    BY <2>1 DEF Roomy, RoomSuffices
  <2>3. Queue!Full /\ \E t \in Threads : pc[t] # "pop"
    BY <1>3, <2>2, DropsWhenFull
  <2> QED  BY <1>1, <2>1, <2>3, NotFull
<1>4. RoomSuffices'
  BY <1>3 DEF RoomSuffices, Whole
<1> QED  BY <1>1, <1>4 DEF Roomy

\* The only way a URL is dropped is by a queue that is too small for all the
\* copies of all the URLs there are.
THEOREM CrawlRoomSuffices == Spec => []RoomSuffices
<1>1. Init => Roomy
  BY CrawlAssumption DEF Init, Roomy, RoomSuffices
<1>2. Sound /\ Few /\ QueueBounded /\ Roomy /\ [Next]_vars => Roomy'
  BY NextRoomy
<1>3. Roomy => RoomSuffices
  BY DEF Roomy
<1> QED
  BY <1>1, <1>2, <1>3, SoundInvariant, FewInvariant, CrawlQueueBounded, PTL DEF Spec

-----------------------------------------------------------------------------
(* The level pool's protocol *)

\* quiet of the level pool, as Crawl reads it off the pool.
Quiet == [s \in Sites |-> IF s \in DOMAIN m_pool THEN m_pool[s].age ELSE Horizon]

LEMMA LevelTypes ==
    /\ IsFiniteSet(Threads) /\ NoSite \notin Sites
    /\ Limits \subseteq Nat \ {0}
    /\ Horizon \in Nat /\ Intervals \subseteq 1 .. Horizon
BY CrawlAssumption

\* A step that neither begins nor ends an admission.
LEMMA SamePolite ==
    ASSUME UNCHANGED levelVars, UNCHANGED Crawling
    PROVE  UNCHANGED Level!vars
BY DEF levelVars, Level!vars

\* The admissions of the threads other than t, when only t moves.
LEMMA CrawlingSame ==
    ASSUME TypeOK, NEW t \in Threads, NEW l,
           pc' = [pc EXCEPT ![t] = l],
           \A u \in Threads \ {t} : qi'[u] = qi[u],
           \/ /\ pc[t] \in {"fetch", "got", "askr"} /\ l \in {"fetch", "got", "askr"}
              /\ qi'[t] = qi[t]
           \/ pc[t] \notin {"fetch", "got", "askr"} /\ l \notin {"fetch", "got", "askr"}
    PROVE  UNCHANGED Crawling
BY DEF TypeOK, Crawling, Site

\* is_crawl_enabled answering true is an admission to the URL's own site.
LEMMA EnterPolite == ASSUME Sound, NEW t \in Threads, Enter(t) PROVE Level!Next
<1>0. TypeOK /\ Site(t) \in Sites /\ pc[t] = "gate"
  BY InHandItem DEF Sound, Enter
<1> PICK s \in Sites : s = Site(t)
  BY <1>0
<1>1. Level!Admit(s) /\ UNCHANGED <<maxcc, interval, qi>> /\ pc' = [pc EXCEPT ![t] = "fetch"]
  BY DEF Enter, Goto
<1>2. Crawling[t] = NoSite
  BY <1>0 DEF Crawling
<1>3. Crawling' = [Crawling EXCEPT ![t] = s]
  BY <1>0, <1>1 DEF TypeOK, Crawling, Site
<1>4. Quiet' = [Quiet EXCEPT ![s] = 0]
  BY <1>0, <1>1 DEF Quiet, Level!Admit, Level!SetEntry, Level!Entry
<1>5. Level!Begin(t, s)
  BY <1>1, <1>2, <1>3, <1>4 DEF Level!Begin, Quiet
<1> QED
  BY <1>5 DEF Level!Next

\* Every way out of the fetches finishes the crawl of the site admitted.
LEMMA LeavePolite ==
    ASSUME Sound, NEW t \in Threads, NotFound(t) \/ Leave(t) PROVE Level!Next
<1>0. TypeOK /\ Site(t) \in Sites /\ pc[t] = "got" /\ NoSite \notin Sites
  BY InHandItem, CrawlAssumption DEF Sound, NotFound, Leave
<1>1. Level!finish_crawl(Site(t)) /\ UNCHANGED <<maxcc, interval>>
  BY DEF NotFound, Leave
<1>2. Crawling[t] = Site(t)
  BY <1>0 DEF Crawling
<1>3. Crawling' = [Crawling EXCEPT ![t] = NoSite]
  BY <1>0 DEF TypeOK, Crawling, Site, NotFound, Leave, NextUrl, Goto
<1>4. Quiet' = Quiet
  BY <1>0, <1>1 DEF Quiet, Level!finish_crawl, Level!SetEntry, Level!Entry
<1>5. Level!End(t)
  BY <1>0, <1>1, <1>2, <1>3, <1>4 DEF Level!End, Quiet
<1> QED
  BY <1>5 DEF Level!Next

LEMMA TickPolite == ASSUME Tick PROVE Level!Next
<1>1. Level!Age /\ UNCHANGED <<maxcc, interval, pc, qi>>
  BY DEF Tick, threadVars
<1>2. Crawling' = Crawling
  BY <1>1 DEF Crawling, Site
<1>3. Quiet' = [s \in Sites |-> Level!Older(Quiet[s])]
  BY <1>1, LevelTypes DEF Quiet, Level!Age, Level!Older, Level!Entry
<1> QED
  BY <1>1, <1>2, <1>3 DEF Level!Next, Level!Tick, Quiet

LEMMA ReloadPolite == ASSUME Reload PROVE Level!Next
<1>1. UNCHANGED <<m_pool, Crawling>>
  BY DEF Reload, threadVars, Crawling, Site
<1> QED
  BY <1>1 DEF Reload, Level!Next, Level!Reload

\* A step of the crawl is a step of the level pool, or none of its business.
LEMMA NextPolite == ASSUME Sound, [Next]_vars PROVE [Level!Next]_(Level!vars)
<1>0. TypeOK
  BY DEF Sound
<1>1. ASSUME NEW t \in Threads,
             \/ Take(t) \/ LookUp(t) \/ GetIp(t) \/ RequeueNoIp(t)
      PROVE  UNCHANGED Level!vars
  <2>1. UNCHANGED levelVars
    BY <1>1 DEF Take, LookUp, GetIp, RequeueNoIp
  <2>2. PICK l \in {"look", "ask", "noip", "gate"} : pc' = [pc EXCEPT ![t] = l]
    BY <1>1 DEF Take, LookUp, GetIp, RequeueNoIp, Goto, AfterGetIp
  <2>3. \A u \in Threads \ {t} : qi'[u] = qi[u]
    BY <1>0, <1>1 DEF TypeOK, Take, LookUp, GetIp, RequeueNoIp
  <2>4. pc[t] \notin {"fetch", "got", "askr"}
    BY <1>1 DEF Take, LookUp, GetIp, RequeueNoIp
  <2> QED
    BY <1>0, <2>1, <2>2, <2>3, <2>4, CrawlingSame, SamePolite
<1>2. ASSUME NEW t \in Threads,
             \/ Delay(t) \/ RedirectNotFound(t) \/ NetFail(t) \/ Store(t)
      PROVE  UNCHANGED Level!vars
  <2>1. UNCHANGED levelVars
    BY <1>2 DEF Delay, RedirectNotFound, NetFail, Store, levelVars, Level!Refuse
  <2>2. pc' = [pc EXCEPT ![t] = "pop"] /\ pc[t] \notin {"fetch", "got", "askr"}
    BY <1>2 DEF Delay, RedirectNotFound, NetFail, Store, NextUrl, Goto
  <2>3. \A u \in Threads \ {t} : qi'[u] = qi[u]
    BY <1>0, <1>2 DEF TypeOK, Delay, RedirectNotFound, NetFail, Store, NextUrl
  <2> QED
    BY <1>0, <2>1, <2>2, <2>3, CrawlingSame, SamePolite
<1>3. ASSUME NEW t \in Threads, Fetched(t) \/ Follow(t) \/ GetRedirectIp(t)
      PROVE  UNCHANGED Level!vars
  <2>1. UNCHANGED levelVars /\ UNCHANGED qi
    BY <1>3 DEF Fetched, Follow, GetRedirectIp
  <2>2. PICK l \in {"fetch", "got", "askr"} : pc' = [pc EXCEPT ![t] = l]
    BY <1>3 DEF Fetched, Follow, GetRedirectIp, Goto, Refetch, BreakOff, AfterRedirectIp
  <2>3. pc[t] \in {"fetch", "got", "askr"}
    BY <1>3 DEF Fetched, Follow, GetRedirectIp
  <2> QED
    BY <1>0, <2>1, <2>2, <2>3, CrawlingSame, SamePolite
<1>4. CASE (\E t \in Threads : Discard(t)) \/ SelectStep \/ UNCHANGED vars
  <2>1. UNCHANGED levelVars /\ UNCHANGED <<pc, qi>>
    BY <1>4 DEF Discard, SelectStep, Hang, Copy, ClearDrained, select_url, insert_url, Refresh,
                Insert, Inserted, EndSamsara, clear_urls, vars, threadVars
  <2> QED
    BY <2>1, SamePolite DEF Crawling, Site
<1> QED
  BY <1>1, <1>2, <1>3, <1>4, EnterPolite, LeavePolite, TickPolite, ReloadPolite
     DEF Next, CrawlStep

\* The crawl threads keep the level pool's protocol, with admissions that are
\* read off their program counters: every admission is finished once, for the
\* site it was given for, on every path through crawl_thread.
THEOREM CrawlPolite == Spec => Polite
<1>1. Init => Level!Init
  BY DEF Init, Level!Init, Crawling
<1>2. Sound /\ [Next]_vars => [Level!Next]_(Level!vars)
  BY NextPolite
<1> QED
  BY <1>1, <1>2, SoundInvariant, PTL DEF Spec, Polite, Level!Spec

-----------------------------------------------------------------------------
(* The limits hold for the crawl: LevelPoolProofs at work on the threads'   *)
(* program counters.                                                        *)

Proved == INSTANCE LevelPoolProofs WITH crawling <- Crawling, quiet <- Quiet

LEMMA ProvedAssumption == Proved!LevelPoolAssumption
BY CrawlAssumption DEF Proved!LevelPoolAssumption, IsFiniteSet, Proved!IsFiniteSet

\* The level pool that Crawl uses is the one that is proved about.
LEMMA ProvedSpec == Level!Spec => Proved!Spec
<1> USE DEF Level!Entry, Proved!Entry, Level!Enabled, Proved!Enabled,
            Level!SetEntry, Proved!SetEntry, Level!Older, Proved!Older, Quiet
<1>1. Level!Init => Proved!Init
  BY DEF Level!Init, Proved!Init
<1>2. ASSUME NEW t, NEW s, Level!Begin(t, s) PROVE Proved!Begin(t, s)
  BY <1>2 DEF Level!Begin, Proved!Begin, Level!Admit, Proved!Admit
<1>3. ASSUME NEW t, NEW s, Level!Wait(t, s) PROVE Proved!Wait(t, s)
  BY <1>3 DEF Level!Wait, Proved!Wait, Level!Refuse, Proved!Refuse
<1>4. ASSUME NEW t, Level!End(t) PROVE Proved!End(t)
  BY <1>4 DEF Level!End, Proved!End, Level!finish_crawl, Proved!finish_crawl
<1>5. Level!Tick => Proved!Tick
  BY DEF Level!Tick, Proved!Tick, Level!Age, Proved!Age
<1>6. Level!Reload => Proved!Reload
  BY DEF Level!Reload, Proved!Reload, Level!ReloadLimit, Proved!ReloadLimit,
         Level!ReloadInterval, Proved!ReloadInterval
<1>7. [Level!Next]_(Level!vars) => [Proved!Next]_(Proved!vars)
  BY <1>2, <1>3, <1>4, <1>5, <1>6 DEF Level!Next, Proved!Next, Level!vars, Proved!vars
<1> QED
  BY <1>1, <1>7, PTL DEF Level!Spec, Proved!Spec

\* crawl_thread_count is at all times the number of crawl threads between
\* their admission to a site and their finish, and no thread starts on a site
\* that has as many of them as the limit in force.
THEOREM CrawlNeverOverLimit == Spec => []Proved!SlotsMatchCrawlers /\ Proved!NeverOverLimit
BY CrawlPolite, ProvedSpec, ProvedAssumption, Proved!LevelPoolAccounting,
   Proved!LevelPoolNeverOverLimit, PTL DEF Polite
==============================================================================
