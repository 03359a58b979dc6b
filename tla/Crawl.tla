------------------------------- MODULE Crawl -------------------------------
(***************************************************************************)
(* crawl_thread (spider.cpp) with the components it works between: the     *)
(* selected queue, the level pool, the DNS client and the URL pools; and   *)
(* the select thread as far as it feeds them: select_url, with its quotas  *)
(* and its end of a samsara left open, insert_url, and the clearing of the *)
(* pools by load_input_urls.                                               *)
(*                                                                         *)
(* A behaviour is one samsara, to the end of that clearing, after which    *)
(* the crawl threads go on and the select thread stops: the next samsara   *)
(* is the concern of Selection and Samsara.  The mutex select_url takes    *)
(* for a pool is a copy and keeps nobody out, as in Selection: a crawl     *)
(* thread's push may come between the copying of a pool's queue and its    *)
(* clearing.                                                               *)
(*                                                                         *)
(* A job is a URL together with the pool it was selected from              *)
(* (SSQItem.url and which_queue).  A pool's m_url_set lets a URL through   *)
(* once, so a job is selected once; the queue and the threads hold copies  *)
(* of it, SSQItems, that carry the counts of failures.                     *)
(*                                                                         *)
(* A step is a critical section, a call that blocks, or the local work     *)
(* between two of them.  A paused spider (conf.spider_paused) and a        *)
(* page_output that fails keep a thread at the top of its loop, which any  *)
(* behaviour of Spec may do for as long as it likes.                       *)
(***************************************************************************)
EXTENDS Integers, Sequences, FiniteSets

CONSTANTS
    Threads,        \* the crawl threads
    Selector,       \* the select thread
    Sites, NoSite,
    Urls, NoItem,
    SiteOf,         \* ucUrl::get_site of each URL
    Malformed,      \* the URLs ucUrl::build rejects
    Kind,           \* CUrlRecognizer::get_type: "cate", "item" or "garbage"
    Normal,         \* CUrlRecognizer::normalize: what an item's URL becomes,
                    \* "" without a rule for its domain
    LinksOf,        \* the links the extractor finds in each URL's page
    Seeds,          \* the jobs in the pools at the start
    Shielded,       \* the sites whose domain is on the stop list
    Outcomes,       \* the results of http.Fetch considered
    Resolver,       \* the answers considered for each site: its address,
                    \* named like the site, or NO_IP
    NO_IP,
    QueueSize,
    max_url_fail_count, max_url_redirect_count, max_dns_query_count,
    Limits, Intervals, Horizon

ASSUME CrawlAssumption ==
    /\ IsFiniteSet(Threads) /\ Selector \notin Threads
    /\ NoSite \notin Sites /\ NO_IP \notin Sites
    /\ SiteOf \in [Urls -> Sites]
    /\ Kind \in [Urls -> {"cate", "item", "garbage"}]
    /\ Normal \in [Urls -> Urls \cup {""}]
    /\ \A u \in Urls : Normal[u] # "" => SiteOf[Normal[u]] = SiteOf[u]
    /\ LinksOf \in [Urls -> SUBSET Urls] /\ \A u \in Urls : IsFiniteSet(LinksOf[u])
    /\ Seeds \subseteq (Urls \ Malformed) \X {"CPQ", "COQ"} /\ IsFiniteSet(Seeds)
    /\ Shielded \subseteq Sites
    /\ Outcomes \subseteq {"OK", "404", "300", "ERR"}
    /\ \A s \in Sites : Resolver[s] \subseteq {s, NO_IP}
    /\ QueueSize \in Nat \ {0}
    /\ {max_url_fail_count, max_url_redirect_count, max_dns_query_count}
          \subseteq Nat \ {0}
    /\ Limits \subseteq Nat \ {0}
    /\ Horizon \in Nat /\ Intervals \subseteq 1 .. Horizon

Pools == {"CPQ", "COQ", "IPQ", "IOQ"}
Jobs == Urls \X Pools
Url(j) == j[1]
Pool(j) == j[2]

SSQItem == [job : Jobs,
            fail_count : 0 .. max_url_fail_count + 1,
            dns_count : 0 .. max_dns_query_count + 1]

ASSUME NoItemAssumption == NoItem \notin SSQItem

VARIABLES
    m_queue, m_count,           \* SelectedQueue
    m_pool, maxcc, interval,    \* LevelPool
    m_ip_list, asking, ip,      \* DnsCache
    known, waiting,             \* the pools' m_url_set and m_url_queue
    seen,                       \* history: what ever entered a pool
    selpc, at,                  \* the select thread, and the pool it is at
    picked,                     \* select_map, and then the left-overs
    buffer, m_sites, refresh,
    pc, qi,                     \* the crawl threads: where, and with what
    target,                     \* the site http.Fetch talks to
    file_length, location, redirect_count,
    fate                        \* history: what became of each job's copies

queueVars == <<m_queue, m_count>>
levelVars == <<m_pool, maxcc, interval>>
dnsVars == <<m_ip_list, asking, ip>>
poolVars == <<known, waiting, seen>>
selVars == <<selpc, at, picked, buffer, m_sites, refresh>>
fetchVars == <<target, file_length, location, redirect_count>>
threadVars == <<pc, qi, target, file_length, location, redirect_count>>
vars == <<queueVars, levelVars, dnsVars, poolVars, selVars, threadVars, fate>>

Site(t) == SiteOf[Url(qi[t].job)]

\* The admissions of the level pool that are not finished yet.
Crawling == [t \in Threads |->
               IF pc[t] \in {"fetch", "got", "askr"} THEN Site(t) ELSE NoSite]

Queue == INSTANCE SelectedQueue WITH Items <- SSQItem, m_size <- QueueSize
Level == INSTANCE LevelPool WITH crawling <- Crawling,
            quiet <- [s \in Sites |->
                        IF s \in DOMAIN m_pool THEN m_pool[s].age ELSE Horizon]
Dns == INSTANCE DnsCache WITH Callers <- Threads \cup {Selector}, Addrs <- Sites

Init == /\ Queue!Init
        /\ m_pool = [s \in {} |-> 0]
        /\ maxcc \in Limits /\ interval \in Intervals
        /\ Dns!Init
        /\ known = Seeds /\ waiting = Seeds /\ seen = Seeds
        /\ selpc = "copy" /\ at = 1
        /\ picked = {} /\ buffer = {} /\ m_sites = {} /\ refresh = {}
        /\ pc = [t \in Threads |-> "pop"]
        /\ qi = [t \in Threads |-> NoItem]
        /\ target = [t \in Threads |-> NoSite]
        /\ file_length = [t \in Threads |-> "none"]
        /\ location = [t \in Threads |-> NoSite]
        /\ redirect_count = [t \in Threads |-> 0]
        /\ fate = [j \in Jobs |-> {}]

-----------------------------------------------------------------------------
(* Helpers *)

Goto(t, label) == pc' = [pc EXCEPT ![t] = label]

Settle(j, f) == fate' = [fate EXCEPT ![j] = @ \cup {f}]

\* The thread goes back to the top of its loop; its locals are dead.
NextUrl(t) == /\ Goto(t, "pop")
              /\ qi' = [qi EXCEPT ![t] = NoItem]
              /\ target' = [target EXCEPT ![t] = NoSite]
              /\ file_length' = [file_length EXCEPT ![t] = "none"]
              /\ location' = [location EXCEPT ![t] = NoSite]
              /\ redirect_count' = [redirect_count EXCEPT ![t] = 0]
              /\ ip' = [ip EXCEPT ![t] = NO_IP]
              /\ UNCHANGED <<m_ip_list, asking>>

\* All of J end in the way f.
SettleAll(J, f) == fate' = [j \in Jobs |-> IF j \in J THEN fate[j] \cup {f} ELSE fate[j]]

\* mp_selected_queue->push(item) with its result ignored.
PushOrDrop(item) ==
    \/ Queue!push(item) /\ UNCHANGED fate
    \/ Queue!push_refused /\ Settle(item.job, "DROPPED")

-----------------------------------------------------------------------------
(* The crawl thread, in the order of its loop. *)

\* A popped item is thrown away unfetched, with a line in fail.list.
Reject(item) == \/ item.fail_count > max_url_fail_count
                \/ item.dns_count > max_dns_query_count
                \/ Url(item.job) \in Malformed

Take(t) == /\ pc[t] = "pop"
           /\ Queue!pop
           /\ ~Reject(Head(m_queue))
           /\ qi' = [qi EXCEPT ![t] = Head(m_queue)]
           /\ Goto(t, "look")
           /\ UNCHANGED <<levelVars, dnsVars, poolVars, selVars, fetchVars, fate>>

Discard(t) == /\ pc[t] = "pop"
              /\ Queue!pop
              /\ Reject(Head(m_queue))
              /\ Settle(Head(m_queue).job, "FAILED")
              /\ UNCHANGED <<levelVars, dnsVars, poolVars, selVars, threadVars>>

\* Where get_ip's answer a for the URL's own site leads.
AfterGetIp(a) == IF a = NO_IP THEN "noip" ELSE "gate"

LookUp(t) == /\ pc[t] = "look"
             /\ \/ Dns!Hit(t, Site(t)) /\ Goto(t, AfterGetIp(m_ip_list[Site(t)]))
                \/ Dns!Miss(t, Site(t)) /\ Goto(t, "ask")
             /\ UNCHANGED <<queueVars, levelVars, poolVars, selVars, qi,
                            fetchVars, fate>>

GetIp(t) == /\ pc[t] = "ask"
            /\ \E a \in Resolver[asking[t]] :
                  Dns!Resolve(t, a) /\ Goto(t, AfterGetIp(a))
            /\ UNCHANGED <<queueVars, levelVars, poolVars, selVars, qi,
                           fetchVars, fate>>

\* Slip: the item is queued before its dns_count is raised.
RequeueNoIp_Early(t) ==
    /\ pc[t] = "noip"
    /\ PushOrDrop(qi[t])
    /\ qi' = [qi EXCEPT ![t].dns_count = @ + 1]
    /\ Goto(t, "gate")
    /\ UNCHANGED <<levelVars, dnsVars, poolVars, selVars, fetchVars>>

\* A URL without address is queued again, and the thread goes on with it.
RequeueNoIp(t) ==
    LET item == [qi[t] EXCEPT !.dns_count = @ + 1]
    IN  /\ pc[t] = "noip"
        /\ PushOrDrop(item)
        /\ qi' = [qi EXCEPT ![t] = item]
        /\ Goto(t, "gate")
        /\ UNCHANGED <<levelVars, dnsVars, poolVars, selVars, fetchVars>>

Enter(t) == /\ pc[t] = "gate"
            /\ Level!Admit(Site(t))
            /\ target' = [target EXCEPT ![t] = Site(t)]
            /\ Goto(t, "fetch")
            /\ UNCHANGED <<queueVars, maxcc, interval, dnsVars, poolVars, selVars,
                           qi, file_length, location, redirect_count, fate>>

Delay(t) == /\ pc[t] = "gate"
            /\ Level!Refuse(Site(t))
            /\ PushOrDrop(qi[t])
            /\ NextUrl(t)
            /\ UNCHANGED <<maxcc, interval, poolVars, selVars>>

\* http.Fetch returns.  A redirection names a site, or has no usable location
\* (none at all, or one that ucUrl rejects); a relative one names the URL's
\* own site.
Fetched(t) ==
    /\ pc[t] = "fetch"
    /\ \E r \in Outcomes, l \in Sites \cup {NoSite} :
          /\ r # "300" => l = NoSite
          /\ file_length' = [file_length EXCEPT ![t] = r]
          /\ location' = [location EXCEPT ![t] = l]
    /\ Goto(t, "got")
    /\ UNCHANGED <<queueVars, levelVars, dnsVars, poolVars, selVars, qi, target,
                   redirect_count, fate>>

NotFoundAtOnce(t) == file_length[t] = "404" /\ redirect_count[t] = 0

NotFound(t) == /\ pc[t] = "got"
               /\ NotFoundAtOnce(t)
               /\ Level!finish_crawl(Site(t))
               /\ Settle(qi[t].job, "FAILED")
               /\ NextUrl(t)
               /\ UNCHANGED <<queueVars, maxcc, interval, poolVars, selVars>>

\* The condition of the redirection loop and of its first break.
MayFollow(t) == /\ file_length[t] = "300"
                /\ redirect_count[t] < max_url_redirect_count
                /\ location[t] # NoSite

Refetch(t, s) == /\ target' = [target EXCEPT ![t] = s]
                 /\ redirect_count' = [redirect_count EXCEPT ![t] = @ + 1]
                 /\ location' = [location EXCEPT ![t] = NoSite]
                 /\ Goto(t, "fetch")
                 /\ UNCHANGED file_length

\* The break for a redirection to a site without address.
BreakOff(t) == /\ location' = [location EXCEPT ![t] = NoSite]
               /\ Goto(t, "got")
               /\ UNCHANGED <<target, redirect_count, file_length>>

AfterRedirectIp(t, s, a) == IF a = NO_IP THEN BreakOff(t) ELSE Refetch(t, s)

\* Slip: the address is not looked up for another site.
Follow_OldIp(t) ==
    /\ pc[t] = "got"
    /\ MayFollow(t)
    /\ Refetch(t, location[t])
    /\ UNCHANGED <<queueVars, levelVars, dnsVars, poolVars, selVars, qi, fate>>

\* Only a redirection to another site asks for an address.
Follow(t) ==
    /\ pc[t] = "got"
    /\ MayFollow(t)
    /\ LET s == location[t]
       IN  \/ s = Site(t) /\ Refetch(t, s) /\ UNCHANGED dnsVars
           \/ s # Site(t) /\ Dns!Hit(t, s) /\ AfterRedirectIp(t, s, m_ip_list[s])
           \/ s # Site(t) /\ Dns!Miss(t, s) /\ Goto(t, "askr")
                          /\ UNCHANGED fetchVars
    /\ UNCHANGED <<queueVars, levelVars, poolVars, selVars, qi, fate>>

GetRedirectIp(t) ==
    /\ pc[t] = "askr"
    /\ \E a \in Resolver[asking[t]] :
          Dns!Resolve(t, a) /\ AfterRedirectIp(t, asking[t], a)
    /\ UNCHANGED <<queueVars, levelVars, poolVars, selVars, qi, fate>>

\* Slip: the slot given back is the one of the site fetched last.
Leave_OtherSite(t) ==
    /\ pc[t] = "got"
    /\ ~NotFoundAtOnce(t) /\ ~MayFollow(t)
    /\ Level!finish_crawl(target[t])
    /\ Goto(t, "sort")
    /\ UNCHANGED <<queueVars, maxcc, interval, dnsVars, poolVars, selVars,
                   qi, fetchVars, fate>>

Leave(t) == /\ pc[t] = "got"
            /\ ~NotFoundAtOnce(t) /\ ~MayFollow(t)
            /\ Level!finish_crawl(Site(t))
            /\ Goto(t, "sort")
            /\ UNCHANGED <<queueVars, maxcc, interval, dnsVars, poolVars, selVars,
                           qi, fetchVars, fate>>

RedirectNotFound(t) ==
    /\ pc[t] = "sort"
    /\ file_length[t] = "404"
    /\ Settle(qi[t].job, "FAILED")
    /\ NextUrl(t)
    /\ UNCHANGED <<queueVars, levelVars, poolVars, selVars>>

\* Slip: the failed URL is not queued again (line 344 missing).
NetFail_Forget(t) == /\ pc[t] = "sort"
                     /\ file_length[t] \in {"ERR", "300"}
                     /\ NextUrl(t)
                     /\ UNCHANGED <<queueVars, levelVars, poolVars, selVars, fate>>

\* Slip: the failure is not counted (line 343 missing).
NetFail_Uncounted(t) == /\ pc[t] = "sort"
                        /\ file_length[t] \in {"ERR", "300"}
                        /\ PushOrDrop(qi[t])
                        /\ NextUrl(t)
                        /\ UNCHANGED <<levelVars, poolVars, selVars>>

\* file_length < 0: an error, or a redirection not followed to its end.
NetFail(t) == /\ pc[t] = "sort"
              /\ file_length[t] \in {"ERR", "300"}
              /\ PushOrDrop([qi[t] EXCEPT !.fail_count = @ + 1])
              /\ NextUrl(t)
              /\ UNCHANGED <<levelVars, poolVars, selVars>>

\* write_to_queue: the jobs the links of a page of job j become.  A link that
\* ucUrl rejects is passed over; the normal form of an item's is not looked at
\* again, except that push_url ignores an empty one.
JobsFrom(j) ==
    LET cq == IF Pool(j) = "CPQ" THEN "CPQ" ELSE "COQ"
        iq == IF Pool(j) = "CPQ" THEN "IPQ" ELSE "IOQ"
        links == LinksOf[Url(j)] \ Malformed
    IN  {<<l, cq>> : l \in {x \in links : Kind[x] = "cate"}}
          \cup {<<Normal[l], iq>> :
                   l \in {x \in links : Kind[x] = "item" /\ Normal[x] # ""}}

\* push_url of each of J: a URL enters a pool once.  All the pushes of a page
\* are one step here; Selection has them one by one.
push_url(J) == /\ known' = known \cup J
               /\ waiting' = waiting \cup (J \ known)
               /\ seen' = seen \cup J

write_to_queue(j) == push_url(JobsFrom(j))

\* write_page_list: an item is on the list by now, but its page is lost if it
\* is too long for the buffer or not written.
write_page_list(j) ==
    \/ Settle(j, "STORED")
    \/ Pool(j) \in {"IPQ", "IOQ"} /\ Settle(j, "PAGE_LOST")

\* The page is there.  Appending to cate.list or item.list may fail, and so
\* may the conversion, in which case no link is taken from the page.
Store(t) ==
    /\ pc[t] = "sort"
    /\ file_length[t] = "OK"
    /\ \/ Settle(qi[t].job, "UNSTORED") /\ UNCHANGED poolVars
       \/ Settle(qi[t].job, "PAGE_LOST") /\ UNCHANGED poolVars
       \/ write_to_queue(qi[t].job) /\ write_page_list(qi[t].job)
    /\ NextUrl(t)
    /\ UNCHANGED <<queueVars, levelVars, selVars>>

CrawlStep(t) == \/ Take(t) \/ Discard(t)
                \/ LookUp(t) \/ GetIp(t) \/ RequeueNoIp(t)
                \/ Enter(t) \/ Delay(t)
                \/ Fetched(t) \/ NotFound(t)
                \/ Follow(t) \/ GetRedirectIp(t) \/ Leave(t)
                \/ RedirectNotFound(t) \/ NetFail(t) \/ Store(t)

-----------------------------------------------------------------------------
(* The select thread. *)

\* m_statis.m_domain, as loading the seeds leaves it: a site's domain is a
\* priority domain if a CPQ seed is on it, an ordinary one if only COQ seeds
\* are, and else unknown.  (Links are pushed without entering their domain.)
PriorityDomain(s) == \E j \in Seeds : SiteOf[Url(j)] = s /\ Pool(j) = "CPQ"
OrdinaryDomain(s) == /\ \E j \in Seeds : SiteOf[Url(j)] = s
                     /\ ~PriorityDomain(s)

\* select_url goes through the domains that are known and not shielded.
Selectable(j) == LET s == SiteOf[Url(j)]
                 IN  s \notin Shielded /\ (PriorityDomain(s) \/ OrdinaryDomain(s))

\* insert_url gives a left-over job back only to a pool of its domain's class.
GivenBack(j) == IF PriorityDomain(SiteOf[Url(j)]) THEN Pool(j) \in {"CPQ", "IPQ"}
                                                  ELSE Pool(j) \in {"COQ", "IOQ"}

\* The order in which select_url goes through the pools, and that of
\* load_input_urls.
DrainOrder == <<"CPQ", "IPQ", "IOQ", "COQ">>
ClearOrder == <<"CPQ", "IPQ", "COQ", "IOQ">>

\* The jobs waiting in pool k.
WaitingIn(k) == {j \in waiting : Pool(j) = k}

\* The mutex copied for a pool is its own, but ipq's for cpq.
LockedFor(k) == IF k = "CPQ" THEN "IPQ" ELSE k

\* The copy is made while a crawl thread, pushing a new link, holds the mutex:
\* nobody unlocks it.
Hang == /\ selpc = "copy"
        /\ \E t \in Threads :
              /\ pc[t] = "sort" /\ file_length[t] = "OK"
              /\ \E j \in JobsFrom(qi[t].job) \ known : Pool(j) = LockedFor(DrainOrder[at])
        /\ selpc' = "hung"
        /\ UNCHANGED <<queueVars, levelVars, dnsVars, poolVars, at, picked, buffer,
                       m_sites, refresh, threadVars, fate>>

\* select_url goes through a pool's queue ...
Copy == /\ selpc = "copy"
        /\ picked' = picked \cup WaitingIn(DrainOrder[at])
        /\ selpc' = "wipe"
        /\ UNCHANGED <<queueVars, levelVars, dnsVars, poolVars, at, buffer, m_sites,
                       refresh, threadVars, fate>>

\* ... and clears it, with what was pushed since.
ClearDrained ==
    /\ selpc = "wipe"
    /\ waiting' = waiting \ WaitingIn(DrainOrder[at])
    /\ SettleAll(WaitingIn(DrainOrder[at]) \ picked, "OVERLOOKED")
    /\ \/ at < 4 /\ selpc' = "copy" /\ at' = at + 1
       \/ at = 4 /\ selpc' = "quota" /\ at' = 1
    /\ UNCHANGED <<queueVars, levelVars, dnsVars, known, seen, picked, buffer, m_sites,
                   refresh, threadVars>>

\* Within its quotas, left open here, select_url moves jobs to m_select_buffer;
\* the sites of those it takes from the left-overs to fill up are not entered
\* in m_sites.  Any round may turn out to be the last of the samsara.
select_url ==
    LET ready == {j \in picked : Selectable(j)}
    IN  /\ selpc = "quota"
        /\ \E B \in SUBSET ready :
              /\ buffer' = B
              /\ picked' = ready \ B
              /\ \E S \in SUBSET {SiteOf[Url(j)] : j \in B} : m_sites' = m_sites \cup S
        /\ SettleAll(picked \ ready, "UNSELECTED")
        /\ selpc' \in {"insert", "end"}
        /\ UNCHANGED <<queueVars, levelVars, dnsVars, poolVars, at, refresh, threadVars>>

\* insert_url gives the left-overs back, or to nobody, and forgets all
\* addresses ("get the ips ready") ...
insert_url == LET back == {j \in picked : GivenBack(j)}
              IN  /\ selpc = "insert"
                  /\ waiting' = waiting \cup back
                  /\ SettleAll(picked \ back, "UNSELECTED")
                  /\ picked' = {}
                  /\ Dns!clear_map
                  /\ refresh' = m_sites
                  /\ selpc' = "push"
                  /\ UNCHANGED <<queueVars, levelVars, known, seen, at, buffer,
                                 m_sites, threadVars>>

\* ... and look the sites selected so far up again, one by one.
Refresh == /\ selpc = "push"
           /\ \/ \E s \in refresh : /\ Dns!Hit(Selector, s)
                                    /\ refresh' = refresh \ {s}
              \/ /\ \E s \in refresh : Dns!Miss(Selector, s)
                 /\ UNCHANGED refresh
              \/ /\ asking[Selector] # NoSite
                 /\ \E a \in Resolver[asking[Selector]] : Dns!Resolve(Selector, a)
                 /\ refresh' = refresh \ {asking[Selector]}
           /\ UNCHANGED <<queueVars, levelVars, poolVars, selpc, at, picked, buffer,
                          m_sites, threadVars, fate>>

\* insert_url pushes the shuffled buffer, waiting while the queue is full.
Insert == /\ selpc = "push" /\ refresh = {}
          /\ \E j \in buffer :
                /\ Queue!push([job |-> j, fail_count |-> 0, dns_count |-> 0])
                /\ buffer' = buffer \ {j}
          /\ UNCHANGED <<levelVars, dnsVars, poolVars, selpc, at, picked, m_sites,
                         refresh, threadVars, fate>>

Inserted == /\ selpc = "push" /\ refresh = {} /\ buffer = {}
            /\ selpc' = "copy"
            /\ ip' = [ip EXCEPT ![Selector] = NO_IP]
            /\ UNCHANGED <<queueVars, levelVars, m_ip_list, asking, poolVars, at, picked,
                           buffer, m_sites, refresh, threadVars, fate>>

\* The samsara ends: select_url, having waited for the selected queue to run
\* down (Samsara), clears it.  The buffer and the left-overs are kept.
EndSamsara == /\ selpc = "end"
              /\ Queue!clear
              /\ SettleAll({m_queue[i].job : i \in DOMAIN m_queue}, "CLEARED")
              /\ selpc' = "clear"
              /\ UNCHANGED <<levelVars, dnsVars, poolVars, at, picked, buffer, m_sites,
                             refresh, threadVars>>

\* load_input_urls clears the pools.  (clear_urls clears a pool's queue and then
\* its set; Selection has the two apart.)
clear_urls ==
    /\ selpc = "clear"
    /\ waiting' = waiting \ WaitingIn(ClearOrder[at])
    /\ known' = {j \in known : Pool(j) # ClearOrder[at]}
    /\ SettleAll(WaitingIn(ClearOrder[at]), "CLEARED")
    /\ \/ at < 4 /\ at' = at + 1 /\ UNCHANGED selpc
       \/ at = 4 /\ at' = 1 /\ selpc' = "over"
    /\ UNCHANGED <<queueVars, levelVars, dnsVars, seen, picked, buffer, m_sites,
                   refresh, threadVars>>

SelectStep == \/ Hang \/ Copy \/ ClearDrained
              \/ select_url
              \/ insert_url \/ Refresh \/ Insert \/ Inserted
              \/ EndSamsara \/ clear_urls

-----------------------------------------------------------------------------
Tick == /\ Level!Age
        /\ UNCHANGED <<queueVars, maxcc, interval, dnsVars, poolVars, selVars,
                       threadVars, fate>>

\* update_conf rereads the two limits of the level pool.
Reload == /\ \/ (\E n \in Limits : Level!ReloadLimit(n)) /\ UNCHANGED interval
             \/ (\E n \in Intervals : Level!ReloadInterval(n)) /\ UNCHANGED maxcc
          /\ UNCHANGED <<queueVars, m_pool, dnsVars, poolVars, selVars, threadVars,
                         fate>>

Next == \/ \E t \in Threads : CrawlStep(t)
        \/ SelectStep
        \/ Tick
        \/ Reload

Spec == Init /\ [][Next]_vars

\* Threads run, fetches and resolutions end (by their timeouts), the clock
\* advances.
FairSpec == /\ Spec
            /\ \A t \in Threads : WF_vars(CrawlStep(t))
            /\ WF_vars(SelectStep)
            /\ WF_vars(Tick)

-----------------------------------------------------------------------------
(* The copies of a job: queued, or in a thread's hands. *)
Queued(j) == {i \in DOMAIN m_queue : m_queue[i].job = j}
InHand(j) == {t \in Threads : qi[t] # NoItem /\ qi[t].job = j}
NoCopy(j) == Queued(j) = {} /\ InHand(j) = {}

Fates == {"FAILED", "STORED", "PAGE_LOST",
          "DROPPED", "UNSTORED", "UNSELECTED", "OVERLOOKED", "CLEARED"}

\* The samsara is over for the select thread.
Ending == selpc \in {"end", "clear", "over"}

TypeOK ==
    /\ m_queue \in Seq(SSQItem)
    /\ seen \subseteq Jobs
    /\ known \subseteq seen /\ waiting \subseteq seen
    /\ picked \subseteq seen /\ buffer \subseteq seen
    /\ m_sites \subseteq Sites /\ refresh \subseteq m_sites
    /\ selpc \in {"copy", "wipe", "hung", "quota", "insert", "push",
                  "end", "clear", "over"}
    /\ at \in 1 .. 4
    /\ pc \in [Threads -> {"pop", "look", "ask", "noip", "gate", "fetch", "got",
                           "askr", "sort"}]
    /\ qi \in [Threads -> SSQItem \cup {NoItem}]
    /\ \A t \in Threads : pc[t] = "pop" <=> qi[t] = NoItem
    /\ target \in [Threads -> Sites \cup {NoSite}]
    /\ file_length \in [Threads -> Outcomes \cup {"none"}]
    /\ location \in [Threads -> Sites \cup {NoSite}]
    /\ redirect_count \in [Threads -> 0 .. max_url_redirect_count]
    /\ DOMAIN m_ip_list \subseteq Sites
    /\ asking \in [Threads \cup {Selector} -> Sites \cup {NoSite}]
    /\ ip \in [Threads \cup {Selector} -> Sites \cup {NO_IP}]
    /\ fate \in [Jobs -> SUBSET Fates]

(* The crawl threads use the queue as CSelectedQueue needs it: its counter *)
(* is its length and stays within the capacity.                            *)
QueueBounded == Queue!QueueBounded

(* The crawl threads keep the level pool's protocol: one finish_crawl for  *)
(* every admission, on every path through crawl_thread, for the site that  *)
(* was admitted.  With it the pool's limits hold for the URLs' own sites.  *)
Polite == Level!Spec

(* No URL vanishes: what ever entered a pool still waits, is being         *)
(* selected, is about to be pushed, is queued, is in a thread's hands, or  *)
(* ended in one of the named ways.  They are a line in fail.list (FAILED,  *)
(* if it can be written), in cate.list or in item.list (STORED, or         *)
(* PAGE_LOST without the page or its links), and the losses no list shows: *)
(* the selected queue was full (DROPPED), the list took no line            *)
(* (UNSTORED), the domain is unknown, shielded or of the other class than  *)
(* the job's pool (UNSELECTED), the URL was pushed between select_url's    *)
(* copying and clearing of the pool (OVERLOOKED), or the samsara ended     *)
(* with it in the selected queue or a pool (CLEARED).                      *)
NothingVanishes ==
    \A j \in seen :
        \/ j \in waiting \cup picked \cup buffer
        \/ ~NoCopy(j)
        \/ fate[j] # {}

Whole == 2 ^ (max_dns_query_count + 1)
Weight(item) == 2 ^ (max_dns_query_count + 1 - item.dns_count)

\* A copy that has met NO_IP n times has a 2^n-th part of the whole: the
\* parts that the queued copies of a job have, and those of the copies in
\* hand.
QueuedParts(j) == {p \in Queued(j) \X (1 .. Whole) : p[2] <= Weight(m_queue[p[1]])}
InHandParts(j) == {p \in InHand(j) \X (1 .. Whole) : p[2] <= Weight(qi[p[1]])}

(* A job is copied only for want of an address, and each copy costs both   *)
(* one of their remaining dns_counts: weighing a copy 2^(remaining counts) *)
(* the copies of a job never weigh more than the one first pushed.  So a   *)
(* copy that never met NO_IP is the only one, and there are at most        *)
(* 2^(max_dns_query_count + 1) of them at any time.                        *)
CopiesHalve ==
    \A j \in Jobs : Cardinality(QueuedParts(j)) + Cardinality(InHandParts(j)) <= Whole

(* A queue with room for all those copies of all jobs never refuses one:   *)
(* the only way a URL is dropped is by a queue that is too small for the   *)
(* URLs selected at one time.                                              *)
RoomSuffices ==
    QueueSize >= Cardinality(seen) * Whole =>
        \A j \in Jobs : "DROPPED" \notin fate[j]

(* The first fetch of a URL and the first redirection go to an address of  *)
(* the site they name, however the cache is cleared and refilled between.  *)
(* (A second redirection, back to the URL's own site, is sent to the       *)
(* address of the site in between: ehconfig.ipstr is not reset.)           *)
FetchesItsSite ==
    \A t \in Threads :
        pc[t] = "fetch" /\ redirect_count[t] <= 1 => ip[t] \in {target[t], NO_IP}

(* No URL goes round for ever: the failure counts bound the retries of     *)
(* each copy and the delays end, so in the end the queue and the threads   *)
(* are rid of every job that was selected, and so is the buffer, unless    *)
(* the samsara ended with it.                                              *)
CrawlDrains ==
    <>[]((\A j \in seen : NoCopy(j)) /\ (buffer = {} \/ Ending))
=============================================================================
