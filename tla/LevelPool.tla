----------------------------- MODULE LevelPool -----------------------------
(***************************************************************************)
(* CLevelPool (level_pool.cpp): the politeness control of the spider.  A   *)
(* crawl thread asks is_crawl_enabled(site) before it fetches a URL of the *)
(* site and calls finish_crawl(site) once, after the last fetch of that    *)
(* URL (spider.cpp, crawl_thread).  The pool keeps, per site, how many     *)
(* threads crawl it and when a crawl of it was last admitted.  Both        *)
(* operations run under the pool's mutex, so each is one atomic step.      *)
(*                                                                         *)
(* The two limits are fields of the live configuration: the select thread  *)
(* rewrites them (update_conf) while crawl threads read them.              *)
(*                                                                         *)
(* Time.  The code reads the clock only as now - last_crawl_time, which it *)
(* compares with an interval.  A site's entry therefore keeps that         *)
(* difference, "age", and the clock Tick adds 1 to it up to Horizon, a     *)
(* value no configured interval exceeds.                                   *)
(***************************************************************************)
EXTENDS Integers, FiniteSets

CONSTANTS Threads,      \* the crawl threads
          Sites,        \* the sites they crawl
          NoSite,       \* "this thread holds no admission"
          Limits,       \* values DEFAULT_MAX_CONCURRENT_THREAD_COUNT may take
          Intervals,    \* values DEFAULT_SITE_CRAWL_INTERVAL may take
          Horizon       \* the largest age told apart

ASSUME LevelPoolAssumption ==
    /\ IsFiniteSet(Threads)
    /\ NoSite \notin Sites
    /\ Limits \subseteq Nat \ {0}
    /\ Horizon \in Nat
    /\ Intervals \subseteq 1..Horizon

VARIABLES
    m_pool,     \* site -> its SLevelInfo, for the sites asked for so far
    maxcc,      \* conf.default_max_concurrent_thread_count
    interval,   \* conf.default_site_crawl_interval
    crawling,   \* the site each thread was admitted to and has not finished
    quiet       \* history: ticks since each site was last admitted

vars == <<m_pool, maxcc, interval, crawling, quiet>>

SLevelInfo == [crawl_thread_count : Nat, age : 0..Horizon]

-----------------------------------------------------------------------------
(* The pool's operations. *)

Entry(count, age) == [crawl_thread_count |-> count, age |-> age]

SetEntry(s, e) ==
    m_pool' = [x \in DOMAIN m_pool \cup {s} |-> IF x = s THEN e ELSE m_pool[x]]

\* Slip: the limit compared with > instead of >= (line 50).
Enabled_OneTooMany(s) ==
    s \in DOMAIN m_pool =>
        /\ m_pool[s].crawl_thread_count <= maxcc
        /\ m_pool[s].age >= interval

\* is_crawl_enabled(s) would answer true.
Enabled(s) ==
    s \in DOMAIN m_pool =>
        /\ m_pool[s].crawl_thread_count < maxcc
        /\ m_pool[s].age >= interval

\* Slip: last_crawl_time is set on insertion only (line 61 missing).
Admit_OldTime(s) ==
    /\ Enabled(s)
    /\ SetEntry(s, IF s \in DOMAIN m_pool
                      THEN Entry(m_pool[s].crawl_thread_count + 1, m_pool[s].age)
                      ELSE Entry(1, 0))

\* Slip: a site inserted by its first crawl starts with no crawler (line 42).
Admit_Uncounted(s) ==
    /\ Enabled(s)
    /\ SetEntry(s, Entry(IF s \in DOMAIN m_pool
                           THEN m_pool[s].crawl_thread_count + 1
                           ELSE 0, 0))

\* is_crawl_enabled(s) answering true.
Admit(s) ==
    /\ Enabled(s)
    /\ SetEntry(s, Entry(IF s \in DOMAIN m_pool
                           THEN m_pool[s].crawl_thread_count + 1
                           ELSE 1, 0))

\* is_crawl_enabled(s) answering false.
Refuse(s) ==
    /\ ~Enabled(s)
    /\ UNCHANGED m_pool

\* Slip: line 81 missing, the slot is never given back.
finish_crawl_Leak(s) == UNCHANGED m_pool

finish_crawl(s) ==
    IF s \in DOMAIN m_pool
      THEN SetEntry(s, Entry(m_pool[s].crawl_thread_count - 1, m_pool[s].age))
      ELSE UNCHANGED m_pool

Older(n) == IF n < Horizon THEN n + 1 ELSE n

\* The wall clock read by get_time_now advances.
Age == m_pool' = [s \in DOMAIN m_pool |->
                    Entry(m_pool[s].crawl_thread_count, Older(m_pool[s].age))]

\* load_conf assigns the two limits one after the other, without the mutex.
ReloadLimit(n) == n # maxcc /\ maxcc' = n

ReloadInterval(n) == n # interval /\ interval' = n

-----------------------------------------------------------------------------
(* The pool together with the threads that use it. *)

Init == /\ m_pool = [s \in {} |-> Entry(0, 0)]
        /\ maxcc \in Limits
        /\ interval \in Intervals
        /\ crawling = [t \in Threads |-> NoSite]
        /\ quiet = [s \in Sites |-> Horizon]

Begin(t, s) == /\ crawling[t] = NoSite
               /\ Admit(s)
               /\ crawling' = [crawling EXCEPT ![t] = s]
               /\ quiet' = [quiet EXCEPT ![s] = 0]
               /\ UNCHANGED <<maxcc, interval>>

Wait(t, s) == /\ crawling[t] = NoSite
              /\ Refuse(s)
              /\ UNCHANGED <<maxcc, interval, crawling, quiet>>

End(t) == /\ crawling[t] # NoSite
          /\ finish_crawl(crawling[t])
          /\ crawling' = [crawling EXCEPT ![t] = NoSite]
          /\ UNCHANGED <<maxcc, interval, quiet>>

Tick == /\ Age
        /\ quiet' = [s \in Sites |-> Older(quiet[s])]
        /\ UNCHANGED <<maxcc, interval, crawling>>

Reload == \/ /\ \E n \in Limits : ReloadLimit(n)
             /\ UNCHANGED <<m_pool, interval, crawling, quiet>>
          \/ /\ \E n \in Intervals : ReloadInterval(n)
             /\ UNCHANGED <<m_pool, maxcc, crawling, quiet>>

Next == \/ \E t \in Threads, s \in Sites : Begin(t, s) \/ Wait(t, s)
        \/ \E t \in Threads : End(t)
        \/ Tick
        \/ Reload

Spec == Init /\ [][Next]_vars

\* The clock advances, and a thread that was admitted to a site calls
\* finish_crawl: its fetches end, by a timeout of CHttp if nothing else.
FairSpec == Spec /\ WF_vars(Tick) /\ \A t \in Threads : WF_vars(End(t))

-----------------------------------------------------------------------------
Crawlers(s) == {t \in Threads : crawling[t] = s}

\* In this step some thread starts on site s.
Starts(s) == \E t \in Threads : crawling[t] # s /\ crawling'[t] = s

TypeOK == /\ DOMAIN m_pool \subseteq Sites
          /\ m_pool \in [DOMAIN m_pool -> SLevelInfo]
          /\ maxcc \in Limits
          /\ interval \in Intervals
          /\ crawling \in [Threads -> Sites \cup {NoSite}]
          /\ quiet \in [Sites -> 0..Horizon]

(* crawl_thread_count of a site is the number of threads between their     *)
(* is_crawl_enabled and their finish_crawl; a site not in the pool has     *)
(* none.  One finish too many or too few shifts the limit of line 50 for   *)
(* the rest of the process.                                                *)
SlotsMatchCrawlers ==
    \A s \in Sites :
        Cardinality(Crawlers(s)) =
            IF s \in DOMAIN m_pool THEN m_pool[s].crawl_thread_count ELSE 0

(* last_crawl_time is the time of the last admission, and only a site that *)
(* was never admitted is missing from the pool: between the two, no other  *)
(* operation moves the clock against which line 56 judges the interval.    *)
AgeIsQuiet ==
    \A s \in Sites :
        quiet[s] = IF s \in DOMAIN m_pool THEN m_pool[s].age ELSE Horizon

(* A thread starts on a site only if the site then has no more crawlers    *)
(* than the limit in force allows.  (A reload may lower the limit below    *)
(* the crawlers already there: they finish, none is added.)                *)
NeverOverLimit ==
    [][\A s \in Sites : Starts(s) => Cardinality(Crawlers(s)') <= maxcc]_vars

(* Two admissions of one site are at least the interval in force apart,    *)
(* whichever threads ask and however they interleave with the clock.       *)
AdmissionsSpaced == [][\A s \in Sites : Starts(s) => quiet[s] >= interval]_vars

(* No site is shut out for good: it keeps becoming crawlable, whatever the *)
(* threads and the reloads do.                                             *)
SiteReopens == \A s \in Sites : []<>Enabled(s)
=============================================================================
