-------------------------- MODULE LevelPoolProofs --------------------------
(***************************************************************************)
(* The level pool's safety, for any number of threads and sites and any    *)
(* values of the limits.  TypeOK says that a count is a natural number,    *)
(* which finish_crawl keeps only because every finish has its admission:   *)
(* the inductive invariant is TypeOK with SlotsMatchCrawlers, and the      *)
(* spacing of admissions needs AgeIsQuiet besides.                         *)
(***************************************************************************)
EXTENDS LevelPool, FiniteSetTheorems, TLAPS

IInv == TypeOK /\ SlotsMatchCrawlers /\ AgeIsQuiet

\* What a thread that starts on s, or ends on s, does to the sets of crawlers.
LEMMA CrawlersAfterBegin ==
    ASSUME TypeOK, NEW t \in Threads, NEW s \in Sites,
           crawling[t] = NoSite,
           crawling' = [crawling EXCEPT ![t] = s]
    PROVE  /\ t \notin Crawlers(s)
           /\ Crawlers(s)' = Crawlers(s) \cup {t}
           /\ \A x \in Sites \ {s} : Crawlers(x)' = Crawlers(x)
BY LevelPoolAssumption DEF TypeOK, Crawlers

LEMMA CrawlersAfterEnd ==
    ASSUME TypeOK, NEW t \in Threads, NEW s \in Sites,
           crawling[t] = s,
           crawling' = [crawling EXCEPT ![t] = NoSite]
    PROVE  /\ t \in Crawlers(s)
           /\ Crawlers(s)' = Crawlers(s) \ {t}
           /\ \A x \in Sites \ {s} : Crawlers(x)' = Crawlers(x)
BY LevelPoolAssumption DEF TypeOK, Crawlers

\* The crawlers of a site are finitely many.
LEMMA CrawlersFinite ==
    ASSUME NEW s
    PROVE  IsFiniteSet(Crawlers(s)) /\ Cardinality(Crawlers(s)) \in Nat
<1>1. Crawlers(s) \subseteq Threads
  BY DEF Crawlers
<1>2. IsFiniteSet(Crawlers(s))
  BY <1>1, LevelPoolAssumption, FS_Subset
<1> QED
  BY <1>2, FS_CardinalityType

\* The initial pool is empty and nobody crawls.
LEMMA InitIInv == Init => IInv
<1> SUFFICES ASSUME Init PROVE IInv
  OBVIOUS
<1>1. TypeOK
  BY LevelPoolAssumption DEF Init, TypeOK, SLevelInfo
<1>2. \A s \in Sites : Crawlers(s) = {}
  BY LevelPoolAssumption DEF Init, Crawlers
<1>3. SlotsMatchCrawlers
  BY <1>2, FS_EmptySet DEF SlotsMatchCrawlers, Init
<1>4. AgeIsQuiet
  BY DEF AgeIsQuiet, Init
<1> QED
  BY <1>1, <1>3, <1>4 DEF IInv

\* A step that changes the pool only at site s, giving it the entry e.
LEMMA PoolAfterSet ==
    ASSUME TypeOK, NEW s \in Sites, NEW e \in SLevelInfo, SetEntry(s, e)
    PROVE  /\ DOMAIN m_pool' = DOMAIN m_pool \cup {s}
           /\ m_pool' \in [DOMAIN m_pool' -> SLevelInfo]
           /\ m_pool'[s] = e
           /\ \A x \in DOMAIN m_pool \ {s} : m_pool'[x] = m_pool[x]
BY DEF TypeOK, SetEntry

\* An admission keeps the invariant.
LEMMA BeginIInv ==
    ASSUME IInv, NEW t \in Threads, NEW s \in Sites, Begin(t, s)
    PROVE  IInv'
<1> DEFINE n == IF s \in DOMAIN m_pool THEN m_pool[s].crawl_thread_count ELSE 0
<1>0. TypeOK /\ SlotsMatchCrawlers /\ AgeIsQuiet
  BY DEF IInv
<1>1. n \in Nat /\ Cardinality(Crawlers(s)) = n
  BY <1>0 DEF TypeOK, SlotsMatchCrawlers, SLevelInfo
<1>2. Entry(n + 1, 0) \in SLevelInfo /\ SetEntry(s, Entry(n + 1, 0))
  BY <1>1, LevelPoolAssumption DEF Begin, Admit, Entry, SLevelInfo
<1>3. /\ DOMAIN m_pool' = DOMAIN m_pool \cup {s}
      /\ m_pool' \in [DOMAIN m_pool' -> SLevelInfo]
      /\ m_pool'[s] = Entry(n + 1, 0)
      /\ \A x \in DOMAIN m_pool \ {s} : m_pool'[x] = m_pool[x]
  BY <1>0, <1>2, PoolAfterSet
<1>4. /\ t \notin Crawlers(s)
      /\ Crawlers(s)' = Crawlers(s) \cup {t}
      /\ \A x \in Sites \ {s} : Crawlers(x)' = Crawlers(x)
  BY <1>0, CrawlersAfterBegin DEF Begin
<1>5. TypeOK'
  BY <1>0, <1>3, LevelPoolAssumption DEF Begin, TypeOK
<1>6. Cardinality(Crawlers(s)') = n + 1
  BY <1>1, <1>4, CrawlersFinite, FS_AddElement
<1>7. SlotsMatchCrawlers'
  <2> SUFFICES ASSUME NEW x \in Sites
               PROVE  Cardinality(Crawlers(x)') =
                        IF x \in DOMAIN m_pool'
                          THEN m_pool'[x].crawl_thread_count ELSE 0
    BY DEF SlotsMatchCrawlers
  <2>1. CASE x = s
    BY <2>1, <1>3, <1>6 DEF Entry
  <2>2. CASE x # s
    BY <2>2, <1>0, <1>3, <1>4 DEF SlotsMatchCrawlers
  <2> QED
    BY <2>1, <2>2
<1>8. AgeIsQuiet'
  BY <1>0, <1>3 DEF AgeIsQuiet, Begin, Entry, TypeOK
<1> QED
  BY <1>5, <1>7, <1>8 DEF IInv

\* A finished crawl keeps the invariant: its admission is still counted, so
\* the count it takes down is not 0.
LEMMA EndIInv ==
    ASSUME IInv, NEW t \in Threads, End(t)
    PROVE  IInv'
<1>0. TypeOK /\ SlotsMatchCrawlers /\ AgeIsQuiet
  BY DEF IInv
<1> DEFINE s == crawling[t]
           n == m_pool[s].crawl_thread_count
<1>1. s \in Sites /\ crawling' = [crawling EXCEPT ![t] = NoSite]
  BY <1>0 DEF End, TypeOK
<1>2. PICK c \in Sites : c = s
  BY <1>1
<1>3. /\ t \in Crawlers(c)
      /\ Crawlers(c)' = Crawlers(c) \ {t}
      /\ \A x \in Sites \ {c} : Crawlers(x)' = Crawlers(x)
  BY <1>0, <1>1, <1>2, CrawlersAfterEnd
<1>4. /\ Cardinality(Crawlers(c)) \in Nat \ {0}
      /\ Cardinality(Crawlers(c)') = Cardinality(Crawlers(c)) - 1
  BY <1>3, CrawlersFinite, FS_RemoveElement, FS_EmptySet
<1>5. s \in DOMAIN m_pool /\ Cardinality(Crawlers(c)) = n
  BY <1>0, <1>2, <1>4 DEF SlotsMatchCrawlers
<1>6. m_pool[s] \in SLevelInfo /\ Entry(n - 1, m_pool[s].age) \in SLevelInfo
  BY <1>0, <1>4, <1>5 DEF TypeOK, SLevelInfo, Entry
<1>7. /\ DOMAIN m_pool' = DOMAIN m_pool \cup {s}
      /\ m_pool' \in [DOMAIN m_pool' -> SLevelInfo]
      /\ m_pool'[s] = Entry(n - 1, m_pool[s].age)
      /\ \A x \in DOMAIN m_pool \ {s} : m_pool'[x] = m_pool[x]
  BY <1>0, <1>1, <1>5, <1>6, PoolAfterSet DEF End, finish_crawl
<1>8. TypeOK'
  BY <1>0, <1>1, <1>7 DEF End, TypeOK
<1>9. SlotsMatchCrawlers'
  <2> SUFFICES ASSUME NEW x \in Sites
               PROVE  Cardinality(Crawlers(x)') =
                        IF x \in DOMAIN m_pool'
                          THEN m_pool'[x].crawl_thread_count ELSE 0
    BY DEF SlotsMatchCrawlers
  <2>1. CASE x = s
    BY <2>1, <1>2, <1>4, <1>5, <1>7 DEF Entry
  <2>2. CASE x # s
    BY <2>2, <1>0, <1>2, <1>3, <1>7 DEF SlotsMatchCrawlers
  <2> QED
    BY <2>1, <2>2
<1>10. AgeIsQuiet'
  BY <1>0, <1>5, <1>7 DEF AgeIsQuiet, End, Entry
<1> QED
  BY <1>8, <1>9, <1>10 DEF IInv

\* The clock changes no count, and the two clocks advance together.
LEMMA TickIInv ==
    ASSUME IInv, Tick
    PROVE  IInv'
<1>0. TypeOK /\ SlotsMatchCrawlers /\ AgeIsQuiet
  BY DEF IInv
<1>1. \A k \in 0..Horizon : Older(k) \in 0..Horizon
  BY LevelPoolAssumption DEF Older
<1>2. /\ DOMAIN m_pool' = DOMAIN m_pool
      /\ \A s \in DOMAIN m_pool :
            m_pool'[s] = Entry(m_pool[s].crawl_thread_count, Older(m_pool[s].age))
  BY DEF Tick, Age
<1>3. m_pool' \in [DOMAIN m_pool' -> SLevelInfo]
  BY <1>0, <1>1 DEF Tick, Age, TypeOK, SLevelInfo, Entry
<1>4. TypeOK'
  BY <1>0, <1>1, <1>2, <1>3 DEF Tick, TypeOK
<1>5. \A s \in Sites : Crawlers(s)' = Crawlers(s)
  BY DEF Tick, Crawlers
<1>6. SlotsMatchCrawlers'
  BY <1>0, <1>2, <1>5 DEF SlotsMatchCrawlers, Entry
<1>7. AgeIsQuiet'
  <2>1. Older(Horizon) = Horizon
    BY LevelPoolAssumption DEF Older
  <2> QED
    BY <1>0, <1>2, <2>1 DEF AgeIsQuiet, Tick, Entry, TypeOK
<1> QED
  BY <1>4, <1>6, <1>7 DEF IInv

\* Every step keeps the invariant.
LEMMA NextIInv == IInv /\ [Next]_vars => IInv'
<1> SUFFICES ASSUME IInv, [Next]_vars PROVE IInv'
  OBVIOUS
<1>1. ASSUME NEW t \in Threads, NEW s \in Sites, Begin(t, s) PROVE IInv'
  BY <1>1, BeginIInv
<1>2. ASSUME NEW t \in Threads, NEW s \in Sites, Wait(t, s) PROVE IInv'
  BY <1>2 DEF Wait, Refuse, IInv, TypeOK, SlotsMatchCrawlers, AgeIsQuiet,
              Crawlers
<1>3. ASSUME NEW t \in Threads, End(t) PROVE IInv'
  BY <1>3, EndIInv
<1>4. CASE Tick
  BY <1>4, TickIInv
<1>5. CASE Reload
  BY <1>5 DEF Reload, ReloadLimit, ReloadInterval, IInv, TypeOK,
              SlotsMatchCrawlers, AgeIsQuiet, Crawlers
<1>6. CASE UNCHANGED vars
  BY <1>6 DEF vars, IInv, TypeOK, SlotsMatchCrawlers, AgeIsQuiet, Crawlers
<1> QED
  BY <1>1, <1>2, <1>3, <1>4, <1>5, <1>6 DEF Next

-----------------------------------------------------------------------------
\* The inductive invariant holds of every behaviour.
THEOREM LevelPoolInvariant == Spec => []IInv
BY InitIInv, NextIInv, PTL DEF Spec

\* The pool always has its type: in particular no finish_crawl ever takes a
\* crawl_thread_count below 0.
THEOREM LevelPoolType == Spec => []TypeOK
<1>1. IInv => TypeOK
  BY DEF IInv
<1> QED
  BY <1>1, LevelPoolInvariant, PTL

\* crawl_thread_count is the number of threads between is_crawl_enabled and
\* finish_crawl, for every site.
THEOREM LevelPoolAccounting == Spec => []SlotsMatchCrawlers
<1>1. IInv => SlotsMatchCrawlers
  BY DEF IInv
<1> QED
  BY <1>1, LevelPoolInvariant, PTL

\* Only an admission puts a thread on a site, and it is an admission of that
\* very site.
LEMMA StartsOnlyByBegin ==
    ASSUME TypeOK, [Next]_vars, NEW s \in Sites, Starts(s)
    PROVE  \E t \in Threads : Begin(t, s)
<1>1. PICK t \in Threads : crawling[t] # s /\ crawling'[t] = s
  BY DEF Starts
<1>2. ASSUME NEW u \in Threads, NEW x \in Sites, Begin(u, x)
      PROVE  u = t /\ x = s
  BY <1>1, <1>2 DEF Begin, TypeOK
<1>3. ASSUME NEW u \in Threads, End(u) PROVE FALSE
  BY <1>1, <1>3, LevelPoolAssumption DEF End, TypeOK
<1>4. crawling' # crawling
  BY <1>1
<1> QED
  BY <1>2, <1>3, <1>4 DEF Next, Wait, Tick, Reload, vars

\* At an admission of s the count was below the limit and the interval over.
LEMMA BeginWithinLimits ==
    ASSUME IInv, NEW t \in Threads, NEW s \in Sites, Begin(t, s)
    PROVE  Cardinality(Crawlers(s)') <= maxcc /\ quiet[s] >= interval
<1>0. TypeOK /\ SlotsMatchCrawlers /\ AgeIsQuiet
  BY DEF IInv
<1>1. maxcc \in Nat \ {0} /\ interval \in 1..Horizon /\ Horizon \in Nat
  BY <1>0, LevelPoolAssumption DEF TypeOK
<1>2. /\ t \notin Crawlers(s)
      /\ Crawlers(s)' = Crawlers(s) \cup {t}
  BY <1>0, CrawlersAfterBegin DEF Begin
<1>3. Cardinality(Crawlers(s)') = Cardinality(Crawlers(s)) + 1
  BY <1>2, CrawlersFinite, FS_AddElement
<1>4. Cardinality(Crawlers(s)) < maxcc
  BY <1>0, <1>1 DEF SlotsMatchCrawlers, Begin, Admit, Enabled
<1>5. quiet[s] >= interval
  BY <1>0, <1>1 DEF AgeIsQuiet, Begin, Admit, Enabled
<1> QED
  BY <1>1, <1>3, <1>4, <1>5, CrawlersFinite

\* No thread ever starts on a site that already has as many crawlers as the
\* limit in force.
THEOREM LevelPoolNeverOverLimit == Spec => NeverOverLimit
<1>1. IInv /\ [Next]_vars =>
        [\A s \in Sites : Starts(s) => Cardinality(Crawlers(s)') <= maxcc]_vars
  BY StartsOnlyByBegin, BeginWithinLimits DEF IInv
<1> QED
  BY <1>1, LevelPoolInvariant, PTL DEF Spec, NeverOverLimit

\* Two crawls of a site never start closer together than the interval.
THEOREM LevelPoolAdmissionsSpaced == Spec => AdmissionsSpaced
<1>1. IInv /\ [Next]_vars =>
        [\A s \in Sites : Starts(s) => quiet[s] >= interval]_vars
  BY StartsOnlyByBegin, BeginWithinLimits DEF IInv
<1> QED
  BY <1>1, LevelPoolInvariant, PTL DEF Spec, AdmissionsSpaced
=============================================================================
