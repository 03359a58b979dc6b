----------------------------- MODULE Selection -----------------------------
(***************************************************************************)
(* The selection of URLs (spider.cpp: select_url, what insert_url gives    *)
(* back, and the emptying of the pools by load_input_urls), while crawl    *)
(* threads push the links they find into the pools.                        *)
(*                                                                         *)
(* select_url guards its passage through a pool by a copy of the pool's    *)
(* mutex, which keeps nobody out: what is pushed after the last element    *)
(* was copied and before the queue is cleared is thrown away, and a copy   *)
(* made while the mutex is held stays locked.  A push that falls into the  *)
(* middle of the passage is either seen or not, which the order of the two *)
(* steps covers.                                                           *)
(*                                                                         *)
(* Domains are numbered in the order of m_domain.  m_sites and the waiting *)
(* for room in the selected queue are in Crawl, the samsara's directories  *)
(* in Samsara, the stop list's and the seed file's reading in Domains.     *)
(***************************************************************************)
EXTENDS UrlPool, SequencesExt

CONSTANTS
    NumDomains,
    DomainOf,           \* the domain of a URL
    Links,              \* the jobs the crawl threads may find
    Seeds,              \* the URLs that may be put in the seed file
    Input,              \* the URLs that may be in the list of categories
    select_nums_per_time, priority_quota, cate_percent, item_percent,
    min_select_threshold,
    MinQuota,           \* 10 in the code: the least quota of a domain
    Slack,              \* 20: so far below its quotas a domain is filled up
    Reserve,            \* 5: so many left-overs are not used for that
    MinRounds,          \* 3: rounds that are never the last of a samsara
    MaxEdits            \* bound: how often update_conf finds something new

ASSUME SelectionAssumption ==
    /\ {NumDomains, select_nums_per_time, min_select_threshold, Slack, Reserve,
        MinRounds, MaxEdits} \subseteq Nat
    /\ priority_quota \in 0 .. 10
    /\ cate_percent \in Nat /\ item_percent \in Nat /\ cate_percent + item_percent > 0
    /\ MinQuota \in Nat \ {0}
    /\ DomainOf \in [Urls -> 1 .. NumDomains]
    /\ NoJob \notin Jobs
    /\ Links \subseteq Jobs /\ Seeds \subseteq Urls /\ Input \subseteq Urls
    /\ IsFiniteSet(Seeds) /\ IsFiniteSet(Input) /\ IsFiniteSet(Writers)

DomainNames == 1 .. NumDomains

VARIABLES
    class, shielded,    \* m_statis.m_domain: isSeed, isShield
    pc, at,             \* the select thread, and the pool or domain it is at
    copied,             \* how much of the queue of pool at it has gone through
    link_num,           \* p_link_num and o_link_num
    prio_count,
    select_map,         \* of each domain, its jobs
    m_select_buffer, m_select_back_p, m_select_back_o,
    select_num,         \* m_domain_item_select and m_domain_cate_select
    m_select_rounds,
    edits,
    carried             \* history: the size of the buffer before this round

domainVars == <<class, shielded, edits>>
roundVars == <<copied, link_num, prio_count, select_map, select_num, carried>>
listVars == <<m_select_buffer, m_select_back_p, m_select_back_o>>
vars == <<poolVars, domainVars, pc, at, roundVars, listVars, m_select_rounds>>

ZeroNums == [d \in DomainNames |-> [item |-> 0, cate |-> 0]]
EmptyMap == [d \in DomainNames |-> <<>>]

\* The order in which select_url goes through the pools, and that of
\* load_input_urls.
DrainOrder == <<3, 2, 0, 1>>
ClearOrder == <<3, 2, 1, 0>>

Init ==
    /\ PoolInit
    /\ class = [d \in DomainNames |-> "none"] /\ shielded = {} /\ edits = 0
    /\ pc = "load" /\ at = 1
    /\ copied = 0 /\ link_num = [p |-> 0, o |-> 0] /\ prio_count = 0
    /\ select_map = EmptyMap /\ select_num = ZeroNums /\ carried = 0
    /\ m_select_buffer = <<>> /\ m_select_back_p = <<>> /\ m_select_back_o = <<>>
    /\ m_select_rounds = 0

-----------------------------------------------------------------------------
(* The crawl threads *)

Push(w) == /\ \/ \E j \in Links : push_url(w, j[1], j[2])
              \/ push_back(w)
           /\ UNCHANGED <<domainVars, pc, at, roundVars, listVars, m_select_rounds>>

-----------------------------------------------------------------------------
(* The select thread: configuration and input *)

\* push_url of a list of URLs by the select thread itself.
Enter(S, t) ==
    LET new == S \ m_url_set[t]
    IN  /\ m_url_set' = [m_url_set EXCEPT ![t] = @ \cup S]
        /\ m_url_queue' = [m_url_queue EXCEPT ![t] = @ \o SetToSeq(new)]
        /\ UNCHANGED hand

DomainsOf(S) == {DomainOf[u] : u \in S}

\* load_input_urls: the list of categories, after the pools were emptied.
load_input_urls ==
    /\ pc = "load"
    /\ \E S \in SUBSET Input :
          /\ Enter(S, 1)
          /\ class' = [d \in DomainNames |-> IF d \in DomainsOf(S) THEN "ordinary" ELSE "none"]
    /\ shielded' = {}
    /\ pc' = "conf"
    /\ UNCHANGED <<edits, at, roundVars, listVars, m_select_rounds>>

\* A round begins with update_conf: the stop list L, if it is new, and the
\* seeds S, if there are any.
update_conf ==
    /\ pc = "conf"
    /\ m_select_rounds' = IF m_select_rounds > MinRounds THEN m_select_rounds
                                                        ELSE m_select_rounds + 1
    /\ \/ UNCHANGED <<poolVars, domainVars>>
       \/ /\ edits < MaxEdits
          /\ edits' = edits + 1
          /\ \E L \in SUBSET DomainNames, S \in SUBSET Seeds :
                /\ Enter(S, 3)
                /\ shielded' = L
                /\ class' = [d \in DomainNames |->
                               CASE d \in DomainsOf(S) -> "seed"
                                 [] d \in L \ DomainsOf(S) /\ class[d] = "none" -> "ordinary"
                                 [] OTHER -> class[d]]
    /\ pc' = "start"
    /\ UNCHANGED <<at, roundVars, listVars>>

-----------------------------------------------------------------------------
(* select_url *)

\* The sizes of the queues, read without a lock.
Start == /\ pc = "start"
         /\ link_num' = [p |-> Len(m_url_queue[3]) + Len(m_url_queue[2]),
                         o |-> Len(m_url_queue[1]) + Len(m_url_queue[0])]
         /\ prio_count' = 0
         /\ carried' = Len(m_select_buffer)
         /\ pc' = "copy" /\ at' = 1
         /\ UNCHANGED <<poolVars, domainVars, copied, select_map, select_num, listVars,
                        m_select_rounds>>

\* The mutex locked for a pool is a copy of its own, but ipq's for cpq.
LockedFor(t) == IF t = 3 THEN 2 ELSE t

\* The copy is made while a crawl thread holds the mutex: nobody unlocks it.
Hang == /\ pc = "copy"
        /\ \E w \in Writers : hand[w] # NoJob /\ hand[w][2] = LockedFor(DrainOrder[at])
        /\ pc' = "hung"
        /\ UNCHANGED <<poolVars, domainVars, at, roundVars, listVars, m_select_rounds>>

\* The jobs of domain d in the queue q of pool t.
JobsIn(q, t, d) ==
    LET own == At(q, {x \in DOMAIN q : DomainOf[q[x]] = d})
    IN  [i \in DOMAIN own |-> <<own[i], t>>]

\* The passage through the queue; a URL of an unknown domain is passed over.
Copy ==
    LET t == DrainOrder[at]
        q == m_url_queue[t]
    IN  /\ pc = "copy"
        /\ select_map' = [d \in DomainNames |->
                            IF class[d] = "none" THEN <<>>
                                                ELSE select_map[d] \o JobsIn(q, t, d)]
        /\ copied' = Len(q)
        /\ pc' = "clear"
        /\ UNCHANGED <<poolVars, domainVars, at, link_num, prio_count, select_num,
                       carried, listVars, m_select_rounds>>

ClearDrained ==
    /\ pc = "clear"
    /\ m_url_queue' = [m_url_queue EXCEPT ![DrainOrder[at]] = <<>>]
    /\ copied' = 0
    /\ IF at < 4 THEN pc' = "copy" /\ at' = at + 1 ELSE pc' = "quota" /\ at' = 1
    /\ UNCHANGED <<m_url_set, hand, domainVars, link_num, prio_count,
                   select_map, select_num, carried, listVars, m_select_rounds>>

\* domain_p, then domain_o.
OfClass(c) == Ascending({d \in DomainNames \ shielded : class[d] = c})
Served == OfClass("seed") \o OfClass("ordinary")

prio_num == (select_nums_per_time * priority_quota) \div 10
ord_num == select_nums_per_time - prio_num
             + (IF prio_count < prio_num THEN prio_num - prio_count ELSE 0)

\* Slip: a domain's share may be nothing.
AtLeast_Any(n) == n

AtLeast(n) == IF n < MinQuota THEN MinQuota ELSE n

\* The quotas of a domain with size URLs out of links, for num to be
\* selected: prio_num_c and prio_num_i, or ord_num_c and ord_num_i.  The
\* code multiplies in single precision.
Quotas(num, size, links) ==
    LET c == (cate_percent * num * size) \div ((cate_percent + item_percent) * links)
    IN  IF links = 0
        THEN [c |-> AtLeast(0), i |-> AtLeast(0)]
        ELSE [c |-> AtLeast(c), i |-> AtLeast((num * size) \div links - c + 1)]

QuotasOf(d) ==
    LET size == Len(select_map[d])
    IN  IF class[d] = "seed" THEN Quotas(prio_num, size, link_num.p)
                             ELSE Quotas(ord_num, size, link_num.o)

\* How many of the first m jobs of v are of type t.
CountOf(v, m, t) == Cardinality({x \in 1 .. m : v[x][2] = t})

\* The first loop takes jobs in their order until one of the quotas q is
\* used up; cate is the domain's type of a category, and all else an item.
FirstLoop(v, q, cate) ==
    Min({m \in 0 .. Len(v) : \/ m = Len(v)
                             \/ CountOf(v, m, cate) >= q.c
                             \/ m - CountOf(v, m, cate) >= q.i})

\* Slip: the second loop goes on with the type whose quota is used up.
Flag_Swapped(v, q, cate, m) ==
    IF CountOf(v, m, cate) < q.c THEN cate - 1 ELSE cate

\* The second loop takes only the type whose quota is left: an item's type is
\* one less than a category's.
Flag(v, q, cate, m) ==
    IF CountOf(v, m, cate) < q.c THEN cate ELSE cate - 1

SecondLoop(v, q, cate, m) ==
    LET flag == Flag(v, q, cate, m)
        room == IF flag = cate THEN q.c - CountOf(v, m, cate)
                               ELSE q.i - (m - CountOf(v, m, cate))
    IN  {x \in m + 1 .. Len(v) :
            v[x][2] = flag /\ CountOf(v, x, flag) - CountOf(v, m, flag) <= room}

\* Slip: the domain is filled up to its quotas once more.
FillUp_Again(total, want, back) ==
    IF total >= want - Slack THEN 0 ELSE Min({want, Max({Len(back) - Reserve, 0})})

\* How many of the left-overs a domain is given that got total.
FillUp(total, want, back) ==
    IF total >= want - Slack
    THEN 0
    ELSE Min({want - total, Max({Len(back) - Reserve, 0})})

\* Slip: the rest is begun one too early.
LeftOver_Early(v, T) == At(v, {x \in DOMAIN v : x >= Cardinality(T)})

\* What is not taken of v, in its order.
LeftOver(v, T) == At(v, DOMAIN v \ T)

\* Slip: the left-overs a domain is given are not counted.
SelectNum_Own(v, T, cate, fill) ==
    LET cates == Cardinality({x \in T : v[x][2] = cate})
    IN  [item |-> Cardinality(T) - cates, cate |-> cates]

\* The numbers noted for a domain: its own jobs, and the left-overs, of which
\* only those of type 0 count as items.
SelectNum(v, T, cate, fill) ==
    LET cates == Cardinality({x \in T : v[x][2] = cate})
                   + Cardinality({x \in DOMAIN fill : fill[x][2] # 0})
    IN  [item |-> Cardinality(T) + Len(fill) - cates, cate |-> cates]

\* One domain with jobs v and quotas q: its own jobs at the positions T go to
\* the buffer and the others to the left-overs of its class, of which n are
\* taken from the end, of whatever domain.
SelectDomain ==
    /\ pc = "quota" /\ at <= Len(Served)
    /\ \E d \in {Served[at]} : \E v \in {select_map[d]}, q \in {QuotasOf(d)} :
       LET seed == class[d] = "seed"
           cate == IF seed THEN 3 ELSE 1
           back == IF seed THEN m_select_back_p ELSE m_select_back_o
           want == IF seed THEN q.c + q.c ELSE q.c + q.i
       IN  \E m \in {FirstLoop(v, q, cate)} :
           \E T \in {1 .. m \cup SecondLoop(v, q, cate, m)} :
           \E left \in {back \o LeftOver(v, T)} :
           \E n \in {IF m = Len(v) THEN 0 ELSE FillUp(Cardinality(T), want, left)} :
              LET fill == Reverse(SubSeq(left, Len(left) - n + 1, Len(left)))
                  rest == SubSeq(left, 1, Len(left) - n)
              IN  /\ m_select_buffer' = m_select_buffer \o At(v, T) \o fill
                  /\ m_select_back_p' = IF seed THEN rest ELSE m_select_back_p
                  /\ m_select_back_o' = IF seed THEN m_select_back_o ELSE rest
                  /\ prio_count' = prio_count + (IF seed THEN Cardinality(T) ELSE 0)
                  /\ select_num' = [select_num EXCEPT ![d] = SelectNum(v, T, cate, fill)]
                  /\ select_map' = [select_map EXCEPT ![d] = <<>>]
    /\ at' = at + 1
    /\ UNCHANGED <<poolVars, domainVars, pc, copied, link_num, carried,
                   m_select_rounds>>

\* set_statis_to_file writes the numbers and sets them to 0.  Few URLs are
\* left: the samsara ends, with the lists as they are.
Judge ==
    /\ pc = "quota" /\ at > Len(Served)
    /\ select_num' = ZeroNums
    /\ select_map' = EmptyMap
    /\ at' = 1
    /\ IF /\ m_select_rounds > MinRounds
          /\ Len(m_select_buffer) + Len(m_select_back_o) + Len(m_select_back_p)
               < min_select_threshold
       THEN /\ pc' = "drop_queue"
            /\ m_select_rounds' = 0
       ELSE /\ pc' = "insert"
            /\ UNCHANGED m_select_rounds
    /\ carried' = 0 /\ link_num' = [p |-> 0, o |-> 0] /\ prio_count' = 0
    /\ UNCHANGED <<poolVars, domainVars, copied, listVars>>

\* The jobs of v whose types are in types, in the order of v.
OfTypes(v, types) == At(v, {x \in DOMAIN v : v[x][2] \in types})

\* Slip: a category left over from a priority domain is not given back.
GivenBack_NoCates == OfTypes(m_select_back_o, {0, 1}) \o OfTypes(m_select_back_p, {2})

\* The left-overs of a class are given back only to the pools of that class.
GivenBack == OfTypes(m_select_back_o, {0, 1}) \o OfTypes(m_select_back_p, {2, 3})

insert_url ==
    /\ pc = "insert"
    /\ add_to_que(GivenBack)
    /\ m_select_back_o' = <<>> /\ m_select_back_p' = <<>>
    /\ m_select_buffer' = <<>>
    /\ pc' = "conf"
    /\ UNCHANGED <<domainVars, at, roundVars, m_select_rounds>>

-----------------------------------------------------------------------------
(* load_input_urls at the end of a samsara: clear_urls of each pool *)

DropQueue == /\ pc = "drop_queue"
             /\ ClearQueue(ClearOrder[at])
             /\ pc' = "drop_set"
             /\ UNCHANGED <<domainVars, at, roundVars, listVars, m_select_rounds>>

DropSet ==
    LET t == ClearOrder[at]
    IN  /\ pc = "drop_set"
        /\ ClearSet(t)
        /\ IF at < 4 THEN pc' = "drop_queue" /\ at' = at + 1 ELSE pc' = "load" /\ at' = 1
        /\ UNCHANGED <<domainVars, roundVars, listVars, m_select_rounds>>

SelectStep == \/ load_input_urls \/ update_conf
              \/ Start \/ Hang \/ Copy \/ ClearDrained
              \/ SelectDomain \/ Judge \/ insert_url
              \/ DropQueue \/ DropSet

Next == SelectStep \/ \E w \in Writers : Push(w)

Spec == Init /\ [][Next]_vars

\* The select thread goes on, and so does a thread inside push_url.
FairSpec == /\ Spec
            /\ WF_vars(SelectStep)
            /\ \A w \in Writers : WF_vars(hand[w] # NoJob /\ Push(w))

-----------------------------------------------------------------------------
TypeOK ==
    /\ PoolTypeOK
    /\ class \in [DomainNames -> {"none", "seed", "ordinary"}]
    /\ shielded \subseteq DomainNames
    /\ pc \in {"load", "conf", "start", "copy", "clear", "quota", "insert",
               "drop_queue", "drop_set", "hung"}
    /\ at \in 1 .. IF pc = "quota" THEN Len(Served) + 1 ELSE 4
    /\ copied \in Nat /\ carried \in Nat /\ prio_count \in Nat
    /\ link_num \in [p : Nat, o : Nat]
    /\ select_map \in [DomainNames -> Seq(Jobs)]
    /\ m_select_buffer \in Seq(Jobs)
    /\ m_select_back_p \in Seq(Jobs) /\ m_select_back_o \in Seq(Jobs)
    /\ select_num \in [DomainNames -> [item : Nat, cate : Nat]]
    /\ m_select_rounds \in 0 .. MinRounds + 1 /\ edits \in 0 .. MaxEdits

\* What waits in pool t and was not copied yet.
Waiting(t) == IF pc = "clear" /\ t = DrainOrder[at]
              THEN SubSeq(m_url_queue[t], copied + 1, Len(m_url_queue[t]))
              ELSE m_url_queue[t]

Occurrences(s, x) == Cardinality({i \in DOMAIN s : s[i] = x})

Copies(j) == Occurrences(Waiting(j[2]), j[1])
               + Cardinality({w \in Writers : hand[w] = j})
               + Occurrences(select_map[DomainOf[j[1]]], j)
               + Occurrences(m_select_buffer \o m_select_back_p \o m_select_back_o, j)

UnderWay(j) == Copies(j) > 0

\* A class has the pools of its own types only.
OwnType(j) == j[2] \in IF class[DomainOf[j[1]]] = "seed" THEN {2, 3} ELSE {0, 1}

\* The jobs that can ever come in.
Entering == Links \cup (Seeds \X {3}) \cup (Input \X {1})

Known(j) == j[1] \in m_url_set[j[2]]

(* A URL is in one place of the selection only, whichever threads find it  *)
(* at the same time and however it is given back: a second copy comes up   *)
(* only of a URL that is under way but no longer known to its pool, ...    *)
UnderWayOnce ==
    [][\A j \in Entering : Copies(j)' > Copies(j) => Copies(j) = 0 \/ ~Known(j)]_vars

(* ... and a URL that is under way is forgotten only when the samsara ends *)
(* while a thread is about to queue it, or with it among the left-overs.   *)
KnownWhileUnderWay ==
    [][\A j \in Entering : (UnderWay(j) /\ ~Known(j))' =>
                               (UnderWay(j) /\ ~Known(j)) \/ pc = "drop_set"]_vars

Misfiled(j) == \/ j[2] \in {2, 3} /\ j \in ToSet(m_select_back_o)
               \/ j[2] \in {0, 1} /\ j \in ToSet(m_select_back_p)

(* A URL leaves the selection for the selected queue, or is lost in one of *)
(* these ways: pushed between the last look at a queue and its clearing,   *)
(* of an unknown or shielded domain when its pool is drained, left over by *)
(* a domain of the other class than its pool's, or at the end of a         *)
(* samsara.                                                                *)
NothingElseLost ==
    [][\A j \in Entering :
          UnderWay(j) /\ ~UnderWay(j)' =>
             \/ pc = "insert" /\ j \in ToSet(m_select_buffer)
             \/ pc = "clear" /\ j[1] \in ToSet(Waiting(j[2]))
             \/ pc = "copy" /\ class[DomainOf[j[1]]] = "none"
             \/ pc = "quota" /\ DomainOf[j[1]] \in shielded
             \/ pc = "insert" /\ Misfiled(j)
             \/ pc = "drop_queue"]_vars

\* The URLs noted for a domain, and those noted for all, numbered by domain.
NotedFor(d) == {d} \X (1 .. select_num[d].item + select_num[d].cate)
Noted == UNION {NotedFor(d) : d \in DomainNames}

(* The numbers reported for the domains add up to the URLs that the round  *)
(* put in the buffer, left-overs of other domains included.                *)
NumbersAddUp == pc = "quota" => Cardinality(Noted) = Len(m_select_buffer) - carried

(* A domain whose URLs are all of its own class gets its oldest categories *)
(* and its oldest items, each up to their quota, although the loops see    *)
(* them in the order of the pools and stop at the first quota used up.     *)
Oldest(v, t, n) == {x \in DOMAIN v : v[x][2] = t /\ CountOf(v, x, t) <= n}

OldestFirst ==
    [][SelectDomain =>
         LET d == Served[at]
             v == select_map[d]
             cate == IF class[d] = "seed" THEN 3 ELSE 1
             ref == At(v, Oldest(v, cate, QuotasOf(d).c)
                            \cup Oldest(v, cate - 1, QuotasOf(d).i))
         IN  ToSet(v) \subseteq {j \in Jobs : OwnType(j)} =>
                 IsPrefix(m_select_buffer \o ref, m_select_buffer')]_vars

(* No domain is given more than its two quotas, left-overs included; for a *)
(* priority domain the code doubles the quota of the categories instead of *)
(* adding the two.                                                         *)
WithinQuota ==
    [][SelectDomain =>
         LET d == Served[at]
             q == QuotasOf(d)
             most == IF class[d] = "seed" THEN Max({q.c + q.i, q.c + q.c}) ELSE q.c + q.i
         IN  Len(m_select_buffer') - Len(m_select_buffer) <= most]_vars

(* No URL waits for ever: every domain has quotas, so each URL is handed   *)
(* over, lost, or forgotten by the end of a samsara some day, however many *)
(* others its domain and the others have, unless the select thread hangs   *)
(* on its copy of a mutex.                                                 *)
NoneWaitsForEver ==
    \A j \in Entering : []<>(~UnderWay(j) \/ ~Known(j) \/ pc = "hung")
=============================================================================
