------------------------------ MODULE UrlPool ------------------------------
(***************************************************************************)
(* The four pools of URLs waiting to be selected (CUrlPool, urlpool.cpp).  *)
(* A pool is named by the type select_url gives its URLs: 0 ioq, 1 coq,    *)
(* 2 ipq, 3 cpq.  m_url_set holds what ever came in, m_url_queue what      *)
(* waits; each has a mutex of its own, and what is done under one of them  *)
(* is one step.  A thread that is to do such a step for a queue may be     *)
(* inside its critical section at any time before.  URLs shorter than 4    *)
(* characters, which the pools ignore, are not among Urls.                 *)
(***************************************************************************)
EXTENDS Integers, Sequences, FiniteSets

CONSTANTS
    Urls,
    Writers,    \* the threads that push: the crawl threads
    NoJob

Types == 0 .. 3
Jobs == Urls \X Types       \* a URL and the pool it is pushed to

VARIABLES
    m_url_queue,    \* of each pool, a sequence of URLs
    m_url_set,      \* of each pool, a set of URLs
    hand            \* of each writer, the job push_url is putting in

poolVars == <<m_url_queue, m_url_set, hand>>

PoolInit == /\ m_url_queue = [t \in Types |-> <<>>]
            /\ m_url_set = [t \in Types |-> {}]
            /\ hand = [w \in Writers |-> NoJob]

\* Slip: the URL is looked up first and entered later, with the queue.
push_url_Late(w, u, t) ==
    /\ hand[w] = NoJob
    /\ u \notin m_url_set[t]
    /\ hand' = [hand EXCEPT ![w] = <<u, t>>]
    /\ UNCHANGED <<m_url_queue, m_url_set>>

\* push_url, under m_url_set_mutex: only the first to come goes on.
push_url(w, u, t) ==
    /\ hand[w] = NoJob
    /\ u \notin m_url_set[t]
    /\ m_url_set' = [m_url_set EXCEPT ![t] = @ \cup {u}]
    /\ hand' = [hand EXCEPT ![w] = <<u, t>>]
    /\ UNCHANGED m_url_queue

\* ... to m_url_queue, under m_url_mutex.
push_back(w) ==
    /\ hand[w] # NoJob
    /\ m_url_queue' = [m_url_queue EXCEPT ![hand[w][2]] = Append(@, hand[w][1])]
    /\ hand' = [hand EXCEPT ![w] = NoJob]
    /\ UNCHANGED m_url_set

\* clear_urls: the queue, then the set.
ClearQueue(t) == /\ m_url_queue' = [m_url_queue EXCEPT ![t] = <<>>]
                 /\ UNCHANGED <<m_url_set, hand>>

ClearSet(t) == /\ m_url_set' = [m_url_set EXCEPT ![t] = {}]
               /\ UNCHANGED <<m_url_queue, hand>>

\* The numbers in S from the least to the greatest.
Ascending(S) ==
    [k \in 1 .. Cardinality(S) |-> CHOOSE x \in S : Cardinality({y \in S : y <= x}) = k]

\* The elements of v at the positions in P, in the order of v.
At(v, P) == LET pos == Ascending(P) IN [k \in DOMAIN pos |-> v[pos[k]]]

\* add_to_que for each job of a sequence, in its order: the URLs of pool t.
UrlsFor(jobs, t) ==
    LET own == At(jobs, {x \in DOMAIN jobs : jobs[x][2] = t})
    IN  [i \in DOMAIN own |-> own[i][1]]

add_to_que(jobs) ==
    /\ m_url_queue' = [t \in Types |-> m_url_queue[t] \o UrlsFor(jobs, t)]
    /\ UNCHANGED <<m_url_set, hand>>

PoolTypeOK == /\ m_url_queue \in [Types -> Seq(Urls)]
              /\ m_url_set \in [Types -> SUBSET Urls]
              /\ hand \in [Writers -> Jobs \cup {NoJob}]
=============================================================================
