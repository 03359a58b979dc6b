----------------------------- MODULE DnsClient -----------------------------
(***************************************************************************)
(* CDnsClient (dns_client.cpp) step by step.  A caller that misses in the  *)
(* map makes up to Attempts queries, each under m_singleton_mutex and each *)
(* ended by a reply or by its timeout, sleeps after a failed one, and then *)
(* records the answer, or NO_IP, under m_ip_mutex.  m_ip_mutex is not      *)
(* held meanwhile: other callers look up, resolve and record the same      *)
(* site, and the select thread's insert_url clears the map.                *)
(* The critical sections of m_ip_mutex are single steps; m_singleton_mutex *)
(* is held over a query, so it is a variable.  A query has a socket, and   *)
(* so a port, of its own; a datagram may be lost, or come when the query   *)
(* has timed out.  All queries carry one id: only the port tells a late    *)
(* reply from the present one, and it is assumed that the system does not  *)
(* give out a port again while a datagram to it is under way.              *)
(***************************************************************************)
EXTENDS UdpDns, FiniteSets

CONSTANTS Callers,      \* the crawl threads and the select thread
          Selector,     \* the select thread, the one that clears the map
          Sites, NoSite, NO_IP,
          Name,         \* of a site
          Literal,      \* the address a site is given by, or NoAddress
          Zone,         \* of a site: the replies, [rcode, records]
          Ports, NoPort,
          NoCaller,
          Attempts      \* the rounds of query_real_dns's loop: 3

ASSUME DnsClientAssumption ==
    /\ Selector \in Callers
    /\ NoSite \notin Sites
    /\ Name \in [Sites -> Seq(0 .. 255)]
    /\ NoPort \notin Ports
    /\ NoCaller \notin Callers
    /\ Attempts \in Nat \ {0}

VARIABLES
    m_ip_list, asking, ip,  \* as in DnsCache
    pc,         \* where in get_ip a caller is
    failed,     \* the queries of this resolution that failed
    answer,     \* the local "ip" of query_real_dns
    singleton,  \* the holder of m_singleton_mutex
    port,       \* of the socket that is open
    net         \* datagrams under way: their port and the site asked for

cache == <<m_ip_list, asking, ip>>
local == <<pc, failed, answer, singleton, port, net>>
vars == <<cache, local>>

-----------------------------------------------------------------------------
(* The addresses of the sites, and how they are got *)

\* What a caller must get from a reply: the first address of the records.
Addresses(records) == {n \in DOMAIN records : /\ records[n].type = QT_A
                                              /\ records[n].class = QC_IN
                                              /\ Len(records[n].data) = 4}
FirstAddress(records) == IF Addresses(records) = {} THEN NoAddress
                         ELSE records[Min(Addresses(records))].data
AddressesOf(s) == ({Literal[s]} \cup {FirstAddress(r.records) : r \in Zone[s]}) \ {NoAddress}
Addrs == UNION {AddressesOf(s) : s \in Sites}

Cache == INSTANCE DnsCache

\* The site that the server understands.
Understood ==
    [s \in Sites |-> LET query == set_dns_query(Name[s])
                         same == {x \in Sites : Name[x] = NameAsked(query)}
                     IN  IF RecursionDesired(query) /\ same # {} THEN CHOOSE x \in same : TRUE
                                                              ELSE NoSite]

\* What a caller reads in the replies to a query for a site.
Read == [s \in Sites |-> {get_dns_response(Reply(set_dns_query(Name[s]), r.rcode, r.records)) :
                             r \in Zone[s]}]

\* Server and client agree on the messages: a query is answered for the site
\* it is about, if at all, and what is read in a reply is the first address
\* among its records.
MessagesAgree == \A s \in Sites : /\ Understood[s] \in {s, NoSite}
                                  /\ Read[s] \subseteq AddressesOf(s) \cup {NoAddress}

\* The string "NO_IP" is not an address.
ASSUME NoIpAssumption ==
    \A s \in Sites : NO_IP \notin {Literal[s]} \cup Read[s]

-----------------------------------------------------------------------------
Answers == Addrs \cup {NO_IP}

Init == /\ Cache!Init
        /\ pc = [c \in Callers |-> "out"]
        /\ failed = [c \in Callers |-> 0]
        /\ answer = [c \in Callers |-> NO_IP]
        /\ singleton = NoCaller
        /\ port = NoPort /\ net = {}

Goto(c, label) == pc' = [pc EXCEPT ![c] = label]

\* get_ip, lines 44-45 and 50-51: found.
Hit(c, s) == /\ pc[c] = "out"
             /\ Cache!Hit(c, s)
             /\ UNCHANGED local

\* get_ip, lines 44-47: not found, enter query_real_dns.
Miss(c, s) == /\ pc[c] = "out"
              /\ Cache!Miss(c, s)
              /\ Goto(c, "lock")
              /\ UNCHANGED <<failed, answer, singleton, port, net>>

\* Line 82.
Lock(c) == /\ pc[c] = "lock"
           /\ singleton = NoCaller
           /\ singleton' = c
           /\ Goto(c, "query")
           /\ UNCHANGED <<cache, failed, answer, port, net>>

\* Lines 84 and 85.
Success(c, a) == /\ answer' = [answer EXCEPT ![c] = a]
                 /\ singleton' = NoCaller
                 /\ Goto(c, "put")
                 /\ UNCHANGED failed

\* Slip: the mutex is not released on the failure path (line 87 missing).
Failure_KeepLock(c) == /\ failed' = [failed EXCEPT ![c] = @ + 1]
                       /\ Goto(c, "sleep")
                       /\ UNCHANGED <<answer, singleton>>

\* Line 87.
Failure(c) == /\ failed' = [failed EXCEPT ![c] = @ + 1]
              /\ singleton' = NoCaller
              /\ Goto(c, "sleep")
              /\ UNCHANGED answer

\* inet_addr: the site is an address, nobody is asked.
AsLiteral(c) == /\ pc[c] = "query"
                /\ Literal[asking[c]] # NoAddress
                /\ Success(c, Literal[asking[c]])
                /\ UNCHANGED <<cache, port, net>>

\* Slip: one socket for all queries.
udp_connect_Shared == {CHOOSE p \in Ports : TRUE}

\* udp_connect: a socket of this query's own, to which nothing is under way.
udp_connect == Ports \ {m[1] : m \in net}

\* send_recv_msgo up to its select; or there is no socket, or sendto fails.
Send(c) == /\ pc[c] = "query"
           /\ Literal[asking[c]] = NoAddress
           /\ \E p \in udp_connect :
                 /\ port' = p
                 /\ net' = net \cup {<<p, Understood[asking[c]]>>}
           /\ Goto(c, "wait")
           /\ UNCHANGED <<cache, failed, answer, singleton>>

NotSent(c) == /\ pc[c] = "query"
              /\ Literal[asking[c]] = NoAddress
              /\ Failure(c)
              /\ UNCHANGED <<cache, port, net>>

\* A datagram is there in time; it is read and the socket closed.
Receive(c) ==
    /\ pc[c] = "wait"
    /\ \E m \in net :
          /\ m[1] = port
          /\ net' = net \ {m}
          /\ \E a \in IF m[2] = NoSite THEN {NoAddress} ELSE Read[m[2]] :
                IF a = NoAddress THEN Failure(c) ELSE Success(c, a)
    /\ port' = NoPort
    /\ UNCHANGED cache

\* select's timeout.
TimedOut(c) == /\ pc[c] = "wait"
               /\ Failure(c)
               /\ port' = NoPort
               /\ UNCHANGED <<cache, net>>

\* A datagram is lost, or comes to a port that is closed.
Lose == /\ \E m \in net : net' = net \ {m}
        /\ UNCHANGED <<cache, pc, failed, answer, singleton, port>>

\* Slip: after the last failure the loop starts over.
Wake_Forever(c) ==
    /\ pc[c] = "sleep"
    /\ failed' = [failed EXCEPT ![c] = @ % Attempts]
    /\ answer' = [answer EXCEPT ![c] = NO_IP]
    /\ Goto(c, "lock")
    /\ UNCHANGED <<cache, singleton, port, net>>

Wake_OneFewer(c) ==
    /\ pc[c] = "sleep"
    /\ answer' = [answer EXCEPT ![c] = NO_IP]
    /\ Goto(c, IF failed[c] + 1 < Attempts THEN "lock" ELSE "put")
    /\ UNCHANGED <<cache, failed, singleton, port, net>>

\* Lines 88-89 and the loop's test.
Wake(c) == /\ pc[c] = "sleep"
           /\ answer' = [answer EXCEPT ![c] = NO_IP]
           /\ Goto(c, IF failed[c] < Attempts THEN "lock" ELSE "put")
           /\ UNCHANGED <<cache, failed, singleton, port, net>>

\* Slip: the answer is returned but not recorded (line 48 missing).
Put_Unrecorded(c) ==
    /\ pc[c] = "put"
    /\ ip' = [ip EXCEPT ![c] = answer[c]]
    /\ asking' = [asking EXCEPT ![c] = NoSite]
    /\ Goto(c, "out")
    /\ failed' = [failed EXCEPT ![c] = 0]
    /\ answer' = [answer EXCEPT ![c] = NO_IP]
    /\ UNCHANGED <<m_ip_list, singleton, port, net>>

\* Lines 48 and 54; the locals of query_real_dns are gone.
Put(c) == /\ pc[c] = "put"
          /\ Cache!Resolve(c, answer[c])
          /\ Goto(c, "out")
          /\ failed' = [failed EXCEPT ![c] = 0]
          /\ answer' = [answer EXCEPT ![c] = NO_IP]
          /\ UNCHANGED <<singleton, port, net>>

\* insert_url's clear_map, by the select thread between its own lookups.
clear_map == /\ pc[Selector] = "out"
             /\ m_ip_list # [s \in {} |-> NO_IP]
             /\ Cache!clear_map
             /\ UNCHANGED local

Step(c) == \/ AsLiteral(c) \/ Send(c) \/ NotSent(c)
           \/ Receive(c) \/ TimedOut(c)
           \/ Wake(c)
           \/ Put(c)

Next == \/ \E c \in Callers, s \in Sites : Hit(c, s) \/ Miss(c, s)
        \/ \E c \in Callers : Lock(c) \/ Step(c)
        \/ clear_map
        \/ Lose

Spec == Init /\ [][Next]_vars

\* A query ends (select's timeout), a sleep ends, a running thread runs, and
\* a free mutex that somebody waits for is taken by someone.  Nothing says
\* that every waiter gets it: pthread mutexes are not fair.
FairSpec == /\ Spec
            /\ \A c \in Callers : WF_vars(Step(c))
            /\ WF_vars(\E c \in Callers : Lock(c))

-----------------------------------------------------------------------------
TypeOK == /\ DOMAIN m_ip_list \subseteq Sites
          /\ m_ip_list \in [DOMAIN m_ip_list -> Answers]
          /\ asking \in [Callers -> Sites \cup {NoSite}]
          /\ ip \in [Callers -> Answers]
          /\ pc \in [Callers -> {"out", "lock", "query", "wait", "sleep", "put"}]
          /\ failed \in [Callers -> 0..Attempts]
          /\ answer \in [Callers -> Answers]
          /\ singleton \in Callers \cup {NoCaller}
          /\ port \in Ports \cup {NoPort}
          /\ net \subseteq Ports \X (Sites \cup {NoSite})

(* "singleton query" (line 69): at most one thread talks to the DNS server *)
(* at a time, and the mutex is held by nobody who is not querying: a       *)
(* holder that went to sleep would stop every other resolution.  A socket  *)
(* is open only while its query waits.                                     *)
SingletonQuery ==
    /\ \A c \in Callers : pc[c] \in {"query", "wait"} <=> singleton = c
    /\ port # NoPort <=> \E c \in Callers : pc[c] = "wait"

(* What is remembered for a site is an address of that site: the one it is *)
(* given by, or the first address among the records of a reply about it,   *)
(* although replies are lost, come late and all carry the same id, and     *)
(* whatever other records and response codes they hold.                    *)
AddressOfTheSite ==
    \A s \in DOMAIN m_ip_list : m_ip_list[s] \in AddressesOf(s) \cup {NO_IP}

(* A resolution gives up only after all its attempts failed, and a call is *)
(* inside query_real_dns exactly while it owes an answer for a site.       *)
GivesUpOnlyAfterAttempts ==
    \A c \in Callers :
        /\ pc[c] = "out" <=> asking[c] = NoSite
        /\ pc[c] = "put" /\ answer[c] = NO_IP => failed[c] = Attempts

(* CDnsClient does what DnsCache promises. *)
CacheSpec == Cache!Spec

(* Whenever callers wait in get_ip, one of them gets its answer.           *)
SomeoneAnswered ==
    (\E c \in Callers : asking[c] # NoSite) ~> (\E c \in Callers : pc[c] = "put")
=============================================================================
