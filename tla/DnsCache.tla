------------------------------ MODULE DnsCache ------------------------------
(***************************************************************************)
(* What CDnsClient promises its callers, the crawl threads and the select  *)
(* thread: get_ip(site) returns the remembered answer if there is one, and *)
(* otherwise the answer of a resolution made during the call, which is     *)
(* remembered unless somebody else's was meanwhile.  A failed resolution   *)
(* (NO_IP) is an answer like any other and is remembered too.              *)
(* How a resolution is made is left open here; DnsClient fills it in.      *)
(***************************************************************************)
EXTENDS FiniteSets

CONSTANTS Callers, Sites, NoSite,
          Addrs,    \* addresses the resolver may answer with
          NO_IP

VARIABLES m_ip_list,    \* site -> answer, for the sites remembered
          asking,       \* the site whose resolution a caller waits for
          ip            \* what get_ip last returned to each caller

vars == <<m_ip_list, asking, ip>>

Answers == Addrs \cup {NO_IP}

Init == /\ m_ip_list = [s \in {} |-> NO_IP]
        /\ asking = [c \in Callers |-> NoSite]
        /\ ip = [c \in Callers |-> NO_IP]

\* put_ip: std::map::insert keeps an existing record.
put_ip(s, a) ==
    m_ip_list' = [x \in DOMAIN m_ip_list \cup {s} |->
                    IF x \in DOMAIN m_ip_list THEN m_ip_list[x] ELSE a]

\* get_ip finds s.
Hit(c, s) == /\ asking[c] = NoSite
             /\ s \in DOMAIN m_ip_list
             /\ ip' = [ip EXCEPT ![c] = m_ip_list[s]]
             /\ UNCHANGED <<m_ip_list, asking>>

\* get_ip does not find s and leaves the lock to resolve it.
Miss(c, s) == /\ asking[c] = NoSite
              /\ s \notin DOMAIN m_ip_list
              /\ asking' = [asking EXCEPT ![c] = s]
              /\ UNCHANGED <<m_ip_list, ip>>

\* The resolution ends with answer a; get_ip records and returns it.
Resolve(c, a) == /\ asking[c] # NoSite
                 /\ put_ip(asking[c], a)
                 /\ ip' = [ip EXCEPT ![c] = a]
                 /\ asking' = [asking EXCEPT ![c] = NoSite]

\* A caller is done with the answer (crawl_thread resets its local ip).
Forget(c) == /\ asking[c] = NoSite
             /\ ip' = [ip EXCEPT ![c] = NO_IP]
             /\ UNCHANGED <<m_ip_list, asking>>

clear_map == /\ m_ip_list' = [s \in {} |-> NO_IP]
             /\ UNCHANGED <<asking, ip>>

Next == \/ \E c \in Callers, s \in Sites : Hit(c, s) \/ Miss(c, s)
        \/ \E c \in Callers, a \in Answers : Resolve(c, a)
        \/ \E c \in Callers : Forget(c)
        \/ clear_map

Spec == Init /\ [][Next]_vars
=============================================================================
