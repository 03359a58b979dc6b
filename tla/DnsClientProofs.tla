--------------------------- MODULE DnsClientProofs ---------------------------
(***************************************************************************)
(* CDnsClient for any number of callers, sites, ports and attempts.  The   *)
(* control of the callers (the mutex, the socket, the attempts) is one     *)
(* inductive invariant, Control.  That the answers are right needs besides *)
(* that a reply which can still be read is one to the present query        *)
(* (Pertinent): the port tells it from a late one.  How a message is       *)
(* written and read stays closed: MessagesAgree is a hypothesis, which TLC *)
(* evaluates on the messages themselves.                                   *)
(***************************************************************************)
EXTENDS DnsClient, TLAPS

\* What an answer may be: what is read in a reply, a literal, or NO_IP.
Heard == {NO_IP} \cup UNION {{Literal[s]} \cup Read[s] : s \in Sites}

Types == /\ asking \in [Callers -> Sites \cup {NoSite}]
         /\ pc \in [Callers -> {"out", "lock", "query", "wait", "sleep", "put"}]
         /\ failed \in [Callers -> Nat]
         /\ answer \in [Callers -> Heard]
         /\ singleton \in Callers \cup {NoCaller}
         /\ port \in Ports \cup {NoPort}
         /\ net \subseteq Ports \X (Sites \cup {NoSite})

\* The attempts that have failed: fewer than Attempts while there is another.
AttemptsLeft ==
    \A c \in Callers : /\ failed[c] <= Attempts
                       /\ pc[c] = "out" => failed[c] = 0
                       /\ pc[c] \in {"lock", "query", "wait"} => failed[c] < Attempts

Control == Types /\ SingletonQuery /\ GivesUpOnlyAfterAttempts /\ AttemptsLeft

LEMMA InitControl == Init => Control
<1> SUFFICES ASSUME Init PROVE Control
  OBVIOUS
<1>1. Types
  BY DEF Init, Cache!Init, Types, Heard
<1>2. SingletonQuery
  BY DnsClientAssumption DEF Init, SingletonQuery
<1>3. GivesUpOnlyAfterAttempts
  BY DEF Init, Cache!Init, GivesUpOnlyAfterAttempts
<1>4. AttemptsLeft
  BY DnsClientAssumption DEF Init, AttemptsLeft
<1> QED
  BY <1>1, <1>2, <1>3, <1>4 DEF Control

\* The server understands a query for one site or for none.
LEMMA UnderstoodSite == ASSUME NEW s \in Sites PROVE Understood[s] \in Sites \cup {NoSite}
<1> DEFINE query == set_dns_query(Name[s])
           same == {x \in Sites : Name[x] = NameAsked(query)}
<1>1. Understood[s] = IF RecursionDesired(query) /\ same # {}
                      THEN CHOOSE x \in same : TRUE ELSE NoSite
  BY DEF Understood
<1> QED
  BY <1>1

\* A caller that has a query to make has a site to ask for.
LEMMA Asks == ASSUME Control, NEW c \in Callers, pc[c] # "out" PROVE asking[c] \in Sites
BY DEF Control, Types, GivesUpOnlyAfterAttempts

\* A query that fails keeps the control.
LEMMA FailureControl ==
    ASSUME Control, NEW c \in Callers, pc[c] \in {"query", "wait"}, Failure(c),
           asking' = asking, port' = NoPort,
           net' \subseteq net
    PROVE  Control'
<1> USE DnsClientAssumption DEF Failure, Goto
<1>0. Types /\ SingletonQuery /\ GivesUpOnlyAfterAttempts /\ AttemptsLeft
  BY DEF Control
<1>1. Types'
  BY <1>0 DEF Types
<1>2. SingletonQuery'
  BY <1>0 DEF Types, SingletonQuery
<1>3. GivesUpOnlyAfterAttempts'
  BY <1>0 DEF Types, GivesUpOnlyAfterAttempts
<1>4. AttemptsLeft'
  BY <1>0 DEF Types, AttemptsLeft
<1> QED
  BY <1>1, <1>2, <1>3, <1>4 DEF Control

\* So does one that succeeds: the answer is not NO_IP.
LEMMA SuccessControl ==
    ASSUME Control, NEW c \in Callers, pc[c] \in {"query", "wait"},
           NEW s \in Sites, NEW a \in {Literal[s]} \cup Read[s], Success(c, a),
           asking' = asking, port' = NoPort, net' \subseteq net
    PROVE  Control'
<1> USE DnsClientAssumption DEF Success, Goto
<1>0. Types /\ SingletonQuery /\ GivesUpOnlyAfterAttempts /\ AttemptsLeft
  BY DEF Control
<1>a. a \in Heard /\ a # NO_IP
  BY NoIpAssumption DEF Heard
<1>1. Types'
  BY <1>0, <1>a DEF Types
<1>2. SingletonQuery'
  BY <1>0 DEF Types, SingletonQuery
<1>3. GivesUpOnlyAfterAttempts'
  BY <1>0, <1>a DEF Types, GivesUpOnlyAfterAttempts
<1>4. AttemptsLeft'
  BY <1>0 DEF Types, AttemptsLeft
<1> QED
  BY <1>1, <1>2, <1>3, <1>4 DEF Control

\* Every step of a call, and of the network, keeps the control.
LEMMA NextControl == Control /\ [Next]_vars => Control'
<1> SUFFICES ASSUME Control, [Next]_vars PROVE Control'
  OBVIOUS
<1> USE DnsClientAssumption
<1>0. Types /\ SingletonQuery /\ GivesUpOnlyAfterAttempts /\ AttemptsLeft
  BY DEF Control
<1>p. ASSUME NEW c \in Callers, pc[c] = "query" PROVE port = NoPort
  BY <1>0, <1>p DEF SingletonQuery, Types
<1>1. ASSUME NEW c \in Callers, NEW s \in Sites, Hit(c, s) PROVE Control'
  BY <1>0, <1>1 DEF Hit, Cache!Hit, local, Control, Types, SingletonQuery,
                    GivesUpOnlyAfterAttempts, AttemptsLeft
<1>2. ASSUME NEW c \in Callers, NEW s \in Sites, Miss(c, s) PROVE Control'
  <2> USE <1>2 DEF Miss, Cache!Miss, Goto
  <2>1. Types'
    BY <1>0 DEF Types
  <2>2. SingletonQuery'
    BY <1>0 DEF Types, SingletonQuery
  <2>3. GivesUpOnlyAfterAttempts'
    BY <1>0 DEF Types, GivesUpOnlyAfterAttempts
  <2>4. AttemptsLeft'
    BY <1>0 DEF Types, AttemptsLeft
  <2> QED
    BY <2>1, <2>2, <2>3, <2>4 DEF Control
<1>3. ASSUME NEW c \in Callers, Lock(c) PROVE Control'
  <2> USE <1>3 DEF Lock, cache, Goto
  <2>1. Types'
    BY <1>0 DEF Types
  <2>2. SingletonQuery'
    BY <1>0 DEF Types, SingletonQuery
  <2>3. GivesUpOnlyAfterAttempts'
    BY <1>0 DEF Types, GivesUpOnlyAfterAttempts
  <2>4. AttemptsLeft'
    BY <1>0 DEF Types, AttemptsLeft
  <2> QED
    BY <2>1, <2>2, <2>3, <2>4 DEF Control
<1>4. ASSUME NEW c \in Callers, AsLiteral(c) PROVE Control'
  BY <1>4, <1>p, Asks, SuccessControl DEF AsLiteral, cache
<1>5. ASSUME NEW c \in Callers, Send(c) PROVE Control'
  <2> USE <1>5 DEF Send, cache, Goto
  <2>1. PICK p \in udp_connect : port' = p /\ net' = net \cup {<<p, Understood[asking[c]]>>}
    OBVIOUS
  <2>2. p \in Ports /\ Understood[asking[c]] \in Sites \cup {NoSite}
    BY <2>1, Asks, UnderstoodSite DEF udp_connect
  <2>3. Types'
    BY <1>0, <2>1, <2>2 DEF Types
  <2>4. SingletonQuery'
    BY <1>0, <2>1, <2>2 DEF Types, SingletonQuery
  <2>5. GivesUpOnlyAfterAttempts'
    BY <1>0 DEF Types, GivesUpOnlyAfterAttempts
  <2>6. AttemptsLeft'
    BY <1>0 DEF Types, AttemptsLeft
  <2> QED
    BY <2>3, <2>4, <2>5, <2>6 DEF Control
<1>6. ASSUME NEW c \in Callers, NotSent(c) PROVE Control'
  BY <1>6, <1>p, FailureControl DEF NotSent, cache
<1>7. ASSUME NEW c \in Callers, Receive(c) PROVE Control'
  <2>0. PICK m \in net :
           /\ net' = net \ {m}
           /\ \E a \in IF m[2] = NoSite THEN {NoAddress} ELSE Read[m[2]] :
                 IF a = NoAddress THEN Failure(c) ELSE Success(c, a)
    BY <1>7 DEF Receive
  <2>1. PICK a \in IF m[2] = NoSite THEN {NoAddress} ELSE Read[m[2]] :
           IF a = NoAddress THEN Failure(c) ELSE Success(c, a)
    BY <2>0
  <2>2. pc[c] = "wait" /\ asking' = asking /\ port' = NoPort
    BY <1>7 DEF Receive, cache
  <2>3. CASE Failure(c)
    BY <2>0, <2>2, <2>3, FailureControl
  <2>4. CASE a # NoAddress
    BY <1>0, <2>0, <2>1, <2>2, <2>4, SuccessControl DEF Types
  <2> QED
    BY <2>1, <2>3, <2>4
<1>8. ASSUME NEW c \in Callers, TimedOut(c) PROVE Control'
  BY <1>8, FailureControl DEF TimedOut, cache
<1>9. ASSUME NEW c \in Callers, Wake(c) PROVE Control'
  <2> USE <1>9 DEF Wake, cache, Goto
  <2>1. Types'
    BY <1>0 DEF Types, Heard
  <2>2. SingletonQuery'
    BY <1>0 DEF Types, SingletonQuery
  <2>3. GivesUpOnlyAfterAttempts'
    BY <1>0 DEF Types, GivesUpOnlyAfterAttempts, AttemptsLeft
  <2>4. AttemptsLeft'
    BY <1>0 DEF Types, AttemptsLeft
  <2> QED
    BY <2>1, <2>2, <2>3, <2>4 DEF Control
<1>10. ASSUME NEW c \in Callers, Put(c) PROVE Control'
  <2> USE <1>10 DEF Put, Cache!Resolve, Goto
  <2>1. Types'
    BY <1>0 DEF Types, Heard
  <2>2. SingletonQuery'
    BY <1>0 DEF Types, SingletonQuery
  <2>3. GivesUpOnlyAfterAttempts'
    BY <1>0 DEF Types, GivesUpOnlyAfterAttempts
  <2>4. AttemptsLeft'
    BY <1>0 DEF Types, AttemptsLeft
  <2> QED
    BY <2>1, <2>2, <2>3, <2>4 DEF Control
<1>11. CASE clear_map
  BY <1>0, <1>11 DEF clear_map, Cache!clear_map, local, Control, Types, SingletonQuery,
                     GivesUpOnlyAfterAttempts, AttemptsLeft
<1>12. CASE Lose
  BY <1>0, <1>12 DEF Lose, cache, Control, Types, SingletonQuery,
                     GivesUpOnlyAfterAttempts, AttemptsLeft
<1>13. CASE UNCHANGED vars
  BY <1>0, <1>13 DEF vars, cache, local, Control, Types, SingletonQuery,
                     GivesUpOnlyAfterAttempts, AttemptsLeft
<1> QED
  BY <1>1, <1>2, <1>3, <1>4, <1>5, <1>6, <1>7, <1>8, <1>9, <1>10, <1>11, <1>12, <1>13
     DEF Next, Step

\* The control invariant holds of every behaviour.
LEMMA ControlInvariant == Spec => []Control
BY InitControl, NextControl, PTL DEF Spec

\* At most one thread talks to the DNS server at a time, the mutex is held
\* exactly while it does, and a socket is open only while its query waits.
THEOREM DnsSingletonQuery == Spec => []SingletonQuery
<1>1. Control => SingletonQuery
  BY DEF Control
<1> QED
  BY <1>1, ControlInvariant, PTL

\* query_real_dns returns NO_IP only after its loop has run out.
THEOREM DnsGivesUp == Spec => []GivesUpOnlyAfterAttempts
<1>1. Control => GivesUpOnlyAfterAttempts
  BY DEF Control
<1> QED
  BY <1>1, ControlInvariant, PTL

-----------------------------------------------------------------------------
(* The answers *)

\* What can still be read from the open socket is a reply to its query.
Pertinent ==
    \A c \in Callers : pc[c] = "wait" =>
        \A m \in net : m[1] = port => m[2] = Understood[asking[c]]

\* An answer that a caller is about to record is one for its site.
AnswerIsTheSites ==
    \A c \in Callers : answer[c] # NO_IP => /\ asking[c] \in Sites
                                            /\ answer[c] \in AddressesOf(asking[c])

Right == Pertinent /\ AnswerIsTheSites /\ AddressOfTheSite

LEMMA InitRight == Init => Right
<1> SUFFICES ASSUME Init PROVE Right
  OBVIOUS
<1>1. Pertinent /\ AnswerIsTheSites
  BY DEF Init, Pertinent, AnswerIsTheSites
<1>2. AddressOfTheSite
  BY DEF Init, Cache!Init, AddressOfTheSite
<1> QED
  BY <1>1, <1>2 DEF Right

\* A caller that succeeds with an address of its site, or fails, keeps Right:
\* no socket is open any more.
LEMMA EndOfQueryRight ==
    ASSUME Control, Right, NEW c \in Callers, pc[c] \in {"query", "wait"},
           \/ Failure(c)
           \/ \E a \in AddressesOf(asking[c]) : Success(c, a),
           UNCHANGED cache
    PROVE  Right'
<1>0. Types /\ SingletonQuery /\ Pertinent /\ AnswerIsTheSites /\ AddressOfTheSite
  BY DEF Control, Right
<1>1. \A d \in Callers : pc'[d] # "wait"
  BY <1>0, DnsClientAssumption DEF Types, SingletonQuery, Failure, Success, Goto
<1>2. Pertinent'
  BY <1>1 DEF Pertinent
<1>3. AnswerIsTheSites'
  BY <1>0, Asks DEF Types, AnswerIsTheSites, Failure, Success, cache
<1>4. AddressOfTheSite'
  BY <1>0 DEF AddressOfTheSite, cache
<1> QED
  BY <1>2, <1>3, <1>4 DEF Right

\* Every step keeps the answers right.
LEMMA NextRight ==
    ASSUME MessagesAgree, Control, Right, [Next]_vars
    PROVE  Right'
<1> USE DnsClientAssumption
<1>0. Types /\ SingletonQuery /\ Pertinent /\ AnswerIsTheSites /\ AddressOfTheSite
  BY DEF Control, Right
<1>1. ASSUME NEW c \in Callers, NEW s \in Sites, Hit(c, s) PROVE Right'
  BY <1>0, <1>1 DEF Hit, Cache!Hit, local, Right, Pertinent, AnswerIsTheSites, AddressOfTheSite
<1>2. ASSUME NEW c \in Callers, NEW s \in Sites, Miss(c, s) PROVE Right'
  <2> USE <1>2 DEF Miss, Cache!Miss, Goto
  <2>1. Pertinent'
    BY <1>0 DEF Types, Pertinent
  <2>2. AnswerIsTheSites'
    BY <1>0 DEF Types, AnswerIsTheSites
  <2>3. AddressOfTheSite'
    BY <1>0 DEF AddressOfTheSite
  <2> QED
    BY <2>1, <2>2, <2>3 DEF Right
<1>3. ASSUME NEW c \in Callers, Lock(c) PROVE Right'
  BY <1>0, <1>3 DEF Lock, cache, Goto, Types, Right, Pertinent, AnswerIsTheSites, AddressOfTheSite
<1>4. ASSUME NEW c \in Callers, AsLiteral(c) PROVE Right'
  <2>1. Literal[asking[c]] \in AddressesOf(asking[c])
    BY <1>4 DEF AsLiteral, AddressesOf
  <2> QED
    BY <1>4, <2>1, EndOfQueryRight DEF AsLiteral
<1>5. ASSUME NEW c \in Callers, Send(c) PROVE Right'
  <2> USE <1>5 DEF Send, cache, Goto
  <2>1. PICK p \in udp_connect : port' = p /\ net' = net \cup {<<p, Understood[asking[c]]>>}
    OBVIOUS
  <2>2. \A m \in net : m[1] # p
    BY <2>1 DEF udp_connect
  <2>3. \A d \in Callers : pc'[d] = "wait" => d = c
    BY <1>0 DEF Types, SingletonQuery
  <2>4. Pertinent'
    BY <2>1, <2>2, <2>3 DEF Pertinent
  <2>5. AnswerIsTheSites' /\ AddressOfTheSite'
    BY <1>0 DEF AnswerIsTheSites, AddressOfTheSite
  <2> QED
    BY <2>4, <2>5 DEF Right
<1>6. ASSUME NEW c \in Callers, NotSent(c) PROVE Right'
  BY <1>6, EndOfQueryRight DEF NotSent
<1>7. ASSUME NEW c \in Callers, Receive(c) PROVE Right'
  <2>0. PICK m \in net :
           /\ m[1] = port
           /\ \E a \in IF m[2] = NoSite THEN {NoAddress} ELSE Read[m[2]] :
                 IF a = NoAddress THEN Failure(c) ELSE Success(c, a)
    BY <1>7 DEF Receive
  <2>1. PICK a \in IF m[2] = NoSite THEN {NoAddress} ELSE Read[m[2]] :
           IF a = NoAddress THEN Failure(c) ELSE Success(c, a)
    BY <2>0
  <2>2. pc[c] = "wait" /\ UNCHANGED cache /\ asking[c] \in Sites
    BY <1>7, Asks DEF Receive
  <2>3. m[2] = NoSite \/ m[2] = asking[c]
    BY <1>0, <2>0, <2>2 DEF Pertinent, MessagesAgree
  <2>4. a # NoAddress => a \in AddressesOf(asking[c])
    BY <2>1, <2>2, <2>3 DEF MessagesAgree
  <2> QED
    BY <2>1, <2>2, <2>4, EndOfQueryRight
<1>8. ASSUME NEW c \in Callers, TimedOut(c) PROVE Right'
  BY <1>8, EndOfQueryRight DEF TimedOut, cache
<1>9. ASSUME NEW c \in Callers, Wake(c) PROVE Right'
  BY <1>0, <1>9 DEF Wake, cache, Goto, Types, Right, Pertinent, AnswerIsTheSites, AddressOfTheSite
<1>10. ASSUME NEW c \in Callers, Put(c) PROVE Right'
  <2> USE <1>10 DEF Put, Cache!Resolve, Goto
  <2>1. Pertinent'
    BY <1>0 DEF Types, Pertinent
  <2>2. AnswerIsTheSites'
    BY <1>0 DEF Types, AnswerIsTheSites
  <2>3. answer[c] \in AddressesOf(asking[c]) \cup {NO_IP}
    BY <1>0 DEF AnswerIsTheSites
  <2>4. AddressOfTheSite'
    BY <1>0, <2>3 DEF AddressOfTheSite, Cache!put_ip
  <2> QED
    BY <2>1, <2>2, <2>4 DEF Right
<1>11. CASE clear_map
  BY <1>0, <1>11 DEF clear_map, Cache!clear_map, local, Right, Pertinent, AnswerIsTheSites,
                     AddressOfTheSite
<1>12. CASE Lose
  BY <1>0, <1>12 DEF Lose, cache, Right, Pertinent, AnswerIsTheSites, AddressOfTheSite
<1>13. CASE UNCHANGED vars
  BY <1>0, <1>13 DEF vars, cache, local, Right, Pertinent, AnswerIsTheSites, AddressOfTheSite
<1> QED
  BY <1>1, <1>2, <1>3, <1>4, <1>5, <1>6, <1>7, <1>8, <1>9, <1>10, <1>11, <1>12, <1>13
     DEF Next, Step

\* The answers are right in every behaviour.
LEMMA RightInvariant == ASSUME MessagesAgree PROVE Spec => []Right
<1>1. Control /\ Right /\ [Next]_vars => Right'
  BY NextRight
<1> QED
  BY <1>1, InitRight, ControlInvariant, PTL DEF Spec

\* What put_ip remembers for a site is an address of that site, although
\* replies are lost and come late and all carry the same id, provided that
\* server and client agree on single messages.
THEOREM DnsAddressOfTheSite == ASSUME MessagesAgree PROVE Spec => []AddressOfTheSite
<1>1. Right => AddressOfTheSite
  BY DEF Right
<1> QED
  BY <1>1, RightInvariant, PTL

-----------------------------------------------------------------------------
(* The promise *)

\* A step of CDnsClient is a step of DnsCache, or changes nothing of what
\* the callers see.
LEMMA NextCache ==
    ASSUME Control, Right, [Next]_vars
    PROVE  [Cache!Next]_(Cache!vars)
<1> USE DEF Cache!vars, Cache!Next
<1>1. ASSUME NEW c \in Callers, NEW s \in Sites, Hit(c, s) \/ Miss(c, s) PROVE Cache!Next
  BY <1>1 DEF Hit, Miss
<1>2. ASSUME NEW c \in Callers, Put(c) PROVE Cache!Next
  <2>1. answer[c] \in Cache!Answers
    BY DEF Right, AnswerIsTheSites, Cache!Answers, Addrs
  <2> QED
    BY <1>2, <2>1 DEF Put
<1>3. CASE clear_map
  BY <1>3 DEF clear_map
<1>4. ASSUME NEW c \in Callers, Lock(c) \/ (Step(c) /\ ~Put(c)) PROVE UNCHANGED Cache!vars
  BY <1>4 DEF Lock, Step, AsLiteral, Send, NotSent, Receive, TimedOut, Wake, cache
<1>5. CASE Lose \/ UNCHANGED vars
  BY <1>5 DEF Lose, vars, cache
<1> QED
  BY <1>1, <1>2, <1>3, <1>4, <1>5 DEF Next, Step

\* CDnsClient implements DnsCache: what get_ip returns is what was remembered
\* or the answer of a resolution made during the call, and a record once made
\* stays until the map is cleared.
THEOREM DnsCacheImplemented == ASSUME MessagesAgree PROVE Spec => CacheSpec
<1>1. Init => Cache!Init
  BY DEF Init
<1>2. Control /\ Right /\ [Next]_vars => [Cache!Next]_(Cache!vars)
  BY NextCache
<1> QED
  BY <1>1, <1>2, ControlInvariant, RightInvariant, PTL DEF Spec, CacheSpec, Cache!Spec
==============================================================================
