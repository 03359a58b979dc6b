------------------------------- MODULE UdpDns -------------------------------
(***************************************************************************)
(* CUdpDns (udpdns.cpp): the messages of a DNS query, byte by byte, as     *)
(* set_dns_query writes and get_dns_response reads them, and the server's  *)
(* side of both.  A message is a sequence of bytes, offsets count from 0   *)
(* as in the code.  The buffer is cleared before the query is written and  *)
(* a reply is no shorter than its query, so behind a reply there is 0.     *)
(***************************************************************************)
EXTENDS Integers, Sequences, FiniteSetsExt

Dot == 46
QT_A == 1
QC_IN == 1
m_query_id == 9087      \* 0x237F, of every query
NoAddress == <<>>

Byte(m, i) == IF i < Len(m) THEN m[i + 1] ELSE 0
Word(m, i) == 256 * Byte(m, i) + Byte(m, i + 1)
Bytes(w) == <<w \div 256, w % 256>>

-----------------------------------------------------------------------------
(* The query *)

\* The flags as GCC lays the bit fields out, from the lowest bit: AA is bit 5
\* and RA bit 8.  On the wire bit 8 is RD.
Flags == 2 ^ 5 + 2 ^ 8

Header == Bytes(m_query_id) \o Bytes(Flags) \o Bytes(1) \o Bytes(0) \o Bytes(0) \o Bytes(0)

\* The characters of the label that begins at place i of a domain.
LabelLen(domain, i) ==
    Min({j \in i .. Len(domain) : domain[j] = Dot} \cup {Len(domain) + 1}) - i

\* "www.fanfan.com" as 3www6fanfan3com0: each label's length comes before it,
\* in the place of the dot.
Question(domain) ==
    LET last == IF domain = <<>> \/ domain[Len(domain)] = Dot THEN Len(domain)
                                                              ELSE Len(domain) + 1
    IN  [i \in 1 .. last |-> IF i = 1 \/ domain[i - 1] = Dot THEN LabelLen(domain, i)
                                                             ELSE domain[i - 1]] \o <<0>>

set_dns_query(domain) == Header \o Question(domain) \o Bytes(QT_A) \o Bytes(QC_IN)

-----------------------------------------------------------------------------
(* The server *)

\* The name a query asks for.
NameAsked(query) ==
    LET name[i \in 12 .. Len(query)] ==
            IF Byte(query, i) = 0 THEN <<>>
            ELSE LET next == i + Byte(query, i) + 1
                 IN  SubSeq(query, i + 2, next)
                        \o (IF Byte(query, next) = 0 THEN <<>> ELSE <<Dot>> \o name[next])
    IN  name[12]

RecursionDesired(query) == Byte(query, 2) % 2 = 1

QuestionEnd(m) == Min({i \in 12 .. Len(m) : Byte(m, i) = 0}) + 1 + 4

\* A reply: the question again, and records whose names point to it.
Record(r) == <<192, 12>> \o Bytes(r.type) \o Bytes(r.class) \o <<0, 0, 1, 44>>
             \o Bytes(Len(r.data)) \o r.data

Reply(query, rcode, records) ==
    LET body[n \in 0 .. Len(records)] ==
            IF n = 0 THEN SubSeq(query, 13, QuestionEnd(query)) ELSE body[n - 1] \o Record(records[n])
    IN  SubSeq(query, 1, 2) \o <<129, 128 + rcode>> \o Bytes(1) \o Bytes(Len(records))
        \o Bytes(0) \o Bytes(0) \o body[Len(records)]

-----------------------------------------------------------------------------
(* The response *)

\* The number of answers, 0 for a message that is refused.  What the code
\* takes for the response code is the upper byte of QDCOUNT.
get_dns_resonse_head(m) ==
    IF Word(m, 0) = m_query_id /\ Byte(m, 2) >= 128 /\ Byte(m, 4) % 16 = 0
    THEN Word(m, 6) ELSE 0

IsAddress(m, p) == Word(m, p + 2) = QT_A /\ Word(m, p + 4) = QC_IN /\ Word(m, p + 10) = 4

\* The address of the first record that has one.
get_dns_response(m) ==
    LET count == get_dns_resonse_head(m)
        at[n \in 0 .. count] == IF n = 0 THEN QuestionEnd(m)
                                ELSE at[n - 1] + 12 + Word(m, at[n - 1] + 10)
        Found == {n \in 0 .. count - 1 : IsAddress(m, at[n])}
    IN  IF Found = {} THEN NoAddress
        ELSE [i \in 1 .. 4 |-> Byte(m, at[Min(Found)] + 11 + i)]
=============================================================================
