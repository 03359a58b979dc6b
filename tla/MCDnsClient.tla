---------------------------- MODULE MCDnsClient ----------------------------
(* Two sites, "a" and "bb.c", and one given by its address.  The server has  *)
(* for "a" two addresses and, behind an alias and a record of another class, *)
(* one of them; for "bb.c" an address, or an error.                          *)
EXTENDS DnsClient

CONSTANTS a, b, lit

SiteName == [s \in Sites |-> CASE s = a -> <<97>> [] s = b -> <<98, 98, Dot, 99>>
                               [] OTHER -> <<49, Dot, 49, Dot, 49, Dot, 49>>]
SiteLiteral == [s \in Sites |-> IF s = lit THEN <<1, 1, 1, 1>> ELSE NoAddress]

Alias(data) == [type |-> 5, class |-> QC_IN, data |-> data]
Address(data) == [type |-> QT_A, class |-> QC_IN, data |-> data]
Chaos(data) == [type |-> QT_A, class |-> 3, data |-> data]
Answer(records) == [rcode |-> 0, records |-> records]

SiteZone == [s \in Sites |->
    CASE s = a -> {Answer(<<Address(<<10, 0, 0, 1>>), Address(<<10, 0, 0, 2>>)>>),
                   Answer(<<Alias(<<1, 99, 192, 12>>), Chaos(<<9, 9, 9, 9>>),
                            Address(<<10, 0, 0, 1>>)>>)}
      [] s = b -> {Answer(<<Alias(<<1, 97, 0>>), Address(<<0, 1, 0, 4>>)>>),
                   Answer(<<Alias(<<1, 97, 0>>)>>),
                   [rcode |-> 2, records |-> <<>>]}
      [] OTHER -> {}]

ASSUME ZoneAssumption == MessagesAgree
=============================================================================
