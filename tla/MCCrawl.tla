------------------------------ MODULE MCCrawl ------------------------------
(* Small webs for Crawl.  On site a the category pages p and o and an item   *)
(* x, whose normal form r does not parse; on site b the item page q.         *)
EXTENDS Crawl, TLC

CONSTANTS a, b, o, p, q, r, x

WebSiteOf == [u \in Urls |-> IF u = q THEN b ELSE a]
WebKind == [u \in Urls |-> IF u \in {q, x} THEN "item" ELSE "cate"]
WebNormal == [u \in Urls |-> IF u = q THEN q ELSE IF u = x THEN r ELSE ""]
\* p links to itself and to the items.
WebLinksOf == [u \in Urls |-> IF u = p THEN {p, q, x} \cap Urls ELSE {}]

PageSeed == {<<p, "CPQ">>}
PagesSeed == {<<p, "CPQ">>, <<o, "COQ">>}
SitesSeed == {<<p, "CPQ">>, <<q, "COQ">>}

\* The crawl threads are alike.
ThreadSymmetry == Permutations(Threads)

\* The resolver always answers, or sometimes fails on site a.
Reliable == [s \in Sites |-> {s}]
Flaky == [s \in Sites |-> IF s = a THEN {s, NO_IP} ELSE {s}]
=============================================================================
