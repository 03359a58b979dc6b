---------------------------- MODULE MCSelection ----------------------------
(* A small instance of Selection: the URLs of two seeds, which are also     *)
(* found in pages as an item and in an ordinary pool, and a category of     *)
(* another domain.                                                          *)
EXTENDS Selection

CONSTANTS a1, a2, b1

MCUrls == {a1, a2, b1}
MCDomainOf == [u \in MCUrls |-> IF u = b1 THEN 2 ELSE 1]
MCLinks == {<<a1, 2>>, <<a1, 3>>}
=============================================================================
