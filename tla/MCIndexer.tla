------------------------------ MODULE MCIndexer ------------------------------
(* Small instances of Indexer for TLC.                                          *)
EXTENDS Indexer, TLC

CONSTANTS h1, h2, a, b, pa, blank, x, y, main

(* pa is the id a with blanks around it; blank is nothing but blanks, which     *)
(* TrimSpace turns into the empty id.                                           *)
MCTrimSpace == [i \in Id |-> IF i = pa THEN a ELSE i]

(* Documents that share one keyword, and a list in which a keyword repeats.     *)
MCKeywordLists == {<<x>>, <<y, x>>}
MCKeywordListsRepeated == {<<y, x>>, <<x, x>>}

MCCsv == <<[id |-> a, keywords |-> <<y, x>>]>>

Symm == Permutations(Handler)
==============================================================================
