--------------------------- MODULE MCPublication ---------------------------
(* Small instances of Publication for TLC: publishers are numbers, and of the *)
(* starts that differ only in their names the one in order is explored.       *)
EXTENDS Publication

InOrder == \A p, q \in Publisher : p < q => ~ Newer(key[p], key[q])
MCInit == Init /\ InOrder
MCSpec == MCInit /\ [][Next]_vars /\ Fairness
=============================================================================
