------------------------------- MODULE MCTabs -------------------------------
(***************************************************************************)
(* Four places of one server for Tabs: the index links to both boards, the *)
(* first board to a thread of its own and back to the index.               *)
(***************************************************************************)
EXTENDS Tabs, TLC

CONSTANTS index, board1, board2, thread1

MCPlaces == {index, board1, board2, thread1}

MCLinksOf ==
    [p \in MCPlaces |->
        CASE p = index  -> <<board1, board2>>
          [] p = board1 -> <<thread1, index>>
          [] OTHER      -> <<>>]

MCHomeOf == [p \in MCPlaces |-> index]

Symmetry == Permutations(TabIds)

MCDestOf == [p \in MCPlaces |-> IF p = index THEN NoDest ELSE p]
=============================================================================
