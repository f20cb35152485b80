---------------------------- MODULE MCTransfers -----------------------------
(* Instances of Transfers for TLC. *)
EXTENDS Transfers

MCSizes == [b \in Bodies |-> IF b = "short" THEN 2 ELSE 3]
Symmetry == Permutations(Clients) \cup Permutations(Ids)
=============================================================================
