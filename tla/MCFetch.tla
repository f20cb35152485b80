------------------------------ MODULE MCFetch -------------------------------
(* Instances of Fetch for TLC: a page of one to three chunks. *)
EXTENDS Fetch

MCSizes == [b \in Bodies |-> CASE b = "one" -> 1 [] b = "three" -> 3 [] OTHER -> 2]
MCPageOf == [f \in Ids |-> CHOOSE p \in Pages : TRUE]

CONSTANTS c1, c2, f1, f2, f3

\* The first two calls are of one client.
MCClientOf == (f1 :> c1) @@ (f2 :> c1) @@ (f3 :> c2)
=============================================================================
