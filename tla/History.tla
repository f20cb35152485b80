------------------------------ MODULE History -------------------------------
(***************************************************************************)
(* What the session of a client promises about going back: the pages that  *)
(* were left are on a stack, a visit adds the page that is left, and going *)
(* back shows the last of them.  A way back that could not be fetched is   *)
(* forgotten.                                                              *)
(***************************************************************************)
EXTENDS SequencesExt

CONSTANTS Places, NoPlace

VARIABLES page, past

Init == page = NoPlace /\ past = <<>>

Left == IF page = NoPlace THEN past ELSE Append(past, page)

Visit == \E p \in Places : page' = p /\ past' = Left

Back == past # <<>> /\ page' = Last(past) /\ past' = Front(past)

Forget == past # <<>> /\ past' = Front(past) /\ UNCHANGED page

Next == Visit \/ Back \/ Forget

Spec == Init /\ [][Next]_<<page, past>>
=============================================================================
