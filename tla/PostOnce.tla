------------------------------ MODULE PostOnce ------------------------------
(***************************************************************************)
(* What a board post promises: it reaches the board at most once, and a    *)
(* call that reports a confirmed success has put it there.  A call that    *)
(* reports a failure, or a success it could not confirm, may have put it   *)
(* there too, before or afterwards.                                        *)
(***************************************************************************)
CONSTANTS Posters,  \* calls of post()
          Copies    \* the rows of the board a post can become

VARIABLES board,    \* the rows each post became
          outcome   \* what each call reported

vars == <<board, outcome>>

Init ==
    /\ board = [p \in Posters |-> {}]
    /\ outcome = [p \in Posters |-> "pending"]

Store(p) ==
    /\ board[p] = {}
    /\ \E c \in Copies : board' = [board EXCEPT ![p] = {c}]
    /\ UNCHANGED outcome

Confirm(p) ==
    /\ outcome[p] = "pending"
    /\ board[p] # {}
    /\ outcome' = [outcome EXCEPT ![p] = "confirmed"]
    /\ UNCHANGED board

Doubt(p) ==
    /\ outcome[p] = "pending"
    /\ \E o \in {"unconfirmed", "failed"} : outcome' = [outcome EXCEPT ![p] = o]
    /\ UNCHANGED board

Next == \E p \in Posters : Store(p) \/ Confirm(p) \/ Doubt(p)

Spec == Init /\ [][Next]_vars
=============================================================================
