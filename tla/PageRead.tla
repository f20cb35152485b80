------------------------------ MODULE PageRead ------------------------------
(***************************************************************************)
(* What a fetch promises: it returns a page as it stood, whole, at some    *)
(* instant between the call and its return, or it fails.  Pages are edited *)
(* at any time.                                                            *)
(***************************************************************************)
CONSTANTS Fetches,  \* calls of fetch()
          Pages, PageOf,
          Bodies,   \* contents of a page
          Missing   \* there is no such page

VARIABLES content,  \* each page as it stands
          seen,     \* what the page was since the call, at any instant
          outcome   \* what the call returned

vars == <<content, seen, outcome>>

Init ==
    /\ content \in [Pages -> Bodies \cup {Missing}]
    /\ seen = [f \in Fetches |-> {}]
    /\ outcome = [f \in Fetches |-> "pending"]

Start(f) ==
    /\ outcome[f] = "pending"
    /\ seen[f] = {}
    /\ seen' = [seen EXCEPT ![f] = {content[PageOf[f]]}]
    /\ UNCHANGED <<content, outcome>>

Edit(p) ==
    /\ \E b \in Bodies \cup {Missing} : content' = [content EXCEPT ![p] = b]
    /\ seen' = [f \in Fetches |->
                  IF PageOf[f] = p /\ seen[f] # {} /\ outcome[f] = "pending"
                  THEN seen[f] \cup {content'[p]} ELSE seen[f]]
    /\ UNCHANGED outcome

Return(f) ==
    /\ outcome[f] = "pending"
    /\ \E b \in seen[f] \ {Missing} : outcome' = [outcome EXCEPT ![f] = b]
    /\ UNCHANGED <<content, seen>>

Fail(f) ==
    /\ outcome[f] = "pending"
    /\ outcome' = [outcome EXCEPT ![f] = "failed"]
    /\ UNCHANGED <<content, seen>>

Next ==
    \/ \E f \in Fetches : Start(f) \/ Return(f) \/ Fail(f)
    \/ \E p \in Pages : Edit(p)

Spec == Init /\ [][Next]_vars
=============================================================================
