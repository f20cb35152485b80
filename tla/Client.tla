------------------------------- MODULE Client -------------------------------
(***************************************************************************)
(* A client beside its pages: what it remembers in its file, and the link  *)
(* to its radio.  No command that changes the configuration looks at the   *)
(* link and the supervisor reads no configuration (the key and the port    *)
(* it was started with are its own), so one of the two moves and the other *)
(* is at rest.                                                             *)
(***************************************************************************)
EXTENDS ClientState, ClientLink

VARIABLE half       \* "state" or "link"

vars == <<stateVars, linkVars, half>>

Init == StateInit /\ LinkInit /\ half \in {"state", "link"}

State == half = "state" /\ StateNext /\ UNCHANGED <<linkVars, half>>
InLink(A) == half = "link" /\ A /\ UNCHANGED <<stateVars, half>>

Next == State \/ InLink(LinkNext)

Spec == Init /\ [][Next]_vars

\* The event loop runs the supervisor and the heartbeat; the library is not
\* trusted to notice a lost link, nor the caller to leave.
FairSpec ==
    Spec /\ WF_vars(InLink(Supervisor)) /\ WF_vars(InLink(HeartbeatFails))
=============================================================================
