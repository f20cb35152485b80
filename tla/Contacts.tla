------------------------------ MODULE Contacts ------------------------------
(***************************************************************************)
(* The two tables of contacts: the server's, where it finds the way back   *)
(* to its clients, and the client's, where the Shell finds the servers     *)
(* there are.  Neither knows of the other, so one of the two is at rest    *)
(* while the other is worked on.                                           *)
(***************************************************************************)
EXTENDS ReplyPath, Directory

VARIABLE side       \* "server" or "client"

vars == <<pathVars, directoryVars, side>>

DirectoryAtRest == advertise = Each(FALSE)

Init ==
    /\ PathInit /\ DirectoryInit
    /\ \/ side = "server" /\ DirectoryAtRest
       \/ side = "client"

Replies == side = "server" /\ PathNext /\ UNCHANGED <<directoryVars, side>>
Discovery == side = "client" /\ DirectoryNext /\ UNCHANGED <<pathVars, side>>

Next == Replies \/ Discovery

Spec == Init /\ [][Next]_vars

Client(A) == side = "client" /\ A /\ UNCHANGED <<pathVars, side>>

\* The advert task of a node that runs is awake once in a while, the user of a
\* client lists the servers again and again, and an advert that is flooded
\* again and again is heard in the end.
FairSpec ==
    /\ Spec
    /\ \A n \in Nodes :
         /\ WF_vars(Client(FloodsAgain(n)))
         /\ SF_vars(Client(Hears(n)))
         /\ WF_vars(Client(Streams(n)))
    /\ WF_vars(Client(DiscoverBegins))
    /\ WF_vars(Client(DiscoverEnds))

-----------------------------------------------------------------------------
(* Properties *)

\* "Re-flood the advert occasionally so the server stays findable": a server
\* that comes to serve and advertise for good is listed by a client that scans
\* again and again, whatever adverts were lost and whatever failed before;
\* unless its name has no room for the marker, or the radio turned it down.
ServersAreFound ==
    \A n \in Nodes \ Wide :
      (side = "client" /\ <>[](advertise[n] /\ up[n] = "up" /\ radioName[n] = "marked"))
        => <>[](n \in found)
=============================================================================
