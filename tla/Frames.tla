------------------------------- MODULE Frames --------------------------------
(***************************************************************************)
(* What goes over the air: the frames of a post one way, or those of a     *)
(* reply the other.  Neither knows of the other, so one of the two is at   *)
(* rest while the frames of the other are made and read.                   *)
(***************************************************************************)
EXTENDS PostFrames, ReplyFrames

VARIABLE way        \* "up" for a post, "down" for a reply

vars == <<postVars, replyVars, way>>

\* A post of no bytes that is not begun, a refusal that is not sent.
PostAtRest == data = <<>> /\ Len(dest) = 1 /\ ~upload
ReplyAtRest == Refusal /\ status = 1

Init ==
    /\ PostInit /\ ReplyInit
    /\ \/ way = "up" /\ ReplyAtRest
       \/ way = "down" /\ PostAtRest

Up == way = "up" /\ PostNext /\ UNCHANGED <<replyVars, way>>
Down == way = "down" /\ ReplyNext /\ UNCHANGED <<postVars, way>>

Next == Up \/ Down

Spec == Init /\ [][Next]_vars

-----------------------------------------------------------------------------
(* Properties *)

\* Every slice of a post and every chunk of a reply fits the radio, whatever
\* optional fields it carries, and the client reads what the server wrote and
\* can open it, whatever dictionaries they have: a frame too large by one byte
\* would fail a post half way through.
FramesHold == EverySliceEncodes /\ EveryChunkEncodes /\ ReadAsWritten /\ RepliesOpen

\* The pieces, put together at the other end, are what was posted or sent, and
\* are known there for what they are.
ArrivesWhole == PostArrivesWhole /\ ContentArrivesWhole
=============================================================================
