----------------------------- MODULE ClientLink -----------------------------
(***************************************************************************)
(* The client's radio link: the supervisor that watches it (_supervise),   *)
(* the heartbeat, the redial of a dead link and disconnect(), which        *)
(* cancels the supervisor at whatever await it is in.  The radio is the    *)
(* environment, as in ServerLifecycle; how long a wait lasts is left out.  *)
(*                                                                         *)
(* A link is "open" (its session works), "lost" (open, its session dead)   *)
(* or "closed".  self.mc is cur; a redial holds the new link in a local    *)
(* variable, fresh, until it is in place.  An open link that nothing       *)
(* refers to any more is leaked.                                           *)
(***************************************************************************)
EXTENDS Naturals

CONSTANTS
    CloseRaises,    \* MeshCore.disconnect may raise on a dead link
    MaxFaults       \* bound: times the radio changes

ASSUME LinkConstants == CloseRaises \in BOOLEAN

Radio == {"ok", "mute", "gone"}

VARIABLES
    user,       \* the caller: uses the client, is in disconnect(), has left
    sup,        \* where the supervisor stands
    cur,        \* self.mc
    heard,      \* the handlers are subscribed to it
    fresh,      \* the link a redial has in hand
    leaked,     \* an open link was dropped
    linkDown,   \* self._link_down
    beating,    \* the heartbeat task runs
    radio, faults

linkVars == <<user, sup, cur, heard, fresh, leaked, linkDown, beating, radio, faults>>
env == <<radio, faults>>

\* _ready: connected, subscribed, supervised.
LinkInit ==
    /\ user = "using" /\ sup = "watch" /\ cur = "open" /\ heard = TRUE
    /\ fresh = "none" /\ leaked = FALSE
    /\ linkDown = FALSE /\ beating = TRUE
    /\ radio = "ok" /\ faults = 0

Answers == cur = "open" /\ radio = "ok"

-----------------------------------------------------------------------------
(* _supervise and _redial *)

\* Variant: the heartbeat outlives the link.
WakesBeating ==
    /\ sup = "watch" /\ linkDown
    /\ sup' = "closing"
    /\ UNCHANGED <<user, cur, heard, fresh, leaked, linkDown, beating, env>>

\* The link is down: the heartbeat is cancelled and the redial begins.
Wakes ==
    /\ sup = "watch" /\ linkDown
    /\ sup' = "closing"
    /\ beating' = FALSE
    /\ UNCHANGED <<user, cur, heard, fresh, leaked, linkDown, env>>

\* What the teardown of the dead link raises is only logged.
ClosesOld ==
    /\ sup = "closing"
    /\ \/ cur' = "closed"
       \/ CloseRaises /\ ~Answers /\ cur' = cur
    /\ sup' = "dialing"
    /\ UNCHANGED <<user, heard, fresh, leaked, linkDown, beating, env>>

DialBegins ==
    /\ sup = "dialing" /\ fresh = "none"
    /\ fresh' = "opening"
    /\ UNCHANGED <<user, sup, cur, heard, leaked, linkDown, beating, env>>

DialSucceeds ==
    /\ sup = "dialing" /\ fresh = "opening"
    /\ radio = "ok"
    /\ fresh' = "open"
    /\ sup' = "query"
    /\ UNCHANGED <<user, cur, heard, leaked, linkDown, beating, env>>

\* Every attempt failed, and each closed what it had opened.
DialFails ==
    /\ sup = "dialing" /\ fresh = "opening"
    /\ radio # "ok"
    /\ fresh' = "none"
    /\ sup' = "backoff"
    /\ UNCHANGED <<user, cur, heard, leaked, linkDown, beating, env>>

\* Variant: the handlers stay with the old link.
TakesOverDeaf ==
    /\ sup = "query"
    /\ cur' = fresh /\ fresh' = "none"
    /\ heard' = FALSE
    /\ linkDown' = FALSE
    /\ leaked' = (leaked \/ cur \in {"open", "lost"})
    /\ sup' = "watch" /\ beating' = TRUE
    /\ UNCHANGED <<user, env>>

\* The query came back, whatever it says: the new link is in place, with an
\* event and handlers of its own, and the loop starts over.
TakesOver ==
    /\ sup = "query"
    /\ cur' = fresh /\ fresh' = "none"
    /\ heard' = TRUE
    /\ linkDown' = FALSE
    /\ leaked' = (leaked \/ cur \in {"open", "lost"})
    /\ sup' = "watch" /\ beating' = TRUE
    /\ UNCHANGED <<user, env>>

\* The query raises: the new link is a local variable that goes away.
QueryRaises ==
    /\ sup = "query"
    /\ fresh = "lost" \/ radio # "ok"
    /\ fresh' = "none"
    /\ leaked' = TRUE
    /\ sup' = "backoff"
    /\ UNCHANGED <<user, cur, heard, linkDown, beating, env>>

\* linkDown is still set, so the loop redials at once.
BackoffOver ==
    /\ sup = "backoff"
    /\ sup' = "watch" /\ beating' = TRUE
    /\ UNCHANGED <<user, cur, heard, fresh, leaked, linkDown, env>>

HeartbeatFails ==
    /\ beating
    /\ ~Answers
    /\ linkDown' = TRUE
    /\ beating' = FALSE
    /\ UNCHANGED <<user, sup, cur, heard, fresh, leaked, env>>

-----------------------------------------------------------------------------
(* disconnect *)

\* Variant: the supervisor is left running.
LeavesSupervised ==
    /\ user = "using"
    /\ user' = "leaving"
    /\ UNCHANGED <<sup, cur, heard, fresh, leaked, linkDown, beating, env>>

\* The supervisor is cancelled, and the heartbeat with it; a link it was
\* opening or querying stays as it is.
Leaves ==
    /\ user = "using"
    /\ user' = "leaving"
    /\ sup' = "off" /\ beating' = FALSE
    /\ fresh' = "none"
    /\ leaked' = (leaked \/ fresh # "none")
    /\ UNCHANGED <<cur, heard, linkDown, env>>

Left ==
    /\ user = "leaving"
    /\ user' = "left"
    /\ \/ cur' = "closed"
       \/ CloseRaises /\ ~Answers /\ cur' = cur
    /\ UNCHANGED <<sup, heard, fresh, leaked, linkDown, beating, env>>

-----------------------------------------------------------------------------
(* The radio and the library *)

Lost(link) == IF link = "open" THEN "lost" ELSE link

RadioChanges ==
    /\ faults < MaxFaults
    /\ faults' = faults + 1
    /\ \E r \in Radio \ {radio} :
         /\ radio' = r
         /\ cur' = IF r = "gone" THEN Lost(cur) ELSE cur
         /\ fresh' = IF r = "gone" THEN Lost(fresh) ELSE fresh
    /\ UNCHANGED <<user, sup, heard, leaked, linkDown, beating>>

ReconnectSucceeds ==
    /\ cur = "lost" /\ radio = "ok"
    /\ cur' = "open"
    /\ UNCHANGED <<user, sup, heard, fresh, leaked, linkDown, beating, env>>

ReconnectGivesUp ==
    /\ cur = "lost" /\ heard /\ ~linkDown
    /\ linkDown' = TRUE
    /\ UNCHANGED <<user, sup, cur, heard, fresh, leaked, beating, env>>

Supervisor ==
    \/ Wakes \/ ClosesOld \/ DialBegins \/ DialSucceeds \/ DialFails
    \/ TakesOver \/ QueryRaises \/ BackoffOver

LinkNext ==
    \/ Supervisor
    \/ HeartbeatFails
    \/ Leaves
    \/ Left
    \/ RadioChanges
    \/ ReconnectSucceeds
    \/ ReconnectGivesUp

LinkSpec == LinkInit /\ [][LinkNext]_linkVars

-----------------------------------------------------------------------------
(* Properties *)

\* Types; a heartbeat runs only while the supervisor watches, a redial has a
\* link in hand only while it dials and queries, and it does so only for a
\* link that was found down.
LinkTypeOK ==
    /\ user \in {"using", "leaving", "left"}
    /\ sup \in {"watch", "closing", "dialing", "query", "backoff", "off"}
    /\ cur \in {"open", "lost", "closed"}
    /\ fresh \in {"none", "opening", "open", "lost"}
    /\ heard \in BOOLEAN /\ leaked \in BOOLEAN /\ linkDown \in BOOLEAN
    /\ beating \in BOOLEAN
    /\ beating => sup = "watch"
    /\ fresh # "none" => sup \in {"dialing", "query"}
    /\ sup \in {"closing", "dialing", "query", "backoff"} => linkDown

\* README, "automatic reconnection on both ends": when the radio stays well the
\* client comes to hold a working link it listens to, and keeps it.
LinkRecovers ==
    (<>[](radio = "ok") /\ [](user = "using")) => <>[](cur = "open" /\ heard)

\* Once disconnect() was called no link is opened any more.
NothingOpensLater ==
    [][user # "using" =>
         /\ fresh' \in {"none", fresh}
         /\ cur = "closed" => cur' = "closed"]_linkVars
=============================================================================
