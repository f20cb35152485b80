-------------------------- MODULE ServerLifecycle ---------------------------
(***************************************************************************)
(* VagrantNetServer.run_forever: the search for the radio's port, the      *)
(* connect cycle, the tasks that run while the link is up, the teardown    *)
(* when one of them ends, the backoff and the shutdown.  The radio is the  *)
(* environment: it answers, is mute (the link is open and nothing comes    *)
(* back) or is gone, and is plugged in again under the same name or        *)
(* another.  How long a wait lasts is left out; every wait is a step that  *)
(* may come late.                                                          *)
(***************************************************************************)
EXTENDS Naturals, FiniteSets

CONSTANTS
    Ports,          \* serial ports, or the one address of another kind of link
    Targets,        \* what connection.target may be: some of them, or "auto"
    MaxAttempts,    \* CONNECT_MAX_ATTEMPTS
    Hidden,         \* ~advertise_as_server, or advert_interval_hours <= 0
    CloseRaises,    \* MeshCore.disconnect may raise on a dead link
    MaxLeaks,       \* bound: links left open by a close that raised unheeded
    MaxFaults       \* bound: times the radio changes

ASSUME LifecycleConstants ==
    /\ Targets \subseteq Ports \cup {"auto"}
    /\ MaxAttempts \in Nat \ {0} /\ Hidden \in BOOLEAN /\ CloseRaises \in BOOLEAN
    /\ MaxLeaks \in Nat /\ MaxFaults \in Nat

Radio == {"ok", "mute", "gone"}

VARIABLES
    pc,         \* where run_forever stands
    next,       \* where it goes once disconnect() is through
    target,     \* conn.target, which autodetection overwrites
    todo,       \* the ports it has yet to ask
    attempt,    \* of the connect loop
    mc,         \* self.mc: no link, or one that is open
    alive,      \* its session works, or would if the radio answered
    open,       \* MeshCore objects whose transport is open, a probe's included
    leaked,     \* those of them whose close raised and was given up
    linkDown,   \* self._link_down, that of the current link
    stop,       \* the stop event the signal handlers set
    beating,    \* the heartbeat task runs
    radio, at,  \* how the radio is, and the port it is on
    faults

port == <<target, todo>>
links == <<open, leaked>>
env == <<radio, at, faults>>
serverVars == <<pc, next, target, todo, attempt, mc, alive, links, linkDown,
                stop, beating>>
vars == <<serverVars, env>>

Init ==
    /\ pc = "top" /\ next = "connect" /\ attempt = 1
    /\ target \in Targets /\ todo = {}
    /\ mc = FALSE /\ alive = FALSE /\ open = 0 /\ leaked = 0
    /\ linkDown = FALSE /\ stop = FALSE /\ beating = FALSE
    /\ radio \in {"ok", "gone"} /\ at \in Ports /\ faults = 0

-----------------------------------------------------------------------------
(* run_forever *)

\* A query on the link comes back.
Answers == alive /\ radio = "ok"

\* The radio is where the server looks for it.
Found == radio = "ok" /\ at = target

\* _close_quietly, of n links that were open before: what the close raises is
\* only logged, and the link may stay open.
ClosesQuietly(n) ==
    \E left \in {0} \cup (IF CloseRaises /\ leaked < MaxLeaks THEN {1} ELSE {}) :
      open' = open - n + left /\ leaked' = leaked + left

\* Variant: the loop is entered again without a look at the stop event.
ConnectsAgain ==
    /\ pc = "top"
    /\ pc' = "connect"
    /\ attempt' = 1
    /\ UNCHANGED <<next, port, mc, alive, links, linkDown, stop, beating, env>>

\* while not stop.is_set()
LoopTop ==
    /\ pc = "top"
    /\ IF stop THEN pc' = "close" /\ next' = "ended"
       ELSE pc' = (IF target = "auto" THEN "list" ELSE "connect") /\ next' = next
    /\ attempt' = 1
    /\ UNCHANGED <<port, mc, alive, links, linkDown, stop, beating, env>>

\* The ports with something on USB, once; the radio's own if it is there.
ListsPorts ==
    /\ pc = "list"
    /\ \E S \in SUBSET Ports :
         /\ radio # "gone" => at \in S
         /\ todo' = S
    /\ pc' = "probe"
    /\ UNCHANGED <<next, target, attempt, mc, alive, links, linkDown, stop, beating,
                   env>>

\* A port nothing answers on: it is closed again, or never opened.
ProbeSkips ==
    /\ pc = "probe"
    /\ \E p \in todo :
         /\ radio # "ok" \/ p # at
         /\ todo' = todo \ {p}
    /\ ClosesQuietly(0)
    /\ UNCHANGED <<pc, next, target, attempt, mc, alive, linkDown, stop, beating, env>>

\* The session on the port is up, and the radio is asked who it is.
ProbeOpens ==
    /\ pc = "probe"
    /\ radio = "ok" /\ at \in todo
    /\ todo' = todo \ {at}
    /\ pc' = "ask"
    /\ alive' = TRUE /\ open' = open + 1
    /\ UNCHANGED <<next, target, attempt, mc, leaked, linkDown, stop, beating, env>>

\* Variant: the port is reported without closing the probe.
ProbeEndsOpen ==
    /\ pc = "ask"
    /\ IF Answers THEN target' = at /\ pc' = "connect"
                  ELSE target' = target /\ pc' = "probe"
    /\ alive' = FALSE /\ open' = IF Answers THEN open ELSE open - 1
    /\ UNCHANGED <<next, todo, attempt, mc, leaked, linkDown, stop, beating, env>>

\* It answers, and its port is the target from now on, or it does not; the
\* probe is closed either way.
ProbeEnds ==
    /\ pc = "ask"
    /\ IF Answers THEN target' = at /\ pc' = "connect"
                  ELSE target' = target /\ pc' = "probe"
    /\ alive' = FALSE /\ ClosesQuietly(1)
    /\ UNCHANGED <<next, todo, attempt, mc, linkDown, stop, beating, env>>

\* No radio on any port: the cycle has failed.
DetectFails ==
    /\ pc = "probe" /\ todo = {}
    /\ pc' = "close" /\ next' = "backoff"
    /\ UNCHANGED <<port, attempt, mc, alive, links, linkDown, stop, beating, env>>

\* An attempt fails, what it opened being closed again: another one, or the
\* cycle has failed.
ConnectFails ==
    /\ pc = "connect"
    /\ ~Found
    /\ IF attempt < MaxAttempts
       THEN attempt' = attempt + 1 /\ UNCHANGED <<pc, next>>
       ELSE pc' = "close" /\ next' = "backoff" /\ attempt' = attempt
    /\ ClosesQuietly(0)
    /\ UNCHANGED <<port, mc, alive, linkDown, stop, beating, env>>

\* The transport is up and answered: a fresh event, and the handlers.
ConnectOpens ==
    /\ pc = "connect"
    /\ Found
    /\ pc' = "query"
    /\ mc' = TRUE /\ alive' = TRUE /\ open' = open + 1
    /\ linkDown' = FALSE
    /\ UNCHANGED <<next, port, attempt, leaked, stop, beating, env>>

\* The device query and the identity are through; the tasks start.
Ready ==
    /\ pc = "query"
    /\ Answers
    /\ pc' = "run"
    /\ beating' = TRUE
    /\ UNCHANGED <<next, port, attempt, mc, alive, links, linkDown, stop, env>>

ReadyFails ==
    /\ pc = "query"
    /\ ~Answers
    /\ pc' = "close" /\ next' = "backoff"
    /\ UNCHANGED <<port, attempt, mc, alive, links, linkDown, stop, beating, env>>

\* The advert task of a node that does not advertise ends at once.
TaskEnded == stop \/ linkDown \/ ~beating \/ Hidden

\* The first task to end ends the others.
Wakes ==
    /\ pc = "run"
    /\ TaskEnded
    /\ beating' = FALSE
    /\ pc' = "close"
    /\ next' = IF stop THEN "ended" ELSE "top"
    /\ UNCHANGED <<port, attempt, mc, alive, links, linkDown, stop, env>>

\* disconnect(), and on to where the caller wanted to go.
Close ==
    /\ pc = "close"
    /\ mc' = FALSE /\ alive' = FALSE
    /\ open' = IF mc THEN open - 1 ELSE open
    /\ pc' = next
    /\ UNCHANGED <<next, port, attempt, leaked, linkDown, stop, beating, env>>

\* disconnect() has no handler: what the transport raises ends run_forever.
CloseFails ==
    /\ pc = "close"
    /\ mc /\ CloseRaises /\ ~Answers
    /\ pc' = "crashed"
    /\ UNCHANGED <<next, port, attempt, mc, alive, links, linkDown, stop, beating, env>>

\* The backoff is over or the stop event cut it short.
BackoffOver ==
    /\ pc = "backoff"
    /\ pc' = "top"
    /\ UNCHANGED <<next, port, attempt, mc, alive, links, linkDown, stop, beating, env>>

-----------------------------------------------------------------------------
(* The tasks and the handlers *)

\* Variant: the heartbeat ends and tells nobody.
EndsSilently ==
    /\ beating
    /\ ~Answers
    /\ linkDown' = FALSE
    /\ UNCHANGED <<pc, next, port, attempt, mc, alive, links, stop, beating, env>>

\* A query that fails or does not come back: the link counts as down.
HeartbeatFails ==
    /\ beating
    /\ ~Answers
    /\ linkDown' = TRUE
    /\ beating' = FALSE
    /\ UNCHANGED <<pc, next, port, attempt, mc, alive, links, stop, env>>

\* The library gave up on reconnecting by itself.
ReconnectGivesUp ==
    /\ mc /\ ~alive
    /\ ~linkDown
    /\ linkDown' = TRUE
    /\ UNCHANGED <<pc, next, port, attempt, mc, alive, links, stop, beating, env>>

\* It reconnected by itself, unnoticed.
ReconnectSucceeds ==
    /\ mc /\ ~alive
    /\ Found
    /\ alive' = TRUE
    /\ UNCHANGED <<pc, next, port, attempt, mc, links, linkDown, stop, beating, env>>

Signal ==
    /\ ~stop
    /\ stop' = TRUE
    /\ UNCHANGED <<pc, next, port, attempt, mc, alive, links, linkDown, beating, env>>

RadioChanges ==
    /\ faults < MaxFaults
    /\ faults' = faults + 1
    /\ \E r \in Radio \ {radio} :
         radio' = r /\ alive' = (alive /\ r # "gone")
    /\ \E p \in Ports :
         /\ radio # "gone" => p = at
         /\ at' = p
    /\ UNCHANGED <<pc, next, port, attempt, mc, links, linkDown, stop, beating>>

Server ==
    \/ LoopTop \/ ListsPorts \/ ProbeSkips \/ ProbeOpens \/ ProbeEnds \/ DetectFails
    \/ ConnectFails \/ ConnectOpens \/ Ready \/ ReadyFails
    \/ Wakes \/ Close \/ CloseFails \/ BackoffOver

Next ==
    \/ Server
    \/ HeartbeatFails
    \/ ReconnectGivesUp
    \/ ReconnectSucceeds
    \/ Signal
    \/ RadioChanges

Spec == Init /\ [][Next]_vars

\* The event loop runs the server and its heartbeat.  The library is not
\* trusted to notice a lost link, nor the radio to come back.
FairSpec == Spec /\ WF_vars(Server) /\ WF_vars(HeartbeatFails)

-----------------------------------------------------------------------------
(* Properties *)

\* Types; a heartbeat runs only while the server does.
LifecycleTypeOK ==
    /\ pc \in {"top", "list", "probe", "ask", "connect", "query", "run",
               "close", "backoff", "ended", "crashed"}
    /\ next \in {"connect", "top", "backoff", "ended"}
    /\ target \in Ports \cup {"auto"} /\ todo \subseteq Ports
    /\ attempt \in 1 .. MaxAttempts
    /\ mc \in BOOLEAN /\ alive \in BOOLEAN
    /\ open \in Nat /\ leaked \in 0 .. MaxLeaks
    /\ linkDown \in BOOLEAN /\ stop \in BOOLEAN
    /\ beating \in BOOLEAN
    /\ beating => pc = "run"
    /\ radio \in Radio /\ at \in Ports /\ faults \in 0 .. MaxFaults

\* A serial port cannot be opened twice: whatever fails at whatever point of a
\* cycle, the server never opens a link while one is open, a probe's included,
\* and it keeps none through a search, a backoff or when it has ended; but
\* those the close of a probe or of a failed connect raised for.
OneLink ==
    /\ LifecycleTypeOK
    /\ open = leaked + (IF mc \/ pc = "ask" THEN 1 ELSE 0)
    /\ mc => pc \in {"query", "run", "close", "crashed"}

\* README, "automatic reconnection on both ends", "Auto radio discovery,
\* survives the radio being unplugged": when the radio stays well the server
\* comes to run, and goes on running.  It does not when the teardown of a dead
\* link raised, which disconnect() lets through, nor when the radio came back
\* on another port than the one the configuration names or the first search
\* found.
Recovers ==
    (<>[](radio = "ok" /\ target \in {"auto", at}) /\ []~stop /\ [](pc # "crashed"))
        => <>[](pc = "run" /\ Answers)
=============================================================================
