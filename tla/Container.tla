----------------------------- MODULE Container ------------------------------
(***************************************************************************)
(* The server in its container: docker/entrypoint.py seeds the data        *)
(* directory, writes the configuration and becomes the server, the one     *)
(* ServerLifecycle describes; docker-compose.yml starts it again when it   *)
(* ends by itself ("restart: unless-stopped").  The owner edits the files  *)
(* of the data directory, also while all this goes on, and the machine may *)
(* lose power at any step.                                                 *)
(*                                                                         *)
(* A file is "absent", "part" (a copy that has begun), "example" (what the *)
(* image brings) or "own" (the owner's, or a board with posts in it).  The *)
(* device is handed in when the container starts and the owner of the data *)
(* directory is a real user: drop_privileges changes nothing of this.      *)
(***************************************************************************)
EXTENDS ServerLifecycle, Sequences

CONSTANTS
    Pages,      \* the files of examples/pages
    Boards,     \* the boards of examples/boards, each a directory
    MaxEdits,   \* bound: files the owner writes or deletes
    MaxCuts     \* bound: power cuts, and starts after a stop

ASSUME ContainerConstants == Pages \cap Boards = {}

VARIABLES
    boot,       \* where entrypoint.py stands; "server" once it became one
    dir,        \* the directory its seeding looks at
    items,      \* what is left to copy into it
    item,       \* what is being copied
    disk,       \* the files of the data directory
    config,     \* config.json: "none", "torn" or the target it names
    radioEnv,   \* VN_RADIO
    edits, cuts,
    cutShort,   \* history: files whose copy, and directories whose seeding, was
                \* cut short
    owners      \* history: what the owner did last to a file, unless it was
                \* while its directory was seeded

seeding == <<boot, dir, items, item>>
history == <<cutShort, owners>>
containerVars == <<seeding, disk, config, radioEnv, edits, cuts, history>>
allVars == <<vars, containerVars>>

Dirs == <<Pages, Boards>>
Files == Pages \cup Boards
Nothing == "nothing"

\* any(dest.iterdir())
Occupied(d) == \E f \in Dirs[d] : disk[f] # "absent"

ContainerInit ==
    /\ Init
    /\ boot = "seed" /\ dir = 1 /\ items = {} /\ item = Nothing
    /\ disk = [f \in Files |-> "absent"]
    /\ config = "none" /\ radioEnv = target
    /\ edits = 0 /\ cuts = 0
    /\ cutShort = {} /\ owners = [f \in Files |-> "none"]

-----------------------------------------------------------------------------
(* seed, write_config, main *)

\* On to the next directory, or to the configuration.
Seeded ==
    /\ boot' = IF dir = 1 THEN "seed" ELSE "write"
    /\ dir' = 2
    /\ UNCHANGED <<items, item>>

Copies ==
    /\ boot' = "copy"
    /\ items' = Dirs[dir]
    /\ UNCHANGED <<dir, item>>

ElsewhereTheSame == UNCHANGED <<vars, config, radioEnv, edits, cuts, history>>

\* Variant: the examples are copied whatever is there.
LooksAtNothing ==
    /\ boot = "seed"
    /\ Copies
    /\ UNCHANGED disk
    /\ ElsewhereTheSame

\* Variant: the volume is taken as seeded when anything is in it.
LooksAtAll ==
    /\ boot = "seed"
    /\ IF Occupied(1) \/ Occupied(2) THEN Seeded ELSE Copies
    /\ UNCHANGED disk
    /\ ElsewhereTheSame

\* A directory with anything in it is left alone.
Looks ==
    /\ boot = "seed"
    /\ IF Occupied(dir) THEN Seeded ELSE Copies
    /\ UNCHANGED disk
    /\ ElsewhereTheSame

\* copy2 writes over what the owner put there since; copytree does not, it
\* raises.
CopyBegins ==
    /\ boot = "copy"
    /\ \E f \in items :
         /\ f \in Boards => disk[f] = "absent"
         /\ item' = f
         /\ items' = items \ {f}
         /\ disk' = [disk EXCEPT ![f] = "part"]
    /\ boot' = "copying"
    /\ UNCHANGED dir
    /\ ElsewhereTheSame

CopyRaises ==
    /\ boot = "copy"
    /\ \E f \in items \cap Boards : disk[f] # "absent"
    /\ boot' = "exited"
    /\ cutShort' = cutShort \cup {dir}
    /\ UNCHANGED <<vars, dir, items, item, disk, config, radioEnv, edits, cuts, owners>>

CopyEnds ==
    /\ boot = "copying"
    /\ disk' = IF disk[item] = "part" THEN [disk EXCEPT ![item] = "example"] ELSE disk
    /\ boot' = "copy"
    /\ item' = Nothing
    /\ UNCHANGED <<dir, items>>
    /\ ElsewhereTheSame

SeedEnds ==
    /\ boot = "copy" /\ items = {}
    /\ Seeded
    /\ UNCHANGED disk
    /\ ElsewhereTheSame

\* write_text empties the file and then writes.
WriteBegins ==
    /\ boot = "write"
    /\ boot' = "writing"
    /\ config' = "torn"
    /\ UNCHANGED <<vars, dir, items, item, disk, radioEnv, edits, cuts, history>>

WriteEnds ==
    /\ boot = "writing"
    /\ boot' = "check"
    /\ config' = radioEnv
    /\ UNCHANGED <<vars, dir, items, item, disk, radioEnv, edits, cuts, history>>

\* The device that was named is not in the container.
NoDevice ==
    /\ boot = "check"
    /\ config # "auto" /\ ~(radio # "gone" /\ at = config)
    /\ boot' = "exited"
    /\ UNCHANGED <<dir, items, item, disk>>
    /\ ElsewhereTheSame

\* A server that has just begun, its configuration loaded.
NewServer(t) ==
    /\ pc' = "top" /\ next' = "connect" /\ attempt' = 1
    /\ target' = t /\ todo' = {}
    /\ mc' = FALSE /\ alive' = FALSE /\ open' = 0 /\ leaked' = 0
    /\ linkDown' = FALSE /\ stop' = FALSE /\ beating' = FALSE

\* os.execvp: some device is there by that name.
Execs ==
    /\ boot = "check"
    /\ boot' = "server"
    /\ NewServer(config)
    /\ UNCHANGED <<env, dir, items, item, disk, config, radioEnv, edits, cuts, history>>

Entry ==
    \/ Looks \/ CopyBegins \/ CopyRaises \/ CopyEnds \/ SeedEnds
    \/ WriteBegins \/ WriteEnds \/ NoDevice \/ Execs

-----------------------------------------------------------------------------
(* The container, the machine and the owner *)

\* The process is no more.
Gone(after) ==
    /\ boot' = after /\ dir' = 1 /\ items' = {} /\ item' = Nothing
    /\ NewServer(radioEnv)
    /\ cutShort' = cutShort \cup (IF boot = "copying" THEN {item} ELSE {})
                            \cup (IF boot \in {"copy", "copying"} THEN {dir} ELSE {})
    /\ UNCHANGED <<env, disk, config, radioEnv, edits, owners>>

Down == boot = "exited" \/ (boot = "server" /\ pc = "crashed")

\* It ended by itself, and was not told to.
Restarts ==
    /\ Down /\ ~stop
    /\ Gone("seed")
    /\ UNCHANGED cuts

StopsEarly ==
    /\ boot \notin {"server", "stopped"}
    /\ Gone("stopped")
    /\ UNCHANGED cuts

StopsLate ==
    /\ boot = "server" /\ pc \in {"ended", "crashed"} /\ stop
    /\ Gone("stopped")
    /\ UNCHANGED cuts

PowerCut ==
    /\ cuts < MaxCuts /\ cuts' = cuts + 1
    /\ boot # "stopped"
    /\ Gone(IF stop THEN "stopped" ELSE "seed")

StartsAgain ==
    /\ cuts < MaxCuts /\ cuts' = cuts + 1
    /\ boot = "stopped"
    /\ boot' = "seed"
    /\ \E t \in Targets : radioEnv' = t
    /\ UNCHANGED <<vars, dir, items, item, disk, config, edits, history>>

\* The directory of a file is being seeded.
Seeds(f) == boot \in {"copy", "copying"} /\ f \in Dirs[dir]

OwnerWrites(f) ==
    /\ edits < MaxEdits /\ edits' = edits + 1
    /\ disk' = [disk EXCEPT ![f] = "own"]
    /\ owners' = [owners EXCEPT ![f] = IF Seeds(f) THEN "none" ELSE "wrote"]
    /\ UNCHANGED <<vars, seeding, config, radioEnv, cuts, cutShort>>

\* A directory without a file looks like one that was never seeded.
OwnerDeletes(f) ==
    /\ edits < MaxEdits /\ edits' = edits + 1
    /\ disk[f] # "absent"
    /\ disk' = [disk EXCEPT ![f] = "absent"]
    /\ LET d == IF f \in Pages THEN Pages ELSE Boards
           empty == \A g \in d : disk'[g] = "absent"
       IN  owners' = [g \in Files |->
                        IF g \in d /\ empty THEN "none"
                        ELSE IF g = f THEN IF Seeds(f) THEN "none" ELSE "deleted"
                        ELSE owners[g]]
    /\ UNCHANGED <<vars, seeding, config, radioEnv, cuts, cutShort>>

ServerSteps == boot = "server" /\ Next /\ UNCHANGED containerVars
RadioAlone == boot # "server" /\ RadioChanges /\ UNCHANGED containerVars

ContainerNext ==
    \/ Entry
    \/ Restarts \/ StopsEarly \/ StopsLate \/ PowerCut \/ StartsAgain
    \/ \E f \in Files : OwnerWrites(f) \/ OwnerDeletes(f)
    \/ ServerSteps
    \/ RadioAlone

ContainerSpec == ContainerInit /\ [][ContainerNext]_allVars

\* The interpreter runs what it was given, and the container is started again.
ContainerFairSpec ==
    /\ ContainerSpec
    /\ WF_allVars(Entry)
    /\ WF_allVars(Restarts)
    /\ WF_allVars(StopsLate)
    /\ WF_allVars(boot = "server" /\ Server /\ UNCHANGED containerVars)
    /\ WF_allVars(boot = "server" /\ HeartbeatFails /\ UNCHANGED containerVars)
-----------------------------------------------------------------------------
(* Properties *)

\* "Seeded from the examples on first run, yours afterwards": whatever starts,
\* restarts and power cuts come between, a file the owner wrote stays, and one
\* he deleted stays deleted, unless he emptied its directory or was at it while
\* the directory was seeded.
YoursAfterwards ==
    \A f \in Files :
      /\ owners[f] = "wrote" => disk[f] = "own"
      /\ owners[f] = "deleted" => disk[f] = "absent"

\* The server never runs on a configuration that is torn or of an earlier start,
\* nor on part of a file or of a directory, but where a start was cut short
\* while it copied just that: no later start completes it.
StartsWhole ==
    boot = "server" =>
      /\ config = radioEnv
      /\ \A f \in Files : disk[f] = "part" => f \in cutShort
      /\ edits = 0 =>
           \A d \in DOMAIN Dirs : d \in cutShort \/ \A f \in Dirs[d] : disk[f] = "example"

\* docker stop ends the server wherever it is, also when the teardown of a dead
\* link raised.
StopEnds == (boot = "server" /\ stop) ~> boot = "stopped"

\* "Runs unattended": when the radio stays well, the server comes to run and
\* goes on running, also after the teardown of a dead link ended it, after power
\* cuts and after starts without the device; unless the radio came back on
\* another port than the one the configuration names or the search had found.
RunsUnattended ==
    (<>[](radio = "ok" /\ {radioEnv, target} \subseteq {"auto", at})
       /\ <>[](boot # "stopped" /\ ~stop))
        => <>[](boot = "server" /\ pc = "run" /\ Answers)
=============================================================================
