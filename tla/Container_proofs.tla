-------------------------- MODULE Container_proofs ---------------------------
(***************************************************************************)
(* Proofs about the container and the server in it: one link at a time,    *)
(* the owner's files are his, and what a server starts on is whole, for    *)
(* any number of ports, files, edits, power cuts and changes of the radio. *)
(***************************************************************************)
EXTENDS Container, TLAPS

-----------------------------------------------------------------------------
(* One link *)

Flags ==
    /\ mc \in BOOLEAN /\ alive \in BOOLEAN
    /\ linkDown \in BOOLEAN /\ stop \in BOOLEAN /\ beating \in BOOLEAN

Places ==
    /\ pc \in {"top", "list", "probe", "ask", "connect", "query", "run",
               "close", "backoff", "ended", "crashed"}
    /\ next \in {"connect", "top", "backoff", "ended"}
    /\ target \in Ports \cup {"auto"} /\ todo \subseteq Ports
    /\ attempt \in 1 .. MaxAttempts /\ leaked \in 0 .. MaxLeaks
    /\ beating => pc = "run"
    /\ radio \in Radio /\ at \in Ports /\ faults \in 0 .. MaxFaults

LEMMA FlagsStay == Flags /\ [Next]_vars => Flags'
BY Zenon DEF Flags, Next, Server, vars, serverVars, LoopTop, ListsPorts, ProbeSkips,
   ProbeOpens, ProbeEnds, DetectFails, ConnectFails, ConnectOpens, Ready, ReadyFails,
   Wakes, Close, CloseFails, BackoffOver, HeartbeatFails, ReconnectGivesUp,
   ReconnectSucceeds, Signal, RadioChanges

LEMMA PlacesStay == Places /\ [Next]_vars => Places'
<1> SUFFICES ASSUME Places, [Next]_vars PROVE Places'
  OBVIOUS
<1> USE LifecycleConstants DEF Places, port, links, env
<1>1. CASE LoopTop \/ ListsPorts \/ ProbeSkips
  BY <1>1 DEF LoopTop, ListsPorts, ProbeSkips, ClosesQuietly
<1>2. CASE ProbeOpens \/ ProbeEnds
  BY <1>2 DEF ProbeOpens, ProbeEnds, ClosesQuietly
<1>3. CASE DetectFails \/ ConnectFails
  BY <1>3 DEF DetectFails, ConnectFails, ClosesQuietly
<1>4. CASE ConnectOpens \/ Ready \/ ReadyFails
  BY <1>4 DEF ConnectOpens, Ready, ReadyFails
<1>5. CASE Wakes
  BY <1>5 DEF Wakes
<1>6. CASE Close \/ CloseFails \/ BackoffOver
  BY <1>6 DEF Close, CloseFails, BackoffOver
<1>7. CASE HeartbeatFails \/ ReconnectGivesUp \/ ReconnectSucceeds \/ Signal
  BY <1>7 DEF HeartbeatFails, ReconnectGivesUp, ReconnectSucceeds, Signal
<1>8. CASE RadioChanges
  BY <1>8 DEF RadioChanges, Radio
<1>9. CASE UNCHANGED vars
  BY <1>9 DEF vars, serverVars
<1>10. QED
  BY <1>1, <1>2, <1>3, <1>4, <1>5, <1>6, <1>7, <1>8, <1>9 DEF Next, Server

\* The transports that are open are counted right by every step.
LinkCount ==
    /\ open = leaked + (IF mc \/ pc = "ask" THEN 1 ELSE 0)
    /\ mc => pc \in {"query", "run", "close", "crashed"}

LEMMA ServerCounts == Places /\ LinkCount /\ [Next]_vars => LinkCount'
<1> SUFFICES ASSUME Places, LinkCount, [Next]_vars PROVE LinkCount'
  OBVIOUS
<1> USE DEF LinkCount, links
<1>0. leaked \in Nat
  BY LifecycleConstants DEF Places
<1>1. CASE LoopTop \/ ListsPorts \/ ProbeSkips
  BY <1>0, <1>1 DEF LoopTop, ListsPorts, ProbeSkips, ClosesQuietly
<1>2. CASE ProbeOpens
  BY <1>0, <1>2 DEF ProbeOpens
<1>3. CASE ProbeEnds
  BY <1>0, <1>3 DEF ProbeEnds, ClosesQuietly
<1>4. CASE DetectFails \/ ConnectFails
  BY <1>0, <1>4 DEF DetectFails, ConnectFails, ClosesQuietly
<1>5. CASE ConnectOpens
  BY <1>0, <1>5 DEF ConnectOpens
<1>6. CASE Ready \/ ReadyFails \/ Wakes
  BY <1>6 DEF Ready, ReadyFails, Wakes
<1>7. CASE Close
  BY <1>7 DEF Close, Places
<1>8. CASE CloseFails \/ BackoffOver
  BY <1>8 DEF CloseFails, BackoffOver
<1>9. CASE HeartbeatFails \/ ReconnectGivesUp \/ ReconnectSucceeds \/ Signal
  BY <1>9 DEF HeartbeatFails, ReconnectGivesUp, ReconnectSucceeds, Signal
<1>10. CASE RadioChanges
  BY <1>10 DEF RadioChanges
<1>11. CASE UNCHANGED vars
  BY <1>11 DEF vars, serverVars
<1>12. QED
  BY <1>1, <1>2, <1>3, <1>4, <1>5, <1>6, <1>7, <1>8, <1>9, <1>10, <1>11
     DEF Next, Server

LEMMA OneLinkParts == OneLink <=> Flags /\ Places /\ LinkCount
<1>1. Places /\ LinkCount => open \in Nat
  BY LifecycleConstants DEF Places, LinkCount
<1>2. QED
  BY <1>1, Zenon DEF OneLink, LifecycleTypeOK, Flags, Places, LinkCount

\* No step of the server opens a second link.
LEMMA ServerKeepsOneLink == OneLink /\ [Next]_vars => OneLink'
<1>1. OneLink' <=> (Flags /\ Places /\ LinkCount)'
  BY OneLinkParts, PTL
<1>2. QED
  BY <1>1, OneLinkParts, FlagsStay, PlacesStay, ServerCounts

-----------------------------------------------------------------------------
(* The data directory *)

Contents == {"absent", "part", "example", "own"}

Seeding == boot \in {"copy", "copying"}

SeedTypes ==
    /\ boot \in {"seed", "copy", "copying", "write", "writing", "check", "server",
                 "exited", "stopped"}
    /\ dir \in {1, 2}
    /\ boot = "stopped" => dir = 1
    /\ boot = "copying" => item \in Dirs[dir]
    /\ Seeding => items \subseteq Dirs[dir]
    /\ disk \in [Files -> Contents]
    /\ owners \in [Files -> {"none", "wrote", "deleted"}]
    /\ radioEnv \in Targets
    /\ edits \in Nat

\* The owner has no file in a directory that is empty or being seeded.
OwnersInv ==
    /\ YoursAfterwards
    /\ \A d \in {1, 2} : \A f \in Dirs[d] :
         ~Occupied(d) \/ (Seeding /\ dir = d) => owners[f] = "none"

\* A part of a file is being copied, or its copy was cut short.
PartsInv ==
    \A f \in Files : disk[f] = "part" => f \in cutShort \/ (boot = "copying" /\ item = f)

ConfigInv == boot \in {"check", "server"} => config = radioEnv

Done(d) == \A f \in Dirs[d] : disk[f] = "example"
InHand(d) ==
    /\ \A f \in Dirs[d] : disk[f] = IF f \in items THEN "absent"
                                    ELSE IF boot = "copying" /\ f = item THEN "part"
                                    ELSE "example"
    /\ boot = "copying" => item \notin items
Passed(d) ==
    \/ boot \in {"write", "writing", "check", "server"}
    \/ (boot = "seed" \/ Seeding) /\ dir > d

\* While the owner changed nothing, a directory whose seeding was not cut short
\* is empty, in hand or done, and done once the entry point went past it.
SeedInv ==
    \A d \in {1, 2} :
      edits = 0 /\ d \notin cutShort =>
        /\ IF Seeding /\ dir = d THEN InHand(d) ELSE ~Occupied(d) \/ Done(d)
        /\ Passed(d) => Done(d)

DataInv ==
    SeedTypes /\ OwnersInv /\ PartsInv /\ ConfigInv /\ SeedInv

ContainerInv == OneLink /\ DataInv

LEMMA ContainerStarts == ContainerInit => ContainerInv
<1> SUFFICES ASSUME ContainerInit PROVE ContainerInv
  OBVIOUS
<1> USE DEF ContainerInit, Files, Dirs
<1>1. OneLink
  <2>1. Flags
    BY Zenon DEF Init, Flags
  <2>2. Places
    BY LifecycleConstants DEF Init, Places, Radio
  <2>3. LinkCount
    BY DEF Init, LinkCount
  <2>4. QED
    BY <2>1, <2>2, <2>3, OneLinkParts
<1>2. SeedTypes
  BY DEF Init, SeedTypes, Contents, Seeding
<1>3. OwnersInv /\ PartsInv /\ ConfigInv
  BY DEF OwnersInv, YoursAfterwards, PartsInv, ConfigInv
<1>4. SeedInv
  BY DEF SeedInv, Occupied, Passed, Seeding
<1>5. QED
  BY <1>1, <1>2, <1>3, <1>4 DEF ContainerInv, DataInv

-----------------------------------------------------------------------------
(* The steps of the entry point *)

\* A server that begins has no link.
LEMMA BeginsWithoutLink ==
    ASSUME OneLink, NEW t \in Ports \cup {"auto"}, NewServer(t), UNCHANGED env
    PROVE  OneLink'
<1>1. Flags'
  BY Zenon DEF NewServer, Flags
<1>2. Places'
  BY OneLinkParts, LifecycleConstants DEF NewServer, Places, env
<1>3. LinkCount'
  BY DEF NewServer, LinkCount
<1>4. OneLink' <=> (Flags /\ Places /\ LinkCount)'
  BY OneLinkParts, PTL
<1>5. QED
  BY <1>1, <1>2, <1>3, <1>4

\* A directory of the volume holds files, and no file is in two of them.
LEMMA FilesOfDirs ==
    /\ \A d \in {1, 2} : Dirs[d] \subseteq Files
    /\ \A d, e \in {1, 2} : d # e => Dirs[d] \cap Dirs[e] = {}
    /\ \A f \in Files : \E d \in {1, 2} : f \in Dirs[d]
BY ContainerConstants DEF Dirs, Files

LEMMA LooksStep == ASSUME DataInv, Looks PROVE DataInv'
<1> USE DEF DataInv
<1>1. UNCHANGED <<disk, owners, radioEnv, edits, cutShort, config>> /\ boot = "seed"
  BY DEF Looks, ElsewhereTheSame, history
<1>2. SeedTypes'
  BY <1>1 DEF SeedTypes, Looks, Seeded, Copies, Seeding
<1>3. OwnersInv'
  <2>1. \A d \in {1, 2} : Occupied(d)' <=> Occupied(d)
    BY <1>1 DEF Occupied
  <2>2. Seeding' => dir' = dir /\ ~Occupied(dir)
    BY <1>1 DEF Looks, Seeded, Copies, Seeding
  <2>3. QED
    BY <1>1, <2>1, <2>2 DEF OwnersInv, YoursAfterwards, Seeding
<1>4. PartsInv' /\ ConfigInv'
  BY <1>1 DEF PartsInv, ConfigInv, Looks, Seeded, Copies
<1>5. SeedInv'
  <2> SUFFICES ASSUME NEW d \in {1, 2}, edits = 0, d \notin cutShort
               PROVE  /\ IF Seeding' /\ dir' = d THEN InHand(d)'
                                             ELSE ~Occupied(d)' \/ Done(d)'
                      /\ Passed(d)' => Done(d)'
    BY <1>1 DEF SeedInv
  <2>1. /\ ~Occupied(d) \/ Done(d)
        /\ dir > d => Done(d)
    BY <1>1 DEF SeedInv, Seeding, Passed
  <2>2. (Occupied(d)' <=> Occupied(d)) /\ (Done(d)' <=> Done(d))
    BY <1>1 DEF Occupied, Done
  <2>3. Passed(d)' => dir > d \/ (dir = d /\ Occupied(d))
    BY <1>1 DEF Passed, Seeding, Looks, Seeded, Copies, SeedTypes
  <2>4. Seeding' => dir' = dir /\ items' = Dirs[dir] /\ ~Occupied(dir) /\ boot' = "copy"
    BY <1>1 DEF Looks, Seeded, Copies, Seeding
  <2>5. Seeding' /\ dir' = d => InHand(d)'
    BY <1>1, <2>4 DEF InHand, Occupied
  <2>6. QED
    BY <2>1, <2>2, <2>3, <2>5
<1>6. QED
  BY <1>2, <1>3, <1>4, <1>5

LEMMA CopyBeginsStep == ASSUME DataInv, CopyBegins PROVE DataInv'
<1> USE DEF DataInv
<1>1. /\ boot = "copy" /\ boot' = "copying" /\ item' \in items
      /\ items' = items \ {item'} /\ disk' = [disk EXCEPT ![item'] = "part"]
      /\ UNCHANGED <<dir, owners, radioEnv, edits, cutShort, config>>
  BY DEF CopyBegins, ElsewhereTheSame, history
<1>2. item' \in Dirs[dir] /\ items \subseteq Dirs[dir] /\ dir \in {1, 2} /\ item' \in Files
  BY <1>1, FilesOfDirs DEF SeedTypes, Seeding
<1>3. SeedTypes'
  BY <1>1, <1>2 DEF SeedTypes, Seeding, Contents
<1>4. OwnersInv'
  <2>1. \A f \in Dirs[dir] : owners[f] = "none"
    BY <1>1, <1>2 DEF OwnersInv, Seeding
  <2>2. \A d \in {1, 2} : ~Occupied(d)' => ~Occupied(d) \/ d = dir
    BY <1>1, <1>2, FilesOfDirs DEF Occupied, SeedTypes
  <2>3. YoursAfterwards'
    BY <1>1, <1>2, <2>1 DEF OwnersInv, YoursAfterwards, SeedTypes
  <2>4. QED
    BY <1>1, <2>1, <2>2, <2>3 DEF OwnersInv, Seeding
<1>5. PartsInv' /\ ConfigInv'
  BY <1>1, <1>2 DEF PartsInv, ConfigInv, SeedTypes
<1>6. SeedInv'
  <2> SUFFICES ASSUME NEW d \in {1, 2}, edits = 0, d \notin cutShort
               PROVE  /\ IF Seeding' /\ dir' = d THEN InHand(d)'
                                             ELSE ~Occupied(d)' \/ Done(d)'
                      /\ Passed(d)' => Done(d)'
    BY <1>1 DEF SeedInv
  <2>1. /\ IF Seeding /\ dir = d THEN InHand(d) ELSE ~Occupied(d) \/ Done(d)
        /\ Passed(d) => Done(d)
    BY DEF SeedInv
  <2>2. CASE d # dir
    <3>1. \A f \in Dirs[d] : disk'[f] = disk[f]
      BY <1>1, <1>2, <2>2, FilesOfDirs DEF SeedTypes
    <3>2. (Occupied(d)' <=> Occupied(d)) /\ (Done(d)' <=> Done(d))
      BY <3>1 DEF Occupied, Done
    <3>3. Passed(d)' => Passed(d)
      BY <1>1 DEF Passed, Seeding
    <3>4. QED
      BY <1>1, <2>1, <2>2, <3>2, <3>3
  <2>3. CASE d = dir
    <3>1. ~Passed(d)'
      BY <1>1, <2>3, <1>2 DEF Passed, Seeding
    <3>2. InHand(d)
      BY <1>1, <2>1, <2>3 DEF Seeding
    <3>3. InHand(d)'
      BY <1>1, <1>2, <2>3, <3>2, FilesOfDirs DEF InHand, SeedTypes
    <3>4. QED
      BY <1>1, <2>3, <3>1, <3>3 DEF Seeding
  <2>4. QED
    BY <2>2, <2>3
<1>7. QED
  BY <1>3, <1>4, <1>5, <1>6

LEMMA CopyRaisesStep == ASSUME DataInv, CopyRaises PROVE DataInv'
<1> USE DEF DataInv
<1>1. /\ boot = "copy" /\ boot' = "exited" /\ cutShort' = cutShort \cup {dir}
      /\ UNCHANGED <<dir, disk, owners, radioEnv, edits, config>>
  BY DEF CopyRaises
<1>2. SeedTypes' /\ PartsInv' /\ ConfigInv'
  BY <1>1 DEF SeedTypes, PartsInv, ConfigInv, Seeding
<1>3. OwnersInv'
  BY <1>1 DEF OwnersInv, YoursAfterwards, Seeding, Occupied
<1>4. SeedInv'
  BY <1>1 DEF SeedInv, Seeding, Passed, Occupied, Done
<1>5. QED
  BY <1>2, <1>3, <1>4

LEMMA CopyEndsStep == ASSUME DataInv, CopyEnds PROVE DataInv'
<1> USE DEF DataInv
<1>1. /\ boot = "copying" /\ boot' = "copy"
      /\ disk' = IF disk[item] = "part" THEN [disk EXCEPT ![item] = "example"] ELSE disk
      /\ UNCHANGED <<dir, items, owners, radioEnv, edits, cutShort, config>>
  BY DEF CopyEnds, ElsewhereTheSame, history
<1>2. item \in Dirs[dir] /\ items \subseteq Dirs[dir] /\ dir \in {1, 2} /\ item \in Files
  BY <1>1, FilesOfDirs DEF SeedTypes, Seeding
<1>3. /\ disk' \in [Files -> Contents]
      /\ \A f \in Files : disk'[f] = disk[f] \/ (f = item /\ disk'[f] = "example")
      /\ disk[item] = "part" => disk'[item] = "example"
      /\ \A f \in Files : f # item => disk'[f] = disk[f]
  BY <1>1, <1>2 DEF SeedTypes, Contents
<1>4. SeedTypes'
  BY <1>1, <1>3 DEF SeedTypes, Seeding
<1>5. OwnersInv'
  <2>1. \A f \in Dirs[dir] : owners[f] = "none"
    BY <1>1, <1>2 DEF OwnersInv, Seeding
  <2>2. \A d \in {1, 2} : ~Occupied(d)' => ~Occupied(d) \/ d = dir
    BY <1>1, <1>2, <1>3, FilesOfDirs DEF Occupied
  <2>3. YoursAfterwards'
    BY <1>1, <1>2, <1>3, <2>1 DEF OwnersInv, YoursAfterwards
  <2>4. QED
    BY <1>1, <2>1, <2>2, <2>3 DEF OwnersInv, Seeding
<1>6. PartsInv' /\ ConfigInv'
  BY <1>1, <1>2, <1>3 DEF PartsInv, ConfigInv
<1>7. SeedInv'
  <2> SUFFICES ASSUME NEW d \in {1, 2}, edits = 0, d \notin cutShort
               PROVE  /\ IF Seeding' /\ dir' = d THEN InHand(d)'
                                             ELSE ~Occupied(d)' \/ Done(d)'
                      /\ Passed(d)' => Done(d)'
    BY <1>1 DEF SeedInv
  <2>1. /\ IF Seeding /\ dir = d THEN InHand(d) ELSE ~Occupied(d) \/ Done(d)
        /\ Passed(d) => Done(d)
    BY DEF SeedInv
  <2>2. CASE d # dir
    <3>1. \A f \in Dirs[d] : disk'[f] = disk[f]
      BY <1>2, <1>3, <2>2, FilesOfDirs
    <3>2. (Occupied(d)' <=> Occupied(d)) /\ (Done(d)' <=> Done(d))
      BY <3>1 DEF Occupied, Done
    <3>3. Passed(d)' => Passed(d)
      BY <1>1 DEF Passed, Seeding
    <3>4. QED
      BY <1>1, <2>1, <2>2, <3>2, <3>3
  <2>3. CASE d = dir
    <3>1. ~Passed(d)'
      BY <1>1, <2>3, <1>2 DEF Passed, Seeding
    <3>2. InHand(d)
      BY <1>1, <2>1, <2>3 DEF Seeding
    <3>3. InHand(d)'
      BY <1>1, <1>2, <1>3, <2>3, <3>2, FilesOfDirs DEF InHand
    <3>4. QED
      BY <1>1, <2>3, <3>1, <3>3 DEF Seeding
  <2>4. QED
    BY <2>2, <2>3
<1>8. QED
  BY <1>4, <1>5, <1>6, <1>7

LEMMA SeedEndsStep == ASSUME DataInv, SeedEnds PROVE DataInv'
<1> USE DEF DataInv
<1>1. /\ boot = "copy" /\ items = {} /\ dir' = 2
      /\ boot' = (IF dir = 1 THEN "seed" ELSE "write") /\ dir \in {1, 2}
      /\ UNCHANGED <<disk, owners, radioEnv, edits, cutShort, config>>
  BY DEF SeedEnds, Seeded, ElsewhereTheSame, history, SeedTypes
<1>2. SeedTypes' /\ PartsInv' /\ ConfigInv'
  BY <1>1 DEF SeedTypes, PartsInv, ConfigInv, Seeding
<1>3. OwnersInv'
  BY <1>1 DEF OwnersInv, YoursAfterwards, Seeding, Occupied
<1>4. SeedInv'
  <2> SUFFICES ASSUME NEW d \in {1, 2}, edits = 0, d \notin cutShort
               PROVE  /\ ~Occupied(d) \/ Done(d)
                      /\ Passed(d)' => Done(d)
    BY <1>1 DEF SeedInv, Occupied, Done, Seeding
  <2>1. /\ IF dir = d THEN InHand(d) ELSE ~Occupied(d) \/ Done(d)
        /\ Passed(d) => Done(d)
    BY <1>1 DEF SeedInv, Seeding
  <2>2. dir = d => Done(d)
    BY <1>1, <2>1 DEF InHand, Done
  <2>3. Passed(d)' => d = dir \/ dir > d
    BY <1>1 DEF Passed, Seeding
  <2>4. dir > d => Passed(d)
    BY <1>1 DEF Passed, Seeding
  <2>5. QED
    BY <2>1, <2>2, <2>3, <2>4
<1>5. QED
  BY <1>2, <1>3, <1>4

\* The configuration is written and checked, and the server begins.
LEMMA WriteStep ==
    ASSUME DataInv, WriteBegins \/ WriteEnds \/ NoDevice \/ Execs PROVE DataInv'
<1> USE DEF DataInv
<1>1. /\ boot \in {"write", "writing", "check"}
      /\ boot' \in {"writing", "check", "exited", "server"}
      /\ UNCHANGED <<dir, items, item, disk, owners, radioEnv, edits, cutShort>>
  BY DEF WriteBegins, WriteEnds, NoDevice, Execs, ElsewhereTheSame, history
<1>2. SeedTypes' /\ PartsInv'
  BY <1>1 DEF SeedTypes, PartsInv, Seeding
<1>3. ConfigInv'
  BY DEF ConfigInv, WriteBegins, WriteEnds, NoDevice, Execs
<1>4. OwnersInv'
  BY <1>1 DEF OwnersInv, YoursAfterwards, Seeding, Occupied
<1>5. SeedInv'
  BY <1>1 DEF SeedInv, Seeding, Passed, Occupied, Done
<1>6. QED
  BY <1>2, <1>3, <1>4, <1>5

-----------------------------------------------------------------------------
(* The steps around it *)

\* Whatever ends the process, a seeding it was in the middle of is cut short.
LEMMA GoneStep ==
    ASSUME DataInv, NEW after \in {"seed", "stopped"}, Gone(after) PROVE DataInv'
<1> USE DEF DataInv
<1>1. /\ boot' = after /\ dir' = 1
      /\ UNCHANGED <<disk, owners, radioEnv, edits, config>>
      /\ cutShort \subseteq cutShort'
      /\ boot = "copying" => item \in cutShort'
      /\ Seeding => dir \in cutShort'
  BY DEF Gone, Seeding
<1>2. SeedTypes' /\ PartsInv' /\ ConfigInv'
  BY <1>1 DEF SeedTypes, PartsInv, ConfigInv, Seeding
<1>3. OwnersInv'
  BY <1>1 DEF OwnersInv, YoursAfterwards, Seeding, Occupied
<1>4. SeedInv'
  BY <1>1 DEF SeedInv, Seeding, Passed, Occupied, Done
<1>5. QED
  BY <1>2, <1>3, <1>4

LEMMA StartsAgainStep == ASSUME DataInv, StartsAgain PROVE DataInv'
<1> USE DEF DataInv
<1>1. /\ boot = "stopped" /\ boot' = "seed" /\ radioEnv' \in Targets
      /\ UNCHANGED <<dir, items, item, disk, owners, edits, config, cutShort>>
  BY DEF StartsAgain, history
<1>2. SeedTypes' /\ PartsInv' /\ ConfigInv'
  BY <1>1 DEF SeedTypes, PartsInv, ConfigInv, Seeding
<1>3. OwnersInv'
  BY <1>1 DEF OwnersInv, YoursAfterwards, Seeding, Occupied
<1>4. SeedInv'
  BY <1>1 DEF SeedInv, SeedTypes, Seeding, Passed, Occupied, Done
<1>5. QED
  BY <1>2, <1>3, <1>4

LEMMA OwnerWritesStep ==
    ASSUME DataInv, NEW f \in Files, OwnerWrites(f) PROVE DataInv'
<1> USE DEF DataInv
<1>1. /\ edits \in Nat /\ edits' = edits + 1
      /\ disk' = [disk EXCEPT ![f] = "own"]
      /\ owners' = [owners EXCEPT ![f] = IF Seeds(f) THEN "none" ELSE "wrote"]
      /\ UNCHANGED <<boot, dir, items, item, radioEnv, config, cutShort>>
  BY DEF OwnerWrites, seeding, SeedTypes
<1>2. SeedTypes' /\ PartsInv' /\ ConfigInv'
  BY <1>1 DEF SeedTypes, PartsInv, ConfigInv, Seeding, Contents
<1>3. OwnersInv'
  <2>1. \A d \in {1, 2} : ~Occupied(d)' => f \notin Dirs[d] /\ ~Occupied(d)
    BY <1>1, FilesOfDirs DEF Occupied, SeedTypes
  <2>2. YoursAfterwards'
    BY <1>1 DEF OwnersInv, YoursAfterwards, SeedTypes
  <2>3. \A d \in {1, 2} : Seeding /\ dir = d /\ f \in Dirs[d] => Seeds(f)
    BY DEF Seeding, Seeds
  <2>4. QED
    BY <1>1, <2>1, <2>2, <2>3, FilesOfDirs DEF OwnersInv, Seeding, SeedTypes
<1>4. SeedInv'
  BY <1>1 DEF SeedInv
<1>5. QED
  BY <1>2, <1>3, <1>4

\* A directory he emptied looks like one that was never seeded, and he has
\* nothing in it.
LEMMA OwnerDeletesStep ==
    ASSUME DataInv, NEW f \in Files, OwnerDeletes(f) PROVE DataInv'
<1> USE DEF DataInv
<1> DEFINE home == IF f \in Pages THEN Pages ELSE Boards
           empty == \A g \in home : disk'[g] = "absent"
<1>1. /\ edits \in Nat /\ edits' = edits + 1
      /\ disk' = [disk EXCEPT ![f] = "absent"]
      /\ owners' = [g \in Files |->
                      IF g \in home /\ empty THEN "none"
                      ELSE IF g = f THEN IF Seeds(f) THEN "none" ELSE "deleted"
                      ELSE owners[g]]
      /\ UNCHANGED <<boot, dir, items, item, radioEnv, config, cutShort>>
  BY DEF OwnerDeletes, seeding, SeedTypes
<1>2. \E e \in {1, 2} : f \in Dirs[e] /\ home = Dirs[e]
  BY DEF Dirs, Files
<1>3. owners' \in [Files -> {"none", "wrote", "deleted"}]
  BY <1>1 DEF SeedTypes
<1>4. SeedTypes' /\ PartsInv' /\ ConfigInv'
  BY <1>1, <1>3 DEF SeedTypes, PartsInv, ConfigInv, Seeding, Contents
<1>5. OwnersInv'
  <2>1. \A d \in {1, 2} : ~Occupied(d)' => ~Occupied(d) \/ (home = Dirs[d] /\ empty)
    BY <1>1, <1>2, FilesOfDirs DEF Occupied, SeedTypes
  <2>2. YoursAfterwards'
    BY <1>1 DEF OwnersInv, YoursAfterwards, SeedTypes
  <2>3. \A d \in {1, 2} : Seeding /\ dir = d /\ f \in Dirs[d] => Seeds(f)
    BY DEF Seeding, Seeds
  <2>4. ASSUME NEW d \in {1, 2}, ~Occupied(d)', NEW g \in Dirs[d]
        PROVE  owners'[g] = "none"
    <3>1. g \in Files /\ disk'[g] = "absent"
      BY <2>4, FilesOfDirs DEF Occupied
    <3>2. CASE home = Dirs[d] /\ empty
      BY <1>1, <3>1, <3>2, <2>4
    <3>3. CASE ~Occupied(d) /\ home # Dirs[d]
      <4>1. g # f /\ g \notin home
        BY <1>2, <2>4, <3>3, FilesOfDirs
      <4>2. QED
        BY <1>1, <2>4, <3>1, <3>3, <4>1 DEF OwnersInv
    <3>4. CASE ~Occupied(d) /\ home = Dirs[d]
      BY <1>1, <2>4, <3>2, <3>4, FilesOfDirs DEF Occupied, SeedTypes
    <3>5. QED
      BY <2>1, <2>4, <3>2, <3>3, <3>4
  <2>5. ASSUME NEW d \in {1, 2}, Seeding, dir = d, NEW g \in Dirs[d]
        PROVE  owners'[g] = "none"
    <3>1. owners[g] = "none" /\ g \in Files
      BY <2>5, FilesOfDirs DEF OwnersInv
    <3>2. g = f => Seeds(f)
      BY <2>3, <2>5
    <3>3. QED
      BY <1>1, <3>1, <3>2
  <2>6. QED
    BY <1>1, <2>2, <2>4, <2>5 DEF OwnersInv, Seeding
<1>6. SeedInv'
  BY <1>1 DEF SeedInv
<1>7. QED
  BY <1>4, <1>5, <1>6

LEMMA DataUnchanged == ASSUME DataInv, UNCHANGED containerVars PROVE DataInv'
<1> USE DEF DataInv, containerVars, seeding, history
<1>1. SeedTypes' /\ PartsInv' /\ ConfigInv'
  BY DEF SeedTypes, PartsInv, ConfigInv, Seeding
<1>2. OwnersInv'
  BY DEF OwnersInv, YoursAfterwards, Seeding, Occupied
<1>3. SeedInv'
  BY DEF SeedInv, Seeding, Passed, Occupied, Done, InHand
<1>4. QED
  BY <1>1, <1>2, <1>3

-----------------------------------------------------------------------------
(* The theorems *)

LEMMA ContainerStep ==
    ContainerInv /\ [ContainerNext]_allVars => ContainerInv'
<1> SUFFICES ASSUME ContainerInv, [ContainerNext]_allVars PROVE ContainerInv'
  OBVIOUS
<1> USE DEF ContainerInv
<1>1. ASSUME UNCHANGED vars PROVE OneLink'
  BY <1>1, ServerKeepsOneLink
<1>2. CASE Looks \/ CopyBegins \/ CopyRaises \/ CopyEnds \/ SeedEnds
  <2>1. UNCHANGED vars
    BY <1>2 DEF Looks, CopyBegins, CopyRaises, CopyEnds, SeedEnds, ElsewhereTheSame
  <2>2. QED
    BY <1>1, <1>2, <2>1, LooksStep, CopyBeginsStep, CopyRaisesStep, CopyEndsStep,
       SeedEndsStep
<1>3. CASE WriteBegins \/ WriteEnds \/ NoDevice
  <2>1. UNCHANGED vars
    BY <1>3 DEF WriteBegins, WriteEnds, NoDevice, ElsewhereTheSame
  <2>2. QED
    BY <1>1, <1>3, <2>1, WriteStep
<1>4. CASE Execs
  <2>1. config \in Ports \cup {"auto"} /\ NewServer(config) /\ UNCHANGED env
    BY <1>4, LifecycleConstants DEF Execs, DataInv, ConfigInv, SeedTypes
  <2>2. QED
    BY <1>4, <2>1, BeginsWithoutLink, WriteStep
<1>5. ASSUME NEW after \in {"seed", "stopped"}, Gone(after) PROVE ContainerInv'
  <2>1. radioEnv \in Ports \cup {"auto"} /\ NewServer(radioEnv) /\ UNCHANGED env
    BY <1>5, LifecycleConstants DEF Gone, DataInv, SeedTypes
  <2>2. QED
    BY <1>5, <2>1, BeginsWithoutLink, GoneStep
<1>6. CASE Restarts \/ StopsEarly \/ StopsLate \/ PowerCut
  BY <1>5, <1>6 DEF Restarts, StopsEarly, StopsLate, PowerCut
<1>7. CASE StartsAgain
  BY <1>1, <1>7, StartsAgainStep DEF StartsAgain
<1>8. ASSUME NEW f \in Files, OwnerWrites(f) \/ OwnerDeletes(f) PROVE ContainerInv'
  <2>1. UNCHANGED vars
    BY <1>8 DEF OwnerWrites, OwnerDeletes
  <2>2. QED
    BY <1>1, <1>8, <2>1, OwnerWritesStep, OwnerDeletesStep
<1>9. CASE ServerSteps \/ RadioAlone
  BY <1>9, ServerKeepsOneLink, DataUnchanged DEF ServerSteps, RadioAlone, Next
<1>10. CASE UNCHANGED allVars
  BY <1>1, <1>10, DataUnchanged DEF allVars
<1>11. QED
  BY <1>2, <1>3, <1>4, <1>6, <1>7, <1>8, <1>9, <1>10 DEF ContainerNext, Entry

LEMMA ContainerHolds == ContainerSpec => []ContainerInv
BY ContainerStarts, ContainerStep, PTL DEF ContainerSpec

\* At no time are two links open, a probe's included, whatever fails at
\* whatever point of a cycle, and none is kept through a search or a backoff;
\* those apart which stayed open since their close raised and was only logged.
THEOREM NeverTwoLinks == ContainerSpec => []OneLink
BY ContainerHolds, PTL DEF ContainerInv

\* A file the owner wrote stays and one he deleted stays deleted, through every
\* start, restart and power cut.
THEOREM OwnersFilesStay == ContainerSpec => []YoursAfterwards
<1>1. ContainerInv => YoursAfterwards
  BY DEF ContainerInv, DataInv, OwnersInv
<1>2. QED
  BY <1>1, ContainerHolds, PTL

\* The server runs on the configuration of this very start and on whole files,
\* but for those whose copy, or whose directory's seeding, was cut short.
THEOREM ServersStartWhole == ContainerSpec => []StartsWhole
<1>1. ContainerInv => StartsWhole
  <2> SUFFICES ASSUME ContainerInv, boot = "server" PROVE StartsWhole
    BY DEF StartsWhole
  <2>1. DOMAIN Dirs = {1, 2}
    BY DEF Dirs
  <2>2. \A d \in {1, 2} : Passed(d)
    BY DEF Passed
  <2>3. QED
    BY <2>1, <2>2 DEF ContainerInv, DataInv, ConfigInv, PartsInv, SeedInv, Done,
       StartsWhole
<1>2. QED
  BY <1>1, ContainerHolds, PTL
=============================================================================
