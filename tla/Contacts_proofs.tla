--------------------------- MODULE Contacts_proofs ---------------------------
(***************************************************************************)
(* Proofs about the two tables of contacts: replies go on the path of      *)
(* their own client, and the list of servers is right, for any number of   *)
(* clients, nodes, reports, lookups and failures.                          *)
(***************************************************************************)
EXTENDS Contacts, TLAPS

-----------------------------------------------------------------------------
(* The server's table *)

Records == [known : BOOLEAN, hops : {NoRoute, 0} \cup Hops, tried : BOOLEAN, gen : Nat]
Lookup == [client : Clients, gen : Nat]

PathTypes ==
    /\ record \in [Clients -> Records]
    /\ lookups \subseteq Lookup
    /\ told \in [Clients -> SUBSET ({NoRoute, 0} \cup Hops)]
    /\ learned \in [Clients -> SUBSET Hops]
    /\ asked \in [Clients -> {0, 1}]

\* What the table knows of a client was reported or found for it; the one
\* lookup there may be of it is the one its record tells of.
PathInv ==
    /\ PathTypes
    /\ \A c \in Clients :
         /\ record[c].hops \in {NoRoute, 0} \cup told[c] \cup learned[c]
         /\ asked[c] = 1 <=> record[c].tried

LEMMA PathStarts == PathInit => PathInv
BY DEF PathInit, PathInv, PathTypes, Records, Lookup, NoRoute

LEMMA PathStep == PathInv /\ [PathNext]_pathVars => PathInv'
<1> SUFFICES ASSUME PathInv, [PathNext]_pathVars PROVE PathInv'
  OBVIOUS
<1> USE DEF PathInv, PathTypes
<1>1. ASSUME NEW c \in Clients, ContactReported(c) PROVE PathInv'
  BY <1>1 DEF ContactReported, Renewed, Records
<1>2. ASSUME NEW c \in Clients, AdvertHeard(c) PROVE PathInv'
  BY <1>2 DEF AdvertHeard, Renewed, Records
<1>3. ASSUME NEW c \in Clients, LookupStarts(c) PROVE PathInv'
  <2>1. PathTypes'
    <3>1. record' \in [Clients -> Records]
      <4>1. record' = [record EXCEPT ![c] = [record[c] EXCEPT !.tried = TRUE]]
        BY <1>3 DEF LookupStarts
      <4>2. [record[c] EXCEPT !.tried = TRUE] \in Records
        BY DEF Records
      <4>3. QED
        BY <4>1, <4>2
    <3>2. lookups' \subseteq Lookup
      BY <1>3 DEF LookupStarts, Records, Lookup
    <3>3. asked[c] = 0
      BY <1>3 DEF LookupStarts
    <3>4. asked' \in [Clients -> {0, 1}]
      BY <1>3, <3>3 DEF LookupStarts
    <3>5. QED
      BY <1>3, <3>1, <3>2, <3>4 DEF LookupStarts
  <2>2. QED
    BY <1>3, <2>1 DEF LookupStarts, Records
<1>4. ASSUME NEW c \in Clients, RequestGoesOn(c) PROVE PathInv'
  BY <1>4 DEF RequestGoesOn
<1>5. ASSUME NEW l \in lookups, LookupEnds(l) PROVE PathInv'
  <2>1. l.client \in Clients /\ lookups' \subseteq Lookup
    BY <1>5 DEF LookupEnds, Lookup
  <2>2. CASE UNCHANGED <<record, learned>>
    BY <1>5, <2>1, <2>2 DEF LookupEnds
  <2>3. ASSUME NEW h \in Hops, Stores(l, h),
               learned' = [learned EXCEPT ![l.client] = @ \cup {h}]
        PROVE  PathInv'
    <3>1. record' \in [Clients -> Records]
      BY <2>1, <2>3 DEF Stores, Records
    <3>2. \A c \in Clients : record'[c].tried = record[c].tried
      BY <2>1, <2>3 DEF Stores, Records
    <3>3. learned' \in [Clients -> SUBSET Hops]
      BY <2>1, <2>3
    <3>4. \A c \in Clients : record'[c].hops \in {record[c].hops} \cup learned'[c]
      BY <2>1, <2>3 DEF Stores, Records
    <3>5. \A c \in Clients : learned[c] \subseteq learned'[c]
      BY <2>1, <2>3
    <3>6. UNCHANGED <<told, asked>>
      BY <1>5 DEF LookupEnds
    <3>7. QED
      BY <2>1, <3>1, <3>2, <3>3, <3>4, <3>5, <3>6
  <2>4. QED
    BY <1>5, <2>2, <2>3 DEF LookupEnds, Outcomes
<1>6. CASE UNCHANGED pathVars
  BY <1>6 DEF pathVars
<1>7. QED
  BY <1>1, <1>2, <1>3, <1>4, <1>5, <1>6 DEF PathNext

-----------------------------------------------------------------------------
(* The client's table *)

DirectoryTypes ==
    /\ advertise \in [Nodes -> BOOLEAN]
    /\ up \in [Nodes -> {"down", "naming", "flooding", "up"}]
    /\ radioName \in [Nodes -> Names] /\ air \in [Nodes -> Names]
    /\ table \in [Nodes -> Names] /\ known \in [Nodes -> Names]
    /\ got \in [Nodes -> Names]
    /\ scan \in {"no", "yes"} /\ live \in BOOLEAN /\ listed \in BOOLEAN

\* A marker is nowhere, from the radio's name to the list, but on a node that
\* was configured to advertise.
MarkersAreMeant ==
    \A n \in Nodes :
      (\/ advertise[n] \/ up[n] = "naming"
       \/ "marked" \in {radioName[n], air[n], table[n], known[n], got[n]}
       \/ n \in found)
         => n \in advertised

\* The callback is in place from the first scan on, and since a scan went
\* through the list has every server that is known.
ListKeepsUp ==
    /\ found \subseteq Nodes
    /\ scan = "yes" => live
    /\ listed => live /\ Servers(known) \subseteq found

DirectoryInv == DirectoryTypes /\ MarkersAreMeant /\ ListKeepsUp

LEMMA DirectoryStarts == DirectoryInit => DirectoryInv
<1> SUFFICES ASSUME DirectoryInit PROVE DirectoryInv
  OBVIOUS
<1>1. DirectoryTypes
  BY DEF DirectoryInit, DirectoryTypes, Each, Names
<1>2. MarkersAreMeant
  BY DEF DirectoryInit, MarkersAreMeant, Each
<1>3. ListKeepsUp
  BY DEF DirectoryInit, ListKeepsUp
<1>4. QED
  BY <1>1, <1>2, <1>3 DEF DirectoryInv

\* Steps of a server and its radio change nothing the client holds.
LEMMA ServerStep ==
    ASSUME DirectoryInv, NEW n \in Nodes,
           \/ Connects(n) \/ SetsName(n) \/ SetNameFails(n) \/ Floods(n)
           \/ FloodsAgain(n) \/ LinkFails(n) \/ Switched(n) \/ RadioAdverts(n)
           \/ Misses(n)
    PROVE  DirectoryInv'
<1> USE DEF DirectoryInv, Names
<1>1. UNCHANGED clientVars
  BY DEF Connects, SetsName, SetNameFails, Floods, FloodsAgain, LinkFails, Switched,
     RadioAdverts, Misses, clientVars
<1>2. DirectoryTypes'
  BY <1>1 DEF DirectoryTypes, clientVars, Connects, SetsName, SetNameFails, Floods,
     FloodsAgain, LinkFails, Switched, RadioAdverts, Misses, Marked
<1>3. MarkersAreMeant'
  BY <1>1 DEF DirectoryTypes, MarkersAreMeant, clientVars, Connects, SetsName,
     SetNameFails, Floods, FloodsAgain, LinkFails, Switched, RadioAdverts, Misses,
     Marked
<1>4. ListKeepsUp'
  BY <1>1 DEF ListKeepsUp, clientVars, Servers
<1>5. QED
  BY <1>2, <1>3, <1>4

\* A renewed record: the list follows it.
LEMMA LearnsKeeps ==
    ASSUME DirectoryInv, NEW n \in Nodes, NEW name \in Names, Learns(n, name),
           name = "marked" => n \in advertised
    PROVE  /\ known' \in [Nodes -> Names]
           /\ \A m \in Nodes : known'[m] = "marked" => m \in advertised
           /\ found' \subseteq advertised /\ found' \subseteq Nodes
           /\ listed => Servers(known') \subseteq found'
BY DEF DirectoryInv, DirectoryTypes, MarkersAreMeant, ListKeepsUp, Learns, Servers

LEMMA HearsStep ==
    ASSUME DirectoryInv, NEW n \in Nodes, Hears(n) PROVE DirectoryInv'
<1> DEFINE name == IF table[n] = "none" THEN air[n]
                   ELSE IF known[n] = "none" THEN "bare" ELSE known[n]
<1>1. /\ name \in Names /\ Learns(n, name)
      /\ name = "marked" => n \in advertised
  BY DEF Hears, DirectoryInv, DirectoryTypes, MarkersAreMeant, Names
<1>2. /\ known' \in [Nodes -> Names]
      /\ \A m \in Nodes : known'[m] = "marked" => m \in advertised
      /\ found' \subseteq advertised /\ found' \subseteq Nodes
      /\ listed => Servers(known') \subseteq found'
  BY <1>1, LearnsKeeps
<1>3. /\ air' \in [Nodes -> Names] /\ table' \in [Nodes -> Names]
      /\ got' \in [Nodes -> Names]
      /\ \A m \in Nodes : /\ air'[m] = "marked" => m \in advertised
                          /\ table'[m] = "marked" => m \in advertised
                          /\ got'[m] = "marked" => m \in advertised
  BY DEF Hears, DirectoryInv, DirectoryTypes, MarkersAreMeant, Names
<1>4. UNCHANGED <<advertise, up, radioName, advertised, scan, live, listed>>
  BY DEF Hears
<1>5. QED
  BY <1>2, <1>3, <1>4 DEF DirectoryInv, DirectoryTypes, MarkersAreMeant,
     ListKeepsUp, Servers

\* What a scan collected is merged, and the list made anew.
LEMMA ListsStep == ASSUME DirectoryInv, scan = "yes", Lists PROVE DirectoryInv'
<1>1. Merged \in [Nodes -> Names]
  BY DEF Merged, DirectoryInv, DirectoryTypes
<1>2. \A m \in Nodes : Merged[m] = "marked" => m \in advertised
  BY DEF Merged, DirectoryInv, DirectoryTypes, MarkersAreMeant
<1>3. QED
  BY <1>1, <1>2 DEF Lists, DirectoryInv, DirectoryTypes, MarkersAreMeant,
     ListKeepsUp, Servers, nodeVars, Each, Names

LEMMA DirectoryStep == DirectoryInv /\ [DirectoryNext]_directoryVars => DirectoryInv'
<1> SUFFICES ASSUME DirectoryInv, [DirectoryNext]_directoryVars PROVE DirectoryInv'
  OBVIOUS
<1> USE DEF DirectoryInv, DirectoryTypes, MarkersAreMeant, ListKeepsUp, nodeVars, Servers
<1>1. ASSUME NEW n \in Nodes, Streams(n) PROVE DirectoryInv'
  BY <1>1 DEF Streams
<1>2. CASE DiscoverBegins
  BY <1>2 DEF DiscoverBegins, Each, Names
<1>3. CASE DiscoverEnds \/ DiscoverEndsEarly
  BY <1>3, ListsStep DEF DiscoverEnds, DiscoverEndsEarly
<1>4. CASE DiscoverRaises
  BY <1>4 DEF DiscoverRaises, Each, Names
<1>5. CASE Reconnects
  BY <1>5 DEF Reconnects, Each, Names
<1>6. CASE UNCHANGED directoryVars
  BY <1>6 DEF directoryVars, clientVars
<1>7. QED
  BY <1>1, <1>2, <1>3, <1>4, <1>5, <1>6, ServerStep, HearsStep DEF DirectoryNext

-----------------------------------------------------------------------------
(* Both *)

LEMMA BothHold == Spec => [](PathInv /\ DirectoryInv)
<1>1. Init => PathInv /\ DirectoryInv
  BY PathStarts, DirectoryStarts DEF Init
<1>2. [Next]_vars => [PathNext]_pathVars /\ [DirectoryNext]_directoryVars
  BY DEF Next, Replies, Discovery, vars
<1>3. QED
  BY <1>1, <1>2, PathStep, DirectoryStep, PTL DEF Spec

\* Replies go direct or along a path that was reported or looked up for that
\* client, and each client's path is asked for once at most.
THEOREM RepliesTakeTheirPath == Spec => []ReplyPathIsItsOwn
<1>1. PathInv => ReplyPathIsItsOwn
  BY PathConstants DEF PathInv, PathTypes, ReplyPathIsItsOwn, ReplyHops, NoRoute
<1>2. QED
  BY <1>1, BothHold, PTL

\* Once a scan went through, the list holds every server the client knows, and
\* never a node that was not configured to advertise.
THEOREM TheListIsRight == Spec => []ListIsRight
<1>1. DirectoryInv => ListIsRight
  BY DEF DirectoryInv, DirectoryTypes, MarkersAreMeant, ListKeepsUp, ListIsRight
<1>2. QED
  BY <1>1, BothHold, PTL
=============================================================================
