----------------------------- MODULE Directory ------------------------------
(***************************************************************************)
(* How a client comes to list the servers there are: a server puts a       *)
(* marker into the name its radio advertises (_announce_identity) and      *)
(* floods an advert, then one at long intervals (_advert_loop); the radio  *)
(* of a client keeps what it hears in its contact table; the client reads  *)
(* that table (discovery.scan) and listens to what the radio reports       *)
(* meanwhile (_on_advert), and the Shell keeps the list it shows (found).  *)
(*                                                                         *)
(* An advert is the name it carries, "plain" or "marked".  A name that has *)
(* no room for its marker in the 32 bytes of an advert reaches nobody as   *)
(* marked; mark() counts characters.                                       *)
(***************************************************************************)
EXTENDS FiniteSets, Naturals

CONSTANTS
    Nodes,      \* radios with a vagrantNet server on them
    Wide,       \* those whose marked name is longer than the field
    MaxTroubles \* bound: losses of a link, switches of the configuration, and
                \* scans that fail or end before the table was read

ASSUME DirectoryConstants == Wide \subseteq Nodes

VARIABLES
    advertise,  \* the node's configuration
    up,         \* where its connect() stands
    radioName,  \* the name its radio advertises
    air,        \* its advert on the air
    table,      \* the names in the contact table of the client's radio
    known,      \* the names in the client's _contacts; "bare" for a key alone
    scan,       \* discover(): "no", or "yes" while it waits for the contacts
    got,        \* the contacts a scan collected
    live,       \* on_servers_changed is set
    listed,     \* a scan of this client went through
    found,      \* the list the Shell shows
    troubles,
    advertised  \* history: nodes that were ever configured to advertise

nodeVars == <<advertise, up, radioName, air, advertised>>
clientVars == <<table, known, scan, got, live, listed, found>>
directoryVars == <<nodeVars, clientVars, troubles>>

Names == {"none", "bare", "plain", "marked"}
Each(x) == [n \in Nodes |-> x]

DirectoryInit ==
    /\ advertise \in [Nodes -> BOOLEAN]
    /\ up = Each("down") /\ radioName = Each("plain") /\ air = Each("none")
    /\ advertised = {n \in Nodes : advertise[n]}
    /\ table = Each("none") /\ known = Each("none")
    /\ scan = "no" /\ got = Each("none")
    /\ live = FALSE /\ listed = FALSE /\ found = {}
    /\ troubles = 0

Trouble == troubles < MaxTroubles /\ troubles' = troubles + 1

-----------------------------------------------------------------------------
(* The server *)

\* What is read back of a name that was set: the end of a wide one is gone.
Marked(n) == IF n \in Wide THEN "plain" ELSE "marked"

\* _announce_identity: nothing to do for a hidden node, nor when the radio has
\* the wanted name already.
Connects(n) ==
    /\ up[n] = "down"
    /\ up' = [up EXCEPT ![n] =
                IF advertise[n] /\ radioName[n] # "marked" THEN "naming" ELSE "up"]
    /\ UNCHANGED <<advertise, radioName, air, advertised, clientVars, troubles>>

SetsName(n) ==
    /\ up[n] = "naming"
    /\ radioName' = [radioName EXCEPT ![n] = Marked(n)]
    /\ up' = [up EXCEPT ![n] = "flooding"]
    /\ UNCHANGED <<advertise, air, advertised, clientVars, troubles>>

\* The radio turns the name down: the node serves under the old one.
SetNameFails(n) ==
    /\ up[n] = "naming"
    /\ Trouble
    /\ up' = [up EXCEPT ![n] = "up"]
    /\ UNCHANGED <<advertise, radioName, air, advertised, clientVars>>

Floods(n) ==
    /\ up[n] = "flooding"
    /\ air' = [air EXCEPT ![n] = radioName[n]]
    /\ up' = [up EXCEPT ![n] = "up"]
    /\ UNCHANGED <<advertise, radioName, advertised, clientVars, troubles>>

\* Variant: adverts are flooded once, when the name is set.
NeverAgain(n) ==
    /\ up[n] = "up" /\ advertise[n]
    /\ UNCHANGED directoryVars

\* _advert_loop, once its period is over.
FloodsAgain(n) ==
    /\ up[n] = "up" /\ advertise[n]
    /\ air' = [air EXCEPT ![n] = radioName[n]]
    /\ UNCHANGED <<advertise, up, radioName, advertised, clientVars, troubles>>

\* The link fails at any await: the next cycle finds the name set, and the
\* advert that would have told of it is not sent.
LinkFails(n) ==
    /\ up[n] # "down"
    /\ Trouble
    /\ up' = [up EXCEPT ![n] = "down"]
    /\ UNCHANGED <<advertise, radioName, air, advertised, clientVars>>

\* The owner changes advertise_as_server and starts the server again.  Nothing
\* takes the marker off the name.
Switched(n) ==
    /\ Trouble
    /\ advertise' = [advertise EXCEPT ![n] = ~@]
    /\ advertised' = {m \in Nodes : m \in advertised \/ advertise'[m]}
    /\ up' = [up EXCEPT ![n] = "down"]
    /\ UNCHANGED <<radioName, air, clientVars>>

\* A radio adverts by itself, under the name it has.
RadioAdverts(n) ==
    /\ air' = [air EXCEPT ![n] = radioName[n]]
    /\ UNCHANGED <<advertise, up, radioName, advertised, clientVars, troubles>>

-----------------------------------------------------------------------------
(* The client *)

Servers(names) == {n \in Nodes : names[n] = "marked"}

\* Variant: whether the node was known as a server is looked up in the record
\* that has just been renewed.
TellsNobody(n, name) ==
    /\ known' = [known EXCEPT ![n] = name]
    /\ UNCHANGED found

\* _on_advert: the record is renewed, and who listens is told of a node that
\* was not known as a server.
Learns(n, name) ==
    /\ known' = [known EXCEPT ![n] = name]
    /\ found' = IF live /\ name = "marked" /\ known[n] # "marked"
                THEN Servers(known') ELSE found

\* The radio hears an advert.  It reports a contact it did not have with its
\* name (NEW_CONTACT), which a scan collects too, else the key alone.
Hears(n) ==
    /\ air[n] # "none"
    /\ air' = [air EXCEPT ![n] = "none"]
    /\ table' = [table EXCEPT ![n] = air[n]]
    /\ IF table[n] = "none"
       THEN /\ Learns(n, air[n])
            /\ got' = IF scan = "yes" THEN [got EXCEPT ![n] = air[n]] ELSE got
       ELSE /\ Learns(n, IF known[n] = "none" THEN "bare" ELSE known[n])
            /\ UNCHANGED got
    /\ UNCHANGED <<advertise, up, radioName, advertised, scan, live, listed, troubles>>

Misses(n) ==
    /\ air[n] # "none"
    /\ air' = [air EXCEPT ![n] = "none"]
    /\ UNCHANGED <<advertise, up, radioName, advertised, clientVars, troubles>>

\* Shell.discover: the callback is in place before the scan begins.
DiscoverBegins ==
    /\ scan = "no"
    /\ scan' = "yes" /\ got' = Each("none")
    /\ live' = TRUE
    /\ UNCHANGED <<nodeVars, table, known, listed, found, troubles>>

\* NEXT_CONTACT: the radio streams its table.
Streams(n) ==
    /\ scan = "yes"
    /\ table[n] # "none" /\ got[n] # table[n]
    /\ got' = [got EXCEPT ![n] = table[n]]
    /\ UNCHANGED <<nodeVars, table, known, scan, live, listed, found, troubles>>

\* {**old, **collected}
Merged == [n \in Nodes |-> IF got[n] # "none" THEN got[n] ELSE known[n]]

Lists ==
    /\ known' = Merged
    /\ found' = Servers(Merged)
    /\ listed' = TRUE
    /\ scan' = "no" /\ got' = Each("none")
    /\ UNCHANGED <<nodeVars, table, live>>

\* Quiet for two seconds once the table was streamed, or the timeout before.
DiscoverEnds ==
    /\ scan = "yes"
    /\ \A n \in Nodes : got[n] = table[n]
    /\ Lists
    /\ UNCHANGED troubles

DiscoverEndsEarly ==
    /\ scan = "yes"
    /\ Trouble
    /\ Lists

DiscoverRaises ==
    /\ scan = "yes"
    /\ Trouble
    /\ scan' = "no" /\ got' = Each("none")
    /\ UNCHANGED <<nodeVars, table, known, live, listed, found>>

\* Shell.connect: a client without contacts and without a listener, and the
\* list of the one before.
Reconnects ==
    /\ scan = "no"
    /\ Trouble
    /\ known' = Each("none") /\ live' = FALSE /\ listed' = FALSE
    /\ UNCHANGED <<nodeVars, table, scan, got, found>>

DirectoryNext ==
    \/ \E n \in Nodes :
         \/ Connects(n) \/ SetsName(n) \/ SetNameFails(n) \/ Floods(n)
         \/ FloodsAgain(n) \/ LinkFails(n) \/ Switched(n) \/ RadioAdverts(n)
         \/ Hears(n) \/ Misses(n) \/ Streams(n)
    \/ DiscoverBegins \/ DiscoverEnds \/ DiscoverEndsEarly \/ DiscoverRaises
    \/ Reconnects

-----------------------------------------------------------------------------
(* Properties *)

\* The list of the Shell is filled by a scan and by a callback, on contacts two
\* kinds of event renew: once a scan went through, every node the client knows
\* as a server is on it, whatever was heard before, during or after the scan.
\* And README, "only users with the pKey can connect": a node that was never
\* configured to advertise is not.  One that was stays on it for good: its
\* radio keeps the name.
ListIsRight ==
    /\ known \in [Nodes -> Names]
    /\ listed => Servers(known) \subseteq found
    /\ found \subseteq advertised
=============================================================================
