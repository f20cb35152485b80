----------------------------- MODULE ReplyPath ------------------------------
(***************************************************************************)
(* How the server finds the way back to a client: the contact records in   *)
(* _contacts, renewed by what the radio reports (_on_contact) and by the   *)
(* scan every 15 minutes (_contact_refresh_loop), and completed once with  *)
(* the reversed path of an advert (_learn_reply_path), which asks the      *)
(* radio and waits.                                                        *)
(*                                                                         *)
(* Both renewals put a new dict in the place of the old one, a copy with   *)
(* the reported keys on top; a lookup that is under way keeps the dict it  *)
(* found.  gen tells the two apart.  A path is its number of hops: -1 no   *)
(* route, 0 a direct neighbour.                                            *)
(***************************************************************************)
EXTENDS Integers, FiniteSets

CONSTANTS
    Clients,    \* contacts, one per public key
    Hops,       \* hops of a path, > 0
    MaxReports, \* bound: contacts reported
    MaxRequests \* bound: requests received

ASSUME PathConstants == Hops \subseteq Nat \ {0}

NoRoute == -1
Outcomes == {NoRoute} \cup Hops

VARIABLES
    record,     \* _contacts: known, its path, the lookup was made, generation
    lookups,    \* lookups that wait for the radio: client, generation
    reports, requests,
    told,       \* history: paths the radio reported for a client
    learned,    \* history: paths lookups found for a client
    asked       \* history: lookups made for a client

pathVars == <<record, lookups, reports, requests, told, learned, asked>>

PathInit ==
    /\ record = [c \in Clients |->
                   [known |-> FALSE, hops |-> NoRoute, tried |-> FALSE, gen |-> 0]]
    /\ lookups = {}
    /\ reports = 0
    /\ requests = 0
    /\ told = [c \in Clients |-> {}]
    /\ learned = [c \in Clients |-> {}]
    /\ asked = [c \in Clients |-> 0]

\* {**old, **reported}
Renewed(c, h) ==
    record' = [record EXCEPT ![c].known = TRUE, ![c].hops = h,
                             ![c].gen = record[c].gen + 1]

\* The contact as the radio has it: with a stored path, direct, or with none.
ContactReported(c) ==
    /\ reports < MaxReports
    /\ reports' = reports + 1
    /\ \E h \in {NoRoute, 0} \cup Hops :
         /\ Renewed(c, h)
         /\ told' = [told EXCEPT ![c] = @ \cup {h}]
    /\ UNCHANGED <<lookups, requests, learned, asked>>

\* An ADVERTISEMENT names the key and nothing else.
AdvertHeard(c) ==
    /\ reports < MaxReports
    /\ reports' = reports + 1
    /\ Renewed(c, record[c].hops)
    /\ UNCHANGED <<lookups, requests, told, learned, asked>>

\* A request of a contact without a multi-hop path: the first one asks the
\* radio for the path of its advert, and is suspended.
LookupStarts(c) ==
    /\ requests < MaxRequests
    /\ requests' = requests + 1
    /\ record[c].known /\ record[c].hops <= 0 /\ ~record[c].tried
    /\ record' = [record EXCEPT ![c].tried = TRUE]
    /\ lookups' = lookups \cup {[client |-> c, gen |-> record[c].gen]}
    /\ asked' = [asked EXCEPT ![c] = @ + 1]
    /\ UNCHANGED <<reports, told, learned>>

\* Every other request goes on at once.
RequestGoesOn(c) ==
    /\ requests < MaxRequests
    /\ requests' = requests + 1
    /\ record[c].known => record[c].hops > 0 \/ record[c].tried
    /\ UNCHANGED <<record, lookups, reports, told, learned, asked>>

\* Variant: the path goes to whatever client is looked up now.
StoresForAll(l, h) ==
    record' = [c \in Clients |-> IF record[c].gen = l.gen
                                 THEN [record[c] EXCEPT !.hops = h] ELSE record[c]]

\* The path is stored in the dict the lookup found, which a renewal since has
\* taken out of the table.
Stores(l, h) ==
    record' = [record EXCEPT ![l.client].hops =
                 IF record[l.client].gen = l.gen THEN h ELSE @]

\* The radio has an advert path or it has none, or the query raised.
LookupEnds(l) ==
    /\ lookups' = lookups \ {l}
    /\ \E h \in Outcomes :
         IF h = NoRoute THEN UNCHANGED <<record, learned>>
         ELSE Stores(l, h) /\ learned' = [learned EXCEPT ![l.client] = @ \cup {h}]
    /\ UNCHANGED <<reports, requests, told, asked>>

PathNext ==
    \/ \E c \in Clients :
         \/ ContactReported(c)
         \/ AdvertHeard(c)
         \/ LookupStarts(c)
         \/ RequestGoesOn(c)
    \/ \E l \in lookups : LookupEnds(l)

\* _reply_path: the hops a reply takes; 0 is a direct send.
ReplyHops(c) ==
    IF record[c].known /\ record[c].hops > 0 THEN record[c].hops ELSE 0

-----------------------------------------------------------------------------
(* Properties *)

\* A reply goes direct or along a path that was reported or looked up for that
\* very client, however renewals and lookups of several clients overlap; and
\* _learn_reply_path asks the radio "once", though renewals replace the record
\* that says so.
ReplyPathIsItsOwn ==
    \A c \in Clients :
      /\ ReplyHops(c) > 0 => ReplyHops(c) \in told[c] \cup learned[c]
      /\ asked[c] <= 1 /\ (asked[c] = 1 <=> record[c].tried)
=============================================================================
