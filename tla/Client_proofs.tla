---------------------------- MODULE Client_proofs ----------------------------
(***************************************************************************)
(* Proofs about what a client remembers: a mark of what was read hides no  *)
(* post of its server, and what a client alone was told is in the file,    *)
(* for any number of clients of one file, names, servers and pages asked   *)
(* for, and wherever a process ends or a save fails.  And about the link   *)
(* each client has beside its configuration, which it neither reads nor    *)
(* writes.                                                                 *)
(***************************************************************************)
EXTENDS Client, TLAPS

-----------------------------------------------------------------------------
(* A step of a client is one of its file or of its link *)

LEMMA StepOfBoth == [Next]_vars => [StateNext]_stateVars /\ [LinkNext]_linkVars
BY DEF Next, State, InLink, vars

LEMMA StateHalf == Spec => StateSpec
<1>1. Init => StateInit
  BY DEF Init
<1>2. QED
  BY <1>1, StepOfBoth, PTL DEF Spec, StateSpec

LEMMA LinkHalf == Spec => LinkSpec
<1>1. Init => LinkInit
  BY DEF Init
<1>2. QED
  BY <1>1, StepOfBoth, PTL DEF Spec, LinkSpec

-----------------------------------------------------------------------------
(* Types *)

Requests == [typed : Typed, key : Keys, seq : 0 .. MaxPosts]

\* Only a process that runs saves or waits for a page.
StateTypes ==
    /\ file \in {Absent, Torn} \cup Configs
    /\ mem \in [Processes -> {Off} \cup Configs]
    /\ saving \in [Processes -> {"no", "open", "over"}]
    /\ asked \in [Processes -> SUBSET Requests]
    /\ posts \in [Keys -> 1 .. MaxPosts]
    /\ alone \in [Processes -> BOOLEAN] /\ spoilt \in BOOLEAN
    /\ \A p \in Processes : ~Runs(p) => saving[p] = "no" /\ asked[p] = {}

\* A mark is not beyond the last post of the server it is used for, unless the
\* name is one of those that stood for several.
MarksOK(config, last, several) ==
    \A t \in Typed \ several :
      Resolve(config, t) \in Keys => config.seen[t] <= last[Resolve(config, t)]

\* Nor is the mark a page will set, which is that of the server the page was
\* asked from: the name has no other since.
AskedOK(config, a, last, several) ==
    /\ a.seq <= last[a.key]
    /\ a.typed \notin several /\ Resolve(config, a.typed) \in Keys
         => Resolve(config, a.typed) = a.key

MarkInv ==
    /\ StateTypes
    /\ file \in Configs => MarksOK(file, posts, repointed)
    /\ \A p \in Processes : Runs(p) =>
         /\ MarksOK(mem[p], posts, repointed)
         /\ \A a \in asked[p] : AskedOK(mem[p], a, posts, repointed)

\* As long as nothing was spoilt, one process saves at a time, and one that
\* runs alone is the only one that runs.
SaveInv ==
    /\ StateTypes
    /\ \A p, q \in Processes : alone[p] /\ Runs(q) => p = q
    /\ ~spoilt =>
         /\ \A p, q \in Processes : saving[p] # "no" /\ saving[q] # "no" => p = q
         /\ \A p \in Processes : saving[p] # "over"
         /\ (\A p \in Processes : saving[p] = "no") => file # Torn
         /\ \A p \in Processes : Free(p) /\ alone[p] /\ file # Absent => file = mem[p]

-----------------------------------------------------------------------------
(* Configurations *)

LEMMA RunsIs ==
    ASSUME StateTypes, NEW p \in Processes
    PROVE  Runs(p) <=> mem[p] \in Configs
BY StateConstants DEF StateTypes, Runs

LEMMA ConfigChanges ==
    ASSUME NEW c \in Configs
    PROVE  /\ \A n \in Names, k \in Keys \cup {"none"} :
                [c EXCEPT !.servers[n] = k] \in Configs
           /\ \A t \in Typed, m \in 0 .. MaxPosts : [c EXCEPT !.seen[t] = m] \in Configs
           /\ \A t \in Typed : /\ [c EXCEPT !.favorites = @ \cup {t}] \in Configs
                               /\ [c EXCEPT !.favorites = @ \ {t}] \in Configs
BY DEF Configs

LEMMA EmptyIsConfig == Empty \in Configs
BY StateConstants DEF Empty, Configs

\* Posts come, and names may turn out to stand for several servers.
LEMMA MarksLater ==
    ASSUME NEW last \in [Keys -> Nat], NEW more \in [Keys -> Nat],
           \A k \in Keys : last[k] <= more[k],
           NEW several, NEW others, several \subseteq others,
           NEW c \in Configs
    PROVE  /\ MarksOK(c, last, several) => MarksOK(c, more, others)
           /\ \A a \in Requests :
                AskedOK(c, a, last, several) => AskedOK(c, a, more, others)
<1>1. ASSUME MarksOK(c, last, several), NEW t \in Typed \ others,
             Resolve(c, t) \in Keys
      PROVE  c.seen[t] <= more[Resolve(c, t)]
  <2>1. c.seen[t] <= last[Resolve(c, t)]
    BY <1>1 DEF MarksOK
  <2>2. last[Resolve(c, t)] \in Nat /\ more[Resolve(c, t)] \in Nat
        /\ last[Resolve(c, t)] <= more[Resolve(c, t)]
    BY <1>1
  <2>3. c.seen[t] \in 0 .. MaxPosts
    BY DEF Configs
  <2>4. QED
    BY <2>1, <2>2, <2>3, StateConstants
<1>2. ASSUME NEW a \in Requests, AskedOK(c, a, last, several)
      PROVE  AskedOK(c, a, more, others)
  <2>1. a.key \in Keys /\ a.seq \in Nat
    BY StateConstants DEF Requests
  <2>2. last[a.key] \in Nat /\ more[a.key] \in Nat /\ last[a.key] <= more[a.key]
    BY <2>1
  <2>3. QED
    BY <1>2, <2>1, <2>2 DEF AskedOK
<1>3. QED
  BY <1>1, <1>2 DEF MarksOK

LEMMA MarksStart == StateInit => MarkInv
<1> SUFFICES ASSUME StateInit PROVE MarkInv
  OBVIOUS
<1>1. 1 \in 1 .. MaxPosts
  BY StateConstants
<1>2. StateTypes
  BY <1>1 DEF StateInit, StateTypes, Runs
<1>3. file \notin Configs /\ \A p \in Processes : ~Runs(p)
  BY StateConstants DEF StateInit, Runs
<1>4. QED
  BY <1>2, <1>3 DEF MarkInv

-----------------------------------------------------------------------------
(* Steps that change one process *)

\* What is the same for every step but a post: one process changes, the others
\* and the file as the invariant wants it.
LEMMA OneChanges ==
    ASSUME MarkInv, StateTypes', UNCHANGED posts,
           NEW p \in Processes, repointed \subseteq repointed',
           \/ file' = file
           \/ file' = Torn
           \/ \E q \in Processes : Runs(q) /\ file' = mem[q],
           \A q \in Processes \ {p} : mem'[q] = mem[q] /\ asked'[q] = asked[q],
           mem'[p] # Off =>
             /\ MarksOK(mem'[p], posts, repointed')
             /\ \A a \in asked'[p] : AskedOK(mem'[p], a, posts, repointed')
    PROVE  MarkInv'
<1>1. posts \in [Keys -> Nat] /\ \A k \in Keys : posts[k] <= posts[k]
  BY StateConstants DEF MarkInv, StateTypes
<1>2. \A c \in Configs : MarksOK(c, posts, repointed) => MarksOK(c, posts, repointed')
  BY <1>1, MarksLater
<1>3. \A c \in Configs, a \in Requests :
        AskedOK(c, a, posts, repointed) => AskedOK(c, a, posts, repointed')
  BY <1>1, MarksLater
<1>4. file' \in Configs => MarksOK(file', posts', repointed')
  <2>1. Torn \notin Configs
    BY StateConstants
  <2>2. \A q \in Processes : Runs(q) => MarksOK(mem[q], posts, repointed)
    BY DEF MarkInv
  <2>3. file \in Configs => MarksOK(file, posts, repointed)
    BY DEF MarkInv
  <2>4. file' \in Configs => MarksOK(file', posts, repointed)
    BY <2>1, <2>2, <2>3
  <2>5. QED
    BY <1>2, <2>4
<1>5. ASSUME NEW q \in Processes, mem'[q] # Off
      PROVE  /\ MarksOK(mem'[q], posts', repointed')
             /\ \A a \in asked'[q] : AskedOK(mem'[q], a, posts', repointed')
  <2>1. CASE q = p
    BY <1>5, <2>1
  <2>2. CASE q # p
    <3>1. mem'[q] = mem[q] /\ asked'[q] = asked[q] /\ Runs(q)
      BY <1>5, <2>2 DEF Runs
    <3>2. mem[q] \in Configs /\ asked[q] \subseteq Requests
      BY <3>1, RunsIs DEF MarkInv, StateTypes
    <3>3. MarksOK(mem[q], posts, repointed)
          /\ \A a \in asked[q] : AskedOK(mem[q], a, posts, repointed)
      BY <3>1 DEF MarkInv
    <3>4. QED
      BY <1>2, <1>3, <3>1, <3>2, <3>3
  <2>3. QED
    BY <2>1, <2>2
<1>6. QED
  BY <1>4, <1>5 DEF MarkInv, Runs

\* A change that is to be saved.
LEMMA SavesTypes ==
    ASSUME StateTypes, NEW p \in Processes, NEW c \in Configs, Free(p), Saves(p, c),
           UNCHANGED <<posts, alone>>,
           asked' \in [Processes -> SUBSET Requests],
           \A q \in Processes \ {p} : asked'[q] = asked[q]
    PROVE  /\ StateTypes' /\ mem'[p] = c
           /\ \A q \in Processes \ {p} : mem'[q] = mem[q]
<1>1. mem' = [mem EXCEPT ![p] = c] /\ saving' = [saving EXCEPT ![p] = "open"]
      /\ file' = Torn /\ spoilt' \in BOOLEAN
  BY DEF Saves
<1>2. mem' \in [Processes -> {Off} \cup Configs]
      /\ saving' \in [Processes -> {"no", "open", "over"}]
      /\ mem'[p] = c /\ mem'[p] # Off
      /\ \A q \in Processes \ {p} : mem'[q] = mem[q] /\ saving'[q] = saving[q]
  BY <1>1, StateConstants DEF StateTypes
<1>3. \A q \in Processes : ~Runs(q)' => saving'[q] = "no" /\ asked'[q] = {}
  BY <1>2 DEF StateTypes, Runs
<1>4. QED
  BY <1>1, <1>2, <1>3 DEF StateTypes

LEMMA ChangeKeepsMarks ==
    ASSUME MarkInv, NEW p \in Processes, NEW c \in Configs, Free(p), Saves(p, c),
           UNCHANGED <<posts, alone, asked>>, repointed \subseteq repointed',
           MarksOK(c, posts, repointed'),
           \A a \in asked[p] : AskedOK(c, a, posts, repointed')
    PROVE  MarkInv'
<1>1. asked' \in [Processes -> SUBSET Requests]
  BY DEF MarkInv, StateTypes
<1>2. /\ StateTypes' /\ mem'[p] = c
      /\ \A q \in Processes \ {p} : mem'[q] = mem[q]
  BY <1>1, SavesTypes DEF MarkInv
<1>3. file' = Torn
  BY DEF Saves
<1>4. QED
  BY <1>2, <1>3, OneChanges

\* What a process that runs knows of its marks.
LEMMA RunningOK ==
    ASSUME MarkInv, NEW p \in Processes, Runs(p)
    PROVE  /\ mem[p] \in Configs /\ asked[p] \subseteq Requests
           /\ MarksOK(mem[p], posts, repointed)
           /\ \A a \in asked[p] : AskedOK(mem[p], a, posts, repointed)
BY RunsIs DEF MarkInv, StateTypes

LEMMA ConnectKeepsMarks ==
    ASSUME MarkInv, NEW p \in Processes, Connect(p) PROVE MarkInv'
BY RunningOK, ChangeKeepsMarks DEF Connect, Command, Free

\* A favourite is no mark.
LEMMA FavoritesKeepMarks ==
    ASSUME MarkInv, NEW p \in Processes, NEW t \in Typed,
           AddFavorite(p, t) \/ RemoveFavorite(p, t)
    PROVE  MarkInv'
<1>1. Free(p) /\ Runs(p) /\ UNCHANGED <<asked, posts, alone, repointed>>
  BY DEF AddFavorite, RemoveFavorite, Command, Free
<1>2. mem[p] \in Configs
  BY <1>1, RunningOK
<1>3. PICK c \in Configs : /\ Saves(p, c)
                           /\ c.servers = mem[p].servers /\ c.seen = mem[p].seen
  <2>1. ASSUME NEW d \in Configs
        PROVE  /\ [d EXCEPT !.favorites = @ \cup {t}].servers = d.servers
               /\ [d EXCEPT !.favorites = @ \cup {t}].seen = d.seen
               /\ [d EXCEPT !.favorites = @ \ {t}].servers = d.servers
               /\ [d EXCEPT !.favorites = @ \ {t}].seen = d.seen
    BY DEF Configs
  <2>2. QED
    BY <1>2, <2>1, ConfigChanges DEF AddFavorite, RemoveFavorite
<1>4. MarksOK(c, posts, repointed)
      /\ \A a \in asked[p] : AskedOK(c, a, posts, repointed)
  BY <1>1, <1>3, RunningOK DEF MarksOK, AskedOK, Resolve
<1>5. QED
  BY <1>1, <1>3, <1>4, ChangeKeepsMarks

\* A name whose server is gone resolves to nothing that could be asked.
LEMMA RemoveServerKeepsMarks ==
    ASSUME MarkInv, NEW p \in Processes, NEW n \in Names, RemoveServer(p, n)
    PROVE  MarkInv'
<1>1. Free(p) /\ Runs(p) /\ UNCHANGED <<asked, posts, alone, repointed>>
  BY DEF RemoveServer, Command, Free
<1>2. mem[p] \in Configs /\ asked[p] \subseteq Requests
  BY <1>1, RunningOK
<1>3. PICK c : c = [mem[p] EXCEPT !.servers[n] = "none"]
  OBVIOUS
<1>4. c \in Configs /\ Saves(p, c)
  BY <1>2, <1>3, ConfigChanges DEF RemoveServer
<1>5. /\ c.seen = mem[p].seen /\ c.servers[n] = "none"
      /\ \A m \in Names \ {n} : c.servers[m] = mem[p].servers[m]
  BY <1>2, <1>3 DEF Configs
<1>6. \A t \in Typed : \/ Resolve(c, t) = Resolve(mem[p], t)
                       \/ Resolve(c, t) \notin Keys
  BY <1>5, StateConstants DEF Resolve
<1>7. MarksOK(c, posts, repointed)
  BY <1>1, <1>5, <1>6, RunningOK DEF MarksOK
<1>8. \A a \in asked[p] : AskedOK(c, a, posts, repointed)
  BY <1>1, <1>2, <1>6, RunningOK DEF AskedOK, Requests
<1>9. QED
  BY <1>1, <1>4, <1>7, <1>8, ChangeKeepsMarks

\* A name that is saved anew stands for one server still when nothing of
\* another is left: no key, no page on its way and no mark.
LEMMA AddServerKeepsMarks ==
    ASSUME MarkInv, NEW p \in Processes, NEW n \in Names, NEW k \in Keys, AddServer(p, n, k)
    PROVE  MarkInv'
<1>1. Free(p) /\ Runs(p) /\ UNCHANGED <<asked, posts, alone>>
      /\ repointed \subseteq repointed'
  BY DEF AddServer, Command, Free
<1>2. mem[p] \in Configs /\ asked[p] \subseteq Requests
  BY <1>1, RunningOK
<1>3. PICK c : c = [mem[p] EXCEPT !.servers[n] = k]
  OBVIOUS
<1>4. c \in Configs /\ Saves(p, c)
  BY <1>2, <1>3, ConfigChanges DEF AddServer
<1>5. /\ c.seen = mem[p].seen /\ c.servers[n] = k
      /\ \A m \in Names \ {n} : c.servers[m] = mem[p].servers[m]
  BY <1>2, <1>3 DEF Configs
<1>6. \A t \in Typed \ {n} : Resolve(c, t) = Resolve(mem[p], t)
  BY <1>5 DEF Resolve
<1>7. Resolve(c, n) = k
  BY <1>5, StateConstants DEF Resolve
<1>8. ASSUME n \notin repointed'
      PROVE  /\ mem[p].servers[n] \in {k, "none"}
             /\ mem[p].servers[n] = "none" => ~(mem[p].seen[n] > 0)
             /\ \A a \in asked[p] : a.typed = n => a.key = k
  BY <1>8 DEF AddServer
<1>9. MarksOK(c, posts, repointed')
  <2> SUFFICES ASSUME NEW t \in Typed \ repointed', Resolve(c, t) \in Keys
               PROVE  c.seen[t] <= posts[Resolve(c, t)]
    BY DEF MarksOK
  <2>0. t \notin repointed
    BY <1>1
  <2>1. CASE t # n
    BY <1>1, <1>5, <1>6, <2>0, <2>1, RunningOK DEF MarksOK
  <2>2. CASE t = n /\ mem[p].servers[n] = k
    <3>1. Resolve(mem[p], n) = k
      BY <2>2, StateConstants DEF Resolve
    <3>2. QED
      BY <1>1, <1>5, <1>7, <2>0, <2>2, <3>1, RunningOK DEF MarksOK
  <2>3. CASE t = n /\ mem[p].servers[n] = "none"
    <3>1. mem[p].seen[n] \in 0 .. MaxPosts /\ posts[k] \in 1 .. MaxPosts
      BY <1>2 DEF Configs, Typed, MarkInv, StateTypes
    <3>2. ~(mem[p].seen[n] > 0)
      BY <1>8, <2>3
    <3>3. QED
      BY <1>5, <1>7, <2>3, <3>1, <3>2, StateConstants
  <2>4. QED
    BY <1>8, <2>1, <2>2, <2>3
<1>10. ASSUME NEW a \in asked[p] PROVE AskedOK(c, a, posts, repointed')
  <2>1. AskedOK(mem[p], a, posts, repointed) /\ a.typed \in Typed
    BY <1>1, <1>2, RunningOK DEF Requests
  <2>2. CASE a.typed = n
    BY <1>7, <1>8, <2>1, <2>2 DEF AskedOK
  <2>3. CASE a.typed # n
    BY <1>1, <1>6, <2>1, <2>3 DEF AskedOK
  <2>4. QED
    BY <2>2, <2>3
<1>11. QED
  BY <1>1, <1>4, <1>9, <1>10, ChangeKeepsMarks

-----------------------------------------------------------------------------
(* The pages *)

LEMMA AskKeepsMarks ==
    ASSUME MarkInv, NEW p \in Processes, NEW t \in Typed, Ask(p, t) PROVE MarkInv'
<1>1. Runs(p) /\ UNCHANGED <<file, mem, saving, posts, alone, spoilt, repointed>>
  BY DEF Ask, Command, Free, history
<1>2. PICK a : a = [typed |-> t, key |-> Resolve(mem[p], t), seq |-> 0]
  OBVIOUS
<1>3. a \in Requests /\ a.typed = t /\ a.key = Resolve(mem[p], t) /\ a.seq = 0
  BY <1>2, StateConstants DEF Ask, Requests
<1>4. asked' = [asked EXCEPT ![p] = @ \cup {a}]
  BY <1>2 DEF Ask
<1>5. asked' \in [Processes -> SUBSET Requests] /\ asked'[p] = asked[p] \cup {a}
      /\ \A q \in Processes \ {p} : asked'[q] = asked[q]
  BY <1>3, <1>4 DEF MarkInv, StateTypes
<1>6. StateTypes'
  BY <1>1, <1>5 DEF MarkInv, StateTypes, Runs
<1>7. posts[a.key] \in Nat
  BY <1>3, StateConstants DEF MarkInv, StateTypes, Requests
<1>8. AskedOK(mem[p], a, posts, repointed)
  BY <1>3, <1>7 DEF AskedOK
<1>9. MarksOK(mem'[p], posts, repointed')
      /\ \A b \in asked'[p] : AskedOK(mem'[p], b, posts, repointed')
  BY <1>1, <1>5, <1>8, RunningOK
<1>10. QED
  BY <1>1, <1>5, <1>6, <1>9, OneChanges

\* The page says the number of the last post of the server that rendered it.
LEMMA RenderedKeepsMarks ==
    ASSUME MarkInv, NEW p \in Processes, NEW a \in asked[p], Rendered(p, a)
    PROVE  MarkInv'
<1>1. UNCHANGED <<file, mem, saving, posts, alone, spoilt, repointed>>
  BY DEF Rendered, history
<1>2. a \in Requests /\ asked[p] # {} /\ Runs(p)
  BY DEF MarkInv, StateTypes
<1>3. PICK b : b = [a EXCEPT !.seq = posts[a.key]]
  OBVIOUS
<1>4. posts[a.key] \in 0 .. MaxPosts
  BY <1>2, StateConstants DEF MarkInv, StateTypes, Requests
<1>5. b \in Requests /\ b.typed = a.typed /\ b.key = a.key /\ b.seq = posts[a.key]
  BY <1>2, <1>3, <1>4 DEF Requests
<1>6. asked' = [asked EXCEPT ![p] = (@ \ {a}) \cup {b}]
  BY <1>3 DEF Rendered
<1>7. asked' \in [Processes -> SUBSET Requests]
      /\ asked'[p] = (asked[p] \ {a}) \cup {b}
      /\ \A q \in Processes \ {p} : asked'[q] = asked[q]
  BY <1>5, <1>6 DEF MarkInv, StateTypes
<1>8. StateTypes'
  BY <1>1, <1>2, <1>7 DEF MarkInv, StateTypes, Runs
<1>9. AskedOK(mem[p], a, posts, repointed)
  BY <1>2, RunningOK
<1>10. AskedOK(mem[p], b, posts, repointed)
  BY <1>4, <1>5, <1>9 DEF AskedOK
<1>11. MarksOK(mem'[p], posts, repointed')
       /\ \A d \in asked'[p] : AskedOK(mem'[p], d, posts, repointed')
  BY <1>1, <1>2, <1>7, <1>10, RunningOK
<1>12. QED
  BY <1>1, <1>7, <1>8, <1>11, OneChanges

LEMMA DroppedKeepsMarks ==
    ASSUME MarkInv, NEW p \in Processes, NEW a \in asked[p],
           asked' = [asked EXCEPT ![p] = @ \ {a}],
           UNCHANGED <<file, mem, saving, posts, alone, spoilt, repointed>>
    PROVE  MarkInv'
<1>1. Runs(p)
  BY DEF MarkInv, StateTypes
<1>2. asked' \in [Processes -> SUBSET Requests] /\ asked'[p] \subseteq asked[p]
      /\ \A q \in Processes \ {p} : asked'[q] = asked[q]
  BY DEF MarkInv, StateTypes
<1>3. StateTypes'
  BY <1>1, <1>2 DEF MarkInv, StateTypes, Runs
<1>4. MarksOK(mem'[p], posts, repointed')
      /\ \A b \in asked'[p] : AskedOK(mem'[p], b, posts, repointed')
  BY <1>1, <1>2, RunningOK
<1>5. QED
  BY <1>2, <1>3, <1>4, OneChanges

\* The mark is set under the name the page was asked by.
LEMMA ShownKeepsMarks ==
    ASSUME MarkInv, NEW p \in Processes, NEW a \in asked[p], Shown(p, a)
    PROVE  MarkInv'
<1>1. /\ Free(p) /\ Runs(p) /\ asked' = [asked EXCEPT ![p] = @ \ {a}]
      /\ UNCHANGED <<posts, alone, repointed>>
  BY DEF Shown, Free
<1>2. mem[p] \in Configs /\ a \in Requests
      /\ MarksOK(mem[p], posts, repointed)
      /\ \A b \in asked[p] : AskedOK(mem[p], b, posts, repointed)
  BY <1>1, RunningOK
<1>3. CASE ~(a.seq > mem[p].seen[a.typed])
  BY <1>1, <1>3, DroppedKeepsMarks DEF Shown
<1>4. CASE a.seq > mem[p].seen[a.typed]
  <2>1. PICK c : c = [mem[p] EXCEPT !.seen[a.typed] = a.seq]
    OBVIOUS
  <2>2. a.typed \in Typed /\ a.seq \in 0 .. MaxPosts
    BY <1>2 DEF Requests
  <2>3. c \in Configs /\ Saves(p, c)
    BY <1>2, <1>4, <2>1, <2>2, ConfigChanges DEF Shown
  <2>4. /\ c.servers = mem[p].servers /\ c.seen[a.typed] = a.seq
        /\ \A t \in Typed \ {a.typed} : c.seen[t] = mem[p].seen[t]
    BY <1>2, <2>1, <2>2 DEF Configs
  <2>5. \A t \in Typed : Resolve(c, t) = Resolve(mem[p], t)
    BY <2>4 DEF Resolve
  <2>6. MarksOK(c, posts, repointed)
    <3> SUFFICES ASSUME NEW t \in Typed \ repointed, Resolve(c, t) \in Keys
                 PROVE  c.seen[t] <= posts[Resolve(c, t)]
      BY DEF MarksOK
    <3>1. CASE t = a.typed
      <4>1. Resolve(c, t) = a.key /\ a.seq <= posts[a.key]
        BY <1>2, <2>5, <3>1 DEF AskedOK
      <4>2. QED
        BY <2>4, <3>1, <4>1
    <3>2. CASE t # a.typed
      BY <1>2, <2>4, <2>5, <3>2 DEF MarksOK
    <3>3. QED
      BY <3>1, <3>2
  <2>7. asked' \in [Processes -> SUBSET Requests] /\ asked'[p] \subseteq asked[p]
        /\ \A q \in Processes \ {p} : asked'[q] = asked[q]
    BY <1>1 DEF MarkInv, StateTypes
  <2>8. /\ StateTypes' /\ mem'[p] = c
        /\ \A q \in Processes \ {p} : mem'[q] = mem[q]
    BY <1>1, <2>3, <2>7, SavesTypes DEF MarkInv
  <2>9. file' = Torn
    BY <2>3 DEF Saves
  <2>10. \A b \in asked'[p] : AskedOK(c, b, posts, repointed)
    <3> SUFFICES ASSUME NEW b \in asked'[p] PROVE AskedOK(c, b, posts, repointed)
      OBVIOUS
    <3>1. b \in asked[p] /\ b.typed \in Typed
      BY <1>1, <2>7, RunningOK DEF Requests
    <3>2. QED
      BY <1>2, <2>5, <3>1 DEF AskedOK
  <2>11. QED
    BY <1>1, <2>6, <2>7, <2>8, <2>9, <2>10, OneChanges
<1>5. QED
  BY <1>3, <1>4

-----------------------------------------------------------------------------
(* Processes and posts *)

\* A client starts with the file as it is, or with nothing.
LEMMA StartsIs ==
    ASSUME StateTypes, NEW p \in Processes, Starts(p)
    PROVE  /\ StateTypes' /\ mem'[p] \in Configs
           /\ mem'[p] = file \/ (mem'[p] = Empty /\ file = Absent)
           /\ \A q \in Processes \ {p} : mem'[q] = mem[q]
<1>1. PICK c : c = IF file = Absent THEN Empty ELSE file
  OBVIOUS
<1>2. c \in Configs /\ (c = file \/ (c = Empty /\ file = Absent))
  BY <1>1, EmptyIsConfig DEF Starts, StateTypes
<1>3. mem' = [mem EXCEPT ![p] = c]
  BY <1>1 DEF Starts
<1>4. mem' \in [Processes -> {Off} \cup Configs] /\ mem'[p] = c
      /\ \A q \in Processes \ {p} : mem'[q] = mem[q]
  BY <1>2, <1>3 DEF StateTypes
<1>5. alone' \in [Processes -> BOOLEAN]
  BY DEF Starts
<1>6. \A q \in Processes : mem'[q] = Off => mem[q] = Off
  BY <1>2, <1>4, StateConstants
<1>7. StateTypes'
  BY <1>4, <1>5, <1>6 DEF Starts, StateTypes, Runs
<1>8. QED
  BY <1>2, <1>4, <1>7

LEMMA StartsKeepsMarks ==
    ASSUME MarkInv, NEW p \in Processes, Starts(p) PROVE MarkInv'
<1>1. asked[p] = {} /\ UNCHANGED <<file, asked, posts, repointed>>
  BY DEF Starts, MarkInv, StateTypes
<1>2. MarksOK(Empty, posts, repointed)
  <2>1. \A t \in Typed : Empty.seen[t] = 0
    BY DEF Empty
  <2>2. \A k \in Keys : 0 <= posts[k]
    BY StateConstants DEF MarkInv, StateTypes
  <2>3. QED
    BY <2>1, <2>2 DEF MarksOK
<1>3. MarksOK(mem'[p], posts, repointed')
  BY <1>1, <1>2, StartsIs DEF MarkInv
<1>4. QED
  BY <1>1, <1>3, StartsIs, OneChanges DEF MarkInv

LEMMA SaveEndsIs ==
    ASSUME StateTypes, NEW p \in Processes, SaveEnds(p)
    PROVE  /\ StateTypes' /\ Runs(p) /\ saving'[p] = "no"
           /\ \A q \in Processes \ {p} : saving'[q] = IF saving[q] = "open" THEN "over"
                                                     ELSE saving[q]
<1>1. Runs(p) /\ mem[p] \in Configs
  BY RunsIs DEF SaveEnds, StateTypes
<1>2. saving' \in [Processes -> {"no", "open", "over"}]
  BY DEF SaveEnds, StateTypes
<1>3. /\ saving'[p] = "no"
      /\ \A q \in Processes \ {p} : saving'[q] = IF saving[q] = "open" THEN "over"
                                                ELSE saving[q]
  BY DEF SaveEnds
<1>4. \A q \in Processes : ~Runs(q) => saving'[q] = "no"
  BY <1>3 DEF StateTypes
<1>5. file' \in {Absent, Torn} \cup Configs
  BY <1>1 DEF SaveEnds
<1>6. StateTypes'
  BY <1>2, <1>4, <1>5 DEF SaveEnds, StateTypes, history, Runs
<1>7. QED
  BY <1>1, <1>3, <1>6

LEMMA SaveEndsKeepsMarks ==
    ASSUME MarkInv, NEW p \in Processes, SaveEnds(p) PROVE MarkInv'
<1>1. UNCHANGED <<mem, asked, posts, repointed>> /\ file' \in {mem[p], Torn}
  BY DEF SaveEnds, history
<1>2. StateTypes' /\ Runs(p)
  BY SaveEndsIs DEF MarkInv
<1>3. QED
  BY <1>1, <1>2, RunningOK, OneChanges

LEMMA SaveFailsIs ==
    ASSUME StateTypes, NEW p \in Processes, SaveFails(p)
    PROVE  StateTypes'
<1>1. /\ saving' \in [Processes -> {"no", "open", "over"}]
      /\ \A q \in Processes : saving'[q] \in {saving[q], "no"}
  BY DEF SaveFails, StateTypes
<1>2. QED
  BY <1>1 DEF SaveFails, StateTypes, Runs

LEMMA SaveFailsKeepsMarks ==
    ASSUME MarkInv, NEW p \in Processes, SaveFails(p) PROVE MarkInv'
<1>1. UNCHANGED <<file, mem, asked, posts, repointed>>
  BY DEF SaveFails
<1>2. StateTypes'
  BY SaveFailsIs DEF MarkInv
<1>3. mem'[p] # Off => Runs(p)
  BY <1>1 DEF Runs
<1>4. QED
  BY <1>1, <1>2, <1>3, RunningOK, OneChanges

LEMMA EndsIs ==
    ASSUME StateTypes, NEW p \in Processes, Ends(p)
    PROVE  /\ StateTypes' /\ mem'[p] = Off /\ saving'[p] = "no" /\ ~alone'[p]
           /\ \A q \in Processes \ {p} : /\ mem'[q] = mem[q] /\ asked'[q] = asked[q]
                                        /\ saving'[q] = saving[q] /\ alone'[q] = alone[q]
<1>1. /\ mem' \in [Processes -> {Off} \cup Configs] /\ mem'[p] = Off
      /\ saving' \in [Processes -> {"no", "open", "over"}] /\ saving'[p] = "no"
      /\ asked' \in [Processes -> SUBSET Requests] /\ asked'[p] = {}
      /\ alone' \in [Processes -> BOOLEAN] /\ ~alone'[p]
      /\ \A q \in Processes \ {p} : /\ mem'[q] = mem[q] /\ asked'[q] = asked[q]
                                   /\ saving'[q] = saving[q] /\ alone'[q] = alone[q]
  BY DEF Ends, StateTypes
<1>2. \A q \in Processes : mem'[q] = Off => saving'[q] = "no" /\ asked'[q] = {}
  BY <1>1 DEF StateTypes, Runs
<1>3. spoilt' \in BOOLEAN
  BY DEF Ends
<1>4. StateTypes'
  BY <1>1, <1>2, <1>3 DEF Ends, StateTypes, Runs
<1>5. QED
  BY <1>1, <1>4

LEMMA EndsKeepsMarks ==
    ASSUME MarkInv, NEW p \in Processes, Ends(p) PROVE MarkInv'
<1>1. UNCHANGED <<file, posts, repointed>>
  BY DEF Ends
<1>2. QED
  BY <1>1, EndsIs, OneChanges DEF MarkInv

\* The board goes on; what is a mark of what was read stays one.
LEMMA OthersPostKeepsMarks ==
    ASSUME MarkInv, NEW k \in Keys, OthersPost(k) PROVE MarkInv'
<1>1. UNCHANGED <<file, mem, saving, asked, alone, spoilt, repointed>>
  BY DEF OthersPost, history
<1>2. /\ posts \in [Keys -> 1 .. MaxPosts] /\ posts[k] < MaxPosts
      /\ posts' = [posts EXCEPT ![k] = @ + 1]
  BY DEF OthersPost, MarkInv, StateTypes
<1>3. posts' \in [Keys -> 1 .. MaxPosts] /\ \A j \in Keys : posts[j] <= posts'[j]
  BY <1>2, StateConstants
<1>4. posts \in [Keys -> Nat] /\ posts' \in [Keys -> Nat]
  BY <1>2, <1>3, StateConstants
<1>5. StateTypes'
  BY <1>1, <1>3 DEF MarkInv, StateTypes, Runs
<1>6. \A c \in Configs : MarksOK(c, posts, repointed) => MarksOK(c, posts', repointed)
  BY <1>3, <1>4, MarksLater
<1>7. \A c \in Configs, a \in Requests :
        AskedOK(c, a, posts, repointed) => AskedOK(c, a, posts', repointed)
  BY <1>3, <1>4, MarksLater
<1>8. ASSUME NEW p \in Processes, Runs(p)
      PROVE  /\ MarksOK(mem[p], posts', repointed)
             /\ \A a \in asked[p] : AskedOK(mem[p], a, posts', repointed)
  BY <1>6, <1>7, <1>8, RunningOK
<1>9. file \in Configs => MarksOK(file, posts', repointed)
  BY <1>6 DEF MarkInv
<1>10. QED
  BY <1>1, <1>5, <1>8, <1>9 DEF MarkInv, Runs

LEMMA MarkStep == MarkInv /\ [StateNext]_stateVars => MarkInv'
<1> SUFFICES ASSUME MarkInv, [StateNext]_stateVars PROVE MarkInv'
  OBVIOUS
<1>1. CASE UNCHANGED stateVars
  BY <1>1 DEF stateVars, history, MarkInv, StateTypes, Runs
<1>2. ASSUME NEW p \in Processes,
             Starts(p) \/ StartFails(p) \/ SaveEnds(p) \/ SaveFails(p) \/ Ends(p) \/ Connect(p)
      PROVE  MarkInv'
  BY <1>1, <1>2, StartsKeepsMarks, SaveEndsKeepsMarks, SaveFailsKeepsMarks,
     EndsKeepsMarks, ConnectKeepsMarks DEF StartFails
<1>3. ASSUME NEW p \in Processes, NEW n \in Names,
             RemoveServer(p, n) \/ \E k \in Keys : AddServer(p, n, k)
      PROVE  MarkInv'
  BY <1>3, RemoveServerKeepsMarks, AddServerKeepsMarks
<1>4. ASSUME NEW p \in Processes, NEW t \in Typed,
             AddFavorite(p, t) \/ RemoveFavorite(p, t) \/ Ask(p, t)
      PROVE  MarkInv'
  BY <1>4, FavoritesKeepMarks, AskKeepsMarks
<1>5. ASSUME NEW p \in Processes, NEW a \in asked[p],
             Rendered(p, a) \/ Shown(p, a) \/ Dropped(p, a)
      PROVE  MarkInv'
  <2>1. CASE Dropped(p, a)
    BY <2>1, DroppedKeepsMarks DEF Dropped, history
  <2>2. QED
    BY <1>5, <2>1, RenderedKeepsMarks, ShownKeepsMarks
<1>6. ASSUME NEW k \in Keys, OthersPost(k) PROVE MarkInv'
  BY <1>6, OthersPostKeepsMarks
<1>7. QED
  BY <1>1, <1>2, <1>3, <1>4, <1>5, <1>6 DEF StateNext

LEMMA MarkInvariant == StateSpec => []MarkInv
BY MarksStart, MarkStep, PTL DEF StateSpec

\* However pages of several tabs overtake each other, and whichever of the
\* processes wrote the file last: what is kept as read was posted.
THEOREM MarksHideNothing == Spec => []MarkIsOfItsServer
<1>1. MarkInv => MarkIsOfItsServer
  BY DEF MarkInv, MarksOK, MarkIsOfItsServer
<1>2. QED
  BY <1>1, MarkInvariant, StateHalf, PTL

-----------------------------------------------------------------------------
(* The file *)

LEMMA SavesStart == StateInit => SaveInv
<1> SUFFICES ASSUME StateInit PROVE SaveInv
  OBVIOUS
<1>1. StateTypes
  BY MarksStart DEF MarkInv
<1>2. QED
  BY <1>1, StateConstants DEF StateInit, SaveInv, Runs, Free

\* Steps that change neither the file nor who saves nor what is remembered.
LEMMA RestKeepsSaves ==
    ASSUME SaveInv, StateTypes', UNCHANGED <<file, mem, saving, alone, spoilt>>
    PROVE  SaveInv'
BY DEF SaveInv, Free, Runs

\* A save begins: the process is the only one that saves, or it is spoilt.
LEMMA SaveBegins ==
    ASSUME SaveInv, StateTypes', NEW p \in Processes, NEW c \in Configs, Free(p),
           Saves(p, c), UNCHANGED alone
    PROVE  SaveInv'
<1>1. /\ mem'[p] = c /\ \A q \in Processes \ {p} : mem'[q] = mem[q]
      /\ saving'[p] = "open" /\ \A q \in Processes \ {p} : saving'[q] = saving[q]
      /\ Runs(p)
  BY DEF Saves, SaveInv, StateTypes, Free
<1>2. \A q \in Processes : mem'[q] # Off => mem[q] # Off
  BY <1>1 DEF Runs
<1>3. \A q, r \in Processes : alone'[q] /\ mem'[r] # Off => q = r
  BY <1>2 DEF SaveInv, Runs
<1>4. ASSUME ~spoilt'
      PROVE  /\ ~spoilt /\ \A q \in Processes : saving[q] = "no"
             /\ \A q \in Processes \ {p} : saving'[q] = "no"
  BY <1>1, <1>4 DEF Saves, SaveInv, StateTypes
<1>5. ASSUME ~spoilt', NEW q \in Processes, mem'[q] # Off, saving'[q] = "no", alone'[q]
      PROVE  FALSE
  <2>1. q = p
    BY <1>1, <1>5 DEF SaveInv
  <2>2. QED
    BY <1>1, <1>5, <2>1
<1>6. QED
  BY <1>1, <1>3, <1>4, <1>5 DEF SaveInv, Free, Runs

LEMMA StartsKeepsSaves ==
    ASSUME SaveInv, NEW p \in Processes, Starts(p) PROVE SaveInv'
<1>1. UNCHANGED <<file, saving, spoilt>> /\ file # Torn
  BY DEF Starts
<1>2. \A q \in Processes : alone'[q] => q = p /\ \A r \in Processes : ~Runs(r)
  BY DEF Starts
<1>3. StateTypes' /\ (file # Absent => mem'[p] = file)
      /\ \A q \in Processes \ {p} : mem'[q] = mem[q]
  BY StartsIs DEF SaveInv
<1>4. \A q, r \in Processes : alone'[q] /\ mem'[r] # Off => q = r
  BY <1>2, <1>3 DEF Runs
<1>5. QED
  BY <1>1, <1>2, <1>3, <1>4 DEF SaveInv, Free, Runs

LEMMA SaveEndsKeepsSaves ==
    ASSUME SaveInv, NEW p \in Processes, SaveEnds(p) PROVE SaveInv'
<1>1. UNCHANGED <<mem, alone, spoilt>> /\ saving[p] # "no"
  BY DEF SaveEnds, history
<1>2. /\ StateTypes' /\ Runs(p) /\ saving'[p] = "no"
      /\ \A q \in Processes \ {p} : saving'[q] = IF saving[q] = "open" THEN "over"
                                                ELSE saving[q]
  BY SaveEndsIs DEF SaveInv
<1>3. mem[p] \in Configs
  BY <1>2, RunsIs DEF SaveInv
<1>4. ASSUME ~spoilt
      PROVE  /\ file' = mem[p] /\ file' # Torn
             /\ \A q \in Processes : saving'[q] = "no"
  <2>1. \A q \in Processes \ {p} : saving[q] = "no"
    BY <1>1, <1>4 DEF SaveInv
  <2>2. saving[p] # "over"
    BY <1>4 DEF SaveInv
  <2>3. QED
    BY <1>2, <1>3, <2>1, <2>2, StateConstants DEF SaveEnds
<1>5. \A q \in Processes : alone[q] => q = p
  BY <1>2 DEF SaveInv
<1>6. QED
  BY <1>1, <1>2, <1>4, <1>5 DEF SaveInv, Free, Runs

LEMMA SaveFailsKeepsSaves ==
    ASSUME SaveInv, NEW p \in Processes, SaveFails(p) PROVE SaveInv'
<1>1. UNCHANGED <<mem, alone>> /\ spoilt'
  BY DEF SaveFails
<1>2. StateTypes'
  BY SaveFailsIs DEF SaveInv
<1>3. QED
  BY <1>1, <1>2 DEF SaveInv, Runs

LEMMA EndsKeepsSaves ==
    ASSUME SaveInv, NEW p \in Processes, Ends(p) PROVE SaveInv'
<1>1. /\ StateTypes' /\ mem'[p] = Off /\ saving'[p] = "no" /\ ~alone'[p]
      /\ \A q \in Processes \ {p} : /\ mem'[q] = mem[q] /\ asked'[q] = asked[q]
                                   /\ saving'[q] = saving[q] /\ alone'[q] = alone[q]
  BY EndsIs DEF SaveInv
<1>2. file' = file /\ (~spoilt' => ~spoilt /\ saving[p] = "no")
  BY DEF Ends
<1>3. QED
  BY <1>1, <1>2 DEF SaveInv, Free, Runs

LEMMA SaveStep == SaveInv /\ StateTypes' /\ [StateNext]_stateVars => SaveInv'
<1> SUFFICES ASSUME SaveInv, StateTypes', [StateNext]_stateVars PROVE SaveInv'
  OBVIOUS
<1>0. \A p \in Processes : Free(p) => mem[p] \in Configs
  BY RunsIs DEF SaveInv, Free
<1>1. CASE UNCHANGED <<file, mem, saving, alone, spoilt>>
  BY <1>1, RestKeepsSaves
<1>2. ASSUME NEW p \in Processes,
             Starts(p) \/ StartFails(p) \/ SaveEnds(p) \/ SaveFails(p) \/ Ends(p)
      PROVE  SaveInv'
  BY <1>1, <1>2, StartsKeepsSaves, SaveEndsKeepsSaves, SaveFailsKeepsSaves,
     EndsKeepsSaves DEF StartFails, stateVars, history
<1>3. ASSUME NEW p \in Processes, Connect(p) PROVE SaveInv'
  BY <1>0, <1>3, SaveBegins DEF Connect, Command
<1>4. ASSUME NEW p \in Processes, NEW n \in Names,
             RemoveServer(p, n) \/ \E k \in Keys : AddServer(p, n, k)
      PROVE  SaveInv'
  BY <1>0, <1>4, SaveBegins, ConfigChanges DEF RemoveServer, AddServer, Command
<1>5. ASSUME NEW p \in Processes, NEW t \in Typed, AddFavorite(p, t) \/ RemoveFavorite(p, t)
      PROVE  SaveInv'
  BY <1>0, <1>5, SaveBegins, ConfigChanges DEF AddFavorite, RemoveFavorite, Command
<1>6. ASSUME NEW p \in Processes, NEW t \in Typed, Ask(p, t) PROVE SaveInv'
  BY <1>1, <1>6 DEF Ask, history
<1>7. ASSUME NEW p \in Processes, NEW a \in asked[p], Rendered(p, a) \/ Dropped(p, a)
      PROVE  SaveInv'
  BY <1>1, <1>7 DEF Rendered, Dropped, history
<1>8. ASSUME NEW p \in Processes, NEW a \in asked[p], Shown(p, a) PROVE SaveInv'
  <2>1. a \in Requests
    BY DEF SaveInv, StateTypes
  <2>2. CASE a.seq > mem[p].seen[a.typed]
    <3>1. Free(p) /\ UNCHANGED alone
          /\ Saves(p, [mem[p] EXCEPT !.seen[a.typed] = a.seq])
      BY <1>8, <2>2 DEF Shown
    <3>2. [mem[p] EXCEPT !.seen[a.typed] = a.seq] \in Configs
      BY <1>0, <2>1, <3>1, ConfigChanges DEF Requests
    <3>3. QED
      BY <3>1, <3>2, SaveBegins
  <2>3. CASE ~(a.seq > mem[p].seen[a.typed])
    BY <1>1, <1>8, <2>3 DEF Shown
  <2>4. QED
    BY <2>2, <2>3
<1>9. ASSUME NEW k \in Keys, OthersPost(k) PROVE SaveInv'
  BY <1>1, <1>9 DEF OthersPost, history
<1>10. QED
  BY <1>1, <1>2, <1>3, <1>4, <1>5, <1>6, <1>7, <1>8, <1>9 DEF StateNext, stateVars, history

\* What a client that runs alone was told to remember is in the file, and the
\* next one can start, unless a save was cut short, failed or met another.
THEOREM WhatIsToldIsSaved == Spec => []SavedIsSaved
<1>1. MarkInv => StateTypes
  BY DEF MarkInv
<1>2. StateSpec => []SaveInv
  BY <1>1, SavesStart, SaveStep, MarkInvariant, PTL DEF StateSpec
<1>3. SaveInv => SavedIsSaved
  BY DEF SaveInv, StateTypes, SavedIsSaved
<1>4. QED
  BY <1>2, <1>3, StateHalf, PTL

-----------------------------------------------------------------------------
(* The link *)

\* Who leaves has no supervisor any more; one that queries has a new link, which
\* may have been lost meanwhile.
LinkInv ==
    /\ LinkTypeOK
    /\ user # "using" => sup = "off"
    /\ sup = "query" => fresh \in {"open", "lost"}

LEMMA LinkStart == LinkInit => LinkInv
BY DEF LinkInit, LinkInv, LinkTypeOK

\* The supervisor redials a link that was found down, one step after the other,
\* and the heartbeat beats while it watches.
LEMMA SupervisorKeepsLink == ASSUME LinkInv, Supervisor PROVE LinkInv'
<1> USE DEF LinkInv, LinkTypeOK, env
<1>1. CASE Wakes
  BY <1>1 DEF Wakes
<1>2. CASE ClosesOld
  BY <1>2 DEF ClosesOld
<1>3. CASE DialBegins
  BY <1>3 DEF DialBegins
<1>4. CASE DialSucceeds
  BY <1>4 DEF DialSucceeds
<1>5. CASE DialFails
  BY <1>5 DEF DialFails
<1>6. CASE TakesOver
  BY <1>6 DEF TakesOver
<1>7. CASE QueryRaises
  BY <1>7 DEF QueryRaises
<1>8. CASE BackoffOver
  BY <1>8 DEF BackoffOver
<1>9. QED
  BY <1>1, <1>2, <1>3, <1>4, <1>5, <1>6, <1>7, <1>8 DEF Supervisor

LEMMA LinkStep == LinkInv /\ [LinkNext]_linkVars => LinkInv'
<1> SUFFICES ASSUME LinkInv, [LinkNext]_linkVars PROVE LinkInv'
  OBVIOUS
<1> USE DEF LinkInv, LinkTypeOK, env
<1>1. CASE Supervisor
  BY <1>1, SupervisorKeepsLink
<1>2. CASE HeartbeatFails
  BY <1>2 DEF HeartbeatFails
<1>3. CASE Leaves
  BY <1>3 DEF Leaves
<1>4. CASE Left
  BY <1>4 DEF Left
<1>5. CASE RadioChanges
  BY <1>5 DEF RadioChanges, Lost
<1>6. CASE ReconnectSucceeds
  BY <1>6 DEF ReconnectSucceeds
<1>7. CASE ReconnectGivesUp
  BY <1>7 DEF ReconnectGivesUp
<1>8. CASE UNCHANGED linkVars
  BY <1>8 DEF linkVars
<1>9. QED
  BY <1>1, <1>2, <1>3, <1>4, <1>5, <1>6, <1>7, <1>8 DEF LinkNext

LEMMA LinkInvariant == LinkSpec => []LinkInv
BY LinkStart, LinkStep, PTL DEF LinkSpec

\* The heartbeat, the redial and the link in hand are where the supervisor says,
\* for any number of faults and whether or not a teardown raises.
THEOREM LinkIsSupervised == Spec => []LinkTypeOK
<1>1. LinkInv => LinkTypeOK
  BY DEF LinkInv
<1>2. QED
  BY <1>1, LinkInvariant, LinkHalf, PTL

\* After disconnect() was called no step opens a link, whichever await the
\* supervisor was cancelled in.
THEOREM NothingIsOpened == Spec => NothingOpensLater
<1> DEFINE A == user # "using" => /\ fresh' \in {"none", fresh}
                                  /\ cur = "closed" => cur' = "closed"
<1>1. ASSUME LinkInv, LinkNext PROVE A
  <2> SUFFICES ASSUME user # "using" PROVE A
    OBVIOUS
  <2>1. sup = "off" /\ fresh = "none"
    BY <1>1 DEF LinkInv, LinkTypeOK
  <2>2. ~Supervisor
    BY <2>1 DEF Supervisor, Wakes, ClosesOld, DialBegins,
       DialSucceeds, DialFails, TakesOver, QueryRaises,
       BackoffOver
  <2>3. ~Leaves
    BY DEF Leaves
  <2>4. CASE Left \/ HeartbeatFails
    BY <2>4 DEF Left, HeartbeatFails
  <2>5. CASE RadioChanges
    BY <2>1, <2>5 DEF RadioChanges, Lost
  <2>6. CASE ReconnectSucceeds \/ ReconnectGivesUp
    BY <2>6 DEF ReconnectSucceeds, ReconnectGivesUp
  <2>7. QED
    BY <1>1, <2>2, <2>3, <2>4, <2>5, <2>6 DEF LinkNext
<1>2. LinkInv /\ [LinkNext]_linkVars => [A]_linkVars
  BY <1>1
<1>3. QED
  BY <1>2, LinkInvariant, LinkHalf, PTL DEF LinkSpec, NothingOpensLater
=============================================================================
