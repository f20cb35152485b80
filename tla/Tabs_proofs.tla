----------------------------- MODULE Tabs_proofs -----------------------------
(***************************************************************************)
(* Proofs about the front ends of the client: pages stay in their tab, the *)
(* screen shows what the Shell holds, and the line shell has a history,    *)
(* for any pages and links, any number of tabs and of commands, each of    *)
(* which may fail.                                                         *)
(***************************************************************************)
EXTENDS Tabs, SequenceTheorems, FiniteSetTheorems, TLAPS

-----------------------------------------------------------------------------
(* Sequences *)

\* Without its element k a sequence has the others, in their order.
LEMMA RemoveAtIs ==
    ASSUME NEW S, NEW s \in Seq(S), NEW k \in 1 .. Len(s)
    PROVE  /\ RemoveAt(s, k) \in Seq(S)
           /\ Len(RemoveAt(s, k)) = Len(s) - 1
           /\ \A j \in 1 .. Len(s) - 1 :
                RemoveAt(s, k)[j] = IF j < k THEN s[j] ELSE s[j + 1]
<1> DEFINE a == SubSeq(s, 1, k - 1)
           b == SubSeq(s, k + 1, Len(s))
<1>1. Len(s) \in Nat /\ \A j \in 1 .. Len(s) : s[j] \in S
  OBVIOUS
<1>2. a \in Seq(S) /\ Len(a) = k - 1 /\ \A j \in 1 .. k - 1 : a[j] = s[j]
  <2>1. 1 \in Int /\ k - 1 \in Int /\ \A j \in 1 .. k - 1 : s[j] \in S
    BY <1>1
  <2>2. /\ a \in Seq(S)
        /\ Len(a) = IF 1 <= k - 1 THEN (k - 1) - 1 + 1 ELSE 0
        /\ \A j \in 1 .. (k - 1) - 1 + 1 : a[j] = s[1 + j - 1]
    BY <2>1, SubSeqProperties
  <2> HIDE DEF a
  <2>3. QED
    BY <2>2
<1>3. b \in Seq(S) /\ Len(b) = Len(s) - k
      /\ \A j \in 1 .. Len(s) - k : b[j] = s[k + j]
  <2>1. k + 1 \in Int /\ Len(s) \in Int /\ \A j \in k + 1 .. Len(s) : s[j] \in S
    BY <1>1
  <2>2. /\ b \in Seq(S)
        /\ Len(b) = IF k + 1 <= Len(s) THEN Len(s) - (k + 1) + 1 ELSE 0
        /\ \A j \in 1 .. Len(s) - (k + 1) + 1 : b[j] = s[(k + 1) + j - 1]
    BY <2>1, SubSeqProperties
  <2> HIDE DEF b
  <2>3. QED
    BY <2>2, <1>1
<1>4. RemoveAt(s, k) = a \o b
  BY DEF RemoveAt
<1> HIDE DEF a, b
<1>5. /\ a \o b \in Seq(S)
      /\ Len(a \o b) = Len(a) + Len(b)
      /\ \A j \in 1 .. Len(a) + Len(b) :
           (a \o b)[j] = IF j <= Len(a) THEN a[j] ELSE b[j - Len(a)]
  BY <1>2, <1>3, ConcatProperties
<1>6. ASSUME NEW j \in 1 .. Len(s) - 1
      PROVE  (a \o b)[j] = IF j < k THEN s[j] ELSE s[j + 1]
  <2>1. CASE j < k
    BY <1>1, <1>2, <1>3, <1>5, <2>1
  <2>2. CASE j >= k
    <3>1. (a \o b)[j] = b[j - (k - 1)]
      BY <1>1, <1>2, <1>3, <1>5, <2>2
    <3>2. j - (k - 1) \in 1 .. Len(s) - k /\ k + (j - (k - 1)) = j + 1
      BY <1>1, <2>2
    <3>3. b[j - (k - 1)] = s[k + (j - (k - 1))]
      BY <1>3, <3>2
    <3>4. QED
      BY <2>2, <3>1, <3>2, <3>3
  <2>3. j < k \/ j >= k
    BY <1>1
  <2>4. QED
    BY <2>1, <2>2, <2>3, Zenon
<1>7. QED
  BY <1>1, <1>2, <1>3, <1>4, <1>5, <1>6

\* The one sequence of nothing, and of one thing.
LEMMA SetToSeqNone == SetToSeq({}) = <<>>
<1>1. Cardinality({}) = 0
  BY FS_EmptySet
<1>2. <<>> \in [1 .. 0 -> {}] /\ IsInjective(<<>>)
  BY DEF IsInjective
<1>3. \A f \in [1 .. 0 -> {}] : f = <<>>
  BY SMT
<1>4. QED
  BY <1>1, <1>2, <1>3 DEF SetToSeq

LEMMA SetToSeqOne == ASSUME NEW x PROVE SetToSeq({x}) = <<x>>
<1>1. Cardinality({x}) = 1
  BY FS_Singleton
<1>2. <<x>> \in [1 .. 1 -> {x}] /\ IsInjective(<<x>>)
  BY DEF IsInjective
<1>3. ASSUME NEW f \in [1 .. 1 -> {x}] PROVE f = <<x>>
  <2>1. f \in Seq({x}) /\ Len(f) = 1 /\ f[1] = x
    OBVIOUS
  <2>2. QED
    BY <2>1
<1>4. QED
  BY <1>1, <1>2, <1>3 DEF SetToSeq

-----------------------------------------------------------------------------
(* The invariant *)

Flights == [stage : {"fetch", "post"}, kind : {"open", "go", "home", "back", "post"},
            tab : TabIds, place : Places, push : BOOLEAN]
Commands == [stage : {"over"}] \cup Flights

TabsTypes ==
    /\ repl \in BOOLEAN
    /\ tabs \in Seq(TabIds) /\ IsInjective(tabs) /\ active \in DOMAIN tabs
    /\ shown \in [TabIds -> Places \cup {NoPlace}]
    /\ loading \in [TabIds -> BOOLEAN]
    /\ cur \in Places \cup {NoPlace}
    /\ nav \in Seq(Places)
    /\ ops \in Seq(Commands)
    /\ latest \subseteq TabIds /\ unshown \in BOOLEAN

\* Who posts is on a board, and the page loaded again is the one posted from
\* unless another was loaded meanwhile.
Posting ==
    \A i \in DOMAIN ops :
      Flying(i) => /\ ops[i].stage = "post" => cur # NoPlace /\ ops[i].kind = "post"
                   /\ ops[i].kind \in {"post", "back"} => ~ops[i].push

\* A tab says it loads only while a command of it is under way.
Waiting ==
    \A t \in TabIds : loading[t] => \E i \in DOMAIN ops : Flying(i) /\ ops[i].tab = t

\* The tab that was loaded last shows where the Shell is, unless the mark of
\* that page, one of a board, could not be saved.
OnScreen ==
    /\ \A t \in latest : shown[t] = cur \/ unshown
    /\ unshown => Dest(cur) # NoDest

\* The line shell awaits one command at a time, and each enters a page, goes
\* back to one or loads the current one again.
OneAtATime ==
    repl => /\ \A i, j \in DOMAIN ops : Flying(i) /\ Flying(j) => i = j
            /\ \A i \in DOMAIN ops : Flying(i) =>
                 /\ ops[i].kind \notin {"post", "back"} => ops[i].push
                 /\ ops[i].kind = "post" => ops[i].place = cur

TabsInv == TabsTypes /\ Posting /\ Waiting /\ OnScreen /\ OneAtATime

LEMMA TabsStart == Init => TabsInv
<1> SUFFICES ASSUME Init PROVE TabsInv
  OBVIOUS
<1>1. TabsTypes
  <2>1. repl \in BOOLEAN /\ latest \subseteq TabIds /\ unshown \in BOOLEAN
    BY Zenon DEF Init
  <2>2. tabs \in Seq(TabIds) /\ IsInjective(tabs) /\ active \in DOMAIN tabs
    BY DEF Init, IsInjective
  <2>3. /\ shown \in [TabIds -> Places \cup {NoPlace}]
        /\ loading \in [TabIds -> BOOLEAN]
        /\ cur \in Places \cup {NoPlace} /\ nav \in Seq(Places)
        /\ ops \in Seq(Commands)
    BY DEF Init
  <2>4. QED
    BY <2>1, <2>2, <2>3, Zenon DEF TabsTypes
<1>2. Posting /\ Waiting /\ OnScreen /\ OneAtATime
  BY DEF Init, Posting, Waiting, OnScreen, OneAtATime
<1>3. QED
  BY <1>1, <1>2 DEF TabsInv

-----------------------------------------------------------------------------
(* Commands *)

\* A command of the tab on the screen is under way.
Begins(o) ==
    /\ o.tab = Here
    /\ o.stage = "post" => cur # NoPlace /\ o.kind = "post"
    /\ o.kind \in {"post", "back"} => ~o.push
    /\ repl => /\ \A i \in DOMAIN ops : ~Flying(i)
               /\ o.kind \notin {"post", "back"} => o.push
               /\ o.kind = "post" => o.place = cur
    /\ ops' = Append(ops, o)
    /\ loading' = [loading EXCEPT ![Here] = TRUE]

\* A command begins, or has ended again.
Given ==
    /\ Declined \/ \E o \in Flights : Begins(o)
    /\ nav' \in Seq(Places)
    /\ UNCHANGED <<repl, tabs, active, shown, cur, loaded>>

LEMMA AwaitsBegins ==
    ASSUME TabsTypes, NEW stage \in {"fetch", "post"},
           NEW kind \in {"open", "go", "home", "back", "post"},
           NEW p \in Places, NEW push \in BOOLEAN,
           stage = "post" => cur # NoPlace /\ kind = "post",
           kind \in {"post", "back"} => ~push,
           repl => /\ \A i \in DOMAIN ops : ~Flying(i)
                   /\ kind \notin {"post", "back"} => push
                   /\ kind = "post" => p = cur,
           Awaits(stage, kind, p, push)
    PROVE  \E o \in Flights : Begins(o) /\ o.kind = kind /\ o.place = p
<1> DEFINE o == [stage |-> stage, kind |-> kind, tab |-> Here,
                 place |-> p, push |-> push]
<1>1. Here \in TabIds
  BY DEF TabsTypes, Here
<1>2. o \in Flights
  BY <1>1 DEF Flights
<1>3. Begins(o)
  BY DEF Begins, Awaits
<1>4. QED
  BY <1>2, <1>3

LEMMA ReadyAlone == Ready /\ repl => \A i \in DOMAIN ops : ~Flying(i)
BY DEF Ready

LEMMA OpenGiven == ASSUME TabsTypes, NEW p \in Places, Open(p) PROVE Given
<1>1. Awaits("fetch", "open", p, TRUE) /\ Ready
  BY DEF Open
<1>2. \E o \in Flights : Begins(o)
  BY <1>1, ReadyAlone, AwaitsBegins
<1>3. QED
  BY <1>2 DEF Open, Given, uiVars, TabsTypes

LEMMA ReloadGiven == ASSUME TabsTypes, Reload PROVE Given
<1>1. Awaits("fetch", "open", shown[Here], FALSE) /\ Ready /\ ~repl
  BY DEF Reload
<1>2. shown[Here] \in Places
  BY DEF Reload, TabsTypes, Here
<1>3. \E o \in Flights : Begins(o)
  BY <1>1, <1>2, AwaitsBegins
<1>4. QED
  BY <1>3 DEF Reload, Given, uiVars, TabsTypes

LEMMA LinkIsPlace ==
    ASSUME TabsTypes, NEW p \in Places \cup {NoPlace}, NEW n, Link(p, n) # NoPlace
    PROVE  Link(p, n) \in Places
BY TabsConstants DEF Link, Links

LEMMA FollowGiven == ASSUME TabsTypes, NEW n \in LinkNumbers, Follow(n) PROVE Given
<1>1. CASE Link(cur, n) # NoPlace
  <2>1. Awaits("fetch", "go", Link(cur, n), TRUE) /\ Ready
    BY <1>1 DEF Follow
  <2>2. Link(cur, n) \in Places
    BY <1>1, LinkIsPlace DEF TabsTypes
  <2>3. \E o \in Flights : Begins(o)
    BY <2>1, <2>2, ReadyAlone, AwaitsBegins
  <2>4. QED
    BY <2>3 DEF Follow, Given, uiVars, TabsTypes
<1>2. CASE ~(Link(cur, n) # NoPlace)
  BY <1>2 DEF Follow, Given, uiVars, TabsTypes
<1>3. QED
  BY <1>1, <1>2

LEMMA HomeGiven == ASSUME TabsTypes, Home PROVE Given
<1>1. CASE cur # NoPlace
  <2>1. Awaits("fetch", "home", HomeOf[cur], TRUE) /\ Ready
    BY <1>1 DEF Home
  <2>2. HomeOf[cur] \in Places
    BY <1>1, TabsConstants DEF TabsTypes
  <2>3. \E o \in Flights : Begins(o)
    BY <2>1, <2>2, ReadyAlone, AwaitsBegins
  <2>4. QED
    BY <2>3 DEF Home, Given, uiVars, TabsTypes
<1>2. CASE cur = NoPlace
  BY <1>2 DEF Home, Given, uiVars, TabsTypes
<1>3. QED
  BY <1>1, <1>2

\* The end of a sequence that is not empty.
LEMMA LastAndFront ==
    ASSUME NEW S, NEW s \in Seq(S), s # <<>>
    PROVE  /\ Last(s) \in S /\ Front(s) \in Seq(S)
           /\ s = Append(Front(s), Last(s))
<1>1. Len(s) \in Nat /\ Len(s) # 0
  BY EmptySeq
<1>2. Last(s) \in S
  BY <1>1 DEF Last
<1>3. 1 \in Int /\ Len(s) - 1 \in Int /\ \A j \in 1 .. Len(s) - 1 : s[j] \in S
  BY <1>1
<1>4. /\ Front(s) \in Seq(S)
      /\ Len(Front(s)) = IF 1 <= Len(s) - 1 THEN (Len(s) - 1) - 1 + 1 ELSE 0
      /\ \A j \in 1 .. (Len(s) - 1) - 1 + 1 : Front(s)[j] = s[1 + j - 1]
  BY <1>3, SubSeqProperties DEF Front
<1>5. Append(Front(s), Last(s)) \in Seq(S)
      /\ Len(Append(Front(s), Last(s))) = Len(s)
  BY <1>1, <1>2, <1>4
<1>6. \A j \in 1 .. Len(s) : Append(Front(s), Last(s))[j] = s[j]
  BY <1>1, <1>2, <1>4 DEF Last
<1>7. s = Append(Front(s), Last(s))
  BY <1>1, <1>5, <1>6, SeqEqual
<1>8. QED
  BY <1>2, <1>4, <1>7

LEMMA BackGiven == ASSUME TabsTypes, Back PROVE Given
<1>1. CASE nav # <<>>
  <2>1. Awaits("fetch", "back", Last(nav), FALSE) /\ Ready /\ nav' = Front(nav)
    BY <1>1 DEF Back
  <2>2. Last(nav) \in Places /\ Front(nav) \in Seq(Places)
    BY <1>1, LastAndFront DEF TabsTypes
  <2>3. \E o \in Flights : Begins(o)
    BY <2>1, <2>2, ReadyAlone, AwaitsBegins
  <2>4. QED
    BY <2>1, <2>2, <2>3 DEF Back, Given, uiVars
<1>2. CASE nav = <<>>
  BY <1>2 DEF Back, Given, uiVars, TabsTypes
<1>3. QED
  BY <1>1, <1>2

LEMMA PostGiven == ASSUME TabsTypes, Ready, Post PROVE Given /\ UNCHANGED nav
<1>1. CASE Dest(cur) # NoDest
  <2>1. Awaits("post", "post", cur, FALSE)
    BY <1>1 DEF Post
  <2>2. cur \in Places /\ cur # NoPlace
    BY <1>1 DEF Dest, TabsTypes
  <2>3. \E o \in Flights : Begins(o)
    BY <2>1, <2>2, ReadyAlone, AwaitsBegins
  <2>4. QED
    BY <2>3 DEF Post, Given, TabsTypes
<1>2. CASE ~(Dest(cur) # NoDest)
  BY <1>2 DEF Post, Given, TabsTypes
<1>3. QED
  BY <1>1, <1>2

\* A new command disturbs none that is under way.
LEMMA GivenKeepsTabs == TabsInv /\ Given => TabsInv'
<1> SUFFICES ASSUME TabsInv, Given PROVE TabsInv'
  OBVIOUS
<1> USE DEF TabsInv
<1>1. Here \in TabIds
  BY DEF TabsTypes, Here
<1>2. CASE Declined
  <2>1. UNCHANGED ops /\ loading' = [loading EXCEPT ![Here] = FALSE]
    BY <1>2 DEF Declined
  <2>2. TabsTypes'
    BY <1>1, <2>1 DEF TabsTypes, Given, loaded
  <2>3. Waiting'
    BY <1>1, <2>1 DEF Waiting, TabsTypes, Flying
  <2>4. Posting' /\ OneAtATime' /\ OnScreen'
    BY <2>1 DEF Given, Posting, OneAtATime, OnScreen, Flying, loaded
  <2>5. QED
    BY <2>2, <2>3, <2>4
<1>3. ASSUME NEW o \in Flights, Begins(o) PROVE TabsInv'
  <2> DEFINE m == Len(ops) + 1
  <2>1. /\ ops' = Append(ops, o) /\ o.tab = Here
        /\ loading' = [loading EXCEPT ![Here] = TRUE]
    BY <1>3 DEF Begins
  <2>2. ops \in Seq(Commands) /\ o \in Commands
    BY DEF TabsTypes, Commands
  <2>3. /\ ops' \in Seq(Commands) /\ m \in DOMAIN ops' /\ ops'[m] = o
        /\ DOMAIN ops' = DOMAIN ops \cup {m}
        /\ \A i \in DOMAIN ops : ops'[i] = ops[i]
    BY <2>1, <2>2
  <2> HIDE DEF m
  <2>4. \A i \in DOMAIN ops : Flying(i)' = Flying(i)
    BY <2>3 DEF Flying
  <2>5. o.stage # "over" /\ o.push \in BOOLEAN
    BY DEF Flights
  <2>6. ops'[m].stage # "over"
    BY <2>3, <2>5
  <2>7. TabsTypes'
    BY <1>1, <2>1, <2>3 DEF TabsTypes, Given, loaded
  <2>8. Waiting'
    <3> SUFFICES ASSUME NEW t \in TabIds, loading'[t]
                 PROVE  \E i \in DOMAIN ops' : Flying(i)' /\ ops'[i].tab = t
      BY DEF Waiting
    <3>1. CASE t = Here
      BY <2>1, <2>3, <2>6, <3>1 DEF Flying
    <3>2. CASE t # Here
      <4>1. loading[t]
        BY <1>1, <2>1, <3>2 DEF TabsTypes
      <4>2. PICK i \in DOMAIN ops : Flying(i) /\ ops[i].tab = t
        BY <4>1 DEF Waiting
      <4>3. QED
        BY <2>3, <2>4, <4>2
    <3>3. QED
      BY <3>1, <3>2
  <2>9. Posting'
    <3> SUFFICES ASSUME NEW i \in DOMAIN ops', Flying(i)'
                 PROVE  /\ ops'[i].stage = "post" => cur' # NoPlace /\ ops'[i].kind = "post"
                        /\ ops'[i].kind \in {"post", "back"} => ~ops'[i].push
      BY DEF Posting
    <3>1. cur' = cur
      BY DEF Given
    <3>2. CASE i = m
      BY <1>3, <2>3, <3>1, <3>2 DEF Begins
    <3>3. CASE i \in DOMAIN ops
      BY <2>3, <2>4, <3>1, <3>3 DEF Posting
    <3>4. QED
      BY <2>3, <3>2, <3>3
  <2>10. OnScreen'
    BY DEF Given, OnScreen, loaded
  <2>11. OneAtATime'
    <3> SUFFICES ASSUME repl'
                 PROVE  /\ \A i, j \in DOMAIN ops' : Flying(i)' /\ Flying(j)' => i = j
                        /\ \A i \in DOMAIN ops' : Flying(i)' =>
                             /\ ops'[i].kind \notin {"post", "back"} => ops'[i].push
                             /\ ops'[i].kind = "post" => ops'[i].place = cur'
      BY DEF OneAtATime
    <3>1. repl /\ cur' = cur
      BY DEF Given
    <3>2. \A i \in DOMAIN ops : ~Flying(i)
      BY <1>3, <3>1 DEF Begins
    <3>3. \A i \in DOMAIN ops' : Flying(i)' => i = m
      BY <2>3, <2>4, <3>2
    <3>4. /\ o.kind \notin {"post", "back"} => o.push
          /\ o.kind = "post" => o.place = cur
      BY <1>3, <3>1 DEF Begins
    <3>5. QED
      BY <2>3, <3>1, <3>3, <3>4
  <2>12. QED
    BY <2>7, <2>8, <2>9, <2>10, <2>11
<1>4. QED
  BY <1>2, <1>3 DEF Given

-----------------------------------------------------------------------------
(* The end of a command *)

\* The others go on.
LEMMA EndsIs ==
    ASSUME TabsTypes, NEW i \in DOMAIN ops, Flying(i), Ends(i)
    PROVE  /\ ops' \in Seq(Commands) /\ DOMAIN ops' = DOMAIN ops
           /\ ~Flying(i)'
           /\ \A j \in DOMAIN ops : Flying(j)' => j # i /\ ops'[j] = ops[j] /\ Flying(j)
           /\ \A j \in DOMAIN ops \ {i} : ops'[j] = ops[j]
           /\ ops[i] \in Flights
           /\ loading' \in [TabIds -> BOOLEAN]
           /\ ~loading'[ops[i].tab]
           /\ \A t \in TabIds : loading'[t] => t # ops[i].tab /\ loading[t]
<1> DEFINE over == [stage |-> "over"]
<1>1. over \in Commands /\ over.stage = "over"
  BY DEF Commands
<1>2. ops' = [ops EXCEPT ![i] = over] /\ ops \in Seq(Commands)
  BY DEF Ends, TabsTypes
<1> HIDE DEF over
<1>3. /\ ops' \in Seq(Commands) /\ DOMAIN ops' = DOMAIN ops /\ ops'[i] = over
      /\ \A j \in DOMAIN ops \ {i} : ops'[j] = ops[j]
  BY <1>1, <1>2
<1>4. ~Flying(i)'
  BY <1>1, <1>3 DEF Flying
<1>5. \A j \in DOMAIN ops : Flying(j)' => j # i /\ ops'[j] = ops[j] /\ Flying(j)
  BY <1>3, <1>4 DEF Flying
<1>6. ops[i] \in Flights
  BY <1>2 DEF Commands, Flying
<1>7. ops[i].tab \in TabIds
  BY <1>6 DEF Flights
<1>8. /\ loading' \in [TabIds -> BOOLEAN]
      /\ ~loading'[ops[i].tab]
      /\ \A t \in TabIds : loading'[t] => t # ops[i].tab /\ loading[t]
  BY <1>7 DEF Ends, TabsTypes
<1>9. QED
  BY <1>3, <1>4, <1>5, <1>6, <1>8

LEMMA EndKeepsWaiting ==
    ASSUME TabsTypes, Waiting, NEW i \in DOMAIN ops, Flying(i), Ends(i)
    PROVE  Waiting'
<1> SUFFICES ASSUME NEW t \in TabIds, loading'[t]
             PROVE  \E j \in DOMAIN ops' : Flying(j)' /\ ops'[j].tab = t
  BY DEF Waiting
<1>1. t # ops[i].tab /\ loading[t]
  BY EndsIs
<1>2. PICK j \in DOMAIN ops : Flying(j) /\ ops[j].tab = t
  BY <1>1 DEF Waiting
<1>3. j # i
  BY <1>1, <1>2
<1>4. ops'[j] = ops[j] /\ j \in DOMAIN ops'
  BY <1>2, <1>3, EndsIs
<1>5. Flying(j)'
  BY <1>2, <1>4 DEF Flying
<1>6. QED
  BY <1>2, <1>4, <1>5

LEMMA FailsKeepsTabs == ASSUME TabsInv, NEW i \in DOMAIN ops, Fails(i) PROVE TabsInv'
<1> USE DEF TabsInv
<1>1. Flying(i) /\ Ends(i) /\ UNCHANGED <<repl, tabs, active, shown, cur, nav, loaded>>
  BY DEF Fails, Flying, uiVars
<1>2. TabsTypes'
  BY <1>1, EndsIs DEF TabsTypes, loaded
<1>3. Waiting'
  BY <1>1, EndKeepsWaiting
<1>4. Posting'
  BY <1>1, EndsIs DEF Posting
<1>5. OneAtATime'
  BY <1>1, EndsIs DEF OneAtATime
<1>6. OnScreen'
  BY <1>1 DEF OnScreen, loaded
<1>7. QED
  BY <1>2, <1>3, <1>4, <1>5, <1>6

\* Entering a page changes the session of the Shell, and not the screen.
LEMMA EntersKeepsTabs ==
    ASSUME TabsInv, NEW i \in DOMAIN ops, Enters(i),
           shown' \in [TabIds -> Places \cup {NoPlace}], unshown' \in BOOLEAN,
           OnScreen'
    PROVE  TabsInv'
<1> USE DEF TabsInv
<1>1. Flying(i) /\ Ends(i) /\ UNCHANGED <<repl, tabs, active>>
  BY DEF Enters, Flying, uiVars
<1>2. ops[i].place \in Places /\ ops[i].tab \in TabIds
  BY <1>1, EndsIs DEF Flights
<1>3. cur' \in Places
  BY <1>2 DEF Enters
<1>4. nav' \in Seq(Places)
  BY DEF Enters, TabsTypes
<1>5. latest' \subseteq TabIds
  BY <1>2 DEF Enters
<1>6. TabsTypes'
  BY <1>1, <1>3, <1>4, <1>5, EndsIs DEF TabsTypes
<1>7. Waiting'
  BY <1>1, EndKeepsWaiting
<1>8. Posting'
  BY <1>1, <1>3, TabsConstants, EndsIs DEF Posting
<1>9. OneAtATime'
  BY <1>1, EndsIs DEF OneAtATime
<1>10. QED
  BY <1>6, <1>7, <1>8, <1>9

LEMMA LoadedKeepsTabs == ASSUME TabsInv, NEW i \in DOMAIN ops, Loaded(i) PROVE TabsInv'
<1>1. Enters(i) /\ Flying(i) /\ Ends(i) /\ unshown' = FALSE
  BY DEF Loaded, Enters, Flying
<1>2. TabsTypes /\ ops[i].place \in Places /\ ops[i].tab \in TabIds
  BY <1>1, EndsIs DEF Flights, TabsInv
<1>3. /\ shown' \in [TabIds -> Places \cup {NoPlace}]
      /\ IsOpen(ops[i].tab) => shown'[ops[i].tab] = ops[i].place
  BY <1>2 DEF Loaded, TabsTypes
<1>4. /\ cur' = ops[i].place
      /\ \A t \in latest' : t = ops[i].tab /\ IsOpen(ops[i].tab)
  BY <1>1 DEF Enters, IsOpen
<1>5. OnScreen'
  BY <1>1, <1>3, <1>4 DEF OnScreen
<1>6. QED
  BY <1>1, <1>3, <1>5, EntersKeepsTabs

LEMMA MarkFailsKeepsTabs ==
    ASSUME TabsInv, NEW i \in DOMAIN ops, MarkFails(i) PROVE TabsInv'
<1>1. Enters(i) /\ unshown' = TRUE /\ shown' = shown
  BY DEF MarkFails
<1>2. shown' \in [TabIds -> Places \cup {NoPlace}]
  BY <1>1 DEF TabsInv, TabsTypes
<1>3. OnScreen'
  BY <1>1 DEF MarkFails, OnScreen
<1>4. QED
  BY <1>1, <1>2, <1>3, EntersKeepsTabs

\* The fetch after a post is of the current page, which there is.
LEMMA PostedIs ==
    ASSUME TabsInv, NEW i \in DOMAIN ops, Posted(i)
    PROVE  /\ ops[i] \in Flights /\ ops[i].kind = "post"
           /\ ops' = [ops EXCEPT ![i] =
                        [ops[i] EXCEPT !.stage = "fetch", !.place = cur]]
           /\ cur \in Places
           /\ ops' \in Seq(Commands) /\ DOMAIN ops' = DOMAIN ops
           /\ ops'[i] \in Flights /\ ops'[i].kind = "post" /\ ops'[i].place = cur
           /\ ops'[i].tab = ops[i].tab /\ ops'[i].push = ops[i].push
           /\ ops'[i].stage = "fetch"
           /\ \A j \in DOMAIN ops \ {i} : ops'[j] = ops[j]
<1> USE DEF TabsInv
<1>1. ops \in Seq(Commands) /\ Flying(i) /\ ops[i].stage = "post"
  BY DEF TabsTypes, Posted, Flying
<1>2. ops[i] \in Flights
  BY <1>1 DEF Commands, Flying
<1>3. ops[i].kind = "post" /\ cur \in Places
  BY <1>1 DEF Posting, TabsTypes
<1> DEFINE o == [ops[i] EXCEPT !.stage = "fetch", !.place = cur]
<1>4. ops' = [ops EXCEPT ![i] = o]
  BY DEF Posted
<1>5. /\ o \in Flights /\ o.kind = "post" /\ o.place = cur /\ o.tab = ops[i].tab
      /\ o.push = ops[i].push /\ o.stage = "fetch"
  BY <1>2, <1>3 DEF Flights
<1> HIDE DEF o
<1>6. o \in Commands
  BY <1>5 DEF Commands
<1>7. /\ ops' \in Seq(Commands) /\ DOMAIN ops' = DOMAIN ops /\ ops'[i] = o
      /\ \A j \in DOMAIN ops \ {i} : ops'[j] = ops[j]
  BY <1>1, <1>4, <1>6
<1>8. QED
  BY <1>2, <1>3, <1>4, <1>5, <1>7 DEF o

LEMMA PostedKeepsTabs == ASSUME TabsInv, NEW i \in DOMAIN ops, Posted(i) PROVE TabsInv'
<1> USE DEF TabsInv
<1>1. UNCHANGED <<repl, tabs, active, shown, loading, cur, nav, loaded>>
  BY DEF Posted, uiVars
<1>2. Flying(i) /\ Flying(i)'
  BY PostedIs DEF Flying, Posted
<1>3. \A j \in DOMAIN ops : Flying(j)' = Flying(j) /\ ops'[j].tab = ops[j].tab
  BY <1>2, PostedIs DEF Flying
<1>4. TabsTypes'
  BY <1>1, PostedIs DEF TabsTypes, loaded
<1>5. Waiting'
  <2> SUFFICES ASSUME NEW t \in TabIds, loading'[t]
               PROVE  \E j \in DOMAIN ops' : Flying(j)' /\ ops'[j].tab = t
    BY DEF Waiting
  <2>1. PICK j \in DOMAIN ops : Flying(j) /\ ops[j].tab = t
    BY <1>1 DEF Waiting
  <2>2. Flying(j)' /\ ops'[j].tab = t /\ j \in DOMAIN ops'
    BY <1>3, <2>1, PostedIs
  <2>3. QED
    BY <2>2
<1>6. Posting'
  <2> SUFFICES ASSUME NEW j \in DOMAIN ops', Flying(j)'
               PROVE  /\ ops'[j].stage = "post" => cur' # NoPlace /\ ops'[j].kind = "post"
                      /\ ops'[j].kind \in {"post", "back"} => ~ops'[j].push
    BY DEF Posting
  <2>1. j \in DOMAIN ops /\ Flying(j)
    BY <1>3, PostedIs
  <2>2. CASE j = i
    BY <1>2, <2>2, PostedIs DEF Posting
  <2>3. CASE j # i
    BY <1>1, <2>1, <2>3, PostedIs DEF Posting
  <2>4. QED
    BY <2>2, <2>3
<1>7. OneAtATime'
  <2> SUFFICES ASSUME repl'
               PROVE  /\ \A j, k \in DOMAIN ops' : Flying(j)' /\ Flying(k)' => j = k
                      /\ \A j \in DOMAIN ops' : Flying(j)' =>
                           /\ ops'[j].kind \notin {"post", "back"} => ops'[j].push
                           /\ ops'[j].kind = "post" => ops'[j].place = cur'
    BY DEF OneAtATime
  <2>1. \A j, k \in DOMAIN ops' : Flying(j)' /\ Flying(k)' => j = k
    BY <1>1, <1>3, PostedIs DEF OneAtATime
  <2>2. \A j \in DOMAIN ops' : Flying(j)' => j = i
    BY <1>2, <2>1, PostedIs
  <2>3. QED
    BY <1>1, <2>1, <2>2, PostedIs
<1>8. OnScreen'
  BY <1>1 DEF OnScreen, loaded
<1>9. QED
  BY <1>4, <1>5, <1>6, <1>7, <1>8

-----------------------------------------------------------------------------
(* Tabs *)

LEMMA NewTabKeepsTabs == ASSUME TabsInv, NewTab PROVE TabsInv'
<1> USE DEF TabsInv
<1>1. PICK t \in TabIds : Fresh(t) /\ tabs' = Append(tabs, t)
  BY DEF NewTab
<1>2. UNCHANGED <<repl, shown, loading, cur, nav, composing, ops, loaded>>
  BY DEF NewTab
<1>3. tabs \in Seq(TabIds) /\ IsInjective(tabs)
  BY DEF TabsTypes
<1>4. /\ tabs' \in Seq(TabIds) /\ DOMAIN tabs' = 1 .. Len(tabs) + 1
      /\ tabs'[Len(tabs) + 1] = t /\ Len(tabs') = Len(tabs) + 1
      /\ \A j \in 1 .. Len(tabs) : tabs'[j] = tabs[j]
  BY <1>1, <1>3
<1>5. \A j \in 1 .. Len(tabs) : tabs[j] # t
  BY <1>1, <1>3 DEF Fresh, IsOpen, Range
<1>6. IsInjective(tabs')
  <2>1. \A j, k \in 1 .. Len(tabs) : tabs[j] = tabs[k] => j = k
    BY <1>3 DEF IsInjective
  <2>2. ASSUME NEW j \in 1 .. Len(tabs) + 1, NEW k \in 1 .. Len(tabs) + 1,
               tabs'[j] = tabs'[k]
        PROVE  j = k
    <3>1. Len(tabs) \in Nat
      BY <1>3
    <3>2. (j = Len(tabs) + 1 \/ j \in 1 .. Len(tabs))
          /\ (k = Len(tabs) + 1 \/ k \in 1 .. Len(tabs))
      BY <3>1
    <3>3. QED
      BY <1>4, <1>5, <2>1, <2>2, <3>2
  <2>3. QED
    BY <1>4, <2>2 DEF IsInjective
<1>7. active' \in DOMAIN tabs'
  BY <1>3, <1>4 DEF NewTab
<1>8. TabsTypes'
  BY <1>2, <1>4, <1>6, <1>7 DEF TabsTypes, loaded
<1>9. Posting' /\ Waiting' /\ OnScreen' /\ OneAtATime'
  BY <1>2 DEF Posting, Waiting, OnScreen, OneAtATime, Flying, loaded
<1>10. QED
  BY <1>8, <1>9

\* A closed tab says nothing and shows nothing.
LEMMA BlankKeeps ==
    ASSUME TabsTypes, Waiting, OnScreen, NEW t \in TabIds, Blank(t),
           UNCHANGED <<ops, cur>>
    PROVE  /\ shown' \in [TabIds -> Places \cup {NoPlace}]
           /\ loading' \in [TabIds -> BOOLEAN] /\ latest' \subseteq TabIds
           /\ unshown' = unshown
           /\ Waiting' /\ OnScreen'
<1>1. /\ shown' \in [TabIds -> Places \cup {NoPlace}]
      /\ loading' \in [TabIds -> BOOLEAN] /\ latest' \subseteq TabIds
      /\ \A u \in TabIds : loading'[u] => loading[u]
      /\ \A u \in latest' : u \in latest /\ shown'[u] = shown[u]
      /\ unshown' = unshown
  BY DEF Blank, TabsTypes
<1>2. Waiting'
  BY <1>1 DEF Waiting, Flying
<1>3. OnScreen'
  BY <1>1 DEF OnScreen
<1>4. QED
  BY <1>1, <1>2, <1>3

LEMMA CloseOnlyKeepsTabs == ASSUME TabsInv, CloseOnly PROVE TabsInv'
<1> USE DEF TabsInv
<1>1. PICK t \in TabIds : Fresh(t) /\ tabs' = <<t>>
  BY DEF CloseOnly
<1>2. Blank(tabs[1]) /\ UNCHANGED <<repl, cur, nav, composing, ops>>
  BY DEF CloseOnly
<1>3. tabs[1] \in TabIds
  BY DEF CloseOnly, TabsTypes
<1>4. tabs' \in Seq(TabIds) /\ IsInjective(tabs') /\ active' \in DOMAIN tabs'
  BY <1>1 DEF CloseOnly, IsInjective
<1>5. TabsTypes' /\ Waiting' /\ OnScreen'
  BY <1>2, <1>3, <1>4, BlankKeeps DEF TabsTypes
<1>6. Posting' /\ OneAtATime'
  BY <1>2 DEF Posting, OneAtATime, Flying
<1>7. QED
  BY <1>5, <1>6

\* Closing a tab leaves the others in order, and the active one is among them.
LEMMA CloseTabIs ==
    ASSUME TabsTypes, NEW k \in DOMAIN tabs, CloseTab(k)
    PROVE  /\ tabs' \in Seq(TabIds) /\ IsInjective(tabs')
           /\ active' \in DOMAIN tabs'
           /\ \A t \in Range(tabs) : t # tabs[k] => t \in Range(tabs')
           /\ k # active => tabs'[active'] = tabs[active]
<1>1. tabs \in Seq(TabIds) /\ k \in 1 .. Len(tabs) /\ active \in 1 .. Len(tabs)
      /\ IsInjective(tabs) /\ Len(tabs) \in Nat /\ Len(tabs) > 1
  BY DEF TabsTypes, CloseTab
<1>2. /\ tabs' \in Seq(TabIds) /\ Len(tabs') = Len(tabs) - 1
      /\ \A j \in 1 .. Len(tabs) - 1 :
           tabs'[j] = IF j < k THEN tabs[j] ELSE tabs[j + 1]
  BY <1>1, RemoveAtIs DEF CloseTab
<1>3. DOMAIN tabs' = 1 .. Len(tabs) - 1
  BY <1>2
<1>4. active' = IF k > active \/ active = 1 THEN active ELSE active - 1
  BY DEF CloseTab
<1> DEFINE n == Len(tabs)
           from(j) == IF j < k THEN j ELSE j + 1
<1>5. \A j \in 1 .. n - 1 : from(j) \in 1 .. n /\ tabs'[j] = tabs[from(j)]
  <2> SUFFICES ASSUME NEW j \in 1 .. n - 1
               PROVE  from(j) \in 1 .. n /\ tabs'[j] = tabs[from(j)]
    OBVIOUS
  <2>1. CASE j < k
    BY <1>1, <1>2, <2>1
  <2>2. CASE ~(j < k)
    BY <1>1, <1>2, <2>2
  <2>3. QED
    BY <2>1, <2>2
<1>6. \A j, l \in 1 .. n - 1 : from(j) = from(l) => j = l
  BY <1>1
<1>7. \A j, l \in 1 .. n : tabs[j] = tabs[l] => j = l
  BY <1>1 DEF IsInjective
<1>8. IsInjective(tabs')
  <2> HIDE DEF from
  <2> SUFFICES ASSUME NEW j \in 1 .. n - 1, NEW l \in 1 .. n - 1, tabs'[j] = tabs'[l]
               PROVE  j = l
    BY <1>3 DEF IsInjective
  <2>1. tabs[from(j)] = tabs[from(l)] /\ from(j) \in 1 .. n /\ from(l) \in 1 .. n
    BY <1>5
  <2>2. QED
    BY <1>6, <1>7, <2>1
<1>9. active' \in DOMAIN tabs'
  BY <1>1, <1>3, <1>4
<1>10. ASSUME NEW t \in Range(tabs), t # tabs[k] PROVE t \in Range(tabs')
  <2>1. PICK i \in 1 .. n : t = tabs[i] /\ i # k
    BY <1>1, <1>10 DEF Range
  <2>2. CASE i < k
    <3>1. i \in 1 .. n - 1 /\ tabs'[i] = tabs[i]
      BY <1>1, <1>2, <2>2
    <3>2. QED
      BY <1>3, <2>1, <3>1 DEF Range
  <2>3. CASE i > k
    <3>1. i - 1 \in 1 .. n - 1 /\ ~(i - 1 < k) /\ (i - 1) + 1 = i
      BY <1>1, <2>3
    <3>2. tabs'[i - 1] = tabs[(i - 1) + 1]
      BY <1>2, <3>1
    <3>3. QED
      BY <1>3, <2>1, <3>1, <3>2 DEF Range
  <2>4. QED
    BY <1>1, <2>1, <2>2, <2>3
<1>11. ASSUME k # active PROVE tabs'[active'] = tabs[active]
  <2>1. CASE k > active
    <3>1. active' = active /\ active \in 1 .. n - 1 /\ active < k
      BY <1>1, <1>4, <2>1
    <3>2. QED
      BY <1>2, <3>1
  <2>2. CASE k < active
    <3>1. /\ active' = active - 1 /\ active - 1 \in 1 .. n - 1
          /\ ~(active - 1 < k) /\ (active - 1) + 1 = active
      BY <1>1, <1>4, <2>2
    <3>2. tabs'[active - 1] = tabs[(active - 1) + 1]
      BY <1>2, <3>1
    <3>3. QED
      BY <3>1, <3>2
  <2>3. QED
    BY <1>1, <1>11, <2>1, <2>2
<1>12. QED
  BY <1>2, <1>8, <1>9, <1>10, <1>11

LEMMA CloseTabKeepsTabs ==
    ASSUME TabsInv, NEW k \in DOMAIN tabs, CloseTab(k) PROVE TabsInv'
<1> USE DEF TabsInv
<1>1. Blank(tabs[k]) /\ UNCHANGED <<repl, cur, nav, composing, ops>>
  BY DEF CloseTab
<1>2. tabs[k] \in TabIds
  BY DEF TabsTypes
<1>3. tabs' \in Seq(TabIds) /\ IsInjective(tabs') /\ active' \in DOMAIN tabs'
  BY CloseTabIs
<1>4. TabsTypes' /\ Waiting' /\ OnScreen'
  BY <1>1, <1>2, <1>3, BlankKeeps DEF TabsTypes
<1>5. Posting' /\ OneAtATime'
  BY <1>1 DEF Posting, OneAtATime, Flying
<1>6. QED
  BY <1>4, <1>5

\* Whatever else happens leaves the commands alone.
LEMMA RestKeepsTabs ==
    ASSUME TabsInv, UNCHANGED <<repl, tabs, shown, loading, cur, nav, ops, loaded>>,
           active' \in DOMAIN tabs
    PROVE  TabsInv'
BY DEF TabsInv, TabsTypes, Posting, Waiting, OnScreen, OneAtATime, Flying, loaded

LEMMA CommandsGiven ==
    ASSUME TabsTypes,
           \/ \E p \in Places : Open(p)
           \/ Reload
           \/ \E n \in LinkNumbers : Follow(n)
           \/ Home \/ Back \/ PostCommand \/ SendCompose
    PROVE  Given
BY OpenGiven, ReloadGiven, FollowGiven, HomeGiven, BackGiven, PostGiven
   DEF PostCommand, SendCompose

LEMMA TabsStep == TabsInv /\ [Next]_vars => TabsInv'
<1> SUFFICES ASSUME TabsInv, [Next]_vars PROVE TabsInv'
  OBVIOUS
<1>0. TabsTypes
  BY DEF TabsInv
<1>1. CASE \/ \E p \in Places : Open(p)
           \/ Reload
           \/ \E n \in LinkNumbers : Follow(n)
           \/ Home \/ Back \/ PostCommand \/ SendCompose
  BY <1>0, <1>1, CommandsGiven, GivenKeepsTabs
<1>2. CASE OpenCompose
  BY <1>0, <1>2, RestKeepsTabs DEF OpenCompose, TabsTypes
<1>3. CASE CancelCompose
  BY <1>0, <1>3, RestKeepsTabs DEF CancelCompose, TabsTypes
<1>4. CASE NewTab
  BY <1>4, NewTabKeepsTabs
<1>5. CASE CloseOnly
  BY <1>5, CloseOnlyKeepsTabs
<1>6. ASSUME NEW k \in DOMAIN tabs, SelectTab(k) PROVE TabsInv'
  BY <1>6, RestKeepsTabs DEF SelectTab
<1>7. ASSUME NEW k \in DOMAIN tabs, CloseTab(k) PROVE TabsInv'
  BY <1>7, CloseTabKeepsTabs
<1>8. ASSUME NEW i \in DOMAIN ops, Task(i) PROVE TabsInv'
  BY <1>8, PostedKeepsTabs, LoadedKeepsTabs, MarkFailsKeepsTabs, FailsKeepsTabs
     DEF Task
<1>9. CASE UNCHANGED vars
  BY <1>0, <1>9, RestKeepsTabs DEF vars, TabsTypes
<1>10. QED
  BY <1>1, <1>2, <1>3, <1>4, <1>5, <1>6, <1>7, <1>8, <1>9 DEF Next, User

LEMMA TabsInvariant == Spec => []TabsInv
BY TabsStart, TabsStep, PTL DEF Spec

-----------------------------------------------------------------------------
(* What follows *)

\* The tabs are distinct and one of them is active, whatever is closed; who
\* says it loads has a command that ends that; and the tab that was loaded last
\* shows the page whose links the Shell has, unless that is a page of a board
\* whose mark could not be saved.
THEOREM ScreenIsTrue == Spec => []ScreenHolds
<1>1. ASSUME TabsInv PROVE ScreenHolds
  <2> USE <1>1 DEF TabsInv
  <2>1. \A i \in DOMAIN ops : Flying(i) => ops[i].place \in Places
    BY DEF TabsTypes, Commands, Flights, Flying
  <2>2. \A t \in Range(tabs) : t \in TabIds
    BY DEF TabsTypes, Range
  <2>3. QED
    BY <2>1, <2>2 DEF ScreenHolds, TabsTypes, Waiting, OnScreen
<1>2. QED
  BY <1>1, TabsInvariant, PTL

\* No step shows a tab another page but the end of a command of that tab.
THEOREM PagesComeToTheirTab == Spec => PagesStayInTheirTab
<1> DEFINE Kept == \A t \in TabIds : shown'[t] \notin {shown[t], NoPlace} =>
                      \E i \in DOMAIN ops : /\ ops[i].stage = "fetch"
                                           /\ ops'[i].stage = "over"
                                           /\ ops[i].tab = t /\ ops[i].place = shown'[t]
<1>1. ASSUME TabsInv, [Next]_vars PROVE [Kept]_vars
  <2> SUFFICES ASSUME NEW t \in TabIds, shown'[t] \notin {shown[t], NoPlace}
               PROVE  \E i \in DOMAIN ops : /\ ops[i].stage = "fetch"
                                           /\ ops'[i].stage = "over"
                                           /\ ops[i].tab = t /\ ops[i].place = shown'[t]
    OBVIOUS
  <2>0. TabsTypes
    BY <1>1 DEF TabsInv
  <2>1. shown' # shown
    OBVIOUS
  <2>2. CASE \E k \in DOMAIN tabs : CloseTab(k)
    <3>1. \E u : shown' = [shown EXCEPT ![u] = NoPlace]
      BY <2>2 DEF CloseTab, Blank
    <3>2. shown'[t] \in {shown[t], NoPlace}
      BY <2>0, <3>1 DEF TabsTypes
    <3>3. QED
      BY <3>2
  <2>3. CASE CloseOnly
    <3>1. \E u : shown' = [shown EXCEPT ![u] = NoPlace]
      BY <2>3 DEF CloseOnly, Blank
    <3>2. shown'[t] \in {shown[t], NoPlace}
      BY <2>0, <3>1 DEF TabsTypes
    <3>3. QED
      BY <3>2
  <2>4. ASSUME NEW i \in DOMAIN ops, Loaded(i)
        PROVE  /\ ops[i].stage = "fetch" /\ ops'[i].stage = "over"
               /\ ops[i].tab = t /\ ops[i].place = shown'[t]
    <3>1. ops[i].stage = "fetch" /\ Flying(i) /\ Ends(i)
      BY <2>4 DEF Loaded, Enters, Flying
    <3>2. ~Flying(i)'
      BY <2>0, <3>1, EndsIs
    <3>3. ops[i].tab = t /\ shown'[t] = ops[i].place
      BY <2>0, <2>1, <2>4 DEF Loaded, TabsTypes
    <3>4. QED
      BY <3>1, <3>2, <3>3 DEF Flying
  <2>5. ASSUME NEW i \in DOMAIN ops, Task(i)
        PROVE  Loaded(i)
    BY <2>1, <2>5 DEF Task, Posted, MarkFails, Fails
  <2>6. CASE User
    <3>1. CASE \/ \E p \in Places : Open(p)
               \/ Reload
               \/ \E n \in LinkNumbers : Follow(n)
               \/ Home \/ Back \/ PostCommand \/ SendCompose
      BY <2>0, <2>1, <3>1, CommandsGiven DEF Given
    <3>2. CASE OpenCompose \/ CancelCompose \/ NewTab
      BY <2>1, <3>2 DEF OpenCompose, CancelCompose, NewTab
    <3>3. CASE \E k \in DOMAIN tabs : SelectTab(k)
      BY <2>1, <3>3 DEF SelectTab
    <3>4. QED
      BY <2>2, <2>3, <2>6, <3>1, <3>2, <3>3 DEF User
  <2>7. QED
    BY <1>1, <2>1, <2>4, <2>5, <2>6 DEF Next, vars
<1>2. QED
  BY <1>1, TabsInvariant, PTL DEF Spec, PagesStayInTheirTab

\* Closing a tab that is not on the screen leaves the one that is.
THEOREM ClosingKeepsTheScreen == Spec => CloseKeepsActive
<1> DEFINE Kept == \A t \in TabIds : IsOpen(t) /\ t # Here /\ ~IsOpen(t)' => Here' = Here
<1>1. ASSUME TabsInv, [Next]_vars PROVE [Kept]_vars
  <2> SUFFICES ASSUME NEW t \in TabIds, IsOpen(t), t # Here, ~IsOpen(t)'
               PROVE  Here' = Here
    OBVIOUS
  <2>0. TabsTypes
    BY <1>1 DEF TabsInv
  <2>1. tabs' # tabs
    BY DEF IsOpen
  <2>2. ASSUME NEW k \in DOMAIN tabs, CloseTab(k) PROVE Here' = Here
    <3>1. t = tabs[k]
      BY <2>0, <2>2, CloseTabIs DEF IsOpen
    <3>2. k # active
      BY <3>1 DEF Here
    <3>3. QED
      BY <2>0, <2>2, <3>2, CloseTabIs DEF Here
  <2>3. CASE CloseOnly
    BY <2>0, <2>3 DEF CloseOnly, IsOpen, Range, Here, TabsTypes
  <2>4. CASE NewTab
    <3>1. PICK u \in TabIds : tabs' = Append(tabs, u)
      BY <2>4 DEF NewTab
    <3>2. PICK j \in DOMAIN tabs : tabs[j] = t
      BY DEF IsOpen, Range
    <3>3. tabs \in Seq(TabIds)
      BY <2>0 DEF TabsTypes
    <3>4. j \in DOMAIN tabs' /\ tabs'[j] = t
      BY <3>1, <3>2, <3>3
    <3>5. QED
      BY <3>4 DEF IsOpen, Range
  <2>5. CASE User
    <3>1. CASE \/ \E p \in Places : Open(p)
               \/ Reload
               \/ \E n \in LinkNumbers : Follow(n)
               \/ Home \/ Back \/ PostCommand \/ SendCompose
      BY <2>0, <2>1, <3>1, CommandsGiven DEF Given
    <3>2. CASE OpenCompose \/ CancelCompose
      BY <2>1, <3>2 DEF OpenCompose, CancelCompose
    <3>3. CASE \E k \in DOMAIN tabs : SelectTab(k)
      BY <2>1, <3>3 DEF SelectTab
    <3>4. QED
      BY <2>2, <2>3, <2>4, <2>5, <3>1, <3>2, <3>3 DEF User
  <2>6. ASSUME NEW i \in DOMAIN ops, Task(i) PROVE FALSE
    BY <2>1, <2>6 DEF Task, Posted, Loaded, MarkFails, Enters, Fails, uiVars
  <2>7. QED
    BY <1>1, <2>1, <2>5, <2>6 DEF Next, vars
<1>2. QED
  BY <1>1, TabsInvariant, PTL DEF Spec, CloseKeepsActive

-----------------------------------------------------------------------------
(* The history of the line shell *)

\* Nothing on its way back, and one page on its way back.
LEMMA NoWayBack ==
    ASSUME \A i \in DOMAIN ops : ops[i].stage = "fetch" => ops[i].kind # "back",
           nav \in Seq(Places)
    PROVE  Past = nav
<1>1. WayBack = {}
  BY DEF WayBack
<1>2. QED
  BY <1>1, SetToSeqNone DEF Past

LEMMA OneWayBack ==
    ASSUME NEW i \in DOMAIN ops, ops[i].stage = "fetch", ops[i].kind = "back",
           \A j \in DOMAIN ops \ {i} : ops[j].stage # "fetch",
           nav \in Seq(Places), ops[i].place \in Places
    PROVE  Past = Append(nav, ops[i].place)
<1>1. WayBack = {ops[i].place}
  BY DEF WayBack
<1>2. Past = nav \o <<ops[i].place>>
  BY <1>1, SetToSeqOne DEF Past
<1>3. QED
  BY <1>2

LEMMA NotFetching == Ready /\ repl => \A i \in DOMAIN ops : ops[i].stage = "over"
BY DEF Ready, Flying

\* A command that does not go back leaves the history when it begins.
LEMMA AwaitsStays ==
    ASSUME TabsInv, Ready, repl, UNCHANGED nav,
           NEW stage, NEW kind, NEW p, NEW push,
           kind # "back", Awaits(stage, kind, p, push)
    PROVE  Past' = Past
<1> DEFINE o == [stage |-> stage, kind |-> kind, tab |-> Here,
                 place |-> p, push |-> push]
<1>1. nav \in Seq(Places) /\ ops \in Seq(Commands)
  BY DEF TabsInv, TabsTypes
<1>2. Past = nav
  BY <1>1, NotFetching, NoWayBack
<1>3. ops' = Append(ops, o) /\ o.kind = kind
  BY DEF Awaits
<1> HIDE DEF o
<1>4. \A i \in DOMAIN ops' : \/ i \in DOMAIN ops /\ ops'[i] = ops[i]
                             \/ ops'[i] = o
  BY <1>1, <1>3
<1>5. \A i \in DOMAIN ops' : ops'[i].stage = "fetch" => ops'[i].kind # "back"
  BY <1>3, <1>4, NotFetching
<1>6. nav' \in Seq(Places) /\ nav' = nav
  BY <1>1
<1>7. WayBack' = {}
  BY <1>5 DEF WayBack
<1>8. Past' = nav
  BY <1>6, <1>7, SetToSeqNone DEF Past
<1>9. QED
  BY <1>2, <1>8

LEMMA BackStays == ASSUME TabsInv, repl, Back PROVE Past' = Past
<1>1. nav \in Seq(Places) /\ ops \in Seq(Commands)
  BY DEF TabsInv, TabsTypes
<1>2. Ready
  BY DEF Back
<1>3. CASE nav # <<>>
  <2> DEFINE o == [stage |-> "fetch", kind |-> "back", tab |-> Here,
                   place |-> Last(nav), push |-> FALSE]
             m == Len(ops) + 1
  <2>1. ops' = Append(ops, o) /\ nav' = Front(nav)
    BY <1>3 DEF Back, Awaits
  <2>2. o.stage = "fetch" /\ o.kind = "back" /\ o.place = Last(nav)
    OBVIOUS
  <2> HIDE DEF o
  <2>3. /\ m \in DOMAIN ops' /\ ops'[m] = o
        /\ \A i \in DOMAIN ops' : i # m => i \in DOMAIN ops /\ ops'[i] = ops[i]
    BY <1>1, <2>1
  <2> HIDE DEF m
  <2>4. \A i \in DOMAIN ops' : i # m => ops'[i].stage = "over"
    BY <1>2, <2>3, NotFetching
  <2>5. WayBack' = {Last(nav)}
    BY <2>2, <2>3, <2>4 DEF WayBack
  <2>6. Last(nav) \in Places /\ Front(nav) \in Seq(Places)
        /\ nav = Append(Front(nav), Last(nav))
    BY <1>1, <1>3, LastAndFront
  <2>7. Past' = Front(nav) \o <<Last(nav)>>
    BY <2>1, <2>5, SetToSeqOne DEF Past
  <2>8. Past = nav
    BY <1>1, <1>2, NotFetching, NoWayBack
  <2>9. Front(nav) \o <<Last(nav)>> = Append(Front(nav), Last(nav))
    BY <2>6
  <2>10. QED
    BY <2>6, <2>7, <2>8, <2>9
<1>4. CASE nav = <<>>
  BY <1>4 DEF Back, Declined, Past, WayBack
<1>5. QED
  BY <1>3, <1>4

\* Every command of the line shell begins without a change to the session.
LEMMA CommandStays ==
    ASSUME TabsInv, repl,
           \/ \E p \in Places : Open(p)
           \/ Reload
           \/ \E n \in LinkNumbers : Follow(n)
           \/ Home \/ Back \/ PostCommand \/ SendCompose
    PROVE  UNCHANGED <<cur, Past>>
<1>1. cur' = cur
  BY CommandsGiven DEF Given, TabsInv
<1>2. ASSUME Declined, UNCHANGED nav PROVE Past' = Past
  BY <1>2 DEF Declined, Past, WayBack
<1>3. ASSUME NEW p \in Places, Open(p) PROVE Past' = Past
  BY <1>3, AwaitsStays DEF Open
<1>4. CASE Reload
  BY <1>4 DEF Reload
<1>5. ASSUME NEW n \in LinkNumbers, Follow(n) PROVE Past' = Past
  <2>1. CASE Link(cur, n) # NoPlace
    BY <1>5, <2>1, AwaitsStays DEF Follow
  <2>2. CASE ~(Link(cur, n) # NoPlace)
    BY <1>2, <1>5, <2>2 DEF Follow
  <2>3. QED
    BY <2>1, <2>2
<1>6. CASE Home
  <2>1. CASE cur # NoPlace
    BY <1>6, <2>1, AwaitsStays DEF Home
  <2>2. CASE ~(cur # NoPlace)
    BY <1>2, <1>6, <2>2 DEF Home
  <2>3. QED
    BY <2>1, <2>2
<1>7. CASE PostCommand \/ SendCompose
  <2>1. Ready /\ Post
    BY <1>7 DEF PostCommand, SendCompose
  <2>2. CASE Dest(cur) # NoDest
    BY <2>1, <2>2, AwaitsStays DEF Post
  <2>3. CASE ~(Dest(cur) # NoDest)
    BY <1>2, <2>1, <2>3 DEF Post
  <2>4. QED
    BY <2>2, <2>3
<1>8. QED
  BY <1>1, <1>3, <1>4, <1>5, <1>6, <1>7, BackStays

\* When the only command is over, nothing is on its way back.
LEMMA EndedAlone ==
    ASSUME TabsInv, repl, NEW i \in DOMAIN ops, Flying(i), Ends(i),
           nav' \in Seq(Places)
    PROVE  /\ ops[i] \in Flights
           /\ \A j \in DOMAIN ops \ {i} : ops[j].stage # "fetch"
           /\ Past' = nav'
<1>1. TabsTypes /\ \A j, k \in DOMAIN ops : Flying(j) /\ Flying(k) => j = k
  BY DEF TabsInv, OneAtATime
<1>2. \A j \in DOMAIN ops \ {i} : ~Flying(j)
  BY <1>1
<1>3. \A j \in DOMAIN ops' : ~Flying(j)'
  BY <1>1, <1>2, EndsIs
<1>4. WayBack' = {}
  BY <1>3 DEF WayBack, Flying
<1>5. Past' = nav'
  BY <1>4, SetToSeqNone DEF Past
<1>6. ops[i] \in Flights
  BY <1>1, EndsIs
<1>7. QED
  BY <1>2, <1>5, <1>6 DEF Flying

LEMMA AppendedEnds ==
    ASSUME NEW S, NEW s \in Seq(S), NEW x \in S
    PROVE  /\ Append(s, x) # <<>> /\ Last(Append(s, x)) = x
           /\ Front(Append(s, x)) = s
BY SMT DEF Last, Front

LEMMA FailsForgets ==
    ASSUME TabsInv, repl, NEW i \in DOMAIN ops, Fails(i)
    PROVE  H!Forget \/ UNCHANGED <<cur, Past>>
<1>1. nav \in Seq(Places) /\ UNCHANGED <<cur, nav>> /\ Flying(i) /\ Ends(i)
  BY DEF TabsInv, TabsTypes, Fails, Flying
<1>2. Past' = nav /\ ops[i] \in Flights
      /\ \A j \in DOMAIN ops \ {i} : ops[j].stage # "fetch"
  BY <1>1, EndedAlone
<1>3. CASE ops[i].stage = "fetch" /\ ops[i].kind = "back"
  <2>1. ops[i].place \in Places
    BY <1>2 DEF Flights
  <2>2. Past = Append(nav, ops[i].place)
    BY <1>1, <1>2, <1>3, <2>1, OneWayBack
  <2>3. Past # <<>> /\ Front(Past) = nav
    BY <1>1, <2>1, <2>2, AppendedEnds
  <2>4. QED
    BY <1>1, <1>2, <2>3 DEF H!Forget, H!Front, Front
<1>4. CASE ~(ops[i].stage = "fetch" /\ ops[i].kind = "back")
  <2>1. Past = nav
    BY <1>1, <1>2, <1>4, NoWayBack
  <2>2. QED
    BY <1>1, <1>2, <2>1
<1>5. QED
  BY <1>3, <1>4

LEMMA EntersVisits ==
    ASSUME TabsInv, repl, NEW i \in DOMAIN ops, Enters(i)
    PROVE  H!Visit \/ H!Back \/ UNCHANGED <<cur, Past>>
<1>1. /\ nav \in Seq(Places) /\ cur \in Places \cup {NoPlace}
      /\ Flying(i) /\ Ends(i) /\ ops[i].stage = "fetch"
      /\ cur' = ops[i].place
      /\ nav' = IF ops[i].push /\ cur # NoPlace THEN Append(nav, cur) ELSE nav
  BY DEF TabsInv, TabsTypes, Enters, Flying
<1>2. nav' \in Seq(Places)
  BY <1>1
<1>3. Past' = nav' /\ ops[i] \in Flights
      /\ \A j \in DOMAIN ops \ {i} : ops[j].stage # "fetch"
  BY <1>1, <1>2, EndedAlone
<1>4. ops[i].place \in Places
  BY <1>3 DEF Flights
<1>5. CASE ops[i].kind = "back"
  <2>1. nav' = nav
    BY <1>1, <1>5 DEF TabsInv, Posting
  <2>2. Past = Append(nav, ops[i].place)
    BY <1>1, <1>3, <1>4, <1>5, OneWayBack
  <2>3. Past # <<>> /\ Last(Past) = ops[i].place /\ Front(Past) = nav
    BY <1>1, <1>4, <2>2, AppendedEnds
  <2>4. QED
    BY <1>1, <1>3, <2>1, <2>3 DEF H!Back, H!Front, H!Last, Front, Last
<1>6. CASE ops[i].kind # "back"
  <2>1. Past = nav
    BY <1>1, <1>3, <1>6, NoWayBack
  <2>2. CASE ops[i].kind = "post"
    BY <1>1, <1>3, <2>1, <2>2 DEF TabsInv, Posting, OneAtATime
  <2>3. CASE ops[i].kind # "post"
    <3>1. ops[i].push
      BY <1>1, <1>6, <2>3 DEF TabsInv, OneAtATime
    <3>2. Past' = H!Left
      BY <1>1, <1>3, <2>1, <3>1 DEF H!Left
    <3>3. QED
      BY <1>1, <1>4, <3>2 DEF H!Visit
  <2>4. QED
    BY <2>2, <2>3
<1>7. QED
  BY <1>5, <1>6

LEMMA PostedStays ==
    ASSUME TabsInv, NEW i \in DOMAIN ops, Posted(i)
    PROVE  UNCHANGED <<cur, Past>>
<1>1. UNCHANGED <<cur, nav>>
  BY DEF Posted
<1>2. /\ ops[i].kind = "post" /\ ops'[i].kind = "post" /\ DOMAIN ops' = DOMAIN ops
      /\ \A j \in DOMAIN ops \ {i} : ops'[j] = ops[j]
  BY PostedIs
<1>3. WayBack' = WayBack
  BY <1>2 DEF WayBack
<1>4. QED
  BY <1>1, <1>3 DEF Past

\* In the line shell the page and the pages to go back to are those of
\* History, whatever fails: the popped page is on its way, or forgotten.
THEOREM TheHistoryIsOne == Spec => HistoryHolds
<1> DEFINE Told == repl => H!Next \/ UNCHANGED <<cur, Past>>
<1>1. Init => H!Init
  <2> SUFFICES ASSUME Init PROVE H!Init
    OBVIOUS
  <2>1. cur = NoPlace /\ nav = <<>> /\ ops = <<>>
    BY DEF Init
  <2>2. nav \in Seq(Places) /\ \A i \in DOMAIN ops : FALSE
    BY <2>1
  <2>3. Past = <<>>
    BY <2>1, <2>2, NoWayBack
  <2>4. QED
    BY <2>1, <2>3 DEF H!Init
<1>2. ASSUME TabsInv, [Next]_vars PROVE [Told]_vars
  <2> SUFFICES ASSUME repl PROVE H!Next \/ UNCHANGED <<cur, Past>>
    OBVIOUS
  <2>1. CASE \/ \E p \in Places : Open(p)
             \/ Reload
             \/ \E n \in LinkNumbers : Follow(n)
             \/ Home \/ Back \/ PostCommand \/ SendCompose
    BY <1>2, <2>1, CommandStays
  <2>2. CASE UNCHANGED <<cur, nav, ops>>
    BY <2>2 DEF Past, WayBack
  <2>3. CASE OpenCompose \/ CancelCompose \/ NewTab \/ CloseOnly
             \/ \E k \in DOMAIN tabs : SelectTab(k) \/ CloseTab(k)
    BY <2>2, <2>3 DEF OpenCompose, CancelCompose, NewTab, CloseOnly, SelectTab, CloseTab
  <2>4. ASSUME NEW i \in DOMAIN ops, Task(i)
        PROVE  H!Next \/ UNCHANGED <<cur, Past>>
    BY <1>2, <2>4, PostedStays, EntersVisits, FailsForgets
       DEF Task, Loaded, MarkFails, H!Next
  <2>5. QED
    BY <1>2, <2>1, <2>2, <2>3, <2>4 DEF Next, User, vars
<1>3. QED
  BY <1>1, <1>2, TabsInvariant, PTL DEF Spec, HistoryHolds
=============================================================================
