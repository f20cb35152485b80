-------------------------------- MODULE Tabs --------------------------------
(***************************************************************************)
(* The two front ends of the client over one Shell: the line shell, which  *)
(* waits for a command before it reads the next, and the full-screen one,  *)
(* where each tab spawns its commands as tasks.  The Shell has one current *)
(* page, one list of links and one history for all tabs.                   *)
(*                                                                         *)
(* A place is a server with a path on it; current_server, current_path and *)
(* current_links are assigned together, so that a place stands for them.   *)
(* A command is a step from its key to the await of its fetch, and another *)
(* when the fetch is over; that a load may complete in the turn of the     *)
(* event loop between the key and the task is left out, and so are files   *)
(* to download, which change no page, and the help tab.                    *)
(***************************************************************************)
EXTENDS Naturals, SequencesExt

CONSTANTS
    Places, NoPlace,
    LinksOf,        \* the links of a page, in order
    HomeOf,         \* index.vn of the place's server
    DestOf,         \* the board or thread a post from here goes to
    NoDest,         \* the place is outside the boards
    TabIds,         \* Tab objects; one that is closed may be a new one later
    MaxLines,       \* bound: commands given in the line shell
    MaxTasks        \* bound: commands given in tabs

ASSUME TabsConstants ==
    /\ NoPlace \notin Places
    /\ LinksOf \in [Places -> Seq(Places)]
    /\ HomeOf \in [Places -> Places]
    /\ DOMAIN DestOf = Places

VARIABLES
    repl,           \* the line shell: one terminal, one command at a time
    tabs, active,   \* the open tabs, in order, and the one on the screen
    shown,          \* the page each tab shows
    loading,        \* tab.loading
    cur,            \* Shell.current_server, current_path, current_links
    nav,            \* Shell.nav_stack
    composing,      \* the composer is open
    ops,            \* the commands given so far
    latest,         \* history: the tab the current page was loaded in
    unshown         \* history: and it was not shown, its mark not being saved

uiVars == <<repl, tabs, active, composing>>
loaded == <<latest, unshown>>
vars == <<repl, tabs, active, shown, loading, cur, nav, composing, ops, loaded>>

Here == tabs[active]
Links(p) == IF p = NoPlace THEN <<>> ELSE LinksOf[p]
Dest(p) == IF p = NoPlace THEN NoDest ELSE DestOf[p]
LinkNumbers == UNION {DOMAIN LinksOf[p] : p \in Places}
Flying(i) == ops[i].stage # "over"

Init ==
    /\ repl \in BOOLEAN
    /\ \E t \in TabIds : tabs = <<t>>
    /\ active = 1
    /\ shown = [t \in TabIds |-> NoPlace]
    /\ loading = [t \in TabIds |-> FALSE]
    /\ cur = NoPlace
    /\ nav = <<>>
    /\ composing = FALSE
    /\ ops = <<>>
    /\ latest = {} /\ unshown = FALSE

-----------------------------------------------------------------------------
(* Commands *)

\* The link at number n of the page; nothing happens without one.
Link(p, n) == IF n \in DOMAIN Links(p) THEN Links(p)[n] ELSE NoPlace

\* The user may give a command: in the line shell, when the last one is over.
Ready ==
    IF repl THEN Len(ops) < MaxLines /\ \A i \in DOMAIN ops : ~Flying(i)
            ELSE Len(ops) < MaxTasks

\* A task of the active tab awaits the answer for place p.
Awaits(stage, kind, p, push) ==
    /\ ops' = Append(ops, [stage |-> stage, kind |-> kind, tab |-> Here,
                           place |-> p, push |-> push])
    /\ loading' = [loading EXCEPT ![Here] = TRUE]

\* A task that has ended again at once, with a message.
Declined == loading' = [loading EXCEPT ![Here] = FALSE] /\ UNCHANGED ops

Open(p) ==
    /\ Ready
    /\ Awaits("fetch", "open", p, TRUE)
    /\ UNCHANGED <<uiVars, shown, cur, nav, loaded>>

Reload ==
    /\ Ready
    /\ ~repl
    /\ shown[Here] # NoPlace
    /\ Awaits("fetch", "open", shown[Here], FALSE)
    /\ UNCHANGED <<uiVars, shown, cur, nav, loaded>>

\* The tab has the link and the Shell goes there; the line shell takes any
\* number.
Follow(n) ==
    /\ Ready
    /\ repl \/ n \in DOMAIN Links(shown[Here])
    /\ IF Link(cur, n) # NoPlace
       THEN Awaits("fetch", "go", Link(cur, n), TRUE)
       ELSE Declined
    /\ UNCHANGED <<uiVars, shown, cur, nav, loaded>>

Home ==
    /\ Ready
    /\ IF cur # NoPlace
       THEN Awaits("fetch", "home", HomeOf[cur], TRUE)
       ELSE Declined
    /\ UNCHANGED <<uiVars, shown, cur, nav, loaded>>

\* The page is off the stack before it is fetched.
Back ==
    /\ Ready
    /\ IF nav # <<>>
       THEN Awaits("fetch", "back", Last(nav), FALSE) /\ nav' = Front(nav)
       ELSE Declined /\ UNCHANGED nav
    /\ UNCHANGED <<uiVars, shown, cur, loaded>>

Post ==
    /\ IF Dest(cur) # NoDest
       THEN Awaits("post", "post", cur, FALSE)
       ELSE Declined
    /\ UNCHANGED <<repl, tabs, active, shown, cur, nav, loaded>>

PostCommand == Ready /\ Post /\ UNCHANGED composing

OpenCompose ==
    /\ ~repl
    /\ Dest(cur) # NoDest
    /\ composing' = TRUE
    /\ UNCHANGED <<repl, tabs, active, shown, loading, cur, nav, ops, loaded>>

CancelCompose ==
    /\ composing
    /\ composing' = FALSE
    /\ UNCHANGED <<repl, tabs, active, shown, loading, cur, nav, ops, loaded>>

SendCompose ==
    /\ composing
    /\ composing' = FALSE
    /\ Ready /\ Post

-----------------------------------------------------------------------------
(* The end of the await *)

\* The end of run(): the tab no longer loads, whatever else it waits for.
Ends(i) ==
    /\ ops' = [ops EXCEPT ![i] = [stage |-> "over"]]
    /\ loading' = [loading EXCEPT ![ops[i].tab] = FALSE]

\* The post is stored; what is current by now is loaded again.
Posted(i) ==
    /\ i \in DOMAIN ops
    /\ ops[i].stage = "post"
    /\ ops' = [ops EXCEPT ![i].stage = "fetch", ![i].place = cur]
    /\ UNCHANGED <<uiVars, shown, loading, cur, nav, loaded>>

IsOpen(t) == t \in Range(tabs)

\* Variant: the history gets the page that is entered.
PushesTheNew(i) ==
    /\ i \in DOMAIN ops
    /\ ops[i].stage = "fetch"
    /\ nav' = IF ops[i].push /\ cur # NoPlace
              THEN Append(nav, ops[i].place) ELSE nav
    /\ cur' = ops[i].place
    /\ latest' = {ops[i].tab} \cap Range(tabs)
    /\ Ends(i)
    /\ UNCHANGED uiVars

\* The page is there and becomes the current one of the Shell.  The one before
\* it is pushed as it is now, and not as it was at the start.
Enters(i) ==
    /\ i \in DOMAIN ops
    /\ ops[i].stage = "fetch"
    /\ nav' = IF ops[i].push /\ cur # NoPlace THEN Append(nav, cur) ELSE nav
    /\ cur' = ops[i].place
    /\ latest' = {ops[i].tab} \cap Range(tabs)
    /\ Ends(i)
    /\ UNCHANGED uiVars

\* Variant: what was loaded for a closed tab goes to the one on the screen.
LoadsOnScreen(i) ==
    /\ Enters(i)
    /\ shown' = [shown EXCEPT ![IF IsOpen(ops[i].tab) THEN ops[i].tab ELSE Here]
                                = ops[i].place]
    /\ unshown' = FALSE

\* And it is shown, in the tab that asked for it.
Loaded(i) ==
    /\ Enters(i)
    /\ shown' = IF IsOpen(ops[i].tab)
                THEN [shown EXCEPT ![ops[i].tab] = ops[i].place] ELSE shown
    /\ unshown' = FALSE

\* It is a page of a board, whose mark is set before it is shown: the save of
\* the mark raises, and what is on the screen stays.
MarkFails(i) ==
    /\ Enters(i)
    /\ Dest(cur') # NoDest
    /\ unshown' = TRUE
    /\ UNCHANGED shown

\* Variant: the page is taken for the current one before it is there.
FailsGone(i) ==
    /\ i \in DOMAIN ops
    /\ ops[i].stage \in {"fetch", "post"}
    /\ cur' = ops[i].place
    /\ Ends(i)
    /\ UNCHANGED <<uiVars, shown, nav, loaded>>

\* fetch() or post() raises.
Fails(i) ==
    /\ i \in DOMAIN ops
    /\ ops[i].stage \in {"fetch", "post"}
    /\ Ends(i)
    /\ UNCHANGED <<uiVars, shown, cur, nav, loaded>>

-----------------------------------------------------------------------------
(* Tabs *)

\* A Tab object that no command holds either.
Fresh(t) == ~IsOpen(t) /\ \A i \in DOMAIN ops : Flying(i) => ops[i].tab # t

NewTab ==
    /\ ~repl
    /\ \E t \in TabIds : Fresh(t) /\ tabs' = Append(tabs, t)
    /\ active' = Len(tabs')
    /\ UNCHANGED <<repl, shown, loading, cur, nav, composing, ops, loaded>>

SelectTab(k) ==
    /\ ~repl
    /\ k \in DOMAIN tabs
    /\ active' = k
    /\ UNCHANGED <<repl, tabs, shown, loading, cur, nav, composing, ops, loaded>>

\* What is left of the tab is what its commands still hold.
Blank(t) ==
    /\ shown' = [shown EXCEPT ![t] = NoPlace]
    /\ loading' = [loading EXCEPT ![t] = FALSE]
    /\ latest' = latest \ {t} /\ UNCHANGED unshown

\* The last tab gives way to an empty one.
CloseOnly ==
    /\ ~repl
    /\ Len(tabs) = 1
    /\ \E t \in TabIds : Fresh(t) /\ tabs' = <<t>>
    /\ active' = 1
    /\ Blank(tabs[1])
    /\ UNCHANGED <<repl, cur, nav, composing, ops>>

\* Variant: the index stays, whatever was closed.
ClosesUnder(k) ==
    /\ ~repl
    /\ Len(tabs) > 1 /\ k \in DOMAIN tabs
    /\ tabs' = RemoveAt(tabs, k)
    /\ active' = IF active > Len(tabs') THEN Len(tabs') ELSE active
    /\ Blank(tabs[k])
    /\ UNCHANGED <<repl, cur, nav, composing, ops>>

CloseTab(k) ==
    /\ ~repl
    /\ Len(tabs) > 1 /\ k \in DOMAIN tabs
    /\ tabs' = RemoveAt(tabs, k)
    /\ active' = IF k > active \/ active = 1 THEN active ELSE active - 1
    /\ Blank(tabs[k])
    /\ UNCHANGED <<repl, cur, nav, composing, ops>>

-----------------------------------------------------------------------------
User ==
    \/ \E p \in Places : Open(p)
    \/ Reload
    \/ \E n \in LinkNumbers : Follow(n)
    \/ Home
    \/ Back
    \/ PostCommand
    \/ OpenCompose
    \/ CancelCompose
    \/ SendCompose
    \/ NewTab
    \/ CloseOnly
    \/ \E k \in DOMAIN tabs : SelectTab(k) \/ CloseTab(k)

Task(i) ==
    \/ Posted(i)
    \/ Loaded(i)
    \/ MarkFails(i)
    \/ Fails(i)

Next == User \/ \E i \in DOMAIN ops : Task(i)

Spec == Init /\ [][Next]_vars

-----------------------------------------------------------------------------
(* Properties *)

\* A page that was loaded turns up in the tab that asked for it or, when that
\* one was closed meanwhile, in none (_op_tab and _target_tab).
PagesStayInTheirTab ==
    [][\A t \in TabIds : shown'[t] \notin {shown[t], NoPlace} =>
          \E i \in DOMAIN ops : /\ ops[i].stage = "fetch"
                               /\ ops'[i].stage = "over"
                               /\ ops[i].tab = t /\ ops[i].place = shown'[t]]_vars

\* The tab on the screen changes when the user selects, opens or closes one,
\* and closing another leaves it there (the index arithmetic of _close_tab).
CloseKeepsActive ==
    [][\A t \in TabIds : IsOpen(t) /\ t # Here /\ ~IsOpen(t)'
          => Here' = Here]_vars

\* The tabs are distinct, the active one is among them; one that says it is
\* loading has a command that will end that (_spawn); and the page in the tab
\* that was loaded last is the current one of the Shell, where its links are
\* looked up (_follow) and its posts go, whatever fetches failed and whatever
\* tabs were closed since.  One failure parts them: when the mark of a page
\* cannot be saved (open_page), the Shell has gone to a page that is shown
\* nowhere, on a board, until the next page is loaded.  Other tabs show pages
\* whose links the Shell has no more.
ScreenHolds ==
    /\ tabs \in Seq(TabIds) /\ IsInjective(tabs)
    /\ active \in DOMAIN tabs
    /\ cur \in Places \cup {NoPlace} /\ nav \in Seq(Places)
    /\ \A i \in DOMAIN ops : Flying(i) => ops[i].place \in Places
    /\ \A t \in Range(tabs) :
         /\ loading[t] => \E i \in DOMAIN ops : Flying(i) /\ ops[i].tab = t
         /\ t \in latest => shown[t] = cur \/ unshown
    /\ unshown => Dest(cur) # NoDest

\* The pages to go back to, the one on its way included.
WayBack == {ops[i].place : i \in {j \in DOMAIN ops : /\ ops[j].stage = "fetch"
                                                    /\ ops[j].kind = "back"}}

Past == nav \o SetToSeq(WayBack)

H == INSTANCE History WITH page <- cur, past <- Past

\* The session of the line shell goes forth and back as History says, pages it
\* could not go back to being forgotten (open_page, list_pages and back of
\* Shell).  Several tabs share one history, of which nothing is promised.
HistoryHolds == H!Init /\ [][repl => H!Next \/ UNCHANGED <<cur, Past>>]_vars
=============================================================================
