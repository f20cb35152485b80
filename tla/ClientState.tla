---------------------------- MODULE ClientState -----------------------------
(***************************************************************************)
(* What a client remembers: ClientConfig, loaded once when a Shell starts, *)
(* changed by its commands and saved whole, in place, after each change;   *)
(* and the marks of what was read on a board (mark_seen), which open_page  *)
(* sets under the server as it was typed, a saved name or a public key,    *)
(* once the page it asked for is there.                                    *)
(*                                                                         *)
(* Several clients of one user share the file and nothing locks it.  A     *)
(* save empties the file and then writes: the process may end in between,  *)
(* the disk may be full, or another process may write there meanwhile.     *)
(* Each server has one board, and all that counts of it is how many posts  *)
(* it has: every page of a board says the number of the last one.          *)
(***************************************************************************)
EXTENDS Naturals, FiniteSets

CONSTANTS
    Processes,  \* clients of one user
    Names,      \* names a server may be saved under
    Keys,       \* public keys of servers
    Off,        \* a process that does not run
    Absent, Torn,   \* a file that is not there, or cannot be read
    MaxPosts,   \* bound: posts in a board
    MaxOps,     \* bound: commands
    MaxTabs,    \* bound: pages asked for and not yet shown, of one client
    MaxCuts     \* bound: processes that end while they run, saves that fail

Typed == Names \cup Keys

Configs == [servers : [Names -> Keys \cup {"none"}], seen : [Typed -> 0 .. MaxPosts],
            favorites : SUBSET Typed]

\* A name is not the key of a server.
ASSUME StateConstants ==
    /\ "none" \notin Keys /\ Names \cap Keys = {}
    /\ Absent # Torn /\ {Off, Absent, Torn} \cap Configs = {}
    /\ MaxPosts \in Nat \ {0}

VARIABLES
    file,       \* Absent, Torn or a configuration
    mem,        \* the configuration of each process, or Off
    saving,     \* "no", or a save that has emptied the file: "open", or "over"
                \* once another process has written since
    asked,      \* the pages each has asked for: the server, typed and resolved
    posts,      \* the posts of each server's board
    ops, cuts,
    alone,      \* history: no other process ran since this one loaded
    spoilt,     \* history: a save was cut short or failed, or two overlapped
    repointed   \* history: names that stood for more than one server

history == <<alone, spoilt, repointed>>
stateVars == <<file, mem, saving, asked, posts, ops, cuts, history>>

Empty == [servers |-> [n \in Names |-> "none"], seen |-> [t \in Typed |-> 0],
          favorites |-> {}]

StateInit ==
    /\ file = Absent
    /\ mem = [p \in Processes |-> Off]
    /\ saving = [p \in Processes |-> "no"]
    /\ asked = [p \in Processes |-> {}]
    /\ posts = [k \in Keys |-> 1]
    /\ ops = 0 /\ cuts = 0
    /\ alone = [p \in Processes |-> FALSE]
    /\ spoilt = FALSE /\ repointed = {}

Runs(p) == mem[p] # Off
Free(p) == Runs(p) /\ saving[p] = "no"

\* resolve_server: the name, or what was typed is the key.
Resolve(config, t) ==
    IF t \in Names /\ config.servers[t] # "none" THEN config.servers[t] ELSE t

-----------------------------------------------------------------------------
(* load and save *)

\* ClientConfig.load.
Starts(p) ==
    /\ ~Runs(p) /\ file # Torn
    /\ ops < MaxOps /\ ops' = ops + 1
    /\ mem' = [mem EXCEPT ![p] = IF file = Absent THEN Empty ELSE file]
    /\ alone' = [q \in Processes |-> q = p /\ \A r \in Processes : ~Runs(r)]
    /\ UNCHANGED <<file, saving, asked, posts, cuts, spoilt, repointed>>

\* json.loads raises: no client starts on what is left of a save.
StartFails(p) ==
    /\ ~Runs(p) /\ file = Torn
    /\ UNCHANGED stateVars

\* A change and the first half of save(): the file is there, and empty.
Saves(p, config) ==
    /\ mem' = [mem EXCEPT ![p] = config]
    /\ saving' = [saving EXCEPT ![p] = "open"]
    /\ file' = Torn
    /\ spoilt' = (spoilt \/ \E q \in Processes : saving[q] # "no")

\* The text is written, over the beginning of what another process wrote since.
SaveEnds(p) ==
    /\ saving[p] # "no"
    /\ \/ file' = mem[p]
       \/ saving[p] = "over" /\ file' = Torn
    /\ saving' = [q \in Processes |->
                    IF q = p THEN "no"
                    ELSE IF saving[q] = "open" THEN "over" ELSE saving[q]]
    /\ UNCHANGED <<mem, asked, posts, ops, cuts, history>>

\* The disk is full: the command raises, the process goes on.
SaveFails(p) ==
    /\ saving[p] # "no"
    /\ cuts < MaxCuts /\ cuts' = cuts + 1
    /\ saving' = [saving EXCEPT ![p] = "no"]
    /\ spoilt' = TRUE
    /\ UNCHANGED <<file, mem, asked, posts, ops, alone, repointed>>

Ends(p) ==
    /\ Runs(p)
    /\ saving[p] # "no" => cuts < MaxCuts
    /\ cuts' = IF saving[p] # "no" THEN cuts + 1 ELSE cuts
    /\ mem' = [mem EXCEPT ![p] = Off]
    /\ saving' = [saving EXCEPT ![p] = "no"]
    /\ asked' = [asked EXCEPT ![p] = {}]
    /\ alone' = [alone EXCEPT ![p] = FALSE]
    /\ spoilt' = (spoilt \/ saving[p] # "no")
    /\ UNCHANGED <<file, posts, ops, repointed>>

-----------------------------------------------------------------------------
(* Commands *)

Command(p) == Free(p) /\ ops < MaxOps /\ ops' = ops + 1

\* connect: set_last_connection saves the configuration as it is.
Connect(p) ==
    /\ Command(p)
    /\ Saves(p, mem[p])
    /\ UNCHANGED <<asked, posts, cuts, alone, repointed>>

\* add_server overwrites what the name stood for; whose marks those of a name
\* without a server are is not known.
AddServer(p, n, k) ==
    /\ Command(p)
    /\ Saves(p, [mem[p] EXCEPT !.servers[n] = k])
    /\ repointed' = IF \/ mem[p].servers[n] \notin {k, "none"}
                       \/ mem[p].servers[n] = "none" /\ mem[p].seen[n] > 0
                       \/ \E a \in asked[p] : a.typed = n /\ a.key # k
                    THEN repointed \cup {n} ELSE repointed
    /\ UNCHANGED <<asked, posts, cuts, alone>>

\* remove_server keeps the marks of the name, and the favourites that use it.
RemoveServer(p, n) ==
    /\ Command(p)
    /\ mem[p].servers[n] # "none"
    /\ Saves(p, [mem[p] EXCEPT !.servers[n] = "none"])
    /\ UNCHANGED <<asked, posts, cuts, alone, repointed>>

AddFavorite(p, t) ==
    /\ Command(p)
    /\ t \notin mem[p].favorites
    /\ Saves(p, [mem[p] EXCEPT !.favorites = @ \cup {t}])
    /\ UNCHANGED <<asked, posts, cuts, alone, repointed>>

\* Variant: the favourite is forgotten in memory only.
ForgetsInMemory(p, t) ==
    /\ Command(p)
    /\ t \in mem[p].favorites
    /\ mem' = [mem EXCEPT ![p].favorites = @ \ {t}]
    /\ UNCHANGED <<file, saving, asked, posts, cuts, history>>

RemoveFavorite(p, t) ==
    /\ Command(p)
    /\ t \in mem[p].favorites
    /\ Saves(p, [mem[p] EXCEPT !.favorites = @ \ {t}])
    /\ UNCHANGED <<asked, posts, cuts, alone, repointed>>

-----------------------------------------------------------------------------
(* Reading a board *)

\* open_page resolves the server and waits for the page.
Ask(p, t) ==
    /\ Command(p)
    /\ Cardinality(asked[p]) < MaxTabs
    /\ Resolve(mem[p], t) \in Keys
    /\ asked' = [asked EXCEPT ![p] = @ \cup
                   {[typed |-> t, key |-> Resolve(mem[p], t), seq |-> 0]}]
    /\ UNCHANGED <<file, mem, saving, posts, cuts, history>>

\* The server renders the page; it is on its way.
Rendered(p, a) ==
    /\ a.seq = 0
    /\ asked' = [asked EXCEPT ![p] = (@ \ {a}) \cup {[a EXCEPT !.seq = posts[a.key]]}]
    /\ UNCHANGED <<file, mem, saving, posts, ops, cuts, history>>

\* Variant: the mark is kept under the server of the page on the screen.
MarksTheScreen(p, a) ==
    /\ Free(p) /\ a.seq # 0
    /\ asked' = [asked EXCEPT ![p] = @ \ {a}]
    /\ \E b \in asked[p] :
         IF a.seq > mem[p].seen[b.typed]
         THEN Saves(p, [mem[p] EXCEPT !.seen[b.typed] = a.seq])
         ELSE UNCHANGED <<file, mem, saving, spoilt>>
    /\ UNCHANGED <<posts, ops, cuts, alone, repointed>>

\* The page is there: mark_seen, only upwards, and only then a save.
Shown(p, a) ==
    /\ Free(p) /\ a.seq # 0
    /\ asked' = [asked EXCEPT ![p] = @ \ {a}]
    /\ IF a.seq > mem[p].seen[a.typed]
       THEN Saves(p, [mem[p] EXCEPT !.seen[a.typed] = a.seq])
       ELSE UNCHANGED <<file, mem, saving, spoilt>>
    /\ UNCHANGED <<posts, ops, cuts, alone, repointed>>

\* The fetch fails.
Dropped(p, a) ==
    /\ asked' = [asked EXCEPT ![p] = @ \ {a}]
    /\ UNCHANGED <<file, mem, saving, posts, ops, cuts, history>>

OthersPost(k) ==
    /\ posts[k] < MaxPosts
    /\ posts' = [posts EXCEPT ![k] = @ + 1]
    /\ UNCHANGED <<file, mem, saving, asked, ops, cuts, history>>

StateNext ==
    \/ \E p \in Processes :
         \/ Starts(p) \/ StartFails(p) \/ SaveEnds(p) \/ SaveFails(p) \/ Ends(p)
         \/ Connect(p)
         \/ \E n \in Names : RemoveServer(p, n) \/ \E k \in Keys : AddServer(p, n, k)
         \/ \E t \in Typed : AddFavorite(p, t) \/ RemoveFavorite(p, t) \/ Ask(p, t)
         \/ \E a \in asked[p] : Rendered(p, a) \/ Shown(p, a) \/ Dropped(p, a)
    \/ \E k \in Keys : OthersPost(k)

StateSpec == StateInit /\ [][StateNext]_stateVars

-----------------------------------------------------------------------------
(* Properties *)

\* What a client that runs alone was told to remember is in the file as soon as
\* the command is through, and the file can be read whenever nobody is saving,
\* unless a save was cut short, failed or met another.
SavedIsSaved ==
    /\ mem \in [Processes -> {Off} \cup Configs]
    /\ ~spoilt =>
         /\ (\A p \in Processes : saving[p] = "no") => file # Torn
         /\ \A p \in Processes : Free(p) /\ alone[p] /\ file # Absent => file = mem[p]

\* "only what arrived after <seq>": the catch-up page of a board leaves nothing
\* out, since a mark is never beyond the last post of the very server it is
\* used for, however pages of several tabs overtake each other; unless the name
\* it is kept under came to stand for another server.
MarkIsOfItsServer ==
    \A p \in Processes : Runs(p) =>
      \A t \in Typed \ repointed :
        Resolve(mem[p], t) \in Keys => mem[p].seen[t] <= posts[Resolve(mem[p], t)]
=============================================================================
