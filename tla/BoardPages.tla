----------------------------- MODULE BoardPages -----------------------------
(***************************************************************************)
(* The pages of a board (render_threads, render_thread, render_archive,    *)
(* render_month, _load_board_page) and a reader who follows their links    *)
(* and posts (Shell.open_page, enter_board, post), while others post.      *)
(*                                                                         *)
(* The log is the one Board describes: posts[i] is the thread of post i.   *)
(* A page is the threads it lists, the links it offers and the last number *)
(* it says it reflects; all posts are of one month.  A fetch returns the page as it     *)
(* stood at one instant (PageRead), so opening a page is one step.         *)
(***************************************************************************)
EXTENDS Naturals, Sequences, FiniteSets, FiniteSetsExt

CONSTANTS
    ThreadsPerPage, \* MAX_THREADS_PER_PAGE
    PostsPerPage,   \* MAX_POSTS_PER_PAGE
    MaxPosts        \* bound: posts in the board

ASSUME PageConstants ==
    ThreadsPerPage \in Nat \ {0} /\ PostsPerPage \in Nat \ {0}

VARIABLES
    posts,      \* the log
    path,       \* current_path
    links,      \* current_links, those into the board
    seen,       \* config.seen
    walk        \* history: the paging under way

pagesVars == <<posts, path, links, seen, walk>>

-----------------------------------------------------------------------------
(* Paths *)

Elsewhere == [at |-> "elsewhere"]
Threads(since, before) == [at |-> "threads", since |-> since, before |-> before]
Thread(t) == [at |-> "thread", thread |-> t]
More(t, since) == [at |-> "more", thread |-> t, since |-> since]
Archive == [at |-> "archive"]
Month == [at |-> "month"]

FrontPage == Threads(0, 0)

-----------------------------------------------------------------------------
(* The pages of a board b *)

Of(b, t) == {i \in DOMAIN b : b[i] = t}

\* The last post of each thread.
Tips(b) == {i \in DOMAIN b : \A j \in DOMAIN b : b[j] = b[i] => j <= i}

\* The first n of a set, from the top or from the bottom.
Top(S, n) == {x \in S : Cardinality({y \in S : y > x}) < n}
Bottom(S, n) == {x \in S : Cardinality({y \in S : y < x}) < n}

Page(lists, offers, seq) ==
    [lists |-> lists, links |-> offers, seq |-> seq]

\* Variant: a listed thread is linked by its last post.
LinksByTip(b, since, before) ==
    LET tips == {i \in Tips(b) : (since > 0 => i > since) /\ (before > 0 => i < before)}
        kept == Top(tips, ThreadsPerPage)
        older == IF kept = tips THEN {} ELSE {Threads(0, Min(kept))}
        archive == IF b # <<>> /\ since = 0 /\ before = 0 THEN {Archive} ELSE {}
    IN  Page({b[i] : i \in kept}, {Thread(i) : i \in kept} \cup older \cup archive,
             Len(b))

\* Variant: the older link names the first thread that was left out.
SkipsOne(b, since, before) ==
    LET tips == {i \in Tips(b) : (since > 0 => i > since) /\ (before > 0 => i < before)}
        kept == Top(tips, ThreadsPerPage)
        older == IF kept = tips THEN {} ELSE {Threads(0, Max(tips \ kept))}
        archive == IF b # <<>> /\ since = 0 /\ before = 0 THEN {Archive} ELSE {}
    IN  Page({b[i] : i \in kept}, {Thread(b[i]) : i \in kept} \cup older \cup archive,
             Len(b))

\* render_threads: threads that moved after since, or before before, the most
\* recent first, and a link to the rest.
RenderThreads(b, since, before) ==
    LET tips == {i \in Tips(b) : (since > 0 => i > since) /\ (before > 0 => i < before)}
        kept == Top(tips, ThreadsPerPage)
        older == IF kept = tips THEN {} ELSE {Threads(0, Min(kept))}
        archive == IF b # <<>> /\ since = 0 /\ before = 0 THEN {Archive} ELSE {}
    IN  Page({b[i] : i \in kept}, {Thread(b[i]) : i \in kept} \cup older \cup archive,
             Len(b))

\* render_thread: its first posts, and a link to the rest.
RenderThread(b, t) ==
    LET shown == Bottom(Of(b, t), PostsPerPage)
        more == IF shown = Of(b, t) THEN {} ELSE {More(t, Max(shown))}
    IN  Page({}, more \cup {FrontPage}, Len(b))

\* render_archive and render_month do not say which posts they reflect.
RenderArchive(b) == Page({}, (IF b = <<>> THEN {} ELSE {Month}) \cup {FrontPage}, 0)

RenderMonth(b) ==
    LET kept == Top(Tips(b), ThreadsPerPage)
    IN  Page({b[i] : i \in kept}, {Thread(b[i]) : i \in kept} \cup {Archive}, 0)

\* _load_board_page: what follows the second slash is a number, or the archive;
\* a thread with a position is neither.
Served(b, p) ==
    CASE p.at = "thread" -> Of(b, p.thread) # {}
      [] p.at = "more" -> FALSE
      [] OTHER -> TRUE

Render(b, p) ==
    CASE p.at = "threads" -> RenderThreads(b, p.since, p.before)
      [] p.at = "thread" -> RenderThread(b, p.thread)
      [] p.at = "archive" -> RenderArchive(b)
      [] p.at = "month" -> RenderMonth(b)

-----------------------------------------------------------------------------
(* The reader *)

NoWalk == [since |-> 0, top |-> 0, listed |-> {}, done |-> FALSE]

PagesInit ==
    /\ posts = <<>>
    /\ path = Elsewhere /\ links = {} /\ seen = 0
    /\ walk = NoWalk

\* A first page of threads begins a paging, an older link carries it on.
WalkAfter(p, page) ==
    LET done == \A l \in page.links : l.at = "threads" => l.before = 0
    IN  IF p.at = "threads" /\ p.before = 0
        THEN [since |-> p.since, top |-> page.seq, listed |-> page.lists, done |-> done]
        ELSE IF p.at = "threads" /\ p \in links
        THEN [walk EXCEPT !.listed = @ \cup page.lists, !.done = done]
        ELSE NoWalk

\* open_page: a page that is served becomes the current one, and what it says
\* of the board is marked seen.
Show(b, p) ==
    LET page == Render(b, p)
    IN  /\ path' = p
        /\ links' = page.links
        /\ seen' = IF page.seq > seen THEN page.seq ELSE seen
        /\ walk' = WalkAfter(p, page)

\* enter_board, with or without unread_only, or a link of the current page.
Open ==
    \E p \in {FrontPage, Threads(seen, 0)} \cup links :
      /\ Served(posts, p)
      /\ Show(posts, p)
      /\ UNCHANGED posts

\* The fetch fails and nothing else happens.
OpenFails ==
    /\ \E p \in links : ~Served(posts, p)
    /\ UNCHANGED pagesVars

\* Shell.post: a reply where a thread is open, else a new thread; the page is
\* opened again.
Post ==
    /\ Len(posts) < MaxPosts
    /\ path.at \in {"threads", "thread"}
    /\ posts' = Append(posts, IF path.at = "thread" THEN path.thread
                              ELSE Len(posts) + 1)
    /\ Show(posts', path)

\* From the archive the post goes to a thread named "archive": the server
\* turns it down.
PostRejected ==
    /\ path.at \in {"archive", "month"}
    /\ UNCHANGED pagesVars

\* Others post, to a new thread or one that is there.
OthersPost ==
    /\ Len(posts) < MaxPosts
    /\ \E t \in {posts[i] : i \in DOMAIN posts} \cup {Len(posts) + 1} :
         posts' = Append(posts, t)
    /\ UNCHANGED <<path, links, seen, walk>>

PagesNext == Open \/ OpenFails \/ Post \/ PostRejected \/ OthersPost

-----------------------------------------------------------------------------
(* Properties *)

\* A reader who pages back to the end, from the front page or from a catch-up
\* page, while others post: every thread that moved after since was listed,
\* or has moved again since the first page.
PagingMissesNothing ==
    walk.done =>
      \A i \in Tips(posts) :
        walk.since < i /\ i <= walk.top => posts[i] \in walk.listed

\* Whatever was posted since a page was rendered, its links are served; but
\* for the one to the rest of a thread, which no server understands.
LinksStayServed == \A l \in links : l.at = "more" \/ Served(posts, l)
=============================================================================
