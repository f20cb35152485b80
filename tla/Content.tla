------------------------------ MODULE Content -------------------------------
(***************************************************************************)
(* What a server has to offer and how it is asked for: its pages and files *)
(* (_load_content, _load_board_page, _list_downloads, _allowed), the       *)
(* client that lists and opens them (list_pages, open_page, get_file,      *)
(* _safe_download_path), and the operator, who edits them meanwhile.  The  *)
(* path of a link decides at either end what it is a link to.              *)
(*                                                                         *)
(* What the two ends look at in a path is given by sets of paths.  A page  *)
(* is the keys of its !allow lines, or does not decode.  A fetch returns   *)
(* what there was at one instant (PageRead), so it is one step.            *)
(***************************************************************************)
EXTENDS Naturals, FiniteSets, SequencesExt

CONSTANTS
    Paths,          \* paths of files, of links, and what a user types
    VnPaths,        \* they end in .vn
    BoardPaths,     \* b, or below b/
    ThereBoards,    \* those of them some board has a page for
    FilesPath,      \* "files"
    DotPaths,       \* a part of them begins with a dot
    OutPaths,       \* they begin with a slash or lead out of the directory
    OddPaths,       \* a link cannot hold them: a bracket in the name
    Readers,        \* prefixes of clients
    Words,          \* words after !allow: the readers whose prefix begins alike
    MaxEdits        \* bound: changes the operator makes

ASSUME ContentConstants ==
    /\ VnPaths \subseteq Paths /\ FilesPath \in Paths \ VnPaths
    /\ ThereBoards \subseteq BoardPaths /\ BoardPaths \subseteq Paths
    /\ DotPaths \subseteq Paths /\ OutPaths \subseteq Paths
    /\ OddPaths \subseteq Paths
    /\ Words \subseteq SUBSET Readers

VARIABLES
    pages,      \* pages_dir: the .vn files
    downloads,  \* downloads_dir
    transfers,  \* enable_file_transfer
    reader,     \* the client's prefix
    view,       \* the page on the screen: its kind and its links
    got,        \* the last answer, or what was saved
    same,       \* history: nothing was changed since the view was fetched
    edits

siteVars == <<pages, downloads, transfers, edits>>
contentVars == <<siteVars, reader, view, got, same>>

\* The !allow lines of a page: none, one or two; a line may be empty.
AllowLines == {<<>>} \cup {<<a>> : a \in SUBSET Words}
                \cup {<<a, b>> : a, b \in SUBSET Words}
PageFile == [is : {"text"}, allow : AllowLines]
              \cup [is : {"missing", "garbled"}, allow : {<<>>}]
NoFile == [is |-> "missing", allow |-> <<>>]

Files == {p \in VnPaths : pages[p] # NoFile}
Garbled(p) == pages[p].is = "garbled"

-----------------------------------------------------------------------------
(* The server *)

Refusal(status) == [kind |-> status, of |-> FilesPath, links |-> {}]

\* Variant: the last line of keys stands for all of them.
AllowedByTheLast(lines, r) ==
    LET words == IF lines = <<>> THEN {} ELSE lines[Len(lines)]
    IN  words = {} \/ \E k \in words : r \in k

\* _allowed: the words of all lines together; no word is no restriction.
Allowed(lines, r) ==
    LET words == UNION Range(lines)
    IN  words = {} \/ \E k \in words : r \in k

\* Variant: a page is listed for everybody.
ListsAll ==
    [kind |-> "pages", of |-> FilesPath,
     links |-> {p \in Files : ~Garbled(p)} \ OddPaths]

\* Pages that do not decode or are not for this client are left out.
ListPages ==
    [kind |-> "pages", of |-> FilesPath,
     links |-> {p \in Files : ~Garbled(p) /\ Allowed(pages[p].allow, reader)} \ OddPaths]

ListDownloads ==
    [kind |-> "files", of |-> FilesPath, links |-> downloads \ OddPaths]

\* GET_PAGE: the listing of the files and the boards come before the pages.
LoadPage(p) ==
    IF p = FilesPath
    THEN IF transfers THEN ListDownloads ELSE Refusal("ACCESS_DENIED")
    ELSE IF p \in BoardPaths
    THEN IF p \in ThereBoards THEN [kind |-> "board", of |-> p, links |-> {}]
         ELSE Refusal("NOT_FOUND")
    ELSE IF p \in OutPaths THEN Refusal("ACCESS_DENIED")
    ELSE IF p \notin Files THEN Refusal("NOT_FOUND")
    ELSE IF Garbled(p) THEN Refusal("ERROR")
    ELSE IF ~Allowed(pages[p].allow, reader) THEN Refusal("ACCESS_DENIED")
    ELSE [kind |-> "page", of |-> p, links |-> {}]

\* GET_FILE
LoadFile(p) ==
    IF ~transfers \/ p \in OutPaths THEN Refusal("ACCESS_DENIED")
    ELSE IF p \notin downloads THEN Refusal("NOT_FOUND")
    ELSE [kind |-> "file", of |-> p, links |-> {}]

-----------------------------------------------------------------------------
(* The client *)

IsPagePath(p) == p = FilesPath \/ p \in VnPaths \cup BoardPaths

SafeDownloadPath(p) == p \notin DotPaths \cup OutPaths

Shown == {"page", "board", "pages", "files"}

\* A page that is served is shown; anything else leaves the screen as it is.
Comes(how, p, answer) ==
    /\ got' = [how |-> how, path |-> p, answer |-> answer.kind, of |-> answer.of,
               from |-> IF same /\ p \in view.links THEN view.kind ELSE "none",
               lines |-> IF answer.kind = "page" THEN pages[answer.of].allow ELSE <<>>]
    /\ view' = IF answer.kind \in Shown THEN answer ELSE view
    /\ same' = (same \/ answer.kind \in Shown)
    /\ UNCHANGED <<siteVars, reader>>

\* ls, and going back to a listing.
List == Comes("ls", FilesPath, ListPages)

\* open_page with a path from a link, the command line or a favourite.
OpenPage(p) == IsPagePath(p) /\ Comes("open", p, LoadPage(p))

Download(p) ==
    /\ ~IsPagePath(p)
    /\ Comes("open", p, IF SafeDownloadPath(p) THEN LoadFile(p) ELSE Refusal("unsafe"))

\* get, which looks at the path no further.
GetFile(p) == Comes("get", p, LoadFile(p))

\* The link or the server fails: nothing changes.
FetchFails == UNCHANGED contentVars

-----------------------------------------------------------------------------
(* The operator *)

Edits ==
    /\ edits < MaxEdits
    /\ edits' = edits + 1
    /\ same' = FALSE
    /\ UNCHANGED <<reader, view, got>>

EditPage(p) ==
    /\ Edits
    /\ \E f \in PageFile \ {pages[p]} : pages' = [pages EXCEPT ![p] = f]
    /\ UNCHANGED <<downloads, transfers>>

EditDownload(p) ==
    /\ Edits
    /\ downloads' = IF p \in downloads THEN downloads \ {p} ELSE downloads \cup {p}
    /\ UNCHANGED <<pages, transfers>>

\* The server is restarted with another configuration.
Reconfigure ==
    /\ Edits
    /\ transfers' = ~transfers
    /\ UNCHANGED <<pages, downloads>>

-----------------------------------------------------------------------------

\* Two empty directories; nothing is asked yet.
ContentInit ==
    /\ pages = [p \in VnPaths |-> NoFile]
    /\ downloads = {}
    /\ transfers \in BOOLEAN
    /\ reader \in Readers
    /\ view = [kind |-> "none", of |-> FilesPath, links |-> {}]
    /\ got = [how |-> "none", path |-> FilesPath, answer |-> "none",
              of |-> FilesPath, from |-> "none", lines |-> <<>>]
    /\ same = FALSE /\ edits = 0

ContentNext ==
    \/ List
    \/ \E p \in Paths : OpenPage(p) \/ Download(p) \/ GetFile(p)
    \/ FetchFails
    \/ \E p \in VnPaths : EditPage(p)
    \/ \E p \in Paths : EditDownload(p)
    \/ Reconfigure

-----------------------------------------------------------------------------
(* Properties *)

\* What a listing offers can be had: whoever follows a link of ls gets that
\* page, and of "files" that file, unless something was changed meanwhile; but
\* for pages in a directory that is taken for a board, for what is linked into
\* a directory from outside, and for files that the client takes for pages or
\* does not save.  The rules are in four files of the code.
ListedOpens ==
    got.how = "open" =>
      /\ got.from = "pages" =>
           \/ got.answer = "page" /\ got.of = got.path
           \/ got.path \in BoardPaths \cup OutPaths
      /\ got.from = "files" =>
           \/ got.answer = "file" /\ got.of = got.path
           \/ IsPagePath(got.path) \/ got.path \in DotPaths \cup OutPaths

KeptFrom(lines, r) ==
    /\ \E i \in DOMAIN lines : lines[i] # {}
    /\ \A i \in DOMAIN lines : \A k \in lines[i] : r \notin k

\* README: a page whose !allow lines name somebody, and not this client, is not
\* sent to it and not named by ls, wherever in the page the lines stand.
AllowKeepsOut ==
    /\ got.answer = "page" => ~KeptFrom(got.lines, reader)
    /\ view.kind = "pages" /\ same =>
         \A p \in view.links : ~Garbled(p) /\ ~KeptFrom(pages[p].allow, reader)
=============================================================================
