------------------------------- MODULE Markup -------------------------------
(***************************************************************************)
(* The .vn text between the one who writes it and the one who reads it:    *)
(* what the server makes of a page (strip_server_directives), of a notice  *)
(* (_read_notice in render_index and render_threads) and of the posts of a *)
(* thread (render_thread), and what the client makes of that (parse,       *)
(* extract_links).                                                         *)
(*                                                                         *)
(* A line is what page.py tells apart: [kind |-> "text"] for all lines     *)
(* without a meaning of their own, headings and quotes included, "blank",  *)
(* "rule", "link" with a path, "allow", "seq", and "c" with a colour.      *)
(***************************************************************************)
EXTENDS Naturals, SequencesExt, Places

CONSTANTS
    LinkPaths,      \* paths of links
    MaxNotice,      \* MAX_PINNED_BYTES, in lines
    MaxWritten      \* bound: lines written

ASSUME MarkConstants == MaxNotice \in Nat

Colours == {"red", "cyan", "yellow"}
Default == ""

Text == [kind |-> "text"]
Blank == [kind |-> "blank"]
Rule == [kind |-> "rule"]
Allow == [kind |-> "allow"]
Seqs == [kind |-> "seq"]
Link(p) == [kind |-> "link", path |-> p]
C(colour) == [kind |-> "c", colour |-> colour]

\* What anyone may write; "purple" is no colour, C(Default) is !c alone.
Line == {Text, Blank, Rule, Allow, Seqs} \cup {Link(p) : p \in LinkPaths}
          \cup {C(c) : c \in {Default, "red", "purple"}}

VARIABLES
    sort,       \* what is written: "page", "motd", "pinned", "thread"
    parts,      \* its text, or those of the posts
    display       \* what the reader sees of it, or nothing yet

markVars == <<sort, parts, display>>

Unseen == [links |-> <<>>, lines |-> <<>>, open |-> FALSE]

-----------------------------------------------------------------------------
(* page.py *)

IsServerDirective(l) == l.kind = "allow"
IsClientDirective(l) == l.kind = "seq"

StripServerDirectives(text) ==
    AtPlaces(text, {i \in DOMAIN text : ~IsServerDirective(text[i])})

\* One line of parse: directives are consumed, the rest takes the colour that
\* is open; a word that is no colour closes it.
ParseLine(done, l) ==
    IF IsServerDirective(l) \/ IsClientDirective(l) THEN done
    ELSE IF l.kind = "c"
    THEN [done EXCEPT !.colour = IF l.colour \in Colours THEN l.colour ELSE Default]
    ELSE [done EXCEPT !.lines = Append(@, [line |-> l, colour |-> done.colour])]

Parsed(text) ==
    LET upTo[n \in 0 .. Len(text)] ==
          IF n = 0 THEN [lines |-> <<>>, colour |-> Default]
          ELSE ParseLine(upTo[n - 1], text[n])
    IN  upTo[Len(text)]

Parse(text) == Parsed(text).lines

ExtractLinks(text) ==
    LET links == AtPlaces(text, {i \in DOMAIN text : text[i].kind = "link"})
    IN  [i \in DOMAIN links |-> links[i].path]

-----------------------------------------------------------------------------
(* What the server renders *)

Trim(text) == SubSeq(text, 1, IF Len(text) < MaxNotice THEN Len(text) ELSE MaxNotice)

\* The last !c of a text opens a colour: any word counts.
LeavesOpen(text) ==
    \E i \in DOMAIN text :
      /\ text[i].kind = "c" /\ text[i].colour # Default
      /\ \A j \in i + 1 .. Len(text) : text[j].kind # "c"

NoBlanks(text) == AtPlaces(text, {i \in DOMAIN text : text[i] # Blank})

\* Variant: the colour is looked for before the text is trimmed.
LooksBeforeTrim(text) ==
    LET kept == NoBlanks(Trim(text))
    IN  IF LeavesOpen(text) THEN Append(kept, C(Default)) ELSE kept

\* _read_notice: what fits, without blank lines, and a colour that is left open
\* is closed.
ReadNotice(text) ==
    LET kept == NoBlanks(Trim(text))
    IN  IF LeavesOpen(kept) THEN Append(kept, C(Default)) ELSE kept

\* render_index: the notice of the day above the boards.
RenderIndex(motd) ==
    LET notice == ReadNotice(motd)
    IN  <<Text, Blank>> \o (IF notice = <<>> THEN <<>> ELSE Append(notice, Rule))
          \o <<Text>>

\* render_threads: the pinned notice in yellow above the threads.
RenderPinned(pinned) ==
    LET notice == ReadNotice(pinned)
    IN  <<Text, Seqs, Blank>>
          \o (IF notice = <<>> THEN <<>>
              ELSE <<C("yellow")>> \o notice \o <<C(Default), Rule>>)
          \o <<Text>>

\* A post of render_thread: its author in cyan, its text, a rule.
RenderPost(post) ==
    <<C("cyan"), Text, C(Default)>> \o (IF post = <<>> THEN <<Blank>> ELSE post) \o <<Rule>>

RenderPosts(posts) ==
    LET page[n \in 0 .. Len(posts)] ==
          IF n = 0 THEN <<Text, Seqs, Blank>> ELSE page[n - 1] \o RenderPost(posts[n])
    IN  page[Len(posts)] \o <<Text>>

Wire ==
    CASE sort = "page" -> StripServerDirectives(parts[1])
      [] sort = "motd" -> RenderIndex(parts[1])
      [] sort = "pinned" -> RenderPinned(parts[1])
      [] sort = "thread" -> RenderPosts(parts)

-----------------------------------------------------------------------------

MarkInit ==
    /\ sort \in {"page", "motd", "pinned", "thread"}
    /\ parts = <<<<>>>>
    /\ display = Unseen

Written == FoldLeft(LAMBDA n, p : n + Len(p), Len(parts), parts)

\* A line is added; a text that is read again is another one.
WriteLine(l) ==
    /\ ~display.open
    /\ Written <= MaxWritten
    /\ parts' = [parts EXCEPT ![Len(parts)] = Append(@, l)]
    /\ UNCHANGED <<sort, display>>

NextPost ==
    /\ sort = "thread" /\ ~display.open
    /\ Written <= MaxWritten
    /\ parts' = Append(parts, <<>>)
    /\ UNCHANGED <<sort, display>>

\* open_page: the links are taken from the text, the lines from its parse.
Read ==
    /\ ~display.open
    /\ display' = [links |-> ExtractLinks(Wire), lines |-> Parse(Wire), open |-> TRUE]
    /\ UNCHANGED <<sort, parts>>

MarkNext == (\E l \in Line : WriteLine(l)) \/ NextPost \/ Read

-----------------------------------------------------------------------------
(* Properties *)

\* The colour README gives a line: that of the last !c above it.
ColourAbove(text, i) ==
    LET last == {j \in 1 .. i - 1 : /\ text[j].kind = "c" /\ text[j].colour \in Colours
                                   /\ \A k \in j + 1 .. i - 1 : text[k].kind # "c"}
    IN  IF last = {} THEN Default ELSE text[CHOOSE j \in last : TRUE].colour

\* The places of the lines of a text that are there to be read.
Plain(text) ==
    AtPlaces([i \in DOMAIN text |-> i],
             {i \in DOMAIN text : text[i].kind \notin {"allow", "seq", "c"}})

\* The lines that name an author.
Heads(lines) ==
    AtPlaces([i \in DOMAIN lines |-> i], {i \in DOMAIN lines : lines[i].colour = "cyan"})

\* A page is read as it was written: every line that is no directive, in order
\* and in the colour of the last !c above it, though !allow was taken off on
\* the way; and the links that are numbered are those that are shown.  What an
\* operator or an author writes into a board colours nothing outside it: the
\* list below a notice is plain, and a post and its author look the same
\* whatever stands in the posts above.
ShownAsWritten ==
    display.open =>
      /\ sort = "page" =>
           display.lines = [k \in DOMAIN Plain(parts[1]) |->
                            [line |-> parts[1][Plain(parts[1])[k]],
                             colour |-> ColourAbove(parts[1], Plain(parts[1])[k])]]
      /\ display.links = LET at == AtPlaces(display.lines, {i \in DOMAIN display.lines :
                                                     display.lines[i].line.kind = "link"})
                       IN  [k \in DOMAIN at |-> at[k].line.path]
      /\ sort \in {"motd", "pinned"} => Last(display.lines).colour = Default
      /\ sort = "thread" =>
           \E heads \in {Heads(display.lines)} :
             /\ Len(heads) = Len(parts)
             /\ \A k \in DOMAIN parts :
                  SubSeq(display.lines, heads[k], heads[k] + Len(Parse(parts[k]))) =
                    <<[line |-> Text, colour |-> "cyan"]>> \o Parse(parts[k])
=============================================================================
