------------------------------ MODULE BoardLog ------------------------------
(***************************************************************************)
(* The log of one board, posts.jsonl: append_post reads the file, numbers  *)
(* the post after the last one it could read and appends a row.  The       *)
(* server does so for posts from the mesh (_commit_post), the operator's   *)
(* script (post.py) in a process of its own; nothing locks the file.       *)
(*                                                                         *)
(* A row is what the readers make of it: "whole", "split" (its text has a  *)
(* character str.splitlines takes for a line end, and json.dumps leaves as *)
(* it is) or "long" (more than the window last_seq reads at the end of the *)
(* file).  Lines that were never rows are left out.  A write may stop half *)
(* way: the process or the machine dies, or the disk is full.              *)
(*                                                                         *)
(* A client opens the board, which is read whole, and marks its last       *)
(* number seen; the list of boards takes that number from the end of the   *)
(* file, and what it is ahead of the mark is called unread.                *)
(***************************************************************************)
EXTENDS Naturals, Sequences, FiniteSets, Places

CONSTANTS
    Writers,    \* the server, the operator's scripts
    Texts,      \* looks of the rows that are written
    Tears,      \* how a write may stop: "cut", "bare", "midchar"
    MaxBegun,   \* bound: posts begun
    MaxTears    \* bound: writes that stop half way

Looks == {"whole", "split", "long"}

ASSUME LogConstants ==
    /\ Texts \subseteq Looks
    /\ Tears \subseteq {"cut", "bare", "midchar"}
    /\ MaxBegun \in Nat /\ MaxTears \in Nat

VARIABLES
    rows,       \* the rows of the file some reader can parse
    tail,       \* how the file ends: "closed", "cut" (part of a row) or
                \* "bare" (a row without its newline)
    broken,     \* a character was cut in two: the file is no longer UTF-8
    junk,       \* what follows the last row and parses for nobody: "none",
                \* "short", or "long", which may fill the window of last_seq
    pending,    \* what each writer is about to append
    begun, tears,
    mark,       \* config.seen of the client
    reported,   \* history: posts reported as stored
    shown,      \* history: the highest number a page of the board has shown
    raced,      \* history: the log was read while another post was pending
    bared,      \* history: a write lost its newline and nothing else
    read        \* history: the posts on the page of the board seen last

history == <<shown, raced, bared>>
clientVars == <<mark, read>>
logVars == <<rows, tail, broken, junk, pending, begun, tears, reported,
             history, clientVars>>

Idle == [id |-> 0]

LogInit ==
    /\ rows = <<>> /\ tail = "closed" /\ broken = FALSE /\ junk = "none"
    /\ pending = [w \in Writers |-> Idle]
    /\ begun = 0 /\ tears = 0
    /\ reported = {} /\ shown = 0 /\ raced = FALSE /\ bared = FALSE
    /\ mark = 0 /\ read = {}

-----------------------------------------------------------------------------
(* The readers *)

Final(s) == s[Len(s)]

Ids(s) == {s[i].id : i \in DOMAIN s}

\* _read_posts: rows cut apart by splitlines do not parse.
Readable(s) == AtPlaces(s, {i \in DOMAIN s : s[i].look # "split"})

\* Board.last_seq, on the pages of the board.
LastSeq(s) == IF Readable(s) = <<>> THEN 0 ELSE Final(Readable(s)).seq

\* Variant: a last line that does not parse is the end of it.
StopsAtJunk == IF rows = <<>> \/ junk # "none" THEN {0} ELSE {Final(rows).seq}

\* last_seq, for the list of boards: the last row that parses in the window at
\* the end of the file.  Short rows and what is left of them fit in there.
IndexedSeq ==
    IF rows = <<>> \/ Final(rows).look = "long" THEN {0}
    ELSE IF junk = "long" THEN {0, Final(rows).seq}
    ELSE {Final(rows).seq}

-----------------------------------------------------------------------------
(* append_post *)

\* Some post was read and is not yet written.
Overlaps == raced' = (raced \/ \E v \in Writers : pending[v] # Idle)

\* Variant: the number of the last post is given out again.
RepeatsLast(w) ==
    /\ pending[w] = Idle /\ begun < MaxBegun /\ ~broken
    /\ begun' = begun + 1
    /\ LET posts == Readable(rows)
           seq == IF posts = <<>> THEN 1 ELSE LastSeq(rows)
       IN  \E look \in Texts, t \in {seq} \cup {posts[i].thread : i \in DOMAIN posts} :
             pending' = [pending EXCEPT ![w] =
               [id |-> begun', seq |-> seq, thread |-> t, look |-> look]]
    /\ Overlaps
    /\ UNCHANGED <<rows, tail, broken, junk, tears, reported, shown, bared, clientVars>>

\* The log is read: the number is the next one, the thread the post's own or
\* one that is there.
Reads(w) ==
    /\ pending[w] = Idle /\ begun < MaxBegun /\ ~broken
    /\ begun' = begun + 1
    /\ LET posts == Readable(rows)
           seq == LastSeq(rows) + 1
       IN  \E look \in Texts, t \in {seq} \cup {posts[i].thread : i \in DOMAIN posts} :
             pending' = [pending EXCEPT ![w] =
               [id |-> begun', seq |-> seq, thread |-> t, look |-> look]]
    /\ Overlaps
    /\ UNCHANGED <<rows, tail, broken, junk, tears, reported, shown, bared, clientVars>>

\* The thread does not exist, or the file cannot be read: nothing is written.
Declines(w) ==
    /\ pending[w] = Idle /\ begun < MaxBegun
    /\ begun' = begun + 1
    /\ UNCHANGED <<rows, tail, broken, junk, pending, tears, reported, history, clientVars>>

\* What stands before the write: a row that is not closed runs into what
\* follows it, and neither parses.
Kept == IF tail = "bare" THEN SubSeq(rows, 1, Len(rows) - 1) ELSE rows
OnItsOwnLine == tail = "closed"

\* What follows the last row once (part of) a row is written that does not
\* become one.  A row that is lost leaves open how much stood before it.
JunkWith(w) ==
    IF tail = "bare" \/ junk = "long" \/ pending[w].look = "long"
    THEN "long" ELSE "short"

Shows(s) == shown' = IF LastSeq(s) > shown THEN LastSeq(s) ELSE shown

\* Variant: the file is written anew from the posts that were read before.
Overwrites(w) ==
    /\ pending[w] # Idle
    /\ LET before == SelectSeq(rows, LAMBDA r : r.seq < pending[w].seq - 1)
       IN  rows' = Append(before, pending[w])
    /\ tail' = "closed"
    /\ reported' = reported \cup {pending[w].id}
    /\ pending' = [pending EXCEPT ![w] = Idle]
    /\ Shows(rows')
    /\ UNCHANGED <<broken, junk, begun, tears, raced, bared, clientVars>>

\* The row and its newline are appended and the post is reported.
Writes(w) ==
    /\ pending[w] # Idle
    /\ rows' = IF OnItsOwnLine THEN Append(rows, pending[w]) ELSE Kept
    /\ tail' = "closed"
    /\ reported' = reported \cup {pending[w].id}
    /\ pending' = [pending EXCEPT ![w] = Idle]
    /\ junk' = IF OnItsOwnLine THEN "none" ELSE JunkWith(w)
    /\ Shows(rows')
    /\ UNCHANGED <<broken, begun, tears, raced, bared, clientVars>>

\* The write stops within a row, within a character of it, or just before the
\* newline; the post is not reported.
Stops(w) ==
    /\ pending[w] # Idle
    /\ tears < MaxTears /\ tears' = tears + 1
    /\ \E t \in Tears :
         /\ rows' = IF t = "bare" /\ OnItsOwnLine
                    THEN Append(rows, pending[w]) ELSE Kept
         /\ tail' = IF t = "bare" /\ OnItsOwnLine THEN "bare" ELSE "cut"
         /\ junk' = IF t = "bare" /\ OnItsOwnLine THEN "none" ELSE JunkWith(w)
         /\ broken' = (broken \/ t = "midchar")
         /\ bared' = (bared \/ t = "bare")
    /\ pending' = [pending EXCEPT ![w] = Idle]
    /\ Shows(rows')
    /\ UNCHANGED <<begun, reported, raced, clientVars>>

-----------------------------------------------------------------------------
(* The client *)

\* open_page with the page of the board, which is read whole.
OpenBoard ==
    /\ ~broken
    /\ mark' = IF LastSeq(rows) > mark THEN LastSeq(rows) ELSE mark
    /\ read' = Ids(Readable(rows))
    /\ UNCHANGED <<rows, tail, broken, junk, pending, begun, tears, reported,
                   history>>

LogNext ==
    \/ \E w \in Writers : Reads(w) \/ Declines(w) \/ Writes(w) \/ Stops(w)
    \/ OpenBoard

-----------------------------------------------------------------------------
(* Properties *)

Row == [id : 1 .. MaxBegun, seq : Nat \ {0}, thread : Nat \ {0}, look : Texts]
\* Types; a post is in the log once at most, and never while it is pending.
LogTypeOK ==
    /\ rows \in Seq(Row)
    /\ tail \in {"closed", "cut", "bare"} /\ broken \in BOOLEAN
    /\ junk \in {"none", "short", "long"}
    /\ pending \in [Writers -> {Idle} \cup Row]
    /\ begun \in 0 .. MaxBegun /\ tears \in 0 .. MaxTears
    /\ reported \subseteq 1 .. MaxBegun /\ shown \in Nat
    /\ mark \in Nat /\ read \subseteq 1 .. MaxBegun
    /\ Cardinality(Ids(rows)) = Len(rows)
    /\ \A w \in Writers : pending[w].id \notin Ids(rows)

\* Whatever two processes do at once, a post that was reported as stored has
\* its row for good, but for one post for each write that stopped half way:
\* the next row is appended to what that one left.
PostsStay == LogTypeOK /\ Cardinality(reported \ Ids(rows)) <= tears

\* "b/<board>:<seq>  only what arrived after <seq>": as long as the log is not
\* read by two at once, a post that becomes readable has a higher number than
\* any page showed before, so whoever asks for what came after that page gets
\* it.  The row that follows one without a newline takes both away, and the
\* number that was shown last is given out again.
NewPostsAreNewer ==
    [][\A i \in DOMAIN rows' :
         ~raced' /\ rows'[i].look = "whole" /\ rows'[i].id \notin Ids(rows)
           => rows'[i].seq > shown \/ (bared /\ rows'[i].seq = shown)]_logVars

\* The list of boards counts something as unread if and only if a post came in
\* since the client read the board: the two ways to the last number agree,
\* whatever was torn and lost, as long as the last row is one that both can
\* read and no number was given out twice.
UnreadTells ==
    (rows # <<>> /\ Final(rows).look = "whole" /\ junk # "long" /\ ~raced /\ ~bared)
      => \A n \in IndexedSeq : n > mark <=> ~(Ids(Readable(rows)) \subseteq read)

\* As long as every write is whole and the log is not read by two at once, it
\* is what the log of a board is meant to be.
ABoard == INSTANCE Board WITH
    posts <- [i \in DOMAIN Readable(rows) |->
                [seq |-> Readable(rows)[i].seq, thread |-> Readable(rows)[i].thread]]

ImplementsBoard ==
    /\ ABoard!Init
    /\ [][(raced' = FALSE /\ tears' = 0) => ABoard!Next \/ UNCHANGED Readable(rows)]_logVars
=============================================================================
