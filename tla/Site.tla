-------------------------------- MODULE Site --------------------------------
(***************************************************************************)
(* What a server has for its readers: the log of a board, the pages made   *)
(* of a log, the texts operators and authors write, and the pages and      *)
(* files of its directories.  BoardPages takes the log for the one Board   *)
(* describes, Content takes a text for what it is allowed to; none of the  *)
(* four changes what another looks at, so one of them moves and the others *)
(* are at rest.                                                            *)
(***************************************************************************)
EXTENDS BoardLog, BoardPages, Markup, Content

VARIABLE part       \* which of the four moves

vars == <<logVars, pagesVars, markVars, contentVars, part>>

Parts == {"log", "pages", "text", "files"}

\* A text nobody adds to, and one of the ways the directories may be set up.
TextAtRest == sort = "page"
FilesAtRest == ~transfers /\ reader = CHOOSE r \in Readers : TRUE

Init ==
    /\ LogInit /\ PagesInit /\ MarkInit /\ ContentInit
    /\ part \in Parts
    /\ part # "text" => TextAtRest
    /\ part # "files" => FilesAtRest

Log == part = "log" /\ LogNext
       /\ UNCHANGED <<pagesVars, markVars, contentVars, part>>
Pages == part = "pages" /\ PagesNext
         /\ UNCHANGED <<logVars, markVars, contentVars, part>>
Writings == part = "text" /\ MarkNext
         /\ UNCHANGED <<logVars, pagesVars, contentVars, part>>
Directories == part = "files" /\ ContentNext
               /\ UNCHANGED <<logVars, pagesVars, markVars, part>>

Next == Log \/ Pages \/ Writings \/ Directories

Spec == Init /\ [][Next]_vars
=============================================================================
