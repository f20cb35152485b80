------------------------------- MODULE Places -------------------------------
(***************************************************************************)
(* What stands at some places of a sequence, in order: the lines of a file *)
(* or of a page that pass a test.                                          *)
(***************************************************************************)
EXTENDS Naturals, Sequences

AtPlaces(s, places) ==
    LET upTo[n \in 0 .. Len(s)] ==
          IF n = 0 THEN <<>>
          ELSE IF n \in places THEN Append(upTo[n - 1], s[n])
          ELSE upTo[n - 1]
    IN  upTo[Len(s)]
=============================================================================
