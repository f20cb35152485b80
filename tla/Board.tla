------------------------------- MODULE Board --------------------------------
(***************************************************************************)
(* What the log of a board promises: it only grows, every post has the     *)
(* number of its place in it, and a post opens the thread of its own       *)
(* number or replies in a thread that is there.                            *)
(***************************************************************************)
EXTENDS Naturals, Sequences

VARIABLE posts

Init == posts = <<>>

Add(thread) ==
    posts' = Append(posts, [seq |-> Len(posts) + 1, thread |-> thread])

Open == Add(Len(posts) + 1)

Reply == \E i \in DOMAIN posts : Add(posts[i].thread)

Next == Open \/ Reply

Spec == Init /\ [][Next]_posts
=============================================================================
