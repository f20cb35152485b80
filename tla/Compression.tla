---------------------------- MODULE Compression -----------------------------
(***************************************************************************)
(* What of compression is seen on the wire: the dictionary a payload was   *)
(* compressed with, by the id a build has for its own, and whether the     *)
(* other end can open it.  zstd itself is a library.                       *)
(***************************************************************************)
EXTENDS Naturals

\* active_dict_id(): a build has no dictionary, or the one it came with.
CONSTANT Dicts

DICT_NONE == 0

\* Three bits of the control byte.
ASSUME DictConstants == DICT_NONE \in Dicts /\ Dicts \subseteq 0 .. 7

\* The dictionary is used for a peer that said it has the same.
DictFor(ours, peer) == IF peer = ours THEN ours ELSE DICT_NONE

\* A payload without a dictionary opens everywhere.
Decompresses(id, ours) == id \in {DICT_NONE, ours}
=============================================================================
