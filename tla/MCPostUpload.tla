---------------------------- MODULE MCPostUpload ----------------------------
(* Instances of PostUpload for TLC. *)
EXTENDS PostUpload, TLC

\* Posters and keys are interchangeable as long as none is singled out.
Symmetry == Permutations(Posters) \cup Permutations(Keys)
KeySymmetry == Permutations(Keys)
=============================================================================
