--------------------------- MODULE MCTermination ---------------------------
(* Small instances of Termination for TLC. *)
EXTENDS Termination, TLC

\* Tasks, guards and attachers are interchangeable; hierarchies are not.
Symmetry == Permutations(Task) \union Permutations(Guard)
=============================================================================
