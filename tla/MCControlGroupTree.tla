------------------------- MODULE MCControlGroupTree -------------------------
(* A small instance of ControlGroupTree for TLC. *)
EXTENDS ControlGroupTree, TLC

CONSTANT a

\* One name at two depths, ".." from a child and from the root, and a component
\* that createChild refuses after it has created the first.
OneName == {a}
SharedRequests == {<<a>>, <<a, a>>, <<a, ".", "..">>, <<"..">>}

Symmetry == Permutations(Object) \union Permutations(Thread)
=============================================================================
