------------------------------ MODULE MCParts ------------------------------
(* A small instance of Parts for TLC. *)
EXTENDS Parts, TLC

CONSTANTS h1, f1

\* An uninitialised pointer points to nothing, or to a text that reads as the
\* start of a comment.
Texts == {<<>>, <<35>>}

\* Only one of the hierarchies has the field.
OneField == {<<h1, f1>>}

Symmetry == Permutations(Multiple)
=============================================================================
