--------------------------- MODULE MCAsyncProcess ---------------------------
(* Small instances of AsyncProcess for TLC. *)
EXTENDS AsyncProcess, TLC

\* Files are named by objects, so objects are interchangeable together with
\* the files, and pids among themselves.
Symmetry == Permutations(Pid) \union Permutations(Handle)
=============================================================================
