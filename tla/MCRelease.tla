------------------------------ MODULE MCRelease -------------------------------
(* Release over one package with few contents, keys and processes. *)
EXTENDS Release, TLC

CONSTANTS p1, p2, c1, c2, k1, k2

\* Processes, contents and keys are never told apart: sound where no liveness
\* is checked.
Symmetry == Permutations({p1, p2}) \cup Permutations({c1, c2}) \cup Permutations({k1, k2})

\* The bound on what the server has taken: once it has had every content, a
\* behaviour is followed no further.
NotAllReleased == history # Contents

=============================================================================
