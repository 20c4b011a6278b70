--------------------------- MODULE MCProjectRelease ---------------------------
(* Two processes of one project, its platform folder and two output folders. *)
EXTENDS ProjectRelease

CONSTANTS p1, p2, dir

=============================================================================
