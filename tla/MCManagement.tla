----------------------------- MODULE MCManagement ------------------------------
(* Management of one app with its two default deployments. *)
EXTENDS Management

CONSTANTS p1, v1, v2

=============================================================================
