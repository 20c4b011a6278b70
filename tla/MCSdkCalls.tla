------------------------------ MODULE MCSdkCalls -------------------------------
(* Two calls, two metadata objects, two versions. *)
EXTENDS SdkCalls

CONSTANTS c1, c2, m1, m2, v1, v2

=============================================================================
