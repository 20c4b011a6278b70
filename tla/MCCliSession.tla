----------------------------- MODULE MCCliSession -----------------------------
(* CliSession on one machine with one user's keys. *)
EXTENDS CliSession, TLC

CONSTANTS p1, p2, a1, s1, s2, s3, here, there

\* The last session key, if there is one, is another machine's.
MCMachineOf ==
    [k \in SessionKeys |-> IF k = s3 THEN there ELSE here]

=============================================================================
