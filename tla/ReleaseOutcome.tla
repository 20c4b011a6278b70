---------------------------- MODULE ReleaseOutcome ----------------------------
(***************************************************************************)
(* What one release command promises its user: its package is released at  *)
(* most once, success is reported only after that, a duplicate is excused  *)
(* only if the deployment has releases, and a failure says nothing: the    *)
(* package may be out all the same.                                        *)
(***************************************************************************)
CONSTANTS Procs, Contents

VARIABLES stage, outcome, history

vars == <<stage, outcome, history>>

Init ==
    /\ stage = [p \in Procs |-> "idle"]
    /\ outcome = [p \in Procs |-> "none"]
    /\ history = {}

Begin(p) ==
    /\ stage[p] = "idle"
    /\ stage' = [stage EXCEPT ![p] = "running"]
    /\ outcome' = [outcome EXCEPT ![p] = "none"]
    /\ UNCHANGED history

Publish(p) ==
    /\ stage[p] = "running"
    /\ stage' = [stage EXCEPT ![p] = "released"]
    /\ history' \in {history \cup {c} : c \in Contents}
    /\ UNCHANGED outcome

End(p) ==
    /\ stage[p] # "idle"
    /\ stage' = [stage EXCEPT ![p] = "idle"]
    /\ \E r \in {"ok", "warned", "failed"} :
         /\ r = "ok" => stage[p] = "released"
         /\ r = "warned" => stage[p] = "running" /\ history # {}
         /\ outcome' = [outcome EXCEPT ![p] = r]
    /\ UNCHANGED history

Next == \E p \in Procs : Begin(p) \/ Publish(p) \/ End(p)

Spec == Init /\ [][Next]_vars

=============================================================================
