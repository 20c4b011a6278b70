---------------------------- MODULE CommandOutcome ----------------------------
(***************************************************************************)
(* What a command that manages an app promises its user: it is refused, or *)
(* carries out a plan, change by change, and only after a "y" if the plan  *)
(* holds a change that needs one; success is reported when all of the plan *)
(* is done, a warning only when nothing is and the plan may be excused,    *)
(* and a failure says nothing: a change may be done, or one that was not   *)
(* may be on its way.  Deployments come and go only with a change that is  *)
(* about them.                                                             *)
(***************************************************************************)
CONSTANTS
    Procs,
    Plans,   \* what commands ask for: sets of changes
    Asked,   \* the changes that need a "y"
    Excused, \* the changes that may be warned of in place of made
    Touches  \* of each change: the deployments that may come or go with it

VARIABLES stage, plan, did, outcome, late, existing

vars == <<stage, plan, did, outcome, late, existing>>

Init ==
    /\ stage = [p \in Procs |-> "idle"]
    /\ plan = [p \in Procs |-> {}]
    /\ did = [p \in Procs |-> {}]
    /\ outcome = [p \in Procs |-> "none"]
    /\ late = {}

End(p, how) ==
    /\ stage' = [stage EXCEPT ![p] = "idle"]
    /\ outcome' = [outcome EXCEPT ![p] = how]

Begin(p, asked) ==
    /\ stage[p] = "idle"
    /\ plan' = [plan EXCEPT ![p] = asked]
    /\ did' = [did EXCEPT ![p] = {}]
    /\ \/ End(p, "failed")
       \/ /\ stage' = [stage EXCEPT ![p] = IF asked \cap Asked = {} THEN "waiting" ELSE "prompt"]
          /\ outcome' = [outcome EXCEPT ![p] = "none"]
    /\ UNCHANGED <<late, existing>>

Answer(p) ==
    /\ stage[p] = "prompt"
    /\ \/ stage' = [stage EXCEPT ![p] = "waiting"] /\ UNCHANGED outcome
       \/ \E how \in {"cancelled", "died"} : End(p, how)
    /\ UNCHANGED <<plan, did, late, existing>>

\* The deployments that come or go are those of this change.
About(r) == (existing' \ existing) \cup (existing \ existing') \subseteq Touches[r]

Change(p, r) ==
    /\ stage[p] = "waiting"
    /\ r \in plan[p] \ did[p]
    /\ did' = [did EXCEPT ![p] = @ \cup {r}]
    /\ \/ UNCHANGED <<stage, outcome>>
       \/ plan[p] \subseteq did[p] \cup {r} /\ End(p, "ok")
       \/ End(p, "failed")
    /\ About(r)
    /\ UNCHANGED <<plan, late>>

Stop(p) ==
    /\ stage[p] = "waiting"
    /\ \/ plan[p] \subseteq did[p] /\ End(p, "ok")
       \/ did[p] = {} /\ plan[p] \cap Excused # {} /\ End(p, "warned")
       \/ End(p, "failed")
    /\ UNCHANGED <<plan, did, late, existing>>

\* The command is over, and one of its changes may still be made.
Abandon(p, r) ==
    /\ stage[p] = "waiting"
    /\ r \in plan[p] \ did[p]
    /\ late' = late \cup {r}
    /\ \E how \in {"failed", "died"} : End(p, how)
    /\ UNCHANGED <<plan, did, existing>>

Arrive(r) ==
    /\ late' = late \ {r}
    /\ About(r)
    /\ UNCHANGED <<stage, plan, did, outcome>>

Next ==
    \/ \E p \in Procs :
          \/ \E asked \in Plans : Begin(p, asked)
          \/ Answer(p)
          \/ Stop(p)
          \/ \E r \in plan[p] : Change(p, r) \/ Abandon(p, r)
    \/ \E r \in late : Arrive(r)

Spec == Init /\ [][Next]_vars

=============================================================================
