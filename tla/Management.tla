------------------------------ MODULE Management -------------------------------
(***************************************************************************)
(* The commands that manage an app and its deployments, run by several     *)
(* users.  A command is checked, confirmed, and then sends its requests in *)
(* waves: those of a wave are in flight together and are answered in any   *)
(* order, and the next wave waits for all of them.                         *)
(*                                                                         *)
(* cli/script/command-executor.ts; the requests are those of               *)
(* sdk/script/management-sdk.ts.  What a 401 does to the session is module *)
(* CliSession's subject; here it is one of the failures.                   *)
(***************************************************************************)
EXTENDS Naturals, FiniteSets

CONSTANTS
    Procs,        \* processes of the users of the app
    Names,        \* names of deployments
    Staging,      \* the two default deployments
    Production,
    Packages,     \* what can be released to a deployment
    CommandTypes, \* the commands in use
    MaxStray,     \* bound: late requests at one time
    None,         \* no deployment, no argument
    NoPackage     \* a deployment nothing was released to

Gated == {"accessKeyRemove", "appRemove", "appTransfer", "collaboratorRemove",
          "deploymentHistoryClear", "deploymentRemove", "rollback"}
Checked == {"appAdd", "appTransfer", "collaboratorAdd", "collaboratorRemove",
            "deploymentList", "deploymentHistory", "patch", "accessKeyPatch"}
OfDeployment == {"deploymentAdd", "deploymentHistoryClear", "deploymentRemove",
                 "deploymentRename", "deploymentHistory", "promote", "patch", "rollback"}
OfTwo == {"deploymentRename", "promote"}
OfApp == {"appAdd", "appRemove", "appRename", "appTransfer", "deploymentAddDefault",
          "deploymentList"}
OfAccount == {"accessKeyAdd", "accessKeyPatch", "accessKeyRemove", "collaboratorAdd",
              "collaboratorRemove"}
Types == OfDeployment \cup OfApp \cup OfAccount

\* wellFormed: the addresses, the format, the OS or the options pass their check.
Command ==
    {c \in [type : CommandTypes, at : Names \cup {None}, to : Names \cup {None},
            noDuplicateError : BOOLEAN, wellFormed : BOOLEAN] :
        /\ c.at # None <=> c.type \in OfDeployment
        /\ c.to # None <=> c.type \in OfTwo
        /\ c.noDuplicateError => c.type = "promote"
        /\ ~c.wellFormed => c.type \in Checked}

ASSUME ManagementAssumption ==
    /\ Staging \in Names /\ Production \in Names /\ Staging # Production
    /\ None \notin Names \cup Packages \cup Command
    /\ NoPackage \notin Packages \cup {None}
    /\ CommandTypes \subseteq Types
    /\ MaxStray \in Nat

\* A request is named after the command that is no more than this request.
Reads == {"getDeployments", "getDeploymentMetrics", "getDeploymentHistory", "getAccountInfo"}
OfNamed == OfDeployment \cup {"getDeploymentMetrics", "getDeploymentHistory"}
Request ==
    {r \in [op : Types \cup Reads, at : Names \cup {None}, to : Names \cup {None}] :
        /\ r.at # None <=> r.op \in OfNamed
        /\ r.to # None <=> r.op \in OfTwo}
Ask(op, at) == [op |-> op, at |-> at, to |-> None]

VARIABLES
    deployments, \* server: the package of each deployment of the app
    app,         \* server: the app exists under the name the commands use
    stray,       \* requests given up by their senders that may still arrive
    pc,          \* where each process is: idle, prompt, waiting
    cmd,         \* its command
    wave,        \* the number of the wave in flight
    out,         \* its requests that are not answered
    seen,        \* its requests that were answered
    rows,        \* the deployments it was told of by getDeployments
    done,        \* what the server did for this run
    consent,     \* the user has said yes in this run
    result       \* how its last command ended

server == <<deployments, app>>
run == <<cmd, wave, seen, rows, done, consent>>
vars == <<server, stray, pc, run, out, result>>

Rows == [Names -> Packages \cup {None, NoPackage}]

TypeOK ==
    /\ deployments \in Rows
    /\ app \in BOOLEAN
    /\ stray \subseteq Request
    /\ pc \in [Procs -> {"idle", "prompt", "waiting"}]
    /\ cmd \in [Procs -> Command \cup {None}]
    /\ \A p \in Procs : pc[p] # "idle" => cmd[p] # None
    /\ wave \in [Procs -> Nat]
    /\ out \in [Procs -> SUBSET Request]
    /\ seen \in [Procs -> SUBSET Request]
    /\ rows \in [Procs -> Rows]
    /\ done \in [Procs -> SUBSET Request]
    /\ consent \in [Procs -> BOOLEAN]
    /\ result \in [Procs -> {"none", "ok", "warned", "failed", "cancelled", "died"}]

Init ==
    /\ deployments = [n \in Names |-> IF n \in {Staging, Production} THEN NoPackage ELSE None]
    /\ app = TRUE
    /\ stray = {}
    /\ pc = [p \in Procs |-> "idle"]
    /\ cmd = [p \in Procs |-> None]
    /\ wave = [p \in Procs |-> 0]
    /\ out = [p \in Procs |-> {}]
    /\ seen = [p \in Procs |-> {}]
    /\ rows = [p \in Procs |-> [n \in Names |-> None]]
    /\ done = [p \in Procs |-> {}]
    /\ consent = [p \in Procs |-> FALSE]
    /\ result = [p \in Procs |-> "none"]

(* ---------------------------- what a command sends --------------------- *)

\* Slip: both default deployments are asked for at once.
DefaultsAtOnce(i) ==
    CASE i = 1 -> {Ask("deploymentAdd", Staging), Ask("deploymentAdd", Production)}
      [] i = 2 -> {Ask("getDeployments", None)}
      [] OTHER -> {}

DefaultsWave(i) ==
    CASE i = 1 -> {Ask("deploymentAdd", Staging)}
      [] i = 2 -> {Ask("deploymentAdd", Production)}
      [] i = 3 -> {Ask("getDeployments", None)}
      [] OTHER -> {}

\* Slip: the metrics are asked for by package.
ListByPackage(i, known) ==
    CASE i = 1 -> {Ask("getDeployments", None)}
      [] i = 2 -> {Ask("getDeploymentMetrics", k) : k \in {known[n] : n \in Names} \cap Packages}
      [] OTHER -> {}

\* Metrics are fetched of every deployment that has a package.
ListWave(i, known) ==
    CASE i = 1 -> {Ask("getDeployments", None)}
      [] i = 2 -> {Ask("getDeploymentMetrics", n) : n \in {m \in Names : known[m] \in Packages}}
      [] OTHER -> {}

HistoryWave(i, n) ==
    IF i # 1 THEN {} ELSE {Ask("getAccountInfo", None), Ask("getDeploymentHistory", n),
                           Ask("getDeploymentMetrics", n)}

\* A new app is listed without its packages, there being none.
AppAddWave(i) ==
    CASE i = 1 -> {Ask("appAdd", None)}
      [] i = 2 -> {Ask("getDeployments", None)}
      [] OTHER -> {}

\* The i-th wave of a command that knows of these deployments; {} ends it.
Wave(c, i, known) ==
    CASE c.type = "deploymentAddDefault" -> DefaultsWave(i)
      [] c.type = "appAdd" -> AppAddWave(i)
      [] c.type = "deploymentList" -> ListWave(i, known)
      [] c.type = "deploymentHistory" -> HistoryWave(i, c.at)
      [] OTHER -> IF i = 1 THEN {[op |-> c.type, at |-> c.at, to |-> c.to]} ELSE {}

Finish(p, how) ==
    /\ pc' = [pc EXCEPT ![p] = "idle"]
    /\ out' = [out EXCEPT ![p] = {}]
    /\ result' = [result EXCEPT ![p] = how]

Send(p, c, i, known) ==
    /\ pc' = [pc EXCEPT ![p] = "waiting"]
    /\ wave' = [wave EXCEPT ![p] = i]
    /\ out' = [out EXCEPT ![p] = Wave(c, i, known)]

(* --------------------------------- the CLI ----------------------------- *)

\* execute dispatches: a malformed command is refused, a gated one asks first.
Start(p, c) ==
    /\ pc[p] = "idle"
    /\ cmd' = [cmd EXCEPT ![p] = c]
    /\ seen' = [seen EXCEPT ![p] = {}]
    /\ rows' = [rows EXCEPT ![p] = [n \in Names |-> None]]
    /\ done' = [done EXCEPT ![p] = {}]
    /\ consent' = [consent EXCEPT ![p] = FALSE]
    /\ IF ~c.wellFormed
       THEN Finish(p, "failed") /\ UNCHANGED wave
       ELSE /\ result' = [result EXCEPT ![p] = "none"]
            /\ IF c.type \in Gated
               THEN pc' = [pc EXCEPT ![p] = "prompt"] /\ UNCHANGED <<wave, out>>
               ELSE Send(p, c, 1, rows[p])
    /\ UNCHANGED <<server, stray>>

\* Slip: the answer is not looked at.
AnswerUnread(p, yes) ==
    /\ pc[p] = "prompt"
    /\ consent' = [consent EXCEPT ![p] = yes]
    /\ Send(p, cmd[p], 1, rows[p])
    /\ UNCHANGED <<server, stray, cmd, seen, rows, done, result>>

\* confirm(): "y" goes on, anything else cancels ...
Answer(p, yes) ==
    /\ pc[p] = "prompt"
    /\ IF yes
       THEN /\ consent' = [consent EXCEPT ![p] = TRUE]
            /\ Send(p, cmd[p], 1, rows[p])
            /\ UNCHANGED result
       ELSE /\ Finish(p, "cancelled")
            /\ UNCHANGED <<wave, consent>>
    /\ UNCHANGED <<server, stray, cmd, seen, rows, done>>

\* ... and an interrupted prompt has no result: its callback throws.
Interrupt(p) ==
    /\ pc[p] = "prompt"
    /\ Finish(p, "died")
    /\ UNCHANGED <<server, stray, run>>

\* Slip: the first answer of a wave ends the wait for all of them.
ResolveAny(p, r, known) ==
    LET next == Wave(cmd[p], wave[p] + 1, known)
    IN  /\ seen' = [seen EXCEPT ![p] = @ \cup {r}]
        /\ rows' = [rows EXCEPT ![p] = known]
        /\ IF next # {}
           THEN Send(p, cmd[p], wave[p] + 1, known) /\ UNCHANGED result
           ELSE Finish(p, "ok") /\ UNCHANGED wave
        /\ UNCHANGED <<cmd, consent>>

\* Slip: a deployment without a package is given no promise that settles.
ResolveUnsettled(p, r, known) ==
    LET left == out[p] \ {r}
        next == Wave(cmd[p], wave[p] + 1, known)
        unsettled == cmd[p].type = "deploymentList" /\ NoPackage \in {known[n] : n \in Names}
    IN  /\ seen' = [seen EXCEPT ![p] = @ \cup {r}]
        /\ rows' = [rows EXCEPT ![p] = known]
        /\ IF left # {} \/ (unsettled /\ next = {})
           THEN out' = [out EXCEPT ![p] = left] /\ UNCHANGED <<pc, wave, result>>
           ELSE IF next # {}
                THEN Send(p, cmd[p], wave[p] + 1, known) /\ UNCHANGED result
                ELSE Finish(p, "ok") /\ UNCHANGED wave
        /\ UNCHANGED <<cmd, consent>>

\* An answer has come.  The last of a wave starts the next wave, or ends the run.
Resolve(p, r, known) ==
    LET left == out[p] \ {r}
        next == Wave(cmd[p], wave[p] + 1, known)
    IN  /\ seen' = [seen EXCEPT ![p] = @ \cup {r}]
        /\ rows' = [rows EXCEPT ![p] = known]
        /\ IF left # {}
           THEN out' = [out EXCEPT ![p] = left] /\ UNCHANGED <<pc, wave, result>>
           ELSE IF next # {}
                THEN Send(p, cmd[p], wave[p] + 1, known) /\ UNCHANGED result
                ELSE Finish(p, "ok") /\ UNCHANGED wave
        /\ UNCHANGED <<cmd, consent>>

\* Slip: the error is logged and not thrown again.
RejectSwallowed(p, conflict) ==
    /\ Finish(p, "ok")
    /\ UNCHANGED <<cmd, wave, seen, rows, consent>>

\* A request has failed.  The first failure ends the run, and the process
\* with it; releaseErrorHandler excuses a duplicate that is promoted.
Reject(p, conflict) ==
    /\ Finish(p, IF conflict /\ cmd[p].noDuplicateError THEN "warned" ELSE "failed")
    /\ UNCHANGED <<cmd, wave, seen, rows, consent>>

(* -------------------------------- the server --------------------------- *)

Is(n) == deployments[n] # None
Holds(n) == deployments[n] \in Packages
Set(n, k) == deployments' = [deployments EXCEPT ![n] = k] /\ UNCHANGED app
Gone == app' = FALSE /\ deployments' = [n \in Names |-> None]
Defaults == [n \in Names |-> IF n \in {Staging, Production} THEN NoPackage ELSE None]

\* Promoting what the destination already has.
Conflict(r) ==
    /\ r.op = "promote"
    /\ Holds(r.at)
    /\ deployments[r.at] = deployments[r.to]

\* The server does what a request asks, if it can.
Apply(r) ==
    \/ /\ r.op = "appAdd" /\ ~app
       /\ app' = TRUE /\ deployments' = Defaults
    \/ r.op \in {"appRemove", "appRename"} /\ app /\ Gone
    \/ r.op = "deploymentAdd" /\ app /\ ~Is(r.at) /\ Set(r.at, NoPackage)
    \/ r.op = "deploymentRemove" /\ Is(r.at) /\ Set(r.at, None)
    \/ /\ r.op = "deploymentRename" /\ Is(r.at) /\ ~Is(r.to)
       /\ deployments' = [deployments EXCEPT ![r.at] = None, ![r.to] = deployments[r.at]]
       /\ UNCHANGED app
    \/ r.op = "deploymentHistoryClear" /\ Is(r.at) /\ Set(r.at, NoPackage)
    \/ /\ r.op = "promote" /\ Holds(r.at) /\ Is(r.to) /\ ~Conflict(r)
       /\ Set(r.to, deployments[r.at])
    \/ r.op = "rollback" /\ Holds(r.at) /\ \E k \in Packages : Set(r.at, k)
    \/ r.op = "patch" /\ Holds(r.at) /\ UNCHANGED server
    \/ r.op \in {"getDeploymentMetrics", "getDeploymentHistory"} /\ Is(r.at) /\ UNCHANGED server
    \/ r.op \in {"getDeployments", "appTransfer"} /\ app /\ UNCHANGED server
    \/ r.op \in OfAccount \cup {"getAccountInfo"} /\ UNCHANGED server

Did(p, r) == done' = [done EXCEPT ![p] = @ \cup {r}]

Serve(p, r) ==
    /\ r \in out[p]
    /\ Apply(r)
    /\ Did(p, r)
    /\ Resolve(p, r, IF r.op = "getDeployments" THEN deployments ELSE rows[p])
    /\ UNCHANGED stray

\* Done, but the answer is lost, or is not what the SDK can read.
Misreport(p, r) ==
    /\ r \in out[p]
    /\ Apply(r)
    /\ Did(p, r)
    /\ Reject(p, FALSE)
    /\ UNCHANGED stray

Refuse(p, r) ==
    /\ r \in out[p]
    /\ Reject(p, Conflict(r))
    /\ UNCHANGED <<server, stray, done>>

\* The connection fails, or the process is killed, and a request is on its way.
Leave(p, r) ==
    /\ r \in out[p]
    /\ r.op \notin Reads
    /\ Cardinality(stray \cup {r}) <= MaxStray
    /\ stray' = stray \cup {r}
    /\ \E how \in {"failed", "died"} : Finish(p, how)
    /\ UNCHANGED <<server, run>>

Arrive(r) ==
    /\ r \in stray
    /\ stray' = stray \ {r}
    /\ Apply(r) \/ UNCHANGED server
    /\ UNCHANGED <<pc, run, out, result>>

\* A release, from wherever it comes.
Release(n, k) ==
    /\ Is(n)
    /\ Set(n, k)
    /\ UNCHANGED <<stray, pc, run, out, result>>

(* ----------------------------------------------------------------------- *)

Settle(p) == \E r \in out[p] : Serve(p, r) \/ Misreport(p, r) \/ Refuse(p, r)

Next ==
    \/ \E p \in Procs :
          \/ \E c \in Command : Start(p, c)
          \/ \E yes \in BOOLEAN : Answer(p, yes)
          \/ Interrupt(p)
          \/ Settle(p)
          \/ \E r \in out[p] : Leave(p, r)
    \/ \E r \in stray : Arrive(r)
    \/ \E n \in Names, k \in Packages : Release(n, k)

Spec == Init /\ [][Next]_vars

\* A request is answered, or its connection fails.
LiveSpec == Spec /\ \A p \in Procs : WF_vars(Settle(p))

(* ------------------------------- properties ---------------------------- *)

\* What destroys or gives away is sent only after a "y" of this very run.
NothingWithoutConsent ==
    \A p \in Procs :
        \A r \in out[p] \cup done[p] : r.op \in Gated => consent[p]

\* What a command is to change, read off the documentation of the commands.
Changes(c) ==
    IF c.type = "deploymentAddDefault"
    THEN {Ask("deploymentAdd", Staging), Ask("deploymentAdd", Production)}
    ELSE IF c.type \in {"deploymentList", "deploymentHistory"} THEN {}
    ELSE {[op |-> c.type, at |-> c.at, to |-> c.to]}

\* The commands as their users know them: see CommandOutcome.
Plan(p) == IF cmd[p] = None THEN {} ELSE Changes(cmd[p])
Changed(p) == {r \in done[p] : r.op \notin Reads}
Existing == {n \in Names : Is(n)}
Plans == {Changes(c) : c \in Command}
Asked == {r \in Request : r.op \in Gated}
Excused == {r \in Request : r.op = "promote"}
Touches ==
    [r \in Request |->
        CASE r.op = "appAdd" -> {Staging, Production}
          [] r.op \in {"appRemove", "appRename"} -> Names
          [] r.op \in {"deploymentAdd", "deploymentRemove", "deploymentRename"} -> {r.at, r.to}
          [] OTHER -> {}]
Promise == INSTANCE CommandOutcome WITH
    stage <- pc,
    plan <- [p \in Procs |-> Plan(p)],
    did <- [p \in Procs |-> Changed(p)],
    outcome <- result,
    late <- stray,
    existing <- Existing

\* Waves, answers in any order, lost answers and late requests add up to one
\* plan at a time, carried out change by change and reported as it went.
ImplementsCommandOutcome == Promise!Spec

\* A success is reported only of what the server did, and the server does
\* nothing else for a command, and nothing for one that was cancelled.
SuccessIsDone ==
    \A p \in Procs :
        /\ result[p] = "ok" => Changes(cmd[p]) \subseteq done[p]
        /\ Changed(p) \subseteq Plan(p)
        /\ result[p] = "cancelled" => done[p] = {}
        /\ result[p] = "warned" => cmd[p].type = "promote" /\ done[p] = {}

\* A failed "deployment add --default" leaves Staging alone, never Production.
DefaultsInOrder ==
    \A p \in Procs :
        /\ cmd[p] # None
        /\ cmd[p].type = "deploymentAddDefault"
        /\ Ask("deploymentAdd", Production) \in done[p] \cup out[p]
        => Ask("deploymentAdd", Staging) \in done[p]

\* A list is printed with the metrics of every package it shows, a history
\* with all three of its parts, in whatever order they came.
PrintedWhole ==
    \A p \in Procs : result[p] = "ok" =>
        /\ cmd[p].type = "deploymentList" =>
              \A n \in Names : rows[p][n] \in Packages => Ask("getDeploymentMetrics", n) \in seen[p]
        /\ cmd[p].type = "deploymentHistory" =>
              {"getAccountInfo", "getDeploymentHistory", "getDeploymentMetrics"}
                  \subseteq {r.op : r \in seen[p]}

\* Every command past its prompt ends, if its requests are answered.
CommandsFinish == \A p \in Procs : pc[p] = "waiting" ~> pc[p] = "idle"

=============================================================================
