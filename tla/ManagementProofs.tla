--------------------------- MODULE ManagementProofs ----------------------------
(***************************************************************************)
(* Proofs about Management, for any users, deployments and packages.       *)
(***************************************************************************)
EXTENDS Management, TLAPS

\* A run that waits has sent the waves up to this one, and has an answer or
\* waits for one to each of their requests.
Waiting(p) ==
    /\ wave[p] # 0
    /\ out[p] \subseteq Wave(cmd[p], wave[p], rows[p])
    /\ \A j \in 1..wave[p] : Wave(cmd[p], j, rows[p]) \subseteq seen[p] \cup out[p]
    /\ cmd[p].type \in Gated => consent[p]
    /\ cmd[p].type = "promote" => done[p] = {}

RunInv(p) ==
    /\ pc[p] # "waiting" => out[p] = {}
    /\ pc[p] = "prompt" => done[p] = {}
    /\ pc[p] # "idle" => result[p] = "none"
    /\ seen[p] \subseteq done[p]
    /\ pc[p] = "waiting" => Waiting(p)

\* The properties, of one process.
Consented(p) == \A r \in out[p] \cup done[p] : r.op \in Gated => consent[p]

DoneOnSuccess(p) ==
    /\ result[p] = "ok" => Changes(cmd[p]) \subseteq done[p]
    /\ {r \in done[p] : r.op \notin Reads} \subseteq IF cmd[p] = None THEN {} ELSE Changes(cmd[p])
    /\ result[p] = "cancelled" => done[p] = {}
    /\ result[p] = "warned" => cmd[p].type = "promote" /\ done[p] = {}

InOrder(p) ==
    /\ cmd[p] # None
    /\ cmd[p].type = "deploymentAddDefault"
    /\ Ask("deploymentAdd", Production) \in done[p] \cup out[p]
    => Ask("deploymentAdd", Staging) \in done[p]

Whole(p) ==
    result[p] = "ok" =>
        /\ cmd[p].type = "deploymentList" =>
              \A n \in Names : rows[p][n] \in Packages => Ask("getDeploymentMetrics", n) \in seen[p]
        /\ cmd[p].type = "deploymentHistory" =>
              {"getAccountInfo", "getDeploymentHistory", "getDeploymentMetrics"}
                  \subseteq {r.op : r \in seen[p]}

ProcInv(p) == RunInv(p) /\ Consented(p) /\ DoneOnSuccess(p) /\ InOrder(p) /\ Whole(p)

Inv == TypeOK /\ \A p \in Procs : ProcInv(p)

-----------------------------------------------------------------------------
(* Facts about the waves.  Each is seen by going through the types. *)
LEMMA CommandFacts ==
    ASSUME NEW c \in Command
    PROVE  /\ c.type \in Types
           /\ c.at \in Names \cup {None} /\ c.to \in Names \cup {None}
           /\ c # None
           /\ c.noDuplicateError => c.type = "promote"
           /\ c.type = "deploymentHistory" => c.at \in Names
           /\ [op |-> c.type, at |-> c.at, to |-> c.to] \in Request
BY ManagementAssumption DEF Command, Request, OfNamed, OfTwo, OfDeployment, Types, OfApp, OfAccount

(* Requests are requests, and change what their command is to change. *)
LEMMA WaveFacts ==
    ASSUME NEW c \in Command, NEW i \in Nat, NEW k, NEW r \in Wave(c, i, k)
    PROVE  /\ r \in Request
           /\ r.op \in Gated => c.type \in Gated
           /\ r.op \notin Reads => r \in Changes(c)
           /\ r.op = "getDeployments" /\ c.type = "deploymentList" => i = 1
<1> USE CommandFacts, ManagementAssumption DEF Wave, Ask, Request, Changes, Reads, OfNamed, OfTwo, OfDeployment
<1>1. CASE c.type = "deploymentAddDefault"
  BY <1>1 DEF DefaultsWave, Gated, Types
<1>2. CASE c.type = "appAdd"
  <2>1. c.at = None /\ c.to = None
    BY <1>2 DEF Command
  <2>2. QED
    BY <1>2, <2>1 DEF AppAddWave, Gated, Types, OfApp
<1>3. CASE c.type = "deploymentList"
  BY <1>3 DEF ListWave, Gated, Types
<1>4. CASE c.type = "deploymentHistory"
  <2>1. c.at \in Names /\ c.at # None
    BY <1>4
  <2>2. r.at \in {None, c.at} /\ r.to = None /\ (r.op = "getAccountInfo" <=> r.at = None)
    BY <1>4, <2>1 DEF HistoryWave
  <2>3. r.op \in {"getAccountInfo", "getDeploymentHistory", "getDeploymentMetrics"}
    BY <1>4 DEF HistoryWave
  <2>4. r = [op |-> r.op, at |-> r.at, to |-> r.to]
    BY <1>4 DEF HistoryWave
  <2>5. r \in Request
    BY <2>1, <2>2, <2>3, <2>4 DEF OfTwo
  <2>6. QED
    BY <1>4, <2>3, <2>5 DEF Gated
<1>5. CASE c.type \notin {"deploymentAddDefault", "appAdd", "deploymentList", "deploymentHistory"}
  BY <1>5
<1>6. QED
  BY <1>1, <1>2, <1>3, <1>4, <1>5

(* Only the second wave of a list depends on the deployments. *)
LEMMA WaveKnown ==
    ASSUME NEW c, NEW i, NEW k1, NEW k2, c.type # "deploymentList" \/ i = 1
    PROVE  Wave(c, i, k1) = Wave(c, i, k2)
BY DEF Wave, ListWave

(* Production is asked for in the second wave, after Staging in the first. *)
LEMMA DefaultsFacts ==
    ASSUME NEW c, c.type = "deploymentAddDefault", NEW i \in Nat, NEW k,
           Ask("deploymentAdd", Production) \in Wave(c, i, k)
    PROVE  i = 2 /\ Ask("deploymentAdd", Staging) \in Wave(c, 1, k)
BY ManagementAssumption DEF Wave, DefaultsWave, Ask

(* A promotion is one request. *)
LEMMA PromoteFacts ==
    ASSUME NEW c, c.type = "promote", NEW i \in Nat, NEW k, NEW r \in Wave(c, i, k)
    PROVE  Wave(c, i, k) = {r} /\ \A l : Wave(c, i + 1, l) = {}
BY DEF Wave

(* When no wave is left, the waves held all that was to change or to show. *)
LEMMA WavesComplete ==
    ASSUME NEW c \in Command, NEW i \in Nat \ {0}, NEW k, NEW S,
           Wave(c, i + 1, k) = {},
           \A j \in 1..i : Wave(c, j, k) \subseteq S
    PROVE  /\ Changes(c) \subseteq S
           /\ c.type = "deploymentList" =>
                 \A n \in Names : k[n] \in Packages => Ask("getDeploymentMetrics", n) \in S
           /\ c.type = "deploymentHistory" =>
                 {"getAccountInfo", "getDeploymentHistory", "getDeploymentMetrics"}
                     \subseteq {r.op : r \in S}
<1>0. Wave(c, 1, k) \subseteq S
  OBVIOUS
<1>1. CASE c.type = "deploymentAddDefault"
  <2>1. i # 1 /\ i # 2
    BY <1>1 DEF Wave, DefaultsWave
  <2>2. Wave(c, 2, k) \subseteq S
    BY <2>1
  <2>3. QED
    BY <1>0, <1>1, <2>2 DEF Wave, DefaultsWave, Changes
<1>2. CASE c.type = "deploymentList"
  <2>1. CASE i = 1
    BY <1>2, <2>1 DEF Wave, ListWave, Changes
  <2>2. CASE i # 1
    <3>1. Wave(c, 2, k) \subseteq S
      BY <2>2
    <3>2. QED
      BY <1>2, <3>1 DEF Wave, ListWave, Changes
  <2>3. QED
    BY <2>1, <2>2
<1>3. CASE c.type = "deploymentHistory"
  <2>1. {Ask("getAccountInfo", None), Ask("getDeploymentHistory", c.at),
         Ask("getDeploymentMetrics", c.at)} \subseteq S
    BY <1>0, <1>3 DEF Wave, HistoryWave
  <2>2. /\ Ask("getAccountInfo", None).op = "getAccountInfo"
        /\ Ask("getDeploymentHistory", c.at).op = "getDeploymentHistory"
        /\ Ask("getDeploymentMetrics", c.at).op = "getDeploymentMetrics"
    BY DEF Ask
  <2>3. QED
    BY <1>3, <2>1, <2>2 DEF Changes
<1>4. CASE c.type = "appAdd"
  <2>1. c.at = None /\ c.to = None
    BY <1>4 DEF Command, OfDeployment, OfTwo
  <2>2. QED
    BY <1>0, <1>4, <2>1 DEF Wave, AppAddWave, Changes, Ask
<1>5. CASE c.type \notin {"deploymentAddDefault", "appAdd", "deploymentList", "deploymentHistory"}
  BY <1>0, <1>5 DEF Wave, Changes
<1>6. QED
  BY <1>1, <1>2, <1>3, <1>4, <1>5

(* What the CLI sends are requests, of the wave that is due. *)
LEMMA SendFacts ==
    ASSUME Inv, NEW p \in Procs, pc[p] = "waiting"
    PROVE  /\ cmd[p] \in Command
           /\ wave[p] \in Nat \ {0} /\ wave[p] + 1 \in Nat
           /\ \A r \in out[p] :
                 /\ r \in Wave(cmd[p], wave[p], rows[p])
                 /\ r.op \notin Reads => r \in Changes(cmd[p])
                 /\ r.op = "getDeployments" /\ cmd[p].type = "deploymentList" => wave[p] = 1
BY WaveFacts DEF Inv, TypeOK, ProcInv, RunInv, Waiting

(* The server's state keeps its type. *)
LEMMA ApplyFacts ==
    ASSUME TypeOK, NEW r \in Request, Apply(r)
    PROVE  deployments' \in Rows /\ app' \in BOOLEAN
<1> USE ManagementAssumption DEF TypeOK, Rows, server, Set, Is, Holds
<1>0. r.op \in OfNamed => r.at \in Names
  BY DEF Request
<1>1. CASE r.op = "deploymentRename"
  BY <1>0, <1>1 DEF Apply, OfAccount, OfNamed, OfDeployment
<1>2. CASE r.op = "promote"
  BY <1>0, <1>2 DEF Apply, OfAccount, OfNamed, OfDeployment
<1>3. CASE r.op = "rollback"
  BY <1>0, <1>3 DEF Apply, OfAccount
<1>4. CASE r.op \in {"deploymentAdd", "deploymentRemove", "deploymentHistoryClear"}
  BY <1>4 DEF Apply, OfAccount
<1>5. CASE r.op \in {"appAdd", "appRemove", "appRename"}
  BY <1>5 DEF Apply, OfAccount, Gone, Defaults
<1>6. CASE r.op \notin {"deploymentRename", "promote", "rollback", "deploymentAdd", "appAdd",
                       "deploymentRemove", "deploymentHistoryClear", "appRemove", "appRename"}
  BY <1>6 DEF Apply
<1>7. QED
  BY <1>1, <1>2, <1>3, <1>4, <1>5, <1>6

(* Every variable keeps its type. *)
LEMMA TypeStep ==
    ASSUME Inv, Next PROVE TypeOK'
<1>1. ASSUME NEW p \in Procs, NEW c \in Command, Start(p, c)
      PROVE  TypeOK'
  <2>1. Wave(c, 1, rows[p]) \subseteq Request
    BY WaveFacts
  <2>2. [n \in Names |-> None] \in Rows /\ c # None
    BY CommandFacts DEF Rows
  <2>3. /\ cmd' \in [Procs -> Command \cup {None}] /\ seen' \in [Procs -> SUBSET Request]
        /\ rows' \in [Procs -> Rows] /\ done' \in [Procs -> SUBSET Request]
        /\ consent' \in [Procs -> BOOLEAN]
    BY <1>1, <2>2 DEF Start, Inv, TypeOK
  <2>4. /\ pc' \in [Procs -> {"idle", "prompt", "waiting"}] /\ wave' \in [Procs -> Nat]
        /\ \A q \in Procs : q # p => pc'[q] = pc[q]
    BY <1>1 DEF Start, Send, Finish, Inv, TypeOK
  <2>5. out' \in [Procs -> SUBSET Request]
    BY <1>1, <2>1 DEF Start, Send, Finish, Inv, TypeOK
  <2>6. result' \in [Procs -> {"none", "ok", "warned", "failed", "cancelled", "died"}]
    BY <1>1 DEF Start, Send, Finish, Inv, TypeOK
  <2>7. \A q \in Procs : pc'[q] # "idle" => cmd'[q] # None
    BY <1>1, <2>2, <2>4 DEF Start, Inv, TypeOK
  <2>8. deployments' = deployments /\ app' = app /\ stray' = stray
    BY <1>1 DEF Start, server
  <2>9. QED
    BY <2>3, <2>4, <2>5, <2>6, <2>7, <2>8 DEF Inv, TypeOK
<1>2. ASSUME NEW p \in Procs, NEW yes \in BOOLEAN, Answer(p, yes)
      PROVE  TypeOK'
  <2>1. Wave(cmd[p], 1, rows[p]) \subseteq Request
    BY <1>2, WaveFacts DEF Answer, Inv, TypeOK
  <2>2. CASE yes
    <3>1. /\ consent' = [consent EXCEPT ![p] = TRUE]
          /\ Send(p, cmd[p], 1, rows[p])
          /\ UNCHANGED result
          /\ UNCHANGED <<server, stray, cmd, seen, rows, done>>
      BY <1>2, <2>2, Zenon DEF Answer
    <3>2. pc[p] = "prompt"
      BY <1>2 DEF Answer
    <3>3. out' \in [Procs -> SUBSET Request] /\ consent' \in [Procs -> BOOLEAN]
      BY <2>1, <3>1 DEF Send, Inv, TypeOK
    <3>4. QED
      BY <3>1, <3>2, <3>3 DEF Send, Inv, TypeOK, server
  <2>3. CASE ~yes
    BY <1>2, <2>3 DEF Answer, Send, Finish, Inv, TypeOK, server
  <2>4. QED
    BY <2>2, <2>3
<1>3. ASSUME NEW p \in Procs, Interrupt(p)
      PROVE  TypeOK'
  BY <1>3 DEF Interrupt, Finish, run, Inv, TypeOK, server
<1>4. ASSUME NEW p \in Procs, NEW r \in out[p], Serve(p, r)
      PROVE  TypeOK'
  <2> DEFINE known == IF r.op = "getDeployments" THEN deployments ELSE rows[p]
  <2>1. r \in Request /\ pc[p] = "waiting" /\ known \in Rows
    BY DEF Inv, TypeOK, ProcInv, RunInv
  <2>2. cmd[p] \in Command /\ wave[p] + 1 \in Nat
    BY <2>1, SendFacts
  <2>3. Wave(cmd[p], wave[p] + 1, known) \subseteq Request
    BY <2>2, WaveFacts
  <2>4. deployments' \in Rows /\ app' \in BOOLEAN
    BY <1>4, <2>1, ApplyFacts DEF Serve, Inv
  <2>5. Resolve(p, r, known) /\ Did(p, r) /\ stray' = stray
    BY <1>4 DEF Serve
  <2> HIDE DEF known
  <2>6. QED
    BY <2>1, <2>2, <2>3, <2>4, <2>5 DEF Resolve, Send, Finish, Did, Inv, TypeOK
<1>5. ASSUME NEW p \in Procs, NEW r \in out[p], Misreport(p, r)
      PROVE  TypeOK'
  <2>1. r \in Request
    BY DEF Inv, TypeOK
  <2>2. deployments' \in Rows /\ app' \in BOOLEAN
    BY <1>5, <2>1, ApplyFacts DEF Misreport, Inv
  <2>3. QED
    BY <1>5, <2>1, <2>2 DEF Misreport, Reject, Finish, Did, Inv, TypeOK
<1>6. ASSUME NEW p \in Procs, NEW r \in out[p], Refuse(p, r)
      PROVE  TypeOK'
  BY <1>6 DEF Refuse, Reject, Finish, Inv, TypeOK, server
<1>7. ASSUME NEW p \in Procs, NEW r \in out[p], Leave(p, r)
      PROVE  TypeOK'
  BY <1>7 DEF Leave, Finish, run, Inv, TypeOK, server
<1>8. ASSUME NEW r \in stray, Arrive(r)
      PROVE  TypeOK'
  <2>1. r \in Request
    BY DEF Inv, TypeOK
  <2>2. deployments' \in Rows /\ app' \in BOOLEAN
    BY <1>8, <2>1, ApplyFacts DEF Arrive, Inv, TypeOK, server
  <2>3. QED
    BY <1>8, <2>2 DEF Arrive, run, Inv, TypeOK
<1>9. ASSUME NEW n \in Names, NEW k \in Packages, Release(n, k)
      PROVE  TypeOK'
  BY <1>9 DEF Release, run, Set, Inv, TypeOK, Rows
<1>10. QED
  BY <1>1, <1>2, <1>3, <1>4, <1>5, <1>6, <1>7, <1>8, <1>9
     DEF Next, Settle

-----------------------------------------------------------------------------
(* What a process keeps when another one, or the server, acts. *)
Same(q) ==
    /\ pc'[q] = pc[q] /\ cmd'[q] = cmd[q] /\ wave'[q] = wave[q] /\ out'[q] = out[q]
    /\ seen'[q] = seen[q] /\ rows'[q] = rows[q] /\ done'[q] = done[q]
    /\ consent'[q] = consent[q] /\ result'[q] = result[q]

LEMMA SameKept ==
    ASSUME NEW q, ProcInv(q), Same(q) PROVE ProcInv(q)'
<1>1. RunInv(q)'
  BY DEF ProcInv, Same, RunInv, Waiting
<1>2. Consented(q)'
  BY DEF ProcInv, Same, Consented
<1>3. DoneOnSuccess(q)'
  BY DEF ProcInv, Same, DoneOnSuccess
<1>4. InOrder(q)'
  BY DEF ProcInv, Same, InOrder
<1>5. Whole(q)'
  BY DEF ProcInv, Same, Whole
<1>6. QED
  BY <1>1, <1>2, <1>3, <1>4, <1>5 DEF ProcInv

(* A step of a process leaves the others alone. *)
LEMMA OthersSame ==
    ASSUME Inv, NEW p \in Procs, NEW q \in Procs, q # p,
           \/ \E c \in Command : Start(p, c)
           \/ \E yes \in BOOLEAN : Answer(p, yes)
           \/ Interrupt(p)
           \/ Settle(p)
           \/ \E r \in out[p] : Leave(p, r)
    PROVE  Same(q)
<1> USE DEF Inv, TypeOK, Same, Finish, Send, server, run
<1>1. ASSUME NEW c \in Command, Start(p, c) PROVE Same(q)
  <2>1. cmd'[q] = cmd[q] /\ seen'[q] = seen[q] /\ rows'[q] = rows[q] /\ done'[q] = done[q]
        /\ consent'[q] = consent[q]
    BY <1>1 DEF Start
  <2>2. pc'[q] = pc[q] /\ wave'[q] = wave[q] /\ out'[q] = out[q] /\ result'[q] = result[q]
    BY <1>1 DEF Start
  <2>3. QED
    BY <2>1, <2>2
<1>2. ASSUME NEW yes \in BOOLEAN, Answer(p, yes) PROVE Same(q)
  <2>1. \/ /\ consent' = [consent EXCEPT ![p] = TRUE]
           /\ Send(p, cmd[p], 1, rows[p])
           /\ UNCHANGED result
        \/ /\ Finish(p, "cancelled")
           /\ UNCHANGED <<wave, consent>>
    BY <1>2, Zenon DEF Answer
  <2>2. UNCHANGED <<cmd, seen, rows, done>>
    BY <1>2 DEF Answer
  <2>3. QED
    BY <2>1, <2>2
<1>3. ASSUME Interrupt(p) PROVE Same(q)
  BY <1>3 DEF Interrupt
<1>4. ASSUME NEW r \in out[p], Serve(p, r) PROVE Same(q)
  BY <1>4 DEF Serve, Resolve, Did
<1>5. ASSUME NEW r \in out[p], Misreport(p, r) PROVE Same(q)
  BY <1>5 DEF Misreport, Reject, Did
<1>6. ASSUME NEW r \in out[p], Refuse(p, r) PROVE Same(q)
  BY <1>6 DEF Refuse, Reject
<1>7. ASSUME NEW r \in out[p], Leave(p, r) PROVE Same(q)
  BY <1>7 DEF Leave
<1>8. QED
  BY <1>1, <1>2, <1>3, <1>4, <1>5, <1>6, <1>7 DEF Settle

(* What the first wave of an allowed command promises. *)
LEMMA FirstWave ==
    ASSUME NEW p \in Procs, TypeOK', cmd[p]' \in Command, wave[p]' = 1, seen[p]' = {}, done[p]' = {},
           pc[p]' = "waiting", result[p]' = "none",
           out[p]' = Wave(cmd[p]', 1, rows[p]'),
           cmd[p]'.type \in Gated => consent[p]'
    PROVE  ProcInv(p)'
<1>1. RunInv(p)'
  BY DEF RunInv, Waiting
<1>2. Consented(p)'
  BY WaveFacts DEF Consented
<1>3. DoneOnSuccess(p)'
  BY DEF DoneOnSuccess
<1>4. InOrder(p)'
  BY DefaultsFacts DEF InOrder
<1>5. Whole(p)'
  BY DEF Whole
<1>6. QED
  BY <1>1, <1>2, <1>3, <1>4, <1>5 DEF ProcInv

(* What a run that ends without success promises. *)
LEMMA RunEnds ==
    ASSUME NEW p \in Procs, TypeOK, ProcInv(p), Finish(p, result[p]'),
           result[p]' \in {"failed", "warned", "cancelled", "died"},
           UNCHANGED <<cmd, seen, consent>>,
           \/ done'[p] = done[p]
           \/ \E r \in out[p] : /\ done'[p] = done[p] \cup {r}
                                /\ r.op \notin Reads => r \in Changes(cmd[p])
                                /\ result[p]' = "failed" /\ cmd[p] # None,
           result[p]' = "cancelled" => done'[p] = {},
           result[p]' = "warned" => cmd[p].type = "promote" /\ done'[p] = {}
    PROVE  ProcInv(p)'
<1>0. pc'[p] = "idle" /\ out'[p] = {}
  BY DEF Finish, TypeOK
<1>1. RunInv(p)'
  BY <1>0 DEF ProcInv, RunInv
<1>2. Consented(p)'
  BY <1>0 DEF ProcInv, Consented
<1>3. DoneOnSuccess(p)'
  BY DEF ProcInv, DoneOnSuccess
<1>4. InOrder(p)'
  BY <1>0 DEF ProcInv, InOrder
<1>5. Whole(p)'
  BY DEF Whole
<1>6. QED
  BY <1>1, <1>2, <1>3, <1>4, <1>5 DEF ProcInv

(* What an answer does: the wave goes on, or the next one starts, or the run *)
(* ends. *)
LEMMA ServeStep ==
    ASSUME Inv, NEW p \in Procs, NEW r \in out[p], Serve(p, r),
           NEW known, known = IF r.op = "getDeployments" THEN deployments ELSE rows[p]
    PROVE  /\ pc[p] = "waiting" /\ Waiting(p) /\ ProcInv(p) /\ TypeOK
           /\ seen[p] \subseteq done[p] /\ result[p] = "none"
           /\ cmd[p] \in Command /\ cmd[p] # None /\ wave[p] \in Nat \ {0} /\ wave[p] + 1 \in Nat
           /\ r \in Wave(cmd[p], wave[p], rows[p])
           /\ r.op \notin Reads => r \in Changes(cmd[p])
           /\ \A j \in 1..wave[p] : Wave(cmd[p], j, known) = Wave(cmd[p], j, rows[p])
           /\ done'[p] = done[p] \cup {r} /\ seen'[p] = seen[p] \cup {r} /\ rows'[p] = known
           /\ cmd'[p] = cmd[p] /\ consent'[p] = consent[p]
           /\ \/ /\ out'[p] = out[p] \ {r} /\ out[p] \ {r} # {}
                 /\ pc'[p] = "waiting" /\ wave'[p] = wave[p] /\ result'[p] = "none"
              \/ /\ out[p] \subseteq {r} /\ Wave(cmd[p], wave[p] + 1, known) # {}
                 /\ out'[p] = Wave(cmd[p], wave[p] + 1, known)
                 /\ pc'[p] = "waiting" /\ wave'[p] = wave[p] + 1 /\ result'[p] = "none"
              \/ /\ out[p] \subseteq {r} /\ Wave(cmd[p], wave[p] + 1, known) = {} /\ out'[p] = {}
                 /\ pc'[p] = "idle" /\ result'[p] = "ok"
<1>1. /\ pc[p] = "waiting" /\ Waiting(p) /\ ProcInv(p) /\ TypeOK
      /\ seen[p] \subseteq done[p] /\ result[p] = "none"
  BY DEF Inv, TypeOK, ProcInv, RunInv
<1>2. /\ cmd[p] \in Command /\ cmd[p] # None /\ wave[p] \in Nat \ {0} /\ wave[p] + 1 \in Nat
      /\ r \in Wave(cmd[p], wave[p], rows[p])
      /\ r.op \notin Reads => r \in Changes(cmd[p])
      /\ r.op = "getDeployments" /\ cmd[p].type = "deploymentList" => wave[p] = 1
  BY <1>1, SendFacts, CommandFacts
<1>3. ASSUME NEW j \in 1..wave[p] PROVE Wave(cmd[p], j, known) = Wave(cmd[p], j, rows[p])
  BY <1>2, <1>3, WaveKnown
<1>4. /\ Resolve(p, r, known)
      /\ done'[p] = done[p] \cup {r} /\ seen'[p] = seen[p] \cup {r} /\ rows'[p] = known
      /\ cmd'[p] = cmd[p] /\ consent'[p] = consent[p]
  BY <1>1 DEF Serve, Did, Resolve, TypeOK
<1>5. \/ /\ out'[p] = out[p] \ {r} /\ out[p] \ {r} # {}
         /\ pc'[p] = "waiting" /\ wave'[p] = wave[p] /\ result'[p] = "none"
      \/ /\ out[p] \subseteq {r} /\ Wave(cmd[p], wave[p] + 1, known) # {}
         /\ out'[p] = Wave(cmd[p], wave[p] + 1, known)
         /\ pc'[p] = "waiting" /\ wave'[p] = wave[p] + 1 /\ result'[p] = "none"
      \/ /\ out[p] \subseteq {r} /\ Wave(cmd[p], wave[p] + 1, known) = {} /\ out'[p] = {}
         /\ pc'[p] = "idle" /\ result'[p] = "ok"
  BY <1>1, <1>4 DEF Resolve, Send, Finish, TypeOK
<1>6. QED
  BY <1>1, <1>2, <1>3, <1>4, <1>5

(* An answer counts for its request, whatever it told. *)
LEMMA ServeKeeps ==
    ASSUME Inv, TypeOK', NEW p \in Procs, NEW r \in out[p], Serve(p, r)
    PROVE  ProcInv(p)'
<1> DEFINE known == IF r.op = "getDeployments" THEN deployments ELSE rows[p]
           S == seen[p] \cup {r}
           c == cmd[p]
           i == wave[p]
<1>0. known = IF r.op = "getDeployments" THEN deployments ELSE rows[p]
  OBVIOUS
<1> HIDE DEF known
<1>1. /\ pc[p] = "waiting" /\ Waiting(p) /\ ProcInv(p) /\ TypeOK
      /\ seen[p] \subseteq done[p] /\ result[p] = "none"
  BY <1>0, ServeStep
<1>2. /\ c \in Command /\ c # None /\ i \in Nat \ {0} /\ i + 1 \in Nat
      /\ r \in Wave(c, i, rows[p])
      /\ r.op \notin Reads => r \in Changes(c)
  BY <1>0, ServeStep
<1>3. ASSUME NEW j \in 1..i PROVE Wave(c, j, known) = Wave(c, j, rows[p])
  BY <1>0, ServeStep
<1>4. /\ done'[p] = done[p] \cup {r} /\ seen'[p] = S /\ rows'[p] = known
      /\ cmd'[p] = c /\ consent'[p] = consent[p]
  BY <1>0, ServeStep
<1>5. \/ /\ out'[p] = out[p] \ {r} /\ out[p] \ {r} # {}
         /\ pc'[p] = "waiting" /\ wave'[p] = i /\ result'[p] = "none"
      \/ /\ out[p] \subseteq {r} /\ Wave(c, i + 1, known) # {} /\ out'[p] = Wave(c, i + 1, known)
         /\ pc'[p] = "waiting" /\ wave'[p] = i + 1 /\ result'[p] = "none"
      \/ /\ out[p] \subseteq {r} /\ Wave(c, i + 1, known) = {} /\ out'[p] = {}
         /\ pc'[p] = "idle" /\ result'[p] = "ok"
  BY <1>0, ServeStep
<1>6. \A j \in 1..i : Wave(c, j, known) \subseteq S \cup (out[p] \ {r})
  BY <1>1, <1>3 DEF Waiting
<1>7. c.type = "promote" => pc'[p] = "idle"
  BY <1>1, <1>2, <1>5, PromoteFacts DEF Waiting
<1>8. RunInv(p)'
  <2>1. pc'[p] = "waiting" => Waiting(p)'
    <3>1. CASE wave'[p] = i /\ out'[p] = out[p] \ {r} /\ pc'[p] = "waiting"
      <4>1. out'[p] \subseteq Wave(c, i, known)
        BY <1>1, <1>2, <1>3, <3>1 DEF Waiting
      <4>2. QED
        BY <1>1, <1>2, <1>4, <1>6, <1>7, <3>1, <4>1 DEF Waiting
    <3>2. CASE wave'[p] = i + 1 /\ out'[p] = Wave(c, i + 1, known) /\ out[p] \subseteq {r}
               /\ pc'[p] = "waiting"
      <4>1. ASSUME NEW j \in 1..(i + 1)
            PROVE  Wave(c, j, known) \subseteq S \cup Wave(c, i + 1, known)
        <5>1. j = i + 1 \/ j \in 1..i
          BY <1>2
        <5>2. QED
          BY <1>6, <3>2, <5>1
      <4>2. QED
        BY <1>1, <1>2, <1>4, <1>7, <3>2, <4>1 DEF Waiting
    <3>3. QED
      BY <1>5, <3>1, <3>2
  <2>2. QED
    BY <1>1, <1>4, <1>5, <2>1 DEF RunInv
<1>9. Consented(p)'
  <2>1. c.type \in Gated => consent[p]
    BY <1>1 DEF Waiting
  <2>2. \A t \in Wave(c, i + 1, known) : t.op \in Gated => consent[p]
    BY <1>2, <2>1, WaveFacts
  <2>3. \A t \in out[p] \cup done[p] : t.op \in Gated => consent[p]
    BY <1>1 DEF ProcInv, Consented
  <2>4. out'[p] \cup done'[p] \subseteq out[p] \cup done[p] \cup Wave(c, i + 1, known)
    BY <1>4, <1>5
  <2>5. QED
    BY <1>4, <2>2, <2>3, <2>4 DEF Consented
<1>10. result'[p] = "ok" =>
          /\ Changes(c) \subseteq S
          /\ c.type = "deploymentList" =>
                \A n \in Names : known[n] \in Packages => Ask("getDeploymentMetrics", n) \in S
          /\ c.type = "deploymentHistory" =>
                {"getAccountInfo", "getDeploymentHistory", "getDeploymentMetrics"}
                    \subseteq {t.op : t \in S}
  <2> SUFFICES ASSUME result'[p] = "ok"
               PROVE  /\ Changes(c) \subseteq S
                      /\ c.type = "deploymentList" =>
                            \A n \in Names : known[n] \in Packages
                                => Ask("getDeploymentMetrics", n) \in S
                      /\ c.type = "deploymentHistory" =>
                            {"getAccountInfo", "getDeploymentHistory", "getDeploymentMetrics"}
                                \subseteq {t.op : t \in S}
    OBVIOUS
  <2>1. Wave(c, i + 1, known) = {} /\ out[p] \subseteq {r}
    BY <1>5
  <2>2. \A j \in 1..i : Wave(c, j, known) \subseteq S
    BY <1>6, <2>1
  <2> HIDE DEF S, c, i
  <2>3. QED
    BY <1>2, <2>1, <2>2, WavesComplete
<1>11. DoneOnSuccess(p)'
  <2>1. {t \in done[p] : t.op \notin Reads} \subseteq Changes(c)
    BY <1>1, <1>2 DEF ProcInv, DoneOnSuccess
  <2>2. {t \in done'[p] : t.op \notin Reads} \subseteq Changes(c)
    BY <1>2, <1>4, <2>1
  <2>3. result'[p] = "ok" => Changes(c) \subseteq done'[p]
    BY <1>1, <1>4, <1>10
  <2>4. result'[p] \in {"none", "ok"}
    BY <1>5
  <2>5. QED
    BY <1>2, <1>4, <2>2, <2>3, <2>4 DEF DoneOnSuccess
<1>12. InOrder(p)'
  <2> DEFINE first == Ask("deploymentAdd", Staging)
             second == Ask("deploymentAdd", Production)
  <2> SUFFICES ASSUME c.type = "deploymentAddDefault", second \in done'[p] \cup out'[p]
               PROVE  first \in done'[p]
    BY <1>4 DEF InOrder
  <2>1. CASE second \in done[p] \cup out[p]
    BY <1>1, <1>2, <1>4, <2>1 DEF ProcInv, InOrder
  <2>2. CASE second \notin done[p] \cup out[p]
    <3>1. second \in Wave(c, i + 1, known) /\ out[p] \subseteq {r}
      BY <1>4, <1>5, <2>2
    <3>2. i + 1 = 2 /\ first \in Wave(c, 1, known)
      BY <1>2, <3>1, DefaultsFacts
    <3>3. first \in S
      BY <1>2, <1>6, <3>1, <3>2
    <3>4. QED
      BY <1>1, <1>4, <3>3
  <2>3. QED
    BY <2>1, <2>2
<1>13. Whole(p)'
  BY <1>4, <1>10 DEF Whole
<1>14. QED
  BY <1>8, <1>9, <1>11, <1>12, <1>13 DEF ProcInv

-----------------------------------------------------------------------------
(* Every step keeps the invariant. *)
LEMMA StepKeeps ==
    ASSUME Inv, Next PROVE Inv'
<1>1. TypeOK'
  BY TypeStep
<1>2. ASSUME NEW p \in Procs, NEW c \in Command, Start(p, c) PROVE ProcInv(p)'
  <2>0. /\ pc[p] = "idle" /\ out[p] = {} /\ [n \in Names |-> None][Staging] = None
        /\ c # None
    BY <1>2, CommandFacts, ManagementAssumption DEF Start, Inv, ProcInv, RunInv
  <2>1. /\ cmd'[p] = c /\ seen'[p] = {} /\ done'[p] = {} /\ consent'[p] = FALSE
    BY <1>2 DEF Start, Inv, TypeOK
  <2>2. CASE c.wellFormed /\ c.type \notin Gated
    <3>1. /\ pc'[p] = "waiting" /\ wave'[p] = 1 /\ out'[p] = Wave(c, 1, rows[p])
          /\ result'[p] = "none"
      BY <1>2, <2>2 DEF Start, Send, Inv, TypeOK
    <3>2. Wave(c, 1, rows[p]) = Wave(c, 1, rows'[p])
      BY WaveKnown
    <3>3. QED
      BY <1>1, <2>1, <2>2, <3>1, <3>2, FirstWave
  <2>3. CASE ~(c.wellFormed /\ c.type \notin Gated)
    <3>1. /\ \/ pc'[p] = "idle" /\ result'[p] = "failed"
             \/ pc'[p] = "prompt" /\ result'[p] = "none"
          /\ out'[p] = {}
      BY <1>2, <2>0, <2>3 DEF Start, Finish, Inv, TypeOK
    <3>2. QED
      BY <2>0, <2>1, <3>1
         DEF ProcInv, RunInv, Consented, DoneOnSuccess, InOrder, Whole
  <2>4. QED
    BY <2>2, <2>3
<1>3. ASSUME NEW p \in Procs, NEW yes \in BOOLEAN, Answer(p, yes) PROVE ProcInv(p)'
  <2>0. /\ pc[p] = "prompt" /\ done[p] = {} /\ seen[p] = {} /\ cmd[p] \in Command
        /\ result[p] = "none" /\ TypeOK /\ ProcInv(p)
    BY <1>3 DEF Answer, Inv, TypeOK, ProcInv, RunInv
  <2>1. UNCHANGED <<cmd, seen, rows, done>>
    BY <1>3 DEF Answer
  <2>2. \/ /\ consent' = [consent EXCEPT ![p] = TRUE]
           /\ Send(p, cmd[p], 1, rows[p])
           /\ UNCHANGED result
        \/ /\ Finish(p, "cancelled")
           /\ UNCHANGED <<wave, consent>>
    BY <1>3, Zenon DEF Answer
  <2>3. CASE /\ consent' = [consent EXCEPT ![p] = TRUE]
             /\ Send(p, cmd[p], 1, rows[p])
             /\ UNCHANGED result
    <3>1. /\ pc'[p] = "waiting" /\ wave'[p] = 1 /\ out'[p] = Wave(cmd[p], 1, rows[p])
          /\ result'[p] = "none" /\ consent'[p] = TRUE
      BY <2>0, <2>3 DEF Send, TypeOK
    <3>2. QED
      BY <1>1, <2>0, <2>1, <3>1, FirstWave
  <2>4. CASE Finish(p, "cancelled") /\ UNCHANGED <<wave, consent>>
    <3>1. result'[p] = "cancelled"
      BY <2>0, <2>4 DEF Finish, TypeOK
    <3>2. QED
      BY <2>0, <2>1, <2>4, <3>1, RunEnds
  <2>5. QED
    BY <2>2, <2>3, <2>4
<1>4. ASSUME NEW p \in Procs, Interrupt(p) PROVE ProcInv(p)'
  <2>1. Finish(p, "died") /\ result'[p] = "died" /\ UNCHANGED <<cmd, seen, consent, done>>
    BY <1>4 DEF Interrupt, Finish, Inv, TypeOK, run
  <2>2. QED
    BY <2>1, RunEnds DEF Inv
<1>5. ASSUME NEW p \in Procs, NEW r \in out[p], Serve(p, r) PROVE ProcInv(p)'
  BY <1>1, <1>5, ServeKeeps
<1>6. ASSUME NEW p \in Procs, NEW r \in out[p], Misreport(p, r) PROVE ProcInv(p)'
  <2>1. /\ Finish(p, "failed") /\ result'[p] = "failed" /\ UNCHANGED <<cmd, seen, consent>>
        /\ done'[p] = done[p] \cup {r}
    BY <1>6 DEF Misreport, Reject, Did, Finish, Inv, TypeOK
  <2>2. cmd[p] # None /\ (r.op \notin Reads => r \in Changes(cmd[p]))
    BY SendFacts, CommandFacts DEF Inv, ProcInv, RunInv
  <2>3. QED
    BY <2>1, <2>2, RunEnds DEF Inv
<1>7. ASSUME NEW p \in Procs, NEW r \in out[p], Refuse(p, r) PROVE ProcInv(p)'
  <2>1. pc[p] = "waiting" /\ Waiting(p) /\ cmd[p] \in Command
    BY SendFacts DEF Inv, ProcInv, RunInv
  <2>2. cmd[p].noDuplicateError => cmd[p].type = "promote" /\ done[p] = {}
    BY <2>1, CommandFacts DEF Waiting
  <2>3. UNCHANGED <<cmd, seen, consent, done>>
    BY <1>7 DEF Refuse, Reject
  <2>4. \/ Finish(p, "failed") /\ result'[p] = "failed"
        \/ Finish(p, "warned") /\ result'[p] = "warned" /\ cmd[p].noDuplicateError
    BY <1>7 DEF Refuse, Reject, Finish, Inv, TypeOK
  <2>5. QED
    BY <2>2, <2>3, <2>4, RunEnds DEF Inv
<1>8. ASSUME NEW p \in Procs, NEW r \in out[p], Leave(p, r) PROVE ProcInv(p)'
  <2>1. UNCHANGED <<cmd, seen, consent, done>>
    BY <1>8 DEF Leave, run
  <2>2. \/ Finish(p, "failed") /\ result'[p] = "failed"
        \/ Finish(p, "died") /\ result'[p] = "died"
    BY <1>8 DEF Leave, Finish, Inv, TypeOK
  <2>3. QED
    BY <2>1, <2>2, RunEnds DEF Inv
<1>9. ASSUME NEW q \in Procs PROVE ProcInv(q)'
  <2>1. ASSUME UNCHANGED <<pc, run, out, result>> PROVE ProcInv(q)'
    BY <2>1, SameKept DEF run, Same, Inv
  <2>2. ASSUME NEW r \in stray, Arrive(r) PROVE ProcInv(q)'
    BY <2>1, <2>2 DEF Arrive
  <2>3. ASSUME NEW n \in Names, NEW k \in Packages, Release(n, k) PROVE ProcInv(q)'
    BY <2>1, <2>3 DEF Release
  <2>4. ASSUME NEW p \in Procs,
               \/ \E c \in Command : Start(p, c)
               \/ \E yes \in BOOLEAN : Answer(p, yes)
               \/ Interrupt(p)
               \/ Settle(p)
               \/ \E r \in out[p] : Leave(p, r)
        PROVE  ProcInv(q)'
    <3>1. CASE q = p
      BY <1>2, <1>3, <1>4, <1>5, <1>6, <1>7, <1>8, <2>4, <3>1 DEF Settle
    <3>2. CASE q # p
      BY <2>4, <3>2, OthersSame, SameKept DEF Inv
    <3>3. QED
      BY <3>1, <3>2
  <2>5. QED
    BY <2>2, <2>3, <2>4 DEF Next
<1>10. QED
  BY <1>1, <1>9 DEF Inv

THEOREM Invariance == Spec => []Inv
<1>1. Init => Inv
  <2> SUFFICES ASSUME Init PROVE Inv
    OBVIOUS
  <2>1. TypeOK
    BY ManagementAssumption DEF Init, TypeOK, Rows
  <2>2. ASSUME NEW p \in Procs PROVE ProcInv(p)
    BY DEF Init, ProcInv, RunInv, Consented, DoneOnSuccess, InOrder, Whole
  <2>3. QED
    BY <2>1, <2>2 DEF Inv
<1>2. Inv /\ [Next]_vars => Inv'
  <2> SUFFICES ASSUME Inv, [Next]_vars PROVE Inv'
    OBVIOUS
  <2>1. CASE Next
    BY <2>1, StepKeeps
  <2>2. CASE UNCHANGED vars
    <3>1. UNCHANGED <<deployments, app, stray, pc, cmd, wave, seen, rows, done, consent, out, result>>
      BY <2>2 DEF vars, server, run
    <3>2. TypeOK'
      BY <3>1 DEF Inv, TypeOK
    <3>3. ASSUME NEW p \in Procs PROVE ProcInv(p)'
      BY <3>1, SameKept DEF Same, Inv
    <3>4. QED
      BY <3>2, <3>3 DEF Inv
  <2>3. QED
    BY <2>1, <2>2
<1>3. QED
  BY <1>1, <1>2, PTL DEF Spec

-----------------------------------------------------------------------------
(* Type correctness. *)
THEOREM TypeCorrect == Spec => []TypeOK
<1>1. Inv => TypeOK
  BY DEF Inv
<1>2. QED
  BY Invariance, <1>1, PTL

(* What destroys or gives away is never sent without a "y" of the same run. *)
THEOREM ConsentGiven == Spec => []NothingWithoutConsent
<1>1. Inv => NothingWithoutConsent
  BY DEF Inv, ProcInv, Consented, NothingWithoutConsent
<1>2. QED
  BY Invariance, <1>1, PTL

(* A success is reported only of what the server did, and nothing is done *)
(* for a command but what it asks for. *)
THEOREM SuccessDone == Spec => []SuccessIsDone
<1>1. Inv => SuccessIsDone
  BY DEF Inv, ProcInv, DoneOnSuccess, SuccessIsDone, Changed, Plan
<1>2. QED
  BY Invariance, <1>1, PTL

(* Production is added only after Staging was. *)
THEOREM DefaultsOrdered == Spec => []DefaultsInOrder
<1>1. Inv => DefaultsInOrder
  BY DEF Inv, ProcInv, InOrder, DefaultsInOrder
<1>2. QED
  BY Invariance, <1>1, PTL

(* What a list or a history shows is complete, in whatever order the answers *)
(* came. *)
THEOREM ListsWhole == Spec => []PrintedWhole
<1>1. Inv => PrintedWhole
  BY DEF Inv, ProcInv, Whole, PrintedWhole
<1>2. QED
  BY Invariance, <1>1, PTL

-----------------------------------------------------------------------------
\* A change that is done is not awaited, and belongs to a wave that was sent.
Fresh(p) ==
    pc[p] = "waiting" =>
        \A r \in done[p] : r.op \notin Reads =>
            r \notin out[p] /\ \E j \in 1..wave[p] : r \in Wave(cmd[p], j, rows[p])

\* Where there is no app there is no deployment.
Owned == app \/ \A n \in Names : ~Is(n)

PromiseInv == Inv /\ Owned /\ \A p \in Procs : Fresh(p)

(* No change belongs to two waves. *)
LEMMA OneWave ==
    ASSUME NEW c \in Command, NEW i \in Nat, NEW j \in Nat, NEW k, NEW l, NEW r,
           r \in Wave(c, i, k), r \in Wave(c, j, l), r.op \notin Reads
    PROVE  i = j
<1>1. CASE c.type = "deploymentAddDefault"
  BY <1>1, ManagementAssumption DEF Wave, DefaultsWave, Ask, Reads
<1>2. CASE c.type = "appAdd"
  BY <1>2 DEF Wave, AppAddWave, Ask, Reads
<1>3. CASE c.type = "deploymentList"
  BY <1>3 DEF Wave, ListWave, Ask, Reads
<1>4. CASE c.type = "deploymentHistory"
  BY <1>4 DEF Wave, HistoryWave, Ask, Reads
<1>5. CASE c.type \notin {"deploymentAddDefault", "appAdd", "deploymentList", "deploymentHistory"}
  BY <1>5 DEF Wave
<1>6. QED
  BY <1>1, <1>2, <1>3, <1>4, <1>5

(* What is to change are requests, none of which only reads; a "y" is asked *)
(* for the commands whose change needs one. *)
LEMMA ChangesFacts ==
    ASSUME NEW c \in Command
    PROVE  /\ \A r \in Changes(c) : r \in Request /\ r.op \notin Reads
           /\ c.type \in Gated <=> Changes(c) \cap Asked # {}
           /\ c.type = "promote" => Changes(c) \cap Excused # {}
<1>1. CASE c.type = "deploymentAddDefault"
  BY <1>1, ManagementAssumption
     DEF Changes, Ask, Request, Reads, OfNamed, OfDeployment, OfTwo, Types, Asked, Gated
<1>2. CASE c.type \in {"deploymentList", "deploymentHistory"}
  BY <1>2 DEF Changes, Gated
<1>3. CASE c.type \notin {"deploymentAddDefault", "deploymentList", "deploymentHistory"}
  <2> DEFINE r == [op |-> c.type, at |-> c.at, to |-> c.to]
  <2>1. Changes(c) = {r} /\ r.op = c.type
    BY <1>3 DEF Changes
  <2>2. r \in Request /\ c.type \in Types
    BY CommandFacts
  <2>3. c.type \notin Reads
    BY <1>3, <2>2 DEF Reads, Types, OfDeployment, OfApp, OfAccount
  <2> HIDE DEF r
  <2>4. QED
    BY <2>1, <2>2, <2>3 DEF Asked, Excused
<1>4. QED
  BY <1>1, <1>2, <1>3

(* After an answer its change is done for good. *)
LEMMA ServeFresh ==
    ASSUME Inv, NEW p \in Procs, Fresh(p), NEW r \in out[p], Serve(p, r) PROVE Fresh(p)'
<1> DEFINE known == IF r.op = "getDeployments" THEN deployments ELSE rows[p]
           c == cmd[p]
           i == wave[p]
<1>0. known = IF r.op = "getDeployments" THEN deployments ELSE rows[p]
  OBVIOUS
<1> HIDE DEF known
<1>1. /\ pc[p] = "waiting" /\ c \in Command /\ i \in Nat \ {0} /\ i + 1 \in Nat
      /\ r \in Wave(c, i, rows[p])
      /\ \A j \in 1..i : Wave(c, j, known) = Wave(c, j, rows[p])
      /\ done'[p] = done[p] \cup {r} /\ rows'[p] = known /\ cmd'[p] = c
  BY <1>0, ServeStep
<1>2. \/ out'[p] = out[p] \ {r} /\ wave'[p] = i
      \/ out'[p] = Wave(c, i + 1, known) /\ wave'[p] = i + 1
      \/ pc'[p] = "idle"
  BY <1>0, ServeStep
<1>3. ASSUME NEW t \in done'[p], t.op \notin Reads
      PROVE  \E j \in 1..i : t \in Wave(c, j, known)
  <2>1. CASE t = r
    BY <1>1, <2>1
  <2>2. CASE t \in done[p]
    BY <1>1, <1>3, <2>2 DEF Fresh
  <2>3. QED
    BY <1>1, <2>1, <2>2
<1>4. CASE out'[p] = out[p] \ {r} /\ wave'[p] = i
  <2>1. ASSUME NEW t \in done'[p], t.op \notin Reads PROVE t \notin out'[p]
    BY <1>1, <1>4, <2>1 DEF Fresh
  <2>2. QED
    BY <1>1, <1>3, <1>4, <2>1 DEF Fresh
<1>5. CASE out'[p] = Wave(c, i + 1, known) /\ wave'[p] = i + 1
  <2>1. ASSUME NEW t \in done'[p], t.op \notin Reads
        PROVE  t \notin out'[p] /\ \E j \in 1..wave'[p] : t \in Wave(cmd'[p], j, rows'[p])
    <3>1. PICK j \in 1..i : t \in Wave(c, j, known)
      BY <1>3, <2>1
    <3>2. j \in Nat /\ j # i + 1 /\ j \in 1..(i + 1)
      BY <1>1
    <3>3. t \notin Wave(c, i + 1, known)
      BY <1>1, <2>1, <3>1, <3>2, OneWave
    <3>4. QED
      BY <1>1, <1>5, <3>1, <3>2, <3>3
  <2>2. QED
    BY <2>1 DEF Fresh
<1>6. CASE pc'[p] = "idle"
  BY <1>6 DEF Fresh
<1>7. QED
  BY <1>2, <1>4, <1>5, <1>6

(* No step makes a change anew that is done. *)
LEMMA FreshStep ==
    ASSUME Inv, Next, NEW q \in Procs, Fresh(q) PROVE Fresh(q)'
<1>1. ASSUME Same(q) PROVE Fresh(q)'
  BY <1>1 DEF Same, Fresh
<1>2. ASSUME pc'[q] # "waiting" \/ done'[q] = {} PROVE Fresh(q)'
  BY <1>2 DEF Fresh
<1>3. ASSUME NEW c \in Command, Start(q, c) PROVE Fresh(q)'
  BY <1>2, <1>3 DEF Start, Inv, TypeOK
<1>4. ASSUME NEW yes \in BOOLEAN, Answer(q, yes) PROVE Fresh(q)'
  <2>1. done' = done /\ pc[q] = "prompt"
    BY <1>4 DEF Answer
  <2>2. done[q] = {}
    BY <2>1 DEF Inv, ProcInv, RunInv
  <2>3. QED
    BY <1>2, <2>1, <2>2
<1>5. ASSUME NEW how, Finish(q, how) PROVE Fresh(q)'
  <2>1. pc'[q] = "idle"
    BY <1>5 DEF Finish, Inv, TypeOK
  <2>2. QED
    BY <1>2, <2>1
<1>6. ASSUME \/ \E c \in Command : Start(q, c)
             \/ \E yes \in BOOLEAN : Answer(q, yes)
             \/ Interrupt(q)
             \/ Settle(q)
             \/ \E r \in out[q] : Leave(q, r)
      PROVE  Fresh(q)'
  <2>1. CASE Interrupt(q)
    BY <1>5, <2>1 DEF Interrupt
  <2>2. ASSUME NEW r \in out[q], Serve(q, r) \/ Misreport(q, r) \/ Refuse(q, r)
        PROVE  Fresh(q)'
    BY <1>5, <2>2, ServeFresh DEF Misreport, Refuse, Reject
  <2>3. ASSUME NEW r \in out[q], Leave(q, r) PROVE Fresh(q)'
    BY <1>5, <2>3 DEF Leave
  <2>4. QED
    BY <1>3, <1>4, <1>6, <2>1, <2>2, <2>3 DEF Settle
<1>7. ASSUME UNCHANGED <<pc, run, out, result>> PROVE Fresh(q)'
  BY <1>1, <1>7 DEF run, Same
<1>8. ASSUME NEW p \in Procs, p # q,
             \/ \E c \in Command : Start(p, c)
             \/ \E yes \in BOOLEAN : Answer(p, yes)
             \/ Interrupt(p)
             \/ Settle(p)
             \/ \E r \in out[p] : Leave(p, r)
      PROVE  Fresh(q)'
  BY <1>1, <1>8, OthersSame
<1>9. QED
  BY <1>6, <1>7, <1>8 DEF Next, Arrive, Release

-----------------------------------------------------------------------------
(* A request changes what it is about, and the app goes with all it has. *)
LEMMA ApplyTouches ==
    ASSUME TypeOK, Owned, NEW r \in Request, Apply(r)
    PROVE  /\ Owned'
           /\ (Existing' \ Existing) \cup (Existing \ Existing') \subseteq Touches[r]
           /\ r.op \in Reads => UNCHANGED server
<1> USE ManagementAssumption DEF TypeOK, Rows, server, Set, Is, Holds, Owned, Existing
<1>0. r.op \in OfNamed => r.at \in Names
  BY DEF Request
<1>1. CASE r.op = "deploymentRename"
  <2>1. /\ Is(r.at) /\ ~Is(r.to) /\ UNCHANGED app
        /\ deployments' = [deployments EXCEPT ![r.at] = None, ![r.to] = deployments[r.at]]
    BY <1>1 DEF Apply, OfAccount
  <2>2. Touches[r] = {r.at, r.to} /\ r.at \in Names
    BY <1>0, <1>1 DEF Touches, OfNamed, OfDeployment
  <2>3. QED
    BY <1>1, <2>1, <2>2 DEF Reads
<1>2. CASE r.op = "promote"
  <2>1. Holds(r.at) /\ Is(r.to) /\ Set(r.to, deployments[r.at])
    BY <1>2 DEF Apply, OfAccount
  <2>2. r.at \in Names
    BY <1>0, <1>2 DEF OfNamed, OfDeployment
  <2>3. Owned' /\ Existing' = Existing
    BY <2>1, <2>2
  <2>4. QED
    BY <1>2, <2>3 DEF Reads
<1>3. CASE r.op = "rollback"
  <2>1. r.at \in Names
    BY <1>0, <1>3 DEF OfNamed, OfDeployment
  <2>2. PICK k \in Packages : Holds(r.at) /\ Set(r.at, k)
    BY <1>3 DEF Apply, OfAccount
  <2>3. Owned' /\ Existing' = Existing
    BY <2>1, <2>2
  <2>4. QED
    BY <1>3, <2>3 DEF Reads
<1>4. CASE r.op \in {"deploymentAdd", "deploymentRemove", "deploymentHistoryClear"}
  <2>1. r.at \in Names
    BY <1>0, <1>4 DEF OfNamed, OfDeployment
  <2>2. CASE r.op = "deploymentHistoryClear"
    <3>1. Is(r.at) /\ Set(r.at, NoPackage)
      BY <2>2 DEF Apply, OfAccount
    <3>2. Owned' /\ Existing' = Existing
      BY <2>1, <3>1
    <3>3. QED
      BY <2>2, <3>2 DEF Reads
  <2>3. CASE r.op = "deploymentAdd"
    <3>1. app /\ Set(r.at, NoPackage) /\ r.at \in Touches[r]
      BY <2>3 DEF Apply, OfAccount, Touches
    <3>2. QED
      BY <2>1, <2>3, <3>1 DEF Reads
  <2>4. CASE r.op = "deploymentRemove"
    <3>1. Is(r.at) /\ Set(r.at, None) /\ r.at \in Touches[r]
      BY <2>4 DEF Apply, OfAccount, Touches
    <3>2. QED
      BY <2>1, <2>4, <3>1 DEF Reads
  <2>5. QED
    BY <1>4, <2>2, <2>3, <2>4
<1>5. CASE r.op = "appAdd"
  <2>1. ~app /\ app' = TRUE /\ deployments' = Defaults
    BY <1>5 DEF Apply, OfAccount
  <2>2. Touches[r] = {Staging, Production}
    BY <1>5 DEF Touches
  <2>3. QED
    BY <1>5, <2>1, <2>2 DEF Defaults, Reads
<1>6. CASE r.op \in {"appRemove", "appRename"}
  <2>1. Gone
    BY <1>6 DEF Apply, OfAccount
  <2>2. Touches[r] = Names
    BY <1>6 DEF Touches
  <2>3. QED
    BY <1>6, <2>1, <2>2 DEF Gone, Reads
<1>7. CASE r.op \notin {"deploymentRename", "promote", "rollback", "deploymentAdd", "appAdd",
                       "deploymentRemove", "deploymentHistoryClear", "appRemove", "appRename"}
  BY <1>7 DEF Apply
<1>8. QED
  BY <1>1, <1>2, <1>3, <1>4, <1>5, <1>6, <1>7

LEMMA OwnedStep ==
    ASSUME Inv, Owned, Next PROVE Owned'
<1>0. TypeOK
  BY DEF Inv
<1>1. ASSUME UNCHANGED server PROVE Owned'
  BY <1>1 DEF server, Owned, Is
<1>2. ASSUME NEW p \in Procs, NEW r \in out[p], Apply(r) PROVE Owned'
  <2>1. r \in Request
    BY <1>0 DEF TypeOK
  <2>2. QED
    BY <1>0, <1>2, <2>1, ApplyTouches
<1>3. ASSUME NEW r \in stray, Arrive(r) PROVE Owned'
  <2>1. r \in Request
    BY <1>0 DEF TypeOK
  <2>2. QED
    BY <1>0, <1>1, <1>3, <2>1, ApplyTouches DEF Arrive
<1>4. ASSUME NEW n \in Names, NEW k \in Packages, Release(n, k) PROVE Owned'
  BY <1>4 DEF Release, Set, Owned, Is
<1>5. QED
  BY <1>1, <1>2, <1>3, <1>4
     DEF Next, Settle, Start, Answer, Interrupt, Leave, Serve, Misreport, Refuse

-----------------------------------------------------------------------------
(* What an answer does to the run as its user knows it. *)
LEMMA ServeSeen ==
    ASSUME TypeOK, NEW p \in Procs, pc[p] = "waiting", NEW r, NEW known, Resolve(p, r, known)
    PROVE  \/ UNCHANGED <<pc, result>>
           \/ pc' = [pc EXCEPT ![p] = "idle"] /\ result' = [result EXCEPT ![p] = "ok"]
BY DEF Resolve, Send, Finish, TypeOK

(* What was done of the plan, after a request was served. *)
LEMMA DidSeen ==
    ASSUME TypeOK, NEW p \in Procs, NEW r, Did(p, r)
    PROVE  LET did == [q \in Procs |-> Changed(q)]
           IN  did' = IF r.op \in Reads THEN did ELSE [did EXCEPT ![p] = @ \cup {r}]
<1> DEFINE did == [q \in Procs |-> Changed(q)]
<1>1. ASSUME NEW q \in Procs
      PROVE  done'[q] = IF q = p THEN done[q] \cup {r} ELSE done[q]
  BY DEF Did, TypeOK
<1>2. CASE r.op \in Reads
  <2>1. ASSUME NEW q \in Procs PROVE Changed(q)' = Changed(q)
    BY <1>1, <1>2 DEF Changed
  <2>2. QED
    BY <1>2, <2>1
<1>3. CASE r.op \notin Reads
  <2>1. ASSUME NEW q \in Procs
        PROVE  Changed(q)' = IF q = p THEN Changed(q) \cup {r} ELSE Changed(q)
    BY <1>1, <1>3 DEF Changed
  <2>2. QED
    BY <1>3, <2>1
<1>4. QED
  BY <1>2, <1>3

(* Every step is a step of CommandOutcome, or nothing its user is told of. *)
LEMMA StepPromised ==
    ASSUME PromiseInv, Next PROVE [Promise!Next]_(Promise!vars)
<1> DEFINE plan == [p \in Procs |-> Plan(p)]
           did == [p \in Procs |-> Changed(p)]
<1>0. /\ Inv /\ Owned /\ TypeOK /\ Inv'
      /\ \A p \in Procs : Fresh(p) /\ ProcInv(p) /\ RunInv(p)
  BY StepKeeps DEF PromiseInv, Inv, ProcInv
<1>1. ASSUME UNCHANGED server PROVE Existing' = Existing
  BY <1>1 DEF server, Existing, Is
<1>2. ASSUME UNCHANGED cmd PROVE plan' = plan
  BY <1>2 DEF Plan
<1>3. ASSUME UNCHANGED done PROVE did' = did
  BY <1>3 DEF Changed
<1>4. ASSUME NEW p \in Procs, NEW c \in Command, Start(p, c)
      PROVE  [Promise!Next]_(Promise!vars)
  <2>1. cmd' = [cmd EXCEPT ![p] = c] /\ done' = [done EXCEPT ![p] = {}] /\ c # None
    BY <1>4, CommandFacts DEF Start
  <2>2. plan' = [plan EXCEPT ![p] = Changes(c)]
    BY <1>0, <2>1 DEF Plan, TypeOK
  <2>3. did' = [did EXCEPT ![p] = {}]
    BY <1>0, <2>1 DEF Changed, TypeOK
  <2>4. \/ Finish(p, "failed")
        \/ /\ pc' = [pc EXCEPT ![p] = IF Changes(c) \cap Asked = {} THEN "waiting" ELSE "prompt"]
           /\ result' = [result EXCEPT ![p] = "none"]
    BY <1>4, ChangesFacts DEF Start, Send
  <2>5. pc[p] = "idle" /\ UNCHANGED <<server, stray>>
    BY <1>4 DEF Start
  <2>6. Promise!Begin(p, Changes(c))
    BY <1>1, <2>2, <2>3, <2>4, <2>5 DEF Promise!Begin, Promise!End, Finish
  <2>7. QED
    BY <2>6 DEF Promise!Next, Plans
<1>5. ASSUME NEW p \in Procs, NEW yes \in BOOLEAN, Answer(p, yes)
      PROVE  [Promise!Next]_(Promise!vars)
  <2>1. \/ pc' = [pc EXCEPT ![p] = "waiting"] /\ UNCHANGED result
        \/ Finish(p, "cancelled")
    BY <1>5 DEF Answer, Send
  <2>2. pc[p] = "prompt" /\ UNCHANGED <<server, stray, cmd, done>>
    BY <1>5 DEF Answer
  <2>3. Promise!Answer(p)
    BY <1>1, <1>2, <1>3, <2>1, <2>2 DEF Promise!Answer, Promise!End, Finish
  <2>4. QED
    BY <2>3 DEF Promise!Next
<1>6. ASSUME NEW p \in Procs, Interrupt(p)
      PROVE  [Promise!Next]_(Promise!vars)
  <2>1. pc[p] = "prompt" /\ Finish(p, "died") /\ UNCHANGED <<server, stray, cmd, done>>
    BY <1>6 DEF Interrupt, run
  <2>2. Promise!Answer(p)
    BY <1>1, <1>2, <1>3, <2>1 DEF Promise!Answer, Promise!End, Finish
  <2>3. QED
    BY <2>2 DEF Promise!Next
<1>7. ASSUME NEW p \in Procs, NEW r \in out[p]
      PROVE  /\ pc[p] = "waiting" /\ cmd[p] \in Command /\ cmd[p] # None /\ r \in Request
             /\ plan[p] = Changes(cmd[p]) /\ did[p] = Changed(p)
             /\ r.op \notin Reads => r \in plan[p] \ did[p]
  <2>1. pc[p] = "waiting"
    BY <1>0 DEF RunInv
  <2>2. cmd[p] \in Command /\ cmd[p] # None /\ (r.op \notin Reads => r \in Changes(cmd[p]))
    BY <1>0, <2>1, SendFacts, CommandFacts
  <2>3. r.op \notin Reads => r \notin Changed(p)
    BY <1>0, <2>1 DEF Fresh, Changed
  <2>4. r \in Request
    BY <1>0 DEF TypeOK
  <2>5. QED
    BY <2>1, <2>2, <2>3, <2>4 DEF Plan
<1>8. ASSUME NEW p \in Procs, NEW r \in out[p], Apply(r), Did(p, r), UNCHANGED <<cmd, stray>>,
             \/ UNCHANGED <<pc, result>>
             \/ Finish(p, "failed")
             \/ /\ pc' = [pc EXCEPT ![p] = "idle"] /\ result' = [result EXCEPT ![p] = "ok"]
                /\ plan[p] \subseteq did'[p]
      PROVE  [Promise!Next]_(Promise!vars)
  <2>1. /\ did' = IF r.op \in Reads THEN did ELSE [did EXCEPT ![p] = @ \cup {r}]
        /\ plan' = plan /\ pc[p] = "waiting"
    BY <1>0, <1>2, <1>7, <1>8, DidSeen
  <2>2. /\ (Existing' \ Existing) \cup (Existing \ Existing') \subseteq Touches[r]
        /\ r.op \in Reads => Existing' = Existing
    BY <1>0, <1>1, <1>7, <1>8, ApplyTouches
  <2>3. CASE r.op \in Reads
    <3>1. did' = did /\ Existing' = Existing
      BY <2>1, <2>2, <2>3
    <3>2. CASE UNCHANGED <<pc, result>>
      BY <1>8, <2>1, <3>1, <3>2 DEF Promise!vars
    <3>3. CASE Finish(p, "failed")
      <4>1. Promise!Stop(p)
        BY <1>8, <2>1, <3>1, <3>3 DEF Promise!Stop, Promise!End, Finish
      <4>2. QED
        BY <4>1 DEF Promise!Next
    <3>4. CASE /\ pc' = [pc EXCEPT ![p] = "idle"] /\ result' = [result EXCEPT ![p] = "ok"]
               /\ plan[p] \subseteq did'[p]
      <4>1. Promise!Stop(p)
        BY <1>8, <2>1, <3>1, <3>4 DEF Promise!Stop, Promise!End
      <4>2. QED
        BY <4>1 DEF Promise!Next
    <3>5. QED
      BY <1>8, <3>2, <3>3, <3>4
  <2>4. CASE r.op \notin Reads
    <3>1. r \in plan[p] \ did[p]
      BY <1>7, <2>4
    <3>2. did' = [did EXCEPT ![p] = @ \cup {r}] /\ did'[p] = did[p] \cup {r}
      BY <2>1, <2>4
    <3>3. \/ UNCHANGED <<pc, result>>
          \/ plan[p] \subseteq did[p] \cup {r} /\ Promise!End(p, "ok")
          \/ Promise!End(p, "failed")
      BY <1>8, <3>2 DEF Promise!End, Finish
    <3>4. Promise!Change(p, r)
      BY <1>8, <2>1, <2>2, <3>1, <3>2, <3>3 DEF Promise!Change, Promise!About
    <3>5. QED
      BY <3>1, <3>4 DEF Promise!Next
  <2>5. QED
    BY <2>3, <2>4
<1>9. ASSUME NEW p \in Procs, NEW r \in out[p], Serve(p, r)
      PROVE  [Promise!Next]_(Promise!vars)
  <2>1. Apply(r) /\ Did(p, r) /\ UNCHANGED <<cmd, stray>>
    BY <1>9 DEF Serve, Resolve
  <2>2. \/ UNCHANGED <<pc, result>>
        \/ pc' = [pc EXCEPT ![p] = "idle"] /\ result' = [result EXCEPT ![p] = "ok"]
    BY <1>0, <1>7, <1>9, ServeSeen DEF Serve
  <2>3. ASSUME result' = [result EXCEPT ![p] = "ok"] PROVE plan[p] \subseteq did'[p]
    <3>1. result'[p] = "ok"
      BY <1>0, <2>3 DEF TypeOK
    <3>2. Changes(cmd'[p]) \subseteq done'[p]
      BY <1>0, <3>1 DEF Inv, ProcInv, DoneOnSuccess
    <3>3. \A t \in Changes(cmd[p]) : t.op \notin Reads
      BY <1>7, ChangesFacts
    <3>4. QED
      BY <1>7, <2>1, <3>2, <3>3 DEF Changed
  <2>4. QED
    BY <1>8, <2>1, <2>2, <2>3
<1>10. ASSUME NEW p \in Procs, NEW r \in out[p], Misreport(p, r)
       PROVE  [Promise!Next]_(Promise!vars)
  <2>1. Apply(r) /\ Did(p, r) /\ UNCHANGED <<cmd, stray>> /\ Finish(p, "failed")
    BY <1>10 DEF Misreport, Reject
  <2>2. QED
    BY <1>8, <2>1
<1>11. ASSUME NEW p \in Procs, NEW r \in out[p], Refuse(p, r)
       PROVE  [Promise!Next]_(Promise!vars)
  <2>1. UNCHANGED <<server, stray, done, cmd>>
    BY <1>11 DEF Refuse, Reject
  <2>2. \/ Finish(p, "failed")
        \/ Finish(p, "warned") /\ cmd[p].noDuplicateError
    BY <1>11 DEF Refuse, Reject
  <2>3. ASSUME cmd[p].noDuplicateError PROVE did[p] = {} /\ plan[p] \cap Excused # {}
    <3>1. cmd[p].type = "promote"
      BY <1>7, <2>3, CommandFacts
    <3>2. done[p] = {}
      BY <1>0, <1>7, <3>1 DEF RunInv, Waiting
    <3>3. QED
      BY <1>7, <3>1, <3>2, ChangesFacts DEF Changed
  <2>4. Promise!Stop(p)
    <3>1. plan' = plan /\ did' = did /\ Existing' = Existing /\ pc[p] = "waiting"
      BY <1>1, <1>2, <1>3, <1>7, <2>1
    <3>2. QED
      BY <2>1, <2>2, <2>3, <3>1 DEF Promise!Stop, Promise!End, Finish
  <2>5. QED
    BY <2>4 DEF Promise!Next
<1>12. ASSUME NEW p \in Procs, NEW r \in out[p], Leave(p, r)
       PROVE  [Promise!Next]_(Promise!vars)
  <2>1. /\ r.op \notin Reads /\ stray' = stray \cup {r}
        /\ \E how \in {"failed", "died"} : Finish(p, how)
        /\ UNCHANGED <<server, cmd, done>>
    BY <1>12 DEF Leave, run
  <2>2. /\ r \in plan[p] \ did[p] /\ plan' = plan /\ did' = did /\ Existing' = Existing
        /\ pc[p] = "waiting"
    BY <1>1, <1>2, <1>3, <1>7, <2>1
  <2>3. Promise!Abandon(p, r)
    BY <2>1, <2>2 DEF Promise!Abandon, Promise!End, Finish
  <2>4. QED
    BY <2>2, <2>3 DEF Promise!Next
<1>13. ASSUME NEW r \in stray, Arrive(r)
       PROVE  [Promise!Next]_(Promise!vars)
  <2>1. stray' = stray \ {r} /\ UNCHANGED <<pc, cmd, done, result>>
    BY <1>13 DEF Arrive, run
  <2>2. r \in Request
    BY <1>0 DEF TypeOK
  <2>3. (Existing' \ Existing) \cup (Existing \ Existing') \subseteq Touches[r]
    BY <1>0, <1>1, <1>13, <2>2, ApplyTouches DEF Arrive
  <2>4. plan' = plan /\ did' = did
    BY <1>2, <1>3, <2>1
  <2>5. Promise!Arrive(r)
    BY <2>1, <2>3, <2>4 DEF Promise!Arrive, Promise!About
  <2>6. QED
    BY <2>5 DEF Promise!Next
<1>14. ASSUME NEW n \in Names, NEW k \in Packages, Release(n, k)
       PROVE  [Promise!Next]_(Promise!vars)
  <2>1. Is(n) /\ Set(n, k) /\ UNCHANGED <<stray, pc, cmd, done, result>>
    BY <1>14 DEF Release, run
  <2>2. k # None
    BY ManagementAssumption
  <2>3. Existing' = Existing
    BY <1>0, <2>1, <2>2 DEF Existing, Is, Set, TypeOK, Rows
  <2>4. plan' = plan /\ did' = did
    BY <1>2, <1>3, <2>1
  <2>5. QED
    BY <2>1, <2>3, <2>4 DEF Promise!vars
<1>15. QED
  BY <1>4, <1>5, <1>6, <1>9, <1>10, <1>11, <1>12, <1>13, <1>14 DEF Next, Settle

(* However the answers come, go missing or come late, each command is one   *)
(* plan, carried out change by change after its "y", and reported as it     *)
(* went; no deployment comes or goes but with a change that is about it.    *)
THEOREM ImplementsPromise == Spec => ImplementsCommandOutcome
<1>1. Init => Owned /\ \A p \in Procs : Fresh(p)
  BY DEF Init, Owned, Fresh
<1>2. Inv /\ Owned /\ (\A p \in Procs : Fresh(p)) /\ [Next]_vars
      => Owned' /\ (\A p \in Procs : Fresh(p))'
  <2> SUFFICES ASSUME Inv, Owned, \A p \in Procs : Fresh(p), [Next]_vars
               PROVE  Owned' /\ \A p \in Procs : Fresh(p)'
    OBVIOUS
  <2>1. CASE Next
    BY <2>1, OwnedStep, FreshStep
  <2>2. CASE UNCHANGED vars
    <3>1. UNCHANGED <<deployments, app, pc, cmd, wave, rows, done, out>>
      BY <2>2 DEF vars, server, run
    <3>2. QED
      BY <3>1 DEF Owned, Is, Fresh
  <2>3. QED
    BY <2>1, <2>2
<1>3. Spec => []PromiseInv
  BY <1>1, <1>2, Invariance, PTL DEF Spec, PromiseInv
<1>4. Init => Promise!Init
  BY DEF Init, Promise!Init, Plan, Changed
<1>5. PromiseInv /\ [Next]_vars => [Promise!Next]_(Promise!vars)
  <2>1. PromiseInv /\ Next => [Promise!Next]_(Promise!vars)
    BY StepPromised
  <2>2. UNCHANGED vars => UNCHANGED Promise!vars
    BY DEF vars, server, run, Promise!vars, Plan, Changed, Existing, Is
  <2>3. QED
    BY <2>1, <2>2
<1>6. QED
  BY <1>3, <1>4, <1>5, PTL DEF Spec, ImplementsCommandOutcome, Promise!Spec

-----------------------------------------------------------------------------
(* What safety there is in CommandsFinish: a command that has begun to send *)
(* has no way back, and no more than three waves.                           *)

\* The run ends, or its next wave starts, or one request less is waited for.
Shrinks(p) ==
    \/ pc'[p] = "idle"
    \/ pc'[p] = "waiting" /\ wave'[p] = wave[p] + 1 /\ wave'[p] \in {2, 3}
    \/ /\ pc'[p] = "waiting" /\ wave'[p] = wave[p]
       /\ \E r \in out[p] : out'[p] = out[p] \ {r}

Stays(p) == pc'[p] = pc[p] /\ wave'[p] = wave[p] /\ out'[p] = out[p]

\* An answer for a command, or the lack of one, brings its end nearer; nothing
\* else delays it.
Nears(p) ==
    pc[p] = "waiting" =>
        IF Settle(p) \/ \E r \in out[p] : Leave(p, r) THEN Shrinks(p) ELSE Stays(p)
CommandsDwindle == [][\A p \in Procs : Nears(p)]_vars

LEMMA ThreeWaves ==
    ASSUME NEW c, NEW i \in Nat, NEW k, Wave(c, i, k) # {} PROVE i \in {1, 2, 3}
BY DEF Wave, DefaultsWave, AppAddWave, ListWave, HistoryWave

LEMMA OwnStepNears ==
    ASSUME Inv, NEW p \in Procs, Settle(p) \/ \E r \in out[p] : Leave(p, r)
    PROVE  Shrinks(p)
<1>1. ASSUME NEW r \in out[p], Serve(p, r) PROVE Shrinks(p)
  <2> DEFINE known == IF r.op = "getDeployments" THEN deployments ELSE rows[p]
  <2>1. /\ wave[p] \in Nat \ {0} /\ wave[p] + 1 \in Nat
        /\ \/ /\ out'[p] = out[p] \ {r}
              /\ pc'[p] = "waiting" /\ wave'[p] = wave[p]
           \/ /\ Wave(cmd[p], wave[p] + 1, known) # {}
              /\ pc'[p] = "waiting" /\ wave'[p] = wave[p] + 1
           \/ pc'[p] = "idle"
    BY <1>1, ServeStep
  <2> HIDE DEF known
  <2>2. Wave(cmd[p], wave[p] + 1, known) # {} => wave[p] + 1 \in {1, 2, 3}
    BY <2>1, ThreeWaves
  <2>3. wave[p] + 1 \in {1, 2, 3} => wave[p] + 1 \in {2, 3}
    BY <2>1
  <2>4. QED
    BY <2>1, <2>2, <2>3 DEF Shrinks
<1>2. ASSUME NEW r \in out[p], Misreport(p, r) \/ Refuse(p, r) \/ Leave(p, r) PROVE Shrinks(p)
  <2>1. pc' = [pc EXCEPT ![p] = "idle"]
    BY <1>2 DEF Misreport, Refuse, Leave, Reject, Finish
  <2>2. QED
    BY <2>1 DEF Inv, TypeOK, Shrinks
<1>3. QED
  BY <1>1, <1>2 DEF Settle

LEMMA OthersLookOn ==
    ASSUME Inv, Next, NEW p \in Procs, pc[p] = "waiting",
           ~(Settle(p) \/ \E r \in out[p] : Leave(p, r))
    PROVE  Stays(p)
<1>1. CASE (\E r \in stray : Arrive(r)) \/ \E n \in Names, k \in Packages : Release(n, k)
  BY <1>1 DEF Arrive, Release, run, Stays
<1>2. ASSUME NEW q \in Procs,
             \/ \E c \in Command : Start(q, c)
             \/ \E yes \in BOOLEAN : Answer(q, yes)
             \/ Interrupt(q)
             \/ Settle(q)
             \/ \E r \in out[q] : Leave(q, r)
      PROVE  Stays(p)
  <2>1. CASE q = p
    BY <1>2, <2>1 DEF Start, Answer, Interrupt
  <2>2. CASE q # p
    <3>1. Same(p)
      BY <1>2, <2>2, OthersSame
    <3>2. QED
      BY <3>1 DEF Same, Stays
  <2>3. QED
    BY <2>1, <2>2
<1>3. QED
  BY <1>1, <1>2 DEF Next

(* However its answers come, each takes a command to its end, to the next   *)
(* of three waves or to one request less, and no other user and nothing on  *)
(* the server sends it back: CommandsFinish asks no more than answers.      *)
THEOREM CommandsEnd == Spec => CommandsDwindle
<1>1. Inv /\ [Next]_vars => [\A p \in Procs : Nears(p)]_vars
  <2> SUFFICES ASSUME Inv, Next, NEW p \in Procs PROVE Nears(p)
    OBVIOUS
  <2>1. CASE Settle(p) \/ \E r \in out[p] : Leave(p, r)
    BY <2>1, OwnStepNears DEF Nears
  <2>2. CASE ~(Settle(p) \/ \E r \in out[p] : Leave(p, r))
    BY <2>2, OthersLookOn DEF Nears
  <2>3. QED
    BY <2>1, <2>2
<1>2. QED
  BY <1>1, Invariance, PTL DEF Spec, CommandsDwindle

=============================================================================
