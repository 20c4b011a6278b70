--------------------------- MODULE CliSessionProofs ---------------------------
(***************************************************************************)
(* Proofs about CliSession, for any processes, keys and machines.          *)
(***************************************************************************)
EXTENDS CliSession, TLAPS

Busy(p) == pc[p] \notin {"idle", "prompt"}

\* A key the server handed out stays dead once it is dead, so what a process
\* learned of it cannot go stale.
Dead(k) == k \in issued /\ k \notin valid

\* Only logout's DELETE and its cleanup speak of this machine's session.
SessionOver(p) ==
    conn[p].key \in SessionsOf(Here) => Dead(conn[p].key)

ClientInv(p) ==
    /\ Busy(p) => conn[p] \in Connection
    /\ Busy(p) /\ cmd[p] # "login" => conn[p].key \in issued
    /\ pc[p] = "prompt" => cmd[p] = "login"
    /\ pc[p] # "request" => reply[p] = "none"
    /\ reply[p] = "ok" => conn[p].key \in issued
    /\ pc[p] = "store" => conn[p].key \in issued
    /\ pc[p] = "hook" => cmd[p] # "login" /\ Dead(conn[p].key)
    /\ reply[p] = "unauthorized" /\ cmd[p] # "login" => Dead(conn[p].key)
    /\ cmd[p] = "logout" => target[p] = Here
    /\ cmd[p] = "logout" /\ reply[p] \in {"ok", "notFound"} => SessionOver(p)
    /\ pc[p] = "cleanup" => cmd[p] = "logout" /\ (conn[p].preserve \/ SessionOver(p))

Inv ==
    /\ TypeOK
    /\ valid \subseteq issued
    /\ LoggedIn => Deserialize(file).key \in issued
    /\ \A p \in Procs : ClientInv(p)

-----------------------------------------------------------------------------
(* deserializeConnectionInfo yields a connection or nothing. *)
LEMMA DeserializeType ==
    ASSUME NEW f \in {Absent, Torn} \cup Connection \cup LegacyConnection
    PROVE  Deserialize(f) \in {Absent} \cup Connection
  BY DEF Deserialize, Connection, LegacyConnection

(* No connection is a legacy one: the fields differ. *)
LEMMA ShapesDiffer == Connection \cap LegacyConnection = {}
<1> SUFFICES ASSUME NEW c \in Connection, c \in LegacyConnection PROVE FALSE
  OBVIOUS
<1>1. DOMAIN c = {"key", "preserve"}
  BY DEF Connection
<1>2. DOMAIN c = {"accessKeyName"}
  BY DEF LegacyConnection
<1>3. QED
  BY <1>1, <1>2

(* What the file says is a login is the connection a command starts with. *)
LEMMA LoginIsConnection ==
    ASSUME TypeOK, LoggedIn
    PROVE  Deserialize(file) \in Connection
  BY DeserializeType DEF TypeOK, LoggedIn

(* Every variable keeps its type: the first of the facts an induction needs. *)
LEMMA TypeStep == TypeOK /\ [Next]_vars => TypeOK'
<1> SUFFICES ASSUME TypeOK, Next PROVE TypeOK'
  BY DEF TypeOK, vars, disk, client, server
<1> USE KeyAssumption DEF TypeOK, disk, client, server, Places, Commands, Replies, HookLayers
<1>1. ASSUME NEW p \in Procs, NEW k \in Keys, StartLogin(p, k) PROVE TypeOK'
  BY <1>1 DEF StartLogin, Begin, Connection
<1>2. ASSUME NEW p \in Procs, StartBrowserLogin(p) PROVE TypeOK'
  BY <1>2 DEF StartBrowserLogin, Begin
<1>3. ASSUME NEW p \in Procs, StartLogout(p) PROVE TypeOK'
  BY <1>3, LoginIsConnection DEF StartLogout, Begin, Connection
<1>4. ASSUME NEW p \in Procs, StartWhoami(p) PROVE TypeOK'
  BY <1>4, LoginIsConnection DEF StartWhoami, Begin
<1>5. ASSUME NEW p \in Procs, StartApi(p) PROVE TypeOK'
  BY <1>5, LoginIsConnection DEF StartApi, Begin
<1>6. ASSUME NEW p \in Procs, NEW m \in Machines, StartSessionRemove(p, m) PROVE TypeOK'
  BY <1>6, LoginIsConnection DEF StartSessionRemove, Begin
<1>7. ASSUME NEW p \in Procs, NEW k \in Keys, AnswerPrompt(p, k) PROVE TypeOK'
  BY <1>7 DEF AnswerPrompt, Connection
<1>8. ASSUME NEW p \in Procs, AbortPrompt(p) PROVE TypeOK'
  BY <1>8 DEF AbortPrompt, Exit
<1>9. ASSUME NEW p \in Procs, ServeUnauthorized(p) PROVE TypeOK'
  BY <1>9 DEF ServeUnauthorized, InFlight, Answer
<1>10. ASSUME NEW p \in Procs, ServeAnswer(p) PROVE TypeOK'
  BY <1>10 DEF ServeAnswer, InFlight, Answer
<1>11. ASSUME NEW p \in Procs, ServeRemoveSession(p) PROVE TypeOK'
  BY <1>11 DEF ServeRemoveSession, InFlight, Answer, SessionsOf
<1>12. ASSUME NEW p \in Procs, ServeFailure(p) PROVE TypeOK'
  BY <1>12 DEF ServeFailure, InFlight, Answer, Leave, Removes
<1>13. ASSUME NEW p \in Procs, OpenConfig(p) PROVE TypeOK'
  BY <1>13 DEF OpenConfig, Answered, Goto
<1>14. ASSUME NEW p \in Procs, WriteConfig(p) PROVE TypeOK'
  BY <1>14 DEF WriteConfig, Exit
<1>15. ASSUME NEW p \in Procs, LoginRejected(p) PROVE TypeOK'
  BY <1>15 DEF LoginRejected, Answered, Exit
<1>16. ASSUME NEW p \in Procs, ReceiveUnauthorized(p) PROVE TypeOK'
  BY <1>16 DEF ReceiveUnauthorized, Answered
<1>17. ASSUME NEW p \in Procs, HookDelete(p) PROVE TypeOK'
  BY <1>17 DEF HookDelete, Unlink, Exit
<1>18. ASSUME NEW p \in Procs, LogoutReply(p) PROVE TypeOK'
  BY <1>18 DEF LogoutReply, Answered, Goto
<1>19. ASSUME NEW p \in Procs, Cleanup(p) PROVE TypeOK'
  BY <1>19 DEF Cleanup, Unlink, Exit
<1>20. ASSUME NEW p \in Procs, WhoamiReply(p) PROVE TypeOK'
  BY <1>20 DEF WhoamiReply, Answered, Goto
<1>21. ASSUME NEW p \in Procs, Reread(p) PROVE TypeOK'
  BY <1>21 DEF Reread, Exit
<1>22. ASSUME NEW p \in Procs, FinishCommand(p) PROVE TypeOK'
  BY <1>22 DEF FinishCommand, Answered, Exit
<1>23. ASSUME NEW p \in Procs, Crash(p) PROVE TypeOK'
  BY <1>23 DEF Crash, Leave, InFlight, Removes, Exit
<1>24. ASSUME NEW k \in Keys, Issue(k) PROVE TypeOK'
  BY <1>24 DEF Issue
<1>25. ASSUME NEW k \in Keys, Revoke(k) PROVE TypeOK'
  BY <1>25 DEF Revoke
<1>26. ASSUME NEW m \in Machines, ServeStray(m) PROVE TypeOK'
  BY <1>26 DEF ServeStray
<1>27. QED
  BY <1>1, <1>2, <1>3, <1>4, <1>5, <1>6, <1>7, <1>8, <1>9, <1>10, <1>11, <1>12, <1>13, <1>14, <1>15, <1>16, <1>17, <1>18, <1>19, <1>20, <1>21, <1>22, <1>23, <1>24, <1>25, <1>26
     DEF Next, Start, Prompt, Serve, Continue, World

-----------------------------------------------------------------------------
(* What every process knows of its key stays true, whoever moves. *)
LEMMA ClientStep ==
    ASSUME Inv, Next
    PROVE  \A q \in Procs : ClientInv(q)'
<1> USE KeyAssumption DEF TypeOK, Inv, ClientInv, Busy, Dead, SessionOver,
        disk, client, server, Keys, Connection
<1>1. ASSUME NEW p \in Procs, NEW k \in Keys, StartLogin(p, k) PROVE \A q \in Procs : ClientInv(q)'
  BY <1>1 DEF StartLogin, Begin
<1>2. ASSUME NEW p \in Procs, StartBrowserLogin(p) PROVE \A q \in Procs : ClientInv(q)'
  BY <1>2 DEF StartBrowserLogin, Begin
<1>3. ASSUME NEW p \in Procs, StartLogout(p) PROVE \A q \in Procs : ClientInv(q)'
  BY <1>3, LoginIsConnection DEF StartLogout, Begin, LoggedIn
<1>4. ASSUME NEW p \in Procs, StartWhoami(p) PROVE \A q \in Procs : ClientInv(q)'
  BY <1>4, LoginIsConnection DEF StartWhoami, Begin, LoggedIn
<1>5. ASSUME NEW p \in Procs, StartApi(p) PROVE \A q \in Procs : ClientInv(q)'
  BY <1>5, LoginIsConnection DEF StartApi, Begin, LoggedIn
<1>6. ASSUME NEW p \in Procs, NEW m \in Machines, StartSessionRemove(p, m) PROVE \A q \in Procs : ClientInv(q)'
  BY <1>6, LoginIsConnection DEF StartSessionRemove, Begin, LoggedIn
<1>7. ASSUME NEW p \in Procs, NEW k \in Keys, AnswerPrompt(p, k) PROVE \A q \in Procs : ClientInv(q)'
  BY <1>7 DEF AnswerPrompt
<1>8. ASSUME NEW p \in Procs, AbortPrompt(p) PROVE \A q \in Procs : ClientInv(q)'
  BY <1>8 DEF AbortPrompt, Exit
<1>9. ASSUME NEW p \in Procs, ServeUnauthorized(p) PROVE \A q \in Procs : ClientInv(q)'
  BY <1>9 DEF ServeUnauthorized, InFlight, Answer
<1>10. ASSUME NEW p \in Procs, ServeAnswer(p) PROVE \A q \in Procs : ClientInv(q)'
  BY <1>10 DEF ServeAnswer, InFlight, Answer, Removes
<1>11. ASSUME NEW p \in Procs, ServeRemoveSession(p) PROVE \A q \in Procs : ClientInv(q)'
  BY <1>11 DEF ServeRemoveSession, InFlight, Answer, Removes, SessionsOf
<1>12. ASSUME NEW p \in Procs, ServeFailure(p) PROVE \A q \in Procs : ClientInv(q)'
  BY <1>12 DEF ServeFailure, InFlight, Answer
<1>13. ASSUME NEW p \in Procs, OpenConfig(p) PROVE \A q \in Procs : ClientInv(q)'
  BY <1>13 DEF OpenConfig, Answered, Goto
<1>14. ASSUME NEW p \in Procs, WriteConfig(p) PROVE \A q \in Procs : ClientInv(q)'
  BY <1>14 DEF WriteConfig, Exit
<1>15. ASSUME NEW p \in Procs, LoginRejected(p) PROVE \A q \in Procs : ClientInv(q)'
  BY <1>15 DEF LoginRejected, Answered, Exit
<1>16. ASSUME NEW p \in Procs, ReceiveUnauthorized(p) PROVE \A q \in Procs : ClientInv(q)'
  BY <1>16 DEF ReceiveUnauthorized, Answered
<1>17. ASSUME NEW p \in Procs, HookDelete(p) PROVE \A q \in Procs : ClientInv(q)'
  BY <1>17 DEF HookDelete, Unlink, Exit
<1>18. ASSUME NEW p \in Procs, LogoutReply(p) PROVE \A q \in Procs : ClientInv(q)'
  BY <1>18 DEF LogoutReply, Answered, Goto
<1>19. ASSUME NEW p \in Procs, Cleanup(p) PROVE \A q \in Procs : ClientInv(q)'
  BY <1>19 DEF Cleanup, Unlink, Exit
<1>20. ASSUME NEW p \in Procs, WhoamiReply(p) PROVE \A q \in Procs : ClientInv(q)'
  BY <1>20 DEF WhoamiReply, Answered, Goto
<1>21. ASSUME NEW p \in Procs, Reread(p) PROVE \A q \in Procs : ClientInv(q)'
  BY <1>21 DEF Reread, Exit
<1>22. ASSUME NEW p \in Procs, FinishCommand(p) PROVE \A q \in Procs : ClientInv(q)'
  BY <1>22 DEF FinishCommand, Answered, Exit
<1>23. ASSUME NEW p \in Procs, Crash(p) PROVE \A q \in Procs : ClientInv(q)'
  BY <1>23 DEF Crash, Exit
<1>24. ASSUME NEW k \in Keys, Issue(k) PROVE \A q \in Procs : ClientInv(q)'
  BY <1>24 DEF Issue
<1>25. ASSUME NEW k \in Keys, Revoke(k) PROVE \A q \in Procs : ClientInv(q)'
  BY <1>25 DEF Revoke
<1>26. ASSUME NEW m \in Machines, ServeStray(m) PROVE \A q \in Procs : ClientInv(q)'
  BY <1>26 DEF ServeStray
<1>27. QED
  BY <1>1, <1>2, <1>3, <1>4, <1>5, <1>6, <1>7, <1>8, <1>9, <1>10, <1>11, <1>12, <1>13, <1>14, <1>15, <1>16, <1>17, <1>18, <1>19, <1>20, <1>21, <1>22, <1>23, <1>24, <1>25, <1>26
     DEF Next, Start, Prompt, Serve, Continue, World

(* The file never holds a key the server did not hand out, and the server's *)
(* keys are always among those it handed out.                               *)
LEMMA FileStep ==
    ASSUME Inv, Next
    PROVE  (valid \subseteq issued /\ (LoggedIn => Deserialize(file).key \in issued))'
<1> USE DEF Inv, disk, client, server, Unlink, Next, Start, Prompt, Serve,
        Continue, World, StartLogin, StartBrowserLogin, StartLogout,
        StartWhoami, StartApi, StartSessionRemove, Begin, AnswerPrompt,
        AbortPrompt, ServeUnauthorized, ServeAnswer, ServeRemoveSession,
        ServeFailure, OpenConfig, WriteConfig, LoginRejected,
        ReceiveUnauthorized, HookDelete, LogoutReply, Cleanup, WhoamiReply,
        Reread, FinishCommand, Crash, Issue, Revoke, ServeStray
<1>1. CASE UNCHANGED file
  <2>1. (valid \subseteq issued)' /\ issued \subseteq issued'
    OBVIOUS
  <2>2. QED
    BY <1>1, <2>1 DEF LoggedIn, Deserialize
<1>2. CASE ~UNCHANGED file
  <2>1. UNCHANGED server
    BY <1>2
  <2>2. file' \in {Absent, Torn} \/ \E p \in Procs : pc[p] = "store" /\ file' = conn[p]
    BY <1>2
  <2>3. CASE file' \in {Absent, Torn}
    BY <2>1, <2>3 DEF LoggedIn, Deserialize
  <2>4. ASSUME NEW p \in Procs, pc[p] = "store", file' = conn[p]
        PROVE  (LoggedIn => Deserialize(file).key \in issued)'
    <3>1. conn[p] \in Connection /\ conn[p].key \in issued
      BY <2>4 DEF ClientInv, Busy
    <3>2. Deserialize(file)' = conn[p]
      BY <2>4, <3>1, MarkAssumption, ShapesDiffer DEF Deserialize
    <3>3. QED
      BY <2>1, <3>1, <3>2
  <2>5. QED
    BY <2>1, <2>2, <2>3, <2>4
<1>3. QED
  BY <1>1, <1>2

-----------------------------------------------------------------------------
LEMMA InitInv == Init => Inv
<1> SUFFICES ASSUME Init PROVE Inv
  OBVIOUS
<1> USE DEF Init
<1>1. TypeOK
  BY KeyAssumption
     DEF TypeOK, LegacyConnection, Places, Commands, Replies, HookLayers
<1>2. LoggedIn => Deserialize(file).key \in issued
  BY ShapesDiffer DEF LoggedIn, Deserialize, LegacyConnection
<1>3. \A p \in Procs : ClientInv(p)
  BY DEF ClientInv, Busy
<1>4. QED
  BY <1>1, <1>2, <1>3 DEF Inv

LEMMA InvStep == Inv /\ [Next]_vars => Inv'
<1> SUFFICES ASSUME Inv, [Next]_vars PROVE Inv'
  OBVIOUS
<1>1. CASE Next
  <2>1. TypeOK'
    BY <1>1, TypeStep DEF Inv
  <2>2. QED
    BY <1>1, <2>1, ClientStep, FileStep DEF Inv
<1>2. CASE UNCHANGED vars
  BY <1>2 DEF vars, disk, client, server, Inv, TypeOK, ClientInv, Busy, Dead,
              SessionOver, SessionsOf, LoggedIn, Deserialize
<1>3. QED
  BY <1>1, <1>2

(* Whatever runs at once: everything a step relies on holds in every state. *)
THEOREM Invariance == Spec => []Inv
<1>1. QED
  BY InitInv, InvStep, PTL DEF Spec

(* Every variable keeps its type in every behaviour of the machine. *)
THEOREM TypeCorrect == Spec => []TypeOK
<1>1. Inv => TypeOK
  BY DEF Inv
<1>2. QED
  BY <1>1, Invariance, PTL

(* The session file names only keys the server handed out, and so does a    *)
(* connection that login is about to store.                                 *)
THEOREM CachedKeyIssued == Spec => []CachedKeyWasIssued
<1>1. Inv => CachedKeyWasIssued
  BY DEF Inv, ClientInv, CachedKeyWasIssued
<1>2. QED
  BY <1>1, Invariance, PTL

(* The 401 hook of getSdk runs only for a key that is dead, and a dead key  *)
(* never comes back while the hook is at work.                              *)
THEOREM HookForDeadKey == Spec => []HookOnlyForDeadKey
<1>1. Inv => HookOnlyForDeadKey
  BY DEF Inv, ClientInv, Dead, HookOnlyForDeadKey
<1>2. QED
  BY <1>1, Invariance, PTL

(* logout never comes to delete the session file while the server still     *)
(* accepts the session it is ending, however many processes race.           *)
THEOREM LogoutEndsSession == Spec => []LogoutEndsItsSession
<1>1. Inv => LogoutEndsItsSession
  BY DEF Inv, ClientInv, SessionOver, Dead, LogoutEndsItsSession
<1>2. QED
  BY <1>1, Invariance, PTL

(* A process that deletes the login it began with while the server accepts  *)
(* it is a logout of a key it cannot end, however many processes race.      *)
THEOREM LiveLoginsKept == Spec => LiveLoginKept
<1>1. ASSUME Inv, NEW p \in Procs, HookDelete(p) \/ Cleanup(p),
             conn[p].key \in valid
      PROVE  /\ cmd[p] = "logout"
             /\ conn[p].preserve \/ conn[p].key \notin SessionsOf(Here)
  <2>1. pc[p] # "hook"
    BY <1>1 DEF Inv, ClientInv, Dead
  <2>2. pc[p] = "cleanup"
    BY <1>1, <2>1 DEF HookDelete, Cleanup
  <2>3. QED
    BY <1>1, <2>2 DEF Inv, ClientInv, SessionOver, Dead
<1>2. Inv => [\A p \in Procs :
                /\ HookDelete(p) \/ Cleanup(p)
                /\ Deserialize(file) = conn[p]
                /\ conn[p].key \in valid
                => /\ cmd[p] = "logout"
                   /\ conn[p].preserve \/ conn[p].key \notin SessionsOf(Here)]_vars
  BY <1>1
<1>3. QED
  BY <1>2, Invariance, PTL DEF LiveLoginKept

-----------------------------------------------------------------------------
(* One command at a time: the machine its messages describe.               *)

Solo == \E p \in Procs : Procs = {p}

Current == Deserialize(file)

\* The one process knows what the file holds: what it read at its start, or
\* what it has since made of it.
SoloClient(p) ==
    /\ pc[p] = "idle" => cmd[p] = "none"
    /\ cmd[p] = "login" => ~LoggedIn /\ pc[p] \in {"prompt", "request", "store"}
    /\ pc[p] = "store" => cmd[p] = "login"
    /\ pc[p] \in {"request", "reread"} /\ cmd[p] # "login" => Current = conn[p]
    /\ pc[p] \in {"hook", "cleanup"} => Current \in {Absent, conn[p]}
    /\ p \in writers => pc[p] = "store" /\ file = Torn

SoloInv == Inv /\ \A p \in Procs : SoloClient(p)

LEMMA SoloInit == Init => SoloInv
  BY InitInv DEF Init, SoloInv, SoloClient

LEMMA SoloStep ==
    ASSUME Solo, SoloInv, Next
    PROVE  \A q \in Procs : SoloClient(q)'
<1> USE DEF SoloInv, Inv, TypeOK, SoloClient, Solo, Current, LoggedIn,
        disk, client, server
<1>1. ASSUME NEW p \in Procs, NEW k \in Keys, StartLogin(p, k)
      PROVE  \A q \in Procs : SoloClient(q)'
  BY <1>1 DEF StartLogin, Begin
<1>2. ASSUME NEW p \in Procs, StartBrowserLogin(p)
      PROVE  \A q \in Procs : SoloClient(q)'
  BY <1>2 DEF StartBrowserLogin, Begin
<1>3. ASSUME NEW p \in Procs, StartLogout(p)
      PROVE  \A q \in Procs : SoloClient(q)'
  BY <1>3 DEF StartLogout, Begin
<1>4. ASSUME NEW p \in Procs, StartWhoami(p)
      PROVE  \A q \in Procs : SoloClient(q)'
  BY <1>4 DEF StartWhoami, Begin
<1>5. ASSUME NEW p \in Procs, StartApi(p)
      PROVE  \A q \in Procs : SoloClient(q)'
  BY <1>5 DEF StartApi, Begin
<1>6. ASSUME NEW p \in Procs, NEW m \in Machines, StartSessionRemove(p, m)
      PROVE  \A q \in Procs : SoloClient(q)'
  BY <1>6 DEF StartSessionRemove, Begin
<1>7. ASSUME NEW p \in Procs, NEW k \in Keys, AnswerPrompt(p, k)
      PROVE  \A q \in Procs : SoloClient(q)'
  BY <1>7 DEF ClientInv, AnswerPrompt
<1>8. ASSUME NEW p \in Procs, AbortPrompt(p)
      PROVE  \A q \in Procs : SoloClient(q)'
  BY <1>8 DEF AbortPrompt, Exit
<1>9. ASSUME NEW p \in Procs, ServeUnauthorized(p)
      PROVE  \A q \in Procs : SoloClient(q)'
  BY <1>9 DEF ServeUnauthorized, InFlight, Answer
<1>10. ASSUME NEW p \in Procs, ServeAnswer(p)
      PROVE  \A q \in Procs : SoloClient(q)'
  BY <1>10 DEF ServeAnswer, InFlight, Answer
<1>11. ASSUME NEW p \in Procs, ServeRemoveSession(p)
      PROVE  \A q \in Procs : SoloClient(q)'
  BY <1>11 DEF ServeRemoveSession, InFlight, Answer, SessionsOf
<1>12. ASSUME NEW p \in Procs, ServeFailure(p)
      PROVE  \A q \in Procs : SoloClient(q)'
  BY <1>12 DEF ServeFailure, InFlight, Answer, Leave, Removes
<1>13. ASSUME NEW p \in Procs, OpenConfig(p)
      PROVE  \A q \in Procs : SoloClient(q)'
  BY <1>13 DEF Deserialize, OpenConfig, Answered, Goto
<1>14. ASSUME NEW p \in Procs, WriteConfig(p)
      PROVE  \A q \in Procs : SoloClient(q)'
  BY <1>14 DEF WriteConfig, Exit
<1>15. ASSUME NEW p \in Procs, LoginRejected(p)
      PROVE  \A q \in Procs : SoloClient(q)'
  BY <1>15 DEF LoginRejected, Answered, Exit
<1>16. ASSUME NEW p \in Procs, ReceiveUnauthorized(p)
      PROVE  \A q \in Procs : SoloClient(q)'
  BY <1>16 DEF ReceiveUnauthorized, Answered
<1>17. ASSUME NEW p \in Procs, HookDelete(p)
      PROVE  \A q \in Procs : SoloClient(q)'
  BY <1>17 DEF Deserialize, HookDelete, Unlink, Exit
<1>18. ASSUME NEW p \in Procs, LogoutReply(p)
      PROVE  \A q \in Procs : SoloClient(q)'
  BY <1>18 DEF LogoutReply, Answered, Goto
<1>19. ASSUME NEW p \in Procs, Cleanup(p)
      PROVE  \A q \in Procs : SoloClient(q)'
  BY <1>19 DEF Deserialize, Cleanup, Unlink, Exit
<1>20. ASSUME NEW p \in Procs, WhoamiReply(p)
      PROVE  \A q \in Procs : SoloClient(q)'
  BY <1>20 DEF WhoamiReply, Answered, Goto
<1>21. ASSUME NEW p \in Procs, Reread(p)
      PROVE  \A q \in Procs : SoloClient(q)'
  BY <1>21 DEF Reread, Exit
<1>22. ASSUME NEW p \in Procs, FinishCommand(p)
      PROVE  \A q \in Procs : SoloClient(q)'
  BY <1>22 DEF FinishCommand, Answered, Exit
<1>23. ASSUME NEW p \in Procs, Crash(p)
      PROVE  \A q \in Procs : SoloClient(q)'
  BY <1>23 DEF Crash, Leave, InFlight, Removes, Exit
<1>24. ASSUME NEW k \in Keys, Issue(k)
      PROVE  \A q \in Procs : SoloClient(q)'
  BY <1>24 DEF Issue
<1>25. ASSUME NEW k \in Keys, Revoke(k)
      PROVE  \A q \in Procs : SoloClient(q)'
  BY <1>25 DEF Revoke
<1>26. ASSUME NEW m \in Machines, ServeStray(m)
      PROVE  \A q \in Procs : SoloClient(q)'
  BY <1>26 DEF ServeStray
<1>27. QED
  BY <1>1, <1>2, <1>3, <1>4, <1>5, <1>6, <1>7, <1>8, <1>9, <1>10, <1>11, <1>12, <1>13, <1>14, <1>15, <1>16, <1>17, <1>18, <1>19, <1>20, <1>21, <1>22, <1>23, <1>24, <1>25, <1>26
     DEF Next, Start, Prompt, Serve, Continue, World

(* What the abstract machine may do in one step of the concrete one.  Only  *)
(* the steps that touch the file or the server's keys are more than a       *)
(* stutter.                                                                 *)
LEMMA SoloRefines ==
    ASSUME Solo, SoloInv, Next
    PROVE  [OneLogin!Next]_(OneLogin!vars)
<1> USE DEF SoloInv, Inv, TypeOK, OneLogin!Next, OneLogin!vars, OneLogin!LogIn,
        OneLogin!LogOut, OneLogin!Server, OneLogin!Droppable,
        OneLogin!IsSessionHere, OneLogin!Keys, Keys, SessionsOf
<1>1. CASE UNCHANGED file
  <2>1. UNCHANGED Deserialize(file)
    BY <1>1 DEF Deserialize
  <2>2. /\ issued' \in SUBSET Keys
        /\ issued \subseteq issued'
        /\ valid' \subseteq valid \cup (issued' \ issued)
    BY DEF Next, Start, Prompt, Serve, Continue, World, StartLogin,
           StartBrowserLogin, StartLogout, StartWhoami, StartApi,
           StartSessionRemove, Begin, AnswerPrompt, AbortPrompt,
           ServeUnauthorized, ServeAnswer, ServeRemoveSession, ServeFailure,
           OpenConfig, WriteConfig, LoginRejected, ReceiveUnauthorized,
           HookDelete, LogoutReply, Cleanup, WhoamiReply, Reread,
           FinishCommand, Crash, Issue, Revoke, ServeStray, server
  <2>3. QED
    BY <2>1, <2>2
<1>2. ASSUME NEW p \in Procs, OpenConfig(p) PROVE [OneLogin!Next]_(OneLogin!vars)
  BY <1>2 DEF OpenConfig, SoloClient, LoggedIn, Deserialize, server
<1>3. ASSUME NEW p \in Procs, WriteConfig(p) PROVE [OneLogin!Next]_(OneLogin!vars)
  <2>1. conn[p] \in Connection /\ conn[p].key \in issued /\ ~LoggedIn
    BY <1>3 DEF WriteConfig, ClientInv, Busy, SoloClient
  <2>2. CASE p \in writers
    <3>1. file' = conn[p]
      BY <1>3, <2>2 DEF WriteConfig, SoloClient
    <3>2. Deserialize(file)' = conn[p]
      BY <2>1, <3>1, MarkAssumption, ShapesDiffer DEF Deserialize
    <3>3. conn[p] \in [key : issued, preserve : BOOLEAN]
      BY <2>1 DEF Connection
    <3>4. QED
      BY <1>3, <2>1, <3>2, <3>3 DEF WriteConfig, LoggedIn, server
  <2>3. CASE p \notin writers
    BY <1>3, <2>3 DEF WriteConfig, Deserialize, server
  <2>4. QED
    BY <2>2, <2>3
<1>4. ASSUME NEW p \in Procs, HookDelete(p) PROVE [OneLogin!Next]_(OneLogin!vars)
  <2>1. Deserialize(file)' = Absent /\ UNCHANGED server
    BY <1>4 DEF HookDelete, Unlink, Deserialize
  <2>2. Deserialize(file) # Absent => Deserialize(file).key \notin valid
    BY <1>4 DEF HookDelete, SoloClient, Current, ClientInv, Dead
  <2>3. QED
    BY <2>1, <2>2 DEF server
<1>5. ASSUME NEW p \in Procs, Cleanup(p) PROVE [OneLogin!Next]_(OneLogin!vars)
  <2>1. Deserialize(file)' = Absent /\ UNCHANGED server
    BY <1>5 DEF Cleanup, Unlink, Deserialize
  <2>2. Deserialize(file) # Absent => OneLogin!Droppable
    BY <1>5 DEF Cleanup, SoloClient, Current, ClientInv, SessionOver, Dead
  <2>3. QED
    BY <2>1, <2>2 DEF server
<1>6. QED
  BY <1>1, <1>2, <1>3, <1>4, <1>5
     DEF Next, Start, Prompt, Serve, Continue, World, StartLogin,
         StartBrowserLogin, StartLogout, StartWhoami, StartApi,
         StartSessionRemove, Begin, AnswerPrompt, AbortPrompt,
         ServeUnauthorized, ServeAnswer, ServeRemoveSession, ServeFailure,
         LoginRejected, ReceiveUnauthorized, LogoutReply, WhoamiReply, Reread,
         FinishCommand, Crash, Issue, Revoke, ServeStray, disk

LEMMA SoloInitRefines == Init => OneLogin!Init
<1> SUFFICES ASSUME Init PROVE OneLogin!Init
  OBVIOUS
<1>1. issued \in SUBSET Keys /\ valid \in SUBSET issued
  BY DEF Init
<1>2. CASE file = Absent
  BY <1>1, <1>2 DEF Deserialize, OneLogin!Init, OneLogin!Keys, Keys
<1>3. ASSUME NEW k \in Keys, file = [accessKeyName |-> k], issued = {k}
      PROVE  OneLogin!Init
  <2>1. file \in LegacyConnection
    BY <1>3 DEF LegacyConnection
  <2>2. Deserialize(file) = [key |-> k, preserve |-> FALSE]
    BY <1>3, <2>1, MarkAssumption DEF Deserialize
  <2>3. QED
    BY <1>1, <1>3, <2>2 DEF OneLogin!Init, OneLogin!Keys, Keys
<1>4. QED
  BY <1>2, <1>3 DEF Init

LEMMA SoloInvStep ==
    ASSUME Solo PROVE SoloInv /\ [Next]_vars => SoloInv'
<1> SUFFICES ASSUME SoloInv, [Next]_vars PROVE SoloInv'
  OBVIOUS
<1>1. Inv'
  BY InvStep DEF SoloInv
<1>2. CASE Next
  BY <1>1, <1>2, SoloStep DEF SoloInv
<1>3. CASE UNCHANGED vars
  BY <1>1, <1>3 DEF vars, disk, client, server, SoloInv, SoloClient, Current,
                    LoggedIn, Deserialize
<1>4. QED
  BY <1>2, <1>3

(* With one command at a time the session file, through                     *)
(* deserializeConnectionInfo, is the one login of MachineLogin: made from   *)
(* nothing, and dropped only when no live session is left behind.           *)
THEOREM SoloImplements ==
    ASSUME Solo PROVE Spec => ImplementsOneLogin
<1>1. SoloInv /\ [Next]_vars => [OneLogin!Next]_(OneLogin!vars)
  <2> SUFFICES ASSUME SoloInv, [Next]_vars
               PROVE  [OneLogin!Next]_(OneLogin!vars)
    OBVIOUS
  <2>1. CASE Next
    BY <2>1, SoloRefines
  <2>2. CASE UNCHANGED vars
    BY <2>2 DEF vars, disk, server, OneLogin!vars, Deserialize
  <2>3. QED
    BY <2>1, <2>2
<1>2. QED
  BY <1>1, SoloInit, SoloInvStep, SoloInitRefines, PTL
     DEF Spec, ImplementsOneLogin, OneLogin!Spec

(* With one command at a time, a 401 removes only a login whose key the     *)
(* server has given up.                                                     *)
THEOREM SoloRejected ==
    ASSUME Solo PROVE Spec => RejectedKeyOnly
<1>1. SoloInv /\ [Next]_vars =>
        [\A p \in Procs : HookDelete(p) /\ LoggedIn => Deserialize(file).key \notin valid]_vars
  BY DEF SoloInv, Inv, ClientInv, Dead, SoloClient, HookDelete, Current, LoggedIn
<1>2. QED
  BY <1>1, SoloInit, SoloInvStep, PTL DEF Spec, RejectedKeyOnly

(* With one command at a time whoami finds the connection it started with.  *)
THEOREM SoloWhoami ==
    ASSUME Solo PROVE Spec => []WhoamiFindsItsLogin
<1>1. SoloInv => WhoamiFindsItsLogin
  BY DEF SoloInv, Inv, ClientInv, SoloClient, Current, WhoamiFindsItsLogin
<1>2. QED
  BY <1>1, SoloInit, SoloInvStep, PTL DEF Spec

-----------------------------------------------------------------------------
(* What safety there is in CommandsFinish: a command has no way back.       *)

Working(p) == pc[p] \notin {"idle", "prompt"}

\* The steps a command at this place can still take, at most.
StepsLeft(p) ==
    CASE pc[p] \in {"idle", "prompt"} -> 0
      [] pc[p] = "request" -> IF reply[p] = "none" THEN 7 ELSE 6
      [] pc[p] = "hook" -> 2 + layers[p]
      [] OTHER -> 1

\* A step for a command brings its end nearer; nothing else delays it.
Nears(p) ==
    Working(p) =>
        IF Serve(p) \/ Continue(p) \/ Crash(p)
        THEN StepsLeft(p)' < StepsLeft(p)
        ELSE StepsLeft(p)' = StepsLeft(p)
CommandsDwindle == [][\A p \in Procs : Nears(p)]_vars

LEMMA StepsAreFew ==
    ASSUME TypeOK, NEW p \in Procs, Working(p) PROVE StepsLeft(p) \in 1..7
BY DEF TypeOK, Places, Replies, HookLayers, Working, StepsLeft

LEMMA OwnStepNears ==
    ASSUME TypeOK, NEW p \in Procs, Working(p), Serve(p) \/ Continue(p) \/ Crash(p)
    PROVE  StepsLeft(p)' < StepsLeft(p)
<1> USE DEF TypeOK, StepsLeft
<1>1. CASE Serve(p)
  <2>1. pc[p] = "request" /\ reply[p] = "none" /\ pc' = pc
        /\ reply'[p] \in Replies \ {"none"}
    BY <1>1 DEF Serve, ServeUnauthorized, ServeAnswer, ServeRemoveSession, ServeFailure,
                InFlight, Answer, Replies
  <2>2. QED
    BY <2>1
<1>2. CASE Exit(p)
  <2>1. StepsLeft(p)' = 0
    BY <1>2 DEF Exit
  <2>2. QED
    BY <2>1, StepsAreFew
<1>3. CASE OpenConfig(p) \/ LogoutReply(p) \/ WhoamiReply(p)
  BY <1>3 DEF OpenConfig, LogoutReply, WhoamiReply, Answered, Goto
<1>4. CASE ReceiveUnauthorized(p)
  <2>1. pc[p] = "request" /\ reply[p] # "none" /\ pc'[p] = "hook"
        /\ layers'[p] \in {1, 3}
    BY <1>4 DEF ReceiveUnauthorized, Answered, HookLayers
  <2>2. QED
    BY <2>1
<1>5. CASE HookDelete(p) /\ ~Exit(p)
  <2>1. pc[p] = "hook" /\ layers[p] \in 0..3
    BY <1>5 DEF HookDelete, HookLayers
  <2>2. CASE layers[p] > 1
    BY <1>5, <2>1, <2>2 DEF HookDelete
  <2>3. CASE ~(layers[p] > 1)
    BY <1>5, <2>1, <2>3 DEF HookDelete
  <2>4. QED
    BY <2>2, <2>3
<1>6. CASE (Continue(p) \/ Crash(p)) /\ ~Exit(p)
  BY <1>3, <1>4, <1>5, <1>6
     DEF Continue, WriteConfig, LoginRejected, Cleanup, Reread, FinishCommand, Crash
<1>7. QED
  BY <1>1, <1>2, <1>6

LEMMA OthersLookOn ==
    ASSUME TypeOK, Next, NEW p \in Procs, Working(p),
           ~(Serve(p) \/ Continue(p) \/ Crash(p))
    PROVE  pc'[p] = pc[p] /\ reply'[p] = reply[p] /\ layers'[p] = layers[p]
<1> USE DEF TypeOK, client
<1>1. CASE World
  BY <1>1 DEF World, Issue, Revoke, ServeStray
<1>2. ASSUME NEW q \in Procs, Start(q) \/ Prompt(q) \/ Serve(q) \/ Continue(q) \/ Crash(q)
      PROVE  pc'[p] = pc[p] /\ reply'[p] = reply[p] /\ layers'[p] = layers[p]
  <2>1. CASE Start(q)
    <3>1. \E c, x, w, m : Begin(q, c, x, w, m)
      BY <2>1 DEF Start, StartLogin, StartBrowserLogin, StartLogout, StartWhoami,
                  StartApi, StartSessionRemove
    <3>2. QED
      BY <3>1 DEF Begin, Working
  <2>2. CASE Prompt(q)
    BY <2>2 DEF Prompt, AbortPrompt, AnswerPrompt, Exit, Working
  <2>3. CASE q # p /\ Serve(q)
    BY <2>3 DEF Serve, ServeUnauthorized, ServeAnswer, ServeRemoveSession, ServeFailure, Answer
  <2>4. CASE q # p /\ Continue(q)
    BY <2>4 DEF Continue, OpenConfig, WriteConfig, LoginRejected, ReceiveUnauthorized,
                HookDelete, LogoutReply, Cleanup, WhoamiReply, Reread, FinishCommand,
                Goto, Exit
  <2>5. CASE q # p /\ Crash(q)
    BY <2>5 DEF Crash, Exit
  <2>6. QED
    BY <1>2, <2>1, <2>2, <2>3, <2>4, <2>5
<1>3. QED
  BY <1>1, <1>2 DEF Next

(* A command past its prompt is over after seven steps at most, one fewer   *)
(* after each of its own or the server's for it, and nothing else on the    *)
(* machine sends it back: CommandsFinish asks no more than that they happen.*)
THEOREM CommandsEnd == Spec => CommandsDwindle
<1>1. TypeOK /\ [Next]_vars => [\A p \in Procs : Nears(p)]_vars
  <2> SUFFICES ASSUME TypeOK, Next, NEW p \in Procs PROVE Nears(p)
    OBVIOUS
  <2>1. CASE Serve(p) \/ Continue(p) \/ Crash(p)
    BY <2>1, OwnStepNears DEF Nears
  <2>2. CASE ~(Serve(p) \/ Continue(p) \/ Crash(p)) /\ Working(p)
    <3>1. StepsLeft(p)' = StepsLeft(p)
      BY <2>2, OthersLookOn DEF StepsLeft
    <3>2. QED
      BY <2>2, <3>1 DEF Nears
  <2>3. QED
    BY <2>1, <2>2 DEF Nears
<1>2. QED
  BY <1>1, TypeCorrect, PTL DEF Spec, CommandsDwindle

=============================================================================
