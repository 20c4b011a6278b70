------------------------------ MODULE CliSession ------------------------------
(***************************************************************************)
(* The cached login of one machine: the session file that every run of the *)
(* CLI reads on start, and that login, logout and the 401 hook of getSdk   *)
(* write.  Several CLI processes run on the machine at once; the file is   *)
(* shared and unlocked, and the server takes its own time.                 *)
(*                                                                         *)
(* cli/script/command-executor.ts: execute, login, logout, whoami,         *)
(* sessionRemove, getSdk and the (de)serialisation of the connection.      *)
(***************************************************************************)
EXTENDS Integers, FiniteSets

CONSTANTS
    Procs,        \* the CLI processes
    AccessKeys,   \* keys made by "access-key add"
    SessionKeys,  \* keys the server makes when a user logs in by browser
    Machines,     \* machine names the server files sessions under
    Here,         \* this machine's os.hostname()
    MachineOf,    \* the machine a session key was made for (createdBy)
    Absent,       \* no session file, or no connection could be read from it
    Torn          \* a session file whose content is not JSON

Keys == AccessKeys \cup SessionKeys

\* What serializeConnectionInfo writes, and what an older CLI wrote.
Connection == [key : Keys, preserve : BOOLEAN]
LegacyConnection == [accessKeyName : Keys]

ASSUME KeyAssumption ==
    /\ AccessKeys \cap SessionKeys = {}
    /\ MachineOf \in [SessionKeys -> Machines]
    /\ Here \in Machines

ASSUME MarkAssumption ==
    /\ Absent # Torn
    /\ {Absent, Torn} \cap (Connection \cup LegacyConnection) = {}

SessionsOf(m) == {k \in SessionKeys : MachineOf[k] = m}

VARIABLES
    file,     \* content of ~/.nativescript-app-sync.config
    writers,  \* processes with an open handle on the file that path names
    pc,       \* what each process is doing
    cmd,      \* the command it runs
    conn,     \* the connection its sdk object was built with
    reply,    \* the answer to its request, "none" while in flight
    target,   \* the machine named by its DELETE /sessions/:machine
    layers,   \* 401 hooks its rejection has yet to pass through
    issued,   \* server: keys handed out so far
    valid,    \* server: keys it accepts
    stray     \* machines of DELETEs still under way whose sender gave up

client == <<pc, cmd, conn, reply, target, layers>>
server == <<issued, valid, stray>>
disk == <<file, writers>>
vars == <<disk, client, server>>

Commands == {"none", "login", "logout", "whoami", "api", "sessionRemove"}
Replies == {"none", "ok", "unauthorized", "notFound", "error"}
Places == {"idle", "prompt", "request", "store", "hook", "cleanup", "reread"}

\* getSdk wraps every method of the SDK, and a public method reaches the wire
\* through two more wrapped ones (del, then makeApiRequest).
HookLayers == 3

TypeOK ==
    /\ file \in {Absent, Torn} \cup Connection \cup LegacyConnection
    /\ writers \in SUBSET Procs
    /\ pc \in [Procs -> Places]
    /\ cmd \in [Procs -> Commands]
    /\ conn \in [Procs -> {Absent} \cup Connection]
    /\ reply \in [Procs -> Replies]
    /\ target \in [Procs -> Machines]
    /\ layers \in [Procs -> 0..HookLayers]
    /\ issued \in SUBSET Keys
    /\ valid \in SUBSET Keys
    /\ stray \in SUBSET Machines

\* deserializeConnectionInfo: a file that cannot be read or parsed is no
\* login; the legacy shape has no preserveAccessKeyOnLogout.
Deserialize(f) ==
    IF f \in {Absent, Torn} THEN Absent
    ELSE IF f \in LegacyConnection
         THEN [key |-> f.accessKeyName, preserve |-> FALSE]
         ELSE f

LoggedIn == Deserialize(file) # Absent

\* A machine that never ran the CLI, or one with an older CLI's file.
Init ==
    /\ \/ file = Absent /\ issued = {}
       \/ \E k \in Keys : file = [accessKeyName |-> k] /\ issued = {k}
    /\ valid \in SUBSET issued
    /\ writers = {}
    /\ pc = [p \in Procs |-> "idle"]
    /\ cmd = [p \in Procs |-> "none"]
    /\ conn = [p \in Procs |-> Absent]
    /\ reply = [p \in Procs |-> "none"]
    /\ target = [p \in Procs |-> Here]
    /\ layers = [p \in Procs |-> 0]
    /\ stray = {}

-----------------------------------------------------------------------------
(* Shared pieces of the client's steps. *)

\* Process p starts command c, its sdk built from connection x, and sits at w.
Begin(p, c, x, w, m) ==
    /\ pc[p] = "idle"
    /\ pc' = [pc EXCEPT ![p] = w]
    /\ cmd' = [cmd EXCEPT ![p] = c]
    /\ conn' = [conn EXCEPT ![p] = x]
    /\ target' = [target EXCEPT ![p] = m]
    /\ UNCHANGED <<disk, reply, layers, server>>

\* The process exits; the next command of this slot is a fresh process.
Exit(p) ==
    /\ pc' = [pc EXCEPT ![p] = "idle"]
    /\ cmd' = [cmd EXCEPT ![p] = "none"]
    /\ conn' = [conn EXCEPT ![p] = Absent]
    /\ reply' = [reply EXCEPT ![p] = "none"]
    /\ target' = [target EXCEPT ![p] = Here]
    /\ layers' = [layers EXCEPT ![p] = 0]

\* unlinkSync of the session file: open handles keep the unlinked inode.
Unlink == file' = Absent /\ writers' = {}

Goto(p, w) ==
    /\ pc' = [pc EXCEPT ![p] = w]
    /\ reply' = [reply EXCEPT ![p] = "none"]
    /\ UNCHANGED <<cmd, conn, target, layers>>

-----------------------------------------------------------------------------
(* Commands.  A command that execute refuses ("You are already logged in", *)
(* "You are not currently logged in") changes nothing and is a stutter.    *)

\* login --accessKey k: the key is not a session, so logout must keep it.
StartLogin(p, k) ==
    /\ ~LoggedIn
    /\ Begin(p, "login", [key |-> k, preserve |-> TRUE], "request", Here)

\* login or register by browser: waits for the user to paste a key.
StartBrowserLogin(p) ==
    /\ ~LoggedIn
    /\ Begin(p, "login", Absent, "prompt", Here)

AnswerPrompt(p, k) ==
    /\ pc[p] = "prompt"
    /\ pc' = [pc EXCEPT ![p] = "request"]
    /\ conn' = [conn EXCEPT ![p] = [key |-> k, preserve |-> FALSE]]
    /\ UNCHANGED <<disk, cmd, reply, target, layers, server>>

AbortPrompt(p) ==
    /\ pc[p] = "prompt"
    /\ Exit(p)
    /\ UNCHANGED <<disk, server>>

StartLogout(p) ==
    /\ LoggedIn
    /\ LET c == Deserialize(file)
       IN  Begin(p, "logout", c, IF c.preserve THEN "cleanup" ELSE "request", Here)

StartWhoami(p) ==
    LoggedIn /\ Begin(p, "whoami", Deserialize(file), "request", Here)

\* Any other command that needs a login and calls the server.
StartApi(p) ==
    LoggedIn /\ Begin(p, "api", Deserialize(file), "request", Here)

\* session remove, confirmed by the user; refused for this very machine.
StartSessionRemove(p, m) ==
    /\ LoggedIn
    /\ m # Here
    /\ Begin(p, "sessionRemove", Deserialize(file), "request", m)

-----------------------------------------------------------------------------
(* The server and the network. *)

InFlight(p) == pc[p] = "request" /\ reply[p] = "none"

Removes(p) == cmd[p] \in {"logout", "sessionRemove"}

Answer(p, r) == reply' = [reply EXCEPT ![p] = r]

ServeUnauthorized(p) ==
    /\ InFlight(p)
    /\ conn[p].key \notin valid
    /\ Answer(p, "unauthorized")
    /\ UNCHANGED <<disk, pc, cmd, conn, target, layers, server>>

ServeAnswer(p) ==
    /\ InFlight(p)
    /\ conn[p].key \in valid
    /\ ~Removes(p)
    /\ Answer(p, "ok")
    /\ UNCHANGED <<disk, pc, cmd, conn, target, layers, server>>

\* DELETE /sessions/:machine ends every session of that machine.  The answer
\* may be lost on the way back.
ServeRemoveSession(p) ==
    /\ InFlight(p)
    /\ conn[p].key \in valid
    /\ Removes(p)
    /\ valid' = valid \ SessionsOf(target[p])
    /\ \E r \in {IF SessionsOf(target[p]) \cap valid = {} THEN "notFound" ELSE "ok",
                 "error"} : Answer(p, r)
    /\ UNCHANGED <<disk, pc, cmd, conn, target, layers, issued, stray>>

\* A DELETE its sender gave up on is still carried out if its key was live.
Leave(p) ==
    stray' = IF InFlight(p) /\ Removes(p) /\ conn[p].key \in valid
             THEN stray \cup {target[p]} ELSE stray

\* A gateway or the connection fails: the client sees 504 or the gateway's
\* status, the request may still be on its way to the server.
ServeFailure(p) ==
    /\ InFlight(p)
    /\ Answer(p, "error")
    /\ Leave(p)
    /\ UNCHANGED <<disk, pc, cmd, conn, target, layers, issued, valid>>

ServeStray(m) ==
    /\ m \in stray
    /\ stray' = stray \ {m}
    /\ valid' = valid \ SessionsOf(m)
    /\ UNCHANGED <<disk, client, issued>>

\* The server makes a key for some user of it, once.
Issue(k) ==
    /\ k \notin issued
    /\ issued' = issued \cup {k}
    /\ valid' = valid \cup {k}
    /\ UNCHANGED <<disk, client, stray>>

\* A key expires, or is removed elsewhere.
Revoke(k) ==
    /\ k \in valid
    /\ valid' = valid \ {k}
    /\ UNCHANGED <<disk, client, issued, stray>>

-----------------------------------------------------------------------------
(* The client, once the answer is there. *)

Answered(p, r) == pc[p] = "request" /\ reply[p] = r

\* Slip: the boolean isAuthenticated() resolves to is not looked at.
OpenConfigUnchecked(p) ==
    /\ Answered(p, "ok") \/ Answered(p, "unauthorized")
    /\ cmd[p] = "login"
    /\ file' = Torn
    /\ writers' = writers \cup {p}
    /\ Goto(p, "store")
    /\ UNCHANGED server

\* A login's key was accepted: writeFileSync opens and truncates the file ...
OpenConfig(p) ==
    /\ Answered(p, "ok")
    /\ cmd[p] = "login"
    /\ file' = Torn
    /\ writers' = writers \cup {p}
    /\ Goto(p, "store")
    /\ UNCHANGED server

\* ... and writes at offset 0 of the inode it opened.  That inode may have
\* been unlinked since, or hold what another login wrote, whose longer text
\* leaves a tail behind.
WriteConfig(p) ==
    /\ pc[p] = "store"
    /\ IF p \in writers
       THEN file' \in {conn[p]} \cup (IF file = Torn THEN {} ELSE {Torn})
       ELSE file' = file
    /\ writers' = writers \ {p}
    /\ Exit(p)
    /\ UNCHANGED server

\* isAuthenticated() resolves to false on a 401: "Invalid access key."
LoginRejected(p) ==
    /\ Answered(p, "unauthorized")
    /\ cmd[p] = "login"
    /\ Exit(p)
    /\ UNCHANGED <<disk, server>>

\* Slip: the hook deletes the cached connection on any failure.
ReceiveAnyFailure(p) ==
    /\ Answered(p, "unauthorized") \/ Answered(p, "error")
    /\ cmd[p] # "login"
    /\ pc' = [pc EXCEPT ![p] = "hook"]
    /\ reply' = [reply EXCEPT ![p] = "none"]
    /\ layers' = [layers EXCEPT ![p] = HookLayers]
    /\ UNCHANGED <<disk, cmd, conn, target, server>>

\* A 401 rejects every other call, and the rejection meets the hooks.  A call
\* of isAuthenticated(true) or release passes one, any other call three.
ReceiveUnauthorized(p) ==
    /\ Answered(p, "unauthorized")
    /\ cmd[p] # "login"
    /\ pc' = [pc EXCEPT ![p] = "hook"]
    /\ reply' = [reply EXCEPT ![p] = "none"]
    /\ \E n \in {1, HookLayers} :
         /\ cmd[p] # "api" => n = HookLayers
         /\ layers' = [layers EXCEPT ![p] = n]
    /\ UNCHANGED <<disk, cmd, conn, target, server>>

\* Slip: every hook counts, the last one does not end the command.
HookDeleteForever(p) ==
    /\ pc[p] = "hook"
    /\ Unlink
    /\ layers' = [layers EXCEPT ![p] = @ - 1]
    /\ UNCHANGED <<pc, cmd, conn, reply, target, server>>

\* Slip: the hook does not rethrow, so the command goes on as if answered.
HookDeleteSwallowed(p) ==
    /\ pc[p] = "hook"
    /\ Unlink
    /\ pc' = [pc EXCEPT ![p] =
                 CASE cmd[p] = "logout" -> "cleanup"
                   [] cmd[p] = "whoami" -> "reread"
                   [] OTHER -> "idle"]
    /\ layers' = [layers EXCEPT ![p] = 0]
    /\ UNCHANGED <<cmd, conn, reply, target, server>>

\* Each hook deletes the session file, whatever it holds by now, and rethrows.
\* logout swallows the rejection and goes on to delete the file once more.
HookDelete(p) ==
    /\ pc[p] = "hook"
    /\ Unlink
    /\ IF layers[p] > 1
       THEN /\ layers' = [layers EXCEPT ![p] = @ - 1]
            /\ UNCHANGED <<pc, cmd, conn, reply, target>>
       ELSE IF cmd[p] = "logout"
       THEN /\ pc' = [pc EXCEPT ![p] = "cleanup"]
            /\ layers' = [layers EXCEPT ![p] = 0]
            /\ UNCHANGED <<cmd, conn, reply, target>>
       ELSE Exit(p)
    /\ UNCHANGED server

\* Slip: logout swallows every failure of the DELETE.
LogoutReplyAny(p) ==
    /\ cmd[p] = "logout"
    /\ Answered(p, "ok") \/ Answered(p, "notFound") \/ Answered(p, "error")
    /\ Goto(p, "cleanup")
    /\ UNCHANGED <<disk, server>>

\* logout goes on to its cleanup on success and on 404.
LogoutReply(p) ==
    /\ cmd[p] = "logout"
    /\ Answered(p, "ok") \/ Answered(p, "notFound")
    /\ Goto(p, "cleanup")
    /\ UNCHANGED <<disk, server>>

Cleanup(p) ==
    /\ pc[p] = "cleanup"
    /\ Unlink
    /\ Exit(p)
    /\ UNCHANGED server

WhoamiReply(p) ==
    /\ cmd[p] = "whoami"
    /\ Answered(p, "ok")
    /\ Goto(p, "reread")
    /\ UNCHANGED <<disk, server>>

\* whoami reads the file once more for its proxy; a TypeError ends it when
\* the connection has gone.
Reread(p) ==
    /\ pc[p] = "reread"
    /\ Exit(p)
    /\ UNCHANGED <<disk, server>>

\* Slip: a 404 is neither an answer nor a failure.
FinishCommandNo404(p) ==
    /\ \/ Answered(p, "error")
       \/ cmd[p] \in {"api", "sessionRemove"} /\ Answered(p, "ok")
    /\ Exit(p)
    /\ UNCHANGED <<disk, server>>

\* The command is over: an api call or session remove with its answer, any
\* command with a failure that is not a 401.
FinishCommand(p) ==
    /\ \/ Answered(p, "error")
       \/ cmd[p] \in {"api", "sessionRemove"} /\ Answered(p, "ok")
       \/ cmd[p] = "sessionRemove" /\ Answered(p, "notFound")
    /\ Exit(p)
    /\ UNCHANGED <<disk, server>>

\* Ctrl-C or a crash at any point.
Crash(p) ==
    /\ pc[p] # "idle"
    /\ Leave(p)
    /\ writers' = writers \ {p}
    /\ Exit(p)
    /\ UNCHANGED <<file, issued, valid>>

-----------------------------------------------------------------------------
Start(p) ==
    \/ \E k \in Keys : StartLogin(p, k)
    \/ StartBrowserLogin(p)
    \/ StartLogout(p)
    \/ StartWhoami(p)
    \/ StartApi(p)
    \/ \E m \in Machines : StartSessionRemove(p, m)

Prompt(p) == AbortPrompt(p) \/ \E k \in Keys : AnswerPrompt(p, k)

Serve(p) ==
    \/ ServeUnauthorized(p)
    \/ ServeAnswer(p)
    \/ ServeRemoveSession(p)
    \/ ServeFailure(p)

Continue(p) ==
    \/ OpenConfig(p)
    \/ WriteConfig(p)
    \/ LoginRejected(p)
    \/ ReceiveUnauthorized(p)
    \/ HookDelete(p)
    \/ LogoutReply(p)
    \/ Cleanup(p)
    \/ WhoamiReply(p)
    \/ Reread(p)
    \/ FinishCommand(p)

World ==
    \/ \E k \in Keys : Issue(k) \/ Revoke(k)
    \/ \E m \in Machines : ServeStray(m)

Next ==
    \/ \E p \in Procs : Start(p) \/ Prompt(p) \/ Serve(p) \/ Continue(p) \/ Crash(p)
    \/ World

Spec == Init /\ [][Next]_vars

\* A process runs on unless it crashes; a request is answered, or its
\* connection fails, in the end.  Nothing makes the user answer the prompt.
LiveSpec ==
    Spec /\ \A p \in Procs : WF_vars(Continue(p)) /\ WF_vars(Serve(p))

-----------------------------------------------------------------------------
(* Properties of any number of processes. *)

\* A connection in the file, or on its way into it, names a key the server
\* handed out: login stores only a key the server accepted.
CachedKeyWasIssued ==
    /\ LoggedIn => Deserialize(file).key \in issued
    /\ \A p \in Procs : pc[p] = "store" => conn[p].key \in issued

\* The hook of getSdk runs, hence deletes a file, only for a key the server no
\* longer accepts, however late the answer is handled.
HookOnlyForDeadKey ==
    \A p \in Procs : pc[p] = "hook" => conn[p].key \notin valid

\* logout deletes the file of a session of this machine only when that session
\* is over, whether the DELETE, a lost one before it or a 401 ended it.
LogoutEndsItsSession ==
    \A p \in Procs :
        pc[p] = "cleanup" /\ ~conn[p].preserve /\ conn[p].key \in SessionsOf(Here)
            => conn[p].key \notin valid

\* What getSdk's hook and logout delete while the server still accepts it is
\* another login than the one the process began with, made since, or what its
\* own logout gives up: a key that is to be preserved, or one that is no
\* session of this machine and that DELETE /sessions/:machine cannot end.
LiveLoginKept ==
    [][\A p \in Procs :
         /\ HookDelete(p) \/ Cleanup(p)
         /\ Deserialize(file) = conn[p]
         /\ conn[p].key \in valid
         => /\ cmd[p] = "logout"
            /\ conn[p].preserve \/ conn[p].key \notin SessionsOf(Here)]_vars

\* Every command that is past its prompt ends, whatever the server answers.
CommandsFinish ==
    \A p \in Procs : pc[p] \notin {"idle", "prompt"} ~> pc[p] = "idle"

-----------------------------------------------------------------------------
(* Properties of a machine on which one command runs at a time.             *)

\* getSdk: "If the server returns `Unauthorized`, it must be due to an invalid
\* (or expired) access key ... delete the cached connection": a hook deletes no
\* login whose key the server still accepts.  Two processes refute it.
RejectedKeyOnly ==
    [][\A p \in Procs : HookDelete(p) /\ LoggedIn => Deserialize(file).key \notin valid]_vars

\* The connection whoami reads again after its answer is there.
WhoamiFindsItsLogin ==
    \A p \in Procs : pc[p] = "reread" => Deserialize(file) = conn[p]

\* The file, through deserializeConnectionInfo, is the one login of the machine.
OneLogin == INSTANCE MachineLogin WITH login <- Deserialize(file), None <- Absent
ImplementsOneLogin == OneLogin!Spec

-----------------------------------------------------------------------------
(* What the code says and two processes at once refute.                     *)

\* execute: "Must not be logged in", else "You are already logged in from this
\* machine.": a login never overwrites another one.
LoginNeverReplaces ==
    [][\A p \in Procs : OpenConfig(p) => ~LoggedIn]_vars

=============================================================================
