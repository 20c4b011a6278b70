------------------------------- MODULE SdkCalls --------------------------------
(***************************************************************************)
(* What the callers of the two SDKs are told.  A call of the management    *)
(* SDK is a promise over one request; a release first reads, and for a     *)
(* directory zips, its package.  A call of the acquisition SDK takes a     *)
(* callback.  Calls overlap, share the metadata objects their callers hand *)
(* in, and live in one process, which an exception in the handler of an    *)
(* answer ends.                                                            *)
(*                                                                         *)
(* sdk/script/management-sdk.ts: isAuthenticated, makeApiRequest and the   *)
(* calls on top of it, release, patchRelease, packageFileFromPath;         *)
(* sdk/script/acquisition-sdk.ts.                                          *)
(***************************************************************************)
EXTENDS Naturals, Sequences

CONSTANTS
    Calls,    \* the calls made, each once
    Metadata, \* updateMetadata objects
    Versions, \* target versions
    Slashes,  \* how many slashes an app name may have
    None      \* no request, no version

Auth == [kind : {"auth"}, throwIfUnauthorized : BOOLEAN]
Api == [kind : {"api"}, expectResponseBody : BOOLEAN, app : Slashes]
Release == [kind : {"release"}, meta : Metadata, version : Versions, directory : BOOLEAN]
Patch == [kind : {"patch"}, meta : Metadata]
\* Where the callback stands among the arguments: nowhere, last, or in its own
\* place; and the status of the deployed package, if there is one.
Report == [kind : {"query", "download"}, callback : {"no", "own"}]
            \cup [kind : {"deploy"}, callback : {"no", "last", "own"},
                  status : {"no package", "known", "unknown"}]
Request == Auth \cup Api \cup Release \cup Patch \cup Report

ASSUME SdkAssumption == Slashes \subseteq Nat /\ None \notin Versions \cup Request

Content == [version : Versions \cup {None}, label : BOOLEAN]

VARIABLES
    object,  \* what is in each metadata object
    req,     \* the request of each call
    at,      \* where it is
    meant,   \* its metadata when it was called
    payload, \* its metadata as sent
    mixed,   \* calls whose object another call has written meanwhile
    zips,    \* calls whose temporary zip is on disk
    served,  \* calls the server has carried out
    told,    \* what each caller has been told
    crashed  \* an exception has ended the process

vars == <<object, req, at, meant, payload, mixed, zips, served, told, crashed>>

Kind(c) == IF req[c] = None THEN "none" ELSE req[c].kind

TypeOK ==
    /\ object \in [Metadata -> Content]
    /\ req \in [Calls -> Request \cup {None}]
    /\ at \in [Calls -> {"new", "file", "zipping", "sent", "cut", "over"}]
    /\ \A c \in Calls : at[c] \in {"file", "zipping"} => req[c] \in Release
    /\ meant \in [Calls -> Content]
    /\ payload \in [Calls -> Content]
    /\ mixed \subseteq Calls
    /\ zips \subseteq {c \in Calls : Kind(c) = "release" /\ req[c].directory}
    /\ served \subseteq Calls
    /\ told \in [Calls -> Seq({"value", "no", "error"})]
    /\ crashed \in BOOLEAN

Blank == [version |-> None, label |-> FALSE]

Init ==
    /\ object = [m \in Metadata |-> Blank]
    /\ req = [c \in Calls |-> None]
    /\ at = [c \in Calls |-> "new"]
    /\ meant = [c \in Calls |-> Blank]
    /\ payload = [c \in Calls |-> Blank]
    /\ mixed = {}
    /\ zips = {}
    /\ served = {}
    /\ told = [c \in Calls |-> << >>]
    /\ crashed = FALSE

-----------------------------------------------------------------------------
IsAt(c, w) == at[c] = w /\ ~crashed
Goto(c, w) == at' = [at EXCEPT ![c] = w] /\ UNCHANGED crashed
Hear(c, what) == told' = [told EXCEPT ![c] = Append(@, what)]
Silent == UNCHANGED told

\* An exception nobody catches: the process is gone, its calls unanswered.
Crash == crashed' = TRUE /\ UNCHANGED <<at, told>>

Make(c, r) == IsAt(c, "new") /\ req' = [req EXCEPT ![c] = r]

\* A caller's object gets what the call writes; releases that wait see it.
Write(c, m, content) ==
    /\ object' = [object EXCEPT ![m] = content]
    /\ meant' = [meant EXCEPT ![c] = content]
    /\ mixed' = mixed \cup {d \in Calls : at[d] \in {"file", "zipping"} /\ req[d].meta = m}

Unwritten == UNCHANGED <<object, meant, mixed>>

\* Whatever needs no file and no object is sent at once.
Ask(c, r) ==
    /\ r.kind \in {"auth", "api", "query", "download"}
    /\ Make(c, r)
    /\ Goto(c, "sent")
    /\ Silent
    /\ Unwritten
    /\ UNCHANGED <<payload, zips, served>>

PatchRelease(c, r) ==
    /\ r.kind = "patch"
    /\ Make(c, r)
    /\ Write(c, r.meta, [object[r.meta] EXCEPT !.label = TRUE])
    /\ payload' = [payload EXCEPT ![c] = object'[r.meta]]
    /\ Goto(c, "sent")
    /\ Silent
    /\ UNCHANGED <<zips, served>>

\* Slip: the callback is looked for before the status.
ReportDeployQuietly(c, r) ==
    /\ r.kind = "deploy"
    /\ Make(c, r)
    /\ Goto(c, IF r.status = "unknown" THEN "over" ELSE "sent")
    /\ Silent
    /\ Unwritten
    /\ UNCHANGED <<payload, zips, served>>

\* A package with a status that is none is not reported, and that is told to a
\* callback in its own place only.
ReportDeploy(c, r) ==
    /\ r.kind = "deploy"
    /\ Make(c, r)
    /\ Goto(c, IF r.status = "unknown" THEN "over" ELSE "sent")
    /\ IF r.status = "unknown" /\ r.callback = "own" THEN Hear(c, "error") ELSE Silent
    /\ Unwritten
    /\ UNCHANGED <<payload, zips, served>>

\* A path that is not there throws inside the promise, which rejects it.
StartRelease(c, r) ==
    /\ r.kind = "release"
    /\ Make(c, r)
    /\ Write(c, r.meta, [object[r.meta] EXCEPT !.version = r.version])
    /\ \/ Goto(c, "file") /\ Silent
       \/ Goto(c, "over") /\ Hear(c, "error")
    /\ UNCHANGED <<payload, zips, served>>

\* Slip: the version was written into a copy, and the caller's object is sent.
UploadUnversioned(c) ==
    /\ payload' = [payload EXCEPT ![c] = [object[req[c].meta] EXCEPT !.version = None]]
    /\ Goto(c, "sent")
    /\ Silent
    /\ Unwritten
    /\ UNCHANGED <<req, zips, served>>

\* The object is written out only here, when the file is known.
Upload(c) ==
    /\ payload' = [payload EXCEPT ![c] = object[req[c].meta]]
    /\ Goto(c, "sent")
    /\ Silent
    /\ Unwritten
    /\ UNCHANGED <<req, zips, served>>

\* Slip: the caller's own file is taken for a temporary one, to be deleted with
\* the answer.
OpenFileAsTemporary(c) ==
    /\ IsAt(c, "file")
    /\ ~req[c].directory
    /\ payload' = [payload EXCEPT ![c] = object[req[c].meta]]
    /\ Goto(c, "sent")
    /\ zips' = zips \cup {c}
    /\ Silent
    /\ Unwritten
    /\ UNCHANGED <<req, served>>

OpenFile(c) == IsAt(c, "file") /\ ~req[c].directory /\ Upload(c)

ListDirectory(c) ==
    /\ IsAt(c, "file")
    /\ req[c].directory
    /\ Goto(c, "zipping")
    /\ zips' = zips \cup {c}
    /\ Silent
    /\ Unwritten
    /\ UNCHANGED <<req, payload, served>>

ZipDirectory(c) == IsAt(c, "zipping") /\ Upload(c)

\* A directory that cannot be listed, a zip that cannot be written: release has
\* no handler for that rejection, and its own promise stays pending.
PackageFails(c) ==
    /\ IsAt(c, "file") \/ IsAt(c, "zipping")
    /\ req[c].directory
    /\ Goto(c, "over")
    /\ Silent
    /\ Unwritten
    /\ UNCHANGED <<req, payload, zips, served>>

\* yazl reports a file that has gone to nobody.
FileVanishes(c) ==
    /\ IsAt(c, "zipping")
    /\ Crash
    /\ Unwritten
    /\ UNCHANGED <<req, payload, zips, served>>

-----------------------------------------------------------------------------
\* appNameParam: only the first slash is replaced.
AppNameParam(n) == IF n = 0 THEN 0 ELSE n - 1

Waits(c) == at[c] \in {"sent", "cut"} /\ ~crashed

\* The connection breaks; what was sent may still arrive.
Break(c) ==
    /\ IsAt(c, "sent")
    /\ Goto(c, "cut")
    /\ Silent
    /\ Unwritten
    /\ UNCHANGED <<req, payload, zips, served>>

\* The server, behind a gateway that decodes the slashes left in a name.
Serve(c) ==
    /\ Waits(c)
    /\ Kind(c) = "api" => AppNameParam(req[c].app) = 0
    /\ c \notin served
    /\ served' = served \cup {c}
    /\ Silent
    /\ Unwritten
    /\ UNCHANGED <<req, at, payload, zips, crashed>>

\* 200 or another success for what was served, 401 or another refusal for what
\* was not, 0 when the connection broke; with a body that can be read or not.
Answers(c) ==
    [status : CASE at[c] = "cut" -> {0}
                [] c \in served -> {200, 201}
                [] OTHER -> {401, 500},
     body : BOOLEAN]

Success(a) == a.status \in {200, 201}

Answered(c) == Waits(c) /\ Unwritten /\ UNCHANGED <<req, payload, served>>

\* getCodePushError reads a property of the error, and a success has none.
AuthAnswered(c, a) ==
    /\ Kind(c) = "auth"
    /\ Answered(c)
    /\ CASE a.status = 200 -> Hear(c, "value") /\ Goto(c, "over")
         [] a.status = 201 /\ req[c].throwIfUnauthorized -> Crash
         [] a.status \in {201, 401} /\ ~req[c].throwIfUnauthorized ->
               Hear(c, "no") /\ Goto(c, "over")
         [] OTHER -> Hear(c, "error") /\ Goto(c, "over")
    /\ UNCHANGED zips

\* A success, and its body where the call expects one.
Succeeded(c, a) ==
    Success(a) /\ (Kind(c) = "api" /\ req[c].expectResponseBody => a.body)

\* Slip: no answer is taken for an empty one.
ApiAnsweredLeniently(c, a) ==
    /\ Kind(c) \in {"api", "patch"}
    /\ Answered(c)
    /\ Goto(c, "over")
    /\ Hear(c, IF a.status = 0 \/ Succeeded(c, a) THEN "value" ELSE "error")
    /\ UNCHANGED zips

\* Slip: no handler for an answer that never came.
ApiAnsweredIfAtAll(c, a) ==
    /\ Kind(c) \in {"api", "patch"}
    /\ a.status # 0
    /\ Answered(c)
    /\ Goto(c, "over")
    /\ Hear(c, IF Succeeded(c, a) THEN "value" ELSE "error")
    /\ UNCHANGED zips

ApiAnswered(c, a) ==
    /\ Kind(c) \in {"api", "patch"}
    /\ Answered(c)
    /\ Goto(c, "over")
    /\ Hear(c, IF Succeeded(c, a) THEN "value" ELSE "error")
    /\ UNCHANGED zips

\* The zip goes first, and an exception there goes to nobody.
ReleaseAnswered(c, a) ==
    /\ Kind(c) = "release"
    /\ Answered(c)
    /\ \/ /\ Goto(c, "over")
          /\ Hear(c, IF Success(a) /\ a.body THEN "value" ELSE "error")
          /\ zips' = zips \ {c}
       \/ c \in zips /\ Crash /\ UNCHANGED zips

\* The callback is called whether it is there or not.
QueryAnswered(c, a) ==
    /\ Kind(c) = "query"
    /\ Answered(c)
    /\ IF req[c].callback = "own"
       THEN Goto(c, "over") /\ Hear(c, IF a.status = 200 /\ a.body THEN "value" ELSE "error")
       ELSE Crash
    /\ UNCHANGED zips

\* A callback is looked for in the last place here.
ReportAnswered(c, a) ==
    /\ Kind(c) \in {"deploy", "download"}
    /\ Answered(c)
    /\ Goto(c, "over")
    /\ IF req[c].callback = "no" THEN Silent
       ELSE Hear(c, IF a.status = 200 THEN "value" ELSE "error")
    /\ UNCHANGED zips

Settle(c, a) ==
    \/ AuthAnswered(c, a)
    \/ ApiAnswered(c, a)
    \/ ReleaseAnswered(c, a)
    \/ QueryAnswered(c, a)
    \/ ReportAnswered(c, a)

Call(c, r) == Ask(c, r) \/ PatchRelease(c, r) \/ ReportDeploy(c, r) \/ StartRelease(c, r)

Step(c) ==
    \/ OpenFile(c)
    \/ ListDirectory(c)
    \/ ZipDirectory(c)
    \/ PackageFails(c)
    \/ FileVanishes(c)
    \/ \E a \in Answers(c) : Settle(c, a)

Next == \E c \in Calls : (\E r \in Request : Call(c, r)) \/ Step(c) \/ Break(c) \/ Serve(c)

\* The process runs on, and a request is answered or its connection fails.
Spec == Init /\ [][Next]_vars /\ \A c \in Calls : WF_vars(Step(c))

-----------------------------------------------------------------------------
\* Nobody is told twice, success only of what the server has done, that the
\* access key is not valid only if that was the question, and of a release only
\* when its temporary zip is gone.
ToldTheTruth ==
    \A c \in Calls :
        /\ Len(told[c]) <= 1
        /\ told[c] = <<"value">> => c \in served
        /\ c \in zips => told[c] = << >>
        /\ told[c] = <<"no">> => Kind(c) = "auth" /\ ~req[c].throwIfUnauthorized

Unheard(c) == Kind(c) \in {"deploy", "download"} /\ req[c].callback = "no"

\* What release writes out has at least a version.
Unsent(c) == payload[c] = Blank

\* A call that is over has told its caller, unless it was given no callback or,
\* with a status unknown, one that is not in its own place, or it is a release
\* that was not sent because its directory could not be read or zipped: the last
\* two are never told.
OverMeansTold ==
    \A c \in Calls :
        at[c] = "over" /\ told[c] = << >> =>
            \/ Kind(c) = "release" /\ req[c].directory /\ Unsent(c)
            \/ Kind(c) = "deploy" /\ req[c].status = "unknown" /\ req[c].callback # "own"
            \/ Unheard(c)

\* A release is sent with the metadata it was called with, unless another call
\* with the same object came before its file was ready.
MetadataAsAsked ==
    \A c \in Calls :
        Kind(c) \in {"release", "patch"} /\ Waits(c) /\ c \notin mixed =>
            payload[c] = meant[c]

\* Whoever can hear of a call that was sent does, whatever the server does,
\* and when the connection breaks, unless an exception takes everybody along.
SentIsTold == \A c \in Calls : at[c] = "sent" ~> told[c] # << >> \/ Unheard(c) \/ crashed

=============================================================================
