------------------------------- MODULE Release --------------------------------
(***************************************************************************)
(* The release pipeline: the signing hook, then the core hook, run by      *)
(* several CLI processes over one package on disk.  The package and the    *)
(* .appsyncrelease file inside it are shared, unlocked, and rewritten by   *)
(* builds; the zip of a run is its own and sits in the working directory   *)
(* until the run removes it.                                               *)
(*                                                                         *)
(* cli/script/command-executor.ts: release, releaseErrorHandler;           *)
(* cli/script/release-hooks: signing.ts, core-release.ts.                  *)
(***************************************************************************)
CONSTANTS
    Procs,       \* the CLI processes
    Contents,    \* what a build can leave in the package
    SigningKeys, \* private keys a command may name
    NoKey,       \* a command without privateKeyPath
    None         \* no package, no signature, no zip, nothing released

\* A signature names the content it was made for; one cut short is no JWT.
Torn == [key |-> NoKey, of |-> None]
Signature == [key : SigningKeys, of : Contents]
SignatureFile == {None, Torn} \cup Signature

ASSUME ReleaseAssumption ==
    /\ NoKey \notin SigningKeys
    /\ None \notin Contents \cup Signature

Command == [key : SigningKeys \cup {NoKey}, noDuplicateError : BOOLEAN]
Package == [of : Contents, sig : SignatureFile]

VARIABLES
    isFile,   \* the package is a single file, not a directory; it stays what it is
    tree,     \* content of the package on disk, None when it is not there
    sig,      \* its .appsyncrelease
    writers,  \* processes with an open handle on the file sig stands for
    staging,  \* tmp/AppSync, the copy a single file is signed in
    pc,       \* where each process is
    cmd,      \* its command
    digest,   \* the content whose hash it signs
    listed,   \* it saw an .appsyncrelease when it listed the package
    met,      \* what its run has overlapped with
    zip,      \* what it has put in its zip
    onDisk,   \* processes whose zip is on disk
    answer,   \* the settled value of its release promise: ok, conflict, error
    result,   \* how its last command ended, for the user
    latest,   \* server: the package released last
    history,  \* server: contents ever released
    accepted  \* server: processes whose current run it took a package from

disk == <<tree, sig, writers, staging>>
local == <<cmd, digest, listed, met>>
server == <<latest, history, accepted>>
vars == <<isFile, disk, pc, local, zip, onDisk, answer, result, server>>

Places == {"idle", "sign", "hash", "write", "writing", "list", "zip", "zipSig",
           "auth", "upload", "log", "finally"}
Answers == {"none", "ok", "conflict", "error"}
Results == {"none", "ok", "warned", "failed", "zipFailed", "died"}

TypeOK ==
    /\ isFile \in BOOLEAN
    /\ tree \in Contents \cup {None}
    /\ sig \in SignatureFile
    /\ writers \in SUBSET Procs
    /\ staging \in Contents \cup {None}
    /\ pc \in [Procs -> Places]
    /\ cmd \in [Procs -> Command]
    /\ digest \in [Procs -> Contents \cup {None}]
    /\ listed \in [Procs -> BOOLEAN]
    /\ met \in [Procs -> SUBSET {"signed", "other"}]
    /\ zip \in [Procs -> Package \cup {None}]
    /\ onDisk \in SUBSET Procs
    /\ answer \in [Procs -> Answers]
    /\ result \in [Procs -> Results]
    /\ latest \in Package \cup {None}
    /\ history \in SUBSET Contents
    /\ accepted \in SUBSET Procs

\* A package may come with the signature of an earlier release, whole or not.
Init ==
    /\ isFile \in BOOLEAN
    /\ tree \in Contents
    /\ sig \in IF isFile THEN {None} ELSE SignatureFile
    /\ writers = {}
    /\ staging = None
    /\ pc = [p \in Procs |-> "idle"]
    /\ cmd = [p \in Procs |-> [key |-> NoKey, noDuplicateError |-> FALSE]]
    /\ digest = [p \in Procs |-> None]
    /\ listed = [p \in Procs |-> FALSE]
    /\ met = [p \in Procs |-> {}]
    /\ zip = [p \in Procs |-> None]
    /\ onDisk = {}
    /\ answer = [p \in Procs |-> "none"]
    /\ result = [p \in Procs |-> "none"]
    /\ latest = None
    /\ history = {}
    /\ accepted = {}

-----------------------------------------------------------------------------
Goto(p, w) == pc' = [pc EXCEPT ![p] = w] /\ UNCHANGED isFile

\* The command ends and the user sees how; its process takes what it knew along.
Finish(p, r) ==
    /\ Goto(p, "idle")
    /\ result' = [result EXCEPT ![p] = r]
    /\ digest' = [digest EXCEPT ![p] = None]
    /\ listed' = [listed EXCEPT ![p] = FALSE]
    /\ met' = [met EXCEPT ![p] = {}]
    /\ answer' = [answer EXCEPT ![p] = "none"]
    /\ UNCHANGED cmd

Signed(p) == cmd[p].key # NoKey

Running == {p \in Procs : pc[p] # "idle"}
Sort(c) == IF c.key # NoKey THEN "signed" ELSE "other"

\* Every run but p's has met something.
Meet(p, what) == [q \in Procs |-> IF q \in Running \ {p} THEN met[q] \cup {what} ELSE met[q]]

\* release: past the .zip and semver refusals, which change nothing.
StartRelease(p, c) ==
    /\ pc[p] = "idle"
    /\ Goto(p, "sign")
    /\ cmd' = [cmd EXCEPT ![p] = c]
    /\ zip' = [zip EXCEPT ![p] = None]
    /\ onDisk' = onDisk \ {p}
    /\ result' = [result EXCEPT ![p] = "none"]
    /\ accepted' = accepted \ {p}
    /\ met' = [Meet(p, Sort(c)) EXCEPT ![p] = {Sort(cmd[q]) : q \in Running}]
    /\ UNCHANGED <<disk, digest, listed, answer, latest, history>>

-----------------------------------------------------------------------------
(* The signing hook.  Its failures, and a package that cannot be listed,   *)
(* reject the command before it has a zip.                                 *)

\* Delete .appsyncrelease; a handle another process holds keeps its inode.
DeletePreviousSignature == sig' = None /\ writers' = {}

\* The old signature cannot be deleted or the copy not be made, the package not
\* be hashed or listed, the key is no key, the signature file cannot be opened.
\* A copy that fails has already emptied tmp/AppSync, or not.
RejectEarly(p) ==
    /\ \/ pc[p] = "sign" /\ (Signed(p) \/ ~isFile \/ tree = None)
       \/ pc[p] \in {"hash", "write"}
       \/ pc[p] = "list" /\ (~isFile \/ tree = None)
    /\ staging' \in IF pc[p] = "sign" /\ Signed(p) /\ isFile /\ tree # None
                   THEN {staging, None, tree} ELSE {staging}
    /\ Finish(p, "failed")
    /\ UNCHANGED <<tree, sig, writers, zip, onDisk, server>>

\* Slip: an unsigned release leaves the signature it finds.
SkipSigningOnly(p) ==
    /\ pc[p] = "sign"
    /\ ~Signed(p)
    /\ tree # None
    /\ Goto(p, "list")
    /\ UNCHANGED <<disk, local, zip, onDisk, answer, result, server>>

\* No key: only a directory may hold a signature to delete.
SkipSigning(p) ==
    /\ pc[p] = "sign"
    /\ ~Signed(p)
    /\ tree # None
    /\ IF isFile THEN UNCHANGED <<sig, writers>> ELSE DeletePreviousSignature
    /\ Goto(p, "list")
    /\ UNCHANGED <<tree, staging, local, zip, onDisk, answer, result, server>>

\* Slip: the key is read, the package never hashed.
PrepareWithoutHash(p) ==
    /\ pc[p] = "sign"
    /\ Signed(p)
    /\ tree # None
    /\ DeletePreviousSignature
    /\ Goto(p, "write")
    /\ UNCHANGED <<tree, staging, local, zip, onDisk, answer, result, server>>

\* Slip: a package that holds a signature counts as signed.
PrepareUnlessSigned(p) ==
    /\ pc[p] = "sign"
    /\ Signed(p)
    /\ tree # None
    /\ staging' = IF isFile THEN tree ELSE staging
    /\ Goto(p, IF sig # None THEN "list" ELSE "hash")
    /\ UNCHANGED <<tree, sig, writers, local, zip, onDisk, answer, result, server>>

\* A single file is first copied to tmp/AppSync, emptied for it.
PrepareSigning(p) ==
    /\ pc[p] = "sign"
    /\ Signed(p)
    /\ tree # None
    /\ IF isFile
       THEN staging' = tree /\ UNCHANGED <<sig, writers>>
       ELSE DeletePreviousSignature /\ UNCHANGED staging
    /\ Goto(p, "hash")
    /\ UNCHANGED <<tree, local, zip, onDisk, answer, result, server>>

\* The directory signed: the package, or the copy of a single file.
PackageContent == IF isFile THEN staging ELSE tree

HashPackage(p) ==
    /\ pc[p] = "hash"
    /\ PackageContent # None
    /\ digest' = [digest EXCEPT ![p] = PackageContent]
    /\ Goto(p, "write")
    /\ UNCHANGED <<disk, cmd, listed, met, zip, onDisk, answer, result, server>>

\* fs.writeFile opens and truncates.  The path was made from the package as
\* the command named it: below a single file there is nowhere to write.
OpenSignature(p) ==
    /\ pc[p] = "write"
    /\ ~isFile
    /\ tree # None
    /\ sig' = Torn
    /\ writers' = writers \cup {p}
    /\ Goto(p, "writing")
    /\ UNCHANGED <<tree, staging, local, zip, onDisk, answer, result, server>>

\* Over what another process wrote meanwhile, a longer text leaves a tail.
WriteSignature(p) ==
    /\ pc[p] = "writing"
    /\ IF p \in writers
       THEN sig' \in {[key |-> cmd[p].key, of |-> digest[p]]}
                        \cup (IF sig = Torn THEN {} ELSE {Torn})
       ELSE sig' = sig
    /\ writers' = writers \ {p}
    /\ Goto(p, "list")
    /\ UNCHANGED <<tree, staging, local, zip, onDisk, answer, result, server>>

\* fs.writeFile fails on the open file: what it held is gone, or partly over.
WriteFails(p) ==
    /\ pc[p] = "writing"
    /\ sig' \in IF p \in writers THEN {sig, Torn} ELSE {sig}
    /\ writers' = writers \ {p}
    /\ Finish(p, "failed")
    /\ UNCHANGED <<tree, staging, zip, onDisk, server>>

-----------------------------------------------------------------------------
(* The core hook: zip, authenticate, upload, clean up. *)

ListPackage(p) ==
    /\ pc[p] = "list"
    /\ tree # None
    /\ listed' = [listed EXCEPT ![p] = sig # None]
    /\ Goto(p, "zip")
    /\ UNCHANGED <<disk, cmd, digest, met, zip, onDisk, answer, result, server>>

\* The zip is created in the working directory and the files read into it.
ZipPackage(p) ==
    /\ pc[p] = "zip"
    /\ tree # None
    /\ zip' = [zip EXCEPT ![p] = [of |-> tree, sig |-> None]]
    /\ onDisk' = onDisk \cup {p}
    /\ Goto(p, IF listed[p] THEN "zipSig" ELSE "auth")
    /\ UNCHANGED <<disk, local, answer, result, server>>

ZipSignature(p) ==
    /\ pc[p] = "zipSig"
    /\ sig # None
    /\ zip' = [zip EXCEPT ![p].sig = sig]
    /\ Goto(p, "auth")
    /\ UNCHANGED <<disk, local, onDisk, answer, result, server>>

\* yazl reports a listed file that has gone as an "error" event nobody
\* listens to: the process dies and its zip stays.
FileVanished(p) ==
    /\ \/ pc[p] = "zip" /\ tree = None
       \/ pc[p] = "zipSig" /\ sig = None
    /\ onDisk' = onDisk \cup {p}
    /\ Finish(p, "died")
    /\ UNCHANGED <<disk, zip, server>>

\* Writing the zip fails: a rejection, but no finally of the upload step yet.
ZipFails(p) ==
    /\ pc[p] \in {"zip", "zipSig"}
    /\ onDisk' = onDisk \cup {p}
    /\ Finish(p, "zipFailed")
    /\ UNCHANGED <<disk, zip, server>>

Settle(p, a, w) ==
    /\ answer' = [answer EXCEPT ![p] = a]
    /\ Goto(p, w)
    /\ UNCHANGED <<disk, local, zip, onDisk, result>>

\* isAuthenticated(true)
Authenticate(p) ==
    /\ pc[p] = "auth"
    /\ Settle(p, "none", "upload") \/ Settle(p, "error", "finally")
    /\ UNCHANGED server

\* The server refuses a package identical to the latest release.
Duplicate(p) == latest # None /\ latest.of = zip[p].of

\* Accepted: the answer comes back, or is lost.
Accept(p) ==
    /\ pc[p] = "upload"
    /\ ~Duplicate(p)
    /\ latest' = zip[p]
    /\ history' = history \cup {zip[p].of}
    /\ accepted' = accepted \cup {p}
    /\ Settle(p, "ok", "log") \/ Settle(p, "error", "finally")

Refuse(p) ==
    /\ pc[p] = "upload"
    /\ \/ Duplicate(p) /\ Settle(p, "conflict", "finally")
       \/ Settle(p, "error", "finally")
    /\ UNCHANGED server

\* Slip: an exception in the success message settles nothing.
LogSuccessOrHang(p) ==
    /\ pc[p] = "log"
    /\ tree # None
    /\ Settle(p, "ok", "finally")
    /\ UNCHANGED server

\* The success message looks at the original package once more.
LogSuccess(p) ==
    /\ pc[p] = "log"
    /\ Settle(p, IF tree = None THEN "error" ELSE "ok", "finally")
    /\ UNCHANGED server

\* Slip: with noDuplicateReleaseError set, every failure is a warning.
CleanUpLeniently(p) ==
    /\ pc[p] = "finally"
    /\ onDisk' = onDisk \ {p}
    /\ Finish(p, CASE answer[p] = "ok" -> "ok"
                   [] answer[p] # "ok" /\ cmd[p].noDuplicateError -> "warned"
                   [] OTHER -> "failed")
    /\ UNCHANGED <<disk, zip, server>>

\* Slip: the zip is removed after a success only.
CleanUpOnSuccess(p) ==
    /\ pc[p] = "finally"
    /\ onDisk' = IF answer[p] = "ok" THEN onDisk \ {p} ELSE onDisk
    /\ Finish(p, CASE answer[p] = "ok" -> "ok"
                   [] answer[p] = "conflict" /\ cmd[p].noDuplicateError -> "warned"
                   [] OTHER -> "failed")
    /\ UNCHANGED <<disk, zip, server>>

\* finally removes the zip; releaseErrorHandler turns a 409 into a warning.
CleanUp(p) ==
    /\ pc[p] = "finally"
    /\ onDisk' = onDisk \ {p}
    /\ Finish(p, CASE answer[p] = "ok" -> "ok"
                   [] answer[p] = "conflict" /\ cmd[p].noDuplicateError -> "warned"
                   [] OTHER -> "failed")
    /\ UNCHANGED <<disk, zip, server>>

-----------------------------------------------------------------------------
(* The world around: kills, builds, cleans. *)

Kill(p) ==
    /\ pc[p] # "idle"
    /\ writers' = writers \ {p}
    /\ Finish(p, "died")
    /\ UNCHANGED <<tree, sig, staging, zip, onDisk, server>>

\* A build replaces the package, its .appsyncrelease kept or not.
Build(c) ==
    /\ c # tree
    /\ tree' = c
    /\ \/ UNCHANGED <<sig, writers>>
       \/ DeletePreviousSignature
    /\ met' = [p \in Procs |-> IF p \in Running THEN met[p] \cup {"other"} ELSE met[p]]
    /\ UNCHANGED <<isFile, staging, pc, cmd, digest, listed, zip, onDisk, answer, result, server>>

Clean ==
    /\ tree # None
    /\ tree' = None
    /\ DeletePreviousSignature
    /\ met' = [p \in Procs |-> IF p \in Running THEN met[p] \cup {"other"} ELSE met[p]]
    /\ UNCHANGED <<isFile, staging, pc, cmd, digest, listed, zip, onDisk, answer, result, server>>

-----------------------------------------------------------------------------
Sign(p) ==
    \/ RejectEarly(p)
    \/ SkipSigning(p)
    \/ PrepareSigning(p)
    \/ HashPackage(p)
    \/ OpenSignature(p)
    \/ WriteSignature(p)
    \/ WriteFails(p)

Core(p) ==
    \/ ListPackage(p)
    \/ ZipPackage(p)
    \/ ZipSignature(p)
    \/ FileVanished(p)
    \/ ZipFails(p)
    \/ Authenticate(p)
    \/ Accept(p)
    \/ Refuse(p)
    \/ LogSuccess(p)
    \/ CleanUp(p)

Step(p) == Sign(p) \/ Core(p)

Run(p) == (\E c \in Command : StartRelease(p, c)) \/ Step(p) \/ Kill(p)

Next ==
    \/ \E p \in Procs : Run(p)
    \/ \E c \in Contents : Build(c)
    \/ Clean

Spec == Init /\ [][Next]_vars

\* A process runs on unless it is killed; the server answers, or the
\* connection to it fails, in the end.
LiveSpec == Spec /\ \A p \in Procs : WF_vars(Step(p))

-----------------------------------------------------------------------------
(* Properties, whatever overlaps and whatever builds do. *)

\* A run that ends leaves its zip in the working directory only if it was
\* killed or could not write it: `finally` covers every answer of the server.
NoLitter ==
    \A p \in onDisk : pc[p] = "idle" => result[p] \in {"zipFailed", "died"}

\* "Successfully released" is said only of a package the server took from this
\* very run, and a duplicate is excused only for content already released.
SuccessIsReleased ==
    \A p \in Procs :
        /\ result[p] = "ok" => p \in accepted
        /\ result[p] = "warned" =>
               p \notin accepted /\ cmd[p].noDuplicateError /\ zip[p].of \in history

\* A command without a key never releases a signature, one left in the package
\* least of all, unless a signed release ran meanwhile: other runs without a key
\* delete what they find before they list the files, and builds write none.
UnsignedStaysUnsigned ==
    \A p \in Procs :
        pc[p] \in {"auth", "upload", "log", "finally"} /\ ~Signed(p) /\ "signed" \notin met[p] =>
            zip[p].sig = None

\* A command with a key uploads the signature of that key, made for the very
\* content beside it, if neither a release nor a build has touched the package
\* meanwhile.
ReleasedAsAsked ==
    \A p \in Procs :
        pc[p] \in {"auth", "upload", "log", "finally"} /\ Signed(p) /\ met[p] = {} =>
            zip[p].sig = [key |-> cmd[p].key, of |-> zip[p].of]

\* The release command as the user knows it: see ReleaseOutcome.
Stage == [p \in Procs |-> IF pc[p] = "idle" THEN "idle"
                          ELSE IF p \in accepted THEN "released" ELSE "running"]
Outcome == INSTANCE ReleaseOutcome WITH
    stage <- Stage,
    outcome <- [p \in Procs |-> CASE result[p] \in {"ok", "warned", "none"} -> result[p]
                                  [] OTHER -> "failed"]
ImplementsOutcome == Outcome!Spec

\* Every command ends.
ReleasesFinish == \A p \in Procs : pc[p] # "idle" ~> pc[p] = "idle"

-----------------------------------------------------------------------------
(* What the code says and does not keep.                                   *)

\* signing.ts: "If releasing a single file, copy the file to a temporary
\* 'AppSync' directory in which to publish the release": what is signed is a
\* directory, so its signature has a place to go.
SignatureHasAPlace == \A p \in Procs : ~(pc[p] = "write" /\ isFile)

=============================================================================
