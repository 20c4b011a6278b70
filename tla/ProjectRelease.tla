---------------------------- MODULE ProjectRelease -----------------------------
(***************************************************************************)
(* The commands that release the project in the working directory: find    *)
(* the deployment, look at the project, build it into a folder, find the   *)
(* version to target, and hand the folder to `release`.  release-react     *)
(* empties its folder first, <outputDir>/CodePush or, for everybody who    *)
(* names none, <tmpdir>/CodePush/CodePush, and throws it away afterwards;  *)
(* the other two leave the project's platform folder to the build tool.    *)
(*                                                                         *)
(* cli/script/command-executor.ts: releaseReact, releaseCordova,           *)
(* releaseNativeScript and what they call.  What `release` does with the   *)
(* folder is module Release's subject; here it reads it and is answered.   *)
(***************************************************************************)
CONSTANTS
    Procs,      \* processes, all of one machine and one project
    Kinds,      \* the commands in use
    Ranges,     \* the ranges they are given
    OutputDirs, \* folders users name with outputDir
    Tmp,        \* the folder of those who name none
    Platforms,  \* where cordova and tns build
    None        \* no process, no such folder, no command, nothing read

Folders == OutputDirs \cup {Tmp, Platforms}
Parts == {"bundle", "assets"}
Old == <<None, "bundle">> \* whatever was made before, by whomever
File == {Old} \cup (Procs \X Parts)
Own(p) == {p} \X Parts

\* range: the targetBinaryVersion given, and whether semver takes it.
Command ==
    {c \in [kind : Kinds, out : Folders, build : BOOLEAN, range : Ranges] :
        /\ c.kind = "react" <=> c.out # Platforms
        /\ c.kind # "nativescript" => c.build}

ASSUME ProjectAssumption ==
    /\ Kinds \subseteq {"react", "cordova", "nativescript"}
    /\ Ranges \subseteq {"valid", "invalid", "none"}
    /\ Tmp # Platforms /\ {Tmp, Platforms} \cap OutputDirs = {}
    /\ None \notin Procs /\ None \notin Command
    /\ \A files \in SUBSET File : files # None

VARIABLES
    folder,   \* the files in each folder
    pc,       \* where each process is
    cmd,      \* its last command
    made,     \* the parts its build tool has written
    cutShort, \* a signal ended its build tool
    target,   \* the version range it releases for: none yet, or whether semver takes it
    taken,    \* the files `release` has read
    alone,    \* nobody else has used its folder since it started
    accepted, \* the server took a package from the run
    result    \* how its last command ended

run == <<cmd, made, cutShort, target, taken, alone, accepted>>
vars == <<folder, pc, run, result>>

Places == {"idle", "validate", "check", "version", "empty", "make", "build", "release",
           "upload", "sweep"}

Is(p, kind) == cmd[p].kind = kind

\* The range is in the command before its folder is emptied, or at the latest
\* before it is released.
Aimed(p) ==
    \/ pc[p] \in {"empty", "make", "release", "upload", "sweep"}
    \/ pc[p] = "build" /\ Is(p, "react")
    => target[p] # "none"

TypeOK ==
    /\ folder \in [Folders -> (SUBSET File) \cup {None}]
    /\ pc \in [Procs -> Places]
    /\ cmd \in [Procs -> Command \cup {None}]
    /\ \A p \in Procs : pc[p] # "idle" => cmd[p] # None
    /\ made \in [Procs -> SUBSET Parts]
    /\ cutShort \in [Procs -> BOOLEAN]
    /\ target \in [Procs -> {"none", "valid", "invalid"}]
    /\ \A p \in Procs : Aimed(p)
    /\ taken \in [Procs -> (SUBSET File) \cup {None}]
    /\ alone \in [Procs -> BOOLEAN]
    /\ accepted \in SUBSET Procs
    /\ result \in [Procs -> {"none", "ok", "warned", "failed", "died"}]

Init ==
    /\ folder \in [Folders -> {None, {Old}}]
    /\ pc = [p \in Procs |-> "idle"]
    /\ cmd = [p \in Procs |-> None]
    /\ made = [p \in Procs |-> {}]
    /\ cutShort = [p \in Procs |-> FALSE]
    /\ target = [p \in Procs |-> "none"]
    /\ taken = [p \in Procs |-> None]
    /\ alone = [p \in Procs |-> FALSE]
    /\ accepted = {}
    /\ result = [p \in Procs |-> "none"]

-----------------------------------------------------------------------------
Goto(p, w) == pc' = [pc EXCEPT ![p] = w]

\* The command ends, and its process takes what it knew along.
Finish(p, r) ==
    /\ Goto(p, "idle")
    /\ result' = [result EXCEPT ![p] = r]
    /\ made' = [made EXCEPT ![p] = {}]
    /\ target' = [target EXCEPT ![p] = "none"]
    /\ taken' = [taken EXCEPT ![p] = None]
    /\ accepted' = accepted \ {p}
    /\ IF r \in {"ok", "warned"}
       THEN UNCHANGED <<cmd, cutShort, alone>>
       ELSE /\ cmd' = [cmd EXCEPT ![p] = None]
            /\ cutShort' = [cutShort EXCEPT ![p] = FALSE]
            /\ alone' = [alone EXCEPT ![p] = FALSE]

Uses(p, f) == cmd[p] # None /\ cmd[p].out = f
Holds(f, files) == folder' = [folder EXCEPT ![f] = files]
Here(p) == folder[cmd[p].out]
Named(p) == cmd[p].out \in OutputDirs

\* What rimraf has left of a folder when the process ends before it does.
Remains(f) == {None, folder[f]} \cup (IF folder[f] = None THEN {} ELSE SUBSET folder[f])

\* What p made is old once p has failed, or makes something new.
Aged(p, folders) ==
    [f \in Folders |->
        IF folders[f] = None \/ folders[f] \cap Own(p) = {} THEN folders[f]
        ELSE (folders[f] \ Own(p)) \cup {Old}]

Begin(p, c) ==
    /\ pc[p] = "idle"
    /\ Goto(p, "validate")
    /\ cutShort' = [cutShort EXCEPT ![p] = FALSE]
    /\ alone' = [q \in Procs |->
                    IF q = p THEN \A o \in Procs \ {p} : Uses(o, c.out) => pc[o] = "idle"
                             ELSE alone[q] /\ ~Uses(q, c.out)]
    /\ result' = [result EXCEPT ![p] = "none"]
    /\ UNCHANGED <<made, target, taken, accepted>>

\* Slip: the folder is emptied at once.
StartEmptying(p, c) ==
    /\ Begin(p, c)
    /\ cmd' = [cmd EXCEPT ![p] = c]
    /\ folder' = Aged(p, IF c.kind = "react" THEN [folder EXCEPT ![c.out] = {}] ELSE folder)

\* react-native's folder is made before the deployment is looked for.
Start(p, c) ==
    /\ Begin(p, c)
    /\ cmd' = [cmd EXCEPT ![p] = c]
    /\ folder' = Aged(p, IF c.kind = "react" /\ folder[c.out] = None
                         THEN [folder EXCEPT ![c.out] = {}] ELSE folder)

\* getDeployment of validateDeployment, or of releaseNativeScript itself.
Validate(p) ==
    /\ pc[p] = "validate"
    /\ Goto(p, "check")
    /\ UNCHANGED <<folder, run, result>>

\* The platform, the project's files, a range given.
CheckReact(p) ==
    /\ pc[p] = "check"
    /\ Is(p, "react")
    /\ cmd[p].range # "invalid"
    /\ Goto(p, "version")
    /\ UNCHANGED <<folder, run, result>>

\* The platform and the CLI: a range given is looked at after the build.
CheckCordova(p) ==
    /\ pc[p] = "check"
    /\ Is(p, "cordova")
    /\ Goto(p, "build")
    /\ UNCHANGED <<folder, run, result>>

\* ... and, where no build is asked for, the folder of an earlier one.
CheckNativeScript(p) ==
    /\ pc[p] = "check"
    /\ Is(p, "nativescript")
    /\ cmd[p].range # "invalid"
    /\ cmd[p].build \/ Here(p) # None
    /\ Goto(p, IF cmd[p].build THEN "build" ELSE "version")
    /\ UNCHANGED <<folder, run, result>>

Aim(p, v) ==
    /\ target' = [target EXCEPT ![p] = v]
    /\ UNCHANGED <<folder, cmd, made, cutShort, taken, alone, accepted, result>>

\* Slip: the version found is not put into the command.
VersionReactUnkept(p) ==
    /\ pc[p] = "version"
    /\ Is(p, "react")
    /\ Goto(p, "empty")
    /\ UNCHANGED <<folder, run, result>>

\* What a project names as its version need not be one that semver takes.
Found(p) == IF cmd[p].range = "none" THEN {"valid", "invalid"} ELSE {"valid"}

\* The range given, or the version of the platform's project: 1.01 passes for
\* one, and what a Windows manifest names is not looked at.
VersionReact(p) ==
    /\ pc[p] = "version"
    /\ Is(p, "react")
    /\ \E v \in Found(p) : Aim(p, v)
    /\ Goto(p, "empty")

\* The range given or the version of config.xml, looked at here.
VersionCordova(p) ==
    /\ pc[p] = "version"
    /\ Is(p, "cordova")
    /\ cmd[p].range # "invalid"
    /\ Aim(p, "valid")
    /\ Goto(p, "release")

\* The same 1.01 passes on iOS, and on Android whatever digits and dots.
VersionNativeScript(p) ==
    /\ pc[p] = "version"
    /\ Is(p, "nativescript")
    /\ \E v \in Found(p) : Aim(p, v)
    /\ Goto(p, "release")

\* Slip: mkdirp, which is content with a folder that is there.
EmptyIfAbsent(p) ==
    /\ pc[p] = "empty"
    /\ Holds(cmd[p].out, IF Here(p) = None THEN {} ELSE Here(p))
    /\ Goto(p, "build")
    /\ UNCHANGED <<run, result>>

\* createEmptyTempReleaseFolder: deleteFolder ...
Empty(p) ==
    /\ pc[p] = "empty"
    /\ Holds(cmd[p].out, None)
    /\ Goto(p, "make")
    /\ UNCHANGED <<run, result>>

\* ... then mkdirSync, which fails if somebody has made it meanwhile.
Make(p) ==
    /\ pc[p] = "make"
    /\ Here(p) = None
    /\ Holds(cmd[p].out, {})
    /\ Goto(p, "build")
    /\ UNCHANGED <<run, result>>

-----------------------------------------------------------------------------
(* The build tool: react-native bundle, cordova or tns. *)

AfterBuild(p) == IF Is(p, "react") THEN "release" ELSE "version"

\* The react-native bundler writes only where its folder is.
ToolWrites(p, part) ==
    /\ pc[p] = "build"
    /\ part \notin made[p]
    /\ Is(p, "react") => Here(p) # None
    /\ made' = [made EXCEPT ![p] = @ \cup {part}]
    /\ Holds(cmd[p].out, (IF Here(p) = None THEN {} ELSE Here(p)) \cup {<<p, part>>})
    /\ UNCHANGED <<pc, cmd, cutShort, target, taken, alone, accepted, result>>

\* Slip: the exit code is not looked at.
ToolEndsAnyhow(p) ==
    /\ pc[p] = "build"
    /\ Goto(p, AfterBuild(p))
    /\ UNCHANGED <<folder, run, result>>

ToolEnds(p) ==
    /\ pc[p] = "build"
    /\ made[p] = Parts
    /\ Goto(p, AfterBuild(p))
    /\ UNCHANGED <<folder, run, result>>

\* A bundler ended by a signal has exit code null, which is taken for success;
\* execSync throws.
ToolKilled(p) ==
    /\ pc[p] = "build"
    /\ Is(p, "react")
    /\ cutShort' = [cutShort EXCEPT ![p] = TRUE]
    /\ Goto(p, "release")
    /\ UNCHANGED <<folder, cmd, made, target, taken, alone, accepted, result>>

-----------------------------------------------------------------------------
(* release: its range check, its reading of the folder, its answer. *)

\* Slip: the range was looked at before.
ReadAnyRange(p) ==
    /\ pc[p] = "release"
    /\ Here(p) # None
    /\ taken' = [taken EXCEPT ![p] = Here(p)]
    /\ Goto(p, "upload")
    /\ UNCHANGED <<folder, cmd, made, cutShort, target, alone, accepted, result>>

Read(p) ==
    /\ pc[p] = "release"
    /\ target[p] = "valid"
    /\ Here(p) # None
    /\ taken' = [taken EXCEPT ![p] = Here(p)]
    /\ Goto(p, "upload")
    /\ UNCHANGED <<folder, cmd, made, cutShort, target, alone, accepted, result>>

Accept(p) ==
    /\ pc[p] = "upload"
    /\ p \notin accepted
    /\ accepted' = accepted \cup {p}
    /\ UNCHANGED <<folder, pc, cmd, made, cutShort, target, taken, alone, result>>

\* A success, or a duplicate that is excused.
Outcome(p) == IF p \in accepted THEN "ok" ELSE "warned"

\* Slip: the folder goes whoever named it.
SweepAlways(p) ==
    /\ pc[p] = "upload"
    /\ IF Is(p, "react")
       THEN Goto(p, "sweep") /\ UNCHANGED <<run, result>>
       ELSE Finish(p, Outcome(p))
    /\ UNCHANGED folder

\* A folder nobody named is then deleted, and the process lives until it is.
Resolved(p) ==
    /\ pc[p] = "upload"
    /\ IF Is(p, "react") /\ ~Named(p)
       THEN Goto(p, "sweep") /\ UNCHANGED <<run, result>>
       ELSE Finish(p, Outcome(p))
    /\ UNCHANGED folder

Sweep(p) ==
    /\ pc[p] = "sweep"
    /\ Holds(cmd[p].out, None)
    /\ Finish(p, Outcome(p))

\* deleteFolder is neither awaited nor caught there: rimraf fails, and nobody
\* is told.
SweepFails(p) ==
    /\ pc[p] = "sweep"
    /\ \E rest \in Remains(cmd[p].out) : Holds(cmd[p].out, rest)
    /\ Finish(p, Outcome(p))

-----------------------------------------------------------------------------
Leaves(p, rest) == folder' = Aged(p, [folder EXCEPT ![cmd[p].out] = rest])

\* Any step may fail: no such deployment or project, no permission, no answer
\* after all.  releaseReact then begins to delete its folder, named or not, and
\* the process exits without waiting for that.
Reject(p) ==
    /\ pc[p] \notin {"idle", "sweep"}
    /\ \E rest \in IF Is(p, "react") THEN Remains(cmd[p].out) ELSE {Here(p)} : Leaves(p, rest)
    /\ Finish(p, "failed")

\* An interrupt, which reaches the build tool as well.
Kill(p) ==
    /\ pc[p] # "idle"
    /\ \E rest \in IF pc[p] \in {"empty", "sweep"} THEN Remains(cmd[p].out) ELSE {Here(p)} :
          Leaves(p, rest)
    /\ Finish(p, "died")

Step(p) ==
    \/ Validate(p)
    \/ CheckReact(p)
    \/ CheckCordova(p)
    \/ CheckNativeScript(p)
    \/ VersionReact(p)
    \/ VersionCordova(p)
    \/ VersionNativeScript(p)
    \/ Empty(p)
    \/ Make(p)
    \/ \E part \in Parts : ToolWrites(p, part)
    \/ ToolEnds(p)
    \/ ToolKilled(p)
    \/ Read(p)
    \/ Accept(p)
    \/ Resolved(p)
    \/ Sweep(p)
    \/ SweepFails(p)
    \/ Reject(p)

Next == \E p \in Procs : (\E c \in Command : Start(p, c)) \/ Step(p) \/ Kill(p)

Spec == Init /\ [][Next]_vars

-----------------------------------------------------------------------------
\* What is released is what this run has built, all of it, and from the folder
\* of react-native nothing else: not what a run before it left behind.  It takes
\* that nobody uses the folder meanwhile and no signal ends the bundler.
ReleasesOwnBuild ==
    \A p \in Procs :
        taken[p] # None /\ cmd[p].build /\ alone[p] /\ ~cutShort[p] =>
            IF Is(p, "react") THEN taken[p] = Own(p) ELSE Own(p) \subseteq taken[p]

\* No release targets a range that semver refuses, whichever of the three
\* commands found it: what passes for a version when it is found, and has a
\* folder emptied and a bundle built for it, is stopped on its way out.
OnlyValidTargets == \A p \in accepted : target[p] = "valid"

\* After a success the folder a user named holds the new bundle and no more, and
\* the temporary one what could not be deleted of this run's own at most.
OutputDisposed ==
    \A p \in Procs :
        pc[p] = "idle" /\ result[p] \in {"ok", "warned"} /\ Is(p, "react") /\ alone[p] =>
            IF Named(p) THEN cutShort[p] \/ Here(p) = Own(p)
                        ELSE Here(p) = None \/ Here(p) \subseteq Own(p)

\* What was in a folder before is removed only by react-native commands: by one
\* that knows its deployment and its version, or by one that ends, and from a
\* folder a user named then only by a failure.
OldFilesStay ==
    \A f \in Folders :
        folder[f] # None /\ Old \in folder[f] /\ (folder'[f] = None \/ Old \notin folder'[f]) =>
            \E p \in Procs :
                /\ Uses(p, f) /\ Is(p, "react")
                /\ \/ pc[p] = "empty"
                   \/ pc'[p] = "idle" /\ (result'[p] = "failed" \/ f \notin OutputDirs)

OldFilesKept == [][OldFilesStay]_vars

=============================================================================
