# TLA+ models of the NativeScript AppSync CLI and SDK

This directory holds the specifications kept beside `nativescript-app-sync-cli`
and `nativescript-app-sync-sdk`: what the program does when several commands
run at once, when requests fail or are lost, and when a process dies half way.
Modules are model-checked by TLC on small instances; the safety results of the
core modules are proved by TLAPS for any instance.

## Inventory

| Component | State | Operations | Modelled by |
|---|---|---|---|
| Session cache (`command-executor.ts`: `execute`, `login`, `logout`, `whoami`, `sessionRemove`, `getSdk`) | `~/.nativescript-app-sync.config`, shared by every run of the CLI; the key an SDK object was built with | read on start, write on login, delete on logout and on every 401 | `CliSession`, `MachineLogin` |
| Release pipeline (`release`, `release-hooks/`) | the package directory, `.appsyncrelease` in it, `tmp/AppSync`, a zip per run in the working directory | sign, list, zip, authenticate, upload, clean up | `Release`, `ReleaseOutcome` |
| Management commands (deployments, apps, collaborators, access keys, promote, patch, rollback) | none of their own; the server's | confirm, one or several requests in turn or at once | `Management`, `CommandOutcome` |
| Management SDK (`sdk/script/management-sdk.ts`) | key, server URL, proxy of one object; the metadata objects of its callers; a zip per release of a directory | one HTTP request per method, settled once; the package of a release | `SdkCalls` |
| Package hashing (`hash-utils.ts`) | a file map per call, the zip reader's events | manifest of a directory or a zip, hash of a manifest | `PackageManifest` |
| Project releases (`releaseNativeScript`, `releaseCordova`, `releaseReact`) | the build output and the temporary folder | checks, build, version detection, release, removal of the folder | `ProjectRelease` |
| Command parser (`command-parser.ts`, `cli.ts`) | `argv`, `isValidCommandCategory`, `isValidCommand`, `wasHelpShown` | `argv` to a command record or the help text | `CommandLine` |
| Acquisition SDK (`sdk/script/acquisition-sdk.ts`) | none | update query, status reports | `SdkCalls` |
| Output formatting, `debug.ts` (device logs), build files | none | text | not modelled: layout and I/O |

**How they interact.** `cli.ts` runs the parser and hands its command to
`execute`. `execute` reads the session file once, refuses or builds an SDK
object, and dispatches. Every SDK method is wrapped by `getSdk`, so that any
command can delete the session file when its request is rejected with 401;
a public method reaches the wire through two more wrapped ones, so one
rejection deletes up to three times. `release` runs its hooks in turn; the core
hook calls the SDK. The project releases build into a folder and hand that to
`release`. Different runs of the CLI share the session file, the package
directory, the project's platform folder and the temporary folder of
`release-react`, without locks; calls of one SDK object share whatever metadata
objects their caller hands in.

**What is hard.** Steps of two processes around one file; the check of `login`
and the write long after it; a rejection that is handled when the file is
another's; writing by truncating first; a `DELETE` whose answer is lost, or
that arrives late; a crash between the server's step and the local one; a build
that rewrites the package between hashing and zipping; a release that succeeds
and is reported as failed, and its retry; a zip that outlives its run; a folder
that is deleted by one run while another builds into it; promises nobody
settles and callbacks nobody calls; exceptions in the handler of an answer; three
hand-kept lists of the commands. `PROJECT.json` lists these hazards at their
lines.

**What makes each part correct.**

- Session cache: the file names a key the server handed out; a 401 removes only
  a dead login; logout leaves no live session behind; one machine, one login, as long as one
  command runs at a time.
- Release: what is uploaded carries the signature that was asked for, made for
  that content; success is said only of what was released; no litter; every
  command ends.
- Management: nothing is destroyed unconfirmed; a group of requests reports
  what all of them did.
- Project releases: what is released is what this run has built, for a version
  range that semver takes; the folder a user named keeps what was in it unless
  the release gets as far as building or fails.
- SDKs: whoever calls is told once, and the truth; a release is sent with the
  metadata it was called with.
- Command parser: a line that keeps to a usage text is run, any other is
  answered with the help text, once.
- Hashing: the zip and the directory it was made of have one hash; the reader
  consumes each entry once.

## Modules

### `CliSession`

One machine, processes `Procs`, a server with keys. `file` is the content of
the session file: `Absent`, `Torn` (truncated, or text that is not JSON), a
`Connection`, or the legacy shape that `Deserialize` converts. `writers` are the
processes with an open handle on the file's current inode: `unlinkSync` empties
the set, and a writer that is not in it writes into a file nobody can see.

A process is at `prompt` (the browser login waits for a key), `request` (its
call is out; `reply` is `"none"` until it is answered), `store` (between the
truncation and the write of `writeFileSync`), `hook` (with `layers` hooks to
go), `cleanup` (logout's second half), `reread` (whoami's second read) or
`idle`. Each place lies between two points where another process, or the
server, may act. A command that `execute` refuses changes nothing and is a
stutter. `StartApi` stands for every other command that calls the server with
the cached key; what those do there is not this module's subject.

`Issue`, `Revoke` and the `Serve...` actions are the server and the network,
modelled from how the SDK uses them: a key is handed out once; a key expires or
is removed at any time; `DELETE /sessions/:machine` ends every session of a
machine, its answer may be lost, and one whose sender gave up may still be
carried out (`stray`). The key's server URL and proxy travel with it and are
not told apart.

### `MachineLogin`

What login and logout promise the one user of a machine: a login is made from
nothing, with a key the server handed out, and is dropped only when it is to be
kept on the server (`--accessKey`), is dead, or is no session of this machine.
With one process `CliSession` implements it (`login <- Deserialize(file)`).

### `Release`

Processes run `release` over one package, a directory or, where `isFile` holds, a
single file. `tree` is its content, `sig` its `.appsyncrelease`, with the handles
of `writers` as above, and `staging` the copy that a single file is signed in;
`zip` is what a run has read into its own archive and `onDisk` whether that
archive is in the working directory. The places of `pc` follow the promise chain
of `sign` and `coreReleaseHook`. A content hash is injective and stands for the
content it was made of. `RejectEarly` collects the rejections before there is a
zip, whatever is left of the staging copy; `WriteFails` is a `writeFile` that ends
in the middle of the signature. `FileVanished` is the `error` event of yazl that nobody listens to and that
kills the process. The server refuses a package whose content is that of its
latest release. An upload whose connection fails is either taken or not at that
moment; one that arrives later is not modelled. `Build` and `Clean` are the
project's build tools.

`met` is no state of the program: it records what else has happened since a run
started, a signed release or anything else that touches the package. Unlocked
files keep their promises only to runs that are alone with them, and the two
properties about signatures say just how alone. Of two signed runs that overlap
one may upload the signature that the other has written with its own key.

### `ReleaseOutcome`

A run releases at most once; it reports success only after that, excuses a
duplicate only if it released nothing and the deployment has releases, and its
failure says nothing. `Release` implements it for any number of runs.

### `PackageManifest`

One package and the two readings of it. The walk (`dirState`, `todo`,
`hashing`, `dirMap`) is `generatePackageManifestFromDirectory`: the reduce
hashes one file after the other. `Sign` writes `.appsyncrelease`, `Pack` zips
what is in the directory, and `zipState` to `zipMap` are
`generatePackageManifestFromZip`: `asked` counts the `readEntry` calls that
nothing has answered, `opening` and `streams` are the entries in work, and
`Entry`, `OpenStream`, `HashEntry`, `End`, `Error`, `ResolveZip` and `Close` are
its callbacks. The reader is the CLI's copy of what the server runs on an
upload; that the two are the same is the premise of the signature.

Paths are spelled as a disk or an archive spells them (`Raw`). `coreReleaseHook`
puts each through the `slash` package, both readers through `normalizePath`, and
the module assumes only that the first does not disturb the second; `slash`,
which leaves extended-length and non-ASCII paths alone, does not. `Kind` is what
`isIgnored` tells apart. A content stands for its SHA-256, and the hash of a
manifest for the set of its pairs, `entries.sort()` having removed the order.

### `Management`

The users `Procs` of one app, with deployments `Names`; on the server,
`deployments` and `app`. A command is its type, the deployments it names, and
whether the checks at its start let it pass (`wellFormed`: e-mail address,
output format, operating system, something to patch). `Start` refuses it, puts
up the prompt of the `Gated` commands, or sends its first wave. A wave is the
requests that are in flight together; `Wave(c, i, known)` is the promise chain
of command `c` read as waves: three in turn for `deployment add --default`, one
and then the metrics of each deployment with a package for `deployment list`,
three at once for `deployment history`. `Resolve` is the join (`Q.all`, `then`),
`Reject` its first failure, which ends the process, and with it whatever other
answers were to come. `releaseErrorHandler` turns the 409 of a promotion into a
warning. A sender that dies, or whose connection fails, leaves at most a request
that arrives later (`stray`).

A command may fail after the server has done what it asked (`Misreport`): the
answer is lost, or is one the SDK cannot read (`patchAccessKey` reads a body
that it did not require). Nothing is undone: `deployment add --default` that
fails half way leaves Staging, and running it again is refused at once.

`Serve`, `Apply` and `Conflict` are the server, modelled from how the code uses
it: it does a request whole or refuses it; a renamed app is gone under the name
the commands use; a rollback releases some earlier package.

### `CommandOutcome`

What a management command is to its user: a plan of changes (`Plans`), begun
only after a "y" where the plan holds one that is asked about (`Asked`), carried
out one change at a time, each at most once, and reported as it went: a success
when all of the plan is done, a warning only for a change that may be excused, a
failure whatever was done. A change whose sender has given up may arrive late. No
deployment comes or goes but with a change that is about it (`Touches`).
`Management` implements it (`did` is what the server has changed for the run):
waves, answers in any order, lost answers and reading requests do not show.

### `ProjectRelease`

Processes run the three commands that release the project of the working
directory. `folder` holds the files of each folder: the ones users name with
`outputDir`, the temporary one of `release-react`, and the platform folder in
which cordova and tns build. A file is a part (bundle or assets) of some run's
build, or `Old`: made before, by whomever. The places of `pc` are the steps of
the promise chains between which others may act: `empty` and `make` are the two
halves of `createEmptyTempReleaseFolder`, `build` is the time of the build tool,
which writes part by part (`ToolWrites`) and which a signal may end
(`ToolKilled`: an exit code of `null` passes for success). `release` and `upload`
stand for the call of `release`, whose inside is the module of that name; here
it checks the range (`target`), reads the folder (`taken`) and is answered.
`Found` is what a project may name as its version: `releaseReact` and
`releaseNativeScript` let some of it pass that semver refuses (`1.01`, the digits
of a manifest), which only `release` stops, after the build. `SweepFails` is the
deletion of the temporary folder that nobody awaits or catches: the run reports
success whatever it leaves. `Reject` is any failure of any step: `releaseReact` then starts to delete its
folder and the process exits before that is done, so anything may remain.
`alone` records, as `met` does, that nobody else used the folder meanwhile.

### `SdkCalls`

Calls of both SDKs in one process. A call is a request of one of seven kinds and
is `new`, preparing its package (`file`, `zipping`), `sent`, `cut` (its
connection has broken, and its request may still arrive) or `over`. `object` is
what is in the metadata objects the callers share: `release` and `patchRelease`
write into them, and `release` reads its own back only when its package is
ready. An answer is a status and whether the body can be read. `crashed` is an
exception in a handler, which ends the process: `AuthAnswered` reads a property
of an error that a success other than 200 does not have, `QueryAnswered` calls a
callback that may not be there, yazl's `error` has no listener. `AppNameParam` leaves
every slash of an app's name but the first, though the comment above `appNameParam`
says that "the CLI now converts / to ~~": a gateway that decodes the others turns
the request away (`Serve`), and its caller is told of a failure. `meant` and
`mixed` record what a release was called with, and whether another call has
written its object.

### `CommandLine`

From the words of a line to a command. The builders given to yargs (`Offered`:
how many words, which options), the cases of `createCommand` (`Cases`: which
words must not be empty) and the second switch of `execute` (`Dispatched`) are
three tables, and `Enter` to `execute` are what happens between them. yargs is
external: the first word of the line that names a command of the present level
enters its builder, wherever it stands; the rules of the innermost builder are
checked one after the other, each broken one calling `showHelp`. Words are told
apart by whether they are empty or name something. Options matter as far as a
rule does: `badRollout` is a `--rollout` out of range, `noDeployment` an empty
`--deploymentName`.

A builder that was commented out does not hide its command: `createCommand` and
`execute` still know `access-key patch`, `app transfer`, `link`, `session list`
and `session remove`, and a line reaches them if some later word of it names an
offered command, whose builder then stands in. `OnlyByTheRules` says that there
is no other way.

## Runs

| Run | Instance | Shows |
|---|---|---|
| `session_duo` | 2 processes, 1 access key, 1 session key of this machine, 1 of another | types; the file's key was accepted; hooks run for dead keys; logout's clean-up comes after the end of the session; a live login that goes with a hook or a logout is another process's, or one its own logout gives up |
| `session_solo` | 1 process, 1 access key, 2 + 1 session keys | the file is `MachineLogin`; a 401 removes a dead login only; whoami finds its connection; every command past its prompt ends |
| `session_hook_race` | 2 processes, 2 session keys | *violation*: a 401 of an old key deletes the new login of another process |
| `session_login_race` | 2 processes, 2 session keys | *violation*: of two logins that found no session file, the second writes over the first |
| `release_duo` | 2 processes, a directory or a file, 1 content, 1 signing key, builds | types; no litter; success means released; `ReleaseOutcome`; every command ends |
| `release_signed` | 2 processes, a directory or a file, 2 contents, 2 signing keys, builds | a run without a key releases no signature unless it met a signed run; a run with a key that met nobody carries the signature of that key and that content, whatever was left in the package |
| `release_file` | 1 process, a single file, 1 key | *violation*: the signature of a single file has no place to go |
| `project` | 2 processes, the 3 commands, 1 named folder, the temporary and the platform folder, ranges given and refused or not given | types; a run releases its own build; only valid ranges are released for, though others are found and built for; a success leaves the new bundle, or of the temporary folder at most what could not be deleted; old files stay until the version is known |
| `sdk_duo` | 2 calls, 2 metadata objects, 2 versions, names with 0 or 2 slashes | types; each caller is told once and truly; who is never told; metadata as asked; what was sent is told |
| `command_line` | every line of up to 5 words: two of the program, then empty, new or the program's; 0 or 1 option a rule is about | types; the help text once or a command; a line in keeping with a usage text is run; only by the rules |
| `manifest` | up to 5 files: 2 spellings of one path, a `.DS_Store`, the signature; 2 contents | one hash for the directory that was signed and for the zip; manifests are whole; the reader takes turns; both readings settle |
| `management` | 1 user, every command, 2 packages, 1 late request, releases by others | types; nothing gated without a yes; Production only after Staging; lists and histories are whole; `CommandOutcome`: success means done, a failure may have done a part, only a promotion's duplicate is excused; every command past its prompt ends |

**Bounds.** The state of the session, the release and the manifest is finite, so
nothing is cut off but in `release_signed`: keys are handed out once, runs are forgotten when the next
one starts. Two processes suffice for every hazard listed, each of which is one
process acting between two steps of another; two session keys give an old and a
new login, a third belongs to another machine. In `release_duo` a build and a clean change one
content to none and back; its properties are about releases and zips, which do
not depend on what the content is. Signatures do: `release_signed` has two
contents and two keys, so that a signature may be of the wrong one, be left over
from a run with another key, or stand beside what was built since. It gives up
liveness for symmetry (processes, contents and keys are never told apart), and
follows a behaviour until the server has taken both contents (`NotAllReleased`):
what the server has decides only whether it refuses a duplicate, after the
signature has been written and zipped. The proofs of the same properties have any
contents and keys, and no such bound.

Liveness of the session is checked with one process, as no step of the code
waits for another.

In `project` two processes may share a folder or not, and each run makes two
parts, so that a build may be seen half done; `Ranges` without `"valid"` loses
nothing: without a range the version found may be a valid one or not, in every
command that does not look at it first. `sdk_duo` makes two calls of
any kinds: two objects and two versions tell a call's metadata from another's,
and calls meet nowhere else; a name with two slashes is sent with one of them left.
`MaxWords` bounds the lines of `command_line`: five
words are the longest usage, `deployment rename`, and more than every other
command takes; `CommandLineProofs` has lines of any length. Past the second word
only being empty or naming something matters. One option at
a time is enough, as each is looked at by one rule.

`manifest` starts from every package over its paths, the empty one and the one
with both spellings included. `Management` has one bound, `MaxStray`: one late
request at a time is enough to change the server between any two steps of a
command, and releases by others change it as well. `management` has one user: each of its
properties relates one run to its own requests, processes share nothing but the
server, and what a second user could do to the server between two answers a late
request or a release does. The proofs have any number of users.

**Fairness.** `LiveSpec` asks that a process that is not killed runs on (weak
fairness of its own steps) and that a request is answered or its connection
fails (weak fairness of the server's steps): Node runs ready callbacks, and
sockets time out. The user is not obliged to answer the prompt, so
`CommandsFinish` starts behind it. `Step` in `Release` contains the failures as
well; no branch of it is forced. `PackageManifest` asks weak fairness of `Next`:
every step of it is an event of a stream or of the zip reader, which come or
turn into errors. `Management` asks that one of a process's requests is answered
or fails (`Settle(p)`); which one, and how, is not said.

`SdkCalls` asks weak fairness of each call's own steps: a socket that
is not answered times out, and `PackageFails` or an upload follows a listing; no
answer is asked of the server.

**Deadlock** is checked in every run but those of `manifest`, `SdkCalls` and
`CommandLine`: the readings of one package end, each call is made once, a line
is parsed once, and that is the end.

## Proofs

The proofs (`CliSessionProofs`, `ReleaseProofs`, `PackageManifestProofs`,
`ManagementProofs`, `ProjectReleaseProofs`, `SdkCallsProofs`,
`CommandLineProofs`) need no more than the named assumptions on the constants:
keys are disjoint, machines are named, marks are no connections, `None` is no
deployment, no command, no request and no set of files, `slash` does not disturb
`normalizePath`, lines are sequences of words.

*Session.* The inductive invariant is `Inv`: types, `valid` within `issued`,
the file's key issued, and `ClientInv` for each process. Its heart is that a key
which was handed out and is dead stays dead (keys are never handed out again),
so what a process learned from a 401 or from its `DELETE` cannot go stale
however late it acts on it. This gives `TypeCorrect`, `CachedKeyIssued`,
`HookForDeadKey`, `LogoutEndsSession` and `LiveLoginsKept` for any number of
processes. With one
process (`Solo`) `SoloClient` adds that the file is what the process read or has
made of it since, which gives `SoloRejected`, `SoloWhoami` and the refinement
`SoloImplements`. `session_hook_race` and `session_login_race` show that `Solo` is
needed: with two
processes a 401 of an old key removes a new login, and, as the check of `login`
comes long before its write, one login replaces another.

*Release.* `RunInv` says of each run what the server and the disk show of it at
each place: no zip before it is written, not accepted before the upload, an
answer only between upload and report. With it, `TypeCorrect`, `ZipRemoved`,
`SuccessIsTrue`, and the refinement `ImplementsReleaseOutcome` are proved for
any number of runs and builds. Both theorems about signatures rest on `Overlaps`:
whoever runs is known to everybody who ran at the same time. `NeverSigned` then
needs that a signature which a run without a key has deleted stays deleted while
no signed run is about, and `SignedRight` that what a run alone has hashed,
written and listed is still there when it is zipped, with no other handle left
to write over it.

*Manifest.* `Inv` says of the walk and of the reader that the map is the
manifest of what has been read (`ManifestOf`), and of the reader that while it
is pending it has exactly one thing to do: an entry asked for, opened or hashed.
The second is needed for the first: with two entries in work the end of the
archive could come before the last of them. `SignedHashIsServerHash` follows:
both maps are manifests of the same files, once the signature and the system's
files are left out, provided no two counted paths become one name. Without that
proviso it is false: the two readings may keep different contents.

*Management.* `Waiting` says of a run in flight that every request of the waves
up to this one is answered or out, and that what is out belongs to this wave.
With the facts about waves (only the second wave of a list depends on what was
told; when no wave is left, the waves held all the command is to change and to
show) this gives `SuccessDone`, `DefaultsOrdered` and `ListsWhole`.
`ConsentGiven` needs that only a gated command sends gated requests. The
refinement `ImplementsPromise` needs two invariants more. `Fresh`: what is done
of the plan is of the waves so far and no longer out, so that no change is made
twice (`OneWave`: no change belongs to two waves). `Owned`: without the app there
is no deployment, so that a late `app remove` touches none that is not its own.
`SuccessDone` states the same of one run without the abstract machine, and says
what `cancelled` and `warned` exclude.

*Project releases.* `RunInv` says what a run knows at each place, `FolderInv` what
is in its folder while nobody else has used it (nothing at `make`, exactly what
its tool has written from `build` on), and `AloneInv` that nobody else is then at
work there. `BystanderStep` shows that a step of one run changes of another's
folder at most what the first had made earlier, which is `Old` by then. This
gives `OwnBuildReleased`, `OutputKept` (a deletion that fails leaves nothing but
the run's own files, because nothing else was in the folder since `make`) and,
step by step, `OldKept`, for any number of processes and folders. `TargetsValid`
holds although `Found` has versions that semver refuses: whatever a run aims at
goes through `Read`, and is not changed before the server takes it.

*SDK calls.* A call has told its caller nothing until it is over, and the answer
that ends it settles what it says (`CallInv`), so that only what was never sent
can be over in silence; a release that waits finds its
object as it left it or is marked `mixed` (`MetaInv`). With `BystanderStep`, as
above, this gives `Truthful`, `OverIsTold` and `MetadataKept` for any number of
calls and objects.

*Command line.* The builders are put in a table (`Demand`), and `HereIs` shows
that a path finds its own entry of it. `OnTrack` says of a line that keeps to a
usage text that it is on the way to its builder with no help text printed: its
first word enters the category or the command (`NamesFirst`), below a category
the second does, since no category is also a second word (`NamesBelow`), and
below a command nothing more is entered (`NamesNone`), whatever names the line
gives. Then each rule of that builder holds, and `CaseFor` finds the case of
`createCommand` that needs no more words than the builder demanded. This gives
`UsageIsRun` for lines of any length over any words, where the run tries up to
five. `RulesRespected` goes the other way, from a command to the line: as long as
no help text is printed each rule that was checked held (`RuleInv`), the flags
say which builders were entered (`FlagInv`), what was made is made of these
words (`MadeInv`), and a line that starts with the words of a builder has entered
that one (`OnPath`). So a command that has a builder kept to its rules
(`RulesKeep`). For one without, the path is not that of any builder above the
commands, whose checks it would fail, and the word that ended it is some later
word of the line (`RulesFind`).

*Nothing goes back.* For every component a measure is proved to fall: `StepsLeft`
gives each place of a command the steps it can still take, and `CommandsEnd` (of
the session, the management commands and the project releases), `RunsEnd`,
`CallsEnd` and `LineEnds` say that each step of it lowers the measure and that no
step of another process, of the server or of a build changes it, but for an SDK
call, which another call can end with the process. A management command is
measured by its wave, of three, and by what is out in it. `ReadingsEnd`, of the
manifest, is of packages of any size: each step brings the walk, the release or
the reader nearer to its end (a file comes off its list, or more is done with the
one in work) and sets back none that comes before it. This is the safety half of
the liveness properties, for any number of processes and files; what is left to
TLC is that the steps are taken, which is where fairness comes in, and that one
is possible, which is a matter of `ENABLED`.

*Only model-checked:* the liveness properties `CommandsFinish` (of the session
and of the management commands), `ReleasesFinish`, `SentIsTold` and that of the
manifest: fairness is beyond the prover.

## Not modelled

Output formatting (tables, JSON, colours, dates), `debug.ts` (which starts adb or
reads simulator logs and prints lines), build files, typings and tests. Of the
commands: the lists that make one request and print it, `link`, and the
arithmetic of metrics, whose share of users is only text. Of the project
releases: the command lines the build tools are started with, and how a version
is found in a `.plist` or a manifest; whether semver takes what is found is told
apart. Of the acquisition SDK: which fields of an answer go where.
