---------------------------- MODULE PackageManifest ----------------------------
(***************************************************************************)
(* The two ways to hash a package: the walk over its directory, whose hash *)
(* is signed, and the event machine that reads the entries of the zip the  *)
(* release uploads, which the server runs to check that signature.         *)
(*                                                                         *)
(* cli/script/hash-utils.ts; what lies between the two, the signature file *)
(* and the zip, is from release-hooks/signing.ts and core-release.ts.      *)
(* The package does not change meanwhile: module Release is about builds   *)
(* that rewrite it.                                                        *)
(***************************************************************************)
EXTENDS Naturals

CONSTANTS
    Raw,        \* paths as a file system or an archive spells them
    Names,      \* paths with forward slashes
    Contents,   \* contents of files; a content stands for its hash
    Slash,      \* what the slash package makes of a path
    Normalize,  \* the path with a slash for each backslash
    Kind,       \* what isIgnored tells apart: code, or one of its three kinds
    Metadata,   \* the path of .appsyncrelease in the package
    Jwt         \* the content of that file

Kinds == {"code", "__MACOSX", "DS_Store", "appsyncrelease"}

ASSUME ManifestAssumption ==
    /\ Slash \in [Raw -> Raw]
    /\ Normalize \in [Raw -> Names]
    /\ \A r \in Raw : Normalize[Slash[r]] = Normalize[r]
    /\ Kind \in [Names -> Kinds]
    /\ Metadata \in Raw
    /\ Kind[Normalize[Metadata]] = "appsyncrelease"

VARIABLES
    dir,      \* the package: its files and what is in them
    dirState, \* the promise of generatePackageManifestFromDirectory
    todo,     \* files the reduce has not come to
    hashing,  \* the file being hashed, if any
    dirMap,   \* its fileHashesMap
    archive,  \* the entries of the zip, by the file each was made from
    zipFile,  \* the zip: not there, on disk, opened, closed
    zipState, \* the promise of generatePackageManifestFromZip
    rest,     \* entries the reader has not come to
    asked,    \* calls of readEntry that nothing has answered
    opening,  \* entries whose stream is being opened
    streams,  \* entries whose stream is being hashed
    ended,    \* the reader has emitted "end"
    zipMap    \* its fileHashesMap

dirVars == <<dirState, todo, hashing, dirMap>>
readVars == <<zipState, rest, asked, opening, streams, ended, zipMap>>
vars == <<dir, dirVars, archive, zipFile, readVars>>

\* Partial functions from A to B, and Map.set.
Partial(A, B) == UNION {[S -> B] : S \in SUBSET A}
Put(m, n, c) == [x \in DOMAIN m \cup {n} |-> IF x = n THEN c ELSE m[x]]
Empty == [x \in {} |-> x]

\* Slip: only the system's own files are ignored.
isIgnoredSystem(n) == Kind[n] \in {"__MACOSX", "DS_Store"}

isIgnored(n) == Kind[n] # "code"

\* PackageManifest.normalizePath of a file, and of the entry made from it.
FileName(r) == Normalize[r]
EntryName(r) == Normalize[Slash[r]]

\* entries.sort() leaves nothing of the order the map was filled in, and the
\* hash of the sorted "name:hash" pairs names the set of them.
computePackageHash(m) == {<<n, m[n]>> : n \in DOMAIN m}

TypeOK ==
    /\ dir \in Partial(Raw, Contents \cup {Jwt})
    /\ dirState \in {"idle", "pending", "resolved", "rejected"}
    /\ todo \subseteq DOMAIN dir
    /\ hashing \subseteq DOMAIN dir
    /\ dirMap \in Partial(Names, Contents \cup {Jwt})
    /\ archive \in Partial(Raw, Contents \cup {Jwt})
    /\ zipFile \in {"none", "onDisk", "open", "closed"}
    /\ zipState \in {"idle", "pending", "resolved", "null", "rejected"}
    /\ rest \subseteq DOMAIN archive
    /\ asked \in Nat
    /\ opening \subseteq DOMAIN archive
    /\ streams \subseteq DOMAIN archive
    /\ ended \in BOOLEAN
    /\ zipMap \in Partial(Names, Contents \cup {Jwt})

\* A signature left by an earlier release is deleted before the hashing.
Init ==
    /\ dir \in Partial(Raw \ {Metadata}, Contents)
    /\ dirState = "idle"
    /\ todo = {}
    /\ hashing = {}
    /\ dirMap = Empty
    /\ archive = Empty
    /\ zipFile = "none"
    /\ zipState = "idle"
    /\ rest = {}
    /\ asked = 0
    /\ opening = {}
    /\ streams = {}
    /\ ended = FALSE
    /\ zipMap = Empty

(* ------------------------------- the directory ------------------------- *)

\* readdirr has answered.  A package without files is refused.
ReadDir ==
    /\ dirState = "idle"
    /\ \/ /\ DOMAIN dir # {}
          /\ dirState' = "pending"
          /\ todo' = DOMAIN dir
       \/ /\ dirState' = "rejected"
          /\ UNCHANGED todo
    /\ UNCHANGED <<dir, hashing, dirMap, archive, zipFile, readVars>>

\* The reduce goes on to a file: one at a time, ignored ones at once.
HashNext(f) ==
    /\ dirState = "pending"
    /\ hashing = {}
    /\ f \in todo
    /\ todo' = todo \ {f}
    /\ hashing' = IF isIgnored(FileName(f)) THEN {} ELSE {f}
    /\ UNCHANGED <<dir, dirState, dirMap, archive, zipFile, readVars>>

\* Slip: the map is filled in under the path as it is spelled.
HashFileAsSpelled(f) ==
    /\ f \in hashing
    /\ hashing' = {}
    /\ dirMap' = Put(dirMap, f, dir[f])
    /\ UNCHANGED <<dir, dirState, todo, archive, zipFile, readVars>>

HashFile(f) ==
    /\ f \in hashing
    /\ hashing' = {}
    /\ dirMap' = Put(dirMap, FileName(f), dir[f])
    /\ UNCHANGED <<dir, dirState, todo, archive, zipFile, readVars>>

\* The rest of the chain is skipped.
HashFileFails ==
    /\ hashing # {}
    /\ hashing' = {}
    /\ todo' = {}
    /\ dirState' = "rejected"
    /\ UNCHANGED <<dir, dirMap, archive, zipFile, readVars>>

ResolveDir ==
    /\ dirState = "pending"
    /\ todo = {} /\ hashing = {}
    /\ dirState' = "resolved"
    /\ UNCHANGED <<dir, todo, hashing, dirMap, archive, zipFile, readVars>>

(* ------------------------- the signature and the zip ------------------- *)

\* The sign hook writes the signature of the hash into the package ...
Sign ==
    /\ dirState = "resolved"
    /\ Metadata \notin DOMAIN dir
    /\ dir' = Put(dir, Metadata, Jwt)
    /\ UNCHANGED <<dirVars, archive, zipFile, readVars>>

\* ... and the core hook zips what it then lists there.
Pack ==
    /\ Metadata \in DOMAIN dir
    /\ zipFile = "none"
    /\ archive' = dir
    /\ zipFile' = "onDisk"
    /\ UNCHANGED <<dir, dirVars, readVars>>

(* ------------------------------ the zip reader ------------------------- *)

Reject == zipState' = IF zipState = "pending" THEN "rejected" ELSE zipState

\* yauzl.open has answered: not a zip, or the first readEntry is called.
Open ==
    /\ zipFile = "onDisk"
    /\ zipState = "idle"
    /\ \/ /\ zipState' = "null"
          /\ UNCHANGED <<zipFile, rest, asked>>
       \/ /\ zipState' = "pending"
          /\ zipFile' = "open"
          /\ rest' = DOMAIN archive
          /\ asked' = 1
    /\ UNCHANGED <<dir, dirVars, archive, opening, streams, ended, zipMap>>

\* Slip: the next entry is asked for before this one is hashed, and again after.
EntryReadsAhead(e) ==
    /\ asked > 0
    /\ e \in rest
    /\ rest' = rest \ {e}
    /\ asked' = asked
    /\ opening' = IF isIgnored(EntryName(e)) THEN opening ELSE opening \cup {e}
    /\ UNCHANGED <<dir, dirVars, archive, zipFile, zipState, streams, ended, zipMap>>

\* The handler of "entry".
Entry(e) ==
    /\ asked > 0
    /\ e \in rest
    /\ rest' = rest \ {e}
    /\ IF isIgnored(EntryName(e))
       THEN UNCHANGED <<asked, opening>>
       ELSE /\ asked' = asked - 1
            /\ opening' = opening \cup {e}
    /\ UNCHANGED <<dir, dirVars, archive, zipFile, zipState, streams, ended, zipMap>>

\* The callback of openReadStream.
OpenStream(e) ==
    /\ e \in opening
    /\ opening' = opening \ {e}
    /\ \/ /\ streams' = streams \cup {e}
          /\ UNCHANGED zipState
       \/ /\ Reject
          /\ UNCHANGED streams
    /\ UNCHANGED <<dir, dirVars, archive, zipFile, rest, asked, ended, zipMap>>

\* hashStream has resolved.
HashEntry(e) ==
    /\ e \in streams
    /\ streams' = streams \ {e}
    /\ zipMap' = Put(zipMap, EntryName(e), archive[e])
    /\ asked' = asked + 1
    /\ UNCHANGED <<dir, dirVars, archive, zipFile, zipState, rest, opening, ended>>

\* hashStream has rejected: no further entry is asked for.
HashEntryFails(e) ==
    /\ e \in streams
    /\ streams' = streams \ {e}
    /\ Reject
    /\ UNCHANGED <<dir, dirVars, archive, zipFile, rest, asked, opening, ended, zipMap>>

\* yauzl closes the file itself before it emits "end" ...
End ==
    /\ asked > 0
    /\ rest = {}
    /\ asked' = asked - 1
    /\ ended' = TRUE
    /\ zipFile' = "closed"
    /\ UNCHANGED <<dir, dirVars, archive, zipState, rest, opening, streams, zipMap>>

\* ... and before "error", after which it is silent.
Error ==
    /\ asked > 0
    /\ rest # {}
    /\ asked' = 0
    /\ rest' = {}
    /\ zipFile' = "closed"
    /\ Reject
    /\ UNCHANGED <<dir, dirVars, archive, opening, streams, ended, zipMap>>

\* Slip: the promise is resolved with the entries there are when asked again.
ResolveZipEarly ==
    /\ zipFile = "open"
    /\ streams = {}
    /\ zipState = "pending"
    /\ zipState' = "resolved"
    /\ UNCHANGED <<dir, dirVars, archive, zipFile, rest, asked, opening, streams, ended, zipMap>>

\* q.all(hashFilePromises) after "end".
ResolveZip ==
    /\ ended
    /\ streams = {}
    /\ zipState = "pending"
    /\ zipState' = "resolved"
    /\ UNCHANGED <<dir, dirVars, archive, zipFile, rest, asked, opening, streams, ended, zipMap>>

\* Slip: the file is closed only after success.
CloseIfResolved ==
    /\ zipState = "resolved"
    /\ zipFile = "open"
    /\ zipFile' = "closed"
    /\ UNCHANGED <<dir, dirVars, archive, readVars>>

\* deferred.promise.finally
Close ==
    /\ zipState \in {"resolved", "rejected"}
    /\ zipFile = "open"
    /\ zipFile' = "closed"
    /\ UNCHANGED <<dir, dirVars, archive, readVars>>

(* ----------------------------------------------------------------------- *)

Next ==
    \/ ReadDir
    \/ \E f \in DOMAIN dir : HashNext(f) \/ HashFile(f)
    \/ HashFileFails
    \/ ResolveDir
    \/ Sign
    \/ Pack
    \/ Open
    \/ \E e \in DOMAIN archive :
          Entry(e) \/ OpenStream(e) \/ HashEntry(e) \/ HashEntryFails(e)
    \/ End
    \/ Error
    \/ ResolveZip
    \/ Close

Spec == Init /\ [][Next]_vars

\* Callbacks run, and yauzl and the file system answer in the end.
LiveSpec == Spec /\ WF_vars(Next)

(* ------------------------------- properties ---------------------------- *)

\* The files of S that count, and what a manifest of them is: a name for each
\* of them, with the content of one that has this name.
Counted(S) == {r \in S : Kind[FileName(r)] = "code"}
ManifestOf(m, S, content) ==
    /\ DOMAIN m = {FileName(r) : r \in Counted(S)}
    /\ \A n \in DOMAIN m :
          \E r \in Counted(S) : FileName(r) = n /\ m[n] = content[r]

\* No two files have names that differ in slashes only.
Distinct(S) == \A r1, r2 \in Counted(S) : FileName(r1) = FileName(r2) => r1 = r2

\* The hash that was signed is the hash the server computes from the zip,
\* although the signature itself, and ignored files, are in the zip too.
SameHash ==
    (zipState = "resolved" /\ Distinct(DOMAIN archive))
        => computePackageHash(zipMap) = computePackageHash(dirMap)

\* A manifest that is handed out names every file of the zip that counts and
\* no other, although entries come one by one, some ignored, and any may fail.
ManifestIsWhole ==
    /\ zipState = "resolved" => ManifestOf(zipMap, DOMAIN archive, archive)
    /\ dirState = "resolved" => ManifestOf(dirMap, DOMAIN dir, dir)

\* The reader is asked for an entry, opens one or hashes one, never two of
\* these; nothing of it is left when the promise is settled or the file closed,
\* where openReadStream would throw in an event handler that nobody guards.
OneAtATime ==
    /\ asked \in {0, 1}
    /\ asked = 1 => opening = {} /\ streams = {}
    /\ opening # {} => streams = {}
    /\ \A e, f \in opening \cup streams : e = f
    /\ (zipFile = "closed" \/ zipState \in {"resolved", "rejected"})
          => asked = 0 /\ opening = {} /\ streams = {}

\* A walk that has begun is settled; so is a zip that was opened, and its file
\* is closed, on every path through errors and ignored entries.
HashingSettles ==
    /\ dirState = "pending" ~> dirState \in {"resolved", "rejected"}
    /\ zipFile = "open" ~> zipFile = "closed" /\ zipState \in {"resolved", "rejected"}

=============================================================================
