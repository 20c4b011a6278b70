------------------------- MODULE PackageManifestProofs -------------------------
(***************************************************************************)
(* Proofs about PackageManifest, for any paths, contents and packages.     *)
(***************************************************************************)
EXTENDS PackageManifest, TLAPS

\* The files the walk is done with, and the entries the reader is done with.
Walked == DOMAIN dir \ (todo \cup hashing)
Read == DOMAIN archive \ (rest \cup opening \cup streams)

\* The walk: idle, or its map is the manifest of what it has come past.
WalkInv ==
    /\ dirState = "idle" => todo = {} /\ hashing = {} /\ dirMap = Empty
    /\ dirState = "resolved" => todo = {}
    /\ hashing # {} => dirState = "pending"
    /\ hashing \subseteq Counted(DOMAIN dir)
    /\ hashing \cap todo = {}
    /\ \A e, f \in hashing : e = f
    /\ dirState \in {"pending", "resolved"} => ManifestOf(dirMap, Walked, dir)
    /\ Metadata \in DOMAIN dir => dirState = "resolved"

\* The zip holds what was signed, and the signature.
PackInv ==
    /\ zipFile = "none" => archive = Empty /\ zipState = "idle"
    /\ zipFile # "none" => archive = dir /\ dirState = "resolved" /\ Metadata \in DOMAIN dir

\* The reader has one thing to do while its promise is pending and its file
\* open, and nothing otherwise; its map is the manifest of what it has read.
ReaderInv ==
    /\ zipState \in {"idle", "null"}
         => zipFile \in {"none", "onDisk"} /\ rest = {} /\ ~ended
    /\ asked = 1 \/ opening # {} \/ streams # {}
         => zipFile = "open" /\ zipState = "pending" /\ ~ended
    /\ zipFile \in {"none", "onDisk"} => zipState \in {"idle", "null"}
    /\ zipFile = "open" => ~ended
    /\ zipState = "pending" /\ zipFile = "closed" => ended
    /\ ended => rest = {} /\ zipFile = "closed"
    /\ zipState = "resolved" => ended
    /\ rest \cap (opening \cup streams) = {}
    /\ opening \cup streams \subseteq Counted(DOMAIN archive)
    /\ zipState = "idle" => zipMap = Empty
    /\ zipState \in {"pending", "resolved"} => ManifestOf(zipMap, Read, archive)

Inv == TypeOK /\ OneAtATime /\ WalkInv /\ PackInv /\ ReaderInv

-----------------------------------------------------------------------------
(* Map.set adds one name and leaves the others. *)
LEMMA PutFacts ==
    ASSUME NEW m, NEW n, NEW c
    PROVE  /\ DOMAIN Put(m, n, c) = DOMAIN m \cup {n}
           /\ Put(m, n, c)[n] = c
           /\ \A x \in DOMAIN m : x # n => Put(m, n, c)[x] = m[x]
BY DEF Put

LEMMA PutPartial ==
    ASSUME NEW A, NEW B, NEW m \in Partial(A, B), NEW n \in A, NEW c \in B
    PROVE  Put(m, n, c) \in Partial(A, B)
<1>1. PICK S \in SUBSET A : m \in [S -> B]
  BY DEF Partial
<1>2. Put(m, n, c) \in [S \cup {n} -> B]
  BY <1>1 DEF Put
<1>3. S \cup {n} \in SUBSET A
  OBVIOUS
<1>4. QED
  BY <1>2, <1>3 DEF Partial

(* A partial function maps what is in its domain into its range. *)
LEMMA PartialApply ==
    ASSUME NEW A, NEW B, NEW m \in Partial(A, B)
    PROVE  DOMAIN m \subseteq A /\ \A x \in DOMAIN m : m[x] \in B
BY DEF Partial

LEMMA EmptyPartial ==
    ASSUME NEW A, NEW B
    PROVE  Empty \in Partial(A, B) /\ DOMAIN Empty = {}
<1>1. Empty \in [{} -> B]
  BY DEF Empty
<1>2. QED
  BY <1>1 DEF Partial

(* A manifest of S and one more file that counts is the manifest of S with *)
(* this file's name set, whether or not another file had the same name.    *)
LEMMA ManifestPut ==
    ASSUME NEW m, NEW S, NEW content, NEW r, Kind[FileName(r)] = "code",
           ManifestOf(m, S, content)
    PROVE  ManifestOf(Put(m, FileName(r), content[r]), S \cup {r}, content)
<1> DEFINE p == Put(m, FileName(r), content[r])
<1>0. /\ DOMAIN p = DOMAIN m \cup {FileName(r)}
      /\ p[FileName(r)] = content[r]
      /\ \A x \in DOMAIN m : x # FileName(r) => p[x] = m[x]
  BY DEF Put
<1> HIDE DEF p
<1>1. Counted(S \cup {r}) = Counted(S) \cup {r}
  BY DEF Counted
<1>2. DOMAIN p = {FileName(q) : q \in Counted(S \cup {r})}
  <2>2. DOMAIN m = {FileName(q) : q \in Counted(S)}
    BY DEF ManifestOf
  <2>3. {FileName(q) : q \in Counted(S) \cup {r}}
          = {FileName(q) : q \in Counted(S)} \cup {FileName(r)}
    OBVIOUS
  <2>4. QED
    BY <1>0, <1>1, <2>2, <2>3
<1>3. ASSUME NEW n \in DOMAIN p
      PROVE  \E q \in Counted(S \cup {r}) : FileName(q) = n /\ p[n] = content[q]
  <2>1. CASE n = FileName(r)
    BY <2>1, <1>0, <1>1
  <2>2. CASE n # FileName(r)
    <3>1. n \in DOMAIN m /\ p[n] = m[n]
      BY <2>2, <1>0
    <3>2. QED
      BY <3>1, <1>1 DEF ManifestOf
  <2>3. QED
    BY <2>1, <2>2
<1>4. ManifestOf(p, S \cup {r}, content)
  BY <1>2, <1>3 DEF ManifestOf
<1>5. QED
  BY <1>4 DEF p

(* Only the files that count matter to a manifest, and their contents. *)
LEMMA ManifestSame ==
    ASSUME NEW m, NEW S, NEW T, NEW c, NEW d, Counted(S) = Counted(T),
           \A r \in Counted(S) : c[r] = d[r], ManifestOf(m, S, c)
    PROVE  ManifestOf(m, T, d)
BY DEF ManifestOf

LEMMA ManifestEmpty ==
    ASSUME NEW c PROVE ManifestOf(Empty, {}, c)
BY DEF ManifestOf, Counted, Empty

(* The name of an entry is the name of its file. *)
LEMMA EntryNames ==
    ASSUME NEW r \in Raw PROVE EntryName(r) = FileName(r) /\ FileName(r) \in Names
BY ManifestAssumption DEF EntryName, FileName

(* The signature file does not count. *)
LEMMA SignatureIgnored ==
    ASSUME NEW S PROVE Counted(S \cup {Metadata}) = Counted(S)
BY ManifestAssumption DEF Counted, FileName

(* Every variable keeps its type. *)
LEMMA TypeStep ==
    ASSUME Inv, Next PROVE TypeOK'
<1>1. ASSUME ReadDir
      PROVE  TypeOK'
  BY <1>1 DEF ReadDir, Inv, TypeOK, OneAtATime, Reject, dirVars, readVars
<1>2. ASSUME NEW f \in DOMAIN dir, HashNext(f)
      PROVE  TypeOK'
  BY <1>2 DEF HashNext, Inv, TypeOK, OneAtATime, Reject, dirVars, readVars
<1>3. ASSUME NEW f \in DOMAIN dir, HashFile(f)
      PROVE  TypeOK'
  <2>1. f \in Raw /\ dir[f] \in Contents \cup {Jwt}
    BY PartialApply DEF Inv, TypeOK
  <2>2. Put(dirMap, FileName(f), dir[f]) \in Partial(Names, Contents \cup {Jwt})
    BY <2>1, PutPartial, EntryNames DEF Inv, TypeOK
  <2>3. QED
    BY <1>3, <2>2 DEF HashFile, Inv, TypeOK, readVars
<1>4. ASSUME HashFileFails
      PROVE  TypeOK'
  BY <1>4 DEF HashFileFails, Inv, TypeOK, OneAtATime, Reject, dirVars, readVars
<1>5. ASSUME ResolveDir
      PROVE  TypeOK'
  BY <1>5 DEF ResolveDir, Inv, TypeOK, OneAtATime, Reject, dirVars, readVars
<1>6. ASSUME Sign
      PROVE  TypeOK'
  <2>1. Put(dir, Metadata, Jwt) \in Partial(Raw, Contents \cup {Jwt})
    BY PutPartial, ManifestAssumption DEF Inv, TypeOK
  <2>2. DOMAIN Put(dir, Metadata, Jwt) = DOMAIN dir \cup {Metadata}
    BY DEF Put
  <2>3. QED
    BY <1>6, <2>1, <2>2 DEF Sign, Inv, TypeOK, dirVars, readVars
<1>7. ASSUME Pack
      PROVE  TypeOK'
  <2>1. rest = {} /\ opening = {} /\ streams = {}
    BY <1>7 DEF Pack, Inv, PackInv, ReaderInv, OneAtATime
  <2>2. QED
    BY <1>7, <2>1 DEF Pack, Inv, TypeOK, dirVars, readVars
<1>8. ASSUME Open
      PROVE  TypeOK'
  BY <1>8 DEF Open, Inv, TypeOK, OneAtATime, Reject, dirVars, readVars
<1>9. ASSUME NEW e \in DOMAIN archive, Entry(e)
      PROVE  TypeOK'
  BY <1>9 DEF Entry, Inv, TypeOK, OneAtATime, Reject, dirVars, readVars
<1>10. ASSUME NEW e \in DOMAIN archive, OpenStream(e)
      PROVE  TypeOK'
  BY <1>10 DEF OpenStream, Inv, TypeOK, OneAtATime, Reject, dirVars, readVars
<1>11. ASSUME NEW e \in DOMAIN archive, HashEntry(e)
      PROVE  TypeOK'
  <2>1. e \in Raw /\ archive[e] \in Contents \cup {Jwt}
    BY PartialApply DEF Inv, TypeOK
  <2>2. Put(zipMap, EntryName(e), archive[e]) \in Partial(Names, Contents \cup {Jwt})
    BY <2>1, PutPartial, EntryNames DEF Inv, TypeOK
  <2>3. QED
    BY <1>11, <2>2 DEF HashEntry, Inv, TypeOK, dirVars
<1>12. ASSUME NEW e \in DOMAIN archive, HashEntryFails(e)
      PROVE  TypeOK'
  BY <1>12 DEF HashEntryFails, Inv, TypeOK, OneAtATime, Reject, dirVars, readVars
<1>13. ASSUME End
      PROVE  TypeOK'
  BY <1>13 DEF End, Inv, TypeOK, OneAtATime, Reject, dirVars, readVars
<1>14. ASSUME Error
      PROVE  TypeOK'
  BY <1>14 DEF Error, Inv, TypeOK, OneAtATime, Reject, dirVars, readVars
<1>15. ASSUME ResolveZip
      PROVE  TypeOK'
  BY <1>15 DEF ResolveZip, Inv, TypeOK, OneAtATime, Reject, dirVars, readVars
<1>16. ASSUME Close
      PROVE  TypeOK'
  BY <1>16 DEF Close, Inv, TypeOK, OneAtATime, Reject, dirVars, readVars
<1>17. QED
  BY <1>1, <1>2, <1>3, <1>4, <1>5, <1>6, <1>7, <1>8, <1>9, <1>10, <1>11, <1>12, <1>13, <1>14, <1>15, <1>16
     DEF Next

(* The reader asks for an entry only when it has hashed or skipped the last *)
(* one, so nothing is under way when its promise is settled.                *)
LEMMA TurnStep ==
    ASSUME Inv, Next PROVE OneAtATime'
<1>1. ASSUME ReadDir
      PROVE  OneAtATime'
  BY <1>1 DEF ReadDir, Inv, TypeOK, OneAtATime, ReaderInv, PackInv, Reject, dirVars, readVars
<1>2. ASSUME NEW f \in DOMAIN dir, HashNext(f)
      PROVE  OneAtATime'
  BY <1>2 DEF HashNext, Inv, TypeOK, OneAtATime, ReaderInv, PackInv, Reject, dirVars, readVars
<1>3. ASSUME NEW f \in DOMAIN dir, HashFile(f)
      PROVE  OneAtATime'
  BY <1>3 DEF HashFile, Inv, TypeOK, OneAtATime, ReaderInv, PackInv, Reject, dirVars, readVars
<1>4. ASSUME HashFileFails
      PROVE  OneAtATime'
  BY <1>4 DEF HashFileFails, Inv, TypeOK, OneAtATime, ReaderInv, PackInv, Reject, dirVars, readVars
<1>5. ASSUME ResolveDir
      PROVE  OneAtATime'
  BY <1>5 DEF ResolveDir, Inv, TypeOK, OneAtATime, ReaderInv, PackInv, Reject, dirVars, readVars
<1>6. ASSUME Sign
      PROVE  OneAtATime'
  BY <1>6 DEF Sign, Inv, TypeOK, OneAtATime, ReaderInv, PackInv, Reject, dirVars, readVars
<1>7. ASSUME Pack
      PROVE  OneAtATime'
  BY <1>7 DEF Pack, Inv, TypeOK, OneAtATime, ReaderInv, PackInv, Reject, dirVars, readVars
<1>8. ASSUME Open
      PROVE  OneAtATime'
  BY <1>8 DEF Open, Inv, TypeOK, OneAtATime, ReaderInv, PackInv, Reject, dirVars, readVars
<1>9. ASSUME NEW e \in DOMAIN archive, Entry(e)
      PROVE  OneAtATime'
  BY <1>9 DEF Entry, Inv, TypeOK, OneAtATime, ReaderInv, PackInv, Reject, dirVars, readVars
<1>10. ASSUME NEW e \in DOMAIN archive, OpenStream(e)
      PROVE  OneAtATime'
  BY <1>10 DEF OpenStream, Inv, TypeOK, OneAtATime, ReaderInv, PackInv, Reject, dirVars, readVars
<1>11. ASSUME NEW e \in DOMAIN archive, HashEntry(e)
      PROVE  OneAtATime'
  BY <1>11 DEF HashEntry, Inv, TypeOK, OneAtATime, ReaderInv, PackInv, Reject, dirVars, readVars
<1>12. ASSUME NEW e \in DOMAIN archive, HashEntryFails(e)
      PROVE  OneAtATime'
  BY <1>12 DEF HashEntryFails, Inv, TypeOK, OneAtATime, ReaderInv, PackInv, Reject, dirVars, readVars
<1>13. ASSUME End
      PROVE  OneAtATime'
  BY <1>13 DEF End, Inv, TypeOK, OneAtATime, ReaderInv, PackInv, Reject, dirVars, readVars
<1>14. ASSUME Error
      PROVE  OneAtATime'
  BY <1>14 DEF Error, Inv, TypeOK, OneAtATime, ReaderInv, PackInv, Reject, dirVars, readVars
<1>15. ASSUME ResolveZip
      PROVE  OneAtATime'
  BY <1>15 DEF ResolveZip, Inv, TypeOK, OneAtATime, ReaderInv, PackInv, Reject, dirVars, readVars
<1>16. ASSUME Close
      PROVE  OneAtATime'
  BY <1>16 DEF Close, Inv, TypeOK, OneAtATime, ReaderInv, PackInv, Reject, dirVars, readVars
<1>17. QED
  BY <1>1, <1>2, <1>3, <1>4, <1>5, <1>6, <1>7, <1>8, <1>9, <1>10, <1>11, <1>12, <1>13, <1>14, <1>15, <1>16
     DEF Next

(* The walk's map stays the manifest of the files it has come past. *)
LEMMA WalkStep ==
    ASSUME Inv, Next PROVE WalkInv'
<1>1. ASSUME ReadDir
      PROVE  WalkInv'
  <2>1. CASE dirState' = "pending"
    <3>1. Walked' = {} /\ dirMap' = Empty
      BY <1>1, <2>1 DEF ReadDir, Inv, WalkInv, Walked
    <3>2. ManifestOf(dirMap', Walked', dir')
      BY <3>1, ManifestEmpty
    <3>3. QED
      BY <1>1, <2>1, <3>1, <3>2 DEF ReadDir, Inv, WalkInv
  <2>2. CASE dirState' = "rejected"
    BY <1>1, <2>2 DEF ReadDir, Inv, WalkInv
  <2>3. QED
    BY <1>1, <2>1, <2>2 DEF ReadDir
<1>2. ASSUME NEW f \in DOMAIN dir, HashNext(f)
      PROVE  WalkInv'
  <2>1. CASE isIgnored(FileName(f))
    <3>1. Walked' = Walked \cup {f}
      BY <1>2, <2>1 DEF HashNext, Inv, WalkInv, Walked, TypeOK
    <3>2. Counted(Walked') = Counted(Walked)
      BY <2>1, <3>1 DEF Counted, isIgnored
    <3>3. ManifestOf(dirMap', Walked', dir')
      BY <1>2, <3>2, ManifestSame DEF HashNext, Inv, WalkInv
    <3>4. QED
      BY <1>2, <2>1, <3>3 DEF HashNext, Inv, WalkInv
  <2>2. CASE ~isIgnored(FileName(f))
    <3>1. Walked' = Walked
      BY <1>2, <2>2 DEF HashNext, Inv, WalkInv, Walked, TypeOK
    <3>2. f \in Counted(DOMAIN dir)
      BY <2>2 DEF Counted, isIgnored
    <3>3. ManifestOf(dirMap', Walked', dir')
      BY <1>2, <3>1 DEF HashNext, Inv, WalkInv
    <3>4. QED
      BY <1>2, <2>2, <3>2, <3>3 DEF HashNext, Inv, WalkInv
  <2>3. QED
    BY <2>1, <2>2
<1>3. ASSUME NEW f \in DOMAIN dir, HashFile(f)
      PROVE  WalkInv'
  <2>1. hashing = {f} /\ f \notin todo /\ Kind[FileName(f)] = "code"
    BY <1>3 DEF HashFile, Inv, WalkInv, Counted
  <2>2. Walked' = Walked \cup {f}
    BY <1>3, <2>1 DEF HashFile, Walked
  <2>3. ManifestOf(dirMap', Walked', dir')
    BY <1>3, <2>1, <2>2, ManifestPut DEF HashFile, Inv, WalkInv
  <2>4. QED
    BY <1>3, <2>3 DEF HashFile, Inv, WalkInv
<1>4. ASSUME HashFileFails
      PROVE  WalkInv'
  BY <1>4 DEF HashFileFails, Inv, WalkInv, Walked, dirVars
<1>5. ASSUME ResolveDir
      PROVE  WalkInv'
  BY <1>5 DEF ResolveDir, Inv, WalkInv, Walked, dirVars
<1>6. ASSUME Sign
      PROVE  WalkInv'
  <2>1. DOMAIN dir' = DOMAIN dir \cup {Metadata} /\ \A r \in DOMAIN dir : dir'[r] = dir[r]
    BY <1>6 DEF Sign, Put
  <2>2. todo = {} /\ hashing = {}
    BY <1>6 DEF Sign, Inv, WalkInv
  <2>3. Walked' = Walked \cup {Metadata} /\ Walked = DOMAIN dir
    BY <1>6, <2>1, <2>2 DEF Sign, Walked, dirVars
  <2>4. Counted(Walked') = Counted(Walked)
    BY <2>3, SignatureIgnored
  <2>5. \A r \in Counted(Walked) : dir[r] = dir'[r]
    BY <2>1, <2>3 DEF Counted
  <2>6. ManifestOf(dirMap', Walked', dir')
    BY <1>6, <2>4, <2>5, ManifestSame DEF Sign, Inv, WalkInv, dirVars
  <2>7. QED
    BY <1>6, <2>2, <2>6 DEF Sign, Inv, WalkInv, dirVars
<1>7. ASSUME Pack
      PROVE  WalkInv'
  BY <1>7 DEF Pack, Inv, WalkInv, Walked, dirVars
<1>8. ASSUME Open
      PROVE  WalkInv'
  BY <1>8 DEF Open, Inv, WalkInv, Walked, dirVars
<1>9. ASSUME NEW e \in DOMAIN archive, Entry(e)
      PROVE  WalkInv'
  BY <1>9 DEF Entry, Inv, WalkInv, Walked, dirVars
<1>10. ASSUME NEW e \in DOMAIN archive, OpenStream(e)
      PROVE  WalkInv'
  BY <1>10 DEF OpenStream, Inv, WalkInv, Walked, dirVars
<1>11. ASSUME NEW e \in DOMAIN archive, HashEntry(e)
      PROVE  WalkInv'
  BY <1>11 DEF HashEntry, Inv, WalkInv, Walked, dirVars
<1>12. ASSUME NEW e \in DOMAIN archive, HashEntryFails(e)
      PROVE  WalkInv'
  BY <1>12 DEF HashEntryFails, Inv, WalkInv, Walked, dirVars
<1>13. ASSUME End
      PROVE  WalkInv'
  BY <1>13 DEF End, Inv, WalkInv, Walked, dirVars
<1>14. ASSUME Error
      PROVE  WalkInv'
  BY <1>14 DEF Error, Inv, WalkInv, Walked, dirVars
<1>15. ASSUME ResolveZip
      PROVE  WalkInv'
  BY <1>15 DEF ResolveZip, Inv, WalkInv, Walked, dirVars
<1>16. ASSUME Close
      PROVE  WalkInv'
  BY <1>16 DEF Close, Inv, WalkInv, Walked, dirVars
<1>17. QED
  BY <1>1, <1>2, <1>3, <1>4, <1>5, <1>6, <1>7, <1>8, <1>9, <1>10, <1>11, <1>12, <1>13, <1>14, <1>15, <1>16
     DEF Next

(* Nothing is hashed or written after the zip is made, so the zip stays what *)
(* the directory is.                                                         *)
LEMMA PackStep ==
    ASSUME Inv, Next PROVE PackInv'
<1>1. ASSUME ReadDir
      PROVE  PackInv'
  BY <1>1 DEF ReadDir, Inv, WalkInv, PackInv, ReaderInv, OneAtATime, dirVars, readVars
<1>2. ASSUME NEW f \in DOMAIN dir, HashNext(f)
      PROVE  PackInv'
  BY <1>2 DEF HashNext, Inv, WalkInv, PackInv, ReaderInv, OneAtATime, dirVars, readVars
<1>3. ASSUME NEW f \in DOMAIN dir, HashFile(f)
      PROVE  PackInv'
  BY <1>3 DEF HashFile, Inv, WalkInv, PackInv, ReaderInv, OneAtATime, dirVars, readVars
<1>4. ASSUME HashFileFails
      PROVE  PackInv'
  BY <1>4 DEF HashFileFails, Inv, WalkInv, PackInv, ReaderInv, OneAtATime, dirVars, readVars
<1>5. ASSUME ResolveDir
      PROVE  PackInv'
  BY <1>5 DEF ResolveDir, Inv, WalkInv, PackInv, ReaderInv, OneAtATime, dirVars, readVars
<1>6. ASSUME Sign
      PROVE  PackInv'
  BY <1>6 DEF Sign, Inv, WalkInv, PackInv, ReaderInv, OneAtATime, dirVars, readVars
<1>7. ASSUME Pack
      PROVE  PackInv'
  BY <1>7 DEF Pack, Inv, WalkInv, PackInv, ReaderInv, OneAtATime, dirVars, readVars
<1>8. ASSUME Open
      PROVE  PackInv'
  BY <1>8 DEF Open, Inv, WalkInv, PackInv, ReaderInv, OneAtATime, dirVars, readVars
<1>9. ASSUME NEW e \in DOMAIN archive, Entry(e)
      PROVE  PackInv'
  BY <1>9 DEF Entry, Inv, WalkInv, PackInv, ReaderInv, OneAtATime, dirVars, readVars
<1>10. ASSUME NEW e \in DOMAIN archive, OpenStream(e)
      PROVE  PackInv'
  BY <1>10 DEF OpenStream, Inv, WalkInv, PackInv, ReaderInv, OneAtATime, dirVars, readVars
<1>11. ASSUME NEW e \in DOMAIN archive, HashEntry(e)
      PROVE  PackInv'
  BY <1>11 DEF HashEntry, Inv, WalkInv, PackInv, ReaderInv, OneAtATime, dirVars, readVars
<1>12. ASSUME NEW e \in DOMAIN archive, HashEntryFails(e)
      PROVE  PackInv'
  BY <1>12 DEF HashEntryFails, Inv, WalkInv, PackInv, ReaderInv, OneAtATime, dirVars, readVars
<1>13. ASSUME End
      PROVE  PackInv'
  BY <1>13 DEF End, Inv, WalkInv, PackInv, ReaderInv, OneAtATime, dirVars, readVars
<1>14. ASSUME Error
      PROVE  PackInv'
  BY <1>14 DEF Error, Inv, WalkInv, PackInv, ReaderInv, OneAtATime, dirVars, readVars
<1>15. ASSUME ResolveZip
      PROVE  PackInv'
  BY <1>15 DEF ResolveZip, Inv, WalkInv, PackInv, ReaderInv, OneAtATime, dirVars, readVars
<1>16. ASSUME Close
      PROVE  PackInv'
  BY <1>16 DEF Close, Inv, WalkInv, PackInv, ReaderInv, OneAtATime, dirVars, readVars
<1>17. QED
  BY <1>1, <1>2, <1>3, <1>4, <1>5, <1>6, <1>7, <1>8, <1>9, <1>10, <1>11, <1>12, <1>13, <1>14, <1>15, <1>16
     DEF Next

(* The reader's map stays the manifest of the entries it has come past, and *)
(* the places of its promise and its file agree.                             *)
LEMMA ReaderStep ==
    ASSUME Inv, Next PROVE ReaderInv'
<1>1. ASSUME ReadDir
      PROVE  ReaderInv'
  BY <1>1 DEF ReadDir, Inv, ReaderInv, PackInv, OneAtATime, TypeOK, Read, Reject, readVars
<1>2. ASSUME NEW f \in DOMAIN dir, HashNext(f)
      PROVE  ReaderInv'
  BY <1>2 DEF HashNext, Inv, ReaderInv, PackInv, OneAtATime, TypeOK, Read, Reject, readVars
<1>3. ASSUME NEW f \in DOMAIN dir, HashFile(f)
      PROVE  ReaderInv'
  BY <1>3 DEF HashFile, Inv, ReaderInv, PackInv, OneAtATime, TypeOK, Read, Reject, readVars
<1>4. ASSUME HashFileFails
      PROVE  ReaderInv'
  BY <1>4 DEF HashFileFails, Inv, ReaderInv, PackInv, OneAtATime, TypeOK, Read, Reject, readVars
<1>5. ASSUME ResolveDir
      PROVE  ReaderInv'
  BY <1>5 DEF ResolveDir, Inv, ReaderInv, PackInv, OneAtATime, TypeOK, Read, Reject, readVars
<1>6. ASSUME Sign
      PROVE  ReaderInv'
  BY <1>6 DEF Sign, Inv, ReaderInv, PackInv, OneAtATime, TypeOK, Read, Reject, readVars
<1>7. ASSUME Pack
      PROVE  ReaderInv'
  <2>1. rest = {} /\ opening = {} /\ streams = {} /\ zipState = "idle"
    BY <1>7 DEF Pack, Inv, PackInv, ReaderInv, OneAtATime
  <2>2. QED
    BY <1>7, <2>1 DEF Pack, Inv, ReaderInv, readVars
<1>8. ASSUME Open
      PROVE  ReaderInv'
  <2>1. asked = 0 /\ opening = {} /\ streams = {}
    BY <1>8 DEF Open, Inv, ReaderInv, OneAtATime
  <2>2. CASE zipState' = "null"
    BY <1>8, <2>1, <2>2 DEF Open, Inv, ReaderInv
  <2>3. CASE zipState' = "pending"
    <3>1. Read' = {} /\ zipMap' = Empty
      BY <1>8, <2>3 DEF Open, Inv, ReaderInv, Read
    <3>2. ManifestOf(zipMap', Read', archive')
      BY <3>1, ManifestEmpty
    <3>3. QED
      BY <1>8, <2>1, <2>3, <3>2 DEF Open, Inv, ReaderInv
  <2>4. QED
    BY <1>8, <2>2, <2>3 DEF Open
<1>9. ASSUME NEW e \in DOMAIN archive, Entry(e)
      PROVE  ReaderInv'
  <2>1. e \in Raw /\ EntryName(e) = FileName(e)
    BY PartialApply, EntryNames DEF Inv, TypeOK
  <2>2. asked = 1 /\ opening = {} /\ streams = {} /\ zipState = "pending" /\ zipFile = "open"
    BY <1>9 DEF Entry, Inv, OneAtATime, ReaderInv
  <2>3. CASE isIgnored(EntryName(e))
    <3>1. Read' = Read \cup {e}
      BY <1>9, <2>2, <2>3 DEF Entry, Inv, Read
    <3>2. Counted(Read') = Counted(Read)
      BY <2>1, <2>3, <3>1 DEF Counted, isIgnored
    <3>3. ManifestOf(zipMap', Read', archive')
      BY <1>9, <2>2, <3>2, ManifestSame DEF Entry, Inv, ReaderInv
    <3>4. QED
      BY <1>9, <2>2, <2>3, <3>3 DEF Entry, Inv, ReaderInv
  <2>4. CASE ~isIgnored(EntryName(e))
    <3>1. Read' = Read /\ opening' = {e} /\ asked' = 0
      BY <1>9, <2>2, <2>4 DEF Entry, Inv, Read
    <3>2. e \in Counted(DOMAIN archive)
      BY <2>1, <2>4 DEF Counted, isIgnored
    <3>3. ManifestOf(zipMap', Read', archive')
      BY <1>9, <2>2, <3>1 DEF Entry, Inv, ReaderInv
    <3>4. QED
      BY <1>9, <2>2, <2>4, <3>1, <3>2, <3>3 DEF Entry, Inv, ReaderInv
  <2>5. QED
    BY <2>3, <2>4
<1>10. ASSUME NEW e \in DOMAIN archive, OpenStream(e)
      PROVE  ReaderInv'
  <2>1. /\ asked = 0 /\ opening = {e} /\ streams = {}
        /\ zipState = "pending" /\ zipFile = "open" /\ ~ended
    BY <1>10 DEF OpenStream, Inv, OneAtATime, ReaderInv, TypeOK
  <2>2. CASE streams' = {e} /\ zipState' = "pending"
    <3>1. Read' = Read
      BY <1>10, <2>1, <2>2 DEF OpenStream, Read
    <3>2. ManifestOf(zipMap', Read', archive')
      BY <1>10, <2>1, <3>1 DEF OpenStream, Inv, ReaderInv
    <3>3. QED
      BY <1>10, <2>1, <2>2, <3>2 DEF OpenStream, Inv, ReaderInv
  <2>3. CASE streams' = {} /\ zipState' = "rejected"
    BY <1>10, <2>1, <2>3 DEF OpenStream, Inv, ReaderInv
  <2>4. QED
    BY <1>10, <2>1, <2>2, <2>3 DEF OpenStream, Reject
<1>11. ASSUME NEW e \in DOMAIN archive, HashEntry(e)
      PROVE  ReaderInv'
  <2>1. /\ asked = 0 /\ opening = {} /\ streams = {e}
        /\ zipState = "pending" /\ zipFile = "open" /\ ~ended
    BY <1>11 DEF HashEntry, Inv, OneAtATime, ReaderInv, TypeOK
  <2>2. EntryName(e) = FileName(e) /\ Kind[FileName(e)] = "code"
    BY <1>11, PartialApply, EntryNames DEF HashEntry, Inv, TypeOK, ReaderInv, Counted
  <2>3. e \notin rest
    BY <1>11 DEF HashEntry, Inv, ReaderInv
  <2>4. Read' = Read \cup {e}
    BY <1>11, <2>1, <2>3 DEF HashEntry, Read
  <2>5. ManifestOf(zipMap', Read', archive')
    BY <1>11, <2>1, <2>2, <2>4, ManifestPut DEF HashEntry, Inv, ReaderInv
  <2>6. QED
    BY <1>11, <2>1, <2>5 DEF HashEntry, Inv, ReaderInv
<1>12. ASSUME NEW e \in DOMAIN archive, HashEntryFails(e)
      PROVE  ReaderInv'
  <2>1. /\ asked = 0 /\ opening = {} /\ streams = {e}
        /\ zipState = "pending" /\ zipFile = "open" /\ ~ended
    BY <1>12 DEF HashEntryFails, Inv, OneAtATime, ReaderInv, TypeOK
  <2>2. QED
    BY <1>12, <2>1 DEF HashEntryFails, Inv, ReaderInv, Reject
<1>13. ASSUME End
      PROVE  ReaderInv'
  <2>1. /\ asked = 1 /\ opening = {} /\ streams = {}
        /\ zipState = "pending" /\ zipFile = "open"
    BY <1>13 DEF End, Inv, OneAtATime, ReaderInv
  <2>2. ManifestOf(zipMap', Read', archive')
    BY <1>13, <2>1 DEF End, Inv, ReaderInv, Read
  <2>3. QED
    BY <1>13, <2>1, <2>2 DEF End, Inv, ReaderInv
<1>14. ASSUME Error
      PROVE  ReaderInv'
  BY <1>14 DEF Error, Inv, ReaderInv, PackInv, OneAtATime, TypeOK, Read, Reject, readVars
<1>15. ASSUME ResolveZip
      PROVE  ReaderInv'
  BY <1>15 DEF ResolveZip, Inv, ReaderInv, PackInv, OneAtATime, TypeOK, Read, Reject, readVars
<1>16. ASSUME Close
      PROVE  ReaderInv'
  BY <1>16 DEF Close, Inv, ReaderInv, PackInv, OneAtATime, TypeOK, Read, Reject, readVars
<1>17. QED
  BY <1>1, <1>2, <1>3, <1>4, <1>5, <1>6, <1>7, <1>8, <1>9, <1>10, <1>11, <1>12, <1>13, <1>14, <1>15, <1>16
     DEF Next

THEOREM Invariance == Spec => []Inv
<1>1. Init => Inv
  <2> SUFFICES ASSUME Init PROVE Inv
    OBVIOUS
  <2>1. dir \in Partial(Raw, Contents \cup {Jwt}) /\ Metadata \notin DOMAIN dir
    BY DEF Init, Partial
  <2>2. TypeOK
    BY <2>1, EmptyPartial DEF Init, TypeOK
  <2>3. WalkInv
    BY <2>1 DEF Init, WalkInv, Counted
  <2>4. OneAtATime /\ PackInv /\ ReaderInv
    BY DEF Init, OneAtATime, PackInv, ReaderInv
  <2>5. QED
    BY <2>2, <2>3, <2>4 DEF Inv
<1>2. Inv /\ [Next]_vars => Inv'
  <2>1. ASSUME Inv, Next PROVE Inv'
    BY <2>1, TypeStep, TurnStep, WalkStep, PackStep, ReaderStep DEF Inv
  <2>2. ASSUME Inv, UNCHANGED vars PROVE Inv'
    BY <2>2 DEF vars, dirVars, readVars, Inv, TypeOK, OneAtATime, WalkInv, PackInv,
                ReaderInv, Walked, Read
  <2>3. QED
    BY <2>1, <2>2
<1>3. QED
  BY <1>1, <1>2, PTL DEF Spec

(* TypeOK: every variable has its type. *)
THEOREM TypeCorrect == Spec => []TypeOK
<1>1. Inv => TypeOK
  BY DEF Inv
<1>2. QED
  BY <1>1, Invariance, PTL

(* OneAtATime: the reader never overlaps two entries, and nothing runs on *)
(* after its promise is settled or its file closed.                        *)
THEOREM ReaderTakesTurns == Spec => []OneAtATime
<1>1. Inv => OneAtATime
  BY DEF Inv
<1>2. QED
  BY <1>1, Invariance, PTL

(* ManifestIsWhole: a resolved manifest leaves out no file that counts. *)
LEMMA WholeOfInv ==
    ASSUME Inv PROVE ManifestIsWhole
<1>1. ASSUME dirState = "resolved" PROVE ManifestOf(dirMap, DOMAIN dir, dir)
  <2>1. todo = {} /\ hashing = {}
    BY <1>1 DEF Inv, WalkInv
  <2>2. Walked = DOMAIN dir
    BY <2>1 DEF Walked
  <2>3. QED
    BY <1>1, <2>2 DEF Inv, WalkInv
<1>2. ASSUME zipState = "resolved" PROVE ManifestOf(zipMap, DOMAIN archive, archive)
  <2>1. rest = {} /\ opening = {} /\ streams = {}
    BY <1>2 DEF Inv, ReaderInv, OneAtATime
  <2>2. Read = DOMAIN archive
    BY <2>1 DEF Read
  <2>3. QED
    BY <1>2, <2>2 DEF Inv, ReaderInv
<1>3. QED
  BY <1>1, <1>2 DEF ManifestIsWhole

THEOREM ManifestWhole == Spec => []ManifestIsWhole
BY WholeOfInv, Invariance, PTL

(* Two manifests of one set of files are one, if names tell the files apart. *)
LEMMA ManifestUnique ==
    ASSUME NEW m1, NEW m2, NEW S, NEW content, Distinct(S),
           ManifestOf(m1, S, content), ManifestOf(m2, S, content)
    PROVE  computePackageHash(m1) = computePackageHash(m2)
<1>1. DOMAIN m1 = DOMAIN m2
  BY DEF ManifestOf
<1>2. ASSUME NEW n \in DOMAIN m1 PROVE m1[n] = m2[n]
  <2>1. PICK r1 \in Counted(S) : FileName(r1) = n /\ m1[n] = content[r1]
    BY DEF ManifestOf
  <2>2. PICK r2 \in Counted(S) : FileName(r2) = n /\ m2[n] = content[r2]
    BY <1>1 DEF ManifestOf
  <2>3. r1 = r2
    BY <2>1, <2>2 DEF Distinct
  <2>4. QED
    BY <2>1, <2>2, <2>3
<1>3. QED
  BY <1>1, <1>2 DEF computePackageHash

(* SameHash: the server computes the hash that was signed. *)
THEOREM SignedHashIsServerHash == Spec => []SameHash
<1>1. Inv => SameHash
  <2> SUFFICES ASSUME Inv, zipState = "resolved", Distinct(DOMAIN archive)
               PROVE  computePackageHash(zipMap) = computePackageHash(dirMap)
    BY DEF SameHash
  <2>1. archive = dir /\ dirState = "resolved"
    BY DEF Inv, PackInv, ReaderInv
  <2>2. ManifestOf(zipMap, DOMAIN archive, archive) /\ ManifestOf(dirMap, DOMAIN archive, archive)
    BY <2>1, WholeOfInv DEF ManifestIsWhole
  <2>3. QED
    BY <2>2, ManifestUnique
<1>2. QED
  BY <1>1, Invariance, PTL

-----------------------------------------------------------------------------
(* How far the hashing has come: the steps of the release that are left,   *)
(* what is left of the walk besides its files, and what is left of the     *)
(* reader besides its entries.                                             *)
One(b) == IF b THEN 1 ELSE 0
StartsLeft ==
    One(Metadata \notin DOMAIN dir) + One(zipFile = "none") + One(zipState = "idle")
WalkLeft == IF dirState = "pending" THEN 1 + One(hashing # {}) ELSE 0
ReaderLeft ==
    CASE opening # {} -> 4
      [] opening = {} /\ streams # {} -> 3
      [] OTHER -> One(zipState = "pending") + One(zipFile = "open")

\* The walk starts, takes a file off the list, or does more with the last one.
WalkNears ==
    /\ dirState' # "idle"
    /\ dirState = "idle" \/ (todo' \subseteq todo /\ (todo' # todo \/ WalkLeft' < WalkLeft))

\* The reader takes an entry off the list, or does more with the last one.
ReaderNears == rest' \subseteq rest /\ (rest' # rest \/ ReaderLeft' < ReaderLeft)

\* Each step brings one of the three nearer to its end and sets back none that
\* comes before it: the walk is over when the release goes on, and the reader
\* starts when it has.
StepNears ==
    \/ WalkNears /\ UNCHANGED <<dir, zipFile, readVars>>
    \/ StartsLeft' < StartsLeft /\ UNCHANGED dirVars
    \/ ReaderNears /\ StartsLeft' = StartsLeft /\ UNCHANGED dirVars
HashingDwindles == [][StepNears]_vars

LEMMA StepsNear ==
    ASSUME Inv, Next PROVE StepNears
<1>1. ASSUME ReadDir
      PROVE  StepNears
  <2>1. WalkNears
    BY <1>1 DEF ReadDir, Inv, TypeOK, WalkInv, WalkNears, WalkLeft, One
  <2>2. QED
    BY <1>1, <2>1 DEF ReadDir, StepNears
<1>2. ASSUME NEW f \in DOMAIN dir, HashNext(f)
      PROVE  StepNears
  <2>1. WalkNears
    BY <1>2 DEF HashNext, Inv, TypeOK, WalkInv, WalkNears, WalkLeft, One
  <2>2. QED
    BY <1>2, <2>1 DEF HashNext, StepNears
<1>3. ASSUME NEW f \in DOMAIN dir, HashFile(f)
      PROVE  StepNears
  <2>1. WalkNears
    BY <1>3 DEF HashFile, Inv, TypeOK, WalkInv, WalkNears, WalkLeft, One
  <2>2. QED
    BY <1>3, <2>1 DEF HashFile, StepNears
<1>4. ASSUME HashFileFails
      PROVE  StepNears
  <2>1. WalkNears
    BY <1>4 DEF HashFileFails, Inv, TypeOK, WalkInv, WalkNears, WalkLeft, One
  <2>2. QED
    BY <1>4, <2>1 DEF HashFileFails, StepNears
<1>5. ASSUME ResolveDir
      PROVE  StepNears
  <2>1. WalkNears
    BY <1>5 DEF ResolveDir, Inv, TypeOK, WalkInv, WalkNears, WalkLeft, One
  <2>2. QED
    BY <1>5, <2>1 DEF ResolveDir, StepNears
<1>6. ASSUME Sign
      PROVE  StepNears
  <2>1. Metadata \notin DOMAIN dir /\ Metadata \in DOMAIN dir'
    BY <1>6 DEF Sign, Put
  <2>2. StartsLeft' < StartsLeft
    BY <1>6, <2>1 DEF Sign, StartsLeft, One, readVars
  <2>3. QED
    BY <1>6, <2>2 DEF Sign, StepNears
<1>7. ASSUME Pack
      PROVE  StepNears
  <2>1. StartsLeft' < StartsLeft
    BY <1>7 DEF Pack, StartsLeft, One, readVars
  <2>2. QED
    BY <1>7, <2>1 DEF Pack, StepNears
<1>8. ASSUME Open
      PROVE  StepNears
  <2>1. StartsLeft' < StartsLeft
    BY <1>8 DEF Open, StartsLeft, One, readVars
  <2>2. QED
    BY <1>8, <2>1 DEF Open, StepNears
<1>9. ASSUME NEW e \in DOMAIN archive, Entry(e)
      PROVE  StepNears
  <2>1. ReaderNears
    BY <1>9 DEF Entry, Inv, TypeOK, OneAtATime, ReaderInv, Reject, ReaderNears, ReaderLeft, One
  <2>2. StartsLeft' = StartsLeft
    BY <1>9 DEF Entry, Inv, TypeOK, OneAtATime, ReaderInv, Reject, StartsLeft, One, readVars
  <2>3. QED
    BY <1>9, <2>1, <2>2 DEF Entry, StepNears
<1>10. ASSUME NEW e \in DOMAIN archive, OpenStream(e)
      PROVE  StepNears
  <2>1. ReaderNears
    BY <1>10 DEF OpenStream, Inv, TypeOK, OneAtATime, ReaderInv, Reject, ReaderNears, ReaderLeft, One
  <2>2. StartsLeft' = StartsLeft
    BY <1>10 DEF OpenStream, Inv, TypeOK, OneAtATime, ReaderInv, Reject, StartsLeft, One, readVars
  <2>3. QED
    BY <1>10, <2>1, <2>2 DEF OpenStream, StepNears
<1>11. ASSUME NEW e \in DOMAIN archive, HashEntry(e)
      PROVE  StepNears
  <2>1. ReaderNears
    BY <1>11 DEF HashEntry, Inv, TypeOK, OneAtATime, ReaderInv, Reject, ReaderNears, ReaderLeft, One
  <2>2. StartsLeft' = StartsLeft
    BY <1>11 DEF HashEntry, Inv, TypeOK, OneAtATime, ReaderInv, Reject, StartsLeft, One, readVars
  <2>3. QED
    BY <1>11, <2>1, <2>2 DEF HashEntry, StepNears
<1>12. ASSUME NEW e \in DOMAIN archive, HashEntryFails(e)
      PROVE  StepNears
  <2>1. ReaderNears
    BY <1>12 DEF HashEntryFails, Inv, TypeOK, OneAtATime, ReaderInv, Reject, ReaderNears, ReaderLeft, One
  <2>2. StartsLeft' = StartsLeft
    BY <1>12 DEF HashEntryFails, Inv, TypeOK, OneAtATime, ReaderInv, Reject, StartsLeft, One, readVars
  <2>3. QED
    BY <1>12, <2>1, <2>2 DEF HashEntryFails, StepNears
<1>13. ASSUME End
      PROVE  StepNears
  <2>1. ReaderNears
    BY <1>13 DEF End, Inv, TypeOK, OneAtATime, ReaderInv, Reject, ReaderNears, ReaderLeft, One
  <2>2. StartsLeft' = StartsLeft
    BY <1>13 DEF End, Inv, TypeOK, OneAtATime, ReaderInv, Reject, StartsLeft, One, readVars
  <2>3. QED
    BY <1>13, <2>1, <2>2 DEF End, StepNears
<1>14. ASSUME Error
      PROVE  StepNears
  <2>1. ReaderNears
    BY <1>14 DEF Error, Inv, TypeOK, OneAtATime, ReaderInv, Reject, ReaderNears, ReaderLeft, One
  <2>2. StartsLeft' = StartsLeft
    BY <1>14 DEF Error, Inv, TypeOK, OneAtATime, ReaderInv, Reject, StartsLeft, One, readVars
  <2>3. QED
    BY <1>14, <2>1, <2>2 DEF Error, StepNears
<1>15. ASSUME ResolveZip
      PROVE  StepNears
  <2>1. ReaderNears
    BY <1>15 DEF ResolveZip, Inv, TypeOK, OneAtATime, ReaderInv, Reject, ReaderNears, ReaderLeft, One
  <2>2. StartsLeft' = StartsLeft
    BY <1>15 DEF ResolveZip, Inv, TypeOK, OneAtATime, ReaderInv, Reject, StartsLeft, One, readVars
  <2>3. QED
    BY <1>15, <2>1, <2>2 DEF ResolveZip, StepNears
<1>16. ASSUME Close
      PROVE  StepNears
  <2>1. ReaderNears
    <3>1. opening = {} /\ streams = {} /\ zipFile = "open" /\ zipState # "pending"
      BY <1>16 DEF Close, Inv, OneAtATime
    <3>2. ReaderLeft = 1
      BY <3>1 DEF ReaderLeft, One
    <3>3. ReaderLeft' = 0
      BY <1>16, <3>1 DEF Close, ReaderLeft, One, readVars
    <3>4. QED
      BY <1>16, <3>2, <3>3 DEF Close, ReaderNears, readVars
  <2>2. StartsLeft' = StartsLeft
    BY <1>16 DEF Close, Inv, TypeOK, OneAtATime, ReaderInv, Reject, StartsLeft, One, readVars
  <2>3. QED
    BY <1>16, <2>1, <2>2 DEF Close, StepNears
<1>17. QED
  BY <1>1, <1>2, <1>3, <1>4, <1>5, <1>6, <1>7, <1>8, <1>9, <1>10, <1>11, <1>12, <1>13, <1>14, <1>15, <1>16
     DEF Next

(* HashingDwindles: a package of finitely many files is hashed, signed,    *)
(* zipped and read back in finitely many steps: no file of the walk and no *)
(* entry of the zip is come to twice, and an end, an error or a failure    *)
(* leaves nothing that goes on.                                            *)
THEOREM ReadingsEnd == Spec => HashingDwindles
<1>1. Inv /\ [Next]_vars => [StepNears]_vars
  BY StepsNear
<1>2. QED
  BY <1>1, Invariance, PTL DEF Spec, HashingDwindles

=============================================================================
