------------------------- MODULE ProjectReleaseProofs --------------------------
(***************************************************************************)
(* Proofs about ProjectRelease, for any processes, commands and folders.   *)
(***************************************************************************)
EXTENDS ProjectRelease, Naturals, TLAPS

Moves(p) == (\E c \in Command : Start(p, c)) \/ Step(p) \/ Kill(p)

Late == {"release", "upload", "sweep"}

\* Where a run is, and what it knows there.
RunInv(p) ==
    /\ Aimed(p)
    /\ pc[p] = "idle" /\ result[p] \in {"ok", "warned"} => cmd[p] # None
    /\ pc[p] \in {"empty", "make", "sweep"} => Is(p, "react")
    /\ pc[p] = "sweep" => ~Named(p)
    /\ pc[p] \in {"upload", "sweep"} => target[p] = "valid"
    /\ taken[p] # None \/ p \in accepted => pc[p] \in {"upload", "sweep"}
    /\ cutShort[p] => Is(p, "react")
    /\ pc[p] = "build" => cmd[p].build
    /\ pc[p] \in {"idle", "validate", "check", "empty", "make"} => made[p] = {}
    /\ pc[p] = "version" /\ Is(p, "react") => made[p] = {}
    /\ pc[p] \in Late /\ cmd[p].build /\ ~cutShort[p] => made[p] = Parts
    /\ pc[p] = "version" /\ ~Is(p, "react") /\ cmd[p].build => made[p] = Parts

\* A run that has its folder for itself finds in it what it has put there.
FolderInv(p) ==
    cmd[p] # None /\ alone[p] =>
        /\ pc[p] = "make" => Here(p) = None
        /\ Is(p, "react") /\ pc[p] \in Late \cup {"build"} => Here(p) = {p} \X made[p]
        /\ ~Is(p, "react") /\ made[p] # {} => Here(p) # None /\ {p} \X made[p] \subseteq Here(p)
        /\ taken[p] # None /\ cmd[p].build /\ ~cutShort[p] =>
               IF Is(p, "react") THEN taken[p] = Own(p) ELSE Own(p) \subseteq taken[p]
        /\ pc[p] = "idle" /\ result[p] \in {"ok", "warned"} /\ Is(p, "react") =>
               IF Named(p) THEN cutShort[p] \/ Here(p) = Own(p)
                           ELSE Here(p) = None \/ Here(p) \subseteq Own(p)

\* Nobody is at work in the folder of a run that is alone.
AloneInv(p) ==
    cmd[p] # None /\ alone[p] =>
        \A q \in Procs \ {p} : Uses(q, cmd[p].out) => pc[q] = "idle"

Inv == TypeOK /\ \A p \in Procs : RunInv(p) /\ FolderInv(p) /\ AloneInv(p)

\* What a step of p leaves to another process q.
Bystander(p, q) ==
    /\ pc'[q] = pc[q] /\ cmd'[q] = cmd[q] /\ made'[q] = made[q] /\ cutShort'[q] = cutShort[q]
    /\ target'[q] = target[q] /\ taken'[q] = taken[q] /\ result'[q] = result[q]
    /\ q \in accepted' <=> q \in accepted
    /\ alone'[q] => alone[q]
    /\ cmd[q] # None /\ alone'[q] =>
          /\ cmd'[p] # None /\ cmd'[p].out = cmd[q].out => pc'[p] = "idle"
          /\ \/ folder'[cmd[q].out] = folder[cmd[q].out]
             \/ /\ folder[cmd[q].out] # None
                /\ folder[cmd[q].out] \cap Own(p) # {}
                /\ folder'[cmd[q].out] = (folder[cmd[q].out] \ Own(p)) \cup {Old}

-----------------------------------------------------------------------------
(* What a command is, in the terms the proofs need.                         *)
LEMMA CommandFields ==
    ASSUME NEW c \in Command
    PROVE  /\ c.out \in Folders
           /\ c.build \in BOOLEAN
           /\ c.kind \in {"react", "cordova", "nativescript"}
           /\ c.range \in {"valid", "invalid", "none"}
           /\ c.kind = "react" <=> c.out # Platforms
           /\ c.kind # "nativescript" => c.build
           /\ c # None
  BY ProjectAssumption DEF Command

LEMMA FilesAreNotNone == ASSUME NEW files \in SUBSET File PROVE files # None
  BY ProjectAssumption

(* Nobody's own file is an old one, and no two processes own the same.      *)
LEMMA OwnFiles ==
    ASSUME NEW p \in Procs
    PROVE  /\ Own(p) \subseteq File
           /\ Old \in File
           /\ Old \notin Own(p)
           /\ \A q \in Procs \ {p} : Own(p) \cap Own(q) = {}
           /\ \A parts \in SUBSET Parts : {p} \X parts \subseteq Own(p)
           /\ Own(p) # {}
<1>1. Own(p) \subseteq File /\ Old \in File
  BY DEF Own, File
<1>2. Old \notin Own(p)
  BY ProjectAssumption DEF Own, Old
<1>3. \A q \in Procs \ {p} : Own(p) \cap Own(q) = {}
  BY DEF Own
<1>4. \A parts \in SUBSET Parts : {p} \X parts \subseteq Own(p)
  BY DEF Own
<1>5. <<p, "bundle">> \in Own(p)
  BY DEF Own, Parts
<1>6. QED
  BY <1>1, <1>2, <1>3, <1>4, <1>5

(* Aging leaves files files.                                                *)
LEMMA AgedType ==
    ASSUME NEW p \in Procs, NEW folders \in [Folders -> (SUBSET File) \cup {None}]
    PROVE  Aged(p, folders) \in [Folders -> (SUBSET File) \cup {None}]
  BY OwnFiles DEF Aged

(* ... and leaves the old ones where they are.                              *)
LEMMA AgedKeeps ==
    ASSUME NEW p \in Procs, NEW folders \in [Folders -> (SUBSET File) \cup {None}],
           NEW f \in Folders, folders[f] # None, Old \in folders[f]
    PROVE  Aged(p, folders)[f] # None /\ Old \in Aged(p, folders)[f]
<1>1. Aged(p, folders)[f] \in {folders[f], (folders[f] \ Own(p)) \cup {Old}}
  BY DEF Aged
<1>2. folders[f] \in SUBSET File /\ (folders[f] \ Own(p)) \cup {Old} \in SUBSET File
  BY OwnFiles
<1>3. QED
  BY <1>1, <1>2, FilesAreNotNone

Ends == {"ok", "warned", "failed", "died"}

\* TypeOK, but for the folders and the range.
RunsTyped ==
    /\ pc \in [Procs -> Places]
    /\ cmd \in [Procs -> Command \cup {None}]
    /\ \A q \in Procs : pc[q] # "idle" => cmd[q] # None
    /\ made \in [Procs -> SUBSET Parts]
    /\ cutShort \in [Procs -> BOOLEAN]
    /\ target \in [Procs -> {"none", "valid", "invalid"}]
    /\ taken \in [Procs -> (SUBSET File) \cup {None}]
    /\ alone \in [Procs -> BOOLEAN]
    /\ accepted \in SUBSET Procs
    /\ result \in [Procs -> {"none"} \cup Ends]

Typed == RunsTyped /\ folder \in [Folders -> (SUBSET File) \cup {None}]

(* A run that ends takes nothing along that has no type.                    *)
LEMMA FinishTyped ==
    ASSUME TypeOK, NEW p \in Procs, NEW e \in Ends, Finish(p, e)
    PROVE  RunsTyped'
<1>1. RunsTyped
  BY DEF TypeOK, RunsTyped, Ends
<1>2. pc' \in [Procs -> Places] /\ \A q \in Procs : pc'[q] = IF q = p THEN "idle" ELSE pc[q]
  BY <1>1 DEF RunsTyped, Finish, Goto, Places
<1>3. /\ cmd' \in [Procs -> Command \cup {None}]
      /\ \A q \in Procs \ {p} : cmd'[q] = cmd[q]
  BY <1>1 DEF RunsTyped, Finish
<1>4. made' \in [Procs -> SUBSET Parts] /\ target' \in [Procs -> {"none", "valid", "invalid"}]
  BY <1>1 DEF RunsTyped, Finish
<1>5. taken' \in [Procs -> (SUBSET File) \cup {None}] /\ accepted' \in SUBSET Procs
  BY <1>1 DEF RunsTyped, Finish
<1>6. cutShort' \in [Procs -> BOOLEAN] /\ alone' \in [Procs -> BOOLEAN]
  BY <1>1 DEF RunsTyped, Finish
<1>7. result' \in [Procs -> {"none"} \cup Ends]
  BY <1>1 DEF RunsTyped, Finish
<1>8. QED
  BY <1>1, <1>2, <1>3, <1>4, <1>5, <1>6, <1>7 DEF RunsTyped

(* Every variable keeps its type.                                           *)
LEMMA TypeStep ==
    ASSUME Inv, NEW p \in Procs, Moves(p) PROVE Typed'
<1> DEFINE Contents == (SUBSET File) \cup {None}
<1>a. cmd[p] # None => cmd[p] \in Command
  BY DEF Inv, TypeOK
<1>b. cmd[p] # None => cmd[p].out \in Folders /\ folder[cmd[p].out] \in Contents
  BY <1>a, CommandFields DEF Inv, TypeOK
<1>c. pc[p] # "idle" => cmd[p] # None
  BY DEF Inv, TypeOK
<1>d. RunsTyped' /\ folder' \in [Folders -> Contents] => Typed'
  BY DEF Typed
<1>e. TypeOK
  BY DEF Inv
<1> USE DEF Inv, TypeOK, Typed, RunsTyped, Ends, run
<1>1. ASSUME NEW c \in Command, Start(p, c)
      PROVE  Typed'
  <2> DEFINE before == IF c.kind = "react" /\ folder[c.out] = None
                         THEN [folder EXCEPT ![c.out] = {}] ELSE folder
  <2>1. before \in [Folders -> Contents]
    BY CommandFields
  <2>2. folder' \in [Folders -> Contents]
    BY <1>1, <2>1, AgedType DEF Start
  <2>3. c # None
    BY CommandFields
  <2>4. RunsTyped'
    BY <1>1, <2>3 DEF Start, Begin, Goto, RunsTyped, Places, Ends
  <2>5. QED
    BY <2>2, <2>4, <1>d
<1>2. ASSUME Validate(p)
      PROVE  Typed'
  BY <1>2, <1>a, <1>b, <1>c DEF Validate, Goto, Places
<1>3. ASSUME CheckReact(p)
      PROVE  Typed'
  BY <1>3, <1>a, <1>b, <1>c DEF CheckReact, Is, Goto, Places
<1>4. ASSUME CheckCordova(p)
      PROVE  Typed'
  BY <1>4, <1>a, <1>b, <1>c DEF CheckCordova, Is, Goto, Places
<1>5. ASSUME CheckNativeScript(p)
      PROVE  Typed'
  BY <1>5, <1>a, <1>b, <1>c DEF CheckNativeScript, Is, Goto, Places
<1>6. ASSUME VersionReact(p)
      PROVE  Typed'
  BY <1>6, <1>a, <1>b, <1>c DEF VersionReact, Found, Is, Aim, Goto, Places
<1>7. ASSUME VersionCordova(p)
      PROVE  Typed'
  BY <1>7, <1>a, <1>b, <1>c DEF VersionCordova, Is, Aim, Goto, Places
<1>8. ASSUME VersionNativeScript(p)
      PROVE  Typed'
  BY <1>8, <1>a, <1>b, <1>c DEF VersionNativeScript, Found, Is, Aim, Goto, Places
<1>9. ASSUME Empty(p)
      PROVE  Typed'
  <2>1. folder' \in [Folders -> Contents]
    BY <1>9, <1>b, <1>c DEF Empty, Holds
  <2>2. RunsTyped'
    BY <1>9 DEF Empty, Goto, RunsTyped, Places, Ends
  <2>3. QED
    BY <2>1, <2>2, <1>d
<1>10. ASSUME Make(p)
      PROVE  Typed'
  BY <1>10, <1>a, <1>b, <1>c DEF Make, Holds, Here, Goto, Places
<1>11. ASSUME NEW part \in Parts, ToolWrites(p, part)
      PROVE  Typed'
  BY <1>11, <1>a, <1>b, <1>c DEF ToolWrites, Holds, Here, Is, Goto, File, Parts, Places
<1>12. ASSUME ToolEnds(p)
      PROVE  Typed'
  BY <1>12, <1>a, <1>b, <1>c DEF ToolEnds, AfterBuild, Is, Goto, Places
<1>13. ASSUME ToolKilled(p)
      PROVE  Typed'
  BY <1>13, <1>a, <1>b, <1>c DEF ToolKilled, Is, Goto, Places
<1>14. ASSUME Read(p)
      PROVE  Typed'
  BY <1>14, <1>a, <1>b, <1>c DEF Read, Here, Goto, Here, Places
<1>15. ASSUME Accept(p)
      PROVE  Typed'
  BY <1>15, <1>a, <1>b, <1>c DEF Accept, Goto, Places
<1>16. ASSUME Resolved(p)
      PROVE  Typed'
  <2>1. CASE Is(p, "react") /\ ~Named(p)
    BY <1>16, <2>1 DEF Resolved, Goto, Places
  <2>2. CASE ~(Is(p, "react") /\ ~Named(p))
    <3>1. Outcome(p) \in Ends /\ Finish(p, Outcome(p)) /\ folder' = folder
      BY <1>16, <2>2 DEF Resolved, Outcome, Ends
    <3>2. QED
      BY <3>1, <1>e, <1>d, FinishTyped
  <2>3. QED
    BY <2>1, <2>2
<1>17. ASSUME Sweep(p)
      PROVE  Typed'
  <2>1. Outcome(p) \in Ends /\ Finish(p, Outcome(p))
    BY <1>17 DEF Sweep, Outcome, Ends
  <2>2. folder' \in [Folders -> Contents]
    BY <1>17, <1>b, <1>c DEF Sweep, Holds
  <2>3. QED
    BY <2>1, <2>2, <1>e, <1>d, FinishTyped
<1>18. ASSUME Reject(p)
      PROVE  Typed'
  <2>1. PICK rest \in Remains(cmd[p].out) \cup {Here(p)} : Leaves(p, rest)
    BY <1>18 DEF Reject
  <2>2. rest \in Contents
    BY <2>1, <1>18, <1>b, <1>c DEF Reject, Remains, Here
  <2>3. [folder EXCEPT ![cmd[p].out] = rest] \in [Folders -> Contents]
    BY <2>2
  <2>4. folder' \in [Folders -> Contents]
    BY <2>1, <2>3, AgedType DEF Leaves
  <2>5. "failed" \in Ends /\ Finish(p, "failed")
    BY <1>18 DEF Reject, Ends
  <2>6. QED
    BY <2>4, <2>5, <1>e, <1>d, FinishTyped
<1>19. ASSUME Kill(p)
      PROVE  Typed'
  <2>1. PICK rest \in Remains(cmd[p].out) \cup {Here(p)} : Leaves(p, rest)
    BY <1>19 DEF Kill
  <2>2. rest \in Contents
    BY <2>1, <1>19, <1>b, <1>c DEF Kill, Remains, Here
  <2>3. [folder EXCEPT ![cmd[p].out] = rest] \in [Folders -> Contents]
    BY <2>2
  <2>4. folder' \in [Folders -> Contents]
    BY <2>1, <2>3, AgedType DEF Leaves
  <2>5. "died" \in Ends /\ Finish(p, "died")
    BY <1>19 DEF Kill, Ends
  <2>6. QED
    BY <2>4, <2>5, <1>e, <1>d, FinishTyped
<1>20. ASSUME SweepFails(p)
      PROVE  Typed'
  <2>1. Outcome(p) \in Ends /\ Finish(p, Outcome(p))
    BY <1>20 DEF SweepFails, Outcome, Ends
  <2>2. PICK rest \in Remains(cmd[p].out) : folder' = [folder EXCEPT ![cmd[p].out] = rest]
    BY <1>20 DEF SweepFails, Holds
  <2>3. rest \in Contents
    BY <2>2, <1>20, <1>b, <1>c DEF SweepFails, Remains
  <2>4. folder' \in [Folders -> Contents]
    BY <2>2, <2>3
  <2>5. QED
    BY <2>1, <2>4, <1>e, <1>d, FinishTyped
<1>21. QED
  BY <1>1, <1>2, <1>3, <1>4, <1>5, <1>6, <1>7, <1>8, <1>9, <1>10, <1>11, <1>12, <1>13, <1>14, <1>15, <1>16, <1>17, <1>18, <1>19, <1>20 DEF Moves, Step

(* Whatever p does, another process finds its own variables as they were,   *)
(* and in a folder it has for itself no more change than old files of p.    *)
LEMMA BystanderStep ==
    ASSUME Inv, NEW p \in Procs, Moves(p), NEW q \in Procs \ {p}
    PROVE  Bystander(p, q)
<1>a. cmd[p] # None => cmd[p] \in Command
  BY DEF Inv, TypeOK
<1>b. cmd[q] # None => cmd[q] \in Command /\ cmd[q].out \in Folders
  BY CommandFields DEF Inv, TypeOK
<1>c. pc[p] # "idle" => cmd[p] # None
  BY DEF Inv, TypeOK
<1>d. cmd[q] # None /\ alone[q] /\ pc[p] # "idle" => cmd[p].out # cmd[q].out
  BY <1>c DEF Inv, AloneInv, Uses
<1> USE <1>a, <1>b, <1>c, <1>d DEF Bystander, Inv, TypeOK, run
<1>1. ASSUME NEW c \in Command, Start(p, c)
      PROVE  Bystander(p, q)
  BY <1>1, CommandFields, ProjectAssumption DEF Start, Begin, Aged, Goto, Uses
<1>2. ASSUME Validate(p)
      PROVE  Bystander(p, q)
  BY <1>2 DEF Validate, Goto
<1>3. ASSUME CheckReact(p)
      PROVE  Bystander(p, q)
  BY <1>3 DEF CheckReact, Is, Goto
<1>4. ASSUME CheckCordova(p)
      PROVE  Bystander(p, q)
  BY <1>4 DEF CheckCordova, Is, Goto
<1>5. ASSUME CheckNativeScript(p)
      PROVE  Bystander(p, q)
  BY <1>5 DEF CheckNativeScript, Is, Goto
<1>6. ASSUME VersionReact(p)
      PROVE  Bystander(p, q)
  BY <1>6 DEF VersionReact, Found, Is, Aim, Goto
<1>7. ASSUME VersionCordova(p)
      PROVE  Bystander(p, q)
  BY <1>7 DEF VersionCordova, Is, Aim, Goto
<1>8. ASSUME VersionNativeScript(p)
      PROVE  Bystander(p, q)
  BY <1>8 DEF VersionNativeScript, Found, Is, Aim, Goto
<1>9. ASSUME Empty(p)
      PROVE  Bystander(p, q)
  BY <1>9 DEF Empty, Holds, Goto
<1>10. ASSUME Make(p)
      PROVE  Bystander(p, q)
  BY <1>10 DEF Make, Holds, Here, Goto
<1>11. ASSUME NEW part \in Parts, ToolWrites(p, part)
      PROVE  Bystander(p, q)
  BY <1>11 DEF ToolWrites, Holds, Here, Is, Goto
<1>12. ASSUME ToolEnds(p)
      PROVE  Bystander(p, q)
  BY <1>12 DEF ToolEnds, AfterBuild, Is, Goto
<1>13. ASSUME ToolKilled(p)
      PROVE  Bystander(p, q)
  BY <1>13 DEF ToolKilled, Is, Goto
<1>14. ASSUME Read(p)
      PROVE  Bystander(p, q)
  BY <1>14 DEF Read, Here, Goto
<1>15. ASSUME Accept(p)
      PROVE  Bystander(p, q)
  BY <1>15 DEF Accept, Goto
<1>16. ASSUME Resolved(p)
      PROVE  Bystander(p, q)
  BY <1>16 DEF Resolved, Is, Finish, Outcome, Goto
<1>17. ASSUME Sweep(p)
      PROVE  Bystander(p, q)
  BY <1>17 DEF Sweep, Finish, Outcome, Holds, Goto
<1>18. ASSUME Reject(p)
      PROVE  Bystander(p, q)
  BY <1>18 DEF Reject, Finish, Leaves, Aged, Goto
<1>19. ASSUME Kill(p)
      PROVE  Bystander(p, q)
  BY <1>19 DEF Kill, Finish, Leaves, Aged, Goto
<1>20. ASSUME SweepFails(p)
      PROVE  Bystander(p, q)
  BY <1>20 DEF SweepFails, Finish, Outcome, Holds, Goto
<1>21. QED
  BY <1>1, <1>2, <1>3, <1>4, <1>5, <1>6, <1>7, <1>8, <1>9, <1>10, <1>11, <1>12, <1>13, <1>14, <1>15, <1>16, <1>17, <1>18, <1>19, <1>20 DEF Moves, Step

(* The invariant of a process that only looked on.                          *)
LEMMA LookingOn ==
    ASSUME Inv, NEW p \in Procs, NEW q \in Procs \ {p}, \A r \in Procs \ {p} : Bystander(p, r)
    PROVE  RunInv(q)' /\ FolderInv(q)' /\ AloneInv(q)'
<1>1. RunInv(q)'
  BY DEF Inv, RunInv, Aimed, Bystander, Is, Named, Late
<1>2. AloneInv(q)'
  BY DEF Inv, AloneInv, Bystander, Uses
<1>3. ASSUME cmd[q] # None, alone'[q]
      PROVE  \/ folder'[cmd[q].out] = folder[cmd[q].out]
             \/ /\ folder[cmd[q].out] # None
                /\ folder[cmd[q].out] \cap Own(p) # {}
                /\ folder'[cmd[q].out] = (folder[cmd[q].out] \ Own(p)) \cup {Old}
  BY <1>3 DEF Bystander
<1>4. ASSUME cmd[q] # None, alone'[q], folder'[cmd[q].out] = folder[cmd[q].out]
      PROVE  FolderInv(q)'
  BY <1>4 DEF Inv, FolderInv, Bystander, Is, Named, Here, Late, Own
<1>5. ASSUME cmd[q] # None, alone'[q], folder[cmd[q].out] # None,
             folder[cmd[q].out] \cap Own(p) # {},
             folder'[cmd[q].out] = (folder[cmd[q].out] \ Own(p)) \cup {Old}
      PROVE  FolderInv(q)'
  <2>1. alone[q] /\ cmd'[q] = cmd[q]
    BY <1>5 DEF Bystander
  <2>2. made[q] \in SUBSET Parts
    BY DEF Inv, TypeOK
  <2>3. {q} \X made[q] \subseteq Own(q) /\ Own(q) \cap Own(p) = {}
    BY <2>2, OwnFiles
  <2>4. cmd[q].kind # "react" \/ pc[q] \notin Late \cup {"build"}
    BY <1>5, <2>1, <2>3 DEF Inv, FolderInv, Is, Here
  <2>5. pc[q] # "make"
    BY <1>5, <2>1 DEF Inv, FolderInv, Is, Here
  <2>6. folder[cmd[q].out] \in SUBSET File
    <3>1. cmd[q] \in Command
      BY <1>5 DEF Inv, TypeOK
    <3>2. cmd[q].out \in Folders
      BY <3>1, CommandFields
    <3>3. QED
      BY <1>5, <3>2 DEF Inv, TypeOK
  <2>7. folder'[cmd[q].out] # None
    BY <1>5, <2>6, OwnFiles, FilesAreNotNone
  <2>8. ~(pc[q] = "idle" /\ result[q] \in {"ok", "warned"} /\ Is(q, "react"))  \/ (Named(q) /\ cutShort[q])
    BY <1>5, <2>1, <2>3 DEF Inv, FolderInv, Is, Here
  <2>9. ~Is(q, "react") /\ made[q] # {} => {q} \X made[q] \subseteq folder'[cmd[q].out]
    BY <1>5, <2>1, <2>3 DEF Inv, FolderInv, Is, Here
  <2>10. Own(q)' = Own(q)
    BY DEF Own, Parts
  <2>11. QED
    BY <1>5, <2>1, <2>4, <2>5, <2>7, <2>8, <2>9, <2>10
       DEF Inv, FolderInv, Bystander, Is, Named, Here, Late
<1>6. cmd[q] = None \/ ~alone'[q] => FolderInv(q)'
  BY DEF FolderInv, Bystander
<1>7. QED
  BY <1>1, <1>2, <1>3, <1>4, <1>5, <1>6

-----------------------------------------------------------------------------
(* The run that moves: where it is and what it knows.                       *)
LEMMA RunStep ==
    ASSUME Inv, NEW p \in Procs, Moves(p) PROVE RunInv(p)'
<1>a. cmd[p] # None => cmd[p] \in Command
  BY DEF Inv, TypeOK
<1>c. pc[p] # "idle" => cmd[p] # None
  BY DEF Inv, TypeOK
<1> USE <1>a, <1>c DEF RunInv, Aimed, Inv, TypeOK, run, Late, Is, Named
<1>1. ASSUME NEW c \in Command, Start(p, c)
      PROVE  RunInv(p)'
  BY <1>1, CommandFields, ProjectAssumption DEF Start, Begin, Aged, Goto
<1>2. ASSUME Validate(p)
      PROVE  RunInv(p)'
  BY <1>2 DEF Validate, Goto
<1>3. ASSUME CheckReact(p)
      PROVE  RunInv(p)'
  BY <1>3, CommandFields DEF CheckReact, Is, Goto
<1>4. ASSUME CheckCordova(p)
      PROVE  RunInv(p)'
  BY <1>4, CommandFields DEF CheckCordova, Is, Goto
<1>5. ASSUME CheckNativeScript(p)
      PROVE  RunInv(p)'
  BY <1>5, CommandFields DEF CheckNativeScript, Is, Goto
<1>6. ASSUME VersionReact(p)
      PROVE  RunInv(p)'
  BY <1>6 DEF VersionReact, Found, Is, Aim, Goto
<1>7. ASSUME VersionCordova(p)
      PROVE  RunInv(p)'
  BY <1>7 DEF VersionCordova, Is, Aim, Goto
<1>8. ASSUME VersionNativeScript(p)
      PROVE  RunInv(p)'
  BY <1>8 DEF VersionNativeScript, Found, Is, Aim, Goto
<1>9. ASSUME Empty(p)
      PROVE  RunInv(p)'
  BY <1>9 DEF Empty, Holds, Goto
<1>10. ASSUME Make(p)
      PROVE  RunInv(p)'
  BY <1>10, CommandFields DEF Make, Holds, Here, Goto
<1>11. ASSUME NEW part \in Parts, ToolWrites(p, part)
      PROVE  RunInv(p)'
  BY <1>11 DEF ToolWrites, Holds, Here, Is, Goto
<1>12. ASSUME ToolEnds(p)
      PROVE  RunInv(p)'
  BY <1>12, CommandFields DEF ToolEnds, AfterBuild, Is, Goto
<1>13. ASSUME ToolKilled(p)
      PROVE  RunInv(p)'
  BY <1>13 DEF ToolKilled, Is, Goto
<1>14. ASSUME Read(p)
      PROVE  RunInv(p)'
  BY <1>14 DEF Read, Here, Goto
<1>15. ASSUME Accept(p)
      PROVE  RunInv(p)'
  BY <1>15 DEF Accept, Goto
<1>16. ASSUME Resolved(p)
      PROVE  RunInv(p)'
  BY <1>16 DEF Resolved, Is, Finish, Outcome, Goto, Named
<1>17. ASSUME Sweep(p)
      PROVE  RunInv(p)'
  BY <1>17 DEF Sweep, Finish, Outcome, Holds, Goto
<1>18. ASSUME Reject(p)
      PROVE  RunInv(p)'
  BY <1>18 DEF Reject, Finish, Leaves, Aged, Goto
<1>19. ASSUME Kill(p)
      PROVE  RunInv(p)'
  BY <1>19 DEF Kill, Finish, Leaves, Aged, Goto
<1>20. ASSUME SweepFails(p)
      PROVE  RunInv(p)'
  BY <1>20 DEF SweepFails, Finish, Outcome, Holds, Goto
<1>21. QED
  BY <1>1, <1>2, <1>3, <1>4, <1>5, <1>6, <1>7, <1>8, <1>9, <1>10, <1>11, <1>12, <1>13, <1>14, <1>15, <1>16, <1>17, <1>18, <1>19, <1>20 DEF Moves, Step

(* ... and that nobody else is at work in its folder.                       *)
LEMMA AloneStep ==
    ASSUME Inv, NEW p \in Procs, Moves(p) PROVE AloneInv(p)'
<1>a. \A q \in Procs \ {p} : pc'[q] = pc[q] /\ cmd'[q] = cmd[q]
  BY BystanderStep DEF Bystander
<1>c. pc[p] # "idle" => cmd[p] # None
  BY DEF Inv, TypeOK
<1> USE <1>a, <1>c, ProjectAssumption DEF AloneInv, Inv, TypeOK, run, Uses
<1>1. ASSUME NEW c \in Command, Start(p, c)
      PROVE  AloneInv(p)'
  BY <1>1, CommandFields DEF Start, Begin, Aged, Goto
<1>2. ASSUME Validate(p)
      PROVE  AloneInv(p)'
  BY <1>2 DEF Validate, Goto
<1>3. ASSUME CheckReact(p)
      PROVE  AloneInv(p)'
  BY <1>3 DEF CheckReact, Is, Goto
<1>4. ASSUME CheckCordova(p)
      PROVE  AloneInv(p)'
  BY <1>4 DEF CheckCordova, Is, Goto
<1>5. ASSUME CheckNativeScript(p)
      PROVE  AloneInv(p)'
  BY <1>5 DEF CheckNativeScript, Is, Goto
<1>6. ASSUME VersionReact(p)
      PROVE  AloneInv(p)'
  BY <1>6 DEF VersionReact, Found, Is, Aim, Goto
<1>7. ASSUME VersionCordova(p)
      PROVE  AloneInv(p)'
  BY <1>7 DEF VersionCordova, Is, Aim, Goto
<1>8. ASSUME VersionNativeScript(p)
      PROVE  AloneInv(p)'
  BY <1>8 DEF VersionNativeScript, Found, Is, Aim, Goto
<1>9. ASSUME Empty(p)
      PROVE  AloneInv(p)'
  BY <1>9 DEF Empty, Holds, Goto
<1>10. ASSUME Make(p)
      PROVE  AloneInv(p)'
  BY <1>10 DEF Make, Holds, Here, Goto
<1>11. ASSUME NEW part \in Parts, ToolWrites(p, part)
      PROVE  AloneInv(p)'
  BY <1>11 DEF ToolWrites, Holds, Here, Is, Goto
<1>12. ASSUME ToolEnds(p)
      PROVE  AloneInv(p)'
  BY <1>12 DEF ToolEnds, AfterBuild, Is, Goto
<1>13. ASSUME ToolKilled(p)
      PROVE  AloneInv(p)'
  BY <1>13 DEF ToolKilled, Is, Goto
<1>14. ASSUME Read(p)
      PROVE  AloneInv(p)'
  BY <1>14 DEF Read, Here, Goto
<1>15. ASSUME Accept(p)
      PROVE  AloneInv(p)'
  BY <1>15 DEF Accept, Goto
<1>16. ASSUME Resolved(p)
      PROVE  AloneInv(p)'
  BY <1>16 DEF Resolved, Is, Finish, Outcome, Goto
<1>17. ASSUME Sweep(p)
      PROVE  AloneInv(p)'
  BY <1>17 DEF Sweep, Finish, Outcome, Holds, Goto
<1>18. ASSUME Reject(p)
      PROVE  AloneInv(p)'
  BY <1>18 DEF Reject, Finish, Leaves, Aged, Goto
<1>19. ASSUME Kill(p)
      PROVE  AloneInv(p)'
  BY <1>19 DEF Kill, Finish, Leaves, Aged, Goto
<1>20. ASSUME SweepFails(p)
      PROVE  AloneInv(p)'
  BY <1>20 DEF SweepFails, Finish, Outcome, Holds, Goto
<1>21. QED
  BY <1>1, <1>2, <1>3, <1>4, <1>5, <1>6, <1>7, <1>8, <1>9, <1>10, <1>11, <1>12, <1>13, <1>14, <1>15, <1>16, <1>17, <1>18, <1>19, <1>20 DEF Moves, Step

(* ... and what is in its folder.                                           *)
LEMMA FolderStep ==
    ASSUME Inv, NEW p \in Procs, Moves(p) PROVE FolderInv(p)'
<1>a. cmd[p] # None => cmd[p] \in Command /\ cmd[p].out \in Folders
  BY CommandFields DEF Inv, TypeOK
<1>c. pc[p] # "idle" => cmd[p] # None
  BY DEF Inv, TypeOK
<1>d. RunInv(p)
  BY DEF Inv
<1>e. FolderInv(p)
  BY DEF Inv
<1>f. cmd[p] # None => folder[cmd[p].out] \in (SUBSET File) \cup {None}
  BY <1>a DEF Inv, TypeOK
<1> USE <1>a, <1>c, <1>d, <1>e DEF FolderInv, RunInv, Inv, TypeOK, run, Late, Is, Named, Here, Own
<1>1. ASSUME NEW c \in Command, Start(p, c)
      PROVE  FolderInv(p)'
  BY <1>1, CommandFields, ProjectAssumption DEF Start, Begin, Aged, Goto
<1>2. ASSUME Validate(p)
      PROVE  FolderInv(p)'
  BY <1>2 DEF Validate, Goto
<1>3. ASSUME CheckReact(p)
      PROVE  FolderInv(p)'
  BY <1>3 DEF CheckReact, Is, Goto
<1>4. ASSUME CheckCordova(p)
      PROVE  FolderInv(p)'
  BY <1>4 DEF CheckCordova, Is, Goto
<1>5. ASSUME CheckNativeScript(p)
      PROVE  FolderInv(p)'
  BY <1>5 DEF CheckNativeScript, Is, Goto
<1>6. ASSUME VersionReact(p)
      PROVE  FolderInv(p)'
  BY <1>6 DEF VersionReact, Found, Is, Aim, Goto
<1>7. ASSUME VersionCordova(p)
      PROVE  FolderInv(p)'
  BY <1>7 DEF VersionCordova, Is, Aim, Goto
<1>8. ASSUME VersionNativeScript(p)
      PROVE  FolderInv(p)'
  BY <1>8 DEF VersionNativeScript, Found, Is, Aim, Goto
<1>9. ASSUME Empty(p)
      PROVE  FolderInv(p)'
  BY <1>9 DEF Empty, Holds, Goto
<1>10. ASSUME Make(p)
      PROVE  FolderInv(p)'
  BY <1>10 DEF Make, Holds, Here, Goto
<1>11. ASSUME NEW part \in Parts, ToolWrites(p, part)
      PROVE  FolderInv(p)'
  <2>1. {p} \X made'[p] = ({p} \X made[p]) \cup {<<p, part>>}
    BY <1>11 DEF ToolWrites
  <2>2. folder'[cmd[p].out] = (IF Here(p) = None THEN {} ELSE Here(p)) \cup {<<p, part>>}
    BY <1>11 DEF ToolWrites, Holds
  <2>3. folder'[cmd[p].out] # None
    <3>1. <<p, part>> \in File
      BY DEF File
    <3>2. folder'[cmd[p].out] \in SUBSET File
      BY <2>2, <3>1, <1>f, <1>11 DEF ToolWrites
    <3>3. QED
      BY <3>2, FilesAreNotNone
  <2>4. Is(p, "react") /\ alone[p] => folder'[cmd[p].out] = {p} \X made'[p]
    BY <1>11, <2>1, <2>2 DEF ToolWrites
  <2>5. ~Is(p, "react") /\ alone[p] => {p} \X made'[p] \subseteq folder'[cmd[p].out]
    <3>1. CASE made[p] = {}
      BY <3>1, <2>1, <2>2
    <3>2. CASE made[p] # {}
      BY <1>11, <3>2, <2>1, <2>2 DEF ToolWrites
    <3>3. QED
      BY <3>1, <3>2
  <2>6. taken[p] = None
    BY <1>11 DEF ToolWrites
  <2>7. QED
    BY <1>11, <2>3, <2>4, <2>5, <2>6 DEF ToolWrites
<1>12. ASSUME ToolEnds(p)
      PROVE  FolderInv(p)'
  BY <1>12 DEF ToolEnds, AfterBuild, Is, Goto
<1>13. ASSUME ToolKilled(p)
      PROVE  FolderInv(p)'
  BY <1>13 DEF ToolKilled, Is, Goto
<1>14. ASSUME Read(p)
      PROVE  FolderInv(p)'
  BY <1>14 DEF Read, Here, Goto
<1>15. ASSUME Accept(p)
      PROVE  FolderInv(p)'
  BY <1>15 DEF Accept, Goto
<1>16. ASSUME Resolved(p)
      PROVE  FolderInv(p)'
  <2>1. CASE Is(p, "react") /\ ~Named(p)
    BY <1>16, <2>1 DEF Resolved, Goto
  <2>2. CASE ~(Is(p, "react") /\ ~Named(p))
    <3>1. /\ pc'[p] = "idle" /\ cmd'[p] = cmd[p] /\ alone'[p] = alone[p] /\ cutShort'[p] = cutShort[p]
          /\ made'[p] = {} /\ taken'[p] = None /\ folder' = folder
      BY <1>16, <2>2 DEF Resolved, Finish, Outcome, Goto
    <3>2. cmd[p] # None /\ alone[p] /\ Is(p, "react") => Named(p) /\ Here(p) = {p} \X made[p]
      BY <1>16, <2>2 DEF Resolved
    <3>3. cmd[p] # None /\ Is(p, "react") /\ ~cutShort[p] => made[p] = Parts
      BY <1>16, <1>a, CommandFields DEF Resolved
    <3>4. QED
      BY <3>1, <3>2, <3>3
  <2>3. QED
    BY <2>1, <2>2
<1>17. ASSUME Sweep(p)
      PROVE  FolderInv(p)'
  BY <1>17 DEF Sweep, Finish, Outcome, Holds, Goto
<1>18. ASSUME Reject(p)
      PROVE  FolderInv(p)'
  BY <1>18 DEF Reject, Finish, Leaves, Aged, Goto
<1>19. ASSUME Kill(p)
      PROVE  FolderInv(p)'
  BY <1>19 DEF Kill, Finish, Leaves, Aged, Goto
<1>20. ASSUME SweepFails(p)
      PROVE  FolderInv(p)'
  <2>1. PICK rest \in Remains(cmd[p].out) : folder' = [folder EXCEPT ![cmd[p].out] = rest]
    BY <1>20 DEF SweepFails, Holds
  <2>2. /\ pc'[p] = "idle" /\ cmd'[p] = cmd[p] /\ alone'[p] = alone[p]
        /\ made'[p] = {} /\ taken'[p] = None
    BY <1>20 DEF SweepFails, Finish, Outcome, Goto
  <2>3. cmd[p] # None /\ alone[p] => rest = None \/ rest \subseteq Own(p)
    <3>1. cmd[p] # None /\ alone[p] => folder[cmd[p].out] = {p} \X made[p]
      BY <1>20 DEF SweepFails
    <3>2. made[p] \subseteq Parts
      OBVIOUS
    <3>3. QED
      BY <2>1, <3>1, <3>2 DEF Remains
  <2>4. folder'[cmd[p].out] = rest /\ cmd[p] # None /\ Is(p, "react") /\ ~Named(p)
    BY <2>1, <1>20 DEF SweepFails
  <2>5. QED
    BY <2>2, <2>3, <2>4
<1>21. QED
  BY <1>1, <1>2, <1>3, <1>4, <1>5, <1>6, <1>7, <1>8, <1>9, <1>10, <1>11, <1>12, <1>13, <1>14, <1>15, <1>16, <1>17, <1>18, <1>19, <1>20 DEF Moves, Step

-----------------------------------------------------------------------------
LEMMA InitInv == Init => Inv
<1> SUFFICES ASSUME Init PROVE Inv
  OBVIOUS
<1>1. TypeOK
  <2>1. {Old} \in SUBSET File
    BY DEF File
  <2>2. folder \in [Folders -> (SUBSET File) \cup {None}]
    BY <2>1 DEF Init
  <2>3. QED
    BY <2>2 DEF Init, TypeOK, Aimed, Places
<1>2. \A p \in Procs : RunInv(p) /\ FolderInv(p) /\ AloneInv(p)
  BY DEF Init, RunInv, Aimed, FolderInv, AloneInv, Late
<1>3. QED
  BY <1>1, <1>2 DEF Inv

LEMMA InvStep == Inv /\ [Next]_vars => Inv'
<1> SUFFICES ASSUME Inv, [Next]_vars PROVE Inv'
  OBVIOUS
<1>1. ASSUME NEW p \in Procs, Moves(p) PROVE Inv'
  <2>1. Typed'
    BY <1>1, TypeStep
  <2>2. RunInv(p)' /\ FolderInv(p)' /\ AloneInv(p)'
    BY <1>1, RunStep, FolderStep, AloneStep
  <2>3. \A q \in Procs \ {p} : Bystander(p, q)
    BY <1>1, BystanderStep
  <2>4. \A q \in Procs \ {p} : RunInv(q)' /\ FolderInv(q)' /\ AloneInv(q)'
    BY <2>3, LookingOn
  <2>5. TypeOK'
    BY <2>1, <2>2, <2>4 DEF Typed, RunsTyped, Ends, RunInv, TypeOK
  <2>6. QED
    BY <2>2, <2>4, <2>5 DEF Inv
<1>2. CASE UNCHANGED vars
  BY <1>2 DEF vars, run, Inv, TypeOK, RunInv, Aimed, FolderInv, AloneInv, Is, Named, Here, Uses, Own, Late
<1>3. QED
  BY <1>1, <1>2 DEF Next, Moves

THEOREM Invariance == Spec => []Inv
<1>1. QED
  BY InitInv, InvStep, PTL DEF Spec

(* Every variable keeps its type.                                           *)
THEOREM TypeCorrect == Spec => []TypeOK
<1>1. Inv => TypeOK
  BY DEF Inv
<1>2. QED
  BY <1>1, Invariance, PTL

(* A run that had its folder for itself, and whose bundler was not ended by *)
(* a signal, releases what it has built and, if it is react-native's,       *)
(* nothing else.                                                            *)
THEOREM OwnBuildReleased == Spec => []ReleasesOwnBuild
<1>1. ASSUME Inv, NEW p \in Procs, taken[p] # None, cmd[p].build, alone[p], ~cutShort[p]
      PROVE  IF Is(p, "react") THEN taken[p] = Own(p) ELSE Own(p) \subseteq taken[p]
  <2>1. cmd[p] # None
    BY <1>1 DEF Inv, RunInv, TypeOK
  <2>2. QED
    BY <1>1, <2>1 DEF Inv, FolderInv
<1>2. Inv => ReleasesOwnBuild
  BY <1>1 DEF ReleasesOwnBuild
<1>3. QED
  BY <1>2, Invariance, PTL

(* What the server takes targets a range semver knows.                      *)
THEOREM TargetsValid == Spec => []OnlyValidTargets
<1>1. Inv => OnlyValidTargets
  BY DEF Inv, TypeOK, RunInv, OnlyValidTargets
<1>2. QED
  BY <1>1, Invariance, PTL

(* After a success a folder the user named holds the new bundle and no more,*)
(* and the temporary one, where it could not be deleted, nothing that this  *)
(* run has not built, unless somebody else has used it.                     *)
THEOREM OutputKept == Spec => []OutputDisposed
<1>1. Inv => OutputDisposed
  BY DEF Inv, RunInv, FolderInv, OutputDisposed
<1>2. QED
  BY <1>1, Invariance, PTL

-----------------------------------------------------------------------------
LEMMA KeptStep ==
    ASSUME Inv, NEW p \in Procs, Moves(p) PROVE OldFilesStay
<1>a. cmd[p] # None => cmd[p] \in Command /\ cmd[p].out \in Folders
  BY CommandFields DEF Inv, TypeOK
<1>c. pc[p] # "idle" => cmd[p] # None
  BY DEF Inv, TypeOK
<1>d. Old \notin Own(p)
  BY OwnFiles
<1>e. \A f \in Folders : folder[f] \in (SUBSET File) \cup {None}
  BY DEF Inv, TypeOK
<1>f. \A files \in SUBSET File : files # None
  BY FilesAreNotNone
<1>g. RunInv(p)
  BY DEF Inv
<1>h. Own(p) \subseteq File /\ Old \in File
  BY OwnFiles
<1> USE <1>a, <1>c, <1>d DEF OldFilesStay, Uses, Is, Named, run
<1>1. ASSUME NEW c \in Command, Start(p, c)
      PROVE  OldFilesStay
  <2> DEFINE before == IF c.kind = "react" /\ folder[c.out] = None
                         THEN [folder EXCEPT ![c.out] = {}] ELSE folder
  <2>1. before \in [Folders -> (SUBSET File) \cup {None}] /\ folder' = Aged(p, before)
    BY <1>1, CommandFields DEF Start, Inv, TypeOK
  <2>2. ASSUME NEW f \in Folders, folder[f] # None, Old \in folder[f]
        PROVE  before[f] = folder[f]
    BY <2>2, CommandFields DEF Inv, TypeOK
  <2> HIDE DEF before
  <2>3. ASSUME NEW f \in Folders, folder[f] # None, Old \in folder[f]
        PROVE  folder'[f] # None /\ Old \in folder'[f]
    BY <2>1, <2>2, <2>3, AgedKeeps
  <2>4. QED
    BY <2>3
<1>2. ASSUME Validate(p)
      PROVE  OldFilesStay
  BY <1>2 DEF Validate, Goto
<1>3. ASSUME CheckReact(p)
      PROVE  OldFilesStay
  BY <1>3 DEF CheckReact, Is, Goto
<1>4. ASSUME CheckCordova(p)
      PROVE  OldFilesStay
  BY <1>4 DEF CheckCordova, Is, Goto
<1>5. ASSUME CheckNativeScript(p)
      PROVE  OldFilesStay
  BY <1>5 DEF CheckNativeScript, Is, Goto
<1>6. ASSUME VersionReact(p)
      PROVE  OldFilesStay
  BY <1>6 DEF VersionReact, Found, Is, Aim, Goto
<1>7. ASSUME VersionCordova(p)
      PROVE  OldFilesStay
  BY <1>7 DEF VersionCordova, Is, Aim, Goto
<1>8. ASSUME VersionNativeScript(p)
      PROVE  OldFilesStay
  BY <1>8 DEF VersionNativeScript, Found, Is, Aim, Goto
<1>9. ASSUME Empty(p)
      PROVE  OldFilesStay
  BY <1>9, <1>g DEF Empty, Holds, Goto, RunInv, Inv, TypeOK
<1>10. ASSUME Make(p)
      PROVE  OldFilesStay
  BY <1>10 DEF Make, Holds, Here, Goto, Inv, TypeOK
<1>11. ASSUME NEW part \in Parts, ToolWrites(p, part)
      PROVE  OldFilesStay
  <2>1. ASSUME NEW f \in Folders, folder[f] # None, Old \in folder[f]
        PROVE  folder'[f] # None /\ Old \in folder'[f]
    <3>1. CASE f # cmd[p].out
      BY <1>11, <2>1, <3>1 DEF ToolWrites, Holds, Inv, TypeOK
    <3>2. CASE f = cmd[p].out
      <4>1. folder'[f] = folder[f] \cup {<<p, part>>}
        BY <1>11, <2>1, <3>2 DEF ToolWrites, Holds, Here, Inv, TypeOK
      <4>2. <<p, part>> \in File
        BY DEF File
      <4>3. folder'[f] \in SUBSET File
        BY <4>1, <4>2, <2>1, <1>e
      <4>4. QED
        BY <4>1, <4>3, <2>1, <1>f
    <3>3. QED
      BY <3>1, <3>2
  <2>2. QED
    BY <2>1
<1>12. ASSUME ToolEnds(p)
      PROVE  OldFilesStay
  BY <1>12 DEF ToolEnds, AfterBuild, Is, Goto
<1>13. ASSUME ToolKilled(p)
      PROVE  OldFilesStay
  BY <1>13 DEF ToolKilled, Is, Goto
<1>14. ASSUME Read(p)
      PROVE  OldFilesStay
  BY <1>14 DEF Read, Here, Goto
<1>15. ASSUME Accept(p)
      PROVE  OldFilesStay
  BY <1>15 DEF Accept, Goto
<1>16. ASSUME Resolved(p)
      PROVE  OldFilesStay
  BY <1>16 DEF Resolved, Is, Finish, Outcome, Goto
<1>17. ASSUME Sweep(p)
      PROVE  OldFilesStay
  BY <1>17, <1>g DEF Sweep, Finish, Outcome, Holds, Goto, RunInv, Inv, TypeOK
<1>18. ASSUME Reject(p)
      PROVE  OldFilesStay
  <2>1. PICK rest \in IF Is(p, "react") THEN Remains(cmd[p].out) ELSE {Here(p)} : Leaves(p, rest)
    BY <1>18 DEF Reject
  <2>2. /\ [folder EXCEPT ![cmd[p].out] = rest] \in [Folders -> (SUBSET File) \cup {None}]
        /\ folder' = Aged(p, [folder EXCEPT ![cmd[p].out] = rest])
    <3>1. cmd[p].out \in Folders /\ folder[cmd[p].out] \in (SUBSET File) \cup {None}
      BY <1>18, <1>e DEF Reject
    <3>2. rest \in (SUBSET File) \cup {None}
      BY <2>1, <3>1 DEF Remains, Here
    <3>3. QED
      BY <2>1, <3>2 DEF Leaves, Inv, TypeOK
  <2>3. ASSUME NEW f \in Folders, folder[f] # None, Old \in folder[f],
               f # cmd[p].out \/ rest = folder[f]
        PROVE  folder'[f] # None /\ Old \in folder'[f]
    <3>1. [folder EXCEPT ![cmd[p].out] = rest][f] = folder[f]
      BY <2>3 DEF Inv, TypeOK
    <3>2. QED
      BY <2>2, <2>3, <3>1, AgedKeeps
  <2>4. CASE Is(p, "react")
    BY <1>18, <2>3, <2>4 DEF Reject, Finish, Goto, Inv, TypeOK
  <2>5. CASE ~Is(p, "react")
    <3>1. rest = Here(p)
      BY <2>1, <2>5
    <3>2. QED
      BY <2>3, <3>1 DEF Here
  <2>6. QED
    BY <2>4, <2>5
<1>19. ASSUME Kill(p)
      PROVE  OldFilesStay
  <2>1. PICK rest \in IF pc[p] \in {"empty", "sweep"} THEN Remains(cmd[p].out) ELSE {Here(p)} : Leaves(p, rest)
    BY <1>19 DEF Kill
  <2>2. /\ [folder EXCEPT ![cmd[p].out] = rest] \in [Folders -> (SUBSET File) \cup {None}]
        /\ folder' = Aged(p, [folder EXCEPT ![cmd[p].out] = rest])
    <3>1. cmd[p].out \in Folders /\ folder[cmd[p].out] \in (SUBSET File) \cup {None}
      BY <1>19, <1>e DEF Kill
    <3>2. rest \in (SUBSET File) \cup {None}
      BY <2>1, <3>1 DEF Remains, Here
    <3>3. QED
      BY <2>1, <3>2 DEF Leaves, Inv, TypeOK
  <2>3. ASSUME NEW f \in Folders, folder[f] # None, Old \in folder[f],
               f # cmd[p].out \/ rest = folder[f]
        PROVE  folder'[f] # None /\ Old \in folder'[f]
    <3>1. [folder EXCEPT ![cmd[p].out] = rest][f] = folder[f]
      BY <2>3 DEF Inv, TypeOK
    <3>2. QED
      BY <2>2, <2>3, <3>1, AgedKeeps
  <2>4. CASE pc[p] \in {"empty", "sweep"}
    BY <1>19, <2>3, <2>4, <1>g DEF Kill, Finish, Goto, RunInv, Inv, TypeOK
  <2>5. CASE pc[p] \notin {"empty", "sweep"}
    <3>1. rest = Here(p)
      BY <2>1, <2>5
    <3>2. QED
      BY <2>3, <3>1 DEF Here
  <2>6. QED
    BY <2>4, <2>5
<1>20. ASSUME SweepFails(p)
      PROVE  OldFilesStay
  <2>1. \A f \in Folders : f # cmd[p].out => folder'[f] = folder[f]
    BY <1>20 DEF SweepFails, Holds, Inv, TypeOK
  <2>2. pc'[p] = "idle" /\ Uses(p, cmd[p].out) /\ Is(p, "react") /\ ~Named(p)
    BY <1>20, <1>g DEF SweepFails, Finish, Goto, RunInv, Inv, TypeOK
  <2>3. QED
    BY <2>1, <2>2
<1>21. QED
  BY <1>1, <1>2, <1>3, <1>4, <1>5, <1>6, <1>7, <1>8, <1>9, <1>10, <1>11, <1>12, <1>13, <1>14, <1>15, <1>16, <1>17, <1>18, <1>19, <1>20 DEF Moves, Step

(* Old files go only by react-native commands that have passed their checks *)
(* or end, and from a folder a user named then only by a failure.           *)
THEOREM OldKept == Spec => OldFilesKept
<1>1. Inv /\ [Next]_vars => [OldFilesStay]_vars
  <2> SUFFICES ASSUME Inv, Next PROVE OldFilesStay
    OBVIOUS
  <2>1. PICK p \in Procs : Moves(p)
    BY DEF Next, Moves
  <2>2. QED
    BY <2>1, KeptStep
<1>2. QED
  BY <1>1, Invariance, PTL DEF Spec, OldFilesKept

-----------------------------------------------------------------------------
(* A command that releases a project has no way back either.                *)

Unmade(p) ==
    (IF "bundle" \in made[p] THEN 0 ELSE 1) + (IF "assets" \in made[p] THEN 0 ELSE 1)

\* The steps a command at this place can still take, at most.
StepsLeft(p) ==
    CASE pc[p] = "validate" -> 13
      [] pc[p] = "check" -> 12
      [] pc[p] = "version" -> IF Is(p, "react") THEN 11 ELSE 5
      [] pc[p] = "empty" -> 10
      [] pc[p] = "make" -> 9
      [] pc[p] = "build" -> 6 + Unmade(p)
      [] pc[p] = "release" -> 4
      [] pc[p] = "upload" -> IF p \in accepted THEN 2 ELSE 3
      [] pc[p] = "sweep" -> 1
      [] OTHER -> 0

\* A step of a command brings its end nearer; nothing else delays it.
Nears(p) ==
    pc[p] # "idle" =>
        IF Step(p) \/ Kill(p) THEN StepsLeft(p)' < StepsLeft(p)
                              ELSE StepsLeft(p)' = StepsLeft(p)
CommandsDwindle == [][\A p \in Procs : Nears(p)]_vars

LEMMA StepsAreFew ==
    ASSUME TypeOK, NEW p \in Procs, pc[p] # "idle" PROVE StepsLeft(p) \in 1..13
<1>1. Unmade(p) \in 0..2
  BY DEF Unmade
<1>2. QED
  BY <1>1 DEF TypeOK, Places, StepsLeft

LEMMA OwnStepNears ==
    ASSUME Inv, NEW p \in Procs, Step(p) \/ Kill(p)
    PROVE  StepsLeft(p)' < StepsLeft(p)
<1>a. TypeOK /\ RunInv(p) /\ Unmade(p) \in 0..2
  BY DEF Inv, Unmade
<1>b. pc[p] # "idle" => StepsLeft(p) \in 1..13
  BY <1>a, StepsAreFew
<1> USE <1>a DEF TypeOK, Places, StepsLeft, Goto
<1>1. CASE Validate(p) \/ CheckReact(p) \/ CheckCordova(p) \/ CheckNativeScript(p)
  <2>1. Unmade(p)' \in 0..2
    BY DEF Unmade
  <2>2. Is(p, "react")' = Is(p, "react")
    BY <1>1 DEF Validate, CheckReact, CheckCordova, CheckNativeScript, Is, run
  <2>3. CASE Validate(p)
    BY <2>3 DEF Validate
  <2>4. CASE CheckReact(p) \/ CheckCordova(p) \/ CheckNativeScript(p)
    BY <2>1, <2>2, <2>4 DEF CheckReact, CheckCordova, CheckNativeScript
  <2>5. QED
    BY <1>1, <2>3, <2>4
<1>2. CASE VersionReact(p) \/ VersionCordova(p) \/ VersionNativeScript(p)
  <2>1. \/ pc[p] = "version" /\ Is(p, "react") /\ pc'[p] = "empty"
        \/ pc[p] = "version" /\ pc'[p] = "release"
    BY <1>2 DEF VersionReact, VersionCordova, VersionNativeScript
  <2>2. QED
    BY <2>1
<1>3. CASE Empty(p) \/ Make(p)
  <2>1. Unmade(p)' \in 0..2
    BY DEF Unmade
  <2>2. QED
    BY <1>3, <2>1 DEF Empty, Make
<1>4. ASSUME NEW part \in Parts, ToolWrites(p, part) PROVE StepsLeft(p)' < StepsLeft(p)
  <2>1. pc[p] = "build" /\ pc'[p] = "build" /\ part \notin made[p]
        /\ made'[p] = made[p] \cup {part}
    BY <1>4 DEF ToolWrites
  <2>2. Unmade(p)' < Unmade(p) /\ Unmade(p)' \in 0..2
    BY <2>1 DEF Unmade, Parts
  <2>3. QED
    BY <2>1, <2>2
<1>5. CASE ToolEnds(p) \/ ToolKilled(p)
  <2>1. pc[p] = "build"
    BY <1>5 DEF ToolEnds, ToolKilled
  <2>2. \/ pc'[p] = "release"
        \/ pc'[p] = "version" /\ ~Is(p, "react")'
    BY <1>5 DEF ToolEnds, ToolKilled, AfterBuild, Is, run
  <2>3. QED
    BY <2>1, <2>2
<1>6. CASE Read(p) \/ Accept(p)
  BY <1>6 DEF Read, Accept
<1>7. CASE Resolved(p) \/ Sweep(p) \/ SweepFails(p) \/ Reject(p) \/ Kill(p)
  <2>1. CASE pc'[p] = "idle" /\ pc[p] # "idle"
    BY <1>b, <2>1
  <2>2. CASE pc'[p] = "sweep" /\ pc[p] = "upload"
    BY <2>2
  <2>3. QED
    BY <1>7, <2>1, <2>2 DEF Resolved, Sweep, SweepFails, Reject, Kill, Finish
<1>8. QED
  BY <1>1, <1>2, <1>3, <1>4, <1>5, <1>6, <1>7 DEF Step

LEMMA OthersLookOn ==
    ASSUME Inv, Next, NEW p \in Procs, pc[p] # "idle", ~(Step(p) \/ Kill(p))
    PROVE  StepsLeft(p)' = StepsLeft(p)
<1>1. PICK q \in Procs : Moves(q)
  BY DEF Next, Moves
<1>2. q # p
  BY <1>1 DEF Moves, Start, Begin
<1>3. Bystander(q, p)
  BY <1>1, <1>2, BystanderStep
<1>4. QED
  BY <1>3 DEF Bystander, StepsLeft, Unmade, Is

(* A command takes thirteen steps at most, its build tool's included, one   *)
(* fewer after each, and no other process in its folder sends it back.      *)
THEOREM CommandsEnd == Spec => CommandsDwindle
<1>1. Inv /\ [Next]_vars => [\A p \in Procs : Nears(p)]_vars
  <2> SUFFICES ASSUME Inv, Next, NEW p \in Procs PROVE Nears(p)
    OBVIOUS
  <2>1. CASE Step(p) \/ Kill(p)
    BY <2>1, OwnStepNears DEF Nears
  <2>2. CASE ~(Step(p) \/ Kill(p))
    BY <2>2, OthersLookOn DEF Nears
  <2>3. QED
    BY <2>1, <2>2
<1>2. QED
  BY <1>1, Invariance, PTL DEF Spec, CommandsDwindle

=============================================================================
