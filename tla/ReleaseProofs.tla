---------------------------- MODULE ReleaseProofs -----------------------------
(***************************************************************************)
(* Proofs about Release, for any processes, contents and keys.             *)
(***************************************************************************)
EXTENDS Release, Naturals, TLAPS

Unzipped == {"sign", "hash", "write", "writing", "list", "zip"}
Zipped == {"zipSig", "auth", "upload", "log", "finally"}

\* What process p has done so far, as the server and the disk show it.
RunInv(p) ==
    /\ pc[p] # "idle" => result[p] = "none"
    /\ pc[p] \in Unzipped => p \notin onDisk
    /\ pc[p] \in Unzipped \cup {"zipSig", "auth", "upload"}
           => p \notin accepted
    /\ pc[p] \notin {"log", "finally"} => answer[p] = "none"
    /\ pc[p] = "log" \/ answer[p] = "ok" => p \in accepted
    /\ pc[p] \in Zipped => zip[p] \in Package
    /\ answer[p] = "conflict" => p \notin accepted /\ zip[p].of \in history
    /\ pc[p] = "write" \/ pc[p] = "writing" => digest[p] \in Contents /\ Signed(p)
    /\ pc[p] = "hash" => Signed(p)

Inv ==
    /\ TypeOK
    /\ latest # None => latest.of \in history
    /\ NoLitter
    /\ SuccessIsReleased
    /\ \A p \in Procs : RunInv(p)

-----------------------------------------------------------------------------
(* Every variable keeps its type.  That a signature is one of a content and *)
(* a key rests on what RunInv says of a process about to write.             *)
LEMMA TypeStep ==
    ASSUME Inv, Next PROVE TypeOK'
<1> USE ReleaseAssumption DEF Inv, RunInv, TypeOK, Places, Answers, Results, SignatureFile, disk, local, server
<1>1. ASSUME NEW p \in Procs, NEW c \in Command, StartRelease(p, c)
      PROVE  TypeOK'
  BY <1>1 DEF StartRelease, Goto, Meet, Sort
<1>2. ASSUME NEW p \in Procs, RejectEarly(p)
      PROVE  TypeOK'
  BY <1>2 DEF RejectEarly, Finish, Goto, Signed
<1>3. ASSUME NEW p \in Procs, SkipSigning(p)
      PROVE  TypeOK'
  BY <1>3 DEF SkipSigning, Goto, Signed, DeletePreviousSignature
<1>4. ASSUME NEW p \in Procs, PrepareSigning(p)
      PROVE  TypeOK'
  BY <1>4 DEF PrepareSigning, Goto, Signed, DeletePreviousSignature
<1>5. ASSUME NEW p \in Procs, HashPackage(p)
      PROVE  TypeOK'
  BY <1>5 DEF HashPackage, Goto, PackageContent
<1>6. ASSUME NEW p \in Procs, OpenSignature(p)
      PROVE  TypeOK'
  BY <1>6 DEF OpenSignature, Goto
<1>7. ASSUME NEW p \in Procs, WriteSignature(p)
      PROVE  TypeOK'
  BY <1>7 DEF WriteSignature, Goto, Signed, Signature, Command
<1>8. ASSUME NEW p \in Procs, ListPackage(p)
      PROVE  TypeOK'
  BY <1>8 DEF ListPackage, Goto
<1>9. ASSUME NEW p \in Procs, ZipPackage(p)
      PROVE  TypeOK'
  BY <1>9 DEF ZipPackage, Goto, Package
<1>10. ASSUME NEW p \in Procs, ZipSignature(p)
      PROVE  TypeOK'
  BY <1>10 DEF ZipSignature, Goto, Package, Zipped
<1>11. ASSUME NEW p \in Procs, FileVanished(p)
      PROVE  TypeOK'
  BY <1>11 DEF FileVanished, Finish, Goto
<1>12. ASSUME NEW p \in Procs, ZipFails(p)
      PROVE  TypeOK'
  BY <1>12 DEF ZipFails, Finish, Goto
<1>13. ASSUME NEW p \in Procs, Authenticate(p)
      PROVE  TypeOK'
  BY <1>13 DEF Authenticate, Settle, Goto
<1>14. ASSUME NEW p \in Procs, Accept(p)
      PROVE  TypeOK'
  BY <1>14 DEF Accept, Settle, Goto, Duplicate, Zipped, Package
<1>15. ASSUME NEW p \in Procs, Refuse(p)
      PROVE  TypeOK'
  BY <1>15 DEF Refuse, Settle, Goto, Duplicate
<1>16. ASSUME NEW p \in Procs, LogSuccess(p)
      PROVE  TypeOK'
  BY <1>16 DEF LogSuccess, Settle, Goto
<1>17. ASSUME NEW p \in Procs, CleanUp(p)
      PROVE  TypeOK'
  BY <1>17 DEF CleanUp, Finish, Goto
<1>18. ASSUME NEW p \in Procs, Kill(p)
      PROVE  TypeOK'
  BY <1>18 DEF Kill, Finish, Goto
<1>19. ASSUME NEW c \in Contents, Build(c)
      PROVE  TypeOK'
  BY <1>19 DEF Build, DeletePreviousSignature, Running
<1>20. ASSUME Clean
      PROVE  TypeOK'
  BY <1>20 DEF Clean, DeletePreviousSignature
<1>21. ASSUME NEW p \in Procs, WriteFails(p)
      PROVE  TypeOK'
  BY <1>21 DEF WriteFails, Finish, Goto
<1>22. QED
  BY <1>1, <1>2, <1>3, <1>4, <1>5, <1>6, <1>7, <1>8, <1>9, <1>10, <1>11, <1>12, <1>13, <1>14, <1>15, <1>16, <1>17, <1>18, <1>19, <1>20, <1>21
     DEF Next, Run, Step, Sign, Core

(* A process that has not accepted, written or answered yet does so only in *)
(* its own steps, and the server's history only grows.                      *)
LEMMA RunStep ==
    ASSUME Inv, Next PROVE \A q \in Procs : RunInv(q)'
<1> USE ReleaseAssumption DEF Inv, RunInv, TypeOK, Unzipped, Zipped, Signed, disk, local, server
<1>1. ASSUME NEW p \in Procs, NEW c \in Command, StartRelease(p, c)
      PROVE  \A q \in Procs : RunInv(q)'
  BY <1>1 DEF StartRelease, Goto
<1>2. ASSUME NEW p \in Procs, RejectEarly(p)
      PROVE  \A q \in Procs : RunInv(q)'
  BY <1>2 DEF RejectEarly, Finish, Goto, Signed
<1>3. ASSUME NEW p \in Procs, SkipSigning(p)
      PROVE  \A q \in Procs : RunInv(q)'
  BY <1>3 DEF SkipSigning, Goto, Signed, DeletePreviousSignature
<1>4. ASSUME NEW p \in Procs, PrepareSigning(p)
      PROVE  \A q \in Procs : RunInv(q)'
  BY <1>4 DEF PrepareSigning, Goto, Signed, DeletePreviousSignature
<1>5. ASSUME NEW p \in Procs, HashPackage(p)
      PROVE  \A q \in Procs : RunInv(q)'
  BY <1>5 DEF HashPackage, Goto, PackageContent
<1>6. ASSUME NEW p \in Procs, OpenSignature(p)
      PROVE  \A q \in Procs : RunInv(q)'
  BY <1>6 DEF OpenSignature, Goto
<1>7. ASSUME NEW p \in Procs, WriteSignature(p)
      PROVE  \A q \in Procs : RunInv(q)'
  BY <1>7 DEF WriteSignature, Goto
<1>8. ASSUME NEW p \in Procs, ListPackage(p)
      PROVE  \A q \in Procs : RunInv(q)'
  BY <1>8 DEF ListPackage, Goto
<1>9. ASSUME NEW p \in Procs, ZipPackage(p)
      PROVE  \A q \in Procs : RunInv(q)'
  BY <1>9 DEF ZipPackage, Goto, Package, SignatureFile
<1>10. ASSUME NEW p \in Procs, ZipSignature(p)
      PROVE  \A q \in Procs : RunInv(q)'
  BY <1>10 DEF ZipSignature, Goto, Package
<1>11. ASSUME NEW p \in Procs, FileVanished(p)
      PROVE  \A q \in Procs : RunInv(q)'
  BY <1>11 DEF FileVanished, Finish, Goto
<1>12. ASSUME NEW p \in Procs, ZipFails(p)
      PROVE  \A q \in Procs : RunInv(q)'
  BY <1>12 DEF ZipFails, Finish, Goto
<1>13. ASSUME NEW p \in Procs, Authenticate(p)
      PROVE  \A q \in Procs : RunInv(q)'
  BY <1>13 DEF Authenticate, Settle, Goto
<1>14. ASSUME NEW p \in Procs, Accept(p)
      PROVE  \A q \in Procs : RunInv(q)'
  BY <1>14 DEF Accept, Settle, Goto, Duplicate
<1>15. ASSUME NEW p \in Procs, Refuse(p)
      PROVE  \A q \in Procs : RunInv(q)'
  BY <1>15 DEF Refuse, Settle, Goto, Duplicate
<1>16. ASSUME NEW p \in Procs, LogSuccess(p)
      PROVE  \A q \in Procs : RunInv(q)'
  BY <1>16 DEF LogSuccess, Settle, Goto
<1>17. ASSUME NEW p \in Procs, CleanUp(p)
      PROVE  \A q \in Procs : RunInv(q)'
  BY <1>17 DEF CleanUp, Finish, Goto
<1>18. ASSUME NEW p \in Procs, Kill(p)
      PROVE  \A q \in Procs : RunInv(q)'
  BY <1>18 DEF Kill, Finish, Goto
<1>19. ASSUME NEW c \in Contents, Build(c)
      PROVE  \A q \in Procs : RunInv(q)'
  BY <1>19 DEF Build, DeletePreviousSignature
<1>20. ASSUME Clean
      PROVE  \A q \in Procs : RunInv(q)'
  BY <1>20 DEF Clean, DeletePreviousSignature
<1>21. ASSUME NEW p \in Procs, WriteFails(p)
      PROVE  \A q \in Procs : RunInv(q)'
  BY <1>21 DEF WriteFails, Finish, Goto
<1>22. QED
  BY <1>1, <1>2, <1>3, <1>4, <1>5, <1>6, <1>7, <1>8, <1>9, <1>10, <1>11, <1>12, <1>13, <1>14, <1>15, <1>16, <1>17, <1>18, <1>19, <1>20, <1>21
     DEF Next, Run, Step, Sign, Core

(* The three statements about what a run leaves behind.                     *)
LEMMA OutcomeStep ==
    ASSUME Inv, Next
    PROVE  ((latest # None => latest.of \in history) /\ NoLitter /\ SuccessIsReleased)'
<1> DEFINE Goal == (latest # None => latest.of \in history) /\ NoLitter /\ SuccessIsReleased
<1> USE DEF Inv, RunInv, TypeOK, Unzipped, Zipped, NoLitter, SuccessIsReleased, disk, local, server
<1>1. ASSUME NEW p \in Procs, NEW c \in Command, StartRelease(p, c)
      PROVE  Goal'
  BY <1>1 DEF StartRelease, Goto
<1>2. ASSUME NEW p \in Procs, RejectEarly(p)
      PROVE  Goal'
  BY <1>2 DEF RejectEarly, Finish, Goto, Signed
<1>3. ASSUME NEW p \in Procs, SkipSigning(p)
      PROVE  Goal'
  BY <1>3 DEF SkipSigning, Goto, Signed, DeletePreviousSignature
<1>4. ASSUME NEW p \in Procs, PrepareSigning(p)
      PROVE  Goal'
  BY <1>4 DEF PrepareSigning, Goto, Signed, DeletePreviousSignature
<1>5. ASSUME NEW p \in Procs, HashPackage(p)
      PROVE  Goal'
  BY <1>5 DEF HashPackage, Goto, PackageContent
<1>6. ASSUME NEW p \in Procs, OpenSignature(p)
      PROVE  Goal'
  BY <1>6 DEF OpenSignature, Goto
<1>7. ASSUME NEW p \in Procs, WriteSignature(p)
      PROVE  Goal'
  BY <1>7 DEF WriteSignature, Goto
<1>8. ASSUME NEW p \in Procs, ListPackage(p)
      PROVE  Goal'
  BY <1>8 DEF ListPackage, Goto
<1>9. ASSUME NEW p \in Procs, ZipPackage(p)
      PROVE  Goal'
  BY <1>9 DEF ZipPackage, Goto
<1>10. ASSUME NEW p \in Procs, ZipSignature(p)
      PROVE  Goal'
  BY <1>10 DEF ZipSignature, Goto
<1>11. ASSUME NEW p \in Procs, FileVanished(p)
      PROVE  Goal'
  BY <1>11 DEF FileVanished, Finish, Goto
<1>12. ASSUME NEW p \in Procs, ZipFails(p)
      PROVE  Goal'
  BY <1>12 DEF ZipFails, Finish, Goto
<1>13. ASSUME NEW p \in Procs, Authenticate(p)
      PROVE  Goal'
  BY <1>13 DEF Authenticate, Settle, Goto
<1>14. ASSUME NEW p \in Procs, Accept(p)
      PROVE  Goal'
  BY <1>14 DEF Accept, Settle, Goto, Duplicate
<1>15. ASSUME NEW p \in Procs, Refuse(p)
      PROVE  Goal'
  BY <1>15 DEF Refuse, Settle, Goto, Duplicate
<1>16. ASSUME NEW p \in Procs, LogSuccess(p)
      PROVE  Goal'
  BY <1>16 DEF LogSuccess, Settle, Goto
<1>17. ASSUME NEW p \in Procs, CleanUp(p)
      PROVE  Goal'
  BY <1>17 DEF CleanUp, Finish, Goto
<1>18. ASSUME NEW p \in Procs, Kill(p)
      PROVE  Goal'
  BY <1>18 DEF Kill, Finish, Goto
<1>19. ASSUME NEW c \in Contents, Build(c)
      PROVE  Goal'
  BY <1>19 DEF Build, DeletePreviousSignature
<1>20. ASSUME Clean
      PROVE  Goal'
  BY <1>20 DEF Clean, DeletePreviousSignature
<1>21. ASSUME NEW p \in Procs, WriteFails(p)
      PROVE  Goal'
  BY <1>21 DEF WriteFails, Finish, Goto
<1>22. QED
  BY <1>1, <1>2, <1>3, <1>4, <1>5, <1>6, <1>7, <1>8, <1>9, <1>10, <1>11, <1>12, <1>13, <1>14, <1>15, <1>16, <1>17, <1>18, <1>19, <1>20, <1>21
     DEF Next, Run, Step, Sign, Core

-----------------------------------------------------------------------------
LEMMA InitInv == Init => Inv
  BY ReleaseAssumption
     DEF Init, Inv, TypeOK, RunInv, NoLitter, SuccessIsReleased, Places, Command,
         SignatureFile, Answers, Results, Unzipped, Zipped

LEMMA InvStep == Inv /\ [Next]_vars => Inv'
<1> SUFFICES ASSUME Inv, [Next]_vars PROVE Inv'
  OBVIOUS
<1>1. CASE Next
  BY <1>1, TypeStep, RunStep, OutcomeStep DEF Inv
<1>2. CASE UNCHANGED vars
  BY <1>2 DEF vars, disk, local, server, Inv, TypeOK, RunInv, NoLitter,
              SuccessIsReleased, Signed
<1>3. QED
  BY <1>1, <1>2

THEOREM Invariance == Spec => []Inv
<1>1. QED
  BY InitInv, InvStep, PTL DEF Spec

(* Every variable keeps its type, the signature file's content included.    *)
THEOREM TypeCorrect == Spec => []TypeOK
<1>1. Inv => TypeOK
  BY DEF Inv
<1>2. QED
  BY <1>1, Invariance, PTL

(* A run leaves its zip behind only if it was killed or could not write it. *)
THEOREM ZipRemoved == Spec => []NoLitter
<1>1. Inv => NoLitter
  BY DEF Inv
<1>2. QED
  BY <1>1, Invariance, PTL

(* Success is reported only of a package the server took from this run, a   *)
(* duplicate is excused only for content that is out.                       *)
THEOREM SuccessIsTrue == Spec => []SuccessIsReleased
<1>1. Inv => SuccessIsReleased
  BY DEF Inv
<1>2. QED
  BY <1>1, Invariance, PTL

-----------------------------------------------------------------------------
(* Each run is a run of ReleaseOutcome: at most one release, then a report. *)
LEMMA OutcomeRefines ==
    ASSUME Inv, Next PROVE [Outcome!Next]_(Outcome!vars)
<1> USE DEF Inv, RunInv, TypeOK, Unzipped, Zipped, Stage, Outcome!Next, Outcome!vars, Outcome!Begin, Outcome!Publish, Outcome!End, disk, local, server
<1>1. ASSUME NEW p \in Procs, NEW c \in Command, StartRelease(p, c)
      PROVE  [Outcome!Next]_(Outcome!vars)
  BY <1>1 DEF StartRelease, Goto
<1>2. ASSUME NEW p \in Procs, RejectEarly(p)
      PROVE  [Outcome!Next]_(Outcome!vars)
  BY <1>2 DEF RejectEarly, Finish, Goto, Signed
<1>3. ASSUME NEW p \in Procs, SkipSigning(p)
      PROVE  [Outcome!Next]_(Outcome!vars)
  BY <1>3 DEF SkipSigning, Goto, Signed, DeletePreviousSignature
<1>4. ASSUME NEW p \in Procs, PrepareSigning(p)
      PROVE  [Outcome!Next]_(Outcome!vars)
  BY <1>4 DEF PrepareSigning, Goto, Signed, DeletePreviousSignature
<1>5. ASSUME NEW p \in Procs, HashPackage(p)
      PROVE  [Outcome!Next]_(Outcome!vars)
  BY <1>5 DEF HashPackage, Goto, PackageContent
<1>6. ASSUME NEW p \in Procs, OpenSignature(p)
      PROVE  [Outcome!Next]_(Outcome!vars)
  BY <1>6 DEF OpenSignature, Goto
<1>7. ASSUME NEW p \in Procs, WriteSignature(p)
      PROVE  [Outcome!Next]_(Outcome!vars)
  BY <1>7 DEF WriteSignature, Goto
<1>8. ASSUME NEW p \in Procs, ListPackage(p)
      PROVE  [Outcome!Next]_(Outcome!vars)
  BY <1>8 DEF ListPackage, Goto
<1>9. ASSUME NEW p \in Procs, ZipPackage(p)
      PROVE  [Outcome!Next]_(Outcome!vars)
  BY <1>9 DEF ZipPackage, Goto
<1>10. ASSUME NEW p \in Procs, ZipSignature(p)
      PROVE  [Outcome!Next]_(Outcome!vars)
  BY <1>10 DEF ZipSignature, Goto
<1>11. ASSUME NEW p \in Procs, FileVanished(p)
      PROVE  [Outcome!Next]_(Outcome!vars)
  BY <1>11 DEF FileVanished, Finish, Goto
<1>12. ASSUME NEW p \in Procs, ZipFails(p)
      PROVE  [Outcome!Next]_(Outcome!vars)
  BY <1>12 DEF ZipFails, Finish, Goto
<1>13. ASSUME NEW p \in Procs, Authenticate(p)
      PROVE  [Outcome!Next]_(Outcome!vars)
  BY <1>13 DEF Authenticate, Settle, Goto
<1>14. ASSUME NEW p \in Procs, Accept(p)
      PROVE  [Outcome!Next]_(Outcome!vars)
  <2>1. /\ Stage' = [Stage EXCEPT ![p] = "released"]
        /\ Stage[p] = "running"
    BY <1>14 DEF Accept, Settle, Goto
  <2>2. zip[p].of \in Contents /\ history' = history \cup {zip[p].of}
    BY <1>14 DEF Accept, Package
  <2>3. UNCHANGED result
    BY <1>14 DEF Accept, Settle
  <2>4. Outcome!Publish(p)
    BY <2>1, <2>2, <2>3
  <2>5. QED
    BY <2>4
<1>15. ASSUME NEW p \in Procs, Refuse(p)
      PROVE  [Outcome!Next]_(Outcome!vars)
  BY <1>15 DEF Refuse, Settle, Goto, Duplicate
<1>16. ASSUME NEW p \in Procs, LogSuccess(p)
      PROVE  [Outcome!Next]_(Outcome!vars)
  BY <1>16 DEF LogSuccess, Settle, Goto
<1>17. ASSUME NEW p \in Procs, CleanUp(p)
      PROVE  [Outcome!Next]_(Outcome!vars)
  <2> DEFINE r == CASE answer[p] = "ok" -> "ok"
                    [] answer[p] = "conflict" /\ cmd[p].noDuplicateError -> "warned"
                    [] OTHER -> "failed"
  <2>1. Stage' = [Stage EXCEPT ![p] = "idle"] /\ Stage[p] # "idle"
    BY <1>17 DEF CleanUp, Finish, Goto
  <2>2. result' = [result EXCEPT ![p] = r] /\ UNCHANGED history
    BY <1>17 DEF CleanUp, Finish
  <2>3. r \in {"ok", "warned", "failed"}
    OBVIOUS
  <2>4. r = "ok" => Stage[p] = "released"
    BY <1>17 DEF CleanUp
  <2>5. r = "warned" => Stage[p] = "running" /\ history # {}
    BY <1>17 DEF CleanUp
  <2> HIDE DEF r
  <2>6. Outcome!End(p)
    BY <2>1, <2>2, <2>3, <2>4, <2>5
  <2>7. QED
    BY <2>6
<1>18. ASSUME NEW p \in Procs, Kill(p)
      PROVE  [Outcome!Next]_(Outcome!vars)
  <2>1. /\ Stage' = [Stage EXCEPT ![p] = "idle"]
        /\ Stage[p] # "idle"
    BY <1>18 DEF Kill, Finish, Goto
  <2> DEFINE outcome == [q \in Procs |-> CASE result[q] \in {"ok", "warned", "none"} -> result[q]
                                              [] OTHER -> "failed"]
  <2>2. outcome' = [outcome EXCEPT ![p] = "failed"] /\ UNCHANGED history
    BY <1>18 DEF Kill, Finish
  <2> HIDE DEF outcome
  <2>3. Outcome!End(p)
    BY <2>1, <2>2 DEF outcome
  <2>4. QED
    BY <2>3
<1>19. ASSUME NEW c \in Contents, Build(c)
      PROVE  [Outcome!Next]_(Outcome!vars)
  BY <1>19 DEF Build, DeletePreviousSignature
<1>20. ASSUME Clean
      PROVE  [Outcome!Next]_(Outcome!vars)
  BY <1>20 DEF Clean, DeletePreviousSignature
<1>21. ASSUME NEW p \in Procs, WriteFails(p)
      PROVE  [Outcome!Next]_(Outcome!vars)
  BY <1>21 DEF WriteFails, Finish, Goto
<1>22. QED
  BY <1>1, <1>2, <1>3, <1>4, <1>5, <1>6, <1>7, <1>8, <1>9, <1>10, <1>11, <1>12, <1>13, <1>14, <1>15, <1>16, <1>17, <1>18, <1>19, <1>20, <1>21
     DEF Next, Run, Step, Sign, Core

-----------------------------------------------------------------------------
(* A run knows whom it overlaps with, and a handle on the signature file is *)
(* held only by one that is writing; a single file never gets a signature.  *)
Overlaps(p) ==
    /\ \A q \in Procs \ {p} :
          pc[p] # "idle" /\ pc[q] # "idle" => Sort(cmd[q]) \in met[p]
    /\ p \in writers => pc[p] = "writing"

FileInv ==
    isFile =>
        /\ sig = None
        /\ \A p \in Procs :
              /\ pc[p] \notin {"writing", "zipSig"}
              /\ listed[p] = FALSE
              /\ pc[p] \in {"list", "zip"} \cup Zipped => ~Signed(p)
              /\ pc[p] \in Zipped => zip[p].sig = None

(* What a run without a key keeps true once it has deleted the old          *)
(* signature, and what one with a key does once it has hashed the package.  *)
Cleared(p) ==
    ~Signed(p) /\ "signed" \notin met[p] =>
        /\ pc[p] \in {"list", "zip"} => sig = None
        /\ pc[p] = "zip" => listed[p] = FALSE
        /\ pc[p] # "zipSig"
        /\ pc[p] \in Zipped => zip[p].sig = None

Mine(p) == [key |-> cmd[p].key, of |-> digest[p]]

Kept(p) ==
    Signed(p) /\ met[p] = {} /\ ~isFile =>
        /\ pc[p] \in {"write", "writing", "list", "zip", "zipSig"} => digest[p] = tree
        /\ pc[p] \in {"list", "zip", "zipSig"} => digest[p] \in Contents /\ sig = Mine(p)
        /\ pc[p] = "writing" => p \in writers /\ sig = Torn
        /\ pc[p] = "zip" => listed[p]
        /\ pc[p] = "zipSig" => zip[p].of = digest[p]
        /\ pc[p] \in Zipped \ {"zipSig"} =>
              zip[p].sig = [key |-> cmd[p].key, of |-> zip[p].of]

LEMMA OverlapStep ==
    ASSUME Inv, \A q \in Procs : Overlaps(q), Next PROVE \A q \in Procs : Overlaps(q)'
<1> USE DEF Overlaps, Inv, TypeOK, Sort, disk, local, server
<1>1. ASSUME NEW p \in Procs, NEW c \in Command, StartRelease(p, c)
      PROVE  \A q \in Procs : Overlaps(q)'
  BY <1>1 DEF StartRelease, Goto, Meet, Running
<1>2. ASSUME NEW p \in Procs, RejectEarly(p)
      PROVE  \A q \in Procs : Overlaps(q)'
  BY <1>2 DEF RejectEarly, Finish, Goto, Signed
<1>3. ASSUME NEW p \in Procs, SkipSigning(p)
      PROVE  \A q \in Procs : Overlaps(q)'
  BY <1>3 DEF SkipSigning, Goto, Signed, DeletePreviousSignature
<1>4. ASSUME NEW p \in Procs, PrepareSigning(p)
      PROVE  \A q \in Procs : Overlaps(q)'
  BY <1>4 DEF PrepareSigning, Goto, Signed, DeletePreviousSignature
<1>5. ASSUME NEW p \in Procs, HashPackage(p)
      PROVE  \A q \in Procs : Overlaps(q)'
  BY <1>5 DEF HashPackage, Goto, PackageContent
<1>6. ASSUME NEW p \in Procs, OpenSignature(p)
      PROVE  \A q \in Procs : Overlaps(q)'
  BY <1>6 DEF OpenSignature, Goto
<1>7. ASSUME NEW p \in Procs, WriteSignature(p)
      PROVE  \A q \in Procs : Overlaps(q)'
  BY <1>7 DEF WriteSignature, Goto
<1>8. ASSUME NEW p \in Procs, ListPackage(p)
      PROVE  \A q \in Procs : Overlaps(q)'
  BY <1>8 DEF ListPackage, Goto
<1>9. ASSUME NEW p \in Procs, ZipPackage(p)
      PROVE  \A q \in Procs : Overlaps(q)'
  BY <1>9 DEF ZipPackage, Goto
<1>10. ASSUME NEW p \in Procs, ZipSignature(p)
      PROVE  \A q \in Procs : Overlaps(q)'
  BY <1>10 DEF ZipSignature, Goto
<1>11. ASSUME NEW p \in Procs, FileVanished(p)
      PROVE  \A q \in Procs : Overlaps(q)'
  BY <1>11 DEF FileVanished, Finish, Goto
<1>12. ASSUME NEW p \in Procs, ZipFails(p)
      PROVE  \A q \in Procs : Overlaps(q)'
  BY <1>12 DEF ZipFails, Finish, Goto
<1>13. ASSUME NEW p \in Procs, Authenticate(p)
      PROVE  \A q \in Procs : Overlaps(q)'
  BY <1>13 DEF Authenticate, Settle, Goto
<1>14. ASSUME NEW p \in Procs, Accept(p)
      PROVE  \A q \in Procs : Overlaps(q)'
  BY <1>14 DEF Accept, Settle, Goto, Duplicate
<1>15. ASSUME NEW p \in Procs, Refuse(p)
      PROVE  \A q \in Procs : Overlaps(q)'
  BY <1>15 DEF Refuse, Settle, Goto, Duplicate
<1>16. ASSUME NEW p \in Procs, LogSuccess(p)
      PROVE  \A q \in Procs : Overlaps(q)'
  BY <1>16 DEF LogSuccess, Settle, Goto
<1>17. ASSUME NEW p \in Procs, CleanUp(p)
      PROVE  \A q \in Procs : Overlaps(q)'
  BY <1>17 DEF CleanUp, Finish, Goto
<1>18. ASSUME NEW p \in Procs, Kill(p)
      PROVE  \A q \in Procs : Overlaps(q)'
  BY <1>18 DEF Kill, Finish, Goto
<1>19. ASSUME NEW c \in Contents, Build(c)
      PROVE  \A q \in Procs : Overlaps(q)'
  BY <1>19 DEF Build, DeletePreviousSignature, Running
<1>20. ASSUME Clean
      PROVE  \A q \in Procs : Overlaps(q)'
  BY <1>20 DEF Clean, DeletePreviousSignature, Running
<1>21. ASSUME NEW p \in Procs, WriteFails(p)
      PROVE  \A q \in Procs : Overlaps(q)'
  BY <1>21 DEF WriteFails, Finish, Goto
<1>22. QED
  BY <1>1, <1>2, <1>3, <1>4, <1>5, <1>6, <1>7, <1>8, <1>9, <1>10, <1>11, <1>12, <1>13, <1>14, <1>15, <1>16, <1>17, <1>18, <1>19, <1>20, <1>21
     DEF Next, Run, Step, Sign, Core

LEMMA FileStep ==
    ASSUME Inv, FileInv, Next PROVE FileInv'
<1> USE ReleaseAssumption DEF FileInv, Inv, RunInv, TypeOK, Signed, Zipped, disk, local, server
<1>1. ASSUME NEW p \in Procs, NEW c \in Command, StartRelease(p, c)
      PROVE  FileInv'
  BY <1>1 DEF StartRelease, Goto
<1>2. ASSUME NEW p \in Procs, RejectEarly(p)
      PROVE  FileInv'
  BY <1>2 DEF RejectEarly, Finish, Goto, Signed
<1>3. ASSUME NEW p \in Procs, SkipSigning(p)
      PROVE  FileInv'
  BY <1>3 DEF SkipSigning, Goto, Signed, DeletePreviousSignature
<1>4. ASSUME NEW p \in Procs, PrepareSigning(p)
      PROVE  FileInv'
  BY <1>4 DEF PrepareSigning, Goto, Signed, DeletePreviousSignature
<1>5. ASSUME NEW p \in Procs, HashPackage(p)
      PROVE  FileInv'
  BY <1>5 DEF HashPackage, Goto, PackageContent
<1>6. ASSUME NEW p \in Procs, OpenSignature(p)
      PROVE  FileInv'
  BY <1>6 DEF OpenSignature, Goto
<1>7. ASSUME NEW p \in Procs, WriteSignature(p)
      PROVE  FileInv'
  BY <1>7 DEF WriteSignature, Goto
<1>8. ASSUME NEW p \in Procs, ListPackage(p)
      PROVE  FileInv'
  BY <1>8 DEF ListPackage, Goto
<1>9. ASSUME NEW p \in Procs, ZipPackage(p)
      PROVE  FileInv'
  BY <1>9 DEF ZipPackage, Goto
<1>10. ASSUME NEW p \in Procs, ZipSignature(p)
      PROVE  FileInv'
  BY <1>10 DEF ZipSignature, Goto
<1>11. ASSUME NEW p \in Procs, FileVanished(p)
      PROVE  FileInv'
  BY <1>11 DEF FileVanished, Finish, Goto
<1>12. ASSUME NEW p \in Procs, ZipFails(p)
      PROVE  FileInv'
  BY <1>12 DEF ZipFails, Finish, Goto
<1>13. ASSUME NEW p \in Procs, Authenticate(p)
      PROVE  FileInv'
  BY <1>13 DEF Authenticate, Settle, Goto
<1>14. ASSUME NEW p \in Procs, Accept(p)
      PROVE  FileInv'
  BY <1>14 DEF Accept, Settle, Goto, Duplicate
<1>15. ASSUME NEW p \in Procs, Refuse(p)
      PROVE  FileInv'
  BY <1>15 DEF Refuse, Settle, Goto, Duplicate
<1>16. ASSUME NEW p \in Procs, LogSuccess(p)
      PROVE  FileInv'
  BY <1>16 DEF LogSuccess, Settle, Goto
<1>17. ASSUME NEW p \in Procs, CleanUp(p)
      PROVE  FileInv'
  BY <1>17 DEF CleanUp, Finish, Goto
<1>18. ASSUME NEW p \in Procs, Kill(p)
      PROVE  FileInv'
  BY <1>18 DEF Kill, Finish, Goto
<1>19. ASSUME NEW c \in Contents, Build(c)
      PROVE  FileInv'
  BY <1>19 DEF Build, DeletePreviousSignature
<1>20. ASSUME Clean
      PROVE  FileInv'
  BY <1>20 DEF Clean, DeletePreviousSignature
<1>21. ASSUME NEW p \in Procs, WriteFails(p)
      PROVE  FileInv'
  BY <1>21 DEF WriteFails, Finish, Goto
<1>22. QED
  BY <1>1, <1>2, <1>3, <1>4, <1>5, <1>6, <1>7, <1>8, <1>9, <1>10, <1>11, <1>12, <1>13, <1>14, <1>15, <1>16, <1>17, <1>18, <1>19, <1>20, <1>21
     DEF Next, Run, Step, Sign, Core

LEMMA ClearedStep ==
    ASSUME Inv, \A q \in Procs : Overlaps(q), FileInv, \A q \in Procs : Cleared(q), Next
    PROVE  \A q \in Procs : Cleared(q)'
<1> USE ReleaseAssumption DEF Overlaps, FileInv, Cleared, Sort, Inv, RunInv, TypeOK, Signed, Zipped, disk, local, server
<1>1. ASSUME NEW p \in Procs, NEW c \in Command, StartRelease(p, c)
      PROVE  \A q \in Procs : Cleared(q)'
  BY <1>1 DEF StartRelease, Goto, Meet, Running
<1>2. ASSUME NEW p \in Procs, RejectEarly(p)
      PROVE  \A q \in Procs : Cleared(q)'
  BY <1>2 DEF RejectEarly, Finish, Goto, Signed
<1>3. ASSUME NEW p \in Procs, SkipSigning(p)
      PROVE  \A q \in Procs : Cleared(q)'
  BY <1>3 DEF SkipSigning, Goto, Signed, DeletePreviousSignature
<1>4. ASSUME NEW p \in Procs, PrepareSigning(p)
      PROVE  \A q \in Procs : Cleared(q)'
  BY <1>4 DEF PrepareSigning, Goto, Signed, DeletePreviousSignature
<1>5. ASSUME NEW p \in Procs, HashPackage(p)
      PROVE  \A q \in Procs : Cleared(q)'
  BY <1>5 DEF HashPackage, Goto, PackageContent
<1>6. ASSUME NEW p \in Procs, OpenSignature(p)
      PROVE  \A q \in Procs : Cleared(q)'
  BY <1>6 DEF OpenSignature, Goto
<1>7. ASSUME NEW p \in Procs, WriteSignature(p)
      PROVE  \A q \in Procs : Cleared(q)'
  BY <1>7 DEF WriteSignature, Goto
<1>8. ASSUME NEW p \in Procs, ListPackage(p)
      PROVE  \A q \in Procs : Cleared(q)'
  BY <1>8 DEF ListPackage, Goto
<1>9. ASSUME NEW p \in Procs, ZipPackage(p)
      PROVE  \A q \in Procs : Cleared(q)'
  BY <1>9 DEF ZipPackage, Goto
<1>10. ASSUME NEW p \in Procs, ZipSignature(p)
      PROVE  \A q \in Procs : Cleared(q)'
  BY <1>10 DEF ZipSignature, Goto
<1>11. ASSUME NEW p \in Procs, FileVanished(p)
      PROVE  \A q \in Procs : Cleared(q)'
  BY <1>11 DEF FileVanished, Finish, Goto
<1>12. ASSUME NEW p \in Procs, ZipFails(p)
      PROVE  \A q \in Procs : Cleared(q)'
  BY <1>12 DEF ZipFails, Finish, Goto
<1>13. ASSUME NEW p \in Procs, Authenticate(p)
      PROVE  \A q \in Procs : Cleared(q)'
  BY <1>13 DEF Authenticate, Settle, Goto
<1>14. ASSUME NEW p \in Procs, Accept(p)
      PROVE  \A q \in Procs : Cleared(q)'
  BY <1>14 DEF Accept, Settle, Goto, Duplicate
<1>15. ASSUME NEW p \in Procs, Refuse(p)
      PROVE  \A q \in Procs : Cleared(q)'
  BY <1>15 DEF Refuse, Settle, Goto, Duplicate
<1>16. ASSUME NEW p \in Procs, LogSuccess(p)
      PROVE  \A q \in Procs : Cleared(q)'
  BY <1>16 DEF LogSuccess, Settle, Goto
<1>17. ASSUME NEW p \in Procs, CleanUp(p)
      PROVE  \A q \in Procs : Cleared(q)'
  BY <1>17 DEF CleanUp, Finish, Goto
<1>18. ASSUME NEW p \in Procs, Kill(p)
      PROVE  \A q \in Procs : Cleared(q)'
  BY <1>18 DEF Kill, Finish, Goto
<1>19. ASSUME NEW c \in Contents, Build(c)
      PROVE  \A q \in Procs : Cleared(q)'
  BY <1>19 DEF Build, DeletePreviousSignature, Running
<1>20. ASSUME Clean
      PROVE  \A q \in Procs : Cleared(q)'
  BY <1>20 DEF Clean, DeletePreviousSignature, Running
<1>21. ASSUME NEW p \in Procs, WriteFails(p)
      PROVE  \A q \in Procs : Cleared(q)'
  BY <1>21 DEF WriteFails, Finish, Goto
<1>22. QED
  BY <1>1, <1>2, <1>3, <1>4, <1>5, <1>6, <1>7, <1>8, <1>9, <1>10, <1>11, <1>12, <1>13, <1>14, <1>15, <1>16, <1>17, <1>18, <1>19, <1>20, <1>21
     DEF Next, Run, Step, Sign, Core

LEMMA KeptStep ==
    ASSUME Inv, \A q \in Procs : Overlaps(q), FileInv, \A q \in Procs : Kept(q), Next
    PROVE  \A q \in Procs : Kept(q)'
<1> USE ReleaseAssumption DEF Overlaps, FileInv, Kept, Mine, Sort, Inv, RunInv, TypeOK, Signed, Zipped, disk, local, server
<1>1. ASSUME NEW p \in Procs, NEW c \in Command, StartRelease(p, c)
      PROVE  \A q \in Procs : Kept(q)'
  BY <1>1 DEF StartRelease, Goto, Meet, Running
<1>2. ASSUME NEW p \in Procs, RejectEarly(p)
      PROVE  \A q \in Procs : Kept(q)'
  BY <1>2 DEF RejectEarly, Finish, Goto, Signed
<1>3. ASSUME NEW p \in Procs, SkipSigning(p)
      PROVE  \A q \in Procs : Kept(q)'
  BY <1>3 DEF SkipSigning, Goto, Signed, DeletePreviousSignature
<1>4. ASSUME NEW p \in Procs, PrepareSigning(p)
      PROVE  \A q \in Procs : Kept(q)'
  BY <1>4 DEF PrepareSigning, Goto, Signed, DeletePreviousSignature
<1>5. ASSUME NEW p \in Procs, HashPackage(p)
      PROVE  \A q \in Procs : Kept(q)'
  BY <1>5 DEF HashPackage, Goto, PackageContent
<1>6. ASSUME NEW p \in Procs, OpenSignature(p)
      PROVE  \A q \in Procs : Kept(q)'
  BY <1>6 DEF OpenSignature, Goto
<1>7. ASSUME NEW p \in Procs, WriteSignature(p)
      PROVE  \A q \in Procs : Kept(q)'
  BY <1>7 DEF WriteSignature, Goto, Signature, Command
<1>8. ASSUME NEW p \in Procs, ListPackage(p)
      PROVE  \A q \in Procs : Kept(q)'
  <2>1. ASSUME Signed(p), met[p] = {}, ~isFile PROVE sig # None
    <3>1. sig = Mine(p) /\ digest[p] \in Contents
      BY <1>8, <2>1 DEF ListPackage
    <3>2. cmd[p].key \in SigningKeys
      BY <2>1 DEF Command
    <3>3. Mine(p) \in Signature
      BY <3>1, <3>2 DEF Signature
    <3>4. QED
      BY <3>1, <3>3
  <2>2. listed' = [listed EXCEPT ![p] = sig # None] /\ pc' = [pc EXCEPT ![p] = "zip"]
    BY <1>8 DEF ListPackage, Goto
  <2>3. UNCHANGED <<isFile, tree, sig, writers, cmd, digest, met, zip>> /\ pc[p] = "list"
    BY <1>8 DEF ListPackage, Goto
  <2>4. ASSUME Signed(p), met[p] = {}, ~isFile PROVE listed'[p]
    <3>1. DOMAIN listed = Procs
      OBVIOUS
    <3>2. listed'[p] = (sig # None)
      BY <2>2, <3>1, Zenon
    <3>3. QED
      BY <2>1, <2>4, <3>2
  <2>5. QED
    BY <2>2, <2>3, <2>4
<1>9. ASSUME NEW p \in Procs, ZipPackage(p)
      PROVE  \A q \in Procs : Kept(q)'
  <2>1. zip' = [zip EXCEPT ![p] = [of |-> tree, sig |-> None]]
    BY <1>9 DEF ZipPackage
  <2>2. UNCHANGED <<isFile, tree, sig, writers, cmd, digest, listed, met>> /\ pc[p] = "zip"
    BY <1>9 DEF ZipPackage, Goto
  <2>3. pc' = [pc EXCEPT ![p] = IF listed[p] THEN "zipSig" ELSE "auth"]
    BY <1>9 DEF ZipPackage, Goto
  <2>4. Kept(p)'
    <3>1. SUFFICES ASSUME Signed(p), met[p] = {}, ~isFile PROVE Kept(p)'
      BY <2>2
    <3>2. pc'[p] = "zipSig" /\ digest[p] = tree /\ digest[p] \in Contents /\ sig = Mine(p)
      BY <2>2, <2>3, <3>1
    <3>3. zip'[p].of = digest[p]
      BY <2>1, <3>2
    <3>4. QED
      BY <2>2, <3>2, <3>3
  <2>5. ASSUME NEW q \in Procs, q # p PROVE Kept(q)'
    BY <2>1, <2>2, <2>3, <2>5
  <2>6. QED
    BY <2>4, <2>5
<1>10. ASSUME NEW p \in Procs, ZipSignature(p)
      PROVE  \A q \in Procs : Kept(q)'
  BY <1>10 DEF ZipSignature, Goto
<1>11. ASSUME NEW p \in Procs, FileVanished(p)
      PROVE  \A q \in Procs : Kept(q)'
  BY <1>11 DEF FileVanished, Finish, Goto
<1>12. ASSUME NEW p \in Procs, ZipFails(p)
      PROVE  \A q \in Procs : Kept(q)'
  BY <1>12 DEF ZipFails, Finish, Goto
<1>13. ASSUME NEW p \in Procs, Authenticate(p)
      PROVE  \A q \in Procs : Kept(q)'
  BY <1>13 DEF Authenticate, Settle, Goto
<1>14. ASSUME NEW p \in Procs, Accept(p)
      PROVE  \A q \in Procs : Kept(q)'
  BY <1>14 DEF Accept, Settle, Goto, Duplicate
<1>15. ASSUME NEW p \in Procs, Refuse(p)
      PROVE  \A q \in Procs : Kept(q)'
  BY <1>15 DEF Refuse, Settle, Goto, Duplicate
<1>16. ASSUME NEW p \in Procs, LogSuccess(p)
      PROVE  \A q \in Procs : Kept(q)'
  BY <1>16 DEF LogSuccess, Settle, Goto
<1>17. ASSUME NEW p \in Procs, CleanUp(p)
      PROVE  \A q \in Procs : Kept(q)'
  BY <1>17 DEF CleanUp, Finish, Goto
<1>18. ASSUME NEW p \in Procs, Kill(p)
      PROVE  \A q \in Procs : Kept(q)'
  BY <1>18 DEF Kill, Finish, Goto
<1>19. ASSUME NEW c \in Contents, Build(c)
      PROVE  \A q \in Procs : Kept(q)'
  BY <1>19 DEF Build, DeletePreviousSignature, Running
<1>20. ASSUME Clean
      PROVE  \A q \in Procs : Kept(q)'
  BY <1>20 DEF Clean, DeletePreviousSignature, Running
<1>21. ASSUME NEW p \in Procs, WriteFails(p)
      PROVE  \A q \in Procs : Kept(q)'
  BY <1>21 DEF WriteFails, Finish, Goto
<1>22. QED
  BY <1>1, <1>2, <1>3, <1>4, <1>5, <1>6, <1>7, <1>8, <1>9, <1>10, <1>11, <1>12, <1>13, <1>14, <1>15, <1>16, <1>17, <1>18, <1>19, <1>20, <1>21
     DEF Next, Run, Step, Sign, Core

SigInv ==
    /\ FileInv
    /\ \A p \in Procs : Overlaps(p) /\ Cleared(p) /\ Kept(p)

LEMMA SignatureInvariance == Spec => [](Inv /\ SigInv)
<1>1. Init => SigInv
  BY DEF Init, SigInv, FileInv, Overlaps, Cleared, Kept, Zipped
<1>2. Inv /\ SigInv /\ [Next]_vars => SigInv'
  <2>1. Inv /\ SigInv /\ Next => SigInv'
    <3>1. ASSUME Inv, SigInv, Next PROVE SigInv'
      <4>1. FileInv /\ \A q \in Procs : Overlaps(q) /\ Cleared(q) /\ Kept(q)
        BY <3>1 DEF SigInv
      <4>2. FileInv'
        BY <3>1, <4>1, FileStep
      <4>3. \A q \in Procs : Overlaps(q)'
        BY <3>1, <4>1, OverlapStep
      <4>4. \A q \in Procs : Cleared(q)'
        BY <3>1, <4>1, ClearedStep
      <4>5. \A q \in Procs : Kept(q)'
        BY <3>1, <4>1, KeptStep
      <4>6. QED
        BY <4>2, <4>3, <4>4, <4>5 DEF SigInv
    <3>2. QED
      BY <3>1
  <2>2. SigInv /\ UNCHANGED vars => SigInv'
    BY DEF vars, disk, local, SigInv, FileInv, Overlaps, Cleared, Kept, Mine, Signed, Sort
  <2>3. QED
    BY <2>1, <2>2
<1>3. QED
  BY <1>1, <1>2, Invariance, PTL DEF Spec

(* A command without a key releases no signature unless a signed release    *)
(* overlaps with it, whatever else does and whatever builds do.             *)
THEOREM NeverSigned == Spec => []UnsignedStaysUnsigned
<1>1. SigInv => UnsignedStaysUnsigned
  BY DEF SigInv, Cleared, UnsignedStaysUnsigned, Zipped
<1>2. QED
  BY <1>1, SignatureInvariance, PTL

(* A command with a key uploads that key's signature of what it uploads, if *)
(* nobody else touches the package while it runs.                           *)
THEOREM SignedRight == Spec => []ReleasedAsAsked
<1>1. SigInv => ReleasedAsAsked
  BY DEF SigInv, FileInv, Kept, ReleasedAsAsked, Zipped
<1>2. QED
  BY <1>1, SignatureInvariance, PTL

(* However runs overlap, and whatever builds do meanwhile, each command     *)
(* releases its package at most once and reports success only after that.   *)
THEOREM ImplementsReleaseOutcome == Spec => ImplementsOutcome
<1>1. Init => Outcome!Init
  BY DEF Init, Outcome!Init, Stage
<1>2. Inv /\ [Next]_vars => [Outcome!Next]_(Outcome!vars)
  <2>1. Inv /\ Next => [Outcome!Next]_(Outcome!vars)
    BY OutcomeRefines
  <2>2. UNCHANGED vars => UNCHANGED Outcome!vars
    BY DEF vars, disk, local, server, Outcome!vars, Stage
  <2>3. QED
    BY <2>1, <2>2
<1>3. QED
  BY <1>1, <1>2, Invariance, PTL DEF Spec, ImplementsOutcome, Outcome!Spec

-----------------------------------------------------------------------------
(* What safety there is in ReleasesFinish: a run has no way back.               *)

\* The steps a run at this place can still take, at most.
StepsLeft(p) ==
    CASE pc[p] = "sign" -> 11
      [] pc[p] = "hash" -> 10
      [] pc[p] = "write" -> 9
      [] pc[p] = "writing" -> 8
      [] pc[p] = "list" -> 7
      [] pc[p] = "zip" -> 6
      [] pc[p] = "zipSig" -> 5
      [] pc[p] = "auth" -> 4
      [] pc[p] = "upload" -> 3
      [] pc[p] = "log" -> 2
      [] pc[p] = "finally" -> 1
      [] OTHER -> 0

\* A step of a run brings its end nearer; nothing else delays it.
Nears(p) ==
    pc[p] # "idle" =>
        IF Step(p) \/ Kill(p) THEN StepsLeft(p)' < StepsLeft(p)
                              ELSE StepsLeft(p)' = StepsLeft(p)
RunsDwindle == [][\A p \in Procs : Nears(p)]_vars

LEMMA StepsAreFew ==
    ASSUME TypeOK, NEW p \in Procs, pc[p] # "idle" PROVE StepsLeft(p) \in 1..11
BY DEF TypeOK, Places, StepsLeft

LEMMA OwnStepNears ==
    ASSUME TypeOK, NEW p \in Procs, Step(p) \/ Kill(p)
    PROVE  StepsLeft(p)' < StepsLeft(p)
<1> USE DEF TypeOK, Places, StepsLeft, Goto
<1>1. CASE pc'[p] = "idle"
  <2>1. pc[p] # "idle"
    BY DEF Step, Sign, Core, RejectEarly, SkipSigning, PrepareSigning, HashPackage,
           OpenSignature, WriteSignature, WriteFails, ListPackage, ZipPackage, ZipSignature,
           FileVanished, ZipFails, Authenticate, Accept, Refuse, LogSuccess, CleanUp, Kill
  <2>2. QED
    BY <1>1, <2>1, StepsAreFew
<1>2. CASE pc'[p] # "idle"
  <2>1. CASE SkipSigning(p) \/ PrepareSigning(p) \/ HashPackage(p)
    BY <2>1 DEF SkipSigning, PrepareSigning, HashPackage
  <2>2. CASE OpenSignature(p) \/ WriteSignature(p)
    BY <2>2 DEF OpenSignature, WriteSignature
  <2>3. CASE ListPackage(p) \/ ZipPackage(p) \/ ZipSignature(p)
    BY <2>3 DEF ListPackage, ZipPackage, ZipSignature
  <2>4. CASE Authenticate(p) \/ Accept(p) \/ Refuse(p) \/ LogSuccess(p)
    BY <2>4 DEF Authenticate, Accept, Refuse, LogSuccess, Settle
  <2>5. CASE RejectEarly(p) \/ WriteFails(p) \/ FileVanished(p) \/ ZipFails(p) \/ CleanUp(p) \/ Kill(p)
    BY <1>2, <2>5 DEF RejectEarly, WriteFails, FileVanished, ZipFails, CleanUp, Kill, Finish
  <2>6. QED
    BY <2>1, <2>2, <2>3, <2>4, <2>5 DEF Step, Sign, Core
<1>3. QED
  BY <1>1, <1>2

LEMMA OthersLookOn ==
    ASSUME TypeOK, Next, NEW p \in Procs, pc[p] # "idle", ~(Step(p) \/ Kill(p))
    PROVE  pc'[p] = pc[p]
<1> USE DEF TypeOK, Goto, Finish
<1>1. CASE \E c \in Contents : Build(c)
  BY <1>1 DEF Build
<1>2. CASE Clean
  BY <1>2 DEF Clean
<1>3. ASSUME NEW q \in Procs, Run(q) PROVE pc'[p] = pc[p]
  <2>1. CASE \E c \in Command : StartRelease(q, c)
    BY <2>1 DEF StartRelease
  <2>2. CASE q # p /\ Sign(q)
    BY <2>2 DEF Sign, RejectEarly, SkipSigning, PrepareSigning, HashPackage,
                OpenSignature, WriteSignature, WriteFails
  <2>3. CASE q # p /\ Core(q)
    BY <2>3 DEF Core, ListPackage, ZipPackage, ZipSignature, FileVanished, ZipFails,
                Authenticate, Accept, Refuse, LogSuccess, CleanUp, Settle
  <2>4. CASE q # p /\ Kill(q)
    BY <2>4 DEF Kill
  <2>5. QED
    BY <1>3, <2>1, <2>2, <2>3, <2>4 DEF Run, Step
<1>4. QED
  BY <1>1, <1>2, <1>3 DEF Next

(* A run that has begun takes eleven steps at most before it is idle again, *)
(* one fewer after each of its own, and no other process and no build puts  *)
(* it back: ReleasesFinish then asks no more than that it takes them.           *)
THEOREM RunsEnd == Spec => RunsDwindle
<1>1. TypeOK /\ [Next]_vars => [\A p \in Procs : Nears(p)]_vars
  <2> SUFFICES ASSUME TypeOK, Next, NEW p \in Procs PROVE Nears(p)
    OBVIOUS
  <2>1. CASE Step(p) \/ Kill(p)
    BY <2>1, OwnStepNears DEF Nears
  <2>2. CASE ~(Step(p) \/ Kill(p)) /\ pc[p] # "idle"
    <3>1. StepsLeft(p)' = StepsLeft(p)
      BY <2>2, OthersLookOn DEF StepsLeft
    <3>2. QED
      BY <2>2, <3>1 DEF Nears
  <2>3. QED
    BY <2>1, <2>2 DEF Nears
<1>2. QED
  BY <1>1, TypeCorrect, PTL DEF Spec, RunsDwindle

=============================================================================
