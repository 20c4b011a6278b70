-------------------------- MODULE CommandLineProofs --------------------------
(***************************************************************************)
(* The help text is printed at most once and instead of a command, and a   *)
(* line that keeps to a usage text is run, however long it is and whatever *)
(* its names are.  The builders are a table, which says what it demands of *)
(* the words of a path (Demand); a line that keeps to one of them stays on *)
(* the way to that builder (OnTrack), breaks none of its rules, and makes  *)
(* the case of createCommand for it.                                       *)
(***************************************************************************)
EXTENDS CommandLine, SequenceTheorems, TLAPS

\* The commands of one word.
Singles == {"debug", "login", "logout", "register", "whoami", "patch", "promote", "release",
            "rollback"}

\* The second words.
Subcommands == {"add", "rename", "list", "ls", "remove", "rm", "clear", "history", "h"}

D(min, max, known) == [min |-> min, max |-> max, known |-> known]

Single(x) ==
    CASE x \in {"logout", "whoami"} -> D(0, 0, {})
      [] x \in {"login", "register"} -> D(0, 1, {})
      [] x = "debug" -> D(1, 1, {})
      [] x = "patch" -> D(2, 2, {"badRollout"})
      [] x = "promote" -> D(3, 3, {"badRollout"})
      [] x = "release" -> D(2, 2, {"badRollout", "noDeployment"})
      [] x = "rollback" -> D(2, 2, {})
      [] OTHER -> D(2, 2, {})

Double(c, x) ==
    CASE c = "access-key" -> IF x \in List THEN D(0, 0, {}) ELSE D(1, 1, {})
      [] c = "app" -> IF x \in List THEN D(0, 0, {})
                      ELSE IF x \in Removal THEN D(1, 1, {}) ELSE D(2, 2, {})
      [] c = "collaborator" -> IF x \in List THEN D(1, 1, {}) ELSE D(2, 2, {})
      [] c = "deployment" -> CASE x = "add" -> D(1, 2, {"default"})
                               [] x = "rename" -> D(3, 3, {})
                               [] x \in List -> D(1, 1, {})
                               [] OTHER -> D(2, 2, {})
      [] OTHER -> D(0, 0, {})

Demand(p) ==
    CASE Len(p) = 0 -> D(1, 1, {})
      [] Len(p) = 1 -> Single(p[1])
      [] OTHER -> Double(p[1], p[2])

IsSingle(b) == \E x \in Singles : b.path = <<x>>
IsDouble(b) == \E c \in Categories, x \in Subcommands : b.path = <<c, x>>

\* What a member of a builder is.
Entry(b) ==
    b = [path |-> b.path, min |-> Demand(b.path).min, max |-> Demand(b.path).max,
         known |-> Demand(b.path).known]

LEMMA BuilderEntry ==
    ASSUME NEW names, NEW min, NEW max, NEW known, NEW b \in Builder(names, min, max, known)
    PROVE  b.path \in names /\ b = [path |-> b.path, min |-> min, max |-> max, known |-> known]
  BY DEF Builder

\* A builder below a category.
LEMMA DoubleEntry ==
    ASSUME NEW c \in Categories, NEW names \in SUBSET Subcommands, NEW min, NEW max, NEW known,
           NEW b \in Builder(Named(c, names), min, max, known),
           \A x \in names : Double(c, x) = D(min, max, known)
    PROVE  IsDouble(b) /\ Entry(b)
<1>1. b.path \in Named(c, names)
      /\ b = [path |-> b.path, min |-> min, max |-> max, known |-> known]
  BY BuilderEntry
<1>2. PICK x \in names : b.path = <<c, x>>
  BY <1>1 DEF Named
<1>3. Len(b.path) = 2 /\ b.path[1] = c /\ b.path[2] = x
  BY <1>2
<1>4. Demand(b.path) = D(min, max, known)
  BY <1>3 DEF Demand
<1>5. QED
  BY <1>1, <1>2, <1>4 DEF Entry, IsDouble, D

LEMMA SingleEntry ==
    ASSUME NEW x \in Singles, NEW min, NEW max, NEW known,
           NEW b \in Builder({<<x>>}, min, max, known),
           Single(x) = D(min, max, known)
    PROVE  IsSingle(b) /\ Entry(b)
<1>1. b.path = <<x>> /\ b = [path |-> b.path, min |-> min, max |-> max, known |-> known]
  BY BuilderEntry
<1>2. Len(b.path) = 1 /\ b.path[1] = x
  BY <1>1
<1>3. Demand(b.path) = D(min, max, known)
  BY <1>2 DEF Demand
<1>4. QED
  BY <1>1, <1>3 DEF Entry, IsSingle, D


(* Every builder is in the table.                                           *)
LEMMA OfferedShape ==
    ASSUME NEW b \in Offered PROVE (IsSingle(b) \/ IsDouble(b)) /\ Entry(b)
<1>1. ASSUME b \in accessKeyAdd PROVE (IsSingle(b) \/ IsDouble(b)) /\ Entry(b)
  <2>1. /\ "access-key" \in Categories /\ {"add"} \in SUBSET Subcommands
        /\ \A x \in {"add"} : Double("access-key", x) = D(1, 1, {})
    BY DEF Double, Single, List, Removal, Subcommands, Categories, Singles, D
  <2>2. QED
    BY <1>1, <2>1, DoubleEntry DEF accessKeyAdd
<1>2. ASSUME b \in accessKeyList PROVE (IsSingle(b) \/ IsDouble(b)) /\ Entry(b)
  <2>1. /\ "access-key" \in Categories /\ List \in SUBSET Subcommands
        /\ \A x \in List : Double("access-key", x) = D(0, 0, {})
    BY DEF Double, Single, List, Removal, Subcommands, Categories, Singles, D
  <2>2. QED
    BY <1>2, <2>1, DoubleEntry DEF accessKeyList
<1>3. ASSUME b \in accessKeyRemove PROVE (IsSingle(b) \/ IsDouble(b)) /\ Entry(b)
  <2>1. /\ "access-key" \in Categories /\ Removal \in SUBSET Subcommands
        /\ \A x \in Removal : Double("access-key", x) = D(1, 1, {})
    BY DEF Double, Single, List, Removal, Subcommands, Categories, Singles, D
  <2>2. QED
    BY <1>3, <2>1, DoubleEntry DEF accessKeyRemove
<1>4. ASSUME b \in appAddOrRename PROVE (IsSingle(b) \/ IsDouble(b)) /\ Entry(b)
  <2>1. /\ "app" \in Categories /\ {"add", "rename"} \in SUBSET Subcommands
        /\ \A x \in {"add", "rename"} : Double("app", x) = D(2, 2, {})
    BY DEF Double, Single, List, Removal, Subcommands, Categories, Singles, D
  <2>2. QED
    BY <1>4, <2>1, DoubleEntry DEF appAddOrRename
<1>5. ASSUME b \in appList PROVE (IsSingle(b) \/ IsDouble(b)) /\ Entry(b)
  <2>1. /\ "app" \in Categories /\ List \in SUBSET Subcommands
        /\ \A x \in List : Double("app", x) = D(0, 0, {})
    BY DEF Double, Single, List, Removal, Subcommands, Categories, Singles, D
  <2>2. QED
    BY <1>5, <2>1, DoubleEntry DEF appList
<1>6. ASSUME b \in appRemove PROVE (IsSingle(b) \/ IsDouble(b)) /\ Entry(b)
  <2>1. /\ "app" \in Categories /\ Removal \in SUBSET Subcommands
        /\ \A x \in Removal : Double("app", x) = D(1, 1, {})
    BY DEF Double, Single, List, Removal, Subcommands, Categories, Singles, D
  <2>2. QED
    BY <1>6, <2>1, DoubleEntry DEF appRemove
<1>7. ASSUME b \in collaboratorAdd PROVE (IsSingle(b) \/ IsDouble(b)) /\ Entry(b)
  <2>1. /\ "collaborator" \in Categories /\ {"add"} \in SUBSET Subcommands
        /\ \A x \in {"add"} : Double("collaborator", x) = D(2, 2, {})
    BY DEF Double, Single, List, Removal, Subcommands, Categories, Singles, D
  <2>2. QED
    BY <1>7, <2>1, DoubleEntry DEF collaboratorAdd
<1>8. ASSUME b \in listCollaborators PROVE (IsSingle(b) \/ IsDouble(b)) /\ Entry(b)
  <2>1. /\ "collaborator" \in Categories /\ List \in SUBSET Subcommands
        /\ \A x \in List : Double("collaborator", x) = D(1, 1, {})
    BY DEF Double, Single, List, Removal, Subcommands, Categories, Singles, D
  <2>2. QED
    BY <1>8, <2>1, DoubleEntry DEF listCollaborators
<1>9. ASSUME b \in removeCollaborator PROVE (IsSingle(b) \/ IsDouble(b)) /\ Entry(b)
  <2>1. /\ "collaborator" \in Categories /\ Removal \in SUBSET Subcommands
        /\ \A x \in Removal : Double("collaborator", x) = D(2, 2, {})
    BY DEF Double, Single, List, Removal, Subcommands, Categories, Singles, D
  <2>2. QED
    BY <1>9, <2>1, DoubleEntry DEF removeCollaborator
<1>10. ASSUME b \in deploymentAddOrRename PROVE (IsSingle(b) \/ IsDouble(b)) /\ Entry(b)
  <2>1. ASSUME b \in Builder(Named("deployment", {"add"}), 1, 2, {"default"}) PROVE IsDouble(b) /\ Entry(b)
    <3>1. /\ "deployment" \in Categories /\ {"add"} \in SUBSET Subcommands
        /\ \A x \in {"add"} : Double("deployment", x) = D(1, 2, {"default"})
      BY DEF Double, Single, List, Removal, Subcommands, Categories, Singles, D
    <3>2. QED
      BY <2>1, <3>1, DoubleEntry
  <2>2. ASSUME b \in Builder(Named("deployment", {"rename"}), 3, 3, {}) PROVE IsDouble(b) /\ Entry(b)
    <3>1. /\ "deployment" \in Categories /\ {"rename"} \in SUBSET Subcommands
        /\ \A x \in {"rename"} : Double("deployment", x) = D(3, 3, {})
      BY DEF Double, Single, List, Removal, Subcommands, Categories, Singles, D
    <3>2. QED
      BY <2>2, <3>1, DoubleEntry
  <2>3. QED
    BY <1>10, <2>1, <2>2 DEF deploymentAddOrRename
<1>11. ASSUME b \in deploymentHistoryClear PROVE (IsSingle(b) \/ IsDouble(b)) /\ Entry(b)
  <2>1. /\ "deployment" \in Categories /\ {"clear"} \in SUBSET Subcommands
        /\ \A x \in {"clear"} : Double("deployment", x) = D(2, 2, {})
    BY DEF Double, Single, List, Removal, Subcommands, Categories, Singles, D
  <2>2. QED
    BY <1>11, <2>1, DoubleEntry DEF deploymentHistoryClear
<1>12. ASSUME b \in deploymentList PROVE (IsSingle(b) \/ IsDouble(b)) /\ Entry(b)
  <2>1. /\ "deployment" \in Categories /\ List \in SUBSET Subcommands
        /\ \A x \in List : Double("deployment", x) = D(1, 1, {})
    BY DEF Double, Single, List, Removal, Subcommands, Categories, Singles, D
  <2>2. QED
    BY <1>12, <2>1, DoubleEntry DEF deploymentList
<1>13. ASSUME b \in deploymentRemove PROVE (IsSingle(b) \/ IsDouble(b)) /\ Entry(b)
  <2>1. /\ "deployment" \in Categories /\ Removal \in SUBSET Subcommands
        /\ \A x \in Removal : Double("deployment", x) = D(2, 2, {})
    BY DEF Double, Single, List, Removal, Subcommands, Categories, Singles, D
  <2>2. QED
    BY <1>13, <2>1, DoubleEntry DEF deploymentRemove
<1>14. ASSUME b \in deploymentHistory PROVE (IsSingle(b) \/ IsDouble(b)) /\ Entry(b)
  <2>1. /\ "deployment" \in Categories /\ {"history", "h"} \in SUBSET Subcommands
        /\ \A x \in {"history", "h"} : Double("deployment", x) = D(2, 2, {})
    BY DEF Double, Single, List, Removal, Subcommands, Categories, Singles, D
  <2>2. QED
    BY <1>14, <2>1, DoubleEntry DEF deploymentHistory
<1>15. ASSUME b \in debug PROVE (IsSingle(b) \/ IsDouble(b)) /\ Entry(b)
  <2>1. /\ "debug" \in Singles /\ Single("debug") = D(1, 1, {})
    BY DEF Double, Single, List, Removal, Subcommands, Categories, Singles, D
  <2>2. QED
    BY <1>15, <2>1, SingleEntry DEF debug
<1>16. ASSUME b \in login PROVE (IsSingle(b) \/ IsDouble(b)) /\ Entry(b)
  <2>1. /\ "login" \in Singles /\ Single("login") = D(0, 1, {})
    BY DEF Double, Single, List, Removal, Subcommands, Categories, Singles, D
  <2>2. QED
    BY <1>16, <2>1, SingleEntry DEF login
<1>17. ASSUME b \in logout PROVE (IsSingle(b) \/ IsDouble(b)) /\ Entry(b)
  <2>1. /\ "logout" \in Singles /\ Single("logout") = D(0, 0, {})
    BY DEF Double, Single, List, Removal, Subcommands, Categories, Singles, D
  <2>2. QED
    BY <1>17, <2>1, SingleEntry DEF logout
<1>18. ASSUME b \in register PROVE (IsSingle(b) \/ IsDouble(b)) /\ Entry(b)
  <2>1. /\ "register" \in Singles /\ Single("register") = D(0, 1, {})
    BY DEF Double, Single, List, Removal, Subcommands, Categories, Singles, D
  <2>2. QED
    BY <1>18, <2>1, SingleEntry DEF register
<1>19. ASSUME b \in whoami PROVE (IsSingle(b) \/ IsDouble(b)) /\ Entry(b)
  <2>1. /\ "whoami" \in Singles /\ Single("whoami") = D(0, 0, {})
    BY DEF Double, Single, List, Removal, Subcommands, Categories, Singles, D
  <2>2. QED
    BY <1>19, <2>1, SingleEntry DEF whoami
<1>20. ASSUME b \in patch PROVE (IsSingle(b) \/ IsDouble(b)) /\ Entry(b)
  <2>1. /\ "patch" \in Singles /\ Single("patch") = D(2, 2, {"badRollout"})
    BY DEF Double, Single, List, Removal, Subcommands, Categories, Singles, D
  <2>2. QED
    BY <1>20, <2>1, SingleEntry DEF patch
<1>21. ASSUME b \in promote PROVE (IsSingle(b) \/ IsDouble(b)) /\ Entry(b)
  <2>1. /\ "promote" \in Singles /\ Single("promote") = D(3, 3, {"badRollout"})
    BY DEF Double, Single, List, Removal, Subcommands, Categories, Singles, D
  <2>2. QED
    BY <1>21, <2>1, SingleEntry DEF promote
<1>22. ASSUME b \in release PROVE (IsSingle(b) \/ IsDouble(b)) /\ Entry(b)
  <2>1. /\ "release" \in Singles /\ Single("release") = D(2, 2, {"badRollout", "noDeployment"})
    BY DEF Double, Single, List, Removal, Subcommands, Categories, Singles, D
  <2>2. QED
    BY <1>22, <2>1, SingleEntry DEF release
<1>23. ASSUME b \in rollback PROVE (IsSingle(b) \/ IsDouble(b)) /\ Entry(b)
  <2>1. /\ "rollback" \in Singles /\ Single("rollback") = D(2, 2, {})
    BY DEF Double, Single, List, Removal, Subcommands, Categories, Singles, D
  <2>2. QED
    BY <1>23, <2>1, SingleEntry DEF rollback
<1>24. QED
  BY <1>1, <1>2, <1>3, <1>4, <1>5, <1>6, <1>7, <1>8, <1>9, <1>10, <1>11, <1>12, <1>13, <1>14, <1>15, <1>16, <1>17, <1>18, <1>19, <1>20, <1>21, <1>22, <1>23 DEF Offered, update

Word == Singles \cup Categories \cup Subcommands

(* A path by its length and its words.                                      *)
LEMMA Lengths ==
    ASSUME NEW b \in Offered
    PROVE  /\ IsSingle(b) => /\ Len(b.path) = 1 /\ b.path[1] \in Singles
                             /\ b.path = <<b.path[1]>>
           /\ IsDouble(b) => /\ Len(b.path) = 2 /\ b.path[1] \in Categories
                             /\ b.path[2] \in Subcommands
                             /\ b.path = <<b.path[1], b.path[2]>>
           /\ IsSingle(b) \/ IsDouble(b)
           /\ b.path \in Seq(Word)
<1>1. ASSUME NEW x \in Singles, b.path = <<x>>
      PROVE  Len(b.path) = 1 /\ b.path[1] = x /\ b.path \in Seq(Word)
  BY <1>1 DEF Word
<1>2. ASSUME NEW c \in Categories, NEW x \in Subcommands, b.path = <<c, x>>
      PROVE  Len(b.path) = 2 /\ b.path[1] = c /\ b.path[2] = x /\ b.path \in Seq(Word)
  BY <1>2 DEF Word
<1>3. IsSingle(b) \/ IsDouble(b)
  BY OfferedShape
<1>4. QED
  BY <1>1, <1>2, <1>3 DEF IsSingle, IsDouble

LEMMA Unique ==
    ASSUME NEW a \in Offered, NEW b \in Offered, a.path = b.path PROVE a = b
  BY OfferedShape DEF Entry

\* The builder of a command is the one its path finds.
LEMMA HereIs ==
    ASSUME NEW b \in Offered, path = b.path PROVE Here = b
<1>1. ASSUME NEW l \in Level PROVE Len(l.path) = 0 \/ \E c \in Categories : l.path = <<c>>
  <2>1. ASSUME l \in Builder({<< >>}, 1, 1, {}) PROVE Len(l.path) = 0
    BY <2>1, BuilderEntry
  <2>2. ASSUME l \in Builder({<<c>> : c \in Categories}, 2, 2, {})
        PROVE  \E c \in Categories : l.path = <<c>>
    BY <2>2, BuilderEntry
  <2>3. QED
    BY <2>1, <2>2 DEF Level
<1>2. ASSUME NEW l \in Level PROVE l.path # b.path
  <2>1. CASE IsSingle(b)
    <3>1. PICK x \in Singles : b.path = <<x>>
      BY <2>1 DEF IsSingle
    <3>2. Len(b.path) = 1 /\ b.path[1] = x
      BY <3>1
    <3>3. ASSUME NEW c \in Categories, l.path = <<c>>, l.path = b.path PROVE FALSE
      BY <3>2, <3>3 DEF Categories, Singles
    <3>4. QED
      BY <1>1, <3>2, <3>3
  <2>2. CASE IsDouble(b)
    <3>1. PICK c \in Categories, x \in Subcommands : b.path = <<c, x>>
      BY <2>2 DEF IsDouble
    <3>2. Len(b.path) = 2
      BY <3>1
    <3>3. QED
      BY <1>1, <3>2
  <2>3. QED
    BY <2>1, <2>2, OfferedShape
<1>3. \A a \in Offered \cup Level : a.path = path <=> a = b
  BY <1>2, Unique
<1>4. QED
  BY <1>3 DEF Here

-----------------------------------------------------------------------------
(* What a line that begins with a path has for its first words.             *)
LEMMA Prefix1 ==
    ASSUME NEW S, NEW w \in Seq(S), NEW x, IsPrefix(<<x>>, w)
    PROVE  Len(w) >= 1 /\ w[1] = x
<1>1. Len(w) >= 1 /\ SubSeq(<<x>>, 1, 1) = SubSeq(w, 1, 1)
  BY DEF IsPrefix
<1>2. SubSeq(<<x>>, 1, 1)[1] = x
  OBVIOUS
<1>3. SubSeq(w, 1, 1)[1] = w[1]
  BY <1>1
<1>4. QED
  BY <1>1, <1>2, <1>3

LEMMA Prefix2 ==
    ASSUME NEW S, NEW w \in Seq(S), NEW x, NEW y, IsPrefix(<<x, y>>, w)
    PROVE  Len(w) >= 2 /\ w[1] = x /\ w[2] = y
<1>1. Len(w) >= 2 /\ SubSeq(<<x, y>>, 1, 2) = SubSeq(w, 1, 2)
  BY DEF IsPrefix
<1>2. SubSeq(<<x, y>>, 1, 2)[1] = x /\ SubSeq(<<x, y>>, 1, 2)[2] = y
  OBVIOUS
<1>3. SubSeq(w, 1, 2)[1] = w[1] /\ SubSeq(w, 1, 2)[2] = w[2]
  BY <1>1
<1>4. QED
  BY <1>1, <1>2, <1>3

(* The words that enter a builder: at first those a command begins with,    *)
(* below a category those of its commands, and below a command none.        *)
LEMMA NamesFirst ==
    ASSUME path = << >> PROVE \A b \in Offered : b.path[1] \in Names
<1>1. ASSUME NEW b \in Offered PROVE b.path[1] \in Names
  <2>1. Len(b.path) > Len(path) /\ IsPrefix(path, b.path)
    BY OfferedShape DEF IsSingle, IsDouble, IsPrefix
  <2>2. QED
    BY <2>1 DEF Names
<1>2. QED
  BY <1>1

LEMMA NamesBelow ==
    ASSUME NEW c \in Categories, path = <<c>>
    PROVE  /\ \A b \in Offered : IsDouble(b) /\ b.path[1] = c => b.path[2] \in Names
           /\ Names \subseteq Subcommands
<1>1. ASSUME NEW b \in Offered, IsDouble(b), b.path[1] = c PROVE b.path[2] \in Names
  <2>1. Len(b.path) > Len(path) /\ IsPrefix(path, b.path)
    BY <1>1 DEF IsDouble, IsPrefix
  <2>2. QED
    BY <2>1 DEF Names
<1>2. ASSUME NEW b \in Offered, Len(b.path) > 1 PROVE b.path[2] \in Subcommands
  BY <1>2, OfferedShape DEF IsSingle, IsDouble
<1>3. QED
  BY <1>1, <1>2 DEF Names

LEMMA NamesNone ==
    ASSUME NEW a \in Offered, path = a.path PROVE Names = {}
<1>1. ASSUME NEW b \in Offered, Len(b.path) > Len(path), IsPrefix(path, b.path) PROVE FALSE
  <2>1. /\ Len(a.path) = 1 /\ a.path[1] \in Singles /\ a.path = <<a.path[1]>>
        /\ b.path[1] \in Categories
    BY <1>1, Lengths
  <2>2. b.path[1] = a.path[1]
    BY <1>1, <2>1, Lengths, Prefix1
  <2>3. QED
    BY <2>1, <2>2 DEF Categories, Singles
<1>2. QED
  BY <1>1 DEF Names

-----------------------------------------------------------------------------
\* What createCommand makes of the words of b, if it gets them.
CaseOf(b, c) ==
    /\ c.path = b.path
    /\ \A i \in c.needs : i \in 1..(Len(b.path) + b.min)
    /\ c.type = "deploymentAdd" => b.path = <<"deployment", "add">>

LEMMA CaseIs ==
    ASSUME NEW b \in Offered, NEW c \in Cases, NEW type, NEW needs,
           c = [path |-> b.path, type |-> type, needs |-> needs],
           needs \subseteq 1..(Len(b.path) + b.min),
           type # "deploymentAdd" \/ b.path = <<"deployment", "add">>
    PROVE  CaseOf(b, c)
  BY DEF CaseOf

LEMMA NamedLength ==
    ASSUME NEW c, NEW names, NEW p \in Named(c, names)
    PROVE  Len(p) = 2 /\ \E n \in names : p = <<c, n>>
<1>1. PICK n \in names : p = <<c, n>>
  BY DEF Named
<1>2. QED
  BY <1>1

(* Every builder has its case, and that needs no word the builder does not  *)
(* demand.                                                                  *)
LEMMA CaseFor ==
    ASSUME NEW b \in Offered PROVE \E c \in Cases : CaseOf(b, c)
<1>1. ASSUME b \in accessKeyAdd PROVE \E c \in Cases : CaseOf(b, c)
  <2>1. b.path \in Named("access-key", {"add"}) /\ b.min = 1
    BY <1>1, BuilderEntry DEF accessKeyAdd
  <2>2. Case(Named("access-key", {"add"}), "accessKeyAdd", {3}) \subseteq Cases
    BY DEF Cases, accessKeyCases
  <2>3. Len(b.path) = 2
    BY <2>1, NamedLength
  <2>4. {3} \subseteq 1..(Len(b.path) + b.min)
    BY <2>1, <2>3
  <2>5. "accessKeyAdd" # "deploymentAdd"
    OBVIOUS
  <2>6. PICK c \in Cases : c = [path |-> b.path, type |-> "accessKeyAdd", needs |-> {3}]
    BY <2>1, <2>2 DEF Case
  <2>7. QED
    BY <2>4, <2>5, <2>6, CaseIs
<1>2. ASSUME b \in accessKeyList PROVE \E c \in Cases : CaseOf(b, c)
  <2>1. b.path \in Named("access-key", List) /\ b.min = 0
    BY <1>2, BuilderEntry DEF accessKeyList
  <2>2. Case(Named("access-key", List), "accessKeyList", {}) \subseteq Cases
    BY DEF Cases, accessKeyCases
  <2>3. Len(b.path) = 2
    BY <2>1, NamedLength
  <2>4. {} \subseteq 1..(Len(b.path) + b.min)
    BY <2>1, <2>3
  <2>5. "accessKeyList" # "deploymentAdd"
    OBVIOUS
  <2>6. PICK c \in Cases : c = [path |-> b.path, type |-> "accessKeyList", needs |-> {}]
    BY <2>1, <2>2 DEF Case
  <2>7. QED
    BY <2>4, <2>5, <2>6, CaseIs
<1>3. ASSUME b \in accessKeyRemove PROVE \E c \in Cases : CaseOf(b, c)
  <2>1. b.path \in Named("access-key", Removal) /\ b.min = 1
    BY <1>3, BuilderEntry DEF accessKeyRemove
  <2>2. Case(Named("access-key", Removal), "accessKeyRemove", {3}) \subseteq Cases
    BY DEF Cases, accessKeyCases
  <2>3. Len(b.path) = 2
    BY <2>1, NamedLength
  <2>4. {3} \subseteq 1..(Len(b.path) + b.min)
    BY <2>1, <2>3
  <2>5. "accessKeyRemove" # "deploymentAdd"
    OBVIOUS
  <2>6. PICK c \in Cases : c = [path |-> b.path, type |-> "accessKeyRemove", needs |-> {3}]
    BY <2>1, <2>2 DEF Case
  <2>7. QED
    BY <2>4, <2>5, <2>6, CaseIs
<1>4. ASSUME b \in appAddOrRename PROVE \E c \in Cases : CaseOf(b, c)
  <2>1. ASSUME b \in Builder(Named("app", {"add"}), 2, 2, {}) PROVE \E c \in Cases : CaseOf(b, c)
    <3>1. b.path \in Named("app", {"add"}) /\ b.min = 2
      BY <2>1, BuilderEntry
    <3>2. Case(Named("app", {"add"}), "appAdd", {3}) \subseteq Cases
      BY DEF Cases, appCases
    <3>3. Len(b.path) = 2
      BY <3>1, NamedLength
    <3>4. {3} \subseteq 1..(Len(b.path) + b.min)
      BY <3>1, <3>3
    <3>5. "appAdd" # "deploymentAdd"
      OBVIOUS
    <3>6. PICK c \in Cases : c = [path |-> b.path, type |-> "appAdd", needs |-> {3}]
      BY <3>1, <3>2 DEF Case
    <3>7. QED
      BY <3>4, <3>5, <3>6, CaseIs
  <2>2. ASSUME b \in Builder(Named("app", {"rename"}), 2, 2, {}) PROVE \E c \in Cases : CaseOf(b, c)
    <3>1. b.path \in Named("app", {"rename"}) /\ b.min = 2
      BY <2>2, BuilderEntry
    <3>2. Case(Named("app", {"rename"}), "appRename", {3, 4}) \subseteq Cases
      BY DEF Cases, appCases
    <3>3. Len(b.path) = 2
      BY <3>1, NamedLength
    <3>4. {3, 4} \subseteq 1..(Len(b.path) + b.min)
      BY <3>1, <3>3
    <3>5. "appRename" # "deploymentAdd"
      OBVIOUS
    <3>6. PICK c \in Cases : c = [path |-> b.path, type |-> "appRename", needs |-> {3, 4}]
      BY <3>1, <3>2 DEF Case
    <3>7. QED
      BY <3>4, <3>5, <3>6, CaseIs
  <2>3. b \in Builder(Named("app", {"add"}), 2, 2, {}) \cup Builder(Named("app", {"rename"}), 2, 2, {})
    BY <1>4 DEF appAddOrRename, Builder, Named
  <2>4. QED
    BY <2>1, <2>2, <2>3
<1>5. ASSUME b \in appList PROVE \E c \in Cases : CaseOf(b, c)
  <2>1. b.path \in Named("app", List) /\ b.min = 0
    BY <1>5, BuilderEntry DEF appList
  <2>2. Case(Named("app", List), "appList", {}) \subseteq Cases
    BY DEF Cases, appCases
  <2>3. Len(b.path) = 2
    BY <2>1, NamedLength
  <2>4. {} \subseteq 1..(Len(b.path) + b.min)
    BY <2>1, <2>3
  <2>5. "appList" # "deploymentAdd"
    OBVIOUS
  <2>6. PICK c \in Cases : c = [path |-> b.path, type |-> "appList", needs |-> {}]
    BY <2>1, <2>2 DEF Case
  <2>7. QED
    BY <2>4, <2>5, <2>6, CaseIs
<1>6. ASSUME b \in appRemove PROVE \E c \in Cases : CaseOf(b, c)
  <2>1. b.path \in Named("app", Removal) /\ b.min = 1
    BY <1>6, BuilderEntry DEF appRemove
  <2>2. Case(Named("app", Removal), "appRemove", {3}) \subseteq Cases
    BY DEF Cases, appCases
  <2>3. Len(b.path) = 2
    BY <2>1, NamedLength
  <2>4. {3} \subseteq 1..(Len(b.path) + b.min)
    BY <2>1, <2>3
  <2>5. "appRemove" # "deploymentAdd"
    OBVIOUS
  <2>6. PICK c \in Cases : c = [path |-> b.path, type |-> "appRemove", needs |-> {3}]
    BY <2>1, <2>2 DEF Case
  <2>7. QED
    BY <2>4, <2>5, <2>6, CaseIs
<1>7. ASSUME b \in collaboratorAdd PROVE \E c \in Cases : CaseOf(b, c)
  <2>1. b.path \in Named("collaborator", {"add"}) /\ b.min = 2
    BY <1>7, BuilderEntry DEF collaboratorAdd
  <2>2. Case(Named("collaborator", {"add"}), "collaboratorAdd", {3, 4}) \subseteq Cases
    BY DEF Cases, collaboratorCases
  <2>3. Len(b.path) = 2
    BY <2>1, NamedLength
  <2>4. {3, 4} \subseteq 1..(Len(b.path) + b.min)
    BY <2>1, <2>3
  <2>5. "collaboratorAdd" # "deploymentAdd"
    OBVIOUS
  <2>6. PICK c \in Cases : c = [path |-> b.path, type |-> "collaboratorAdd", needs |-> {3, 4}]
    BY <2>1, <2>2 DEF Case
  <2>7. QED
    BY <2>4, <2>5, <2>6, CaseIs
<1>8. ASSUME b \in listCollaborators PROVE \E c \in Cases : CaseOf(b, c)
  <2>1. b.path \in Named("collaborator", List) /\ b.min = 1
    BY <1>8, BuilderEntry DEF listCollaborators
  <2>2. Case(Named("collaborator", List), "collaboratorList", {3}) \subseteq Cases
    BY DEF Cases, collaboratorCases
  <2>3. Len(b.path) = 2
    BY <2>1, NamedLength
  <2>4. {3} \subseteq 1..(Len(b.path) + b.min)
    BY <2>1, <2>3
  <2>5. "collaboratorList" # "deploymentAdd"
    OBVIOUS
  <2>6. PICK c \in Cases : c = [path |-> b.path, type |-> "collaboratorList", needs |-> {3}]
    BY <2>1, <2>2 DEF Case
  <2>7. QED
    BY <2>4, <2>5, <2>6, CaseIs
<1>9. ASSUME b \in removeCollaborator PROVE \E c \in Cases : CaseOf(b, c)
  <2>1. b.path \in Named("collaborator", Removal) /\ b.min = 2
    BY <1>9, BuilderEntry DEF removeCollaborator
  <2>2. Case(Named("collaborator", Removal), "collaboratorRemove", {3, 4}) \subseteq Cases
    BY DEF Cases, collaboratorCases
  <2>3. Len(b.path) = 2
    BY <2>1, NamedLength
  <2>4. {3, 4} \subseteq 1..(Len(b.path) + b.min)
    BY <2>1, <2>3
  <2>5. "collaboratorRemove" # "deploymentAdd"
    OBVIOUS
  <2>6. PICK c \in Cases : c = [path |-> b.path, type |-> "collaboratorRemove", needs |-> {3, 4}]
    BY <2>1, <2>2 DEF Case
  <2>7. QED
    BY <2>4, <2>5, <2>6, CaseIs
<1>10. ASSUME b \in deploymentAddOrRename PROVE \E c \in Cases : CaseOf(b, c)
  <2>1. ASSUME b \in Builder(Named("deployment", {"add"}), 1, 2, {"default"}) PROVE \E c \in Cases : CaseOf(b, c)
    <3>1. b.path \in Named("deployment", {"add"}) /\ b.min = 1
      BY <2>1, BuilderEntry
    <3>2. Case(Named("deployment", {"add"}), "deploymentAdd", {3}) \subseteq Cases
      BY DEF Cases, deploymentCases
    <3>3. Len(b.path) = 2
      BY <3>1, NamedLength
    <3>4. {3} \subseteq 1..(Len(b.path) + b.min)
      BY <3>1, <3>3
    <3>5. b.path = <<"deployment", "add">>
      BY <3>1, NamedLength
    <3>6. PICK c \in Cases : c = [path |-> b.path, type |-> "deploymentAdd", needs |-> {3}]
      BY <3>1, <3>2 DEF Case
    <3>7. QED
      BY <3>4, <3>5, <3>6, CaseIs
  <2>2. ASSUME b \in Builder(Named("deployment", {"rename"}), 3, 3, {}) PROVE \E c \in Cases : CaseOf(b, c)
    <3>1. b.path \in Named("deployment", {"rename"}) /\ b.min = 3
      BY <2>2, BuilderEntry
    <3>2. Case(Named("deployment", {"rename"}), "deploymentRename", {3, 4, 5}) \subseteq Cases
      BY DEF Cases, deploymentCases
    <3>3. Len(b.path) = 2
      BY <3>1, NamedLength
    <3>4. {3, 4, 5} \subseteq 1..(Len(b.path) + b.min)
      BY <3>1, <3>3
    <3>5. "deploymentRename" # "deploymentAdd"
      OBVIOUS
    <3>6. PICK c \in Cases : c = [path |-> b.path, type |-> "deploymentRename", needs |-> {3, 4, 5}]
      BY <3>1, <3>2 DEF Case
    <3>7. QED
      BY <3>4, <3>5, <3>6, CaseIs
  <2>3. QED
    BY <1>10, <2>1, <2>2 DEF deploymentAddOrRename
<1>11. ASSUME b \in deploymentHistoryClear PROVE \E c \in Cases : CaseOf(b, c)
  <2>1. b.path \in Named("deployment", {"clear"}) /\ b.min = 2
    BY <1>11, BuilderEntry DEF deploymentHistoryClear
  <2>2. Case(Named("deployment", {"clear"}), "deploymentHistoryClear", {3, 4}) \subseteq Cases
    BY DEF Cases, deploymentCases
  <2>3. Len(b.path) = 2
    BY <2>1, NamedLength
  <2>4. {3, 4} \subseteq 1..(Len(b.path) + b.min)
    BY <2>1, <2>3
  <2>5. "deploymentHistoryClear" # "deploymentAdd"
    OBVIOUS
  <2>6. PICK c \in Cases : c = [path |-> b.path, type |-> "deploymentHistoryClear", needs |-> {3, 4}]
    BY <2>1, <2>2 DEF Case
  <2>7. QED
    BY <2>4, <2>5, <2>6, CaseIs
<1>12. ASSUME b \in deploymentList PROVE \E c \in Cases : CaseOf(b, c)
  <2>1. b.path \in Named("deployment", List) /\ b.min = 1
    BY <1>12, BuilderEntry DEF deploymentList
  <2>2. Case(Named("deployment", List), "deploymentList", {3}) \subseteq Cases
    BY DEF Cases, deploymentCases
  <2>3. Len(b.path) = 2
    BY <2>1, NamedLength
  <2>4. {3} \subseteq 1..(Len(b.path) + b.min)
    BY <2>1, <2>3
  <2>5. "deploymentList" # "deploymentAdd"
    OBVIOUS
  <2>6. PICK c \in Cases : c = [path |-> b.path, type |-> "deploymentList", needs |-> {3}]
    BY <2>1, <2>2 DEF Case
  <2>7. QED
    BY <2>4, <2>5, <2>6, CaseIs
<1>13. ASSUME b \in deploymentRemove PROVE \E c \in Cases : CaseOf(b, c)
  <2>1. b.path \in Named("deployment", Removal) /\ b.min = 2
    BY <1>13, BuilderEntry DEF deploymentRemove
  <2>2. Case(Named("deployment", Removal), "deploymentRemove", {3, 4}) \subseteq Cases
    BY DEF Cases, deploymentCases
  <2>3. Len(b.path) = 2
    BY <2>1, NamedLength
  <2>4. {3, 4} \subseteq 1..(Len(b.path) + b.min)
    BY <2>1, <2>3
  <2>5. "deploymentRemove" # "deploymentAdd"
    OBVIOUS
  <2>6. PICK c \in Cases : c = [path |-> b.path, type |-> "deploymentRemove", needs |-> {3, 4}]
    BY <2>1, <2>2 DEF Case
  <2>7. QED
    BY <2>4, <2>5, <2>6, CaseIs
<1>14. ASSUME b \in deploymentHistory PROVE \E c \in Cases : CaseOf(b, c)
  <2>1. b.path \in Named("deployment", {"history", "h"}) /\ b.min = 2
    BY <1>14, BuilderEntry DEF deploymentHistory
  <2>2. Case(Named("deployment", {"history", "h"}), "deploymentHistory", {3, 4}) \subseteq Cases
    BY DEF Cases, deploymentCases
  <2>3. Len(b.path) = 2
    BY <2>1, NamedLength
  <2>4. {3, 4} \subseteq 1..(Len(b.path) + b.min)
    BY <2>1, <2>3
  <2>5. "deploymentHistory" # "deploymentAdd"
    OBVIOUS
  <2>6. PICK c \in Cases : c = [path |-> b.path, type |-> "deploymentHistory", needs |-> {3, 4}]
    BY <2>1, <2>2 DEF Case
  <2>7. QED
    BY <2>4, <2>5, <2>6, CaseIs
<1>15. ASSUME b \in debug PROVE \E c \in Cases : CaseOf(b, c)
  <2>1. b.path \in {<<"debug">>} /\ b.min = 1
    BY <1>15, BuilderEntry DEF debug
  <2>2. Case({<<"debug">>}, "debug", {}) \subseteq Cases
    BY DEF Cases
  <2>3. Len(b.path) = 1
    BY <2>1
  <2>4. {} \subseteq 1..(Len(b.path) + b.min)
    BY <2>1, <2>3
  <2>5. "debug" # "deploymentAdd"
    OBVIOUS
  <2>6. PICK c \in Cases : c = [path |-> b.path, type |-> "debug", needs |-> {}]
    BY <2>1, <2>2 DEF Case
  <2>7. QED
    BY <2>4, <2>5, <2>6, CaseIs
<1>16. ASSUME b \in login PROVE \E c \in Cases : CaseOf(b, c)
  <2>1. b.path \in {<<"login">>} /\ b.min = 0
    BY <1>16, BuilderEntry DEF login
  <2>2. Case({<<"login">>}, "login", {}) \subseteq Cases
    BY DEF Cases, accountCases
  <2>3. Len(b.path) = 1
    BY <2>1
  <2>4. {} \subseteq 1..(Len(b.path) + b.min)
    BY <2>1, <2>3
  <2>5. "login" # "deploymentAdd"
    OBVIOUS
  <2>6. PICK c \in Cases : c = [path |-> b.path, type |-> "login", needs |-> {}]
    BY <2>1, <2>2 DEF Case
  <2>7. QED
    BY <2>4, <2>5, <2>6, CaseIs
<1>17. ASSUME b \in logout PROVE \E c \in Cases : CaseOf(b, c)
  <2>1. b.path \in {<<"logout">>} /\ b.min = 0
    BY <1>17, BuilderEntry DEF logout
  <2>2. Case({<<"logout">>}, "logout", {}) \subseteq Cases
    BY DEF Cases, accountCases
  <2>3. Len(b.path) = 1
    BY <2>1
  <2>4. {} \subseteq 1..(Len(b.path) + b.min)
    BY <2>1, <2>3
  <2>5. "logout" # "deploymentAdd"
    OBVIOUS
  <2>6. PICK c \in Cases : c = [path |-> b.path, type |-> "logout", needs |-> {}]
    BY <2>1, <2>2 DEF Case
  <2>7. QED
    BY <2>4, <2>5, <2>6, CaseIs
<1>18. ASSUME b \in register PROVE \E c \in Cases : CaseOf(b, c)
  <2>1. b.path \in {<<"register">>} /\ b.min = 0
    BY <1>18, BuilderEntry DEF register
  <2>2. Case({<<"register">>}, "register", {}) \subseteq Cases
    BY DEF Cases, updateCases
  <2>3. Len(b.path) = 1
    BY <2>1
  <2>4. {} \subseteq 1..(Len(b.path) + b.min)
    BY <2>1, <2>3
  <2>5. "register" # "deploymentAdd"
    OBVIOUS
  <2>6. PICK c \in Cases : c = [path |-> b.path, type |-> "register", needs |-> {}]
    BY <2>1, <2>2 DEF Case
  <2>7. QED
    BY <2>4, <2>5, <2>6, CaseIs
<1>19. ASSUME b \in whoami PROVE \E c \in Cases : CaseOf(b, c)
  <2>1. b.path \in {<<"whoami">>} /\ b.min = 0
    BY <1>19, BuilderEntry DEF whoami
  <2>2. Case({<<"whoami">>}, "whoami", {}) \subseteq Cases
    BY DEF Cases, releaseCases
  <2>3. Len(b.path) = 1
    BY <2>1
  <2>4. {} \subseteq 1..(Len(b.path) + b.min)
    BY <2>1, <2>3
  <2>5. "whoami" # "deploymentAdd"
    OBVIOUS
  <2>6. PICK c \in Cases : c = [path |-> b.path, type |-> "whoami", needs |-> {}]
    BY <2>1, <2>2 DEF Case
  <2>7. QED
    BY <2>4, <2>5, <2>6, CaseIs
<1>20. ASSUME b \in patch PROVE \E c \in Cases : CaseOf(b, c)
  <2>1. b.path \in {<<"patch">>} /\ b.min = 2
    BY <1>20, BuilderEntry DEF patch
  <2>2. Case({<<"patch">>}, "patch", {2, 3}) \subseteq Cases
    BY DEF Cases, updateCases
  <2>3. Len(b.path) = 1
    BY <2>1
  <2>4. {2, 3} \subseteq 1..(Len(b.path) + b.min)
    BY <2>1, <2>3
  <2>5. "patch" # "deploymentAdd"
    OBVIOUS
  <2>6. PICK c \in Cases : c = [path |-> b.path, type |-> "patch", needs |-> {2, 3}]
    BY <2>1, <2>2 DEF Case
  <2>7. QED
    BY <2>4, <2>5, <2>6, CaseIs
<1>21. ASSUME b \in promote PROVE \E c \in Cases : CaseOf(b, c)
  <2>1. b.path \in {<<"promote">>} /\ b.min = 3
    BY <1>21, BuilderEntry DEF promote
  <2>2. Case({<<"promote">>}, "promote", {2, 3, 4}) \subseteq Cases
    BY DEF Cases, updateCases
  <2>3. Len(b.path) = 1
    BY <2>1
  <2>4. {2, 3, 4} \subseteq 1..(Len(b.path) + b.min)
    BY <2>1, <2>3
  <2>5. "promote" # "deploymentAdd"
    OBVIOUS
  <2>6. PICK c \in Cases : c = [path |-> b.path, type |-> "promote", needs |-> {2, 3, 4}]
    BY <2>1, <2>2 DEF Case
  <2>7. QED
    BY <2>4, <2>5, <2>6, CaseIs
<1>22. ASSUME b \in release PROVE \E c \in Cases : CaseOf(b, c)
  <2>1. b.path \in {<<"release">>} /\ b.min = 2
    BY <1>22, BuilderEntry DEF release
  <2>2. Case({<<"release">>}, "releaseNativeScript", {2, 3}) \subseteq Cases
    BY DEF Cases, releaseCases
  <2>3. Len(b.path) = 1
    BY <2>1
  <2>4. {2, 3} \subseteq 1..(Len(b.path) + b.min)
    BY <2>1, <2>3
  <2>5. "releaseNativeScript" # "deploymentAdd"
    OBVIOUS
  <2>6. PICK c \in Cases : c = [path |-> b.path, type |-> "releaseNativeScript", needs |-> {2, 3}]
    BY <2>1, <2>2 DEF Case
  <2>7. QED
    BY <2>4, <2>5, <2>6, CaseIs
<1>23. ASSUME b \in rollback PROVE \E c \in Cases : CaseOf(b, c)
  <2>1. b.path \in {<<"rollback">>} /\ b.min = 2
    BY <1>23, BuilderEntry DEF rollback
  <2>2. Case({<<"rollback">>}, "rollback", {2, 3}) \subseteq Cases
    BY DEF Cases, releaseCases
  <2>3. Len(b.path) = 1
    BY <2>1
  <2>4. {2, 3} \subseteq 1..(Len(b.path) + b.min)
    BY <2>1, <2>3
  <2>5. "rollback" # "deploymentAdd"
    OBVIOUS
  <2>6. PICK c \in Cases : c = [path |-> b.path, type |-> "rollback", needs |-> {2, 3}]
    BY <2>1, <2>2 DEF Case
  <2>7. QED
    BY <2>4, <2>5, <2>6, CaseIs
<1>24. QED
  BY <1>1, <1>2, <1>3, <1>4, <1>5, <1>6, <1>7, <1>8, <1>9, <1>10, <1>11, <1>12, <1>13, <1>14, <1>15, <1>16, <1>17, <1>18, <1>19, <1>20, <1>21, <1>22, <1>23 DEF Offered, update

\* The words only a hidden command begins with, and those of two categories.
HiddenFirst == {"access-key", "app", "link", "session"}

(* Every case has a type execute knows, and is hidden or has its builder.   *)
CaseIsKnown(c) ==
    /\ c.type \in Dispatched
    /\ IF c.type \in Hidden
       THEN \E x \in HiddenFirst : c.path = <<x>> \/ \E y : c.path = <<x, y>>
       ELSE \E b \in Offered : b.path = c.path

LEMMA HiddenCase ==
    ASSUME NEW names, NEW type \in Hidden, NEW needs, NEW c \in Case(names, type, needs),
           \A p \in names : \E x \in HiddenFirst : p = <<x>> \/ \E y : p = <<x, y>>
    PROVE  CaseIsKnown(c)
  BY DEF Case, CaseIsKnown, Hidden, Dispatched, CommandType

LEMMA OpenCase ==
    ASSUME NEW names, NEW type \in Dispatched \ Hidden, NEW needs, NEW c \in Case(names, type, needs),
           NEW more, names \subseteq more, NEW min, NEW max, NEW known,
           Builder(more, min, max, known) \subseteq Offered
    PROVE  CaseIsKnown(c)
<1>1. c.path \in names /\ c.type = type
  BY DEF Case
<1>2. [path |-> c.path, min |-> min, max |-> max, known |-> known] \in Offered
  BY <1>1 DEF Builder
<1>3. QED
  BY <1>1, <1>2 DEF CaseIsKnown

LEMMA CaseKnown == ASSUME NEW c \in Cases PROVE CaseIsKnown(c)
<1>1. ASSUME c \in accessKeyCases PROVE CaseIsKnown(c)
  <2>1. ASSUME c \in Case(Named("access-key", {"add"}), "accessKeyAdd", {3}) PROVE CaseIsKnown(c)
    <3>1. "accessKeyAdd" \in Dispatched \ Hidden
      BY DEF Dispatched, CommandType, Hidden
    <3>2. Builder(Named("access-key", {"add"}), 1, 1, {}) \subseteq Offered
      BY DEF Offered, accessKeyAdd
    <3>3. QED
      BY <2>1, <3>1, <3>2, OpenCase
  <2>2. ASSUME c \in Case(Named("access-key", {"patch"}), "accessKeyPatch", {3}) PROVE CaseIsKnown(c)
    <3>1. "accessKeyPatch" \in Hidden
      BY DEF Hidden
    <3>2. \A p \in Named("access-key", {"patch"}) : \E x \in HiddenFirst : p = <<x>> \/ \E y : p = <<x, y>>
      BY DEF HiddenFirst, Named
    <3>3. QED
      BY <2>2, <3>1, <3>2, HiddenCase
  <2>3. ASSUME c \in Case(Named("access-key", List), "accessKeyList", {}) PROVE CaseIsKnown(c)
    <3>1. "accessKeyList" \in Dispatched \ Hidden
      BY DEF Dispatched, CommandType, Hidden
    <3>2. Builder(Named("access-key", List), 0, 0, {}) \subseteq Offered
      BY DEF Offered, accessKeyList
    <3>3. QED
      BY <2>3, <3>1, <3>2, OpenCase
  <2>4. ASSUME c \in Case(Named("access-key", Removal), "accessKeyRemove", {3}) PROVE CaseIsKnown(c)
    <3>1. "accessKeyRemove" \in Dispatched \ Hidden
      BY DEF Dispatched, CommandType, Hidden
    <3>2. Builder(Named("access-key", Removal), 1, 1, {}) \subseteq Offered
      BY DEF Offered, accessKeyRemove
    <3>3. QED
      BY <2>4, <3>1, <3>2, OpenCase
  <2>5. QED
    BY <1>1, <2>1, <2>2, <2>3, <2>4 DEF accessKeyCases
<1>2. ASSUME c \in appCases PROVE CaseIsKnown(c)
  <2>1. ASSUME c \in Case(Named("app", {"add"}), "appAdd", {3}) PROVE CaseIsKnown(c)
    <3>1. "appAdd" \in Dispatched \ Hidden
      BY DEF Dispatched, CommandType, Hidden
    <3>2. Builder(Named("app", {"add", "rename"}), 2, 2, {}) \subseteq Offered
      BY DEF Offered, appAddOrRename
    <3>3. Named("app", {"add"}) \subseteq Named("app", {"add", "rename"})
      BY DEF Named
    <3>4. QED
      BY <2>1, <3>1, <3>2, <3>3, OpenCase
  <2>2. ASSUME c \in Case(Named("app", List), "appList", {}) PROVE CaseIsKnown(c)
    <3>1. "appList" \in Dispatched \ Hidden
      BY DEF Dispatched, CommandType, Hidden
    <3>2. Builder(Named("app", List), 0, 0, {}) \subseteq Offered
      BY DEF Offered, appList
    <3>3. QED
      BY <2>2, <3>1, <3>2, OpenCase
  <2>3. ASSUME c \in Case(Named("app", Removal), "appRemove", {3}) PROVE CaseIsKnown(c)
    <3>1. "appRemove" \in Dispatched \ Hidden
      BY DEF Dispatched, CommandType, Hidden
    <3>2. Builder(Named("app", Removal), 1, 1, {}) \subseteq Offered
      BY DEF Offered, appRemove
    <3>3. QED
      BY <2>3, <3>1, <3>2, OpenCase
  <2>4. ASSUME c \in Case(Named("app", {"rename"}), "appRename", {3, 4}) PROVE CaseIsKnown(c)
    <3>1. "appRename" \in Dispatched \ Hidden
      BY DEF Dispatched, CommandType, Hidden
    <3>2. Builder(Named("app", {"add", "rename"}), 2, 2, {}) \subseteq Offered
      BY DEF Offered, appAddOrRename
    <3>3. Named("app", {"rename"}) \subseteq Named("app", {"add", "rename"})
      BY DEF Named
    <3>4. QED
      BY <2>4, <3>1, <3>2, <3>3, OpenCase
  <2>5. ASSUME c \in Case(Named("app", {"transfer"}), "appTransfer", {3, 4}) PROVE CaseIsKnown(c)
    <3>1. "appTransfer" \in Hidden
      BY DEF Hidden
    <3>2. \A p \in Named("app", {"transfer"}) : \E x \in HiddenFirst : p = <<x>> \/ \E y : p = <<x, y>>
      BY DEF HiddenFirst, Named
    <3>3. QED
      BY <2>5, <3>1, <3>2, HiddenCase
  <2>6. QED
    BY <1>2, <2>1, <2>2, <2>3, <2>4, <2>5 DEF appCases
<1>3. ASSUME c \in collaboratorCases PROVE CaseIsKnown(c)
  <2>1. ASSUME c \in Case(Named("collaborator", {"add"}), "collaboratorAdd", {3, 4}) PROVE CaseIsKnown(c)
    <3>1. "collaboratorAdd" \in Dispatched \ Hidden
      BY DEF Dispatched, CommandType, Hidden
    <3>2. Builder(Named("collaborator", {"add"}), 2, 2, {}) \subseteq Offered
      BY DEF Offered, collaboratorAdd
    <3>3. QED
      BY <2>1, <3>1, <3>2, OpenCase
  <2>2. ASSUME c \in Case(Named("collaborator", List), "collaboratorList", {3}) PROVE CaseIsKnown(c)
    <3>1. "collaboratorList" \in Dispatched \ Hidden
      BY DEF Dispatched, CommandType, Hidden
    <3>2. Builder(Named("collaborator", List), 1, 1, {}) \subseteq Offered
      BY DEF Offered, listCollaborators
    <3>3. QED
      BY <2>2, <3>1, <3>2, OpenCase
  <2>3. ASSUME c \in Case(Named("collaborator", Removal), "collaboratorRemove", {3, 4}) PROVE CaseIsKnown(c)
    <3>1. "collaboratorRemove" \in Dispatched \ Hidden
      BY DEF Dispatched, CommandType, Hidden
    <3>2. Builder(Named("collaborator", Removal), 2, 2, {}) \subseteq Offered
      BY DEF Offered, removeCollaborator
    <3>3. QED
      BY <2>3, <3>1, <3>2, OpenCase
  <2>4. QED
    BY <1>3, <2>1, <2>2, <2>3 DEF collaboratorCases
<1>4. ASSUME c \in deploymentCases PROVE CaseIsKnown(c)
  <2>1. ASSUME c \in Case(Named("deployment", {"add"}), "deploymentAdd", {3}) PROVE CaseIsKnown(c)
    <3>1. "deploymentAdd" \in Dispatched \ Hidden
      BY DEF Dispatched, CommandType, Hidden
    <3>2. Builder(Named("deployment", {"add"}), 1, 2, {"default"}) \subseteq Offered
      BY DEF Offered, deploymentAddOrRename
    <3>3. QED
      BY <2>1, <3>1, <3>2, OpenCase
  <2>2. ASSUME c \in Case(Named("deployment", {"clear"}), "deploymentHistoryClear", {3, 4}) PROVE CaseIsKnown(c)
    <3>1. "deploymentHistoryClear" \in Dispatched \ Hidden
      BY DEF Dispatched, CommandType, Hidden
    <3>2. Builder(Named("deployment", {"clear"}), 2, 2, {}) \subseteq Offered
      BY DEF Offered, deploymentHistoryClear
    <3>3. QED
      BY <2>2, <3>1, <3>2, OpenCase
  <2>3. ASSUME c \in Case(Named("deployment", List), "deploymentList", {3}) PROVE CaseIsKnown(c)
    <3>1. "deploymentList" \in Dispatched \ Hidden
      BY DEF Dispatched, CommandType, Hidden
    <3>2. Builder(Named("deployment", List), 1, 1, {}) \subseteq Offered
      BY DEF Offered, deploymentList
    <3>3. QED
      BY <2>3, <3>1, <3>2, OpenCase
  <2>4. ASSUME c \in Case(Named("deployment", Removal), "deploymentRemove", {3, 4}) PROVE CaseIsKnown(c)
    <3>1. "deploymentRemove" \in Dispatched \ Hidden
      BY DEF Dispatched, CommandType, Hidden
    <3>2. Builder(Named("deployment", Removal), 2, 2, {}) \subseteq Offered
      BY DEF Offered, deploymentRemove
    <3>3. QED
      BY <2>4, <3>1, <3>2, OpenCase
  <2>5. ASSUME c \in Case(Named("deployment", {"rename"}), "deploymentRename", {3, 4, 5}) PROVE CaseIsKnown(c)
    <3>1. "deploymentRename" \in Dispatched \ Hidden
      BY DEF Dispatched, CommandType, Hidden
    <3>2. Builder(Named("deployment", {"rename"}), 3, 3, {}) \subseteq Offered
      BY DEF Offered, deploymentAddOrRename
    <3>3. QED
      BY <2>5, <3>1, <3>2, OpenCase
  <2>6. ASSUME c \in Case(Named("deployment", {"history", "h"}), "deploymentHistory", {3, 4}) PROVE CaseIsKnown(c)
    <3>1. "deploymentHistory" \in Dispatched \ Hidden
      BY DEF Dispatched, CommandType, Hidden
    <3>2. Builder(Named("deployment", {"history", "h"}), 2, 2, {}) \subseteq Offered
      BY DEF Offered, deploymentHistory
    <3>3. QED
      BY <2>6, <3>1, <3>2, OpenCase
  <2>7. QED
    BY <1>4, <2>1, <2>2, <2>3, <2>4, <2>5, <2>6 DEF deploymentCases
<1>5. ASSUME c \in accountCases PROVE CaseIsKnown(c)
  <2>1. ASSUME c \in Case({<<"link">>}, "link", {}) PROVE CaseIsKnown(c)
    <3>1. "link" \in Hidden
      BY DEF Hidden
    <3>2. \A p \in {<<"link">>} : \E x \in HiddenFirst : p = <<x>> \/ \E y : p = <<x, y>>
      BY DEF HiddenFirst
    <3>3. QED
      BY <2>1, <3>1, <3>2, HiddenCase
  <2>2. ASSUME c \in Case({<<"login">>}, "login", {}) PROVE CaseIsKnown(c)
    <3>1. "login" \in Dispatched \ Hidden
      BY DEF Dispatched, CommandType, Hidden
    <3>2. Builder({<<"login">>}, 0, 1, {}) \subseteq Offered
      BY DEF Offered, login
    <3>3. QED
      BY <2>2, <3>1, <3>2, OpenCase
  <2>3. ASSUME c \in Case({<<"logout">>}, "logout", {}) PROVE CaseIsKnown(c)
    <3>1. "logout" \in Dispatched \ Hidden
      BY DEF Dispatched, CommandType, Hidden
    <3>2. Builder({<<"logout">>}, 0, 0, {}) \subseteq Offered
      BY DEF Offered, logout
    <3>3. QED
      BY <2>3, <3>1, <3>2, OpenCase
  <2>4. QED
    BY <1>5, <2>1, <2>2, <2>3 DEF accountCases
<1>6. ASSUME c \in updateCases PROVE CaseIsKnown(c)
  <2>1. ASSUME c \in Case({<<"patch">>}, "patch", {2, 3}) PROVE CaseIsKnown(c)
    <3>1. "patch" \in Dispatched \ Hidden
      BY DEF Dispatched, CommandType, Hidden
    <3>2. Builder({<<"patch">>}, 2, 2, {"badRollout"}) \subseteq Offered
      BY DEF Offered, update, patch
    <3>3. QED
      BY <2>1, <3>1, <3>2, OpenCase
  <2>2. ASSUME c \in Case({<<"promote">>}, "promote", {2, 3, 4}) PROVE CaseIsKnown(c)
    <3>1. "promote" \in Dispatched \ Hidden
      BY DEF Dispatched, CommandType, Hidden
    <3>2. Builder({<<"promote">>}, 3, 3, {"badRollout"}) \subseteq Offered
      BY DEF Offered, update, promote
    <3>3. QED
      BY <2>2, <3>1, <3>2, OpenCase
  <2>3. ASSUME c \in Case({<<"register">>}, "register", {}) PROVE CaseIsKnown(c)
    <3>1. "register" \in Dispatched \ Hidden
      BY DEF Dispatched, CommandType, Hidden
    <3>2. Builder({<<"register">>}, 0, 1, {}) \subseteq Offered
      BY DEF Offered, register
    <3>3. QED
      BY <2>3, <3>1, <3>2, OpenCase
  <2>4. QED
    BY <1>6, <2>1, <2>2, <2>3 DEF updateCases
<1>7. ASSUME c \in releaseCases PROVE CaseIsKnown(c)
  <2>1. ASSUME c \in Case({<<"release">>}, "releaseNativeScript", {2, 3}) PROVE CaseIsKnown(c)
    <3>1. "releaseNativeScript" \in Dispatched \ Hidden
      BY DEF Dispatched, CommandType, Hidden
    <3>2. Builder({<<"release">>}, 2, 2, {"badRollout", "noDeployment"}) \subseteq Offered
      BY DEF Offered, update, release
    <3>3. QED
      BY <2>1, <3>1, <3>2, OpenCase
  <2>2. ASSUME c \in Case({<<"rollback">>}, "rollback", {2, 3}) PROVE CaseIsKnown(c)
    <3>1. "rollback" \in Dispatched \ Hidden
      BY DEF Dispatched, CommandType, Hidden
    <3>2. Builder({<<"rollback">>}, 2, 2, {}) \subseteq Offered
      BY DEF Offered, update, rollback
    <3>3. QED
      BY <2>2, <3>1, <3>2, OpenCase
  <2>3. ASSUME c \in Case(Named("session", List), "sessionList", {}) PROVE CaseIsKnown(c)
    <3>1. "sessionList" \in Hidden
      BY DEF Hidden
    <3>2. \A p \in Named("session", List) : \E x \in HiddenFirst : p = <<x>> \/ \E y : p = <<x, y>>
      BY DEF HiddenFirst, Named
    <3>3. QED
      BY <2>3, <3>1, <3>2, HiddenCase
  <2>4. ASSUME c \in Case(Named("session", Removal), "sessionRemove", {3}) PROVE CaseIsKnown(c)
    <3>1. "sessionRemove" \in Hidden
      BY DEF Hidden
    <3>2. \A p \in Named("session", Removal) : \E x \in HiddenFirst : p = <<x>> \/ \E y : p = <<x, y>>
      BY DEF HiddenFirst, Named
    <3>3. QED
      BY <2>4, <3>1, <3>2, HiddenCase
  <2>5. ASSUME c \in Case({<<"whoami">>}, "whoami", {}) PROVE CaseIsKnown(c)
    <3>1. "whoami" \in Dispatched \ Hidden
      BY DEF Dispatched, CommandType, Hidden
    <3>2. Builder({<<"whoami">>}, 0, 0, {}) \subseteq Offered
      BY DEF Offered, whoami
    <3>3. QED
      BY <2>5, <3>1, <3>2, OpenCase
  <2>6. QED
    BY <1>7, <2>1, <2>2, <2>3, <2>4, <2>5 DEF releaseCases
<1>8. ASSUME c \in Case({<<"debug">>}, "debug", {}) PROVE CaseIsKnown(c)
  <2>1. "debug" \in Dispatched \ Hidden
    BY DEF Dispatched, CommandType, Hidden
  <2>2. Builder({<<"debug">>}, 1, 1, {}) \subseteq Offered
    BY DEF Offered, debug
  <2>3. QED
    BY <1>8, <2>1, <2>2, OpenCase
<1>9. QED
  BY <1>1, <1>2, <1>3, <1>4, <1>5, <1>6, <1>7, <1>8 DEF Cases

LEMMA CaseTypes == \A c \in Cases : c.type \in CommandType
  BY CaseKnown DEF CaseIsKnown, Dispatched

LEMMA MinNat ==
    ASSUME NEW b \in Offered PROVE b.min \in Nat /\ b.max \in Nat
<1>1. \A x : Single(x).min \in Nat /\ Single(x).max \in Nat
  BY DEF Single, D
<1>2. \A c, x : Double(c, x).min \in Nat /\ Double(c, x).max \in Nat
  BY DEF Double, D
<1>3. Demand(b.path).min \in Nat /\ Demand(b.path).max \in Nat
  BY <1>1, <1>2 DEF Demand, D
<1>4. QED
  BY <1>3, OfferedShape DEF Entry

(* A line that keeps to a usage text makes a command.                       *)
LEMMA UsageMakes ==
    ASSUME TypeOK, NEW b \in Offered, Usage(b) PROVE \E c \in Cases : Makes(c)
<1>1. PICK c \in Cases : CaseOf(b, c)
  BY CaseFor
<1>2. IsPrefix(c.path, words)
  BY <1>1 DEF CaseOf, Usage, Keeps
<1>3. words \in Seq(STRING) /\ Len(words) \in Nat /\ DOMAIN words = 1..Len(words)
  BY DEF TypeOK
<1>4. Len(b.path) + b.min <= Len(words)
  <2>1. Len(words) - Len(b.path) \in b.min..b.max
    BY DEF Usage, Keeps
  <2>2. Len(b.path) \in Nat /\ b.min \in Nat /\ b.max \in Nat
    BY MinNat, Lengths
  <2>3. QED
    BY <1>3, <2>1, <2>2
<1>5. ASSUME NEW i \in c.needs PROVE Given(i)
  <2>1. i \in 1..(Len(b.path) + b.min)
    BY <1>1 DEF CaseOf
  <2>2. i \in DOMAIN words
    BY <1>3, <1>4, <2>1, MinNat, Lengths
  <2>3. QED
    BY <2>2 DEF Usage, Given
<1>6. ASSUME c.type = "deploymentAdd" PROVE Given(4) \/ "default" \in options
  <2>1. Len(words) = 4 \/ "default" \in options
    BY <1>1, <1>6 DEF CaseOf, Usage
  <2>2. Len(words) = 4 => 4 \in DOMAIN words
    BY <1>3
  <2>3. QED
    BY <2>1, <2>2 DEF Given, Usage
<1>7. QED
  BY <1>2, <1>5, <1>6 DEF Makes

-----------------------------------------------------------------------------
\* The help text, and the command there may be instead of it.
HelpInv ==
    /\ printed = IF wasHelpShown THEN 1 ELSE 0
    /\ at \in {"words", "count", "options", "check", "create"} => command = "none"
    /\ command # "none" => ~wasHelpShown
    /\ at = "execute" => command # "none"
    /\ outcome # "none" => at = "over" /\ command # "none"
    /\ at = "over" => (outcome # "none" \/ wasHelpShown)

\* The flags tell how deep the path is, and its last word is one of the line.
FlagInv ==
    /\ path \in {<<"login">>, <<"register">>} => isValidCommand
    /\ isValidCommandCategory => path # << >>
    /\ isValidCommand => \E a \in Offered : path = a.path
    /\ path # << >> => \E i \in DOMAIN words : words[i] = path[Len(path)]

\* The rules that were checked hold, if no help text was printed.
RuleInv ==
    ~wasHelpShown =>
        /\ at \notin {"words", "count"} => Len(words) - Len(path) \in Here.min..Here.max
        /\ at \notin {"words", "count", "options"} => options \subseteq Here.known
        /\ at \notin {"words", "count", "options", "check"} => Holds

\* A command is a case of createCommand that the words make.
MadeInv ==
    /\ command # "none" => \E c \in Cases : Makes(c) /\ command = c.type
    /\ outcome # "none" => outcome = "dispatched"

\* A line that begins with the words of b is on its way to it, or there.
OnPath(b) ==
    /\ path \in {<< >>, <<b.path[1]>>, b.path}
    /\ at # "words" => path = b.path

Begins(b) == IsPrefix(b.path, words)

\* Nothing has gone wrong with a line that keeps to the usage text of b.
OnTrack(b) ==
    /\ ~wasHelpShown
    /\ at \in {"run", "execute", "over"} => command # "none"

Inv ==
    /\ TypeOK
    /\ HelpInv
    /\ FlagInv
    /\ RuleInv
    /\ MadeInv
    /\ \A b \in Offered : Begins(b) => OnPath(b)
    /\ \A b \in Offered : Usage(b) => OnTrack(b)

LEMMA Paths ==
    ASSUME TypeOK
    PROVE  path = << >> \/ (\E c \in Categories : path = <<c>>) \/ \E a \in Offered : path = a.path
<1>1. PICK b \in Offered \cup Level : path = b.path
  BY DEF TypeOK
<1>2. ASSUME b \in Level PROVE path = << >> \/ \E c \in Categories : path = <<c>>
  BY <1>1, <1>2, BuilderEntry DEF Level
<1>3. QED
  BY <1>1, <1>2

LEMMA AppendTwo ==
    ASSUME NEW c, NEW x PROVE Append(<<c>>, x) = <<c, x>>
<1>1. <<c>> \in Seq({c, x}) /\ <<c, x>> \in Seq({c, x}) /\ Len(<<c, x>>) = 2
  OBVIOUS
<1>2. /\ Append(<<c>>, x) \in Seq({c, x}) /\ Len(Append(<<c>>, x)) = 2
      /\ Append(<<c>>, x)[1] = c /\ Append(<<c>>, x)[2] = x
  BY <1>1
<1>3. \A i \in 1..2 : Append(<<c>>, x)[i] = <<c, x>>[i]
  BY <1>2
<1>4. QED
  BY <1>1, <1>2, <1>3, SeqEqual

(* Whatever is entered is in the table.                                     *)
LEMMA EnterType ==
    ASSUME TypeOK, Enter PROVE path' \in {b.path : b \in Offered \cup Level}
<1>1. PICK i \in DOMAIN words : words[i] \in Names /\ path' = Append(path, words[i])
  BY DEF Enter
<1>2. PICK o \in Offered : /\ Len(o.path) > Len(path) /\ IsPrefix(path, o.path)
                           /\ words[i] = o.path[Len(path) + 1]
  BY <1>1 DEF Names
<1>3. CASE path = << >>
  <2>1. path' = <<o.path[1]>>
    BY <1>1, <1>2, <1>3
  <2>2. CASE IsSingle(o)
    BY <2>1, <2>2, Lengths
  <2>3. CASE IsDouble(o)
    <3>1. o.path[1] \in Categories
      BY <2>3, Lengths
    <3>2. [path |-> <<o.path[1]>>, min |-> 2, max |-> 2, known |-> {}] \in Level
      BY <3>1 DEF Level, Builder
    <3>3. QED
      BY <2>1, <3>2
  <2>4. QED
    BY <2>2, <2>3, Lengths
<1>4. ASSUME NEW c \in Categories, path = <<c>>
      PROVE  path' = o.path
  <2>1. Len(path) = 1
    BY <1>4
  <2>2. IsDouble(o) /\ Len(o.path) = 2 /\ o.path = <<o.path[1], o.path[2]>>
    BY <1>2, <2>1, Lengths
  <2>3. o.path[1] = c
    <3>1. o.path \in Seq(Word) /\ IsPrefix(<<c>>, o.path)
      BY <1>2, <1>4, Lengths
    <3>2. QED
      BY <3>1, Prefix1
  <2>4. path' = <<c, o.path[2]>>
    <3>1. path' = Append(<<c>>, o.path[2])
      BY <1>1, <1>2, <1>4, <2>1
    <3>2. QED
      BY <3>1, AppendTwo
  <2>5. QED
    BY <2>2, <2>3, <2>4
<1>5. ASSUME NEW a \in Offered, path = a.path PROVE FALSE
  BY <1>1, <1>5, NamesNone
<1>6. QED
  BY <1>3, <1>4, <1>5, Paths

(* What the three rules have in common.                                     *)
LEMMA RuleStep ==
    ASSUME CountWords \/ KnowOptions \/ Check
    PROVE  /\ at \in {"count", "options", "check"} /\ at' \in {"options", "check", "create"}
           /\ UNCHANGED <<words, options, path, isValidCommandCategory, isValidCommand, command,
                          outcome>>
           /\ UNCHANGED <<wasHelpShown, printed>> \/ ShowHelp
<1>1. ASSUME NEW from \in {"count", "options", "check"}, NEW holds,
             NEW to \in {"options", "check", "create"}, Rule(from, holds, to)
      PROVE  /\ at \in {"count", "options", "check"} /\ at' \in {"options", "check", "create"}
             /\ UNCHANGED <<words, options, path, isValidCommandCategory, isValidCommand,
                            command, outcome>>
             /\ UNCHANGED <<wasHelpShown, printed>> \/ ShowHelp
  BY <1>1 DEF Rule, Goto, Entered, Help, Result
<1>2. QED
  BY <1>1 DEF CountWords, KnowOptions, Check

LEMMA ShowHelpStep ==
    ASSUME wasHelpShown \in BOOLEAN, printed \in Nat, ShowHelp
    PROVE  /\ wasHelpShown' = TRUE /\ printed' \in Nat
           /\ printed = (IF wasHelpShown THEN 1 ELSE 0) => printed' = 1
  BY DEF ShowHelp

(* Every step keeps the types.                                              *)
LEMMA TypeStep == ASSUME TypeOK, Next PROVE TypeOK'
<1>1. CASE Enter
  <2>1. path' \in {b.path : b \in Offered \cup Level}
    BY <1>1, EnterType
  <2>2. isValidCommandCategory' \in BOOLEAN /\ isValidCommand' \in BOOLEAN
    BY <1>1 DEF Enter, TypeOK
  <2>3. QED
    BY <1>1, <2>1, <2>2 DEF Enter, TypeOK, Goto, Help, Result
<1>2. CASE Settle
  BY <1>2 DEF Settle, TypeOK, Goto, Entered, Help, Result
<1>3. CASE CountWords \/ KnowOptions \/ Check
  <2>1. wasHelpShown' \in BOOLEAN /\ printed' \in Nat
    <3>1. CASE UNCHANGED <<wasHelpShown, printed>>
      BY <3>1 DEF TypeOK
    <3>2. CASE ShowHelp
      BY <3>2, ShowHelpStep DEF TypeOK
    <3>3. QED
      BY <1>3, <3>1, <3>2, RuleStep
  <2>2. /\ at' \in {"options", "check", "create"}
        /\ UNCHANGED <<words, options, path, isValidCommandCategory, isValidCommand, command,
                       outcome>>
    BY <1>3, RuleStep
  <2>3. QED
    BY <2>1, <2>2 DEF TypeOK
<1>4. CASE createCommand
  BY <1>4, CaseTypes DEF createCommand, TypeOK, Goto, Entered, Help
<1>5. CASE run
  <2>1. wasHelpShown' \in BOOLEAN /\ printed' \in Nat /\ at' \in {"over", "execute"}
    <3>1. CASE command = "none"
      BY <1>5, <3>1, ShowHelpStep DEF run, TypeOK, Goto
    <3>2. CASE command # "none"
      BY <1>5, <3>2 DEF run, TypeOK, Goto, Help
    <3>3. QED
      BY <3>1, <3>2
  <2>2. UNCHANGED <<words, options, path, isValidCommandCategory, isValidCommand, command,
                    outcome>>
    BY <1>5 DEF run, Goto, Entered, Result
  <2>3. QED
    BY <2>1, <2>2 DEF TypeOK
<1>6. CASE execute
  BY <1>6 DEF execute, TypeOK, Goto, Entered, Help
<1>7. QED
  BY <1>1, <1>2, <1>3, <1>4, <1>5, <1>6 DEF Next

(* The help text is printed once, and not after a command was made.         *)
LEMMA HelpStep == ASSUME TypeOK, HelpInv, Next PROVE HelpInv'
<1>0. wasHelpShown \in BOOLEAN /\ printed \in Nat
  BY DEF TypeOK
<1>1. CASE Enter
  BY <1>1 DEF Enter, HelpInv, Goto, Help, Result
<1>2. CASE Settle
  BY <1>2 DEF Settle, HelpInv, Goto, Help, Result
<1>3. CASE CountWords \/ KnowOptions \/ Check
  <2>1. /\ at \in {"count", "options", "check"} /\ at' \in {"options", "check", "create"}
        /\ UNCHANGED <<command, outcome>>
    BY <1>3, RuleStep
  <2>2. printed' = IF wasHelpShown' THEN 1 ELSE 0
    <3>1. CASE UNCHANGED <<wasHelpShown, printed>>
      BY <3>1 DEF HelpInv
    <3>2. CASE ShowHelp
      BY <1>0, <3>2, ShowHelpStep DEF HelpInv
    <3>3. QED
      BY <1>3, <3>1, <3>2, RuleStep
  <2>3. QED
    BY <2>1, <2>2 DEF HelpInv
<1>4. CASE createCommand
  BY <1>4 DEF createCommand, HelpInv, Goto, Help
<1>5. CASE run
  <2>1. CASE command = "none"
    BY <1>0, <1>5, <2>1, ShowHelpStep DEF run, HelpInv, Goto, Result
  <2>2. CASE command # "none"
    BY <1>5, <2>2 DEF run, HelpInv, Goto, Help, Result
  <2>3. QED
    BY <2>1, <2>2
<1>6. CASE execute
  BY <1>6 DEF execute, HelpInv, Goto, Help
<1>7. QED
  BY <1>1, <1>2, <1>3, <1>4, <1>5, <1>6 DEF Next

LEMMA PathSeq == ASSUME TypeOK PROVE path \in Seq(Word)
<1>1. ASSUME NEW c \in Categories PROVE <<c>> \in Seq(Word)
  BY DEF Word
<1>2. ASSUME NEW a \in Offered PROVE a.path \in Seq(Word)
  BY Lengths
<1>3. << >> \in Seq(Word)
  OBVIOUS
<1>4. QED
  BY <1>1, <1>2, <1>3, Paths

(* The builders of login and register set the flag that they check, and the *)
(* flags say what was entered.                                              *)
LEMMA FlagStep == ASSUME TypeOK, FlagInv, Next PROVE FlagInv'
<1>1. CASE Enter
  <2>0. PICK i \in DOMAIN words : words[i] \in Names /\ path' = Append(path, words[i])
    BY <1>1 DEF Enter
  <2>1. ASSUME path' \in {<<"login">>, <<"register">>} PROVE isValidCommand'
    <3>1. PICK a \in login \cup register : a.path = path'
      <4>1. [path |-> <<"login">>, min |-> 0, max |-> 1, known |-> {}] \in login
        BY DEF login, Builder
      <4>2. [path |-> <<"register">>, min |-> 0, max |-> 1, known |-> {}] \in register
        BY DEF register, Builder
      <4>3. QED
        BY <2>1, <4>1, <4>2
    <3>2. a \in Offered
      BY <3>1 DEF Offered
    <3>3. ASSUME a \in update PROVE FALSE
      <4>1. a.path \in {<<"patch">>, <<"promote">>, <<"release">>, <<"rollback">>}
        BY <3>3, BuilderEntry DEF update, patch, promote, release, rollback
      <4>2. a.path[1] \in {"patch", "promote", "release", "rollback"}
        BY <4>1
      <4>3. a.path[1] \in {"login", "register"}
        BY <2>1, <3>1
      <4>4. QED
        BY <4>2, <4>3
    <3>4. path' \in {b.path : b \in Offered \ update}
      BY <3>1, <3>2, <3>3
    <3>5. QED
      BY <1>1, <3>4 DEF Enter
  <2>2. path' # << >> /\ path'[Len(path')] = words[i] /\ UNCHANGED words
    <3>1. words[i] \in STRING /\ path \in Seq(STRING \cup Word)
      BY <2>0, PathSeq DEF TypeOK
    <3>2. Len(path') # 0 /\ path'[Len(path')] = words[i]
      BY <2>0, <3>1
    <3>3. UNCHANGED words
      BY <1>1 DEF Enter, Goto
    <3>4. QED
      BY <3>2, <3>3
  <2>3. ASSUME isValidCommand' PROVE \E a \in Offered : path' = a.path
    <3>1. ~isValidCommand
      <4>1. ASSUME isValidCommand PROVE FALSE
        <5>1. PICK a \in Offered : path = a.path
          BY <4>1 DEF FlagInv
        <5>2. QED
          BY <2>0, <5>1, NamesNone
      <4>2. QED
        BY <4>1
    <3>2. path' \in {b.path : b \in Offered \ update}
      BY <1>1, <2>3, <3>1 DEF Enter
    <3>3. QED
      BY <3>2
  <2>4. QED
    BY <2>0, <2>1, <2>2, <2>3 DEF FlagInv
<1>2. CASE ~Enter
  BY <1>2 DEF FlagInv, Next, Settle, CountWords, KnowOptions, Check, createCommand, run,
              execute, Rule, Entered, Goto
<1>3. QED
  BY <1>1, <1>2

(* What a rule or a case says changes only with the path and the line.      *)
LEMMA Frame ==
    ASSUME UNCHANGED <<words, options, path, isValidCommandCategory, isValidCommand>>
    PROVE  Here' = Here /\ (Holds' <=> Holds)
<1>1. Here' = Here
  BY DEF Here
<1>2. isValidRollout' <=> isValidRollout
  BY DEF isValidRollout
<1>3. checkValidReleaseOptions' <=> checkValidReleaseOptions
  BY <1>2 DEF checkValidReleaseOptions
<1>4. QED
  BY <1>1, <1>2, <1>3 DEF Holds

LEMMA LineStays ==
    ASSUME Next PROVE UNCHANGED <<words, options>>
  BY RuleStep DEF Next, Enter, Settle, createCommand, run, execute, Goto

(* A rule that is not followed by the help text holds.                      *)
LEMMA RuleKept == ASSUME TypeOK, RuleInv, Next PROVE RuleInv'
<1>1. CASE Enter \/ Settle
  BY <1>1 DEF Enter, Settle, Goto, RuleInv
<1>2. ASSUME CountWords \/ KnowOptions \/ Check, ~wasHelpShown'
      PROVE  RuleInv'
  <2>1. /\ UNCHANGED <<words, options, path, isValidCommandCategory, isValidCommand>>
        /\ UNCHANGED <<wasHelpShown, printed>> /\ ~wasHelpShown
    <3>1. ~ShowHelp
      BY <1>2 DEF ShowHelp
    <3>2. UNCHANGED <<wasHelpShown, printed>>
      BY <1>2, <3>1, RuleStep
    <3>3. QED
      BY <1>2, <3>2, RuleStep
  <2>2. Here' = Here /\ (Holds' <=> Holds)
    BY <2>1, Frame
  <2>3. CASE CountWords
    <3>1. Len(words) - Len(path) \in Here.min..Here.max /\ at' = "options"
      BY <1>2, <2>3 DEF CountWords, Rule, ShowHelp, Goto
    <3>2. QED
      BY <2>1, <2>2, <3>1 DEF RuleInv
  <2>4. CASE KnowOptions
    <3>1. options \subseteq Here.known /\ at = "options" /\ at' = "check"
      BY <1>2, <2>4 DEF KnowOptions, Rule, ShowHelp, Goto
    <3>2. QED
      BY <2>1, <2>2, <3>1 DEF RuleInv
  <2>5. CASE Check
    <3>1. Holds /\ at = "check" /\ at' = "create"
      BY <1>2, <2>5 DEF Check, Rule, ShowHelp, Goto
    <3>2. QED
      BY <2>1, <2>2, <3>1 DEF RuleInv
  <2>6. QED
    BY <1>2, <2>3, <2>4, <2>5
<1>3. CASE createCommand \/ run \/ execute
  <2>1. /\ UNCHANGED <<words, options, path, isValidCommandCategory, isValidCommand>>
        /\ at \in {"create", "run", "execute"}
    BY <1>3 DEF createCommand, run, execute, Goto, Entered
  <2>2. wasHelpShown => wasHelpShown'
    BY <1>3 DEF createCommand, run, execute, Help, ShowHelp
  <2>3. Here' = Here /\ (Holds' <=> Holds)
    BY <2>1, Frame
  <2>4. QED
    BY <2>1, <2>2, <2>3 DEF RuleInv
<1>4. QED
  BY <1>1, <1>2, <1>3 DEF Next, RuleInv

(* A command stays one that the words make, and execute knows all of them.  *)
LEMMA MadeStep == ASSUME HelpInv, MadeInv, Next PROVE MadeInv'
<1>1. \A c \in Cases : Makes(c)' <=> Makes(c)
  BY LineStays DEF Makes, Given
<1>2. command' # "none" => \E c \in Cases : Makes(c) /\ command' = c.type
  <2>1. CASE UNCHANGED command
    BY <2>1 DEF MadeInv
  <2>2. CASE createCommand
    BY <2>2 DEF createCommand, MadeInv
  <2>3. createCommand \/ UNCHANGED command
    BY RuleStep DEF Next, Enter, Settle, run, execute, Result
  <2>4. QED
    BY <2>1, <2>2, <2>3
<1>3. outcome' # "none" => outcome' = "dispatched"
  <2>1. CASE execute
    <3>1. command # "none"
      BY <2>1 DEF execute, HelpInv
    <3>2. PICK c \in Cases : command = c.type
      BY <3>1 DEF MadeInv
    <3>3. command \in Dispatched
      BY <3>2, CaseKnown DEF CaseIsKnown
    <3>4. QED
      BY <2>1, <3>3 DEF execute
  <2>2. execute \/ UNCHANGED outcome
    BY RuleStep DEF Next, Enter, Settle, createCommand, run, Result
  <2>3. QED
    BY <2>1, <2>2 DEF MadeInv
<1>4. QED
  BY <1>1, <1>2, <1>3 DEF MadeInv

-----------------------------------------------------------------------------
(* A line that begins with the words of a command, word by word.            *)
LEMMA BeginsWords ==
    ASSUME TypeOK, NEW b \in Offered, Begins(b)
    PROVE  /\ DOMAIN words = 1..Len(words) /\ Len(words) \in Nat
           /\ Len(words) >= 1 /\ words[1] = b.path[1]
           /\ IsDouble(b) => Len(words) >= 2 /\ words[2] = b.path[2]
<1>1. words \in Seq(STRING) /\ IsPrefix(b.path, words)
  BY DEF TypeOK, Begins
<1>2. CASE IsSingle(b)
  <2>1. PICK x \in Singles : b.path = <<x>>
    BY <1>2 DEF IsSingle
  <2>2. Len(words) >= 1 /\ words[1] = x
    BY <1>1, <2>1, Prefix1
  <2>3. ~IsDouble(b)
    BY <1>2, Lengths
  <2>4. QED
    BY <1>1, <2>1, <2>2, <2>3
<1>3. CASE IsDouble(b)
  <2>1. PICK c \in Categories, x \in Subcommands : b.path = <<c, x>>
    BY <1>3 DEF IsDouble
  <2>2. Len(words) >= 2 /\ words[1] = c /\ words[2] = x
    BY <1>1, <2>1, Prefix2
  <2>3. QED
    BY <1>1, <2>1, <2>2
<1>4. QED
  BY <1>2, <1>3, OfferedShape

(* It enters its own builder and no other.                                  *)
LEMMA PathEnter ==
    ASSUME TypeOK, NEW b \in Offered, Begins(b), OnPath(b), Enter PROVE OnPath(b)'
<1>1. PICK i \in DOMAIN words : /\ words[i] \in Names
                                /\ \A j \in 1..(i - 1) : words[j] \notin Names
                                /\ path' = Append(path, words[i])
  BY DEF Enter
<1>2. i \in Nat /\ i >= 1
  BY <1>1, BeginsWords
<1>3. CASE path = << >>
  <2>1. words[1] \in Names
    BY <1>3, NamesFirst, BeginsWords
  <2>2. i = 1
    <3>1. i > 1 => 1 \in 1..(i - 1)
      BY <1>2
    <3>2. QED
      BY <1>1, <1>2, <2>1, <3>1
  <2>3. path' = Append(<< >>, b.path[1])
    <3>1. words[i] = b.path[1]
      BY <2>2, BeginsWords
    <3>2. QED
      BY <1>1, <1>3, <3>1
  <2>4. path' = <<b.path[1]>>
    BY <2>3
  <2>5. QED
    BY <2>4 DEF Enter, OnPath, Goto
<1>4. CASE path = <<b.path[1]>> /\ IsDouble(b)
  <2>1. b.path[1] \in Categories /\ b.path = <<b.path[1], b.path[2]>>
    BY <1>4, Lengths
  <2>2. b.path[2] \in Names /\ Names \subseteq Subcommands
    BY <1>4, <2>1, NamesBelow
  <2>3. i = 2
    <3>1. i # 1
      BY <1>1, <2>1, <2>2, BeginsWords DEF Categories, Subcommands
    <3>2. i > 2 => 2 \in 1..(i - 1)
      BY <1>2
    <3>3. QED
      BY <1>1, <1>2, <1>4, <2>2, <3>1, <3>2, BeginsWords
  <2>4. path' = Append(<<b.path[1]>>, b.path[2])
    BY <1>1, <1>4, <2>3, BeginsWords
  <2>5. path' = b.path
    BY <2>1, <2>4, AppendTwo
  <2>6. QED
    BY <2>5 DEF Enter, OnPath, Goto
<1>5. CASE path = b.path
  BY <1>1, <1>5, NamesNone
<1>6. QED
  BY <1>3, <1>4, <1>5, Lengths DEF OnPath

(* It does not stop above its builder.                                      *)
LEMMA PathSettle ==
    ASSUME TypeOK, NEW b \in Offered, Begins(b), OnPath(b), Settle PROVE OnPath(b)'
<1>1. \A i \in DOMAIN words : words[i] \notin Names
  BY DEF Settle
<1>2. CASE path = << >>
  BY <1>1, <1>2, NamesFirst, BeginsWords
<1>3. CASE path = <<b.path[1]>> /\ IsDouble(b)
  <2>1. b.path[1] \in Categories
    BY <1>3, Lengths
  <2>2. b.path[2] \in Names
    BY <1>3, <2>1, NamesBelow
  <2>3. QED
    BY <1>1, <1>3, <2>2, BeginsWords
<1>4. CASE path = b.path
  BY <1>4 DEF Settle, OnPath, Goto, Entered
<1>5. QED
  BY <1>2, <1>3, <1>4, Lengths DEF OnPath

(* No step takes such a line off its way.                                   *)
LEMMA PathStep ==
    ASSUME TypeOK, NEW b \in Offered, Begins(b), OnPath(b), Next PROVE OnPath(b)'
<1>1. CASE CountWords \/ KnowOptions \/ Check
  BY <1>1, RuleStep DEF OnPath
<1>2. CASE createCommand \/ run \/ execute
  BY <1>2 DEF createCommand, run, execute, OnPath, Goto, Entered
<1>3. QED
  BY <1>1, <1>2, PathEnter, PathSettle DEF Next

(* The check of a builder, taken apart.                                     *)
LEMMA HoldsMeans ==
    ASSUME NEW b \in Offered, path = b.path
    PROVE  /\ path # << >>
           /\ path \in {<<c>> : c \in Categories \cup {"login", "register"}}
                 => path \in {<<"login">>, <<"register">>}
           /\ path \in {<<"patch">>, <<"promote">>, <<"release">>}
                 => path \notin {<<c>> : c \in Categories \cup {"login", "register"}}
           /\ path = <<"release">> => path \notin {<<"patch">>, <<"promote">>}
<1>1. path # << >>
  <2>1. Len(path) # 0
    BY Lengths
  <2>2. QED
    BY <2>1
<1>2. ASSUME NEW c \in Categories \cup {"login", "register"}, path = <<c>>
      PROVE  path \in {<<"login">>, <<"register">>}
  <2>1. Len(path) = 1 /\ path[1] = c
    BY <1>2
  <2>2. path[1] \in Singles
    BY <2>1, Lengths
  <2>3. c \in {"login", "register"}
    BY <2>1, <2>2 DEF Categories, Singles
  <2>4. QED
    BY <1>2, <2>3
<1>3. ASSUME path \in {<<"patch">>, <<"promote">>, <<"release">>}
      PROVE  path \notin {<<c>> : c \in Categories \cup {"login", "register"}}
  <2>1. path[1] \in {"patch", "promote", "release"}
    BY <1>3
  <2>2. QED
    BY <2>1 DEF Categories
<1>4. path = <<"release">> => path \notin {<<"patch">>, <<"promote">>}
  OBVIOUS
<1>5. QED
  BY <1>1, <1>2, <1>3, <1>4

(* The check of its builder holds for a line that keeps to its usage text.  *)
LEMMA TrackHolds ==
    ASSUME FlagInv, NEW b \in Offered, Usage(b), path = b.path PROVE Holds
<1>1. isValidRollout /\ checkValidReleaseOptions
  BY DEF Usage, Keeps, isValidRollout, checkValidReleaseOptions
<1>2. QED
  BY <1>1, HoldsMeans DEF Holds, FlagInv

LEMMA TrackStep ==
    ASSUME TypeOK, FlagInv, NEW b \in Offered, Usage(b), OnPath(b), OnTrack(b), Next
    PROVE  OnTrack(b)'
<1>1. CASE Enter \/ Settle
  BY <1>1 DEF Enter, Settle, OnTrack, Goto, Help
<1>2. ASSUME CountWords \/ KnowOptions \/ Check PROVE OnTrack(b)'
  <2>1. path = b.path /\ Here = b
    BY <1>2, RuleStep, HereIs DEF OnPath
  <2>2. UNCHANGED <<wasHelpShown, printed>>
    <3>1. CASE CountWords
      BY <2>1, <3>1 DEF CountWords, Rule, Usage, Keeps, Help
    <3>2. CASE KnowOptions
      BY <2>1, <3>2 DEF KnowOptions, Rule, Usage, Keeps, Help
    <3>3. CASE Check
      BY <2>1, <3>3, TrackHolds DEF Check, Rule, Help
    <3>4. QED
      BY <1>2, <3>1, <3>2, <3>3
  <2>3. at' \in {"options", "check", "create"}
    BY <1>2, RuleStep
  <2>4. QED
    BY <2>2, <2>3 DEF OnTrack
<1>3. CASE createCommand
  <2>1. command' # "none"
    <3>1. PICK c \in Cases : command' = c.type
      BY <1>3, UsageMakes DEF createCommand, OnTrack
    <3>2. QED
      BY <3>1, CaseTypes DEF CommandType
  <2>2. QED
    BY <1>3, <2>1 DEF createCommand, OnTrack, Goto, Help
<1>4. CASE run
  BY <1>4 DEF run, OnTrack, Goto, Help, Result
<1>5. CASE execute
  BY <1>5 DEF execute, OnTrack, Goto, Help
<1>6. QED
  BY <1>1, <1>2, <1>3, <1>4, <1>5 DEF Next

-----------------------------------------------------------------------------
LEMMA InitInv == ASSUME Init PROVE Inv
<1>1. TypeOK
  <2>1. words \in Seq(STRING) /\ options \subseteq Options
    BY CommandLineAssumption DEF Init
  <2>2. path \in {b.path : b \in Offered \cup Level}
    <3>1. [path |-> << >>, min |-> 1, max |-> 1, known |-> {}] \in Level
      BY DEF Level, Builder
    <3>2. QED
      BY <3>1 DEF Init
  <2>3. QED
    BY <2>1, <2>2 DEF Init, TypeOK
<1>2. HelpInv /\ RuleInv /\ MadeInv
  BY DEF Init, HelpInv, RuleInv, MadeInv
<1>3. FlagInv
  <2>1. Len(path) = 0 /\ Len(<<"login">>) = 1 /\ Len(<<"register">>) = 1
    BY DEF Init
  <2>2. QED
    BY <2>1 DEF FlagInv, Init
<1>4. ASSUME NEW b \in Offered PROVE OnPath(b) /\ OnTrack(b)
  BY DEF Init, OnPath, OnTrack
<1>5. QED
  BY <1>1, <1>2, <1>3, <1>4 DEF Inv

LEMMA InvStep == ASSUME Inv, [Next]_vars PROVE Inv'
<1>1. CASE Next
  <2>1. TypeOK' /\ HelpInv' /\ FlagInv'
    BY <1>1, TypeStep, HelpStep, FlagStep DEF Inv
  <2>2. RuleInv' /\ MadeInv'
    BY <1>1, RuleKept, MadeStep DEF Inv
  <2>3. ASSUME NEW b \in Offered, Begins(b)' PROVE OnPath(b)'
    <3>1. Begins(b)
      BY <1>1, <2>3, LineStays DEF Begins
    <3>2. QED
      BY <1>1, <3>1, PathStep DEF Inv
  <2>4. ASSUME NEW b \in Offered, Usage(b)' PROVE OnTrack(b)'
    <3>1. Usage(b) /\ Begins(b)
      BY <1>1, <2>4, LineStays DEF Usage, Keeps, Begins
    <3>2. QED
      BY <1>1, <3>1, TrackStep DEF Inv
  <2>5. QED
    BY <2>1, <2>2, <2>3, <2>4 DEF Inv
<1>2. CASE UNCHANGED vars
  <2>1. Here' = Here /\ (Holds' <=> Holds)
    BY <1>2, Frame DEF vars
  <2>2. RuleInv'
    BY <1>2, <2>1 DEF Inv, RuleInv, vars
  <2>3. MadeInv'
    BY <1>2 DEF Inv, MadeInv, Makes, Given, vars
  <2>4. TypeOK' /\ HelpInv' /\ FlagInv'
    BY <1>2 DEF Inv, TypeOK, HelpInv, FlagInv, vars
  <2>5. \A b \in Offered : (Begins(b)' => OnPath(b)') /\ (Usage(b)' => OnTrack(b)')
    BY <1>2 DEF Inv, Begins, OnPath, OnTrack, Usage, Keeps, vars
  <2>6. QED
    BY <2>2, <2>3, <2>4, <2>5 DEF Inv
<1>3. QED
  BY <1>1, <1>2

(* Whatever the line: the state of the help text agrees with what was made *)
(* of the line, and the path and the rules with its words.                  *)
THEOREM Invariance == Spec => []Inv
  BY InitInv, InvStep, PTL DEF Spec

(* Every line of words, however long, leaves each variable in its type.     *)
THEOREM TypeCorrect == Spec => []TypeOK
<1>1. Inv => TypeOK
  BY DEF Inv
<1>2. QED
  BY <1>1, Invariance, PTL

(* For every set of lines: the help text is printed at most once, a run     *)
(* ends with it or with a command but not with both, and a line that keeps  *)
(* to the usage text of a command is not answered with it.                  *)
THEOREM UsageIsRun == Spec => []HelpOrRun
<1>1. ASSUME Inv PROVE HelpOrRun
  <2>1. printed = (IF wasHelpShown THEN 1 ELSE 0) /\ wasHelpShown \in BOOLEAN
    BY <1>1 DEF Inv, HelpInv, TypeOK
  <2>2. at = "over" => (printed = 1) # (outcome # "none")
    BY <1>1, <2>1 DEF Inv, HelpInv
  <2>3. ASSUME printed = 1, NEW b \in Offered, Usage(b) PROVE FALSE
    BY <1>1, <2>1, <2>3 DEF Inv, OnTrack
  <2>4. QED
    BY <2>1, <2>2, <2>3 DEF HelpOrRun
<1>2. QED
  BY <1>1, Invariance, PTL

-----------------------------------------------------------------------------
(* The rules of a builder say what its usage text says.                     *)
LEMMA RulesKeep ==
    ASSUME NEW b \in Offered, Begins(b), path = b.path, options \subseteq Options,
           Len(words) - Len(path) \in Here.min..Here.max, options \subseteq Here.known, Holds
    PROVE  Keeps(b)
<1>1. Here = b
  BY HereIs
<1>2. "badRollout" \in b.known => path \in {<<"patch">>, <<"promote">>, <<"release">>}
  <2>1. ASSUME NEW x, b.path = <<x>>, "badRollout" \in b.known
        PROVE  x \in {"patch", "promote", "release"}
    <3>1. Demand(b.path) = Single(x) /\ b.known = Demand(b.path).known
      BY <2>1, OfferedShape DEF Demand, Entry
    <3>2. QED
      BY <2>1, <3>1 DEF Single, D
  <2>2. ASSUME NEW c, NEW x, b.path = <<c, x>>, "badRollout" \in b.known PROVE FALSE
    <3>1. Demand(b.path) = Double(c, x) /\ b.known = Demand(b.path).known
      BY <2>2, OfferedShape DEF Demand, Entry
    <3>2. QED
      BY <2>2, <3>1 DEF Double, D
  <2>3. ASSUME NEW x, b.path = <<x>>, "badRollout" \in b.known
        PROVE  path \in {<<"patch">>, <<"promote">>, <<"release">>}
    BY <2>1, <2>3
  <2>4. QED
    BY <2>2, <2>3, OfferedShape, Zenon DEF IsSingle, IsDouble
<1>3. "noDeployment" \in b.known => path = <<"release">>
  <2>1. ASSUME NEW x, b.path = <<x>>, "noDeployment" \in b.known
        PROVE  x = "release"
    <3>1. Demand(b.path) = Single(x) /\ b.known = Demand(b.path).known
      BY <2>1, OfferedShape DEF Demand, Entry
    <3>2. QED
      BY <2>1, <3>1 DEF Single, D
  <2>2. ASSUME NEW c, NEW x, b.path = <<c, x>>, "noDeployment" \in b.known PROVE FALSE
    <3>1. Demand(b.path) = Double(c, x) /\ b.known = Demand(b.path).known
      BY <2>2, OfferedShape DEF Demand, Entry
    <3>2. QED
      BY <2>2, <3>1 DEF Double, D
  <2>3. QED
    BY <2>1, <2>2, OfferedShape DEF IsSingle, IsDouble
<1>4. "badRollout" \notin options
  <2>1. CASE path \in {<<"patch">>, <<"promote">>, <<"release">>}
    <3>1. /\ path # << >>
          /\ path \notin {<<c>> : c \in Categories \cup {"login", "register"}}
      BY <2>1, HoldsMeans
    <3>2. CASE path \in {<<"patch">>, <<"promote">>}
      <4>1. isValidRollout
        BY <3>1, <3>2, HoldsMeans DEF Holds
      <4>2. QED
        BY <4>1 DEF isValidRollout
    <3>3. CASE path = <<"release">>
      <4>1. checkValidReleaseOptions
        BY <3>1, <3>3, HoldsMeans DEF Holds
      <4>2. QED
        BY <4>1 DEF checkValidReleaseOptions, isValidRollout
    <3>4. QED
      BY <2>1, <3>2, <3>3
  <2>2. "badRollout" \in options => "badRollout" \in b.known
    BY <1>1
  <2>3. QED
    BY <1>2, <2>1, <2>2
<1>5. "noDeployment" \notin options
  <2>1. CASE path = <<"release">>
    BY <2>1, HoldsMeans DEF Holds, checkValidReleaseOptions
  <2>2. QED
    BY <1>1, <1>3, <2>1
<1>6. QED
  BY <1>1, <1>4, <1>5 DEF Keeps, Begins

(* A line that breaks no rule has come to the builder of a command, and the *)
(* name of that command is a word of it that begins no hidden one.          *)
LEMMA RulesFind ==
    ASSUME TypeOK, FlagInv, Holds, NEW i \in DOMAIN words, words[i] \in HiddenFirst
    PROVE  \E b \in Offered : \E j \in DOMAIN words : j # i /\ words[j] = b.path[Len(b.path)]
<1>1. path # << >>
  BY DEF Holds, FlagInv
<1>2. PICK b \in Offered : path = b.path
  <2>1. ASSUME NEW c \in Categories, path = <<c>> PROVE \E a \in Offered : path = a.path
    <3>1. path \in {<<d>> : d \in Categories \cup {"login", "register"}}
      BY <2>1
    <3>2. path \notin {<<"patch">>, <<"promote">>} /\ path # <<"release">>
      <4>1. path[1] \in Categories
        BY <2>1
      <4>2. path[1] \notin {"patch", "promote", "release"}
        BY <4>1 DEF Categories
      <4>3. QED
        BY <4>2
    <3>4. isValidCommand
      BY <1>1, <3>1, <3>2 DEF Holds
    <3>5. QED
      BY <3>4 DEF FlagInv
  <2>2. QED
    BY <1>1, <2>1, Paths
<1>3. PICK j \in DOMAIN words : words[j] = path[Len(path)]
  BY <1>1 DEF FlagInv
<1>4. b.path[Len(b.path)] \notin HiddenFirst
  <2>1. b.path[Len(b.path)] \in Singles \cup Subcommands
    BY Lengths
  <2>2. QED
    BY <2>1 DEF Singles, Subcommands, HiddenFirst
<1>5. QED
  BY <1>2, <1>3, <1>4

(* For every line: what is executed is something execute knows, and keeps   *)
(* to the rules of its own builder, or is a hidden command with the name of *)
(* an offered one among its further words.                                  *)
THEOREM RulesRespected == Spec => []OnlyByTheRules
<1>1. ASSUME Inv, outcome # "none"
      PROVE  /\ outcome = "dispatched"
             /\ IF command \in Hidden
                THEN \E b \in Offered : \E i \in 2..Len(words) : words[i] = b.path[Len(b.path)]
                ELSE \E b \in Offered : Keeps(b)
  <2>1. TypeOK /\ FlagInv /\ outcome = "dispatched"
    BY <1>1 DEF Inv, MadeInv
  <2>2. at = "over" /\ command # "none" /\ ~wasHelpShown
    BY <1>1 DEF Inv, HelpInv
  <2>3. /\ Len(words) - Len(path) \in Here.min..Here.max
        /\ options \subseteq Here.known
        /\ Holds
    BY <1>1, <2>2 DEF Inv, RuleInv
  <2>4. PICK c \in Cases : IsPrefix(c.path, words) /\ command = c.type
    BY <1>1, <2>2 DEF Inv, MadeInv, Makes
  <2>5. CaseIsKnown(c)
    BY CaseKnown
  <2>6. words \in Seq(STRING) /\ options \subseteq Options
    BY <2>1 DEF TypeOK
  <2>7. CASE command \in Hidden
    <3>1. PICK x \in HiddenFirst : c.path = <<x>> \/ \E y : c.path = <<x, y>>
      BY <2>4, <2>5, <2>7 DEF CaseIsKnown
    <3>2. Len(words) >= 1 /\ words[1] = x
      <4>1. CASE c.path = <<x>>
        BY <2>4, <2>6, <4>1, Prefix1
      <4>2. ASSUME NEW y, c.path = <<x, y>> PROVE Len(words) >= 1 /\ words[1] = x
        <5>1. IsPrefix(<<x, y>>, words)
          BY <2>4, <4>2
        <5>2. Len(words) >= 2 /\ words[1] = x
          BY <2>6, <5>1, Prefix2
        <5>3. QED
          BY <2>6, <5>2
      <4>3. QED
        BY <3>1, <4>1, <4>2
    <3>3. 1 \in DOMAIN words /\ DOMAIN words = 1..Len(words) /\ Len(words) \in Nat
      BY <2>6, <3>2
    <3>4. PICK b \in Offered, j \in DOMAIN words : j # 1 /\ words[j] = b.path[Len(b.path)]
      BY <2>1, <2>3, <3>2, <3>3, RulesFind
    <3>5. j \in 2..Len(words)
      BY <3>3, <3>4
    <3>6. QED
      BY <2>1, <2>7, <3>4, <3>5
  <2>8. CASE command \notin Hidden
    <3>1. PICK b \in Offered : b.path = c.path
      BY <2>4, <2>5, <2>8 DEF CaseIsKnown
    <3>2. Begins(b)
      BY <2>4, <3>1 DEF Begins
    <3>3. path = b.path
      BY <1>1, <2>2, <3>2 DEF Inv, OnPath
    <3>4. QED
      BY <2>1, <2>3, <2>6, <2>8, <3>2, <3>3, RulesKeep
  <2>9. QED
    BY <2>7, <2>8
<1>2. Inv => OnlyByTheRules
  BY <1>1 DEF OnlyByTheRules
<1>3. QED
  BY <1>2, Invariance, PTL

-----------------------------------------------------------------------------
(* A line has no way back.                                                  *)

\* The steps that are left to a line, at most; a path has two words at most.
StepsLeft ==
    CASE at = "words" /\ Len(path) = 0 -> 9
      [] at = "words" /\ Len(path) = 1 -> 8
      [] at = "words" /\ Len(path) = 2 -> 7
      [] at = "count" -> 6
      [] at = "options" -> 5
      [] at = "check" -> 4
      [] at = "create" -> 3
      [] at = "run" -> 2
      [] at = "execute" -> 1
      [] at = "over" -> 0
LineDwindles == [][StepsLeft' < StepsLeft]_vars

LEMMA PathsShort ==
    ASSUME NEW b \in Offered \cup Level PROVE Len(b.path) \in {0, 1, 2}
<1>1. CASE b \in Offered
  BY <1>1, Lengths
<1>2. CASE b \in Level
  <2>1. ASSUME NEW c \in Categories, b.path = <<c>> PROVE Len(b.path) = 1
    BY <2>1
  <2>2. CASE b.path = << >>
    BY <2>2
  <2>3. b.path = << >> \/ \E c \in Categories : b.path = <<c>>
    BY <1>2, BuilderEntry DEF Level
  <2>4. QED
    BY <2>1, <2>2, <2>3
<1>3. QED
  BY <1>1, <1>2

LEMMA StepsAreFew ==
    ASSUME TypeOK
    PROVE  StepsLeft \in 0..9 /\ (StepsLeft = 0 <=> at = "over")
<1>1. at \in {"words", "count", "options", "check", "create", "run", "execute", "over"}
  BY DEF TypeOK
<1>2. Len(path) \in {0, 1, 2}
  BY PathsShort DEF TypeOK
<1>3. ASSUME at = "words" PROVE StepsLeft \in {7, 8, 9}
  BY <1>2, <1>3 DEF StepsLeft
<1>4. ASSUME at \notin {"words", "over"} PROVE StepsLeft \in {1, 2, 3, 4, 5, 6}
  BY <1>1, <1>4 DEF StepsLeft
<1>5. ASSUME at = "over" PROVE StepsLeft = 0
  BY <1>5 DEF StepsLeft
<1>6. \A n \in {1, 2, 3, 4, 5, 6, 7, 8, 9} : n \in 0..9 /\ n # 0
  OBVIOUS
<1>7. 0 \in 0..9
  OBVIOUS
<1>8. QED
  BY <1>3, <1>4, <1>5, <1>6, <1>7

(* Whatever the line, parsing it, making a command of it and executing that *)
(* take nine steps at most, and no step undoes an earlier one.              *)
THEOREM LineEnds == Spec => LineDwindles
<1>1. TypeOK /\ [Next]_vars => [StepsLeft' < StepsLeft]_vars
  <2> SUFFICES ASSUME TypeOK, Next PROVE StepsLeft' < StepsLeft
    OBVIOUS
  <2>1. CASE Enter
    <3>1. PICK i \in DOMAIN words : path' = Append(path, words[i])
      BY <2>1 DEF Enter
    <3>2. path \in Seq(Word)
      BY PathSeq
    <3>3. Len(path') = Len(path) + 1
      BY <3>1, <3>2
    <3>4. at = "words" /\ at' = "words"
      BY <2>1 DEF Enter, Goto
    <3>5. Len(path) \in {0, 1, 2}
      BY PathsShort DEF TypeOK
    <3>6. Len(path') \in {0, 1, 2}
      BY <2>1, EnterType, PathsShort
    <3>7. QED
      BY <3>3, <3>4, <3>5, <3>6 DEF StepsLeft
  <2>2. CASE Settle
    <3>1. at = "words" /\ at' = "count"
      BY <2>2 DEF Settle, Goto
    <3>2. Len(path) \in {0, 1, 2}
      BY PathsShort DEF TypeOK
    <3>3. QED
      BY <3>1, <3>2 DEF StepsLeft
  <2>3. CASE CountWords \/ KnowOptions \/ Check
    BY <2>3 DEF CountWords, KnowOptions, Check, Rule, Goto, StepsLeft
  <2>4. CASE createCommand \/ run \/ execute
    <3>1. \/ at = "create" /\ at' = "run"
          \/ at = "run" /\ at' \in {"execute", "over"}
          \/ at = "execute" /\ at' = "over"
      BY <2>4 DEF createCommand, run, execute, Goto
    <3>2. QED
      BY <3>1 DEF StepsLeft
  <2>5. QED
    BY <2>1, <2>2, <2>3, <2>4 DEF Next
<1>2. QED
  BY <1>1, TypeCorrect, PTL DEF Spec, LineDwindles

===============================================================================
