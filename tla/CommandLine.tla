------------------------------ MODULE CommandLine ------------------------------
(***************************************************************************)
(* From the words of a command line to the command that is executed, or to *)
(* the help text.  Three places each know the commands on their own: the   *)
(* builders given to yargs, the switch of createCommand, and the switch of *)
(* execute.  They share the words, and three flags of the module.          *)
(*                                                                         *)
(* yargs is modelled as the parser uses it: the first word that names a    *)
(* command of a level enters its builder, wherever it stands; the rules of *)
(* the innermost builder are checked one after the other; a rule that is   *)
(* broken calls the handler given to fail, and checking goes on.           *)
(*                                                                         *)
(* cli/script/command-parser.ts, cli/script/cli.ts, the second switch of   *)
(* execute in cli/script/command-executor.ts.                              *)
(***************************************************************************)
EXTENDS Naturals, SequencesExt

CONSTANTS
    Lines,     \* the sequences of words that are not options
    OptionSets \* the sets of options given along with them

\* What may be said with options, as far as parsing tells it apart: --default,
\* a --rollout out of range, an empty --deploymentName, an option nobody knows.
Options == {"default", "badRollout", "noDeployment", "unknown"}

ASSUME CommandLineAssumption ==
    /\ \A line \in Lines : line \in Seq(STRING)
    /\ OptionSets \subseteq SUBSET Options

VARIABLES
    words,   \* argv._
    options, \* the options given
    path,    \* the words whose builders have been entered
    at,      \* what happens next
    isValidCommandCategory,
    isValidCommand,
    wasHelpShown,
    printed, \* how often the help text was printed
    command, \* what createCommand returned, "none" if it was nothing
    outcome  \* what execute made of it

vars == <<words, options, path, at, isValidCommandCategory, isValidCommand, wasHelpShown,
          printed, command, outcome>>

-----------------------------------------------------------------------------
\* What the builder of a command demands: how many words besides its own, and
\* which options it knows.
Builder(names, min, max, known) ==
    {[path |-> p, min |-> min, max |-> max, known |-> known] : p \in names}

Named(category, names) == {<<category, n>> : n \in names}
List == {"list", "ls"}
Removal == {"remove", "rm"}
Categories == {"access-key", "app", "collaborator", "deployment"}

accessKeyAdd == Builder(Named("access-key", {"add"}), 1, 1, {})
accessKeyList == Builder(Named("access-key", List), 0, 0, {})
accessKeyRemove == Builder(Named("access-key", Removal), 1, 1, {})

appAddOrRename == Builder(Named("app", {"add", "rename"}), 2, 2, {})
appList == Builder(Named("app", List), 0, 0, {})
appRemove == Builder(Named("app", Removal), 1, 1, {})

collaboratorAdd == Builder(Named("collaborator", {"add"}), 2, 2, {})
listCollaborators == Builder(Named("collaborator", List), 1, 1, {})
removeCollaborator == Builder(Named("collaborator", Removal), 2, 2, {})

deploymentAddOrRename ==
    Builder(Named("deployment", {"add"}), 1, 2, {"default"})
        \cup Builder(Named("deployment", {"rename"}), 3, 3, {})
deploymentHistoryClear == Builder(Named("deployment", {"clear"}), 2, 2, {})
deploymentList == Builder(Named("deployment", List), 1, 1, {})
deploymentRemove == Builder(Named("deployment", Removal), 2, 2, {})
deploymentHistory == Builder(Named("deployment", {"history", "h"}), 2, 2, {})

debug == Builder({<<"debug">>}, 1, 1, {})
login == Builder({<<"login">>}, 0, 1, {})
logout == Builder({<<"logout">>}, 0, 0, {})
register == Builder({<<"register">>}, 0, 1, {})
whoami == Builder({<<"whoami">>}, 0, 0, {})

patch == Builder({<<"patch">>}, 2, 2, {"badRollout"})
promote == Builder({<<"promote">>}, 3, 3, {"badRollout"})
release == Builder({<<"release">>}, 2, 2, {"badRollout", "noDeployment"})
rollback == Builder({<<"rollback">>}, 2, 2, {})

\* These four leave both flags alone.
update == patch \cup promote \cup release \cup rollback

Offered ==
    UNION {accessKeyAdd, accessKeyList, accessKeyRemove,
           appAddOrRename, appList, appRemove,
           collaboratorAdd, listCollaborators, removeCollaborator,
           deploymentAddOrRename, deploymentHistoryClear, deploymentList, deploymentRemove,
           deploymentHistory,
           debug, login, logout, register, whoami, update}

\* The levels above the commands have their demands as well.
Level ==
    Builder({<< >>}, 1, 1, {}) \cup Builder({<<c>> : c \in Categories}, 2, 2, {})

\* The words that enter a builder from where one is.
Names ==
    {b.path[Len(path) + 1] : b \in {o \in Offered : Len(o.path) > Len(path) /\ IsPrefix(path, o.path)}}

-----------------------------------------------------------------------------
\* What createCommand makes of the words, and which of them may not be empty.
Case(names, type, needs) == {[path |-> p, type |-> type, needs |-> needs] : p \in names}

accessKeyCases ==
    UNION {
        Case(Named("access-key", {"add"}), "accessKeyAdd", {3}),
        Case(Named("access-key", {"patch"}), "accessKeyPatch", {3}),
        Case(Named("access-key", List), "accessKeyList", {}),
        Case(Named("access-key", Removal), "accessKeyRemove", {3})}

appCases ==
    UNION {
        Case(Named("app", {"add"}), "appAdd", {3}),
        Case(Named("app", List), "appList", {}),
        Case(Named("app", Removal), "appRemove", {3}),
        Case(Named("app", {"rename"}), "appRename", {3, 4}),
        Case(Named("app", {"transfer"}), "appTransfer", {3, 4})}

collaboratorCases ==
    UNION {
        Case(Named("collaborator", {"add"}), "collaboratorAdd", {3, 4}),
        Case(Named("collaborator", List), "collaboratorList", {3}),
        Case(Named("collaborator", Removal), "collaboratorRemove", {3, 4})}

deploymentCases ==
    UNION {
        Case(Named("deployment", {"add"}), "deploymentAdd", {3}),
        Case(Named("deployment", {"clear"}), "deploymentHistoryClear", {3, 4}),
        Case(Named("deployment", List), "deploymentList", {3}),
        Case(Named("deployment", Removal), "deploymentRemove", {3, 4}),
        Case(Named("deployment", {"rename"}), "deploymentRename", {3, 4, 5}),
        Case(Named("deployment", {"history", "h"}), "deploymentHistory", {3, 4})}

accountCases ==
    UNION {
        Case({<<"link">>}, "link", {}),
        Case({<<"login">>}, "login", {}),
        Case({<<"logout">>}, "logout", {})}

updateCases ==
    UNION {
        Case({<<"patch">>}, "patch", {2, 3}),
        Case({<<"promote">>}, "promote", {2, 3, 4}),
        Case({<<"register">>}, "register", {})}

releaseCases ==
    UNION {
        Case({<<"release">>}, "releaseNativeScript", {2, 3}),
        Case({<<"rollback">>}, "rollback", {2, 3}),
        Case(Named("session", List), "sessionList", {}),
        Case(Named("session", Removal), "sessionRemove", {3}),
        Case({<<"whoami">>}, "whoami", {})}

Cases ==
    UNION {accessKeyCases, appCases, collaboratorCases, deploymentCases, accountCases,
           updateCases, releaseCases, Case({<<"debug">>}, "debug", {})}

CommandType ==
    {"accessKeyAdd", "accessKeyPatch", "accessKeyList", "accessKeyRemove", "appAdd", "appList",
     "appRemove", "appRename", "appTransfer", "collaboratorAdd", "collaboratorList",
     "collaboratorRemove", "debug", "deploymentAdd", "deploymentHistory",
     "deploymentHistoryClear", "deploymentList", "deploymentMetrics", "deploymentRemove",
     "deploymentRename", "link", "login", "logout", "patch", "promote", "register", "release",
     "releaseCordova", "releaseReact", "releaseNativeScript", "rollback", "sessionList",
     "sessionRemove", "whoami"}

\* The second switch of execute.
Dispatched == CommandType \ {"deploymentMetrics"}

\* An argument that was not given is as falsy as an empty one.
Given(i) == i \in DOMAIN words /\ words[i] # ""

Makes(c) ==
    /\ IsPrefix(c.path, words)
    /\ \A i \in c.needs : Given(i)
    /\ c.type = "deploymentAdd" => Given(4) \/ "default" \in options

-----------------------------------------------------------------------------
TypeOK ==
    /\ words \in Seq(STRING)
    /\ options \subseteq Options
    /\ path \in {b.path : b \in Offered \cup Level}
    /\ at \in {"words", "count", "options", "check", "create", "run", "execute", "over"}
    /\ isValidCommandCategory \in BOOLEAN
    /\ isValidCommand \in BOOLEAN
    /\ wasHelpShown \in BOOLEAN
    /\ printed \in Nat
    /\ command \in CommandType \cup {"none"}
    /\ outcome \in {"none", "dispatched", "invalid"}

Init ==
    /\ words \in Lines
    /\ options \in OptionSets
    /\ path = << >>
    /\ at = "words"
    /\ isValidCommandCategory = FALSE
    /\ isValidCommand = FALSE
    /\ wasHelpShown = FALSE
    /\ printed = 0
    /\ command = "none"
    /\ outcome = "none"

\* The line does not change, and neither does what is not named here.
Goto(w) == at' = w /\ UNCHANGED <<words, options>>
Entered == <<path, isValidCommandCategory, isValidCommand>>
Help == <<wasHelpShown, printed>>
Result == <<command, outcome>>

\* Slip: asks nobody whether the help text is there already.
ShowHelpAgain == wasHelpShown' = TRUE /\ printed' = printed + 1

ShowHelp ==
    /\ wasHelpShown' = TRUE
    /\ printed' = IF wasHelpShown THEN printed ELSE printed + 1

-----------------------------------------------------------------------------
Updates == {b.path : b \in update}

\* The first word that names something here enters its builder, which sets the
\* flags and goes on with the words of its own.
Enter ==
    /\ at = "words"
    /\ \E i \in DOMAIN words :
           /\ words[i] \in Names
           /\ \A j \in 1..(i - 1) : words[j] \notin Names
           /\ path' = Append(path, words[i])
    /\ isValidCommandCategory' = (isValidCommandCategory \/ path' \notin Updates)
    /\ isValidCommand' = (isValidCommand \/ path' \in {b.path : b \in Offered \ update})
    /\ Goto("words")
    /\ UNCHANGED <<Help, Result>>

\* Nothing more to enter: the rules of this builder count.
Settle ==
    /\ at = "words"
    /\ \A i \in DOMAIN words : words[i] \notin Names
    /\ Goto("count")
    /\ UNCHANGED <<Entered, Help, Result>>

Here == CHOOSE b \in Offered \cup Level : b.path = path

\* A rule that is broken prints the help text, and the next one is checked.
Rule(from, holds, to) ==
    /\ at = from
    /\ IF holds THEN UNCHANGED Help ELSE ShowHelp
    /\ Goto(to)
    /\ UNCHANGED <<Entered, Result>>

\* The words that were entered are not counted.
CountWords == Rule("count", Len(words) - Len(path) \in Here.min..Here.max, "options")

KnowOptions == Rule("options", options \subseteq Here.known, "check")

isValidRollout == "badRollout" \notin options

\* Slip: forgets the rollout.
checkDeploymentOnly == "noDeployment" \notin options

checkValidReleaseOptions == isValidRollout /\ "noDeployment" \notin options

\* The check of each builder, where it has one.
Holds ==
    CASE path = << >> -> isValidCommandCategory
      [] path \in {<<c>> : c \in Categories \cup {"login", "register"}} -> isValidCommand
      [] path \in {<<"patch">>, <<"promote">>} -> isValidRollout
      [] path = <<"release">> -> checkValidReleaseOptions
      [] OTHER -> TRUE

Check == Rule("check", Holds, "create")

-----------------------------------------------------------------------------
\* Slip: the word for the type.
createCommandByName ==
    /\ at = "create"
    /\ \/ \E c \in Cases : ~wasHelpShown /\ Makes(c) /\ command' = c.path[Len(c.path)]
       \/ (wasHelpShown \/ \A c \in Cases : ~Makes(c)) /\ UNCHANGED command
    /\ Goto("run")
    /\ UNCHANGED <<Entered, Help, outcome>>

createCommand ==
    /\ at = "create"
    /\ \/ \E c \in Cases : ~wasHelpShown /\ Makes(c) /\ command' = c.type
       \/ (wasHelpShown \/ \A c \in Cases : ~Makes(c)) /\ UNCHANGED command
    /\ Goto("run")
    /\ UNCHANGED <<Entered, Help, outcome>>

\* run of cli.ts.
run ==
    /\ at = "run"
    /\ IF command = "none" THEN ShowHelp /\ Goto("over")
                           ELSE Goto("execute") /\ UNCHANGED Help
    /\ UNCHANGED <<Entered, Result>>

\* What the commands do is in the modules about them.
execute ==
    /\ at = "execute"
    /\ outcome' = IF command \in Dispatched THEN "dispatched" ELSE "invalid"
    /\ Goto("over")
    /\ UNCHANGED <<Entered, Help, command>>

Next ==
    \/ Enter
    \/ Settle
    \/ CountWords
    \/ KnowOptions
    \/ Check
    \/ createCommand
    \/ run
    \/ execute

Spec == Init /\ [][Next]_vars

-----------------------------------------------------------------------------
\* The usage texts: a line that starts with the words of a command, says each of
\* its arguments, and gives options it knows, with values in range.
Keeps(b) ==
    /\ IsPrefix(b.path, words)
    /\ Len(words) - Len(b.path) \in b.min..b.max
    /\ options \subseteq b.known \ {"badRollout", "noDeployment"}

Usage(b) ==
    /\ Keeps(b)
    /\ \A i \in DOMAIN words : words[i] # ""
    /\ b.path = <<"deployment", "add">> => Len(words) = 4 \/ "default" \in options

\* The help text is printed at most once, and instead of a command; a line that
\* keeps to the usage text of its command is never answered with it.
HelpOrRun ==
    /\ printed <= 1
    /\ at = "over" => (printed = 1) # (outcome # "none")
    /\ printed = 1 => \A b \in Offered : ~Usage(b)

\* Commands that createCommand knows and no builder offers.
Hidden == {"accessKeyPatch", "appTransfer", "link", "sessionList", "sessionRemove"}

\* What is executed is something execute knows, keeps to the rules of its own
\* builder, or is a hidden command one of whose words names an offered one.
\* execute: "We should never see this message as invalid commands should be
\* caught by the argument parser."
OnlyByTheRules ==
    outcome # "none" =>
        /\ outcome = "dispatched"
        /\ IF command \in Hidden
           THEN \E b \in Offered : \E i \in 2..Len(words) : words[i] = b.path[Len(b.path)]
           ELSE \E b \in Offered : Keeps(b)

=============================================================================
