---------------------------- MODULE UpdateReport ----------------------------
(***************************************************************************)
(* The tool that watches games for updates (src/AnLNT/AutoUpdate/          *)
(* AutoUpdateDLL: LoopRunner.cpp, ExportFunctions.cpp, InputReader.cpp,    *)
(* AutoUpdateTool.cpp, GameSourceCompare.cpp, FolderCompare.cpp,           *)
(* FolderProcesser.cpp, and Mail/Mail: Mail.cpp, MailProjectUtility.cpp).  *)
(*                                                                         *)
(* Every four hours a round runs the launcher of each game, which may      *)
(* change the game's files, and compares them with a reference copy.  The  *)
(* comparison writes the first difference into a report file and deletes   *)
(* the file when there is none.  At the end of a round another program     *)
(* sends a mail that says of every game whether its report file is there:  *)
(* the file is all that goes from the one to the other, and all that a     *)
(* round leaves to the next one besides the handles it has not closed.     *)
(***************************************************************************)
EXTENDS Naturals

CONSTANTS
  Games,
  Files,
  Contents,   \* what can be in a file
  NoFile,     \* the content of a file that is not there
  Checked,    \* Checked[g]: the files of a game that are not exempt from comparing
  NoGame      \* the game when none is being compared

ASSUME ReportAssumption ==
  /\ NoFile \notin Contents
  /\ NoGame \notin Games
  /\ Checked \in [Games -> SUBSET Files]

VARIABLES
  source,   \* the files of each game
  cc,       \* the reference copies
  report,   \* the report files: whether one is there, and which files it names
  held,     \* games whose report this process has open and will never close
  stage,    \* where the round is
  todo,     \* games the round has still to come to
  cmp,      \* the comparison at work
  outcome,  \* of each game: how its comparison in this round has ended
  mail,     \* of each game: what the mail of this round says, 1 is an update
  disturbed, \* history: games with a file that was changed, not readable or
             \* not listed since their comparison began
  calm      \* history: from now on nothing fails and no file changes

files == <<source, cc>>
tool == <<stage, todo, cmp>>
history == <<disturbed, calm>>
vars == <<files, report, held, tool, outcome, mail, history>>

NoReport == [exists |-> FALSE, names |-> {}]
NoCompare == [game |-> NoGame, left |-> {}, hasUpdate |-> FALSE, temp |-> {}]
Silent == [g \in Games |-> 0]
Unknown == [g \in Games |-> "none"]

Folders == [Games -> [Files -> Contents \cup {NoFile}]]

(* A file of the game that the reference copy does not have, or has otherwise *)
Differs(g, f) == source[g][f] # NoFile /\ source[g][f] # cc[g][f]
HasUpdate(g) == \E f \in Checked[g] : Differs(g, f)

Init ==
  /\ source \in Folders /\ cc = source
  /\ report = [g \in Games |-> NoReport]
  /\ held = {}
  /\ stage = "sleep" /\ todo = {} /\ cmp = NoCompare
  /\ outcome = Unknown
  /\ mail = Silent
  /\ disturbed = {}
  /\ calm = FALSE

-----------------------------------------------------------------------------
(* The files, which launchers, players and the operator change at any time   *)

Change(g, f) ==
  /\ ~calm
  /\ \E c \in Contents \cup {NoFile} :
       \/ source' = [source EXCEPT ![g][f] = c] /\ UNCHANGED cc
       \/ cc' = [cc EXCEPT ![g][f] = c] /\ UNCHANGED source
  /\ disturbed' = disturbed \cup {g}
  /\ UNCHANGED <<report, held, tool, outcome, mail, calm>>

-----------------------------------------------------------------------------
(* A round: AutoDetectGameUpdate *)

StartRound ==
  /\ stage = "sleep"
  /\ stage' = "launch"
  /\ todo' = Games
  /\ outcome' = Unknown
  /\ UNCHANGED <<files, report, held, cmp, mail, history>>

(* CAutoUpdateTool::Update runs the launcher, and compares whether or not    *)
(* that has worked.                                                          *)
RunAutoLauncher(g) ==
  /\ stage = "launch" /\ g \in todo
  /\ todo' = todo \ {g}
  /\ stage' = "compare"
  /\ cmp' = [NoCompare EXCEPT !.game = g]
  /\ disturbed' = disturbed \ {g}
  /\ UNCHANGED <<files, report, held, outcome, mail, calm>>

(* Plausible bug: the loop over the games stops at the first failure *)
Ended_StopsRound(result) ==
  /\ outcome' = [outcome EXCEPT ![cmp.game] = result]
  /\ cmp' = NoCompare
  /\ stage' = IF result = "ok" THEN "launch" ELSE "wait"

(* Plausible bug: the object of a comparison is kept for the next game *)
Ended_Keeps(result) ==
  /\ outcome' = [outcome EXCEPT ![cmp.game] = result]
  /\ cmp' = cmp
  /\ stage' = "launch"

(* The comparison of this game is over; the result goes to the log only. *)
Ended(result) ==
  /\ outcome' = [outcome EXCEPT ![cmp.game] = result]
  /\ cmp' = NoCompare
  /\ stage' = "launch"

(* The handles are left behind with the object that held them.  They stay    *)
(* open for as long as the process runs, which loads and frees the library   *)
(* round by round.                                                           *)
Abandon ==
  /\ held' = held \cup {cmp.game}
  /\ Ended("broken")

-----------------------------------------------------------------------------
(* CGameSourceCompare::Compare *)

(* A folder is not there, or the report file cannot be opened, always when   *)
(* an earlier comparison still has it open: the share mode is 0.             *)
Refused ==
  /\ stage = "compare"
  /\ ~calm \/ cmp.game \in held
  /\ Ended("refused")
  /\ UNCHANGED <<files, report, held, todo, mail, history>>

CreateResultFile ==
  /\ stage = "compare"
  /\ cmp.game \notin held
  /\ report' = [report EXCEPT ![cmp.game] = [exists |-> TRUE, names |-> {}]]
  /\ stage' = "walk"
  /\ cmp' = [cmp EXCEPT !.left = Files]
  /\ UNCHANGED <<files, held, todo, outcome, mail, history>>

(* The headline or the temporary file for the second part cannot be written. *)
CreateResultFileFails ==
  /\ ~calm
  /\ stage = "compare"
  /\ cmp.game \notin held
  /\ report' = [report EXCEPT ![cmp.game] = [exists |-> TRUE, names |-> {}]]
  /\ Abandon
  /\ UNCHANGED <<files, todo, mail, history>>

(* Nothing is compared behind the first difference, nor what is exempt. *)
PassOver(f) ==
  /\ stage = "walk" /\ f \in cmp.left
  /\ source[cmp.game][f] = NoFile \/ cmp.hasUpdate \/ f \notin Checked[cmp.game]
  /\ cmp' = [cmp EXCEPT !.left = @ \ {f}]
  /\ UNCHANGED <<files, report, held, stage, todo, outcome, mail, history>>

Compares(f) ==
  /\ stage = "walk" /\ f \in cmp.left
  /\ source[cmp.game][f] # NoFile /\ ~cmp.hasUpdate /\ f \in Checked[cmp.game]

(* Plausible bug: a file that the reference copy does not have is no update *)
NewFile_Skipped(f) ==
  /\ Compares(f)
  /\ cc[cmp.game][f] = NoFile
  /\ cmp' = [cmp EXCEPT !.left = @ \ {f}]
  /\ UNCHANGED <<files, report, held, stage, todo, outcome, mail, history>>

(* A new file goes into the report. *)
NewFile(f) ==
  /\ Compares(f)
  /\ cc[cmp.game][f] = NoFile
  /\ report' = [report EXCEPT ![cmp.game].names = @ \cup {f}]
  /\ cmp' = [cmp EXCEPT !.left = @ \ {f}, !.hasUpdate = TRUE]
  /\ UNCHANGED <<files, held, stage, todo, outcome, mail, history>>

(* A modified file goes into the temporary file. *)
ModifiedFile(f) ==
  /\ Compares(f)
  /\ cc[cmp.game][f] # NoFile /\ Differs(cmp.game, f)
  /\ cmp' = [cmp EXCEPT !.left = @ \ {f}, !.hasUpdate = TRUE, !.temp = @ \cup {f}]
  /\ UNCHANGED <<files, report, held, stage, todo, outcome, mail, history>>

(* Of a file that cannot be opened MDFile returns the name, and the names of *)
(* the two copies differ.                                                    *)
Unreadable(f) ==
  /\ ~calm
  /\ Compares(f)
  /\ cc[cmp.game][f] # NoFile
  /\ cmp' = [cmp EXCEPT !.left = @ \ {f}, !.hasUpdate = TRUE, !.temp = @ \cup {f}]
  /\ disturbed' = disturbed \cup {cmp.game}
  /\ UNCHANGED <<files, report, held, stage, todo, outcome, mail, calm>>

SameFile(f) ==
  /\ Compares(f)
  /\ source[cmp.game][f] = cc[cmp.game][f]
  /\ cmp' = [cmp EXCEPT !.left = @ \ {f}]
  /\ UNCHANGED <<files, report, held, stage, todo, outcome, mail, history>>

(* The end of a folder and an error in listing it are told apart nowhere:    *)
(* what has not been listed is passed over.                                  *)
ListingStops ==
  /\ ~calm
  /\ stage = "walk"
  /\ \E rest \in SUBSET cmp.left : cmp' = [cmp EXCEPT !.left = rest]
  /\ disturbed' = disturbed \cup {cmp.game}
  /\ UNCHANGED <<files, report, held, stage, todo, outcome, mail, calm>>

(* Plausible bug: a report that could not be finished is deleted *)
WalkFails_Deletes ==
  /\ ~calm
  /\ stage = "walk"
  /\ report' = [report EXCEPT ![cmp.game] = NoReport]
  /\ Abandon
  /\ UNCHANGED <<files, todo, mail, history>>

(* A folder cannot be listed or a line not be written: Compare returns       *)
(* before Commit.                                                            *)
WalkFails ==
  /\ ~calm
  /\ stage = "walk"
  /\ Abandon
  /\ UNCHANGED <<files, report, todo, mail, history>>

(* Plausible bug: the modified files stay in the temporary file *)
CreateFinalResult_NotCopied ==
  /\ stage = "walk" /\ cmp.left = {}
  /\ stage' = "commit"
  /\ UNCHANGED <<files, report, held, todo, cmp, outcome, mail, history>>

(* The temporary file is copied behind the report, and both are closed. *)
CreateFinalResult ==
  /\ stage = "walk" /\ cmp.left = {}
  /\ report' = [report EXCEPT ![cmp.game].names = @ \cup cmp.temp]
  /\ stage' = "commit"
  /\ UNCHANGED <<files, held, todo, cmp, outcome, mail, history>>

KeepReport ==
  /\ stage = "commit" /\ cmp.hasUpdate
  /\ Ended("ok")
  /\ UNCHANGED <<files, report, held, todo, mail, history>>

DeleteResultFile ==
  /\ stage = "commit" /\ ~cmp.hasUpdate
  /\ report' = [report EXCEPT ![cmp.game] = NoReport]
  /\ Ended("ok")
  /\ UNCHANGED <<files, held, todo, mail, history>>

(* Somebody reads the report file of an earlier round. *)
DeleteResultFileFails ==
  /\ ~calm
  /\ stage = "commit" /\ ~cmp.hasUpdate
  /\ Ended("broken")
  /\ UNCHANGED <<files, report, held, todo, mail, history>>

-----------------------------------------------------------------------------
(* The end of a round: a launcher of its own for one game, and then the mail *)

RunLOL ==
  /\ stage = "launch" /\ todo = {}
  /\ stage' = "wait"
  /\ UNCHANGED <<files, report, held, todo, cmp, outcome, mail, history>>

(* CheckGameHasUpdate looks for the report file by name. *)
SendMail ==
  /\ stage = "wait"
  /\ mail' = [g \in Games |-> IF report[g].exists THEN 1 ELSE 0]
  /\ stage' = "mailed"
  /\ UNCHANGED <<files, report, held, todo, cmp, outcome, history>>

(* A mail that was sent is gone; a round may end without one. *)
Sleep ==
  /\ stage = "mailed" \/ (stage = "wait" /\ ~calm)
  /\ stage' = "sleep"
  /\ mail' = Silent
  /\ UNCHANGED <<files, report, held, todo, cmp, outcome, history>>

(* The process ends at any point and is started again; one point is the end  *)
(* of a round, where delete[] frees what new has made.                       *)
Restart ==
  /\ ~calm
  /\ held' = {}
  /\ stage' = "sleep" /\ todo' = {} /\ cmp' = NoCompare
  /\ outcome' = Unknown /\ mail' = Silent
  /\ UNCHANGED <<files, report, history>>

Calm ==
  /\ ~calm
  /\ calm' = TRUE
  /\ UNCHANGED <<files, report, held, tool, outcome, mail, disturbed>>

-----------------------------------------------------------------------------
Compare ==
  \/ Refused \/ CreateResultFile \/ CreateResultFileFails
  \/ \E f \in Files :
       PassOver(f) \/ NewFile(f) \/ ModifiedFile(f) \/ Unreadable(f) \/ SameFile(f)
  \/ ListingStops \/ WalkFails \/ CreateFinalResult
  \/ KeepReport \/ DeleteResultFile \/ DeleteResultFileFails

Round ==
  \/ StartRound \/ (\E g \in Games : RunAutoLauncher(g)) \/ Compare
  \/ RunLOL \/ SendMail \/ Sleep

Next ==
  \/ Round
  \/ \E g \in Games, f \in Files : Change(g, f)
  \/ Restart \/ Calm

Spec == Init /\ [][Next]_vars

(* The tool is one thread; the programs it waits for end. *)
FairSpec == Spec /\ WF_vars(Round)

-----------------------------------------------------------------------------
(* Properties *)

Comparisons == [game : Games \cup {NoGame}, left : SUBSET Files, hasUpdate : BOOLEAN,
                temp : SUBSET Files]

(* Every variable has its type. *)
TypeOK ==
  /\ source \in Folders /\ cc \in Folders
  /\ report \in [Games -> [exists : BOOLEAN, names : SUBSET Files]]
  /\ held \subseteq Games
  /\ stage \in {"sleep", "launch", "compare", "walk", "commit", "wait", "mailed"}
  /\ todo \subseteq Games
  /\ cmp \in Comparisons
  /\ cmp.game # NoGame <=> stage \in {"compare", "walk", "commit"}
  /\ outcome \in [Games -> {"none", "refused", "broken", "ok"}]
  /\ mail \in [Games -> {0, 1}]
  /\ disturbed \subseteq Games
  /\ calm \in BOOLEAN

(* Of a game whose comparison has succeeded the mail says the truth: there   *)
(* is an update if and only if a file that counts is new or modified,        *)
(* whatever earlier rounds have left in the report folder.                   *)
MailTells ==
  stage = "mailed" =>
    \A g \in Games :
      outcome[g] = "ok" /\ g \notin disturbed => (mail[g] = 1 <=> HasUpdate(g))

(* No news is good news: when a comparison breaks off half-way, in this      *)
(* round or in an earlier one whose handle is still open, the mail says that *)
(* there is an update.                                                       *)
BreakIsNews ==
  stage = "mailed" =>
    \A g \in Games : outcome[g] = "broken" \/ g \in held => mail[g] = 1

(* A report that a successful comparison has left names the file it is       *)
(* there for, new or modified.                                               *)
ReportNames ==
  \A g \in Games :
    outcome[g] = "ok" /\ report[g].exists => report[g].names \cap Checked[g] # {}

(* When nothing fails any more every game is compared again sooner or later, *)
(* whatever has become of the others - unless its report file is still open. *)
Compared ==
  \A g \in Games : [](calm => <>(outcome[g] = "ok" \/ g \in held))

=============================================================================
