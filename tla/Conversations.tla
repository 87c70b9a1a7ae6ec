---------------------------- MODULE Conversations ----------------------------
(***************************************************************************)
(* Who may run and what the transcript on screen belongs to: the flag      *)
(* agentRunning, the function cancelAgent, the conversation epoch, the     *)
(* shared history, its name and the saved conversations (internal/app:     *)
(* app.go, run_checkpoint.go, run_event_ownership.go).                     *)
(*                                                                         *)
(* Every call from the desktop or a channel is served by a goroutine of    *)
(* its own, a caller; every run by another.  A step is what happens under  *)
(* one hold of App.mu, or between two.  A transcript is the number of the  *)
(* conversation it belongs to: a cleared history starts a conversation,    *)
(* numbered by the epoch it advances to.  What a run appends is left out;  *)
(* so are evals and repository reviews, which share the flag, renaming,    *)
(* and the hidden autosave file of nameless conversations.                 *)
(*                                                                         *)
(* A member of Runs is a place for a run's goroutine, free again when it   *)
(* has returned; what a goroutine no longer reads is reset.                *)
(***************************************************************************)
EXTENDS Integers, FiniteSets

CONSTANTS
    Callers,        \* goroutines serving calls
    Names,          \* names of saved conversations
    Operations,     \* the calls that are made
    Runs,           \* bound: the goroutines runs may have at once
    NoRun,
    MaxEpoch        \* bound: the conversation epoch

AllOperations ==
    {"send", "resume", "clear", "load", "workspace", "scratch", "start", "save",
     "delete", "checkpoint", "stop"}
NoName == "none"

ASSUME OperationsAssumption == Operations \subseteq AllOperations
ASSUME NamesAssumption == NoName \notin Names
ASSUME RunsAssumption == NoRun \notin Runs
ASSUME BoundAssumption == MaxEpoch \in Nat \ {0}

VARIABLES
    agentRunning, cancelAgent,      \* App.agentRunning; the run cancelAgent cancels
    epoch,                          \* App.conversationEpoch
    history, activeName,            \* the conversation shown and its name
    library, checkpoints,           \* saved conversations and named checkpoints
    at,                             \* where each run's goroutine stands
    runEpoch, runConv,              \* the epoch and conversation it was started on
    saveName, saveConv,             \* what its autosave has read
    doing,                          \* what each caller is in the middle of
    argEpoch, argConv, argName      \* what that call has read or was given

appVars == <<agentRunning, cancelAgent>>
screenVars == <<epoch, history, activeName>>
diskVars == <<library, checkpoints>>
runVars == <<at, runEpoch, runConv, saveName, saveConv>>
callVars == <<doing, argEpoch, argConv, argName>>
vars == <<appVars, screenVars, diskVars, runVars, callVars>>

NoFile == -1
Earlier == 0                    \* a conversation saved before the app started
Conversations == Nat

Init ==
    /\ agentRunning = FALSE /\ cancelAgent = NoRun
    /\ epoch = 1 /\ history = 1 /\ activeName = NoName
    /\ library \in [Names -> {NoFile, Earlier}]
    /\ checkpoints = {}
    /\ at = [r \in Runs |-> "none"]
    /\ runEpoch = [r \in Runs |-> 1] /\ runConv = [r \in Runs |-> 1]
    /\ saveName = [r \in Runs |-> NoName] /\ saveConv = [r \in Runs |-> 1]
    /\ doing = [c \in Callers |-> "idle"]
    /\ argEpoch = [c \in Callers |-> 1] /\ argConv = [c \in Callers |-> 1]
    /\ argName = [c \in Callers |-> NoName]

-----------------------------------------------------------------------------
\* The bounds: no call is begun that could need a run or an epoch too many.
Starting == {c \in Callers : doing[c] \in {"sending", "resuming", "resumed"}}
Advancing == {c \in Callers : doing[c] \in {"resuming", "resumed", "loading", "moving"}}
RunLeft == Cardinality(Starting) < Cardinality({r \in Runs : at[r] = "none"})
EpochLeft == epoch + Cardinality(Advancing) < MaxEpoch

Call(c, operation) == operation \in Operations /\ doing[c] = "idle"
Goes(c, from, to) == doing[c] = from /\ doing' = [doing EXCEPT ![c] = to]
KeepArgs == UNCHANGED <<argEpoch, argConv, argName>>
Returns(c, from) ==
    /\ Goes(c, from, "idle")
    /\ argEpoch' = [argEpoch EXCEPT ![c] = 1]
    /\ argConv' = [argConv EXCEPT ![c] = 1]
    /\ argName' = [argName EXCEPT ![c] = NoName]

\* advanceConversationEpochLocked, with the transcript that replaces the one
\* shown.
Show(conv) ==
    /\ epoch' = epoch + 1
    /\ history' = conv
Fresh == epoch + 1

\* go a.runAgentLoop, its context behind cancelAgent.
Launch(e, conv) ==
    \E r \in Runs :
        /\ at[r] = "none"
        /\ cancelAgent' = r
        /\ at' = [at EXCEPT ![r] = "loop"]
        /\ runEpoch' = [runEpoch EXCEPT ![r] = e]
        /\ runConv' = [runConv EXCEPT ![r] = conv]
        /\ UNCHANGED <<saveName, saveConv>>

-----------------------------------------------------------------------------
\* SendMessage: the flag is claimed under the lock that looked at it.
\* (Mutant: the flag is not looked at.)
SendClaimsUnchecked(c) ==
    /\ Call(c, "send")
    /\ RunLeft
    /\ agentRunning' = TRUE
    /\ Goes(c, "idle", "sending")
    /\ argEpoch' = [argEpoch EXCEPT ![c] = epoch]
    /\ argConv' = [argConv EXCEPT ![c] = history]
    /\ UNCHANGED <<cancelAgent, screenVars, diskVars, runVars, argName>>
SendClaims(c) ==
    /\ Call(c, "send")
    /\ RunLeft
    /\ ~agentRunning
    /\ agentRunning' = TRUE
    /\ Goes(c, "idle", "sending")
    /\ argEpoch' = [argEpoch EXCEPT ![c] = epoch]
    /\ argConv' = [argConv EXCEPT ![c] = history]
    /\ UNCHANGED <<cancelAgent, screenVars, diskVars, runVars, argName>>

\* The profile asked for does not exist.  (Mutant: the claim is kept.)
SendRejectsKeeping(c) ==
    /\ Returns(c, "sending")
    /\ UNCHANGED <<appVars, screenVars, diskVars, runVars>>
SendRejects(c) ==
    /\ Returns(c, "sending")
    /\ agentRunning' = FALSE
    /\ UNCHANGED <<cancelAgent, screenVars, diskVars, runVars>>

SendLaunches(c) ==
    /\ Returns(c, "sending")
    /\ Launch(argEpoch[c], argConv[c])
    /\ UNCHANGED <<agentRunning, screenVars, diskVars>>

-----------------------------------------------------------------------------
\* ResumeRun: the flag is looked at, the checkpoint loaded, and the flag
\* claimed whatever it has become; a third hold of the lock puts the saved
\* transcript in the place of the one shown, whose name stays.
ResumeChecks(c) ==
    /\ Call(c, "resume")
    /\ RunLeft /\ EpochLeft
    /\ ~agentRunning
    /\ \E conv \in checkpoints : argConv' = [argConv EXCEPT ![c] = conv]
    /\ Goes(c, "idle", "resuming")
    /\ UNCHANGED <<appVars, screenVars, diskVars, runVars, argEpoch, argName>>
ResumeClaims(c) ==
    /\ Goes(c, "resuming", "resumed")
    /\ agentRunning' = TRUE
    /\ KeepArgs
    /\ UNCHANGED <<cancelAgent, screenVars, diskVars, runVars>>

\* (Mutant: the epoch of the conversation replaced is not retired.)
ResumeLaunchesInEpoch(c) ==
    /\ Returns(c, "resumed")
    /\ history' = argConv[c]
    /\ Launch(epoch, argConv[c])
    /\ UNCHANGED <<agentRunning, epoch, activeName, diskVars>>
ResumeLaunches(c) ==
    /\ Returns(c, "resumed")
    /\ Show(argConv[c])
    /\ Launch(epoch', argConv[c])
    /\ UNCHANGED <<agentRunning, activeName, diskVars>>

-----------------------------------------------------------------------------
ClearHistory(c) ==
    /\ Call(c, "clear")
    /\ EpochLeft
    /\ ~agentRunning
    /\ Show(Fresh)
    /\ activeName' = NoName
    /\ UNCHANGED <<appVars, diskVars, runVars, callVars>>

\* LoadSession: the file is read between two looks at the flag.  (Mutant: a
\* file that is not there is read as a transcript.)
LoadReadsMissing(c, name) ==
    /\ Call(c, "load")
    /\ EpochLeft
    /\ ~agentRunning
    /\ Goes(c, "idle", "loading")
    /\ argName' = [argName EXCEPT ![c] = name]
    /\ argConv' = [argConv EXCEPT ![c] = library[name]]
    /\ UNCHANGED <<appVars, screenVars, diskVars, runVars, argEpoch>>
LoadReads(c, name) ==
    /\ Call(c, "load")
    /\ EpochLeft
    /\ ~agentRunning
    /\ library[name] # NoFile
    /\ Goes(c, "idle", "loading")
    /\ argName' = [argName EXCEPT ![c] = name]
    /\ argConv' = [argConv EXCEPT ![c] = library[name]]
    /\ UNCHANGED <<appVars, screenVars, diskVars, runVars, argEpoch>>

\* (Mutant: the flag is not looked at again.)
LoadInstallsUnchecked(c) ==
    /\ Returns(c, "loading")
    /\ Show(argConv[c])
    /\ activeName' = argName[c]
    /\ UNCHANGED <<appVars, diskVars, runVars>>
LoadInstalls(c) ==
    /\ ~agentRunning
    /\ Returns(c, "loading")
    /\ Show(argConv[c])
    /\ activeName' = argName[c]
    /\ UNCHANGED <<appVars, diskVars, runVars>>

\* SetWorkingDir, and UpdateSettings with another workspace: the flag is
\* looked at once, before the directory is changed; the history is cleared
\* after, and the name stays.
WorkspaceChecks(c) ==
    /\ Call(c, "workspace")
    /\ EpochLeft
    /\ ~agentRunning
    /\ \A d \in Callers : doing[d] # "moving"           \* processStateMu
    /\ Goes(c, "idle", "moving")
    /\ KeepArgs
    /\ UNCHANGED <<appVars, screenVars, diskVars, runVars>>
WorkspaceClears(c) ==
    /\ Returns(c, "moving")
    /\ Show(Fresh)
    /\ UNCHANGED <<appVars, activeName, diskVars, runVars>>

\* CreateScratchWorkspace keeps the transcript and retires its epoch.
CreateScratchWorkspace(c) ==
    /\ Call(c, "scratch")
    /\ EpochLeft
    /\ ~agentRunning
    /\ \A d \in Callers : doing[d] # "moving"
    /\ Show(history)
    /\ UNCHANGED <<appVars, activeName, diskVars, runVars, callVars>>

-----------------------------------------------------------------------------
\* StartConversation: a name with no file, taken if the conversation is still
\* nameless and nothing runs.  A named one keeps its name: no step.
StartPicks(c, name) ==
    /\ Call(c, "start")
    /\ ~agentRunning
    /\ activeName = NoName
    /\ library[name] = NoFile
    /\ \A d \in Callers : doing[d] # "naming"           \* sessionLibraryMu
    /\ Goes(c, "idle", "naming")
    /\ argName' = [argName EXCEPT ![c] = name]
    /\ UNCHANGED <<appVars, screenVars, diskVars, runVars, argEpoch, argConv>>
StartNames(c) ==
    /\ Returns(c, "naming")
    /\ activeName' =
         IF ~agentRunning /\ activeName = NoName THEN argName[c] ELSE activeName
    /\ UNCHANGED <<appVars, epoch, history, diskVars, runVars>>

\* SaveSession: copy the transcript, write the file, take the name.
SaveCopies(c, name) ==
    /\ Call(c, "save")
    /\ Goes(c, "idle", "saving")
    /\ argName' = [argName EXCEPT ![c] = name]
    /\ argConv' = [argConv EXCEPT ![c] = history]
    /\ UNCHANGED <<appVars, screenVars, diskVars, runVars, argEpoch>>
SaveWrites(c) ==
    /\ Goes(c, "saving", "saved")
    /\ library' = [library EXCEPT ![argName[c]] = argConv[c]]
    /\ KeepArgs
    /\ UNCHANGED <<appVars, screenVars, checkpoints, runVars>>
SaveActivates(c) ==
    /\ Returns(c, "saved")
    /\ activeName' = argName[c]
    /\ UNCHANGED <<appVars, epoch, history, diskVars, runVars>>

\* DeleteSession: remove the file, then forget the name if it is shown.
DeleteRemoves(c, name) ==
    /\ Call(c, "delete")
    /\ Goes(c, "idle", "deleting")
    /\ library' = [library EXCEPT ![name] = NoFile]
    /\ argName' = [argName EXCEPT ![c] = name]
    /\ UNCHANGED <<appVars, screenVars, checkpoints, runVars, argEpoch, argConv>>
DeleteForgets(c) ==
    /\ Returns(c, "deleting")
    /\ activeName' = IF activeName = argName[c] THEN NoName ELSE activeName
    /\ UNCHANGED <<appVars, epoch, history, diskVars, runVars>>

\* SaveConversationCheckpoint: named checkpoints outlive their resumption.
SaveConversationCheckpoint(c) ==
    /\ Call(c, "checkpoint")
    /\ ~agentRunning
    /\ checkpoints' = checkpoints \cup {history}
    /\ UNCHANGED <<appVars, screenVars, library, runVars, callVars>>

\* A call ends early: the checkpoint or directory is not there, the file
\* cannot be read, or the second look finds a run.
CallFails(c) ==
    /\ \E step \in {"resuming", "loading", "moving", "naming"} : Returns(c, step)
    /\ UNCHANGED <<appVars, screenVars, diskVars, runVars>>

\* StopAgent cancels the context behind cancelAgent, if there is one.
StopAgent(c) ==
    /\ Call(c, "stop")
    /\ \E r \in Runs :
        /\ cancelAgent = r
        /\ at[r] = "loop"
        /\ at' = [at EXCEPT ![r] = "stopping"]
    /\ UNCHANGED <<appVars, screenVars, diskVars, runEpoch, runConv, saveName,
                   saveConv, callVars>>

-----------------------------------------------------------------------------
\* A run.  Its loop may end at any time, cancelled or not; the deferred
\* finalizer frees the app whoever holds it, and then saves the transcript
\* shown under the name shown.
Executing == {r \in Runs : at[r] \in {"loop", "stopping"}}
RunStep(r, from, to) == at[r] = from /\ at' = [at EXCEPT ![r] = to]

\* (Mutant: the app is free as soon as the loop ends.)
LoopEndsFreeing(r) ==
    /\ RunStep(r, "loop", "ending") \/ RunStep(r, "stopping", "ending")
    /\ agentRunning' = FALSE
    /\ UNCHANGED <<cancelAgent, screenVars, diskVars, runEpoch, runConv,
                   saveName, saveConv, callVars>>
LoopEnds(r) ==
    /\ RunStep(r, "loop", "ending") \/ RunStep(r, "stopping", "ending")
    /\ UNCHANGED <<appVars, screenVars, diskVars, runEpoch, runConv,
                   saveName, saveConv, callVars>>
FinalizerFrees(r) ==
    /\ RunStep(r, "ending", "freed")
    /\ agentRunning' = FALSE
    /\ cancelAgent' = NoRun
    /\ UNCHANGED <<screenVars, diskVars, runEpoch, runConv, saveName, saveConv,
                   callVars>>
AutoSaveReadsName(r) ==
    /\ RunStep(r, "freed", "named")
    /\ saveName' = [saveName EXCEPT ![r] = activeName]
    /\ UNCHANGED <<appVars, screenVars, diskVars, runEpoch, runConv, saveConv,
                   callVars>>
AutoSaveCopies(r) ==
    /\ RunStep(r, "named", "copied")
    /\ saveConv' = [saveConv EXCEPT ![r] = history]
    /\ UNCHANGED <<appVars, screenVars, diskVars, runEpoch, runConv, saveName,
                   callVars>>
AutoSaveWrites(r) ==
    /\ RunStep(r, "copied", "none")
    /\ library' = [n \in Names |-> IF n = saveName[r] THEN saveConv[r] ELSE library[n]]
    /\ runEpoch' = [runEpoch EXCEPT ![r] = 1]
    /\ runConv' = [runConv EXCEPT ![r] = 1]
    /\ saveName' = [saveName EXCEPT ![r] = NoName]
    /\ saveConv' = [saveConv EXCEPT ![r] = 1]
    /\ UNCHANGED <<appVars, screenVars, checkpoints, callVars>>

-----------------------------------------------------------------------------
\* A call under way is carried on with.
Proceeds(c) ==
    \/ SendRejects(c) \/ SendLaunches(c)
    \/ ResumeClaims(c) \/ ResumeLaunches(c)
    \/ LoadInstalls(c)
    \/ WorkspaceClears(c)
    \/ StartNames(c)
    \/ SaveWrites(c) \/ SaveActivates(c)
    \/ DeleteForgets(c)
    \/ CallFails(c)

Begins(c) ==
    \/ SendClaims(c)
    \/ ResumeChecks(c)
    \/ ClearHistory(c)
    \/ \E name \in Names : LoadReads(c, name)
    \/ WorkspaceChecks(c)
    \/ CreateScratchWorkspace(c)
    \/ \E name \in Names : StartPicks(c, name)
    \/ \E name \in Names : SaveCopies(c, name)
    \/ \E name \in Names : DeleteRemoves(c, name)
    \/ SaveConversationCheckpoint(c)
    \/ StopAgent(c)

RunProceeds(r) ==
    \/ LoopEnds(r)
    \/ FinalizerFrees(r)
    \/ AutoSaveReadsName(r)
    \/ AutoSaveCopies(r)
    \/ AutoSaveWrites(r)

Next ==
    \/ \E c \in Callers : Begins(c) \/ Proceeds(c)
    \/ \E r \in Runs : RunProceeds(r)

\* Goroutines are scheduled, and the loop of a run that was stopped ends
\* (RunControl!StopEndsRun).  A loop that nobody stops may wait for its backend
\* or for the user for ever (RunControl!RunEnds), and nobody has to make a call.
Spec ==
    /\ Init /\ [][Next]_vars
    /\ \A c \in Callers : WF_vars(Proceeds(c))
    /\ \A r \in Runs : WF_vars(at[r] # "loop" /\ RunProceeds(r))

-----------------------------------------------------------------------------
TypeOK ==
    /\ agentRunning \in BOOLEAN
    /\ cancelAgent \in Runs \cup {NoRun}
    /\ epoch \in Nat \ {0}
    /\ history \in Conversations
    /\ activeName \in Names \cup {NoName}
    /\ library \in [Names -> Conversations \cup {NoFile}]
    /\ checkpoints \in SUBSET Conversations
    /\ at \in [Runs -> {"none", "loop", "stopping", "ending", "freed", "named", "copied"}]
    /\ runEpoch \in [Runs -> Nat \ {0}]
    /\ runConv \in [Runs -> Conversations]
    /\ saveName \in [Runs -> Names \cup {NoName}]
    /\ saveConv \in [Runs -> Conversations]
    /\ doing \in [Callers -> {"idle", "sending", "resuming", "resumed", "loading",
                              "moving", "naming", "saving", "saved", "deleting"}]
    /\ argEpoch \in [Callers -> Nat \ {0}]
    /\ argConv \in [Callers -> Conversations]
    /\ argName \in [Callers -> Names \cup {NoName}]

\* An epoch belongs to one transcript: a run whose epoch is the current one
\* was started on the conversation shown, so the events the epoch lets
\* through (emitRun, runOwnsCurrentConversation) belong on the screen.
EpochOwnsTranscript ==
    \A r \in Runs : at[r] # "none" /\ runEpoch[r] = epoch => runConv[r] = history

\* The app does not stay busy for nothing: whoever claims the flag gives it
\* back, also when the run never starts and when it is stopped, unless a loop
\* is there that nobody has stopped.
BusyEnds == agentRunning ~> (~agentRunning \/ \E r \in Runs : at[r] = "loop")

\* At most one loop runs: "agent is already running" (sendMessage, ResumeRun).
OneLoop == \A r, q \in Executing : r = q

\* The history is not replaced under an executing run.
HistoryKeptUnderRun == \A r \in Executing : runConv[r] = history

\* StopAgent reaches the run that is executing.
StopReachesRun == \A r \in Executing : cancelAgent = r

\* The flag is set exactly while a run is being started or is not over: no
\* run is hidden from the calls that look at it, and none is refused for
\* nothing.
FlagIsTruthful ==
    agentRunning <=>
        \/ \E c \in Callers : doing[c] \in {"sending", "resumed"}
        \/ \E r \in Runs : at[r] \in {"loop", "stopping", "ending"}

\* The save at the end of a run writes over no other conversation: "Existing
\* names are never overwritten" (StartConversation).
NamesNeverOverwritten ==
    [][\A r \in Runs, n \in Names :
         AutoSaveWrites(r) /\ library[n] # NoFile => library'[n] = library[n]]_vars
=============================================================================
