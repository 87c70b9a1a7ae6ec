------------------------- MODULE ConversationsProofs -------------------------
(***************************************************************************)
(* Theorems about Conversations, for any number of callers, runs, names    *)
(* and epochs.                                                             *)
(***************************************************************************)
EXTENDS Conversations, TLAPS

LEMMA InitTypeOK == Init => TypeOK
  <1> SUFFICES ASSUME Init
               PROVE  TypeOK
    OBVIOUS
  <1>1. /\ agentRunning \in BOOLEAN
        /\ cancelAgent \in Runs \cup {NoRun}
        /\ activeName \in Names \cup {NoName}
        /\ checkpoints \in SUBSET Conversations
    BY Zenon DEF Init
  <1>5. epoch \in Nat \ {0} /\ history \in Conversations
    BY DEF Init, Conversations
  <1>2. library \in [Names -> Conversations \cup {NoFile}]
    BY DEF Init, Conversations, Earlier
  <1>3. /\ at \in [Runs -> {"none", "loop", "stopping", "ending", "freed",
                            "named", "copied"}]
        /\ runEpoch \in [Runs -> Nat \ {0}] /\ runConv \in [Runs -> Conversations]
        /\ saveName \in [Runs -> Names \cup {NoName}]
        /\ saveConv \in [Runs -> Conversations]
    BY DEF Init, Conversations
  <1>4. /\ doing \in [Callers -> {"idle", "sending", "resuming", "resumed",
                                  "loading", "moving", "naming", "saving",
                                  "saved", "deleting"}]
        /\ argEpoch \in [Callers -> Nat \ {0}]
        /\ argConv \in [Callers -> Conversations]
        /\ argName \in [Callers -> Names \cup {NoName}]
    BY DEF Init, Conversations
  <1> QED
    BY <1>1, <1>2, <1>3, <1>4, <1>5 DEF TypeOK

LEMMA LaunchTypes ==
    ASSUME TypeOK, NEW e \in Nat \ {0}, NEW conv \in Nat, Launch(e, conv)
    PROVE  /\ cancelAgent' \in Runs \cup {NoRun}
           /\ at' \in [Runs -> {"none", "loop", "stopping", "ending", "freed",
                                "named", "copied"}]
           /\ runEpoch' \in [Runs -> Nat \ {0}]
           /\ runConv' \in [Runs -> Conversations]
           /\ saveName' \in [Runs -> Names \cup {NoName}]
           /\ saveConv' \in [Runs -> Conversations]
  BY DEF TypeOK, Launch, Conversations

LEMMA ReturnsTypes ==
    ASSUME TypeOK, NEW c \in Callers, NEW from, Returns(c, from)
    PROVE  /\ doing' \in [Callers -> {"idle", "sending", "resuming", "resumed",
                                      "loading", "moving", "naming", "saving",
                                      "saved", "deleting"}]
           /\ argEpoch' \in [Callers -> Nat \ {0}]
           /\ argConv' \in [Callers -> Conversations]
           /\ argName' \in [Callers -> Names \cup {NoName}]
  BY DEF TypeOK, Returns, Goes, Conversations

LEMMA BeginsTypes ==
    ASSUME TypeOK, NEW c \in Callers, Begins(c)
    PROVE  TypeOK'
  <1> USE DEF Conversations
  <1>1. CASE SendClaims(c)
    BY <1>1 DEF TypeOK, SendClaims, Call, Goes, screenVars, diskVars, runVars
  <1>2. CASE ResumeChecks(c)
    BY <1>2 DEF TypeOK, ResumeChecks, Call, Goes, appVars, screenVars, diskVars, runVars
  <1>3. CASE ClearHistory(c)
    BY <1>3 DEF TypeOK, ClearHistory, Show, Fresh, appVars, diskVars, runVars, callVars
  <1>4. ASSUME NEW name \in Names, LoadReads(c, name)
        PROVE  TypeOK'
    BY <1>4 DEF TypeOK, LoadReads, NoFile, Goes, appVars, screenVars, diskVars, runVars
  <1>5. CASE WorkspaceChecks(c)
    BY <1>5 DEF TypeOK, WorkspaceChecks, Goes, KeepArgs, appVars, screenVars,
                diskVars, runVars
  <1>6. CASE CreateScratchWorkspace(c)
    BY <1>6 DEF TypeOK, CreateScratchWorkspace, Show, appVars, diskVars, runVars,
                callVars
  <1>7. ASSUME NEW name \in Names, StartPicks(c, name)
        PROVE  TypeOK'
    BY <1>7 DEF TypeOK, StartPicks, Goes, appVars, screenVars, diskVars, runVars
  <1>8. ASSUME NEW name \in Names, SaveCopies(c, name)
        PROVE  TypeOK'
    BY <1>8 DEF TypeOK, SaveCopies, Goes, appVars, screenVars, diskVars, runVars
  <1>9. ASSUME NEW name \in Names, DeleteRemoves(c, name)
        PROVE  TypeOK'
    BY <1>9 DEF TypeOK, DeleteRemoves, Goes, appVars, screenVars, runVars
  <1>10. CASE SaveConversationCheckpoint(c)
    BY <1>10 DEF TypeOK, SaveConversationCheckpoint, appVars, screenVars, runVars,
                 callVars
  <1>11. CASE StopAgent(c)
    BY <1>11 DEF TypeOK, StopAgent, appVars, screenVars, diskVars, callVars
  <1> QED
    BY <1>1, <1>2, <1>3, <1>4, <1>5, <1>6, <1>7, <1>8, <1>9, <1>10, <1>11 DEF Begins

LEMMA ProceedsTypes ==
    ASSUME TypeOK, NEW c \in Callers, Proceeds(c)
    PROVE  TypeOK'
  <1> USE DEF Conversations
  <1>1. CASE SendRejects(c)
    BY <1>1, ReturnsTypes DEF TypeOK, SendRejects, screenVars, diskVars, runVars
  <1>2. CASE SendLaunches(c)
    <2>1. argEpoch[c] \in Nat \ {0} /\ argConv[c] \in Nat
      BY DEF TypeOK
    <2> QED
      BY <1>2, <2>1, LaunchTypes, ReturnsTypes
         DEF TypeOK, SendLaunches, screenVars, diskVars
  <1>3. CASE ResumeClaims(c)
    BY <1>3 DEF TypeOK, ResumeClaims, Goes, KeepArgs, screenVars, diskVars, runVars
  <1>4. CASE ResumeLaunches(c)
    <2>1. epoch' \in Nat \ {0} /\ argConv[c] \in Nat /\ history' \in Nat
      BY <1>4 DEF TypeOK, ResumeLaunches, Show
    <2> QED
      BY <1>4, <2>1, LaunchTypes, ReturnsTypes DEF TypeOK, ResumeLaunches, diskVars
  <1>5. CASE LoadInstalls(c)
    <2>1. epoch' \in Nat \ {0} /\ history' \in Nat
          /\ activeName' \in Names \cup {NoName}
      BY <1>5 DEF TypeOK, LoadInstalls, Show
    <2> QED
      BY <1>5, <2>1, ReturnsTypes DEF TypeOK, LoadInstalls, appVars, diskVars, runVars
  <1>6. CASE WorkspaceClears(c)
    <2>1. epoch' \in Nat \ {0} /\ history' \in Nat
      BY <1>6 DEF TypeOK, WorkspaceClears, Show, Fresh
    <2> QED
      BY <1>6, <2>1, ReturnsTypes DEF TypeOK, WorkspaceClears, appVars, diskVars, runVars
  <1>7. CASE StartNames(c)
    BY <1>7, ReturnsTypes DEF TypeOK, StartNames, appVars, diskVars, runVars
  <1>8. CASE SaveWrites(c)
    BY <1>8 DEF TypeOK, SaveWrites, Goes, KeepArgs, appVars, screenVars, runVars
  <1>9. CASE SaveActivates(c)
    BY <1>9, ReturnsTypes DEF TypeOK, SaveActivates, appVars, diskVars, runVars
  <1>10. CASE DeleteForgets(c)
    BY <1>10, ReturnsTypes DEF TypeOK, DeleteForgets, appVars, diskVars, runVars
  <1>11. CASE CallFails(c)
    BY <1>11, ReturnsTypes DEF TypeOK, CallFails, appVars, screenVars, diskVars, runVars
  <1> QED
    BY <1>1, <1>2, <1>3, <1>4, <1>5, <1>6, <1>7, <1>8, <1>9, <1>10, <1>11 DEF Proceeds

LEMMA RunTypes ==
    ASSUME TypeOK, NEW r \in Runs, RunProceeds(r)
    PROVE  TypeOK'
  <1> USE DEF Conversations
  <1>1. CASE LoopEnds(r)
    BY <1>1 DEF TypeOK, LoopEnds, RunStep, appVars, screenVars, diskVars, callVars
  <1>2. CASE FinalizerFrees(r)
    BY <1>2 DEF TypeOK, FinalizerFrees, RunStep, screenVars, diskVars, callVars
  <1>3. CASE AutoSaveReadsName(r)
    BY <1>3 DEF TypeOK, AutoSaveReadsName, RunStep, appVars, screenVars, diskVars,
                callVars
  <1>4. CASE AutoSaveCopies(r)
    BY <1>4 DEF TypeOK, AutoSaveCopies, RunStep, appVars, screenVars, diskVars, callVars
  <1>5. CASE AutoSaveWrites(r)
    BY <1>5 DEF TypeOK, AutoSaveWrites, RunStep, appVars, screenVars, callVars
  <1> QED
    BY <1>1, <1>2, <1>3, <1>4, <1>5 DEF RunProceeds

LEMMA NextTypes ==
    ASSUME TypeOK, [Next]_vars
    PROVE  TypeOK'
  <1>1. CASE Next
    BY <1>1, BeginsTypes, ProceedsTypes, RunTypes DEF Next
  <1>2. CASE UNCHANGED vars
    BY <1>2 DEF TypeOK, vars, appVars, screenVars, diskVars, runVars, callVars
  <1> QED
    BY <1>1, <1>2

\* Every variable keeps its type, whatever calls are made.
THEOREM TypeCorrect == Spec => []TypeOK
  <1>1. TypeOK /\ [Next]_vars => TypeOK'
    BY NextTypes
  <1> QED
    BY <1>1, InitTypeOK, PTL DEF Spec

-----------------------------------------------------------------------------
\* An epoch number a run or a sender holds was the current one once; while it
\* still is, the conversation held with it is the one shown.
Holds(e, conv) == e <= epoch /\ (e = epoch => conv = history)
EpochsHold ==
    /\ \A r \in Runs : at[r] # "none" => Holds(runEpoch[r], runConv[r])
    /\ \A c \in Callers : doing[c] = "sending" => Holds(argEpoch[c], argConv[c])

\* A new epoch owns nothing older; the same epoch, the same transcript.
LEMMA HoldsKept ==
    ASSUME TypeOK, NEW e \in Nat, NEW conv, Holds(e, conv),
           epoch' = epoch + 1 \/ UNCHANGED <<epoch, history>>
    PROVE  Holds(e, conv)'
  BY DEF Holds, TypeOK

LEMMA EpochsInit == Init => EpochsHold
  BY DEF Init, EpochsHold

\* A step that starts no run and no sender keeps what is held.
LEMMA EpochsKept ==
    ASSUME TypeOK, EpochsHold,
           epoch' = epoch + 1 \/ UNCHANGED <<epoch, history>>,
           \A r \in Runs : at'[r] # "none" =>
              at[r] # "none" /\ runEpoch'[r] = runEpoch[r] /\ runConv'[r] = runConv[r],
           \A c \in Callers : doing'[c] = "sending" =>
              doing[c] = "sending" /\ argEpoch'[c] = argEpoch[c] /\ argConv'[c] = argConv[c]
    PROVE  EpochsHold'
  <1>1. ASSUME NEW r \in Runs, at'[r] # "none"
        PROVE  Holds(runEpoch[r], runConv[r])'
    <2>1. Holds(runEpoch[r], runConv[r]) /\ runEpoch[r] \in Nat
      BY <1>1 DEF EpochsHold, TypeOK
    <2> QED
      BY <1>1, <2>1, HoldsKept DEF Holds
  <1>2. ASSUME NEW c \in Callers, doing'[c] = "sending"
        PROVE  Holds(argEpoch[c], argConv[c])'
    <2>1. Holds(argEpoch[c], argConv[c]) /\ argEpoch[c] \in Nat
      BY <1>2 DEF EpochsHold, TypeOK
    <2> QED
      BY <1>2, <2>1, HoldsKept DEF Holds
  <1> QED
    BY <1>1, <1>2 DEF EpochsHold

LEMMA SendClaimsHolds ==
    ASSUME TypeOK, EpochsHold, NEW c \in Callers, SendClaims(c)
    PROVE  EpochsHold'
  <1>1. ASSUME NEW r \in Runs, at'[r] # "none"
        PROVE  Holds(runEpoch[r], runConv[r])'
    BY <1>1 DEF SendClaims, screenVars, runVars, EpochsHold, Holds
  <1>2. ASSUME NEW d \in Callers, doing'[d] = "sending"
        PROVE  Holds(argEpoch[d], argConv[d])'
    <2>1. CASE d = c
      BY <2>1 DEF SendClaims, screenVars, Holds, TypeOK
    <2>2. CASE d # c
      BY <1>2, <2>2 DEF SendClaims, screenVars, Goes, EpochsHold, Holds, TypeOK
    <2> QED
      BY <2>1, <2>2
  <1> QED
    BY <1>1, <1>2 DEF EpochsHold

LEMMA BeginsHolds ==
    ASSUME TypeOK, EpochsHold, NEW c \in Callers, Begins(c)
    PROVE  EpochsHold'
  <1> USE EpochsKept
  <1>1. CASE SendClaims(c)
    BY <1>1, SendClaimsHolds
  <1>2. CASE ResumeChecks(c)
    BY <1>2 DEF TypeOK, ResumeChecks, Goes, screenVars, runVars
  <1>3. CASE ClearHistory(c)
    BY <1>3 DEF ClearHistory, Show, runVars, callVars
  <1>4. ASSUME NEW name \in Names, LoadReads(c, name)
        PROVE  EpochsHold'
    BY <1>4 DEF TypeOK, LoadReads, Goes, screenVars, runVars
  <1>5. CASE WorkspaceChecks(c)
    BY <1>5 DEF TypeOK, WorkspaceChecks, Goes, KeepArgs, screenVars, runVars
  <1>6. CASE CreateScratchWorkspace(c)
    BY <1>6 DEF CreateScratchWorkspace, Show, runVars, callVars
  <1>7. ASSUME NEW name \in Names, StartPicks(c, name)
        PROVE  EpochsHold'
    BY <1>7 DEF TypeOK, StartPicks, Goes, screenVars, runVars
  <1>8. ASSUME NEW name \in Names, SaveCopies(c, name)
        PROVE  EpochsHold'
    BY <1>8 DEF TypeOK, SaveCopies, Goes, screenVars, runVars
  <1>9. ASSUME NEW name \in Names, DeleteRemoves(c, name)
        PROVE  EpochsHold'
    BY <1>9 DEF TypeOK, DeleteRemoves, Goes, screenVars, runVars
  <1>10. CASE SaveConversationCheckpoint(c)
    BY <1>10 DEF SaveConversationCheckpoint, screenVars, runVars, callVars
  <1>11. CASE StopAgent(c)
    BY <1>11 DEF TypeOK, StopAgent, screenVars, callVars
  <1> QED
    BY <1>1, <1>2, <1>3, <1>4, <1>5, <1>6, <1>7, <1>8, <1>9, <1>10, <1>11 DEF Begins

LEMMA ProceedsHolds ==
    ASSUME TypeOK, EpochsHold, NEW c \in Callers, Proceeds(c)
    PROVE  EpochsHold'
  <1> USE EpochsKept
  <1>1. CASE SendRejects(c)
    BY <1>1 DEF TypeOK, SendRejects, Returns, Goes, screenVars, runVars
  <1>2. CASE SendLaunches(c)
    <2>1. /\ Holds(argEpoch[c], argConv[c]) /\ argEpoch[c] \in Nat
          /\ UNCHANGED <<epoch, history>>
      BY <1>2 DEF TypeOK, EpochsHold, SendLaunches, Returns, Goes, screenVars
    <2>3. \A r \in Runs : at'[r] # "none" => Holds(runEpoch[r], runConv[r])'
      <3> DEFINE e == argEpoch[c]
                 conv == argConv[c]
      <3>1. Launch(e, conv) /\ Holds(e, conv) /\ e \in Nat
        BY <1>2, <2>1 DEF SendLaunches
      <3>2. PICK q \in Runs : /\ at' = [at EXCEPT ![q] = "loop"]
                              /\ runEpoch' = [runEpoch EXCEPT ![q] = e]
                              /\ runConv' = [runConv EXCEPT ![q] = conv]
        BY <3>1 DEF Launch
      <3> HIDE DEF e, conv
      <3>3. ASSUME NEW r \in Runs, at'[r] # "none"
            PROVE  Holds(runEpoch[r], runConv[r])'
        <4>1. CASE r = q
          BY <2>1, <3>1, <3>2, <4>1 DEF TypeOK, Holds
        <4>2. CASE r # q
          BY <2>1, <3>2, <3>3, <4>2 DEF TypeOK, EpochsHold, Holds
        <4> QED
          BY <4>1, <4>2
      <3> QED
        BY <3>3
    <2>4. ASSUME NEW d \in Callers, doing'[d] = "sending"
          PROVE  Holds(argEpoch[d], argConv[d])'
      BY <1>2, <2>1, <2>4 DEF TypeOK, SendLaunches, Returns, Goes, EpochsHold, Holds
    <2> QED
      BY <2>3, <2>4 DEF EpochsHold
  <1>3. CASE ResumeClaims(c)
    BY <1>3 DEF TypeOK, ResumeClaims, Goes, KeepArgs, screenVars, runVars
  <1>4. CASE ResumeLaunches(c)
    <2>1. epoch' = epoch + 1 /\ history' = argConv[c] /\ Launch(epoch', argConv[c])
      BY <1>4 DEF ResumeLaunches, Show
    <2>2. PICK q \in Runs : /\ at' = [at EXCEPT ![q] = "loop"]
                            /\ runEpoch' = [runEpoch EXCEPT ![q] = epoch']
                            /\ runConv' = [runConv EXCEPT ![q] = argConv[c]]
      BY <2>1 DEF Launch
    <2>3. ASSUME NEW r \in Runs, at'[r] # "none"
          PROVE  Holds(runEpoch[r], runConv[r])'
      <3>1. CASE r = q
        BY <2>1, <2>2, <3>1 DEF TypeOK, Holds
      <3>2. CASE r # q
        BY <2>1, <2>2, <2>3, <3>2 DEF TypeOK, EpochsHold, Holds
      <3> QED
        BY <3>1, <3>2
    <2>4. ASSUME NEW d \in Callers, doing'[d] = "sending"
          PROVE  Holds(argEpoch[d], argConv[d])'
      BY <1>4, <2>1, <2>4 DEF TypeOK, ResumeLaunches, Returns, Goes, EpochsHold, Holds
    <2> QED
      BY <2>3, <2>4 DEF EpochsHold
  <1>5. CASE LoadInstalls(c)
    BY <1>5 DEF TypeOK, LoadInstalls, Show, Returns, Goes, runVars
  <1>6. CASE WorkspaceClears(c)
    BY <1>6 DEF TypeOK, WorkspaceClears, Show, Returns, Goes, runVars
  <1>7. CASE StartNames(c)
    BY <1>7 DEF TypeOK, StartNames, Returns, Goes, runVars
  <1>8. CASE SaveWrites(c)
    BY <1>8 DEF TypeOK, SaveWrites, Goes, KeepArgs, screenVars, runVars
  <1>9. CASE SaveActivates(c)
    BY <1>9 DEF TypeOK, SaveActivates, Returns, Goes, runVars
  <1>10. CASE DeleteForgets(c)
    BY <1>10 DEF TypeOK, DeleteForgets, Returns, Goes, runVars
  <1>11. CASE CallFails(c)
    BY <1>11 DEF TypeOK, CallFails, Returns, Goes, screenVars, runVars
  <1> QED
    BY <1>1, <1>2, <1>3, <1>4, <1>5, <1>6, <1>7, <1>8, <1>9, <1>10, <1>11 DEF Proceeds

LEMMA RunHolds ==
    ASSUME TypeOK, EpochsHold, NEW r \in Runs, RunProceeds(r)
    PROVE  EpochsHold'
  <1> USE EpochsKept
  <1>1. CASE LoopEnds(r)
    BY <1>1 DEF TypeOK, LoopEnds, RunStep, screenVars, callVars
  <1>2. CASE FinalizerFrees(r)
    BY <1>2 DEF TypeOK, FinalizerFrees, RunStep, screenVars, callVars
  <1>3. CASE AutoSaveReadsName(r)
    BY <1>3 DEF TypeOK, AutoSaveReadsName, RunStep, screenVars, callVars
  <1>4. CASE AutoSaveCopies(r)
    BY <1>4 DEF TypeOK, AutoSaveCopies, RunStep, screenVars, callVars
  <1>5. CASE AutoSaveWrites(r)
    BY <1>5 DEF TypeOK, AutoSaveWrites, RunStep, screenVars, callVars
  <1> QED
    BY <1>1, <1>2, <1>3, <1>4, <1>5 DEF RunProceeds

\* An event is let through to the desktop (emitRun) only for the conversation
\* shown, whatever calls race.
THEOREM EpochsOwn == Spec => []EpochOwnsTranscript
  <1>1. TypeOK /\ EpochsHold /\ [Next]_vars => EpochsHold'
    <2> SUFFICES ASSUME TypeOK, EpochsHold, [Next]_vars
                 PROVE  EpochsHold'
      OBVIOUS
    <2>1. CASE Next
      BY <2>1, BeginsHolds, ProceedsHolds, RunHolds DEF Next
    <2>2. CASE UNCHANGED vars
      BY <2>2, EpochsKept DEF vars, screenVars, runVars, callVars
    <2> QED
      BY <2>1, <2>2
  <1>2. EpochsHold => EpochOwnsTranscript
    BY DEF EpochsHold, EpochOwnsTranscript, Holds
  <1> QED
    BY <1>1, <1>2, EpochsInit, TypeCorrect, PTL DEF Spec

-----------------------------------------------------------------------------
\* Whatever calls are made, a flag that is set has somebody who will clear it:
\* a sender or a resume on its way to its run, or a run on its way to its
\* finalizer.
Claiming(c) == doing[c] \in {"sending", "resumed"}
Ending(r) == at[r] \in {"loop", "stopping", "ending"}
BusyIsHeld ==
    agentRunning => (\E c \in Callers : Claiming(c)) \/ (\E r \in Runs : Ending(r))

\* A step that claims or launches nothing and clears no flag keeps the holders.
LEMMA HolderStays ==
    ASSUME BusyIsHeld, agentRunning' => agentRunning,
           \A c \in Callers : Claiming(c) => Claiming(c)',
           \A r \in Runs : Ending(r) => Ending(r)'
    PROVE  BusyIsHeld'
  BY DEF BusyIsHeld

LEMMA LaunchHolds ==
    ASSUME TypeOK, NEW e, NEW conv, Launch(e, conv)
    PROVE  BusyIsHeld'
  <1>1. PICK r \in Runs : at' = [at EXCEPT ![r] = "loop"]
    BY DEF Launch
  <1>2. at'[r] = "loop"
    BY <1>1 DEF TypeOK
  <1> QED
    BY <1>2 DEF BusyIsHeld, Ending

LEMMA BeginsBusy ==
    ASSUME TypeOK, BusyIsHeld, NEW c \in Callers, Begins(c)
    PROVE  BusyIsHeld'
  <1>1. CASE SendClaims(c)
    <2>1. doing'[c] = "sending"
      BY <1>1 DEF TypeOK, SendClaims, Goes
    <2> QED
      BY <2>1 DEF BusyIsHeld, Claiming
  <1>2. CASE StopAgent(c)
    <2>1. /\ \A r \in Runs : Ending(r) => Ending(r)'
          /\ UNCHANGED <<agentRunning, doing>>
      BY <1>2 DEF TypeOK, StopAgent, Ending, appVars, callVars
    <2> QED
      BY <2>1, HolderStays DEF Claiming
  <1>3. CASE ~SendClaims(c) /\ ~StopAgent(c)
    <2>1. doing[c] = "idle" /\ UNCHANGED <<agentRunning, at>>
      BY <1>3
      DEF Begins, ResumeChecks, ClearHistory, LoadReads, WorkspaceChecks,
          CreateScratchWorkspace, StartPicks, SaveCopies, DeleteRemoves,
          SaveConversationCheckpoint, Call, appVars, runVars
    <2>2. \A d \in Callers : d # c => doing'[d] = doing[d]
      BY <1>3
      DEF TypeOK, Begins, ResumeChecks, ClearHistory, LoadReads, WorkspaceChecks,
          CreateScratchWorkspace, StartPicks, SaveCopies, DeleteRemoves,
          SaveConversationCheckpoint, Goes, callVars
    <2> QED
      BY <2>1, <2>2, HolderStays DEF Claiming, Ending
  <1> QED
    BY <1>1, <1>2, <1>3

LEMMA ProceedsBusy ==
    ASSUME TypeOK, BusyIsHeld, NEW c \in Callers, Proceeds(c)
    PROVE  BusyIsHeld'
  <1>1. CASE SendRejects(c)
    BY <1>1 DEF SendRejects, BusyIsHeld
  <1>2. CASE SendLaunches(c) \/ ResumeLaunches(c)
    BY <1>2, LaunchHolds DEF SendLaunches, ResumeLaunches
  <1>3. CASE ResumeClaims(c)
    <2>1. doing'[c] = "resumed"
      BY <1>3 DEF TypeOK, ResumeClaims, Goes
    <2> QED
      BY <2>1 DEF BusyIsHeld, Claiming
  <1>4. CASE \/ LoadInstalls(c) \/ WorkspaceClears(c) \/ StartNames(c) \/ SaveWrites(c)
             \/ SaveActivates(c) \/ DeleteForgets(c) \/ CallFails(c)
    <2>1. ~Claiming(c) /\ UNCHANGED <<agentRunning, at>>
      BY <1>4
      DEF LoadInstalls, WorkspaceClears, StartNames, SaveWrites, SaveActivates,
          DeleteForgets, CallFails, Returns, Goes, Claiming, appVars, runVars
    <2>2. \A d \in Callers : d # c => doing'[d] = doing[d]
      BY <1>4
      DEF TypeOK, LoadInstalls, WorkspaceClears, StartNames, SaveWrites, SaveActivates,
          DeleteForgets, CallFails, Returns, Goes
    <2> QED
      BY <2>1, <2>2, HolderStays DEF Claiming, Ending
  <1> QED
    BY <1>1, <1>2, <1>3, <1>4 DEF Proceeds

LEMMA RunBusy ==
    ASSUME TypeOK, BusyIsHeld, NEW r \in Runs, RunProceeds(r)
    PROVE  BusyIsHeld'
  <1>1. CASE FinalizerFrees(r)
    BY <1>1 DEF FinalizerFrees, BusyIsHeld
  <1>2. CASE LoopEnds(r) \/ AutoSaveReadsName(r) \/ AutoSaveCopies(r) \/ AutoSaveWrites(r)
    <2>1. /\ \A q \in Runs : Ending(q) => Ending(q)'
          /\ UNCHANGED <<agentRunning, doing>>
      BY <1>2
      DEF TypeOK, LoopEnds, AutoSaveReadsName, AutoSaveCopies, AutoSaveWrites, RunStep,
          Ending, appVars, callVars
    <2> QED
      BY <2>1, HolderStays DEF Claiming
  <1> QED
    BY <1>1, <1>2 DEF RunProceeds

\* The safety of BusyEnds, for every set of calls: also when a resume has claimed
\* the flag over somebody else's and a finalizer has cleared it over that, the
\* flag is never set with nobody there to clear it (sendMessage, ResumeRun and
\* the finalizer of runAgentLoop).
THEOREM BusyHeld == Spec => []BusyIsHeld
  <1>1. Init => BusyIsHeld
    BY DEF Init, BusyIsHeld
  <1>2. TypeOK /\ BusyIsHeld /\ [Next]_vars => BusyIsHeld'
    <2>1. ASSUME UNCHANGED vars, BusyIsHeld PROVE BusyIsHeld'
      BY <2>1 DEF vars, appVars, runVars, callVars, BusyIsHeld, Claiming, Ending
    <2> QED
      BY <2>1, BeginsBusy, ProceedsBusy, RunBusy DEF Next
  <1> QED
    BY <1>1, <1>2, TypeCorrect, PTL DEF Spec

-----------------------------------------------------------------------------
\* The calls that look at the flag and claim, or replace, under one hold of
\* the lock: all but ResumeRun and SetWorkingDir.
CarefulCalls == "resume" \notin Operations /\ "workspace" \notin Operations

\* The flag is a token: it is with one sender or one run, that run is the one
\* cancelAgent stops, and its holder's conversation is the one shown.
Sender(c) == doing[c] = "sending"
Live(r) == at[r] \in {"loop", "stopping", "ending"}
Token ==
    /\ agentRunning <=> (\E c \in Callers : Sender(c)) \/ (\E r \in Runs : Live(r))
    /\ \A c, d \in Callers : Sender(c) /\ Sender(d) => c = d
    /\ \A r, q \in Runs : Live(r) /\ Live(q) => r = q
    /\ \A c \in Callers, r \in Runs : ~(Sender(c) /\ Live(r))
    /\ \A r \in Runs : Live(r) => cancelAgent = r /\ runConv[r] = history
    /\ \A c \in Callers : Sender(c) => argConv[c] = history
    /\ \A c \in Callers : doing[c] \notin {"resuming", "resumed", "moving"}

LEMMA TokenInit == Init => Token
  BY DEF Init, Token, Sender, Live

LEMMA BeginsToken ==
    ASSUME CarefulCalls, TypeOK, Token, NEW c \in Callers, Begins(c)
    PROVE  Token'
  <1> USE DEF CarefulCalls, Call, Token, Sender, Live
  <1>1. CASE SendClaims(c)
    BY <1>1 DEF TypeOK, SendClaims, Goes, screenVars, runVars
  <1>2. CASE ResumeChecks(c)
    BY <1>2 DEF ResumeChecks
  <1>3. CASE ClearHistory(c)
    BY <1>3 DEF ClearHistory, appVars, runVars, callVars
  <1>4. ASSUME NEW name \in Names, LoadReads(c, name)
        PROVE  Token'
    BY <1>4 DEF TypeOK, LoadReads, Goes, appVars, screenVars, runVars
  <1>5. CASE WorkspaceChecks(c)
    BY <1>5 DEF WorkspaceChecks
  <1>6. CASE CreateScratchWorkspace(c)
    BY <1>6 DEF CreateScratchWorkspace, Show, appVars, runVars, callVars
  <1>7. ASSUME NEW name \in Names, StartPicks(c, name)
        PROVE  Token'
    BY <1>7 DEF TypeOK, StartPicks, Goes, appVars, screenVars, runVars
  <1>8. ASSUME NEW name \in Names, SaveCopies(c, name)
        PROVE  Token'
    BY <1>8 DEF TypeOK, SaveCopies, Goes, appVars, screenVars, runVars
  <1>9. ASSUME NEW name \in Names, DeleteRemoves(c, name)
        PROVE  Token'
    BY <1>9 DEF TypeOK, DeleteRemoves, Goes, appVars, screenVars, runVars
  <1>10. CASE SaveConversationCheckpoint(c)
    BY <1>10 DEF SaveConversationCheckpoint, appVars, screenVars, runVars, callVars
  <1>11. CASE StopAgent(c)
    BY <1>11 DEF TypeOK, StopAgent, appVars, screenVars, callVars
  <1> QED
    BY <1>1, <1>2, <1>3, <1>4, <1>5, <1>6, <1>7, <1>8, <1>9, <1>10, <1>11 DEF Begins

LEMMA ProceedsToken ==
    ASSUME CarefulCalls, TypeOK, Token, NEW c \in Callers, Proceeds(c)
    PROVE  Token'
  <1> USE DEF Token, Sender, Live, Goes
  <1>1. CASE SendRejects(c)
    BY <1>1 DEF TypeOK, SendRejects, Returns, screenVars, runVars
  <1>2. CASE SendLaunches(c)
    <2>1. PICK q \in Runs : /\ at' = [at EXCEPT ![q] = "loop"]
                            /\ cancelAgent' = q
                            /\ runConv' = [runConv EXCEPT ![q] = argConv[c]]
      BY <1>2 DEF SendLaunches, Launch
    <2>2. /\ doing[c] = "sending" /\ doing' = [doing EXCEPT ![c] = "idle"]
          /\ UNCHANGED <<agentRunning, history>>
      BY <1>2 DEF SendLaunches, Returns, screenVars
    <2>3. \A r \in Runs : ~Live(r) /\ (Live(r)' <=> r = q)
      BY <2>1, <2>2 DEF TypeOK
    <2>4. \A d \in Callers : ~Sender(d)'
      BY <2>2 DEF TypeOK
    <2>5. \A r \in Runs : Live(r)' => cancelAgent' = r /\ runConv'[r] = history'
      BY <2>1, <2>2, <2>3 DEF TypeOK
    <2>6. \A d \in Callers : doing'[d] \notin {"resuming", "resumed", "moving"}
      BY <2>2 DEF TypeOK
    <2>7. agentRunning'
      BY <2>2
    <2> HIDE DEF Sender, Live
    <2> QED
      BY <2>3, <2>4, <2>5, <2>6, <2>7
  <1>3. CASE ResumeClaims(c)
    BY <1>3 DEF ResumeClaims
  <1>4. CASE ResumeLaunches(c)
    BY <1>4 DEF ResumeLaunches, Returns
  <1>5. CASE LoadInstalls(c)
    BY <1>5 DEF TypeOK, LoadInstalls, Returns, appVars, runVars
  <1>6. CASE WorkspaceClears(c)
    BY <1>6 DEF WorkspaceClears, Returns
  <1>7. CASE StartNames(c)
    BY <1>7 DEF TypeOK, StartNames, Returns, appVars, runVars
  <1>8. CASE SaveWrites(c)
    BY <1>8 DEF TypeOK, SaveWrites, KeepArgs, appVars, screenVars, runVars
  <1>9. CASE SaveActivates(c)
    BY <1>9 DEF TypeOK, SaveActivates, Returns, appVars, runVars
  <1>10. CASE DeleteForgets(c)
    BY <1>10 DEF TypeOK, DeleteForgets, Returns, appVars, runVars
  <1>11. CASE CallFails(c)
    BY <1>11 DEF TypeOK, CallFails, Returns, appVars, screenVars, runVars
  <1> QED
    BY <1>1, <1>2, <1>3, <1>4, <1>5, <1>6, <1>7, <1>8, <1>9, <1>10, <1>11 DEF Proceeds

LEMMA RunToken ==
    ASSUME TypeOK, Token, NEW r \in Runs, RunProceeds(r)
    PROVE  Token'
  <1> USE DEF Token, Sender, Live, RunStep
  <1>1. CASE LoopEnds(r)
    BY <1>1 DEF TypeOK, LoopEnds, appVars, screenVars, callVars
  <1>2. CASE FinalizerFrees(r)
    BY <1>2 DEF TypeOK, FinalizerFrees, screenVars, callVars
  <1>3. CASE AutoSaveReadsName(r)
    BY <1>3 DEF TypeOK, AutoSaveReadsName, appVars, screenVars, callVars
  <1>4. CASE AutoSaveCopies(r)
    BY <1>4 DEF TypeOK, AutoSaveCopies, appVars, screenVars, callVars
  <1>5. CASE AutoSaveWrites(r)
    BY <1>5 DEF TypeOK, AutoSaveWrites, appVars, screenVars, callVars
  <1> QED
    BY <1>1, <1>2, <1>3, <1>4, <1>5 DEF RunProceeds

\* With the careful calls alone the flag is held by one sender or one run,
\* from the claim to the finalizer.
THEOREM FlagIsToken ==
    ASSUME CarefulCalls
    PROVE  Spec => []Token
  <1>1. TypeOK /\ Token /\ [Next]_vars => Token'
    <2> SUFFICES ASSUME TypeOK, Token, [Next]_vars
                 PROVE  Token'
      OBVIOUS
    <2>1. CASE Next
      BY <2>1, BeginsToken, ProceedsToken, RunToken DEF Next
    <2>2. CASE UNCHANGED vars
      BY <2>2 DEF Token, Sender, Live, vars, appVars, screenVars, runVars, callVars
    <2> QED
      BY <2>1, <2>2
  <1> QED
    BY <1>1, TokenInit, TypeCorrect, PTL DEF Spec

LEMMA TokenImplies ==
    ASSUME TypeOK, Token
    PROVE  /\ OneLoop /\ HistoryKeptUnderRun
           /\ StopReachesRun /\ FlagIsTruthful
  <1>1. \A r \in Executing : Live(r)
    BY DEF Executing, Live
  <1>2. OneLoop /\ HistoryKeptUnderRun /\ StopReachesRun
    BY <1>1 DEF Token, OneLoop, HistoryKeptUnderRun, StopReachesRun, Executing
  <1>3. \A c \in Callers : doing[c] \in {"sending", "resumed"} <=> Sender(c)
    BY DEF Token, Sender
  <1>4. FlagIsTruthful
    BY <1>3, Zenon DEF Token, FlagIsTruthful, Live
  <1> QED
    BY <1>2, <1>4

\* With the careful calls alone at most one loop runs.
THEOREM OneLoopRuns ==
    ASSUME CarefulCalls
    PROVE  Spec => []OneLoop
  BY FlagIsToken, TypeCorrect, TokenImplies, PTL

\* ... its history is not replaced under it ...
THEOREM HistoryIsKept ==
    ASSUME CarefulCalls
    PROVE  Spec => []HistoryKeptUnderRun
  BY FlagIsToken, TypeCorrect, TokenImplies, PTL

\* ... a stop reaches it ...
THEOREM StopsReach ==
    ASSUME CarefulCalls
    PROVE  Spec => []StopReachesRun
  BY FlagIsToken, TypeCorrect, TokenImplies, PTL

\* ... and the flag says whether one is under way.
THEOREM FlagTells ==
    ASSUME CarefulCalls
    PROVE  Spec => []FlagIsTruthful
  BY FlagIsToken, TypeCorrect, TokenImplies, PTL
=============================================================================
