-------------------------- MODULE RunControlProofs --------------------------
(***************************************************************************)
(* Proofs about one agent run, for every limit and every set of contents.  *)
(* First that the loop is a user of the control-plane machine and nothing  *)
(* else writes it, so all that is proved of the machine holds of runs; then *)
(* what the loop adds: tools run only under a licence still valid, done is *)
(* earned, and a first verification accepts only the bytes in the file.    *)
(***************************************************************************)
EXTENDS RunControl, ControlPlaneProofs

-----------------------------------------------------------------------------
\* Steps of the loop and of its surroundings that leave the machine alone.
Outside == StopAgent \/ TimePasses \/ OutsideEdit

Turning ==
    \/ TurnCancelled
    \/ \E broken \in BOOLEAN, routing \in Routings : BeginTurn(broken, routing)
    \/ RetryInference
    \/ ModelFails
    \/ ClosingReply
    \/ ModelCallsTools
    \/ AutoContinue
    \/ Escalate
    \/ GiveUp
    \/ \E ok \in BOOLEAN : Answer(ok)
    \/ \E ok \in BOOLEAN : DirectAnswer(ok)
    \/ AskForPlan
    \/ ProposalRejected
    \/ DirectFails

Batching ==
    \/ EndBatch
    \/ OverBudgetCall
    \/ \E stops \in BOOLEAN : TurnAway(stops)
    \/ \E tool \in Tools : RefuseTool(tool)
    \/ ApprovalUnavailable
    \/ \E stops \in BOOLEAN : SkipCall(stops)
    \/ RunOutsideActing

Running ==
    \/ \E plans \in BOOLEAN : RunUncontrolled(plans)
    \/ RunFails
    \/ RunSucceeds
    \/ RecordObservation

Judging ==
    \/ \E review \in {"blocking", "inconclusive"} : ReviewBlocks(review)
    \/ ProjectBlocks
    \/ AnswerBlocks
    \/ \E project \in {"pass", "none"} : PassRefused(project)

Passing ==
    \/ \E project \in {"pass", "none"} : PassesScreened(project)
    \/ \E project \in {"pass", "none"} : DirectPasses(project)

LEMMA RunSteps ==
    ASSUME RunNext
    PROVE  \/ Outside \/ Turning \/ Batching \/ Running \/ Judging \/ Passing
           \/ ValidateContract \/ WaivePlan
           \/ \E tool \in Tools : PrepareTool(tool)
           \/ NoApprovalNeeded \/ EnterControlApproval \/ Approve
           \/ Deny \/ ConfirmCancelled
           \/ ConcludeRepair \/ RequestControlVerification \/ Finalize
BY DEF RunNext, Loop, Outside, Turning, Batching, Running, Judging, Passing

\* What each kind of step does to the machine, the goroutine and the status.
LEMMA OutsideFacts ==
    ASSUME Outside
    PROVE  UNCHANGED <<machineVars, pc, call, status, stopReason, answerOK,
                       docOwed, recorded, reviewCycles>> /\ pc # "done"
BY DEF Outside, StopAgent, TimePasses, OutsideEdit, workVars, counters

LEMMA TurningFacts ==
    ASSUME Turning
    PROVE  /\ UNCHANGED <<machineVars, recorded, reviewCycles>>
           /\ pc \in {"turn", "model", "answer", "direct"}
           /\ pc' \in {"turn", "model", "batch", "answer", "proposed", "finalize"}
           /\ pc' = "proposed" => phase \in {"acting", "observing", "repairing"}
           /\ pc' = "finalize" => status' # "done"
BY DEF Turning, TurnCancelled, BeginTurn, RetryInference, ModelFails,
       ClosingReply, ModelCallsTools, AutoContinue, Escalate, TryEscalation, GiveUp, Answer,
       DirectAnswer, AskForPlan, ProposalRejected, DirectFails, Return, workVars,
       counters

LEMMA BatchingFacts ==
    ASSUME Batching
    PROVE  /\ UNCHANGED <<machineVars, recorded, reviewCycles>>
           /\ pc \in {"batch", "prepared", "cleared"}
           /\ pc' \in {"turn", "batch"}
BY DEF Batching, EndBatch, OverBudgetCall, TurnAway, RefuseTool, StartCall,
       ApprovalUnavailable, SkipCall, RunOutsideActing, Ran, workVars, counters

LEMMA RunningFacts ==
    ASSUME Running
    PROVE  /\ [PlanAccepted \/ ActionFailed \/ ActionSucceeded
                  \/ ObservationRecorded]_machineVars
           /\ UNCHANGED reviewCycles
           /\ pc \in {"cleared", "observed"}
           /\ pc' \in {"observed", "batch"}
BY DEF Running, RunUncontrolled, RunFails, RunSucceeds, RecordObservation, Ran,
       counters

LEMMA JudgingFacts ==
    ASSUME Judging
    PROVE  /\ UNCHANGED recorded
           /\ Blocked \/ VerificationFailed(ControlSatisfiedChecks("none"))
           /\ pc = "review"
           /\ \/ pc' = "turn" /\ reviewCycles' = reviewCycles + 1
              \/ /\ pc' = "finalize" /\ status' = "stopped"
                 /\ UNCHANGED reviewCycles
BY DEF Judging, ReviewBlocks, ProjectBlocks, AnswerBlocks, PassRefused, Repair,
       BlockRun, Return, ReviewFrame, workVars

LEMMA PassingFacts ==
    ASSUME Passing
    PROVE  \E project \in {"pass", "none"} :
              /\ VerificationPassed(ControlSatisfiedChecks(project))
              /\ UNCHANGED <<recorded, reviewCycles>>
              /\ pc \in {"review", "direct"} /\ pc' = "finalize"
BY DEF Passing, PassesScreened, DirectPasses, PassControlVerification, Return,
       ReviewFrame, workVars

-----------------------------------------------------------------------------
\* Only the bytes of writes are ever fingerprinted.
RecordedOK == recorded \in SUBSET Contents

LEMMA RecordedInit == RunInit => RecordedOK
BY DEF RunInit, RecordedOK

LEMMA RecordedNext ==
    ASSUME RecordedOK, [RunNext]_runVars PROVE RecordedOK'
<1>1. CASE RunSucceeds
  BY <1>1, RunEvidenceAssumption
  DEF RunSucceeds, RecordedOK, FileAfter, PlanningTools
<1>2. CASE UNCHANGED recorded
  BY <1>2 DEF RecordedOK
<1>3. RunSucceeds \/ UNCHANGED recorded
  <2>1. CASE UNCHANGED runVars
    BY <2>1 DEF runVars, workVars
  <2>2. CASE Running
    BY <2>2 DEF Running, RunUncontrolled, RunFails, RecordObservation, workVars
  <2>3. CASE Finalize \/ ValidateContract \/ WaivePlan \/ NoApprovalNeeded
               \/ EnterControlApproval \/ Approve \/ Deny \/ ConfirmCancelled
               \/ ConcludeRepair \/ RequestControlVerification
    BY <2>3
    DEF Finalize, ValidateContract, WaivePlan, NoApprovalNeeded,
        EnterControlApproval, Approve, Deny, ConfirmCancelled, Denied,
        ConcludeRepair, RequestControlVerification, workVars
  <2>4. CASE \E tool \in Tools : PrepareTool(tool)
    BY <2>4 DEF PrepareTool, workVars
  <2> QED
    BY <2>1, <2>2, <2>3, <2>4, RunSteps, OutsideFacts, TurningFacts,
       BatchingFacts, JudgingFacts, PassingFacts
<1> QED BY <1>1, <1>2, <1>3

\* What the controller brings to a verification is an evidence map.
LEMMA ControlSatisfiedIsMap ==
    ASSUME RecordedOK, NEW project
    PROVE  ControlSatisfiedChecks(project) \in EvidenceMaps
BY RunEvidenceAssumption DEF ControlSatisfiedChecks, EvidenceMaps, RecordedOK

\* Every step of a run is a step of the machine or leaves it alone.
LEMMA RunStepIsMachineStep ==
    ASSUME RecordedOK, [RunNext]_runVars PROVE [Next]_machineVars
<1>1. CASE UNCHANGED machineVars
  BY <1>1
<1>2. CASE Running
  BY <1>2, RunningFacts DEF Next
<1>3. CASE Judging
  BY <1>3, JudgingFacts, ControlSatisfiedIsMap DEF Next
<1>4. CASE Passing
  BY <1>4, PassingFacts, ControlSatisfiedIsMap DEF Next
<1>5. CASE ValidateContract \/ WaivePlan \/ EnterControlApproval \/ Approve
             \/ Deny \/ ConfirmCancelled \/ ConcludeRepair
             \/ RequestControlVerification
  BY <1>5
  DEF ValidateContract, WaivePlan, EnterControlApproval, Approve, Deny,
      ConfirmCancelled, Denied, ConcludeRepair, RequestControlVerification, Next
<1>6. CASE \E tool \in Tools : PrepareTool(tool)
  BY <1>6 DEF PrepareTool, Next
<1>7. CASE Finalize
  BY <1>7 DEF Finalize, Next
<1>8. CASE NoApprovalNeeded
  BY <1>8 DEF NoApprovalNeeded
<1>9. CASE UNCHANGED runVars
  BY <1>9 DEF runVars
<1> QED
  BY <1>1, <1>2, <1>3, <1>4, <1>5, <1>6, <1>7, <1>8, <1>9, RunSteps, OutsideFacts, TurningFacts, BatchingFacts

\* A run never writes its control state but by the machine's events, so every
\* theorem about the machine is one about runs (applyControlEvent).
THEOREM RunIsMachine == RunSpec => Spec
<1>1. RunInit => Init BY DEF RunInit
<1>2. RunSpec => []RecordedOK
  BY RecordedInit, RecordedNext, PTL DEF RunSpec
<1> QED BY <1>1, <1>2, RunStepIsMachineStep, PTL DEF RunSpec, Spec

LEMMA RunMachineInv == RunSpec => []MachineInv
<1>1. Spec => []MachineInv
  BY MachineInvInit, MachineInvNext, PTL DEF Spec
<1> QED BY <1>1, RunIsMachine, PTL

\* A run is settled once, and accepted only with every required check proven.
THEOREM RunImplementsGate == RunSpec => ImplementsGate
BY RunIsMachine, MachineImplementsGate, PTL

-----------------------------------------------------------------------------
\* A licence holds from the call's preparation until it runs; while an
\* approval is pending it is the phase to resume that carries it.
LicenceInv ==
    /\ pc \in {"prepared", "cleared"} /\ call \in ControlledTools => CheckTool(call)
    /\ pc = "confirm" /\ call \in ControlledTools =>
          resumePhase = "acting" /\ (planRequired => planAccepted)

LicencePCs == {"prepared", "cleared", "confirm"}

LEMMA LicenceInit == RunInit => LicenceInv
BY DEF RunInit, LicenceInv

LEMMA LicenceNext ==
    ASSUME MachineInv, LicenceInv, [RunNext]_runVars PROVE LicenceInv'
<1>1. CASE UNCHANGED <<machineVars, pc, call>>
  BY <1>1 DEF LicenceInv, CheckTool, machineVars
<1>2. CASE pc' \notin LicencePCs
  BY <1>2 DEF LicenceInv, LicencePCs
<1>3. ASSUME NEW tool \in Tools, PrepareTool(tool) PROVE LicenceInv'
  <2>1. pc' = "prepared" /\ call' = tool
    BY <1>3 DEF PrepareTool
  <2>2. CASE phase = "repairing" /\ tool \in ControlledTools
    <3>1. planRequired' => planAccepted'
      BY <1>3, <2>2
      DEF PrepareTool, RepairReady, Move, contractVars, MachineInv,
          PlanPrecedesWork, Working, WorkPhases
    <3>2. phase' = "acting"
      BY <1>3, <2>2 DEF PrepareTool, RepairReady, Move
    <3> QED BY <2>1, <3>1, <3>2 DEF LicenceInv, CheckTool
  <2>3. CASE ~(phase = "repairing" /\ tool \in ControlledTools)
    BY <1>3, <2>1, <2>3
    DEF PrepareTool, Licensed, LicenceInv, CheckTool, machineVars
  <2> QED BY <2>2, <2>3
<1>4. CASE NoApprovalNeeded
  BY <1>4 DEF NoApprovalNeeded, LicenceInv, CheckTool, machineVars
<1>5. CASE EnterControlApproval
  BY <1>5
  DEF EnterControlApproval, ApprovalRequired, contractVars, LicenceInv,
      CheckTool, ControlledTools, Destructive
<1>6. CASE Approve
  BY <1>6 DEF Approve, ApprovalGranted, contractVars, LicenceInv, CheckTool
<1>7. CASE Deny \/ ConfirmCancelled \/ ValidateContract \/ WaivePlan \/ Finalize
             \/ RequestControlVerification
  BY <1>7, <1>2
  DEF Deny, ConfirmCancelled, Denied, ValidateContract, WaivePlan, Finalize,
      RequestControlVerification, LicencePCs
<1>8. CASE ConcludeRepair
  BY <1>8, <1>2 DEF ConcludeRepair, LicencePCs
<1>9. CASE Turning \/ Batching \/ Running \/ Judging \/ Passing
  BY <1>9, <1>2, TurningFacts, BatchingFacts, RunningFacts, JudgingFacts,
     PassingFacts DEF LicencePCs
<1>10. CASE Outside \/ UNCHANGED runVars
  BY <1>10, <1>1, OutsideFacts DEF runVars
<1> QED
  BY <1>3, <1>4, <1>5, <1>6, <1>7, <1>8, <1>9, <1>10, RunSteps

\* A controlled call that runs is still allowed by the machine at that moment,
\* whatever approval, denial or repair lies between (prepareControlledTool).
THEOREM RunsOnlyLicensedCalls == RunSpec => []LicensedExecution
<1>1. LicenceInv => LicensedExecution
  BY DEF LicenceInv, LicensedExecution
<1> QED BY <1>1, RunMachineInv, LicenceInit, LicenceNext, PTL DEF RunSpec

-----------------------------------------------------------------------------
\* The loop calls a run done only when its control is complete, and then only
\* the finalizer moves.
FinalInv ==
    /\ pc = "finalize" /\ status = "done" => phase = "complete"
    /\ DoneIsEarned

LEMMA FinalInit == RunInit => FinalInv
BY DEF RunInit, FinalInv, DoneIsEarned

LEMMA FinalNext ==
    ASSUME MachineInv, FinalInv, [RunNext]_runVars PROVE FinalInv'
<1>1. CASE UNCHANGED runVars
  BY <1>1
  DEF FinalInv, DoneIsEarned, MissingBlockingChecks, runVars, machineVars, workVars
<1>2. CASE pc' \notin {"finalize", "done"}
  BY <1>2 DEF FinalInv, DoneIsEarned
<1>3. CASE Outside
  BY <1>3, OutsideFacts DEF FinalInv, DoneIsEarned, machineVars
<1>4. CASE Turning \/ Judging
  BY <1>4, TurningFacts, JudgingFacts DEF FinalInv, DoneIsEarned
<1>5. CASE Passing
  BY <1>5, PassingFacts DEF VerificationPassed, FinalInv, DoneIsEarned
<1>6. CASE Finalize
  <2> SUFFICES ASSUME status' = "done" PROVE DoneIsEarned'
    BY <1>6 DEF Finalize, FinalInv, DoneIsEarned
  <2>1. Terminal /\ UNCHANGED machineVars
    BY <1>6 DEF Finalize
  <2>2. /\ status = "done" /\ stopReason \notin BlockingStopReasons
        /\ ~docOwed /\ answerOK
    BY <1>6 DEF Finalize, FinalStatus
  <2>3. phase = "complete"
    BY <1>6, <2>2 DEF Finalize, FinalInv
  <2>4. MissingBlockingChecks(satisfiedChecks) = {} /\ planAccepted
    BY <2>3 DEF MachineInv, CompletionOwnsEvidence, PlanPrecedesWork, Working,
                WorkPhases
  <2>5. UNCHANGED <<stopReason, answerOK, docOwed>>
    BY <1>6 DEF Finalize, workVars
  <2> QED
    BY <2>1, <2>2, <2>3, <2>4, <2>5
    DEF DoneIsEarned, MissingBlockingChecks, machineVars
<1>7. CASE Deny \/ ConfirmCancelled \/ ValidateContract \/ WaivePlan
             \/ RequestControlVerification \/ ConcludeRepair \/ NoApprovalNeeded
             \/ EnterControlApproval \/ Approve
  BY <1>7, <1>2
  DEF Deny, ConfirmCancelled, Denied, ValidateContract, WaivePlan,
      RequestControlVerification, ConcludeRepair, NoApprovalNeeded,
      EnterControlApproval, Approve
<1>8. CASE \E tool \in Tools : PrepareTool(tool)
  BY <1>8, <1>2 DEF PrepareTool
<1>9. CASE Batching \/ Running
  BY <1>9, <1>2, BatchingFacts, RunningFacts
<1> QED BY <1>1, <1>3, <1>4, <1>5, <1>6, <1>7, <1>8, <1>9, RunSteps

\* A run saved as done is complete with evidence for every blocking check, and
\* nothing that blocks is left open (the deferred finalizer of runAgentLoop).
THEOREM DoneRunsAreEarned == RunSpec => []DoneIsEarned
<1>1. FinalInv => DoneIsEarned
  BY DEF FinalInv
<1> QED BY <1>1, RunMachineInv, FinalInit, FinalNext, PTL DEF RunSpec

-----------------------------------------------------------------------------
\* Evidence is held over only by a failed verification, which is counted.
FreshInv ==
    /\ reviewCycles \in Nat
    /\ reviewCycles = 0 /\ pc \notin {"finalize", "done"} =>
          satisfiedChecks[MutationCheck] = {}

\* Only passing completes a run, and only judging and passing change what is
\* held of evidence or counted of cycles.
LEMMA EvidenceMovers ==
    ASSUME RunNext, ~Passing, ~Judging
    PROVE  /\ UNCHANGED <<satisfiedChecks, reviewCycles>>
           /\ phase' # "complete" \/ phase' = phase
           /\ pc \in {"finalize", "done"} => pc' \in {"finalize", "done"}
<1>1. CASE Outside \/ Turning \/ Batching
  BY <1>1, OutsideFacts, TurningFacts, BatchingFacts DEF machineVars
<1>2. CASE Running
  BY <1>2, RunningFacts
  DEF PlanAccepted, ActionFailed, ActionSucceeded, ObservationRecorded, Move,
      contractVars, machineVars
<1>3. CASE ValidateContract \/ WaivePlan \/ ConcludeRepair
             \/ RequestControlVerification
  BY <1>3
  DEF ValidateContract, WaivePlan, ConcludeRepair, RequestControlVerification,
      ContractValidated, PlanAccepted, RepairConcluded, VerificationRequested,
      Move, contractVars, counters
<1>4. CASE NoApprovalNeeded \/ EnterControlApproval \/ Approve \/ Deny
             \/ ConfirmCancelled
  BY <1>4
  DEF NoApprovalNeeded, EnterControlApproval, Approve, Deny, ConfirmCancelled,
      Denied, ApprovalRequired, ApprovalGranted, ApprovalDenied, End,
      ActivePhases, contractVars, counters, machineVars
<1>5. CASE \E tool \in Tools : PrepareTool(tool)
  BY <1>5
  DEF PrepareTool, StartCall, RepairReady, Move, contractVars, counters, machineVars
<1>6. CASE Finalize
  BY <1>6
  DEF Finalize, Blocked, Cancelled, Failed, End, contractVars, counters, machineVars
<1> QED BY <1>1, <1>2, <1>3, <1>4, <1>5, <1>6, RunSteps

LEMMA FreshInit == RunInit => FreshInv
BY NoEvidenceFacts, RunChecksAssumption DEF RunInit, Init, FreshInv

LEMMA FreshNext ==
    ASSUME FreshInv, [RunNext]_runVars PROVE FreshInv'
<1>1. CASE UNCHANGED runVars
  BY <1>1 DEF FreshInv, runVars, machineVars, counters
<1>2. CASE Judging
  BY <1>2, JudgingFacts DEF FreshInv
<1>3. CASE Passing
  BY <1>3, PassingFacts DEF FreshInv
<1>4. CASE RunNext /\ ~Passing /\ ~Judging
  BY <1>4, EvidenceMovers DEF FreshInv
<1> QED BY <1>1, <1>2, <1>3, <1>4

\* The first verification of a run accepts a mutation only for the bytes that
\* are in the file then, whoever wrote them last (mutationEvidenceIDs).
THEOREM FirstPassAcceptsFinalBytes == RunSpec => FirstPassIsFresh
<1> DEFINE Fresh ==
      phase # "complete" /\ phase' = "complete" /\ reviewCycles = 0
        /\ MutationCheck \in blockingChecks
      => file \in satisfiedChecks'[MutationCheck]
<1>1. ASSUME FreshInv, [RunNext]_runVars PROVE [Fresh]_runVars
  <2> SUFFICES ASSUME RunNext, phase # "complete", phase' = "complete",
                      reviewCycles = 0, MutationCheck \in blockingChecks
               PROVE  file \in satisfiedChecks'[MutationCheck]
    BY <1>1
  <2>1. Passing
    <3>1. CASE Judging
      BY <3>1, JudgingFacts DEF Blocked, VerificationFailed, End
    <3> QED BY <3>1, EvidenceMovers
  <2>2. PICK project \in {"pass", "none"} :
           VerificationPassed(ControlSatisfiedChecks(project))
           /\ pc \in {"review", "direct"}
    BY <2>1, PassingFacts
  <2>3. satisfiedChecks[MutationCheck] = {}
    BY <1>1, <2>2 DEF FreshInv
  <2>4. satisfiedChecks'[MutationCheck] = recorded \cap {file}
    BY <2>2, <2>3, RunChecksAssumption
    DEF VerificationPassed, MergeSatisfiedChecks, ControlSatisfiedChecks
  <2>5. satisfiedChecks'[MutationCheck] # {}
    BY <2>2 DEF VerificationPassed, MissingBlockingChecks
  <2> QED BY <2>4, <2>5
<1> QED BY <1>1, FreshInit, FreshNext, PTL DEF RunSpec, FirstPassIsFresh

-----------------------------------------------------------------------------
\* A call in hand has room in the tool budget, which it uses up when handled.
InHand == pc \in LicencePCs => toolsUsed < MaxToolCalls

LEMMA TypesInit == RunInit => RunTypeOK /\ InHand
<1> SUFFICES ASSUME RunInit PROVE RunTypeOK /\ InHand
  OBVIOUS
<1>1. MachineTypeOK
  BY MachineInvInit DEF RunInit, MachineInv
<1>2. /\ toolsUsed \in 0..MaxToolCalls /\ autoContinues \in 0..MaxAutoContinues
      /\ escalations \in 0..MaxEscalations /\ reviewCycles \in 0..RepairCycles
      /\ inferenceRetries \in 0..MaxInferenceRetries
  BY RunLimitsAssumption DEF RunInit, RepairCycles
<1>3. InHand
  BY DEF RunInit, InHand, LicencePCs
<1> QED BY <1>1, <1>2, <1>3 DEF RunInit, RunTypeOK, StopReasons, NoCall

\* The parts of the type invariant a step may change, by kind of step.
LEMMA OutsideTypes ==
    ASSUME RunTypeOK, InHand, MachineTypeOK', Outside \/ UNCHANGED runVars
    PROVE  RunTypeOK' /\ InHand'
BY DEF RunTypeOK, InHand, Outside, StopAgent, TimePasses, OutsideEdit, runVars,
       turnVars, counters, workVars, envVars

LEMMA TurningTypes ==
    ASSUME RunTypeOK, InHand, MachineTypeOK', Turning
    PROVE  RunTypeOK' /\ InHand'
<1> USE RunLimitsAssumption
    DEF RunTypeOK, InHand, LicencePCs, turnVars, counters, workVars, envVars,
        Return, Stop, StopReasons
<1>1. CASE TurnCancelled \/ ModelFails \/ ModelCallsTools \/ GiveUp
             \/ ProposalRejected
  BY <1>1 DEF TurnCancelled, ModelFails, ModelCallsTools, GiveUp, ProposalRejected
<1>5. CASE ClosingReply
  BY <1>5 DEF ClosingReply, Closing
<1>2. ASSUME NEW broken \in BOOLEAN, NEW routing \in Routings,
             BeginTurn(broken, routing)
      PROVE  RunTypeOK' /\ InHand'
  <2>1. offered' \in SUBSET Tools
    BY <1>2, RoutingsAssumption DEF BeginTurn, ConstrainControlPlanningTools
  <2> QED BY <1>2, <2>1 DEF BeginTurn, TurnFor
<1>3. CASE AutoContinue \/ Escalate \/ RetryInference \/ AskForPlan \/ DirectFails
  BY <1>3 DEF AutoContinue, Escalate, TryEscalation, RetryInference, AskForPlan, DirectFails
<1>4. CASE \E ok \in BOOLEAN : Answer(ok) \/ DirectAnswer(ok)
  BY <1>4 DEF Answer, DirectAnswer
<1> QED BY <1>1, <1>2, <1>3, <1>4, <1>5 DEF Turning

LEMMA BatchingTypes ==
    ASSUME RunTypeOK, InHand, MachineTypeOK', Batching
    PROVE  RunTypeOK' /\ InHand'
BY RunLimitsAssumption
DEF Batching, EndBatch, OverBudgetCall, TurnAway, RefuseTool, StartCall, Use,
    ApprovalUnavailable, SkipCall, RunOutsideActing, Ran, NoCall, Stop,
    StopReasons, RunTypeOK, InHand, LicencePCs, turnVars, counters, workVars,
    envVars

LEMMA RunningTypes ==
    ASSUME RunTypeOK, InHand, MachineTypeOK', Running
    PROVE  RunTypeOK' /\ InHand'
<1> USE RunLimitsAssumption
    DEF RunTypeOK, InHand, LicencePCs, Ran, Use, NoCall, turnVars, counters,
        workVars, envVars
<1>1. ASSUME NEW ok \in BOOLEAN PROVE FileAfter(ok) \subseteq FileStates
  BY <1>1 DEF FileAfter, FileStates
<1>2. CASE \E plans \in BOOLEAN : RunUncontrolled(plans)
  <2>1. file' \in FileStates
    BY <1>1, <1>2 DEF RunUncontrolled
  <2> QED BY <1>2, <2>1 DEF RunUncontrolled
<1>3. CASE RunFails
  <2>1. file' \in FileStates
    BY <1>1, <1>3 DEF RunFails
  <2> QED BY <1>3, <2>1 DEF RunFails
<1>4. CASE RunSucceeds
  <2>1. file' \in FileStates
    BY <1>1, <1>4 DEF RunSucceeds
  <2>2. recorded' \in SUBSET Contents
    BY <1>4 DEF RunSucceeds, FileAfter, PlanningTools
  <2>3. docOwed' \in BOOLEAN
    BY <1>4 DEF RunSucceeds
  <2> QED BY <1>4, <2>1, <2>2, <2>3 DEF RunSucceeds
<1>5. CASE RecordObservation
  BY <1>5 DEF RecordObservation
<1> QED BY <1>2, <1>3, <1>4, <1>5 DEF Running

LEMMA VerdictTypes ==
    ASSUME RunTypeOK, InHand, MachineTypeOK', Judging \/ Passing
    PROVE  RunTypeOK' /\ InHand'
<1> USE RunLimitsAssumption
    DEF RunTypeOK, InHand, LicencePCs, ReviewFrame, Return, Stop, StopReasons,
        turnVars, workVars, envVars
<1>1. ASSUME NEW project \in {"pass", "none"}
      PROVE  ControlSatisfiedChecks(project)[MutationCheck] \in SUBSET Contents
  BY RunChecksAssumption DEF ControlSatisfiedChecks
<1>2. CASE Passing
  BY <1>1, <1>2
  DEF Passing, PassesScreened, DirectPasses, PassControlVerification
<1>3. CASE \E review \in {"blocking", "inconclusive"} : ReviewBlocks(review)
  BY <1>3 DEF ReviewBlocks, Repair, BlockRun, RepairCycles
<1>4. CASE ProjectBlocks \/ AnswerBlocks
             \/ \E project \in {"pass", "none"} : PassRefused(project)
  BY <1>4 DEF ProjectBlocks, AnswerBlocks, PassRefused, Repair, BlockRun, RepairCycles
<1> QED BY <1>2, <1>3, <1>4 DEF Judging

LEMMA ControlTypes ==
    ASSUME RunTypeOK, InHand, MachineTypeOK',
           \/ ValidateContract \/ WaivePlan \/ Finalize
           \/ \E tool \in Tools : PrepareTool(tool)
           \/ NoApprovalNeeded \/ EnterControlApproval \/ Approve
           \/ Deny \/ ConfirmCancelled
           \/ ConcludeRepair \/ RequestControlVerification
    PROVE  RunTypeOK' /\ InHand'
<1> USE RunLimitsAssumption
    DEF RunTypeOK, InHand, LicencePCs, turnVars, counters, workVars, envVars
<1>1. CASE ValidateContract \/ WaivePlan \/ Finalize
  BY <1>1 DEF ValidateContract, WaivePlan, Finalize, FinalStatus
<1>2. CASE \E tool \in Tools : PrepareTool(tool)
  BY <1>2 DEF PrepareTool, StartCall
<1>3. CASE NoApprovalNeeded \/ EnterControlApproval \/ Approve
             \/ Deny \/ ConfirmCancelled
  BY <1>3 DEF NoApprovalNeeded, EnterControlApproval, Approve, Deny,
              ConfirmCancelled, Denied, Use, Stop, StopReasons, NoCall
<1>4. CASE ConcludeRepair \/ RequestControlVerification
  BY <1>4 DEF ConcludeRepair, RequestControlVerification
<1> QED BY <1>1, <1>2, <1>3, <1>4

LEMMA RunTyped == RunSpec => [](RunTypeOK /\ InHand)
<1>1. MachineInv => MachineTypeOK
  BY DEF MachineInv
<1>2. RunTypeOK /\ InHand /\ MachineTypeOK' /\ [RunNext]_runVars
        => (RunTypeOK /\ InHand)'
  BY RunSteps, OutsideTypes, TurningTypes, BatchingTypes, RunningTypes,
     VerdictTypes, ControlTypes
<1> QED BY <1>1, <1>2, TypesInit, RunMachineInv, PTL DEF RunSpec

\* Every variable keeps its type: no limit on tool calls, retries, escalations
\* or repair cycles is ever exceeded (the counters of runAgentLoop).
THEOREM RunTypeCorrect == RunSpec => []RunTypeOK
BY RunTyped, PTL

-----------------------------------------------------------------------------
\* Why acceptance is seldom lost.  Only a pass completes a run, and it ends the
\* loop; a stop for the guard is seen by the next turn, which offers no way to
\* an answer; and a direct answer is one of a run that has called no tool, which
\* has nothing to show for a contract that blocks on anything.
CompleteEnds == phase = "complete" => pc \in {"finalize", "done"}

GuardEnds ==
    stopReason = "guard" =>
        \/ pc \in {"turn", "batch", "observed"} \cup LicencePCs
        \/ pc = "model" /\ turn = "recovery"
        \/ pc \in {"finalize", "done"} /\ phase # "complete"

Contracted == blockingChecks = {} \/ MutationCheck \in blockingChecks
Unwritten ==
    toolsUsed = 0 => recorded = {} /\ satisfiedChecks[MutationCheck] = {}

Unseen == toolsUsed = 0 /\ blockingChecks = {}
DirectIsToolless ==
    /\ pc \in {"proposed", "direct"} => toolsUsed = 0
    /\ pc \in {"finalize", "done"} /\ phase = "complete" /\ ~answerOK => Unseen

AcceptInv ==
    /\ CompleteEnds /\ GuardEnds /\ DirectIsToolless
    /\ pc = "finalize" /\ phase = "complete" => status = "done"
    /\ CompleteIsDoneUnless

LEMMA AcceptInit == RunInit => AcceptInv /\ Contracted /\ Unwritten
<1>1. RunInit => AcceptInv /\ Contracted
  BY DEF RunInit, BuildTaskContract, Init, AcceptInv, CompleteEnds, GuardEnds,
         DirectIsToolless, CompleteIsDoneUnless, Contracted
<1>2. RunInit => Unwritten
  BY NoEvidenceFacts, RunChecksAssumption DEF RunInit, Init, Unwritten
<1> QED BY <1>1, <1>2

\* The contract in force keeps what it blocks on.
LEMMA ContractedNext ==
    ASSUME Contracted, RecordedOK, [RunNext]_runVars PROVE Contracted'
<1>1. [Next]_machineVars
  BY RunStepIsMachineStep
<1>2. UNCHANGED blockingChecks
  BY <1>1
  DEF Next, ContractValidated, PlanAccepted, ActionStarted, ActionSucceeded,
      ObservationRecorded, ActionFailed, RepairReady, RepairConcluded,
      VerificationRequested, VerificationPassed, VerificationFailed,
      ApprovalRequired, ApprovalGranted, ApprovalDenied, Blocked, Cancelled,
      Failed, Rebase, End, Move, contractVars, machineVars
<1> QED BY <1>2 DEF Contracted

\* The tool budget is never given back, and only a call that uses it up records.
LEMMA ToolsCounted ==
    ASSUME RunTypeOK, [RunNext]_runVars, toolsUsed' = 0
    PROVE  toolsUsed = 0 /\ UNCHANGED recorded
<1> USE RunLimitsAssumption DEF RunTypeOK, Use, counters, workVars
<1>1. CASE Outside \/ UNCHANGED runVars
  BY <1>1 DEF Outside, StopAgent, TimePasses, OutsideEdit, runVars
<1>2. CASE Turning
  BY <1>2
  DEF Turning, TurnCancelled, BeginTurn, RetryInference, ModelFails, ClosingReply,
      ModelCallsTools, AutoContinue, Escalate, TryEscalation, GiveUp, Answer, DirectAnswer,
      AskForPlan, ProposalRejected, DirectFails
<1>3. CASE Batching
  BY <1>3
  DEF Batching, EndBatch, OverBudgetCall, TurnAway, RefuseTool,
      ApprovalUnavailable, SkipCall, RunOutsideActing, Ran
<1>4. CASE Running
  <2>1. CASE RecordObservation
    BY <2>1 DEF RecordObservation
  <2>2. CASE ~RecordObservation
    <3>1. toolsUsed' = toolsUsed + 1
      BY <1>4, <2>2 DEF Running, RunUncontrolled, RunFails, RunSucceeds, Ran
    <3> QED BY <3>1
  <2> QED BY <2>1, <2>2
<1>5. CASE Judging \/ Passing
  BY <1>5
  DEF Judging, Passing, ReviewBlocks, ProjectBlocks, AnswerBlocks, PassRefused,
      PassesScreened, DirectPasses, ReviewFrame
<1>6. CASE ValidateContract \/ WaivePlan \/ NoApprovalNeeded \/ EnterControlApproval
             \/ Approve \/ Deny \/ ConfirmCancelled \/ Finalize
             \/ \E tool \in Tools : PrepareTool(tool)
  BY <1>6
  DEF ValidateContract, WaivePlan, NoApprovalNeeded, EnterControlApproval, Approve,
      Deny, ConfirmCancelled, Denied, Finalize, PrepareTool
<1>7. CASE ConcludeRepair \/ RequestControlVerification
  BY <1>7 DEF ConcludeRepair, RequestControlVerification
<1> QED BY <1>1, <1>2, <1>3, <1>4, <1>5, <1>6, <1>7, RunSteps

LEMMA UnwrittenNext ==
    ASSUME RunTypeOK, Unwritten, [RunNext]_runVars PROVE Unwritten'
<1> SUFFICES ASSUME toolsUsed' = 0
             PROVE  recorded' = {} /\ satisfiedChecks'[MutationCheck] = {}
  BY DEF Unwritten
<1>1. recorded = {} /\ recorded' = {} /\ satisfiedChecks[MutationCheck] = {}
  BY ToolsCounted DEF Unwritten
<1>2. ASSUME NEW project
      PROVE  /\ ControlSatisfiedChecks(project)[MutationCheck] = {}
             /\ MergeSatisfiedChecks(ControlSatisfiedChecks(project))[MutationCheck] = {}
  BY <1>1, RunChecksAssumption DEF ControlSatisfiedChecks, MergeSatisfiedChecks
<1>3. CASE Judging
  BY <1>1, <1>2, <1>3, JudgingFacts DEF Blocked, End, VerificationFailed
<1>4. CASE Passing
  BY <1>1, <1>2, <1>4, PassingFacts DEF VerificationPassed
<1>5. CASE RunNext /\ ~Judging /\ ~Passing
  BY <1>1, <1>5, EvidenceMovers
<1>6. CASE UNCHANGED runVars
  BY <1>1, <1>6 DEF runVars, machineVars
<1> QED BY <1>3, <1>4, <1>5, <1>6

\* So a run without a tool call passes only what asks for nothing.
LEMMA ToollessPass ==
    ASSUME Contracted, Unwritten, toolsUsed = 0, NEW project,
           VerificationPassed(ControlSatisfiedChecks(project))
    PROVE  blockingChecks = {} /\ UNCHANGED blockingChecks
<1>1. MergeSatisfiedChecks(ControlSatisfiedChecks(project))[MutationCheck] = {}
  BY RunChecksAssumption
  DEF Unwritten, ControlSatisfiedChecks, MergeSatisfiedChecks
<1> QED
  BY <1>1 DEF Contracted, VerificationPassed, MissingBlockingChecks, contractVars

LEMMA AcceptNext ==
    ASSUME RunTypeOK, MachineInv, Contracted, Unwritten, AcceptInv, [RunNext]_runVars
    PROVE  AcceptInv'
<1> USE DEF AcceptInv, CompleteEnds, GuardEnds, DirectIsToolless,
            CompleteIsDoneUnless, Unseen, LicencePCs
<1>1. CASE Outside \/ UNCHANGED runVars
  BY <1>1
  DEF Outside, StopAgent, TimePasses, OutsideEdit, runVars, machineVars, turnVars,
      counters, workVars, envVars
<1>2. CASE Turning
  <2> USE DEF machineVars, turnVars, counters, Return, Stop
  <2>1. CASE TurnCancelled \/ ModelFails \/ ModelCallsTools \/ AutoContinue
               \/ RetryInference \/ \E ok \in BOOLEAN : Answer(ok) \/ DirectAnswer(ok)
    BY <2>1
    DEF TurnCancelled, ModelFails, ModelCallsTools, AutoContinue, RetryInference,
        Answer, DirectAnswer, DirectTurn, Closing
  <2>2. CASE \E broken \in BOOLEAN, routing \in Routings : BeginTurn(broken, routing)
    BY <2>2 DEF BeginTurn, TurnFor
  <2>3. CASE ClosingReply \/ GiveUp \/ Escalate
    BY <2>3 DEF ClosingReply, GiveUp, Escalate, TryEscalation, Closing
  <2>4. CASE AskForPlan \/ ProposalRejected \/ DirectFails
    BY <2>4 DEF AskForPlan, ProposalRejected, DirectFails, PlanMissing
  <2> QED BY <1>2, <2>1, <2>2, <2>3, <2>4 DEF Turning
<1>3. CASE Batching
  <2> USE DEF machineVars, turnVars, counters, Stop, Use
  <2>1. CASE EndBatch \/ OverBudgetCall
    BY <2>1, RunLimitsAssumption DEF EndBatch, OverBudgetCall
  <2>2. CASE (\E stops \in BOOLEAN : TurnAway(stops))
               \/ (\E tool \in Tools : RefuseTool(tool))
    BY <2>2 DEF TurnAway, RefuseTool, StartCall
  <2>3. CASE ApprovalUnavailable \/ RunOutsideActing
               \/ (\E stops \in BOOLEAN : SkipCall(stops))
    BY <2>3 DEF ApprovalUnavailable, SkipCall, RunOutsideActing, Ran
  <2> QED BY <1>3, <2>1, <2>2, <2>3 DEF Batching
<1>4. CASE Running
  <2> USE DEF machineVars, turnVars, counters, Ran, Use
  <2>1. CASE \E plans \in BOOLEAN : RunUncontrolled(plans)
    BY <2>1 DEF RunUncontrolled, PlanAccepted
  <2>2. CASE RunFails \/ RunSucceeds
    <3>1. /\ pc = "cleared" /\ pc' \in {"batch", "observed"}
          /\ toolsUsed' = toolsUsed + 1 /\ phase' \in {"repairing", "observing"}
          /\ UNCHANGED <<stopReason, status, answerOK, offered, turn>>
      BY <2>2 DEF RunFails, RunSucceeds, ActionFailed, ActionSucceeded, Move
    <3> QED BY <3>1
  <2>3. CASE RecordObservation
    BY <2>3 DEF RecordObservation, ObservationRecorded, Move
  <2> QED BY <1>4, <2>1, <2>2, <2>3 DEF Running
<1>5. CASE Judging
  <2> USE DEF turnVars, Return, Stop, ReviewFrame, Repair, BlockRun,
              VerificationFailed, Blocked, End
  <2>1. CASE \E review \in {"blocking", "inconclusive"} : ReviewBlocks(review)
    BY <2>1 DEF ReviewBlocks
  <2>2. CASE ProjectBlocks \/ AnswerBlocks
    BY <2>2 DEF ProjectBlocks, AnswerBlocks
  <2>3. CASE \E project \in {"pass", "none"} : PassRefused(project)
    BY <2>3 DEF PassRefused
  <2> QED BY <1>5, <2>1, <2>2, <2>3 DEF Judging
<1>6. CASE Passing
  <2>1. CASE \E project \in {"pass", "none"} : PassesScreened(project)
    BY <2>1
    DEF PassesScreened, PassControlVerification, ReviewFrame, Return, turnVars
  <2>2. CASE \E project \in {"pass", "none"} : DirectPasses(project)
    <3>1. toolsUsed = 0 /\ blockingChecks = {} /\ UNCHANGED <<toolsUsed, blockingChecks>>
      BY <2>2, ToollessPass DEF DirectPasses, PassControlVerification, ReviewFrame
    <3> QED
      BY <2>2, <3>1
      DEF DirectPasses, PassControlVerification, ReviewFrame, Return, turnVars
  <2> QED BY <1>6, <2>1, <2>2 DEF Passing
<1>7. CASE ValidateContract \/ WaivePlan
  BY <1>7
  DEF ValidateContract, WaivePlan, ContractValidated, PlanAccepted, Move, turnVars,
      counters
<1>8. CASE \E tool \in Tools : PrepareTool(tool)
  BY <1>8 DEF PrepareTool, StartCall, RepairReady, Move, machineVars, turnVars, counters
<1>9. CASE NoApprovalNeeded \/ EnterControlApproval \/ Approve
  BY <1>9
  DEF NoApprovalNeeded, EnterControlApproval, Approve, ApprovalRequired,
      ApprovalGranted, ActivePhases, machineVars, turnVars, counters
<1>10. CASE Deny \/ ConfirmCancelled
  BY <1>10
  DEF Deny, ConfirmCancelled, Denied, ApprovalDenied, End, Stop, Use, turnVars, counters
<1>11. CASE ConcludeRepair \/ RequestControlVerification
  BY <1>11
  DEF ConcludeRepair, RequestControlVerification, RepairConcluded,
      VerificationRequested, Move, turnVars, counters
<1>12. CASE Finalize
  BY <1>12
  DEF Finalize, FinalStatus, BlockingStopReasons, Terminal, TerminalPhases, Blocked,
      Cancelled, Failed, End, machineVars, turnVars, counters, workVars, envVars
<1> QED
  BY <1>1, <1>2, <1>3, <1>4, <1>5, <1>6, <1>7, <1>8, <1>9, <1>10, <1>11, <1>12,
     RunSteps

\* A run the machine accepts is saved as done but for the reasons that come
\* after acceptance or that acceptance does not look at (the finalizer).
THEOREM AcceptanceIsKept == RunSpec => []CompleteIsDoneUnless
<1>1. AcceptInv => CompleteIsDoneUnless
  BY DEF AcceptInv
<1>2. RunSpec => []RecordedOK
  BY RecordedInit, RecordedNext, PTL DEF RunSpec
<1>3. RunSpec => [](Contracted /\ Unwritten)
  BY <1>2, RunTyped, AcceptInit, ContractedNext, UnwrittenNext, PTL DEF RunSpec
<1> QED
  BY <1>1, <1>3, RunTyped, RunMachineInv, AcceptInit, AcceptNext, PTL DEF RunSpec

-----------------------------------------------------------------------------
\* The loop's next event is one the machine accepts: whoever asked for an
\* approval, an observation or a verification finds the phase it left behind.
InStep ==
    /\ pc = "start" => phase = "intake"
    /\ pc = "waive" => phase = "planning"
    /\ pc = "confirm" => phase = "awaiting_approval"
    /\ pc = "observed" => phase = "observing"
    /\ pc = "proposed" => phase \in {"acting", "observing", "repairing"}
    /\ pc \in {"review", "direct"} => phase = "verifying"

LEMMA InStepNext ==
    ASSUME InStep, [RunNext]_runVars PROVE InStep'
<1> USE DEF InStep
<1>1. CASE UNCHANGED <<machineVars, pc>>
  BY <1>1 DEF machineVars
<1>2. CASE Turning \/ Batching \/ Judging \/ Passing
  BY <1>2, TurningFacts, BatchingFacts, JudgingFacts, PassingFacts DEF machineVars
<1>3. CASE Running
  <2>1. CASE RunSucceeds
    BY <2>1 DEF RunSucceeds, ActionSucceeded, Move
  <2>2. CASE RunFails \/ RecordObservation \/ \E plans \in BOOLEAN : RunUncontrolled(plans)
    BY <2>2 DEF RunFails, RecordObservation, RunUncontrolled
  <2> QED BY <1>3, <2>1, <2>2 DEF Running
<1>4. CASE ValidateContract \/ WaivePlan \/ NoApprovalNeeded \/ EnterControlApproval
             \/ Approve \/ Deny \/ ConfirmCancelled \/ Finalize
  BY <1>4
  DEF ValidateContract, WaivePlan, NoApprovalNeeded, EnterControlApproval, Approve,
      Deny, ConfirmCancelled, Denied, Finalize, ContractValidated, ApprovalRequired, Move
<1>5. CASE ConcludeRepair \/ RequestControlVerification
  BY <1>5
  DEF ConcludeRepair, RequestControlVerification, RepairConcluded,
      VerificationRequested, Move
<1>6. CASE \E tool \in Tools : PrepareTool(tool)
  BY <1>6 DEF PrepareTool
<1> QED
  BY <1>1, <1>2, <1>3, <1>4, <1>5, <1>6, RunSteps, OutsideFacts DEF runVars

\* The machine never refuses an event the loop relies on: validation, the waived
\* plan, an approval's answer, an observation and a verdict all find the phase
\* they need (applyControlEvent and its callers).
THEOREM EventsFindTheirPhase == RunSpec => []InStep
<1>1. RunInit => InStep
  BY DEF RunInit, Init, InStep
<1> QED BY <1>1, InStepNext, PTL DEF RunSpec

-----------------------------------------------------------------------------
\* StepsHere is a natural number that every step of a run which is over lowers,
\* but for a retry of the backend, which StepsLeft counts.
LEMMA RoomIsNat ==
    /\ RunTypeOK => Room \in Nat /\ Room <= 5 * MaxToolCalls + 1
    /\ RunTypeOK' => Room' \in Nat
BY RunLimitsAssumption DEF RunTypeOK, Room

StepsTable ==
    /\ pc = "done" => StepsHere = 0
    /\ pc = "finalize" => StepsHere = 1
    /\ pc = "turn" => StepsHere = 3
    /\ pc \in {"waive", "review"} => StepsHere = 4
    /\ pc = "start" => StepsHere = 5
    /\ pc = "answer" => StepsHere = IF phase = "repairing" THEN 6 ELSE 5
    /\ pc = "proposed" => StepsHere = Room + (IF phase = "repairing" THEN 9 ELSE 8)
    /\ pc = "direct" => StepsHere = Room + 7
    /\ pc = "observed" => StepsHere = Room + 5
    /\ pc = "cleared" => StepsHere = Room + 1
    /\ pc = "confirm" => StepsHere = Room + 2
    /\ pc = "prepared" => StepsHere = Room + 3
    /\ pc = "batch" => StepsHere = Room + 4
    /\ pc = "model" => StepsHere = IF Closing THEN 2 ELSE Room + 10

LEMMA StepsHereAt == StepsTable /\ StepsTable'
<1>1. StepsTable
  BY DEF StepsTable, StepsHere
<1> QED BY <1>1, PTL

LEMMA StepsHereIsNat ==
    ASSUME RunTypeOK PROVE StepsHere \in 0..(5 * MaxToolCalls + 11)
<1>1. /\ Room \in Nat /\ Room <= 5 * MaxToolCalls + 1 /\ MaxToolCalls \in Nat
  BY RoomIsNat, RunLimitsAssumption
<1>2. pc \in {"done", "finalize", "turn", "waive", "review", "start", "answer"}
        => StepsHere \in 0..6
  BY StepsHereAt DEF StepsTable
<1>3. pc \in {"observed", "cleared", "confirm", "prepared", "batch", "model",
              "proposed", "direct"}
        => StepsHere = 2 \/ \E n \in 1..10 : StepsHere = Room + n
  BY StepsHereAt DEF StepsTable
<1> QED BY <1>1, <1>2, <1>3 DEF RunTypeOK

StepsHereNat == RunTypeOK => StepsHere \in Nat

LEMMA StepsHereInNat == StepsHereNat /\ StepsHereNat'
<1>1. StepsHereNat
  BY StepsHereIsNat DEF StepsHereNat
<1> QED BY <1>1, PTL

LEMMA TurningDown ==
    ASSUME RunTypeOK, RunTypeOK', Over, Turning, ~RetryInference
    PROVE  StepsHere' < StepsHere
<1> USE RoomIsNat, StepsHereAt DEF StepsTable
<1>1. CASE TurnCancelled \/ ModelFails \/ ClosingReply \/ GiveUp \/ ProposalRejected
  <2>1. pc \in {"turn", "model", "answer"} /\ pc' = "finalize"
    BY <1>1 DEF TurnCancelled, ModelFails, ClosingReply, GiveUp, ProposalRejected, Return
  <2> QED BY <2>1
<1>2. ASSUME NEW broken \in BOOLEAN, NEW routing \in Routings, BeginTurn(broken, routing)
      PROVE  StepsHere' < StepsHere
  <2>1. pc = "turn" /\ pc' = "model" /\ turn' \in {"recovery", "time"}
    BY <1>2 DEF BeginTurn, TurnFor, Over
  <2> QED BY <2>1 DEF Closing
<1>3. CASE AutoContinue \/ AskForPlan \/ \E ok \in BOOLEAN : Answer(ok)
  <2>1. \/ pc = "model" /\ ~Closing /\ pc' \in {"turn", "answer"}
        \/ pc = "answer" /\ pc' = "turn"
    BY <1>3 DEF AutoContinue, AskForPlan, Answer
  <2> QED BY <2>1
<1>4. CASE ModelCallsTools \/ Escalate \/ DirectFails
  <2>1. /\ (pc = "model" /\ ~Closing) \/ pc = "direct"
        /\ pc' \in {"batch", "turn", "answer"} /\ Room' = Room
    BY <1>4
    DEF ModelCallsTools, Escalate, TryEscalation, DirectFails, Closing, Room
  <2> QED BY <2>1
<1>5. CASE \E ok \in BOOLEAN : DirectAnswer(ok)
  <2>1. pc = "model" /\ ~Closing /\ pc' = "proposed" /\ Room' = Room
    BY <1>5 DEF DirectAnswer, DirectTurn, Closing, Room
  <2> QED BY <2>1
<1> QED BY <1>1, <1>2, <1>3, <1>4, <1>5 DEF Turning

\* What a call uses of the budget is more than its steps; a stop reason is
\* given once.
LEMMA UseTakesRoom ==
    ASSUME RunTypeOK, RunTypeOK', Use, Stop("guard") \/ Stop("other") \/ UNCHANGED stopReason
    PROVE  Room' <= Room - 5 /\ Room' \in Nat /\ Room \in Nat
BY RoomIsNat, RunLimitsAssumption DEF RunTypeOK, Room, Use, Stop

LEMMA BatchingDown ==
    ASSUME RunTypeOK, RunTypeOK', Batching
    PROVE  StepsHere' < StepsHere \/ UNCHANGED runVars
<1> USE RoomIsNat, StepsHereAt DEF StepsTable
<1>1. CASE EndBatch
  BY <1>1 DEF EndBatch
<1>2. CASE OverBudgetCall
  <2>1. CASE stopReason = "none"
    <3>1. Room' = Room - 1
      BY <1>2, <2>1, RunLimitsAssumption DEF OverBudgetCall, Stop, Room, RunTypeOK
    <3> QED BY <1>2, <3>1 DEF OverBudgetCall
  <2>2. CASE stopReason # "none"
    BY <1>2, <2>2 DEF OverBudgetCall, Stop, runVars
  <2> QED BY <2>1, <2>2
<1>3. CASE \/ \E stops \in BOOLEAN : TurnAway(stops) \/ SkipCall(stops)
           \/ \E tool \in Tools : RefuseTool(tool)
           \/ ApprovalUnavailable \/ RunOutsideActing
  <2>1. /\ pc \in {"batch", "prepared", "cleared"} /\ pc' = "batch" /\ Use
        /\ Stop("guard") \/ Stop("other") \/ UNCHANGED stopReason
    BY <1>3
    DEF TurnAway, RefuseTool, StartCall, ApprovalUnavailable, SkipCall,
        RunOutsideActing, Ran
  <2> QED BY <2>1, UseTakesRoom
<1> QED BY <1>1, <1>2, <1>3 DEF Batching

LEMMA RunningDown ==
    ASSUME RunTypeOK, RunTypeOK', Running PROVE StepsHere' < StepsHere
<1> USE RoomIsNat, StepsHereAt DEF StepsTable
<1>1. CASE RecordObservation
  <2>1. Room' = Room
    BY <1>1 DEF RecordObservation, Room
  <2> QED BY <1>1, <2>1 DEF RecordObservation
<1>2. CASE RunFails \/ RunSucceeds \/ \E plans \in BOOLEAN : RunUncontrolled(plans)
  <2>1. pc = "cleared" /\ pc' \in {"batch", "observed"} /\ Use /\ UNCHANGED stopReason
    BY <1>2 DEF RunFails, RunSucceeds, RunUncontrolled, Ran
  <2> QED BY <2>1, UseTakesRoom
<1> QED BY <1>1, <1>2 DEF Running

LEMMA CallDown ==
    ASSUME RunTypeOK, RunTypeOK',
           \/ \E tool \in Tools : PrepareTool(tool)
           \/ NoApprovalNeeded \/ EnterControlApproval \/ Approve
           \/ Deny \/ ConfirmCancelled
    PROVE  StepsHere' < StepsHere
<1> USE RoomIsNat, StepsHereAt DEF StepsTable
<1>1. CASE Deny \/ ConfirmCancelled
  <2>1. pc = "confirm" /\ pc' = "batch" /\ Use /\ Stop("guard")
    BY <1>1 DEF Deny, ConfirmCancelled, Denied
  <2> QED BY <2>1, UseTakesRoom
<1>2. CASE ~(Deny \/ ConfirmCancelled)
  <2>1. /\ Room' = Room
        /\ \/ pc = "batch" /\ pc' = "prepared"
           \/ pc = "prepared" /\ pc' \in {"cleared", "confirm"}
           \/ pc = "confirm" /\ pc' = "cleared"
    BY <1>2 DEF PrepareTool, StartCall, NoApprovalNeeded, EnterControlApproval, Approve, Room
  <2> QED BY <2>1
<1> QED BY <1>1, <1>2

LEMMA VerdictDown ==
    ASSUME RunTypeOK, RunTypeOK',
           \/ Judging \/ Passing \/ ValidateContract \/ WaivePlan \/ Finalize
           \/ ConcludeRepair \/ RequestControlVerification
    PROVE  StepsHere' < StepsHere
<1> USE RoomIsNat, StepsHereAt DEF StepsTable
<1>1. CASE Judging \/ Passing
  BY <1>1, JudgingFacts, PassingFacts
<1>2. CASE ValidateContract \/ WaivePlan \/ Finalize
  BY <1>2 DEF ValidateContract, WaivePlan, Finalize
<1>3. CASE ConcludeRepair \/ RequestControlVerification
  <2>1. Room' = Room
    BY <1>3 DEF ConcludeRepair, RequestControlVerification, Room
  <2> QED
    BY <1>3, <2>1
    DEF ConcludeRepair, RepairConcluded, Move, RequestControlVerification
<1> QED BY <1>1, <1>2, <1>3

\* The backend is asked again a bounded number of times, and only RetryInference
\* does so.
LEMMA RetriesKept ==
    ASSUME RunNext, ~RetryInference PROVE inferenceRetries' = inferenceRetries
<1>1. CASE Outside \/ Turning
  BY <1>1
  DEF Outside, StopAgent, TimePasses, OutsideEdit, Turning, TurnCancelled,
      BeginTurn, ModelFails, ClosingReply, ModelCallsTools, AutoContinue, Escalate,
      TryEscalation,
      GiveUp, Answer, DirectAnswer, AskForPlan, ProposalRejected, DirectFails,
      counters
<1>2. CASE Batching \/ Running
  BY <1>2
  DEF Batching, EndBatch, OverBudgetCall, TurnAway, RefuseTool, ApprovalUnavailable,
      SkipCall, RunOutsideActing, Running, RunUncontrolled, RunFails, RunSucceeds,
      RecordObservation, Ran, counters
<1>3. CASE Judging \/ Passing
  BY <1>3
  DEF Judging, ReviewBlocks, ProjectBlocks, AnswerBlocks, PassRefused, Passing,
      PassesScreened, DirectPasses, ReviewFrame
<1>4. CASE \/ ValidateContract \/ WaivePlan \/ NoApprovalNeeded
           \/ \E tool \in Tools : PrepareTool(tool)
           \/ EnterControlApproval \/ Approve \/ Deny \/ ConfirmCancelled
           \/ ConcludeRepair \/ RequestControlVerification \/ Finalize
  BY <1>4
  DEF ValidateContract, WaivePlan, NoApprovalNeeded, PrepareTool,
      EnterControlApproval, Approve, Deny, ConfirmCancelled, Denied, ConcludeRepair,
      RequestControlVerification, Finalize, counters
<1> QED BY <1>1, <1>2, <1>3, <1>4, RunSteps

LEMMA StepsLeftAt ==
    /\ StepsLeft = StepsHere + 2 * (MaxInferenceRetries - inferenceRetries)
    /\ StepsLeft' = StepsHere' + 2 * (MaxInferenceRetries - inferenceRetries')
BY DEF StepsLeft

LEMMA StepsLeftIsNat ==
    ASSUME RunTypeOK
    PROVE  StepsLeft \in 0..(5 * MaxToolCalls + 11 + 2 * MaxInferenceRetries)
BY StepsHereIsNat, StepsLeftAt, RunLimitsAssumption DEF RunTypeOK

\* Once a run is stopped or out of time, nothing but the world around it moves
\* without bringing it nearer to its end, failing backends included: with
\* scheduling and calls that return, which TLC's StopEndsRun has by its
\* assumptions, that is why it ends (runAgentLoop).
THEOREM OverRunsDown == RunSpec => RunsDown
<1> DEFINE Down ==
      Over => \/ StepsLeft' < StepsLeft
              \/ UNCHANGED <<machineVars, pc, turnVars, call, toolsUsed, counters,
                             stopReason, status, answerOK, recorded, docOwed, sealed>>
<1>1. ASSUME RunTypeOK, RunTypeOK', [RunNext]_runVars PROVE [Down]_runVars
  <2>1. CASE Outside
    BY <2>1 DEF Outside, StopAgent, TimePasses, OutsideEdit, workVars
  <2>2. CASE UNCHANGED runVars
    BY <2>2
  <2>3. StepsHere \in Nat /\ StepsHere' \in Nat
    BY <1>1, StepsHereInNat DEF StepsHereNat
  <2>4. CASE RetryInference
    <3>1. /\ inferenceRetries' = inferenceRetries + 1
          /\ pc = "model" /\ pc' = "turn"
      BY <2>4 DEF RetryInference
    <3>2. StepsHere' = 3 /\ StepsHere >= 2
      BY <1>1, <3>1, RoomIsNat, StepsHereAt DEF StepsTable
    <3> QED BY <1>1, <2>3, <3>1, <3>2, StepsLeftAt, RunLimitsAssumption DEF RunTypeOK
  <2>5. ASSUME RunNext, ~RetryInference, StepsHere' < StepsHere
        PROVE  StepsLeft' < StepsLeft
    <3>1. inferenceRetries' = inferenceRetries
      BY <2>5, RetriesKept
    <3>2. /\ inferenceRetries \in Nat /\ MaxInferenceRetries \in Nat
          /\ inferenceRetries <= MaxInferenceRetries
      BY <1>1, RunLimitsAssumption DEF RunTypeOK
    <3>3. PICK k \in Nat : k = 2 * (MaxInferenceRetries - inferenceRetries)
      BY <3>2
    <3>4. StepsLeft = StepsHere + k /\ StepsLeft' = StepsHere' + k
      BY <3>1, <3>3, StepsLeftAt
    <3> QED BY <2>3, <2>5, <3>3, <3>4
  <2>6. CASE RunNext /\ ~RetryInference /\ ~Outside /\ Over
    <3>1. StepsHere' < StepsHere \/ UNCHANGED runVars
      BY <1>1, <2>6, RunSteps, TurningDown, BatchingDown, RunningDown, CallDown,
         VerdictDown
    <3> QED BY <2>2, <2>5, <2>6, <3>1
  <2> QED BY <1>1, <2>1, <2>2, <2>4, <2>6
<1> QED BY <1>1, RunTypeCorrect, PTL DEF RunSpec, RunsDown

\* The bound: when a run is stopped or out of time, its loop takes no more than
\* five steps for each call left of the tool budget, eleven, and two for each
\* retry of the backend.
THEOREM StepsAreBounded ==
    RunSpec => [](StepsLeft \in 0..(5 * MaxToolCalls + 11 + 2 * MaxInferenceRetries))
BY RunTypeCorrect, StepsLeftIsNat, PTL
=============================================================================
