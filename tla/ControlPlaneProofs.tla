------------------------- MODULE ControlPlaneProofs -------------------------
(***************************************************************************)
(* Proofs about the control-plane machine, for every set of checks and     *)
(* evidence ids and any number of contract revisions.  The invariants are  *)
(* proved together: each is the reason another is preserved.               *)
(***************************************************************************)
EXTENDS ControlPlane, TLAPS

\* The inductive invariant.  What a granted approval resumes is known only
\* from ResumeOnlyWhileAwaiting, and whether it may from PlanPrecedesWork.
MachineInv ==
    /\ MachineTypeOK
    /\ CompletionOwnsEvidence
    /\ PlanPrecedesWork
    /\ ResumeOnlyWhileAwaiting
    /\ EvidenceOnlyForBlocking

\* Merging evidence yields an evidence map that keeps what was held and adds
\* nothing for a check the contract does not block on.
LEMMA MergeFacts ==
    ASSUME MachineTypeOK, NEW evidence \in EvidenceMaps
    PROVE  /\ MergeSatisfiedChecks(evidence) \in EvidenceMaps
           /\ \A c \in Checks :
                satisfiedChecks[c] \subseteq MergeSatisfiedChecks(evidence)[c]
           /\ \A c \in Checks \ blockingChecks :
                MergeSatisfiedChecks(evidence)[c] = satisfiedChecks[c]
BY DEF MachineTypeOK, EvidenceMaps, MergeSatisfiedChecks

\* Every event that only moves the phase, between two phases that stand on
\* the same side of the plan, preserves the invariant.
LEMMA MoveInv ==
    ASSUME MachineInv, NEW from \in SUBSET (Phases \ TerminalPhases),
           NEW to \in Phases \ {"complete", "awaiting_approval"},
           "awaiting_approval" \notin from,
           to \in WorkPhases => from \subseteq WorkPhases,
           Move(from, to)
    PROVE  MachineInv'
<1> USE DEF MachineInv, Move, contractVars
<1>1. MachineTypeOK'
  BY DEF MachineTypeOK, Phases
<1>2. CompletionOwnsEvidence'
  BY DEF CompletionOwnsEvidence
<1>3. ResumeOnlyWhileAwaiting'
  BY DEF ResumeOnlyWhileAwaiting
<1>4. PlanPrecedesWork'
  BY DEF PlanPrecedesWork, Working, ResumeOnlyWhileAwaiting, NoPhase, WorkPhases
<1>5. EvidenceOnlyForBlocking'
  BY DEF EvidenceOnlyForBlocking
<1> QED BY <1>1, <1>2, <1>3, <1>4, <1>5

\* So does every event that ends the run.
LEMMA EndInv ==
    ASSUME MachineInv, NEW to \in {"blocked", "cancelled", "failed"}, End(to)
    PROVE  MachineInv'
<1> USE DEF MachineInv, End, contractVars
<1>1. MachineTypeOK'
  BY DEF MachineTypeOK, Phases, TerminalPhases
<1>2. CompletionOwnsEvidence' /\ EvidenceOnlyForBlocking'
  BY DEF CompletionOwnsEvidence, EvidenceOnlyForBlocking
<1>3. PlanPrecedesWork' /\ ResumeOnlyWhileAwaiting'
  BY DEF PlanPrecedesWork, Working, WorkPhases, ResumeOnlyWhileAwaiting, NoPhase
<1> QED BY <1>1, <1>2, <1>3

\* A verification, passed or failed, preserves the invariant.
LEMMA VerificationInv ==
    ASSUME MachineInv, NEW evidence \in EvidenceMaps,
           VerificationPassed(evidence) \/ VerificationFailed(evidence)
    PROVE  MachineInv'
<1> USE DEF MachineInv, VerificationPassed, VerificationFailed, contractVars
<1>1. /\ satisfiedChecks' = MergeSatisfiedChecks(evidence)
      /\ UNCHANGED <<resumePhase, planAccepted, planRequired, blockingChecks,
                     contractRevision>>
      /\ phase = "verifying"
      /\ phase' \in {"complete", "repairing"}
  OBVIOUS
<1>2. MachineTypeOK'
  BY <1>1, MergeFacts DEF MachineTypeOK, Phases, ActivePhases, TerminalPhases
<1>3. CompletionOwnsEvidence'
  BY <1>1 DEF CompletionOwnsEvidence, MissingBlockingChecks
<1>4. PlanPrecedesWork' /\ ResumeOnlyWhileAwaiting'
  BY <1>1 DEF PlanPrecedesWork, Working, WorkPhases, ResumeOnlyWhileAwaiting
<1>5. EvidenceOnlyForBlocking'
  BY <1>1, MergeFacts DEF EvidenceOnlyForBlocking
<1> QED BY <1>2, <1>3, <1>4, <1>5

\* Holding nothing is an evidence map, with nothing in it.
LEMMA NoEvidenceFacts ==
    NoEvidence \in EvidenceMaps /\ \A c \in Checks : NoEvidence[c] = {}
BY DEF NoEvidence, EvidenceMaps

LEMMA MachineInvInit == Init => MachineInv
<1> SUFFICES ASSUME Init PROVE MachineInv
  OBVIOUS
<1> USE DEF Init
<1>1. MachineTypeOK
  <2>1. contractRevision \in 1..MaxContract
    BY MaxContractAssumption
  <2>2. satisfiedChecks \in EvidenceMaps
    BY NoEvidenceFacts
  <2> QED BY <2>1, <2>2 DEF MachineTypeOK, Phases
<1>2. CompletionOwnsEvidence /\ PlanPrecedesWork /\ ResumeOnlyWhileAwaiting
  BY DEF CompletionOwnsEvidence, PlanPrecedesWork, Working, WorkPhases,
         ResumeOnlyWhileAwaiting, NoPhase
<1>3. EvidenceOnlyForBlocking
  BY NoEvidenceFacts DEF EvidenceOnlyForBlocking
<1> QED BY <1>1, <1>2, <1>3 DEF MachineInv

LEMMA MachineInvNext == MachineInv /\ [Next]_machineVars => MachineInv'
<1> SUFFICES ASSUME MachineInv, [Next]_machineVars PROVE MachineInv'
  OBVIOUS
<1>1. CASE ContractValidated
  BY <1>1, MoveInv DEF ContractValidated, Phases, ActivePhases, TerminalPhases, WorkPhases
<1>2. CASE ActionStarted
  BY <1>2, MoveInv DEF ActionStarted, Phases, ActivePhases, TerminalPhases, WorkPhases
<1>3. CASE ActionSucceeded
  BY <1>3, MoveInv DEF ActionSucceeded, Phases, ActivePhases, TerminalPhases, WorkPhases
<1>4. CASE ObservationRecorded
  BY <1>4, MoveInv DEF ObservationRecorded, Phases, ActivePhases, TerminalPhases, WorkPhases
<1>5. CASE ActionFailed
  BY <1>5, MoveInv DEF ActionFailed, Phases, ActivePhases, TerminalPhases, WorkPhases
<1>6. CASE RepairReady
  BY <1>6, MoveInv DEF RepairReady, Phases, ActivePhases, TerminalPhases, WorkPhases
<1>7. CASE RepairConcluded
  BY <1>7, MoveInv DEF RepairConcluded, Phases, ActivePhases, TerminalPhases, WorkPhases
<1>8. CASE VerificationRequested
  BY <1>8, MoveInv DEF VerificationRequested, Phases, ActivePhases, TerminalPhases, WorkPhases
<1>9. CASE PlanAccepted
  <2> USE <1>9 DEF PlanAccepted, contractVars, MachineInv
  <2>1. MachineTypeOK'
    BY DEF MachineTypeOK, Phases, ActivePhases
  <2>2. CompletionOwnsEvidence' /\ EvidenceOnlyForBlocking' /\ PlanPrecedesWork'
    BY DEF CompletionOwnsEvidence, EvidenceOnlyForBlocking, PlanPrecedesWork
  <2>3. ResumeOnlyWhileAwaiting'
    BY DEF ResumeOnlyWhileAwaiting
  <2> QED BY <2>1, <2>2, <2>3
<1>10. CASE \E evidence \in EvidenceMaps :
              VerificationPassed(evidence) \/ VerificationFailed(evidence)
  BY <1>10, VerificationInv
<1>11. CASE ApprovalRequired
  <2> USE <1>11 DEF ApprovalRequired, contractVars, MachineInv
  <2>1. MachineTypeOK'
    BY DEF MachineTypeOK, Phases, ActivePhases
  <2>2. CompletionOwnsEvidence' /\ EvidenceOnlyForBlocking'
    BY DEF CompletionOwnsEvidence, EvidenceOnlyForBlocking
  <2>3. PlanPrecedesWork' /\ ResumeOnlyWhileAwaiting'
    BY DEF PlanPrecedesWork, Working, WorkPhases, ActivePhases,
           ResumeOnlyWhileAwaiting, NoPhase
  <2> QED BY <2>1, <2>2, <2>3
<1>12. CASE ApprovalGranted
  <2> USE <1>12 DEF ApprovalGranted, contractVars, MachineInv
  <2>1. MachineTypeOK'
    BY DEF MachineTypeOK, Phases, ActivePhases
  <2>2. CompletionOwnsEvidence' /\ EvidenceOnlyForBlocking'
    BY DEF CompletionOwnsEvidence, EvidenceOnlyForBlocking, ActivePhases
  <2>3. PlanPrecedesWork' /\ ResumeOnlyWhileAwaiting'
    BY DEF PlanPrecedesWork, Working, WorkPhases, ActivePhases,
           ResumeOnlyWhileAwaiting, NoPhase
  <2> QED BY <2>1, <2>2, <2>3
<1>13. CASE ApprovalDenied \/ Blocked \/ Cancelled \/ Failed
  BY <1>13, EndInv DEF ApprovalDenied, Blocked, Cancelled, Failed
<1>14. CASE Rebase
  <2> USE <1>14 DEF Rebase, MachineInv
  <2>1. MachineTypeOK'
    <3>1. contractRevision' \in 1..MaxContract
      BY MaxContractAssumption DEF MachineTypeOK
    <3>2. satisfiedChecks' \in EvidenceMaps
      BY NoEvidenceFacts
    <3> QED BY <3>1, <3>2 DEF MachineTypeOK, Phases, ActivePhases
  <2>2. CompletionOwnsEvidence' /\ EvidenceOnlyForBlocking'
    BY NoEvidenceFacts DEF CompletionOwnsEvidence, EvidenceOnlyForBlocking
  <2>3. PlanPrecedesWork' /\ ResumeOnlyWhileAwaiting'
    BY DEF PlanPrecedesWork, Working, WorkPhases, ResumeOnlyWhileAwaiting, NoPhase
  <2> QED BY <2>1, <2>2, <2>3
<1>15. CASE UNCHANGED machineVars
  BY <1>15
  DEF machineVars, MachineInv, MachineTypeOK, CompletionOwnsEvidence,
      MissingBlockingChecks, PlanPrecedesWork, Working,
      ResumeOnlyWhileAwaiting, EvidenceOnlyForBlocking
<1> QED
  BY <1>1, <1>2, <1>3, <1>4, <1>5, <1>6, <1>7, <1>8, <1>9, <1>10, <1>11,
     <1>12, <1>13, <1>14, <1>15 DEF Next

\* The machine always holds values of its types (machine.go Validate).
THEOREM MachineTypeCorrect == Spec => []MachineTypeOK
<1>1. MachineInv => MachineTypeOK BY DEF MachineInv
<1> QED BY <1>1, MachineInvInit, MachineInvNext, PTL DEF Spec

\* A run whose phase is complete holds evidence for every blocking check of
\* the contract in force (machine.go VerificationPassed).
THEOREM CompletionIsEvidenceOwned == Spec => []CompletionOwnsEvidence
<1>1. MachineInv => CompletionOwnsEvidence BY DEF MachineInv
<1> QED BY <1>1, MachineInvInit, MachineInvNext, PTL DEF Spec

\* No phase that works on the user's files is reached, directly or through an
\* approval, without an accepted plan (machine.go PlanAccepted, Rebase).
THEOREM NoWorkWithoutPlan == Spec => []PlanPrecedesWork
<1>1. MachineInv => PlanPrecedesWork BY DEF MachineInv
<1> QED BY <1>1, MachineInvInit, MachineInvNext, PTL DEF Spec

\* An approval that is denied, cancelled or overtaken by a rebase leaves no
\* phase behind to return to (machine.go ResumePhase).
THEOREM ResumeIsForgotten == Spec => []ResumeOnlyWhileAwaiting
<1>1. MachineInv => ResumeOnlyWhileAwaiting BY DEF MachineInv
<1> QED BY <1>1, MachineInvInit, MachineInvNext, PTL DEF Spec

\* Whatever evidence verifications bring, only what the contract blocks on is
\* kept (machine.go mergeSatisfiedChecks).
THEOREM EvidenceIsAskedFor == Spec => []EvidenceOnlyForBlocking
<1>1. MachineInv => EvidenceOnlyForBlocking BY DEF MachineInv
<1> QED BY <1>1, MachineInvInit, MachineInvNext, PTL DEF Spec

-----------------------------------------------------------------------------
\* What one event does to the evidence, and to the phase that matters outside.
\* Every action but a verification and a rebase leaves the evidence alone.
LEMMA EvidenceSteps ==
    ASSUME MachineInv, [Next]_machineVars
    PROVE  \/ /\ UNCHANGED <<satisfiedChecks, blockingChecks, contractRevision>>
              /\ phase' # "complete" \/ phase' = phase
              /\ Terminal => phase' = phase
           \/ \E evidence \in EvidenceMaps :
                VerificationPassed(evidence) \/ VerificationFailed(evidence)
           \/ Rebase
<1>1. CASE ContractValidated \/ ActionStarted \/ ActionSucceeded
           \/ ObservationRecorded \/ ActionFailed \/ RepairReady
           \/ RepairConcluded \/ VerificationRequested
  BY <1>1
  DEF ContractValidated, ActionStarted, ActionSucceeded, ObservationRecorded,
      ActionFailed, RepairReady, RepairConcluded, VerificationRequested, Move,
      contractVars, Terminal, TerminalPhases
<1>2. CASE PlanAccepted \/ ApprovalRequired \/ ApprovalGranted
  BY <1>2
  DEF PlanAccepted, ApprovalRequired, ApprovalGranted, contractVars, Terminal,
      TerminalPhases, ActivePhases
<1>3. CASE ApprovalDenied \/ Blocked \/ Cancelled \/ Failed
  BY <1>3
  DEF ApprovalDenied, Blocked, Cancelled, Failed, End, contractVars, Terminal
<1>4. CASE UNCHANGED machineVars
  BY <1>4 DEF machineVars
<1> QED BY <1>1, <1>2, <1>3, <1>4 DEF Next

\* No event takes evidence away while the contract stays in force: only a
\* rebase does, onto a later revision (machine.go VerificationFailed, Rebase).
THEOREM EvidenceIsKept == Spec => EvidenceKept
<1> DEFINE Kept == contractRevision' = contractRevision =>
                     \A c \in Checks : satisfiedChecks[c] \subseteq satisfiedChecks'[c]
<1>1. ASSUME MachineInv, [Next]_machineVars PROVE [Kept]_machineVars
  <2>1. CASE \E evidence \in EvidenceMaps :
               VerificationPassed(evidence) \/ VerificationFailed(evidence)
    BY <1>1, <2>1, MergeFacts
    DEF VerificationPassed, VerificationFailed, MachineInv
  <2>2. CASE Rebase
    BY <1>1, <2>2 DEF Rebase, MachineInv, MachineTypeOK
  <2> QED BY <1>1, <2>1, <2>2, EvidenceSteps
<1> QED BY <1>1, MachineInvInit, MachineInvNext, PTL DEF Spec, EvidenceKept

\* The machine implements the acceptance gate: whatever the events, the run
\* is settled once, and accepted only with every required check proven.
THEOREM MachineImplementsGate == Spec => ImplementsGate
<1> DEFINE Proven == {c \in blockingChecks : satisfiedChecks[c] # {}}
<1>1. Init => Gate!Init
  BY NoEvidenceFacts DEF Init, Gate!Init, Outcome, Terminal, TerminalPhases
<1>2. ASSUME MachineInv, [Next]_machineVars PROVE [Gate!Next]_Gate!gateVars
  <2>1. CASE /\ UNCHANGED <<satisfiedChecks, blockingChecks, contractRevision>>
             /\ phase' # "complete" \/ phase' = phase
             /\ Terminal => phase' = phase
    <3>1. UNCHANGED Outcome \/ (Outcome = "open" /\ Outcome' = "refused")
      BY <2>1 DEF Outcome, Terminal, TerminalPhases
    <3>2. UNCHANGED Proven
      BY <2>1
    <3> QED BY <2>1, <3>1, <3>2 DEF Gate!Next, Gate!Refuse, Gate!gateVars
  <2>2. ASSUME NEW evidence \in EvidenceMaps, VerificationPassed(evidence)
        PROVE  Gate!Accept
    BY <1>2, <2>2
    DEF VerificationPassed, contractVars, Gate!Accept, Outcome, Terminal,
        TerminalPhases, MissingBlockingChecks
  <2>3. ASSUME NEW evidence \in EvidenceMaps, VerificationFailed(evidence)
        PROVE  Gate!Prove
    <3>1. Outcome = "open" /\ Outcome' = "open"
      BY <2>3 DEF VerificationFailed, Outcome, Terminal, TerminalPhases
    <3>2. Proven \subseteq Proven' /\ UNCHANGED blockingChecks
      BY <1>2, <2>3, MergeFacts DEF VerificationFailed, contractVars, MachineInv, MachineTypeOK
    <3> QED BY <3>1, <3>2 DEF Gate!Prove
  <2>4. CASE Rebase
    <3>1. Outcome = "open" /\ Outcome' = "open"
      BY <2>4 DEF Rebase, Outcome, Terminal, TerminalPhases
    <3>2. Proven' = {} /\ UNCHANGED blockingChecks
      BY <1>2, <2>4, NoEvidenceFacts DEF Rebase, MachineInv, MachineTypeOK
    <3> QED BY <3>1, <3>2 DEF Gate!Restart, Gate!Next
  <2> QED BY <1>2, <2>1, <2>2, <2>3, <2>4, EvidenceSteps DEF Gate!Next
<1> QED
  BY <1>1, <1>2, MachineInvInit, MachineInvNext, PTL DEF Spec, ImplementsGate, Gate!Spec

=============================================================================
