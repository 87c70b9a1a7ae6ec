---------------------------- MODULE ControlPlane ----------------------------
(***************************************************************************)
(* The authoritative control state of one run: MachineState and its two    *)
(* operations, Apply and Rebase (internal/controlplane/machine.go).  One   *)
(* action per control event.  An event the machine refuses returns the old *)
(* state and an error: it is the absence of a step here.                   *)
(*                                                                         *)
(* Left out: timestamps, details, the machine's own revision counter       *)
(* (stamped on every accepted event and read by no guard), and contract    *)
(* digests.  A revised contract must name the active one as its parent and *)
(* carry a greater revision, which a single number tells apart.            *)
(***************************************************************************)
EXTENDS Naturals

CONSTANTS
    Checks,         \* ids of the acceptance checks a contract may hold
    Evidence,       \* evidence ids: file hashes, command verdicts
    MaxContract     \* bound: revisions of the task contract in one run

ASSUME MaxContractAssumption == MaxContract \in Nat \ {0}

VARIABLES
    phase,              \* MachineState.Phase
    resumePhase,        \* MachineState.ResumePhase, NoPhase when empty
    planRequired,       \* MachineState.PlanRequired
    planAccepted,       \* MachineState.PlanAccepted
    blockingChecks,     \* MachineState.BlockingCheckIDs
    satisfiedChecks,    \* MachineState.SatisfiedChecks
    contractRevision    \* MachineState.ContractRevision

contractVars == <<planRequired, blockingChecks, contractRevision>>
machineVars ==
    <<phase, resumePhase, planRequired, planAccepted, blockingChecks,
      satisfiedChecks, contractRevision>>

NoPhase == "none"
TerminalPhases == {"complete", "blocked", "cancelled", "failed"}
ActivePhases == {"planning", "acting", "repairing"}
Phases ==
    {"intake", "observing", "verifying", "awaiting_approval"}
        \cup ActivePhases \cup TerminalPhases

EvidenceMaps == [Checks -> SUBSET Evidence]
NoEvidence == [c \in Checks |-> {}]

Terminal == phase \in TerminalPhases

-----------------------------------------------------------------------------
\* What a verification adds to the evidence held: ids of checks the contract
\* does not block on are dropped.  (Mutant: evidence replaces what was held.)
MergeReplacing(evidence) ==
    [c \in Checks |-> IF c \in blockingChecks THEN evidence[c] ELSE {}]
MergeSatisfiedChecks(evidence) ==
    [c \in Checks |->
        IF c \in blockingChecks THEN satisfiedChecks[c] \cup evidence[c]
                                ELSE satisfiedChecks[c]]

\* The blocking checks without evidence.  (Mutant: one proven check will do.)
MissingIfNoneProven(satisfied) ==
    {c \in blockingChecks : \A d \in blockingChecks : satisfied[d] = {}}
MissingBlockingChecks(satisfied) == {c \in blockingChecks : satisfied[c] = {}}

\* CheckTool for the tools it controls; every other tool is always allowed.
ControlledTools == {"read", "write", "edit", "shell"}
CheckTool(tool) ==
    tool \in ControlledTools =>
        \/ tool = "read" /\ phase \in ActivePhases
        \/ phase = "acting" /\ (planRequired => planAccepted)

-----------------------------------------------------------------------------
Init ==
    /\ phase = "intake"
    /\ resumePhase = NoPhase
    /\ planRequired \in BOOLEAN
    /\ planAccepted = FALSE
    /\ blockingChecks \in SUBSET Checks
    /\ satisfiedChecks = NoEvidence
    /\ contractRevision = 1

\* An event that only moves the phase.
Move(from, to) ==
    /\ phase \in from
    /\ phase' = to
    /\ UNCHANGED <<resumePhase, planAccepted, satisfiedChecks, contractVars>>

ContractValidated   == Move({"intake"}, "planning")
ActionStarted       == Move({"acting"}, "acting")
ActionSucceeded     == Move({"acting"}, "observing")
ObservationRecorded == Move({"observing"}, "acting")
ActionFailed        == Move({"acting", "observing"}, "repairing")
RepairReady         == Move({"repairing"}, "acting")
RepairConcluded     == Move({"repairing"}, "acting")

VerificationRequested == Move({"acting", "observing"}, "verifying")

PlanAccepted ==
    /\ phase = "planning"
    /\ phase' = "acting"
    /\ planAccepted' = TRUE
    /\ UNCHANGED <<resumePhase, satisfiedChecks, contractVars>>

\* Passing is refused while a blocking check has no evidence at all, and a
\* refused pass keeps none of the evidence it brought.
VerificationPassed(evidence) ==
    LET merged == MergeSatisfiedChecks(evidence) IN
    /\ phase = "verifying"
    /\ MissingBlockingChecks(merged) = {}
    /\ phase' = "complete"
    /\ satisfiedChecks' = merged
    /\ UNCHANGED <<resumePhase, planAccepted, contractVars>>

VerificationFailed(evidence) ==
    /\ phase = "verifying"
    /\ phase' = "repairing"
    /\ satisfiedChecks' = MergeSatisfiedChecks(evidence)
    /\ UNCHANGED <<resumePhase, planAccepted, contractVars>>

ApprovalRequired ==
    /\ phase \in ActivePhases
    /\ resumePhase' = phase
    /\ phase' = "awaiting_approval"
    /\ UNCHANGED <<planAccepted, satisfiedChecks, contractVars>>

\* (Mutant: approval always leads to acting.)
ApprovalGrantedActing ==
    /\ phase = "awaiting_approval"
    /\ phase' = "acting"
    /\ resumePhase' = NoPhase
    /\ UNCHANGED <<planAccepted, satisfiedChecks, contractVars>>
ApprovalGranted ==
    /\ phase = "awaiting_approval"
    /\ resumePhase \in ActivePhases
    /\ phase' = resumePhase
    /\ resumePhase' = NoPhase
    /\ UNCHANGED <<planAccepted, satisfiedChecks, contractVars>>

\* The four events that end a run from any phase that is not terminal.
\* (Mutant: the phase to resume is not forgotten.)
EndKeepingResume(to) ==
    /\ ~Terminal
    /\ phase' = to
    /\ UNCHANGED <<resumePhase, planAccepted, satisfiedChecks, contractVars>>
End(to) ==
    /\ ~Terminal
    /\ phase' = to
    /\ resumePhase' = NoPhase
    /\ UNCHANGED <<planAccepted, satisfiedChecks, contractVars>>

ApprovalDenied == End("blocked")
Blocked        == End("blocked")
Cancelled      == End("cancelled")
Failed         == End("failed")

\* Rebase onto the contract ReviseTaskContract makes: next revision, same
\* plan policy and acceptance checks, nothing proven, back to planning.
Rebase ==
    /\ ~Terminal
    /\ contractRevision < MaxContract
    /\ contractRevision' = contractRevision + 1
    /\ phase' = "planning"
    /\ resumePhase' = NoPhase
    /\ planAccepted' = FALSE
    /\ satisfiedChecks' = NoEvidence
    /\ UNCHANGED <<planRequired, blockingChecks>>

Next ==
    \/ ContractValidated
    \/ PlanAccepted
    \/ ActionStarted
    \/ ActionSucceeded
    \/ ObservationRecorded
    \/ ActionFailed
    \/ RepairReady
    \/ RepairConcluded
    \/ VerificationRequested
    \/ \E evidence \in EvidenceMaps : VerificationPassed(evidence)
    \/ \E evidence \in EvidenceMaps : VerificationFailed(evidence)
    \/ ApprovalRequired
    \/ ApprovalGranted
    \/ ApprovalDenied
    \/ Blocked
    \/ Cancelled
    \/ Failed
    \/ Rebase

Spec == Init /\ [][Next]_machineVars

-----------------------------------------------------------------------------
\* The machine's variables hold values of their types.
MachineTypeOK ==
    /\ phase \in Phases
    /\ resumePhase \in ActivePhases \cup {NoPhase}
    /\ planRequired \in BOOLEAN
    /\ planAccepted \in BOOLEAN
    /\ blockingChecks \in SUBSET Checks
    /\ satisfiedChecks \in EvidenceMaps
    /\ contractRevision \in 1..MaxContract

\* A run is complete only with evidence for every blocking check of the
\* contract in force, whatever detours (approvals, failed verifications,
\* revisions of the contract) led there (machine.go VerificationPassed).
CompletionOwnsEvidence ==
    phase = "complete" => MissingBlockingChecks(satisfiedChecks) = {}

\* The phases in which the run works on the user's files or has its work
\* judged: an approval pending from one of them belongs to it.
WorkPhases == {"acting", "observing", "verifying", "repairing", "complete"}
Working == phase \in WorkPhases \/ resumePhase \in WorkPhases

\* Work happens only under an accepted plan of the contract in force.  An
\* approval asked for while planning must not come back as an accepted plan,
\* and a revised contract needs a new one (machine.go PlanAccepted, Rebase).
PlanPrecedesWork == Working => planAccepted

\* A phase to resume is remembered exactly while an approval is pending: a
\* run that is denied, cancelled, failed or rebased meanwhile forgets it.
ResumeOnlyWhileAwaiting ==
    (resumePhase # NoPhase) <=> (phase = "awaiting_approval")

\* Evidence for a check the contract does not block on is never kept.
EvidenceOnlyForBlocking ==
    \A c \in Checks \ blockingChecks : satisfiedChecks[c] = {}

\* Under one contract revision evidence only accumulates: a verification that
\* fails, or an approval, a repair or an abort, takes none of it away.
EvidenceKept ==
    [][contractRevision' = contractRevision =>
        \A c \in Checks : satisfiedChecks[c] \subseteq satisfiedChecks'[c]
      ]_machineVars

\* The machine implements the abstract gate: complete is its acceptance, the
\* other terminal phases its refusal, evidence held its proofs.
Outcome ==
    IF phase = "complete" THEN "accepted"
    ELSE IF Terminal THEN "refused" ELSE "open"

Gate ==
    INSTANCE AcceptanceGate WITH
        outcome <- Outcome,
        required <- blockingChecks,
        proven <- {c \in blockingChecks : satisfiedChecks[c] # {}}

ImplementsGate == Gate!Spec
=============================================================================
