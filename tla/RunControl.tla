----------------------------- MODULE RunControl -----------------------------
(***************************************************************************)
(* One agent run: runAgentLoop (internal/app/app.go) driving the control   *)
(* plane through the helpers of internal/app/control_plane.go, with the    *)
(* user, the clock and the workspace as the other actors.  Every control   *)
(* event the loop applies is a step of ControlPlane taken together with    *)
(* the loop's own next step, so cancellation, approval answers and edits   *)
(* to the file can fall between any two of them.                           *)
(*                                                                         *)
(* The model (LLM) is a source of arbitrary replies.  One workspace file   *)
(* stands for the deliverable; its contents are values, so a file may get  *)
(* contents it had before, as a file with the same hash.  "write" stands   *)
(* for write and edit.  Of the tools the control plane leaves alone "look" *)
(* stands for those that planning keeps (glob, grep, memory, skill, ...),  *)
(* and "other" for the rest.  A reply that only changes the reasoning      *)
(* effort is a batch that ends with no call made.                          *)
(***************************************************************************)
EXTENDS ControlPlane

CONSTANTS
    Contents,           \* contents the file may be given during the run
    Absent, Verdict,    \* a file that cannot be read; a passing verify verdict
    Routings,           \* the tool sets task routing may advertise in a turn
    MaxToolCalls,       \* Agents.MaxToolCalls
    MaxAutoContinues,   \* maxAutoContinues
    MaxEscalations,     \* maxEscalationsPerRun
    MaxInferenceRetries,\* maxPreOutputInferenceRetries
    MaxReviewCycles     \* Agents.ReviewLoop.MaxReviewCycles

MutationCheck == "mutation_postcondition"
ProjectCheck == "project_verification"

ASSUME RunChecksAssumption == Checks = {MutationCheck, ProjectCheck}
ASSUME RunEvidenceAssumption ==
    /\ Evidence = Contents \cup {Verdict}
    /\ Absent \notin Contents
    /\ Verdict \notin Contents
ASSUME RunLimitsAssumption ==
    /\ MaxToolCalls \in Nat \ {0}
    /\ MaxAutoContinues \in Nat
    /\ MaxEscalations \in Nat
    /\ MaxInferenceRetries \in Nat
    /\ MaxReviewCycles \in Nat

VARIABLES
    pc,             \* where the loop's goroutine stands
    turn,           \* what this turn may do: see BeginTurn
    offered,        \* the tools advertised to the model this turn
    call,           \* the tool call being handled, NoCall between calls
    toolsUsed,      \* len(run.Tools), counted up to MaxToolCalls
    autoContinues, escalations, inferenceRetries, reviewCycles,
    stopReason,     \* the class of run.StopReason
    status,         \* finalStatus
    answerOK,       \* the final summary would pass invalidDoneReason
    file,           \* contents of the deliverable now
    recorded,       \* contents some control_evidence event fingerprinted
    sealed,         \* contents of run.FinalizedArtifacts
    docOwed,        \* a document was asked for and no write has been done
    cancelled,      \* the run's context is cancelled
    timeUp          \* MaxRunSeconds have passed

turnVars == <<turn, offered>>
counters == <<autoContinues, escalations, inferenceRetries, reviewCycles>>
workVars == <<file, recorded, docOwed>>
envVars == <<cancelled, timeUp>>
runVars ==
    <<machineVars, pc, turnVars, call, toolsUsed, counters, stopReason, status,
      answerOK, workVars, sealed, envVars>>

Tools == {"todo_write", "read", "look", "write", "shell", "other"}
PlanningTools == {"todo_write", "read", "look"}
Destructive == {"write", "shell", "other"}
NoCall == "none"
FileStates == Contents \cup {Absent}
ASSUME RoutingsAssumption == Routings \subseteq SUBSET Tools
StopReasons == {"none", "tool_budget", "guard", "other"}
BlockingStopReasons == {"tool_budget", "guard"}

\* run.stop: the first reason wins.
Stop(reason) ==
    stopReason' = IF stopReason = "none" THEN reason ELSE stopReason

\* Leave the loop: what follows is the deferred finalizer.
Return(s) == pc' = "finalize" /\ status' = s

-----------------------------------------------------------------------------
\* A contract for a concrete deliverable blocks on a mutation and, when the
\* project has verify commands, on them; other contracts block on nothing.
BuildTaskContract ==
    /\ blockingChecks \in {{}, {MutationCheck}, {MutationCheck, ProjectCheck}}
    /\ planRequired => MutationCheck \in blockingChecks

RunInit ==
    /\ Init
    /\ BuildTaskContract
    /\ pc = "start"
    /\ turn = "open" /\ offered = {} /\ call = NoCall
    /\ toolsUsed = 0 /\ autoContinues = 0 /\ escalations = 0
    /\ inferenceRetries = 0 /\ reviewCycles = 0
    /\ stopReason = "none" /\ status = "done" /\ answerOK = TRUE
    /\ file \in FileStates /\ recorded = {} /\ sealed = {}
    /\ docOwed \in BOOLEAN
    /\ cancelled = FALSE /\ timeUp = FALSE

\* initializeRunControlPlane: validate the contract, then accept the absent
\* plan of a contract that needs none.
ValidateContract ==
    /\ pc = "start"
    /\ ContractValidated
    /\ pc' = IF planRequired THEN "turn" ELSE "waive"
    /\ UNCHANGED <<turnVars, call, toolsUsed, counters, stopReason, status,
                   answerOK, workVars, sealed, envVars>>
WaivePlan ==
    /\ pc = "waive"
    /\ PlanAccepted
    /\ pc' = "turn"
    /\ UNCHANGED <<turnVars, call, toolsUsed, counters, stopReason, status,
                   answerOK, workVars, sealed, envVars>>

-----------------------------------------------------------------------------
\* While a required plan is missing, routing is cut down to the planning
\* tools, unless that would leave none.
ConstrainControlPlanningTools(routing) ==
    IF /\ phase = "planning" /\ planRequired /\ ~planAccepted
       /\ routing \cap PlanningTools # {}
    THEN routing \cap PlanningTools ELSE routing

TurnCancelled ==
    /\ pc = "turn"
    /\ cancelled
    /\ Return("stopped")
    /\ UNCHANGED <<machineVars, turnVars, call, toolsUsed, counters,
                   stopReason, answerOK, workVars, sealed, envVars>>

\* A turn is the one last report after a blocking stop, the summary after the
\* time or the tool budget ran out, or open; only an open one offers tools.
\* (Mutant: the clock is not looked at.)
TurnWithoutClock(reason) ==
    IF reason = "guard" THEN "recovery"
    ELSE IF toolsUsed = MaxToolCalls THEN "budget"
    ELSE "open"
TurnFor(reason) ==
    IF reason = "guard" THEN "recovery"
    ELSE IF timeUp THEN "time"
    ELSE IF toolsUsed = MaxToolCalls THEN "budget"
    ELSE "open"

\* broken: the loop circuit breaker pauses the run here.
BeginTurn(broken, routing) ==
    LET reason == IF broken THEN "guard" ELSE stopReason IN
    /\ pc = "turn"
    /\ ~cancelled
    /\ pc' = "model"
    /\ stopReason' = reason
    /\ turn' = TurnFor(reason)
    /\ offered' = IF turn' = "open"
                  THEN ConstrainControlPlanningTools(routing) ELSE {}
    /\ UNCHANGED <<machineVars, call, toolsUsed, counters, status, answerOK,
                   workVars, sealed, envVars>>

-----------------------------------------------------------------------------
\* The model's reply.
CanVerifyAtToolBudget ==
    /\ planRequired => planAccepted
    /\ phase \in {"acting", "observing", "repairing"}

\* (Mutant: the report after a blocking stop does not end the run.)
ClosingOnBudgets ==
    \/ turn = "time"
    \/ turn = "budget" /\ ~CanVerifyAtToolBudget
Closing ==
    \/ turn \in {"recovery", "time"}
    \/ turn = "budget" /\ ~CanVerifyAtToolBudget

\* A backend that fails before any output is asked again in a new turn, also
\* for the report of a closing one.
RetryInference ==
    /\ pc = "model"
    /\ ~cancelled
    /\ inferenceRetries < MaxInferenceRetries
    /\ inferenceRetries' = inferenceRetries + 1
    /\ pc' = "turn"
    /\ UNCHANGED <<machineVars, turnVars, call, toolsUsed, autoContinues,
                   escalations, reviewCycles, stopReason, status, answerOK,
                   workVars, sealed, envVars>>

\* Any other failure ends the run, and so does a retry that is cancelled.
ModelFails ==
    /\ pc = "model"
    /\ \/ cancelled /\ Return("stopped") /\ UNCHANGED stopReason
       \/ ~cancelled /\ Return("error") /\ stopReason' = "other"
    /\ UNCHANGED <<machineVars, turnVars, call, toolsUsed, counters, answerOK,
                   workVars, sealed, envVars>>

\* The text of a closing turn ends the run, whatever tool calls came with it.
ClosingReply ==
    /\ pc = "model"
    /\ Closing
    /\ Return("stopped")
    /\ CASE turn = "recovery" -> UNCHANGED stopReason
         [] turn = "time"     -> Stop("other")
         [] turn = "budget"   -> Stop("tool_budget")
    /\ UNCHANGED <<machineVars, turnVars, call, toolsUsed, counters, answerOK,
                   workVars, sealed, envVars>>

ModelCallsTools ==
    /\ pc = "model"
    /\ turn = "open"
    /\ pc' = "batch"
    /\ UNCHANGED <<machineVars, turnVars, call, toolsUsed, counters,
                   stopReason, status, answerOK, workVars, sealed, envVars>>

\* An empty, truncated, unfinished or malformed reply is retried.
AutoContinue ==
    /\ pc = "model"
    /\ ~Closing
    /\ autoContinues < MaxAutoContinues
    /\ autoContinues' = autoContinues + 1
    /\ pc' = "turn"
    /\ UNCHANGED <<machineVars, turnVars, call, toolsUsed, escalations,
                   inferenceRetries, reviewCycles, stopReason, status, answerOK,
                   workVars, sealed, envVars>>

\* Retries are spent: those of malformed tool calls, fewer and not counted
\* here, or all of them.
RetriesSpent == turn = "open" \/ autoContinues = MaxAutoContinues

\* A stronger profile answers instead, with tool calls or with nothing yet.
TryEscalation ==
    /\ escalations < MaxEscalations
    /\ escalations' = escalations + 1
    /\ autoContinues' = 0
    /\ pc' \in {"batch", "turn"}

Escalate ==
    /\ pc = "model"
    /\ ~Closing
    /\ RetriesSpent
    /\ TryEscalation
    /\ UNCHANGED <<machineVars, turnVars, call, toolsUsed, inferenceRetries,
                   reviewCycles, stopReason, status, answerOK, workVars, sealed,
                   envVars>>

GiveUp ==
    /\ pc = "model"
    /\ ~Closing
    /\ RetriesSpent
    /\ Return("stopped")
    /\ Stop("other")
    /\ UNCHANGED <<machineVars, turnVars, call, toolsUsed, counters, answerOK,
                   workVars, sealed, envVars>>

\* A finished answer: a proposal to complete the run.
Answer(ok) ==
    /\ pc = "model"
    /\ ~Closing
    /\ answerOK' = ok
    /\ pc' = "answer"
    /\ UNCHANGED <<machineVars, turnVars, call, toolsUsed, counters,
                   stopReason, status, workVars, sealed, envVars>>

-----------------------------------------------------------------------------
\* One batch of tool calls.  A call that was handled, run or not, uses the
\* tool budget up by one, except those beyond it.  (Mutant: it is not counted.)
UseNothing == toolsUsed' = toolsUsed
Use == toolsUsed' = toolsUsed + 1

\* (Mutant: the tool budget is not checked inside a batch.)
StartCallOverBudget(tool) ==
    /\ pc = "batch"
    /\ offered = {} \/ tool \in offered
StartCall(tool) ==
    /\ pc = "batch"
    /\ toolsUsed < MaxToolCalls
    /\ offered = {} \/ tool \in offered

EndBatch ==
    /\ pc = "batch"
    /\ pc' = "turn"
    /\ UNCHANGED <<machineVars, turnVars, call, toolsUsed, counters,
                   stopReason, status, answerOK, workVars, sealed, envVars>>

OverBudgetCall ==
    /\ pc = "batch"
    /\ toolsUsed = MaxToolCalls
    /\ Stop("tool_budget")
    /\ UNCHANGED <<machineVars, pc, turnVars, call, toolsUsed, counters,
                   status, answerOK, workVars, sealed, envVars>>

\* Turned away before the control plane saw it: not advertised this turn,
\* disabled, outside the agent mode's policy, aimed at a finalized artifact.
\* A repeat may raise a blocking stop.
TurnAway(stops) ==
    /\ pc = "batch"
    /\ toolsUsed < MaxToolCalls
    /\ Use
    /\ IF stops THEN Stop("guard") ELSE UNCHANGED stopReason
    /\ UNCHANGED <<machineVars, pc, turnVars, call, counters, status, answerOK,
                   workVars, sealed, envVars>>

\* prepareControlledTool, the machine's licence.  (Mutant: only reads need it.)
LicensedIfRead(tool) == tool = "read" => CheckTool(tool)
Licensed(tool) == CheckTool(tool)

\* prepareControlledTool.  A repair becomes an action when a controlled call
\* arrives, and otherwise the machine decides; starting an action from acting
\* leaves the phase as it is.
PrepareTool(tool) ==
    /\ StartCall(tool)
    /\ IF phase = "repairing" /\ tool \in ControlledTools
       THEN RepairReady
       ELSE Licensed(tool) /\ UNCHANGED machineVars
    /\ call' = tool
    /\ pc' = "prepared"
    /\ UNCHANGED <<turnVars, toolsUsed, counters, stopReason, status, answerOK,
                   workVars, sealed, envVars>>
RefuseTool(tool) ==
    /\ StartCall(tool)
    /\ phase # "repairing"
    /\ ~Licensed(tool)
    /\ Use
    /\ UNCHANGED <<machineVars, pc, turnVars, call, counters, stopReason,
                   status, answerOK, workVars, sealed, envVars>>

\* A prepared call needs no approval, waits for one, or cannot: there is no
\* approval to ask for once the run's control has ended or is verifying.
NoApprovalNeeded ==
    /\ pc = "prepared"
    /\ pc' = "cleared"
    /\ UNCHANGED <<machineVars, turnVars, call, toolsUsed, counters,
                   stopReason, status, answerOK, workVars, sealed, envVars>>
EnterControlApproval ==
    /\ pc = "prepared"
    /\ call \in Destructive
    /\ ApprovalRequired
    /\ pc' = "confirm"
    /\ UNCHANGED <<turnVars, call, toolsUsed, counters, stopReason, status,
                   answerOK, workVars, sealed, envVars>>
ApprovalUnavailable ==
    /\ pc = "prepared"
    /\ call \in Destructive
    /\ phase \notin ActivePhases
    /\ Stop("other")
    /\ Use
    /\ call' = NoCall
    /\ pc' = "batch"
    /\ UNCHANGED <<machineVars, turnVars, counters, status, answerOK, workVars,
                   sealed, envVars>>

\* The user's answers to awaitConfirm, and the cancellation that counts as a
\* denial.
Approve ==
    /\ pc = "confirm"
    /\ ApprovalGranted
    /\ pc' = "cleared"
    /\ UNCHANGED <<turnVars, call, toolsUsed, counters, stopReason, status,
                   answerOK, workVars, sealed, envVars>>
Denied ==
    /\ pc = "confirm"
    /\ ApprovalDenied
    /\ Stop("guard")
    /\ Use
    /\ call' = NoCall
    /\ pc' = "batch"
    /\ UNCHANGED <<turnVars, counters, status, answerOK, workVars, sealed, envVars>>
Deny == ~cancelled /\ Denied
\* (Mutant: only the user's answer ends the wait.)
ConfirmIgnoresCancel == FALSE /\ Denied
ConfirmCancelled == cancelled /\ Denied

\* Refused late by a tool budget, a recovery policy, the result cache or the
\* shell router: an action that was started is not taken.
SkipCall(stops) ==
    /\ pc = "cleared"
    /\ IF stops THEN Stop("guard") ELSE UNCHANGED stopReason
    /\ Use
    /\ call' = NoCall
    /\ pc' = "batch"
    /\ UNCHANGED <<machineVars, turnVars, counters, status, answerOK, workVars,
                   sealed, envVars>>

\* What running the call may leave in the file.
FileAfter(ok) ==
    IF call \in PlanningTools THEN {file}
    ELSE IF call = "write" THEN IF ok THEN Contents ELSE {file}
    ELSE FileStates

Ran ==
    /\ pc = "cleared"
    /\ Use
    /\ call' = NoCall
    /\ UNCHANGED <<turnVars, counters, stopReason, status, answerOK, sealed,
                   envVars>>

\* recordControlledToolOutcome, by its branches: an uncontrolled call, one of
\* which may bring the plan; a read outside acting; a failed action; and a
\* successful one, whose write is fingerprinted.
RunUncontrolled(plans) ==
    /\ Ran
    /\ call \notin ControlledTools
    /\ file' \in FileAfter(TRUE)
    /\ IF call = "todo_write" /\ plans /\ phase = "planning"
       THEN PlanAccepted ELSE UNCHANGED machineVars
    /\ pc' = "batch"
    /\ UNCHANGED <<recorded, docOwed>>
RunOutsideActing ==
    /\ Ran
    /\ call \in ControlledTools
    /\ phase # "acting"
    /\ pc' = "batch"
    /\ UNCHANGED <<machineVars, workVars>>
RunFails ==
    /\ Ran
    /\ call \in ControlledTools
    /\ file' \in FileAfter(FALSE)
    /\ ActionFailed
    /\ pc' = "batch"
    /\ UNCHANGED <<recorded, docOwed>>
RunSucceeds ==
    /\ Ran
    /\ call \in ControlledTools
    /\ file' \in FileAfter(TRUE)
    /\ recorded' = IF call = "write" THEN recorded \cup {file'} ELSE recorded
    /\ docOwed' = (docOwed /\ call # "write")
    /\ ActionSucceeded
    /\ pc' = "observed"
RecordObservation ==
    /\ pc = "observed"
    /\ ObservationRecorded
    /\ pc' = "batch"
    /\ UNCHANGED <<turnVars, call, toolsUsed, counters, stopReason, status,
                   answerOK, workVars, sealed, envVars>>

-----------------------------------------------------------------------------
\* requestControlVerification, for an answer given ("answer") and for a direct
\* one ("proposed").  A repair is concluded first, in a step of its own.
PlanMissing == phase = "planning" /\ planRequired /\ ~planAccepted

AskForPlan ==
    /\ pc = "answer"
    /\ PlanMissing
    /\ autoContinues < MaxAutoContinues
    /\ "todo_write" \in offered
    /\ autoContinues' = autoContinues + 1
    /\ pc' = "turn"
    /\ UNCHANGED <<machineVars, turnVars, call, toolsUsed, escalations,
                   inferenceRetries, reviewCycles, stopReason, status, answerOK,
                   workVars, sealed, envVars>>
ProposalRejected ==
    /\ pc = "answer"
    /\ phase \notin {"acting", "observing", "repairing"}
    /\ PlanMissing /\ autoContinues < MaxAutoContinues
         => "todo_write" \notin offered
    /\ Return("stopped")
    /\ Stop("other")
    /\ UNCHANGED <<machineVars, turnVars, call, toolsUsed, counters, answerOK,
                   workVars, sealed, envVars>>
ConcludeRepair ==
    /\ pc \in {"answer", "proposed"}
    /\ RepairConcluded
    /\ UNCHANGED <<pc, turnVars, call, toolsUsed, counters, stopReason, status,
                   answerOK, workVars, sealed, envVars>>
RequestControlVerification ==
    /\ pc \in {"answer", "proposed"}
    /\ VerificationRequested
    /\ pc' = IF pc = "answer" THEN "review" ELSE "direct"
    /\ UNCHANGED <<turnVars, call, toolsUsed, counters, stopReason, status,
                   answerOK, workVars, sealed, envVars>>

-----------------------------------------------------------------------------
\* Evidence the controller can show now: recorded mutations whose bytes are
\* still in the file, and a verify verdict when the commands passed.
\* (Mutant: the file is not hashed again.)
ControlSatisfiedFromMemory(project) ==
    [c \in Checks |->
        IF c \notin blockingChecks THEN {}
        ELSE IF c = MutationCheck THEN recorded
        ELSE IF project = "pass" THEN {Verdict} ELSE {}]
ControlSatisfiedChecks(project) ==
    [c \in Checks |->
        IF c \notin blockingChecks THEN {}
        ELSE IF c = MutationCheck THEN recorded \cap {file}
        ELSE IF project = "pass" THEN {Verdict} ELSE {}]

\* ensureControlVerification: the project's verify commands pass, fail or are
\* no longer there; contracts without the project check run none.
ProjectOutcomes ==
    IF ProjectCheck \in blockingChecks THEN {"pass", "fail", "none"} ELSE {"none"}

\* runReviewPhase; skipped once the tool budget is spent.
ReviewOutcomes ==
    IF turn = "open" THEN {"clean", "blocking", "inconclusive"} ELSE {"clean"}

\* One more repair cycle, or the end of the run when the cycles are used up.
RepairCycles == IF MaxReviewCycles = 0 THEN 1 ELSE MaxReviewCycles

Repair ==
    /\ VerificationFailed(ControlSatisfiedChecks("none"))
    /\ reviewCycles' = reviewCycles + 1
    /\ pc' = "turn"
    /\ UNCHANGED <<status, stopReason>>

BlockRun ==
    /\ Blocked
    /\ Return("stopped")
    /\ Stop("other")
    /\ UNCHANGED reviewCycles

ReviewFrame ==
    UNCHANGED <<turnVars, call, toolsUsed, autoContinues, escalations,
                inferenceRetries, answerOK, workVars, envVars>>

\* The review gate blocks.
ReviewBlocks(review) ==
    /\ pc = "review"
    /\ review \in ReviewOutcomes \ {"clean"}
    /\ IF review = "blocking" /\ reviewCycles < MaxReviewCycles
       THEN Repair ELSE BlockRun
    /\ UNCHANGED sealed
    /\ ReviewFrame

\* The gate is content but the controller's own run of the commands is not.
ProjectBlocks ==
    /\ pc = "review"
    /\ "fail" \in ProjectOutcomes
    /\ IF reviewCycles < RepairCycles THEN Repair ELSE BlockRun
    /\ UNCHANGED sealed
    /\ ReviewFrame

\* Nothing blocks, but the answer itself is no completion.
AnswerBlocks ==
    /\ pc = "review"
    /\ ~answerOK
    /\ IF reviewCycles < RepairCycles
       THEN Repair
       ELSE /\ VerificationFailed(ControlSatisfiedChecks("none"))
            /\ Return("stopped")
            /\ Stop("other")
            /\ UNCHANGED reviewCycles
    /\ UNCHANGED sealed
    /\ ReviewFrame

\* passControlVerification: complete the run and seal what it fingerprinted.
PassControlVerification(project) ==
    /\ VerificationPassed(ControlSatisfiedChecks(project))
    /\ sealed' = ControlSatisfiedChecks(project)[MutationCheck]
    /\ Return("done")
    /\ UNCHANGED <<stopReason, reviewCycles>>

PassesScreened(project) ==
    /\ pc = "review"
    /\ project \in ProjectOutcomes \ {"fail"}
    /\ answerOK
    /\ PassControlVerification(project)
    /\ ReviewFrame

\* The machine refuses to pass: some blocking check has no evidence.
PassRefused(project) ==
    /\ pc = "review"
    /\ project \in ProjectOutcomes \ {"fail"}
    /\ answerOK
    /\ MissingBlockingChecks(MergeSatisfiedChecks(ControlSatisfiedChecks(project))) # {}
    /\ IF reviewCycles < RepairCycles THEN Repair ELSE BlockRun
    /\ UNCHANGED sealed
    /\ ReviewFrame

\* A conversational answer given in a turn without tools, also in one after a
\* failed verification, is verified at once, with no review and no screen of the
\* answer; when that fails it is treated as any other reply, the phase left
\* verifying.
DirectTurn == turn = "open" /\ offered = {} /\ toolsUsed = 0

DirectAnswer(ok) ==
    /\ pc = "model"
    /\ DirectTurn
    /\ phase \in {"acting", "observing", "repairing"}
    /\ answerOK' = ok
    /\ pc' = "proposed"
    /\ UNCHANGED <<machineVars, turnVars, call, toolsUsed, counters,
                   stopReason, status, workVars, sealed, envVars>>
DirectPasses(project) ==
    /\ pc = "direct"
    /\ project \in ProjectOutcomes \ {"fail"}
    /\ PassControlVerification(project)
    /\ ReviewFrame
DirectFails ==
    /\ pc = "direct"
    /\ blockingChecks # {}
    /\ \/ pc' = "answer" /\ UNCHANGED <<autoContinues, escalations>>
       \/ /\ autoContinues < MaxAutoContinues
          /\ autoContinues' = autoContinues + 1
          /\ pc' = "turn"
          /\ UNCHANGED escalations
       \/ autoContinues = MaxAutoContinues /\ TryEscalation
    /\ UNCHANGED <<machineVars, turnVars, call, toolsUsed, inferenceRetries,
                   reviewCycles, stopReason, status, answerOK,
                   workVars, sealed, envVars>>

-----------------------------------------------------------------------------
\* The deferred finalizer: what the run is saved as, then what its control
\* state ends as if nothing ended it before.  (Mutant: a run the loop called
\* done is taken at its word.)
FinalStatusTrusting == IF cancelled THEN "stopped" ELSE status
FinalStatus ==
    IF \/ cancelled
       \/ status = "done" /\ (stopReason \in BlockingStopReasons \/ docOwed \/ ~answerOK)
    THEN "stopped" ELSE status

Finalize ==
    /\ pc = "finalize"
    /\ IF Terminal THEN UNCHANGED machineVars
       ELSE IF FinalStatus = "done" THEN Blocked
       ELSE IF cancelled THEN Cancelled
       ELSE IF FinalStatus = "error" THEN Failed
       ELSE Blocked
    /\ status' = IF ~Terminal /\ FinalStatus = "done" THEN "stopped" ELSE FinalStatus
    /\ pc' = "done"
    /\ UNCHANGED <<turnVars, call, toolsUsed, counters, stopReason, answerOK,
                   workVars, sealed, envVars>>

-----------------------------------------------------------------------------
\* The rest of the world: StopAgent, the clock, and whoever else edits files.
StopAgent ==
    /\ pc # "done"
    /\ ~cancelled
    /\ cancelled' = TRUE
    /\ UNCHANGED <<machineVars, pc, turnVars, call, toolsUsed, counters,
                   stopReason, status, answerOK, workVars, sealed, timeUp>>
TimePasses ==
    /\ pc # "done"
    /\ ~timeUp
    /\ timeUp' = TRUE
    /\ UNCHANGED <<machineVars, pc, turnVars, call, toolsUsed, counters,
                   stopReason, status, answerOK, workVars, sealed, cancelled>>
OutsideEdit ==
    /\ pc # "done"
    /\ file' \in FileStates
    /\ UNCHANGED <<machineVars, pc, turnVars, call, toolsUsed, counters,
                   stopReason, status, answerOK, recorded, docOwed, sealed, envVars>>

Loop ==
    \/ ValidateContract
    \/ WaivePlan
    \/ TurnCancelled
    \/ \E broken \in BOOLEAN, routing \in Routings : BeginTurn(broken, routing)
    \/ RetryInference
    \/ ModelFails
    \/ ClosingReply
    \/ ModelCallsTools
    \/ AutoContinue
    \/ Escalate
    \/ GiveUp
    \/ \E ok \in BOOLEAN : Answer(ok)
    \/ \E ok \in BOOLEAN : DirectAnswer(ok)
    \/ EndBatch
    \/ OverBudgetCall
    \/ \E stops \in BOOLEAN : TurnAway(stops)
    \/ \E tool \in Tools : PrepareTool(tool)
    \/ \E tool \in Tools : RefuseTool(tool)
    \/ NoApprovalNeeded
    \/ EnterControlApproval
    \/ ApprovalUnavailable
    \/ ConfirmCancelled
    \/ \E stops \in BOOLEAN : SkipCall(stops)
    \/ \E plans \in BOOLEAN : RunUncontrolled(plans)
    \/ RunOutsideActing
    \/ RunFails
    \/ RunSucceeds
    \/ RecordObservation
    \/ AskForPlan
    \/ ProposalRejected
    \/ ConcludeRepair
    \/ RequestControlVerification
    \/ \E review \in {"blocking", "inconclusive"} : ReviewBlocks(review)
    \/ ProjectBlocks
    \/ AnswerBlocks
    \/ \E project \in {"pass", "none"} : PassesScreened(project)
    \/ \E project \in {"pass", "none"} : PassRefused(project)
    \/ \E project \in {"pass", "none"} : DirectPasses(project)
    \/ DirectFails
    \/ Finalize

RunNext == Loop \/ Approve \/ Deny \/ StopAgent \/ TimePasses \/ OutsideEdit

\* Where the goroutine is inside a call that nothing but its cancellation ends
\* for certain: to the backend (compaction at the top of a turn, the chat, a
\* reviewer; their client has no timeout), to a tool or a verify command, or to
\* the user.
Waits == {"turn", "model", "confirm", "cleared", "review", "direct"}

\* The goroutine is scheduled, a cancelled call returns, and time passes.  The
\* backend, a tool and the user need never answer, and nobody need stop the
\* run or edit the file.
RunSpec ==
    /\ RunInit /\ [][RunNext]_runVars
    /\ WF_runVars((cancelled \/ pc \notin Waits) /\ Loop)
    /\ WF_runVars(TimePasses)

-----------------------------------------------------------------------------
RunTypeOK ==
    /\ MachineTypeOK
    /\ pc \in {"start", "waive", "turn", "model", "batch", "prepared", "confirm",
               "cleared", "observed", "answer", "proposed", "review", "direct",
               "finalize", "done"}
    /\ turn \in {"open", "budget", "time", "recovery"}
    /\ offered \in SUBSET Tools
    /\ call \in Tools \cup {NoCall}
    /\ toolsUsed \in 0..MaxToolCalls
    /\ autoContinues \in 0..MaxAutoContinues
    /\ escalations \in 0..MaxEscalations
    /\ inferenceRetries \in 0..MaxInferenceRetries
    /\ reviewCycles \in 0..RepairCycles
    /\ stopReason \in StopReasons
    /\ status \in {"done", "stopped", "error"}
    /\ answerOK \in BOOLEAN /\ docOwed \in BOOLEAN
    /\ file \in FileStates
    /\ recorded \in SUBSET Contents
    /\ sealed \in SUBSET Contents
    /\ cancelled \in BOOLEAN /\ timeUp \in BOOLEAN

\* A run saved as done has a complete control state with evidence for every
\* blocking check, a plan if one was required, no unresolved blocking stop and
\* an answer that passes the screens, however it came to its end (the
\* finalizer of runAgentLoop).
DoneIsEarned ==
    pc = "done" /\ status = "done" =>
        /\ phase = "complete"
        /\ MissingBlockingChecks(satisfiedChecks) = {}
        /\ planAccepted
        /\ stopReason \notin BlockingStopReasons
        /\ answerOK /\ ~docOwed

\* The other way round, acceptance is lost only to what comes after it or what
\* acceptance does not look at: a cancellation, a stop raised by calls beyond
\* the tool budget, a document not written, and an answer that no screen has
\* seen, which there is only in a run that called no tool for a contract that
\* blocks on nothing.
CompleteIsDoneUnless ==
    pc = "done" /\ phase = "complete" /\ status # "done" =>
        \/ cancelled
        \/ stopReason = "tool_budget"
        \/ toolsUsed = 0 /\ blockingChecks = {} /\ ~answerOK
        \/ docOwed

\* A call the machine controls is still allowed by it when it runs: neither
\* the wait for an approval nor a denial in the same batch leaves a licence
\* behind (prepareControlledTool, leaveControlApproval).
LicensedExecution ==
    pc = "cleared" /\ call \in ControlledTools => CheckTool(call)

\* A run that completes at its first verification completes on the bytes that
\* are in the file, whoever changed them (mutationEvidenceIDs).
FirstPassIsFresh ==
    [][phase # "complete" /\ phase' = "complete" /\ reviewCycles = 0
         /\ MutationCheck \in blockingChecks
       => file \in satisfiedChecks'[MutationCheck]]_runVars

\* What the contract asks of every completion, "at least one content-addressed
\* final file mutation" (control_plane.go, mutation_postcondition): the
\* mutation accepted is one of the bytes in the file.
CompletionIsOnFinalMutation ==
    [][phase # "complete" /\ phase' = "complete"
         /\ MutationCheck \in blockingChecks
       => file \in satisfiedChecks'[MutationCheck]]_runVars

\* Once stopped by the user, the run ends, also out of a pending approval: a
\* cancellation is not taken back, so this is cancelled ~> pc = "done".
StopEndsRun == <>[](cancelled => pc = "done")

\* No run goes on for ever: it ends, or one of its calls to the user, the
\* backend or a tool is never answered.
RunEnds == <>[](pc = "done") \/ \E w \in Waits : <>[](pc = w)

\* The steps the loop has left, at most, once it is stopped or out of time: a
\* call that is handled is taken from the tool budget, a turn ends the run but
\* for the retries of a backend that fails.
Over == cancelled \/ timeUp
Room ==
    5 * (MaxToolCalls - toolsUsed) + (IF stopReason = "none" THEN 1 ELSE 0)
StepsHere ==
    CASE pc = "done"     -> 0
      [] pc = "finalize" -> 1
      [] pc = "turn"     -> 3
      [] pc = "waive"    -> 4
      [] pc = "start"    -> 5
      [] pc = "review"   -> 4
      [] pc = "answer"   -> IF phase = "repairing" THEN 6 ELSE 5
      [] pc = "proposed" -> Room + (IF phase = "repairing" THEN 9 ELSE 8)
      [] pc = "direct"   -> Room + 7
      [] pc = "observed" -> Room + 5
      [] pc = "cleared"  -> Room + 1
      [] pc = "confirm"  -> Room + 2
      [] pc = "prepared" -> Room + 3
      [] pc = "batch"    -> Room + 4
      [] pc = "model"    -> IF Closing THEN 2 ELSE Room + 10
StepsLeft == StepsHere + 2 * (MaxInferenceRetries - inferenceRetries)

\* Retries, escalations, repairs, approvals and denials cannot keep a run that
\* is stopped or out of time going: whatever the model replies and whoever
\* answers, each step brings it nearer to its end, and only the clock, the
\* user's stop and other people's edits leave it where it is.
RunsDown ==
    [][Over => \/ StepsLeft' < StepsLeft
               \/ UNCHANGED <<machineVars, pc, turnVars, call, toolsUsed,
                              counters, stopReason, status, answerOK, recorded,
                              docOwed, sealed>>]_runVars
=============================================================================
