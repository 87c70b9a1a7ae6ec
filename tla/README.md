# TheMauler in TLA+

TheMauler is a desktop agent: a Go backend (`src/internal`), a Wails user
interface (`src/frontend`), local or remote language models, and Telegram as a
remote control. The user, or a channel, sends a task; a goroutine runs an agent
loop that asks a model what to do, runs the tools it asks for, and decides when
the task is done. This directory holds TLA+ models of the parts of the backend
that decide *what may happen, when, and what counts as done*, the configurations
that model-check them, and proofs of their main properties.

- [1 Reading order](#1-reading-order)
- [2 The system: inventory](#2-the-system-inventory)
- [3 Modules and the code they model](#3-modules-and-the-code-they-model)
- [4 Runs, bounds and what they show](#4-runs-bounds-and-what-they-show)
- [5 Fairness](#5-fairness)
- [6 Proofs](#6-proofs)
- [7 Disagreements between the code and its documents](#7-disagreements-between-the-code-and-its-documents)
- [8 What is not modelled](#8-what-is-not-modelled)
- [9 Plan](#9-plan)

## 1 Reading order

| module | what it is | lines of code it stands for |
| --- | --- | --- |
| `AcceptanceGate` | what the control plane promises: a run is accepted only with every required check proven | (abstract) |
| `ControlPlane` | the control state of a run and its events | `controlplane/machine.go` |
| `RunControl` | one run of the agent loop driving `ControlPlane` | `app/app.go` `runAgentLoop`, `app/control_plane.go`, `app/review_phase.go`, `app/tasklog.go` |
| `Conversations` | who may run, and what the transcript on screen belongs to | `app/app.go`, `app/run_checkpoint.go`, `app/run_event_ownership.go` |
| `ChannelDelivery` | what the channels promise about each message: acted on once, kept until then | (abstract) |
| `ChannelQueue` | messages from channels and the queue they wait in | `channelbus/queue.go`, `app/channel_bus.go` |
| `EngagementClaims` | what the testing grid promises: exclusive claims, runs completed only when reported | (abstract) |
| `Engagement` | one engagement: work, claims, leases, results, evidence, findings, phases, written optimistically by many | `engagement/state.go`, `service.go`, `store.go`, `evidence.go` |
| `RepositoryReview` | the split review of a repository: its calls, its worker, its checkpoints, crash and restore | `app/repository_review.go`, `app/repository_review_store.go` |
| `MC*` | small constants for TLC, one module per component | |
| `*Proofs` | theorems and their TLAPS proofs; two modules each for `Engagement` and `RepositoryReview` | |

```
AcceptanceGate  <--- refined by ---  ControlPlane  <--- EXTENDS ---  RunControl
                                                                    (one run)
Conversations: many callers, runs as one loop goroutine and its finalizer
ChannelQueue:  channel handlers, the table, the drain; runs as a flag
RepositoryReview: the review's calls and worker; agent runs as a flag

EngagementClaims  <--- refined by ---  Engagement
ChannelDelivery   <--- refined by ---  ChannelQueue
```

`RunControl` shows what the end of a run means, and that a run that is stopped
ends; `Conversations` takes from it only the latter, and shows who may start the
next one;
`ChannelQueue` takes from `Conversations` only the flag and the call the
finalizer makes, and `RepositoryReview`, which claims the same flag, that an
agent run sets it with its cancel function and clears both when it ends.
`Engagement` stands by itself: it is reached through a tool that runs use and
through bindings that the operator uses, and both end in the same requests to
one database row.

## 2 The system: inventory

`PROJECT.json` lists the same components with their source files, and every
hazard with its line and the properties that cover it.

### Core of the agent

**Control-plane machine** (`internal/controlplane`). State: phase, phase to
resume after an approval, plan required/accepted, blocking checks, evidence per
check, contract revision. Operations: `Apply` of seventeen events, `Rebase` on a
revised contract, `CheckTool`. Called only by the run loop's helpers, and
persisted with the run. Hard: detours (approval, repair, revision) that must
neither lose nor invent a plan or a piece of evidence. Correct when a run
completes only with evidence for every blocking check and works only under an
accepted plan. *Modelled.*

**Agent run loop** (`app/app.go` `runAgentLoop`, some 1600 lines;
`app/control_plane.go`). State: turn budget, tool budget, retries, escalations,
repair cycles, first stop reason, final status, recorded mutation fingerprints.
Operations: begin a turn, ask the model, handle a batch of tool calls (licence,
approval, late refusals, run, record), verify an answer, finish. Interacts with
the user (approvals, stop), the model, the tools, the workspace's files, the
clock. Hard: some forty `return`s with `done` as the initial status; files that
change between fingerprint and verification; a stop that races an approval;
budgets spent in the middle of a batch; retries that reset each other. Correct
when *done* is earned, only licensed calls run, evidence is about the bytes in
the file, and a run ends unless somebody it has asked never answers, and once it
is stopped in any case. *Modelled except for prompts, compaction,
streaming, and what a tool computes.*

**Review and verification gates** (`review_phase`, `review_gate`,
`verify_gate`, `critical_verifier`, ...). Stateless judgements on an answer and
the files, with a cycle counter in the loop. Their *outcomes* (clean, blocking,
inconclusive; commands pass, fail, absent) are free choices in `RunControl`, and
everything the run does with them is modelled; how text and diffs are judged is
not. *Partly.*

**Run lifecycle, conversations and checkpoints** (`app.go`, `run_checkpoint`,
`run_event_ownership`, `session_library`, `session_repair`, `scratch_workspace`).
State: `agentRunning`, `cancelAgent`, the conversation epoch, the shared
history and its name, the saved conversations, named and automatic checkpoints.
Operations: send, resume, clear, load, change workspace, scratch workspace,
start/save/delete a conversation, take a checkpoint, stop, and each run's
finalizer with its autosave. Hard: the flag and the history are guarded by one
mutex that is released in the middle of most operations; runs outlive the
conversation they were started in. Correct when at most one loop runs, its
history stays put, its events reach only the conversation it belongs to, a stop
reaches it, and the app becomes free again once the run is over or stopped. *Modelled except for automatic
checkpoints across a crash, session repair and renaming.*

**Channel bus and work queue** (`internal/channelbus`, `app/channel_bus.go`).
State: table `channel_work_queue`, `channelDrainRunning`. Operations: enqueue,
pop the oldest, mark, cancel all active; handlers that look at `agentRunning`
and enqueue, start or answer; a drain goroutine started at the end of a run.
Hard: the look and what follows are not atomic, the drain races the run it
starts, the table survives a crash and the drain does not. Correct when nothing
is acted on twice, nothing a sender was answered about is lost, one drain works
at a time, and queued items are eventually taken out. *Modelled except for
routing by text, the in-memory list used when an insert fails, and evals.*

**Tool routing and execution state** (`tool_router`, `tool_routing_state`,
`tool_execution_state`, `tool_result_cache`, `agent_loop_stability`,
`shell_dedup`, ...). Which tools a turn advertises, repetition detection, result
caches, policies that refuse a call. *Partly*: as free choices of `RunControl`
(the routing of a turn, `TurnAway`, `SkipCall`, the loop breaker).

**Todo plan, file and search tools, run script, model clients.** What these do
to a run (bring a plan, change the deliverable, be a batch of inner calls on the
loop's goroutine, reply or fail) is in `RunControl`; their contents are not.
*Partly.*

### Work the agent is given

**Engagement workflow** (`internal/engagement`, the `engagement_*` tools and
bindings in `app`). State: one record per engagement with a revision, the phase,
for every item of work its status, claimant, lease, revision, completed runs and
observations, the endpoints, the evidence and the findings. Operations: look at
the queue, claim, heartbeat, release, record a result, finish a run, add an
endpoint, add evidence, write and confirm a finding, advance the phase, edit.
Used by agents and their subagents, by a heartbeat goroutine per run, and by the
operator. Hard: every request works on a copy and writes the whole of it back;
leases run out between two requests of their holder; endpoints are added while
the step that sums them up is being done; items are run several times; drafts
change hands. Correct when claims are exclusive and the queue offers only what
can be claimed, a completed run was observed and a vulnerable one has its
evidence, confirmed findings are supported, phases are done in order, and a
holder's revision stays good while it works. *Modelled except for the texts,
scope checks, the freshness of the files behind evidence, the kinds of evidence
a policy may demand, and creating and deleting engagements.*

**Split review of a repository** (`app/repository_review.go`,
`app/repository_review_store.go`). State: the review in memory with its
submissions and conflict checks, a run number, the context of each run, a row in
the database. Operations: start, resume, retry a shard, cancel; a worker that
reviews the shards of its scope, has conflicting claims adjudicated, saves a
checkpoint after each step and finishes the review; restore at startup. Shares
`agentRunning` and `cancelAgent` with agent runs. Hard: calls look, unlock, and
claim without a second look; a cancelled worker goes on while the review has
been resumed; copies are written in another order than they were taken; writes
fail; the process dies anywhere. Correct when what is done is saved with its
findings and not done again, *complete* means complete, and neither the review
nor the app's flag is left without somebody who will end it. *Modelled except
for how a shard is reviewed.* The index the review is planned on
(`internal/repoindex`: building, publishing a generation, watching) is not.

### Around the core, not modelled yet

**Telegram runtime** (polling, offsets, approval buttons, tracked runs): state
that survives restarts, late and repeated button presses. Correct when an update
is handled once and an approval reaches the run that asked.
**Terminals and background jobs** (shared terminal, command slot, job table with
a limit): interleavings of user input, tool input and interrupts.
**Repository index**: generations published while readers read.
**History and rollback** (`internal/agent`): compaction and structure repair of
a transcript (pairs of tool calls and results), a stack of file snapshots.
**Subagents**: nested read-only loops with their own limits.
**Task log, ledger and stores**: append-only records, schema migrations.
**Settings, profiles and secrets**: clamping and defaulting, one-task overrides.
**Memory and learning, engagement check packs, context assembly**: ranking,
selection and text. Pure functions; bounded-input checks are possible.
**Browser tools, media and packs, diagnostics and evaluation, frontend**: I/O,
external processes, measurements and rendering. Out of scope, except as callers.

## 3 Modules and the code they model

### `AcceptanceGate`
Three variables: the outcome, the required checks, the proven ones. It says what
a user is promised and nothing of phases, plans, repairs or approvals.
`ControlPlane!ImplementsGate` maps `complete` to accepted, the other terminal
phases to refused, and the blocking checks that hold evidence to the proven ones.

### `ControlPlane`
One action per control event of `Apply`, and `Rebase`. A refused event returns
the old state and an error, so it is the absence of a step.
`MergeSatisfiedChecks`, `MissingBlockingChecks` and `CheckTool` are the helpers
of the same names. `ActionStarted` leaves the phase as it is and is folded into
`RunControl!PrepareTool`. Digests and timestamps are left out; a contract's
lineage is its revision number. `Rebase` is an operation of the package that the
app does not call during a run today, so runs of `RunControl` set `MaxContract`
to 1, and `MCControlPlane` checks it with one revision.

### `RunControl`
`pc` is the loop goroutine's place, and the actions follow the order of
`runAgentLoop`:

| `pc` | code | actions |
| --- | --- | --- |
| `start`, `waive` | `initializeRunControlPlane` | `ValidateContract`, `WaivePlan` |
| `turn` | top of the loop | `TurnCancelled`, `BeginTurn` |
| `model` | the call, and what the reply is | `RetryInference`, `ModelFails`, `ClosingReply`, `ModelCallsTools`, `AutoContinue`, `Escalate`, `GiveUp`, `Answer`, `DirectAnswer` |
| `batch` | the tool loop | `OverBudgetCall`, `TurnAway`, `PrepareTool`, `RefuseTool`, `EndBatch` |
| `prepared`, `confirm` | `enterControlApproval`, `awaitConfirm` | `NoApprovalNeeded`, `EnterControlApproval`, `ApprovalUnavailable`, `Approve`, `Deny`, `ConfirmCancelled` |
| `cleared`, `observed` | running and recording | `SkipCall`, `RunUncontrolled`, `RunOutsideActing`, `RunFails`, `RunSucceeds`, `RecordObservation` |
| `answer` | `requestControlVerification` | `AskForPlan`, `ProposalRejected`, `ConcludeRepair`, `RequestControlVerification` |
| `proposed` | the same, for a direct answer | `ConcludeRepair`, `RequestControlVerification` |
| `review`, `direct` | gates, commands, `passControlVerification` | `ReviewBlocks`, `ProjectBlocks`, `AnswerBlocks`, `PassesScreened`, `PassRefused`, `DirectPasses`, `DirectFails` |
| `finalize` | the deferred finalizer | `Finalize` |

`StopAgent`, `TimePasses` and `OutsideEdit` may happen between any two of them.
A control event is taken in the same step as the loop's next move. Choices a
reader may want to know of:

- One file stands for the deliverable, its contents are values, and content
  hashes are the contents themselves.
- `stopReason` is the class of `run.StopReason`: none, the tool budget, another
  *blocking* reason (`guard`), any other. `run.stop` keeps the first reason.
- `RetryInference` is a failure before any output, of the request or of the
  stream: the run starts its turn again, in any kind of turn, and counts it for
  the whole run. The separate limit on malformed replies is not counted: it only
  makes `GiveUp` possible earlier.
- `ModelFails` also covers failures to make a client or load the model.
- Of the tools the machine does not control, `look` stands for those that a run
  keeps while its plan is missing (glob, grep, memory, skills, ...) and `other`
  for those it loses.
- A direct answer (`DirectAnswer`) is verified without a review and without the
  screens an answer has to pass, in the phase it finds: acting, or a repair, which
  it concludes first. So it can complete the control state with an answer that
  only the finalizer screens.
- Sealing uses the evidence that is current at the pass.
- A turn with no tools advertised does not check that a call was advertised
  (`offered = {}` in `StartCall`), as the code does in direct mode.
- When a direct answer's verification fails, the phase is left `verifying`, the
  answer goes on as any other reply (a retry, an escalation, a proposal), and the
  next proposal in that run is rejected (`DirectFails`, `ProposalRejected`).
- A cancellation during an approval is a denial, so control ends `blocked`.
- After a denial the rest of the batch goes on: uncontrolled calls may still
  run, controlled ones are refused by the machine.
- The repair that follows a failed verification merges the evidence current at
  that moment, never a verdict of the project's commands.

### `Conversations`
A caller is the goroutine that serves one call; a run is a goroutine with its
deferred finalizer. A step is what happens under one hold of `App.mu`, or a file
operation between two holds. A transcript is the number of the conversation it
belongs to; `epoch` is `conversationEpoch`. `doing[c]` says which call a caller
is in the middle of, `argEpoch/argConv/argName` what it has read, and `at[r]`
where a run stands: `loop`, `stopping` (cancelled), `ending` (in the finalizer,
flag still set), `freed`, and then the three steps of `autoSave`, which reads
the name, copies the history and writes the file under separate holds. Two other
locks appear as guards: `processStateMu` in `WorkspaceChecks` and
`CreateScratchWorkspace`, `sessionLibraryMu` in `StartPicks`.

Left out: evals, which share the flag, and repository reviews, which do too and
have a module of their own; renaming; the
hidden autosave file of nameless conversations; what a run appends to the
history; a stop between `sendMessage`'s claim and the storing of `cancelAgent`
(the model has no run to stop there yet; see the hazards).

### `ChannelDelivery` and `ChannelQueue`
`ChannelDelivery` knows of each message only its fate: not sent, taken, waiting,
dispatched, acted on, stopped by a cancellation or a crash, or lost with the
crash of whoever had taken it. It is acted on out of somebody's hands, and from
*acted* there is no way on; its sender has an answer only when it is out of the
hands that took it. `ChannelQueue!KeepsDelivery` reads the fate off the rows,
the goroutines and what they hold (`FateOf`).

In `ChannelQueue` a channel goroutine takes a message through `Arrive`, `Look` (the read of
`agentRunning` under the lock), and then `Enqueue`, `StartWork` or `ActOn`
outside it; `Respond` gives the sender an answer. A message's lane (work, quick
action, side chat, note) is fixed by its route. The finalizer of a run frees the
flag (`RunFinishes`) and later asks for a drain (`finishing` counts those not
there yet), which `DrainStarts` or, when one is under way, `DrainUnderWay`
drops. The drain is one more goroutine that looks, pops, hands the item to the
same handlers, marks it, and goes on. `items` is the table in order of
`created_at`; a row is never deleted. `Crash` takes everything but the table;
`Restart` drains nothing, as in the code. `CancelActive` is the queue's part of
`EmergencyStop`. A desktop message whose profile does not exist claims and frees
the flag without asking for a drain; that is left out here and modelled in
`Conversations!SendRejects`.

### `EngagementClaims` and `Engagement`
`EngagementClaims` says who holds which item, whether the run under way has a
result, and how many runs were completed; an item can be let go of together with
any of its steps, because that is what a lease does. `Engagement!KeepsPromise`
maps the row's claimants, unfinished results and completed runs to it.

In `Engagement` a request is two steps: `Load` takes the time and a copy of the
row, and one of the operations changes the copy and writes it if the row still
has the revision it had (`Save`, `Update`); `Refuse` is every refusal, every
write that comes too late, and a crash in between. What an operation writes is
the copy with the claims that had run out at its time let go of
(`ExpireClaims`), where the code calls `expireClaims`, and the copy as it was
where it does not.

| code | in the module |
| --- | --- |
| the frame of every operation of `Service`: the time, the load, the `State` operation, `Store.Update` | `Load`, `Save`, `Saved` |
| `Service.Now`, `Available` | `Look` (and `Available`, what is offered to whom) |
| `Service.Claim`, `HeartbeatClaimant`, `ReleaseClaimant` and the operator's release | `Claim`, `Heartbeat`, `Release` |
| `Service.RecordResult`, `Finish`, `requireCompletionEvidence` | `RecordResult`, `Finish` |
| `Service.AddEndpoint`, `Advance`, `SetNotes`, `SetEndpointGroup` | `AddEndpoint`, `Advance`, `EditOther` |
| `Service.AddEvidence`, `UpsertFinding`, `ConfirmFinding` | the actions of these names |

- A claimant can only name the revision it was told last (`told`), which is how
  the tool is used; the operator's bindings name none.
- `passed` stands for *passed*, *failed* and *warning*, `done` for *done* and
  *skipped*: the workflow does not tell them apart.
- A finding has a revision of its own in the code, which a caller may always
  have just read; it is left out.
- Left out as well: scope checks, the freshness of the files behind evidence and
  the kinds of evidence a policy may demand beside raw evidence (each only adds
  refusals, which `Refuse` already allows at any time), creating and deleting
  engagements, export.

### `RepositoryReview`
One call at a time holds `processStateMu`: `call` is where it stands between its
look at the app, the plan it builds without the locks, the installation of the
review under a new run number, the save, and the launch. `workers[r]` is the
goroutine of run `r` with the part it is at, the rest of its scope and, between
a change and its write, the copy it has taken; while it holds a copy nothing but
the write (`Saves`, `SaveFails`) happens to it, and other actors go on.

| code | in the module |
| --- | --- |
| `StartRepositorySplitReview` | `StartLooks`, `StartSaves`, `StartInstalls`, `Launches` |
| `ResumeRepositorySplitReview` | `ResumeCopies`, `ResumeLooks`, `Installs`, `InstalledSaves`, `RollsBack`, `Launches` |
| `RetryRepositoryReviewShard` | `RetryLooks`, and the same |
| `CancelRepositorySplitReview` | `Cancel`, `CancelSaves` |
| `runRepositoryReview` | `Begins`, `ShardStarts`, `ShardDone`, `ShardFails`, `Prepares`, `CheckStarts`, `CheckEnds`, `Leaves`, `LeftBehind` |
| `finishRepositoryReview` and the deferred clean-up | `Finishes`, `Clears` |
| `latestRepositoryReviewSnapshot`, restoring at startup | `Restorable`, `Restore` |
| agent runs, `StopAgent`, the end of the process | `AgentStarts`, `AgentEnds`, `StopAgent`, `Crash` |

- The child that reviews a shard or adjudicates a check is its outcome: findings
  of one of the kinds `Findings` names, an error, a cancellation or a timeout.
- No two shards of a plan have evidence in common, so a conflict is one of one
  shard's claims; a shard has at most one here. Checks are done in the order of
  their shards; the code sorts them by digest, and no property looks at it.
- `saved` is the row written last, which is what `ORDER BY updated_at` finds as
  long as times written with a varying number of digits sort as they should.
- Run numbers go on after a crash; in the code they begin again, and nobody is
  left who knows an old one.
- `Restore` is one step: it happens at startup, before the app takes calls, or
  under the lock of the status call.
- Agent runs are a count of those that have the flag or believe they have it;
  evals, which behave alike, are counted as such.

## 4 Runs, bounds and what they show

The passing runs are exhaustive searches; a violation run stops at its
counterexample.

| run | states (about) | bounds | shows |
| --- | --- | --- | --- |
| `control_plane` | 1,052 | 2 checks, 2 evidence ids, 1 revision of the contract | `PlanPrecedesWork`, `ResumeOnlyWhileAwaiting`, `EvidenceKept`, and the refinement `ImplementsGate` |
| `run_control` | 1,690,000 | 2 contents and an absent file, 2 tool calls, 1 retry of a reply and 1 of the backend, 1 escalation, 1 repair cycle, all tools or none advertised | `DoneIsEarned`, `CompleteIsDoneUnless`, `LicensedExecution`, `FirstPassIsFresh`, `RunsDown`, `StopEndsRun`, `RunEnds` |
| `run_stale` | | as `run_control` | violation of `CompletionIsOnFinalMutation`, section 7 |
| `conversations` | 468,000 | 2 callers, 2 runs at once, 1 name, epochs to 4, the calls that replace transcripts | `EpochOwnsTranscript`, `BusyEnds` |
| `claims` | 314,000 (under symmetry) | 2 callers, 2 runs at once, 1 name, epochs to 3, every call but resume, workspace, checkpoint | `OneLoop`, `HistoryKeptUnderRun`, `StopReachesRun`, `FlagIsTruthful` |
| `resume_race` | | send, resume, checkpoint | violation of `OneLoop`, section 7 |
| `overwritten` | | one caller, one run at a time, two names | violation of `NamesNeverOverwritten`, section 7 |
| `channel_queue` | 507,000 | 1 channel caller, one message of each lane, places for 2 drains, 1 desktop run, 1 crash | `OneDrain`, `NothingForgotten`, the refinement `KeepsDelivery`, `DrainEmpties` |
| `stranded` | | 2 messages, no crash | violation of `NothingStranded`, section 7 |
| `engagement` | 286,000 (under symmetry and a view) | 2 claimants, 2 requests in flight, 3 workflows (an endpoint phase; a checklist and then steps; a step to be run twice), 1 global check, 2 endpoints, 1 piece of evidence, 1 finding, leases of 2 ticks, clock to 2, revisions to 8 | `QueueIsHonest`, `CompletedIsSupported`, `ConfirmedIsSupported`, `HolderKeepsRevision`, `WorkflowInOrder`, `NothingIsUndone`, the refinement `KeepsPromise` |
| `repository_review` | 4,188,000 | 2 shards, the second of which may have a conflict, 2 runs, a crash or an agent run | `DoneIsSubmitted`, `ScopeIsOpen`, `CompleteIsAll`, `ActiveIsDriven`, `FlagIsHeld`, `FlagIsToken`, `WorkersRunDown` |
| `unrestorable` | | 3 runs, no crash and no agent run | violation of `VerdictOnlyWhenDone`, section 7 |

Each passing run but the first also checks a type invariant; that of
`ControlPlane` is a part of `RunTypeOK`. Three invariants are proved and checked
by no run of their own: `EvidenceOnlyForBlocking`, which `MachineInv` needs,
`AtMostOnce`, which `KeepsDelivery` implies, and `OneClaimEach`, which
`KeepsPromise` implies (in `EngagementClaims` only empty hands claim).

*Why the bounds are enough.* `ControlPlane` compares nothing but membership, so
two checks (one blocking and one not, or one proven and one missing) and two
evidence ids tell every case apart; one revision shows what a revision must
drop. In `RunControl` two contents are what it takes for a file to change and
to change back; two tool calls let one call of a batch be denied or spend the
budget and the next be tried, with a write before a later change; each counter
at 1 is reached, used up and, for retries of a reply, reset by an escalation (in
the code the limits are larger: 15 retries of the backend, for instance, and the
theorems hold for any). In
`Conversations` a race has two callers, and two runs are what `OneLoop` forbids;
four epochs allow a run to outlive the conversation after its own and a call to
straddle both. In `ChannelQueue` every lane behaves differently and one message
of each is enough to be queued behind another; the second drain place is there
to be refused; the crash may fall at every step. In `Engagement` a lost write
takes two requests, a conflict of claims two claimants; one workflow has each
kind of phase that differs, and the second endpoint is there to be added while
the first one's checks or the last step are being done. Eight revisions are
enough to claim, record, finish and advance with an endpoint, a heartbeat or a
piece of evidence in between. They are not enough for two longer stories: a check
that was found vulnerable and is run again with the evidence of its earlier run
(no workflow of TLC's runs a check twice), and a draft that changes hands
completely and is then confirmed. `CompletedIsSupported` and
`ConfirmedIsSupported` are proved for these (`CompletedSupported`,
`ConfirmedSupported`). There the time a request takes is the time at
which it loads (`MaxDelay` is 0); the theorems hold for any delay. In
`RepositoryReview` two runs are a worker that was left behind and the one that
took its place; the second shard is the one a first one's failure, a
cancellation or a retry leaves over, and has the conflict. A crash and an agent
run are not both in one behaviour that TLC explores (`MaxDisturbances` counts
the two together); the theorems hold for any number of both. Deadlock is not checked because
every one of these systems may really stop: a run that is over, an app in which
nobody calls.

Symmetry is used in `claims`, over callers and runs, and in `engagement`, over
claimants, endpoints and requests, and only with invariants and properties of
single steps. `engagement` also has a view, `Alike`: revisions count only by
being equal, so the state is taken without their numbers; a copy that is out of
date is taken as out of date, whatever it says, because all that can come of it
is a refusal; and what a claimant was told is taken as right or wrong.

Every bound is a named constant (`MaxContract`, `MaxToolCalls`,
`MaxAutoContinues`, `MaxEscalations`, `MaxInferenceRetries`, `MaxReviewCycles`, `MaxEpoch`, `Runs`,
`MaxOwnRuns`, `MaxCrashes`, `MaxRevision`, `MaxClock`, `MaxDelay`, `MaxRuns`,
`MaxDisturbances`); those of `RunControl` but `MaxContract` are limits of the code
itself, and so is `Lease`. For each property of each passing run, `PROJECT.json` names
a mutated definition, defined beside the real one with its plausible bug, under
which TLC finds the property violated.

## 5 Fairness

- `RunSpec` has weak fairness of the loop's goroutine wherever it works by
  itself, and of `TimePasses`. It has none where the goroutine waits for somebody
  else (`Waits`), because nothing in the code ends such a wait: the run's context
  has a cancel function and no deadline (`app/app.go:1372`), the client for
  inference has `Timeout: 0` on purpose (`llm/backends/openaicompat.go:57`), the
  one for Anthropic has no timeout either, a stream has no limit on silence, and
  `awaitConfirm` waits for an answer or the cancellation and nothing else. A turn
  is among the waits for the sake of compaction, which asks the model, `cleared`
  for the tool, `review` and `direct` for a reviewer and the project's commands.
- What ends every wait is the cancellation, which is passed to all of these, so
  the fairness of the loop extends to the waits once `cancelled` holds. This is
  what `StopEndsRun` rests on.
- `MaxRunSeconds` (1800 by default) is looked at only at the top of a turn, so a
  backend that hangs keeps a run for ever: `RunEnds` says that a run ends *or
  stays in one of the waits*, that is, that no sequence of answers, failures,
  retries, escalations and repairs goes on for ever. It needs time to pass: with
  `MaxRunSeconds` at 0 it is not promised, because a model may go on asking for
  tools that are turned away.
- `Conversations` has weak fairness of every goroutine's next step but the end
  of a loop that nobody has stopped. The end of a stopped loop is `StopEndsRun`,
  and what the finalizer does after it is local work and calls to Telegram with
  their own timeouts. So `BusyEnds` says that a set flag is cleared, or that there
  is a loop nobody has stopped.
- `ChannelQueue` has weak fairness of the channel goroutines, of the drain and of
  the finalizer's request for one. No run has to end there: a set flag sends the
  drain away. The messages a drain hands on are answered within a limit of the
  code (two minutes for a side chat) or started as a run.
- Nobody has to make a call, start or stop a run, approve, edit, crash or restart.
- `Engagement` and `RepositoryReview` state no fairness. Nothing makes an agent
  go on with an item, and a child of a review may take as long as its model.
  That something is never left for ever with nobody to end it is said there as
  safety: `QueueIsHonest`, `ActiveIsDriven` and `FlagIsHeld` name who can take
  the next step, and `WorkersRunDown` says that for a worker of a review there is
  a bounded number of them.
- Strong fairness is nowhere assumed.

## 6 Proofs

All theorems hold for every value of the constants under the named assumptions
of the modules (disjoint or distinct constants, natural-number bounds, for
`RunControl` that the checks are the two the contract builder makes and that a
routing is a set of tools, for `Engagement` that every phase has steps and names
none twice and that the value for *nothing* is not a finding). Every safety property of a passing run is the statement of a
theorem. The bounds on crashes, runs and calls are arbitrary naturals there.

**`ControlPlaneProofs`.** `MachineInv` is the conjunction of the type invariant,
`CompletionOwnsEvidence`, `PlanPrecedesWork`, `ResumeOnlyWhileAwaiting` and
`EvidenceOnlyForBlocking`, which are inductive together and not one by one: an
answered approval returns to a phase that is known to be planned only because it
is remembered exactly while an approval is pending. Moves, ends and verifications are proved as
three lemmas, one for each shape of event, and `MachineInvNext` combines them.
From it: `MachineTypeCorrect`, `CompletionIsEvidenceOwned`, `NoWorkWithoutPlan`,
`ResumeIsForgotten`, `EvidenceIsAskedFor`, `EvidenceIsKept`, and the refinement
`MachineImplementsGate`, step by step.
`CompletionOwnsEvidence` is stated as a strengthening: the gate's refinement is
the form of it that the run checks.

**`RunControlProofs`.** `RunIsMachine` proves that every step of a run is a step
of the machine or leaves it alone, so everything proved of the machine holds of
a run (`RunImplementsGate`). Then, with one small invariant each:
`RunsOnlyLicensedCalls` (`LicenceInv`: a prepared or cleared controlled call is
licensed, and one that waits for an approval returns to acting under its plan), `DoneRunsAreEarned` (`FinalInv`:
a run goes to the finalizer with status done only when its control is complete), `FirstPassAcceptsFinalBytes` (`FreshInv`: until a
repair cycle has been counted, no mutation evidence is held). `RunTypeCorrect`
needs `InHand`, that a call being prepared or run has room in the tool budget.
`AcceptanceIsKept` rests on `AcceptInv`: a complete phase is only found at the
end (`CompleteEnds`), a stop for the guard leaves no way to an answer
(`GuardEnds`), and a direct answer, the only one that no screen has seen when the
run completes, is given only while no tool has been called (`DirectIsToolless`).
A contract blocks on nothing or on a mutation (`Contracted`), and a run that has
called no tool has no evidence of one, repaired or not (`Unwritten`), so such a
run completes only for a contract that blocks on nothing (`ToollessPass`).
`EventsFindTheirPhase` says in which phase the loop's places find the machine, so
that no event which the loop relies on is refused there. `OverRunsDown` is the
part of `RunEnds` and `StopEndsRun` that is safety: a measure,
`StepsLeft`, made of the tool budget, the loop's place and the retries of the
backend that are left, which every step of a
loop that is stopped or out of time lowers (`RunsDown`) and which
`StepsAreBounded` bounds. A retry takes a run from its last report back to the
top of the loop, so without counting retries nothing would go down. What is left
to fairness is that the loop is scheduled, that cancelled calls return, and that
time passes. Before that the measure does not hold: a routing that
turns every call away can keep a model asking, which is why there is a clock.

**`ConversationsProofs`.** `TypeCorrect`. `EpochsOwn` holds for every set of
calls: `EpochsHold` says that no run and no sender has an epoch yet to come, and that
one with the current epoch has the conversation shown; a new epoch owns nothing
older. `BusyHeld` is the part of `BusyEnds` that is safety, and holds for every
set of calls, too: a set flag has a sender, a resume or a run there that will
clear it, also after a resume has claimed it over somebody else's claim. The
other claims about the flag hold only without the calls that claim or
clear without a second look, so they are proved under `ASSUME CarefulCalls`
(`resume` and `workspace` not among `Operations`): `Token` says that the flag is
a token held by exactly one sender or one run from the claim to the finalizer,
and that its holder's history is the one shown and its cancel function the one
stored. `FlagIsToken`, `OneLoopRuns`, `HistoryIsKept`, `StopsReach`, `FlagTells`
follow. Section 7 shows that the assumption cannot be dropped.

**`ChannelQueueProofs`.** `TypeCorrect`. `ActedOnAtMostOnce`: `Once` says that a
message not acted on yet is in one place, the hands of one worker or one queued
row, and that one acted on is in none; every step either moves a message from
one place to the next (`Moves`) or moves none (`Quiet`). `DrainsAreAlone`:
`OneDrain` is inductive with the types. `AnsweredIsKept`: `Sure` says that a
worker which goes on to answer has acted on its message or queued it, and that
the row a drain marks belongs to the message it holds, which is then queued
again in another row; all other steps only add rows (`Grows`). `DeliveryKept`,
the refinement of `ChannelDelivery`, rests on `PlacedInv`, which joins all of
these with what the table knows of a message in somebody's hands: one that a
channel has taken is in no row yet, and the row a drain took its message from is
no longer queued. Each action then moves
the fate of one message along one edge of the abstract machine, or of none, and
a cancellation and a crash move all of them at once, by their rows.

**`EngagementProofs`, `EngagementWorkflowProofs`.** The invariant `IInv` says
that the record and every copy in flight are good states, that no copy has a
revision the record has not reached, and that a copy with the record's revision
*is* the record. So a write that succeeds is an operation on the record itself,
and what an operation does to a good state need be proved only once, of the
copy (`ClaimGood`, `RecordGood`, `FinishGood`, ...). `Good` joins the rows (an
unfinished result belongs to a claim, an observation stands behind every run),
one claim each, and the findings with their evidence; it has to hold of the
copies too, because the record will be one of them. From it:
`TypeCorrect`, `OneClaim`, `CompletedSupported`, `ConfirmedSupported`,
`RevisionKept`, `FollowsWorkflow`, `HonestyOfTheQueue`; and `Implements`, which
maps each operation, with the expiry it writes, to one step of
`EngagementClaims`. `NothingUndone` is the absence of lost updates: every
operation takes its copy to one that goes on from it (`GoesOn`, a preorder, so
that the expiry written with an operation and the operation add up), and by
`IInv` the copy was the record when the write succeeds. Without the invariant it
would say nothing of the record: the row is always replaced as a whole.

**`RepositoryReviewProofs`, `RepositoryReviewContentsProofs`.** The steps of a
worker are first summed up as two effects: those that change the review and take
a copy (`DataEffect`) and those that only move the worker (`QuietEffect`). Then
three invariants, each resting on the one before. `Shape` (types, what a call
has filled in at which point, no worker of a run not yet installed, and that
scopes and what a call hands on are open) gives `TypeCorrect` and `OpenScope`.
`Control` (`ActiveIsDriven`, `FlagIsHeld`, `FlagIsToken`, and `LookedIsFree`:
past its look a call has found the app free, and only an agent run can have
taken it since) gives `ActiveDriven`, `FlagHeld`, `FlagToken`. `Contents` (every
copy is good; what a call keeps to roll back to is good with the submissions of
now; a review that somebody drives says so; once the checks are prepared every
conflict has one) gives `DoneSubmitted` and `CompleteAll`. `WorkersEnd` is the
safety side of what `ActiveIsDriven` and `FlagIsHeld` wait for: `StepsLeft` of a
worker counts four steps for every part of its scope (the start, the end and two
writes), and as much again for the checks while they are not prepared. It rests
on `Shape`: the part a child is at is in the scope, and one less is left of it
afterwards; nothing but a launch where no worker is makes one
(`OthersKeepWorkers`). `WorkerStepsRunDown` adds that no step of a worker leaves
it where it was, `WorkerIsBounded` the bound.

**Only model-checked.** Liveness (`RunEnds`, `StopEndsRun`, `BusyEnds`,
`DrainEmpties`) is out of the prover's reach, but for the measures above. That the view and the symmetry of
`engagement` are sound is an argument (section 4), not a theorem; the theorems
of `EngagementProofs` need neither.

## 7 Disagreements between the code and its documents

Each is a run in which TLC finds a behaviour of the modelled code that a
document, comment or message of the repository says does not happen. The quoted
lines are in `PROJECT.json`, `findings`.

1. `run_stale`: after a failed verification, its evidence is kept although the
   bytes may change before the next one; a run can complete on the fingerprint
   of bytes that are no longer in the file.
2. `resume_race`: `ResumeRun` looks at the flag, unlocks to load the checkpoint,
   and claims without looking again: two loops run.
3. `overwritten`: a change of workspace starts a new transcript and keeps the
   old one's name; the next run's autosave writes over the old conversation.
4. `stranded`: the drain is asked for only when a run ends, and the request is
   dropped while a drain is still on its way out (for instance while it sends
   its reply about a run that is already over); an item queued after a stale
   look misses it too. What is queued then waits for some later run.
5. `unrestorable`: a resume with an unfinished shard puts every conflict check
   back to pending, those with a verdict too, and saves it with the verdict; a
   restart refuses to restore such a row, so a crash before the worker takes the
   check up again leaves a review that can be neither shown nor resumed.

## 8 What is not modelled

Text (prompts, routing by wording, formatting), the contents of tools, model
protocols and streaming, rendering, external processes, encryption of secrets.
In the modelled parts: compaction of a run's history, failure to initialise the
control plane (the run ends before the loop), the in-memory fallback of the
queue, two enqueues in one tick of the clock sharing a key, items ordered by
times written with a varying number of digits, evals, renaming, automatic
checkpoints. Of engagements: the freshness of files behind evidence, the kinds of
evidence a policy may demand, scope, creation and deletion. Of reviews: how a
child reviews, and the index. The hazards in `PROJECT.json` that no property
covers say why. One of them is worth knowing: the holder of the last step of a
phase is offered that step only, and can do nothing with it once an endpoint has
been added (`engagement/state.go:403`), until the operator releases it, its run
ends, or its lease runs out. The model has these steps, `QueueIsHonest` speaks of
those who hold nothing, and no document promises more.

Measured in lines, most of the backend is tools, text, protocols, diagnostics
and storage, and the models stand for a small share of it: the parts where an
order of events decides whether the result is right.

## 9 Plan

Done: `AcceptanceGate`, `ControlPlane`, `RunControl`, `Conversations`,
`ChannelDelivery`, `ChannelQueue`, `EngagementClaims`, `Engagement`,
`RepositoryReview`, with proofs. In the order they are worth doing:

1. **Checkpoints**: the automatic checkpoint of a run, written as it goes and
   deleted at its end, crash and restart, `ResumeRun` of an interrupted one, and
   the claim that "only *interrupted* runs linger". Extends the state of
   `Conversations` (checkpoints with a run id); abstract specification: a set of
   interrupted runs. Bounds: two crashes, two runs.
2. **Telegram runtime**: the offset that is saved before a message is handled,
   repeated updates, late approval answers, tracked runs; composed with
   `ChannelQueue`.
3. **Terminals and background jobs**: command slot, interrupt, job table at its
   limit.
4. **Composition** of `Conversations`, `ChannelQueue` and `RepositoryReview`: the
   flag and the finalizer's call as one state, in place of `UserStartsRun`,
   `RunFinishes` and `AgentStarts`.
5. **History and rollback**: structure repair and compaction as functions on
   sequences checked against a reference definition (every tool result follows
   its call), rollback as a stack with a limit.
6. **Repository index**: publication of a generation while readers read.
7. **Settings**: clamping as a function, idempotent and within limits.

Theorems worth proving next about the modules there are: that each abstract
specification has the invariants its readers take from it (no message of
`ChannelDelivery` acted on twice, no two holders in `EngagementClaims`), stated
there and carried over by the refinements; and a measure for a drain of
`ChannelQueue`, which `DrainEmpties` has only under fairness. And about those to
come: that a run whose finalizer is over has no automatic
checkpoint (1), that an update is handled at most once across restarts (2), and
that the composition (4) refines each of its parts.
