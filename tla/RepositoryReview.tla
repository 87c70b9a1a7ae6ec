-------------------------- MODULE RepositoryReview --------------------------
(***************************************************************************)
(* The split review of a repository (internal/app/repository_review.go).   *)
(* A call starts, resumes or retries a review: it looks whether the app is *)
(* free, installs the review in memory under a new run number, saves it    *)
(* and launches a worker.  The worker has a child review every shard of    *)
(* its scope, has a conflict of claims adjudicated, and copies the review  *)
(* into the database after every step: the copy is taken under the lock of *)
(* the review and written without it.  A cancellation, agent runs that     *)
(* share the flag agentRunning, failing writes, a crash and the restore    *)
(* after it come at any moment.                                            *)
(*                                                                         *)
(* Start, Resume and Retry hold processStateMu: there is one such call at  *)
(* a time.  No two shards of a plan have evidence in common; the findings  *)
(* of one shard cite one piece of it here, so that a shard has at most one *)
(* conflict, identified by the claims that differ.  Prompts, the contents  *)
(* of shards, events and error texts are left out.                         *)
(***************************************************************************)
EXTENDS Integers, FiniteSets

CONSTANTS
    NumShards,
    Findings,       \* what the child of each shard may report: sets of claims
    Nothing,        \* no review, no submission, no check, nobody
    Agent,          \* the agent run, as the owner of cancelAgent
    MaxRuns, MaxDisturbances    \* bounds of the model: runs, and crashes and agent runs

ASSUME ReviewAssumption ==
    /\ NumShards \in Nat \ {0} /\ MaxRuns \in Nat
    /\ \A i \in 1..NumShards : \A claims \in Findings[i] : claims # Nothing
    /\ Agent \notin Nat /\ Nothing \notin Nat /\ Agent # Nothing
    /\ MaxDisturbances \in Nat

Shards == 1..NumShards
RunIds == 1..MaxRuns

VARIABLES
    memory,     \* repositoryReviewRuntime and its submissions
    canCancel,  \* its field CanCancel
    runID,      \* repositoryReviewRunID
    cancelled,  \* the runs whose context is cancelled
    workers,    \* the goroutines runRepositoryReview, by run
    call,       \* the call that holds processStateMu
    canceller,  \* the copy CancelRepositorySplitReview is about to write
    saved,      \* the row of repository_reviews written last
    flag, stop, \* agentRunning, and whom cancelAgent cancels
    agents, started,    \* agent runs under way, and all there were
    intruded,   \* one has started between a call's look and its claim
    crashes

review == <<memory, canCancel, runID>>
app == <<flag, stop, agents, started, intruded>>
vars == <<review, cancelled, workers, call, canceller, saved, app, crashes>>

Unfinished == {"pending", "running", "interrupted", "error", "cancelled"}
ShardStates == Unfinished \cup {"done"}
ReviewStates ==
    {"running", "cancelling", "interrupted", "complete", "cancelled", "partial", "error"}
Claims == UNION {UNION Findings[i] : i \in Shards}
Check == [claims : SUBSET Claims, state : ShardStates, verdict : BOOLEAN]
Snapshot ==
    [state : ReviewStates, shards : [Shards -> ShardStates],
     subs : [Shards -> (SUBSET Claims) \cup {Nothing}],
     checks : [Shards -> Check \cup {Nothing}]]

WorkerPcs ==
    {"begin", "shards", "child", "checks", "checking", "leave", "finish",
     "clear", "final"}
Worker ==
    [pc : WorkerPcs, at : Shards \cup {Nothing}, scope : SUBSET Shards,
     cause : {"none", "cancelled", "failed"}, copy : Snapshot \cup {Nothing}]
Call ==
    [kind : {"start", "resume", "retry"},
     pc : {"copied", "planned", "saved", "saving", "installed"},
     shards : SUBSET Shards, prev : Snapshot \cup {Nothing}, copy : Snapshot \cup {Nothing}]

ASSUME NothingAssumption ==
    /\ Nothing \notin Snapshot /\ Nothing \notin Check
    /\ Nothing \notin Worker /\ Nothing \notin Call

Init ==
    /\ memory = Nothing /\ canCancel = FALSE /\ runID = 0
    /\ cancelled = {}
    /\ workers = [r \in RunIds |-> Nothing]
    /\ call = Nothing /\ canceller = Nothing
    /\ saved = Nothing
    /\ flag = FALSE /\ stop = Nothing /\ agents = 0 /\ started = 0 /\ intruded = FALSE
    /\ crashes = 0

-----------------------------------------------------------------------------
\* MergeReviewFindings and BuildReviewConflictCases: claims that differ about
\* the same evidence are a conflict.
Conflict(submission) == submission # Nothing /\ Cardinality(submission) > 1
\* A check is kept as long as its conflict is the same.
Reconciled(checks, subs) ==
    [i \in Shards |->
        IF ~Conflict(subs[i]) THEN Nothing
        ELSE IF checks[i] # Nothing /\ checks[i].claims = subs[i] THEN checks[i]
        ELSE [claims |-> subs[i], state |-> "pending", verdict |-> FALSE]]

UnfinishedShards(s) == {i \in Shards : s.shards[i] # "done"}
UnfinishedChecks(s) == {i \in Shards : s.checks[i] # Nothing /\ s.checks[i].state # "done"}

\* What latestRepositoryReviewSnapshot accepts.
Restorable(s) ==
    \A i \in Shards :
        /\ s.shards[i] = "done" => s.subs[i] # Nothing
        /\ s.checks[i] # Nothing =>
              /\ Conflict(s.subs[i]) /\ s.checks[i].claims = s.subs[i]
              /\ s.checks[i].verdict <=> s.checks[i].state = "done"

Written(s) == saved' = s

-----------------------------------------------------------------------------
\* The calls.  They look whether the app is free, let go of the locks to read
\* the index and build the plan, and claim the app without looking again.
Calling(kind, pc, shards, prev) ==
    [kind |-> kind, pc |-> pc, shards |-> shards, prev |-> prev, copy |-> Nothing]
\* (Mutant: whether an agent runs is not asked.)
FreeOfReview == ~canCancel
Free == ~canCancel /\ ~flag
AtCall(pc) == call # Nothing /\ call.pc = pc

StartLooks ==
    /\ call = Nothing /\ runID < MaxRuns /\ Free
    /\ call' = Calling("start", "planned", Shards, Nothing)
    /\ UNCHANGED <<review, cancelled, workers, canceller, saved, app, crashes>>

FreshReview ==
    [state |-> "running", shards |-> [i \in Shards |-> "pending"],
     subs |-> [i \in Shards |-> Nothing], checks |-> [i \in Shards |-> Nothing]]
StartSaves ==
    /\ AtCall("planned") /\ call.kind = "start"
    /\ Written(FreshReview)
    /\ call' = [call EXCEPT !.pc = "saved"]
    /\ UNCHANGED <<review, cancelled, workers, canceller, app, crashes>>
StartInstalls ==
    /\ AtCall("saved")
    /\ memory' = FreshReview /\ canCancel' = TRUE /\ runID' = runID + 1
    /\ call' = [call EXCEPT !.pc = "installed"]
    /\ UNCHANGED <<cancelled, workers, canceller, saved, app, crashes>>

ResumeCopies ==
    /\ call = Nothing /\ runID < MaxRuns
    /\ memory # Nothing /\ ~canCancel
    /\ UnfinishedShards(memory) \cup UnfinishedChecks(memory) # {}
    /\ call' = Calling("resume", "copied", UnfinishedShards(memory), memory)
    /\ UNCHANGED <<review, cancelled, workers, canceller, saved, app, crashes>>
ResumeLooks ==
    /\ AtCall("copied") /\ ~flag
    /\ call' = [call EXCEPT !.pc = "planned"]
    /\ UNCHANGED <<review, cancelled, workers, canceller, saved, app, crashes>>
RetryLooks(i) ==
    /\ call = Nothing /\ runID < MaxRuns
    /\ memory # Nothing /\ Free
    /\ call' = Calling("retry", "planned", {i}, Nothing)
    /\ UNCHANGED <<review, cancelled, workers, canceller, saved, app, crashes>>

\* The shards the call is about wait again; when a resumed review has any, all
\* its checks do as well, also the decided ones, which keep their verdict.
Requeues(i) ==
    /\ call.kind = "resume"
    /\ call.shards # {} \/ i \in UnfinishedChecks(call.prev)
Requeued(s) ==
    [s EXCEPT
        !.state = "running",
        !.shards = [i \in Shards |-> IF i \in call.shards THEN "pending" ELSE s.shards[i]],
        !.checks = [i \in Shards |->
            IF s.checks[i] # Nothing /\ Requeues(i)
            THEN [s.checks[i] EXCEPT !.state = "pending"] ELSE s.checks[i]]]

\* What a resume saves has the submissions it copied at first.
\* (Mutant: it leaves alone what has been done since.)
InstallsLatest ==
    LET now == [Requeued(memory) EXCEPT
                    !.shards = [i \in Shards |-> IF memory.shards[i] = "done"
                                                 THEN "done" ELSE @[i]]]
    IN
    /\ AtCall("planned") /\ call.kind = "resume"
    /\ memory' = now /\ canCancel' = TRUE /\ runID' = runID + 1
    /\ call' = [call EXCEPT !.pc = "saving", !.copy = [now EXCEPT !.subs = call.prev.subs]]
    /\ UNCHANGED <<cancelled, workers, canceller, saved, app, crashes>>
Installs ==
    /\ AtCall("planned") /\ call.kind # "start"
    /\ memory' = Requeued(memory) /\ canCancel' = TRUE /\ runID' = runID + 1
    /\ call' =
          IF call.kind = "resume"
          THEN [call EXCEPT !.pc = "saving",
                            !.copy = [Requeued(memory) EXCEPT !.subs = call.prev.subs]]
          ELSE [call EXCEPT !.pc = "saving", !.prev = memory, !.copy = Requeued(memory)]
    /\ UNCHANGED <<cancelled, workers, canceller, saved, app, crashes>>
InstalledSaves ==
    /\ AtCall("saving")
    /\ Written(call.copy)
    /\ call' = [call EXCEPT !.pc = "installed", !.prev = Nothing, !.copy = Nothing]
    /\ UNCHANGED <<review, cancelled, workers, canceller, app, crashes>>
\* The runtime goes back to what it was, the submissions stay.
RollsBack ==
    /\ AtCall("saving")
    /\ memory' = [call.prev EXCEPT !.subs = memory.subs]
    /\ canCancel' = FALSE
    /\ call' = Nothing
    /\ UNCHANGED <<runID, cancelled, workers, canceller, saved, app, crashes>>

NewWorker(scope) ==
    [pc |-> "begin", at |-> Nothing, scope |-> scope, cause |-> "none",
     copy |-> Nothing]
Launches ==
    /\ AtCall("installed")
    /\ flag' = TRUE /\ stop' = runID
    /\ workers' = [workers EXCEPT ![runID] = NewWorker(call.shards)]
    /\ call' = Nothing
    /\ UNCHANGED <<review, cancelled, canceller, saved, agents, started, intruded, crashes>>

\* The app is busy, the index is being built or has changed, a write failed.
CallRefused ==
    /\ AtCall("planned") \/ AtCall("copied")
    /\ call' = Nothing
    /\ UNCHANGED <<review, cancelled, workers, canceller, saved, app, crashes>>

\* CancelRepositorySplitReview takes no part in processStateMu.
Cancel ==
    /\ canCancel /\ canceller = Nothing
    /\ memory' = [memory EXCEPT !.state = "cancelling"]
    /\ canCancel' = FALSE
    /\ cancelled' = cancelled \cup {runID}
    /\ canceller' = memory'
    /\ UNCHANGED <<runID, workers, call, saved, app, crashes>>
CancelSaves ==
    /\ canceller # Nothing
    /\ Written(canceller) \/ UNCHANGED saved
    /\ canceller' = Nothing
    /\ UNCHANGED <<review, cancelled, workers, call, app, crashes>>

-----------------------------------------------------------------------------
\* The worker of run r.
At(r, pc) == workers[r] # Nothing /\ workers[r].pc = pc /\ workers[r].copy = Nothing
Current(r, pc) == At(r, pc) /\ runID = r
Goes(r, new) == workers' = [workers EXCEPT ![r] = new]
Ends(r) == Goes(r, Nothing)
\* A change of the review, and the copy of it that is written next.
Change(r, s, new) == memory' = s /\ Goes(r, [new EXCEPT !.copy = s])

\* When another run has been installed nothing of what the worker still does
\* has an effect, but for a copy it has taken before.
LeftBehind(r) ==
    /\ workers[r] # Nothing /\ runID # r
    /\ workers[r].copy = Nothing /\ workers[r].pc # "final"
    /\ Ends(r)
    /\ UNCHANGED <<review, cancelled, call, canceller, saved, app, crashes>>

\* On to finishing, with no shard to do.
Leaving(r) == [workers[r] EXCEPT !.pc = "leave", !.scope = {}]
\* (Mutant: a model that cannot be loaded ends the worker.)
BeginsOrReturns(r) ==
    /\ Current(r, "begin")
    /\ Goes(r, [workers[r] EXCEPT !.pc = "shards"]) \/ Ends(r)
    /\ UNCHANGED <<review, cancelled, call, canceller, saved, app, crashes>>
Begins(r) ==
    /\ Current(r, "begin")
    /\ \/ Goes(r, [workers[r] EXCEPT !.pc = "shards"])
       \/ Goes(r, [Leaving(r) EXCEPT !.pc = "finish", !.cause = "failed"])
       \/ /\ r \in cancelled
          /\ Goes(r, [Leaving(r) EXCEPT !.pc = "finish", !.cause = "cancelled"])
    /\ UNCHANGED <<review, cancelled, call, canceller, saved, app, crashes>>

\* Shards are taken in the order of the plan.
First(scope) == CHOOSE i \in scope : \A j \in scope : i <= j
NextPart(r, pc) == [workers[r] EXCEPT !.pc = pc, !.at = Nothing, !.scope = @ \ {workers[r].at}]
ShardStarts(r) ==
    LET first == First(workers[r].scope) IN
    /\ Current(r, "shards")
    /\ r \notin cancelled /\ workers[r].scope # {}
    /\ Change(r, [memory EXCEPT !.shards[first] = "running"],
              [workers[r] EXCEPT !.pc = "child", !.at = first])
    /\ UNCHANGED <<canCancel, runID, cancelled, call, canceller, saved, app, crashes>>
ShardsCut(r) ==
    /\ Current(r, "shards") /\ r \in cancelled
    /\ Goes(r, Leaving(r))
    /\ UNCHANGED <<review, cancelled, call, canceller, saved, app, crashes>>

Merged(s, i, submission) ==
    LET subs == [s.subs EXCEPT ![i] = submission] IN
    [s EXCEPT !.subs = subs, !.shards[i] = "done", !.checks = Reconciled(@, subs)]
\* (Mutant: whichever run is installed.)
ShardDoneAnyway(r, claims) ==
    /\ At(r, "child") /\ claims \in Findings[workers[r].at]
    /\ Change(r, Merged(memory, workers[r].at, claims),
              NextPart(r, "shards"))
    /\ UNCHANGED <<canCancel, runID, cancelled, call, canceller, saved, app, crashes>>
ShardDone(r, claims) ==
    /\ Current(r, "child") /\ claims \in Findings[workers[r].at]
    /\ Change(r, Merged(memory, workers[r].at, claims),
              NextPart(r, "shards"))
    /\ UNCHANGED <<canCancel, runID, cancelled, call, canceller, saved, app, crashes>>
\* (Mutant: a shard whose child has failed is taken again.)
ShardFailsAgain(r) ==
    /\ Current(r, "child")
    /\ \E state \in {"error", "cancelled"} :
          Change(r, [memory EXCEPT !.shards[workers[r].at] = state],
                 [workers[r] EXCEPT !.pc = "shards", !.at = Nothing])
    /\ UNCHANGED <<canCancel, runID, cancelled, call, canceller, saved, app, crashes>>
\* A child that runs out of time ends as cancelled, too.
ShardFails(r) ==
    /\ Current(r, "child")
    /\ \E state \in {"error", "cancelled"} :
          Change(r, [memory EXCEPT !.shards[workers[r].at] = state], NextPart(r, "shards"))
    /\ UNCHANGED <<canCancel, runID, cancelled, call, canceller, saved, app, crashes>>

\* From here on the scope is that of the checks that are not done.
Prepares(r) ==
    LET prepared == [memory EXCEPT !.checks = Reconciled(@, memory.subs)] IN
    /\ Current(r, "shards")
    /\ r \notin cancelled /\ workers[r].scope = {}
    /\ Change(r, prepared,
              [workers[r] EXCEPT !.pc = "checks", !.scope = UnfinishedChecks(prepared)])
    /\ UNCHANGED <<canCancel, runID, cancelled, call, canceller, saved, app, crashes>>
CheckStarts(r) ==
    LET first == First(workers[r].scope) IN
    /\ Current(r, "checks")
    /\ r \notin cancelled /\ workers[r].scope # {}
    /\ Change(r, [memory EXCEPT !.checks[first].state = "running",
                                !.checks[first].verdict = FALSE],
              [workers[r] EXCEPT !.pc = "checking", !.at = first])
    /\ UNCHANGED <<canCancel, runID, cancelled, call, canceller, saved, app, crashes>>
ChecksOver(r) ==
    /\ Current(r, "checks")
    /\ r \in cancelled \/ workers[r].scope = {}
    /\ Goes(r, Leaving(r))
    /\ UNCHANGED <<review, cancelled, call, canceller, saved, app, crashes>>
CheckEnds(r) ==
    LET i == workers[r].at IN
    /\ Current(r, "checking")
    /\ \E state \in {"done", "error", "cancelled"} :
          Change(r, [memory EXCEPT !.checks[i].state = state,
                                   !.checks[i].verdict = (state = "done")],
                 NextPart(r, "checks"))
    /\ UNCHANGED <<canCancel, runID, cancelled, call, canceller, saved, app, crashes>>

\* The worker writes its copy.  When that fails the run that is installed is
\* cancelled if it is the worker's; the last write of a worker is of no account.
Wrote(r) ==
    /\ workers[r] # Nothing /\ workers[r].copy # Nothing /\ workers[r].pc # "clear"
    /\ Goes(r, IF workers[r].pc = "final" THEN Nothing
               ELSE [workers[r] EXCEPT !.copy = Nothing])
Saves(r) ==
    /\ Wrote(r) /\ Written(workers[r].copy)
    /\ UNCHANGED <<review, cancelled, call, canceller, app, crashes>>
SaveFails(r) ==
    /\ Wrote(r)
    /\ cancelled' = IF runID = r /\ workers[r].pc # "final" THEN cancelled \cup {r}
                    ELSE cancelled
    /\ UNCHANGED <<review, call, canceller, saved, app, crashes>>

Leaves(r) ==
    /\ Current(r, "leave")
    /\ Goes(r, [workers[r] EXCEPT
                    !.pc = "finish",
                    !.cause = IF r \in cancelled THEN "cancelled" ELSE "none"])
    /\ UNCHANGED <<review, cancelled, call, canceller, saved, app, crashes>>

\* finishRepositoryReview settles what is open.  A cancelled review becomes
\* partial at its first failed part, and what comes after that fails as well.
Open == {"pending", "running"}
FailedShard(s, i) == \E j \in 1..i : s.shards[j] = "error"
FailedCheck(s, i) == \E j \in 1..i : s.checks[j] # Nothing /\ s.checks[j].state = "error"
\* (Mutant: a part that was running is partial, like the review.)
SettlesAsReview(state, cause, failed) ==
    IF state \notin Open THEN state
    ELSE IF cause = "cancelled" /\ ~failed THEN "cancelled" ELSE "partial"
Settles(state, cause, failed) ==
    IF state \notin Open THEN state
    ELSE IF cause = "cancelled" /\ ~failed THEN "cancelled" ELSE "error"
Settled(s, cause) ==
    [s EXCEPT
        !.shards = [i \in Shards |-> Settles(s.shards[i], cause, FailedShard(s, i))],
        !.checks = [i \in Shards |->
            IF s.checks[i] = Nothing THEN Nothing
            ELSE [s.checks[i] EXCEPT
                    !.state = Settles(@, cause, FailedShard(s, NumShards)
                                                \/ FailedCheck(s, i))]]]
Parts(s) ==
    {s.shards[i] : i \in Shards}
    \cup {s.checks[i].state : i \in {j \in Shards : s.checks[j] # Nothing}}
\* (Mutant: a part that was cancelled earlier does not count.)
OutcomeOfErrors(s, cause) ==
    IF "error" \in Parts(s) THEN "partial"
    ELSE IF cause = "none" THEN "complete"
    ELSE IF cause = "cancelled" THEN "cancelled" ELSE "error"
Outcome(s, cause) ==
    IF \/ "error" \in Parts(s)
       \/ cause # "cancelled" /\ "cancelled" \in Parts(s)
    THEN "partial"
    ELSE IF cause = "none" THEN "complete"
    ELSE IF cause = "cancelled" THEN "cancelled" ELSE "error"
Finished(s, cause) ==
    [Settled(s, cause) EXCEPT !.state = Outcome(Settled(s, cause), cause)]
\* (Mutant: a cancelled review leaves the flag to the one who cancelled it.)
FinishesQuietly(r) ==
    /\ Current(r, "finish")
    /\ Change(r, Finished(memory, workers[r].cause),
              [workers[r] EXCEPT !.pc = IF workers[r].cause = "cancelled" THEN "final"
                                        ELSE "clear",
                                 !.cause = "none"])
    /\ canCancel' = FALSE
    /\ UNCHANGED <<runID, cancelled, call, canceller, saved, app, crashes>>
Finishes(r) ==
    /\ Current(r, "finish")
    /\ Change(r, Finished(memory, workers[r].cause),
              [workers[r] EXCEPT !.pc = "clear", !.cause = "none"])
    /\ canCancel' = FALSE
    /\ UNCHANGED <<runID, cancelled, call, canceller, saved, app, crashes>>
\* The flag and the cancel function are cleared whoever set them.  (That the
\* context of r was cancelled is forgotten: nothing of r looks at it again.)
Clears(r) ==
    /\ workers[r] # Nothing /\ workers[r].pc = "clear"
    /\ flag' = FALSE /\ stop' = Nothing
    /\ Goes(r, [workers[r] EXCEPT !.pc = "final"])
    /\ cancelled' = cancelled \ {r}
    /\ UNCHANGED <<review, call, canceller, saved, agents, started, intruded, crashes>>

-----------------------------------------------------------------------------
\* What else uses the flag and the cancel function.
Looked == call # Nothing /\ call.pc # "copied"
AgentStarts ==
    /\ ~flag /\ crashes + started < MaxDisturbances
    /\ started' = started + 1
    /\ flag' = TRUE /\ stop' = Agent /\ agents' = agents + 1
    /\ intruded' = (intruded \/ Looked)
    /\ UNCHANGED <<review, cancelled, workers, call, canceller, saved, crashes>>
AgentEnds ==
    /\ agents > 0
    /\ flag' = FALSE /\ stop' = Nothing /\ agents' = agents - 1
    /\ UNCHANGED <<review, cancelled, workers, call, canceller, saved, started, intruded, crashes>>
StopAgent ==
    /\ stop \in RunIds
    /\ cancelled' = cancelled \cup {stop}
    /\ UNCHANGED <<review, workers, call, canceller, saved, app, crashes>>

\* The process ends, with whatever was to be written yet.  The run numbers
\* begin again in the code; no one is left who could tell.
Crash ==
    /\ crashes + started < MaxDisturbances
    /\ crashes' = crashes + 1
    /\ memory' = Nothing /\ canCancel' = FALSE /\ cancelled' = {}
    /\ workers' = [r \in RunIds |-> Nothing]
    /\ call' = Nothing /\ canceller' = Nothing
    /\ flag' = FALSE /\ stop' = Nothing /\ agents' = 0
    /\ UNCHANGED <<runID, saved, started, intruded>>

\* At startup, or when the status is asked for and nothing is loaded.
Interrupted(state) == IF state = "running" THEN "interrupted" ELSE state
Restored(s) ==
    LET checks == Reconciled(s.checks, s.subs) IN
    IF s.state \in {"running", "cancelling"}
    THEN [s EXCEPT !.state = "interrupted",
                   !.shards = [i \in Shards |-> Interrupted(s.shards[i])],
                   !.checks = [i \in Shards |->
                        IF checks[i] = Nothing THEN Nothing
                        ELSE [checks[i] EXCEPT !.state = Interrupted(@)]]]
    ELSE [s EXCEPT !.checks = checks]
Restore ==
    /\ memory = Nothing /\ saved # Nothing /\ Restorable(saved)
    /\ memory' = Restored(saved)
    /\ IF saved.state \in {"running", "cancelling"} THEN Written(memory')
       ELSE UNCHANGED saved
    /\ UNCHANGED <<canCancel, runID, cancelled, workers, call, canceller, app, crashes>>

CallStep ==
    \/ StartLooks \/ StartSaves
    \/ StartInstalls
    \/ ResumeCopies \/ ResumeLooks
    \/ \E i \in Shards : RetryLooks(i)
    \/ Installs \/ InstalledSaves \/ RollsBack
    \/ Launches \/ CallRefused
WorkerStep(r) ==
    \/ Begins(r) \/ ShardStarts(r) \/ ShardsCut(r)
    \/ \E claims \in SUBSET Claims : ShardDone(r, claims)
    \/ ShardFails(r)
    \/ Prepares(r) \/ CheckStarts(r) \/ ChecksOver(r) \/ CheckEnds(r)
    \/ Leaves(r) \/ Finishes(r) \/ Clears(r)
    \/ Saves(r) \/ SaveFails(r)
    \/ LeftBehind(r)

Next ==
    \/ CallStep
    \/ Cancel \/ CancelSaves
    \/ \E r \in RunIds : WorkerStep(r)
    \/ AgentStarts \/ AgentEnds \/ StopAgent
    \/ Crash \/ Restore

Spec == Init /\ [][Next]_vars

-----------------------------------------------------------------------------
TypeOK ==
    /\ memory \in Snapshot \cup {Nothing} /\ canCancel \in BOOLEAN
    /\ runID \in 0..MaxRuns /\ cancelled \subseteq RunIds
    /\ workers \in [RunIds -> Worker \cup {Nothing}]
    /\ call \in Call \cup {Nothing} /\ canceller \in Snapshot \cup {Nothing}
    /\ saved \in Snapshot \cup {Nothing}
    /\ flag \in BOOLEAN /\ stop \in RunIds \cup {Agent, Nothing}
    /\ agents \in Nat /\ intruded \in BOOLEAN /\ crashes \in Nat

\* Whatever is in memory, in the table or on its way there.
Snapshots ==
    {memory, canceller, saved}
    \cup {workers[r].copy : r \in {q \in RunIds : workers[q] # Nothing}}
    \cup (IF call = Nothing THEN {} ELSE {call.copy})
Known == Snapshots \ {Nothing}

\* A shard is never called done without its findings beside it, though status
\* and submissions are two variables that calls, the worker and a cancellation
\* copy at different moments and write in any order.
DoneIsSubmitted ==
    \A s \in Known : \A i \in Shards : s.shards[i] = "done" => s.subs[i] # Nothing

\* Only the worker of the run installed last answers for a shard or a check,
\* and nothing that is done is done again: what it has still to do is open,
\* whatever a worker left behind, a cancellation or a resume has done.
ScopeIsOpen ==
    \A r \in RunIds :
        r = runID /\ workers[r] # Nothing =>
            \A i \in workers[r].scope :
                IF workers[r].pc \in {"checks", "checking"}
                THEN i \in UnfinishedChecks(memory)
                ELSE i \in UnfinishedShards(memory)

\* A review that says complete has no part that waits, runs, failed or was
\* cancelled, whatever it was resumed or retried for and whatever was written
\* in between.  (An interrupted shard that a retry of another one left alone
\* does not keep it from saying so.)
CompleteIsAll ==
    \A s \in Known : s.state = "complete" => Parts(s) \subseteq {"done", "interrupted"}

\* A review that can be cancelled is under way: a call is about to launch its
\* worker, or the worker has still to finish it; it is never left "running"
\* with nobody to end it, so that it could be neither resumed nor retried.
ActiveIsDriven ==
    canCancel =>
        \/ AtCall("saving") \/ AtCall("installed")
        \/ \E r \in RunIds : r = runID /\ workers[r] # Nothing
                              /\ workers[r].pc \notin {"clear", "final"}

\* The app is never left busy: while the flag is set, an agent run or the
\* worker of the run installed last is there and will clear it.
FlagIsHeld ==
    flag => \/ agents > 0
            \/ \E r \in RunIds : r = runID /\ workers[r] # Nothing /\ workers[r].pc # "final"

\* Agent run and review exclude each other, and a stop reaches the one there
\* is, unless an agent run has started while a call built its plan.
Holders == {r \in RunIds : workers[r] # Nothing /\ workers[r].pc # "final"}
FlagIsToken ==
    ~intruded =>
        /\ flag <=> agents > 0 \/ Holders # {}
        /\ agents <= 1 /\ (agents > 0 => Holders = {} /\ stop = Agent)
        /\ \A r \in Holders : r = runID /\ stop = r

\* The steps a worker has still to take at the most: for every part of its
\* scope to start it, to end it and the two writes, and that twice over, since
\* the checks come after the shards.
StepsAt ==
    LET forChecks == 4 * NumShards IN
    [begin |-> forChecks + 9, shards |-> forChecks + 8, child |-> forChecks + 6,
     checks |-> 6, checking |-> 4, leave |-> 5, finish |-> 4, clear |-> 2, final |-> 0]
StepsLeft(w) ==
    StepsAt[w.pc] + 4 * Cardinality(w.scope) + (IF w.copy = Nothing THEN 0 ELSE 1)

\* A worker runs down: whatever its children report, whichever writes fail and
\* whoever cancels, resumes or retries, every step of it brings it nearer to its
\* end, and no step of another gives it more to do.  (What ActiveIsDriven and
\* FlagIsHeld wait for comes after a bounded number of its steps.)
RunsDown(r) ==
    workers'[r] = Nothing \/ StepsLeft(workers'[r]) < StepsLeft(workers[r])
WorkersRunDown ==
    [][\A r \in RunIds :
          workers[r] # Nothing /\ workers'[r] # workers[r] => RunsDown(r)]_vars

\* A check that is not done has no verdict in the row written last: a restore
\* refuses one that has ("unfinished repository review conflict check contains
\* a final verdict", repository_review_store.go).
VerdictOnlyWhenDone ==
    saved # Nothing =>
        \A i \in UnfinishedChecks(saved) : ~saved.checks[i].verdict
=============================================================================
