----------------------- MODULE RepositoryReviewProofs -----------------------
(***************************************************************************)
(* Theorems about RepositoryReview, for any number of shards, any findings *)
(* and any number of runs, agent runs and crashes: the types, the scope of *)
(* the workers, who holds the flag and ends the review, and that a worker  *)
(* runs down.  The steps of a worker are summed up first: one kind changes *)
(* the review and takes a copy of it (DataEffect), the other leaves it     *)
(* alone (QuietEffect).                                                    *)
(***************************************************************************)
EXTENDS RepositoryReview, FiniteSetTheorems, NaturalsInduction, WellFoundedInduction, TLAPS

\* A copy of the review that is as it should be.
Sound(s) == \A i \in Shards : s.shards[i] = "done" => s.subs[i] # Nothing
Covered(s) == \A i \in Shards : Conflict(s.subs[i]) => s.checks[i] # Nothing
Complete(s) ==
    s.state = "complete" => Parts(s) \subseteq {"done", "interrupted"} /\ Covered(s)

\* A snapshot with some of its fields changed.
LEMMA StateSet ==
    ASSUME NEW s \in Snapshot, NEW state \in ReviewStates,
           NEW n, n = [s EXCEPT !.state = state]
    PROVE  /\ n \in Snapshot /\ n.state = state
           /\ n.shards = s.shards /\ n.subs = s.subs /\ n.checks = s.checks
BY DEF Snapshot

LEMMA SubsSet ==
    ASSUME NEW s \in Snapshot, NEW t \in Snapshot,
           NEW n, n = [s EXCEPT !.subs = t.subs]
    PROVE  /\ n \in Snapshot /\ n.state = s.state
           /\ n.shards = s.shards /\ n.subs = t.subs /\ n.checks = s.checks
BY DEF Snapshot

LEMMA ShardSet ==
    ASSUME NEW s \in Snapshot, NEW i \in Shards, NEW state \in ShardStates,
           NEW n, n = [s EXCEPT !.shards[i] = state]
    PROVE  /\ n \in Snapshot /\ n.state = s.state
           /\ n.shards = [s.shards EXCEPT ![i] = state]
           /\ n.subs = s.subs /\ n.checks = s.checks
BY DEF Snapshot

CheckChanged(s, i, state, verdict) ==
    [s EXCEPT !.checks[i].state = state, !.checks[i].verdict = verdict]
LEMMA CheckSet ==
    ASSUME NEW s \in Snapshot, NEW i \in Shards, NEW state \in ShardStates,
           NEW verdict \in BOOLEAN, s.checks[i] # Nothing
    PROVE  LET n == CheckChanged(s, i, state, verdict) IN
           /\ n \in Snapshot /\ n.state = s.state
           /\ n.shards = s.shards /\ n.subs = s.subs
           /\ n.checks \in [Shards -> Check \cup {Nothing}]
           /\ n.checks[i] # Nothing /\ n.checks[i].state = state
           /\ \A j \in Shards : j # i => n.checks[j] = s.checks[j]
<1>1. s.checks \in [Shards -> Check \cup {Nothing}] /\ s.checks[i] \in Check
  BY DEF Snapshot
<1> DEFINE n == CheckChanged(s, i, state, verdict)
           check == [s.checks[i] EXCEPT !.state = state, !.verdict = verdict]
<1>2. check \in Check /\ check.state = state
  BY <1>1 DEF Check
<1>3. check # Nothing
  BY <1>2, NothingAssumption
<1>4. n = [s EXCEPT !.checks = [s.checks EXCEPT ![i] = check]]
  BY <1>1 DEF Snapshot, Check, CheckChanged
<1> HIDE DEF check, n
<1> DEFINE checks == [s.checks EXCEPT ![i] = check]
<1>5. /\ checks \in [Shards -> Check \cup {Nothing}] /\ checks[i] = check
      /\ \A j \in Shards : j # i => checks[j] = s.checks[j]
  BY <1>1, <1>2
<1> HIDE DEF checks
<1>6. n = [s EXCEPT !.checks = checks]
  BY <1>4 DEF checks
<1>7. n \in Snapshot /\ n.state = s.state /\ n.shards = s.shards /\ n.subs = s.subs /\ n.checks = checks
  BY <1>5, <1>6 DEF Snapshot
<1> QED
  BY <1>2, <1>3, <1>5, <1>7 DEF n

\* Reconciling makes a check of every conflict.
LEMMA ReconciledType ==
    ASSUME NEW checks \in [Shards -> Check \cup {Nothing}],
           NEW subs \in [Shards -> (SUBSET Claims) \cup {Nothing}]
    PROVE  /\ Reconciled(checks, subs) \in [Shards -> Check \cup {Nothing}]
           /\ \A i \in Shards : Conflict(subs[i]) => Reconciled(checks, subs)[i] # Nothing
<1> SUFFICES ASSUME NEW i \in Shards
             PROVE  /\ Reconciled(checks, subs)[i] \in Check \cup {Nothing}
                    /\ Conflict(subs[i]) => Reconciled(checks, subs)[i] # Nothing
  BY DEF Reconciled
<1> DEFINE fresh == [claims |-> subs[i], state |-> "pending", verdict |-> FALSE]
<1>1. ASSUME Conflict(subs[i]) PROVE fresh \in Check /\ fresh # Nothing
  <2>1. subs[i] \in SUBSET Claims
    BY <1>1 DEF Conflict
  <2>2. fresh \in Check
    BY <2>1 DEF Check, ShardStates, Unfinished
  <2> HIDE DEF fresh
  <2> QED
    BY <2>2, NothingAssumption
<1>2. Reconciled(checks, subs)[i] =
        IF ~Conflict(subs[i]) THEN Nothing
        ELSE IF checks[i] # Nothing /\ checks[i].claims = subs[i] THEN checks[i] ELSE fresh
  BY DEF Reconciled
<1> HIDE DEF fresh
<1> QED
  BY <1>1, <1>2

LEMMA ChecksSet ==
    ASSUME NEW s \in Snapshot,
           NEW n, n = [s EXCEPT !.checks = Reconciled(@, s.subs)]
    PROVE  /\ n \in Snapshot /\ n.state = s.state
           /\ n.shards = s.shards /\ n.subs = s.subs
           /\ n.checks = Reconciled(s.checks, s.subs)
<1>1. Reconciled(s.checks, s.subs) \in [Shards -> Check \cup {Nothing}]
  BY ReconciledType DEF Snapshot
<1> QED
  BY <1>1 DEF Snapshot

LEMMA MergedType ==
    ASSUME NEW s \in Snapshot, NEW i \in Shards, NEW claims \in SUBSET Claims
    PROVE  /\ Merged(s, i, claims) \in Snapshot
           /\ Merged(s, i, claims).state = s.state
           /\ Merged(s, i, claims).shards = [s.shards EXCEPT ![i] = "done"]
           /\ Merged(s, i, claims).subs = [s.subs EXCEPT ![i] = claims]
           /\ Merged(s, i, claims).checks = Reconciled(s.checks, [s.subs EXCEPT ![i] = claims])
<1> DEFINE subs == [s.subs EXCEPT ![i] = claims]
<1>1. subs \in [Shards -> (SUBSET Claims) \cup {Nothing}]
  BY DEF Snapshot
<1> HIDE DEF subs
<1>2. Reconciled(s.checks, subs) \in [Shards -> Check \cup {Nothing}]
  BY <1>1, ReconciledType DEF Snapshot
<1>3. [s.shards EXCEPT ![i] = "done"] \in [Shards -> ShardStates]
  BY DEF Snapshot, ShardStates
<1>4. Merged(s, i, claims) =
        [s EXCEPT !.subs = subs, !.shards = [s.shards EXCEPT ![i] = "done"],
                  !.checks = Reconciled(s.checks, subs)]
  BY DEF Merged, Snapshot, subs
<1>5. /\ Merged(s, i, claims) \in Snapshot
      /\ Merged(s, i, claims).state = s.state
      /\ Merged(s, i, claims).shards = [s.shards EXCEPT ![i] = "done"]
      /\ Merged(s, i, claims).subs = subs
      /\ Merged(s, i, claims).checks = Reconciled(s.checks, subs)
  BY <1>1, <1>2, <1>3, <1>4 DEF Snapshot
<1> QED
  BY <1>5 DEF subs

LEMMA FreshType ==
    /\ FreshReview \in Snapshot /\ FreshReview.state = "running"
    /\ \A i \in Shards : FreshReview.shards[i] = "pending" /\ FreshReview.subs[i] = Nothing
                         /\ FreshReview.checks[i] = Nothing
BY DEF FreshReview, Snapshot, ReviewStates, ShardStates, Unfinished

LEMMA RequeuedType ==
    ASSUME NEW s \in Snapshot
    PROVE  /\ Requeued(s) \in Snapshot /\ Requeued(s).state = "running"
           /\ Requeued(s).subs = s.subs
           /\ \A i \in Shards :
                 /\ Requeued(s).shards[i] = IF i \in call.shards THEN "pending" ELSE s.shards[i]
                 /\ Requeued(s).checks[i] = Nothing <=> s.checks[i] = Nothing
<1> DEFINE shards == [i \in Shards |-> IF i \in call.shards THEN "pending" ELSE s.shards[i]]
           checks == [i \in Shards |-> IF s.checks[i] # Nothing /\ Requeues(i)
                                       THEN [s.checks[i] EXCEPT !.state = "pending"]
                                       ELSE s.checks[i]]
<1>1. shards \in [Shards -> ShardStates]
  BY DEF Snapshot, ShardStates, Unfinished
<1>2. ASSUME NEW i \in Shards
      PROVE  checks[i] \in Check \cup {Nothing} /\ (checks[i] = Nothing <=> s.checks[i] = Nothing)
  <2>1. s.checks[i] \in Check \cup {Nothing}
    BY DEF Snapshot
  <2>2. s.checks[i] \in Check => [s.checks[i] EXCEPT !.state = "pending"] \in Check
    BY DEF Check, ShardStates, Unfinished
  <2> QED
    BY <2>1, <2>2, NothingAssumption
<1>3. checks \in [Shards -> Check \cup {Nothing}]
  BY <1>2
<1>4. Requeued(s) = [s EXCEPT !.state = "running", !.shards = shards, !.checks = checks]
  BY DEF Requeued, Snapshot
<1> HIDE DEF checks
<1>5. Requeued(s) \in Snapshot
  BY <1>1, <1>3, <1>4 DEF Snapshot, ReviewStates
<1>6. \A i \in Shards : shards[i] = IF i \in call.shards THEN "pending" ELSE s.shards[i]
  OBVIOUS
<1>7. Requeued(s).shards = shards /\ Requeued(s).checks = checks /\ Requeued(s).subs = s.subs
      /\ Requeued(s).state = "running"
  BY <1>4 DEF Snapshot
<1> HIDE DEF shards
<1> QED
  BY <1>2, <1>5, <1>6, <1>7

LEMMA SettlesType ==
    ASSUME NEW state \in ShardStates, NEW cause, NEW failed
    PROVE  /\ Settles(state, cause, failed) \in ShardStates \ Open
           /\ Settles(state, cause, failed) = "done" <=> state = "done"
BY DEF Settles, ShardStates, Unfinished, Open

LEMMA SettledType ==
    ASSUME NEW s \in Snapshot, NEW cause
    PROVE  /\ Settled(s, cause) \in Snapshot
           /\ Settled(s, cause).subs = s.subs
           /\ \A i \in Shards :
                  /\ Settled(s, cause).shards[i] \notin Open
                  /\ Settled(s, cause).shards[i] = "done" <=> s.shards[i] = "done"
                  /\ Settled(s, cause).checks[i] = Nothing <=> s.checks[i] = Nothing
                  /\ Settled(s, cause).checks[i] # Nothing =>
                        Settled(s, cause).checks[i].state \in ShardStates \ Open
<1> DEFINE shards == [i \in Shards |-> Settles(s.shards[i], cause, FailedShard(s, i))]
           failed(i) == FailedShard(s, NumShards) \/ FailedCheck(s, i)
           check(i) == [s.checks[i] EXCEPT !.state = Settles(@, cause, failed(i))]
           checks == [i \in Shards |-> IF s.checks[i] = Nothing THEN Nothing ELSE check(i)]
<1>1. ASSUME NEW i \in Shards
      PROVE  /\ shards[i] \in ShardStates \ Open
             /\ shards[i] = "done" <=> s.shards[i] = "done"
  <2>1. s.shards[i] \in ShardStates
    BY DEF Snapshot
  <2> QED
    BY <2>1, SettlesType
<1>2. ASSUME NEW i \in Shards
      PROVE  /\ checks[i] \in Check \cup {Nothing}
             /\ checks[i] = Nothing <=> s.checks[i] = Nothing
             /\ checks[i] # Nothing => checks[i].state \in ShardStates \ Open
  <2>1. CASE s.checks[i] = Nothing
    BY <2>1
  <2>2. CASE s.checks[i] # Nothing
    <3>1. s.checks[i] \in Check
      BY <2>2 DEF Snapshot
    <3>2. Settles(s.checks[i].state, cause, failed(i)) \in ShardStates \ Open
      BY <3>1, SettlesType DEF Check
    <3>3. check(i) \in Check /\ check(i).state \in ShardStates \ Open
      BY <3>1, <3>2 DEF Check
    <3>4. check(i) # Nothing
      BY <3>3, NothingAssumption
    <3>5. checks[i] = check(i)
      BY <2>2
    <3> HIDE DEF checks, check
    <3> QED
      BY <2>2, <3>3, <3>4, <3>5
  <2> QED
    BY <2>1, <2>2
<1>3. Settled(s, cause) = [s EXCEPT !.shards = shards, !.checks = checks]
  BY DEF Settled, Snapshot
<1>4. shards \in [Shards -> ShardStates] /\ checks \in [Shards -> Check \cup {Nothing}]
  BY <1>1, <1>2
<1> HIDE DEF shards, checks
<1>5. /\ Settled(s, cause) \in Snapshot
      /\ Settled(s, cause).subs = s.subs
      /\ Settled(s, cause).shards = shards /\ Settled(s, cause).checks = checks
  BY <1>3, <1>4 DEF Snapshot
<1> QED
  BY <1>1, <1>2, <1>5

\* A finished review that says complete has no part that is open, failed or
\* was cancelled.
LEMMA FinishedType ==
    ASSUME NEW s \in Snapshot, NEW cause \in {"none", "cancelled", "failed"}
    PROVE  /\ Finished(s, cause) \in Snapshot
           /\ Finished(s, cause).subs = s.subs
           /\ \A i \in Shards :
                 /\ Finished(s, cause).shards[i] = "done" <=> s.shards[i] = "done"
                 /\ Finished(s, cause).checks[i] = Nothing <=> s.checks[i] = Nothing
           /\ Finished(s, cause).state = "complete" =>
                 /\ cause = "none"
                 /\ Parts(Finished(s, cause)) \subseteq {"done", "interrupted"}
<1> DEFINE t == Settled(s, cause)
           n == Finished(s, cause)
<1>0. /\ t \in Snapshot /\ t.subs = s.subs
      /\ \A i \in Shards :
             /\ t.shards[i] \notin Open
             /\ t.shards[i] = "done" <=> s.shards[i] = "done"
             /\ t.checks[i] = Nothing <=> s.checks[i] = Nothing
             /\ t.checks[i] # Nothing => t.checks[i].state \in ShardStates \ Open
  BY SettledType, Zenon
<1>1. t \in Snapshot
  BY <1>0
<1>2. Outcome(t, cause) \in ReviewStates
  BY DEF Outcome, ReviewStates
<1>3. n = [t EXCEPT !.state = Outcome(t, cause)]
  BY DEF Finished
<1> HIDE DEF t, n
<1>4. /\ n \in Snapshot /\ n.state = Outcome(t, cause)
      /\ n.shards = t.shards /\ n.subs = t.subs /\ n.checks = t.checks
  BY <1>1, <1>2, <1>3, StateSet
<1>5. Parts(n) = Parts(t)
  BY <1>4 DEF Parts
<1>6. ASSUME Outcome(t, cause) = "complete"
      PROVE  cause = "none" /\ "error" \notin Parts(t) /\ "cancelled" \notin Parts(t)
  BY <1>6 DEF Outcome
<1>7. Parts(t) \subseteq ShardStates \ Open
  <2>1. \A i \in Shards : t.shards[i] \in ShardStates \ Open
    BY <1>0, <1>1 DEF Snapshot
  <2>2. \A i \in Shards : t.checks[i] # Nothing => t.checks[i].state \in ShardStates \ Open
    BY <1>0
  <2> QED
    BY <2>1, <2>2 DEF Parts
<1>8. Outcome(t, cause) = "complete" => Parts(t) \subseteq {"done", "interrupted"}
  BY <1>6, <1>7 DEF ShardStates, Unfinished, Open
<1>9. \A i \in Shards :
          /\ n.shards[i] = "done" <=> s.shards[i] = "done"
          /\ n.checks[i] = Nothing <=> s.checks[i] = Nothing
  BY <1>0, <1>4
<1>10. n.state = "complete" => cause = "none" /\ Parts(n) \subseteq {"done", "interrupted"}
  BY <1>4, <1>5, <1>6, <1>8
<1>11. n.subs = s.subs
  BY <1>0, <1>4
<1> QED
  BY <1>4, <1>9, <1>10, <1>11 DEF n

\* What a restore makes of a row it accepts.
LEMMA RestoredType ==
    ASSUME NEW s \in Snapshot, Restorable(s)
    PROVE  /\ Restored(s) \in Snapshot
           /\ Sound(Restored(s))
           /\ Complete(s) => Complete(Restored(s))
<1> DEFINE checks == Reconciled(s.checks, s.subs)
           stopped == [i \in Shards |-> IF checks[i] = Nothing THEN Nothing
                                        ELSE [checks[i] EXCEPT !.state = Interrupted(@)]]
           shards == [i \in Shards |-> Interrupted(s.shards[i])]
<1>1. /\ checks \in [Shards -> Check \cup {Nothing}]
      /\ \A i \in Shards : Conflict(s.subs[i]) => checks[i] # Nothing
  BY ReconciledType DEF Snapshot
<1>2. Sound(s)
  BY DEF Restorable, Sound
<1>3. CASE s.state \in {"running", "cancelling"}
  <2> DEFINE n == [s EXCEPT !.state = "interrupted", !.shards = shards, !.checks = stopped]
  <2>1. Restored(s) = n
    BY <1>3 DEF Restored, Snapshot
  <2>2. shards \in [Shards -> ShardStates]
    BY DEF Snapshot, Interrupted, ShardStates, Unfinished
  <2>3. \A i \in Shards : shards[i] = "done" => s.shards[i] = "done"
    BY DEF Interrupted
  <2>4. stopped \in [Shards -> Check \cup {Nothing}]
    <3> SUFFICES ASSUME NEW i \in Shards, checks[i] # Nothing
                 PROVE  [checks[i] EXCEPT !.state = Interrupted(@)] \in Check
      OBVIOUS
    <3> HIDE DEF checks
    <3> QED
      BY <1>1 DEF Check, Interrupted, ShardStates, Unfinished
  <2> HIDE DEF shards, stopped
  <2>5. n \in Snapshot /\ n.state = "interrupted" /\ n.shards = shards /\ n.subs = s.subs
    BY <2>2, <2>4 DEF Snapshot, ReviewStates
  <2> QED
    BY <1>2, <2>1, <2>3, <2>5 DEF Sound, Complete
<1>4. CASE s.state \notin {"running", "cancelling"}
  <2> DEFINE n == [s EXCEPT !.checks = checks]
  <2>1. Restored(s) = n
    BY <1>4 DEF Restored
  <2> HIDE DEF checks
  <2>2. n \in Snapshot /\ n.state = s.state /\ n.shards = s.shards /\ n.subs = s.subs
        /\ n.checks = checks
    BY <1>1 DEF Snapshot
  <2>3. ASSUME Complete(s), s.state = "complete"
        PROVE  Parts(n) \subseteq {"done", "interrupted"} /\ Covered(n)
    <3>1. Covered(s) /\ Parts(s) \subseteq {"done", "interrupted"}
      BY <2>3 DEF Complete
    <3>2. \A i \in Shards : checks[i] # Nothing => checks[i] = s.checks[i]
      BY <3>1 DEF Covered, checks, Reconciled, Restorable
    <3>3. Parts(n) \subseteq Parts(s)
      BY <2>2, <3>2 DEF Parts
    <3> QED
      BY <1>1, <2>2, <3>1, <3>3 DEF Covered
  <2> QED
    BY <1>2, <2>1, <2>2, <2>3 DEF Sound, Complete
<1> QED
  BY <1>3, <1>4

-----------------------------------------------------------------------------
Driving == {"begin", "shards", "child", "checks", "checking", "leave", "finish"}
Drives(r) == r = runID /\ workers[r] # Nothing /\ workers[r].pc \in Driving
Before == {"copied", "planned", "saved"}
After == {"saving", "installed"}

\* Which fields a call has filled in at which point.  From installing its
\* review to launching its worker, there is no worker of its run.
CallShape ==
    call # Nothing =>
        /\ call.pc \in Before => runID < MaxRuns
        /\ call.pc \in After => runID \in RunIds /\ workers[runID] = Nothing
        /\ call.pc = "copied" => call.kind = "resume"
        /\ call.pc = "saving" => call.kind # "start"
        /\ call.pc = "saved" => call.kind = "start"
        /\ call.kind = "start" => call.prev = Nothing
        /\ call.kind = "resume" /\ call.pc # "installed" => call.prev # Nothing
        /\ call.pc = "saving" => call.prev # Nothing /\ call.copy # Nothing
        /\ call.kind # "start" \/ call.pc \in After => memory # Nothing
NoFutureWorker == \A r \in RunIds : r > runID => workers[r] = Nothing
WorkerShape ==
    \A r \in RunIds : workers[r] # Nothing =>
        /\ memory # Nothing
        /\ workers[r].pc \in {"child", "checking"} => workers[r].at \in workers[r].scope
        /\ workers[r].pc \in {"leave", "finish", "clear", "final"} => workers[r].scope = {}
ActiveHasMemory == canCancel => memory # Nothing /\ runID \in RunIds
\* What a call has installed and hands to its worker is open when the worker
\* begins: with ScopeIsOpen this is inductive.
CallIsOpen ==
    call # Nothing /\ call.pc \in After =>
        \A i \in call.shards : i \in UnfinishedShards(memory)
Shape ==
    /\ TypeOK /\ CallShape /\ NoFutureWorker /\ WorkerShape /\ ActiveHasMemory
    /\ ScopeIsOpen /\ CallIsOpen

\* Where the parts of the plan are done, every conflict has a check.
Prepared(r) ==
    \/ workers[r].pc \in {"checks", "checking"}
    \/ workers[r].pc = "leave" /\ r \notin cancelled
    \/ workers[r].pc = "finish" /\ workers[r].cause = "none"
PreparedIsCovered ==
    \A r \in RunIds :
        r = runID /\ workers[r] # Nothing /\ Prepared(r) => Covered(memory)

Others == <<runID, call, canceller, app, crashes>>
InScope(s, w, i) ==
    IF w.pc \in {"checks", "checking"} THEN i \in UnfinishedChecks(s)
    ELSE i \in UnfinishedShards(s)
\* What a step of the worker does that takes a copy of what it has changed.
DataEffect(r) ==
    /\ Drives(r)
    /\ workers' = [workers EXCEPT ![r] = workers'[r]]
    /\ workers'[r] \in Worker /\ workers'[r].copy = memory'
    /\ memory' \in Snapshot
    /\ Sound(memory) => Sound(memory')
    /\ \A i \in Shards : memory.subs[i] # Nothing => memory'.subs[i] # Nothing
    /\ \/ memory'.state = memory.state /\ canCancel' = canCancel
          /\ workers'[r].pc \in Driving \ {"leave", "finish"}
       \/ canCancel' = FALSE /\ workers'[r].pc = "clear" /\ workers'[r].scope = {}
    /\ \A i \in workers'[r].scope : InScope(memory', workers'[r], i)
    /\ workers'[r].pc \in {"child", "checking"} => workers'[r].at \in workers'[r].scope
    /\ PreparedIsCovered /\ workers'[r].pc \in {"checks", "checking"} => Covered(memory')
    /\ PreparedIsCovered /\ memory.state \in {"running", "cancelling"} => Complete(memory')
    /\ UNCHANGED <<Others, cancelled, saved>>

\* A scope that is not empty has a first shard.
LEMMA FirstIsIn ==
    ASSUME NEW scope \in SUBSET Shards, scope # {}
    PROVE  First(scope) \in scope
<1> DEFINE R == OpToRel(<, Nat)
<1>1. scope \subseteq Nat
  BY ReviewAssumption DEF Shards
<1>2. IsWellFoundedOn(R, Nat)
  BY NatLessThanWellFounded
<1>3. \A i, j \in scope : j < i => <<j, i>> \in R
  BY <1>1 DEF OpToRel
<1> HIDE DEF R
<1>4. PICK i \in scope : \A j \in scope : <<j, i>> \notin R
  BY <1>1, <1>2, WFMin
<1>5. ASSUME NEW j \in scope PROVE i <= j
  <2>1. i \in Nat /\ j \in Nat /\ ~(j < i)
    BY <1>1, <1>3, <1>4
  <2> QED
    BY <2>1
<1> QED
  BY <1>5 DEF First

LEMMA WorkerHere ==
    ASSUME Shape, NEW r \in RunIds, workers[r] # Nothing
    PROVE  workers[r] \in Worker /\ memory \in Snapshot
BY DEF Shape, TypeOK, WorkerShape

\* The steps that change the review.
LEMMA ShardStartsEffect ==
    ASSUME Shape, NEW r \in RunIds, ShardStarts(r)
    PROVE  DataEffect(r)
<1> DEFINE w == workers[r]
           i == First(w.scope)
           s == [memory EXCEPT !.shards[i] = "running"]
           n == [[w EXCEPT !.pc = "child", !.at = i] EXCEPT !.copy = s]
<1>1. w \in Worker /\ w # Nothing /\ memory \in Snapshot /\ r = runID /\ w.pc = "shards"
  BY WorkerHere DEF ShardStarts, Current, At
<1>2. i \in w.scope /\ i \in Shards /\ w.scope \subseteq Shards
  BY <1>1, FirstIsIn DEF ShardStarts, Worker
<1>3. /\ s \in Snapshot /\ s.state = memory.state /\ s.shards = [memory.shards EXCEPT ![i] = "running"]
      /\ s.subs = memory.subs /\ s.checks = memory.checks
  <2>1. "running" \in ShardStates
    BY DEF ShardStates, Unfinished
  <2>2. s = [memory EXCEPT !.shards[i] = "running"]
    OBVIOUS
  <2> HIDE DEF i, s
  <2> QED
    BY <1>1, <1>2, <2>1, <2>2 DEF Snapshot
<1>4. memory' = s /\ workers' = [workers EXCEPT ![r] = n]
      /\ UNCHANGED <<canCancel, Others, cancelled, saved>>
  BY DEF ShardStarts, Change, Goes, Others
<1> HIDE DEF s, i
<1>5. n \in Worker /\ n.pc = "child" /\ n.at = i /\ n.scope = w.scope /\ n.copy = s
  BY <1>1, <1>2, <1>3 DEF Worker, WorkerPcs
<1> HIDE DEF n
<1>6. workers'[r] = n
  BY <1>4 DEF Shape, TypeOK
<1>7. \A j \in w.scope : memory.shards[j] # "done"
  BY <1>1 DEF Shape, ScopeIsOpen, UnfinishedShards
<1>8. memory.shards \in [Shards -> ShardStates]
  BY <1>1 DEF Snapshot
<1>9. \A j \in Shards : s.shards[j] = "done" => memory.shards[j] = "done"
  BY <1>3, <1>8
<1>10. \A j \in n.scope : InScope(s, n, j)
  BY <1>1, <1>2, <1>5, <1>7, <1>9 DEF InScope, UnfinishedShards
<1>11. memory.state \in {"running", "cancelling"} => Complete(s)
  BY <1>3 DEF Complete
<1>12. Sound(memory) => Sound(s)
  BY <1>3, <1>9 DEF Sound
<1> QED
  BY <1>1, <1>2, <1>3, <1>4, <1>5, <1>6, <1>10, <1>11, <1>12 DEF DataEffect, Drives, Driving

LEMMA ShardDoneEffect ==
    ASSUME Shape, NEW r \in RunIds, NEW claims \in SUBSET Claims, ShardDone(r, claims)
    PROVE  DataEffect(r)
<1> DEFINE w == workers[r]
           i == w.at
           s == Merged(memory, i, claims)
           n == [NextPart(r, "shards") EXCEPT !.copy = s]
<1>1. w \in Worker /\ w # Nothing /\ memory \in Snapshot /\ r = runID /\ w.pc = "child"
  BY WorkerHere DEF ShardDone, Current, At
<1>2. i \in w.scope /\ i \in Shards /\ w.scope \subseteq Shards
  BY <1>1 DEF Shape, WorkerShape, Worker
<1>3. claims # Nothing
  BY <1>2, ReviewAssumption DEF ShardDone, Shards
<1>4. /\ s \in Snapshot /\ s.state = memory.state
      /\ s.shards = [memory.shards EXCEPT ![i] = "done"]
      /\ s.subs = [memory.subs EXCEPT ![i] = claims]
  BY <1>1, <1>2, MergedType
<1>5. memory' = s /\ workers' = [workers EXCEPT ![r] = n]
      /\ UNCHANGED <<canCancel, Others, cancelled, saved>>
  BY DEF ShardDone, Change, Goes, Others
<1> HIDE DEF s
<1>6. n \in Worker /\ n.pc = "shards" /\ n.scope = w.scope \ {i} /\ n.copy = s
  BY <1>1, <1>2, <1>4 DEF Worker, WorkerPcs, NextPart
<1> HIDE DEF n, i
<1>7. workers'[r] = n
  BY <1>5 DEF Shape, TypeOK
<1>8. \A j \in w.scope : memory.shards[j] # "done"
  BY <1>1 DEF Shape, ScopeIsOpen, UnfinishedShards
<1>9. memory.shards \in [Shards -> ShardStates] /\ DOMAIN memory.subs = Shards
  BY <1>1 DEF Snapshot
<1>10. \A j \in Shards : j # i => s.shards[j] = memory.shards[j] /\ s.subs[j] = memory.subs[j]
  BY <1>2, <1>4, <1>9
<1>11. s.subs[i] # Nothing
  BY <1>2, <1>3, <1>4, <1>9
<1>12. \A j \in n.scope : InScope(s, n, j)
  BY <1>1, <1>2, <1>6, <1>8, <1>10 DEF InScope, UnfinishedShards
<1>13. memory.state \in {"running", "cancelling"} => Complete(s)
  BY <1>4 DEF Complete
<1>14. Sound(memory) => Sound(s)
  BY <1>10, <1>11 DEF Sound
<1>15. \A j \in Shards : memory.subs[j] # Nothing => s.subs[j] # Nothing
  BY <1>10, <1>11
<1> QED
  BY <1>1, <1>4, <1>5, <1>6, <1>7, <1>12, <1>13, <1>14, <1>15 DEF DataEffect, Drives, Driving

LEMMA ShardFailsEffect ==
    ASSUME Shape, NEW r \in RunIds, ShardFails(r)
    PROVE  DataEffect(r)
<1>0. PICK state \in {"error", "cancelled"} :
        Change(r, [memory EXCEPT !.shards[workers[r].at] = state], NextPart(r, "shards"))
  BY DEF ShardFails
<1> DEFINE w == workers[r]
           i == w.at
           s == [memory EXCEPT !.shards[i] = state]
           n == [NextPart(r, "shards") EXCEPT !.copy = s]
<1>1. w \in Worker /\ w # Nothing /\ memory \in Snapshot /\ r = runID /\ w.pc = "child"
  BY WorkerHere DEF ShardFails, Current, At
<1>2. i \in w.scope /\ i \in Shards /\ w.scope \subseteq Shards
  BY <1>1 DEF Shape, WorkerShape, Worker
<1>3. /\ s \in Snapshot /\ s.state = memory.state
      /\ s.shards = [memory.shards EXCEPT ![i] = state]
      /\ s.subs = memory.subs /\ s.checks = memory.checks
  <2>1. state \in ShardStates
    BY DEF ShardStates, Unfinished
  <2>2. s = [memory EXCEPT !.shards[i] = state]
    OBVIOUS
  <2> HIDE DEF i, s
  <2> QED
    BY <1>1, <1>2, <2>1, <2>2 DEF Snapshot
<1>4. memory' = s /\ workers' = [workers EXCEPT ![r] = n]
      /\ UNCHANGED <<canCancel, Others, cancelled, saved>>
  BY <1>0 DEF ShardFails, Change, Goes, Others
<1> HIDE DEF s
<1>5. n \in Worker /\ n.pc = "shards" /\ n.scope = w.scope \ {i} /\ n.copy = s
  BY <1>1, <1>2, <1>3 DEF Worker, WorkerPcs, NextPart
<1> HIDE DEF n, i
<1>6. workers'[r] = n
  BY <1>4 DEF Shape, TypeOK
<1>7. \A j \in w.scope : memory.shards[j] # "done"
  BY <1>1 DEF Shape, ScopeIsOpen, UnfinishedShards
<1>8. memory.shards \in [Shards -> ShardStates]
  BY <1>1 DEF Snapshot
<1>9. \A j \in Shards : s.shards[j] = "done" => memory.shards[j] = "done"
  BY <1>3, <1>8
<1>10. \A j \in n.scope : InScope(s, n, j)
  BY <1>1, <1>2, <1>5, <1>7, <1>9 DEF InScope, UnfinishedShards
<1>11. memory.state \in {"running", "cancelling"} => Complete(s)
  BY <1>3 DEF Complete
<1>12. Sound(memory) => Sound(s)
  BY <1>3, <1>9 DEF Sound
<1> QED
  BY <1>1, <1>3, <1>4, <1>5, <1>6, <1>10, <1>11, <1>12 DEF DataEffect, Drives, Driving

LEMMA PreparesEffect ==
    ASSUME Shape, NEW r \in RunIds, Prepares(r)
    PROVE  DataEffect(r)
<1> DEFINE w == workers[r]
           s == [memory EXCEPT !.checks = Reconciled(@, memory.subs)]
           n == [[w EXCEPT !.pc = "checks", !.scope = UnfinishedChecks(s)] EXCEPT !.copy = s]
<1>1. w \in Worker /\ w # Nothing /\ memory \in Snapshot /\ r = runID /\ w.pc = "shards"
  BY WorkerHere DEF Prepares, Current, At
<1>2. /\ s \in Snapshot /\ s.state = memory.state /\ s.shards = memory.shards
      /\ s.subs = memory.subs /\ s.checks = Reconciled(memory.checks, memory.subs)
  BY <1>1, ChecksSet
<1>3. Covered(s)
  BY <1>1, <1>2, ReconciledType DEF Covered, Snapshot
<1>4. memory' = s /\ workers' = [workers EXCEPT ![r] = n]
      /\ UNCHANGED <<canCancel, Others, cancelled, saved>>
  BY DEF Prepares, Change, Goes, Others
<1> HIDE DEF s
<1>5. n \in Worker /\ n.pc = "checks" /\ n.scope = UnfinishedChecks(s) /\ n.copy = s
  BY <1>1, <1>2 DEF Worker, WorkerPcs, UnfinishedChecks
<1> HIDE DEF n
<1>6. workers'[r] = n
  BY <1>4 DEF Shape, TypeOK
<1>7. \A j \in n.scope : InScope(s, n, j)
  BY <1>5 DEF InScope
<1>8. memory.state \in {"running", "cancelling"} => Complete(s)
  BY <1>2 DEF Complete
<1>9. Sound(memory) => Sound(s)
  BY <1>2 DEF Sound
<1> QED
  BY <1>1, <1>2, <1>3, <1>4, <1>5, <1>6, <1>7, <1>8, <1>9 DEF DataEffect, Drives, Driving

LEMMA CheckStartsEffect ==
    ASSUME Shape, NEW r \in RunIds, CheckStarts(r)
    PROVE  DataEffect(r)
<1> DEFINE w == workers[r]
           i == First(w.scope)
           s == [memory EXCEPT !.checks[i].state = "running", !.checks[i].verdict = FALSE]
           n == [[w EXCEPT !.pc = "checking", !.at = i] EXCEPT !.copy = s]
<1>1. w \in Worker /\ w # Nothing /\ memory \in Snapshot /\ r = runID /\ w.pc = "checks"
  BY WorkerHere DEF CheckStarts, Current, At
<1>2. i \in w.scope /\ i \in Shards /\ w.scope \subseteq Shards
  BY <1>1, FirstIsIn DEF CheckStarts, Worker
<1>3. \A j \in w.scope : j \in UnfinishedChecks(memory)
  BY <1>1 DEF Shape, ScopeIsOpen
<1>4. /\ s \in Snapshot /\ s.state = memory.state
      /\ s.shards = memory.shards /\ s.subs = memory.subs
      /\ s.checks[i] # Nothing /\ s.checks[i].state = "running"
      /\ \A j \in Shards : j # i => s.checks[j] = memory.checks[j]
  <2> DEFINE verdict == FALSE
  <2>1. "running" \in ShardStates /\ memory.checks[i] # Nothing /\ verdict \in BOOLEAN
    BY <1>2, <1>3 DEF ShardStates, Unfinished, UnfinishedChecks
  <2>2. s = CheckChanged(memory, i, "running", verdict)
    BY DEF CheckChanged
  <2> HIDE DEF verdict, s, i
  <2> QED
    BY <1>1, <1>2, <2>1, <2>2, CheckSet
<1>5. memory' = s /\ workers' = [workers EXCEPT ![r] = n]
      /\ UNCHANGED <<canCancel, Others, cancelled, saved>>
  BY DEF CheckStarts, Change, Goes, Others
<1> HIDE DEF s, i
<1>6. n \in Worker /\ n.pc = "checking" /\ n.at = i /\ n.scope = w.scope /\ n.copy = s
  BY <1>1, <1>2, <1>4 DEF Worker, WorkerPcs
<1> HIDE DEF n
<1>7. workers'[r] = n
  BY <1>5 DEF Shape, TypeOK
<1>8. \A j \in n.scope : InScope(s, n, j)
  BY <1>2, <1>3, <1>4, <1>6 DEF InScope, UnfinishedChecks
<1>9. memory.state \in {"running", "cancelling"} => Complete(s)
  BY <1>4 DEF Complete
<1>10. Sound(memory) => Sound(s)
  BY <1>4 DEF Sound
<1>11. PreparedIsCovered => Covered(memory)
  BY <1>1 DEF PreparedIsCovered, Prepared
<1>12. Covered(memory) => Covered(s)
  BY <1>4 DEF Covered
<1> QED
  BY <1>1, <1>2, <1>4, <1>5, <1>6, <1>7, <1>8, <1>9, <1>10, <1>11, <1>12
  DEF DataEffect, Drives, Driving

LEMMA CheckEndsEffect ==
    ASSUME Shape, NEW r \in RunIds, CheckEnds(r)
    PROVE  DataEffect(r)
<1>0. PICK state \in {"done", "error", "cancelled"} :
        Change(r, [memory EXCEPT !.checks[workers[r].at].state = state,
                                 !.checks[workers[r].at].verdict = (state = "done")],
               NextPart(r, "checks"))
  BY DEF CheckEnds
<1> DEFINE w == workers[r]
           i == w.at
           verdict == state = "done"
           s == [memory EXCEPT !.checks[i].state = state, !.checks[i].verdict = verdict]
           n == [NextPart(r, "checks") EXCEPT !.copy = s]
<1>1. w \in Worker /\ w # Nothing /\ memory \in Snapshot /\ r = runID /\ w.pc = "checking"
  BY WorkerHere DEF CheckEnds, Current, At
<1>2. i \in w.scope /\ i \in Shards /\ w.scope \subseteq Shards
  BY <1>1 DEF Shape, WorkerShape, Worker
<1>3. \A j \in w.scope : j \in UnfinishedChecks(memory)
  BY <1>1 DEF Shape, ScopeIsOpen
<1>4. /\ s \in Snapshot /\ s.state = memory.state
      /\ s.shards = memory.shards /\ s.subs = memory.subs
      /\ s.checks[i] # Nothing
      /\ \A j \in Shards : j # i => s.checks[j] = memory.checks[j]
  <2>1. state \in ShardStates /\ memory.checks[i] # Nothing /\ verdict \in BOOLEAN
    BY <1>2, <1>3 DEF ShardStates, Unfinished, UnfinishedChecks
  <2>2. s = CheckChanged(memory, i, state, verdict)
    BY DEF CheckChanged
  <2> HIDE DEF verdict, s, i
  <2> QED
    BY <1>1, <1>2, <2>1, <2>2, CheckSet
<1>5. memory' = s /\ workers' = [workers EXCEPT ![r] = n]
      /\ UNCHANGED <<canCancel, Others, cancelled, saved>>
  BY <1>0 DEF CheckEnds, Change, Goes, Others
<1> HIDE DEF s
<1>6. n \in Worker /\ n.pc = "checks" /\ n.scope = w.scope \ {i} /\ n.copy = s
  BY <1>1, <1>2, <1>4 DEF Worker, WorkerPcs, NextPart
<1> HIDE DEF n, i
<1>7. workers'[r] = n
  BY <1>5 DEF Shape, TypeOK
<1>8. \A j \in n.scope : InScope(s, n, j)
  BY <1>2, <1>3, <1>4, <1>6 DEF InScope, UnfinishedChecks
<1>9. memory.state \in {"running", "cancelling"} => Complete(s)
  BY <1>4 DEF Complete
<1>10. Sound(memory) => Sound(s)
  BY <1>4 DEF Sound
<1>11. PreparedIsCovered => Covered(memory)
  BY <1>1 DEF PreparedIsCovered, Prepared
<1>12. Covered(memory) => Covered(s)
  BY <1>4 DEF Covered
<1> QED
  BY <1>1, <1>2, <1>4, <1>5, <1>6, <1>7, <1>8, <1>9, <1>10, <1>11, <1>12
  DEF DataEffect, Drives, Driving

LEMMA FinishesEffect ==
    ASSUME Shape, NEW r \in RunIds, Finishes(r)
    PROVE  DataEffect(r)
<1> DEFINE w == workers[r]
           s == Finished(memory, w.cause)
           n == [[w EXCEPT !.pc = "clear", !.cause = "none"] EXCEPT !.copy = s]
<1>1. w \in Worker /\ w # Nothing /\ memory \in Snapshot /\ r = runID /\ w.pc = "finish"
      /\ w.scope = {}
  BY WorkerHere DEF Finishes, Current, At, Shape, WorkerShape
<1>2. w.cause \in {"none", "cancelled", "failed"}
  BY <1>1 DEF Worker
<1>3. /\ s \in Snapshot /\ s.subs = memory.subs
      /\ \A i \in Shards :
            /\ s.shards[i] = "done" <=> memory.shards[i] = "done"
            /\ s.checks[i] = Nothing <=> memory.checks[i] = Nothing
      /\ s.state = "complete" =>
            w.cause = "none" /\ Parts(s) \subseteq {"done", "interrupted"}
  BY <1>1, <1>2, FinishedType
<1>4. /\ memory' = s /\ workers' = [workers EXCEPT ![r] = n] /\ canCancel' = FALSE
      /\ UNCHANGED <<Others, cancelled, saved>>
  BY DEF Finishes, Change, Goes, Others
<1> HIDE DEF s
<1>5. n \in Worker /\ n.pc = "clear" /\ n.scope = {} /\ n.copy = s
  BY <1>1, <1>3 DEF Worker, WorkerPcs
<1> HIDE DEF n
<1>6. workers'[r] = n
  BY <1>4 DEF Shape, TypeOK
<1>7. Sound(memory) => Sound(s)
  BY <1>3 DEF Sound
<1>8. PreparedIsCovered /\ w.cause = "none" => Covered(memory)
  BY <1>1 DEF PreparedIsCovered, Prepared
<1>9. Covered(memory) => Covered(s)
  BY <1>3 DEF Covered
<1>10. PreparedIsCovered => Complete(s)
  BY <1>3, <1>8, <1>9 DEF Complete
<1> QED
  BY <1>1, <1>3, <1>4, <1>5, <1>6, <1>7, <1>10 DEF DataEffect, Drives, Driving

-----------------------------------------------------------------------------
\* The other steps of a worker leave the review alone.  One of three things
\* happens: the worker ends, it goes on, it clears the flag.
WorkerEnds(r) ==
    /\ workers'[r] = Nothing
    /\ workers[r].pc = "final" \/ r # runID
    /\ UNCHANGED <<flag, stop, cancelled>>
GoesOn(r) ==
    /\ workers[r].pc \in Driving /\ workers'[r].pc \in Driving
    /\ \/ workers'[r].scope = {} /\ workers'[r].pc \notin {"child", "checking"}
       \/ /\ workers'[r].scope = workers[r].scope
          /\ \/ workers'[r].pc = workers[r].pc
             \/ <<workers[r].pc, workers'[r].pc>> = <<"begin", "shards">>
             \/ <<workers[r].pc, workers'[r].pc>> = <<"leave", "finish">>
          /\ workers'[r].at = workers[r].at
    /\ Prepared(r)' => Prepared(r)
    /\ cancelled' \in {cancelled, cancelled \cup {r}}
    /\ UNCHANGED <<flag, stop>>
ClearsFlag(r) ==
    /\ workers[r].pc = "clear" /\ workers'[r].pc = "final"
    /\ workers'[r].scope = workers[r].scope
    /\ ~flag' /\ flag' \in BOOLEAN /\ stop' = Nothing
    /\ cancelled' = cancelled \ {r}
Moves(r) ==
    \/ WorkerEnds(r)
    \/ /\ workers'[r] \in Worker /\ workers'[r].copy \in {Nothing, workers[r].copy}
       /\ GoesOn(r) \/ ClearsFlag(r)
WritesCopy(r) == saved' = saved \/ (workers[r].copy # Nothing /\ saved' = workers[r].copy)
QuietRest == UNCHANGED <<review, call, canceller, agents, started, intruded, crashes>>
QuietEffect(r) ==
    /\ workers[r] # Nothing
    /\ workers' = [workers EXCEPT ![r] = workers'[r]]
    /\ Moves(r) /\ WritesCopy(r) /\ QuietRest

LEMMA BeginsEffect ==
    ASSUME Shape, NEW r \in RunIds, Begins(r)
    PROVE  QuietEffect(r)
<1> DEFINE w == workers[r]
<1>1. w \in Worker /\ w # Nothing /\ w.pc = "begin"
  BY WorkerHere DEF Begins, Current, At
<1>2. PICK n \in {[w EXCEPT !.pc = "shards"],
                  [Leaving(r) EXCEPT !.pc = "finish", !.cause = "failed"],
                  [Leaving(r) EXCEPT !.pc = "finish", !.cause = "cancelled"]} :
        workers' = [workers EXCEPT ![r] = n]
  BY DEF Begins, Goes
<1>3. /\ n \in Worker /\ n.copy = w.copy /\ n.at = w.at
      /\ \/ n.pc = "shards" /\ n.scope = w.scope
         \/ n.pc = "finish" /\ n.scope = {} /\ n.cause # "none"
  BY <1>1 DEF Worker, WorkerPcs, Leaving
<1>4. workers'[r] = n
  BY <1>2 DEF Shape, TypeOK
<1>5. UNCHANGED <<review, cancelled, call, canceller, saved, app, crashes>>
  BY DEF Begins
<1>6. GoesOn(r)
  BY <1>1, <1>3, <1>4, <1>5 DEF GoesOn, Driving, Prepared, app
<1>11. workers[r] # Nothing
  BY <1>1
<1>12. workers' = [workers EXCEPT ![r] = workers'[r]]
  BY <1>2, <1>4
<1>13. Moves(r)
  BY <1>1, <1>3, <1>4, <1>6 DEF Moves
<1>14. QuietRest
  BY <1>5 DEF QuietRest, app
<1>15. WritesCopy(r)
  BY <1>5 DEF WritesCopy
<1> QED
  BY <1>11, <1>12, <1>13, <1>14, <1>15 DEF QuietEffect

LEMMA ShardsCutEffect ==
    ASSUME Shape, NEW r \in RunIds, ShardsCut(r)
    PROVE  QuietEffect(r)
<1> DEFINE w == workers[r]
           n == Leaving(r)
<1>1. w \in Worker /\ w # Nothing /\ w.pc = "shards" /\ r \in cancelled
  BY WorkerHere DEF ShardsCut, Current, At
<1>2. n \in Worker /\ n.copy = w.copy /\ n.pc = "leave" /\ n.scope = {}
  BY <1>1 DEF Worker, WorkerPcs, Leaving
<1> HIDE DEF n
<1>3. /\ workers' = [workers EXCEPT ![r] = n] /\ workers'[r] = n
      /\ UNCHANGED <<review, cancelled, call, canceller, saved, app, crashes>>
  BY DEF ShardsCut, Goes, Shape, TypeOK, n
<1>4. GoesOn(r)
  BY <1>1, <1>2, <1>3 DEF GoesOn, Driving, Prepared, app
<1>11. workers[r] # Nothing
  BY <1>1
<1>12. workers' = [workers EXCEPT ![r] = workers'[r]]
  BY <1>3
<1>13. Moves(r)
  BY <1>2, <1>3, <1>4 DEF Moves
<1>14. QuietRest
  BY <1>3 DEF QuietRest, app
<1>15. WritesCopy(r)
  BY <1>3 DEF WritesCopy
<1> QED
  BY <1>11, <1>12, <1>13, <1>14, <1>15 DEF QuietEffect

LEMMA ChecksOverEffect ==
    ASSUME Shape, NEW r \in RunIds, ChecksOver(r)
    PROVE  QuietEffect(r)
<1> DEFINE w == workers[r]
           n == Leaving(r)
<1>1. w \in Worker /\ w # Nothing /\ w.pc = "checks"
  BY WorkerHere DEF ChecksOver, Current, At
<1>2. n \in Worker /\ n.copy = w.copy /\ n.pc = "leave" /\ n.scope = {}
  BY <1>1 DEF Worker, WorkerPcs, Leaving
<1> HIDE DEF n
<1>3. /\ workers' = [workers EXCEPT ![r] = n] /\ workers'[r] = n
      /\ UNCHANGED <<review, cancelled, call, canceller, saved, app, crashes>>
  BY DEF ChecksOver, Goes, Shape, TypeOK, n
<1>4. GoesOn(r)
  BY <1>1, <1>2, <1>3 DEF GoesOn, Driving, Prepared, app
<1>11. workers[r] # Nothing
  BY <1>1
<1>12. workers' = [workers EXCEPT ![r] = workers'[r]]
  BY <1>3
<1>13. Moves(r)
  BY <1>2, <1>3, <1>4 DEF Moves
<1>14. QuietRest
  BY <1>3 DEF QuietRest, app
<1>15. WritesCopy(r)
  BY <1>3 DEF WritesCopy
<1> QED
  BY <1>11, <1>12, <1>13, <1>14, <1>15 DEF QuietEffect

LEMMA LeavesEffect ==
    ASSUME Shape, NEW r \in RunIds, Leaves(r)
    PROVE  QuietEffect(r)
<1> DEFINE w == workers[r]
           cause == IF r \in cancelled THEN "cancelled" ELSE "none"
           n == [w EXCEPT !.pc = "finish", !.cause = cause]
<1>1. w \in Worker /\ w # Nothing /\ w.pc = "leave" /\ w.scope = {}
  BY WorkerHere DEF Leaves, Current, At, Shape, WorkerShape
<1>2. n \in Worker /\ n.copy = w.copy /\ n.pc = "finish" /\ n.scope = {} /\ n.cause = cause
  BY <1>1 DEF Worker, WorkerPcs
<1>3. /\ workers' = [workers EXCEPT ![r] = n] /\ workers'[r] = n
      /\ UNCHANGED <<review, cancelled, call, canceller, saved, app, crashes>>
  BY DEF Leaves, Goes, Shape, TypeOK
<1> HIDE DEF n
<1>4. GoesOn(r)
  BY <1>1, <1>2, <1>3 DEF GoesOn, Driving, Prepared, app
<1>11. workers[r] # Nothing
  BY <1>1
<1>12. workers' = [workers EXCEPT ![r] = workers'[r]]
  BY <1>3
<1>13. Moves(r)
  BY <1>2, <1>3, <1>4 DEF Moves
<1>14. QuietRest
  BY <1>3 DEF QuietRest, app
<1>15. WritesCopy(r)
  BY <1>3 DEF WritesCopy
<1> QED
  BY <1>11, <1>12, <1>13, <1>14, <1>15 DEF QuietEffect

LEMMA ClearsEffect ==
    ASSUME Shape, NEW r \in RunIds, Clears(r)
    PROVE  QuietEffect(r)
<1> DEFINE w == workers[r]
           n == [w EXCEPT !.pc = "final"]
<1>1. w \in Worker /\ w # Nothing /\ w.pc = "clear"
  BY WorkerHere DEF Clears
<1>2. n \in Worker /\ n.copy = w.copy /\ n.pc = "final" /\ n.scope = w.scope
  BY <1>1 DEF Worker, WorkerPcs
<1>3. /\ workers' = [workers EXCEPT ![r] = n] /\ workers'[r] = n
      /\ UNCHANGED <<review, call, canceller, saved, agents, started, intruded, crashes>>
  BY DEF Clears, Goes, Shape, TypeOK
<1> HIDE DEF n
<1>4. ClearsFlag(r)
  BY <1>1, <1>2, <1>3 DEF ClearsFlag, Clears
<1>5. workers[r] # Nothing
  BY <1>1
<1>6. workers' = [workers EXCEPT ![r] = workers'[r]]
  BY <1>3
<1>7. Moves(r)
  BY <1>2, <1>3, <1>4 DEF Moves
<1>8. QuietRest
  BY <1>3 DEF QuietRest
<1>9. WritesCopy(r)
  BY <1>3 DEF WritesCopy
<1> QED
  BY <1>5, <1>6, <1>7, <1>8, <1>9 DEF QuietEffect

LEMMA WroteEffect ==
    ASSUME Shape, NEW r \in RunIds, Saves(r) \/ SaveFails(r)
    PROVE  QuietEffect(r)
<1> DEFINE w == workers[r]
           n == [w EXCEPT !.copy = Nothing]
<1>1. w \in Worker /\ w # Nothing /\ w.pc # "clear" /\ w.copy # Nothing
  BY WorkerHere DEF Saves, SaveFails, Wrote
<1>2. n \in Worker /\ n.copy = Nothing /\ n.pc = w.pc /\ n.scope = w.scope /\ n.at = w.at
      /\ n.cause = w.cause
  BY <1>1 DEF Worker
<1>3. /\ UNCHANGED <<review, call, canceller, app, crashes>>
      /\ saved' = saved \/ saved' = w.copy
      /\ w.pc = "final" => cancelled' = cancelled
      /\ cancelled' \in {cancelled, cancelled \cup {r}}
  BY DEF Saves, SaveFails, Written
<1>4. Wrote(r)
  BY DEF Saves, SaveFails
<1> HIDE DEF n
<1>5. CASE w.pc = "final"
  <2>1. workers' = [workers EXCEPT ![r] = Nothing] /\ workers'[r] = Nothing
    BY <1>4, <1>5 DEF Wrote, Goes, Shape, TypeOK
  <2>2. WorkerEnds(r)
    BY <1>3, <1>5, <2>1 DEF WorkerEnds, app
  <2>3. workers[r] # Nothing /\ workers' = [workers EXCEPT ![r] = workers'[r]]
    BY <1>1, <2>1
  <2>4. QuietRest
    BY <1>3 DEF QuietRest, app
  <2>5. WritesCopy(r)
    BY <1>1, <1>3 DEF WritesCopy
  <2> QED
    BY <2>2, <2>3, <2>4, <2>5 DEF QuietEffect, Moves
<1>6. CASE w.pc # "final"
  <2>1. workers' = [workers EXCEPT ![r] = n] /\ workers'[r] = n
    BY <1>4, <1>6 DEF Wrote, Goes, Shape, TypeOK, n
  <2>2. w.pc \in Driving
    BY <1>1, <1>6 DEF Driving, Worker, WorkerPcs
  <2>3. w.pc \in {"child", "checking"} => w.at \in w.scope
    BY <1>1 DEF Shape, WorkerShape
  <2>4. GoesOn(r)
    BY <1>2, <1>3, <2>1, <2>2, <2>3 DEF GoesOn, Prepared, app
  <2>5. workers[r] # Nothing /\ workers' = [workers EXCEPT ![r] = workers'[r]]
    BY <1>1, <2>1
  <2>6. Moves(r)
    BY <1>2, <2>1, <2>4 DEF Moves
  <2>7. QuietRest
    BY <1>3 DEF QuietRest, app
  <2>8. WritesCopy(r)
    BY <1>1, <1>3 DEF WritesCopy
  <2> QED
    BY <2>5, <2>6, <2>7, <2>8 DEF QuietEffect
<1> QED
  BY <1>5, <1>6

LEMMA LeftBehindEffect ==
    ASSUME Shape, NEW r \in RunIds, LeftBehind(r)
    PROVE  QuietEffect(r)
<1>1. workers' = [workers EXCEPT ![r] = Nothing] /\ workers'[r] = Nothing
  BY DEF LeftBehind, Ends, Goes, Shape, TypeOK
<1>2. WorkerEnds(r)
  BY <1>1 DEF LeftBehind, WorkerEnds, app
<1>3. workers[r] # Nothing /\ workers' = [workers EXCEPT ![r] = workers'[r]]
  BY <1>1 DEF LeftBehind
<1>4. QuietRest
  BY DEF LeftBehind, QuietRest, app
<1>5. WritesCopy(r)
  BY DEF LeftBehind, WritesCopy
<1> QED
  BY <1>2, <1>3, <1>4, <1>5 DEF QuietEffect, Moves

\* Every step of a worker is of one of the two kinds.
LEMMA WorkerEffect ==
    ASSUME Shape, NEW r \in RunIds, WorkerStep(r)
    PROVE  DataEffect(r) \/ QuietEffect(r)
BY BeginsEffect, ShardStartsEffect, ShardsCutEffect, ShardDoneEffect, ShardFailsEffect,
   PreparesEffect, CheckStartsEffect, ChecksOverEffect, CheckEndsEffect, LeavesEffect,
   FinishesEffect, ClearsEffect, WroteEffect, LeftBehindEffect DEF WorkerStep

-----------------------------------------------------------------------------
\* The shape of the state.
LEMMA DataShape ==
    ASSUME Shape, NEW r \in RunIds, DataEffect(r)
    PROVE  Shape'
<1>1. /\ r = runID /\ workers[r] # Nothing /\ workers[r].pc \in Driving
      /\ workers' = [workers EXCEPT ![r] = workers'[r]]
      /\ workers'[r] \in Worker /\ workers'[r].copy = memory' /\ memory' \in Snapshot
      /\ workers'[r] # Nothing /\ memory' # Nothing
  BY NothingAssumption DEF DataEffect, Drives
<1>2. /\ runID' = runID /\ call' = call /\ canceller' = canceller /\ crashes' = crashes
      /\ UNCHANGED <<flag, stop, agents, intruded, cancelled, saved>>
  BY DEF DataEffect, Others, app
<1>3. \A q \in RunIds : q # r => workers'[q] = workers[q]
  BY <1>1 DEF Shape, TypeOK
<1>4. call = Nothing \/ call.pc \in Before
  BY <1>1 DEF Shape, CallShape, TypeOK, Call, Before, After
<1>5. TypeOK'
  <2>1. canCancel' \in BOOLEAN
    BY DEF Shape, TypeOK, DataEffect
  <2>2. workers' \in [RunIds -> Worker \cup {Nothing}]
    BY <1>1 DEF Shape, TypeOK
  <2> QED
    BY <1>1, <1>2, <2>1, <2>2 DEF Shape, TypeOK
<1>6. CallShape'
  BY <1>1, <1>2, <1>4 DEF Shape, CallShape, Before, After
<1>7. NoFutureWorker'
  BY <1>1, <1>2, <1>3 DEF Shape, NoFutureWorker, RunIds, TypeOK
<1>8. WorkerShape'
  <2> SUFFICES ASSUME NEW q \in RunIds, workers'[q] # Nothing
               PROVE  /\ workers'[q].pc \in {"child", "checking"} =>
                            workers'[q].at \in workers'[q].scope
                      /\ workers'[q].pc \in {"leave", "finish", "clear", "final"} =>
                            workers'[q].scope = {}
    BY <1>1 DEF WorkerShape
  <2>1. CASE q = r
    BY <2>1 DEF DataEffect, Driving
  <2>2. CASE q # r
    BY <1>3, <2>2 DEF Shape, WorkerShape
  <2> QED
    BY <2>1, <2>2
<1>9. ActiveHasMemory'
  BY <1>1, <1>2 DEF ActiveHasMemory
<1>10. ScopeIsOpen'
  BY <1>1, <1>2 DEF ScopeIsOpen, DataEffect, InScope
<1>11. CallIsOpen'
  BY <1>2, <1>4 DEF CallIsOpen, Before, After
<1> QED
  BY <1>5, <1>6, <1>7, <1>8, <1>9, <1>10, <1>11 DEF Shape

LEMMA QuietShape ==
    ASSUME Shape, NEW r \in RunIds, QuietEffect(r)
    PROVE  Shape'
<1>1. /\ workers[r] # Nothing /\ workers' = [workers EXCEPT ![r] = workers'[r]]
      /\ memory \in Snapshot /\ workers[r] \in Worker
  BY WorkerHere DEF QuietEffect
<1>2. /\ runID' = runID /\ memory' = memory /\ canCancel' = canCancel /\ call' = call
      /\ UNCHANGED <<canceller, crashes, agents, started, intruded>>
  BY DEF QuietEffect, QuietRest, review
<1>3. \A q \in RunIds : q # r => workers'[q] = workers[q]
  BY <1>1 DEF Shape, TypeOK
<1>4. Moves(r) /\ WritesCopy(r)
  BY DEF QuietEffect
<1>5. workers'[r] \in Worker \cup {Nothing}
  BY <1>4 DEF Moves, WorkerEnds
<1>6. TypeOK'
  <2>1. workers' \in [RunIds -> Worker \cup {Nothing}]
    BY <1>1, <1>5 DEF Shape, TypeOK
  <2>2. saved' \in Snapshot \cup {Nothing}
    BY <1>1, <1>4 DEF WritesCopy, Shape, TypeOK, Worker
  <2>3. cancelled' \subseteq RunIds
    BY <1>4 DEF Moves, WorkerEnds, GoesOn, ClearsFlag, Shape, TypeOK
  <2>4. flag' \in BOOLEAN
    BY <1>4 DEF Moves, WorkerEnds, GoesOn, ClearsFlag, Shape, TypeOK
  <2>5. stop' \in RunIds \cup {Agent, Nothing}
    BY <1>4 DEF Moves, WorkerEnds, GoesOn, ClearsFlag, Shape, TypeOK
  <2> QED
    BY <1>2, <2>1, <2>2, <2>3, <2>4, <2>5 DEF Shape, TypeOK
<1>7. CallShape'
  <2>1. runID \in RunIds /\ workers[runID] = Nothing => workers'[runID] = Nothing
    BY <1>1, <1>3
  <2> QED
    BY <1>1, <1>2, <2>1 DEF Shape, CallShape
<1>8. NoFutureWorker'
  BY <1>1, <1>2, <1>3 DEF Shape, NoFutureWorker
<1>9. WorkerShape'
  <2> SUFFICES ASSUME NEW q \in RunIds, workers'[q] # Nothing
               PROVE  /\ workers'[q].pc \in {"child", "checking"} =>
                            workers'[q].at \in workers'[q].scope
                      /\ workers'[q].pc \in {"leave", "finish", "clear", "final"} =>
                            workers'[q].scope = {}
    BY <1>1, <1>2, NothingAssumption DEF WorkerShape
  <2>1. CASE q = r
    <3>1. CASE GoesOn(r)
      BY <1>1, <2>1, <3>1 DEF GoesOn, Driving, Shape, WorkerShape
    <3>2. CASE ClearsFlag(r)
      BY <1>1, <2>1, <3>2 DEF ClearsFlag, Shape, WorkerShape
    <3> QED
      BY <1>4, <2>1, <3>1, <3>2 DEF Moves, WorkerEnds
  <2>2. CASE q # r
    BY <1>3, <2>2 DEF Shape, WorkerShape
  <2> QED
    BY <2>1, <2>2
<1>10. ActiveHasMemory'
  BY <1>2 DEF Shape, ActiveHasMemory
<1>11. ScopeIsOpen'
  <2> SUFFICES ASSUME NEW q \in RunIds, q = runID, workers'[q] # Nothing, NEW i \in workers'[q].scope
               PROVE  IF workers'[q].pc \in {"checks", "checking"} THEN i \in UnfinishedChecks(memory)
                      ELSE i \in UnfinishedShards(memory)
    BY <1>2 DEF ScopeIsOpen, UnfinishedChecks, UnfinishedShards
  <2>1. CASE q = r
    <3>1. CASE GoesOn(r)
      BY <1>1, <2>1, <3>1 DEF GoesOn, Driving, Shape, ScopeIsOpen, WorkerShape
    <3>2. CASE ClearsFlag(r)
      BY <1>1, <2>1, <3>2 DEF ClearsFlag, Shape, WorkerShape
    <3> QED
      BY <1>4, <2>1, <3>1, <3>2 DEF Moves, WorkerEnds
  <2>2. CASE q # r
    BY <1>3, <2>2 DEF Shape, ScopeIsOpen
  <2> QED
    BY <2>1, <2>2
<1>12. CallIsOpen'
  BY <1>2 DEF Shape, CallIsOpen, UnfinishedShards
<1> QED
  BY <1>6, <1>7, <1>8, <1>9, <1>10, <1>11, <1>12 DEF Shape

\* Steps of a call that leave the review in memory alone.
CallEffect ==
    /\ UNCHANGED <<review, cancelled, workers, canceller, app, crashes>>
    /\ saved' \in Snapshot \cup {Nothing}
    /\ call' \in Call \cup {Nothing}
    /\ CallShape' /\ CallIsOpen'
LEMMA CallEffectShape ==
    ASSUME Shape, CallEffect
    PROVE  Shape'
<1>1. /\ UNCHANGED <<memory, canCancel, runID, cancelled, workers, canceller, crashes>>
      /\ UNCHANGED <<flag, stop, agents, started, intruded>>
  BY DEF CallEffect, review, app
<1>2. TypeOK'
  BY <1>1 DEF CallEffect, Shape, TypeOK
<1>3. NoFutureWorker' /\ WorkerShape' /\ ActiveHasMemory'
  BY <1>1 DEF Shape, NoFutureWorker, WorkerShape, ActiveHasMemory
<1>4. ScopeIsOpen'
  BY <1>1 DEF Shape, ScopeIsOpen, UnfinishedChecks, UnfinishedShards
<1> QED
  BY <1>2, <1>3, <1>4 DEF CallEffect, Shape

LEMMA CallingType ==
    ASSUME NEW kind \in {"start", "resume", "retry"}, NEW pc \in Before \cup After,
           NEW shards \in SUBSET Shards, NEW prev \in Snapshot \cup {Nothing}
    PROVE  LET c == Calling(kind, pc, shards, prev) IN
           /\ c \in Call /\ c # Nothing /\ c.kind = kind /\ c.pc = pc /\ c.shards = shards
           /\ c.prev = prev /\ c.copy = Nothing
<1> DEFINE c == Calling(kind, pc, shards, prev)
<1>1. c \in Call /\ c.kind = kind /\ c.pc = pc /\ c.shards = shards /\ c.prev = prev
      /\ c.copy = Nothing
  BY DEF Calling, Call, Before, After
<1> HIDE DEF c
<1>2. c # Nothing
  BY <1>1, NothingAssumption
<1> QED
  BY <1>1, <1>2 DEF c

LEMMA LooksShape ==
    ASSUME Shape, StartLooks \/ ResumeCopies \/ ResumeLooks
                  \/ (\E i \in Shards : RetryLooks(i)) \/ CallRefused
    PROVE  CallEffect
<1>1. CASE StartLooks
  <2>1. call' \in Call /\ call' # Nothing /\ call'.kind = "start" /\ call'.pc = "planned"
        /\ call'.prev = Nothing
    BY <1>1, CallingType DEF StartLooks, Before, After
  <2>2. CallShape' /\ CallIsOpen'
    BY <1>1, <2>1 DEF StartLooks, CallShape, CallIsOpen, Before, After, review
  <2> QED
    BY <1>1, <2>1, <2>2 DEF StartLooks, CallEffect, Shape, TypeOK
<1>2. CASE ResumeCopies
  <2>0. memory \in Snapshot /\ UnfinishedShards(memory) \in SUBSET Shards
    BY <1>2 DEF ResumeCopies, Shape, TypeOK, UnfinishedShards
  <2>1. call' \in Call /\ call' # Nothing /\ call'.kind = "resume" /\ call'.pc = "copied"
        /\ call'.prev = memory
    BY <1>2, <2>0, CallingType DEF ResumeCopies, Before, After
  <2>2. CallShape' /\ CallIsOpen'
    BY <1>2, <2>1 DEF ResumeCopies, CallShape, CallIsOpen, Before, After, review
  <2> QED
    BY <1>2, <2>1, <2>2 DEF ResumeCopies, CallEffect, Shape, TypeOK
<1>3. CASE ResumeLooks
  <2>1. call \in Call /\ call.pc = "copied"
    BY <1>3 DEF ResumeLooks, AtCall, Shape, TypeOK
  <2>2. call' \in Call /\ call'.pc = "planned" /\ call'.kind = call.kind
        /\ call'.prev = call.prev
    BY <1>3, <2>1 DEF ResumeLooks, Call
  <2>3. call.kind = "resume"
    BY <2>1, NothingAssumption DEF Shape, CallShape
  <2>4. CallShape' /\ CallIsOpen'
    BY <1>3, <2>1, <2>2, <2>3, NothingAssumption
    DEF ResumeLooks, Shape, CallShape, CallIsOpen, Before, After, review
  <2> QED
    BY <1>3, <2>2, <2>4 DEF ResumeLooks, CallEffect, Shape, TypeOK
<1>4. CASE \E i \in Shards : RetryLooks(i)
  <2>0. PICK i \in Shards : RetryLooks(i)
    BY <1>4
  <2>1. call' \in Call /\ call' # Nothing /\ call'.kind = "retry" /\ call'.pc = "planned"
        /\ call'.prev = Nothing
    BY <2>0, CallingType DEF RetryLooks, Before, After
  <2>2. CallShape' /\ CallIsOpen'
    BY <2>0, <2>1 DEF RetryLooks, CallShape, CallIsOpen, Before, After, review
  <2> QED
    BY <2>0, <2>1, <2>2 DEF RetryLooks, CallEffect, Shape, TypeOK
<1>5. CASE CallRefused
  BY <1>5 DEF CallRefused, CallEffect, CallShape, CallIsOpen, Shape, TypeOK
<1> QED
  BY <1>1, <1>2, <1>3, <1>4, <1>5

LEMMA SavesShape ==
    ASSUME Shape, StartSaves \/ InstalledSaves
    PROVE  CallEffect
<1>1. call \in Call
  BY DEF StartSaves, InstalledSaves, AtCall, Shape, TypeOK
<1>2. CASE StartSaves
  <2>1. call' \in Call /\ call' # Nothing /\ call'.pc = "saved" /\ call'.kind = "start"
        /\ call'.prev = call.prev
    BY <1>1, <1>2, NothingAssumption DEF StartSaves, Call
  <2>2. CallShape' /\ CallIsOpen'
    BY <1>1, <1>2, <2>1, NothingAssumption
    DEF StartSaves, AtCall, Shape, CallShape, CallIsOpen, Before, After, review
  <2> QED
    BY <1>2, <2>1, <2>2, FreshType DEF StartSaves, CallEffect, Written
<1>3. CASE InstalledSaves
  <2>1. call' \in Call /\ call' # Nothing /\ call'.pc = "installed" /\ call'.kind = call.kind
        /\ call'.prev = Nothing /\ call'.shards = call.shards
    BY <1>1, <1>3, NothingAssumption DEF InstalledSaves, Call
  <2>2. CallShape' /\ CallIsOpen'
    BY <1>1, <1>3, <2>1, NothingAssumption
    DEF InstalledSaves, AtCall, Shape, CallShape, CallIsOpen, Before, After, review, UnfinishedShards
  <2>3. saved' \in Snapshot \cup {Nothing}
    BY <1>1, <1>3 DEF InstalledSaves, Written, Call
  <2> QED
    BY <1>3, <2>1, <2>2, <2>3 DEF InstalledSaves, CallEffect
<1> QED
  BY <1>2, <1>3

\* Installing a review: under a new run number, with the shards of the call open.
LEMMA InstallsShape ==
    ASSUME Shape, StartInstalls \/ Installs
    PROVE  /\ Shape' /\ canCancel' /\ memory' \in Snapshot
           /\ runID' = runID + 1 /\ runID' \in RunIds /\ workers'[runID'] = Nothing
           /\ call' \in Call /\ call'.pc \in After
<1>1. call \in Call /\ call # Nothing /\ call.pc \in Before /\ runID < MaxRuns
  BY NothingAssumption
  DEF StartInstalls, Installs, AtCall, Shape, TypeOK, CallShape, Before
<1>2. /\ memory' \in Snapshot /\ memory' # Nothing
      /\ call' \in Call /\ call' # Nothing /\ call'.pc \in After /\ call'.kind = call.kind
      /\ call'.shards = call.shards
      /\ \A i \in call.shards : memory'.shards[i] = "pending"
      /\ call'.pc = "saving" => call'.kind # "start" /\ call'.prev # Nothing /\ call'.copy # Nothing
      /\ call.kind = "start" => call'.prev = call.prev /\ call'.pc = "installed"
      /\ call.kind # "start" => call'.pc = "saving"
  <2>1. CASE StartInstalls
    <3>1. memory' = FreshReview /\ call' = [call EXCEPT !.pc = "installed"] /\ call.kind = "start"
      BY <1>1, <2>1 DEF StartInstalls, AtCall, Shape, CallShape
    <3>2. call.shards \subseteq Shards
      BY <1>1 DEF Call
    <3> QED
      BY <1>1, <3>1, <3>2, FreshType, NothingAssumption DEF Call, After
  <2>2. CASE Installs
    <3>1. memory \in Snapshot /\ call.kind # "start"
      BY <1>1, <2>2 DEF Installs, Shape, TypeOK, CallShape
    <3> DEFINE m == Requeued(memory)
               copy == [m EXCEPT !.subs = call.prev.subs]
    <3>2. m \in Snapshot /\ \A i \in Shards : i \in call.shards => m.shards[i] = "pending"
      BY <3>1, RequeuedType
    <3>3. memory' = m
      BY <2>2 DEF Installs
    <3>4. CASE call.kind = "resume"
      <4>1. call.prev \in Snapshot
        BY <1>1, <2>2, <3>4 DEF Shape, CallShape, Call, Installs, AtCall
      <4>2. copy \in Snapshot
        BY <3>2, <4>1, SubsSet
      <4>3. call' = [call EXCEPT !.pc = "saving", !.copy = copy]
        BY <2>2, <3>4 DEF Installs
      <4> HIDE DEF copy, m
      <4>4. call' \in Call /\ call'.pc = "saving" /\ call'.copy = copy /\ call'.prev = call.prev
            /\ call'.kind = call.kind /\ call'.shards = call.shards
        BY <1>1, <4>2, <4>3 DEF Call
      <4>5. call.shards \subseteq Shards
        BY <1>1 DEF Call
      <4> QED
        BY <3>2, <3>3, <3>4, <4>1, <4>2, <4>4, <4>5, NothingAssumption DEF After
    <3>5. CASE call.kind # "resume"
      <4>1. call' = [call EXCEPT !.pc = "saving", !.prev = memory, !.copy = m]
        BY <2>2, <3>5 DEF Installs
      <4> HIDE DEF m
      <4>2. call' \in Call /\ call'.pc = "saving" /\ call'.copy = m /\ call'.prev = memory
            /\ call'.kind = call.kind /\ call'.shards = call.shards
        BY <1>1, <3>1, <3>2, <4>1 DEF Call
      <4>3. call.shards \subseteq Shards
        BY <1>1 DEF Call
      <4> QED
        BY <3>1, <3>2, <3>3, <3>5, <4>2, <4>3, NothingAssumption DEF After
    <3> QED
      BY <3>4, <3>5
  <2> QED
    BY <2>1, <2>2
<1>3. /\ runID' = runID + 1 /\ canCancel' /\ canCancel' \in BOOLEAN
      /\ UNCHANGED <<cancelled, workers, canceller, saved, crashes, flag, stop, agents, started, intruded>>
  BY DEF StartInstalls, Installs, app
<1>4. runID \in Nat /\ MaxRuns \in Nat /\ runID \in 0..MaxRuns
  BY ReviewAssumption DEF Shape, TypeOK
<1>5. runID' \in RunIds /\ workers[runID'] = Nothing
  BY <1>1, <1>3, <1>4 DEF Shape, NoFutureWorker, RunIds
<1>6. TypeOK'
  BY <1>1, <1>2, <1>3, <1>4 DEF Shape, TypeOK
<1>7. CallShape'
  BY <1>1, <1>2, <1>3, <1>5 DEF Shape, CallShape, Before, After, Call
<1>8. NoFutureWorker'
  BY <1>3, <1>4 DEF Shape, NoFutureWorker, RunIds
<1>9. WorkerShape' /\ ActiveHasMemory'
  BY <1>2, <1>3, <1>5 DEF Shape, WorkerShape, ActiveHasMemory
<1>10. ScopeIsOpen'
  BY <1>3, <1>5 DEF ScopeIsOpen
<1>11. CallIsOpen'
  BY <1>1, <1>2 DEF CallIsOpen, UnfinishedShards, Call
<1> QED
  BY <1>2, <1>3, <1>5, <1>6, <1>7, <1>8, <1>9, <1>10, <1>11 DEF Shape

LEMMA RollsBackShape ==
    ASSUME Shape, RollsBack
    PROVE  Shape'
<1>1. /\ call \in Call /\ call # Nothing /\ call.prev \in Snapshot /\ memory \in Snapshot
      /\ runID \in RunIds /\ workers[runID] = Nothing
  BY DEF RollsBack, AtCall, Shape, TypeOK, CallShape, After, Call
<1>2. memory' \in Snapshot
  BY <1>1, SubsSet DEF RollsBack
<1>3. /\ ~canCancel' /\ canCancel' \in BOOLEAN /\ call' = Nothing
      /\ UNCHANGED <<runID, cancelled, workers, canceller, saved, crashes>>
      /\ UNCHANGED <<flag, stop, agents, started, intruded>>
  BY DEF RollsBack, app
<1>4. TypeOK'
  BY <1>2, <1>3 DEF Shape, TypeOK
<1>5. CallShape' /\ CallIsOpen' /\ ActiveHasMemory'
  BY <1>3 DEF CallShape, CallIsOpen, ActiveHasMemory
<1>6. NoFutureWorker'
  BY <1>3 DEF Shape, NoFutureWorker
<1>7. WorkerShape'
  BY <1>2, <1>3, NothingAssumption DEF Shape, WorkerShape
<1>8. ScopeIsOpen'
  BY <1>1, <1>3 DEF ScopeIsOpen
<1> QED
  BY <1>4, <1>5, <1>6, <1>7, <1>8 DEF Shape

LEMMA LaunchesShape ==
    ASSUME Shape, Launches
    PROVE  /\ Shape' /\ runID \in RunIds /\ call \in Call /\ memory \in Snapshot
           /\ workers' = [workers EXCEPT ![runID] = NewWorker(call.shards)]
           /\ workers'[runID] = NewWorker(call.shards)
           /\ NewWorker(call.shards) \in Worker
<1>1. /\ call \in Call /\ call # Nothing /\ call.pc \in After /\ memory \in Snapshot
      /\ runID \in RunIds /\ runID \in Nat
  BY ReviewAssumption DEF Launches, AtCall, Shape, TypeOK, CallShape, After
<1> DEFINE n == NewWorker(call.shards)
<1>2. n \in Worker /\ n.pc = "begin" /\ n.scope = call.shards
  BY <1>1 DEF NewWorker, Worker, WorkerPcs, Call
<1>3. /\ workers' = [workers EXCEPT ![runID] = n] /\ flag' = TRUE /\ stop' = runID /\ call' = Nothing
      /\ UNCHANGED <<memory, canCancel, runID, cancelled, canceller, saved, crashes>>
      /\ UNCHANGED <<agents, started, intruded>>
  BY DEF Launches, review
<1> HIDE DEF n
<1>4. workers'[runID] = n /\ \A q \in RunIds : q # runID => workers'[q] = workers[q]
  BY <1>1, <1>3 DEF Shape, TypeOK
<1>5. TypeOK'
  <2>1. workers' \in [RunIds -> Worker \cup {Nothing}]
    BY <1>2, <1>3 DEF Shape, TypeOK
  <2> QED
    BY <1>1, <1>3, <2>1 DEF Shape, TypeOK
<1>6. CallShape' /\ CallIsOpen' /\ ActiveHasMemory'
  BY <1>3 DEF CallShape, CallIsOpen, Shape, ActiveHasMemory
<1>7. NoFutureWorker'
  BY <1>1, <1>3, <1>4 DEF Shape, NoFutureWorker, RunIds
<1>8. WorkerShape'
  <2> SUFFICES ASSUME NEW q \in RunIds, workers'[q] # Nothing
               PROVE  /\ memory # Nothing
                      /\ workers'[q].pc \in {"child", "checking"} => workers'[q].at \in workers'[q].scope
                      /\ workers'[q].pc \in {"leave", "finish", "clear", "final"} => workers'[q].scope = {}
    BY <1>3 DEF WorkerShape
  <2> QED
    BY <1>1, <1>2, <1>4, NothingAssumption DEF Shape, WorkerShape
<1>9. ScopeIsOpen'
  BY <1>1, <1>2, <1>3, <1>4
  DEF Shape, ScopeIsOpen, CallIsOpen, UnfinishedShards, UnfinishedChecks
<1> QED
  BY <1>1, <1>2, <1>3, <1>4, <1>5, <1>6, <1>7, <1>8, <1>9 DEF Shape, n

LEMMA CancelShape ==
    ASSUME Shape, Cancel
    PROVE  /\ Shape' /\ memory \in Snapshot /\ memory' \in Snapshot
           /\ memory'.state = "cancelling" /\ memory'.shards = memory.shards
           /\ memory'.subs = memory.subs /\ memory'.checks = memory.checks
<1>1. memory \in Snapshot
  BY DEF Cancel, Shape, TypeOK, ActiveHasMemory
<1>2. /\ memory' \in Snapshot /\ memory'.state = "cancelling" /\ memory'.shards = memory.shards
      /\ memory'.subs = memory.subs /\ memory'.checks = memory.checks
  BY <1>1, StateSet DEF Cancel, ReviewStates
<1>3. /\ ~canCancel' /\ canCancel' \in BOOLEAN /\ canceller' = memory'
      /\ cancelled' = cancelled \cup {runID}
      /\ UNCHANGED <<runID, workers, call, saved, crashes, flag, stop, agents, started, intruded>>
  BY DEF Cancel, app
<1>4. runID \in RunIds
  BY DEF Cancel, Shape, ActiveHasMemory
<1>5. TypeOK'
  BY <1>2, <1>3, <1>4 DEF Shape, TypeOK
<1>6. CallShape'
  BY <1>2, <1>3, NothingAssumption DEF Shape, CallShape
<1>7. NoFutureWorker' /\ ActiveHasMemory'
  BY <1>3 DEF Shape, NoFutureWorker, ActiveHasMemory
<1>8. WorkerShape'
  BY <1>2, <1>3, NothingAssumption DEF Shape, WorkerShape
<1>9. ScopeIsOpen'
  BY <1>2, <1>3 DEF Shape, ScopeIsOpen, UnfinishedChecks, UnfinishedShards
<1>10. CallIsOpen'
  BY <1>2, <1>3 DEF Shape, CallIsOpen, UnfinishedShards
<1> QED
  BY <1>1, <1>2, <1>5, <1>6, <1>7, <1>8, <1>9, <1>10 DEF Shape

LEMMA RestoreShape ==
    ASSUME Shape, Restore
    PROVE  /\ Shape' /\ saved \in Snapshot /\ memory' = Restored(saved) /\ memory' \in Snapshot
           /\ \A r \in RunIds : workers[r] = Nothing
           /\ call # Nothing => call.pc \in Before /\ call.prev = Nothing
           /\ ~canCancel
<1>1. saved \in Snapshot /\ Restorable(saved) /\ memory = Nothing
  BY DEF Restore, Shape, TypeOK
<1>2. memory' \in Snapshot /\ memory' = Restored(saved)
  BY <1>1, RestoredType DEF Restore
<1>3. saved' \in {saved, memory'}
  BY DEF Restore, Written
<1>4. /\ UNCHANGED <<canCancel, runID, cancelled, workers, call, canceller, crashes>>
      /\ UNCHANGED <<flag, stop, agents, started, intruded>>
  BY DEF Restore, app
<1>5. \A r \in RunIds : workers[r] = Nothing
  BY <1>1 DEF Shape, WorkerShape
<1>6. call # Nothing => call.pc \in Before /\ call.kind = "start" /\ call.prev = Nothing
  BY <1>1 DEF Shape, CallShape, TypeOK, Call, Before, After
<1>7. ~canCancel
  BY <1>1 DEF Shape, ActiveHasMemory
<1>8. TypeOK'
  BY <1>1, <1>2, <1>3, <1>4 DEF Shape, TypeOK
<1>9. CallShape' /\ CallIsOpen'
  BY <1>4, <1>6 DEF Shape, CallShape, CallIsOpen, Before, After
<1>10. NoFutureWorker' /\ ActiveHasMemory' /\ WorkerShape' /\ ScopeIsOpen'
  BY <1>4, <1>5, <1>7 DEF NoFutureWorker, ActiveHasMemory, WorkerShape, ScopeIsOpen
<1> QED
  BY <1>1, <1>2, <1>5, <1>6, <1>7, <1>8, <1>9, <1>10 DEF Shape

\* Steps that change nothing the shape is about.
LEMMA OthersShape ==
    ASSUME Shape,
           CancelSaves \/ AgentStarts \/ AgentEnds \/ StopAgent \/ UNCHANGED vars
    PROVE  Shape'
<1>1. UNCHANGED <<memory, canCancel, runID, workers, call, crashes>>
  BY DEF CancelSaves, AgentStarts, AgentEnds, StopAgent, vars, review, app
<1>2. TypeOK'
  <2>1. canceller' \in Snapshot \cup {Nothing} /\ saved' \in Snapshot \cup {Nothing}
    BY DEF CancelSaves, AgentStarts, AgentEnds, StopAgent, vars, Written, Shape, TypeOK
  <2>2. cancelled' \subseteq RunIds
    BY DEF CancelSaves, AgentStarts, AgentEnds, StopAgent, vars, Shape, TypeOK
  <2>3. flag' \in BOOLEAN
    BY DEF CancelSaves, AgentStarts, AgentEnds, StopAgent, vars, app, Shape, TypeOK
  <2>4. stop' \in RunIds \cup {Agent, Nothing}
    BY DEF CancelSaves, AgentStarts, AgentEnds, StopAgent, vars, app, Shape, TypeOK
  <2>5. agents' \in Nat
    BY DEF CancelSaves, AgentStarts, AgentEnds, StopAgent, vars, app, Shape, TypeOK
  <2>6. intruded' \in BOOLEAN
    BY DEF CancelSaves, AgentStarts, AgentEnds, StopAgent, vars, app, Shape, TypeOK, Looked
  <2> QED
    BY <1>1, <2>1, <2>2, <2>3, <2>4, <2>5, <2>6 DEF Shape, TypeOK
<1>3. CallShape' /\ NoFutureWorker' /\ WorkerShape' /\ ActiveHasMemory'
  BY <1>1 DEF Shape, CallShape, NoFutureWorker, WorkerShape, ActiveHasMemory
<1>4. ScopeIsOpen' /\ CallIsOpen'
  BY <1>1 DEF Shape, ScopeIsOpen, CallIsOpen, UnfinishedChecks, UnfinishedShards
<1> QED
  BY <1>2, <1>3, <1>4 DEF Shape

LEMMA CrashShape ==
    ASSUME Shape, Crash
    PROVE  Shape'
<1>1. /\ memory' = Nothing /\ canCancel' = FALSE /\ cancelled' = {} /\ call' = Nothing
      /\ workers' = [r \in RunIds |-> Nothing] /\ canceller' = Nothing
      /\ UNCHANGED <<runID, saved, intruded>>
  BY DEF Crash
<1>2. TypeOK'
  <2>1. workers' \in [RunIds -> Worker \cup {Nothing}]
    BY <1>1
  <2>2. flag' = FALSE /\ stop' = Nothing /\ agents' = 0 /\ crashes' \in Nat
    BY DEF Crash, Shape, TypeOK
  <2>3. flag' \in BOOLEAN /\ canCancel' \in BOOLEAN
    BY <1>1, <2>2
  <2> QED
    BY <1>1, <2>1, <2>2, <2>3 DEF Shape, TypeOK
<1>3. CallShape' /\ NoFutureWorker' /\ WorkerShape' /\ ActiveHasMemory' /\ ScopeIsOpen'
      /\ CallIsOpen'
  BY <1>1
  DEF CallShape, NoFutureWorker, WorkerShape, ActiveHasMemory, ScopeIsOpen, CallIsOpen
<1> QED
  BY <1>2, <1>3 DEF Shape

LEMMA ShapeInit == Init => Shape
<1> SUFFICES ASSUME Init PROVE Shape
  OBVIOUS
<1>1. TypeOK
  <2>1. workers \in [RunIds -> Worker \cup {Nothing}]
    BY DEF Init
  <2>2. flag \in BOOLEAN /\ canCancel \in BOOLEAN /\ intruded \in BOOLEAN
    BY DEF Init
  <2> QED
    BY <2>1, <2>2, ReviewAssumption DEF Init, TypeOK
<1>2. CallShape /\ NoFutureWorker /\ WorkerShape /\ ActiveHasMemory /\ ScopeIsOpen /\ CallIsOpen
  BY DEF Init, CallShape, NoFutureWorker, WorkerShape, ActiveHasMemory, ScopeIsOpen, CallIsOpen
<1> QED
  BY <1>1, <1>2 DEF Shape

LEMMA ShapeStep == Shape /\ [Next]_vars => Shape'
<1> SUFFICES ASSUME Shape, [Next]_vars PROVE Shape'
  OBVIOUS
<1>1. CASE CallStep
  BY <1>1, LooksShape, SavesShape, CallEffectShape, InstallsShape, RollsBackShape, LaunchesShape
  DEF CallStep
<1>2. CASE \E r \in RunIds : WorkerStep(r)
  BY <1>2, WorkerEffect, DataShape, QuietShape
<1>3. CASE Cancel
  BY <1>3, CancelShape
<1>4. CASE Restore
  BY <1>4, RestoreShape
<1>5. CASE Crash
  BY <1>5, CrashShape
<1>6. CASE CancelSaves \/ AgentStarts \/ AgentEnds \/ StopAgent \/ UNCHANGED vars
  BY <1>6, OthersShape
<1> QED
  BY <1>1, <1>2, <1>3, <1>4, <1>5, <1>6 DEF Next

\* Everything in the model has its type.
THEOREM TypeCorrect == Spec => []TypeOK
<1>1. Shape => TypeOK
  BY DEF Shape
<1> QED
  BY <1>1, ShapeInit, ShapeStep, PTL DEF Spec

\* Only the worker of the run installed last answers for a part of the review,
\* and nothing that is done is done again.
THEOREM OpenScope == Spec => []ScopeIsOpen
<1>1. Shape => ScopeIsOpen
  BY DEF Shape
<1> QED
  BY <1>1, ShapeInit, ShapeStep, PTL DEF Spec

-----------------------------------------------------------------------------
\* Who has the flag, and who ends the review.
\* Past its look a call has found the app free, and only an agent run can have
\* taken it since: the look and the claim are not one step.
LookedIsFree ==
    Looked => /\ flag => agents > 0
              /\ ~intruded => ~flag
Control == ActiveIsDriven /\ LookedIsFree /\ FlagIsHeld /\ FlagIsToken

\* What a step of a worker does to the things the control is about.
LEMMA WorkerControl ==
    ASSUME Shape, Control, NEW r \in RunIds, DataEffect(r) \/ QuietEffect(r)
    PROVE  Control'
<1>1. /\ workers[r] # Nothing /\ workers' = [workers EXCEPT ![r] = workers'[r]]
      /\ runID' = runID /\ call' = call /\ UNCHANGED <<agents, intruded>>
      /\ \A q \in RunIds : q # r => workers'[q] = workers[q]
  <2>1. workers[r] # Nothing /\ workers' = [workers EXCEPT ![r] = workers'[r]]
    BY DEF DataEffect, QuietEffect, Drives
  <2>2. runID' = runID /\ call' = call /\ UNCHANGED <<agents, intruded>>
    BY DEF DataEffect, QuietEffect, QuietRest, Others, review, app
  <2> QED
    BY <2>1, <2>2 DEF Shape, TypeOK
<1>2. workers[r] \in Worker
  BY <1>1 DEF Shape, TypeOK
<1>3. CASE DataEffect(r)
  <2>1. /\ r = runID /\ workers[r].pc \in Driving
        /\ workers'[r] # Nothing /\ flag' = flag /\ stop' = stop
        /\ \/ canCancel' = canCancel /\ workers'[r].pc \in Driving
           \/ canCancel' = FALSE /\ workers'[r].pc = "clear"
    BY <1>3, NothingAssumption DEF DataEffect, Drives, Others, app
  <2>2. ActiveIsDriven'
    BY <1>1, <2>1 DEF ActiveIsDriven, Control, Driving
  <2>3. LookedIsFree'
    BY <1>1, <2>1 DEF Control, LookedIsFree, Looked
  <2>4. FlagIsHeld'
    BY <1>1, <2>1 DEF Control, FlagIsHeld, Driving
  <2>5. Holders' = Holders
    BY <1>1, <2>1 DEF Holders, Driving
  <2>6. FlagIsToken'
    BY <1>1, <2>1, <2>5 DEF Control, FlagIsToken
  <2> QED
    BY <2>2, <2>3, <2>4, <2>6 DEF Control
<1>4. CASE QuietEffect(r)
  <2>1. canCancel' = canCancel /\ Moves(r)
    BY <1>4 DEF QuietEffect, QuietRest, review
  <2>2. CASE WorkerEnds(r)
    <3>1. /\ workers'[r] = Nothing /\ flag' = flag /\ stop' = stop
          /\ workers[r].pc = "final" \/ r # runID
      BY <2>2 DEF WorkerEnds
    <3>2. ActiveIsDriven'
      BY <1>1, <2>1, <3>1 DEF ActiveIsDriven, Control, AtCall
    <3>3. LookedIsFree'
      BY <1>1, <3>1 DEF Control, LookedIsFree, Looked
    <3>4. FlagIsHeld'
      BY <1>1, <3>1 DEF Control, FlagIsHeld
    <3>5. ASSUME ~intruded PROVE Holders' = Holders
      <4>1. r \notin Holders
        BY <3>1, <3>5 DEF Control, FlagIsToken, Holders
      <4> QED
        BY <1>1, <3>1, <4>1 DEF Holders
    <3>6. FlagIsToken'
      BY <1>1, <3>1, <3>5 DEF Control, FlagIsToken
    <3> QED
      BY <3>2, <3>3, <3>4, <3>6 DEF Control
  <2>3. CASE workers'[r] \in Worker /\ GoesOn(r)
    <3>1. /\ workers'[r] # Nothing /\ flag' = flag /\ stop' = stop
          /\ workers[r].pc \in Driving /\ workers'[r].pc \in Driving
      BY <2>3, NothingAssumption DEF GoesOn
    <3>2. ActiveIsDriven'
      BY <1>1, <2>1, <3>1 DEF ActiveIsDriven, Control, AtCall, Driving
    <3>3. LookedIsFree'
      BY <1>1, <3>1 DEF Control, LookedIsFree, Looked
    <3>4. FlagIsHeld'
      BY <1>1, <3>1 DEF Control, FlagIsHeld, Driving
    <3>5. Holders' = Holders
      BY <1>1, <3>1 DEF Holders, Driving
    <3>6. FlagIsToken'
      BY <1>1, <3>1, <3>5 DEF Control, FlagIsToken
    <3> QED
      BY <3>2, <3>3, <3>4, <3>6 DEF Control
  <2>4. CASE workers'[r] \in Worker /\ ClearsFlag(r)
    <3>1. /\ workers'[r] # Nothing /\ ~flag' /\ flag' \in BOOLEAN
          /\ workers[r].pc = "clear" /\ workers'[r].pc = "final"
      BY <2>4, NothingAssumption DEF ClearsFlag
    <3>2. ActiveIsDriven'
      BY <1>1, <2>1, <3>1 DEF ActiveIsDriven, Control, AtCall
    <3>3. LookedIsFree'
      BY <1>1, <3>1 DEF LookedIsFree
    <3>4. FlagIsHeld'
      BY <3>1 DEF FlagIsHeld
    <3>5. ASSUME ~intruded PROVE Holders' = {} /\ ~(agents > 0) /\ agents <= 1
      <4>1. r \in Holders
        BY <1>1, <3>1 DEF Holders
      <4>2. /\ r = runID /\ \A q \in Holders : q = r
            /\ ~(agents > 0) /\ agents <= 1
        BY <3>5, <4>1 DEF Control, FlagIsToken
      <4>3. r \notin Holders'
        BY <3>1 DEF Holders
      <4>4. \A q \in Holders' : q \in RunIds /\ (q # r => q \in Holders)
        BY <1>1 DEF Holders
      <4> QED
        BY <4>2, <4>3, <4>4
    <3>6. FlagIsToken'
      BY <1>1, <3>1, <3>5 DEF FlagIsToken
    <3> QED
      BY <3>2, <3>3, <3>4, <3>6 DEF Control
  <2> QED
    BY <2>1, <2>2, <2>3, <2>4 DEF Moves
<1> QED
  BY <1>3, <1>4

LEMMA CallControl ==
    ASSUME Shape, Control, CallStep
    PROVE  Control'
<1>1. CASE StartLooks \/ ResumeLooks \/ \E i \in Shards : RetryLooks(i)
  <2>1. /\ UNCHANGED <<canCancel, runID, workers, flag, stop, agents, intruded>> /\ ~flag
        /\ AtCall("saving")' \/ AtCall("installed")' <=> AtCall("saving") \/ AtCall("installed")
    <3>1. UNCHANGED <<canCancel, runID, workers, flag, stop, agents, intruded>> /\ ~flag
      BY <1>1 DEF StartLooks, ResumeLooks, RetryLooks, review, app, Free
    <3>2. ~AtCall("saving") /\ ~AtCall("installed")
      BY <1>1 DEF StartLooks, ResumeLooks, RetryLooks, AtCall
    <3>3. ~AtCall("saving")' /\ ~AtCall("installed")'
      BY <1>1 DEF StartLooks, ResumeLooks, RetryLooks, AtCall, Calling, Shape, TypeOK, Call
    <3> QED
      BY <3>1, <3>2, <3>3
  <2>2. ActiveIsDriven' /\ FlagIsHeld' /\ LookedIsFree'
    BY <2>1 DEF Control, ActiveIsDriven, FlagIsHeld, LookedIsFree
  <2>3. FlagIsToken'
    BY <2>1 DEF Control, FlagIsToken, Holders
  <2> QED
    BY <2>2, <2>3 DEF Control
<1>2. CASE ResumeCopies \/ StartSaves \/ InstalledSaves \/ CallRefused
  <2>1. UNCHANGED <<canCancel, runID, workers, flag, stop, agents, intruded>>
    BY <1>2 DEF ResumeCopies, StartSaves, InstalledSaves, CallRefused, review, app
  <2>2. AtCall("saving")' \/ AtCall("installed")' <=> AtCall("saving") \/ AtCall("installed")
    <3>1. CASE ResumeCopies
      BY <3>1 DEF ResumeCopies, AtCall, Calling
    <3>2. CASE StartSaves
      <4>1. call \in Call /\ call.pc = "planned" /\ call' = [call EXCEPT !.pc = "saved"]
        BY <3>2 DEF StartSaves, AtCall, Shape, TypeOK
      <4> QED
        BY <4>1 DEF AtCall, Call
    <3>3. CASE InstalledSaves
      <4>1. call \in Call /\ call.pc = "saving" /\ call # Nothing
            /\ call' = [call EXCEPT !.pc = "installed", !.prev = Nothing, !.copy = Nothing]
        BY <3>3 DEF InstalledSaves, AtCall, Shape, TypeOK
      <4>2. call' \in Call /\ call'.pc = "installed"
        BY <4>1 DEF Call
      <4> QED
        BY <4>1, <4>2, NothingAssumption DEF AtCall
    <3>4. CASE CallRefused
      BY <3>4 DEF CallRefused, AtCall
    <3> QED
      BY <1>2, <3>1, <3>2, <3>3, <3>4
  <2>3. Looked' => Looked
    BY <1>2, NothingAssumption
    DEF ResumeCopies, StartSaves, InstalledSaves, CallRefused, AtCall, Looked, Calling,
        Shape, TypeOK, Call
  <2>4. ActiveIsDriven' /\ FlagIsHeld' /\ LookedIsFree'
    BY <2>1, <2>2, <2>3 DEF Control, ActiveIsDriven, FlagIsHeld, LookedIsFree
  <2>5. FlagIsToken'
    BY <2>1 DEF Control, FlagIsToken, Holders
  <2> QED
    BY <2>4, <2>5 DEF Control
<1>3. CASE StartInstalls \/ Installs
  <2>1. /\ UNCHANGED <<workers, flag, stop, agents, intruded>>
        /\ Looked /\ (AtCall("saving")' \/ AtCall("installed")')
    BY <1>3, InstallsShape, NothingAssumption
    DEF StartInstalls, Installs, app, AtCall, Looked, After, Call
  <2>2. (flag => agents > 0) /\ (~intruded => ~flag)
    BY <2>1 DEF Control, LookedIsFree
  <2>3. ActiveIsDriven' /\ FlagIsHeld' /\ LookedIsFree'
    BY <2>1, <2>2 DEF ActiveIsDriven, FlagIsHeld, LookedIsFree
  <2>4. ~intruded => Holders = {}
    BY <2>2 DEF Control, FlagIsToken
  <2>5. Holders' = Holders
    BY <2>1 DEF Holders
  <2>6. FlagIsToken'
    BY <2>1, <2>4, <2>5 DEF Control, FlagIsToken
  <2> QED
    BY <2>3, <2>6 DEF Control
<1>4. CASE RollsBack
  <2>1. /\ UNCHANGED <<runID, workers, flag, stop, agents, intruded>> /\ canCancel' = FALSE
        /\ call' = Nothing
    BY <1>4 DEF RollsBack, app
  <2>2. ActiveIsDriven' /\ FlagIsHeld' /\ LookedIsFree'
    BY <2>1 DEF Control, ActiveIsDriven, FlagIsHeld, LookedIsFree, Looked
  <2>3. FlagIsToken'
    BY <2>1 DEF Control, FlagIsToken, Holders
  <2> QED
    BY <2>2, <2>3 DEF Control
<1>5. CASE Launches
  <2> DEFINE n == NewWorker(call.shards)
  <2>1. /\ runID \in RunIds /\ workers' = [workers EXCEPT ![runID] = n] /\ workers'[runID] = n
        /\ n \in Worker
    BY <1>5, LaunchesShape
  <2>2. n # Nothing /\ n.pc = "begin"
    BY <2>1, NothingAssumption DEF NewWorker
  <2> HIDE DEF n
  <2>3. /\ UNCHANGED <<canCancel, runID, agents, intruded>> /\ Looked
        /\ flag' = TRUE /\ stop' = runID /\ call' = Nothing
    BY <1>5, NothingAssumption DEF Launches, review, AtCall, Looked
  <2>4. ActiveIsDriven' /\ FlagIsHeld' /\ LookedIsFree'
    BY <2>1, <2>2, <2>3 DEF ActiveIsDriven, FlagIsHeld, LookedIsFree, Looked
  <2>5. ASSUME ~intruded PROVE Holders = {} /\ ~(agents > 0) /\ agents <= 1
    BY <2>3, <2>5 DEF Control, LookedIsFree, FlagIsToken
  <2>6. ASSUME ~intruded PROVE Holders' = {runID}
    <3>1. \A q \in RunIds : q # runID => workers'[q] = workers[q]
      BY <2>1 DEF Shape, TypeOK
    <3> QED
      BY <2>1, <2>2, <2>5, <2>6, <3>1 DEF Holders
  <2>7. FlagIsToken'
    BY <2>3, <2>5, <2>6 DEF FlagIsToken
  <2> QED
    BY <2>4, <2>7 DEF Control
<1> QED
  BY <1>1, <1>2, <1>3, <1>4, <1>5 DEF CallStep

LEMMA OtherControl ==
    ASSUME Shape, Control,
           Cancel \/ CancelSaves \/ AgentStarts \/ AgentEnds \/ StopAgent \/ Crash \/ Restore
           \/ UNCHANGED vars
    PROVE  Control'
<1>1. CASE Cancel \/ CancelSaves \/ StopAgent \/ Restore \/ UNCHANGED vars
  <2>1. UNCHANGED <<runID, workers, flag, stop, agents, intruded, call>>
    BY <1>1 DEF Cancel, CancelSaves, StopAgent, Restore, vars, app, review
  <2>2. canCancel' => canCancel
    BY <1>1 DEF Cancel, CancelSaves, StopAgent, Restore, vars, review
  <2>3. ActiveIsDriven' /\ FlagIsHeld' /\ LookedIsFree'
    BY <2>1, <2>2 DEF Control, ActiveIsDriven, FlagIsHeld, LookedIsFree, Looked, AtCall
  <2>4. FlagIsToken'
    BY <2>1 DEF Control, FlagIsToken, Holders
  <2> QED
    BY <2>3, <2>4 DEF Control
<1>2. CASE AgentStarts
  <2>1. /\ UNCHANGED <<canCancel, runID, workers, call>> /\ ~flag /\ flag' = TRUE
        /\ stop' = Agent /\ agents' = agents + 1
        /\ agents \in Nat
        /\ ~intruded' => ~intruded /\ ~Looked
    BY <1>2 DEF AgentStarts, review, Shape, TypeOK
  <2>2. ActiveIsDriven'
    BY <2>1 DEF Control, ActiveIsDriven, AtCall
  <2>3. FlagIsHeld'
    BY <2>1 DEF FlagIsHeld
  <2>4. LookedIsFree'
    <3>1. Looked' <=> Looked
      BY <2>1 DEF Looked
    <3> QED
      BY <2>1, <3>1 DEF LookedIsFree
  <2>5. Holders' = Holders
    BY <2>1 DEF Holders
  <2>6. ~intruded => Holders = {} /\ agents = 0
    BY <2>1 DEF Control, FlagIsToken
  <2>7. FlagIsToken'
    BY <2>1, <2>5, <2>6 DEF FlagIsToken
  <2> QED
    BY <2>2, <2>3, <2>4, <2>7 DEF Control
<1>3. CASE AgentEnds
  <2>1. /\ UNCHANGED <<canCancel, runID, workers, call, intruded>> /\ agents > 0
        /\ flag' = FALSE /\ agents' = agents - 1 /\ agents \in Nat
    BY <1>3 DEF AgentEnds, review, Shape, TypeOK
  <2>2. ActiveIsDriven'
    BY <2>1 DEF Control, ActiveIsDriven, AtCall
  <2>3. FlagIsHeld' /\ LookedIsFree'
    BY <2>1 DEF FlagIsHeld, LookedIsFree
  <2>4. Holders' = Holders
    BY <2>1 DEF Holders
  <2>5. ~intruded => Holders = {} /\ agents = 1
    BY <2>1 DEF Control, FlagIsToken
  <2>6. FlagIsToken'
    BY <2>1, <2>4, <2>5 DEF FlagIsToken
  <2> QED
    BY <2>2, <2>3, <2>6 DEF Control
<1>4. CASE Crash
  <2>1. /\ canCancel' = FALSE /\ call' = Nothing /\ flag' = FALSE /\ agents' = 0
        /\ workers' = [r \in RunIds |-> Nothing]
    BY <1>4 DEF Crash
  <2>2. Holders' = {}
    BY <2>1 DEF Holders
  <2> QED
    BY <2>1, <2>2 DEF Control, ActiveIsDriven, FlagIsHeld, LookedIsFree, FlagIsToken
<1> QED
  BY <1>1, <1>2, <1>3, <1>4

LEMMA ControlInit == Init => Control
<1> SUFFICES ASSUME Init PROVE Control
  OBVIOUS
<1>1. Holders = {}
  BY DEF Init, Holders
<1> QED
  BY <1>1 DEF Init, Control, ActiveIsDriven, FlagIsHeld, LookedIsFree, FlagIsToken, Looked

LEMMA ControlStep == Shape /\ Control /\ [Next]_vars => Control'
<1> SUFFICES ASSUME Shape, Control, [Next]_vars PROVE Control'
  OBVIOUS
<1>1. CASE CallStep
  BY <1>1, CallControl
<1>2. CASE \E r \in RunIds : WorkerStep(r)
  BY <1>2, WorkerEffect, WorkerControl
<1>3. CASE Cancel \/ CancelSaves \/ AgentStarts \/ AgentEnds \/ StopAgent \/ Crash \/ Restore
           \/ UNCHANGED vars
  BY <1>3, OtherControl
<1> QED
  BY <1>1, <1>2, <1>3 DEF Next

\* A review that can be cancelled has a call or a worker that will end it.
THEOREM ActiveDriven == Spec => []ActiveIsDriven
<1>1. Control => ActiveIsDriven
  BY DEF Control
<1> QED
  BY <1>1, ShapeInit, ShapeStep, ControlInit, ControlStep, PTL DEF Spec

\* While the app is busy somebody is there who will clear the flag.
THEOREM FlagHeld == Spec => []FlagIsHeld
<1>1. Control => FlagIsHeld
  BY DEF Control
<1> QED
  BY <1>1, ShapeInit, ShapeStep, ControlInit, ControlStep, PTL DEF Spec

\* Agent run and review exclude each other, and a stop reaches the one there is,
\* unless an agent run has started between a call's look and its claim.
THEOREM FlagToken == Spec => []FlagIsToken
<1>1. Control => FlagIsToken
  BY DEF Control
<1> QED
  BY <1>1, ShapeInit, ShapeStep, ControlInit, ControlStep, PTL DEF Spec

-----------------------------------------------------------------------------
\* A worker runs down.
\* How many parts a scope can have, and that settling one leaves one less.
LEMMA ScopeSize ==
    ASSUME NEW scope \in SUBSET Shards
    PROVE  /\ IsFiniteSet(scope) /\ Cardinality(scope) \in 0..NumShards
           /\ Cardinality({}) = 0
           /\ \A i \in scope : Cardinality(scope \ {i}) = Cardinality(scope) - 1
<1>1. IsFiniteSet(Shards) /\ Cardinality(Shards) = NumShards
  BY FS_Interval, ReviewAssumption DEF Shards
<1>2. IsFiniteSet(scope) /\ Cardinality(scope) <= NumShards
  BY <1>1, FS_Subset
<1>3. Cardinality(scope) \in Nat
  BY <1>2, FS_CardinalityType
<1>4. \A i \in scope : Cardinality(scope \ {i}) = Cardinality(scope) - 1
  BY <1>2, FS_RemoveElement
<1> QED
  BY <1>2, <1>3, <1>4, FS_EmptySet, ReviewAssumption

Copies(w) == IF w.copy = Nothing THEN 0 ELSE 1
\* The measure of a worker, from the fields it depends on.
LEMMA StepsOf ==
    ASSUME NEW w \in Worker
    PROVE  /\ Cardinality(w.scope) \in 0..NumShards /\ Copies(w) \in 0..1
           /\ StepsLeft(w) \in 0..(8 * NumShards + 10)
           /\ w.pc = "begin" => StepsLeft(w) = 4 * NumShards + 9 + 4 * Cardinality(w.scope) + Copies(w)
           /\ w.pc = "shards" => StepsLeft(w) = 4 * NumShards + 8 + 4 * Cardinality(w.scope) + Copies(w)
           /\ w.pc = "child" => StepsLeft(w) = 4 * NumShards + 6 + 4 * Cardinality(w.scope) + Copies(w)
           /\ w.pc = "checks" => StepsLeft(w) = 6 + 4 * Cardinality(w.scope) + Copies(w)
           /\ w.pc = "checking" => StepsLeft(w) = 4 + 4 * Cardinality(w.scope) + Copies(w)
           /\ w.pc = "leave" => StepsLeft(w) = 5 + 4 * Cardinality(w.scope) + Copies(w)
           /\ w.pc = "finish" => StepsLeft(w) = 4 + 4 * Cardinality(w.scope) + Copies(w)
           /\ w.pc = "clear" => StepsLeft(w) = 2 + 4 * Cardinality(w.scope) + Copies(w)
           /\ w.pc = "final" => StepsLeft(w) = 4 * Cardinality(w.scope) + Copies(w)
<1> DEFINE c == Cardinality(w.scope)
<1>1. w.scope \in SUBSET Shards /\ w.pc \in WorkerPcs
  BY DEF Worker
<1>2. c \in 0..NumShards
  BY <1>1, ScopeSize
<1>3. Copies(w) \in 0..1
  BY DEF Copies
<1>4. StepsLeft(w) = StepsAt[w.pc] + 4 * c + Copies(w)
  BY DEF StepsLeft, Copies
<1>5. NumShards \in Nat
  BY ReviewAssumption
<1> HIDE DEF c
<1>6. /\ w.pc = "begin" => StepsAt[w.pc] = 4 * NumShards + 9
      /\ w.pc = "shards" => StepsAt[w.pc] = 4 * NumShards + 8
      /\ w.pc = "child" => StepsAt[w.pc] = 4 * NumShards + 6
      /\ w.pc = "checks" => StepsAt[w.pc] = 6
      /\ w.pc = "checking" => StepsAt[w.pc] = 4
      /\ w.pc = "leave" => StepsAt[w.pc] = 5
      /\ w.pc = "finish" => StepsAt[w.pc] = 4
      /\ w.pc = "clear" => StepsAt[w.pc] = 2
      /\ w.pc = "final" => StepsAt[w.pc] = 0
  BY DEF StepsAt
<1>7. StepsAt[w.pc] \in 0..(4 * NumShards + 9)
  BY <1>1, <1>5, <1>6 DEF WorkerPcs
<1>8. StepsLeft(w) \in 0..(8 * NumShards + 10)
  BY <1>2, <1>3, <1>4, <1>5, <1>7
<1> QED
  BY <1>2, <1>3, <1>4, <1>6, <1>8 DEF c

\* The steps of a worker that change the review: what follows has a copy to
\* write and one step less, a part less, or the checks before it.
LEMMA DataRunsDown ==
    ASSUME Shape, NEW r \in RunIds,
           \/ ShardStarts(r) \/ \E claims \in SUBSET Claims : ShardDone(r, claims)
           \/ ShardFails(r) \/ Prepares(r) \/ CheckStarts(r) \/ CheckEnds(r) \/ Finishes(r)
    PROVE  StepsLeft(workers'[r]) < StepsLeft(workers[r])
<1>1. PICK w \in Worker : w = workers[r]
  BY WorkerHere DEF ShardStarts, ShardDone, ShardFails, Prepares, CheckStarts, CheckEnds,
     Finishes, Current, At
<1>2. DataEffect(r)
  BY ShardStartsEffect, ShardDoneEffect, ShardFailsEffect, PreparesEffect, CheckStartsEffect,
     CheckEndsEffect, FinishesEffect
<1>3. PICK n \in Worker : n = workers'[r]
  BY <1>2 DEF DataEffect
<1>4. n.copy # Nothing /\ w.copy = Nothing
  BY <1>1, <1>2, <1>3, NothingAssumption
  DEF DataEffect, ShardStarts, ShardDone, ShardFails, Prepares, CheckStarts, CheckEnds,
      Finishes, Current, At
<1>5. Copies(n) = 1 /\ Copies(w) = 0
  BY <1>4 DEF Copies
<1>6. w.pc \in {"child", "checking"} => w.at \in w.scope
  BY <1>1, WorkerHere, NothingAssumption DEF Shape, WorkerShape
<1>7. w.scope \in SUBSET Shards /\ n.scope \in SUBSET Shards /\ NumShards \in Nat
  BY ReviewAssumption DEF Worker
<1>8. \/ w.pc = "shards" /\ n.pc = "child" /\ n.scope = w.scope
      \/ w.pc = "checks" /\ n.pc = "checking" /\ n.scope = w.scope
      \/ w.pc = "child" /\ n.pc = "shards" /\ n.scope = w.scope \ {w.at}
      \/ w.pc = "checking" /\ n.pc = "checks" /\ n.scope = w.scope \ {w.at}
      \/ w.pc = "shards" /\ n.pc = "checks"
      \/ w.pc = "finish" /\ n.pc = "clear" /\ n.scope = {}
  <2>1. \A s, m : Change(r, s, m) => n = [m EXCEPT !.copy = s]
    BY <1>3 DEF Change, Goes, Shape, TypeOK
  <2>2. CASE ShardStarts(r)
    <3>1. n = [[w EXCEPT !.pc = "child", !.at = First(w.scope)] EXCEPT !.copy = memory']
      BY <1>1, <2>1, <2>2 DEF ShardStarts, Change
    <3> QED
      BY <1>1, <2>2, <3>1 DEF ShardStarts, Current, At, Worker
  <2>3. CASE \E claims \in SUBSET Claims : ShardDone(r, claims)
    <3>1. n = [NextPart(r, "shards") EXCEPT !.copy = memory']
      BY <2>1, <2>3 DEF ShardDone, Change
    <3> QED
      BY <1>1, <2>3, <3>1 DEF ShardDone, NextPart, Current, At, Worker
  <2>4. CASE ShardFails(r)
    <3>1. n = [NextPart(r, "shards") EXCEPT !.copy = memory']
      BY <2>1, <2>4 DEF ShardFails, Change
    <3> QED
      BY <1>1, <2>4, <3>1 DEF ShardFails, NextPart, Current, At, Worker
  <2>5. CASE Prepares(r)
    <3>1. PICK scope : n = [[w EXCEPT !.pc = "checks", !.scope = scope] EXCEPT !.copy = memory']
      BY <1>1, <2>1, <2>5 DEF Prepares, Change
    <3> QED
      BY <1>1, <2>5, <3>1 DEF Prepares, Current, At, Worker
  <2>6. CASE CheckStarts(r)
    <3>1. n = [[w EXCEPT !.pc = "checking", !.at = First(w.scope)] EXCEPT !.copy = memory']
      BY <1>1, <2>1, <2>6 DEF CheckStarts, Change
    <3> QED
      BY <1>1, <2>6, <3>1 DEF CheckStarts, Current, At, Worker
  <2>7. CASE CheckEnds(r)
    <3>1. n = [NextPart(r, "checks") EXCEPT !.copy = memory']
      BY <2>1, <2>7 DEF CheckEnds, Change
    <3> QED
      BY <1>1, <2>7, <3>1 DEF CheckEnds, NextPart, Current, At, Worker
  <2>8. CASE Finishes(r)
    <3>1. n = [[w EXCEPT !.pc = "clear", !.cause = "none"] EXCEPT !.copy = memory']
      BY <1>1, <2>1, <2>8 DEF Finishes, Change
    <3>2. w.scope = {}
      BY <1>1, <2>8, NothingAssumption DEF Finishes, Current, At, Shape, WorkerShape
    <3> QED
      BY <1>1, <2>8, <3>1, <3>2 DEF Finishes, Current, At, Worker
  <2> QED
    BY <2>2, <2>3, <2>4, <2>5, <2>6, <2>7, <2>8
<1>9. PICK c \in 0..NumShards, d \in 0..NumShards :
        c = Cardinality(w.scope) /\ d = Cardinality(n.scope)
  BY <1>7, ScopeSize
<1>10. /\ n.scope = w.scope => d = c
       /\ n.scope = {} => d = 0
       /\ n.scope = w.scope \ {w.at} /\ w.at \in w.scope => d = c - 1
  BY <1>7, <1>9, ScopeSize
<1>11. StepsLeft(n) < StepsLeft(w)
  BY <1>5, <1>6, <1>7, <1>8, <1>9, <1>10, StepsOf
<1> QED
  BY <1>1, <1>3, <1>11

\* The steps that leave the review alone: on to the next point, or a write less.
LEMMA QuietRunsDown ==
    ASSUME Shape, NEW r \in RunIds,
           \/ Begins(r) \/ ShardsCut(r) \/ ChecksOver(r) \/ Leaves(r) \/ Clears(r)
           \/ Saves(r) \/ SaveFails(r) \/ LeftBehind(r)
    PROVE  RunsDown(r)
<1>1. PICK w \in Worker : w = workers[r] /\ w # Nothing
  BY WorkerHere DEF Begins, ShardsCut, ChecksOver, Leaves, Clears, Saves, SaveFails, Wrote,
     LeftBehind, Current, At
<1>2. \A m : Goes(r, m) => workers'[r] = m
  BY DEF Goes, Shape, TypeOK
<1>3. /\ Leaving(r) \in Worker /\ Leaving(r).pc = "leave" /\ Leaving(r).scope = {}
      /\ Leaving(r).copy = w.copy
  BY <1>1 DEF Leaving, Worker, WorkerPcs
<1>4. workers'[r] = Nothing \/ Wrote(r) \/
      \E n \in Worker :
        /\ n = workers'[r] /\ n.copy = w.copy
        /\ \/ <<w.pc, n.pc>> = <<"begin", "shards">> /\ n.scope = w.scope
           \/ <<w.pc, n.pc>> = <<"begin", "finish">> /\ n.scope = {}
           \/ <<w.pc, n.pc>> = <<"shards", "leave">> /\ n.scope = {}
           \/ <<w.pc, n.pc>> = <<"checks", "leave">> /\ n.scope = {}
           \/ <<w.pc, n.pc>> = <<"leave", "finish">> /\ n.scope = w.scope
           \/ <<w.pc, n.pc>> = <<"clear", "final">> /\ n.scope = w.scope
  <2>1. CASE Begins(r)
    <3>1. w.pc = "begin"
      BY <1>1, <2>1 DEF Begins, Current, At
    <3>2. PICK n \in {[w EXCEPT !.pc = "shards"],
                      [Leaving(r) EXCEPT !.pc = "finish", !.cause = "failed"],
                      [Leaving(r) EXCEPT !.pc = "finish", !.cause = "cancelled"]} :
            n = workers'[r]
      BY <1>1, <1>2, <2>1 DEF Begins
    <3>3. /\ n \in Worker /\ n.copy = w.copy
          /\ \/ n.pc = "shards" /\ n.scope = w.scope
             \/ n.pc = "finish" /\ n.scope = {}
      BY <1>1, <1>3 DEF Worker, WorkerPcs
    <3> QED
      BY <3>1, <3>2, <3>3
  <2>2. CASE ShardsCut(r) \/ ChecksOver(r)
    <3>1. workers'[r] = Leaving(r) /\ w.pc \in {"shards", "checks"}
      BY <1>1, <1>2, <2>2 DEF ShardsCut, ChecksOver, Current, At
    <3> QED
      BY <1>3, <3>1
  <2>3. CASE Leaves(r)
    <3>1. PICK cause \in {"none", "cancelled"} :
            workers'[r] = [w EXCEPT !.pc = "finish", !.cause = cause]
      BY <1>1, <1>2, <2>3 DEF Leaves
    <3> QED
      BY <1>1, <2>3, <3>1 DEF Leaves, Current, At, Worker, WorkerPcs
  <2>4. CASE Clears(r)
    <3>1. workers'[r] = [w EXCEPT !.pc = "final"]
      BY <1>1, <1>2, <2>4 DEF Clears
    <3> QED
      BY <1>1, <2>4, <3>1 DEF Clears, Worker, WorkerPcs
  <2>5. CASE LeftBehind(r)
    BY <1>2, <2>5 DEF LeftBehind, Ends
  <2> QED
    BY <2>1, <2>2, <2>3, <2>4, <2>5 DEF Saves, SaveFails
<1>5. CASE workers'[r] = Nothing
  BY <1>5 DEF RunsDown
<1>6. CASE Wrote(r)
  <2>1. CASE w.pc = "final"
    BY <1>1, <1>2, <1>6, <2>1 DEF Wrote, RunsDown
  <2>2. CASE w.pc # "final"
    <3>1. PICK n : n = [w EXCEPT !.copy = Nothing] /\ n = workers'[r]
      BY <1>1, <1>2, <1>6, <2>2 DEF Wrote
    <3>2. /\ n \in Worker /\ n.copy = Nothing /\ w.copy # Nothing
          /\ n.pc = w.pc /\ n.scope = w.scope
      BY <1>1, <1>6, <3>1 DEF Wrote, Worker
    <3>3. StepsLeft(n) < StepsLeft(w)
      <4>1. Copies(n) = 0 /\ Copies(w) = 1
        BY <3>2 DEF Copies
      <4>2. n.pc \in WorkerPcs /\ NumShards \in Nat
        BY <3>2, ReviewAssumption DEF Worker
      <4> QED
        BY <3>2, <4>1, <4>2, StepsOf DEF WorkerPcs
    <3> QED
      BY <1>1, <3>1, <3>3 DEF RunsDown
  <2> QED
    BY <2>1, <2>2
<1>7. CASE \E n \in Worker :
        /\ n = workers'[r] /\ n.copy = w.copy
        /\ \/ <<w.pc, n.pc>> = <<"begin", "shards">> /\ n.scope = w.scope
           \/ <<w.pc, n.pc>> = <<"begin", "finish">> /\ n.scope = {}
           \/ <<w.pc, n.pc>> = <<"shards", "leave">> /\ n.scope = {}
           \/ <<w.pc, n.pc>> = <<"checks", "leave">> /\ n.scope = {}
           \/ <<w.pc, n.pc>> = <<"leave", "finish">> /\ n.scope = w.scope
           \/ <<w.pc, n.pc>> = <<"clear", "final">> /\ n.scope = w.scope
  <2>1. PICK n \in Worker :
        /\ n = workers'[r] /\ n.copy = w.copy
        /\ \/ w.pc = "begin" /\ n.pc = "shards" /\ n.scope = w.scope
           \/ w.pc = "begin" /\ n.pc = "finish" /\ n.scope = {}
           \/ w.pc = "shards" /\ n.pc = "leave" /\ n.scope = {}
           \/ w.pc = "checks" /\ n.pc = "leave" /\ n.scope = {}
           \/ w.pc = "leave" /\ n.pc = "finish" /\ n.scope = w.scope
           \/ w.pc = "clear" /\ n.pc = "final" /\ n.scope = w.scope
    BY <1>7
  <2>2. Copies(n) = Copies(w) /\ NumShards \in Nat
    BY <2>1, ReviewAssumption DEF Copies
  <2>3. PICK c \in 0..NumShards, d \in 0..NumShards, k \in 0..1 :
          c = Cardinality(w.scope) /\ d = Cardinality(n.scope) /\ k = Copies(w)
    BY StepsOf
  <2>4. (n.scope = {} => d = 0) /\ (n.scope = w.scope => d = c)
    BY <2>3, FS_EmptySet
  <2>5. /\ w.pc = "begin" => StepsLeft(w) = 4 * NumShards + 9 + 4 * c + k
        /\ w.pc = "shards" => StepsLeft(w) = 4 * NumShards + 8 + 4 * c + k
        /\ w.pc = "checks" => StepsLeft(w) = 6 + 4 * c + k
        /\ w.pc = "leave" => StepsLeft(w) = 5 + 4 * c + k
        /\ w.pc = "clear" => StepsLeft(w) = 2 + 4 * c + k
    BY <2>3, StepsOf
  <2>6. /\ n.pc = "shards" => StepsLeft(n) = 4 * NumShards + 8 + 4 * d + k
        /\ n.pc = "leave" => StepsLeft(n) = 5 + 4 * d + k
        /\ n.pc = "finish" => StepsLeft(n) = 4 + 4 * d + k
        /\ n.pc = "final" => StepsLeft(n) = 4 * d + k
    BY <2>2, <2>3, StepsOf
  <2>7. StepsLeft(n) < StepsLeft(w)
    BY <2>1, <2>2, <2>4, <2>5, <2>6
  <2> QED
    BY <1>1, <2>1, <2>7 DEF RunsDown
<1> QED
  BY <1>4, <1>5, <1>6, <1>7

\* Every step of a worker brings it nearer to its end.
LEMMA WorkerRunsDown ==
    ASSUME Shape, NEW r \in RunIds, WorkerStep(r)
    PROVE  RunsDown(r)
BY DataRunsDown, QuietRunsDown DEF WorkerStep, RunsDown

\* A step that is not the worker's leaves it as it is, ends it (a crash), or
\* begins one where there was none.
LEMMA OthersKeepWorkers ==
    ASSUME Shape, [Next]_vars, NEW r \in RunIds, ~WorkerStep(r)
    PROVE  \/ workers'[r] = workers[r] \/ workers'[r] = Nothing
           \/ /\ workers[r] = Nothing /\ workers'[r] \in Worker
              /\ workers'[r].pc = "begin" /\ workers'[r].copy = Nothing
<1>1. ASSUME NEW q \in RunIds, WorkerStep(q) PROVE q # r /\ workers'[r] = workers[r]
  <2>1. q # r
    BY <1>1
  <2>2. workers' = [workers EXCEPT ![q] = workers'[q]]
    BY <1>1, WorkerEffect DEF DataEffect, QuietEffect
  <2> QED
    BY <2>1, <2>2 DEF Shape, TypeOK
<1>2. ASSUME Launches
      PROVE  \/ workers'[r] = workers[r]
             \/ /\ workers[r] = Nothing /\ workers'[r] \in Worker
                /\ workers'[r].pc = "begin" /\ workers'[r].copy = Nothing
  <2>1. /\ runID \in RunIds
        /\ workers' = [workers EXCEPT ![runID] = NewWorker(call.shards)]
        /\ workers'[runID] = NewWorker(call.shards) /\ NewWorker(call.shards) \in Worker
    BY <1>2, LaunchesShape
  <2>2. workers[runID] = Nothing
    BY <1>2 DEF Shape, CallShape, Launches, AtCall, After
  <2>3. r # runID => workers'[r] = workers[r]
    BY <2>1 DEF Shape, TypeOK
  <2> QED
    BY <2>1, <2>2, <2>3 DEF NewWorker
<1>3. ASSUME Crash PROVE workers'[r] = Nothing
  BY <1>3 DEF Crash
<1>4. CASE UNCHANGED vars
  BY <1>4 DEF vars
<1> QED
  BY <1>1, <1>2, <1>3, <1>4
  DEF Next, CallStep, StartLooks, StartSaves, StartInstalls, ResumeCopies, ResumeLooks, RetryLooks,
      Installs, InstalledSaves, RollsBack, CallRefused, Cancel, CancelSaves,
      AgentStarts, AgentEnds, StopAgent, Restore

\* A worker runs down whatever its children report, whichever writes fail and
\* whoever cancels, resumes or retries, for every number of shards and runs.
THEOREM WorkersEnd == Spec => WorkersRunDown
<1> DEFINE Down == \A r \in RunIds :
                      workers[r] # Nothing /\ workers'[r] # workers[r] => RunsDown(r)
<1>1. Shape /\ [Next]_vars => Down
  BY WorkerRunsDown, OthersKeepWorkers DEF RunsDown
<1>2. Spec => [][Down]_vars
  BY <1>1, ShapeInit, ShapeStep, PTL DEF Spec
<1> QED
  BY <1>2 DEF WorkersRunDown

\* No step of a worker leaves it where it was, not even a failing write: the
\* loop over the shards and the one over the checks get nearer to their ends.
THEOREM WorkerStepsRunDown ==
    Spec => [][\A r \in RunIds : WorkerStep(r) => RunsDown(r)]_vars
<1> DEFINE Down == \A r \in RunIds : WorkerStep(r) => RunsDown(r)
<1>1. Shape => Down
  BY WorkerRunsDown
<1> QED
  BY <1>1, ShapeInit, ShapeStep, PTL DEF Spec

\* A worker has at most eight steps for every shard before it, and ten more.
THEOREM WorkerIsBounded ==
    Spec => [](\A r \in RunIds : workers[r] # Nothing =>
                   StepsLeft(workers[r]) \in 0..(8 * NumShards + 10))
<1> DEFINE Bounded == \A r \in RunIds : workers[r] # Nothing =>
                         StepsLeft(workers[r]) \in 0..(8 * NumShards + 10)
<1>1. Shape => Bounded
  BY WorkerHere, StepsOf
<1> QED
  BY <1>1, ShapeInit, ShapeStep, PTL DEF Spec
=============================================================================
