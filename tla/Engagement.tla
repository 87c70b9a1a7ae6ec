----------------------------- MODULE Engagement -----------------------------
(***************************************************************************)
(* One engagement of the testing grid (internal/engagement): agents, their *)
(* subagents, their heartbeats and the operator all work on one database   *)
(* record.  An operation of Service takes the time, loads a copy of the    *)
(* record, changes the copy and writes the whole of it back if the         *)
(* record's revision is still the one it loaded; between the load and the  *)
(* write anybody else may write.  A crash only loses requests in flight    *)
(* and claimants that will ask for nothing more.                           *)
(*                                                                         *)
(* Texts, URLs, scope, notes, the files behind the evidence and the kinds  *)
(* of evidence a policy may demand beside raw evidence are left out: an    *)
(* operation on those is EditOther.  "passed" stands for passed, failed    *)
(* and warning, "done" for done and skipped, and the observations of an    *)
(* item are a set.                                                         *)
(***************************************************************************)
EXTENDS Integers, Sequences, FiniteSets

CONSTANTS
    Workflows,      \* the kinds of the phases, and the steps of each in order
    GlobalChecks, EndpointChecks, Endpoints,
    Runs, Indefinite,   \* how often each item is to be run
    MinimumEvidence,    \* the pieces of raw evidence each item's run needs
    EvidenceIds, FindingIds,
    Claimants, Nobody,
    Callers,        \* the requests that may be in flight at once
    Nothing,        \* no request, no evidence, no finding
    Lease,          \* DefaultClaimLease, in ticks of the clock
    MaxClock, MaxDelay, MaxRevision     \* bounds of the model

Phases(flow) == 1..Len(flow.kinds)
StepsOf(flow) == UNION {{flow.steps[i][j] : j \in DOMAIN flow.steps[i]} : i \in Phases(flow)}
Steps == UNION {StepsOf(flow) : flow \in Workflows}
EndpointWork == Endpoints \X EndpointChecks
Works == Steps \cup GlobalChecks \cup EndpointWork

ASSUME WorkflowAssumption ==
    /\ \A flow \in Workflows :
          /\ flow.kinds \in Seq({"step", "checklist", "endpoint"})
          /\ Len(flow.kinds) > 0
          /\ DOMAIN flow.steps = Phases(flow)
          /\ \A i \in Phases(flow) :
                /\ Len(flow.steps[i]) \in Nat \ {0}
                /\ DOMAIN flow.steps[i] = 1..Len(flow.steps[i])
                /\ \A j, n \in DOMAIN flow.steps[i] :
                      flow.steps[i][j] = flow.steps[i][n] => j = n
    /\ Steps \cap GlobalChecks = {}
    /\ Steps \cap EndpointWork = {}
    /\ GlobalChecks \cap EndpointWork = {}
    /\ IsFiniteSet(Works)
    /\ Runs \in [Works -> (Nat \ {0}) \cup {Indefinite}] /\ Indefinite \notin Nat
    /\ MinimumEvidence \in [Works -> Nat]
ASSUME EngagementAssumption ==
    /\ Nobody \notin Claimants
    /\ IsFiniteSet(EvidenceIds)
    /\ Lease \in Nat \ {0} /\ MaxClock \in Nat /\ MaxDelay \in Nat

VARIABLES
    record,     \* the row of the engagements table
    calls,      \* the copy each request in flight works on, and the time it took
    told,       \* the item and revision each claimant's last answer named
    clock

vars == <<record, calls, told, clock>>

Terminal(w) ==
    IF w \in Steps THEN {"done"} ELSE {"passed", "vulnerable", "not_applicable"}
Statuses == {"pending", "focused", "done", "passed", "vulnerable", "not_applicable"}
EvidenceKinds == {"composed", "raw", "screenshot"}
RawKinds == {"raw", "screenshot"}

Observation == [run : Nat, status : Statuses]
WorkStates ==
    [status : Statuses, by : Claimants \cup {Nobody}, lease : Nat, rev : Nat,
     runs : Nat, finished : BOOLEAN, observed : SUBSET Observation]
EvidenceItem == [work : Works, run : Nat, kind : EvidenceKinds]
FindingItem ==
    [state : {"draft", "confirmed"}, work : Works, evidence : SUBSET EvidenceIds,
     severe : BOOLEAN, waived : BOOLEAN]
ASSUME NothingAssumption == Nothing \notin FindingItem
Records ==
    [flow : Workflows, rev : Nat, phase : Nat, work : [Works -> WorkStates],
     endpoints : SUBSET Endpoints,
     evidence : [EvidenceIds -> EvidenceItem \cup {Nothing}],
     findings : [FindingIds -> FindingItem \cup {Nothing}]]

NewWork ==
    [status |-> "pending", by |-> Nobody, lease |-> 0, rev |-> 1, runs |-> 0,
     finished |-> FALSE, observed |-> {}]
NewState(flow) ==
    [flow |-> flow, rev |-> 1, phase |-> 1, work |-> [w \in Works |-> NewWork], endpoints |-> {},
     evidence |-> [v \in EvidenceIds |-> Nothing],
     findings |-> [f \in FindingIds |-> Nothing]]

Init ==
    /\ \E flow \in Workflows : record = NewState(flow)
    /\ calls = [k \in Callers |-> Nothing]
    /\ told = [c \in Claimants |-> Nothing]
    /\ clock = 0

-----------------------------------------------------------------------------
\* Where a state stands in its workflow.  The checks of an endpoint exist once
\* it was added; the last step of a checklist or endpoint phase sums it up.
Finished(s, w) == s.work[w].finished
Kind(s) == s.flow.kinds[s.phase]
EndpointWorkOf(s) == s.endpoints \X EndpointChecks
StepAt(s, j) == s.flow.steps[s.phase][j]
LastStep(s) == Len(s.flow.steps[s.phase])
SetupDone(s) == \A j \in 1..(LastStep(s) - 1) : Finished(s, StepAt(s, j))
ChecksOf(s) ==
    CASE Kind(s) = "checklist" -> GlobalChecks
      [] Kind(s) = "endpoint" -> EndpointWorkOf(s)
      [] OTHER -> {}
ChecksDone(s) == \A w \in ChecksOf(s) : Finished(s, w)
NeedsEndpoint(s) == Kind(s) = "endpoint" /\ s.endpoints = {}

\* (Mutant: the last step waits for the other steps only.)
PriorStepsFinished(s, j) == \A i \in 1..(j - 1) : Finished(s, StepAt(s, i))
RequirePriorWorkFinished(s, j) ==
    /\ \A i \in 1..(j - 1) : Finished(s, StepAt(s, i))
    /\ j = LastStep(s) => ~NeedsEndpoint(s) /\ ChecksDone(s)
ResolveAccessible(s, w) ==
    \/ \E j \in 1..LastStep(s) : w = StepAt(s, j) /\ RequirePriorWorkFinished(s, j)
    \/ w \in ChecksOf(s) /\ SetupDone(s)

\* What Now finds nothing left of.
PhaseComplete(s) ==
    /\ \A j \in 1..LastStep(s) : Finished(s, StepAt(s, j))
    /\ ~NeedsEndpoint(s) /\ ChecksDone(s)

Claimed(s, w) == s.work[w].by # Nobody
Live(s, w, t) == Claimed(s, w) /\ s.work[w].lease > t
Holds(s, w, c, t) == Live(s, w, t) /\ s.work[w].by = c

\* The queue of a claimant: the item it holds, else the first unfinished setup
\* step, else the checks nobody holds, else the last step.
Available(s, c, t) ==
    LET open(w) == ~Finished(s, w) /\ ~Live(s, w, t)
        unfinished == {j \in 1..LastStep(s) : ~Finished(s, StepAt(s, j))}
        gate == CHOOSE j \in unfinished : \A i \in unfinished : j <= i
        checks == {w \in ChecksOf(s) : open(w)}
        held == {w \in Works : Holds(s, w, c, t)}
    IN IF held # {} THEN held
       ELSE IF ~SetupDone(s) THEN {w \in {StepAt(s, gate)} : open(w)}
       ELSE IF NeedsEndpoint(s) THEN {}
       ELSE IF ~ChecksDone(s) THEN checks
       ELSE {w \in {StepAt(s, LastStep(s))} : open(w)}

-----------------------------------------------------------------------------
\* The parts of State's operations.
Bump(s, w, work) ==
    [s EXCEPT !.work[w] = [work EXCEPT !.rev = @ + 1], !.rev = @ + 1]

\* Letting go of an item voids the result of an unfinished run of it.
\* (Mutant: only a focused item goes back to pending.)
UnclaimFocused(w, work) ==
    [work EXCEPT !.by = Nobody, !.lease = 0,
                 !.status = IF ~work.finished /\ work.status = "focused"
                            THEN "pending" ELSE @]
Unclaim(w, work) ==
    [work EXCEPT !.by = Nobody, !.lease = 0,
                 !.status = IF /\ ~work.finished
                               /\ work.status \in Terminal(w) \cup {"focused"}
                            THEN "pending" ELSE @]

Expired(s, t) == {w \in Works : Claimed(s, w) /\ s.work[w].lease <= t}
ExpireClaims(s, t) ==
    [s EXCEPT
        !.work = [w \in Works |->
                    IF w \in Expired(s, t)
                    THEN [Unclaim(w, s.work[w]) EXCEPT !.rev = @ + 1]
                    ELSE s.work[w]],
        !.rev = @ + Cardinality(Expired(s, t))]

\* (Mutant: the items a claimant has already are not counted.)
ClaimableByAny(s, w, c, t) ==
    /\ ResolveAccessible(s, w)
    /\ \/ Holds(s, w, c, t)
       \/ /\ ~Live(s, w, t)
          /\ ~Finished(s, w)
          /\ s.work[w].status \notin Terminal(w)
CanClaim(s, w, c, t) ==
    /\ ResolveAccessible(s, w)
    /\ \A other \in Works \ {w} : ~Holds(s, other, c, t)
    /\ \/ Holds(s, w, c, t)
       \/ /\ ~Live(s, w, t)
          /\ ~Finished(s, w)
          /\ s.work[w].status \notin Terminal(w)
ClaimWork(s, w, c, t) ==
    Bump(s, w, [s.work[w] EXCEPT
                    !.by = c, !.lease = t + Lease,
                    !.status = IF Holds(s, w, c, t) THEN @ ELSE "focused"])

RecordWork(s, w, status) ==
    Bump(s, w, [s.work[w] EXCEPT
                    !.status = status,
                    !.observed = @ \cup {[run |-> s.work[w].runs + 1,
                                          status |-> status]}])

RawEvidence(s, w, run) ==
    {v \in EvidenceIds : /\ s.evidence[v] # Nothing
                         /\ s.evidence[v].work = w /\ s.evidence[v].run = run
                         /\ s.evidence[v].kind \in RawKinds}
\* (Mutant: the check's own minimum is all that counts.)
MinimumIsEnough(s, w) ==
    \/ w \in Steps
    \/ s.work[w].status = "not_applicable"
    \/ Cardinality(RawEvidence(s, w, s.work[w].runs + 1)) >= MinimumEvidence[w]
RequireCompletionEvidence(s, w) ==
    \/ w \in Steps
    \/ s.work[w].status = "not_applicable"
    \/ LET current == RawEvidence(s, w, s.work[w].runs + 1) IN
       /\ Cardinality(current) >= MinimumEvidence[w]
       /\ s.work[w].status = "vulnerable" => current # {}

ShouldRepeat(w, completed) == Runs[w] = Indefinite \/ completed < Runs[w]
FinishWork(s, w) ==
    LET again == ShouldRepeat(w, s.work[w].runs + 1) IN
    Bump(s, w, [s.work[w] EXCEPT
                    !.runs = @ + 1, !.by = Nobody, !.lease = 0,
                    !.status = IF again THEN "pending" ELSE @,
                    !.finished = ~again])

FindingHasRaw(s, finding) ==
    \E v \in finding.evidence : s.evidence[v].kind \in RawKinds
FindingHasScreenshot(s, finding) ==
    \E v \in finding.evidence : s.evidence[v].kind = "screenshot"

-----------------------------------------------------------------------------
\* The requests.  now is taken before the record is loaded, so it may be old;
\* the retries of HeartbeatClaimant and ReleaseClaimant load again with it.
Load(k, t) ==
    /\ calls[k] = Nothing
    /\ t \in (clock - MaxDelay)..clock /\ t >= 0
    /\ calls' = [calls EXCEPT ![k] = [copy |-> record, at |-> t]]
    /\ UNCHANGED <<record, told, clock>>

Busy(k) == calls[k] # Nothing
Copy(k) == calls[k].copy
At(k) == calls[k].at
EndCall(k) == calls' = [calls EXCEPT ![k] = Nothing]

\* Store.Update: the row is replaced when its revision is the one loaded.
\* (Mutant: the write does not look at the revision.)
UnguardedUpdate(k, s) == record' = s
Update(k, s) == record' = IF record.rev = Copy(k).rev THEN s ELSE record
Save(k, s) ==
    /\ s.rev <= MaxRevision
    /\ Update(k, s)
    /\ EndCall(k)
    /\ UNCHANGED clock
Saved(k) == record.rev = Copy(k).rev
Tell(k, c, w, s) ==
    told' = IF Saved(k) THEN [told EXCEPT ![c] = [work |-> w, rev |-> s.work[w].rev]]
            ELSE told

\* Every refusal, and a crash before the write.
Refuse(k) ==
    /\ EndCall(k)
    /\ UNCHANGED <<record, told, clock>>

\* Now and Available only write the expiry they cause; Available names the
\* revision of the item its caller holds, which is all it offers then.
Look(k, s, c) ==
    /\ IF s = Copy(k) THEN EndCall(k) /\ UNCHANGED <<record, clock>> ELSE Save(k, s)
    /\ \/ UNCHANGED told
       \/ \E w \in Works : Holds(s, w, c, At(k)) /\ Tell(k, c, w, s)

Claim(k, s, w, c) ==
    LET claimed == ClaimWork(s, w, c, At(k)) IN
    /\ CanClaim(s, w, c, At(k))
    /\ Save(k, claimed)
    /\ Tell(k, c, w, claimed)

\* An extension leaves the item's revision alone, for its holder's sake.
\* (Mutant: it does not.)
ExtendedBumped(s, w, t) == Bump(s, w, [s.work[w] EXCEPT !.lease = t + Lease])
Extended(s, w, t) ==
    [s EXCEPT !.work[w].lease = t + Lease, !.rev = @ + 1]
Heartbeat(k, w, c) ==
    /\ Holds(Copy(k), w, c, At(k))
    /\ At(k) + Lease > Copy(k).work[w].lease
    /\ Save(k, Extended(Copy(k), w, At(k)))
    /\ UNCHANGED told

\* By the run that ends, or by the operator for it.
Release(k, w) ==
    /\ Claimed(Copy(k), w)
    /\ Save(k, Bump(Copy(k), w, Unclaim(w, Copy(k).work[w])))
    /\ UNCHANGED told

Writes(k, s, w, c) ==
    Holds(s, w, c, At(k)) /\ ResolveAccessible(s, w)

RecordResult(k, s, w, c, status) ==
    LET settled == RecordWork(s, w, status) IN
    /\ Writes(k, s, w, c)
    /\ told[c] = [work |-> w, rev |-> s.work[w].rev]
    /\ Save(k, settled)
    /\ Tell(k, c, w, settled)

Finish(k, s, w, c) ==
    /\ Writes(k, s, w, c)
    /\ told[c] = [work |-> w, rev |-> s.work[w].rev]
    /\ s.work[w].status \in Terminal(w)
    /\ RequireCompletionEvidence(s, w)
    /\ Save(k, FinishWork(s, w))
    /\ UNCHANGED told

AddEndpoint(k, e) ==
    /\ e \notin Copy(k).endpoints
    /\ Save(k, [Copy(k) EXCEPT !.endpoints = @ \cup {e}, !.rev = @ + 1])
    /\ UNCHANGED told

\* (Mutant: the last phase has a next one.)
HasNextOffByOne(s) == s.phase <= Len(s.flow.kinds)
HasNext(s) == s.phase < Len(s.flow.kinds)
Advance(k, s) ==
    /\ PhaseComplete(s)
    /\ IF HasNext(s)
       THEN Save(k, [s EXCEPT !.phase = @ + 1, !.rev = @ + 1])
       ELSE IF s = Copy(k) THEN EndCall(k) /\ UNCHANGED <<record, clock>>
            ELSE Save(k, s)
    /\ UNCHANGED told

\* SetNotes, SetEndpointGroup.
EditOther(k) ==
    /\ Save(k, [Copy(k) EXCEPT !.rev = @ + 1])
    /\ UNCHANGED told

AddEvidence(k, v, w, c, kind) ==
    /\ Writes(k, Copy(k), w, c)
    /\ Copy(k).evidence[v] = Nothing
    /\ Save(k, [Copy(k) EXCEPT
                    !.evidence[v] = [work |-> w, kind |-> kind,
                                     run |-> Copy(k).work[w].runs + 1],
                    !.rev = @ + 1])
    /\ UNCHANGED told

\* An existing draft may be taken over from another item; its own revision,
\* which the caller may always have read, is left out.
\* (Mutant: the evidence may be another item's.)
CiteAny(s, w, cited) == \A v \in cited : s.evidence[v] # Nothing
Citable(s, w, cited) ==
    \A v \in cited : s.evidence[v] # Nothing /\ s.evidence[v].work = w
UpsertFinding(k, f, w, c, cited, severe) ==
    LET old == Copy(k).findings[f] IN
    /\ Writes(k, Copy(k), w, c)
    /\ Citable(Copy(k), w, cited)
    /\ old # Nothing => old.state = "draft"
    /\ Save(k, [Copy(k) EXCEPT
                    !.findings[f] =
                        [state |-> "draft", work |-> w, evidence |-> cited,
                         severe |-> severe, waived |-> FALSE],
                    !.rev = @ + 1])
    /\ UNCHANGED told

\* Only the operator can waive the screenshot.
ConfirmFinding(k, f, c, waiver) ==
    LET s == Copy(k)
        finding == s.findings[f]
    IN
    /\ finding # Nothing
    /\ Writes(k, s, finding.work, c)
    /\ FindingHasRaw(s, finding)
    /\ finding.severe => FindingHasScreenshot(s, finding) \/ waiver
    /\ Save(k, [s EXCEPT
                    !.findings[f] = [finding EXCEPT !.state = "confirmed",
                                                    !.waived = waiver],
                    !.rev = @ + 1])
    /\ UNCHANGED told

Tick ==
    /\ clock < MaxClock
    /\ clock' = clock + 1
    /\ UNCHANGED <<record, calls, told>>

\* What a request does with its copy; s is the copy with its claims expired,
\* which not every operation does.
Request(k, s) ==
    \/ Refuse(k)
    \/ Advance(k, s)
    \/ EditOther(k)
    \/ \E e \in Endpoints : AddEndpoint(k, e)
    \/ \E w \in Works : Release(k, w)
    \/ \E c \in Claimants :
          \/ Look(k, s, c)
          \/ \E w \in Works :
                \/ Claim(k, s, w, c)
                \/ Heartbeat(k, w, c)
                \/ \E status \in Terminal(w) : RecordResult(k, s, w, c, status)
                \/ Finish(k, s, w, c)
                \/ \E v \in EvidenceIds, kind \in EvidenceKinds :
                      AddEvidence(k, v, w, c, kind)
                \/ \E f \in FindingIds, cited \in SUBSET EvidenceIds,
                      severe \in BOOLEAN : UpsertFinding(k, f, w, c, cited, severe)
          \/ \E f \in FindingIds, waiver \in BOOLEAN :
                ConfirmFinding(k, f, c, waiver)

Next ==
    \/ \E k \in Callers :
          \/ \E t \in 0..MaxClock : Load(k, t)
          \/ Busy(k) /\ \E s \in {ExpireClaims(Copy(k), At(k))} : Request(k, s)
    \/ Tick

Spec == Init /\ [][Next]_vars

-----------------------------------------------------------------------------
TypeOK ==
    /\ record \in Records /\ record.phase \in Phases(record.flow)
    /\ calls \in [Callers -> [copy : Records, at : Nat] \cup {Nothing}]
    /\ told \in [Claimants -> [work : Works, rev : Nat] \cup {Nothing}]
    /\ clock \in Nat

\* One active claim per claimant: whatever copies the claims were made on,
\* no claimant ever has two items (ClaimWork's ErrClaimLimit).
OneClaimEach ==
    \A w1, w2 \in Works :
        Claimed(record, w1) /\ record.work[w1].by = record.work[w2].by => w1 = w2

\* The queue is honest to those who hold nothing: what it offers can be
\* claimed, an item left behind by a claimant that crashed included, and while
\* the phase is not complete and nobody holds anything it offers something.
QueueIsHonest ==
    LET s == ExpireClaims(record, clock) IN
    \A c \in Claimants :
        (\A w \in Works : ~Holds(s, w, c, clock)) =>
            /\ \A w \in Available(s, c, clock) : CanClaim(s, w, c, clock)
            /\ Available(s, c, clock) = {} =>
                  \/ PhaseComplete(s)
                  \/ NeedsEndpoint(s) /\ SetupDone(s)
                  \/ \E w \in Works : Live(s, w, clock)

\* No run is completed unobserved: every completed run of an item has an
\* observation of that very run, and a finished item its last status in it
\* and, found vulnerable, raw evidence of that run.
CompletedIsSupported ==
    \A w \in Works :
        LET work == record.work[w] IN
        /\ \A r \in 1..work.runs : \E o \in work.observed : o.run = r
        /\ work.finished =>
              /\ [run |-> work.runs, status |-> work.status] \in work.observed
              /\ work.status = "vulnerable" => RawEvidence(record, w, work.runs) # {}

\* A confirmed finding stands on raw evidence of its own item and, when it is
\* severe, on a screenshot or a waiver, though evidence, draft and claim may
\* have changed hands between its being written and its being confirmed.
ConfirmedIsSupported ==
    \A f \in FindingIds :
        LET finding == record.findings[f] IN
        finding # Nothing /\ finding.state = "confirmed" =>
            /\ \E v \in finding.evidence :
                  /\ record.evidence[v].kind \in RawKinds
                  /\ record.evidence[v].work = finding.work
            /\ finding.severe => finding.waived \/ FindingHasScreenshot(record, finding)

\* The revision a claimant was told with the item it holds stays good: neither
\* heartbeats nor other people's work make its result a revision conflict.
HolderKeepsRevision ==
    \A w \in Works :
        Claimed(record, w) =>
            told[record.work[w].by] = [work |-> w, rev |-> record.work[w].rev]

FinishesLast ==
    LET last == StepAt(record, LastStep(record)) IN
    Finished(record', last) /\ ~Finished(record, last)
\* The order of the work holds in the record, not only in the copy a request
\* looked at: a phase is left, and its last step finished, only when all its
\* checks are finished, those of endpoints just added included.
WorkflowInOrder ==
    [][/\ record'.phase # record.phase => PhaseComplete(record)
       /\ FinishesLast =>
             SetupDone(record) /\ ChecksDone(record) /\ ~NeedsEndpoint(record)]_vars

\* What later states of an item and of the record may add to but not take back.
\* A revision stands for all that is in the item but the time its lease ends.
ItemGoesOn(old, new) ==
    /\ new.runs >= old.runs /\ old.observed \subseteq new.observed
    /\ old.finished => new.finished /\ new.status = old.status
    /\ new.rev >= old.rev
    /\ new.rev = old.rev => new = [old EXCEPT !.lease = new.lease]
FindingGoesOn(old, new) ==
    old # Nothing =>
        /\ new # Nothing
        /\ old.state = "confirmed" => new = [old EXCEPT !.waived = new.waived]
GoesOn(s, n) ==
    /\ n.flow = s.flow /\ n.phase >= s.phase /\ s.endpoints \subseteq n.endpoints
    /\ \A w \in Works : ItemGoesOn(s.work[w], n.work[w])
    /\ \A v \in EvidenceIds : s.evidence[v] # Nothing => n.evidence[v] = s.evidence[v]
    /\ \A f \in FindingIds : FindingGoesOn(s.findings[f], n.findings[f])
\* No update is lost under another: though every write replaces the whole row
\* by a copy made some time before, no phase, endpoint, observation, completed
\* run, piece of evidence or confirmed finding that was ever written goes back,
\* and what a claimant was told with an item's revision is so while it has it.
NothingIsUndone ==
    [][record' # record => record'.rev > record.rev /\ GoesOn(record, record')]_vars

Promise ==
    INSTANCE EngagementClaims WITH
        holder <- [w \in Works |-> record.work[w].by],
        reported <- [w \in Works |-> /\ ~record.work[w].finished
                                     /\ record.work[w].status \in Terminal(w)],
        completed <- [w \in Works |-> record.work[w].runs]
\* With all the interleavings of its requests, the engagement keeps what
\* EngagementClaims promises.
KeepsPromise == Promise!Spec
=============================================================================
