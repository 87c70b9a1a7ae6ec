----------------------- MODULE EngagementWorkflowProofs -----------------------
(***************************************************************************)
(* That the record follows its workflow, and that the queue it offers is   *)
(* one that can be worked through: theorems about Engagement that rest on  *)
(* the inductive invariant of EngagementProofs.                            *)
(***************************************************************************)
EXTENDS EngagementProofs, WellFoundedInduction

\* What a state looks like to its workflow: expiring claims leaves it alone.
SameWork(s, n) ==
    /\ n.flow = s.flow /\ n.phase = s.phase /\ n.endpoints = s.endpoints
    /\ \A w \in Works : n.work[w].finished = s.work[w].finished

LEMMA ExpirySameWork ==
    ASSUME NEW s, Good(s), NEW t \in Nat
    PROVE  SameWork(s, ExpireClaims(s, t))
  <1> DEFINE n == ExpireClaims(s, t)
  <1>1. /\ n.flow = s.flow /\ n.phase = s.phase /\ n.endpoints = s.endpoints
        /\ \A w \in Works : n.work[w] =
              IF w \in Expired(s, t)
              THEN [Unclaim(w, s.work[w]) EXCEPT !.rev = @ + 1] ELSE s.work[w]
    BY ExpireGood
  <1> HIDE DEF n
  <1>2. ASSUME NEW w \in Works, w \in Expired(s, t)
        PROVE  n.work[w].finished = s.work[w].finished
    <2> DEFINE u == Unclaim(w, s.work[w])
    <2>1. /\ s.work[w] \in WorkStates
          /\ RowOK(w, s.work[w], RawEvidence(s, w, s.work[w].runs))
      BY RecordFields DEF Good, WorkOK
    <2>2. u \in WorkStates /\ u.finished = s.work[w].finished
      BY <2>1, UnclaimOK
    <2>3. n.work[w] = [u EXCEPT !.rev = @ + 1]
      BY <1>1, <1>2
    <2> HIDE DEF u
    <2> QED
      BY <2>2, <2>3 DEF WorkStates
  <1> QED
    BY <1>1, <1>2 DEF SameWork, n

\* The steps of the current phase and its checks are items of work, its steps
\* all different and none of them a check.
LEMMA PhaseWork ==
    ASSUME NEW s, Good(s)
    PROVE  /\ LastStep(s) \in Nat \ {0}
           /\ \A j \in 1..LastStep(s) : StepAt(s, j) \in Steps /\ StepAt(s, j) \in Works
           /\ \A i, j \in 1..LastStep(s) : StepAt(s, i) = StepAt(s, j) => i = j
           /\ ChecksOf(s) \subseteq Works
           /\ \A j \in 1..LastStep(s) : StepAt(s, j) \notin ChecksOf(s)
  <1>1. /\ s.flow \in Workflows /\ s.phase \in Phases(s.flow)
        /\ s.endpoints \subseteq Endpoints
    BY RecordFields DEF Good
  <1>2. /\ LastStep(s) \in Nat \ {0}
        /\ DOMAIN s.flow.steps[s.phase] = 1..LastStep(s)
        /\ \A i, j \in 1..LastStep(s) : StepAt(s, i) = StepAt(s, j) => i = j
    BY <1>1, WorkflowAssumption DEF LastStep, StepAt
  <1>3. \A j \in 1..LastStep(s) : StepAt(s, j) \in Steps
    BY <1>1, <1>2 DEF Steps, StepsOf, StepAt
  <1>4. ChecksOf(s) \subseteq GlobalChecks \cup EndpointWork
    BY <1>1 DEF ChecksOf, EndpointWorkOf, EndpointWork
  <1> QED
    BY <1>2, <1>3, <1>4, WorkflowAssumption DEF Works

LEMMA SameWorkflow ==
    ASSUME NEW s, NEW n, Good(s), SameWork(s, n)
    PROVE  /\ Kind(n) = Kind(s) /\ LastStep(n) = LastStep(s)
           /\ \A j : StepAt(n, j) = StepAt(s, j)
           /\ ChecksOf(n) = ChecksOf(s)
           /\ SetupDone(n) <=> SetupDone(s)
           /\ ChecksDone(n) <=> ChecksDone(s)
           /\ NeedsEndpoint(n) <=> NeedsEndpoint(s)
           /\ PhaseComplete(n) <=> PhaseComplete(s)
  <1>1. /\ Kind(n) = Kind(s) /\ LastStep(n) = LastStep(s)
        /\ \A j : StepAt(n, j) = StepAt(s, j)
        /\ NeedsEndpoint(n) <=> NeedsEndpoint(s)
    BY DEF SameWork, Kind, LastStep, StepAt, NeedsEndpoint
  <1>2. ChecksOf(n) = ChecksOf(s)
    BY <1>1 DEF SameWork, ChecksOf, EndpointWorkOf
  <1>3. \A w \in Works : Finished(n, w) <=> Finished(s, w)
    BY DEF SameWork, Finished
  <1>4. \A j \in 1..LastStep(s) : Finished(n, StepAt(n, j)) <=> Finished(s, StepAt(s, j))
    BY <1>1, <1>3, PhaseWork
  <1>5. ChecksDone(n) <=> ChecksDone(s)
    BY <1>2, <1>3, PhaseWork DEF ChecksDone
  <1>6. SetupDone(n) <=> SetupDone(s)
    <2>1. \A j \in 1..(LastStep(s) - 1) : j \in 1..LastStep(s)
      BY PhaseWork
    <2> QED
      BY <1>1, <1>4, <2>1 DEF SetupDone
  <1> QED
    BY <1>1, <1>2, <1>4, <1>5, <1>6 DEF PhaseComplete

-----------------------------------------------------------------------------
\* The steps of the record in the order of its workflow.
InOrder ==
    /\ record'.phase # record.phase => PhaseComplete(record)
    /\ FinishesLast => SetupDone(record) /\ ChecksDone(record) /\ ~NeedsEndpoint(record)

\* A step that stays in the phase and finishes nothing is in order.
LEMMA QuietInOrder ==
    ASSUME IInv, record'.phase = record.phase,
           \A w \in Works : record'.work[w].finished => record.work[w].finished
    PROVE  InOrder
  <1>1. StepAt(record, LastStep(record)) \in Works
    BY PhaseWork DEF IInv
  <1> QED
    BY <1>1 DEF InOrder, FinishesLast, Finished

\* So is a write of s, or of something no further than s, s being the record
\* with its claims expired.
LEMMA ExpiredInOrder ==
    ASSUME IInv, NEW t \in Nat,
           record'.phase = ExpireClaims(record, t).phase,
           \A w \in Works : record'.work[w].finished
                            => ExpireClaims(record, t).work[w].finished
    PROVE  InOrder
  <1>1. SameWork(record, ExpireClaims(record, t))
    BY ExpirySameWork DEF IInv
  <1> QED
    BY <1>1, QuietInOrder DEF SameWork

LEMMA FinishInOrder ==
    ASSUME IInv, NEW k \in Callers, Busy(k), NEW w \in Works, NEW c \in Claimants,
           Finish(k, ExpireClaims(Copy(k), At(k)), w, c)
    PROVE  InOrder
  <1> DEFINE t == At(k)
             s == ExpireClaims(Copy(k), t)
             new == FinishWork(s, w)
             last == StepAt(record, LastStep(record))
  <1>1. t \in Nat /\ Good(Copy(k)) /\ Good(s)
    BY InFlight
  <1>2. /\ Holds(s, w, c, t) /\ s.work[w].status \in Terminal(w)
        /\ RequireCompletionEvidence(s, w) /\ Save(k, new)
        /\ ResolveAccessible(s, w)
    BY DEF Finish, Writes
  <1>3. CASE record' = record
    BY <1>3, QuietInOrder
  <1>4. CASE Copy(k) = record /\ record' = new
    <2>1. SameWork(record, s)
      BY <1>1, <1>4, ExpirySameWork
    <2> HIDE DEF s, t
    <2>2. new.phase = s.phase /\ \A x \in Works \ {w} : new.work[x] = s.work[x]
      BY <1>1, <1>2, FinishGood
    <2> HIDE DEF new
    <2>3. record'.phase = record.phase
      BY <1>4, <2>1, <2>2 DEF SameWork
    <2>4. last \in Works
      BY PhaseWork DEF IInv
    <2>5. CASE w # last
      <3>1. ~FinishesLast
        BY <1>4, <2>1, <2>2, <2>4, <2>5 DEF FinishesLast, Finished, SameWork
      <3> QED
        BY <2>3, <3>1 DEF InOrder
    <2>6. CASE w = last
      <3>1. /\ LastStep(s) = LastStep(record) /\ w = StepAt(s, LastStep(s))
            /\ LastStep(s) \in Nat \ {0}
            /\ \A i, j \in 1..LastStep(s) : StepAt(s, i) = StepAt(s, j) => i = j
            /\ \A j \in 1..LastStep(s) : StepAt(s, j) \notin ChecksOf(s)
        BY <1>1, <2>1, <2>6, SameWorkflow, PhaseWork DEF IInv
      <3>2. LastStep(s) \in 1..LastStep(s)
        BY <3>1
      <3>3. w \notin ChecksOf(s)
        BY <3>1, <3>2
      <3>4. PICK j \in 1..LastStep(s) : w = StepAt(s, j) /\ RequirePriorWorkFinished(s, j)
        BY <1>2, <3>3 DEF ResolveAccessible
      <3>5. j = LastStep(s)
        BY <3>1, <3>2, <3>4
      <3>6. SetupDone(s) /\ ~NeedsEndpoint(s) /\ ChecksDone(s)
        BY <3>4, <3>5 DEF RequirePriorWorkFinished, SetupDone
      <3> QED
        BY <2>1, <2>3, <3>6, SameWorkflow DEF IInv, InOrder
    <2> QED
      BY <2>5, <2>6
  <1> QED
    BY <1>2, <1>3, <1>4, SaveCases

LEMMA AdvanceInOrder ==
    ASSUME IInv, NEW k \in Callers, Busy(k),
           Advance(k, ExpireClaims(Copy(k), At(k)))
    PROVE  InOrder
  <1> DEFINE s == ExpireClaims(Copy(k), At(k))
  <1>1. At(k) \in Nat /\ Good(Copy(k)) /\ Good(s)
    BY InFlight
  <1>2. /\ PhaseComplete(s)
        /\ (HasNext(s) /\ Save(k, Advanced(s))) \/ UNCHANGED record \/ Save(k, s)
    BY DEF Advance, Advanced
  <1>3. CASE UNCHANGED record
    BY <1>3, QuietInOrder
  <1>4. CASE Copy(k) = record /\ record' = s
    BY <1>1, <1>4, ExpiredInOrder
  <1>5. CASE Copy(k) = record /\ record' = Advanced(s) /\ HasNext(s)
    <2>1. SameWork(record, s)
      BY <1>1, <1>5, ExpirySameWork
    <2> HIDE DEF s
    <2>2. PhaseComplete(record)
      BY <1>2, <2>1, SameWorkflow DEF IInv
    <2>3. record'.work = s.work
      BY <1>1, <1>5, AdvanceGood
    <2>4. ~FinishesLast
      <3>1. StepAt(record, LastStep(record)) \in Works
        BY PhaseWork DEF IInv
      <3> QED
        BY <2>1, <2>3, <3>1 DEF FinishesLast, Finished, SameWork
    <2> QED
      BY <2>2, <2>4 DEF InOrder
  <1> QED
    BY <1>2, <1>3, <1>4, <1>5, SaveCases

LEMMA RequestInOrder ==
    ASSUME IInv, NEW k \in Callers, Busy(k),
           Request(k, ExpireClaims(Copy(k), At(k)))
    PROVE  InOrder
  <1> DEFINE t == At(k)
             s == ExpireClaims(Copy(k), t)
  <1>1. /\ t \in Nat /\ Good(Copy(k)) /\ Good(s)
        /\ \A w \in Works : Claimed(s, w) => Live(s, w, t)
    BY InFlight
  \* A write that goes no further than the copy, or than s.
  <1>2. ASSUME NEW new, Save(k, new), new.phase = Copy(k).phase,
               \A w \in Works : new.work[w].finished => Copy(k).work[w].finished
        PROVE  InOrder
    BY <1>2, SaveCases, QuietInOrder
  <1>3. ASSUME NEW new, Save(k, new), new.phase = s.phase,
               \A w \in Works : new.work[w].finished => s.work[w].finished
        PROVE  InOrder
    BY <1>1, <1>3, SaveCases, QuietInOrder, ExpiredInOrder
  <1>4. ASSUME NEW c \in Claimants, Look(k, s, c) PROVE InOrder
    <2>1. UNCHANGED record \/ Save(k, s)
      BY <1>4 DEF Look
    <2> QED
      BY <1>3, <2>1, QuietInOrder
  <1>5. ASSUME NEW w \in Works, NEW c \in Claimants, Claim(k, s, w, c) PROVE InOrder
    <2> DEFINE new == ClaimWork(s, w, c, t)
    <2>1. CanClaim(s, w, c, t) /\ Save(k, new)
      BY <1>5 DEF Claim
    <2> HIDE DEF s, t
    <2>2. /\ new.phase = s.phase /\ new.work[w].finished = s.work[w].finished
          /\ \A x \in Works \ {w} : new.work[x] = s.work[x]
      BY <1>1, <2>1, ClaimGood
    <2> HIDE DEF new
    <2>3. \A x \in Works : new.work[x].finished => s.work[x].finished
      BY <2>2
    <2> QED
      BY <1>3, <2>1, <2>2, <2>3
  <1>6. ASSUME NEW w \in Works, NEW c \in Claimants, Heartbeat(k, w, c) PROVE InOrder
    <2> DEFINE new == Extended(Copy(k), w, t)
    <2>1. Save(k, new)
      BY <1>6 DEF Heartbeat
    <2>2. /\ new.phase = Copy(k).phase /\ new.work[w].finished = Copy(k).work[w].finished
          /\ \A x \in Works \ {w} : new.work[x] = Copy(k).work[x]
      BY <1>1, ExtendGood
    <2> HIDE DEF new
    <2>3. \A x \in Works : new.work[x].finished => Copy(k).work[x].finished
      BY <2>2
    <2> QED
      BY <1>2, <2>1, <2>2, <2>3
  <1>7. ASSUME NEW w \in Works, Release(k, w) PROVE InOrder
    <2> DEFINE new == Bump(Copy(k), w, Unclaim(w, Copy(k).work[w]))
    <2>1. Save(k, new)
      BY <1>7 DEF Release
    <2>2. /\ new.phase = Copy(k).phase /\ new.work[w].finished = Copy(k).work[w].finished
          /\ \A x \in Works \ {w} : new.work[x] = Copy(k).work[x]
      BY <1>1, ReleaseGood
    <2> HIDE DEF new
    <2>3. \A x \in Works : new.work[x].finished => Copy(k).work[x].finished
      BY <2>2
    <2> QED
      BY <1>2, <2>1, <2>2, <2>3
  <1>8. ASSUME NEW w \in Works, NEW c \in Claimants, NEW status \in Terminal(w),
               RecordResult(k, s, w, c, status)
        PROVE  InOrder
    <2> DEFINE new == RecordWork(s, w, status)
    <2>1. Holds(s, w, c, t) /\ Save(k, new)
      BY <1>8 DEF RecordResult, Writes
    <2> HIDE DEF s, t, new
    <2>2. \A u : u = RecordWork(s, w, status) =>
             /\ u.phase = s.phase /\ ~u.work[w].finished
             /\ \A x \in Works \ {w} : u.work[x] = s.work[x]
      BY <1>1, <2>1, RecordGood
    <2>3. /\ new.phase = s.phase
          /\ \A x \in Works : new.work[x].finished => s.work[x].finished
      BY <2>2 DEF new
    <2> QED
      BY <1>3, <2>1, <2>3
  <1>9. ASSUME EditOther(k) PROVE InOrder
    <2>1. /\ Save(k, Edited(Copy(k)))
          /\ Edited(Copy(k)).work = Copy(k).work /\ Edited(Copy(k)).phase = Copy(k).phase
      BY <1>1, <1>9, EditGood DEF EditOther, Edited
    <2> QED
      BY <1>2, <2>1
  <1>10. ASSUME NEW e \in Endpoints, AddEndpoint(k, e) PROVE InOrder
    <2> DEFINE new == WithEndpoint(Copy(k), e)
    <2>1. Save(k, new)
      BY <1>10 DEF AddEndpoint, WithEndpoint
    <2>2. new.work = Copy(k).work /\ new.phase = Copy(k).phase
      BY <1>1, EndpointGood
    <2> HIDE DEF new
    <2> QED
      BY <1>2, <2>1, <2>2
  <1>11. ASSUME NEW v \in EvidenceIds, \E item : Save(k, WithEvidence(Copy(k), v, item))
         PROVE  InOrder
    <2>1. \A item : /\ WithEvidence(Copy(k), v, item).work = Copy(k).work
                    /\ WithEvidence(Copy(k), v, item).phase = Copy(k).phase
      BY <1>1, RecordFields DEF Good, WithEvidence
    <2> QED
      BY <1>2, <1>11, <2>1
  <1>12. ASSUME NEW f \in FindingIds, \E item : Save(k, WithFinding(Copy(k), f, item))
         PROVE  InOrder
    <2>1. \A item : /\ WithFinding(Copy(k), f, item).work = Copy(k).work
                    /\ WithFinding(Copy(k), f, item).phase = Copy(k).phase
      BY <1>1, RecordFields DEF Good, WithFinding
    <2> QED
      BY <1>2, <1>12, <2>1
  <1>13. ASSUME NEW w \in Works, NEW c \in Claimants, NEW v \in EvidenceIds,
                NEW kind \in EvidenceKinds, AddEvidence(k, v, w, c, kind)
         PROVE  InOrder
    BY <1>11, <1>13 DEF AddEvidence, WithEvidence
  <1>14. ASSUME NEW w \in Works, NEW c \in Claimants, NEW f \in FindingIds,
                NEW cited \in SUBSET EvidenceIds, NEW severe \in BOOLEAN,
                UpsertFinding(k, f, w, c, cited, severe)
         PROVE  InOrder
    BY <1>12, <1>14 DEF UpsertFinding, WithFinding
  <1>15. ASSUME NEW c \in Claimants, NEW f \in FindingIds, NEW waiver \in BOOLEAN,
                ConfirmFinding(k, f, c, waiver)
         PROVE  InOrder
    BY <1>12, <1>15 DEF ConfirmFinding, WithFinding
  <1>16. ASSUME Refuse(k) PROVE InOrder
    BY <1>16, QuietInOrder DEF Refuse
  <1> QED
    BY <1>4, <1>5, <1>6, <1>7, <1>8, <1>9, <1>10, <1>13, <1>14, <1>15, <1>16,
       FinishInOrder, AdvanceInOrder DEF Request

\* A phase is left only when its work is finished in the record itself, and its
\* last step finished only after all its checks, endpoints added at any time
\* included.
THEOREM FollowsWorkflow == Spec => WorkflowInOrder
  <1>1. IInv /\ [Next]_vars =>
          [/\ record'.phase # record.phase => PhaseComplete(record)
           /\ FinishesLast =>
                 SetupDone(record) /\ ChecksDone(record) /\ ~NeedsEndpoint(record)]_vars
    <2> SUFFICES ASSUME IInv, Next PROVE InOrder
      BY DEF InOrder
    <2>1. ASSUME NEW k \in Callers, Busy(k), Request(k, ExpireClaims(Copy(k), At(k)))
          PROVE  InOrder
      BY <2>1, RequestInOrder
    <2>2. ASSUME NEW k \in Callers, NEW t \in 0..MaxClock, Load(k, t) PROVE InOrder
      BY <2>2, QuietInOrder DEF Load
    <2>3. CASE Tick
      BY <2>3, QuietInOrder DEF Tick
    <2> QED
      BY <2>1, <2>2, <2>3 DEF Next
  <1> QED
    BY <1>1, Inductive, PTL DEF Spec, WorkflowInOrder

-----------------------------------------------------------------------------
\* Every nonempty set of numbers has a least one.
LEMMA LeastNumber ==
    ASSUME NEW S \in SUBSET Nat, S # {}
    PROVE  \E j \in S : \A i \in S : j <= i
  <1> DEFINE R == OpToRel(<, Nat)
  <1>1. IsWellFoundedOn(R, Nat)
    BY NatLessThanWellFounded
  <1>2. \A i, j \in S : i < j => <<i, j>> \in R
    BY DEF OpToRel
  <1> HIDE DEF R
  <1>3. PICK j \in S : \A i \in S : ~(<<i, j>> \in R)
    BY <1>1, WFMin
  <1>4. ASSUME NEW i \in S PROVE j <= i
    <2>1. i \in Nat /\ j \in Nat
      OBVIOUS
    <2>2. ~(i < j)
      BY <1>2, <1>3
    <2> QED
      BY <2>1, <2>2
  <1> QED
    BY <1>4

\* An item that is open and may be worked on can be claimed by anybody who has
\* nothing.
LEMMA OpenIsClaimable ==
    ASSUME NEW s, Good(s), NEW t \in Nat, NEW c \in Claimants,
           \A w \in Works : Claimed(s, w) => Live(s, w, t),
           \A w \in Works : ~Holds(s, w, c, t),
           NEW w \in Works, ~Finished(s, w), ~Live(s, w, t), ResolveAccessible(s, w)
    PROVE  CanClaim(s, w, c, t)
  <1>1. RowOK(w, s.work[w], RawEvidence(s, w, s.work[w].runs))
    BY DEF Good, WorkOK
  <1>2. s.work[w].status \notin Terminal(w)
    BY <1>1 DEF RowOK, Finished, Claimed
  <1> QED
    BY <1>2 DEF CanClaim

\* The queue, once nobody's lease has run out, in the four stages of a phase.
LEMMA HonestQueue ==
    ASSUME NEW s, Good(s), NEW t \in Nat, NEW c \in Claimants,
           \A w \in Works : Claimed(s, w) => Live(s, w, t),
           \A w \in Works : ~Holds(s, w, c, t)
    PROVE  /\ \A w \in Available(s, c, t) : CanClaim(s, w, c, t)
           /\ Available(s, c, t) = {} =>
                 \/ PhaseComplete(s)
                 \/ NeedsEndpoint(s) /\ SetupDone(s)
                 \/ \E w \in Works : Live(s, w, t)
  <1> DEFINE Open(w) == ~Finished(s, w) /\ ~Live(s, w, t)
             unfinished == {j \in 1..LastStep(s) : ~Finished(s, StepAt(s, j))}
             gate == CHOOSE j \in unfinished : \A i \in unfinished : j <= i
             last == LastStep(s)
  <1>1. /\ last \in Nat \ {0}
        /\ \A j \in 1..last : StepAt(s, j) \in Works
        /\ ChecksOf(s) \subseteq Works
    BY PhaseWork
  <1>2. Available(s, c, t) =
           IF ~SetupDone(s) THEN {w \in {StepAt(s, gate)} : Open(w)}
           ELSE IF NeedsEndpoint(s) THEN {}
           ELSE IF ~ChecksDone(s) THEN {w \in ChecksOf(s) : Open(w)}
           ELSE {w \in {StepAt(s, last)} : Open(w)}
    <2>1. {w \in Works : Holds(s, w, c, t)} = {}
      OBVIOUS
    <2> QED
      BY <2>1 DEF Available
  <1>3. ASSUME NEW w \in Works, Open(w), ResolveAccessible(s, w)
        PROVE  CanClaim(s, w, c, t)
    BY <1>3, OpenIsClaimable
  <1>4. CASE ~SetupDone(s)
    <2>1. /\ unfinished \in SUBSET Nat
          /\ \E i \in unfinished : i < last
      BY <1>1, <1>4 DEF SetupDone
    <2>2. \E j \in unfinished : \A i \in unfinished : j <= i
      <3> HIDE DEF unfinished
      <3> QED
        BY <2>1, LeastNumber
    <2>3. gate \in unfinished /\ \A i \in unfinished : gate <= i
      <3> HIDE DEF unfinished
      <3> QED
        BY <2>2
    <2> HIDE DEF gate
    <2>4. gate \in 1..last /\ gate < last /\ ~Finished(s, StepAt(s, gate))
      BY <1>1, <2>1, <2>3
    <2>5. \A i \in 1..(gate - 1) : Finished(s, StepAt(s, i))
      BY <1>1, <2>3, <2>4
    <2>6. ResolveAccessible(s, StepAt(s, gate))
      BY <1>1, <2>4, <2>5 DEF ResolveAccessible, RequirePriorWorkFinished
    <2>7. StepAt(s, gate) \in Works
      BY <1>1, <2>4
    <2>8. \A w \in Available(s, c, t) : CanClaim(s, w, c, t)
      BY <1>2, <1>3, <1>4, <2>6, <2>7
    <2>9. Available(s, c, t) = {} => Live(s, StepAt(s, gate), t)
      BY <1>2, <1>4, <2>4
    <2> QED
      BY <2>7, <2>8, <2>9
  <1>5. CASE SetupDone(s) /\ NeedsEndpoint(s)
    BY <1>2, <1>5
  <1>6. CASE SetupDone(s) /\ ~NeedsEndpoint(s) /\ ~ChecksDone(s)
    <2>1. \A w \in ChecksOf(s) : ResolveAccessible(s, w)
      BY <1>6 DEF ResolveAccessible
    <2>2. \A w \in Available(s, c, t) : CanClaim(s, w, c, t)
      BY <1>1, <1>2, <1>3, <1>6, <2>1
    <2>3. PICK w \in ChecksOf(s) : ~Finished(s, w)
      BY <1>6 DEF ChecksDone
    <2>4. Available(s, c, t) = {} => Live(s, w, t)
      BY <1>2, <1>6, <2>3
    <2> QED
      BY <1>1, <2>2, <2>4
  <1>7. CASE SetupDone(s) /\ ~NeedsEndpoint(s) /\ ChecksDone(s)
    <2>1. last \in 1..last
      BY <1>1
    <2>2. ResolveAccessible(s, StepAt(s, last))
      BY <1>7, <2>1 DEF ResolveAccessible, RequirePriorWorkFinished, SetupDone
    <2>3. StepAt(s, last) \in Works
      BY <1>1, <2>1
    <2>4. \A w \in Available(s, c, t) : CanClaim(s, w, c, t)
      BY <1>2, <1>3, <1>7, <2>2, <2>3
    <2>5. Finished(s, StepAt(s, last)) => PhaseComplete(s)
      <3>1. \A j \in 1..last : j = last \/ j \in 1..(last - 1)
        BY <1>1
      <3> QED
        BY <1>7, <3>1 DEF PhaseComplete, SetupDone
    <2>6. Available(s, c, t) = {} => Finished(s, StepAt(s, last)) \/ Live(s, StepAt(s, last), t)
      BY <1>2, <1>7
    <2> QED
      BY <2>3, <2>4, <2>5, <2>6
  <1> QED
    BY <1>4, <1>5, <1>6, <1>7

\* What the queue offers to those with nothing in hand can be claimed, and it
\* is only empty when there is nothing to do or somebody is doing it.
THEOREM HonestyOfTheQueue == Spec => []QueueIsHonest
  <1>1. IInv => QueueIsHonest
    <2> SUFFICES ASSUME IInv PROVE QueueIsHonest
      OBVIOUS
    <2> DEFINE s == ExpireClaims(record, clock)
    <2>1. Good(record) /\ clock \in Nat
      BY DEF IInv
    <2>2. Good(s) /\ \A w \in Works : Claimed(s, w) => Live(s, w, clock)
      BY <2>1, ExpireGood
    <2> HIDE DEF s
    <2>3. ASSUME NEW c \in Claimants, \A w \in Works : ~Holds(s, w, c, clock)
          PROVE  /\ \A w \in Available(s, c, clock) : CanClaim(s, w, c, clock)
                 /\ Available(s, c, clock) = {} =>
                       \/ PhaseComplete(s)
                       \/ NeedsEndpoint(s) /\ SetupDone(s)
                       \/ \E w \in Works : Live(s, w, clock)
      BY <2>1, <2>2, <2>3, HonestQueue
    <2> QED
      BY <2>3 DEF QueueIsHonest, s
  <1> QED
    BY <1>1, Inductive, PTL

-----------------------------------------------------------------------------
\* Nothing is undone.  Going on is transitive, so it is enough that letting
\* claims expire goes on, and that each operation does from there.
LEMMA ItemsGoOn ==
    ASSUME NEW a \in WorkStates, NEW b \in WorkStates, NEW d \in WorkStates,
           ItemGoesOn(a, b), ItemGoesOn(b, d)
    PROVE  ItemGoesOn(a, d)
  <1>1. /\ a.runs \in Nat /\ b.runs \in Nat /\ d.runs \in Nat
        /\ a.rev \in Nat /\ b.rev \in Nat /\ d.rev \in Nat
    BY DEF WorkStates
  <1>2. /\ d.runs >= a.runs /\ d.rev >= a.rev
        /\ a.finished => d.finished /\ d.status = a.status
    BY <1>1 DEF ItemGoesOn
  <1>3. a.observed \subseteq d.observed
    BY DEF ItemGoesOn
  <1>4. ASSUME d.rev = a.rev PROVE d = [a EXCEPT !.lease = d.lease]
    <2>1. b.rev = a.rev /\ d.rev = b.rev
      BY <1>1, <1>4 DEF ItemGoesOn
    <2>2. b = [a EXCEPT !.lease = b.lease] /\ d = [b EXCEPT !.lease = d.lease]
      BY <2>1 DEF ItemGoesOn
    <2> QED
      BY <2>2 DEF WorkStates
  <1> QED
    BY <1>2, <1>3, <1>4 DEF ItemGoesOn

LEMMA ItemStays ==
    ASSUME NEW a \in WorkStates
    PROVE  ItemGoesOn(a, a)
  BY DEF ItemGoesOn, WorkStates

\* A row written with the next revision.
LEMMA ItemBumped ==
    ASSUME NEW a \in WorkStates, NEW b \in WorkStates,
           b.runs >= a.runs, a.observed \subseteq b.observed, b.rev = a.rev,
           a.finished => b.finished /\ b.status = a.status
    PROVE  ItemGoesOn(a, [b EXCEPT !.rev = @ + 1])
  <1> DEFINE n == [b EXCEPT !.rev = @ + 1]
  <1>1. /\ n.runs = b.runs /\ n.observed = b.observed /\ n.finished = b.finished
        /\ n.status = b.status /\ n.rev = a.rev + 1
    BY DEF WorkStates
  <1>2. a.rev \in Nat
    BY DEF WorkStates
  <1> HIDE DEF n
  <1>3. n.rev >= a.rev /\ n.rev # a.rev
    BY <1>1, <1>2
  <1> QED
    BY <1>1, <1>3 DEF ItemGoesOn, n

LEMMA StatesGoOn ==
    ASSUME NEW a, NEW b, NEW d, Good(a), Good(b), Good(d), GoesOn(a, b), GoesOn(b, d)
    PROVE  GoesOn(a, d)
  <1>1. /\ d.flow = a.flow /\ d.phase >= a.phase /\ a.endpoints \subseteq d.endpoints
    BY RecordFields DEF Good, GoesOn
  <1>2. \A w \in Works : ItemGoesOn(a.work[w], d.work[w])
    BY RecordFields, ItemsGoOn DEF Good, GoesOn
  <1>3. \A v \in EvidenceIds : a.evidence[v] # Nothing => d.evidence[v] = a.evidence[v]
    BY DEF GoesOn
  <1>4. ASSUME NEW f \in FindingIds
        PROVE  FindingGoesOn(a.findings[f], d.findings[f])
    <2> DEFINE x == a.findings[f]
               y == b.findings[f]
               z == d.findings[f]
    <2>1. /\ FindingGoesOn(x, y) /\ FindingGoesOn(y, z)
          /\ x \in FindingItem \cup {Nothing} /\ y \in FindingItem \cup {Nothing}
      BY RecordFields DEF Good, GoesOn
    <2> HIDE DEF x, y, z
    <2>2. ASSUME x # Nothing, x.state = "confirmed"
          PROVE  z = [x EXCEPT !.waived = z.waived]
      <3>1. y = [x EXCEPT !.waived = y.waived] /\ y # Nothing /\ x \in FindingItem
        BY <2>1, <2>2 DEF FindingGoesOn
      <3>2. y.state = "confirmed"
        BY <2>2, <3>1 DEF FindingItem
      <3>3. z = [y EXCEPT !.waived = z.waived]
        BY <2>1, <3>1, <3>2 DEF FindingGoesOn
      <3> QED
        BY <3>1, <3>3 DEF FindingItem
    <2> QED
      BY <2>1, <2>2 DEF FindingGoesOn, x, y, z
  <1> QED
    BY <1>1, <1>2, <1>3, <1>4 DEF GoesOn

\* A finding that is left alone goes on.
LEMMA FindingStays ==
    ASSUME NEW x \in FindingItem \cup {Nothing}
    PROVE  FindingGoesOn(x, x)
  BY DEF FindingGoesOn, FindingItem

LEMMA StateStays ==
    ASSUME NEW s, Good(s)
    PROVE  GoesOn(s, s)
  <1>1. /\ s.phase \in Nat /\ \A w \in Works : s.work[w] \in WorkStates
        /\ \A f \in FindingIds : s.findings[f] \in FindingItem \cup {Nothing}
    BY RecordFields DEF Good
  <1> QED
    BY <1>1, ItemStays, FindingStays DEF GoesOn

LEMMA ExpiryGoesOn ==
    ASSUME NEW s, Good(s), NEW t \in Nat
    PROVE  GoesOn(s, ExpireClaims(s, t))
  <1> DEFINE n == ExpireClaims(s, t)
  <1>1. /\ n.flow = s.flow /\ n.phase = s.phase /\ n.endpoints = s.endpoints
        /\ n.evidence = s.evidence
        /\ \A w \in Works : n.work[w] =
              IF w \in Expired(s, t)
              THEN [Unclaim(w, s.work[w]) EXCEPT !.rev = @ + 1] ELSE s.work[w]
    BY ExpireGood
  <1>2. n.findings = s.findings
    BY RecordFields DEF Good, ExpireClaims
  <1> HIDE DEF n
  <1>3. ASSUME NEW w \in Works
        PROVE  ItemGoesOn(s.work[w], n.work[w])
    <2>1. /\ s.work[w] \in WorkStates
          /\ RowOK(w, s.work[w], RawEvidence(s, w, s.work[w].runs))
      BY RecordFields DEF Good, WorkOK
    <2> DEFINE u == Unclaim(w, s.work[w])
    <2>2. u \in WorkStates /\ u.runs = s.work[w].runs /\ u.finished = s.work[w].finished
      BY <2>1, UnclaimOK
    <2>3. /\ u.observed = s.work[w].observed /\ u.rev = s.work[w].rev
          /\ s.work[w].finished => u.status = s.work[w].status
      BY <2>1 DEF Unclaim, WorkStates
    <2>4. s.work[w].runs \in Nat
      BY <2>1 DEF WorkStates
    <2> HIDE DEF u
    <2>5. ItemGoesOn(s.work[w], [u EXCEPT !.rev = @ + 1])
      BY <2>1, <2>2, <2>3, <2>4, ItemBumped
    <2> QED
      BY <1>1, <2>1, <2>5, ItemStays DEF u
  <1>4. /\ s.phase \in Nat
        /\ \A f \in FindingIds : s.findings[f] \in FindingItem \cup {Nothing}
    BY RecordFields DEF Good
  <1> QED
    BY <1>1, <1>2, <1>3, <1>4, FindingStays DEF GoesOn, n

\* An operation on one item.
LEMMA RowGoesOn ==
    ASSUME NEW s, Good(s), NEW w \in Works, NEW row, NEW r,
           ItemGoesOn(s.work[w], row)
    PROVE  GoesOn(s, [s EXCEPT !.work[w] = row, !.rev = r])
  <1> DEFINE n == [s EXCEPT !.work[w] = row, !.rev = r]
  <1>1. /\ s \in Records /\ s.phase \in Nat /\ s.work \in [Works -> WorkStates]
        /\ \A f \in FindingIds : s.findings[f] \in FindingItem \cup {Nothing}
    BY RecordFields DEF Good
  <1>2. /\ n.flow = s.flow /\ n.phase = s.phase /\ n.endpoints = s.endpoints
        /\ n.evidence = s.evidence /\ n.findings = s.findings
        /\ n.work = [s.work EXCEPT ![w] = row]
    BY <1>1 DEF Records
  <1> HIDE DEF n
  <1>3. \A x \in Works : ItemGoesOn(s.work[x], n.work[x])
    BY <1>1, <1>2, ItemStays
  <1> QED
    BY <1>1, <1>2, <1>3, FindingStays DEF GoesOn, n

LEMMA BumpGoesOn ==
    ASSUME NEW s, Good(s), NEW w \in Works, NEW row \in WorkStates,
           row.runs >= s.work[w].runs, s.work[w].observed \subseteq row.observed,
           row.rev = s.work[w].rev,
           s.work[w].finished => row.finished /\ row.status = s.work[w].status
    PROVE  GoesOn(s, Bump(s, w, row))
  <1>1. s.work[w] \in WorkStates
    BY RecordFields DEF Good
  <1>2. ItemGoesOn(s.work[w], [row EXCEPT !.rev = @ + 1])
    BY <1>1, ItemBumped
  <1> DEFINE next == [row EXCEPT !.rev = @ + 1]
  <1> HIDE DEF next
  <1>3. GoesOn(s, [s EXCEPT !.work[w] = next, !.rev = s.rev + 1])
    BY <1>2, RowGoesOn DEF next
  <1>4. Bump(s, w, row) = [s EXCEPT !.work[w] = next, !.rev = s.rev + 1]
    BY RecordFields DEF Bump, Good, next
  <1> QED
    BY <1>3, <1>4

LEMMA ClaimGoesOn ==
    ASSUME NEW s, Good(s), NEW w \in Works, NEW c \in Claimants, NEW t \in Nat,
           ~s.work[w].finished
    PROVE  GoesOn(s, ClaimWork(s, w, c, t))
  <1> DEFINE status == IF Holds(s, w, c, t) THEN s.work[w].status ELSE "focused"
             row == [s.work[w] EXCEPT !.by = c, !.lease = t + Lease, !.status = status]
  <1>1. s.work[w] \in WorkStates /\ status \in Statuses /\ t + Lease \in Nat
    BY RecordFields, EngagementAssumption DEF Good, WorkStates, Statuses
  <1> HIDE DEF status
  <1>2. /\ row \in WorkStates /\ row.runs = s.work[w].runs
        /\ row.observed = s.work[w].observed /\ row.rev = s.work[w].rev
        /\ s.work[w].runs \in Nat
    BY <1>1 DEF WorkStates
  <1> HIDE DEF row
  <1>3. GoesOn(s, Bump(s, w, row))
    BY <1>2, BumpGoesOn
  <1> QED
    BY <1>3 DEF ClaimWork, row, status

LEMMA RecordGoesOn ==
    ASSUME NEW s, Good(s), NEW w \in Works, NEW status \in Terminal(w),
           ~s.work[w].finished
    PROVE  GoesOn(s, RecordWork(s, w, status))
  <1> DEFINE row == [s.work[w] EXCEPT
                        !.status = status,
                        !.observed = @ \cup {[run |-> s.work[w].runs + 1,
                                              status |-> status]}]
  <1>1. s.work[w] \in WorkStates /\ status \in Statuses
    BY RecordFields, TerminalStatuses DEF Good
  <1>2. [run |-> s.work[w].runs + 1, status |-> status] \in Observation
    BY <1>1 DEF WorkStates, Observation
  <1>3. /\ row \in WorkStates /\ row.runs = s.work[w].runs
        /\ s.work[w].observed \subseteq row.observed /\ row.rev = s.work[w].rev
        /\ s.work[w].runs \in Nat
    BY <1>1, <1>2 DEF WorkStates
  <1> HIDE DEF row
  <1>4. GoesOn(s, Bump(s, w, row))
    BY <1>3, BumpGoesOn
  <1> QED
    BY <1>4 DEF RecordWork, row

LEMMA FinishGoesOn ==
    ASSUME NEW s, Good(s), NEW w \in Works, ~s.work[w].finished
    PROVE  GoesOn(s, FinishWork(s, w))
  <1> DEFINE again == ShouldRepeat(w, s.work[w].runs + 1)
             status == IF again THEN "pending" ELSE s.work[w].status
             over == ~again
             row == [s.work[w] EXCEPT !.runs = @ + 1, !.by = Nobody, !.lease = 0,
                                      !.status = status, !.finished = over]
  <1>1. s.work[w] \in WorkStates /\ status \in Statuses
    BY RecordFields DEF Good, WorkStates, Statuses
  <1>2. over \in BOOLEAN
    OBVIOUS
  <1> HIDE DEF again, status, over
  <1>3. /\ row \in WorkStates /\ row.runs = s.work[w].runs + 1
        /\ row.observed = s.work[w].observed /\ row.rev = s.work[w].rev
        /\ s.work[w].runs \in Nat
    <2> DEFINE old == s.work[w]
    <2>1. row = [status |-> status, by |-> Nobody, lease |-> 0, rev |-> old.rev,
                 runs |-> old.runs + 1, finished |-> over, observed |-> old.observed]
      <3>1. old = [status |-> old.status, by |-> old.by, lease |-> old.lease,
                   rev |-> old.rev, runs |-> old.runs, finished |-> old.finished,
                   observed |-> old.observed]
        <4>1. old \in WorkStates
          BY <1>1
        <4> HIDE DEF old
        <4> QED
          BY <4>1 DEF WorkStates
      <3>2. row = [old EXCEPT !.runs = old.runs + 1, !.by = Nobody, !.lease = 0,
                              !.status = status, !.finished = over]
        OBVIOUS
      <3> HIDE DEF old, row
      <3> QED
        BY <3>1, <3>2
    <2>2. /\ old.rev \in Nat /\ old.runs \in Nat
          /\ old.observed \in SUBSET Observation
      BY <1>1 DEF WorkStates
    <2> HIDE DEF row
    <2> QED
      BY <1>1, <1>2, <2>1, <2>2 DEF WorkStates
  <1> HIDE DEF row
  <1>4. GoesOn(s, Bump(s, w, row))
    BY <1>3, BumpGoesOn
  <1> QED
    BY <1>4 DEF FinishWork, row, again, status, over

LEMMA ReleaseGoesOn ==
    ASSUME NEW s, Good(s), NEW w \in Works
    PROVE  GoesOn(s, Bump(s, w, Unclaim(w, s.work[w])))
  <1> DEFINE u == Unclaim(w, s.work[w])
  <1>1. /\ s.work[w] \in WorkStates
        /\ RowOK(w, s.work[w], RawEvidence(s, w, s.work[w].runs))
    BY RecordFields DEF Good, WorkOK
  <1>2. u \in WorkStates /\ u.runs = s.work[w].runs /\ u.finished = s.work[w].finished
    BY <1>1, UnclaimOK
  <1>3. /\ u.observed = s.work[w].observed /\ u.rev = s.work[w].rev
        /\ s.work[w].finished => u.status = s.work[w].status
        /\ s.work[w].runs \in Nat
    BY <1>1 DEF Unclaim, WorkStates
  <1> HIDE DEF u
  <1> QED
    BY <1>2, <1>3, BumpGoesOn DEF u

LEMMA ExtensionGoesOn ==
    ASSUME NEW s, Good(s), NEW w \in Works, NEW t \in Nat
    PROVE  GoesOn(s, Extended(s, w, t))
  <1> DEFINE row == [s.work[w] EXCEPT !.lease = t + Lease]
  <1>1. s.work[w] \in WorkStates
    BY RecordFields DEF Good
  <1>2. ItemGoesOn(s.work[w], row)
    BY <1>1 DEF ItemGoesOn, WorkStates
  <1> HIDE DEF row
  <1>3. GoesOn(s, [s EXCEPT !.work[w] = row, !.rev = s.rev + 1])
    BY <1>2, RowGoesOn
  <1>4. Extended(s, w, t) = [s EXCEPT !.work[w] = row, !.rev = s.rev + 1]
    BY RecordFields DEF Extended, Good, row
  <1> QED
    BY <1>3, <1>4

\* The operations on the rest of the record.
LEMMA SideStays ==
    ASSUME NEW s, Good(s)
    PROVE  /\ s \in Records /\ s.rev \in Nat /\ s.phase \in Nat
           /\ \A w \in Works : ItemGoesOn(s.work[w], s.work[w])
           /\ \A f \in FindingIds : FindingGoesOn(s.findings[f], s.findings[f])
           /\ s.evidence \in [EvidenceIds -> EvidenceItem \cup {Nothing}]
           /\ s.findings \in [FindingIds -> FindingItem \cup {Nothing}]
  BY RecordFields, ItemStays, FindingStays DEF Good

LEMMA EditGoesOn ==
    ASSUME NEW s, Good(s), NEW e
    PROVE  GoesOn(s, Edited(s)) /\ GoesOn(s, WithEndpoint(s, e)) /\ GoesOn(s, Advanced(s))
  <1>1. GoesOn(s, Edited(s))
    BY SideStays DEF GoesOn, Edited, Records
  <1>2. GoesOn(s, WithEndpoint(s, e))
    BY SideStays DEF GoesOn, WithEndpoint, Records
  <1>3. GoesOn(s, Advanced(s))
    BY SideStays DEF GoesOn, Advanced, Records
  <1> QED
    BY <1>1, <1>2, <1>3

LEMMA EvidenceGoesOn ==
    ASSUME NEW s, Good(s), NEW v \in EvidenceIds, NEW item, s.evidence[v] = Nothing
    PROVE  GoesOn(s, WithEvidence(s, v, item))
  BY SideStays DEF GoesOn, WithEvidence, Records

LEMMA FindingsGoOn ==
    ASSUME NEW s, Good(s), NEW f \in FindingIds, NEW finding,
           FindingGoesOn(s.findings[f], finding)
    PROVE  GoesOn(s, WithFinding(s, f, finding))
  <1> DEFINE n == WithFinding(s, f, finding)
  <1>1. /\ n.flow = s.flow /\ n.phase = s.phase /\ n.endpoints = s.endpoints
        /\ n.work = s.work /\ n.evidence = s.evidence
        /\ n.findings = [s.findings EXCEPT ![f] = finding]
    BY SideStays DEF WithFinding, Records
  <1> HIDE DEF n
  <1>2. \A x \in FindingIds : FindingGoesOn(s.findings[x], n.findings[x])
    BY <1>1, SideStays
  <1> QED
    BY <1>1, <1>2, SideStays DEF GoesOn, n

Onward == record' # record => record'.rev > record.rev /\ GoesOn(record, record')

LEMMA RequestOnward ==
    ASSUME IInv, NEW k \in Callers, Busy(k), Request(k, ExpireClaims(Copy(k), At(k)))
    PROVE  Onward
  <1> DEFINE t == At(k)
             s == ExpireClaims(Copy(k), t)
  <1>1. /\ t \in Nat /\ Good(Copy(k)) /\ Good(s)
        /\ Copy(k).rev \in Nat /\ s.rev \in Nat /\ s.rev >= Copy(k).rev
        /\ s # Copy(k) => s.rev > Copy(k).rev
        /\ \A w \in Works : Claimed(s, w) => Live(s, w, t)
    BY InFlight
  <1>2. GoesOn(Copy(k), s)
    BY <1>1, ExpiryGoesOn
  \* A write of what an operation made of the copy, or of s.
  <1>3. ASSUME NEW new, Save(k, new), Good(new), new.rev > Copy(k).rev, GoesOn(Copy(k), new)
        PROVE  Onward
    BY <1>3, SaveCases DEF Onward
  <1>4. ASSUME NEW new, Save(k, new), Good(new), new.rev > s.rev, GoesOn(s, new)
        PROVE  Onward
    <2> HIDE DEF s
    <2>1. new.rev \in Nat
      BY <1>4, RecordFields DEF Good
    <2>2. new.rev > Copy(k).rev
      BY <1>1, <1>4, <2>1
    <2>3. GoesOn(Copy(k), new)
      BY <1>1, <1>2, <1>4, StatesGoOn
    <2> QED
      BY <1>3, <1>4, <2>2, <2>3
  <1>5. ASSUME Save(k, s) PROVE Onward
    BY <1>1, <1>2, <1>5, SaveCases DEF Onward
  <1>6. ASSUME UNCHANGED record PROVE Onward
    BY <1>6 DEF Onward
  <1>7. ASSUME NEW c \in Claimants, Look(k, s, c) PROVE Onward
    BY <1>5, <1>6, <1>7 DEF Look
  <1>8. ASSUME NEW w \in Works, NEW c \in Claimants, Claim(k, s, w, c) PROVE Onward
    <2> DEFINE new == ClaimWork(s, w, c, t)
    <2>1. CanClaim(s, w, c, t) /\ Save(k, new)
      BY <1>8 DEF Claim
    <2> HIDE DEF s, t
    <2>2. Good(new) /\ new.rev > s.rev /\ ~s.work[w].finished
      BY <1>1, <2>1, ClaimGood
    <2>3. GoesOn(s, new)
      BY <1>1, <2>2, ClaimGoesOn
    <2> QED
      BY <1>4, <2>1, <2>2, <2>3
  <1>9. ASSUME NEW w \in Works, NEW c \in Claimants, Heartbeat(k, w, c) PROVE Onward
    <2> DEFINE new == Extended(Copy(k), w, t)
    <2>1. Save(k, new)
      BY <1>9 DEF Heartbeat
    <2>2. Good(new) /\ new.rev > Copy(k).rev /\ GoesOn(Copy(k), new)
      BY <1>1, ExtendGood, ExtensionGoesOn
    <2> QED
      BY <1>3, <2>1, <2>2
  <1>10. ASSUME NEW w \in Works, Release(k, w) PROVE Onward
    <2> DEFINE new == Bump(Copy(k), w, Unclaim(w, Copy(k).work[w]))
    <2>1. Save(k, new)
      BY <1>10 DEF Release
    <2>2. Good(new) /\ new.rev > Copy(k).rev /\ GoesOn(Copy(k), new)
      BY <1>1, ReleaseGood, ReleaseGoesOn
    <2> QED
      BY <1>3, <2>1, <2>2
  <1>11. ASSUME NEW w \in Works, NEW c \in Claimants, NEW status \in Terminal(w),
                RecordResult(k, s, w, c, status)
         PROVE  Onward
    <2> DEFINE new == RecordWork(s, w, status)
    <2>1. Holds(s, w, c, t) /\ Save(k, new)
      BY <1>11 DEF RecordResult, Writes
    <2> HIDE DEF s, t
    <2>2. Good(new) /\ new.rev > s.rev /\ ~s.work[w].finished
      BY <1>1, <2>1, RecordGood
    <2>3. GoesOn(s, new)
      BY <1>1, <2>2, RecordGoesOn
    <2> QED
      BY <1>4, <2>1, <2>2, <2>3
  <1>12. ASSUME NEW w \in Works, NEW c \in Claimants, Finish(k, s, w, c) PROVE Onward
    <2> DEFINE new == FinishWork(s, w)
    <2>1. /\ Holds(s, w, c, t) /\ s.work[w].status \in Terminal(w)
          /\ RequireCompletionEvidence(s, w) /\ Save(k, new)
      BY <1>12 DEF Finish, Writes
    <2> HIDE DEF s, t
    <2>2. Good(new) /\ new.rev > s.rev /\ ~s.work[w].finished
      BY <1>1, <2>1, FinishGood
    <2>3. GoesOn(s, new)
      BY <1>1, <2>2, FinishGoesOn
    <2> QED
      BY <1>4, <2>1, <2>2, <2>3
  <1>13. ASSUME Advance(k, s) PROVE Onward
    <2>1. (HasNext(s) /\ Save(k, Advanced(s))) \/ UNCHANGED record \/ Save(k, s)
      BY <1>13 DEF Advance, Advanced
    <2>2. CASE HasNext(s) /\ Save(k, Advanced(s))
      <3>1. Good(Advanced(s)) /\ Advanced(s).rev > s.rev /\ GoesOn(s, Advanced(s))
        BY <1>1, <2>2, AdvanceGood, EditGoesOn
      <3> QED
        BY <1>4, <2>2, <3>1
    <2> QED
      BY <1>5, <1>6, <2>1, <2>2
  <1>14. ASSUME EditOther(k) PROVE Onward
    <2> DEFINE new == Edited(Copy(k))
    <2>1. Save(k, new)
      BY <1>14 DEF EditOther, Edited
    <2>2. Good(new) /\ new.rev > Copy(k).rev /\ GoesOn(Copy(k), new)
      BY <1>1, EditGood, EditGoesOn
    <2> QED
      BY <1>3, <2>1, <2>2
  <1>15. ASSUME NEW e \in Endpoints, AddEndpoint(k, e) PROVE Onward
    <2> DEFINE new == WithEndpoint(Copy(k), e)
    <2>1. Save(k, new)
      BY <1>15 DEF AddEndpoint, WithEndpoint
    <2>2. Good(new) /\ new.rev > Copy(k).rev /\ GoesOn(Copy(k), new)
      BY <1>1, EndpointGood, EditGoesOn
    <2> QED
      BY <1>3, <2>1, <2>2
  <1>16. ASSUME NEW w \in Works, NEW c \in Claimants, NEW v \in EvidenceIds,
                NEW kind \in EvidenceKinds, AddEvidence(k, v, w, c, kind)
         PROVE  Onward
    <2> DEFINE item == [work |-> w, kind |-> kind, run |-> Copy(k).work[w].runs + 1]
               new == WithEvidence(Copy(k), v, item)
    <2>1. Copy(k).evidence[v] = Nothing /\ Save(k, new)
      BY <1>16 DEF AddEvidence, WithEvidence
    <2>2. item \in EvidenceItem
      BY <1>1, RecordFields DEF Good, EvidenceItem, WorkStates
    <2> HIDE DEF item
    <2>3. Good(new) /\ new.rev > Copy(k).rev /\ GoesOn(Copy(k), new)
      BY <1>1, <2>1, <2>2, EvidenceGood, EvidenceGoesOn
    <2> QED
      BY <1>3, <2>1, <2>3
  <1>17. ASSUME NEW w \in Works, NEW c \in Claimants, NEW f \in FindingIds,
                NEW cited \in SUBSET EvidenceIds, NEW severe \in BOOLEAN,
                UpsertFinding(k, f, w, c, cited, severe)
         PROVE  Onward
    <2> DEFINE item == [state |-> "draft", work |-> w, evidence |-> cited,
                        severe |-> severe, waived |-> FALSE]
               new == WithFinding(Copy(k), f, item)
    <2>1. /\ Save(k, new) /\ Citable(Copy(k), w, cited)
          /\ Copy(k).findings[f] # Nothing => Copy(k).findings[f].state = "draft"
      BY <1>17 DEF UpsertFinding, WithFinding
    <2>2. item \in FindingItem
      BY DEF FindingItem
    <2>3. FindingOK(Copy(k), item)
      BY <2>1 DEF FindingOK, Citable
    <2>4. FindingGoesOn(Copy(k).findings[f], item)
      BY <2>1, <2>2, NothingAssumption DEF FindingGoesOn
    <2> HIDE DEF item
    <2>5. Good(new) /\ new.rev > Copy(k).rev /\ GoesOn(Copy(k), new)
      BY <1>1, <2>2, <2>3, <2>4, FindingGood, FindingsGoOn
    <2> QED
      BY <1>3, <2>1, <2>5
  <1>18. ASSUME NEW c \in Claimants, NEW f \in FindingIds, NEW waiver \in BOOLEAN,
                ConfirmFinding(k, f, c, waiver)
         PROVE  Onward
    <2> DEFINE old == Copy(k).findings[f]
               item == [old EXCEPT !.state = "confirmed", !.waived = waiver]
               new == WithFinding(Copy(k), f, item)
    <2>1. /\ Save(k, new) /\ old # Nothing /\ FindingHasRaw(Copy(k), old)
          /\ old.severe => FindingHasScreenshot(Copy(k), old) \/ waiver
      BY <1>18 DEF ConfirmFinding, WithFinding
    <2>2. old \in FindingItem /\ FindingOK(Copy(k), old)
      BY <1>1, <2>1, RecordFields DEF Good, FindingsOK
    <2>3. FindingGoesOn(old, item)
      BY <2>2, NothingAssumption DEF FindingGoesOn, FindingItem
    <2> HIDE DEF old
    <2>4. /\ item \in FindingItem
          /\ item.work = old.work /\ item.evidence = old.evidence
          /\ item.severe = old.severe /\ item.waived = waiver
      BY <2>2 DEF FindingItem
    <2> HIDE DEF item
    <2>5. FindingOK(Copy(k), item)
      BY <2>1, <2>2, <2>4 DEF FindingOK, FindingHasRaw, FindingHasScreenshot
    <2>6. Good(new) /\ new.rev > Copy(k).rev /\ GoesOn(Copy(k), new)
      BY <1>1, <2>3, <2>4, <2>5, FindingGood, FindingsGoOn DEF old
    <2> QED
      BY <1>3, <2>1, <2>6
  <1>19. ASSUME Refuse(k) PROVE Onward
    BY <1>6, <1>19 DEF Refuse
  <1> QED
    BY <1>7, <1>8, <1>9, <1>10, <1>11, <1>12, <1>13, <1>14, <1>15, <1>16, <1>17, <1>18,
       <1>19 DEF Request

\* No request takes back what another one wrote: however many were in flight
\* on however old copies, the record only goes on, each write under a revision
\* of its own.
THEOREM NothingUndone == Spec => NothingIsUndone
  <1>1. IInv /\ [Next]_vars =>
          [record' # record => record'.rev > record.rev /\ GoesOn(record, record')]_vars
    <2> SUFFICES ASSUME IInv, Next PROVE Onward
      BY DEF Onward
    <2>1. ASSUME NEW k \in Callers, Busy(k), Request(k, ExpireClaims(Copy(k), At(k)))
          PROVE  Onward
      BY <2>1, RequestOnward
    <2>2. CASE \E k \in Callers, t \in 0..MaxClock : Load(k, t)
      BY <2>2 DEF Load, Onward
    <2>3. CASE Tick
      BY <2>3 DEF Tick, Onward
    <2> QED
      BY <2>1, <2>2, <2>3 DEF Next
  <1> QED
    BY <1>1, Inductive, PTL DEF Spec, NothingIsUndone
=============================================================================
