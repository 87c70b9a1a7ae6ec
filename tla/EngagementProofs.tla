-------------------------- MODULE EngagementProofs --------------------------
(***************************************************************************)
(* Theorems about Engagement, for any workflows, claimants and requests.   *)
(* The invariant that carries them all is CopiesCurrent: a copy whose      *)
(* revision is the record's is the record.  So a write that succeeds is an *)
(* operation on the record itself, and Good, which each operation keeps on *)
(* the copy it works on, is kept by the record.                            *)
(***************************************************************************)
EXTENDS Engagement, FiniteSetTheorems, TLAPS

\* A row of the work is as it should be.  An unfinished result belongs to a
\* claim, and every run behind it was observed.
RowOK(w, work, raw) ==
    /\ work.status = "focused" => work.by # Nobody
    /\ ~work.finished /\ work.status \in Terminal(w) =>
          /\ work.by # Nobody
          /\ [run |-> work.runs + 1, status |-> work.status] \in work.observed
    /\ work.finished =>
          /\ work.by = Nobody
          /\ work.status \in Terminal(w)
          /\ [run |-> work.runs, status |-> work.status] \in work.observed
          /\ work.status = "vulnerable" => raw # {}
    /\ \A r \in 1..work.runs : \E o \in work.observed : o.run = r

WorkOK(s) ==
    \A w \in Works : RowOK(w, s.work[w], RawEvidence(s, w, s.work[w].runs))
OneEach(s) ==
    \A w1, w2 \in Works :
        Claimed(s, w1) /\ s.work[w1].by = s.work[w2].by => w1 = w2
FindingOK(s, finding) ==
    /\ \A v \in finding.evidence :
          s.evidence[v] # Nothing /\ s.evidence[v].work = finding.work
    /\ finding.state = "confirmed" =>
          /\ FindingHasRaw(s, finding)
          /\ finding.severe => finding.waived \/ FindingHasScreenshot(s, finding)
FindingsOK(s) ==
    \A f \in FindingIds : s.findings[f] # Nothing => FindingOK(s, s.findings[f])
Good(s) ==
    /\ s \in Records /\ s.phase \in Phases(s.flow)
    /\ WorkOK(s) /\ OneEach(s) /\ FindingsOK(s)

Informed(t, s) ==
    \A w \in Works :
        Claimed(s, w) => t[s.work[w].by] = [work |-> w, rev |-> s.work[w].rev]

\* The copies the operations write, one name for each kind of change.
WithRow(s, w, row) == [s EXCEPT !.work[w] = row, !.rev = @ + 1]
Edited(s) == [s EXCEPT !.rev = @ + 1]
WithEndpoint(s, e) == [s EXCEPT !.endpoints = @ \cup {e}, !.rev = @ + 1]
Advanced(s) == [s EXCEPT !.phase = @ + 1, !.rev = @ + 1]
WithEvidence(s, v, item) == [s EXCEPT !.evidence[v] = item, !.rev = @ + 1]
WithFinding(s, f, item) == [s EXCEPT !.findings[f] = item, !.rev = @ + 1]

LEMMA TerminalStatuses ==
    \A w : /\ Terminal(w) \subseteq Statuses
           /\ "pending" \notin Terminal(w) /\ "focused" \notin Terminal(w)
  BY DEF Terminal, Statuses

LEMMA RecordFields ==
    ASSUME NEW s \in Records
    PROVE  /\ s = [flow |-> s.flow, rev |-> s.rev, phase |-> s.phase,
                   work |-> s.work, endpoints |-> s.endpoints,
                   evidence |-> s.evidence, findings |-> s.findings]
           /\ s.flow \in Workflows /\ s.rev \in Nat /\ s.phase \in Nat
           /\ s.work \in [Works -> WorkStates] /\ s.endpoints \in SUBSET Endpoints
           /\ s.evidence \in [EvidenceIds -> EvidenceItem \cup {Nothing}]
           /\ s.findings \in [FindingIds -> FindingItem \cup {Nothing}]
  BY DEF Records

\* Changing one field of a record and its revision, for each of four fields.
LEMMA PhaseChange ==
    ASSUME NEW s \in Records, NEW x, NEW r, NEW new,
           new = [s EXCEPT !.phase = x, !.rev = r]
    PROVE  new = [flow |-> s.flow, rev |-> r, phase |-> x, work |-> s.work,
                  endpoints |-> s.endpoints, evidence |-> s.evidence, findings |-> s.findings]
  <1> DEFINE flow == s.flow        rev == s.rev        phase == s.phase
             work == s.work        endpoints == s.endpoints
             evidence == s.evidence        findings == s.findings
  <1>1. s = [flow |-> flow, rev |-> rev, phase |-> phase, work |-> work,
             endpoints |-> endpoints, evidence |-> evidence, findings |-> findings]
    BY DEF Records
  <1> HIDE DEF flow, rev, phase, work, endpoints, evidence, findings
  <1>2. new = [flow |-> flow, rev |-> r, phase |-> x, work |-> work,
               endpoints |-> endpoints, evidence |-> evidence, findings |-> findings]
    BY <1>1
  <1> QED
    BY <1>2 DEF flow, rev, phase, work, endpoints, evidence, findings

LEMMA EndpointsChange ==
    ASSUME NEW s \in Records, NEW x, NEW r, NEW new,
           new = [s EXCEPT !.endpoints = x, !.rev = r]
    PROVE  new = [flow |-> s.flow, rev |-> r, phase |-> s.phase, work |-> s.work,
                  endpoints |-> x, evidence |-> s.evidence, findings |-> s.findings]
  <1> DEFINE flow == s.flow        rev == s.rev        phase == s.phase
             work == s.work        endpoints == s.endpoints
             evidence == s.evidence        findings == s.findings
  <1>1. s = [flow |-> flow, rev |-> rev, phase |-> phase, work |-> work,
             endpoints |-> endpoints, evidence |-> evidence, findings |-> findings]
    BY DEF Records
  <1> HIDE DEF flow, rev, phase, work, endpoints, evidence, findings
  <1>2. new = [flow |-> flow, rev |-> r, phase |-> phase, work |-> work,
               endpoints |-> x, evidence |-> evidence, findings |-> findings]
    BY <1>1
  <1> QED
    BY <1>2 DEF flow, rev, phase, work, endpoints, evidence, findings

LEMMA EvidenceChange ==
    ASSUME NEW s \in Records, NEW x, NEW r, NEW new,
           new = [s EXCEPT !.evidence = x, !.rev = r]
    PROVE  new = [flow |-> s.flow, rev |-> r, phase |-> s.phase, work |-> s.work,
                  endpoints |-> s.endpoints, evidence |-> x, findings |-> s.findings]
  <1> DEFINE flow == s.flow        rev == s.rev        phase == s.phase
             work == s.work        endpoints == s.endpoints
             evidence == s.evidence        findings == s.findings
  <1>1. s = [flow |-> flow, rev |-> rev, phase |-> phase, work |-> work,
             endpoints |-> endpoints, evidence |-> evidence, findings |-> findings]
    BY DEF Records
  <1> HIDE DEF flow, rev, phase, work, endpoints, evidence, findings
  <1>2. new = [flow |-> flow, rev |-> r, phase |-> phase, work |-> work,
               endpoints |-> endpoints, evidence |-> x, findings |-> findings]
    BY <1>1
  <1> QED
    BY <1>2 DEF flow, rev, phase, work, endpoints, evidence, findings

LEMMA FindingsChange ==
    ASSUME NEW s \in Records, NEW x, NEW r, NEW new,
           new = [s EXCEPT !.findings = x, !.rev = r]
    PROVE  new = [flow |-> s.flow, rev |-> r, phase |-> s.phase, work |-> s.work,
                  endpoints |-> s.endpoints, evidence |-> s.evidence, findings |-> x]
  <1> DEFINE flow == s.flow        rev == s.rev        phase == s.phase
             work == s.work        endpoints == s.endpoints
             evidence == s.evidence        findings == s.findings
  <1>1. s = [flow |-> flow, rev |-> rev, phase |-> phase, work |-> work,
             endpoints |-> endpoints, evidence |-> evidence, findings |-> findings]
    BY DEF Records
  <1> HIDE DEF flow, rev, phase, work, endpoints, evidence, findings
  <1>2. new = [flow |-> flow, rev |-> r, phase |-> phase, work |-> work,
               endpoints |-> endpoints, evidence |-> evidence, findings |-> x]
    BY <1>1
  <1> QED
    BY <1>2 DEF flow, rev, phase, work, endpoints, evidence, findings

\* Replacing the row of one item by another that is as it should be, held by
\* nobody, by the same claimant or by one that holds nothing else.
LEMMA RowGood ==
    ASSUME NEW s, Good(s), NEW w \in Works, NEW row \in WorkStates,
           RowOK(w, row, RawEvidence(s, w, row.runs)),
           \/ row.by \in {Nobody, s.work[w].by}
           \/ \A other \in Works \ {w} : s.work[other].by # row.by
    PROVE  LET new == WithRow(s, w, row) IN
           /\ Good(new)
           /\ new.rev > s.rev
           /\ new.flow = s.flow /\ new.phase = s.phase
           /\ \A x \in Works : new.work[x] = IF x = w THEN row ELSE s.work[x]
  <1> DEFINE new == WithRow(s, w, row)
             rows == [s.work EXCEPT ![w] = row]
  <1>1. /\ s \in Records /\ s.rev \in Nat /\ s.work \in [Works -> WorkStates]
        /\ DOMAIN s.work = Works
    BY DEF Good, Records
  <1>2. /\ rows \in [Works -> WorkStates]
        /\ \A x \in Works : rows[x] = IF x = w THEN row ELSE s.work[x]
    BY <1>1
  <1>3. new = [flow |-> s.flow, rev |-> s.rev + 1, phase |-> s.phase,
               work |-> rows, endpoints |-> s.endpoints, evidence |-> s.evidence,
               findings |-> s.findings]
    <2>1. new = [s EXCEPT !.work = rows, !.rev = s.rev + 1]
      BY <1>1 DEF WithRow, Records
    <2>2. s = [flow |-> s.flow, rev |-> s.rev, phase |-> s.phase,
               work |-> s.work, endpoints |-> s.endpoints,
               evidence |-> s.evidence, findings |-> s.findings]
      BY <1>1, RecordFields
    <2> HIDE DEF rows, new
    <2> QED
      BY <2>1, <2>2
  <1> HIDE DEF rows, new
  <1>4. /\ new.rev = s.rev + 1 /\ new.flow = s.flow /\ new.phase = s.phase
        /\ new.evidence = s.evidence /\ new.findings = s.findings
        /\ new.work = rows /\ new \in Records
    BY <1>1, <1>2, <1>3 DEF Records
  <1>5. \A r : \A x \in Works : RawEvidence(new, x, r) = RawEvidence(s, x, r)
    BY <1>4 DEF RawEvidence
  <1>6. WorkOK(new)
    <2> SUFFICES ASSUME NEW x \in Works
                 PROVE  RowOK(x, new.work[x], RawEvidence(new, x, new.work[x].runs))
      BY DEF WorkOK
    <2>1. CASE x = w
      BY <2>1, <1>2, <1>4, <1>5
    <2>2. CASE x # w
      BY <2>2, <1>2, <1>4, <1>5 DEF Good, WorkOK
    <2> QED
      BY <2>1, <2>2
  <1>7. OneEach(new)
    BY <1>2, <1>4 DEF OneEach, Good, Claimed
  <1>8. FindingsOK(new)
    BY <1>4 DEF FindingsOK, FindingOK, FindingHasRaw, FindingHasScreenshot, Good
  <1>9. Good(new) /\ new.rev > s.rev
    BY <1>1, <1>4, <1>6, <1>7, <1>8 DEF Good
  <1> QED
    BY <1>2, <1>4, <1>9 DEF new

LEMMA BumpGood ==
    ASSUME NEW s, Good(s), NEW w \in Works, NEW work \in WorkStates,
           RowOK(w, work, RawEvidence(s, w, work.runs)),
           \/ work.by \in {Nobody, s.work[w].by}
           \/ \A other \in Works \ {w} : s.work[other].by # work.by
    PROVE  /\ Good(Bump(s, w, work))
           /\ Bump(s, w, work).rev > s.rev
           /\ Bump(s, w, work).flow = s.flow /\ Bump(s, w, work).phase = s.phase
           /\ \A x \in Works :
                 Bump(s, w, work).work[x] =
                    IF x = w THEN [work EXCEPT !.rev = @ + 1] ELSE s.work[x]
  <1> DEFINE row == [work EXCEPT !.rev = @ + 1]
  <1>1. /\ row \in WorkStates
        /\ row.status = work.status /\ row.by = work.by /\ row.runs = work.runs
        /\ row.finished = work.finished /\ row.observed = work.observed
    BY DEF WorkStates
  <1> HIDE DEF row
  <1>2. RowOK(w, row, RawEvidence(s, w, row.runs))
    BY <1>1 DEF RowOK
  <1>3. Bump(s, w, work) = WithRow(s, w, row)
    BY DEF Bump, WithRow, row
  <1>4. \/ row.by \in {Nobody, s.work[w].by}
        \/ \A other \in Works \ {w} : s.work[other].by # row.by
    BY <1>1
  <1>5. LET new == WithRow(s, w, row) IN
        /\ Good(new) /\ new.rev > s.rev
        /\ new.flow = s.flow /\ new.phase = s.phase
        /\ \A x \in Works : new.work[x] = IF x = w THEN row ELSE s.work[x]
    BY <1>1, <1>2, <1>4, RowGood
  <1> QED
    BY <1>3, <1>5 DEF row

LEMMA UnclaimOK ==
    ASSUME NEW w \in Works, NEW work \in WorkStates, NEW raw, RowOK(w, work, raw)
    PROVE  /\ Unclaim(w, work) \in WorkStates
           /\ RowOK(w, Unclaim(w, work), raw)
           /\ Unclaim(w, work).by = Nobody
           /\ Unclaim(w, work).runs = work.runs
           /\ Unclaim(w, work).finished = work.finished
           /\ ~work.finished => Unclaim(w, work).status \notin Terminal(w)
  <1> DEFINE new == Unclaim(w, work)
  <1>1. /\ new \in WorkStates
        /\ new.by = Nobody /\ new.runs = work.runs /\ new.finished = work.finished
        /\ new.observed = work.observed
        /\ new.status = IF /\ ~work.finished
                           /\ work.status \in Terminal(w) \cup {"focused"}
                        THEN "pending" ELSE work.status
    BY TerminalStatuses DEF Unclaim, WorkStates, Statuses
  <1>2. "pending" \notin Terminal(w) /\ "focused" \notin Terminal(w)
    BY TerminalStatuses
  <1> HIDE DEF new
  <1>3. RowOK(w, new, raw)
    BY <1>1, <1>2 DEF RowOK
  <1> QED
    BY <1>1, <1>2, <1>3 DEF new

LEMMA ExpireGood ==
    ASSUME NEW s, Good(s), NEW t \in Nat
    PROVE  /\ Good(ExpireClaims(s, t))
           /\ ExpireClaims(s, t).rev >= s.rev
           /\ ExpireClaims(s, t) # s => ExpireClaims(s, t).rev > s.rev
           /\ ExpireClaims(s, t).flow = s.flow
           /\ ExpireClaims(s, t).phase = s.phase
           /\ ExpireClaims(s, t).endpoints = s.endpoints
           /\ ExpireClaims(s, t).evidence = s.evidence
           /\ \A w \in Works :
                 ExpireClaims(s, t).work[w] =
                    IF w \in Expired(s, t)
                    THEN [Unclaim(w, s.work[w]) EXCEPT !.rev = @ + 1] ELSE s.work[w]
           /\ \A w \in Works : Claimed(ExpireClaims(s, t), w) =>
                 Live(ExpireClaims(s, t), w, t)
  <1> DEFINE new == ExpireClaims(s, t)
             dead == Expired(s, t)
             row(w) == IF w \in dead
                       THEN [Unclaim(w, s.work[w]) EXCEPT !.rev = @ + 1] ELSE s.work[w]
  <1>1. /\ s \in Records /\ s.rev \in Nat /\ s.work \in [Works -> WorkStates]
    BY DEF Good, Records
  <1>2. Cardinality(dead) \in Nat /\ (Cardinality(dead) = 0 <=> dead = {})
    <2>1. IsFiniteSet(dead)
      BY WorkflowAssumption, FS_Subset DEF Expired
    <2> QED
      BY <2>1, FS_CardinalityType, FS_EmptySet
  <1>3. \A w \in Works :
           /\ row(w) \in WorkStates
           /\ RowOK(w, row(w), RawEvidence(s, w, row(w).runs))
           /\ w \in dead => row(w).by = Nobody
    <2> SUFFICES ASSUME NEW w \in Works
                 PROVE  /\ row(w) \in WorkStates
                        /\ RowOK(w, row(w), RawEvidence(s, w, row(w).runs))
                        /\ w \in dead => row(w).by = Nobody
      OBVIOUS
    <2>1. /\ s.work[w] \in WorkStates
          /\ RowOK(w, s.work[w], RawEvidence(s, w, s.work[w].runs))
      BY <1>1 DEF Good, WorkOK
    <2> DEFINE u == Unclaim(w, s.work[w])
    <2>2. /\ u \in WorkStates /\ RowOK(w, u, RawEvidence(s, w, s.work[w].runs))
          /\ u.by = Nobody /\ u.runs = s.work[w].runs
      BY <2>1, UnclaimOK
    <2> HIDE DEF u
    <2>3. /\ [u EXCEPT !.rev = @ + 1] \in WorkStates
          /\ [u EXCEPT !.rev = @ + 1].by = Nobody
          /\ [u EXCEPT !.rev = @ + 1].runs = s.work[w].runs
          /\ RowOK(w, [u EXCEPT !.rev = @ + 1], RawEvidence(s, w, s.work[w].runs))
      BY <2>2 DEF WorkStates, RowOK
    <2> QED
      BY <2>1, <2>3 DEF u
  <1>4. new = [s EXCEPT !.work = [w \in Works |-> row(w)],
                        !.rev = s.rev + Cardinality(dead)]
    BY <1>1 DEF ExpireClaims, Records
  <1>5. [w \in Works |-> row(w)] \in [Works -> WorkStates]
    BY <1>3
  <1> HIDE DEF row
  <1>a. s = [flow |-> s.flow, rev |-> s.rev, phase |-> s.phase, work |-> s.work,
             endpoints |-> s.endpoints, evidence |-> s.evidence,
             findings |-> s.findings]
    BY <1>1 DEF Records
  <1>b. new = [flow |-> s.flow, rev |-> s.rev + Cardinality(dead),
               phase |-> s.phase, work |-> [w \in Works |-> row(w)],
               endpoints |-> s.endpoints, evidence |-> s.evidence,
               findings |-> s.findings]
    <2> HIDE DEF dead
    <2> QED
      BY <1>4, <1>a
  <1> HIDE DEF new, dead
  <1>6. /\ new.rev = s.rev + Cardinality(dead) /\ new.flow = s.flow
        /\ new.phase = s.phase /\ new.endpoints = s.endpoints
        /\ new.evidence = s.evidence /\ new.findings = s.findings
        /\ new.work = [w \in Works |-> row(w)] /\ new \in Records
    BY <1>1, <1>2, <1>5, <1>b DEF Records
  <1>7. \A w \in Works : new.work[w] = row(w)
    BY <1>6
  <1>8. \A r : \A x \in Works : RawEvidence(new, x, r) = RawEvidence(s, x, r)
    BY <1>6 DEF RawEvidence
  <1>9. WorkOK(new)
    BY <1>3, <1>7, <1>8 DEF WorkOK
  <1>10. OneEach(new)
    <2>1. \A w \in Works : row(w).by # Nobody => row(w).by = s.work[w].by
      BY <1>3 DEF row
    <2> QED
      BY <1>7, <2>1 DEF OneEach, Good, Claimed
  <1>11. FindingsOK(new)
    BY <1>6 DEF FindingsOK, FindingOK, FindingHasRaw, FindingHasScreenshot, Good
  <1>12. Good(new)
    BY <1>6, <1>9, <1>10, <1>11 DEF Good
  <1>13. new # s => new.rev > s.rev
    <2> SUFFICES ASSUME ~(new.rev > s.rev) PROVE new = s
      OBVIOUS
    <2>1. dead = {} /\ new.rev = s.rev
      BY <1>1, <1>2, <1>6
    <2>2. \A w \in Works : row(w) = s.work[w]
      BY <2>1 DEF row
    <2>3. new.work = s.work
      BY <1>1, <1>6, <2>2
    <2> QED
      BY <1>1, <1>6, <2>1, <2>3 DEF Records
  <1>14. \A w \in Works : Claimed(new, w) => Live(new, w, t)
    <2> SUFFICES ASSUME NEW w \in Works, Claimed(new, w) PROVE Live(new, w, t)
      OBVIOUS
    <2>1. w \notin dead
      BY <1>3, <1>7 DEF Claimed
    <2>2. new.work[w] = s.work[w] /\ s.work[w].lease \in Nat
      BY <1>1, <1>7, <2>1 DEF row, WorkStates
    <2> QED
      BY <2>1, <2>2 DEF Claimed, Live, Expired, dead
  <1> QED
    BY <1>1, <1>2, <1>6, <1>7, <1>12, <1>13, <1>14 DEF new, dead, row

-----------------------------------------------------------------------------
\* What the operations do to a good copy.
LEMMA ClaimGood ==
    ASSUME NEW s, Good(s), NEW w \in Works, NEW c \in Claimants, NEW t \in Nat,
           \A x \in Works : Claimed(s, x) => Live(s, x, t),
           CanClaim(s, w, c, t)
    PROVE  /\ Good(ClaimWork(s, w, c, t))
           /\ ClaimWork(s, w, c, t).rev > s.rev
           /\ ClaimWork(s, w, c, t).phase = s.phase
           /\ ClaimWork(s, w, c, t).work[w].by = c
           /\ ClaimWork(s, w, c, t).work[w].runs = s.work[w].runs
           /\ ClaimWork(s, w, c, t).work[w].finished = s.work[w].finished
           /\ ~s.work[w].finished
           /\ ClaimWork(s, w, c, t).work[w].status =
                IF Holds(s, w, c, t) THEN s.work[w].status ELSE "focused"
           /\ \A x \in Works \ {w} :
                 /\ ClaimWork(s, w, c, t).work[x] = s.work[x]
                 /\ s.work[x].by # c
  <1> DEFINE status == IF Holds(s, w, c, t) THEN s.work[w].status ELSE "focused"
             lease == t + Lease
             work == [s.work[w] EXCEPT !.by = c, !.lease = lease, !.status = status]
  <1>1. s.work[w] \in WorkStates /\ c # Nobody
    BY EngagementAssumption DEF Good, Records
  <1>2. RowOK(w, s.work[w], RawEvidence(s, w, s.work[w].runs))
    BY DEF Good, WorkOK
  <1>3. /\ work \in WorkStates
        /\ work.by = c /\ work.runs = s.work[w].runs
        /\ work.finished = s.work[w].finished /\ work.observed = s.work[w].observed
        /\ work.status = status
    <2>1. status \in Statuses /\ lease \in Nat
      BY <1>1, EngagementAssumption DEF WorkStates, Statuses
    <2> HIDE DEF status, lease
    <2> QED
      BY <1>1, <2>1 DEF WorkStates
  <1>4. ~s.work[w].finished
    BY <1>1, <1>2 DEF CanClaim, Holds, Live, Claimed, RowOK, Finished
  <1> HIDE DEF work
  <1>5. RowOK(w, work, RawEvidence(s, w, work.runs))
    BY <1>1, <1>2, <1>3, <1>4, TerminalStatuses DEF RowOK
  <1> HIDE DEF status
  <1>6. \A x \in Works \ {w} : s.work[x].by # c
    BY <1>1 DEF CanClaim, Holds, Claimed
  <1>7. ClaimWork(s, w, c, t) = Bump(s, w, work)
    BY DEF ClaimWork, work, status
  <1>8. /\ [work EXCEPT !.rev = @ + 1].by = c
        /\ [work EXCEPT !.rev = @ + 1].runs = s.work[w].runs
        /\ [work EXCEPT !.rev = @ + 1].finished = s.work[w].finished
        /\ [work EXCEPT !.rev = @ + 1].status = work.status
    BY <1>3 DEF WorkStates
  <1>9. LET new == Bump(s, w, work) IN
        /\ Good(new) /\ new.rev > s.rev /\ new.phase = s.phase
        /\ \A x \in Works :
              new.work[x] = IF x = w THEN [work EXCEPT !.rev = @ + 1] ELSE s.work[x]
    BY <1>3, <1>5, <1>6, BumpGood
  <1> QED
    BY <1>3, <1>4, <1>6, <1>7, <1>8, <1>9 DEF status

LEMMA RecordGood ==
    ASSUME NEW s, Good(s), NEW w \in Works, NEW c \in Claimants, NEW t \in Nat,
           Holds(s, w, c, t), NEW status \in Terminal(w)
    PROVE  /\ Good(RecordWork(s, w, status))
           /\ RecordWork(s, w, status).rev > s.rev
           /\ RecordWork(s, w, status).phase = s.phase
           /\ RecordWork(s, w, status).work[w].by = c
           /\ RecordWork(s, w, status).work[w].runs = s.work[w].runs
           /\ ~RecordWork(s, w, status).work[w].finished
           /\ ~s.work[w].finished
           /\ RecordWork(s, w, status).work[w].status = status
           /\ \A x \in Works \ {w} :
                 /\ RecordWork(s, w, status).work[x] = s.work[x]
                 /\ s.work[x].by # c
  <1> DEFINE note == [run |-> s.work[w].runs + 1, status |-> status]
             work == [s.work[w] EXCEPT !.status = status,
                                       !.observed = s.work[w].observed \cup {note}]
  <1>1. /\ s.work[w] \in WorkStates /\ c # Nobody /\ s.work[w].by = c
        /\ status \in Statuses
    BY TerminalStatuses, EngagementAssumption DEF Good, Records, Holds
  <1>2. RowOK(w, s.work[w], RawEvidence(s, w, s.work[w].runs))
    BY DEF Good, WorkOK
  <1>3. ~s.work[w].finished
    BY <1>1, <1>2 DEF RowOK
  <1>4. note \in Observation
    BY <1>1 DEF WorkStates, Observation
  <1> HIDE DEF note
  <1>5. /\ work \in WorkStates
        /\ work.by = c /\ work.runs = s.work[w].runs /\ work.finished = FALSE
        /\ work.observed = s.work[w].observed \cup {note} /\ work.status = status
    BY <1>1, <1>3, <1>4 DEF WorkStates
  <1>6. RecordWork(s, w, status) = Bump(s, w, work)
    BY <1>1 DEF RecordWork, work, note, WorkStates
  <1> HIDE DEF work
  <1>7. RowOK(w, work, RawEvidence(s, w, work.runs))
    <2>1. [run |-> work.runs + 1, status |-> work.status] \in work.observed
      BY <1>5 DEF note
    <2>2. \A r \in 1..work.runs : \E o \in work.observed : o.run = r
      BY <1>2, <1>5 DEF RowOK
    <2> QED
      BY <1>1, <1>5, <2>1, <2>2, TerminalStatuses DEF RowOK
  <1>8. \A x \in Works \ {w} : s.work[x].by # c
    BY <1>1 DEF Good, OneEach, Claimed
  <1>9. /\ [work EXCEPT !.rev = @ + 1].by = c
        /\ [work EXCEPT !.rev = @ + 1].runs = s.work[w].runs
        /\ [work EXCEPT !.rev = @ + 1].finished = FALSE
        /\ [work EXCEPT !.rev = @ + 1].status = status
    BY <1>5 DEF WorkStates
  <1>10. LET new == Bump(s, w, work) IN
        /\ Good(new) /\ new.rev > s.rev /\ new.phase = s.phase
        /\ \A x \in Works :
              new.work[x] = IF x = w THEN [work EXCEPT !.rev = @ + 1] ELSE s.work[x]
    BY <1>1, <1>5, <1>7, BumpGood
  <1> QED
    BY <1>3, <1>6, <1>8, <1>9, <1>10

LEMMA FinishGood ==
    ASSUME NEW s, Good(s), NEW w \in Works, NEW c \in Claimants, NEW t \in Nat,
           Holds(s, w, c, t), s.work[w].status \in Terminal(w),
           RequireCompletionEvidence(s, w)
    PROVE  /\ Good(FinishWork(s, w))
           /\ FinishWork(s, w).rev > s.rev
           /\ FinishWork(s, w).flow = s.flow
           /\ FinishWork(s, w).phase = s.phase
           /\ FinishWork(s, w).work[w].by = Nobody
           /\ FinishWork(s, w).work[w].runs = s.work[w].runs + 1
           /\ ~s.work[w].finished
           /\ ~FinishWork(s, w).work[w].finished =>
                 FinishWork(s, w).work[w].status \notin Terminal(w)
           /\ \A x \in Works \ {w} : FinishWork(s, w).work[x] = s.work[x]
  <1> DEFINE again == ShouldRepeat(w, s.work[w].runs + 1)
             status == IF again THEN "pending" ELSE s.work[w].status
             finished == ~again
             work == [s.work[w] EXCEPT
                         !.runs = @ + 1, !.by = Nobody, !.lease = 0,
                         !.status = status, !.finished = finished]
  <1>1. /\ s.work[w] \in WorkStates /\ s.work[w].by # Nobody
    BY EngagementAssumption DEF Good, Records, Holds
  <1>2. RowOK(w, s.work[w], RawEvidence(s, w, s.work[w].runs))
    BY DEF Good, WorkOK
  <1>3. /\ ~s.work[w].finished
        /\ [run |-> s.work[w].runs + 1, status |-> s.work[w].status]
              \in s.work[w].observed
    BY <1>1, <1>2 DEF RowOK
  <1>a. again \in BOOLEAN
    BY DEF ShouldRepeat
  <1> HIDE DEF again
  <1>4. /\ work \in WorkStates
        /\ work.by = Nobody /\ work.runs = s.work[w].runs + 1
        /\ work.finished = ~again /\ work.observed = s.work[w].observed
        /\ work.status = IF again THEN "pending" ELSE s.work[w].status
    <2>1. status \in Statuses /\ finished \in BOOLEAN
      BY <1>1, <1>a DEF WorkStates, Statuses
    <2> HIDE DEF status, finished
    <2> DEFINE old == s.work[w]
    <2>0. old \in WorkStates
      BY <1>1
    <2>2. work = [status |-> status, by |-> Nobody, lease |-> 0, rev |-> old.rev,
                  runs |-> old.runs + 1, finished |-> finished,
                  observed |-> old.observed]
      <3>1. old = [status |-> old.status, by |-> old.by, lease |-> old.lease,
                   rev |-> old.rev, runs |-> old.runs, finished |-> old.finished,
                   observed |-> old.observed]
        <4> HIDE DEF old
        <4> QED
          BY <2>0 DEF WorkStates
      <3>2. work = [old EXCEPT !.runs = old.runs + 1, !.by = Nobody, !.lease = 0,
                               !.status = status, !.finished = finished]
        OBVIOUS
      <3> HIDE DEF old, work
      <3> QED
        BY <3>1, <3>2
    <2>3. /\ old.rev \in Nat /\ old.runs + 1 \in Nat
          /\ old.observed \in SUBSET Observation
      BY <1>1 DEF WorkStates
    <2>4. work \in WorkStates
      <3> HIDE DEF work, old
      <3> QED
        BY <2>1, <2>2, <2>3 DEF WorkStates
    <2> QED
      BY <2>2, <2>4 DEF status, finished
  <1>5. FinishWork(s, w) = Bump(s, w, work)
    BY DEF FinishWork, work, again, status, finished
  <1> HIDE DEF work
  <1>6. \A r \in 1..work.runs : \E o \in work.observed : o.run = r
    <2> SUFFICES ASSUME NEW r \in 1..work.runs
                 PROVE  \E o \in work.observed : o.run = r
      OBVIOUS
    <2>0. s.work[w].runs \in Nat
      BY <1>1 DEF WorkStates
    <2>1. CASE r = s.work[w].runs + 1
      BY <1>3, <1>4, <2>1
    <2>2. CASE r \in 1..s.work[w].runs
      BY <1>2, <1>4, <2>2 DEF RowOK
    <2> QED
      BY <1>4, <2>0, <2>1, <2>2
  <1>7. s.work[w].status = "vulnerable" => RawEvidence(s, w, s.work[w].runs + 1) # {}
    <2> SUFFICES ASSUME s.work[w].status = "vulnerable"
                 PROVE  RawEvidence(s, w, s.work[w].runs + 1) # {}
      OBVIOUS
    <2>1. w \notin Steps
      BY DEF Terminal
    <2> QED
      BY <2>1 DEF RequireCompletionEvidence
  <1>8. RowOK(w, work, RawEvidence(s, w, work.runs))
    BY <1>a, <1>3, <1>4, <1>6, <1>7, TerminalStatuses DEF RowOK
  <1>9. /\ [work EXCEPT !.rev = @ + 1].by = Nobody
        /\ [work EXCEPT !.rev = @ + 1].runs = s.work[w].runs + 1
        /\ [work EXCEPT !.rev = @ + 1].finished = work.finished
        /\ [work EXCEPT !.rev = @ + 1].status = work.status
    BY <1>4 DEF WorkStates
  <1>10. ~work.finished => work.status \notin Terminal(w)
    BY <1>a, <1>4, TerminalStatuses
  <1>11. LET new == Bump(s, w, work) IN
        /\ Good(new) /\ new.rev > s.rev /\ new.flow = s.flow /\ new.phase = s.phase
        /\ \A x \in Works :
              new.work[x] = IF x = w THEN [work EXCEPT !.rev = @ + 1] ELSE s.work[x]
    BY <1>4, <1>8, BumpGood
  <1> QED
    BY <1>3, <1>5, <1>9, <1>10, <1>11

LEMMA ReleaseGood ==
    ASSUME NEW s, Good(s), NEW w \in Works
    PROVE  LET new == Bump(s, w, Unclaim(w, s.work[w])) IN
           /\ Good(new) /\ new.rev > s.rev /\ new.phase = s.phase
           /\ new.work[w].by = Nobody
           /\ new.work[w].runs = s.work[w].runs
           /\ new.work[w].finished = s.work[w].finished
           /\ ~s.work[w].finished => new.work[w].status \notin Terminal(w)
           /\ \A x \in Works \ {w} : new.work[x] = s.work[x]
  <1> DEFINE u == Unclaim(w, s.work[w])
  <1>1. /\ s.work[w] \in WorkStates
        /\ RowOK(w, s.work[w], RawEvidence(s, w, s.work[w].runs))
    BY DEF Good, Records, WorkOK
  <1>2. /\ u \in WorkStates /\ RowOK(w, u, RawEvidence(s, w, s.work[w].runs))
        /\ u.by = Nobody /\ u.runs = s.work[w].runs
        /\ u.finished = s.work[w].finished
        /\ ~s.work[w].finished => u.status \notin Terminal(w)
    BY <1>1, UnclaimOK
  <1> HIDE DEF u
  <1>3. /\ [u EXCEPT !.rev = @ + 1].by = Nobody
        /\ [u EXCEPT !.rev = @ + 1].runs = s.work[w].runs
        /\ [u EXCEPT !.rev = @ + 1].finished = s.work[w].finished
        /\ [u EXCEPT !.rev = @ + 1].status = u.status
    BY <1>2 DEF WorkStates
  <1>4. LET new == Bump(s, w, u) IN
        /\ Good(new) /\ new.rev > s.rev /\ new.phase = s.phase
        /\ \A x \in Works :
              new.work[x] = IF x = w THEN [u EXCEPT !.rev = @ + 1] ELSE s.work[x]
    BY <1>2, BumpGood
  <1> QED
    BY <1>2, <1>3, <1>4 DEF u

LEMMA ExtendGood ==
    ASSUME NEW s, Good(s), NEW w \in Works, NEW t \in Nat
    PROVE  /\ Good(Extended(s, w, t)) /\ Extended(s, w, t).rev > s.rev
           /\ Extended(s, w, t).phase = s.phase
           /\ Extended(s, w, t).work[w].by = s.work[w].by
           /\ Extended(s, w, t).work[w].rev = s.work[w].rev
           /\ Extended(s, w, t).work[w].runs = s.work[w].runs
           /\ Extended(s, w, t).work[w].finished = s.work[w].finished
           /\ Extended(s, w, t).work[w].status = s.work[w].status
           /\ \A x \in Works \ {w} : Extended(s, w, t).work[x] = s.work[x]
  <1> DEFINE lease == t + Lease
             row == [s.work[w] EXCEPT !.lease = lease]
  <1>1. /\ s.work[w] \in WorkStates /\ s.work \in [Works -> WorkStates]
        /\ RowOK(w, s.work[w], RawEvidence(s, w, s.work[w].runs))
    BY DEF Good, Records, WorkOK
  <1>2. lease \in Nat
    BY EngagementAssumption
  <1> HIDE DEF lease
  <1>3. /\ row \in WorkStates
        /\ row.status = s.work[w].status /\ row.by = s.work[w].by
        /\ row.runs = s.work[w].runs /\ row.rev = s.work[w].rev
        /\ row.finished = s.work[w].finished /\ row.observed = s.work[w].observed
    BY <1>1, <1>2 DEF WorkStates
  <1> HIDE DEF row
  <1>4. RowOK(w, row, RawEvidence(s, w, row.runs))
    BY <1>1, <1>3 DEF RowOK
  <1>5. Extended(s, w, t) = WithRow(s, w, row)
    BY <1>1 DEF Extended, WithRow, row, lease, Good, Records
  <1>6. row.by \in {Nobody, s.work[w].by}
    BY <1>3
  <1>7. LET new == WithRow(s, w, row) IN
        /\ Good(new) /\ new.rev > s.rev
        /\ new.flow = s.flow /\ new.phase = s.phase
        /\ \A x \in Works : new.work[x] = IF x = w THEN row ELSE s.work[x]
    BY <1>3, <1>4, <1>6, RowGood
  <1> QED
    BY <1>3, <1>5, <1>7

\* Changes that leave the rows of the work alone and lose no evidence.
LEMMA SideGood ==
    ASSUME NEW s, Good(s), NEW new \in Records,
           new.work = s.work, new.phase \in Phases(new.flow),
           \A v \in EvidenceIds :
               s.evidence[v] # Nothing => new.evidence[v] = s.evidence[v],
           FindingsOK(new)
    PROVE  Good(new)
  <1>1. \A w, r : RawEvidence(s, w, r) \subseteq RawEvidence(new, w, r)
    BY DEF RawEvidence
  <1>2. WorkOK(new)
    BY <1>1 DEF Good, WorkOK, RowOK
  <1> QED
    BY <1>2 DEF Good, OneEach, Claimed

LEMMA EditGood ==
    ASSUME NEW s, Good(s)
    PROVE  LET new == Edited(s) IN
           Good(new) /\ new.rev > s.rev /\ new.work = s.work /\ new.phase = s.phase
  <1> DEFINE new == Edited(s)
  <1>0. s \in Records
    BY DEF Good
  <1>a. s = [flow |-> s.flow, rev |-> s.rev, phase |-> s.phase,
             work |-> s.work, endpoints |-> s.endpoints,
             evidence |-> s.evidence, findings |-> s.findings]
    BY <1>0, RecordFields
  <1>1. /\ new = [flow |-> s.flow, rev |-> s.rev + 1, phase |-> s.phase,
                  work |-> s.work, endpoints |-> s.endpoints,
                  evidence |-> s.evidence, findings |-> s.findings]
        /\ s \in Records
    BY <1>0, <1>a DEF Edited
  <1> HIDE DEF new
  <1>2. new \in Records
    BY <1>1, RecordFields DEF Records
  <1>3. FindingsOK(new)
    BY <1>1 DEF FindingsOK, FindingOK, FindingHasRaw, FindingHasScreenshot, Good
  <1>4. new.phase \in Phases(new.flow)
    BY <1>1 DEF Good
  <1>5. Good(new)
    BY <1>1, <1>2, <1>3, <1>4, SideGood
  <1> QED
    BY <1>1, <1>5, RecordFields DEF new

LEMMA EndpointGood ==
    ASSUME NEW s, Good(s), NEW e \in Endpoints
    PROVE  LET new == WithEndpoint(s, e) IN
           Good(new) /\ new.rev > s.rev /\ new.work = s.work /\ new.phase = s.phase
  <1> DEFINE new == WithEndpoint(s, e)
             endpoints == s.endpoints \cup {e}
  <1>0. s \in Records
    BY DEF Good
  <1>a. s.rev + 1 \in Nat
    BY <1>0, RecordFields
  <1>c. new = [s EXCEPT !.endpoints = endpoints, !.rev = s.rev + 1]
    BY DEF WithEndpoint
  <1>b. endpoints \in SUBSET Endpoints
    BY <1>0, RecordFields
  <1> HIDE DEF new, endpoints
  <1>1. new = [flow |-> s.flow, rev |-> s.rev + 1, phase |-> s.phase,
               work |-> s.work, endpoints |-> endpoints,
               evidence |-> s.evidence, findings |-> s.findings]
    <2> DEFINE rev == s.rev + 1
    <2>1. new = [s EXCEPT !.endpoints = endpoints, !.rev = rev]
      BY <1>c
    <2> HIDE DEF rev
    <2>2. new = [flow |-> s.flow, rev |-> rev, phase |-> s.phase,
                 work |-> s.work, endpoints |-> endpoints,
                 evidence |-> s.evidence, findings |-> s.findings]
      BY <1>0, <2>1, EndpointsChange
    <2> QED
      BY <2>2 DEF rev
  <1>2. new \in Records
    BY <1>0, <1>b, <1>1, RecordFields DEF Records
  <1>3. FindingsOK(new)
    BY <1>1 DEF FindingsOK, FindingOK, FindingHasRaw, FindingHasScreenshot, Good
  <1>4. new.phase \in Phases(new.flow)
    BY <1>1 DEF Good
  <1>5. Good(new)
    BY <1>1, <1>2, <1>3, <1>4, SideGood
  <1> QED
    BY <1>0, <1>1, <1>5, RecordFields DEF new

LEMMA AdvanceGood ==
    ASSUME NEW s, Good(s), HasNext(s)
    PROVE  LET new == Advanced(s) IN
           Good(new) /\ new.rev > s.rev /\ new.work = s.work
  <1> DEFINE new == Advanced(s)
  <1>0. s \in Records
    BY DEF Good
  <1>a. new = [s EXCEPT !.phase = s.phase + 1, !.rev = s.rev + 1]
    BY DEF Advanced
  <1> HIDE DEF new
  <1>1. new = [flow |-> s.flow, rev |-> s.rev + 1, phase |-> s.phase + 1,
               work |-> s.work, endpoints |-> s.endpoints,
               evidence |-> s.evidence, findings |-> s.findings]
    BY <1>0, <1>a, PhaseChange
  <1>2. new \in Records
    BY <1>0, <1>1, RecordFields DEF Records
  <1>3. FindingsOK(new)
    BY <1>1 DEF FindingsOK, FindingOK, FindingHasRaw, FindingHasScreenshot, Good
  <1>4. new.phase \in Phases(new.flow)
    <2>1. Len(s.flow.kinds) \in Nat
      BY <1>0, RecordFields, WorkflowAssumption
    <2> QED
      BY <1>0, <1>1, <2>1 DEF Good, HasNext, Phases
  <1>5. Good(new)
    BY <1>1, <1>2, <1>3, <1>4, SideGood
  <1> QED
    BY <1>0, <1>1, <1>5, RecordFields DEF new

LEMMA EvidenceGood ==
    ASSUME NEW s, Good(s), NEW v \in EvidenceIds, s.evidence[v] = Nothing,
           NEW item \in EvidenceItem
    PROVE  LET new == WithEvidence(s, v, item) IN
           Good(new) /\ new.rev > s.rev /\ new.work = s.work /\ new.phase = s.phase
  <1> DEFINE new == WithEvidence(s, v, item)
             evidence == [s.evidence EXCEPT ![v] = item]
  <1>1. s \in Records
    BY DEF Good
  <1>2. /\ evidence \in [EvidenceIds -> EvidenceItem \cup {Nothing}]
        /\ \A x \in EvidenceIds \ {v} : evidence[x] = s.evidence[x]
    BY <1>1, RecordFields
  <1> HIDE DEF evidence
  <1>3. new = [flow |-> s.flow, rev |-> s.rev + 1, phase |-> s.phase,
               work |-> s.work, endpoints |-> s.endpoints,
               evidence |-> evidence, findings |-> s.findings]
    BY <1>1, EvidenceChange DEF WithEvidence, evidence
  <1> HIDE DEF new
  <1>4. new \in Records
    BY <1>1, <1>2, <1>3, RecordFields DEF Records
  <1>5. FindingsOK(new)
    <2> SUFFICES ASSUME NEW f \in FindingIds, s.findings[f] # Nothing
                 PROVE  FindingOK(new, s.findings[f])
      BY <1>3 DEF FindingsOK
    <2>1. s.findings[f] \in FindingItem /\ FindingOK(s, s.findings[f])
      BY <1>1, RecordFields DEF Good, FindingsOK
    <2>2. \A x \in s.findings[f].evidence :
             x \in EvidenceIds /\ new.evidence[x] = s.evidence[x]
      BY <1>2, <1>3, <2>1 DEF FindingItem, FindingOK
    <2> QED
      BY <2>1, <2>2 DEF FindingOK, FindingHasRaw, FindingHasScreenshot
  <1>6. new.phase \in Phases(new.flow)
    BY <1>3 DEF Good
  <1>7. Good(new)
    BY <1>2, <1>3, <1>4, <1>5, <1>6, SideGood
  <1> QED
    BY <1>1, <1>3, <1>7, RecordFields DEF new

LEMMA FindingGood ==
    ASSUME NEW s, Good(s), NEW f \in FindingIds, NEW item \in FindingItem,
           FindingOK(s, item)
    PROVE  LET new == WithFinding(s, f, item) IN
           Good(new) /\ new.rev > s.rev /\ new.work = s.work /\ new.phase = s.phase
  <1> DEFINE new == WithFinding(s, f, item)
             findings == [s.findings EXCEPT ![f] = item]
  <1>1. s \in Records
    BY DEF Good
  <1>2. /\ findings \in [FindingIds -> FindingItem \cup {Nothing}]
        /\ \A x \in FindingIds : findings[x] = IF x = f THEN item ELSE s.findings[x]
    BY <1>1, RecordFields
  <1> HIDE DEF findings
  <1>a. new = [s EXCEPT !.findings = findings, !.rev = s.rev + 1]
    BY DEF WithFinding, findings
  <1> HIDE DEF new
  <1>3. new = [flow |-> s.flow, rev |-> s.rev + 1, phase |-> s.phase,
               work |-> s.work, endpoints |-> s.endpoints,
               evidence |-> s.evidence, findings |-> findings]
    BY <1>1, <1>a, FindingsChange
  <1>4. new \in Records
    BY <1>1, <1>2, <1>3, RecordFields DEF Records
  <1>5. \A any : FindingOK(s, any) => FindingOK(new, any)
    BY <1>3 DEF FindingOK, FindingHasRaw, FindingHasScreenshot
  <1>6. FindingsOK(new)
    BY <1>2, <1>3, <1>5 DEF FindingsOK, Good
  <1>7. new.phase \in Phases(new.flow)
    BY <1>3 DEF Good
  <1>8. Good(new)
    BY <1>3, <1>4, <1>6, <1>7, SideGood
  <1> QED
    BY <1>1, <1>3, <1>8, RecordFields DEF new

-----------------------------------------------------------------------------
\* The inductive invariant.
CallsOK == calls \in [Callers -> [copy : Records, at : Nat] \cup {Nothing}]
ToldOK == told \in [Claimants -> [work : Works, rev : Nat] \cup {Nothing}]
CopyCurrent(k) ==
    /\ Good(Copy(k))
    /\ Copy(k).rev <= record.rev
    /\ Copy(k).rev = record.rev => Copy(k) = record
CopiesCurrent == \A k \in Callers : Busy(k) => CopyCurrent(k)
IInv ==
    /\ CallsOK /\ ToldOK /\ clock \in Nat
    /\ Good(record)
    /\ CopiesCurrent
    /\ Informed(told, record)

\* What a request in flight can rely on; s is its copy with the claims expired.
LEMMA InFlight ==
    ASSUME IInv, NEW k \in Callers, Busy(k)
    PROVE  LET s == ExpireClaims(Copy(k), At(k)) IN
           /\ At(k) \in Nat
           /\ Good(Copy(k)) /\ Copy(k).rev \in Nat /\ record.rev \in Nat
           /\ Good(s) /\ s.rev \in Nat /\ s.rev >= Copy(k).rev
           /\ s # Copy(k) => s.rev > Copy(k).rev
           /\ \A w \in Works : Claimed(s, w) => Live(s, w, At(k))
           /\ Saved(k) => /\ Copy(k) = record
                          /\ Informed(told, Copy(k)) /\ Informed(told, s)
  <1> DEFINE s == ExpireClaims(Copy(k), At(k))
  <1>1. At(k) \in Nat /\ Good(Copy(k)) /\ Good(record)
    BY DEF IInv, CallsOK, CopiesCurrent, CopyCurrent, Busy, At
  <1>2. Copy(k).rev \in Nat /\ record.rev \in Nat
    BY <1>1, RecordFields DEF Good
  <1>3. /\ Good(s) /\ s.rev >= Copy(k).rev /\ (s # Copy(k) => s.rev > Copy(k).rev)
        /\ \A w \in Works : s.work[w] =
              IF w \in Expired(Copy(k), At(k))
              THEN [Unclaim(w, Copy(k).work[w]) EXCEPT !.rev = @ + 1]
              ELSE Copy(k).work[w]
        /\ \A w \in Works : Claimed(s, w) => Live(s, w, At(k))
    BY <1>1, ExpireGood
  <1> HIDE DEF s
  <1>4. s.rev \in Nat
    BY <1>3, RecordFields DEF Good
  <1>5. ASSUME Saved(k)
        PROVE  Copy(k) = record /\ Informed(told, Copy(k)) /\ Informed(told, s)
    <2>1. Copy(k) = record
      BY <1>5 DEF IInv, CopiesCurrent, CopyCurrent, Saved
    <2>2. Informed(told, Copy(k))
      BY <2>1 DEF IInv
    <2>3. ASSUME NEW w \in Works, Claimed(s, w)
          PROVE  s.work[w] = Copy(k).work[w]
      <3>1. CASE w \in Expired(Copy(k), At(k))
        <4>1. Copy(k).work[w] \in WorkStates
          BY <1>1, RecordFields DEF Good
        <4>2. /\ Unclaim(w, Copy(k).work[w]) \in WorkStates
              /\ Unclaim(w, Copy(k).work[w]).by = Nobody
          BY <1>1, <4>1, UnclaimOK DEF Good, WorkOK
        <4> DEFINE u == Unclaim(w, Copy(k).work[w])
        <4> HIDE DEF u
        <4>3. [u EXCEPT !.rev = @ + 1].by = Nobody
          BY <4>2 DEF WorkStates, u
        <4> QED
          BY <1>3, <2>3, <3>1, <4>3 DEF Claimed, u
      <3>2. CASE w \notin Expired(Copy(k), At(k))
        BY <1>3, <3>2
      <3> QED
        BY <3>1, <3>2
    <2>4. Informed(told, s)
      BY <2>2, <2>3 DEF Informed, Claimed
    <2> QED
      BY <2>1, <2>2, <2>4
  <1> QED
    BY <1>1, <1>2, <1>3, <1>4, <1>5 DEF s

\* A write keeps the invariant: if the record is still the copy, the new state
\* is what a good operation made of it, and every other copy is now stale.
LEMMA SaveStep ==
    ASSUME IInv, NEW k \in Callers, Busy(k), NEW s, Good(s), s.rev > Copy(k).rev,
           Save(k, s), ToldOK',
           Saved(k) => Informed(told', s),
           ~Saved(k) => told' = told
    PROVE  IInv'
  <1>1. /\ record' = IF Saved(k) THEN s ELSE record
        /\ calls' = [calls EXCEPT ![k] = Nothing] /\ clock' = clock
    BY DEF Save, Update, EndCall, Saved
  <1>2. CallsOK' /\ clock' \in Nat
    BY <1>1 DEF IInv, CallsOK
  <1>3. Good(record')
    BY <1>1 DEF IInv
  <1>4. Informed(told', record')
    BY <1>1 DEF IInv
  <1>5. record.rev \in Nat /\ s.rev \in Nat /\ Copy(k).rev \in Nat
    BY InFlight, RecordFields DEF Good
  <1>6. ASSUME NEW j \in Callers, Busy(j)' PROVE CopyCurrent(j)'
    <2>1. j # k /\ calls'[j] = calls[j] /\ Busy(j)
      BY <1>1, <1>6 DEF IInv, CallsOK, Busy
    <2>2. Copy(j)' = Copy(j)
      BY <2>1 DEF Copy
    <2>3. CopyCurrent(j)
      BY <2>1 DEF IInv, CopiesCurrent
    <2>4. Copy(j).rev \in Nat
      BY <2>3, RecordFields DEF CopyCurrent, Good
    <2>5. CASE Saved(k)
      BY <1>1, <1>5, <2>2, <2>3, <2>4, <2>5 DEF CopyCurrent, Saved
    <2>6. CASE ~Saved(k)
      BY <1>1, <2>2, <2>3, <2>6 DEF CopyCurrent
    <2> QED
      BY <2>5, <2>6
  <1> QED
    BY <1>2, <1>3, <1>4, <1>6 DEF IInv, CopiesCurrent

\* A request that ends without writing.
LEMMA DropStep ==
    ASSUME IInv, NEW k \in Callers, EndCall(k), ToldOK', Informed(told', record),
           UNCHANGED <<record, clock>>
    PROVE  IInv'
  <1>1. CallsOK' /\ clock' \in Nat /\ Good(record') /\ Informed(told', record')
    BY DEF IInv, CallsOK, EndCall
  <1>2. ASSUME NEW j \in Callers, Busy(j)' PROVE CopyCurrent(j)'
    <2>1. calls'[j] = calls[j] /\ Busy(j)
      BY <1>2 DEF IInv, CallsOK, Busy, EndCall
    <2> QED
      BY <2>1 DEF IInv, CopiesCurrent, CopyCurrent, Copy
  <1> QED
    BY <1>1, <1>2 DEF IInv, CopiesCurrent

\* What claimants know after a request that answered c with item w ...
LEMMA TellStep ==
    ASSUME NEW k \in Callers, NEW c \in Claimants, NEW w \in Works,
           NEW base, NEW s, Good(s), ToldOK, Saved(k) => Informed(told, base),
           Tell(k, c, w, s), s.work[w].by = c,
           \A x \in Works \ {w} : s.work[x] = base.work[x] /\ s.work[x].by # c
    PROVE  /\ ToldOK'
           /\ Saved(k) => Informed(told', s)
           /\ ~Saved(k) => told' = told
  <1>1. s.work[w].rev \in Nat
    BY RecordFields DEF Good, WorkStates
  <1>2. ToldOK'
    BY <1>1 DEF ToldOK, Tell
  <1>3. ASSUME Saved(k), NEW x \in Works, Claimed(s, x)
        PROVE  told'[s.work[x].by] = [work |-> x, rev |-> s.work[x].rev]
    <2>1. told' = [told EXCEPT ![c] = [work |-> w, rev |-> s.work[w].rev]]
      BY <1>3 DEF Tell
    <2>2. DOMAIN told = Claimants
      BY DEF ToldOK
    <2>3. CASE x = w
      BY <2>1, <2>2, <2>3
    <2>4. CASE x # w
      BY <1>3, <2>1, <2>2, <2>4 DEF Informed, Claimed
    <2> QED
      BY <2>3, <2>4
  <1> QED
    BY <1>2, <1>3 DEF Informed, Tell

\* ... and after one that changed no revision of an item that is still held.
LEMMA KeepStep ==
    ASSUME NEW base, NEW s, Informed(told, base), told' = told,
           \A x \in Works : Claimed(s, x) =>
               s.work[x].by = base.work[x].by /\ s.work[x].rev = base.work[x].rev
    PROVE  Informed(told', s)
  BY DEF Informed, Claimed

-----------------------------------------------------------------------------
\* One lemma for each operation.
LEMMA LookStep ==
    ASSUME IInv, NEW k \in Callers, Busy(k), NEW c \in Claimants,
           Look(k, ExpireClaims(Copy(k), At(k)), c)
    PROVE  IInv'
  <1> DEFINE s == ExpireClaims(Copy(k), At(k))
  <1>1. /\ Good(s) /\ (s # Copy(k) => s.rev > Copy(k).rev)
        /\ Saved(k) => Copy(k) = record /\ Informed(told, s)
    BY InFlight
  <1>0. Look(k, s, c)
    OBVIOUS
  <1> HIDE DEF s
  <1>2. /\ ToldOK'
        /\ Saved(k) => Informed(told', s)
        /\ ~Saved(k) => told' = told
    <2>1. CASE UNCHANGED told
      BY <1>1, <2>1 DEF IInv, ToldOK
    <2>2. ASSUME NEW w \in Works, Holds(s, w, c, At(k)), Tell(k, c, w, s)
          PROVE  /\ ToldOK'
                 /\ Saved(k) => Informed(told', s)
                 /\ ~Saved(k) => told' = told
      <3>1. /\ s.work[w].by = c
            /\ \A x \in Works \ {w} : s.work[x].by # c
        BY <1>1, <2>2 DEF Good, OneEach, Holds, Live, Claimed
      <3> QED
        BY <1>1, <2>2, <3>1, TellStep DEF IInv
    <2>3. UNCHANGED told \/ \E w \in Works : Holds(s, w, c, At(k)) /\ Tell(k, c, w, s)
      BY <1>0 DEF Look
    <2> QED
      BY <2>1, <2>2, <2>3
  <1>3. CASE s = Copy(k)
    <2>1. EndCall(k) /\ UNCHANGED <<record, clock>>
      BY <1>0, <1>3 DEF Look
    <2>2. Informed(told', record)
      BY <1>1, <1>2, <1>3 DEF IInv
    <2> QED
      BY <1>2, <2>1, <2>2, DropStep
  <1>4. CASE s # Copy(k)
    BY <1>0, <1>1, <1>2, <1>4, SaveStep DEF Look
  <1> QED
    BY <1>3, <1>4

LEMMA ClaimStep ==
    ASSUME IInv, NEW k \in Callers, Busy(k), NEW w \in Works, NEW c \in Claimants,
           Claim(k, ExpireClaims(Copy(k), At(k)), w, c)
    PROVE  IInv'
  <1> DEFINE s == ExpireClaims(Copy(k), At(k))
             new == ClaimWork(s, w, c, At(k))
  <1>1. /\ Good(s) /\ At(k) \in Nat /\ s.rev \in Nat /\ Copy(k).rev \in Nat
        /\ s.rev >= Copy(k).rev
        /\ \A x \in Works : Claimed(s, x) => Live(s, x, At(k))
        /\ Saved(k) => Informed(told, s)
    BY InFlight
  <1>2. CanClaim(s, w, c, At(k)) /\ Save(k, new) /\ Tell(k, c, w, new)
    BY DEF Claim
  <1> HIDE DEF s
  <1>3. /\ Good(new) /\ new.rev > s.rev /\ new.work[w].by = c
        /\ \A x \in Works \ {w} : new.work[x] = s.work[x] /\ s.work[x].by # c
    BY <1>1, <1>2, ClaimGood
  <1> HIDE DEF new
  <1>4. new.rev > Copy(k).rev
    BY <1>1, <1>3, RecordFields DEF Good
  <1>5. ToldOK' /\ (Saved(k) => Informed(told', new)) /\ (~Saved(k) => told' = told)
    BY <1>1, <1>2, <1>3, TellStep DEF IInv
  <1> QED
    BY <1>2, <1>3, <1>4, <1>5, SaveStep

LEMMA HeartbeatStep ==
    ASSUME IInv, NEW k \in Callers, Busy(k), NEW w \in Works, NEW c \in Claimants,
           Heartbeat(k, w, c)
    PROVE  IInv'
  <1> DEFINE s == Copy(k)
             new == Extended(s, w, At(k))
  <1>1. /\ Good(s) /\ At(k) \in Nat
        /\ Saved(k) => Informed(told, s)
    BY InFlight
  <1>2. Save(k, new) /\ told' = told /\ s = Copy(k)
    BY DEF Heartbeat
  <1> HIDE DEF s
  <1>3. /\ Good(new) /\ new.rev > s.rev
        /\ \A x \in Works : new.work[x].by = s.work[x].by /\ new.work[x].rev = s.work[x].rev
    BY <1>1, ExtendGood
  <1> HIDE DEF new
  <1>4. Saved(k) => Informed(told', new)
    BY <1>1, <1>2, <1>3, KeepStep
  <1>5. ToldOK'
    BY <1>2 DEF IInv, ToldOK
  <1> QED
    BY <1>2, <1>3, <1>4, <1>5, SaveStep

LEMMA ReleaseStep ==
    ASSUME IInv, NEW k \in Callers, Busy(k), NEW w \in Works, Release(k, w)
    PROVE  IInv'
  <1> DEFINE s == Copy(k)
             new == Bump(s, w, Unclaim(w, s.work[w]))
  <1>1. Good(s) /\ (Saved(k) => Informed(told, s))
    BY InFlight
  <1>2. Save(k, new) /\ told' = told /\ s = Copy(k)
    BY DEF Release
  <1> HIDE DEF s
  <1>3. /\ Good(new) /\ new.rev > s.rev /\ new.work[w].by = Nobody
        /\ \A x \in Works \ {w} : new.work[x] = s.work[x]
    BY <1>1, ReleaseGood
  <1> HIDE DEF new
  <1>4. \A x \in Works : Claimed(new, x) => new.work[x] = s.work[x]
    BY <1>3 DEF Claimed
  <1>5. Saved(k) => Informed(told', new)
    BY <1>1, <1>2, <1>4, KeepStep
  <1>6. ToldOK'
    BY <1>2 DEF IInv, ToldOK
  <1> QED
    BY <1>2, <1>3, <1>5, <1>6, SaveStep

LEMMA RecordResultStep ==
    ASSUME IInv, NEW k \in Callers, Busy(k), NEW w \in Works, NEW c \in Claimants,
           NEW status \in Terminal(w),
           RecordResult(k, ExpireClaims(Copy(k), At(k)), w, c, status)
    PROVE  IInv'
  <1> DEFINE s == ExpireClaims(Copy(k), At(k))
             new == RecordWork(s, w, status)
  <1>1. /\ Good(s) /\ At(k) \in Nat /\ s.rev \in Nat /\ Copy(k).rev \in Nat
        /\ s.rev >= Copy(k).rev
        /\ Saved(k) => Informed(told, s)
    BY InFlight
  <1>2. Holds(s, w, c, At(k)) /\ Save(k, new) /\ Tell(k, c, w, new)
    BY DEF RecordResult, Writes
  <1> HIDE DEF s
  <1>3. /\ Good(new) /\ new.rev > s.rev /\ new.work[w].by = c
        /\ \A x \in Works \ {w} : new.work[x] = s.work[x] /\ s.work[x].by # c
    <2> DEFINE t == At(k)
    <2>1. t \in Nat /\ Holds(s, w, c, t)
      BY <1>1, <1>2
    <2> HIDE DEF t, new
    <2>2. \A u : u = RecordWork(s, w, status) =>
             /\ Good(u) /\ u.rev > s.rev /\ u.work[w].by = c
             /\ \A x \in Works \ {w} : u.work[x] = s.work[x] /\ s.work[x].by # c
      BY <1>1, <2>1, RecordGood
    <2> QED
      BY <2>2 DEF new
  <1> HIDE DEF new
  <1>4. new.rev > Copy(k).rev
    BY <1>1, <1>3, RecordFields DEF Good
  <1>5. ToldOK' /\ (Saved(k) => Informed(told', new)) /\ (~Saved(k) => told' = told)
    BY <1>1, <1>2, <1>3, TellStep DEF IInv
  <1> QED
    BY <1>2, <1>3, <1>4, <1>5, SaveStep

LEMMA FinishStep ==
    ASSUME IInv, NEW k \in Callers, Busy(k), NEW w \in Works, NEW c \in Claimants,
           Finish(k, ExpireClaims(Copy(k), At(k)), w, c)
    PROVE  IInv'
  <1> DEFINE s == ExpireClaims(Copy(k), At(k))
             new == FinishWork(s, w)
  <1>1. /\ Good(s) /\ At(k) \in Nat /\ s.rev \in Nat /\ Copy(k).rev \in Nat
        /\ s.rev >= Copy(k).rev
        /\ Saved(k) => Informed(told, s)
    BY InFlight
  <1>2. /\ Holds(s, w, c, At(k)) /\ s.work[w].status \in Terminal(w)
        /\ RequireCompletionEvidence(s, w) /\ Save(k, new) /\ told' = told
    BY DEF Finish, Writes
  <1> HIDE DEF s
  <1>3. /\ Good(new) /\ new.rev > s.rev /\ new.work[w].by = Nobody
        /\ \A x \in Works \ {w} : new.work[x] = s.work[x]
    BY <1>1, <1>2, FinishGood
  <1> HIDE DEF new
  <1>4. \A x \in Works : Claimed(new, x) => new.work[x] = s.work[x]
    BY <1>3 DEF Claimed
  <1>5. Saved(k) => Informed(told', new)
    BY <1>1, <1>2, <1>4, KeepStep
  <1>6. ToldOK'
    BY <1>2 DEF IInv, ToldOK
  <1>7. new.rev > Copy(k).rev
    BY <1>1, <1>3, RecordFields DEF Good
  <1> QED
    BY <1>2, <1>3, <1>5, <1>6, <1>7, SaveStep

\* The operations that leave the rows of the work alone.
LEMMA SideStep ==
    ASSUME IInv, NEW k \in Callers, Busy(k), NEW base, NEW new, Good(new),
           base.rev \in Nat, base.rev >= Copy(k).rev, new.rev > base.rev,
           new.work = base.work, Saved(k) => Informed(told, base),
           Save(k, new), told' = told
    PROVE  IInv'
  <1>1. \A x \in Works : new.work[x] = base.work[x]
    OBVIOUS
  <1>4. Saved(k) => Informed(told', new)
    BY <1>1, KeepStep
  <1>2. ToldOK'
    BY DEF IInv, ToldOK
  <1>3. new.rev > Copy(k).rev
    BY InFlight, RecordFields DEF Good
  <1> QED
    BY <1>2, <1>3, <1>4, SaveStep

LEMMA EditStep ==
    ASSUME IInv, NEW k \in Callers, Busy(k), EditOther(k)
    PROVE  IInv'
  <1>1. /\ Good(Copy(k)) /\ Copy(k).rev \in Nat
        /\ Saved(k) => Informed(told, Copy(k))
    BY InFlight
  <1>2. Save(k, Edited(Copy(k))) /\ told' = told
    BY DEF EditOther, Edited
  <1>3. /\ Good(Edited(Copy(k))) /\ Edited(Copy(k)).rev > Copy(k).rev
        /\ Edited(Copy(k)).work = Copy(k).work
    BY <1>1, EditGood
  <1> QED
    BY <1>1, <1>2, <1>3, SideStep

LEMMA EndpointStep ==
    ASSUME IInv, NEW k \in Callers, Busy(k), NEW e \in Endpoints, AddEndpoint(k, e)
    PROVE  IInv'
  <1> DEFINE new == WithEndpoint(Copy(k), e)
  <1>1. /\ Good(Copy(k)) /\ Copy(k).rev \in Nat
        /\ Saved(k) => Informed(told, Copy(k))
    BY InFlight
  <1>2. Save(k, new) /\ told' = told
    BY DEF AddEndpoint, WithEndpoint
  <1>3. Good(new) /\ new.rev > Copy(k).rev /\ new.work = Copy(k).work
    BY <1>1, EndpointGood
  <1> QED
    BY <1>1, <1>2, <1>3, SideStep

LEMMA AdvanceStep ==
    ASSUME IInv, NEW k \in Callers, Busy(k),
           Advance(k, ExpireClaims(Copy(k), At(k)))
    PROVE  IInv'
  <1> DEFINE s == ExpireClaims(Copy(k), At(k))
  <1>1. /\ Good(s) /\ s.rev \in Nat /\ s.rev >= Copy(k).rev
        /\ s # Copy(k) => s.rev > Copy(k).rev
        /\ Saved(k) => Informed(told, s)
    BY InFlight
  <1>0. Advance(k, s)
    OBVIOUS
  <1> HIDE DEF s
  <1>a. told' = told /\ ToldOK'
    BY <1>0 DEF Advance, IInv, ToldOK
  <1>2. CASE HasNext(s)
    <2>1. Save(k, Advanced(s))
      BY <1>0, <1>2 DEF Advance, Advanced
    <2>2. Good(Advanced(s)) /\ Advanced(s).rev > s.rev /\ Advanced(s).work = s.work
      BY <1>1, <1>2, AdvanceGood
    <2> QED
      BY <1>1, <1>a, <2>1, <2>2, SideStep
  <1>3. CASE ~HasNext(s) /\ s = Copy(k)
    <2>1. EndCall(k) /\ UNCHANGED <<record, clock>>
      BY <1>0, <1>3 DEF Advance
    <2>2. Informed(told', record)
      BY <1>a DEF IInv
    <2> QED
      BY <1>a, <2>1, <2>2, DropStep
  <1>4. CASE ~HasNext(s) /\ s # Copy(k)
    <2>1. Save(k, s)
      BY <1>0, <1>4 DEF Advance
    <2>2. Saved(k) => Informed(told', s)
      BY <1>1, <1>a
    <2> QED
      BY <1>1, <1>a, <1>4, <2>1, <2>2, SaveStep
  <1> QED
    BY <1>2, <1>3, <1>4

LEMMA EvidenceStep ==
    ASSUME IInv, NEW k \in Callers, Busy(k), NEW v \in EvidenceIds, NEW w \in Works,
           NEW c \in Claimants, NEW kind \in EvidenceKinds, AddEvidence(k, v, w, c, kind)
    PROVE  IInv'
  <1> DEFINE item == [work |-> w, kind |-> kind, run |-> Copy(k).work[w].runs + 1]
             new == WithEvidence(Copy(k), v, item)
  <1>1. /\ Good(Copy(k)) /\ Copy(k).rev \in Nat
        /\ Saved(k) => Informed(told, Copy(k))
    BY InFlight
  <1>2. Save(k, new) /\ told' = told /\ Copy(k).evidence[v] = Nothing
    BY DEF AddEvidence, WithEvidence
  <1>3. item \in EvidenceItem
    BY <1>1, RecordFields DEF Good, WorkStates, EvidenceItem
  <1> HIDE DEF item
  <1>4. Good(new) /\ new.rev > Copy(k).rev /\ new.work = Copy(k).work
    BY <1>1, <1>2, <1>3, EvidenceGood
  <1> QED
    BY <1>1, <1>2, <1>4, SideStep

LEMMA UpsertStep ==
    ASSUME IInv, NEW k \in Callers, Busy(k), NEW f \in FindingIds, NEW w \in Works,
           NEW c \in Claimants, NEW cited \in SUBSET EvidenceIds,
           NEW severe \in BOOLEAN, UpsertFinding(k, f, w, c, cited, severe)
    PROVE  IInv'
  <1> DEFINE item == [state |-> "draft", work |-> w, evidence |-> cited,
                      severe |-> severe, waived |-> FALSE]
             new == WithFinding(Copy(k), f, item)
  <1>1. /\ Good(Copy(k)) /\ Copy(k).rev \in Nat
        /\ Saved(k) => Informed(told, Copy(k))
    BY InFlight
  <1>2. Save(k, new) /\ told' = told /\ Citable(Copy(k), w, cited)
    BY DEF UpsertFinding, WithFinding
  <1>3. item \in FindingItem
    BY DEF FindingItem
  <1>4. FindingOK(Copy(k), item)
    BY <1>2 DEF FindingOK, Citable
  <1> HIDE DEF item
  <1>5. Good(new) /\ new.rev > Copy(k).rev /\ new.work = Copy(k).work
    BY <1>1, <1>3, <1>4, FindingGood
  <1> QED
    BY <1>1, <1>2, <1>5, SideStep

LEMMA ConfirmStep ==
    ASSUME IInv, NEW k \in Callers, Busy(k), NEW f \in FindingIds,
           NEW c \in Claimants, NEW waiver \in BOOLEAN, ConfirmFinding(k, f, c, waiver)
    PROVE  IInv'
  <1> DEFINE s == Copy(k)
             old == s.findings[f]
             item == [old EXCEPT !.state = "confirmed", !.waived = waiver]
             new == WithFinding(s, f, item)
  <1>1. Good(s) /\ s.rev \in Nat /\ (Saved(k) => Informed(told, s)) /\ s = Copy(k)
    BY InFlight
  <1>2. /\ Save(k, new) /\ told' = told /\ old # Nothing
        /\ FindingHasRaw(s, old)
        /\ old.severe => FindingHasScreenshot(s, old) \/ waiver
    BY DEF ConfirmFinding, WithFinding
  <1> HIDE DEF s
  <1>3. old \in FindingItem /\ FindingOK(s, old)
    BY <1>1, <1>2, RecordFields DEF Good, FindingsOK
  <1> HIDE DEF old
  <1>4. /\ item \in FindingItem
        /\ item.work = old.work /\ item.evidence = old.evidence
        /\ item.severe = old.severe /\ item.waived = waiver
    BY <1>3 DEF FindingItem
  <1> HIDE DEF item
  <1>5. FindingOK(s, item)
    BY <1>2, <1>3, <1>4 DEF FindingOK, FindingHasRaw, FindingHasScreenshot
  <1>6. Good(new) /\ new.rev > s.rev /\ new.work = s.work
    BY <1>1, <1>4, <1>5, FindingGood
  <1> HIDE DEF new
  <1> QED
    BY <1>1, <1>2, <1>6, SideStep

LEMMA LoadStep ==
    ASSUME IInv, NEW k \in Callers, NEW t, Load(k, t)
    PROVE  IInv'
  <1>1. /\ t \in Nat /\ UNCHANGED <<record, told, clock>>
        /\ calls' = [calls EXCEPT ![k] = [copy |-> record, at |-> t]]
    BY EngagementAssumption DEF IInv, Load
  <1>2. record \in Records /\ record.rev \in Nat
    BY RecordFields DEF IInv, Good
  <1>3. /\ CallsOK'
        /\ calls'[k] = [copy |-> record, at |-> t]
        /\ \A j \in Callers \ {k} : calls'[j] = calls[j]
    BY <1>1, <1>2 DEF IInv, CallsOK
  <1>4. ASSUME NEW j \in Callers, Busy(j)' PROVE CopyCurrent(j)'
    <2>1. CASE j = k
      BY <1>1, <1>2, <1>3, <2>1 DEF IInv, CopyCurrent, Copy
    <2>2. CASE j # k
      BY <1>1, <1>3, <1>4, <2>2 DEF IInv, CopiesCurrent, CopyCurrent, Copy, Busy
    <2> QED
      BY <2>1, <2>2
  <1> QED
    BY <1>1, <1>3, <1>4 DEF IInv, CopiesCurrent, ToldOK

LEMMA RequestStep ==
    ASSUME IInv, NEW k \in Callers, Busy(k),
           Request(k, ExpireClaims(Copy(k), At(k)))
    PROVE  IInv'
  <1>1. CASE Refuse(k)
    <2>1. EndCall(k) /\ told' = told /\ UNCHANGED <<record, clock>>
      BY <1>1 DEF Refuse
    <2>2. ToldOK' /\ Informed(told', record)
      BY <2>1 DEF IInv, ToldOK
    <2> QED
      BY <2>1, <2>2, DropStep
  <1>2. ASSUME NEW c \in Claimants, NEW w \in Works, NEW status \in Terminal(w),
               RecordResult(k, ExpireClaims(Copy(k), At(k)), w, c, status)
        PROVE  IInv'
    BY <1>2, RecordResultStep
  <1>3. ASSUME NEW c \in Claimants, NEW w \in Works, NEW v \in EvidenceIds,
               NEW kind \in EvidenceKinds, AddEvidence(k, v, w, c, kind)
        PROVE  IInv'
    BY <1>3, EvidenceStep
  <1>4. ASSUME NEW c \in Claimants, NEW w \in Works, NEW f \in FindingIds,
               NEW cited \in SUBSET EvidenceIds, NEW severe \in BOOLEAN,
               UpsertFinding(k, f, w, c, cited, severe)
        PROVE  IInv'
    BY <1>4, UpsertStep
  <1>5. ASSUME NEW c \in Claimants, NEW f \in FindingIds, NEW waiver \in BOOLEAN,
               ConfirmFinding(k, f, c, waiver)
        PROVE  IInv'
    BY <1>5, ConfirmStep
  <1> QED
    BY <1>1, <1>2, <1>3, <1>4, <1>5, LookStep, ClaimStep, HeartbeatStep, ReleaseStep,
       FinishStep, EditStep, EndpointStep, AdvanceStep DEF Request

\* A new engagement satisfies the invariant.
LEMMA InitIInv == Init => IInv
  <1> SUFFICES ASSUME Init PROVE IInv
    OBVIOUS
  <1>1. PICK flow \in Workflows : record = NewState(flow)
    BY DEF Init
  <1>2. /\ record.flow = flow /\ record.phase = 1 /\ record.endpoints = {}
        /\ record.rev = 1
        /\ record.work = [w \in Works |-> NewWork]
        /\ record.evidence = [v \in EvidenceIds |-> Nothing]
        /\ record.findings = [f \in FindingIds |-> Nothing]
    BY <1>1 DEF NewState
  <1>3. NewWork \in WorkStates
    BY DEF NewWork, WorkStates, Statuses
  <1>4. record \in Records
    BY <1>1, <1>3 DEF NewState, Records
  <1>5. record.phase \in Phases(record.flow)
    BY <1>2, WorkflowAssumption DEF Phases
  <1>6. ASSUME NEW w \in Works
        PROVE  RowOK(w, record.work[w], RawEvidence(record, w, record.work[w].runs))
    BY <1>2, TerminalStatuses DEF NewWork, RowOK
  <1>7. OneEach(record) /\ Informed(told, record)
    BY <1>2 DEF OneEach, Informed, Claimed, NewWork
  <1>8. FindingsOK(record)
    BY <1>2 DEF FindingsOK
  <1>9. CallsOK /\ ToldOK /\ clock \in Nat /\ CopiesCurrent
    BY DEF Init, CallsOK, ToldOK, CopiesCurrent, Busy
  <1> QED
    BY <1>4, <1>5, <1>6, <1>7, <1>8, <1>9 DEF IInv, Good, WorkOK

LEMMA NextIInv == IInv /\ [Next]_vars => IInv'
  <1> SUFFICES ASSUME IInv, [Next]_vars PROVE IInv'
    OBVIOUS
  <1>1. ASSUME NEW k \in Callers, NEW t \in 0..MaxClock, Load(k, t) PROVE IInv'
    BY <1>1, LoadStep
  <1>2. ASSUME NEW k \in Callers, Busy(k), Request(k, ExpireClaims(Copy(k), At(k)))
        PROVE  IInv'
    BY <1>2, RequestStep
  <1>3. CASE Tick
    BY <1>3 DEF IInv, Tick, CallsOK, ToldOK, CopiesCurrent, CopyCurrent, Copy, Busy
  <1>4. CASE UNCHANGED vars
    BY <1>4 DEF IInv, vars, CallsOK, ToldOK, CopiesCurrent, CopyCurrent, Copy, Busy
  <1> QED
    BY <1>1, <1>2, <1>3, <1>4 DEF Next

\* The inductive invariant, for any number of claimants and of requests.
THEOREM Inductive == Spec => []IInv
  BY InitIInv, NextIInv, PTL DEF Spec

\* Every reachable record is well formed, and so is every copy of it.
THEOREM TypeCorrect == Spec => []TypeOK
  <1>1. IInv => TypeOK
    BY DEF IInv, Good, CallsOK, ToldOK, TypeOK
  <1> QED
    BY <1>1, Inductive, PTL

\* No claimant ever has two items, however its claims raced.
THEOREM OneClaim == Spec => []OneClaimEach
  <1>1. IInv => OneClaimEach
    BY DEF IInv, Good, OneEach, OneClaimEach
  <1> QED
    BY <1>1, Inductive, PTL

\* Every completed run was observed, and a vulnerability found with raw
\* evidence of the run.
THEOREM CompletedSupported == Spec => []CompletedIsSupported
  <1>1. IInv => CompletedIsSupported
    BY DEF IInv, Good, WorkOK, RowOK, CompletedIsSupported
  <1> QED
    BY <1>1, Inductive, PTL

\* Every confirmed finding has raw evidence of its own item, and a severe one
\* its screenshot or a waiver.
THEOREM ConfirmedSupported == Spec => []ConfirmedIsSupported
  <1>1. IInv => ConfirmedIsSupported
    BY DEF IInv, Good, FindingsOK, FindingOK, FindingHasRaw, ConfirmedIsSupported
  <1> QED
    BY <1>1, Inductive, PTL

\* The revision a claimant was told with its item stays the item's revision
\* for as long as it holds it.
THEOREM RevisionKept == Spec => []HolderKeepsRevision
  <1>1. IInv => HolderKeepsRevision
    BY DEF IInv, Informed, HolderKeepsRevision
  <1> QED
    BY <1>1, Inductive, PTL

-----------------------------------------------------------------------------
\* The refinement: what a state is to EngagementClaims.
Reported(s, w) == ~s.work[w].finished /\ s.work[w].status \in Terminal(w)

\* n is s with the items in lost let go of, as Promise sees them.
LostOf(s, n, lost) ==
    /\ \A w \in lost : n.work[w].by = Nobody /\ ~Reported(n, w)
    /\ \A w \in Works \ lost :
          n.work[w].by = s.work[w].by /\ (Reported(n, w) <=> Reported(s, w))
    /\ \A w \in Works : n.work[w].runs = s.work[w].runs

LEMMA LostExpired ==
    ASSUME NEW s, Good(s), NEW t \in Nat
    PROVE  /\ Expired(s, t) \subseteq {w \in Works : Claimed(s, w)}
           /\ LostOf(s, ExpireClaims(s, t), Expired(s, t))
  <1> DEFINE n == ExpireClaims(s, t)
             lost == Expired(s, t)
  <1>1. lost \subseteq {w \in Works : Claimed(s, w)}
    BY DEF Expired
  <1>2. \A w \in Works : n.work[w] =
           IF w \in lost THEN [Unclaim(w, s.work[w]) EXCEPT !.rev = @ + 1]
           ELSE s.work[w]
    BY ExpireGood
  <1> HIDE DEF n, lost
  <1>3. ASSUME NEW w \in lost
        PROVE  n.work[w].by = Nobody /\ ~Reported(n, w) /\ n.work[w].runs = s.work[w].runs
    <2> DEFINE u == Unclaim(w, s.work[w])
    <2>1. w \in Works
      BY <1>1
    <2>2. /\ s.work[w] \in WorkStates
          /\ RowOK(w, s.work[w], RawEvidence(s, w, s.work[w].runs))
      BY <2>1, RecordFields DEF Good, WorkOK
    <2>3. /\ u \in WorkStates /\ u.by = Nobody /\ u.runs = s.work[w].runs
          /\ u.finished = s.work[w].finished
          /\ ~s.work[w].finished => u.status \notin Terminal(w)
      BY <2>1, <2>2, UnclaimOK
    <2>4. n.work[w] = [u EXCEPT !.rev = @ + 1]
      BY <1>2, <2>1
    <2> HIDE DEF u
    <2>5. /\ n.work[w].by = Nobody /\ n.work[w].runs = s.work[w].runs
          /\ n.work[w].finished = u.finished /\ n.work[w].status = u.status
      BY <2>3, <2>4 DEF WorkStates
    <2> QED
      BY <2>3, <2>5 DEF Reported
  <1>4. \A w \in Works \ lost : n.work[w] = s.work[w]
    BY <1>2
  <1>5. LostOf(s, n, lost)
    BY <1>3, <1>4 DEF LostOf, Reported
  <1> QED
    BY <1>1, <1>5 DEF n, lost

\* The abstract steps, in the words of the record.
LEMMA LoseMaps ==
    ASSUME NEW lost, lost \subseteq {w \in Works : Claimed(record, w)},
           LostOf(record, record', lost)
    PROVE  Promise!Next
  <1>1. lost \in SUBSET Promise!Held
    BY DEF Promise!Held, Claimed
  <1>2. Promise!Lose(lost)
    BY DEF Promise!Lose, Promise!HolderAfter, Promise!ReportedAfter, LostOf, Reported
  <1> QED
    BY <1>1, <1>2 DEF Promise!Next

LEMMA TakeMaps ==
    ASSUME NEW lost, lost \subseteq {w \in Works : Claimed(record, w)},
           NEW s, LostOf(record, s, lost),
           NEW w \in Works, NEW c \in Claimants, s.work[w].by = Nobody,
           \A x \in Works : s.work[x].by # c,
           ~Reported(s, w), ~Reported(record', w), record'.work[w].by = c,
           record'.work[w].runs = s.work[w].runs,
           \A x \in Works \ {w} : record'.work[x] = s.work[x]
    PROVE  Promise!Next
  <1>1. lost \in SUBSET Promise!Held
    BY DEF Promise!Held, Claimed
  <1> DEFINE left == Promise!HolderAfter(lost)
  <1>2. \A x \in Works : left[x] = s.work[x].by
    BY DEF Promise!HolderAfter, LostOf
  <1>3. [x \in Works |-> record'.work[x].by] = [left EXCEPT ![w] = c]
    <2>1. DOMAIN left = Works /\ left = [x \in Works |-> left[x]]
      BY DEF Promise!HolderAfter
    <2> HIDE DEF left
    <2> QED
      BY <1>2, <2>1
  <1>4. [x \in Works |-> Reported(record', x)] = Promise!ReportedAfter(lost)
    <2>1. ASSUME NEW x \in Works
          PROVE  Reported(record', x) <=> (Reported(record, x) /\ x \notin lost)
      <3>1. Reported(s, x) <=> (Reported(record, x) /\ x \notin lost)
        BY DEF LostOf
      <3> QED
        BY <3>1 DEF Reported
    <2> QED
      BY <2>1 DEF Promise!ReportedAfter, Reported
  <1>5. [x \in Works |-> record'.work[x].runs] = [x \in Works |-> record.work[x].runs]
    BY DEF LostOf
  <1>6. Promise!Take(lost, w, c)
    BY <1>2, <1>3, <1>4, <1>5 DEF Promise!Take, Reported
  <1> QED
    BY <1>1, <1>6 DEF Promise!Next

LEMMA ReportMaps ==
    ASSUME NEW lost, lost \subseteq {w \in Works : Claimed(record, w)},
           NEW s, LostOf(record, s, lost), NEW w \in Works,
           s.work[w].by # Nobody, record'.work[w].by = s.work[w].by,
           Reported(record', w), record'.work[w].runs = s.work[w].runs,
           \A x \in Works \ {w} : record'.work[x] = s.work[x]
    PROVE  Promise!Next
  <1>1. lost \in SUBSET Promise!Held
    BY DEF Promise!Held, Claimed
  <1>2. Promise!HolderAfter(lost)[w] # Nobody
    BY DEF Promise!HolderAfter, LostOf
  <1>3. [x \in Works |-> record'.work[x].by] = Promise!HolderAfter(lost)
    BY DEF Promise!HolderAfter, LostOf
  <1>4. [x \in Works |-> Reported(record', x)] =
        [Promise!ReportedAfter(lost) EXCEPT ![w] = TRUE]
    <2>1. ASSUME NEW x \in Works \ {w}
          PROVE  Reported(record', x) <=> (Reported(record, x) /\ x \notin lost)
      <3>1. Reported(s, x) <=> (Reported(record, x) /\ x \notin lost)
        BY DEF LostOf
      <3> QED
        BY <3>1 DEF Reported
    <2>2. \A x \in Works : Reported(record', x) =
             IF x = w THEN TRUE ELSE Reported(record, x) /\ x \notin lost
      BY <2>1 DEF Reported
    <2> QED
      BY <2>2 DEF Promise!ReportedAfter, Reported
  <1>5. [x \in Works |-> record'.work[x].runs] = [x \in Works |-> record.work[x].runs]
    BY DEF LostOf
  <1>6. Promise!Report(lost, w)
    BY <1>2, <1>3, <1>4, <1>5 DEF Promise!Report, Reported
  <1> QED
    BY <1>1, <1>6 DEF Promise!Next

LEMMA CompleteMaps ==
    ASSUME NEW lost, lost \subseteq {w \in Works : Claimed(record, w)},
           NEW s, LostOf(record, s, lost), NEW w \in Works,
           s.work[w].by # Nobody, record'.work[w].by = Nobody,
           Reported(s, w), ~Reported(record', w),
           record'.work[w].runs = s.work[w].runs + 1,
           \A x \in Works \ {w} : record'.work[x] = s.work[x]
    PROVE  Promise!Next
  <1>1. lost \in SUBSET Promise!Held
    BY DEF Promise!Held, Claimed
  <1> DEFINE left == Promise!HolderAfter(lost)
  <1>2. \A x \in Works : left[x] = s.work[x].by
    BY DEF Promise!HolderAfter, LostOf
  <1>3. [x \in Works |-> record'.work[x].by] = [left EXCEPT ![w] = Nobody]
    <2>1. DOMAIN left = Works /\ left = [x \in Works |-> left[x]]
      BY DEF Promise!HolderAfter
    <2> HIDE DEF left
    <2> QED
      BY <1>2, <2>1
  <1>4. /\ Promise!ReportedAfter(lost)[w]
        /\ [x \in Works |-> Reported(record', x)] =
           [Promise!ReportedAfter(lost) EXCEPT ![w] = FALSE]
    <2>1. ASSUME NEW x \in Works
          PROVE  Reported(s, x) <=> (Reported(record, x) /\ x \notin lost)
      BY DEF LostOf
    <2>2. ASSUME NEW x \in Works \ {w}
          PROVE  Reported(record', x) <=> (Reported(record, x) /\ x \notin lost)
      BY <2>1 DEF Reported
    <2>3. \A x \in Works : Reported(record', x) =
             IF x = w THEN FALSE ELSE Reported(record, x) /\ x \notin lost
      BY <2>2 DEF Reported
    <2> QED
      BY <2>1, <2>3 DEF Promise!ReportedAfter, Reported
  <1>5. [x \in Works |-> record'.work[x].runs] =
        [[x \in Works |-> record.work[x].runs] EXCEPT ![w] = @ + 1]
    <2>1. \A x \in Works : s.work[x].runs = record.work[x].runs
      BY DEF LostOf
    <2> QED
      BY <2>1
  <1>6. Promise!Complete(lost, w)
    BY <1>2, <1>3, <1>4, <1>5 DEF Promise!Complete, Reported
  <1> QED
    BY <1>1, <1>6 DEF Promise!Next

Maps == Promise!Next \/ UNCHANGED Promise!vars

LEMMA StutterMaps ==
    ASSUME record'.work = record.work PROVE Maps
  BY DEF Maps, Promise!vars

\* A write either finds its copy current and replaces the record, or is lost.
LEMMA SaveCases ==
    ASSUME IInv, NEW k \in Callers, Busy(k), NEW s, Save(k, s)
    PROVE  record' = record \/ (Saved(k) /\ Copy(k) = record /\ record' = s)
  BY InFlight DEF Save, Update, Saved

LEMMA ExpiredMaps ==
    ASSUME IInv, NEW t \in Nat, record'.work = ExpireClaims(record, t).work
    PROVE  Maps
  <1> DEFINE s == ExpireClaims(record, t)
             lost == Expired(record, t)
  <1>1. lost \subseteq {w \in Works : Claimed(record, w)} /\ LostOf(record, s, lost)
    BY LostExpired DEF IInv
  <1>2. record'.work = s.work
    OBVIOUS
  <1> HIDE DEF s, lost
  <1>3. LostOf(record, record', lost)
    BY <1>1, <1>2 DEF LostOf, Reported
  <1> QED
    BY <1>1, <1>3, LoseMaps DEF Maps

LEMMA ClaimMaps ==
    ASSUME IInv, NEW k \in Callers, Busy(k), NEW w \in Works, NEW c \in Claimants,
           Claim(k, ExpireClaims(Copy(k), At(k)), w, c)
    PROVE  Maps
  <1> DEFINE t == At(k)
             s == ExpireClaims(Copy(k), t)
             lost == Expired(Copy(k), t)
             new == ClaimWork(s, w, c, t)
  <1>1. /\ t \in Nat /\ Good(Copy(k)) /\ Good(s)
        /\ \A x \in Works : Claimed(s, x) => Live(s, x, t)
    BY InFlight
  <1>2. CanClaim(s, w, c, t) /\ Save(k, new)
    BY DEF Claim
  <1>3. CASE record' = record
    BY <1>3, StutterMaps
  <1>4. CASE Copy(k) = record /\ record' = new
    <2>1. lost \subseteq {x \in Works : Claimed(record, x)} /\ LostOf(record, s, lost)
      BY <1>1, <1>4, LostExpired
    <2> HIDE DEF s, t, lost
    <2>2. /\ new.work[w].by = c /\ new.work[w].runs = s.work[w].runs
          /\ new.work[w].finished = s.work[w].finished
          /\ new.work[w].status = IF Holds(s, w, c, t) THEN s.work[w].status ELSE "focused"
          /\ \A x \in Works \ {w} : new.work[x] = s.work[x] /\ s.work[x].by # c
      BY <1>1, <1>2, ClaimGood
    <2> HIDE DEF new
    <2>3. CASE Holds(s, w, c, t)
      <3>1. s.work[w].by = c
        BY <2>3 DEF Holds
      <3>2. /\ w \notin lost
            /\ \A x \in Works : /\ new.work[x].by = s.work[x].by
                                /\ Reported(new, x) <=> Reported(s, x)
                                /\ new.work[x].runs = s.work[x].runs
        BY <2>1, <2>2, <2>3, <3>1, EngagementAssumption DEF Reported, LostOf
      <3>3. LostOf(record, record', lost)
        BY <1>4, <2>1, <3>2 DEF LostOf
      <3> QED
        BY <2>1, <3>3, LoseMaps DEF Maps
    <2>4. CASE ~Holds(s, w, c, t)
      <3>1. /\ s.work[w].by = Nobody /\ ~Reported(s, w) /\ ~Reported(new, w)
            /\ Nobody # c
        BY <1>1, <1>2, <2>2, <2>4, TerminalStatuses, EngagementAssumption
           DEF CanClaim, Claimed, Reported
      <3>2. \A x \in Works : s.work[x].by # c
        BY <2>2, <3>1
      <3> QED
        BY <1>4, <2>1, <2>2, <3>1, <3>2, TakeMaps DEF Maps
    <2> QED
      BY <2>3, <2>4
  <1> QED
    BY <1>2, <1>3, <1>4, SaveCases

LEMMA ReleaseMaps ==
    ASSUME IInv, NEW k \in Callers, Busy(k), NEW w \in Works, Release(k, w)
    PROVE  Maps
  <1> DEFINE s == Copy(k)
             new == Bump(s, w, Unclaim(w, s.work[w]))
  <1>1. Good(s) /\ Claimed(s, w) /\ Save(k, new)
    BY InFlight DEF Release
  <1>2. CASE record' = record
    BY <1>2, StutterMaps
  <1>3. CASE s = record /\ record' = new
    <2> HIDE DEF s
    <2>1. /\ new.work[w].by = Nobody /\ new.work[w].runs = s.work[w].runs
          /\ new.work[w].finished = s.work[w].finished
          /\ ~s.work[w].finished => new.work[w].status \notin Terminal(w)
          /\ \A x \in Works \ {w} : new.work[x] = s.work[x]
      BY <1>1, ReleaseGood
    <2> HIDE DEF new
    <2>2. LostOf(record, record', {w})
      BY <1>3, <2>1 DEF LostOf, Reported
    <2>3. {w} \subseteq {x \in Works : Claimed(record, x)}
      BY <1>1, <1>3
    <2> QED
      BY <2>2, <2>3, LoseMaps DEF Maps
  <1> QED
    BY <1>1, <1>2, <1>3, SaveCases

LEMMA HeartbeatMaps ==
    ASSUME IInv, NEW k \in Callers, Busy(k), NEW w \in Works, NEW c \in Claimants,
           Heartbeat(k, w, c)
    PROVE  Maps
  <1> DEFINE s == Copy(k)
             new == Extended(s, w, At(k))
  <1>1. Good(s) /\ At(k) \in Nat /\ Save(k, new)
    BY InFlight DEF Heartbeat
  <1>2. CASE record' = record
    BY <1>2, StutterMaps
  <1>3. CASE s = record /\ record' = new
    <2> HIDE DEF s
    <2>1. \A x \in Works : /\ new.work[x].by = s.work[x].by
                           /\ new.work[x].runs = s.work[x].runs
                           /\ new.work[x].finished = s.work[x].finished
                           /\ new.work[x].status = s.work[x].status
      BY <1>1, ExtendGood
    <2> HIDE DEF new
    <2>2. LostOf(record, record', {})
      BY <1>3, <2>1 DEF LostOf, Reported
    <2> QED
      BY <2>2, LoseMaps DEF Maps
  <1> QED
    BY <1>1, <1>2, <1>3, SaveCases

LEMMA RecordMaps ==
    ASSUME IInv, NEW k \in Callers, Busy(k), NEW w \in Works, NEW c \in Claimants,
           NEW status \in Terminal(w),
           RecordResult(k, ExpireClaims(Copy(k), At(k)), w, c, status)
    PROVE  Maps
  <1> DEFINE t == At(k)
             s == ExpireClaims(Copy(k), t)
             lost == Expired(Copy(k), t)
             new == RecordWork(s, w, status)
  <1>1. t \in Nat /\ Good(Copy(k)) /\ Good(s)
    BY InFlight
  <1>2. Holds(s, w, c, t) /\ Save(k, new)
    BY DEF RecordResult, Writes
  <1>3. CASE record' = record
    BY <1>3, StutterMaps
  <1>4. CASE Copy(k) = record /\ record' = new
    <2>1. lost \subseteq {x \in Works : Claimed(record, x)} /\ LostOf(record, s, lost)
      BY <1>1, <1>4, LostExpired
    <2> HIDE DEF s, t, lost, new
    <2>2. \A u : u = RecordWork(s, w, status) =>
             /\ u.work[w].by = c /\ u.work[w].runs = s.work[w].runs
             /\ ~u.work[w].finished /\ u.work[w].status = status
             /\ \A x \in Works \ {w} : u.work[x] = s.work[x]
      BY <1>1, <1>2, RecordGood
    <2>3. /\ new.work[w].by = s.work[w].by /\ s.work[w].by # Nobody
          /\ Reported(new, w) /\ new.work[w].runs = s.work[w].runs
          /\ \A x \in Works \ {w} : new.work[x] = s.work[x]
      BY <1>2, <2>2, EngagementAssumption DEF Holds, Reported, new
    <2> QED
      BY <1>4, <2>1, <2>3, ReportMaps DEF Maps
  <1> QED
    BY <1>2, <1>3, <1>4, SaveCases

LEMMA FinishMaps ==
    ASSUME IInv, NEW k \in Callers, Busy(k), NEW w \in Works, NEW c \in Claimants,
           Finish(k, ExpireClaims(Copy(k), At(k)), w, c)
    PROVE  Maps
  <1> DEFINE t == At(k)
             s == ExpireClaims(Copy(k), t)
             lost == Expired(Copy(k), t)
             new == FinishWork(s, w)
  <1>1. t \in Nat /\ Good(Copy(k)) /\ Good(s)
    BY InFlight
  <1>2. /\ Holds(s, w, c, t) /\ s.work[w].status \in Terminal(w)
        /\ RequireCompletionEvidence(s, w) /\ Save(k, new)
    BY DEF Finish, Writes
  <1>3. CASE record' = record
    BY <1>3, StutterMaps
  <1>4. CASE Copy(k) = record /\ record' = new
    <2>1. lost \subseteq {x \in Works : Claimed(record, x)} /\ LostOf(record, s, lost)
      BY <1>1, <1>4, LostExpired
    <2> HIDE DEF s, t, lost
    <2>2. /\ new.work[w].by = Nobody /\ new.work[w].runs = s.work[w].runs + 1
          /\ ~s.work[w].finished
          /\ ~new.work[w].finished => new.work[w].status \notin Terminal(w)
          /\ \A x \in Works \ {w} : new.work[x] = s.work[x]
      BY <1>1, <1>2, FinishGood
    <2> HIDE DEF new
    <2>3. Reported(s, w) /\ ~Reported(new, w) /\ s.work[w].by # Nobody
      BY <1>2, <2>2, EngagementAssumption DEF Holds, Reported
    <2> QED
      BY <1>4, <2>1, <2>2, <2>3, CompleteMaps DEF Maps
  <1> QED
    BY <1>2, <1>3, <1>4, SaveCases

LEMMA RequestMaps ==
    ASSUME IInv, NEW k \in Callers, Busy(k),
           Request(k, ExpireClaims(Copy(k), At(k)))
    PROVE  Maps
  <1> DEFINE s == ExpireClaims(Copy(k), At(k))
  <1>1. /\ At(k) \in Nat /\ Good(Copy(k)) /\ Good(s)
    BY InFlight
  <1>2. ASSUME Save(k, s) PROVE Maps
    BY <1>1, <1>2, SaveCases, StutterMaps, ExpiredMaps
  <1>3. ASSUME NEW new, Save(k, new), new.work = Copy(k).work PROVE Maps
    BY <1>3, SaveCases, StutterMaps
  <1>4. ASSUME NEW c \in Claimants, Look(k, s, c) PROVE Maps
    <2>1. UNCHANGED record \/ Save(k, s)
      BY <1>4 DEF Look
    <2> QED
      BY <1>2, <2>1, StutterMaps
  <1>5. ASSUME Advance(k, s) PROVE Maps
    <2> DEFINE new == Advanced(s)
    <2>1. (Save(k, new) /\ HasNext(s)) \/ UNCHANGED record \/ Save(k, s)
      BY <1>5 DEF Advance, Advanced
    <2>2. ASSUME Save(k, new), HasNext(s) PROVE Maps
      <3>1. new.work = s.work
        BY <1>1, <2>2, AdvanceGood
      <3> QED
        BY <1>1, <2>2, <3>1, SaveCases, StutterMaps, ExpiredMaps
    <2> QED
      BY <1>2, <2>1, <2>2, StutterMaps
  <1>6. ASSUME EditOther(k) PROVE Maps
    BY <1>1, <1>3, <1>6, EditGood DEF EditOther, Edited
  <1>7. ASSUME NEW e \in Endpoints, AddEndpoint(k, e) PROVE Maps
    BY <1>1, <1>3, <1>7, EndpointGood DEF AddEndpoint, WithEndpoint
  <1>8. ASSUME NEW w \in Works, NEW c \in Claimants, NEW v \in EvidenceIds,
               NEW kind \in EvidenceKinds, AddEvidence(k, v, w, c, kind)
        PROVE  Maps
    <2>1. \E item : Save(k, WithEvidence(Copy(k), v, item))
      BY <1>8 DEF AddEvidence, WithEvidence
    <2>2. \A item : WithEvidence(Copy(k), v, item).work = Copy(k).work
      BY <1>1, RecordFields DEF Good, WithEvidence
    <2> QED
      BY <1>3, <2>1, <2>2
  <1>9. ASSUME NEW f \in FindingIds, \E item : Save(k, WithFinding(Copy(k), f, item))
        PROVE  Maps
    <2>1. \A item : WithFinding(Copy(k), f, item).work = Copy(k).work
      BY <1>1, RecordFields DEF Good, WithFinding
    <2> QED
      BY <1>3, <1>9, <2>1
  <1>10. ASSUME NEW w \in Works, NEW c \in Claimants, NEW f \in FindingIds,
                NEW cited \in SUBSET EvidenceIds, NEW severe \in BOOLEAN,
                UpsertFinding(k, f, w, c, cited, severe)
         PROVE  Maps
    BY <1>9, <1>10 DEF UpsertFinding, WithFinding
  <1>11. ASSUME NEW c \in Claimants, NEW f \in FindingIds, NEW waiver \in BOOLEAN,
                ConfirmFinding(k, f, c, waiver)
         PROVE  Maps
    BY <1>9, <1>11 DEF ConfirmFinding, WithFinding
  <1>12. ASSUME Refuse(k) PROVE Maps
    BY <1>12, StutterMaps DEF Refuse
  <1>13. ASSUME NEW w \in Works, NEW c \in Claimants, NEW status \in Terminal(w),
                RecordResult(k, s, w, c, status)
         PROVE  Maps
    BY <1>13, RecordMaps
  <1> QED
    BY <1>4, <1>5, <1>6, <1>7, <1>8, <1>10, <1>11, <1>12, <1>13, ClaimMaps,
       HeartbeatMaps, ReleaseMaps, FinishMaps DEF Request

\* The engagement, with its racing copies, leases and lost writes, implements
\* EngagementClaims.
THEOREM Implements == Spec => KeepsPromise
  <1>1. Init => Promise!Init
    BY DEF Init, NewState, NewWork, Promise!Init, Terminal
  <1>2. IInv /\ [Next]_vars => [Promise!Next]_(Promise!vars)
    <2> SUFFICES ASSUME IInv, [Next]_vars PROVE Maps
      BY DEF Maps
    <2>1. ASSUME NEW k \in Callers, Busy(k), Request(k, ExpireClaims(Copy(k), At(k)))
          PROVE  Maps
      BY <2>1, RequestMaps
    <2>2. ASSUME NEW k \in Callers, NEW t \in 0..MaxClock, Load(k, t) PROVE Maps
      BY <2>2, StutterMaps DEF Load
    <2>3. CASE Tick
      BY <2>3, StutterMaps DEF Tick
    <2>4. CASE UNCHANGED vars
      BY <2>4, StutterMaps DEF vars
    <2> QED
      BY <2>1, <2>2, <2>3, <2>4 DEF Next
  <1> QED
    BY <1>1, <1>2, Inductive, PTL DEF Spec, Promise!Spec, KeepsPromise
=============================================================================
