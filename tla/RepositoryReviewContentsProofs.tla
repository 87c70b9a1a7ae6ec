------------------- MODULE RepositoryReviewContentsProofs -------------------
(***************************************************************************)
(* What a copy of the review may say, wherever it is: the theorems about   *)
(* DoneIsSubmitted and CompleteIsAll.  A call keeps the review it began    *)
(* from to roll back to and to save the submissions of; that it is still   *)
(* good with the submissions there are now is what makes this inductive.   *)
(***************************************************************************)
EXTENDS RepositoryReviewProofs

\* What a call has kept agrees with the submissions in memory.
PrevIsSound ==
    call # Nothing /\ call.prev # Nothing =>
        /\ Sound(call.prev)
        /\ \A i \in Shards : call.prev.shards[i] = "done" => memory.subs[i] # Nothing
        /\ call.kind = "resume" => call.shards = UnfinishedShards(call.prev)
PrevComplete ==
    call # Nothing /\ call.prev # Nothing =>
        /\ Complete(call.prev)
        /\ call.prev.state = "complete" =>
              memory.subs = call.prev.subs /\ \A r \in RunIds : ~Drives(r)
\* A review that somebody drives says so.
BusyIsRunning ==
    /\ call # Nothing /\ call.pc \in After => memory.state \in {"running", "cancelling"}
    /\ \A r \in RunIds : Drives(r) => memory.state \in {"running", "cancelling"}
Good(s) == Sound(s) /\ Complete(s)
AllGood == \A s \in Known : Good(s)

\* What a review holds, wherever a copy of it is.
Contents ==
    /\ AllGood /\ PrevIsSound /\ PrevComplete
    /\ BusyIsRunning /\ PreparedIsCovered

\* Every place a copy can be in is among Known.
LEMMA KnownHere ==
    /\ memory # Nothing => memory \in Known
    /\ saved # Nothing => saved \in Known
    /\ canceller # Nothing => canceller \in Known
    /\ call # Nothing /\ call.copy # Nothing => call.copy \in Known
    /\ \A r \in RunIds :
          workers[r] # Nothing /\ workers[r].copy # Nothing => workers[r].copy \in Known
BY DEF Known, Snapshots

\* The only new copy after the step of a worker is the review it has changed.
LEMMA WorkerKnown ==
    ASSUME Shape, NEW r \in RunIds, DataEffect(r) \/ QuietEffect(r)
    PROVE  \A s \in Known' : s \in Known \/ s = memory'
<1>1. /\ workers' = [workers EXCEPT ![r] = workers'[r]] /\ workers[r] # Nothing
      /\ canceller' = canceller /\ call' = call
      /\ saved' = saved \/ (workers[r].copy # Nothing /\ saved' = workers[r].copy)
      /\ workers'[r] # Nothing => workers'[r].copy \in {Nothing, workers[r].copy, memory'}
  <2>1. CASE DataEffect(r)
    BY <2>1 DEF DataEffect, Others, Drives
  <2>2. CASE QuietEffect(r)
    BY <2>2 DEF QuietEffect, QuietRest, Moves, WorkerEnds, WritesCopy
  <2> QED
    BY <2>1, <2>2
<1>2. \A q \in RunIds : q # r => workers'[q] = workers[q]
  BY <1>1 DEF Shape, TypeOK
<1>3. SUFFICES ASSUME NEW s \in Known', s # memory'
               PROVE  s \in Known
  OBVIOUS
<1>4. s # Nothing
  BY DEF Known
<1>5. CASE s = canceller' \/ s = saved'
  BY <1>1, <1>4, <1>5, KnownHere
<1>6. CASE call' # Nothing /\ s = call'.copy
  BY <1>1, <1>4, <1>6, KnownHere
<1>7. CASE \E q \in RunIds : workers'[q] # Nothing /\ s = workers'[q].copy
  BY <1>1, <1>2, <1>3, <1>4, <1>7, KnownHere
<1> QED
  BY <1>3, <1>4, <1>5, <1>6, <1>7 DEF Known, Snapshots

LEMMA WorkerContents ==
    ASSUME Shape, Contents, NEW r \in RunIds, DataEffect(r) \/ QuietEffect(r)
    PROVE  Contents'
<1>1. /\ workers[r] # Nothing /\ workers' = [workers EXCEPT ![r] = workers'[r]]
      /\ runID' = runID /\ call' = call
      /\ \A q \in RunIds : q # r => workers'[q] = workers[q]
  <2>1. workers[r] # Nothing /\ workers' = [workers EXCEPT ![r] = workers'[r]]
    BY DEF DataEffect, QuietEffect, Drives
  <2>2. runID' = runID /\ call' = call
    BY DEF DataEffect, QuietEffect, QuietRest, Others, review
  <2> QED
    BY <2>1, <2>2 DEF Shape, TypeOK
<1>2. memory \in Snapshot /\ memory \in Known /\ memory # Nothing /\ Good(memory)
  BY <1>1, WorkerHere, KnownHere, NothingAssumption DEF Contents, AllGood
<1>3. CASE DataEffect(r)
  <2>1. /\ r = runID /\ workers[r].pc \in Driving /\ Drives(r) /\ memory' \in Snapshot
        /\ workers'[r] # Nothing
        /\ \/ memory'.state = memory.state /\ workers'[r].pc \in Driving \ {"leave", "finish"}
           \/ workers'[r].pc = "clear"
        /\ workers'[r].pc \in {"checks", "checking"} => Covered(memory')
        /\ cancelled' = cancelled
    BY <1>3, NothingAssumption DEF DataEffect, Drives, Contents
  <2>2. memory.state \in {"running", "cancelling"}
    BY <2>1 DEF Contents, BusyIsRunning
  <2>3. Good(memory')
    BY <1>2, <1>3, <2>2 DEF DataEffect, Good, Contents
  <2>4. AllGood'
    <3>1. \A s \in Known : Good(s)
      BY DEF Contents, AllGood
    <3>2. \A s \in Known' : Good(s)
      BY <1>3, <2>3, <3>1, WorkerKnown
    <3> QED
      BY <3>2 DEF AllGood, Good, Sound, Complete, Parts, Covered, Conflict
  <2>5. PrevIsSound'
    <3>1. \A i \in Shards : memory.subs[i] # Nothing => memory'.subs[i] # Nothing
      BY <1>3 DEF DataEffect
    <3> QED
      BY <1>1, <3>1 DEF Contents, PrevIsSound, Sound, UnfinishedShards
  <2>6. PrevComplete'
    BY <1>1, <2>1 DEF Contents, PrevComplete, Complete, Parts, Covered, Conflict
  <2>7. BusyIsRunning'
    <3>1. call # Nothing => call.pc \notin After
      BY <2>1 DEF Shape, CallShape, Drives
    <3> QED
      BY <1>1, <2>1, <2>2, <3>1 DEF BusyIsRunning, Drives, Driving
  <2>8. PreparedIsCovered'
    BY <1>1, <2>1 DEF PreparedIsCovered, Prepared, Covered, Conflict
  <2> QED
    BY <2>4, <2>5, <2>6, <2>7, <2>8 DEF Contents
<1>4. CASE QuietEffect(r)
  <2>1. memory' = memory /\ Moves(r)
    BY <1>4 DEF QuietEffect, QuietRest, review
  <2>2. AllGood'
    <3>1. \A s \in Known : Good(s)
      BY DEF Contents, AllGood
    <3>2. \A s \in Known' : Good(s)
      BY <1>2, <1>4, <2>1, <3>1, WorkerKnown
    <3> QED
      BY <3>2 DEF AllGood, Good, Sound, Complete, Parts, Covered, Conflict
  <2>3. PrevIsSound'
    BY <1>1, <2>1 DEF Contents, PrevIsSound, Sound, UnfinishedShards
  <2>4. \A q \in RunIds : Drives(q)' => Drives(q)
    <3> SUFFICES ASSUME NEW q \in RunIds, Drives(q)' PROVE Drives(q)
      OBVIOUS
    <3>1. CASE q # r
      BY <1>1, <3>1 DEF Drives
    <3>2. CASE q = r
      BY <1>1, <2>1, <3>2 DEF Drives, Moves, WorkerEnds, GoesOn, ClearsFlag, Driving
    <3> QED
      BY <3>1, <3>2
  <2>5. PrevComplete' /\ BusyIsRunning'
    BY <1>1, <2>1, <2>4
    DEF Contents, PrevComplete, BusyIsRunning, Complete, Parts, Covered, Conflict
  <2>6. PreparedIsCovered'
    <3> SUFFICES ASSUME NEW q \in RunIds, q = runID, workers'[q] # Nothing, Prepared(q)'
                 PROVE  Covered(memory)
      BY <1>1, <2>1 DEF PreparedIsCovered, Prepared, Covered, Conflict
    <3>1. CASE q # r
      <4>1. cancelled' \in {cancelled, cancelled \cup {r}, cancelled \ {r}}
        BY <2>1 DEF Moves, WorkerEnds, GoesOn, ClearsFlag
      <4> QED
        BY <1>1, <3>1, <4>1 DEF Contents, PreparedIsCovered, Prepared
    <3>2. CASE q = r
      BY <1>1, <2>1, <3>2 DEF Contents, PreparedIsCovered, Prepared, Moves, WorkerEnds, GoesOn, ClearsFlag
    <3> QED
      BY <3>1, <3>2
  <2> QED
    BY <2>2, <2>3, <2>5, <2>6 DEF Contents
<1> QED
  BY <1>3, <1>4

\* When no worker moves, only memory, the row, the copies of the call and of the
\* canceller can be new.
LEMMA OtherKnown ==
    ASSUME UNCHANGED workers, NEW s \in Known'
    PROVE  s \in Known \/ s \in {memory', saved', canceller'}
           \/ (call' # Nothing /\ s = call'.copy)
<1>1. s # Nothing
  BY DEF Known
<1>2. CASE \E q \in RunIds : workers'[q] # Nothing /\ s = workers'[q].copy
  BY <1>1, <1>2, KnownHere
<1> QED
  BY <1>1, <1>2 DEF Known, Snapshots

GoodPlaces ==
    /\ call # Nothing /\ call.copy # Nothing => Good(call.copy)
    /\ memory # Nothing => Good(memory)
    /\ saved # Nothing => Good(saved)
    /\ canceller # Nothing => Good(canceller)
LEMMA AllGoodAfter ==
    ASSUME Contents, UNCHANGED workers, GoodPlaces'
    PROVE  AllGood'
<1>1. \A s \in Known : Good(s)
  BY DEF Contents, AllGood
<1>2. \A s \in Known' : Good(s)
  <2> SUFFICES ASSUME NEW s \in Known' PROVE Good(s)
    OBVIOUS
  <2>1. s # Nothing
    BY DEF Known
  <2> QED
    BY <1>1, <2>1, OtherKnown DEF GoodPlaces, Good, Sound, Complete, Parts, Covered, Conflict
<1> QED
  BY <1>2 DEF AllGood, Good, Sound, Complete, Parts, Covered, Conflict

LEMMA GoodBefore == Contents => GoodPlaces
BY KnownHere DEF Contents, AllGood, GoodPlaces

\* Steps of a call that leave the review in memory alone.
LEMMA CallContents ==
    ASSUME Shape, Contents,
           \/ StartLooks \/ StartSaves \/ ResumeCopies \/ ResumeLooks
           \/ (\E i \in Shards : RetryLooks(i)) \/ InstalledSaves \/ CallRefused
    PROVE  Contents'
<1>1. UNCHANGED <<memory, canCancel, runID, workers, canceller, cancelled>>
  BY DEF StartLooks, StartSaves, ResumeCopies, ResumeLooks, RetryLooks, InstalledSaves,
         CallRefused, review
<1>2. /\ call' = Nothing \/ (call' \in Call /\ call' # Nothing)
      /\ call' # Nothing => call'.copy = Nothing \/ (call # Nothing /\ call'.copy = call.copy)
      /\ call' # Nothing => \/ call'.prev = Nothing
                            \/ /\ call # Nothing /\ call'.prev = call.prev
                               /\ call'.kind = call.kind /\ call'.shards = call.shards
                            \/ /\ call'.prev = memory /\ ~canCancel /\ call'.pc \notin After
                               /\ call'.shards = UnfinishedShards(memory)
                               /\ call.prev = Nothing \/ call = Nothing
      /\ call' # Nothing /\ call'.pc \in After => call # Nothing /\ call.pc \in After
      /\ saved' \in {saved, FreshReview} \/ (call # Nothing /\ call.copy # Nothing /\ saved' = call.copy)
  <2>1. CASE StartLooks \/ (\E i \in Shards : RetryLooks(i))
    <3>1. ASSUME StartLooks PROVE call' # Nothing /\ call' \in Call
      BY <3>1, CallingType DEF StartLooks, Before, After
    <3>2. ASSUME NEW i \in Shards, RetryLooks(i) PROVE call' # Nothing /\ call' \in Call
      BY <3>2, CallingType DEF RetryLooks, Before, After
    <3>3. call' # Nothing /\ call' \in Call
      BY <2>1, <3>1, <3>2
    <3> QED
      BY <2>1, <3>3 DEF StartLooks, RetryLooks, Calling, After
  <2>2. CASE ResumeCopies
    <3>1. memory \in Snapshot /\ UnfinishedShards(memory) \in SUBSET Shards
      BY <2>2 DEF ResumeCopies, Shape, TypeOK, UnfinishedShards
    <3>2. call' # Nothing /\ call' \in Call
      BY <2>2, <3>1, CallingType DEF ResumeCopies, Before, After
    <3> QED
      BY <2>2, <3>2 DEF ResumeCopies, Calling, After
  <2>3. CASE ResumeLooks \/ StartSaves
    <3>1. /\ call \in Call /\ call # Nothing
          /\ \E pc \in {"planned", "saved"} : call' = [call EXCEPT !.pc = pc]
          /\ saved' \in {saved, FreshReview}
      BY <2>3 DEF ResumeLooks, StartSaves, AtCall, Shape, TypeOK, Written
    <3>2. call' \in Call /\ call'.copy = call.copy /\ call'.prev = call.prev
          /\ call'.kind = call.kind /\ call'.shards = call.shards
          /\ call'.pc \in {"planned", "saved"}
      BY <3>1 DEF Call
    <3> QED
      BY <3>1, <3>2, NothingAssumption DEF After
  <2>4. CASE InstalledSaves
    <3>1. /\ call \in Call /\ call # Nothing /\ call.pc = "saving" /\ call.copy # Nothing
          /\ call' = [call EXCEPT !.pc = "installed", !.prev = Nothing, !.copy = Nothing]
          /\ saved' = call.copy
      BY <2>4 DEF InstalledSaves, AtCall, Shape, TypeOK, Written, CallShape
    <3>2. call' \in Call /\ call'.copy = Nothing /\ call'.prev = Nothing
      BY <3>1 DEF Call
    <3> QED
      BY <3>1, <3>2, NothingAssumption DEF After
  <2>5. CASE CallRefused
    BY <2>5 DEF CallRefused
  <2> QED
    BY <2>1, <2>2, <2>3, <2>4, <2>5
<1>3. GoodPlaces
  BY GoodBefore
<1>4. Good(FreshReview)
  BY FreshType DEF Good, Sound, Complete
<1>5. AllGood'
  <2>1. saved' # Nothing => Good(saved')
    BY <1>2, <1>3, <1>4 DEF GoodPlaces
  <2>2. call' # Nothing /\ call'.copy # Nothing => Good(call'.copy)
    BY <1>2, <1>3 DEF GoodPlaces
  <2>3. GoodPlaces'
    BY <1>1, <1>3, <2>1, <2>2
    DEF GoodPlaces, Good, Sound, Complete, Parts, Covered, Conflict
  <2> QED
    BY <1>1, <2>3, AllGoodAfter
<1>6. PrevIsSound'
  BY <1>1, <1>2, <1>3 DEF Contents, PrevIsSound, GoodPlaces, Good, Sound, UnfinishedShards
<1>7. \A q \in RunIds : Drives(q)' <=> Drives(q)
  BY <1>1 DEF Drives
<1>8. PrevComplete'
  <2>1. ASSUME memory # Nothing, memory.state = "complete", NEW q \in RunIds
        PROVE  ~Drives(q)
    BY <2>1 DEF Contents, BusyIsRunning
  <2> QED
    BY <1>1, <1>2, <1>3, <1>7, <2>1
    DEF Contents, PrevComplete, GoodPlaces, Good, Complete, Parts, Covered, Conflict
<1>9. BusyIsRunning'
  BY <1>1, <1>2, <1>7 DEF Contents, BusyIsRunning
<1>10. PreparedIsCovered'
  BY <1>1 DEF Contents, PreparedIsCovered, Prepared, Covered, Conflict
<1> QED
  BY <1>5, <1>6, <1>8, <1>9, <1>10 DEF Contents

LEMMA InstallsContents ==
    ASSUME Shape, Contents, StartInstalls \/ Installs
    PROVE  Contents'
<1>1. /\ memory' \in Snapshot /\ runID' \in RunIds /\ workers'[runID'] = Nothing
      /\ call \in Call /\ call # Nothing /\ call' \in Call /\ call' # Nothing /\ call'.pc \in After
      /\ UNCHANGED <<workers, canceller, saved, cancelled>>
  BY InstallsShape, NothingAssumption DEF StartInstalls, Installs, AtCall, Shape, TypeOK
<1>2. GoodPlaces
  BY GoodBefore
<1>3. CASE StartInstalls
  <2>1. /\ memory' = FreshReview /\ call' = [call EXCEPT !.pc = "installed"]
        /\ call.prev = Nothing
    BY <1>1, <1>3 DEF StartInstalls, AtCall, Shape, CallShape
  <2>2. call'.prev = Nothing /\ call'.copy = call.copy
    BY <1>1, <2>1 DEF Call
  <2>3. Good(memory') /\ memory'.state = "running"
    BY <2>1, FreshType DEF Good, Sound, Complete
  <2>4. GoodPlaces'
    BY <1>1, <1>2, <2>2, <2>3 DEF GoodPlaces, Good, Sound, Complete, Parts, Covered, Conflict
  <2>5. AllGood'
    BY <1>1, <2>4, AllGoodAfter
  <2>6. PrevIsSound' /\ PrevComplete'
    BY <2>2 DEF PrevIsSound, PrevComplete
  <2>7. BusyIsRunning' /\ PreparedIsCovered'
    BY <1>1, <2>3 DEF BusyIsRunning, PreparedIsCovered, Drives
  <2> QED
    BY <2>5, <2>6, <2>7 DEF Contents
<1>4. CASE Installs
  <2>1. memory \in Snapshot /\ memory # Nothing /\ Good(memory)
    BY <1>1, <1>2, <1>4, NothingAssumption
    DEF Installs, AtCall, Shape, TypeOK, CallShape, GoodPlaces
  <2> DEFINE m == Requeued(memory)
  <2>2. /\ m \in Snapshot /\ m.state = "running" /\ m.subs = memory.subs
        /\ \A i \in Shards : m.shards[i] = IF i \in call.shards THEN "pending" ELSE memory.shards[i]
    BY <2>1, RequeuedType
  <2>3. memory' = m
    BY <1>4 DEF Installs
  <2>4. Good(m)
    BY <2>1, <2>2 DEF Good, Sound, Complete
  <2>5. /\ call'.copy # Nothing => Good(call'.copy)
        /\ call'.prev # Nothing =>
              /\ Sound(call'.prev) /\ Complete(call'.prev)
              /\ \A i \in Shards : call'.prev.shards[i] = "done" => memory.subs[i] # Nothing
              /\ call'.kind = "resume" => call'.shards = UnfinishedShards(call'.prev)
              /\ call'.prev.state = "complete" => memory.subs = call'.prev.subs
    <3>1. CASE call.kind = "resume"
      <4> DEFINE copy == [m EXCEPT !.subs = call.prev.subs]
      <4>1. call.prev \in Snapshot /\ call.prev # Nothing
        BY <1>1, <1>4, <3>1 DEF Shape, CallShape, Call, Installs, AtCall
      <4>2. /\ copy \in Snapshot /\ copy.state = "running" /\ copy.shards = m.shards
            /\ copy.subs = call.prev.subs
        BY <2>2, <4>1, SubsSet
      <4>3. call' = [call EXCEPT !.pc = "saving", !.copy = copy]
        BY <1>4, <3>1 DEF Installs
      <4> HIDE DEF copy, m
      <4>4. call'.copy = copy /\ call'.prev = call.prev /\ call'.kind = call.kind
            /\ call'.shards = call.shards
        BY <1>1, <4>3 DEF Call
      <4>5. /\ Sound(call.prev) /\ Complete(call.prev)
            /\ \A i \in Shards : call.prev.shards[i] = "done" => memory.subs[i] # Nothing
            /\ call.shards = UnfinishedShards(call.prev)
            /\ call.prev.state = "complete" => memory.subs = call.prev.subs
        BY <1>1, <3>1, <4>1 DEF Contents, PrevIsSound, PrevComplete
      <4>6. Good(copy)
        BY <2>2, <4>2, <4>5 DEF Good, Sound, Complete, UnfinishedShards
      <4> QED
        BY <4>4, <4>5, <4>6
    <3>2. CASE call.kind # "resume"
      <4>1. call' = [call EXCEPT !.pc = "saving", !.prev = memory, !.copy = m]
        BY <1>4, <3>2 DEF Installs
      <4> HIDE DEF m
      <4>2. call'.copy = m /\ call'.prev = memory /\ call'.kind = call.kind
        BY <1>1, <4>1 DEF Call
      <4> QED
        BY <2>1, <2>4, <3>2, <4>2 DEF Good, Sound
    <3> QED
      BY <3>1, <3>2
  <2> HIDE DEF m
  <2>6. GoodPlaces'
    BY <1>1, <1>2, <2>3, <2>4, <2>5 DEF GoodPlaces, Good, Sound, Complete, Parts, Covered, Conflict
  <2>7. AllGood'
    BY <1>1, <2>6, AllGoodAfter
  <2>8. PrevIsSound'
    BY <2>2, <2>3, <2>5 DEF PrevIsSound, Sound, UnfinishedShards
  <2>9. PrevComplete'
    BY <1>1, <2>2, <2>3, <2>5 DEF PrevComplete, Complete, Parts, Covered, Conflict, Drives
  <2>10. BusyIsRunning' /\ PreparedIsCovered'
    BY <1>1, <2>2, <2>3 DEF BusyIsRunning, PreparedIsCovered, Drives
  <2> QED
    BY <2>7, <2>8, <2>9, <2>10 DEF Contents
<1> QED
  BY <1>3, <1>4

LEMMA RollsBackContents ==
    ASSUME Shape, Contents, RollsBack
    PROVE  Contents'
<1>1. /\ call \in Call /\ call # Nothing /\ call.prev \in Snapshot /\ call.prev # Nothing
      /\ memory \in Snapshot /\ runID \in RunIds /\ workers[runID] = Nothing
  BY DEF RollsBack, AtCall, Shape, TypeOK, CallShape, After, Call
<1>2. /\ memory' \in Snapshot /\ memory'.state = call.prev.state /\ memory'.shards = call.prev.shards
      /\ memory'.subs = memory.subs /\ memory'.checks = call.prev.checks
  BY <1>1, SubsSet DEF RollsBack
<1>3. UNCHANGED <<runID, workers, canceller, saved>> /\ call' = Nothing
  BY DEF RollsBack
<1>4. /\ \A i \in Shards : call.prev.shards[i] = "done" => memory.subs[i] # Nothing
      /\ Complete(call.prev)
      /\ call.prev.state = "complete" => memory.subs = call.prev.subs
  BY <1>1 DEF Contents, PrevIsSound, PrevComplete
<1>5. Good(memory')
  BY <1>2, <1>4 DEF Good, Sound, Complete, Parts, Covered
<1>6. GoodPlaces'
  BY <1>3, <1>5, GoodBefore DEF GoodPlaces, Good, Sound, Complete, Parts, Covered, Conflict
<1>7. AllGood'
  BY <1>3, <1>6, AllGoodAfter
<1>8. PrevIsSound' /\ PrevComplete'
  BY <1>3 DEF PrevIsSound, PrevComplete
<1>9. BusyIsRunning' /\ PreparedIsCovered'
  BY <1>1, <1>3 DEF BusyIsRunning, PreparedIsCovered, Drives
<1> QED
  BY <1>7, <1>8, <1>9 DEF Contents

LEMMA LaunchesContents ==
    ASSUME Shape, Contents, Launches
    PROVE  Contents'
<1> DEFINE n == NewWorker(call.shards)
<1>1. /\ runID \in RunIds /\ workers' = [workers EXCEPT ![runID] = n] /\ workers'[runID] = n
      /\ n.pc = "begin" /\ n.copy = Nothing
  BY LaunchesShape DEF NewWorker
<1> HIDE DEF n
<1>2. /\ UNCHANGED <<memory, runID, canceller, saved, cancelled>> /\ call' = Nothing
      /\ call # Nothing /\ call.pc \in After
  BY DEF Launches, review, AtCall, After
<1>3. \A q \in RunIds : q # runID => workers'[q] = workers[q]
  BY <1>1 DEF Shape, TypeOK
<1>4. AllGood'
  <2>1. \A s \in Known : Good(s)
    BY DEF Contents, AllGood
  <2>2. \A s \in Known' : s \in Known
    BY <1>1, <1>2, <1>3 DEF Known, Snapshots
  <2> QED
    BY <2>1, <2>2 DEF AllGood, Good, Sound, Complete, Parts, Covered, Conflict
<1>5. PrevIsSound' /\ PrevComplete'
  BY <1>2 DEF PrevIsSound, PrevComplete
<1>6. BusyIsRunning'
  BY <1>2 DEF Contents, BusyIsRunning
<1>7. PreparedIsCovered'
  BY <1>1, <1>2 DEF PreparedIsCovered, Prepared
<1> QED
  BY <1>4, <1>5, <1>6, <1>7 DEF Contents

LEMMA CancelContents ==
    ASSUME Shape, Contents, Cancel
    PROVE  Contents'
<1>1. /\ memory' \in Snapshot /\ memory'.state = "cancelling" /\ memory'.shards = memory.shards
      /\ memory'.subs = memory.subs /\ memory'.checks = memory.checks /\ memory \in Snapshot
  BY CancelShape
<1>2. /\ UNCHANGED <<runID, workers, call, saved>> /\ canceller' = memory'
      /\ cancelled' = cancelled \cup {runID}
  BY DEF Cancel
<1>3. GoodPlaces /\ Good(memory)
  BY <1>1, GoodBefore, NothingAssumption DEF GoodPlaces
<1>4. Good(memory')
  BY <1>1, <1>3 DEF Good, Sound, Complete
<1>5. GoodPlaces'
  BY <1>2, <1>3, <1>4 DEF GoodPlaces, Good, Sound, Complete, Parts, Covered, Conflict
<1>6. AllGood'
  BY <1>2, <1>5, AllGoodAfter
<1>7. PrevIsSound'
  BY <1>1, <1>2 DEF Contents, PrevIsSound, Sound, UnfinishedShards
<1>8. PrevComplete'
  BY <1>1, <1>2 DEF Contents, PrevComplete, Complete, Parts, Covered, Conflict, Drives
<1>9. BusyIsRunning'
  BY <1>1, <1>2 DEF BusyIsRunning
<1>10. PreparedIsCovered'
  BY <1>1, <1>2 DEF Contents, PreparedIsCovered, Prepared, Covered, Conflict
<1> QED
  BY <1>6, <1>7, <1>8, <1>9, <1>10 DEF Contents

LEMMA RestoreContents ==
    ASSUME Shape, Contents, Restore
    PROVE  Contents'
<1>1. /\ saved \in Snapshot /\ saved # Nothing /\ memory' = Restored(saved)
      /\ \A r \in RunIds : workers[r] = Nothing
      /\ call # Nothing => call.pc \in Before /\ call.prev = Nothing
      /\ Restorable(saved)
  BY RestoreShape DEF Restore
<1>2. UNCHANGED <<workers, call, canceller>> /\ saved' \in {saved, memory'}
  BY DEF Restore, Written
<1>3. GoodPlaces /\ Good(saved)
  BY <1>1, GoodBefore DEF GoodPlaces
<1>4. Good(memory')
  BY <1>1, <1>3, RestoredType DEF Good
<1>5. GoodPlaces'
  BY <1>2, <1>3, <1>4 DEF GoodPlaces, Good, Sound, Complete, Parts, Covered, Conflict
<1>6. AllGood'
  BY <1>2, <1>5, AllGoodAfter
<1>7. PrevIsSound' /\ PrevComplete' /\ BusyIsRunning' /\ PreparedIsCovered'
  BY <1>1, <1>2
  DEF PrevIsSound, PrevComplete, BusyIsRunning, PreparedIsCovered, Drives, Before, After
<1> QED
  BY <1>6, <1>7 DEF Contents

LEMMA OtherContents ==
    ASSUME Shape, Contents,
           CancelSaves \/ AgentStarts \/ AgentEnds \/ StopAgent \/ UNCHANGED vars
    PROVE  Contents'
<1>1. /\ UNCHANGED <<memory, runID, workers, call>> /\ cancelled \subseteq cancelled'
      /\ canceller' \in {canceller, Nothing}
      /\ saved' = saved \/ (canceller # Nothing /\ saved' = canceller)
  BY DEF CancelSaves, AgentStarts, AgentEnds, StopAgent, vars, Written, review, app
<1>2. GoodPlaces'
  BY <1>1, GoodBefore DEF GoodPlaces, Good, Sound, Complete, Parts, Covered, Conflict
<1>3. AllGood'
  BY <1>1, <1>2, AllGoodAfter
<1>4. PrevIsSound'
  BY <1>1 DEF Contents, PrevIsSound, Sound, UnfinishedShards
<1>5. PrevComplete' /\ BusyIsRunning'
  BY <1>1 DEF Contents, PrevComplete, BusyIsRunning, Complete, Parts, Covered, Conflict, Drives
<1>6. PreparedIsCovered'
  BY <1>1 DEF Contents, PreparedIsCovered, Prepared, Covered, Conflict
<1> QED
  BY <1>3, <1>4, <1>5, <1>6 DEF Contents

LEMMA CrashContents ==
    ASSUME Shape, Contents, Crash
    PROVE  Contents'
<1>1. /\ memory' = Nothing /\ call' = Nothing /\ canceller' = Nothing /\ saved' = saved
      /\ \A r \in RunIds : workers'[r] = Nothing
  BY DEF Crash
<1>2. AllGood'
  <2>1. \A s \in Known' : s \in Known
    BY <1>1, KnownHere DEF Known, Snapshots
  <2>2. \A s \in Known : Good(s)
    BY DEF Contents, AllGood
  <2> QED
    BY <2>1, <2>2 DEF AllGood, Good, Sound, Complete, Parts, Covered, Conflict
<1>3. PrevIsSound' /\ PrevComplete' /\ BusyIsRunning' /\ PreparedIsCovered'
  BY <1>1 DEF PrevIsSound, PrevComplete, BusyIsRunning, PreparedIsCovered, Drives
<1> QED
  BY <1>2, <1>3 DEF Contents

LEMMA ContentsInit == Init => Contents
<1> SUFFICES ASSUME Init PROVE Contents
  OBVIOUS
<1>1. Known = {}
  BY DEF Init, Known, Snapshots
<1> QED
  BY <1>1
  DEF Init, Contents, AllGood, PrevIsSound, PrevComplete, BusyIsRunning, PreparedIsCovered, Drives

LEMMA ContentsStep == Shape /\ Contents /\ [Next]_vars => Contents'
<1> SUFFICES ASSUME Shape, Contents, [Next]_vars PROVE Contents'
  OBVIOUS
<1>1. CASE CallStep
  BY <1>1, CallContents, InstallsContents, RollsBackContents, LaunchesContents DEF CallStep
<1>2. CASE \E r \in RunIds : WorkerStep(r)
  BY <1>2, WorkerEffect, WorkerContents
<1>3. CASE Cancel
  BY <1>3, CancelContents
<1>4. CASE Restore
  BY <1>4, RestoreContents
<1>5. CASE Crash
  BY <1>5, CrashContents
<1>6. CASE CancelSaves \/ AgentStarts \/ AgentEnds \/ StopAgent \/ UNCHANGED vars
  BY <1>6, OtherContents
<1> QED
  BY <1>1, <1>2, <1>3, <1>4, <1>5, <1>6 DEF Next

\* No copy of a review, in memory, in the database or on its way there, calls a
\* shard done whose findings it does not have.
THEOREM DoneSubmitted == Spec => []DoneIsSubmitted
<1>1. Contents => DoneIsSubmitted
  BY DEF Contents, AllGood, Good, Sound, DoneIsSubmitted
<1> QED
  BY <1>1, ShapeInit, ShapeStep, ContentsInit, ContentsStep, PTL DEF Spec

\* No copy of a review says complete with a part that waits, runs, failed or was
\* cancelled.
THEOREM CompleteAll == Spec => []CompleteIsAll
<1>1. Contents => CompleteIsAll
  BY DEF Contents, AllGood, Good, Complete, CompleteIsAll
<1> QED
  BY <1>1, ShapeInit, ShapeStep, ContentsInit, ContentsStep, PTL DEF Spec
=============================================================================
