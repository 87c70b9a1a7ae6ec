-------------------------- MODULE ChannelQueueProofs --------------------------
(***************************************************************************)
(* Theorems about ChannelQueue, for any messages, callers and bounds.      *)
(***************************************************************************)
EXTENDS ChannelQueue, SequenceTheorems, TLAPS

LEMMA SetStatusRows ==
    ASSUME NEW rows \in Seq(Rows), NEW i, NEW status \in Statuses
    PROVE  /\ SetStatus(rows, i, status) \in Seq(Rows)
           /\ DOMAIN SetStatus(rows, i, status) = DOMAIN rows
           /\ \A j \in DOMAIN rows :
                 /\ SetStatus(rows, i, status)[j].message = rows[j].message
                 /\ SetStatus(rows, i, status)[j].status =
                      IF j = i THEN status ELSE rows[j].status
  <1> DEFINE new == SetStatus(rows, i, status)
  <1>1. \A j \in 1..Len(rows) : rows[j] \in Rows
    OBVIOUS
  <1>2. /\ DOMAIN new = 1..Len(rows)
        /\ \A j \in 1..Len(rows) :
              new[j] = IF j = i THEN [rows[j] EXCEPT !.status = status] ELSE rows[j]
    BY DEF SetStatus
  <1>3. new = [j \in 1..Len(rows) |-> new[j]]
    BY <1>2 DEF SetStatus
  <1>4. \A j \in 1..Len(rows) :
           /\ new[j] \in Rows
           /\ new[j].message = rows[j].message
           /\ new[j].status = IF j = i THEN status ELSE rows[j].status
    BY <1>1, <1>2 DEF Rows
  <1>5. new \in Seq(Rows)
    <2> HIDE DEF new
    <2> QED
      BY <1>3, <1>4
  <1> QED
    BY <1>2, <1>4, <1>5

LEMMA AppendRow ==
    ASSUME NEW rows \in Seq(Rows), NEW row \in Rows
    PROVE  /\ Append(rows, row) \in Seq(Rows)
           /\ DOMAIN Append(rows, row) = DOMAIN rows \cup {Len(rows) + 1}
           /\ Len(rows) + 1 \notin DOMAIN rows /\ Len(rows) + 1 # NoItem
           /\ \A j \in DOMAIN rows : Append(rows, row)[j] = rows[j]
           /\ Append(rows, row)[Len(rows) + 1] = row
  BY DEF NoItem

LEMMA CancelRows ==
    ASSUME TypeOK, CancelActive
    PROVE  /\ items' \in Seq(Rows)
           /\ DOMAIN items' = DOMAIN items
           /\ \A j \in DOMAIN items : /\ items'[j].message = items[j].message
                                      /\ items'[j].status # "queued"
  <1>1. \A j \in 1..Len(items) : items[j] \in Rows
    BY DEF TypeOK
  <1>2. items' = [i \in 1..Len(items) |->
                    IF items[i].status \in {"queued", "dispatching"}
                    THEN [items[i] EXCEPT !.status = "cancelled"] ELSE items[i]]
    BY DEF CancelActive, TypeOK
  <1>3. /\ DOMAIN items' = 1..Len(items)
        /\ \A j \in 1..Len(items) :
              /\ items'[j] \in Rows
              /\ items'[j].message = items[j].message
              /\ items'[j].status # "queued"
    BY <1>1, <1>2 DEF Rows, Statuses
  <1> QED
    BY <1>2, <1>3 DEF TypeOK

-----------------------------------------------------------------------------
LEMMA TypesInit == Init => TypeOK
  <1> SUFFICES ASSUME Init
               PROVE  TypeOK
    OBVIOUS
  <1>1. /\ up \in BOOLEAN /\ agentRunning \in BOOLEAN
        /\ channelDrainRunning \in BOOLEAN
        /\ arrived \in SUBSET Messages /\ accepted \in SUBSET Messages
    BY Zenon DEF Init
  <1>2. /\ crashes \in 0..MaxCrashes /\ finishing \in Nat /\ ownRuns \in 0..MaxOwnRuns
        /\ items \in Seq(Rows)
        /\ effects \in [Messages -> Nat]
    BY BoundsAssumption DEF Init
  <1>3. /\ pc \in [Workers -> {"idle", "look", "act", "enqueue", "queued", "started",
                               "answered", "top", "pop", "marked", "leaving"}]
        /\ holding \in [Workers -> Messages \cup {NoMessage}]
        /\ item \in [Workers -> DOMAIN items \cup {NoItem}]
    BY DEF Init
  <1> QED
    BY <1>1, <1>2, <1>3 DEF TypeOK

\* A worker between taking a message and acting on it or queueing it.
Pending(w) == pc[w] \in {"look", "act", "enqueue"}
Holds(w) == Pending(w) \/ pc[w] \in {"queued", "started", "answered"}
InHand == \A w \in Workers : Holds(w) => holding[w] \in Messages

LEMMA RowsHold ==
    ASSUME TypeOK, NEW i \in DOMAIN items
    PROVE  items[i] \in Rows /\ items[i].message \in Messages
  <1>1. items \in Seq(Rows)
    BY DEF TypeOK
  <1>2. items[i] \in Rows
    BY <1>1
  <1> QED
    BY <1>2 DEF Rows

LEMMA HandlesTypes ==
    ASSUME TypeOK, InHand, NEW w \in Workers, Handles(w)
    PROVE  TypeOK'
  <1> USE DEF InHand, Holds, Pending
  <1>1. CASE Look(w)
    BY <1>1 DEF TypeOK, Look, Goes, tableVars, runVars, messageVars, appVars
  <1>2. CASE StartWork(w)
    BY <1>2 DEF TypeOK, StartWork, Acts, tableVars, appVars
  <1>3. CASE ActOn(w)
    BY <1>3 DEF TypeOK, ActOn, Goes, Acts, tableVars, runVars, appVars
  <1>4. CASE Enqueue(w)
    <2> DEFINE row == [message |-> holding[w], status |-> "queued"]
    <2>1. row \in Rows /\ items \in Seq(Rows) /\ items' = Append(items, row)
      BY <1>4 DEF TypeOK, Enqueue, Goes, Rows, Statuses
    <2>2. items' \in Seq(Rows) /\ DOMAIN items \subseteq DOMAIN items'
      BY <2>1, AppendRow
    <2> QED
      BY <1>4, <2>2 DEF TypeOK, Enqueue, Goes, runVars, messageVars, appVars
  <1> QED
    BY <1>1, <1>2, <1>3, <1>4 DEF Handles

LEMMA DrainTypes ==
    ASSUME TypeOK, NEW d \in Drainers, DrainProceeds(d), ~Handles(d)
    PROVE  TypeOK'
  <1> d \in Workers
    BY DEF Workers
  <1>1. CASE DrainLooks(d)
    BY <1>1 DEF TypeOK, DrainLooks, Goes, tableVars, runVars, messageVars, appVars
  <1>2. CASE DrainPops(d)
    <2>1. PICK i \in Queued :
             /\ items' = SetStatus(items, i, "dispatching")
             /\ item' = [item EXCEPT ![d] = i]
             /\ holding' = [holding EXCEPT ![d] = items[i].message]
             /\ pc' = [pc EXCEPT ![d] = IF LaneOf[items[i].message] \in {"chat", "note"}
                                        THEN "act" ELSE "look"]
      BY <1>2 DEF DrainPops, Popped
    <2>2. items' \in Seq(Rows) /\ DOMAIN items' = DOMAIN items
      BY <2>1, SetStatusRows DEF TypeOK, Statuses
    <2>3. i \in DOMAIN items /\ items[i].message \in Messages
      BY RowsHold DEF Queued
    <2>4. /\ holding' \in [Workers -> Messages \cup {NoMessage}]
          /\ item' \in [Workers -> DOMAIN items' \cup {NoItem}]
      BY <2>1, <2>2, <2>3 DEF TypeOK
    <2>5. pc' \in [Workers -> {"idle", "look", "act", "enqueue", "queued", "started",
                               "answered", "top", "pop", "marked", "leaving"}]
      BY <2>1 DEF TypeOK
    <2> QED
      BY <1>2, <2>2, <2>4, <2>5 DEF TypeOK, DrainPops, runVars, messageVars, appVars
  <1>3. CASE DrainFindsNothing(d)
    BY <1>3 DEF TypeOK, DrainFindsNothing, Goes, tableVars, runVars, messageVars, appVars
  <1>4. CASE DrainMarks(d)
    <2>1. items' \in Seq(Rows) /\ DOMAIN items' = DOMAIN items
      BY <1>4, SetStatusRows DEF TypeOK, DrainMarks, Statuses
    <2> QED
      BY <1>4, <2>1 DEF TypeOK, DrainMarks, runVars, messageVars, appVars
  <1>5. CASE DrainGoesOn(d)
    BY <1>5 DEF TypeOK, DrainGoesOn, Goes, tableVars, runVars, messageVars, appVars
  <1>6. CASE DrainEnds(d)
    BY <1>6 DEF TypeOK, DrainEnds, Goes, tableVars, runVars, messageVars
  <1> QED
    BY <1>1, <1>2, <1>3, <1>4, <1>5, <1>6 DEF DrainProceeds

LEMMA OtherTypes ==
    ASSUME TypeOK, InHand,
           \/ \E c \in Callers : Respond(c) \/ \E m \in Messages : Arrive(c, m)
           \/ RunProceeds \/ UserStartsRun \/ CancelActive \/ Crash \/ Restart
    PROVE  TypeOK'
  <1> USE BoundsAssumption DEF Workers
  <1>1. ASSUME NEW c \in Callers, Respond(c)
        PROVE  TypeOK'
    BY <1>1 DEF TypeOK, InHand, Holds, Respond, tableVars, runVars, appVars
  <1>2. ASSUME NEW c \in Callers, NEW m \in Messages, Arrive(c, m)
        PROVE  TypeOK'
    BY <1>2 DEF TypeOK, Arrive, Goes, tableVars, runVars, appVars
  <1>3. CASE RunFinishes
    <2>1. agentRunning' \in BOOLEAN
      BY <1>3, Zenon DEF RunFinishes
    <2>2. finishing' \in Nat
      BY <1>3 DEF TypeOK, RunFinishes
    <2> QED
      BY <1>3, <2>1, <2>2 DEF TypeOK, RunFinishes, tableVars, workerVars, messageVars,
                              appVars
  <1>4. CASE DrainUnderWay
    BY <1>4 DEF TypeOK, DrainUnderWay, tableVars, workerVars, messageVars, appVars
  <1>5. ASSUME NEW d \in Drainers, DrainStarts(d)
        PROVE  TypeOK'
    BY <1>5 DEF TypeOK, DrainStarts, Goes, tableVars, messageVars
  <1>6. CASE UserStartsRun
    BY <1>6 DEF TypeOK, UserStartsRun, tableVars, workerVars, messageVars, appVars
  <1>7. CASE CancelActive
    BY <1>7, CancelRows DEF TypeOK, CancelActive, runVars, workerVars, messageVars, appVars
  <1>8. CASE Crash
    <2>1. /\ up' \in BOOLEAN /\ agentRunning' \in BOOLEAN
          /\ channelDrainRunning' \in BOOLEAN
      BY <1>8, Zenon DEF Crash
    <2>2. /\ crashes' \in 0..MaxCrashes /\ finishing' \in Nat
          /\ UNCHANGED <<items, arrived, accepted, effects, ownRuns>>
      BY <1>8 DEF TypeOK, Crash, tableVars, messageVars
    <2>3. /\ pc' \in [Workers -> {"idle", "look", "act", "enqueue", "queued", "started",
                                  "answered", "top", "pop", "marked", "leaving"}]
          /\ holding' \in [Workers -> Messages \cup {NoMessage}]
          /\ item' \in [Workers -> DOMAIN items' \cup {NoItem}]
      BY <1>8 DEF Crash
    <2> QED
      BY <2>1, <2>2, <2>3 DEF TypeOK
  <1>9. CASE Restart
    BY <1>9 DEF TypeOK, Restart, tableVars, runVars, workerVars, messageVars
  <1> QED
    BY <1>1, <1>2, <1>3, <1>4, <1>5, <1>6, <1>7, <1>8, <1>9 DEF RunProceeds

LEMMA NextTypes ==
    ASSUME TypeOK, InHand, [Next]_vars
    PROVE  TypeOK'
  <1>1. CASE UNCHANGED vars
    BY <1>1 DEF TypeOK, vars, tableVars, runVars, workerVars, messageVars, appVars
  <1>2. ASSUME NEW c \in Callers, CallerProceeds(c)
        PROVE  TypeOK'
    BY <1>2, HandlesTypes, OtherTypes DEF CallerProceeds, Workers
  <1>3. ASSUME NEW d \in Drainers, DrainProceeds(d)
        PROVE  TypeOK'
    BY <1>3, HandlesTypes, DrainTypes DEF Workers
  <1> QED
    BY <1>1, <1>2, <1>3, OtherTypes DEF Next

-----------------------------------------------------------------------------
\* What concerns the messages: how they get into a worker's hands, from there
\* into the table or into effect, and back out of the table.
Moves ==
    \/ \E c \in Callers, m \in Messages : Arrive(c, m)
    \/ \E w \in Workers : StartWork(w) \/ ActOn(w) \/ Enqueue(w)
    \/ \E d \in Drainers : DrainPops(d)

\* Every other step leaves them where they are, or lets go of them.
Quiet ==
    /\ \A w \in Workers : Pending(w)' => Pending(w)
    /\ \A w \in Workers : Holds(w)' => Holds(w) /\ holding'[w] = holding[w]
    /\ Queued' \subseteq Queued
    /\ \A i \in Queued' : items'[i].message = items[i].message
    /\ UNCHANGED <<arrived, effects>>

LEMMA QuietSteps ==
    ASSUME TypeOK, [Next]_vars, ~Moves
    PROVE  Quiet
  <1> USE DEF Pending, Holds, Quiet
  <1>1. CASE UNCHANGED vars
    BY <1>1 DEF vars, tableVars, workerVars, messageVars, Queued
  <1>2. ASSUME NEW w \in Workers, Look(w)
        PROVE  Quiet
    BY <1>2 DEF TypeOK, Look, Goes, tableVars, messageVars, Queued
  <1>3. ASSUME NEW c \in Callers, Respond(c)
        PROVE  Quiet
    BY <1>3 DEF TypeOK, Respond, Workers, tableVars, Queued
  <1>4. ASSUME NEW d \in Drainers, DrainLooks(d) \/ DrainFindsNothing(d) \/ DrainGoesOn(d)
        PROVE  Quiet
    BY <1>4 DEF TypeOK, DrainLooks, DrainFindsNothing, DrainGoesOn, Goes, Workers,
                tableVars, messageVars, Queued
  <1>5. ASSUME NEW d \in Drainers, DrainMarks(d)
        PROVE  Quiet
    <2>1. PICK status \in {"requeued", "done"} :
             items' = SetStatus(items, item[d], status)
      BY <1>5 DEF DrainMarks
    <2>2. /\ DOMAIN items' = DOMAIN items
          /\ \A j \in DOMAIN items :
                /\ items'[j].message = items[j].message
                /\ items'[j].status = "queued" => items[j].status = "queued"
      BY <2>1, SetStatusRows DEF TypeOK, Statuses
    <2>3. Queued' \subseteq Queued /\ \A i \in Queued' : items'[i].message = items[i].message
      BY <2>2 DEF Queued
    <2> QED
      BY <1>5, <2>3 DEF TypeOK, DrainMarks, Workers, messageVars
  <1>6. ASSUME NEW d \in Drainers, DrainEnds(d) \/ DrainStarts(d)
        PROVE  Quiet
    BY <1>6 DEF TypeOK, DrainEnds, DrainStarts, Goes, Workers, tableVars, messageVars,
                Queued
  <1>7. CASE RunFinishes \/ DrainUnderWay \/ UserStartsRun \/ Restart
    BY <1>7 DEF RunFinishes, DrainUnderWay, UserStartsRun, Restart, tableVars,
                workerVars, messageVars, Queued
  <1>8. CASE CancelActive
    BY <1>8, CancelRows DEF CancelActive, workerVars, messageVars, Queued
  <1>9. CASE Crash
    BY <1>9 DEF Crash, tableVars, messageVars, Queued
  <1> QED
    BY <1>1, <1>2, <1>3, <1>4, <1>5, <1>6, <1>7, <1>8, <1>9
       DEF Next, Moves, CallerProceeds, DrainProceeds, RunProceeds, Handles, Workers

\* A message not acted on yet is in one place: one worker's hands or one
\* queued row; one acted on is in none.
HandsFresh == \A w \in Workers : Pending(w) =>
    holding[w] \in arrived /\ effects[holding[w]] = 0
RowsFresh == \A i \in Queued : items[i].message \in arrived /\ effects[items[i].message] = 0
HandsApart == \A w, v \in Workers :
    Pending(w) /\ Pending(v) /\ holding[w] = holding[v] => w = v
RowsApart == \A i, j \in Queued : items[i].message = items[j].message => i = j
HandsOffRows == \A w \in Workers, i \in Queued :
    Pending(w) => holding[w] # items[i].message
Counted == \A m \in Messages : effects[m] <= 1 /\ (m \notin arrived => effects[m] = 0)
Once == /\ HandsFresh /\ RowsFresh /\ HandsApart /\ RowsApart /\ HandsOffRows
        /\ Counted
OnceInv == TypeOK /\ InHand /\ Once

LEMMA OnceInit == Init => OnceInv
  <1> SUFFICES ASSUME Init
               PROVE  InHand /\ Once
    BY TypesInit DEF OnceInv
  <1>1. Queued = {} /\ \A w \in Workers : ~Pending(w) /\ ~Holds(w)
    BY DEF Init, Queued, Pending, Holds
  <1>2. \A m \in Messages : effects[m] = 0
    BY DEF Init
  <1> QED
    BY <1>1, <1>2 DEF InHand, Once, HandsFresh, RowsFresh, HandsApart, RowsApart,
                      HandsOffRows, Counted

LEMMA QuietKeeps ==
    ASSUME OnceInv, Quiet
    PROVE  (InHand /\ Once)'
  <1>1. InHand'
    BY DEF OnceInv, InHand, Quiet
  <1>2. \A w \in Workers : Pending(w)' => Pending(w) /\ holding'[w] = holding[w]
    BY DEF Quiet, Holds
  <1>3. Once'
    BY <1>2 DEF OnceInv, Once, Quiet, HandsFresh, RowsFresh, HandsApart, RowsApart,
                HandsOffRows, Counted
  <1> QED
    BY <1>1, <1>3

LEMMA ArriveKeeps ==
    ASSUME OnceInv, NEW c \in Callers, NEW m \in Messages, Arrive(c, m)
    PROVE  (InHand /\ Once)'
  <1>1. /\ c \in Workers /\ m \notin arrived /\ arrived' = arrived \cup {m}
        /\ UNCHANGED <<items, effects>>
    BY DEF Arrive, Workers, tableVars
  <1>2. Pending(c)' /\ holding'[c] = m
    BY <1>1 DEF OnceInv, TypeOK, Arrive, Goes, Pending
  <1>3. \A w \in Workers : w # c =>
           (Pending(w)' <=> Pending(w)) /\ (Holds(w)' <=> Holds(w)) /\ holding'[w] = holding[w]
    BY <1>1 DEF OnceInv, TypeOK, Arrive, Goes, Pending, Holds
  <1>4. Queued' = Queued
    BY <1>1 DEF Queued
  <1>5. effects[m] = 0
    BY <1>1 DEF OnceInv, Once, Counted
  <1>6. InHand'
    BY <1>2, <1>3 DEF OnceInv, InHand
  <1>7. HandsFresh' /\ RowsFresh'
    BY <1>1, <1>2, <1>3, <1>4, <1>5 DEF OnceInv, Once, HandsFresh, RowsFresh
  <1>8. HandsApart' /\ HandsOffRows'
    BY <1>1, <1>2, <1>3, <1>4 DEF OnceInv, Once, HandsFresh, RowsFresh, HandsApart,
                                  HandsOffRows
  <1>9. RowsApart' /\ Counted'
    BY <1>1, <1>4 DEF OnceInv, Once, RowsApart, Counted
  <1> QED
    BY <1>6, <1>7, <1>8, <1>9 DEF Once

LEMMA ActKeeps ==
    ASSUME OnceInv, NEW w \in Workers, StartWork(w) \/ ActOn(w)
    PROVE  (InHand /\ Once)'
  <1>1. Pending(w) /\ holding[w] \in Messages /\ UNCHANGED <<items, holding, arrived>>
    BY DEF OnceInv, StartWork, ActOn, Goes, Pending, Holds, InHand, tableVars
  <1>2. \A v \in Workers : v # w =>
           (Pending(v)' <=> Pending(v)) /\ (Holds(v)' <=> Holds(v))
    BY DEF OnceInv, TypeOK, StartWork, ActOn, Goes, Pending, Holds
  <1>3. Queued' = Queued
    BY <1>1 DEF Queued
  <1>4. InHand'
    BY <1>1, <1>2 DEF OnceInv, InHand
  <1>5. CASE UNCHANGED effects
    BY <1>1, <1>2, <1>3, <1>4, <1>5 DEF OnceInv, Once, HandsFresh, RowsFresh,
       HandsApart, RowsApart, HandsOffRows, Counted
  <1>6. CASE ~Pending(w)' /\ effects' = [effects EXCEPT ![holding[w]] = @ + 1]
    <2>1. /\ effects'[holding[w]] = effects[holding[w]] + 1
          /\ \A m \in Messages : m # holding[w] => effects'[m] = effects[m]
      BY <1>1, <1>6 DEF OnceInv, TypeOK
    <2>2. effects[holding[w]] = 0 /\ holding[w] \in arrived
      BY <1>1 DEF OnceInv, Once, HandsFresh
    <2>3. HandsFresh'
      <3>1. \A v \in Workers : Pending(v)' =>
               Pending(v) /\ holding[v] \in Messages /\ holding[v] # holding[w]
        BY <1>1, <1>2, <1>6 DEF OnceInv, Once, HandsApart, InHand, Holds
      <3> QED
        BY <1>1, <2>1, <3>1 DEF OnceInv, Once, HandsFresh
    <2>4. RowsFresh'
      <3>1. \A i \in Queued : items[i].message \in Messages /\ items[i].message # holding[w]
        BY <1>1, RowsHold DEF OnceInv, Once, HandsOffRows, Queued
      <3> QED
        BY <1>1, <1>3, <2>1, <3>1 DEF OnceInv, Once, RowsFresh
    <2>5. HandsApart' /\ RowsApart' /\ HandsOffRows'
      BY <1>1, <1>2, <1>3, <1>6 DEF OnceInv, Once, HandsApart, RowsApart, HandsOffRows
    <2>6. Counted'
      BY <1>1, <2>1, <2>2 DEF OnceInv, Once, Counted
    <2> QED
      BY <1>4, <2>3, <2>4, <2>5, <2>6 DEF Once
  <1>7. UNCHANGED effects \/ (~Pending(w)' /\ effects' = [effects EXCEPT ![holding[w]] = @ + 1])
    BY DEF OnceInv, TypeOK, StartWork, ActOn, Goes, Acts, Pending
  <1> QED
    BY <1>5, <1>6, <1>7

LEMMA EnqueueKeeps ==
    ASSUME OnceInv, NEW w \in Workers, Enqueue(w)
    PROVE  (InHand /\ Once)'
  <1> DEFINE row == [message |-> holding[w], status |-> "queued"]
             new == Len(items) + 1
  <1>1. /\ Pending(w) /\ holding[w] \in Messages /\ items' = Append(items, row)
        /\ UNCHANGED <<holding, arrived, effects>>
    BY DEF OnceInv, InHand, Enqueue, Goes, Holds, Pending, messageVars
  <1>2. items \in Seq(Rows) /\ row \in Rows
    BY <1>1 DEF OnceInv, TypeOK, Rows, Statuses
  <1>3. /\ ~Pending(w)'
        /\ \A v \in Workers : v # w =>
              (Pending(v)' <=> Pending(v)) /\ (Holds(v)' <=> Holds(v))
    BY DEF OnceInv, TypeOK, Enqueue, Goes, Pending, Holds
  <1>4. /\ Queued' = Queued \cup {new} /\ new \notin Queued
        /\ \A i \in Queued : items'[i].message = items[i].message
        /\ items'[new].message = holding[w]
    BY <1>1, <1>2, AppendRow DEF Queued
  <1> HIDE DEF new, row
  <1>5. InHand'
    BY <1>1, <1>3 DEF OnceInv, InHand
  <1>6. HandsFresh'
    BY <1>1, <1>3 DEF OnceInv, Once, HandsFresh
  <1>7. HandsApart' /\ HandsOffRows'
    BY <1>1, <1>3, <1>4 DEF OnceInv, Once, HandsApart, HandsOffRows
  <1>8. RowsFresh'
    <2>1. holding[w] \in arrived /\ effects[holding[w]] = 0
      BY <1>1 DEF OnceInv, Once, HandsFresh
    <2> QED
      BY <1>1, <1>4, <2>1 DEF OnceInv, Once, RowsFresh
  <1>9. Counted'
    BY <1>1 DEF OnceInv, Once, Counted
  <1>10. RowsApart'
    <2>1. \A i \in Queued : items[i].message # holding[w]
      BY <1>1 DEF OnceInv, Once, HandsOffRows
    <2> QED
      BY <1>4, <2>1 DEF OnceInv, Once, RowsApart
  <1> QED
    BY <1>5, <1>6, <1>7, <1>8, <1>9, <1>10 DEF Once

LEMMA PopKeeps ==
    ASSUME OnceInv, NEW d \in Drainers, DrainPops(d)
    PROVE  (InHand /\ Once)'
  <1>1. d \in Workers /\ UNCHANGED <<arrived, effects>>
    BY DEF DrainPops, Workers, messageVars
  <1>2. PICK i \in Queued :
           /\ items' = SetStatus(items, i, "dispatching")
           /\ holding' = [holding EXCEPT ![d] = items[i].message]
           /\ \E to \in {"act", "look"} : pc' = [pc EXCEPT ![d] = to]
    BY DEF DrainPops, Popped
  <1>3. items[i].message \in Messages
    BY RowsHold DEF OnceInv, Queued
  <1>4. /\ DOMAIN items' = DOMAIN items
        /\ \A j \in DOMAIN items :
              /\ items'[j].message = items[j].message
              /\ items'[j].status = IF j = i THEN "dispatching" ELSE items[j].status
    BY <1>2, SetStatusRows DEF OnceInv, TypeOK, Statuses
  <1>5. /\ Queued' = Queued \ {i}
        /\ \A j \in Queued' : items'[j].message = items[j].message
    BY <1>4 DEF Queued
  <1>6. /\ Pending(d)' /\ holding'[d] = items[i].message
        /\ \A w \in Workers : w # d =>
              /\ (Pending(w)' <=> Pending(w)) /\ (Holds(w)' <=> Holds(w))
              /\ holding'[w] = holding[w]
    BY <1>1, <1>2 DEF OnceInv, TypeOK, Pending, Holds
  <1>7. InHand'
    BY <1>3, <1>6 DEF OnceInv, InHand
  <1>8. HandsFresh' /\ RowsFresh'
    BY <1>1, <1>5, <1>6 DEF OnceInv, Once, HandsFresh, RowsFresh
  <1>9. HandsApart' /\ HandsOffRows'
    BY <1>1, <1>5, <1>6 DEF OnceInv, Once, HandsApart, HandsOffRows, RowsApart
  <1>10. RowsApart' /\ Counted'
    BY <1>1, <1>5 DEF OnceInv, Once, RowsApart, Counted
  <1> QED
    BY <1>7, <1>8, <1>9, <1>10 DEF Once

LEMMA MovesKeep ==
    ASSUME OnceInv, Moves
    PROVE  (InHand /\ Once)'
  BY ArriveKeeps, ActKeeps, EnqueueKeeps, PopKeeps DEF Moves

LEMMA OnceKept == Spec => []OnceInv
  <1>1. OnceInv /\ [Next]_vars => OnceInv'
    BY NextTypes, QuietSteps, QuietKeeps, MovesKeep DEF OnceInv
  <1> QED
    BY <1>1, OnceInit, PTL DEF Spec

\* Every variable keeps its type.
THEOREM TypeCorrect == Spec => []TypeOK
  <1>1. OnceInv => TypeOK
    BY DEF OnceInv
  <1> QED
    BY <1>1, OnceKept, PTL

\* However often a message is queued again, and wherever the app crashes, it
\* is acted on at most once.
THEOREM ActedOnAtMostOnce == Spec => []AtMostOnce
  <1>1. OnceInv => AtMostOnce
    BY DEF OnceInv, Once, Counted, AtMostOnce
  <1> QED
    BY <1>1, OnceKept, PTL

-----------------------------------------------------------------------------
\* The drains' places are not taken by the channels' goroutines, and while one
\* drain is under way nothing starts a second.
LEMMA OneDrainKept ==
    ASSUME TypeOK, OneDrain, [Next]_vars
    PROVE  OneDrain'
  <1>1. CASE UNCHANGED <<channelDrainRunning, pc>>
    BY <1>1 DEF OneDrain
  <1>2. ASSUME NEW c \in Callers, CallerProceeds(c) \/ \E m \in Messages : Arrive(c, m)
        PROVE  OneDrain'
    <2>1. c \notin Drainers /\ c \in Workers
      BY WorkersAssumption DEF Workers
    <2>2. /\ channelDrainRunning' = channelDrainRunning
          /\ \E to : pc' = [pc EXCEPT ![c] = to]
      BY <1>2 DEF CallerProceeds, Handles, Look, StartWork, ActOn, Enqueue, Respond, Arrive,
                  Goes, appVars
    <2>3. \A d \in Drainers : pc'[d] = pc[d]
      BY <2>1, <2>2 DEF TypeOK, Workers
    <2> QED
      BY <2>2, <2>3 DEF OneDrain
  <1>3. ASSUME NEW d \in Drainers, DrainProceeds(d), ~DrainEnds(d)
        PROVE  OneDrain'
    <2>1. d \in Workers /\ channelDrainRunning' = channelDrainRunning /\ pc[d] # "idle"
      BY <1>3 DEF Workers, DrainProceeds, Handles, Look, StartWork, ActOn, Enqueue, DrainLooks,
                  DrainPops, DrainFindsNothing, DrainMarks, DrainGoesOn, Goes, appVars
    <2>2. \E to : to # "idle" /\ pc' = [pc EXCEPT ![d] = to]
      <3>1. CASE Handles(d)
        BY <3>1 DEF Handles, Look, StartWork, ActOn, Enqueue, Goes
      <3>2. CASE DrainLooks(d) \/ DrainFindsNothing(d) \/ DrainGoesOn(d)
        BY <3>2 DEF DrainLooks, DrainFindsNothing, DrainGoesOn, Goes
      <3>3. CASE DrainPops(d) \/ DrainMarks(d)
        BY <3>3 DEF DrainPops, DrainMarks
      <3> QED
        BY <1>3, <3>1, <3>2, <3>3 DEF DrainProceeds
    <2>3. \A e \in Drainers : pc'[e] # "idle" <=> pc[e] # "idle"
      BY <2>1, <2>2 DEF TypeOK, Workers
    <2> QED
      BY <2>1, <2>3 DEF OneDrain
  <1>4. ASSUME NEW d \in Drainers, DrainEnds(d)
        PROVE  OneDrain'
    <2>1. \A e \in Drainers : pc'[e] = "idle"
      BY <1>4 DEF TypeOK, OneDrain, DrainEnds, Goes, Workers
    <2>2. ~channelDrainRunning'
      BY <1>4, Zenon DEF DrainEnds
    <2> QED
      BY <2>1, <2>2 DEF OneDrain
  <1>5. ASSUME NEW d \in Drainers, DrainStarts(d)
        PROVE  OneDrain'
    <2>1. \A e \in Drainers : pc'[e] # "idle" <=> e = d
      BY <1>5 DEF TypeOK, OneDrain, DrainStarts, Goes, Workers
    <2>2. channelDrainRunning'
      BY <1>5, Zenon DEF DrainStarts
    <2> QED
      BY <2>1, <2>2 DEF OneDrain
  <1>6. CASE Crash
    <2>1. \A e \in Drainers : pc'[e] = "idle"
      BY <1>6 DEF Crash, Workers
    <2>2. ~channelDrainRunning'
      BY <1>6, Zenon DEF Crash
    <2> QED
      BY <2>1, <2>2 DEF OneDrain
  <1>7. CASE RunFinishes \/ DrainUnderWay \/ UserStartsRun \/ CancelActive \/ Restart
    BY <1>1, <1>7 DEF RunFinishes, DrainUnderWay, UserStartsRun, CancelActive, Restart, workerVars,
                      appVars
  <1>8. CASE UNCHANGED vars
    BY <1>1, <1>8 DEF vars, workerVars, appVars
  <1> QED
    BY <1>2, <1>3, <1>4, <1>5, <1>6, <1>7, <1>8 DEF Next, RunProceeds

\* At most one drain works on the queue, and channelDrainRunning says whether
\* one does, in every order of run ends, drains and crashes.
THEOREM DrainsAreAlone == Spec => []OneDrain
  <1>1. Init => OneDrain
    BY Zenon DEF Init, OneDrain, Workers
  <1>2. OneDrain /\ TypeOK /\ [Next]_vars => OneDrain'
    BY OneDrainKept
  <1> QED
    BY <1>1, <1>2, TypeCorrect, PTL DEF Spec

-----------------------------------------------------------------------------
\* Why nothing is forgotten: a worker that goes on to answer or to mark a row
\* has acted on its message or queued it, and the row the drain marks is the
\* one of the message it holds, queued again in another one.
KeptStatuses == {"queued", "dispatching", "cancelled"}
Waits(m) == \E i \in DOMAIN items : items[i].message = m /\ items[i].status \in KeptStatuses
WaitsElsewhere(d) ==
    \E i \in DOMAIN items :
        i # item[d] /\ items[i].message = holding[d] /\ items[i].status \in KeptStatuses
Safe(m) == effects[m] > 0 \/ Waits(m)
Sure(w) ==
    /\ pc[w] \in {"started", "answered"} => effects[holding[w]] > 0
    /\ w \in Callers /\ pc[w] = "queued" => Safe(holding[w])
    /\ w \in Drainers =>
          /\ Holds(w) => item[w] \in DOMAIN items /\ items[item[w]].message = holding[w]
          /\ pc[w] = "queued" => WaitsElsewhere(w)
SafeInv == NothingForgotten /\ \A w \in Workers : Sure(w)

\* What every step but the drain's marking of a row does to the table.
Grows ==
    /\ DOMAIN items \subseteq DOMAIN items'
    /\ \A i \in DOMAIN items :
          /\ items'[i].message = items[i].message
          /\ items[i].status \in KeptStatuses => items'[i].status \in KeptStatuses
    /\ \A m \in Messages : effects[m] > 0 => effects'[m] > 0

LEMMA CancelKeeps ==
    ASSUME TypeOK, CancelActive, NEW i \in DOMAIN items,
           items[i].status \in KeptStatuses
    PROVE  items'[i].status \in KeptStatuses
  <1>1. items[i] \in Rows
    BY RowsHold
  <1>2. items'[i] = IF items[i].status \in {"queued", "dispatching"}
                    THEN [items[i] EXCEPT !.status = "cancelled"] ELSE items[i]
    BY DEF CancelActive
  <1> QED
    BY <1>1, <1>2 DEF Rows, KeptStatuses

LEMMA GrowsButMarks ==
    ASSUME TypeOK, InHand, [Next]_vars, \A d \in Drainers : ~DrainMarks(d)
    PROVE  Grows
  <1>1. CASE UNCHANGED <<items, effects>>
    BY <1>1 DEF Grows
  <1>2. ASSUME NEW w \in Workers, StartWork(w) \/ ActOn(w)
        PROVE  Grows
    <2>1. items' = items /\ (effects' = effects \/ Acts(holding[w])) /\ holding[w] \in Messages
      BY <1>2 DEF StartWork, ActOn, Goes, tableVars, InHand, Holds, Pending
    <2>2. \A m \in Messages : effects[m] > 0 => effects'[m] > 0
      BY <2>1 DEF TypeOK, Acts
    <2> QED
      BY <2>1, <2>2 DEF Grows
  <1>3. ASSUME NEW w \in Workers, Enqueue(w)
        PROVE  Grows
    <2> DEFINE row == [message |-> holding[w], status |-> "queued"]
    <2>1. /\ row \in Rows /\ items \in Seq(Rows) /\ items' = Append(items, row)
          /\ effects' = effects
      BY <1>3 DEF TypeOK, Enqueue, Goes, Rows, Statuses, InHand, Holds, Pending, messageVars
    <2> HIDE DEF row
    <2> QED
      BY <2>1, AppendRow DEF Grows
  <1>4. ASSUME NEW d \in Drainers, DrainPops(d)
        PROVE  Grows
    <2>1. PICK i \in Queued : items' = SetStatus(items, i, "dispatching")
      BY <1>4 DEF DrainPops, Popped
    <2>2. effects' = effects
      BY <1>4 DEF DrainPops, messageVars
    <2> QED
      BY <2>1, <2>2, SetStatusRows DEF Grows, TypeOK, Statuses, KeptStatuses
  <1>5. CASE CancelActive
    BY <1>5, CancelRows, CancelKeeps DEF Grows, CancelActive, messageVars
  <1>6. (\E w \in Workers : StartWork(w) \/ ActOn(w) \/ Enqueue(w))
          \/ (\E d \in Drainers : DrainPops(d)) \/ CancelActive
          \/ UNCHANGED <<items, effects>>
    <2>1. CASE UNCHANGED vars
      BY <2>1 DEF vars, tableVars, messageVars
    <2>2. ASSUME NEW c \in Callers, Respond(c) \/ (\E m \in Messages : Arrive(c, m))
          PROVE  UNCHANGED <<items, effects>>
      BY <2>2 DEF Respond, Arrive, tableVars
    <2>3. ASSUME NEW w \in Workers, Look(w)
          PROVE  UNCHANGED <<items, effects>>
      BY <2>3 DEF Look, tableVars, messageVars
    <2>4. ASSUME NEW d \in Drainers,
                 DrainLooks(d) \/ DrainFindsNothing(d) \/ DrainGoesOn(d)
                   \/ DrainEnds(d) \/ DrainStarts(d)
          PROVE  UNCHANGED <<items, effects>>
      BY <2>4 DEF DrainLooks, DrainFindsNothing, DrainGoesOn, DrainEnds, DrainStarts,
                  tableVars, messageVars
    <2>5. CASE RunFinishes \/ DrainUnderWay \/ UserStartsRun \/ Crash \/ Restart
      BY <2>5 DEF RunFinishes, DrainUnderWay, UserStartsRun, Crash, Restart, tableVars,
                  messageVars
    <2> QED
      BY <2>1, <2>2, <2>3, <2>4, <2>5
      DEF Next, CallerProceeds, DrainProceeds, RunProceeds, Handles, Workers
  <1> QED
    BY <1>1, <1>2, <1>3, <1>4, <1>5, <1>6

LEMMA SafeGrows ==
    ASSUME Grows, NEW m \in Messages, Safe(m)
    PROVE  Safe(m)'
  BY DEF Grows, Safe, Waits

\* A worker that does not move stays sure while the table grows.
LEMMA SureGrows ==
    ASSUME TypeOK, InHand, Grows, NEW w \in Workers, Sure(w),
           UNCHANGED <<pc[w], holding[w], item[w]>>
    PROVE  Sure(w)'
  <1>1. Holds(w) => holding[w] \in Messages
    BY DEF InHand
  <1>2. pc[w] \in {"started", "answered"} => effects'[holding[w]] > 0
    BY <1>1 DEF Sure, Grows, Holds
  <1>3. w \in Callers /\ pc[w] = "queued" => Safe(holding[w])'
    BY <1>1, SafeGrows DEF Sure, Safe, Waits, Holds
  <1>4. w \in Drainers /\ Holds(w) =>
           item[w] \in DOMAIN items' /\ items'[item[w]].message = holding[w]
    BY DEF Sure, Grows
  <1>5. w \in Drainers /\ pc[w] = "queued" => WaitsElsewhere(w)'
    BY DEF Sure, Grows, WaitsElsewhere
  <1>6. Holds(w)' <=> Holds(w)
    BY DEF Holds, Pending
  <1> QED
    BY <1>2, <1>3, <1>4, <1>5, <1>6 DEF Sure

\* The worker that moves, and the workers that do not.
Only(w) == \A v \in Workers \ {w} : UNCHANGED <<pc[v], holding[v], item[v]>>

LEMMA HandlesSure ==
    ASSUME TypeOK, InHand, Grows, NEW w \in Workers, Sure(w), Handles(w)
    PROVE  Sure(w)' /\ Only(w)
  <1> USE WorkersAssumption DEF Sure, Only, Holds, Pending
  <1>1. CASE Look(w)
    BY <1>1 DEF TypeOK, Look, Goes, tableVars
  <1>2. CASE StartWork(w) \/ ActOn(w)
    <2>1. /\ holding[w] \in Messages /\ UNCHANGED <<items, holding, item>>
          /\ \E to \in {"enqueue", "started", "answered"} :
                /\ pc' = [pc EXCEPT ![w] = to]
                /\ to = "enqueue" \/ Acts(holding[w])
      BY <1>2 DEF InHand, StartWork, ActOn, Goes, tableVars
    <2>2. Acts(holding[w]) => effects'[holding[w]] > 0
      BY <2>1 DEF TypeOK, Acts
    <2> QED
      BY <1>2, <2>1, <2>2 DEF TypeOK, StartWork, ActOn, Goes
  <1>3. CASE Enqueue(w)
    <2> DEFINE row == [message |-> holding[w], status |-> "queued"]
               new == Len(items) + 1
    <2>1. /\ row \in Rows /\ items \in Seq(Rows) /\ items' = Append(items, row)
          /\ UNCHANGED <<holding, item>> /\ pc[w] = "enqueue"
          /\ pc' = [pc EXCEPT ![w] = "queued"]
      BY <1>3 DEF TypeOK, Enqueue, Goes, Rows, Statuses, InHand
    <2>2. /\ DOMAIN items' = DOMAIN items \cup {new} /\ new \notin DOMAIN items
          /\ items'[new].message = holding[w] /\ items'[new].status \in KeptStatuses
          /\ \A j \in DOMAIN items : items'[j] = items[j]
      BY <2>1, AppendRow DEF KeptStatuses
    <2> HIDE DEF row, new
    <2>3. Waits(holding[w])' /\ Safe(holding[w])'
      BY <2>1, <2>2 DEF Safe, Waits
    <2>4. CASE w \in Drainers
      <3>1. item[w] \in DOMAIN items /\ items[item[w]].message = holding[w]
        BY <2>1, <2>4
      <3>2. WaitsElsewhere(w)'
        BY <2>1, <2>2, <3>1 DEF WaitsElsewhere
      <3> QED
        BY <2>1, <2>2, <2>4, <3>1, <3>2 DEF TypeOK
    <2>5. CASE w \notin Drainers
      BY <2>1, <2>3, <2>5 DEF TypeOK, Safe, Waits
    <2> QED
      BY <2>4, <2>5
  <1> QED
    BY <1>1, <1>2, <1>3 DEF Handles

LEMMA OthersSure ==
    ASSUME TypeOK, InHand, Grows, NEW w \in Workers, Sure(w),
           \/ w \in Callers /\ (Respond(w) \/ \E m \in Messages : Arrive(w, m))
           \/ w \in Drainers /\ (DrainLooks(w) \/ DrainPops(w) \/ DrainFindsNothing(w)
                                   \/ DrainGoesOn(w) \/ DrainEnds(w) \/ DrainStarts(w))
    PROVE  Sure(w)' /\ Only(w)
  <1> USE WorkersAssumption DEF Sure, Only, Holds, Pending
  <1>1. CASE w \in Callers /\ Respond(w)
    BY <1>1 DEF TypeOK, Respond
  <1>2. ASSUME w \in Callers, NEW m \in Messages, Arrive(w, m)
        PROVE  Sure(w)' /\ Only(w)
    BY <1>2 DEF TypeOK, Arrive, Goes
  <1>3. CASE w \in Drainers /\ DrainPops(w)
    <2>1. PICK i \in Queued :
             /\ items' = SetStatus(items, i, "dispatching")
             /\ item' = [item EXCEPT ![w] = i]
             /\ holding' = [holding EXCEPT ![w] = items[i].message]
             /\ \E to \in {"act", "look"} : pc' = [pc EXCEPT ![w] = to]
      BY <1>3 DEF DrainPops, Popped
    <2>2. i \in DOMAIN items' /\ items'[i].message = items[i].message
      BY <2>1, SetStatusRows DEF TypeOK, Statuses, Queued
    <2> QED
      BY <1>3, <2>1, <2>2 DEF TypeOK
  <1>4. CASE w \in Drainers /\ (DrainLooks(w) \/ DrainFindsNothing(w) \/ DrainGoesOn(w)
                                  \/ DrainEnds(w) \/ DrainStarts(w))
    <2>1. /\ \E to \in {"leaving", "pop", "top", "idle"} : pc' = [pc EXCEPT ![w] = to]
          /\ UNCHANGED <<holding, item>>
      BY <1>4 DEF DrainLooks, DrainFindsNothing, DrainGoesOn, DrainEnds, DrainStarts, Goes
    <2> QED
      BY <1>4, <2>1 DEF TypeOK
  <1> QED
    BY <1>1, <1>2, <1>3, <1>4

\* The drain that marks its row knows that the message was acted on, or that
\* it waits in another row; no other drain is there to be surprised.
LEMMA MarksSafe ==
    ASSUME TypeOK, InHand, OneDrain, SafeInv, NEW d \in Drainers, DrainMarks(d)
    PROVE  SafeInv'
  <1>1. PICK status \in {"requeued", "done"} : items' = SetStatus(items, item[d], status)
    BY DEF DrainMarks
  <1>2. /\ DOMAIN items' = DOMAIN items
        /\ \A j \in DOMAIN items :
              /\ items'[j].message = items[j].message
              /\ j # item[d] => items'[j].status = items[j].status
    BY <1>1, SetStatusRows DEF TypeOK, Statuses
  <1>3. /\ pc[d] \in {"queued", "started", "answered"} /\ d \in Workers /\ Sure(d)
        /\ UNCHANGED <<effects, accepted>>
    BY DEF DrainMarks, SafeInv, Workers, messageVars
  <1>4. ASSUME NEW m \in Messages, Safe(m)
        PROVE  Safe(m)'
    <2>1. CASE effects[m] > 0
      BY <1>3, <2>1 DEF Safe
    <2>2. ASSUME NEW i \in DOMAIN items, items[i].message = m,
                 items[i].status \in KeptStatuses
          PROVE  Safe(m)'
      <3>1. CASE i # item[d]
        BY <1>2, <2>2, <3>1 DEF Safe, Waits
      <3>2. CASE i = item[d]
        <4>1. holding[d] = m
          BY <1>3, <2>2, <3>2 DEF Sure, Holds
        <4>2. effects[m] > 0 \/ WaitsElsewhere(d)
          BY <1>3, <4>1 DEF Sure
        <4> QED
          BY <1>2, <1>3, <4>1, <4>2 DEF Safe, Waits, WaitsElsewhere
      <3> QED
        BY <3>1, <3>2
    <2> QED
      BY <1>4, <2>1, <2>2 DEF Safe, Waits
  <1>5. NothingForgotten'
    <2>1. \A m \in accepted : Safe(m) /\ m \in Messages
      BY DEF SafeInv, NothingForgotten, Safe, Waits, KeptStatuses, TypeOK
    <2> QED
      BY <1>3, <1>4, <2>1 DEF NothingForgotten, Safe, Waits, KeptStatuses
  <1>6. ASSUME NEW w \in Workers
        PROVE  Sure(w)'
    <2>1. CASE w = d
      BY <1>3, <2>1, WorkersAssumption DEF TypeOK, DrainMarks, Sure, Holds, Pending
    <2>2. CASE w \in Drainers /\ w # d
      <3>1. pc[w] = "idle" /\ pc'[w] = "idle"
        BY <1>3, <2>2 DEF OneDrain, DrainMarks, TypeOK
      <3> QED
        BY <2>2, <3>1, WorkersAssumption DEF Sure, Holds, Pending
    <2>3. CASE w \in Callers /\ w \notin Drainers
      <3>1. pc'[w] = pc[w] /\ holding'[w] = holding[w]
        BY <1>3, <2>3 DEF DrainMarks, TypeOK, Workers
      <3>2. pc[w] = "queued" => holding[w] \in Messages /\ Safe(holding[w])
        BY <2>3 DEF InHand, Holds, SafeInv, Sure
      <3>3. \A m \in Messages : Safe(m) => Safe(m)'
        BY <1>4
      <3>4. pc'[w] = "queued" => Safe(holding[w])'
        BY <3>1, <3>2, <3>3 DEF Safe, Waits
      <3> QED
        BY <1>3, <2>3, <3>1, <3>4, WorkersAssumption DEF SafeInv, Sure
    <2> QED
      BY <2>1, <2>2, <2>3 DEF Workers
  <1> QED
    BY <1>5, <1>6 DEF SafeInv

LEMMA SafeKept ==
    ASSUME TypeOK, InHand, OneDrain, SafeInv, [Next]_vars
    PROVE  SafeInv'
  <1>1. CASE \E d \in Drainers : DrainMarks(d)
    BY <1>1, MarksSafe
  <1>2. CASE \A d \in Drainers : ~DrainMarks(d)
    <2>1. Grows
      BY <1>2, GrowsButMarks
    <2>2. \A m \in accepted : Safe(m) /\ Safe(m)'
      <3>1. \A m \in accepted : Safe(m) /\ m \in Messages
        BY DEF SafeInv, NothingForgotten, Safe, Waits, KeptStatuses, TypeOK
      <3> QED
        BY <2>1, <3>1, SafeGrows
    <2>3. ASSUME NEW w \in Workers, Sure(w)', Only(w)
          PROVE  \A v \in Workers : Sure(v)'
      BY <2>1, <2>3, SureGrows DEF Only, SafeInv
    <2>4. CASE UNCHANGED accepted /\ \A w \in Workers : Sure(w)'
      BY <2>2, <2>4 DEF SafeInv, NothingForgotten, Safe, Waits, KeptStatuses
    <2>5. ASSUME NEW c \in Callers, Respond(c)
          PROVE  SafeInv'
      <3>1. c \in Workers /\ holding[c] \in Messages
        BY <2>5 DEF Workers, Respond, InHand, Holds
      <3>2. Safe(holding[c])
        BY <2>5, <3>1 DEF Respond, SafeInv, Sure, Safe
      <3>3. NothingForgotten'
        <4>1. accepted' = accepted \cup {holding[c]} /\ UNCHANGED <<items, effects>>
          BY <2>5 DEF Respond, tableVars
        <4> QED
          BY <2>2, <3>2, <4>1 DEF NothingForgotten, Safe, Waits, KeptStatuses
      <3>4. \A w \in Workers : Sure(w)'
        BY <2>1, <2>3, <2>5, <3>1, OthersSure DEF SafeInv
      <3> QED
        BY <3>3, <3>4 DEF SafeInv
    <2>6. ASSUME NEW w \in Workers, Handles(w)
          PROVE  SafeInv'
      <3>1. \A v \in Workers : Sure(v)'
        BY <2>1, <2>3, <2>6, HandlesSure DEF SafeInv
      <3>2. UNCHANGED accepted
        BY <2>6 DEF Handles, Look, StartWork, ActOn, Enqueue, messageVars
      <3> QED
        BY <2>4, <3>1, <3>2
    <2>7. ASSUME NEW w \in Workers,
                 \/ w \in Callers /\ \E m \in Messages : Arrive(w, m)
                 \/ w \in Drainers /\ (DrainLooks(w) \/ DrainPops(w) \/ DrainFindsNothing(w)
                                   \/ DrainGoesOn(w) \/ DrainEnds(w) \/ DrainStarts(w))
          PROVE  SafeInv'
      <3>1. \A v \in Workers : Sure(v)'
        BY <2>1, <2>3, <2>7, OthersSure DEF SafeInv
      <3>2. UNCHANGED accepted
        BY <2>7 DEF Arrive, DrainLooks, DrainPops, DrainFindsNothing, DrainGoesOn,
                    DrainEnds, DrainStarts, messageVars
      <3> QED
        BY <2>4, <3>1, <3>2
    <2>8. CASE Crash
      <3>1. \A w \in Workers : Sure(w)'
        BY <2>8 DEF Crash, Sure, Holds, Pending
      <3> QED
        BY <2>4, <2>8, <3>1 DEF Crash, messageVars
    <2>9. CASE RunFinishes \/ DrainUnderWay \/ UserStartsRun \/ CancelActive \/ Restart
                 \/ UNCHANGED vars
      <3>1. UNCHANGED <<workerVars, accepted>>
        BY <2>9 DEF RunFinishes, DrainUnderWay, UserStartsRun, CancelActive, Restart,
                    vars, messageVars
      <3>2. \A w \in Workers : Sure(w)'
        BY <2>1, <3>1, SureGrows DEF SafeInv, workerVars
      <3> QED
        BY <2>4, <3>1, <3>2
    <2> QED
      BY <1>2, <2>5, <2>6, <2>7, <2>8, <2>9
      DEF Next, CallerProceeds, DrainProceeds, RunProceeds, Workers
  <1> QED
    BY <1>1, <1>2

\* Whoever was answered has had their message acted on or finds it in the
\* table, wherever crashes, cancellations and a second queueing fall.
THEOREM AnsweredIsKept == Spec => []NothingForgotten
  <1>1. Init => SafeInv
    BY DEF Init, SafeInv, NothingForgotten, Sure, Holds, Pending
  <1>2. OnceInv => TypeOK /\ InHand
    BY DEF OnceInv
  <1>3. SafeInv => NothingForgotten
    BY DEF SafeInv
  <1> QED
    BY <1>1, <1>2, <1>3, SafeKept, OnceKept, DrainsAreAlone, PTL DEF Spec

-----------------------------------------------------------------------------
\* Where a message is, in terms of what the steps change.  A message in a
\* channel's hands is in no row yet, the row a drain took its message from says
\* so, and nothing is in the table that was not sent.
Gone == {"dispatching", "cancelled"}
TakenHasNoRow == \A c \in Callers, i \in DOMAIN items :
    Pending(c) => items[i].message # holding[c]
HeldRowIsGone == \A d \in Drainers : Holds(d) => items[item[d]].status \in Gone
RowsArrived == \A i \in DOMAIN items : items[i].message \in arrived
Placed == TakenHasNoRow /\ HeldRowIsGone /\ RowsArrived
PlacedInv == OnceInv /\ SafeInv /\ OneDrain /\ Placed

LEMMA ArrivePlaced ==
    ASSUME PlacedInv, NEW c \in Callers, NEW m \in Messages, Arrive(c, m)
    PROVE  Placed'
  <1> USE WorkersAssumption DEF PlacedInv, Placed
  <1>1. /\ c \in Workers /\ c \notin Drainers /\ m \notin arrived
        /\ arrived' = arrived \cup {m} /\ UNCHANGED <<items, item>>
    BY DEF Arrive, Workers, tableVars
  <1>2. /\ holding'[c] = m
        /\ \A w \in Workers : w # c => pc'[w] = pc[w] /\ holding'[w] = holding[w]
    BY <1>1 DEF OnceInv, TypeOK, Arrive, Goes
  <1>3. TakenHasNoRow'
    BY <1>1, <1>2 DEF TakenHasNoRow, RowsArrived, Pending, Workers
  <1>4. HeldRowIsGone'
    BY <1>1, <1>2 DEF HeldRowIsGone, Holds, Pending, Workers
  <1>5. RowsArrived'
    BY <1>1 DEF RowsArrived
  <1> QED
    BY <1>3, <1>4, <1>5

LEMMA EnqueuePlaced ==
    ASSUME PlacedInv, NEW w \in Workers, Enqueue(w)
    PROVE  Placed'
  <1> DEFINE row == [message |-> holding[w], status |-> "queued"]
             new == Len(items) + 1
  <1> USE WorkersAssumption DEF PlacedInv, Placed
  <1>1. /\ Pending(w) /\ holding[w] \in Messages /\ items' = Append(items, row)
        /\ UNCHANGED <<holding, item, arrived>>
    BY DEF OnceInv, InHand, Enqueue, Goes, Holds, Pending, messageVars
  <1>2. items \in Seq(Rows) /\ row \in Rows
    BY <1>1 DEF OnceInv, TypeOK, Rows, Statuses
  <1>3. /\ ~Pending(w)'
        /\ \A v \in Workers : v # w =>
              (Pending(v)' <=> Pending(v)) /\ (Holds(v)' <=> Holds(v))
        /\ Holds(w)
    BY DEF OnceInv, TypeOK, Enqueue, Goes, Pending, Holds
  <1>4. /\ DOMAIN items' = DOMAIN items \cup {new}
        /\ \A i \in DOMAIN items : items'[i] = items[i]
        /\ items'[new].message = holding[w]
    BY <1>1, <1>2, AppendRow
  <1> HIDE DEF new, row
  <1>5. holding[w] \in arrived /\ \A v \in Workers : Pending(v) /\ v # w => holding[v] # holding[w]
    BY <1>1 DEF OnceInv, Once, HandsFresh, HandsApart
  <1>6. TakenHasNoRow'
    BY <1>1, <1>3, <1>4, <1>5 DEF TakenHasNoRow, Workers
  <1>7. HeldRowIsGone'
    <2>1. \A d \in Drainers : Holds(d) => item[d] \in DOMAIN items
      BY DEF SafeInv, Sure, Workers
    <2> QED
      BY <1>1, <1>3, <1>4, <2>1 DEF HeldRowIsGone, Workers
  <1>8. RowsArrived'
    BY <1>1, <1>4, <1>5 DEF RowsArrived
  <1> QED
    BY <1>6, <1>7, <1>8

LEMMA PopPlaced ==
    ASSUME PlacedInv, NEW d \in Drainers, DrainPops(d)
    PROVE  Placed'
  <1> USE WorkersAssumption DEF PlacedInv, Placed
  <1>1. d \in Workers /\ d \notin Callers /\ UNCHANGED arrived
    BY DEF DrainPops, Workers, messageVars
  <1>2. PICK i \in Queued :
           /\ items' = SetStatus(items, i, "dispatching")
           /\ holding' = [holding EXCEPT ![d] = items[i].message]
           /\ item' = [item EXCEPT ![d] = i]
           /\ \E to \in {"act", "look"} : pc' = [pc EXCEPT ![d] = to]
    BY DEF DrainPops, Popped
  <1>3. /\ DOMAIN items' = DOMAIN items
        /\ \A j \in DOMAIN items :
              /\ items'[j].message = items[j].message
              /\ items'[j].status = IF j = i THEN "dispatching" ELSE items[j].status
    BY <1>2, SetStatusRows DEF OnceInv, TypeOK, Statuses
  <1>4. /\ item'[d] = i /\ i \in DOMAIN items
        /\ \A w \in Workers : w # d =>
              pc'[w] = pc[w] /\ holding'[w] = holding[w] /\ item'[w] = item[w]
    BY <1>1, <1>2 DEF OnceInv, TypeOK, Queued
  <1>5. TakenHasNoRow'
    BY <1>1, <1>3, <1>4 DEF TakenHasNoRow, Pending, Workers
  <1>6. HeldRowIsGone'
    <2>1. \A e \in Drainers : Holds(e) => item[e] \in DOMAIN items
      BY DEF SafeInv, Sure, Workers
    <2> QED
      BY <1>3, <1>4, <2>1 DEF HeldRowIsGone, Holds, Pending, Workers, Gone
  <1>7. RowsArrived'
    BY <1>1, <1>3 DEF RowsArrived
  <1> QED
    BY <1>5, <1>6, <1>7

LEMMA MarksPlaced ==
    ASSUME PlacedInv, NEW d \in Drainers, DrainMarks(d)
    PROVE  Placed'
  <1> USE WorkersAssumption DEF PlacedInv, Placed
  <1>1. PICK status \in {"requeued", "done"} : items' = SetStatus(items, item[d], status)
    BY DEF DrainMarks
  <1>2. /\ DOMAIN items' = DOMAIN items
        /\ \A j \in DOMAIN items : items'[j].message = items[j].message
    BY <1>1, SetStatusRows DEF OnceInv, TypeOK, Statuses
  <1>3. /\ d \in Workers /\ d \notin Callers /\ pc[d] # "idle" /\ UNCHANGED arrived
        /\ pc'[d] \in {"leaving", "marked"}
        /\ \A w \in Workers : w # d => pc'[w] = pc[w] /\ holding'[w] = holding[w]
    BY DEF DrainMarks, Workers, messageVars, OnceInv, TypeOK
  <1>4. TakenHasNoRow'
    BY <1>2, <1>3 DEF TakenHasNoRow, Pending, Workers
  <1>5. \A e \in Drainers : ~Holds(e)'
    BY <1>3 DEF OneDrain, Holds, Pending, Workers
  <1> QED
    BY <1>2, <1>3, <1>4, <1>5 DEF HeldRowIsGone, RowsArrived

\* The other steps: the workers' hands stay as they are or are emptied, and the
\* table too but for what is cancelled.
Still ==
    /\ DOMAIN items' = DOMAIN items
    /\ \A i \in DOMAIN items : /\ items'[i].message = items[i].message
                               /\ items[i].status \in Gone => items'[i].status \in Gone
    /\ \A w \in Workers : Pending(w)' => Pending(w)
    /\ \A w \in Workers : Holds(w)' =>
          Holds(w) /\ holding'[w] = holding[w] /\ item'[w] = item[w]
    /\ UNCHANGED arrived

LEMMA StillSteps ==
    ASSUME TypeOK, [Next]_vars, \A d \in Drainers : ~DrainMarks(d),
           \A c \in Callers, m \in Messages : ~Arrive(c, m),
           \A w \in Workers : ~Enqueue(w),
           \A d \in Drainers : ~DrainPops(d)
    PROVE  Still
  <1> USE DEF Still, Pending, Holds
  <1>1. CASE UNCHANGED vars
    BY <1>1 DEF vars, tableVars, workerVars, messageVars
  <1>2. ASSUME NEW w \in Workers, Look(w) \/ StartWork(w) \/ ActOn(w)
        PROVE  Still
    BY <1>2 DEF TypeOK, Look, StartWork, ActOn, Goes, tableVars, messageVars
  <1>3. ASSUME NEW c \in Callers, Respond(c)
        PROVE  Still
    BY <1>3 DEF TypeOK, Respond, Workers, tableVars
  <1>4. ASSUME NEW d \in Drainers, DrainLooks(d) \/ DrainFindsNothing(d) \/ DrainGoesOn(d)
                                     \/ DrainEnds(d) \/ DrainStarts(d)
        PROVE  Still
    BY <1>4 DEF TypeOK, DrainLooks, DrainFindsNothing, DrainGoesOn, DrainEnds, DrainStarts,
                Goes, Workers, tableVars, messageVars
  <1>5. CASE RunFinishes \/ DrainUnderWay \/ UserStartsRun \/ Restart
    BY <1>5 DEF RunFinishes, DrainUnderWay, UserStartsRun, Restart, tableVars,
                workerVars, messageVars
  <1>6. CASE CancelActive
    <2>1. \A i \in DOMAIN items : items'[i].status =
             IF items[i].status \in {"queued", "dispatching"} THEN "cancelled" ELSE items[i].status
      BY <1>6, RowsHold DEF CancelActive, Rows
    <2> QED
      BY <1>6, <2>1, CancelRows DEF CancelActive, workerVars, messageVars, Gone
  <1>7. CASE Crash
    BY <1>7 DEF Crash, tableVars, messageVars
  <1> QED
    BY <1>1, <1>2, <1>3, <1>4, <1>5, <1>6, <1>7
       DEF Next, CallerProceeds, DrainProceeds, RunProceeds, Handles, Workers

LEMMA StillPlaced ==
    ASSUME PlacedInv, Still
    PROVE  Placed'
  <1> USE DEF PlacedInv, Placed
  <1>1. TakenHasNoRow'
    BY DEF Still, TakenHasNoRow, Workers, Pending, Holds
  <1>2. HeldRowIsGone'
    BY DEF Still, HeldRowIsGone, SafeInv, Sure, Workers
  <1>3. RowsArrived'
    BY DEF Still, RowsArrived
  <1> QED
    BY <1>1, <1>2, <1>3

LEMMA PlacedKept == Spec => []PlacedInv
  <1>1. Init => SafeInv /\ Placed
    <2> SUFFICES ASSUME Init
                 PROVE  SafeInv /\ Placed
      OBVIOUS
    <2>1. DOMAIN items = {} /\ \A w \in Workers : ~Pending(w) /\ ~Holds(w)
      BY DEF Init, Pending, Holds
    <2>2. SafeInv
      BY DEF Init, SafeInv, NothingForgotten, Sure, Holds, Pending
    <2>3. Placed
      BY <2>1 DEF Placed, TakenHasNoRow, HeldRowIsGone, RowsArrived, Workers
    <2> QED
      BY <2>2, <2>3
  <1>2. SafeInv /\ OnceInv /\ OneDrain /\ [Next]_vars => SafeInv'
    BY SafeKept DEF OnceInv
  <1>3. PlacedInv /\ [Next]_vars => Placed'
    BY ArrivePlaced, EnqueuePlaced, PopPlaced, MarksPlaced, StillSteps, StillPlaced
    DEF PlacedInv, OnceInv
  <1>4. PlacedInv <=> OnceInv /\ SafeInv /\ OneDrain /\ Placed
    BY DEF PlacedInv
  <1> QED
    BY <1>1, <1>2, <1>3, <1>4, OnceKept, DrainsAreAlone, PTL DEF Spec

-----------------------------------------------------------------------------
\* A message's fate is told by six facts.
LEMMA FateStays ==
    ASSUME NEW m \in Messages,
           effects'[m] > 0 <=> effects[m] > 0,
           InHands(m, Callers)' <=> InHands(m, Callers),
           InHands(m, Drainers)' <=> InHands(m, Drainers),
           HasRow(m, {"queued"})' <=> HasRow(m, {"queued"}),
           HasRow(m, Gone)' <=> HasRow(m, Gone),
           m \in arrived' <=> m \in arrived
    PROVE  Fate'[m] = Fate[m]
  BY DEF Fate, FateOf, Gone

\* One message goes from one place to another, and the others stay.
Carried(m, from, to) ==
    /\ Fate[m] \in from /\ Fate'[m] = to
    /\ \A n \in Messages : n # m => Fate'[n] = Fate[n]

LEMMA CarriedGoes ==
    ASSUME NEW m \in Messages, NEW from, NEW to, Carried(m, from, to)
    PROVE  Delivery!Goes(m, from, to)
  BY DEF Carried, Delivery!Goes, Fate

\* What the worker that holds m does is nothing to the other messages' hands.
LEMMA OtherHands ==
    ASSUME NEW m \in Messages, NEW w \in Workers, NEW ws \in SUBSET Workers,
           Pending(w) => holding[w] = m, Pending(w)' => holding'[w] = m,
           \A v \in Workers \ {w} : pc'[v] = pc[v] /\ holding'[v] = holding[v],
           NEW n \in Messages, n # m
    PROVE  InHands(n, ws)' <=> InHands(n, ws)
  BY DEF InHands, Pending

\* Whose hands a pending message is in, and that the table does not offer it.
LEMMA HandOf ==
    ASSUME PlacedInv, NEW w \in Workers, Pending(w)
    PROVE  /\ holding[w] \in Messages /\ effects[holding[w]] = 0
           /\ holding[w] \in arrived
           /\ \A v \in Workers : Pending(v) /\ holding[v] = holding[w] => v = w
           /\ ~HasRow(holding[w], {"queued"})
           /\ w \in Callers => /\ Fate[holding[w]] = "taken"
                               /\ ~HasRow(holding[w], Gone)
           /\ w \in Drainers => /\ Fate[holding[w]] = "dispatched"
                                /\ HasRow(holding[w], Gone)
           /\ Fate[holding[w]] \in Delivery!Hands
  <1> USE WorkersAssumption DEF PlacedInv, Workers
  <1>1. holding[w] \in Messages
    BY DEF OnceInv, InHand, Holds
  <1>2. holding[w] \in arrived /\ effects[holding[w]] = 0
    BY DEF OnceInv, Once, HandsFresh
  <1>3. \A v \in Workers : Pending(v) /\ holding[v] = holding[w] => v = w
    BY DEF OnceInv, Once, HandsApart
  <1>4. ~HasRow(holding[w], {"queued"})
    BY DEF OnceInv, Once, HandsOffRows, HasRow, Queued
  <1>5. ASSUME w \in Callers
        PROVE  Fate[holding[w]] = "taken" /\ ~HasRow(holding[w], Gone)
    <2>1. InHands(holding[w], Callers)
      BY <1>5 DEF InHands, Pending
    <2>2. ~HasRow(holding[w], Gone)
      BY <1>5 DEF Placed, TakenHasNoRow, HasRow
    <2> QED
      BY <1>1, <1>2, <2>1, <2>2 DEF Fate, FateOf
  <1>6. ASSUME w \in Drainers
        PROVE  Fate[holding[w]] = "dispatched" /\ HasRow(holding[w], Gone)
    <2>1. InHands(holding[w], Drainers) /\ ~InHands(holding[w], Callers)
      BY <1>3, <1>6 DEF InHands, Pending
    <2>2. HasRow(holding[w], Gone)
      BY <1>6 DEF Placed, HeldRowIsGone, SafeInv, Sure, HasRow, Holds
    <2> QED
      BY <1>1, <1>2, <2>1, <2>2 DEF Fate, FateOf
  <1> QED
    BY <1>1, <1>2, <1>3, <1>4, <1>5, <1>6 DEF Delivery!Hands

LEMMA ArriveMaps ==
    ASSUME PlacedInv, NEW c \in Callers, NEW m \in Messages, Arrive(c, m)
    PROVE  Delivery!Take(m)
  <1> USE WorkersAssumption DEF PlacedInv
  <1>1. /\ c \in Workers /\ ~Pending(c) /\ Pending(c)' /\ holding'[c] = m
        /\ \A w \in Workers \ {c} : pc'[w] = pc[w] /\ holding'[w] = holding[w]
        /\ m \notin arrived /\ arrived' = arrived \cup {m}
        /\ up /\ UNCHANGED <<up, items, effects, accepted>>
    BY DEF Arrive, Goes, OnceInv, TypeOK, Workers, Pending, tableVars, appVars
  <1>2. effects[m] = 0 /\ \A w \in Workers : ~(Pending(w) /\ holding[w] = m)
    BY <1>1 DEF OnceInv, Once, Counted, HandsFresh
  <1>3. \A S : ~HasRow(m, S)
    BY <1>1 DEF Placed, RowsArrived, HasRow
  <1>4. Fate[m] = "unsent"
    BY <1>1, <1>2, <1>3 DEF Fate, FateOf, InHands, Pending, Workers
  <1>5. Fate'[m] = "taken"
    <2>1. InHands(m, Callers)'
      BY <1>1 DEF InHands, Pending
    <2> QED
      BY <1>1, <1>2, <2>1 DEF Fate, FateOf
  <1>6. ASSUME NEW n \in Messages, n # m
        PROVE  Fate'[n] = Fate[n]
    <2>1. /\ InHands(n, Callers)' <=> InHands(n, Callers)
          /\ InHands(n, Drainers)' <=> InHands(n, Drainers)
      BY <1>1, <1>6 DEF InHands, Pending, Workers
    <2>2. \A S : HasRow(n, S)' <=> HasRow(n, S)
      BY <1>1 DEF HasRow
    <2> QED
      BY <1>1, <1>6, <2>1, <2>2, FateStays
  <1>7. Carried(m, {"unsent"}, "taken")
    BY <1>4, <1>5, <1>6 DEF Carried
  <1> QED
    BY <1>1, <1>7, CarriedGoes DEF Delivery!Take

\* A worker that lets go of its message and leaves the table alone acts on it.
LEMMA ActMaps ==
    ASSUME PlacedInv, NEW w \in Workers, StartWork(w) \/ ActOn(w), UNCHANGED items,
           effects' = [effects EXCEPT ![holding[w]] = @ + 1]
    PROVE  Delivery!Act(holding[w])
  <1> USE DEF PlacedInv
  <1> DEFINE m == holding[w]
  <1>1. /\ Pending(w) /\ ~Pending(w)' /\ UNCHANGED <<holding, arrived, up, accepted>>
        /\ \A v \in Workers \ {w} : pc'[v] = pc[v]
    <2>1. Pending(w) /\ UNCHANGED <<holding, arrived, up, accepted>>
      BY DEF StartWork, ActOn, Goes, Pending, appVars
    <2>2. CASE ActOn(w)
      BY <2>1, <2>2 DEF ActOn, Goes, Pending, OnceInv, TypeOK
    <2>3. CASE StartWork(w)
      <3>1. ~agentRunning
        BY <2>1, <2>3, HandOf DEF StartWork, OnceInv, TypeOK
      <3> QED
        BY <2>1, <2>3, <3>1 DEF StartWork, Pending, OnceInv, TypeOK
    <2> QED
      BY <2>1, <2>2, <2>3
  <1>2. m \in Messages /\ effects[m] = 0 /\ Fate[m] \in Delivery!Hands
    BY <1>1, HandOf
  <1>3. Fate'[m] = "acted"
    BY <1>2 DEF Fate, FateOf, OnceInv, TypeOK
  <1>4. ASSUME NEW n \in Messages, n # m
        PROVE  Fate'[n] = Fate[n]
    <2>1. /\ InHands(n, Callers)' <=> InHands(n, Callers)
          /\ InHands(n, Drainers)' <=> InHands(n, Drainers)
      BY <1>1, <1>2, <1>4, OtherHands DEF Workers
    <2>2. \A S : HasRow(n, S)' <=> HasRow(n, S)
      BY DEF HasRow
    <2>3. effects'[n] = effects[n]
      BY <1>2, <1>4 DEF OnceInv, TypeOK
    <2> QED
      BY <1>1, <1>4, <2>1, <2>2, <2>3, FateStays
  <1>5. Carried(m, Delivery!Hands, "acted")
    BY <1>2, <1>3, <1>4 DEF Carried
  <1>6. Delivery!Goes(m, Delivery!Hands, "acted")
    BY <1>2, <1>5, CarriedGoes
  <1> QED
    BY <1>1, <1>6 DEF Delivery!Act

LEMMA EnqueueMaps ==
    ASSUME PlacedInv, NEW w \in Workers, Enqueue(w)
    PROVE  holding[w] \in Messages /\ Delivery!Queue(holding[w])
  <1> USE DEF PlacedInv
  <1>0. PICK m \in Messages : m = holding[w]
    BY HandOf DEF Enqueue, Goes, Pending
  <1> DEFINE row == [message |-> m, status |-> "queued"]
             new == Len(items) + 1
  <1>1. /\ Pending(w) /\ ~Pending(w)' /\ items' = Append(items, row)
        /\ UNCHANGED <<holding, arrived, up, accepted, effects>>
        /\ \A v \in Workers \ {w} : pc'[v] = pc[v]
    BY <1>0 DEF Enqueue, Goes, Pending, OnceInv, TypeOK, appVars, messageVars
  <1>2. /\ m \in Messages /\ effects[m] = 0 /\ Fate[m] \in Delivery!Hands
        /\ \A v \in Workers : Pending(v) /\ holding[v] = m => v = w
    BY <1>0, <1>1, HandOf
  <1>3. items \in Seq(Rows) /\ row \in Rows
    BY <1>2 DEF OnceInv, TypeOK, Rows, Statuses
  <1>4. /\ DOMAIN items' = DOMAIN items \cup {new}
        /\ \A i \in DOMAIN items : items'[i] = items[i]
        /\ items'[new].message = m /\ items'[new].status = "queued"
    BY <1>1, <1>3, AppendRow
  <1> HIDE DEF row, new
  <1>5. Fate'[m] = "waiting"
    <2>1. ~InHands(m, Callers)' /\ ~InHands(m, Drainers)'
      BY <1>0, <1>1, <1>2 DEF InHands, Pending, Workers
    <2>2. HasRow(m, {"queued"})'
      BY <1>4 DEF HasRow
    <2> QED
      BY <1>1, <1>2, <2>1, <2>2 DEF Fate, FateOf
  <1>6. ASSUME NEW n \in Messages, n # m
        PROVE  Fate'[n] = Fate[n]
    <2>1. /\ InHands(n, Callers)' <=> InHands(n, Callers)
          /\ InHands(n, Drainers)' <=> InHands(n, Drainers)
      BY <1>0, <1>1, <1>2, <1>6, OtherHands DEF Workers
    <2>2. \A S : HasRow(n, S)' <=> HasRow(n, S)
      BY <1>4, <1>6 DEF HasRow
    <2> QED
      BY <1>1, <1>6, <2>1, <2>2, FateStays
  <1>7. Carried(m, Delivery!Hands, "waiting")
    BY <1>2, <1>5, <1>6 DEF Carried
  <1>8. Delivery!Goes(m, Delivery!Hands, "waiting")
    BY <1>2, <1>7, CarriedGoes
  <1> QED
    BY <1>0, <1>1, <1>2, <1>8 DEF Delivery!Queue

LEMMA PopMaps ==
    ASSUME PlacedInv, NEW d \in Drainers, DrainPops(d)
    PROVE  \E m \in Messages : Delivery!Dispatch(m)
  <1> USE WorkersAssumption DEF PlacedInv
  <1>1. /\ d \in Workers /\ d \notin Callers /\ ~Pending(d)
        /\ UNCHANGED <<arrived, effects, accepted, up>>
    BY DEF DrainPops, Workers, messageVars, appVars, Pending
  <1>2. PICK i \in Queued :
           /\ items' = SetStatus(items, i, "dispatching")
           /\ holding' = [holding EXCEPT ![d] = items[i].message]
           /\ \E to \in {"act", "look"} : pc' = [pc EXCEPT ![d] = to]
    BY DEF DrainPops, Popped
  <1>0. PICK m \in Messages : m = items[i].message
    BY RowsHold DEF OnceInv, Queued
  <1>3. /\ DOMAIN items' = DOMAIN items /\ i \in DOMAIN items
        /\ \A j \in DOMAIN items :
              /\ items'[j].message = items[j].message
              /\ items'[j].status = IF j = i THEN "dispatching" ELSE items[j].status
    BY <1>2, SetStatusRows DEF OnceInv, TypeOK, Statuses, Queued
  <1>4. /\ m \in Messages /\ m \in arrived /\ effects[m] = 0
        /\ \A v \in Workers : Pending(v) => holding[v] # m
    BY <1>0, <1>2 DEF OnceInv, Once, RowsFresh, HandsOffRows
  <1>5. /\ Pending(d)' /\ holding'[d] = m
        /\ \A w \in Workers \ {d} : pc'[w] = pc[w] /\ holding'[w] = holding[w]
    BY <1>0, <1>1, <1>2 DEF OnceInv, TypeOK, Pending
  <1>6. Fate[m] = "waiting"
    <2>1. HasRow(m, {"queued"}) /\ ~InHands(m, Callers) /\ ~InHands(m, Drainers)
      BY <1>0, <1>2, <1>3, <1>4 DEF HasRow, InHands, Pending, Workers, Queued
    <2> QED
      BY <1>4, <2>1 DEF Fate, FateOf
  <1>7. Fate'[m] = "dispatched"
    <2>1. InHands(m, Drainers)' /\ ~InHands(m, Callers)'
      BY <1>1, <1>4, <1>5 DEF InHands, Pending, Workers
    <2> QED
      BY <1>1, <1>4, <2>1 DEF Fate, FateOf
  <1>8. ASSUME NEW n \in Messages, n # m
        PROVE  Fate'[n] = Fate[n]
    <2>1. /\ InHands(n, Callers)' <=> InHands(n, Callers)
          /\ InHands(n, Drainers)' <=> InHands(n, Drainers)
      BY <1>1, <1>5, <1>8 DEF InHands, Pending, Workers
    <2>2. \A S : HasRow(n, S)' <=> HasRow(n, S)
      BY <1>0, <1>3, <1>8 DEF HasRow
    <2> QED
      BY <1>1, <1>8, <2>1, <2>2, FateStays
  <1>9. Carried(m, {"waiting"}, "dispatched")
    BY <1>6, <1>7, <1>8 DEF Carried
  <1> QED
    BY <1>1, <1>4, <1>9, CarriedGoes DEF Delivery!Dispatch

LEMMA MarksMap ==
    ASSUME PlacedInv, NEW d \in Drainers, DrainMarks(d)
    PROVE  UNCHANGED Delivery!vars
  <1> USE WorkersAssumption DEF PlacedInv
  <1>1. PICK status \in {"requeued", "done"} : items' = SetStatus(items, item[d], status)
    BY DEF DrainMarks
  <1>2. /\ d \in Workers /\ Holds(d) /\ ~Pending(d) /\ ~Pending(d)'
        /\ \A w \in Workers \ {d} : pc'[w] = pc[w] /\ holding'[w] = holding[w]
        /\ UNCHANGED <<arrived, effects, accepted, up>>
    BY DEF DrainMarks, Workers, messageVars, appVars, OnceInv, TypeOK, Holds, Pending
  <1>3. /\ DOMAIN items' = DOMAIN items
        /\ \A j \in DOMAIN items :
              /\ items'[j].message = items[j].message
              /\ items'[j].status = IF j = item[d] THEN status ELSE items[j].status
    BY <1>1, SetStatusRows DEF OnceInv, TypeOK, Statuses
  <1>4. /\ holding[d] \in Messages /\ item[d] \in DOMAIN items
        /\ items[item[d]].message = holding[d] /\ items[item[d]].status \in Gone
        /\ effects[holding[d]] > 0 \/ WaitsElsewhere(d)
    BY <1>2 DEF OnceInv, InHand, SafeInv, Sure, Placed, HeldRowIsGone, DrainMarks
  <1>5. ASSUME NEW n \in Messages
        PROVE  Fate'[n] = Fate[n]
    <2>1. \A ws \in {Callers, Drainers} : InHands(n, ws)' <=> InHands(n, ws)
      BY <1>2 DEF InHands, Pending, Workers
    <2>2. HasRow(n, {"queued"})' <=> HasRow(n, {"queued"})
      BY <1>3, <1>4 DEF HasRow, Gone
    <2>3. CASE effects[n] > 0
      BY <1>2, <2>3 DEF Fate, FateOf
    <2>4. CASE HasRow(n, {"queued"})
      BY <1>2, <2>1, <2>2, <2>4 DEF Fate, FateOf
    <2>5. CASE ~(effects[n] > 0) /\ ~HasRow(n, {"queued"})
      <3>1. HasRow(n, Gone)' <=> HasRow(n, Gone)
        <4>1. CASE n # holding[d]
          BY <1>3, <1>4, <4>1 DEF HasRow
        <4>2. CASE n = holding[d]
          <5>1. PICK i \in DOMAIN items : /\ i # item[d] /\ items[i].message = n
                                          /\ items[i].status \in KeptStatuses
            BY <1>4, <2>5, <4>2 DEF WaitsElsewhere
          <5>2. items[i].status \in Gone
            BY <2>5, <5>1 DEF HasRow, KeptStatuses, Gone
          <5> QED
            BY <1>3, <5>1, <5>2 DEF HasRow
        <4> QED
          BY <4>1, <4>2
      <3> QED
        BY <1>2, <2>1, <2>2, <3>1, FateStays
    <2> QED
      BY <2>3, <2>4, <2>5
  <1>6. Fate' = Fate
    BY <1>5 DEF Fate
  <1> QED
    BY <1>2, <1>6 DEF Delivery!vars

\* Steps that neither empty or fill a worker's hands nor change a row.
LEMMA FatesStay ==
    ASSUME \A w \in Workers : /\ Pending(w)' <=> Pending(w)
                              /\ Pending(w) => holding'[w] = holding[w],
           UNCHANGED <<items, effects, arrived>>
    PROVE  UNCHANGED Fate
  <1>1. ASSUME NEW n \in Messages
        PROVE  Fate'[n] = Fate[n]
    <2>1. /\ InHands(n, Callers)' <=> InHands(n, Callers)
          /\ InHands(n, Drainers)' <=> InHands(n, Drainers)
      BY DEF InHands, Pending, Workers
    <2>2. \A S : HasRow(n, S)' <=> HasRow(n, S)
      BY DEF HasRow
    <2> QED
      BY <2>1, <2>2, FateStays
  <1> QED
    BY <1>1 DEF Fate

LEMMA RespondMaps ==
    ASSUME PlacedInv, NEW c \in Callers, Respond(c)
    PROVE  holding[c] \in Messages /\ Delivery!Answer(holding[c])
  <1> USE WorkersAssumption DEF PlacedInv, Workers
  <1>1. /\ Holds(c) /\ ~Pending(c) /\ ~Pending(c)' /\ holding[c] \in Messages
        /\ \A w \in Workers \ {c} : pc'[w] = pc[w] /\ holding'[w] = holding[w]
        /\ UNCHANGED <<up, items, effects, arrived>>
        /\ accepted' = accepted \cup {holding[c]}
    BY DEF Respond, Holds, Pending, OnceInv, TypeOK, InHand, tableVars, appVars
  <1>2. UNCHANGED Fate
    BY <1>1, FatesStay DEF Pending
  <1>3. Safe(holding[c])
    BY <1>1 DEF SafeInv, Sure, Respond, Safe
  <1>4. Fate[holding[c]] \in {"waiting", "dispatched", "acted", "stopped"}
    <2>1. CASE effects[holding[c]] > 0
      BY <1>1, <2>1 DEF Fate, FateOf
    <2>2. CASE Waits(holding[c])
      <3>1. HasRow(holding[c], {"queued"}) \/ HasRow(holding[c], Gone)
        BY <2>2 DEF Waits, HasRow, KeptStatuses, Gone
      <3>2. ~InHands(holding[c], Callers)
        BY <2>2 DEF Waits, Placed, TakenHasNoRow, InHands, Pending
      <3> QED
        BY <1>1, <3>1, <3>2 DEF Fate, FateOf, Gone
    <2> QED
      BY <1>3, <2>1, <2>2 DEF Safe
  <1> QED
    BY <1>1, <1>2, <1>4 DEF Delivery!Answer

LEMMA CancelMaps ==
    ASSUME PlacedInv, CancelActive
    PROVE  Delivery!Cancel
  <1> USE DEF PlacedInv
  <1>1. /\ up /\ UNCHANGED <<up, pc, holding, effects, arrived, accepted>>
        /\ DOMAIN items' = DOMAIN items
        /\ \A i \in DOMAIN items : items'[i].message = items[i].message
    BY CancelRows DEF OnceInv, CancelActive, workerVars, messageVars, appVars
  <1>2. \A i \in DOMAIN items : items'[i].status =
           IF items[i].status \in {"queued", "dispatching"} THEN "cancelled" ELSE items[i].status
    BY RowsHold DEF OnceInv, CancelActive, Rows
  <1>3. ASSUME NEW n \in Messages
        PROVE  Fate'[n] = IF Fate[n] = "waiting" THEN "stopped" ELSE Fate[n]
    <2>1. /\ InHands(n, Callers)' <=> InHands(n, Callers)
          /\ InHands(n, Drainers)' <=> InHands(n, Drainers)
      BY <1>1 DEF InHands
    <2>2. ~HasRow(n, {"queued"})'
      BY <1>1, <1>2 DEF HasRow
    <2>3. HasRow(n, Gone)' <=> HasRow(n, Gone) \/ HasRow(n, {"queued"})
      BY <1>1, <1>2 DEF HasRow, Gone
    <2> QED
      BY <1>1, <2>1, <2>2, <2>3 DEF Fate, FateOf, Gone
  <1>4. Fate' = [n \in Messages |-> IF Fate[n] = "waiting" THEN "stopped" ELSE Fate[n]]
    BY <1>3 DEF Fate
  <1> QED
    BY <1>1, <1>4 DEF Delivery!Cancel

LEMMA CrashMaps ==
    ASSUME PlacedInv, Crash
    PROVE  Delivery!Crash
  <1> USE WorkersAssumption DEF PlacedInv
  <1>1. /\ up /\ UNCHANGED <<items, effects, arrived, accepted>>
        /\ \A w \in Workers : ~Pending(w)'
    BY DEF Crash, tableVars, messageVars, Pending
  <1>2. up' = FALSE
    BY DEF Crash
  <1>3. ASSUME NEW n \in Messages
        PROVE  Fate'[n] = IF Fate[n] = "taken" THEN "lost"
                          ELSE IF Fate[n] = "dispatched" THEN "stopped" ELSE Fate[n]
    <2>1. ~InHands(n, Callers)' /\ ~InHands(n, Drainers)'
      BY <1>1 DEF InHands, Pending, Workers
    <2>2. \A S : HasRow(n, S)' <=> HasRow(n, S)
      BY <1>1 DEF HasRow
    <2>3. ASSUME NEW w \in Workers, Pending(w), holding[w] = n
          PROVE  Fate'[n] = IF Fate[n] = "taken" THEN "lost"
                            ELSE IF Fate[n] = "dispatched" THEN "stopped" ELSE Fate[n]
      <3>1. CASE w \in Callers
        <4>1. /\ Fate[n] = "taken" /\ ~HasRow(n, {"queued"}) /\ ~HasRow(n, Gone)
              /\ effects[n] = 0 /\ n \in arrived
          BY <2>3, <3>1, HandOf
        <4> QED
          BY <1>1, <2>1, <2>2, <4>1 DEF Fate, FateOf, Gone
      <3>2. CASE w \in Drainers
        <4>1. /\ Fate[n] = "dispatched" /\ ~HasRow(n, {"queued"}) /\ HasRow(n, Gone)
              /\ effects[n] = 0
          BY <2>3, <3>2, HandOf
        <4> QED
          BY <1>1, <2>1, <2>2, <4>1 DEF Fate, FateOf, Gone
      <3> QED
        BY <3>1, <3>2 DEF Workers
    <2>4. CASE ~InHands(n, Callers) /\ ~InHands(n, Drainers)
      BY <1>1, <2>1, <2>2, <2>4 DEF Fate, FateOf
    <2> QED
      BY <2>3, <2>4 DEF InHands, Pending, Workers
  <1>4. Fate' = [n \in Messages |-> IF Fate[n] = "taken" THEN "lost"
                                    ELSE IF Fate[n] = "dispatched" THEN "stopped"
                                    ELSE Fate[n]]
    BY <1>3 DEF Fate
  <1> QED
    BY <1>1, <1>2, <1>4 DEF Delivery!Crash

\* Steps that are none of the messages' business.
LEMMA OtherStepsMap ==
    ASSUME PlacedInv,
           \/ \E w \in Workers : Look(w)
           \/ \E w \in Workers : StartWork(w) /\ UNCHANGED effects
           \/ \E d \in Drainers : DrainLooks(d) \/ DrainFindsNothing(d) \/ DrainGoesOn(d)
                                    \/ DrainEnds(d) \/ DrainStarts(d)
           \/ RunFinishes \/ DrainUnderWay \/ UserStartsRun \/ UNCHANGED vars
    PROVE  UNCHANGED Delivery!vars
  <1> USE DEF PlacedInv, Pending
  <1>1. UNCHANGED <<up, items, effects, arrived, accepted, holding>>
    BY DEF Look, StartWork, DrainLooks, DrainFindsNothing, DrainGoesOn, DrainEnds,
           DrainStarts, RunFinishes, DrainUnderWay, UserStartsRun, Goes, vars, tableVars,
           workerVars, messageVars, appVars
  <1>2. \A w \in Workers : Pending(w)' <=> Pending(w)
    <2>1. CASE RunFinishes \/ DrainUnderWay \/ UserStartsRun \/ UNCHANGED vars
      BY <2>1 DEF RunFinishes, DrainUnderWay, UserStartsRun, vars, workerVars
    <2>2. ASSUME NEW w \in Workers, Look(w)
          PROVE  \A v \in Workers : Pending(v)' <=> Pending(v)
      BY <2>2 DEF Look, Goes, OnceInv, TypeOK
    <2>3. ASSUME NEW w \in Workers, StartWork(w), UNCHANGED effects
          PROVE  \A v \in Workers : Pending(v)' <=> Pending(v)
      <3>1. holding[w] \in Messages
        BY <2>3, HandOf DEF StartWork
      <3>2. agentRunning
        BY <2>3, <3>1 DEF StartWork, Acts, OnceInv, TypeOK
      <3> QED
        BY <2>3, <3>2 DEF StartWork, OnceInv, TypeOK
    <2>4. ASSUME NEW d \in Drainers, DrainLooks(d) \/ DrainFindsNothing(d) \/ DrainGoesOn(d)
                                       \/ DrainEnds(d) \/ DrainStarts(d)
          PROVE  \A v \in Workers : Pending(v)' <=> Pending(v)
      BY <2>4 DEF DrainLooks, DrainFindsNothing, DrainGoesOn, DrainEnds, DrainStarts, Goes,
                  Workers, OnceInv, TypeOK
    <2> QED
      BY <2>1, <2>2, <2>3, <2>4
  <1>3. UNCHANGED Fate
    BY <1>1, <1>2, FatesStay
  <1> QED
    BY <1>1, <1>3 DEF Delivery!vars

LEMMA StepMaps ==
    ASSUME PlacedInv, [Next]_vars
    PROVE  [Delivery!Next]_(Delivery!vars)
  <1>1. ASSUME NEW c \in Callers, NEW m \in Messages, Arrive(c, m)
        PROVE  Delivery!Next
    BY <1>1, ArriveMaps DEF Delivery!Next
  <1>2. ASSUME NEW c \in Callers, Respond(c)
        PROVE  Delivery!Next
    BY <1>2, RespondMaps DEF Delivery!Next
  <1>3. ASSUME NEW w \in Workers, StartWork(w) \/ ActOn(w)
        PROVE  Delivery!Next \/ UNCHANGED Delivery!vars
    <2>1. holding[w] \in Messages /\ UNCHANGED items
      BY <1>3, HandOf DEF StartWork, ActOn, Goes, Pending, tableVars
    <2>2. CASE effects' = [effects EXCEPT ![holding[w]] = @ + 1]
      BY <1>3, <2>1, <2>2, ActMaps DEF Delivery!Next
    <2>3. CASE StartWork(w) /\ UNCHANGED effects
      BY <2>3, OtherStepsMap
    <2> QED
      BY <1>3, <2>2, <2>3 DEF StartWork, ActOn, Acts
  <1>4. ASSUME NEW w \in Workers, Enqueue(w)
        PROVE  Delivery!Next
    BY <1>4, EnqueueMaps DEF Delivery!Next
  <1>5. ASSUME NEW d \in Drainers, DrainPops(d)
        PROVE  Delivery!Next
    BY <1>5, PopMaps DEF Delivery!Next
  <1>6. ASSUME NEW d \in Drainers, DrainMarks(d)
        PROVE  UNCHANGED Delivery!vars
    BY <1>6, MarksMap
  <1>7. CASE CancelActive \/ Crash
    BY <1>7, CancelMaps, CrashMaps DEF Delivery!Next
  <1>8. CASE Restart
    <2>1. /\ ~up /\ UNCHANGED <<items, effects, arrived, accepted>>
          /\ \A w \in Workers : pc'[w] = pc[w] /\ holding'[w] = holding[w]
      BY <1>8 DEF Restart, tableVars, messageVars, workerVars
    <2>2. up' = TRUE
      BY <1>8 DEF Restart
    <2>3. UNCHANGED Fate
      BY <2>1, FatesStay DEF Pending
    <2> QED
      BY <2>1, <2>2, <2>3 DEF Delivery!Next, Delivery!Restart
  <1>9. CASE \/ \E w \in Workers : Look(w)
             \/ \E d \in Drainers : DrainLooks(d) \/ DrainFindsNothing(d) \/ DrainGoesOn(d)
                                      \/ DrainEnds(d) \/ DrainStarts(d)
             \/ RunFinishes \/ DrainUnderWay \/ UserStartsRun \/ UNCHANGED vars
    BY <1>9, OtherStepsMap
  <1> QED
    BY <1>1, <1>2, <1>3, <1>4, <1>5, <1>6, <1>7, <1>8, <1>9
       DEF Next, CallerProceeds, DrainProceeds, RunProceeds, Handles, Workers

\* The handlers, the table, the drain and the crashes implement the promise: a
\* message is in one place, is acted on once, waits whenever it is not acted
\* on, and drops out only by a crash or a cancellation.
THEOREM DeliveryKept == Spec => KeepsDelivery
  <1>1. Init => Delivery!Init
    <2> SUFFICES ASSUME Init
                 PROVE  Delivery!Init
      OBVIOUS
    <2>1. /\ accepted = {} /\ effects = [m \in Messages |-> 0]
          /\ arrived = {} /\ DOMAIN items = {} /\ \A w \in Workers : ~Pending(w)
      BY DEF Init, Pending
    <2>2. up = TRUE
      BY DEF Init
    <2>3. ASSUME NEW m \in Messages
          PROVE  FateOf(m) = "unsent"
      BY <2>1 DEF FateOf, InHands, HasRow, Pending, Workers
    <2>4. Fate = [m \in Messages |-> "unsent"]
      BY <2>3 DEF Fate
    <2> QED
      BY <2>1, <2>2, <2>4 DEF Delivery!Init
  <1> QED
    BY <1>1, StepMaps, PlacedKept, PTL DEF Spec, Delivery!Spec, KeepsDelivery
=============================================================================
