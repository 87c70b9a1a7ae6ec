----------------------------- MODULE ChannelQueue -----------------------------
(***************************************************************************)
(* Messages from the channels (Telegram, API) and the queue they wait in   *)
(* while a run is active: channelbus/queue.go over its table, and the      *)
(* handlers and the drain goroutine of internal/app/channel_bus.go.        *)
(*                                                                         *)
(* A handler looks at agentRunning under the lock and acts on what it saw  *)
(* after: it enqueues, starts a run or answers.  The drain is started by   *)
(* the end of a run and hands queued items to the same handlers.  A run is *)
(* here only the flag and the call its finalizer makes (Conversations has  *)
(* the rest).  A message's lane stands for its route; items are in the     *)
(* order of their times; the table works (the list in memory that takes    *)
(* over when an insert fails is left out), and so do evals.                *)
(***************************************************************************)
EXTENDS Naturals, Sequences, FiniteSets

CONSTANTS
    Messages, LaneOf,   \* messages from the channels, and their lanes
    Callers, Drainers,  \* goroutines: of the channels, and places for drains
    NoMessage,
    MaxOwnRuns,         \* bound: runs the desktop user starts
    MaxCrashes          \* bound: crashes

\* "work" starts a run, "action" is a quick action or /terminal_send, "chat"
\* a side-chat question, "note" a note or an interrupt.
Lanes == {"work", "action", "chat", "note"}
Workers == Callers \cup Drainers

ASSUME LanesAssumption == LaneOf \in [Messages -> Lanes]
ASSUME WorkersAssumption == Callers \cap Drainers = {}
ASSUME NoMessageAssumption == NoMessage \notin Messages
ASSUME BoundsAssumption == MaxOwnRuns \in Nat /\ MaxCrashes \in Nat

VARIABLES
    up,                     \* the app runs
    agentRunning,           \* App.agentRunning
    finishing,              \* finalizers between the flag and their drain call
    items,                  \* table channel_work_queue, in order of created_at
    channelDrainRunning,    \* App.channelDrainRunning
    pc, holding, item,      \* each worker: where it stands, its message, its row
    arrived,                \* messages that have been sent to the app
    accepted,               \* messages whose sender has an answer
    effects,                \* how often a message has been acted on
    ownRuns, crashes        \* counted up to their bounds

tableVars == <<items>>
runVars == <<agentRunning, finishing, ownRuns>>
workerVars == <<pc, holding, item>>
messageVars == <<arrived, accepted, effects>>
appVars == <<up, crashes, channelDrainRunning>>
vars == <<tableVars, runVars, workerVars, messageVars, appVars>>

Statuses == {"queued", "dispatching", "cancelled", "requeued", "done"}
Rows == [message : Messages, status : Statuses]
NoItem == 0

Init ==
    /\ up = TRUE /\ crashes = 0
    /\ agentRunning = FALSE /\ finishing = 0 /\ ownRuns = 0
    /\ items = << >>
    /\ channelDrainRunning = FALSE
    /\ pc = [w \in Workers |-> "idle"]
    /\ holding = [w \in Workers |-> NoMessage]
    /\ item = [w \in Workers |-> NoItem]
    /\ arrived = {} /\ accepted = {}
    /\ effects = [m \in Messages |-> 0]

-----------------------------------------------------------------------------
Goes(w, from, to) == pc[w] = from /\ pc' = [pc EXCEPT ![w] = to]
Queued == {i \in DOMAIN items : items[i].status = "queued"}
SetStatus(rows, i, status) == [rows EXCEPT ![i].status = status]
Acts(m) == effects' = [effects EXCEPT ![m] = @ + 1]

\* Queue.PopNext, its row.  (Mutant: the row keeps its status.)
PoppedKept(i) == items' = items
Popped(i) == items' = SetStatus(items, i, "dispatching")

\* DispatchChannelMessage: a note is queued unseen, the other lanes look.
Arrive(c, m) ==
    /\ up
    /\ m \notin arrived
    /\ arrived' = arrived \cup {m}
    /\ Goes(c, "idle", IF LaneOf[m] = "note" THEN "enqueue" ELSE "look")
    /\ holding' = [holding EXCEPT ![c] = m]
    /\ UNCHANGED <<tableVars, runVars, item, accepted, effects, appVars>>

\* The handlers look at the flag, and decide.
Look(w) ==
    /\ Goes(w, "look", IF agentRunning THEN "enqueue" ELSE "act")
    /\ UNCHANGED <<tableVars, runVars, holding, item, messageVars, appVars>>

\* handleChannelWork: sendMessage takes the flag, or another run has it and
\* the request is queued after all.  (Mutant: it is not queued.)
StartWorkOrFail(w) ==
    /\ pc[w] = "act"
    /\ LaneOf[holding[w]] = "work"
    /\ agentRunning' = TRUE
    /\ pc' = [pc EXCEPT ![w] = IF agentRunning THEN "answered" ELSE "started"]
    /\ IF agentRunning THEN UNCHANGED effects ELSE Acts(holding[w])
    /\ UNCHANGED <<tableVars, finishing, ownRuns, holding, item, arrived,
                   accepted, appVars>>
StartWork(w) ==
    /\ pc[w] = "act"
    /\ LaneOf[holding[w]] = "work"
    /\ agentRunning' = TRUE
    /\ pc' = [pc EXCEPT ![w] = IF agentRunning THEN "enqueue" ELSE "started"]
    /\ IF agentRunning THEN UNCHANGED effects ELSE Acts(holding[w])
    /\ UNCHANGED <<tableVars, finishing, ownRuns, holding, item, arrived,
                   accepted, appVars>>

\* The other lanes do what they do whether or not a run has started since.
ActOn(w) ==
    /\ Goes(w, "act", "answered")
    /\ LaneOf[holding[w]] # "work"
    /\ Acts(holding[w])
    /\ UNCHANGED <<tableVars, runVars, holding, item, arrived, accepted, appVars>>

\* Queue.Enqueue, also of what the drain has just taken out.
Enqueue(w) ==
    /\ Goes(w, "enqueue", "queued")
    /\ items' = Append(items, [message |-> holding[w], status |-> "queued"])
    /\ UNCHANGED <<runVars, holding, item, messageVars, appVars>>

\* The sender gets the response.
Respond(c) ==
    /\ pc[c] \in {"queued", "started", "answered"}
    /\ pc' = [pc EXCEPT ![c] = "idle"]
    /\ accepted' = accepted \cup {holding[c]}
    /\ holding' = [holding EXCEPT ![c] = NoMessage]
    /\ UNCHANGED <<tableVars, runVars, item, arrived, effects, appVars>>

-----------------------------------------------------------------------------
\* The end of the finalizer: drainChannelQueueAsync starts a drain unless one
\* is under way.  (Mutant: whether or not one is.)
DrainAlways(d) ==
    /\ finishing > 0
    /\ finishing' = finishing - 1
    /\ channelDrainRunning' = TRUE
    /\ Goes(d, "idle", "top")
    /\ UNCHANGED <<tableVars, agentRunning, ownRuns, holding, item, messageVars,
                   up, crashes>>
DrainStarts(d) ==
    /\ finishing > 0
    /\ ~channelDrainRunning
    /\ finishing' = finishing - 1
    /\ channelDrainRunning' = TRUE
    /\ Goes(d, "idle", "top")
    /\ UNCHANGED <<tableVars, agentRunning, ownRuns, holding, item, messageVars,
                   up, crashes>>
DrainUnderWay ==
    /\ finishing > 0
    /\ channelDrainRunning
    /\ finishing' = finishing - 1
    /\ UNCHANGED <<tableVars, agentRunning, ownRuns, workerVars, messageVars, appVars>>

\* drainChannelQueue: look at the flag, take the oldest item, dispatch it,
\* mark it, and go on unless something runs.
DrainLooks(d) ==
    /\ Goes(d, "top", IF agentRunning THEN "leaving" ELSE "pop")
    /\ UNCHANGED <<tableVars, runVars, holding, item, messageVars, appVars>>
DrainPops(d) ==
    /\ pc[d] = "pop"
    /\ \E i \in Queued :
        /\ \A j \in Queued : i <= j
        /\ Popped(i)
        /\ item' = [item EXCEPT ![d] = i]
        /\ holding' = [holding EXCEPT ![d] = items[i].message]
        /\ pc' = [pc EXCEPT ![d] = IF LaneOf[items[i].message] \in {"chat", "note"}
                                   THEN "act" ELSE "look"]
    /\ UNCHANGED <<runVars, messageVars, appVars>>
\* (Mutant: the empty item of an empty queue is dispatched.)
DrainDispatchesNothing(d) ==
    /\ Queued = {}
    /\ Goes(d, "pop", "unsupported")
    /\ UNCHANGED <<tableVars, runVars, holding, item, messageVars, appVars>>
DrainFindsNothing(d) ==
    /\ Queued = {}
    /\ Goes(d, "pop", "leaving")
    /\ UNCHANGED <<tableVars, runVars, holding, item, messageVars, appVars>>
DrainMarks(d) ==
    /\ pc[d] \in {"queued", "started", "answered"}
    /\ items' = SetStatus(items, item[d], IF pc[d] = "queued" THEN "requeued" ELSE "done")
    /\ pc' = [pc EXCEPT ![d] = IF pc[d] = "started" THEN "leaving" ELSE "marked"]
    /\ holding' = [holding EXCEPT ![d] = NoMessage]
    /\ item' = [item EXCEPT ![d] = NoItem]
    /\ UNCHANGED <<runVars, messageVars, appVars>>

\* (Mutant: one item is enough.)
DrainGoesOnOnce(d) ==
    /\ Goes(d, "marked", "leaving")
    /\ UNCHANGED <<tableVars, runVars, holding, item, messageVars, appVars>>
DrainGoesOn(d) ==
    /\ Goes(d, "marked", IF agentRunning THEN "leaving" ELSE "top")
    /\ UNCHANGED <<tableVars, runVars, holding, item, messageVars, appVars>>
DrainEnds(d) ==
    /\ Goes(d, "leaving", "idle")
    /\ channelDrainRunning' = FALSE
    /\ UNCHANGED <<tableVars, runVars, holding, item, messageVars, up, crashes>>

-----------------------------------------------------------------------------
UserStartsRun ==
    /\ up
    /\ ~agentRunning
    /\ ownRuns < MaxOwnRuns
    /\ agentRunning' = TRUE
    /\ ownRuns' = ownRuns + 1
    /\ UNCHANGED <<tableVars, finishing, workerVars, messageVars, appVars>>
RunFinishes ==
    /\ agentRunning
    /\ agentRunning' = FALSE
    /\ finishing' = finishing + 1
    /\ UNCHANGED <<tableVars, ownRuns, workerVars, messageVars, appVars>>

\* Queue.CancelActive, in EmergencyStop.
CancelActive ==
    /\ up
    /\ items' = [i \in DOMAIN items |->
                   IF items[i].status \in {"queued", "dispatching"}
                   THEN [items[i] EXCEPT !.status = "cancelled"] ELSE items[i]]
    /\ UNCHANGED <<runVars, workerVars, messageVars, appVars>>

\* The app ends at any point; the table stays, and nothing drains it at the
\* next start.
Crash ==
    /\ up
    /\ crashes < MaxCrashes
    /\ up' = FALSE
    /\ crashes' = crashes + 1
    /\ agentRunning' = FALSE /\ finishing' = 0
    /\ channelDrainRunning' = FALSE
    /\ pc' = [w \in Workers |-> "idle"]
    /\ holding' = [w \in Workers |-> NoMessage]
    /\ item' = [w \in Workers |-> NoItem]
    /\ UNCHANGED <<tableVars, ownRuns, messageVars>>
Restart ==
    /\ ~up
    /\ up' = TRUE
    /\ UNCHANGED <<tableVars, runVars, workerVars, messageVars, crashes,
                   channelDrainRunning>>

Handles(w) == Look(w) \/ StartWork(w) \/ ActOn(w) \/ Enqueue(w)
CallerProceeds(c) == Handles(c) \/ Respond(c)
DrainProceeds(d) ==
    \/ Handles(d)
    \/ DrainLooks(d) \/ DrainPops(d) \/ DrainFindsNothing(d)
    \/ DrainMarks(d) \/ DrainGoesOn(d) \/ DrainEnds(d)
RunProceeds == RunFinishes \/ DrainUnderWay \/ \E d \in Drainers : DrainStarts(d)

Next ==
    \/ \E c \in Callers : CallerProceeds(c) \/ \E m \in Messages : Arrive(c, m)
    \/ \E d \in Drainers : DrainProceeds(d)
    \/ RunProceeds
    \/ UserStartsRun \/ CancelActive \/ Crash \/ Restart

\* Goroutines are scheduled, and what a run does once it has ended is done.
\* A run need never end, and nobody has to send, start, cancel or restart.
Spec ==
    /\ Init /\ [][Next]_vars
    /\ \A c \in Callers : WF_vars(CallerProceeds(c))
    /\ \A d \in Drainers : WF_vars(DrainProceeds(d))
    /\ WF_vars(DrainUnderWay \/ \E d \in Drainers : DrainStarts(d))

-----------------------------------------------------------------------------
TypeOK ==
    /\ up \in BOOLEAN /\ crashes \in 0..MaxCrashes
    /\ agentRunning \in BOOLEAN /\ finishing \in Nat /\ ownRuns \in 0..MaxOwnRuns
    /\ items \in Seq(Rows)
    /\ channelDrainRunning \in BOOLEAN
    /\ pc \in [Workers -> {"idle", "look", "act", "enqueue", "queued", "started",
                           "answered", "top", "pop", "marked", "leaving"}]
    /\ holding \in [Workers -> Messages \cup {NoMessage}]
    /\ item \in [Workers -> DOMAIN items \cup {NoItem}]
    /\ arrived \in SUBSET Messages /\ accepted \in SUBSET Messages
    /\ effects \in [Messages -> Nat]

\* One drain at a time, and the flag that says so is not left set: two would
\* start two runs, none would leave every later call of
\* drainChannelQueueAsync without effect.
OneDrain ==
    /\ \A d, e \in Drainers : pc[d] # "idle" /\ pc[e] # "idle" => d = e
    /\ channelDrainRunning <=> \E d \in Drainers : pc[d] # "idle"

\* A message is acted on at most once, however often it is queued again and
\* wherever the app crashes: PopNext marks the row before it is dispatched.
AtMostOnce == \A m \in Messages : effects[m] <= 1

\* A message whose sender was answered has been acted on or is in the table,
\* waiting, held by the drain or cancelled; crashes do not lose it.
NothingForgotten ==
    \A m \in accepted :
        \/ effects[m] > 0
        \/ \E i \in DOMAIN items :
              /\ items[i].message = m
              /\ items[i].status \in {"queued", "dispatching", "cancelled"}

\* Where a message is: acted on, in a worker's hands, in the table, or gone.
InHands(m, workers) ==
    \E w \in workers : pc[w] \in {"look", "act", "enqueue"} /\ holding[w] = m
HasRow(m, statuses) ==
    \E i \in DOMAIN items : items[i].message = m /\ items[i].status \in statuses
FateOf(m) ==
    IF effects[m] > 0 THEN "acted"
    ELSE IF InHands(m, Callers) THEN "taken"
    ELSE IF InHands(m, Drainers) THEN "dispatched"
    ELSE IF HasRow(m, {"queued"}) THEN "waiting"
    ELSE IF HasRow(m, {"dispatching", "cancelled"}) THEN "stopped"
    ELSE IF m \in arrived THEN "lost" ELSE "unsent"

Fate == [m \in Messages |-> FateOf(m)]

Delivery == INSTANCE ChannelDelivery WITH fate <- Fate, answered <- accepted

\* Every step of the handlers, the drain, the runs, an emergency stop or a
\* crash takes each message where ChannelDelivery lets it go, or nowhere: it is
\* acted on once, waits whenever it is not acted on, and is let go of only by a
\* crash or a cancellation.
KeepsDelivery == Delivery!Spec

\* A drain that starts goes on until the queue is empty or something runs.
Draining == \E d \in Drainers : pc[d] \notin {"idle", "started", "leaving"}
DrainEmpties == Draining ~> (agentRunning \/ Queued = {} \/ ~up)

\* "... will answer it as soon as the run is idle": items do not wait for
\* ever in an app in which nothing runs.
NothingStranded == []<>(agentRunning \/ Queued = {} \/ ~up)
=============================================================================
