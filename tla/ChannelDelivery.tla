--------------------------- MODULE ChannelDelivery ---------------------------
(***************************************************************************)
(* What the channels promise to whoever writes to them, with the handlers, *)
(* the rows, the drain and the runs left out.  A message is taken, and from*)
(* then on it is in one place: it is acted on or waits, and each time it   *)
(* waits it is dispatched again, to be acted on or to wait once more.  It  *)
(* is acted on once; only after it left the hands that took it is its      *)
(* sender answered; and it drops out in two ways only, by a crash while it *)
(* is in somebody's hands or by a cancellation while it waits.             *)
(***************************************************************************)
EXTENDS Naturals

CONSTANT Messages

VARIABLES
    up,         \* the app runs
    fate,       \* where each message is
    effects,    \* how often it has been acted on
    answered    \* the messages whose sender has an answer

vars == <<up, fate, effects, answered>>

Hands == {"taken", "dispatched"}
Fates == {"unsent", "waiting", "acted", "stopped", "lost"} \cup Hands

Init ==
    /\ up = TRUE
    /\ fate = [m \in Messages |-> "unsent"]
    /\ effects = [m \in Messages |-> 0]
    /\ answered = {}

Goes(m, from, to) == fate[m] \in from /\ fate' = [fate EXCEPT ![m] = to]

Take(m) == up /\ Goes(m, {"unsent"}, "taken") /\ UNCHANGED <<up, effects, answered>>
Queue(m) == Goes(m, Hands, "waiting") /\ UNCHANGED <<up, effects, answered>>
Dispatch(m) == Goes(m, {"waiting"}, "dispatched") /\ UNCHANGED <<up, effects, answered>>
Act(m) ==
    /\ Goes(m, Hands, "acted")
    /\ effects' = [effects EXCEPT ![m] = @ + 1]
    /\ UNCHANGED <<up, answered>>

\* The answer says that the message was acted on or is kept, no more.
Answer(m) ==
    /\ fate[m] \in {"waiting", "dispatched", "acted", "stopped"}
    /\ answered' = answered \cup {m}
    /\ UNCHANGED <<up, fate, effects>>

\* A cancellation stops what waits, all of it, and nothing else.
Cancel ==
    /\ up
    /\ fate' = [m \in Messages |-> IF fate[m] = "waiting" THEN "stopped" ELSE fate[m]]
    /\ UNCHANGED <<up, effects, answered>>

\* A crash stops what was dispatched, with its row to show for it, and loses
\* what had only been taken.
Crash ==
    /\ up
    /\ up' = FALSE
    /\ fate' = [m \in Messages |-> IF fate[m] = "taken" THEN "lost"
                                   ELSE IF fate[m] = "dispatched" THEN "stopped"
                                   ELSE fate[m]]
    /\ UNCHANGED <<effects, answered>>
Restart == ~up /\ up' = TRUE /\ UNCHANGED <<fate, effects, answered>>

Next ==
    \/ \E m \in Messages : Take(m) \/ Queue(m) \/ Dispatch(m) \/ Act(m) \/ Answer(m)
    \/ Cancel \/ Crash \/ Restart

Spec == Init /\ [][Next]_vars
=============================================================================
