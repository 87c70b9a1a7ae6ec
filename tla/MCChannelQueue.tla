--------------------------- MODULE MCChannelQueue ---------------------------
\* A channel caller, places for two drains, and a message of each lane.
EXTENDS ChannelQueue, TLC

CONSTANTS c1, d1, d2, task, ask, key, note

MCMessages == {task, ask, key, note}
MCLaneOf ==
    (task :> "work") @@ (ask :> "chat") @@ (key :> "action") @@ (note :> "note")
MCTwoMessages == {task, ask}
MCTwoLanes == (task :> "work") @@ (ask :> "chat")
MCOneCaller == {c1}
MCDrainers == {d1, d2}
=============================================================================
