-------------------------- MODULE EngagementClaims --------------------------
(***************************************************************************)
(* What the engagement grid promises, with the snapshots, revisions, leases*)
(* and phases left out: every item is held by at most one claimant, a      *)
(* claimant holds at most one item, only an item somebody holds can be     *)
(* reported on, and a run of it counts as completed only when it was       *)
(* reported on without the item changing hands since.                      *)
(***************************************************************************)
EXTENDS Integers

CONSTANTS
    Works, Claimants,
    Nobody          \* no claimant

VARIABLES
    holder,     \* who holds the item
    reported,   \* the run now under way has a result
    completed   \* the runs of the item that were completed

vars == <<holder, reported, completed>>

Init ==
    /\ holder = [w \in Works |-> Nobody]
    /\ reported = [w \in Works |-> FALSE]
    /\ completed = [w \in Works |-> 0]

\* The items in lost are let go of (released, or their leases ran out): the
\* result of an unfinished run is void with the claim it was reported under.
Held == {w \in Works : holder[w] # Nobody}
HolderAfter(lost) == [w \in Works |-> IF w \in lost THEN Nobody ELSE holder[w]]
ReportedAfter(lost) == [w \in Works |-> reported[w] /\ w \notin lost]

Lose(lost) ==
    /\ holder' = HolderAfter(lost)
    /\ reported' = ReportedAfter(lost)
    /\ UNCHANGED completed

Take(lost, w, c) ==
    /\ HolderAfter(lost)[w] = Nobody
    /\ \A other \in Works : HolderAfter(lost)[other] # c
    /\ holder' = [HolderAfter(lost) EXCEPT ![w] = c]
    /\ reported' = ReportedAfter(lost)
    /\ UNCHANGED completed

Report(lost, w) ==
    /\ HolderAfter(lost)[w] # Nobody
    /\ holder' = HolderAfter(lost)
    /\ reported' = [ReportedAfter(lost) EXCEPT ![w] = TRUE]
    /\ UNCHANGED completed

Complete(lost, w) ==
    /\ HolderAfter(lost)[w] # Nobody
    /\ ReportedAfter(lost)[w]
    /\ holder' = [HolderAfter(lost) EXCEPT ![w] = Nobody]
    /\ reported' = [ReportedAfter(lost) EXCEPT ![w] = FALSE]
    /\ completed' = [completed EXCEPT ![w] = @ + 1]

Next ==
    \E lost \in SUBSET Held :
        \/ Lose(lost)
        \/ \E w \in Works :
               \/ \E c \in Claimants : Take(lost, w, c)
               \/ Report(lost, w)
               \/ Complete(lost, w)

Spec == Init /\ [][Next]_vars
=============================================================================
