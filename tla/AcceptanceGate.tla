--------------------------- MODULE AcceptanceGate ---------------------------
(***************************************************************************)
(* What the control plane promises about the end of a run, with nothing    *)
(* of how it keeps the promise.  A run is open until it is settled, once.  *)
(* While it is open, acceptance checks are proven one after another (and   *)
(* all proofs are thrown away when the user revises the task).  It can be  *)
(* settled as accepted only when every required check is proven; it can be *)
(* refused at any time.                                                    *)
(***************************************************************************)
CONSTANT Checks

VARIABLES
    outcome,    \* "open", "accepted" or "refused"
    required,   \* the checks this run must pass
    proven      \* the required checks some evidence has been accepted for

gateVars == <<outcome, required, proven>>

Init ==
    /\ outcome = "open"
    /\ required \in SUBSET Checks
    /\ proven = {}

\* Evidence arrives for some required checks and the run stays open.
Prove ==
    /\ outcome = "open"
    /\ proven \subseteq proven'
    /\ proven' \subseteq required
    /\ UNCHANGED <<outcome, required>>

\* The last missing evidence arrives and the run is accepted.
Accept ==
    /\ outcome = "open"
    /\ outcome' = "accepted"
    /\ proven' = required
    /\ UNCHANGED required

Refuse ==
    /\ outcome = "open"
    /\ outcome' = "refused"
    /\ UNCHANGED <<required, proven>>

\* The user revised the task: nothing proven so far counts any more.
Restart ==
    /\ outcome = "open"
    /\ proven' = {}
    /\ UNCHANGED <<outcome, required>>

Next == Prove \/ Accept \/ Refuse \/ Restart

Spec == Init /\ [][Next]_gateVars
=============================================================================
