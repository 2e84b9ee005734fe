--------------------------- MODULE FeedbackDelivery ---------------------------
(***************************************************************************)
(* What the feedback spool promises: a published finding stays available   *)
(* to the agent's hooks until one of them has delivered it, or has found   *)
(* that the file it cites no longer holds the reviewed bytes.  A finding   *)
(* may be delivered more than once.                                        *)
(***************************************************************************)
CONSTANT Findings

VARIABLES
    available,  \* published and still offered
    delivered,  \* shown to an agent
    dropped     \* discarded because its file had changed

vars == <<available, delivered, dropped>>

Init ==
    /\ available = {}
    /\ delivered = {}
    /\ dropped = {}

Publish(S) ==
    /\ available' = available \union S
    /\ UNCHANGED <<delivered, dropped>>

Deliver(S) ==
    /\ S \subseteq available
    /\ delivered' = delivered \union S
    /\ UNCHANGED <<available, dropped>>

Drop(S) ==
    /\ S \subseteq available
    /\ dropped' = dropped \union S
    /\ UNCHANGED <<available, delivered>>

\* Only what was delivered or dropped is withdrawn.
Withdraw(S) ==
    /\ S \subseteq delivered \union dropped
    /\ available' = available \ S
    /\ UNCHANGED <<delivered, dropped>>

Next ==
    \E S \in SUBSET Findings :
        Publish(S) \/ Deliver(S) \/ Drop(S) \/ Withdraw(S)

Spec == Init /\ [][Next]_vars

===============================================================================
