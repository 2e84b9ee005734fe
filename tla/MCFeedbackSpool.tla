---------------------------- MODULE MCFeedbackSpool ----------------------------
(* Instances of FeedbackSpool for TLC: B1 is a batch of two findings, which     *)
(* take two messages, and B2 one of a single finding.                           *)
EXTENDS FeedbackSpool, TLC

CONSTANTS B1, B2, A1, A2, H1, H2

TwoFindings == [batch \in Batches |-> IF batch = B1 THEN {1, 2} ELSE {3}]

\* B2 reports one of the findings of B1 again.
SharedFinding == [batch \in Batches |-> IF batch = B1 THEN {1, 2} ELSE {2}]

\* B2 is of the second session's generation ...
InGenerations == [batch \in Batches |-> IF batch = B1 THEN 0 ELSE 1]

\* ... or of the same session's as B1.
InOneGeneration == [batch \in Batches |-> 0]

\* Hooks are alike; sound for invariants and what one step may do.
HookSymmetry == Permutations(Hooks)

===============================================================================
