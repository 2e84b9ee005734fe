---------------------------- MODULE MCChangeIngress ----------------------------
(* Instances of ChangeIngress for TLC.                                          *)
EXTENDS ChangeIngress, TLC

CONSTANTS b1, b2

\* Writes of the file that no agent edits leave it as it is, so that liveness can be
\* checked: they notify all the same.
AgentContents == [p \in Paths |-> IF p \in AgentPaths THEN Digests ELSE {b1}]

===============================================================================
