-------------------------- MODULE MCReviewScheduler ---------------------------
(* Instances of ReviewScheduler for TLC.  Versions are numbers that only grow *)
(* unless a run says otherwise; the last one may be unreadable.               *)
EXTENDS ReviewScheduler, TLC

CONSTANTS a, b, c, r, s

\* One file goes through all versions, the others stop at version 3.
OneGrowingFile ==
    [p \in Paths |-> {e \in Contents \X Contents :
                         e[2] = e[1] + 1 /\ (p = a \/ e[2] <= 3)}]

\* A file may be changed and changed back.
RevertingEdits == [p \in Paths |-> {e \in Contents \X Contents : e[1] # e[2]}]

\* One file never stops changing, the others change once.
HotEdits ==
    [p \in Paths |-> IF p = a THEN {e \in Contents \X Contents : e[1] # e[2]}
                     ELSE {<<1, 2>>}]

\* The stable file b is reviewed although the hot file a never stops changing.
StableFileSettles == ChangeSettles(b)

\* Only one file changes, once; hints name the others as well.
OneEdit == [p \in Paths |-> IF p = a THEN {<<1, 2>>} ELSE {}]

\* Agents are alike; sound for safety properties.
AgentSymmetry == Permutations(Agents)

===============================================================================
