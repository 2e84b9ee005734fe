-------------------------- MODULE FeedbackSpoolProofs --------------------------
(***************************************************************************)
(* Theorems about FeedbackSpool, for any number of hooks, batches, agents  *)
(* and session generations, with concurrent hooks, kills and repeated      *)
(* publications of a fingerprint:                                          *)
(*   - the types,                                                          *)
(*   - no copy of a batch lacks a finding still to be delivered,           *)
(*   - what was published is offered to the hooks, or settled,             *)
(*   - a finding is printed only for the owner of its session generation,  *)
(*   - up to the first kill, hooks do not share a claim,                   *)
(* and, for one hook at a time,                                            *)
(*   - the spool implements FeedbackDelivery,                              *)
(*   - a finding is printed twice only if a hook was killed in between,    *)
(* and, for any number of hooks at once of which none is killed,           *)
(*   - the spool implements FeedbackDelivery,                              *)
(*   - a finding is printed once.                                          *)
(***************************************************************************)
EXTENDS FeedbackSpool, FiniteSetTheorems, TLAPS

USE DEF spool, history, Left, Arrived

(***************************************************************************)
(* Types.                                                                  *)
(***************************************************************************)
\* The idle process states are well typed.
LEMMA IdleTypes == IdleHook \in HookStates /\ IdlePublisher \in Publishers
  BY DEF IdleHook, IdlePublisher, HookStates, Publishers, AgentIds, BatchIds

\* The types hold at the start.
LEMMA InitTypes == Init => TypeOK
<1> SUFFICES ASSUME Init PROVE TypeOK
  OBVIOUS
<1>1. session \in Sessions
  BY BoundsAssumption DEF Init, Sessions, Generations, AgentIds
<1>2. crashes \in 0 .. MaxCrashes
  BY BoundsAssumption DEF Init
<1>3. hooks \in [Hooks -> HookStates] /\ publisher \in Publishers
  BY IdleTypes DEF Init
<1> QED
  BY <1>1, <1>2, <1>3 DEF Init, TypeOK, IdleHook, IdlePublisher, AgentIds

\* What only the environment does keeps the types.
LEMMA EnvironmentTypes == TypeOK /\ Environment => TypeOK'
<1> SUFFICES ASSUME TypeOK, Environment PROVE TypeOK'
  OBVIOUS
<1>1. ASSUME NEW f \in Findings, EditCitedFile(f) PROVE TypeOK'
  BY <1>1 DEF EditCitedFile, TypeOK
<1>2. CASE ReleaseSession
  <2>1. session' \in Sessions
    BY <1>2, BoundsAssumption
    DEF ReleaseSession, TypeOK, Sessions, Generations, AgentIds
  <2> QED
    BY <1>2, <2>1 DEF ReleaseSession, TypeOK
<1>3. ASSUME NEW b \in Batches, Expire(b) PROVE TypeOK'
  BY <1>3 DEF Expire, TypeOK
<1>4. ASSUME NEW h \in Hooks, KillHook(h) PROVE TypeOK'
  <2>1. hooks' \in [Hooks -> HookStates]
    BY <1>4, IdleTypes DEF KillHook, TypeOK
  <2>2. \A i \in Hooks :
          hooks'[i].pc \notin {"idle", "enter", "recover", "claim"} =>
            hooks'[i].batch \in Batches
    BY <1>4 DEF KillHook, TypeOK, IdleHook
  <2>3. interrupted' \subseteq Findings
    BY <1>4 DEF KillHook, TypeOK
  <2>4. crashes' \in 0 .. MaxCrashes
    BY <1>4, BoundsAssumption DEF KillHook, TypeOK
  <2> QED
    BY <1>4, <2>1, <2>2, <2>3, <2>4 DEF KillHook, TypeOK
<1>5. CASE KillPublisher
  <2>1. crashes' \in 0 .. MaxCrashes
    BY <1>5, BoundsAssumption DEF KillPublisher, TypeOK
  <2> QED
    BY <1>5, <2>1, IdleTypes DEF KillPublisher, TypeOK, IdlePublisher
<1> QED
  BY <1>1, <1>2, <1>3, <1>4, <1>5 DEF Environment

\* The steps of SpoolSink.publish keep the types.
LEMMA PublicationTypes == TypeOK /\ Publication => TypeOK'
<1> SUFFICES ASSUME TypeOK, Publication PROVE TypeOK'
  OBVIOUS
<1> USE DEF PublisherAt, PublisherReturns
<1>1. ASSUME NEW b \in Batches, StartPublish(b) PROVE TypeOK'
  BY <1>1 DEF StartPublish, TypeOK, Publishers, BatchIds
<1>2. CASE CheckPending
  BY <1>2, IdleTypes DEF CheckPending, TypeOK, Publishers, IdlePublisher
<1>3. CASE CheckClaimed
  BY <1>3, IdleTypes DEF CheckClaimed, TypeOK, Publishers, IdlePublisher
<1>4. CASE CheckAcknowledged
  BY <1>4, IdleTypes DEF CheckAcknowledged, TypeOK, Publishers, IdlePublisher
<1>5. CASE RecordBatch
  BY <1>5 DEF RecordBatch, TypeOK, Publishers
<1>6. CASE LinkBatch
  <2>1. publisher.batch \in Batches
    BY <1>6 DEF LinkBatch, TypeOK
  <2>2. pending' \in [Batches -> SUBSET Findings]
    BY <1>6, <2>1, BatchesAssumption DEF LinkBatch, TypeOK
  <2> QED
    BY <1>6, <2>2, IdleTypes DEF LinkBatch, TypeOK, IdlePublisher
<1> QED
  BY <1>1, <1>2, <1>3, <1>4, <1>5, <1>6 DEF Publication

\* One hook's record after an assignment to some of its fields.
LEMMA HookUpdate ==
  ASSUME TypeOK, NEW h \in Hooks, NEW k \in HookStates,
         hooks' = [hooks EXCEPT ![h] = k],
         k.pc \notin {"idle", "enter", "recover", "claim"} => k.batch \in Batches
  PROVE  /\ hooks' \in [Hooks -> HookStates]
         /\ \A i \in Hooks :
              hooks'[i].pc \notin {"idle", "enter", "recover", "claim"} =>
                hooks'[i].batch \in Batches
  BY DEF TypeOK

\* The steps of a hook keep the types.
LEMMA HookTypes ==
  ASSUME TypeOK, NEW h \in Hooks,
         (\E a \in Agents : StartHook(h, a)) \/ HookStep(h)
  PROVE  TypeOK'
<1> DEFINE HooksTyped ==
      /\ hooks' \in [Hooks -> HookStates]
      /\ \A i \in Hooks :
           hooks'[i].pc \notin {"idle", "enter", "recover", "claim"} =>
             hooks'[i].batch \in Batches
<1>t. hooks[h] \in HookStates /\ hooks \in [Hooks -> HookStates]
  BY DEF TypeOK
<1>1. ASSUME NEW a \in Agents, StartHook(h, a) PROVE TypeOK'
  <2>1. session' \in Sessions /\ owner' \in [Generations -> AgentIds]
    BY <1>1 DEF StartHook, TypeOK, Sessions, AgentIds
  <2>2. [IdleHook EXCEPT !.pc = "enter", !.agent = a] \in HookStates
    BY DEF IdleHook, HookStates, AgentIds, BatchIds
  <2>3. HooksTyped
    BY <1>1, <2>2, HookUpdate DEF StartHook, IdleHook
  <2> QED
    BY <1>1, <2>1, <2>3 DEF StartHook, TypeOK
<1>2. CASE EnterClaim(h)
  <2>1. [hooks[h] EXCEPT !.pc = "recover", !.todo = Present(claimed)] \in HookStates
    BY <1>t DEF HookStates, Present
  <2>2. HooksTyped
    <3>1. CASE session.state = "bound" /\ session.agent = hooks[h].agent
      <4> DEFINE k == [hooks[h] EXCEPT !.pc = "recover", !.todo = Present(claimed)]
      <4>1. hooks' = [hooks EXCEPT ![h] = k]
        BY <1>2, <3>1 DEF EnterClaim
      <4>2. k.pc = "recover"
        BY <1>t DEF HookStates
      <4>3. k \in HookStates
        BY <2>1
      <4> HIDE DEF k
      <4> QED
        BY <4>1, <4>2, <4>3, HookUpdate
    <3>2. CASE ~(session.state = "bound" /\ session.agent = hooks[h].agent)
      BY <1>2, <1>t, <3>2, IdleTypes, HookUpdate DEF EnterClaim, IdleHook
    <3> QED
      BY <3>1, <3>2
  <2> QED
    BY <1>2, <2>2 DEF EnterClaim, TypeOK
<1>3. CASE FindExpired(h)
  BY <1>3, <1>t DEF FindExpired, TypeOK, HookStates, BatchIds
<1>4. CASE PassClaim(h)
  BY <1>4, <1>t DEF PassClaim, TypeOK, HookStates
<1>5. CASE RecoverClaim(h)
  <2>1. HooksTyped
    BY <1>5, <1>t DEF RecoverClaim, TypeOK, HookStates, BatchIds
  <2>2. hooks[h].batch \in Batches
    BY <1>5 DEF RecoverClaim, TypeOK
  <2>3. /\ pending' \in [Batches -> SUBSET Findings]
        /\ claimed' \in [Batches -> SUBSET Findings]
        /\ expired' \subseteq Batches
    BY <1>5, <2>2 DEF RecoverClaim, TypeOK
  <2> QED
    BY <1>5, <2>1, <2>3 DEF RecoverClaim, TypeOK
<1>6. CASE ListPending(h)
  BY <1>6, <1>t DEF ListPending, TypeOK, HookStates, Present
<1>7. CASE Claim(h)
  <2>1. HooksTyped
    BY <1>7, <1>t DEF Claim, TypeOK, HookStates, BatchIds
  <2>2. /\ pending' \in [Batches -> SUBSET Findings]
        /\ claimed' \in [Batches -> SUBSET Findings]
        /\ expired' \subseteq Batches
    BY <1>7, <1>t DEF Claim, TypeOK, HookStates
  <2> QED
    BY <1>7, <2>1, <2>2 DEF Claim, TypeOK
<1>8. CASE PassPending(h)
  BY <1>8, <1>t DEF PassPending, TypeOK, HookStates
<1>9. CASE ClaimNothing(h)
  BY <1>9, <1>t, IdleTypes, HookUpdate DEF ClaimNothing, TypeOK, IdleHook
<1>10. CASE LoadClaim(h)
  <2>1. hooks[h].batch \in Batches
    BY <1>10 DEF LoadClaim, TypeOK
  <2> DEFINE payload == claimed[hooks[h].batch]
             k == [hooks[h] EXCEPT !.pc = IF payload = {} THEN "reject" ELSE "fresh",
                                   !.payload = payload]
  <2>2. hooks' = [hooks EXCEPT ![h] = k]
    BY <1>10 DEF LoadClaim
  <2>3. payload \subseteq Findings
    BY <2>1 DEF TypeOK
  <2> HIDE DEF payload
  <2>4. k \in HookStates /\ k.batch = hooks[h].batch
    BY <1>t, <2>3 DEF HookStates
  <2> HIDE DEF k
  <2>5. HooksTyped
    BY <2>1, <2>2, <2>4, HookUpdate
  <2> QED
    BY <1>10, <2>5 DEF LoadClaim, TypeOK
<1>11. CASE RejectClaim(h)
  <2>1. HooksTyped
    BY <1>11, <1>t, IdleTypes, HookUpdate DEF RejectClaim, IdleHook
  <2>2. /\ claimed' \in [Batches -> SUBSET Findings]
        /\ rejected' \in [Batches -> SUBSET Findings]
        /\ expired' \subseteq Batches
    BY <1>11 DEF RejectClaim, TypeOK
  <2> QED
    BY <1>11, <2>1, <2>2 DEF RejectClaim, TypeOK
<1>12. CASE DropStale(h)
  <2>1. hooks[h].batch \in Batches /\ hooks[h].payload \subseteq Findings
    BY <1>12, <1>t DEF DropStale, TypeOK, HookStates
  <2>2. HooksTyped
    BY <1>12, <1>t, <2>1 DEF DropStale, TypeOK, HookStates
  <2> QED
    BY <1>12, <2>1, <2>2 DEF DropStale, TypeOK
<1>13. CASE PrintChunk(h)
  <2>1. PICK S \in ChunksOf(hooks[h].payload) :
          /\ delivered' = delivered \union S
          /\ hooks' = [hooks EXCEPT
                        ![h].payload = Rest(hooks[h].payload, S),
                        ![h].pc = AfterChunk(Rest(hooks[h].payload, S))]
    BY <1>13 DEF PrintChunk
  <2>2. S \subseteq hooks[h].payload /\ hooks[h].payload \subseteq Findings
    BY <1>t DEF ChunksOf, HookStates
  <2>3. hooks[h].batch \in Batches
    BY <1>13 DEF PrintChunk, TypeOK
  <2>4. HooksTyped
    BY <1>t, <2>1, <2>2, <2>3 DEF TypeOK, HookStates, Rest, AfterChunk
  <2> QED
    BY <1>13, <2>1, <2>2, <2>4 DEF PrintChunk, TypeOK
<1>14. CASE Acknowledge(h)
  <2>1. HooksTyped
    BY <1>14, <1>t, IdleTypes, HookUpdate DEF Acknowledge, IdleHook
  <2>2. /\ claimed' \in [Batches -> SUBSET Findings]
        /\ acknowledged' \in [Batches -> SUBSET Findings]
        /\ expired' \subseteq Batches
    BY <1>14 DEF Acknowledge, TypeOK
  <2> QED
    BY <1>14, <2>1, <2>2 DEF Acknowledge, TypeOK
<1>15. CASE RewriteClaim(h)
  <2>1. HooksTyped
    BY <1>15, <1>t DEF RewriteClaim, TypeOK, HookStates
  <2>2. claimed' \in [Batches -> SUBSET Findings] /\ expired' \subseteq Batches
    BY <1>15, <1>t DEF RewriteClaim, TypeOK, HookStates
  <2> QED
    BY <1>15, <2>1, <2>2 DEF RewriteClaim, TypeOK
<1>16. CASE RestorePending(h)
  <2>1. HooksTyped
    BY <1>16, <1>t, IdleTypes, HookUpdate DEF RestorePending, IdleHook
  <2>2. /\ pending' \in [Batches -> SUBSET Findings]
        /\ claimed' \in [Batches -> SUBSET Findings]
        /\ expired' \subseteq Batches
    BY <1>16 DEF RestorePending, TypeOK
  <2> QED
    BY <1>16, <2>1, <2>2 DEF RestorePending, TypeOK
<1> QED
  BY <1>1, <1>2, <1>3, <1>4, <1>5, <1>6, <1>7, <1>8, <1>9, <1>10, <1>11, <1>12,
     <1>13, <1>14, <1>15, <1>16 DEF HookStep

\* Every step keeps the types.
LEMMA NextTypes == TypeOK /\ [Next]_vars => TypeOK'
<1> SUFFICES ASSUME TypeOK, [Next]_vars PROVE TypeOK'
  OBVIOUS
<1>1. CASE UNCHANGED vars
  BY <1>1 DEF vars, TypeOK
<1> QED
  BY <1>1, EnvironmentTypes, PublicationTypes, HookTypes DEF Next

\* The state of the spool and of every process keeps its type.
THEOREM TypeCorrect == Spec => []TypeOK
  BY InitTypes, NextTypes, PTL DEF Spec

(***************************************************************************)
(* CopiesAreComplete.  It is inductive once its parts are told apart and   *)
(* a hook that is to acknowledge is known to have nothing left in hand.    *)
(***************************************************************************)
Gone == delivered \union dropped

FilesComplete ==
    \A b \in Batches :
        /\ pending[b] # {} => Cites[b] \ pending[b] \subseteq Gone
        /\ claimed[b] # {} => Cites[b] \ claimed[b] \subseteq Gone

HandsComplete ==
    \A h \in Hooks :
        hooks[h].pc \in {"fresh", "print", "acknowledge", "requeue"} =>
            Cites[hooks[h].batch] \ hooks[h].payload \subseteq Gone

NothingLeft == \A h \in Hooks : hooks[h].pc = "acknowledge" => hooks[h].payload = {}

AcknowledgedSettled ==
    \A b \in Batches : acknowledged[b] # {} => Cites[b] \subseteq Gone

CopiesInv ==
    TypeOK /\ FilesComplete /\ HandsComplete /\ NothingLeft /\ AcknowledgedSettled

\* The parts of the invariant amount to CopiesAreComplete.
LEMMA CopiesInvImplies == CopiesInv => CopiesAreComplete
  BY DEF CopiesInv, FilesComplete, HandsComplete, AcknowledgedSettled,
         CopiesAreComplete, Settled, Present, Gone

\* No copy exists at the start.
LEMMA InitCopies == Init => CopiesInv
  BY InitTypes
  DEF Init, CopiesInv, FilesComplete, HandsComplete, NothingLeft,
      AcknowledgedSettled, IdleHook

\* Files that are as they were, or are moved, or are gone, stay complete.
LEMMA FilesKept ==
  ASSUME TypeOK, FilesComplete, Gone \subseteq Gone',
         \A b \in Batches :
            /\ pending'[b] \in {{}, pending[b], claimed[b], Cites[b]}
            /\ claimed'[b] \in {{}, pending[b], claimed[b]}
  PROVE  FilesComplete'
<1> SUFFICES ASSUME NEW b \in Batches
             PROVE  /\ pending'[b] # {} => Cites[b] \ pending'[b] \subseteq Gone'
                    /\ claimed'[b] # {} => Cites[b] \ claimed'[b] \subseteq Gone'
  BY DEF FilesComplete
<1>1. pending'[b] # {} => Cites[b] \ pending'[b] \subseteq Gone'
  BY DEF FilesComplete
<1>2. claimed'[b] # {} => Cites[b] \ claimed'[b] \subseteq Gone'
  BY DEF FilesComplete
<1> QED
  BY <1>1, <1>2

\* A step that gives one hook a complete batch leaves all hooks so.
LEMMA HandsKept ==
  ASSUME TypeOK, HandsComplete, NothingLeft, Gone \subseteq Gone',
         NEW h \in Hooks, NEW k, hooks' = [hooks EXCEPT ![h] = k],
         k.pc \in {"fresh", "print", "acknowledge", "requeue"} =>
            Cites[k.batch] \ k.payload \subseteq Gone',
         k.pc = "acknowledge" => k.payload = {}
  PROVE  HandsComplete' /\ NothingLeft'
<1>1. hooks'[h] = k /\ \A i \in Hooks \ {h} : hooks'[i] = hooks[i]
  BY DEF TypeOK
<1>2. HandsComplete'
  BY <1>1 DEF HandsComplete
<1>3. NothingLeft'
  BY <1>1 DEF NothingLeft
<1> QED
  BY <1>2, <1>3

\* A step of the environment keeps the copies complete.
LEMMA EnvironmentCopies == CopiesInv /\ Environment => CopiesInv'
<1> SUFFICES ASSUME CopiesInv, Environment PROVE CopiesInv'
  OBVIOUS
<1>t. TypeOK /\ TypeOK'
  BY EnvironmentTypes DEF CopiesInv
<1>1. UNCHANGED <<pending, claimed, acknowledged, Gone>>
  BY DEF Environment, EditCitedFile, ReleaseSession, Expire, KillHook,
         KillPublisher, Gone
<1>2. FilesComplete' /\ AcknowledgedSettled'
  BY <1>1 DEF CopiesInv, FilesComplete, AcknowledgedSettled
<1>3. HandsComplete' /\ NothingLeft'
  <2>1. CASE UNCHANGED hooks
    BY <1>1, <2>1 DEF CopiesInv, HandsComplete, NothingLeft
  <2>2. ASSUME NEW h \in Hooks, KillHook(h) PROVE HandsComplete' /\ NothingLeft'
    <3>1. hooks' = [hooks EXCEPT ![h] = IdleHook]
      BY <2>2 DEF KillHook
    <3>2. IdleHook.pc = "idle"
      BY DEF IdleHook
    <3> QED
      BY <1>t, <1>1, <3>1, <3>2, HandsKept DEF CopiesInv
  <2> QED
    BY <2>1, <2>2 DEF Environment, EditCitedFile, ReleaseSession, Expire,
                      KillPublisher
<1> QED
  BY <1>t, <1>2, <1>3 DEF CopiesInv

\* A step of SpoolSink.publish keeps the copies complete: a file it links into
\* pending/ has all the findings.
LEMMA PublicationCopies == CopiesInv /\ Publication => CopiesInv'
<1> SUFFICES ASSUME CopiesInv, Publication PROVE CopiesInv'
  OBVIOUS
<1>t. TypeOK /\ TypeOK'
  BY PublicationTypes DEF CopiesInv
<1>1. UNCHANGED <<claimed, acknowledged, hooks, Gone>>
  BY DEF Publication, StartPublish, CheckPending, CheckClaimed,
         CheckAcknowledged, RecordBatch, LinkBatch, Gone
<1>2. \A b \in Batches : pending'[b] \in {pending[b], Cites[b]}
  <2>1. CASE LinkBatch
    BY <1>t, <2>1 DEF LinkBatch, TypeOK
  <2> QED
    BY <2>1 DEF Publication, StartPublish, CheckPending, CheckClaimed,
                CheckAcknowledged, RecordBatch
<1>3. FilesComplete'
  BY <1>t, <1>1, <1>2, FilesKept DEF CopiesInv
<1>4. HandsComplete' /\ NothingLeft' /\ AcknowledgedSettled'
  BY <1>1 DEF CopiesInv, HandsComplete, NothingLeft, AcknowledgedSettled
<1> QED
  BY <1>t, <1>3, <1>4 DEF CopiesInv

\* The steps of a hook that change neither a file of a batch nor what a hook has
\* in hand keep the copies complete.
LEMMA ListingCopies ==
  ASSUME CopiesInv, TypeOK', NEW h \in Hooks,
         UNCHANGED <<pending, claimed, acknowledged, Gone>>,
         NEW k, hooks' = [hooks EXCEPT ![h] = k],
         k.pc \notin {"fresh", "print", "acknowledge", "requeue"}
  PROVE  CopiesInv'
<1>1. FilesComplete' /\ AcknowledgedSettled'
  BY DEF CopiesInv, FilesComplete, AcknowledgedSettled
<1>2. HandsComplete' /\ NothingLeft'
  BY HandsKept DEF CopiesInv
<1> QED
  BY <1>1, <1>2 DEF CopiesInv

\* Moving the file of a batch between pending/ and claimed/ keeps the copies
\* complete.
LEMMA MovingCopies ==
  ASSUME CopiesInv, TypeOK', NEW h \in Hooks,
         UNCHANGED Gone, acknowledged' = acknowledged,
         \A b \in Batches :
            /\ pending'[b] \in {{}, pending[b], claimed[b]}
            /\ claimed'[b] \in {{}, pending[b], claimed[b]},
         NEW k, hooks' = [hooks EXCEPT ![h] = k],
         k.pc \notin {"fresh", "print", "acknowledge", "requeue"}
  PROVE  CopiesInv'
<1>1. FilesComplete'
  BY FilesKept DEF CopiesInv
<1>2. AcknowledgedSettled'
  BY DEF CopiesInv, AcknowledgedSettled
<1>3. HandsComplete' /\ NothingLeft'
  BY HandsKept DEF CopiesInv
<1> QED
  BY <1>1, <1>2, <1>3 DEF CopiesInv

\* A hook's step keeps the copies complete.
LEMMA HookCopies ==
  ASSUME CopiesInv, NEW h \in Hooks,
         (\E a \in Agents : StartHook(h, a)) \/ HookStep(h)
  PROVE  CopiesInv'
<1> DEFINE InHand == {"fresh", "print", "acknowledge", "requeue"}
<1>t. TypeOK /\ TypeOK' /\ hooks[h] \in HookStates
  BY HookTypes DEF CopiesInv, TypeOK
<1>i. IdleHook.pc = "idle"
  BY DEF IdleHook
<1>1. ASSUME NEW a \in Agents, StartHook(h, a) PROVE CopiesInv'
  <2> DEFINE k == [IdleHook EXCEPT !.pc = "enter", !.agent = a]
  <2>1. k.pc = "enter"
    BY DEF IdleHook
  <2>2. hooks' = [hooks EXCEPT ![h] = k]
    BY <1>1 DEF StartHook
  <2>3. UNCHANGED <<pending, claimed, acknowledged, Gone>>
    BY <1>1 DEF StartHook, Gone
  <2> HIDE DEF k
  <2> QED
    BY <1>t, <2>1, <2>2, <2>3, ListingCopies
<1>2. CASE EnterClaim(h)
  <2>1. UNCHANGED <<pending, claimed, acknowledged, Gone>>
    BY <1>2 DEF EnterClaim, Gone
  <2>2. PICK k : hooks' = [hooks EXCEPT ![h] = k] /\ k.pc \notin InHand
    <3> DEFINE entered ==
          [hooks[h] EXCEPT !.pc = "recover", !.todo = Present(claimed)]
    <3>1. entered.pc = "recover"
      BY <1>t DEF HookStates
    <3>2. CASE session.state = "bound" /\ session.agent = hooks[h].agent
      <4>1. hooks' = [hooks EXCEPT ![h] = entered]
        BY <1>2, <3>2 DEF EnterClaim
      <4> HIDE DEF entered
      <4> QED
        BY <3>1, <4>1
    <3>3. CASE ~(session.state = "bound" /\ session.agent = hooks[h].agent)
      BY <1>2, <1>i, <3>3 DEF EnterClaim
    <3> QED
      BY <3>2, <3>3
  <2> QED
    BY <1>t, <2>1, <2>2, ListingCopies
<1>3. CASE FindExpired(h) \/ PassClaim(h) \/ ListPending(h) \/ PassPending(h)
             \/ ClaimNothing(h)
  <2>1. UNCHANGED <<pending, claimed, acknowledged, Gone>>
    BY <1>3
    DEF FindExpired, PassClaim, ListPending, PassPending, ClaimNothing, Gone
  <2>2. hooks'[h].pc \notin InHand /\ hooks' = [hooks EXCEPT ![h] = hooks'[h]]
    <3>1. CASE FindExpired(h)
      BY <1>t, <1>i, <3>1 DEF FindExpired, TypeOK, HookStates
    <3>2. CASE PassClaim(h)
      BY <1>t, <1>i, <3>2 DEF PassClaim, TypeOK, HookStates
    <3>3. CASE ListPending(h)
      BY <1>t, <1>i, <3>3 DEF ListPending, TypeOK, HookStates
    <3>4. CASE PassPending(h)
      BY <1>t, <1>i, <3>4 DEF PassPending, TypeOK, HookStates
    <3>5. CASE ClaimNothing(h)
      BY <1>t, <1>i, <3>5 DEF ClaimNothing, TypeOK, HookStates
    <3> QED
      BY <1>3, <3>1, <3>2, <3>3, <3>4, <3>5
  <2> QED
    BY <1>t, <2>1, <2>2, ListingCopies
<1>4. CASE RecoverClaim(h) \/ Claim(h) \/ RejectClaim(h) \/ RestorePending(h)
  <2>1. UNCHANGED Gone /\ acknowledged' = acknowledged
    BY <1>4 DEF RecoverClaim, Claim, RejectClaim, RestorePending, Gone
  <2>2. hooks'[h].pc \notin InHand /\ hooks' = [hooks EXCEPT ![h] = hooks'[h]]
    <3>1. CASE RecoverClaim(h)
      BY <1>t, <1>i, <3>1 DEF RecoverClaim, TypeOK, HookStates
    <3>2. CASE Claim(h)
      BY <1>t, <1>i, <3>2 DEF Claim, TypeOK, HookStates
    <3>3. CASE RejectClaim(h)
      BY <1>t, <1>i, <3>3 DEF RejectClaim, TypeOK, HookStates
    <3>4. CASE RestorePending(h)
      BY <1>t, <1>i, <3>4 DEF RestorePending, TypeOK, HookStates
    <3> QED
      BY <1>4, <3>1, <3>2, <3>3, <3>4
  <2>3. \A b \in Batches :
          /\ pending'[b] \in {{}, pending[b], claimed[b]}
          /\ claimed'[b] \in {{}, pending[b], claimed[b]}
    <3>1. CASE RecoverClaim(h)
      BY <1>t, <1>i, <3>1 DEF RecoverClaim, TypeOK, HookStates
    <3>2. CASE Claim(h)
      BY <1>t, <1>i, <3>2 DEF Claim, TypeOK, HookStates
    <3>3. CASE RejectClaim(h)
      BY <1>t, <1>i, <3>3 DEF RejectClaim, TypeOK, HookStates
    <3>4. CASE RestorePending(h)
      BY <1>t, <1>i, <3>4 DEF RestorePending, TypeOK, HookStates
    <3> QED
      BY <1>4, <3>1, <3>2, <3>3, <3>4
  <2> QED
    BY <1>t, <2>1, <2>2, <2>3, MovingCopies
<1>5. CASE LoadClaim(h)
  <2>1. UNCHANGED <<pending, claimed, acknowledged, Gone>>
    BY <1>5 DEF LoadClaim, Gone
  <2>2. hooks[h].batch \in Batches
    BY <1>5, <1>t DEF LoadClaim, TypeOK
  <2>3. /\ hooks' = [hooks EXCEPT ![h] = hooks'[h]]
        /\ hooks'[h].batch = hooks[h].batch
        /\ hooks'[h].payload = claimed[hooks[h].batch]
        /\ hooks'[h].pc = IF claimed[hooks[h].batch] = {} THEN "reject" ELSE "fresh"
    BY <1>5, <1>t DEF LoadClaim, TypeOK, HookStates
  <2>4. hooks'[h].pc = "fresh" => Cites[hooks'[h].batch] \ hooks'[h].payload \subseteq Gone'
    BY <2>1, <2>2, <2>3 DEF CopiesInv, FilesComplete
  <2>5. HandsComplete' /\ NothingLeft'
    BY <1>t, <2>1, <2>3, <2>4, HandsKept DEF CopiesInv
  <2> QED
    BY <1>t, <2>1, <2>5 DEF CopiesInv, FilesComplete, AcknowledgedSettled
<1>6. CASE DropStale(h)
  <2>1. UNCHANGED <<pending, claimed, acknowledged>>
    BY <1>6 DEF DropStale
  <2>2. Gone' = Gone \union (hooks[h].payload \intersect stale)
    BY <1>6 DEF DropStale, Gone
  <2>3. /\ hooks' = [hooks EXCEPT ![h] = hooks'[h]]
        /\ hooks'[h].batch = hooks[h].batch
        /\ hooks'[h].payload = hooks[h].payload \ stale
        /\ hooks'[h].pc = IF hooks[h].payload \ stale = {} THEN "acknowledge" ELSE "print"
    BY <1>6, <1>t DEF DropStale, TypeOK, HookStates
  <2>4. Cites[hooks[h].batch] \ hooks[h].payload \subseteq Gone
    BY <1>6 DEF DropStale, CopiesInv, HandsComplete
  <2>5. Cites[hooks'[h].batch] \ hooks'[h].payload \subseteq Gone'
    BY <2>2, <2>3, <2>4
  <2>6. HandsComplete' /\ NothingLeft'
    BY <1>t, <2>2, <2>3, <2>5, HandsKept DEF CopiesInv
  <2> QED
    BY <1>t, <2>1, <2>2, <2>6 DEF CopiesInv, FilesComplete, AcknowledgedSettled
<1>7. CASE PrintChunk(h)
  <2>1. UNCHANGED <<pending, claimed, acknowledged>>
    BY <1>7 DEF PrintChunk
  <2>2. PICK S \in ChunksOf(hooks[h].payload) :
          /\ delivered' = delivered \union S
          /\ hooks' = [hooks EXCEPT
                        ![h].payload = Rest(hooks[h].payload, S),
                        ![h].pc = AfterChunk(Rest(hooks[h].payload, S))]
    BY <1>7 DEF PrintChunk
  <2>3. Gone' = Gone \union S
    BY <1>7, <2>2 DEF PrintChunk, Gone
  <2>4. /\ hooks' = [hooks EXCEPT ![h] = hooks'[h]]
        /\ hooks'[h].batch = hooks[h].batch
        /\ hooks'[h].payload = hooks[h].payload \ S
        /\ hooks'[h].pc = IF hooks[h].payload \ S = {} THEN "acknowledge" ELSE "requeue"
    BY <1>t, <2>2 DEF TypeOK, HookStates, Rest, AfterChunk
  <2>5. Cites[hooks[h].batch] \ hooks[h].payload \subseteq Gone
    BY <1>7 DEF PrintChunk, CopiesInv, HandsComplete
  <2>6. Cites[hooks'[h].batch] \ hooks'[h].payload \subseteq Gone'
    BY <2>3, <2>4, <2>5
  <2>7. HandsComplete' /\ NothingLeft'
    BY <1>t, <2>3, <2>4, <2>6, HandsKept DEF CopiesInv
  <2> QED
    BY <1>t, <2>1, <2>3, <2>7 DEF CopiesInv, FilesComplete, AcknowledgedSettled
<1>8. CASE Acknowledge(h)
  <2>1. pending' = pending /\ UNCHANGED Gone /\ hooks' = [hooks EXCEPT ![h] = IdleHook]
    BY <1>8 DEF Acknowledge, Gone
  <2>2. \A b \in Batches : claimed'[b] \in {{}, claimed[b]}
    BY <1>8, <1>t DEF Acknowledge, TypeOK
  <2>3. FilesComplete'
    BY <1>t, <2>1, <2>2, FilesKept DEF CopiesInv
  <2>4. Cites[hooks[h].batch] \subseteq Gone
    BY <1>8 DEF Acknowledge, CopiesInv, HandsComplete, NothingLeft
  <2>5. \A b \in Batches :
          acknowledged'[b] # {} => acknowledged[b] # {} \/ b = hooks[h].batch
    BY <1>8, <1>t DEF Acknowledge, TypeOK
  <2>6. AcknowledgedSettled'
    BY <2>1, <2>4, <2>5 DEF CopiesInv, AcknowledgedSettled
  <2>7. HandsComplete' /\ NothingLeft'
    BY <1>t, <1>i, <2>1, HandsKept DEF CopiesInv
  <2> QED
    BY <1>t, <2>3, <2>6, <2>7 DEF CopiesInv
<1>9. CASE RewriteClaim(h)
  <2>1. pending' = pending /\ UNCHANGED <<acknowledged, Gone>>
    BY <1>9 DEF RewriteClaim, Gone
  <2>2. Cites[hooks[h].batch] \ hooks[h].payload \subseteq Gone
    BY <1>9 DEF RewriteClaim, CopiesInv, HandsComplete
  <2>3. claimed' = [claimed EXCEPT ![hooks[h].batch] = hooks[h].payload]
    BY <1>9 DEF RewriteClaim
  <2>4. FilesComplete'
    BY <1>t, <2>1, <2>2, <2>3 DEF CopiesInv, FilesComplete, TypeOK
  <2>5. hooks'[h].pc = "restore" /\ hooks' = [hooks EXCEPT ![h] = hooks'[h]]
    BY <1>9, <1>t DEF RewriteClaim, TypeOK, HookStates
  <2>6. HandsComplete' /\ NothingLeft'
    BY <1>t, <2>1, <2>5, HandsKept DEF CopiesInv
  <2> QED
    BY <1>t, <2>1, <2>4, <2>6 DEF CopiesInv, AcknowledgedSettled
<1> QED
  BY <1>1, <1>2, <1>3, <1>4, <1>5, <1>6, <1>7, <1>8, <1>9 DEF HookStep

\* Every step keeps the copies complete.
LEMMA NextCopies == CopiesInv /\ [Next]_vars => CopiesInv'
<1> SUFFICES ASSUME CopiesInv, [Next]_vars PROVE CopiesInv'
  OBVIOUS
<1>1. CASE UNCHANGED vars
  BY <1>1, NextTypes DEF vars, CopiesInv, FilesComplete, HandsComplete,
                         NothingLeft, AcknowledgedSettled, Gone
<1> QED
  BY <1>1, EnvironmentCopies, PublicationCopies, HookCopies DEF Next

\* However hooks, publications and kills interleave, no copy of a batch lacks a
\* finding that was neither delivered nor dropped.
THEOREM CopiesCorrect == Spec => []CopiesAreComplete
  BY InitCopies, NextCopies, CopiesInvImplies, PTL DEF Spec

\* A publication that ends without being killed leaves each finding of its batch in
\* pending/ or claimed/, delivered or dropped, whatever an earlier one left behind.
THEOREM PublishedCorrect == Spec => PublishedIsOffered
<1> DEFINE Offered(b) == Cites[b] \subseteq Available' \union delivered \union dropped
<1>1. ASSUME CopiesInv, [Next]_vars, publisher.pc # "idle", publisher'.pc = "idle",
             crashes' = crashes
      PROVE  Offered(publisher.batch)
  <2>1. publisher.batch \in Batches /\ crashes \in Nat
    BY <1>1, BoundsAssumption DEF CopiesInv, TypeOK
  <2>2. ASSUME NEW b \in Batches, NEW copy \in {pending'[b], claimed'[b]},
               Cites[b] \ copy \subseteq Gone
        PROVE  Offered(b)
    BY <2>2 DEF Available, Gone
  <2>3. CASE CheckPending
    <3>1. pending' = pending /\ pending[publisher.batch] # {}
      BY <1>1, <2>3 DEF CheckPending, PublisherAt, Present, CopiesInv, TypeOK, Publishers
    <3>2. Cites[publisher.batch] \ pending'[publisher.batch] \subseteq Gone
      BY <1>1, <2>1, <3>1 DEF CopiesInv, FilesComplete
    <3> QED
      BY <2>1, <2>2, <3>2
  <2>4. CASE CheckClaimed
    <3>1. claimed' = claimed /\ claimed[publisher.batch] # {}
      BY <1>1, <2>4 DEF CheckClaimed, PublisherAt, Present, CopiesInv, TypeOK, Publishers
    <3>2. Cites[publisher.batch] \ claimed'[publisher.batch] \subseteq Gone
      BY <1>1, <2>1, <3>1 DEF CopiesInv, FilesComplete
    <3> QED
      BY <2>1, <2>2, <3>2
  <2>5. CASE CheckAcknowledged
    <3>1. acknowledged[publisher.batch] # {}
      BY <1>1, <2>5 DEF CheckAcknowledged, PublisherAt, Present, CopiesInv, TypeOK, Publishers
    <3> QED
      BY <1>1, <2>1, <3>1 DEF CopiesInv, AcknowledgedSettled, Gone
  <2>6. CASE LinkBatch
    <3>1. CASE publisher.batch \in Present(pending)
      <4>1. Cites[publisher.batch] \ pending'[publisher.batch] \subseteq Gone
        BY <1>1, <2>1, <2>6, <3>1 DEF LinkBatch, Present, CopiesInv, FilesComplete
      <4> QED
        BY <2>1, <2>2, <4>1
    <3>2. CASE publisher.batch \notin Present(pending)
      <4>1. pending'[publisher.batch] = Cites[publisher.batch]
        BY <1>1, <2>1, <2>6, <3>2 DEF LinkBatch, CopiesInv, TypeOK
      <4> QED
        BY <2>1, <2>2, <4>1
    <3> QED
      BY <3>1, <3>2
  <2>7. ~ (\E b \in Batches : StartPublish(b)) /\ ~ RecordBatch
    BY <1>1 DEF StartPublish, RecordBatch, PublisherAt, CopiesInv, TypeOK, Publishers
  <2>8. ~ KillPublisher
    BY <1>1, <2>1 DEF KillPublisher
  <2>9. publisher' # publisher
    BY <1>1
  <2> QED
    BY <1>1, <2>3, <2>4, <2>5, <2>6, <2>7, <2>8, <2>9
    DEF Next, Publication, HookStep, Environment, vars, EditCitedFile, ReleaseSession,
        Expire, KillHook, StartHook, EnterClaim, FindExpired, PassClaim, RecoverClaim,
        ListPending, Claim, PassPending, ClaimNothing, LoadClaim, RejectClaim, DropStale,
        PrintChunk, Acknowledge, RewriteClaim, RestorePending
<1>2. CopiesInv /\ [Next]_vars =>
        [publisher.pc # "idle" /\ publisher'.pc = "idle" /\ crashes' = crashes =>
            Cites[publisher.batch] \subseteq Available' \union delivered \union dropped]_vars
  BY <1>1
<1> QED
  BY <1>2, InitCopies, NextCopies, PTL DEF Spec, PublishedIsOffered

(***************************************************************************)
(* DeliveredToOwner.  A hook that works under the route's lock is one of   *)
(* the bound agent's; a batch in a hook's hands is of a generation that    *)
(* was bound to the hook's agent and can never be bound again.             *)
(***************************************************************************)
BoundIsRecorded ==
    session.state = "bound" => owner[session.generation] = session.agent

LockedByOwner ==
    \A h \in Hooks :
        hooks[h].pc \in LockingPcs =>
            session.state = "bound" /\ session.agent = hooks[h].agent

HeldByOwner ==
    \A h \in Hooks, b \in Batches :
        Holds(h, b) =>
            /\ owner[GenerationOf[b]] = hooks[h].agent
            /\ \/ GenerationOf[b] < session.generation
               \/ GenerationOf[b] = session.generation /\ session.state = "bound"

OwnerInv == TypeOK /\ BoundIsRecorded /\ LockedByOwner /\ HeldByOwner

HandPcs ==
    {"load", "fresh", "print", "acknowledge", "reject", "requeue", "restore"}

\* No generation is bound, and no batch is claimed, at the start.
LEMMA InitOwner == Init => OwnerInv
  BY InitTypes
  DEF Init, OwnerInv, BoundIsRecorded, LockedByOwner, HeldByOwner, Holds,
      LockingPcs, IdleHook

\* A step that leaves the route alone, and gives a hook the lock or a batch only
\* as the invariant has it, keeps the invariant.
LEMMA OwnerKept ==
  ASSUME OwnerInv, TypeOK', UNCHANGED <<session, owner>>,
         NEW h \in Hooks, NEW k, hooks' = [hooks EXCEPT ![h] = k],
         k.pc \in LockingPcs => session.state = "bound" /\ session.agent = k.agent,
         k.pc \in HandPcs =>
            /\ owner[GenerationOf[k.batch]] = k.agent
            /\ \/ GenerationOf[k.batch] < session.generation
               \/ /\ GenerationOf[k.batch] = session.generation
                  /\ session.state = "bound"
  PROVE  OwnerInv'
<1>1. hooks'[h] = k /\ \A i \in Hooks \ {h} : hooks'[i] = hooks[i]
  BY DEF OwnerInv, TypeOK
<1>2. BoundIsRecorded'
  BY DEF OwnerInv, BoundIsRecorded
<1>3. LockedByOwner'
  BY <1>1 DEF OwnerInv, LockedByOwner
<1>4. HeldByOwner'
  BY <1>1 DEF OwnerInv, HeldByOwner, Holds, HandPcs
<1> QED
  BY <1>2, <1>3, <1>4 DEF OwnerInv

\* The environment keeps the owners: a generation is left for good.
LEMMA EnvironmentOwner == OwnerInv /\ Environment => OwnerInv'
<1> SUFFICES ASSUME OwnerInv, Environment PROVE OwnerInv'
  OBVIOUS
<1>t. TypeOK /\ TypeOK'
  BY EnvironmentTypes DEF OwnerInv
<1>1. CASE ReleaseSession
  <2>1. /\ session' = [state |-> "closed", generation |-> session.generation + 1,
                       agent |-> NoAgent]
        /\ UNCHANGED <<hooks, owner>>
        /\ \A h \in Hooks : hooks[h].pc \notin LockingPcs
    BY <1>1 DEF ReleaseSession, SharedLockHeld
  <2>2. \A b \in Batches : GenerationOf[b] \in Int
    BY BatchesAssumption DEF Generations
  <2>3. session.generation \in Int
    BY <1>t DEF TypeOK, Sessions, Generations
  <2>4. HeldByOwner'
    BY <2>1, <2>2, <2>3 DEF OwnerInv, HeldByOwner, Holds
  <2> QED
    BY <1>t, <2>1, <2>4 DEF OwnerInv, BoundIsRecorded, LockedByOwner
<1>2. ASSUME NEW h \in Hooks, KillHook(h) PROVE OwnerInv'
  <2>1. UNCHANGED <<session, owner>> /\ hooks' = [hooks EXCEPT ![h] = IdleHook]
    BY <1>2 DEF KillHook
  <2>2. IdleHook.pc \notin LockingPcs \union HandPcs
    BY DEF IdleHook, LockingPcs, HandPcs
  <2> QED
    BY <1>t, <2>1, <2>2, OwnerKept
<1>3. CASE UNCHANGED <<session, owner, hooks>>
  BY <1>t, <1>3 DEF OwnerInv, BoundIsRecorded, LockedByOwner, HeldByOwner, Holds
<1> QED
  BY <1>1, <1>2, <1>3 DEF Environment, EditCitedFile, Expire, KillPublisher

\* SpoolSink.publish does not touch the route or the hooks.
LEMMA PublicationOwner == OwnerInv /\ Publication => OwnerInv'
<1> SUFFICES ASSUME OwnerInv, Publication PROVE OwnerInv'
  OBVIOUS
<1>1. UNCHANGED <<session, owner, hooks>>
  BY DEF Publication, StartPublish, CheckPending, CheckClaimed,
         CheckAcknowledged, RecordBatch, LinkBatch
<1> QED
  BY <1>1, PublicationTypes
  DEF OwnerInv, BoundIsRecorded, LockedByOwner, HeldByOwner, Holds

\* Binding the route changes the owner of no generation some hook has a batch of.
LEMMA StartOwner ==
  ASSUME OwnerInv, NEW h \in Hooks, NEW a \in Agents, StartHook(h, a)
  PROVE  OwnerInv'
<1>t. TypeOK /\ TypeOK'
  BY HookTypes DEF OwnerInv
<1> DEFINE k == [IdleHook EXCEPT !.pc = "enter", !.agent = a]
<1>1. hooks' = [hooks EXCEPT ![h] = k]
  BY DEF StartHook
<1>2. k.pc = "enter"
  BY DEF IdleHook
<1> HIDE DEF k
<1>3. hooks'[h].pc = "enter" /\ \A i \in Hooks \ {h} : hooks'[i] = hooks[i]
  BY <1>t, <1>1, <1>2 DEF TypeOK
<1>4. /\ session.state = "bound" => session.agent = a
      /\ session'.state = "bound" /\ session'.agent = a
      /\ session'.generation = session.generation
      /\ owner' = [owner EXCEPT ![session.generation] = a]
      /\ \A i \in Hooks : hooks[i].pc \notin LockingPcs
  BY <1>t DEF StartHook, SharedLockHeld, TypeOK, Sessions
<1>5. session.generation \in Generations
  BY <1>t DEF TypeOK, Sessions
<1>6. BoundIsRecorded'
  BY <1>t, <1>4, <1>5 DEF BoundIsRecorded, TypeOK
<1>7. LockedByOwner'
  BY <1>3, <1>4 DEF LockedByOwner, LockingPcs
<1>8. HeldByOwner'
  <2> SUFFICES ASSUME NEW i \in Hooks, NEW b \in Batches, Holds(i, b)'
               PROVE  /\ owner'[GenerationOf[b]] = hooks'[i].agent
                      /\ \/ GenerationOf[b] < session'.generation
                         \/ /\ GenerationOf[b] = session'.generation
                            /\ session'.state = "bound"
    BY DEF HeldByOwner
  <2>1. i # h
    BY <1>3 DEF Holds
  <2>2. Holds(i, b) /\ hooks'[i] = hooks[i]
    BY <1>3, <2>1 DEF Holds
  <2>3. /\ owner[GenerationOf[b]] = hooks[i].agent
        /\ \/ GenerationOf[b] < session.generation
           \/ GenerationOf[b] = session.generation /\ session.state = "bound"
    BY <2>2 DEF OwnerInv, HeldByOwner
  <2>4. GenerationOf[b] \in Generations
    BY BatchesAssumption
  <2>5. owner'[GenerationOf[b]] = owner[GenerationOf[b]]
    <3>1. CASE GenerationOf[b] = session.generation /\ session.state = "bound"
      BY <1>t, <1>4, <1>5, <3>1 DEF OwnerInv, BoundIsRecorded, TypeOK
    <3>2. CASE GenerationOf[b] < session.generation
      <4>1. GenerationOf[b] # session.generation
        BY <1>5, <2>4, <3>2 DEF Generations
      <4> QED
        BY <1>t, <1>4, <2>4, <4>1 DEF TypeOK
    <3> QED
      BY <2>3, <3>1, <3>2
  <2> QED
    BY <1>4, <2>2, <2>3, <2>5
<1> QED
  BY <1>t, <1>6, <1>7, <1>8 DEF OwnerInv

\* A hook enters under the lock, and claims, only as the owner; its other steps
\* give it neither.
LEMMA HookOwner ==
  ASSUME OwnerInv, NEW h \in Hooks, HookStep(h)
  PROVE  OwnerInv'
<1>t. TypeOK /\ TypeOK' /\ hooks \in [Hooks -> HookStates] /\ hooks[h] \in HookStates
  BY HookTypes DEF OwnerInv, TypeOK
<1>i. IdleHook.pc \notin LockingPcs \union HandPcs
  BY DEF IdleHook, LockingPcs, HandPcs
<1>u. UNCHANGED <<session, owner>>
  BY DEF HookStep, EnterClaim, FindExpired, PassClaim, RecoverClaim, ListPending,
         Claim, PassPending, ClaimNothing, LoadClaim, RejectClaim, DropStale,
         PrintChunk, Acknowledge, RewriteClaim, RestorePending
<1>1. CASE EnterClaim(h)
  <2>1. CASE session.state = "bound" /\ session.agent = hooks[h].agent
    <3> DEFINE k == [hooks[h] EXCEPT !.pc = "recover", !.todo = Present(claimed)]
    <3>1. hooks' = [hooks EXCEPT ![h] = k]
      BY <1>1, <2>1 DEF EnterClaim
    <3>2. k.pc = "recover" /\ k.agent = hooks[h].agent
      BY <1>t DEF HookStates
    <3> HIDE DEF k
    <3>3. k.pc \notin HandPcs
      BY <3>2 DEF HandPcs
    <3> QED
      BY <1>t, <1>u, <2>1, <3>1, <3>2, <3>3, OwnerKept
  <2>2. CASE ~(session.state = "bound" /\ session.agent = hooks[h].agent)
    <3>1. hooks' = [hooks EXCEPT ![h] = IdleHook]
      BY <1>1, <2>2 DEF EnterClaim
    <3> QED
      BY <1>t, <1>i, <1>u, <3>1, OwnerKept
  <2> QED
    BY <2>1, <2>2
<1>2. CASE Claim(h)
  <2>1. PICK b \in Batches :
          /\ GenerationOf[b] = session.generation
          /\ hooks' = [hooks EXCEPT ![h].pc = "load", ![h].batch = b, ![h].todo = {}]
    BY <1>2, <1>t DEF Claim, Claimable, HookStates
  <2>2. /\ hooks' = [hooks EXCEPT ![h] = hooks'[h]]
        /\ hooks'[h].pc = "load" /\ hooks'[h].batch = b
        /\ hooks'[h].agent = hooks[h].agent
    BY <1>t, <2>1 DEF HookStates
  <2>3. session.state = "bound" /\ session.agent = hooks[h].agent
    BY <1>2 DEF Claim, OwnerInv, LockedByOwner, LockingPcs
  <2>4. owner[GenerationOf[b]] = hooks[h].agent
    BY <2>1, <2>3 DEF OwnerInv, BoundIsRecorded
  <2> DEFINE k == hooks'[h]
  <2>5. k.pc \notin LockingPcs
    BY <2>2 DEF LockingPcs
  <2>6. /\ owner[GenerationOf[k.batch]] = k.agent
        /\ GenerationOf[k.batch] = session.generation
        /\ session.state = "bound"
    BY <2>1, <2>2, <2>3, <2>4
  <2>7. hooks' = [hooks EXCEPT ![h] = k]
    BY <2>2
  <2> HIDE DEF k
  <2> QED
    BY <1>t, <1>u, <2>5, <2>6, <2>7, OwnerKept
<1>3. CASE ~EnterClaim(h) /\ ~Claim(h)
  <2> DEFINE k == hooks'[h]
  <2>a. HookStep(h) /\ ~EnterClaim(h) /\ ~Claim(h)
    BY <1>3
  <2>k. /\ hooks' = [hooks EXCEPT ![h] = k]
        /\ k.pc \in LockingPcs => hooks[h].pc \in LockingPcs /\ k.agent = hooks[h].agent
        /\ k.pc \in HandPcs =>
            /\ hooks[h].pc \in HandPcs
            /\ k.agent = hooks[h].agent
            /\ k.batch = hooks[h].batch
    <3>1. CASE RecoverClaim(h)
      BY <1>t, <1>i, <3>1
      DEF RecoverClaim, TypeOK, HookStates, LockingPcs, HandPcs
    <3>2. CASE FindExpired(h)
      BY <1>t, <1>i, <3>2
      DEF FindExpired, TypeOK, HookStates, LockingPcs, HandPcs
    <3>3. CASE PassClaim(h)
      BY <1>t, <1>i, <3>3
      DEF PassClaim, TypeOK, HookStates, LockingPcs, HandPcs
    <3>4. CASE ListPending(h)
      BY <1>t, <1>i, <3>4
      DEF ListPending, TypeOK, HookStates, LockingPcs, HandPcs
    <3>5. CASE PassPending(h)
      BY <1>t, <1>i, <3>5
      DEF PassPending, TypeOK, HookStates, LockingPcs, HandPcs
    <3>6. CASE ClaimNothing(h)
      BY <1>t, <1>i, <3>6
      DEF ClaimNothing, TypeOK, HookStates, LockingPcs, HandPcs
    <3>7. CASE LoadClaim(h)
      BY <1>t, <1>i, <3>7
      DEF LoadClaim, TypeOK, HookStates, LockingPcs, HandPcs
    <3>8. CASE RejectClaim(h)
      BY <1>t, <1>i, <3>8
      DEF RejectClaim, TypeOK, HookStates, LockingPcs, HandPcs
    <3>9. CASE DropStale(h)
      BY <1>t, <1>i, <3>9
      DEF DropStale, TypeOK, HookStates, LockingPcs, HandPcs
    <3>10. CASE PrintChunk(h)
      <4>1. PICK S \in ChunksOf(hooks[h].payload) :
              hooks' = [hooks EXCEPT
                            ![h].payload = Rest(hooks[h].payload, S),
                            ![h].pc = AfterChunk(Rest(hooks[h].payload, S))]
        BY <3>10 DEF PrintChunk
      <4>2. hooks[h].pc = "print"
        BY <3>10 DEF PrintChunk
      <4>3. /\ hooks' = [hooks EXCEPT ![h] = k]
            /\ k.pc \in {"acknowledge", "requeue"}
            /\ k.agent = hooks[h].agent /\ k.batch = hooks[h].batch
        BY <1>t, <4>1 DEF HookStates, AfterChunk
      <4> QED
        BY <4>2, <4>3 DEF LockingPcs, HandPcs
    <3>11. CASE Acknowledge(h)
      BY <1>t, <1>i, <3>11
      DEF Acknowledge, TypeOK, HookStates, LockingPcs, HandPcs
    <3>12. CASE RewriteClaim(h)
      BY <1>t, <1>i, <3>12
      DEF RewriteClaim, TypeOK, HookStates, LockingPcs, HandPcs
    <3>13. CASE RestorePending(h)
      BY <1>t, <1>i, <3>13
      DEF RestorePending, TypeOK, HookStates, LockingPcs, HandPcs
    <3> QED
      BY <2>a, <3>1, <3>2, <3>3, <3>4, <3>5, <3>6, <3>7, <3>8, <3>9, <3>10, <3>11, <3>12, <3>13 DEF HookStep
  <2>l. k.pc \in LockingPcs => session.state = "bound" /\ session.agent = k.agent
    BY <2>k DEF OwnerInv, LockedByOwner
  <2>h. k.pc \in HandPcs =>
          /\ owner[GenerationOf[k.batch]] = k.agent
          /\ \/ GenerationOf[k.batch] < session.generation
             \/ /\ GenerationOf[k.batch] = session.generation
                /\ session.state = "bound"
    <3>1. SUFFICES ASSUME k.pc \in HandPcs
                   PROVE  /\ owner[GenerationOf[k.batch]] = k.agent
                          /\ \/ GenerationOf[k.batch] < session.generation
                             \/ /\ GenerationOf[k.batch] = session.generation
                                /\ session.state = "bound"
      OBVIOUS
    <3>2. hooks[h].batch \in Batches /\ Holds(h, hooks[h].batch)
      BY <1>t, <2>k, <3>1 DEF TypeOK, Holds, HandPcs
    <3> QED
      BY <2>k, <3>1, <3>2 DEF OwnerInv, HeldByOwner
  <2> HIDE DEF k
  <2> QED
    BY <1>t, <1>u, <2>k, <2>l, <2>h, OwnerKept
<1> QED
  BY <1>1, <1>2, <1>3

\* Every step keeps the owners.
LEMMA NextOwner == OwnerInv /\ [Next]_vars => OwnerInv'
<1> SUFFICES ASSUME OwnerInv, [Next]_vars PROVE OwnerInv'
  OBVIOUS
<1>1. CASE UNCHANGED vars
  BY <1>1, NextTypes DEF vars, OwnerInv, BoundIsRecorded, LockedByOwner,
                         HeldByOwner, Holds
<1> QED
  BY <1>1, EnvironmentOwner, PublicationOwner, StartOwner, HookOwner DEF Next

\* Feedback on the work of a session generation is printed only for the agent
\* that the generation was bound to.
THEOREM OwnerCorrect == Spec => DeliveredToOwner
<1>1. OwnerInv =>
        \A h \in Hooks :
            PrintChunk(h) => owner[GenerationOf[hooks[h].batch]] = hooks[h].agent
  BY DEF OwnerInv, TypeOK, HeldByOwner, Holds, PrintChunk
<1>2. OwnerInv =>
        [\A h \in Hooks :
            PrintChunk(h) => owner[GenerationOf[hooks[h].batch]] = hooks[h].agent]_vars
  BY <1>1
<1> QED
  BY <1>2, InitOwner, NextOwner, PTL DEF Spec, DeliveredToOwner

(***************************************************************************)
(* What a hook's step does to its own record; the other hooks stay.        *)
(***************************************************************************)
ListingPcs == {"idle", "enter", "recover", "claim"}

Others(h) == \A i \in Hooks \ {h} : hooks'[i] = hooks[i]

\* Up to its claim a hook reads and lists, and finds expired claims.
LEMMA ListingStep ==
  ASSUME TypeOK, NEW h \in Hooks,
         \/ \E a \in Agents : StartHook(h, a)
         \/ EnterClaim(h) \/ FindExpired(h) \/ PassClaim(h) \/ ListPending(h)
         \/ PassPending(h) \/ ClaimNothing(h)
  PROVE  /\ Others(h)
         /\ hooks[h].pc \in ListingPcs
         /\ \/ hooks'[h].pc \in ListingPcs
            \/ hooks'[h].pc = "replace" /\ hooks'[h].batch \in expired
         /\ UNCHANGED <<pending, claimed, acknowledged, rejected, expired, publisher,
                        crashes, delivered, dropped, interrupted>>
<1>t. hooks[h] \in HookStates /\ hooks \in [Hooks -> HookStates]
  BY DEF TypeOK
<1>i. IdleHook \in HookStates /\ IdleHook.pc = "idle"
  BY IdleTypes DEF IdleHook
<1> USE DEF Others, ListingPcs
<1>1. ASSUME NEW a \in Agents, StartHook(h, a) PROVE hooks'[h].pc = "enter" /\ Others(h)
  <2> DEFINE k == [IdleHook EXCEPT !.pc = "enter", !.agent = a]
  <2>1. k.pc = "enter"
    BY DEF IdleHook
  <2>2. hooks' = [hooks EXCEPT ![h] = k]
    BY <1>1, Zenon DEF StartHook
  <2> HIDE DEF k
  <2> QED
    BY <1>t, <2>1, <2>2
<1>2. CASE EnterClaim(h)
  <2>1. CASE session.state = "bound" /\ session.agent = hooks[h].agent
    <3>1. hooks' = [hooks EXCEPT ![h] = [hooks[h] EXCEPT !.pc = "recover",
                                                         !.todo = Present(claimed)]]
      BY <1>2, <2>1 DEF EnterClaim
    <3> QED
      BY <1>2, <1>t, <3>1 DEF EnterClaim, HookStates
  <2>2. CASE ~(session.state = "bound" /\ session.agent = hooks[h].agent)
    BY <1>2, <1>t, <1>i, <2>2 DEF EnterClaim
  <2> QED
    BY <2>1, <2>2
<1>3. CASE FindExpired(h)
  <2>1. PICK b \in hooks[h].todo :
          /\ b \in expired
          /\ hooks' = [hooks EXCEPT ![h].pc = "replace", ![h].batch = b,
                                    ![h].todo = @ \ {b}]
    BY <1>3, Zenon DEF FindExpired, Abandoned
  <2>2. /\ hooks[h].pc = "recover"
        /\ UNCHANGED <<pending, claimed, acknowledged, rejected, expired, publisher,
                       crashes, delivered, dropped, interrupted>>
    BY <1>3, Zenon DEF FindExpired
  <2>3. Others(h) /\ hooks'[h].pc = "replace" /\ hooks'[h].batch = b
    BY <1>t, <2>1 DEF HookStates
  <2> QED
    BY <2>1, <2>2, <2>3
<1>4. CASE PassClaim(h)
  BY <1>4, <1>t DEF PassClaim, HookStates
<1>5. CASE ListPending(h)
  BY <1>5, <1>t DEF ListPending, HookStates
<1>6. CASE PassPending(h)
  BY <1>6, <1>t DEF PassPending, HookStates
<1>7. CASE ClaimNothing(h)
  BY <1>7, <1>t, <1>i DEF ClaimNothing
<1> QED
  BY <1>1, <1>2, <1>3, <1>4, <1>5, <1>6, <1>7 DEF StartHook

\* A hook that recovers an expired claim goes on with its list.
LEMMA RecoveringStep ==
  ASSUME TypeOK, NEW h \in Hooks, RecoverClaim(h)
  PROVE  /\ Others(h)
         /\ hooks[h].pc = "replace" /\ hooks[h].batch \in Batches
         /\ hooks'[h].pc = "recover"
         /\ \/ UNCHANGED <<pending, claimed, expired>>
            \/ /\ hooks[h].batch \in Present(claimed)
               /\ pending' = Arrived(claimed, pending, hooks[h].batch)
               /\ claimed' = Left(claimed, pending, hooks[h].batch)
               /\ expired' \subseteq expired
         /\ UNCHANGED <<acknowledged, rejected, publisher, crashes, delivered, dropped,
                        interrupted>>
<1>1. hooks' = [hooks EXCEPT ![h].pc = "recover", ![h].batch = NoBatch]
  BY DEF RecoverClaim
<1>2. Others(h) /\ hooks'[h].pc = "recover"
  BY <1>1 DEF TypeOK, HookStates, Others
<1>3. hooks[h].pc = "replace" /\ hooks[h].batch \in Batches
  BY DEF RecoverClaim, TypeOK
<1> QED
  BY <1>2, <1>3 DEF RecoverClaim

\* A claim moves one batch of the present generation and takes it in hand.
LEMMA ClaimingStep ==
  ASSUME TypeOK, NEW h \in Hooks, Claim(h)
  PROVE  \E c \in Batches :
           /\ Others(h)
           /\ hooks[h].pc = "claim"
           /\ hooks'[h].pc = "load" /\ hooks'[h].batch = c
           /\ c \in Present(pending)
           /\ claimed' = Arrived(pending, claimed, c)
           /\ pending' = Left(pending, claimed, c)
           /\ expired' = expired \ {c}
           /\ UNCHANGED <<acknowledged, rejected, publisher, crashes, delivered, dropped,
                          interrupted>>
<1>1. PICK c \in hooks[h].todo :
        /\ c \in Present(pending)
        /\ claimed' = Arrived(pending, claimed, c)
        /\ pending' = Left(pending, claimed, c)
        /\ expired' = expired \ {c}
        /\ hooks' = [hooks EXCEPT ![h].pc = "load", ![h].batch = c, ![h].todo = {}]
  BY Zenon DEF Claim
<1>2. c \in Batches
  BY <1>1 DEF Present
<1>3. Others(h) /\ hooks'[h].pc = "load" /\ hooks'[h].batch = c
  BY <1>1 DEF TypeOK, HookStates, Others
<1> QED
  BY <1>1, <1>2, <1>3 DEF Claim

\* With a batch in hand, a hook reads the claim, drops what is stale and prints.
LEMMA WorkingStep ==
  ASSUME TypeOK, NEW h \in Hooks, LoadClaim(h) \/ DropStale(h) \/ PrintChunk(h)
  PROVE  /\ Others(h)
         /\ hooks[h].batch \in Batches /\ hooks'[h].batch = hooks[h].batch
         /\ LoadClaim(h) =>
              /\ hooks[h].pc = "load"
              /\ hooks'[h].payload = claimed[hooks[h].batch]
              /\ hooks'[h].pc = IF hooks'[h].payload = {} THEN "reject" ELSE "fresh"
              /\ UNCHANGED <<delivered, dropped>>
         /\ DropStale(h) =>
              /\ hooks[h].pc = "fresh"
              /\ hooks'[h].payload = hooks[h].payload \ stale
              /\ hooks'[h].pc = IF hooks'[h].payload = {} THEN "acknowledge" ELSE "print"
              /\ dropped' = dropped \union (hooks[h].payload \intersect stale)
              /\ UNCHANGED delivered
         /\ PrintChunk(h) =>
              /\ hooks[h].pc = "print"
              /\ \E S \in ChunksOf(hooks[h].payload) :
                    /\ delivered' = delivered \union S
                    /\ hooks'[h].payload = hooks[h].payload \ S
              /\ hooks'[h].pc = IF hooks'[h].payload = {} THEN "acknowledge"
                                ELSE "requeue"
              /\ UNCHANGED dropped
         /\ UNCHANGED <<pending, claimed, acknowledged, rejected, expired, publisher,
                        crashes, interrupted>>
<1>t. hooks[h] \in HookStates /\ hooks \in [Hooks -> HookStates]
  BY DEF TypeOK
<1>b. hooks[h].batch \in Batches
  BY DEF LoadClaim, DropStale, PrintChunk, TypeOK
<1> USE DEF Others
<1>1. CASE LoadClaim(h)
  <2>1. /\ hooks[h].pc = "load"
        /\ hooks' = [hooks EXCEPT
                       ![h].pc = IF claimed[hooks[h].batch] = {} THEN "reject" ELSE "fresh",
                       ![h].payload = claimed[hooks[h].batch]]
        /\ UNCHANGED <<pending, claimed, acknowledged, rejected, expired, publisher,
                       crashes, delivered, dropped, interrupted>>
    BY <1>1 DEF LoadClaim
  <2> QED
    BY <1>t, <1>b, <2>1 DEF HookStates, DropStale, PrintChunk
<1>2. CASE DropStale(h)
  <2>1. /\ hooks[h].pc = "fresh"
        /\ hooks' = [hooks EXCEPT
                       ![h].pc = IF hooks[h].payload \ stale = {} THEN "acknowledge"
                                 ELSE "print",
                       ![h].payload = hooks[h].payload \ stale]
        /\ dropped' = dropped \union (hooks[h].payload \intersect stale)
        /\ UNCHANGED <<pending, claimed, acknowledged, rejected, expired, publisher,
                       crashes, delivered, interrupted>>
    BY <1>2 DEF DropStale
  <2> QED
    BY <1>t, <1>b, <2>1 DEF HookStates, LoadClaim, PrintChunk
<1>3. CASE PrintChunk(h)
  <2>1. PICK S \in ChunksOf(hooks[h].payload) :
          /\ delivered' = delivered \union S
          /\ hooks' = [hooks EXCEPT ![h].payload = hooks[h].payload \ S,
                                    ![h].pc = AfterChunk(hooks[h].payload \ S)]
    BY <1>3 DEF PrintChunk, Rest
  <2>2. /\ hooks[h].pc = "print"
        /\ UNCHANGED <<pending, claimed, acknowledged, rejected, expired, publisher,
                       crashes, dropped, interrupted>>
    BY <1>3 DEF PrintChunk
  <2>3. /\ Others(h) /\ hooks'[h].batch = hooks[h].batch
        /\ hooks'[h].payload = hooks[h].payload \ S
        /\ hooks'[h].pc = IF hooks'[h].payload = {} THEN "acknowledge" ELSE "requeue"
    BY <1>t, <2>1 DEF HookStates, AfterChunk
  <2> QED
    BY <1>b, <2>1, <2>2, <2>3 DEF LoadClaim, DropStale
<1> QED
  BY <1>1, <1>2, <1>3

\* requeue_feedback first writes the rest over the claim.
LEMMA RewritingStep ==
  ASSUME TypeOK, NEW h \in Hooks, RewriteClaim(h)
  PROVE  /\ Others(h)
         /\ hooks[h].pc = "requeue" /\ hooks[h].batch \in Batches
         /\ hooks'[h].pc = "restore" /\ hooks'[h].batch = hooks[h].batch
         /\ hooks'[h].payload = hooks[h].payload
         /\ claimed' = [claimed EXCEPT ![hooks[h].batch] = hooks[h].payload]
         /\ expired' = expired \ {hooks[h].batch}
         /\ UNCHANGED <<pending, acknowledged, rejected, publisher, crashes, delivered,
                        dropped, interrupted>>
<1>1. hooks' = [hooks EXCEPT ![h].pc = "restore"]
  BY DEF RewriteClaim
<1>2. Others(h) /\ hooks'[h].pc = "restore" /\ hooks'[h].batch = hooks[h].batch
      /\ hooks'[h].payload = hooks[h].payload
  BY <1>1 DEF TypeOK, HookStates, Others
<1>3. hooks[h].pc = "requeue" /\ hooks[h].batch \in Batches
  BY DEF RewriteClaim, TypeOK
<1> QED
  BY <1>2, <1>3 DEF RewriteClaim

\* A hook ends by moving the claim, if that is there, to one of three directories.
LEMMA EndingStep ==
  ASSUME TypeOK, NEW h \in Hooks, RejectClaim(h) \/ Acknowledge(h) \/ RestorePending(h)
  PROVE  LET b == hooks[h].batch
         IN  /\ Others(h)
             /\ b \in Batches /\ hooks'[h] = IdleHook
             /\ RejectClaim(h) =>
                  /\ hooks[h].pc = "reject"
                  /\ b \in Present(claimed) =>
                       /\ rejected' = Arrived(claimed, rejected, b)
                       /\ claimed' = Left(claimed, rejected, b)
                  /\ UNCHANGED <<pending, acknowledged>>
             /\ Acknowledge(h) =>
                  /\ hooks[h].pc = "acknowledge"
                  /\ b \in Present(claimed) =>
                       /\ acknowledged' = Arrived(claimed, acknowledged, b)
                       /\ claimed' = Left(claimed, acknowledged, b)
                  /\ UNCHANGED <<pending, rejected>>
             /\ RestorePending(h) =>
                  /\ hooks[h].pc = "restore"
                  /\ b \in Present(claimed) =>
                       /\ pending' = Arrived(claimed, pending, b)
                       /\ claimed' = Left(claimed, pending, b)
                  /\ UNCHANGED <<acknowledged, rejected>>
             /\ b \notin Present(claimed) =>
                  UNCHANGED <<pending, claimed, acknowledged, rejected, expired>>
             /\ expired' \subseteq expired
             /\ UNCHANGED <<publisher, crashes, delivered, dropped, interrupted>>
<1>1. hooks' = [hooks EXCEPT ![h] = IdleHook]
  BY DEF RejectClaim, Acknowledge, RestorePending
<1>2. Others(h) /\ hooks'[h] = IdleHook
  BY <1>1 DEF TypeOK, Others
<1>3. hooks[h].batch \in Batches
  BY DEF RejectClaim, Acknowledge, RestorePending, TypeOK
<1>4. CASE RejectClaim(h)
  BY <1>2, <1>3, <1>4 DEF RejectClaim, Acknowledge, RestorePending
<1>5. CASE Acknowledge(h)
  BY <1>2, <1>3, <1>5 DEF RejectClaim, Acknowledge, RestorePending
<1>6. CASE RestorePending(h)
  BY <1>2, <1>3, <1>6 DEF RejectClaim, Acknowledge, RestorePending
<1> QED
  BY <1>4, <1>5, <1>6

(***************************************************************************)
(* Exclusive claims, up to the first kill.  A batch is in one directory at *)
(* a time, and in claimed/ exactly while one hook has it in its hands.     *)
(* One that takes one message only ever moves from pending/ to claimed/ to *)
(* acknowledged/, the order in which publish looks for it; another one is  *)
(* moved back, but is not published again while it is in the spool.        *)
(***************************************************************************)
OnePlace(b) ==
    /\ pending[b] # {} => claimed[b] = {} /\ acknowledged[b] = {}
    /\ claimed[b] # {} => acknowledged[b] = {}
    /\ claimed[b] # {} <=> \E h \in Hooks : Holds(h, b)
    /\ b \notin expired
    /\ pending[b] \subseteq Cites[b] /\ claimed[b] \subseteq Cites[b]

OneHolder(b) == \A h, i \in Hooks : Holds(h, b) /\ Holds(i, b) => h = i

HolderWorks(b) ==
    \A h \in Hooks :
        hooks[h].batch = b =>
            /\ hooks[h].pc \notin {"replace", "reject"}
            /\ hooks[h].pc \in {"fresh", "print", "requeue"} => hooks[h].payload # {}
            /\ hooks[h].pc \in {"fresh", "print", "requeue"} =>
                 hooks[h].payload \subseteq Cites[b]
            /\ hooks[h].pc \in {"requeue", "restore"} => b \notin Republished

PublisherKnows(b) ==
    /\ publisher.pc # "idle"
    /\ publisher.batch = b
    =>  /\ b \notin Republished =>
             pending[b] = {} /\ claimed[b] = {} /\ acknowledged[b] = {}
        /\ publisher.pc # "checkPending" => pending[b] = {}
        /\ publisher.pc \notin {"checkPending", "checkClaimed"} => claimed[b] = {}
        /\ publisher.pc \in {"record", "link"} => acknowledged[b] = {}

ForwardInv(b) == OnePlace(b) /\ OneHolder(b) /\ HolderWorks(b) /\ PublisherKnows(b)

ClaimsInv == crashes = 0 => \A b \in Batches : MovesForward(b) => ForwardInv(b)

\* No batch is in the spool at the start.
LEMMA InitClaims == Init => ClaimsInv
  BY DEF Init, ClaimsInv, ForwardInv, OnePlace, OneHolder, HolderWorks, PublisherKnows,
     Holds, IdleHook, IdlePublisher

\* Moving a batch leaves the files of every other one.
LEMMA FilesOfOthers ==
  ASSUME NEW from \in [Batches -> SUBSET Findings], NEW to \in [Batches -> SUBSET Findings],
         NEW c \in Batches, NEW b \in Batches \ {c}
  PROVE  Arrived(from, to, c)[b] = to[b] /\ Left(from, to, c)[b] = from[b]
  OBVIOUS

\* Moving a batch into a directory where it is not empties its old place.
LEMMA FilesOfMoved ==
  ASSUME NEW from \in [Batches -> SUBSET Findings], NEW to \in [Batches -> SUBSET Findings],
         NEW b \in Batches, from[b] # {}, to[b] = {}
  PROVE  Arrived(from, to, b)[b] = from[b] /\ Left(from, to, b)[b] = {}
  BY DEF SameFile

\* A hook that has a batch in hand and keeps it, with the claim still there.
LEMMA HolderKeeps ==
  ASSUME TypeOK, NEW b \in Batches, ForwardInv(b), NEW h \in Hooks, Others(h),
         Holds(h, b), Holds(h, b)', claimed'[b] # {}, claimed'[b] \subseteq Cites[b],
         pending'[b] = pending[b], acknowledged'[b] = acknowledged[b],
         b \notin expired', publisher' = publisher,
         hooks'[h].pc # "reject",
         hooks'[h].pc \in {"fresh", "print", "requeue"} => hooks'[h].payload # {},
         hooks'[h].pc \in {"fresh", "print", "requeue"} =>
            hooks'[h].payload \subseteq Cites[b],
         hooks'[h].pc \in {"requeue", "restore"} => b \notin Republished
  PROVE  ForwardInv(b)'
<1>1. claimed[b] # {} /\ \A i \in Hooks \ {h} : ~Holds(i, b)
  BY DEF ForwardInv, OnePlace, OneHolder
<1>2. \A i \in Hooks \ {h} : ~Holds(i, b)'
  BY <1>1 DEF Others, Holds
<1>3. OnePlace(b)' /\ OneHolder(b)'
  BY <1>1, <1>2 DEF ForwardInv, OnePlace, OneHolder
<1>4. HolderWorks(b)'
  BY DEF ForwardInv, HolderWorks, Others, Holds
<1>5. PublisherKnows(b)'
  BY <1>1 DEF ForwardInv, PublisherKnows
<1> QED
  BY <1>3, <1>4, <1>5 DEF ForwardInv

\* A hook that ends with a batch in hand: it is acknowledged, or back in pending/.
LEMMA HolderEnds ==
  ASSUME TypeOK, NEW b \in Batches, ForwardInv(b), NEW h \in Hooks, Others(h),
         Holds(h, b), hooks'[h] = IdleHook, claimed'[b] = {}, b \notin expired',
         publisher' = publisher,
         \/ acknowledged'[b] = claimed[b] /\ pending'[b] = pending[b]
         \/ /\ acknowledged'[b] = acknowledged[b] /\ pending'[b] = claimed[b]
            /\ b \notin Republished
  PROVE  ForwardInv(b)'
<1>1. /\ claimed[b] # {} /\ claimed[b] \subseteq Cites[b]
      /\ pending[b] = {} /\ acknowledged[b] = {}
      /\ \A i \in Hooks \ {h} : ~Holds(i, b)
  BY DEF ForwardInv, OnePlace, OneHolder
<1>2. \A i \in Hooks : ~Holds(i, b)'
  BY <1>1 DEF Others, Holds, IdleHook
<1>3. OnePlace(b)' /\ OneHolder(b)'
  BY <1>1, <1>2 DEF OnePlace, OneHolder
<1>4. HolderWorks(b)'
  BY DEF ForwardInv, HolderWorks, Others, IdleHook
<1>5. PublisherKnows(b)'
  BY <1>1 DEF ForwardInv, PublisherKnows
<1> QED
  BY <1>3, <1>4, <1>5 DEF ForwardInv

\* A step that has no part in the batch.
LEMMA NotHolding ==
  ASSUME TypeOK, NEW b \in Batches, ForwardInv(b), NEW h \in Hooks, Others(h),
         hooks[h].pc \in ListingPcs \/ hooks[h].batch # b,
         hooks'[h].pc \in ListingPcs \/ hooks'[h].batch # b,
         pending'[b] = pending[b], claimed'[b] = claimed[b],
         acknowledged'[b] = acknowledged[b], b \notin expired', publisher' = publisher
  PROVE  ForwardInv(b)'
<1>1. \A i \in Hooks : Holds(i, b)' <=> Holds(i, b)
  BY DEF Holds, Others, ListingPcs
<1>2. OnePlace(b)' /\ OneHolder(b)'
  BY <1>1 DEF ForwardInv, OnePlace, OneHolder
<1>3. HolderWorks(b)'
  BY DEF ForwardInv, HolderWorks, Others, ListingPcs
<1>4. PublisherKnows(b)'
  BY DEF ForwardInv, PublisherKnows
<1> QED
  BY <1>2, <1>3, <1>4 DEF ForwardInv

\* A batch of at most one message is printed at once.
LEMMA OneMessage ==
  ASSUME NEW b \in Batches, Cardinality(Cites[b]) <= ChunkSize,
         NEW payload \in SUBSET Cites[b], NEW S \in ChunksOf(payload)
  PROVE  S = payload
<1>1. IsFiniteSet(Cites[b])
  BY BatchesAssumption, FS_Subset
<1>2. Cardinality(payload) <= Cardinality(Cites[b])
  BY <1>1, FS_Subset
<1>3. /\ Cardinality(payload) \in Nat /\ Cardinality(Cites[b]) \in Nat
      /\ ChunkSize \in Nat
  BY <1>1, FS_Subset, FS_CardinalityType, BoundsAssumption
<1>4. Cardinality(payload) <= ChunkSize
  BY <1>2, <1>3
<1> QED
  BY <1>4 DEF ChunksOf

\* A hook's step keeps a batch that moves forward in one place and in one hand.
LEMMA HookClaims ==
  ASSUME TypeOK, NEW b \in Batches, MovesForward(b), ForwardInv(b), NEW h \in Hooks,
         (\E a \in Agents : StartHook(h, a)) \/ HookStep(h)
  PROVE  ForwardInv(b)'
<1>t. /\ pending \in [Batches -> SUBSET Findings] /\ claimed \in [Batches -> SUBSET Findings]
      /\ acknowledged \in [Batches -> SUBSET Findings]
      /\ rejected \in [Batches -> SUBSET Findings]
  BY DEF TypeOK
<1>e. b \notin expired
  BY DEF ForwardInv, OnePlace
<1>1. CASE \/ \E a \in Agents : StartHook(h, a)
           \/ EnterClaim(h) \/ FindExpired(h) \/ PassClaim(h) \/ ListPending(h)
           \/ PassPending(h) \/ ClaimNothing(h)
  <2>1. /\ Others(h)
        /\ hooks[h].pc \in ListingPcs
        /\ hooks'[h].pc \in ListingPcs \/ hooks'[h].batch \in expired
        /\ UNCHANGED <<pending, claimed, acknowledged, expired, publisher>>
    BY <1>1, ListingStep
  <2> QED
    BY <1>e, <2>1, NotHolding
<1>2. CASE RecoverClaim(h)
  <2> DEFINE c == hooks[h].batch
  <2>1. /\ Others(h) /\ hooks[h].pc = "replace" /\ c \in Batches
        /\ hooks'[h].pc = "recover"
        /\ \/ UNCHANGED <<pending, claimed, expired>>
           \/ /\ pending' = Arrived(claimed, pending, c)
              /\ claimed' = Left(claimed, pending, c)
              /\ expired' \subseteq expired
        /\ UNCHANGED <<acknowledged, publisher>>
    BY <1>2, RecoveringStep
  <2>2. c # b
    BY <2>1 DEF ForwardInv, HolderWorks
  <2> HIDE DEF c
  <2>3. pending'[b] = pending[b] /\ claimed'[b] = claimed[b] /\ b \notin expired'
    BY <1>t, <1>e, <2>1, <2>2, FilesOfOthers
  <2> QED
    BY <2>1, <2>2, <2>3, NotHolding DEF c, ListingPcs
<1>3. CASE Claim(h)
  <2>1. PICK c \in Batches :
          /\ Others(h)
          /\ hooks[h].pc = "claim"
          /\ hooks'[h].pc = "load" /\ hooks'[h].batch = c
          /\ c \in Present(pending)
          /\ claimed' = Arrived(pending, claimed, c)
          /\ pending' = Left(pending, claimed, c)
          /\ expired' = expired \ {c}
          /\ UNCHANGED <<acknowledged, publisher>>
    BY <1>3, ClaimingStep
  <2>2. CASE c # b
    <3>1. pending'[b] = pending[b] /\ claimed'[b] = claimed[b] /\ b \notin expired'
      BY <1>t, <1>e, <2>1, <2>2, FilesOfOthers
    <3> QED
      BY <2>1, <2>2, <3>1, NotHolding DEF ListingPcs
  <2>3. CASE c = b
    <3>1. /\ pending[b] # {} /\ claimed[b] = {} /\ acknowledged[b] = {}
          /\ \A i \in Hooks : ~Holds(i, b)
          /\ pending[b] \subseteq Cites[b]
      BY <2>1, <2>3 DEF ForwardInv, OnePlace, Present
    <3>2. claimed'[b] = pending[b] /\ pending'[b] = {} /\ b \notin expired'
      BY <1>t, <2>1, <2>3, <3>1, FilesOfMoved
    <3>3. \A i \in Hooks : Holds(i, b)' <=> i = h
      BY <2>1, <2>3, <3>1 DEF Holds, Others
    <3>4. OnePlace(b)' /\ OneHolder(b)'
      BY <2>1, <3>1, <3>2, <3>3 DEF OnePlace, OneHolder
    <3>5. HolderWorks(b)'
      BY <2>1 DEF ForwardInv, HolderWorks, Others
    <3>6. PublisherKnows(b)'
      BY <2>1, <3>1, <3>2 DEF ForwardInv, PublisherKnows
    <3> QED
      BY <3>4, <3>5, <3>6 DEF ForwardInv
  <2> QED
    BY <2>2, <2>3
<1>4. CASE LoadClaim(h) \/ DropStale(h) \/ PrintChunk(h)
  <2>1. /\ Others(h)
        /\ hooks[h].batch \in Batches /\ hooks'[h].batch = hooks[h].batch
        /\ hooks[h].pc \in {"load", "fresh", "print"}
        /\ hooks'[h].pc \in {"fresh", "reject", "print", "acknowledge", "requeue"}
        /\ UNCHANGED <<pending, claimed, acknowledged, expired, publisher>>
    BY <1>4, WorkingStep
  <2>2. CASE hooks[h].batch # b
    BY <1>e, <2>1, <2>2, NotHolding
  <2>3. CASE hooks[h].batch = b
    <3>1. /\ Holds(h, b) /\ Holds(h, b)' /\ claimed[b] # {}
          /\ claimed[b] \subseteq Cites[b]
      BY <2>1, <2>3 DEF Holds, ForwardInv, OnePlace
    <3>2. hooks[h].pc \in {"fresh", "print"} =>
            hooks[h].payload # {} /\ hooks[h].payload \subseteq Cites[b]
      BY <2>3 DEF ForwardInv, HolderWorks
    <3>3. /\ hooks'[h].pc # "reject"
          /\ hooks'[h].pc \in {"fresh", "print", "requeue"} => hooks'[h].payload # {}
          /\ hooks'[h].pc \in {"fresh", "print", "requeue"} =>
               hooks'[h].payload \subseteq Cites[b]
          /\ hooks'[h].pc # "restore"
          /\ hooks'[h].pc = "requeue" => b \notin Republished
      <4>1. CASE LoadClaim(h)
        BY <2>3, <3>1, <4>1, WorkingStep
      <4>2. CASE DropStale(h)
        BY <2>3, <3>2, <4>2, WorkingStep
      <4>3. CASE PrintChunk(h)
        <5>1. /\ hooks[h].pc = "print"
              /\ hooks'[h].pc = IF hooks'[h].payload = {} THEN "acknowledge" ELSE "requeue"
          BY <4>3, WorkingStep
        <5>2. PICK S \in ChunksOf(hooks[h].payload) :
                hooks'[h].payload = hooks[h].payload \ S
          BY <4>3, WorkingStep
        <5>3. b \in Republished => S = hooks[h].payload
          BY <3>2, <5>1, OneMessage DEF MovesForward
        <5> QED
          BY <3>2, <5>1, <5>2, <5>3
      <4> QED
        BY <1>4, <4>1, <4>2, <4>3
    <3> QED
      BY <1>e, <2>1, <3>1, <3>3, HolderKeeps
  <2> QED
    BY <2>2, <2>3
<1>5. CASE RewriteClaim(h)
  <2> DEFINE c == hooks[h].batch
  <2>1. /\ Others(h)
        /\ hooks[h].pc = "requeue" /\ c \in Batches
        /\ hooks'[h].pc = "restore" /\ hooks'[h].batch = c
        /\ hooks'[h].payload = hooks[h].payload
        /\ claimed' = [claimed EXCEPT ![c] = hooks[h].payload]
        /\ expired' \subseteq expired
        /\ UNCHANGED <<pending, acknowledged, publisher>>
    BY <1>5, RewritingStep
  <2>2. CASE c # b
    <3>1. claimed'[b] = claimed[b] /\ b \notin expired'
      BY <1>t, <1>e, <2>1, <2>2
    <3> QED
      BY <2>1, <2>2, <3>1, NotHolding
  <2>3. CASE c = b
    <3>1. claimed'[b] = hooks[h].payload /\ b \notin expired'
      BY <1>t, <1>e, <2>1, <2>3
    <3>2. /\ hooks[h].payload # {} /\ b \notin Republished
          /\ hooks[h].payload \subseteq Cites[b]
      BY <2>1, <2>3 DEF ForwardInv, HolderWorks
    <3>3. Holds(h, b) /\ Holds(h, b)'
      BY <2>1, <2>3 DEF Holds
    <3> QED
      BY <2>1, <3>1, <3>2, <3>3, HolderKeeps
  <2> QED
    BY <2>2, <2>3
<1>6. CASE RejectClaim(h) \/ Acknowledge(h) \/ RestorePending(h)
  <2> DEFINE c == hooks[h].batch
  <2>1. /\ Others(h) /\ c \in Batches /\ hooks'[h] = IdleHook
        /\ RejectClaim(h) =>
             /\ hooks[h].pc = "reject"
             /\ c \in Present(claimed) => claimed' = Left(claimed, rejected, c)
             /\ UNCHANGED <<pending, acknowledged>>
        /\ Acknowledge(h) =>
             /\ hooks[h].pc = "acknowledge"
             /\ c \in Present(claimed) =>
                  /\ acknowledged' = Arrived(claimed, acknowledged, c)
                  /\ claimed' = Left(claimed, acknowledged, c)
             /\ UNCHANGED pending
        /\ RestorePending(h) =>
             /\ hooks[h].pc = "restore"
             /\ c \in Present(claimed) =>
                  /\ pending' = Arrived(claimed, pending, c)
                  /\ claimed' = Left(claimed, pending, c)
             /\ UNCHANGED acknowledged
        /\ c \notin Present(claimed) => UNCHANGED <<pending, claimed, acknowledged>>
        /\ expired' \subseteq expired
        /\ UNCHANGED publisher
    BY <1>6, EndingStep
  <2>i. IdleHook.pc = "idle"
    BY DEF IdleHook
  <2>2. CASE c # b
    <3>1. /\ pending'[b] = pending[b] /\ claimed'[b] = claimed[b]
          /\ acknowledged'[b] = acknowledged[b]
      <4> HIDE DEF c
      <4> QED
        BY <1>t, <1>6, <2>1, <2>2, FilesOfOthers
    <3> QED
      BY <1>e, <2>1, <2>i, <2>2, <3>1, NotHolding DEF ListingPcs
  <2>3. CASE c = b
    <3>1. Holds(h, b) /\ hooks[h].pc # "reject"
      BY <1>6, <2>1, <2>3 DEF Holds, ForwardInv, HolderWorks
    <3>2. /\ claimed[b] # {} /\ acknowledged[b] = {} /\ pending[b] = {}
          /\ b \in Present(claimed)
      BY <3>1 DEF ForwardInv, OnePlace, Present
    <3>3. CASE Acknowledge(h)
      <4>1. acknowledged'[b] = claimed[b] /\ claimed'[b] = {} /\ pending' = pending
        BY <1>t, <2>1, <2>3, <3>2, <3>3, FilesOfMoved
      <4> QED
        BY <1>e, <2>1, <3>1, <4>1, HolderEnds
    <3>4. CASE RestorePending(h)
      <4>1. /\ pending'[b] = claimed[b] /\ claimed'[b] = {}
            /\ acknowledged' = acknowledged
        BY <1>t, <2>1, <2>3, <3>2, <3>4, FilesOfMoved
      <4>2. b \notin Republished
        BY <2>1, <2>3, <3>4 DEF ForwardInv, HolderWorks
      <4> QED
        BY <1>e, <2>1, <3>1, <4>1, <4>2, HolderEnds
    <3> QED
      BY <1>6, <2>1, <3>1, <3>3, <3>4
  <2> QED
    BY <2>2, <2>3
<1> QED
  BY <1>1, <1>2, <1>3, <1>4, <1>5, <1>6 DEF HookStep

\* publish adds only a batch that it has found nowhere.
LEMMA PublicationClaims ==
  ASSUME TypeOK, NEW b \in Batches, ForwardInv(b), Publication
  PROVE  ForwardInv(b)'
<1> USE DEF PublisherAt, PublisherReturns, Present
<1>t. publisher \in Publishers /\ pending \in [Batches -> SUBSET Findings]
  BY DEF TypeOK
<1>1. UNCHANGED <<claimed, acknowledged, hooks, expired>>
  BY DEF Publication, StartPublish, CheckPending, CheckClaimed,
         CheckAcknowledged, RecordBatch, LinkBatch
<1>2. \A i \in Hooks : Holds(i, b)' <=> Holds(i, b)
  BY <1>1 DEF Holds
<1>3. OneHolder(b)' /\ HolderWorks(b)'
  BY <1>1, <1>2 DEF ForwardInv, OneHolder, HolderWorks
<1>4. OnePlace(b)'
  <2>1. CASE UNCHANGED pending
    BY <1>1, <1>2, <2>1 DEF ForwardInv, OnePlace
  <2>2. CASE LinkBatch
    <3>1. CASE publisher.batch = b
      <4>1. claimed[b] = {} /\ acknowledged[b] = {} /\ pending'[b] \subseteq Cites[b]
        BY <1>t, <2>2, <3>1 DEF LinkBatch, ForwardInv, PublisherKnows
      <4> QED
        BY <1>1, <1>2, <4>1 DEF ForwardInv, OnePlace
    <3>2. CASE publisher.batch # b
      <4>1. pending'[b] = pending[b]
        BY <1>t, <2>2, <3>2 DEF LinkBatch
      <4> QED
        BY <1>1, <1>2, <4>1 DEF ForwardInv, OnePlace
    <3> QED
      BY <3>1, <3>2
  <2> QED
    BY <2>1, <2>2 DEF Publication, StartPublish, CheckPending, CheckClaimed,
                      CheckAcknowledged, RecordBatch
<1>5. PublisherKnows(b)'
  <2>1. ASSUME NEW c \in Batches, StartPublish(c) PROVE PublisherKnows(b)'
    BY <2>1 DEF StartPublish, PublisherKnows, NowhereInSpool
  <2>2. CASE CheckPending
    BY <1>t, <2>2 DEF CheckPending, ForwardInv, PublisherKnows, Publishers, IdlePublisher
  <2>3. CASE CheckClaimed
    BY <1>t, <2>3 DEF CheckClaimed, ForwardInv, PublisherKnows, Publishers, IdlePublisher
  <2>4. CASE CheckAcknowledged
    BY <1>t, <2>4
    DEF CheckAcknowledged, ForwardInv, PublisherKnows, Publishers, IdlePublisher
  <2>5. CASE RecordBatch
    BY <1>t, <2>5 DEF RecordBatch, ForwardInv, PublisherKnows, Publishers
  <2>6. CASE LinkBatch
    BY <2>6 DEF LinkBatch, PublisherKnows, IdlePublisher
  <2> QED
    BY <2>1, <2>2, <2>3, <2>4, <2>5, <2>6 DEF Publication
<1> QED
  BY <1>3, <1>4, <1>5 DEF ForwardInv

\* Every step before the first kill keeps the claims apart.
LEMMA NextClaims == TypeOK /\ ClaimsInv /\ [Next]_vars => ClaimsInv'
<1> SUFFICES ASSUME TypeOK, ClaimsInv, [Next]_vars, crashes' = 0,
                    NEW b \in Batches, MovesForward(b)
             PROVE  ForwardInv(b)'
  BY DEF ClaimsInv, MovesForward
<1>0. crashes \in Nat
  BY BoundsAssumption DEF TypeOK
<1>k. (\A h \in Hooks : ~KillHook(h)) /\ ~KillPublisher
  BY <1>0 DEF KillHook, KillPublisher
<1>c. crashes = 0
  <2>1. CASE UNCHANGED vars
    BY <2>1 DEF vars
  <2>2. CASE Publication
    BY <2>2 DEF Publication, StartPublish, CheckPending, CheckClaimed,
                CheckAcknowledged, RecordBatch, LinkBatch
  <2>3. ASSUME NEW h \in Hooks, (\E a \in Agents : StartHook(h, a)) \/ HookStep(h)
        PROVE  UNCHANGED crashes
    BY <2>3, ListingStep, RecoveringStep, ClaimingStep, WorkingStep, RewritingStep,
       EndingStep
    DEF HookStep
  <2>4. CASE Environment
    BY <2>4, <1>k DEF Environment, EditCitedFile, ReleaseSession, Expire
  <2> QED
    BY <2>1, <2>2, <2>3, <2>4 DEF Next
<1>i. ForwardInv(b)
  BY <1>c DEF ClaimsInv
<1>1. CASE UNCHANGED <<pending, claimed, acknowledged, expired, publisher, hooks>>
  BY <1>1, <1>i DEF ForwardInv, OnePlace, OneHolder, HolderWorks, PublisherKnows, Holds
<1>2. CASE Publication
  BY <1>2, <1>i, PublicationClaims
<1>3. ASSUME NEW h \in Hooks, (\E a \in Agents : StartHook(h, a)) \/ HookStep(h)
      PROVE  ForwardInv(b)'
  BY <1>3, <1>i, HookClaims
<1>4. ASSUME NEW c \in Batches, Expire(c) PROVE ForwardInv(b)'
  <2>1. /\ c \in Present(claimed) /\ \A h \in Hooks : ~Holds(h, c)
        /\ expired' = expired \union {c}
        /\ UNCHANGED <<pending, claimed, acknowledged, publisher, hooks>>
    BY <1>4 DEF Expire
  <2>2. c # b
    BY <1>i, <2>1 DEF ForwardInv, OnePlace, Present
  <2> QED
    BY <1>i, <2>1, <2>2
    DEF ForwardInv, OnePlace, OneHolder, HolderWorks, PublisherKnows, Holds
<1>5. CASE Environment
  BY <1>1, <1>4, <1>5, <1>k DEF Environment, EditCitedFile, ReleaseSession
<1> QED
  BY <1>1, <1>2, <1>3, <1>5 DEF Next, vars

\* Up to the first kill, however many hooks list, claim, requeue and acknowledge while
\* the watcher publishes, no two of them have one claim in hand, except of a batch of
\* several messages that is published again.
THEOREM ClaimsCorrect == Spec => []ClaimedOnce
<1>1. ClaimsInv => ClaimedOnce
  BY DEF ClaimsInv, ClaimedOnce, ForwardInv, OneHolder
<1> QED
  BY <1>1, InitTypes, NextTypes, InitClaims, NextClaims, PTL DEF Spec

(***************************************************************************)
(* The refinement, for one hook at a time (the agent runs its hooks one    *)
(* after another).  A hook's claim stays in place until the hook moves it, *)
(* so what is printed or dropped is still offered, and what leaves the     *)
(* spool has been delivered or dropped (CopiesInv).                        *)
(***************************************************************************)
OneAtATime == \A h, i \in Hooks : h = i

FilesCited ==
    \A b \in Batches : pending[b] \subseteq Cites[b] /\ claimed[b] \subseteq Cites[b]

HandInv ==
    \A h \in Hooks :
        /\ hooks[h].pc # "reject"
        /\ hooks[h].pc \in HandPcs => claimed[hooks[h].batch] # {}
        /\ hooks[h].pc \in {"fresh", "print", "requeue"} =>
             hooks[h].payload \subseteq claimed[hooks[h].batch]
        /\ hooks[h].pc \in {"print", "requeue"} => hooks[h].payload # {}

\* No hook is at work at the start, and there are no files.
LEMMA InitHand == Init => FilesCited /\ HandInv
  BY DEF Init, FilesCited, HandInv, IdleHook, HandPcs

\* What a move takes from one directory and brings to another.
LEMMA MovedFiles ==
  ASSUME NEW from \in [Batches -> SUBSET Findings], NEW to \in [Batches -> SUBSET Findings],
         NEW c \in Batches
  PROVE  /\ Arrived(from, to, c)[c] = from[c]
         /\ Left(from, to, c)[c] \in {from[c], {}}
         /\ \A b \in Batches \ {c} : /\ Arrived(from, to, c)[b] = to[b]
                                     /\ Left(from, to, c)[b] = from[b]
  OBVIOUS

\* Every step keeps the claim of the only hook in place.
LEMMA NextHand ==
  ASSUME OneAtATime
  PROVE  TypeOK /\ HandInv /\ [Next]_vars => HandInv'
<1> SUFFICES ASSUME TypeOK, HandInv, [Next]_vars PROVE HandInv'
  OBVIOUS
<1>1. CASE UNCHANGED <<claimed, hooks>>
  BY <1>1 DEF HandInv
<1>2. ASSUME NEW h \in Hooks, KillHook(h) PROVE HandInv'
  BY <1>2 DEF KillHook, TypeOK, HandInv, IdleHook, HandPcs
<1>3. ASSUME NEW h \in Hooks, (\E a \in Agents : StartHook(h, a)) \/ HookStep(h)
      PROVE  HandInv'
  <2>o. \A i \in Hooks : i = h
    BY DEF OneAtATime
  <2>f. /\ pending \in [Batches -> SUBSET Findings] /\ claimed \in [Batches -> SUBSET Findings]
    BY DEF TypeOK
  <2>1. CASE \/ \E a \in Agents : StartHook(h, a)
             \/ EnterClaim(h) \/ FindExpired(h) \/ PassClaim(h) \/ ListPending(h)
             \/ PassPending(h) \/ ClaimNothing(h) \/ RecoverClaim(h)
    <3>1. hooks'[h].pc \in ListingPcs \union {"replace"}
      BY <2>1, ListingStep, RecoveringStep DEF ListingPcs
    <3> QED
      BY <2>o, <3>1 DEF HandInv, ListingPcs, HandPcs
  <2>2. CASE Claim(h)
    <3>1. PICK c \in Batches :
            /\ hooks'[h].pc = "load" /\ hooks'[h].batch = c
            /\ c \in Present(pending)
            /\ claimed' = Arrived(pending, claimed, c)
      BY <2>2, ClaimingStep
    <3>2. claimed'[c] # {}
      BY <2>f, <3>1, MovedFiles DEF Present
    <3> QED
      BY <2>o, <3>1, <3>2 DEF HandInv
  <2>3. CASE LoadClaim(h)
    <3>1. /\ hooks[h].pc = "load" /\ hooks'[h].batch = hooks[h].batch
          /\ hooks'[h].payload = claimed[hooks[h].batch]
          /\ hooks'[h].pc = IF hooks'[h].payload = {} THEN "reject" ELSE "fresh"
          /\ claimed' = claimed
      BY <2>3, WorkingStep
    <3> QED
      BY <2>o, <3>1 DEF HandInv, HandPcs
  <2>4. CASE DropStale(h)
    <3>1. /\ hooks[h].pc = "fresh" /\ hooks'[h].batch = hooks[h].batch
          /\ hooks'[h].payload = hooks[h].payload \ stale
          /\ hooks'[h].pc = IF hooks'[h].payload = {} THEN "acknowledge" ELSE "print"
          /\ claimed' = claimed
      BY <2>4, WorkingStep
    <3> QED
      BY <2>o, <3>1 DEF HandInv, HandPcs
  <2>5. CASE PrintChunk(h)
    <3>1. /\ hooks[h].pc = "print" /\ hooks'[h].batch = hooks[h].batch
          /\ hooks'[h].pc = IF hooks'[h].payload = {} THEN "acknowledge" ELSE "requeue"
          /\ hooks'[h].payload \subseteq hooks[h].payload
          /\ claimed' = claimed
      BY <2>5, WorkingStep
    <3> QED
      BY <2>o, <3>1 DEF HandInv, HandPcs
  <2>6. CASE RewriteClaim(h)
    <3>1. /\ hooks[h].pc = "requeue" /\ hooks[h].batch \in Batches
          /\ hooks'[h].pc = "restore" /\ hooks'[h].batch = hooks[h].batch
          /\ claimed' = [claimed EXCEPT ![hooks[h].batch] = hooks[h].payload]
      BY <2>6, RewritingStep
    <3>2. claimed'[hooks[h].batch] # {}
      BY <2>f, <3>1 DEF HandInv
    <3> QED
      BY <2>o, <3>1, <3>2 DEF HandInv
  <2>7. CASE RejectClaim(h) \/ Acknowledge(h) \/ RestorePending(h)
    <3>1. hooks'[h] = IdleHook
      BY <2>7, EndingStep
    <3> QED
      BY <2>o, <3>1 DEF HandInv, IdleHook, HandPcs
  <2> QED
    BY <1>3, <2>1, <2>2, <2>3, <2>4, <2>5, <2>6, <2>7 DEF HookStep
<1> QED
  BY <1>1, <1>2, <1>3
  DEF Next, vars, Publication, StartPublish, CheckPending, CheckClaimed,
      CheckAcknowledged, RecordBatch, LinkBatch, Environment, EditCitedFile,
      ReleaseSession, Expire, KillPublisher

\* Every file keeps to the findings of its batch.
LEMMA NextFiles ==
  ASSUME OneAtATime
  PROVE  TypeOK /\ HandInv /\ FilesCited /\ [Next]_vars => FilesCited'
<1> SUFFICES ASSUME TypeOK, HandInv, FilesCited, [Next]_vars PROVE FilesCited'
  OBVIOUS
<1>t. /\ pending \in [Batches -> SUBSET Findings] /\ claimed \in [Batches -> SUBSET Findings]
      /\ acknowledged \in [Batches -> SUBSET Findings]
      /\ rejected \in [Batches -> SUBSET Findings]
  BY DEF TypeOK
<1>1. CASE UNCHANGED <<pending, claimed>>
  BY <1>1 DEF FilesCited
<1>2. CASE LinkBatch
  <2>1. \A b \in Batches : pending'[b] \in {pending[b], Cites[b]}
    BY <1>2, <1>t DEF LinkBatch
  <2> QED
    BY <1>2, <2>1 DEF LinkBatch, FilesCited
<1>3. ASSUME NEW h \in Hooks, (\E a \in Agents : StartHook(h, a)) \/ HookStep(h)
      PROVE  FilesCited'
  <2> DEFINE c == hooks[h].batch
  <2>1. CASE RecoverClaim(h)
    <3>1. /\ c \in Batches
          /\ \/ UNCHANGED <<pending, claimed>>
             \/ /\ pending' = Arrived(claimed, pending, c)
                /\ claimed' = Left(claimed, pending, c)
      BY <2>1, RecoveringStep
    <3> HIDE DEF c
    <3> QED
      BY <1>t, <3>1, MovedFiles DEF FilesCited
  <2>2. CASE Claim(h)
    <3>1. PICK d \in Batches : /\ claimed' = Arrived(pending, claimed, d)
                               /\ pending' = Left(pending, claimed, d)
      BY <2>2, ClaimingStep
    <3> QED
      BY <1>t, <3>1, MovedFiles DEF FilesCited
  <2>3. CASE RewriteClaim(h)
    <3>1. /\ c \in Batches /\ hooks[h].pc = "requeue" /\ pending' = pending
          /\ claimed' = [claimed EXCEPT ![c] = hooks[h].payload]
      BY <2>3, RewritingStep
    <3>2. hooks[h].payload \subseteq claimed[c]
      BY <3>1 DEF HandInv
    <3> HIDE DEF c
    <3> QED
      BY <1>t, <3>1, <3>2 DEF FilesCited
  <2>4. CASE RejectClaim(h) \/ Acknowledge(h) \/ RestorePending(h)
    <3>1. /\ c \in Batches
          /\ \/ UNCHANGED <<pending, claimed>>
             \/ pending' = pending /\ claimed' = Left(claimed, rejected, c)
             \/ pending' = pending /\ claimed' = Left(claimed, acknowledged, c)
             \/ /\ pending' = Arrived(claimed, pending, c)
                /\ claimed' = Left(claimed, pending, c)
      <4>1. c \in Batches
        BY <2>4, EndingStep
      <4>2. CASE c \notin Present(claimed)
        BY <2>4, <4>1, <4>2, EndingStep
      <4>3. CASE c \in Present(claimed)
        BY <2>4, <4>1, <4>3, EndingStep
      <4> QED
        BY <4>2, <4>3
    <3> HIDE DEF c
    <3> QED
      BY <1>t, <3>1, MovedFiles DEF FilesCited
  <2>5. CASE UNCHANGED <<pending, claimed>>
    BY <1>1, <2>5
  <2> QED
    BY <1>3, <2>1, <2>2, <2>3, <2>4, <2>5, ListingStep, WorkingStep DEF HookStep
<1> QED
  BY <1>1, <1>2, <1>3
  DEF Next, vars, Publication, StartPublish, CheckPending, CheckClaimed,
      CheckAcknowledged, RecordBatch, Environment, EditCitedFile, ReleaseSession, Expire,
      KillHook, KillPublisher

\* A finding is available if a file of pending/ or claimed/ has it.
LEMMA InAvailable ==
  ASSUME NEW f
  PROVE  f \in Available <=> \E b \in Batches : f \in pending[b] \/ f \in claimed[b]
  BY DEF Available

\* The steps that only add to the spool, or lose what was delivered or dropped.
LEMMA MappedStep ==
  ASSUME TypeOK, TypeOK', UNCHANGED <<delivered, dropped>>,
         \/ Available \subseteq Available'
         \/ Available' \subseteq Available /\ Available \ Available' \subseteq Gone
  PROVE  [Delivery!Next]_(Delivery!vars)
<1>t. Available \subseteq Findings /\ Available' \subseteq Findings
  BY DEF TypeOK, Available
<1>1. CASE Available \subseteq Available'
  <2>1. Delivery!Publish(Available')
    BY <1>1 DEF Delivery!Publish
  <2> QED
    BY <1>t, <2>1 DEF Delivery!Next
<1>2. CASE Available' \subseteq Available /\ Available \ Available' \subseteq Gone
  <2>1. Delivery!Withdraw(Available \ Available')
    BY <1>2 DEF Delivery!Withdraw, Gone
  <2>2. Available \ Available' \in SUBSET Findings
    BY <1>t
  <2> QED
    BY <2>1, <2>2 DEF Delivery!Next
<1> QED
  BY <1>1, <1>2

\* Moving a file between pending/ and claimed/ loses only what is gone: what the file
\* overwrites there.
LEMMA MovedAvailable ==
  ASSUME TypeOK, FilesComplete, FilesCited, NEW c \in Batches,
         \/ /\ claimed[c] # {}
            /\ pending' = Arrived(claimed, pending, c)
            /\ claimed' = Left(claimed, pending, c)
         \/ /\ pending[c] # {}
            /\ claimed' = Arrived(pending, claimed, c)
            /\ pending' = Left(pending, claimed, c)
  PROVE  Available' \subseteq Available /\ Available \ Available' \subseteq Gone
<1>t. /\ pending \in [Batches -> SUBSET Findings] /\ claimed \in [Batches -> SUBSET Findings]
  BY DEF TypeOK
<1> DEFINE moved == IF claimed[c] # {} /\ pending' = Arrived(claimed, pending, c)
                    THEN claimed[c] ELSE pending[c]
<1>1. /\ moved # {} /\ moved \in {pending[c], claimed[c]}
      /\ moved \subseteq pending'[c] \union claimed'[c]
      /\ pending'[c] \in {{}, pending[c], claimed[c]}
      /\ claimed'[c] \in {{}, pending[c], claimed[c]}
      /\ \A b \in Batches \ {c} : pending'[b] = pending[b] /\ claimed'[b] = claimed[b]
  BY <1>t, MovedFiles
<1>2. Available' \subseteq Available
  BY <1>1, InAvailable DEF Available
<1>3. Available \ Available' \subseteq Gone
  <2> SUFFICES ASSUME NEW f \in Available, f \notin Available' PROVE f \in Gone
    OBVIOUS
  <2>1. PICK b \in Batches : f \in pending[b] \/ f \in claimed[b]
    BY InAvailable
  <2>2. \A d \in Batches : f \notin pending'[d] /\ f \notin claimed'[d]
    BY DEF Available
  <2>3. b = c /\ f \notin moved
    BY <1>1, <2>1, <2>2
  <2>4. f \in Cites[c] /\ Cites[c] \ moved \subseteq Gone
    BY <1>1, <2>1, <2>3 DEF FilesCited, FilesComplete
  <2> QED
    BY <2>3, <2>4
<1> QED
  BY <1>2, <1>3

\* A step of the only hook is one of the specification of delivery, or none.
LEMMA HookDelivers ==
  ASSUME CopiesInv, TypeOK', FilesCited, HandInv, NEW h \in Hooks,
         (\E a \in Agents : StartHook(h, a)) \/ HookStep(h)
  PROVE  [Delivery!Next]_(Delivery!vars)
<1> DEFINE c == hooks[h].batch
<1>t. /\ TypeOK /\ FilesComplete
      /\ pending \in [Batches -> SUBSET Findings] /\ claimed \in [Batches -> SUBSET Findings]
      /\ acknowledged \in [Batches -> SUBSET Findings]
  BY DEF CopiesInv, TypeOK
<1>1. CASE UNCHANGED <<pending, claimed, delivered, dropped>>
  BY <1>t, <1>1, MappedStep DEF Available
<1>2. CASE RecoverClaim(h)
  <2>1. /\ c \in Batches /\ UNCHANGED <<delivered, dropped>>
        /\ \/ UNCHANGED <<pending, claimed>>
           \/ /\ claimed[c] # {}
              /\ pending' = Arrived(claimed, pending, c)
              /\ claimed' = Left(claimed, pending, c)
    BY <1>t, <1>2, RecoveringStep DEF Present
  <2> HIDE DEF c
  <2> QED
    BY <1>t, <1>1, <2>1, MovedAvailable, MappedStep
<1>3. CASE Claim(h)
  <2>1. PICK d \in Batches : /\ pending[d] # {}
                             /\ claimed' = Arrived(pending, claimed, d)
                             /\ pending' = Left(pending, claimed, d)
                             /\ UNCHANGED <<delivered, dropped>>
    BY <1>t, <1>3, ClaimingStep DEF Present
  <2> QED
    BY <1>t, <2>1, MovedAvailable, MappedStep
<1>4. CASE DropStale(h)
  <2>1. /\ c \in Batches /\ hooks[h].pc = "fresh"
        /\ dropped' = dropped \union (hooks[h].payload \intersect stale)
        /\ UNCHANGED <<pending, claimed, delivered>>
    BY <1>t, <1>4, WorkingStep
  <2>2. hooks[h].payload \subseteq Available /\ Available' = Available
    BY <2>1 DEF HandInv, Available
  <2>3. Delivery!Drop(hooks[h].payload \intersect stale)
    BY <2>1, <2>2 DEF Delivery!Drop
  <2>4. hooks[h].payload \intersect stale \in SUBSET Findings
    BY <1>t DEF TypeOK
  <2> QED
    BY <2>3, <2>4 DEF Delivery!Next
<1>5. CASE PrintChunk(h)
  <2>1. /\ c \in Batches /\ hooks[h].pc = "print"
        /\ UNCHANGED <<pending, claimed, dropped>>
    BY <1>t, <1>5, WorkingStep
  <2>2. PICK S \in ChunksOf(hooks[h].payload) : delivered' = delivered \union S
    BY <1>t, <1>5, WorkingStep
  <2>3. hooks[h].payload \subseteq Available /\ Available' = Available
    BY <2>1 DEF HandInv, Available
  <2>4. S \subseteq hooks[h].payload /\ hooks[h].payload \subseteq Findings
    BY <1>t, <2>2 DEF ChunksOf, TypeOK, HookStates
  <2>5. Delivery!Deliver(S)
    BY <2>1, <2>2, <2>3, <2>4 DEF Delivery!Deliver
  <2> QED
    BY <2>4, <2>5 DEF Delivery!Next
<1>6. CASE RewriteClaim(h)
  <2>1. /\ c \in Batches /\ hooks[h].pc = "requeue"
        /\ claimed' = [claimed EXCEPT ![c] = hooks[h].payload]
        /\ UNCHANGED <<pending, delivered, dropped>>
    BY <1>t, <1>6, RewritingStep
  <2>2. /\ hooks[h].payload \subseteq claimed[c]
        /\ claimed[c] \ hooks[h].payload \subseteq Gone
    BY <2>1 DEF HandInv, CopiesInv, HandsComplete, FilesCited
  <2> HIDE DEF c
  <2>3. Available' \subseteq Available /\ Available \ Available' \subseteq Gone
    BY <1>t, <2>1, <2>2 DEF Available
  <2> QED
    BY <1>t, <2>1, <2>3, MappedStep
<1>7. CASE Acknowledge(h)
  <2>1. /\ c \in Batches /\ hooks[h].pc = "acknowledge"
        /\ UNCHANGED <<pending, delivered, dropped>>
        /\ claimed' \in {claimed, Left(claimed, acknowledged, c)}
    BY <1>t, <1>7, EndingStep
  <2>2. claimed[c] \subseteq Gone
    BY <2>1 DEF CopiesInv, HandsComplete, NothingLeft, FilesCited
  <2> HIDE DEF c
  <2>3. /\ claimed'[c] \in {claimed[c], {}}
        /\ \A b \in Batches \ {c} : claimed'[b] = claimed[b]
    BY <1>t, <2>1, MovedFiles
  <2>4. Available' \subseteq Available /\ Available \ Available' \subseteq Gone
    BY <2>1, <2>2, <2>3 DEF Available
  <2> QED
    BY <1>t, <2>1, <2>4, MappedStep
<1>8. CASE RestorePending(h)
  <2>1. /\ c \in Batches /\ hooks[h].pc = "restore" /\ UNCHANGED <<delivered, dropped>>
    BY <1>t, <1>8, EndingStep
  <2>2. claimed[c] # {} /\ c \in Present(claimed)
    BY <2>1 DEF HandInv, HandPcs, Present
  <2>3. pending' = Arrived(claimed, pending, c) /\ claimed' = Left(claimed, pending, c)
    BY <1>t, <1>8, <2>2, EndingStep
  <2> HIDE DEF c
  <2> QED
    BY <1>t, <2>1, <2>2, <2>3, MovedAvailable, MappedStep
<1>9. ~RejectClaim(h)
  BY DEF RejectClaim, HandInv
<1>10. CASE LoadClaim(h)
  BY <1>t, <1>1, <1>10, WorkingStep
<1>11. CASE \/ \E a \in Agents : StartHook(h, a)
            \/ EnterClaim(h) \/ FindExpired(h) \/ PassClaim(h) \/ ListPending(h)
            \/ PassPending(h) \/ ClaimNothing(h)
  BY <1>t, <1>1, <1>11, ListingStep
<1> QED
  BY <1>2, <1>3, <1>4, <1>5, <1>6, <1>7, <1>8, <1>9, <1>10, <1>11 DEF HookStep

\* A step of the spool is one of the specification of delivery, or none.
LEMMA StepDelivers ==
  ASSUME CopiesInv, TypeOK', FilesCited, HandInv, [Next]_vars
  PROVE  [Delivery!Next]_(Delivery!vars)
<1>t. TypeOK /\ pending \in [Batches -> SUBSET Findings]
  BY DEF CopiesInv, TypeOK
<1>1. CASE UNCHANGED <<pending, claimed, delivered, dropped>>
  BY <1>t, <1>1, MappedStep DEF Available
<1>2. CASE LinkBatch
  <2>1. /\ \A b \in Batches : pending[b] \subseteq pending'[b]
        /\ UNCHANGED <<claimed, delivered, dropped>>
    BY <1>t, <1>2 DEF LinkBatch, Present
  <2>2. Available \subseteq Available'
    BY <2>1 DEF Available
  <2> QED
    BY <1>t, <2>1, <2>2, MappedStep
<1>3. ASSUME NEW h \in Hooks, (\E a \in Agents : StartHook(h, a)) \/ HookStep(h)
      PROVE  [Delivery!Next]_(Delivery!vars)
  BY <1>3, HookDelivers
<1> QED
  BY <1>1, <1>2, <1>3
  DEF Next, vars, Publication, StartPublish, CheckPending, CheckClaimed,
      CheckAcknowledged, RecordBatch, Environment, EditCitedFile, ReleaseSession,
      Expire, KillHook, KillPublisher

\* With one hook at a time the spool keeps what FeedbackDelivery promises, whatever is
\* killed, recovered or published again: a finding stays available until it has been
\* delivered, or dropped because its file changed.
THEOREM DeliveryCorrect ==
  ASSUME OneAtATime
  PROVE  Spec => DeliverySpec
<1> DEFINE DeliveryInv == CopiesInv /\ FilesCited /\ HandInv
<1>1. Init => Delivery!Init
  BY DEF Init, Delivery!Init, Available
<1>2. Init => DeliveryInv
  BY InitCopies, InitHand
<1>3. DeliveryInv /\ [Next]_vars => DeliveryInv'
  BY NextCopies, NextHand, NextFiles DEF CopiesInv
<1>4. DeliveryInv /\ DeliveryInv' /\ [Next]_vars => [Delivery!Next]_(Delivery!vars)
  BY StepDelivers DEF CopiesInv
<1> HIDE DEF DeliveryInv
<1> QED
  BY <1>1, <1>2, <1>3, <1>4, PTL DEF Spec, DeliverySpec, Delivery!Spec

(***************************************************************************)
(* Single deliveries, for one hook at a time and batches that have no      *)
(* finding in common and are published once.  What a file offers has not   *)
(* been printed, unless a hook was killed after it; a batch that is being  *)
(* published is nowhere in the spool, and nothing of it was ever printed.  *)
(***************************************************************************)
NothingShared == \A b, c \in Batches : b # c => Cites[b] \intersect Cites[c] = {}

PrintedPcs == {"acknowledge", "requeue"}

Once(b) ==
    /\ pending[b] # {} => claimed[b] = {} /\ acknowledged[b] = {}
    /\ claimed[b] # {} => acknowledged[b] = {}
    /\ pending[b] \intersect delivered \subseteq interrupted
    /\ \/ claimed[b] \intersect delivered \subseteq interrupted
       \/ \E h \in Hooks : hooks[h].batch = b /\ hooks[h].pc \in PrintedPcs
    /\ \A h \in Hooks :
        hooks[h].batch = b /\ hooks[h].pc \in {"fresh", "print", "requeue"} =>
            hooks[h].payload \intersect delivered \subseteq interrupted
    /\ Cites[b] \intersect delivered # {} => ~NowhereInSpool(b)
    /\ publisher.pc # "idle" /\ publisher.batch = b => NowhereInSpool(b)

OnceInv == \A b \in Batches : Once(b)

\* Nothing is printed, and no batch is in the spool, at the start.
LEMMA InitOnce == Init => OnceInv
  BY DEF Init, OnceInv, Once, IdleHook, IdlePublisher

\* A step that has no part in the batch.
LEMMA OnceOthers ==
  ASSUME OneAtATime, TypeOK, NEW b \in Batches, Once(b), FilesCited, NEW h \in Hooks,
         hooks[h].batch # b \/ hooks[h].pc \notin {"fresh", "print"} \union PrintedPcs,
         hooks'[h].batch # b \/ hooks'[h].pc \notin {"fresh", "print"} \union PrintedPcs,
         pending'[b] = pending[b], claimed'[b] = claimed[b],
         acknowledged'[b] = acknowledged[b], rejected'[b] = rejected[b],
         publisher' = publisher, interrupted \subseteq interrupted',
         Cites[b] \intersect delivered' = Cites[b] \intersect delivered
  PROVE  Once(b)'
<1>o. \A i \in Hooks : i = h
  BY DEF OneAtATime
<1>1. /\ pending'[b] \intersect delivered' = pending[b] \intersect delivered
      /\ claimed'[b] \intersect delivered' = claimed[b] \intersect delivered
  BY DEF FilesCited
<1>2. claimed[b] \intersect delivered \subseteq interrupted
  BY <1>o DEF Once, PrintedPcs
<1>3. NowhereInSpool(b)' <=> NowhereInSpool(b)
  BY DEF NowhereInSpool
<1>4. \A i \in Hooks :
        hooks'[i].batch = b => hooks'[i].pc \notin {"fresh", "print", "requeue"}
  BY <1>o DEF PrintedPcs
<1> QED
  BY <1>1, <1>2, <1>3, <1>4 DEF Once

\* A file that is moved within the spool, or rewritten with findings not printed, by
\* a hook that has nothing printed in hand then.
LEMMA OnceMoved ==
  ASSUME OneAtATime, TypeOK, NEW b \in Batches, Once(b), NEW h \in Hooks,
         hooks'[h].batch # b
           \/ hooks'[h].pc \notin {"fresh", "print"} \union PrintedPcs,
         ~NowhereInSpool(b), ~NowhereInSpool(b)', publisher' = publisher,
         UNCHANGED <<delivered, interrupted>>,
         pending'[b] # {} => claimed'[b] = {} /\ acknowledged'[b] = {},
         claimed'[b] # {} => acknowledged'[b] = {},
         pending'[b] \intersect delivered \subseteq interrupted,
         claimed'[b] \intersect delivered \subseteq interrupted
  PROVE  Once(b)'
<1>1. \A i \in Hooks :
        hooks'[i].batch = b => hooks'[i].pc \notin {"fresh", "print", "requeue"}
  BY DEF OneAtATime, PrintedPcs
<1> QED
  BY <1>1 DEF Once

\* A hook's step keeps what is offered unprinted.
LEMMA HookOnce ==
  ASSUME OneAtATime, NothingShared, TypeOK, HandInv, FilesCited, NothingLeft,
         NEW b \in Batches, Once(b), NEW h \in Hooks,
         (\E a \in Agents : StartHook(h, a)) \/ HookStep(h)
  PROVE  Once(b)'
<1> DEFINE c == hooks[h].batch
<1>t. /\ pending \in [Batches -> SUBSET Findings] /\ claimed \in [Batches -> SUBSET Findings]
      /\ acknowledged \in [Batches -> SUBSET Findings]
      /\ rejected \in [Batches -> SUBSET Findings]
  BY DEF TypeOK
<1>o. \A i \in Hooks : i = h
  BY DEF OneAtATime
<1>u. hooks[h].batch # b \/ hooks[h].pc \notin PrintedPcs =>
        claimed[b] \intersect delivered \subseteq interrupted
  BY <1>o DEF Once
<1>1. CASE \/ \E a \in Agents : StartHook(h, a)
           \/ EnterClaim(h) \/ FindExpired(h) \/ PassClaim(h) \/ ListPending(h)
           \/ PassPending(h) \/ ClaimNothing(h)
  <2>1. /\ hooks[h].pc \in ListingPcs /\ hooks'[h].pc \in ListingPcs \union {"replace"}
        /\ UNCHANGED <<pending, claimed, acknowledged, rejected, publisher, delivered,
                       interrupted>>
    BY <1>1, ListingStep
  <2> QED
    BY <2>1, OnceOthers DEF ListingPcs, PrintedPcs
<1>2. CASE RecoverClaim(h)
  <2>1. /\ hooks[h].pc = "replace" /\ c \in Batches /\ hooks'[h].pc = "recover"
        /\ \/ UNCHANGED <<pending, claimed>>
           \/ /\ claimed[c] # {}
              /\ pending' = Arrived(claimed, pending, c)
              /\ claimed' = Left(claimed, pending, c)
        /\ UNCHANGED <<acknowledged, rejected, publisher, delivered, interrupted>>
    BY <1>2, RecoveringStep DEF Present
  <2>2. CASE c # b \/ UNCHANGED <<pending, claimed>>
    <3>1. pending'[b] = pending[b] /\ claimed'[b] = claimed[b]
      <4> HIDE DEF c
      <4> QED
        BY <1>t, <2>1, <2>2, FilesOfOthers
    <3> QED
      BY <2>1, <3>1, OnceOthers DEF PrintedPcs
  <2>3. CASE c = b /\ ~UNCHANGED <<pending, claimed>>
    <3>1. claimed[b] # {} /\ pending[b] = {} /\ acknowledged[b] = {}
      BY <2>1, <2>3 DEF Once
    <3>2. pending'[b] = claimed[b] /\ claimed'[b] = {}
      BY <1>t, <2>1, <2>3, <3>1, FilesOfMoved
    <3> QED
      BY <1>u, <2>1, <3>1, <3>2, OnceMoved DEF PrintedPcs, NowhereInSpool
  <2> QED
    BY <2>2, <2>3
<1>3. CASE Claim(h)
  <2>1. PICK d \in Batches :
          /\ hooks[h].pc = "claim"
          /\ hooks'[h].pc = "load" /\ hooks'[h].batch = d
          /\ pending[d] # {}
          /\ claimed' = Arrived(pending, claimed, d)
          /\ pending' = Left(pending, claimed, d)
          /\ UNCHANGED <<acknowledged, rejected, publisher, delivered, interrupted>>
    BY <1>3, ClaimingStep DEF Present
  <2>2. CASE d # b
    <3>1. pending'[b] = pending[b] /\ claimed'[b] = claimed[b]
      BY <1>t, <2>1, <2>2, FilesOfOthers
    <3> QED
      BY <2>1, <3>1, OnceOthers DEF PrintedPcs
  <2>3. CASE d = b
    <3>1. pending[b] # {} /\ claimed[b] = {} /\ acknowledged[b] = {}
      BY <2>1, <2>3 DEF Once
    <3>2. claimed'[b] = pending[b] /\ pending'[b] = {}
      BY <1>t, <2>1, <2>3, <3>1, FilesOfMoved
    <3>3. pending[b] \intersect delivered \subseteq interrupted
      BY DEF Once
    <3> QED
      BY <2>1, <3>1, <3>2, <3>3, OnceMoved DEF PrintedPcs, NowhereInSpool
  <2> QED
    BY <2>2, <2>3
<1>4. CASE LoadClaim(h) \/ DropStale(h) \/ PrintChunk(h)
  <2>1. /\ c \in Batches /\ hooks'[h].batch = c
        /\ UNCHANGED <<pending, claimed, acknowledged, rejected, publisher, interrupted>>
    BY <1>4, WorkingStep
  <2>2. claimed[c] # {} /\ ~NowhereInSpool(c)
    BY <1>4, <2>1 DEF LoadClaim, DropStale, PrintChunk, HandInv, HandPcs, NowhereInSpool
  <2>3. \E S \in SUBSET claimed[c] :
          /\ delivered' = delivered \union S
          /\ ~PrintChunk(h) => S = {}
          /\ PrintChunk(h) =>
               hooks'[h].payload \intersect S = {} /\ S \subseteq hooks[h].payload
    <3>1. CASE LoadClaim(h) \/ DropStale(h)
      <4>1. delivered' = delivered /\ hooks[h].pc \in {"load", "fresh"}
        BY <3>1, WorkingStep
      <4>2. ~PrintChunk(h)
        BY <4>1 DEF PrintChunk
      <4>3. {} \in SUBSET claimed[c] /\ delivered' = delivered \union {}
        BY <4>1
      <4> QED
        BY <4>2, <4>3
    <3>2. CASE PrintChunk(h)
      <4>1. PICK S \in ChunksOf(hooks[h].payload) :
              /\ delivered' = delivered \union S
              /\ hooks'[h].payload = hooks[h].payload \ S
        BY <3>2, WorkingStep
      <4>2. hooks[h].payload \subseteq claimed[c] /\ S \subseteq hooks[h].payload
        BY <3>2, <4>1 DEF PrintChunk, HandInv, ChunksOf
      <4> QED
        BY <3>2, <4>1, <4>2
    <3> QED
      BY <1>4, <3>1, <3>2
  <2>4. PICK S \in SUBSET claimed[c] :
          /\ delivered' = delivered \union S
          /\ ~PrintChunk(h) => S = {}
          /\ PrintChunk(h) =>
               hooks'[h].payload \intersect S = {} /\ S \subseteq hooks[h].payload
    BY <2>3
  <2>5. CASE c # b
    <3>1. Cites[b] \intersect delivered' = Cites[b] \intersect delivered
      BY <2>1, <2>4, <2>5 DEF NothingShared, FilesCited
    <3> QED
      BY <2>1, <2>5, <3>1, OnceOthers
  <2>6. CASE c = b
    <3>1. /\ pending[b] = {} /\ acknowledged[b] = {} /\ ~NowhereInSpool(b)
          /\ ~NowhereInSpool(b)'
      BY <2>1, <2>2, <2>6 DEF Once, NowhereInSpool
    <3>2. \/ claimed'[b] \intersect delivered' \subseteq interrupted
          \/ hooks'[h].pc \in PrintedPcs
      <4>1. CASE LoadClaim(h) \/ DropStale(h)
        <5>1. hooks[h].pc \notin PrintedPcs /\ ~PrintChunk(h)
          BY <4>1 DEF LoadClaim, DropStale, PrintChunk, PrintedPcs
        <5> QED
          BY <1>u, <2>1, <2>4, <5>1
      <4>2. CASE PrintChunk(h)
        BY <4>2, WorkingStep DEF PrintedPcs
      <4> QED
        BY <1>4, <4>1, <4>2
    <3>3. hooks'[h].pc \in {"fresh", "print", "requeue"} =>
            hooks'[h].payload \intersect delivered' \subseteq interrupted
      <4>1. CASE LoadClaim(h)
        BY <1>u, <2>4, <2>6, <4>1, WorkingStep DEF PrintChunk, PrintedPcs
      <4>2. CASE DropStale(h)
        BY <2>4, <2>6, <4>2, WorkingStep DEF PrintChunk, Once
      <4>3. CASE PrintChunk(h)
        <5>1. hooks[h].payload \intersect delivered \subseteq interrupted
          BY <2>6, <4>3, WorkingStep DEF Once
        <5>2. hooks'[h].payload \subseteq hooks[h].payload
          BY <4>3, WorkingStep
        <5> QED
          BY <2>4, <4>3, <5>1, <5>2
      <4> QED
        BY <1>4, <4>1, <4>2, <4>3
    <3> QED
      BY <1>o, <2>1, <2>6, <3>1, <3>2, <3>3 DEF Once
  <2> QED
    BY <2>5, <2>6
<1>5. CASE RewriteClaim(h)
  <2>1. /\ hooks[h].pc = "requeue" /\ c \in Batches
        /\ hooks'[h].pc = "restore" /\ hooks'[h].batch = c
        /\ claimed' = [claimed EXCEPT ![c] = hooks[h].payload]
        /\ UNCHANGED <<pending, acknowledged, rejected, publisher, delivered, interrupted>>
    BY <1>5, RewritingStep
  <2>2. CASE c # b
    <3>1. claimed'[b] = claimed[b]
      BY <1>t, <2>1, <2>2
    <3> QED
      BY <2>1, <2>2, <3>1, OnceOthers DEF PrintedPcs
  <2>3. CASE c = b
    <3>1. claimed'[b] = hooks[h].payload
      BY <1>t, <2>1, <2>3
    <3>2. /\ claimed[b] # {} /\ hooks[h].payload # {}
          /\ hooks[h].payload \intersect delivered \subseteq interrupted
      BY <2>1, <2>3 DEF HandInv, HandPcs, Once
    <3>3. pending[b] = {} /\ acknowledged[b] = {}
      BY <3>2 DEF Once
    <3> QED
      BY <2>1, <3>1, <3>2, <3>3, OnceMoved DEF PrintedPcs, NowhereInSpool
  <2> QED
    BY <2>2, <2>3
<1>6. CASE Acknowledge(h) \/ RestorePending(h)
  <2>1. /\ c \in Batches /\ hooks'[h] = IdleHook
        /\ UNCHANGED <<publisher, delivered, interrupted>>
    BY <1>6, EndingStep
  <2>i. IdleHook.pc = "idle"
    BY DEF IdleHook
  <2>2. claimed[c] # {} /\ c \in Present(claimed)
    BY <1>6, <2>1 DEF Acknowledge, RestorePending, HandInv, HandPcs, Present
  <2>3. Acknowledge(h) =>
          /\ acknowledged' = Arrived(claimed, acknowledged, c)
          /\ claimed' = Left(claimed, acknowledged, c)
          /\ UNCHANGED <<pending, rejected>>
    BY <2>2, EndingStep
  <2>4. RestorePending(h) =>
          /\ hooks[h].pc = "restore"
          /\ pending' = Arrived(claimed, pending, c)
          /\ claimed' = Left(claimed, pending, c)
          /\ UNCHANGED <<acknowledged, rejected>>
    BY <2>2, EndingStep
  <2>5. CASE c # b
    <3>1. /\ pending'[b] = pending[b] /\ claimed'[b] = claimed[b]
          /\ acknowledged'[b] = acknowledged[b] /\ rejected'[b] = rejected[b]
      <4> HIDE DEF c
      <4> QED
        BY <1>t, <1>6, <2>1, <2>3, <2>4, <2>5, FilesOfOthers
    <3> QED
      BY <2>1, <2>i, <2>5, <3>1, OnceOthers DEF PrintedPcs
  <2>6. CASE c = b
    <3>1. claimed[b] # {} /\ pending[b] = {} /\ acknowledged[b] = {}
      BY <2>2, <2>6 DEF Once
    <3>2. CASE Acknowledge(h)
      <4>1. acknowledged'[b] = claimed[b] /\ claimed'[b] = {} /\ pending'[b] = {}
        BY <1>t, <2>3, <2>6, <3>1, <3>2, FilesOfMoved
      <4> QED
        BY <2>1, <2>i, <3>1, <4>1, OnceMoved DEF PrintedPcs, NowhereInSpool
    <3>3. CASE RestorePending(h)
      <4>1. pending'[b] = claimed[b] /\ claimed'[b] = {} /\ acknowledged'[b] = {}
        BY <1>t, <2>4, <2>6, <3>1, <3>3, FilesOfMoved
      <4>2. claimed[b] \intersect delivered \subseteq interrupted
        BY <1>u, <2>4, <3>3 DEF PrintedPcs
      <4> QED
        BY <2>1, <2>i, <3>1, <4>1, <4>2, OnceMoved DEF PrintedPcs, NowhereInSpool
    <3> QED
      BY <1>6, <3>2, <3>3
  <2> QED
    BY <2>5, <2>6
<1>7. ~RejectClaim(h)
  BY DEF RejectClaim, HandInv
<1> QED
  BY <1>1, <1>2, <1>3, <1>4, <1>5, <1>6, <1>7 DEF HookStep

\* A kill excuses what the hook had printed, and publication offers a batch of which
\* nothing was printed.
LEMMA NextOnce ==
  ASSUME OneAtATime, NothingShared, Republished = {}
  PROVE  /\ TypeOK /\ HandInv /\ FilesCited /\ NothingLeft /\ OnceInv
         /\ [Next]_vars
         => OnceInv'
<1> SUFFICES ASSUME TypeOK, HandInv, FilesCited, NothingLeft, OnceInv, [Next]_vars,
                    NEW b \in Batches
             PROVE  Once(b)'
  BY DEF OnceInv
<1>i. Once(b)
  BY DEF OnceInv
<1>1. CASE UNCHANGED <<pending, claimed, acknowledged, rejected, publisher, hooks,
                       delivered, interrupted>>
  BY <1>1, <1>i DEF Once, NowhereInSpool
<1>2. CASE Publication
  <2> USE DEF PublisherAt, PublisherReturns, Present
  <2>1. UNCHANGED <<claimed, acknowledged, rejected, hooks, delivered, interrupted>>
    BY <1>2 DEF Publication, StartPublish, CheckPending, CheckClaimed,
                CheckAcknowledged, RecordBatch, LinkBatch
  <2>2. ASSUME NEW c \in Batches, StartPublish(c) PROVE Once(b)'
    BY <1>i, <2>1, <2>2 DEF StartPublish, Once, NowhereInSpool
  <2>3. CASE CheckPending \/ CheckClaimed \/ CheckAcknowledged \/ RecordBatch
    <3>1. /\ publisher.pc # "idle" /\ pending' = pending
          /\ publisher'.pc # "idle" => publisher'.batch = publisher.batch
      BY <2>3 DEF CheckPending, CheckClaimed, CheckAcknowledged, RecordBatch, TypeOK,
         Publishers, IdlePublisher
    <3> QED
      BY <1>i, <2>1, <3>1 DEF Once, NowhereInSpool
  <2>4. CASE LinkBatch
    <3>1. publisher.pc # "idle" /\ publisher'.pc = "idle"
      BY <2>4 DEF LinkBatch, IdlePublisher
    <3>2. CASE publisher.batch # b
      <4>1. pending'[b] = pending[b]
        BY <2>4, <3>2 DEF LinkBatch, TypeOK
      <4> QED
        BY <1>i, <2>1, <3>1, <4>1 DEF Once, NowhereInSpool
    <3>3. CASE publisher.batch = b
      <4>1. /\ pending[b] = {} /\ claimed[b] = {} /\ acknowledged[b] = {}
            /\ Cites[b] \intersect delivered = {}
        BY <1>i, <3>1, <3>3 DEF Once, NowhereInSpool
      <4>2. pending'[b] = Cites[b] /\ Cites[b] # {}
        BY <2>4, <3>3, <4>1, BatchesAssumption DEF LinkBatch, TypeOK
      <4> QED
        BY <1>i, <2>1, <3>1, <4>1, <4>2 DEF Once, NowhereInSpool
    <3> QED
      BY <3>2, <3>3
  <2> QED
    BY <1>2, <2>2, <2>3, <2>4 DEF Publication
<1>3. ASSUME NEW h \in Hooks, (\E a \in Agents : StartHook(h, a)) \/ HookStep(h)
      PROVE  Once(b)'
  BY <1>3, <1>i, HookOnce
<1>4. ASSUME NEW h \in Hooks, KillHook(h) PROVE Once(b)'
  <2>o. \A i \in Hooks : i = h
    BY DEF OneAtATime
  <2>1. /\ hooks'[h] = IdleHook
        /\ interrupted' = IF hooks[h].pc \in {"acknowledge", "requeue", "restore"}
                          THEN interrupted \union (delivered \intersect Cites[hooks[h].batch])
                          ELSE interrupted
        /\ UNCHANGED <<pending, claimed, acknowledged, rejected, publisher, delivered>>
    BY <1>4 DEF KillHook, TypeOK
  <2>2. claimed[b] \intersect delivered \subseteq interrupted'
    <3>1. CASE hooks[h].batch = b /\ hooks[h].pc \in PrintedPcs
      BY <2>1, <3>1 DEF FilesCited, PrintedPcs
    <3>2. CASE ~(hooks[h].batch = b /\ hooks[h].pc \in PrintedPcs)
      BY <1>i, <2>o, <2>1, <3>2 DEF Once
    <3> QED
      BY <3>1, <3>2
  <2>3. interrupted \subseteq interrupted'
    BY <2>1
  <2>4. \A i \in Hooks : hooks'[i].pc = "idle"
    BY <2>o, <2>1 DEF IdleHook
  <2> QED
    BY <1>i, <2>1, <2>2, <2>3, <2>4 DEF Once, NowhereInSpool
<1>5. CASE KillPublisher
  BY <1>5, <1>i DEF KillPublisher, IdlePublisher, Once, NowhereInSpool
<1>6. CASE Environment
  BY <1>1, <1>4, <1>5, <1>6 DEF Environment, EditCitedFile, ReleaseSession, Expire
<1> QED
  BY <1>1, <1>2, <1>3, <1>6 DEF Next, vars

\* With one hook at a time, a finding is printed twice only if the hook that printed it
\* was killed before it could acknowledge the batch or requeue the rest.
THEOREM DeliveredOnceCorrect ==
  ASSUME OneAtATime, NothingShared, Republished = {}
  PROVE  Spec => DeliveredOnce
<1> DEFINE SpoolInv == CopiesInv /\ FilesCited /\ HandInv /\ OnceInv
<1>1. Init => SpoolInv
  BY InitCopies, InitHand, InitOnce
<1>2. SpoolInv /\ [Next]_vars => SpoolInv'
  BY NextCopies, NextHand, NextFiles, NextOnce DEF CopiesInv
<1>3. ASSUME SpoolInv, NEW h \in Hooks, PrintChunk(h)
      PROVE  (hooks[h].payload \ hooks'[h].payload) \intersect delivered \subseteq interrupted
  <2>1. hooks[h].pc = "print" /\ hooks[h].batch \in Batches
    BY <1>3 DEF PrintChunk, CopiesInv, TypeOK
  <2> QED
    BY <1>3, <2>1 DEF OnceInv, Once
<1> HIDE DEF SpoolInv
<1>4. SpoolInv /\ [Next]_vars =>
        [\A h \in Hooks :
           PrintChunk(h) =>
             (hooks[h].payload \ hooks'[h].payload) \intersect delivered
                \subseteq interrupted]_vars
  BY <1>3
<1> QED
  BY <1>1, <1>2, <1>4, PTL DEF Spec, DeliveredOnce

(***************************************************************************)
(* The refinement, for any number of hooks at once, of which none is       *)
(* killed.  A claim has one holder then (ClaimsInv), so what the holder    *)
(* has in hand is what the claim offers, although others list, claim and   *)
(* publish between its steps.                                              *)
(***************************************************************************)
AllMoveForward == \A b \in Batches : MovesForward(b)

InHandOffered ==
    \A h \in Hooks :
        hooks[h].pc \in {"fresh", "print", "requeue"} =>
            hooks[h].payload \subseteq claimed[hooks[h].batch]

\* While nothing is killed, the claims are apart and what is in hand is offered.
UnkilledInv == CopiesInv /\ ClaimsInv /\ InHandOffered

\* What one holder to a claim says of the files and of every hook.
LEMMA UnkilledHand ==
  ASSUME MaxCrashes = 0, AllMoveForward, UnkilledInv
  PROVE  (\A b \in Batches : ForwardInv(b)) /\ FilesCited /\ HandInv
<1>t. TypeOK
  BY DEF UnkilledInv, CopiesInv
<1>1. \A b \in Batches : ForwardInv(b)
  <2>1. crashes = 0
    BY <1>t DEF TypeOK
  <2> QED
    BY <2>1 DEF UnkilledInv, ClaimsInv, AllMoveForward
<1>2. FilesCited
  BY <1>1 DEF FilesCited, ForwardInv, OnePlace
<1>3. ASSUME NEW h \in Hooks
      PROVE  /\ hooks[h].pc # "reject"
             /\ hooks[h].pc \in HandPcs => claimed[hooks[h].batch] # {}
             /\ hooks[h].pc \in {"print", "requeue"} => hooks[h].payload # {}
  <2>1. hooks[h].pc \in HandPcs \union {"reject"} => hooks[h].batch \in Batches
    BY <1>t DEF TypeOK, HandPcs
  <2>2. hooks[h].pc # "reject"
    BY <1>1, <2>1 DEF ForwardInv, HolderWorks
  <2>3. hooks[h].pc \in HandPcs => claimed[hooks[h].batch] # {}
    BY <1>1, <2>1 DEF ForwardInv, OnePlace, Holds, HandPcs
  <2>4. hooks[h].pc \in {"print", "requeue"} => hooks[h].payload # {}
    BY <1>1, <2>1 DEF ForwardInv, HolderWorks, HandPcs
  <2> QED
    BY <2>2, <2>3, <2>4
<1>4. HandInv
  BY <1>3 DEF HandInv, UnkilledInv, InHandOffered
<1> QED
  BY <1>1, <1>2, <1>4

\* The claim of a hook stays under the steps of the others.
LEMMA OthersOffered ==
  ASSUME TypeOK, InHandOffered, NEW h \in Hooks, Others(h),
         \A i \in Hooks \ {h} :
            hooks[i].pc \in {"fresh", "print", "requeue"} =>
                claimed'[hooks[i].batch] = claimed[hooks[i].batch],
         hooks'[h].pc \in {"fresh", "print", "requeue"} =>
            hooks'[h].payload \subseteq claimed'[hooks'[h].batch]
  PROVE  InHandOffered'
  BY DEF InHandOffered, Others

\* A hook that works on a batch holds its claim; another hook that does not hold that
\* claim leaves it.
LEMMA OtherBatch ==
  ASSUME TypeOK, \A b \in Batches : ForwardInv(b), NEW h \in Hooks, NEW c \in Batches,
         Holds(h, c) \/ claimed[c] = {}, NEW i \in Hooks \ {h},
         hooks[i].pc \in {"fresh", "print", "requeue"}
  PROVE  hooks[i].batch \in Batches \ {c}
<1>1. hooks[i].batch \in Batches /\ Holds(i, hooks[i].batch)
  BY DEF TypeOK, Holds
<1>2. hooks[i].batch # c
  BY <1>1 DEF ForwardInv, OneHolder, OnePlace
<1> QED
  BY <1>1, <1>2

\* A hook's step keeps what every hook has in hand in its claim.
LEMMA HookOffered ==
  ASSUME TypeOK, InHandOffered, HandInv, \A b \in Batches : ForwardInv(b),
         NEW h \in Hooks, (\E a \in Agents : StartHook(h, a)) \/ HookStep(h)
  PROVE  InHandOffered'
<1> DEFINE c == hooks[h].batch
<1>t. /\ pending \in [Batches -> SUBSET Findings] /\ claimed \in [Batches -> SUBSET Findings]
      /\ acknowledged \in [Batches -> SUBSET Findings]
  BY DEF TypeOK
<1>1. CASE \/ \E a \in Agents : StartHook(h, a)
           \/ EnterClaim(h) \/ FindExpired(h) \/ PassClaim(h) \/ ListPending(h)
           \/ PassPending(h) \/ ClaimNothing(h)
  <2>1. Others(h) /\ hooks'[h].pc \in ListingPcs \union {"replace"} /\ claimed' = claimed
    BY <1>1, ListingStep
  <2> QED
    BY <2>1, OthersOffered DEF ListingPcs
<1>2. ~RecoverClaim(h)
  BY RecoveringStep DEF ForwardInv, HolderWorks
<1>3. CASE Claim(h)
  <2>1. PICK d \in Batches : /\ Others(h) /\ hooks'[h].pc = "load"
                             /\ d \in Present(pending)
                             /\ claimed' = Arrived(pending, claimed, d)
    BY <1>3, ClaimingStep
  <2>2. claimed[d] = {}
    BY <2>1 DEF ForwardInv, OnePlace, Present
  <2>3. \A b \in Batches \ {d} : claimed'[b] = claimed[b]
    BY <1>t, <2>1, MovedFiles
  <2>4. \A i \in Hooks \ {h} :
          hooks[i].pc \in {"fresh", "print", "requeue"} =>
            claimed'[hooks[i].batch] = claimed[hooks[i].batch]
    BY <2>2, <2>3, OtherBatch
  <2> QED
    BY <2>1, <2>4, OthersOffered
<1>4. CASE LoadClaim(h)
  <2>1. /\ Others(h) /\ hooks'[h].batch = c /\ hooks'[h].payload = claimed[c]
        /\ claimed' = claimed
    BY <1>4, WorkingStep
  <2> QED
    BY <2>1, OthersOffered
<1>5. CASE DropStale(h) \/ PrintChunk(h)
  <2>1. /\ Others(h) /\ hooks'[h].batch = c /\ claimed' = claimed
        /\ hooks[h].pc \in {"fresh", "print"} /\ hooks'[h].payload \subseteq hooks[h].payload
    BY <1>5, WorkingStep
  <2> QED
    BY <2>1, OthersOffered DEF InHandOffered
<1>6. CASE RewriteClaim(h)
  <2>1. /\ Others(h) /\ c \in Batches /\ hooks[h].pc = "requeue"
        /\ hooks'[h].pc = "restore"
        /\ claimed' = [claimed EXCEPT ![c] = hooks[h].payload]
    BY <1>6, RewritingStep
  <2>2. Holds(h, c)
    BY <2>1 DEF Holds
  <2> HIDE DEF c
  <2>3. \A i \in Hooks \ {h} :
          hooks[i].pc \in {"fresh", "print", "requeue"} =>
            claimed'[hooks[i].batch] = claimed[hooks[i].batch]
    BY <1>t, <2>1, <2>2, OtherBatch
  <2> QED
    BY <2>1, <2>3, OthersOffered
<1>7. CASE Acknowledge(h) \/ RestorePending(h)
  <2>1. /\ Others(h) /\ c \in Batches /\ hooks'[h] = IdleHook
        /\ hooks[h].pc \in {"acknowledge", "restore"}
    BY <1>7, EndingStep
  <2>2. Holds(h, c) /\ claimed[c] # {}
    BY <2>1 DEF Holds, HandInv, HandPcs
  <2>3. claimed' \in {Left(claimed, acknowledged, c), Left(claimed, pending, c)}
    BY <1>7, <2>1, <2>2, EndingStep DEF Present
  <2> HIDE DEF c
  <2>4. \A b \in Batches \ {c} : claimed'[b] = claimed[b]
    BY <1>t, <2>1, <2>3, MovedFiles
  <2>5. \A i \in Hooks \ {h} :
          hooks[i].pc \in {"fresh", "print", "requeue"} =>
            claimed'[hooks[i].batch] = claimed[hooks[i].batch]
    BY <2>1, <2>2, <2>4, OtherBatch
  <2>6. hooks'[h].pc = "idle"
    BY <2>1 DEF IdleHook
  <2> QED
    BY <2>1, <2>5, <2>6, OthersOffered
<1>8. ~RejectClaim(h)
  BY DEF RejectClaim, HandInv
<1> QED
  BY <1>1, <1>2, <1>3, <1>4, <1>5, <1>6, <1>7, <1>8 DEF HookStep

\* Every step keeps the invariant while nothing is killed.
LEMMA NextUnkilled ==
  ASSUME MaxCrashes = 0, AllMoveForward
  PROVE  UnkilledInv /\ [Next]_vars => UnkilledInv'
<1> SUFFICES ASSUME UnkilledInv, [Next]_vars PROVE UnkilledInv'
  OBVIOUS
<1>i. /\ TypeOK /\ CopiesInv /\ ClaimsInv /\ InHandOffered /\ HandInv
      /\ \A b \in Batches : ForwardInv(b)
  BY UnkilledHand DEF UnkilledInv, CopiesInv
<1>1. CopiesInv' /\ ClaimsInv'
  BY <1>i, NextCopies, NextClaims
<1>2. ASSUME UNCHANGED <<claimed, hooks>> PROVE InHandOffered'
  BY <1>2, <1>i DEF InHandOffered
<1>3. ASSUME NEW h \in Hooks, (\E a \in Agents : StartHook(h, a)) \/ HookStep(h)
      PROVE  InHandOffered'
  BY <1>3, <1>i, HookOffered
<1>4. (\A h \in Hooks : ~KillHook(h)) /\ ~KillPublisher
  BY <1>i DEF KillHook, KillPublisher, TypeOK
<1>5. InHandOffered'
  BY <1>2, <1>3, <1>4
  DEF Next, vars, Publication, StartPublish, CheckPending, CheckClaimed,
      CheckAcknowledged, RecordBatch, LinkBatch, Environment, EditCitedFile,
      ReleaseSession, Expire
<1> QED
  BY <1>1, <1>5 DEF UnkilledInv

\* However many hooks run at once, the spool keeps what FeedbackDelivery promises, as
\* long as no process is killed and no batch of several messages is published again.
THEOREM ConcurrentDeliveryCorrect ==
  ASSUME MaxCrashes = 0, AllMoveForward
  PROVE  Spec => DeliverySpec
<1>1. Init => Delivery!Init
  BY DEF Init, Delivery!Init, Available
<1>2. Init => UnkilledInv
  <2>1. Init => InHandOffered
    BY DEF Init, InHandOffered, IdleHook
  <2> QED
    BY <2>1, InitCopies, InitClaims DEF UnkilledInv
<1>3. UnkilledInv /\ [Next]_vars => UnkilledInv'
  BY NextUnkilled
<1>4. UnkilledInv /\ UnkilledInv' /\ [Next]_vars => [Delivery!Next]_(Delivery!vars)
  <2> SUFFICES ASSUME UnkilledInv, UnkilledInv', [Next]_vars
               PROVE  [Delivery!Next]_(Delivery!vars)
    OBVIOUS
  <2>t. CopiesInv /\ TypeOK' /\ FilesCited /\ HandInv
    BY UnkilledHand DEF UnkilledInv, CopiesInv
  <2> QED
    BY <2>t, StepDelivers
<1> QED
  BY <1>1, <1>2, <1>3, <1>4, PTL DEF Spec, DeliverySpec, Delivery!Spec

(***************************************************************************)
(* Single deliveries, for any number of hooks at once, of which none is    *)
(* killed, and batches that have no finding in common and are published    *)
(* once.  Only the holder of a claim prints from it, so what pending/      *)
(* offers, and what the holder has still to print, was never printed.      *)
(***************************************************************************)
InSpool(b) == pending[b] # {} \/ claimed[b] # {} \/ acknowledged[b] # {}

Unprinted(b) ==
    /\ pending[b] \intersect delivered = {}
    /\ \A h \in Hooks : Holds(h, b) =>
        /\ hooks[h].pc \notin PrintedPcs => claimed[b] \intersect delivered = {}
        /\ hooks[h].pc \in {"fresh", "print", "requeue"} =>
             hooks[h].payload \intersect delivered = {}
    /\ Cites[b] \intersect delivered # {} => InSpool(b)

\* A step of a hook that does not have the batch in hand afterwards.
LEMMA UnprintedElsewhere ==
  ASSUME HandInv, FilesCited, NEW b \in Batches, Unprinted(b), NEW h \in Hooks, Others(h),
         ~Holds(h, b)', pending'[b] = pending[b], claimed'[b] = claimed[b],
         acknowledged'[b] = acknowledged[b],
         Cites[b] \intersect delivered' = Cites[b] \intersect delivered
  PROVE  Unprinted(b)'
<1>1. /\ pending'[b] \intersect delivered' = pending[b] \intersect delivered
      /\ claimed'[b] \intersect delivered' = claimed[b] \intersect delivered
  BY DEF FilesCited
<1>2. ASSUME NEW i \in Hooks, Holds(i, b)'
      PROVE  /\ Holds(i, b) /\ hooks'[i] = hooks[i]
             /\ hooks[i].pc \in {"fresh", "print", "requeue"} =>
                  hooks[i].payload \intersect delivered' =
                    hooks[i].payload \intersect delivered
  <2>1. Holds(i, b) /\ hooks'[i] = hooks[i]
    BY <1>2 DEF Others, Holds
  <2>2. hooks[i].pc \in {"fresh", "print", "requeue"} => hooks[i].payload \subseteq Cites[b]
    BY <2>1 DEF HandInv, FilesCited, Holds
  <2> QED
    BY <2>1, <2>2
<1>3. InSpool(b)' <=> InSpool(b)
  BY DEF InSpool
<1> QED
  BY <1>1, <1>2, <1>3 DEF Unprinted

\* A step of the hook that holds the batch, or takes it: no other one has it in hand.
LEMMA UnprintedHeld ==
  ASSUME NEW b \in Batches, ForwardInv(b), NEW h \in Hooks, Others(h),
         Holds(h, b) \/ claimed[b] = {}, InSpool(b)',
         pending'[b] \intersect delivered' = {},
         Holds(h, b)' =>
            /\ hooks'[h].pc \notin PrintedPcs => claimed'[b] \intersect delivered' = {}
            /\ hooks'[h].pc \in {"fresh", "print", "requeue"} =>
                 hooks'[h].payload \intersect delivered' = {}
  PROVE  Unprinted(b)'
<1>1. \A i \in Hooks \ {h} : ~Holds(i, b)
  BY DEF ForwardInv, OnePlace, OneHolder
<1>2. \A i \in Hooks \ {h} : ~Holds(i, b)'
  BY <1>1 DEF Others, Holds
<1> QED
  BY <1>2 DEF Unprinted

\* A hook's step keeps what is still to be printed unprinted.
LEMMA HookUnprinted ==
  ASSUME NothingShared, TypeOK, HandInv, FilesCited, \A b \in Batches : ForwardInv(b),
         NEW b \in Batches, Unprinted(b), NEW h \in Hooks,
         (\E a \in Agents : StartHook(h, a)) \/ HookStep(h)
  PROVE  Unprinted(b)'
<1> DEFINE c == hooks[h].batch
<1>t. /\ pending \in [Batches -> SUBSET Findings] /\ claimed \in [Batches -> SUBSET Findings]
      /\ acknowledged \in [Batches -> SUBSET Findings]
  BY DEF TypeOK
<1>1. CASE \/ \E a \in Agents : StartHook(h, a)
           \/ EnterClaim(h) \/ FindExpired(h) \/ PassClaim(h) \/ ListPending(h)
           \/ PassPending(h) \/ ClaimNothing(h)
  <2>1. /\ Others(h) /\ hooks'[h].pc \in ListingPcs \union {"replace"}
        /\ UNCHANGED <<pending, claimed, acknowledged, delivered>>
    BY <1>1, ListingStep
  <2>2. ~Holds(h, b)'
    BY <2>1 DEF ListingPcs, Holds
  <2> QED
    BY <2>1, <2>2, UnprintedElsewhere
<1>2. ~RecoverClaim(h)
  BY RecoveringStep DEF ForwardInv, HolderWorks
<1>3. CASE Claim(h)
  <2>1. PICK d \in Batches :
          /\ Others(h) /\ hooks'[h].pc = "load" /\ hooks'[h].batch = d
          /\ pending[d] # {}
          /\ claimed' = Arrived(pending, claimed, d)
          /\ pending' = Left(pending, claimed, d)
          /\ UNCHANGED <<acknowledged, delivered>>
    BY <1>3, ClaimingStep DEF Present
  <2>2. CASE d # b
    <3>1. pending'[b] = pending[b] /\ claimed'[b] = claimed[b] /\ ~Holds(h, b)'
      BY <1>t, <2>1, <2>2, FilesOfOthers DEF Holds
    <3> QED
      BY <2>1, <3>1, UnprintedElsewhere
  <2>3. CASE d = b
    <3>1. claimed[b] = {}
      BY <2>1, <2>3 DEF ForwardInv, OnePlace
    <3>2. claimed'[b] = pending[b] /\ pending'[b] = {}
      BY <1>t, <2>1, <2>3, <3>1, FilesOfMoved
    <3>3. pending[b] \intersect delivered = {}
      BY DEF Unprinted
    <3> QED
      BY <2>1, <2>3, <3>1, <3>2, <3>3, UnprintedHeld DEF InSpool
  <2> QED
    BY <2>2, <2>3
<1>4. CASE LoadClaim(h) \/ DropStale(h) \/ PrintChunk(h)
  <2>1. /\ Others(h) /\ c \in Batches /\ hooks'[h].batch = c
        /\ hooks[h].pc \in {"load", "fresh", "print"}
        /\ UNCHANGED <<pending, claimed, acknowledged>>
    BY <1>4, WorkingStep
  <2>2. Holds(h, c) /\ claimed[c] # {} /\ pending[c] = {}
    BY <2>1 DEF Holds, ForwardInv, OnePlace
  <2>3. CASE c # b
    <3>1. Cites[b] \intersect delivered' = Cites[b] \intersect delivered
      <4>1. CASE LoadClaim(h) \/ DropStale(h)
        BY <4>1, WorkingStep
      <4>2. CASE PrintChunk(h)
        <5>1. PICK S \in ChunksOf(hooks[h].payload) : delivered' = delivered \union S
          BY <4>2, WorkingStep
        <5>2. S \subseteq Cites[c]
          BY <2>1, <4>2, <5>1 DEF PrintChunk, HandInv, FilesCited, ChunksOf
        <5> HIDE DEF c
        <5> QED
          BY <2>1, <2>3, <5>1, <5>2 DEF NothingShared
      <4> QED
        BY <1>4, <4>1, <4>2
    <3>2. ~Holds(h, b)'
      BY <2>1, <2>3 DEF Holds
    <3> QED
      BY <2>1, <3>1, <3>2, UnprintedElsewhere
  <2>4. CASE c = b
    <3>1. /\ hooks[h].pc \notin PrintedPcs => claimed[b] \intersect delivered = {}
          /\ hooks[h].pc \in {"fresh", "print", "requeue"} =>
               hooks[h].payload \intersect delivered = {}
      BY <2>2, <2>4 DEF Unprinted
    <3>2. /\ hooks'[h].pc \notin PrintedPcs => claimed'[b] \intersect delivered' = {}
          /\ hooks'[h].pc \in {"fresh", "print", "requeue"} =>
               hooks'[h].payload \intersect delivered' = {}
      <4>1. CASE LoadClaim(h)
        BY <2>1, <2>4, <3>1, <4>1, WorkingStep DEF PrintedPcs
      <4>2. CASE DropStale(h)
        BY <2>1, <2>4, <3>1, <4>2, WorkingStep DEF PrintedPcs
      <4>3. CASE PrintChunk(h)
        BY <2>1, <2>4, <3>1, <4>3, WorkingStep DEF PrintedPcs
      <4> QED
        BY <1>4, <4>1, <4>2, <4>3
    <3>3. InSpool(b)' /\ pending'[b] \intersect delivered' = {}
      BY <2>1, <2>2, <2>4 DEF InSpool
    <3> QED
      BY <2>1, <2>2, <2>4, <3>2, <3>3, UnprintedHeld
  <2> QED
    BY <2>3, <2>4
<1>5. CASE RewriteClaim(h)
  <2>1. /\ Others(h) /\ hooks[h].pc = "requeue" /\ c \in Batches
        /\ hooks'[h].pc = "restore" /\ hooks'[h].batch = c
        /\ claimed' = [claimed EXCEPT ![c] = hooks[h].payload]
        /\ UNCHANGED <<pending, acknowledged, delivered>>
    BY <1>5, RewritingStep
  <2>2. CASE c # b
    <3>1. claimed'[b] = claimed[b] /\ ~Holds(h, b)'
      BY <1>t, <2>1, <2>2 DEF Holds
    <3> QED
      BY <2>1, <3>1, UnprintedElsewhere
  <2>3. CASE c = b
    <3>1. Holds(h, b) /\ claimed'[b] = hooks[h].payload
      BY <1>t, <2>1, <2>3 DEF Holds
    <3>2. hooks[h].payload # {} /\ hooks[h].payload \intersect delivered = {}
      BY <2>1, <3>1 DEF HandInv, Unprinted
    <3>3. pending[b] \intersect delivered = {}
      BY DEF Unprinted
    <3> QED
      BY <2>1, <3>1, <3>2, <3>3, UnprintedHeld DEF InSpool
  <2> QED
    BY <2>2, <2>3
<1>6. CASE Acknowledge(h) \/ RestorePending(h)
  <2>1. /\ Others(h) /\ c \in Batches /\ hooks'[h] = IdleHook
        /\ hooks[h].pc \in {"acknowledge", "restore"} /\ delivered' = delivered
    BY <1>6, EndingStep
  <2>2. Holds(h, c) /\ claimed[c] # {} /\ ~Holds(h, b)'
    BY <2>1 DEF Holds, HandInv, HandPcs, IdleHook
  <2>3. Acknowledge(h) =>
          /\ acknowledged' = Arrived(claimed, acknowledged, c)
          /\ claimed' = Left(claimed, acknowledged, c)
          /\ pending' = pending
    BY <2>1, <2>2, EndingStep DEF Present
  <2>4. RestorePending(h) =>
          /\ hooks[h].pc = "restore"
          /\ pending' = Arrived(claimed, pending, c)
          /\ claimed' = Left(claimed, pending, c)
          /\ acknowledged' = acknowledged
    BY <2>1, <2>2, EndingStep DEF Present
  <2>5. CASE c # b
    <3>1. /\ pending'[b] = pending[b] /\ claimed'[b] = claimed[b]
          /\ acknowledged'[b] = acknowledged[b]
      <4> HIDE DEF c
      <4> QED
        BY <1>t, <1>6, <2>1, <2>3, <2>4, <2>5, FilesOfOthers
    <3> QED
      BY <2>1, <2>2, <3>1, UnprintedElsewhere
  <2>6. CASE c = b
    <3>1. claimed[b] # {} /\ pending[b] = {} /\ acknowledged[b] = {}
      BY <2>2, <2>6 DEF ForwardInv, OnePlace
    <3>2. CASE Acknowledge(h)
      <4>1. acknowledged'[b] = claimed[b] /\ pending'[b] = {}
        BY <1>t, <2>3, <2>6, <3>1, <3>2, FilesOfMoved
      <4> QED
        BY <2>1, <2>2, <2>6, <3>1, <4>1, UnprintedHeld DEF InSpool
    <3>3. CASE RestorePending(h)
      <4>1. pending'[b] = claimed[b]
        BY <1>t, <2>4, <2>6, <3>1, <3>3, FilesOfMoved
      <4>2. claimed[b] \intersect delivered = {}
        BY <2>2, <2>4, <2>6, <3>3 DEF Unprinted, PrintedPcs
      <4> QED
        BY <2>1, <2>2, <2>6, <3>1, <4>1, <4>2, UnprintedHeld DEF InSpool
    <3> QED
      BY <1>6, <3>2, <3>3
  <2> QED
    BY <2>5, <2>6
<1>7. ~RejectClaim(h)
  BY DEF RejectClaim, HandInv
<1> QED
  BY <1>1, <1>2, <1>3, <1>4, <1>5, <1>6, <1>7 DEF HookStep

\* Every step does: what is published was not in the spool, so it was never printed.
LEMMA NextUnprinted ==
  ASSUME MaxCrashes = 0, NothingShared, Republished = {}
  PROVE  /\ UnkilledInv /\ (\A b \in Batches : Unprinted(b)) /\ [Next]_vars
         => \A b \in Batches : Unprinted(b)'
<1> SUFFICES ASSUME UnkilledInv, \A b \in Batches : Unprinted(b), [Next]_vars,
                    NEW b \in Batches
             PROVE  Unprinted(b)'
  OBVIOUS
<1>i. /\ TypeOK /\ HandInv /\ FilesCited /\ \A d \in Batches : ForwardInv(d)
      /\ Unprinted(b)
  BY UnkilledHand DEF UnkilledInv, CopiesInv, AllMoveForward, MovesForward
<1>1. CASE UNCHANGED <<pending, claimed, acknowledged, hooks, delivered>>
  BY <1>1, <1>i DEF Unprinted, InSpool, Holds
<1>2. CASE LinkBatch
  <2>1. /\ publisher.pc # "idle" /\ publisher.batch \in Batches
        /\ UNCHANGED <<claimed, acknowledged, hooks, delivered>>
    BY <1>2, <1>i DEF LinkBatch, PublisherReturns, TypeOK
  <2>2. CASE publisher.batch # b
    <3>1. pending'[b] = pending[b]
      BY <1>2, <1>i, <2>2 DEF LinkBatch, TypeOK
    <3> QED
      BY <1>i, <2>1, <3>1 DEF Unprinted, InSpool, Holds
  <2>3. CASE publisher.batch = b
    <3>1. ~InSpool(b)
      BY <1>i, <2>1, <2>3 DEF ForwardInv, PublisherKnows, InSpool
    <3>2. pending'[b] = Cites[b] /\ Cites[b] \intersect delivered = {} /\ Cites[b] # {}
      BY <1>2, <1>i, <2>3, <3>1, BatchesAssumption
      DEF LinkBatch, TypeOK, Present, InSpool, Unprinted
    <3>3. \A i \in Hooks : ~Holds(i, b)'
      BY <1>i, <2>1, <3>1 DEF ForwardInv, OnePlace, InSpool, Holds
    <3> QED
      BY <2>1, <3>2, <3>3 DEF Unprinted, InSpool
  <2> QED
    BY <2>2, <2>3
<1>3. ASSUME NEW h \in Hooks, (\E a \in Agents : StartHook(h, a)) \/ HookStep(h)
      PROVE  Unprinted(b)'
  BY <1>3, <1>i, HookUnprinted
<1>4. (\A h \in Hooks : ~KillHook(h)) /\ ~KillPublisher
  BY <1>i DEF KillHook, KillPublisher, TypeOK
<1> QED
  BY <1>1, <1>2, <1>3, <1>4
  DEF Next, vars, Publication, StartPublish, CheckPending, CheckClaimed,
      CheckAcknowledged, RecordBatch, Environment, EditCitedFile, ReleaseSession, Expire

\* However many hooks run at once, a finding is printed once, as long as no process is
\* killed, a batch is published once and no two batches report the same finding.
THEOREM ConcurrentDeliveredOnceCorrect ==
  ASSUME MaxCrashes = 0, NothingShared, Republished = {}
  PROVE  Spec => DeliveredOnce
<1> DEFINE OnceForAll == \A b \in Batches : Unprinted(b)
<1>m. AllMoveForward
  BY DEF AllMoveForward, MovesForward
<1>1. Init => UnkilledInv /\ OnceForAll
  <2>1. Init => OnceForAll
    BY DEF Init, Unprinted, Holds, IdleHook
  <2>2. Init => InHandOffered
    BY DEF Init, InHandOffered, IdleHook
  <2> QED
    BY <2>1, <2>2, InitCopies, InitClaims DEF UnkilledInv
<1>2. UnkilledInv /\ OnceForAll /\ [Next]_vars => UnkilledInv' /\ OnceForAll'
  BY <1>m, NextUnkilled, NextUnprinted
<1>3. ASSUME UnkilledInv, OnceForAll, NEW h \in Hooks, PrintChunk(h)
      PROVE  (hooks[h].payload \ hooks'[h].payload) \intersect delivered \subseteq interrupted
  <2>1. hooks[h].pc = "print" /\ hooks[h].batch \in Batches
    BY <1>3 DEF PrintChunk, UnkilledInv, CopiesInv, TypeOK
  <2>2. hooks[h].payload \intersect delivered = {}
    BY <1>3, <2>1 DEF Unprinted, Holds
  <2> QED
    BY <2>2
<1> HIDE DEF OnceForAll
<1>4. UnkilledInv /\ OnceForAll /\ [Next]_vars =>
        [\A h \in Hooks :
           PrintChunk(h) =>
             (hooks[h].payload \ hooks'[h].payload) \intersect delivered
                \subseteq interrupted]_vars
  BY <1>3
<1> QED
  BY <1>1, <1>2, <1>4, PTL DEF Spec, DeliveredOnce

================================================================================
