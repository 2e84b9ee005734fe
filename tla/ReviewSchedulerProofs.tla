------------------------- MODULE ReviewSchedulerProofs -------------------------
(***************************************************************************)
(* Theorems about ReviewScheduler for every value of its constants: any    *)
(* number of files, versions, agents, generations and markers, any review  *)
(* limit, and sinks and interrupts that may or may not fail it.            *)
(*                                                                         *)
(*   TypeCorrect       the types of the variables                          *)
(*   FollowUpCorrect   the follow-up complements the active review         *)
(*   GenerationCorrect what is spooled belongs to one session generation   *)
(*   MarkersCorrect    no in-flight marker leaks or is unlinked twice      *)
(*   OwnedCorrect      the owner's Stop hook finds a marker to wait for    *)
(***************************************************************************)
EXTENDS ReviewScheduler, TLAPS

\* Only a provider call in progress has a chunk, of which the worker holds the
\* bytes it read.
SnapshotsRead ==
    /\ \A p \in worker.chunk : worker.read[p] \in Contents
    /\ worker.pc \notin {"record", "start", "provider", "publish"} =>
         worker.chunk = {}

TypeInv == TypeOK /\ SnapshotsRead

\* begin_review yields a fresh marker file or none.
LEMMA BegunMarkerType ==
  ASSUME NEW x, Owns(x) => FreeMarkers # {}
  PROVE  BegunMarker(x) \in MarkerIds
  BY DEF BegunMarker, FreeMarkers, MarkerIds

\* Writing a marker keeps the marker files well typed.
LEMMA WithMarkerType ==
  ASSUME TypeOK, NEW m, NEW x \in AgentIds
  PROVE  WithMarker(m, x) \in [Markers -> AgentIds]
  BY DEF WithMarker, TypeOK

\* Unlinking markers keeps the marker files well typed.
LEMMA WithoutMarkersType ==
  ASSUME TypeOK, NEW M
  PROVE  WithoutMarkers(M) \in [Markers -> AgentIds]
  BY DEF WithoutMarkers, TypeOK, AgentIds

\* The digest of a path is a version or none.
LEMMA DigestType ==
  ASSUME TypeOK, NEW p \in Paths
  PROVE  DigestOf(p) \in Digests
  BY DEF DigestOf, TypeOK, Digests

\* Digests restricted to some paths are still digests.
LEMMA OnPathsType ==
  ASSUME NEW d \in [Paths -> Digests], NEW S
  PROVE  OnPaths(d, S) \in [Paths -> Digests]
  BY DEF OnPaths, Digests

\* A captured generation is one of the route's, or none.
LEMMA CapturedGenerationType ==
  ASSUME TypeOK
  PROVE  CapturedGeneration \in CapturedGenerations
  BY DEF CapturedGeneration, TypeOK, CapturedGenerations, Sessions

\* The null review, the idle watcher and the idle worker are well typed.
LEMMA NullTypes ==
  /\ IdleWatcher \in Watchers
  /\ NoReview \in Reviews
  /\ IdleWorker \in Workers
  BY ConstantsAssumption
  DEF IdleWatcher, NoReview, IdleWorker, Watchers, Reviews, Workers, Digests,
      AgentIds, MarkerIds, Generations, CapturedGenerations, WatcherStates,
      WorkerStates

\* The strengthened type invariant holds at the start.
LEMMA InitTypes == Init => TypeInv
<1> SUFFICES ASSUME Init PROVE TypeInv
  OBVIOUS
<1>1. SnapshotsRead
  BY DEF Init, SnapshotsRead, IdleWorker
<1>2. content \in [Paths -> Contents]
  BY ConstantsAssumption DEF Init
<1>3. session \in Sessions
  BY ConstantsAssumption DEF Init, Sessions, Generations, AgentIds
<1>4. inflight \in [Markers -> AgentIds]
  BY DEF Init, AgentIds
<1> QED
  BY <1>1, <1>2, <1>3, <1>4, NullTypes DEF Init, TypeInv, TypeOK

\* Settling a chunk stores the versions that the worker read.
LEMMA SettledType ==
  ASSUME TypeInv, SettleChunk
  PROVE  settled' \in [Paths -> Contents]
  BY DEF SettleChunk, TypeInv, TypeOK, SnapshotsRead

\* The worker between two chunks is well typed.
LEMMA NextChunkType ==
  ASSUME TypeInv
  PROVE  /\ NextChunk \in Workers
         /\ NextChunk.chunk = {}
         /\ [NextChunk EXCEPT !.todo = {}] \in Workers
         /\ [NextChunk EXCEPT !.todo = {}].chunk = {}
<1>1. [p \in Paths |-> NoDigest] \in [Paths -> Digests]
  BY DEF Digests
<1>2. NoGeneration \in CapturedGenerations /\ 0 \in Generations
  BY ConstantsAssumption DEF CapturedGenerations, Generations
<1>3. worker \in Workers
  BY DEF TypeInv, TypeOK
<1>4. NextChunk \in Workers /\ NextChunk.chunk = {}
  BY <1>1, <1>2, <1>3 DEF NextChunk, Workers, WorkerStates
<1> QED
  BY <1>4 DEF Workers

\* What submit merges into the follow-up.
LEMMA IncomingTypes ==
  ASSUME TypeOK
  PROVE  /\ Incoming \subseteq Paths
         /\ IncomingPriority \subseteq Paths
         /\ IncomingAgent \in AgentIds
         /\ \A p \in Paths : IncomingDigest(p) \in Digests
         /\ FollowUp \in Reviews
         /\ KeptMarker \in MarkerIds
<1>1. Incoming \subseteq Paths /\ IncomingPriority \subseteq Paths
  BY DEF Incoming, IncomingPriority, TypeOK, Watchers, Reviews
<1>2. IncomingAgent \in AgentIds
  BY DEF IncomingAgent, TypeOK, Watchers, Reviews
<1>3. \A p \in Paths : IncomingDigest(p) \in Digests
  BY DEF IncomingDigest, TypeOK, Watchers, Reviews
<1>4. FollowUp \in Reviews
  BY <1>2, NullTypes DEF FollowUp, TypeOK, Watchers, Reviews
<1>5. KeptMarker \in MarkerIds
  BY <1>4 DEF KeptMarker, Reviews, MarkerIds
<1> QED
  BY <1>1, <1>2, <1>3, <1>4, <1>5

\* Recording a submission keeps observed well typed.
LEMMA ObservedType ==
  ASSUME TypeOK, ObserveSubmitted
  PROVE  observed' \in [Paths -> Contents]
  BY DEF ObserveSubmitted, TypeOK, Watchers, Digests

\* Every action keeps the types, and the bytes of a chunk are read before it is
\* handed over.
LEMMA NextTypes == TypeInv /\ [Next]_vars => TypeInv'
<1> SUFFICES ASSUME TypeInv, [Next]_vars PROVE TypeInv'
  OBVIOUS
<1> USE DEF TypeInv
<1>1. ASSUME NEW p \in Paths, Edit(p) PROVE TypeInv'
  BY <1>1 DEF Edit, TypeOK, SnapshotsRead
<1>2. ASSUME NEW x \in Agents, BindSession(x) PROVE TypeInv'
  <2>1. session' \in Sessions
    BY <1>2 DEF BindSession, TypeOK, Sessions, AgentIds
  <2> QED
    BY <1>2, <2>1 DEF BindSession, TypeOK, SnapshotsRead
<1>3. CASE ReleaseSession
  <2>1. session' \in Sessions
    BY <1>3, ConstantsAssumption
    DEF ReleaseSession, TypeOK, Sessions, AgentIds, Generations
  <2> QED
    BY <1>3, <2>1 DEF ReleaseSession, TypeOK, SnapshotsRead
<1>4. CASE TakeEvents
  <2>1. watcher' \in Watchers /\ dirty' \subseteq Paths
    BY <1>4 DEF TakeEvents, TypeOK, Watchers, WatcherStates
  <2> QED
    BY <1>4, <2>1 DEF TakeEvents, TypeOK, SnapshotsRead
<1>5. CASE TakeHint
  <2>1. PICK S \in (SUBSET Paths) \ {{}} :
          /\ watcher' = [watcher EXCEPT !.pc = "read", !.paths = S,
                                        !.agent = session.agent]
          /\ \E D \in SUBSET (dirty \intersect S) : dirty' = dirty \ D
    BY <1>5 DEF TakeHint
  <2>2. session.agent \in AgentIds
    BY DEF TypeOK, Sessions
  <2>3. watcher' \in Watchers
    BY <2>1, <2>2 DEF TypeOK, Watchers, WatcherStates
  <2>4. dirty' \subseteq Paths
    BY <2>1 DEF TypeOK
  <2> QED
    BY <1>5, <2>3, <2>4 DEF TakeHint, TypeOK, SnapshotsRead
<1>6. CASE ReadDigests
  <2>1. [p \in Paths |-> IF p \in watcher.paths THEN DigestOf(p) ELSE NoDigest]
          \in [Paths -> Digests]
    BY DigestType DEF Digests
  <2>2. watcher' \in Watchers
    BY <1>6, <2>1 DEF ReadDigests, TypeOK, Watchers, WatcherStates
  <2> QED
    BY <1>6, <2>2 DEF ReadDigests, TypeOK, SnapshotsRead
<1>7. CASE CaptureGeneration
  <2>1. watcher' \in Watchers
    BY <1>7, CapturedGenerationType
    DEF CaptureGeneration, TypeOK, Watchers, WatcherStates
  <2> QED
    BY <1>7, <2>1 DEF CaptureGeneration, TypeOK, SnapshotsRead
<1>8. CASE SubmitDuplicate
  <2>1. /\ BegunMarker(watcher.agent) \in MarkerIds
        /\ watcher.agent \in AgentIds
    BY <1>8, BegunMarkerType DEF SubmitDuplicate, TypeOK, Watchers
  <2>a. watcher.generation \in CapturedGenerations /\ active \in Reviews
    BY DEF TypeOK, Watchers
  <2>2. active' \in Reviews
    <3>1. CASE watcher.agent # NoAgent /\ active.marker = NoMarker
      <4> DEFINE generation == IF active.generation = NoGeneration
                               THEN watcher.generation ELSE active.generation
      <4>1. active' = [active EXCEPT !.marker = BegunMarker(watcher.agent),
                                     !.agent = watcher.agent,
                                     !.generation = generation]
        BY <1>8, <3>1 DEF SubmitDuplicate
      <4>2. generation \in CapturedGenerations
        BY <2>a DEF Reviews
      <4> HIDE DEF generation
      <4> QED
        BY <2>1, <2>a, <4>1, <4>2 DEF Reviews
    <3>2. CASE ~(watcher.agent # NoAgent /\ active.marker = NoMarker)
      BY <1>8, <2>a, <3>2 DEF SubmitDuplicate
    <3> QED
      BY <3>1, <3>2
  <2>3. inflight' \in [Markers -> AgentIds]
    BY <1>8, <2>1, WithMarkerType DEF SubmitDuplicate, TypeOK
  <2> QED
    BY <1>8, <2>2, <2>3, NullTypes, ObservedType
    DEF SubmitDuplicate, TypeOK, SnapshotsRead
<1>9. CASE SubmitFollowUp
  <2> DEFINE begun == BegunMarker(IncomingAgent)
             dropped == {IF PendingRouteChanged THEN FollowUp.marker ELSE NoMarker,
                         IF KeptMarker # NoMarker THEN begun ELSE NoMarker}
                          \ {NoMarker}
  <2>1. begun \in MarkerIds
    BY <1>9, BegunMarkerType DEF SubmitFollowUp
  <2>2. inflight' \in [Markers -> AgentIds]
    BY <1>9, WithMarkerType, IncomingTypes DEF SubmitFollowUp
  <2>3. pending' \in Reviews
    BY <1>9, <2>1, IncomingTypes DEF SubmitFollowUp, TypeOK, Reviews, Watchers
  <2>4. watcher' \in Watchers
    <3>1. dropped \subseteq Markers
      BY <2>1, IncomingTypes DEF MarkerIds, Reviews
    <3>2. [IdleWatcher EXCEPT !.pc = "retire", !.retiring = dropped] \in Watchers
      BY <3>1, NullTypes DEF Watchers, WatcherStates
    <3> QED
      BY <1>9, <3>2, NullTypes DEF SubmitFollowUp
  <2>5. active' \in Reviews
    BY <1>9 DEF SubmitFollowUp, TypeOK, Reviews
  <2> QED
    BY <1>9, <2>2, <2>3, <2>4, <2>5, ObservedType
    DEF SubmitFollowUp, TypeOK, SnapshotsRead
<1>10. CASE RetireMarkers
  BY <1>10, WithoutMarkersType, NullTypes DEF RetireMarkers, TypeOK, SnapshotsRead
<1>11. CASE Close
  <2>1. active' \in Reviews
    BY <1>11 DEF Close, TypeOK, Reviews, MarkerIds, IsReview
  <2>2. {active.marker, pending.marker} \ {NoMarker} \subseteq Markers
    BY DEF TypeOK, Reviews, MarkerIds
  <2>3. watcher' \in Watchers
    BY <1>11, <2>2, NullTypes DEF Close, Watchers, WatcherStates
  <2> QED
    BY <1>11, <2>1, <2>3, NullTypes DEF Close, TypeOK, SnapshotsRead
<1>12. CASE CloseMarkers
  <2>1. watcher' \in Watchers
    BY <1>12, NullTypes DEF CloseMarkers, Watchers, WatcherStates
  <2> QED
    BY <1>12, <2>1, WithoutMarkersType DEF CloseMarkers, TypeOK, SnapshotsRead
<1>13. CASE TakePending
  <2>1. Slice \subseteq Paths
    BY DEF Slice, TypeOK, Reviews
  <2>2. /\ OnPaths(pending.digest, Slice) \in [Paths -> Digests]
        /\ OnPaths(pending.digest, pending.paths \ Slice) \in [Paths -> Digests]
    BY OnPathsType DEF TypeOK, Reviews
  <2>3. worker' \in Workers /\ worker'.chunk = worker.chunk
                            /\ worker'.read = worker.read
    BY <1>13 DEF TakePending, TypeOK, Workers, WorkerStates
  <2>4. PICK renewed \in BOOLEAN :
          /\ renewed => Owns(pending.agent) /\ FreeMarkers # {}
          /\ active' =
               [pending EXCEPT
                  !.paths = Slice,
                  !.digest = OnPaths(pending.digest, Slice),
                  !.marker = IF Slice = pending.paths \/ renewed
                             THEN pending.marker ELSE NoMarker,
                  !.priority = {}]
          /\ pending' =
               IF Slice = pending.paths THEN NoReview
               ELSE [pending EXCEPT
                       !.paths = pending.paths \ Slice,
                       !.digest = OnPaths(pending.digest, pending.paths \ Slice),
                       !.marker = IF renewed THEN BegunMarker(pending.agent) ELSE @,
                       !.priority = @ \ Slice]
          /\ inflight' = IF renewed
                         THEN WithMarker(BegunMarker(pending.agent), pending.agent)
                         ELSE inflight
    BY <1>13, Zenon DEF TakePending
  <2>5. renewed => BegunMarker(pending.agent) \in MarkerIds
    BY <2>4, BegunMarkerType
  <2>6. active' \in Reviews
    BY <2>1, <2>2, <2>4 DEF TypeOK, Reviews, MarkerIds
  <2>7. pending' \in Reviews
    BY <2>1, <2>2, <2>4, <2>5, NullTypes DEF TypeOK, Reviews
  <2>8. inflight' \in [Markers -> AgentIds]
    BY <2>4, WithMarkerType DEF TypeOK, Reviews
  <2> QED
    BY <1>13, <2>3, <2>6, <2>7, <2>8 DEF TakePending, TypeOK, SnapshotsRead, Workers
<1>14. CASE RefreshDigests
  <2>1. [p \in Paths |-> IF p \in active.paths THEN DigestOf(p) ELSE NoDigest]
          \in [Paths -> Digests]
    BY DigestType DEF Digests
  <2>2. worker' \in Workers
    BY <1>14, <2>1 DEF RefreshDigests, TypeOK, Workers, WorkerStates
  <2> QED
    BY <1>14, <2>2 DEF RefreshDigests, TypeOK, SnapshotsRead, Workers
<1>15. CASE UpdateDigests
  <2>1. worker' \in Workers /\ active' \in Reviews
    BY <1>15 DEF UpdateDigests, TypeOK, Workers, WorkerStates, Reviews
  <2> QED
    BY <1>15, <2>1 DEF UpdateDigests, TypeOK, Workers, SnapshotsRead
<1>16. CASE SkipUnreadable
  <2>1. worker' \in Workers /\ worker'.chunk = worker.chunk
                            /\ worker'.read = worker.read
    BY <1>16 DEF SkipUnreadable, TypeOK, Workers
  <2>2. settled' \in [Paths -> Contents]
    BY <1>16 DEF SkipUnreadable, TypeOK
  <2> QED
    BY <1>16, <2>1, <2>2 DEF SkipUnreadable, TypeOK, SnapshotsRead, Workers
<1>17. CASE TakeSnapshots
  <2>1. PICK S \in Chunks :
          /\ worker' = [worker EXCEPT
                          !.pc = "record",
                          !.todo = @ \ S,
                          !.chunk = Readable(S),
                          !.read = [p \in Paths |-> IF p \in Readable(S)
                                                    THEN content[p] ELSE NoDigest],
                          !.generation = active.generation]
          /\ settled' = [p \in Paths |-> IF p \in S \ Readable(S)
                                         THEN content[p] ELSE settled[p]]
    BY <1>17 DEF TakeSnapshots
  <2>2. Readable(S) \subseteq Paths
    BY DEF Chunks, Readable, TypeOK, Workers
  <2>3. [p \in Paths |-> IF p \in Readable(S) THEN content[p] ELSE NoDigest]
          \in [Paths -> Digests]
    BY DEF TypeOK, Digests
  <2>4. worker' \in Workers
    BY <2>1, <2>2, <2>3 DEF TypeOK, Workers, WorkerStates, Reviews
  <2>5. SnapshotsRead'
    BY <2>1, <2>2 DEF SnapshotsRead, TypeOK, Workers
  <2>6. settled' \in [Paths -> Contents]
    BY <2>1 DEF TypeOK
  <2> QED
    BY <1>17, <2>4, <2>5, <2>6 DEF TakeSnapshots, TypeOK
<1>18. CASE RecordSnapshots
  <2>1. worker' \in Workers /\ worker'.chunk = worker.chunk
                            /\ worker'.read = worker.read
    BY <1>18 DEF RecordSnapshots, TypeOK, Workers, WorkerStates
  <2>2. active' \in Reviews
    BY <1>18 DEF RecordSnapshots, TypeOK, Reviews, Workers
  <2> QED
    BY <1>18, <2>1, <2>2 DEF RecordSnapshots, TypeOK, SnapshotsRead, Workers
<1>19. CASE StartProvider
  <2>1. worker' \in Workers /\ worker'.chunk = worker.chunk
                            /\ worker'.read = worker.read
    BY <1>19, CapturedGenerationType
    DEF StartProvider, TypeOK, Workers, WorkerStates, Sessions
  <2> QED
    BY <1>19, <2>1 DEF StartProvider, TypeOK, SnapshotsRead, Workers
<1>20. CASE ProviderSucceeds
  <2>1. worker' \in Workers /\ worker'.chunk = worker.chunk
                            /\ worker'.read = worker.read
    BY <1>20 DEF ProviderSucceeds, TypeOK, Workers, WorkerStates
  <2> QED
    BY <1>20, <2>1 DEF ProviderSucceeds, TypeOK, SnapshotsRead, Workers
<1>21. CASE ProviderFails
  BY <1>21, NextChunkType, SettledType DEF ProviderFails, TypeOK, SnapshotsRead
<1>22. CASE ProviderSuperseded
  BY <1>22, NextChunkType DEF ProviderSuperseded, TypeOK, SnapshotsRead
<1>23. CASE Publish
  BY <1>23, NextChunkType, SettledType DEF Publish, TypeOK, SnapshotsRead
<1>24. CASE DiscardResult
  BY <1>24, NextChunkType DEF DiscardResult, TypeOK, SnapshotsRead
<1>25. CASE SinkFails
  BY <1>25, NextChunkType, SettledType DEF SinkFails, TypeOK, SnapshotsRead
<1>26. CASE FinishWork
  <2>1. active' \in Reviews
    BY <1>26 DEF FinishWork, TypeOK, Reviews, MarkerIds
  <2>2. worker' \in Workers /\ worker'.chunk = {}
    <3>1. active.marker \in MarkerIds
      BY DEF TypeOK, Reviews
    <3>2. IdleWorker.chunk = {}
      BY DEF IdleWorker
    <3> QED
      BY <1>26, <3>1, <3>2, NullTypes DEF FinishWork, Workers, WorkerStates
  <2> QED
    BY <1>26, <2>1, <2>2 DEF FinishWork, TypeOK, SnapshotsRead
<1>27. CASE UnlinkMarker
  <2>1. worker' \in Workers /\ worker'.chunk = worker.chunk
                            /\ worker'.read = worker.read
    BY <1>27 DEF UnlinkMarker, TypeOK, Workers, WorkerStates, MarkerIds
  <2> QED
    BY <1>27, <2>1, WithoutMarkersType DEF UnlinkMarker, TypeOK, SnapshotsRead, Workers
<1>28. CASE ClearActive
  <2>1. worker' \in Workers /\ worker'.chunk = worker.chunk
                            /\ worker'.read = worker.read
    BY <1>28 DEF ClearActive, TypeOK, Workers, WorkerStates, MarkerIds
  <2> QED
    BY <1>28, <2>1, NullTypes DEF ClearActive, TypeOK, SnapshotsRead, Workers
<1>29. CASE StopWorker
  <2>1. worker' \in Workers /\ worker'.chunk = worker.chunk
                            /\ worker'.read = worker.read
    BY <1>29 DEF StopWorker, TypeOK, Workers, WorkerStates, MarkerIds
  <2> QED
    BY <1>29, <2>1 DEF StopWorker, TypeOK, SnapshotsRead, Workers
<1>30. CASE UNCHANGED vars
  BY <1>30 DEF vars, TypeOK, SnapshotsRead
<1> QED
  BY <1>1, <1>2, <1>3, <1>4, <1>5, <1>6, <1>7, <1>8, <1>9, <1>10, <1>11, <1>12,
     <1>13, <1>14, <1>15, <1>16, <1>17, <1>18, <1>19, <1>20, <1>21, <1>22,
     <1>23, <1>24, <1>25, <1>26, <1>27, <1>28, <1>29, <1>30
  DEF Next, Environment, Submission, Review

\* The types hold in every state of CoalescingReviewScheduler, its threads and
\* its environment.
THEOREM TypeCorrect == Spec => []TypeOK
<1>1. TypeInv => TypeOK
  BY DEF TypeInv
<1> QED
  BY <1>1, InitTypes, NextTypes, PTL DEF Spec

(***************************************************************************)
(* The follow-up.  FollowUpComplementsActive is inductive once it is known *)
(* that the follow-up itself is never cancelled or finishing: submit makes *)
(* it, and the worker activates it, with both flags down.                  *)
(***************************************************************************)
FollowUpInv ==
    /\ ~pending.cancelled
    /\ ~pending.finishing
    /\ FollowUpComplementsActive

\* What submit queues, compared with the active review: everything of it when
\* it is superseded, otherwise only paths that are not in it.
LEMMA IncomingComplementsActive ==
  ASSUME TypeOK, IsActive
  PROVE  /\ Supersedes => active.paths \subseteq Incoming
         /\ ~Supersedes => Incoming \intersect active.paths = {}
<1>1. ASSUME Supersedes PROVE active.paths \subseteq Incoming
  BY <1>1 DEF Incoming
<1>2. ASSUME ~Supersedes PROVE Incoming \intersect active.paths = {}
  <2>1. Overlap \subseteq UnchangedOverlap
    BY <1>2 DEF Supersedes, ChangedOverlap
  <2>2. Overlap = watcher.paths \intersect active.paths
    BY DEF Overlap
  <2> QED
    BY <1>2, <2>1, <2>2 DEF Incoming
<1> QED
  BY <1>1, <1>2

\* The follow-up invariant holds at the start.
LEMMA InitFollowUp == Init => FollowUpInv
  BY DEF Init, FollowUpInv, FollowUpComplementsActive, NoReview, IsActive, IsReview

\* Every step preserves the follow-up invariant.
LEMMA NextFollowUp == TypeInv /\ FollowUpInv /\ [Next]_vars => FollowUpInv'
<1> SUFFICES ASSUME TypeInv, FollowUpInv, [Next]_vars PROVE FollowUpInv'
  OBVIOUS
<1>t. pending \in Reviews /\ active \in Reviews /\ watcher \in Watchers
  BY DEF TypeInv, TypeOK
<1> USE DEF FollowUpInv
<1>1. CASE UNCHANGED <<pending, active, stopping>>
  BY <1>1 DEF FollowUpComplementsActive, IsActive, IsReview
<1>2. CASE SubmitDuplicate
  <2>1. /\ active'.paths = active.paths
        /\ active'.cancelled = active.cancelled
        /\ active'.finishing = active.finishing
    <3>1. CASE watcher.agent # NoAgent /\ active.marker = NoMarker
      <4>1. active' = [active EXCEPT
                        !.marker = BegunMarker(watcher.agent),
                        !.agent = watcher.agent,
                        !.generation = IF active.generation = NoGeneration
                                       THEN watcher.generation
                                       ELSE active.generation]
        BY <1>2, <3>1 DEF SubmitDuplicate
      <4> QED
        BY <1>t, <4>1 DEF Reviews
    <3>2. CASE ~(watcher.agent # NoAgent /\ active.marker = NoMarker)
      BY <1>2, <3>2 DEF SubmitDuplicate
    <3> QED
      BY <3>1, <3>2
  <2> QED
    BY <1>2, <2>1 DEF SubmitDuplicate, FollowUpComplementsActive, IsActive, IsReview
<1>3. CASE SubmitFollowUp
  <2>1. /\ pending'.paths = FollowUp.paths \union Incoming
        /\ ~pending'.cancelled
        /\ ~pending'.finishing
        /\ stopping' = stopping
    BY <1>3 DEF SubmitFollowUp
  <2>2. FollowUp.paths = pending.paths
    BY DEF FollowUp, NoReview, IsReview
  <2>3. /\ active'.paths = active.paths
        /\ active'.finishing = active.finishing
        /\ active'.cancelled = (active.cancelled \/ Supersedes)
    BY <1>3, <1>t DEF SubmitFollowUp, Reviews
  <2>4. ASSUME IsActive', ~stopping
        PROVE  IF active'.cancelled THEN active'.paths \subseteq pending'.paths
               ELSE active'.paths \intersect pending'.paths = {}
    <3>1. IsActive
      BY <2>3, <2>4 DEF IsActive, IsReview
    <3>2. CASE Supersedes
      BY <2>1, <2>3, <3>1, <3>2, IncomingComplementsActive DEF TypeInv
    <3>3. CASE ~Supersedes
      BY <2>1, <2>2, <2>3, <2>4, <3>1, <3>3, IncomingComplementsActive
      DEF TypeInv, FollowUpComplementsActive
    <3> QED
      BY <3>2, <3>3
  <2> QED
    BY <2>1, <2>4 DEF FollowUpComplementsActive
<1>4. CASE Close
  BY <1>4 DEF Close, FollowUpComplementsActive, NoReview
<1>5. CASE TakePending
  <2>1. /\ active'.paths = Slice
        /\ ~active'.cancelled
    BY <1>5, <1>t DEF TakePending, Reviews
  <2>2. /\ pending'.paths = pending.paths \ Slice
        /\ ~pending'.cancelled
        /\ ~pending'.finishing
    BY <1>5, <1>t DEF TakePending, Reviews, NoReview
  <2> QED
    BY <2>1, <2>2 DEF FollowUpComplementsActive
<1>6. CASE UpdateDigests
  <2>1. /\ active'.paths = active.paths
        /\ active'.cancelled = active.cancelled
        /\ active'.finishing = active.finishing
    BY <1>6, <1>t DEF UpdateDigests, Reviews
  <2> QED
    BY <1>6, <2>1 DEF UpdateDigests, FollowUpComplementsActive, IsActive, IsReview
<1>7. CASE RecordSnapshots
  <2>1. /\ active'.paths = active.paths
        /\ active'.cancelled = active.cancelled
        /\ active'.finishing = active.finishing
    BY <1>7, <1>t DEF RecordSnapshots, Reviews
  <2> QED
    BY <1>7, <2>1 DEF RecordSnapshots, FollowUpComplementsActive, IsActive, IsReview
<1>8. CASE FinishWork
  BY <1>8, <1>t DEF FinishWork, FollowUpComplementsActive, IsActive, Reviews
<1>9. CASE ClearActive
  BY <1>9 DEF ClearActive, FollowUpComplementsActive, IsActive, IsReview, NoReview
<1>10. ASSUME ~UNCHANGED <<pending, active, stopping>>
       PROVE  \/ SubmitDuplicate \/ SubmitFollowUp \/ Close \/ TakePending
              \/ UpdateDigests \/ RecordSnapshots \/ FinishWork \/ ClearActive
  BY <1>10 DEF Next, vars, Environment, Edit, BindSession, ReleaseSession, TakeEvents,
     TakeHint, Submission, ReadDigests, CaptureGeneration, RetireMarkers,
     CloseMarkers, Review, RefreshDigests, SkipUnreadable, TakeSnapshots,
     StartProvider, ProviderSucceeds, ProviderFails, ProviderSuperseded,
     Publish, DiscardResult, SinkFails, UnlinkMarker, StopWorker
<1> QED
  BY <1>1, <1>2, <1>3, <1>4, <1>5, <1>6, <1>7, <1>8, <1>9, <1>10

\* Between the active review and the follow-up nothing is lost and nothing is
\* reviewed twice, for any number of files and any timing of submit.
THEOREM FollowUpCorrect == Spec => []FollowUpComplementsActive
<1>1. FollowUpInv => FollowUpComplementsActive
  BY DEF FollowUpInv
<1> QED
  BY <1>1, InitTypes, NextTypes, InitFollowUp, NextFollowUp, PTL DEF Spec

(***************************************************************************)
(* What the program counters of the threads know of the reviews.           *)
(***************************************************************************)
CallPcs == {"record", "start", "provider", "publish"}

WorkPcs == {"refresh", "update", "chunk"} \union CallPcs

WorkerInv ==
    /\ worker.pc \in {"waiting", "stopped"} => ~IsReview(active)
    /\ worker.pc \in WorkPcs => IsActive
    /\ worker.pc \in {"unmark", "clear"} => active.finishing
    /\ worker.pc \notin {"chunk"} \union CallPcs => worker.todo = {}
    /\ worker.todo \subseteq active.paths
    /\ worker.chunk \subseteq active.paths \ worker.todo

ThreadsInv ==
    /\ watcher.pc \notin {"read", "capture", "submit"} => watcher.paths = {}
    /\ WorkerInv
    /\ stopping /\ IsReview(active) => active.cancelled

\* Which steps may change what.
LEMMA Frames ==
  ASSUME [Next]_vars
  PROVE  /\ content' # content => \E p \in Paths : Edit(p)
         /\ dirty' # dirty => (\E p \in Paths : Edit(p)) \/ TakeEvents \/ TakeHint
         /\ watcher' # watcher =>
              \/ TakeEvents \/ TakeHint \/ ReadDigests \/ CaptureGeneration
              \/ SubmitDuplicate \/ SubmitFollowUp \/ RetireMarkers \/ CloseMarkers
              \/ Close
         /\ pending' # pending => SubmitFollowUp \/ Close \/ TakePending
         /\ active' # active =>
              \/ SubmitDuplicate \/ SubmitFollowUp \/ Close \/ TakePending
              \/ UpdateDigests \/ RecordSnapshots \/ FinishWork \/ ClearActive
         /\ worker' # worker => Review
         /\ stopping' # stopping => Close
         /\ settled' # settled =>
              SkipUnreadable \/ TakeSnapshots \/ ProviderFails \/ Publish \/ SinkFails
         /\ observed' # observed => SubmitDuplicate \/ SubmitFollowUp
<1> USE DEF Next, vars, Environment, Submission, Review
<1>1. CASE UNCHANGED vars
  BY <1>1
<1>2. CASE Environment
  BY <1>2 DEF Edit, BindSession, ReleaseSession
<1>3. CASE TakeEvents \/ TakeHint \/ Close
  BY <1>3 DEF TakeEvents, TakeHint, Close
<1>4. CASE Submission
  BY <1>4 DEF ReadDigests, CaptureGeneration, SubmitDuplicate, SubmitFollowUp,
     RetireMarkers, CloseMarkers
<1>5. CASE Review
  BY <1>5 DEF TakePending, RefreshDigests, UpdateDigests, SkipUnreadable, TakeSnapshots,
     RecordSnapshots, StartProvider, ProviderSucceeds, ProviderFails,
     ProviderSuperseded, Publish, DiscardResult, SinkFails, FinishWork, UnlinkMarker,
     ClearActive, StopWorker
<1> QED
  BY <1>1, <1>2, <1>3, <1>4, <1>5

\* The threads start without work.
LEMMA InitThreads == Init => ThreadsInv
  BY DEF Init, ThreadsInv, WorkerInv, IdleWatcher, IdleWorker, NoReview, IsReview,
     WorkPcs, CallPcs

\* A submission adds to the active review's marker, or cancels it.
LEMMA SubmissionKeepsActive ==
  ASSUME TypeOK, SubmitDuplicate \/ SubmitFollowUp
  PROVE  /\ active'.paths = active.paths
         /\ active'.digest = active.digest
         /\ active'.finishing = active.finishing
         /\ active'.cancelled = (active.cancelled \/ Supersedes)
         /\ watcher'.paths = {}
<1>t. active \in Reviews
  BY DEF TypeOK
<1>1. CASE SubmitDuplicate
  <2>1. ~Supersedes
    BY <1>1, <1>t
    DEF SubmitDuplicate, Supersedes, Incoming, ChangedOverlap, Overlap, Reviews, IsActive, IsReview
  <2>2. CASE watcher.agent # NoAgent /\ active.marker = NoMarker
    <3>1. active' = [active EXCEPT
                      !.marker = BegunMarker(watcher.agent),
                      !.agent = watcher.agent,
                      !.generation = IF active.generation = NoGeneration
                                     THEN watcher.generation
                                     ELSE active.generation]
      BY <1>1, <2>2 DEF SubmitDuplicate
    <3> QED
      BY <1>1, <1>t, <2>1, <3>1 DEF SubmitDuplicate, Reviews, IdleWatcher
  <2>3. CASE ~(watcher.agent # NoAgent /\ active.marker = NoMarker)
    BY <1>1, <1>t, <2>1, <2>3 DEF SubmitDuplicate, IdleWatcher, Reviews
  <2> QED
    BY <2>2, <2>3
<1>2. CASE SubmitFollowUp
  <2>1. active' = [active EXCEPT !.cancelled = active.cancelled \/ Supersedes]
    BY <1>2 DEF SubmitFollowUp
  <2>2. watcher'.paths = {}
    BY <1>2 DEF SubmitFollowUp, IdleWatcher
  <2> QED
    BY <1>t, <2>1, <2>2 DEF Reviews
<1> QED
  BY <1>1, <1>2

\* The watcher's own steps outside the lock leave the reviews alone.
LEMMA WatcherSteps ==
  ASSUME TypeOK,
         \/ TakeEvents \/ TakeHint \/ ReadDigests \/ CaptureGeneration
         \/ RetireMarkers \/ CloseMarkers
  PROVE  /\ watcher'.pc \notin {"read", "capture", "submit"} =>
              watcher'.paths = {}
         /\ UNCHANGED <<content, pending, active, worker, stopping, settled, observed>>
<1>t. watcher \in Watchers
  BY DEF TypeOK
<1>1. CASE TakeEvents
  BY <1>t, <1>1 DEF TakeEvents, Watchers
<1>2. CASE TakeHint
  BY <1>t, <1>2 DEF TakeHint, Watchers
<1>3. CASE ReadDigests
  BY <1>t, <1>3 DEF ReadDigests, Watchers
<1>4. CASE CaptureGeneration
  BY <1>t, <1>4 DEF CaptureGeneration, Watchers
<1>5. CASE RetireMarkers \/ CloseMarkers
  BY <1>5 DEF RetireMarkers, CloseMarkers, IdleWatcher
<1> QED
  BY <1>1, <1>2, <1>3, <1>4, <1>5

\* The end of a chunk, whatever its outcome.
LEMMA ChunkEnds ==
  ASSUME TypeInv,
         \/ ProviderFails \/ ProviderSuperseded \/ Publish \/ DiscardResult
         \/ SinkFails
  PROVE  /\ worker.pc \in {"provider", "publish"}
         /\ worker'.pc = "chunk"
         /\ worker'.chunk = {}
         /\ worker'.read = [p \in Paths |-> NoDigest]
         /\ worker'.todo \in {worker.todo, {}}
         /\ ~SinkFails => worker'.todo = worker.todo
         /\ UNCHANGED <<content, dirty, watcher, pending, active, stopping, observed>>
<1>t. worker \in Workers
  BY DEF TypeInv, TypeOK
<1>1. /\ NextChunk.pc = "chunk" /\ NextChunk.chunk = {}
      /\ NextChunk.todo = worker.todo
      /\ NextChunk.read = [p \in Paths |-> NoDigest]
  BY <1>t DEF NextChunk, Workers
<1>2. NextChunk \in Workers
  BY NextChunkType
<1>3. CASE SinkFails
  <2>1. worker' = [NextChunk EXCEPT !.todo = {}]
    BY <1>3 DEF SinkFails
  <2> QED
    BY <1>1, <1>2, <1>3, <2>1 DEF SinkFails, Workers
<1>4. CASE ProviderFails \/ ProviderSuperseded \/ Publish \/ DiscardResult
  <2>1. worker' = NextChunk
    BY <1>4 DEF ProviderFails, ProviderSuperseded, Publish, DiscardResult
  <2>2. ~SinkFails => worker'.todo = worker.todo
    BY <1>1, <2>1
  <2> QED
    BY <1>1, <1>4, <2>1, <2>2
    DEF ProviderFails, ProviderSuperseded, Publish, DiscardResult
<1> QED
  BY <1>3, <1>4

\* Every step keeps what the program counters know.
LEMMA NextThreads == TypeInv /\ FollowUpInv /\ ThreadsInv /\ [Next]_vars => ThreadsInv'
<1> SUFFICES ASSUME TypeInv, FollowUpInv, ThreadsInv, [Next]_vars
             PROVE  ThreadsInv'
  OBVIOUS
<1>t. /\ watcher \in Watchers /\ worker \in Workers
      /\ pending \in Reviews /\ active \in Reviews
  BY DEF TypeInv, TypeOK
<1> USE DEF WorkPcs, CallPcs
<1>1. CASE UNCHANGED <<watcher, active, worker, stopping>>
  BY <1>1 DEF ThreadsInv, WorkerInv, IsActive, IsReview
<1>2. CASE \/ TakeEvents \/ TakeHint \/ ReadDigests \/ CaptureGeneration
           \/ RetireMarkers \/ CloseMarkers
  BY <1>2, WatcherSteps DEF TypeInv, ThreadsInv, WorkerInv, IsActive, IsReview
<1>3. CASE SubmitDuplicate \/ SubmitFollowUp
  <2>1. UNCHANGED <<worker, stopping>>
    BY <1>3 DEF SubmitDuplicate, SubmitFollowUp
  <2> QED
    BY <1>3, <2>1, SubmissionKeepsActive
    DEF TypeInv, ThreadsInv, WorkerInv, IsActive, IsReview
<1>4. CASE Close
  <2>1. /\ active'.paths = active.paths
        /\ active'.finishing = active.finishing
        /\ active'.cancelled = IsReview(active)
        /\ watcher'.paths = {}
    BY <1>4, <1>t DEF Close, Reviews, IdleWatcher
  <2> QED
    BY <1>4, <2>1 DEF Close, ThreadsInv, WorkerInv, IsActive, IsReview
<1>5. CASE TakePending
  <2>1. /\ active'.paths = Slice
        /\ active'.finishing = pending.finishing
        /\ ~stopping /\ IsReview(pending)
        /\ worker' = [worker EXCEPT !.pc = "refresh"]
        /\ UNCHANGED <<watcher, stopping>>
    BY <1>5, <1>t DEF TakePending, Reviews
  <2>2. Slice # {}
    BY <2>1 DEF Slice, IsReview
  <2>3. worker.pc = "waiting"
    BY <1>5 DEF TakePending
  <2>4. worker.todo = {} /\ worker.chunk = {}
    BY <2>3 DEF ThreadsInv, WorkerInv, TypeInv, SnapshotsRead
  <2>5. ~pending.finishing
    BY DEF FollowUpInv
  <2> QED
    BY <1>t, <2>1, <2>2, <2>4, <2>5
    DEF ThreadsInv, WorkerInv, IsActive, IsReview, Workers
<1>6. CASE RefreshDigests
  BY <1>6, <1>t DEF RefreshDigests, ThreadsInv, WorkerInv, IsActive, IsReview, Workers
<1>7. CASE UpdateDigests
  <2>1. /\ active'.paths = active.paths
        /\ active'.cancelled = active.cancelled
        /\ active'.finishing = active.finishing
    BY <1>7, <1>t DEF UpdateDigests, Reviews
  <2>2. worker.chunk = {}
    BY <1>7 DEF UpdateDigests, TypeInv, SnapshotsRead
  <2> QED
    BY <1>7, <1>t, <2>1, <2>2
    DEF UpdateDigests, ThreadsInv, WorkerInv, IsActive, IsReview, Workers
<1>8. CASE SkipUnreadable
  BY <1>8, <1>t DEF SkipUnreadable, ThreadsInv, WorkerInv, IsActive, IsReview, Workers
<1>9. CASE TakeSnapshots
  <2>1. PICK S \in Chunks :
          /\ worker'.pc = "record"
          /\ worker'.todo = worker.todo \ S
          /\ worker'.chunk = Readable(S)
    BY <1>9, <1>t DEF TakeSnapshots, Workers
  <2>2. Readable(S) \subseteq S /\ S \subseteq worker.todo
    BY <2>1 DEF Readable, Chunks
  <2> QED
    BY <1>9, <2>1, <2>2 DEF TakeSnapshots, ThreadsInv, WorkerInv, IsActive, IsReview
<1>10. CASE RecordSnapshots
  <2>1. /\ active'.paths = active.paths
        /\ active'.cancelled = active.cancelled
        /\ active'.finishing = active.finishing
    BY <1>10, <1>t DEF RecordSnapshots, Reviews
  <2> QED
    BY <1>10, <1>t, <2>1
    DEF RecordSnapshots, ThreadsInv, WorkerInv, IsActive, IsReview, Workers
<1>11. CASE StartProvider \/ ProviderSucceeds
  <2>1. /\ worker.pc \in CallPcs /\ worker'.pc \in CallPcs
        /\ worker'.todo = worker.todo /\ worker'.chunk = worker.chunk
    BY <1>11, <1>t DEF StartProvider, ProviderSucceeds, Workers
  <2>2. UNCHANGED <<watcher, active, stopping>>
    BY <1>11 DEF StartProvider, ProviderSucceeds
  <2> QED
    BY <2>1, <2>2 DEF ThreadsInv, WorkerInv, IsActive, IsReview
<1>12. CASE \/ ProviderFails \/ ProviderSuperseded \/ Publish \/ DiscardResult
            \/ SinkFails
  BY <1>12, ChunkEnds DEF ThreadsInv, WorkerInv, IsActive, IsReview
<1>13. CASE FinishWork
  <2>1. /\ active'.paths = active.paths
        /\ active'.cancelled = active.cancelled
        /\ active'.finishing
        /\ worker'.pc = "unmark" /\ worker'.todo = {} /\ worker'.chunk = {}
    BY <1>13, <1>t DEF FinishWork, Reviews, IdleWorker
  <2> QED
    BY <1>13, <2>1 DEF FinishWork, ThreadsInv, WorkerInv, IsActive, IsReview
<1>14. CASE UnlinkMarker \/ StopWorker
  <2>1. /\ \/ worker.pc = "unmark" /\ worker'.pc = "clear"
           \/ worker.pc = "waiting" /\ worker'.pc = "stopped"
        /\ worker'.todo = worker.todo /\ worker'.chunk = worker.chunk
    BY <1>14, <1>t DEF UnlinkMarker, StopWorker, Workers
  <2>2. UNCHANGED <<watcher, active, stopping>>
    BY <1>14 DEF UnlinkMarker, StopWorker
  <2> QED
    BY <2>1, <2>2 DEF ThreadsInv, WorkerInv, IsActive, IsReview
<1>15. CASE ClearActive
  <2>1. active'.paths = {} /\ worker' = [worker EXCEPT !.pc = "waiting"]
    BY <1>15 DEF ClearActive, NoReview
  <2>2. worker.pc = "clear" /\ worker.chunk = {}
    BY <1>15 DEF ClearActive, TypeInv, SnapshotsRead
  <2> QED
    BY <1>15, <1>t, <2>1, <2>2
    DEF ClearActive, ThreadsInv, WorkerInv, IsActive, IsReview, Workers
<1> QED
  BY <1>1, <1>2, <1>3, <1>4, <1>5, <1>6, <1>7, <1>8, <1>9, <1>10, <1>11, <1>12,
     <1>13, <1>14, <1>15
  DEF Next, vars, Environment, Edit, BindSession, ReleaseSession, Submission, Review

(***************************************************************************)
(* Session generations.  Every captured generation is at most the route's, *)
(* which only grows, so a batch that SpoolSink.publish accepts was captured *)
(* in the very generation in which its provider call started.              *)
(***************************************************************************)
Known(g) == g <= session.generation

GenerationInv ==
    /\ session.state = "closed" => session.generation > 0
    /\ Known(watcher.generation)
    /\ Known(pending.generation)
    /\ Known(active.generation)
    /\ Known(worker.generation)
    /\ worker.pc \in {"provider", "publish"} =>
        /\ worker.generation <= worker.started
        /\ worker.started <= session.generation
        /\ worker.generation = NoGeneration => worker.started > 0

\* The generation invariant holds at the start.
LEMMA InitGeneration == Init => GenerationInv
  BY DEF Init, GenerationInv, Known, NoReview, IdleWatcher, IdleWorker, NoGeneration

\* A generation captured now is not ahead of the route's.
LEMMA CapturedIsKnown ==
  ASSUME TypeOK, GenerationInv
  PROVE  /\ Known(CapturedGeneration)
         /\ Known(NoGeneration)
         /\ CapturedGeneration = NoGeneration => session.generation > 0
  BY DEF TypeOK, Sessions, Generations, GenerationInv, Known, CapturedGeneration,
     NoGeneration

\* Every step preserves the generation invariant.
LEMMA NextGeneration == TypeInv /\ GenerationInv /\ [Next]_vars => GenerationInv'
<1> SUFFICES ASSUME TypeInv, GenerationInv, [Next]_vars PROVE GenerationInv'
  OBVIOUS
<1>t. /\ session \in Sessions /\ watcher \in Watchers /\ worker \in Workers
      /\ pending \in Reviews /\ active \in Reviews
      /\ MaxGeneration \in Nat
  BY ConstantsAssumption DEF TypeInv, TypeOK
<1>k. /\ Known(CapturedGeneration)
      /\ Known(NoGeneration)
      /\ CapturedGeneration = NoGeneration => session.generation > 0
  BY CapturedIsKnown DEF TypeInv
<1>1. CASE UNCHANGED <<session, watcher, pending, active, worker>>
  BY <1>1 DEF GenerationInv, Known
<1>2. ASSUME NEW x \in Agents, BindSession(x) PROVE GenerationInv'
  <2>1. session'.generation = session.generation /\ session'.state = "bound"
    BY <1>2, <1>t DEF BindSession, Sessions
  <2> QED
    BY <1>2, <2>1 DEF BindSession, GenerationInv, Known
<1>3. CASE ReleaseSession
  <2>1. /\ session'.generation = session.generation + 1
        /\ session.generation \in Nat
    BY <1>3, <1>t DEF ReleaseSession, Sessions, Generations
  <2>2. /\ watcher.generation \in Int /\ pending.generation \in Int
        /\ active.generation \in Int /\ worker.generation \in Int
        /\ worker.started \in Int
    BY <1>t DEF Watchers, Reviews, Workers, CapturedGenerations, Generations,
       NoGeneration
  <2> QED
    BY <1>3, <2>1, <2>2 DEF ReleaseSession, GenerationInv, Known
<1>4. ASSUME \/ TakeEvents \/ TakeHint \/ ReadDigests \/ CaptureGeneration
             \/ RetireMarkers \/ CloseMarkers
      PROVE  GenerationInv'
  <2>1. watcher'.generation
          \in {watcher.generation, NoGeneration, CapturedGeneration}
    <3>1. CASE TakeEvents
      BY <3>1, <1>t DEF TakeEvents, Watchers
    <3>2. CASE TakeHint
      BY <3>2, <1>t DEF TakeHint, Watchers
    <3>3. CASE ReadDigests
      BY <3>3, <1>t DEF ReadDigests, Watchers
    <3>4. CASE CaptureGeneration
      BY <3>4, <1>t DEF CaptureGeneration, Watchers
    <3>5. CASE RetireMarkers \/ CloseMarkers
      BY <3>5 DEF RetireMarkers, CloseMarkers, IdleWatcher
    <3> QED
      BY <1>4, <3>1, <3>2, <3>3, <3>4, <3>5
  <2>2. UNCHANGED <<session, pending, active, worker>>
    BY <1>4 DEF TakeEvents, TakeHint, ReadDigests, CaptureGeneration,
       RetireMarkers, CloseMarkers
  <2> QED
    BY <1>k, <2>1, <2>2 DEF GenerationInv, Known
<1>5. CASE SubmitDuplicate
  <2>1. /\ active'.generation \in {active.generation, watcher.generation}
        /\ watcher'.generation = NoGeneration
    BY <1>5, <1>t DEF SubmitDuplicate, Reviews, IdleWatcher
  <2> QED
    BY <1>5, <1>k, <2>1 DEF SubmitDuplicate, GenerationInv, Known
<1>6. CASE SubmitFollowUp
  <2>1. /\ active'.generation = active.generation
        /\ pending'.generation = watcher.generation
        /\ watcher'.generation = NoGeneration
    BY <1>6, <1>t DEF SubmitFollowUp, Reviews, IdleWatcher
  <2> QED
    BY <1>6, <1>k, <2>1 DEF SubmitFollowUp, GenerationInv, Known
<1>7. CASE Close
  <2>1. /\ active'.generation = active.generation
        /\ pending'.generation = NoGeneration
        /\ watcher'.generation = NoGeneration
    BY <1>7, <1>t DEF Close, Reviews, NoReview, IdleWatcher
  <2> QED
    BY <1>7, <1>k, <2>1 DEF Close, GenerationInv, Known
<1>8. CASE TakePending
  <2>1. /\ active'.generation = pending.generation
        /\ pending'.generation \in {pending.generation, NoGeneration}
        /\ worker'.generation = worker.generation
        /\ worker'.pc = "refresh"
    BY <1>8, <1>t DEF TakePending, Reviews, NoReview, Workers
  <2> QED
    BY <1>8, <1>k, <2>1 DEF TakePending, GenerationInv, Known
<1>9. ASSUME \/ UpdateDigests \/ RecordSnapshots \/ FinishWork \/ ClearActive
      PROVE  GenerationInv'
  <2>1. /\ active'.generation \in {active.generation, NoGeneration}
        /\ worker'.generation \in {worker.generation, NoGeneration}
        /\ worker'.pc \notin {"provider", "publish"}
    <3>1. CASE UpdateDigests
      BY <3>1, <1>t DEF UpdateDigests, Reviews, Workers
    <3>2. CASE RecordSnapshots
      BY <3>2, <1>t DEF RecordSnapshots, Reviews, Workers
    <3>3. CASE FinishWork
      BY <3>3, <1>t DEF FinishWork, Reviews, IdleWorker
    <3>4. CASE ClearActive
      BY <3>4, <1>t DEF ClearActive, NoReview, Workers
    <3> QED
      BY <1>9, <3>1, <3>2, <3>3, <3>4
  <2>2. UNCHANGED <<session, watcher, pending>>
    BY <1>9 DEF UpdateDigests, RecordSnapshots, FinishWork, ClearActive
  <2> QED
    BY <1>k, <2>1, <2>2 DEF GenerationInv, Known
<1>10. CASE StartProvider
  <2>1. /\ worker'.pc = "provider"
        /\ worker'.started = session.generation
        /\ worker'.generation = IF worker.generation = NoGeneration
                                THEN CapturedGeneration ELSE worker.generation
    BY <1>10, <1>t DEF StartProvider, Workers
  <2>2. Known(worker'.generation)
    BY <1>k, <2>1 DEF GenerationInv
  <2>3. worker'.generation = NoGeneration => session.generation > 0
    BY <1>k, <2>1
  <2>4. session.generation <= session.generation
    BY <1>t DEF Sessions, Generations
  <2> QED
    BY <1>10, <2>1, <2>2, <2>3, <2>4 DEF StartProvider, GenerationInv, Known
<1>11. CASE TakeSnapshots
  <2>1. /\ worker'.generation = active.generation
        /\ worker'.pc = "record"
    BY <1>11, <1>t DEF TakeSnapshots, Workers
  <2> QED
    BY <1>11, <2>1 DEF TakeSnapshots, GenerationInv, Known
<1>12. CASE ProviderSucceeds
  <2>1. /\ worker.pc = "provider"
        /\ worker'.generation = worker.generation
        /\ worker'.started = worker.started
    BY <1>12, <1>t DEF ProviderSucceeds, Workers
  <2> QED
    BY <1>12, <2>1 DEF ProviderSucceeds, GenerationInv, Known
<1>13. ASSUME \/ RefreshDigests \/ SkipUnreadable \/ ProviderFails
              \/ ProviderSuperseded \/ Publish \/ DiscardResult \/ SinkFails
              \/ UnlinkMarker \/ StopWorker
       PROVE  GenerationInv'
  <2>1. /\ worker'.generation \in {worker.generation, NoGeneration}
        /\ worker'.pc \notin {"provider", "publish"}
        /\ UNCHANGED <<session, watcher, pending, active>>
    BY <1>13, <1>t DEF RefreshDigests, SkipUnreadable, ProviderFails,
       ProviderSuperseded, Publish, DiscardResult, SinkFails, UnlinkMarker,
       StopWorker, NextChunk, Workers
  <2> QED
    BY <1>k, <2>1 DEF GenerationInv, Known
<1> QED
  BY <1>1, <1>2, <1>3, <1>4, <1>5, <1>6, <1>7, <1>8, <1>9, <1>10, <1>11, <1>12, <1>13
  DEF Next, vars, Environment, Edit, TakeEvents, TakeHint, Submission, ReadDigests,
      CaptureGeneration, RetireMarkers, CloseMarkers, Review

\* Feedback of an ended generation never reaches the spool in a later one.
THEOREM GenerationCorrect == Spec => SpooledWithinGeneration
<1>1. TypeInv /\ GenerationInv /\ [Next]_vars =>
        [Publish /\ SpoolAccepts => worker.started = session.generation]_vars
  <2> SUFFICES ASSUME TypeInv, GenerationInv, Publish, SpoolAccepts
               PROVE  worker.started = session.generation
    OBVIOUS
  <2>1. /\ worker.started \in Int /\ worker.generation \in Int
        /\ session.generation \in Int
    BY ConstantsAssumption
    DEF TypeInv, TypeOK, Workers, Sessions, CapturedGenerations, Generations,
        NoGeneration
  <2>2. /\ worker.generation <= worker.started
        /\ worker.started <= session.generation
        /\ worker.generation = NoGeneration => worker.started > 0
    BY DEF GenerationInv, Publish
  <2> QED
    BY <2>1, <2>2 DEF SpoolAccepts
<1> QED
  BY <1>1, InitTypes, NextTypes, InitGeneration, NextGeneration, PTL
  DEF Spec, SpooledWithinGeneration

(***************************************************************************)
(* Markers.  A marker is held by at most one of the follow-up, the active  *)
(* review, the worker and the main thread; a held marker is there, and     *)
(* names the agent of the review that holds it.                            *)
(***************************************************************************)
BusyPcs == {"read", "capture", "submit"}

Existing == {m \in Markers : inflight[m] # NoAgent}

HoldersInv ==
    /\ watcher.pc \notin {"retire", "closing"} => watcher.retiring = {}
    /\ watcher.pc \in BusyPcs => watcher.paths # {}
    /\ worker.pc # "unmark" => worker.marker = NoMarker
    /\ ~IsReview(pending) => pending.marker = NoMarker
    /\ ~IsActive => active.marker = NoMarker

MarkersApart ==
    /\ pending.marker # NoMarker =>
         pending.marker \notin {active.marker, worker.marker} \union watcher.retiring
    /\ active.marker # NoMarker =>
         active.marker \notin {worker.marker} \union watcher.retiring
    /\ worker.marker \notin watcher.retiring

MarkersName ==
    \A r \in {pending, active} : r.marker # NoMarker => inflight[r.marker] = r.agent

MarkersInv ==
    /\ HoldersInv
    /\ MarkersApart
    /\ HeldMarkers \subseteq Existing
    /\ MarkersName

\* No marker is leaked, unless the interrupt comes between the critical section of
\* submit and the unlinking of the markers that it dropped (Interruptible).
NoLeak == Existing \subseteq HeldMarkers

\* No marker is held at the start, and none exists.
LEMMA InitMarkers == Init => MarkersInv /\ NoLeak
  BY DEF Init, MarkersInv, HoldersInv, MarkersApart, MarkersName, HeldMarkers, Existing,
     NoLeak, NoReview, IdleWatcher, IdleWorker, BusyPcs, IsReview, IsActive

\* begin_review's marker is a new one, and is written for the owner of the route only.
LEMMA BegunMarkerIsNew ==
  ASSUME TypeOK, MarkersInv, NEW x, Owns(x) => FreeMarkers # {}
  PROVE  /\ BegunMarker(x) # NoMarker =>
              /\ Owns(x) /\ BegunMarker(x) \in Markers
              /\ BegunMarker(x) \notin HeldMarkers
              /\ WithMarker(BegunMarker(x), x)[BegunMarker(x)] = x
         /\ Owns(x) => BegunMarker(x) # NoMarker
         /\ \A m \in Existing : /\ m # BegunMarker(x)
                                /\ WithMarker(BegunMarker(x), x)[m] = inflight[m]
         /\ {m \in Markers : WithMarker(BegunMarker(x), x)[m] # NoAgent} =
              Existing \union ({BegunMarker(x)} \ {NoMarker})
<1>1. CASE Owns(x)
  <2>1. BegunMarker(x) \in FreeMarkers /\ x # NoAgent
    BY <1>1 DEF BegunMarker, Owns
  <2>2. BegunMarker(x) \in Markers /\ inflight[BegunMarker(x)] = NoAgent
    BY <2>1 DEF FreeMarkers
  <2>3. BegunMarker(x) # NoMarker
    BY <2>2, NullsAssumption
  <2> QED
    BY <1>1, <2>1, <2>2, <2>3 DEF WithMarker, MarkersInv, Existing
<1>2. CASE ~Owns(x)
  <2>1. BegunMarker(x) = NoMarker
    BY <1>2 DEF BegunMarker
  <2> QED
    BY <1>2, <2>1, NullsAssumption DEF WithMarker, Existing
<1> QED
  BY <1>1, <1>2

\* submit gives a marker to the active review or to the follow-up.
LEMMA DuplicateMarkers ==
  ASSUME TypeOK, MarkersInv, SubmitDuplicate
  PROVE  MarkersInv' /\ (NoLeak => NoLeak')
<1>t. /\ active \in Reviews /\ watcher \in Watchers
      /\ pending.marker \in MarkerIds
  BY DEF TypeOK, Reviews
<1>w. /\ watcher'.retiring = {} /\ watcher.retiring = {} /\ watcher'.pc = "idle"
      /\ UNCHANGED <<pending, worker>>
  BY DEF SubmitDuplicate, IdleWatcher, MarkersInv, HoldersInv
<1>a. IsActive
  BY DEF SubmitDuplicate, Incoming, UnchangedOverlap, Overlap, MarkersInv, HoldersInv,
     BusyPcs
<1>1. CASE watcher.agent # NoAgent /\ active.marker = NoMarker
  <2> DEFINE begun == BegunMarker(watcher.agent)
  <2>1. /\ active' = [active EXCEPT
                        !.marker = begun,
                        !.agent = watcher.agent,
                        !.generation = IF active.generation = NoGeneration
                                       THEN watcher.generation
                                       ELSE active.generation]
        /\ inflight' = WithMarker(begun, watcher.agent)
        /\ Owns(watcher.agent) => FreeMarkers # {}
    BY <1>1 DEF SubmitDuplicate
  <2>2. /\ active'.marker = begun /\ active'.agent = watcher.agent
        /\ active'.paths = active.paths /\ active'.finishing = active.finishing
    BY <1>t, <2>1 DEF Reviews
  <2>3. /\ begun # NoMarker => begun \in Markers /\ begun \notin HeldMarkers
                               /\ inflight'[begun] = watcher.agent
        /\ \A m \in Existing : m # begun /\ inflight'[m] = inflight[m]
        /\ Existing' = Existing \union ({begun} \ {NoMarker})
    BY <2>1, BegunMarkerIsNew DEF Existing
  <2> HIDE DEF begun
  <2>4. HeldMarkers' = HeldMarkers \union ({begun} \ {NoMarker})
    BY <1>1, <1>w, <2>2 DEF HeldMarkers
  <2>5. HoldersInv'
    BY <1>w, <1>a, <2>2 DEF MarkersInv, HoldersInv, IsActive, IsReview, BusyPcs
  <2>6. MarkersApart'
    BY <1>w, <2>2, <2>3 DEF MarkersInv, MarkersApart, HeldMarkers
  <2>7. MarkersName'
    BY <1>w, <2>2, <2>3 DEF MarkersInv, MarkersName, HeldMarkers
  <2> QED
    BY <2>3, <2>4, <2>5, <2>6, <2>7 DEF MarkersInv, NoLeak
<1>2. CASE ~(watcher.agent # NoAgent /\ active.marker = NoMarker)
  <2>1. UNCHANGED <<active, inflight>>
    BY <1>2 DEF SubmitDuplicate
  <2> QED
    BY <1>w, <2>1 DEF MarkersInv, HoldersInv, MarkersApart, MarkersName, HeldMarkers,
       Existing, NoLeak, IsActive, IsReview, BusyPcs
<1> QED
  BY <1>1, <1>2

\* submit gives the follow-up a marker, and drops the one it does not need.
LEMMA FollowUpMarkers ==
  ASSUME TypeOK, MarkersInv, SubmitFollowUp
  PROVE  MarkersInv' /\ (NoLeak => NoLeak')
<1> DEFINE begun == BegunMarker(IncomingAgent)
           dropped == {IF PendingRouteChanged THEN FollowUp.marker ELSE NoMarker,
                       IF KeptMarker # NoMarker THEN begun ELSE NoMarker}
                        \ {NoMarker}
<1>t. /\ active \in Reviews /\ pending \in Reviews
  BY DEF TypeOK
<1>1. /\ watcher.retiring = {}
      /\ watcher'.retiring = dropped
      /\ watcher'.pc = IF dropped = {} THEN "idle" ELSE "retire"
      /\ worker' = worker
  BY DEF SubmitFollowUp, IdleWatcher, MarkersInv, HoldersInv
<1>2. /\ active'.marker = active.marker /\ active'.agent = active.agent
      /\ active'.paths = active.paths /\ active'.finishing = active.finishing
  BY <1>t DEF SubmitFollowUp, Reviews
<1>3. /\ pending'.paths = FollowUp.paths \union Incoming /\ Incoming # {}
      /\ pending'.agent = IF PendingRouteChanged \/ IncomingAgent # NoAgent
                          THEN IncomingAgent ELSE FollowUp.agent
      /\ pending'.marker = IF KeptMarker = NoMarker THEN begun ELSE KeptMarker
  BY DEF SubmitFollowUp
<1>4. /\ begun # NoMarker =>
           /\ begun \in Markers /\ begun \notin HeldMarkers
           /\ inflight'[begun] = IncomingAgent /\ IncomingAgent # NoAgent
      /\ \A m \in Existing : m # begun /\ inflight'[m] = inflight[m]
      /\ Existing' = Existing \union ({begun} \ {NoMarker})
  BY BegunMarkerIsNew DEF SubmitFollowUp, Existing, Owns
<1> HIDE DEF begun
<1>5. /\ FollowUp.marker = pending.marker
      /\ pending.marker # NoMarker => FollowUp.agent = pending.agent
  BY DEF FollowUp, NoReview, MarkersInv, HoldersInv
<1>6. KeptMarker = IF PendingRouteChanged THEN NoMarker ELSE pending.marker
  BY <1>5 DEF KeptMarker
<1>7. {pending'.marker} \union dropped \union {NoMarker}
        = {pending.marker, begun, NoMarker}
  BY <1>3, <1>5, <1>6
<1>8. HeldMarkers' = HeldMarkers \union ({begun} \ {NoMarker})
  BY <1>1, <1>2, <1>7 DEF HeldMarkers
<1>9. HoldersInv'
  BY <1>1, <1>2, <1>3 DEF MarkersInv, HoldersInv, IsActive, IsReview, BusyPcs
<1>10. MarkersApart'
  <2>1. pending'.marker \notin dropped
    BY <1>3, <1>4, <1>5, <1>6 DEF HeldMarkers
  <2>2. dropped \subseteq {pending.marker, begun} \ {NoMarker}
    BY <1>5
  <2>3. pending'.marker \in {pending.marker, begun}
    BY <1>3, <1>6
  <2>4. begun # NoMarker => begun \notin {pending.marker, active.marker, worker.marker}
    BY <1>4 DEF HeldMarkers
  <2> HIDE DEF dropped
  <2> QED
    BY <1>1, <1>2, <2>1, <2>2, <2>3, <2>4 DEF MarkersInv, MarkersApart
<1>11. MarkersName'
  <2>1. active.marker # NoMarker => inflight'[active.marker] = active.agent
    BY <1>4 DEF MarkersInv, MarkersName, HeldMarkers
  <2>2. ASSUME KeptMarker # NoMarker
        PROVE  inflight'[pending.marker] = pending'.agent
    <3>1. ~PendingRouteChanged /\ pending.marker # NoMarker
      BY <1>6, <2>2
    <3>2. inflight'[pending.marker] = pending.agent /\ pending.marker \in Existing
      BY <1>4, <3>1 DEF MarkersInv, MarkersName, HeldMarkers
    <3>3. pending.agent # NoAgent
      BY <3>1, <3>2 DEF Existing, MarkersInv, MarkersName
    <3>4. pending'.agent = pending.agent
      BY <1>3, <1>5, <3>1, <3>3 DEF PendingRouteChanged, AgentsDiffer
    <3> QED
      BY <3>2, <3>4
  <2>3. ASSUME KeptMarker = NoMarker, begun # NoMarker
        PROVE  inflight'[begun] = pending'.agent
    BY <1>3, <1>4, <2>3
  <2> QED
    BY <1>2, <1>3, <1>6, <2>1, <2>2, <2>3 DEF MarkersName
<1> QED
  BY <1>4, <1>8, <1>9, <1>10, <1>11 DEF MarkersInv, NoLeak

\* Unlinking the markers that the main thread dropped, or took when it closed.
LEMMA RetiredMarkers ==
  ASSUME TypeOK, MarkersInv, RetireMarkers \/ CloseMarkers
  PROVE  MarkersInv' /\ (NoLeak => NoLeak')
<1>1. /\ watcher'.retiring = {}
      /\ watcher'.pc \notin BusyPcs
      /\ inflight' = WithoutMarkers(watcher.retiring)
      /\ UNCHANGED <<pending, active, worker>>
  BY DEF RetireMarkers, CloseMarkers, IdleWatcher, BusyPcs
<1>2. Existing' = Existing \ watcher.retiring
  BY <1>1 DEF Existing, WithoutMarkers
<1>3. \A m \in Existing \ watcher.retiring : inflight'[m] = inflight[m]
  BY <1>1 DEF Existing, WithoutMarkers
<1>4. HeldMarkers' = HeldMarkers \ watcher.retiring
  BY <1>1 DEF HeldMarkers, MarkersInv, MarkersApart
<1>5. HoldersInv' /\ MarkersApart'
  BY <1>1 DEF MarkersInv, HoldersInv, MarkersApart, IsActive, IsReview
<1>6. MarkersName'
  <2>1. \A r \in {pending, active} :
          r.marker # NoMarker => r.marker \in Existing \ watcher.retiring
    BY DEF MarkersInv, MarkersApart, HeldMarkers
  <2> QED
    BY <1>1, <1>3, <2>1 DEF MarkersInv, MarkersName
<1> QED
  BY <1>2, <1>4, <1>5, <1>6 DEF MarkersInv, NoLeak

\* close() takes the markers of both reviews.
LEMMA ClosedMarkers ==
  ASSUME TypeOK, MarkersInv, Close
  PROVE  MarkersInv' /\ (NoLeak /\ "retire" \notin Interruptible => NoLeak')
<1>t. active \in Reviews
  BY DEF TypeOK
<1>1. /\ watcher'.retiring = {active.marker, pending.marker} \ {NoMarker}
      /\ watcher'.pc = "closing"
      /\ UNCHANGED <<inflight, worker>>
  BY DEF Close, IdleWatcher
<1>2. /\ active'.marker = NoMarker
      /\ pending' = NoReview
  BY <1>t DEF Close, Reviews
<1>3. HeldMarkers' = ({active.marker, pending.marker, worker.marker} \ {NoMarker})
  BY <1>1, <1>2 DEF HeldMarkers, NoReview
<1>4. "retire" \notin Interruptible => watcher.retiring = {}
  BY ConstantsAssumption DEF Close, MarkersInv, HoldersInv
<1>5. HoldersInv'
  BY <1>1, <1>2 DEF MarkersInv, HoldersInv, NoReview, BusyPcs
<1>6. MarkersApart' /\ MarkersName'
  BY <1>1, <1>2 DEF MarkersInv, MarkersApart, MarkersName, NoReview
<1> QED
  BY <1>1, <1>3, <1>4, <1>5, <1>6 DEF MarkersInv, NoLeak, HeldMarkers, Existing

\* The follow-up's marker goes to the active review, and a new one takes its place.
LEMMA TakenMarkers ==
  ASSUME TypeInv, FollowUpInv, ThreadsInv, MarkersInv, TakePending
  PROVE  MarkersInv' /\ (NoLeak => NoLeak')
<1>t. pending \in Reviews /\ worker \in Workers /\ TypeOK
  BY DEF TypeInv, TypeOK
<1>1. PICK renewed \in BOOLEAN :
        /\ renewed => /\ Owns(pending.agent) /\ FreeMarkers # {}
                      /\ Slice # pending.paths /\ pending.marker # NoMarker
        /\ active' =
             [pending EXCEPT
                !.paths = Slice,
                !.digest = OnPaths(pending.digest, Slice),
                !.marker = IF Slice = pending.paths \/ renewed
                           THEN pending.marker ELSE NoMarker,
                !.priority = {}]
        /\ pending' =
             IF Slice = pending.paths THEN NoReview
             ELSE [pending EXCEPT
                     !.paths = pending.paths \ Slice,
                     !.digest = OnPaths(pending.digest, pending.paths \ Slice),
                     !.marker = IF renewed THEN BegunMarker(pending.agent) ELSE @,
                     !.priority = @ \ Slice]
        /\ inflight' = IF renewed
                       THEN WithMarker(BegunMarker(pending.agent), pending.agent)
                       ELSE inflight
  BY Zenon DEF TakePending
<1>2. /\ active.marker = NoMarker /\ worker.marker = NoMarker
      /\ worker'.marker = NoMarker /\ worker'.pc = "refresh"
      /\ watcher' = watcher
  BY <1>t DEF TakePending, Workers, ThreadsInv, WorkerInv, MarkersInv, HoldersInv, IsActive
<1>3. /\ active'.paths = Slice /\ active'.agent = pending.agent
      /\ active'.finishing = pending.finishing
      /\ active'.marker = IF Slice = pending.paths \/ renewed
                          THEN pending.marker ELSE NoMarker
  BY <1>t, <1>1 DEF Reviews
<1>4. /\ Slice = pending.paths => pending' = NoReview
      /\ Slice # pending.paths =>
           /\ pending'.paths = pending.paths \ Slice
           /\ pending'.agent = pending.agent
           /\ pending'.marker = IF renewed THEN BegunMarker(pending.agent)
                                ELSE pending.marker
  BY <1>t, <1>1 DEF Reviews
<1>5. IsReview(active') /\ ~active'.finishing
  BY <1>3 DEF TakePending, Slice, IsReview, FollowUpInv
<1>6. Slice \subseteq pending.paths
  BY DEF Slice
<1>7. HoldersInv'
  BY <1>2, <1>4, <1>5, <1>6
  DEF MarkersInv, HoldersInv, IsActive, IsReview, NoReview
<1>8. CASE renewed
  <2>1. /\ BegunMarker(pending.agent) \in Markers
        /\ BegunMarker(pending.agent) # NoMarker
        /\ BegunMarker(pending.agent) \notin HeldMarkers
        /\ inflight'[BegunMarker(pending.agent)] = pending.agent
        /\ \A m \in Existing : inflight'[m] = inflight[m]
        /\ Existing' = Existing \union {BegunMarker(pending.agent)}
    BY <1>t, <1>1, <1>8, BegunMarkerIsNew DEF Existing
  <2>2. /\ active'.marker = pending.marker
        /\ pending'.marker = BegunMarker(pending.agent)
        /\ pending'.agent = pending.agent
    BY <1>1, <1>3, <1>4, <1>8
  <2>3. HeldMarkers' = HeldMarkers \union {BegunMarker(pending.agent)}
    BY <1>2, <2>1, <2>2 DEF HeldMarkers
  <2>4. MarkersApart'
    BY <1>2, <2>1, <2>2 DEF MarkersInv, MarkersApart, HeldMarkers
  <2>5. MarkersName'
    BY <1>2, <1>3, <2>1, <2>2 DEF MarkersInv, MarkersName, HeldMarkers
  <2> QED
    BY <1>7, <2>1, <2>3, <2>4, <2>5 DEF MarkersInv, NoLeak
<1>9. CASE ~renewed
  <2>1. inflight' = inflight
    BY <1>1, <1>9
  <2>2. \/ active'.marker = pending.marker /\ pending'.marker = NoMarker
        \/ active'.marker = NoMarker /\ pending'.marker = pending.marker
    BY <1>3, <1>4, <1>9 DEF NoReview
  <2>3. HeldMarkers' = HeldMarkers
    BY <1>2, <2>2 DEF HeldMarkers
  <2>4. MarkersApart'
    BY <1>2, <2>2 DEF MarkersInv, MarkersApart
  <2>5. MarkersName'
    BY <1>3, <1>4, <2>1, <2>2 DEF MarkersInv, MarkersName, NoReview
  <2> QED
    BY <1>7, <2>1, <2>3, <2>4, <2>5 DEF MarkersInv, NoLeak, Existing
<1> QED
  BY <1>8, <1>9

\* The end of a review: its marker passes to the worker, which unlinks it.
LEMMA EndedMarkers ==
  ASSUME TypeInv, ThreadsInv, MarkersInv, FinishWork \/ UnlinkMarker \/ ClearActive
  PROVE  MarkersInv' /\ (NoLeak => NoLeak')
<1>t. active \in Reviews /\ worker \in Workers
  BY DEF TypeInv, TypeOK
<1>1. CASE FinishWork
  <2>1. /\ active'.marker = NoMarker /\ active'.finishing
        /\ worker'.pc = "unmark" /\ worker'.marker = active.marker
        /\ worker.marker = NoMarker
        /\ UNCHANGED <<pending, watcher, inflight>>
    BY <1>t, <1>1 DEF FinishWork, Reviews, IdleWorker, MarkersInv, HoldersInv
  <2>2. HeldMarkers' = HeldMarkers
    BY <2>1 DEF HeldMarkers
  <2>3. HoldersInv'
    BY <2>1 DEF MarkersInv, HoldersInv, IsActive
  <2>4. MarkersApart' /\ MarkersName'
    BY <2>1, NullsAssumption
    DEF MarkersInv, MarkersApart, MarkersName, HeldMarkers, Existing
  <2> QED
    BY <2>1, <2>2, <2>3, <2>4 DEF MarkersInv, NoLeak, Existing
<1>2. CASE UnlinkMarker
  <2>1. /\ worker'.marker = NoMarker /\ worker'.pc = "clear"
        /\ inflight' = WithoutMarkers({worker.marker})
        /\ UNCHANGED <<pending, active, watcher>>
    BY <1>t, <1>2 DEF UnlinkMarker, Workers
  <2>2. Existing' = Existing \ {worker.marker}
    BY <2>1 DEF Existing, WithoutMarkers
  <2>3. \A m \in Existing \ {worker.marker} : inflight'[m] = inflight[m]
    BY <2>1 DEF Existing, WithoutMarkers
  <2>4. HeldMarkers' = HeldMarkers \ {worker.marker}
    BY <2>1 DEF HeldMarkers, MarkersInv, MarkersApart
  <2>5. HoldersInv'
    BY <2>1 DEF MarkersInv, HoldersInv, IsActive, IsReview
  <2>6. NoMarker \notin watcher.retiring
    BY NullsAssumption DEF TypeInv, TypeOK, Watchers
  <2>7. MarkersApart'
    BY <2>1, <2>6 DEF MarkersInv, MarkersApart
  <2>8. \A r \in {pending, active} :
          r.marker # NoMarker => r.marker \in Existing \ {worker.marker}
    BY DEF MarkersInv, MarkersApart, HeldMarkers
  <2>9. MarkersName'
    BY <2>1, <2>3, <2>8 DEF MarkersInv, MarkersName
  <2> QED
    BY <2>2, <2>4, <2>5, <2>7, <2>9 DEF MarkersInv, NoLeak
<1>3. CASE ClearActive
  <2>1. /\ active.marker = NoMarker /\ active' = NoReview
        /\ worker'.marker = worker.marker /\ worker'.pc = "waiting"
        /\ worker.pc = "clear"
        /\ UNCHANGED <<pending, watcher, inflight>>
    BY <1>t, <1>3 DEF ClearActive, Workers, ThreadsInv, WorkerInv, MarkersInv, HoldersInv,
       IsActive
  <2>2. HeldMarkers' = HeldMarkers
    BY <2>1 DEF HeldMarkers, NoReview
  <2>3. HoldersInv' /\ MarkersApart' /\ MarkersName'
    BY <2>1 DEF MarkersInv, HoldersInv, MarkersApart, MarkersName, IsActive, IsReview,
       NoReview
  <2> QED
    BY <2>1, <2>2, <2>3 DEF MarkersInv, NoLeak, Existing
<1> QED
  BY <1>1, <1>2, <1>3

\* The worker's other steps have no part in markers.
LEMMA WorkingMarkers ==
  ASSUME TypeInv,
         \/ RefreshDigests \/ UpdateDigests \/ SkipUnreadable \/ TakeSnapshots
         \/ RecordSnapshots \/ StartProvider \/ ProviderSucceeds \/ ProviderFails
         \/ ProviderSuperseded \/ Publish \/ DiscardResult \/ SinkFails \/ StopWorker
  PROVE  /\ worker.pc # "unmark" /\ worker'.marker = worker.marker
         /\ active'.marker = active.marker /\ active'.agent = active.agent
         /\ active'.paths = active.paths /\ active'.finishing = active.finishing
         /\ active'.generation = active.generation
         /\ UNCHANGED <<session, pending, watcher, inflight, stopping>>
<1>t. active \in Reviews /\ worker \in Workers
  BY DEF TypeInv, TypeOK
<1>1. CASE UpdateDigests
  BY <1>t, <1>1 DEF UpdateDigests, Reviews, Workers
<1>2. CASE RecordSnapshots
  BY <1>t, <1>2 DEF RecordSnapshots, Reviews, Workers
<1>3. CASE RefreshDigests
  BY <1>t, <1>3 DEF RefreshDigests, Workers
<1>4. CASE SkipUnreadable
  BY <1>t, <1>4 DEF SkipUnreadable, Workers
<1>5. CASE TakeSnapshots
  BY <1>t, <1>5 DEF TakeSnapshots, Workers
<1>6. CASE StartProvider \/ ProviderSucceeds
  BY <1>t, <1>6 DEF StartProvider, ProviderSucceeds, Workers
<1>7. CASE StopWorker
  BY <1>t, <1>7 DEF StopWorker, Workers
<1>8. CASE ProviderFails \/ ProviderSuperseded \/ Publish \/ DiscardResult
  BY <1>t, <1>8 DEF ProviderFails, ProviderSuperseded, Publish, DiscardResult, NextChunk,
     Workers
<1>9. CASE SinkFails
  BY <1>t, <1>9 DEF SinkFails, NextChunk, Workers
<1> QED
  BY <1>1, <1>2, <1>3, <1>4, <1>5, <1>6, <1>7, <1>8, <1>9

\* The main thread takes and reads paths without looking at markers.
LEMMA ReadingMarkers ==
  ASSUME TypeOK, TakeEvents \/ TakeHint \/ ReadDigests \/ CaptureGeneration
  PROVE  /\ watcher'.retiring = watcher.retiring
         /\ watcher.pc \notin {"retire", "closing"}
         /\ watcher'.pc \in BusyPcs
         /\ \/ watcher'.paths # {}
            \/ watcher.pc \in BusyPcs /\ watcher'.paths = watcher.paths
         /\ UNCHANGED <<session, pending, active, worker, inflight, stopping>>
<1>t. watcher \in Watchers
  BY DEF TypeOK
<1>1. CASE TakeEvents
  <2>1. PICK S \in (SUBSET dirty) \ {{}} :
          watcher' = [watcher EXCEPT !.pc = "read", !.paths = S]
    BY <1>1 DEF TakeEvents
  <2> QED
    BY <1>t, <1>1, <2>1 DEF TakeEvents, Watchers, BusyPcs
<1>2. CASE TakeHint
  <2>1. PICK S \in (SUBSET Paths) \ {{}} :
          watcher' = [watcher EXCEPT !.pc = "read", !.paths = S, !.agent = session.agent]
    BY <1>2 DEF TakeHint
  <2> QED
    BY <1>t, <1>2, <2>1 DEF TakeHint, Watchers, BusyPcs
<1>3. CASE ReadDigests
  BY <1>t, <1>3 DEF ReadDigests, Watchers, BusyPcs
<1>4. CASE CaptureGeneration
  BY <1>t, <1>4 DEF CaptureGeneration, Watchers, BusyPcs
<1> QED
  BY <1>1, <1>2, <1>3, <1>4

\* Every step keeps the markers apart, existing and named, and leaks none.
LEMMA NextMarkers ==
  ASSUME TypeInv, FollowUpInv, ThreadsInv, MarkersInv, [Next]_vars
  PROVE  MarkersInv' /\ (NoLeak /\ "retire" \notin Interruptible => NoLeak')
<1>t. TypeOK
  BY DEF TypeInv
<1>1. CASE UNCHANGED <<pending, active, worker, watcher, inflight>>
  BY <1>1 DEF MarkersInv, HoldersInv, MarkersApart, MarkersName, HeldMarkers, Existing,
     NoLeak, IsActive, IsReview
<1>2. CASE TakeEvents \/ TakeHint \/ ReadDigests \/ CaptureGeneration
  <2>1. HoldersInv'
    BY <1>t, <1>2, ReadingMarkers DEF MarkersInv, HoldersInv, IsActive, IsReview, BusyPcs
  <2> QED
    BY <1>t, <1>2, <2>1, ReadingMarkers
    DEF MarkersInv, MarkersApart, MarkersName, HeldMarkers, Existing, NoLeak
<1>3. CASE \/ RefreshDigests \/ UpdateDigests \/ SkipUnreadable \/ TakeSnapshots
           \/ RecordSnapshots \/ StartProvider \/ ProviderSucceeds \/ ProviderFails
           \/ ProviderSuperseded \/ Publish \/ DiscardResult \/ SinkFails \/ StopWorker
  <2>1. HoldersInv'
    BY <1>3, WorkingMarkers DEF MarkersInv, HoldersInv, IsActive, IsReview
  <2>2. MarkersApart' /\ MarkersName' /\ HeldMarkers' = HeldMarkers
    BY <1>3, WorkingMarkers DEF MarkersInv, MarkersApart, MarkersName, HeldMarkers
  <2> QED
    BY <1>3, <2>1, <2>2, WorkingMarkers DEF MarkersInv, Existing, NoLeak
<1>4. CASE SubmitDuplicate
  BY <1>t, <1>4, DuplicateMarkers
<1>5. CASE SubmitFollowUp
  BY <1>t, <1>5, FollowUpMarkers
<1>6. CASE RetireMarkers \/ CloseMarkers
  BY <1>t, <1>6, RetiredMarkers
<1>7. CASE Close
  BY <1>t, <1>7, ClosedMarkers
<1>8. CASE TakePending
  BY <1>8, TakenMarkers
<1>9. CASE FinishWork \/ UnlinkMarker \/ ClearActive
  BY <1>9, EndedMarkers
<1> QED
  BY <1>1, <1>2, <1>3, <1>4, <1>5, <1>6, <1>7, <1>8, <1>9
  DEF Next, vars, Environment, Edit, BindSession, ReleaseSession, Submission, Review

\* What the proofs about markers and sessions rest on.
SchedulerInv == TypeInv /\ FollowUpInv /\ ThreadsInv /\ GenerationInv /\ MarkersInv

\* The combined invariant holds at the start.
LEMMA InitScheduler == Init => SchedulerInv /\ NoLeak
  BY InitTypes, InitFollowUp, InitThreads, InitGeneration, InitMarkers DEF SchedulerInv

\* Every step keeps the combined invariant.
LEMMA NextScheduler ==
  SchedulerInv /\ [Next]_vars =>
    SchedulerInv' /\ (NoLeak /\ "retire" \notin Interruptible => NoLeak')
  BY NextTypes, NextFollowUp, NextThreads, NextGeneration, NextMarkers DEF SchedulerInv

\* Every in-flight marker belongs to a review or to a thread about to unlink it, and
\* every marker that one of them holds is there, for any number of reviews and agents,
\* as long as the interrupt does not come while dropped markers wait to be unlinked.
THEOREM MarkersCorrect ==
  ASSUME "retire" \notin Interruptible
  PROVE  Spec => []MarkersAreHeld
<1>1. SchedulerInv /\ NoLeak => MarkersAreHeld
  BY DEF SchedulerInv, MarkersInv, NoLeak, MarkersAreHeld, Existing
<1> QED
  BY <1>1, InitScheduler, NextScheduler, PTL DEF Spec

(***************************************************************************)
(* Marked reviews.  A review of the route's present generation was         *)
(* submitted while its agent owned the route, so it had a marker from the  *)
(* start; the main thread cannot be in the middle of a submission for      *)
(* another agent or another generation, which would take it away.          *)
(***************************************************************************)
Current(r) == IsReview(r) /\ r.generation = session.generation

SessionInv ==
    /\ watcher.pc \notin BusyPcs => watcher.agent = NoAgent
    /\ watcher.agent # NoAgent => session.state # "unbound"
    /\ watcher.pc = "submit" /\ watcher.generation = session.generation =>
         session.state # "closed"
    /\ \A r \in {pending, active} :
        /\ IsReview(r) /\ r.agent # NoAgent => session.state # "unbound"
        /\ Current(r) =>
            /\ session.state # "closed"
            /\ watcher.pc = "submit" => watcher.generation = session.generation
            /\ watcher.agent # NoAgent => session.agent = watcher.agent

Live(r) == Current(r) /\ ~r.finishing /\ ~stopping /\ Owns(r.agent)

\* A slice without a marker of its own relies on that of the rest.
MarkedInv ==
    /\ Live(pending) => pending.marker # NoMarker
    /\ Live(active) => \/ active.marker # NoMarker
                       \/ Live(pending) /\ pending.agent = active.agent

\* The route is unbound and there is no review at the start.
LEMMA InitMarked == Init => SessionInv /\ MarkedInv
  BY DEF Init, SessionInv, MarkedInv, Live, Current, IsReview, NoReview, IdleWatcher

\* A review whose agent owns the route, and the submission in progress, belong to the
\* present session as long as nobody binds or closes the route.
LEMMA NextSession ==
  ASSUME SchedulerInv, SessionInv, [Next]_vars
  PROVE  SessionInv'
<1>t. /\ session \in Sessions /\ watcher \in Watchers /\ worker \in Workers
      /\ pending \in Reviews /\ active \in Reviews /\ MaxGeneration \in Nat
  BY ConstantsAssumption DEF SchedulerInv, TypeInv, TypeOK
<1>g. /\ session.generation \in Nat /\ NoGeneration # session.generation
      /\ \A r \in {pending, active, watcher} :
           /\ r.generation \in Int /\ r.generation <= session.generation
  BY <1>t DEF SchedulerInv, GenerationInv, Known, Sessions, Reviews, Watchers,
     CapturedGenerations, Generations, NoGeneration
<1>1. CASE UNCHANGED <<session, watcher, pending, active>>
  BY <1>1 DEF SessionInv, Current, IsReview
<1>2. ASSUME NEW x \in Agents, BindSession(x) PROVE SessionInv'
  <2>1. /\ session'.generation = session.generation /\ session'.state = "bound"
        /\ session.state # "bound"
        /\ UNCHANGED <<watcher, pending, active>>
    BY <1>2, <1>t DEF BindSession, Sessions
  <2>2. session.state \in {"unbound", "closed"}
    BY <1>t, <2>1 DEF Sessions
  <2>3. \A r \in {pending, active} : Current(r) => watcher.agent = NoAgent
    BY <2>2 DEF SessionInv
  <2> QED
    BY <2>1, <2>2, <2>3 DEF SessionInv, Current, IsReview
<1>3. CASE ReleaseSession
  <2>1. /\ session'.generation = session.generation + 1 /\ session'.state = "closed"
        /\ UNCHANGED <<watcher, pending, active>>
    BY <1>3 DEF ReleaseSession
  <2>2. /\ watcher.generation # session'.generation
        /\ \A r \in {pending, active} : r.generation # session'.generation
    BY <1>g, <2>1
  <2> QED
    BY <2>1, <2>2 DEF SessionInv, Current, IsReview
<1>4. CASE TakeEvents \/ ReadDigests
  <2>1. /\ watcher'.agent = watcher.agent /\ watcher'.pc \in BusyPcs
        /\ watcher'.pc # "submit"
        /\ UNCHANGED <<session, pending, active>>
    <3>1. CASE TakeEvents
      BY <3>1, <1>t DEF TakeEvents, Watchers, BusyPcs
    <3>2. CASE ReadDigests
      BY <3>2, <1>t DEF ReadDigests, Watchers, BusyPcs
    <3> QED
      BY <1>4, <3>1, <3>2
  <2> QED
    BY <2>1 DEF SessionInv, Current, IsReview
<1>5. CASE TakeHint
  <2>1. /\ watcher'.agent = session.agent /\ watcher'.pc = "read"
        /\ session.state = "bound"
        /\ UNCHANGED <<session, pending, active>>
    BY <1>5, <1>t DEF TakeHint, Watchers
  <2> QED
    BY <2>1 DEF SessionInv, Current, IsReview, BusyPcs
<1>6. CASE CaptureGeneration
  <2>1. /\ watcher.pc = "capture"
        /\ watcher'.agent = watcher.agent /\ watcher'.pc = "submit"
        /\ watcher'.generation = IF session.state = "closed" THEN NoGeneration
                                 ELSE session.generation
        /\ UNCHANGED <<session, pending, active>>
    BY <1>6, <1>t DEF CaptureGeneration, Watchers, CapturedGeneration
  <2> QED
    BY <1>g, <2>1 DEF SessionInv, Current, IsReview, BusyPcs
<1>7. CASE RetireMarkers \/ CloseMarkers
  <2>1. /\ watcher'.agent = NoAgent /\ watcher'.pc \in {"idle", "closed"}
        /\ UNCHANGED <<session, pending, active>>
    BY <1>7 DEF RetireMarkers, CloseMarkers, IdleWatcher
  <2> QED
    BY <2>1 DEF SessionInv, Current, IsReview, BusyPcs
<1>14. CASE Close
  <2>1. watcher'.agent = NoAgent /\ watcher'.pc = "closing" /\ UNCHANGED session
    BY <1>14 DEF Close, IdleWatcher
  <2>2. /\ active'.paths = active.paths /\ active'.generation = active.generation
        /\ active'.agent = active.agent
        /\ pending' = NoReview
    BY <1>14, <1>t DEF Close, Reviews
  <2> QED
    BY <2>1, <2>2 DEF SessionInv, Current, IsReview, NoReview, BusyPcs
<1>8. CASE SubmitDuplicate
  <2>1. /\ watcher.pc = "submit" /\ watcher'.agent = NoAgent /\ watcher'.pc = "idle"
        /\ UNCHANGED <<session, pending>>
    BY <1>8 DEF SubmitDuplicate, IdleWatcher
  <2>2. CASE watcher.agent # NoAgent /\ active.marker = NoMarker
    <3>1. active' = [active EXCEPT
                      !.marker = BegunMarker(watcher.agent),
                      !.agent = watcher.agent,
                      !.generation = IF active.generation = NoGeneration
                                     THEN watcher.generation
                                     ELSE active.generation]
      BY <1>8, <2>2 DEF SubmitDuplicate
    <3>2. /\ active'.agent = watcher.agent /\ active'.paths = active.paths
          /\ active'.generation \in {active.generation, watcher.generation}
      BY <1>t, <3>1 DEF Reviews
    <3> QED
      BY <2>1, <2>2, <3>2 DEF SessionInv, Current, IsReview, BusyPcs
  <2>3. CASE ~(watcher.agent # NoAgent /\ active.marker = NoMarker)
    <3>1. active' = active
      BY <1>8, <2>3 DEF SubmitDuplicate
    <3> QED
      BY <2>1, <3>1 DEF SessionInv, Current, IsReview, BusyPcs
  <2> QED
    BY <2>2, <2>3
<1>9. CASE SubmitFollowUp
  <2>1. /\ watcher.pc = "submit"
        /\ watcher'.agent = NoAgent /\ watcher'.pc \in {"idle", "retire"}
        /\ UNCHANGED session
    BY <1>9 DEF SubmitFollowUp, IdleWatcher
  <2>2. /\ active'.paths = active.paths /\ active'.generation = active.generation
        /\ active'.agent = active.agent
    BY <1>9, <1>t DEF SubmitFollowUp, Reviews
  <2>3. /\ pending'.generation = watcher.generation
        /\ pending'.agent \in {IncomingAgent, FollowUp.agent}
    BY <1>9 DEF SubmitFollowUp
  <2>4. IncomingAgent # NoAgent => session.state # "unbound"
    BY DEF IncomingAgent, Supersedes, ChangedOverlap, Overlap, SessionInv, IsActive
  <2>5. FollowUp.agent # NoAgent => session.state # "unbound"
    BY <2>4 DEF FollowUp, SessionInv, NoReview
  <2> QED
    BY <2>1, <2>2, <2>3, <2>4, <2>5 DEF SessionInv, Current, IsReview, BusyPcs
<1>10. CASE TakePending
  <2>1. /\ active'.generation = pending.generation /\ active'.agent = pending.agent
        /\ IsReview(pending)
        /\ UNCHANGED <<session, watcher>>
    BY <1>10, <1>t DEF TakePending, Reviews
  <2>2. \/ pending' = NoReview
        \/ pending'.generation = pending.generation /\ pending'.agent = pending.agent
    BY <1>10, <1>t DEF TakePending, Reviews
  <2> QED
    BY <2>1, <2>2 DEF SessionInv, Current, IsReview, NoReview
<1>11. CASE FinishWork
  <2>1. /\ active'.paths = active.paths /\ active'.generation = active.generation
        /\ active'.agent = active.agent
        /\ UNCHANGED <<session, watcher, pending>>
    BY <1>11, <1>t DEF FinishWork, Reviews
  <2> QED
    BY <2>1 DEF SessionInv, Current, IsReview
<1>12. CASE ClearActive
  BY <1>12 DEF ClearActive, SessionInv, Current, IsReview, NoReview
<1>13. CASE \/ RefreshDigests \/ UpdateDigests \/ SkipUnreadable \/ TakeSnapshots
            \/ RecordSnapshots \/ StartProvider \/ ProviderSucceeds \/ ProviderFails
            \/ ProviderSuperseded \/ Publish \/ DiscardResult \/ SinkFails \/ StopWorker
  BY <1>13, WorkingMarkers DEF SchedulerInv, SessionInv, Current, IsReview
<1>15. CASE UnlinkMarker
  BY <1>15, <1>1 DEF UnlinkMarker
<1> QED
  BY <1>1, <1>2, <1>3, <1>4, <1>5, <1>6, <1>7, <1>8, <1>9, <1>10, <1>11, <1>12, <1>13,
     <1>14, <1>15
  DEF Next, vars, Environment, Edit, Submission, Review

\* A submission leaves the owner's reviews their markers.
LEMMA SubmissionMarked ==
  ASSUME SchedulerInv, SessionInv, MarkedInv, SubmitFollowUp
  PROVE  MarkedInv'
<1> DEFINE begun == BegunMarker(IncomingAgent)
<1>t. pending \in Reviews /\ active \in Reviews /\ TypeOK
  BY DEF SchedulerInv, TypeInv, TypeOK
<1>1. /\ watcher.pc = "submit" /\ UNCHANGED <<session, stopping>>
      /\ pending'.paths # {} /\ pending'.generation = watcher.generation
      /\ ~pending'.finishing
      /\ pending'.agent = IF PendingRouteChanged \/ IncomingAgent # NoAgent
                          THEN IncomingAgent ELSE FollowUp.agent
      /\ pending'.marker = IF KeptMarker = NoMarker THEN begun ELSE KeptMarker
  BY DEF SubmitFollowUp
<1>2. /\ active'.marker = active.marker /\ active'.agent = active.agent
      /\ active'.paths = active.paths /\ active'.finishing = active.finishing
      /\ active'.generation = active.generation
  BY <1>t DEF SubmitFollowUp, Reviews
<1>3. Owns(IncomingAgent) => begun # NoMarker
  BY <1>t, BegunMarkerIsNew DEF SchedulerInv, SubmitFollowUp
<1> HIDE DEF begun
<1>5. FollowUp = pending \/ ~IsReview(pending)
  BY DEF FollowUp
\* The agent that a submission works for is the one whose review is running.
<1>4. ASSUME Live(pending), Live(active), pending.agent = active.agent
      PROVE  ~PendingRouteChanged /\ FollowUp = pending
  <2>1. FollowUp = pending /\ Current(pending) /\ Owns(pending.agent)
    BY <1>4 DEF FollowUp, Live, Current
  <2>2. pending.generation = watcher.generation
    BY <1>1, <2>1 DEF SessionInv, Current
  <2>3. watcher.agent # NoAgent => watcher.agent = pending.agent
    BY <2>1 DEF SessionInv, Owns
  <2>4. IncomingAgent \in {watcher.agent, active.agent}
    BY DEF IncomingAgent
  <2>5. IncomingAgent \in {NoAgent, pending.agent}
    BY <1>4, <2>3, <2>4
  <2> QED
    BY <2>1, <2>2, <2>5 DEF PendingRouteChanged, AgentsDiffer
<1>6. Live(pending)' => pending'.marker # NoMarker
  <2> SUFFICES ASSUME Live(pending)', pending'.marker = NoMarker PROVE FALSE
    OBVIOUS
  <2>1. /\ ~stopping /\ Owns(pending'.agent)
        /\ watcher.generation = session.generation
    BY <1>1 DEF Live, Current, Owns
  <2>2. KeptMarker = NoMarker /\ begun = NoMarker
    BY <1>1
  <2>3. ~Owns(IncomingAgent) /\ pending'.agent # NoAgent
    BY <1>3, <2>1, <2>2 DEF Owns
  <2>4. ~PendingRouteChanged /\ IncomingAgent = NoAgent /\ pending'.agent = FollowUp.agent
    BY <1>1, <2>1, <2>3
  <2>5. IsReview(pending) /\ FollowUp = pending
    BY <2>3, <2>4 DEF FollowUp, NoReview
  <2>6. pending.generation = watcher.generation
    BY <2>4, <2>5 DEF PendingRouteChanged
  <2>7. Live(pending)
    BY <2>1, <2>4, <2>5, <2>6 DEF Live, Current, SchedulerInv, FollowUpInv
  <2> QED
    BY <2>2, <2>4, <2>5, <2>7 DEF KeptMarker, MarkedInv
<1>7. Live(active)' => \/ active'.marker # NoMarker
                       \/ Live(pending)' /\ pending'.agent = active'.agent
  <2> SUFFICES ASSUME Live(active)', active.marker = NoMarker
               PROVE  Live(pending)' /\ pending'.agent = active.agent
    BY <1>2
  <2>1. Live(active)
    BY <1>1, <1>2 DEF Live, Current, IsReview, Owns
  <2>2. Live(pending) /\ pending.agent = active.agent
    BY <2>1 DEF MarkedInv
  <2>3. ~PendingRouteChanged /\ FollowUp = pending /\ Owns(pending.agent)
    BY <1>4, <2>1, <2>2 DEF Live
  <2>4. pending'.agent = pending.agent
    <3>1. CASE IncomingAgent = NoAgent
      BY <1>1, <2>3, <3>1
    <3>2. CASE IncomingAgent # NoAgent
      BY <1>1, <2>3, <3>2 DEF PendingRouteChanged, AgentsDiffer, Owns
    <3> QED
      BY <3>1, <3>2
  <2>5. pending'.generation = session'.generation
    BY <1>1, <2>2, <2>3 DEF PendingRouteChanged, Live, Current
  <2> QED
    BY <1>1, <2>1, <2>2, <2>3, <2>4, <2>5 DEF Live, Current, IsReview, Owns
<1> QED
  BY <1>6, <1>7 DEF MarkedInv

\* What the worker takes keeps the marker, or leaves it to the rest of its paths.
LEMMA TakenMarked ==
  ASSUME SchedulerInv, MarkedInv, TakePending
  PROVE  MarkedInv'
<1>t. pending \in Reviews /\ TypeOK
  BY DEF SchedulerInv, TypeInv, TypeOK
<1>1. PICK renewed \in BOOLEAN :
        /\ renewed => Owns(pending.agent) /\ FreeMarkers # {} /\ Slice # pending.paths
        /\ active' =
             [pending EXCEPT
                !.paths = Slice,
                !.digest = OnPaths(pending.digest, Slice),
                !.marker = IF Slice = pending.paths \/ renewed
                           THEN pending.marker ELSE NoMarker,
                !.priority = {}]
        /\ pending' =
             IF Slice = pending.paths THEN NoReview
             ELSE [pending EXCEPT
                     !.paths = pending.paths \ Slice,
                     !.digest = OnPaths(pending.digest, pending.paths \ Slice),
                     !.marker = IF renewed THEN BegunMarker(pending.agent) ELSE @,
                     !.priority = @ \ Slice]
  BY Zenon DEF TakePending
<1>2. /\ active'.agent = pending.agent /\ active'.generation = pending.generation
      /\ active'.finishing = pending.finishing
      /\ active'.marker = IF Slice = pending.paths \/ renewed
                          THEN pending.marker ELSE NoMarker
  BY <1>1, <1>t DEF Reviews
<1>3. /\ IsReview(pending) /\ Slice \subseteq pending.paths
      /\ UNCHANGED <<session, stopping>>
  BY DEF TakePending, Slice
<1>4. Live(active)' => Live(pending) /\ pending.marker # NoMarker
  BY <1>2, <1>3 DEF Live, Current, Owns, MarkedInv
<1>5. CASE Slice = pending.paths
  <2>1. pending' = NoReview
    BY <1>1, <1>5
  <2> QED
    BY <1>2, <1>4, <1>5, <2>1 DEF MarkedInv, Live, Current, IsReview, NoReview
<1>6. CASE Slice # pending.paths
  <2>1. /\ pending'.paths = pending.paths \ Slice /\ pending'.paths # {}
        /\ pending'.agent = pending.agent /\ pending'.generation = pending.generation
        /\ pending'.finishing = pending.finishing
        /\ pending'.marker = IF renewed THEN BegunMarker(pending.agent)
                             ELSE pending.marker
    BY <1>1, <1>3, <1>6, <1>t DEF Reviews
  <2>2. renewed => BegunMarker(pending.agent) # NoMarker
    BY <1>t, <1>1, BegunMarkerIsNew DEF SchedulerInv
  <2>3. Live(pending)' => Live(pending)
    BY <1>3, <2>1 DEF Live, Current, Owns
  <2>4. Live(pending)' => pending'.marker # NoMarker
    BY <2>1, <2>2, <2>3 DEF MarkedInv
  <2>5. Live(active)' => Live(pending)' /\ pending'.agent = active'.agent
    BY <1>2, <1>3, <1>4, <2>1 DEF Live, Current, IsReview, Owns
  <2> QED
    BY <2>4, <2>5 DEF MarkedInv
<1> QED
  BY <1>5, <1>6

\* Every step leaves the reviews of the route's owner their markers.
LEMMA NextMarked ==
  ASSUME SchedulerInv, SessionInv, MarkedInv, [Next]_vars
  PROVE  MarkedInv'
<1>t. /\ session \in Sessions /\ watcher \in Watchers /\ TypeOK
      /\ pending \in Reviews /\ active \in Reviews
  BY DEF SchedulerInv, TypeInv, TypeOK
<1>g. /\ session.generation \in Nat /\ NoGeneration # session.generation
      /\ \A r \in {pending, active} :
           r.generation \in Int /\ r.generation <= session.generation
  BY <1>t, ConstantsAssumption DEF SchedulerInv, GenerationInv, Known, Sessions, Reviews,
     CapturedGenerations, Generations, NoGeneration
<1>1. CASE UNCHANGED <<session, pending, active, stopping>>
  BY <1>1 DEF MarkedInv, Live, Current, IsReview, Owns
<1>2. ASSUME NEW x \in Agents, BindSession(x) PROVE MarkedInv'
  <2>1. /\ session'.generation = session.generation
        /\ session'.state = "bound" /\ session'.agent = x
        /\ session.state # "bound"
        /\ UNCHANGED <<pending, active, stopping>>
    BY <1>2, <1>t DEF BindSession, Sessions
  <2>2. session.state \in {"unbound", "closed"}
    BY <1>t, <2>1 DEF Sessions
  <2>3. \A r \in {pending, active} : Current(r) => r.agent = NoAgent
    BY <2>2 DEF SessionInv, Current
  <2>4. ~Live(pending)' /\ ~Live(active)'
    BY <2>1, <2>3 DEF Live, Current, IsReview, Owns
  <2> QED
    BY <2>4 DEF MarkedInv
<1>3. CASE ReleaseSession
  <2>1. /\ session'.generation = session.generation + 1
        /\ UNCHANGED <<pending, active, stopping>>
    BY <1>3 DEF ReleaseSession
  <2>2. ~Live(pending)' /\ ~Live(active)'
    BY <1>g, <2>1 DEF Live, Current
  <2> QED
    BY <2>2 DEF MarkedInv
<1>4. CASE TakeEvents \/ TakeHint \/ ReadDigests \/ CaptureGeneration
  BY <1>1, <1>4, <1>t, ReadingMarkers
<1>5. CASE RetireMarkers \/ CloseMarkers
  BY <1>1, <1>5 DEF RetireMarkers, CloseMarkers
<1>6. CASE Close
  BY <1>6 DEF Close, MarkedInv, Live
<1>7. CASE SubmitDuplicate
  <2>1. UNCHANGED <<session, pending, stopping>> /\ watcher.pc = "submit"
    BY <1>7 DEF SubmitDuplicate
  <2>2. CASE watcher.agent # NoAgent /\ active.marker = NoMarker
    <3>1. active' = [active EXCEPT
                      !.marker = BegunMarker(watcher.agent),
                      !.agent = watcher.agent,
                      !.generation = IF active.generation = NoGeneration
                                     THEN watcher.generation
                                     ELSE active.generation]
      BY <1>7, <2>2 DEF SubmitDuplicate
    <3>2. active'.agent = watcher.agent /\ active'.marker = BegunMarker(watcher.agent)
      BY <1>t, <3>1 DEF Reviews
    <3>3. Live(active)' => active'.marker # NoMarker
      BY <1>7, <1>t, <2>1, <3>2, BegunMarkerIsNew
      DEF Live, Owns, SubmitDuplicate, SchedulerInv
    <3> QED
      BY <2>1, <3>3 DEF MarkedInv, Live, Current, IsReview, Owns
  <2>3. CASE ~(watcher.agent # NoAgent /\ active.marker = NoMarker)
    BY <1>1, <1>7, <2>1, <2>3 DEF SubmitDuplicate
  <2> QED
    BY <2>2, <2>3
<1>8. CASE SubmitFollowUp
  BY <1>8, SubmissionMarked
<1>9. CASE TakePending
  BY <1>9, TakenMarked
<1>10. CASE FinishWork \/ ClearActive
  <2>1. ~Live(active)' /\ UNCHANGED <<session, pending, stopping>>
    <3>1. CASE FinishWork
      BY <3>1, <1>t DEF FinishWork, Live, Reviews
    <3>2. CASE ClearActive
      BY <3>2 DEF ClearActive, Live, Current, IsReview, NoReview
    <3> QED
      BY <1>10, <3>1, <3>2
  <2> QED
    BY <2>1 DEF MarkedInv, Live, Current, IsReview, Owns
<1>11. CASE UnlinkMarker
  BY <1>1, <1>11 DEF UnlinkMarker
<1>12. CASE \/ RefreshDigests \/ UpdateDigests \/ SkipUnreadable \/ TakeSnapshots
            \/ RecordSnapshots \/ StartProvider \/ ProviderSucceeds \/ ProviderFails
            \/ ProviderSuperseded \/ Publish \/ DiscardResult \/ SinkFails \/ StopWorker
  BY <1>12, WorkingMarkers DEF SchedulerInv, MarkedInv, Live, Current, IsReview, Owns
<1> QED
  BY <1>1, <1>2, <1>3, <1>4, <1>5, <1>6, <1>7, <1>8, <1>9, <1>10, <1>11, <1>12
  DEF Next, vars, Environment, Edit, Submission, Review

\* While a review of the agent that owns the route is queued or running in its
\* generation, that agent's Stop hook finds a marker to wait for, whatever sessions,
\* hints, edits and submissions come in between.
THEOREM OwnedCorrect == Spec => []OwnedReviewIsMarked
<1> DEFINE OwnedInv == SchedulerInv /\ SessionInv /\ MarkedInv
<1>1. OwnedInv => OwnedReviewIsMarked
  <2> SUFFICES ASSUME OwnedInv, NEW r \in {pending, active},
                      IsReview(r), ~r.finishing, ~stopping, Owns(r.agent),
                      r.generation = session.generation
               PROVE  \E m \in Markers : inflight[m] = r.agent
    BY DEF OwnedReviewIsMarked
  <2>1. Live(r)
    BY DEF Live, Current
  <2>2. PICK h \in {pending, active} : h.marker # NoMarker /\ h.agent = r.agent
    BY <2>1 DEF MarkedInv
  <2>3. h.marker \in Markers
    BY <2>2 DEF SchedulerInv, TypeInv, TypeOK, Reviews, MarkerIds
  <2> QED
    BY <2>2, <2>3 DEF SchedulerInv, MarkersInv, MarkersName
<1>2. Init => OwnedInv
  BY InitScheduler, InitMarked
<1>3. OwnedInv /\ [Next]_vars => OwnedInv'
  BY NextScheduler, NextSession, NextMarked
<1> HIDE DEF OwnedInv
<1> QED
  BY <1>1, <1>2, <1>3, PTL DEF Spec

================================================================================
