------------------------- MODULE SchedulerChangesProofs -------------------------
(***************************************************************************)
(* What becomes of a change in ReviewScheduler, for any number of files,   *)
(* versions, agents and generations and any review limit:                  *)
(*   - a publication covers nothing older than what was submitted,         *)
(*   - no change is lost between the queue, the threads and the reviews.   *)
(***************************************************************************)
EXTENDS ReviewSchedulerProofs

(***************************************************************************)
(* Both theorems compare versions, so they need edits that never restore   *)
(* an earlier version: the run SchedulerReverts shows that a file which is *)
(* changed and changed back can go unreviewed.  The second one also needs  *)
(* sinks that do not raise, as the worker gives up the review when one     *)
(* does (SinkFails).                                                       *)
(***************************************************************************)
VersionsGrow ==
    /\ Contents \subseteq Int
    /\ \A p \in Paths : \A e \in Edits[p] : e[1] < e[2]

(***************************************************************************)
(* Versions.  Nobody knows a version that is not on disk yet, and what the *)
(* worker holds of a chunk is at least as new as what was submitted before *)
(* the chunk was read: a newer submission of one of its files cancels it.  *)
(***************************************************************************)
NotAhead(d) == \A p \in Paths : d[p] # NoDigest => d[p] <= content[p]

VersionsInv ==
    /\ NotAhead(watcher.digest)
    /\ NotAhead(pending.digest)
    /\ NotAhead(active.digest)
    /\ NotAhead(worker.read)
    /\ NotAhead(settled)
    /\ NotAhead(observed)

ReadInv ==
    \A p \in worker.chunk :
        /\ settled[p] <= worker.read[p]
        /\ ~active.cancelled =>
            /\ observed[p] <= worker.read[p]
            /\ active.digest[p] # NoDigest => active.digest[p] <= worker.read[p]
            /\ worker.pc # "record" => active.digest[p] = worker.read[p]

\* At the start everything is the initial version.
LEMMA InitVersions == VersionsGrow /\ Init => VersionsInv /\ ReadInv
<1> SUFFICES ASSUME VersionsGrow, Init PROVE VersionsInv /\ ReadInv
  OBVIOUS
<1>1. \A p \in Paths : content[p] \in Int
  BY ConstantsAssumption DEF Init, VersionsGrow
<1>2. VersionsInv
  BY <1>1 DEF Init, VersionsInv, NotAhead, IdleWatcher, IdleWorker, NoReview
<1>3. ReadInv
  BY DEF Init, ReadInv, IdleWorker
<1> QED
  BY <1>2, <1>3

\* A version read now is not ahead.
LEMMA PresentNotAhead ==
  ASSUME VersionsGrow, TypeOK, NEW d,
         \A p \in Paths : d[p] \in {NoDigest, DigestOf(p), content[p]}
  PROVE  NotAhead(d)
<1>1. \A p \in Paths : content[p] \in Int
  BY DEF TypeOK, VersionsGrow
<1> QED
  BY <1>1 DEF NotAhead, DigestOf

\* Edits only leave known versions further behind.
LEMMA ContentGrows ==
  ASSUME VersionsGrow, TypeOK, [Next]_vars
  PROVE  \A p \in Paths : content[p] \in Int /\ content'[p] \in Int
                            /\ content[p] <= content'[p]
<1>1. \A p \in Paths : content[p] \in Int
  BY DEF TypeOK, VersionsGrow
<1>2. ASSUME NEW q \in Paths, Edit(q)
      PROVE  \A p \in Paths : content'[p] \in Int /\ content[p] <= content'[p]
  <2>1. PICK c \in Contents : <<content[q], c>> \in Edits[q]
                               /\ content' = [content EXCEPT ![q] = c]
    BY <1>2 DEF Edit
  <2>2. <<content[q], c>>[1] < <<content[q], c>>[2]
    BY <2>1 DEF VersionsGrow
  <2>3. content[q] < c /\ c \in Int
    BY <2>1, <2>2 DEF VersionsGrow
  <2>4. \A p \in Paths : content'[p] = IF p = q THEN c ELSE content[p]
    BY <2>1 DEF TypeOK
  <2> QED
    BY <1>1, <2>3, <2>4
<1> QED
  BY <1>1, <1>2, Frames

\* What is not ahead stays so, whatever the step.
LEMMA NotAheadKept ==
  ASSUME VersionsGrow, TypeOK, [Next]_vars, NEW d \in [Paths -> Digests],
         NotAhead(d)
  PROVE  \A p \in Paths : d[p] # NoDigest => d[p] <= content'[p]
<1>1. \A p \in Paths : d[p] # NoDigest => d[p] \in Int
  BY DEF VersionsGrow, Digests
<1> QED
  BY <1>1, ContentGrows DEF NotAhead

\* What the watcher's thread knows, and what it has submitted.
LEMMA WatcherVersions ==
  ASSUME VersionsGrow, TypeInv, TypeInv', VersionsInv, [Next]_vars
  PROVE  NotAhead(watcher.digest)' /\ NotAhead(observed)'
<1>t. /\ watcher \in Watchers /\ watcher.digest \in [Paths -> Digests]
      /\ observed \in [Paths -> Contents] /\ observed \in [Paths -> Digests]
  BY DEF TypeInv, TypeOK, Watchers, Digests
<1>k. /\ \A p \in Paths : watcher.digest[p] # NoDigest =>
                             watcher.digest[p] <= content'[p]
      /\ \A p \in Paths : observed[p] # NoDigest => observed[p] <= content'[p]
  BY <1>t, NotAheadKept DEF TypeInv, VersionsInv
<1>1. NotAhead(watcher.digest)'
  <2>1. CASE watcher'.digest = watcher.digest
    BY <1>k, <2>1 DEF NotAhead
  <2>2. CASE \A p \in Paths : watcher'.digest[p] = NoDigest
    BY <2>2 DEF NotAhead
  <2>3. CASE ReadDigests
    <3>1. /\ content' = content
          /\ watcher'.digest = [p \in Paths |-> IF p \in watcher.paths
                                                 THEN DigestOf(p) ELSE NoDigest]
      BY <1>t, <2>3 DEF ReadDigests, Watchers
    <3> QED
      BY <3>1, PresentNotAhead DEF NotAhead, TypeInv
  <2>4. ASSUME watcher'.digest # watcher.digest, ~ReadDigests
        PROVE  \A p \in Paths : watcher'.digest[p] = NoDigest
    <3>1. ASSUME RetireMarkers \/ CloseMarkers \/ SubmitDuplicate \/ Close
          PROVE  watcher'.digest = [p \in Paths |-> NoDigest]
      <4>1. CASE RetireMarkers
        BY <4>1 DEF RetireMarkers, IdleWatcher
      <4>2. CASE CloseMarkers
        BY <4>2 DEF CloseMarkers, IdleWatcher
      <4>3. CASE SubmitDuplicate
        BY <4>3 DEF SubmitDuplicate, IdleWatcher
      <4>4. CASE Close
        BY <4>4 DEF Close, IdleWatcher
      <4> QED
        BY <3>1, <4>1, <4>2, <4>3, <4>4
    <3>2. ASSUME SubmitFollowUp
          PROVE  watcher'.digest = [p \in Paths |-> NoDigest]
      BY <3>2 DEF SubmitFollowUp, IdleWatcher
    <3>3. ASSUME TakeEvents \/ TakeHint \/ CaptureGeneration
          PROVE  watcher'.digest = watcher.digest
      BY <1>t, <3>3 DEF TakeEvents, TakeHint, CaptureGeneration, Watchers
    <3> QED
      BY <2>4, <3>1, <3>2, <3>3, Frames
  <2> QED
    BY <2>1, <2>2, <2>3, <2>4
<1>2. NotAhead(observed)'
  <2>1. CASE observed' = observed
    BY <1>k, <2>1 DEF NotAhead
  <2>2. CASE SubmitDuplicate \/ SubmitFollowUp
    <3>1. ObserveSubmitted
      BY <2>2 DEF SubmitDuplicate, SubmitFollowUp
    <3> QED
      BY <1>k, <3>1 DEF ObserveSubmitted, NotAhead
  <2> QED
    BY <2>1, <2>2, Frames
<1> QED
  BY <1>1, <1>2


\* What the follow-up knows: the watcher's digests, or the active review's.
LEMMA PendingVersions ==
  ASSUME VersionsGrow, TypeInv, TypeInv', VersionsInv, [Next]_vars
  PROVE  NotAhead(pending.digest)'
<1>t. /\ pending \in Reviews /\ active \in Reviews /\ watcher \in Watchers
      /\ pending.digest \in [Paths -> Digests] /\ active.digest \in [Paths -> Digests]
      /\ watcher.digest \in [Paths -> Digests]
  BY DEF TypeInv, TypeOK, Reviews, Watchers
<1>k. \A p \in Paths :
        /\ pending.digest[p] # NoDigest => pending.digest[p] <= content'[p]
        /\ active.digest[p] # NoDigest => active.digest[p] <= content'[p]
        /\ watcher.digest[p] # NoDigest => watcher.digest[p] <= content'[p]
  BY <1>t, NotAheadKept DEF TypeInv, VersionsInv
<1>1. CASE pending' = pending
  BY <1>k, <1>1 DEF NotAhead
<1>2. CASE SubmitFollowUp
  <2>1. pending'.digest = [p \in Paths |-> IF p \in Incoming THEN IncomingDigest(p)
                                           ELSE FollowUp.digest[p]]
    BY <1>2 DEF SubmitFollowUp
  <2>2. \A p \in Paths : FollowUp.digest[p] \in {pending.digest[p], NoDigest}
    BY DEF FollowUp, NoReview
  <2> QED
    BY <1>k, <2>1, <2>2 DEF NotAhead, IncomingDigest
<1>3. CASE Close
  BY <1>3 DEF Close, NoReview, NotAhead
<1>4. CASE TakePending
  <2>1. pending'.digest
          \in {[p \in Paths |-> NoDigest], OnPaths(pending.digest, pending.paths \ Slice)}
    BY <1>4, <1>t DEF TakePending, NoReview, Reviews
  <2> QED
    BY <1>k, <2>1 DEF OnPaths, NotAhead
<1> QED
  BY <1>1, <1>2, <1>3, <1>4, Frames

\* What the worker has read, and what the active review and the settled versions
\* take from it.
LEMMA WorkerVersions ==
  ASSUME VersionsGrow, TypeInv, TypeInv', VersionsInv, [Next]_vars
  PROVE  NotAhead(active.digest)' /\ NotAhead(worker.read)' /\ NotAhead(settled)'
<1>t. /\ pending \in Reviews /\ active \in Reviews /\ worker \in Workers
      /\ pending.digest \in [Paths -> Digests] /\ active.digest \in [Paths -> Digests]
      /\ worker.read \in [Paths -> Digests] /\ settled \in [Paths -> Digests]
  BY DEF TypeInv, TypeOK, Reviews, Workers, Digests
<1>k. \A p \in Paths :
        /\ pending.digest[p] # NoDigest => pending.digest[p] <= content'[p]
        /\ active.digest[p] # NoDigest => active.digest[p] <= content'[p]
        /\ worker.read[p] # NoDigest => worker.read[p] <= content'[p]
        /\ settled[p] # NoDigest => settled[p] <= content'[p]
  BY <1>t, NotAheadKept DEF TypeInv, VersionsInv
<1>1. NotAhead(active.digest)'
  <2>1. CASE active'.digest = active.digest
    BY <1>k, <2>1 DEF NotAhead
  <2>2. CASE TakePending
    <3>1. active'.digest = OnPaths(pending.digest, Slice)
      BY <1>t, <2>2 DEF TakePending, Reviews
    <3> QED
      BY <1>k, <3>1 DEF OnPaths, NotAhead
  <2>3. CASE UpdateDigests \/ RecordSnapshots
    <3>1. \A p \in Paths : active'.digest[p] \in {active.digest[p], worker.read[p]}
      BY <1>t, <2>3 DEF UpdateDigests, RecordSnapshots, Reviews
    <3> QED
      BY <1>k, <3>1 DEF NotAhead
  <2>4. CASE ClearActive
    BY <2>4 DEF ClearActive, NoReview, NotAhead
  <2>5. CASE Close \/ FinishWork
    BY <1>t, <2>1, <2>5 DEF Close, FinishWork, Reviews
  <2> QED
    BY <2>1, <2>2, <2>3, <2>4, <2>5, SubmissionKeepsActive, Frames DEF TypeInv
<1>2. NotAhead(worker.read)'
  <2>1. CASE worker'.read = worker.read
    BY <1>k, <2>1 DEF NotAhead
  <2>2. CASE \A p \in Paths : worker'.read[p] = NoDigest
    BY <2>2 DEF NotAhead
  <2>3. CASE RefreshDigests \/ TakeSnapshots
    <3>1. content' = content
      BY <2>3 DEF RefreshDigests, TakeSnapshots
    <3>2. ASSUME RefreshDigests
          PROVE  worker'.read = [p \in Paths |-> IF p \in active.paths
                                                 THEN DigestOf(p) ELSE NoDigest]
      BY <1>t, <3>2 DEF RefreshDigests, Workers
    <3>3. ASSUME TakeSnapshots
          PROVE  \E S : worker'.read = [p \in Paths |-> IF p \in Readable(S)
                                                        THEN content[p] ELSE NoDigest]
      BY <1>t, <3>3 DEF TakeSnapshots, Workers
    <3>4. \A p \in Paths : worker'.read[p] \in {NoDigest, DigestOf(p), content[p]}
      BY <2>3, <3>2, <3>3
    <3> QED
      BY <3>1, <3>4, PresentNotAhead DEF NotAhead, TypeInv
  <2>4. CASE \/ ProviderFails \/ ProviderSuperseded \/ Publish \/ DiscardResult
             \/ SinkFails
    BY <2>2, <2>4, ChunkEnds
  <2>5. CASE FinishWork
    BY <2>2, <2>5 DEF FinishWork, IdleWorker
  <2>6. CASE \/ TakePending \/ UpdateDigests \/ SkipUnreadable \/ RecordSnapshots
             \/ StartProvider \/ ProviderSucceeds
    BY <1>t, <2>1, <2>6
    DEF TakePending, UpdateDigests, SkipUnreadable, RecordSnapshots, StartProvider,
        ProviderSucceeds, Workers
  <2>7. CASE UnlinkMarker \/ ClearActive \/ StopWorker
    BY <1>t, <2>1, <2>7 DEF UnlinkMarker, ClearActive, StopWorker, Workers
  <2> QED
    BY <2>1, <2>2, <2>3, <2>4, <2>5, <2>6, <2>7, Frames DEF Review
<1>3. NotAhead(settled)'
  <2>1. CASE settled' = settled
    BY <1>k, <2>1 DEF NotAhead
  <2>2. CASE ProviderFails \/ Publish \/ SinkFails
    <3>1. SettleChunk
      BY <2>2 DEF ProviderFails, Publish, SinkFails
    <3> QED
      BY <1>k, <3>1 DEF SettleChunk, NotAhead
  <2>3. CASE SkipUnreadable \/ TakeSnapshots
    <3>1. /\ content' = content
          /\ \A p \in Paths : settled'[p] \in {content[p], settled[p]}
      BY <2>3 DEF SkipUnreadable, TakeSnapshots
    <3> QED
      BY <1>k, <3>1, ContentGrows DEF NotAhead, TypeInv
  <2> QED
    BY <2>1, <2>2, <2>3, Frames
<1> QED
  BY <1>1, <1>2, <1>3

\* No step makes anybody know a version before it is on disk.
LEMMA NextVersions ==
  VersionsGrow /\ TypeInv /\ TypeInv' /\ VersionsInv /\ [Next]_vars => VersionsInv'
  BY WatcherVersions, PendingVersions, WorkerVersions DEF VersionsInv


\* A path that submit leaves to a current review has the digest that the review
\* already holds.
LEMMA LeftToActive ==
  ASSUME TypeOK, IsActive, ~Supersedes,
         NEW p \in watcher.paths, p \in active.paths
  PROVE  watcher.digest[p] # NoDigest /\ watcher.digest[p] = active.digest[p]
<1>1. p \in Overlap
  BY DEF Overlap
<1>2. p \in UnchangedOverlap
  BY <1>1 DEF Supersedes, ChangedOverlap
<1> QED
  BY <1>2 DEF UnchangedOverlap

\* Every step keeps what the worker holds of a chunk as new as what was submitted.
LEMMA NextRead ==
  ASSUME VersionsGrow, TypeInv, TypeInv', ThreadsInv, ThreadsInv', VersionsInv,
         ReadInv, [Next]_vars
  PROVE  ReadInv'
<1>t. /\ pending \in Reviews /\ active \in Reviews /\ worker \in Workers
      /\ active.digest \in [Paths -> Digests] /\ worker.chunk \subseteq Paths
      /\ worker.read \in [Paths -> Digests]
  BY DEF TypeInv, TypeOK, Reviews, Workers
<1>c. worker.chunk # {} => worker.pc \in CallPcs /\ IsActive /\ IsReview(active)
  BY DEF TypeInv, SnapshotsRead, ThreadsInv, WorkerInv, WorkPcs, CallPcs, IsActive
<1>1. CASE UNCHANGED <<active, worker, settled, observed>>
  BY <1>1 DEF ReadInv
<1>2. CASE worker'.chunk = {}
  BY <1>2 DEF ReadInv
<1>3. CASE SubmitDuplicate \/ SubmitFollowUp
  <2>1. /\ UNCHANGED <<worker, settled>>
        /\ ObserveSubmitted
        /\ active'.digest = active.digest
        /\ active'.cancelled = (active.cancelled \/ Supersedes)
    BY <1>3, SubmissionKeepsActive DEF SubmitDuplicate, SubmitFollowUp, TypeInv
  <2>2. ASSUME NEW p \in worker.chunk, ~active'.cancelled
        PROVE  observed'[p] <= worker.read[p]
    <3>1. IsActive /\ p \in active.paths /\ p \in Paths
      BY <1>t, <1>c DEF ThreadsInv, WorkerInv
    <3>2. ~active.cancelled /\ ~Supersedes
      BY <2>1, <2>2
    <3>3. CASE p \in watcher.paths
      <4>1. watcher.digest[p] # NoDigest /\ watcher.digest[p] = active.digest[p]
        BY <3>1, <3>2, <3>3, LeftToActive DEF TypeInv
      <4> QED
        BY <2>1, <3>1, <3>2, <3>3, <4>1 DEF ObserveSubmitted, ReadInv
    <3>4. CASE p \notin watcher.paths
      BY <2>1, <3>1, <3>2, <3>4 DEF ObserveSubmitted, ReadInv
    <3> QED
      BY <3>3, <3>4
  <2> QED
    BY <2>1, <2>2 DEF ReadInv
<1>4. CASE Close
  <2>1. active'.cancelled = IsReview(active) /\ UNCHANGED <<worker, settled>>
    BY <1>4, <1>t DEF Close, Reviews
  <2> QED
    BY <1>c, <2>1 DEF ReadInv
<1>5. CASE TakeSnapshots
  <2>1. PICK S \in Chunks :
          /\ worker'.pc = "record"
          /\ worker'.chunk = Readable(S)
          /\ worker'.read = [p \in Paths |-> IF p \in Readable(S)
                                             THEN content[p] ELSE NoDigest]
          /\ settled' = [p \in Paths |-> IF p \in S \ Readable(S)
                                         THEN content[p] ELSE settled[p]]
    BY <1>5, <1>t DEF TakeSnapshots, Workers
  <2>2. ASSUME NEW p \in Readable(S)
        PROVE  /\ p \in Paths
               /\ worker'.read[p] = content[p]
               /\ settled'[p] = settled[p] /\ settled[p] \in Contents
               /\ observed[p] \in Contents
    BY <1>t, <2>1 DEF Readable, Chunks, Workers, TypeInv, TypeOK
  <2>3. UNCHANGED <<active, observed>>
    BY <1>5 DEF TakeSnapshots
  <2> QED
    BY <2>1, <2>2, <2>3, NullsAssumption DEF ReadInv, VersionsInv, NotAhead
<1>6. CASE RecordSnapshots
  <2>1. /\ worker'.chunk = worker.chunk /\ worker'.read = worker.read
        /\ UNCHANGED <<settled, observed>>
        /\ active'.cancelled = active.cancelled
        /\ ~active.cancelled =>
             \A p \in worker.chunk : active'.digest[p] = worker.read[p]
    BY <1>6, <1>t DEF RecordSnapshots, Workers, Reviews
  <2>2. \A p \in worker.chunk : worker.read[p] \in Int
    BY DEF TypeInv, SnapshotsRead, VersionsGrow
  <2> QED
    BY <2>1, <2>2 DEF ReadInv
<1>7. CASE StartProvider \/ ProviderSucceeds
  <2>1. /\ worker'.chunk = worker.chunk /\ worker'.read = worker.read
        /\ worker.pc # "record"
        /\ UNCHANGED <<active, settled, observed>>
    BY <1>7, <1>t DEF StartProvider, ProviderSucceeds, Workers
  <2> QED
    BY <2>1 DEF ReadInv
<1>8. CASE \/ TakePending \/ RefreshDigests \/ UpdateDigests \/ SkipUnreadable
           \/ FinishWork \/ UnlinkMarker \/ ClearActive \/ StopWorker
  <2>1. worker'.pc \notin CallPcs
    BY <1>8, <1>t DEF TakePending, RefreshDigests, UpdateDigests, SkipUnreadable,
       FinishWork, UnlinkMarker, ClearActive, StopWorker, Workers, CallPcs, IdleWorker
  <2> QED
    BY <1>2, <2>1 DEF TypeInv, SnapshotsRead, CallPcs
<1>9. CASE \/ ProviderFails \/ ProviderSuperseded \/ Publish \/ DiscardResult
           \/ SinkFails
  BY <1>2, <1>9, ChunkEnds
<1> QED
  BY <1>1, <1>3, <1>4, <1>5, <1>6, <1>7, <1>8, <1>9, Frames DEF Review

\* All of it together.
ChangesInv == TypeInv /\ FollowUpInv /\ ThreadsInv /\ VersionsInv /\ ReadInv

\* It holds initially, ...
LEMMA InitChanges == VersionsGrow /\ Init => ChangesInv
  BY InitTypes, InitFollowUp, InitThreads, InitVersions DEF ChangesInv

\* ... and every step of the two threads and of their environment keeps it.
LEMMA NextChanges == VersionsGrow /\ ChangesInv /\ [Next]_vars => ChangesInv'
  BY NextTypes, NextFollowUp, NextThreads, NextVersions, NextRead DEF ChangesInv

\* A publication never covers an older version of a file than the main thread has
\* submitted, for any number of files and any timing of snapshots and submissions.
THEOREM PublicationCorrect ==
  ASSUME VersionsGrow
  PROVE  Spec => PublishedIsNewestObserved
<1>1. ChangesInv /\ [Next]_vars =>
        [Publish => \A p \in worker.chunk : worker.read[p] >= observed[p]]_vars
  <2> SUFFICES ASSUME ChangesInv, Publish, NEW p \in worker.chunk
               PROVE  worker.read[p] >= observed[p]
    OBVIOUS
  <2>1. observed[p] <= worker.read[p]
    BY DEF ChangesInv, ReadInv, Publish
  <2>2. observed[p] \in Int /\ worker.read[p] \in Int
    BY DEF ChangesInv, TypeInv, TypeOK, SnapshotsRead, Workers, VersionsGrow
  <2> QED
    BY <2>1, <2>2
<1> QED
  BY <1>1, InitChanges, NextChanges, PTL DEF Spec, PublishedIsNewestObserved


(***************************************************************************)
(* No lost change.  The hard case is a submission that is dropped because  *)
(* the active review already covers its bytes: that review has to be about *)
(* those bytes, whatever part of it is done.                               *)
(***************************************************************************)
DoneInv ==
    worker.pc \in {"chunk"} \union CallPcs /\ ~active.cancelled =>
        \A p \in active.paths \ (worker.todo \union worker.chunk) :
            active.digest[p] # NoDigest => active.digest[p] <= settled[p]

\* What is done of a review is settled with what the review holds of it, or newer.
LEMMA NextDone ==
  ASSUME VersionsGrow, SinkFaults = FALSE,
         ChangesInv, ChangesInv', DoneInv, [Next]_vars
  PROVE  DoneInv'
<1>t. /\ pending \in Reviews /\ active \in Reviews /\ worker \in Workers
      /\ active.digest \in [Paths -> Digests] /\ worker.chunk \subseteq Paths
      /\ worker.read \in [Paths -> Digests] /\ active.paths \subseteq Paths
      /\ settled \in [Paths -> Contents]
  BY DEF ChangesInv, TypeInv, TypeOK, Reviews, Workers
<1>1. CASE UNCHANGED <<active, worker, settled>>
  BY <1>1 DEF DoneInv
<1>2. CASE worker'.pc \notin {"chunk"} \union CallPcs
  BY <1>2 DEF DoneInv
<1>3. CASE SubmitDuplicate \/ SubmitFollowUp
  <2>1. /\ UNCHANGED <<worker, settled>>
        /\ active'.paths = active.paths
        /\ active'.digest = active.digest
        /\ active'.cancelled = (active.cancelled \/ Supersedes)
    BY <1>3, SubmissionKeepsActive
    DEF SubmitDuplicate, SubmitFollowUp, ChangesInv, TypeInv
  <2> QED
    BY <2>1 DEF DoneInv
<1>4. CASE Close
  <2>1. /\ active'.cancelled = IsReview(active)
        /\ active'.paths = active.paths /\ UNCHANGED <<worker, settled>>
    BY <1>4, <1>t DEF Close, Reviews
  <2> QED
    BY <2>1 DEF DoneInv, IsReview
<1>5. CASE UpdateDigests
  <2>1. worker'.todo = active'.paths
    BY <1>5, <1>t DEF UpdateDigests, Workers, Reviews
  <2> QED
    BY <2>1 DEF DoneInv
<1>6. CASE SkipUnreadable \/ TakeSnapshots
  <2>1. PICK S \in Chunks :
          /\ worker'.todo = worker.todo \ S
          /\ S \subseteq worker'.chunk \union Paths
          /\ \A p \in S \ worker'.chunk : settled'[p] = content[p]
          /\ \A p \in Paths \ S : settled'[p] = settled[p]
    <3>1. CASE SkipUnreadable
      <4>1. PICK S \in Chunks :
              /\ worker' = [worker EXCEPT !.todo = worker.todo \ S]
              /\ settled' = [p \in Paths |-> IF p \in S THEN content[p] ELSE settled[p]]
        BY <3>1 DEF SkipUnreadable
      <4>2. S \subseteq Paths
        BY <1>t DEF Chunks, Workers
      <4> QED
        BY <1>t, <4>1, <4>2 DEF Workers
    <3>2. CASE TakeSnapshots
      <4>1. PICK S \in Chunks :
              /\ worker'.todo = worker.todo \ S
              /\ worker'.chunk = Readable(S)
              /\ settled' = [p \in Paths |-> IF p \in S \ Readable(S)
                                             THEN content[p] ELSE settled[p]]
        BY <1>t, <3>2 DEF TakeSnapshots, Workers
      <4>2. S \subseteq Paths /\ Readable(S) \subseteq S
        BY <1>t DEF Chunks, Workers, Readable
      <4> QED
        BY <4>1, <4>2
    <3> QED
      BY <1>6, <3>1, <3>2
  <2>2. UNCHANGED active /\ worker.pc = "chunk" /\ worker.chunk = {}
    BY <1>6 DEF SkipUnreadable, TakeSnapshots, ChangesInv, TypeInv, SnapshotsRead
  <2>3. \A p \in Paths : active.digest[p] # NoDigest => active.digest[p] <= content[p]
    BY DEF ChangesInv, VersionsInv, NotAhead
  <2>4. ASSUME ~active.cancelled,
               NEW p \in active.paths \ (worker'.todo \union worker'.chunk),
               active.digest[p] # NoDigest
        PROVE  active.digest[p] <= settled'[p]
    <3>1. CASE p \in S
      BY <1>t, <2>1, <2>3, <2>4, <3>1
    <3>2. CASE p \notin S
      <4>1. p \in active.paths \ (worker.todo \union worker.chunk)
        BY <2>1, <2>2, <2>4, <3>2
      <4> QED
        BY <1>t, <2>1, <2>2, <2>4, <3>2, <4>1 DEF DoneInv
    <3> QED
      BY <3>1, <3>2
  <2> QED
    BY <2>2, <2>4 DEF DoneInv
<1>7. CASE RecordSnapshots
  <2>1. /\ worker'.todo = worker.todo /\ worker'.chunk = worker.chunk
        /\ worker.pc = "record"
        /\ UNCHANGED settled
        /\ active'.paths = active.paths /\ active'.cancelled = active.cancelled
        /\ \A p \in Paths \ worker.chunk : active'.digest[p] = active.digest[p]
    BY <1>7, <1>t DEF RecordSnapshots, Workers, Reviews
  <2> QED
    BY <1>t, <2>1 DEF DoneInv, CallPcs
<1>8. CASE StartProvider \/ ProviderSucceeds
  <2>1. /\ worker'.chunk = worker.chunk /\ worker'.todo = worker.todo
        /\ worker.pc \in CallPcs
        /\ UNCHANGED <<active, settled>>
    BY <1>8, <1>t DEF StartProvider, ProviderSucceeds, Workers, CallPcs
  <2> QED
    BY <2>1 DEF DoneInv
<1>9. CASE ProviderFails \/ Publish
  <2>1. SettleChunk
    BY <1>9 DEF ProviderFails, Publish
  <2>2. /\ worker.pc \in {"provider", "publish"}
        /\ worker'.todo = worker.todo /\ worker'.chunk = {}
        /\ UNCHANGED active
    BY <1>9, ChunkEnds DEF ChangesInv, SinkFails, ProviderFails, Publish
  <2>3. ASSUME ~active.cancelled, NEW p \in worker.chunk
        PROVE  active.digest[p] <= settled'[p]
    <3>1. settled'[p] = worker.read[p] /\ active.digest[p] = worker.read[p]
      BY <1>t, <2>1, <2>2, <2>3 DEF SettleChunk, ChangesInv, ReadInv
    <3>2. worker.read[p] \in Int
      BY DEF ChangesInv, TypeInv, SnapshotsRead, VersionsGrow
    <3> QED
      BY <3>1, <3>2
  <2>4. \A p \in Paths \ worker.chunk : settled'[p] = settled[p]
    BY <2>1 DEF SettleChunk
  <2> QED
    BY <1>t, <2>2, <2>3, <2>4 DEF DoneInv, CallPcs
<1>10. CASE ProviderSuperseded \/ DiscardResult
  <2>1. worker.pc \in CallPcs /\ UNCHANGED active
    BY <1>10 DEF ProviderSuperseded, DiscardResult, CallPcs
  <2>2. active.cancelled
    BY <1>10, <2>1
    DEF ProviderSuperseded, DiscardResult, ChangesInv, ThreadsInv, WorkerInv, WorkPcs,
        IsActive
  <2> QED
    BY <2>1, <2>2 DEF DoneInv
<1>11. ~SinkFails
  BY DEF SinkFails
<1>12. CASE \/ TakePending \/ RefreshDigests \/ FinishWork \/ UnlinkMarker
            \/ ClearActive \/ StopWorker
  <2>1. worker'.pc \notin {"chunk"} \union CallPcs
    BY <1>12, <1>t DEF TakePending, RefreshDigests, FinishWork, UnlinkMarker,
       ClearActive, StopWorker, Workers, CallPcs, IdleWorker
  <2> QED
    BY <1>2, <2>1
<1> QED
  BY <1>1, <1>3, <1>4, <1>5, <1>6, <1>7, <1>8, <1>9, <1>10, <1>11, <1>12, Frames
  DEF Review


\* Where the present version of p is on its way, or has arrived.
Covered(p) ==
    \/ settled[p] = content[p]
    \/ p \in dirty
    \/ /\ p \in watcher.paths
       /\ watcher.pc = "read" \/ watcher.digest[p] = DigestOf(p)
    \/ p \in pending.paths
    \/ UnderReview(p)

\* A submitted path that is left to the active review, with its present bytes, is
\* in good hands.
LEMMA LeftIsCovered ==
  ASSUME VersionsGrow, ChangesInv, DoneInv, ~stopping, IsActive, ~Supersedes,
         NEW p \in watcher.paths, p \in active.paths,
         watcher.digest[p] = DigestOf(p)
  PROVE  settled[p] = content[p] \/ p \in pending.paths \/ UnderReview(p)
<1>p. p \in Paths /\ worker \in Workers
  BY DEF ChangesInv, TypeInv, TypeOK, Watchers
<1>t. content[p] \in Int /\ settled[p] \in Int /\ settled[p] # NoDigest
  BY <1>p, NullsAssumption DEF ChangesInv, TypeInv, TypeOK, VersionsGrow
<1>1. active.digest[p] = content[p] /\ active.digest[p] # NoDigest
  BY <1>p, <1>t, LeftToActive DEF DigestOf, ChangesInv, TypeInv
<1>2. CASE active.cancelled
  BY <1>2 DEF ChangesInv, FollowUpInv, FollowUpComplementsActive
<1>3. CASE ~active.cancelled
  <2>1. worker.pc \in WorkPcs
    BY <1>p DEF ChangesInv, ThreadsInv, WorkerInv, WorkPcs, CallPcs, Workers,
       WorkerStates, IsActive
  <2>2. CASE worker.pc \in {"refresh", "update"} \/ p \in worker.todo
    BY <1>3, <2>2 DEF UnderReview
  <2>3. CASE p \in worker.chunk
    <3>1. active.digest[p] <= worker.read[p]
      BY <1>1, <1>3, <2>3 DEF ChangesInv, ReadInv
    <3>2. worker.read[p] \in Int /\ worker.read[p] <= content[p]
      BY <1>p, <1>t, <2>3, NullsAssumption
      DEF ChangesInv, TypeInv, SnapshotsRead, VersionsInv, NotAhead, VersionsGrow
    <3>3. worker.read[p] = content[p]
      BY <1>t, <1>1, <3>1, <3>2
    <3> QED
      BY <1>3, <2>3, <3>3 DEF UnderReview
  <2>4. CASE /\ worker.pc \in {"chunk"} \union CallPcs
             /\ p \notin worker.todo \union worker.chunk
    <3>1. active.digest[p] <= settled[p]
      BY <1>1, <1>3, <2>4 DEF DoneInv
    <3>2. settled[p] <= content[p]
      BY <1>p, <1>t DEF ChangesInv, VersionsInv, NotAhead
    <3> QED
      BY <1>t, <1>1, <3>1, <3>2
  <2> QED
    BY <2>1, <2>2, <2>3, <2>4 DEF WorkPcs
<1> QED
  BY <1>2, <1>3

\* The main thread's steps lose no change.
LEMMA WatcherCovers ==
  ASSUME VersionsGrow, ChangesInv, DoneInv, [Next]_vars,
         NEW p \in Paths, Covered(p), ~stopping,
         \/ TakeEvents \/ TakeHint \/ ReadDigests \/ CaptureGeneration
         \/ RetireMarkers \/ CloseMarkers \/ SubmitDuplicate \/ SubmitFollowUp
  PROVE  Covered(p)'
<1>t. /\ watcher \in Watchers /\ active \in Reviews /\ pending \in Reviews
  BY DEF ChangesInv, TypeInv, TypeOK
<1>1. ASSUME UNCHANGED <<content, settled, pending, active, worker>>
      PROVE  /\ settled[p] = content[p] => Covered(p)'
             /\ p \in pending.paths => Covered(p)'
             /\ UnderReview(p) => Covered(p)'
  BY <1>1 DEF Covered, UnderReview, IsActive, IsReview
<1>2. CASE TakeEvents
  <2>1. PICK S \in (SUBSET dirty) \ {{}} :
          watcher'.pc = "read" /\ watcher'.paths = S /\ dirty' = dirty \ S
    BY <1>2, <1>t DEF TakeEvents, Watchers
  <2>2. watcher.paths = {}
    BY <1>2 DEF TakeEvents, ChangesInv, ThreadsInv
  <2> QED
    BY <1>1, <1>2, <2>1, <2>2 DEF TakeEvents, Covered
<1>3. CASE TakeHint
  <2>1. PICK S \in (SUBSET Paths) \ {{}} :
          /\ watcher'.pc = "read" /\ watcher'.paths = S
          /\ \E D \in SUBSET (dirty \intersect S) : dirty' = dirty \ D
    BY <1>3, <1>t DEF TakeHint, Watchers
  <2>2. watcher.paths = {}
    BY <1>3 DEF TakeHint, ChangesInv, ThreadsInv
  <2> QED
    BY <1>1, <1>3, <2>1, <2>2 DEF TakeHint, Covered
<1>4. CASE ReadDigests
  <2>1. /\ watcher'.paths = watcher.paths
        /\ p \in watcher.paths => watcher'.digest[p] = DigestOf(p)
        /\ UNCHANGED <<content, dirty>>
    BY <1>4, <1>t DEF ReadDigests, Watchers
  <2> QED
    BY <1>1, <1>4, <2>1 DEF ReadDigests, Covered, DigestOf
<1>5. CASE CaptureGeneration
  <2>1. /\ watcher'.paths = watcher.paths /\ watcher'.digest = watcher.digest
        /\ watcher.pc = "capture"
        /\ UNCHANGED <<content, dirty>>
    BY <1>5, <1>t DEF CaptureGeneration, Watchers
  <2> QED
    BY <1>1, <1>5, <2>1 DEF CaptureGeneration, Covered, DigestOf
<1>6. CASE RetireMarkers \/ CloseMarkers
  <2>1. watcher.paths = {}
    BY <1>6 DEF RetireMarkers, CloseMarkers, ChangesInv, ThreadsInv
  <2> QED
    BY <1>1, <1>6, <2>1 DEF RetireMarkers, CloseMarkers, Covered
<1>7. CASE SubmitDuplicate \/ SubmitFollowUp
  <2>1. /\ UNCHANGED <<content, dirty, settled, worker>>
        /\ watcher.pc = "submit"
        /\ active'.paths = active.paths
        /\ active'.finishing = active.finishing
        /\ active'.cancelled = (active.cancelled \/ Supersedes)
    BY <1>7, SubmissionKeepsActive
    DEF SubmitDuplicate, SubmitFollowUp, ChangesInv, TypeInv
  <2>2. pending.paths \union Incoming \subseteq pending'.paths
    <3>1. CASE SubmitDuplicate
      BY <3>1 DEF SubmitDuplicate
    <3>2. CASE SubmitFollowUp
      <4>1. pending'.paths = FollowUp.paths \union Incoming
        BY <3>2 DEF SubmitFollowUp
      <4> QED
        BY <4>1 DEF FollowUp, NoReview, IsReview
    <3> QED
      BY <1>7, <3>1, <3>2
  <2>3. CASE settled[p] = content[p] \/ p \in dirty \/ p \in pending.paths
    BY <2>1, <2>2, <2>3 DEF Covered
  <2>4. CASE UnderReview(p)
    <3>1. IsActive /\ p \in active.paths
      BY <2>4 DEF UnderReview, ChangesInv, ThreadsInv, WorkerInv
    <3>2. CASE Supersedes
      <4>1. p \in Incoming
        BY <3>1, <3>2 DEF Incoming
      <4> QED
        BY <2>2, <4>1 DEF Covered
    <3>3. CASE ~Supersedes
      BY <2>1, <2>4, <3>3 DEF Covered, UnderReview, IsActive, IsReview
    <3> QED
      BY <3>2, <3>3
  <2>5. CASE p \in watcher.paths /\ watcher.digest[p] = DigestOf(p)
    <3>1. CASE p \in Incoming
      BY <2>2, <3>1 DEF Covered
    <3>2. CASE p \notin Incoming
      <4>1. p \in UnchangedOverlap
        BY <2>5, <3>2 DEF Incoming
      <4>2. IsActive /\ p \in active.paths
        BY <4>1 DEF UnchangedOverlap, Overlap
      <4>3. ~Supersedes
        BY <3>2, <4>2 DEF Incoming
      <4>4. settled[p] = content[p] \/ p \in pending.paths \/ UnderReview(p)
        BY <2>5, <4>2, <4>3, LeftIsCovered
      <4> QED
        BY <2>1, <2>3, <4>3, <4>4 DEF Covered, UnderReview, IsActive, IsReview
    <3> QED
      BY <3>1, <3>2
  <2> QED
    BY <2>1, <2>3, <2>4, <2>5 DEF Covered
<1> QED
  BY <1>2, <1>3, <1>4, <1>5, <1>6, <1>7


\* The worker's steps lose no change.
LEMMA WorkerCovers ==
  ASSUME VersionsGrow, SinkFaults = FALSE, ChangesInv, ChangesInv', [Next]_vars,
         NEW p \in Paths, Covered(p), ~stopping, Review
  PROVE  Covered(p)'
<1>t. /\ watcher \in Watchers /\ active \in Reviews /\ pending \in Reviews
      /\ worker \in Workers /\ worker.chunk \subseteq Paths
  BY DEF ChangesInv, TypeInv, TypeOK, Workers
<1>w. UNCHANGED <<content, dirty, watcher>>
  BY Frames DEF Review, TakePending, RefreshDigests, UpdateDigests, SkipUnreadable,
     TakeSnapshots, RecordSnapshots, StartProvider, ProviderSucceeds, ProviderFails,
     ProviderSuperseded, Publish, DiscardResult, SinkFails, FinishWork, UnlinkMarker,
     ClearActive, StopWorker
<1>1. CASE TakePending
  <2>1. /\ active'.paths = Slice /\ ~active'.cancelled /\ ~active'.finishing
        /\ pending'.paths = pending.paths \ Slice
        /\ worker'.pc = "refresh"
        /\ settled' = settled
    BY <1>1, <1>t
    DEF TakePending, Reviews, Workers, NoReview, ChangesInv, FollowUpInv
  <2>2. ~UnderReview(p)
    BY <1>1 DEF TakePending, ChangesInv, ThreadsInv, WorkerInv, UnderReview, IsActive
  <2>3. CASE p \in pending.paths
    BY <2>1, <2>3 DEF Covered, UnderReview, IsActive, IsReview
  <2> QED
    BY <1>w, <2>1, <2>2, <2>3 DEF Covered, DigestOf
<1>2. ASSUME UNCHANGED <<settled, pending>>, UnderReview(p) => UnderReview(p)'
      PROVE  Covered(p)'
  BY <1>w, <1>2 DEF Covered, DigestOf
<1>3. CASE RefreshDigests
  <2>1. /\ worker'.pc = "update" /\ worker'.todo = worker.todo
        /\ worker'.chunk = worker.chunk /\ worker.chunk = {}
        /\ UNCHANGED <<settled, pending, active>>
    BY <1>3, <1>t DEF RefreshDigests, Workers, ChangesInv, TypeInv, SnapshotsRead
  <2> QED
    BY <1>2, <2>1 DEF UnderReview, IsActive, IsReview
<1>4. CASE UpdateDigests
  <2>1. /\ active'.paths = active.paths
        /\ active'.cancelled = active.cancelled
        /\ active'.finishing = active.finishing
        /\ worker'.todo = active.paths
        /\ worker.chunk = {} /\ worker.todo = {}
        /\ UNCHANGED <<settled, pending>>
    BY <1>4, <1>t DEF UpdateDigests, Reviews, Workers, ChangesInv, TypeInv,
       SnapshotsRead, ThreadsInv, WorkerInv, CallPcs
  <2> QED
    BY <1>2, <2>1 DEF UnderReview, IsActive, IsReview
<1>5. CASE SkipUnreadable
  <2>1. PICK S \in Chunks :
          /\ worker'.todo = worker.todo \ S
          /\ settled' = [q \in Paths |-> IF q \in S THEN content[q] ELSE settled[q]]
    BY <1>5, <1>t DEF SkipUnreadable, Workers
  <2>2. /\ UNCHANGED <<active, pending>>
        /\ worker.pc = "chunk" /\ worker.chunk = {}
    BY <1>5 DEF SkipUnreadable, ChangesInv, TypeInv, SnapshotsRead
  <2>3. UnderReview(p) => settled'[p] = content[p] \/ UnderReview(p)'
    BY <2>1, <2>2 DEF UnderReview, IsActive, IsReview
  <2>4. settled[p] = content[p] => settled'[p] = content[p]
    BY <2>1
  <2> QED
    BY <1>w, <2>2, <2>3, <2>4 DEF Covered, DigestOf
<1>6. CASE TakeSnapshots
  <2>1. PICK S \in Chunks :
          /\ worker'.todo = worker.todo \ S
          /\ worker'.chunk = Readable(S)
          /\ worker'.read = [q \in Paths |-> IF q \in Readable(S)
                                             THEN content[q] ELSE NoDigest]
          /\ settled' = [q \in Paths |-> IF q \in S \ Readable(S)
                                         THEN content[q] ELSE settled[q]]
    BY <1>6, <1>t DEF TakeSnapshots, Workers
  <2>2. /\ UNCHANGED <<active, pending>>
        /\ worker.pc = "chunk" /\ worker.chunk = {}
    BY <1>6 DEF TakeSnapshots, ChangesInv, TypeInv, SnapshotsRead
  <2>3. UnderReview(p) => settled'[p] = content[p] \/ UnderReview(p)'
    BY <1>w, <2>1, <2>2 DEF UnderReview, IsActive, IsReview
  <2>4. settled[p] = content[p] => settled'[p] = content[p]
    BY <2>1
  <2> QED
    BY <1>w, <2>2, <2>3, <2>4 DEF Covered, DigestOf
<1>7. CASE RecordSnapshots
  <2>1. /\ active'.paths = active.paths
        /\ active'.cancelled = active.cancelled
        /\ active'.finishing = active.finishing
        /\ worker'.todo = worker.todo /\ worker'.chunk = worker.chunk
        /\ worker'.read = worker.read /\ worker.pc = "record"
        /\ UNCHANGED <<settled, pending>>
    BY <1>7, <1>t DEF RecordSnapshots, Reviews, Workers
  <2> QED
    BY <1>2, <1>w, <2>1 DEF UnderReview, IsActive, IsReview
<1>8. CASE StartProvider \/ ProviderSucceeds
  <2>1. /\ worker'.todo = worker.todo /\ worker'.chunk = worker.chunk
        /\ worker'.read = worker.read /\ worker.pc \in {"start", "provider"}
        /\ UNCHANGED <<active, settled, pending>>
    BY <1>8, <1>t DEF StartProvider, ProviderSucceeds, Workers
  <2> QED
    BY <1>2, <1>w, <2>1 DEF UnderReview, IsActive, IsReview
<1>9. CASE ProviderFails \/ Publish
  <2>1. SettleChunk
    BY <1>9 DEF ProviderFails, Publish
  <2>2. /\ worker'.todo = worker.todo /\ UNCHANGED <<active, pending>>
        /\ worker.pc \in {"provider", "publish"}
    BY <1>9, ChunkEnds DEF ChangesInv, SinkFails, ProviderFails, Publish
  <2>3. UnderReview(p) => settled'[p] = content[p] \/ UnderReview(p)'
    BY <2>1, <2>2 DEF SettleChunk, UnderReview, IsActive, IsReview
  <2>4. ASSUME settled[p] = content[p] PROVE settled'[p] = content[p]
    <3>1. CASE p \notin worker.chunk
      BY <2>1, <2>4, <3>1 DEF SettleChunk
    <3>2. CASE p \in worker.chunk
      <4>1. settled[p] <= worker.read[p] /\ worker.read[p] \in Contents
        BY <3>2 DEF ChangesInv, ReadInv, TypeInv, SnapshotsRead
      <4>2. worker.read[p] <= content[p]
        BY <4>1, NullsAssumption DEF ChangesInv, VersionsInv, NotAhead
      <4>3. content[p] \in Int /\ worker.read[p] \in Int
        BY <4>1 DEF ChangesInv, TypeInv, TypeOK, VersionsGrow
      <4> QED
        BY <2>1, <2>4, <3>2, <4>1, <4>2, <4>3 DEF SettleChunk
    <3> QED
      BY <3>1, <3>2
  <2> QED
    BY <1>w, <2>2, <2>3, <2>4 DEF Covered, DigestOf
<1>10. CASE ProviderSuperseded \/ DiscardResult
  <2>1. active.cancelled /\ UNCHANGED <<settled, pending>>
    BY <1>10 DEF ProviderSuperseded, DiscardResult
  <2> QED
    BY <1>2, <2>1 DEF UnderReview
<1>11. ~SinkFails
  BY DEF SinkFails
<1>12. CASE FinishWork
  <2>1. /\ active.cancelled \/ worker.todo = {}
        /\ worker.pc = "chunk" /\ worker.chunk = {}
        /\ UNCHANGED <<settled, pending>>
    BY <1>12 DEF FinishWork, ChangesInv, TypeInv, SnapshotsRead
  <2> QED
    BY <1>2, <2>1 DEF UnderReview
<1>13. CASE UnlinkMarker \/ ClearActive \/ StopWorker
  <2>1. ~IsActive /\ UNCHANGED <<settled, pending>>
    BY <1>13 DEF UnlinkMarker, ClearActive, StopWorker, ChangesInv, ThreadsInv,
       WorkerInv, IsActive
  <2> QED
    BY <1>2, <2>1 DEF UnderReview
<1> QED
  BY <1>1, <1>3, <1>4, <1>5, <1>6, <1>7, <1>8, <1>9, <1>10, <1>11, <1>12, <1>13
  DEF Review

\* No step loses a change.
LEMMA NextNoLostChange ==
  ASSUME VersionsGrow, SinkFaults = FALSE,
         ChangesInv, ChangesInv', DoneInv, NoLostChange, [Next]_vars
  PROVE  NoLostChange'
<1> SUFFICES ASSUME ~stopping', NEW p \in Paths PROVE Covered(p)'
  BY DEF NoLostChange, Covered
<1>1. ~stopping
  BY Frames DEF Close
<1>2. Covered(p)
  BY <1>1 DEF NoLostChange, Covered
<1>3. CASE UNCHANGED <<content, dirty, watcher, pending, active, worker, settled>>
  BY <1>2, <1>3 DEF Covered, DigestOf, UnderReview, IsActive, IsReview
<1>4. ASSUME NEW q \in Paths, Edit(q) PROVE Covered(p)'
  <2>1. dirty' = dirty \union {q}
        /\ UNCHANGED <<watcher, pending, active, worker, settled>>
    BY <1>4 DEF Edit
  <2>2. p # q => content'[p] = content[p]
    BY <1>4 DEF Edit, ChangesInv, TypeInv, TypeOK
  <2> QED
    BY <1>2, <2>1, <2>2 DEF Covered, DigestOf, UnderReview, IsActive, IsReview
<1>5. ~Close
  BY DEF Close
<1> QED
  BY <1>1, <1>2, <1>3, <1>4, <1>5, WatcherCovers, WorkerCovers
  DEF Next, vars, Environment, BindSession, ReleaseSession, Submission

\* As long as versions only grow and no sink raises, no change of a file falls between
\* the notification queue, the main thread, the follow-up and the active review, for
\* any number of files and sessions and however the threads interleave.
THEOREM NoLostChangeCorrect ==
  ASSUME VersionsGrow, SinkFaults = FALSE
  PROVE  Spec => []NoLostChange
<1>1. Init => DoneInv /\ NoLostChange
  BY DEF Init, DoneInv, CallPcs, IdleWorker, NoLostChange
<1>2. ChangesInv /\ DoneInv /\ NoLostChange /\ [Next]_vars =>
        ChangesInv' /\ DoneInv' /\ NoLostChange'
  BY NextChanges, NextDone, NextNoLostChange
<1> QED
  BY <1>1, <1>2, InitChanges, PTL DEF Spec

================================================================================
