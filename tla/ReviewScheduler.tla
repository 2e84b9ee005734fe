---------------------------- MODULE ReviewScheduler ----------------------------
(***************************************************************************)
(* CoalescingReviewScheduler of watch_files.py: the watcher's main thread  *)
(* drains change notifications and submits them, one provider worker runs  *)
(* a review at a time, and at most one follow-up is retained.  The module  *)
(* composes the scheduler with what it is driven by: edits to the watched  *)
(* files, the main loop that reads digests outside the scheduler's lock,   *)
(* the route's session generation, which hooks of other processes change,  *)
(* and the in-flight markers that those hooks look for.                    *)
(*                                                                         *)
(* One critical section of self._condition is one action; reads of files   *)
(* and of the route, which happen outside it, are actions of their own.    *)
(***************************************************************************)
EXTENDS Integers, FiniteSets

CONSTANTS
    Paths,          \* canonical watched paths
    Contents,       \* versions of a file's bytes
    Unreadable,     \* the versions that cannot be read (deleted, not UTF-8, too large)
    Edits,          \* Edits[p]: the pairs <<old, new>> of versions an edit of p may take
    InitialContent,
    Agents,         \* real agent sessions
    Markers,        \* names of in-flight marker files (bound: reused once unlinked)
    ReviewLimit,    \* MAX_REVIEWED_FILES: files of one provider call
    MaxGeneration,  \* bound on the number of session generations
    Interruptible,  \* where in its loop the main thread may get KeyboardInterrupt
    SinkFaults,     \* whether a feedback sink may raise
    NoDigest, NoAgent, NoMarker

VARIABLES
    content,    \* the files on disk
    dirty,      \* paths with a notification the main thread has not yet taken
    session,    \* the route's session state file
    inflight,   \* in-flight marker files: the agent each names, NoAgent if absent
    watcher,    \* the main thread
    pending,    \* self._pending; no paths when it is None
    active,     \* self._active; no paths when it is None
    worker,     \* the provider worker
    stopping,   \* self._stopping
    settled,    \* history: the version each path's last unsuperseded review read
    observed    \* history: the last readable version of each path given to submit

vars == <<content, dirty, session, inflight, watcher, pending, active, worker,
          stopping, settled, observed>>

NoGeneration == -1

Digests == Contents \union {NoDigest}
AgentIds == Agents \union {NoAgent}
MarkerIds == Markers \union {NoMarker}
Generations == 0 .. MaxGeneration
CapturedGenerations == Generations \union {NoGeneration}

ASSUME ReviewLimitAssumption == ReviewLimit \in Nat \ {0}

ASSUME ConstantsAssumption ==
    /\ MaxGeneration \in Nat
    /\ Unreadable \subseteq Contents
    /\ InitialContent \in Contents
    /\ Edits \in [Paths -> SUBSET (Contents \X Contents)]
    /\ SinkFaults \in BOOLEAN
    /\ Interruptible \subseteq {"idle", "read", "capture", "submit", "retire"}

ASSUME NullsAssumption ==
    /\ NoDigest \notin Contents
    /\ NoAgent \notin Agents
    /\ NoMarker \notin Markers

(***************************************************************************)
(* Files, the route and the markers.                                       *)
(***************************************************************************)
\* current_path_digests: an unreadable file has no digest.
DigestOf(p) == IF content[p] \in Unreadable THEN NoDigest ELSE content[p]

OnPaths(digest, S) == [p \in Paths |-> IF p \in S THEN digest[p] ELSE NoDigest]

Readable(S) == {p \in S : content[p] \notin Unreadable}

\* SpoolSink.capture_session_generation.
CapturedGeneration ==
    IF session.state = "closed" THEN NoGeneration ELSE session.generation

\* _session_is_owned.
Owns(a) == a # NoAgent /\ session.state = "bound" /\ session.agent = a

FreeMarkers == {m \in Markers : inflight[m] = NoAgent}

\* SpoolSink.begin_review: a marker only for the agent that owns the route.
BegunMarker(a) ==
    IF Owns(a) THEN CHOOSE m \in FreeMarkers : TRUE ELSE NoMarker

WithMarker(m, a) ==
    [i \in Markers |-> IF i = m THEN a ELSE inflight[i]]

\* SpoolSink.finish_review of every marker of M.
WithoutMarkers(M) ==
    [i \in Markers |-> IF i \in M THEN NoAgent ELSE inflight[i]]

(***************************************************************************)
(* Reviews.  ScheduledReview's fields; the null review stands for None.    *)
(***************************************************************************)
NoReview ==
    [paths |-> {}, digest |-> [p \in Paths |-> NoDigest],
     agent |-> NoAgent, generation |-> NoGeneration, marker |-> NoMarker,
     priority |-> {}, cancelled |-> FALSE, finishing |-> FALSE]

IsReview(r) == r.paths # {}

Reviews ==
    [paths : SUBSET Paths, digest : [Paths -> Digests], agent : AgentIds,
     generation : CapturedGenerations, marker : MarkerIds,
     priority : SUBSET Paths, cancelled : BOOLEAN, finishing : BOOLEAN]

IdleWatcher ==
    [pc |-> "idle", paths |-> {}, digest |-> [p \in Paths |-> NoDigest],
     agent |-> NoAgent, generation |-> NoGeneration, retiring |-> {}]

IdleWorker ==
    [pc |-> "waiting", read |-> [p \in Paths |-> NoDigest], todo |-> {},
     chunk |-> {}, generation |-> NoGeneration, started |-> 0,
     marker |-> NoMarker]

Init ==
    /\ content = [p \in Paths |-> InitialContent]
    /\ dirty = {}
    /\ session = [state |-> "unbound", generation |-> 0, agent |-> NoAgent]
    /\ inflight = [m \in Markers |-> NoAgent]
    /\ watcher = IdleWatcher
    /\ pending = NoReview
    /\ active = NoReview
    /\ worker = IdleWorker
    /\ stopping = FALSE
    /\ settled = content
    /\ observed = content

(***************************************************************************)
(* The environment: editors and the hooks of other processes.              *)
(***************************************************************************)
\* An edit, and the watchdog notification that ChangeHandler puts in the queue.
Edit(p) ==
    /\ \E c \in Contents :
        /\ <<content[p], c>> \in Edits[p]
        /\ content' = [content EXCEPT ![p] = c]
    /\ dirty' = dirty \union {p}
    /\ UNCHANGED <<session, inflight, watcher, pending, active, worker,
                   stopping, settled, observed>>

\* verify_session_lease of a hook: binds an unbound or closed route.
BindSession(a) ==
    /\ session.state # "bound"
    /\ session' = [session EXCEPT !.state = "bound", !.agent = a]
    /\ UNCHANGED <<content, dirty, inflight, watcher, pending, active, worker,
                   stopping, settled, observed>>

\* release_session_lease of SessionEnd: closes the generation.
ReleaseSession ==
    /\ session.state = "bound"
    /\ session.generation < MaxGeneration
    /\ session' = [state |-> "closed", generation |-> session.generation + 1,
                   agent |-> NoAgent]
    /\ UNCHANGED <<content, dirty, inflight, watcher, pending, active, worker,
                   stopping, settled, observed>>

(***************************************************************************)
(* The main thread: the loop of main() and CoalescingReviewScheduler.submit. *)
(***************************************************************************)
\* next_triggered_batch returns an ordinary batch: some of the queued paths.
TakeEvents ==
    /\ watcher.pc = "idle"
    /\ \E S \in (SUBSET dirty) \ {{}} :
        /\ watcher' = [watcher EXCEPT !.pc = "read", !.paths = S]
        /\ dirty' = dirty \ S
    /\ UNCHANGED <<content, session, inflight, pending, active, worker,
                   stopping, settled, observed>>

\* next_triggered_batch materializes the flush hint of the agent that owns the
\* route: hinted paths that were in the batch leave the queue with it, the
\* others of the batch are put back.
TakeHint ==
    /\ watcher.pc = "idle"
    /\ session.state = "bound"
    /\ \E S \in (SUBSET Paths) \ {{}} :
        /\ watcher' = [watcher EXCEPT !.pc = "read", !.paths = S,
                                      !.agent = session.agent]
        /\ \E D \in SUBSET (dirty \intersect S) : dirty' = dirty \ D
    /\ UNCHANGED <<content, session, inflight, pending, active, worker,
                   stopping, settled, observed>>

\* main() evaluates current_path_digests before it calls submit.
ReadDigests ==
    /\ watcher.pc = "read"
    /\ watcher' = [watcher EXCEPT
                     !.pc = "capture",
                     !.digest = [p \in Paths |-> IF p \in watcher.paths
                                                 THEN DigestOf(p) ELSE NoDigest]]
    /\ UNCHANGED <<content, dirty, session, inflight, pending, active, worker,
                   stopping, settled, observed>>

\* submit captures the session generation before it takes the lock.
CaptureGeneration ==
    /\ watcher.pc = "capture"
    /\ watcher' = [watcher EXCEPT !.pc = "submit",
                                  !.generation = CapturedGeneration]
    /\ UNCHANGED <<content, dirty, session, inflight, pending, active, worker,
                   stopping, settled, observed>>

IsActive == IsReview(active) /\ ~active.finishing

AgentsDiffer(a, b) == a # NoAgent /\ b # NoAgent /\ a # b

ActiveRouteChanged ==
    \/ active.generation # watcher.generation
    \/ AgentsDiffer(watcher.agent, active.agent)

Overlap == IF IsActive THEN watcher.paths \intersect active.paths ELSE {}

\* Mutant: the digests are not compared.
UnchangedWithoutDigests == {p \in Overlap : ~ActiveRouteChanged}

UnchangedOverlap ==
    {p \in Overlap : /\ ~ActiveRouteChanged
                     /\ watcher.digest[p] # NoDigest
                     /\ watcher.digest[p] = active.digest[p]}

ChangedOverlap == Overlap \ UnchangedOverlap

Supersedes == ChangedOverlap # {}

\* Mutant: the rest of a superseded review is not queued again.
IncomingWithoutActive == watcher.paths \ UnchangedOverlap

\* The paths to queue: what changed and, when that supersedes the active
\* review, everything the active review was about to cover.
Incoming ==
    (watcher.paths \ UnchangedOverlap)
        \union (IF Supersedes THEN active.paths ELSE {})

IncomingDigest(p) ==
    IF p \in watcher.paths \ UnchangedOverlap
    THEN watcher.digest[p] ELSE active.digest[p]

IncomingPriority ==
    (IF IsActive THEN watcher.paths \ active.paths ELSE {})
        \union (IF Supersedes THEN active.paths \ ChangedOverlap ELSE {})

IncomingAgent ==
    IF watcher.agent = NoAgent /\ Supersedes /\ ~ActiveRouteChanged
    THEN active.agent ELSE watcher.agent

ObserveSubmitted ==
    observed' = [p \in Paths |-> IF p \in watcher.paths
                                    /\ watcher.digest[p] # NoDigest
                                 THEN watcher.digest[p] ELSE observed[p]]

\* submit drops every path: the active review already covers these bytes.  A
\* hint's agent still gets its marker, on the active review if that has none.
SubmitDuplicate ==
    /\ watcher.pc = "submit"
    /\ Incoming = {}
    /\ Owns(watcher.agent) => FreeMarkers # {}
    /\ IF watcher.agent # NoAgent /\ active.marker = NoMarker
       THEN LET marker == BegunMarker(watcher.agent)
            IN  /\ active' = [active EXCEPT
                                !.marker = marker,
                                !.agent = watcher.agent,
                                !.generation = IF active.generation = NoGeneration
                                               THEN watcher.generation
                                               ELSE active.generation]
                /\ inflight' = WithMarker(marker, watcher.agent)
       ELSE UNCHANGED <<active, inflight>>
    /\ watcher' = IdleWatcher
    /\ ObserveSubmitted
    /\ UNCHANGED <<content, dirty, session, pending, worker, stopping, settled>>

\* The follow-up the submission is merged into.
FollowUp ==
    IF IsReview(pending) THEN pending
    ELSE [NoReview EXCEPT !.agent = IncomingAgent,
                          !.generation = watcher.generation]

PendingRouteChanged ==
    \/ FollowUp.generation # watcher.generation
    \/ AgentsDiffer(IncomingAgent, FollowUp.agent)

\* Mutant: a changed route keeps the old route's marker.
MarkerKeptAcrossRoutes == FollowUp.marker

KeptMarker == IF PendingRouteChanged THEN NoMarker ELSE FollowUp.marker

\* submit queues the follow-up and, if it changes the active review, cancels
\* that; markers it drops are unlinked once the lock is released.
SubmitFollowUp ==
    /\ watcher.pc = "submit"
    /\ Incoming # {}
    /\ Owns(IncomingAgent) => FreeMarkers # {}
    /\ LET begun   == BegunMarker(IncomingAgent)
           dropped == {IF PendingRouteChanged THEN FollowUp.marker ELSE NoMarker,
                       IF KeptMarker # NoMarker THEN begun ELSE NoMarker}
                        \ {NoMarker}
       IN  /\ pending' =
                [paths      |-> FollowUp.paths \union Incoming,
                 digest     |-> [p \in Paths |-> IF p \in Incoming
                                                 THEN IncomingDigest(p)
                                                 ELSE FollowUp.digest[p]],
                 agent      |-> IF PendingRouteChanged \/ IncomingAgent # NoAgent
                                THEN IncomingAgent ELSE FollowUp.agent,
                 generation |-> watcher.generation,
                 marker     |-> IF KeptMarker = NoMarker
                                THEN begun ELSE KeptMarker,
                 priority   |-> FollowUp.priority \union IncomingPriority,
                 cancelled  |-> FALSE,
                 finishing  |-> FALSE]
           /\ inflight' = WithMarker(begun, IncomingAgent)
           /\ watcher' = IF dropped = {} THEN IdleWatcher
                         ELSE [IdleWatcher EXCEPT !.pc = "retire",
                                                  !.retiring = dropped]
    /\ active' = [active EXCEPT !.cancelled = @ \/ Supersedes]
    /\ ObserveSubmitted
    /\ UNCHANGED <<content, dirty, session, worker, stopping, settled>>

\* submit unlinks the markers it dropped, after the lock.
RetireMarkers ==
    /\ watcher.pc = "retire"
    /\ inflight' = WithoutMarkers(watcher.retiring)
    /\ watcher' = IdleWatcher
    /\ UNCHANGED <<content, dirty, session, pending, active, worker,
                   stopping, settled, observed>>

\* KeyboardInterrupt leaves the loop and close() takes the lock.
Close ==
    /\ watcher.pc \in Interruptible
    /\ stopping' = TRUE
    /\ active' = [active EXCEPT !.cancelled = IsReview(active),
                                !.marker = NoMarker]
    /\ pending' = NoReview
    /\ watcher' = [IdleWatcher EXCEPT
                     !.pc = "closing",
                     !.retiring = {active.marker, pending.marker} \ {NoMarker}]
    /\ UNCHANGED <<content, dirty, session, inflight, worker, settled, observed>>

\* close() unlinks the markers it took and joins the worker for a bounded time.
CloseMarkers ==
    /\ watcher.pc = "closing"
    /\ inflight' = WithoutMarkers(watcher.retiring)
    /\ watcher' = [IdleWatcher EXCEPT !.pc = "closed"]
    /\ UNCHANGED <<content, dirty, session, pending, active, worker,
                   stopping, settled, observed>>

(***************************************************************************)
(* The provider worker: _worker_main, run_scheduled_review, review_files.  *)
(***************************************************************************)
\* Mutant: no priority among the pending paths.
SliceWithoutPriority == pending.paths

\* _take_pending_locked: the paths that were queued behind or dropped with an
\* active review go first, the rest stays pending.
Slice ==
    LET priority == pending.priority \intersect pending.paths
    IN  IF priority # {} THEN priority ELSE pending.paths

\* The worker takes a slice and makes it the active review.  The pending
\* remainder keeps the marker; if a second one can be written for it, the slice
\* gets the first (renewed; an I/O error leaves it where it was).
TakePending ==
    /\ worker.pc = "waiting"
    /\ ~stopping
    /\ IsReview(pending)
    /\ LET whole     == Slice = pending.paths
           renewable == ~whole /\ pending.marker # NoMarker /\ Owns(pending.agent)
       IN  \E renewed \in {FALSE, renewable} :
            LET marker == BegunMarker(pending.agent)
            IN  /\ renewed => FreeMarkers # {}
                /\ active' =
                    [pending EXCEPT
                        !.paths = Slice,
                        !.digest = OnPaths(pending.digest, Slice),
                        !.marker = IF whole \/ renewed
                                   THEN pending.marker ELSE NoMarker,
                        !.priority = {}]
                /\ pending' =
                    IF whole THEN NoReview
                    ELSE [pending EXCEPT
                            !.paths = pending.paths \ Slice,
                            !.digest = OnPaths(pending.digest,
                                               pending.paths \ Slice),
                            !.marker = IF renewed THEN marker ELSE @,
                            !.priority = @ \ Slice]
                /\ inflight' = IF renewed THEN WithMarker(marker, pending.agent)
                               ELSE inflight
    /\ worker' = [worker EXCEPT !.pc = "refresh"]
    /\ UNCHANGED <<content, dirty, session, watcher, stopping, settled, observed>>

\* refresh_digests reads the files again, outside the lock ...
RefreshDigests ==
    /\ worker.pc = "refresh"
    /\ worker' = [worker EXCEPT
                    !.pc = "update",
                    !.read = [p \in Paths |-> IF p \in active.paths
                                              THEN DigestOf(p) ELSE NoDigest]]
    /\ UNCHANGED <<content, dirty, session, inflight, watcher, pending, active,
                   stopping, settled, observed>>

\* ... and the result is stored under it.
UpdateDigests ==
    /\ worker.pc = "update"
    /\ active' = IF active.cancelled THEN active
                 ELSE [active EXCEPT !.digest = worker.read]
    /\ worker' = [worker EXCEPT !.pc = "chunk", !.todo = active.paths]
    /\ UNCHANGED <<content, dirty, session, inflight, watcher, pending,
                   stopping, settled, observed>>

\* bounded_review_batches: the files of the next provider call.
Chunks ==
    {S \in (SUBSET worker.todo) \ {{}} :
        IF Cardinality(worker.todo) <= ReviewLimit THEN S = worker.todo
        ELSE Cardinality(S) = ReviewLimit}

\* review_files gives up at once when no file of the chunk can be read.
SkipUnreadable ==
    /\ worker.pc = "chunk"
    /\ ~active.cancelled
    /\ \E S \in Chunks :
        /\ Readable(S) = {}
        /\ worker' = [worker EXCEPT !.todo = @ \ S]
        /\ settled' = [p \in Paths |-> IF p \in S THEN content[p] ELSE settled[p]]
    /\ UNCHANGED <<content, dirty, session, inflight, watcher, pending, active,
                   stopping, observed>>

\* review_files snapshots the bytes that the provider is given.
TakeSnapshots ==
    /\ worker.pc = "chunk"
    /\ ~active.cancelled
    /\ \E S \in Chunks :
        /\ Readable(S) # {}
        /\ worker' = [worker EXCEPT
                        !.pc = "record",
                        !.todo = @ \ S,
                        !.chunk = Readable(S),
                        !.read = [p \in Paths |-> IF p \in Readable(S)
                                                  THEN content[p] ELSE NoDigest],
                        !.generation = active.generation]
        /\ settled' = [p \in Paths |-> IF p \in S \ Readable(S)
                                       THEN content[p] ELSE settled[p]]
    /\ UNCHANGED <<content, dirty, session, inflight, watcher, pending, active,
                   stopping, observed>>

\* record_snapshots binds the active review to those bytes.
RecordSnapshots ==
    /\ worker.pc = "record"
    /\ active' = IF active.cancelled THEN active
                 ELSE [active EXCEPT
                        !.digest = [p \in Paths |-> IF p \in worker.chunk
                                                    THEN worker.read[p]
                                                    ELSE active.digest[p]]]
    /\ worker' = [worker EXCEPT !.pc = "start"]
    /\ UNCHANGED <<content, dirty, session, inflight, watcher, pending,
                   stopping, settled, observed>>

\* The provider call starts; a review without a generation captures one first.
StartProvider ==
    /\ worker.pc = "start"
    /\ worker' = [worker EXCEPT
                    !.pc = "provider",
                    !.generation = IF @ = NoGeneration THEN CapturedGeneration
                                   ELSE @,
                    !.started = session.generation]
    /\ UNCHANGED <<content, dirty, session, inflight, watcher, pending, active,
                   stopping, settled, observed>>

\* Mutant: also the files outside the chunk take what was (not) read of them.
SettleEveryPath == settled' = worker.read

SettleChunk ==
    settled' = [p \in Paths |-> IF p \in worker.chunk THEN worker.read[p]
                                ELSE settled[p]]

NextChunk == [worker EXCEPT !.pc = "chunk", !.chunk = {},
                            !.read = [p \in Paths |-> NoDigest],
                            !.generation = NoGeneration, !.started = 0]

\* A valid answer of a review that was not cancelled goes on to publication.
ProviderSucceeds ==
    /\ worker.pc = "provider"
    /\ ~active.cancelled
    /\ worker' = [worker EXCEPT !.pc = "publish"]
    /\ UNCHANGED <<content, dirty, session, inflight, watcher, pending, active,
                   stopping, settled, observed>>

\* Timeout, provider error or invalid answer: nothing is published or retried.
ProviderFails ==
    /\ worker.pc = "provider"
    /\ ~active.cancelled
    /\ worker' = NextChunk
    /\ SettleChunk
    /\ UNCHANGED <<content, dirty, session, inflight, watcher, pending, active,
                   stopping, observed>>

\* A cancelled call ends and its answer, if any, is dropped.
ProviderSuperseded ==
    /\ worker.pc = "provider"
    /\ active.cancelled
    /\ worker' = NextChunk
    /\ UNCHANGED <<content, dirty, session, inflight, watcher, pending, active,
                   stopping, settled, observed>>

\* Mutant: only the state of the route is checked, not its generation.
SpoolAcceptsAnyGeneration == session.state # "closed"

\* SpoolSink.publish takes a batch only within the route's generation; a batch
\* without one carries 0 (parse_review_output).
SpoolAccepts ==
    /\ session.state # "closed"
    /\ session.generation = IF worker.generation = NoGeneration THEN 0
                            ELSE worker.generation

\* Mutant: the result is not checked once more for being superseded.
PublishSuperseded ==
    /\ worker.pc = "publish"
    /\ ~stopping
    /\ worker' = NextChunk
    /\ SettleChunk
    /\ UNCHANGED <<content, dirty, session, inflight, watcher, pending, active,
                   stopping, observed>>

\* publish_if_current: the last check and the sinks, under the lock.
Publish ==
    /\ worker.pc = "publish"
    /\ ~stopping
    /\ ~active.cancelled
    /\ worker' = NextChunk
    /\ SettleChunk
    /\ UNCHANGED <<content, dirty, session, inflight, watcher, pending, active,
                   stopping, observed>>

DiscardResult ==
    /\ worker.pc = "publish"
    /\ stopping \/ active.cancelled
    /\ worker' = NextChunk
    /\ UNCHANGED <<content, dirty, session, inflight, watcher, pending, active,
                   stopping, settled, observed>>

\* A sink raises: the worker abandons the chunk and the rest of the review.
SinkFails ==
    /\ SinkFaults
    /\ worker.pc = "publish"
    /\ ~stopping
    /\ ~active.cancelled
    /\ worker' = [NextChunk EXCEPT !.todo = {}]
    /\ SettleChunk
    /\ UNCHANGED <<content, dirty, session, inflight, watcher, pending, active,
                   stopping, observed>>

\* Mutant: the active review keeps its marker while the worker unlinks it.
FinishKeepingMarker ==
    /\ worker.pc = "chunk"
    /\ active.cancelled \/ worker.todo = {}
    /\ active' = [active EXCEPT !.finishing = TRUE]
    /\ worker' = [IdleWorker EXCEPT !.pc = "unmark", !.marker = active.marker]
    /\ UNCHANGED <<content, dirty, session, inflight, watcher, pending,
                   stopping, settled, observed>>

\* The review is over: its marker leaves it under the lock ...
FinishWork ==
    /\ worker.pc = "chunk"
    /\ active.cancelled \/ worker.todo = {}
    /\ active' = [active EXCEPT !.finishing = TRUE, !.marker = NoMarker]
    /\ worker' = [IdleWorker EXCEPT !.pc = "unmark", !.marker = active.marker]
    /\ UNCHANGED <<content, dirty, session, inflight, watcher, pending,
                   stopping, settled, observed>>

\* ... is unlinked outside it ...
UnlinkMarker ==
    /\ worker.pc = "unmark"
    /\ inflight' = WithoutMarkers({worker.marker})
    /\ worker' = [worker EXCEPT !.pc = "clear", !.marker = NoMarker]
    /\ UNCHANGED <<content, dirty, session, watcher, pending, active,
                   stopping, settled, observed>>

\* ... and only then is the scheduler free for the follow-up.
ClearActive ==
    /\ worker.pc = "clear"
    /\ active' = NoReview
    /\ worker' = [worker EXCEPT !.pc = "waiting"]
    /\ UNCHANGED <<content, dirty, session, inflight, watcher, pending,
                   stopping, settled, observed>>

\* Mutant: the wait for work does not look at the stop flag.
StopWorkerWithWork ==
    /\ worker.pc = "waiting"
    /\ stopping
    /\ IsReview(pending)
    /\ worker' = [worker EXCEPT !.pc = "stopped"]
    /\ UNCHANGED <<content, dirty, session, inflight, watcher, pending, active,
                   stopping, settled, observed>>

StopWorker ==
    /\ worker.pc = "waiting"
    /\ stopping
    /\ worker' = [worker EXCEPT !.pc = "stopped"]
    /\ UNCHANGED <<content, dirty, session, inflight, watcher, pending, active,
                   stopping, settled, observed>>

--------------------------------------------------------------------------------
Environment ==
    \/ \E p \in Paths : Edit(p)
    \/ \E a \in Agents : BindSession(a)
    \/ ReleaseSession

Submission ==
    \/ ReadDigests \/ CaptureGeneration
    \/ SubmitDuplicate \/ SubmitFollowUp \/ RetireMarkers \/ CloseMarkers

Review ==
    \/ TakePending \/ RefreshDigests \/ UpdateDigests
    \/ SkipUnreadable \/ TakeSnapshots \/ RecordSnapshots \/ StartProvider
    \/ ProviderSucceeds \/ ProviderFails \/ ProviderSuperseded
    \/ Publish \/ DiscardResult \/ SinkFails
    \/ FinishWork \/ UnlinkMarker \/ ClearActive \/ StopWorker

Next ==
    \/ Environment
    \/ TakeEvents \/ TakeHint \/ Submission \/ Close
    \/ Review

Spec == Init /\ [][Next]_vars

(***************************************************************************)
(* Properties.                                                             *)
(***************************************************************************)
WatcherStates == {"idle", "read", "capture", "submit", "retire", "closing", "closed"}

WorkerStates ==
    {"waiting", "refresh", "update", "chunk", "record", "start", "provider",
     "publish", "unmark", "clear", "stopped"}

Sessions ==
    [state : {"unbound", "bound", "closed"}, generation : Generations,
     agent : AgentIds]

Watchers ==
    [pc : WatcherStates, paths : SUBSET Paths, digest : [Paths -> Digests],
     agent : AgentIds, generation : CapturedGenerations,
     retiring : SUBSET Markers]

Workers ==
    [pc : WorkerStates, read : [Paths -> Digests], todo : SUBSET Paths,
     chunk : SUBSET Paths, generation : CapturedGenerations,
     started : Generations, marker : MarkerIds]

\* The types of the variables.
TypeOK ==
    /\ content \in [Paths -> Contents]
    /\ dirty \subseteq Paths
    /\ session \in Sessions
    /\ inflight \in [Markers -> AgentIds]
    /\ watcher \in Watchers
    /\ pending \in Reviews
    /\ active \in Reviews
    /\ worker \in Workers
    /\ stopping \in BOOLEAN
    /\ settled \in [Paths -> Contents]
    /\ observed \in [Paths -> Contents]

\* One active review and one latest follow-up never contradict each other: as
\* long as the active review is current none of its paths is queued again, and
\* once it is superseded (by submit) all of them are.  Between the two, nothing
\* the review was about to cover is lost and nothing is reviewed twice.
FollowUpComplementsActive ==
    IsActive /\ ~stopping =>
        IF active.cancelled THEN active.paths \subseteq pending.paths
        ELSE active.paths \intersect pending.paths = {}

\* The worker has yet to read p, or has read its present bytes and not yet
\* given up the call it made on them.
UnderReview(p) ==
    /\ IsActive
    /\ ~active.cancelled
    /\ \/ worker.pc \in {"refresh", "update"} /\ p \in active.paths
       \/ p \in worker.todo
       \/ p \in worker.chunk /\ worker.read[p] = content[p]

\* No change falls between the notification queue, the main thread, the
\* follow-up and the active review: the present version of every path was
\* covered by a review that ended unsuperseded, or still is on its way to one.
NoLostChange ==
    ~stopping =>
        \A p \in Paths :
            \/ settled[p] = content[p]
            \/ p \in dirty
            \/ /\ p \in watcher.paths
               /\ watcher.pc = "read" \/ watcher.digest[p] = DigestOf(p)
            \/ p \in pending.paths
            \/ UnderReview(p)

\* A publication never covers an older version of a file than the main thread
\* has submitted, although snapshots, digests and submissions all race.
PublishedIsNewestObserved ==
    [][Publish => \A p \in worker.chunk : worker.read[p] >= observed[p]]_vars

\* What reaches the spool was reviewed, from the start of the provider call to
\* its delivery, within one session generation of the route.
SpooledWithinGeneration ==
    [][Publish /\ SpoolAccepts => worker.started = session.generation]_vars

HeldMarkers ==
    ({pending.marker, active.marker, worker.marker} \ {NoMarker})
        \union watcher.retiring

\* Every in-flight marker file belongs to the follow-up, the active review or
\* a thread about to unlink it, and nobody holds one that is gone: no marker
\* leaks and none is unlinked twice.
MarkersAreHeld == {m \in Markers : inflight[m] # NoAgent} = HeldMarkers

\* While a review of the agent that owns the route is queued or running in its
\* generation, a marker of that agent is there for its Stop hook to see.
OwnedReviewIsMarked ==
    \A r \in {pending, active} :
        /\ IsReview(r) /\ ~r.finishing /\ ~stopping
        /\ Owns(r.agent)
        /\ r.generation = session.generation
        => \E m \in Markers : inflight[m] = r.agent

(***************************************************************************)
(* Fairness: both threads keep running, provider calls end (they carry a   *)
(* timeout) and the queue is FIFO, so each queued path is taken some day.  *)
(* Nothing is assumed of edits, hooks, hints or the interrupt.             *)
(***************************************************************************)
Fairness ==
    /\ WF_vars(Submission)
    /\ WF_vars(Review)
    /\ \A p \in Paths : SF_vars(TakeEvents /\ p \in watcher'.paths)

FairSpec == Spec /\ Fairness

\* When edits cease, every file's present version ends up reviewed.
EventuallySettled == <>[](stopping \/ settled = content)

\* A change of p is settled or overtaken by a newer one of p, whatever happens
\* to the other files.
ChangeSettles(p) ==
    \A c \in Contents :
        content[p] = c ~> (stopping \/ content[p] # c \/ settled[p] = c)

\* close() lets the worker end once its provider call does.
WorkerStops == stopping ~> worker.pc = "stopped"

================================================================================
