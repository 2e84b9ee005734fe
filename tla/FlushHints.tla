------------------------------ MODULE FlushHints ------------------------------
(***************************************************************************)
(* How an agent's own edits reach the watcher ahead of file notifications, *)
(* and how its Stop hook waits for them.  After an edit the agent's hook   *)
(* publishes a flush hint (feedback.py); the watcher's main loop groups    *)
(* the hints of a turn, hands a group that is old enough, or that a flush  *)
(* request covers, to the scheduler, writes an in-flight marker and only   *)
(* then unlinks the hints.  The Stop hook (codex_feedback_hook.py) asks    *)
(* for a flush and polls the spool, the markers and the hints.             *)
(*                                                                         *)
(* Everybody works on the same directories without a lock.  Each directory *)
(* that a hook lists is an action of its own, and so is each write or      *)
(* removal by the watcher that a hook may look in between.  A poll of the  *)
(* main loop is one action: what hooks add while it lists is the next      *)
(* poll's, and its removals are of hints that are no longer true.          *)
(*                                                                         *)
(* The scheduler is that of ReviewScheduler without its slices, the names  *)
(* of its markers, and the digests that it reads apart from the snapshots. *)
(* Its lock is held over begin_review and over the publication, because    *)
(* hooks can watch both.  Interrupts and close() are left out.             *)
(*                                                                         *)
(* Time is a Tick that ages hints.  It is far longer than the main loop's  *)
(* polling interval of 25 ms: a Tick passes only after a poll that found   *)
(* nothing to do, and not while a hook is about to publish a hint.  The    *)
(* expiry of markers and hints, after at least five seconds, is left out.  *)
(***************************************************************************)
EXTENDS Integers, FiniteSets, Sequences

CONSTANTS
    Paths,          \* watched paths
    Versions,       \* versions of a file's bytes
    InitialVersion,
    Agents,         \* real agent sessions
    Turns,          \* turn identities agents supply; NoTurn is that of agents that do not
    Quiet,          \* agent_edit_quiet, in ticks
    MaxAge,         \* agent_edit_max_age
    TurnMaxAge,     \* agent_turn_max_age
    ReviewLimit,    \* MAX_REVIEWED_FILES
    MaxHints,       \* bound on the number of hints published
    MaxGeneration,  \* bound on the number of session generations
    MaxForeignEdits, \* bound on the edits by others than the agent
    NoVersion, NoAgent, NoTurn

VARIABLES
    content,   \* the files on disk
    dirty,     \* paths with a notification the main thread has not yet taken
    session,   \* the route's session state file
    hints,     \* the files of flush-hints/
    requests,  \* flush-requests/: the name of the newest hint that the newest request
               \* of each agent covers, NoRequest if there is none
    nextHint,  \* the name of the next hint; names sort in order of creation
    spooled,   \* whether pending/ holds a batch of the present generation
    main,      \* the watcher's main thread
    active,    \* the scheduler's active review; no paths when there is none
    followUp,  \* its follow-up, likewise
    worker,    \* where the provider worker is
    hooks,     \* the hook process of each agent
    look,      \* whether the main loop has looked in vain since it last had a
               \* reason to look: a Tick, an edit, a hint or a request
    edits,     \* edits by others so far
    owed,      \* history: hinted bytes of each path that still await a review
    excused    \* history: owed paths whose bytes were those of a cancelled review

spool == <<hints, requests, nextHint, spooled>>
scheduler == <<active, followUp, worker>>
history == <<owed, excused>>
vars == <<content, dirty, session, spool, main, scheduler, hooks, look, edits,
          history>>

NoGeneration == -1
NoRequest == -1

AgentIds == Agents \union {NoAgent}
VersionIds == Versions \union {NoVersion}
HintIds == 1 .. MaxHints
Generations == 0 .. MaxGeneration

ASSUME BoundsAssumption ==
    /\ Quiet \in Nat
    /\ MaxAge \in Nat \ {0}
    /\ TurnMaxAge \in Nat
    /\ Quiet <= MaxAge
    /\ MaxAge <= TurnMaxAge
    /\ ReviewLimit \in Nat \ {0}
    /\ MaxHints \in Nat
    /\ MaxGeneration \in Nat
    /\ MaxForeignEdits \in Nat

ASSUME NullsAssumption ==
    /\ InitialVersion \in Versions
    /\ NoVersion \notin Versions
    /\ NoAgent \notin Agents

NoFiles == [p \in Paths |-> NoVersion]

ContentOf(S) == [p \in Paths |-> IF p \in S THEN content[p] ELSE NoVersion]

\* The paths that a map from paths to bytes mentions.
Named(files) == {p \in Paths : files[p] # NoVersion}

\* _session_is_owned.
Owns(a) == session.state = "bound" /\ session.agent = a

\* SpoolSink.capture_session_generation.
CapturedGeneration ==
    IF session.state = "closed" THEN NoGeneration ELSE session.generation

\* Hints that disappear give the main loop a reason to look.
LookAgain == look' = IF hints' = hints THEN look ELSE "due"

NoRequests == [a \in Agents |-> NoRequest]

NoReview ==
    [paths |-> {}, digest |-> NoFiles, agent |-> NoAgent,
     generation |-> NoGeneration, marker |-> NoAgent, cancelled |-> FALSE]

\* The main thread in its polling loop.
Polling == [pc |-> "poll", agent |-> NoAgent, names |-> {}, paths |-> {}]

IdleHook == [pc |-> "idle", files |-> NoFiles, first |-> TRUE]

Init ==
    /\ content = [p \in Paths |-> InitialVersion]
    /\ dirty = {}
    /\ session = [state |-> "unbound", generation |-> 0, agent |-> NoAgent]
    /\ hints = {}
    /\ requests = NoRequests
    /\ nextHint = 1
    /\ spooled = FALSE
    /\ main = Polling
    /\ active = NoReview
    /\ followUp = NoReview
    /\ worker = "waiting"
    /\ hooks = [a \in Agents |-> IdleHook]
    /\ look = "due"
    /\ edits = 0
    /\ owed = NoFiles
    /\ excused = {}

(***************************************************************************)
(* Edits, the agent's hooks and the end of its session.                    *)
(***************************************************************************)
\* Bytes of the paths S change: whatever was hinted about them is void.
Change(S) ==
    /\ \E f \in [S -> Versions] :
        /\ \A p \in S : f[p] # content[p]
        /\ content' = [p \in Paths |-> IF p \in S THEN f[p] ELSE content[p]]
    /\ dirty' = dirty \union S
    /\ owed' = [p \in Paths |-> IF p \in S THEN NoVersion ELSE owed[p]]
    /\ excused' = excused \ S
    /\ look' = "due"

\* Somebody other than the agent changes a file.
ForeignEdit(p) ==
    /\ edits < MaxForeignEdits
    /\ edits' = edits + 1
    /\ Change({p})
    /\ UNCHANGED <<session, spool, main, scheduler, hooks>>

Step(a, pc) == hooks' = [hooks EXCEPT ![a].pc = pc]

\* verify_session_lease: the agent owns the route or, if nobody does, gets it.
\* It locks the route exclusively, a publication shares the lock.
Lease(a) ==
    /\ worker # "link"
    /\ session.state = "bound" => session.agent = a
    /\ session' = [session EXCEPT !.state = "bound", !.agent = a]

\* An agent's tool edits files, and its PostToolUse hook starts and reads their
\* digests.
AgentEdit(a, S) ==
    /\ hooks[a].pc = "idle"
    /\ nextHint + Cardinality({i \in Agents : hooks[i].pc = "hint"}) <= MaxHints
    /\ Change(S)
    /\ Lease(a)
    /\ hooks' = [hooks EXCEPT ![a].pc = "hint",
                              ![a].files = [p \in Paths |-> IF p \in S
                                                THEN content'[p] ELSE NoVersion]]
    /\ UNCHANGED <<spool, main, scheduler, edits>>

\* publish_flush_hint; PostToolBatch also asks for a flush at once.
PublishHint(a) ==
    /\ hooks[a].pc = "hint"
    /\ IF Owns(a)
       THEN /\ \E turn \in Turns :
                hints' = hints \union
                    {[name |-> nextHint, agent |-> a, turn |-> turn, age |-> 0,
                      files |-> hooks[a].files]}
            /\ nextHint' = nextHint + 1
            /\ \E upTo \in {requests[a], nextHint} :
                requests' = [requests EXCEPT ![a] = upTo]
            /\ owed' = [p \in Paths |->
                            IF p \in Named(hooks[a].files)
                               /\ hooks[a].files[p] = content[p]
                            THEN content[p] ELSE owed[p]]
            /\ excused' = excused \ {p \in Paths : owed'[p] # owed[p]}
       ELSE UNCHANGED <<hints, nextHint, requests, history>>
    /\ hooks' = [hooks EXCEPT ![a].pc = "collect", ![a].files = NoFiles]
    /\ look' = "due"
    /\ UNCHANGED <<content, dirty, session, spooled, main, scheduler, edits>>

\* The newest hint that a request made now covers.
Covered == nextHint - 1

\* A Stop hook starts; request_flush_hint asks to flush what was hinted so far.
StartStop(a) ==
    /\ hooks[a].pc = "idle"
    /\ Lease(a)
    /\ requests' = [requests EXCEPT ![a] = Covered]
    /\ Step(a, "claim")
    /\ look' = "due"
    /\ UNCHANGED <<content, dirty, hints, nextHint, spooled, main, scheduler, edits,
                   history>>

\* The hook claims a batch and delivers it; PostToolUse ends without one as well.
Collect(a) ==
    /\ \/ hooks[a].pc = "collect"
       \/ hooks[a].pc = "claim" /\ spooled /\ Owns(a)
    /\ spooled' = (spooled /\ ~Owns(a))
    /\ hooks' = [hooks EXCEPT ![a] = IdleHook]
    /\ UNCHANGED <<content, dirty, session, hints, requests, nextHint, main,
                   scheduler, look, edits, history>>

\* The Stop hook finds nothing to claim and looks whether a review is under way.
ClaimNothing(a) ==
    /\ hooks[a].pc = "claim"
    /\ ~(spooled /\ Owns(a))
    /\ Step(a, "markers")
    /\ UNCHANGED <<content, dirty, session, spool, main, scheduler, look, edits,
                   history>>

\* The marker files are those of the two reviews.
Marked(a) == a \in {active.marker, followUp.marker}

\* matching_review_in_flight lists in-flight/ ...
ScanMarkers(a) ==
    /\ hooks[a].pc = "markers"
    /\ Step(a, IF Marked(a) /\ Owns(a) THEN "sleep" ELSE "hints")
    /\ UNCHANGED <<content, dirty, session, spool, main, scheduler, look, edits,
                   history>>

\* A hint the agent may wait for; its files are compared by the first look only.
Awaited(a, h) ==
    /\ h.agent = a
    /\ Owns(a)
    /\ hooks[a].first => \E p \in Named(h.files) : h.files[p] = content[p]

\* ... and then flush-hints/, in any order, unlinking what it need not wait for
\* until it meets a hint that it must.
ScanHints(a) ==
    /\ hooks[a].pc = "hints"
    /\ LET idle == {h \in hints : ~Awaited(a, h)}
       IN  IF hints = idle
           THEN /\ hints' = {}
                /\ hooks' = [hooks EXCEPT ![a] = IdleHook]
           ELSE /\ \E met \in SUBSET idle : hints' = hints \ met
                /\ Step(a, "sleep")
    /\ LookAgain
    /\ UNCHANGED <<content, dirty, session, requests, nextHint, spooled, main,
                   scheduler, edits, history>>

\* It sleeps and tries again ...
PollAgain(a) ==
    /\ hooks[a].pc = "sleep"
    /\ hooks' = [hooks EXCEPT ![a].pc = "claim", ![a].first = FALSE]
    /\ UNCHANGED <<content, dirty, session, spool, main, scheduler, look, edits,
                   history>>

\* ... until its grace is over.
GraceEnds(a) ==
    /\ hooks[a].pc = "sleep"
    /\ hooks' = [hooks EXCEPT ![a] = IdleHook]
    /\ UNCHANGED <<content, dirty, session, spool, main, scheduler, look, edits,
                   history>>

\* release_session_lease of SessionEnd: batches of the old generation are no
\* longer claimed, hints and requests stay behind.
ReleaseSession ==
    /\ worker # "link"
    /\ session.state = "bound"
    /\ session.generation < MaxGeneration
    /\ session' = [state |-> "closed", generation |-> session.generation + 1,
                   agent |-> NoAgent]
    /\ spooled' = FALSE
    /\ owed' = NoFiles
    /\ excused' = {}
    /\ UNCHANGED <<content, dirty, hints, requests, nextHint, main, scheduler,
                   hooks, look, edits>>

\* The requests of an agent reach their end of life.
ExpireRequests(a) ==
    /\ requests[a] # NoRequest
    /\ requests' = [requests EXCEPT ![a] = NoRequest]
    /\ UNCHANGED <<content, dirty, session, hints, nextHint, spooled, main,
                   scheduler, hooks, look, edits, history>>

(***************************************************************************)
(* consume_flush_hint, which the main loop calls in every turn.            *)
(***************************************************************************)
\* Of the requests only those of the route's owner are kept.
ValidRequests == [a \in Agents |-> IF Owns(a) THEN requests[a] ELSE NoRequest]

ValidHints == {h \in hints : Owns(h.agent)}

\* The first and the last hint of a group.
Oldest(group) == CHOOSE h \in group : \A g \in group : h.name <= g.name
Newest(group) == CHOOSE h \in group : \A g \in group : g.name <= h.name

\* The paths of a group of hints.
PathsOf(group) == UNION {Named(h.files) : h \in group}

\* Whether a hint belongs to the same logical edit as the group before it.
Joins(group, h) ==
    /\ h.agent = Oldest(group).agent
    /\ h.turn = Oldest(group).turn
    /\ h.turn = NoTurn => Newest(group).age - h.age <= Quiet
    /\ Cardinality(PathsOf(group) \union Named(h.files)) <= ReviewLimit

AddHint(groups, h) ==
    IF groups # <<>> /\ Joins(groups[Len(groups)], h)
    THEN [groups EXCEPT ![Len(groups)] = @ \union {h}]
    ELSE Append(groups, {h})

\* The owner's hints by creation, cut into logical edits: those named 1 to n, and all.
GroupsUpTo[n \in 0 .. MaxHints] ==
    IF n = 0 THEN <<>>
    ELSE LET named == {h \in ValidHints : h.name = n}
         IN  IF named = {} THEN GroupsUpTo[n - 1]
             ELSE AddHint(GroupsUpTo[n - 1], CHOOSE h \in named : TRUE)

HintGroups == GroupsUpTo[MaxHints]

\* What the group's newest hint of a path says of it.
LatestVersion(group, p) == Newest({h \in group : p \in Named(h.files)}).files[p]

\* reviewed_by_path: the paths whose newest hint is still true.
CurrentPaths(group) ==
    {p \in PathsOf(group) : LatestVersion(group, p) = content[p]}

\* active_members: the hints that name one of these paths, in any version.
ActiveMembers(group) ==
    LET current == CurrentPaths(group)
    IN  {h \in group : Named(h.files) \intersect current # {}}

Names(group) == {h.name : h \in group}

\* Mutant: the newest hint of the group is not covered by a request made after it.
ForcedButNewest(members) ==
    \E a \in Agents : Newest(members).name < ValidRequests[a]

\* A request covers the group if it is no older than the group's newest hint.
Forced(members) ==
    \E a \in Agents : Newest(members).name <= ValidRequests[a]

\* Mutant: a turn waits for its Stop however long that takes.
AgedOnlyWithoutTurn(members) ==
    Oldest(members).turn = NoTurn /\ Oldest(members).age >= MaxAge

\* The group has waited as long as it may.
Aged(members) ==
    Oldest(members).age >= IF Oldest(members).turn = NoTurn
                           THEN MaxAge ELSE TurnMaxAge

\* Asked for, quiet or too old to wait, or as large as a review may be.
Ready(group) ==
    LET members == ActiveMembers(group)
    IN  \/ Forced(members)
        \/ Oldest(members).turn = NoTurn /\ Newest(members).age >= Quiet
        \/ Aged(members)
        \/ Cardinality(CurrentPaths(group)) = ReviewLimit

\* The indexes of the groups that have a hint that is still true.
Live(groups) == {i \in DOMAIN groups : CurrentPaths(groups[i]) # {}}

FirstLive(groups) == CHOOSE i \in Live(groups) : \A j \in Live(groups) : i <= j

\* The hints left when the first n groups have been purged.
Purged(groups, n) ==
    LET outdated == UNION {Names(groups[i]) \ Names(ActiveMembers(groups[i])) :
                            i \in 1 .. n}
    IN  {h \in ValidHints : h.name \notin outdated}

\* The first live group is ready: next_triggered_batch materializes it.  Its
\* hints stay until a marker stands for them.
TakeHints ==
    /\ main.pc = "poll"
    /\ \E groups \in {HintGroups} :
        /\ Live(groups) # {}
        /\ \E group \in {groups[FirstLive(groups)]} :
            /\ Ready(group)
            /\ main' = [pc |-> "submit", agent |-> Oldest(group).agent,
                        names |-> Names(ActiveMembers(group)),
                        paths |-> CurrentPaths(group)]
        /\ hints' = Purged(groups, FirstLive(groups))
    /\ requests' = NoRequests
    /\ look' = "due"
    /\ UNCHANGED <<content, dirty, session, nextHint, spooled, scheduler, hooks,
                   edits, history>>

\* Nothing is ready; requests that had nothing to flush are unlinked.
TakeNothing ==
    /\ main.pc = "poll"
    /\ \E groups \in {HintGroups} :
        IF Live(groups) = {}
        THEN hints' = Purged(groups, Len(groups)) /\ requests' = NoRequests
        ELSE /\ ~Ready(groups[FirstLive(groups)])
             /\ hints' = Purged(groups, FirstLive(groups))
             /\ requests' = ValidRequests
    /\ look' = IF hints' = hints THEN "vain" ELSE "due"
    /\ UNCHANGED <<content, dirty, session, nextHint, spooled, main, scheduler,
                   hooks, edits, history>>

\* The rest of next_triggered_batch: some of the notified paths are due (debounce
\* and suppression, which say when and which, are not modelled here).
TakeBatch(S) ==
    /\ main.pc = "poll"
    /\ main' = [Polling EXCEPT !.pc = "submit", !.paths = S]
    /\ dirty' = dirty \ S
    /\ UNCHANGED <<content, session, spool, scheduler, hooks, look, edits, history>>

(***************************************************************************)
(* CoalescingReviewScheduler.submit.  Its lock is held until begin_review  *)
(* has unlinked the hints, and while a batch is published.                 *)
(***************************************************************************)
Unlocked == main.pc # "unlink" /\ worker # "link"

AgentsDiffer(a, b) == a # NoAgent /\ b # NoAgent /\ a # b

RouteChanged(review, agent) ==
    \/ review.generation # CapturedGeneration
    \/ AgentsDiffer(agent, review.agent)

\* The submitted paths that are being reviewed in these very bytes.
UnchangedOverlap ==
    {p \in main.paths \intersect active.paths :
        ~RouteChanged(active, main.agent) /\ content[p] = active.digest[p]}

Supersedes == ~(main.paths \intersect active.paths \subseteq UnchangedOverlap)

Incoming ==
    (main.paths \ UnchangedOverlap)
        \union (IF Supersedes THEN active.paths ELSE {})

IncomingAgent ==
    IF main.agent = NoAgent /\ Supersedes /\ ~RouteChanged(active, main.agent)
    THEN active.agent ELSE main.agent

\* begin_review writes a marker for the agent if it owns the route.  (A second
\* one for the same review is unlinked by submit again: left out.)
Begun(review, agent) ==
    IF review.marker # NoAgent \/ ~Owns(agent) THEN review.marker ELSE agent

\* Where begin_review wrote a marker it goes on to unlink the hints.
AfterMarker(agent) ==
    main' = IF Owns(agent) THEN [main EXCEPT !.pc = "unlink"] ELSE Polling

\* Every path is being reviewed in these bytes already: at most the active review
\* gets a marker.
SubmitDuplicate ==
    /\ main.pc = "submit"
    /\ Unlocked
    /\ Incoming = {}
    /\ active' =
        IF main.agent = NoAgent \/ active.marker # NoAgent THEN active
        ELSE [active EXCEPT !.marker = Begun(active, main.agent),
                            !.agent = main.agent,
                            !.generation = IF @ = NoGeneration
                                           THEN CapturedGeneration ELSE @]
    /\ AfterMarker(main.agent)
    /\ UNCHANGED <<content, dirty, session, spool, followUp, worker, hooks, look,
                   edits, history>>

\* The follow-up that takes the submission in; of another route it loses its marker.
Base ==
    LET none  == [NoReview EXCEPT !.agent = IncomingAgent,
                                  !.generation = CapturedGeneration]
        base  == IF followUp.paths = {} THEN none ELSE followUp
    IN  IF RouteChanged(base, IncomingAgent)
        THEN [base EXCEPT !.marker = NoAgent, !.agent = IncomingAgent] ELSE base

\* The paths join the follow-up; an active review they change is cancelled.
SubmitFollowUp ==
    /\ main.pc = "submit"
    /\ Unlocked
    /\ Incoming # {}
    /\ followUp' =
        [Base EXCEPT
            !.paths = @ \union Incoming,
            !.agent = IF IncomingAgent # NoAgent THEN IncomingAgent ELSE @,
            !.generation = CapturedGeneration,
            !.marker = Begun(Base, IncomingAgent)]
    /\ active' = [active EXCEPT !.cancelled = @ \/ Supersedes]
    /\ AfterMarker(IncomingAgent)
    /\ UNCHANGED <<content, dirty, session, spool, worker, hooks, look, edits,
                   history>>

\* Mutant: begin_review unlinks all hints, not only those it was given.
UnlinkAllHints ==
    /\ main.pc = "unlink"
    /\ hints' = {}
    /\ main' = Polling
    /\ LookAgain
    /\ UNCHANGED <<content, dirty, session, requests, nextHint, spooled, scheduler,
                   hooks, edits, history>>

\* The marker is there; begin_review unlinks the hints it stands for.
UnlinkHints ==
    /\ main.pc = "unlink"
    /\ hints' = {h \in hints : h.name \notin main.names}
    /\ main' = Polling
    /\ LookAgain
    /\ UNCHANGED <<content, dirty, session, requests, nextHint, spooled, scheduler,
                   hooks, edits, history>>

(***************************************************************************)
(* The provider worker.                                                    *)
(***************************************************************************)
\* The follow-up becomes the active review, with the digests of that moment.
StartReview ==
    /\ worker = "waiting"
    /\ Unlocked
    /\ followUp.paths # {}
    /\ active' = [followUp EXCEPT !.digest = ContentOf(followUp.paths)]
    /\ followUp' = NoReview
    /\ worker' = "read"
    /\ UNCHANGED <<content, dirty, session, spool, main, hooks, look, edits, history>>

\* The files are read for the provider; record_snapshots binds the review to them.
ReadFiles ==
    /\ worker = "read"
    /\ Unlocked
    /\ ~active.cancelled
    /\ active' = [active EXCEPT !.digest = ContentOf(active.paths)]
    /\ worker' = "review"
    /\ UNCHANGED <<content, dirty, session, spool, main, followUp, hooks, look, edits,
                   history>>

\* A review cancelled before that reads nothing and retires no hint.
SkipReview ==
    /\ worker = "read"
    /\ active.cancelled
    /\ worker' = "finish"
    /\ UNCHANGED <<content, dirty, session, spool, main, active, followUp, hooks, look,
                   edits, history>>

\* retire_reviewed_flush_hints: hints that say no more than what was reviewed go.
Unreviewed ==
    {h \in hints : \E p \in Named(h.files) : h.files[p] # active.digest[p]}

\* SpoolSink.publish, under the scheduler's lock: late hints are retired ...
PublishReview ==
    /\ worker = "review"
    /\ Unlocked
    /\ ~active.cancelled
    /\ active.generation = CapturedGeneration
    /\ session.state # "closed"
    /\ hints' = Unreviewed
    /\ worker' = "link"
    /\ LookAgain
    /\ UNCHANGED <<content, dirty, session, requests, nextHint, spooled, main, active,
                   followUp, hooks, edits, history>>

\* ... before the batch is in pending/, if a finding is still fresh.
LinkBatch ==
    /\ worker = "link"
    /\ spooled' = (spooled \/ \E p \in active.paths : active.digest[p] = content[p])
    /\ worker' = "retire"
    /\ UNCHANGED <<content, dirty, session, hints, requests, nextHint, main, active,
                   followUp, hooks, look, edits, history>>

\* The provider failed or found nothing, or the review is obsolete.
EndReview ==
    /\ worker = "review"
    /\ worker' = "retire"
    /\ UNCHANGED <<content, dirty, session, spool, main, active, followUp, hooks, look,
                   edits, history>>

\* The bytes of the review count as reviewed, unless it was cancelled.
Reviewed ==
    LET covered == {p \in Paths : owed[p] # NoVersion /\ owed[p] = active.digest[p]}
    IN  IF active.cancelled
        THEN excused' = excused \union covered /\ UNCHANGED owed
        ELSE /\ owed' = [p \in Paths |-> IF p \in covered THEN NoVersion ELSE owed[p]]
             /\ excused' = excused \ covered

\* review_files retires hints however the provider call ended.
RetireHints ==
    /\ worker = "retire"
    /\ hints' = Unreviewed
    /\ Reviewed
    /\ worker' = "finish"
    /\ LookAgain
    /\ UNCHANGED <<content, dirty, session, requests, nextHint, spooled, main, active,
                   followUp, hooks, edits>>

\* Mutant: the worker forgets the review but leaves its marker to the follow-up.
MarkerLeft ==
    /\ active' = NoReview
    /\ followUp' = [followUp EXCEPT !.marker = IF @ = NoAgent THEN active.marker ELSE @]

ReviewForgotten ==
    /\ active' = NoReview
    /\ UNCHANGED followUp

\* The worker unlinks the marker and forgets the review.
FinishReview ==
    /\ worker = "finish"
    /\ Unlocked
    /\ ReviewForgotten
    /\ Reviewed
    /\ worker' = "waiting"
    /\ UNCHANGED <<content, dirty, session, spool, main, hooks, look, edits>>

\* Time goes by.
Tick ==
    /\ look = "vain"
    /\ look' = "due"
    /\ \A a \in Agents : hooks[a].pc # "hint"
    /\ hints' = {[h EXCEPT !.age = IF @ > TurnMaxAge THEN @ ELSE @ + 1] : h \in hints}
    /\ UNCHANGED <<content, dirty, session, requests, nextHint, spooled, main,
                   scheduler, hooks, edits, history>>

Hook(a) ==
    \/ \E S \in (SUBSET Paths) \ {{}} : AgentEdit(a, S)
    \/ PublishHint(a) \/ StartStop(a) \/ Collect(a)
    \/ ClaimNothing(a) \/ ScanMarkers(a) \/ ScanHints(a)
    \/ PollAgain(a) \/ GraceEnds(a)

MainStep ==
    \/ TakeHints \/ TakeNothing
    \/ \E S \in (SUBSET dirty) \ {{}} : TakeBatch(S)
    \/ SubmitDuplicate \/ SubmitFollowUp \/ UnlinkHints

WorkerStep ==
    \/ StartReview \/ ReadFiles \/ SkipReview \/ PublishReview \/ LinkBatch \/ EndReview
    \/ RetireHints \/ FinishReview

Environment ==
    \/ \E p \in Paths : ForeignEdit(p)
    \/ ReleaseSession
    \/ \E a \in Agents : ExpireRequests(a)
    \/ Tick

Next ==
    \/ \E a \in Agents : Hook(a)
    \/ MainStep
    \/ WorkerStep
    \/ Environment

Spec == Init /\ [][Next]_vars

(***************************************************************************)
(* Properties.                                                             *)
(***************************************************************************)
Hints ==
    [name : HintIds, agent : Agents, turn : Turns,
     age : 0 .. TurnMaxAge + 1, files : [Paths -> VersionIds]]

Reviews ==
    [paths : SUBSET Paths, digest : [Paths -> VersionIds], agent : AgentIds,
     generation : Generations \union {NoGeneration}, marker : AgentIds,
     cancelled : BOOLEAN]

\* The types of the variables; every hint has a name of its own.
TypeOK ==
    /\ content \in [Paths -> Versions]
    /\ dirty \subseteq Paths
    /\ session \in [state : {"unbound", "bound", "closed"},
                    generation : Generations, agent : AgentIds]
    /\ hints \subseteq Hints
    /\ \A g, h \in hints : g.name = h.name => g = h
    /\ requests \in [Agents -> {NoRequest} \union 0 .. MaxHints]
    /\ nextHint \in 1 .. MaxHints + 1
    /\ spooled \in BOOLEAN
    /\ main \in [pc : {"poll", "submit", "unlink"}, agent : AgentIds,
                 names : SUBSET HintIds, paths : SUBSET Paths]
    /\ active \in Reviews
    /\ followUp \in Reviews
    /\ worker \in {"waiting", "read", "review", "link", "retire", "finish"}
    /\ hooks \in [Agents -> [pc : {"idle", "hint", "collect", "claim", "markers",
                                   "hints", "sleep"},
                             files : [Paths -> VersionIds], first : BOOLEAN]]
    /\ look \in {"due", "vain"}
    /\ edits \in 0 .. MaxForeignEdits
    /\ owed \in [Paths -> VersionIds]
    /\ excused \subseteq Paths

\* What a Stop hook can see of an edit that awaits its review: its hint, or the
\* marker of a review of the file, or of the follow-up that waits for it to end.
Visible(p) ==
    \/ \E h \in hints : h.agent = session.agent /\ h.files[p] = owed[p]
    \/ active.marker = session.agent /\ p \in active.paths
    \/ followUp.marker = session.agent /\ p \in active.paths \union followUp.paths
    \/ worker \in {"link", "retire"} /\ active.digest[p] = owed[p]

\* From the moment an edit of the route's owner is hinted until a review has read
\* these very bytes or they change, it is visible in the spool.  Hooks, the main
\* loop and the worker unlink hints and markers of each other all the while.  (An
\* edit whose bytes a cancelled review had is left out: it may lose its hint to
\* that review although only the follow-up, which need not be marked, reviews it.)
HintedEditIsVisible ==
    \A p \in Paths : owed[p] # NoVersion /\ p \notin excused => Visible(p)

\* No hint whose file is as it says waits longer than agent_turn_max_age, whatever
\* groups consume_flush_hint makes of it and of the hints before and after it.
HintsAreTakenInTime ==
    \A h \in hints :
        /\ Owns(h.agent)
        /\ \E p \in Named(h.files) : h.files[p] = content[p]
        => h.age <= TurnMaxAge

\* No time passes while the first group of live hints is covered by a request of the
\* route's owner: consume_flush_hint neither keeps it back for its age nor removes
\* a request without it.  (Its removal along with that group may leave later groups.)
FlushedOnRequest ==
    [][Tick /\ Live(HintGroups) # {} =>
        LET members == ActiveMembers(HintGroups[FirstLive(HintGroups)])
        IN  \A a \in Agents :
                Owns(a) => requests[a] < Newest(members).name]_vars

\* When a Stop hook that has waited finds neither a marker nor a hint, and so
\* ends, no finished review of its session is left in pending/: "a review
\* completed inside the grace window is delivered without a second user prompt"
\* (README.md 692).  It does not hold: the review may be published, and its hint or
\* marker unlinked, after the hook has claimed nothing and before it looks for them.
StopDelivers ==
    [][\A a \in Agents :
        ScanMarkers(a) /\ ~hooks[a].first /\ ~Marked(a) /\ hints = {}
        => ~(spooled /\ Owns(a))]_vars

(***************************************************************************)
(* Fairness: the watcher's threads and the hooks run, every provider call  *)
(* ends and time goes by; nothing is assumed of edits and sessions, and a  *)
(* Stop hook's grace need never end.                                       *)
(***************************************************************************)
Fairness ==
    /\ WF_vars(MainStep)
    /\ WF_vars(WorkerStep)
    /\ WF_vars(Tick)
    /\ \A a \in Agents :
        WF_vars(\/ PublishHint(a) \/ Collect(a) \/ ClaimNothing(a)
                \/ ScanMarkers(a) \/ ScanHints(a) \/ PollAgain(a))

FairSpec == Spec /\ Fairness

\* A Stop hook stops waiting of itself, whatever its grace: no marker and no hint
\* stays live for ever.
WaitEnds == \A a \in Agents : hooks[a].pc = "sleep" ~> hooks[a].pc = "idle"

================================================================================
