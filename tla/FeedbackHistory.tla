---------------------------- MODULE FeedbackHistory ----------------------------
(***************************************************************************)
(* What the watcher remembers from one review to the next: the tracker of  *)
(* findings, in memory, and the rounds of feedback per file, in            *)
(* policy/rounds.json.  A review is flushed, answered, classified under    *)
(* publish_if_current and then handed to SpoolSink.publish, which counts   *)
(* its rounds before it looks for duplicates and links the batch.          *)
(*                                                                         *)
(* Files change at any time, the session may end between two steps, the    *)
(* watcher may be killed between any two of them, and the wall clock, from *)
(* which all times are taken, may be set back.  spool holds the            *)
(* fingerprints in pending/, claimed/ and acknowledged/; FeedbackSpool     *)
(* says how they move between the three.  Size limits and malformed state  *)
(* files are left out.                                                     *)
(***************************************************************************)
EXTENDS FindingLifecycle

CONSTANTS
    Digests,       \* contents of files
    Fingerprints,  \* of findings, positive numbers
    Lines,
    MaxFindings,   \* MAX_FINDINGS
    MaxRounds,     \* max_feedback_rounds
    ResetAfter,    \* round_reset_seconds
    Setups,        \* whether there is a spool, what may be reported of each file, and a
                   \* bound on edits
    MaxTime, MaxReviews,  \* bounds
    MaxFaults      \* bound on changes of the clock, kills and new sessions together

VARIABLES
    setup,       \* how the watcher was started, and what its model may say
    content,     \* the files on disk
    now,         \* the wall clock
    generation,  \* of the agent's session
    tracker,     \* FindingLifecycleTracker._files
    rounds,      \* policy/rounds.json
    spool,       \* fingerprints of the batches in the spool
    call,        \* the review in progress
    used,        \* how often each bounded event took place
    last,        \* history: of each path since the watcher started, the newest time of
                 \* a snapshot, all findings of the last one, and whether the tracker
                 \* has had room for them ever since
    busy         \* history: the reviews of each path since its last quiet interval and
                 \* the contents that were published of it

vars == <<setup, content, now, generation, tracker, rounds, spool, call, used, last, busy>>


Findings == [fingerprint : Fingerprints, line : Lines]

ASSUME HistoryAssumption ==
    /\ NoFingerprint \notin Fingerprints
    /\ MaxFindings \in Nat /\ MaxTrackedFindings <= MaxFindings
    /\ MaxRounds \in Nat \ {0}
    /\ ResetAfter \in Nat
    /\ Setups \subseteq [spooling : BOOLEAN, edits : Nat,
                   reports : [Paths -> SUBSET Seq(Findings)]]
    /\ {MaxTime, MaxReviews, MaxFaults} \subseteq Nat

AllReports == UNION {s.reports[p] : s \in Setups, p \in Paths}

NoRound == [round |-> 0]

\* No review, and one whose batch has been answered.
Idle == [pc |-> "idle"]

Batches ==
    [at : 0 .. MaxTime, files : SUBSET Paths, stale : SUBSET Paths,
     digests : [Paths -> Digests], generation : 0 .. MaxFaults,
     findings : [Paths -> Seq(Findings)]]

Unseen == [at |-> -1, findings |-> <<>>, kept |-> FALSE]
Untouched == [at |-> 0, generation |-> 0, reviews |-> 0, published |-> {}]

Init ==
    /\ setup \in Setups
    /\ content \in {[p \in Paths |-> d] : d \in Digests}
    /\ now = 0
    /\ generation = 0
    /\ tracker = EmptyTracker
    /\ rounds = [p \in Paths |-> NoRound]
    /\ spool = {}
    /\ call = Idle
    /\ used = [reviews |-> 0, edits |-> 0, faults |-> 0]
    /\ last = [p \in Paths |-> Unseen]
    /\ busy = [p \in Paths |-> Untouched]

Cited(batch) == {p \in Paths : batch.findings[p] # <<>>}

(***************************************************************************)
(* The environment.                                                        *)
(***************************************************************************)
Edit(p) ==
    /\ setup.reports[p] # {} /\ used.edits < setup.edits
    /\ used' = [used EXCEPT !.edits = @ + 1]
    /\ \E d \in Digests \ {content[p]} : content' = [content EXCEPT ![p] = d]
    /\ UNCHANGED <<setup, now, generation, tracker, rounds, spool, call, last, busy>>

Tick ==
    /\ now < MaxTime
    /\ now' = now + 1
    /\ UNCHANGED <<setup, content, generation, tracker, rounds, spool, call, used, last, busy>>

Fault ==
    /\ used.faults < MaxFaults
    /\ used' = [used EXCEPT !.faults = @ + 1]

SetClockBack ==
    /\ Fault
    /\ \E t \in 0 .. now - 1 : now' = t
    /\ UNCHANGED <<setup, content, generation, tracker, rounds, spool, call, last, busy>>

\* A session ends and the next one binds the route, which publish's lock excludes.
NextSession ==
    /\ Fault
    /\ call.pc # "link"
    /\ generation' = generation + 1
    /\ UNCHANGED <<setup, content, now, tracker, rounds, spool, call, last, busy>>

\* The watcher is killed and started again.
Restart ==
    /\ Fault
    /\ tracker' = EmptyTracker
    /\ call' = Idle
    /\ last' = [p \in Paths |-> Unseen]
    /\ UNCHANGED <<setup, content, now, generation, rounds, spool, busy>>

(***************************************************************************)
(* The worker.                                                             *)
(***************************************************************************)
\* The provider answers a review of the files S with the given reports of them.
Answer(S, report) ==
    /\ call.pc = "idle"
    /\ used.reviews < MaxReviews
    /\ \A p \in S : report[p] \in setup.reports[p]
    /\ Total(report, S) <= MaxFindings
    /\ call' = [pc |-> "answered", events |-> NoEvents,
                batch |-> [at |-> now, files |-> S, stale |-> {}, digests |-> content,
                           generation |-> generation,
                           findings |-> [p \in Paths |-> IF p \in S THEN report[p]
                                                         ELSE <<>>]]]
    /\ UNCHANGED <<setup, content, now, generation, tracker, rounds, spool, used, last, busy>>

\* The reviewed paths whose files still have the reviewed bytes.
Same(batch) == {p \in batch.files : content[p] = batch.digests[p]}

DiscardResult ==
    /\ call.pc = "answered"
    /\ call' = Idle
    /\ UNCHANGED <<setup, content, now, generation, tracker, rounds, spool, used, last, busy>>

\* The present history has room for a path and all its findings.
Fits(seen, p) ==
    LET recent == {q \in Paths : seen[q].at >= seen[p].at}
    IN /\ Cardinality(recent) <= MaxTrackedFiles
       /\ Total(FindingsOf(seen), recent) <= MaxTrackedFindings

Remember(batch, compared) ==
    LET seen == [p \in Paths |->
                    IF p \in compared
                    THEN [at |-> IF batch.at > last[p].at THEN batch.at ELSE last[p].at,
                          findings |-> batch.findings[p], kept |-> TRUE]
                    ELSE last[p]]
    IN last' = [p \in Paths |-> [seen[p] EXCEPT !.kept = @ /\ Fits(seen, p)]]

\* fresh_findings, then classify.
ClassifyBatch ==
    /\ call.pc = "answered"
    /\ LET batch == Fresh(call.batch, Same(call.batch))
           stale == FreshEvents(call.batch, call.events, Same(call.batch))
       IN /\ call' = [pc |-> "publish", batch |-> InOrder(tracker, batch),
                      events |-> Classified(tracker, batch, stale)]
          /\ tracker' = Tracked(tracker, batch)
          /\ Remember(batch, Compared(tracker, batch))
    /\ used' = [used EXCEPT !.reviews = @ + 1]
    /\ UNCHANGED <<setup, content, now, generation, rounds, spool, busy>>

(***************************************************************************)
(* SpoolSink.publish: _apply_round_policy, then duplicates.                *)
(***************************************************************************)
\* What makes two reviews of a file the same round: its bytes and how many
\* findings it has at each line.
Matter(batch, p) ==
    [digest |-> batch.digests[p],
     signature |-> [l \in Lines |-> Cardinality({i \in DOMAIN batch.findings[p] :
                                                   batch.findings[p][i].line = l})]]

Consecutive(batch, p) ==
    /\ rounds[p] # NoRound
    /\ rounds[p].generation = batch.generation
    /\ now - rounds[p].at <= ResetAfter

\* Mutant: other bytes start over.
RoundOfBytes(batch, p) ==
    IF Consecutive(batch, p) /\ rounds[p].matter.digest = batch.digests[p]
    THEN rounds[p].round + (IF rounds[p].matter = Matter(batch, p) THEN 0 ELSE 1)
    ELSE 1

\* Mutant: a path goes on counting where any path stopped.
RoundOfAnyPath(batch, p) ==
    IF \A q \in Paths : ~ Consecutive(batch, q) THEN 1
    ELSE 1 + Max({rounds[q].round : q \in Paths})

Round(batch, p) ==
    CASE ~ Consecutive(batch, p) -> 1
      [] Consecutive(batch, p) /\ rounds[p].matter = Matter(batch, p) -> rounds[p].round
      [] OTHER -> rounds[p].round + 1

Suppressed(batch) == {p \in Cited(batch) : Round(batch, p) > MaxRounds}

AfterRounds(batch) ==
    [p \in Paths |->
        IF p \in Cited(batch)
        THEN [matter |-> Matter(batch, p), round |-> Round(batch, p), at |-> now,
              generation |-> batch.generation]
        ELSE rounds[p]]

\* History: the reviews since the path was last left alone.
Continue(batch) ==
    busy' = [p \in Paths |->
        CASE p \notin Cited(batch) -> busy[p]
          [] p \in Cited(batch) /\ \/ busy[p].generation # batch.generation
                                   \/ now - busy[p].at > ResetAfter ->
                [at |-> now, generation |-> batch.generation, reviews |-> 1,
                 published |-> {}]
          [] OTHER -> [busy[p] EXCEPT !.at = now, !.reviews = @ + 1]]

\* The batch as publish sees it, and whether there is a spool that goes on to count it.
Offered == Fresh(call.batch, Same(call.batch))

Accepted ==
    setup.spooling /\ generation = call.batch.generation /\ Cited(Offered) # {}

RefuseBatch ==
    /\ call.pc = "publish"
    /\ ~ Accepted
    /\ call' = Idle
    /\ UNCHANGED <<setup, content, now, generation, tracker, rounds, spool, used, last, busy>>

CountRounds ==
    /\ call.pc = "publish"
    /\ Accepted
    /\ rounds' = AfterRounds(Offered)
    /\ Continue(Offered)
    /\ call' = IF Cited(Offered) = Suppressed(Offered) THEN Idle
               ELSE [pc |-> "link",
                     batch |-> OnlyIn(Offered, Paths \ Suppressed(Offered)),
                     events |-> FreshEvents(call.batch, call.events, Same(call.batch))]
    /\ UNCHANGED <<setup, content, now, generation, tracker, spool, used, last>>

\* SpoolSink._fingerprint: the cited files and lines.
Fingerprint(batch) ==
    [generation |-> batch.generation,
     files |-> {<<p, batch.digests[p]>> : p \in Cited(batch)},
     places |-> UNION {{<<p, batch.findings[p][i].line>> : i \in DOMAIN batch.findings[p]} :
                          p \in Cited(batch)}]

LinkBatch ==
    /\ call.pc = "link"
    /\ call' = Idle
    /\ spool' = spool \union {Fingerprint(call.batch)}
    /\ busy' = IF Fingerprint(call.batch) \in spool THEN busy
               ELSE [p \in Paths |->
                        IF p \in Cited(call.batch)
                        THEN [busy[p] EXCEPT !.published = @ \union {Matter(call.batch, p)}]
                        ELSE busy[p]]
    /\ UNCHANGED <<setup, content, now, generation, tracker, rounds, used, last>>

Next ==
    \/ \E p \in Paths : Edit(p)
    \/ Tick
    \/ SetClockBack
    \/ NextSession
    \/ Restart
    \/ \E S \in (SUBSET Paths) \ {{}} : \E report \in [S -> AllReports] : Answer(S, report)
    \/ DiscardResult
    \/ ClassifyBatch
    \/ RefuseBatch
    \/ CountRounds
    \/ LinkBatch

Spec == Init /\ [][Next]_vars

(***************************************************************************)
(* Properties                                                              *)
(***************************************************************************)
\* Every variable has its type.
TypeOK ==
    /\ content \in [Paths -> Digests]
    /\ now \in 0 .. MaxTime
    /\ generation \in 0 .. MaxFaults
    /\ DOMAIN tracker \subseteq Paths
    /\ Cardinality(DOMAIN tracker) <= MaxTrackedFiles
    /\ \A p \in DOMAIN tracker : tracker[p] \in [at : 0 .. MaxTime, findings : Seq(Findings)]
    /\ \A p \in Paths : rounds[p] = NoRound \/ rounds[p].round \in 1 .. MaxReviews
    /\ call = Idle \/ call.batch \in Batches

\* "A result ... which completes behind a newer snapshot, is stale" (README): nothing is
\* offered or published of a path from a snapshot older than the newest classified one,
\* as long as fewer than MaxTrackedFiles other paths were classified since.  The tracker
\* forgets the order of older files.
NewerSnapshotsWin ==
    call.pc \in {"publish", "link"} =>
        \A p \in Cited(call.batch) :
            Cardinality({q \in Paths \ {p} : last[q].at >= last[p].at}) < MaxTrackedFiles
                => call.batch.at >= last[p].at

\* The status of a finding follows from the last snapshot of its file, however many
\* reviews of other files lie between, as long as the tracker had room for its findings
\* (README: the 50 most recent ones): a fingerprint that both reviews report n times is
\* retained n times, and what is left of both is paired as replacements before anything
\* is new or no longer reported.  Nothing is lost and nothing told twice.
Times(s, x) == Cardinality({i \in DOMAIN s : s[i].fingerprint = x})
Told(events, status) == {i \in DOMAIN events : events[i].status = status}

StatusIsExact ==
    [][ClassifyBatch =>
        LET batch == Fresh(call.batch, Same(call.batch)) IN
        \A p \in Compared(tracker, batch) :
            last[p].kept =>
                LET before == last[p].findings
                    after == batch.findings[p]
                    told == call'.events[p]
                    Number(status) == Cardinality(Told(told, status))
                    pairs == Smaller(Len(before), Len(after)) - Number("retained")
                IN /\ \A x \in Fingerprints :
                        Smaller(Times(before, x), Times(after, x)) =
                            Cardinality({i \in Told(told, "retained") :
                                            told[i].finding.fingerprint = x})
                   /\ Number("replaced") = pairs
                   /\ Number("new") = Len(after) - Number("retained") - pairs
                   /\ Number("no_longer_reported") = Len(before) - Number("retained") - pairs]_vars

\* "Completed lifecycle conclusions are never silently truncated" (README): whatever
\* changes before a batch is published, its events fit the envelope, so that
\* fresh_findings never raises after the tracker has moved on.
EventsFitEnvelope ==
    call.pc = "publish" =>
        Total(FreshEvents(call.batch, call.events, Same(call.batch)), Paths) <= 2 * MaxFindings

\* "The spool delivers at most three consecutive review rounds for the same file"
\* (README): between two quiet intervals at most MaxRounds different results of a file,
\* by its bytes and cited lines, are published, whatever fails in between.
RoundsAreBounded ==
    \A p \in Paths : Cardinality(busy[p].published) <= MaxRounds

\* "Unrelated paths have independent budgets" (README): a file's findings are withheld
\* only if the file itself was counted MaxRounds times since it was last left alone.
WithheldForItsOwnRounds ==
    [][CountRounds =>
        \A p \in Cited(Offered) :
            (call' = Idle \/ p \notin Cited(call'.batch)) => busy'[p].reviews > MaxRounds]_vars

===============================================================================
