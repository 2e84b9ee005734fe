----------------------------- MODULE ChangeIngress -----------------------------
(***************************************************************************)
(* How a change of a file becomes part of a batch (watch_files.py): the    *)
(* observer's thread puts the paths of notifications into LatestPathQueue, *)
(* and the main loop collects them in next_triggered_batch until the       *)
(* files are quiet, a cap is reached, or an agent's flush hint is due.     *)
(* MaterializedPathSuppression drops the late notifications of bytes that  *)
(* a hint has already brought in.                                          *)
(*                                                                         *)
(* The hints themselves are the subject of FlushHints, and what is done    *)
(* with a submitted batch that of ReviewScheduler.  Here a hint is the     *)
(* bytes it names, and a submission the digests that the main loop reads.  *)
(* Numbers of events, which only statistics use, are left out.             *)
(***************************************************************************)
EXTENDS Integers, FiniteSets, Sequences, SequencesExt

CONSTANTS
    Paths,     \* watched paths
    AgentPaths,  \* those that agents edit
    Digests,   \* contents of files
    ContentsOf,  \* ContentsOf[p]: those that are written to p
    NoDigest,
    NoPath,
    Debounce   \* the quiet period, in ticks

ASSUME IngressAssumption ==
    /\ NoDigest \notin Digests
    /\ NoPath \notin Paths
    /\ AgentPaths \subseteq Paths
    /\ IsFiniteSet(Paths)
    /\ ContentsOf \in [Paths -> SUBSET Digests]
    /\ Debounce \in Nat \ {0}

VARIABLES
    content,   \* the files on disk
    notices,   \* paths with a notification that the observer has yet to deliver
    handler,   \* the path that ChangeHandler._enqueue is about to put
    queue,     \* LatestPathQueue._pending, in the order of its keys
    observed,  \* paths with an entry in observed_at
    hint,      \* the bytes that a pending flush hint names
    entries,   \* MaterializedPathSuppression.entries
    loop,      \* the main loop
    submitted  \* history: of each path's last submission, the digest read and, if it was
               \* for a hint, that of the hint

vars == <<content, notices, handler, queue, observed, hint, entries, loop, submitted>>

NoDigests == [p \in Paths |-> NoDigest]

\* The loop at the beginning of next_triggered_batch.
Waiting ==
    [pc |-> "first", batch |-> {}, suppressed |-> {}, quiet |-> 0, cap |-> 0,
     hint |-> NoDigests]

Init ==
    /\ content \in {f \in [Paths -> Digests] : \A p \in Paths : f[p] \in ContentsOf[p]}
    /\ notices = {}
    /\ handler = NoPath
    /\ queue = <<>>
    /\ observed = {}
    /\ hint = NoDigests
    /\ entries = NoDigests
    /\ loop = Waiting
    /\ submitted = [p \in Paths |-> {content[p]}]

Queued == ToSet(queue)

\* LatestPathQueue.put: a queued path keeps its place.
Put(q, p) == IF p \in ToSet(q) THEN q ELSE Append(q, p)

\* The queue after all paths of S were put, in one order or another.
PutAll(q, S) == {q \o added : added \in SetToSeqs(S \ ToSet(q))}

(***************************************************************************)
(* Files, agents and the observer's thread.                                *)
(***************************************************************************)
\* A write notifies also if it leaves the bytes as they are.
Edit(p) ==
    /\ \E d \in ContentsOf[p] : content' = [content EXCEPT ![p] = d]
    /\ notices' = notices \union {p}
    /\ UNCHANGED <<handler, queue, observed, hint, entries, loop, submitted>>

\* A hook names the present bytes of a file its agent edited.
PublishHint(p) ==
    /\ p \in AgentPaths
    /\ hint' = [hint EXCEPT ![p] = content[p]]
    /\ UNCHANGED <<content, notices, handler, queue, observed, entries, loop, submitted>>

Observe(p) ==
    /\ handler = NoPath
    /\ p \in notices
    /\ notices' = notices \ {p}
    /\ handler' = p
    /\ observed' = observed \union {p}
    /\ UNCHANGED <<content, queue, hint, entries, loop, submitted>>

Enqueue ==
    /\ handler # NoPath
    /\ queue' = Put(queue, handler)
    /\ handler' = NoPath
    /\ UNCHANGED <<content, notices, observed, hint, entries, loop, submitted>>

(***************************************************************************)
(* MaterializedPathSuppression.                                            *)
(***************************************************************************)
Matches(p) == entries[p] # NoDigest /\ entries[p] = content[p]

\* Mutant: an entry outlives the bytes it was recorded for.
KeptEntries(p) == entries

\* matches forgets an entry that does not match.
EntriesAfter(p) == IF Matches(p) THEN entries ELSE [entries EXCEPT ![p] = NoDigest]

\* The end of an entry's ttl_seconds.
Expire(p) ==
    /\ entries[p] # NoDigest
    /\ entries' = [entries EXCEPT ![p] = NoDigest]
    /\ UNCHANGED <<content, notices, handler, queue, observed, hint, loop, submitted>>

(***************************************************************************)
(* next_triggered_batch.                                                   *)
(***************************************************************************)
Taking(p) ==
    /\ queue # <<>>
    /\ p = Head(queue)
    /\ queue' = Tail(queue)
    /\ entries' = EntriesAfter(p)
    /\ UNCHANGED <<content, notices, handler, observed, hint, submitted>>

SuppressFirst ==
    /\ loop.pc = "first"
    /\ \E p \in Queued :
        /\ Taking(p)
        /\ Matches(p)
        /\ loop' = [loop EXCEPT !.suppressed = @ \union {p}]

TakeFirst ==
    /\ loop.pc = "first"
    /\ \E p \in Queued :
        /\ Taking(p)
        /\ ~ Matches(p)
        /\ loop' = [loop EXCEPT !.pc = "collect", !.batch = {p},
                                !.quiet = Debounce, !.cap = 2 * Debounce]

\* The loop looks at its deadlines before it takes another path.
Due == loop.quiet = 0 \/ loop.cap = 0

SuppressMore ==
    /\ loop.pc = "collect" /\ ~ Due
    /\ \E p \in Queued :
        /\ Taking(p)
        /\ Matches(p)
        /\ loop' = [loop EXCEPT !.suppressed = @ \union {p}]

\* Mutant: the cap moves with the quiet period.
Prolonged == [loop EXCEPT !.quiet = Debounce, !.cap = 2 * Debounce]

\* Every further change starts the quiet period again.
Postponed == [loop EXCEPT !.quiet = Debounce]

TakeMore ==
    /\ loop.pc = "collect" /\ ~ Due
    /\ \E p \in Queued :
        /\ Taking(p)
        /\ ~ Matches(p)
        /\ loop' = [Postponed EXCEPT !.batch = @ \union {p}]

Tick ==
    /\ loop.pc = "collect" /\ ~ Due
    /\ loop' = [loop EXCEPT !.quiet = @ - 1, !.cap = @ - 1]
    /\ UNCHANGED <<content, notices, handler, queue, observed, hint, entries, submitted>>

Flush ==
    /\ loop.pc = "collect" /\ Due
    /\ loop' = [loop EXCEPT !.pc = "observe", !.quiet = 0, !.cap = 0]
    /\ UNCHANGED <<content, notices, handler, queue, observed, hint, entries, submitted>>

\* The collected paths that a hint does not name go back to the queue.
Deferred(hinted) == loop.batch \ hinted

\* consume_flush_hint drops what no longer has the bytes it names.
TakeHint ==
    /\ loop.pc \in {"first", "collect"}
    /\ hint # NoDigests
    /\ hint' = NoDigests
    /\ LET hinted == {p \in Paths : hint[p] # NoDigest /\ hint[p] = content[p]}
           OnHinted(f) == [p \in Paths |-> IF p \in hinted THEN hint[p] ELSE f[p]]
       IN IF hinted = {} THEN UNCHANGED <<queue, entries, loop>>
          ELSE /\ queue' \in PutAll(queue, Deferred(hinted))
               /\ entries' = OnHinted(entries)
               /\ loop' = [loop EXCEPT !.pc = "observe", !.batch = hinted, !.quiet = 0, !.cap = 0,
                                       !.suppressed = @ \union (loop.batch \cap hinted),
                                       !.hint = OnHinted(NoDigests)]
    /\ UNCHANGED <<content, notices, handler, observed, submitted>>

(***************************************************************************)
(* The main loop submits the batch.                                        *)
(***************************************************************************)
\* Mutant: suppressed paths keep their time of observation.
ConsumedOfBatch == loop.batch

Consumed == loop.batch \union loop.suppressed

ConsumeObserved ==
    /\ loop.pc = "observe"
    /\ observed' = observed \ Consumed
    /\ loop' = [loop EXCEPT !.pc = "submit", !.suppressed = {}]
    /\ UNCHANGED <<content, notices, handler, queue, hint, entries, submitted>>

Submit ==
    /\ loop.pc = "submit"
    /\ submitted' = [p \in Paths |->
                        IF p \in loop.batch
                        THEN {content[p], loop.hint[p]} \ {NoDigest}
                        ELSE submitted[p]]
    /\ loop' = Waiting
    /\ UNCHANGED <<content, notices, handler, queue, observed, hint, entries>>

Loop ==
    \/ SuppressFirst
    \/ TakeFirst
    \/ SuppressMore
    \/ TakeMore
    \/ Flush
    \/ ConsumeObserved
    \/ Submit

Next ==
    \/ \E p \in Paths : Edit(p) \/ PublishHint(p) \/ Observe(p) \/ Expire(p)
    \/ Enqueue
    \/ TakeHint
    \/ Tick
    \/ Loop

Spec == Init /\ [][Next]_vars

\* The observer delivers notifications in the order of its own queue, the threads run,
\* and time passes.  Files may be written and hinted for ever, but hooks do not publish
\* hints as fast as the loop takes them: again and again it gets to its queue.
Fairness ==
    /\ \A p \in Paths : SF_vars(Observe(p))
    /\ WF_vars(Enqueue)
    /\ WF_vars(Loop)
    /\ SF_vars(TakeFirst \/ SuppressFirst)
    /\ SF_vars(Tick)

FairSpec == Spec /\ Fairness

(***************************************************************************)
(* Properties.                                                             *)
(***************************************************************************)
\* Every variable has its type, and the queue holds no path twice.
TypeOK ==
    /\ content \in [Paths -> Digests]
    /\ notices \subseteq Paths
    /\ handler \in Paths \union {NoPath}
    /\ queue \in Seq(Paths) /\ IsInjective(queue)
    /\ observed \subseteq Paths
    /\ hint \in [Paths -> Digests \union {NoDigest}]
    /\ entries \in [Paths -> Digests \union {NoDigest}]
    /\ loop \in [pc : {"first", "collect", "observe", "submit"}, batch : SUBSET Paths,
                 suppressed : SUBSET Paths, quiet : 0 .. Debounce, cap : 0 .. 2 * Debounce,
                 hint : [Paths -> Digests \union {NoDigest}]]
    /\ submitted \in [Paths -> SUBSET Digests]

\* The ways in which a path may still get into a batch.
Coming(p) ==
    \/ p \in notices \union Queued \union loop.batch
    \/ handler = p

\* No change is lost on its way to the scheduler, whatever is suppressed, deferred or
\* flushed early: the main loop will look again at every file whose bytes are neither
\* those it last submitted nor those of the hint that this submission was for.  The
\* second case is a file that changed between its hint and its submission and back.
NoChangeLost ==
    \A p \in Paths :
        content[p] \notin submitted[p] => Coming(p)

\* The time at which a change was observed ends with the batch that reports it: none is
\* left over to make a later, unrelated batch look as if it had waited since then.
NoStaleObservation ==
    \A p \in observed : Coming(p) \/ p \in loop.suppressed

\* The loop has p in the batch it submits, or has dropped its notification, as a hint
\* submitted these bytes.
Handled(p) == p \in loop.suppressed \/ (loop.pc = "submit" /\ p \in loop.batch)

\* A hint interrupts a collection and puts p back into the queue.
PutsBack(p) == TakeHint /\ p \in loop.batch /\ p \notin loop'.batch

\* A file that is written all the time is still submitted, and so is every other path
\* that waits with it, unless hints put it back into the queue for ever.
ChangeIsSubmitted ==
    \A p \in Paths : []<>(Coming(p) => Handled(p)) \/ []<><<PutsBack(p)>>_vars

\* "Continuous ordinary filesystem activity is flushed after at most twice the
\* configured quiet window so a hot file cannot indefinitely postpone another file"
\* (README).  It does not hold: with each hint for another file the quiet period and
\* the cap of the paths that it puts back start again.
EveryChangeIsSubmitted == \A p \in Paths : []<>(Coming(p) => Handled(p))

===============================================================================
