# A verification development for Quodet

Quodet watches a source tree, asks a language model to review what changed and
hands the findings to a coding agent through a private spool on disk. This
directory holds TLA+ models of its concurrent core, the TLC runs that check
them on small instances, and theorems about them that TLAPS proves for every
value of the constants. Paths and line numbers refer to the repository's root
(`watch_files.py`, `feedback.py`, `codex_feedback_hook.py`, ...).

    tlc -workers 2 -config SchedulerFiles.cfg MCReviewScheduler.tla
    tlapm ReviewSchedulerProofs.tla

## 1. The system

Three kinds of processes share a watched tree and a spool directory.

* **The watcher** (`quodet`, `watch_files.py`), one process per watched root
  (`SpoolSink.__init__` takes an exclusive lease of the root). It has a watchdog
  thread that enqueues changed paths, a *main thread* that drains them and
  submits batches, and one *provider worker* that reviews them.
* **Hooks** (`codex_feedback_hook.py`), short processes that the agent starts
  after an edit, when it stops and when its session ends. Several may run at
  once, and the agent kills a hook that exceeds its timeout.
* **Administration** (`agent_integration.py`): `init`, `status`, `cleanup`.

A fourth, the evaluation harness (`evals/agent_changes/live_eval.py`), runs the watcher as
a child process and scores what it prints.

The first three interact only through files: the watched files themselves, the session
state of the route (`sessions/`, under a shared/exclusive `flock`), in-flight
markers, flush hints and requests, and the spool's directories.

| component | state | operations | what is hard | correct when |
|---|---|---|---|---|
| change ingress (`ChangeHandler`, `LatestPathQueue`, `next_triggered_batch`, `MaterializedPathSuppression`) | queue of changed paths, debounce deadlines, recently materialised digests | enqueue, drain, materialise a hint, suppress | delayed and duplicate notifications; hints race them; a file that is never quiet | every change is submitted, and what is suppressed was |
| review scheduler (`CoalescingReviewScheduler`) | active review, one follow-up, cancel flags, markers, stop flag | `submit`, worker loop, `record_snapshots`, `publish_if_current`, `close` | file reads outside the lock; an answer races what supersedes it; fairness between hot and stable files | the newest bytes of each path end up reviewed, superseded results are never published |
| review pipeline (`review_files`, `_execute_review_command`) | snapshots, provider process | snapshot, call, validate, publish | timeouts, cancelled calls, failing sinks | findings are about the bytes given to the provider |
| session route (`verify_session_lease`, `release_session_lease`) | unbound / bound / closed, generation, owner | bind, release | an agent ends while a review or a delivery of it is in flight | nothing crosses a generation |
| in-flight markers (`begin_review`, `finish_review`) | marker files | create, transfer, unlink, expire | markers change hands between reviews; threads unlink them outside the lock | a marker exists while, and only while, its review is queued or running |
| finding lifecycle (`FindingLifecycleTracker`) | bounded map of fingerprints | classify a batch | long histories, eviction, stale files, clocks | a status follows from what was reported before, and older snapshots never win |
| feedback spool (`SpoolSink.publish`) | pending, dedupe | publish | check-then-act against hooks; kill between record and link | a batch is published once and survives |
| round policy (`_apply_round_policy`) | rounds per file | count, reset | counted before the batch is published; kills, duplicates, several files per batch | at most three rounds, none withheld for another file |
| hook consumer (`claim_feedback` ... `requeue_feedback`) | claimed, acknowledged, rejected | recover, claim, deliver a chunk, acknowledge, requeue, reject | concurrent hooks, kills between any two system calls, files changing under the review | every finding is delivered to the right agent, once |
| Stop grace, flush hints and requests | hint and request files | publish, request, consume, retire, wait | polling across two processes' steps | a wait ends, and not before its review does |
| route administration (`agent_integration.py`) | route manifest, hook files | init, status, cleanup | competing initializers; a directory moved away; cleanup against hooks, killed half way | replaces nothing of others, removes nothing undelivered, leaves nothing to a later session |
| live evaluation (`live_eval.py`, `replay.py`) | attempts and their outcomes, the queue of the watcher's lines | start, save, wait, record, write artifacts | answers carry no mark of their attempt; deadlines and interrupts | an outcome is its attempt's, the cap is kept, what was tried is recorded |
| model runner | (a process group per call) | preflight, run | timeouts, output limits | its outcomes are told apart |
| redaction, grounding, rendering, calibration, scoring | none | pure functions, offline tools | text and arithmetic | not concurrent |

`PROJECT.json` lists each with its status, and every hazard with its line.

## 2. Modules

| module | models | lines |
|---|---|---|
| `ReviewScheduler` | scheduler, main loop, worker, with the files, route and markers around it | `watch_files.py` 886-1107, 1223-1482, 1605-2018, 2085-2197, 2254-2470; `feedback.py` 607-633, 1247-1263, 1371-1440 |
| `MCReviewScheduler` | its instances for TLC | |
| `ReviewSchedulerProofs` | theorems about its types, follow-up, generations and markers | |
| `SchedulerChangesProofs` | theorems about what becomes of a change in it; extends the former | |
| `FeedbackDelivery` | what the spool promises, with no files and no processes | |
| `FeedbackSpool` | spool, `publish`, hook processes, system call by system call | `feedback.py` 458-540, 1188-1240, 1422-1470, 1742-1814; `codex_feedback_hook.py` 219-505, 577-745 |
| `MCFeedbackSpool`, `FeedbackSpoolProofs` | its instances and theorems | |
| `FlushHints` | flush hints and requests, and the Stop hook's wait, around the scheduler | `feedback.py` 705-1182, 1371-1470; `codex_feedback_hook.py` 59-134, 527-672; `watch_files.py` 1134-1147, 1693-2018, 2085-2169 |
| `MCFlushHints`, `FlushHintsProofs` | its instances and theorems | |
| `ChangeIngress`, `MCChangeIngress`, `ChangeIngressProofs` | from a notification to a batch: observer, queue, debounce, suppression | `watch_files.py` 1527-1630, 2021-2197, 2436-2452 |
| `FindingLifecycle` | the tracker's functions, and `fresh_findings` | `review_lifecycle.py` 23-239; `feedback.py` 355-404 |
| `FeedbackHistory`, `MCFeedbackHistory`, `FeedbackHistoryProofs` | tracker and rounds over a sequence of reviews, around them | `review_lifecycle.py` 44-142; `feedback.py` 1247-1470; `watch_files.py` 1396-1472 |
| `RouteAdministration`, `MCRouteAdministration`, `RouteAdministrationProofs` | `init` and `cleanup` | `agent_integration.py` 72-994 |
| `LiveEvaluation`, `MCLiveEvaluation`, `LiveEvaluationProofs` | the harness and its child watcher | `live_eval.py` 46-969; `replay.py` 48-82; `benchmark.py` 715-797; `model_runner.py` 388-539; `watch_files.py` 1003-1107 |

### ReviewScheduler

One critical section of `self._condition` is one action, and every read of files
or of the route that the code makes *outside* the lock is an action of its own:
that is where the interesting interleavings are.

* The main thread is `watcher.pc`: `idle` (`TakeEvents`, `TakeHint`), `read`
  (`current_path_digests`, evaluated before the call of `submit`), `capture`
  (`capture_session_generation`), `submit` (the critical section:
  `SubmitDuplicate` or `SubmitFollowUp`), `retire` (markers unlinked after the
  lock), `closing`, `closed`.
* The worker is `worker.pc`: `waiting` (`TakePending`, which slices by priority),
  `refresh` / `update` (`refresh_digests` outside, then stored under the lock),
  `chunk` (`bounded_review_batches`), `record` (`record_snapshots`), `start`,
  `provider`, `publish` (`publish_if_current`), `unmark`, `clear`.
* `pending` and `active` are `ScheduledReview`s; `settled` and `observed` are
  history variables: the bytes of the last unsuperseded review of a path, and the
  newest bytes given to `submit`.
* Bytes are versions; a digest is the version, or `NoDigest` for an unreadable
  file. Hash collisions are left out.
* A batch is any non-empty set of notified paths: debounce and suppression only
  choose which and when. A flush hint is any non-empty set of paths on behalf of
  the route's owner. That over-approximates the ingress.
* The provider answers, fails, or is cancelled, at any time.

### FeedbackSpool

Each system call on the spool is an action, because the route's lock, which
`publish` and `claim_feedback` hold *shared*, excludes only binding and
releasing. `pending[b]`, `claimed[b]`, `acknowledged[b]` and `rejected[b]` are the
findings in the file of that name, `{}` if there is none.

* The watcher: `StartPublish`, three separate look-ups, `RecordBatch`, `LinkBatch`.
* A hook: `StartHook` (bind under the exclusive lock), `EnterClaim` (shared lock,
  owner checked again), `FindExpired` / `RecoverClaim` (stat, then rename: two
  calls), `ListPending`, `Claim`, `LoadClaim`, `DropStale`, `PrintChunk`, then
  `Acknowledge` or `RewriteClaim` and `RestorePending`. `RejectClaim` is the path of
  a claim whose file is gone.
* `KillHook` and `KillPublisher` may strike between any two of them.
* A batch enters `pending/` as a *hard link* of its record in `dedupe/`, and
  `os.replace` does nothing when both names are links of one file. `Left` and
  `SameFile` model that; a file has all findings of its batch exactly if it still
  is the record, since a rewritten one lacks at least the chunk that was printed.
* `Expire` needs the hook to be gone: generated hooks have timeouts of ten seconds
  or slightly more (`agent_integration.py` 498, 516) and a claim expires after 300.
* Which pending batch a hook claims first is left open (the code takes the oldest).

`FeedbackDelivery` has `available`, `delivered` and `dropped` and says only: what was
published stays available until it was delivered or found stale.
`FeedbackSpool` maps `available` to the findings in `pending/` and `claimed/`
(`Delivery == INSTANCE FeedbackDelivery WITH available <- Available`), and
`DeliverySpec` is checked as a property.

### FlushHints

After an edit, the agent's hook publishes a hint: the digests of the files it changed,
under its session and turn. The main loop looks at the hints every 25 ms, before it
looks at file notifications. It submits a group once it is quiet, old, full or asked
for; `begin_review` writes an in-flight marker and only then unlinks the hints. The Stop
hook claims, lists the markers, lists the hints, sleeps and starts over.

* A hook is `hooks[a].pc`: `hint`, `collect` after an edit; `claim`, `markers`, `hints`,
  `sleep` while it stops. `first` is `validate_hint_files`: only the first look compares
  the hints with the files.
* `consume_flush_hint` is `TakeHints` or `TakeNothing`. `HintGroups` are sets of the owner's
  hints, to which `GroupsUpTo`, a function of the hint's name, adds one hint after another
  (`AddHint`); `ActiveMembers` are those that are still true, `Purged` unlinks the others up
  to the group that decides.
* The scheduler's critical sections are `SubmitDuplicate`, `SubmitFollowUp` (which end with
  the marker written; `UnlinkHints` follows, still under the lock), `StartReview`,
  `ReadFiles`, `PublishReview` / `LinkBatch` (hints retired, then the batch linked),
  `RetireHints` and `FinishReview`. Priority slices, marker names and the digests that
  `ReviewScheduler` tells apart from snapshots are abstracted.
* `Tick` ages hints. A tick is far longer than a poll, so it takes place only after a
  poll that neither took nor removed anything (`look` is `"vain"`), and not while a hook is
  about to publish.
* `owed` remembers, per path, hinted bytes that no review has read yet.

### ChangeIngress

* The observer's thread is `Observe` (the time of a change is recorded) and `Enqueue`
  (its path is put into `LatestPathQueue`): two steps, between which the main loop runs.
* The main thread is `loop.pc`: `first` (`SuppressFirst`, `TakeFirst`), `collect`
  (`SuppressMore`, `TakeMore`, `Tick`, `Flush`), `observe` (`ConsumeObserved`), `submit`.
  `quiet` and `cap` are what is left of the debounce and of twice the debounce.
* `TakeHint` is `consume_flush_hint` as the loop sees it: it submits the hinted files that
  are still as the hint says, records their digests for suppression, and puts the other
  collected paths back into the queue (`Deferred`).
* Hints for the files that agents edit come for ever. `ContentsOf` says what is written to a
  file; a write of the same bytes notifies too.
* `submitted` is history. An entry of the suppression may expire at any time.

### FindingLifecycle and FeedbackHistory

`FindingLifecycle` has the functions: `Fresh` and `FreshEvents` (`fresh_findings`), and
`Classified` and `Tracked` (`classify`). Findings and events are sequences per path, since
nothing tells apart the order of those of two files. What fits in the tracker or the envelope
is a number of places in these sequences (`Total`); the loop of `classify` over the findings
of a file is a recursive function of how many it has looked at (`Match`).
`FeedbackHistory` lets reviews follow each other: `Answer`, `ClassifyBatch` (under
`publish_if_current`), then `RefuseBatch` or `CountRounds` and `LinkBatch`. Between any two,
files change, the clock goes on or is set back, the watcher is killed (`Restart` loses the
tracker, not the rounds), and the session ends. A setup is with or without a spool;
what the model may say of each file is its `reports`. `last` and `busy` are history: what
the tracker and the rounds would say if they forgot nothing.

### RouteAdministration

Two scenarios that share no state: `"setup"` and `"use"`.

* An initializer is `inits[i].pc`: `CheckRoute`, `ReadSettings` (it holds the *directory* it
  opened), `CheckRouteAgain` (576-579, where an existing route is compared), `LookForRoute`
  (587, where it is not), `CreateRoute` (the link, and the comparison if it fails),
  `CreateSettings`, `ConfirmSettings`, `FinalRead`. `seen` is history: whose route it has
  compared with its own. A user writes the settings or replaces their directory at any time; an
  initializer may be killed and run again.
* `cleanup` looks at `pending/`, then at `claimed/`, and then removes in the order `Removed`.
  It excludes the watcher and what takes the route's lock (`Unlocked`), but not `Requeue`
  and `Acknowledge` of a hook that has its claim. It may be killed before any removal.
* Whose file it is, is part of the file's value. The code tells files apart by their device
  and inode (`agent_integration.py` 339-343), so that an edit in place, or a replacement
  between that look and the `unlink`, is told apart in the model only.

### LiveEvaluation

* The harness is `harness.pc`: `start`, `startup`, `attempt`, `replay` (one `SaveFile` per
  file), `wait` (`ReadBanner`, `ReadEvent`, `WaitTimesOut`), `stopping`, `exited`.
  `Interrupt` strikes anywhere; `FinishInterrupted` is a second one during the clean-up.
* The harness starts its watcher with `--poll`. `SaveFile` writes a file, `NoticeSaves` is
  a look of the observer that sees any of the saves so far, and `TakeBatch` takes what was
  noticed once it is `Quiet`. An `--inter-file-delay` is `short` if together with
  the observer's period it is below the debounce, as by default (0.25 s, 1 s and 3 s);
  `near` if only by itself; `spread` if it is not. Only after `short` delays does `Quiet` wait
  until some attempt was noticed wholly.
* The watcher takes a batch, reviews it (`StartReview`, `RunnerBlocks`,
  `CallProvider`, `ProviderAnswers`, ...), and prints. It need do nothing at all.
* Every printed line goes to `output`, which the harness reads in order and never drains.
  `source` is history: which attempt saved the files a review was about.

The components share the session route and the spool, and are checked one by one: each
takes from the others any input they may give at any time. `ReviewScheduler` takes any
batch and any hint, `FeedbackSpool` any publication, `FeedbackHistory` any answer, and
`FlushHints` and `ChangeIngress` have just as much of the others as a hook, or a
notification, can see of them.

## 3. Runs

All bounds are in the `.cfg` files. `CHECK_DEADLOCK FALSE` is set where
the scheduler and the spool may really stop: the watcher is closed, or nobody starts a
hook. In `FlushHints` a Stop hook can always start, and deadlock is checked.

| run | question | bounds and why they suffice |
|---|---|---|
| `SchedulerFiles` | is every change always on its way to a review, is it reviewed in the end, is a publication ever older than a submission, does `close` end the worker | 2 files, one of 4 versions (the third unreadable), one of 3; 1 file per provider call so that reviews have several calls; interrupts everywhere in the loop |
| `SchedulerHotFile` | does a file that never stops changing starve a stable one | one file flips for ever, one changes once |
| `SchedulerRoutes` | do markers and generations follow the owner of the route, is a marker ever leaked or unlinked twice | 2 agents (symmetric), 2 generations, 2 files of which one changes, 1 file per provider call so that reviews are sliced, failing sinks, `close`, 5 marker names (more are never live) |
| `SpoolSequentialHooks` | hooks one after the other: nothing lost, nothing to the wrong agent, nothing twice, all delivered | 2 batches of 2 generations, 2 agents, 2 findings in one-finding chunks, 1 kill |
| `SpoolConcurrentHooks` | everything at once: do hooks share a claim before one is killed, does a copy of a batch ever lack an undelivered finding, is a batch that was recorded but not linked repaired | 2 hooks (symmetric), 2 batches of one generation; the second, published again, reports a finding of the first; 1 kill |
| `ChangeIngress` | is a change ever lost or left waiting between the notification and the scheduler | 2 files written for ever, one of them hinted any number of times and with 2 contents; writes of the other leave it as it is, but notify all the same (what may be forgotten of it is its place, its batch and its time); a debounce of 2 ticks, so that a change can come before, within and at the end of it |
| `HintsFiles` | does a hinted edit stay visible to a Stop hook until it is reviewed, are hints taken in time and on request | 2 files (symmetric), 2 hints that name either or both, with and without a turn, a turn's maximum age of 2 ticks |
| `HintsWait` | does a Stop hook's wait always end, whatever its grace | 1 file, 1 hint, an edit by somebody else that supersedes its review, 2 generations |
| `FeedbackHistory` | are statuses and rounds right over a history of reviews | 3 reviews of 3 files against a tracker of 2 files and 2 findings (so both bounds are exceeded); 1 round; 1 kill, new session or change of the clock |
| `RouteAdministration` | do initializers, users, cleanups and hooks spoil each other's files | 2 initializers of one spool or one kind of agent; 2 cleanups, 3 generations, 2 batches, 1 agent |
| `Evaluation` | are outcomes, calls and artifacts of a run what it claims | suites of 1 and 2 cases of 1 and 2 files, 1 and 2 attempts (a challenge plan freezes 2 here and 3 in the code), with and without plan and cap, files together, nearly together and apart: 10 command lines |
| `SchedulerReverts` | see 5.1 | the smallest that shows it |

The properties worth knowing:

* `NoLostChange`: the present version of every path was covered by a review that ended
  unsuperseded, or is queued, in the main thread's hands, in the follow-up, or being
  reviewed. It quantifies over all the places a change can hide.
* `FollowUpComplementsActive`: a current review and the follow-up are disjoint; a
  superseded review is wholly requeued.
* `PublishedIsNewestObserved`: no publication covers an older version of a file than
  one that was submitted before.
* `MarkersAreHeld`, `OwnedReviewIsMarked`: a marker file exists exactly while somebody
  is responsible for it, and whenever the owner's review is queued or running.
* `SpooledWithinGeneration`: what the spool accepts was reviewed from the start of the
  call to its delivery in one generation.
* `CopiesAreComplete`: no file, and nothing in a hook's hands that will be written back,
  lacks a finding that was neither delivered nor dropped.
* `DeliveredToOwner`: a finding is printed only for the agent its generation was bound to.
* `HintedEditIsVisible`: from the publication of a hint until a review has read those bytes,
  or they change, the agent's Stop hook can see a hint, or the marker of a review of the
  file or of the follow-up behind it. Hook, main loop and worker all unlink hints.
* `HintsAreTakenInTime`, `FlushedOnRequest`: no live hint grows older than
  `agent_turn_max_age`, and no time passes on the first group once it is asked for.
* `WaitEnds`: a Stop hook stops waiting even if its grace never ended.
* `ClaimedOnce`: no two hooks hold one batch, up to the first kill, and except for a batch of
  several messages that is published again (`MovesForward`); both exceptions are real, see 5.2.
* `PublishedIsOffered`: a publication that is not killed leaves each finding of its batch where
  hooks find it, or it was delivered or found stale; one that was killed between its record
  and its link is repaired and not taken for published.
* `DeliveredOnce`, `EventuallyDelivered`, `DeliverySpec`: as named.
* `NoChangeLost`: a file whose bytes are not those last submitted will be looked at again:
  some notification, place in the queue or batch still has it. `ChangeIsSubmitted`: with
  files that are written for ever it is submitted in the end, unless hints put it back into
  the queue for ever (5.8). `NoStaleObservation`: no time of
  an observation outlives the batch that reports it.
* `StatusIsExact`: the events of a review are exactly the difference of the multisets of
  findings it and the *last* review of the file reported, as long as the tracker had room;
  `last` never forgets, so this is a statement on whole histories and on eviction.
* `NewerSnapshotsWin`, `EventsFitEnvelope`: nothing older than the newest snapshot is
  offered; a batch never has more events than the envelope takes, whatever became stale.
* `RoundsAreBounded`, `WithheldForItsOwnRounds`: never more than the allowed rounds of a
  file between two quiet intervals, and none is withheld because of another file.
* `NothingIsOverwritten`, `SuccessIsInstalled`: what is there is not replaced; an
  initializer that reports success finds its own settings where agents read, and its own
  route, or one that was linked between its two look-ups (5.9).
* `NothingOutlivesItsSession`: generations start from 0 after a cleanup, also a killed one;
  nothing in the spool is of another session that had the same number.
* `QuietCleanupKeepsFeedback`: cleanup removes nothing undelivered if no hook held a claim.
* `AnswersAreOwn`, `CallsAreAuthorised`, `AttemptsAreKept`, `ArtifactIsScorable`: see the
  comments in `LiveEvaluation`. The first two are about runs whose cases reach the watcher
  as one batch each (`Batched`): cases of one file, or `short` delays; see 5.7. `RunEnds`: the harness ends whatever the watcher does.

The runs check `TypeOK` where a wrong type would be a wrong protocol. Those of `ChangeIngress`
and `FlushHints` are left to their proofs, and the types of `LiveEvaluation` and of what `FeedbackHistory` has in
flight are parts of the invariants of theirs (`TypeInv`, `CallInv`).

**Fairness.** `ReviewScheduler` assumes weak fairness of each thread's own steps
(they are threads, every provider call carries a timeout) and, per path, strong
fairness of draining the queue, which is FIFO (`LatestPathQueue`). `FeedbackSpool`
assumes that the watcher and a hook that was started finish what they do, that time
passes (`Expire`), and that some agent keeps starting hooks whenever it can.
`FlushHints` assumes weak fairness of the main loop, of the worker (every provider call
ends), of time and of each hook's steps, but not of the end of a grace.
`ChangeIngress` assumes weak fairness of both threads, and of each path strong
fairness of its notification: the observer delivers its own queue in order, and an edit
that comes meanwhile does not move a path back. Strong fairness of `Tick` says that time
passes however busy the loop is, and that of taking a path from the queue (`TakeFirst`,
`SuppressFirst`) that hints do not come as fast as the loop can look for them, every 25 ms;
they may come as often as that and more slowly, for ever. `LiveEvaluation` assumes weak fairness of
the harness alone: each of its waits has a deadline, and the watcher may do nothing.
Nothing else is assumed of hints, and nothing of edits, sessions, kills or interrupts.
`ReviewScheduler` has no `notify`: a waiting worker goes on as soon as what it waits for
holds, so that a missing `notify_all` is not something these runs could find.

**Mutants.** Operators commented `Mutant:` in the modules are plausible bugs (a digest
comparison dropped, a remainder not requeued, a marker kept across routes, a batch
acknowledged with findings left, ...). Nothing refers to them; substituting one
for the definition below it must break the property that `PROJECT.json` names.

## 4. Theorems

`tlapm` proves the following for every value of the constants (any number of files,
versions, agents, hooks, batches, generations, kills), from the `ASSUME`s of the modules:
bounds are naturals, null values are not values, a batch cites at least one finding, the
watched paths are finitely many, a case of an evaluation has one to three files of its own,
a suite takes each case once, a cost cap comes with a plan (`live_eval.py` 647-660), and the
tracker keeps no more findings than one result may have (both are 50: `review_lifecycle.py` 20,
`feedback.py` 36).

Every proof shows an invariant inductive, one step per action. The column says what
had to be added to the property, and why.

| theorem | says | invariant and why it is needed |
|---|---|---|
| **`ReviewSchedulerProofs`** | | |
| `TypeCorrect` | `[]TypeOK` | `TypeInv`: with `SnapshotsRead`, since `settled` takes what the worker read, which must have been readable |
| `FollowUpCorrect` | `[]FollowUpComplementsActive` | `FollowUpInv`: where the worker is when a review is (not) active, and that a cancelled review's paths stay pending until it is gone |
| `GenerationCorrect` | `SpooledWithinGeneration` | `GenerationInv`: captured generations never exceed the present one, and a call starts no earlier than its capture |
| `MarkersCorrect` | `[]MarkersAreHeld` | `MarkersInv`: the markers of the reviews and of the two threads are all different, exist, and name their agent; `NoLeak` |
| `OwnedCorrect` | `[]OwnedReviewIsMarked` | `MarkedInv`: a slice without a marker relies on that of the rest; `SessionInv`: no submission for another agent or generation can be under way that would take it |
| **`SchedulerChangesProofs`** | | |
| `PublicationCorrect` | `PublishedIsNewestObserved` | `VersionsInv`: nobody knows a version that is not on disk yet; `ReadInv`: what a call that is not superseded read is as new as what was submitted |
| `NoLostChangeCorrect` | `[]NoLostChange` | `DoneInv`: the paths of the active review that it has left behind are settled as it holds them, so that a submission may be dropped as a duplicate of them |
| **`FeedbackSpoolProofs`** | | |
| `TypeCorrect` | `[]TypeOK` | itself, by a lemma about the update of one hook's record |
| `CopiesCorrect` | `[]CopiesAreComplete` | `CopiesInv`: the files and the hooks' hands told apart, and a hook that is to acknowledge has nothing left (`NothingLeft`) |
| `PublishedCorrect` | `PublishedIsOffered` | `CopiesInv`: a name found in any of the three directories, or linked from its record, has all that is neither delivered nor dropped |
| `OwnerCorrect` | `DeliveredToOwner` | `OwnerInv`: a hook working under the lock is the bound agent's; a batch in hand is of a generation bound to that agent which is over or still bound |
| `ClaimsCorrect` | `[]ClaimedOnce` | `ClaimsInv`: a batch is in one place, its holder never finds its claim gone, and a publisher's look-ups so far are still true |
| `DeliveryCorrect` | `DeliverySpec`, the refinement of `FeedbackDelivery` | `HandInv`: what a hook has in hand is in the claim on disk, so that printing and dropping are steps of the abstract spool and every move a stutter; `CopiesInv` for what leaves the spool |
| `DeliveredOnceCorrect` | `DeliveredOnce` | `OnceInv`: what a file or a hand offers was not printed, except by a hook that was killed; a batch that is being published is nowhere in the spool |
| `ConcurrentDeliveryCorrect` | `DeliverySpec`, for hooks that run at once | `UnkilledInv`: a claim has one holder (`ClaimsInv`), which no step of another hook or of a publisher undoes, so that what the holder has in hand stays in the claim (`InHandOffered`) |
| `ConcurrentDeliveredOnceCorrect` | `DeliveredOnce`, for hooks that run at once | `Unprinted`: nothing offered in `pending/`, or left in the holder's hand, was printed; a batch of which something was printed is still in the spool, so that `publish` finds it |
| **`FlushHintsProofs`** | | |
| `TypeCorrect` | `[]TypeOK` | `TypeInv`: with `BudgetInv`, the hooks about to publish a hint have room for it, and hints' names are used up |
| `AgesCorrect` | `[]HintsAreTakenInTime` | `AgeInv`: names grow as ages fall, so that the oldest of a group is its first; after a poll in vain every hint is younger than `TurnMaxAge` |
| `RequestsCorrect` | `FlushedOnRequest` | `RequestInv`: what the last poll in vain found still holds, as whatever changes a group also gives the main loop a reason to look |
| `VisibleCorrect` | `[]HintedEditIsVisible` | `StateInv`: `Visible` sharpened to `Tracked` (which hint is the last word on the path, that the main thread submits what it will unlink, that the review has those very bytes); what is owed is on disk (`OwedInv`); whoever has a hint, a marker or a review owns the route (`EngagedInv`) |
| **`ChangeIngressProofs`** | | |
| `TypeCorrect` | `[]TypeOK` | with the queue's keys, each once |
| `ChangesCorrect` | `[]NoChangeLost` | `EntriesInv`: a suppression entry names the hint of the path's last submission or of the batch in hand: a suppressed notification was of bytes submitted |
| `ObservationCorrect` | `[]NoStaleObservation` | `ObservationInv`: the batch that is about to be submitted has taken its times with it |
| **`FeedbackHistoryProofs`** | | |
| `NewestCorrect` | `[]NewerSnapshotsWin` | `TrackerInv`: a path that fewer than `MaxTrackedFiles` have overtaken is remembered with its newest snapshot (`Remembered`); older ones may come back of the others |
| `RoundsCorrect` | `[]RoundsAreBounded` | `RoundInv`: the count on disk is no higher than that of reviews since the file was left alone, and covers all results published but the one counted last (`CountedAsBusy`), which is linked later (`LinkInv`) |
| `WithheldCorrect` | `WithheldForItsOwnRounds` | `RoundInv` |
| `EnvelopeCorrect` | `[]EventsFitEnvelope` | `EventsInv`: a batch to be published has no more events than a result and the tracker have findings, and they tell of all findings it still has, so that stale events only take their place; `KeptInv`: all findings in the tracker fit its bound (`BoundTotal`), which classify compares with |
| `StatusCorrect` | `StatusIsExact` | `KeptInv`: while a file and all its findings fit in after those ahead (`Fits`), the tracker has exactly its last ones; `Matched` is the invariant of the loop over the findings: retained and left are the earlier ones, retained and fresh those looked at, and no fingerprint is both left and fresh |
| **`RouteAdministrationProofs`** | | |
| `TypeCorrect` | `[]TypeOK` | `SetupInv` and `UseInv` |
| `OverwriteCorrect`, `SuccessCorrect` | `NothingIsOverwritten`, `SuccessIsInstalled` | `SetupInv`: the spool of an initializer that has compared a route with its own (`seen`) still has that very route; past the link, there is some route |
| `SessionCorrect` | `[]NothingOutlivesItsSession` | `UseInv`: while anything is stored, sessions that ended and generations grow together (`LivesInv`), and the order of removal leaves the session to the end (`CleaningInv`) |
| `CleanupCorrect` | `QuietCleanupKeepsFeedback` | `CleaningInv`: what the first look did not find cannot come back while the cleanup excludes the watcher and new claims |
| **`LiveEvaluationProofs`** | | |
| `KeptCorrect`, `ScorableCorrect` | `[]AttemptsAreKept`, `[]ArtifactIsScorable` | `LogInv`: a printed event says consistently whether a model was tried, and only the last attempt may lack its outcome, while it lasts or if it was cut short |
| `AuthorisedCorrect` | `[]CallsAreAuthorised` | `BudgetInv`: calls made and calls that a batch in hand can still cause are at most one per attempt of which everything was taken (`Spent <= Cardinality(Taken)`), as each batch is the end of one (`BatchEndsAttempt`); without short delays an attempt is one save (`LoneInv`) |
| `AnswersCorrect` | `[]AnswersAreOwn` | `PipelineInv`: until an attempt is given up, its saves are before or past the observer's look, in the batch, the review or one line, and nothing else is |

Eight theorems name an assumption of their own, and each is a condition without which
TLC refutes the property:

* `VersionsGrow` (`PublicationCorrect`, `NoLostChangeCorrect`): a file never returns to earlier
  bytes; `SchedulerReverts` is the counterexample. `NoLostChangeCorrect` also has
  `SinkFaults = FALSE` (section 5).
* `"retire" \notin Interruptible` (`MarkersCorrect`): the hazard at `watch_files.py` 1846.
* `OneAtATime` (`DeliveryCorrect`, `DeliveredOnceCorrect`): one hook at a time, as an agent that
  runs them one after the other; kills and expired claims included. With several, 5.2 breaks
  both. `DeliveredOnceCorrect` also has `NothingShared` and `Republished = {}`: a fingerprint
  that is in two batches, or published again, is meant to be delivered again.
* `MaxCrashes = 0` (`ConcurrentDeliveryCorrect`, `ConcurrentDeliveredOnceCorrect`): several hooks,
  none of which is killed. With `AllMoveForward`, which is what `ClaimedOnce` asks of a batch
  (one message, or published once), the refinement holds; single delivery needs `NothingShared`
  and `Republished = {}` as above. With two hooks, one kill breaks both, and a batch of two
  messages that is published again breaks the refinement (5.2).
* `OneOwner` (`VisibleCorrect`): one agent, or no end of a session; the hazard at
  `feedback.py` 1150.

Only model-checked: everything under fairness (`EventuallySettled`, `WorkerStops`,
`StableFileSettles`, `EventuallyDelivered`, `ChangeIsSubmitted`, `WaitEnds`, `RunEnds`), since
the provers cannot handle `ENABLED`.

Where a proof is about a loop or a sum, it does without induction over data: a loop is a
recursive function of a number of steps, and a step at which its invariant fails would have a
least one before it (`HasLeast`, `Reached`); a sum is the number of places in sequences, and
is bounded by an injection into others (`TotalSum`) or into the numbers up to the bound
(`BoundTotal`).

## 5. Where code and documentation disagree

1. `SchedulerReverts` is a run that TLC refutes, and a finding in `PROJECT.json`. Between
   taking snapshots and `record_snapshots`, the active review's digests are those of an
   earlier read. A file that is changed and changed back around that window has its
   notification dropped as a duplicate, while the provider reviews the bytes in between
   (`watch_files.py` 1741).

The following are as real. Each is a property of a module that is stated without the
condition under which it holds, or can be; to see TLC refute it, put it into the named run.

2. "Concurrent consumers cannot claim the same batch" (`README.md` 633), `ClaimsAreExclusive`,
   fails in `SpoolConcurrentHooks` in two ways. `recover_abandoned_claims` stats and renames in
   two calls (`codex_feedback_hook.py` 322, 323), so of two hooks that both saw the claim of a
   killed one expire the slower one pulls the other's fresh claim back to `pending/`. It can
   go further: a hook whose claim is gone rejects, by name, the claim another hook has made
   meanwhile, and the refinement `DeliverySpec` fails. And without any kill (`MaxCrashes = 0`,
   `Republished = {B1}`), `publish` looks for the batch in three places one after the other
   (`feedback.py` 1457), misses it while a hook claims or requeues it, and links it a
   second time for another hook to claim. `ClaimedOnce` states what is left.
3. `_claim_with_stop_grace` claims and then looks whether a review is in flight
   (`codex_feedback_hook.py` 551, 573). A review that is published and unmarked in between
   is neither claimed nor waited for: the hook returns and the batch waits for the
   agent's next prompt, although "a review completed inside the grace window is delivered
   without a second user prompt" (`README.md` 692): `StopDelivers` in `HintsWait`.
4. `cleanup_route` looks at `pending/` and then at `claimed/` (`agent_integration.py` 909).
   `requeue_feedback` moves a file from the second to the first without the lock; a batch
   that is moved between the looks is seen in neither and removed, although cleanup
   "refuses ... pending/claimed feedback" (`README.md` 751-753): `CleanupKeepsFeedback` in
   `RouteAdministration`.
5. `wait_for_outcome` waits for a line that starts with "Reviewing " (`live_eval.py` 418);
   `review_files` prints "qdt-... reviewing N changed file(s)" (`watch_files.py` 1067). The
   review is never seen to begin, and a deadline that passes during a provider call is
   recorded as one that passed before it, with `model_attempted=False`. The test of it
   (`test_agent_change_replay.py` 1227) feeds the old text. Were the banner recognised,
   such an outcome would say that a model was tried without counting it, and
   `validate_run_against_plan` would refuse the artifact: let `ReviewBanner` be
   `AwaitedBanner`, and `ArtifactIsScorable` fails in `Evaluation`.
6. A plan that is not a challenge accepts an `--inter-file-delay` of the debounce or more. A
   case of two files is then two provider calls, which exceed a cap that pays for one each,
   and the second answer is taken for the next attempt's: `AnswersAreOwn`
   without `Batched =>` in `Evaluation`, and likewise `CallsAreAuthorised` with a cap in the
   command line that spreads an ordinary plan's files.
7. `validate_plan_for_cases` accepts delays up to the debounce for a challenge, "so every
   case reaches one provider batch" (`live_eval.py` 153), but the watcher runs with `--poll`
   (576). Saves 2.5 s apart can be noticed 3 s apart or more: the case is split, with the
   consequences of 6, although the runner "rejects unsafe batching ... so an artifact cannot
   claim the all-files payload hash for a partial batch" (`README.md` 579): `CasesAreTogether`
   in `Evaluation` with `NearCommandLines`. `AnswersAreOwn` and `CallsAreAuthorised` are
   therefore stated for cases of one file and for delays that leave room for the observer's
   period (`Batched`).
8. `materialize_hint` puts the collected paths that its hint does not name back into the queue
   (`watch_files.py` 2104), and when they are taken again their deadline and its cap start
   again (2139-2140). An agent that edits another file more often than the debounce, every two
   seconds with the default of three, postpones them for ever, although activity "is flushed
   after at most twice the configured quiet window so a hot file cannot indefinitely postpone
   another file" (`README.md` 193): `EveryChangeIsSubmitted` in `ChangeIngress`.
   `ChangeIsSubmitted` states what is left.
9. A route that another initializer links between the two calls of `route_file.exists()`
   (`agent_integration.py` 576, 587) is never compared. The slower one installs its settings
   and reports success with the other's route in the spool, although "if either artifact
   exists, it validates an exact Quodet configuration or refuses the operation" (`README.md`
   621): `ReportsOwnRoute` in `RouteAdministration`. `SuccessIsInstalled` states what is left.

Others, which contradict no document; each shows in TLC when the constants named are
changed:

* A sink that raises ends the whole review: the remaining provider calls of the same
  `ScheduledReview` are dropped (2000-2007). `SinkFaults = TRUE` in `SchedulerFiles`
  violates `NoLostChange`.
* A batch that the look-ups of `publish` find nowhere is linked once more (5.2). When that
  link is acknowledged while `acknowledged/` has another link of the record, `os.replace` does nothing (`SameFile`) and
  the batch is delivered again after every claim timeout.
* `retire_reviewed_flush_hints` also runs after a superseded review. A hint that the main
  loop has not taken is then gone, and the follow-up that reviews its bytes has no agent and
  no marker, so a Stop hook does not wait for it. `HintedEditIsVisible` leaves such edits
  out (`excused`).
* A Stop hook unlinks every hint that is not of its own agent (1150). One that is still
  polling when its session ends unlinks the live hints of the next session; two `Agents`
  and `MaxGeneration = 1` in `HintsFiles` violate `HintedEditIsVisible`. The theorem
  `VisibleCorrect` therefore has either one agent or no end of a session (`OneOwner`).
* A request is unlinked with the first group it forces (1042); groups of other turns that it
  covers too wait for their age. `FlushedOnRequest` is about the first group only.
* `KeyboardInterrupt` between `submit`'s critical section and the unlinking of the markers it
  dropped (1846) leaves a marker behind until it expires; `Interruptible` excludes
  `"retire"` in the runs.
* An answer that comes after the harness has given up its attempt is taken by the next one
  (`live_eval.py` 407), because lines carry no mark of the attempt; `AnswersAreOwn` leaves
  out runs with an earlier timeout.
* A second interrupt during the harness's clean-up leaves no artifact (`FinishInterrupted`).
* A hinted file that changes after its hint was consumed and before the main loop reads its
  digest, and then changes back, is submitted with the bytes in between, while the late
  notifications of the hinted bytes are suppressed as already submitted. `NoChangeLost`
  counts the bytes of the hint as submitted.

## 6. Limits

* `NoLostChange` holds for edits that never return to an earlier version; see 5.1.
* `StableFileSettles` has one hot file. Two hot files that alternate as each other's
  priority are not examined.
* Superseded reviews that leave both a priority slice and a remainder of several files need
  three files; the runs have two, the theorems any number.
* The runs of `FlushHints` have one agent; see section 5. Malformed hints, the expiry of hints and markers,
  and hash collisions are left out, and so is what the main loop's suppression of delayed
  notifications does (`ChangeIngress` has that): every notified path may still be submitted.
* `ChangeIngress` has at most one pending hint at a time and no session; which hint is due is the subject of
  `FlushHints`.
* `FeedbackHistory` has reports of at most two findings, three reviews and one fault.
  Fingerprints are numbered in their sort order.
* `RouteAdministration` counts the files of a directory in one step, and `init`'s git rules,
  permission checks and the merge of settings are abstracted to whose file it is.
* `LiveEvaluation` assumes fixtures of at most three files (they are): with four, `short`
  delays could add up to the twice the debounce that the watcher waits at most. The
  observer's own time for a look counts as part of its period. The plain
  text paths of `wait_for_outcome` cannot be reached, since the harness always asks the
  watcher for events, and an empty suite is left out.
* `SchedulerRoutes` has one file that changes, once; the other is only hinted.
* A hint is consumed under one generation and `submit` captures the generation later:
  `TakeHint` and `CaptureGeneration` are separate, so the runs include a release and a new
  bind in between.
* A provider failure is not retried by the code; the model counts the review as settled.
* The worker's and the main thread's exceptions other than those of sinks are left out,
  and so are I/O errors of the spool other than missing files.
* `verify_session_lease` and `release_session_lease` are atomic in `ReviewScheduler`, which has
  no lock; `FeedbackSpool` has the lock.
* Corrupt or foreign state files, which make every party fail closed, are not modelled.

## 7. Not modelled

* Redaction, recommendation grounding and output rendering are functions of text without
  state: what they do lies in regular expressions and wording.
* Calibration, scoring, the scorecard, the challenge's definition and the artifacts'
  validation are sequential passes over recorded files.
* The preflight and the configuration identity of the model runner, and `live_eval`'s
  attestation of its runtime, compare values once at the start.
* Malformed or foreign state files everywhere: the code fails closed.

## 8. Plan

Done: every component that keeps state is modelled, wholly or partly (`PROJECT.json` says
which), and checked; every invariant and action property of the passing runs is proved, and
only the properties under fairness are left to TLC. What could come next, in this order:

1. In `FlushHintsProofs`, `HintedEditIsVisible` for several agents whose sessions end, as far
   as it holds: until the Stop hook of an ended session looks at the hints.
2. In `FeedbackSpoolProofs`, `DeliverySpec` for concurrent hooks that are killed, as far as it
   holds: until two hooks have found the same claim expired.
3. In `SchedulerChangesProofs`, `NoLostChange` for files that return to earlier bytes, but not
   between a snapshot and its `record_snapshots`.
