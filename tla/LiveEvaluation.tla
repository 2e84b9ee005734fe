------------------------------ MODULE LiveEvaluation ------------------------------
(***************************************************************************)
(* evals/agent_changes/live_eval.py: a harness starts the watcher as a     *)
(* child process, saves the files of one case after the other into the     *)
(* watched directory, and takes what the watcher prints next as the        *)
(* outcome of the attempt.  The two share nothing but the directory and    *)
(* the queue of printed lines, which is never drained: an answer carries   *)
(* no mark of the attempt it belongs to.                                   *)
(*                                                                         *)
(* The watcher is started with --poll: it notices a save at the next look  *)
(* of its polling observer, not when the file is saved.                    *)
(*                                                                         *)
(* Time is abstract.  A deadline may pass whenever the harness waits; the  *)
(* debounce of the watcher is modelled by what it achieves: changes that   *)
(* are noticed within it of each other are taken together.  Repeated       *)
(* attempts save the same bytes, so the watcher never supersedes a review  *)
(* of them.                                                                *)
(***************************************************************************)
EXTENDS Naturals, Sequences, FiniteSets, SequencesExt

CONSTANTS
    Cases,           \* the fixtures
    FilesOf,         \* FilesOf[c]: the files of case c, in the order of their saves
    FrozenAttempts,  \* attempts_per_case of a qualification plan
    CommandLines,    \* the command lines the harness is started with
    RunnerFailures   \* the failures of run_model among its statuses

VARIABLES
    command,   \* the command line; never changes
    harness,   \* main() of live_eval
    outcomes,  \* main's list of outcomes, one per attempt begun
    saved,     \* the attempt that last saved each file, 0 if none
    unnoticed, \* the saves that the observer has yet to notice, each with its attempt
    notified,  \* those in the watcher's queue of changed paths
    pending,   \* the files of the review that waits for the worker
    active,    \* the review of the watcher's worker
    watcher,   \* "off", "starting", "up" or "gone"
    output,    \* the queue of lines of the watcher, oldest first
    calls,     \* history: the provider calls started
    artifacts, \* the outcomes of each raw artifact written: of one or of none
    exit       \* the exit of the harness

vars == <<command, harness, outcomes, saved, unnoticed, notified, pending, active,
          watcher, output, calls, artifacts, exit>>

watching == <<unnoticed, notified, pending, active, calls>>

CaseFiles(c) == ToSet(FilesOf[c])
Files == UNION {CaseFiles(c) : c \in Cases}

\* The fixtures have at most three files: with a fourth, short delays could add
\* up to the twice the debounce that next_triggered_batch waits at most.  So few
\* files also always fit one provider call.
ASSUME CasesAssumption ==
    /\ \A c \in Cases : FilesOf[c] \in Seq(CaseFiles(c)) \ {<<>>}
    /\ \A c \in Cases : IsInjective(FilesOf[c])
    /\ \A c \in Cases : Len(FilesOf[c]) <= 3
    /\ \A c, d \in Cases : c # d => CaseFiles(c) \intersect CaseFiles(d) = {}

(***************************************************************************)
(* The command line and its checks.  delay: --inter-file-delay, which is   *)
(* "spread" when it is at least --debounce; "near" when it is below that,  *)
(* but not by the time between two looks of the observer, a second, and    *)
(* what a look takes; "short" when it is, as by default.  plan: the scope  *)
(* of the plan given with a model run configuration; cap: the requests its *)
(* cost cap pays for, 0 for no cap.                                        *)
(* select_cases takes each case of the manifest once.                      *)
(***************************************************************************)
Suites == {s \in Seq(Cases) : s # <<>> /\ IsInjective(s)}

Commands ==
    {line \in [cases : Suites, attempts : Nat \ {0}, challenge : BOOLEAN,
               delay : {"short", "near", "spread"}, plan : {"none", "ordinary", "challenge"}, cap : Nat] :
        line.plan = "none" => line.cap = 0}

ASSUME BoundsAssumption ==
    /\ FrozenAttempts \in Nat \ {0}
    /\ CommandLines \subseteq Commands
    /\ RunnerFailures \subseteq {"timeout", "output-limit", "provider-error"}

Planned == command.plan # "none"

Slots == Len(command.cases) * command.attempts

\* The case of the k-th attempt.
CaseAt(k) == command.cases[((k - 1) \div command.attempts) + 1]

\* validate_plan_for_cases.
PlanFits ==
    /\ command.challenge = (command.plan = "challenge")
    /\ command.attempts = IF command.challenge THEN FrozenAttempts ELSE 1
    /\ command.challenge /\ command.delay = "spread" =>
          \A c \in ToSet(command.cases) : Len(FilesOf[c]) = 1

\* Mutant: one attempt of each case is budgeted.
CostFitsOnce == command.cap = 0 \/ Len(command.cases) <= command.cap

\* benchmark_cost_preflight.
CostFits == command.cap = 0 \/ Len(command.cases) * command.attempts <= command.cap

(***************************************************************************)
(* What the watcher prints.                                                *)
(***************************************************************************)
Banner(text) ==
    [kind |-> text, status |-> "", attempted |-> "", counted |-> FALSE,
     source |-> {}, response |-> {}]

\* A quodet_evaluation_event.  attempted: its model_attempted, "yes" when it has
\* a model_run_result, whose attempt_count is always 1.  source is history: the
\* files that the review read, each with the attempt that saved it.
Event(status, attempted, source, response) ==
    [kind |-> "event", status |-> status, attempted |-> attempted,
     counted |-> attempted = "yes", source |-> source, response |-> response]

Malformed == {"malformed"}

\* A provider's response: no JSON of the schema, or the files its findings cite.
Responses == {Malformed, {}} \union {{f} : f \in Files}

\* The line review_files prints, and the one wait_for_outcome looks for.
ReviewBanner == "reviewing"
AwaitedBanner == "Reviewing"

(***************************************************************************)
(* Outcomes.                                                               *)
(***************************************************************************)
Outcome(k, status, attempted) ==
    [slot |-> k, status |-> status, attempted |-> attempted, counted |-> FALSE,
     source |-> {}]

\* validate_response with the files of the case.
FitsCase(response, c) == response \subseteq CaseFiles(c)

\* wait_for_outcome and case_outcome on an event.
OutcomeOf(k, line) ==
    [slot      |-> k,
     status    |-> IF line.status # "success" THEN line.status
                   ELSE IF FitsCase(line.response, CaseAt(k))
                        THEN "schema-valid" ELSE "schema-error",
     attempted |-> line.attempted,
     counted   |-> line.counted,
     source    |-> line.source]

Begun == Len(outcomes)

Record(outcome) == outcomes' = [outcomes EXCEPT ![Begun] = outcome]

NoReview == [files |-> {}, source |-> {}, stage |-> "none"]

Init ==
    /\ command \in CommandLines
    /\ harness = [pc |-> "checking", todo |-> <<>>, begun |-> FALSE, raised |-> FALSE]
    /\ outcomes = <<>>
    /\ saved = [f \in Files |-> 0]
    /\ unnoticed = {} /\ notified = {} /\ pending = {} /\ active = NoReview
    /\ watcher = "off"
    /\ output = <<>>
    /\ calls = 0
    /\ artifacts = {}
    /\ exit = "running"

(***************************************************************************)
(* The harness.                                                            *)
(***************************************************************************)
\* main() refuses an unfit plan, a suite above its cap and a runtime that it
\* cannot attest before it starts anything.
Refuse ==
    /\ harness.pc = "checking"
    /\ Planned
    /\ harness' = [harness EXCEPT !.pc = "exited"]
    /\ exit' = "refused"
    /\ UNCHANGED <<command, outcomes, saved, watching, watcher, output, artifacts>>

StartWatcher ==
    /\ harness.pc = "checking"
    /\ Planned => PlanFits /\ CostFits
    /\ harness' = [harness EXCEPT !.pc = "starting"]
    /\ watcher' = "starting"
    /\ UNCHANGED <<command, outcomes, saved, watching, output, artifacts, exit>>

\* wait_for_startup.
SeeStartup ==
    /\ harness.pc = "starting"
    /\ output # <<>>
    /\ output' = Tail(output)
    /\ harness' = IF Head(output).kind = "Watching"
                  THEN [harness EXCEPT !.pc = "between"] ELSE harness
    /\ UNCHANGED <<command, outcomes, saved, watching, watcher, artifacts, exit>>

Raised == [harness EXCEPT !.pc = "stopping", !.raised = TRUE]

StartupTimesOut ==
    /\ harness.pc = "starting"
    /\ harness' = Raised
    /\ UNCHANGED <<command, outcomes, saved, watching, watcher, output, artifacts, exit>>

\* An attempt is listed as interrupted until its outcome is known.
BeginAttempt ==
    /\ harness.pc = "between"
    /\ Begun < Slots
    /\ outcomes' = Append(outcomes, Outcome(Begun + 1, "interrupted", "unknown"))
    /\ harness' = [harness EXCEPT !.pc = "replay", !.todo = FilesOf[CaseAt(Begun + 1)]]
    /\ UNCHANGED <<command, saved, watching, watcher, output, artifacts, exit>>

\* replay_case saves one file.  What the observer has not noticed of an earlier
\* save of it, it will not notice any more.
SaveFile ==
    /\ harness.pc = "replay"
    /\ LET file == Head(harness.todo)
           rest == Tail(harness.todo)
       IN  /\ saved' = [saved EXCEPT ![file] = Begun]
           /\ unnoticed' = {s \in unnoticed : s[1] # file} \union {<<file, Begun>>}
           /\ harness' = [harness EXCEPT !.todo = rest, !.begun = FALSE,
                                         !.pc = IF rest = <<>> THEN "wait" ELSE "replay"]
    /\ UNCHANGED <<command, outcomes, notified, pending, active, calls, watcher,
                   output, artifacts, exit>>

\* A fixture is missing or cannot be saved.
ReplayFails ==
    /\ harness.pc = "replay"
    /\ Record(Outcome(Begun, "harness-error", "unknown"))
    /\ harness' = [Raised EXCEPT !.todo = <<>>]
    /\ UNCHANGED <<command, saved, watching, watcher, output, artifacts, exit>>

\* wait_for_outcome reads a line that is no answer.
ReadBanner ==
    /\ harness.pc = "wait"
    /\ output # <<>> /\ Head(output).kind # "event"
    /\ output' = Tail(output)
    /\ harness' = [harness EXCEPT !.begun = @ \/ Head(output).kind = AwaitedBanner]
    /\ UNCHANGED <<command, outcomes, saved, watching, watcher, artifacts, exit>>

\* It takes the next event for the answer, whatever attempt it belongs to.
ReadEvent ==
    /\ harness.pc = "wait"
    /\ output # <<>> /\ Head(output).kind = "event"
    /\ output' = Tail(output)
    /\ Record(OutcomeOf(Begun, Head(output)))
    /\ harness' = [harness EXCEPT !.pc = "between"]
    /\ UNCHANGED <<command, saved, watching, watcher, artifacts, exit>>

\* Mutant: the deadline counts from the first line of a review.
WaitTimesOutOnceBegun ==
    /\ harness.pc = "wait"
    /\ harness.begun
    /\ Record(Outcome(Begun, "timeout", "yes"))
    /\ harness' = [harness EXCEPT !.pc = "between"]
    /\ UNCHANGED <<command, saved, watching, watcher, output, artifacts, exit>>

\* The deadline passes: the attempt is a timeout, with a model attempt if the
\* awaited banner was read.
WaitTimesOut ==
    /\ harness.pc = "wait"
    /\ Record(Outcome(Begun, "timeout", IF harness.begun THEN "yes" ELSE "no"))
    /\ harness' = [harness EXCEPT !.pc = "between"]
    /\ UNCHANGED <<command, saved, watching, watcher, output, artifacts, exit>>

\* Mutant: an attempt without an outcome is dropped.
InterruptUnlisted ==
    /\ harness.pc \in {"starting", "between", "replay", "wait"}
    /\ harness' = [Raised EXCEPT !.todo = <<>>]
    /\ outcomes' = SelectSeq(outcomes, LAMBDA o : o.status # "interrupted")
    /\ UNCHANGED <<command, saved, watching, watcher, output, artifacts, exit>>

\* KeyboardInterrupt: the attempt keeps the outcome it was listed with.
Interrupt ==
    /\ harness.pc \in {"starting", "between", "replay", "wait"}
    /\ harness' = [Raised EXCEPT !.todo = <<>>]
    /\ UNCHANGED <<command, outcomes, saved, watching, watcher, output, artifacts, exit>>

EndAttempts ==
    /\ harness.pc = "between"
    /\ Begun = Slots
    /\ harness' = [harness EXCEPT !.pc = "stopping"]
    /\ UNCHANGED <<command, outcomes, saved, watching, watcher, output, artifacts, exit>>

AllValid == \A k \in 1 .. Begun : outcomes[k].status = "schema-valid"

\* The finally clause stops the watcher and writes the artifact.
Finish ==
    /\ harness.pc = "stopping"
    /\ watcher' = "gone"
    /\ artifacts' = {outcomes}
    /\ harness' = [harness EXCEPT !.pc = "exited"]
    /\ exit' = IF harness.raised THEN "raised" ELSE IF AllValid THEN "0" ELSE "1"
    /\ UNCHANGED <<command, outcomes, saved, watching, output>>

\* A second interrupt while the watcher is stopped: nothing is written.
FinishInterrupted ==
    /\ harness.pc = "stopping"
    /\ watcher' = "gone"
    /\ harness' = [harness EXCEPT !.pc = "exited"]
    /\ exit' = "raised"
    /\ UNCHANGED <<command, outcomes, saved, watching, output, artifacts>>

(***************************************************************************)
(* The watcher, as far as the harness meets it.                            *)
(***************************************************************************)
Shared == <<command, harness, outcomes, saved, artifacts, exit>>

WatcherReady ==
    /\ watcher = "starting"
    /\ watcher' = "up"
    /\ output' = Append(output, Banner("Watching"))
    /\ UNCHANGED <<Shared, watching>>

\* The polling observer looks, and may see the files it passes at different times.
NoticeSaves ==
    /\ watcher = "up"
    /\ \E seen \in SUBSET unnoticed \ {{}} :
          /\ notified' = notified \union seen
          /\ unnoticed' = unnoticed \ seen
    /\ UNCHANGED <<Shared, pending, active, calls, watcher, output>>

\* All that attempt k saved was noticed.
AllNoticed(k) ==
    /\ \A s \in unnoticed : s[2] # k
    /\ ~(harness.pc = "replay" /\ k = Begun)

\* Mutant: the changes that follow the first do not prolong the quiet period.
QuietSinceFirst == TRUE

\* The debounce has passed since a change was noticed last, or twice the debounce
\* since the first.  Neither passes in the midst of an attempt with short delays:
\* what is taken then ends some attempt.
Quiet == command.delay = "short" => \E s \in notified : AllNoticed(s[2])

\* next_triggered_batch takes the whole queue; submit drops what the active
\* review covers with the same bytes and merges the rest into the follow-up.
TakeBatch ==
    /\ watcher = "up"
    /\ notified # {}
    /\ Quiet
    /\ pending' = pending \union ({s[1] : s \in notified} \ active.files)
    /\ notified' = {}
    /\ UNCHANGED <<Shared, unnoticed, active, calls, watcher, output>>

\* The worker takes the follow-up, reads its files and prints its banner.
StartReview ==
    /\ watcher = "up"
    /\ active = NoReview /\ pending # {}
    /\ active' = [files |-> pending, source |-> {<<f, saved[f]>> : f \in pending},
                  stage |-> "ready"]
    /\ pending' = {}
    /\ output' = Append(output, Banner(ReviewBanner))
    /\ UNCHANGED <<Shared, unnoticed, notified, calls, watcher>>

Emit(status, attempted, response) ==
    /\ output' = Append(output, Event(status, attempted, active.source, response))
    /\ active' = [active EXCEPT !.stage = "printed"]

\* Mutant: the event does not say that no model was tried.
FailedAttestation == "unknown"

NoModelTried == "no"

\* attest_runtime fails, or, without a configuration, llm cannot be started.
ProviderUnavailable ==
    /\ watcher = "up"
    /\ active.stage = "ready"
    /\ Emit("provider-error", NoModelTried, {})
    /\ UNCHANGED <<Shared, unnoticed, notified, pending, calls, watcher>>

\* run_model ends before the call: its preflight blocks it, or llm cannot be
\* started.
RunnerBlocks ==
    /\ watcher = "up"
    /\ active.stage = "ready"
    /\ Planned
    /\ \E status \in {"budget-blocked"} \union (RunnerFailures \intersect {"provider-error"}) :
          Emit(status, "yes", {})
    /\ UNCHANGED <<Shared, unnoticed, notified, pending, calls, watcher>>

CallProvider ==
    /\ watcher = "up"
    /\ active.stage = "ready"
    /\ active' = [active EXCEPT !.stage = "provider"]
    /\ calls' = calls + 1
    /\ UNCHANGED <<Shared, unnoticed, notified, pending, watcher, output>>

\* What an event says of the model: a configured run has a model_run_result.
Provenance == IF Planned THEN "yes" ELSE "unknown"

ProviderAnswers ==
    /\ watcher = "up"
    /\ active.stage = "provider"
    /\ \E response \in Responses : Emit("success", Provenance, response)
    /\ UNCHANGED <<Shared, unnoticed, notified, pending, calls, watcher>>

ProviderFails ==
    /\ watcher = "up"
    /\ active.stage = "provider"
    /\ \E status \in IF Planned THEN RunnerFailures ELSE RunnerFailures \ {"output-limit"} :
          Emit(status, Provenance, {})
    /\ UNCHANGED <<Shared, unnoticed, notified, pending, calls, watcher>>

\* The review is published or rejected; the worker takes the next.
EndReview ==
    /\ watcher = "up"
    /\ active.stage = "printed"
    /\ active' = NoReview
    /\ UNCHANGED <<Shared, unnoticed, notified, pending, calls, watcher, output>>

(***************************************************************************)
(* Specification.  The harness runs on and its deadlines pass; nothing is  *)
(* assumed of the watcher, the provider or the user.                       *)
(***************************************************************************)
HarnessStep ==
    \/ Refuse \/ StartWatcher \/ SeeStartup \/ StartupTimesOut
    \/ BeginAttempt \/ SaveFile \/ ReplayFails
    \/ ReadBanner \/ ReadEvent \/ WaitTimesOut
    \/ EndAttempts \/ Finish

WatcherStep ==
    \/ WatcherReady \/ NoticeSaves \/ TakeBatch \/ StartReview
    \/ ProviderUnavailable \/ RunnerBlocks \/ CallProvider
    \/ ProviderAnswers \/ ProviderFails \/ EndReview

Next == HarnessStep \/ WatcherStep \/ Interrupt \/ FinishInterrupted

Spec == Init /\ [][Next]_vars

FairSpec == Spec /\ WF_vars(HarnessStep)

(***************************************************************************)
(* Properties.                                                             *)
(***************************************************************************)
\* The saves of a case reach the watcher as one batch: they follow each other
\* closely enough for an observer that polls, or there is one.
Batched ==
    command.delay = "short" \/ \A c \in ToSet(command.cases) : Len(FilesOf[c]) = 1

TimedOut(outcome) == outcome.status = "timeout" /\ outcome.source = {}

\* An answer is for the attempt it is recorded with, and for all its files, as
\* long as no earlier attempt of the run was given up: nothing but the order of
\* the lines ties answers to attempts, and each attempt that is answered has
\* used up all it caused the watcher to print.
AnswersAreOwn ==
    Batched =>
        \A k \in 1 .. Begun :
            \/ outcomes[k].source = {}
            \/ outcomes[k].source = CaseFiles(CaseAt(k)) \X {k}
            \/ \E j \in 1 .. k - 1 : TimedOut(outcomes[j])

\* The watcher calls the provider no more often than the cap that the harness
\* checked at the start pays for, although it counts no calls itself.
CallsAreAuthorised == Batched /\ command.cap > 0 => calls <= command.cap

\* --inter-file-delay "must be shorter than --debounce so every case reaches one
\* provider batch" (validate_plan_for_cases): while no attempt of a challenge plan
\* is given up, a review has all the files of a case or none.  It does not hold:
\* with a delay near the debounce the observer notices the files too far apart.
CasesAreTogether ==
    command.plan = "challenge" /\ (\A k \in 1 .. Begun : ~TimedOut(outcomes[k])) =>
        \A c \in Cases : active.files \intersect CaseFiles(c) \in {{}, CaseFiles(c)}

\* What was tried is in the artifact: no file was saved for an attempt that it
\* does not list, an attempt without an outcome can only be the last of a run
\* that was cut short, and a run that claims success has an answer to each.
AttemptsAreKept ==
    \A artifact \in artifacts :
        /\ \A f \in Files : saved[f] <= Len(artifact)
        /\ \A k \in 1 .. Len(artifact) :
              artifact[k].status \in {"interrupted", "harness-error"} =>
                  exit = "raised" /\ k = Len(artifact)
        /\ exit = "0" => /\ Len(artifact) = Slots
                         /\ \A k \in 1 .. Slots : artifact[k].source # {}

\* validate_run_against_plan's rules for one outcome.
Accepted(outcome) ==
    CASE outcome.attempted = "yes" -> outcome.counted
      [] outcome.attempted = "no"  ->
            ~outcome.counted /\ outcome.status \in {"provider-error", "timeout"}
      [] OTHER -> /\ ~outcome.counted
                  /\ outcome.status \in {"harness-error", "interrupted"}

\* Whatever fails during an ordinary planned run, its artifact can be scored:
\* each outcome says consistently whether a model was tried, and no case occurs
\* twice.
ArtifactIsScorable ==
    command.plan = "ordinary" => \A artifact \in artifacts :
        /\ \A k \in 1 .. Len(artifact) : Accepted(artifact[k])
        /\ \A j, k \in 1 .. Len(artifact) : CaseAt(j) = CaseAt(k) => j = k

\* The harness ends, whether or not the watcher ever starts, the provider ever
\* answers or a save is ever noticed.
RunEnds == <>(harness.pc = "exited")
=============================================================================
