-------------------------- MODULE LiveEvaluationProofs --------------------------
(***************************************************************************)
(* What TLAPS proves of LiveEvaluation, for any fixtures, suites, numbers  *)
(* of attempts and failures:                                               *)
(*                                                                         *)
(*   KeptCorrect        what was tried is in the artifact                  *)
(*   ScorableCorrect    the artifact of an ordinary plan can be scored     *)
(*   AuthorisedCorrect  the provider is not called more than was paid for  *)
(*   AnswersCorrect     answers belong to the attempts they are listed     *)
(*                      with, until an attempt is given up                 *)
(***************************************************************************)
EXTENDS LiveEvaluation, SequenceTheorems, FiniteSetTheorems, TLAPS

\* Sequences, as far as the queue of lines and the list of outcomes need them.
LEMMA SequenceFacts ==
  ASSUME NEW S, NEW s \in Seq(S), NEW e \in S
  PROVE  /\ Append(s, e) \in Seq(S)
         /\ Len(Append(s, e)) = Len(s) + 1
         /\ Append(s, e)[Len(s) + 1] = e
         /\ \A i \in 1 .. Len(s) : Append(s, e)[i] = s[i]
         /\ s # <<>> =>
              /\ Head(s) \in S /\ Head(s) = s[1] /\ Len(s) > 0
              /\ Tail(s) \in Seq(S) /\ Len(Tail(s)) = Len(s) - 1
              /\ \A i \in 1 .. Len(s) - 1 : Tail(s)[i] = s[i + 1]
         /\ Len(s) \in Nat
         /\ \A i \in 1 .. Len(s) : s[i] \in S
  OBVIOUS

\* A sequence that is shorter than another is another.
LEMMA ShorterDiffers ==
  ASSUME NEW S, NEW s \in Seq(S), NEW t \in Seq(S), Len(s) < Len(t)
  PROVE  s # t
<1> SUFFICES ASSUME s = t
             PROVE  FALSE
  OBVIOUS
<1>1. Len(s) \in Nat /\ Len(s) = Len(t)
  OBVIOUS
<1> QED
  BY <1>1

\* The members of a sequence are its first and those of the rest.
LEMMA MembersOfTail ==
  ASSUME NEW S, NEW s \in Seq(S), s # <<>>
  PROVE  ToSet(s) = {Head(s)} \union ToSet(Tail(s))
<1>1. /\ Len(s) \in Nat /\ Len(s) > 0 /\ DOMAIN s = 1 .. Len(s)
      /\ Head(s) = s[1]
      /\ DOMAIN Tail(s) = 1 .. Len(s) - 1
      /\ \A i \in 1 .. Len(s) - 1 : Tail(s)[i] = s[i + 1]
  OBVIOUS
<1>2. ASSUME NEW i \in 1 .. Len(s)
      PROVE  s[i] \in {Head(s)} \union ToSet(Tail(s))
  <2>1. CASE i = 1
    BY <1>1, <2>1
  <2>2. CASE i # 1
    <3>1. i - 1 \in 1 .. Len(s) - 1 /\ Tail(s)[i - 1] = s[i]
      BY <1>1, <2>2
    <3> QED
      BY <1>1, <3>1 DEF ToSet
  <2> QED
    BY <2>1, <2>2
<1>3. ASSUME NEW i \in 1 .. Len(s) - 1
      PROVE  Tail(s)[i] \in ToSet(s)
  <2>1. i + 1 \in 1 .. Len(s)
    BY <1>1
  <2> QED
    BY <1>1, <2>1 DEF ToSet
<1>4. Head(s) \in ToSet(s)
  <2>1. 1 \in 1 .. Len(s)
    BY <1>1
  <2> QED
    BY <1>1, <2>1 DEF ToSet
<1> QED
  BY <1>1, <1>2, <1>3, <1>4 DEF ToSet

\* A quotient is bounded by the factor it is compared with.
LEMMA QuotientBound ==
  ASSUME NEW a \in Nat \ {0}, NEW m \in Nat, NEW n \in Nat, n < m * a
  PROVE  n \div a \in 0 .. m - 1
<1>1. a > 0
  OBVIOUS
<1>2. n \div a \in Int /\ n \div a >= 0
  BY <1>1
<1>3. n \div a < m
  BY <1>1
<1> QED
  BY <1>2, <1>3

-------------------------------------------------------------------------------
(***************************************************************************)
(* Types.                                                                  *)
(***************************************************************************)
HarnessPcs == {"checking", "starting", "between", "replay", "wait", "stopping", "exited"}

Running == {"starting", "between", "replay", "wait"}

EventStatuses == {"success", "budget-blocked", "timeout", "output-limit", "provider-error"}

Statuses ==
    EventStatuses \union {"schema-valid", "schema-error", "interrupted", "harness-error", ""}

Attempted == {"yes", "no", "unknown", ""}

Sources == SUBSET (Files \X Nat)

Listed == [slot : Nat, status : Statuses, attempted : Attempted, counted : BOOLEAN,
           source : Sources]

Lines == [kind : {"Watching", "reviewing", "event"}, status : Statuses,
          attempted : Attempted, counted : BOOLEAN, source : Sources, response : Responses]

Reviews == [files : SUBSET Files, source : Sources,
            stage : {"none", "ready", "provider", "printed"}]

Harnesses == [pc : HarnessPcs, todo : Seq(Files), begun : BOOLEAN, raised : BOOLEAN]

\* What every variable is, and when there is an attempt that an outcome can be of.
TypeInv ==
    /\ command \in Commands
    /\ harness \in Harnesses
    /\ outcomes \in Seq(Listed)
    /\ Begun <= Slots
    /\ saved \in [Files -> Nat]
    /\ \A f \in Files : saved[f] <= Begun
    /\ unnoticed \union notified \subseteq Files \X Nat
    /\ \A s \in unnoticed \union notified : s[2] <= Begun
    /\ pending \subseteq Files
    /\ active \in Reviews
    /\ watcher \in {"off", "starting", "up", "gone"}
    /\ output \in Seq(Lines)
    /\ calls \in Nat
    /\ harness.pc \in {"replay", "wait"} => Begun > 0
    /\ harness.pc = "replay" => harness.todo # <<>>

\* The case of every attempt is one of the suite.
LEMMA CaseTypes ==
  ASSUME TypeInv
  PROVE  /\ Slots \in Nat
         /\ \A k \in 1 .. Slots :
              /\ CaseAt(k) \in Cases /\ CaseAt(k) \in ToSet(command.cases)
              /\ FilesOf[CaseAt(k)] \in Seq(Files) \ {<<>>}
              /\ FilesOf[CaseAt(k)] \in Seq(CaseFiles(CaseAt(k)))
              /\ CaseFiles(CaseAt(k)) \subseteq Files
<1>1. /\ command.cases \in Seq(Cases) /\ command.attempts \in Nat \ {0}
      /\ Len(command.cases) \in Nat
  BY DEF TypeInv, Commands, Suites
<1>2. Slots \in Nat
  BY <1>1 DEF Slots
<1>3. ASSUME NEW k \in 1 .. Slots
      PROVE  CaseAt(k) \in Cases /\ CaseAt(k) \in ToSet(command.cases)
  <2>1. k - 1 \in Nat /\ k - 1 < Len(command.cases) * command.attempts
    BY <1>2 DEF Slots
  <2>2. (k - 1) \div command.attempts \in 0 .. Len(command.cases) - 1
    BY <1>1, <2>1, QuotientBound
  <2>3. ((k - 1) \div command.attempts) + 1 \in 1 .. Len(command.cases)
    BY <1>1, <2>2
  <2> QED
    BY <1>1, <2>3 DEF CaseAt, ToSet
<1>4. ASSUME NEW c \in Cases
      PROVE  /\ FilesOf[c] \in Seq(Files) \ {<<>>}
             /\ FilesOf[c] \in Seq(CaseFiles(c)) /\ CaseFiles(c) \subseteq Files
  <2>1. FilesOf[c] \in Seq(CaseFiles(c)) \ {<<>>} /\ CaseFiles(c) \subseteq Files
    BY CasesAssumption DEF Files
  <2> QED
    BY <2>1
<1> QED
  BY <1>2, <1>3, <1>4

\* The initial state.
LEMMA InitTypes == Init => TypeInv
<1> SUFFICES ASSUME Init
             PROVE  TypeInv
  OBVIOUS
<1>1. command \in Commands
  BY BoundsAssumption DEF Init
<1>2. Slots \in Nat
  BY <1>1 DEF Slots, Commands, Suites
<1> QED
  BY <1>1, <1>2 DEF Init, TypeInv, Harnesses, HarnessPcs, Begun, Reviews, NoReview, Sources

\* Recording an outcome changes that of the present attempt and no other.
LEMMA Recorded ==
  ASSUME TypeInv, Begun > 0, NEW o \in Listed, Record(o)
  PROVE  /\ outcomes' \in Seq(Listed) /\ Begun' = Begun
         /\ outcomes'[Begun] = o
         /\ \A k \in 1 .. Begun : k # Begun => outcomes'[k] = outcomes[k]
  BY DEF TypeInv, Record, Begun

\* The outcomes that are recorded.
LEMMA OutcomeTypes ==
  ASSUME TypeInv
  PROVE  /\ \A k \in Nat, status \in Statuses, attempted \in Attempted :
              Outcome(k, status, attempted) \in Listed
         /\ \A k \in Nat, line \in Lines : OutcomeOf(k, line) \in Listed
         /\ Begun \in Nat
<1>1. ASSUME NEW k \in Nat, NEW line \in Lines
      PROVE  OutcomeOf(k, line) \in Listed
  BY DEF OutcomeOf, Listed, Lines, Statuses
<1>2. {} \in Sources
  BY DEF Sources
<1> QED
  BY <1>1, <1>2 DEF TypeInv, Outcome, Listed, Begun

\* Nothing changes the command line.
LEMMA CommandStays ==
  ASSUME [Next]_vars
  PROVE  command' = command
BY DEF Next, HarnessStep, WatcherStep, Refuse, StartWatcher, SeeStartup, StartupTimesOut,
   BeginAttempt, SaveFile, ReplayFails, ReadBanner, ReadEvent, WaitTimesOut, EndAttempts,
   Finish, Interrupt, FinishInterrupted, WatcherReady, NoticeSaves, TakeBatch, StartReview,
   ProviderUnavailable, RunnerBlocks, CallProvider, ProviderAnswers, ProviderFails,
   EndReview, Shared, vars

\* What the watcher prints.
LEMMA LineTypes ==
  ASSUME TypeInv
  PROVE  /\ Banner("Watching") \in Lines /\ Banner(ReviewBanner) \in Lines
         /\ \A status \in Statuses, attempted \in Attempted, response \in Responses :
              Event(status, attempted, active.source, response) \in Lines
<1>1. {} \in Sources /\ {} \in Responses
  BY DEF Sources, Responses
<1>2. active.source \in Sources
  BY DEF TypeInv, Reviews
<1> QED
  BY <1>1, <1>2 DEF Banner, ReviewBanner, Event, Lines, Statuses, Attempted

\* The harness's steps keep the types.
LEMMA HarnessTypes == TypeInv /\ (HarnessStep \/ Interrupt \/ FinishInterrupted) => TypeInv'
<1> SUFFICES ASSUME TypeInv, HarnessStep \/ Interrupt \/ FinishInterrupted
             PROVE  TypeInv'
  OBVIOUS
<1>t. /\ harness \in Harnesses /\ Begun \in Nat /\ Slots \in Nat
      /\ <<>> \in Seq(Files)
  BY CaseTypes, OutcomeTypes DEF TypeInv
<1>s. Slots' = Slots
  BY CommandStays DEF Slots, Next
<1>h. ASSUME UNCHANGED <<command, outcomes, saved, watching>>,
             harness' \in Harnesses, harness'.pc \notin {"replay", "wait"},
             watcher' \in {"off", "starting", "up", "gone"}, output' \in Seq(Lines)
      PROVE  TypeInv'
  BY <1>h DEF TypeInv, watching, Begun, Slots
<1>r. ASSUME NEW o \in Listed, Record(o), Begun > 0,
             UNCHANGED <<command, saved, watching, watcher>>,
             harness' \in Harnesses, harness'.pc \notin {"replay", "wait"},
             output' \in Seq(Lines)
      PROVE  TypeInv'
  <2>1. outcomes' \in Seq(Listed) /\ Begun' = Begun
    BY <1>r, Recorded
  <2> QED
    BY <1>r, <1>s, <2>1 DEF TypeInv, watching
<1>1. CASE Refuse \/ StartWatcher \/ StartupTimesOut \/ EndAttempts \/ Finish \/ Interrupt
           \/ FinishInterrupted
  <2>1. harness' \in Harnesses /\ harness'.pc \notin {"replay", "wait"}
    BY <1>1, <1>t DEF Refuse, StartWatcher, StartupTimesOut, EndAttempts, Finish, Interrupt,
       FinishInterrupted, Raised, Harnesses, HarnessPcs
  <2>2. /\ UNCHANGED <<command, outcomes, saved, watching, output>>
        /\ watcher' \in {watcher, "starting", "gone"}
    BY <1>1 DEF Refuse, StartWatcher, StartupTimesOut, EndAttempts, Finish, Interrupt,
       FinishInterrupted
  <2> QED
    BY <1>h, <2>1, <2>2 DEF TypeInv
<1>2. CASE SeeStartup
  <2>1. output' \in Seq(Lines)
    BY <1>2, SequenceFacts DEF SeeStartup, TypeInv
  <2>2. harness' \in Harnesses /\ harness'.pc \notin {"replay", "wait"}
    BY <1>2, <1>t DEF SeeStartup, Harnesses, HarnessPcs
  <2> QED
    BY <1>2, <1>h, <2>1, <2>2 DEF SeeStartup, TypeInv
<1>3. CASE BeginAttempt
  <2>1. Begun + 1 \in 1 .. Slots
    BY <1>3, <1>t DEF BeginAttempt
  <2>2. /\ FilesOf[CaseAt(Begun + 1)] \in Seq(Files)
        /\ FilesOf[CaseAt(Begun + 1)] # <<>>
    BY <2>1, CaseTypes
  <2>3. harness' \in Harnesses /\ harness'.pc = "replay" /\ harness'.todo # <<>>
    BY <1>3, <1>t, <2>2 DEF BeginAttempt, Harnesses, HarnessPcs
  <2>4. Outcome(Begun + 1, "interrupted", "unknown") \in Listed
    <3>1. Begun + 1 \in Nat /\ "interrupted" \in Statuses /\ "unknown" \in Attempted
      BY <1>t DEF Statuses, Attempted
    <3> QED
      BY <3>1, OutcomeTypes
  <2>5. outcomes' \in Seq(Listed) /\ Begun' = Begun + 1
    BY <1>3, <2>4, SequenceFacts DEF BeginAttempt, TypeInv, Begun
  <2>6. /\ \A f \in Files : saved[f] <= Begun + 1
        /\ \A s \in unnoticed \union notified : s[2] <= Begun + 1
    BY <1>t DEF TypeInv
  <2> QED
    BY <1>3, <1>s, <1>t, <2>1, <2>3, <2>5, <2>6 DEF BeginAttempt, TypeInv, watching
<1>4. CASE SaveFile
  <2>1. /\ harness.todo \in Seq(Files) /\ harness.todo # <<>>
        /\ harness.pc = "replay" /\ Begun > 0
    BY <1>4, <1>t DEF SaveFile, TypeInv, Harnesses
  <2>2. Head(harness.todo) \in Files /\ Tail(harness.todo) \in Seq(Files)
    BY <2>1, SequenceFacts
  <2>3. /\ harness' \in Harnesses
        /\ harness'.pc = "replay" => harness'.todo # <<>>
    BY <1>4, <1>t, <2>2 DEF SaveFile, Harnesses, HarnessPcs
  <2>4. saved' \in [Files -> Nat] /\ \A f \in Files : saved'[f] <= Begun
    BY <1>4, <1>t, <2>2 DEF SaveFile, TypeInv
  <2>5. Begun' = Begun /\ UNCHANGED <<command, outcomes, notified, pending, active, calls, watcher, output>>
    BY <1>4 DEF SaveFile, Begun
  <2>6. /\ unnoticed' \subseteq unnoticed \union {<<Head(harness.todo), Begun>>}
        /\ notified' = notified
    BY <1>4 DEF SaveFile
  <2>7. /\ (unnoticed \union notified)' \subseteq Files \X Nat
        /\ \A s \in (unnoticed \union notified)' : s[2] <= Begun
    BY <1>t, <2>2, <2>6 DEF TypeInv
  <2> QED
    BY <1>s, <2>1, <2>3, <2>4, <2>5, <2>7 DEF TypeInv
<1>5. CASE ReplayFails
  <2>1. Outcome(Begun, "harness-error", "unknown") \in Listed
    BY <1>t, OutcomeTypes DEF Statuses, Attempted
  <2>2. harness' \in Harnesses /\ harness'.pc \notin {"replay", "wait"}
    BY <1>5, <1>t DEF ReplayFails, Raised, Harnesses, HarnessPcs
  <2> QED
    BY <1>5, <1>r, <2>1, <2>2 DEF ReplayFails, TypeInv
<1>6. CASE ReadBanner
  <2>1. output' \in Seq(Lines)
    BY <1>6, SequenceFacts DEF ReadBanner, TypeInv
  <2>2. harness' \in Harnesses /\ harness'.pc = "wait"
    BY <1>6, <1>t DEF ReadBanner, Harnesses
  <2> QED
    BY <1>6, <2>1, <2>2 DEF ReadBanner, TypeInv, watching, Begun, Slots
<1>7. CASE ReadEvent
  <2>1. output' \in Seq(Lines) /\ Head(output) \in Lines
    BY <1>7, SequenceFacts DEF ReadEvent, TypeInv
  <2>2. OutcomeOf(Begun, Head(output)) \in Listed
    BY <1>t, <2>1, OutcomeTypes
  <2>3. harness' \in Harnesses /\ harness'.pc \notin {"replay", "wait"}
    BY <1>7, <1>t DEF ReadEvent, Harnesses, HarnessPcs
  <2> QED
    BY <1>7, <1>r, <2>1, <2>2, <2>3 DEF ReadEvent, TypeInv
<1>8. CASE WaitTimesOut
  <2>1. Outcome(Begun, "timeout", IF harness.begun THEN "yes" ELSE "no") \in Listed
    BY <1>t, OutcomeTypes DEF Statuses, EventStatuses, Attempted
  <2>2. harness' \in Harnesses /\ harness'.pc \notin {"replay", "wait"}
    BY <1>8, <1>t DEF WaitTimesOut, Harnesses, HarnessPcs
  <2> QED
    BY <1>8, <1>r, <2>1, <2>2 DEF WaitTimesOut, TypeInv
<1> QED
  BY <1>1, <1>2, <1>3, <1>4, <1>5, <1>6, <1>7, <1>8 DEF HarnessStep


\* The watcher's steps leave the harness alone and print at most one line.
LEMMA WatcherTypes == TypeInv /\ WatcherStep => TypeInv'
<1> SUFFICES ASSUME TypeInv, WatcherStep
             PROVE  TypeInv'
  OBVIOUS
<1>t. /\ active \in Reviews /\ pending \subseteq Files
      /\ output \in Seq(Lines) /\ calls \in Nat /\ saved \in [Files -> Nat]
  BY DEF TypeInv
<1>w. ASSUME UNCHANGED Shared, active' \in Reviews,
             (unnoticed \union notified)' \subseteq unnoticed \union notified,
             pending' \subseteq Files, watcher' \in {watcher, "up"},
             output' \in Seq(Lines), calls' \in Nat
      PROVE  TypeInv'
  BY <1>w DEF Shared, TypeInv, Begun, Slots
<1>e. ASSUME NEW status \in Statuses, NEW attempted \in Attempted, NEW response \in Responses,
             Emit(status, attempted, response)
      PROVE  output' \in Seq(Lines) /\ active' \in Reviews
  <2>1. Event(status, attempted, active.source, response) \in Lines
    BY LineTypes
  <2>2. output' \in Seq(Lines)
    BY <1>t, <1>e, <2>1, SequenceFacts DEF Emit
  <2>3. active' \in Reviews
    BY <1>t, <1>e DEF Emit, Reviews
  <2> QED
    BY <2>2, <2>3
<1>r. {} \in Responses /\ Provenance \in Attempted /\ NoModelTried \in Attempted
  BY DEF Responses, Provenance, NoModelTried, Attempted
<1>1. CASE WatcherReady
  <2>1. output' \in Seq(Lines)
    BY <1>1, <1>t, LineTypes, SequenceFacts DEF WatcherReady
  <2> QED
    BY <1>1, <1>t, <1>w, <2>1 DEF WatcherReady, watching
<1>2. CASE NoticeSaves
  BY <1>2, <1>t, <1>w DEF NoticeSaves
<1>2a. CASE TakeBatch
  <2>1. {s[1] : s \in notified} \subseteq Files
    BY DEF TypeInv
  <2> QED
    BY <1>2a, <1>t, <1>w, <2>1 DEF TakeBatch
<1>3. CASE StartReview
  <2>1. output' \in Seq(Lines)
    BY <1>3, <1>t, LineTypes, SequenceFacts DEF StartReview
  <2>2. {<<f, saved[f]>> : f \in pending} \in Sources
    BY <1>t DEF Sources
  <2>3. active' \in Reviews
    BY <1>3, <1>t, <2>2 DEF StartReview, Reviews
  <2> QED
    BY <1>3, <1>t, <1>w, <2>1, <2>3 DEF StartReview
<1>4. CASE ProviderUnavailable
  <2>1. Emit("provider-error", NoModelTried, {}) /\ "provider-error" \in Statuses
    BY <1>4 DEF ProviderUnavailable, Statuses, EventStatuses
  <2> QED
    BY <1>4, <1>t, <1>w, <1>e, <1>r, <2>1 DEF ProviderUnavailable
<1>5. CASE RunnerBlocks
  <2>1. PICK status \in Statuses : Emit(status, "yes", {})
    BY <1>5 DEF RunnerBlocks, Statuses, EventStatuses
  <2>2. "yes" \in Attempted
    BY DEF Attempted
  <2> QED
    BY <1>5, <1>t, <1>w, <1>e, <1>r, <2>1, <2>2 DEF RunnerBlocks
<1>6. CASE CallProvider
  <2>1. active' \in Reviews
    BY <1>6, <1>t DEF CallProvider, Reviews
  <2> QED
    BY <1>6, <1>t, <1>w, <2>1 DEF CallProvider
<1>7. CASE ProviderAnswers
  <2>1. PICK response \in Responses : Emit("success", Provenance, response)
    BY <1>7 DEF ProviderAnswers
  <2>2. "success" \in Statuses
    BY DEF Statuses, EventStatuses
  <2> QED
    BY <1>7, <1>t, <1>w, <1>e, <1>r, <2>1, <2>2 DEF ProviderAnswers
<1>8. CASE ProviderFails
  <2>1. PICK status \in Statuses : Emit(status, Provenance, {})
    BY <1>8, BoundsAssumption DEF ProviderFails, Statuses, EventStatuses
  <2> QED
    BY <1>8, <1>t, <1>w, <1>e, <1>r, <2>1 DEF ProviderFails
<1>9. CASE EndReview
  <2>1. NoReview \in Reviews
    BY DEF NoReview, Reviews, Sources
  <2> QED
    BY <1>9, <1>t, <1>w, <2>1 DEF EndReview
<1> QED
  BY <1>1, <1>2, <1>2a, <1>3, <1>4, <1>5, <1>6, <1>7, <1>8, <1>9 DEF WatcherStep

\* All of it together.
LEMMA NextTypes == TypeInv /\ [Next]_vars => TypeInv'
<1>1. TypeInv /\ UNCHANGED vars => TypeInv'
  BY DEF TypeInv, vars, watching, Begun, Slots
<1> QED
  BY <1>1, HarnessTypes, WatcherTypes DEF Next

-------------------------------------------------------------------------------
(***************************************************************************)
(* What is printed and what is recorded.                                   *)
(***************************************************************************)

\* Nothing happens before the command line was checked.
StartInv ==
    /\ harness.pc = "checking" \/ exit = "refused" =>
         /\ watcher = "off" /\ calls = 0 /\ Begun = 0 /\ artifacts = {}
         /\ unnoticed = {} /\ notified = {} /\ pending = {}
         /\ active = NoReview /\ output = <<>>
    /\ exit = "refused" => harness.pc = "exited"
    /\ harness.pc # "checking" /\ exit # "refused" /\ Planned => PlanFits /\ CostFits

\* An event names the files it is about, says consistently whether a model was tried,
\* and, of a planned run, always says it; the awaited banner is never printed.
Truthful(line) ==
    line.kind = "event" =>
        /\ line.status \in EventStatuses
        /\ line.source # {}
        /\ line.counted = (line.attempted = "yes")
        /\ Planned => \/ line.attempted = "yes"
                      \/ line.attempted = "no" /\ line.status = "provider-error"

PrintedInv ==
    /\ \A i \in 1 .. Len(output) : Truthful(output[i])
    /\ active.stage \in {"ready", "provider"} => active.source # {}
    /\ ~ harness.begun

\* An outcome is missing only of the last attempt, and only while it lasts or if it was
\* cut short.
Missing(outcome) == outcome.status \in {"interrupted", "harness-error"}

RecordedInv ==
    /\ \A k \in 1 .. Begun :
         /\ Missing(outcomes[k]) =>
              /\ k = Begun
              /\ \/ harness.pc \in {"replay", "wait"}
                 \/ harness.pc \in {"stopping", "exited"} /\ harness.raised
         /\ outcomes[k].status = "schema-valid" => outcomes[k].source # {}
         /\ Planned => Accepted(outcomes[k])
    /\ harness.pc \in {"replay", "wait"} => outcomes[Begun].status = "interrupted"
    /\ harness.pc \notin {"stopping", "exited"} => ~ harness.raised
    /\ harness.pc \in {"stopping", "exited"} /\ ~ harness.raised
         /\ exit \notin {"refused", "raised"} => Begun = Slots
    /\ harness.pc # "exited" => exit = "running" /\ artifacts = {}
    /\ artifacts \subseteq {outcomes}
    /\ artifacts # {} => \/ exit = "raised"
                         \/ ~ harness.raised /\ exit = (IF AllValid THEN "0" ELSE "1")

LogInv == StartInv /\ PrintedInv /\ RecordedInv

\* The initial state.
LEMMA InitLog == Init => LogInv
  BY DEF Init, LogInv, StartInv, PrintedInv, RecordedInv, Begun, NoReview

\* The checks of the command line are passed or nothing is started.
LEMMA NextStart == TypeInv /\ StartInv /\ [Next]_vars => StartInv'
<1> SUFFICES ASSUME TypeInv, StartInv, [Next]_vars
             PROVE  StartInv'
  OBVIOUS
<1>c. UNCHANGED <<command, Planned, PlanFits, CostFits>>
  BY CommandStays DEF Planned, PlanFits, CostFits
<1>t. harness \in Harnesses
  BY DEF TypeInv
<1>1. CASE Refuse
  BY <1>1, <1>t DEF Refuse, StartInv, watching, Begun, Harnesses
<1>2. CASE StartWatcher
  BY <1>2, <1>c, <1>t DEF StartWatcher, StartInv, watching, Begun, Harnesses
<1>3. CASE HarnessStep \/ Interrupt \/ FinishInterrupted
  <2> SUFFICES ASSUME ~ Refuse, ~ StartWatcher
               PROVE  StartInv'
    BY <1>1, <1>2
  <2>1. /\ harness.pc \notin {"checking", "exited"}
        /\ harness'.pc # "checking" /\ exit' \in {exit, "0", "1", "raised"}
    BY <1>3, <1>t DEF HarnessStep, SeeStartup, StartupTimesOut, BeginAttempt, SaveFile,
       ReplayFails, ReadBanner, ReadEvent, WaitTimesOut, EndAttempts, Finish, Interrupt,
       FinishInterrupted, Raised, Harnesses
  <2>2. exit # "refused"
    BY <2>1 DEF StartInv
  <2> QED
    BY <1>c, <2>1, <2>2 DEF StartInv
<1>4. CASE WatcherStep
  <2>1. watcher # "off" /\ UNCHANGED <<harness, exit>>
    BY <1>4 DEF WatcherStep, WatcherReady, NoticeSaves, TakeBatch, StartReview, ProviderUnavailable,
       RunnerBlocks, CallProvider, ProviderAnswers, ProviderFails, EndReview, Shared
  <2> QED
    BY <1>c, <2>1 DEF StartInv
<1>5. CASE UNCHANGED vars
  BY <1>5, <1>c DEF vars, watching, StartInv, Begun
<1> QED
  BY <1>1, <1>2, <1>3, <1>4, <1>5 DEF Next

\* What is printed.
LEMMA NextPrinted == TypeInv /\ PrintedInv /\ [Next]_vars => PrintedInv'
<1> SUFFICES ASSUME TypeInv, PrintedInv, [Next]_vars
             PROVE  PrintedInv'
  OBVIOUS
<1>t. harness \in Harnesses /\ output \in Seq(Lines) /\ active \in Reviews
  BY DEF TypeInv
<1>c. ASSUME command' = command, NEW line
      PROVE  Truthful(line)' = Truthful(line)
  BY <1>c DEF Truthful, Planned
<1>s. ASSUME UNCHANGED <<command, output, active>>, harness'.begun = FALSE
      PROVE  PrintedInv'
  BY <1>c, <1>s DEF PrintedInv, Truthful, Planned
<1>l. ASSUME command' = command, output # <<>>, output' = Tail(output), active' = active,
             harness'.begun = FALSE
      PROVE  PrintedInv'
  <2>1. ASSUME NEW i \in 1 .. Len(output')
        PROVE  Truthful(output[i + 1]) /\ output'[i] = output[i + 1]
    <3>1. i \in 1 .. Len(output) - 1 /\ i + 1 \in 1 .. Len(output)
      BY <1>l, <1>t, SequenceFacts
    <3> QED
      BY <1>l, <1>t, <3>1, SequenceFacts DEF PrintedInv
  <2> QED
    BY <1>l, <2>1 DEF PrintedInv, Truthful, Planned
<1>a. ASSUME UNCHANGED <<command, harness>>, NEW line \in Lines, Truthful(line),
             output' = Append(output, line),
             active'.stage \in {"ready", "provider"} => active'.source # {}
      PROVE  PrintedInv'
  <2>1. ASSUME NEW i \in 1 .. Len(output')
        PROVE  Truthful(output'[i])
    <3>1. CASE i \in 1 .. Len(output)
      BY <1>a, <1>t, <3>1, SequenceFacts DEF PrintedInv
    <3>2. CASE i = Len(output) + 1
      BY <1>a, <1>t, <3>2, SequenceFacts
    <3> QED
      BY <1>a, <1>t, <3>1, <3>2, SequenceFacts
  <2> QED
    BY <1>a, <2>1 DEF PrintedInv, Truthful, Planned
<1>e. ASSUME UNCHANGED <<command, harness>>, active.stage \in {"ready", "provider"},
             NEW status \in EventStatuses, NEW attempted \in Attempted,
             NEW response \in Responses, Emit(status, attempted, response),
             Planned => \/ attempted = "yes"
                        \/ attempted = "no" /\ status = "provider-error"
      PROVE  PrintedInv'
  <2>1. Event(status, attempted, active.source, response) \in Lines
    BY <1>e, LineTypes DEF Statuses
  <2>2. Truthful(Event(status, attempted, active.source, response))
    BY <1>e DEF Truthful, Event, PrintedInv
  <2>3. active'.stage = "printed"
    BY <1>e, <1>t DEF Emit, Reviews
  <2> QED
    BY <1>e, <1>a, <2>1, <2>2, <2>3 DEF Emit
<1>r. {} \in Responses /\ Provenance \in Attempted /\ "yes" \in Attempted /\ "no" \in Attempted
  BY DEF Responses, Provenance, Attempted
<1>1. CASE \/ Refuse \/ StartWatcher \/ StartupTimesOut \/ BeginAttempt \/ SaveFile
           \/ ReplayFails \/ WaitTimesOut \/ EndAttempts \/ Finish \/ Interrupt
           \/ FinishInterrupted
  BY <1>1, <1>s, <1>t DEF Refuse, StartWatcher, StartupTimesOut, BeginAttempt, SaveFile,
     ReplayFails, WaitTimesOut, EndAttempts, Finish, Interrupt, FinishInterrupted, Raised,
     Harnesses, watching, PrintedInv
<1>2. CASE SeeStartup
  BY <1>2, <1>l, <1>t DEF SeeStartup, Harnesses, watching, PrintedInv
<1>3. CASE ReadBanner
  <2>1. Head(output).kind # AwaitedBanner
    <3>1. Head(output) \in Lines
      BY <1>3, <1>t DEF ReadBanner
    <3> QED
      BY <3>1 DEF Lines, AwaitedBanner
  <2>2. harness'.begun = FALSE
    BY <1>3, <1>t, <2>1 DEF ReadBanner, Harnesses, PrintedInv
  <2> QED
    BY <1>3, <1>l, <2>2 DEF ReadBanner, watching
<1>4. CASE ReadEvent
  BY <1>4, <1>l, <1>t DEF ReadEvent, Harnesses, watching, PrintedInv
<1>5. CASE WatcherReady
  <2>1. Truthful(Banner("Watching"))
    BY DEF Truthful, Banner
  <2> QED
    BY <1>5, <1>a, <2>1, LineTypes DEF WatcherReady, Shared, watching, PrintedInv
<1>6. CASE NoticeSaves \/ TakeBatch \/ CallProvider \/ EndReview
  <2>1. /\ UNCHANGED <<command, harness, output>>
        /\ active'.stage \in {"ready", "provider"} => active'.source # {}
    BY <1>6, <1>t DEF NoticeSaves, TakeBatch, CallProvider, EndReview, NoReview, Shared, Reviews, PrintedInv
  <2> QED
    BY <2>1 DEF PrintedInv, Truthful, Planned
<1>7. CASE StartReview
  <2>1. Truthful(Banner(ReviewBanner))
    BY DEF Truthful, Banner, ReviewBanner
  <2>2. active'.source # {}
    BY <1>7 DEF StartReview
  <2> QED
    BY <1>7, <1>a, <2>1, <2>2, LineTypes DEF StartReview, Shared
<1>8. CASE ProviderUnavailable
  BY <1>8, <1>e, <1>r DEF ProviderUnavailable, Shared, NoModelTried, EventStatuses
<1>9. CASE RunnerBlocks
  <2>1. PICK status \in EventStatuses : Emit(status, "yes", {})
    BY <1>9 DEF RunnerBlocks, EventStatuses
  <2> QED
    BY <1>9, <1>e, <1>r, <2>1 DEF RunnerBlocks, Shared
<1>10. CASE ProviderAnswers
  <2>1. PICK response \in Responses : Emit("success", Provenance, response)
    BY <1>10 DEF ProviderAnswers
  <2> QED
    BY <1>10, <1>e, <1>r, <2>1 DEF ProviderAnswers, Shared, EventStatuses, Provenance
<1>11. CASE ProviderFails
  <2>1. PICK status \in EventStatuses : Emit(status, Provenance, {})
    BY <1>11, BoundsAssumption DEF ProviderFails, EventStatuses
  <2> QED
    BY <1>11, <1>e, <1>r, <2>1 DEF ProviderFails, Shared, Provenance
<1>12. CASE UNCHANGED vars
  BY <1>12, <1>s, <1>t DEF vars, watching, PrintedInv, Harnesses
<1> QED
  BY <1>1, <1>2, <1>3, <1>4, <1>5, <1>6, <1>7, <1>8, <1>9, <1>10, <1>11, <1>12
  DEF Next, HarnessStep, WatcherStep


\* The outcomes that the harness records can be scored.
LEMMA AcceptedOutcomes ==
  ASSUME TypeInv, PrintedInv, Planned
  PROVE  /\ \A k \in Nat : /\ Accepted(Outcome(k, "interrupted", "unknown"))
                           /\ Accepted(Outcome(k, "harness-error", "unknown"))
                           /\ Accepted(Outcome(k, "timeout", "no"))
         /\ \A k \in Nat, line \in Lines :
              Truthful(line) /\ line.kind = "event" => Accepted(OutcomeOf(k, line))
<1>1. ASSUME NEW k \in Nat
      PROVE  /\ Accepted(Outcome(k, "interrupted", "unknown"))
             /\ Accepted(Outcome(k, "harness-error", "unknown"))
             /\ Accepted(Outcome(k, "timeout", "no"))
  BY DEF Accepted, Outcome
<1>2. ASSUME NEW k \in Nat, NEW line \in Lines, Truthful(line), line.kind = "event"
      PROVE  Accepted(OutcomeOf(k, line))
  <2>1. /\ line.counted = (line.attempted = "yes")
        /\ \/ line.attempted = "yes"
           \/ line.attempted = "no" /\ line.status = "provider-error"
    BY <1>2 DEF Truthful
  <2>2. /\ OutcomeOf(k, line).attempted = line.attempted
        /\ OutcomeOf(k, line).counted = line.counted
        /\ line.status = "provider-error" => OutcomeOf(k, line).status = "provider-error"
    BY DEF OutcomeOf
  <2> QED
    BY <2>1, <2>2 DEF Accepted
<1> QED
  BY <1>1, <1>2

\* What is recorded.
LEMMA NextRecorded ==
  TypeInv /\ StartInv /\ PrintedInv /\ RecordedInv /\ [Next]_vars => RecordedInv'
<1> SUFFICES ASSUME TypeInv, StartInv, PrintedInv, RecordedInv, [Next]_vars
             PROVE  RecordedInv'
  OBVIOUS
<1>t. /\ harness \in Harnesses /\ Begun \in Nat /\ Slots \in Nat
      /\ outcomes \in Seq(Listed) /\ output \in Seq(Lines)
      /\ harness.pc \in {"replay", "wait"} => Begun > 0
  BY CaseTypes, OutcomeTypes DEF TypeInv
<1>c. ASSUME command' = command
      PROVE  Slots' = Slots /\ Planned' = Planned
  BY <1>c DEF Slots, Planned
<1>u. ASSUME UNCHANGED <<command, outcomes>>
      PROVE  UNCHANGED <<Slots, Planned, Begun, AllValid>>
  BY <1>u DEF Slots, Planned, Begun, AllValid
<1>p. ASSUME harness.pc \notin {"checking", "exited"}
      PROVE  artifacts = {} /\ exit = "running"
  BY <1>p DEF RecordedInv
<1>r. ASSUME harness.pc \in {"replay", "wait"}, command' = command,
             UNCHANGED <<artifacts, exit>>,
             NEW o \in Listed, Record(o),
             o.status = "schema-valid" => o.source # {},
             Planned => Accepted(o),
             \/ ~ Missing(o) /\ harness'.pc = "between" /\ ~ harness'.raised
             \/ harness'.pc = "stopping" /\ harness'.raised
      PROVE  RecordedInv'
  <2>1. /\ Begun' = Begun /\ outcomes'[Begun] = o
        /\ \A k \in 1 .. Begun : k # Begun => outcomes'[k] = outcomes[k]
    BY <1>r, <1>t, Recorded
  <2>2. ASSUME NEW k \in 1 .. Begun
        PROVE  /\ Missing(outcomes'[k]) =>
                    k = Begun /\ harness'.pc = "stopping" /\ harness'.raised
               /\ outcomes'[k].status = "schema-valid" => outcomes'[k].source # {}
               /\ Planned => Accepted(outcomes'[k])
    <3>1. CASE k = Begun
      BY <1>r, <2>1, <3>1
    <3>2. CASE k # Begun
      BY <2>1, <3>2 DEF RecordedInv
    <3> QED
      BY <3>1, <3>2
  <2>3. artifacts' = {} /\ exit' = "running"
    BY <1>r, <1>p
  <2> QED
    BY <1>c, <1>r, <2>1, <2>2, <2>3 DEF RecordedInv, Missing, Accepted
<1>1. CASE Refuse \/ StartWatcher \/ StartupTimesOut \/ SeeStartup
  <2>1. /\ harness.pc \in {"checking", "starting"}
        /\ harness'.pc \notin {"checking", "replay", "wait"}
        /\ harness'.pc = "exited" => exit' = "refused"
        /\ harness'.pc = "stopping" => harness'.raised
        /\ harness'.raised => harness.raised \/ harness'.pc = "stopping"
        /\ harness'.pc # "exited" => exit' = exit
        /\ UNCHANGED <<command, outcomes, artifacts>>
    BY <1>1, <1>t DEF Refuse, StartWatcher, StartupTimesOut, SeeStartup, Raised, Harnesses
  <2>2. artifacts = {} /\ exit = "running"
    BY <2>1 DEF RecordedInv
  <2>3. \A k \in 1 .. Begun : ~ Missing(outcomes[k])
    BY <2>1 DEF RecordedInv
  <2> QED
    BY <1>u, <2>1, <2>2, <2>3 DEF RecordedInv, Missing, Accepted
<1>2. CASE BeginAttempt
  <2> DEFINE o == Outcome(Begun + 1, "interrupted", "unknown")
  <2>1. o \in Listed /\ (Planned => Accepted(o)) /\ o.status = "interrupted"
    <3>1. Begun + 1 \in Nat /\ "interrupted" \in Statuses /\ "unknown" \in Attempted
      BY <1>t DEF Statuses, Attempted
    <3> QED
      BY <3>1, OutcomeTypes, AcceptedOutcomes DEF Outcome
  <2>2. /\ harness.pc = "between" /\ harness'.pc = "replay"
        /\ harness'.raised = harness.raised
        /\ outcomes' = Append(outcomes, o)
        /\ UNCHANGED <<command, artifacts, exit>>
    BY <1>2, <1>t DEF BeginAttempt, Harnesses
  <2> HIDE DEF o
  <2>3. /\ Begun' = Begun + 1 /\ outcomes'[Begun + 1] = o
        /\ \A k \in 1 .. Begun : outcomes'[k] = outcomes[k]
    BY <1>t, <2>1, <2>2, SequenceFacts DEF Begun
  <2>4. artifacts' = {} /\ exit' = "running"
    BY <1>p, <2>2
  <2>5. \A k \in 1 .. Begun : ~ Missing(outcomes[k])
    BY <2>2 DEF RecordedInv
  <2>6. ASSUME NEW k \in 1 .. Begun + 1
        PROVE  /\ Missing(outcomes'[k]) => k = Begun + 1
               /\ outcomes'[k].status = "schema-valid" => outcomes'[k].source # {}
               /\ Planned => Accepted(outcomes'[k])
    <3>1. CASE k = Begun + 1
      BY <2>1, <2>3, <3>1
    <3>2. CASE k # Begun + 1
      <4>1. k \in 1 .. Begun
        BY <1>t, <3>2
      <4> QED
        BY <2>3, <2>5, <4>1 DEF RecordedInv
    <3> QED
      BY <3>1, <3>2
  <2>7. ~ harness.raised
    BY <2>2 DEF RecordedInv
  <2> QED
    <3>1. outcomes'[Begun'].status = "interrupted"
      BY <2>1, <2>3
    <3>2. ASSUME NEW k \in 1 .. Begun'
          PROVE  /\ Missing(outcomes'[k]) => k = Begun'
                 /\ outcomes'[k].status = "schema-valid" => outcomes'[k].source # {}
                 /\ Planned' => Accepted(outcomes'[k])
      <4>1. k \in 1 .. Begun + 1 /\ Begun' = Begun + 1
        BY <2>3, <3>2
      <4>2. Planned' = Planned
        BY <1>c, <2>2
      <4> QED
        BY <2>6, <4>1, <4>2
    <3> QED
      BY <2>2, <2>4, <2>7, <3>1, <3>2 DEF RecordedInv, Missing, Accepted
<1>3. CASE SaveFile \/ ReadBanner
  <2>1. /\ harness.pc \in {"replay", "wait"} /\ harness'.pc \in {"replay", "wait"}
        /\ harness'.raised = harness.raised
        /\ UNCHANGED <<command, outcomes, artifacts, exit>>
    BY <1>3, <1>t DEF SaveFile, ReadBanner, Harnesses
  <2> QED
    BY <1>u, <2>1 DEF RecordedInv, Missing, Accepted
<1>4. CASE ReplayFails
  <2> DEFINE o == Outcome(Begun, "harness-error", "unknown")
  <2>1. o \in Listed /\ (Planned => Accepted(o)) /\ o.status = "harness-error"
    <3>1. "harness-error" \in Statuses /\ "unknown" \in Attempted
      BY DEF Statuses, Attempted
    <3> QED
      BY <1>t, <3>1, OutcomeTypes, AcceptedOutcomes DEF Outcome
  <2>2. /\ harness.pc = "replay" /\ Record(o) /\ UNCHANGED <<command, artifacts, exit>>
        /\ harness'.pc = "stopping" /\ harness'.raised
    BY <1>4, <1>t DEF ReplayFails, Raised, Harnesses
  <2> HIDE DEF o
  <2> QED
    BY <1>r, <2>1, <2>2
<1>5. CASE ReadEvent
  <2> DEFINE o == OutcomeOf(Begun, Head(output))
  <2>1. Head(output) \in Lines /\ Truthful(Head(output)) /\ Head(output).kind = "event"
    <3>1. Head(output) \in Lines /\ Head(output) = output[1] /\ 1 \in 1 .. Len(output)
      BY <1>5, <1>t DEF ReadEvent
    <3> QED
      BY <1>5, <3>1 DEF ReadEvent, PrintedInv
  <2>2. o \in Listed /\ (Planned => Accepted(o))
    BY <1>t, <2>1, OutcomeTypes, AcceptedOutcomes
  <2>3. ~ Missing(o) /\ o.source # {}
    BY <2>1 DEF OutcomeOf, Missing, Truthful, EventStatuses
  <2>4. /\ harness.pc = "wait" /\ Record(o) /\ UNCHANGED <<command, artifacts, exit>>
        /\ harness'.pc = "between" /\ ~ harness'.raised
    BY <1>5, <1>t DEF ReadEvent, Harnesses, RecordedInv
  <2> HIDE DEF o
  <2> QED
    BY <1>r, <2>2, <2>3, <2>4
<1>6. CASE WaitTimesOut
  <2> DEFINE o == Outcome(Begun, "timeout", "no")
  <2>1. o \in Listed /\ (Planned => Accepted(o)) /\ o.status = "timeout"
    <3>1. "timeout" \in Statuses /\ "no" \in Attempted
      BY DEF Statuses, EventStatuses, Attempted
    <3> QED
      BY <1>t, <3>1, OutcomeTypes, AcceptedOutcomes DEF Outcome
  <2>2. ~ harness.begun
    BY DEF PrintedInv
  <2>3. /\ harness.pc = "wait" /\ Record(o) /\ UNCHANGED <<command, artifacts, exit>>
        /\ harness'.pc = "between" /\ ~ harness'.raised
    BY <1>6, <1>t, <2>2 DEF WaitTimesOut, Harnesses, RecordedInv
  <2> HIDE DEF o
  <2> QED
    BY <1>r, <2>1, <2>3 DEF Missing
<1>7. CASE Interrupt
  <2>1. /\ harness.pc \in Running /\ harness'.pc = "stopping" /\ harness'.raised
        /\ UNCHANGED <<command, outcomes, artifacts, exit>>
    BY <1>7, <1>t DEF Interrupt, Raised, Harnesses, Running
  <2> QED
    BY <1>u, <2>1 DEF Running, RecordedInv, Missing, Accepted
<1>8. CASE EndAttempts
  <2>1. /\ harness.pc = "between" /\ harness'.pc = "stopping" /\ Begun = Slots
        /\ harness'.raised = harness.raised
        /\ UNCHANGED <<command, outcomes, artifacts, exit>>
    BY <1>8, <1>t DEF EndAttempts, Harnesses
  <2> QED
    BY <1>u, <2>1 DEF RecordedInv, Missing, Accepted
<1>9. CASE Finish
  <2>1. /\ harness.pc = "stopping" /\ harness'.pc = "exited"
        /\ harness'.raised = harness.raised
        /\ UNCHANGED <<command, outcomes>> /\ artifacts' = {outcomes}
        /\ exit' = IF harness.raised THEN "raised" ELSE IF AllValid THEN "0" ELSE "1"
    BY <1>9, <1>t DEF Finish, Harnesses
  <2> QED
    BY <1>u, <1>p, <2>1 DEF RecordedInv, Missing, Accepted
<1>10. CASE FinishInterrupted
  <2>1. /\ harness.pc = "stopping" /\ harness'.pc = "exited"
        /\ harness'.raised = harness.raised
        /\ UNCHANGED <<command, outcomes, artifacts>> /\ exit' = "raised"
    BY <1>10, <1>t DEF FinishInterrupted, Harnesses
  <2> QED
    BY <1>u, <1>p, <2>1 DEF RecordedInv, Missing, Accepted
<1>11. CASE WatcherStep \/ UNCHANGED vars
  <2>1. UNCHANGED <<command, outcomes, harness, artifacts, exit>>
    BY <1>11 DEF WatcherStep, WatcherReady, NoticeSaves, TakeBatch, StartReview, ProviderUnavailable,
       RunnerBlocks, CallProvider, ProviderAnswers, ProviderFails, EndReview, Shared, vars
  <2> QED
    BY <1>u, <2>1 DEF RecordedInv, Missing, Accepted
<1> QED
  BY <1>1, <1>2, <1>3, <1>4, <1>5, <1>6, <1>7, <1>8, <1>9, <1>10, <1>11
  DEF Next, HarnessStep

\* All of it together.
LEMMA NextLog == TypeInv /\ LogInv /\ [Next]_vars => LogInv'
  BY NextStart, NextPrinted, NextRecorded DEF LogInv

\* What was tried is in the artifact, whatever fails and wherever the run is cut short.
THEOREM KeptCorrect == Spec => []AttemptsAreKept
<1>1. TypeInv /\ LogInv => AttemptsAreKept
  <2> SUFFICES ASSUME TypeInv, LogInv, NEW artifact \in artifacts
               PROVE  /\ \A f \in Files : saved[f] <= Len(artifact)
                      /\ \A k \in 1 .. Len(artifact) :
                           artifact[k].status \in {"interrupted", "harness-error"} =>
                             exit = "raised" /\ k = Len(artifact)
                      /\ exit = "0" => /\ Len(artifact) = Slots
                                       /\ \A k \in 1 .. Slots : artifact[k].source # {}
    BY DEF AttemptsAreKept
  <2>1. /\ artifact = outcomes /\ Len(artifact) = Begun
        /\ harness.pc = "exited" /\ exit # "refused"
    BY DEF LogInv, RecordedInv, StartInv, Begun
  <2>2. ASSUME NEW k \in 1 .. Begun, Missing(outcomes[k])
        PROVE  exit = "raised" /\ k = Begun
    BY <2>1, <2>2 DEF LogInv, RecordedInv
  <2>3. ASSUME exit = "0"
        PROVE  Begun = Slots /\ \A k \in 1 .. Begun : outcomes[k].source # {}
    <3>1. ~ harness.raised /\ AllValid
      BY <2>3 DEF LogInv, RecordedInv
    <3>2. Begun = Slots
      BY <2>1, <2>3, <3>1 DEF LogInv, RecordedInv
    <3> QED
      BY <3>1, <3>2 DEF LogInv, RecordedInv, AllValid
  <2> QED
    BY <2>1, <2>2, <2>3 DEF TypeInv, Missing
<1> QED
  BY <1>1, InitTypes, InitLog, NextTypes, NextLog, PTL DEF Spec

\* The artifact of an ordinary plan passes the scoring's checks of every outcome, and has
\* no case twice.
THEOREM ScorableCorrect == Spec => []ArtifactIsScorable
<1>1. TypeInv /\ LogInv => ArtifactIsScorable
  <2> SUFFICES ASSUME TypeInv, LogInv, command.plan = "ordinary", NEW artifact \in artifacts
               PROVE  /\ \A k \in 1 .. Len(artifact) : Accepted(artifact[k])
                      /\ \A j, k \in 1 .. Len(artifact) : CaseAt(j) = CaseAt(k) => j = k
    BY DEF ArtifactIsScorable
  <2>1. /\ artifact = outcomes /\ Len(artifact) = Begun
        /\ harness.pc = "exited" /\ exit # "refused" /\ Planned
    BY DEF LogInv, RecordedInv, StartInv, Begun, Planned
  <2>2. command.attempts = 1
    BY <2>1 DEF LogInv, StartInv, PlanFits
  <2>3. /\ command.cases \in Seq(Cases) /\ IsInjective(command.cases)
        /\ Len(command.cases) \in Nat /\ Slots = Len(command.cases) /\ Begun \in Nat
        /\ Begun <= Slots
    BY <2>2, OutcomeTypes DEF TypeInv, Commands, Suites, Slots
  <2>4. ASSUME NEW k \in 1 .. Begun
        PROVE  CaseAt(k) = command.cases[k] /\ k \in DOMAIN command.cases
    <3>1. (k - 1) \div 1 = k - 1
      BY <2>3
    <3> QED
      BY <2>2, <2>3, <3>1 DEF CaseAt
  <2> QED
    BY <2>1, <2>3, <2>4 DEF LogInv, RecordedInv, IsInjective
<1> QED
  BY <1>1, InitTypes, InitLog, NextTypes, NextLog, PTL DEF Spec


-------------------------------------------------------------------------------
(***************************************************************************)
(* How often the provider is called.                                       *)
(***************************************************************************)
One(fact) == IF fact THEN 1 ELSE 0

\* The saves that the watcher has yet to take.
Saves == unnoticed \union notified

\* The attempts of which every save was noticed, and none is left in the queue.
Taken == {k \in 1 .. Begun : AllNoticed(k) /\ \A s \in notified : s[2] # k}

\* The provider calls that were made and those that what was taken can still cause.
Spent == calls + One(active.stage = "ready") + One(pending # {})

\* Where the saves need not be noticed together, each attempt has but one.
LoneInv ==
    Batched /\ command.delay # "short" =>
        /\ harness.pc = "replay" =>
              Len(harness.todo) = 1 /\ \A s \in Saves : s[2] # Begun
        /\ \A s \in notified, t \in unnoticed : s[2] # t[2]
        /\ \A s, t \in unnoticed : s[2] = t[2] => s = t

BudgetInv ==
    /\ \A s \in Saves : s[2] \in 1 .. Begun
    /\ LoneInv
    /\ Batched => Spent <= Cardinality(Taken)

\* Each case of a suite that need not be noticed together has one file.
LEMMA OneSave ==
  ASSUME TypeInv, Batched, command.delay # "short", NEW k \in 1 .. Slots
  PROVE  Len(FilesOf[CaseAt(k)]) = 1
BY CaseTypes DEF Batched

\* A batch has all the saves of some attempt.
LEMMA BatchEndsAttempt ==
  ASSUME BudgetInv, Batched, TakeBatch
  PROVE  \E s \in notified : AllNoticed(s[2])
<1>1. Quiet /\ notified # {}
  BY DEF TakeBatch
<1>2. CASE command.delay = "short"
  BY <1>1, <1>2 DEF Quiet
<1>3. CASE command.delay # "short"
  <2>1. PICK s \in notified : TRUE
    BY <1>1
  <2>2. \A t \in unnoticed : t[2] # s[2]
    BY <1>3, <2>1 DEF BudgetInv, LoneInv
  <2>3. ~ (harness.pc = "replay" /\ s[2] = Begun)
    BY <1>3, <2>1 DEF BudgetInv, LoneInv, Saves
  <2> QED
    BY <2>1, <2>2, <2>3 DEF AllNoticed
<1> QED
  BY <1>2, <1>3

\* There are no more of them than attempts.
LEMMA TakenIsFinite ==
  ASSUME Begun \in Nat
  PROVE  IsFiniteSet(Taken) /\ Cardinality(Taken) \in Nat /\ Cardinality(Taken) <= Begun
<1>1. IsFiniteSet(1 .. Begun) /\ Cardinality(1 .. Begun) = Begun
  BY FS_Interval
<1>2. Taken \in SUBSET (1 .. Begun)
  BY DEF Taken
<1> QED
  BY <1>1, <1>2, FS_Subset, FS_CardinalityType

\* A step that loses none of them and costs nothing.
LEMMA TakenGrows ==
  ASSUME Begun \in Nat, Begun' \in Nat, Taken \subseteq Taken'
  PROVE  Cardinality(Taken) <= Cardinality(Taken')
<1>1. IsFiniteSet(Taken')
  <2>1. IsFiniteSet(1 .. Begun') /\ Taken' \in SUBSET (1 .. Begun')
    BY FS_Interval DEF Taken
  <2> QED
    BY <2>1, FS_Subset
<1> QED
  BY <1>1, FS_Subset

\* The initial state.
LEMMA InitBudget == Init => BudgetInv
<1> SUFFICES ASSUME Init
             PROVE  BudgetInv
  OBVIOUS
<1>1. /\ harness.pc = "checking" /\ unnoticed = {} /\ notified = {} /\ pending = {}
      /\ active.stage = "none" /\ calls = 0 /\ Begun = 0
  BY DEF Init, NoReview, Begun
<1>2. Spent = 0
  BY <1>1 DEF Spent, One
<1>3. Cardinality(Taken) >= 0
  BY <1>1, TakenIsFinite
<1> QED
  BY <1>1, <1>2, <1>3 DEF BudgetInv, LoneInv, Saves

\* The harness.
LEMMA HarnessBudget ==
  ASSUME TypeInv, BudgetInv, HarnessStep \/ Interrupt \/ FinishInterrupted
  PROVE  BudgetInv'
<1>t. /\ harness \in Harnesses /\ Begun \in Nat /\ calls \in Nat /\ active \in Reviews
      /\ Slots \in Nat
  BY CaseTypes, OutcomeTypes DEF TypeInv
<1>c. command' = command /\ Batched' = Batched
  BY CommandStays DEF Next, Batched
<1>s. calls' = calls /\ active' = active /\ pending' = pending /\ Spent' = Spent
  <2>1. calls' = calls /\ active' = active /\ pending' = pending
    BY DEF HarnessStep, Refuse, StartWatcher, SeeStartup, StartupTimesOut, BeginAttempt,
       SaveFile, ReplayFails, ReadBanner, ReadEvent, WaitTimesOut, EndAttempts, Finish,
       Interrupt, FinishInterrupted, watching
  <2> QED
    BY <2>1 DEF Spent
<1>o. Spent \in Nat
  BY <1>t DEF Spent, One
<1>g. ASSUME Begun' \in Nat, Taken \subseteq Taken', LoneInv',
             \A s \in Saves' : s[2] \in 1 .. Begun'
      PROVE  BudgetInv'
  <2>1. Cardinality(Taken) <= Cardinality(Taken')
    BY <1>g, <1>t, TakenGrows
  <2>2. Cardinality(Taken) \in Nat /\ Cardinality(Taken') \in Nat
    <3>1. IsFiniteSet(1 .. Begun') /\ Taken' \in SUBSET (1 .. Begun')
      BY <1>g, FS_Interval DEF Taken
    <3>2. Cardinality(Taken') \in Nat
      BY <3>1, FS_Subset, FS_CardinalityType
    <3> QED
      BY <1>t, <3>2, TakenIsFinite
  <2> QED
    BY <1>c, <1>g, <1>o, <1>s, <2>1, <2>2 DEF BudgetInv
<1>q. ASSUME UNCHANGED watching, Begun' = Begun, harness'.pc # "replay"
      PROVE  BudgetInv'
  <2>1. unnoticed' = unnoticed /\ notified' = notified
    BY <1>q DEF watching
  <2>2. Taken \subseteq Taken'
    BY <1>q, <2>1 DEF Taken, AllNoticed
  <2>3. LoneInv'
    BY <1>c, <1>q, <2>1 DEF BudgetInv, LoneInv
  <2> QED
    BY <1>g, <1>q, <1>t, <2>1, <2>2, <2>3 DEF BudgetInv, Saves
<1>1. CASE \/ Refuse \/ StartWatcher \/ SeeStartup \/ StartupTimesOut \/ ReadBanner
           \/ EndAttempts \/ Finish \/ Interrupt \/ FinishInterrupted
  <2>1. UNCHANGED <<watching, outcomes>> /\ harness'.pc # "replay"
    BY <1>1, <1>t DEF Refuse, StartWatcher, SeeStartup, StartupTimesOut, ReadBanner,
       EndAttempts, Finish, Interrupt, FinishInterrupted, Raised, Harnesses
  <2> QED
    BY <1>q, <2>1 DEF Begun
<1>2. CASE ReplayFails \/ ReadEvent \/ WaitTimesOut
  <2>1. UNCHANGED watching /\ harness'.pc # "replay" /\ \E o : Record(o)
    BY <1>2, <1>t DEF ReplayFails, ReadEvent, WaitTimesOut, Raised, Harnesses
  <2>2. Begun' = Begun
    BY <2>1 DEF Record, Begun, TypeInv
  <2> QED
    BY <1>q, <2>1, <2>2
<1>3. CASE BeginAttempt
  <2>1. /\ unnoticed' = unnoticed /\ notified' = notified /\ harness.pc = "between"
        /\ harness'.todo = FilesOf[CaseAt(Begun + 1)] /\ Begun + 1 \in 1 .. Slots
    BY <1>3, <1>t DEF BeginAttempt, Harnesses, watching
  <2>2. Begun' = Begun + 1
    BY <1>3 DEF BeginAttempt, TypeInv, Begun
  <2>3. \A s \in Saves : s[2] \in 1 .. Begun
    BY DEF BudgetInv
  <2>4. \A s \in Saves' : s[2] \in 1 .. Begun' /\ s[2] # Begun'
    BY <1>t, <2>1, <2>2, <2>3 DEF Saves
  <2>5. \A k \in 1 .. Begun : k \in 1 .. Begun' /\ k # Begun'
    BY <1>t, <2>2
  <2>6. Taken \subseteq Taken'
    BY <2>1, <2>5 DEF Taken, AllNoticed
  <2>7. ASSUME Batched, command.delay # "short"
        PROVE  Len(harness'.todo) = 1
    BY <2>1, <2>7, OneSave
  <2>8. LoneInv'
    BY <1>c, <2>1, <2>4, <2>7 DEF BudgetInv, LoneInv
  <2> QED
    BY <1>g, <1>t, <2>2, <2>4, <2>6, <2>8
<1>4. CASE SaveFile
  <2> DEFINE file == Head(harness.todo)
  <2>1. /\ harness.pc = "replay" /\ harness.todo \in Seq(Files) /\ harness.todo # <<>>
        /\ Begun' = Begun /\ notified' = notified
        /\ unnoticed' = {s \in unnoticed : s[1] # file} \union {<<file, Begun>>}
        /\ harness'.todo = Tail(harness.todo)
        /\ harness'.pc = IF Tail(harness.todo) = <<>> THEN "wait" ELSE "replay"
    BY <1>4, <1>t DEF SaveFile, TypeInv, Harnesses, Begun
  <2> HIDE DEF file
  <2>2. Begun \in 1 .. Begun
    BY <1>t, <2>1 DEF TypeInv
  <2>3. \A s \in Saves' : s[2] \in 1 .. Begun'
    BY <2>1, <2>2 DEF BudgetInv, Saves
  <2>4. Taken \subseteq Taken'
    BY <2>1 DEF Taken, AllNoticed
  <2>5. ASSUME Batched, command.delay # "short"
        PROVE  harness'.pc = "wait"
    <3>1. Len(harness.todo) = 1
      BY <2>1, <2>5 DEF BudgetInv, LoneInv
    <3>2. Tail(harness.todo) \in Seq(Files) /\ Len(Tail(harness.todo)) = 0
      BY <2>1, <3>1
    <3> QED
      BY <2>1, <3>2, EmptySeq
  <2>6. ASSUME Batched, command.delay # "short"
        PROVE  /\ \A s \in Saves : s[2] # Begun
               /\ \A s \in notified, t \in unnoticed : s[2] # t[2]
               /\ \A s, t \in unnoticed : s[2] = t[2] => s = t
    BY <2>1, <2>6 DEF BudgetInv, LoneInv
  <2>7. ASSUME Batched, command.delay # "short", NEW t \in unnoticed'
        PROVE  /\ \A s \in notified : s[2] # t[2]
               /\ \A s \in unnoticed' : s[2] = t[2] => s = t
    <3>1. CASE t = <<file, Begun>>
      BY <2>1, <2>6, <2>7, <3>1 DEF Saves
    <3>2. CASE t # <<file, Begun>>
      BY <2>1, <2>6, <2>7, <3>2 DEF Saves
    <3> QED
      BY <3>1, <3>2
  <2>8. LoneInv'
    BY <1>c, <2>1, <2>5, <2>7 DEF LoneInv
  <2> QED
    BY <1>g, <1>t, <2>1, <2>3, <2>4, <2>8
<1> QED
  BY <1>1, <1>2, <1>3, <1>4 DEF HarnessStep

\* The watcher.
LEMMA WatcherBudget ==
  ASSUME TypeInv, BudgetInv, WatcherStep \/ UNCHANGED vars
  PROVE  BudgetInv'
<1>t. /\ Begun \in Nat /\ calls \in Nat /\ active \in Reviews
  BY OutcomeTypes DEF TypeInv
<1>o. \A fact : One(fact) \in 0 .. 1
  BY DEF One
<1>w. /\ Begun' = Begun /\ harness' = harness /\ Batched' = Batched /\ command' = command
  <2>1. UNCHANGED <<command, harness, outcomes>>
    BY DEF WatcherStep, WatcherReady, NoticeSaves, TakeBatch, StartReview,
       ProviderUnavailable, RunnerBlocks, CallProvider, ProviderAnswers, ProviderFails,
       EndReview, Shared, vars
  <2> QED
    BY <2>1 DEF Begun, Batched
<1>n. Cardinality(Taken) \in Nat /\ Spent \in Nat /\ (Batched => Spent <= Cardinality(Taken))
  BY <1>o, <1>t, TakenIsFinite DEF BudgetInv, Spent
<1>k. ASSUME UNCHANGED <<unnoticed, notified>>, Spent' \in Nat, Spent' <= Spent
      PROVE  BudgetInv'
  <2>1. Taken' = Taken /\ Saves' = Saves
    BY <1>k, <1>w DEF Taken, AllNoticed, Saves
  <2>2. LoneInv'
    BY <1>k, <1>w, <2>1 DEF BudgetInv, LoneInv
  <2> QED
    BY <1>k, <1>n, <1>w, <2>1, <2>2 DEF BudgetInv
<1>1. CASE NoticeSaves
  <2>1. PICK seen \in SUBSET unnoticed :
              notified' = notified \union seen /\ unnoticed' = unnoticed \ seen
    BY <1>1 DEF NoticeSaves
  <2>2. Saves' = Saves /\ Spent' = Spent
    BY <1>1, <2>1 DEF NoticeSaves, Saves, Spent
  <2>3. Taken \subseteq Taken'
    BY <1>w, <2>1 DEF Taken, AllNoticed
  <2>4. LoneInv'
    BY <1>w, <2>1, <2>2 DEF BudgetInv, LoneInv
  <2>5. Cardinality(Taken) <= Cardinality(Taken') /\ Cardinality(Taken') \in Nat
    <3>1. IsFiniteSet(1 .. Begun) /\ Taken' \in SUBSET (1 .. Begun)
      BY <1>t, <1>w, FS_Interval DEF Taken
    <3>2. Cardinality(Taken') \in Nat
      BY <3>1, FS_Subset, FS_CardinalityType
    <3> QED
      BY <1>t, <1>w, <2>3, <3>2, TakenGrows
  <2> QED
    BY <1>n, <1>w, <2>2, <2>4, <2>5 DEF BudgetInv
<1>2. CASE TakeBatch
  <2>1. /\ UNCHANGED <<active, calls, unnoticed>> /\ notified' = {}
    BY <1>2 DEF TakeBatch
  <2>2. Spent' \in Nat /\ Spent' <= Spent + 1
    BY <1>o, <1>t, <2>1 DEF Spent
  <2>3. Saves' \subseteq Saves
    BY <2>1 DEF Saves
  <2>4. LoneInv'
    BY <1>w, <2>1, <2>3 DEF BudgetInv, LoneInv
  <2>5. ASSUME Batched
        PROVE  Cardinality(Taken) + 1 <= Cardinality(Taken') /\ Cardinality(Taken') \in Nat
    <3>1. PICK s \in notified : AllNoticed(s[2])
      BY <1>2, <2>5, BatchEndsAttempt
    <3>2. s[2] \in 1 .. Begun /\ s[2] \notin Taken
      BY <3>1 DEF BudgetInv, Saves, Taken
    <3>3. Taken \union {s[2]} \subseteq Taken'
      BY <1>w, <2>1, <3>1, <3>2 DEF Taken, AllNoticed
    <3>4. /\ IsFiniteSet(Taken \union {s[2]})
          /\ Cardinality(Taken \union {s[2]}) = Cardinality(Taken) + 1
      BY <1>t, <3>2, TakenIsFinite, FS_AddElement
    <3>5. IsFiniteSet(Taken')
      <4>1. IsFiniteSet(1 .. Begun) /\ Taken' \in SUBSET (1 .. Begun)
        BY <1>t, <1>w, FS_Interval DEF Taken
      <4> QED
        BY <4>1, FS_Subset
    <3>6. Cardinality(Taken \union {s[2]}) <= Cardinality(Taken')
      BY <3>3, <3>5, FS_Subset
    <3> QED
      BY <3>4, <3>5, <3>6, FS_CardinalityType
  <2> QED
    BY <1>n, <1>w, <2>2, <2>3, <2>4, <2>5 DEF BudgetInv
<1>3. CASE StartReview
  <2>1. /\ UNCHANGED <<unnoticed, notified, calls>>
        /\ pending # {} /\ pending' = {}
        /\ active.stage = "none" /\ active'.stage = "ready"
    BY <1>3 DEF StartReview, NoReview
  <2>2. Spent' = calls + 1 + 0 /\ Spent = calls + 0 + 1
    BY <2>1 DEF Spent, One
  <2> QED
    BY <1>k, <1>t, <2>1, <2>2
<1>4. CASE CallProvider
  <2>1. /\ UNCHANGED <<unnoticed, notified, pending>> /\ calls' = calls + 1
        /\ active.stage = "ready" /\ active'.stage = "provider"
    BY <1>4, <1>t DEF CallProvider, Reviews
  <2>2. Spent' = (calls + 1) + 0 + One(pending # {}) /\ Spent = calls + 1 + One(pending # {})
    BY <2>1 DEF Spent, One
  <2> QED
    BY <1>k, <1>n, <1>o, <1>t, <2>1, <2>2
<1>5. CASE \/ WatcherReady \/ ProviderUnavailable \/ RunnerBlocks \/ ProviderAnswers
           \/ ProviderFails \/ EndReview \/ UNCHANGED vars
  <2>1. /\ UNCHANGED <<unnoticed, notified, pending, calls>>
        /\ active'.stage \in {active.stage, "printed", "none"}
    BY <1>5, <1>t DEF WatcherReady, ProviderUnavailable, RunnerBlocks, ProviderAnswers,
       ProviderFails, EndReview, Emit, NoReview, Reviews, watching, vars
  <2>2. One(active'.stage = "ready") <= One(active.stage = "ready")
    BY <2>1 DEF One
  <2>3. Spent' = calls + One(active'.stage = "ready") + One(pending # {})
    BY <2>1 DEF Spent
  <2>4. Spent' <= Spent /\ Spent' \in Nat
    BY <1>o, <1>t, <2>2, <2>3 DEF Spent
  <2> QED
    BY <1>k, <2>1, <2>4
<1> QED
  BY <1>1, <1>2, <1>3, <1>4, <1>5 DEF WatcherStep

\* Every step keeps it.
LEMMA NextBudget == TypeInv /\ BudgetInv /\ [Next]_vars => BudgetInv'
BY HarnessBudget, WatcherBudget DEF Next

\* The provider is called no more often than the cap pays for that was checked once,
\* before the watcher was started: each call is for a batch that ended an attempt.
THEOREM AuthorisedCorrect == Spec => []CallsAreAuthorised
<1>1. TypeInv /\ StartInv /\ BudgetInv => CallsAreAuthorised
  <2> SUFFICES ASSUME TypeInv, StartInv, BudgetInv, Batched, command.cap > 0
               PROVE  calls <= command.cap
    BY DEF CallsAreAuthorised
  <2>t. /\ calls \in Nat /\ Begun \in Nat /\ Slots \in Nat /\ Begun <= Slots
        /\ command.cap \in Nat
        /\ command.plan = "none" => command.cap = 0
    BY CaseTypes, OutcomeTypes DEF TypeInv, Commands
  <2>1. CASE harness.pc = "checking" \/ exit = "refused"
    BY <2>1, <2>t DEF StartInv
  <2>2. CASE harness.pc # "checking" /\ exit # "refused"
    <3>1. CostFits
      BY <2>2, <2>t DEF StartInv, Planned
    <3>2. Slots <= command.cap
      BY <3>1, <2>t DEF CostFits, Slots
    <3>3. \A fact : One(fact) \in 0 .. 1
      BY DEF One
    <3>4. calls <= Begun
      BY <2>t, <3>3, TakenIsFinite DEF BudgetInv, Spent
    <3> QED
      BY <2>t, <3>2, <3>4
  <2> QED
    BY <2>1, <2>2
<1>2. TypeInv /\ LogInv /\ BudgetInv => CallsAreAuthorised
  BY <1>1 DEF LogInv
<1> QED
  BY <1>2, InitTypes, InitLog, InitBudget, NextTypes, NextLog, NextBudget, PTL DEF Spec


-------------------------------------------------------------------------------
(***************************************************************************)
(* Whose answers are recorded.                                             *)
(***************************************************************************)
GivenUp == \E j \in 1 .. Begun : TimedOut(outcomes[j])

\* The files of the present attempt, and what a review of its saves has read.
OwnFiles == CaseFiles(CaseAt(Begun))
OwnSource == OwnFiles \X {Begun}

IsEvent(i) == output[i].kind = "event"

\* No line that is still to be read is an answer.
Silent == \A i \in 1 .. Len(output) : ~ IsEvent(i)

\* The worker has nothing more to print.
Resting == active.stage \in {"none", "printed"}

SavedNow(files) == \A f \in files : saved[f] = Begun

FilesOfSaves == {s[1] : s \in Saves}

\* What the watcher has yet to take was saved for the present attempt.
OfPresent == \A s \in Saves : s[2] = Begun /\ saved[s[1]] = Begun

\* Between attempts everything that was saved has been answered.
Quiescent == Silent /\ Resting /\ Saves = {} /\ pending = {}

\* While an attempt is replayed, its saves wait to be noticed or to be taken.
Replayed ==
    /\ Silent /\ Resting /\ pending = {}
    /\ FilesOfSaves \union ToSet(harness.todo) = OwnFiles
    /\ OfPresent

\* Afterwards they are in one place at a time, or were dropped.
Untaken == Silent /\ Resting /\ pending = {} /\ FilesOfSaves = OwnFiles /\ OfPresent

Waiting == Silent /\ Resting /\ Saves = {} /\ pending = OwnFiles /\ SavedNow(OwnFiles)

Reviewed ==
    /\ Silent /\ active.stage \in {"ready", "provider"} /\ active.source = OwnSource
    /\ Saves = {} /\ pending = {}

Answered ==
    /\ Resting /\ Saves = {} /\ pending = {}
    /\ \A i \in 1 .. Len(output) : IsEvent(i) => output[i].source = OwnSource
    /\ \A i, j \in 1 .. Len(output) : IsEvent(i) /\ IsEvent(j) => i = j

\* What the watcher works on is of the present attempt, as long as no attempt was given
\* up.
PipelineInv ==
    Batched /\ ~ GivenUp /\ harness.pc \in Running =>
        /\ active.files = {} \/ \E c \in Cases : active.files = CaseFiles(c)
        /\ harness.pc \in {"starting", "between"} => Quiescent
        /\ harness.pc = "replay" => Replayed
        /\ harness.pc = "wait" => Untaken \/ Waiting \/ Reviewed \/ Answered

\* The present attempt's case.
LEMMA PresentCase ==
  ASSUME TypeInv, harness.pc \in {"replay", "wait"}
  PROVE  /\ Begun \in Nat /\ Begun > 0
         /\ CaseAt(Begun) \in Cases /\ OwnFiles \subseteq Files /\ OwnFiles # {}
         /\ FilesOf[CaseAt(Begun)] \in Seq(Files) \ {<<>>}
<1>1. Begun \in 1 .. Slots /\ Begun \in Nat /\ Begun > 0
  BY CaseTypes, OutcomeTypes DEF TypeInv
<1>2. /\ CaseAt(Begun) \in Cases
      /\ FilesOf[CaseAt(Begun)] \in Seq(Files) \ {<<>>}
      /\ CaseFiles(CaseAt(Begun)) \subseteq Files
  BY <1>1, CaseTypes
<1>3. ToSet(FilesOf[CaseAt(Begun)]) # {}
  BY <1>2, MembersOfTail
<1> QED
  BY <1>1, <1>2, <1>3 DEF OwnFiles, CaseFiles

\* The initial state.
LEMMA InitPipeline == Init => PipelineInv /\ AnswersAreOwn
  BY DEF Init, PipelineInv, AnswersAreOwn, Running, Begun

\* A step that changes neither the harness nor its outcomes: the present attempt stays.
LEMMA WatcherFrame ==
  ASSUME UNCHANGED Shared
  PROVE  /\ UNCHANGED <<GivenUp, Batched, OwnFiles, OwnSource, Begun, harness, command, saved>>
         /\ \A S : SavedNow(S)' = SavedNow(S)
         /\ AnswersAreOwn' = AnswersAreOwn
<1>1. UNCHANGED <<command, harness, outcomes, saved, Begun>>
  BY DEF Shared, Begun
<1>2. \A k : CaseAt(k)' = CaseAt(k)
  BY <1>1 DEF CaseAt
<1>3. UNCHANGED <<GivenUp, Batched, OwnFiles, OwnSource>>
  BY <1>1, <1>2 DEF GivenUp, Batched, OwnFiles, OwnSource
<1>4. AnswersAreOwn' = AnswersAreOwn
  BY <1>1, <1>2, <1>3 DEF AnswersAreOwn
<1> QED
  BY <1>1, <1>3, <1>4 DEF SavedNow

\* Lines that are no answers leave the queue silent, or its only answer alone.
LEMMA AppendBanner ==
  ASSUME TypeInv, NEW line \in Lines, line.kind # "event", output' = Append(output, line)
  PROVE  /\ Silent => Silent'
         /\ Answered /\ UNCHANGED <<active.stage, Saves, pending, OwnSource>> => Answered'
<1>1. /\ output \in Seq(Lines) /\ Len(output) \in Nat
      /\ Len(output') = Len(output) + 1 /\ output'[Len(output) + 1] = line
      /\ \A i \in 1 .. Len(output) : output'[i] = output[i]
  BY SequenceFacts DEF TypeInv
<1>2. ASSUME NEW i \in 1 .. Len(output'), IsEvent(i)'
      PROVE  i \in 1 .. Len(output) /\ IsEvent(i) /\ output'[i] = output[i]
  BY <1>1, <1>2 DEF IsEvent
<1>3. ASSUME Silent
      PROVE  Silent'
  BY <1>2, <1>3 DEF Silent
<1>4. ASSUME Answered, UNCHANGED <<active.stage, Saves, pending, OwnSource>>
      PROVE  Answered'
  BY <1>2, <1>4 DEF Answered, Resting
<1> QED
  BY <1>3, <1>4

\* An answer in a silent queue is the only one.
LEMMA AppendAnswer ==
  ASSUME TypeInv, NEW line \in Lines, line.kind = "event", output' = Append(output, line),
         Silent, line.source = OwnSource, OwnSource' = OwnSource,
         active'.stage = "printed", Saves' = {}, pending' = {}
  PROVE  Answered'
<1>1. /\ output \in Seq(Lines) /\ Len(output) \in Nat
      /\ Len(output') = Len(output) + 1 /\ output'[Len(output) + 1] = line
      /\ \A i \in 1 .. Len(output) : output'[i] = output[i]
  BY SequenceFacts DEF TypeInv
<1>2. ASSUME NEW i \in 1 .. Len(output'), IsEvent(i)'
      PROVE  i = Len(output) + 1
  BY <1>1, <1>2 DEF IsEvent, Silent
<1>3. \A i \in 1 .. Len(output') : IsEvent(i)' => output'[i].source = OwnSource'
  BY <1>1, <1>2
<1> QED
  BY <1>2, <1>3 DEF Answered, Resting

\* Reading a line leaves the queue silent if it was, or if the line was the answer.
LEMMA ReadLine ==
  ASSUME TypeInv, output # <<>>, output' = Tail(output)
  PROVE  /\ Silent => Silent'
         /\ Answered /\ Head(output).kind = "event" => Silent'
         /\ Answered /\ Head(output).kind = "event" => Head(output).source = OwnSource
         /\ Answered /\ UNCHANGED <<active.stage, Saves, pending, OwnSource>> => Answered'
<1>1. /\ output \in Seq(Lines) /\ Len(output) \in Nat /\ Len(output) > 0
      /\ Len(output') = Len(output) - 1 /\ Head(output) = output[1]
      /\ \A i \in 1 .. Len(output) - 1 : output'[i] = output[i + 1]
  BY DEF TypeInv
<1>2. ASSUME NEW i \in 1 .. Len(output'), IsEvent(i)'
      PROVE  /\ i + 1 \in 1 .. Len(output) /\ i + 1 # 1 /\ IsEvent(i + 1)
             /\ output'[i] = output[i + 1]
  BY <1>1, <1>2 DEF IsEvent
<1>3. 1 \in 1 .. Len(output) /\ (Head(output).kind = "event" => IsEvent(1))
  BY <1>1 DEF IsEvent
<1>4. ASSUME Silent
      PROVE  Silent'
  BY <1>2, <1>4 DEF Silent
<1>5. ASSUME Answered, Head(output).kind = "event"
      PROVE  Silent' /\ Head(output).source = OwnSource
  BY <1>1, <1>2, <1>3, <1>5 DEF Silent, Answered
<1>6. ASSUME Answered, UNCHANGED <<active.stage, Saves, pending, OwnSource>>
      PROVE  Answered'
  <2>1. \A i \in 1 .. Len(output') : IsEvent(i)' => output'[i].source = OwnSource'
    BY <1>2, <1>6 DEF Answered
  <2>2. ASSUME NEW i \in 1 .. Len(output'), NEW j \in 1 .. Len(output'),
               IsEvent(i)', IsEvent(j)'
        PROVE  i = j
    <3>1. i + 1 = j + 1
      BY <1>2, <1>6, <2>2 DEF Answered
    <3> QED
      BY <3>1
  <2> QED
    BY <1>6, <2>1, <2>2 DEF Answered, Resting
<1> QED
  BY <1>4, <1>5, <1>6


\* What is earlier than one of n is none but the last of them.
LEMMA EarlierStays ==
  ASSUME NEW n \in Nat, NEW k \in 1 .. n, NEW j \in 1 .. k - 1
  PROVE  j \in 1 .. n - 1
  OBVIOUS

\* A step after which every outcome but the last is as before, and the last is
\* unanswered, the attempt's own, or one after an attempt that was given up.
LEMMA AnswersStay ==
  ASSUME TypeInv, AnswersAreOwn, command' = command, Begun' \in {Begun, Begun + 1}, Begun' > 0,
         \A k \in 1 .. Begun' - 1 : outcomes'[k] = outcomes[k],
         Batched => \/ outcomes'[Begun'].source = {}
                    \/ outcomes'[Begun'].source = CaseFiles(CaseAt(Begun')) \X {Begun'}
                    \/ \E j \in 1 .. Begun' - 1 : TimedOut(outcomes[j])
  PROVE  AnswersAreOwn'
<1>1. Begun \in Nat /\ Batched' = Batched /\ \A k : CaseAt(k)' = CaseAt(k)
  BY OutcomeTypes DEF Batched, CaseAt
<1> SUFFICES ASSUME Batched, NEW k \in 1 .. Begun'
             PROVE  \/ outcomes'[k].source = {}
                    \/ outcomes'[k].source = CaseFiles(CaseAt(k)) \X {k}
                    \/ \E j \in 1 .. k - 1 : TimedOut(outcomes'[j])
  BY <1>1 DEF AnswersAreOwn, TimedOut
<1>b. Begun' \in Nat
  BY <1>1
<1>2. ASSUME NEW j \in 1 .. k - 1
      PROVE  outcomes'[j] = outcomes[j]
  <2>1. j \in 1 .. Begun' - 1
    BY <1>b, EarlierStays
  <2> QED
    BY <2>1
<1>3. CASE k = Begun'
  BY <1>1, <1>2, <1>3
<1>4. CASE k # Begun'
  <2>1. k \in 1 .. Begun' - 1 /\ k \in 1 .. Begun
    <3>1. CASE Begun' = Begun
      BY <1>1, <1>4, <3>1
    <3>2. CASE Begun' = Begun + 1
      BY <1>1, <1>4, <3>2
    <3> QED
      BY <3>1, <3>2
  <2>2. \/ outcomes[k].source = {}
        \/ outcomes[k].source = CaseFiles(CaseAt(k)) \X {k}
        \/ \E j \in 1 .. k - 1 : TimedOut(outcomes[j])
    BY <2>1 DEF AnswersAreOwn
  <2> QED
    BY <1>2, <2>1, <2>2
<1> QED
  BY <1>3, <1>4

\* An outcome that is recorded without a source.
LEMMA UnansweredStays ==
  ASSUME TypeInv, AnswersAreOwn, command' = command, Begun > 0,
         NEW o \in Listed, Record(o), o.source = {}
  PROVE  AnswersAreOwn'
<1>1. /\ Begun' = Begun /\ outcomes'[Begun] = o /\ Begun \in Nat
      /\ \A k \in 1 .. Begun : k # Begun => outcomes'[k] = outcomes[k]
  BY Recorded, OutcomeTypes
<1>2. \A k \in 1 .. Begun' - 1 : outcomes'[k] = outcomes[k]
  BY <1>1
<1> QED
  BY <1>1, <1>2, AnswersStay

\* The harness.
LEMMA HarnessPipeline ==
  ASSUME TypeInv, LogInv, BudgetInv, PipelineInv, AnswersAreOwn,
         HarnessStep \/ Interrupt \/ FinishInterrupted
  PROVE  PipelineInv' /\ AnswersAreOwn'
<1>t. /\ harness \in Harnesses /\ Begun \in Nat /\ outcomes \in Seq(Listed)
      /\ output \in Seq(Lines) /\ saved \in [Files -> Nat]
  BY OutcomeTypes DEF TypeInv
<1>c. command' = command /\ Batched' = Batched /\ \A k : CaseAt(k)' = CaseAt(k)
  BY CommandStays DEF Next, Batched, CaseAt
<1>k. ASSUME outcomes' = outcomes
      PROVE  /\ UNCHANGED <<Begun, GivenUp, OwnFiles, OwnSource, AllValid>>
             /\ AnswersAreOwn'
  <2>1. Begun' = Begun
    BY <1>k DEF Begun
  <2> QED
    BY <1>c, <1>k, <2>1 DEF GivenUp, OwnFiles, OwnSource, AnswersAreOwn, AllValid
<1>1. CASE Refuse \/ StartupTimesOut \/ EndAttempts \/ Finish \/ Interrupt \/ FinishInterrupted
  <2>1. outcomes' = outcomes /\ harness'.pc \notin Running
    BY <1>1, <1>t DEF Refuse, StartupTimesOut, EndAttempts, Finish, Interrupt,
       FinishInterrupted, Raised, Harnesses, Running
  <2> QED
    BY <1>k, <2>1 DEF PipelineInv
<1>2. CASE StartWatcher
  <2>1. /\ outcomes' = outcomes /\ harness'.pc = "starting"
        /\ UNCHANGED <<active, Saves, pending, output>>
        /\ harness.pc = "checking"
    BY <1>2, <1>t DEF StartWatcher, Harnesses, watching, Saves
  <2>2. Saves = {} /\ pending = {} /\ active = NoReview /\ output = <<>>
    BY <2>1 DEF LogInv, StartInv, Saves
  <2>3. Quiescent' /\ active'.files = {}
    BY <2>1, <2>2 DEF Quiescent, Silent, Resting, NoReview
  <2> QED
    BY <1>k, <2>1, <2>3 DEF PipelineInv
<1>3. CASE SeeStartup
  <2>1. /\ outcomes' = outcomes /\ harness'.pc \in {"starting", "between"}
        /\ UNCHANGED <<active, Saves, pending>>
        /\ harness.pc = "starting" /\ output # <<>> /\ output' = Tail(output)
    BY <1>3, <1>t DEF SeeStartup, Harnesses, watching, Saves
  <2>2. Quiescent => Quiescent'
    BY <2>1, ReadLine DEF Quiescent, Resting
  <2> QED
    BY <1>c, <1>k, <2>1, <2>2 DEF PipelineInv, Running
<1>4. CASE BeginAttempt
  <2> DEFINE o == Outcome(Begun + 1, "interrupted", "unknown")
  <2>1. /\ harness.pc = "between" /\ harness'.pc = "replay"
        /\ harness'.todo = FilesOf[CaseAt(Begun + 1)]
        /\ outcomes' = Append(outcomes, o)
        /\ UNCHANGED <<active, Saves, pending, output>>
    BY <1>4, <1>t DEF BeginAttempt, Harnesses, watching, Saves
  <2>2. o \in Listed /\ o.source = {}
    <3>1. Begun + 1 \in Nat /\ "interrupted" \in Statuses /\ "unknown" \in Attempted
      BY <1>t DEF Statuses, Attempted
    <3> QED
      BY <3>1, OutcomeTypes DEF Outcome
  <2> HIDE DEF o
  <2>3. /\ Begun' = Begun + 1 /\ outcomes'[Begun + 1] = o
        /\ \A k \in 1 .. Begun : outcomes'[k] = outcomes[k]
    BY <1>t, <2>1, <2>2, SequenceFacts DEF Begun
  <2>4. GivenUp => GivenUp'
    BY <1>t, <2>3 DEF GivenUp
  <2>5. AnswersAreOwn'
    <3>1. \A k \in 1 .. Begun' - 1 : outcomes'[k] = outcomes[k]
      BY <1>t, <2>3
    <3>2. outcomes'[Begun'].source = {}
      BY <2>2, <2>3
    <3> QED
      BY <1>c, <1>t, <2>3, <3>1, <3>2, AnswersStay
  <2>6. OwnFiles' = ToSet(harness'.todo)
    <3>1. OwnFiles' = CaseFiles(CaseAt(Begun + 1))
      BY <1>c, <2>3 DEF OwnFiles, CaseAt
    <3> QED
      BY <2>1, <3>1 DEF CaseFiles
  <2>7. Quiescent => Replayed'
    BY <2>1, <2>6 DEF Quiescent, Replayed, Silent, IsEvent, Resting, FilesOfSaves, OfPresent
  <2> QED
    BY <1>c, <2>1, <2>4, <2>5, <2>7 DEF PipelineInv, Running
<1>5. CASE SaveFile
  <2> DEFINE file == Head(harness.todo)
             rest == Tail(harness.todo)
  <2>1. /\ harness.pc = "replay" /\ harness.todo \in Seq(Files) /\ harness.todo # <<>>
        /\ outcomes' = outcomes /\ UNCHANGED <<active, pending, output, notified>>
        /\ saved' = [saved EXCEPT ![file] = Begun]
        /\ unnoticed' = {s \in unnoticed : s[1] # file} \union {<<file, Begun>>}
        /\ harness'.todo = rest
        /\ harness'.pc = IF rest = <<>> THEN "wait" ELSE "replay"
    BY <1>5, <1>t DEF SaveFile, Harnesses, TypeInv
  <2>2. file \in Files /\ rest \in Seq(Files) /\ ToSet(harness.todo) = {file} \union ToSet(rest)
    BY <2>1, MembersOfTail
  <2> HIDE DEF file, rest
  <2>3. /\ \A s \in Saves' : s \in Saves \/ s = <<file, Begun>>
        /\ FilesOfSaves' = FilesOfSaves \union {file}
    <3>1. <<file, Begun>> \in Saves'
      BY <2>1 DEF Saves
    <3>2. \A s \in Saves : s[1] # file => s \in Saves'
      BY <2>1 DEF Saves
    <3>3. \A s \in Saves' : s \in Saves \/ s = <<file, Begun>>
      BY <2>1 DEF Saves
    <3>4. ASSUME NEW f \in FilesOfSaves'
          PROVE  f \in FilesOfSaves \union {file}
      BY <3>3, <3>4 DEF FilesOfSaves
    <3>5. ASSUME NEW f \in FilesOfSaves \union {file}
          PROVE  f \in FilesOfSaves'
      <4>1. CASE f = file
        BY <3>1, <4>1 DEF FilesOfSaves
      <4>2. CASE f # file
        BY <3>2, <3>5, <4>2 DEF FilesOfSaves
      <4> QED
        BY <4>1, <4>2
    <3> QED
      BY <3>3, <3>4, <3>5
  <2>4. ASSUME Batched, Replayed
        PROVE  /\ rest = <<>> => Untaken'
               /\ rest # <<>> => Replayed'
    <3>1. UNCHANGED <<OwnFiles, Begun>>
      BY <1>k, <2>1
    <3>2. OfPresent'
      <4> SUFFICES ASSUME NEW s \in Saves'
                   PROVE  s[2] = Begun /\ saved'[s[1]] = Begun
        BY <3>1 DEF OfPresent
      <4>1. CASE s = <<file, Begun>>
        BY <1>t, <2>1, <2>2, <4>1
      <4>2. CASE s \in Saves
        <5>1. s[1] \in Files /\ s[2] = Begun /\ saved[s[1]] = Begun
          BY <2>4, <4>2 DEF Replayed, OfPresent, Saves, TypeInv
        <5> QED
          BY <1>t, <2>1, <2>2, <5>1
      <4> QED
        BY <2>3, <4>1, <4>2
    <3>3. FilesOfSaves' \union ToSet(rest) = OwnFiles'
      BY <2>2, <2>3, <2>4, <3>1 DEF Replayed
    <3>4. Silent' /\ Resting' /\ pending' = {}
      BY <2>1, <2>4 DEF Replayed, Silent, IsEvent, Resting
    <3>5. ToSet(<<>>) = {}
      BY DEF ToSet
    <3>6. ASSUME rest = <<>>
          PROVE  Untaken'
      BY <3>2, <3>3, <3>4, <3>5, <3>6 DEF Untaken
    <3>7. ASSUME rest # <<>>
          PROVE  Replayed'
      BY <2>1, <3>2, <3>3, <3>4 DEF Replayed
    <3> QED
      BY <3>6, <3>7
  <2> QED
    BY <1>c, <1>k, <2>1, <2>4 DEF PipelineInv, Running
<1>6. CASE ReplayFails
  <2> DEFINE o == Outcome(Begun, "harness-error", "unknown")
  <2>1. o \in Listed /\ o.source = {}
    <3>1. "harness-error" \in Statuses /\ "unknown" \in Attempted
      BY DEF Statuses, Attempted
    <3> QED
      BY <1>t, <3>1, OutcomeTypes DEF Outcome
  <2>2. /\ Begun > 0 /\ Record(o) /\ harness'.pc \notin Running
    BY <1>6, <1>t DEF ReplayFails, Raised, Harnesses, Running, TypeInv
  <2> HIDE DEF o
  <2> QED
    BY <1>c, <2>1, <2>2, UnansweredStays DEF PipelineInv
<1>7. CASE ReadBanner
  <2>1. /\ harness.pc = "wait" /\ harness'.pc = "wait" /\ outcomes' = outcomes
        /\ output # <<>> /\ output' = Tail(output)
        /\ UNCHANGED <<active, Saves, pending, saved>>
    BY <1>7, <1>t DEF ReadBanner, Harnesses, watching, Saves
  <2>2. UNCHANGED <<OwnFiles, OwnSource, Begun>>
    BY <1>k, <2>1
  <2>3. Answered => Answered'
    BY <2>1, <2>2, ReadLine
  <2>4. Silent => Silent'
    BY <2>1, ReadLine
  <2>5. Untaken \/ Waiting \/ Reviewed => (Untaken \/ Waiting \/ Reviewed)'
    BY <2>1, <2>2, <2>4 DEF Untaken, Waiting, Reviewed, Resting, SavedNow, FilesOfSaves,
       OfPresent
  <2> QED
    BY <1>c, <1>k, <2>1, <2>3, <2>5 DEF PipelineInv, Running
<1>8. CASE ReadEvent
  <2> DEFINE o == OutcomeOf(Begun, Head(output))
  <2>1. /\ harness.pc = "wait" /\ harness'.pc = "between" /\ Record(o) /\ Begun > 0
        /\ output # <<>> /\ output' = Tail(output) /\ Head(output).kind = "event"
        /\ UNCHANGED <<active, Saves, pending, saved>>
    BY <1>8, <1>t DEF ReadEvent, Harnesses, watching, TypeInv, Saves
  <2>2. Head(output) \in Lines
    BY <1>t, <2>1
  <2>3. o \in Listed /\ o.source = Head(output).source
    BY <1>t, <2>2, OutcomeTypes DEF OutcomeOf
  <2> HIDE DEF o
  <2>4. /\ Begun' = Begun /\ outcomes'[Begun] = o
        /\ \A k \in 1 .. Begun : k # Begun => outcomes'[k] = outcomes[k]
    BY <2>1, <2>3, Recorded
  <2>5. ~ TimedOut(outcomes[Begun])
    BY <2>1 DEF LogInv, RecordedInv, TimedOut
  <2>6. GivenUp => \E j \in 1 .. Begun - 1 : TimedOut(outcomes[j])
    <3> SUFFICES ASSUME NEW j \in 1 .. Begun, TimedOut(outcomes[j])
                 PROVE  j \in 1 .. Begun - 1
      BY DEF GivenUp
    <3> QED
      BY <1>t, <2>5
  <2>7. GivenUp => GivenUp'
    BY <1>t, <2>4, <2>6 DEF GivenUp
  <2>8. ASSUME Batched, ~ GivenUp
        PROVE  /\ Answered
               /\ active.files = {} \/ \E c \in Cases : active.files = CaseFiles(c)
    <3>1. ~ Silent
      <4>1. 1 \in 1 .. Len(output) /\ IsEvent(1)
        BY <1>t, <2>1 DEF IsEvent
      <4> QED
        BY <4>1 DEF Silent
    <3> QED
      BY <2>1, <2>8, <3>1 DEF PipelineInv, Running, Untaken, Waiting, Reviewed
  <2>9. ASSUME Batched, ~ GivenUp
        PROVE  Quiescent' /\ o.source = CaseFiles(CaseAt(Begun)) \X {Begun}
    <3>1. Silent' /\ o.source = OwnSource
      BY <2>1, <2>3, <2>8, <2>9, ReadLine
    <3> QED
      BY <2>1, <2>8, <2>9, <3>1 DEF Quiescent, Answered, Resting, OwnSource, OwnFiles
  <2>10. AnswersAreOwn'
    <3>1. \A k \in 1 .. Begun' - 1 : outcomes'[k] = outcomes[k]
      BY <1>t, <2>4
    <3>2. Batched => \/ outcomes'[Begun'].source = CaseFiles(CaseAt(Begun')) \X {Begun'}
                     \/ \E j \in 1 .. Begun' - 1 : TimedOut(outcomes[j])
      BY <2>4, <2>6, <2>9
    <3> QED
      BY <1>c, <2>1, <2>4, <3>1, <3>2, AnswersStay
  <2> QED
    BY <1>c, <2>1, <2>7, <2>8, <2>9, <2>10 DEF PipelineInv, Running
<1>9. CASE WaitTimesOut
  <2> DEFINE o == Outcome(Begun, "timeout", IF harness.begun THEN "yes" ELSE "no")
  <2>1. o \in Listed /\ o.source = {} /\ TimedOut(o)
    <3>1. /\ "timeout" \in Statuses
          /\ (IF harness.begun THEN "yes" ELSE "no") \in Attempted
      BY DEF Statuses, EventStatuses, Attempted
    <3> QED
      BY <1>t, <3>1, OutcomeTypes DEF Outcome, TimedOut
  <2>2. /\ Begun > 0 /\ Record(o)
    BY <1>9 DEF WaitTimesOut, TypeInv
  <2> HIDE DEF o
  <2>3. GivenUp'
    <3>1. Begun' = Begun /\ outcomes'[Begun] = o
      BY <2>1, <2>2, Recorded
    <3> QED
      BY <1>t, <2>1, <2>2, <3>1 DEF GivenUp
  <2> QED
    BY <1>c, <2>1, <2>2, <2>3, UnansweredStays DEF PipelineInv
<1> QED
  BY <1>1, <1>2, <1>3, <1>4, <1>5, <1>6, <1>7, <1>8, <1>9 DEF HarnessStep

\* The watcher.
LEMMA WatcherPipeline ==
  ASSUME TypeInv, LogInv, BudgetInv, PipelineInv, AnswersAreOwn, WatcherStep
  PROVE  PipelineInv' /\ AnswersAreOwn'
<1>f. UNCHANGED Shared
  BY DEF WatcherStep, WatcherReady, NoticeSaves, TakeBatch, StartReview,
     ProviderUnavailable, RunnerBlocks, CallProvider, ProviderAnswers, ProviderFails,
     EndReview
<1>u. /\ UNCHANGED <<GivenUp, Batched, OwnFiles, OwnSource, Begun, harness, command, saved>>
      /\ \A S : SavedNow(S)' = SavedNow(S)
      /\ AnswersAreOwn'
  BY <1>f, WatcherFrame
<1> SUFFICES ASSUME Batched, ~ GivenUp, harness.pc \in Running
             PROVE  PipelineInv'
  BY <1>u DEF PipelineInv
<1>t. active \in Reviews
  BY DEF TypeInv
<1>i. /\ active.files = {} \/ \E c \in Cases : active.files = CaseFiles(c)
      /\ harness.pc \in {"starting", "between"} => Quiescent
      /\ harness.pc = "replay" => Replayed
      /\ harness.pc = "wait" => Untaken \/ Waiting \/ Reviewed \/ Answered
  BY DEF PipelineInv
<1>r. harness.pc \in {"starting", "between", "replay", "wait"}
  BY DEF Running
<1>a. ASSUME active.stage \in {"ready", "provider"}
      PROVE  harness.pc = "wait" /\ Reviewed
  BY <1>a, <1>i, <1>r DEF Quiescent, Replayed, Untaken, Waiting, Answered, Resting
<1>w. ASSUME harness.pc = "wait",
             active'.files = {} \/ \E c \in Cases : active'.files = CaseFiles(c),
             Untaken' \/ Waiting' \/ Reviewed' \/ Answered'
      PROVE  PipelineInv'
  BY <1>u, <1>w DEF PipelineInv
<1>k. ASSUME active'.files = {} \/ \E c \in Cases : active'.files = CaseFiles(c),
             Resting => Resting', UNCHANGED <<Saves, pending>>,
             Reviewed => Reviewed', Silent => Silent', Answered => Answered'
      PROVE  PipelineInv'
  <2>1. /\ harness'.todo = harness.todo /\ FilesOfSaves' = FilesOfSaves
        /\ OfPresent => OfPresent'
    BY <1>k, <1>u DEF FilesOfSaves, OfPresent
  <2>2. Quiescent => Quiescent'
    BY <1>k DEF Quiescent
  <2>3. Replayed => Replayed'
    BY <1>k, <1>u, <2>1 DEF Replayed
  <2>4. Untaken \/ Waiting => Untaken' \/ Waiting'
    BY <1>k, <1>u, <2>1 DEF Untaken, Waiting, SavedNow
  <2> QED
    BY <1>i, <1>k, <1>u, <2>2, <2>3, <2>4 DEF PipelineInv
<1>e. ASSUME active.stage \in {"ready", "provider"}, UNCHANGED <<Saves, pending>>,
             NEW status \in Statuses, NEW attempted \in Attempted, NEW response \in Responses,
             Emit(status, attempted, response)
      PROVE  PipelineInv'
  <2>1. harness.pc = "wait" /\ Reviewed
    BY <1>a, <1>e
  <2>2. /\ Event(status, attempted, active.source, response) \in Lines
        /\ Event(status, attempted, active.source, response).kind = "event"
        /\ Event(status, attempted, active.source, response).source = active.source
    BY LineTypes DEF Event
  <2>3. /\ output' = Append(output, Event(status, attempted, active.source, response))
        /\ active'.stage = "printed" /\ active'.files = active.files
    BY <1>e, <1>t DEF Emit, Reviews
  <2>4. Answered'
    BY <1>e, <1>u, <2>1, <2>2, <2>3, AppendAnswer DEF Reviewed
  <2> QED
    BY <1>i, <1>w, <2>1, <2>3, <2>4
<1>o. {} \in Responses /\ Provenance \in Attempted /\ NoModelTried \in Attempted
      /\ "yes" \in Attempted
  BY DEF Responses, Provenance, NoModelTried, Attempted
<1>1. CASE WatcherReady
  <2>1. /\ UNCHANGED <<active, Saves, pending>>
        /\ output' = Append(output, Banner("Watching"))
        /\ Banner("Watching") \in Lines /\ Banner("Watching").kind # "event"
    BY <1>1, LineTypes DEF WatcherReady, watching, Banner, Saves
  <2>2. (Silent => Silent') /\ (Answered => Answered')
    BY <1>u, <2>1, AppendBanner
  <2>3. Reviewed => Reviewed'
    BY <1>u, <2>1, <2>2 DEF Reviewed
  <2> QED
    BY <1>i, <1>k, <2>1, <2>2, <2>3 DEF Resting
<1>2. CASE TakeBatch
  <2>1. /\ notified' = {} /\ UNCHANGED <<active, output, unnoticed>>
        /\ pending' = pending \union ({s[1] : s \in notified} \ active.files)
    BY <1>2 DEF TakeBatch
  <2>2. PICK s \in notified : AllNoticed(s[2])
    BY <1>2, BatchEndsAttempt
  <2>n. /\ harness.pc = "wait" /\ Untaken
        /\ unnoticed = {} /\ {x[1] : x \in notified} = OwnFiles
    <3>1. s \in Saves
      BY <2>2 DEF Saves
    <3>2. ~ Quiescent /\ ~ Waiting /\ ~ Reviewed /\ ~ Answered
      BY <3>1 DEF Quiescent, Waiting, Reviewed, Answered
    <3>3. ~ (harness.pc = "replay" /\ Replayed)
      BY <2>2, <3>1 DEF Replayed, OfPresent, AllNoticed
    <3>4. harness.pc = "wait" /\ Untaken
      BY <1>i, <1>r, <3>2, <3>3
    <3>5. unnoticed = {}
      <4>1. s[2] = Begun /\ \A x \in unnoticed : x[2] = Begun
        BY <3>1, <3>4 DEF Untaken, OfPresent, Saves
      <4> QED
        BY <2>2, <4>1 DEF AllNoticed
    <3> QED
      BY <3>4, <3>5 DEF Untaken, FilesOfSaves, Saves
  <2>s. Saves' = {}
    BY <2>1, <2>n DEF Saves
  <2>3. pending' = {} \/ pending' = OwnFiles
    <3>1. pending' = OwnFiles \ active.files
      BY <2>1, <2>n DEF Untaken
    <3>2. CaseAt(Begun) \in Cases
      BY <2>n, PresentCase
    <3>3. ASSUME NEW c \in Cases, active.files = CaseFiles(c)
          PROVE  pending' = {} \/ pending' = OwnFiles
      <4>1. CASE c = CaseAt(Begun)
        BY <3>1, <3>3, <4>1 DEF OwnFiles
      <4>2. CASE c # CaseAt(Begun)
        <5>1. CaseFiles(c) \intersect OwnFiles = {}
          BY <3>2, <4>2, CasesAssumption DEF OwnFiles
        <5> QED
          BY <3>1, <3>3, <5>1
      <4> QED
        BY <4>1, <4>2
    <3> QED
      BY <1>i, <3>1, <3>3
  <2>4. CASE pending' = {}
    BY <1>i, <1>w, <2>1, <2>n, <2>s, <2>4
    DEF Untaken, Answered, Silent, IsEvent, Resting
  <2>5. CASE pending' = OwnFiles
    <3>1. \A f \in OwnFiles : saved[f] = Begun
      BY <2>n DEF Untaken, OfPresent, FilesOfSaves
    <3>2. Waiting'
      BY <1>u, <2>1, <2>n, <2>s, <2>5, <3>1
      DEF Untaken, Waiting, Silent, IsEvent, Resting, SavedNow
    <3> QED
      BY <1>i, <1>w, <2>1, <2>n, <3>2
  <2> QED
    BY <2>3, <2>4, <2>5
<1>3. CASE StartReview
  <2>1. /\ active = NoReview /\ pending # {} /\ pending' = {} /\ Saves' = Saves
        /\ active' = [files |-> pending, source |-> {<<f, saved[f]>> : f \in pending},
                      stage |-> "ready"]
        /\ output' = Append(output, Banner(ReviewBanner))
        /\ Banner(ReviewBanner) \in Lines /\ Banner(ReviewBanner).kind # "event"
    BY <1>3, LineTypes DEF StartReview, Banner, ReviewBanner, Saves
  <2>2. harness.pc = "wait" /\ Waiting
    BY <1>i, <1>r, <2>1 DEF Quiescent, Replayed, Untaken, Reviewed, Answered
  <2>3. active'.source = OwnSource
    <3>1. pending = OwnFiles /\ \A f \in pending : saved[f] = Begun
      BY <2>2 DEF Waiting, SavedNow
    <3>2. {<<f, saved[f]>> : f \in pending} = OwnFiles \X {Begun}
      BY <3>1
    <3> QED
      BY <2>1, <3>2 DEF OwnSource
  <2>4. Silent'
    BY <2>1, <2>2, AppendBanner DEF Waiting
  <2>5. Reviewed'
    BY <1>u, <2>1, <2>2, <2>3, <2>4 DEF Reviewed, Waiting
  <2>6. \E c \in Cases : active'.files = CaseFiles(c)
    BY <2>1, <2>2, PresentCase DEF Waiting, OwnFiles
  <2> QED
    BY <1>w, <2>2, <2>5, <2>6
<1>4. CASE ProviderUnavailable
  <2>1. /\ Emit("provider-error", NoModelTried, {}) /\ "provider-error" \in Statuses
        /\ active.stage = "ready" /\ UNCHANGED <<Saves, pending>>
    BY <1>4 DEF ProviderUnavailable, Statuses, EventStatuses, Saves
  <2> QED
    BY <1>e, <1>o, <2>1
<1>5. CASE RunnerBlocks
  <2>1. PICK status \in Statuses : Emit(status, "yes", {})
    BY <1>5 DEF RunnerBlocks, Statuses, EventStatuses
  <2> QED
    BY <1>5, <1>e, <1>o, <2>1 DEF RunnerBlocks, Saves
<1>6. CASE CallProvider
  <2>1. /\ active.stage = "ready" /\ active'.stage = "provider"
        /\ active'.source = active.source /\ active'.files = active.files
        /\ UNCHANGED <<Saves, pending, output>>
    BY <1>6, <1>t DEF CallProvider, Reviews, Saves
  <2>2. harness.pc = "wait" /\ Reviewed
    BY <1>a, <2>1
  <2>3. Reviewed'
    BY <1>u, <2>1, <2>2 DEF Reviewed, Silent, IsEvent
  <2> QED
    BY <1>i, <1>w, <2>1, <2>2, <2>3
<1>7. CASE ProviderAnswers
  <2>1. PICK response \in Responses : Emit("success", Provenance, response)
    BY <1>7 DEF ProviderAnswers
  <2>2. "success" \in Statuses
    BY DEF Statuses, EventStatuses
  <2> QED
    BY <1>7, <1>e, <1>o, <2>1, <2>2 DEF ProviderAnswers, Saves
<1>8. CASE ProviderFails
  <2>1. PICK status \in Statuses : Emit(status, Provenance, {})
    BY <1>8, BoundsAssumption DEF ProviderFails, Statuses, EventStatuses
  <2> QED
    BY <1>8, <1>e, <1>o, <2>1 DEF ProviderFails, Saves
<1>9. CASE EndReview
  <2>1. /\ active.stage = "printed" /\ active'.stage = "none" /\ active'.files = {}
        /\ UNCHANGED <<Saves, pending, output>>
    BY <1>9 DEF EndReview, NoReview, Saves
  <2>2. /\ Silent => Silent'
        /\ Resting'
        /\ Answered => Answered'
        /\ ~ Reviewed
    BY <1>u, <2>1 DEF Silent, IsEvent, Resting, Answered, Reviewed
  <2> QED
    BY <1>k, <2>1, <2>2
<1>10. CASE NoticeSaves
  <2>1. UNCHANGED <<active, pending, output>> /\ Saves' = Saves
    BY <1>10 DEF NoticeSaves, Saves
  <2>2. /\ Silent => Silent'
        /\ Resting => Resting'
        /\ Reviewed => Reviewed'
        /\ Answered => Answered'
    BY <1>u, <2>1 DEF Silent, IsEvent, Resting, Answered, Reviewed
  <2> QED
    BY <1>i, <1>k, <2>1, <2>2
<1> QED
  BY <1>1, <1>2, <1>3, <1>4, <1>5, <1>6, <1>7, <1>8, <1>9, <1>10 DEF WatcherStep

\* An answer is recorded with the attempt whose saves it is about, for any suite and any
\* number of attempts, until an attempt is given up: whatever the watcher does, what was
\* saved for an attempt is in one place at a time and causes one answer at most.
THEOREM AnswersCorrect == Spec => []AnswersAreOwn
<1>1. TypeInv /\ LogInv /\ BudgetInv /\ PipelineInv /\ AnswersAreOwn /\ [Next]_vars =>
        PipelineInv' /\ AnswersAreOwn'
  <2>1. ASSUME PipelineInv, AnswersAreOwn, UNCHANGED vars
        PROVE  PipelineInv' /\ AnswersAreOwn'
    <3>1. UNCHANGED Shared /\ UNCHANGED <<active, Saves, pending, output>>
      BY <2>1 DEF vars, Shared, watching, Saves
    <3> QED
      BY <2>1, <3>1, WatcherFrame
      DEF PipelineInv, Quiescent, Replayed, Untaken, Waiting, Reviewed, Answered, Silent,
          IsEvent, Resting, SavedNow, FilesOfSaves, OfPresent
  <2> QED
    BY <2>1, HarnessPipeline, WatcherPipeline DEF Next
<1> QED
  BY <1>1, InitTypes, InitLog, InitBudget, InitPipeline, NextTypes, NextLog, NextBudget, PTL
  DEF Spec

================================================================================
