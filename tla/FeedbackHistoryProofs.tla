------------------------- MODULE FeedbackHistoryProofs -------------------------
(***************************************************************************)
(* What TLAPS proves of FeedbackHistory, for any files, contents, reports, *)
(* times, kills and changes of the clock:                                  *)
(*                                                                         *)
(*   NewestCorrect    an older snapshot says nothing over a newer one      *)
(*   RoundsCorrect    at most MaxRounds results of a file are published    *)
(*                    between two quiet intervals                          *)
(*   WithheldCorrect  a file is withheld for its own rounds only           *)
(*   EnvelopeCorrect  no batch has more events than its envelope takes     *)
(*   StatusCorrect    what a review says became of the findings of a file  *)
(*                    follows from its last snapshot                       *)
(***************************************************************************)
EXTENDS FeedbackHistory, FiniteSetTheorems, NaturalsInduction, SequenceTheorems, TLAPS

(***************************************************************************)
(* Batches.                                                                *)
(***************************************************************************)
\* A batch as far as the proofs look at it: it has findings only of its files.
AnyBatch ==
    [at : Nat, files : SUBSET Paths, stale : SUBSET Paths,
     digests : [Paths -> Digests], generation : Nat, findings : [Paths -> Seq(Findings)]]

WellFormed(batch) == batch \in AnyBatch /\ Cited(batch) \subseteq Current(batch)

\* Leaving out the findings of some paths, whether they are stale then or not.
LEMMA OnlyInFacts ==
  ASSUME NEW batch, WellFormed(batch), NEW S
  PROVE  /\ WellFormed(OnlyIn(batch, S))
         /\ OnlyIn(batch, S).at = batch.at
         /\ OnlyIn(batch, S).digests = batch.digests
         /\ OnlyIn(batch, S).generation = batch.generation
         /\ OnlyIn(batch, S).files = batch.files
         /\ OnlyIn(batch, S).stale = batch.stale
         /\ \A p \in Paths : p \in S => OnlyIn(batch, S).findings[p] = batch.findings[p]
         /\ Cited(OnlyIn(batch, S)) = Cited(batch) \intersect S
<1> DEFINE f == [p \in Paths |-> IF p \in S THEN batch.findings[p] ELSE <<>>]
<1>1. OnlyIn(batch, S) = [batch EXCEPT !.findings = f]
  BY DEF OnlyIn
<1>2. <<>> \in Seq(Findings)
  OBVIOUS
<1>3. f \in [Paths -> Seq(Findings)]
  BY <1>2 DEF WellFormed, AnyBatch
<1>4. \A p \in Paths : f[p] = IF p \in S THEN batch.findings[p] ELSE <<>>
  OBVIOUS
<1> HIDE DEF f
<1>5. /\ OnlyIn(batch, S) \in AnyBatch
      /\ OnlyIn(batch, S).at = batch.at
      /\ OnlyIn(batch, S).digests = batch.digests
      /\ OnlyIn(batch, S).generation = batch.generation
      /\ OnlyIn(batch, S).files = batch.files
      /\ OnlyIn(batch, S).stale = batch.stale
      /\ OnlyIn(batch, S).findings = f
  BY <1>1, <1>3 DEF WellFormed, AnyBatch
<1>6. Cited(OnlyIn(batch, S)) = Cited(batch) \intersect S
  BY <1>4, <1>5 DEF Cited
<1>7. Current(OnlyIn(batch, S)) = Current(batch)
  BY <1>5 DEF Current
<1> QED
  BY <1>4, <1>5, <1>6, <1>7 DEF WellFormed

\* Dropping the paths S from a batch (fresh_findings, and the filters of classify).
LEMMA WithoutFacts ==
  ASSUME NEW batch, WellFormed(batch), NEW S \in SUBSET Paths
  PROVE  /\ WellFormed(Without(batch, S))
         /\ Without(batch, S).at = batch.at
         /\ Without(batch, S).digests = batch.digests
         /\ Without(batch, S).generation = batch.generation
         /\ Current(Without(batch, S)) = Current(batch) \ S
         /\ Cited(Without(batch, S)) = Cited(batch) \ S
<1> DEFINE kept == OnlyIn(batch, Paths \ S)
<1>1. /\ WellFormed(kept) /\ kept.at = batch.at /\ kept.digests = batch.digests
      /\ kept.generation = batch.generation /\ kept.files = batch.files
      /\ kept.stale = batch.stale
      /\ Cited(kept) = Cited(batch) \intersect (Paths \ S)
  BY OnlyInFacts
<1>2. Without(batch, S) = [kept EXCEPT !.stale = @ \union S]
  BY DEF Without
<1> HIDE DEF kept
<1>3. /\ Without(batch, S) \in AnyBatch
      /\ Without(batch, S).at = kept.at
      /\ Without(batch, S).digests = kept.digests
      /\ Without(batch, S).generation = kept.generation
      /\ Without(batch, S).files = kept.files
      /\ Without(batch, S).stale = kept.stale \union S
      /\ Without(batch, S).findings = kept.findings
  BY <1>1, <1>2 DEF WellFormed, AnyBatch
<1>4. Cited(Without(batch, S)) = Cited(batch) \ S
  BY <1>1, <1>3 DEF Cited
<1>5. Current(Without(batch, S)) = Current(batch) \ S
  BY <1>1, <1>3 DEF Current
<1> QED
  BY <1>1, <1>3, <1>4, <1>5 DEF WellFormed

\* fresh_findings, and what is compared with an older snapshot.
LEMMA FreshFacts ==
  ASSUME NEW batch, WellFormed(batch)
  PROVE  /\ WellFormed(Fresh(batch, Same(batch)))
         /\ Fresh(batch, Same(batch)).at = batch.at
         /\ Fresh(batch, Same(batch)).generation = batch.generation
         /\ Cited(Fresh(batch, Same(batch))) \subseteq Cited(batch)
<1>1. batch.files \ Same(batch) \in SUBSET Paths
  BY DEF WellFormed, AnyBatch
<1> QED
  BY <1>1, WithoutFacts DEF Fresh

\* What classify leaves of a batch is of the same snapshot, and cites only compared paths.
LEMMA InOrderFacts ==
  ASSUME NEW batch, WellFormed(batch), NEW known
  PROVE  /\ WellFormed(InOrder(known, batch))
         /\ InOrder(known, batch).at = batch.at
         /\ InOrder(known, batch).generation = batch.generation
         /\ Cited(InOrder(known, batch)) \subseteq Cited(batch) \intersect Compared(known, batch)
<1>1. OutOfOrder(known, batch) \in SUBSET Paths
  BY DEF OutOfOrder, Current, WellFormed, AnyBatch
<1>2. /\ WellFormed(InOrder(known, batch))
      /\ InOrder(known, batch).at = batch.at
      /\ InOrder(known, batch).generation = batch.generation
      /\ Cited(InOrder(known, batch)) = Cited(batch) \ OutOfOrder(known, batch)
  BY <1>1, WithoutFacts DEF InOrder
<1> QED
  BY <1>2 DEF WellFormed, Compared

(***************************************************************************)
(* The review in progress.                                                 *)
(***************************************************************************)
TimeInv ==
    /\ now \in Nat /\ generation \in Nat /\ setup \in Setups
    /\ content \in [Paths -> Digests]
    /\ DOMAIN last = Paths /\ DOMAIN busy = Paths /\ DOMAIN rounds = Paths

CallInv ==
    /\ call.pc \in {"idle", "answered", "publish", "link"}
    /\ call.pc # "idle" => WellFormed(call.batch)

\* There is no review in progress at first.
LEMMA InitCall == Init => TimeInv /\ CallInv
  BY HistoryAssumption DEF Init, TimeInv, CallInv, Idle

\* A review in progress is well-formed through all its steps.
LEMMA NextCall == TimeInv /\ CallInv /\ [Next]_vars => TimeInv' /\ CallInv'
<1> SUFFICES ASSUME TimeInv, CallInv, [Next]_vars
             PROVE  TimeInv' /\ CallInv'
  OBVIOUS
<1>t. /\ now \in Nat /\ generation \in Nat /\ setup \in Setups
      /\ content \in [Paths -> Digests]
      /\ DOMAIN last = Paths /\ DOMAIN busy = Paths /\ DOMAIN rounds = Paths
  BY DEF TimeInv
<1>1. ASSUME NEW p \in Paths, Edit(p)
      PROVE  TimeInv' /\ CallInv'
  BY <1>1, <1>t DEF Edit, TimeInv, CallInv
<1>2. CASE Tick \/ SetClockBack \/ NextSession \/ Restart \/ UNCHANGED vars
  BY <1>2, <1>t DEF Tick, SetClockBack, NextSession, Restart, Idle, TimeInv, CallInv, vars
<1>3. ASSUME NEW S \in (SUBSET Paths) \ {{}}, NEW report \in [S -> AllReports], Answer(S, report)
      PROVE  TimeInv' /\ CallInv'
  <2> DEFINE f == [p \in Paths |-> IF p \in S THEN report[p] ELSE <<>>]
  <2>1. f \in [Paths -> Seq(Findings)]
    <3>1. \A p \in S : report[p] \in setup.reports[p]
      BY <1>3 DEF Answer
    <3>2. setup.reports \in [Paths -> SUBSET Seq(Findings)]
      BY <1>t, HistoryAssumption
    <3>3. \A p \in S : report[p] \in Seq(Findings)
      BY <3>1, <3>2
    <3>4. <<>> \in Seq(Findings)
      OBVIOUS
    <3> QED
      BY <3>3, <3>4
  <2>2. \A p \in Paths : f[p] # <<>> => p \in S
    OBVIOUS
  <2>3. /\ call'.pc = "answered"
        /\ call'.batch = [at |-> now, files |-> S, stale |-> {}, digests |-> content,
                          generation |-> generation, findings |-> f]
    BY <1>3 DEF Answer
  <2> HIDE DEF f
  <2>4. WellFormed(call'.batch)
    BY <1>t, <2>1, <2>2, <2>3 DEF WellFormed, AnyBatch, Cited, Current
  <2>5. WellFormed(call.batch)'
    BY <2>4 DEF WellFormed, AnyBatch, Cited, Current
  <2> QED
    BY <1>3, <1>t, <2>3, <2>5 DEF Answer, TimeInv, CallInv
<1>4. CASE DiscardResult \/ RefuseBatch
  BY <1>4, <1>t DEF DiscardResult, RefuseBatch, Idle, TimeInv, CallInv
<1>5. CASE ClassifyBatch
  <2> DEFINE batch == Fresh(call.batch, Same(call.batch))
  <2>1. call'.pc = "publish" /\ call'.batch = InOrder(tracker, batch)
    BY <1>5 DEF ClassifyBatch
  <2>2. WellFormed(call'.batch)
    BY <1>5, <2>1, FreshFacts, InOrderFacts DEF CallInv, ClassifyBatch
  <2>3. DOMAIN last' = Paths
    BY <1>5 DEF ClassifyBatch, Remember
  <2> QED
    BY <1>5, <1>t, <2>1, <2>2, <2>3 DEF ClassifyBatch, TimeInv, CallInv
<1>6. CASE CountRounds
  <2>1. \/ call' = Idle
        \/ /\ call'.pc = "link"
           /\ call'.batch = OnlyIn(Offered, Paths \ Suppressed(Offered))
    BY <1>6 DEF CountRounds
  <2>2. WellFormed(OnlyIn(Offered, Paths \ Suppressed(Offered)))
    BY <1>6, FreshFacts, OnlyInFacts DEF CallInv, CountRounds, Offered
  <2>3. DOMAIN busy' = Paths /\ DOMAIN rounds' = Paths
    BY <1>6 DEF CountRounds, Continue, AfterRounds
  <2> QED
    BY <1>6, <1>t, <2>1, <2>2, <2>3 DEF CountRounds, TimeInv, CallInv, Idle
<1>7. CASE LinkBatch
  <2>1. DOMAIN busy' = Paths
    BY <1>7, <1>t DEF LinkBatch
  <2> QED
    BY <1>7, <1>t, <2>1 DEF LinkBatch, TimeInv, CallInv, Idle
<1> QED
  BY <1>1, <1>2, <1>3, <1>4, <1>5, <1>6, <1>7 DEF Next


(***************************************************************************)
(* Rounds.                                                                 *)
(***************************************************************************)
\* A path that was never counted, and one whose record in rounds.json agrees with what it
\* went through since it was last left alone: each of its results but the last was counted
\* in a round of its own, and what was counted beyond MaxRounds was not published.
NeverCounted(p) == rounds[p] = NoRound /\ busy[p] = Untouched

CountedAsBusy(p) ==
    /\ rounds[p].round \in Nat \ {0}
    /\ rounds[p].round <= busy[p].reviews /\ busy[p].reviews \in Nat
    /\ rounds[p].generation = busy[p].generation
    /\ rounds[p].at = busy[p].at /\ rounds[p].at \in Nat
    /\ DOMAIN busy[p] = {"at", "generation", "reviews", "published"}
    /\ IsFiniteSet(busy[p].published)
    /\ Cardinality(busy[p].published \ {rounds[p].matter}) < rounds[p].round
    /\ Cardinality(busy[p].published) <= MaxRounds

\* The results that are about to be linked were counted last.
LinkInv ==
    call.pc = "link" =>
        \A p \in Cited(call.batch) :
            /\ rounds[p] # NoRound
            /\ rounds[p].matter = Matter(call.batch, p)
            /\ rounds[p].round <= MaxRounds

RoundInv == (\A p \in Paths : NeverCounted(p) \/ CountedAsBusy(p)) /\ LinkInv

\* No round is counted at first.
LEMMA InitRounds == Init => RoundInv
  BY DEF Init, RoundInv, LinkInv, NeverCounted, Idle

\* What is counted of a path that a batch cites, and what it has been through then.
LEMMA Counted ==
  ASSUME TimeInv, NEW batch, WellFormed(batch), NEW p \in Cited(batch),
         NeverCounted(p) \/ CountedAsBusy(p), Continue(batch), rounds' = AfterRounds(batch)
  PROVE  /\ CountedAsBusy(p)'
         /\ rounds'[p].round = Round(batch, p) /\ rounds'[p].matter = Matter(batch, p)
         /\ Round(batch, p) <= busy'[p].reviews
<1>m. MaxRounds \in Nat \ {0} /\ ResetAfter \in Nat /\ now \in Nat
  BY HistoryAssumption DEF TimeInv
<1>p. p \in Paths
  BY DEF Cited
<1>r. rounds'[p] = [matter |-> Matter(batch, p), round |-> Round(batch, p), at |-> now,
                    generation |-> batch.generation]
  BY <1>p DEF AfterRounds
<1> DEFINE late == busy[p].generation # batch.generation \/ now - busy[p].at > ResetAfter
<1>1. busy'[p] = IF late
                 THEN [at |-> now, generation |-> batch.generation, reviews |-> 1,
                       published |-> {}]
                 ELSE [busy[p] EXCEPT !.at = now, !.reviews = @ + 1]
  BY <1>p DEF Continue
<1>e. IsFiniteSet({}) /\ Cardinality({}) = 0
  BY FS_EmptySet
<1>2. CASE late
  <2>1. ~ Consecutive(batch, p)
    BY <1>2, <1>m DEF Consecutive, NeverCounted, CountedAsBusy
  <2>2. Round(batch, p) = 1
    BY <2>1 DEF Round
  <2>3. /\ busy'[p].at = now /\ busy'[p].generation = batch.generation
        /\ busy'[p].reviews = 1 /\ busy'[p].published = {}
        /\ DOMAIN busy'[p] = {"at", "generation", "reviews", "published"}
    BY <1>1, <1>2
  <2>4. {} \ {Matter(batch, p)} = {}
    OBVIOUS
  <2> QED
    BY <1>e, <1>m, <1>r, <2>2, <2>3, <2>4 DEF CountedAsBusy
<1>3. CASE ~ late /\ NeverCounted(p)
  <2>1. Round(batch, p) = 1
    BY <1>3 DEF Round, Consecutive, NeverCounted
  <2>2. /\ busy'[p].at = now /\ busy'[p].generation = batch.generation
        /\ busy'[p].reviews = 1 /\ busy'[p].published = {}
        /\ DOMAIN busy'[p] = {"at", "generation", "reviews", "published"}
    BY <1>1, <1>3 DEF NeverCounted, Untouched
  <2>3. {} \ {Matter(batch, p)} = {}
    OBVIOUS
  <2> QED
    BY <1>e, <1>m, <1>r, <2>1, <2>2, <2>3 DEF CountedAsBusy
<1>4. CASE ~ late /\ CountedAsBusy(p)
  <2> DEFINE published == busy[p].published
  <2>1. /\ busy'[p].at = now /\ busy'[p].generation = batch.generation
        /\ busy'[p].reviews = busy[p].reviews + 1 /\ busy'[p].published = published
        /\ DOMAIN busy'[p] = {"at", "generation", "reviews", "published"}
    BY <1>1, <1>4 DEF CountedAsBusy
  <2>2. Consecutive(batch, p)
    BY <1>4, <1>m DEF Consecutive, CountedAsBusy, NoRound
  <2>3. Round(batch, p) = IF rounds[p].matter = Matter(batch, p) THEN rounds[p].round
                          ELSE rounds[p].round + 1
    BY <2>2 DEF Round
  <2>4. /\ IsFiniteSet(published) /\ Cardinality(published) <= MaxRounds
        /\ rounds[p].round \in Nat \ {0} /\ busy[p].reviews \in Nat
        /\ rounds[p].round <= busy[p].reviews
        /\ Cardinality(published \ {rounds[p].matter}) < rounds[p].round
    BY <1>4 DEF CountedAsBusy
  <2>5. Cardinality(published \ {Matter(batch, p)}) < Round(batch, p)
    <3>1. CASE rounds[p].matter = Matter(batch, p)
      BY <2>3, <2>4, <3>1
    <3>2. CASE rounds[p].matter # Matter(batch, p)
      <4>1. /\ IsFiniteSet(published \ {rounds[p].matter})
            /\ Cardinality(published) \in Nat
            /\ Cardinality(published \ {rounds[p].matter}) \in Nat
            /\ Cardinality(published) <= Cardinality(published \ {rounds[p].matter}) + 1
        <5> HIDE DEF published
        <5>1. IsFiniteSet(published) /\ Cardinality(published) \in Nat
          BY <2>4, FS_CardinalityType
        <5>2. /\ IsFiniteSet(published \ {rounds[p].matter})
              /\ \/ Cardinality(published \ {rounds[p].matter}) = Cardinality(published)
                 \/ Cardinality(published \ {rounds[p].matter}) = Cardinality(published) - 1
          BY <2>4, FS_RemoveElement
        <5>3. Cardinality(published \ {rounds[p].matter}) \in Nat
          BY <5>2, FS_CardinalityType
        <5> QED
          BY <5>1, <5>2, <5>3
      <4>2. /\ Cardinality(published \ {Matter(batch, p)}) \in Nat
            /\ Cardinality(published \ {Matter(batch, p)}) <= Cardinality(published)
        BY <2>4, FS_Subset, FS_CardinalityType
      <4> HIDE DEF published
      <4> QED
        BY <2>3, <2>4, <3>2, <4>1, <4>2
    <3> QED
      BY <3>1, <3>2
  <2> HIDE DEF published
  <2> QED
    BY <1>m, <1>r, <2>1, <2>3, <2>4, <2>5 DEF CountedAsBusy
<1> QED
  BY <1>2, <1>3, <1>4

\* Matter depends on a batch's bytes and findings of the path only.
LEMMA SameMatter ==
  ASSUME NEW batch, NEW other, NEW p, batch.digests = other.digests,
         batch.findings[p] = other.findings[p]
  PROVE  Matter(batch, p) = Matter(other, p)
  BY DEF Matter

\* Every step keeps the counted rounds in line with what the file went through.
LEMMA NextRounds == TimeInv /\ CallInv /\ RoundInv /\ [Next]_vars => RoundInv'
<1> SUFFICES ASSUME TimeInv, CallInv, RoundInv, [Next]_vars
             PROVE  RoundInv'
  OBVIOUS
<1>i. (\A p \in Paths : NeverCounted(p) \/ CountedAsBusy(p)) /\ LinkInv
  BY DEF RoundInv
<1>k. ASSUME UNCHANGED <<rounds, busy>>, UNCHANGED call \/ call'.pc # "link"
      PROVE  RoundInv'
  <2>1. \A p \in Paths : (NeverCounted(p) \/ CountedAsBusy(p))'
    BY <1>i, <1>k DEF NeverCounted, CountedAsBusy
  <2>2. LinkInv'
    BY <1>i, <1>k DEF LinkInv, Cited, Matter
  <2> QED
    BY <2>1, <2>2 DEF RoundInv
<1>1. ASSUME NEW p \in Paths, Edit(p)
      PROVE  RoundInv'
  BY <1>1, <1>k DEF Edit
<1>2. CASE Tick \/ SetClockBack \/ NextSession \/ UNCHANGED vars
  BY <1>2, <1>k DEF Tick, SetClockBack, NextSession, vars
<1>3. CASE Restart \/ DiscardResult \/ RefuseBatch
  BY <1>3, <1>k DEF Restart, DiscardResult, RefuseBatch, Idle
<1>4. ASSUME NEW S, NEW report, Answer(S, report)
      PROVE  RoundInv'
  BY <1>4, <1>k DEF Answer
<1>5. CASE ClassifyBatch
  BY <1>5, <1>k DEF ClassifyBatch
<1>6. CASE CountRounds
  <2>1. WellFormed(Offered) /\ rounds' = AfterRounds(Offered) /\ Continue(Offered)
    BY <1>6, FreshFacts DEF CallInv, CountRounds, Offered
  <2>2. \A p \in Paths : (NeverCounted(p) \/ CountedAsBusy(p))'
    <3> SUFFICES ASSUME NEW p \in Paths
                 PROVE  (NeverCounted(p) \/ CountedAsBusy(p))'
      OBVIOUS
    <3>1. CASE p \in Cited(Offered)
      BY <1>i, <2>1, <3>1, Counted
    <3>2. CASE p \notin Cited(Offered)
      <4>1. rounds'[p] = rounds[p] /\ busy'[p] = busy[p]
        BY <2>1, <3>2 DEF AfterRounds, Continue
      <4> QED
        BY <1>i, <4>1 DEF NeverCounted, CountedAsBusy
    <3> QED
      BY <3>1, <3>2
  <2>3. LinkInv'
    <3> DEFINE S == Paths \ Suppressed(Offered)
    <3> SUFFICES ASSUME call'.pc = "link", NEW p \in Cited(call'.batch)
                 PROVE  /\ rounds'[p] # NoRound
                        /\ rounds'[p].matter = Matter(call'.batch, p)
                        /\ rounds'[p].round <= MaxRounds
      BY DEF LinkInv, Cited, Matter
    <3>1. call'.batch = OnlyIn(Offered, S)
      BY <1>6 DEF CountRounds, Idle
    <3>2. p \in Cited(Offered) /\ p \in S /\ p \in Paths
      BY <2>1, <3>1, OnlyInFacts
    <3>3. Matter(call'.batch, p) = Matter(Offered, p)
      <4>1. /\ call'.batch.digests = Offered.digests
            /\ call'.batch.findings[p] = Offered.findings[p]
        BY <2>1, <3>1, <3>2, OnlyInFacts
      <4> QED
        BY <4>1, SameMatter
    <3>4. /\ rounds'[p].round = Round(Offered, p) /\ rounds'[p].matter = Matter(Offered, p)
          /\ rounds'[p].round \in Nat \ {0}
      BY <1>i, <2>1, <3>2, Counted DEF CountedAsBusy
    <3>5. Round(Offered, p) <= MaxRounds
      BY <3>2, <3>4, HistoryAssumption DEF Suppressed
    <3> QED
      BY <3>3, <3>4, <3>5 DEF NoRound
  <2> QED
    BY <2>2, <2>3 DEF RoundInv
<1>7. CASE LinkBatch
  <2>1. call'.pc # "link" /\ rounds' = rounds /\ WellFormed(call.batch) /\ call.pc = "link"
    BY <1>7 DEF LinkBatch, Idle, CallInv
  <2>2. ASSUME NEW p \in Paths
        PROVE  (NeverCounted(p) \/ CountedAsBusy(p))'
    <3>1. CASE busy'[p] = busy[p]
      BY <1>i, <2>1, <3>1 DEF NeverCounted, CountedAsBusy
    <3>2. CASE busy'[p] # busy[p]
      <4> DEFINE published == busy[p].published
                 matter == Matter(call.batch, p)
      <4>1. /\ p \in Cited(call.batch)
            /\ busy'[p] = [busy[p] EXCEPT !.published = @ \union {matter}]
        BY <1>7, <3>2 DEF LinkBatch
      <4>2. CountedAsBusy(p) /\ rounds[p].matter = matter /\ rounds[p].round <= MaxRounds
        BY <1>i, <2>1, <4>1 DEF LinkInv, NeverCounted
      <4>3. /\ busy'[p].published = published \union {matter}
            /\ busy'[p].at = busy[p].at /\ busy'[p].generation = busy[p].generation
            /\ busy'[p].reviews = busy[p].reviews
            /\ DOMAIN busy'[p] = {"at", "generation", "reviews", "published"}
        BY <4>1, <4>2 DEF CountedAsBusy
      <4>4. (published \union {matter}) \ {matter} = published \ {matter}
        OBVIOUS
      <4>5. IsFiniteSet(published) /\ Cardinality(published \ {matter}) < rounds[p].round
        BY <4>2 DEF CountedAsBusy
      <4>6. /\ IsFiniteSet(published \ {matter}) /\ Cardinality(published \ {matter}) \in Nat
            /\ IsFiniteSet(published \union {matter})
            /\ Cardinality(published \union {matter}) <= Cardinality(published \ {matter}) + 1
        <5>1. IsFiniteSet(published \ {matter}) /\ Cardinality(published \ {matter}) \in Nat
          BY <4>5, FS_RemoveElement, FS_CardinalityType
        <5>2. published \union {matter} = (published \ {matter}) \union {matter}
          OBVIOUS
        <5> HIDE DEF published, matter
        <5>3. /\ IsFiniteSet((published \ {matter}) \union {matter})
              /\ Cardinality((published \ {matter}) \union {matter})
                    = Cardinality(published \ {matter}) + 1
          BY <5>1, FS_AddElement
        <5> QED
          BY <5>1, <5>2, <5>3
      <4>7. Cardinality(published \union {matter}) <= MaxRounds
        <5>1. MaxRounds \in Nat /\ rounds[p].round \in Nat
          BY <4>2, HistoryAssumption DEF CountedAsBusy
        <5>2. Cardinality(published \union {matter}) \in Nat
          BY <4>6, FS_CardinalityType
        <5> HIDE DEF published, matter
        <5> QED
          BY <4>2, <4>5, <4>6, <5>1, <5>2
      <4> HIDE DEF published, matter
      <4> QED
        BY <2>1, <4>2, <4>3, <4>4, <4>5, <4>6, <4>7 DEF CountedAsBusy
    <3> QED
      BY <3>1, <3>2
  <2> QED
    BY <2>1, <2>2 DEF RoundInv, LinkInv
<1> QED
  BY <1>1, <1>2, <1>3, <1>4, <1>5, <1>6, <1>7 DEF Next

(***************************************************************************)
(* Counting.                                                               *)
(***************************************************************************)
\* A path's own sequence has as many places as elements.
LEMMA OwnPlaces ==
  ASSUME NEW p, NEW E, NEW s \in Seq(E)
  PROVE  IsFiniteSet({p} \X DOMAIN s) /\ Cardinality({p} \X DOMAIN s) = Len(s)
<1>1. DOMAIN s = 1 .. Len(s) /\ Len(s) \in Nat
  OBVIOUS
<1>2. ASSUME NEW n \in Nat
      PROVE  IsFiniteSet({p} \X (1 .. n)) /\ Cardinality({p} \X (1 .. n)) = n
  <2>1. IsFiniteSet(1 .. n) /\ Cardinality(1 .. n) = n
    <3>1. 1 \in Int /\ n \in Int /\ (1 > n => n = 0) /\ n - 1 + 1 = n
      OBVIOUS
    <3> QED
      BY <3>1, FS_Interval
  <2>2. IsFiniteSet({p}) /\ Cardinality({p}) = 1
    BY FS_Singleton
  <2>3. /\ IsFiniteSet({p} \X (1 .. n))
        /\ Cardinality({p} \X (1 .. n)) = Cardinality({p}) * Cardinality(1 .. n)
    BY <2>1, <2>2, FS_Product
  <2>4. 1 * n = n
    OBVIOUS
  <2> QED
    BY <2>1, <2>2, <2>3, <2>4
<1> QED
  BY <1>1, <1>2

\* Some paths' sequences have finitely many places.
LEMMA PlacesFinite ==
  ASSUME NEW of, NEW E, NEW S \in SUBSET Paths, \A p \in S : of[p] \in Seq(E)
  PROVE  IsFiniteSet(Places(of, S)) /\ Total(of, S) \in Nat
<1> DEFINE At(p) == {p} \X DOMAIN of[p]
           T == {At(p) : p \in S}
           f == [p \in S |-> At(p)]
<1>1. IsFiniteSet(S)
  BY TrackerAssumption, FS_Subset
<1>2. f \in Surjection(S, T)
  BY DEF Surjection
<1> HIDE DEF f
<1>3. IsFiniteSet(T)
  BY <1>1, <1>2, FS_Surjection
<1>4. ASSUME NEW p \in S
      PROVE  IsFiniteSet(At(p))
  BY OwnPlaces
<1>5. \A A \in T : IsFiniteSet(A)
  BY <1>4
<1>6. IsFiniteSet(UNION T)
  <2> HIDE DEF T
  <2> QED
    BY <1>3, <1>5, FS_UNION
<1>7. Places(of, S) = UNION T
  BY DEF Places
<1> HIDE DEF T
<1> QED
  BY <1>6, <1>7, FS_CardinalityType DEF Total

\* A place is a path and an index of its sequence.
LEMMA InPlaces ==
  ASSUME NEW of, NEW S, NEW x
  PROVE  x \in Places(of, S) <=> \E p \in S : \E i \in DOMAIN of[p] : x = <<p, i>>
  BY DEF Places

\* One path more adds its own places.
LEMMA TotalAdd ==
  ASSUME NEW of, NEW E, NEW S \in SUBSET Paths, NEW p \in Paths, p \notin S,
         \A q \in S \union {p} : of[q] \in Seq(E)
  PROVE  Total(of, S \union {p}) = Total(of, S) + Len(of[p])
<1> DEFINE own == {p} \X DOMAIN of[p]
<1>1. /\ Places(of, S \union {p}) = Places(of, S) \union own
      /\ Places(of, S) \intersect own = {}
  BY DEF Places
<1>2. IsFiniteSet(Places(of, S))
  BY PlacesFinite
<1>3. IsFiniteSet(own) /\ Cardinality(own) = Len(of[p])
  BY OwnPlaces
<1>4. Cardinality(Places(of, S)) \in Nat /\ Cardinality({}) = 0
  BY <1>2, FS_CardinalityType, FS_EmptySet
<1>5. Len(of[p]) \in Nat
  OBVIOUS
<1> HIDE DEF own
<1>6. Cardinality(Places(of, S) \union own) =
        Cardinality(Places(of, S)) + Cardinality(own) - Cardinality(Places(of, S) \intersect own)
  BY <1>2, <1>3, FS_Union
<1>7. Cardinality(Places(of, S) \intersect own) = 0
  BY <1>1, <1>4
<1>8. Cardinality(Places(of, S) \union own) = Cardinality(Places(of, S)) + Len(of[p])
  BY <1>3, <1>4, <1>5, <1>6, <1>7
<1> QED
  BY <1>1, <1>8 DEF Total

\* Longer sequences, of more paths, have no fewer places.
LEMMA TotalMonotonic ==
  ASSUME NEW of, NEW with, NEW E, NEW S, NEW T \in SUBSET Paths, S \subseteq T,
         \A p \in T : with[p] \in Seq(E),
         \A p \in S : of[p] \in Seq(E) /\ Len(of[p]) <= Len(with[p])
  PROVE  Total(of, S) <= Total(with, T)
<1>1. Places(of, S) \subseteq Places(with, T)
  <2> SUFFICES ASSUME NEW p \in S, NEW i \in DOMAIN of[p]
               PROVE  <<p, i>> \in Places(with, T)
    BY DEF Places
  <2>1. i \in DOMAIN with[p]
    OBVIOUS
  <2> QED
    BY <2>1, InPlaces
<1>2. IsFiniteSet(Places(with, T))
  BY PlacesFinite
<1> QED
  BY <1>1, <1>2, FS_Subset DEF Total

\* Sequences no longer than two others together have no more places than both.
LEMMA TotalSum ==
  ASSUME NEW of, NEW one, NEW two, NEW E, NEW S \in SUBSET Paths,
         NEW T \in SUBSET S,
         \A p \in S : of[p] \in Seq(E) /\ one[p] \in Seq(E),
         \A p \in T : two[p] \in Seq(E),
         \A p \in S \ T : Len(of[p]) <= Len(one[p]),
         \A p \in T : Len(of[p]) <= Len(one[p]) + Len(two[p])
  PROVE  Total(of, S) <= Total(one, S) + Total(two, T)
<1> DEFINE P == Places(of, S)
           low == {x \in P : x[2] <= Len(one[x[1]])}
           high == P \ low
<1>l. \A p \in S : Len(of[p]) \in Nat /\ Len(one[p]) \in Nat
  OBVIOUS
<1>m. \A p \in T : Len(two[p]) \in Nat
  OBVIOUS
<1>1. IsFiniteSet(P) /\ IsFiniteSet(Places(one, S)) /\ IsFiniteSet(Places(two, T))
  <2>1. IsFiniteSet(P)
    BY PlacesFinite
  <2>2. IsFiniteSet(Places(one, S))
    BY PlacesFinite
  <2>3. IsFiniteSet(Places(two, T))
    BY PlacesFinite
  <2> QED
    BY <2>1, <2>2, <2>3
<1>2. \A x \in P : \E p \in S : \E i \in 1 .. Len(of[p]) : x = <<p, i>>
  BY InPlaces
<1>3. low \subseteq Places(one, S)
  <2> SUFFICES ASSUME NEW x \in low
               PROVE  x \in Places(one, S)
    OBVIOUS
  <2>1. PICK p \in S : \E i \in 1 .. Len(of[p]) : x = <<p, i>>
    BY <1>2
  <2>1i. PICK i \in 1 .. Len(of[p]) : x = <<p, i>>
    BY <2>1
  <2>2. i <= Len(one[p])
    BY <2>1i
  <2>3. i \in DOMAIN one[p]
    BY <2>2
  <2> QED
    BY <2>1i, <2>3, InPlaces
<1> DEFINE f == [x \in high |-> <<x[1], x[2] - Len(one[x[1]])>>]
<1>4. f \in Injection(high, Places(two, T))
  <2>1. ASSUME NEW x \in high
        PROVE  f[x] \in Places(two, T)
    <3>1. PICK p \in S : \E i \in 1 .. Len(of[p]) : x = <<p, i>>
      BY <1>2
    <3>1i. PICK i \in 1 .. Len(of[p]) : x = <<p, i>>
      BY <3>1
    <3>2. i > Len(one[p]) /\ f[x] = <<p, i - Len(one[p])>>
      BY <3>1i
    <3>l. Len(of[p]) \in Nat /\ Len(one[p]) \in Nat /\ i \in Nat /\ i <= Len(of[p])
      BY <1>l
    <3>3. p \in T
      <4>1. CASE p \notin T
        <5>1. Len(of[p]) <= Len(one[p])
          BY <4>1
        <5> QED
          BY <3>2, <3>l, <5>1
      <4> QED
        BY <4>1
    <3>4. DOMAIN two[p] = 1 .. Len(two[p]) /\ Len(two[p]) \in Nat
      BY <3>3
    <3>5. i - Len(one[p]) \in DOMAIN two[p]
      <4>1. Len(of[p]) <= Len(one[p]) + Len(two[p])
        BY <3>3
      <4>n. \A j, k, m, n \in Nat : j > k /\ j <= m /\ m <= k + n => j - k \in 1 .. n
        OBVIOUS
      <4>2. i - Len(one[p]) \in 1 .. Len(two[p])
        <5>1. i > Len(one[p])
          BY <3>2
        <5> HIDE DEF f, high, low, P
        <5> QED
          BY <3>4, <3>l, <4>1, <4>n, <5>1
      <4> QED
        BY <3>4, <4>2
    <3> HIDE DEF f
    <3> QED
      BY <3>2, <3>3, <3>5, InPlaces
  <2>2. ASSUME NEW x \in high, NEW y \in high, f[x] = f[y]
        PROVE  x = y
    <3>1. PICK p \in S : \E i \in 1 .. Len(of[p]) : x = <<p, i>>
      BY <1>2
    <3>1i. PICK i \in 1 .. Len(of[p]) : x = <<p, i>>
      BY <3>1
    <3>2. PICK q \in S : \E j \in 1 .. Len(of[q]) : y = <<q, j>>
      BY <1>2
    <3>2i. PICK j \in 1 .. Len(of[q]) : y = <<q, j>>
      BY <3>2
    <3>3. f[x] = <<p, i - Len(one[p])>> /\ f[y] = <<q, j - Len(one[q])>>
      BY <3>1i, <3>2i
    <3>4. p = q /\ i - Len(one[p]) = j - Len(one[q])
      BY <2>2, <3>3
    <3>5. Len(one[p]) \in Nat
      OBVIOUS
    <3> QED
      BY <3>1i, <3>2i, <3>4, <3>5
  <2>3. f \in [high -> Places(two, T)]
    BY <2>1
  <2> HIDE DEF f, high
  <2>4. \A x, y \in high : f[x] = f[y] => x = y
    BY <2>2
  <2> QED
    BY <2>3, <2>4 DEF Injection, IsInjective
<1>5. P = low \union high /\ low \intersect high = {}
  OBVIOUS
<1>6. IsFiniteSet(low) /\ IsFiniteSet(high)
  BY <1>1, FS_Subset
<1> HIDE DEF P, low, high, f
<1>7. Cardinality(P) = Cardinality(low) + Cardinality(high) - Cardinality(low \intersect high)
  BY <1>5, <1>6, FS_Union
<1>8. Cardinality(low) <= Total(one, S)
  BY <1>1, <1>3, FS_Subset DEF Total
<1>9. Cardinality(high) <= Total(two, T)
  BY <1>1, <1>4, FS_Injection DEF Total
<1>10. /\ Cardinality(low) \in Nat /\ Cardinality(high) \in Nat /\ Cardinality({}) = 0
       /\ Total(one, S) \in Nat /\ Total(two, T) \in Nat
  BY <1>1, <1>6, FS_CardinalityType, FS_EmptySet DEF Total
<1>11. Total(of, S) = Cardinality(P)
  BY DEF Total, P
<1>12. Cardinality(low \intersect high) = 0
  BY <1>5, <1>10
<1> QED
  BY <1>7, <1>8, <1>9, <1>10, <1>11, <1>12

(***************************************************************************)
(* _bound_state.                                                           *)
(***************************************************************************)
\* What a tracker, or a history, knows: a time and findings of some paths.
Known(known) ==
    /\ DOMAIN known \subseteq Paths
    /\ \A p \in DOMAIN known : known[p].at \in Int /\ known[p].findings \in Seq(Findings)

\* The first findings of a file, as many as there is room for.
LEMMA BoundFindings ==
  ASSUME NEW known, Known(known), NEW p \in DOMAIN Bound(known)
  PROVE  /\ p \in DOMAIN known
         /\ Bound(known)[p].findings \in Seq(Findings)
         /\ Len(Bound(known)[p].findings) = Smaller(Len(known[p].findings), Room(known, p))
         /\ Room(known, p) \in Nat
         /\ Len(known[p].findings) <= Room(known, p)
              => Bound(known)[p].findings = known[p].findings
<1> DEFINE s == known[p].findings
           n == Smaller(Len(s), Room(known, p))
<1>1. /\ p \in DOMAIN known
      /\ Bound(known)[p].findings = SubSeq(s, 1, n)
  BY DEF Bound
<1>2. Room(known, p) \in Nat
  <2>1. Ahead(known, p) \in SUBSET Paths /\ Ahead(known, p) \subseteq DOMAIN known
    BY DEF Ahead, Known
  <2>2. \A q \in Ahead(known, p) : FindingsOf(known)[q] \in Seq(Findings)
    BY <2>1 DEF FindingsOf, Known
  <2>3. Total(FindingsOf(known), Ahead(known, p)) \in Nat
    BY <2>1, <2>2, PlacesFinite
  <2> QED
    BY <2>3, TrackerAssumption DEF Room, Larger
<1>3. s \in Seq(Findings) /\ Len(s) \in Nat
  BY <1>1 DEF Known
<1>4. n \in 0 .. Len(s)
  BY <1>2, <1>3 DEF Smaller
<1> HIDE DEF s, n
<1>5. SubSeq(s, 1, n) \in Seq(Findings) /\ Len(SubSeq(s, 1, n)) = n
  BY <1>3, <1>4
<1>6. n = Len(s) => SubSeq(s, 1, n) = s
  BY <1>3, <1>5
<1>7. Len(s) <= Room(known, p) => n = Len(s)
  BY <1>2, <1>3 DEF n, Smaller
<1> QED
  BY <1>1, <1>2, <1>5, <1>6, <1>7 DEF s, n

\* Paths are ordered by what is ahead of them.
LEMMA AheadOrder ==
  ASSUME NEW known, Known(known), NEW p \in DOMAIN known, NEW q \in DOMAIN known, p # q
  PROVE  /\ q \in Ahead(known, p) \/ p \in Ahead(known, q)
         /\ q \in Ahead(known, p) => Ahead(known, q) \union {q} \subseteq Ahead(known, p)
         /\ q \notin Ahead(known, q)
<1>1. /\ p \in Int /\ q \in Int /\ known[p].at \in Int /\ known[q].at \in Int
      /\ \A r \in DOMAIN known : r \in Int /\ known[r].at \in Int
  BY TrackerAssumption DEF Known
<1> QED
  BY <1>1 DEF Ahead

\* A path comes after all findings of one that is ahead of it.
LEMMA AheadTotal ==
  ASSUME NEW known, Known(known), NEW p \in DOMAIN known, NEW q \in Ahead(known, p)
  PROVE  /\ Total(FindingsOf(known), Ahead(known, q)) \in Nat
         /\ Total(FindingsOf(known), Ahead(known, p)) \in Nat
         /\ Total(FindingsOf(known), Ahead(known, q)) + Len(known[q].findings)
              <= Total(FindingsOf(known), Ahead(known, p))
<1> DEFINE of == FindingsOf(known)
<1>1. \A r \in DOMAIN known : of[r] \in Seq(Findings) /\ r \in Paths /\ r \in Int
  BY TrackerAssumption DEF FindingsOf, Known
<1>2. q \in DOMAIN known /\ of[q] = known[q].findings
  BY DEF FindingsOf, Ahead
<1> HIDE DEF of
<1>3. q # p
  BY <1>1 DEF Ahead, Known
<1>4. /\ Ahead(known, q) \union {q} \subseteq Ahead(known, p)
      /\ q \notin Ahead(known, q)
  BY <1>2, <1>3, AheadOrder
<1>5. Ahead(known, q) \in SUBSET Paths /\ Ahead(known, p) \in SUBSET Paths
  BY <1>1 DEF Ahead
<1>6. \A r \in Ahead(known, p) : of[r] \in Seq(Findings)
  BY <1>1 DEF Ahead
<1>7. Total(of, Ahead(known, q) \union {q}) = Total(of, Ahead(known, q)) + Len(of[q])
  <2>1. \A r \in Ahead(known, q) \union {q} : of[r] \in Seq(Findings)
    BY <1>4, <1>6
  <2> QED
    BY <1>1, <1>2, <1>4, <1>5, <2>1, TotalAdd
<1>8. Total(of, Ahead(known, q) \union {q}) <= Total(of, Ahead(known, p))
  <2>1. \A r \in Ahead(known, q) \union {q} : of[r] \in Seq(Findings) /\ Len(of[r]) <= Len(of[r])
    <3>1. \A r \in Ahead(known, p) : Len(of[r]) \in Nat
      BY <1>6
    <3> QED
      BY <1>4, <1>6, <3>1
  <2> QED
    BY <1>4, <1>5, <1>6, <2>1, TotalMonotonic
<1>9. Total(of, Ahead(known, q)) \in Nat /\ Total(of, Ahead(known, p)) \in Nat
  <2>1. \A r \in Ahead(known, q) : of[r] \in Seq(Findings)
    BY <1>4, <1>6
  <2>2. Total(of, Ahead(known, q)) \in Nat
    BY <1>5, <2>1, PlacesFinite
  <2>3. Total(of, Ahead(known, p)) \in Nat
    BY <1>5, <1>6, PlacesFinite
  <2> QED
    BY <2>2, <2>3
<1> QED
  BY <1>2, <1>7, <1>8, <1>9 DEF of

\* The findings that _bound_state keeps number no more than MaxTrackedFindings: they have
\* places of their own in the order of the files.
LEMMA BoundTotal ==
  ASSUME NEW known, Known(known)
  PROVE  Total(FindingsOf(Bound(known)), DOMAIN Bound(known)) <= MaxTrackedFindings
<1> DEFINE B == Bound(known)
           P == Places(FindingsOf(B), DOMAIN B)
           before(p) == Total(FindingsOf(known), Ahead(known, p))
           f == [x \in P |-> before(x[1]) + x[2]]
<1>m. MaxTrackedFindings \in Nat
  BY TrackerAssumption
<1>1. ASSUME NEW p \in DOMAIN B
      PROVE  /\ p \in DOMAIN known /\ p \in Paths
             /\ FindingsOf(B)[p] \in Seq(Findings)
             /\ Len(FindingsOf(B)[p]) \in Nat /\ before(p) \in Nat
             /\ Len(FindingsOf(B)[p]) <= Len(known[p].findings)
             /\ Len(FindingsOf(B)[p]) = 0
                \/ before(p) + Len(FindingsOf(B)[p]) <= MaxTrackedFindings
  <2>1. FindingsOf(B)[p] = B[p].findings
    BY DEF FindingsOf
  <2>2. p \in DOMAIN known /\ p \in Paths
    BY BoundFindings DEF Known
  <2>3. before(p) \in Nat
    <3>1. Ahead(known, p) \in SUBSET Paths
      BY DEF Ahead, Known
    <3>2. \A q \in Ahead(known, p) : FindingsOf(known)[q] \in Seq(Findings)
      BY DEF FindingsOf, Known, Ahead
    <3> QED
      BY <3>1, <3>2, PlacesFinite
  <2>4. Room(known, p) = Larger(0, MaxTrackedFindings - before(p))
    BY DEF Room
  <2>5. /\ B[p].findings \in Seq(Findings)
        /\ Len(B[p].findings) = Smaller(Len(known[p].findings), Room(known, p))
        /\ Len(B[p].findings) \in Nat /\ Len(known[p].findings) \in Nat
    BY <2>2, BoundFindings DEF Known
  <2> HIDE DEF B, before
  <2> QED
    BY <1>m, <2>1, <2>2, <2>3, <2>4, <2>5 DEF Smaller, Larger
<1> HIDE DEF before, B, f
<1>2. ASSUME NEW x \in P
      PROVE  \E p \in DOMAIN B : \E i \in 1 .. Len(FindingsOf(B)[p]) :
                x = <<p, i>> /\ f[x] = before(p) + i
  <2>1. PICK p \in DOMAIN B : \E i \in DOMAIN FindingsOf(B)[p] : x = <<p, i>>
    BY InPlaces
  <2>2. PICK i \in DOMAIN FindingsOf(B)[p] : x = <<p, i>>
    BY <2>1
  <2>3. i \in 1 .. Len(FindingsOf(B)[p])
    BY <1>1
  <2> QED
    BY <2>2, <2>3 DEF f
<1> HIDE DEF P
<1>3. ASSUME NEW x \in P
      PROVE  f[x] \in 1 .. MaxTrackedFindings
  <2>1. PICK p \in DOMAIN B :
            \E i \in 1 .. Len(FindingsOf(B)[p]) : x = <<p, i>> /\ f[x] = before(p) + i
    BY <1>2
  <2>2. PICK i \in 1 .. Len(FindingsOf(B)[p]) : x = <<p, i>> /\ f[x] = before(p) + i
    BY <2>1
  <2>3. before(p) \in Nat /\ Len(FindingsOf(B)[p]) \in Nat
        /\ before(p) + Len(FindingsOf(B)[p]) <= MaxTrackedFindings
    BY <1>1
  <2> QED
    BY <1>m, <2>2, <2>3
<1>4. ASSUME NEW x \in P, NEW y \in P, f[x] = f[y]
      PROVE  x = y
  <2>1. PICK p \in DOMAIN B :
            \E i \in 1 .. Len(FindingsOf(B)[p]) : x = <<p, i>> /\ f[x] = before(p) + i
    BY <1>2
  <2>2. PICK i \in 1 .. Len(FindingsOf(B)[p]) : x = <<p, i>> /\ f[x] = before(p) + i
    BY <2>1
  <2>3. PICK q \in DOMAIN B :
            \E j \in 1 .. Len(FindingsOf(B)[q]) : y = <<q, j>> /\ f[y] = before(q) + j
    BY <1>2
  <2>4. PICK j \in 1 .. Len(FindingsOf(B)[q]) : y = <<q, j>> /\ f[y] = before(q) + j
    BY <2>3
  <2>5. /\ before(p) \in Nat /\ before(q) \in Nat
        /\ i \in Nat /\ i >= 1 /\ i <= Len(known[p].findings)
        /\ j \in Nat /\ j >= 1 /\ j <= Len(known[q].findings)
        /\ before(p) + i = before(q) + j
        /\ p \in DOMAIN known /\ q \in DOMAIN known
    <3>1. /\ Len(known[p].findings) \in Nat /\ Len(known[q].findings) \in Nat
          /\ Len(FindingsOf(B)[p]) \in Nat /\ Len(FindingsOf(B)[q]) \in Nat
          /\ Len(FindingsOf(B)[p]) <= Len(known[p].findings)
          /\ Len(FindingsOf(B)[q]) <= Len(known[q].findings)
          /\ p \in DOMAIN known /\ q \in DOMAIN known
          /\ before(p) \in Nat /\ before(q) \in Nat
      BY <1>1 DEF Known
    <3> QED
      BY <1>4, <2>2, <2>4, <3>1
  <2>6. p = q
    <3>1. ASSUME q \in Ahead(known, p)
          PROVE  FALSE
      <4>1. before(q) + Len(known[q].findings) <= before(p) /\ Len(known[q].findings) \in Nat
        BY <2>5, <3>1, AheadTotal DEF before, Known
      <4> QED
        BY <2>5, <4>1
    <3>2. ASSUME p \in Ahead(known, q)
          PROVE  FALSE
      <4>1. before(p) + Len(known[p].findings) <= before(q) /\ Len(known[p].findings) \in Nat
        BY <2>5, <3>2, AheadTotal DEF before, Known
      <4> QED
        BY <2>5, <4>1
    <3> QED
      BY <2>5, <3>1, <3>2, AheadOrder
  <2>7. i = j
    BY <2>5, <2>6
  <2> QED
    BY <2>2, <2>4, <2>6, <2>7
<1>5. f \in Injection(P, 1 .. MaxTrackedFindings)
  <2>1. f \in [P -> 1 .. MaxTrackedFindings]
    BY <1>3 DEF f
  <2>2. \A x, y \in P : f[x] = f[y] => x = y
    BY <1>4
  <2> QED
    BY <2>1, <2>2 DEF Injection, IsInjective
<1>6. IsFiniteSet(1 .. MaxTrackedFindings)
      /\ Cardinality(1 .. MaxTrackedFindings) = MaxTrackedFindings
  <2>1. 1 \in Int /\ MaxTrackedFindings \in Int /\ (1 > MaxTrackedFindings => MaxTrackedFindings = 0)
        /\ MaxTrackedFindings - 1 + 1 = MaxTrackedFindings
    BY <1>m
  <2> QED
    BY <2>1, FS_Interval
<1>7. Cardinality(P) <= Cardinality(1 .. MaxTrackedFindings)
  BY <1>5, <1>6, FS_Injection
<1> QED
  BY <1>6, <1>7 DEF Total, P, B

(***************************************************************************)
(* The tracker.                                                            *)
(***************************************************************************)
\* The other paths whose last snapshot is no older than that of p.
NoOlder(p) == {q \in Paths \ {p} : last[q].at >= last[p].at}

\* The tracker remembers the newest snapshot of every path that few others have
\* overtaken; of the others it may have forgotten, or have an older one.
Remembered(p) ==
    last[p].at >= 0 /\ Cardinality(NoOlder(p)) < MaxTrackedFiles
        => p \in DOMAIN tracker /\ tracker[p].at = last[p].at

TrackerInv ==
    /\ DOMAIN tracker \subseteq Paths
    /\ \A p \in DOMAIN tracker : tracker[p].at \in Nat /\ tracker[p].at <= last[p].at
    /\ \A p \in Paths :
        /\ last[p].at \in Int /\ DOMAIN last[p] = {"at", "findings", "kept"}
        /\ Remembered(p)

\* The tracker is empty at first.
LEMMA InitTracker == Init => TrackerInv /\ NewerSnapshotsWin
  BY DEF Init, TrackerInv, NewerSnapshotsWin, Remembered, EmptyTracker, Unseen, Idle

\* _bound_state keeps a path that fewer than MaxTrackedFiles are ahead of.
LEMMA BoundKeeps ==
  ASSUME NEW known, NEW p \in DOMAIN known, Cardinality(Ahead(known, p)) < MaxTrackedFiles
  PROVE  p \in DOMAIN Bound(known)
  BY DEF Bound

\* _bound_state only forgets: what it keeps is as it was.
LEMMA BoundFacts ==
  ASSUME NEW known
  PROVE  /\ DOMAIN Bound(known) \subseteq DOMAIN known
         /\ \A p \in DOMAIN Bound(known) : Bound(known)[p].at = known[p].at
  BY DEF Bound

\* Sets of paths are finite, and larger ones have no fewer paths.
LEMMA PathSets ==
  ASSUME NEW S, NEW T, S \subseteq T, T \subseteq Paths
  PROVE  /\ Cardinality(S) \in Nat /\ Cardinality(T) \in Nat
         /\ Cardinality(S) <= Cardinality(T)
<1>1. IsFiniteSet(T)
  BY TrackerAssumption, FS_Subset
<1> QED
  BY <1>1, FS_Subset, FS_CardinalityType

\* The tracker after a batch was compared, before it is bounded.
Whole(batch) ==
    [p \in DOMAIN tracker \union Compared(tracker, batch) |->
        IF p \in Compared(tracker, batch)
        THEN [at |-> batch.at, findings |-> batch.findings[p]]
        ELSE tracker[p]]

\* A batch that is compared leaves the newest snapshots of the paths that few others have
\* overtaken, and is itself the newest of those of its paths.
LEMMA Classify ==
  ASSUME TimeInv, TrackerInv, NEW batch, WellFormed(batch),
         tracker' = Tracked(tracker, batch), Remember(batch, Compared(tracker, batch))
  PROVE  /\ TrackerInv'
         /\ \A p \in Compared(tracker, batch) :
              Cardinality(NoOlder(p)') < MaxTrackedFiles => batch.at >= last'[p].at
         /\ \A p \in Paths : last[p].at <= last'[p].at
         /\ \A p \in Paths :
              last'[p].at >= 0 /\ Cardinality(NoOlder(p)') < MaxTrackedFiles
                => p \in DOMAIN Whole(batch) /\ Ahead(Whole(batch), p) \subseteq NoOlder(p)'
<1> DEFINE compared == Compared(tracker, batch)
           whole == Whole(batch)
<1>b. batch.at \in Nat /\ compared \subseteq Paths
  BY DEF WellFormed, AnyBatch, Compared, Current
<1>t. /\ DOMAIN tracker \subseteq Paths
      /\ \A p \in DOMAIN tracker : tracker[p].at \in Nat /\ tracker[p].at <= last[p].at
      /\ \A p \in Paths : /\ last[p].at \in Int
                          /\ DOMAIN last[p] = {"at", "findings", "kept"}
                          /\ Remembered(p)
      /\ MaxTrackedFiles \in Nat
  BY TrackerAssumption DEF TrackerInv
<1>1. ASSUME NEW p \in Paths
      PROVE  /\ last'[p].at = IF p \in compared
                              THEN IF batch.at > last[p].at THEN batch.at ELSE last[p].at
                              ELSE last[p].at
             /\ DOMAIN last'[p] = {"at", "findings", "kept"}
  <2> DEFINE seen == [q \in Paths |->
                        IF q \in compared
                        THEN [at |-> IF batch.at > last[q].at THEN batch.at ELSE last[q].at,
                              findings |-> batch.findings[q], kept |-> TRUE]
                        ELSE last[q]]
  <2>1. last'[p] = [seen[p] EXCEPT !.kept = @ /\ Fits(seen, p)]
    BY DEF Remember
  <2>2. DOMAIN seen[p] = {"at", "findings", "kept"}
    BY <1>t
  <2>3. seen[p].at = IF p \in compared
                     THEN IF batch.at > last[p].at THEN batch.at ELSE last[p].at
                     ELSE last[p].at
    OBVIOUS
  <2> HIDE DEF seen
  <2> QED
    BY <2>1, <2>2, <2>3
<1>2. \A p \in Paths : last'[p].at \in Int /\ last[p].at <= last'[p].at
  BY <1>1, <1>b, <1>t
<1>3. /\ DOMAIN whole = DOMAIN tracker \union compared
      /\ \A p \in compared : whole[p].at = batch.at
      /\ \A p \in DOMAIN tracker \ compared : whole[p].at = tracker[p].at
  BY DEF Whole
<1>4. tracker' = Bound(whole)
  BY DEF Tracked, Whole
<1>5. \A p \in DOMAIN whole : whole[p].at \in Nat /\ whole[p].at <= last'[p].at
  BY <1>1, <1>2, <1>3, <1>b, <1>t
<1>d. /\ DOMAIN tracker' \subseteq DOMAIN whole
      /\ \A p \in DOMAIN tracker' : tracker'[p].at = whole[p].at
  BY <1>4, BoundFacts
<1> HIDE DEF whole, compared
\* A path that few have overtaken is in the tracker before it is bounded.
<1>6. ASSUME NEW p \in Paths, last'[p].at >= 0, Cardinality(NoOlder(p)') < MaxTrackedFiles
      PROVE  p \in DOMAIN whole /\ whole[p].at = last'[p].at
  <2>1. ASSUME last'[p].at = last[p].at
        PROVE  p \in DOMAIN tracker /\ tracker[p].at = last[p].at
    <3>1. NoOlder(p) \subseteq NoOlder(p)'
      BY <1>2, <1>t, <2>1 DEF NoOlder
    <3>2. NoOlder(p)' \subseteq Paths
      BY DEF NoOlder
    <3>3. Cardinality(NoOlder(p)) < MaxTrackedFiles
      <4>1. /\ Cardinality(NoOlder(p)) \in Nat /\ Cardinality(NoOlder(p)') \in Nat
            /\ Cardinality(NoOlder(p)) <= Cardinality(NoOlder(p)')
        BY <3>1, <3>2, PathSets
      <4> QED
        BY <1>6, <1>t, <4>1
    <3> QED
      BY <1>6, <1>t, <2>1, <3>3 DEF Remembered
  <2>2. CASE p \notin compared
    BY <1>1, <1>3, <2>1, <2>2
  <2>3. CASE p \in compared
    <3>1. CASE batch.at > last[p].at
      BY <1>1, <1>3, <2>3, <3>1
    <3>2. CASE ~ batch.at > last[p].at
      <4>1. last'[p].at = last[p].at
        BY <1>1, <2>3, <3>2
      <4>2. p \in DOMAIN tracker /\ tracker[p].at = last[p].at
        BY <2>1, <4>1
      <4>3. ~ batch.at < tracker[p].at
        BY <2>3, <4>2 DEF compared, Compared, OutOfOrder
      <4> QED
        BY <1>3, <1>b, <1>t, <2>3, <3>2, <4>1, <4>2, <4>3
    <3> QED
      BY <3>1, <3>2
  <2> QED
    BY <2>2, <2>3
\* It stays there, because those ahead of it are no older.
<1>7. ASSUME NEW p \in Paths, last'[p].at >= 0, Cardinality(NoOlder(p)') < MaxTrackedFiles
      PROVE  p \in DOMAIN tracker' /\ Ahead(whole, p) \subseteq NoOlder(p)'
  <2>1. p \in DOMAIN whole /\ whole[p].at = last'[p].at
    BY <1>6, <1>7
  <2>2. Ahead(whole, p) \subseteq NoOlder(p)'
    <3> SUFFICES ASSUME NEW q \in Ahead(whole, p)
                 PROVE  q \in NoOlder(p)'
      OBVIOUS
    <3>1. q \in DOMAIN whole /\ q \in Paths /\ whole[q].at >= whole[p].at /\ q # p
      <4>1. /\ q \in DOMAIN whole
            /\ \/ whole[q].at > whole[p].at
               \/ whole[q].at = whole[p].at /\ q < p
        BY DEF Ahead
      <4>2. q \in Paths /\ q \in Int /\ p \in Int
        BY <1>3, <1>b, <1>t, <4>1, TrackerAssumption
      <4> QED
        BY <1>5, <2>1, <4>1, <4>2
    <3>2. last'[q].at >= last'[p].at
      BY <1>2, <1>5, <2>1, <3>1
    <3> QED
      BY <3>1, <3>2 DEF NoOlder
  <2>3. Cardinality(Ahead(whole, p)) < MaxTrackedFiles
    <3>1. NoOlder(p)' \subseteq Paths
      BY DEF NoOlder
    <3>2. /\ Cardinality(Ahead(whole, p)) \in Nat /\ Cardinality(NoOlder(p)') \in Nat
          /\ Cardinality(Ahead(whole, p)) <= Cardinality(NoOlder(p)')
      BY <2>2, <3>1, PathSets
    <3> QED
      BY <1>7, <1>t, <3>2
  <2> QED
    BY <1>4, <2>1, <2>2, <2>3, BoundKeeps
<1>8. TrackerInv'
  <2>1. \A p \in Paths : Remembered(p)'
    BY <1>6, <1>7, <1>d DEF Remembered
  <2>2. \A p \in DOMAIN tracker' : tracker'[p].at \in Nat /\ tracker'[p].at <= last'[p].at
    BY <1>5, <1>d
  <2>3. DOMAIN tracker' \subseteq Paths
    BY <1>3, <1>b, <1>d, <1>t
  <2> QED
    BY <1>1, <1>2, <2>1, <2>2, <2>3 DEF TrackerInv
<1>9. ASSUME NEW p \in compared, Cardinality(NoOlder(p)') < MaxTrackedFiles
      PROVE  batch.at >= last'[p].at
  <2>1. p \in Paths /\ last'[p].at >= 0
    BY <1>1, <1>b, <1>t, <1>9
  <2>2. whole[p].at = last'[p].at
    BY <1>6, <1>9, <2>1
  <2> QED
    BY <1>2, <1>3, <1>b, <2>1, <2>2
<1> QED
  BY <1>2, <1>6, <1>7, <1>8, <1>9 DEF compared, whole

\* Every step keeps what the tracker remembers in line with the last reviews.
LEMMA NextTracker ==
  TimeInv /\ CallInv /\ TrackerInv /\ NewerSnapshotsWin /\ [Next]_vars
    => TrackerInv' /\ NewerSnapshotsWin'
<1> SUFFICES ASSUME TimeInv, CallInv, TrackerInv, NewerSnapshotsWin, [Next]_vars
             PROVE  TrackerInv' /\ NewerSnapshotsWin'
  OBVIOUS
<1>k. UNCHANGED <<tracker, last>> => TrackerInv'
  BY DEF TrackerInv, Remembered, NoOlder
<1>q. call'.pc \notin {"publish", "link"} => NewerSnapshotsWin'
  BY DEF NewerSnapshotsWin
<1>1. ASSUME UNCHANGED <<tracker, last, call>>
      PROVE  TrackerInv' /\ NewerSnapshotsWin'
  BY <1>1, <1>k DEF NewerSnapshotsWin, Cited
<1>2. ASSUME NEW p, Edit(p)
      PROVE  TrackerInv' /\ NewerSnapshotsWin'
  BY <1>1, <1>2 DEF Edit
<1>3. CASE Tick \/ SetClockBack \/ NextSession \/ UNCHANGED vars
  BY <1>1, <1>3 DEF Tick, SetClockBack, NextSession, vars
<1>4. CASE Restart
  BY <1>4, <1>q DEF Restart, TrackerInv, Remembered, EmptyTracker, Unseen, Idle
<1>5. CASE DiscardResult \/ RefuseBatch \/ LinkBatch
  BY <1>5, <1>k, <1>q DEF DiscardResult, RefuseBatch, LinkBatch, Idle
<1>6. ASSUME NEW S, NEW report, Answer(S, report)
      PROVE  TrackerInv' /\ NewerSnapshotsWin'
  BY <1>6, <1>k, <1>q DEF Answer
<1>7. CASE ClassifyBatch
  <2> DEFINE batch == Fresh(call.batch, Same(call.batch))
  <2>1. /\ call'.batch = InOrder(tracker, batch)
        /\ tracker' = Tracked(tracker, batch)
        /\ Remember(batch, Compared(tracker, batch))
    BY <1>7 DEF ClassifyBatch
  <2>2. WellFormed(batch)
    BY <1>7, FreshFacts DEF CallInv, ClassifyBatch
  <2> HIDE DEF batch
  <2>3. /\ call'.batch.at = batch.at
        /\ Cited(call'.batch) \subseteq Compared(tracker, batch)
    BY <2>1, <2>2, InOrderFacts
  <2>4. TrackerInv'
    BY <2>1, <2>2, Classify
  <2>5. \A p \in Compared(tracker, batch) :
            Cardinality(NoOlder(p)') < MaxTrackedFiles => batch.at >= last'[p].at
    BY <2>1, <2>2, Classify
  <2>6. NewerSnapshotsWin'
    BY <2>3, <2>5 DEF NewerSnapshotsWin, NoOlder, Cited
  <2> QED
    BY <2>4, <2>6
<1>8. CASE CountRounds
  <2>1. TrackerInv'
    BY <1>8, <1>k DEF CountRounds
  <2>2. NewerSnapshotsWin'
    <3>1. CASE call' = Idle
      BY <1>q, <3>1 DEF Idle
    <3>2. CASE call' # Idle
      <4>1. /\ call.pc = "publish" /\ last' = last
            /\ call'.batch = OnlyIn(Offered, Paths \ Suppressed(Offered))
        BY <1>8, <3>2 DEF CountRounds
      <4>2. /\ call'.batch.at = call.batch.at
            /\ Cited(call'.batch) \subseteq Cited(call.batch)
        BY <4>1, FreshFacts, OnlyInFacts DEF CallInv, Offered
      <4> QED
        BY <4>1, <4>2 DEF NewerSnapshotsWin, Cited
    <3> QED
      BY <3>1, <3>2
  <2> QED
    BY <2>1, <2>2
<1> QED
  BY <1>2, <1>3, <1>4, <1>5, <1>6, <1>7, <1>8 DEF Next

(***************************************************************************)
(* The findings the tracker keeps.                                         *)
(***************************************************************************)
\* The tracker has no more findings than it may have, and of each file no more than the
\* last review of it; of a file whose findings it has had room for it has all of them.
KeptInv ==
    /\ Known(tracker)
    /\ Total(FindingsOf(tracker), DOMAIN tracker) <= MaxTrackedFindings
    /\ \A p \in DOMAIN tracker : Len(tracker[p].findings) <= Len(last[p].findings)
    /\ \A p \in Paths :
        /\ last[p].findings \in Seq(Findings) /\ last[p].kept \in BOOLEAN
        /\ last[p].kept => /\ last[p].at >= 0 /\ p \in DOMAIN tracker
                           /\ tracker[p].findings = last[p].findings

\* An empty tracker has none.
LEMMA EmptyKept ==
  tracker = EmptyTracker /\ last = [p \in Paths |-> Unseen] => KeptInv
<1> SUFFICES ASSUME tracker = EmptyTracker, last = [p \in Paths |-> Unseen]
             PROVE  KeptInv
  OBVIOUS
<1>1. DOMAIN tracker = {}
  BY DEF EmptyTracker
<1>2. Places(FindingsOf(tracker), {}) = {}
  BY DEF Places
<1>3. Total(FindingsOf(tracker), {}) = 0
  BY <1>2, FS_EmptySet DEF Total
<1>4. <<>> \in Seq(Findings)
  OBVIOUS
<1>5. \A p \in Paths : last[p].findings = <<>> /\ last[p].kept = FALSE
  BY DEF Unseen
<1>6. MaxTrackedFindings \in Nat
  BY TrackerAssumption
<1>7. Known(tracker)
  BY <1>1 DEF Known
<1>8. Total(FindingsOf(tracker), DOMAIN tracker) <= MaxTrackedFindings
  BY <1>1, <1>3, <1>6
<1>9. \A p \in Paths : /\ last[p].findings \in Seq(Findings) /\ last[p].kept \in BOOLEAN
                       /\ ~ last[p].kept
  BY <1>4, <1>5
<1> QED
  BY <1>1, <1>7, <1>8, <1>9 DEF KeptInv

\* classify keeps it so: Fits says when the findings of a file fit in after those ahead.
LEMMA ClassifyKept ==
  ASSUME TimeInv, TrackerInv, KeptInv, NEW batch, WellFormed(batch),
         tracker' = Tracked(tracker, batch), Remember(batch, Compared(tracker, batch))
  PROVE  KeptInv'
<1> DEFINE compared == Compared(tracker, batch)
           whole == Whole(batch)
           seen == [p \in Paths |->
                      IF p \in compared
                      THEN [at |-> IF batch.at > last[p].at THEN batch.at ELSE last[p].at,
                            findings |-> batch.findings[p], kept |-> TRUE]
                      ELSE last[p]]
<1>b. /\ batch.at \in Nat /\ compared \subseteq Paths
      /\ \A p \in Paths : batch.findings[p] \in Seq(Findings)
  BY DEF WellFormed, AnyBatch, Compared, Current
<1>t. /\ DOMAIN tracker \subseteq Paths
      /\ \A p \in DOMAIN tracker :
           /\ tracker[p].at \in Int /\ tracker[p].findings \in Seq(Findings)
           /\ Len(tracker[p].findings) <= Len(last[p].findings)
      /\ \A p \in Paths : /\ last[p].at \in Int
                          /\ DOMAIN last[p] = {"at", "findings", "kept"}
                          /\ last[p].findings \in Seq(Findings) /\ last[p].kept \in BOOLEAN
      /\ MaxTrackedFiles \in Nat /\ MaxTrackedFindings \in Nat
  BY TrackerAssumption DEF TrackerInv, KeptInv, Known
<1>1. /\ DOMAIN seen = Paths
      /\ \A p \in compared : seen[p].findings = batch.findings[p] /\ seen[p].at >= 0
      /\ \A p \in Paths \ compared : seen[p] = last[p]
      /\ \A p \in Paths : /\ seen[p].at \in Int /\ seen[p].findings \in Seq(Findings)
                          /\ seen[p].kept \in BOOLEAN
                          /\ DOMAIN seen[p] = {"at", "findings", "kept"}
  <2>1. ASSUME NEW p \in compared
        PROVE  /\ seen[p].findings = batch.findings[p] /\ seen[p].at \in Nat
               /\ seen[p].kept = TRUE /\ DOMAIN seen[p] = {"at", "findings", "kept"}
    <3>1. p \in Paths /\ last[p].at \in Int
      BY <1>b, <1>t
    <3> HIDE DEF compared
    <3> QED
      BY <1>b, <3>1
  <2>2. DOMAIN seen = Paths
    OBVIOUS
  <2>3. \A p \in Paths \ compared : seen[p] = last[p]
    OBVIOUS
  <2> HIDE DEF seen, compared
  <2>4. \A p \in compared : seen[p].findings \in Seq(Findings)
    BY <1>b, <2>1
  <2>5. \A p \in compared : seen[p].at >= 0 /\ seen[p].at \in Int
    <3>1. \A p \in compared : seen[p].at \in Nat
      BY <2>1
    <3> QED
      BY <3>1
  <2>6. \A p \in Paths : seen[p].kept \in BOOLEAN
    BY <1>t, <2>1, <2>3
  <2>7. \A p \in Paths : DOMAIN seen[p] = {"at", "findings", "kept"}
    BY <1>t, <2>1, <2>3
  <2>8. \A p \in Paths : seen[p].at \in Int
    BY <1>t, <2>3, <2>5
  <2>9. \A p \in Paths : seen[p].findings \in Seq(Findings)
    BY <1>t, <2>3, <2>4
  <2>10. \A p \in compared : seen[p].findings = batch.findings[p]
    BY <2>1
  <2> QED
    BY <2>2, <2>3, <2>5, <2>6, <2>7, <2>8, <2>9, <2>10
<1>2. /\ DOMAIN whole = DOMAIN tracker \union compared
      /\ \A p \in compared : whole[p].findings = batch.findings[p] /\ whole[p].at = batch.at
      /\ \A p \in DOMAIN tracker \ compared : whole[p] = tracker[p]
  BY DEF Whole
<1>3. tracker' = Bound(whole)
  BY DEF Tracked, Whole
<1>4. \A p \in Paths : last'[p] = [seen[p] EXCEPT !.kept = @ /\ Fits(seen, p)]
  BY DEF Remember
<1>c. TrackerInv' /\ \A p \in Paths : last[p].at <= last'[p].at
  BY Classify
<1>d. \A p \in Paths :
        last'[p].at >= 0 /\ Cardinality(NoOlder(p)') < MaxTrackedFiles
          => p \in DOMAIN whole /\ Ahead(whole, p) \subseteq NoOlder(p)'
  BY Classify
<1> HIDE DEF whole, seen, compared
<1>5. \A p \in Paths :
        /\ last'[p].at = seen[p].at /\ last'[p].findings = seen[p].findings
        /\ last'[p].kept = (seen[p].kept /\ Fits(seen, p))
  BY <1>1, <1>4
<1>6. Known(whole)
  BY <1>2, <1>b, <1>t DEF Known
<1>7. \A p \in DOMAIN whole : /\ p \in Paths /\ whole[p].findings \in Seq(Findings)
                              /\ Len(whole[p].findings) <= Len(seen[p].findings)
  <2> SUFFICES ASSUME NEW p \in DOMAIN whole
               PROVE  /\ p \in Paths /\ whole[p].findings \in Seq(Findings)
                      /\ Len(whole[p].findings) <= Len(seen[p].findings)
    OBVIOUS
  <2>1. p \in Paths /\ whole[p].findings \in Seq(Findings)
    BY <1>6 DEF Known
  <2>2. CASE p \in compared
    <3>1. whole[p].findings = seen[p].findings
      BY <1>1, <1>2, <2>2
    <3>2. Len(whole[p].findings) \in Nat
      BY <2>1
    <3> QED
      BY <2>1, <3>1, <3>2
  <2>3. CASE p \notin compared
    BY <1>1, <1>2, <1>t, <2>1, <2>3
  <2> QED
    BY <2>2, <2>3
<1>8. ASSUME NEW p \in DOMAIN tracker'
      PROVE  /\ p \in DOMAIN whole /\ tracker'[p].at \in Int
             /\ tracker'[p].findings \in Seq(Findings)
             /\ Len(tracker'[p].findings) <= Len(last'[p].findings)
  <2>1. /\ p \in DOMAIN whole /\ tracker'[p].at = whole[p].at
        /\ tracker'[p].findings \in Seq(Findings) /\ Room(whole, p) \in Nat
        /\ Len(tracker'[p].findings) = Smaller(Len(whole[p].findings), Room(whole, p))
    BY <1>3, <1>6, BoundFacts, BoundFindings
  <2>2. /\ Len(whole[p].findings) <= Len(seen[p].findings) /\ p \in Paths
        /\ Len(whole[p].findings) \in Nat /\ Len(seen[p].findings) \in Nat
    BY <1>1, <1>7, <2>1
  <2>3. Len(last'[p].findings) = Len(seen[p].findings)
    BY <1>5, <2>2
  <2>4. whole[p].at \in Int
    BY <1>6, <2>1 DEF Known
  <2> QED
    BY <2>1, <2>2, <2>3, <2>4 DEF Smaller
<1>9. Known(tracker)'
  BY <1>6, <1>8 DEF Known
<1>10. (Total(FindingsOf(tracker), DOMAIN tracker) <= MaxTrackedFindings)'
  BY <1>3, <1>6, BoundTotal
<1>11. ASSUME NEW p \in Paths, last'[p].kept
       PROVE  /\ last'[p].at >= 0 /\ p \in DOMAIN tracker'
              /\ tracker'[p].findings = last'[p].findings
  <2> DEFINE recent == {q \in Paths : seen[q].at >= seen[p].at}
             ahead == Ahead(whole, p)
  <2>1. /\ Cardinality(recent) <= MaxTrackedFiles
        /\ Total(FindingsOf(seen), recent) <= MaxTrackedFindings
        /\ seen[p].kept
    BY <1>5, <1>11 DEF Fits
  <2>2. /\ last'[p].at >= 0
        /\ p \in compared \/ (p \in DOMAIN tracker /\ tracker[p].findings = seen[p].findings)
    BY <1>1, <1>5, <2>1 DEF KeptInv
  <2>3. p \in DOMAIN whole /\ whole[p].findings = last'[p].findings
    BY <1>1, <1>2, <1>5, <2>2
  <2>4. NoOlder(p)' \union {p} \subseteq recent /\ p \notin NoOlder(p)'
    <3>1. p \in recent
      BY <1>1
    <3> QED
      BY <1>5, <3>1 DEF NoOlder
  <2>5. Cardinality(NoOlder(p)') < MaxTrackedFiles
    <3>1. recent \subseteq Paths
      OBVIOUS
    <3> HIDE DEF recent
    <3>2. IsFiniteSet(recent) /\ NoOlder(p)' \subseteq recent
      BY <2>4, <3>1, TrackerAssumption, FS_Subset
    <3>3. IsFiniteSet(NoOlder(p)')
      BY <3>2, FS_Subset
    <3>4. Cardinality(NoOlder(p)' \union {p}) = Cardinality(NoOlder(p)') + 1
      BY <2>4, <3>3, FS_AddElement
    <3>5. /\ Cardinality(NoOlder(p)' \union {p}) <= Cardinality(recent)
          /\ Cardinality(recent) \in Nat /\ Cardinality(NoOlder(p)') \in Nat
      BY <2>4, <3>2, <3>3, FS_Subset, FS_CardinalityType
    <3> QED
      BY <1>t, <2>1, <3>4, <3>5
  <2>6. ahead \subseteq NoOlder(p)'
    BY <1>d, <2>2, <2>5
  <2>7. p \in DOMAIN tracker'
    <3>1. NoOlder(p)' \subseteq Paths
      BY DEF NoOlder
    <3>2. Cardinality(ahead) <= Cardinality(NoOlder(p)') /\ Cardinality(ahead) \in Nat
          /\ Cardinality(NoOlder(p)') \in Nat
      BY <2>6, <3>1, PathSets
    <3>3. Cardinality(ahead) < MaxTrackedFiles
      BY <1>t, <2>5, <3>2
    <3> QED
      BY <1>3, <2>3, <3>3, BoundKeeps
  <2> HIDE DEF recent
  <2>8. Total(FindingsOf(whole), ahead \union {p}) <= Total(FindingsOf(seen), recent)
    <3>1. recent \in SUBSET Paths
      BY DEF recent
    <3>2. ahead \union {p} \subseteq recent
      BY <2>4, <2>6
    <3>3. \A q \in recent : FindingsOf(seen)[q] \in Seq(Findings)
      BY <1>1, <3>1 DEF FindingsOf
    <3>4. \A q \in ahead \union {p} :
              /\ FindingsOf(whole)[q] \in Seq(Findings)
              /\ Len(FindingsOf(whole)[q]) <= Len(FindingsOf(seen)[q])
      <4>1. \A q \in ahead \union {p} : q \in DOMAIN whole /\ q \in DOMAIN seen
        BY <1>1, <1>7, <2>3 DEF Ahead
      <4> QED
        BY <1>7, <4>1 DEF FindingsOf
    <3> HIDE DEF ahead
    <3> QED
      BY <3>1, <3>2, <3>3, <3>4, TotalMonotonic
  <2>9. /\ Total(FindingsOf(whole), ahead \union {p})
             = Total(FindingsOf(whole), ahead) + Len(whole[p].findings)
        /\ Total(FindingsOf(whole), ahead) \in Nat
    <3>1. ahead \in SUBSET Paths /\ p \notin ahead
      BY <2>4, <2>6 DEF NoOlder
    <3>2. \A q \in ahead \union {p} : FindingsOf(whole)[q] \in Seq(Findings)
      <4>1. \A q \in ahead \union {p} : q \in DOMAIN whole
        BY <2>3 DEF Ahead
      <4> QED
        BY <1>7, <4>1 DEF FindingsOf
    <3>3. FindingsOf(whole)[p] = whole[p].findings
      BY <2>3 DEF FindingsOf
    <3> HIDE DEF ahead
    <3>4. Total(FindingsOf(whole), ahead \union {p})
             = Total(FindingsOf(whole), ahead) + Len(FindingsOf(whole)[p])
      BY <3>1, <3>2, TotalAdd
    <3>5. Total(FindingsOf(whole), ahead) \in Nat
      BY <3>1, <3>2, PlacesFinite
    <3> QED
      BY <3>3, <3>4, <3>5
  <2>10. Len(whole[p].findings) <= Room(whole, p)
    <3>1. /\ Len(whole[p].findings) \in Nat
          /\ Total(FindingsOf(seen), recent) <= MaxTrackedFindings
          /\ Total(FindingsOf(seen), recent) \in Nat
      <4>1. recent \in SUBSET Paths
        BY DEF recent
      <4>2. \A q \in recent : FindingsOf(seen)[q] \in Seq(Findings)
        BY <1>1, <4>1 DEF FindingsOf
      <4>3. Total(FindingsOf(seen), recent) \in Nat
        BY <4>1, <4>2, PlacesFinite
      <4> QED
        BY <1>7, <2>1, <2>3, <4>3
    <3>2. Room(whole, p) = Larger(0, MaxTrackedFindings - Total(FindingsOf(whole), ahead))
      BY DEF Room
    <3> HIDE DEF ahead
    <3> QED
      BY <1>t, <2>8, <2>9, <3>1, <3>2 DEF Larger
  <2> QED
    BY <1>3, <1>6, <2>2, <2>3, <2>7, <2>10, BoundFindings
<1>12. \A p \in Paths : last'[p].findings \in Seq(Findings) /\ last'[p].kept \in BOOLEAN
  BY <1>1, <1>5
<1> QED
  BY <1>8, <1>9, <1>10, <1>11, <1>12 DEF KeptInv

\* Every step keeps it so.
LEMMA NextKept ==
  TimeInv /\ CallInv /\ TrackerInv /\ KeptInv /\ [Next]_vars => KeptInv'
<1> SUFFICES ASSUME TimeInv, CallInv, TrackerInv, KeptInv, [Next]_vars
             PROVE  KeptInv'
  OBVIOUS
<1>1. UNCHANGED <<tracker, last>> => KeptInv'
  BY DEF KeptInv, Known
<1>2. CASE Restart
  <2>1. (tracker = EmptyTracker /\ last = [p \in Paths |-> Unseen])'
    BY <1>2 DEF Restart
  <2> QED
    BY <2>1, EmptyKept, PTL
<1>3. CASE ClassifyBatch
  <2> DEFINE batch == Fresh(call.batch, Same(call.batch))
  <2>1. /\ tracker' = Tracked(tracker, batch)
        /\ Remember(batch, Compared(tracker, batch))
    BY <1>3 DEF ClassifyBatch
  <2>2. WellFormed(batch)
    BY <1>3, FreshFacts DEF CallInv, ClassifyBatch
  <2> HIDE DEF batch
  <2> QED
    BY <2>1, <2>2, ClassifyKept
<1>4. ASSUME NEW p, Edit(p)
      PROVE  KeptInv'
  BY <1>1, <1>4 DEF Edit
<1>5. ASSUME NEW S, NEW report, Answer(S, report)
      PROVE  KeptInv'
  BY <1>1, <1>5 DEF Answer
<1>6. CASE Tick \/ SetClockBack \/ NextSession \/ DiscardResult \/ RefuseBatch
           \/ CountRounds \/ LinkBatch \/ UNCHANGED vars
  BY <1>1, <1>6 DEF Tick, SetClockBack, NextSession, DiscardResult, RefuseBatch, CountRounds,
                    LinkBatch, vars
<1> QED
  BY <1>2, <1>3, <1>4, <1>5, <1>6 DEF Next

(***************************************************************************)
(* Sequences.                                                              *)
(***************************************************************************)
\* The places at which a sequence has elements of P, and how many these are.
Occurs(s, P) == {i \in DOMAIN s : s[i] \in P}
CountIn(s, P) == Cardinality(Occurs(s, P))

\* A sequence has finitely many of them, no more than its length.
LEMMA CountType ==
  ASSUME NEW E, NEW s \in Seq(E), NEW P
  PROVE  /\ IsFiniteSet(Occurs(s, P)) /\ CountIn(s, P) \in Nat
         /\ (\A i \in DOMAIN s : s[i] \in P) => CountIn(s, P) = Len(s)
         /\ (\A i \in DOMAIN s : s[i] \notin P) => CountIn(s, P) = 0
<1>1. DOMAIN s = 1 .. Len(s) /\ Len(s) \in Nat
  OBVIOUS
<1>2. ASSUME NEW n \in Nat
      PROVE  IsFiniteSet(1 .. n) /\ Cardinality(1 .. n) = n
  <2>1. 1 \in Int /\ n \in Int /\ (1 > n => n = 0) /\ n - 1 + 1 = n
    OBVIOUS
  <2> QED
    BY <2>1, FS_Interval
<1>3. Occurs(s, P) \subseteq 1 .. Len(s)
  BY <1>1 DEF Occurs
<1>4. IsFiniteSet(1 .. Len(s)) /\ Cardinality(1 .. Len(s)) = Len(s)
  BY <1>1, <1>2
<1>5. IsFiniteSet(Occurs(s, P)) /\ CountIn(s, P) \in Nat
  BY <1>3, <1>4, FS_Subset, FS_CardinalityType DEF CountIn
<1>6. ASSUME \A i \in DOMAIN s : s[i] \in P
      PROVE  CountIn(s, P) = Len(s)
  <2>1. Occurs(s, P) = 1 .. Len(s)
    BY <1>1, <1>6 DEF Occurs
  <2> QED
    BY <1>4, <2>1 DEF CountIn
<1>7. ASSUME \A i \in DOMAIN s : s[i] \notin P
      PROVE  CountIn(s, P) = 0
  <2>1. Occurs(s, P) = {}
    BY <1>7 DEF Occurs
  <2> QED
    BY <2>1, FS_EmptySet DEF CountIn
<1> QED
  BY <1>5, <1>6, <1>7

\* Two sequences together have those of both.
LEMMA CountConcat ==
  ASSUME NEW E, NEW s \in Seq(E), NEW t \in Seq(E), NEW P
  PROVE  CountIn(s \o t, P) = CountIn(s, P) + CountIn(t, P)
<1> DEFINE n == Len(s)
           later == {i \in Occurs(s \o t, P) : i > n}
           f == [i \in later |-> i - n]
<1>1. /\ n \in Nat /\ DOMAIN s = 1 .. n /\ DOMAIN t = 1 .. Len(t) /\ Len(t) \in Nat
      /\ DOMAIN (s \o t) = 1 .. n + Len(t)
      /\ \A i \in 1 .. n : (s \o t)[i] = s[i]
      /\ \A i \in 1 .. Len(t) : (s \o t)[n + i] = t[i]
  OBVIOUS
<1> HIDE DEF n
<1>2. Occurs(s \o t, P) = Occurs(s, P) \union later /\ Occurs(s, P) \intersect later = {}
  <2>1. \A i \in Occurs(s, P) : i \in 1 .. n /\ i \in Occurs(s \o t, P)
    BY <1>1 DEF Occurs
  <2>2. \A i \in Occurs(s \o t, P) : i \in 1 .. n => i \in Occurs(s, P)
    BY <1>1 DEF Occurs
  <2>3. \A i \in Occurs(s \o t, P) : i \in 1 .. n \/ i > n
    BY <1>1 DEF Occurs
  <2>4. \A i \in 1 .. n : ~ i > n
    BY <1>1
  <2> QED
    BY <2>1, <2>2, <2>3, <2>4
<1>3. f \in Bijection(later, Occurs(t, P))
  <2>1. ASSUME NEW i \in later
        PROVE  f[i] = i - n /\ i - n \in Occurs(t, P) /\ i \in Int
    <3>1. i \in 1 .. n + Len(t) /\ i > n /\ (s \o t)[i] \in P
      BY <1>1 DEF Occurs
    <3>2. i - n \in 1 .. Len(t) /\ n + (i - n) = i
      BY <1>1, <3>1
    <3>3. t[i - n] \in P
      BY <1>1, <3>1, <3>2
    <3> QED
      BY <1>1, <3>1, <3>2, <3>3 DEF Occurs
  <2>2. ASSUME NEW j \in Occurs(t, P)
        PROVE  n + j \in later /\ f[n + j] = j
    <3>1. j \in 1 .. Len(t) /\ t[j] \in P
      BY <1>1 DEF Occurs
    <3>2. n + j \in 1 .. n + Len(t) /\ n + j > n /\ (n + j) - n = j
      BY <1>1, <3>1
    <3>3. (s \o t)[n + j] \in P
      BY <1>1, <3>1
    <3>4. n + j \in later
      BY <1>1, <3>2, <3>3 DEF Occurs
    <3> QED
      BY <3>2, <3>4
  <2>3. f \in [later -> Occurs(t, P)]
    BY <2>1
  <2> HIDE DEF f, later
  <2>4. \A i, j \in later : f[i] = f[j] => i = j
    BY <1>1, <2>1
  <2>5. \A j \in Occurs(t, P) : \E i \in later : f[i] = j
    BY <2>2
  <2> QED
    BY <2>3, <2>4, <2>5 DEF Bijection, Injection, Surjection, IsInjective
<1>4. IsFiniteSet(Occurs(s, P)) /\ CountIn(s, P) \in Nat
  BY CountType
<1>5. IsFiniteSet(Occurs(t, P)) /\ CountIn(t, P) \in Nat
  BY CountType
<1>6. IsFiniteSet(later)
  <2>1. s \o t \in Seq(E)
    OBVIOUS
  <2>2. IsFiniteSet(Occurs(s \o t, P))
    BY <2>1, CountType
  <2> QED
    BY <2>2, FS_Subset
<1> HIDE DEF later, f
<1>7. Cardinality(later) = CountIn(t, P)
  <2>1. ExistsBijection(later, Occurs(t, P))
    BY <1>3 DEF ExistsBijection
  <2> QED
    BY <1>6, <2>1, FS_Bijection DEF CountIn
<1>8. Cardinality(Occurs(s, P) \union later)
        = Cardinality(Occurs(s, P)) + Cardinality(later) - Cardinality(Occurs(s, P) \intersect later)
  BY <1>4, <1>6, FS_Union
<1>9. Cardinality(Occurs(s, P) \intersect later) = 0
  BY <1>2, FS_EmptySet
<1> QED
  BY <1>2, <1>4, <1>5, <1>7, <1>8, <1>9 DEF CountIn

\* One element is in P or not.
LEMMA CountAppend ==
  ASSUME NEW E, NEW s \in Seq(E), NEW x \in E, NEW P
  PROVE  /\ Append(s, x) \in Seq(E) /\ Len(Append(s, x)) = Len(s) + 1
         /\ CountIn(Append(s, x), P) = CountIn(s, P) + (IF x \in P THEN 1 ELSE 0)
<1>1. Append(s, x) = s \o <<x>> /\ <<x>> \in Seq(E) /\ Len(<<x>>) = 1
  OBVIOUS
<1>2. CountIn(<<x>>, P) = IF x \in P THEN 1 ELSE 0
  <2>1. \A i \in DOMAIN <<x>> : <<x>>[i] = x
    OBVIOUS
  <2>2. x \in P => CountIn(<<x>>, P) = Len(<<x>>)
    BY <1>1, <2>1, CountType
  <2>3. x \notin P => CountIn(<<x>>, P) = 0
    BY <1>1, <2>1, CountType
  <2> QED
    BY <1>1, <2>2, <2>3
<1>3. CountIn(s \o <<x>>, P) = CountIn(s, P) + CountIn(<<x>>, P)
  BY <1>1, CountConcat
<1>4. Append(s, x) \in Seq(E) /\ Len(Append(s, x)) = Len(s) + 1
  OBVIOUS
<1> QED
  BY <1>1, <1>2, <1>3, <1>4

\* So is one that is taken out.
LEMMA CountRemove ==
  ASSUME NEW E, NEW s \in Seq(E), NEW k \in DOMAIN s, NEW P
  PROVE  /\ RemoveAt(s, k) \in Seq(E) /\ Len(RemoveAt(s, k)) = Len(s) - 1
         /\ CountIn(s, P) = CountIn(RemoveAt(s, k), P) + (IF s[k] \in P THEN 1 ELSE 0)
<1> DEFINE front == SubSeq(s, 1, k - 1)
           back == SubSeq(s, k + 1, Len(s))
           upto == Append(front, s[k])
<1>1. k \in 1 .. Len(s) /\ Len(s) \in Nat /\ s[k] \in E
  OBVIOUS
<1>2. /\ front \in Seq(E) /\ Len(front) = k - 1
      /\ back \in Seq(E) /\ Len(back) = Len(s) - k
  BY <1>1
<1>3. s = upto \o back
  <2>1. upto \in Seq(E) /\ Len(upto) = k
    BY <1>1, <1>2
  <2>2. \A i \in 1 .. k - 1 : upto[i] = s[i]
    BY <1>1, <1>2
  <2>3. upto[k] = s[k]
    BY <1>1, <1>2
  <2>4. \A i \in 1 .. Len(s) - k : back[i] = s[k + i]
    BY <1>1
  <2> HIDE DEF front, back, upto
  <2>5. upto \o back \in Seq(E) /\ Len(upto \o back) = Len(s)
    BY <1>1, <1>2, <2>1
  <2>6. ASSUME NEW i \in 1 .. Len(s)
        PROVE  (upto \o back)[i] = s[i]
    <3>1. CASE i < k
      BY <1>1, <1>2, <2>1, <2>2, <3>1
    <3>2. CASE i = k
      BY <1>1, <1>2, <2>1, <2>3, <3>2
    <3>3. CASE i > k
      <4>1. (upto \o back)[i] = back[i - k] /\ i - k \in 1 .. Len(s) - k
        BY <1>1, <1>2, <2>1, <3>3
      <4>2. k + (i - k) = i
        BY <1>1
      <4> QED
        BY <2>4, <4>1, <4>2
    <3>4. i \in Int /\ k \in Int
      BY <1>1
    <3>5. i < k \/ i = k \/ i > k
      BY <3>4
    <3> QED
      BY <3>1, <3>2, <3>3, <3>5
  <2>7. DOMAIN (upto \o back) = 1 .. Len(s) /\ DOMAIN s = 1 .. Len(s)
    BY <1>1, <2>5
  <2> DEFINE t == upto \o back
  <2>8. t \in Seq(E) /\ Len(t) = Len(s) /\ DOMAIN t = DOMAIN s
    BY <2>5, <2>7
  <2>9. \A i \in DOMAIN s : t[i] = s[i]
    BY <2>6, <2>7
  <2> HIDE DEF t
  <2>10. t = s
    BY <2>8, <2>9, SeqEqual
  <2> QED
    BY <2>10 DEF t
<1>4. RemoveAt(s, k) = front \o back
  BY DEF RemoveAt
<1>5. /\ CountIn(upto, P) = CountIn(front, P) + (IF s[k] \in P THEN 1 ELSE 0)
      /\ upto \in Seq(E)
  <2> HIDE DEF front
  <2> QED
    BY <1>1, <1>2, CountAppend
<1> HIDE DEF front, back, upto
<1>6. CountIn(s, P) = CountIn(upto, P) + CountIn(back, P)
  BY <1>2, <1>3, <1>5, CountConcat
<1>7. CountIn(front \o back, P) = CountIn(front, P) + CountIn(back, P)
  BY <1>2, CountConcat
<1>8. CountIn(front, P) \in Nat /\ CountIn(back, P) \in Nat
  <2>1. CountIn(front, P) \in Nat
    BY <1>2, CountType
  <2>2. CountIn(back, P) \in Nat
    BY <1>2, CountType
  <2> QED
    BY <2>1, <2>2
<1>9. front \o back \in Seq(E) /\ Len(front \o back) = Len(s) - 1
  BY <1>1, <1>2
<1> QED
  BY <1>4, <1>5, <1>6, <1>7, <1>8, <1>9

(***************************************************************************)
(* The loop of classify.                                                   *)
(***************************************************************************)
\* A set of natural numbers has a least element.
LEMMA HasLeast ==
  ASSUME NEW S \in SUBSET Nat, S # {}
  PROVE  \E x \in S : \A y \in S : x <= y
<1>1. PICK x \in S : \A y \in S : ~(<<y, x>> \in OpToRel(<, Nat))
  BY NatLessThanWellFounded, WFMin
<1>2. \A y \in S : ~(y < x)
  BY <1>1 DEF OpToRel
<1> QED
  BY <1>2

\* A set with 0 and the successor of every number in it, up to m, has m.
LEMMA Reached ==
  ASSUME NEW m \in Nat, NEW T, 0 \in T, \A n \in 1 .. m : n - 1 \in T => n \in T
  PROVE  m \in T
<1> SUFFICES ASSUME (0 .. m) \ T # {}
             PROVE  FALSE
  OBVIOUS
<1>1. PICK n \in (0 .. m) \ T : \A k \in (0 .. m) \ T : n <= k
  <2> DEFINE S == (0 .. m) \ T
  <2>1. S \in SUBSET Nat /\ S # {}
    OBVIOUS
  <2> HIDE DEF S
  <2>2. \E n \in S : \A k \in S : n <= k
    BY <2>1, HasLeast
  <2> QED
    BY <2>2 DEF S
<1>2. n # 0 /\ n - 1 \in (0 .. m) /\ n - 1 \notin (0 .. m) \ T
  BY <1>1
<1> QED
  BY <1>1, <1>2

\* What is matched before the first finding.
Unmatched(previous) == [retained |-> <<>>, fresh |-> <<>>, left |-> previous]

\* Match takes the findings of the present review one by one.
LEMMA MatchDef ==
  ASSUME NEW current, NEW previous, Len(current) \in Nat
  PROVE  \E m : /\ m[0] = Unmatched(previous)
                /\ \A n \in 1 .. Len(current) : m[n] = TakeFirst(m[n - 1], current[n])
                /\ Match(current, previous) = m[Len(current)]
<1> DEFINE N == Len(current)
           Next_(g, n) == IF n = 0 THEN Unmatched(previous) ELSE TakeFirst(g[n - 1], current[n])
           Upto == {k \in 0 .. N : \E g : \A n \in 0 .. k : g[n] = Next_(g, n)}
<1>1. 0 \in Upto
  <2> DEFINE g == [n \in {0} |-> Unmatched(previous)]
  <2>1. \A n \in 0 .. 0 : g[n] = Next_(g, n)
    OBVIOUS
  <2>2. \E f : \A n \in 0 .. 0 : f[n] = Next_(f, n)
    BY <2>1
  <2> QED
    BY <2>2
<1>2. ASSUME NEW k \in 1 .. N, k - 1 \in Upto
      PROVE  k \in Upto
  <2>1. PICK g : \A n \in 0 .. k - 1 : g[n] = Next_(g, n)
    BY <1>2
  <2> DEFINE f == [n \in 0 .. k |-> IF n = k THEN TakeFirst(g[k - 1], current[k]) ELSE g[n]]
  <2>2. ASSUME NEW n \in 0 .. k
        PROVE  f[n] = Next_(f, n)
    <3>1. CASE n = k
      <4>1. f[k - 1] = g[k - 1] /\ f[k] = TakeFirst(g[k - 1], current[k]) /\ k # 0
        OBVIOUS
      <4> QED
        BY <3>1, <4>1
    <3>2. CASE n # k /\ n # 0
      <4>1. f[n] = g[n] /\ f[n - 1] = g[n - 1] /\ n \in 0 .. k - 1
        BY <3>2
      <4>2. g[n] = TakeFirst(g[n - 1], current[n])
        BY <2>1, <3>2, <4>1
      <4> QED
        BY <3>2, <4>1, <4>2
    <3>3. CASE n # k /\ n = 0
      BY <2>1, <3>3
    <3> QED
      BY <3>1, <3>2, <3>3
  <2>3. \E h : \A n \in 0 .. k : h[n] = Next_(h, n)
    BY <2>2
  <2> QED
    BY <2>3
<1>3. N \in Upto
  <2> HIDE DEF Upto
  <2> QED
    BY <1>1, <1>2, Reached
<1>4. PICK g : \A n \in 0 .. N : g[n] = Next_(g, n)
  BY <1>3
<1> DEFINE f == [n \in 0 .. N |-> g[n]]
           m == CHOOSE h : h = [n \in 0 .. N |-> Next_(h, n)]
<1>5. f = [n \in 0 .. N |-> Next_(f, n)]
  <2> SUFFICES ASSUME NEW n \in 0 .. N
               PROVE  f[n] = Next_(f, n)
    OBVIOUS
  <2>1. CASE n = 0
    BY <1>4, <2>1
  <2>2. CASE n # 0
    <3>1. f[n - 1] = g[n - 1] /\ f[n] = g[n]
      BY <2>2
    <3> QED
      BY <1>4, <2>2, <3>1
  <2> QED
    BY <2>1, <2>2
<1>6. m = [n \in 0 .. N |-> Next_(m, n)]
  <2> HIDE DEF f
  <2> QED
    BY <1>5
<1>7. Match(current, previous) = m[N]
  BY DEF Match, Unmatched
<1> HIDE DEF m, Next_
<1>8. \A n \in 0 .. N : m[n] = Next_(m, n)
  BY <1>6
<1> QED
  BY <1>7, <1>8 DEF Next_

\* The findings with a fingerprint.
Titled(x) == {f \in Findings : f.fingerprint = x}

\* How often a fingerprint occurs is how many such findings there are.
LEMMA TimesIs ==
  ASSUME NEW s \in Seq(Findings), NEW x
  PROVE  Times(s, x) = CountIn(s, Titled(x)) /\ Times(s, x) \in Nat
<1>1. \A i \in DOMAIN s : s[i] \in Findings
  OBVIOUS
<1>2. {i \in DOMAIN s : s[i].fingerprint = x} = Occurs(s, Titled(x))
  BY <1>1 DEF Occurs, Titled
<1> QED
  BY <1>2, CountType DEF Times, CountIn

Matches == [retained : Seq(Findings), fresh : Seq(Findings), left : Seq(Findings)]

One(finding, x) == IF finding.fingerprint = x THEN 1 ELSE 0

\* A finding is fresh if none of those left has its fingerprint, and else is retained, and
\* one of these is no longer left.
LEMMA TakeFirstFacts ==
  ASSUME NEW m \in Matches, NEW finding \in Findings
  PROVE  LET after == TakeFirst(m, finding)
         IN /\ after \in Matches
            /\ \/ /\ after.retained = m.retained /\ after.left = m.left
                  /\ after.fresh = Append(m.fresh, finding)
                  /\ Times(m.left, finding.fingerprint) = 0
               \/ /\ after.retained = Append(m.retained, finding) /\ after.fresh = m.fresh
                  /\ Len(after.left) = Len(m.left) - 1
                  /\ \A x : Times(m.left, x) = Times(after.left, x) + One(finding, x)
<1> DEFINE left == m.left
           same == {i \in DOMAIN left : left[i].fingerprint = finding.fingerprint}
           after == TakeFirst(m, finding)
<1>1. left \in Seq(Findings) /\ DOMAIN left = 1 .. Len(left)
  BY DEF Matches
<1>2. /\ Append(m.fresh, finding) \in Seq(Findings)
      /\ Append(m.retained, finding) \in Seq(Findings)
  BY DEF Matches
<1>3. CASE same = {}
  <2>1. after = [m EXCEPT !.fresh = Append(@, finding)]
    BY <1>3 DEF TakeFirst
  <2>2. /\ after \in Matches /\ after.retained = m.retained /\ after.left = m.left
        /\ after.fresh = Append(m.fresh, finding)
    BY <1>2, <2>1 DEF Matches
  <2>3. Times(left, finding.fingerprint) = 0
    BY <1>3, FS_EmptySet DEF Times
  <2> QED
    BY <2>2, <2>3
<1>4. CASE same # {}
  <2> DEFINE k == Min(same)
  <2>1. k \in same
    <3>1. same \in SUBSET Nat
      BY <1>1
    <3> HIDE DEF same
    <3>2. \E i \in same : \A j \in same : i <= j
      BY <1>4, <3>1, HasLeast
    <3> QED
      BY <3>2 DEF Min
  <2>2. k \in DOMAIN left /\ left[k].fingerprint = finding.fingerprint
    BY <2>1
  <2>3. after = [m EXCEPT !.left = RemoveAt(@, k), !.retained = Append(@, finding)]
    BY <1>4 DEF TakeFirst
  <2> HIDE DEF k, same
  <2>4. RemoveAt(left, k) \in Seq(Findings) /\ Len(RemoveAt(left, k)) = Len(left) - 1
    BY <1>1, <2>2, CountRemove
  <2>5. /\ after \in Matches /\ after.fresh = m.fresh
        /\ after.left = RemoveAt(left, k)
        /\ after.retained = Append(m.retained, finding)
    BY <1>2, <2>3, <2>4 DEF Matches
  <2>6. ASSUME NEW x
        PROVE  Times(left, x) = Times(RemoveAt(left, k), x) + One(finding, x)
    <3>1. left[k] \in Findings
      BY <1>1, <2>2
    <3>2. CountIn(left, Titled(x))
             = CountIn(RemoveAt(left, k), Titled(x)) + (IF left[k] \in Titled(x) THEN 1 ELSE 0)
      BY <1>1, <2>2, CountRemove
    <3>3. left[k] \in Titled(x) <=> finding.fingerprint = x
      BY <2>2, <3>1 DEF Titled
    <3>4. /\ Times(left, x) = CountIn(left, Titled(x))
          /\ Times(RemoveAt(left, k), x) = CountIn(RemoveAt(left, k), Titled(x))
      BY <1>1, <2>4, TimesIs
    <3> QED
      BY <3>2, <3>3, <3>4 DEF One
  <2> QED
    BY <2>4, <2>5, <2>6
<1> QED
  BY <1>3, <1>4

\* One finding more.
LEMMA AppendFacts ==
  ASSUME NEW s \in Seq(Findings), NEW finding \in Findings
  PROVE  /\ Append(s, finding) \in Seq(Findings) /\ Len(Append(s, finding)) = Len(s) + 1
         /\ \E j \in DOMAIN Append(s, finding) : Append(s, finding)[j] = finding
         /\ \A j \in DOMAIN s : /\ j \in DOMAIN Append(s, finding)
                                /\ Append(s, finding)[j] = s[j]
         /\ \A x : Times(Append(s, finding), x) = Times(s, x) + One(finding, x)
<1>1. Append(s, finding) \in Seq(Findings) /\ Len(Append(s, finding)) = Len(s) + 1
  OBVIOUS
<1>2. Len(s) + 1 \in DOMAIN Append(s, finding) /\ Append(s, finding)[Len(s) + 1] = finding
  OBVIOUS
<1>3. \A j \in DOMAIN s : j \in DOMAIN Append(s, finding) /\ Append(s, finding)[j] = s[j]
  OBVIOUS
<1>4. ASSUME NEW x
      PROVE  Times(Append(s, finding), x) = Times(s, x) + One(finding, x)
  <2>1. CountIn(Append(s, finding), Titled(x))
             = CountIn(s, Titled(x)) + (IF finding \in Titled(x) THEN 1 ELSE 0)
    BY CountAppend
  <2>2. finding \in Titled(x) <=> finding.fingerprint = x
    BY DEF Titled
  <2>3. /\ Times(s, x) = CountIn(s, Titled(x))
        /\ Times(Append(s, finding), x) = CountIn(Append(s, finding), Titled(x))
    BY <1>1, TimesIs
  <2> QED
    BY <2>1, <2>2, <2>3 DEF One
<1> QED
  BY <1>1, <1>2, <1>3, <1>4

\* The first n findings are the first n - 1 and the n-th.
LEMMA PrefixNext ==
  ASSUME NEW s \in Seq(Findings), NEW n \in 1 .. Len(s)
  PROVE  /\ s[n] \in Findings
         /\ SubSeq(s, 1, n - 1) \in Seq(Findings)
         /\ SubSeq(s, 1, n) = Append(SubSeq(s, 1, n - 1), s[n])
<1> DEFINE S(k) == SubSeq(s, 1, k)
           finding == s[n]
<1>n. n \in Nat /\ n >= 1 /\ n <= Len(s) /\ finding \in Findings /\ Len(s) \in Nat
  OBVIOUS
<1>1. /\ S(n) \in Seq(Findings) /\ Len(S(n)) = n
      /\ S(n - 1) \in Seq(Findings) /\ Len(S(n - 1)) = n - 1
  BY <1>n
<1>2. Append(S(n - 1), finding) \in Seq(Findings) /\ Len(Append(S(n - 1), finding)) = n
  <2> HIDE DEF S, finding
  <2> QED
    BY <1>n, <1>1
<1>3. ASSUME NEW i \in 1 .. n
      PROVE  S(n)[i] = Append(S(n - 1), finding)[i]
  <2>1. S(n)[i] = s[i] /\ (i < n => S(n - 1)[i] = s[i])
    BY <1>n
  <2> HIDE DEF S
  <2>2. CASE i < n
    BY <1>n, <1>1, <2>1, <2>2
  <2>3. CASE i = n
    BY <1>n, <1>1, <2>1, <2>3
  <2>4. i < n \/ i = n
    BY <1>n
  <2> QED
    BY <2>2, <2>3, <2>4
<1> HIDE DEF S, finding
<1>4. S(n) = Append(S(n - 1), finding)
  BY <1>1, <1>2, <1>3, SeqEqual
<1> QED
  BY <1>n, <1>1, <1>4 DEF S, finding

\* What is matched of the first n findings: all of them and all previous ones are in one
\* place, and no fingerprint is left on both sides.
Matched(retained, left, fresh, current, previous, n) ==
    /\ retained \in Seq(Findings) /\ left \in Seq(Findings) /\ fresh \in Seq(Findings)
    /\ Len(retained) + Len(left) = Len(previous)
    /\ Len(retained) + Len(fresh) = n
    /\ \A x :
        /\ Times(retained, x) + Times(left, x) = Times(previous, x)
        /\ Times(retained, x) + Times(fresh, x) = Times(SubSeq(current, 1, n), x)
        /\ Times(left, x) = 0 \/ Times(fresh, x) = 0
    /\ \A i \in 1 .. n : \/ \E j \in DOMAIN retained : retained[j] = current[i]
                         \/ \E j \in DOMAIN fresh : fresh[j] = current[i]

\* A finding with a fingerprint that none of those left has keeps it so.
LEMMA MatchFresh ==
  ASSUME NEW current \in Seq(Findings), NEW previous \in Seq(Findings),
         NEW n \in 1 .. Len(current), NEW retained, NEW left, NEW fresh,
         Matched(retained, left, fresh, current, previous, n - 1),
         Times(left, current[n].fingerprint) = 0
  PROVE  Matched(retained, left, Append(fresh, current[n]), current, previous, n)
<1> DEFINE finding == current[n]
           after == Append(fresh, finding)
           S(k) == SubSeq(current, 1, k)
<1>m. retained \in Seq(Findings) /\ left \in Seq(Findings) /\ fresh \in Seq(Findings)
  BY DEF Matched
<1>n. /\ n \in Nat /\ Len(retained) \in Nat /\ Len(left) \in Nat /\ Len(fresh) \in Nat
      /\ Len(retained) + Len(left) = Len(previous) /\ Len(retained) + Len(fresh) = n - 1
      /\ \A i \in 1 .. n : i \in 1 .. n - 1 \/ i = n
  BY <1>m DEF Matched
<1>1. finding \in Findings /\ S(n - 1) \in Seq(Findings) /\ S(n) = Append(S(n - 1), finding)
  BY PrefixNext
<1>2. /\ after \in Seq(Findings) /\ Len(after) = Len(fresh) + 1
      /\ \E j \in DOMAIN after : after[j] = finding
      /\ \A j \in DOMAIN fresh : j \in DOMAIN after /\ after[j] = fresh[j]
      /\ \A x : Times(after, x) = Times(fresh, x) + One(finding, x)
  BY <1>1, <1>m, AppendFacts
<1>3. \A x : Times(S(n), x) = Times(S(n - 1), x) + One(finding, x)
  <2> HIDE DEF S, finding
  <2> QED
    BY <1>1, AppendFacts
<1>4. Times(left, finding.fingerprint) = 0
  OBVIOUS
<1>5. finding = current[n] /\ S(n) = SubSeq(current, 1, n)
  OBVIOUS
<1>6. /\ \A x : /\ Times(retained, x) + Times(left, x) = Times(previous, x)
                /\ Times(retained, x) + Times(fresh, x) = Times(S(n - 1), x)
                /\ Times(left, x) = 0 \/ Times(fresh, x) = 0
      /\ \A i \in 1 .. n - 1 : \/ \E j \in DOMAIN retained : retained[j] = current[i]
                              \/ \E j \in DOMAIN fresh : fresh[j] = current[i]
  BY DEF Matched
<1> HIDE DEF S, finding, after
<1>7. ASSUME NEW x
      PROVE  /\ Times(retained, x) + Times(after, x) = Times(S(n), x)
             /\ Times(left, x) = 0 \/ Times(after, x) = 0
  <2>1. /\ Times(after, x) = Times(fresh, x) + One(finding, x)
        /\ Times(S(n), x) = Times(S(n - 1), x) + One(finding, x)
        /\ Times(retained, x) + Times(fresh, x) = Times(S(n - 1), x)
        /\ Times(left, x) = 0 \/ Times(fresh, x) = 0
    BY <1>2, <1>3, <1>6
  <2>2. /\ Times(retained, x) \in Nat /\ Times(fresh, x) \in Nat
        /\ Times(left, x) \in Nat /\ Times(S(n - 1), x) \in Nat
    BY <1>1, <1>m, TimesIs
  <2>3. One(finding, x) \in Nat /\ (One(finding, x) = 0 \/ finding.fingerprint = x)
    BY DEF One
  <2>4. Times(left, x) = 0 \/ One(finding, x) = 0
    BY <1>4, <2>3
  <2>5. Times(retained, x) + Times(after, x) = Times(S(n), x)
    BY <2>1, <2>2, <2>3
  <2>6. Times(left, x) = 0 \/ Times(after, x) = 0
    BY <2>1, <2>2, <2>3, <2>4
  <2> QED
    BY <2>5, <2>6
<1>8. \A i \in 1 .. n : \/ \E j \in DOMAIN retained : retained[j] = current[i]
                       \/ \E j \in DOMAIN after : after[j] = current[i]
  <2>1. \A i \in 1 .. n - 1 : \/ \E j \in DOMAIN retained : retained[j] = current[i]
                              \/ \E j \in DOMAIN after : after[j] = current[i]
    BY <1>2, <1>6
  <2>2. \E j \in DOMAIN after : after[j] = current[n]
    BY <1>2, <1>5
  <2> QED
    BY <1>n, <2>1, <2>2
<1>9. Len(retained) + Len(after) = n
  BY <1>2, <1>n
<1> QED
  BY <1>2, <1>5, <1>6, <1>7, <1>8, <1>9, <1>m, <1>n DEF Matched, after, finding

\* So does one that takes a finding from those left.
LEMMA MatchRetained ==
  ASSUME NEW current \in Seq(Findings), NEW previous \in Seq(Findings),
         NEW n \in 1 .. Len(current), NEW retained, NEW left, NEW fresh,
         Matched(retained, left, fresh, current, previous, n - 1),
         NEW rest \in Seq(Findings), Len(rest) = Len(left) - 1,
         \A x : Times(left, x) = Times(rest, x) + One(current[n], x)
  PROVE  Matched(Append(retained, current[n]), rest, fresh, current, previous, n)
<1> DEFINE finding == current[n]
           after == Append(retained, finding)
           S(k) == SubSeq(current, 1, k)
<1>m. retained \in Seq(Findings) /\ left \in Seq(Findings) /\ fresh \in Seq(Findings)
  BY DEF Matched
<1>n. /\ n \in Nat /\ Len(retained) \in Nat /\ Len(left) \in Nat /\ Len(fresh) \in Nat
      /\ Len(rest) \in Nat
      /\ Len(retained) + Len(left) = Len(previous) /\ Len(retained) + Len(fresh) = n - 1
      /\ \A i \in 1 .. n : i \in 1 .. n - 1 \/ i = n
  BY <1>m DEF Matched
<1>1. finding \in Findings /\ S(n - 1) \in Seq(Findings) /\ S(n) = Append(S(n - 1), finding)
  BY PrefixNext
<1>2. /\ after \in Seq(Findings) /\ Len(after) = Len(retained) + 1
      /\ \E j \in DOMAIN after : after[j] = finding
      /\ \A j \in DOMAIN retained : j \in DOMAIN after /\ after[j] = retained[j]
      /\ \A x : Times(after, x) = Times(retained, x) + One(finding, x)
  BY <1>1, <1>m, AppendFacts
<1>3. \A x : Times(S(n), x) = Times(S(n - 1), x) + One(finding, x)
  <2> HIDE DEF S, finding
  <2> QED
    BY <1>1, AppendFacts
<1>4. \A x : Times(left, x) = Times(rest, x) + One(finding, x)
  OBVIOUS
<1>5. finding = current[n] /\ S(n) = SubSeq(current, 1, n)
  OBVIOUS
<1>6. /\ \A x : /\ Times(retained, x) + Times(left, x) = Times(previous, x)
                /\ Times(retained, x) + Times(fresh, x) = Times(S(n - 1), x)
                /\ Times(left, x) = 0 \/ Times(fresh, x) = 0
      /\ \A i \in 1 .. n - 1 : \/ \E j \in DOMAIN retained : retained[j] = current[i]
                              \/ \E j \in DOMAIN fresh : fresh[j] = current[i]
  BY DEF Matched
<1> HIDE DEF S, finding, after
<1>7. ASSUME NEW x
      PROVE  /\ Times(after, x) + Times(rest, x) = Times(previous, x)
             /\ Times(after, x) + Times(fresh, x) = Times(S(n), x)
             /\ Times(rest, x) = 0 \/ Times(fresh, x) = 0
  <2>1. /\ Times(after, x) = Times(retained, x) + One(finding, x)
        /\ Times(S(n), x) = Times(S(n - 1), x) + One(finding, x)
        /\ Times(left, x) = Times(rest, x) + One(finding, x)
        /\ Times(retained, x) + Times(left, x) = Times(previous, x)
        /\ Times(retained, x) + Times(fresh, x) = Times(S(n - 1), x)
        /\ Times(left, x) = 0 \/ Times(fresh, x) = 0
    BY <1>2, <1>3, <1>4, <1>6
  <2>2. /\ Times(retained, x) \in Nat /\ Times(fresh, x) \in Nat /\ Times(rest, x) \in Nat
        /\ Times(left, x) \in Nat /\ Times(S(n - 1), x) \in Nat
    BY <1>1, <1>m, TimesIs
  <2>3. One(finding, x) \in Nat
    BY DEF One
  <2>4. Times(after, x) + Times(rest, x) = Times(previous, x)
    BY <2>1, <2>2, <2>3
  <2>5. Times(after, x) + Times(fresh, x) = Times(S(n), x)
    BY <2>1, <2>2, <2>3
  <2>6. Times(rest, x) = 0 \/ Times(fresh, x) = 0
    <3>1. ASSUME Times(left, x) = 0
          PROVE  Times(rest, x) = 0
      BY <2>1, <2>2, <2>3, <3>1
    <3> QED
      BY <2>1, <3>1
  <2> QED
    BY <2>4, <2>5, <2>6
<1>8. \A i \in 1 .. n : \/ \E j \in DOMAIN after : after[j] = current[i]
                       \/ \E j \in DOMAIN fresh : fresh[j] = current[i]
  <2>1. \A i \in 1 .. n - 1 : \/ \E j \in DOMAIN after : after[j] = current[i]
                              \/ \E j \in DOMAIN fresh : fresh[j] = current[i]
    BY <1>2, <1>6
  <2>2. \E j \in DOMAIN after : after[j] = current[n]
    BY <1>2, <1>5
  <2> QED
    BY <1>n, <2>1, <2>2
<1>9. Len(after) + Len(fresh) = n /\ Len(after) + Len(rest) = Len(previous)
  <2>1. Len(after) = Len(retained) + 1 /\ Len(rest) = Len(left) - 1
    BY <1>2
  <2>2. Len(after) + Len(fresh) = n
    BY <1>n, <2>1
  <2>3. Len(after) + Len(rest) = Len(previous)
    <3>1. (Len(retained) + 1) + (Len(left) - 1) = Len(previous)
      BY <1>n
    <3> QED
      BY <2>1, <3>1, Zenon
  <2> QED
    BY <2>2, <2>3
<1> QED
  BY <1>2, <1>5, <1>7, <1>8, <1>9, <1>m DEF Matched, after, finding

\* All findings are matched in the end.
LEMMA MatchFacts ==
  ASSUME NEW current \in Seq(Findings), NEW previous \in Seq(Findings)
  PROVE  LET match == Match(current, previous)
         IN Matched(match.retained, match.left, match.fresh, current, previous, Len(current))
<1>n. Len(current) \in Nat
  OBVIOUS
<1>1. PICK m : /\ m[0] = Unmatched(previous)
               /\ \A n \in 1 .. Len(current) : m[n] = TakeFirst(m[n - 1], current[n])
               /\ Match(current, previous) = m[Len(current)]
  BY <1>n, MatchDef
<1> DEFINE All(k, n) == Matched(k.retained, k.left, k.fresh, current, previous, n)
           T == {n \in 0 .. Len(current) : m[n] \in Matches /\ All(m[n], n)}
<1>2. 0 \in T
  <2> DEFINE u == Unmatched(previous)
  <2>1. u.retained = <<>> /\ u.fresh = <<>> /\ u.left = previous /\ u \in Matches
    BY DEF Unmatched, Matches
  <2>2. SubSeq(current, 1, 0) = <<>>
    OBVIOUS
  <2>3. \A x : Times(<<>>, x) = 0
    <3>1. \A x : {i \in DOMAIN <<>> : <<>>[i].fingerprint = x} = {}
      OBVIOUS
    <3> QED
      BY <3>1, FS_EmptySet DEF Times
  <2>4. \A x : Times(previous, x) \in Nat
    BY TimesIs
  <2>5. Len(previous) \in Nat /\ Len(<<>>) = 0 /\ <<>> \in Seq(Findings)
    OBVIOUS
  <2>6. Matched(<<>>, previous, <<>>, current, previous, 0)
    <3>1. Len(<<>>) + Len(previous) = Len(previous) /\ Len(<<>>) + Len(<<>>) = 0
      BY <2>5
    <3>2. ASSUME NEW x
          PROVE  /\ Times(<<>>, x) + Times(previous, x) = Times(previous, x)
                 /\ Times(<<>>, x) + Times(<<>>, x) = Times(SubSeq(current, 1, 0), x)
                 /\ Times(previous, x) = 0 \/ Times(<<>>, x) = 0
      <4>1. Times(<<>>, x) = 0 /\ Times(SubSeq(current, 1, 0), x) = 0
        BY <2>2, <2>3
      <4>2. Times(previous, x) \in Nat
        BY <2>4
      <4> QED
        BY <4>1, <4>2
    <3>3. \A i \in 1 .. 0 : FALSE
      OBVIOUS
    <3> QED
      BY <2>5, <3>1, <3>2, <3>3 DEF Matched
  <2> HIDE DEF u
  <2>7. All(u, 0)
    BY <2>1, <2>6
  <2> QED
    BY <1>1, <1>n, <2>1, <2>7 DEF u
<1>3. ASSUME NEW n \in 1 .. Len(current), n - 1 \in T
      PROVE  n \in T
  <2> DEFINE k == m[n - 1]
             after == TakeFirst(k, current[n])
  <2>1. k \in Matches /\ All(k, n - 1)
    BY <1>3
  <2>2. current[n] \in Findings /\ n \in 0 .. Len(current)
    OBVIOUS
  <2>3. /\ after \in Matches
        /\ \/ /\ after.retained = k.retained /\ after.left = k.left
              /\ after.fresh = Append(k.fresh, current[n])
              /\ Times(k.left, current[n].fingerprint) = 0
           \/ /\ after.retained = Append(k.retained, current[n]) /\ after.fresh = k.fresh
              /\ Len(after.left) = Len(k.left) - 1
              /\ \A x : Times(k.left, x) = Times(after.left, x) + One(current[n], x)
    BY <2>1, <2>2, TakeFirstFacts
  <2>4. m[n] = after
    BY <1>1
  <2> HIDE DEF k, after
  <2>5. after.left \in Seq(Findings)
    BY <2>3 DEF Matches
  <2>6. All(after, n)
    <3>1. CASE /\ after.retained = k.retained /\ after.left = k.left
               /\ after.fresh = Append(k.fresh, current[n])
               /\ Times(k.left, current[n].fingerprint) = 0
      <4>1. Matched(k.retained, k.left, Append(k.fresh, current[n]), current, previous, n)
        BY <2>1, <3>1, MatchFresh
      <4> QED
        BY <3>1, <4>1
    <3>2. CASE /\ after.retained = Append(k.retained, current[n]) /\ after.fresh = k.fresh
               /\ Len(after.left) = Len(k.left) - 1
               /\ \A x : Times(k.left, x) = Times(after.left, x) + One(current[n], x)
      <4>1. Matched(Append(k.retained, current[n]), after.left, k.fresh, current, previous, n)
        BY <2>1, <2>5, <3>2, MatchRetained
      <4> QED
        BY <3>2, <4>1
    <3> QED
      BY <2>3, <3>1, <3>2
  <2> QED
    BY <2>2, <2>3, <2>4, <2>6
<1>4. Len(current) \in T
  <2> HIDE DEF T
  <2> QED
    BY <1>2, <1>3, <1>n, Reached
<1> QED
  BY <1>1, <1>4

(***************************************************************************)
(* The events of a file.                                                   *)
(***************************************************************************)
Statuses == {"stale", "retained", "replaced", "no_longer_reported", "new"}

Events == [status : Statuses, finding : Findings,
           previous : Fingerprints \union {NoFingerprint}]

WithStatus(status) == {e \in Events : e.status = status}

\* The events of one status about a sequence of findings.
AllOf(events, status, s) ==
    /\ events \in Seq(Events) /\ Len(events) = Len(s)
    /\ \A i \in DOMAIN events : events[i].status = status /\ events[i].finding = s[i]

\* An element occurs in a sequence; events tell of a finding; how many of them have a
\* status, and how many of these a fingerprint.
Has(s, e) == \E i \in DOMAIN s : s[i] = e
About(events, g) == \E i \in DOMAIN events : events[i].finding = g
OfStatus(events, status) == CountIn(events, WithStatus(status))
OfTitle(events, status, x) ==
    CountIn(events, {e \in WithStatus(status) : e.finding.fingerprint = x})

\* They are as many, all of that status and none of another, and about the same findings.
LEMMA AllOfFacts ==
  ASSUME NEW s \in Seq(Findings), NEW status, NEW events, AllOf(events, status, s)
  PROVE  /\ events \in Seq(Events) /\ Len(events) = Len(s)
         /\ OfStatus(events, status) = Len(s)
         /\ \A other : other # status => OfStatus(events, other) = 0
         /\ \A g : Has(s, g) => About(events, g)
         /\ \A x : OfTitle(events, status, x) = Times(s, x)
         /\ \A other, x : other # status => OfTitle(events, other, x) = 0
<1>1. /\ events \in Seq(Events) /\ Len(events) = Len(s)
      /\ \A i \in DOMAIN events : events[i].status = status /\ events[i].finding = s[i]
  BY DEF AllOf
<1>2. \A i \in DOMAIN events : events[i] \in Events
  BY <1>1
<1>3. DOMAIN events = DOMAIN s
  BY <1>1
<1>4. OfStatus(events, status) = Len(s)
  <2>1. \A i \in DOMAIN events : events[i] \in WithStatus(status)
    BY <1>1, <1>2 DEF WithStatus
  <2> QED
    BY <1>1, <2>1, CountType DEF OfStatus
<1>5. ASSUME NEW other, other # status
      PROVE  OfStatus(events, other) = 0
  <2>1. \A i \in DOMAIN events : events[i] \notin WithStatus(other)
    BY <1>1, <1>5 DEF WithStatus
  <2> QED
    BY <1>1, <2>1, CountType DEF OfStatus
<1>6. \A g : Has(s, g) => About(events, g)
  BY <1>1, <1>3 DEF Has, About
<1>7. ASSUME NEW x
      PROVE  OfTitle(events, status, x) = Times(s, x)
  <2>1. Occurs(events, {e \in WithStatus(status) : e.finding.fingerprint = x})
          = {i \in DOMAIN s : s[i].fingerprint = x}
    BY <1>1, <1>2, <1>3 DEF Occurs, WithStatus
  <2> QED
    BY <2>1 DEF CountIn, Times, OfTitle
<1>8. ASSUME NEW other, NEW x, other # status
      PROVE  OfTitle(events, other, x) = 0
  <2>1. \A i \in DOMAIN events :
          events[i] \notin {e \in WithStatus(other) : e.finding.fingerprint = x}
    BY <1>1, <1>8 DEF WithStatus
  <2> QED
    BY <1>1, <2>1, CountType DEF OfTitle
<1> QED
  BY <1>1, <1>4, <1>5, <1>6, <1>7, <1>8

\* What two sequences hold together.
LEMMA ConcatHas ==
  ASSUME NEW E, NEW s \in Seq(E), NEW t \in Seq(E), NEW both, both = s \o t
  PROVE  /\ both \in Seq(E) /\ Len(both) = Len(s) + Len(t)
         /\ \A e : Has(s, e) \/ Has(t, e) => Has(both, e)
         /\ \A g : About(s, g) \/ About(t, g) => About(both, g)
         /\ \A Q : CountIn(both, Q) = CountIn(s, Q) + CountIn(t, Q)
<1>1. both \in Seq(E) /\ Len(both) = Len(s) + Len(t)
  OBVIOUS
<1>2. \A i \in DOMAIN s : i \in DOMAIN both /\ both[i] = s[i]
  OBVIOUS
<1>3. \A i \in DOMAIN t : Len(s) + i \in DOMAIN both /\ both[Len(s) + i] = t[i]
  OBVIOUS
<1>4. \A Q : CountIn(both, Q) = CountIn(s, Q) + CountIn(t, Q)
  BY CountConcat
<1>5. \A e : Has(s, e) \/ Has(t, e) => Has(both, e)
  BY <1>2, <1>3 DEF Has
<1>6. \A g : About(s, g) \/ About(t, g) => About(both, g)
  BY <1>2, <1>3 DEF About
<1> QED
  BY <1>1, <1>4, <1>5, <1>6

Together(R, P, G, N) == R \o P \o G \o N

Adds(told, R, P, G, N) ==
    /\ Len(told) = Len(R) + Len(P) + Len(G) + Len(N)
    /\ \A Q : CountIn(told, Q) = CountIn(R, Q) + CountIn(P, Q) + CountIn(G, Q) + CountIn(N, Q)

\* What four sequences hold together.
LEMMA Joined ==
  ASSUME NEW E, NEW R \in Seq(E), NEW P \in Seq(E), NEW G \in Seq(E), NEW N \in Seq(E),
         NEW told, told = Together(R, P, G, N)
  PROVE  /\ told \in Seq(E) /\ Adds(told, R, P, G, N)
         /\ \A g : About(R, g) \/ About(P, g) \/ About(N, g) => About(told, g)
<1> DEFINE RP == R \o P
           RPG == RP \o G
<1>0. RP = R \o P /\ RPG = RP \o G /\ told = RPG \o N
  BY DEF Together
<1> HIDE DEF RP, RPG
<1>1. /\ RP \in Seq(E) /\ Len(RP) = Len(R) + Len(P)
      /\ \A g : About(R, g) \/ About(P, g) => About(RP, g)
      /\ \A Q : CountIn(RP, Q) = CountIn(R, Q) + CountIn(P, Q)
  <2>1. RP \in Seq(E) /\ Len(RP) = Len(R) + Len(P)
    BY <1>0, ConcatHas
  <2>2. \A g : About(R, g) \/ About(P, g) => About(RP, g)
    BY <1>0, ConcatHas
  <2>3. \A Q : CountIn(RP, Q) = CountIn(R, Q) + CountIn(P, Q)
    <3>1. \A Q : CountIn(R \o P, Q) = CountIn(R, Q) + CountIn(P, Q)
      BY CountConcat
    <3> QED
      BY <1>0, <3>1, Zenon
  <2> QED
    BY <2>1, <2>2, <2>3
<1>2. /\ RPG \in Seq(E) /\ Len(RPG) = Len(RP) + Len(G)
      /\ \A g : About(RP, g) \/ About(G, g) => About(RPG, g)
      /\ \A Q : CountIn(RPG, Q) = CountIn(RP, Q) + CountIn(G, Q)
  <2>1. RPG \in Seq(E) /\ Len(RPG) = Len(RP) + Len(G)
    BY <1>0, <1>1, ConcatHas
  <2>2. \A g : About(RP, g) \/ About(G, g) => About(RPG, g)
    BY <1>0, <1>1, ConcatHas
  <2>3. \A Q : CountIn(RPG, Q) = CountIn(RP, Q) + CountIn(G, Q)
    <3>1. \A Q : CountIn(RP \o G, Q) = CountIn(RP, Q) + CountIn(G, Q)
      BY <1>1, CountConcat
    <3> QED
      BY <1>0, <3>1, Zenon
  <2> QED
    BY <2>1, <2>2, <2>3
<1>3. /\ told \in Seq(E) /\ Len(told) = Len(RPG) + Len(N)
      /\ \A g : About(RPG, g) \/ About(N, g) => About(told, g)
      /\ \A Q : CountIn(told, Q) = CountIn(RPG, Q) + CountIn(N, Q)
  <2>1. told \in Seq(E) /\ Len(told) = Len(RPG) + Len(N)
    BY <1>0, <1>2, ConcatHas
  <2>2. \A g : About(RPG, g) \/ About(N, g) => About(told, g)
    BY <1>0, <1>2, ConcatHas
  <2>3. \A Q : CountIn(told, Q) = CountIn(RPG, Q) + CountIn(N, Q)
    <3>1. \A Q : CountIn(RPG \o N, Q) = CountIn(RPG, Q) + CountIn(N, Q)
      BY <1>2, CountConcat
    <3> QED
      BY <1>0, <3>1, Zenon
  <2> QED
    BY <2>1, <2>2, <2>3
<1>4. Len(told) = Len(R) + Len(P) + Len(G) + Len(N)
  BY <1>1, <1>2, <1>3, Zenon
<1>5. \A g : About(R, g) \/ About(P, g) \/ About(N, g) => About(told, g)
  BY <1>1, <1>2, <1>3, Zenon
<1>6. \A Q : CountIn(told, Q) = CountIn(R, Q) + CountIn(P, Q) + CountIn(G, Q) + CountIn(N, Q)
  BY <1>1, <1>2, <1>3, Zenon
<1> QED
  BY <1>3, <1>4, <1>5, <1>6 DEF Adds

\* What Related says of a file, by what is matched of its findings.
LEMMA RelatedFacts ==
  ASSUME NEW current \in Seq(Findings), NEW previous \in Seq(Findings)
  PROVE  LET told == Related(current, previous)
             match == Match(current, previous)
             n == Smaller(Len(match.left), Len(match.fresh))
         IN /\ told \in Seq(Events)
            /\ Len(told) <= Len(current) + Len(previous)
            /\ \A i \in DOMAIN current : About(told, current[i])
            /\ OfStatus(told, "retained") = Len(match.retained)
            /\ OfStatus(told, "replaced") = n
            /\ OfStatus(told, "no_longer_reported") = Len(match.left) - n
            /\ OfStatus(told, "new") = Len(match.fresh) - n
            /\ \A x : OfTitle(told, "retained", x) = Times(match.retained, x)
<1> DEFINE match == Match(current, previous)
           r == match.retained
           l == match.left
           f == match.fresh
           n == Smaller(Len(l), Len(f))
           gone == SubSeq(l, n + 1, Len(l))
           new == SubSeq(f, n + 1, Len(f))
           paired == SubSeq(f, 1, n)
           R == [i \in DOMAIN r |-> Event("retained", r[i], r[i].fingerprint)]
           P == [i \in 1 .. n |-> Event("replaced", f[i], l[i].fingerprint)]
           G == [i \in DOMAIN gone |-> Event("no_longer_reported", gone[i], gone[i].fingerprint)]
           N == [i \in DOMAIN new |-> Event("new", new[i], NoFingerprint)]
<1>1. Related(current, previous) = R \o P \o G \o N
  BY DEF Related
<1>2. Matched(r, l, f, current, previous, Len(current))
  BY MatchFacts
<1> HIDE DEF r, l, f
<1>3. /\ r \in Seq(Findings) /\ l \in Seq(Findings) /\ f \in Seq(Findings)
      /\ Len(r) + Len(l) = Len(previous) /\ Len(r) + Len(f) = Len(current)
      /\ \A i \in 1 .. Len(current) : \/ \E j \in DOMAIN r : r[j] = current[i]
                                      \/ \E j \in DOMAIN f : f[j] = current[i]
  BY <1>2 DEF Matched
<1>4. /\ Len(r) \in Nat /\ Len(l) \in Nat /\ Len(f) \in Nat
      /\ n \in Nat /\ n <= Len(l) /\ n <= Len(f)
  BY <1>3 DEF Smaller
<1> HIDE DEF n
<1>5. /\ gone \in Seq(Findings) /\ Len(gone) = Len(l) - n
      /\ new \in Seq(Findings) /\ Len(new) = Len(f) - n
      /\ paired \in Seq(Findings) /\ Len(paired) = n
      /\ \A i \in 1 .. n : paired[i] = f[i]
      /\ \A i \in 1 .. Len(f) - n : new[i] = f[n + i]
  <2>1. gone \in Seq(Findings) /\ Len(gone) = Len(l) - n
    BY <1>3, <1>4
  <2>2. new \in Seq(Findings) /\ Len(new) = Len(f) - n
    BY <1>3, <1>4
  <2>3. paired \in Seq(Findings) /\ Len(paired) = n
    BY <1>3, <1>4
  <2>4. \A i \in 1 .. n : paired[i] = f[i]
    BY <1>3, <1>4
  <2>5. \A i \in 1 .. Len(f) - n : new[i] = f[n + i]
    BY <1>3, <1>4
  <2> QED
    BY <2>1, <2>2, <2>3, <2>4, <2>5
<1> HIDE DEF gone, new, paired
<1>f. \A g \in Findings : g.fingerprint \in Fingerprints \union {NoFingerprint}
  BY DEF Findings
<1>6. AllOf(R, "retained", r)
  <2>1. \A i \in 1 .. Len(r) : Event("retained", r[i], r[i].fingerprint) \in Events
    BY <1>3, <1>f DEF Event, Events, Statuses
  <2>2. DOMAIN r = 1 .. Len(r)
    BY <1>3
  <2>3. R \in Seq(Events) /\ Len(R) = Len(r)
    BY <1>4, <2>1, <2>2
  <2>4. \A i \in DOMAIN R : R[i].status = "retained" /\ R[i].finding = r[i]
    BY DEF Event
  <2> HIDE DEF R
  <2> QED
    BY <2>3, <2>4 DEF AllOf
<1>7. AllOf(P, "replaced", paired)
  <2>1. \A i \in 1 .. n : f[i] \in Findings /\ l[i] \in Findings
    BY <1>3, <1>4
  <2>2. \A i \in 1 .. n : Event("replaced", f[i], l[i].fingerprint) \in Events
    BY <1>f, <2>1 DEF Event, Events, Statuses
  <2>3. P \in Seq(Events) /\ Len(P) = n
    BY <1>4, <2>2
  <2>4. \A i \in 1 .. n : P[i].status = "replaced" /\ P[i].finding = f[i]
    BY DEF Event
  <2>5. DOMAIN P = 1 .. n
    OBVIOUS
  <2> HIDE DEF P
  <2> QED
    BY <1>5, <2>3, <2>4, <2>5 DEF AllOf
<1>8. AllOf(G, "no_longer_reported", gone)
  <2>1. \A i \in 1 .. Len(gone) :
          Event("no_longer_reported", gone[i], gone[i].fingerprint) \in Events
    BY <1>5, <1>f DEF Event, Events, Statuses
  <2>2. DOMAIN gone = 1 .. Len(gone) /\ Len(gone) \in Nat
    BY <1>5
  <2>3. G \in Seq(Events) /\ Len(G) = Len(gone)
    BY <2>1, <2>2
  <2>4. \A i \in DOMAIN G : G[i].status = "no_longer_reported" /\ G[i].finding = gone[i]
    BY DEF Event
  <2> HIDE DEF G
  <2> QED
    BY <2>3, <2>4 DEF AllOf
<1>9. AllOf(N, "new", new)
  <2>1. \A i \in 1 .. Len(new) : Event("new", new[i], NoFingerprint) \in Events
    BY <1>5 DEF Event, Events, Statuses
  <2>2. DOMAIN new = 1 .. Len(new) /\ Len(new) \in Nat
    BY <1>5
  <2>3. N \in Seq(Events) /\ Len(N) = Len(new)
    BY <2>1, <2>2
  <2>4. \A i \in DOMAIN N : N[i].status = "new" /\ N[i].finding = new[i]
    BY DEF Event
  <2> HIDE DEF N
  <2> QED
    BY <2>3, <2>4 DEF AllOf
<1> HIDE DEF R, P, G, N
<1>10. /\ R \in Seq(Events) /\ P \in Seq(Events) /\ G \in Seq(Events) /\ N \in Seq(Events)
       /\ Len(R) = Len(r) /\ Len(P) = n /\ Len(G) = Len(l) - n /\ Len(N) = Len(f) - n
  BY <1>5, <1>6, <1>7, <1>8, <1>9 DEF AllOf
<1> DEFINE told == R \o P \o G \o N
<1>11. told = Together(R, P, G, N) /\ told = Related(current, previous)
  BY <1>1 DEF Together
<1> HIDE DEF told
<1>12. /\ told \in Seq(Events) /\ Len(told) = Len(R) + Len(P) + Len(G) + Len(N)
       /\ \A g : About(R, g) \/ About(P, g) \/ About(N, g) => About(told, g)
       /\ \A Q : CountIn(told, Q)
                   = CountIn(R, Q) + CountIn(P, Q) + CountIn(G, Q) + CountIn(N, Q)
  <2>1. told \in Seq(Events) /\ Adds(told, R, P, G, N)
    BY <1>10, <1>11, Joined
  <2>2. \A g : About(R, g) \/ About(P, g) \/ About(N, g) => About(told, g)
    BY <1>10, <1>11, Joined
  <2> QED
    BY <2>1, <2>2 DEF Adds
<1>r. /\ OfStatus(R, "retained") = Len(r)
      /\ \A other : other # "retained" => OfStatus(R, other) = 0
      /\ \A g : Has(r, g) => About(R, g)
      /\ \A x : OfTitle(R, "retained", x) = Times(r, x)
  BY <1>3, <1>6, AllOfFacts
<1>p. /\ OfStatus(P, "replaced") = n
      /\ \A other : other # "replaced" => OfStatus(P, other) = 0
      /\ \A g : Has(paired, g) => About(P, g)
      /\ \A other, x : other # "replaced" => OfTitle(P, other, x) = 0
  BY <1>5, <1>7, AllOfFacts
<1>g. /\ OfStatus(G, "no_longer_reported") = Len(l) - n
      /\ \A other : other # "no_longer_reported" => OfStatus(G, other) = 0
      /\ \A other, x : other # "no_longer_reported" => OfTitle(G, other, x) = 0
  BY <1>5, <1>8, AllOfFacts
<1>n. /\ OfStatus(N, "new") = Len(f) - n
      /\ \A other : other # "new" => OfStatus(N, other) = 0
      /\ \A g : Has(new, g) => About(N, g)
      /\ \A other, x : other # "new" => OfTitle(N, other, x) = 0
  BY <1>5, <1>9, AllOfFacts
<1>13. ASSUME NEW i \in DOMAIN current
       PROVE  About(told, current[i])
  <2>1. i \in 1 .. Len(current)
    OBVIOUS
  <2>2. CASE \E j \in DOMAIN r : r[j] = current[i]
    <3>1. Has(r, current[i])
      BY <2>2 DEF Has
    <3> QED
      BY <1>12, <1>r, <3>1, Zenon
  <2>3. CASE \E j \in DOMAIN f : f[j] = current[i]
    <3>1. PICK j \in 1 .. Len(f) : f[j] = current[i]
      BY <1>3, <2>3
    <3>2. CASE j <= n
      <4>1. j \in DOMAIN paired /\ paired[j] = current[i]
        BY <1>4, <1>5, <3>1, <3>2
      <4>2. Has(paired, current[i])
        BY <4>1 DEF Has
      <4> QED
        BY <1>12, <1>p, <4>2, Zenon
    <3>3. CASE j > n
      <4>1. j - n \in 1 .. Len(f) - n /\ n + (j - n) = j
        BY <1>4, <3>3
      <4>2. j - n \in DOMAIN new /\ new[j - n] = current[i]
        BY <1>5, <3>1, <4>1
      <4>3. Has(new, current[i])
        BY <4>2 DEF Has
      <4> QED
        BY <1>12, <1>n, <4>3, Zenon
    <3> QED
      BY <1>4, <3>2, <3>3
  <2> QED
    BY <1>3, <2>1, <2>2, <2>3
<1>15. Len(told) <= Len(current) + Len(previous)
  <2>1. Len(told) = Len(r) + n + (Len(l) - n) + (Len(f) - n)
    BY <1>10, <1>12
  <2>2. Len(r) + n + (Len(l) - n) + (Len(f) - n) <= (Len(r) + Len(f)) + (Len(r) + Len(l))
    BY <1>4
  <2> QED
    BY <1>3, <2>1, <2>2
<1>16. \A s : OfStatus(told, s)
                = OfStatus(R, s) + OfStatus(P, s) + OfStatus(G, s) + OfStatus(N, s)
  BY <1>12, Zenon DEF OfStatus
<1>17. /\ OfStatus(told, "retained") = Len(r)
       /\ OfStatus(told, "replaced") = n
       /\ OfStatus(told, "no_longer_reported") = Len(l) - n
       /\ OfStatus(told, "new") = Len(f) - n
  <2>5. Len(l) - n \in Nat /\ Len(f) - n \in Nat
    BY <1>4
  <2>6. OfStatus(told, "retained") = Len(r) + 0 + 0 + 0
    BY <1>16, <1>r, <1>p, <1>g, <1>n
  <2>7. OfStatus(told, "replaced") = 0 + n + 0 + 0
    BY <1>16, <1>r, <1>p, <1>g, <1>n
  <2>8. OfStatus(told, "no_longer_reported") = 0 + 0 + (Len(l) - n) + 0
    BY <1>16, <1>r, <1>p, <1>g, <1>n
  <2>9. OfStatus(told, "new") = 0 + 0 + 0 + (Len(f) - n)
    BY <1>16, <1>r, <1>p, <1>g, <1>n
  <2> QED
    BY <1>4, <2>5, <2>6, <2>7, <2>8, <2>9
<1>18. ASSUME NEW x
       PROVE  OfTitle(told, "retained", x) = Times(r, x)
  <2>1. OfTitle(told, "retained", x) = OfTitle(R, "retained", x) + OfTitle(P, "retained", x)
             + OfTitle(G, "retained", x) + OfTitle(N, "retained", x)
    BY <1>12, Zenon DEF OfTitle
  <2>2. OfTitle(told, "retained", x) = Times(r, x) + 0 + 0 + 0
    BY <2>1, <1>r, <1>p, <1>g, <1>n
  <2>4. Times(r, x) \in Nat
    BY <1>3, TimesIs
  <2> QED
    BY <2>2, <2>4
<1> QED
  BY <1>11, <1>12, <1>13, <1>15, <1>17, <1>18 DEF r, l, f, n

(***************************************************************************)
(* The events of a batch.                                                  *)
(***************************************************************************)
\* There is a sequence of the elements of a finite set, each at one place.
LEMMA Sequenced ==
  ASSUME NEW S, IsFiniteSet(S)
  PROVE  /\ SetToSeq(S) \in [1 .. Cardinality(S) -> S]
         /\ Cardinality(S) \in Nat /\ SetToSeq(S) \in Seq(S)
         /\ Len(SetToSeq(S)) = Cardinality(S)
<1> DEFINE n == Cardinality(S)
<1>1. n \in Nat /\ ExistsBijection(1 .. n, S)
  BY FS_CardinalityType
<1> HIDE DEF n
<1>2. \E f \in [1 .. n -> S] : IsInjective(f)
  <2>1. Bijection(1 .. n, S) # {}
    BY <1>1 DEF ExistsBijection
  <2> QED
    BY <2>1 DEF Bijection, Injection
<1>3. SetToSeq(S) = CHOOSE f \in [1 .. n -> S] : IsInjective(f)
  BY DEF SetToSeq, n
<1>4. SetToSeq(S) \in [1 .. n -> S]
  BY <1>2, <1>3, Zenon
<1>5. SetToSeq(S) \in Seq(S) /\ Len(SetToSeq(S)) = n
  BY <1>1, <1>4
<1> QED
  BY <1>1, <1>4, <1>5 DEF n

\* A sequence has no more different elements than elements.
LEMMA ElementsOf ==
  ASSUME NEW E, NEW s \in Seq(E)
  PROVE  IsFiniteSet(ToSet(s)) /\ Cardinality(ToSet(s)) <= Len(s)
<1>1. DOMAIN s = 1 .. Len(s) /\ Len(s) \in Nat
  OBVIOUS
<1>2. IsFiniteSet(DOMAIN s) /\ Cardinality(DOMAIN s) = Len(s)
  <2>1. IsFiniteSet(1 .. Len(s)) /\ Cardinality(1 .. Len(s)) = Len(s)
    BY <1>1, FS_Interval
  <2> QED
    BY <1>1, <2>1
<1>3. s \in Surjection(DOMAIN s, ToSet(s))
  BY DEF Surjection, ToSet
<1> QED
  BY <1>2, <1>3, FS_Surjection

\* Two sequences together have the elements of both.
LEMMA ElementsOfBoth ==
  ASSUME NEW E, NEW s \in Seq(E), NEW t \in Seq(E)
  PROVE  s \o t \in Seq(E) /\ ToSet(s \o t) = ToSet(s) \union ToSet(t)
<1> DEFINE both == s \o t
<1>1. /\ Len(s) \in Nat /\ Len(t) \in Nat /\ both \in Seq(E)
      /\ DOMAIN s = 1 .. Len(s) /\ DOMAIN t = 1 .. Len(t)
      /\ DOMAIN both = 1 .. Len(s) + Len(t)
  OBVIOUS
<1>2. \A i \in 1 .. Len(s) : both[i] = s[i]
  OBVIOUS
<1>3. \A i \in 1 .. Len(t) : both[Len(s) + i] = t[i]
  OBVIOUS
<1> HIDE DEF both
<1>4. \A i \in DOMAIN s : i \in DOMAIN both /\ both[i] = s[i]
  BY <1>1, <1>2
<1>5. \A i \in DOMAIN t : Len(s) + i \in DOMAIN both /\ both[Len(s) + i] = t[i]
  BY <1>1, <1>3
<1>6. ASSUME NEW i \in DOMAIN both
      PROVE  \/ i \in DOMAIN s /\ both[i] = s[i]
             \/ i - Len(s) \in DOMAIN t /\ both[i] = t[i - Len(s)]
  <2>1. CASE i <= Len(s)
    BY <1>1, <1>2, <2>1
  <2>2. CASE i > Len(s)
    <3>1. i - Len(s) \in 1 .. Len(t) /\ Len(s) + (i - Len(s)) = i
      BY <1>1, <2>2
    <3> QED
      BY <1>1, <1>3, <3>1
  <2> QED
    BY <1>1, <2>1, <2>2
<1>7. ToSet(both) = ToSet(s) \union ToSet(t)
  BY <1>4, <1>5, <1>6 DEF ToSet
<1> QED
  BY <1>1, <1>7 DEF both

\* The stale events of the findings of a sequence are no more than these.
LEMMA StaleEvents ==
  ASSUME NEW s \in Seq(Findings), NEW F, F = ToSet(s), NEW S,
         S = {Event("stale", f, NoFingerprint) : f \in F}
  PROVE  SetToSeq(S) \in Seq(Events) /\ Len(SetToSeq(S)) <= Len(s)
<1> DEFINE e == [i \in DOMAIN s |-> Event("stale", s[i], NoFingerprint)]
<1>1. DOMAIN s = 1 .. Len(s) /\ Len(s) \in Nat
  OBVIOUS
<1>2. \A i \in 1 .. Len(s) : Event("stale", s[i], NoFingerprint) \in Events
  BY DEF Event, Events, Statuses
<1>3. e \in Seq(Events) /\ Len(e) = Len(s) /\ DOMAIN e = DOMAIN s
  BY <1>1, <1>2
<1>4. S = ToSet(e)
  <2>1. S = {Event("stale", s[i], NoFingerprint) : i \in DOMAIN s}
    BY DEF ToSet
  <2> QED
    BY <2>1 DEF ToSet
<1>5. S \subseteq Events
  BY <1>1, <1>2, <1>4 DEF ToSet
<1> HIDE DEF e
<1>6. IsFiniteSet(S) /\ Cardinality(S) <= Len(s)
  BY <1>3, <1>4, ElementsOf
<1>7. SetToSeq(S) \in Seq(S) /\ Len(SetToSeq(S)) = Cardinality(S) /\ Cardinality(S) \in Nat
  BY <1>6, Sequenced
<1>8. SetToSeq(S) \in Seq(Events)
  BY <1>5, <1>7
<1> QED
  BY <1>6, <1>7, <1>8

\* fresh_findings leaves the events of unchanged files, and makes no more stale ones of
\* a changed file than it has findings, or than it has events if these tell of them all.
LEMMA FreshLength ==
  ASSUME NEW batch, NEW events, NEW same, NEW p \in Paths,
         batch.findings[p] \in Seq(Findings), events[p] \in Seq(Events)
  PROVE  LET fresh == FreshEvents(batch, events, same)[p]
         IN /\ fresh \in Seq(Events)
            /\ p \notin batch.files \ same => fresh = events[p]
            /\ events[p] = <<>> => Len(fresh) <= Len(batch.findings[p])
            /\ (\A i \in DOMAIN batch.findings[p] : About(events[p], batch.findings[p][i]))
                 => Len(fresh) <= Len(events[p])
<1> DEFINE fresh == FreshEvents(batch, events, same)[p]
           told == events[p]
           found == batch.findings[p]
           F == {e.finding : e \in ToSet(told)} \union ToSet(found)
           S == {Event("stale", f, NoFingerprint) : f \in F}
           of == [i \in DOMAIN told |-> told[i].finding]
<1>1. fresh = IF p \in batch.files \ same THEN SetToSeq(S) ELSE told
  BY DEF FreshEvents
<1>2. told \in Seq(Events) /\ found \in Seq(Findings)
  OBVIOUS
<1>3. CASE p \notin batch.files \ same
  <2>1. fresh = told
    BY <1>1, <1>3
  <2>2. Len(told) \in Nat /\ Len(found) \in Nat
    BY <1>2
  <2>3. told = <<>> => Len(told) = 0
    OBVIOUS
  <2> HIDE DEF fresh, told, found
  <2> QED
    BY <1>2, <1>3, <2>1, <2>2, <2>3 DEF fresh, told, found
<1>4. CASE p \in batch.files \ same
  <2>1. fresh = SetToSeq(S)
    BY <1>1, <1>4
  <2> HIDE DEF fresh, told, found
  <2>2. DOMAIN told = 1 .. Len(told) /\ Len(told) \in Nat /\ Len(found) \in Nat
    BY <1>2
  <2>3. of \in Seq(Findings) /\ Len(of) = Len(told) /\ DOMAIN of = DOMAIN told
    <3>1. \A i \in 1 .. Len(told) : told[i] \in Events
      BY <1>2
    <3>2. \A i \in 1 .. Len(told) : told[i].finding \in Findings
      BY <3>1 DEF Events
    <3> QED
      BY <2>2, <3>2
  <2>4. {e.finding : e \in ToSet(told)} = ToSet(of)
    <3>1. {e.finding : e \in ToSet(told)} = {told[i].finding : i \in DOMAIN told}
      BY DEF ToSet
    <3> QED
      BY <3>1 DEF ToSet
  <2>5. told = <<>> => fresh \in Seq(Events) /\ Len(fresh) <= Len(found)
    <3>1. ASSUME told = <<>>
          PROVE  F = ToSet(found)
      <4>1. ToSet(told) = {}
        BY <3>1 DEF ToSet
      <4> QED
        BY <4>1
    <3> HIDE DEF F, S
    <3> QED
      BY <1>2, <2>1, <3>1, StaleEvents DEF S
  <2>6. (\A i \in DOMAIN found : About(told, found[i]))
           => fresh \in Seq(Events) /\ Len(fresh) <= Len(told)
    <3>1. ASSUME \A i \in DOMAIN found : About(told, found[i])
          PROVE  F = ToSet(of)
      <4>1. ToSet(found) \subseteq ToSet(of)
        BY <2>3, <3>1 DEF About, ToSet
      <4> QED
        BY <2>4, <4>1
    <3> HIDE DEF F, S, of
    <3> QED
      BY <2>1, <2>3, <3>1, StaleEvents DEF S
  <2>7. fresh \in Seq(Events)
    <3> DEFINE both == of \o found
    <3> HIDE DEF of
    <3>1. both \in Seq(Findings) /\ ToSet(both) = ToSet(of) \union ToSet(found)
      BY <1>2, <2>3, ElementsOfBoth
    <3> HIDE DEF both
    <3>4. F = ToSet(both)
      BY <2>4, <3>1
    <3> HIDE DEF F, S
    <3> QED
      BY <2>1, <3>1, <3>4, StaleEvents DEF S
  <2> QED
    BY <1>4, <2>5, <2>6, <2>7 DEF fresh, told, found
<1> QED
  BY <1>3, <1>4

\* What is left out of a batch has no findings in it, and the rest keeps those it has.
LEMMA WithoutFindings ==
  ASSUME NEW batch, WellFormed(batch), NEW S, NEW p \in Paths
  PROVE  /\ p \in S => Without(batch, S).findings[p] = <<>>
         /\ p \notin S => Without(batch, S).findings[p] = batch.findings[p]
         /\ Without(batch, S).files = batch.files
         /\ Without(batch, S).stale = batch.stale \union S
<1> DEFINE kept == OnlyIn(batch, Paths \ S)
<1>1. Without(batch, S) = [kept EXCEPT !.stale = @ \union S]
  BY DEF Without
<1>2. /\ kept = [batch EXCEPT !.findings = [q \in Paths |->
                     IF q \in Paths \ S THEN batch.findings[q] ELSE <<>>]]
      /\ DOMAIN batch = {"at", "files", "stale", "digests", "generation", "findings"}
  BY DEF OnlyIn, WellFormed, AnyBatch
<1>3. /\ kept.files = batch.files /\ kept.stale = batch.stale
      /\ kept.findings = [q \in Paths |-> IF q \in Paths \ S THEN batch.findings[q] ELSE <<>>]
      /\ DOMAIN kept = DOMAIN batch
  BY <1>2
<1> HIDE DEF kept
<1>4. /\ Without(batch, S).files = kept.files
      /\ Without(batch, S).findings = kept.findings
      /\ Without(batch, S).stale = kept.stale \union S
  BY <1>1, <1>2, <1>3
<1> QED
  BY <1>3, <1>4

\* The events of a path that is classified: one for each finding of an older snapshot or
\* of a file that changed, and what Related says of the others.
LEMMA ClassifiedEvents ==
  ASSUME Known(tracker), NEW b, WellFormed(b), NEW same, NEW p \in Paths
  PROVE  LET batch == Fresh(b, same)
             told == Classified(tracker, batch, FreshEvents(b, NoEvents, same))[p]
         IN /\ told \in Seq(Events)
            /\ p \in DOMAIN tracker =>
                 Len(told) <= Len(b.findings[p]) + Len(tracker[p].findings)
            /\ p \notin DOMAIN tracker => Len(told) <= Len(b.findings[p])
            /\ \A i \in DOMAIN InOrder(tracker, batch).findings[p] :
                 About(told, InOrder(tracker, batch).findings[p][i])
            /\ p \in Compared(tracker, batch) =>
                 told = Related(batch.findings[p],
                                IF p \in DOMAIN tracker THEN tracker[p].findings ELSE <<>>)
<1> DEFINE changed == b.files \ same
           batch == Fresh(b, same)
           stale == FreshEvents(b, NoEvents, same)
           told == Classified(tracker, batch, stale)[p]
           found == b.findings[p]
           left == InOrder(tracker, batch).findings[p]
           previous == IF p \in DOMAIN tracker THEN tracker[p].findings ELSE <<>>
<1>1. /\ WellFormed(batch) /\ batch = Without(b, changed)
      /\ Current(batch) = Current(b) \ changed
      /\ found \in Seq(Findings)
  <2>1. changed \in SUBSET Paths /\ found \in Seq(Findings)
    BY DEF WellFormed, AnyBatch
  <2> QED
    BY <2>1, WithoutFacts DEF Fresh
<1>2. /\ p \in changed => batch.findings[p] = <<>>
      /\ p \notin changed => batch.findings[p] = found
  BY <1>1, WithoutFindings
<1>3. /\ p \in OutOfOrder(tracker, batch) => left = <<>>
      /\ p \notin OutOfOrder(tracker, batch) => left = batch.findings[p]
  BY <1>1, WithoutFindings DEF InOrder
<1>4. /\ stale[p] \in Seq(Events) /\ Len(stale[p]) <= Len(found)
      /\ p \notin changed => stale[p] = <<>>
  <2>1. NoEvents[p] = <<>> /\ NoEvents[p] \in Seq(Events)
    BY DEF NoEvents
  <2>2. stale[p] \in Seq(Events)
    BY <1>1, <2>1, FreshLength, Zenon
  <2>3. p \notin changed => stale[p] = NoEvents[p]
    BY DEF FreshEvents
  <2>4. Len(stale[p]) <= Len(found)
    BY <1>1, <2>1, FreshLength
  <2> QED
    BY <2>1, <2>2, <2>3, <2>4
<1>5. told = IF p \in Current(batch) THEN stale[p] \o EventsOf(tracker, batch, p) ELSE stale[p]
  BY DEF Classified
<1>6. /\ previous \in Seq(Findings) /\ Len(previous) \in Nat /\ Len(found) \in Nat
      /\ p \notin DOMAIN tracker => Len(previous) = 0
  BY <1>1 DEF Known
<1>7. p \in Cited(batch) => p \in Current(batch)
  BY <1>1 DEF WellFormed
<1> HIDE DEF batch, stale, told, left
<1>8. CASE p \notin Current(batch)
  <2>1. told = stale[p] /\ Len(told) \in Nat
    BY <1>4, <1>5, <1>8
  <2>2. left = <<>> /\ DOMAIN left = {}
    <3>1. batch.findings[p] = <<>>
      BY <1>7, <1>8 DEF Cited
    <3>2. left = <<>>
      BY <1>3, <3>1
    <3> QED
      BY <3>2
  <2>3. p \notin Compared(tracker, batch)
    BY <1>8 DEF Compared
  <2>4. Len(told) <= Len(found) + Len(previous) /\ Len(told) <= Len(found)
    <3> HIDE DEF found, previous
    <3> QED
      BY <1>4, <1>6, <2>1
  <2>5. \A i \in DOMAIN left : About(told, left[i])
    BY <2>2
  <2> HIDE DEF found
  <2> QED
    BY <1>4, <2>1, <2>3, <2>4, <2>5 DEF batch, stale, told, left, found
<1>9. CASE p \in Current(batch)
  <2>1. p \notin changed /\ stale[p] = <<>> /\ batch.findings[p] = found
    BY <1>1, <1>2, <1>4, <1>9
  <2>2. told = <<>> \o EventsOf(tracker, batch, p)
    BY <1>5, <1>9, <2>1
  <2>3. CASE p \in OutOfOrder(tracker, batch)
    <3> DEFINE e == [i \in DOMAIN found |-> Event("stale", found[i], NoFingerprint)]
    <3>1. EventsOf(tracker, batch, p) = e
      BY <2>1, <2>3 DEF EventsOf
    <3>2. DOMAIN found = 1 .. Len(found)
      BY <1>1
    <3>3. \A i \in 1 .. Len(found) : Event("stale", found[i], NoFingerprint) \in Events
      BY <1>1 DEF Event, Events, Statuses
    <3>4. e \in Seq(Events) /\ Len(e) = Len(found)
      BY <1>6, <3>2, <3>3
    <3> HIDE DEF e
    <3>5. told = e
      BY <2>2, <3>1, <3>4
    <3>6. Len(told) <= Len(found) + Len(previous) /\ Len(told) <= Len(found)
      <4> HIDE DEF found, previous
      <4> QED
        BY <1>6, <3>4, <3>5
    <3>7. \A i \in DOMAIN left : About(told, left[i])
      <4>1. left = <<>>
        BY <1>3, <2>3
      <4>2. DOMAIN left = {}
        BY <4>1
      <4> QED
        BY <4>2
    <3>8. p \notin Compared(tracker, batch)
      BY <2>3 DEF Compared
    <3> HIDE DEF found
    <3> QED
      BY <3>4, <3>5, <3>6, <3>7, <3>8 DEF batch, stale, told, left, found
  <2>4. CASE p \notin OutOfOrder(tracker, batch)
    <3> DEFINE e == Related(found, previous)
    <3>1. EventsOf(tracker, batch, p) = e
      BY <2>1, <2>4 DEF EventsOf
    <3> HIDE DEF previous
    <3>2. /\ e \in Seq(Events) /\ Len(e) <= Len(found) + Len(previous)
          /\ \A i \in DOMAIN found : About(e, found[i])
      BY <1>1, <1>6, RelatedFacts
    <3> HIDE DEF e
    <3>3. told = e
      BY <2>2, <3>1, <3>2
    <3>4. left = found
      BY <1>3, <2>1, <2>4
    <3>5. \A i \in DOMAIN left : About(told, left[i])
      BY <3>2, <3>3, <3>4
    <3>6. told \in Seq(Events) /\ Len(told) <= Len(found) + Len(previous)
      BY <3>2, <3>3
    <3>7. p \notin DOMAIN tracker => Len(told) <= Len(found)
      <4>1. Len(told) \in Nat
        BY <3>6
      <4> QED
        BY <1>6, <3>6, <4>1
    <3>8. told = Related(batch.findings[p], previous)
      BY <2>1, <3>3 DEF e
    <3>9. p \in DOMAIN tracker => Len(told) <= Len(found) + Len(tracker[p].findings)
      BY <3>6 DEF previous
    <3> HIDE DEF found
    <3> QED
      BY <3>5, <3>6, <3>7, <3>8, <3>9 DEF batch, stale, told, left, found, previous
  <2> QED
    BY <2>3, <2>4
<1> QED
  BY <1>8, <1>9

\* The events of a batch are no more than its findings and those the tracker kept.
LEMMA ClassifyFits ==
  ASSUME KeptInv, NEW b, WellFormed(b), NEW same, Total(b.findings, Paths) <= MaxFindings
  PROVE  Total(Classified(tracker, Fresh(b, same), FreshEvents(b, NoEvents, same)), Paths)
           <= MaxFindings + MaxTrackedFindings
<1> DEFINE batch == Fresh(b, same)
           told == Classified(tracker, batch, FreshEvents(b, NoEvents, same))
           found == b.findings
           known == FindingsOf(tracker)
           E == Events \union Findings
<1>1. /\ Known(tracker) /\ DOMAIN tracker \in SUBSET Paths
      /\ Total(known, DOMAIN tracker) <= MaxTrackedFindings
  BY DEF KeptInv, Known
<1>2. \A p \in Paths : found[p] \in Seq(Findings)
  BY DEF WellFormed, AnyBatch
<1>3. \A p \in DOMAIN tracker : known[p] = tracker[p].findings /\ known[p] \in Seq(Findings)
  BY <1>1 DEF FindingsOf, Known
<1>4. ASSUME NEW p \in Paths
      PROVE  /\ told[p] \in Seq(Events)
             /\ p \in DOMAIN tracker =>
                  Len(told[p]) <= Len(found[p]) + Len(tracker[p].findings)
             /\ p \notin DOMAIN tracker => Len(told[p]) <= Len(found[p])
  BY <1>1, ClassifiedEvents
<1> HIDE DEF told, found, known
<1>5. \A p \in Paths : told[p] \in Seq(E) /\ found[p] \in Seq(E)
  <2>1. Seq(Events) \subseteq Seq(E) /\ Seq(Findings) \subseteq Seq(E)
    BY SeqDef
  <2> QED
    BY <1>2, <1>4, <2>1
<1>6. \A p \in DOMAIN tracker : known[p] \in Seq(E)
  BY <1>3
<1> HIDE DEF E
<1>7. \A p \in Paths \ DOMAIN tracker : Len(told[p]) <= Len(found[p])
  BY <1>4
<1>8. \A p \in DOMAIN tracker : Len(told[p]) <= Len(found[p]) + Len(known[p])
  BY <1>1, <1>3, <1>4
<1>9. Total(told, Paths) <= Total(found, Paths) + Total(known, DOMAIN tracker)
  <2>1. Paths \in SUBSET Paths
    OBVIOUS
  <2> QED
    BY <1>1, <1>5, <1>6, <1>7, <1>8, <2>1, TotalSum
<1>10. /\ Total(told, Paths) \in Nat /\ Total(found, Paths) \in Nat
       /\ Total(known, DOMAIN tracker) \in Nat
       /\ MaxFindings \in Nat /\ MaxTrackedFindings \in Nat
  <2>1. Paths \in SUBSET Paths
    OBVIOUS
  <2>2. Total(told, Paths) \in Nat
    BY <1>5, <2>1, PlacesFinite
  <2>3. Total(found, Paths) \in Nat
    BY <1>5, <2>1, PlacesFinite
  <2>4. Total(known, DOMAIN tracker) \in Nat
    BY <1>1, <1>6, PlacesFinite
  <2> QED
    BY <2>2, <2>3, <2>4, TrackerAssumption, HistoryAssumption
<1>11. Total(found, Paths) <= MaxFindings
  BY DEF found
<1>12. Total(told, Paths) <= MaxFindings + MaxTrackedFindings
  BY <1>1, <1>9, <1>10, <1>11
<1> QED
  BY <1>12 DEF told

\* An answered batch has no events yet and no more findings than a result may have.  One
\* to be published has no more events than two results, and these tell of all its
\* findings, so that they are no fewer than the stale events that may take their place.
EventsInv ==
    /\ call.pc = "answered" => /\ call.events = NoEvents
                               /\ Total(call.batch.findings, Paths) <= MaxFindings
    /\ call.pc = "publish" =>
         /\ \A p \in Paths :
              /\ call.events[p] \in Seq(Events)
              /\ \A i \in DOMAIN call.batch.findings[p] :
                    About(call.events[p], call.batch.findings[p][i])
         /\ Total(call.events, Paths) <= MaxFindings + MaxTrackedFindings

\* Then they fit the envelope, and go on to fit when files change.
LEMMA EventsFit == CallInv /\ EventsInv => EventsFitEnvelope
<1> SUFFICES ASSUME CallInv, EventsInv, call.pc = "publish"
             PROVE  Total(FreshEvents(call.batch, call.events, Same(call.batch)), Paths)
                      <= 2 * MaxFindings
  BY DEF EventsFitEnvelope
<1> DEFINE events == call.events
           fresh == FreshEvents(call.batch, events, Same(call.batch))
<1>1. \A p \in Paths : call.batch.findings[p] \in Seq(Findings)
  BY DEF CallInv, WellFormed, AnyBatch
<1>2. /\ \A p \in Paths :
           /\ events[p] \in Seq(Events)
           /\ \A i \in DOMAIN call.batch.findings[p] :
                 About(events[p], call.batch.findings[p][i])
      /\ Total(events, Paths) <= MaxFindings + MaxTrackedFindings
  BY DEF EventsInv
<1> HIDE DEF events
<1>3. ASSUME NEW p \in Paths
      PROVE  fresh[p] \in Seq(Events) /\ Len(fresh[p]) <= Len(events[p])
  BY <1>1, <1>2, FreshLength
<1> HIDE DEF fresh
<1>4. Total(fresh, Paths) <= Total(events, Paths)
  BY <1>2, <1>3, TotalMonotonic
<1>5. Total(fresh, Paths) \in Nat /\ Total(events, Paths) \in Nat
  <2>1. Paths \in SUBSET Paths
    OBVIOUS
  <2> QED
    BY <1>2, <1>3, <2>1, PlacesFinite
<1>6. /\ MaxFindings \in Nat /\ MaxTrackedFindings \in Nat
      /\ MaxTrackedFindings <= MaxFindings
  BY TrackerAssumption, HistoryAssumption
<1>7. Total(fresh, Paths) <= 2 * MaxFindings
  BY <1>2, <1>4, <1>5, <1>6
<1> QED
  BY <1>7 DEF fresh, events

\* It holds at first, with no review in progress.
LEMMA InitEvents == Init => EventsInv
  BY DEF Init, EventsInv, Idle

\* Every step keeps it so.
LEMMA NextEvents == CallInv /\ KeptInv /\ EventsInv /\ [Next]_vars => EventsInv'
<1> SUFFICES ASSUME CallInv, KeptInv, EventsInv, [Next]_vars
             PROVE  EventsInv'
  OBVIOUS
<1>1. UNCHANGED call => EventsInv'
  BY DEF EventsInv
<1>2. call'.pc \in {"idle", "link"} => EventsInv'
  BY DEF EventsInv
<1>3. CASE ClassifyBatch
  <2> DEFINE b == call.batch
             same == Same(b)
             batch == Fresh(b, same)
             told == Classified(tracker, batch, FreshEvents(b, NoEvents, same))
             left == InOrder(tracker, batch)
  <2>1. call' = [pc |-> "publish", batch |-> left, events |-> told]
    BY <1>3 DEF ClassifyBatch, EventsInv
  <2>2. Known(tracker) /\ WellFormed(b) /\ Total(b.findings, Paths) <= MaxFindings
    BY <1>3 DEF ClassifyBatch, EventsInv, CallInv, KeptInv
  <2>3. Total(told, Paths) <= MaxFindings + MaxTrackedFindings
    BY <2>2, ClassifyFits
  <2>4. ASSUME NEW p \in Paths
        PROVE  /\ told[p] \in Seq(Events)
               /\ \A i \in DOMAIN left.findings[p] : About(told[p], left.findings[p][i])
    BY <2>2, ClassifiedEvents
  <2> HIDE DEF told, left
  <2>5. call'.pc = "publish" /\ call'.batch = left /\ call'.events = told
    BY <2>1
  <2> QED
    BY <2>3, <2>4, <2>5 DEF EventsInv
<1>4. ASSUME NEW S \in SUBSET Paths, NEW report, Answer(S, report)
      PROVE  EventsInv'
  <2> DEFINE found == [p \in Paths |-> IF p \in S THEN report[p] ELSE <<>>]
  <2>1. call'.pc = "answered" /\ call'.events = NoEvents /\ call'.batch.findings = found
    BY <1>4 DEF Answer
  <2>2. Places(found, Paths) = Places(report, S)
    <3>1. DOMAIN <<>> = {}
      OBVIOUS
    <3>2. \A p \in S : p \in Paths /\ {p} \X DOMAIN found[p] = {p} \X DOMAIN report[p]
      OBVIOUS
    <3>3. \A p \in Paths \ S : {p} \X DOMAIN found[p] = {}
      BY <3>1
    <3> HIDE DEF found
    <3> QED
      BY <3>2, <3>3 DEF Places
  <2>3. Total(found, Paths) <= MaxFindings
    BY <1>4, <2>2 DEF Answer, Total
  <2> HIDE DEF found
  <2> QED
    BY <2>1, <2>3 DEF EventsInv
<1>5. CASE DiscardResult \/ Restart \/ RefuseBatch \/ CountRounds \/ LinkBatch
  <2>1. call'.pc \in {"idle", "link"}
    <3>1. CASE CountRounds
      <4>1. CASE Cited(Offered) = Suppressed(Offered)
        BY <3>1, <4>1 DEF CountRounds, Idle
      <4>2. CASE Cited(Offered) # Suppressed(Offered)
        BY <3>1, <4>2 DEF CountRounds
      <4> QED
        BY <4>1, <4>2
    <3>2. CASE DiscardResult \/ Restart \/ RefuseBatch \/ LinkBatch
      BY <3>2 DEF DiscardResult, Restart, RefuseBatch, LinkBatch, Idle
    <3> QED
      BY <1>5, <3>1, <3>2
  <2> QED
    BY <1>2, <2>1
<1>6. CASE Tick \/ SetClockBack \/ NextSession \/ UNCHANGED vars
  BY <1>1, <1>6 DEF Tick, SetClockBack, NextSession, vars
<1>7. ASSUME NEW p, Edit(p)
      PROVE  EventsInv'
  BY <1>1, <1>7 DEF Edit
<1> QED
  BY <1>3, <1>4, <1>5, <1>6, <1>7 DEF Next

\* The numbers of StatusIsExact are those Related counts by.
LEMMA ToldIs ==
  ASSUME NEW told \in Seq(Events), NEW status
  PROVE  /\ Cardinality(Told(told, status)) = OfStatus(told, status)
         /\ \A x : Cardinality({i \in Told(told, status) : told[i].finding.fingerprint = x})
                     = OfTitle(told, status, x)
<1>1. \A i \in DOMAIN told : told[i] \in Events
  OBVIOUS
<1>2. Told(told, status) = Occurs(told, WithStatus(status))
  BY <1>1 DEF Told, Occurs, WithStatus
<1>3. ASSUME NEW x
      PROVE  {i \in Told(told, status) : told[i].finding.fingerprint = x}
               = Occurs(told, {e \in WithStatus(status) : e.finding.fingerprint = x})
  BY <1>1 DEF Told, Occurs, WithStatus
<1> QED
  BY <1>2, <1>3 DEF OfStatus, OfTitle, CountIn

\* What Related says of the findings of a file, in numbers.
LEMMA RelatedCounts ==
  ASSUME NEW before \in Seq(Findings), NEW after \in Seq(Findings), NEW told,
         told = Related(after, before)
  PROVE  LET Number(status) == Cardinality(Told(told, status))
             pairs == Smaller(Len(before), Len(after)) - Number("retained")
         IN /\ \A x : Smaller(Times(before, x), Times(after, x)) =
                        Cardinality({i \in Told(told, "retained") :
                                        told[i].finding.fingerprint = x})
            /\ Number("replaced") = pairs
            /\ Number("new") = Len(after) - Number("retained") - pairs
            /\ Number("no_longer_reported") = Len(before) - Number("retained") - pairs
<1> DEFINE match == Match(after, before)
           r == match.retained
           l == match.left
           f == match.fresh
           n == Smaller(Len(l), Len(f))
<1>1. /\ told \in Seq(Events)
      /\ OfStatus(told, "retained") = Len(r)
      /\ OfStatus(told, "replaced") = n
      /\ OfStatus(told, "no_longer_reported") = Len(l) - n
      /\ OfStatus(told, "new") = Len(f) - n
      /\ \A x : OfTitle(told, "retained", x) = Times(r, x)
  BY RelatedFacts
<1>2. Matched(r, l, f, after, before, Len(after))
  BY MatchFacts
<1> HIDE DEF r, l, f
<1>3. SubSeq(after, 1, Len(after)) = after
  OBVIOUS
<1>4. /\ r \in Seq(Findings) /\ l \in Seq(Findings) /\ f \in Seq(Findings)
      /\ Len(r) + Len(l) = Len(before) /\ Len(r) + Len(f) = Len(after)
      /\ \A x : /\ Times(r, x) + Times(l, x) = Times(before, x)
                /\ Times(r, x) + Times(f, x) = Times(after, x)
                /\ Times(l, x) = 0 \/ Times(f, x) = 0
  BY <1>2, <1>3 DEF Matched
<1>5. Len(r) \in Nat /\ Len(l) \in Nat /\ Len(f) \in Nat
  BY <1>4
<1>6. \A status : Cardinality(Told(told, status)) = OfStatus(told, status)
  BY <1>1, ToldIs
<1>7. ASSUME NEW x
      PROVE  Smaller(Times(before, x), Times(after, x)) =
               Cardinality({i \in Told(told, "retained") : told[i].finding.fingerprint = x})
  <2>1. Cardinality({i \in Told(told, "retained") : told[i].finding.fingerprint = x})
          = Times(r, x)
    BY <1>1, ToldIs
  <2>2. Times(r, x) \in Nat /\ Times(l, x) \in Nat /\ Times(f, x) \in Nat
    BY <1>4, TimesIs
  <2>3. Smaller(Times(before, x), Times(after, x)) = Times(r, x)
    <3>1. /\ Times(r, x) + Times(l, x) = Times(before, x)
          /\ Times(r, x) + Times(f, x) = Times(after, x)
          /\ Times(l, x) = 0 \/ Times(f, x) = 0
      BY <1>4
    <3> QED
      BY <2>2, <3>1 DEF Smaller
  <2> QED
    BY <2>1, <2>3
<1>8. /\ Smaller(Len(before), Len(after)) - Len(r) = n
      /\ Len(l) - n = Len(before) - Len(r) - n
      /\ Len(f) - n = Len(after) - Len(r) - n
  <2>1. ASSUME NEW a \in Nat, NEW b \in Nat, NEW c \in Nat
        PROVE  /\ Smaller(a + b, a + c) - a = Smaller(b, c)
               /\ Smaller(b, c) \in Nat
    BY DEF Smaller
  <2>2. /\ Smaller(Len(r) + Len(l), Len(r) + Len(f)) - Len(r) = n
        /\ n \in Nat
    BY <1>5, <2>1
  <2> HIDE DEF n
  <2>3. /\ Len(l) - n = (Len(r) + Len(l)) - Len(r) - n
        /\ Len(f) - n = (Len(r) + Len(f)) - Len(r) - n
    BY <1>5, <2>2
  <2>4. Len(before) = Len(r) + Len(l) /\ Len(after) = Len(r) + Len(f)
    BY <1>4
  <2> QED
    BY <2>2, <2>3, <2>4
<1> HIDE DEF n
<1>9. /\ Cardinality(Told(told, "retained")) = Len(r)
      /\ Cardinality(Told(told, "replaced")) = n
      /\ Cardinality(Told(told, "no_longer_reported")) = Len(l) - n
      /\ Cardinality(Told(told, "new")) = Len(f) - n
  BY <1>1, <1>6
<1> QED
  BY <1>7, <1>8, <1>9

--------------------------------------------------------------------------------
\* Nothing is offered or published of a path from a snapshot older than its newest
\* classified one, as long as fewer than MaxTrackedFiles other paths were classified since,
\* although the tracker forgets, and may then even take an older snapshot for the newest.
THEOREM NewestCorrect == Spec => []NewerSnapshotsWin
  BY InitCall, InitTracker, NextCall, NextTracker, PTL DEF Spec

\* Between two quiet intervals no more than MaxRounds different results of a file are
\* published, for any number of reviews, kills and sessions and whatever the clock does.
THEOREM RoundsCorrect == Spec => []RoundsAreBounded
<1>1. RoundInv => RoundsAreBounded
  <2> SUFFICES ASSUME RoundInv, NEW p \in Paths
               PROVE  Cardinality(busy[p].published) <= MaxRounds
    BY DEF RoundsAreBounded
  <2>1. CASE NeverCounted(p)
    BY <2>1, FS_EmptySet, HistoryAssumption DEF NeverCounted, Untouched
  <2>2. CASE CountedAsBusy(p)
    BY <2>2 DEF CountedAsBusy
  <2> QED
    BY <2>1, <2>2 DEF RoundInv
<1> QED
  BY <1>1, InitCall, InitRounds, NextCall, NextRounds, PTL DEF Spec

\* The findings of a file are withheld only after the file itself was counted more than
\* MaxRounds times since it was last left alone, whatever is counted of other files.
THEOREM WithheldCorrect == Spec => WithheldForItsOwnRounds
<1> DEFINE Own ==
      CountRounds =>
        \A p \in Cited(Offered) :
            (call' = Idle \/ p \notin Cited(call'.batch)) => busy'[p].reviews > MaxRounds
<1>1. TimeInv /\ CallInv /\ RoundInv /\ [Next]_vars => [Own]_vars
  <2> SUFFICES ASSUME TimeInv, CallInv, RoundInv, CountRounds, NEW p \in Cited(Offered),
                      call' = Idle \/ p \notin Cited(call'.batch)
               PROVE  busy'[p].reviews > MaxRounds
    OBVIOUS
  <2>1. WellFormed(Offered) /\ rounds' = AfterRounds(Offered) /\ Continue(Offered)
    BY FreshFacts DEF CallInv, CountRounds, Offered
  <2>2. p \in Suppressed(Offered)
    <3>1. CASE call' = Idle
      BY <3>1 DEF CountRounds, Idle
    <3>2. CASE call' # Idle
      <4>1. call'.batch = OnlyIn(Offered, Paths \ Suppressed(Offered))
        BY <3>2 DEF CountRounds
      <4>2. Cited(call'.batch) = Cited(Offered) \intersect (Paths \ Suppressed(Offered))
        BY <2>1, <4>1, OnlyInFacts
      <4>3. p \notin Cited(call'.batch) /\ p \in Paths
        BY <3>2 DEF Cited
      <4> QED
        BY <4>2, <4>3
    <3> QED
      BY <3>1, <3>2
  <2>3. /\ Round(Offered, p) <= busy'[p].reviews
        /\ Round(Offered, p) \in Nat /\ busy'[p].reviews \in Nat
    <3>1. p \in Paths
      BY DEF Cited
    <3> QED
      BY <2>1, <3>1, Counted DEF RoundInv, CountedAsBusy
  <2> QED
    BY <2>2, <2>3, HistoryAssumption DEF Suppressed
<1>2. [][Own]_vars => WithheldForItsOwnRounds
  BY PTL DEF WithheldForItsOwnRounds
<1> QED
  BY <1>1, <1>2, InitCall, InitRounds, NextCall, NextRounds, PTL DEF Spec

\* Whatever changes before a batch is published, its events fit the envelope: fresh_findings
\* never raises once classify has moved the tracker on, for any number of reviews and files.
THEOREM EnvelopeCorrect == Spec => []EventsFitEnvelope
<1>1. Init => KeptInv
  BY EmptyKept DEF Init
<1> QED
  BY <1>1, InitCall, InitTracker, InitEvents, NextCall, NextTracker, NextKept, NextEvents,
     EventsFit, PTL DEF Spec

\* As long as the tracker had room for the findings of a file, what classify says of its
\* next review follows from the two snapshots: every finding is accounted for, once.
THEOREM StatusCorrect == Spec => StatusIsExact
<1> DEFINE Exact ==
      ClassifyBatch =>
        LET batch == Fresh(call.batch, Same(call.batch)) IN
        \A p \in Compared(tracker, batch) :
            last[p].kept =>
                LET before == last[p].findings
                    after == batch.findings[p]
                    told == call'.events[p]
                    Number(status) == Cardinality(Told(told, status))
                    pairs == Smaller(Len(before), Len(after)) - Number("retained")
                IN /\ \A x \in Fingerprints :
                        Smaller(Times(before, x), Times(after, x)) =
                            Cardinality({i \in Told(told, "retained") :
                                            told[i].finding.fingerprint = x})
                   /\ Number("replaced") = pairs
                   /\ Number("new") = Len(after) - Number("retained") - pairs
                   /\ Number("no_longer_reported") = Len(before) - Number("retained") - pairs
<1>1. Init => KeptInv
  BY EmptyKept DEF Init
<1>2. TimeInv /\ CallInv /\ KeptInv /\ EventsInv /\ [Next]_vars => [Exact]_vars
  <2> SUFFICES ASSUME TimeInv, CallInv, KeptInv, EventsInv, ClassifyBatch
               PROVE  Exact
    OBVIOUS
  <2> DEFINE batch == Fresh(call.batch, Same(call.batch))
  <2> SUFFICES ASSUME NEW p \in Compared(tracker, batch), last[p].kept
               PROVE  LET before == last[p].findings
                          after == batch.findings[p]
                          told == call'.events[p]
                          Number(status) == Cardinality(Told(told, status))
                          pairs == Smaller(Len(before), Len(after)) - Number("retained")
                      IN /\ \A x \in Fingerprints :
                              Smaller(Times(before, x), Times(after, x)) =
                                  Cardinality({i \in Told(told, "retained") :
                                                  told[i].finding.fingerprint = x})
                         /\ Number("replaced") = pairs
                         /\ Number("new") = Len(after) - Number("retained") - pairs
                         /\ Number("no_longer_reported")
                              = Len(before) - Number("retained") - pairs
    OBVIOUS
  <2>1. WellFormed(call.batch) /\ WellFormed(batch) /\ Known(tracker)
    BY FreshFacts DEF CallInv, ClassifyBatch, KeptInv
  <2>2. p \in Paths
    BY <2>1 DEF Compared, Current, WellFormed, AnyBatch
  <2>3. p \in DOMAIN tracker /\ tracker[p].findings = last[p].findings
    BY <2>2 DEF KeptInv
  <2>4. call'.events[p]
          = Classified(tracker, batch, FreshEvents(call.batch, NoEvents, Same(call.batch)))[p]
    BY DEF ClassifyBatch, EventsInv
  <2>5. call'.events[p] = Related(batch.findings[p], last[p].findings)
    <3>1. Classified(tracker, batch, FreshEvents(call.batch, NoEvents, Same(call.batch)))[p]
            = Related(batch.findings[p],
                      IF p \in DOMAIN tracker THEN tracker[p].findings ELSE <<>>)
      BY <2>1, <2>2, ClassifiedEvents
    <3> QED
      BY <2>3, <2>4, <3>1
  <2>6. batch.findings[p] \in Seq(Findings) /\ last[p].findings \in Seq(Findings)
    BY <2>1, <2>2 DEF WellFormed, AnyBatch, KeptInv
  <2> HIDE DEF batch
  <2> QED
    BY <2>5, <2>6, RelatedCounts
<1>3. [][Exact]_vars => StatusIsExact
  BY PTL DEF StatusIsExact
<1> QED
  BY <1>1, <1>2, <1>3, InitCall, InitTracker, InitEvents, NextCall, NextTracker, NextKept,
     NextEvents, PTL DEF Spec

================================================================================
