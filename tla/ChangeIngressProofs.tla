-------------------------- MODULE ChangeIngressProofs --------------------------
(***************************************************************************)
(* What TLAPS proves of ChangeIngress, for any files, contents, hints and  *)
(* quiet period:                                                           *)
(*                                                                         *)
(*   TypeCorrect         variables have their types; no path is queued     *)
(*                       twice                                             *)
(*   ChangesCorrect      no change is lost on its way to the scheduler     *)
(*   ObservationCorrect  no time of observation outlives its batch         *)
(***************************************************************************)
EXTENDS ChangeIngress, FiniteSetTheorems, SequenceTheorems, TLAPS

(***************************************************************************)
(* The queue.                                                              *)
(***************************************************************************)
\* A queue of the paths S, each of them once.
IsQueue(q, S) == q \in Seq(Paths) /\ IsInjective(q) /\ ToSet(q) = S

\* What is in a sequence, by position.
LEMMA Positions ==
  ASSUME NEW q \in Seq(Paths)
  PROVE  /\ Len(q) \in Nat /\ DOMAIN q = 1 .. Len(q)
         /\ \A i \in 1 .. Len(q) : q[i] \in Paths
         /\ \A p : p \in ToSet(q) <=> \E i \in 1 .. Len(q) : q[i] = p
<1>1. Len(q) \in Nat /\ DOMAIN q = 1 .. Len(q) /\ \A i \in 1 .. Len(q) : q[i] \in Paths
  OBVIOUS
<1> QED
  BY <1>1 DEF ToSet

\* Removing the first path leaves a queue of the others.
LEMMA TakeFacts ==
  ASSUME NEW q, NEW S, IsQueue(q, S), q # <<>>
  PROVE  /\ Head(q) \in S /\ Head(q) \in Paths
         /\ IsQueue(Tail(q), S \ {Head(q)})
<1>1. /\ q \in Seq(Paths) /\ Tail(q) \in Seq(Paths) /\ Len(q) > 0
      /\ Head(q) = q[1] /\ Len(Tail(q)) = Len(q) - 1
      /\ \A i \in 1 .. Len(q) - 1 : Tail(q)[i] = q[i + 1]
  BY DEF IsQueue
<1>2. \A i, j \in 1 .. Len(q) : q[i] = q[j] => i = j
  BY <1>1, Positions DEF IsQueue, IsInjective
<1>3. /\ Len(q) \in Nat
      /\ \A p : p \in S <=> \E i \in 1 .. Len(q) : q[i] = p
  BY <1>1, Positions DEF IsQueue
<1>4. IsInjective(Tail(q))
  <2>1. DOMAIN Tail(q) = 1 .. Len(q) - 1
    BY <1>1, Positions
  <2> SUFFICES ASSUME NEW i \in 1 .. Len(q) - 1, NEW j \in 1 .. Len(q) - 1, q[i + 1] = q[j + 1]
               PROVE  i = j
    BY <1>1, <2>1 DEF IsInjective
  <2> QED
    BY <1>2, <1>3
<1>5. ASSUME NEW p
      PROVE  p \in ToSet(Tail(q)) <=> p \in S \ {Head(q)}
  <2>1. p \in ToSet(Tail(q)) <=> \E i \in 1 .. Len(q) - 1 : q[i + 1] = p
    <3>1. p \in ToSet(Tail(q)) <=> \E i \in 1 .. Len(Tail(q)) : Tail(q)[i] = p
      BY <1>1, Positions
    <3> QED
      BY <1>1, <3>1
  <2>2. ASSUME NEW i \in 1 .. Len(q) - 1, q[i + 1] = p
        PROVE  p \in S \ {Head(q)}
    <3>1. i + 1 \in 1 .. Len(q) /\ 1 \in 1 .. Len(q) /\ i + 1 # 1
      BY <1>1, <1>3
    <3> QED
      BY <1>1, <1>2, <1>3, <2>2, <3>1
  <2>3. ASSUME p \in S, p # Head(q)
        PROVE  \E i \in 1 .. Len(q) - 1 : q[i + 1] = p
    <3>1. PICK i \in 1 .. Len(q) : q[i] = p
      BY <1>3, <2>3
    <3>2. i - 1 \in 1 .. Len(q) - 1 /\ (i - 1) + 1 = i
      BY <1>1, <1>3, <2>3, <3>1
    <3> QED
      BY <3>1, <3>2
  <2> QED
    BY <2>1, <2>2, <2>3
<1>6. Head(q) \in S /\ Head(q) \in Paths
  BY <1>1, <1>3, Positions
<1> QED
  BY <1>1, <1>4, <1>5, <1>6 DEF IsQueue

\* Paths that are not queued may be added to the end, each of them once.
LEMMA AddFacts ==
  ASSUME NEW q, NEW S, IsQueue(q, S), NEW r, NEW T, IsQueue(r, T), S \intersect T = {}
  PROVE  IsQueue(q \o r, S \union T)
<1>1. /\ q \in Seq(Paths) /\ r \in Seq(Paths) /\ q \o r \in Seq(Paths)
      /\ Len(q) \in Nat /\ Len(r) \in Nat
      /\ Len(q \o r) = Len(q) + Len(r)
      /\ \A i \in 1 .. Len(q) + Len(r) :
            (q \o r)[i] = IF i <= Len(q) THEN q[i] ELSE r[i - Len(q)]
  BY ConcatProperties, Positions DEF IsQueue
<1>2. /\ \A i, j \in 1 .. Len(q) : q[i] = q[j] => i = j
      /\ \A i, j \in 1 .. Len(r) : r[i] = r[j] => i = j
  BY <1>1, Positions DEF IsQueue, IsInjective
<1>3. /\ \A p : p \in S <=> \E i \in 1 .. Len(q) : q[i] = p
      /\ \A p : p \in T <=> \E i \in 1 .. Len(r) : r[i] = p
  BY <1>1, Positions DEF IsQueue
<1>4. IsInjective(q \o r)
  <2> DEFINE n == Len(q) + Len(r)
  <2>1. DOMAIN (q \o r) = 1 .. n
    BY <1>1, Positions
  <2> SUFFICES ASSUME NEW i \in 1 .. n, NEW j \in 1 .. n, (q \o r)[i] = (q \o r)[j]
               PROVE  i = j
    BY <2>1 DEF IsInjective
  <2>2. \A k \in 1 .. n : /\ k <= Len(q) => k \in 1 .. Len(q) /\ (q \o r)[k] = q[k]
                          /\ ~ k <= Len(q) => /\ k - Len(q) \in 1 .. Len(r)
                                              /\ (q \o r)[k] = r[k - Len(q)]
    BY <1>1
  <2>3. CASE i <= Len(q) /\ j <= Len(q)
    BY <1>2, <2>2, <2>3
  <2>4. CASE ~ i <= Len(q) /\ ~ j <= Len(q)
    <3>1. i - Len(q) = j - Len(q)
      BY <1>2, <2>2, <2>4
    <3> QED
      BY <1>1, <3>1
  <2>5. ASSUME NEW k \in 1 .. n, NEW m \in 1 .. n, k <= Len(q), ~ m <= Len(q)
        PROVE  (q \o r)[k] # (q \o r)[m]
    <3>1. (q \o r)[k] \in S /\ (q \o r)[m] \in T
      BY <1>3, <2>2, <2>5
    <3> QED
      BY <3>1
  <2> QED
    BY <2>3, <2>4, <2>5
<1>5. ASSUME NEW p
      PROVE  p \in ToSet(q \o r) <=> p \in S \union T
  <2>1. p \in ToSet(q \o r) <=> \E i \in 1 .. Len(q) + Len(r) : (q \o r)[i] = p
    BY <1>1, Positions
  <2>2. ASSUME NEW i \in 1 .. Len(q) + Len(r), (q \o r)[i] = p
        PROVE  p \in S \union T
    <3>1. CASE i <= Len(q)
      BY <1>1, <1>3, <2>2, <3>1
    <3>2. CASE ~ i <= Len(q)
      <4>1. i - Len(q) \in 1 .. Len(r) /\ r[i - Len(q)] = p
        BY <1>1, <2>2, <3>2
      <4> QED
        BY <1>3, <4>1
    <3> QED
      BY <3>1, <3>2
  <2>3. ASSUME p \in S
        PROVE  \E i \in 1 .. Len(q) + Len(r) : (q \o r)[i] = p
    <3>1. PICK i \in 1 .. Len(q) : q[i] = p
      BY <1>3, <2>3
    <3>2. i \in 1 .. Len(q) + Len(r) /\ (q \o r)[i] = p
      BY <1>1, <3>1
    <3> QED
      BY <3>2
  <2>4. ASSUME p \in T
        PROVE  \E i \in 1 .. Len(q) + Len(r) : (q \o r)[i] = p
    <3>1. PICK i \in 1 .. Len(r) : r[i] = p
      BY <1>3, <2>4
    <3>2. i + Len(q) \in 1 .. Len(q) + Len(r) /\ (q \o r)[i + Len(q)] = p
      BY <1>1, <3>1
    <3> QED
      BY <3>2
  <2> QED
    BY <2>1, <2>2, <2>3, <2>4
<1> QED
  BY <1>1, <1>4, <1>5 DEF IsQueue

\* LatestPathQueue.put.
LEMMA PutFacts ==
  ASSUME NEW q, NEW S, IsQueue(q, S), NEW p \in Paths
  PROVE  IsQueue(Put(q, p), S \union {p})
<1>1. CASE p \in ToSet(q)
  BY <1>1 DEF Put, IsQueue
<1>2. CASE p \notin ToSet(q)
  <2>1. IsQueue(<<p>>, {p})
    <3>1. /\ <<p>> \in Seq(Paths) /\ Len(<<p>>) = 1 /\ <<p>>[1] = p /\ DOMAIN <<p>> = 1 .. 1
      OBVIOUS
    <3> QED
      BY <3>1 DEF IsQueue, IsInjective, ToSet
  <2>2. Put(q, p) = q \o <<p>>
    BY <1>2 DEF Put, IsQueue
  <2>3. S \intersect {p} = {}
    BY <1>2 DEF IsQueue
  <2> QED
    BY <2>1, <2>2, <2>3, AddFacts
<1> QED
  BY <1>1, <1>2

\* The same of several paths.
LEMMA PutAllFacts ==
  ASSUME NEW q, NEW S, IsQueue(q, S), NEW T, T \subseteq Paths, NEW r \in PutAll(q, T)
  PROVE  IsQueue(r, S \union T)
<1>1. PICK added \in SetToSeqs(T \ S) : r = q \o added
  BY DEF PutAll, IsQueue
<1> DEFINE U == T \ S
           n == Cardinality(U)
<1>2. IsFiniteSet(U) /\ n \in Nat
  BY IngressAssumption, FS_Subset, FS_CardinalityType
<1>3. added \in [1 .. n -> U] /\ \A i, j \in 1 .. n : i # j => added[i] # added[j]
  BY <1>1 DEF SetToSeqs
<1>4. /\ IsFiniteSet(1 .. n) /\ Cardinality(1 .. n) = n
  BY <1>2, FS_Interval
<1>5. \A p \in U : \E i \in 1 .. n : added[i] = p
  <2>1. added \in Injection(1 .. n, U)
    BY <1>3 DEF Injection, IsInjective
  <2>2. added \in Surjection(1 .. n, U)
    BY <1>2, <1>4, <2>1, FS_Injection
  <2> QED
    BY <2>2 DEF Surjection
<1>6. IsQueue(added, U)
  <2>1. added \in Seq(Paths) /\ DOMAIN added = 1 .. n
    <3>1. added \in [1 .. n -> Paths]
      BY <1>3
    <3> QED
      BY <1>2, <1>3, <3>1, SeqDef
  <2>2. ToSet(added) = U
    <3>1. \A p : p \in ToSet(added) <=> \E i \in 1 .. n : added[i] = p
      BY <2>1 DEF ToSet
    <3>2. ASSUME NEW p \in ToSet(added)
          PROVE  p \in U
      <4>1. PICK i \in 1 .. n : added[i] = p
        BY <3>1
      <4> HIDE DEF U, n
      <4> QED
        BY <1>3, <4>1
    <3>3. U \subseteq ToSet(added)
      BY <1>5, <3>1
    <3> HIDE DEF U
    <3> QED
      BY <3>2, <3>3
  <2> QED
    BY <1>3, <2>1, <2>2 DEF IsQueue, IsInjective
<1>7. IsQueue(q \o added, S \union U)
  BY <1>6, AddFacts
<1>8. S \union U = S \union T
  OBVIOUS
<1> QED
  BY <1>1, <1>7, <1>8


(***************************************************************************)
(* The inductive invariant.                                                *)
(***************************************************************************)
\* What a suppression may drop: an entry names bytes that the path's last submission
\* was for, or of the hint that the present batch is for.
EntriesInv ==
    /\ loop.pc = "first" => loop.batch = {}
    /\ loop.pc \in {"first", "collect"} => loop.hint = NoDigests
    /\ \A p \in Paths :
        entries[p] # NoDigest =>
            IF p \in loop.batch THEN entries[p] = loop.hint[p] ELSE entries[p] \in submitted[p]

\* The batch that is about to be submitted has taken its times of observation with it.
ObservationInv ==
    loop.pc = "submit" =>
        \A p \in observed : (p \in notices \union Queued) \/ handler = p

IngressInv == TypeOK /\ EntriesInv /\ NoChangeLost /\ ObservationInv /\ NoStaleObservation

Loops ==
    [pc : {"first", "collect", "observe", "submit"}, batch : SUBSET Paths,
     suppressed : SUBSET Paths, quiet : 0 .. Debounce, cap : 0 .. 2 * Debounce,
     hint : [Paths -> Digests \union {NoDigest}]]

Submissions == SUBSET Digests

\* The program starts with every file submitted and nothing on its way.
LEMMA InitIngress == Init => IngressInv
<1> SUFFICES ASSUME Init
             PROVE  IngressInv
  OBVIOUS
<1>a. Debounce \in Nat \ {0}
  BY IngressAssumption
<1>1. <<>> \in Seq(Paths) /\ DOMAIN <<>> = {} /\ ToSet(<<>>) = {}
  BY DEF ToSet
<1>2. NoDigests \in [Paths -> Digests \union {NoDigest}]
  BY DEF NoDigests
<1>3. Waiting \in Loops
  BY <1>a, <1>2 DEF Waiting, Loops
<1>4. submitted \in [Paths -> Submissions]
  BY DEF Init, Submissions
<1>5. TypeOK
  BY <1>a, <1>1, <1>2, <1>3, <1>4 DEF Init, TypeOK, IsInjective, Loops, Submissions
<1>6. EntriesInv /\ NoChangeLost /\ ObservationInv /\ NoStaleObservation
  BY DEF Init, EntriesInv, NoChangeLost, ObservationInv, NoStaleObservation, Waiting, NoDigests
<1> QED
  BY <1>5, <1>6 DEF IngressInv

\* The queue as the lemmas above see it.
LEMMA QueueOfState == TypeOK <=> TypeOK /\ IsQueue(queue, Queued)
  BY DEF TypeOK, IsQueue, Queued

\* Types are preserved.
LEMMA NextTypes == TypeOK /\ [Next]_vars => TypeOK'
<1> SUFFICES ASSUME TypeOK, [Next]_vars
             PROVE  TypeOK'
  OBVIOUS
<1> USE DEF Loops, Submissions
<1>a. Debounce \in Nat \ {0}
  BY IngressAssumption
<1>q. IsQueue(queue, Queued)
  BY QueueOfState
<1>t. /\ content \in [Paths -> Digests] /\ notices \subseteq Paths
      /\ handler \in Paths \union {NoPath} /\ observed \subseteq Paths
      /\ hint \in [Paths -> Digests \union {NoDigest}]
      /\ entries \in [Paths -> Digests \union {NoDigest}] /\ loop \in Loops
      /\ submitted \in [Paths -> Submissions]
  BY DEF TypeOK
<1>w. Waiting \in Loops /\ NoDigests \in [Paths -> Digests \union {NoDigest}]
  BY <1>a DEF Waiting, NoDigests
<1>1. ASSUME NEW p \in Paths, Edit(p) \/ PublishHint(p) \/ Observe(p) \/ Expire(p)
      PROVE  TypeOK'
  <2>1. CASE Edit(p)
    <3>1. PICK d \in ContentsOf[p] : content' = [content EXCEPT ![p] = d]
      BY <2>1 DEF Edit
    <3>2. ContentsOf[p] \subseteq Digests
      BY IngressAssumption
    <3>3. content' \in [Paths -> Digests]
      BY <1>t, <3>1, <3>2
    <3> QED
      BY <1>t, <2>1, <3>3 DEF TypeOK, Edit, Queued
  <2>2. CASE PublishHint(p)
    <3>1. hint' \in [Paths -> Digests \union {NoDigest}]
      BY <1>1, <1>a, <1>t, <2>2 DEF PublishHint
    <3> QED
      BY <1>t, <2>2, <3>1 DEF TypeOK, PublishHint, Queued
  <2>3. CASE Observe(p)
    BY <1>1, <1>t, <2>3 DEF TypeOK, Observe, Queued
  <2>4. CASE Expire(p)
    BY <1>1, <1>t, <2>4 DEF TypeOK, Expire, Queued
  <2> QED
    BY <1>1, <2>1, <2>2, <2>3, <2>4
<1>2. CASE Enqueue
  <2>1. IsQueue(queue', Queued \union {handler})
    BY <1>2, <1>q, <1>t, PutFacts DEF Enqueue
  <2> QED
    BY <1>2, <1>t, <2>1 DEF TypeOK, Enqueue, IsQueue
<1>3. CASE TakeHint
  <2>1. queue' \in Seq(Paths) /\ IsInjective(queue')
    <3>1. CASE UNCHANGED queue
      BY <3>1 DEF TypeOK
    <3>2. ASSUME NEW hinted, queue' \in PutAll(queue, Deferred(hinted))
          PROVE  queue' \in Seq(Paths) /\ IsInjective(queue')
      <4>1. Deferred(hinted) \subseteq Paths
        BY <1>t DEF Deferred
      <4> QED
        BY <1>q, <3>2, <4>1, PutAllFacts DEF IsQueue
    <3> QED
      BY <1>3, <3>1, <3>2 DEF TakeHint
  <2>2. hint' \in [Paths -> Digests \union {NoDigest}]
    BY <1>3, <1>w DEF TakeHint
  <2>3. entries' \in [Paths -> Digests \union {NoDigest}] /\ loop' \in Loops
    <3>1. CASE UNCHANGED <<entries, loop>>
      BY <1>t, <3>1
    <3> DEFINE hinted == {p \in Paths : hint[p] # NoDigest /\ hint[p] = content[p]}
               OnHinted(f) == [p \in Paths |-> IF p \in hinted THEN hint[p] ELSE f[p]]
    <3>2. ASSUME entries' = OnHinted(entries),
                 loop' = [loop EXCEPT !.pc = "observe", !.batch = hinted, !.quiet = 0, !.cap = 0,
                              !.suppressed = @ \union (loop.batch \cap hinted),
                              !.hint = OnHinted(NoDigests)]
          PROVE  entries' \in [Paths -> Digests \union {NoDigest}] /\ loop' \in Loops
      <4>1. /\ OnHinted(entries) \in [Paths -> Digests \union {NoDigest}]
            /\ OnHinted(NoDigests) \in [Paths -> Digests \union {NoDigest}]
        BY <1>t, <1>w
      <4>2. hinted \subseteq Paths /\ loop.suppressed \union (loop.batch \cap hinted) \subseteq Paths
        BY <1>t
      <4>3. 0 \in 0 .. Debounce /\ 0 \in 0 .. 2 * Debounce
        BY <1>a
      <4> HIDE DEF hinted, OnHinted
      <4> QED
        BY <1>t, <3>2, <4>1, <4>2, <4>3
    <3> QED
      BY <1>3, <3>1, <3>2 DEF TakeHint
  <2> QED
    BY <1>3, <1>t, <2>1, <2>2, <2>3 DEF TypeOK, TakeHint
<1>4. CASE Tick
  <2>1. loop' \in Loops
    <3>1. loop.quiet - 1 \in 0 .. Debounce /\ loop.cap - 1 \in 0 .. 2 * Debounce
      <4>1. loop.quiet \in 0 .. Debounce /\ loop.cap \in 0 .. 2 * Debounce
        BY <1>t
      <4>2. loop.quiet # 0 /\ loop.cap # 0
        BY <1>4 DEF Tick, Due
      <4> QED
        BY <1>a, <4>1, <4>2
    <3>2. loop' = [loop EXCEPT !.quiet = @ - 1, !.cap = @ - 1]
      BY <1>4 DEF Tick
    <3> QED
      BY <1>t, <3>1, <3>2
  <2> QED
    BY <1>4, <2>1 DEF Tick, TypeOK
<1>5. CASE SuppressFirst \/ TakeFirst \/ SuppressMore \/ TakeMore
  <2>1. PICK p \in Queued : Taking(p)
    BY <1>5 DEF SuppressFirst, TakeFirst, SuppressMore, TakeMore
  <2>2. p \in Paths /\ queue' \in Seq(Paths) /\ IsInjective(queue')
    BY <1>q, <2>1, TakeFacts DEF Taking, IsQueue
  <2>3. entries' \in [Paths -> Digests \union {NoDigest}]
    BY <1>t, <2>1 DEF Taking, EntriesAfter
  <2>4. loop' \in Loops
    <3>1. Queued \subseteq Paths
      BY <1>t, Positions DEF TypeOK, Queued
    <3>2. CASE SuppressFirst \/ SuppressMore
      BY <1>t, <3>1, <3>2 DEF SuppressFirst, SuppressMore
    <3>3. CASE TakeFirst
      <4>1. Debounce \in 0 .. Debounce /\ 2 * Debounce \in 0 .. 2 * Debounce
        BY <1>a
      <4>2. PICK q \in Paths : loop' = [loop EXCEPT !.pc = "collect", !.batch = {q},
                                            !.quiet = Debounce, !.cap = 2 * Debounce]
        BY <3>1, <3>3 DEF TakeFirst
      <4>3. {q} \subseteq Paths
        OBVIOUS
      <4> QED
        BY <1>t, <4>1, <4>2, <4>3
    <3>4. CASE TakeMore
      <4>1. Debounce \in 0 .. Debounce
        BY <1>a
      <4>2. PICK q \in Paths : loop' = [Postponed EXCEPT !.batch = @ \union {q}]
        BY <3>1, <3>4 DEF TakeMore
      <4>3. Postponed \in Loops
        BY <1>t, <4>1 DEF Postponed
      <4> QED
        BY <4>2, <4>3
    <3> QED
      BY <1>5, <3>2, <3>3, <3>4
  <2> QED
    BY <1>t, <2>1, <2>2, <2>3, <2>4 DEF TypeOK, Taking
<1>6. CASE Flush \/ ConsumeObserved
  <2>1. 0 \in 0 .. Debounce /\ 0 \in 0 .. 2 * Debounce
    BY <1>a
  <2>2. loop' \in Loops
    BY <1>6, <1>t, <2>1 DEF Flush, ConsumeObserved
  <2> QED
    BY <1>6, <1>t, <2>2 DEF TypeOK, Flush, ConsumeObserved, Queued
<1>7. CASE Submit
  <2>1. submitted' \in [Paths -> Submissions]
    BY <1>7, <1>t DEF Submit
  <2> QED
    BY <1>7, <1>t, <1>w, <2>1 DEF TypeOK, Submit
<1>8. CASE UNCHANGED vars
  BY <1>8 DEF TypeOK, vars, Queued
<1> QED
  BY <1>1, <1>2, <1>3, <1>4, <1>5, <1>6, <1>7, <1>8 DEF Next, Loop


\* A path that is taken from the queue is the only one that leaves it.
LEMMA TakingLeaves ==
  ASSUME TypeOK, NEW p, Taking(p)
  PROVE  p \in Queued /\ p \in Paths /\ Queued' = Queued \ {p}
<1>1. IsQueue(queue, Queued) /\ queue # <<>> /\ p = Head(queue) /\ queue' = Tail(queue)
  BY QueueOfState DEF Taking
<1>2. ToSet(queue') = Queued \ {p} /\ p \in Queued /\ p \in Paths
  BY <1>1, TakeFacts DEF IsQueue
<1> QED
  BY <1>2 DEF Queued

\* What a flush by a hint leaves: nothing that was collected is forgotten.
LEMMA HintLeaves ==
  ASSUME TypeOK, TakeHint, UNCHANGED <<queue, entries, loop>> => FALSE
  PROVE  /\ Queued \union (loop.batch \ loop'.batch) \subseteq Queued'
         /\ Queued' \subseteq Queued \union loop.batch
         /\ loop'.pc = "observe"
         /\ loop'.suppressed = loop.suppressed \union (loop.batch \intersect loop'.batch)
         /\ \A p \in Paths :
                IF p \in loop'.batch
                THEN entries'[p] = hint[p] /\ loop'.hint[p] = hint[p]
                ELSE entries'[p] = entries[p] /\ loop'.hint[p] = NoDigest
<1> DEFINE hinted == {p \in Paths : hint[p] # NoDigest /\ hint[p] = content[p]}
           OnHinted(f) == [p \in Paths |-> IF p \in hinted THEN hint[p] ELSE f[p]]
<1>1. /\ queue' \in PutAll(queue, Deferred(hinted))
      /\ entries' = OnHinted(entries)
      /\ loop' = [loop EXCEPT !.pc = "observe", !.batch = hinted, !.quiet = 0, !.cap = 0,
                              !.suppressed = @ \union (loop.batch \cap hinted),
                              !.hint = OnHinted(NoDigests)]
  BY DEF TakeHint
<1>2. IsQueue(queue', Queued \union Deferred(hinted))
  <2>1. Deferred(hinted) \subseteq Paths
    BY DEF Deferred, TypeOK
  <2> QED
    BY <1>1, <2>1, QueueOfState, PutAllFacts
<1>3. Queued' = Queued \union (loop.batch \ hinted)
  BY <1>2 DEF IsQueue, Queued, Deferred
<1>4. /\ loop'.pc = "observe" /\ loop'.batch = hinted /\ loop'.hint = OnHinted(NoDigests)
      /\ loop'.suppressed = loop.suppressed \union (loop.batch \cap hinted)
  BY <1>1 DEF TypeOK
<1>5. \A p \in Paths :
          IF p \in loop'.batch
          THEN entries'[p] = hint[p] /\ loop'.hint[p] = hint[p]
          ELSE entries'[p] = entries[p] /\ loop'.hint[p] = NoDigest
  BY <1>1, <1>4 DEF NoDigests
<1> QED
  BY <1>3, <1>4, <1>5

\* Entries name what was brought in.
LEMMA NextEntries == TypeOK /\ EntriesInv /\ [Next]_vars => EntriesInv'
<1> SUFFICES ASSUME TypeOK, EntriesInv, [Next]_vars
             PROVE  EntriesInv'
  OBVIOUS
<1>t. /\ entries \in [Paths -> Digests \union {NoDigest}] /\ loop \in Loops
      /\ submitted \in [Paths -> Submissions]
  BY DEF TypeOK, Loops, Submissions
<1>i. /\ loop.pc = "first" => loop.batch = {}
      /\ loop.pc \in {"first", "collect"} => loop.hint = NoDigests
      /\ \A p \in Paths :
          entries[p] # NoDigest =>
              IF p \in loop.batch THEN entries[p] = loop.hint[p] ELSE entries[p] \in submitted[p]
  BY DEF EntriesInv
<1>n. \A p \in Paths : NoDigests[p] = NoDigest
  BY DEF NoDigests
<1>1. ASSUME NEW p \in Paths, Edit(p) \/ PublishHint(p) \/ Observe(p)
      PROVE  EntriesInv'
  BY <1>1, <1>i DEF EntriesInv, Edit, PublishHint, Observe
<1>2. ASSUME NEW p \in Paths, Expire(p)
      PROVE  EntriesInv'
  BY <1>2, <1>i, <1>t DEF EntriesInv, Expire
<1>3. CASE Enqueue \/ UNCHANGED vars
  BY <1>3, <1>i DEF EntriesInv, Enqueue, vars
<1>4. CASE TakeHint
  <2>1. CASE UNCHANGED <<queue, entries, loop>>
    BY <1>4, <1>i, <2>1 DEF EntriesInv, TakeHint
  <2>2. ASSUME UNCHANGED <<queue, entries, loop>> => FALSE
        PROVE  EntriesInv'
    <3>1. loop.pc \in {"first", "collect"} /\ submitted' = submitted
      BY <1>4 DEF TakeHint
    <3>2. \A p \in Paths : p \in loop.batch => entries[p] = NoDigest
      BY <1>i, <1>n, <3>1
    <3> QED
      BY <1>4, <1>i, <2>2, <3>1, <3>2, HintLeaves DEF EntriesInv
  <2> QED
    BY <2>1, <2>2
<1>5. CASE Tick \/ Flush \/ ConsumeObserved
  <2>1. loop'.hint = loop.hint /\ loop'.batch = loop.batch /\ UNCHANGED <<entries, submitted>>
    BY <1>5, <1>t DEF Tick, Flush, ConsumeObserved, Loops
  <2>2. loop'.pc # "first" /\ (loop'.pc = "collect" => loop.pc = "collect")
    BY <1>5, <1>t DEF Tick, Flush, ConsumeObserved, Loops
  <2> QED
    BY <1>i, <1>t, <2>1, <2>2 DEF EntriesInv, Loops
<1>6. CASE SuppressFirst \/ SuppressMore \/ TakeFirst \/ TakeMore
  <2>1. PICK p \in Queued :
            /\ Taking(p)
            /\ \/ loop'.batch = loop.batch
               \/ loop'.batch = loop.batch \union {p} /\ ~ Matches(p)
            /\ loop'.pc = "first" => loop'.batch = loop.batch /\ loop.pc = "first"
            /\ loop'.pc \in {"first", "collect"} /\ loop.pc \in {"first", "collect"}
            /\ loop'.hint = loop.hint
    <3>1. CASE SuppressFirst
      BY <1>t, <3>1 DEF SuppressFirst, Loops
    <3>4. CASE SuppressMore
      BY <1>t, <3>4 DEF SuppressMore, Loops
    <3>2. CASE TakeFirst
      BY <1>t, <1>i, <3>2 DEF TakeFirst, Loops
    <3>3. CASE TakeMore
      BY <1>t, <3>3 DEF TakeMore, Postponed, Loops
    <3> QED
      BY <1>6, <3>1, <3>2, <3>3, <3>4
  <2>2. /\ entries' = EntriesAfter(p) /\ submitted' = submitted /\ p \in Paths
    BY <2>1, TakingLeaves DEF Taking
  <2>3. /\ \A q \in Paths : entries'[q] # NoDigest => entries'[q] = entries[q]
        /\ ~ Matches(p) => entries'[p] = NoDigest
    BY <1>t, <2>2 DEF EntriesAfter
  <2> QED
    BY <1>i, <2>1, <2>2, <2>3 DEF EntriesInv
<1>7. CASE Submit
  <2>1. /\ loop' = Waiting /\ entries' = entries
        /\ \A p \in Paths : IF p \in loop.batch
                            THEN loop.hint[p] = NoDigest \/ loop.hint[p] \in submitted'[p]
                            ELSE submitted'[p] = submitted[p]
    BY <1>7 DEF Submit
  <2> QED
    BY <1>i, <2>1 DEF EntriesInv, Waiting
<1> QED
  BY <1>1, <1>2, <1>3, <1>4, <1>5, <1>6, <1>7 DEF Next, Loop


\* A change that is still to be submitted is on its way.
LEMMA NextChanges == TypeOK /\ EntriesInv /\ NoChangeLost /\ [Next]_vars => NoChangeLost'
<1> SUFFICES ASSUME TypeOK, EntriesInv, NoChangeLost, [Next]_vars,
                    NEW p \in Paths,
                    content'[p] \notin submitted'[p]
             PROVE  Coming(p)'
  BY DEF NoChangeLost
<1>t. /\ content \in [Paths -> Digests] /\ loop \in Loops
      /\ hint \in [Paths -> Digests \union {NoDigest}]
      /\ submitted \in [Paths -> Submissions]
  BY DEF TypeOK, Loops, Submissions
<1>i. UNCHANGED <<content, submitted>> => Coming(p)
  BY DEF NoChangeLost
<1>1. ASSUME NEW q \in Paths, Edit(q)
      PROVE  Coming(p)'
  <2>1. CASE p = q
    BY <1>1, <2>1 DEF Coming, Edit
  <2>2. CASE p # q
    <3>1. content'[p] = content[p] /\ submitted' = submitted
      BY <1>1, <1>t, <2>2 DEF Edit
    <3>2. Coming(p)
      BY <3>1 DEF NoChangeLost
    <3> QED
      BY <1>1, <3>2 DEF Coming, Edit, Queued
  <2> QED
    BY <2>1, <2>2
<1>2. ASSUME NEW q \in Paths, PublishHint(q) \/ Observe(q) \/ Expire(q)
      PROVE  Coming(p)'
  <2>1. CASE PublishHint(q) \/ Expire(q)
    BY <1>i, <2>1 DEF Coming, Queued, PublishHint, Expire
  <2>2. CASE Observe(q)
    BY IngressAssumption, <1>i, <2>2 DEF Coming, Queued, Observe
  <2> QED
    BY <1>2, <2>1, <2>2
<1>3. CASE Enqueue
  <2>1. Queued' = Queued \union {handler}
    <3>1. handler \in Paths
      BY <1>3 DEF TypeOK, Enqueue
    <3> QED
      BY <1>3, <3>1, QueueOfState, PutFacts DEF Enqueue, Queued, IsQueue
  <2> QED
    BY <1>3, <1>i, <2>1 DEF Coming, Enqueue
<1>4. CASE TakeHint
  <2>0. Coming(p) /\ UNCHANGED <<notices, handler>>
    BY <1>4, <1>i DEF TakeHint
  <2>1. CASE UNCHANGED <<queue, entries, loop>>
    BY <2>0, <2>1 DEF Coming, Queued
  <2>2. CASE UNCHANGED <<queue, entries, loop>> => FALSE
    BY <1>4, <2>0, <2>2, HintLeaves DEF Coming
  <2> QED
    BY <2>1, <2>2
<1>5. CASE Tick \/ Flush \/ ConsumeObserved
  BY <1>5, <1>i, <1>t DEF Coming, Queued, Tick, Flush, ConsumeObserved, Loops
<1>6. ASSUME NEW q \in Queued, Taking(q), Matches(q), loop'.batch = loop.batch,
             loop.pc \in {"first", "collect"}
      PROVE  Coming(p)'
  <2>1. Coming(p) /\ UNCHANGED <<content, submitted, notices, handler>> /\ Queued' = Queued \ {q}
    BY <1>6, <1>i, TakingLeaves DEF Taking
  <2>2. CASE p # q
    BY <1>6, <2>1, <2>2 DEF Coming
  <2>3. CASE p = q
    <3>1. entries[p] # NoDigest /\ entries[p] = content[p]
      BY <1>6, <2>3 DEF Matches
    <3>2. p \in loop.batch
      BY <2>1, <3>1 DEF EntriesInv
    <3>3. entries[p] = NoDigest
      BY <1>6, <3>1, <3>2 DEF EntriesInv, NoDigests
    <3> QED
      BY <3>1, <3>3
  <2> QED
    BY <2>2, <2>3
<1>7. ASSUME NEW q \in Queued, Taking(q), loop'.batch = loop.batch \union {q}
      PROVE  Coming(p)'
  BY <1>7, <1>i, TakingLeaves DEF Taking, Coming
<1>8. CASE SuppressFirst \/ SuppressMore
  BY <1>6, <1>8, <1>t DEF SuppressFirst, SuppressMore, Loops
<1>9. CASE TakeFirst \/ TakeMore
  <2>1. CASE TakeFirst
    <3>1. loop.batch = {}
      BY <2>1 DEF EntriesInv, TakeFirst
    <3> QED
      BY <1>7, <1>t, <2>1, <3>1 DEF TakeFirst, Loops
  <2>2. CASE TakeMore
    BY <1>7, <1>t, <2>2 DEF TakeMore, Postponed, Loops
  <2> QED
    BY <1>9, <2>1, <2>2
<1>10. CASE Submit
  <2>1. p \notin loop.batch /\ submitted'[p] = submitted[p] /\ content' = content
    <3>1. content'[p] = content[p] /\ content[p] # NoDigest
      BY IngressAssumption, <1>10, <1>t DEF Submit
    <3>2. p \in loop.batch => content[p] \in submitted'[p]
      BY <1>10, <3>1 DEF Submit
    <3> QED
      BY <1>10, <3>1, <3>2 DEF Submit
  <2>2. Coming(p)
    BY <2>1 DEF NoChangeLost
  <2> QED
    BY <1>10, <2>1, <2>2 DEF Coming, Queued, Submit
<1>11. CASE UNCHANGED vars
  BY <1>11, <1>i DEF vars, Coming, Queued
<1> QED
  BY <1>1, <1>2, <1>3, <1>4, <1>5, <1>8, <1>9, <1>10, <1>11 DEF Next, Loop

\* The times of observation.
LEMMA NextObservation ==
  TypeOK /\ EntriesInv /\ ObservationInv /\ NoStaleObservation /\ [Next]_vars
    => ObservationInv' /\ NoStaleObservation'
<1> SUFFICES ASSUME TypeOK, EntriesInv, ObservationInv, NoStaleObservation, [Next]_vars
             PROVE  ObservationInv' /\ NoStaleObservation'
  OBVIOUS
<1>t. loop \in Loops /\ handler \in Paths \union {NoPath}
  BY DEF TypeOK, Loops
<1>i. \A p \in observed : Coming(p) \/ p \in loop.suppressed
  BY DEF NoStaleObservation
<1>1. ASSUME NEW q \in Paths, Edit(q) \/ PublishHint(q) \/ Observe(q) \/ Expire(q)
      PROVE  ObservationInv' /\ NoStaleObservation'
  <2>1. CASE Edit(q) \/ PublishHint(q) \/ Expire(q)
    <3>1. UNCHANGED <<queue, handler, observed, loop>> /\ notices \subseteq notices'
      BY <2>1 DEF Edit, PublishHint, Expire
    <3> QED
      BY <1>i, <3>1 DEF ObservationInv, NoStaleObservation, Coming, Queued
  <2>2. CASE Observe(q)
    <3>1. /\ UNCHANGED <<queue, loop>> /\ handler' = q /\ handler \notin Paths
          /\ observed' = observed \union {q} /\ notices' = notices \ {q}
      BY IngressAssumption, <2>2 DEF Observe
    <3>2. observed \subseteq Paths
      BY DEF TypeOK
    <3> QED
      BY <1>i, <3>1, <3>2 DEF ObservationInv, NoStaleObservation, Coming, Queued
  <2> QED
    BY <1>1, <2>1, <2>2
<1>2. CASE Enqueue
  <2>1. Queued' = Queued \union {handler}
    <3>1. handler \in Paths
      BY <1>2, <1>t DEF Enqueue
    <3> QED
      BY <1>2, <3>1, QueueOfState, PutFacts DEF Enqueue, Queued, IsQueue
  <2> QED
    BY <1>2, <2>1 DEF ObservationInv, NoStaleObservation, Coming, Enqueue
<1>3. CASE TakeHint
  <2>0. UNCHANGED <<notices, handler, observed>> /\ loop.pc # "submit"
    BY <1>3 DEF TakeHint
  <2>1. CASE UNCHANGED <<queue, entries, loop>>
    BY <1>i, <2>0, <2>1 DEF ObservationInv, NoStaleObservation, Coming, Queued
  <2>2. CASE UNCHANGED <<queue, entries, loop>> => FALSE
    <3>1. /\ Queued \union (loop.batch \ loop'.batch) \subseteq Queued'
          /\ loop'.pc = "observe"
          /\ loop'.suppressed = loop.suppressed \union (loop.batch \intersect loop'.batch)
      BY <1>3, <2>2, HintLeaves
    <3> QED
      BY <1>i, <2>0, <3>1 DEF ObservationInv, NoStaleObservation, Coming
  <2> QED
    BY <2>1, <2>2
<1>4. CASE Tick \/ Flush
  <2>1. /\ loop'.pc # "submit" /\ loop'.batch = loop.batch /\ loop'.suppressed = loop.suppressed
        /\ UNCHANGED <<notices, queue, handler, observed>>
    BY <1>4, <1>t DEF Tick, Flush, Loops
  <2> QED
    BY <1>i, <2>1 DEF ObservationInv, NoStaleObservation, Coming, Queued
<1>5. CASE ConsumeObserved
  <2>1. /\ observed' = observed \ (loop.batch \union loop.suppressed)
        /\ loop'.batch = loop.batch /\ UNCHANGED <<notices, queue, handler>>
    BY <1>5, <1>t DEF ConsumeObserved, Consumed, Loops
  <2> QED
    BY <1>i, <2>1 DEF ObservationInv, NoStaleObservation, Coming, Queued
<1>6. CASE SuppressFirst \/ SuppressMore \/ TakeFirst \/ TakeMore
  <2>1. PICK q \in Queued :
            /\ Taking(q) /\ loop'.pc # "submit"
            /\ loop.batch \union loop.suppressed \union {q}
                 \subseteq loop'.batch \union loop'.suppressed
    <3>1. CASE SuppressFirst \/ SuppressMore
      BY <1>t, <3>1 DEF SuppressFirst, SuppressMore, Loops
    <3>2. CASE TakeFirst
      <4>1. loop.batch = {}
        BY <3>2 DEF EntriesInv, TakeFirst
      <4> QED
        BY <1>t, <3>2, <4>1 DEF TakeFirst, Loops
    <3>3. CASE TakeMore
      BY <1>t, <3>3 DEF TakeMore, Postponed, Loops
    <3> QED
      BY <1>6, <3>1, <3>2, <3>3
  <2>2. Queued' = Queued \ {q} /\ UNCHANGED <<notices, handler, observed>>
    BY <2>1, TakingLeaves DEF Taking
  <2> QED
    BY <1>i, <2>1, <2>2 DEF ObservationInv, NoStaleObservation, Coming
<1>7. CASE Submit
  <2>1. /\ loop.pc = "submit" /\ loop' = Waiting
        /\ UNCHANGED <<notices, queue, handler, observed>>
    BY <1>7 DEF Submit
  <2> QED
    BY <2>1 DEF ObservationInv, NoStaleObservation, Coming, Queued, Waiting
<1>8. CASE UNCHANGED vars
  BY <1>8 DEF vars, ObservationInv, NoStaleObservation, Coming, Queued
<1> QED
  BY <1>1, <1>2, <1>3, <1>4, <1>5, <1>6, <1>7, <1>8 DEF Next, Loop

\* All of it together.
LEMMA NextIngress == IngressInv /\ [Next]_vars => IngressInv'
  BY NextTypes, NextEntries, NextChanges, NextObservation DEF IngressInv

--------------------------------------------------------------------------------
\* Every variable has its type in every reachable state, and no path is queued twice.
THEOREM TypeCorrect == Spec => []TypeOK
<1>1. IngressInv => TypeOK
  BY DEF IngressInv
<1> QED
  BY <1>1, InitIngress, NextIngress, PTL DEF Spec

\* Whatever is suppressed, deferred or flushed early, and in whichever order the observer
\* and the main loop run, the loop will look again at every file whose bytes are neither
\* those it last submitted nor those of the hint that this submission was for.
THEOREM ChangesCorrect == Spec => []NoChangeLost
<1>1. IngressInv => NoChangeLost
  BY DEF IngressInv
<1> QED
  BY <1>1, InitIngress, NextIngress, PTL DEF Spec

\* A path that is neither on its way to a batch nor suppressed by one has no time of
\* observation left over.
THEOREM ObservationCorrect == Spec => []NoStaleObservation
<1>1. IngressInv => NoStaleObservation
  BY DEF IngressInv
<1> QED
  BY <1>1, InitIngress, NextIngress, PTL DEF Spec

================================================================================
