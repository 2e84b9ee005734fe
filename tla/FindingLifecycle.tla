--------------------------- MODULE FindingLifecycle ---------------------------
(***************************************************************************)
(* The functions that relate the findings of one review to those of the    *)
(* last: FindingLifecycleTracker (review_lifecycle.py) and fresh_findings  *)
(* (feedback.py).                                                          *)
(*                                                                         *)
(* A finding is the fingerprint of its path and title, and its line; the   *)
(* findings of a file are a sequence sorted by both, and may repeat one.   *)
(* A tracker maps the paths it remembers to the time and the findings of   *)
(* their last snapshot.  A batch has the time it was flushed, the paths it *)
(* reviewed, those of them known to be stale, and the findings of each.    *)
(* Paths are numbered in their sort order.  Findings and events are        *)
(* sequences per path: nothing tells apart the order of those of two paths. *)
(***************************************************************************)
EXTENDS Integers, FiniteSets, Sequences, SequencesExt

CONSTANTS
    Paths,              \* watched paths
    MaxTrackedFiles,    \* MAX_TRACKED_FILES
    MaxTrackedFindings  \* MAX_TRACKED_FINDINGS

ASSUME TrackerAssumption ==
    /\ Paths \subseteq Int /\ IsFiniteSet(Paths)
    /\ MaxTrackedFiles \in Nat \ {0}
    /\ MaxTrackedFindings \in Nat

NoFingerprint == 0

EmptyTracker == [p \in {} |-> 0]

Smaller(m, n) == IF m < n THEN m ELSE n
Larger(m, n) == IF m < n THEN n ELSE m

NoEvents == [p \in Paths |-> <<>>]

Event(status, finding, previous) ==
    [status |-> status, finding |-> finding, previous |-> previous]

\* The places of the elements of some paths' sequences, and how many these are.
Places(of, S) == UNION {{p} \X DOMAIN of[p] : p \in S}

Total(of, S) == Cardinality(Places(of, S))

\* The findings of each path that a tracker, or a history, knows.
FindingsOf(known) == [p \in DOMAIN known |-> known[p].findings]

\* Mutant: a match leaves the earlier finding for another one to take.
TakeFirstAgain(match, finding) ==
    IF \E i \in DOMAIN match.left :
          match.left[i].fingerprint = finding.fingerprint
    THEN [match EXCEPT !.retained = Append(@, finding)]
    ELSE [match EXCEPT !.fresh = Append(@, finding)]

(***************************************************************************)
(* classify                                                                *)
(***************************************************************************)
\* One finding of the present review takes the first remaining finding of the
\* last one that has its fingerprint.
TakeFirst(match, finding) ==
    LET same == {i \in DOMAIN match.left :
                    match.left[i].fingerprint = finding.fingerprint}
    IN IF same = {}
       THEN [match EXCEPT !.fresh = Append(@, finding)]
       ELSE [match EXCEPT !.left = RemoveAt(@, Min(same)),
                          !.retained = Append(@, finding)]

\* The findings of both reviews that are the same, and what is left of each.
Match(current, previous) ==
    LET upTo[n \in 0 .. Len(current)] ==
            IF n = 0 THEN [retained |-> <<>>, fresh |-> <<>>, left |-> previous]
            ELSE TakeFirst(upTo[n - 1], current[n])
    IN upTo[Len(current)]

\* What became of each finding of one file.
Related(current, previous) ==
    LET match == Match(current, previous)
        n == Smaller(Len(match.left), Len(match.fresh))
        gone == SubSeq(match.left, n + 1, Len(match.left))
        new == SubSeq(match.fresh, n + 1, Len(match.fresh))
    IN [i \in DOMAIN match.retained |->
            Event("retained", match.retained[i], match.retained[i].fingerprint)]
       \o [i \in 1 .. n |-> Event("replaced", match.fresh[i], match.left[i].fingerprint)]
       \o [i \in DOMAIN gone |-> Event("no_longer_reported", gone[i], gone[i].fingerprint)]
       \o [i \in DOMAIN new |-> Event("new", new[i], NoFingerprint)]

\* The reviewed paths a batch still has something to say about, and those of them
\* for which a newer snapshot was classified before.
Current(batch) == batch.files \ batch.stale

\* Mutant: an older snapshot is compared like any other.
OutOfOrderNever(tracker, batch) == {}

OutOfOrder(tracker, batch) ==
    {p \in Current(batch) \cap DOMAIN tracker : batch.at < tracker[p].at}

Compared(tracker, batch) == Current(batch) \ OutOfOrder(tracker, batch)

EventsOf(tracker, batch, p) ==
    IF p \in OutOfOrder(tracker, batch)
    THEN [i \in DOMAIN batch.findings[p] |->
            Event("stale", batch.findings[p][i], NoFingerprint)]
    ELSE Related(batch.findings[p],
                 IF p \in DOMAIN tracker THEN tracker[p].findings ELSE <<>>)

\* The events of a batch that has some before it is classified.
Classified(tracker, batch, events) ==
    [p \in Paths |->
        IF p \in Current(batch) THEN events[p] \o EventsOf(tracker, batch, p)
        ELSE events[p]]

\* A batch with the findings of some paths only, and one in which paths are stale.
OnlyIn(batch, S) ==
    [batch EXCEPT !.findings = [p \in Paths |-> IF p \in S THEN @[p] ELSE <<>>]]

Without(batch, S) == [OnlyIn(batch, Paths \ S) EXCEPT !.stale = @ \union S]

InOrder(tracker, batch) == Without(batch, OutOfOrder(tracker, batch))

(***************************************************************************)
(* _bound_state                                                            *)
(***************************************************************************)
\* The paths that come before p, newest snapshot first.
Ahead(tracker, p) ==
    {q \in DOMAIN tracker : \/ tracker[q].at > tracker[p].at
                            \/ tracker[q].at = tracker[p].at /\ q < p}

\* Mutant: every file may fill the room for findings.
RoomForEach(tracker, p) == MaxTrackedFindings

\* How many findings the paths ahead leave room for.
Room(tracker, p) ==
    Larger(0, MaxTrackedFindings - Total(FindingsOf(tracker), Ahead(tracker, p)))

Bound(tracker) ==
    [p \in {q \in DOMAIN tracker : Cardinality(Ahead(tracker, q)) < MaxTrackedFiles} |->
        [at |-> tracker[p].at,
         findings |-> SubSeq(tracker[p].findings, 1,
                             Smaller(Len(tracker[p].findings), Room(tracker, p)))]]

\* The tracker after a batch was classified.
Tracked(tracker, batch) ==
    LET compared == Compared(tracker, batch)
    IN Bound([p \in DOMAIN tracker \union compared |->
                 IF p \in compared
                 THEN [at |-> batch.at, findings |-> batch.findings[p]]
                 ELSE tracker[p]])

(***************************************************************************)
(* fresh_findings, where `same' are the paths that still have the reviewed *)
(* bytes.  Events of a path that changed become stale, one for each        *)
(* fingerprint and line.                                                   *)
(***************************************************************************)
Fresh(batch, same) == Without(batch, batch.files \ same)

FreshEvents(batch, events, same) ==
    LET Reported(p) == {e.finding : e \in ToSet(events[p])} \union ToSet(batch.findings[p])
        Stale(p) == {Event("stale", f, NoFingerprint) : f \in Reported(p)}
    IN [p \in Paths |-> IF p \in batch.files \ same THEN SetToSeq(Stale(p)) ELSE events[p]]

===============================================================================
