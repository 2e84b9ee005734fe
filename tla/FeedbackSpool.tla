----------------------------- MODULE FeedbackSpool -----------------------------
(***************************************************************************)
(* The private spool between the watcher and the hooks of an agent: the    *)
(* directories pending, claimed, acknowledged, rejected and dedupe of      *)
(* feedback.py, SpoolSink.publish, and the hook processes of               *)
(* codex_feedback_hook.py, which claim a batch, deliver it in chunks and   *)
(* acknowledge it or put the rest back.                                    *)
(*                                                                         *)
(* There is no lock around the spool: publish and claim_feedback hold the  *)
(* session route's lock shared, so several hooks and the watcher run them  *)
(* at once, and every file operation is an action of its own.  Only        *)
(* binding and releasing the route hold the lock exclusively.              *)
(***************************************************************************)
EXTENDS Integers, FiniteSets

CONSTANTS
    Batches,        \* fingerprints: the generation, cited bytes and findings of a batch
    Findings,
    Cites,          \* Cites[b]: the findings of batch b
    GenerationOf,   \* GenerationOf[b]: the session generation b was reviewed in
    Agents,
    Hooks,          \* hook processes that may run at once (bound: reused once ended)
    ChunkSize,      \* MAX_DELIVERY_FINDINGS
    MaxGeneration,  \* bound on the number of session generations
    MaxCrashes,     \* bound on the number of processes that are killed
    Republished,    \* the fingerprints a review may yield when they were published before
    NoAgent, NoBatch

VARIABLES
    session,      \* the route's session state file
    recorded,     \* the names in dedupe/
    pending,      \* pending[b]: findings in the file of pending/, {} if there is none
    claimed,      \* claimed[b]: likewise in claimed/
    acknowledged, \* likewise in acknowledged/
    rejected,     \* likewise in rejected/
    expired,      \* claims as old as the claim timeout
    publisher,    \* the watcher in SpoolSink.publish
    hooks,        \* the hook processes
    stale,        \* findings whose file no longer holds the reviewed bytes
    crashes,      \* processes killed so far
    owner,        \* history: the agent each generation was bound to
    delivered,    \* history: findings printed for an agent
    dropped,      \* history: findings discarded as stale by a hook
    interrupted   \* history: findings printed by a hook killed before it settled them

spool == <<recorded, pending, claimed, acknowledged, rejected, expired>>
history == <<delivered, dropped, interrupted>>
vars == <<session, spool, publisher, hooks, stale, crashes, owner, history>>

AgentIds == Agents \union {NoAgent}
BatchIds == Batches \union {NoBatch}
Generations == 0 .. MaxGeneration

ASSUME BoundsAssumption ==
    /\ ChunkSize \in Nat \ {0}
    /\ MaxGeneration \in Nat
    /\ MaxCrashes \in Nat
    /\ Republished \subseteq Batches

ASSUME BatchesAssumption ==
    /\ Cites \in [Batches -> (SUBSET Findings) \ {{}}]
    /\ GenerationOf \in [Batches -> Generations]
    /\ IsFiniteSet(Findings)

ASSUME NullsAssumption == NoAgent \notin Agents /\ NoBatch \notin Batches

IdleHook ==
    [pc |-> "idle", agent |-> NoAgent, todo |-> {}, batch |-> NoBatch,
     payload |-> {}]

IdlePublisher == [pc |-> "idle", batch |-> NoBatch]

Init ==
    /\ session = [state |-> "unbound", generation |-> 0, agent |-> NoAgent]
    /\ recorded = {}
    /\ pending = [b \in Batches |-> {}]
    /\ claimed = [b \in Batches |-> {}]
    /\ acknowledged = [b \in Batches |-> {}]
    /\ rejected = [b \in Batches |-> {}]
    /\ expired = {}
    /\ publisher = IdlePublisher
    /\ hooks = [h \in Hooks |-> IdleHook]
    /\ stale = {}
    /\ crashes = 0
    /\ owner = [g \in Generations |-> NoAgent]
    /\ delivered = {}
    /\ dropped = {}
    /\ interrupted = {}

(***************************************************************************)
(* Files of the spool.  A batch is published as a hard link to its record  *)
(* in dedupe/; a file that a hook has rewritten lacks what was delivered,  *)
(* so a file with all the findings is the record under another name.       *)
(***************************************************************************)
Present(directory) == {b \in Batches : directory[b] # {}}

SameFile(from, to, b) == from[b] = Cites[b] /\ to[b] = Cites[b]

\* Mutant: the name a file is moved from stays.
LeftInPlace(from, to, b) == from

\* What os.replace leaves in the directory it moves a file from.  It does
\* nothing to two names of one file.
Left(from, to, b) == IF SameFile(from, to, b) THEN from ELSE [from EXCEPT ![b] = {}]

Arrived(from, to, b) == [to EXCEPT ![b] = from[b]]

\* The pc values between opening and closing the route's lock.
LockingPcs == {"recover", "replace", "claim"}

SharedLockHeld ==
    \/ publisher.pc # "idle"
    \/ \E h \in Hooks : hooks[h].pc \in LockingPcs

(***************************************************************************)
(* The agent's side of the world: edits, session ends, time and crashes.   *)
(***************************************************************************)
\* A cited file changes, or is changed back to the reviewed bytes.
EditCitedFile(f) ==
    /\ stale' = IF f \in stale THEN stale \ {f} ELSE stale \union {f}
    /\ UNCHANGED <<session, spool, publisher, hooks, crashes, owner, history>>

\* release_session_lease, from the SessionEnd hook of the bound agent.
ReleaseSession ==
    /\ ~SharedLockHeld
    /\ session.state = "bound"
    /\ session.generation < MaxGeneration
    /\ session' = [state |-> "closed", generation |-> session.generation + 1,
                   agent |-> NoAgent]
    /\ UNCHANGED <<spool, publisher, hooks, stale, crashes, owner, history>>

\* A hook is past its claim, with the batch in its hands.
Holds(h, b) ==
    /\ hooks[h].batch = b
    /\ hooks[h].pc \in {"load", "fresh", "print", "acknowledge", "reject",
                        "requeue", "restore"}

\* A claim reaches the claim timeout.  The agent kills its hooks after ten
\* seconds or so, long before: the hook that made the claim is gone.
Expire(b) ==
    /\ b \in Present(claimed) \ expired
    /\ \A h \in Hooks : ~Holds(h, b)
    /\ expired' = expired \union {b}
    /\ UNCHANGED <<session, recorded, pending, claimed, acknowledged, rejected,
                   publisher, hooks, stale, crashes, owner, history>>

\* A hook is killed.  What it printed is delivered, what it claimed stays.
KillHook(h) ==
    /\ hooks[h].pc # "idle"
    /\ crashes < MaxCrashes
    /\ crashes' = crashes + 1
    /\ hooks' = [hooks EXCEPT ![h] = IdleHook]
    /\ interrupted' =
        IF hooks[h].pc \in {"acknowledge", "requeue", "restore"}
        THEN interrupted \union (delivered \intersect Cites[hooks[h].batch])
        ELSE interrupted
    /\ UNCHANGED <<session, spool, publisher, stale, owner, delivered, dropped>>

\* The watcher is killed inside publish; another one is started.
KillPublisher ==
    /\ publisher.pc # "idle"
    /\ crashes < MaxCrashes
    /\ crashes' = crashes + 1
    /\ publisher' = IdlePublisher
    /\ UNCHANGED <<session, spool, hooks, stale, owner, history>>

(***************************************************************************)
(* The watcher: SpoolSink.publish.                                         *)
(***************************************************************************)
NowhereInSpool(b) ==
    \A directory \in {pending, claimed, acknowledged, rejected} : directory[b] = {}

PublisherAt(pc, next) ==
    /\ publisher.pc = pc
    /\ publisher' = [publisher EXCEPT !.pc = next]

PublisherReturns(pc) ==
    /\ publisher.pc = pc
    /\ publisher' = IdlePublisher

\* Under the shared lock, a batch of the route's generation with findings on
\* unchanged files only (fresh_findings has removed the others).
StartPublish(b) ==
    /\ publisher.pc = "idle"
    /\ session.state # "closed"
    /\ GenerationOf[b] = session.generation
    /\ Cites[b] \intersect stale = {}
    /\ b \in Republished \/ NowhereInSpool(b)
    /\ publisher' = [pc |-> "checkPending", batch |-> b]
    /\ UNCHANGED <<session, spool, hooks, stale, crashes, owner, history>>

\* Mutant: a record in dedupe/ is taken for a publication.
CheckPendingAndRecords ==
    /\ \/ /\ publisher.batch \notin Present(pending) \union recorded
          /\ PublisherAt("checkPending", "checkClaimed")
       \/ /\ publisher.batch \in Present(pending) \union recorded
          /\ PublisherReturns("checkPending")
    /\ UNCHANGED <<session, spool, hooks, stale, crashes, owner, history>>

\* Was it published before?  Three directories are looked up one by one.
CheckPending ==
    /\ \/ /\ publisher.batch \notin Present(pending)
          /\ PublisherAt("checkPending", "checkClaimed")
       \/ /\ publisher.batch \in Present(pending)
          /\ PublisherReturns("checkPending")
    /\ UNCHANGED <<session, spool, hooks, stale, crashes, owner, history>>

CheckClaimed ==
    /\ \/ /\ publisher.batch \notin Present(claimed)
          /\ PublisherAt("checkClaimed", "checkAcknowledged")
       \/ /\ publisher.batch \in Present(claimed)
          /\ PublisherReturns("checkClaimed")
    /\ UNCHANGED <<session, spool, hooks, stale, crashes, owner, history>>

CheckAcknowledged ==
    /\ \/ /\ publisher.batch \notin Present(acknowledged)
          /\ PublisherAt("checkAcknowledged", "record")
       \/ /\ publisher.batch \in Present(acknowledged)
          /\ PublisherReturns("checkAcknowledged")
    /\ UNCHANGED <<session, spool, hooks, stale, crashes, owner, history>>

\* The whole payload is kept in dedupe/ first ...
RecordBatch ==
    /\ PublisherAt("record", "link")
    /\ recorded' = recorded \union {publisher.batch}
    /\ UNCHANGED <<session, pending, claimed, acknowledged, rejected, expired,
                   hooks, stale, crashes, owner, history>>

\* ... and linked into pending/, unless a file of that name is there.
LinkBatch ==
    /\ PublisherReturns("link")
    /\ pending' = IF publisher.batch \in Present(pending) THEN pending
                  ELSE [pending EXCEPT ![publisher.batch] = Cites[publisher.batch]]
    /\ UNCHANGED <<session, recorded, claimed, acknowledged, rejected, expired,
                   hooks, stale, crashes, owner, history>>

(***************************************************************************)
(* A hook process: main() of codex_feedback_hook.py.                       *)
(***************************************************************************)
\* verify_session_lease binds an unbound or closed route to the agent and
\* turns the hooks of any other agent away.
StartHook(h, a) ==
    /\ hooks[h].pc = "idle"
    /\ ~SharedLockHeld
    /\ session.state = "bound" => session.agent = a
    /\ session' = [session EXCEPT !.state = "bound", !.agent = a]
    /\ owner' = [owner EXCEPT ![session.generation] = a]
    /\ hooks' = [hooks EXCEPT ![h] = [IdleHook EXCEPT !.pc = "enter", !.agent = a]]
    /\ UNCHANGED <<spool, publisher, stale, crashes, history>>

\* claim_feedback takes the lock shared and checks the owner once more, then
\* lists claimed/ for recover_abandoned_claims.
EnterClaim(h) ==
    /\ hooks[h].pc = "enter"
    /\ hooks' = [hooks EXCEPT ![h] =
                    IF session.state = "bound" /\ session.agent = @.agent
                    THEN [@ EXCEPT !.pc = "recover", !.todo = Present(claimed)]
                    ELSE IdleHook]
    /\ UNCHANGED <<session, spool, publisher, stale, crashes, owner, history>>

\* Mutant: no claim is ever found old enough.
NeverAbandoned(b) == FALSE

Abandoned(b) == b \in Present(claimed) \intersect expired

\* Mutant: the claim that was found is not remembered.
FindSomeExpired(h) ==
    /\ hooks[h].pc = "recover"
    /\ \E b \in hooks[h].todo :
        /\ Abandoned(b)
        /\ hooks' = [hooks EXCEPT ![h].pc = "replace", ![h].todo = @ \ {b}]
    /\ UNCHANGED <<session, spool, publisher, stale, crashes, owner, history>>

\* A listed claim is as old as the timeout ...
FindExpired(h) ==
    /\ hooks[h].pc = "recover"
    /\ \E b \in hooks[h].todo :
        /\ Abandoned(b)
        /\ hooks' = [hooks EXCEPT ![h].pc = "replace", ![h].batch = b,
                                  ![h].todo = @ \ {b}]
    /\ UNCHANGED <<session, spool, publisher, stale, crashes, owner, history>>

\* ... or is not, or is gone.
PassClaim(h) ==
    /\ hooks[h].pc = "recover"
    /\ \E b \in hooks[h].todo :
        /\ ~Abandoned(b)
        /\ hooks' = [hooks EXCEPT ![h].todo = @ \ {b}]
    /\ UNCHANGED <<session, spool, publisher, stale, crashes, owner, history>>

\* The claim that was found expired goes back to pending/, whatever it is now.
RecoverClaim(h) ==
    /\ hooks[h].pc = "replace"
    /\ LET b == hooks[h].batch
       IN  IF b \in Present(claimed)
           THEN /\ pending' = Arrived(claimed, pending, b)
                /\ claimed' = Left(claimed, pending, b)
                /\ expired' = expired \intersect Present(claimed')
           ELSE UNCHANGED <<pending, claimed, expired>>
    /\ hooks' = [hooks EXCEPT ![h].pc = "recover", ![h].batch = NoBatch]
    /\ UNCHANGED <<session, recorded, acknowledged, rejected, publisher, stale,
                   crashes, owner, history>>

\* claim_feedback lists pending/.
ListPending(h) ==
    /\ hooks[h].pc = "recover"
    /\ hooks[h].todo = {}
    /\ hooks' = [hooks EXCEPT ![h].pc = "claim", ![h].todo = Present(pending)]
    /\ UNCHANGED <<session, spool, publisher, stale, crashes, owner, history>>

\* Mutant: the generation of the batch is not compared.
ClaimableInAnyGeneration(b) == TRUE

Claimable(b) == GenerationOf[b] = session.generation

\* A listed batch of the route's generation is moved to claimed/ and touched.
Claim(h) ==
    /\ hooks[h].pc = "claim"
    /\ \E b \in hooks[h].todo :
        /\ b \in Present(pending)
        /\ Claimable(b)
        /\ claimed' = Arrived(pending, claimed, b)
        /\ pending' = Left(pending, claimed, b)
        /\ expired' = expired \ {b}
        /\ hooks' = [hooks EXCEPT ![h].pc = "load", ![h].batch = b,
                                  ![h].todo = {}]
    /\ UNCHANGED <<session, recorded, acknowledged, rejected, publisher, stale,
                   crashes, owner, history>>

\* One of another generation, or one that is gone, is passed over.
PassPending(h) ==
    /\ hooks[h].pc = "claim"
    /\ \E b \in hooks[h].todo :
        /\ b \notin Present(pending) \/ ~Claimable(b)
        /\ hooks' = [hooks EXCEPT ![h].todo = @ \ {b}]
    /\ UNCHANGED <<session, spool, publisher, stale, crashes, owner, history>>

ClaimNothing(h) ==
    /\ hooks[h].pc = "claim"
    /\ hooks[h].todo = {}
    /\ hooks' = [hooks EXCEPT ![h] = IdleHook]
    /\ UNCHANGED <<session, spool, publisher, stale, crashes, owner, history>>

\* The claim is read; without the file there is nothing valid to read.
LoadClaim(h) ==
    /\ hooks[h].pc = "load"
    /\ LET payload == claimed[hooks[h].batch]
       IN  hooks' = [hooks EXCEPT ![h].pc = IF payload = {} THEN "reject" ELSE "fresh",
                                  ![h].payload = payload]
    /\ UNCHANGED <<session, spool, publisher, stale, crashes, owner, history>>

\* An invalid claim is moved to rejected/ (an error if it is gone).
RejectClaim(h) ==
    /\ hooks[h].pc = "reject"
    /\ LET b == hooks[h].batch
       IN  IF b \in Present(claimed)
           THEN /\ rejected' = Arrived(claimed, rejected, b)
                /\ claimed' = Left(claimed, rejected, b)
                /\ expired' = expired \intersect Present(claimed')
           ELSE UNCHANGED <<claimed, rejected, expired>>
    /\ hooks' = [hooks EXCEPT ![h] = IdleHook]
    /\ UNCHANGED <<session, recorded, pending, acknowledged, publisher, stale,
                   crashes, owner, history>>

\* fresh_spooled_payload drops the findings on files that changed.
DropStale(h) ==
    /\ hooks[h].pc = "fresh"
    /\ LET fresh == hooks[h].payload \ stale
       IN  hooks' = [hooks EXCEPT ![h].pc = IF fresh = {} THEN "acknowledge" ELSE "print",
                                  ![h].payload = fresh]
    /\ dropped' = dropped \union (hooks[h].payload \intersect stale)
    /\ UNCHANGED <<session, spool, publisher, stale, crashes, owner, delivered,
                   interrupted>>

\* render_feedback_chunk: as many findings as fit one message.
ChunksOf(payload) ==
    {S \in SUBSET payload : IF Cardinality(payload) <= ChunkSize THEN S = payload
                            ELSE Cardinality(S) = ChunkSize}

\* Mutant: the remainder starts one finding too late.
RestAfterNext(payload, S) ==
    IF payload = S THEN {} ELSE (payload \ S) \ {CHOOSE f \in payload \ S : TRUE}

Rest(payload, S) == payload \ S

\* Mutant: the batch is acknowledged whatever is left of it.
AlwaysAcknowledged(rest) == "acknowledge"

AfterChunk(rest) == IF rest = {} THEN "acknowledge" ELSE "requeue"

PrintChunk(h) ==
    /\ hooks[h].pc = "print"
    /\ \E S \in ChunksOf(hooks[h].payload) :
        LET rest == Rest(hooks[h].payload, S)
        IN  /\ delivered' = delivered \union S
            /\ hooks' = [hooks EXCEPT ![h].payload = rest,
                                      ![h].pc = AfterChunk(rest)]
    /\ UNCHANGED <<session, spool, publisher, stale, crashes, owner, dropped,
                   interrupted>>

\* The claim is moved to acknowledged/ (an error if it is gone).
Acknowledge(h) ==
    /\ hooks[h].pc = "acknowledge"
    /\ LET b == hooks[h].batch
       IN  IF b \in Present(claimed)
           THEN /\ acknowledged' = Arrived(claimed, acknowledged, b)
                /\ claimed' = Left(claimed, acknowledged, b)
                /\ expired' = expired \intersect Present(claimed')
           ELSE UNCHANGED <<claimed, acknowledged, expired>>
    /\ hooks' = [hooks EXCEPT ![h] = IdleHook]
    /\ UNCHANGED <<session, recorded, pending, rejected, publisher, stale,
                   crashes, owner, history>>

\* Mutant: requeue puts the whole batch back.
RewriteWholeClaim(h) ==
    /\ hooks[h].pc = "requeue"
    /\ claimed' = [claimed EXCEPT ![hooks[h].batch] = Cites[hooks[h].batch]]
    /\ expired' = expired \ {hooks[h].batch}
    /\ hooks' = [hooks EXCEPT ![h].pc = "restore"]
    /\ UNCHANGED <<session, recorded, pending, acknowledged, rejected, publisher,
                   stale, crashes, owner, history>>

\* requeue_feedback writes the rest over the claim ...
RewriteClaim(h) ==
    /\ hooks[h].pc = "requeue"
    /\ claimed' = [claimed EXCEPT ![hooks[h].batch] = hooks[h].payload]
    /\ expired' = expired \ {hooks[h].batch}
    /\ hooks' = [hooks EXCEPT ![h].pc = "restore"]
    /\ UNCHANGED <<session, recorded, pending, acknowledged, rejected, publisher,
                   stale, crashes, owner, history>>

\* ... and moves it back to pending/ (an error if it is gone).
RestorePending(h) ==
    /\ hooks[h].pc = "restore"
    /\ LET b == hooks[h].batch
       IN  IF b \in Present(claimed)
           THEN /\ pending' = Arrived(claimed, pending, b)
                /\ claimed' = Left(claimed, pending, b)
                /\ expired' = expired \intersect Present(claimed')
           ELSE UNCHANGED <<pending, claimed, expired>>
    /\ hooks' = [hooks EXCEPT ![h] = IdleHook]
    /\ UNCHANGED <<session, recorded, acknowledged, rejected, publisher, stale,
                   crashes, owner, history>>

--------------------------------------------------------------------------------
Publication ==
    \/ \E b \in Batches : StartPublish(b)
    \/ CheckPending \/ CheckClaimed \/ CheckAcknowledged
    \/ RecordBatch \/ LinkBatch

HookStep(h) ==
    \/ EnterClaim(h) \/ FindExpired(h) \/ PassClaim(h) \/ RecoverClaim(h)
    \/ ListPending(h) \/ Claim(h) \/ PassPending(h) \/ ClaimNothing(h)
    \/ LoadClaim(h) \/ RejectClaim(h) \/ DropStale(h) \/ PrintChunk(h)
    \/ Acknowledge(h) \/ RewriteClaim(h) \/ RestorePending(h)

Environment ==
    \/ \E f \in Findings : EditCitedFile(f)
    \/ ReleaseSession
    \/ \E b \in Batches : Expire(b)
    \/ \E h \in Hooks : KillHook(h)
    \/ KillPublisher

Next ==
    \/ Publication
    \/ \E h \in Hooks : (\E a \in Agents : StartHook(h, a)) \/ HookStep(h)
    \/ Environment

Spec == Init /\ [][Next]_vars

(***************************************************************************)
(* Properties.                                                             *)
(***************************************************************************)
Sessions ==
    [state : {"unbound", "bound", "closed"}, generation : Generations,
     agent : AgentIds]

Publishers ==
    [pc : {"idle", "checkPending", "checkClaimed", "checkAcknowledged", "record",
           "link"},
     batch : BatchIds]

HookStates ==
    [pc : {"idle", "enter", "recover", "replace", "claim", "load", "fresh",
           "print", "acknowledge", "reject", "requeue", "restore"},
     agent : AgentIds, todo : SUBSET Batches, batch : BatchIds,
     payload : SUBSET Findings]

\* The types of the variables; a running process has a batch where it uses one,
\* and the findings in hand are the batch's.
TypeOK ==
    /\ session \in Sessions
    /\ recorded \subseteq Batches
    /\ pending \in [Batches -> SUBSET Findings]
    /\ claimed \in [Batches -> SUBSET Findings]
    /\ acknowledged \in [Batches -> SUBSET Findings]
    /\ rejected \in [Batches -> SUBSET Findings]
    /\ expired \subseteq Batches
    /\ publisher \in Publishers
    /\ publisher.pc # "idle" => publisher.batch \in Batches
    /\ hooks \in [Hooks -> HookStates]
    /\ \A h \in Hooks :
        hooks[h].pc \notin {"idle", "enter", "recover", "claim"} =>
            hooks[h].batch \in Batches
    /\ stale \subseteq Findings
    /\ crashes \in 0 .. MaxCrashes
    /\ owner \in [Generations -> AgentIds]
    /\ delivered \subseteq Findings
    /\ dropped \subseteq Findings
    /\ interrupted \subseteq Findings

\* The findings of b that may leave the spool.
Settled(b) == Cites[b] \subseteq delivered \union dropped

\* However a batch was chunked, requeued, recovered or overwritten, no copy of it
\* lacks a finding that has been neither delivered nor dropped: not the file in
\* pending/, not the one in claimed/, not what a hook has read and is to write
\* back; and none is acknowledged before all of it has been delivered.
CopiesAreComplete ==
    \A b \in Batches :
        /\ \A copy \in {pending[b], claimed[b]} :
            copy # {} => Cites[b] \ copy \subseteq delivered \union dropped
        /\ \A h \in Hooks :
            /\ hooks[h].batch = b
            /\ hooks[h].pc \in {"fresh", "print", "acknowledge", "requeue"}
            => Cites[b] \ hooks[h].payload \subseteq delivered \union dropped
        /\ b \in Present(acknowledged) => Settled(b)

\* Feedback on work done in one session generation is only ever printed for the
\* agent that the generation was bound to.
DeliveredToOwner ==
    [][\A h \in Hooks :
        PrintChunk(h) =>
            owner[GenerationOf[hooks[h].batch]] = hooks[h].agent]_vars

\* "Concurrent consumers cannot claim the same batch" (README.md 633).  Two hooks
\* that find the claim of a killed one expired may both move it, and a review that
\* yields a fingerprint once more may link a batch that is being requeued.
ClaimsAreExclusive ==
    \A h, i \in Hooks, b \in Batches : Holds(h, b) /\ Holds(i, b) => h = i

\* The batch is not published again, or is never requeued: it takes one message.
MovesForward(b) == b \in Republished => Cardinality(Cites[b]) <= ChunkSize

\* Up to the first kill, two hooks never work on one claim, however listing,
\* claiming, requeueing and publishing are interleaved, except for a batch of several
\* messages that is published again.
ClaimedOnce ==
    crashes = 0 =>
        \A h, i \in Hooks, b \in Batches :
            MovesForward(b) /\ Holds(h, b) /\ Holds(i, b) => h = i

\* A finding is printed again only if the hook that printed it was killed
\* before it could acknowledge or requeue the batch.
DeliveredOnce ==
    [][\A h \in Hooks :
        PrintChunk(h) =>
            (hooks[h].payload \ hooks'[h].payload) \intersect delivered
                \subseteq interrupted]_vars

Available == UNION {pending[b] \union claimed[b] : b \in Batches}

\* A publication that is not killed leaves each finding of its batch where hooks look
\* for it, or it was delivered or dropped before: what an earlier one, killed between
\* its record and its link, left behind is repaired and not taken for a publication.
PublishedIsOffered ==
    [][publisher.pc # "idle" /\ publisher'.pc = "idle" /\ crashes' = crashes =>
          Cites[publisher.batch] \subseteq Available' \union delivered \union dropped]_vars

\* The spool keeps what FeedbackDelivery promises.
Delivery == INSTANCE FeedbackDelivery WITH available <- Available

DeliverySpec == Delivery!Spec

(***************************************************************************)
(* Fairness: the watcher and every hook finish what they start, time goes  *)
(* by, and the agent of the route, or the next one, keeps starting hooks.       *)
(* Nothing is assumed of edits, of the end of sessions or of kills.       *)
(***************************************************************************)
Fairness ==
    /\ WF_vars(CheckPending \/ CheckClaimed \/ CheckAcknowledged \/ RecordBatch
               \/ LinkBatch)
    /\ \A h \in Hooks :
        /\ WF_vars(HookStep(h))
        /\ SF_vars(\E a \in Agents : StartHook(h, a))
    /\ \A b \in Batches : WF_vars(Expire(b))

FairSpec == Spec /\ Fairness

\* As long as its session generation lasts, every finding in the spool is some
\* day delivered or found stale, whatever was killed on the way.
EventuallyDelivered ==
    \A b \in Batches : \A f \in Cites[b] :
        f \in pending[b] \union claimed[b] ~>
            \/ f \in delivered \union dropped
            \/ session.generation # GenerationOf[b]

================================================================================
