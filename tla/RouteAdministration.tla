-------------------------- MODULE RouteAdministration --------------------------
(***************************************************************************)
(* agent_integration.py: `quodet init' installs a route, and `quodet       *)
(* cleanup' empties its spool.  Both may meet others that do the same, or  *)
(* the watcher and the hooks that use the route, and may be killed.        *)
(*                                                                         *)
(* init creates route.json in the spool and the hooks in the settings of   *)
(* one kind of agent, a file that is also the user's, and replaces neither *)
(* when somebody else comes first.  It holds on to the directory of the    *)
(* settings that it has opened, which may be moved away and replaced.      *)
(*                                                                         *)
(* cleanup excludes the watcher by its lease of the root, and by the lock  *)
(* of the route whatever takes that, but a hook which holds a claim        *)
(* requeues or acknowledges it without the lock.  FeedbackSpool has more   *)
(* of what hooks do among themselves.                                      *)
(*                                                                         *)
(* A behaviour is about the one or the other: scenario says which.         *)
(***************************************************************************)
EXTENDS Integers, Sequences

CONSTANTS
    Initializers,   \* runs of `quodet init'
    Kinds,          \* kinds of agents: each has its settings file
    Spools,
    Requests,       \* what the initializers may be asked for
    Agents,         \* real agent sessions
    MaxGeneration,  \* bounds: of session generations,
    MaxBatches,     \* published batches,
    MaxCleanups,    \* and calls of `quodet cleanup'
    Nobody          \* no route, no agent, no settings

Routes == [kind : Kinds, spool : Spools]

ASSUME AdministrationAssumption ==
    /\ Requests \subseteq [Initializers -> Routes]
    /\ {MaxGeneration, MaxBatches, MaxCleanups} \subseteq Nat
    /\ Nobody \notin Routes \union Agents \union Initializers

VARIABLES
    scenario,   \* "setup" or "use"
    requests,   \* what each initializer is asked for
    routes,     \* route.json of each spool
    settings,   \* the settings of each kind, in either directory
    directory,  \* the one of the two that is at the settings' path
    inits,      \* the initializers
    session,    \* the route's session state file
    watcher,    \* whether the watcher runs, and what it captured for a review
    spool,      \* the files of the route's spool
    hook,       \* the batch that a hook has claimed
    cleanup,    \* `quodet cleanup'
    tenure,     \* history: sessions that came to an end
    published   \* how many batches were published

setupVars == <<requests, routes, settings, directory, inits>>
useVars == <<session, watcher, spool, hook, cleanup, tenure, published>>
vars == <<scenario, setupVars, useVars>>

Directories == {"first", "second"}
NoFile == [by |-> Nobody, route |-> Nobody]
Users == [by |-> "user", route |-> Nobody]

\* seen is history: the route that it last compared with its own.
Starting == [pc |-> "route", held |-> "first", found |-> Nobody, seen |-> Nobody]

NoBatch == [tenure |-> -1, generation |-> -1, id |-> -1]
Unbound == [state |-> "unbound", generation |-> 0, agent |-> Nobody]
IdleCleanup == [pc |-> "idle", discard |-> FALSE, quiet |-> TRUE, calls |-> 0]

Init ==
    /\ scenario \in {"setup", "use"}
    /\ requests \in Requests
    /\ routes = [s \in Spools |-> Nobody]
    /\ settings = [k \in Kinds |-> [d \in Directories |-> NoFile]]
    /\ directory = [k \in Kinds |-> "first"]
    /\ inits = [i \in Initializers |-> Starting]
    /\ session = Unbound
    /\ watcher = [on |-> FALSE, review |-> NoBatch]
    /\ spool = [pending |-> {}, claimed |-> {}, records |-> {}, rounds |-> NoBatch]
    /\ hook = NoBatch
    /\ cleanup = IdleCleanup
    /\ tenure = 0
    /\ published = 0

(***************************************************************************)
(* initialize and _initialize_artifacts.                                   *)
(***************************************************************************)
Kind(i) == requests[i].kind
Home(i) == requests[i].spool

Goes(i, pc) == inits' = [inits EXCEPT ![i].pc = pc]
Refuse(i) == Goes(i, "refused")

\* assert_attached
Attached(i) == inits[i].held = directory[Kind(i)]

\* What initializer i finds where it holds the settings' directory.
Found(i) == settings[Kind(i)][inits[i].held]
Expected(i) == requests[i]

Write(i, file) == settings' = [settings EXCEPT ![Kind(i)][inits[i].held] = file]

Init_(i, pc) ==
    /\ scenario = "setup"
    /\ inits[i].pc = pc
    /\ UNCHANGED <<scenario, requests, directory, useVars>>

CheckRoute(i) ==
    /\ Init_(i, "route")
    /\ IF routes[Home(i)] \in {Nobody, requests[i]}
       THEN inits' = [inits EXCEPT ![i].pc = "read", ![i].held = directory[Kind(i)]]
       ELSE Refuse(i)
    /\ UNCHANGED <<routes, settings>>

\* Others' settings are left alone, also those that name another route.
ReadSettings(i) ==
    /\ Init_(i, "read")
    /\ IF Attached(i) /\ (Found(i) = NoFile \/ Found(i).route = Expected(i))
       THEN inits' = [inits EXCEPT ![i].pc = "again", ![i].found = Found(i).route]
       ELSE Refuse(i)
    /\ UNCHANGED <<routes, settings>>

\* Then the spool's directories are made.
CheckRouteAgain(i) ==
    /\ Init_(i, "again")
    /\ IF routes[Home(i)] \in {Nobody, requests[i]}
       THEN inits' = [inits EXCEPT ![i].pc = "look", ![i].seen = routes[Home(i)]]
       ELSE Refuse(i)
    /\ UNCHANGED <<routes, settings>>

AfterRoute(i) == IF inits[i].found = Nobody THEN "settings" ELSE "final"

\* A route that is there by now is not compared with its own any more.
LookForRoute(i) ==
    /\ Init_(i, "look")
    /\ Goes(i, IF routes[Home(i)] = Nobody THEN "create" ELSE AfterRoute(i))
    /\ UNCHANGED <<routes, settings>>

\* Mutant: os.replace for os.link.
ReplacedRoute(i) == [routes EXCEPT ![Home(i)] = requests[i]]

\* os.link fails when there is a route by now, which is compared again.
LinkedRoute(i) ==
    IF routes[Home(i)] = Nobody THEN [routes EXCEPT ![Home(i)] = requests[i]] ELSE routes

CreateRoute(i) ==
    /\ Init_(i, "create")
    /\ routes' = LinkedRoute(i)
    /\ IF routes'[Home(i)] = requests[i]
       THEN inits' = [inits EXCEPT ![i].pc = AfterRoute(i), ![i].seen = requests[i]]
       ELSE Refuse(i)
    /\ UNCHANGED settings

CreateSettings(i) ==
    /\ Init_(i, "settings")
    /\ CASE ~ Attached(i) -> Refuse(i) /\ UNCHANGED settings
         [] Attached(i) /\ Found(i) = NoFile ->
                /\ Write(i, [by |-> i, route |-> Expected(i)])
                /\ Goes(i, "confirm")
         [] OTHER ->
                /\ IF Found(i).route = Expected(i) THEN Goes(i, "final") ELSE Refuse(i)
                /\ UNCHANGED settings
    /\ UNCHANGED routes

\* The file that is there is the one that was linked.
RemovesOwn(i) == Found(i).by = i

\* Settings that were linked into a directory which has been moved away go again.
ConfirmSettings(i) ==
    /\ Init_(i, "confirm")
    /\ IF Attached(i) THEN Goes(i, "final") /\ UNCHANGED settings
       ELSE /\ Refuse(i)
            /\ IF RemovesOwn(i) THEN Write(i, NoFile) ELSE UNCHANGED settings
    /\ UNCHANGED routes

\* Mutant: the settings are not read again.
InstalledBefore(i) == TRUE

Installed(i) == Attached(i) /\ Found(i).route = Expected(i)

FinalRead(i) ==
    /\ Init_(i, "final")
    /\ IF Installed(i) THEN Goes(i, "done") ELSE Refuse(i)
    /\ UNCHANGED <<routes, settings>>

Kill(i) ==
    /\ Init_(i, inits[i].pc)
    /\ inits[i].pc \notin {"route", "done", "refused", "killed"}
    /\ Goes(i, "killed")
    /\ UNCHANGED <<routes, settings>>

Rerun(i) ==
    /\ Init_(i, inits[i].pc)
    /\ inits[i].pc \in {"done", "refused", "killed"}
    /\ inits' = [inits EXCEPT ![i] = Starting]
    /\ UNCHANGED <<routes, settings>>

\* The user writes or removes the settings, or replaces their directory.
UserWrites(k) ==
    /\ scenario = "setup"
    /\ \E file \in {NoFile, Users} : settings' = [settings EXCEPT ![k][directory[k]] = file]
    /\ UNCHANGED <<scenario, requests, routes, directory, inits, useVars>>

UserReplacesDirectory(k) ==
    /\ scenario = "setup"
    /\ directory[k] = "first"
    /\ directory' = [directory EXCEPT ![k] = "second"]
    /\ UNCHANGED <<scenario, requests, routes, settings, inits, useVars>>

Initialize(i) ==
    \/ CheckRoute(i)
    \/ ReadSettings(i)
    \/ CheckRouteAgain(i)
    \/ LookForRoute(i)
    \/ CreateRoute(i)
    \/ CreateSettings(i)
    \/ ConfirmSettings(i)
    \/ FinalRead(i)

(***************************************************************************)
(* The watcher and the hooks.  What needs the lock of the route waits      *)
(* while a cleanup holds it.                                               *)
(***************************************************************************)
Using == scenario = "use" /\ UNCHANGED <<scenario, setupVars>>

Unlocked == cleanup.pc = "idle"

Current == [tenure |-> tenure, generation |-> session.generation, id |-> published]

StartWatcher ==
    /\ Using /\ Unlocked
    /\ ~ watcher.on
    /\ watcher' = [on |-> TRUE, review |-> NoBatch]
    /\ UNCHANGED <<session, spool, hook, cleanup, tenure, published>>

StopWatcher ==
    /\ Using
    /\ watcher.on
    /\ watcher' = [on |-> FALSE, review |-> NoBatch]
    /\ UNCHANGED <<session, spool, hook, cleanup, tenure, published>>

BeginReview ==
    /\ Using /\ Unlocked
    /\ watcher.on /\ watcher.review = NoBatch
    /\ session.state # "closed" /\ published < MaxBatches
    /\ watcher' = [watcher EXCEPT !.review = Current]
    /\ UNCHANGED <<session, spool, hook, cleanup, tenure, published>>

\* A batch of an ended generation is refused.
Publish ==
    /\ Using /\ Unlocked
    /\ watcher.review # NoBatch
    /\ watcher' = [watcher EXCEPT !.review = NoBatch]
    /\ published' = published + 1
    /\ IF session.state # "closed" /\ session.generation = watcher.review.generation
       THEN spool' = [spool EXCEPT !.rounds = watcher.review,
                          !.pending = @ \union {watcher.review},
                          !.records = @ \union {watcher.review}]
       ELSE UNCHANGED spool
    /\ UNCHANGED <<session, hook, cleanup, tenure>>

\* verify_session_lease
Bind(a) ==
    /\ Using /\ Unlocked
    /\ session.state # "bound"
    /\ session' = [session EXCEPT !.state = "bound", !.agent = a]
    /\ UNCHANGED <<watcher, spool, hook, cleanup, tenure, published>>

\* release_session_lease, by the SessionEnd hook.
Release ==
    /\ Using /\ Unlocked
    /\ session.state = "bound" /\ session.generation < MaxGeneration
    /\ session' = [state |-> "closed", generation |-> session.generation + 1,
                   agent |-> Nobody]
    /\ tenure' = tenure + 1
    /\ UNCHANGED <<watcher, spool, hook, cleanup, published>>

Claim(b) ==
    /\ Using /\ Unlocked
    /\ session.state = "bound"
    /\ hook = NoBatch
    /\ b \in spool.pending /\ b.generation = session.generation
    /\ hook' = b
    /\ spool' = [spool EXCEPT !.pending = @ \ {b}, !.claimed = @ \union {b}]
    /\ UNCHANGED <<session, watcher, cleanup, tenure, published>>

\* Mutant: the claim stays.
CopiedClaim == [spool EXCEPT !.pending = @ \union {hook}]

RequeuedClaim == [spool EXCEPT !.claimed = @ \ {hook}, !.pending = @ \union {hook}]

\* The rest of a batch is written over the claim, or to its name if that has gone.
Requeue ==
    /\ Using
    /\ hook # NoBatch
    /\ hook' = NoBatch
    /\ spool' = RequeuedClaim
    /\ UNCHANGED <<session, watcher, cleanup, tenure, published>>

Acknowledge ==
    /\ Using
    /\ hook # NoBatch
    /\ hook' = NoBatch
    /\ spool' = [spool EXCEPT !.claimed = @ \ {hook}]
    /\ UNCHANGED <<session, watcher, cleanup, tenure, published>>

KillHook ==
    /\ Using
    /\ hook # NoBatch
    /\ hook' = NoBatch
    /\ UNCHANGED <<session, watcher, spool, cleanup, tenure, published>>

\* Another hook finds the claim of a killed one.
Recover(b) ==
    /\ Using /\ Unlocked
    /\ session.state = "bound"
    /\ b \in spool.claimed /\ b # hook
    /\ spool' = [spool EXCEPT !.claimed = @ \ {b}, !.pending = @ \union {b}]
    /\ UNCHANGED <<session, watcher, hook, cleanup, tenure, published>>

(***************************************************************************)
(* cleanup_route.                                                          *)
(***************************************************************************)
Cleaning(pc) ==
    /\ Using
    /\ cleanup.pc = pc
    /\ UNCHANGED <<watcher, hook, published>>

\* It needs the lease of the root, and the identity of the agent if one is bound.  The
\* operator discards feedback only when the agent's hooks have ended.
StartCleanup(discard) ==
    /\ Cleaning("idle")
    /\ cleanup.calls < MaxCleanups
    /\ ~ watcher.on
    /\ discard => hook = NoBatch
    /\ cleanup' = [pc |-> "look", discard |-> discard, quiet |-> hook = NoBatch,
                   calls |-> cleanup.calls + 1]
    /\ UNCHANGED <<session, spool, tenure>>

CleanupGoes(pc) == cleanup' = [cleanup EXCEPT !.pc = pc]

\* Mutant: only what is pending counts.
NothingPending(files) == files = spool.pending => files = {}

NoFeedback(files) == files = {}

\* Mutant: the session goes first.
SessionFirst == <<"session", "pending", "claimed", "records", "rounds">>

\* What is removed, in this order.
Removed == <<"pending", "claimed", "records", "rounds", "session">>

After(pc) ==
    LET n == CHOOSE m \in DOMAIN Removed : Removed[m] = pc
    IN IF n = Len(Removed) THEN "idle" ELSE Removed[n + 1]

LookAt(pc, files, next) ==
    /\ Cleaning(pc)
    /\ CleanupGoes(IF NoFeedback(files) \/ cleanup.discard THEN next ELSE "idle")
    /\ UNCHANGED <<session, spool, tenure>>

LookAtPending == LookAt("look", spool.pending, "look again")
LookAtClaimed == LookAt("look again", spool.claimed, Removed[1])

Remove(pc) ==
    /\ Cleaning(pc)
    /\ CleanupGoes(After(pc))
    /\ IF pc = "session"
       THEN session' = Unbound /\ tenure' = tenure + 1 /\ UNCHANGED spool
       ELSE /\ spool' = [spool EXCEPT ![pc] = IF pc = "rounds" THEN NoBatch ELSE {}]
            /\ UNCHANGED <<session, tenure>>

KillCleanup ==
    /\ Using
    /\ ~ Unlocked
    /\ CleanupGoes("idle")
    /\ UNCHANGED <<session, watcher, spool, hook, tenure, published>>

Next ==
    \/ \E i \in Initializers : Initialize(i) \/ Kill(i) \/ Rerun(i)
    \/ \E k \in Kinds : UserWrites(k) \/ UserReplacesDirectory(k)
    \/ StartWatcher
    \/ StopWatcher
    \/ BeginReview
    \/ Publish
    \/ \E a \in Agents : Bind(a)
    \/ Release
    \/ \E b \in spool.pending : Claim(b)
    \/ Requeue
    \/ Acknowledge
    \/ KillHook
    \/ \E b \in spool.claimed : Recover(b)
    \/ \E discard \in BOOLEAN : StartCleanup(discard)
    \/ LookAtPending
    \/ LookAtClaimed
    \/ \E pc \in {"pending", "claimed", "records", "rounds", "session"} : Remove(pc)
    \/ KillCleanup

Spec == Init /\ [][Next]_vars

(***************************************************************************)
(* Properties.                                                             *)
(***************************************************************************)
BatchIds == [tenure : 0 .. (MaxGeneration + 1) * (MaxCleanups + 1), generation : 0 .. MaxGeneration,
             id : 0 .. MaxBatches] \union {NoBatch}

\* Every variable has its type.
TypeOK ==
    /\ routes \in [Spools -> Routes \union {Nobody}]
    /\ directory \in [Kinds -> Directories]
    /\ \A i \in Initializers : {inits[i].found, inits[i].seen} \subseteq {Nobody, requests[i]}
    /\ session \in [state : {"unbound", "bound", "closed"}, generation : 0 .. MaxGeneration,
                    agent : Agents \union {Nobody}]
    /\ watcher.review \in BatchIds /\ (watcher.review # NoBatch => watcher.on)
    /\ spool.pending \union spool.claimed \union spool.records
           \union {spool.rounds, hook} \subseteq BatchIds
    /\ spool.pending \cap spool.claimed = {}

\* init "never merges or overwrites" (README): whatever others do meanwhile, no step of
\* an initializer changes a route that is there, or settings other than those that this
\* run has created.  The code tells its settings by the inode, and looks at that before it
\* removes them: by is taken for what the inode says, so that an edit of them in place, or
\* a replacement between the look and the removal, is not told apart.
NothingIsOverwritten ==
    [][\A i \in Initializers : Initialize(i) =>
        /\ \A s \in Spools : routes[s] # Nobody => routes'[s] = routes[s]
        /\ \A k \in Kinds, d \in Directories :
             settings[k][d].by \notin {Nobody, i} => settings'[k][d] = settings[k][d]]_vars

\* An initializer that reports success has installed what it was asked for: the settings
\* that the agent will read name its route, and the route in the spool is its own, unless
\* there was none when it last compared and another's came before it looked again.
SuccessIsInstalled ==
    [][\A i \in Initializers :
        inits[i].pc # "done" /\ inits'[i].pc = "done" =>
            /\ settings[Kind(i)][directory[Kind(i)]].route = requests[i]
            /\ \/ routes[Home(i)] = requests[i]
               \/ routes[Home(i)] # Nobody /\ inits[i].seen = Nobody]_vars

\* "If either artifact exists, it validates an exact Quodet configuration or refuses the
\* operation" (README): the route of an initializer that reported success is its own.  It
\* does not hold: the look-up before the link skips the comparison after it, so that the
\* slower of two initializers can succeed with the settings of one route and a spool that
\* has the route of the other.
ReportsOwnRoute ==
    \A i \in Initializers : inits[i].pc = "done" => routes[Home(i)] = requests[i]

\* "Feedback queued ... for the ended generation is never delivered to that next agent"
\* (README), although a cleanup, also one that is killed half way, starts the
\* generations from 0 again: whatever the spool holds for the present generation,
\* feedback, records of duplicates or rounds, is of the present session.
NothingOutlivesItsSession ==
    \A b \in spool.pending \union spool.claimed \union spool.records \union {spool.rounds} :
        b.generation = session.generation => b.tenure = tenure

\* Cleanup refuses "pending/claimed feedback" (README) unless told to discard it: it
\* removes nothing undelivered, as long as no hook held a claim when it began to look.
Undelivered == spool.pending \union spool.claimed

QuietCleanupKeepsFeedback ==
    [][Undelivered \subseteq Undelivered'
        \/ hook # NoBatch
        \/ cleanup.discard \/ ~ cleanup.quiet]_vars

\* The same whatever hooks do.  It does not hold: cleanup looks at pending/ and at
\* claimed/ one after the other, and a hook that requeues its claim between the two is
\* seen in neither.
CleanupKeepsFeedback ==
    [][Undelivered \subseteq Undelivered' \/ Acknowledge \/ cleanup.discard]_vars

===============================================================================
