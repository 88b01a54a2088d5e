---------------------------- MODULE RustScheduler ----------------------------
(***************************************************************************)
(* The scheduler of the one-shot Rust worker processes of the main process *)
(* (rustCoreSchedulerRuntime.ts).  A call of run() is answered from a      *)
(* short-lived result cache, joined to a call in flight with the same      *)
(* arguments, or queued as a task of its command's lane.  drain() starts   *)
(* tasks within the limits of the lanes and of the whole, interactive work *)
(* before background work; a newer call replaces the older ones of its     *)
(* scope; clearFontQueryCaches (index.ts) invalidates what was read before *)
(* a change.  The profiles are those of a command, by the names the code   *)
(* gives their fields; time is left out, so that a timer may fire, a       *)
(* window end or a queued task expire at any moment.                       *)
(***************************************************************************)
EXTENDS Naturals, FiniteSets

CONSTANTS
    Commands,  \* commands of the worker
    Profile,   \* command -> its scheduler profile
    Keys,      \* stable keys: a command and its arguments
    CommandOf, \* key -> its command
    Queries,   \* the commands that clearFontQueryCaches invalidates and cancels
    GlobalMax, \* queuePolicy.globalMaxConcurrency
    Reserve,   \* queuePolicy.interactiveReserve
    MaxCalls,  \* bound: calls of run()
    MaxClears  \* bound: calls of clearFontQueryCaches

None == 0
Lanes == {"foreground", "preview", "scan", "io", "maintenance", "activation", "background"}
InteractiveLanes == {"foreground", "preview", "activation"}

ASSUME CommandAssumption == CommandOf \in [Keys -> Commands] /\ Queries \subseteq Commands
ASSUME BoundAssumption ==
    MaxCalls \in Nat /\ MaxClears \in Nat /\ GlobalMax \in Nat \ {0} /\ Reserve \in Nat
ASSUME ProfileAssumption ==
    \A c \in Commands :
        /\ Profile[c].lane \in Lanes /\ Profile[c].priority \in Nat
        /\ Profile[c].maxConcurrency \in Nat \ {0} /\ Profile[c].maxQueued \in Nat
        /\ Profile[c].interactive \in BOOLEAN

VARIABLES
    calls,         \* nextId: calls of run() made; call i may become task i
    key,           \* call -> its key, also of the calls yet to be made
    by,            \* call -> the task whose promise it was given, None before the call
    since,         \* call -> the cache generation of its command when it was made
    result,        \* task -> how its promise is settled
    began,         \* task -> the cache generation of its command when it was started
    queue,         \* the queued tasks, of all lanes
    active,        \* activeTasks
    inFlight,      \* inFlightByKey
    lingering,     \* settled tasks whose clean-up timer is still to fire
    cache,         \* resultCacheByKey: key -> the task whose value is kept
    generation,    \* command -> globalCacheGeneration + its cacheGenerationByCommand
    latest,        \* command with a scope -> the task of the newest generation of it
    drainScheduled,
    quiet,         \* interactiveQuietRemainingMs() > 0
    quietTimer,    \* quietResumeTimer is set
    backoff,       \* adaptiveBackoffRemainingMs() > 0
    backoffTimer,  \* adaptiveBackoffTimer is set
    pruneTimer,    \* queuedPruneTimer is set
    clears         \* calls of clearFontQueryCaches made

tasks == <<key, by, since, result, began, queue, active>>
caches == <<inFlight, lingering, cache, generation, latest>>
throttle == <<quiet, quietTimer, backoff, backoffTimer>>
vars == <<calls, tasks, caches, throttle, drainScheduled, pruneTimer, clears>>

Calls == 1..MaxCalls

Cmd(t) == CommandOf[key[t]]
Prof(t) == Profile[Cmd(t)]

Init ==
    /\ calls = 0
    /\ key \in [Calls -> Keys]
    /\ by = [i \in Calls |-> None]
    /\ since = [i \in Calls |-> 0]
    /\ result = [i \in Calls |-> "pending"]
    /\ began = [i \in Calls |-> 0]
    /\ queue = {} /\ active = {}
    /\ inFlight = [k \in Keys |-> None]
    /\ lingering = {}
    /\ cache = [k \in Keys |-> None]
    /\ generation = [c \in Commands |-> 0]
    /\ latest = [c \in Commands |-> None]
    /\ drainScheduled = FALSE
    /\ quiet = FALSE /\ quietTimer = FALSE
    /\ backoff = FALSE /\ backoffTimer = FALSE
    /\ pruneTimer = FALSE
    /\ clears = 0

-----------------------------------------------------------------------------
(* Settling promises.                                                      *)

\* Mutant: the other promises are forgotten.
SettlesOnly(S, how) ==
    /\ result' = [t \in S |-> how]
    /\ UNCHANGED lingering

\* A keyed promise that settles has a clean-up timer set on it.
Keyed(c) == Profile[c].coalesce \/ Profile[c].cached
Settles(S, how) ==
    /\ result' = [t \in Calls |-> IF t \in S THEN how ELSE result[t]]
    /\ lingering' = lingering \cup {t \in S : Keyed(Cmd(t))}

\* pruneExpiredQueuedTasks: the queued tasks older than their queuedTtlMs are
\* rejected, if they may be dropped; those of a command grow old in their order.
Expired(X) ==
    \A t \in X : /\ Prof(t).dropQueuedOnOverflow
                 /\ \A u \in queue : u < t /\ Cmd(u) = Cmd(t) => u \in X

-----------------------------------------------------------------------------
(* run().                                                                  *)

\* The call about to be made, its key and its command.
This == calls + 1
K == key[This]
C == CommandOf[K]

NewCall(t) ==
    /\ calls < MaxCalls
    /\ calls' = This
    /\ by' = [by EXCEPT ![This] = t]
    /\ since' = [since EXCEPT ![This] = generation[C]]
    /\ quiet' = (quiet \/ Profile[C].interactive)  \* noteInteractiveActivity
    /\ UNCHANGED <<key, began, active, quietTimer, backoff, backoffTimer, cache, generation, clears>>

\* The value of the result cache.
ReadCache ==
    /\ calls < MaxCalls /\ cache[K] # None
    /\ NewCall(cache[K])
    /\ UNCHANGED <<result, queue, inFlight, lingering, latest, drainScheduled, pruneTimer>>

\* The call in flight, unless it was made before an invalidation.  Its entry
\* outlives it by coalesceMs: it may be settled.
Current(k) == inFlight[k] # None /\ since[inFlight[k]] = generation[CommandOf[k]]
Join ==
    /\ calls < MaxCalls /\ cache[K] = None /\ Current(K)
    /\ NewCall(inFlight[K])
    /\ UNCHANGED <<result, queue, inFlight, lingering, latest, drainScheduled, pruneTimer>>

\* cancelQueuedForScope.
Replaced(c) ==
    {t \in queue : Cmd(t) = c /\ Profile[c].scoped /\ Profile[c].cancelQueuedOnNewer}

\* enforceQueueBudget: the oldest droppable tasks of the command above maxQueued.
OverBudget(c, Q) ==
    IF Profile[c].dropQueuedOnOverflow /\ Profile[c].maxQueued > 0
    THEN {t \in Q : /\ Cmd(t) = c
                    /\ Cardinality({u \in Q : u > t /\ Cmd(u) = c}) >= Profile[c].maxQueued}
    ELSE {}

\* A new task.  A running task of an older generation is aborted besides: its run
\* may then end as any run may (Finish).
Enqueue ==
    /\ calls < MaxCalls /\ cache[K] = None /\ ~Current(K)
    /\ NewCall(This)
    /\ latest' = [latest EXCEPT ![C] = This]
    /\ inFlight' = [inFlight EXCEPT ![K] = IF Keyed(C) THEN This ELSE None]
    /\ LET Q == (queue \ Replaced(C)) \cup {This}
           gone == Replaced(C) \cup OverBudget(C, Q)
       IN  queue' = Q \ gone /\ Settles(gone, "cancelled")
    /\ drainScheduled' = TRUE /\ pruneTimer' = TRUE

-----------------------------------------------------------------------------
(* drain().                                                                *)

\* A drain under way: the tasks still waiting, those running, the quiet window, the
\* resume timers, the lanes the pass has still to try, whether the drain is over.
LanesOf(S) == {Prof(t).lane : t \in S}
LaneOf(S, lane) == {t \in S : Prof(t).lane = lane}
Top(S) == CHOOSE t \in S : \A u \in S :
    \/ Prof(t).priority > Prof(u).priority
    \/ Prof(t).priority = Prof(u).priority /\ t <= u
AnyInteractive(S) == \E t \in S : Prof(t).interactive

\* Of shouldThrottleTask, what sets no timer.
Blocked(p, interactiveQueued, interactiveActive) ==
    /\ ~p.interactive
    /\ \/ interactiveQueued /\ p.backgroundThrottle
       \/ interactiveActive /\ p.lane = "maintenance"

\* What sets the timer that ends it: the back-off, and the quiet window.
Slowed(p) == ~p.interactive /\ backoff /\ (p.adaptiveThrottle \/ p.backgroundThrottle)
Hushed(d, p) == ~p.interactive /\ d.quiet /\ p.backgroundThrottle

\* Mutant: the tasks started in the same pass are not counted.
OverBooked(d, p) ==
    Cardinality(LaneOf(active, p.lane)) >= p.maxConcurrency

\* Mutant: the reserve is kept from interactive tasks too.
NoSlotForAny(d, p) ==
    \/ Cardinality(LaneOf(d.running, p.lane)) >= p.maxConcurrency
    \/ AnyInteractive(d.waiting) /\ Cardinality(d.running) + Reserve >= GlobalMax /\ d.running # {}

NoSlot(d, p) ==
    \/ Cardinality(LaneOf(d.running, p.lane)) >= p.maxConcurrency
    \/ /\ ~p.interactive /\ AnyInteractive(d.waiting)
       /\ Cardinality(d.running) + Reserve >= GlobalMax /\ d.running # {}

\* Mutant: a throttled lane is left to the next drain, with no timer set for it.
TryLaneQuietly(d, lane) ==
    LET t == Top(LaneOf(d.waiting, lane))
        p == Prof(t)
    IN  IF \/ Cardinality(d.running) >= GlobalMax
           \/ Blocked(p, d.interactiveQueued, d.interactiveActive)
           \/ Hushed(d, p)
           \/ NoSlot(d, p)
        THEN d
        ELSE [d EXCEPT !.waiting = @ \ {t}, !.running = @ \cup {t},
                       !.quiet = @ \/ p.interactive]

\* One lane of a pass.
TryLane(d, lane) ==
    LET t == Top(LaneOf(d.waiting, lane))
        p == Prof(t)
    IN  CASE \/ Cardinality(d.running) >= GlobalMax
             \/ Blocked(p, d.interactiveQueued, d.interactiveActive) -> d
          [] OTHER ->
              CASE Slowed(p) -> [d EXCEPT !.backoffTimer = TRUE]
                [] ~Slowed(p) /\ Hushed(d, p) -> [d EXCEPT !.quietTimer = TRUE]
                [] OTHER ->
                    IF NoSlot(d, p) THEN d
                    ELSE [d EXCEPT !.waiting = @ \ {t}, !.running = @ \cup {t},
                                   !.quiet = @ \/ p.interactive]

\* The lanes are tried by the priority of their first task.
NextLane(d) == CHOOSE l \in d.lanes : \A m \in d.lanes :
    Prof(Top(LaneOf(d.waiting, l))).priority >= Prof(Top(LaneOf(d.waiting, m))).priority
TryNext(d) ==
    IF d.lanes = {} THEN d
    ELSE [TryLane(d, NextLane(d)) EXCEPT !.lanes = @ \ {NextLane(d)}]

\* A pass over the lanes with waiting tasks; one that starts nothing is the last.
Begun(d) ==
    [d EXCEPT !.lanes = LanesOf(d.waiting),
              !.interactiveQueued = AnyInteractive(d.waiting),
              !.interactiveActive = LanesOf(d.running) \cap InteractiveLanes # {}]
Tried(d) ==
    LET tried[n \in Nat] == IF n = 0 THEN Begun(d) ELSE TryNext(tried[n - 1])
    IN  tried[Cardinality(LanesOf(d.waiting))]
Pass(d) ==
    IF d.over THEN d ELSE [Tried(d) EXCEPT !.over = Tried(d).running = d.running]

\* At most GlobalMax passes start something.
Passes(d) ==
    LET after[n \in Nat] == IF n = 0 THEN d ELSE Pass(after[n - 1])
    IN  after[GlobalMax]
Drained(S) ==
    Passes([waiting |-> S, running |-> active, quiet |-> quiet,
            quietTimer |-> FALSE, backoffTimer |-> FALSE, lanes |-> {},
            interactiveQueued |-> FALSE, interactiveActive |-> FALSE, over |-> FALSE])

Drain ==
    /\ drainScheduled
    /\ \E X \in SUBSET queue :
        /\ Expired(X)
        /\ \E d \in {Drained(queue \ X)} : \E started \in {queue \ (X \cup d.waiting)} :
            /\ queue' = queue \ (X \cup started)
            /\ active' = active \cup started
            /\ began' = [t \in Calls |-> IF t \in started THEN generation[Cmd(t)] ELSE began[t]]
            /\ quiet' = (quiet \/ AnyInteractive(started))
            /\ quietTimer' = (quietTimer \/ d.quietTimer)
            /\ backoffTimer' = (backoffTimer \/ d.backoffTimer)
        /\ Settles(X, "cancelled")
    /\ drainScheduled' = FALSE
    /\ UNCHANGED <<calls, key, by, since, inFlight, cache, generation, latest, backoff,
                   pruneTimer, clears>>

-----------------------------------------------------------------------------
(* The end of a run.                                                       *)

\* isTaskStale.
Stale(t) == Prof(t).scoped /\ Prof(t).discardStaleResults /\ latest[Cmd(t)] # t

Frees(t) ==
    /\ active' = active \ {t}
    /\ backoff' \in {backoff, backoff \/ Prof(t).nasSensitive \/ Prof(t).adaptiveThrottle}
    /\ drainScheduled' = TRUE
    /\ UNCHANGED <<calls, key, by, since, began, queue, inFlight, generation, latest,
                   quiet, quietTimer, backoffTimer, pruneTimer, clears>>

\* Mutant: what an invalidation has made stale is kept.
FinishKeepsOld(t) ==
    /\ t \in active
    /\ Settles({t}, "value")
    /\ cache' = IF Prof(t).cached THEN [cache EXCEPT ![key[t]] = t] ELSE cache
    /\ Frees(t)

\* Mutant: the slot is freed, but nobody is told.
FinishSilently(t) ==
    /\ t \in active
    /\ Settles({t}, "value")
    /\ active' = active \ {t}
    /\ UNCHANGED <<calls, key, by, since, began, queue, inFlight, cache, generation, latest,
                   throttle, drainScheduled, pruneTimer, clears>>

\* A run returns its value or fails; observeTaskDuration may find it slow.
Finish(t) ==
    /\ t \in active
    /\ \/ /\ ~Stale(t) /\ Settles({t}, "value")
          /\ cache' = IF Prof(t).cached /\ since[t] = generation[Cmd(t)]
                      THEN [cache EXCEPT ![key[t]] = t] ELSE cache
       \/ Stale(t) /\ Settles({t}, "cancelled") /\ UNCHANGED cache
       \/ Settles({t}, "failed") /\ UNCHANGED cache
    /\ Frees(t)

\* Mutant: the entry of a later call is removed as well.
CleanUpAny(t) ==
    /\ t \in lingering
    /\ lingering' = lingering \ {t}
    /\ inFlight' = [inFlight EXCEPT ![key[t]] = None]
    /\ UNCHANGED <<calls, tasks, cache, generation, latest, throttle, drainScheduled,
                   pruneTimer, clears>>

\* coalesceMs after the promise was settled.
CleanUp(t) ==
    /\ t \in lingering
    /\ lingering' = lingering \ {t}
    /\ inFlight' = [inFlight EXCEPT ![key[t]] = IF @ = t THEN None ELSE @]
    /\ UNCHANGED <<calls, tasks, cache, generation, latest, throttle, drainScheduled,
                   pruneTimer, clears>>

CacheExpires(k) ==
    /\ cache[k] # None
    /\ cache' = [cache EXCEPT ![k] = None]
    /\ UNCHANGED <<calls, tasks, inFlight, lingering, generation, latest, throttle,
                   drainScheduled, pruneTimer, clears>>

-----------------------------------------------------------------------------
(* Timers and time.                                                        *)

PruneFires ==
    /\ pruneTimer
    /\ \E X \in SUBSET queue :
        /\ Expired(X)
        /\ queue' = queue \ X
        /\ Settles(X, "cancelled")
    /\ drainScheduled' = TRUE
    /\ pruneTimer' = (queue' # {})
    /\ UNCHANGED <<calls, key, by, since, began, active, inFlight, cache, generation,
                   latest, throttle, clears>>

QuietTimerFires ==
    /\ quietTimer /\ quietTimer' = FALSE
    /\ drainScheduled' = TRUE
    /\ UNCHANGED <<calls, tasks, caches, quiet, backoff, backoffTimer, pruneTimer, clears>>

BackoffTimerFires ==
    /\ backoffTimer /\ backoffTimer' = FALSE
    /\ drainScheduled' = TRUE
    /\ UNCHANGED <<calls, tasks, caches, quiet, quietTimer, backoff, pruneTimer, clears>>

QuietEnds ==
    /\ quiet /\ quiet' = FALSE
    /\ UNCHANGED <<calls, tasks, caches, quietTimer, backoff, backoffTimer, drainScheduled,
                   pruneTimer, clears>>

BackoffEnds ==
    /\ backoff /\ backoff' = FALSE
    /\ UNCHANGED <<calls, tasks, caches, quiet, quietTimer, backoffTimer, drainScheduled,
                   pruneTimer, clears>>

-----------------------------------------------------------------------------
(* clearFontQueryCaches: invalidate, cancelScopes, markInteractiveActivity. *)

ClearFontQueryCaches ==
    /\ clears < MaxClears /\ clears' = clears + 1
    /\ generation' = [c \in Commands |-> IF c \in Queries THEN generation[c] + 1 ELSE generation[c]]
    /\ cache' = [k \in Keys |-> IF CommandOf[k] \in Queries THEN None ELSE cache[k]]
    /\ inFlight' = [k \in Keys |-> IF CommandOf[k] \in Queries THEN None ELSE inFlight[k]]
    /\ latest' = [c \in Commands |-> IF c \in Queries THEN None ELSE latest[c]]
    /\ LET gone == UNION {Replaced(c) : c \in Queries}
       IN  queue' = queue \ gone /\ Settles(gone, "cancelled")
    /\ quiet' = TRUE
    /\ drainScheduled' = TRUE
    /\ UNCHANGED <<calls, key, by, since, began, active, quietTimer, backoff, backoffTimer,
                   pruneTimer>>

-----------------------------------------------------------------------------
\* Nothing is queued or running and no call is to come.
Done == calls = MaxCalls /\ queue = {} /\ active = {} /\ UNCHANGED vars

Next ==
    \/ ReadCache \/ Join \/ Enqueue \/ Drain
    \/ \E t \in Calls : Finish(t) \/ CleanUp(t)
    \/ \E k \in Keys : CacheExpires(k)
    \/ PruneFires \/ QuietTimerFires \/ BackoffTimerFires \/ QuietEnds \/ BackoffEnds
    \/ ClearFontQueryCaches
    \/ Done

Spec == Init /\ [][Next]_vars

\* Timers that are set fire, windows end, and a worker process ends or is killed by
\* its timeout: each is the only step that changes its variable so, and may always
\* be taken.  Nothing is assumed of the prune timer: queuedTaskPruneMs may be 0.
Drains == drainScheduled /\ drainScheduled' = FALSE
Ends(t) == t \in active /\ active' = active \ {t}
FairSpec ==
    /\ Spec
    /\ WF_drainScheduled(Drains) /\ \A t \in Calls : WF_active(Ends(t))
    /\ WF_quietTimer(quietTimer /\ quietTimer' = FALSE)
    /\ WF_backoffTimer(backoffTimer /\ backoffTimer' = FALSE)
    /\ WF_quiet(quiet /\ quiet' = FALSE) /\ WF_backoff(backoff /\ backoff' = FALSE)

-----------------------------------------------------------------------------
(* Properties.                                                             *)

\* Every variable has a value of its kind.
TypeOK ==
    /\ calls \in 0..MaxCalls
    /\ key \in [Calls -> Keys]
    /\ by \in [Calls -> 0..MaxCalls]
    /\ since \in [Calls -> Nat]
    /\ result \in [Calls -> {"pending", "value", "cancelled", "failed"}]
    /\ began \in [Calls -> Nat]
    /\ queue \subseteq Calls /\ active \subseteq Calls /\ lingering \subseteq Calls
    /\ inFlight \in [Keys -> 0..MaxCalls] /\ cache \in [Keys -> 0..MaxCalls]
    /\ generation \in [Commands -> Nat]
    /\ latest \in [Commands -> 0..MaxCalls]
    /\ drainScheduled \in BOOLEAN /\ pruneTimer \in BOOLEAN
    /\ quiet \in BOOLEAN /\ quietTimer \in BOOLEAN
    /\ backoff \in BOOLEAN /\ backoffTimer \in BOOLEAN
    /\ clears \in 0..MaxClears

\* A call made after an invalidation is never answered by a worker started before it,
\* whether its answer is cached, joined in flight or its own.
FreshAfterInvalidation ==
    \A i \in Calls : by[i] # None /\ result[by[i]] = "value" => began[by[i]] >= since[i]

\* Two tasks with the same key are under way together only if an invalidation came
\* between their calls.
SingleFlight ==
    \A t, u \in Calls :
        /\ t # u /\ by[t] = t /\ by[u] = u
        /\ result[t] = "pending" /\ result[u] = "pending"
        /\ key[t] = key[u] /\ Keyed(Cmd(t))
        => since[t] # since[u]

\* The tasks running together fit in the whole and in the lane: commands of the lane
\* that allow one at a time never overlap.
SlotsRespected ==
    /\ Cardinality(active) <= GlobalMax
    /\ \A t \in active : \E u \in active :
        /\ Prof(u).lane = Prof(t).lane
        /\ Cardinality(LaneOf(active, Prof(t).lane)) <= Prof(u).maxConcurrency

\* An interactive task queued behind background work of its own lane, which is held
\* back because interactive work is queued: --physical-folder-tree behind
\* --watcher-batch-preflight.  They wait until one of them expires.
HeldForItself ==
    \E t \in queue : LET first == Top(LaneOf(queue, Prof(t).lane)) IN
        Prof(t).interactive /\ ~Prof(first).interactive /\ Prof(first).backgroundThrottle

\* A task waits in the queue only if a drain, the end of a run or a timer is to come,
\* but for that one case.
NoLostWakeup ==
    queue # {} => drainScheduled \/ active # {} \/ quietTimer \/ backoffTimer \/ HeldForItself

\* Every call of run() is answered.
EveryCallAnswered ==
    \A i \in Calls : by[i] # None ~> by[i] # None /\ result[by[i]] # "pending"

\* After a drain an interactive task waits only if its lane is in use or every slot
\* is, never for the sake of background work, unless the lane's first task is not
\* interactive: what holds that one up then holds up the lane.
InteractiveNotHeld ==
    ~drainScheduled => \A t \in queue :
        Prof(t).interactive => \/ LaneOf(active, Prof(t).lane) # {}
                               \/ Cardinality(active) >= GlobalMax
                               \/ ~Prof(Top(LaneOf(queue, Prof(t).lane))).interactive
=============================================================================
