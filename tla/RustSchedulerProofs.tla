------------------------ MODULE RustSchedulerProofs ------------------------
(***************************************************************************)
(* Proofs about RustScheduler, for any commands, profiles, keys and number *)
(* of calls.  That a call is never answered from before an invalidation is *)
(* carried by the cache generations: an entry in flight or in the cache is *)
(* of the current generation of its command (FlightInv), a worker is       *)
(* started at a generation no older than its call's (TaskInv); for this it *)
(* is enough that a drain starts some queued tasks.  The second half is    *)
(* about what it starts: by induction over lanes and passes, a drain keeps *)
(* the limits (Fit) and leaves no task waiting but for a reason that wakes *)
(* the scheduler again (WakeInv).                                          *)
(***************************************************************************)
EXTENDS RustScheduler, FiniteSetTheorems, WellFoundedInduction, TLAPS

IsTask(t) == t \in Calls /\ by[t] = t

\* A call was given the promise of a task with the same key and cache generation.
CallInv ==
    /\ \A i \in Calls : by[i] # None <=> i <= calls
    /\ \A i \in Calls : by[i] # None =>
        /\ since[i] <= generation[Cmd(i)]
        /\ IsTask(by[i]) /\ key[by[i]] = key[i] /\ since[by[i]] = since[i]

\* Where a task is, against its result and the generation it was started at.
TaskInv ==
    /\ queue \cap active = {}
    /\ \A t \in queue \cup active : by[t] = t /\ result[t] = "pending"
    /\ \A t \in Calls : result[t] # "pending" => by[t] = t
    /\ \A t \in lingering : result[t] # "pending"
    /\ \A t \in Calls : t \in active \/ result[t] = "value" => began[t] >= since[t]

\* t is a task of key k made after the last invalidation.
Fresh(t, k) == IsTask(t) /\ key[t] = k /\ since[t] = generation[CommandOf[k]]

FlightInv ==
    /\ \A k \in Keys : inFlight[k] # None => Fresh(inFlight[k], k)
    /\ \A k \in Keys : cache[k] # None => Fresh(cache[k], k)
    /\ \A t \in Calls :
        Fresh(t, key[t]) /\ result[t] = "pending" /\ Keyed(Cmd(t)) => inFlight[key[t]] = t

IInv == TypeOK /\ CallInv /\ TaskInv /\ FlightInv /\ SingleFlight

LEMMA InitIInv == Init => IInv
<1> SUFFICES ASSUME Init PROVE IInv
    OBVIOUS
<1>0. 0 \in 0..MaxCalls /\ 0 \in 0..MaxClears
    BY BoundAssumption
<1>1. TypeOK
    BY <1>0 DEF Init, TypeOK, None
<1>2. calls = 0 /\ \A i \in Calls : by[i] = None /\ by[i] # i /\ ~(i <= calls)
                                   /\ result[i] = "pending"
    BY BoundAssumption DEF Init, Calls, None
<1>3. CallInv
    BY <1>2 DEF CallInv
<1>4. TaskInv
    BY <1>2 DEF Init, TaskInv
<1>5. FlightInv
    BY <1>2 DEF Init, FlightInv, Fresh, IsTask
<1>6. SingleFlight
    BY <1>2 DEF SingleFlight
<1> QED
    BY <1>1, <1>3, <1>4, <1>5, <1>6 DEF IInv

-----------------------------------------------------------------------------
(* Calls and keys.                                                         *)

LEMMA CallNumber == \A n \in 0..MaxCalls : n # None => n \in Calls
BY BoundAssumption DEF Calls, None

LEMMA KeyCommand == \A k \in Keys : CommandOf[k] \in Commands
BY CommandAssumption

LEMMA CmdType == ASSUME TypeOK PROVE \A t \in Calls : Cmd(t) \in Commands
BY CommandAssumption DEF TypeOK, Cmd

\* What the settling of some promises changes.
LEMMA SettlesType ==
    ASSUME TypeOK, NEW S, S \subseteq Calls,
           NEW how, how \in {"value", "cancelled", "failed"}, Settles(S, how)
    PROVE  /\ result' \in [Calls -> {"pending", "value", "cancelled", "failed"}]
           /\ lingering' \subseteq lingering \cup S
           /\ lingering' \subseteq Calls
           /\ \A t \in S : result'[t] = how
           /\ \A t \in Calls \ S : result'[t] = result[t]
<1>1. result' = [t \in Calls |-> IF t \in S THEN how ELSE result[t]]
    BY DEF Settles
<1>2. \A t \in Calls : result[t] \in {"pending", "value", "cancelled", "failed"}
    BY DEF TypeOK
<1>3. lingering' \subseteq lingering \cup S /\ lingering \subseteq Calls
    BY DEF Settles, TypeOK
<1> QED
    BY <1>1, <1>2, <1>3

-----------------------------------------------------------------------------
(* Steps that make no call: the tasks of S are settled, those of R started. *)

SameCalls == UNCHANGED <<calls, key, by, since>>

TaskMove(S, R, how) ==
    /\ S \subseteq queue \cup active /\ R \subseteq queue \ S
    /\ how = "value" => S \subseteq active
    /\ how # "pending"
    /\ queue' = queue \ (S \cup R)
    /\ active' = (active \ S) \cup R
    /\ \A t \in S : result'[t] = how
    /\ \A t \in Calls \ S : result'[t] = result[t]
    /\ lingering' \subseteq lingering \cup S
    /\ \A t \in R : began'[t] = generation[Cmd(t)]
    /\ \A t \in Calls \ R : began'[t] = began[t]

LEMMA CallsStay ==
    ASSUME TypeOK, CallInv, SameCalls, generation' = generation
    PROVE  CallInv'
BY DEF SameCalls, CallInv, IsTask, Cmd

LEMMA TasksMove ==
    ASSUME TypeOK, CallInv, TaskInv, SameCalls, NEW S, NEW R, NEW how, TaskMove(S, R, how)
    PROVE  TaskInv'
<1>1. queue \subseteq Calls /\ active \subseteq Calls /\ lingering \subseteq Calls
    BY DEF TypeOK
<1>2. key' = key /\ by' = by /\ since' = since
    BY DEF SameCalls
<1>3. queue' \cap active' = {}
    BY DEF TaskMove, TaskInv
<1>4. \A t \in queue' \cup active' : by'[t] = t /\ result'[t] = "pending"
    BY <1>1, <1>2 DEF TaskMove, TaskInv
<1>5. \A t \in Calls : result'[t] # "pending" => by'[t] = t
    BY <1>1, <1>2 DEF TaskMove, TaskInv
<1>6. \A t \in lingering' : result'[t] # "pending"
    BY <1>1 DEF TaskMove, TaskInv
<1>7. ASSUME NEW t \in Calls, t \in active' \/ result'[t] = "value"
      PROVE  began'[t] >= since'[t]
    <2>1. CASE t \in R
        <3>1. t \in queue /\ by[t] = t /\ t # None
            BY <2>1, <1>1 DEF TaskMove, TaskInv, Calls, None
        <3>2. since[t] <= generation[Cmd(t)]
            BY <3>1 DEF CallInv
        <3>3. since[t] \in Nat /\ generation[Cmd(t)] \in Nat
            BY CmdType DEF TypeOK
        <3>4. began'[t] = generation[Cmd(t)]
            BY <2>1 DEF TaskMove
        <3> QED
            BY <3>2, <3>3, <3>4, <1>2
    <2>2. CASE t \notin R
        <3>1. t \in active \/ result[t] = "value"
            BY <2>2, <1>7 DEF TaskMove
        <3>2. began'[t] = began[t]
            BY <2>2 DEF TaskMove
        <3> QED
            BY <3>1, <3>2, <1>2 DEF TaskInv
    <2> QED
        BY <2>1, <2>2
<1> QED
    BY <1>3, <1>4, <1>5, <1>6, <1>7 DEF TaskInv

\* No result is taken back, no entry of a pending task is lost, no old one is kept.
FlightMove ==
    /\ \A t \in Calls : result'[t] = "pending" => result[t] = "pending"
    /\ \A k \in Keys : \/ inFlight'[k] = inFlight[k]
                       \/ inFlight'[k] = None /\ result[inFlight[k]] # "pending"
    /\ \A k \in Keys : cache'[k] = cache[k] \/ cache'[k] = None \/ Fresh(cache'[k], k)

LEMMA FlightStays ==
    ASSUME TypeOK, FlightInv, SameCalls, generation' = generation, FlightMove
    PROVE  FlightInv'
<1>1. key' = key /\ by' = by /\ since' = since
    BY DEF SameCalls
<1>2. \A t, k : Fresh(t, k)' <=> Fresh(t, k)
    BY <1>1 DEF Fresh, IsTask
<1>3. \A k \in Keys : inFlight'[k] # None => Fresh(inFlight'[k], k)
    BY DEF FlightMove, FlightInv
<1>4. \A k \in Keys : cache'[k] # None => Fresh(cache'[k], k)
    BY DEF FlightMove, FlightInv
<1>5. ASSUME NEW t \in Calls, Fresh(t, key[t]), result'[t] = "pending", Keyed(Cmd(t))
      PROVE  inFlight'[key[t]] = t
    <2>1. result[t] = "pending" /\ key[t] \in Keys
        BY <1>5 DEF FlightMove, TypeOK
    <2>2. inFlight[key[t]] = t
        BY <1>5, <2>1 DEF FlightInv
    <2> QED
        BY <2>1, <2>2 DEF FlightMove
<1>6. \A t \in Calls : Cmd(t)' = Cmd(t)
    BY <1>1 DEF Cmd
<1>7. \A t \in Calls : Fresh(t, key[t])' <=> Fresh(t, key[t])
    BY <1>1 DEF Fresh, IsTask
<1>8. \A k \in Keys : (inFlight[k] # None => Fresh(inFlight[k], k))'
    BY <1>3, <1>1 DEF Fresh, IsTask
<1>9. \A k \in Keys : (cache[k] # None => Fresh(cache[k], k))'
    BY <1>4, <1>1 DEF Fresh, IsTask
<1>10. \A t \in Calls :
        (Fresh(t, key[t]) /\ result[t] = "pending" /\ Keyed(Cmd(t)) => inFlight[key[t]] = t)'
    BY <1>5, <1>6, <1>7, <1>1 DEF Keyed
<1> QED
    BY <1>8, <1>9, <1>10 DEF FlightInv

LEMMA SingleStays ==
    ASSUME TypeOK, SingleFlight, SameCalls,
           \A t \in Calls : result'[t] = "pending" => result[t] = "pending"
    PROVE  SingleFlight'
<1>1. key' = key /\ by' = by /\ since' = since
    BY DEF SameCalls
<1> QED
    BY <1>1 DEF SingleFlight, Keyed, Cmd

\* A step that makes no call and invalidates nothing keeps the invariant.
LEMMA MoveKeeps ==
    ASSUME IInv, TypeOK', SameCalls, generation' = generation, FlightMove,
           NEW S, NEW R, NEW how, TaskMove(S, R, how)
    PROVE  IInv'
<1>1. CallInv'
    BY CallsStay DEF IInv
<1>2. TaskInv'
    BY TasksMove DEF IInv
<1>3. FlightInv'
    BY FlightStays DEF IInv
<1>4. SingleFlight'
    BY SingleStays DEF IInv, FlightMove
<1> QED
    BY <1>1, <1>2, <1>3, <1>4 DEF IInv

-----------------------------------------------------------------------------
(* The steps that make no call.                                            *)

\* What changes neither tasks nor entries in flight.
Idle ==
    UNCHANGED <<calls, key, by, since, result, began, queue, active, inFlight, lingering,
                cache, generation>>

LEMMA IdleKeeps ==
    ASSUME IInv, TypeOK', Idle
    PROVE  IInv'
<1>1. TaskMove({}, {}, "failed")
    BY DEF Idle, TaskMove
<1>2. FlightMove
    BY DEF Idle, FlightMove
<1> QED
    BY <1>1, <1>2, MoveKeeps DEF Idle, SameCalls

LEMMA TimerKeeps ==
    ASSUME IInv, QuietTimerFires \/ BackoffTimerFires \/ QuietEnds \/ BackoffEnds
                 \/ Done \/ UNCHANGED vars
    PROVE  IInv'
<1>1. TypeOK'
    BY DEF IInv, TypeOK, QuietTimerFires, BackoffTimerFires, QuietEnds, BackoffEnds, Done,
           vars, tasks, caches, throttle
<1>2. Idle
    BY DEF Idle, QuietTimerFires, BackoffTimerFires, QuietEnds, BackoffEnds, Done,
           vars, tasks, caches, throttle
<1> QED
    BY <1>1, <1>2, IdleKeeps

LEMMA DrainKeeps ==
    ASSUME IInv, Drain
    PROVE  IInv'
<1>1. PICK X \in SUBSET queue, started \in SUBSET queue :
        /\ started \subseteq queue \ X
        /\ queue' = queue \ (X \cup started)
        /\ active' = active \cup started
        /\ began' = [t \in Calls |-> IF t \in started THEN generation[Cmd(t)] ELSE began[t]]
        /\ quiet' \in BOOLEAN /\ quietTimer' \in BOOLEAN /\ backoffTimer' \in BOOLEAN
        /\ Settles(X, "cancelled")
    BY DEF Drain
<1>2. /\ UNCHANGED <<calls, key, by, since, inFlight, cache, generation, latest, backoff,
                     pruneTimer, clears>>
      /\ drainScheduled' = FALSE
    BY DEF Drain
<1>3. X \subseteq Calls /\ started \subseteq Calls /\ queue \cap active = {}
    BY DEF IInv, TypeOK, TaskInv
<1>4. /\ result' \in [Calls -> {"pending", "value", "cancelled", "failed"}]
      /\ lingering' \subseteq lingering \cup X /\ lingering' \subseteq Calls
      /\ \A t \in X : result'[t] = "cancelled"
      /\ \A t \in Calls \ X : result'[t] = result[t]
    BY <1>1, <1>3, SettlesType DEF IInv
<1>5. /\ began' \in [Calls -> Nat]
      /\ \A t \in started : began'[t] = generation[Cmd(t)]
      /\ \A t \in Calls \ started : began'[t] = began[t]
    BY <1>1, <1>3, CmdType DEF IInv, TypeOK
<1>6. TypeOK'
    BY <1>1, <1>2, <1>3, <1>4, <1>5 DEF IInv, TypeOK
<1>7. TaskMove(X, started, "cancelled")
    BY <1>1, <1>3, <1>4, <1>5 DEF TaskMove
<1>8. FlightMove
    BY <1>2, <1>4 DEF FlightMove
<1> QED
    BY <1>2, <1>6, <1>7, <1>8, MoveKeeps DEF SameCalls

LEMMA PruneKeeps ==
    ASSUME IInv, PruneFires
    PROVE  IInv'
<1>1. PICK X \in SUBSET queue : queue' = queue \ X /\ Settles(X, "cancelled")
    BY DEF PruneFires
<1>2. /\ UNCHANGED <<calls, key, by, since, began, active, inFlight, cache, generation,
                     latest, throttle, clears>>
      /\ drainScheduled' = TRUE /\ pruneTimer' \in BOOLEAN
    BY DEF PruneFires
<1>3. X \subseteq Calls /\ queue \cap active = {}
    BY DEF IInv, TypeOK, TaskInv
<1>4. /\ result' \in [Calls -> {"pending", "value", "cancelled", "failed"}]
      /\ lingering' \subseteq lingering \cup X /\ lingering' \subseteq Calls
      /\ \A t \in X : result'[t] = "cancelled"
      /\ \A t \in Calls \ X : result'[t] = result[t]
    BY <1>1, <1>3, SettlesType DEF IInv
<1>5. TypeOK'
    BY <1>1, <1>2, <1>3, <1>4 DEF IInv, TypeOK, throttle
<1>6. TaskMove(X, {}, "cancelled")
    BY <1>1, <1>2, <1>3, <1>4 DEF TaskMove
<1>7. FlightMove
    BY <1>2, <1>4 DEF FlightMove
<1> QED
    BY <1>2, <1>5, <1>6, <1>7, MoveKeeps DEF SameCalls

LEMMA FinishKeeps ==
    ASSUME IInv, NEW t \in Calls, Finish(t)
    PROVE  IInv'
<1>1. /\ active' = active \ {t} /\ backoff' \in BOOLEAN /\ drainScheduled' = TRUE
      /\ UNCHANGED <<calls, key, by, since, began, queue, inFlight, generation, latest,
                     quiet, quietTimer, backoffTimer, pruneTimer, clears>>
    BY DEF Finish, Frees, IInv, TypeOK
<1>2. t \in active /\ t \notin queue /\ by[t] = t
    BY DEF Finish, IInv, TaskInv
<1>3. PICK how \in {"value", "cancelled", "failed"} : Settles({t}, how)
    BY DEF Finish
<1>4. \A k \in Keys : cache'[k] = cache[k] \/ cache'[k] = None \/ Fresh(cache'[k], k)
    <2> SUFFICES ASSUME NEW k \in Keys, cache' # cache, cache'[k] # cache[k]
                 PROVE  Fresh(cache'[k], k)
        OBVIOUS
    <2>1. since[t] = generation[Cmd(t)] /\ cache' = [cache EXCEPT ![key[t]] = t]
        BY DEF Finish
    <2>2. k = key[t] /\ cache'[k] = t
        BY <2>1 DEF IInv, TypeOK
    <2> QED
        BY <1>2, <2>1, <2>2 DEF Fresh, IsTask, Cmd
<1>5. cache' \in [Keys -> 0..MaxCalls]
    <2>1. t \in 0..MaxCalls
        BY BoundAssumption DEF Calls
    <2>2. cache' = cache \/ cache' = [cache EXCEPT ![key[t]] = t]
        BY DEF Finish
    <2> QED
        BY <2>1, <2>2 DEF IInv, TypeOK
<1>6. /\ result' \in [Calls -> {"pending", "value", "cancelled", "failed"}]
      /\ lingering' \subseteq lingering \cup {t} /\ lingering' \subseteq Calls
      /\ result'[t] = how
      /\ \A u \in Calls \ {t} : result'[u] = result[u]
    <2>1. {t} \subseteq Calls /\ TypeOK
        BY DEF IInv
    <2> DEFINE S == {t}
    <2>2. S \subseteq Calls /\ Settles(S, how) /\ t \in S
        BY <2>1, <1>3
    <2> HIDE DEF S
    <2>3. /\ result' \in [Calls -> {"pending", "value", "cancelled", "failed"}]
          /\ lingering' \subseteq lingering \cup S /\ lingering' \subseteq Calls
          /\ \A u \in S : result'[u] = how
          /\ \A u \in Calls \ S : result'[u] = result[u]
        BY <2>1, <2>2, SettlesType
    <2> QED
        BY <2>2, <2>3 DEF S
<1>7. TypeOK'
    BY <1>1, <1>5, <1>6 DEF IInv, TypeOK
<1>8. TaskMove({t}, {}, how)
    BY <1>1, <1>2, <1>6 DEF TaskMove
<1>9. FlightMove
    BY <1>1, <1>4, <1>6 DEF FlightMove
<1> QED
    BY <1>1, <1>7, <1>8, <1>9, MoveKeeps DEF SameCalls

LEMMA CleanUpKeeps ==
    ASSUME IInv, NEW t \in Calls, CleanUp(t)
    PROVE  IInv'
<1>1. /\ t \in lingering /\ lingering' = lingering \ {t}
      /\ inFlight' = [inFlight EXCEPT ![key[t]] = IF @ = t THEN None ELSE @]
      /\ UNCHANGED <<calls, tasks, cache, generation, latest, throttle, drainScheduled,
                     pruneTimer, clears>>
    BY DEF CleanUp
<1>2. inFlight' \in [Keys -> 0..MaxCalls]
    BY <1>1, BoundAssumption DEF IInv, TypeOK, None
<1>3. TypeOK'
    BY <1>1, <1>2 DEF IInv, TypeOK, tasks, throttle
<1>4. TaskMove({}, {}, "failed")
    BY <1>1 DEF TaskMove, tasks
<1>5. result[t] # "pending"
    BY <1>1 DEF IInv, TaskInv
<1>6. FlightMove
    BY <1>1, <1>5 DEF FlightMove, IInv, TypeOK, tasks
<1> QED
    BY <1>1, <1>3, <1>4, <1>6, MoveKeeps DEF SameCalls, tasks

LEMMA CacheExpiresKeeps ==
    ASSUME IInv, NEW k \in Keys, CacheExpires(k)
    PROVE  IInv'
<1>1. cache' \in [Keys -> 0..MaxCalls] /\ \A j \in Keys : cache'[j] \in {cache[j], None}
    BY BoundAssumption DEF CacheExpires, IInv, TypeOK, None
<1>2. UNCHANGED <<calls, tasks, inFlight, lingering, generation, latest, throttle,
                  drainScheduled, pruneTimer, clears>>
    BY DEF CacheExpires
<1>3. TypeOK'
    BY <1>1, <1>2 DEF IInv, TypeOK, tasks, throttle
<1>4. TaskMove({}, {}, "failed")
    BY <1>2 DEF TaskMove, tasks
<1>5. FlightMove
    BY <1>1, <1>2 DEF FlightMove, tasks
<1> QED
    BY <1>2, <1>3, <1>4, <1>5, MoveKeeps DEF SameCalls, tasks

-----------------------------------------------------------------------------
(* An invalidation.                                                        *)

LEMMA ClearKeeps ==
    ASSUME IInv, ClearFontQueryCaches
    PROVE  IInv'
<1> DEFINE gone == UNION {Replaced(c) : c \in Queries}
<1>1. /\ generation' = [c \in Commands |-> IF c \in Queries THEN generation[c] + 1 ELSE generation[c]]
      /\ cache' = [k \in Keys |-> IF CommandOf[k] \in Queries THEN None ELSE cache[k]]
      /\ inFlight' = [k \in Keys |-> IF CommandOf[k] \in Queries THEN None ELSE inFlight[k]]
      /\ latest' = [c \in Commands |-> IF c \in Queries THEN None ELSE latest[c]]
      /\ queue' = queue \ gone /\ Settles(gone, "cancelled")
      /\ quiet' = TRUE /\ drainScheduled' = TRUE
      /\ clears < MaxClears /\ clears' = clears + 1
      /\ UNCHANGED <<calls, key, by, since, began, active, quietTimer, backoff, backoffTimer,
                     pruneTimer>>
    BY DEF ClearFontQueryCaches
<1>2. gone \subseteq queue /\ gone \subseteq Calls
    BY DEF Replaced, IInv, TypeOK
<1> HIDE DEF gone
<1>3. /\ result' \in [Calls -> {"pending", "value", "cancelled", "failed"}]
      /\ lingering' \subseteq lingering \cup gone /\ lingering' \subseteq Calls
      /\ \A t \in gone : result'[t] = "cancelled"
      /\ \A t \in Calls \ gone : result'[t] = result[t]
    BY <1>1, <1>2, SettlesType DEF IInv
<1>4. /\ inFlight' \in [Keys -> 0..MaxCalls] /\ cache' \in [Keys -> 0..MaxCalls]
      /\ latest' \in [Commands -> 0..MaxCalls]
    <2>1. None \in 0..MaxCalls
        BY BoundAssumption DEF None
    <2> QED
        BY <1>1, <2>1 DEF IInv, TypeOK
<1>5. generation' \in [Commands -> Nat] /\ clears' \in 0..MaxClears
    BY <1>1, BoundAssumption DEF IInv, TypeOK
<1>6. TypeOK'
    BY <1>1, <1>2, <1>3, <1>4, <1>5 DEF IInv, TypeOK
<1>7. \A c \in Commands : generation'[c] >= generation[c]
                         /\ (c \in Queries => generation'[c] > generation[c])
                         /\ (c \notin Queries => generation'[c] = generation[c])
    BY <1>1 DEF IInv, TypeOK
<1>8. \A i \in Calls : /\ Cmd(i) \in Commands /\ Cmd(i)' = Cmd(i) /\ key[i] \in Keys
                      /\ since[i] \in Nat /\ generation[Cmd(i)] \in Nat
                      /\ generation'[Cmd(i)] \in Nat
    BY <1>1, <1>5, CmdType DEF IInv, TypeOK, Cmd
<1>9. CallInv'
    <2>1. \A i \in Calls : by[i] # None => since[i] <= generation'[Cmd(i)]
        BY <1>7, <1>8 DEF IInv, CallInv
    <2> QED
        BY <1>1, <1>8, <2>1 DEF IInv, CallInv, IsTask
<1>10. TaskInv'
    <2>1. TaskMove(gone, {}, "cancelled")
        BY <1>1, <1>2, <1>3 DEF TaskMove, IInv, TaskInv
    <2> QED
        BY <1>1, <2>1, TasksMove DEF IInv, SameCalls
<1>11. FlightInv'
    <2>1. \A k \in Keys : CommandOf[k] \in Commands
        BY KeyCommand
    <2>2. ASSUME NEW k \in Keys, NEW t, Fresh(t, k), CommandOf[k] \notin Queries
          PROVE  Fresh(t, k)'
        BY <1>1, <1>7, <2>1, <2>2 DEF Fresh, IsTask
    <2>3. ASSUME NEW k \in Keys PROVE (inFlight[k] # None => Fresh(inFlight[k], k))'
        BY <1>1, <2>2 DEF IInv, FlightInv, Fresh, IsTask
    <2>4. ASSUME NEW k \in Keys PROVE (cache[k] # None => Fresh(cache[k], k))'
        BY <1>1, <2>2 DEF IInv, FlightInv, Fresh, IsTask
    <2>5. ASSUME NEW t \in Calls, Fresh(t, key[t])', result'[t] = "pending", Keyed(Cmd(t))
          PROVE  inFlight'[key[t]] = t
        <3>1. by[t] = t /\ t # None /\ since[t] = generation'[Cmd(t)]
            BY <2>5, <1>1 DEF Fresh, IsTask, Calls, None, Cmd
        <3>2. since[t] <= generation[Cmd(t)]
            BY <3>1 DEF IInv, CallInv
        <3>3. Cmd(t) \notin Queries
            BY <3>1, <3>2, <1>7, <1>8
        <3>4. Fresh(t, key[t])
            BY <3>1, <3>3, <1>7, <1>8 DEF Fresh, IsTask, Cmd
        <3>5. result[t] = "pending"
            BY <2>5, <1>3
        <3>6. inFlight[key[t]] = t
            BY <3>4, <3>5, <2>5 DEF IInv, FlightInv
        <3> QED
            BY <3>3, <3>6, <1>1, <1>8 DEF Cmd
    <2>6. \A t \in Calls :
            (Fresh(t, key[t]) /\ result[t] = "pending" /\ Keyed(Cmd(t)) => inFlight[key[t]] = t)'
        BY <2>5, <1>1, <1>8 DEF Keyed
    <2> QED
        BY <2>3, <2>4, <2>6 DEF FlightInv
<1>12. SingleFlight'
    <2>1. \A t \in Calls : result'[t] = "pending" => result[t] = "pending"
        BY <1>3
    <2> QED
        BY <1>1, <2>1, SingleStays DEF IInv, SameCalls
<1> QED
    BY <1>6, <1>9, <1>10, <1>11, <1>12 DEF IInv

-----------------------------------------------------------------------------
(* run().                                                                  *)

\* The call about to be made is not yet known to anything.
LEMMA NewCallFacts ==
    ASSUME IInv, calls < MaxCalls
    PROVE  /\ This \in Calls /\ This # None /\ K \in Keys /\ C \in Commands
           /\ K = key[This] /\ C = Cmd(This) /\ C = CommandOf[K]
           /\ by[This] = None /\ result[This] = "pending"
           /\ This \notin queue \cup active \cup lingering
           /\ generation[C] \in Nat
           /\ \A t \in Calls : by[t] = t => t # This
<1>1. This \in Calls /\ This # None /\ ~(This <= calls)
    BY BoundAssumption DEF This, Calls, None, IInv, TypeOK
<1>2. K \in Keys /\ C \in Commands /\ K = key[This] /\ C = CommandOf[K] /\ C = Cmd(This)
    BY <1>1, CommandAssumption DEF K, C, Cmd, IInv, TypeOK
<1>3. by[This] = None
    BY <1>1 DEF IInv, CallInv
<1>4. result[This] = "pending"
    BY <1>1, <1>3 DEF IInv, TaskInv
<1>5. This \notin queue \cup active \cup lingering
    BY <1>1, <1>3, <1>4 DEF IInv, TaskInv
<1>6. generation[C] \in Nat
    BY <1>2 DEF IInv, TypeOK
<1> QED
    BY <1>1, <1>2, <1>3, <1>4, <1>5, <1>6

\* The new call is given the promise of task t.
Given(t) ==
    /\ calls < MaxCalls /\ calls' = This /\ t \in Calls
    /\ by' = [by EXCEPT ![This] = t] /\ since' = [since EXCEPT ![This] = generation[C]]
    /\ UNCHANGED <<key, generation>>

LEMMA GivenFacts ==
    ASSUME IInv, NEW t, Given(t)
    PROVE  /\ calls' \in 0..MaxCalls /\ by' \in [Calls -> 0..MaxCalls]
           /\ since' \in [Calls -> Nat]
           /\ by'[This] = t /\ since'[This] = generation[C]
           /\ \A i \in Calls \ {This} : by'[i] = by[i] /\ since'[i] = since[i]
           /\ \A i \in Calls : i <= calls' <=> i <= calls \/ i = This
           /\ \A i \in Calls : Cmd(i)' = Cmd(i)
<1>1. This \in Calls /\ calls \in 0..MaxCalls /\ generation[C] \in Nat
    BY NewCallFacts DEF Given, IInv, TypeOK
<1>2. calls' \in 0..MaxCalls /\ \A i \in Calls : i <= calls' <=> i <= calls \/ i = This
    BY <1>1, BoundAssumption DEF Given, This, Calls
<1>3. by' \in [Calls -> 0..MaxCalls] /\ since' \in [Calls -> Nat]
    <2>1. t \in 0..MaxCalls
        BY BoundAssumption DEF Given, Calls
    <2> QED
        BY <1>1, <2>1 DEF Given, IInv, TypeOK
<1>4. /\ by'[This] = t /\ since'[This] = generation[C]
      /\ \A i \in Calls \ {This} : by'[i] = by[i] /\ since'[i] = since[i]
    BY <1>1 DEF Given, IInv, TypeOK
<1>5. \A i \in Calls : Cmd(i)' = Cmd(i)
    BY DEF Given, Cmd
<1> QED
    BY <1>2, <1>3, <1>4, <1>5

LEMMA GivenCall ==
    ASSUME IInv, NEW t, Given(t), t = This \/ Fresh(t, K)
    PROVE  CallInv'
<1>1. /\ by'[This] = t /\ since'[This] = generation[C]
      /\ \A i \in Calls \ {This} : by'[i] = by[i] /\ since'[i] = since[i]
      /\ \A i \in Calls : i <= calls' <=> i <= calls \/ i = This
      /\ \A i \in Calls : Cmd(i)' = Cmd(i)
      /\ key' = key /\ generation' = generation /\ t \in Calls
    BY GivenFacts DEF Given
<1>2. /\ This \in Calls /\ This # None /\ by[This] = None /\ generation[C] \in Nat
      /\ K = key[This] /\ C = Cmd(This) /\ C = CommandOf[K]
      /\ \A u \in Calls : by[u] = u => u # This
    BY NewCallFacts DEF Given
<1>3. t # None
    BY <1>1, BoundAssumption DEF Calls, None
<1>4. ASSUME NEW i \in Calls PROVE by'[i] # None <=> i <= calls'
    BY <1>1, <1>2, <1>3 DEF IInv, CallInv
<1>5. ASSUME NEW i \in Calls, by'[i] # None, i # This
      PROVE  /\ since'[i] <= generation[Cmd(i)]
             /\ by'[i] \in Calls /\ by'[by'[i]] = by'[i]
             /\ key[by'[i]] = key[i] /\ since'[by'[i]] = since'[i]
    <2>1. /\ since[i] <= generation[Cmd(i)] /\ IsTask(by[i])
          /\ key[by[i]] = key[i] /\ since[by[i]] = since[i]
        BY <1>1, <1>5 DEF IInv, CallInv
    <2>2. by[i] \in Calls /\ by[i] # This
        BY <1>2, <2>1 DEF IsTask
    <2> QED
        BY <1>1, <1>5, <2>1, <2>2 DEF IsTask
<1>6. /\ since'[This] <= generation[Cmd(This)]
      /\ by'[t] = t /\ key[t] = key[This] /\ since'[t] = since'[This]
    BY <1>1, <1>2 DEF Fresh, IsTask
<1> QED
    BY <1>1, <1>4, <1>5, <1>6 DEF CallInv, IsTask

\* Which tasks there are, seen after the call.
LEMMA GivenTasks ==
    ASSUME IInv, NEW n, n = This, NEW j, j = K, NEW t, Given(t), t = n \/ Fresh(t, j)
    PROVE  /\ \A u \in Calls \ {n} : by'[u] = u <=> by[u] = u
           /\ by'[n] = n <=> t = n
           /\ \A u, k : u # n => (Fresh(u, k)' <=> Fresh(u, k))
           /\ Fresh(n, j)' <=> t = n
           /\ t # n => \A k : ~Fresh(n, k)'
           /\ \A k : Fresh(n, k)' => k = j
           /\ \A k : ~Fresh(n, k)
<1>1. /\ by'[n] = t /\ since'[n] = generation[C]
      /\ \A i \in Calls \ {n} : by'[i] = by[i] /\ since'[i] = since[i]
      /\ key' = key /\ generation' = generation
    BY GivenFacts DEF Given
<1>2. n \in Calls /\ n # None /\ by[n] = None /\ j = key[n] /\ C = CommandOf[j]
    BY NewCallFacts DEF Given
<1>3. \A u \in Calls \ {n} : by'[u] = u <=> by[u] = u
    BY <1>1
<1>4. by'[n] = n <=> t = n
    BY <1>1
<1>5. \A u, k : u # n => (Fresh(u, k)' <=> Fresh(u, k))
    BY <1>1 DEF Fresh, IsTask
<1>6. \A k : ~Fresh(n, k)
    BY <1>2 DEF Fresh, IsTask
<1>7. Fresh(n, j)' <=> t = n
    BY <1>1, <1>2 DEF Fresh, IsTask
<1>8. t # n => \A k : ~Fresh(n, k)'
    BY <1>1 DEF Fresh, IsTask
<1>9. \A k : Fresh(n, k)' => k = j
    BY <1>1, <1>2 DEF Fresh, IsTask
<1> QED
    BY <1>3, <1>4, <1>5, <1>6, <1>7, <1>8, <1>9

\* A call answered from the cache or joined to a call in flight.
LEMMA SharedKeeps ==
    ASSUME IInv, NEW t, Given(t), Fresh(t, K), NewCall(t),
           UNCHANGED <<result, queue, inFlight, lingering, latest, drainScheduled, pruneTimer>>
    PROVE  IInv'
<1>1. PICK n : n = This
    OBVIOUS
<1>2. PICK j : j = K
    OBVIOUS
<1>3. /\ \A u \in Calls \ {n} : by'[u] = u <=> by[u] = u
      /\ by'[n] # n
      /\ \A u, k : Fresh(u, k)' <=> Fresh(u, k)
    <2>1. Fresh(t, j) /\ t # n
        BY <1>1, <1>2, GivenTasks
    <2> QED
        BY <1>1, <1>2, <2>1, GivenTasks
<1>4. /\ n \in Calls /\ by[n] # n /\ result[n] = "pending"
      /\ n \notin queue \cup active \cup lingering
    BY <1>1, NewCallFacts DEF Given
<1>5. /\ UNCHANGED <<key, began, active, quietTimer, backoff, backoffTimer, cache,
                     generation, clears>>
      /\ quiet' \in BOOLEAN
    BY DEF NewCall
<1>6. /\ calls' \in 0..MaxCalls /\ by' \in [Calls -> 0..MaxCalls] /\ since' \in [Calls -> Nat]
      /\ \A i \in Calls \ {n} : since'[i] = since[i]
      /\ \A i \in Calls : Cmd(i)' = Cmd(i)
    BY <1>1, GivenFacts
<1>7. TypeOK'
    BY <1>5, <1>6 DEF IInv, TypeOK
<1>8. CallInv'
    BY GivenCall
<1>9. TaskInv'
    BY <1>3, <1>4, <1>5, <1>6 DEF IInv, TypeOK, TaskInv
<1>10. FlightInv'
    <2>1. \A k \in Keys : (inFlight[k] # None => Fresh(inFlight[k], k))'
        BY <1>3 DEF IInv, FlightInv, Fresh, IsTask
    <2>2. \A k \in Keys : (cache[k] # None => Fresh(cache[k], k))'
        BY <1>3, <1>5 DEF IInv, FlightInv, Fresh, IsTask
    <2>3. \A u \in Calls :
            (Fresh(u, key[u]) /\ result[u] = "pending" /\ Keyed(Cmd(u)) => inFlight[key[u]] = u)'
        BY <1>3, <1>5, <1>6 DEF IInv, FlightInv, Fresh, IsTask, Keyed
    <2> QED
        BY <2>1, <2>2, <2>3 DEF FlightInv
<1>11. SingleFlight'
    BY <1>3, <1>4, <1>5, <1>6 DEF IInv, SingleFlight, Keyed
<1> QED
    BY <1>7, <1>8, <1>9, <1>10, <1>11 DEF IInv

LEMMA ReadCacheKeeps ==
    ASSUME IInv, ReadCache
    PROVE  IInv'
<1>1. K \in Keys
    BY NewCallFacts DEF ReadCache
<1>2. Fresh(cache[K], K) /\ NewCall(cache[K])
    BY <1>1 DEF ReadCache, IInv, FlightInv
<1>3. Given(cache[K])
    BY <1>2 DEF NewCall, Given, Fresh, IsTask
<1> QED
    BY <1>2, <1>3, SharedKeeps DEF ReadCache

LEMMA JoinKeeps ==
    ASSUME IInv, Join
    PROVE  IInv'
<1>1. K \in Keys
    BY NewCallFacts DEF Join
<1>2. Fresh(inFlight[K], K) /\ NewCall(inFlight[K])
    BY <1>1 DEF Join, Current, IInv, FlightInv
<1>3. Given(inFlight[K])
    BY <1>2 DEF NewCall, Given, Fresh, IsTask
<1> QED
    BY <1>2, <1>3, SharedKeeps DEF Join

LEMMA EnqueueKeeps ==
    ASSUME IInv, Enqueue
    PROVE  IInv'
<1>1. PICK n : n = This
    OBVIOUS
<1>2. PICK j : j = K
    OBVIOUS
<1>3. /\ n \in Calls /\ n # None /\ by[n] # n /\ result[n] = "pending" /\ key[n] = j
      /\ j \in Keys /\ C \in Commands /\ C = CommandOf[j]
      /\ n \notin queue \cup active \cup lingering
    BY <1>1, <1>2, NewCallFacts DEF Enqueue
<1>4. Given(n)
    BY <1>1, <1>3 DEF Enqueue, NewCall, Given
<1>5. /\ \A u \in Calls \ {n} : by'[u] = u <=> by[u] = u
      /\ by'[n] = n
      /\ \A u, k : u # n => (Fresh(u, k)' <=> Fresh(u, k))
      /\ Fresh(n, j)' /\ \A k : ~Fresh(n, k)
    BY <1>1, <1>2, <1>4, GivenTasks
<1>6. /\ calls' \in 0..MaxCalls /\ by' \in [Calls -> 0..MaxCalls] /\ since' \in [Calls -> Nat]
      /\ since'[n] = generation[C]
      /\ \A i \in Calls \ {n} : since'[i] = since[i]
      /\ \A i \in Calls : Cmd(i)' = Cmd(i)
    BY <1>1, <1>4, GivenFacts
<1>7. /\ UNCHANGED <<key, began, active, quietTimer, backoff, backoffTimer, cache,
                     generation, clears>>
      /\ quiet' \in BOOLEAN /\ drainScheduled' = TRUE /\ pruneTimer' = TRUE
      /\ latest' = [latest EXCEPT ![C] = n]
      /\ inFlight' = [inFlight EXCEPT ![j] = IF Keyed(C) THEN n ELSE None]
      /\ ~Current(j)
    BY <1>1, <1>2 DEF Enqueue, NewCall
<1>8. PICK gone : /\ gone \subseteq queue \cup {n}
                  /\ queue' = (queue \cup {n}) \ gone /\ Settles(gone, "cancelled")
    <2> DEFINE Q == (queue \ Replaced(C)) \cup {n}
               g == Replaced(C) \cup OverBudget(C, Q)
    <2>1. queue' = Q \ g /\ Settles(g, "cancelled")
        BY <1>1 DEF Enqueue
    <2>2. Replaced(C) \subseteq queue /\ OverBudget(C, Q) \subseteq Q
        BY DEF Replaced, OverBudget
    <2>3. Q \ g = (queue \cup {n}) \ g /\ g \subseteq queue \cup {n}
        BY <2>2
    <2> QED
        BY <2>1, <2>3
<1>9. gone \subseteq Calls /\ queue \subseteq Calls /\ active \subseteq Calls
    BY <1>3, <1>8 DEF IInv, TypeOK
<1>10. /\ result' \in [Calls -> {"pending", "value", "cancelled", "failed"}]
       /\ lingering' \subseteq lingering \cup gone /\ lingering' \subseteq Calls
       /\ \A t \in gone : result'[t] = "cancelled"
       /\ \A t \in Calls \ gone : result'[t] = result[t]
    BY <1>8, <1>9, SettlesType DEF IInv
<1>11. inFlight' \in [Keys -> 0..MaxCalls] /\ latest' \in [Commands -> 0..MaxCalls]
    <2>1. n \in 0..MaxCalls /\ None \in 0..MaxCalls
        BY <1>3, BoundAssumption DEF Calls, None
    <2> QED
        BY <1>3, <1>7, <2>1 DEF IInv, TypeOK
<1>12. TypeOK'
    BY <1>3, <1>6, <1>7, <1>8, <1>9, <1>10, <1>11 DEF IInv, TypeOK
<1>13. CallInv'
    BY <1>1, <1>4, GivenCall
<1>14. TaskInv'
    <2>1. queue' \cap active' = {}
        BY <1>3, <1>7, <1>8 DEF IInv, TaskInv
    <2>2. \A t \in queue' \cup active' : by'[t] = t /\ result'[t] = "pending"
        BY <1>3, <1>5, <1>7, <1>8, <1>9, <1>10 DEF IInv, TaskInv
    <2>3. \A t \in Calls : result'[t] # "pending" => by'[t] = t
        BY <1>3, <1>5, <1>8, <1>9, <1>10 DEF IInv, TaskInv
    <2>4. \A t \in lingering' : result'[t] # "pending"
        BY <1>9, <1>10 DEF IInv, TaskInv, TypeOK
    <2>5. \A t \in Calls : t \in active' \/ result'[t] = "value" => began'[t] >= since'[t]
        BY <1>3, <1>6, <1>7, <1>9, <1>10 DEF IInv, TaskInv
    <2> QED
        BY <2>1, <2>2, <2>3, <2>4, <2>5 DEF TaskInv
<1>15. ASSUME NEW u \in Calls, u # n, result[u] = "pending", Keyed(Cmd(u)), key[u] = j
       PROVE  ~Fresh(u, j)
    <2> SUFFICES ASSUME Fresh(u, j) PROVE FALSE
        OBVIOUS
    <2>1. inFlight[j] = u
        BY <1>15 DEF IInv, FlightInv
    <2>2. since[u] = generation[CommandOf[j]] /\ u # None
        BY BoundAssumption DEF Fresh, Calls, None
    <2> QED
        BY <2>1, <2>2, <1>7 DEF Current
<1>16. inFlight'[j] = (IF Keyed(C) THEN n ELSE None)
       /\ \A k \in Keys \ {j} : inFlight'[k] = inFlight[k]
    BY <1>3, <1>7 DEF IInv, TypeOK
<1>17. \A t \in Calls : result'[t] = "pending" => result[t] = "pending"
    BY <1>10
<1>18. FlightInv'
    <2>1. ASSUME NEW k \in Keys PROVE (inFlight[k] # None => Fresh(inFlight[k], k))'
        <3>1. CASE k = j
            BY <3>1, <1>5, <1>16 DEF Fresh, IsTask
        <3>2. CASE k # j
            <4>1. inFlight[k] # None => Fresh(inFlight[k], k)
                BY DEF IInv, FlightInv
            <4>2. inFlight'[k] = inFlight[k]
                BY <3>2, <1>16
            <4> QED
                BY <4>1, <4>2, <1>5 DEF Fresh, IsTask
        <3> QED
            BY <3>1, <3>2
    <2>2. ASSUME NEW k \in Keys PROVE (cache[k] # None => Fresh(cache[k], k))'
        <3>1. cache[k] # None => Fresh(cache[k], k)
            BY DEF IInv, FlightInv
        <3>2. cache'[k] = cache[k]
            BY <1>7
        <3>3. cache[k] # None => cache[k] # n
            BY <1>5, <3>1
        <3> QED
            BY <3>1, <3>2, <3>3, <1>5 DEF Fresh, IsTask
    <2>3. ASSUME NEW u \in Calls, Fresh(u, key[u])', result'[u] = "pending", Keyed(Cmd(u))
          PROVE  inFlight'[key[u]] = u
        <3>1. CASE u = n
            BY <3>1, <2>3, <1>3, <1>16 DEF Cmd
        <3>2. CASE u # n
            <4>1. Fresh(u, key[u]) /\ result[u] = "pending" /\ key[u] \in Keys
                <5>1. by'[u] = u /\ since'[u] = generation[CommandOf[key[u]]]
                    BY <2>3, <1>7 DEF Fresh, IsTask
                <5>2. by[u] = u /\ since[u] = since'[u]
                    BY <5>1, <3>2, <1>5, <1>6
                <5> QED
                    BY <5>1, <5>2, <2>3, <1>17 DEF Fresh, IsTask, IInv, TypeOK
            <4>2. inFlight[key[u]] = u
                BY <4>1, <2>3 DEF IInv, FlightInv
            <4>3. key[u] # j
                BY <4>1, <3>2, <2>3, <1>15
            <4> QED
                BY <4>1, <4>2, <4>3, <1>16
        <3> QED
            BY <3>1, <3>2
    <2>4. \A u \in Calls :
            (Fresh(u, key[u]) /\ result[u] = "pending" /\ Keyed(Cmd(u)) => inFlight[key[u]] = u)'
        BY <2>3, <1>6, <1>7 DEF Keyed, Fresh, IsTask
    <2> QED
        BY <2>1, <2>2, <2>4 DEF FlightInv
<1>19. SingleFlight'
    <2> SUFFICES ASSUME NEW t \in Calls, NEW u \in Calls, t # u, by'[t] = t, by'[u] = u,
                        result'[t] = "pending", result'[u] = "pending", key[t] = key[u],
                        Keyed(Cmd(t))
                 PROVE  since'[t] # since'[u]
        BY <1>6, <1>7 DEF SingleFlight, Keyed
    <2>1. ASSUME NEW v \in Calls, v # n, by'[v] = v, result'[v] = "pending", key[v] = j,
                 Keyed(Cmd(v))
          PROVE  since'[v] # generation[C]
        <3>1. ~Fresh(v, j) /\ by[v] = v
            BY <2>1, <1>5, <1>15, <1>17
        <3> QED
            BY <3>1, <2>1, <1>3, <1>6 DEF Fresh, IsTask
    <2>2. Cmd(t) = Cmd(u)
        BY DEF Cmd
    <2>3. CASE t = n
        BY <2>1, <2>2, <2>3, <1>3, <1>6
    <2>4. CASE u = n
        BY <2>1, <2>4, <1>3, <1>6
    <2>5. CASE t # n /\ u # n
        BY <2>5, <1>5, <1>6, <1>17 DEF IInv, SingleFlight
    <2> QED
        BY <2>3, <2>4, <2>5
<1> QED
    BY <1>12, <1>13, <1>14, <1>18, <1>19 DEF IInv

-----------------------------------------------------------------------------
(* The theorems.                                                           *)

LEMMA NextKeeps == IInv /\ [Next]_vars => IInv'
<1> SUFFICES ASSUME IInv, [Next]_vars PROVE IInv'
    OBVIOUS
<1>1. CASE ReadCache \/ Join \/ Enqueue
    BY <1>1, ReadCacheKeeps, JoinKeeps, EnqueueKeeps
<1>2. CASE Drain \/ PruneFires \/ ClearFontQueryCaches
    BY <1>2, DrainKeeps, PruneKeeps, ClearKeeps
<1>3. ASSUME NEW t \in Calls, Finish(t) \/ CleanUp(t) PROVE IInv'
    BY <1>3, FinishKeeps, CleanUpKeeps
<1>4. ASSUME NEW k \in Keys, CacheExpires(k) PROVE IInv'
    BY <1>4, CacheExpiresKeeps
<1>5. CASE QuietTimerFires \/ BackoffTimerFires \/ QuietEnds \/ BackoffEnds \/ Done
           \/ UNCHANGED vars
    BY <1>5, TimerKeeps
<1> QED
    BY <1>1, <1>2, <1>3, <1>4, <1>5 DEF Next

LEMMA Invariance == Spec => []IInv
BY InitIInv, NextKeeps, PTL DEF Spec

\* Every variable keeps to its type.
THEOREM TypeCorrect == Spec => []TypeOK
<1>1. IInv => TypeOK
    BY DEF IInv
<1> QED
    BY <1>1, Invariance, PTL

\* A call made after an invalidation is never answered by a worker started before it,
\* with any number of calls, of invalidations and of keys.
THEOREM AnswersFresh == Spec => []FreshAfterInvalidation
<1>1. IInv => FreshAfterInvalidation
    <2> SUFFICES ASSUME IInv, NEW i \in Calls, by[i] # None, result[by[i]] = "value"
                 PROVE  began[by[i]] >= since[i]
        BY DEF FreshAfterInvalidation
    <2>1. by[i] \in Calls /\ since[by[i]] = since[i]
        BY DEF IInv, CallInv, IsTask
    <2>2. began[by[i]] >= since[by[i]]
        BY <2>1 DEF IInv, TaskInv
    <2> QED
        BY <2>1, <2>2
<1> QED
    BY <1>1, Invariance, PTL

\* Two tasks of a key are pending together only if an invalidation came between.
THEOREM OneInFlight == Spec => []SingleFlight
<1>1. IInv => SingleFlight
    BY DEF IInv
<1> QED
    BY <1>1, Invariance, PTL


-----------------------------------------------------------------------------
(* Functions on the naturals that are defined step by step, as the passes  *)
(* of a drain are.                                                         *)

\* Induction, from the minimal elements of a set of intervals.
LEMMA Inductive ==
    ASSUME NEW T, T \subseteq Nat, 0 \in T, \A n \in T : n + 1 \in T
    PROVE  T = Nat
<1> DEFINE Rest == Nat \ T
           Below == {0..n : n \in Rest}
           R == StrictSubsetOrdering(Nat)
           F == FiniteSubsetsOf(Nat)
<1> SUFFICES ASSUME Rest # {} PROVE FALSE
    OBVIOUS
<1>1. IsWellFoundedOn(R, F)
    BY FS_StrictSubsetOrderingWellFounded
<1>2. Below \subseteq F /\ Below # {}
    <2>1. ASSUME NEW n \in Nat PROVE 0..n \in F
        <3>1. IsFiniteSet(0..n)
            BY FS_Interval
        <3> QED
            BY <3>1 DEF FiniteSubsetsOf
    <2> QED
        BY <2>1
<1>3. PICK x \in Below : \A y \in Below : ~(<<y, x>> \in R)
    <2> HIDE DEF R, F, Below
    <2> QED
        BY <1>1, <1>2, WFMin
<1>4. PICK n \in Rest : x = 0..n
    OBVIOUS
<1>5. n # 0 /\ n - 1 \in Nat /\ n \notin 0..(n - 1) /\ 0..(n - 1) \subseteq 0..n /\ n \in 0..n
    OBVIOUS
<1>7. n - 1 \notin Rest
    <2> SUFFICES ASSUME n - 1 \in Rest PROVE FALSE
        OBVIOUS
    <2> DEFINE y == 0..(n - 1)
    <2>1. y \in Below
        OBVIOUS
    <2>2. y \in SUBSET Nat /\ x \in SUBSET Nat /\ y \subseteq x /\ y # x
        BY <1>4, <1>5
    <2> HIDE DEF y
    <2>3. <<y, x>> \in R
        BY <2>2 DEF StrictSubsetOrdering
    <2> QED
        BY <1>3, <2>1, <2>3
<1>8. n - 1 \in T /\ n = (n - 1) + 1
    BY <1>5, <1>7
<1> QED
    BY <1>8

\* What n steps of G make of a.
Runs(S, a, G, n) == {g \in [0..n -> S] : g[0] = a /\ \A i \in 0..(n - 1) : g[i + 1] = G[g[i]]}

LEMMA Iterates ==
    ASSUME NEW S, NEW a \in S, NEW G \in [S -> S]
    PROVE  \E f \in [Nat -> S] : f[0] = a /\ \A n \in Nat : f[n + 1] = G[f[n]]
<1> DEFINE H(n) == Runs(S, a, G, n)
<1>1. ASSUME NEW m \in Nat, NEW n \in Nat, NEW g \in H(m), NEW h \in H(n)
      PROVE  \A i \in Nat : i <= m /\ i <= n => g[i] = h[i]
    <2> DEFINE T == {i \in Nat : i <= m /\ i <= n => g[i] = h[i]}
    <2>1. 0 \in T
        BY DEF Runs
    <2>2. ASSUME NEW i \in T PROVE i + 1 \in T
        BY DEF Runs
    <2>3. T \subseteq Nat
        OBVIOUS
    <2> HIDE DEF T
    <2>4. T = Nat
        BY <2>1, <2>2, <2>3, Inductive
    <2> QED
        BY <2>4 DEF T
<1>2. \A n \in Nat : H(n) # {}
    <2> DEFINE T == {n \in Nat : H(n) # {}}
    <2>1. 0 \in T
        <3>1. [i \in 0..0 |-> a] \in H(0)
            BY DEF Runs
        <3> QED
            BY <3>1
    <2>2. ASSUME NEW n \in T PROVE n + 1 \in T
        <3>1. PICK g : g \in H(n)
            OBVIOUS
        <3> DEFINE h == [i \in 0..(n + 1) |-> IF i = n + 1 THEN G[g[n]] ELSE g[i]]
        <3>2. g \in [0..n -> S] /\ g[0] = a /\ \A i \in 0..(n - 1) : g[i + 1] = G[g[i]]
            BY <3>1 DEF Runs
        <3>3. h \in [0..(n + 1) -> S] /\ h[0] = a
            BY <3>2
        <3>4. \A i \in 0..n : h[i + 1] = G[h[i]]
            BY <3>2
        <3>5. (n + 1) - 1 = n
            OBVIOUS
        <3>6. h \in H(n + 1)
            BY <3>3, <3>4, <3>5 DEF Runs
        <3> QED
            BY <3>6
    <2>3. T \subseteq Nat
        OBVIOUS
    <2> HIDE DEF T
    <2>4. T = Nat
        BY <2>1, <2>2, <2>3, Inductive
    <2> QED
        BY <2>4 DEF T
<1> DEFINE g(n) == CHOOSE h : h \in H(n)
           f == [n \in Nat |-> g(n)[n]]
<1>3. \A n \in Nat : g(n) \in H(n)
    BY <1>2
<1> HIDE DEF g
<1>4. ASSUME NEW n \in Nat PROVE f[n] \in S
    <2>1. g(n) \in [0..n -> S]
        BY <1>3 DEF Runs
    <2> QED
        BY <2>1
<1>5. f[0] = a
    BY <1>3 DEF Runs
<1>6. ASSUME NEW n \in Nat PROVE f[n + 1] = G[f[n]]
    <2>1. g(n + 1)[n + 1] = G[g(n + 1)[n]]
        BY <1>3 DEF Runs
    <2>2. g(n + 1)[n] = g(n)[n]
        <3>1. g(n + 1) \in H(n + 1) /\ g(n) \in H(n)
            BY <1>3
        <3> HIDE DEF H
        <3> QED
            BY <1>1, <3>1
    <2> QED
        BY <2>1, <2>2
<1>7. f \in [Nat -> S]
    BY <1>4
<1> QED
    BY <1>5, <1>6, <1>7

-----------------------------------------------------------------------------
(* The first task of a set, and the next lane.                             *)

\* t is no later than u in a queue.
Before(t, u) ==
    \/ Prof(t).priority > Prof(u).priority
    \/ Prof(t).priority = Prof(u).priority /\ t <= u

LEMMA ProfType ==
    ASSUME TypeOK
    PROVE  \A t \in Calls : /\ t \in Nat
                            /\ Prof(t).lane \in Lanes /\ Prof(t).priority \in Nat
                            /\ Prof(t).maxConcurrency \in Nat /\ Prof(t).maxConcurrency > 0
                            /\ Prof(t).interactive \in BOOLEAN
<1> SUFFICES ASSUME NEW t \in Calls
             PROVE  /\ t \in Nat
                    /\ Prof(t).lane \in Lanes /\ Prof(t).priority \in Nat
                    /\ Prof(t).maxConcurrency \in Nat /\ Prof(t).maxConcurrency > 0
                    /\ Prof(t).interactive \in BOOLEAN
    OBVIOUS
<1>1. t \in Nat
    BY BoundAssumption DEF Calls
<1>2. Cmd(t) \in Commands
    BY CmdType
<1> QED
    BY <1>1, <1>2, ProfileAssumption DEF Prof

LEMMA CallsFinite == \A S \in SUBSET Calls : IsFiniteSet(S) /\ Cardinality(S) \in Nat
<1>1. IsFiniteSet(Calls)
    BY BoundAssumption, FS_Interval DEF Calls
<1> QED
    BY <1>1, FS_Subset, FS_CardinalityType

LEMMA TopFacts ==
    ASSUME TypeOK, NEW S \in SUBSET Calls, S # {}
    PROVE  Top(S) \in S /\ \A u \in S : Before(Top(S), u)
<1> DEFINE HasTop(Q) == \E t \in Q : \A u \in Q : Before(t, u)
           T == {n \in Nat : \A Q \in SUBSET Calls : Q # {} /\ (\A t \in Q : t <= n) => HasTop(Q)}
<1>1. \A t \in Calls : t \in Nat /\ t > 0 /\ Prof(t).priority \in Nat
    BY ProfType, BoundAssumption DEF Calls
<1>2. 0 \in T
    BY <1>1
<1>3. ASSUME NEW n \in T PROVE n + 1 \in T
    <2> SUFFICES ASSUME NEW Q \in SUBSET Calls, Q # {}, \A t \in Q : t <= n + 1
                 PROVE  HasTop(Q)
        OBVIOUS
    <2>1. CASE n + 1 \notin Q
        <3>1. \A t \in Q : t <= n
            BY <1>1, <2>1
        <3> QED
            BY <3>1
    <2>2. CASE Q = {n + 1}
        BY <1>1, <2>2 DEF Before
    <2>3. CASE n + 1 \in Q /\ Q # {n + 1}
        <3> DEFINE P == Q \ {n + 1}
        <3>1. P \in SUBSET Calls /\ P # {} /\ \A t \in P : t <= n
            BY <1>1, <2>3
        <3>2. PICK t \in P : \A u \in P : Before(t, u)
            BY <3>1
        <3>3. CASE Before(t, n + 1)
            BY <3>2, <3>3
        <3>4. CASE ~Before(t, n + 1)
            <4>1. \A u \in Q : Before(n + 1, u)
                BY <1>1, <2>3, <3>2, <3>4 DEF Before
            <4> QED
                BY <2>3, <4>1
        <3> QED
            BY <3>3, <3>4
    <2> QED
        BY <2>1, <2>2, <2>3
<1>4. T \subseteq Nat
    OBVIOUS
<1>5. MaxCalls \in T
    <2> HIDE DEF T
    <2>1. T = Nat
        BY <1>2, <1>3, <1>4, Inductive
    <2> QED
        BY <2>1, BoundAssumption
<1>6. HasTop(S)
    BY <1>5, BoundAssumption DEF Calls
<1> QED
    BY <1>6 DEF Top, Before

\* The lanes still to try all have a waiting task.
LEMMA NextLaneFacts ==
    ASSUME TypeOK, NEW d, d.waiting \in SUBSET Calls, d.lanes # {},
           d.lanes \subseteq LanesOf(d.waiting)
    PROVE  NextLane(d) \in d.lanes
<1> DEFINE Ahead(l) == Top(LaneOf(d.waiting, l))
           S == {t \in d.waiting : Prof(t).lane \in d.lanes}
<1>1. ASSUME NEW l \in d.lanes
      PROVE  /\ Ahead(l) \in d.waiting /\ Prof(Ahead(l)).lane = l
             /\ \A u \in LaneOf(d.waiting, l) : Before(Ahead(l), u)
    <2>1. LaneOf(d.waiting, l) \in SUBSET Calls /\ LaneOf(d.waiting, l) # {}
        BY <1>1 DEF LanesOf, LaneOf
    <2> QED
        BY <2>1, TopFacts DEF LaneOf
<1>2. S \in SUBSET Calls /\ S # {}
    BY DEF LanesOf
<1>3. Top(S) \in S /\ \A u \in S : Before(Top(S), u)
    BY <1>2, TopFacts
<1>4. PICK l \in d.lanes : l = Prof(Top(S)).lane
    BY <1>3
<1>5. \A m \in d.lanes : Prof(Ahead(l)).priority >= Prof(Ahead(m)).priority
    <2> TAKE m \in d.lanes
    <2>1. Before(Ahead(l), Top(S))
        BY <1>1, <1>3, <1>4 DEF LaneOf
    <2>2. Before(Top(S), Ahead(m))
        BY <1>1, <1>3
    <2>3. Ahead(l) \in Calls /\ Ahead(m) \in Calls /\ Top(S) \in Calls
        BY <1>1, <1>3
    <2> HIDE DEF Ahead, S
    <2>4. Prof(Ahead(l)).priority \in Nat /\ Prof(Ahead(m)).priority \in Nat
          /\ Prof(Top(S)).priority \in Nat
        BY <2>3, ProfType
    <2> QED
        BY <2>1, <2>2, <2>4 DEF Before
<1> QED
    BY <1>5 DEF NextLane


-----------------------------------------------------------------------------
(* One try of a lane.                                                      *)

\* The running tasks fit: among any of them in one lane there is one, the last that was
\* started, whose command allows that many.  A task that ends takes nothing away from
\* the others, which "some task of the lane allows them all" would not survive.
Fit(R) ==
    /\ Cardinality(R) <= GlobalMax
    /\ \A S \in SUBSET R : \A l \in Lanes :
        S # {} /\ (\A t \in S : Prof(t).lane = l)
        => \E u \in S : Cardinality(S) <= Prof(u).maxConcurrency

LEMMA FitSubset == ASSUME NEW R \in SUBSET Calls, NEW S \in SUBSET R, Fit(R) PROVE Fit(S)
<1>1. Cardinality(S) <= Cardinality(R) /\ Cardinality(S) \in Nat /\ Cardinality(R) \in Nat
    BY CallsFinite, FS_Subset
<1>2. Cardinality(S) <= GlobalMax
    BY <1>1, BoundAssumption DEF Fit
<1>3. \A Q \in SUBSET S : Q \in SUBSET R
    OBVIOUS
<1> QED
    BY <1>2, <1>3 DEF Fit

LEMMA FitOneMore ==
    ASSUME TypeOK, NEW R \in SUBSET Calls, Fit(R), NEW t \in Calls, t \notin R,
           Cardinality(R) < GlobalMax,
           Cardinality(LaneOf(R, Prof(t).lane)) < Prof(t).maxConcurrency
    PROVE  Fit(R \cup {t}) /\ Cardinality(R \cup {t}) = Cardinality(R) + 1
<1>1. IsFiniteSet(R) /\ Cardinality(R) \in Nat
    BY CallsFinite
<1>2. Cardinality(R \cup {t}) = Cardinality(R) + 1
    BY <1>1, FS_AddElement
<1>3. Cardinality(R \cup {t}) <= GlobalMax
    BY <1>1, <1>2, BoundAssumption
<1>4. ASSUME NEW S \in SUBSET (R \cup {t}), NEW l \in Lanes, S # {},
             \A u \in S : Prof(u).lane = l
      PROVE  \E u \in S : Cardinality(S) <= Prof(u).maxConcurrency
    <2>1. CASE t \notin S
        <3>1. S \in SUBSET R
            BY <2>1
        <3> QED
            BY <3>1, <1>4 DEF Fit
    <2>2. CASE t \in S
        <3> DEFINE P == S \ {t}
                   L == LaneOf(R, Prof(t).lane)
        <3>1. P \in SUBSET L /\ L \in SUBSET Calls /\ P \in SUBSET Calls /\ S = P \cup {t}
            BY <1>4, <2>2 DEF LaneOf
        <3>2. /\ IsFiniteSet(P) /\ Cardinality(P) \in Nat
              /\ IsFiniteSet(L) /\ Cardinality(L) \in Nat
            BY <3>1, CallsFinite
        <3>3. Cardinality(P) <= Cardinality(L)
            BY <3>1, <3>2, FS_Subset
        <3>4. Cardinality(S) = Cardinality(P) + 1
            <4>1. t \notin P
                OBVIOUS
            <4> HIDE DEF P
            <4> QED
                BY <3>1, <3>2, <4>1, FS_AddElement
        <3>5. Prof(t).maxConcurrency \in Nat
            BY ProfType
        <3>6. Cardinality(S) <= Prof(t).maxConcurrency
            BY <3>2, <3>3, <3>4, <3>5
        <3> QED
            BY <2>2, <3>6
    <2> QED
        BY <2>1, <2>2
<1> QED
    BY <1>2, <1>3, <1>4 DEF Fit

DrainState ==
    [waiting : SUBSET Calls, running : SUBSET Calls, quiet : BOOLEAN, quietTimer : BOOLEAN,
     backoffTimer : BOOLEAN, lanes : SUBSET Lanes, interactiveQueued : BOOLEAN,
     interactiveActive : BOOLEAN, over : BOOLEAN]

\* Why the first task of a lane is not started.
Held(d, l) ==
    LET p == Prof(Top(LaneOf(d.waiting, l)))
    IN  \/ Cardinality(d.running) >= GlobalMax
        \/ Blocked(p, d.interactiveQueued, d.interactiveActive)
        \/ ~p.interactive /\ (d.quietTimer \/ d.backoffTimer)
        \/ NoSlot(d, p)

\* e differs from d only in what a try may change.
Alike(d, e) ==
    /\ e.interactiveQueued = d.interactiveQueued
    /\ e.interactiveActive = d.interactiveActive /\ e.over = d.over

Passed(d, e) ==
    /\ e.waiting = d.waiting /\ e.running = d.running
    /\ d.quietTimer => e.quietTimer
    /\ d.backoffTimer => e.backoffTimer

\* Task t of lane l is started.
Starts(d, e, l, t) ==
    /\ t \in d.waiting /\ Prof(t).lane = l
    /\ e.waiting = d.waiting \ {t} /\ e.running = d.running \cup {t}
    /\ Cardinality(d.running) < GlobalMax /\ ~NoSlot(d, Prof(t))

LEMMA HeldStays ==
    ASSUME NEW d, NEW e, NEW l, Alike(d, e), Passed(d, e), Held(d, l)
    PROVE  Held(e, l)
BY DEF Alike, Passed, Held, NoSlot

LEMMA TryLaneFacts ==
    ASSUME TypeOK, NEW d \in DrainState, NEW l \in LanesOf(d.waiting)
    PROVE  LET e == TryLane(d, l) IN
           /\ e \in DrainState /\ Alike(d, e) /\ e.lanes = d.lanes
           /\ \/ Passed(d, e) /\ Held(e, l)
              \/ \E t \in Calls : Starts(d, e, l, t)
<1>1. PICK t : t = Top(LaneOf(d.waiting, l))
    OBVIOUS
<1>2. PICK p : p = Prof(t)
    OBVIOUS
<1>3. t \in d.waiting /\ p.lane = l /\ t \in Calls /\ d.waiting \in SUBSET Calls
    <2>1. d.waiting \in SUBSET Calls
        BY DEF DrainState
    <2>2. LaneOf(d.waiting, l) \in SUBSET Calls /\ LaneOf(d.waiting, l) # {}
        BY <2>1 DEF LanesOf, LaneOf
    <2>3. t \in LaneOf(d.waiting, l)
        BY <1>1, <2>2, TopFacts
    <2> QED
        BY <1>2, <2>1, <2>3 DEF LaneOf
<1>4. p.interactive \in BOOLEAN
    BY <1>2, <1>3, ProfType
<1> DEFINE e == TryLane(d, l)
           full == Cardinality(d.running) >= GlobalMax
           blocked == Blocked(p, d.interactiveQueued, d.interactiveActive)
           slowed == ~p.interactive /\ backoff /\ (p.adaptiveThrottle \/ p.backgroundThrottle)
           hushed == ~p.interactive /\ d.quiet /\ p.backgroundThrottle
           kept == Passed(d, e) /\ Held(e, l)
           begun == Starts(d, e, l, t)
           same == e \in DrainState /\ Alike(d, e) /\ e.lanes = d.lanes
<1>5. CASE full \/ blocked
    <2>1. e = d
        BY <1>1, <1>2, <1>5 DEF TryLane, Slowed, Hushed
    <2>2. same
        BY <2>1 DEF Alike
    <2>3. kept
        BY <1>1, <1>2, <1>5, <2>1 DEF Passed, Held
    <2> QED
        BY <2>2, <2>3
<1>6. CASE ~(full \/ blocked) /\ slowed
    <2>1. e = [d EXCEPT !.backoffTimer = TRUE]
        BY <1>1, <1>2, <1>6 DEF TryLane, Slowed, Hushed
    <2>2. same
        BY <2>1 DEF DrainState, Alike
    <2>3. Passed(d, e) /\ e.backoffTimer
        BY <2>1 DEF DrainState, Passed
    <2>4. Held(e, l)
        BY <1>1, <1>2, <1>6, <2>3 DEF Passed, Held
    <2> QED
        BY <2>2, <2>3, <2>4
<1>7. CASE ~(full \/ blocked) /\ ~slowed /\ hushed
    <2>1. e = [d EXCEPT !.quietTimer = TRUE]
        BY <1>1, <1>2, <1>7 DEF TryLane, Slowed, Hushed
    <2>2. same
        BY <2>1 DEF DrainState, Alike
    <2>3. Passed(d, e) /\ e.quietTimer
        BY <2>1 DEF DrainState, Passed
    <2>4. Held(e, l)
        BY <1>1, <1>2, <1>7, <2>3 DEF Passed, Held
    <2> QED
        BY <2>2, <2>3, <2>4
<1>8. CASE ~(full \/ blocked) /\ ~slowed /\ ~hushed /\ NoSlot(d, p)
    <2>1. e = d
        BY <1>1, <1>2, <1>8 DEF TryLane, Slowed, Hushed
    <2>2. same
        BY <2>1 DEF Alike
    <2>3. kept
        BY <1>1, <1>2, <1>8, <2>1 DEF Passed, Held
    <2> QED
        BY <2>2, <2>3
<1>9. CASE ~(full \/ blocked) /\ ~slowed /\ ~hushed /\ ~NoSlot(d, p)
    <2> DEFINE q == d.quiet \/ p.interactive
    <2>0. q \in BOOLEAN
        OBVIOUS
    <2>1. e = [d EXCEPT !.waiting = @ \ {t}, !.running = @ \cup {t}, !.quiet = q]
        BY <1>1, <1>2, <1>9 DEF TryLane, Slowed, Hushed
    <2> HIDE DEF q, e
    <2>2. e.waiting = d.waiting \ {t} /\ e.running = d.running \cup {t}
        BY <2>1 DEF DrainState
    <2>3. same
        BY <1>3, <2>0, <2>1 DEF DrainState, Alike
    <2>4. Cardinality(d.running) < GlobalMax
        <3>1. Cardinality(d.running) \in Nat
            BY CallsFinite DEF DrainState
        <3> QED
            BY <1>9, <3>1, BoundAssumption
    <2>5. begun
        BY <1>2, <1>3, <1>9, <2>2, <2>4 DEF Starts
    <2> QED
        BY <1>3, <2>3, <2>5 DEF e
<1> QED
    BY <1>5, <1>6, <1>7, <1>8, <1>9


-----------------------------------------------------------------------------
(* A pass.                                                                 *)

Sane(d) ==
    /\ d.waiting \cap d.running = {}
    /\ Fit(d.running)
    /\ d.lanes \subseteq LanesOf(d.waiting)

\* What the tries of a pass begun in b have come to in d: a pass that has started nothing
\* has found every lane it tried held up.
Under(b, d) ==
    /\ Alike(b, d)
    /\ d.waiting \cup d.running = b.waiting \cup b.running
    /\ b.running \subseteq d.running
    /\ d.running = b.running =>
        /\ d.waiting = b.waiting
        /\ \A l \in LanesOf(d.waiting) \ d.lanes : Held(d, l)

LEMMA TryNextFacts ==
    ASSUME TypeOK, NEW d \in DrainState, Sane(d), d.lanes # {},
           NEW b \in DrainState, Under(b, d)
    PROVE  /\ TryNext(d) \in DrainState /\ Sane(TryNext(d)) /\ Under(b, TryNext(d))
           /\ \E l \in d.lanes : TryNext(d).lanes = d.lanes \ {l}
<1>1. PICK l : l = NextLane(d)
    OBVIOUS
<1>2. PICK f : f = TryLane(d, l)
    OBVIOUS
<1>3. PICK e : e = TryNext(d)
    OBVIOUS
<1>4. l \in d.lanes /\ l \in LanesOf(d.waiting) /\ l \in Lanes
    BY <1>1, NextLaneFacts DEF DrainState, Sane
<1>5. /\ f \in DrainState /\ Alike(d, f) /\ f.lanes = d.lanes
      /\ \/ Passed(d, f) /\ Held(f, l)
         \/ \E t \in Calls : Starts(d, f, l, t)
    BY <1>2, <1>4, TryLaneFacts
<1>6. e = [f EXCEPT !.lanes = @ \ {l}]
    BY <1>1, <1>2, <1>3 DEF TryNext
<1>7. /\ e \in DrainState /\ e.lanes = d.lanes \ {l}
      /\ e.waiting = f.waiting /\ e.running = f.running
      /\ Alike(f, e) /\ Passed(f, e)
    BY <1>5, <1>6 DEF DrainState, Alike, Passed
<1>8. Alike(b, e)
    BY <1>5, <1>7 DEF Alike, Under
<1>9. CASE Passed(d, f) /\ Held(f, l)
    <2>1. e.waiting = d.waiting /\ e.running = d.running /\ Passed(d, e) /\ Alike(d, e)
        BY <1>5, <1>7, <1>9 DEF Passed, Alike
    <2>2. Sane(e)
        BY <1>7, <2>1 DEF Sane
    <2>3. Held(e, l)
        BY <1>7, <1>9, HeldStays
    <2>4. ASSUME NEW m \in LanesOf(e.waiting) \ e.lanes, e.running = b.running
          PROVE  Held(e, m)
        <3>1. m # l => m \in LanesOf(d.waiting) \ d.lanes
            BY <1>7, <2>1
        <3>2. m # l => Held(d, m)
            BY <2>1, <2>4, <3>1 DEF Under
        <3> QED
            BY <2>1, <2>3, <3>2, HeldStays
    <2>5. Under(b, e)
        BY <1>8, <2>1, <2>4 DEF Under
    <2> QED
        BY <1>3, <1>4, <1>7, <2>2, <2>5
<1>10. CASE \E t \in Calls : Starts(d, f, l, t)
    <2>1. PICK t \in Calls : Starts(d, f, l, t)
        BY <1>10
    <2>2. /\ t \in d.waiting /\ t \notin d.running /\ Prof(t).lane = l
          /\ e.waiting = d.waiting \ {t} /\ e.running = d.running \cup {t}
        BY <1>7, <2>1 DEF Starts, Sane
    <2>3. Fit(e.running)
        <3>1. d.running \in SUBSET Calls /\ Fit(d.running)
            BY DEF DrainState, Sane
        <3>2. Cardinality(LaneOf(d.running, Prof(t).lane)) < Prof(t).maxConcurrency
            <4>1. LaneOf(d.running, Prof(t).lane) \in SUBSET Calls
                BY <3>1 DEF LaneOf
            <4>2. Cardinality(LaneOf(d.running, Prof(t).lane)) \in Nat
                  /\ Prof(t).maxConcurrency \in Nat
                BY <4>1, CallsFinite, ProfType
            <4> QED
                BY <2>1, <4>2 DEF Starts, NoSlot
        <3>3. Cardinality(d.running) < GlobalMax
            BY <2>1 DEF Starts
        <3> QED
            BY <2>2, <3>1, <3>2, <3>3, FitOneMore
    <2>4. e.lanes \subseteq LanesOf(e.waiting)
        <3> SUFFICES ASSUME NEW m \in d.lanes, m # l PROVE m \in LanesOf(e.waiting)
            BY <1>7
        <3>1. PICK u \in d.waiting : Prof(u).lane = m
            BY DEF Sane, LanesOf
        <3>2. u \in e.waiting
            BY <2>2, <3>1
        <3> QED
            BY <3>1, <3>2 DEF LanesOf
    <2>5. Sane(e)
        BY <2>2, <2>3, <2>4 DEF Sane
    <2>6. Under(b, e)
        <3>1. e.running # b.running /\ b.running \subseteq e.running
            BY <2>2 DEF Under
        <3>2. e.waiting \cup e.running = b.waiting \cup b.running
            BY <2>2 DEF Under
        <3> QED
            BY <1>8, <3>1, <3>2 DEF Under
    <2> QED
        BY <1>3, <1>4, <1>7, <2>5, <2>6
<1> QED
    BY <1>5, <1>9, <1>10

\* The first task of every lane is held up, by what waits and runs now.
Settled(d) ==
    /\ d.interactiveQueued = AnyInteractive(d.waiting)
    /\ d.interactiveActive = (LanesOf(d.running) \cap InteractiveLanes # {})
    /\ \A l \in LanesOf(d.waiting) : Held(d, l)

LEMMA BegunFacts ==
    ASSUME TypeOK, NEW d \in DrainState, Sane(d)
    PROVE  LET b == Begun(d) IN
           /\ b \in DrainState /\ Sane(b) /\ Under(b, b)
           /\ b.lanes = LanesOf(d.waiting)
           /\ b.waiting = d.waiting /\ b.running = d.running
           /\ b.interactiveQueued = AnyInteractive(b.waiting)
           /\ b.interactiveActive = (LanesOf(b.running) \cap InteractiveLanes # {})
<1> DEFINE q == AnyInteractive(d.waiting)
           a == LanesOf(d.running) \cap InteractiveLanes # {}
           L == LanesOf(d.waiting)
<1>1. PICK b : b = Begun(d)
    OBVIOUS
<1>2. L \in SUBSET Lanes
    BY ProfType DEF DrainState, LanesOf
<1>3. q \in BOOLEAN /\ a \in BOOLEAN
    BY DEF AnyInteractive
<1>4. b = [d EXCEPT !.lanes = L, !.interactiveQueued = q, !.interactiveActive = a]
    BY <1>1 DEF Begun
<1> HIDE DEF q, a, L
<1>5. /\ b \in DrainState /\ b.lanes = L /\ b.waiting = d.waiting /\ b.running = d.running
      /\ b.interactiveQueued = q /\ b.interactiveActive = a
    BY <1>2, <1>3, <1>4 DEF DrainState
<1>6. Sane(b)
    BY <1>5 DEF Sane, L
<1>7. Under(b, b)
    BY <1>5 DEF Under, Alike, L
<1> QED
    BY <1>1, <1>5, <1>6, <1>7 DEF q, a, L

LEMMA LanesFinite == IsFiniteSet(Lanes)
<1>1. \A S, x : IsFiniteSet(S) => IsFiniteSet(S \cup {x})
    BY FS_AddElement
<1>2. IsFiniteSet({"foreground"} \cup {"preview"} \cup {"scan"})
    BY <1>1, FS_Singleton
<1>3. IsFiniteSet({"foreground"} \cup {"preview"} \cup {"scan"} \cup {"io"} \cup {"maintenance"})
    BY <1>1, <1>2
<1>4. IsFiniteSet({"foreground"} \cup {"preview"} \cup {"scan"} \cup {"io"} \cup {"maintenance"}
                  \cup {"activation"} \cup {"background"})
    BY <1>1, <1>3
<1>5. Lanes = {"foreground"} \cup {"preview"} \cup {"scan"} \cup {"io"} \cup {"maintenance"}
              \cup {"activation"} \cup {"background"}
    BY DEF Lanes
<1> QED
    BY <1>4, <1>5

LEMMA TriedFacts ==
    ASSUME TypeOK, NEW d \in DrainState, Sane(d)
    PROVE  LET e == Tried(d) IN
           /\ e \in DrainState /\ Sane(e) /\ e.over = d.over
           /\ d.running \subseteq e.running
           /\ e.waiting \cup e.running = d.waiting \cup d.running
           /\ e.running = d.running => Settled(e)
<1>1. PICK b : b = Begun(d)
    OBVIOUS
<1>2. PICK N : N = Cardinality(LanesOf(d.waiting))
    OBVIOUS
<1>3. /\ b \in DrainState /\ Sane(b) /\ Under(b, b)
      /\ b.lanes = LanesOf(d.waiting)
      /\ b.waiting = d.waiting /\ b.running = d.running /\ b.over = d.over
      /\ b.interactiveQueued = AnyInteractive(b.waiting)
      /\ b.interactiveActive = (LanesOf(b.running) \cap InteractiveLanes # {})
    <2>1. b.over = d.over
        BY <1>1 DEF Begun, DrainState
    <2> QED
        BY <1>1, <2>1, BegunFacts
<1> DEFINE S == {e \in DrainState : Sane(e) /\ Under(b, e)}
           G == [e \in S |-> TryNext(e)]
           tried[n \in Nat] == IF n = 0 THEN Begun(d) ELSE TryNext(tried[n - 1])
<1>4. \A e \in S : TryNext(e) \in S
    <2> TAKE e \in S
    <2>1. CASE e.lanes = {}
        BY <2>1 DEF TryNext
    <2>2. CASE e.lanes # {}
        BY <1>3, <2>2, TryNextFacts
    <2> QED
        BY <2>1, <2>2
<1>5. b \in S
    BY <1>3
<1> HIDE DEF S
<1>6. G \in [S -> S] /\ \A e \in S : G[e] = TryNext(e)
    BY <1>4
<1>7. PICK f \in [Nat -> S] : f[0] = b /\ \A n \in Nat : f[n + 1] = G[f[n]]
    <2>1. PICK Q, H : Q = S /\ H = G
        OBVIOUS
    <2>2. b \in Q /\ H \in [Q -> Q]
        BY <1>5, <1>6, <2>1
    <2>3. \E f \in [Nat -> Q] : f[0] = b /\ \A n \in Nat : f[n + 1] = H[f[n]]
        BY <2>2, Iterates
    <2> HIDE DEF G
    <2> QED
        BY <2>1, <2>3
<1>8. f = [n \in Nat |-> IF n = 0 THEN Begun(d) ELSE TryNext(f[n - 1])]
    <2>1. ASSUME NEW n \in Nat PROVE f[n] = IF n = 0 THEN Begun(d) ELSE TryNext(f[n - 1])
        <3>1. CASE n = 0
            BY <1>1, <1>7, <3>1
        <3>2. CASE n # 0
            <4>1. n - 1 \in Nat /\ n = (n - 1) + 1
                BY <3>2
            <4>2. f[n - 1] \in S /\ f[n] = G[f[n - 1]]
                BY <1>7, <4>1
            <4> QED
                BY <1>6, <3>2, <4>2
        <3> QED
            BY <3>1, <3>2
    <2> QED
        BY <2>1
<1>9. tried = [n \in Nat |-> IF n = 0 THEN Begun(d) ELSE TryNext(tried[n - 1])]
    BY <1>8
<1>10. Tried(d) = tried[N]
    BY <1>2 DEF Tried
<1> HIDE DEF tried, G
<1>11. tried[0] = b /\ \A n \in Nat : tried[n + 1] = TryNext(tried[n])
    BY <1>1, <1>9
<1>12. IsFiniteSet(LanesOf(d.waiting)) /\ N \in Nat
    <2>1. IsFiniteSet(Lanes)
        BY LanesFinite
    <2>2. LanesOf(d.waiting) \in SUBSET Lanes
        BY <1>3 DEF DrainState
    <2> QED
        BY <1>2, <2>1, <2>2, FS_Subset, FS_CardinalityType
<1> DEFINE T == {n \in Nat : /\ tried[n] \in S
                             /\ IsFiniteSet(tried[n].lanes)
                             /\ n <= N => Cardinality(tried[n].lanes) = N - n}
<1>13. 0 \in T
    BY <1>2, <1>3, <1>5, <1>11, <1>12
<1>14. ASSUME NEW n \in T PROVE n + 1 \in T
    <2>1. PICK e : e = tried[n]
        OBVIOUS
    <2>2. tried[n + 1] = TryNext(e) /\ e \in S /\ TryNext(e) \in S
        BY <1>4, <1>11, <2>1
    <2>3. IsFiniteSet(e.lanes) /\ (n <= N => Cardinality(e.lanes) = N - n)
        BY <2>1
    <2>4. CASE e.lanes = {}
        <3>1. Cardinality(e.lanes) = 0
            BY <2>4, FS_EmptySet
        <3>2. ~(n + 1 <= N)
            BY <1>12, <2>3, <3>1
        <3>3. TryNext(e) = e
            BY <2>4 DEF TryNext
        <3> QED
            BY <2>2, <2>3, <3>2, <3>3
    <2>5. CASE e.lanes # {}
        <3>1. e \in DrainState /\ Sane(e) /\ Under(b, e)
            BY <2>2 DEF S
        <3>2. PICK l \in e.lanes : TryNext(e).lanes = e.lanes \ {l}
            BY <1>3, <2>5, <3>1, TryNextFacts
        <3>3. IsFiniteSet(e.lanes \ {l}) /\ Cardinality(e.lanes \ {l}) = Cardinality(e.lanes) - 1
            BY <2>3, <3>2, FS_RemoveElement
        <3>4. n + 1 <= N => Cardinality(e.lanes \ {l}) = N - (n + 1)
            BY <1>12, <2>3, <3>3
        <3> QED
            BY <2>2, <3>2, <3>3, <3>4
    <2> QED
        BY <2>4, <2>5
<1>15. N \in T
    <2>1. T \subseteq Nat
        OBVIOUS
    <2> HIDE DEF T
    <2>2. T = Nat
        BY <1>13, <1>14, <2>1, Inductive
    <2> QED
        BY <1>12, <2>2
<1>16. PICK e : e = Tried(d)
    OBVIOUS
<1>17. e \in S /\ e.lanes = {}
    <2>1. e \in S /\ IsFiniteSet(e.lanes) /\ Cardinality(e.lanes) = 0
        BY <1>10, <1>12, <1>15, <1>16
    <2> QED
        BY <2>1, FS_EmptySet
<1>18. e \in DrainState /\ Sane(e) /\ Under(b, e)
    BY <1>17 DEF S
<1>19. e.running = d.running => Settled(e)
    BY <1>3, <1>17, <1>18 DEF Under, Alike, Settled
<1>20. /\ e.over = d.over /\ d.running \subseteq e.running
       /\ e.waiting \cup e.running = d.waiting \cup d.running
    BY <1>3, <1>18 DEF Under, Alike
<1> QED
    BY <1>16, <1>18, <1>19, <1>20


-----------------------------------------------------------------------------
(* The passes of a drain.                                                  *)

LEMMA PassFacts ==
    ASSUME TypeOK, NEW d \in DrainState, Sane(d), ~d.over
    PROVE  LET e == Pass(d) IN
           /\ e \in DrainState /\ Sane(e)
           /\ d.running \subseteq e.running
           /\ e.waiting \cup e.running = d.waiting \cup d.running
           /\ IF e.over THEN Settled(e) ELSE Cardinality(e.running) > Cardinality(d.running)
<1>1. PICK f : f = Tried(d)
    OBVIOUS
<1>2. /\ f \in DrainState /\ Sane(f)
      /\ d.running \subseteq f.running
      /\ f.waiting \cup f.running = d.waiting \cup d.running
      /\ f.running = d.running => Settled(f)
    BY <1>1, TriedFacts
<1>3. PICK o \in BOOLEAN : o = (f.running = d.running)
    OBVIOUS
<1>4. PICK e : e = Pass(d)
    OBVIOUS
<1>5. e = [f EXCEPT !.over = o]
    BY <1>1, <1>3, <1>4 DEF Pass
<1>6. /\ e \in DrainState /\ e.over = o
      /\ e.waiting = f.waiting /\ e.running = f.running /\ e.lanes = f.lanes
      /\ e.quietTimer = f.quietTimer /\ e.backoffTimer = f.backoffTimer
      /\ e.interactiveQueued = f.interactiveQueued
      /\ e.interactiveActive = f.interactiveActive
    BY <1>2, <1>5 DEF DrainState
<1>7. Sane(e)
    BY <1>2, <1>6 DEF Sane
<1>8. CASE o
    BY <1>2, <1>3, <1>4, <1>6, <1>7, <1>8 DEF Settled, Held, NoSlot
<1>9. CASE ~o
    <2>1. d.running # e.running /\ d.running \subseteq e.running
        BY <1>2, <1>3, <1>6, <1>9
    <2>2. d.running \in SUBSET Calls /\ e.running \in SUBSET Calls
        BY <1>6 DEF DrainState
    <2>3. /\ IsFiniteSet(e.running)
          /\ Cardinality(d.running) \in Nat /\ Cardinality(e.running) \in Nat
        BY <2>2, CallsFinite
    <2>4. Cardinality(d.running) <= Cardinality(e.running)
          /\ Cardinality(d.running) # Cardinality(e.running)
        BY <2>1, <2>3, FS_Subset
    <2>5. Cardinality(e.running) > Cardinality(d.running)
        BY <2>3, <2>4
    <2> QED
        BY <1>2, <1>4, <1>6, <1>7, <1>9, <2>5
<1> QED
    BY <1>8, <1>9

\* After n passes, n tasks or more run, or the last pass has started nothing.
Within(b, d) ==
    /\ Sane(d)
    /\ b.running \subseteq d.running
    /\ d.waiting \cup d.running = b.waiting \cup b.running
    /\ d.over => Settled(d)

LEMMA PassesFacts ==
    ASSUME TypeOK, NEW b \in DrainState, Sane(b), ~b.over
    PROVE  LET e == Passes(b) IN
           /\ e \in DrainState /\ Within(b, e)
           /\ Settled(e) \/ Cardinality(e.running) >= GlobalMax
<1> DEFINE S == {e \in DrainState : Within(b, e)}
           G == [e \in S |-> Pass(e)]
           after[n \in Nat] == IF n = 0 THEN b ELSE Pass(after[n - 1])
<1>1. \A e \in S : /\ Pass(e) \in S
                   /\ e.over => Pass(e) = e
                   /\ ~e.over => Pass(e).over \/ Cardinality(Pass(e).running) > Cardinality(e.running)
    <2> TAKE e \in S
    <2>1. CASE e.over
        BY <2>1 DEF Pass
    <2>2. CASE ~e.over
        <3>1. e \in DrainState /\ Sane(e)
            BY DEF Within
        <3>2. PICK f : f = Pass(e)
            OBVIOUS
        <3>3. /\ f \in DrainState /\ Sane(f)
              /\ e.running \subseteq f.running
              /\ f.waiting \cup f.running = e.waiting \cup e.running
              /\ IF f.over THEN Settled(f) ELSE Cardinality(f.running) > Cardinality(e.running)
            BY <2>2, <3>1, <3>2, PassFacts
        <3>4. Within(b, f)
            BY <3>3 DEF Within
        <3> QED
            BY <2>2, <3>2, <3>3, <3>4
    <2> QED
        BY <2>1, <2>2
<1>2. b \in S
    BY DEF Within
<1>3. \A e \in S : e \in DrainState /\ Within(b, e)
    OBVIOUS
<1> HIDE DEF S
<1>4. G \in [S -> S] /\ \A e \in S : G[e] = Pass(e)
    BY <1>1
<1>5. PICK f \in [Nat -> S] : f[0] = b /\ \A n \in Nat : f[n + 1] = G[f[n]]
    <2>1. PICK Q, H : Q = S /\ H = G
        OBVIOUS
    <2>2. b \in Q /\ H \in [Q -> Q]
        BY <1>2, <1>4, <2>1
    <2>3. \E f \in [Nat -> Q] : f[0] = b /\ \A n \in Nat : f[n + 1] = H[f[n]]
        BY <2>2, Iterates
    <2> HIDE DEF G
    <2> QED
        BY <2>1, <2>3
<1>6. f = [n \in Nat |-> IF n = 0 THEN b ELSE Pass(f[n - 1])]
    <2>1. ASSUME NEW n \in Nat PROVE f[n] = IF n = 0 THEN b ELSE Pass(f[n - 1])
        <3>1. CASE n = 0
            BY <1>5, <3>1
        <3>2. CASE n # 0
            <4>1. n - 1 \in Nat /\ n = (n - 1) + 1
                BY <3>2
            <4>2. f[n - 1] \in S /\ f[n] = G[f[n - 1]]
                BY <1>5, <4>1
            <4> QED
                BY <1>4, <3>2, <4>2
        <3> QED
            BY <3>1, <3>2
    <2> QED
        BY <2>1
<1>7. after = [n \in Nat |-> IF n = 0 THEN b ELSE Pass(after[n - 1])]
    BY <1>6
<1>8. Passes(b) = after[GlobalMax]
    BY DEF Passes
<1> HIDE DEF after, G
<1>9. after[0] = b /\ \A n \in Nat : after[n + 1] = Pass(after[n])
    BY <1>7
<1> DEFINE T == {n \in Nat : /\ after[n] \in S
                             /\ after[n].over \/ Cardinality(after[n].running) >= n}
<1>10. 0 \in T
    <2>1. Cardinality(b.running) \in Nat
        BY CallsFinite DEF DrainState
    <2> QED
        BY <1>2, <1>9, <2>1
<1>11. ASSUME NEW n \in T PROVE n + 1 \in T
    <2>1. PICK e : e = after[n]
        OBVIOUS
    <2>2. PICK f1 : f1 = Pass(e)
        OBVIOUS
    <2>3. /\ e \in S /\ f1 \in S /\ after[n + 1] = f1
          /\ e.over \/ Cardinality(e.running) >= n
          /\ e.over => f1 = e
          /\ ~e.over => f1.over \/ Cardinality(f1.running) > Cardinality(e.running)
        BY <1>1, <1>9, <2>1, <2>2
    <2>4. Cardinality(e.running) \in Nat /\ Cardinality(f1.running) \in Nat
        BY <1>3, <2>3, CallsFinite DEF DrainState
    <2>5. f1.over \/ Cardinality(f1.running) >= n + 1
        BY <2>3, <2>4
    <2> QED
        BY <2>3, <2>5
<1>12. GlobalMax \in T
    <2>1. T \subseteq Nat
        OBVIOUS
    <2> HIDE DEF T
    <2>2. T = Nat
        BY <1>10, <1>11, <2>1, Inductive
    <2> QED
        BY <2>2, BoundAssumption
<1>13. PICK e : e = Passes(b)
    OBVIOUS
<1>14. e \in S /\ (e.over \/ Cardinality(e.running) >= GlobalMax)
    BY <1>8, <1>12, <1>13
<1>15. e \in DrainState /\ Within(b, e)
    BY <1>3, <1>14
<1>16. Settled(e) \/ Cardinality(e.running) >= GlobalMax
    BY <1>14, <1>15 DEF Within
<1> QED
    BY <1>13, <1>15, <1>16

\* What a drain of the tasks of S comes to.
LEMMA DrainedFacts ==
    ASSUME TypeOK, NEW S \in SUBSET Calls, S \cap active = {}, Fit(active)
    PROVE  LET d == Drained(S) IN
           /\ d \in DrainState /\ Fit(d.running)
           /\ d.waiting \subseteq S /\ active \subseteq d.running
           /\ d.running = active \cup (S \ d.waiting)
           /\ Settled(d) \/ Cardinality(d.running) >= GlobalMax
<1> DEFINE b == [waiting |-> S, running |-> active, quiet |-> quiet,
                 quietTimer |-> FALSE, backoffTimer |-> FALSE, lanes |-> {},
                 interactiveQueued |-> FALSE, interactiveActive |-> FALSE, over |-> FALSE]
<1>1. b \in DrainState /\ ~b.over /\ b.waiting = S /\ b.running = active /\ b.lanes = {}
    BY DEF TypeOK, DrainState
<1>2. PICK d : d = Drained(S)
    OBVIOUS
<1>3. d = Passes(b)
    BY <1>2 DEF Drained
<1> HIDE DEF b
<1>4. Sane(b)
    BY <1>1 DEF Sane
<1>5. /\ d \in DrainState /\ Within(b, d)
      /\ Settled(d) \/ Cardinality(d.running) >= GlobalMax
    BY <1>1, <1>3, <1>4, PassesFacts
<1>6. /\ d.waiting \cap d.running = {} /\ Fit(d.running)
      /\ active \subseteq d.running /\ d.waiting \cup d.running = S \cup active
    BY <1>1, <1>5 DEF Within, Sane
<1> QED
    BY <1>2, <1>5, <1>6


-----------------------------------------------------------------------------
(* Slots and wake-ups.                                                     *)

WakeInv == Fit(active) /\ NoLostWakeup /\ InteractiveNotHeld

LEMMA SameProf == ASSUME key' = key PROVE \A t : Prof(t)' = Prof(t)
BY DEF Prof, Cmd

LEMMA SameTop == ASSUME key' = key, NEW S PROVE Top(S)' = Top(S)
BY DEF Top, Prof, Cmd

LEMMA SameFit == ASSUME key' = key, NEW R, active' = R, Fit(R) PROVE Fit(active)'
BY SameProf DEF Fit

\* Every step but a drain leaves no task more running, and either sets a drain going or
\* changes nothing a drain would go by.
Calm ==
    /\ key' = key /\ active' \subseteq active
    /\ \/ drainScheduled'
       \/ UNCHANGED <<queue, active, drainScheduled, quietTimer, backoffTimer>>

LEMMA OthersCalm ==
    ASSUME IInv, [Next]_vars
    PROVE  Drain \/ Calm
<1>1. CASE ReadCache \/ Join \/ Enqueue
    BY <1>1 DEF ReadCache, Join, Enqueue, NewCall, Calm
<1>2. CASE PruneFires \/ ClearFontQueryCaches
    BY <1>2 DEF PruneFires, ClearFontQueryCaches, Calm
<1>3. ASSUME NEW t \in Calls, Finish(t) \/ CleanUp(t) PROVE Calm
    BY <1>3 DEF Finish, Frees, CleanUp, tasks, throttle, Calm
<1>4. ASSUME NEW k \in Keys, CacheExpires(k) PROVE Calm
    BY <1>4 DEF CacheExpires, tasks, throttle, Calm
<1>5. CASE QuietTimerFires \/ BackoffTimerFires \/ QuietEnds \/ BackoffEnds \/ Done
           \/ UNCHANGED vars
    BY <1>5 DEF QuietTimerFires, BackoffTimerFires, QuietEnds, BackoffEnds, Done, vars, tasks,
           throttle, Calm
<1> QED
    BY <1>1, <1>2, <1>3, <1>4, <1>5 DEF Next

LEMMA CalmWakes ==
    ASSUME IInv, WakeInv, Calm
    PROVE  WakeInv'
<1>1. Fit(active)'
    <2>1. PICK R : R = active'
        OBVIOUS
    <2>2. active \in SUBSET Calls /\ R \in SUBSET active
        BY <2>1 DEF IInv, TypeOK, Calm
    <2>3. Fit(R)
        BY <2>2, FitSubset DEF WakeInv
    <2> QED
        BY <2>1, <2>3, SameFit DEF Calm
<1>2. CASE drainScheduled'
    BY <1>1, <1>2 DEF WakeInv, NoLostWakeup, InteractiveNotHeld
<1>3. CASE UNCHANGED <<queue, active, drainScheduled, quietTimer, backoffTimer>>
    <2>1. \A t, l : Prof(t)' = Prof(t) /\ LaneOf(queue, l)' = LaneOf(queue, l)
                    /\ LaneOf(active, l)' = LaneOf(active, l)
        BY <1>3, SameProf DEF Calm, LaneOf
    <2>2. \A l : Top(LaneOf(queue, l))' = Top(LaneOf(queue, l))
        BY <1>3, SameTop DEF Calm, LaneOf, Top, Prof, Cmd
    <2>3. HeldForItself => HeldForItself'
        BY <1>3, <2>1, <2>2 DEF HeldForItself
    <2>4. NoLostWakeup'
        BY <1>3, <2>3 DEF WakeInv, NoLostWakeup
    <2>5. InteractiveNotHeld'
        BY <1>3, <2>1, <2>2 DEF WakeInv, InteractiveNotHeld
    <2> QED
        BY <1>1, <2>4, <2>5 DEF WakeInv
<1> QED
    BY <1>2, <1>3 DEF Calm

\* After a drain that found every lane held up, or filled every slot.
LEMMA SettledWakes ==
    ASSUME TypeOK, NEW d \in DrainState, Settled(d) \/ Cardinality(d.running) >= GlobalMax
    PROVE  /\ \A t \in d.waiting :
                Prof(t).interactive => \/ LaneOf(d.running, Prof(t).lane) # {}
                                       \/ Cardinality(d.running) >= GlobalMax
                                       \/ ~Prof(Top(LaneOf(d.waiting, Prof(t).lane))).interactive
           /\ d.waiting # {} /\ d.running = {} /\ ~d.quietTimer /\ ~d.backoffTimer =>
                \E t \in d.waiting :
                    LET first == Top(LaneOf(d.waiting, Prof(t).lane)) IN
                    Prof(t).interactive /\ ~Prof(first).interactive /\ Prof(first).backgroundThrottle
<1>1. d.waiting \in SUBSET Calls /\ d.running \in SUBSET Calls
    BY DEF DrainState
<1>2. ASSUME NEW t \in d.waiting
      PROVE  /\ Prof(t).lane \in LanesOf(d.waiting)
             /\ Top(LaneOf(d.waiting, Prof(t).lane)) \in Calls
             /\ Prof(Top(LaneOf(d.waiting, Prof(t).lane))).lane = Prof(t).lane
             /\ Prof(Top(LaneOf(d.waiting, Prof(t).lane))).maxConcurrency \in Nat \ {0}
    <2>1. LaneOf(d.waiting, Prof(t).lane) \in SUBSET Calls /\ LaneOf(d.waiting, Prof(t).lane) # {}
        BY <1>1 DEF LaneOf
    <2>2. Top(LaneOf(d.waiting, Prof(t).lane)) \in LaneOf(d.waiting, Prof(t).lane)
        BY <2>1, TopFacts
    <2>3. Top(LaneOf(d.waiting, Prof(t).lane)) \in Calls
        BY <2>1, <2>2
    <2> QED
        BY <2>2, <2>3, ProfType DEF LaneOf, LanesOf
<1>3. \A l : LaneOf(d.running, l) = {} => Cardinality(LaneOf(d.running, l)) = 0
    BY FS_EmptySet
<1>4. ASSUME NEW t \in d.waiting, Prof(t).interactive, LaneOf(d.running, Prof(t).lane) = {},
             ~(Cardinality(d.running) >= GlobalMax),
             Prof(Top(LaneOf(d.waiting, Prof(t).lane))).interactive
      PROVE  FALSE
    <2>1. PICK p : p = Prof(Top(LaneOf(d.waiting, Prof(t).lane)))
        OBVIOUS
    <2>2. p.interactive /\ p.lane = Prof(t).lane /\ p.maxConcurrency \in Nat \ {0}
        BY <1>2, <1>4, <2>1
    <2>3. Held(d, Prof(t).lane)
        BY <1>2, <1>4 DEF Settled
    <2>4. NoSlot(d, p)
        BY <1>4, <2>1, <2>2, <2>3 DEF Held, Blocked
    <2> QED
        BY <1>3, <1>4, <2>2, <2>4 DEF NoSlot
<1>5. ASSUME d.waiting # {}, d.running = {}, ~d.quietTimer, ~d.backoffTimer
      PROVE  \E t \in d.waiting :
                LET first == Top(LaneOf(d.waiting, Prof(t).lane)) IN
                Prof(t).interactive /\ ~Prof(first).interactive /\ Prof(first).backgroundThrottle
    <2>1. Cardinality(d.running) = 0 /\ \A l : LaneOf(d.running, l) = {}
        BY <1>5, FS_EmptySet DEF LaneOf
    <2>2. Settled(d) /\ ~d.interactiveActive
        <3>1. Settled(d)
            BY <2>1, BoundAssumption
        <3>2. LanesOf(d.running) = {}
            BY <1>5 DEF LanesOf
        <3> QED
            BY <3>1, <3>2 DEF Settled
    <2>3. ASSUME NEW t \in d.waiting
          PROVE  LET p == Prof(Top(LaneOf(d.waiting, Prof(t).lane))) IN
                 ~p.interactive /\ p.backgroundThrottle /\ d.interactiveQueued
        <3>1. PICK p : p = Prof(Top(LaneOf(d.waiting, Prof(t).lane)))
            OBVIOUS
        <3>2. Held(d, Prof(t).lane) /\ p.lane = Prof(t).lane /\ p.maxConcurrency \in Nat \ {0}
            BY <1>2, <2>2, <2>3, <3>1 DEF Settled
        <3>3. ~NoSlot(d, p)
            BY <1>3, <1>5, <2>1, <3>2 DEF NoSlot
        <3>4. Blocked(p, d.interactiveQueued, d.interactiveActive)
            BY <1>5, <2>1, <3>1, <3>2, <3>3, BoundAssumption DEF Held
        <3> QED
            BY <2>2, <3>1, <3>4 DEF Blocked
    <2>4. d.interactiveQueued
        BY <1>5, <2>3
    <2>5. PICK t \in d.waiting : Prof(t).interactive
        BY <2>2, <2>4 DEF Settled, AnyInteractive
    <2> QED
        BY <2>3, <2>5
<1> QED
    BY <1>4, <1>5

LEMMA DrainWakes ==
    ASSUME IInv, WakeInv, Drain
    PROVE  WakeInv'
<1>1. PICK X \in SUBSET queue : \E d \in {Drained(queue \ X)} :
        \E started \in {queue \ (X \cup d.waiting)} :
            /\ queue' = queue \ (X \cup started)
            /\ active' = active \cup started
            /\ quietTimer' = (quietTimer \/ d.quietTimer)
            /\ backoffTimer' = (backoffTimer \/ d.backoffTimer)
    BY DEF Drain
<1>2. PICK d : d = Drained(queue \ X)
    OBVIOUS
<1>3. PICK S : S = queue \ X
    OBVIOUS
<1>4. S \in SUBSET Calls /\ S \cap active = {} /\ TypeOK
    BY <1>3 DEF IInv, TypeOK, TaskInv
<1>5. /\ d \in DrainState /\ Fit(d.running)
      /\ d.waiting \subseteq S
      /\ d.running = active \cup (S \ d.waiting)
      /\ Settled(d) \/ Cardinality(d.running) >= GlobalMax
    BY <1>2, <1>3, <1>4, DrainedFacts DEF WakeInv
<1>6. /\ queue' = d.waiting /\ active' = d.running
      /\ quietTimer' = (quietTimer \/ d.quietTimer)
      /\ backoffTimer' = (backoffTimer \/ d.backoffTimer)
    BY <1>1, <1>2, <1>3, <1>5
<1>7. key' = key
    BY DEF Drain
<1>8. Fit(active)'
    BY <1>5, <1>6, <1>7, SameFit
<1>9. \A t, l : Prof(t)' = Prof(t) /\ LaneOf(queue, l)' = LaneOf(d.waiting, l)
                /\ LaneOf(active, l)' = LaneOf(d.running, l)
    BY <1>6, <1>7, SameProf DEF LaneOf
<1>10. \A l : Top(LaneOf(queue, l))' = Top(LaneOf(d.waiting, l))
    BY <1>6, <1>7 DEF LaneOf, Top, Prof, Cmd
<1>11. InteractiveNotHeld'
    <2>1. \A t \in d.waiting :
            Prof(t).interactive => \/ LaneOf(d.running, Prof(t).lane) # {}
                                   \/ Cardinality(d.running) >= GlobalMax
                                   \/ ~Prof(Top(LaneOf(d.waiting, Prof(t).lane))).interactive
        BY <1>4, <1>5, SettledWakes
    <2>2. ASSUME NEW t \in d.waiting
          PROVE  /\ Prof(t)' = Prof(t)
                 /\ LaneOf(active, Prof(t).lane)' = LaneOf(d.running, Prof(t).lane)
                 /\ Prof(Top(LaneOf(queue, Prof(t).lane)))'
                        = Prof(Top(LaneOf(d.waiting, Prof(t).lane)))
        BY <1>7, <1>9, <1>10 DEF Prof, Cmd
    <2> QED
        BY <1>6, <2>1, <2>2 DEF InteractiveNotHeld
<1>12. NoLostWakeup'
    <2> SUFFICES ASSUME d.waiting # {}, d.running = {}, ~d.quietTimer, ~d.backoffTimer
                 PROVE  HeldForItself'
        BY <1>6 DEF NoLostWakeup
    <2>1. PICK t \in d.waiting :
            LET first == Top(LaneOf(d.waiting, Prof(t).lane)) IN
            Prof(t).interactive /\ ~Prof(first).interactive /\ Prof(first).backgroundThrottle
        BY <1>4, <1>5, SettledWakes
    <2> QED
        BY <1>6, <1>9, <1>10, <2>1 DEF HeldForItself
<1> QED
    BY <1>8, <1>11, <1>12 DEF WakeInv

LEMMA WakeInvariance == Spec => []WakeInv
<1>1. Init => WakeInv
    <2> SUFFICES ASSUME Init PROVE WakeInv
        OBVIOUS
    <2>1. Fit({})
        BY FS_EmptySet, BoundAssumption DEF Fit
    <2> QED
        BY <2>1 DEF Init, WakeInv, NoLostWakeup, InteractiveNotHeld
<1>2. IInv /\ WakeInv /\ [Next]_vars => WakeInv'
    BY OthersCalm, CalmWakes, DrainWakes
<1> QED
    BY <1>1, <1>2, Invariance, PTL DEF Spec

\* However many tasks, lanes and limits: those running fit in the whole and in their lane.
THEOREM SlotsKept == Spec => []SlotsRespected
<1>1. IInv /\ WakeInv => SlotsRespected
    <2> SUFFICES ASSUME IInv, WakeInv PROVE SlotsRespected
        OBVIOUS
    <2>1. ASSUME NEW t \in active
          PROVE  \E u \in active :
                    /\ Prof(u).lane = Prof(t).lane
                    /\ Cardinality(LaneOf(active, Prof(t).lane)) <= Prof(u).maxConcurrency
        <3>1. PICK l : l = Prof(t).lane
            OBVIOUS
        <3>2. PICK S : S = LaneOf(active, l)
            OBVIOUS
        <3>3. l \in Lanes
            BY <3>1, ProfType DEF IInv, TypeOK
        <3>4. S \in SUBSET active /\ S # {} /\ \A u \in S : Prof(u).lane = l
            BY <3>1, <3>2 DEF LaneOf
        <3>5. PICK u \in S : Cardinality(S) <= Prof(u).maxConcurrency
            BY <3>3, <3>4 DEF WakeInv, Fit
        <3> QED
            BY <3>1, <3>2, <3>4, <3>5
    <2> QED
        BY <2>1 DEF SlotsRespected, WakeInv, Fit
<1> QED
    BY <1>1, Invariance, WakeInvariance, PTL

\* No queued task is forgotten, but for an interactive one behind background work of its
\* own lane, whatever the profiles.
THEOREM WakeupsKept == Spec => []NoLostWakeup
<1>1. WakeInv => NoLostWakeup
    BY DEF WakeInv
<1> QED
    BY <1>1, WakeInvariance, PTL

\* Interactive work does not wait for background work of other lanes.
THEOREM InteractiveFirst == Spec => []InteractiveNotHeld
<1>1. WakeInv => InteractiveNotHeld
    BY DEF WakeInv
<1> QED
    BY <1>1, WakeInvariance, PTL
=============================================================================
