-------------------- MODULE InstallStatusSaveQueueProofs ---------------------
(***************************************************************************)
(* Proofs about InstallStatusSaveQueue, for any number of fonts, flush()   *)
(* calls, versions and retries.  Nothing is lost and nothing goes back     *)
(* because there is one save at a time (OneSaveInFlight), a pending status *)
(* is always the newest of its font, and so is a status being saved unless *)
(* a newer one is pending (Current).                                       *)
(***************************************************************************)
EXTENDS InstallStatusSaveQueue, TLAPS

Statuses == [Ids -> Versions]
CallState == [pc: {"idle", "wait", "save", "sync"}, why: {"timer", "quit"},
              batch: Statuses, attempt: 0..MaxRetries]
Quits == {"open", "flushing", "asking", "flushed", "exited"}

Current ==
    /\ \A i \in Ids : pending[i] \in {0, latest[i]} /\ saved[i] <= latest[i]
    /\ \A c \in Callers : Saving(c) => \A i \in Ids : call[c].batch[i] # 0 =>
          /\ saved[i] <= call[c].batch[i] /\ call[c].batch[i] <= latest[i]
          /\ pending[i] = 0 => call[c].batch[i] = latest[i]

IInv == TypeOK /\ OneSaveInFlight /\ PendingIsScheduled /\ Current /\ NewestNeverLost

-----------------------------------------------------------------------------
LEMMA NothingType == Nothing \in Statuses /\ Versions \subseteq Nat /\ 0 \in Versions
  BY QueueAssumption DEF Nothing, Statuses, Versions

LEMMA OverlayType ==
    ASSUME NEW new \in Statuses, NEW old \in Statuses PROVE Overlay(new, old) \in Statuses
  BY DEF Overlay, Statuses

LEMMA NewSaveType ==
    ASSUME NEW b \in Statuses, NEW w \in {"timer", "quit"}
    PROVE  /\ [NoCall EXCEPT !.pc = "save", !.why = w, !.batch = b] \in CallState
           /\ [NoCall EXCEPT !.pc = "wait", !.why = w] \in CallState
           /\ NoCall \in CallState
<1>1. NoCall \in CallState
    BY NothingType, QueueAssumption DEF NoCall, CallState
<1>2. [NoCall EXCEPT !.pc = "save", !.why = w, !.batch = b] \in CallState
    BY <1>1 DEF CallState
<1>3. [NoCall EXCEPT !.pc = "wait", !.why = w] \in CallState
    BY <1>1 DEF CallState
<1> QED
    BY <1>1, <1>2, <1>3

\* TypeOK with its parts named.
Types ==
    /\ latest \in Statuses /\ pending \in Statuses /\ saved \in Statuses /\ due \in Statuses
    /\ timer \in BOOLEAN /\ call \in [Callers -> CallState] /\ waiting \in Seq(Callers)
    /\ inFlight \in Callers \cup {None} /\ quit \in Quits

LEMMA TypesAreTypeOK == (Types => TypeOK) /\ (TypeOK => Types)
  BY DEF Types, TypeOK, Statuses, CallState, Quits

LEMMA FlushType ==
    ASSUME Types, NEW c \in Callers, NEW w \in {"timer", "quit"}, Flush(c, w)
    PROVE  /\ call' \in [Callers -> CallState] /\ waiting' \in Seq(Callers)
           /\ pending' \in Statuses /\ timer' \in BOOLEAN /\ inFlight' \in Callers \cup {None}
           /\ UNCHANGED <<latest, saved>>
<1> USE DEF Types
<1>1. CASE inFlight # None
  <2>1. call' = [call EXCEPT ![c] = [NoCall EXCEPT !.pc = "wait", !.why = w]]
      BY <1>1 DEF Flush
  <2>2. [NoCall EXCEPT !.pc = "wait", !.why = w] \in CallState
      BY NewSaveType, NothingType
  <2>3. call' \in [Callers -> CallState]
      BY <2>1, <2>2
  <2>4. waiting' \in Seq(Callers)
      BY <1>1 DEF Flush
  <2> QED
      BY <1>1, <2>3, <2>4 DEF Flush
<1>2. CASE inFlight = None /\ pending = Nothing
    BY <1>2 DEF Flush
<1>3. CASE inFlight = None /\ pending # Nothing
  <2>1. call' = [call EXCEPT ![c] = [NoCall EXCEPT !.pc = "save", !.why = w, !.batch = pending]]
      BY <1>3 DEF Flush
  <2>2. call' \in [Callers -> CallState]
      BY <2>1, NewSaveType
  <2> QED
      BY <1>3, <2>2, NothingType DEF Flush
<1> QED
    BY <1>1, <1>2, <1>3

LEMMA ResumeType ==
    ASSUME Types, NEW c \in Callers, NEW n \in Callers \cup {None}, NEW b \in Statuses,
           Resume(c, n, b)
    PROVE  /\ call' \in [Callers -> CallState] /\ waiting' \in Seq(Callers)
           /\ pending' \in Statuses /\ inFlight' \in Callers \cup {None}
<1>1. ASSUME NEW d \in Callers
      PROVE  [NoCall EXCEPT !.pc = "save", !.why = call[d].why, !.batch = b] \in CallState
             /\ NoCall \in CallState /\ call[d] \in CallState
  <2>1. call[d] \in CallState
      BY DEF Types
  <2>2. call[d].why \in {"timer", "quit"}
      BY <2>1 DEF CallState
  <2> QED
      BY <2>1, <2>2, NewSaveType
<1>2. call' \in [Callers -> CallState]
    BY <1>1 DEF Resume
<1>3. waiting' \in Seq(Callers)
  <2>1. waiting' = <<>>
      BY DEF Resume
  <2>2. <<>> \in Seq(Callers)
      OBVIOUS
  <2> QED
      BY <2>1, <2>2
<1>4. pending' \in Statuses /\ inFlight' \in Callers \cup {None}
    BY NothingType DEF Resume
<1> QED
    BY <1>2, <1>3, <1>4

LEMMA WroteType ==
    ASSUME Types, NEW c \in Callers, Wrote(c) PROVE saved' \in Statuses
  BY DEF Types, Wrote, Statuses, CallState

LEMMA InitTypes == Init => Types
<1> SUFFICES ASSUME Init PROVE Types
    OBVIOUS
<1>1. NoCall \in CallState
    BY NothingType, NewSaveType
<1>2. waiting \in Seq(Callers)
    BY DEF Init
<1> QED
    BY <1>1, <1>2, NothingType DEF Init, Types, Quits

LEMMA StepTypes == Types /\ [Next]_vars => Types'
<1> SUFFICES ASSUME Types, [Next]_vars PROVE Types'
    OBVIOUS
<1>1. ASSUME NEW S \in SUBSET Ids, Schedule(S) PROVE Types'
  <2>1. \A i \in Ids : latest[i] \in Versions /\ pending[i] \in Versions
      BY DEF Types, Statuses
  <2>2. \A i \in S : latest[i] + 1 \in Versions
      BY <1>1, <2>1, QueueAssumption DEF Schedule, Versions
  <2>3. latest' \in Statuses /\ pending' \in Statuses
      BY <1>1, <2>1, <2>2 DEF Schedule, Statuses
  <2> QED
      BY <1>1, <2>3 DEF Schedule, Types
<1>2. ASSUME NEW c \in Callers, TimerFires(c) PROVE Types'
    BY <1>2, FlushType DEF TimerFires, Types
<1>3. ASSUME NEW c \in Callers, QuitFlush(c) PROVE Types'
    BY <1>3, FlushType DEF QuitFlush, Types, Quits
<1>4. ASSUME NEW c \in Callers, SaveSucceeds(c) PROVE Types'
  <2>1. call[c] \in CallState
      BY DEF Types
  <2>2. [call[c] EXCEPT !.pc = "sync"] \in CallState /\ call[c].batch \in Statuses
      BY <2>1 DEF CallState
  <2>3. saved' \in Statuses
      BY <1>4, <2>2, OverlayType DEF SaveSucceeds, Types
  <2>4. call' \in [Callers -> CallState]
      BY <1>4, <2>2 DEF SaveSucceeds, Types
  <2> QED
      BY <1>4, <2>3, <2>4 DEF SaveSucceeds, Types
<1>5. ASSUME NEW c \in Callers, SaveRetries(c) PROVE Types'
  <2>1. call[c] \in CallState
      BY DEF Types
  <2>2. call[c].attempt + 1 \in 0..MaxRetries
      BY <1>5, <2>1, QueueAssumption DEF SaveRetries, MayRetry, CallState
  <2>3. [call[c] EXCEPT !.attempt = @ + 1] \in CallState
      BY <2>1, <2>2 DEF CallState
  <2>4. call' \in [Callers -> CallState]
      BY <1>5, <2>3 DEF SaveRetries, Types
  <2> QED
      BY <1>5, <2>4, WroteType DEF SaveRetries, Types
<1>6. ASSUME NEW c \in Callers, SaveFails(c) PROVE Types'
  <2>1. call[c] \in CallState
      BY DEF Types
  <2>2. MergeFailedBatch(call[c].batch) \in Statuses
      BY <2>1, OverlayType DEF MergeFailedBatch, CallState, Types
  <2>3. (IF waiting = <<>> THEN None ELSE Head(waiting)) \in Callers \cup {None}
      BY DEF Types
  <2>4. /\ call' \in [Callers -> CallState] /\ waiting' \in Seq(Callers)
        /\ pending' \in Statuses /\ inFlight' \in Callers \cup {None}
      BY <1>6, <2>2, <2>3, ResumeType DEF SaveFails
  <2>5. quit' \in Quits
      BY <1>6 DEF SaveFails, Types, Quits
  <2> QED
      BY <1>6, <2>4, <2>5, WroteType DEF SaveFails, BackgroundRetry, Types
<1>7. ASSUME NEW c \in Callers, SyncEnds(c) PROVE Types'
  <2>1. /\ call' \in [Callers -> CallState] /\ waiting' \in Seq(Callers)
        /\ pending' \in Statuses /\ inFlight' \in Callers \cup {None}
      BY <1>7, ResumeType, NothingType DEF SyncEnds, Types
  <2>2. quit' \in Quits
      BY <1>7 DEF SyncEnds, Types, Quits
  <2> QED
      BY <1>7, <2>1, <2>2 DEF SyncEnds, Types
<1>8. CASE Answer \/ Exit \/ Exited \/ UNCHANGED vars
    BY <1>8, NothingType DEF Answer, Exit, Exited, vars, queue, Types, Quits
<1> QED
    BY <1>1, <1>2, <1>3, <1>4, <1>5, <1>6, <1>7, <1>8 DEF Next, SaveStep

-----------------------------------------------------------------------------
(* One save at a time.                                                     *)

\* What a call of flush() and the end of a save do to the calls.
LEMMA FlushCalls ==
    ASSUME Types, OneSaveInFlight, NEW c \in Callers, NEW w \in {"timer", "quit"}, Flush(c, w)
    PROVE  /\ OneSaveInFlight'
           /\ \A d \in Callers : Saving(d)' =>
                 \/ Saving(d) /\ call'[d].batch = call[d].batch /\ pending' = pending
                 \/ call'[d].batch = pending /\ pending' = Nothing
           /\ \/ /\ pending' = pending
                 /\ \A d \in Callers : Saving(d) => Saving(d)' /\ call'[d].batch = call[d].batch
              \/ Saving(c)' /\ call'[c].batch = pending /\ inFlight = None
           /\ pending' # Nothing => inFlight' # None
<1> USE NoneAssumption DEF Types, OneSaveInFlight, Saving
<1>0. call[c].pc = "idle"
    BY DEF Flush
<1>1. CASE inFlight # None
  <2>1. \A d \in Callers : call'[d] = IF d = c THEN [NoCall EXCEPT !.pc = "wait", !.why = w]
                                      ELSE call[d]
      BY <1>1 DEF Flush
  <2>2. call'[c].pc = "wait"
      BY <2>1 DEF NoCall
  <2> QED
      BY <1>0, <1>1, <2>1, <2>2 DEF Flush
<1>2. CASE inFlight = None /\ pending = Nothing
    BY <1>2 DEF Flush
<1>3. CASE inFlight = None /\ pending # Nothing
  <2>1. \A d \in Callers : call'[d] = IF d = c
            THEN [NoCall EXCEPT !.pc = "save", !.why = w, !.batch = pending] ELSE call[d]
      BY <1>3 DEF Flush
  <2>2. call'[c].pc = "save" /\ call'[c].batch = pending
      BY <2>1 DEF NoCall
  <2>3. inFlight' = c /\ pending' = Nothing
      BY <1>3 DEF Flush
  <2> QED
      BY <1>0, <1>3, <2>1, <2>2, <2>3
<1> QED
    BY <1>1, <1>2, <1>3

LEMMA ResumeCalls ==
    ASSUME Types, OneSaveInFlight, NEW c \in Callers, call[c].pc \in {"save", "sync"},
           NEW n \in Callers \cup {None}, NEW b \in Statuses, Resume(c, n, b)
    PROVE  /\ OneSaveInFlight'
           /\ \A d \in Callers : Saving(d)' <=> d = n
           /\ n # None => call'[n].batch = b /\ pending' = Nothing
           /\ n = None => pending' = b
<1> USE NoneAssumption DEF Types, OneSaveInFlight, Saving
<1>1. \A d \in Callers : d # c => call[d].pc \in {"idle", "wait"}
  <2>1. \A d \in Callers : call[d].pc \in {"idle", "wait", "save", "sync"}
      BY DEF CallState
  <2> QED
      BY <2>1
<1>2. ASSUME NEW d \in Callers, d = n PROVE call'[d].pc = "save" /\ call'[d].batch = b
    BY <1>2 DEF Resume, NoCall
<1>3. ASSUME NEW d \in Callers, d # n PROVE call'[d].pc \in {"idle", "wait"}
    BY <1>1, <1>3 DEF Resume, NoCall
<1>4. inFlight' = n /\ pending' = IF n = None THEN b ELSE Nothing
    BY DEF Resume
<1> QED
    BY <1>2, <1>3, <1>4

-----------------------------------------------------------------------------
(* The statuses.                                                           *)

LEMMA Values ==
    ASSUME Types, NEW i \in Ids
    PROVE  /\ latest[i] \in Nat /\ pending[i] \in Nat /\ saved[i] \in Nat
           /\ \A c \in Callers : call[c].batch[i] \in Nat
  BY NothingType DEF Types, Statuses, CallState

\* What a step does to the safety invariants, given what it does to the calls.
Safe == OneSaveInFlight /\ PendingIsScheduled /\ Current /\ NewestNeverLost

LEMMA InitIInv == Init => IInv
<1> SUFFICES ASSUME Init PROVE IInv
    OBVIOUS
<1>1. TypeOK
    BY InitTypes, TypesAreTypeOK
<1>2. Safe
    BY NoneAssumption DEF Init, Safe, OneSaveInFlight, PendingIsScheduled, Current,
       NewestNeverLost, Saving, NoCall, Nothing
<1> QED
    BY <1>1, <1>2 DEF IInv, Safe

LEMMA ScheduleSafe == ASSUME Types, Safe, NEW S \in SUBSET Ids, Schedule(S) PROVE Safe'
<1>1. OneSaveInFlight' /\ PendingIsScheduled'
    BY DEF Safe, Schedule, OneSaveInFlight, PendingIsScheduled
<1>2. \A i \in Ids : /\ latest'[i] = IF i \in S THEN latest[i] + 1 ELSE latest[i]
                     /\ pending'[i] = IF i \in S THEN latest[i] + 1 ELSE pending[i]
    BY DEF Schedule
<1>3. saved' = saved /\ call' = call
    BY DEF Schedule
<1>4. Current'
    BY <1>2, <1>3, Values DEF Safe, Current, Saving
<1>5. NewestNeverLost'
    BY <1>2, <1>3 DEF Safe, NewestNeverLost, Saving
<1> QED
    BY <1>1, <1>4, <1>5 DEF Safe

LEMMA FlushSafe ==
    ASSUME Types, Safe, NEW c \in Callers, NEW w \in {"timer", "quit"}, Flush(c, w)
    PROVE  Safe'
<1> USE DEF Safe
<1>1. OneSaveInFlight' /\ PendingIsScheduled'
    BY FlushCalls DEF PendingIsScheduled
<1>2. saved' = saved /\ latest' = latest
    BY FlushType
<1>3. ASSUME NEW d \in Callers, Saving(d)', NEW i \in Ids, call'[d].batch[i] # 0
      PROVE  /\ saved[i] <= call'[d].batch[i] /\ call'[d].batch[i] <= latest[i]
             /\ pending'[i] = 0 => call'[d].batch[i] = latest[i]
  <2>1. CASE Saving(d) /\ call'[d].batch = call[d].batch /\ pending' = pending
      BY <1>3, <2>1 DEF Current
  <2>2. CASE call'[d].batch = pending /\ pending' = Nothing
      BY <1>3, <2>2, Values DEF Current
  <2> QED
      BY <1>3, <2>1, <2>2, FlushCalls
<1>4. \A i \in Ids : pending'[i] \in {0, latest[i]}
    BY DEF Flush, Nothing, Current
<1>5. Current'
    BY <1>2, <1>3, <1>4 DEF Current
<1>6. NewestNeverLost'
  <2>1. CASE pending' = pending /\ \A d \in Callers :
                 Saving(d) => Saving(d)' /\ call'[d].batch = call[d].batch
      BY <1>2, <2>1 DEF NewestNeverLost
  <2>2. CASE Saving(c)' /\ call'[c].batch = pending /\ inFlight = None
    <3>1. \A d \in Callers : ~Saving(d)
        BY <2>2, NoneAssumption DEF OneSaveInFlight, Saving
    <3> QED
        BY <1>2, <2>2, <3>1 DEF NewestNeverLost
  <2> QED
      BY <2>1, <2>2, FlushCalls
<1> QED
    BY <1>1, <1>5, <1>6

\* The only save that runs is that of the call whose step it is.
LEMMA OnlySave ==
    ASSUME Types, OneSaveInFlight, NEW c \in Callers, call[c].pc \in {"save", "sync"}
    PROVE  inFlight = c /\ \A d \in Callers : d # c => ~Saving(d)
  BY DEF OneSaveInFlight, Saving

LEMMA SucceedsSafe == ASSUME Types, Safe, NEW c \in Callers, SaveSucceeds(c) PROVE Safe'
<1> USE DEF Safe
<1>1. Saving(c) /\ call[c].pc = "save"
    BY DEF SaveSucceeds, Saving
<1>2. /\ latest' = latest /\ pending' = pending /\ timer' = timer /\ inFlight' = inFlight
      /\ \A i \in Ids : saved'[i] = IF call[c].batch[i] # 0 THEN call[c].batch[i] ELSE saved[i]
    BY DEF SaveSucceeds, Overlay
<1>3. \A d \in Callers : /\ d # c => call'[d] = call[d]
                         /\ call'[c].pc = "sync"
    BY DEF SaveSucceeds, Types, CallState
<1>4. OneSaveInFlight' /\ PendingIsScheduled'
    BY <1>1, <1>2, <1>3 DEF OneSaveInFlight, PendingIsScheduled
<1>5. \A d \in Callers : ~Saving(d)'
    BY <1>1, <1>3, OnlySave DEF Saving
<1>6. \A i \in Ids : saved'[i] <= latest[i] /\ latest[i] \in {saved'[i], pending[i]}
  <2> TAKE i \in Ids
  <2>1. latest[i] \in {saved[i], pending[i], call[c].batch[i]}
      BY <1>1, OnlySave DEF NewestNeverLost
  <2>2. saved[i] <= latest[i] /\ pending[i] \in {0, latest[i]}
        /\ (call[c].batch[i] # 0 =>
              saved[i] <= call[c].batch[i] /\ call[c].batch[i] <= latest[i])
      BY <1>1 DEF Current
  <2> QED
      BY <1>2, <2>1, <2>2, Values
<1>7. Current' /\ NewestNeverLost'
    BY <1>2, <1>5, <1>6 DEF Current, NewestNeverLost
<1> QED
    BY <1>4, <1>7

\* A failed attempt writes nothing or the status it was given.
LEMMA WroteValues ==
    ASSUME NEW c \in Callers, Wrote(c), NEW i \in Ids
    PROVE  saved'[i] = saved[i] \/ (call[c].batch[i] # 0 /\ saved'[i] = call[c].batch[i])
  BY DEF Wrote

LEMMA RetriesSafe == ASSUME Types, Safe, NEW c \in Callers, SaveRetries(c) PROVE Safe'
<1> USE DEF Safe
<1>1. Saving(c) /\ latest' = latest /\ pending' = pending /\ timer' = timer
      /\ inFlight' = inFlight
    BY DEF SaveRetries
<1>2. \A d \in Callers : call'[d].pc = call[d].pc /\ call'[d].batch = call[d].batch
    BY DEF SaveRetries, Types, CallState
<1>3. OneSaveInFlight' /\ PendingIsScheduled'
    BY <1>1, <1>2 DEF OneSaveInFlight, PendingIsScheduled
<1>4. \A d \in Callers : Saving(d)' <=> d = c
    BY <1>1, <1>2, OnlySave DEF Saving
<1>5. ASSUME NEW i \in Ids
      PROVE  /\ saved'[i] <= latest[i]
             /\ call[c].batch[i] # 0 => saved'[i] <= call[c].batch[i]
             /\ latest[i] \in {saved'[i], pending[i], call[c].batch[i]}
  <2>1. latest[i] \in {saved[i], pending[i], call[c].batch[i]}
      BY <1>1, OnlySave DEF NewestNeverLost, Saving
  <2>2. saved[i] <= latest[i] /\ pending[i] \in {0, latest[i]}
        /\ (call[c].batch[i] # 0 =>
              saved[i] <= call[c].batch[i] /\ call[c].batch[i] <= latest[i])
      BY <1>1 DEF Current
  <2>3. saved'[i] = saved[i] \/ (call[c].batch[i] # 0 /\ saved'[i] = call[c].batch[i])
      BY WroteValues DEF SaveRetries
  <2> QED
      BY <2>1, <2>2, <2>3, Values
<1>6. Current'
    BY <1>1, <1>2, <1>4, <1>5 DEF Current
<1>7. NewestNeverLost'
    BY <1>1, <1>2, <1>4, <1>5 DEF NewestNeverLost
<1> QED
    BY <1>3, <1>6, <1>7

\* After the end of a save the batch that was to be kept is pending or is being
\* saved by the one call that goes on.
LEMMA ResumeSafe ==
    ASSUME Types, OneSaveInFlight, NEW c \in Callers, call[c].pc \in {"save", "sync"},
           NEW n \in Callers \cup {None}, NEW b \in Statuses, Resume(c, n, b),
           latest' = latest,
           \A i \in Ids : /\ b[i] \in {0, latest[i]}
                          /\ saved'[i] <= latest[i] /\ (b[i] # 0 => saved'[i] <= b[i])
                          /\ latest[i] \in {saved'[i], b[i]}
    PROVE  Current' /\ NewestNeverLost'
<1>1. CASE n = None
  <2>1. pending' = b /\ \A d \in Callers : ~Saving(d)'
      BY <1>1, ResumeCalls, NoneAssumption
  <2> QED
      BY <2>1 DEF Current, NewestNeverLost
<1>2. CASE n \in Callers
  <2>1. pending' = Nothing /\ call'[n].batch = b /\ \A d \in Callers : Saving(d)' <=> d = n
      BY <1>2, ResumeCalls, NoneAssumption
  <2>2. \A i \in Ids : pending'[i] = 0
      BY <2>1 DEF Nothing
  <2>3. \A i \in Ids : b[i] # 0 => b[i] = latest[i] /\ b[i] <= latest[i]
      BY Values
  <2>4. Current'
      BY <2>1, <2>2, <2>3 DEF Current
  <2>5. NewestNeverLost'
      BY <1>2, <2>1 DEF NewestNeverLost
  <2> QED
      BY <2>4, <2>5
<1> QED
    BY <1>1, <1>2

LEMMA FailsSafe == ASSUME Types, Safe, NEW c \in Callers, SaveFails(c) PROVE Safe'
<1> USE DEF Safe
<1> DEFINE n == IF waiting = <<>> THEN None ELSE Head(waiting)
           b == MergeFailedBatch(call[c].batch)
<1>1. Saving(c) /\ call[c].pc = "save" /\ latest' = latest /\ timer' = TRUE /\ Resume(c, n, b)
    BY DEF SaveFails, Saving, BackgroundRetry
<1>2. n \in Callers \cup {None} /\ b \in Statuses
    BY OverlayType DEF MergeFailedBatch, CallState, Types
<1>3. ASSUME NEW i \in Ids
      PROVE  /\ b[i] \in {0, latest[i]}
             /\ saved'[i] <= latest[i] /\ (b[i] # 0 => saved'[i] <= b[i])
             /\ latest[i] \in {saved'[i], b[i]}
  <2>1. b[i] = IF pending[i] # 0 THEN pending[i] ELSE call[c].batch[i]
      BY DEF MergeFailedBatch, Overlay
  <2>2. latest[i] \in {saved[i], pending[i], call[c].batch[i]}
      BY <1>1, OnlySave DEF NewestNeverLost
  <2>3. saved[i] <= latest[i] /\ pending[i] \in {0, latest[i]}
        /\ (call[c].batch[i] # 0 =>
              /\ saved[i] <= call[c].batch[i] /\ call[c].batch[i] <= latest[i]
              /\ pending[i] = 0 => call[c].batch[i] = latest[i])
      BY <1>1 DEF Current
  <2>4. saved'[i] = saved[i] \/ (call[c].batch[i] # 0 /\ saved'[i] = call[c].batch[i])
      BY WroteValues DEF SaveFails
  <2> QED
      BY <2>1, <2>2, <2>3, <2>4, Values
<1>4. Current' /\ NewestNeverLost'
    BY <1>1, <1>2, <1>3, ResumeSafe
<1>5. OneSaveInFlight' /\ PendingIsScheduled'
    BY <1>1, <1>2, ResumeCalls DEF PendingIsScheduled
<1> QED
    BY <1>4, <1>5

LEMMA SyncSafe == ASSUME Types, Safe, NEW c \in Callers, SyncEnds(c) PROVE Safe'
<1> USE DEF Safe
<1>1. call[c].pc = "sync" /\ latest' = latest /\ saved' = saved
    BY DEF SyncEnds
<1>2. PICK n \in Callers \cup {None} :
          Resume(c, n, pending) /\ (n = None => pending = Nothing)
  <2>1. CASE pending = Nothing
    <3>1. Resume(c, None, pending)
        BY <2>1 DEF SyncEnds
    <3> QED
        BY <2>1, <3>1
  <2>2. CASE pending # Nothing
    <3>1. Resume(c, c, pending) /\ c # None
        BY <2>2, NoneAssumption DEF SyncEnds
    <3> QED
        BY <3>1
  <2> QED
      BY <2>1, <2>2
<1>3. ASSUME NEW i \in Ids
      PROVE  /\ pending[i] \in {0, latest[i]}
             /\ saved'[i] <= latest[i] /\ (pending[i] # 0 => saved'[i] <= pending[i])
             /\ latest[i] \in {saved'[i], pending[i]}
  <2>1. \A d \in Callers : ~Saving(d)
      BY <1>1, OnlySave DEF Saving
  <2> QED
      BY <1>1, <2>1, Values DEF Current, NewestNeverLost
<1>4. pending \in Statuses
    BY DEF Types
<1>5. Current' /\ NewestNeverLost'
    BY <1>1, <1>2, <1>3, <1>4, ResumeSafe
<1>6. OneSaveInFlight' /\ (n # None => pending' = Nothing) /\ (n = None => pending' = pending)
    BY <1>1, <1>2, <1>4, ResumeCalls
<1>7. PendingIsScheduled'
    BY <1>2, <1>6 DEF PendingIsScheduled
<1> QED
    BY <1>5, <1>6, <1>7

-----------------------------------------------------------------------------
LEMMA IInvStep == IInv /\ [Next]_vars => IInv'
<1> SUFFICES ASSUME IInv, [Next]_vars PROVE IInv'
    OBVIOUS
<1>1. Types /\ Safe
    BY TypesAreTypeOK DEF IInv, Safe
<1>2. TypeOK'
  <2>1. Types'
      BY <1>1, StepTypes
  <2> QED
      BY <2>1 DEF Types, TypeOK, Statuses, CallState, Quits
<1>3. CASE \E S \in SUBSET Ids : Schedule(S)
    BY <1>1, <1>2, <1>3, ScheduleSafe DEF IInv, Safe
<1>4. ASSUME NEW c \in Callers, TimerFires(c) \/ QuitFlush(c) PROVE IInv'
    BY <1>1, <1>2, <1>4, FlushSafe DEF TimerFires, QuitFlush, IInv, Safe
<1>5. ASSUME NEW c \in Callers, SaveStep(c) PROVE IInv'
    BY <1>1, <1>2, <1>5, SucceedsSafe, RetriesSafe, FailsSafe, SyncSafe DEF SaveStep, IInv, Safe
<1>6. CASE UNCHANGED queue
    BY <1>1, <1>2, <1>6 DEF queue, IInv, OneSaveInFlight, PendingIsScheduled, Current,
       NewestNeverLost, Safe, Saving
<1> QED
    BY <1>3, <1>4, <1>5, <1>6 DEF Next, Answer, Exit, Exited, vars

LEMMA Inductive == Spec => []IInv
<1>1. Init => IInv
    BY InitIInv
<1> QED
    BY <1>1, IInvStep, PTL DEF Spec

\* The variables keep their types: no version beyond those scheduled, and no call
\* makes more attempts than the retries allow.
THEOREM TypeCorrect == Spec => []TypeOK
<1>1. IInv => TypeOK
    BY DEF IInv
<1> QED
    BY <1>1, Inductive, PTL

\* saveInFlight: at most one save runs, for any number of overlapping flushes.
THEOREM OneSaveSafe == Spec => []OneSaveInFlight
<1>1. IInv => OneSaveInFlight
    BY DEF IInv
<1> QED
    BY <1>1, Inductive, PTL

\* A pending status always has a timer or a save in flight that will take it.
THEOREM PendingSafe == Spec => []PendingIsScheduled
<1>1. IInv => PendingIsScheduled
    BY DEF IInv
<1> QED
    BY <1>1, Inductive, PTL

\* The newest status of a font is saved, pending or being saved, whatever fails.
THEOREM NewestSafe == Spec => []NewestNeverLost
<1>1. IInv => NewestNeverLost
    BY DEF IInv
<1> QED
    BY <1>1, Inductive, PTL

\* No save replaces a status in the database by an older one.
THEOREM NoRegression == Spec => NoStatusRegression
<1>1. IInv /\ [Next]_vars => [\A i \in Ids : saved'[i] >= saved[i]]_vars
  <2> SUFFICES ASSUME IInv, Next, NEW i \in Ids PROVE saved'[i] >= saved[i]
      BY DEF vars
  <2>1. Types /\ Current
      BY TypesAreTypeOK DEF IInv
  <2>2. CASE saved'[i] = saved[i]
      BY <2>1, <2>2, Values
  <2>3. ASSUME NEW c \in Callers, Saving(c),
               call[c].batch[i] # 0 /\ saved'[i] = call[c].batch[i]
        PROVE  saved'[i] >= saved[i]
      BY <2>1, <2>3, Values DEF Current
  <2>4. ASSUME NEW c \in Callers, SaveSucceeds(c) PROVE saved'[i] >= saved[i]
      BY <2>2, <2>3, <2>4 DEF SaveSucceeds, Overlay
  <2>5. ASSUME NEW c \in Callers, SaveRetries(c) \/ SaveFails(c) PROVE saved'[i] >= saved[i]
      BY <2>2, <2>3, <2>5, WroteValues DEF SaveRetries, SaveFails
  <2> QED
      BY <2>2, <2>4, <2>5 DEF Next, SaveStep, Schedule, TimerFires, QuitFlush, Flush, SyncEnds,
         Answer, Exit, Exited, vars, queue
<1> QED
    BY <1>1, Inductive, PTL DEF Spec, NoStatusRegression
=============================================================================
