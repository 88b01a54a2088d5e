----------------------- MODULE InstallStatusSaveQueue -----------------------
(***************************************************************************)
(* main/activation/activationInstallStatusSaveQueue.ts: the write-behind   *)
(* queue of install statuses, and the flush that quit waits for            *)
(* (main/app/mainProcessLifecycleRuntime.ts:410-446).                      *)
(*                                                                         *)
(* A status is a version number: the n-th status scheduled for a font.     *)
(* flush() is re-entrant: it is called by the timer and by quit, and a     *)
(* call made while a save is in flight waits for that save.  When the save *)
(* settles, the continuations of the promise run back to back in the order *)
(* they were attached - first that of the flush that owns the save, then   *)
(* the waiting ones - so they are one step here.                           *)
(***************************************************************************)
EXTENDS Naturals, Sequences

CONSTANTS
    Ids,          \* fonts
    Callers,      \* slots for flush() calls in progress
    MaxVersions,  \* bound: statuses scheduled for one font
    MaxRetries,   \* retries of a save (SAVE_RETRY_DELAYS_MS has 3)
    None          \* no call

ASSUME QueueAssumption == MaxVersions \in Nat /\ MaxRetries \in Nat
ASSUME NoneAssumption == None \notin Callers

VARIABLES
    latest,    \* font -> newest version scheduled
    pending,   \* pendingResults: font -> version, 0 when absent
    saved,     \* the install-status database: font -> version
    timer,     \* saveTimer is set
    call,      \* the flush() calls
    waiting,   \* calls awaiting saveInFlight, in the order they came
    inFlight,  \* the call that owns saveInFlight, or None
    quit,      \* open, flushing, asking, flushed, exited
    due        \* what had been scheduled when quit began its flush

queue == <<latest, pending, saved, timer, call, waiting, inFlight>>
vars == <<queue, quit, due>>

Versions == 0..MaxVersions
Nothing == [i \in Ids |-> 0]
NoCall == [pc |-> "idle", why |-> "timer", batch |-> Nothing, attempt |-> 0]

Init ==
    /\ latest = Nothing /\ pending = Nothing /\ saved = Nothing
    /\ timer = FALSE
    /\ call = [c \in Callers |-> NoCall]
    /\ waiting = <<>> /\ inFlight = None
    /\ quit = "open" /\ due = Nothing

\* A save that has begun and is not yet known to have succeeded.
Saving(c) == call[c].pc = "save"

Overlay(new, old) == [i \in Ids |-> IF new[i] # 0 THEN new[i] ELSE old[i]]

-----------------------------------------------------------------------------
\* schedule(): the newest status of a font replaces the one that waits.
Schedule(S) ==
    /\ quit # "exited"
    /\ S # {} /\ \A i \in S : latest[i] < MaxVersions
    /\ latest' = [i \in Ids |-> IF i \in S THEN latest[i] + 1 ELSE latest[i]]
    /\ pending' = [i \in Ids |-> IF i \in S THEN latest[i] + 1 ELSE pending[i]]
    /\ timer' = TRUE
    /\ UNCHANGED <<saved, call, waiting, inFlight, quit, due>>

\* Mutant: a flush does not wait for the save in flight.
FlushWithoutWaiting(c, why) ==
    /\ call[c].pc = "idle" /\ pending # Nothing
    /\ timer' = FALSE
    /\ call' = [call EXCEPT ![c] = [NoCall EXCEPT !.pc = "save", !.why = why,
                                                 !.batch = pending]]
    /\ pending' = Nothing /\ inFlight' = c
    /\ UNCHANGED <<latest, saved, waiting>>

\* The body of flush() up to its first await.
Flush(c, why) ==
    /\ call[c].pc = "idle"
    /\ timer' = FALSE
    /\ IF inFlight # None
       THEN /\ call' = [call EXCEPT ![c] = [NoCall EXCEPT !.pc = "wait", !.why = why]]
            /\ waiting' = Append(waiting, c)
            /\ UNCHANGED <<pending, inFlight>>
       ELSE IF pending = Nothing
       THEN UNCHANGED <<pending, call, waiting, inFlight>>
       ELSE /\ call' = [call EXCEPT ![c] = [NoCall EXCEPT !.pc = "save", !.why = why,
                                                          !.batch = pending]]
            /\ pending' = Nothing /\ inFlight' = c
            /\ UNCHANGED waiting
    /\ UNCHANGED <<latest, saved>>

TimerFires(c) == timer /\ quit # "exited" /\ Flush(c, "timer") /\ UNCHANGED <<quit, due>>

\* before-quit reaches its flush of this queue.
QuitFlush(c) ==
    /\ quit = "open"
    /\ Flush(c, "quit")
    /\ quit' = IF inFlight = None /\ pending = Nothing THEN "flushed" ELSE "flushing"
    /\ due' = latest

\* The calls after the save of c has settled.  With statuses pending, the call
\* "next" takes them at once; the other waiting calls find none and return.
Resume(c, next, batch) ==
    /\ call' = [d \in Callers |->
          IF d = next THEN [NoCall EXCEPT !.pc = "save", !.why = call[d].why,
                                          !.batch = batch]
          ELSE IF d = c \/ call[d].pc = "wait" THEN NoCall
          ELSE call[d]]
    /\ waiting' = <<>>
    /\ inFlight' = next
    /\ pending' = IF next = None THEN batch ELSE Nothing

QuitReturned(next) ==
    \E d \in Callers : d # next /\ call[d].why = "quit" /\ call[d].pc \in {"wait", "sync"}

\* saveInstallStatusIndex succeeds.
SaveSucceeds(c) ==
    /\ Saving(c) /\ quit # "exited"
    /\ saved' = Overlay(call[c].batch, saved)
    /\ call' = [call EXCEPT ![c].pc = "sync"]
    /\ UNCHANGED <<latest, pending, timer, waiting, inFlight, quit, due>>

\* Mutant: one attempt too many.
MayRetryOnceMore(c) == call[c].attempt <= MaxRetries

\* The loop over the attempts.
MayRetry(c) == call[c].attempt < MaxRetries

\* It fails with any part of the rows written (they go to one database per
\* root), and is retried.
Wrote(c) == saved' \in {[i \in Ids |-> IF i \in S /\ call[c].batch[i] # 0
                                       THEN call[c].batch[i] ELSE saved[i]] : S \in SUBSET Ids}

SaveRetries(c) ==
    /\ Saving(c) /\ quit # "exited" /\ MayRetry(c)
    /\ Wrote(c)
    /\ call' = [call EXCEPT ![c].attempt = @ + 1]
    /\ UNCHANGED <<latest, pending, timer, waiting, inFlight, quit, due>>

\* Mutant: the failed batch overwrites newer pending statuses.
MergeFailedOverNewer(batch) == Overlay(batch, pending)

\* Mutant: the failed batch is dropped.
MergeFailedDropped(batch) == pending

\* mergeFailedBatch: a status scheduled meanwhile is newer than the failed one.
MergeFailedBatch(batch) == Overlay(pending, batch)

\* Mutant: a failed batch waits for the next schedule().
NoBackgroundRetry == UNCHANGED timer

\* scheduleTimer(BACKGROUND_RETRY_DELAY_MS): set, unless one is set already.
BackgroundRetry == timer' = TRUE

\* The last attempt fails: the batch is pending again under the background
\* timer, the owner's flush rejects and the first waiting call saves anew.
SaveFails(c) ==
    /\ Saving(c) /\ quit # "exited" /\ ~MayRetry(c)
    /\ Wrote(c)
    /\ BackgroundRetry
    /\ Resume(c, IF waiting = <<>> THEN None ELSE Head(waiting),
              MergeFailedBatch(call[c].batch))
    /\ quit' = IF call[c].why = "quit" THEN "asking"
               ELSE IF QuitReturned(inFlight') THEN "flushed" ELSE quit
    /\ UNCHANGED <<latest, due>>

\* The merged index is synchronised (or that fails, which is only logged) and
\* the save settles: its owner runs the follow-up flush if there is more.
SyncEnds(c) ==
    /\ call[c].pc = "sync" /\ quit # "exited"
    /\ IF pending = Nothing THEN Resume(c, None, Nothing) /\ UNCHANGED timer
       ELSE Resume(c, c, pending) /\ timer' = FALSE
    /\ quit' = IF QuitReturned(inFlight') THEN "flushed" ELSE quit
    /\ UNCHANGED <<latest, saved, due>>

\* The dialog after a failed flush: back to the program, or exit nevertheless.
Answer ==
    /\ quit = "asking"
    /\ quit' \in {"open", "exited"}
    /\ due' = Nothing
    /\ UNCHANGED queue

Exit ==
    /\ quit = "flushed"
    /\ quit' = "exited"
    /\ UNCHANGED <<queue, due>>

Exited == quit = "exited" /\ UNCHANGED vars

SaveStep(c) == SaveSucceeds(c) \/ SaveRetries(c) \/ SaveFails(c) \/ SyncEnds(c)

Next ==
    \/ \E S \in SUBSET Ids : Schedule(S)
    \/ \E c \in Callers : TimerFires(c) \/ QuitFlush(c) \/ SaveStep(c)
    \/ Answer \/ Exit \/ Exited

Spec == Init /\ [][Next]_vars

\* Timers fire, saves end, and the database does not fail forever.
FairSpec ==
    /\ Spec
    /\ WF_vars(\E c \in Callers : TimerFires(c))
    /\ \A c \in Callers : WF_vars(SaveStep(c)) /\ SF_vars(SaveSucceeds(c))

-----------------------------------------------------------------------------
(* Properties.                                                             *)

TypeOK ==
    /\ latest \in [Ids -> Versions] /\ pending \in [Ids -> Versions]
    /\ saved \in [Ids -> Versions] /\ due \in [Ids -> Versions]
    /\ timer \in BOOLEAN
    /\ call \in [Callers -> [pc: {"idle", "wait", "save", "sync"}, why: {"timer", "quit"},
                             batch: [Ids -> Versions], attempt: 0..MaxRetries]]
    /\ waiting \in Seq(Callers)
    /\ inFlight \in Callers \cup {None}
    /\ quit \in {"open", "flushing", "asking", "flushed", "exited"}

\* At most one save runs, and it is the one saveInFlight points to: two would
\* race on the database.
OneSaveInFlight ==
    \A c \in Callers : call[c].pc \in {"save", "sync"} <=> inFlight = c

\* The newest status of every font is in the database, on its way there or
\* pending, whatever fails and however calls overlap.
NewestNeverLost ==
    \A i \in Ids : latest[i] \in {saved[i], pending[i]}
                       \cup {call[c].batch[i] : c \in {d \in Callers : Saving(d)}}

\* Nothing pending is forgotten: a timer is set, or a save is in flight whose
\* end takes the pending statuses or sets one.
PendingIsScheduled == pending # Nothing => timer \/ inFlight # None

\* The queue's writes never take the database back to an older status of a font.
NoStatusRegression == [][\A i \in Ids : saved'[i] >= saved[i]]_vars

\* Every scheduled status, or a newer one, reaches the database unless the
\* program exits first.
EventuallySaved ==
    \A i \in Ids : \A v \in 1..MaxVersions :
        latest[i] >= v ~> (saved[i] >= v \/ quit = "exited")

\* RELEASE_NOTES.md:68: before exiting, the queue completes its final flush; a
\* flush that resolves lets quit go on to stop the database services.
QuitFlushCompletes == quit = "flushed" => \A i \in Ids : saved[i] >= due[i]
=============================================================================
