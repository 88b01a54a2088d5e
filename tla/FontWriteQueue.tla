--------------------------- MODULE FontWriteQueue ---------------------------
(***************************************************************************)
(* The renderer's write queue of font metadata (fontWriteQueue.ts,         *)
(* fontWriteQueueRuntime.ts under renderer/src) and the closing of the     *)
(* window, which waits for it (useAppFlushOnUnloadRuntime.ts there,        *)
(* main/app/windowRuntime.ts).                                             *)
(*                                                                         *)
(* Every edit appears in the window at once and is queued.  The queue has  *)
(* one entry per kind of metadata and font, its newest; a flush takes the  *)
(* whole queue as a pass and writes it kind by kind, one call of the main  *)
(* process after the other.  Metadata of a font is a set of marks: its     *)
(* tags, or one Flag that is there or not.  The continuation of an await   *)
(* runs to the next await without another event in between, so the answer  *)
(* to the last call of a pass and what the flush does next are one step,   *)
(* and all callers that wait for a flush are answered in it.               *)
(***************************************************************************)
EXTENDS Naturals, FiniteSets

CONSTANTS
    Fonts,
    Tags,
    Flag,               \* the mark of a favorite or protected font
    Kinds,              \* the kinds of metadata an instance has
    None,               \* no entry
    ForegroundRetries,  \* FOREGROUND_RETRY_DELAYS_MS has 3
    MaxEdits,           \* bound: edits by the user
    MaxCloses           \* bound: close requests

TagKinds == {"local", "shared"}
AllKinds == TagKinds \cup {"favorite", "protection"}

ASSUME KindsAssumption == Kinds \subseteq AllKinds
ASSUME BoundsAssumption ==
    ForegroundRetries \in Nat /\ MaxEdits \in Nat /\ MaxCloses \in Nat

VARIABLES
    view,        \* the library the window shows
    stored,      \* the databases behind the calls
    asked,       \* what the user's edits make of a cell
    edits,       \* count of edits
    queue,       \* queueRef
    pass,        \* entries of the running pass that are not answered
    again,       \* its retryQueue
    phase,       \* of the running flush: idle, writing, pausing
    retries,     \* foregroundRetryIndex
    timer,       \* timerRef is set
    retryTimer,  \* retryTimerRef is set
    soon,        \* a flush is set for the next turn of the event loop
    handler,     \* close request -> what the renderer does about it
    request,     \* pendingCloseFlushes: the request that is pending, or 0
    requests,    \* nextCloseFlushRequestId
    closeTimer,  \* its timeout is set
    dialogs,     \* open "not everything is saved" dialogs
    window       \* open, closed

library == <<view, stored, asked, edits>>
flush == <<queue, pass, again, phase, retries, timer, retryTimer, soon>>
closing == <<handler, request, requests, closeTimer, dialogs, window>>
vars == <<library, flush, closing>>

Cells == Kinds \X Fonts
KindOf(c) == c[1]
Marks == Tags \cup {Flag}
MarksOf(k) == IF k \in TagKinds THEN Tags ELSE {Flag}
Requests == 1..MaxCloses

\* An edit: the value it leaves, and the intent "add" or "remove" of a mark.
Entry == [value: SUBSET Marks, mode: {"add", "remove"}, mark: Marks]
Nothing == [c \in Cells |-> None]

ASSUME NoneAssumption == None \notin Entry

Init ==
    /\ view = [c \in Cells |-> {}] /\ stored = view /\ asked = view /\ edits = 0
    /\ queue = Nothing /\ pass = Nothing /\ again = Nothing
    /\ phase = "idle" /\ retries = 0
    /\ timer = FALSE /\ retryTimer = FALSE /\ soon = FALSE
    /\ handler = [r \in Requests |-> "none"]
    /\ request = 0 /\ requests = 0 /\ closeTimer = FALSE
    /\ dialogs = {} /\ window = "open"

-----------------------------------------------------------------------------
(* flush() and the queueing of an edit.                                    *)

\* A pass takes the whole queue.
Take(q) ==
    /\ pass' = q /\ queue' = Nothing /\ again' = Nothing
    /\ phase' = "writing"

\* flush() up to its first await, q being the queue: a call made while a flush
\* is active only waits for it.
Flush(q) ==
    IF phase # "idle"
    THEN queue' = q /\ UNCHANGED <<pass, again, phase, retries, timer, retryTimer>>
    ELSE /\ timer' = FALSE /\ retryTimer' = FALSE
         /\ IF q = Nothing
            THEN queue' = q /\ UNCHANGED <<pass, again, phase, retries>>
            ELSE Take(q) /\ retries' = 0

\* scheduleFlush(): at once when there is much to write or memory is short,
\* else after a delay, unless a timer is set already.
ScheduleFlush(q) ==
    /\ queue' = q
    /\ \/ timer' = FALSE /\ retryTimer' = FALSE /\ soon' = TRUE
       \/ timer' = (timer \/ ~retryTimer) /\ UNCHANGED <<retryTimer, soon>>
    /\ UNCHANGED <<pass, again, phase, retries>>

Apply(mode, m, marks) == IF mode = "add" THEN marks \cup {m} ELSE marks \ {m}

\* The user adds or removes a tag, or toggles a favorite or the protection.
\* Shared tags are asked for one by one, what else a cell has as a whole.
Edit(c, m) ==
    LET mode == IF m \in view[c] THEN "remove" ELSE "add"
        value == Apply(mode, m, view[c])
        q == [queue EXCEPT ![c] = [value |-> value, mode |-> mode, mark |-> m]]
    IN  /\ window = "open" /\ edits < MaxEdits /\ m \in MarksOf(KindOf(c))
        /\ edits' = edits + 1
        /\ view' = [view EXCEPT ![c] = value]
        /\ asked' = [asked EXCEPT ![c] = IF KindOf(c) = "shared" THEN Apply(mode, m, @)
                                         ELSE value]
        /\ IF KindOf(c) \in TagKinds THEN Flush(q) /\ UNCHANGED soon ELSE ScheduleFlush(q)
        /\ UNCHANGED <<stored, closing>>

\* The window loads the font from the database again: a tag edit is protected
\* from that for TAG_DIRTY_PROTECTION_MS, which a slow share outlasts, a
\* boolean is not.
Refresh(c) ==
    /\ window = "open" /\ view[c] # stored[c]
    /\ view' = [view EXCEPT ![c] = stored[c]]
    /\ UNCHANGED <<stored, asked, edits, flush, closing>>

WriteTimerFires ==
    /\ window = "open" /\ timer
    /\ IF phase = "idle" THEN Flush(queue)
       ELSE timer' = FALSE /\ UNCHANGED <<queue, pass, again, phase, retries, retryTimer>>
    /\ UNCHANGED <<soon, library, closing>>

RetryTimerFires ==
    /\ window = "open" /\ retryTimer
    /\ IF phase = "idle" THEN Flush(queue)
       ELSE retryTimer' = FALSE /\ UNCHANGED <<queue, pass, again, phase, retries, timer>>
    /\ UNCHANGED <<soon, library, closing>>

SoonFires ==
    /\ window = "open" /\ soon
    /\ soon' = FALSE /\ Flush(queue)
    /\ UNCHANGED <<library, closing>>

-----------------------------------------------------------------------------
(* The calls of a pass.                                                    *)

Rank == [local |-> 1, shared |-> 2, favorite |-> 3, protection |-> 4]
Unanswered(k) == {c \in Cells : KindOf(c) = k /\ pass[c] # None}

\* The kind whose entries are written next, and the entries of its next call:
\* all of a tag kind, those with the same value of a boolean one.
NextKind(k) ==
    /\ Unanswered(k) # {}
    /\ \A j \in Kinds : Unanswered(j) # {} => Rank[k] <= Rank[j]

Calls(k) ==
    IF k \in TagKinds THEN {Unanswered(k)}
    ELSE {{c \in Unanswered(k) : pass[c].value = v} : v \in SUBSET {Flag}} \ {{}}

\* What a call writes: shared tags follow the intent of the entry, applied to
\* the tags the database has; the other kinds take its value.
Written(c) ==
    IF KindOf(c) = "shared" THEN Apply(pass[c].mode, pass[c].mark, stored[c])
    ELSE pass[c].value

\* Mutant: a failed entry is put back over a newer one.
MergeOlder(q, failed) == [c \in Cells |-> IF failed[c] # None THEN failed[c] ELSE q[c]]

\* mergeQueuedFontWritesPreservingNewer.
MergePreservingNewer(q, failed) == [c \in Cells |-> IF q[c] # None THEN q[c] ELSE failed[c]]

\* Mutant: one pause too many.
MayPauseOnceMore == retries <= ForegroundRetries

MayPause == retries < ForegroundRetries

\* Mutant: a failed flush leaves its entries to the next edit.
NoBackgroundRetry == UNCHANGED retryTimer

\* scheduleBackgroundRetry: set, unless it is set already.
BackgroundRetry == retryTimer' = TRUE

\* Mutant: a flush that gives up is taken for a saved one.
AnswerAllSaved(saved) ==
    handler' = [r \in Requests |-> IF handler[r] = "waiting" THEN "saved" ELSE handler[r]]

\* The promise of the flush resolves: its caller and those who waited for it
\* have the answer.
AnswerCallers(saved) ==
    handler' = [r \in Requests |-> IF handler[r] # "waiting" THEN handler[r]
                                   ELSE IF saved THEN "saved" ELSE "failed"]

\* Some entries of the pass failed and go back into the queue.
PassFailed(failed) ==
    /\ queue' = MergePreservingNewer(queue, failed)
    /\ pass' = Nothing /\ again' = Nothing
    /\ IF MayPause
       THEN phase' = "pausing" /\ retries' = retries + 1 /\ UNCHANGED <<retryTimer, handler>>
       ELSE phase' = "idle" /\ BackgroundRetry /\ AnswerCallers(FALSE) /\ UNCHANGED retries

\* All were written: the flush goes on with what was queued meanwhile.
PassSaved ==
    /\ retries' = 0
    /\ IF queue # Nothing
       THEN Take(queue) /\ UNCHANGED handler
       ELSE /\ phase' = "idle" /\ pass' = Nothing
            /\ AnswerCallers(TRUE) /\ UNCHANGED <<queue, again>>
    /\ UNCHANGED retryTimer

\* A call is answered.  It names the entries that failed, or throws; an entry
\* may have been written although it is reported as failed.
Answer(S, failed, landed) ==
    LET rest == [c \in Cells |-> IF c \in S THEN None ELSE pass[c]]
        back == [c \in Cells |-> IF c \in failed THEN pass[c] ELSE again[c]]
    IN  /\ window = "open" /\ phase = "writing"
        /\ stored' = [c \in Cells |-> IF c \in (S \ failed) \cup landed
                                      THEN Written(c) ELSE stored[c]]
        /\ IF rest # Nothing
           THEN /\ pass' = rest /\ again' = back
                /\ UNCHANGED <<queue, phase, retries, retryTimer, handler>>
           ELSE IF back # Nothing THEN PassFailed(back) ELSE PassSaved
        /\ UNCHANGED <<view, asked, edits, timer, soon, request, requests,
                       closeTimer, dialogs, window>>

\* The pause after a failed pass is over: the loop takes the queue again.
PauseOver ==
    /\ window = "open" /\ phase = "pausing"
    /\ Take(queue)
    /\ UNCHANGED <<retries, timer, retryTimer, soon, library, closing>>

-----------------------------------------------------------------------------
(* Closing the window.                                                     *)

\* The first attempt asks the renderer to flush; another one made while that
\* request is pending changes nothing.
RequestClose ==
    /\ window = "open" /\ request = 0 /\ requests < MaxCloses
    /\ requests' = requests + 1 /\ request' = requests + 1
    /\ closeTimer' = TRUE
    /\ handler' = [handler EXCEPT ![requests + 1] = "sent"]
    /\ UNCHANGED <<dialogs, window, library, flush>>

\* flushApplicationState: the timers are cleared and the queue is flushed.
BeginCloseFlush(r) ==
    /\ window = "open" /\ handler[r] = "sent"
    /\ timer' = FALSE /\ retryTimer' = FALSE
    /\ IF phase = "idle" /\ queue # Nothing
       THEN Take(queue) /\ retries' = 0
       ELSE UNCHANGED <<queue, pass, again, phase, retries>>
    /\ handler' = [handler EXCEPT ![r] = IF phase = "idle" /\ queue = Nothing
                                         THEN "saved" ELSE "waiting"]
    /\ UNCHANGED <<soon, library, request, requests, closeTimer, dialogs, window>>

\* completePendingWindowClose: an answer to a request that is no longer pending
\* is ignored; the window closes if all is saved, else the user is asked.
CompleteClose(r, saved, why) ==
    IF request # r THEN UNCHANGED <<request, closeTimer, dialogs, window>>
    ELSE /\ closeTimer' = FALSE
         /\ IF saved
            THEN window' = "closed" /\ request' = 0 /\ dialogs' = {}
            ELSE dialogs' = dialogs \cup {<<r, why>>} /\ UNCHANGED <<request, window>>

\* The library is saved too, or not, and the renderer acknowledges.
Acknowledge(r) ==
    /\ window = "open" /\ handler[r] \in {"saved", "failed"}
    /\ handler' = [handler EXCEPT ![r] = "done"]
    /\ \E librarySaved \in BOOLEAN :
          CompleteClose(r, handler[r] = "saved" /\ librarySaved, "ack")
    /\ UNCHANGED <<requests, library, flush>>

CloseTimesOut ==
    /\ window = "open" /\ closeTimer
    /\ CompleteClose(request, FALSE, "timeout")
    /\ UNCHANGED <<handler, requests, library, flush>>

\* Mutant: back to the program, but the request stays pending.
ReturnKeepsRequest(d) ==
    /\ dialogs' = dialogs \ {d}
    /\ UNCHANGED <<request, window>>

\* "返回软件": the request is over, the flush goes on.
Return(d) ==
    /\ dialogs' = dialogs \ {d}
    /\ request' = IF request = d[1] THEN 0 ELSE request
    /\ UNCHANGED window

\* "仍然关闭".
CloseAnyway == window' = "closed" /\ request' = 0 /\ dialogs' = {}

AnswerDialog(d) ==
    /\ window = "open" /\ d \in dialogs
    /\ Return(d) \/ CloseAnyway
    /\ UNCHANGED <<handler, requests, closeTimer, library, flush>>

Dialogs == Requests \X {"ack", "timeout"}

-----------------------------------------------------------------------------
AnswerSome(k) ==
    NextKind(k) /\ \E S \in Calls(k) : \E failed \in SUBSET S : \E landed \in SUBSET failed :
        Answer(S, failed, landed)

AnswerWell(k) == NextKind(k) /\ \E S \in Calls(k) : Answer(S, {}, {})

Next ==
    \/ \E c \in Cells : Refresh(c) \/ \E m \in Marks : Edit(c, m)
    \/ WriteTimerFires \/ RetryTimerFires \/ SoonFires
    \/ \E k \in Kinds : AnswerSome(k)
    \/ PauseOver
    \/ RequestClose \/ CloseTimesOut
    \/ \E r \in Requests : BeginCloseFlush(r) \/ Acknowledge(r)
    \/ \E d \in Dialogs : AnswerDialog(d)

Spec == Init /\ [][Next]_vars

\* The event loop goes on: timers fire, messages are handled.  Calls are answered
\* and do not fail forever, and the user answers a dialog.
FairSpec ==
    /\ Spec
    /\ WF_vars(WriteTimerFires \/ RetryTimerFires \/ SoonFires \/ PauseOver)
    /\ WF_vars(\E r \in Requests : BeginCloseFlush(r) \/ Acknowledge(r))
    /\ WF_vars(CloseTimesOut)
    /\ WF_vars(\E k \in Kinds : AnswerSome(k))
    /\ \A k \in Kinds : SF_vars(AnswerWell(k))
    /\ WF_vars(\E d \in Dialogs : AnswerDialog(d))

-----------------------------------------------------------------------------
(* Properties.                                                             *)

Entries == [Cells -> Entry \cup {None}]

TypeOK ==
    /\ view \in [Cells -> SUBSET Marks] /\ stored \in [Cells -> SUBSET Marks]
    /\ asked \in [Cells -> SUBSET Marks] /\ edits \in 0..MaxEdits
    /\ queue \in Entries /\ pass \in Entries /\ again \in Entries
    /\ phase \in {"idle", "writing", "pausing"} /\ retries \in 0..ForegroundRetries
    /\ timer \in BOOLEAN /\ retryTimer \in BOOLEAN /\ soon \in BOOLEAN
    /\ handler \in [Requests -> {"none", "sent", "waiting", "saved", "failed", "done"}]
    /\ request \in 0..MaxCloses /\ requests \in 0..MaxCloses
    /\ closeTimer \in BOOLEAN /\ dialogs \in SUBSET Dialogs
    /\ window \in {"open", "closed"}

\* The newest entry of a cell on its way to the database.
Newest(c) ==
    IF queue[c] # None THEN queue[c] ELSE IF pass[c] # None THEN pass[c] ELSE again[c]

Unsaved(c) == Newest(c) # None

\* RELEASE_NOTES.md:118, of local tags, favorites and protection: a failed entry
\* does not cover what the user did meanwhile.  The value the user gave last is in
\* the database, or is the newest entry on its way there, whatever fails, is
\* retried or is queued while a pass runs.
LastEditKept ==
    \A c \in Cells : KindOf(c) # "shared" =>
        asked[c] = IF Unsaved(c) THEN Newest(c).value ELSE stored[c]

\* RELEASE_NOTES.md:119: closing takes no partial failure for success.  When a
\* flush made for a close request is answered "saved", nothing is queued and
\* nothing is in flight, of any kind, whoever started that flush.
SavedAnswerIsTrue ==
    [][\A r \in Requests : handler[r] # "saved" /\ handler'[r] = "saved"
           => \A c \in Cells : ~Unsaved(c)']_vars

\* Every edit, or a newer one of the same cell, is written by a call that does
\* not fail, unless the window closes first.
EventuallySaved ==
    \A c \in Cells : Unsaved(c) ~> (~Unsaved(c) \/ window = "closed")

\* A close request ends - the window closes or the user goes back to it - even
\* when the flush takes for ever or its answer races the timeout
\* (RELEASE_NOTES.md:121): while one is pending, further attempts are ignored.
CloseRequestEnds == request # 0 ~> request = 0

\* RELEASE_NOTES.md:117: a write that failed, of a shared tag too, is no longer
\* removed from the queue without being retried.  So with nothing left to write
\* a font has the shared tags that were added and not removed since.
SharedTagsKept ==
    (\A d \in Cells : ~Unsaved(d)) =>
        \A c \in Cells : KindOf(c) = "shared" => stored[c] = asked[c]
=============================================================================
