----------------------- MODULE FontWriteQueueProofs ------------------------
(***************************************************************************)
(* Proofs about FontWriteQueue, for any fonts, tags, kinds, retries, edits *)
(* and close requests.  What the user asked for is never lost because an   *)
(* entry is in one place of the running flush at a time and outside of a   *)
(* flush in the queue only (Placed): it leaves the pass for the database   *)
(* or for the retry queue, and that for the queue unless a newer one is    *)
(* there.                                                                  *)
(***************************************************************************)
EXTENDS FontWriteQueue, TLAPS

Placed ==
    /\ phase # "writing" => pass = Nothing /\ again = Nothing
    /\ \A c \in Cells : pass[c] # None => again[c] = None

IInv == TypeOK /\ Placed /\ LastEditKept

-----------------------------------------------------------------------------
LEMMA NothingType == Nothing \in Entries /\ \A c \in Cells : Nothing[c] = None
  BY DEF Nothing, Entries

LEMMA MergeType ==
    ASSUME NEW q \in Entries, NEW failed \in Entries
    PROVE  /\ MergePreservingNewer(q, failed) \in Entries
           /\ \A c \in Cells : MergePreservingNewer(q, failed)[c] =
                                  IF q[c] # None THEN q[c] ELSE failed[c]
  BY DEF MergePreservingNewer, Entries

\* An answered call: what is left of the pass, and what failed of it.
Rest(S) == [c \in Cells |-> IF c \in S THEN None ELSE pass[c]]
Back(failed) == [c \in Cells |-> IF c \in failed THEN pass[c] ELSE again[c]]

LEMMA AnswerTypes ==
    ASSUME TypeOK, NEW S \in SUBSET Cells, NEW failed \in SUBSET S
    PROVE  Rest(S) \in Entries /\ Back(failed) \in Entries
  BY DEF TypeOK, Entries, Rest, Back

LEMMA CallsArePending ==
    ASSUME NEW k, NEW S \in Calls(k)
    PROVE  S \in SUBSET Cells /\ \A c \in S : pass[c] # None
  BY DEF Calls, Unanswered

LEMMA WrittenType ==
    ASSUME TypeOK, NEW c \in Cells, pass[c] # None PROVE Written(c) \in SUBSET Marks
  BY DEF TypeOK, Entries, Entry, Written, Apply

LEMMA WrittenValue ==
    ASSUME NEW c, KindOf(c) # "shared" PROVE Written(c) = pass[c].value
  BY DEF Written

-----------------------------------------------------------------------------
(* The queue and the running flush.                                        *)

NewestIn(q, c) == IF q[c] # None THEN q[c] ELSE IF pass[c] # None THEN pass[c] ELSE again[c]

FlushTypes ==
    /\ queue \in Entries /\ pass \in Entries /\ again \in Entries
    /\ phase \in {"idle", "writing", "pausing"} /\ retries \in 0..ForegroundRetries
    /\ timer \in BOOLEAN /\ retryTimer \in BOOLEAN

LEMMA TakeKeeps ==
    ASSUME pass = Nothing, again = Nothing, NEW q \in Entries, Take(q)
    PROVE  /\ queue' \in Entries /\ pass' \in Entries /\ again' \in Entries
           /\ phase' = "writing" /\ Placed'
           /\ \A c \in Cells : Newest(c)' = NewestIn(q, c)
  BY NothingType DEF Take, Placed, Newest, NewestIn

LEMMA FlushKeeps ==
    ASSUME TypeOK, Placed, NEW q \in Entries, Flush(q)
    PROVE  FlushTypes' /\ Placed' /\ \A c \in Cells : Newest(c)' = NewestIn(q, c)
<1>1. CASE phase # "idle"
  BY <1>1 DEF Flush, TypeOK, FlushTypes, Placed, Newest, NewestIn
<1>2. CASE phase = "idle" /\ q = Nothing
  BY <1>2 DEF Flush, TypeOK, FlushTypes, Placed, Newest, NewestIn
<1>3. CASE phase = "idle" /\ q # Nothing
  <2>1. Take(q) /\ retries' = 0 /\ timer' = FALSE /\ retryTimer' = FALSE
    BY <1>3 DEF Flush
  <2>2. pass = Nothing /\ again = Nothing
    BY <1>3 DEF Placed
  <2>3. 0 \in 0..ForegroundRetries
    BY BoundsAssumption
  <2> QED BY <2>1, <2>2, <2>3, TakeKeeps DEF FlushTypes
<1> QED BY <1>1, <1>2, <1>3

LEMMA ScheduleKeeps ==
    ASSUME TypeOK, Placed, NEW q \in Entries, ScheduleFlush(q)
    PROVE  /\ FlushTypes' /\ Placed' /\ soon' \in BOOLEAN
           /\ \A c \in Cells : Newest(c)' = NewestIn(q, c)
  BY DEF ScheduleFlush, TypeOK, FlushTypes, Placed, Newest, NewestIn

-----------------------------------------------------------------------------
LEMMA EditKeeps ==
    ASSUME IInv, NEW c \in Cells, NEW m \in Marks, Edit(c, m) PROVE IInv'
<1> DEFINE mode == IF m \in view[c] THEN "remove" ELSE "add"
           value == Apply(mode, m, view[c])
           e == [value |-> value, mode |-> mode, mark |-> m]
           q == [queue EXCEPT ![c] = e]
<1>1. value \in SUBSET Marks /\ mode \in {"add", "remove"}
  BY DEF IInv, TypeOK, Apply
<1>2. e \in Entry /\ e # None
  BY <1>1, NoneAssumption DEF Entry
<1>3. q \in Entries
  BY <1>2 DEF IInv, TypeOK, Entries
<1>4. /\ edits < MaxEdits /\ edits' = edits + 1
      /\ view' = [view EXCEPT ![c] = value]
      /\ asked' = [asked EXCEPT ![c] = IF KindOf(c) = "shared" THEN Apply(mode, m, @) ELSE value]
      /\ IF KindOf(c) \in TagKinds THEN Flush(q) /\ UNCHANGED soon ELSE ScheduleFlush(q)
      /\ UNCHANGED <<stored, closing>>
  BY DEF Edit
<1> HIDE DEF mode, value, e, q
<1>5. /\ FlushTypes' /\ Placed' /\ soon' \in BOOLEAN
      /\ \A d \in Cells : Newest(d)' = NewestIn(q, d)
  BY <1>3, <1>4, FlushKeeps, ScheduleKeeps DEF IInv, TypeOK
<1>6. Apply(mode, m, asked[c]) \in SUBSET Marks
  BY DEF IInv, TypeOK, Apply
<1>7. /\ edits' \in 0..MaxEdits /\ view' \in [Cells -> SUBSET Marks]
      /\ asked' \in [Cells -> SUBSET Marks]
  BY <1>1, <1>4, <1>6, BoundsAssumption DEF IInv, TypeOK
<1>8. TypeOK'
  BY <1>4, <1>5, <1>7 DEF IInv, TypeOK, FlushTypes, closing
<1>9. LastEditKept'
  <2> SUFFICES ASSUME NEW d \in Cells, KindOf(d) # "shared"
               PROVE  asked'[d] = IF Newest(d)' # None THEN Newest(d)'.value ELSE stored'[d]
    BY DEF LastEditKept, Unsaved
  <2>1. CASE d = c
    <3>1. Newest(d)' = e
      BY <1>2, <1>5, <2>1 DEF NewestIn, q, IInv, TypeOK, Entries
    <3>2. asked'[d] = value
      BY <1>4, <2>1 DEF IInv, TypeOK
    <3> QED BY <3>1, <3>2, <1>2 DEF e
  <2>2. CASE d # c
    <3>1. Newest(d)' = Newest(d)
      BY <1>5, <2>2 DEF NewestIn, Newest, q, IInv, TypeOK, Entries
    <3>2. asked'[d] = asked[d] /\ stored' = stored
      BY <1>4, <2>2 DEF IInv, TypeOK
    <3> QED BY <3>1, <3>2 DEF IInv, LastEditKept, Unsaved
  <2> QED BY <2>1, <2>2
<1> QED BY <1>5, <1>8, <1>9 DEF IInv

\* A step that only moves entries between queue, pass and retry queue.
LEMMA LibraryStays ==
    ASSUME LastEditKept, UNCHANGED <<stored, asked>>, \A c \in Cells : Newest(c)' = Newest(c)
    PROVE  LastEditKept'
  BY DEF LastEditKept, Unsaved

LEMMA FlushQueueKeeps ==
    ASSUME IInv, Flush(queue), soon' \in BOOLEAN, UNCHANGED <<library, closing>> PROVE IInv'
<1>1. queue \in Entries
  BY DEF IInv, TypeOK
<1>2. FlushTypes' /\ Placed' /\ \A c \in Cells : Newest(c)' = NewestIn(queue, c)
  BY <1>1, FlushKeeps DEF IInv
<1>3. \A c \in Cells : Newest(c)' = Newest(c)
  BY <1>2 DEF NewestIn, Newest
<1>4. TypeOK'
  BY <1>2 DEF IInv, TypeOK, FlushTypes, library, closing
<1>5. LastEditKept'
  BY <1>3, LibraryStays DEF IInv, library
<1> QED BY <1>2, <1>4, <1>5 DEF IInv

LEMMA TimersKeep ==
    ASSUME IInv, WriteTimerFires \/ RetryTimerFires \/ SoonFires PROVE IInv'
<1>1. UNCHANGED <<library, closing>> /\ soon' \in BOOLEAN
  BY DEF WriteTimerFires, RetryTimerFires, SoonFires, IInv, TypeOK
<1>2. CASE Flush(queue)
  BY <1>1, <1>2, FlushQueueKeeps
<1>3. CASE ~Flush(queue)
  <2>1. UNCHANGED <<queue, pass, again, phase, retries>> /\ timer' \in BOOLEAN /\ retryTimer' \in BOOLEAN
    <3>1. CASE WriteTimerFires
      BY <1>3, <3>1 DEF WriteTimerFires, IInv, TypeOK
    <3>2. CASE RetryTimerFires
      BY <1>3, <3>2 DEF RetryTimerFires, IInv, TypeOK
    <3>3. CASE SoonFires
      BY <1>3, <3>3 DEF SoonFires
    <3> QED BY <3>1, <3>2, <3>3
  <2>2. \A c \in Cells : Newest(c)' = Newest(c)
    BY <2>1 DEF Newest
  <2>3. LastEditKept'
    BY <1>1, <2>2, LibraryStays DEF IInv, library
  <2>4. TypeOK' /\ Placed'
    BY <1>1, <2>1 DEF IInv, TypeOK, Placed, library, closing
  <2> QED BY <2>3, <2>4 DEF IInv
<1> QED BY <1>2, <1>3

LEMMA PauseKeeps == ASSUME IInv, PauseOver PROVE IInv'
<1>1. /\ Take(queue) /\ pass = Nothing /\ again = Nothing /\ queue \in Entries
      /\ UNCHANGED <<retries, timer, retryTimer, soon, library, closing>>
  BY DEF PauseOver, IInv, Placed, TypeOK
<1>2. /\ queue' \in Entries /\ pass' \in Entries /\ again' \in Entries
      /\ phase' = "writing" /\ Placed' /\ \A c \in Cells : Newest(c)' = NewestIn(queue, c)
  BY <1>1, TakeKeeps
<1>3. \A c \in Cells : Newest(c)' = Newest(c)
  BY <1>2 DEF NewestIn, Newest
<1>4. LastEditKept'
  BY <1>1, <1>3, LibraryStays DEF IInv, library
<1>5. TypeOK'
  BY <1>1, <1>2 DEF IInv, TypeOK, library, closing
<1> QED BY <1>2, <1>4, <1>5 DEF IInv

-----------------------------------------------------------------------------
(* The answer to a call.                                                   *)

Handlers == [Requests -> {"none", "sent", "waiting", "saved", "failed", "done"}]

LEMMA AnswerCallersType ==
    ASSUME NEW saved \in BOOLEAN, handler \in Handlers, AnswerCallers(saved)
    PROVE  handler' \in Handlers
  BY DEF AnswerCallers, Handlers

\* Where the entries are once the pass goes on or has ended, in terms of what
\* is left of the pass (rest) and what failed of it (back).
LEMMA PassGoesOn ==
    ASSUME TypeOK, NEW rest \in Entries, NEW back \in Entries, phase = "writing",
           \A c \in Cells : rest[c] # None => back[c] = None,
           IF rest # Nothing
           THEN /\ pass' = rest /\ again' = back
                /\ UNCHANGED <<queue, phase, retries, retryTimer, handler>>
           ELSE IF back # Nothing THEN PassFailed(back) ELSE PassSaved
    PROVE  /\ queue' \in Entries /\ pass' \in Entries /\ again' \in Entries
           /\ phase' \in {"idle", "writing", "pausing"} /\ retries' \in 0..ForegroundRetries
           /\ retryTimer' \in BOOLEAN /\ handler' \in Handlers
<1>1. CASE rest # Nothing
  BY <1>1 DEF TypeOK, Handlers
<1>2. CASE rest = Nothing /\ back # Nothing
  <2>1. PassFailed(back)
    BY <1>2
  <2>2. queue' \in Entries /\ pass' \in Entries /\ again' \in Entries
    BY <2>1, MergeType, NothingType DEF PassFailed, TypeOK
  <2>3. retries' \in 0..ForegroundRetries
    <3>1. retries \in 0..ForegroundRetries
      BY DEF TypeOK
    <3>2. CASE MayPause
      <4>1. retries' = retries + 1
        BY <2>1, <3>2 DEF PassFailed
      <4>2. retries < ForegroundRetries
        BY <3>2 DEF MayPause
      <4> QED BY <3>1, <4>1, <4>2, BoundsAssumption
    <3>3. CASE ~MayPause
      BY <2>1, <3>1, <3>3 DEF PassFailed
    <3> QED BY <3>2, <3>3
  <2>4. phase' \in {"idle", "writing", "pausing"} /\ retryTimer' \in BOOLEAN
    BY <2>1 DEF PassFailed, BackgroundRetry, TypeOK
  <2>5. handler' \in Handlers
    BY <2>1, AnswerCallersType DEF PassFailed, TypeOK, Handlers
  <2> QED BY <2>2, <2>3, <2>4, <2>5
<1>3. CASE rest = Nothing /\ back = Nothing
  <2>1. PassSaved
    BY <1>3
  <2>2. retries' \in 0..ForegroundRetries /\ retryTimer' \in BOOLEAN
    BY <2>1, BoundsAssumption DEF PassSaved, TypeOK
  <2>3. handler' \in Handlers
    BY <2>1, AnswerCallersType DEF PassSaved, TypeOK, Handlers
  <2>4. /\ queue' \in Entries /\ pass' \in Entries /\ again' \in Entries
        /\ phase' \in {"idle", "writing", "pausing"}
    BY <2>1, NothingType DEF PassSaved, Take, TypeOK
  <2> QED BY <2>2, <2>3, <2>4
<1> QED BY <1>1, <1>2, <1>3

\* A cell keeps its newest entry, in the queue first, then in the pass, then
\* among the failed ones.
LEMMA PassNewest ==
    ASSUME TypeOK, NEW rest \in Entries, NEW back \in Entries, phase = "writing",
           \A c \in Cells : rest[c] # None => back[c] = None,
           IF rest # Nothing
           THEN /\ pass' = rest /\ again' = back
                /\ UNCHANGED <<queue, phase, retries, retryTimer, handler>>
           ELSE IF back # Nothing THEN PassFailed(back) ELSE PassSaved,
           rest # Nothing \/ back # Nothing \/ again = Nothing
    PROVE  /\ Placed'
           /\ \A c \in Cells : Newest(c)' = IF queue[c] # None THEN queue[c]
                                           ELSE IF rest[c] # None THEN rest[c] ELSE back[c]
<1>1. CASE rest # Nothing
  BY <1>1 DEF Newest, Placed
<1>2. CASE rest = Nothing /\ back # Nothing
  <2>1. PassFailed(back)
    BY <1>2
  <2>2. queue' = MergePreservingNewer(queue, back) /\ pass' = Nothing /\ again' = Nothing
    BY <2>1 DEF PassFailed
  <2>3. phase' # "writing"
    BY <2>1 DEF PassFailed
  <2>4. Placed'
    BY <2>2, NothingType DEF Placed
  <2>5. \A c \in Cells : queue'[c] = IF queue[c] # None THEN queue[c] ELSE back[c]
    BY <2>2, MergeType DEF TypeOK
  <2>6. \A c \in Cells : Newest(c)' = IF queue'[c] # None THEN queue'[c] ELSE None
    BY <2>2, NothingType DEF Newest
  <2> QED BY <1>2, <2>4, <2>5, <2>6, NothingType
<1>3. CASE rest = Nothing /\ back = Nothing
  <2>1. PassSaved /\ again = Nothing
    BY <1>3
  <2>2. CASE queue # Nothing
    <3>1. Take(queue)
      BY <2>1, <2>2 DEF PassSaved
    <3>2. /\ pass' = queue /\ queue' = Nothing /\ again' = Nothing /\ phase' = "writing"
      BY <3>1 DEF Take
    <3> QED BY <1>3, <3>2, NothingType DEF Newest, Placed
  <2>3. CASE queue = Nothing
    <3>1. pass' = Nothing /\ again' = Nothing /\ queue' = Nothing
      BY <2>1, <2>3 DEF PassSaved
    <3> QED BY <1>3, <2>3, <3>1, NothingType DEF Newest, Placed
  <2> QED BY <2>2, <2>3
<1> QED BY <1>1, <1>2, <1>3

\* The parts of the step, with what is left of the pass and what failed.
LEMMA AnswerParts ==
    ASSUME IInv, NEW k \in Kinds, NEW S \in Calls(k), NEW failed \in SUBSET S,
           NEW landed \in SUBSET failed, Answer(S, failed, landed)
    PROVE  /\ S \in SUBSET Cells /\ \A c \in S : pass[c] # None
           /\ Rest(S) \in Entries /\ Back(failed) \in Entries
           /\ \A c \in Cells : Rest(S)[c] # None => Back(failed)[c] = None
           /\ IF Rest(S) # Nothing
              THEN /\ pass' = Rest(S) /\ again' = Back(failed)
                   /\ UNCHANGED <<queue, phase, retries, retryTimer, handler>>
              ELSE IF Back(failed) # Nothing THEN PassFailed(Back(failed)) ELSE PassSaved
           /\ Rest(S) # Nothing \/ Back(failed) # Nothing \/ again = Nothing
           /\ phase = "writing"
<1>1. S \in SUBSET Cells /\ \A c \in S : pass[c] # None
  BY CallsArePending
<1>2. failed \in SUBSET S /\ Rest(S) \in Entries /\ Back(failed) \in Entries
  BY <1>1, AnswerTypes DEF IInv
<1>3. \A c \in Cells : Rest(S)[c] # None => Back(failed)[c] = None
  BY <1>1 DEF Rest, Back, IInv, Placed
<1>4. /\ phase = "writing"
      /\ IF Rest(S) # Nothing
         THEN /\ pass' = Rest(S) /\ again' = Back(failed)
              /\ UNCHANGED <<queue, phase, retries, retryTimer, handler>>
         ELSE IF Back(failed) # Nothing THEN PassFailed(Back(failed)) ELSE PassSaved
  BY DEF Answer, Rest, Back
<1>5. ASSUME Back(failed) = Nothing PROVE again = Nothing
  <2>1. \A c \in Cells : Back(failed)[c] = None
    BY <1>5 DEF Nothing
  <2>2. \A c \in Cells : again[c] = None
    BY <1>1, <2>1 DEF Back
  <2> QED BY <2>2 DEF IInv, TypeOK, Entries, Nothing
<1> QED BY <1>1, <1>2, <1>3, <1>4, <1>5

LEMMA AnswerKeeps ==
    ASSUME IInv, NEW k \in Kinds, NEW S \in Calls(k), NEW failed \in SUBSET S,
           NEW landed \in SUBSET failed, Answer(S, failed, landed)
    PROVE  IInv'
<1> DEFINE rest == Rest(S)
           back == Back(failed)
<1>1. /\ S \in SUBSET Cells /\ \A c \in S : pass[c] # None
      /\ rest \in Entries /\ back \in Entries /\ phase = "writing"
      /\ \A c \in Cells : rest[c] # None => back[c] = None
      /\ IF rest # Nothing
         THEN /\ pass' = rest /\ again' = back
              /\ UNCHANGED <<queue, phase, retries, retryTimer, handler>>
         ELSE IF back # Nothing THEN PassFailed(back) ELSE PassSaved
      /\ rest # Nothing \/ back # Nothing \/ again = Nothing
  BY AnswerParts
<1>2. \A c \in Cells : rest[c] = IF c \in S THEN None ELSE pass[c]
  BY DEF Rest
<1>3. \A c \in Cells : back[c] = IF c \in failed THEN pass[c] ELSE again[c]
  BY DEF Back
<1>4. /\ stored' = [c \in Cells |-> IF c \in (S \ failed) \cup landed
                                   THEN Written(c) ELSE stored[c]]
      /\ UNCHANGED <<view, asked, edits, timer, soon, request, requests, closeTimer, dialogs, window>>
  BY DEF Answer
<1> HIDE DEF rest, back
<1>5. /\ queue' \in Entries /\ pass' \in Entries /\ again' \in Entries
      /\ phase' \in {"idle", "writing", "pausing"} /\ retries' \in 0..ForegroundRetries
      /\ retryTimer' \in BOOLEAN /\ handler' \in Handlers
  BY <1>1, PassGoesOn DEF IInv
<1>6. /\ Placed'
      /\ \A c \in Cells : Newest(c)' = IF queue[c] # None THEN queue[c]
                                      ELSE IF rest[c] # None THEN rest[c] ELSE back[c]
  BY <1>1, PassNewest DEF IInv
<1>7. stored' \in [Cells -> SUBSET Marks]
  <2>1. \A c \in (S \ failed) \cup landed : Written(c) \in SUBSET Marks
    BY <1>1, WrittenType DEF IInv
  <2> QED BY <1>4, <2>1 DEF IInv, TypeOK
<1>8. TypeOK'
  BY <1>4, <1>5, <1>7 DEF IInv, TypeOK, Handlers
<1>9. LastEditKept'
  <2> SUFFICES ASSUME NEW c \in Cells, KindOf(c) # "shared"
               PROVE  asked[c] = IF Newest(c)' # None THEN Newest(c)'.value ELSE stored'[c]
    BY <1>4 DEF LastEditKept, Unsaved
  <2>0. asked[c] = IF Newest(c) # None THEN Newest(c).value ELSE stored[c]
    BY DEF IInv, LastEditKept, Unsaved
  <2>1. CASE queue[c] # None
    BY <1>6, <2>0, <2>1 DEF Newest
  <2>2. CASE queue[c] = None /\ c \notin S
    <3>1. rest[c] = pass[c] /\ back[c] = again[c] /\ stored'[c] = stored[c]
      BY <1>2, <1>3, <1>4, <2>2
    <3> QED BY <1>6, <2>0, <2>2, <3>1 DEF Newest
  <2>3. CASE queue[c] = None /\ c \in S
    <3>1. pass[c] # None /\ again[c] = None /\ rest[c] = None
      BY <1>1, <1>2, <2>3 DEF IInv, Placed
    <3>2. asked[c] = pass[c].value
      BY <2>0, <2>3, <3>1 DEF Newest
    <3>3. CASE c \in failed
      BY <1>3, <1>6, <2>3, <3>1, <3>2, <3>3
    <3>4. CASE c \notin failed
      <4>1. stored'[c] = pass[c].value
        BY <1>4, <2>3, <3>4, WrittenValue
      <4>2. Newest(c)' = None
        BY <1>3, <1>6, <2>3, <3>1, <3>4
      <4> QED BY <3>2, <4>1, <4>2
    <3> QED BY <3>3, <3>4
  <2> QED BY <2>1, <2>2, <2>3
<1> QED BY <1>6, <1>8, <1>9 DEF IInv

-----------------------------------------------------------------------------
(* Closing, and the theorems.                                              *)

LEMMA BeginCloseKeeps ==
    ASSUME IInv, NEW r \in Requests, BeginCloseFlush(r) PROVE IInv'
<1>1. /\ UNCHANGED <<soon, library, request, requests, closeTimer, dialogs, window>>
      /\ timer' = FALSE /\ retryTimer' = FALSE /\ handler' \in Handlers
  BY DEF BeginCloseFlush, IInv, TypeOK, Handlers
<1>2. CASE phase = "idle" /\ queue # Nothing
  <2>1. Take(queue) /\ retries' = 0 /\ pass = Nothing /\ again = Nothing /\ queue \in Entries
    BY <1>2 DEF BeginCloseFlush, IInv, Placed, TypeOK
  <2>2. /\ queue' \in Entries /\ pass' \in Entries /\ again' \in Entries
        /\ phase' = "writing" /\ Placed' /\ \A c \in Cells : Newest(c)' = NewestIn(queue, c)
    BY <2>1, TakeKeeps
  <2>3. \A c \in Cells : Newest(c)' = Newest(c)
    BY <2>2 DEF NewestIn, Newest
  <2>4. retries' \in 0..ForegroundRetries
    BY <2>1, BoundsAssumption
  <2>5. TypeOK'
    BY <1>1, <2>2, <2>4 DEF IInv, TypeOK, library, Handlers
  <2> QED BY <1>1, <2>2, <2>3, <2>5, LibraryStays DEF IInv, library
<1>3. CASE ~(phase = "idle" /\ queue # Nothing)
  <2>1. UNCHANGED <<queue, pass, again, phase, retries>>
    BY <1>3 DEF BeginCloseFlush
  <2>2. \A c \in Cells : Newest(c)' = Newest(c)
    BY <2>1 DEF Newest
  <2>3. TypeOK' /\ Placed'
    BY <1>1, <2>1 DEF IInv, TypeOK, Placed, library, Handlers
  <2> QED BY <1>1, <2>2, <2>3, LibraryStays DEF IInv, library
<1> QED BY <1>2, <1>3

\* A step that touches neither the queue nor the databases.
LEMMA FlushStays ==
    ASSUME IInv, UNCHANGED <<flush, stored, asked>> PROVE Placed' /\ LastEditKept'
<1>1. \A c \in Cells : Newest(c)' = Newest(c)
  BY DEF flush, Newest
<1> QED BY <1>1, LibraryStays DEF IInv, Placed, flush

\* A request has a dialog only once its timer is off, and numbers grow: so the
\* timer is that of a pending request.
CloseOK ==
    /\ request <= requests
    /\ \A d \in dialogs : d[1] <= requests
    /\ closeTimer /\ window = "open" => request # 0 /\ \A d \in dialogs : d[1] # request

LEMMA CompleteCloseType ==
    ASSUME TypeOK, NEW r \in Requests, NEW saved \in BOOLEAN, NEW why \in {"ack", "timeout"},
           CompleteClose(r, saved, why)
    PROVE  /\ request' \in 0..MaxCloses /\ closeTimer' \in BOOLEAN
           /\ dialogs' \in SUBSET Dialogs /\ window' \in {"open", "closed"}
<1>1. CASE request # r
  BY <1>1 DEF CompleteClose, TypeOK
<1>2. CASE request = r /\ saved
  <2>1. 0 \in 0..MaxCloses
    BY BoundsAssumption
  <2>2. request' = 0 /\ closeTimer' = FALSE /\ dialogs' = {} /\ window' = "closed"
    BY <1>2 DEF CompleteClose
  <2> QED BY <2>1, <2>2
<1>3. CASE request = r /\ ~saved
  <2>1. <<r, why>> \in Dialogs
    BY DEF Dialogs
  <2> QED BY <1>3, <2>1 DEF CompleteClose, TypeOK
<1> QED BY <1>1, <1>2, <1>3

LEMMA CompleteCloseOK ==
    ASSUME TypeOK, CloseOK, NEW r \in Requests, NEW saved \in BOOLEAN, NEW why,
           CompleteClose(r, saved, why), UNCHANGED requests
    PROVE  CloseOK'
<1>1. CASE request # r
  BY <1>1 DEF CompleteClose, CloseOK
<1>2. CASE request = r /\ saved
  BY <1>2 DEF CompleteClose, CloseOK, TypeOK
<1>3. CASE request = r /\ ~saved
  <2>1. <<r, why>>[1] = r
    OBVIOUS
  <2> QED BY <1>3, <2>1 DEF CompleteClose, CloseOK
<1> QED BY <1>1, <1>2, <1>3

LEMMA RequestCloseKeeps ==
    ASSUME IInv, CloseOK, RequestClose PROVE IInv' /\ CloseOK'
<1>1. /\ requests \in 0..MaxCloses /\ requests < MaxCloses
      /\ requests' = requests + 1 /\ request' = requests + 1
      /\ handler' = [handler EXCEPT ![requests + 1] = "sent"]
      /\ closeTimer' = TRUE /\ UNCHANGED <<dialogs, window, library, flush>>
  BY DEF RequestClose, IInv, TypeOK
<1>2. requests' \in 0..MaxCloses /\ request' \in 0..MaxCloses /\ handler' \in Handlers
  <2>1. requests + 1 \in 0..MaxCloses
    BY <1>1, BoundsAssumption
  <2>2. handler \in Handlers
    BY DEF IInv, TypeOK, Handlers
  <2> QED BY <1>1, <2>1, <2>2 DEF Handlers
<1>3. TypeOK'
  BY <1>1, <1>2 DEF IInv, TypeOK, library, flush, Handlers
<1>4. Placed' /\ LastEditKept'
  BY <1>1, FlushStays DEF library
<1>5. CloseOK'
  <2>1. \A d \in dialogs : d[1] \in Nat
    BY DEF IInv, TypeOK, Dialogs, Requests
  <2> QED BY <1>1, <2>1 DEF CloseOK
<1> QED BY <1>3, <1>4, <1>5 DEF IInv

LEMMA AcknowledgeKeeps ==
    ASSUME IInv, CloseOK, NEW r \in Requests, Acknowledge(r) PROVE IInv' /\ CloseOK'
<1>1. PICK librarySaved \in BOOLEAN :
        CompleteClose(r, handler[r] = "saved" /\ librarySaved, "ack")
  BY DEF Acknowledge
<1>2. /\ handler' \in Handlers /\ UNCHANGED <<requests, library, flush>>
  BY DEF Acknowledge, IInv, TypeOK, Handlers
<1>3. (handler[r] = "saved" /\ librarySaved) \in BOOLEAN
  OBVIOUS
<1>4. /\ request' \in 0..MaxCloses /\ closeTimer' \in BOOLEAN
      /\ dialogs' \in SUBSET Dialogs /\ window' \in {"open", "closed"}
  BY <1>1, <1>3, CompleteCloseType DEF IInv
<1>5. CloseOK'
  BY <1>1, <1>2, <1>3, CompleteCloseOK DEF IInv
<1>6. TypeOK'
  BY <1>2, <1>4 DEF IInv, TypeOK, library, flush, Handlers
<1>7. Placed' /\ LastEditKept'
  BY <1>2, FlushStays DEF library
<1> QED BY <1>5, <1>6, <1>7 DEF IInv

LEMMA CloseTimesOutKeeps ==
    ASSUME IInv, CloseOK, CloseTimesOut PROVE IInv' /\ CloseOK'
<1>0. /\ CompleteClose(request, FALSE, "timeout") /\ request # 0
      /\ UNCHANGED <<handler, requests, library, flush>>
  BY DEF CloseTimesOut, CloseOK
<1>1. request \in Requests
  <2>1. request \in 0..MaxCloses
    BY DEF IInv, TypeOK
  <2> QED BY <1>0, <2>1, BoundsAssumption DEF Requests
<1>2. /\ request' \in 0..MaxCloses /\ closeTimer' \in BOOLEAN
      /\ dialogs' \in SUBSET Dialogs /\ window' \in {"open", "closed"}
  BY <1>0, <1>1, CompleteCloseType DEF IInv
<1>3. CloseOK'
  BY <1>0, <1>1, CompleteCloseOK DEF IInv
<1>4. TypeOK'
  BY <1>0, <1>2 DEF IInv, TypeOK, library, flush
<1>5. Placed' /\ LastEditKept'
  BY <1>0, FlushStays DEF library
<1> QED BY <1>3, <1>4, <1>5 DEF IInv

LEMMA AnswerDialogKeeps ==
    ASSUME IInv, CloseOK, NEW d \in Dialogs, AnswerDialog(d) PROVE IInv' /\ CloseOK'
<1>1. /\ d \in dialogs /\ (Return(d) \/ CloseAnyway)
      /\ UNCHANGED <<handler, requests, closeTimer, library, flush>>
  BY DEF AnswerDialog
<1>2. /\ request' \in {0, request} /\ dialogs' \in SUBSET dialogs
      /\ window' \in {window, "closed"}
  BY <1>1 DEF Return, CloseAnyway
<1>3. TypeOK'
  BY <1>1, <1>2, BoundsAssumption DEF IInv, TypeOK, library, flush
<1>4. Placed' /\ LastEditKept'
  BY <1>1, FlushStays DEF library
<1>5. request' <= requests
  BY <1>2 DEF IInv, TypeOK, CloseOK
<1>6. ASSUME closeTimer, window' = "open" PROVE request' = request
  BY <1>1, <1>6 DEF Return, CloseAnyway, CloseOK
<1>7. CloseOK'
  BY <1>1, <1>2, <1>5, <1>6 DEF CloseOK, Return, CloseAnyway
<1> QED BY <1>3, <1>4, <1>7 DEF IInv

LEMMA RefreshKeeps == ASSUME IInv, NEW c \in Cells, Refresh(c) PROVE IInv'
<1>1. /\ view' = [view EXCEPT ![c] = stored[c]]
      /\ UNCHANGED <<stored, asked, edits, flush, closing>>
  BY DEF Refresh
<1>2. TypeOK'
  BY <1>1 DEF IInv, TypeOK, flush, closing
<1>3. Placed' /\ LastEditKept'
  BY <1>1, FlushStays
<1> QED BY <1>2, <1>3 DEF IInv

-----------------------------------------------------------------------------
LEMMA InitKeeps == ASSUME Init PROVE IInv /\ CloseOK
<1>1. view \in [Cells -> SUBSET Marks] /\ handler \in Handlers
  BY DEF Init, Handlers
<1>2. TypeOK
  <2>1. 0 \in 0..MaxEdits /\ 0 \in 0..MaxCloses /\ 0 \in 0..ForegroundRetries
    BY BoundsAssumption
  <2>2. /\ view \in [Cells -> SUBSET Marks] /\ stored \in [Cells -> SUBSET Marks]
        /\ asked \in [Cells -> SUBSET Marks]
    BY <1>1 DEF Init
  <2>3. queue \in Entries /\ pass \in Entries /\ again \in Entries
    BY NothingType DEF Init
  <2> QED BY <1>1, <2>1, <2>2, <2>3 DEF Init, TypeOK, Handlers
<1>3. Placed
  BY NothingType DEF Init, Placed
<1>4. LastEditKept
  BY NothingType DEF Init, LastEditKept, Unsaved, Newest
<1>5. CloseOK
  BY DEF Init, CloseOK
<1> QED BY <1>2, <1>3, <1>4, <1>5 DEF IInv

\* The steps of the flush leave the closing of the window alone, except for
\* what the handlers of the close requests are told.
LEMMA ClosingStays ==
    ASSUME CloseOK, UNCHANGED <<request, requests, closeTimer, dialogs, window>> PROVE CloseOK'
  BY DEF CloseOK

LEMMA StepKeeps == ASSUME IInv, CloseOK, [Next]_vars PROVE IInv' /\ CloseOK'
<1>1. ASSUME NEW c \in Cells, Refresh(c) PROVE IInv' /\ CloseOK'
  BY <1>1, RefreshKeeps, ClosingStays DEF Refresh, closing
<1>2. ASSUME NEW c \in Cells, NEW m \in Marks, Edit(c, m) PROVE IInv' /\ CloseOK'
  BY <1>2, EditKeeps, ClosingStays DEF Edit, closing
<1>3. CASE WriteTimerFires \/ RetryTimerFires \/ SoonFires
  <2>1. UNCHANGED closing
    BY <1>3 DEF WriteTimerFires, RetryTimerFires, SoonFires
  <2> QED BY <1>3, <2>1, TimersKeep, ClosingStays DEF closing
<1>4. ASSUME NEW k \in Kinds, AnswerSome(k) PROVE IInv' /\ CloseOK'
  <2>0. PICK S \in Calls(k) : \E failed \in SUBSET S : \E landed \in SUBSET failed :
          Answer(S, failed, landed)
    BY <1>4 DEF AnswerSome
  <2>1. PICK failed \in SUBSET S : \E landed \in SUBSET failed : Answer(S, failed, landed)
    BY <2>0
  <2>2. PICK landed \in SUBSET failed : Answer(S, failed, landed)
    BY <2>1
  <2>3. UNCHANGED <<request, requests, closeTimer, dialogs, window>>
    BY <2>2 DEF Answer
  <2> QED BY <2>2, <2>3, AnswerKeeps, ClosingStays
<1>5. CASE PauseOver
  BY <1>5, PauseKeeps, ClosingStays DEF PauseOver, closing
<1>6. CASE RequestClose
  BY <1>6, RequestCloseKeeps
<1>7. CASE CloseTimesOut
  BY <1>7, CloseTimesOutKeeps
<1>8. ASSUME NEW r \in Requests, BeginCloseFlush(r) PROVE IInv' /\ CloseOK'
  BY <1>8, BeginCloseKeeps, ClosingStays DEF BeginCloseFlush
<1>9. ASSUME NEW r \in Requests, Acknowledge(r) PROVE IInv' /\ CloseOK'
  BY <1>9, AcknowledgeKeeps
<1>10. ASSUME NEW d \in Dialogs, AnswerDialog(d) PROVE IInv' /\ CloseOK'
  BY <1>10, AnswerDialogKeeps
<1>11. CASE UNCHANGED vars
  <2>1. UNCHANGED <<library, flush, closing>>
    BY <1>11 DEF vars
  <2>2. TypeOK'
    BY <2>1 DEF IInv, TypeOK, library, flush, closing
  <2>3. Placed' /\ LastEditKept' /\ CloseOK'
    BY <2>1, FlushStays, ClosingStays DEF library, closing
  <2> QED BY <2>2, <2>3 DEF IInv
<1> QED BY <1>1, <1>2, <1>3, <1>4, <1>5, <1>6, <1>7, <1>8, <1>9, <1>10, <1>11 DEF Next

LEMMA Invariant == Spec => [](IInv /\ CloseOK)
<1>1. Init => IInv /\ CloseOK
  BY InitKeeps
<1>2. (IInv /\ CloseOK) /\ [Next]_vars => (IInv /\ CloseOK)'
  BY StepKeeps
<1> QED BY <1>1, <1>2, PTL DEF Spec

\* Every variable has its type: no entry, count or answer is anything but what
\* the code puts there, and a pass never pauses more often than it may.
THEOREM TypeCorrect == Spec => []TypeOK
<1>1. IInv => TypeOK
  BY DEF IInv
<1> QED BY <1>1, Invariant, PTL

\* The user's last edit of a cell whose calls write its value is in the database
\* or on its way there (mergeQueuedFontWritesPreservingNewer, the retry queue).
THEOREM LastEditSafe == Spec => []LastEditKept
<1>1. IInv => LastEditKept
  BY DEF IInv
<1> QED BY <1>1, Invariant, PTL

-----------------------------------------------------------------------------
(* What a close request is told.                                           *)

LEMMA NothingUnsaved ==
    ASSUME queue = Nothing, pass = Nothing, again = Nothing
    PROVE  \A c \in Cells : ~Unsaved(c)
  BY NothingType DEF Unsaved, Newest

TruthOfAnswer ==
    \A r \in Requests : handler[r] # "saved" /\ handler'[r] = "saved"
        => \A c \in Cells : ~Unsaved(c)'

\* The only steps that may answer "saved" are the last one of a pass and the
\* request of a flush with nothing to do.
LEMMA BeginCloseTells ==
    ASSUME IInv, NEW r \in Requests, BeginCloseFlush(r) PROVE TruthOfAnswer
<1> SUFFICES ASSUME NEW s \in Requests, handler[s] # "saved", handler'[s] = "saved"
             PROVE  \A c \in Cells : ~Unsaved(c)'
  BY DEF TruthOfAnswer
<1>1. phase = "idle" /\ queue = Nothing
  BY DEF BeginCloseFlush, IInv, TypeOK
<1>2. UNCHANGED <<queue, pass, again>>
  BY <1>1 DEF BeginCloseFlush
<1>3. pass = Nothing /\ again = Nothing
  BY <1>1 DEF IInv, Placed
<1>4. \A c \in Cells : ~Unsaved(c)
  BY <1>1, <1>3, NothingUnsaved
<1> QED BY <1>2, <1>4 DEF Unsaved, Newest

LEMMA AnswerTells ==
    ASSUME IInv, NEW k \in Kinds, NEW S \in Calls(k), NEW failed \in SUBSET S,
           NEW landed \in SUBSET failed, Answer(S, failed, landed)
    PROVE  TruthOfAnswer
<1> SUFFICES ASSUME NEW r \in Requests, handler[r] # "saved", handler'[r] = "saved"
             PROVE  \A c \in Cells : ~Unsaved(c)'
  BY DEF TruthOfAnswer
<1>1. /\ IF Rest(S) # Nothing
         THEN /\ pass' = Rest(S) /\ again' = Back(failed)
              /\ UNCHANGED <<queue, phase, retries, retryTimer, handler>>
         ELSE IF Back(failed) # Nothing THEN PassFailed(Back(failed)) ELSE PassSaved
      /\ Rest(S) # Nothing \/ Back(failed) # Nothing \/ again = Nothing
  BY AnswerParts
<1>2. Rest(S) = Nothing /\ Back(failed) = Nothing
  <2>1. handler' # handler
    OBVIOUS
  <2>2. Rest(S) = Nothing
    BY <1>1, <2>1
  <2>3. ASSUME PassFailed(Back(failed)) PROVE FALSE
    <3>1. AnswerCallers(FALSE)
      BY <2>1, <2>3 DEF PassFailed
    <3> QED BY <3>1 DEF AnswerCallers
  <2> QED BY <1>1, <2>2, <2>3
<1>3. PassSaved /\ again = Nothing
  BY <1>1, <1>2
<1>4. queue' = Nothing /\ pass' = Nothing /\ again' = Nothing
  BY <1>3 DEF PassSaved
<1> QED BY <1>4, NothingType DEF Unsaved, Newest

\* A flush that is reported as saved to a close request has left nothing in the
\* queue and nothing in flight (completePendingWindowClose closes on it).
THEOREM SavedIsTrue == Spec => SavedAnswerIsTrue
<1>1. ASSUME IInv, [Next]_vars PROVE TruthOfAnswer
  <2>1. ASSUME UNCHANGED handler PROVE TruthOfAnswer
    BY <2>1 DEF TruthOfAnswer
  <2>2. ASSUME NEW c \in Cells, Refresh(c) PROVE TruthOfAnswer
    BY <2>1, <2>2 DEF Refresh, closing
  <2>3. ASSUME NEW c \in Cells, NEW m \in Marks, Edit(c, m) PROVE TruthOfAnswer
    BY <2>1, <2>3 DEF Edit, closing
  <2>4. CASE WriteTimerFires \/ RetryTimerFires \/ SoonFires \/ PauseOver
    BY <2>1, <2>4 DEF WriteTimerFires, RetryTimerFires, SoonFires, PauseOver, closing
  <2>5. ASSUME NEW k \in Kinds, AnswerSome(k) PROVE TruthOfAnswer
    <3>0. PICK S \in Calls(k) : \E failed \in SUBSET S : \E landed \in SUBSET failed :
            Answer(S, failed, landed)
      BY <2>5 DEF AnswerSome
    <3>1. PICK failed \in SUBSET S : \E landed \in SUBSET failed : Answer(S, failed, landed)
      BY <3>0
    <3>2. PICK landed \in SUBSET failed : Answer(S, failed, landed)
      BY <3>1
    <3> QED BY <1>1, <3>2, AnswerTells
  <2>6. CASE RequestClose
    BY <2>6 DEF RequestClose, TruthOfAnswer, IInv, TypeOK
  <2>7. CASE CloseTimesOut
    BY <2>1, <2>7 DEF CloseTimesOut
  <2>8. ASSUME NEW r \in Requests, BeginCloseFlush(r) PROVE TruthOfAnswer
    BY <1>1, <2>8, BeginCloseTells
  <2>9. ASSUME NEW r \in Requests, Acknowledge(r) PROVE TruthOfAnswer
    BY <1>1, <2>9 DEF Acknowledge, TruthOfAnswer, IInv, TypeOK
  <2>10. ASSUME NEW d \in Dialogs, AnswerDialog(d) PROVE TruthOfAnswer
    BY <2>1, <2>10 DEF AnswerDialog
  <2>11. CASE UNCHANGED vars
    BY <2>1, <2>11 DEF vars, closing
  <2> QED BY <1>1, <2>2, <2>3, <2>4, <2>5, <2>6, <2>7, <2>8, <2>9, <2>10, <2>11 DEF Next
<1>2. IInv /\ [Next]_vars => [TruthOfAnswer]_vars
  BY <1>1
<1>3. [TruthOfAnswer]_vars <=> [\A r \in Requests : handler[r] # "saved" /\ handler'[r] = "saved"
           => \A c \in Cells : ~Unsaved(c)']_vars
  BY DEF TruthOfAnswer
<1> QED BY <1>2, <1>3, Invariant, PTL DEF Spec, SavedAnswerIsTrue
=============================================================================
