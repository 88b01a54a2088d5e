----------------------------- MODULE CoreDaemon -----------------------------
(***************************************************************************)
(* The Rust core daemon, native-src/hfm-core-worker/src/core_daemon: one   *)
(* thread reads requests from stdin, one worker thread per lane executes   *)
(* the jobs of its lane in order, and the two lists "queued" and "running" *)
(* are shared under a mutex.  A job that reads metadata waits at a barrier *)
(* until every write accepted before it has left both lists, for at most   *)
(* five seconds.  A step is one critical section of the mutex or one       *)
(* operation on a channel.  A worker's take_cancelled, the critical section *)
(* that depends on it and the event it emits last are one step: only this  *)
(* worker takes the job's id out of the cancel set or the lists, and the    *)
(* order of the events of different jobs is left out.                      *)
(***************************************************************************)
EXTENDS Naturals, Sequences, FiniteSets

CONSTANTS
    Jobs,          \* job ids: the client never uses one twice
    Lanes,         \* foreground, preview, scan, write, maintenance, ...
    WriteLane,     \* the lane of the commands that write metadata
    LaneOf,        \* job -> lane of its command (lane_for_command)
    MetadataReads, \* jobs whose command requires the write barrier
    MaxQueued,     \* lane -> bound of its queue (max_queued_for_lane)
    Panics,        \* jobs whose command may panic
    Cancels,       \* bound: jobs the client may ask to cancel
    NoJob

ASSUME LanesAssumption == WriteLane \in Lanes /\ LaneOf \in [Jobs -> Lanes]
ASSUME QueuedAssumption == MaxQueued \in [Lanes -> Nat]
ASSUME JobsAssumption ==
    MetadataReads \subseteq Jobs /\ Panics \subseteq Jobs /\ Cancels \subseteq Jobs
    /\ NoJob \notin Jobs

VARIABLES
    reader,     \* the stdin thread: pc and the job it is submitting
    channel,    \* lane -> jobs sent to its worker
    worker,     \* lane -> pc, current job, and whether its barrier timed out
    queued,     \* DaemonState.queued
    running,    \* DaemonState.running
    seq,        \* job -> its sequence number, 0 before it has one
    nextSeq,    \* DaemonState.next_sequence
    cancelled,  \* the cancel set
    requested,  \* jobs the client has submitted / asked to cancel
    answer,     \* job -> the terminal event emitted for it
    ran         \* jobs whose command has been executed

state == <<queued, running, seq, nextSeq>>
vars == <<reader, channel, worker, state, cancelled, requested, answer, ran>>

Writes == {j \in Jobs : LaneOf[j] = WriteLane}
Barred == MetadataReads \ Writes
NoWork == [pc |-> "idle", job |-> NoJob, late |-> FALSE]
Reading == [pc |-> "read", job |-> NoJob]

Init ==
    /\ reader = Reading
    /\ channel = [l \in Lanes |-> <<>>]
    /\ worker = [l \in Lanes |-> NoWork]
    /\ queued = {} /\ running = {}
    /\ seq = [j \in Jobs |-> 0] /\ nextSeq = 0
    /\ cancelled = {}
    /\ requested = [submit |-> {}, cancel |-> {}]
    /\ answer = [j \in Jobs |-> "none"]
    /\ ran = {}

-----------------------------------------------------------------------------
(* The reader.                                                             *)

QueuedIn(l) == {j \in queued : LaneOf[j] = l}

\* Mutant: the limit is off by one.
QueueOverfull(l) == Cardinality(QueuedIn(l)) > MaxQueued[l]

QueueFull(l) == Cardinality(QueuedIn(l)) >= MaxQueued[l]

\* A submit is refused when the lane's queue is full.
Submit(j) ==
    /\ reader = Reading /\ j \notin requested.submit
    /\ requested' = [requested EXCEPT !.submit = @ \cup {j}]
    /\ IF QueueFull(LaneOf[j])
       THEN answer' = [answer EXCEPT ![j] = "rejected"] /\ UNCHANGED reader
       ELSE reader' = [pc |-> "enqueue", job |-> j] /\ UNCHANGED answer
    /\ UNCHANGED <<channel, worker, state, cancelled, ran>>

\* Mutant: the number is taken one below the counter.
EnqueueBelow ==
    /\ reader.pc = "enqueue"
    /\ nextSeq' = nextSeq + 1
    /\ seq' = [seq EXCEPT ![reader.job] = nextSeq - 1]
    /\ queued' = queued \cup {reader.job}
    /\ reader' = [reader EXCEPT !.pc = "send"]
    /\ UNCHANGED <<channel, worker, running, cancelled, requested, answer, ran>>

\* enqueue(): the job enters "queued" with the next sequence number.
Enqueue ==
    /\ reader.pc = "enqueue"
    /\ nextSeq' = nextSeq + 1
    /\ seq' = [seq EXCEPT ![reader.job] = nextSeq + 1]
    /\ queued' = queued \cup {reader.job}
    /\ reader' = [reader EXCEPT !.pc = "send"]
    /\ UNCHANGED <<channel, worker, running, cancelled, requested, answer, ran>>

\* The receivers live as long as the process (a panic aborts it): sending to a
\* lane does not fail.
Send ==
    /\ reader.pc = "send"
    /\ channel' = [channel EXCEPT ![LaneOf[reader.job]] = Append(@, reader.job)]
    /\ reader' = Reading
    /\ UNCHANGED <<worker, state, cancelled, requested, answer, ran>>

\* A cancel only puts the id in the set, whatever has become of the job.
Cancel(j) ==
    /\ reader = Reading /\ j \in (Cancels \cap requested.submit) \ requested.cancel
    /\ requested' = [requested EXCEPT !.cancel = @ \cup {j}]
    /\ cancelled' = cancelled \cup {j}
    /\ UNCHANGED <<reader, channel, worker, state, answer, ran>>

\* A shutdown request, or the end of stdin: the senders are dropped.
Shutdown ==
    /\ reader = Reading
    /\ reader' = [reader EXCEPT !.pc = "closed"]
    /\ UNCHANGED <<channel, worker, state, cancelled, requested, answer, ran>>

\* The process exits once every worker has been joined.
Exit ==
    /\ reader.pc = "closed"
    /\ \A l \in Lanes : worker[l].pc = "ended"
    /\ reader' = [reader EXCEPT !.pc = "exited"]
    /\ UNCHANGED <<channel, worker, state, cancelled, requested, answer, ran>>

Gone == reader.pc \in {"exited", "aborted"}
Exited == Gone /\ UNCHANGED vars

-----------------------------------------------------------------------------
(* The worker of a lane.                                                   *)

At(l, pc) == worker[l].pc = pc
Goto(l, pc) == worker' = [worker EXCEPT ![l].pc = pc]
\* Mutant: no event for a cancelled job.
AnswerUncancelled(j, a) ==
    IF a = "cancelled" THEN UNCHANGED answer ELSE answer' = [answer EXCEPT ![j] = a]
Answer(j, a) == answer' = [answer EXCEPT ![j] = a]

\* Mutant: the worker takes the newest job first.
ReceiveNewest(l) ==
    /\ At(l, "idle") /\ channel[l] # <<>>
    /\ worker' = [worker EXCEPT ![l] = [NoWork EXCEPT !.pc = "got",
                                     !.job = channel[l][Len(channel[l])]]]
    /\ channel' = [channel EXCEPT ![l] = SubSeq(@, 1, Len(@) - 1)]
    /\ UNCHANGED <<reader, state, cancelled, requested, answer, ran>>

Receive(l) ==
    /\ At(l, "idle") /\ channel[l] # <<>>
    /\ worker' = [worker EXCEPT ![l] = [NoWork EXCEPT !.pc = "got", !.job = Head(channel[l])]]
    /\ channel' = [channel EXCEPT ![l] = Tail(@)]
    /\ UNCHANGED <<reader, state, cancelled, requested, answer, ran>>

\* Mutant: the worker stops as soon as the reader has.
WorkerEndsAtOnce(l) ==
    /\ At(l, "idle") /\ reader.pc = "closed"
    /\ Goto(l, "ended")
    /\ UNCHANGED <<reader, channel, state, cancelled, requested, answer, ran>>

\* recv() fails when the senders are dropped and the channel is empty.
WorkerEnds(l) ==
    /\ At(l, "idle") /\ channel[l] = <<>> /\ reader.pc = "closed"
    /\ Goto(l, "ended")
    /\ UNCHANGED <<reader, channel, state, cancelled, requested, answer, ran>>

\* Mutant: the job is reported as cancelled and executed all the same.
CancelButRun(l) ==
    /\ At(l, "got") /\ worker[l].job \in cancelled
    /\ cancelled' = cancelled \ {worker[l].job}
    /\ Answer(worker[l].job, "cancelled")
    /\ Goto(l, "start")
    /\ UNCHANGED <<reader, channel, state, requested, ran>>

\* take_cancelled before the start: the job is dropped.
CancelBeforeStart(l) ==
    /\ At(l, "got") /\ worker[l].job \in cancelled
    /\ cancelled' = cancelled \ {worker[l].job}
    /\ queued' = queued \ {worker[l].job}
    /\ Answer(worker[l].job, "cancelled")
    /\ worker' = [worker EXCEPT ![l] = NoWork]
    /\ UNCHANGED <<reader, channel, running, seq, nextSeq, requested, ran>>

NotCancelled(l) ==
    /\ At(l, "got") /\ worker[l].job \notin cancelled
    /\ Goto(l, IF worker[l].job \in Barred THEN "barrier" ELSE "start")
    /\ UNCHANGED <<reader, channel, state, cancelled, requested, answer, ran>>

\* Mutant: the barrier forgets the write that is running.
HasEarlierQueuedWrites(j) == \E w \in Writes \cap queued : seq[w] < seq[j]

HasEarlierWrites(j) == \E w \in Writes \cap (queued \cup running) : seq[w] < seq[j]

BarrierReleased(l) ==
    /\ At(l, "barrier") /\ ~HasEarlierWrites(worker[l].job)
    /\ Goto(l, "start")
    /\ UNCHANGED <<reader, channel, state, cancelled, requested, answer, ran>>

\* WRITE_BARRIER_TIMEOUT_MS: the job goes ahead of the writes it waited for.
BarrierTimesOut(l) ==
    /\ At(l, "barrier") /\ HasEarlierWrites(worker[l].job)
    /\ worker' = [worker EXCEPT ![l].pc = "start", ![l].late = TRUE]
    /\ UNCHANGED <<reader, channel, state, cancelled, requested, answer, ran>>

Start(l) ==
    /\ At(l, "start")
    /\ queued' = queued \ {worker[l].job}
    /\ running' = running \cup {worker[l].job}
    /\ Goto(l, "run")
    /\ UNCHANGED <<reader, channel, seq, nextSeq, cancelled, requested, answer, ran>>

\* run_daemon_command returns.
RunEnds(l) ==
    /\ At(l, "run")
    /\ ran' = ran \cup {worker[l].job}
    /\ Goto(l, "finish")
    /\ UNCHANGED <<reader, channel, state, cancelled, requested, answer>>

\* It panics: the release build aborts the process (panic = "abort").
Panic(l) ==
    /\ At(l, "run") /\ worker[l].job \in Panics
    /\ reader' = [reader EXCEPT !.pc = "aborted"]
    /\ UNCHANGED <<channel, worker, state, cancelled, requested, answer, ran>>

\* take_cancelled after the run decides between job_cancelled and job_finished.
Finish(l) ==
    /\ At(l, "finish")
    /\ cancelled' = cancelled \ {worker[l].job}
    /\ running' = running \ {worker[l].job}
    /\ Answer(worker[l].job, IF worker[l].job \in cancelled THEN "cancelled" ELSE "finished")
    /\ worker' = [worker EXCEPT ![l] = NoWork]
    /\ UNCHANGED <<reader, channel, queued, seq, nextSeq, requested, ran>>

-----------------------------------------------------------------------------
ReaderStep == Enqueue \/ Send \/ Exit

WorkerStep(l) ==
    \/ Receive(l) \/ WorkerEnds(l) \/ CancelBeforeStart(l) \/ NotCancelled(l)
    \/ BarrierReleased(l) \/ BarrierTimesOut(l) \/ Start(l) \/ RunEnds(l)
    \/ Panic(l) \/ Finish(l)

Next ==
    \/ \E j \in Jobs : Submit(j) \/ Cancel(j)
    \/ ReaderStep \/ Shutdown \/ Exited
    \/ ~Gone /\ \E l \in Lanes : WorkerStep(l)

Spec == Init /\ [][Next]_vars

\* Threads run; a command ends by itself, and so does the wait at the barrier.
FairSpec == Spec /\ WF_vars(ReaderStep) /\ \A l \in Lanes : WF_vars(~Gone /\ WorkerStep(l))

-----------------------------------------------------------------------------
(* Properties.                                                             *)

Answers == {"none", "rejected", "cancelled", "finished"}
WorkerPcs == {"idle", "got", "barrier", "start", "run", "finish", "ended"}

ReaderState == [pc: {"read", "enqueue", "send", "closed", "exited", "aborted"},
                job: Jobs \cup {NoJob}]
WorkerState == [pc: WorkerPcs, job: Jobs \cup {NoJob}, late: BOOLEAN]
Requests == [submit: SUBSET Jobs, cancel: SUBSET Jobs]

TypeOK ==
    /\ reader \in ReaderState
    /\ channel \in [Lanes -> Seq(Jobs)]
    /\ worker \in [Lanes -> WorkerState]
    /\ queued \subseteq Jobs /\ running \subseteq Jobs
    /\ seq \in [Jobs -> Nat] /\ nextSeq \in Nat
    /\ cancelled \subseteq Jobs
    /\ requested \in Requests
    /\ answer \in [Jobs -> Answers]
    /\ ran \subseteq Jobs

\* The worker of l is past the barrier with a metadata read that did not time out.
ReadsNow(l) ==
    worker[l].pc \in {"start", "run", "finish"} /\ worker[l].job \in Barred /\ ~worker[l].late

\* A metadata read that was not let through by the timeout runs after every
\* write accepted before it: that write has been executed, or was cancelled
\* before it started.
ReadsSeeEarlierWrites ==
    \A l \in Lanes : ReadsNow(l) =>
        \A w \in Writes : seq[w] # 0 /\ seq[w] < seq[worker[l].job] =>
            w \in ran \/ answer[w] = "cancelled"

\* A lane's queue never exceeds its limit, though the reader checks the length
\* and adds to the list in two critical sections.
QueuesBounded == \A l \in Lanes : Cardinality(QueuedIn(l)) <= MaxQueued[l]

\* The jobs of a lane are executed in the order they were accepted.
LaneOrder ==
    \A i, j \in Jobs : LaneOf[i] = LaneOf[j] /\ j \in ran /\ seq[i] # 0 /\ seq[i] < seq[j]
        => answer[i] # "none" \/ i \in ran

\* A job gets one terminal event: none follows the first.
OneAnswer == [][\A j \in Jobs : answer[j] # "none" => answer'[j] = answer[j]]_vars

\* An orderly exit leaves no accepted job without its terminal event.
DrainedAtExit ==
    reader.pc = "exited" => \A j \in Jobs : seq[j] # 0 => answer[j] # "none"

\* Every accepted job gets its terminal event unless the process aborts: no lane
\* waits for ever, at the barrier or for another.
EveryJobAnswered ==
    \A j \in Jobs : seq[j] # 0 ~> (answer[j] # "none" \/ reader.pc = "aborted")
-----------------------------------------------------------------------------
(* What the daemon promises, and how its state shows it.                   *)

\* How far a job has come, as the client is concerned.
PhaseOf(j) ==
    CASE answer[j] = "rejected" -> "refused"
      [] answer[j] = "finished" -> "finished"
      [] answer[j] = "cancelled" -> IF j \in ran THEN "withdrawn" ELSE "skipped"
      [] OTHER -> IF j \in ran THEN "executed" ELSE IF seq[j] # 0 THEN "accepted" ELSE "new"

Promise == INSTANCE JobService WITH
    phase <- [j \in Jobs |-> PhaseOf(j)],
    order <- seq, count <- nextSeq, unwanted <- requested.cancel

\* Queues, channels, threads, barrier and cancel set together keep the promise of
\* JobService: a job takes effect at most once and in its lane's order, a skipped
\* one never does, and its single answer tells which happened.
KeepsPromise == Promise!Spec
=============================================================================
