-------------------------- MODULE CoreDaemonProofs --------------------------
(***************************************************************************)
(* Proofs about CoreDaemon, for any number of jobs and lanes.  The barrier *)
(* compares sequence numbers with the lists "queued" and "running" only;   *)
(* that this is enough to see every earlier write needs three facts: the   *)
(* numbers grow in the order of acceptance (SeqInv), a worker holds a job  *)
(* that has one (WorkInv), and an accepted job stays in one of the lists   *)
(* until it has been executed or reported as cancelled (Accounted).        *)
(***************************************************************************)
EXTENDS CoreDaemon, TLAPS

Busy(l) == worker[l].pc \in {"got", "barrier", "start", "run", "finish"}

\* Sequence numbers: given once, to a submitted job, and never above nextSeq.
SeqInv ==
    /\ \A j \in Jobs : seq[j] <= nextSeq
    /\ \A j \in Jobs : seq[j] # 0 => j \in requested.submit
    /\ reader.pc = "enqueue" => reader.job \in Jobs /\ seq[reader.job] = 0
                                /\ reader.job \in requested.submit
    /\ reader.pc = "send" => reader.job \in Jobs /\ seq[reader.job] # 0

\* What is in a channel or in a worker's hands has been accepted.
LaneWork(l) ==
    /\ \A i \in 1..Len(channel[l]) : seq[channel[l][i]] # 0
    /\ Busy(l) => worker[l].job \in Jobs /\ seq[worker[l].job] # 0
    /\ worker[l].pc = "finish" => worker[l].job \in ran

WorkInv == \A l \in Lanes : LaneWork(l)

Accounted ==
    \A j \in Jobs : seq[j] # 0 =>
        j \in queued \/ j \in running \/ j \in ran \/ answer[j] = "cancelled"

IInv == TypeOK /\ SeqInv /\ WorkInv /\ Accounted /\ ReadsSeeEarlierWrites

LEMMA InitIInv == Init => IInv
  BY DEF Init, IInv, TypeOK, SeqInv, WorkInv, LaneWork, Accounted, ReadsSeeEarlierWrites,
         ReadsNow, Busy, Reading, NoWork, WorkerPcs, Answers, ReaderState,
         WorkerState, Requests

-----------------------------------------------------------------------------
(* The states of the reader and of a worker after one field has changed.   *)

LEMMA ReaderMoves ==
    ASSUME reader \in ReaderState,
           NEW p \in {"read", "enqueue", "send", "closed", "exited", "aborted"}
    PROVE  [reader EXCEPT !.pc = p] \in ReaderState
  BY DEF ReaderState

LEMMA WorkerMoves ==
    ASSUME worker \in [Lanes -> WorkerState], NEW l \in Lanes, NEW p \in WorkerPcs
    PROVE  /\ [worker EXCEPT ![l].pc = p] \in [Lanes -> WorkerState]
           /\ [worker EXCEPT ![l].pc = p, ![l].late = TRUE] \in [Lanes -> WorkerState]
           /\ [worker EXCEPT ![l] = NoWork] \in [Lanes -> WorkerState]
  BY DEF WorkerState, NoWork, WorkerPcs

LEMMA RequestsGrow ==
    ASSUME requested \in Requests, NEW j \in Jobs
    PROVE  /\ [requested EXCEPT !.submit = @ \cup {j}] \in Requests
           /\ [requested EXCEPT !.cancel = @ \cup {j}] \in Requests
  BY DEF Requests

\* The variables keep their types in every step.
LEMMA TypeStep == IInv /\ [Next]_vars => TypeOK'
<1> SUFFICES ASSUME IInv, [Next]_vars PROVE TypeOK'
    OBVIOUS
<1> USE JobsAssumption, LanesAssumption DEF TypeOK, IInv
<1>1. ASSUME NEW j \in Jobs, Submit(j) PROVE TypeOK'
  <2>1. requested' \in Requests
      BY <1>1, RequestsGrow DEF Submit
  <2>2. reader' \in ReaderState
      BY <1>1 DEF Submit, ReaderState
  <2>3. answer' \in [Jobs -> Answers]
      BY <1>1 DEF Submit, Answers
  <2> QED
      BY <1>1, <2>1, <2>2, <2>3 DEF Submit, state
<1>2. ASSUME NEW j \in Jobs, Cancel(j) PROVE TypeOK'
    BY <1>2, RequestsGrow DEF Cancel, state
<1>3. CASE Enqueue
  <2>1. reader' \in ReaderState
      BY <1>3, ReaderMoves DEF Enqueue
  <2>2. queued' \subseteq Jobs
      BY <1>3 DEF Enqueue, SeqInv
  <2>3. nextSeq + 1 \in Nat
      OBVIOUS
  <2>4. seq' \in [Jobs -> Nat] /\ nextSeq' \in Nat
      BY <1>3, <2>3 DEF Enqueue
  <2> QED
      BY <1>3, <2>1, <2>2, <2>4 DEF Enqueue
<1>4. CASE Send
  <2>1. reader' \in ReaderState
      BY <1>4 DEF Send, Reading, ReaderState
  <2>2. reader.job \in Jobs /\ LaneOf[reader.job] \in Lanes
      BY <1>4 DEF Send, SeqInv
  <2>3. channel' \in [Lanes -> Seq(Jobs)]
      BY <1>4, <2>2 DEF Send
  <2> QED
      BY <1>4, <2>1, <2>3 DEF Send, state
<1>5. CASE Exit \/ Shutdown
    BY <1>5, ReaderMoves DEF Exit, Shutdown, state
<1>6. CASE Exited \/ UNCHANGED vars
    BY <1>6 DEF Exited, vars, state
<1>7. ASSUME NEW l \in Lanes, WorkerStep(l) PROVE TypeOK'
  <2>1. CASE Receive(l)
    <3>1. Head(channel[l]) \in Jobs /\ Tail(channel[l]) \in Seq(Jobs)
        BY <2>1 DEF Receive
    <3>2. channel' \in [Lanes -> Seq(Jobs)]
        BY <2>1, <3>1 DEF Receive
    <3>3. worker' \in [Lanes -> WorkerState]
        BY <2>1, <3>1 DEF Receive, WorkerState, NoWork, WorkerPcs
    <3> QED
        BY <2>1, <3>2, <3>3 DEF Receive, state
  <2>2. CASE CancelBeforeStart(l)
    <3>1. worker' \in [Lanes -> WorkerState]
        BY <2>2, WorkerMoves DEF CancelBeforeStart, WorkerPcs
    <3>2. answer' \in [Jobs -> Answers]
        BY <2>2 DEF CancelBeforeStart, Answer, Answers
    <3> QED
        BY <2>2, <3>1, <3>2 DEF CancelBeforeStart
  <2>3. CASE WorkerEnds(l) \/ NotCancelled(l) \/ BarrierReleased(l) \/ BarrierTimesOut(l)
    <3>1. ASSUME NEW p \in WorkerPcs, Goto(l, p) PROVE worker' \in [Lanes -> WorkerState]
      <4>1. [worker EXCEPT ![l].pc = p] \in [Lanes -> WorkerState]
          BY WorkerMoves
      <4> QED
          BY <3>1, <4>1 DEF Goto
    <3>2. worker' \in [Lanes -> WorkerState]
      <4>1. CASE WorkerEnds(l) \/ NotCancelled(l) \/ BarrierReleased(l)
          BY <4>1, <3>1 DEF WorkerEnds, NotCancelled, BarrierReleased, WorkerPcs
      <4>2. CASE BarrierTimesOut(l)
          BY <4>2, WorkerMoves DEF BarrierTimesOut, WorkerPcs
      <4> QED
          BY <2>3, <4>1, <4>2
    <3> QED
        BY <2>3, <3>2 DEF WorkerEnds, NotCancelled, BarrierReleased, BarrierTimesOut, state
  <2>4. CASE Start(l)
    <3>1. worker' \in [Lanes -> WorkerState]
        BY <2>4, WorkerMoves DEF Start, Goto, WorkerPcs
    <3> QED
        BY <2>4, <3>1 DEF Start, At, WorkInv, LaneWork, Busy
  <2>5. CASE RunEnds(l)
    <3>1. worker' \in [Lanes -> WorkerState]
        BY <2>5, WorkerMoves DEF RunEnds, Goto, WorkerPcs
    <3> QED
        BY <2>5, <3>1 DEF RunEnds, At, WorkInv, LaneWork, Busy, state
  <2>6. CASE Panic(l)
      BY <2>6, ReaderMoves DEF Panic, state
  <2>7. CASE Finish(l)
    <3>1. worker' \in [Lanes -> WorkerState]
        BY <2>7, WorkerMoves DEF Finish, WorkerPcs
    <3>2. answer' \in [Jobs -> Answers]
        BY <2>7 DEF Finish, Answer, Answers
    <3> QED
        BY <2>7, <3>1, <3>2 DEF Finish
  <2> QED
      BY <1>7, <2>1, <2>2, <2>3, <2>4, <2>5, <2>6, <2>7 DEF WorkerStep
<1> QED
    BY <1>1, <1>2, <1>3, <1>4, <1>5, <1>6, <1>7 DEF Next, ReaderStep

-----------------------------------------------------------------------------
(* Sequence numbers.                                                       *)

\* Only the reader numbers jobs, and a number is never taken back.
LEMMA NumbersKept ==
    IInv /\ [Next]_vars => \A j \in Jobs : seq[j] # 0 => seq'[j] = seq[j]
<1> SUFFICES ASSUME IInv, [Next]_vars, NEW j \in Jobs, seq[j] # 0
             PROVE  seq'[j] = seq[j]
    OBVIOUS
<1>1. CASE Enqueue
    BY <1>1 DEF Enqueue, IInv, SeqInv, TypeOK
<1>2. CASE UNCHANGED seq
    BY <1>2
<1> QED
    BY <1>1, <1>2 DEF Next, ReaderStep, Submit, Cancel, Send, Exit, Shutdown, Exited,
       WorkerStep, Receive, WorkerEnds, CancelBeforeStart, NotCancelled, BarrierReleased,
       BarrierTimesOut, Start, RunEnds, Panic, Finish, vars, state

\* A worker leaves the numbers and the requests alone, and the reader but by a panic.
LEMMA WorkersKeepNumbers ==
    ASSUME NEW l \in Lanes, WorkerStep(l)
    PROVE  /\ UNCHANGED <<seq, nextSeq, requested>>
           /\ reader' = reader \/ reader' = [reader EXCEPT !.pc = "aborted"]
  BY DEF WorkerStep, Receive, WorkerEnds, CancelBeforeStart, NotCancelled, BarrierReleased,
     BarrierTimesOut, Start, RunEnds, Panic, Finish, state

LEMMA SeqStep == IInv /\ [Next]_vars => SeqInv'
<1> SUFFICES ASSUME IInv, [Next]_vars PROVE SeqInv'
    OBVIOUS
<1>0. TypeOK /\ SeqInv
    BY DEF IInv
<1>1. ASSUME NEW j \in Jobs, Submit(j) PROVE SeqInv'
  <2>1. seq[j] = 0 /\ j \in requested'.submit /\ requested.submit \subseteq requested'.submit
      BY <1>0, <1>1 DEF Submit, SeqInv, TypeOK, Requests
  <2>2. reader' = reader \/ reader' = [pc |-> "enqueue", job |-> j]
      BY <1>1 DEF Submit
  <2> QED
      BY <1>0, <1>1, <2>1, <2>2 DEF Submit, SeqInv, TypeOK, state, Reading
<1>2. ASSUME NEW j \in Jobs, Cancel(j) PROVE SeqInv'
    BY <1>0, <1>2 DEF Cancel, SeqInv, TypeOK, Requests, state
<1>3. CASE Enqueue
  <2>1. reader' = [reader EXCEPT !.pc = "send"] /\ reader'.pc = "send"
        /\ reader'.job = reader.job
      BY <1>0, <1>3 DEF Enqueue, TypeOK, ReaderState
  <2>2. \A j \in Jobs : seq'[j] = IF j = reader.job THEN nextSeq + 1 ELSE seq[j]
      BY <1>0, <1>3 DEF Enqueue, TypeOK
  <2>3. reader.job \in Jobs /\ reader.job \in requested.submit
      BY <1>0, <1>3 DEF Enqueue, SeqInv
  <2> QED
      BY <1>0, <1>3, <2>1, <2>2, <2>3 DEF Enqueue, SeqInv, TypeOK
<1>4. CASE Send
    BY <1>0, <1>4 DEF Send, Reading, SeqInv, state
<1>5. CASE Exit \/ Shutdown
    BY <1>0, <1>5 DEF Exit, Shutdown, SeqInv, TypeOK, ReaderState, state
<1>6. CASE Exited \/ UNCHANGED vars
    BY <1>0, <1>6 DEF Exited, vars, state, SeqInv
<1>7. ASSUME NEW l \in Lanes, WorkerStep(l) PROVE SeqInv'
    BY <1>0, <1>7, WorkersKeepNumbers DEF SeqInv, TypeOK, ReaderState
<1> QED
    BY <1>1, <1>2, <1>3, <1>4, <1>5, <1>6, <1>7 DEF Next, ReaderStep

-----------------------------------------------------------------------------
(* The jobs in a channel or in a worker's hands.                           *)

\* What a step of the worker of l leaves of the other workers' jobs.
LEMMA OthersWorkOn ==
    ASSUME TypeOK, NEW l \in Lanes, WorkerStep(l), NEW m \in Lanes, m # l
    PROVE  worker'[m] = worker[m] /\ channel'[m] = channel[m]
  BY DEF WorkerStep, Receive, WorkerEnds, CancelBeforeStart, NotCancelled, BarrierReleased,
     BarrierTimesOut, Start, RunEnds, Panic, Finish, Goto, TypeOK, state

LEMMA WorkStep == IInv /\ [Next]_vars => WorkInv'
<1> SUFFICES ASSUME IInv, [Next]_vars, NEW m \in Lanes PROVE LaneWork(m)'
    BY DEF WorkInv
<1>0. TypeOK /\ LaneWork(m)
    BY DEF IInv, WorkInv
<1>1. CASE UNCHANGED <<channel, worker, seq, ran>>
    BY <1>0, <1>1 DEF LaneWork, Busy
<1>2. CASE Enqueue
  <2>1. \A j \in Jobs : seq[j] # 0 => seq'[j] # 0
      BY NumbersKept
  <2>2. \A i \in 1..Len(channel[m]) : channel[m][i] \in Jobs
      BY <1>0 DEF TypeOK
  <2> QED
      BY <1>0, <1>2, <2>1, <2>2 DEF Enqueue, LaneWork, Busy
<1>3. CASE Send
  <2>1. reader.job \in Jobs /\ seq[reader.job] # 0
      BY <1>3 DEF Send, IInv, SeqInv
  <2>2. channel'[m] = channel[m] \/ channel'[m] = Append(channel[m], reader.job)
      BY <1>0, <1>3 DEF Send, TypeOK
  <2>3. channel[m] \in Seq(Jobs)
      BY <1>0 DEF TypeOK
  <2>4. \A i \in 1..Len(channel'[m]) : seq[channel'[m][i]] # 0
      BY <1>0, <2>1, <2>2, <2>3 DEF LaneWork
  <2> QED
      BY <1>0, <1>3, <2>4 DEF Send, LaneWork, Busy, state
<1>4. ASSUME NEW l \in Lanes, WorkerStep(l) PROVE LaneWork(m)'
  <2>1. seq' = seq /\ ran \subseteq ran'
      BY <1>4, WorkersKeepNumbers DEF WorkerStep, Receive, WorkerEnds, CancelBeforeStart,
         NotCancelled, BarrierReleased, BarrierTimesOut, Start, RunEnds, Panic, Finish
  <2>2. CASE m # l
      BY <1>0, <1>4, <2>1, <2>2, OthersWorkOn DEF LaneWork, Busy
  <2>3. CASE m = l
    <3>0. worker[l] \in WorkerState /\ channel[l] \in Seq(Jobs)
        BY <1>0 DEF TypeOK
    <3>1. CASE Receive(l)
      <4>1. channel[l] # <<>> /\ worker'[l].job = Head(channel[l]) /\ worker'[l].pc = "got"
            /\ channel'[l] = Tail(channel[l])
          BY <1>0, <3>1 DEF Receive, NoWork, TypeOK
      <4>2. Head(channel[l]) \in Jobs /\ seq[Head(channel[l])] # 0
          BY <1>0, <2>3, <3>0, <4>1 DEF LaneWork
      <4>3. \A i \in 1..Len(channel'[l]) : seq[channel'[l][i]] # 0
          BY <1>0, <2>3, <3>0, <4>1 DEF LaneWork
      <4> QED
          BY <2>1, <2>3, <4>1, <4>2, <4>3 DEF LaneWork, Busy
    <3>2. CASE CancelBeforeStart(l) \/ Finish(l)
      <4>1. worker'[l] = NoWork /\ channel' = channel
          BY <1>0, <3>2 DEF CancelBeforeStart, Finish, TypeOK
      <4> QED
          BY <1>0, <2>1, <2>3, <4>1 DEF LaneWork, Busy, NoWork
    <3>3. CASE WorkerEnds(l) \/ NotCancelled(l) \/ BarrierReleased(l) \/ BarrierTimesOut(l)
               \/ Start(l)
      <4>1. worker'[l].job = worker[l].job /\ channel' = channel
            /\ worker'[l].pc \in {"ended", "barrier", "start", "run"}
            /\ (worker'[l].pc # "ended" => Busy(l))
          BY <1>0, <3>0, <3>3 DEF WorkerEnds, NotCancelled, BarrierReleased,
             BarrierTimesOut, Start, At, Goto, Busy, TypeOK, WorkerState
      <4> QED
          BY <1>0, <2>1, <2>3, <4>1 DEF LaneWork, Busy
    <3>4. CASE RunEnds(l)
      <4>1. worker'[l].job = worker[l].job /\ channel' = channel /\ Busy(l)
            /\ worker[l].job \in ran'
          BY <1>0, <3>0, <3>4 DEF RunEnds, At, Goto, Busy, TypeOK, WorkerState
      <4> QED
          BY <1>0, <2>1, <2>3, <4>1 DEF LaneWork, Busy
    <3>5. CASE Panic(l)
        BY <1>0, <1>1, <3>5 DEF Panic, state
    <3> QED
        BY <1>4, <3>1, <3>2, <3>3, <3>4, <3>5 DEF WorkerStep
  <2> QED
      BY <2>2, <2>3
<1> QED
    BY <1>1, <1>2, <1>3, <1>4 DEF Next, ReaderStep, Submit, Cancel, Exit, Shutdown,
       Exited, vars, state

-----------------------------------------------------------------------------
(* An accepted job is in one of the lists, or has been executed or cancelled. *)

LEMMA AccountedStep == IInv /\ [Next]_vars => Accounted'
<1> SUFFICES ASSUME IInv, [Next]_vars, NEW j \in Jobs, seq'[j] # 0
             PROVE  \/ j \in queued' \/ j \in running' \/ j \in ran'
                    \/ answer'[j] = "cancelled"
    BY DEF Accounted
<1>0. TypeOK
    BY DEF IInv
<1>1. CASE Enqueue /\ j = reader.job
    BY <1>1 DEF Enqueue
<1>2. CASE ~(Enqueue /\ j = reader.job)
  <2>1. seq[j] # 0
      BY <1>0, <1>2 DEF Next, ReaderStep, Enqueue, Submit, Cancel, Send, Exit, Shutdown,
         Exited, WorkerStep, Receive, WorkerEnds, CancelBeforeStart, NotCancelled,
         BarrierReleased, BarrierTimesOut, Start, RunEnds, Panic, Finish, vars, state,
         TypeOK
  <2>2. j \in queued \/ j \in running \/ j \in ran \/ answer[j] = "cancelled"
      BY <2>1 DEF IInv, Accounted
  <2>3. ASSUME NEW i \in Jobs, Submit(i) PROVE answer'[j] = answer[j]
    <3>1. j # i
        BY <2>1, <2>3 DEF Submit, IInv, SeqInv
    <3> QED
        BY <1>0, <2>3, <3>1 DEF Submit, TypeOK
  <2>4. CASE \E i \in Jobs : Submit(i)
      BY <2>2, <2>3, <2>4 DEF Submit, state
  <2>5. CASE \E l \in Lanes : CancelBeforeStart(l)
      BY <1>0, <2>2, <2>5 DEF CancelBeforeStart, Answer, TypeOK
  <2>6. ASSUME NEW l \in Lanes, Finish(l)
        PROVE  j \in queued' \/ j \in running' \/ j \in ran' \/ answer'[j] = "cancelled"
    <3>1. worker[l].job \in ran
        BY <2>6 DEF Finish, At, IInv, WorkInv, LaneWork
    <3> QED
        BY <1>0, <2>2, <2>6, <3>1 DEF Finish, Answer, TypeOK
  <2>7. CASE \E l \in Lanes : Start(l) \/ RunEnds(l)
      BY <2>2, <2>7 DEF Start, RunEnds, state
  <2>8. CASE UNCHANGED <<running, ran, answer>> /\ queued \subseteq queued'
      BY <2>2, <2>8
  <2> QED
      BY <2>4, <2>5, <2>6, <2>7, <2>8 DEF Next, ReaderStep, Enqueue, Cancel, Send, Exit,
         Shutdown, Exited, WorkerStep, Receive, WorkerEnds, NotCancelled, BarrierReleased,
         BarrierTimesOut, Panic, vars, state
<1> QED
    BY <1>1, <1>2

-----------------------------------------------------------------------------
(* The barrier.                                                            *)

Settled(w) == w \in ran \/ answer[w] = "cancelled"

\* What has been executed or cancelled stays so: nothing else is said of it later.
LEMMA SettledKept ==
    IInv /\ [Next]_vars => \A w \in Jobs : seq[w] # 0 /\ Settled(w) => Settled(w)'
<1> SUFFICES ASSUME IInv, [Next]_vars, NEW w \in Jobs, seq[w] # 0, Settled(w)
             PROVE  Settled(w)'
    OBVIOUS
<1> USE DEF Settled
<1>0. TypeOK
    BY DEF IInv
<1>1. ASSUME NEW i \in Jobs, Submit(i) PROVE Settled(w)'
  <2>1. w # i
      BY <1>1 DEF Submit, IInv, SeqInv
  <2> QED
      BY <1>0, <1>1, <2>1 DEF Submit, TypeOK
<1>2. ASSUME NEW l \in Lanes, CancelBeforeStart(l) PROVE Settled(w)'
    BY <1>0, <1>2 DEF CancelBeforeStart, Answer, TypeOK
<1>3. ASSUME NEW l \in Lanes, Finish(l) PROVE Settled(w)'
  <2>1. worker[l].job \in ran
      BY <1>3 DEF Finish, At, IInv, WorkInv, LaneWork
  <2> QED
      BY <1>0, <1>3, <2>1 DEF Finish, Answer, TypeOK
<1>4. CASE UNCHANGED answer /\ ran \subseteq ran'
    BY <1>4
<1> QED
    BY <1>1, <1>2, <1>3, <1>4 DEF Next, ReaderStep, Enqueue, Cancel, Send, Exit, Shutdown,
       Exited, WorkerStep, Receive, WorkerEnds, NotCancelled, BarrierReleased,
       BarrierTimesOut, Start, RunEnds, Panic, vars, state

\* A job that enters now is not earlier than one that has its number.
LEMMA NewestIsLast ==
    ASSUME IInv, [Next]_vars, NEW w \in Jobs, NEW j \in Jobs, seq[j] # 0,
           seq'[w] # 0, seq'[w] < seq'[j]
    PROVE  seq[w] # 0 /\ seq[w] < seq[j]
<1>0. TypeOK /\ SeqInv /\ seq'[j] = seq[j]
    BY NumbersKept DEF IInv
<1>1. CASE seq[w] # 0
    BY <1>0, <1>1, NumbersKept
<1>2. CASE UNCHANGED seq
    BY <1>2
<1>3. CASE Enqueue /\ seq[w] = 0
  <2>1. seq'[w] = nextSeq + 1
      BY <1>0, <1>3 DEF Enqueue, TypeOK
  <2> QED
      BY <1>0, <2>1 DEF TypeOK, SeqInv
<1> QED
    BY <1>1, <1>2, <1>3 DEF Next, ReaderStep, Submit, Cancel, Send, Exit, Shutdown, Exited,
       WorkerStep, Receive, WorkerEnds, CancelBeforeStart, NotCancelled, BarrierReleased,
       BarrierTimesOut, Start, RunEnds, Panic, Finish, vars, state

\* The only way into ReadsNow is the barrier's release.
LEMMA EntersByTheBarrier ==
    ASSUME IInv, [Next]_vars, NEW m \in Lanes, ReadsNow(m)'
    PROVE  \/ ReadsNow(m) /\ worker'[m].job = worker[m].job
           \/ BarrierReleased(m) /\ worker'[m].job = worker[m].job
<1>0. TypeOK
    BY DEF IInv
<1>1. CASE UNCHANGED worker
    BY <1>1 DEF ReadsNow
<1>2. ASSUME NEW l \in Lanes, WorkerStep(l), m # l
      PROVE  ReadsNow(m) /\ worker'[m].job = worker[m].job
    BY <1>0, <1>2, OthersWorkOn DEF ReadsNow
<1>3. CASE WorkerStep(m)
  <2>0. worker[m] \in WorkerState
      BY <1>0 DEF TypeOK
  <2>1. CASE Receive(m) \/ WorkerEnds(m) \/ CancelBeforeStart(m) \/ Finish(m)
    <3>1. CASE Receive(m)
        BY <1>0, <3>1 DEF Receive, NoWork, TypeOK, ReadsNow
    <3>2. CASE WorkerEnds(m)
        BY <1>0, <2>0, <3>2 DEF WorkerEnds, Goto, TypeOK, WorkerState, ReadsNow
    <3>3. CASE CancelBeforeStart(m) \/ Finish(m)
        BY <1>0, <3>3 DEF CancelBeforeStart, Finish, NoWork, TypeOK, ReadsNow
    <3> QED
        BY <2>1, <3>1, <3>2, <3>3
  <2>2. CASE NotCancelled(m)
    <3>1. worker'[m].job = worker[m].job
          /\ worker'[m].pc = IF worker[m].job \in Barred THEN "barrier" ELSE "start"
        BY <1>0, <2>0, <2>2 DEF NotCancelled, Goto, TypeOK, WorkerState
    <3> QED
        BY <3>1 DEF ReadsNow
  <2>3. CASE BarrierTimesOut(m)
    <3>1. worker'[m].late
        BY <1>0, <2>0, <2>3 DEF BarrierTimesOut, TypeOK, WorkerState
    <3> QED
        BY <3>1 DEF ReadsNow
  <2>4. CASE BarrierReleased(m)
      BY <1>0, <2>0, <2>4 DEF BarrierReleased, Goto, TypeOK, WorkerState
  <2>5. CASE Start(m) \/ RunEnds(m)
    <3>1. worker'[m].job = worker[m].job /\ worker'[m].late = worker[m].late
          /\ worker[m].pc \in {"start", "run"}
        BY <1>0, <2>0, <2>5 DEF Start, RunEnds, At, Goto, TypeOK, WorkerState
    <3> QED
        BY <3>1 DEF ReadsNow
  <2>6. CASE Panic(m)
      BY <1>1, <2>6 DEF Panic
  <2> QED
      BY <1>3, <2>1, <2>2, <2>3, <2>4, <2>5, <2>6 DEF WorkerStep
<1> QED
    BY <1>1, <1>2, <1>3 DEF Next, ReaderStep, Enqueue, Submit, Cancel, Send, Exit, Shutdown,
       Exited, vars

LEMMA BarrierStep == IInv /\ [Next]_vars => ReadsSeeEarlierWrites'
<1> SUFFICES ASSUME IInv, [Next]_vars, NEW m \in Lanes, ReadsNow(m)', NEW w \in Writes,
                    seq'[w] # 0, seq'[w] < seq'[worker'[m].job]
             PROVE  Settled(w)'
    BY DEF ReadsSeeEarlierWrites, Settled
<1> DEFINE j == worker[m].job
<1>1. worker'[m].job = j /\ (ReadsNow(m) \/ BarrierReleased(m))
    BY EntersByTheBarrier
<1>2. w \in Jobs /\ j \in Jobs /\ seq[j] # 0
    BY <1>1 DEF Writes, ReadsNow, BarrierReleased, At, IInv, WorkInv, LaneWork, Busy
<1>3. seq[w] # 0 /\ seq[w] < seq[j]
    BY <1>1, <1>2, NewestIsLast
<1>4. CASE ReadsNow(m)
    BY <1>2, <1>3, <1>4, SettledKept DEF IInv, ReadsSeeEarlierWrites, Settled
<1>5. CASE BarrierReleased(m)
  <2>1. w \notin queued /\ w \notin running
      BY <1>3, <1>5 DEF BarrierReleased, HasEarlierWrites
  <2>2. Settled(w)
      BY <1>2, <1>3, <2>1 DEF IInv, Accounted, Settled
  <2> QED
      BY <1>2, <1>3, <2>2, SettledKept
<1> QED
    BY <1>1, <1>4, <1>5

-----------------------------------------------------------------------------
LEMMA IInvStep == IInv /\ [Next]_vars => IInv'
  BY TypeStep, SeqStep, WorkStep, AccountedStep, BarrierStep DEF IInv

LEMMA Inductive == Spec => []IInv
<1>1. Init => IInv
    BY InitIInv
<1>2. IInv /\ [Next]_vars => IInv'
    BY IInvStep
<1> QED
    BY <1>1, <1>2, PTL DEF Spec

\* The daemon's variables keep their types: no list, channel or worker ever holds
\* anything but a submitted job (core_daemon/state.rs).
THEOREM TypeCorrect == Spec => []TypeOK
<1>1. IInv => TypeOK
    BY DEF IInv
<1> QED
    BY <1>1, Inductive, PTL

\* The write barrier (write_barrier.rs): a metadata read that did not time out
\* runs after every write accepted before it, whatever the number of lanes, jobs
\* and cancellations.
THEOREM BarrierSafe == Spec => []ReadsSeeEarlierWrites
<1>1. IInv => ReadsSeeEarlierWrites
    BY DEF IInv
<1> QED
    BY <1>1, Inductive, PTL
=============================================================================
