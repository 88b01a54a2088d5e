------------------------ MODULE CoreDaemonLaneProofs ------------------------
(***************************************************************************)
(* More about CoreDaemon, on top of the invariant IInv of CoreDaemonProofs: *)
(* where an accepted job is until it is answered, in what order the jobs of *)
(* a lane stand there, and that the daemon therefore implements JobService. *)
(***************************************************************************)
EXTENDS CoreDaemonProofs, FiniteSetTheorems

\* What the answers, the executed jobs and the cancel set say of each other.
AnswerInv ==
    /\ \A j \in Jobs : answer[j] # "none" => j \in requested.submit
    /\ \A j \in Jobs : seq[j] = 0 => answer[j] \in {"none", "rejected"} /\ j \notin ran
    /\ \A j \in Jobs : answer[j] = "rejected" => seq[j] = 0
    /\ \A j \in Jobs : answer[j] = "finished" => j \in ran
    /\ cancelled \subseteq requested.cancel
    /\ reader.pc = "enqueue" => answer[reader.job] = "none"
    /\ reader.pc = "send" => seq[reader.job] = nextSeq /\ answer[reader.job] = "none"
                             /\ reader.job \notin ran

\* The channel of a lane and the hands of its worker hold unanswered jobs of that
\* lane, each before those accepted after it.
Line(l) ==
    /\ \A i \in 1..Len(channel[l]) :
        LaneOf[channel[l][i]] = l /\ answer[channel[l][i]] = "none" /\ channel[l][i] \notin ran
    /\ \A i, k \in 1..Len(channel[l]) : i < k => seq[channel[l][i]] < seq[channel[l][k]]
    /\ Busy(l) => /\ LaneOf[worker[l].job] = l /\ answer[worker[l].job] = "none"
                  /\ worker[l].job \in ran <=> worker[l].pc = "finish"
                  /\ \A i \in 1..Len(channel[l]) : seq[worker[l].job] < seq[channel[l][i]]
    /\ reader.pc = "send" =>
        /\ \A i \in 1..Len(channel[l]) : seq[channel[l][i]] < seq[reader.job]
        /\ Busy(l) => seq[worker[l].job] < seq[reader.job]

LineInv == \A l \in Lanes : Line(l)

InChannel(j) == \E i \in 1..Len(channel[LaneOf[j]]) : channel[LaneOf[j]][i] = j
InHands(j) == Busy(LaneOf[j]) /\ worker[LaneOf[j]].job = j
Located(j) == (reader.pc = "send" /\ reader.job = j) \/ InChannel(j) \/ InHands(j)

\* While the process lives, an accepted job without an answer is somewhere.
LocatedInv ==
    reader.pc # "aborted" => \A j \in Jobs : seq[j] # 0 /\ answer[j] = "none" => Located(j)

\* A worker ends with nothing left to do, and the process with no worker left.
EndInv ==
    /\ \A l \in Lanes : worker[l].pc = "ended" =>
        channel[l] = <<>> /\ reader.pc \in {"closed", "exited", "aborted"}
    /\ reader.pc = "exited" => \A l \in Lanes : worker[l].pc = "ended"

LInv == AnswerInv /\ LineInv /\ LocatedInv /\ EndInv /\ LaneOrder

LEMMA InitLInv == Init => LInv
  BY LanesAssumption
     DEF Init, LInv, AnswerInv, LineInv, Line, LocatedInv, EndInv, LaneOrder, Busy, Reading,
         NoWork

-----------------------------------------------------------------------------
(* What a step changes of the fields the invariant speaks of.              *)

\* The fields of a worker after each of its steps.
LEMMA WorkerFields ==
    ASSUME TypeOK, NEW l \in Lanes, WorkerStep(l)
    PROVE  \/ Receive(l) /\ channel[l] # <<>> /\ worker'[l].pc = "got"
              /\ worker'[l].job = Head(channel[l]) /\ worker[l].pc = "idle"
           \/ WorkerEnds(l) /\ worker'[l].pc = "ended" /\ worker'[l].job = worker[l].job
              /\ worker[l].pc = "idle" /\ channel[l] = <<>>
           \/ (CancelBeforeStart(l) \/ Finish(l)) /\ worker'[l].pc = "idle" /\ Busy(l)
           \/ (NotCancelled(l) \/ BarrierReleased(l) \/ BarrierTimesOut(l) \/ Start(l)) /\ Busy(l)
              /\ worker'[l].pc \in {"barrier", "start", "run"} /\ worker'[l].job = worker[l].job
              /\ worker[l].pc # "finish"
           \/ RunEnds(l) /\ worker[l].pc = "run" /\ worker'[l].pc = "finish"
              /\ worker'[l].job = worker[l].job
           \/ Panic(l) /\ worker' = worker
<1>0. worker[l] \in WorkerState /\ worker \in [Lanes -> WorkerState]
    BY DEF TypeOK
<1>1. CASE Receive(l)
    BY <1>0, <1>1 DEF Receive, NoWork, At
<1>2. CASE WorkerEnds(l)
    BY <1>0, <1>2 DEF WorkerEnds, At, Goto, WorkerState
<1>3. CASE CancelBeforeStart(l) \/ Finish(l)
    BY <1>0, <1>3 DEF CancelBeforeStart, Finish, NoWork, At, Busy
<1>4. CASE NotCancelled(l)
    BY <1>0, <1>4 DEF NotCancelled, At, Goto, Busy, WorkerState
<1>5. CASE BarrierReleased(l) \/ BarrierTimesOut(l) \/ Start(l)
    BY <1>0, <1>5 DEF BarrierReleased, BarrierTimesOut, Start, At, Goto, Busy, WorkerState
<1>6. CASE RunEnds(l)
    BY <1>0, <1>6 DEF RunEnds, At, Goto, WorkerState
<1>7. CASE Panic(l)
    BY <1>7 DEF Panic
<1> QED
    BY <1>1, <1>2, <1>3, <1>4, <1>5, <1>6, <1>7 DEF WorkerStep

\* The jobs of the channels and of the busy workers are jobs.
LEMMA HeldJobs ==
    ASSUME IInv, NEW l \in Lanes
    PROVE  /\ channel[l] \in Seq(Jobs)
           /\ \A i \in 1..Len(channel[l]) : channel[l][i] \in Jobs
           /\ Busy(l) => worker[l].job \in Jobs
  BY DEF IInv, TypeOK, WorkInv, LaneWork

\* Only its own lane's worker, the one that holds it, or the refusal of a submit
\* answers a job; only its own worker executes it.
LEMMA WhoAnswers ==
    ASSUME IInv, LInv, [Next]_vars, NEW j \in Jobs
    PROVE  /\ answer'[j] # answer[j] =>
               \/ Submit(j) /\ answer'[j] = "rejected" /\ answer[j] = "none" /\ seq[j] = 0
               \/ /\ InHands(j) /\ answer[j] = "none"
                  /\ \/ CancelBeforeStart(LaneOf[j]) /\ answer'[j] = "cancelled"
                     \/ Finish(LaneOf[j]) /\ answer'[j] \in {"cancelled", "finished"}
           /\ j \in ran => j \in ran'
           /\ j \in ran' /\ j \notin ran => InHands(j) /\ RunEnds(LaneOf[j])
<1>0. TypeOK /\ AnswerInv /\ LineInv
    BY DEF IInv, LInv
<1>1. ASSUME NEW i \in Jobs, Submit(i)
      PROVE  /\ answer'[j] # answer[j] =>
                 Submit(j) /\ answer'[j] = "rejected" /\ answer[j] = "none" /\ seq[j] = 0
             /\ ran' = ran
  <2>1. i \notin requested.submit
      BY <1>1 DEF Submit
  <2>2. seq[i] = 0 /\ answer[i] = "none"
      BY <1>0, <2>1 DEF IInv, SeqInv, AnswerInv
  <2> QED
      BY <1>0, <1>1, <2>2 DEF Submit, TypeOK
<1>2. ASSUME NEW l \in Lanes, CancelBeforeStart(l) \/ Finish(l)
      PROVE  /\ answer'[j] # answer[j] =>
                 /\ InHands(j) /\ answer[j] = "none"
                 /\ \/ CancelBeforeStart(LaneOf[j]) /\ answer'[j] = "cancelled"
                    \/ Finish(LaneOf[j]) /\ answer'[j] \in {"cancelled", "finished"}
             /\ ran' = ran
  <2>1. Busy(l)
      BY <1>2 DEF CancelBeforeStart, Finish, At, Busy
  <2>2. LaneOf[worker[l].job] = l /\ answer[worker[l].job] = "none" /\ worker[l].job \in Jobs
      BY <1>0, <2>1, HeldJobs DEF LineInv, Line
  <2>3. answer'[j] # answer[j] => j = worker[l].job
      BY <1>0, <1>2 DEF CancelBeforeStart, Finish, Answer, TypeOK
  <2> QED
      BY <1>0, <1>2, <2>1, <2>2, <2>3 DEF CancelBeforeStart, Finish, Answer, TypeOK, InHands
<1>3. ASSUME NEW l \in Lanes, RunEnds(l)
      PROVE  answer' = answer /\ ran \subseteq ran'
             /\ (j \in ran' /\ j \notin ran => InHands(j) /\ RunEnds(LaneOf[j]))
  <2>1. Busy(l)
      BY <1>3 DEF RunEnds, At, Busy
  <2>2. LaneOf[worker[l].job] = l
      BY <1>0, <2>1 DEF LineInv, Line
  <2> QED
      BY <1>3, <2>1, <2>2 DEF RunEnds, InHands
<1>4. CASE UNCHANGED <<answer, ran>>
    BY <1>4
<1> QED
    BY <1>1, <1>2, <1>3, <1>4 DEF Next, ReaderStep, Enqueue, Cancel, Send, Exit, Shutdown,
       Exited, WorkerStep, Receive, WorkerEnds, NotCancelled, BarrierReleased,
       BarrierTimesOut, Start, Panic, vars, state

\* How the reader comes to hold a job.
LEMMA ReaderHolds ==
    ASSUME TypeOK, [Next]_vars
    PROVE  /\ reader'.pc = "enqueue" =>
               \/ reader' = reader
               \/ \E j \in Jobs : Submit(j) /\ reader'.job = j /\ ~QueueFull(LaneOf[j])
                                /\ answer' = answer
           /\ reader'.pc = "send" =>
               \/ reader' = reader /\ UNCHANGED <<seq, nextSeq>>
               \/ Enqueue /\ reader'.job = reader.job /\ reader.pc = "enqueue"
<1>1. ASSUME NEW j \in Jobs, Submit(j)
      PROVE  \/ reader' = reader /\ reader.pc = "read"
             \/ reader'.pc = "enqueue" /\ reader'.job = j /\ ~QueueFull(LaneOf[j])
                /\ answer' = answer
    BY <1>1 DEF Submit, Reading
<1>2. CASE Enqueue
    BY <1>2 DEF Enqueue, TypeOK, ReaderState
<1>3. CASE Send \/ Exit \/ Shutdown
    BY <1>3 DEF Send, Exit, Shutdown, Reading, TypeOK, ReaderState
<1>4. ASSUME NEW l \in Lanes, WorkerStep(l)
      PROVE  (reader' = reader /\ UNCHANGED <<seq, nextSeq>>) \/ reader'.pc = "aborted"
    BY <1>4, WorkersKeepNumbers DEF TypeOK, ReaderState
<1>5. CASE Exited \/ UNCHANGED vars \/ \E j \in Jobs : Cancel(j)
    BY <1>5 DEF Exited, Cancel, vars, state
<1> QED
    BY <1>1, <1>2, <1>3, <1>4, <1>5 DEF Next, ReaderStep

-----------------------------------------------------------------------------
LEMMA AnswerStep == IInv /\ LInv /\ [Next]_vars => AnswerInv'
<1> SUFFICES ASSUME IInv, LInv, [Next]_vars PROVE AnswerInv'
    OBVIOUS
<1>0. TypeOK /\ SeqInv /\ AnswerInv /\ LineInv
    BY DEF IInv, LInv
<1>1. ASSUME NEW j \in Jobs, InHands(j)
      PROVE  seq[j] # 0 /\ (worker[LaneOf[j]].pc = "finish" => j \in ran)
    BY <1>1, LanesAssumption DEF InHands, IInv, WorkInv, LaneWork
<1>2. requested.submit \subseteq requested'.submit
      /\ requested.cancel \subseteq requested'.cancel
      /\ \A j \in Jobs : Submit(j) => j \in requested'.submit
  <2>1. ASSUME NEW j \in Jobs, Submit(j) \/ Cancel(j)
        PROVE  /\ requested.submit \subseteq requested'.submit
               /\ requested.cancel \subseteq requested'.cancel
               /\ Submit(j) => j \in requested'.submit
      BY <1>0, <2>1 DEF Submit, Cancel, TypeOK, Requests
  <2>2. CASE UNCHANGED requested
      BY <2>1, <2>2
  <2> QED
      BY <2>1, <2>2, WorkersKeepNumbers DEF Next, ReaderStep, Enqueue, Send, Exit, Shutdown,
         Exited, vars
<1>3. ASSUME NEW j \in Jobs, answer'[j] # "none" PROVE j \in requested'.submit
    BY <1>0, <1>1, <1>2, <1>3, WhoAnswers DEF AnswerInv, SeqInv
<1>4. ASSUME NEW j \in Jobs, seq'[j] = 0
      PROVE  answer'[j] \in {"none", "rejected"} /\ j \notin ran'
  <2>1. seq[j] = 0
      BY <1>4, NumbersKept
  <2> QED
      BY <1>0, <1>1, <2>1, WhoAnswers DEF AnswerInv
<1>5. ASSUME NEW j \in Jobs, answer'[j] = "rejected" PROVE seq'[j] = 0
  <2>1. CASE Enqueue
      BY <1>0, <1>5, <2>1 DEF Enqueue, AnswerInv, TypeOK
  <2>2. CASE UNCHANGED seq
      BY <1>0, <1>5, <2>2, WhoAnswers DEF AnswerInv
  <2> QED
      BY <2>1, <2>2, WorkersKeepNumbers DEF Next, ReaderStep, Submit, Cancel, Send, Exit,
         Shutdown, Exited, vars, state
<1>6. ASSUME NEW j \in Jobs, answer'[j] = "finished" PROVE j \in ran'
    BY <1>0, <1>1, <1>6, WhoAnswers DEF AnswerInv, Finish, At, CancelBeforeStart
<1>7. cancelled' \subseteq requested'.cancel
  <2>1. ASSUME NEW j \in Jobs, Cancel(j) PROVE cancelled' \subseteq requested'.cancel
      BY <1>0, <2>1 DEF Cancel, AnswerInv, TypeOK, Requests
  <2>2. CASE cancelled' \subseteq cancelled
      BY <1>0, <1>2, <2>2 DEF AnswerInv
  <2> QED
      BY <2>1, <2>2 DEF Next, ReaderStep, Submit, Enqueue, Send, Exit, Shutdown, Exited,
         WorkerStep, Receive, WorkerEnds, CancelBeforeStart, NotCancelled, BarrierReleased,
         BarrierTimesOut, Start, RunEnds, Panic, Finish, vars
<1>8. ASSUME reader'.pc = "enqueue" PROVE answer'[reader'.job] = "none"
  <2>1. CASE reader' = reader
    <3>1. reader.job \in Jobs /\ seq[reader.job] = 0 /\ reader # Reading
        BY <1>0, <1>8, <2>1 DEF SeqInv, Reading
    <3> QED
        BY <1>0, <1>1, <1>8, <2>1, <3>1, WhoAnswers DEF AnswerInv, Submit
  <2>2. ASSUME NEW j \in Jobs, Submit(j), reader'.job = j, answer' = answer
        PROVE  answer'[j] = "none"
      BY <1>0, <2>2 DEF Submit, AnswerInv
  <2> QED
      BY <1>0, <1>8, <2>1, <2>2, ReaderHolds
<1>9. ASSUME reader'.pc = "send"
      PROVE  seq'[reader'.job] = nextSeq' /\ answer'[reader'.job] = "none"
             /\ reader'.job \notin ran'
  <2>1. CASE reader' = reader /\ UNCHANGED <<seq, nextSeq>>
    <3>1. reader.job \in Jobs /\ reader # Reading
        BY <1>0, <1>9, <2>1 DEF SeqInv, Reading
    <3>2. ~InHands(reader.job)
      <4>1. Line(LaneOf[reader.job])
          BY <1>0, <3>1, LanesAssumption DEF LineInv
      <4> QED
          BY <1>0, <1>9, <2>1, <3>1, <4>1 DEF InHands, Line, TypeOK
    <3> QED
        BY <1>0, <1>9, <2>1, <3>1, <3>2, WhoAnswers DEF AnswerInv, Submit
  <2>2. CASE Enqueue /\ reader'.job = reader.job /\ reader.pc = "enqueue"
      BY <1>0, <2>2 DEF Enqueue, AnswerInv, SeqInv, TypeOK
  <2> QED
      BY <1>0, <1>9, <2>1, <2>2, ReaderHolds
<1> QED
    BY <1>3, <1>4, <1>5, <1>6, <1>7, <1>8, <1>9 DEF AnswerInv

-----------------------------------------------------------------------------
(* The order of a lane.                                                    *)

\* An unanswered job keeps its number, its lack of an answer and of an execution
\* in every step but the three of the worker that has it in its hands.
LEMMA HeldKept ==
    ASSUME IInv, LInv, [Next]_vars, NEW x \in Jobs, seq[x] # 0, answer[x] = "none",
           \/ ~InHands(x)
           \/ ~(\/ CancelBeforeStart(LaneOf[x]) \/ Finish(LaneOf[x]) \/ RunEnds(LaneOf[x]))
    PROVE  answer'[x] = "none" /\ (x \in ran' <=> x \in ran) /\ seq'[x] = seq[x]
  BY WhoAnswers, NumbersKept

LEMMA LineStep == IInv /\ LInv /\ [Next]_vars => LineInv'
<1> SUFFICES ASSUME IInv, LInv, [Next]_vars, NEW m \in Lanes PROVE Line(m)'
    BY DEF LineInv
<1>0. TypeOK /\ SeqInv /\ AnswerInv /\ Line(m)
    BY DEF IInv, LInv, LineInv
<1>1. /\ channel[m] \in Seq(Jobs)
      /\ \A i \in 1..Len(channel[m]) : channel[m][i] \in Jobs /\ seq[channel[m][i]] # 0
      /\ Busy(m) => worker[m].job \in Jobs /\ seq[worker[m].job] # 0
    BY HeldJobs DEF IInv, WorkInv, LaneWork
<1>2. seq \in [Jobs -> Nat] /\ nextSeq \in Nat
    BY <1>0 DEF TypeOK
\* The jobs of the channel are not in the worker's hands.
<1>3. ASSUME NEW i \in 1..Len(channel[m])
      PROVE  /\ answer'[channel[m][i]] = "none" /\ channel[m][i] \notin ran'
             /\ seq'[channel[m][i]] = seq[channel[m][i]]
  <2>1. ~InHands(channel[m][i])
      BY <1>0, <1>1, <1>2 DEF Line, InHands
  <2> QED
      BY <1>0, <1>1, <2>1, HeldKept DEF Line
<1>4. ASSUME Busy(m)
      PROVE  seq'[worker[m].job] = seq[worker[m].job]
             /\ (~(CancelBeforeStart(m) \/ Finish(m) \/ RunEnds(m)) =>
                   /\ answer'[worker[m].job] = "none"
                   /\ worker[m].job \in ran' <=> worker[m].job \in ran)
  <2>1. LaneOf[worker[m].job] = m /\ answer[worker[m].job] = "none"
      BY <1>0, <1>4 DEF Line
  <2> QED
      BY <1>1, <1>4, <2>1, HeldKept, NumbersKept
\* A step that leaves the lane alone.
<1>5. ASSUME channel'[m] = channel[m], worker'[m] = worker[m],
             ~(CancelBeforeStart(m) \/ Finish(m) \/ RunEnds(m)),
             reader'.pc = "send" =>
                 \/ reader' = reader
                 \/ reader'.job \in Jobs /\ seq'[reader'.job] = nextSeq + 1
      PROVE  Line(m)'
  <2>1. reader'.pc = "send" =>
          /\ \A i \in 1..Len(channel[m]) : seq[channel[m][i]] < seq'[reader'.job]
          /\ Busy(m) => seq[worker[m].job] < seq'[reader'.job]
    <3>1. CASE reader' = reader /\ reader.pc = "send"
      <4>1. seq'[reader.job] = seq[reader.job]
          BY <1>0, <3>1, NumbersKept DEF SeqInv
      <4> QED
          BY <1>0, <3>1, <4>1 DEF Line
    <3>2. CASE seq'[reader'.job] = nextSeq + 1
        BY <1>0, <1>1, <1>2, <3>2 DEF SeqInv
    <3> QED
        BY <1>5, <3>1, <3>2
  <2> QED
      BY <1>0, <1>1, <1>3, <1>4, <1>5, <2>1 DEF Line, Busy
<1>6. CASE Enqueue
  <2>1. reader.job \in Jobs /\ reader'.job = reader.job
      BY <1>0, <1>6 DEF Enqueue, SeqInv, TypeOK, ReaderState
  <2>2. seq'[reader.job] = nextSeq + 1
      BY <1>0, <1>6, <2>1 DEF Enqueue, TypeOK
  <2>3. ~(CancelBeforeStart(m) \/ Finish(m) \/ RunEnds(m))
      BY <1>0, <1>6 DEF Enqueue, CancelBeforeStart, Finish, RunEnds, TypeOK, ReaderState
  <2> QED
      BY <1>5, <1>6, <2>1, <2>2, <2>3 DEF Enqueue
<1>7. CASE Send
  <2>1. reader' = Reading /\ worker' = worker /\ UNCHANGED <<seq, answer, ran>>
      BY <1>7 DEF Send, state
  <2>2. reader.job \in Jobs /\ answer[reader.job] = "none" /\ reader.job \notin ran
      BY <1>0, <1>7 DEF Send, SeqInv, AnswerInv
  <2>3. CASE LaneOf[reader.job] # m
    <3>1. channel'[m] = channel[m]
        BY <1>0, <1>7, <2>3 DEF Send, TypeOK
    <3> QED
        BY <1>0, <1>1, <2>1, <3>1 DEF Line, Busy, Reading
  <2>4. CASE LaneOf[reader.job] = m
    <3>1. channel'[m] = Append(channel[m], reader.job)
        BY <1>0, <1>7, <2>4 DEF Send, TypeOK
    <3>2. /\ Len(channel'[m]) = Len(channel[m]) + 1
          /\ \A i \in 1..Len(channel[m]) : channel'[m][i] = channel[m][i]
          /\ channel'[m][Len(channel[m]) + 1] = reader.job
        BY <1>1, <2>2, <3>1
    <3>3. reader.pc = "send" /\ Len(channel[m]) \in Nat
        BY <1>1, <1>7 DEF Send
    <3>4. \A i \in 1..Len(channel'[m]) :
            LaneOf[channel'[m][i]] = m /\ answer[channel'[m][i]] = "none"
            /\ channel'[m][i] \notin ran
        BY <1>0, <2>2, <2>4, <3>2, <3>3 DEF Line
    <3>5. \A i, k \in 1..Len(channel'[m]) : i < k =>
            seq[channel'[m][i]] < seq[channel'[m][k]]
      <4>1. SUFFICES ASSUME NEW i \in 1..Len(channel'[m]), NEW k \in 1..Len(channel'[m]), i < k
                     PROVE  seq[channel'[m][i]] < seq[channel'[m][k]]
          OBVIOUS
      <4>2. i \in 1..Len(channel[m]) /\ channel'[m][i] = channel[m][i]
          BY <3>2, <3>3, <4>1
      <4>3. CASE k \in 1..Len(channel[m])
          BY <1>0, <3>2, <4>1, <4>2, <4>3 DEF Line
      <4>4. CASE k = Len(channel[m]) + 1
          BY <1>0, <3>2, <3>3, <4>2, <4>4 DEF Line
      <4> QED
          BY <3>2, <3>3, <4>1, <4>3, <4>4
    <3>6. Busy(m) => \A i \in 1..Len(channel'[m]) : seq[worker[m].job] < seq[channel'[m][i]]
      <4>1. SUFFICES ASSUME Busy(m), NEW i \in 1..Len(channel'[m])
                     PROVE  seq[worker[m].job] < seq[channel'[m][i]]
          OBVIOUS
      <4>2. /\ \A k \in 1..Len(channel[m]) : seq[worker[m].job] < seq[channel[m][k]]
            /\ seq[worker[m].job] < seq[reader.job]
          BY <1>0, <3>3, <4>1 DEF Line
      <4>3. CASE i \in 1..Len(channel[m])
          BY <3>2, <4>2, <4>3
      <4>4. CASE i = Len(channel[m]) + 1
          BY <3>2, <4>2, <4>4
      <4> QED
          BY <3>2, <3>3, <4>1, <4>3, <4>4
    <3> QED
        BY <1>0, <2>1, <3>4, <3>5, <3>6 DEF Line, Busy, Reading
  <2> QED
      BY <2>3, <2>4
<1>8. ASSUME NEW l \in Lanes, WorkerStep(l) PROVE Line(m)'
  <2>0. reader' = reader \/ reader'.pc = "aborted"
      BY <1>0, <1>8, WorkersKeepNumbers DEF TypeOK, ReaderState
  <2>1. CASE l # m
    <3>1. channel'[m] = channel[m] /\ worker'[m] = worker[m]
        BY <1>0, <1>8, <2>1, OthersWorkOn
    <3>2. ~(CancelBeforeStart(m) \/ Finish(m) \/ RunEnds(m))
      <4>1. ASSUME CancelBeforeStart(m) \/ Finish(m) \/ RunEnds(m) PROVE worker'[m] # worker[m]
          BY <1>0, <4>1 DEF CancelBeforeStart, Finish, RunEnds, At, Goto, NoWork, TypeOK,
             WorkerState
      <4> QED
          BY <3>1, <4>1
    <3> QED
        BY <1>5, <2>0, <3>1, <3>2
  <2>2. CASE l = m
    <3>1. CASE Receive(m)
      <4>1. /\ channel'[m] = Tail(channel[m]) /\ channel[m] # <<>>
            /\ worker'[m].job = Head(channel[m]) /\ worker'[m].pc = "got" /\ reader' = reader
          BY <1>0, <3>1 DEF Receive, NoWork, TypeOK
      <4>2. /\ Len(channel'[m]) = Len(channel[m]) - 1 /\ Len(channel[m]) \in Nat \ {0}
            /\ \A i \in 1..Len(channel'[m]) : channel'[m][i] = channel[m][i + 1]
            /\ worker'[m].job = channel[m][1]
          BY <1>1, <4>1
      <4>3. \A i \in 1..Len(channel'[m]) :
              /\ LaneOf[channel'[m][i]] = m /\ answer'[channel'[m][i]] = "none"
              /\ channel'[m][i] \notin ran' /\ seq'[channel'[m][i]] = seq[channel[m][i + 1]]
          BY <1>0, <1>3, <4>2 DEF Line
      <4>4. \A i, k \in 1..Len(channel'[m]) : i < k =>
              seq'[channel'[m][i]] < seq'[channel'[m][k]]
          BY <1>0, <4>2, <4>3 DEF Line
      <4>5. /\ LaneOf[worker'[m].job] = m /\ answer'[worker'[m].job] = "none"
            /\ worker'[m].job \notin ran' /\ seq'[worker'[m].job] = seq[channel[m][1]]
          BY <1>0, <1>3, <4>2 DEF Line
      <4>6. \A i \in 1..Len(channel'[m]) : seq'[worker'[m].job] < seq'[channel'[m][i]]
          BY <1>0, <4>2, <4>3, <4>5 DEF Line
      <4>7. reader'.pc = "send" =>
              /\ \A i \in 1..Len(channel'[m]) : seq'[channel'[m][i]] < seq'[reader'.job]
              /\ seq'[worker'[m].job] < seq'[reader'.job]
        <5>1. reader.pc = "send" => seq'[reader.job] = seq[reader.job]
            BY <1>0, NumbersKept DEF SeqInv
        <5> QED
            BY <1>0, <4>1, <4>2, <4>3, <4>5, <5>1 DEF Line
      <4> QED
          BY <4>1, <4>3, <4>4, <4>5, <4>6, <4>7 DEF Line
    <3>2. CASE CancelBeforeStart(m) \/ Finish(m)
      <4>1. worker'[m] = NoWork /\ channel' = channel /\ reader' = reader
          BY <1>0, <3>2 DEF CancelBeforeStart, Finish, TypeOK
      <4>2. reader.pc = "send" => seq'[reader.job] = seq[reader.job]
          BY <1>0, NumbersKept DEF SeqInv
      <4> QED
          BY <1>0, <1>3, <4>1, <4>2 DEF Line, Busy, NoWork
    <3>3. CASE RunEnds(m)
      <4>1. /\ worker'[m].job = worker[m].job /\ worker'[m].pc = "finish" /\ Busy(m)
            /\ UNCHANGED <<channel, reader, seq, answer>> /\ worker[m].job \in ran'
          BY <1>0, <3>3 DEF RunEnds, At, Goto, Busy, TypeOK, WorkerState, state
      <4> QED
          BY <1>0, <1>3, <4>1 DEF Line, Busy
    <3>4. CASE NotCancelled(m) \/ BarrierReleased(m) \/ BarrierTimesOut(m) \/ Start(m)
      <4>1. /\ worker'[m].job = worker[m].job /\ worker'[m].pc \in {"barrier", "start", "run"}
            /\ worker[m].pc # "finish" /\ Busy(m) /\ Busy(m)'
            /\ UNCHANGED <<channel, reader, seq, answer, ran>>
          BY <1>0, <3>4 DEF NotCancelled, BarrierReleased, BarrierTimesOut, Start, At, Goto,
             Busy, TypeOK, WorkerState, state
      <4> QED
          BY <1>0, <4>1 DEF Line
    <3>5. CASE WorkerEnds(m) \/ Panic(m)
      <4>1. /\ UNCHANGED <<channel, seq, answer, ran>>
            /\ worker'[m] = worker[m] \/ worker'[m].pc = "ended"
          BY <1>0, <3>5 DEF WorkerEnds, Panic, Goto, TypeOK, WorkerState, state
      <4> QED
          BY <1>0, <2>0, <4>1 DEF Line, Busy
    <3> QED
        BY <1>8, <2>2, <3>1, <3>2, <3>3, <3>4, <3>5 DEF WorkerStep
  <2> QED
      BY <2>1, <2>2
<1>9. ASSUME channel' = channel, worker' = worker, reader' = reader \/ reader'.pc # "send"
      PROVE  Line(m)'
  <2>1. ~(CancelBeforeStart(m) \/ Finish(m) \/ RunEnds(m))
      BY <1>0, <1>9 DEF CancelBeforeStart, Finish, RunEnds, At, Goto, NoWork, TypeOK,
         WorkerState
  <2> QED
      BY <1>5, <1>9, <2>1
<1> QED
  <2>1. ASSUME NEW j \in Jobs, Submit(j) \/ Cancel(j) PROVE Line(m)'
      BY <1>9, <2>1 DEF Submit, Cancel
  <2>2. CASE Exit \/ Shutdown
      BY <1>0, <1>9, <2>2 DEF Exit, Shutdown, TypeOK, ReaderState
  <2>3. CASE Exited \/ UNCHANGED vars
      BY <1>9, <2>3 DEF Exited, vars
  <2> QED
      BY <1>6, <1>7, <1>8, <2>1, <2>2, <2>3 DEF Next, ReaderStep

-----------------------------------------------------------------------------
(* Where an accepted job is, and how the workers end.                      *)

LEMMA LocatedStep == IInv /\ LInv /\ [Next]_vars => LocatedInv'
<1> SUFFICES ASSUME IInv, LInv, [Next]_vars, reader'.pc # "aborted", NEW j \in Jobs,
                    seq'[j] # 0, answer'[j] = "none"
             PROVE  Located(j)'
    BY DEF LocatedInv
<1> DEFINE l == LaneOf[j]
<1>0. TypeOK /\ SeqInv /\ l \in Lanes /\ channel[l] \in Seq(Jobs)
    BY LanesAssumption DEF IInv, TypeOK
<1>1. CASE Enqueue /\ j = reader.job
    BY <1>0, <1>1 DEF Enqueue, Located, TypeOK, ReaderState
<1>2. CASE ~(Enqueue /\ j = reader.job)
  <2>1. seq[j] # 0
      BY <1>0, <1>2 DEF Next, ReaderStep, Enqueue, Submit, Cancel, Send, Exit, Shutdown,
         Exited, WorkerStep, Receive, WorkerEnds, CancelBeforeStart, NotCancelled,
         BarrierReleased, BarrierTimesOut, Start, RunEnds, Panic, Finish, vars, state,
         TypeOK
  <2>2. answer[j] = "none"
      BY <2>1, WhoAnswers DEF LInv, AnswerInv, IInv
  <2>3. reader.pc # "aborted"
    <3>1. reader.pc = "aborted" => reader' = reader
        BY DEF Next, ReaderStep, Enqueue, Submit, Cancel, Send, Exit, Shutdown, Exited, Gone,
           vars, Reading
    <3> QED
        BY <3>1
  <2>4. Located(j)
      BY <2>1, <2>2, <2>3 DEF LInv, LocatedInv
  <2>5. CASE Send
    <3>1. CASE reader.job = j
      <4>1. channel'[l] = Append(channel[l], j)
          BY <1>0, <2>5, <3>1 DEF Send, TypeOK
      <4>2. Len(channel[l]) + 1 \in 1..Len(channel'[l])
            /\ channel'[l][Len(channel[l]) + 1] = j
          BY <1>0, <4>1
      <4> QED
          BY <4>2 DEF Located, InChannel
    <3>2. CASE reader.job # j
      <4>1. channel'[l] = channel[l] \/ channel'[l] = Append(channel[l], reader.job)
          BY <1>0, <2>5 DEF Send, TypeOK
      <4>2. InChannel(j) => InChannel(j)'
          BY <1>0, <4>1 DEF InChannel
      <4> QED
          BY <2>4, <2>5, <3>2, <4>2 DEF Located, InHands, Send, Busy
    <3> QED
        BY <3>1, <3>2
  <2>6. ASSUME NEW m \in Lanes, WorkerStep(m) PROVE Located(j)'
    <3>0. reader' = reader
        BY <1>0, <2>6, WorkersKeepNumbers DEF TypeOK, ReaderState
    <3>1. CASE m # l
      <4>1. worker'[l] = worker[l] /\ channel'[l] = channel[l]
          BY <1>0, <2>6, <3>1, OthersWorkOn
      <4> QED
          BY <2>4, <3>0, <4>1 DEF Located, InChannel, InHands, Busy
    <3>2. CASE m = l
      <4>1. CASE Receive(l)
        <5>1. /\ channel[l] # <<>> /\ worker'[l].pc = "got" /\ worker[l].pc = "idle"
              /\ worker'[l].job = Head(channel[l]) /\ channel'[l] = Tail(channel[l])
            BY <1>0, <4>1 DEF Receive, NoWork, At, TypeOK
        <5>2. CASE InChannel(j)
          <6>1. PICK i \in 1..Len(channel[l]) : channel[l][i] = j
              BY <5>2 DEF InChannel
          <6>2. CASE i = 1
              BY <1>0, <5>1, <6>1, <6>2 DEF Located, InHands, Busy
          <6>3. CASE i # 1
            <7>1. i - 1 \in 1..Len(channel'[l]) /\ channel'[l][i - 1] = j
                BY <1>0, <5>1, <6>1, <6>3
            <7> QED
                BY <7>1 DEF Located, InChannel
          <6> QED
              BY <6>2, <6>3
        <5>3. ~InHands(j)
            BY <5>1 DEF InHands, Busy
        <5> QED
            BY <2>4, <3>0, <5>2, <5>3 DEF Located
      <4>2. CASE CancelBeforeStart(l) \/ Finish(l)
        <5>1. ~InHands(j)
            BY <1>0, <1>2, <4>2 DEF InHands, CancelBeforeStart, Finish, Answer, TypeOK
        <5>2. channel' = channel
            BY <4>2 DEF CancelBeforeStart, Finish
        <5> QED
            BY <2>4, <3>0, <5>1, <5>2 DEF Located, InChannel
      <4>3. CASE WorkerEnds(l)
        <5>1. worker[l].pc = "idle" /\ channel' = channel
            BY <4>3 DEF WorkerEnds, At
        <5> QED
            BY <2>4, <3>0, <5>1 DEF Located, InChannel, InHands, Busy
      <4>4. CASE ~(Receive(l) \/ CancelBeforeStart(l) \/ Finish(l) \/ WorkerEnds(l))
        <5>1. (Busy(l)' /\ worker'[l].job = worker[l].job) \/ worker' = worker
            BY <1>0, <2>6, <3>2, <4>4, WorkerFields DEF Busy
        <5>2. channel' = channel
            BY <2>6, <3>2, <4>4 DEF WorkerStep, NotCancelled, BarrierReleased,
               BarrierTimesOut, Start, RunEnds, Panic
        <5> QED
            BY <2>4, <3>0, <5>1, <5>2 DEF Located, InChannel, InHands, Busy
      <4> QED
          BY <4>1, <4>2, <4>3, <4>4
    <3> QED
        BY <3>1, <3>2
  <2>7. CASE reader.pc = "send" => reader' = reader
    <3>1. CASE channel' = channel /\ worker' = worker
        BY <2>4, <2>7, <3>1 DEF Located, InChannel, InHands, Busy
    <3> QED
        BY <2>5, <2>6, <3>1 DEF Next, ReaderStep, Enqueue, Submit, Cancel, Exit, Shutdown,
           Exited, vars
  <2> QED
      BY <2>5, <2>6, <2>7 DEF Next, ReaderStep, Enqueue, Submit, Cancel, Exit, Shutdown,
         Exited, vars, Reading
<1> QED
    BY <1>1, <1>2

LEMMA EndStep == IInv /\ LInv /\ [Next]_vars => EndInv'
<1> SUFFICES ASSUME IInv, LInv, [Next]_vars PROVE EndInv'
    OBVIOUS
<1>0. TypeOK /\ SeqInv /\ EndInv
    BY DEF IInv, LInv
<1>1. ASSUME NEW m \in Lanes, WorkerStep(m) PROVE EndInv'
  <2>1. ASSUME NEW l \in Lanes, l # m
        PROVE  worker'[l] = worker[l] /\ channel'[l] = channel[l]
      BY <1>0, <1>1, <2>1, OthersWorkOn
  <2>2. reader' = reader \/ reader'.pc = "aborted"
      BY <1>0, <1>1, WorkersKeepNumbers DEF TypeOK, ReaderState
  <2>3. reader.pc # "exited"
      BY <1>0, <1>1, WorkerFields DEF EndInv, WorkerStep, Panic, At, Busy
  <2>4. CASE worker'[m].pc # "ended"
      BY <1>0, <2>1, <2>2, <2>3, <2>4 DEF EndInv
  <2>5. CASE WorkerEnds(m)
      BY <1>0, <2>1, <2>2, <2>3, <2>5 DEF EndInv, WorkerEnds
  <2>6. CASE Panic(m)
      BY <1>0, <2>2, <2>3, <2>6 DEF EndInv, Panic
  <2> QED
      BY <1>0, <1>1, <2>4, <2>5, <2>6, WorkerFields
<1>2. CASE Enqueue \/ Send
    BY <1>0, <1>2 DEF Enqueue, Send, EndInv, Reading, TypeOK, ReaderState
<1>3. CASE Exit \/ Shutdown
    BY <1>0, <1>3 DEF Exit, Shutdown, EndInv, Reading, TypeOK, ReaderState
<1>4. ASSUME NEW j \in Jobs, Submit(j) \/ Cancel(j) PROVE EndInv'
    BY <1>0, <1>4 DEF Submit, Cancel, EndInv, Reading, TypeOK, ReaderState
<1>5. CASE Exited \/ UNCHANGED vars
    BY <1>0, <1>5 DEF Exited, vars, EndInv
<1> QED
    BY <1>1, <1>2, <1>3, <1>4, <1>5 DEF Next, ReaderStep

LEMMA OrderStep == IInv /\ LInv /\ [Next]_vars => LaneOrder'
<1> SUFFICES ASSUME IInv, LInv, [Next]_vars, NEW i \in Jobs, NEW j \in Jobs,
                    LaneOf[i] = LaneOf[j], j \in ran', seq'[i] # 0, seq'[i] < seq'[j]
             PROVE  answer'[i] # "none" \/ i \in ran'
    BY DEF LaneOrder
<1>0. TypeOK /\ SeqInv /\ WorkInv /\ LaneOf[j] \in Lanes /\ Line(LaneOf[j])
    BY LanesAssumption DEF IInv, LInv, LineInv
<1>1. seq[j] # 0
  <2>1. InHands(j) => seq[j] # 0
      BY <1>0 DEF InHands, WorkInv, LaneWork
  <2> QED
      BY <2>1, WhoAnswers DEF LInv, AnswerInv
<1>2. seq[i] # 0 /\ seq[i] < seq[j]
    BY <1>1, NewestIsLast
<1>3. (answer[i] # "none" => answer'[i] # "none") /\ (i \in ran => i \in ran')
    BY WhoAnswers
<1>4. CASE j \in ran
    BY <1>2, <1>3, <1>4 DEF LInv, LaneOrder
<1>5. CASE j \notin ran
  <2>1. InHands(j) /\ RunEnds(LaneOf[j])
      BY <1>5, WhoAnswers
  <2>2. CASE answer[i] # "none"
      BY <1>3, <2>2
  <2>3. CASE answer[i] = "none"
    <3>1. Located(i) /\ reader.pc # "aborted"
      <4>1. reader.pc # "aborted"
          BY <1>5 DEF Next, Gone, ReaderStep, Enqueue, Submit, Cancel, Send, Exit, Shutdown,
             Exited, vars, Reading
      <4> QED
          BY <1>2, <2>3, <4>1 DEF LInv, LocatedInv
    <3>2. seq[i] \in Nat /\ seq[j] \in Nat /\ nextSeq \in Nat /\ seq[j] <= nextSeq
        BY <1>0 DEF TypeOK, SeqInv
    <3>3. ~(reader.pc = "send" /\ reader.job = i)
        BY <1>2, <3>2 DEF LInv, AnswerInv
    <3>4. ~InChannel(i)
        BY <1>0, <1>2, <2>1, <3>2 DEF InChannel, InHands, Line
    <3>5. ~InHands(i)
        BY <1>2, <2>1, <3>2 DEF InHands
    <3> QED
        BY <3>1, <3>3, <3>4, <3>5 DEF Located
  <2> QED
      BY <2>2, <2>3
<1> QED
    BY <1>4, <1>5

LEMMA LInvStep == IInv /\ LInv /\ [Next]_vars => LInv'
  BY AnswerStep, LineStep, LocatedStep, EndStep, OrderStep DEF LInv

LEMMA LaneInductive == Spec => [](IInv /\ LInv)
<1>1. Init => IInv /\ LInv
    BY InitIInv, InitLInv
<1>2. IInv /\ LInv /\ [Next]_vars => (IInv /\ LInv)'
    BY IInvStep, LInvStep
<1> QED
    BY <1>1, <1>2, PTL DEF Spec

-----------------------------------------------------------------------------
(* The promise.                                                            *)

\* The reader reserves a place before it takes it.
BoundInv ==
    /\ IsFiniteSet(queued)
    /\ QueuesBounded
    /\ reader.pc = "enqueue" => ~QueueFull(LaneOf[reader.job])

LEMMA InitBound == Init => BoundInv
<1> SUFFICES ASSUME Init PROVE BoundInv
    OBVIOUS
<1>1. \A l \in Lanes : QueuedIn(l) = {}
    BY DEF Init, QueuedIn
<1>2. IsFiniteSet({}) /\ Cardinality({}) = 0
    BY FS_EmptySet
<1>3. QueuesBounded
    BY <1>1, <1>2, QueuedAssumption DEF QueuesBounded
<1>4. queued = {} /\ reader.pc = "read"
    BY DEF Init, Reading
<1> QED
    BY <1>2, <1>3, <1>4 DEF BoundInv

\* A list that only loses jobs stays within its bound.
LEMMA ShorterIsBounded ==
    ASSUME TypeOK, BoundInv, queued' \subseteq queued, reader'.pc = "enqueue" => reader' = reader,
           SeqInv
    PROVE  BoundInv'
<1>1. IsFiniteSet(queued')
    BY FS_Subset DEF BoundInv
<1>2. ASSUME NEW l \in Lanes
      PROVE  /\ Cardinality(QueuedIn(l)') <= Cardinality(QueuedIn(l))
             /\ Cardinality(QueuedIn(l)') \in Nat /\ Cardinality(QueuedIn(l)) \in Nat
  <2>1. QueuedIn(l) \subseteq queued /\ QueuedIn(l)' \subseteq QueuedIn(l)
      BY DEF QueuedIn
  <2>2. IsFiniteSet(QueuedIn(l)) /\ IsFiniteSet(QueuedIn(l)')
      BY <2>1, FS_Subset DEF BoundInv
  <2> QED
      BY <2>1, <2>2, FS_Subset, FS_CardinalityType
<1>3. \A l \in Lanes : MaxQueued[l] \in Nat
    BY QueuedAssumption
<1>4. ASSUME reader'.pc = "enqueue" PROVE ~QueueFull(LaneOf[reader.job])'
  <2>1. LaneOf[reader.job] \in Lanes /\ reader' = reader
      BY <1>4, LanesAssumption DEF SeqInv
  <2> QED
      BY <1>2, <1>3, <1>4, <2>1 DEF BoundInv, QueueFull
<1> QED
    BY <1>1, <1>2, <1>3, <1>4 DEF BoundInv, QueuesBounded

LEMMA BoundStep == IInv /\ BoundInv /\ [Next]_vars => BoundInv'
<1> SUFFICES ASSUME IInv, BoundInv, [Next]_vars PROVE BoundInv'
    OBVIOUS
<1>0. TypeOK /\ SeqInv
    BY DEF IInv
<1>1. CASE Enqueue
  <2> DEFINE j == reader.job
             m == LaneOf[j]
  <2>1. j \in Jobs /\ m \in Lanes /\ ~QueueFull(m)
      BY <1>0, <1>1, LanesAssumption DEF Enqueue, SeqInv, BoundInv
  <2>2. queued' = queued \cup {j} /\ reader'.pc = "send"
      BY <1>0, <1>1 DEF Enqueue, TypeOK, ReaderState
  <2>3. IsFiniteSet(queued')
      BY <2>2, FS_AddElement DEF BoundInv
  <2>4. ASSUME NEW l \in Lanes PROVE Cardinality(QueuedIn(l)') <= MaxQueued[l]
    <3>1. CASE l # m
      <4>1. QueuedIn(l)' = QueuedIn(l)
          BY <2>2, <3>1 DEF QueuedIn
      <4> QED
          BY <4>1 DEF BoundInv, QueuesBounded
    <3>2. CASE l = m
      <4>1. QueuedIn(l)' = QueuedIn(l) \cup {j}
          BY <2>2, <3>2 DEF QueuedIn
      <4>2. IsFiniteSet(QueuedIn(l))
          BY FS_Subset DEF QueuedIn, BoundInv
      <4>3. /\ Cardinality(QueuedIn(l)) \in Nat
            /\ Cardinality(QueuedIn(l)') \in
                  {Cardinality(QueuedIn(l)), Cardinality(QueuedIn(l)) + 1}
          BY <4>1, <4>2, FS_AddElement, FS_CardinalityType
      <4>4. Cardinality(QueuedIn(l)) < MaxQueued[l] /\ MaxQueued[l] \in Nat
          BY <2>1, <3>2, <4>3, QueuedAssumption DEF QueueFull
      <4> QED
          BY <4>3, <4>4
    <3> QED
        BY <3>1, <3>2
  <2> QED
      BY <2>2, <2>3, <2>4 DEF BoundInv, QueuesBounded
<1>2. ASSUME NEW j \in Jobs, Submit(j) PROVE BoundInv'
  <2>1. queued' = queued
      BY <1>2 DEF Submit, state
  <2>2. reader'.pc = "enqueue" => ~QueueFull(LaneOf[reader'.job])
      BY <1>2 DEF Submit, Reading
  <2> QED
      BY <2>1, <2>2 DEF BoundInv, QueuesBounded, QueueFull, QueuedIn
<1>3. CASE queued' \subseteq queued /\ (reader'.pc = "enqueue" => reader' = reader)
    BY <1>0, <1>3, ShorterIsBounded
<1>4. CASE Send \/ Exit \/ Shutdown
    BY <1>0, <1>3, <1>4 DEF Send, Exit, Shutdown, Reading, TypeOK, ReaderState, state
<1>5. ASSUME NEW l \in Lanes, WorkerStep(l) PROVE BoundInv'
  <2>1. reader' = reader \/ reader'.pc = "aborted"
      BY <1>0, <1>5, WorkersKeepNumbers DEF TypeOK, ReaderState
  <2>2. queued' \subseteq queued
      BY <1>5 DEF WorkerStep, Receive, WorkerEnds, CancelBeforeStart, NotCancelled,
         BarrierReleased, BarrierTimesOut, Start, RunEnds, Panic, Finish, state
  <2> QED
      BY <1>3, <2>1, <2>2
<1> QED
    BY <1>1, <1>2, <1>3, <1>4, <1>5 DEF Next, ReaderStep, Cancel, Exited, vars, state

\* A lane's list never grows past its limit (types.rs max_queued_for_lane), although
\* the length is checked in one critical section and the job added in another.
THEOREM QueuesStayBounded == Spec => []QueuesBounded
<1>1. Init => IInv /\ BoundInv
    BY InitIInv, InitBound
<1>2. (IInv /\ BoundInv) /\ [Next]_vars => (IInv /\ BoundInv)'
    BY IInvStep, BoundStep
<1>3. BoundInv => QueuesBounded
    BY DEF BoundInv
<1> QED
    BY <1>1, <1>2, <1>3, PTL DEF Spec

\* The jobs of a lane are executed in the order in which enqueue() numbered them.
THEOREM LanesInOrder == Spec => []LaneOrder
<1>1. LInv => LaneOrder
    BY DEF LInv
<1> QED
    BY <1>1, LaneInductive, PTL

\* When the daemon has exited in order, every job it accepted has been answered.
THEOREM DrainsBeforeExit == Spec => []DrainedAtExit
<1>1. IInv /\ LInv => DrainedAtExit
  <2> SUFFICES ASSUME IInv, LInv, reader.pc = "exited", NEW j \in Jobs, seq[j] # 0,
                      answer[j] = "none"
               PROVE  FALSE
      BY DEF DrainedAtExit
  <2>1. Located(j) /\ LaneOf[j] \in Lanes
      BY LanesAssumption DEF LInv, LocatedInv
  <2>2. worker[LaneOf[j]].pc = "ended" /\ channel[LaneOf[j]] = <<>>
      BY <2>1 DEF LInv, EndInv
  <2> QED
      BY <2>1, <2>2 DEF Located, InChannel, InHands, Busy
<1> QED
    BY <1>1, LaneInductive, PTL

\* No job gets a second terminal event.
THEOREM AnsweredOnce == Spec => OneAnswer
<1>1. (IInv /\ LInv) /\ [Next]_vars =>
        [\A j \in Jobs : answer[j] # "none" => answer'[j] = answer[j]]_vars
    BY WhoAnswers
<1> QED
    BY <1>1, LaneInductive, PTL DEF Spec, OneAnswer

-----------------------------------------------------------------------------
(* The refinement.                                                         *)

phaseMap == [j \in Jobs |-> PhaseOf(j)]

LEMMA InitMaps == Init => Promise!Init
  BY DEF Init, Promise!Init, PhaseOf

\* A step that changes what concerns one job only moves that job's phase.
LEMMA OnePhaseMoves ==
    ASSUME NEW j \in Jobs, NEW p, PhaseOf(j)' = p,
           \A k \in Jobs \ {j} : answer'[k] = answer[k] /\ (k \in ran' <=> k \in ran)
                              /\ (seq'[k] = seq[k])
    PROVE  phaseMap' = [phaseMap EXCEPT ![j] = p]
<1>1. \A k \in Jobs \ {j} : PhaseOf(k)' = PhaseOf(k)
    BY DEF PhaseOf
<1> QED
    BY <1>1 DEF phaseMap

LEMMA StepMaps == IInv /\ LInv /\ [Next]_vars => [Promise!Next]_(Promise!served)
<1> SUFFICES ASSUME IInv, LInv, [Next]_vars
             PROVE  Promise!Next \/ UNCHANGED Promise!served
    OBVIOUS
<1>0. TypeOK /\ SeqInv /\ WorkInv /\ AnswerInv /\ LineInv
    BY DEF IInv, LInv
<1>1. ASSUME UNCHANGED <<answer, ran, seq, nextSeq, requested>>
      PROVE  UNCHANGED Promise!served
  <2>1. \A k \in Jobs : PhaseOf(k)' = PhaseOf(k)
      BY <1>1 DEF PhaseOf
  <2> QED
      BY <1>1, <2>1 DEF Promise!served
<1>2. ASSUME NEW j \in Jobs, Submit(j) PROVE Promise!Next \/ UNCHANGED Promise!served
  <2>1. seq[j] = 0 /\ answer[j] = "none" /\ j \notin ran
      BY <1>0, <1>2 DEF Submit, AnswerInv, SeqInv
  <2>2. UNCHANGED <<ran, seq, nextSeq>> /\ requested'.cancel = requested.cancel
      BY <1>0, <1>2 DEF Submit, state, TypeOK, Requests
  <2>3. CASE answer' = answer
    <3>1. \A k \in Jobs : PhaseOf(k)' = PhaseOf(k)
        BY <2>2, <2>3 DEF PhaseOf
    <3> QED
        BY <2>2, <3>1 DEF Promise!served
  <2>4. CASE answer' = [answer EXCEPT ![j] = "rejected"]
    <3>1. PhaseOf(j) = "new" /\ PhaseOf(j)' = "refused"
        BY <1>0, <2>1, <2>4 DEF PhaseOf, TypeOK
    <3>2. phaseMap' = [phaseMap EXCEPT ![j] = "refused"]
      <4>1. \A k \in Jobs \ {j} : answer'[k] = answer[k] /\ (k \in ran' <=> k \in ran)
                                /\ (seq'[k] = seq[k])
          BY <1>0, <2>2, <2>4 DEF TypeOK
      <4> QED
          BY <3>1, <4>1, OnePhaseMoves
    <3>3. Promise!Refuse(j)
        BY <2>2, <3>1, <3>2 DEF Promise!Refuse, Promise!Becomes, phaseMap
    <3> QED
        BY <3>3 DEF Promise!Next
  <2> QED
      BY <1>2, <2>3, <2>4 DEF Submit
<1>3. CASE Enqueue
  <2>0. PICK j \in Jobs : j = reader.job
      BY <1>0, <1>3 DEF Enqueue, SeqInv
  <2>1. j \in Jobs /\ seq[j] = 0 /\ answer[j] = "none" /\ j \notin ran
      BY <1>0, <1>3, <2>0 DEF Enqueue, SeqInv, AnswerInv
  <2>2. UNCHANGED <<answer, ran, requested>> /\ nextSeq' = nextSeq + 1 /\ nextSeq \in Nat
        /\ seq' = [seq EXCEPT ![j] = nextSeq + 1]
      BY <1>0, <1>3, <2>0 DEF Enqueue, TypeOK
  <2>3. PhaseOf(j) = "new" /\ PhaseOf(j)' = "accepted"
      BY <1>0, <2>1, <2>2 DEF PhaseOf, TypeOK
  <2>4. phaseMap' = [phaseMap EXCEPT ![j] = "accepted"]
    <3>1. \A k \in Jobs \ {j} : answer'[k] = answer[k] /\ (k \in ran' <=> k \in ran)
                              /\ (seq'[k] = seq[k])
        BY <1>0, <2>2 DEF TypeOK
    <3> QED
        BY <2>1, <2>3, <3>1, OnePhaseMoves
  <2>5. Promise!Accept(j)
      BY <2>1, <2>2, <2>3, <2>4 DEF Promise!Accept, Promise!Becomes, phaseMap
  <2> QED
      BY <2>1, <2>5 DEF Promise!Next
<1>4. ASSUME NEW j \in Jobs, Cancel(j) PROVE Promise!Next
  <2>1. requested'.cancel = requested.cancel \cup {j}
      BY <1>0, <1>4 DEF Cancel, TypeOK, Requests
  <2>2. UNCHANGED <<answer, ran, seq, nextSeq>>
      BY <1>4 DEF Cancel, state
  <2>3. \A k \in Jobs : PhaseOf(k)' = PhaseOf(k)
      BY <2>2 DEF PhaseOf
  <2>4. Promise!Withdraw(j)
      BY <2>1, <2>2, <2>3 DEF Promise!Withdraw
  <2> QED
      BY <2>4 DEF Promise!Next
<1>5. ASSUME NEW l \in Lanes, Busy(l)
      PROVE  /\ worker[l].job \in Jobs /\ seq[worker[l].job] # 0
             /\ answer[worker[l].job] = "none" /\ LaneOf[worker[l].job] = l
             /\ worker[l].job \in ran <=> worker[l].pc = "finish"
    BY <1>0, <1>5 DEF WorkInv, LaneWork, LineInv, Line
<1>6. ASSUME NEW l \in Lanes, RunEnds(l) PROVE Promise!Next
  <2>0. PICK j \in Jobs : j = worker[l].job
      BY <1>5, <1>6 DEF RunEnds, At, Busy
  <2>1. /\ j \in Jobs /\ seq[j] # 0 /\ answer[j] = "none" /\ LaneOf[j] = l /\ j \notin ran
        /\ ran' = ran \cup {j} /\ UNCHANGED <<answer, seq, nextSeq, requested>>
    <3>1. worker[l].pc = "run" /\ Busy(l)
        BY <1>6 DEF RunEnds, At, Busy
    <3> QED
        BY <1>5, <1>6, <2>0, <3>1 DEF RunEnds, state
  <2>2. PhaseOf(j) = "accepted" /\ PhaseOf(j)' = "executed"
      BY <2>1 DEF PhaseOf
  <2>3. phaseMap' = [phaseMap EXCEPT ![j] = "executed"]
    <3>1. \A k \in Jobs \ {j} : answer'[k] = answer[k] /\ (k \in ran' <=> k \in ran)
                              /\ (seq'[k] = seq[k])
        BY <2>1
    <3> QED
        BY <2>1, <2>2, <3>1, OnePhaseMoves
  <2>4. Promise!Turn(j)
    <3> SUFFICES ASSUME NEW i \in Jobs, LaneOf[i] = LaneOf[j], seq[i] # 0, seq[i] < seq[j]
                 PROVE  PhaseOf(i) # "accepted"
        BY DEF Promise!Turn
    <3>1. i # j /\ LaneOrder'
        BY <1>0, OrderStep DEF TypeOK
    <3>2. answer[i] # "none" \/ i \in ran
        BY <2>1, <3>1 DEF LaneOrder
    <3>3. answer[i] \in Answers
        BY <1>0 DEF TypeOK
    <3> QED
        BY <3>2, <3>3 DEF PhaseOf, Answers
  <2>5. Promise!Execute(j)
      BY <2>1, <2>2, <2>3, <2>4 DEF Promise!Execute, Promise!Becomes, phaseMap
  <2> QED
      BY <2>1, <2>5 DEF Promise!Next
<1>7. ASSUME NEW l \in Lanes, CancelBeforeStart(l) PROVE Promise!Next
  <2>0. PICK j \in Jobs : j = worker[l].job
      BY <1>5, <1>7 DEF CancelBeforeStart, At, Busy
  <2>1. /\ j \in Jobs /\ seq[j] # 0 /\ answer[j] = "none" /\ j \notin ran
        /\ j \in requested.cancel /\ answer' = [answer EXCEPT ![j] = "cancelled"]
        /\ UNCHANGED <<ran, seq, nextSeq, requested>>
    <3>1. worker[l].pc = "got" /\ Busy(l)
        BY <1>7 DEF CancelBeforeStart, At, Busy
    <3> QED
        BY <1>0, <1>5, <1>7, <2>0, <3>1 DEF CancelBeforeStart, Answer, AnswerInv
  <2>2. PhaseOf(j) = "accepted" /\ PhaseOf(j)' = "skipped"
      BY <1>0, <2>1 DEF PhaseOf, TypeOK
  <2>3. phaseMap' = [phaseMap EXCEPT ![j] = "skipped"]
    <3>1. \A k \in Jobs \ {j} : answer'[k] = answer[k] /\ (k \in ran' <=> k \in ran)
                              /\ (seq'[k] = seq[k])
        BY <1>0, <2>1 DEF TypeOK
    <3> QED
        BY <2>1, <2>2, <3>1, OnePhaseMoves
  <2>4. Promise!Skip(j)
      BY <2>1, <2>2, <2>3 DEF Promise!Skip, Promise!Becomes, phaseMap
  <2> QED
      BY <2>1, <2>4 DEF Promise!Next
<1>8. ASSUME NEW l \in Lanes, Finish(l) PROVE Promise!Next
  <2>0. PICK j \in Jobs : j = worker[l].job
      BY <1>5, <1>8 DEF Finish, At, Busy
  <2> DEFINE p == IF j \in cancelled THEN "withdrawn" ELSE "finished"
  <2>1. /\ j \in Jobs /\ seq[j] # 0 /\ answer[j] = "none" /\ j \in ran
        /\ answer' = [answer EXCEPT ![j] = IF j \in cancelled THEN "cancelled" ELSE "finished"]
        /\ UNCHANGED <<ran, seq, nextSeq, requested>>
        /\ (j \in cancelled => j \in requested.cancel)
    <3>1. worker[l].pc = "finish" /\ Busy(l)
        BY <1>8 DEF Finish, At, Busy
    <3> QED
        BY <1>0, <1>5, <1>8, <2>0, <3>1 DEF Finish, Answer, AnswerInv
  <2>2. PhaseOf(j) = "executed" /\ PhaseOf(j)' = p
      BY <1>0, <2>1 DEF PhaseOf, TypeOK
  <2>3. phaseMap' = [phaseMap EXCEPT ![j] = p]
    <3>1. \A k \in Jobs \ {j} : answer'[k] = answer[k] /\ (k \in ran' <=> k \in ran)
                              /\ (seq'[k] = seq[k])
        BY <1>0, <2>1 DEF TypeOK
    <3> QED
        BY <2>1, <2>2, <3>1, OnePhaseMoves
  <2>4. Promise!Reply(j)
      BY <2>1, <2>2, <2>3 DEF Promise!Reply, Promise!Becomes, phaseMap
  <2> QED
      BY <2>1, <2>4 DEF Promise!Next
<1> QED
    BY <1>1, <1>2, <1>3, <1>4, <1>6, <1>7, <1>8 DEF Next, ReaderStep, Send, Exit, Shutdown,
       Exited, WorkerStep, Receive, WorkerEnds, NotCancelled, BarrierReleased,
       BarrierTimesOut, Start, Panic, vars, state

\* The daemon, with its two lists, its channels, its cancel set and its barrier,
\* implements the job service: every step is a step of that service or changes
\* nothing its client can tell.
THEOREM ImplementsJobService == Spec => KeepsPromise
<1>1. Init => Promise!Init
    BY InitMaps
<1>2. (IInv /\ LInv) /\ [Next]_vars => [Promise!Next]_(Promise!served)
    BY StepMaps
<1> QED
    BY <1>1, <1>2, LaneInductive, PTL DEF Spec, KeepsPromise, Promise!Spec
=============================================================================
