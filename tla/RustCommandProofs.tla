------------------------- MODULE RustCommandProofs -------------------------
(***************************************************************************)
(* Proofs about RustCommand, for any number of requests and of daemon      *)
(* processes.  That a submitted guarded command is never executed twice    *)
(* needs to be known of every place it can be in: its caller waits for the *)
(* daemon or has returned (CallInv), the process has executed it only if   *)
(* it is over or the process has died under it (JobInv).                   *)
(***************************************************************************)
EXTENDS RustCommand, TLAPS

\* Where a call is, against the pending map and the job.
CallInv ==
    /\ \A r \in Requests : call[r] = "new" =>
        job[r] = NoJob /\ effects[r] = 0 /\ told[r] = "nothing"
    /\ \A r \in pending : call[r] = "daemon" /\ job[r].proc \in Procs
    /\ \A r \in Guarded : job[r].proc # 0 => call[r] \in {"daemon", "done"}

\* How far a job is, against its effects and its event.
JobInv ==
    /\ \A r \in Requests : job[r].proc = 0 => job[r].at = "none"
    /\ \A r \in Requests : job[r].proc \in Procs => proc[job[r].proc] # "none"
    /\ \A r \in Requests : event[r] # "none" => job[r].at = "over"
    /\ \A r \in Requests : event[r] = "ok" => effects[r] > 0
    /\ \A r \in Guarded : job[r].proc # 0 =>
        /\ effects[r] <= 1
        /\ job[r].at \in {"none", "sent"} => effects[r] = 0
        /\ job[r].at = "running" /\ proc[job[r].proc] = "alive" => effects[r] = 0

ChildInv == child # 0 => proc[child] \in {"alive", "stillborn", "dead", "failed"}

IInv == TypeOK /\ CallInv /\ JobInv /\ ChildInv /\ OkMeansExecuted /\ PendingIsHeard

LEMMA InitIInv == Init => IInv
<1> SUFFICES ASSUME Init PROVE IInv
    OBVIOUS
<1>1. TypeOK
    BY SpawnsAssumption DEF Init, TypeOK, NoJob, ProcStates
<1>2. \A r \in Requests : job[r].proc = 0 /\ job[r].at = "none" /\ event[r] = "none"
                         /\ told[r] = "nothing" /\ effects[r] = 0
    BY DEF Init, NoJob
<1>3. CallInv /\ OkMeansExecuted /\ PendingIsHeard /\ ChildInv
    BY <1>2, SubsetsAssumption
       DEF Init, CallInv, OkMeansExecuted, PendingIsHeard, ChildInv
<1>4. JobInv
    BY <1>2, SubsetsAssumption, SpawnsAssumption DEF JobInv, Procs
<1> QED
    BY <1>1, <1>3, <1>4 DEF IInv

-----------------------------------------------------------------------------
(* The ways a call goes on.                                                *)

Calls == {"new", "daemon", "oneshot", "native", "done"}
Tolds == {"nothing", "ok", "blocked", "aborted", "failed"}

\* Effects are never taken back.
Grows == effects' \in [Requests -> Nat] /\ \A q \in Requests : effects'[q] >= effects[q]

LEMMA SameEffects ==
    ASSUME TypeOK, effects' = effects
    PROVE  Grows
<1>1. effects' \in [Requests -> Nat]
    BY DEF TypeOK
<1> SUFFICES ASSUME NEW q \in Requests PROVE effects'[q] >= effects[q]
    BY <1>1 DEF Grows
<1>2. effects[q] \in Nat /\ effects'[q] = effects[q]
    BY DEF TypeOK
<1> QED
    BY <1>2

LEMMA OneExecuted ==
    ASSUME TypeOK, NEW r \in Requests, effects' = [effects EXCEPT ![r] = @ + 1]
    PROVE  /\ Grows /\ effects'[r] = effects[r] + 1 /\ effects'[r] > 0
           /\ \A q \in Requests \ {r} : effects'[q] = effects[q]
<1>1. effects \in [Requests -> Nat] /\ \A q \in Requests : effects[q] \in Nat
    BY DEF TypeOK
<1>2. /\ effects'[r] = effects[r] + 1
      /\ \A q \in Requests \ {r} : effects'[q] = effects[q]
    BY <1>1
<1>3. effects[r] + 1 \in Nat /\ effects[r] + 1 > 0 /\ effects[r] + 1 >= effects[r]
    BY <1>1
<1>4. effects' \in [Requests -> Nat]
    BY <1>1, <1>3
<1>5. \A q \in Requests : effects'[q] >= effects[q]
    BY <1>1, <1>2, <1>3
<1> QED
    BY <1>2, <1>3, <1>4, <1>5 DEF Grows

\* A process number other than 0 is one of the bounded processes.
LEMMA ProcNumber == \A n \in 0..MaxSpawns : n # 0 => n \in Procs
BY SpawnsAssumption DEF Procs

LEMMA NoJobProc == NoJob.proc = 0
BY DEF NoJob

LEMMA NoProcNumber == 0 \in 0..MaxSpawns
BY SpawnsAssumption

\* A caller who was told the truth still is.
LEMMA OkStays ==
    ASSUME TypeOK, OkMeansExecuted, Grows, told' = told
    PROVE  OkMeansExecuted'
<1> SUFFICES ASSUME NEW q \in Requests, told[q] = "ok" PROVE effects'[q] > 0
    BY DEF OkMeansExecuted
<1>1. effects[q] > 0 /\ effects'[q] >= effects[q] /\ effects[q] \in Nat /\ effects'[q] \in Nat
    BY DEF OkMeansExecuted, Grows, TypeOK
<1> QED
    BY <1>1

LEMMA JobProc ==
    ASSUME TypeOK, NEW r \in Requests
    PROVE  job[r].proc \in 0..MaxSpawns /\ (job[r].proc # 0 => job[r].proc \in Procs)
<1>1. job[r].proc \in 0..MaxSpawns
    BY DEF TypeOK
<1> QED
    BY <1>1, ProcNumber

\* One call moves on.
OneMoves(r) ==
    /\ call' \in [Requests -> Calls] /\ told' \in [Requests -> Tolds] /\ OkMeansExecuted'
    /\ \A q \in Requests \ {r} : call'[q] = call[q] /\ told'[q] = told[q]

LEMMA OneWaits ==
    ASSUME TypeOK, OkMeansExecuted, Grows, NEW r \in Requests, NEW w \in Calls, Waits(r, w)
    PROVE  OneMoves(r) /\ call'[r] = w
<1>1. call' \in [Requests -> Calls] /\ told' = told /\ call' = [call EXCEPT ![r] = w]
    BY DEF Waits, TypeOK, Calls
<1>2. \A q \in Requests : effects[q] \in Nat /\ effects'[q] \in Nat /\ effects'[q] >= effects[q]
    BY DEF TypeOK, Grows
<1>3. OkMeansExecuted'
    BY <1>1, <1>2 DEF OkMeansExecuted
<1> QED
    BY <1>1, <1>3 DEF OneMoves, TypeOK, Tolds

LEMMA OneReturns ==
    ASSUME TypeOK, OkMeansExecuted, Grows, NEW r \in Requests, NEW t \in Tolds, Returns(r, t),
           t = "ok" => effects'[r] > 0
    PROVE  OneMoves(r) /\ call'[r] = "done"
<1>1. /\ call' \in [Requests -> Calls] /\ call' = [call EXCEPT ![r] = "done"]
      /\ told' \in [Requests -> Tolds] /\ told' = [told EXCEPT ![r] = t]
    BY DEF Returns, TypeOK, Calls, Tolds
<1>2. \A q \in Requests : effects[q] \in Nat /\ effects'[q] \in Nat /\ effects'[q] >= effects[q]
    BY DEF TypeOK, Grows
<1>3. OkMeansExecuted'
    BY <1>1, <1>2 DEF OkMeansExecuted
<1> QED
    BY <1>1, <1>3 DEF OneMoves, TypeOK

LEMMA OneReturnsNull ==
    ASSUME TypeOK, OkMeansExecuted, Grows, NEW r \in Requests, ReturnsNull(r)
    PROVE  OneMoves(r) /\ call'[r] \in {"native", "done"}
<1>1. CASE Waits(r, "native")
    BY <1>1, OneWaits DEF Calls
<1>2. CASE Returns(r, "failed")
    BY <1>2, OneReturns DEF Tolds
<1> QED
    BY <1>1, <1>2 DEF ReturnsNull

\* A set of calls is rejected: the guarded ones return, the others go to a one-shot.
LEMMA CallsRejected ==
    ASSUME TypeOK, OkMeansExecuted, NEW S \in SUBSET Requests, Reject(S), UNCHANGED effects
    PROVE  /\ call' \in [Requests -> Calls] /\ told' \in [Requests -> Tolds]
           /\ OkMeansExecuted' /\ pending' \subseteq pending
           /\ \A q \in S : call'[q] = (IF q \in Guarded THEN "done" ELSE "oneshot")
           /\ \A q \in Requests \ S : call'[q] = call[q] /\ told'[q] = told[q]
<1>1. call' \in [Requests -> Calls] /\ told' \in [Requests -> Tolds]
    BY DEF Reject, TypeOK, Calls, Tolds
<1>2. /\ \A q \in S : call'[q] = (IF q \in Guarded THEN "done" ELSE "oneshot")
      /\ \A q \in Requests \ S : call'[q] = call[q] /\ told'[q] = told[q]
      /\ \A q \in Requests : told'[q] = "ok" => told[q] = "ok"
    BY DEF Reject
<1> QED
    BY <1>1, <1>2 DEF Reject, OkMeansExecuted

-----------------------------------------------------------------------------
(* What the client's steps have in common.                                 *)

\* Calls return or fall back, pending jobs are forgotten, none becomes pending.
CallsGo ==
    /\ call' \in [Requests -> Calls] /\ told' \in [Requests -> Tolds] /\ OkMeansExecuted'
    /\ pending' \subseteq pending /\ \A r \in pending' : call'[r] = call[r]
    /\ \A r \in Requests : call'[r] = "new" =>
        call[r] = "new" /\ told'[r] = told[r] /\ effects'[r] = effects[r]
    /\ \A r \in Guarded : job[r].proc # 0 => call'[r] \in {call[r], "done"}

\* No job moves: events are read, processes go, and no submitted guarded command
\* is executed.
JobsStay ==
    /\ job' = job /\ input' \in [Requests -> BOOLEAN] /\ Grows
    /\ event' \in [Requests -> {"none", "ok", "not ok", "rejected"}]
    /\ \A r \in Requests : event'[r] \in {event[r], "none"}
    /\ \A r \in Guarded : job[r].proc # 0 => effects'[r] = effects[r]
    /\ proc' \in [Procs -> ProcStates]
    /\ \A p \in Procs : /\ proc'[p] = "alive" => proc[p] = "alive"
                        /\ proc[p] # "none" => proc'[p] # "none"

LEMMA ClientStep ==
    ASSUME IInv, CallsGo, JobsStay, child' \in 0..MaxSpawns, ChildInv', PendingIsHeard'
    PROVE  IInv'
<1>0. TypeOK /\ CallInv /\ JobInv /\ Grows /\ OkMeansExecuted'
    BY DEF IInv, JobsStay, CallsGo
<1>1. TypeOK'
  <2>1. pending' \subseteq Requests /\ job' \in [Requests -> [proc: 0..MaxSpawns, at: {"none", "sent", "running", "over"}]]
      BY <1>0 DEF TypeOK, CallsGo, JobsStay
  <2>2. /\ call' \in [Requests -> Calls] /\ told' \in [Requests -> Tolds]
        /\ effects' \in [Requests -> Nat]
      BY DEF CallsGo, JobsStay, Grows
  <2> QED
      BY <2>1, <2>2 DEF TypeOK, JobsStay, Calls, Tolds
<1>2. CallInv'
  <2>1. \A r \in Requests : call'[r] = "new" =>
            job'[r] = NoJob /\ effects'[r] = 0 /\ told'[r] = "nothing"
    <3> SUFFICES ASSUME NEW r \in Requests, call'[r] = "new"
                 PROVE  job'[r] = NoJob /\ effects'[r] = 0 /\ told'[r] = "nothing"
        OBVIOUS
    <3>1. call[r] = "new" /\ told'[r] = told[r] /\ effects'[r] = effects[r] /\ job' = job
        BY DEF CallsGo, JobsStay
    <3>2. job[r] = NoJob /\ effects[r] = 0 /\ told[r] = "nothing"
        BY <1>0, <3>1 DEF CallInv
    <3> QED
        BY <3>1, <3>2
  <2>2. \A r \in pending' : call'[r] = "daemon" /\ job'[r].proc \in Procs
      BY <1>0 DEF CallInv, CallsGo, JobsStay
  <2>3. \A r \in Guarded : job'[r].proc # 0 => call'[r] \in {"daemon", "done"}
      BY <1>0 DEF CallInv, CallsGo, JobsStay
  <2> QED
      BY <2>1, <2>2, <2>3 DEF CallInv
<1>3. JobInv'
  <2>1. \A r \in Requests : /\ job'[r].proc = 0 => job'[r].at = "none"
                            /\ job'[r].proc \in Procs => proc'[job'[r].proc] # "none"
      BY <1>0 DEF JobInv, JobsStay
  <2>2. \A r \in Requests : /\ event'[r] # "none" => job'[r].at = "over"
                            /\ event'[r] = "ok" => effects'[r] > 0
    <3> SUFFICES ASSUME NEW r \in Requests, event'[r] # "none"
                 PROVE  job'[r].at = "over" /\ (event'[r] = "ok" => effects'[r] > 0)
        OBVIOUS
    <3>1. event'[r] = event[r] /\ job' = job
        BY DEF JobsStay
    <3>2. effects[r] \in Nat /\ effects'[r] \in Nat /\ effects'[r] >= effects[r]
        BY <1>0 DEF Grows, TypeOK
    <3> QED
        BY <1>0, <3>1, <3>2 DEF JobInv
  <2>3. ASSUME NEW r \in Guarded, job'[r].proc # 0
        PROVE  /\ effects'[r] <= 1
               /\ job'[r].at \in {"none", "sent"} => effects'[r] = 0
               /\ job'[r].at = "running" /\ proc'[job'[r].proc] = "alive" => effects'[r] = 0
    <3>1. job' = job /\ effects'[r] = effects[r] /\ job[r].proc # 0
        BY <2>3 DEF JobsStay
    <3>2. r \in Requests /\ job[r].proc \in Procs
        BY <1>0, <3>1, SubsetsAssumption, JobProc
    <3>3. proc'[job[r].proc] = "alive" => proc[job[r].proc] = "alive"
        BY <3>2 DEF JobsStay
    <3> QED
        BY <1>0, <3>1, <3>3 DEF JobInv
  <2> QED
      BY <2>1, <2>2, <2>3 DEF JobInv
<1> QED
    BY <1>0, <1>1, <1>2, <1>3 DEF IInv

\* Where the daemon's variables do not change, the jobs stay.
LEMMA NothingElse ==
    ASSUME TypeOK, UNCHANGED daemon, input' \in [Requests -> BOOLEAN]
    PROVE  JobsStay
<1>2. Grows
    BY SameEffects DEF daemon
<1> QED
    BY <1>2, SubsetsAssumption DEF JobsStay, TypeOK, daemon

LEMMA StillHeard ==
    ASSUME IInv, pending' \subseteq pending, UNCHANGED <<child, proc, job>>
    PROVE  child' \in 0..MaxSpawns /\ ChildInv' /\ PendingIsHeard'
BY DEF IInv, TypeOK, ChildInv, PendingIsHeard

-----------------------------------------------------------------------------
(* The steps of the client, one by one.                                    *)

LEMMA PlainStep ==
    ASSUME IInv, NEW r \in Requests,
           StartFails(r) \/ WriteFails(r) \/ Timeout(r) \/ Abort(r)
    PROVE  IInv'
<1>0. TypeOK /\ OkMeansExecuted /\ CallInv
    BY DEF IInv
<1>1. UNCHANGED <<child, daemon, input>> /\ UNCHANGED <<proc, job, effects>>
    BY DEF StartFails, WriteFails, Timeout, Abort, daemon
<1>2. JobsStay /\ Grows
    BY <1>0, <1>1, NothingElse DEF TypeOK, JobsStay
<1>3. CallsGo
  <2>1. CASE StartFails(r)
    <3>1. Waits(r, "oneshot") /\ pending' = pending
        BY <2>1 DEF StartFails
    <3>2. OneMoves(r) /\ call'[r] = "oneshot"
        BY <1>0, <1>2, <3>1, OneWaits DEF Calls
    <3>3. r \notin pending /\ job[r].proc = 0
        BY <1>0, <2>1 DEF CallInv, NoJob, StartFails
    <3> QED
        BY <1>0, <1>1, <3>1, <3>2, <3>3, SubsetsAssumption DEF CallsGo, OneMoves, TypeOK
  <2>2. CASE WriteFails(r) \/ Timeout(r)
    <3>1. Reject({r}) /\ {r} \in SUBSET Requests /\ effects' = effects
        BY <1>1, <2>2 DEF WriteFails, Timeout
    <3>2. /\ call' \in [Requests -> Calls] /\ told' \in [Requests -> Tolds]
          /\ OkMeansExecuted'
          /\ call'[r] = (IF r \in Guarded THEN "done" ELSE "oneshot")
          /\ \A q \in Requests \ {r} : call'[q] = call[q] /\ told'[q] = told[q]
        BY <1>0, <3>1, CallsRejected
    <3>3. pending' = pending \ {r}
        BY <3>1 DEF Reject
    <3> QED
        BY <1>0, <1>1, <3>2, <3>3, SubsetsAssumption DEF CallsGo, TypeOK
  <2>3. CASE Abort(r)
    <3>1. Returns(r, "aborted") /\ pending' = pending \ {r}
        BY <2>3 DEF Abort
    <3>2. OneMoves(r) /\ call'[r] = "done"
        BY <1>0, <1>2, <3>1, OneReturns DEF Tolds
    <3> QED
        BY <1>0, <1>1, <3>1, <3>2, SubsetsAssumption DEF CallsGo, OneMoves, TypeOK
  <2> QED
      BY <2>1, <2>2, <2>3
<1>4. pending' \subseteq pending
    BY <1>3 DEF CallsGo
<1> QED
    BY <1>1, <1>2, <1>3, <1>4, StillHeard, ClientStep

LEMMA RemoveInputStep ==
    ASSUME IInv, NEW r \in Requests, RemoveInput(r)
    PROVE  IInv'
<1>0. TypeOK /\ OkMeansExecuted /\ CallInv
    BY DEF IInv
<1>1. /\ UNCHANGED <<child, call, told, pending, proc, job, event, effects>>
      /\ UNCHANGED daemon /\ input' \in [Requests -> BOOLEAN]
    BY <1>0 DEF RemoveInput, client, daemon, TypeOK
<1>2. CallsGo
    BY <1>0, <1>1 DEF CallsGo, TypeOK, Calls, Tolds, OkMeansExecuted
<1> QED
    BY <1>0, <1>1, <1>2, NothingElse, StillHeard, ClientStep

\* A step that rejects every pending call: the exit or error of a process.
LEMMA AllRejected ==
    ASSUME IInv, NEW p \in Procs, ProcEvent(p) \/ StdinError(p)
    PROVE  IInv'
<1>0. TypeOK /\ OkMeansExecuted /\ CallInv /\ ChildInv
    BY DEF IInv
<1>1. /\ Reject(pending) /\ UNCHANGED <<job, event, effects, input>>
      /\ child' \in {0, child}
      /\ \/ proc' = proc
         \/ proc[p] = "dead" /\ proc' = [proc EXCEPT ![p] = "gone"] /\ child' = 0
         \/ proc[p] = "stillborn" /\ proc' = [proc EXCEPT ![p] = "failed"]
    BY DEF ProcEvent, ExitEvent, ProcessError, StdinError, daemon
<1>2. pending' = {}
    BY <1>1 DEF Reject
<1>3. /\ call' \in [Requests -> Calls] /\ told' \in [Requests -> Tolds]
      /\ OkMeansExecuted'
      /\ \A q \in pending : call'[q] = (IF q \in Guarded THEN "done" ELSE "oneshot")
      /\ \A q \in Requests \ pending : call'[q] = call[q] /\ told'[q] = told[q]
  <2>1. pending \in SUBSET Requests
      BY <1>0 DEF TypeOK
  <2> QED
      BY <1>0, <1>1, <2>1, CallsRejected
<1>4. /\ proc' \in [Procs -> ProcStates]
      /\ \A q \in Procs : /\ proc'[q] = "alive" => proc[q] = "alive"
                          /\ proc[q] # "none" => proc'[q] # "none"
    BY <1>0, <1>1 DEF TypeOK, ProcStates
<1>5. JobsStay
  <2>1. Grows
      BY <1>0, <1>1, SameEffects
  <2> QED
      BY <1>0, <1>1, <1>4, <2>1 DEF JobsStay, TypeOK
<1>6. CallsGo
  <2>1. \A q \in Requests : call'[q] = "new" =>
            call[q] = "new" /\ told'[q] = told[q] /\ effects'[q] = effects[q]
    <3>1. \A q \in pending : call'[q] # "new"
        BY <1>3
    <3> QED
        BY <1>1, <1>3, <3>1
  <2>2. \A q \in Guarded : call'[q] \in {call[q], "done"}
      BY <1>3, SubsetsAssumption
  <2> QED
      BY <1>2, <1>3, <2>1, <2>2 DEF CallsGo
<1>7. child' \in 0..MaxSpawns /\ ChildInv'
  <2>1. CASE child' = 0
      BY <2>1, SpawnsAssumption DEF ChildInv
  <2>2. CASE child' = child /\ child # 0 /\ (proc' = proc \/ proc' = [proc EXCEPT ![p] = "failed"])
    <3>1. child \in Procs
        BY <1>0, <2>2, ProcNumber DEF TypeOK
    <3> QED
        BY <1>0, <2>2, <3>1 DEF ChildInv, TypeOK
  <2> QED
      BY <1>1, <2>1, <2>2
<1>8. PendingIsHeard'
    BY <1>2 DEF PendingIsHeard
<1> QED
    BY <1>5, <1>6, <1>7, <1>8, ClientStep

\* A one-shot worker or the caller's own fallback: never of a submitted guarded job.
LEMMA OtherRouteStep ==
    ASSUME IInv, NEW r \in Requests, OneShot(r) \/ NativeFallback(r)
    PROVE  IInv'
<1>0. TypeOK /\ OkMeansExecuted /\ CallInv
    BY DEF IInv
<1>1. /\ UNCHANGED <<child, pending, proc, job, event, input>>
      /\ effects' = effects \/ effects' = [effects EXCEPT ![r] = @ + 1]
      /\ call[r] \in {"oneshot", "native"}
    BY DEF OneShot, NativeFallback
<1>2. r \notin pending /\ (r \in Guarded => job[r].proc = 0)
    BY <1>0, <1>1 DEF CallInv
<1>4. Grows /\ \A q \in Requests \ {r} : effects'[q] = effects[q]
    BY <1>0, <1>1, SameEffects, OneExecuted
<1>5. OneMoves(r) /\ call'[r] \in {"native", "done"}
  <2>1. CASE ReturnsNull(r)
      BY <1>0, <1>4, <2>1, OneReturnsNull
  <2>2. CASE effects' = [effects EXCEPT ![r] = @ + 1] /\ Returns(r, "ok")
    <3>1. effects'[r] > 0
        BY <1>0, <2>2, OneExecuted
    <3> QED
        BY <1>0, <1>4, <2>2, <3>1, OneReturns DEF Tolds
  <2>3. CASE Returns(r, "aborted") \/ Returns(r, "failed")
      BY <1>0, <1>4, <2>3, OneReturns DEF Tolds
  <2> QED
      BY <2>1, <2>2, <2>3 DEF OneShot, NativeFallback
<1>6. JobsStay
    BY <1>0, <1>1, <1>2, <1>4, SubsetsAssumption DEF JobsStay, TypeOK
<1>7. CallsGo
    BY <1>0, <1>1, <1>2, <1>4, <1>5, SubsetsAssumption DEF CallsGo, OneMoves, TypeOK
<1> QED
    BY <1>1, <1>6, <1>7, StillHeard, ClientStep

LEMMA ReadEventStep ==
    ASSUME IInv, NEW r \in Requests, ReadEvent(r)
    PROVE  IInv'
<1>0. TypeOK /\ OkMeansExecuted /\ CallInv /\ JobInv
    BY DEF IInv
<1>1. /\ event[r] # "none" /\ event' = [event EXCEPT ![r] = "none"]
      /\ UNCHANGED <<child, proc, job, effects, input>>
    BY DEF ReadEvent
<1>2. Grows
    BY <1>0, <1>1, SameEffects
<1>3. JobsStay
  <2>1. /\ event' \in [Requests -> {"none", "ok", "not ok", "rejected"}]
        /\ \A q \in Requests : event'[q] \in {event[q], "none"}
      BY <1>0, <1>1 DEF TypeOK
  <2> QED
      BY <1>0, <1>1, <1>2, <2>1, SubsetsAssumption DEF JobsStay, TypeOK
<1>4. CallsGo
  <2>1. CASE r \notin pending
    <3>1. UNCHANGED <<call, told, pending>>
        BY <2>1 DEF ReadEvent
    <3>2. OkMeansExecuted'
        BY <1>0, <1>1, <3>1 DEF OkMeansExecuted
    <3> QED
        BY <1>0, <1>1, <3>1, <3>2, SubsetsAssumption DEF CallsGo, TypeOK, Calls, Tolds
  <2>2. CASE /\ r \in pending /\ event[r] = "ok"
             /\ Returns(r, "ok") /\ pending' = pending \ {r}
    <3>1. effects'[r] > 0
        BY <1>0, <1>1, <2>2 DEF JobInv
    <3>2. OneMoves(r) /\ call'[r] = "done"
        BY <1>0, <1>2, <2>2, <3>1, OneReturns DEF Tolds
    <3> QED
        BY <1>0, <1>1, <2>2, <3>2, SubsetsAssumption DEF CallsGo, OneMoves, TypeOK
  <2>3. CASE /\ r \in pending /\ pending' = pending \ {r}
             /\ IF r \in Guarded THEN Returns(r, "blocked") ELSE ReturnsNull(r)
    <3>1. OneMoves(r) /\ call'[r] \in {"native", "done"} /\ (r \in Guarded => call'[r] = "done")
      <4>1. CASE r \in Guarded
          BY <1>0, <1>2, <2>3, <4>1, OneReturns DEF Tolds
      <4>2. CASE r \notin Guarded
          BY <1>0, <1>2, <2>3, <4>2, OneReturnsNull
      <4> QED
          BY <4>1, <4>2
    <3> QED
        BY <1>0, <1>1, <2>3, <3>1, SubsetsAssumption DEF CallsGo, OneMoves, TypeOK
  <2>4. CASE Reject({r})
    <3>1. {r} \in SUBSET Requests /\ effects' = effects
        BY <1>1
    <3>2. /\ call' \in [Requests -> Calls] /\ told' \in [Requests -> Tolds]
          /\ OkMeansExecuted'
          /\ call'[r] = (IF r \in Guarded THEN "done" ELSE "oneshot")
          /\ \A q \in Requests \ {r} : call'[q] = call[q] /\ told'[q] = told[q]
        BY <1>0, <2>4, <3>1, CallsRejected
    <3>3. pending' = pending \ {r}
        BY <2>4 DEF Reject
    <3> QED
        BY <1>0, <1>1, <3>2, <3>3, SubsetsAssumption DEF CallsGo, TypeOK
  <2>5. \/ r \notin pending
        \/ r \in pending /\ event[r] = "ok" /\ Returns(r, "ok") /\ pending' = pending \ {r}
        \/ /\ r \in pending /\ pending' = pending \ {r}
           /\ IF r \in Guarded THEN Returns(r, "blocked") ELSE ReturnsNull(r)
        \/ Reject({r})
    <3> SUFFICES ASSUME r \in pending, ~Reject({r})
                 PROVE  \/ event[r] = "ok" /\ Returns(r, "ok") /\ pending' = pending \ {r}
                        \/ /\ pending' = pending \ {r}
                           /\ IF r \in Guarded THEN Returns(r, "blocked") ELSE ReturnsNull(r)
        OBVIOUS
    <3> QED
        BY DEF ReadEvent
  <2> QED
      BY <2>1, <2>2, <2>3, <2>4, <2>5
<1>5. pending' \subseteq pending
    BY <1>4 DEF CallsGo
<1> QED
    BY <1>1, <1>3, <1>4, <1>5, StillHeard, ClientStep

-----------------------------------------------------------------------------
(* Steps of the daemon's side.                                             *)

LEMMA WriteStep ==
    ASSUME IInv, NEW r \in Requests, NEW p \in Procs, call[r] = "new", Write(r, p),
           child' = p, child \in {0, p}, proc' \in [Procs -> ProcStates],
           proc'[p] \in {"alive", "stillborn", "dead"},
           \A q \in Procs \ {p} : proc'[q] = proc[q], proc[p] = "none" \/ proc'[p] = proc[p]
    PROVE  IInv'
<1>0. TypeOK /\ OkMeansExecuted /\ CallInv /\ JobInv /\ ChildInv /\ PendingIsHeard
    BY DEF IInv
<1>1. /\ pending' = pending \cup {r} /\ Waits(r, "daemon")
      /\ UNCHANGED <<event, effects, input, told>>
      /\ p \in 0..MaxSpawns /\ p # 0 /\ 0 \notin Procs
    BY SpawnsAssumption DEF Write, Waits, Procs
<1>2. /\ job' = [job EXCEPT ![r] = [proc |-> p, at |-> "sent"]]
      /\ job'[r].proc = p /\ job'[r].at = "sent"
      /\ \A q \in Requests \ {r} : job'[q] = job[q]
    BY <1>0 DEF Write, TypeOK
<1>3. OneMoves(r) /\ call'[r] = "daemon"
    BY <1>0, <1>1, SameEffects, OneWaits DEF Calls
<1>4. job[r] = NoJob /\ effects[r] = 0 /\ event[r] = "none"
    BY <1>0 DEF CallInv, JobInv, NoJob
<1>5. \A q \in Requests \ {r} : job[q].proc \in Procs => proc'[job[q].proc] = proc[job[q].proc]
    BY <1>0 DEF JobInv
<1>6. TypeOK'
  <2>1. job' \in [Requests -> [proc: 0..MaxSpawns, at: {"none", "sent", "running", "over"}]]
      BY <1>0, <1>1, <1>2 DEF TypeOK
  <2> QED
      BY <1>0, <1>1, <1>3, <2>1 DEF TypeOK, OneMoves, Calls, Tolds
<1>7. CallInv'
  <2>1. ASSUME NEW q \in Requests
        PROVE  /\ call'[q] = "new" =>
                    job'[q] = NoJob /\ effects'[q] = 0 /\ told'[q] = "nothing"
               /\ q \in pending' => call'[q] = "daemon" /\ job'[q].proc \in Procs
               /\ q \in Guarded /\ job'[q].proc # 0 => call'[q] \in {"daemon", "done"}
    <3>1. CASE q = r
        BY <1>2, <1>3, <3>1
    <3>2. CASE q # r
        BY <1>0, <1>1, <1>2, <1>3, <3>2 DEF CallInv, OneMoves
    <3> QED
        BY <3>1, <3>2
  <2>2. pending' \subseteq Requests /\ Guarded \subseteq Requests
      BY <1>6, SubsetsAssumption DEF TypeOK
  <2> QED
      BY <2>1, <2>2 DEF CallInv
<1>8. JobInv'
  <2>1. ASSUME NEW q \in Requests
        PROVE  /\ job'[q].proc = 0 => job'[q].at = "none"
               /\ job'[q].proc \in Procs => proc'[job'[q].proc] # "none"
               /\ event'[q] # "none" => job'[q].at = "over"
               /\ event'[q] = "ok" => effects'[q] > 0
    <3>1. CASE q = r
        BY <1>1, <1>2, <1>4, <3>1
    <3>2. CASE q # r
        BY <1>0, <1>1, <1>2, <1>5, <3>2 DEF JobInv
    <3> QED
        BY <3>1, <3>2
  <2>2. ASSUME NEW q \in Guarded, job'[q].proc # 0
        PROVE  /\ effects'[q] <= 1
               /\ job'[q].at \in {"none", "sent"} => effects'[q] = 0
               /\ job'[q].at = "running" /\ proc'[job'[q].proc] = "alive" => effects'[q] = 0
    <3>1. CASE q = r
        BY <1>1, <1>2, <1>4, <3>1
    <3>2. CASE q # r
      <4>1. q \in Requests /\ job'[q] = job[q] /\ job[q].proc \in Procs
          BY <1>0, <1>2, <2>2, <3>2, SubsetsAssumption, JobProc
      <4> QED
          BY <1>0, <1>1, <1>5, <3>2, <4>1 DEF JobInv
    <3> QED
        BY <3>1, <3>2
  <2> QED
      BY <2>1, <2>2 DEF JobInv
<1>9. ChildInv'
    BY <1>0 DEF ChildInv
<1>10. PendingIsHeard'
  <2> SUFFICES ASSUME NEW q \in pending'
               PROVE  \/ proc'[job'[q].proc] \in {"dead", "stillborn"}
                      \/ proc'[job'[q].proc] = "alive" /\ job'[q].proc = child'
      BY DEF PendingIsHeard
  <2>1. CASE q = r
      BY <1>2, <2>1
  <2>2. CASE q # r
    <3>1. q \in pending /\ q \in Requests /\ job'[q] = job[q] /\ job[q].proc \in Procs
        BY <1>0, <1>1, <1>2, <2>2 DEF CallInv, TypeOK
    <3> QED
        BY <1>0, <1>1, <1>5, <2>2, <3>1 DEF PendingIsHeard
  <2> QED
      BY <2>1, <2>2
<1>11. OkMeansExecuted'
    BY <1>3 DEF OneMoves
<1> QED
    BY <1>6, <1>7, <1>8, <1>9, <1>10, <1>11 DEF IInv

LEMMA TryRunStep ==
    ASSUME IInv, NEW r \in Requests, Spawn(r) \/ Submit(r)
    PROVE  IInv'
<1>0. TypeOK /\ ChildInv
    BY DEF IInv
<1>1. CASE Spawn(r)
  <2>1. PICK p \in Procs, s \in {"alive", "stillborn"} :
            proc[p] = "none" /\ child' = p /\ proc' = [proc EXCEPT ![p] = s] /\ Write(r, p)
      BY <1>1 DEF Spawn
  <2>2. proc' \in [Procs -> ProcStates] /\ proc'[p] = s /\ \A q \in Procs \ {p} : proc'[q] = proc[q]
      BY <1>0, <2>1 DEF TypeOK, ProcStates
  <2>3. call[r] = "new" /\ child = 0
      BY <1>1 DEF Spawn
  <2> QED
      BY <2>1, <2>2, <2>3, WriteStep
<1>2. CASE Submit(r)
  <2>1. child \in Procs /\ child' = child /\ proc' = proc /\ Write(r, child) /\ call[r] = "new"
      BY <1>0, <1>2, ProcNumber DEF Submit, TypeOK
  <2>2. proc'[child] \in {"alive", "stillborn", "dead"} /\ proc' \in [Procs -> ProcStates]
      BY <1>0, <1>2, <2>1 DEF Submit, ChildInv, TypeOK
  <2>3. \A c \in Procs : child = c => IInv'
      BY <2>1, <2>2, WriteStep
  <2> QED
      BY <2>1, <2>3
<1> QED
    BY <1>1, <1>2

\* A job goes on in the daemon, and leaves the event e when it is over.
JobMoves(r, a, e) ==
    /\ a \in {"running", "over"} /\ e \in {"none", "ok", "not ok", "rejected"}
    /\ UNCHANGED <<client, proc, input>>
    /\ job[r].proc # 0 /\ proc[job[r].proc] = "alive" /\ job[r].at \in {"sent", "running"}
    /\ job' = [job EXCEPT ![r].at = a] /\ event' = [event EXCEPT ![r] = e]
    /\ e # "none" => a = "over"
    /\ e = "ok" => effects'[r] > 0
    /\ a = "running" => job[r].at = "sent"
    /\ \/ effects' = effects
       \/ effects' = [effects EXCEPT ![r] = @ + 1] /\ a = "over"

LEMMA JobStep ==
    ASSUME IInv, NEW r \in Requests, NEW a, NEW e, JobMoves(r, a, e)
    PROVE  IInv'
<1>0. TypeOK /\ OkMeansExecuted /\ CallInv /\ JobInv /\ ChildInv /\ PendingIsHeard
    BY DEF IInv
<1>1. UNCHANGED <<child, proc, call, told, pending, input>>
    BY DEF client, JobMoves
<1>2. job'[r].proc = job[r].proc /\ job'[r].at = a /\ \A q \in Requests \ {r} : job'[q] = job[q]
    BY <1>0 DEF TypeOK, JobMoves
<1>3. \A q \in Requests : job'[q].proc = job[q].proc
    BY <1>2
<1>4. event'[r] = e /\ \A q \in Requests \ {r} : event'[q] = event[q]
    BY <1>0 DEF TypeOK, JobMoves
<1>5. Grows /\ \A q \in Requests \ {r} : effects'[q] = effects[q]
    BY <1>0, SameEffects, OneExecuted DEF JobMoves
<1>6. TypeOK'
  <2>1. job' \in [Requests -> [proc: 0..MaxSpawns, at: {"none", "sent", "running", "over"}]]
      BY <1>0 DEF TypeOK, JobMoves
  <2>2. event' \in [Requests -> {"none", "ok", "not ok", "rejected"}]
      BY <1>0 DEF TypeOK, JobMoves
  <2> QED
      BY <1>0, <1>1, <1>5, <2>1, <2>2 DEF TypeOK, Grows
<1>13. /\ job[r].proc # 0 /\ proc[job[r].proc] = "alive" /\ job[r].at \in {"sent", "running"}
       /\ e # "none" => a = "over"
       /\ e = "ok" => effects'[r] > 0
       /\ a = "running" => job[r].at = "sent"
       /\ effects' = effects \/ a = "over"
    BY DEF JobMoves
<1>14. job[r].proc \in Procs
    BY <1>0, <1>13, JobProc
<1>7. CallInv'
  <2>1. call[r] # "new"
    <3>1. job[r] # NoJob
        BY <1>13, NoJobProc
    <3> QED
        BY <1>0, <3>1 DEF CallInv
  <2>2. \A q \in Requests : call'[q] = "new" =>
            job'[q] = NoJob /\ effects'[q] = 0 /\ told'[q] = "nothing"
      BY <1>0, <1>1, <1>2, <1>5, <2>1 DEF CallInv
  <2>3. \A q \in pending' : call'[q] = "daemon" /\ job'[q].proc \in Procs
      BY <1>0, <1>1, <1>3 DEF CallInv, TypeOK
  <2>4. \A q \in Guarded : job'[q].proc # 0 => call'[q] \in {"daemon", "done"}
      BY <1>0, <1>1, <1>3, SubsetsAssumption DEF CallInv
  <2> QED
      BY <2>2, <2>3, <2>4 DEF CallInv
<1>8. JobInv'
  <2>1. ASSUME NEW q \in Requests
        PROVE  /\ job'[q].proc = 0 => job'[q].at = "none"
               /\ job'[q].proc \in Procs => proc'[job'[q].proc] # "none"
               /\ event'[q] # "none" => job'[q].at = "over"
               /\ event'[q] = "ok" => effects'[q] > 0
    <3>1. CASE q = r
        BY <1>1, <1>2, <1>4, <1>13, <1>14, <3>1
    <3>2. CASE q # r
      <4>1. /\ job'[q] = job[q] /\ event'[q] = event[q] /\ effects'[q] = effects[q]
            /\ proc' = proc
          BY <1>1, <1>2, <1>4, <1>5, <3>2
      <4> QED
          BY <1>0, <4>1 DEF JobInv
    <3> QED
        BY <3>1, <3>2
  <2>2. ASSUME NEW q \in Guarded, job'[q].proc # 0
        PROVE  /\ effects'[q] <= 1
               /\ job'[q].at \in {"none", "sent"} => effects'[q] = 0
               /\ job'[q].at = "running" /\ proc'[job'[q].proc] = "alive" => effects'[q] = 0
    <3>1. CASE q = r
      <4>1. effects[r] = 0
          BY <1>0, <1>13, <2>2, <3>1 DEF JobInv
      <4>2. effects'[r] = 0 \/ (a = "over" /\ effects'[r] = 1)
        <5>1. CASE effects' = effects
            BY <4>1, <5>1
        <5>2. CASE effects' = [effects EXCEPT ![r] = @ + 1] /\ a = "over"
          <6>1. effects'[r] = effects[r] + 1
              BY <1>0, <5>2, OneExecuted
          <6> QED
              BY <4>1, <5>2, <6>1
        <5> QED
            BY <5>1, <5>2 DEF JobMoves
      <4>3. effects'[r] <= 1 /\ (a = "running" => effects'[r] = 0)
          BY <4>2
      <4>4. job'[r].at = a /\ a \in {"running", "over"}
          BY <1>2 DEF JobMoves
      <4>5. job'[r].at # "none" /\ job'[r].at # "sent"
          BY <4>4
      <4>6. job'[r].at = "running" => effects'[r] = 0
          BY <4>3, <4>4, Zenon
      <4> QED
          BY <3>1, <4>3, <4>5, <4>6, Zenon
    <3>2. CASE q # r
        BY <1>0, <1>1, <1>2, <1>5, <2>2, <3>2, SubsetsAssumption DEF JobInv
    <3> QED
        BY <3>1, <3>2
  <2> QED
      BY <2>1, <2>2 DEF JobInv
<1>9. ChildInv'
    BY <1>0, <1>1 DEF ChildInv
<1>10. PendingIsHeard'
    BY <1>0, <1>1, <1>3 DEF PendingIsHeard, TypeOK
<1>11. OkMeansExecuted'
    BY <1>0, <1>1, <1>5, OkStays
<1> QED
    BY <1>6, <1>7, <1>8, <1>9, <1>10, <1>11 DEF IInv

LEMMA DaemonSteps ==
    ASSUME IInv, NEW r \in Requests, DaemonStep(r)
    PROVE  IInv'
<1>0. TypeOK /\ JobInv /\ effects[r] \in Nat
    BY DEF IInv, TypeOK
<1>1. CASE Start(r)
  <2>1. /\ job[r].proc # 0 /\ proc[job[r].proc] = "alive" /\ job[r].at = "sent"
        /\ UNCHANGED <<client, proc, effects, input>>
        /\ \/ job' = [job EXCEPT ![r].at = "running"] /\ event' = event
           \/ job' = [job EXCEPT ![r].at = "over"] /\ event' = [event EXCEPT ![r] = "not ok"]
      BY <1>1 DEF Start, At, Over
  <2>2. event[r] = "none" /\ event = [event EXCEPT ![r] = "none"]
      BY <1>0, <2>1 DEF JobInv, TypeOK
  <2>3. CASE job' = [job EXCEPT ![r].at = "running"] /\ event' = event
    <3>1. JobMoves(r, "running", "none")
        BY <2>1, <2>2, <2>3 DEF JobMoves
    <3> QED
        BY <3>1, JobStep
  <2>4. CASE job' = [job EXCEPT ![r].at = "over"] /\ event' = [event EXCEPT ![r] = "not ok"]
    <3>1. JobMoves(r, "over", "not ok")
        BY <2>1, <2>4 DEF JobMoves
    <3> QED
        BY <3>1, JobStep
  <2> QED
      BY <2>1, <2>3, <2>4
<1>2. CASE Refuse(r)
  <2>1. PICK e \in {"not ok", "rejected"} :
            job' = [job EXCEPT ![r].at = "over"] /\ event' = [event EXCEPT ![r] = e]
      BY <1>2 DEF Refuse, Over
  <2>2. /\ job[r].proc # 0 /\ proc[job[r].proc] = "alive" /\ job[r].at = "sent"
        /\ UNCHANGED <<client, proc, effects, input>>
      BY <1>2 DEF Refuse, At
  <2>3. JobMoves(r, "over", e)
      BY <2>1, <2>2 DEF JobMoves
  <2> QED
      BY <2>3, JobStep
<1>3. CASE Finish(r)
  <2>1. PICK e \in {"ok", "not ok", "rejected"} :
            job' = [job EXCEPT ![r].at = "over"] /\ event' = [event EXCEPT ![r] = e]
      BY <1>3 DEF Finish, Over
  <2>2. /\ job[r].proc # 0 /\ proc[job[r].proc] = "alive" /\ job[r].at = "running"
        /\ UNCHANGED <<client, proc, input>> /\ effects' = [effects EXCEPT ![r] = @ + 1]
      BY <1>3 DEF Finish, At
  <2>3. effects'[r] > 0
      BY <1>0, <2>2, OneExecuted
  <2>4. JobMoves(r, "over", e)
      BY <2>1, <2>2, <2>3 DEF JobMoves
  <2> QED
      BY <2>4, JobStep
<1> QED
    BY <1>1, <1>2, <1>3 DEF DaemonStep

\* A process dies; each command it was executing may have taken effect.
LEMMA DieStep ==
    ASSUME IInv, NEW p \in Procs, proc[p] = "alive", Die(p),
           UNCHANGED <<call, told, pending, input>>,
           child' = child \/ (child = p /\ child' = 0)
    PROVE  IInv'
<1>0. TypeOK /\ OkMeansExecuted /\ CallInv /\ JobInv /\ ChildInv /\ PendingIsHeard
    BY DEF IInv
<1>1. /\ proc' = [proc EXCEPT ![p] = "dead"] /\ UNCHANGED <<job, event>>
    BY DEF Die
<1>2. /\ proc' \in [Procs -> ProcStates] /\ proc'[p] = "dead"
      /\ \A q \in Procs \ {p} : proc'[q] = proc[q]
    BY <1>0, <1>1 DEF TypeOK, ProcStates
<1>3. PICK S \in SUBSET {r \in Requests : job[r] = [proc |-> p, at |-> "running"]} :
          effects' = [r \in Requests |-> IF r \in S THEN effects[r] + 1 ELSE effects[r]]
    BY DEF Die
<1>4. \A r \in Requests : effects[r] \in Nat
    BY <1>0 DEF TypeOK
<1>5. Grows /\ \A r \in Requests \ S : effects'[r] = effects[r]
  <2>1. effects' \in [Requests -> Nat]
    <3>1. \A r \in Requests : effects[r] + 1 \in Nat
        BY <1>4
    <3> QED
        BY <1>3, <1>4, <3>1
  <2>2. ASSUME NEW r \in Requests PROVE effects'[r] >= effects[r]
      BY <1>3, <1>4
  <2> QED
      BY <1>3, <2>1, <2>2 DEF Grows
<1>6. \A r \in S : job[r].proc = p /\ job[r].at = "running" /\ r \in Requests
    OBVIOUS
<1>7. TypeOK'
  <2>1. child' \in 0..MaxSpawns
      BY <1>0, NoProcNumber DEF TypeOK
  <2> QED
      BY <1>0, <1>1, <1>2, <1>5, <2>1 DEF TypeOK, Grows
<1>8. CallInv'
  <2>1. \A r \in Requests : call[r] = "new" => r \notin S
      BY <1>0, <1>6 DEF CallInv, NoJob
  <2> QED
      BY <1>0, <1>1, <1>5, <2>1 DEF CallInv
<1>9. JobInv'
  <2>1. ASSUME NEW r \in Requests
        PROVE  /\ job'[r].proc = 0 => job'[r].at = "none"
               /\ job'[r].proc \in Procs => proc'[job'[r].proc] # "none"
               /\ event'[r] # "none" => job'[r].at = "over"
               /\ event'[r] = "ok" => effects'[r] > 0
    <3>1. event[r] = "ok" => r \notin S
        BY <1>0, <1>6 DEF JobInv
    <3> QED
        BY <1>0, <1>1, <1>2, <1>5, <3>1 DEF JobInv
  <2>2. ASSUME NEW r \in Guarded, job'[r].proc # 0
        PROVE  /\ effects'[r] <= 1
               /\ job'[r].at \in {"none", "sent"} => effects'[r] = 0
               /\ job'[r].at = "running" /\ proc'[job'[r].proc] = "alive" => effects'[r] = 0
    <3>1. r \in Requests /\ job[r].proc \in Procs /\ job' = job
        BY <1>0, <1>1, <2>2, SubsetsAssumption, JobProc
    <3>2. CASE r \in S
      <4>1. effects[r] = 0 /\ effects'[r] = effects[r] + 1
          BY <1>0, <1>3, <1>6, <2>2, <3>1, <3>2 DEF JobInv
      <4> QED
          BY <1>2, <1>6, <3>1, <3>2, <4>1
    <3>3. CASE r \notin S
      <4>1. effects'[r] = effects[r]
          BY <1>5, <3>1, <3>3
      <4>2. proc'[job[r].proc] = "alive" => proc[job[r].proc] = "alive"
          BY <1>2, <3>1
      <4> QED
          BY <1>0, <2>2, <3>1, <4>1, <4>2 DEF JobInv
    <3> QED
        BY <3>2, <3>3
  <2> QED
      BY <2>1, <2>2 DEF JobInv
<1>10. ChildInv'
  <2>1. CASE child' = 0
      BY <2>1 DEF ChildInv
  <2>2. CASE child' = child /\ child # 0
    <3>1. child \in Procs
        BY <1>0, <2>2, ProcNumber DEF TypeOK
    <3> QED
        BY <1>0, <1>2, <2>2, <3>1 DEF ChildInv
  <2> QED
      BY <2>1, <2>2
<1>11. PendingIsHeard'
  <2> SUFFICES ASSUME NEW r \in pending
               PROVE  \/ proc'[job[r].proc] \in {"dead", "stillborn"}
                      \/ proc'[job[r].proc] = "alive" /\ job[r].proc = child'
      BY <1>1 DEF PendingIsHeard
  <2>1. job[r].proc \in Procs
      BY <1>0 DEF CallInv
  <2> QED
      BY <1>0, <1>2, <2>1 DEF PendingIsHeard
<1>12. OkMeansExecuted'
    BY <1>0, <1>5, OkStays
<1> QED
    BY <1>7, <1>8, <1>9, <1>10, <1>11, <1>12 DEF IInv

LEMMA StopStep ==
    ASSUME IInv, Stop
    PROVE  IInv'
<1>0. TypeOK /\ OkMeansExecuted /\ CallInv /\ JobInv /\ ChildInv /\ PendingIsHeard
    BY DEF IInv
<1>1. PICK p \in Procs : p = child
    BY <1>0, ProcNumber DEF Stop, TypeOK
<1>2. CASE proc[child] = "alive"
  <2>1. proc[p] = "alive" /\ Die(p) /\ child = p /\ child' = 0
        /\ UNCHANGED <<call, told, pending, input>>
      BY <1>1, <1>2 DEF Stop
  <2>2. child' = child \/ (child = p /\ child' = 0)
      BY <2>1
  <2> QED
      BY <2>1, <2>2, DieStep
<1>3. CASE proc[child] # "alive"
  <2>1. child' = 0 /\ UNCHANGED <<call, told, pending, input, proc, job, event, effects>>
      BY <1>3 DEF Stop, daemon
  <2>2. TypeOK'
      BY <1>0, <2>1, NoProcNumber DEF TypeOK
  <2>3. CallInv' /\ JobInv' /\ ChildInv' /\ OkMeansExecuted'
      BY <1>0, <2>1 DEF CallInv, JobInv, ChildInv, OkMeansExecuted
  <2>4. PendingIsHeard'
      BY <1>0, <1>3, <2>1 DEF PendingIsHeard
  <2> QED
      BY <2>2, <2>3, <2>4 DEF IInv
<1> QED
    BY <1>2, <1>3

-----------------------------------------------------------------------------
(* The theorems.                                                           *)

LEMMA NextIInv == IInv /\ [Next]_vars => IInv'
<1> SUFFICES ASSUME IInv, [Next]_vars PROVE IInv'
    OBVIOUS
<1>1. ASSUME NEW r \in Requests, TryRun(r) PROVE IInv'
    BY <1>1, PlainStep, TryRunStep DEF TryRun
<1>2. ASSUME NEW r \in Requests,
             DaemonStep(r) \/ ReadEvent(r) \/ Timeout(r) \/ Abort(r)
      PROVE  IInv'
    BY <1>2, DaemonSteps, ReadEventStep, PlainStep
<1>3. ASSUME NEW r \in Requests, OneShot(r) \/ NativeFallback(r) \/ RemoveInput(r)
      PROVE  IInv'
    BY <1>3, OtherRouteStep, RemoveInputStep
<1>4. ASSUME NEW p \in Procs, Crash(p) PROVE IInv'
    BY <1>4, DieStep DEF Crash, client
<1>5. ASSUME NEW p \in Procs, ProcEvent(p) \/ StdinError(p) PROVE IInv'
    BY <1>5, AllRejected
<1>6. CASE UNCHANGED vars
    BY <1>6 DEF vars, client, daemon, IInv, TypeOK, CallInv, JobInv, ChildInv,
                OkMeansExecuted, PendingIsHeard
<1> QED
    BY <1>1, <1>2, <1>3, <1>4, <1>5, <1>6, StopStep DEF Next, Done

LEMMA Inductive == Spec => []IInv
BY InitIInv, NextIInv, PTL DEF Spec

\* Every variable of the client and of the daemon as it sees it has its type.
THEOREM TypeCorrect == Spec => []TypeOK
<1>1. IInv => TypeOK
    BY DEF IInv
<1> QED
    BY <1>1, Inductive, PTL

\* A guarded command written to a daemon process takes effect at most once, through
\* every order of its answer, a timeout, an abort, an exit and a restart.
THEOREM SubmittedOnce == Spec => []SubmittedRunsOnce
<1>1. IInv => SubmittedRunsOnce
    BY DEF IInv, JobInv, SubmittedRunsOnce
<1> QED
    BY <1>1, Inductive, PTL

\* A caller told that its command succeeded, by whichever route, is told the truth.
THEOREM OkIsTrue == Spec => []OkMeansExecuted
<1>1. IInv => OkMeansExecuted
    BY DEF IInv
<1> QED
    BY <1>1, Inductive, PTL

\* No pending job is left without an answer, an exit or an error event to come.
THEOREM PendingHeard == Spec => []PendingIsHeard
<1>1. IInv => PendingIsHeard
    BY DEF IInv
<1> QED
    BY <1>1, Inductive, PTL

=============================================================================
