---------------------------- MODULE RustCommand ----------------------------
(***************************************************************************)
(* A command of the main process that the Rust core executes: submitted to *)
(* the core daemon over its stdin (rustCoreDaemonRuntime.ts), else run by a *)
(* one-shot worker process (runRustCoreScheduledCommand), else done by the *)
(* caller's own fallback.  Commands that change state or are expensive are *)
(* "guarded": once submitted they must not be repeated by another route.   *)
(* The daemon process can be slow, crash, fail to start, be stopped at     *)
(* quit; its answers and its exit reach the client as separate events.     *)
(* Of the daemon only what CoreDaemon proves of it is used: a job is       *)
(* executed at most once, and answered after that.                         *)
(***************************************************************************)
EXTENDS Naturals

CONSTANTS
    Requests,  \* calls of runRustCoreScheduledCommand
    Guarded,   \* those of a RUST_CORE_DAEMON_NO_FALLBACK_AFTER_SUBMIT command; the
               \* wrapper of --font-parse-batch, which changes nothing, ignores it
    Native,    \* those whose caller has a fallback of its own
    Signals,   \* those given an abort signal
    MaxSpawns  \* bound: daemon processes started

ASSUME SubsetsAssumption ==
    Guarded \subseteq Requests /\ Native \subseteq Requests /\ Signals \subseteq Requests
ASSUME SpawnsAssumption == MaxSpawns \in Nat

VARIABLES
    child,    \* the current daemon process, 0 for null; its line reader is open
    proc,     \* process -> what has become of it
    call,     \* request -> where its caller waits
    told,     \* request -> what the caller was told
    pending,  \* the client's map of unanswered jobs
    job,      \* request -> the process it was written to and how far it came there
    event,    \* request -> the terminal event of its job, until the client reads it
    input,    \* request -> its temporary input file exists
    effects   \* request -> how many times the command has been executed

client == <<child, call, told, pending>>
daemon == <<proc, job, event, effects>>
vars == <<client, daemon, input>>

Procs == 1..MaxSpawns
NoJob == [proc |-> 0, at |-> "none"]

Init ==
    /\ child = 0
    /\ proc = [p \in Procs |-> "none"]
    /\ call = [r \in Requests |-> "new"]
    /\ told = [r \in Requests |-> "nothing"]
    /\ pending = {}
    /\ job = [r \in Requests |-> NoJob]
    /\ event = [r \in Requests |-> "none"]
    /\ input = [r \in Requests |-> TRUE]
    /\ effects = [r \in Requests |-> 0]

-----------------------------------------------------------------------------
(* How a call goes on.                                                     *)

\* Mutant: the state of the call is lost.
WaitsNowhere(r, where) == call' = [call EXCEPT ![r] = "null"] /\ UNCHANGED told
Waits(r, where) == call' = [call EXCEPT ![r] = where] /\ UNCHANGED told
Returns(r, what) == call' = [call EXCEPT ![r] = "done"] /\ told' = [told EXCEPT ![r] = what]

\* The runRust... function returns null: the caller's own fallback, if it has one.
ReturnsNull(r) == IF r \in Native THEN Waits(r, "native") ELSE Returns(r, "failed")

\* Mutant: an error of the process is not marked as one of a submitted job.
RejectPlainly(S) ==
    /\ pending' = pending \ S
    /\ call' = [r \in Requests |-> IF r \in S THEN "oneshot" ELSE call[r]]
    /\ UNCHANGED told

\* rejectJob and the catch of runRustCoreScheduledCommand: an error of a guarded
\* command is rethrown to the caller, any other starts a one-shot worker.
Reject(S) ==
    /\ pending' = pending \ S
    /\ call' = [r \in Requests |->
                    IF r \notin S THEN call[r] ELSE IF r \in Guarded THEN "done" ELSE "oneshot"]
    /\ told' = [r \in Requests |-> IF r \in S \cap Guarded THEN "blocked" ELSE told[r]]

-----------------------------------------------------------------------------
(* tryRun.                                                                 *)

Write(r, p) ==
    /\ pending' = pending \cup {r}
    /\ job' = [job EXCEPT ![r] = [proc |-> p, at |-> "sent"]]
    /\ Waits(r, "daemon")
    /\ UNCHANGED <<event, effects, input>>

\* spawn throws: tryRun returns null.
StartFails(r) ==
    /\ call[r] = "new" /\ child = 0
    /\ Waits(r, "oneshot")
    /\ UNCHANGED <<child, pending, daemon, input>>

\* The process may turn out not to have started ("error" event).
Spawn(r) ==
    /\ call[r] = "new" /\ child = 0
    /\ \E p \in Procs, s \in {"alive", "stillborn"} :
        /\ proc[p] = "none" /\ \A q \in Procs : q < p => proc[q] # "none"
        /\ child' = p
        /\ proc' = [proc EXCEPT ![p] = s]
        /\ Write(r, p)

\* The line is lost when the process is dead.
Submit(r) ==
    /\ call[r] = "new" /\ child # 0 /\ proc[child] # "failed"
    /\ Write(r, child)
    /\ UNCHANGED <<child, proc>>

\* The stdin of a dead process is closed at some point.
WriteFails(r) ==
    /\ call[r] = "new" /\ child # 0 /\ proc[child] \in {"dead", "failed"}
    /\ Reject({r})
    /\ UNCHANGED <<child, daemon, input>>

-----------------------------------------------------------------------------
(* The daemon process, as far as the client can tell.                      *)

At(r, at) == job[r].at = at /\ proc[job[r].proc] = "alive"
Over(r, e) == job' = [job EXCEPT ![r].at = "over"] /\ event' = [event EXCEPT ![r] = e]

\* A command reads its input file first.
Start(r) ==
    /\ job[r].proc # 0 /\ At(r, "sent")
    /\ IF input[r] THEN job' = [job EXCEPT ![r].at = "running"] /\ UNCHANGED event
                   ELSE Over(r, "not ok")
    /\ UNCHANGED <<client, proc, effects, input>>

\* The lane is full, which is reported as a result that is not ok, or the job was
\* cancelled before it started.
Refuse(r) ==
    /\ job[r].proc # 0 /\ At(r, "sent")
    /\ \E e \in {"not ok", "rejected"} : Over(r, e)
    /\ UNCHANGED <<client, proc, effects, input>>

\* "rejected" stands for job_cancelled and for an output above maxBuffer.
Finish(r) ==
    /\ job[r].proc # 0 /\ At(r, "running")
    /\ effects' = [effects EXCEPT ![r] = @ + 1]
    /\ \E e \in {"ok", "not ok", "rejected"} : Over(r, e)
    /\ UNCHANGED <<client, proc, input>>

\* The process dies; the commands it was executing have taken effect or not.
Die(p) ==
    /\ proc' = [proc EXCEPT ![p] = "dead"]
    /\ \E S \in SUBSET {r \in Requests : job[r] = [proc |-> p, at |-> "running"]} :
        effects' = [r \in Requests |-> IF r \in S THEN effects[r] + 1 ELSE effects[r]]
    /\ UNCHANGED <<job, event>>

Crash(p) ==
    /\ proc[p] = "alive" /\ Die(p)
    /\ UNCHANGED <<client, input>>

-----------------------------------------------------------------------------
(* What the client hears.                                                  *)

\* Mutant: any terminal event answers the caller.
ReadEventAsOk(r) ==
    /\ event[r] # "none" /\ job[r].proc = child
    /\ event' = [event EXCEPT ![r] = "none"]
    /\ IF r \in pending THEN Returns(r, "ok") /\ pending' = pending \ {r}
                        ELSE UNCHANGED <<call, told, pending>>
    /\ UNCHANGED <<child, proc, job, effects, input>>

\* handleLine: an event of a job no longer pending is dropped.  A result that is
\* not ok is marked as submitted by the caller of a guarded command.
ReadEvent(r) ==
    /\ event[r] # "none" /\ job[r].proc = child
    /\ event' = [event EXCEPT ![r] = "none"]
    /\ CASE r \notin pending -> UNCHANGED <<call, told, pending>>
         [] r \in pending /\ event[r] = "ok" -> Returns(r, "ok") /\ pending' = pending \ {r}
         [] r \in pending /\ event[r] = "not ok" ->
              /\ pending' = pending \ {r}
              /\ IF r \in Guarded THEN Returns(r, "blocked") ELSE ReturnsNull(r)
         [] OTHER -> Reject({r})
    /\ UNCHANGED <<child, proc, job, effects, input>>

\* Mutant: the pending jobs are left to their timeouts.
ExitEventQuiet(p) ==
    /\ proc[p] = "dead"
    /\ proc' = [proc EXCEPT ![p] = "gone"]
    /\ child' = 0
    /\ UNCHANGED <<call, told, pending, job, event, effects, input>>

\* The exit handler: every pending job is rejected and the child forgotten, whoever
\* they belong to; lines not yet read are lost with the reader.
ExitEvent(p) ==
    /\ proc[p] = "dead"
    /\ proc' = [proc EXCEPT ![p] = "gone"]
    /\ Reject(pending)
    /\ child' = 0
    /\ UNCHANGED <<job, event, effects, input>>

\* An error of stdin, which precedes the exit event or not.
StdinError(p) ==
    /\ proc[p] = "dead" /\ pending # {}
    /\ Reject(pending)
    /\ UNCHANGED <<child, daemon, input>>

\* The "error" event of a process that did not start; no "exit" follows.
ProcessError(p) ==
    /\ proc[p] = "stillborn"
    /\ proc' = [proc EXCEPT ![p] = "failed"]
    /\ Reject(pending)
    /\ UNCHANGED <<child, job, event, effects, input>>

\* Mutant: the caller is forgotten with its job.
TimeoutForgets(r) ==
    /\ r \in pending
    /\ pending' = pending \ {r}
    /\ UNCHANGED <<child, call, told, daemon, input>>

\* The cancel line written here changes nothing else: the daemon may refuse a job,
\* or report it as cancelled, in any case (Refuse, Finish).
Timeout(r) ==
    /\ r \in pending
    /\ Reject({r})
    /\ UNCHANGED <<child, daemon, input>>

Abort(r) ==
    /\ r \in pending \cap Signals
    /\ pending' = pending \ {r}
    /\ Returns(r, "aborted")
    /\ UNCHANGED <<child, daemon, input>>

\* stop(), at will-quit: the child is killed, its exit event comes later.
Stop ==
    /\ child # 0 /\ child' = 0
    /\ IF proc[child] = "alive" THEN Die(child) ELSE UNCHANGED daemon
    /\ UNCHANGED <<call, told, pending, input>>

-----------------------------------------------------------------------------
(* The other routes.                                                       *)

\* A one-shot worker; it may time out or die before or after it took effect.
OneShot(r) ==
    /\ call[r] = "oneshot"
    /\ \/ effects' = [effects EXCEPT ![r] = @ + 1] /\ (Returns(r, "ok") \/ ReturnsNull(r))
       \/ UNCHANGED effects /\ ReturnsNull(r)
       \/ UNCHANGED effects /\ r \in Signals /\ Returns(r, "aborted")
    /\ UNCHANGED <<child, pending, proc, job, event, input>>

NativeFallback(r) ==
    /\ call[r] = "native"
    /\ \/ effects' = [effects EXCEPT ![r] = @ + 1] /\ Returns(r, "ok")
       \/ UNCHANGED effects /\ Returns(r, "failed")
    /\ UNCHANGED <<child, pending, proc, job, event, input>>

\* "finally": the input file is removed when the call has its result.
RemoveInput(r) ==
    /\ input[r] /\ call[r] \in {"native", "done"}
    /\ input' = [input EXCEPT ![r] = FALSE]
    /\ UNCHANGED <<client, daemon>>

-----------------------------------------------------------------------------
TryRun(r) == StartFails(r) \/ Spawn(r) \/ Submit(r) \/ WriteFails(r)
DaemonStep(r) == Start(r) \/ Refuse(r) \/ Finish(r)
ProcEvent(p) == ExitEvent(p) \/ ProcessError(p)

Done == (\A r \in Requests : call[r] = "done" /\ ~input[r]) /\ UNCHANGED vars

Next ==
    \/ \E r \in Requests :
        \/ TryRun(r) \/ DaemonStep(r) \/ ReadEvent(r) \/ Timeout(r) \/ Abort(r)
        \/ OneShot(r) \/ NativeFallback(r) \/ RemoveInput(r)
    \/ \E p \in Procs : Crash(p) \/ ProcEvent(p) \/ StdinError(p)
    \/ Stop \/ Done

Spec == Init /\ [][Next]_vars

\* Callbacks run, every command is given a timeout, and a worker process ends or is
\* killed by its own.  Nothing is assumed of the daemon.
FairSpec ==
    /\ Spec
    /\ \A r \in Requests :
        /\ WF_vars(TryRun(r)) /\ WF_vars(Timeout(r))
        /\ WF_vars(OneShot(r)) /\ WF_vars(NativeFallback(r))

-----------------------------------------------------------------------------
(* Properties.                                                             *)

ProcStates == {"none", "alive", "stillborn", "dead", "gone", "failed"}

TypeOK ==
    /\ child \in 0..MaxSpawns
    /\ proc \in [Procs -> ProcStates]
    /\ call \in [Requests -> {"new", "daemon", "oneshot", "native", "done"}]
    /\ told \in [Requests -> {"nothing", "ok", "blocked", "aborted", "failed"}]
    /\ pending \subseteq Requests
    /\ job \in [Requests -> [proc: 0..MaxSpawns, at: {"none", "sent", "running", "over"}]]
    /\ event \in [Requests -> {"none", "ok", "not ok", "rejected"}]
    /\ input \in [Requests -> BOOLEAN]
    /\ effects \in [Requests -> Nat]

\* A guarded command that was written to the daemon is executed at most once,
\* whatever becomes of the process, of its answer and of the caller's patience.
SubmittedRunsOnce == \A r \in Guarded : job[r].proc # 0 => effects[r] <= 1

\* A caller that is told its command succeeded is told the truth.
OkMeansExecuted == \A r \in Requests : told[r] = "ok" => effects[r] > 0

\* A pending job is one of the current daemon process, or of one whose exit or
\* error event will still reject it: none is left to its timeout alone.
PendingIsHeard ==
    \A r \in pending :
        \/ proc[job[r].proc] \in {"dead", "stillborn"}
        \/ proc[job[r].proc] = "alive" /\ job[r].proc = child

\* Every caller gets an answer.
EveryCallReturns == \A r \in Requests : call[r] # "new" ~> call[r] = "done"
=============================================================================
