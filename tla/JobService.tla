----------------------------- MODULE JobService -----------------------------
(***************************************************************************)
(* What the core daemon promises its client, without queues, threads or    *)
(* barrier: a job is accepted or refused; an accepted job is executed at   *)
(* most once, in the order of acceptance within its lane; it is answered   *)
(* once, "finished" only when it has been executed, and it is skipped only *)
(* when the client asked to cancel it.                                     *)
(***************************************************************************)
EXTENDS Naturals

CONSTANTS Jobs, LaneOf

VARIABLES
    phase,   \* job -> how far it has come
    order,   \* job -> its place in the order of acceptance, 0 before it has one
    count,   \* number of jobs accepted
    unwanted \* jobs the client has asked to cancel

served == <<phase, order, count, unwanted>>

Init ==
    /\ phase = [j \in Jobs |-> "new"]
    /\ order = [j \in Jobs |-> 0]
    /\ count = 0
    /\ unwanted = {}

Becomes(j, p) == phase' = [phase EXCEPT ![j] = p]

Refuse(j) ==
    /\ phase[j] = "new" /\ Becomes(j, "refused")
    /\ UNCHANGED <<order, count, unwanted>>

Accept(j) ==
    /\ phase[j] = "new" /\ Becomes(j, "accepted")
    /\ count' = count + 1
    /\ order' = [order EXCEPT ![j] = count + 1]
    /\ UNCHANGED unwanted

\* The client changes its mind, at any time after it has sent the job.
Withdraw(j) ==
    /\ unwanted' = unwanted \cup {j}
    /\ UNCHANGED <<phase, order, count>>

\* No job of the lane accepted before j still waits.
Turn(j) ==
    \A i \in Jobs : LaneOf[i] = LaneOf[j] /\ order[i] # 0 /\ order[i] < order[j]
        => phase[i] # "accepted"

Execute(j) ==
    /\ phase[j] = "accepted" /\ Turn(j) /\ Becomes(j, "executed")
    /\ UNCHANGED <<order, count, unwanted>>

\* Cancelled before it started: it will never take effect.
Skip(j) ==
    /\ phase[j] = "accepted" /\ j \in unwanted /\ Becomes(j, "skipped")
    /\ UNCHANGED <<order, count, unwanted>>

\* The answer to an executed job says so, unless the client had cancelled it.
Reply(j) ==
    /\ phase[j] = "executed"
    /\ Becomes(j, "finished") \/ (j \in unwanted /\ Becomes(j, "withdrawn"))
    /\ UNCHANGED <<order, count, unwanted>>

Next ==
    \E j \in Jobs : Refuse(j) \/ Accept(j) \/ Withdraw(j) \/ Execute(j) \/ Skip(j) \/ Reply(j)

Spec == Init /\ [][Next]_served
=============================================================================
