----------------------------- MODULE JobService -----------------------------
(***************************************************************************)
(* What the service promises the clients that post jobs to it.  It does    *)
(* one job at a time, from the moment it takes the job until the job is    *)
(* finished.  A client is told                                             *)
(*                                                                         *)
(*   - a refusal, if its request is not even considered;                   *)
(*   - 409, if at that moment another client's job is being done;          *)
(*   - 503, if the job is taken and cannot be accepted: it is failed, and  *)
(*     never executed;                                                     *)
(*   - 202, if its job is accepted: it is executed, or failed without      *)
(*     being executed, exactly once;                                       *)
(*   - nothing at all ("aborted"), if accepting the job broke down: the    *)
(*     service then takes no other job.                                    *)
(*                                                                         *)
(* The service may be drained, after which it accepts nothing and nothing  *)
(* that it accepted is unfinished.                                         *)
(*                                                                         *)
(* WebhookService and StatusService implement this specification.  It has  *)
(* no queue, no slot and no workers, and says nothing of liveness.         *)
(***************************************************************************)
EXTENDS Naturals

CONSTANTS
    Requests,  \* the requests that may arrive
    Refusals   \* the answers to a request that is not considered

VARIABLES
    answer,    \* per request: what its client was told, or "none"
    job,       \* per request: how far its job is
    drained    \* whether everything accepted is finished, for good

vars == <<answer, job, drained>>

\* A job that is taken and not finished.
Live == {"held", "accepted", "executing"}
Ended == {"completed", "failed"}

Init ==
    /\ answer = [r \in Requests |-> "none"]
    /\ job = [r \in Requests |-> "none"]
    /\ drained = FALSE

Tells(r, code) == answer[r] = "none" /\ answer' = [answer EXCEPT ![r] = code]
Moves(r, from, to) == job[r] = from /\ job' = [job EXCEPT ![r] = to]

-----------------------------------------------------------------------------
(* Answers.                                                                *)

Refuse(r) ==
    /\ job[r] = "none"
    /\ \E code \in Refusals : Tells(r, code)
    /\ UNCHANGED <<job, drained>>

Busy(r) ==
    /\ job[r] = "none"
    /\ \E q \in Requests : job[q] \in Live
    /\ Tells(r, "409")
    /\ UNCHANGED <<job, drained>>

Unavailable(r) ==
    /\ Moves(r, "held", "failed")
    /\ Tells(r, "503")
    /\ UNCHANGED drained

Abort(r) ==
    /\ job[r] = "held"
    /\ Tells(r, "aborted")
    /\ UNCHANGED <<job, drained>>

\* Possibly when the job is finished already.
Confirm(r) ==
    /\ job[r] \in {"accepted", "executing"} \cup Ended
    /\ Tells(r, "202")
    /\ UNCHANGED <<job, drained>>

-----------------------------------------------------------------------------
(* Jobs.                                                                   *)

CanTake(r) == answer[r] = "none" /\ \A q \in Requests : job[q] \notin Live

Take(r) ==
    /\ CanTake(r)
    /\ Moves(r, "none", "held")
    /\ UNCHANGED <<answer, drained>>

\* A service without a queue executes at once what it takes.
Start(r) ==
    /\ CanTake(r)
    /\ ~drained
    /\ Moves(r, "none", "executing")
    /\ UNCHANGED <<answer, drained>>

Accept(r) ==
    /\ answer[r] = "none"
    /\ ~drained
    /\ Moves(r, "held", "accepted")
    /\ UNCHANGED <<answer, drained>>

Execute(r) ==
    /\ Moves(r, "accepted", "executing")
    /\ UNCHANGED <<answer, drained>>

Finish(r) ==
    /\ \E outcome \in Ended : Moves(r, "executing", outcome)
    /\ UNCHANGED <<answer, drained>>

\* An accepted job is given up before it is executed.
Cancel(r) ==
    /\ Moves(r, "accepted", "failed")
    /\ UNCHANGED <<answer, drained>>

Drain ==
    /\ \A r \in Requests : job[r] \notin {"accepted", "executing"}
    /\ drained' = TRUE
    /\ UNCHANGED <<answer, job>>

Next ==
    \/ \E r \in Requests :
          \/ Refuse(r) \/ Busy(r) \/ Unavailable(r) \/ Abort(r) \/ Confirm(r)
          \/ Take(r) \/ Start(r) \/ Accept(r) \/ Execute(r) \/ Finish(r) \/ Cancel(r)
    \/ Drain

SafeSpec == Init /\ [][Next]_vars

-----------------------------------------------------------------------------

\* What a client may conclude.  Jobs never overlap.  One that was told 202 has
\* a job that is or was in the service's hands; one that was told 503, a job
\* that failed; one that was refused or told 409, none.  When the service is
\* drained, every job that it accepted, told or not, is finished.
Promise ==
    /\ \A q, r \in Requests : job[q] \in Live /\ job[r] \in Live => q = r
    /\ \A r \in Requests :
          /\ answer[r] = "202" => job[r] \in {"accepted", "executing"} \cup Ended
          /\ answer[r] = "503" => job[r] = "failed"
          /\ answer[r] \in {"409"} \cup Refusals => job[r] = "none"
    /\ drained => \A r \in Requests : job[r] \notin {"accepted", "executing"}

=============================================================================
