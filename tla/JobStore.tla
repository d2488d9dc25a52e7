------------------------------ MODULE JobStore ------------------------------
(***************************************************************************)
(* The in-memory job store (infrastructure/store/job_store.go) and the job *)
(* entity it manages (domain/entity/job.go).                               *)
(*                                                                         *)
(* The store has one slot for the job that is running and a bounded        *)
(* history of finished jobs.  Every method holds the store's mutex from    *)
(* its first line to its return, so each is one action.  CompleteCurrent-  *)
(* Job and FailCurrentJob take no job: they finish whatever job is in the  *)
(* slot.  That they finish their caller's own job is a property of the     *)
(* callers (module WebhookService), not of this module.                    *)
(*                                                                         *)
(* A job stands for the pointer to a JobWithMutex and for its identifier;  *)
(* identifiers are 128 random bits and taken to be distinct.            *)
(***************************************************************************)
EXTENDS Integers, Sequences, FiniteSets, SequencesExt, SeqFilter

CONSTANTS
    Jobs,        \* the jobs that may be created
    NoJob,       \* the nil pointer
    MaxHistory,  \* JobStore.maxHistory (100 in NewJobStore)
    MaxAge,      \* the argument of CleanupOldJobs (30 minutes in Cleanup)
    MaxTime      \* bound of the model: the clock stops here

ASSUME NoJobAssumption == NoJob \notin Jobs
ASSUME BoundAssumption ==
    /\ MaxHistory \in Nat \ {0}
    /\ MaxAge \in Nat
    /\ MaxTime \in Nat

VARIABLES
    status,     \* Job.Status; "absent" before the entity exists
    startTime,  \* Job.StartTime, set when the entity is created
    endTime,    \* Job.EndTime; NoTime is the nil pointer
    current,    \* JobStore.currentJob
    history,    \* JobStore.history, oldest first
    now         \* time.Now()

vars == <<status, startTime, endTime, current, history, now>>

NoTime == -1
Finished == {"completed", "failed"}
JobStatus == {"absent", "pending", "running"} \cup Finished

Init ==
    /\ status = [j \in Jobs |-> "absent"]
    /\ startTime = [j \in Jobs |-> 0]
    /\ endTime = [j \in Jobs |-> NoTime]
    /\ current = NoJob
    /\ history = <<>>
    /\ now = 0

-----------------------------------------------------------------------------
(* The entity.                                                             *)

IsRunning(j) == status[j] = "running"

\* entity.NewJob: a pending job, not yet known to the store.
NewJob(j) ==
    /\ status[j] = "absent"
    /\ status' = [status EXCEPT ![j] = "pending"]
    /\ startTime' = [startTime EXCEPT ![j] = now]
    /\ UNCHANGED <<endTime, current, history, now>>

-----------------------------------------------------------------------------
(* The store.                                                              *)

\* Bug: TryStartJob without its check.
SlotAlwaysFree == TRUE

\* Whether TryStartJob takes the slot: it is empty, or its job is not running.
SlotFree == ~ (current # NoJob /\ IsRunning(current))

\* The successful call: the job is marked running and becomes the current one.
StartJob(j) ==
    /\ SlotFree
    /\ status' = [status EXCEPT ![j] = "running"]
    /\ current' = j
    /\ UNCHANGED <<startTime, endTime, history, now>>

\* The call that returns false.
RefuseJob(j) == ~SlotFree /\ UNCHANGED vars

TryStartJob(j) == StartJob(j) \/ RefuseJob(j)

\* Bug: the trim keeps the first MaxHistory entries, dropping the new one.
AddToHistoryKeepingOldest(h, j) ==
    IF Len(h) < MaxHistory THEN Append(h, j) ELSE h

\* Bug: the trim is off by one.
AddToHistoryOffByOne(h, j) ==
    IF Len(h) > MaxHistory THEN Append(Tail(h), j) ELSE Append(h, j)

\* addToHistory: append, then keep the last MaxHistory entries.
AddToHistory(h, j) ==
    LET longer == Append(h, j)
    IN  IF Len(longer) > MaxHistory
        THEN SubSeq(longer, Len(longer) - MaxHistory + 1, Len(longer))
        ELSE longer

\* Bug: the slot keeps the finished job.
FinishWithoutReset(outcome) ==
    /\ current # NoJob
    /\ status' = [status EXCEPT ![current] = outcome]
    /\ endTime' = [endTime EXCEPT ![current] = now]
    /\ history' = AddToHistory(history, current)
    /\ UNCHANGED <<startTime, current, now>>

\* SetCompleted / SetFailed on the current job, then into the history, then
\* the slot is emptied; nothing at all when the slot is empty.
FinishCurrentJob(outcome) ==
    \/ current = NoJob /\ UNCHANGED vars
    \/ /\ current # NoJob
       /\ status' = [status EXCEPT ![current] = outcome]
       /\ endTime' = [endTime EXCEPT ![current] = now]
       /\ history' = AddToHistory(history, current)
       /\ current' = NoJob
       /\ UNCHANGED <<startTime, now>>

CompleteCurrentJob == FinishCurrentJob("completed")
FailCurrentJob == FinishCurrentJob("failed")

\* Whether CleanupOldJobs keeps a job: StartTime.After(now - maxAge).
Fresh(j) == startTime[j] + MaxAge > now

CleanupOldJobs ==
    /\ history' = Keep(history, {j \in Jobs : Fresh(j)})
    /\ UNCHANGED <<status, startTime, endTime, current, now>>

\* Bug: only the history is searched.
GetJobFromHistory(j) == IF j \in ToSet(history) THEN j ELSE NoJob

\* GetJob / GetJobByID: the slot first, then the history.
GetJob(j) == IF j = current \/ j \in ToSet(history) THEN j ELSE NoJob

Tick ==
    /\ now < MaxTime
    /\ now' = now + 1
    /\ UNCHANGED <<status, startTime, endTime, current, history>>

\* A job is handed to TryStartJob by its creator, while it is still pending.
Next ==
    \/ \E j \in Jobs : NewJob(j) \/ (status[j] = "pending" /\ TryStartJob(j))
    \/ CompleteCurrentJob
    \/ FailCurrentJob
    \/ CleanupOldJobs
    \/ Tick

Spec == Init /\ [][Next]_vars

-----------------------------------------------------------------------------
(* Properties.                                                             *)

\* Every variable but the history, in the form the proofs use.
StoreTypeOK ==
    /\ status \in [Jobs -> JobStatus]
    /\ startTime \in [Jobs -> Nat]
    /\ endTime \in [Jobs -> Nat \cup {NoTime}]
    /\ current \in Jobs \cup {NoJob}
    /\ now \in Nat

\* Type invariant: the history holds jobs, never the nil pointer (no method
\* of JobStore dereferences or archives a nil currentJob).
TypeOK == StoreTypeOK /\ history \in Seq(Jobs)

\* "Current running job (only one job can run at a time)": a job whose status
\* is running is the one in the slot, and the slot never holds a job that is
\* not running, whatever the order of the calls.
OneRunning ==
    /\ \A j \in Jobs : IsRunning(j) => current = j
    /\ current # NoJob => IsRunning(current)

\* The history holds finished jobs only, each once, in the order in which
\* they finished, at most MaxHistory of them, and never the current job:
\* GetJob cannot return two different entries for one identifier.
HistoryOK ==
    /\ Len(history) <= MaxHistory
    /\ ToSet(history) \subseteq {j \in Jobs : status[j] \in Finished}
    /\ Cardinality(ToSet(history)) = Len(history)
    /\ \A i, k \in DOMAIN history :
          i < k => endTime[history[i]] <= endTime[history[k]]

\* The jobs that finished after j, or at the same time; j has finished.
Later(j) == {k \in Jobs \ {j} : endTime[k] # NoTime /\ endTime[k] >= endTime[j]}

\* GetJob finds every running job, however old it is and however many finish
\* meanwhile.  It finds a finished one until CleanupOldJobs may have dropped it
\* for its age, or until MaxHistory other jobs finished after it: neither the
\* trim nor the cleanup loses a job before its time.
Retained ==
    /\ \A j \in Jobs : IsRunning(j) => GetJob(j) = j
    /\ \A j \in Jobs : status[j] \in Finished =>
          \/ GetJob(j) = j
          \/ startTime[j] + MaxAge <= now
          \/ MaxHistory <= Cardinality(Later(j))

\* SetCompleted and SetFailed are final: once a job has finished, no later
\* call of any method changes its outcome or its end time.
FinishedForever ==
    [][\A j \in Jobs : status[j] \in Finished =>
          status'[j] = status[j] /\ endTime'[j] = endTime[j]]_vars

=============================================================================
