------------------------ MODULE StatusServiceProofs -------------------------
(***************************************************************************)
(* Proofs about StatusService, for every number of requests and queries:   *)
(* the goroutine that marks "the current job" marks the job it works on,   *)
(* and what the status endpoints tell of a job is true of it.              *)
(*                                                                         *)
(* There is no pool between the handler and the goroutine, so OwnJob needs *)
(* only types to be inductive: TryStartJob refuses while a job runs, and a *)
(* goroutine that marks leaves the slot empty when nobody else is active.  *)
(*                                                                         *)
(* The answers rest on monotonicity.  Every step of the service is a step  *)
(* of the store (StoreStep), so by JobStoreProofs a finished job keeps its *)
(* outcome, and one that may have been dropped may be dropped ever after   *)
(* (JobMonotone).  What a query has read is then true of its job for good  *)
(* if it was true of it once (Past), however many steps lie in between.    *)
(***************************************************************************)
EXTENDS StatusService, TLAPS

SP == INSTANCE JobStoreProofs WITH Jobs <- Requests, NoJob <- None

JobTypes ==
    /\ status \in [Requests -> Store!JobStatus]
    /\ step \in [Requests -> Steps]

StatusInv == JobTypes /\ OwnJob

\* A step that leaves statuses, slot and goroutines alone.
LEMMA FrameStatusInv == StatusInv /\ UNCHANGED <<status, current, step>> => StatusInv'
  BY DEF StatusInv, JobTypes, OwnJob

\* A handler creates a job that was absent, or starts one when none runs.
LEMMA HandlerStatusInv ==
    ASSUME StatusInv, NEW r \in Requests, Receive(r) \/ Handler(r)
    PROVE  StatusInv'
  <1> USE DEF StatusInv, JobTypes
  <1>1. CASE Receive(r) \/ ReadCurrent(r) \/ Accept(r)
    BY <1>1, FrameStatusInv DEF Receive, ReadCurrent, Accept, storeVars, jobVars
  <1>2. CASE CheckRunning(r)
    <2>1. CASE UNCHANGED storeVars
      BY <1>2, <2>1, FrameStatusInv DEF CheckRunning, storeVars, jobVars
    <2>2. CASE Store!NewJob(r)
      <3>1. /\ status[r] = "absent" /\ status' = [status EXCEPT ![r] = "pending"]
            /\ UNCHANGED <<current, step>>
        BY <1>2, <2>2 DEF CheckRunning, Store!NewJob, jobVars
      <3>2. QED
        BY <3>1 DEF OwnJob, Store!JobStatus
    <2>3. QED
      BY <1>2, <2>1, <2>2 DEF CheckRunning
  <1>3. CASE TryStart(r)
    <2>1. CASE Store!RefuseJob(r) /\ UNCHANGED step
      BY <2>1, FrameStatusInv DEF Store!RefuseJob, Store!vars
    <2>2. CASE Store!StartJob(r) /\ step' = [step EXCEPT ![r] = "processing"]
      <3>1. /\ ~ (current # None /\ status[current] = "running")
            /\ status' = [status EXCEPT ![r] = "running"]
            /\ current' = r
        BY <2>2 DEF Store!StartJob, Store!SlotFree, Store!IsRunning
      <3>2. \A q \in Requests : step[q] \notin Active
        BY <3>1, StatusAssumption DEF OwnJob
      <3>3. JobTypes'
        BY <2>2, <3>1 DEF Store!JobStatus, Steps
      <3>4. OwnJob'
        BY <2>2, <3>1, <3>2 DEF OwnJob
      <3>5. QED
        BY <3>3, <3>4
    <2>3. QED
      BY <1>3, <2>1, <2>2 DEF TryStart
  <1>4. QED
    BY <1>1, <1>2, <1>3 DEF Handler

\* A goroutine that marks its job finds it in the slot and takes nobody else's.
LEMMA JobStatusInv ==
    ASSUME StatusInv, NEW r \in Requests, Action(r) \/ Mark(r) \/ Reboot(r)
    PROVE  StatusInv'
  <1> USE DEF StatusInv, JobTypes, Processing, Move
  <1>1. CASE Action(r)
    <2>1. /\ step[r] = "processing" /\ UNCHANGED <<status, current>>
          /\ \E label \in {"completing", "failing"} : step' = [step EXCEPT ![r] = label]
      BY <1>1 DEF Action, CommandEnds, ScheduleReboot, ActionPanics, storeVars
    <2>2. QED
      BY <2>1 DEF OwnJob, Active, Steps
  <1>2. CASE Mark(r)
    <2>1. /\ step[r] \in Active
          /\ \E outcome \in {"completed", "failed"} : Store!FinishCurrentJob(outcome)
          /\ \E label \in {"returned", "panicked"} : step' = [step EXCEPT ![r] = label]
      BY <1>2 DEF Mark, MarkComplete, MarkFailed, Active, Store!CompleteCurrentJob,
                  Store!FailCurrentJob
    <2>2. current = r /\ \A q \in Requests \ {r} : step[q] \notin Active
      BY <2>1 DEF OwnJob
    <2>3. \E outcome \in {"completed", "failed"} : status' = [status EXCEPT ![r] = outcome]
      BY <2>1, <2>2, StatusAssumption DEF Store!FinishCurrentJob
    <2>4. JobTypes'
      BY <2>1, <2>3 DEF Store!JobStatus, Store!Finished, Steps
    <2>5. OwnJob'
      BY <2>1, <2>2 DEF OwnJob, Active
    <2>6. QED
      BY <2>4, <2>5
  <1>3. CASE Reboot(r)
    BY <1>3, FrameStatusInv DEF Reboot, storeVars
  <1>4. QED
    BY <1>1, <1>2, <1>3

\* Every step of the service keeps the invariant; queries only read.
LEMMA NextStatusInv == StatusInv /\ [Next]_vars => StatusInv'
  <1> SUFFICES ASSUME StatusInv, [Next]_vars PROVE StatusInv'
    OBVIOUS
  <1>1. ASSUME NEW q \in Queries, ReceiveQuery(q) \/ QueryStep(q) PROVE StatusInv'
    BY <1>1, FrameStatusInv
    DEF ReceiveQuery, QueryStep, FindCurrent, Find, ReadStatus, ReadEndTime, ChooseCode,
        ReadUnlocked, storeVars, jobVars
  <1>2. CASE Cleanup \/ Tick \/ UNCHANGED vars
    BY <1>2, FrameStatusInv
    DEF Cleanup, Tick, Store!CleanupOldJobs, Store!Tick, vars, storeVars, jobVars
  <1>3. QED
    BY <1>1, <1>2, HandlerStatusInv, JobStatusInv DEF Next

\* With any number of requests, a goroutine that is going to call Complete-
\* CurrentJob or FailCurrentJob finds its own running job in the slot.
THEOREM OwnJobTheorem == SafeSpec => []OwnJob
  <1>1. Init => StatusInv
    BY DEF Init, StatusInv, JobTypes, OwnJob, Active, Steps, Store!Init, Store!JobStatus
  <1>2. StatusInv => OwnJob
    BY DEF StatusInv
  <1>3. QED
    BY <1>1, <1>2, NextStatusInv, PTL DEF SafeSpec

-----------------------------------------------------------------------------
(* What the handlers and the clients know of jobs.                         *)

Started == {"running"} \cup Store!Finished
Labels == {"absent", "admitting", "checking", "starting", "accepting", "done"}
Replies == {"none", "invalid", "202", "409"}

\* How a goroutine ended decides the status of its job.
Outcomes ==
    \A r \in Requests :
        /\ step[r] = "none" => status[r] \in {"absent", "pending"}
        /\ step[r] = "returned" => status[r] = "completed"
        /\ step[r] = "panicked" => status[r] = "failed"

\* A handler starts a job that is pending; the identifiers that handlers have
\* read and given out are those of jobs that were started.
Given ==
    /\ pc \in [Requests -> Labels] /\ reply \in [Requests -> Replies]
    /\ seen \in [Requests -> Requests \cup {None}]
    /\ \A r \in Requests :
          /\ pc[r] = "starting" => status[r] = "pending"
          /\ pc[r] = "accepting" \/ reply[r] = "202" => status[r] \in Started
          /\ seen[r] # None => status[seen[r]] \in Started

JobInv == SP!StoreInv /\ StatusInv /\ Outcomes /\ Given

\* Whatever the service does is a step of the store or nothing.
LEMMA StoreStep == JobInv /\ [Next]_vars => [SP!Next]_(SP!vars)
  <1> SUFFICES ASSUME JobInv, [Next]_vars PROVE [SP!Next]_(SP!vars)
    OBVIOUS
  <1>1. ASSUME NEW r \in Requests, Receive(r) \/ ReadCurrent(r) \/ Accept(r) \/ Action(r) \/ Reboot(r)
        PROVE  UNCHANGED SP!vars
    BY <1>1 DEF Receive, ReadCurrent, Accept, Action, CommandEnds, ScheduleReboot, ActionPanics,
       Reboot, storeVars, SP!vars
  <1>2. ASSUME NEW r \in Requests, CheckRunning(r) PROVE [SP!Next]_(SP!vars)
    <2>1. UNCHANGED storeVars \/ Store!NewJob(r)
      BY <1>2 DEF CheckRunning
    <2>2. Store!NewJob(r) => SP!NewJob(r)
      BY DEF Store!NewJob, SP!NewJob
    <2>3. QED
      BY <2>1, <2>2 DEF SP!Next, SP!vars, storeVars
  <1>3. ASSUME NEW r \in Requests, TryStart(r) PROVE [SP!Next]_(SP!vars)
    <2>1. status[r] = "pending" /\ (Store!StartJob(r) \/ Store!RefuseJob(r))
      BY <1>3 DEF TryStart, At, JobInv, Given
    <2>2. Store!StartJob(r) => SP!TryStartJob(r)
      BY DEF Store!StartJob, SP!StartJob, SP!TryStartJob, Store!SlotFree, SP!SlotFree,
             Store!IsRunning, SP!IsRunning
    <2>3. Store!RefuseJob(r) => UNCHANGED SP!vars
      BY DEF Store!RefuseJob, Store!vars, SP!vars
    <2>4. QED
      BY <2>1, <2>2, <2>3 DEF SP!Next
  <1>4. ASSUME NEW r \in Requests, Mark(r) PROVE [SP!Next]_(SP!vars)
    <2>1. Store!CompleteCurrentJob \/ Store!FailCurrentJob
      BY <1>4 DEF Mark, MarkComplete, MarkFailed
    <2>2. ASSUME NEW o PROVE Store!FinishCurrentJob(o) = SP!FinishCurrentJob(o)
      BY DEF Store!FinishCurrentJob, SP!FinishCurrentJob, Store!vars, SP!vars,
             Store!AddToHistory, SP!AddToHistory
    <2>3. QED
      BY <2>1, <2>2 DEF SP!Next, Store!CompleteCurrentJob, SP!CompleteCurrentJob,
             Store!FailCurrentJob, SP!FailCurrentJob
  <1>5. ASSUME NEW q \in Queries, ReceiveQuery(q) \/ QueryStep(q) PROVE UNCHANGED SP!vars
    BY <1>5 DEF ReceiveQuery, QueryStep, FindCurrent, Find, ReadStatus, ReadEndTime, ChooseCode,
        ReadUnlocked, storeVars, SP!vars
  <1>6. CASE Cleanup
    BY <1>6 DEF Cleanup, Store!CleanupOldJobs, SP!CleanupOldJobs, Store!Fresh, SP!Fresh,
       Store!Keep, SP!Keep, SP!Next
  <1>7. CASE Tick
    BY <1>7 DEF Tick, Store!Tick, SP!Tick, SP!Next
  <1>8. CASE UNCHANGED vars
    BY <1>8 DEF vars, storeVars, SP!vars
  <1>9. QED
    BY <1>1, <1>2, <1>3, <1>4, <1>5, <1>6, <1>7, <1>8 DEF Next, Handler

\* What a client may rely on about a job it knows of.
LEMMA JobMonotone ==
    ASSUME JobInv, [Next]_vars, NEW r \in Requests
    PROVE  /\ status[r] \in Started => status'[r] \in Started
           /\ status[r] \in Store!Finished => status'[r] = status[r]
           /\ status[r] \in Store!Finished /\ SP!Droppable(r) => SP!Droppable(r)'
  <1>1. [SP!Next]_(SP!vars) /\ SP!StoreInv /\ SP!SlotInv
    BY StoreStep DEF JobInv, SP!StoreInv
  <1>2. SP!Finished = Store!Finished
    BY DEF SP!Finished, Store!Finished
  <1>3. status[r] \in Store!Finished => status'[r] = status[r]
    BY <1>1, <1>2, SP!FinishedStep, StatusAssumption
  <1>4. status[r] \in Store!Finished /\ SP!Droppable(r) => SP!Droppable(r)'
    BY <1>1, <1>2, SP!DroppableForever, StatusAssumption
  <1>5. status[r] = "running" => status'[r] \in Started
    <2>1. status \in [Requests -> Store!JobStatus]
      BY DEF JobInv, StatusInv, JobTypes
    <2>2. QED
    BY <1>1, <2>1 DEF SP!Next, SP!NewJob, SP!TryStartJob, SP!StartJob, SP!RefuseJob, SP!vars,
       SP!CompleteCurrentJob, SP!FailCurrentJob, SP!FinishCurrentJob, SP!CleanupOldJobs,
       SP!Tick, Started, Store!Finished, Store!JobStatus
  <1>6. QED
    BY <1>3, <1>4, <1>5 DEF Started

\* A goroutine marks its job, the one in the slot, as it ended itself.
LEMMA NextOutcomes == JobInv /\ [Next]_vars => Outcomes'
  <1> SUFFICES ASSUME JobInv, [Next]_vars PROVE Outcomes'
    OBVIOUS
  <1> USE DEF Processing, Move
  <1>0. JobTypes /\ OwnJob /\ Outcomes /\ StatusInv
    BY DEF JobInv, StatusInv
  <1>1. CASE UNCHANGED <<status, step>>
    BY <1>0, <1>1 DEF Outcomes
  <1>2. ASSUME NEW r \in Requests, CheckRunning(r), Store!NewJob(r) PROVE Outcomes'
    <2>1. status[r] = "absent" /\ status' = [status EXCEPT ![r] = "pending"] /\ UNCHANGED step
      BY <1>2 DEF CheckRunning, Store!NewJob, jobVars
    <2>2. QED
      BY <1>0, <2>1 DEF Outcomes, JobTypes
  <1>3. ASSUME NEW r \in Requests, TryStart(r), Store!StartJob(r),
               step' = [step EXCEPT ![r] = "processing"]
        PROVE  Outcomes'
    <2>1. status' = [status EXCEPT ![r] = "running"]
      BY <1>3 DEF Store!StartJob
    <2>2. QED
      BY <1>0, <1>3, <2>1 DEF Outcomes, JobTypes
  <1>4. ASSUME NEW r \in Requests, Action(r) PROVE Outcomes'
    <2>1. /\ step[r] = "processing" /\ UNCHANGED status
          /\ \E label \in {"completing", "failing"} : step' = [step EXCEPT ![r] = label]
      BY <1>4 DEF Action, CommandEnds, ScheduleReboot, ActionPanics, storeVars
    <2>2. QED
      BY <1>0, <2>1 DEF Outcomes, JobTypes
  <1>5. ASSUME NEW r \in Requests, Mark(r) PROVE Outcomes'
    <2>1. step[r] \in Active
      BY <1>5 DEF Mark, MarkComplete, MarkFailed, Active
    <2>2. current = r /\ current # None
      BY <1>0, <2>1, StatusAssumption DEF OwnJob
    <2>3. \/ status' = [status EXCEPT ![r] = "completed"] /\ step' = [step EXCEPT ![r] = "returned"]
          \/ status' = [status EXCEPT ![r] = "failed"] /\ step' = [step EXCEPT ![r] = "panicked"]
      BY <1>5, <2>2 DEF Mark, MarkComplete, MarkFailed, Store!CompleteCurrentJob,
         Store!FailCurrentJob, Store!FinishCurrentJob
    <2>4. QED
      BY <1>0, <2>3 DEF Outcomes, JobTypes
  <1>6. QED
    <2>1. ASSUME NEW r \in Requests, Receive(r) \/ Handler(r) \/ Reboot(r)
          PROVE  \/ UNCHANGED <<status, step>>
                 \/ CheckRunning(r) /\ Store!NewJob(r)
                 \/ TryStart(r) /\ Store!StartJob(r) /\ step' = [step EXCEPT ![r] = "processing"]
      BY <2>1 DEF Receive, Handler, ReadCurrent, CheckRunning, TryStart, Accept, Reboot,
         Store!RefuseJob, Store!vars, storeVars, jobVars
    <2>2. ASSUME NEW q \in Queries, ReceiveQuery(q) \/ QueryStep(q) PROVE UNCHANGED <<status, step>>
      BY <2>2 DEF ReceiveQuery, QueryStep, FindCurrent, Find, ReadStatus, ReadEndTime, ChooseCode,
         ReadUnlocked, storeVars, jobVars
    <2>3. Cleanup \/ Tick \/ UNCHANGED vars => UNCHANGED <<status, step>>
      BY DEF Cleanup, Tick, Store!CleanupOldJobs, Store!Tick, vars, storeVars, jobVars
    <2>4. QED
      BY <1>1, <1>2, <1>3, <1>4, <1>5, <2>1, <2>2, <2>3 DEF Next

\* Only jobs in the slot, which run, are read and given out.
LEMMA NextGiven == JobInv /\ [Next]_vars => Given'
  <1> SUFFICES ASSUME JobInv, [Next]_vars PROVE Given'
    OBVIOUS
  <1> USE DEF At, Goto, Reply, Labels, Replies
  <1>1. /\ Given /\ status \in [Requests -> Store!JobStatus]
        /\ \A r \in Requests : status[r] \in Started => status'[r] \in Started
        /\ \A r \in Requests : status[r] = "running" => current = r
        /\ current \in Requests \cup {None} /\ (current # None => status[current] = "running")
    BY JobMonotone DEF JobInv, StatusInv, JobTypes, SP!StoreInv, SP!SlotInv, SP!StoreTypeOK,
       SP!OneRunning, SP!IsRunning
  <1>2. ASSUME NEW r \in Requests, Receive(r) PROVE Given'
    <2>1. UNCHANGED <<status, seen>> /\ reply' \in [Requests -> Replies]
      BY <1>1, <1>2 DEF Receive, storeVars, Given
    <2>2. QED
      BY <1>1, <1>2, <2>1 DEF Receive, Given
  <1>3. ASSUME NEW r \in Requests, ReadCurrent(r) PROVE Given'
    <2>1. UNCHANGED status /\ seen' = [seen EXCEPT ![r] = current]
      BY <1>3 DEF ReadCurrent, storeVars
    <2>2. QED
      BY <1>1, <1>3, <2>1 DEF ReadCurrent, Given, Started
  <1>4. ASSUME NEW r \in Requests, CheckRunning(r) PROVE Given'
    <2>1. CASE Reply(r, "409") /\ UNCHANGED <<storeVars, seen>>
      BY <1>1, <1>4, <2>1 DEF CheckRunning, Given, storeVars
    <2>2. CASE Goto(r, "starting") /\ Store!NewJob(r) /\ seen' = [seen EXCEPT ![r] = None]
      <3>1. status[r] = "absent" /\ status' = [status EXCEPT ![r] = "pending"]
        BY <2>2 DEF Store!NewJob
      <3>2. QED
        BY <1>1, <1>4, <2>2, <3>1 DEF Given, Started
    <2>3. QED
      BY <1>4, <2>1, <2>2 DEF CheckRunning
  <1>5. ASSUME NEW r \in Requests, TryStart(r) PROVE Given'
    <2>1. CASE Store!RefuseJob(r) /\ Reply(r, "409")
      BY <1>1, <1>5, <2>1 DEF TryStart, Given, Store!RefuseJob, Store!vars
    <2>2. CASE Store!StartJob(r) /\ Goto(r, "accepting")
      <3>1. status' = [status EXCEPT ![r] = "running"] /\ UNCHANGED seen
        BY <1>5, <2>2 DEF Store!StartJob, TryStart
      <3>2. QED
        BY <1>1, <2>2, <3>1 DEF Given, Started
    <2>3. QED
      BY <1>5, <2>1, <2>2 DEF TryStart
  <1>6. ASSUME NEW r \in Requests, Accept(r) PROVE Given'
    <2>1. UNCHANGED <<status, seen>>
      BY <1>6 DEF Accept, storeVars
    <2>2. QED
      BY <1>1, <1>6, <2>1 DEF Accept, Given
  <1>7. CASE UNCHANGED handlerVars /\ \A r \in Requests : status[r] = "pending" => status'[r] = "pending"
    BY <1>1, <1>7 DEF Given, handlerVars
  <1>8. QED
    <2>1. ASSUME NEW r \in Requests, Action(r) \/ Reboot(r) PROVE UNCHANGED <<handlerVars, status>>
      BY <2>1 DEF Action, CommandEnds, ScheduleReboot, ActionPanics, Reboot, storeVars
    <2>2. ASSUME NEW r \in Requests, Mark(r)
          PROVE  /\ UNCHANGED handlerVars
                 /\ \A p \in Requests : status[p] = "pending" => status'[p] = "pending"
      BY <1>1, <2>2 DEF Mark, MarkComplete, MarkFailed, Store!CompleteCurrentJob,
         Store!FailCurrentJob, Store!FinishCurrentJob, Store!vars
    <2>3. ASSUME NEW q \in Queries, ReceiveQuery(q) \/ QueryStep(q)
          PROVE  UNCHANGED <<handlerVars, status>>
      BY <2>3 DEF ReceiveQuery, QueryStep, FindCurrent, Find, ReadStatus, ReadEndTime, ChooseCode,
         ReadUnlocked, storeVars
    <2>4. Cleanup \/ Tick \/ UNCHANGED vars => UNCHANGED <<handlerVars, status>>
      BY DEF Cleanup, Tick, Store!CleanupOldJobs, Store!Tick, vars, storeVars
    <2>5. QED
      BY <1>2, <1>3, <1>4, <1>5, <1>6, <1>7, <2>1, <2>2, <2>3, <2>4 DEF Next, Handler

\* Every step keeps what is known of jobs.
LEMMA NextJobInv == JobInv /\ [Next]_vars => JobInv'
  <1> SUFFICES ASSUME JobInv, [Next]_vars PROVE JobInv'
    OBVIOUS
  <1>1. SP!StoreInv'
    BY StoreStep, SP!NextStoreInv, StatusAssumption DEF JobInv
  <1>2. QED
    BY <1>1, NextStatusInv, NextOutcomes, NextGiven DEF JobInv

\* At the start there is no job, and no identifier was given out.
LEMMA InitJobInv == Init => JobInv
  <1> SUFFICES ASSUME Init PROVE JobInv
    OBVIOUS
  <1>1. SP!StoreInv
    <2>1. SP!Init
      BY DEF Init, Store!Init, SP!Init, Store!NoTime, SP!NoTime
    <2>2. QED
      BY <2>1, SP!InitStoreInv, StatusAssumption
  <1>2. StatusInv
    BY DEF Init, StatusInv, JobTypes, OwnJob, Active, Steps, Store!Init, Store!JobStatus
  <1>3. Outcomes /\ Given
    BY DEF Init, Outcomes, Given, Store!Init, Labels, Replies
  <1>4. QED
    BY <1>1, <1>2, <1>3 DEF JobInv

-----------------------------------------------------------------------------
(* The status endpoints.                                                   *)

FieldSet == [status : Store!JobStatus \cup {"torn"}, ended : BOOLEAN, error : BOOLEAN]
QueryLabels == {"absent", "finding current", "finding", "reading", "reading end",
                "choosing code", "done"}
AnswerCodes == {"none", "invalid", "no job", "404", "200", "202", "500", "aborted"}
AnswerSet == [code : AnswerCodes, job : Requests \cup {None}, fields : FieldSet]

QueryTypes ==
    /\ query \in [Queries -> QueryLabels]
    /\ kind \in [Queries -> {"none", "status", "pool"}]
    /\ asked \in [Queries -> Requests \cup {None}]
    /\ view \in [Queries -> FieldSet]
    /\ answer \in [Queries -> AnswerSet]

\* Fields that were true of job r at some time: an outcome they show is there
\* to stay.
Past(f, r) ==
    /\ f.status \in Store!Finished => status[r] = f.status
    /\ f.error => status[r] = "failed"
    /\ f.ended => status[r] \in Store!Finished

\* Fields that were read together.
Whole(f) ==
    /\ f.status # "torn"
    /\ f.ended <=> f.status \in Store!Finished
    /\ f.error <=> f.status = "failed"

\* A query between its steps.
Reading(q) ==
    LET a == answer[q] IN
    /\ query[q] \in {"finding", "reading", "reading end", "choosing code"} =>
          asked[q] # None
    /\ asked[q] # None => status[asked[q]] \in Started
    /\ query[q] \in {"reading", "reading end", "choosing code"} =>
          Whole(view[q]) /\ Past(view[q], asked[q])
    /\ query[q] = "reading end" => a.fields.status = view[q].status
    /\ query[q] = "choosing code" =>
          /\ a.fields.status = view[q].status
          /\ a.fields.status \in Store!Finished => a.fields.ended
          /\ a.fields.ended => status[asked[q]] \in Store!Finished

\* An answer that was given.
Answered(q) ==
    LET a == answer[q] IN
    /\ query[q] = "done" /\ a.job # None => Past(a.fields, a.job)
    /\ a.code = "404" => /\ a.job # None /\ status[a.job] \in Store!Finished
                         /\ SP!Droppable(a.job)

\* AnswerConsistent, for one query.
Consistent(q) ==
    LET a == answer[q] IN
        kind[q] = "status" /\ query[q] = "done" /\ a.job # None /\ a.code # "404" =>
            /\ a.fields.status \in Store!Finished =>
                  a.fields.ended /\ a.code = CodeOf(a.fields.status)
            /\ a.fields.error <=> a.code = "500"
            /\ a.fields.ended => a.code # "202"

QueryInv ==
    /\ QueryTypes
    /\ \A q \in Queries : Reading(q) /\ Answered(q) /\ Consistent(q)

\* A query that does not move while jobs go on keeps what it has read.
LEMMA FrameQuery ==
    ASSUME JobInv, [Next]_vars, QueryTypes, NEW q \in Queries,
           query'[q] = query[q], kind'[q] = kind[q], asked'[q] = asked[q],
           view'[q] = view[q], answer'[q] = answer[q]
    PROVE  /\ Reading(q) => Reading(q)'
           /\ Answered(q) => Answered(q)'
           /\ Consistent(q) => Consistent(q)'
  <1>1. answer[q].job \in Requests \cup {None} /\ asked[q] \in Requests \cup {None}
    BY DEF QueryTypes, AnswerSet
  <1>2. ASSUME NEW r \in Requests
        PROVE  /\ status[r] \in Started => status'[r] \in Started
               /\ status[r] \in Store!Finished => status'[r] = status[r]
               /\ status[r] \in Store!Finished /\ SP!Droppable(r) => SP!Droppable(r)'
    BY JobMonotone
  <1>3. ASSUME NEW r \in Requests, NEW f, Past(f, r)
        PROVE  /\ f.status \in Store!Finished => status'[r] = f.status
               /\ f.error => status'[r] = "failed"
               /\ f.ended => status'[r] \in Store!Finished
    BY <1>2, <1>3 DEF Past, Store!Finished
  <1>4. Reading(q) => Reading(q)'
    BY <1>1, <1>2, <1>3 DEF Reading, Past, Whole
  <1>5. Answered(q) => Answered(q)'
    <2> DEFINE r == answer[q].job
    <2>1. query[q] = "done" /\ r # None /\ Past(answer[q].fields, r) =>
             /\ answer[q].fields.status \in Store!Finished => status'[r] = answer[q].fields.status
             /\ answer[q].fields.error => status'[r] = "failed"
             /\ answer[q].fields.ended => status'[r] \in Store!Finished
      BY <1>1, <1>3
    <2>2. r # None /\ status[r] \in Store!Finished /\ SP!Droppable(r) =>
             status'[r] \in Store!Finished /\ SP!Droppable(r)'
      BY <1>1, <1>2
    <2>3. QED
      BY <2>1, <2>2 DEF Answered, Past, SP!Droppable, SP!Later
  <1>6. Consistent(q) => Consistent(q)'
    BY DEF Consistent, CodeOf
  <1>7. QED
    BY <1>4, <1>5, <1>6

\* A step of query q leaves the other queries alone.
LEMMA OneQuery ==
    ASSUME JobInv, QueryInv, [Next]_vars, NEW q \in Queries, QueryTypes',
           \A p \in Queries \ {q} : /\ query'[p] = query[p] /\ kind'[p] = kind[p]
                                    /\ asked'[p] = asked[p] /\ view'[p] = view[p]
                                    /\ answer'[p] = answer[p],
           Reading(q)', Answered(q)', Consistent(q)'
    PROVE  QueryInv'
  <1>1. ASSUME NEW p \in Queries \ {q} PROVE Reading(p)' /\ Answered(p)' /\ Consistent(p)'
    BY FrameQuery DEF QueryInv
  <1>2. QED
    BY <1>1 DEF QueryInv

\* What the memory holds of a job is whole and true of it.
LEMMA FieldsFacts ==
    ASSUME JobInv, NEW r \in Requests
    PROVE  Fields(r) \in FieldSet /\ Whole(Fields(r)) /\ Past(Fields(r), r)
  <1>1. status[r] \in Store!JobStatus
    BY DEF JobInv, StatusInv, JobTypes
  <1>2. status[r] \in Store!Finished <=> endTime[r] # Store!NoTime
    BY DEF JobInv, SP!StoreInv, SP!Times, SP!Finished, Store!Finished, SP!NoTime, Store!NoTime
  <1>3. QED
    BY <1>1, <1>2 DEF Fields, FieldSet, Whole, Past, Store!JobStatus, Store!Finished

\* A query answers: what it has to show for the invariant.
LEMMA RespondQueryInv ==
    ASSUME JobInv, QueryInv, [Next]_vars, NEW q \in Queries,
           NEW code \in AnswerCodes, NEW f \in FieldSet,
           Respond(q, code, f), UNCHANGED <<storeVars, asked>>,
           kind' \in [Queries -> {"none", "status", "pool"}],
           \A p \in Queries \ {q} : kind'[p] = kind[p],
           asked[q] # None => Past(f, asked[q]),
           code = "404" => /\ asked[q] # None /\ status[asked[q]] \in Store!Finished
                           /\ SP!Droppable(asked[q]),
           kind'[q] = "status" /\ code # "404" =>
              /\ f.status \in Store!Finished => f.ended /\ code = CodeOf(f.status)
              /\ f.error <=> code = "500"
              /\ f.ended => code # "202"
    PROVE  QueryInv'
  <1>1. /\ query' = [query EXCEPT ![q] = "done"]
        /\ answer' = [answer EXCEPT ![q] = [code |-> code, job |-> asked[q], fields |-> f]]
        /\ view' = [view EXCEPT ![q] = NoFields]
    BY DEF Respond, QueryGoto
  <1>2. QueryTypes
    BY DEF QueryInv
  <1>3. NoFields \in FieldSet /\ [code |-> code, job |-> asked[q], fields |-> f] \in AnswerSet
    BY <1>2 DEF NoFields, FieldSet, AnswerSet, QueryTypes, Store!JobStatus
  <1>4. QueryTypes'
    BY <1>1, <1>2, <1>3 DEF QueryTypes, QueryLabels
  <1>5. /\ query'[q] = "done" /\ answer'[q] = [code |-> code, job |-> asked[q], fields |-> f]
        /\ UNCHANGED <<status, asked, startTime, endTime, now>>
    BY <1>1, <1>2 DEF QueryTypes, storeVars
  <1>6. Reading(q)'
    BY <1>5 DEF QueryInv, Reading
  <1>7. Answered(q)'
    BY <1>5 DEF Answered, Past, SP!Droppable, SP!Later
  <1>8. Consistent(q)'
    BY <1>5 DEF Consistent, CodeOf
  <1>9. \A p \in Queries \ {q} : query'[p] = query[p] /\ view'[p] = view[p] /\ answer'[p] = answer[p]
    BY <1>1, <1>2 DEF QueryTypes
  <1>10. QED
    BY <1>4, <1>6, <1>7, <1>8, <1>9, OneQuery

\* An answer without fields, and without a job that was looked for.
LEMMA EmptyAnswer ==
    ASSUME NEW code \in {"invalid", "no job", "404", "aborted"}
    PROVE  /\ code \in AnswerCodes /\ NoFields \in FieldSet
           /\ \A r : Past(NoFields, r)
           /\ NoFields.status \notin Store!Finished
           /\ NoFields.ended = FALSE /\ NoFields.error = FALSE /\ code # "500"
  BY DEF AnswerCodes, NoFields, FieldSet, Past, Store!JobStatus, Store!Finished

\* A client asks for a job whose identifier it was given, or for none.
LEMMA ReceiveQueryInv ==
    ASSUME JobInv, QueryInv, [Next]_vars, NEW q \in Queries, ReceiveQuery(q)
    PROVE  QueryInv'
  <1>1. PICK k \in {"status", "pool"} :
          /\ kind' = [kind EXCEPT ![q] = k]
          /\ \/ Respond(q, "invalid", NoFields) /\ UNCHANGED asked
             \/ /\ QueryGoto(q, "finding current")
                /\ UNCHANGED <<asked, view, answer>>
             \/ /\ \E r \in Requests : asked' = [asked EXCEPT ![q] =
                      CASE reply[r] = "202" -> r [] reply[r] = "409" -> seen[r] [] OTHER -> None]
                /\ asked'[q] # None
                /\ QueryGoto(q, "finding")
                /\ UNCHANGED <<view, answer>>
    BY DEF ReceiveQuery
  <1>2. QueryTypes /\ Given
    BY DEF QueryInv, JobInv
  <1>3. /\ kind' \in [Queries -> {"none", "status", "pool"}]
        /\ \A p \in Queries \ {q} : kind'[p] = kind[p]
        /\ UNCHANGED storeVars /\ query[q] = "absent"
    BY <1>1, <1>2 DEF QueryTypes, ReceiveQuery, QueryAt
  <1>4. CASE Respond(q, "invalid", NoFields) /\ UNCHANGED asked
    BY <1>3, <1>4, EmptyAnswer, RespondQueryInv
  <1>5. CASE QueryGoto(q, "finding current") /\ UNCHANGED <<asked, view, answer>>
    <2>1. /\ QueryTypes' /\ query'[q] = "finding current"
          /\ \A p \in Queries \ {q} : query'[p] = query[p]
      BY <1>2, <1>3, <1>5 DEF QueryTypes, QueryGoto, QueryLabels
    <2>2. UNCHANGED <<status, asked, answer, startTime, endTime, now>>
      BY <1>3, <1>5 DEF storeVars
    <2>3. Reading(q)' /\ Answered(q)' /\ Consistent(q)'
      BY <2>1, <2>2 DEF QueryInv, Reading, Answered, Consistent, SP!Droppable, SP!Later
    <2>4. QED
      BY <1>3, <1>5, <2>1, <2>3, OneQuery
  <1>6. CASE /\ \E r \in Requests : asked' = [asked EXCEPT ![q] =
                   CASE reply[r] = "202" -> r [] reply[r] = "409" -> seen[r] [] OTHER -> None]
             /\ asked'[q] # None
             /\ QueryGoto(q, "finding") /\ UNCHANGED <<view, answer>>
    <2>1. PICK j \in Requests \cup {None} :
             asked' = [asked EXCEPT ![q] = j] /\ (j # None => status[j] \in Started)
      BY <1>2, <1>6 DEF Given
    <2>2. /\ QueryTypes' /\ query'[q] = "finding" /\ asked'[q] = j
          /\ \A p \in Queries \ {q} : query'[p] = query[p] /\ asked'[p] = asked[p]
      BY <1>2, <1>3, <1>6, <2>1 DEF QueryTypes, QueryGoto, QueryLabels
    <2>3. UNCHANGED <<status, answer, startTime, endTime, now>>
      BY <1>3, <1>6 DEF storeVars
    <2>4. Reading(q)' /\ Answered(q)' /\ Consistent(q)'
      BY <1>6, <2>1, <2>2, <2>3
      DEF QueryInv, Reading, Answered, Consistent, SP!Droppable, SP!Later
    <2>5. QED
      BY <1>3, <1>6, <2>2, <2>4, OneQuery
  <1>7. QED
    BY <1>1, <1>4, <1>5, <1>6

\* The job that FindCurrent reads is running.
LEMMA FindCurrentInv ==
    ASSUME JobInv, QueryInv, [Next]_vars, NEW q \in Queries, FindCurrent(q)
    PROVE  QueryInv'
  <1>1. QueryTypes /\ UNCHANGED <<storeVars, kind>> /\ query[q] = "finding current"
    BY DEF QueryInv, FindCurrent, QueryAt
  <1>2. current \in Requests \cup {None} /\ (current # None => status[current] = "running")
    BY DEF JobInv, SP!StoreInv, SP!SlotInv, SP!StoreTypeOK, SP!OneRunning, SP!IsRunning
  <1>3. CASE Respond(q, "no job", NoFields) /\ UNCHANGED asked
    BY <1>1, <1>3, EmptyAnswer, RespondQueryInv DEF QueryTypes
  <1>4. CASE /\ current # None /\ asked' = [asked EXCEPT ![q] = current]
             /\ QueryGoto(q, "finding") /\ UNCHANGED <<view, answer>>
    <2>1. /\ QueryTypes' /\ query'[q] = "finding" /\ asked'[q] = current
          /\ \A p \in Queries \ {q} : query'[p] = query[p] /\ asked'[p] = asked[p]
      BY <1>1, <1>2, <1>4 DEF QueryTypes, QueryGoto, QueryLabels
    <2>2. UNCHANGED <<status, answer, startTime, endTime, now>>
      BY <1>1, <1>4 DEF storeVars
    <2>3. Reading(q)' /\ Answered(q)' /\ Consistent(q)'
      BY <1>2, <1>4, <2>1, <2>2
      DEF QueryInv, Reading, Answered, Consistent, Started, SP!Droppable, SP!Later
    <2>4. QED
      BY <1>1, <1>4, <2>1, <2>3, OneQuery
  <1>5. QED
    BY <1>3, <1>4 DEF FindCurrent

\* A started job that GetJob does not find has finished and was droppable.
LEMMA FindInv ==
    ASSUME JobInv, QueryInv, [Next]_vars, NEW q \in Queries, Find(q)
    PROVE  QueryInv'
  <1>1. /\ QueryTypes /\ UNCHANGED <<storeVars, kind, asked>> /\ query[q] = "finding"
        /\ asked[q] \in Requests /\ asked[q] # None /\ status[asked[q]] \in Started
    BY DEF QueryInv, Find, QueryAt, Reading, QueryTypes
  <1>2. CASE Store!GetJob(asked[q]) = None /\ Respond(q, "404", NoFields)
    <2>1. asked[q] # current /\ ~ SP!Holds(history, asked[q])
      BY <1>1, <1>2 DEF Store!GetJob, Store!ToSet, SP!Holds
    <2>2. status[asked[q]] # "running"
      BY <1>1, <2>1 DEF JobInv, SP!StoreInv, SP!SlotInv, SP!OneRunning, SP!IsRunning
    <2>3. status[asked[q]] \in Store!Finished
      BY <1>1, <2>2 DEF Started
    <2>4. SP!Droppable(asked[q])
      BY <1>1, <2>1, <2>3
      DEF JobInv, SP!StoreInv, SP!FinishedKept, SP!Droppable, SP!Finished, Store!Finished
    <2>5. QED
      BY <1>1, <1>2, <2>3, <2>4, EmptyAnswer, RespondQueryInv DEF QueryTypes
  <1>3. CASE QueryGoto(q, "reading") /\ Synchronise(q) /\ UNCHANGED answer
    <2>1. Fields(asked[q]) \in FieldSet /\ Whole(Fields(asked[q])) /\ Past(Fields(asked[q]), asked[q])
      BY <1>1, FieldsFacts
    <2>2. /\ QueryTypes' /\ query'[q] = "reading" /\ view'[q] = Fields(asked[q])
          /\ \A p \in Queries \ {q} : query'[p] = query[p] /\ view'[p] = view[p]
      BY <1>1, <1>3, <2>1 DEF QueryTypes, QueryGoto, QueryLabels, Synchronise
    <2>3. UNCHANGED <<status, asked, answer, startTime, endTime, now>>
      BY <1>1, <1>3 DEF storeVars
    <2>4. Reading(q)'
      BY <1>1, <2>1, <2>2, <2>3 DEF Reading, Whole, Past
    <2>5. Answered(q)' /\ Consistent(q)'
      BY <2>2, <2>3 DEF QueryInv, Answered, Consistent, SP!Droppable, SP!Later
    <2>6. QED
      BY <1>1, <1>3, <2>2, <2>4, <2>5, OneQuery
  <1>4. QED
    BY <1>2, <1>3 DEF Find

\* GetStatus: the status of the body and the fields seen under the lock.
LEMMA ReadStatusInv ==
    ASSUME JobInv, QueryInv, [Next]_vars, NEW q \in Queries, ReadStatus(q)
    PROVE  QueryInv'
  <1>1. /\ QueryTypes /\ UNCHANGED <<storeVars, kind, asked>> /\ query[q] = "reading"
        /\ asked[q] \in Requests /\ asked[q] # None /\ status[asked[q]] \in Started
    BY DEF QueryInv, ReadStatus, QueryAt, Reading, QueryTypes
  <1>2. Fields(asked[q]) \in FieldSet /\ Whole(Fields(asked[q])) /\ Past(Fields(asked[q]), asked[q])
    BY <1>1, FieldsFacts
  <1>3. status[asked[q]] = Fields(asked[q]).status
    BY DEF Fields
  <1> DEFINE a == [answer[q] EXCEPT !.fields.status = status[asked[q]]]
  <1>4. /\ a \in AnswerSet /\ a.code = answer[q].code /\ a.job = answer[q].job
        /\ a.fields.status = status[asked[q]]
    BY <1>1, <1>2, <1>3 DEF QueryTypes, AnswerSet, FieldSet
  <1>5. answer' = [answer EXCEPT ![q] = a]
    BY <1>1 DEF ReadStatus, QueryTypes, AnswerSet
  <1> HIDE DEF a
  <1>6. /\ QueryTypes' /\ query'[q] = "reading end" /\ view'[q] = Fields(asked[q]) /\ answer'[q] = a
        /\ \A p \in Queries \ {q} :
              query'[p] = query[p] /\ view'[p] = view[p] /\ answer'[p] = answer[p]
    BY <1>1, <1>2, <1>4, <1>5 DEF ReadStatus, QueryTypes, QueryGoto, QueryLabels, Synchronise
  <1>7. UNCHANGED <<status, asked, startTime, endTime, now>>
    BY <1>1 DEF storeVars
  <1>8. Reading(q)'
    BY <1>1, <1>2, <1>3, <1>4, <1>6, <1>7 DEF Reading, Whole, Past
  <1>9. Answered(q)' /\ Consistent(q)'
    BY <1>4, <1>6, <1>7 DEF QueryInv, Answered, Consistent, SP!Droppable, SP!Later
  <1>10. QED
    BY <1>1, <1>6, <1>8, <1>9, OneQuery

\* The end time may be of GetStatus or of now: in both cases that of a
\* finished status in the body.
LEMMA ReadEndTimeInv ==
    ASSUME JobInv, QueryInv, [Next]_vars, NEW q \in Queries, ReadEndTime(q)
    PROVE  QueryInv'
  <1>1. /\ QueryTypes /\ UNCHANGED <<storeVars, kind, asked, view>> /\ query[q] = "reading end"
        /\ asked[q] \in Requests /\ asked[q] # None /\ status[asked[q]] \in Started
        /\ Whole(view[q]) /\ Past(view[q], asked[q]) /\ answer[q].fields.status = view[q].status
    BY DEF QueryInv, ReadEndTime, QueryAt, Reading, QueryTypes
  <1>2. Fields(asked[q]) \in FieldSet /\ Whole(Fields(asked[q])) /\ Past(Fields(asked[q]), asked[q])
        /\ Fields(asked[q]).status = status[asked[q]]
    BY <1>1, FieldsFacts DEF Fields
  <1>3. PICK ended \in {view[q].ended, Fields(asked[q]).ended} :
          answer' = [answer EXCEPT ![q].fields.ended = ended]
    BY DEF ReadEndTime
  <1>4. ended \in BOOLEAN
    BY <1>1, <1>2 DEF QueryTypes, FieldSet
  <1>5. /\ ended => status[asked[q]] \in Store!Finished
        /\ view[q].status \in Store!Finished => ended
    BY <1>1, <1>2 DEF Whole, Past
  <1> DEFINE a == [answer[q] EXCEPT !.fields.ended = ended]
  <1>6. /\ a \in AnswerSet /\ a.code = answer[q].code /\ a.job = answer[q].job
        /\ a.fields.status = answer[q].fields.status /\ a.fields.ended = ended
    <2> DEFINE f == [answer[q].fields EXCEPT !.ended = ended]
    <2>1. answer[q] \in AnswerSet /\ answer[q].fields \in FieldSet
      BY <1>1 DEF QueryTypes, AnswerSet
    <2>2. f \in FieldSet
      BY <1>4, <2>1 DEF FieldSet
    <2>3. f.status = answer[q].fields.status
      BY <2>1 DEF FieldSet
    <2>4. f.ended = ended
      BY <2>1, Zenon DEF FieldSet
    <2>5. a = [answer[q] EXCEPT !.fields = f]
      BY <2>1 DEF AnswerSet
    <2> HIDE DEF f, a
    <2>6. [answer[q] EXCEPT !.fields = f] \in AnswerSet
      BY <2>1, <2>2 DEF AnswerSet
    <2>7. a.code = answer[q].code /\ a.job = answer[q].job /\ a.fields = f
      BY <2>1, <2>5 DEF AnswerSet
    <2>8. QED
      BY <2>3, <2>4, <2>5, <2>6, <2>7
  <1>7. answer' = [answer EXCEPT ![q] = a]
    BY <1>1, <1>3 DEF QueryTypes, AnswerSet
  <1> HIDE DEF a
  <1>8. /\ QueryTypes' /\ query'[q] = "choosing code" /\ answer'[q] = a
        /\ \A p \in Queries \ {q} : query'[p] = query[p] /\ answer'[p] = answer[p]
    BY <1>1, <1>6, <1>7 DEF ReadEndTime, QueryTypes, QueryGoto, QueryLabels
  <1>9. UNCHANGED <<status, asked, view, startTime, endTime, now>>
    BY <1>1 DEF storeVars
  <1>10. Reading(q)'
    BY <1>1, <1>5, <1>6, <1>8, <1>9 DEF Reading, Whole, Past
  <1>11. Answered(q)' /\ Consistent(q)'
    BY <1>6, <1>8, <1>9 DEF QueryInv, Answered, Consistent, SP!Droppable, SP!Later
  <1>12. QED
    BY <1>1, <1>8, <1>10, <1>11, OneQuery

\* The code is that of the status at the last lock; a finished status in the
\* body cannot have changed since.
LEMMA ChooseCodeInv ==
    ASSUME JobInv, QueryInv, [Next]_vars, NEW q \in Queries, ChooseCode(q)
    PROVE  QueryInv'
  <1> DEFINE f == [answer[q].fields EXCEPT !.error = Fields(asked[q]).error]
             code == CodeOf(status[asked[q]])
  <1>1. /\ QueryTypes /\ UNCHANGED <<storeVars, kind, asked>> /\ query[q] = "choosing code"
        /\ asked[q] \in Requests /\ asked[q] # None /\ status[asked[q]] \in Started
        /\ Whole(view[q]) /\ Past(view[q], asked[q]) /\ answer[q].fields.status = view[q].status
        /\ answer[q].fields.status \in Store!Finished => answer[q].fields.ended
        /\ answer[q].fields.ended => status[asked[q]] \in Store!Finished
    BY DEF QueryInv, ChooseCode, QueryAt, Reading, QueryTypes
  <1>2. Fields(asked[q]).error \in BOOLEAN /\ (Fields(asked[q]).error <=> status[asked[q]] = "failed")
    BY DEF Fields
  <1>3. answer[q].fields \in FieldSet
    BY <1>1 DEF QueryTypes, AnswerSet
  <1>4. f \in FieldSet /\ f.status = answer[q].fields.status
    BY <1>2, <1>3 DEF FieldSet
  <1>5. f.ended = answer[q].fields.ended
    BY <1>3, Zenon DEF FieldSet
  <1>6. f.error = Fields(asked[q]).error
    BY <1>3, Zenon DEF FieldSet
  <1>7. Respond(q, code, f)
    BY DEF ChooseCode
  <1>8. /\ code \in {"200", "202", "500"}
        /\ status[asked[q]] = "failed" <=> code = "500"
        /\ status[asked[q]] \in Store!Finished => code # "202"
    BY DEF CodeOf, Store!Finished
  <1>9. f.status \in Store!Finished => status[asked[q]] = f.status
    BY <1>1, <1>4 DEF Past
  <1>10. f.status \in Store!Finished => code = CodeOf(f.status)
    BY <1>9
  <1> HIDE DEF f, code
  <1>11. Past(f, asked[q])
    BY <1>1, <1>2, <1>5, <1>6, <1>9 DEF Past
  <1>12. code \in AnswerCodes /\ code # "404"
    BY <1>8 DEF AnswerCodes
  <1>13. /\ f.status \in Store!Finished => f.ended /\ code = CodeOf(f.status)
         /\ f.error <=> code = "500"
         /\ f.ended => code # "202"
    BY <1>1, <1>2, <1>4, <1>5, <1>6, <1>8, <1>10
  <1>14. QED
    BY <1>1, <1>4, <1>7, <1>11, <1>12, <1>13, RespondQueryInv DEF QueryTypes

\* What is read without a lock mixes two states of the job, both of them past;
\* a torn status is no outcome.
LEMMA ReadUnlockedInv ==
    ASSUME JobInv, QueryInv, [Next]_vars, NEW q \in Queries, ReadUnlocked(q)
    PROVE  QueryInv'
  <1> DEFINE new == Fields(asked[q])
             old == view[q]
  <1>1. /\ QueryTypes /\ UNCHANGED <<storeVars, kind, asked>> /\ query[q] = "reading"
        /\ kind'[q] = "pool"
        /\ asked[q] \in Requests /\ asked[q] # None /\ status[asked[q]] \in Started
        /\ Whole(old) /\ Past(old, asked[q])
    BY DEF QueryInv, ReadUnlocked, QueryAt, Reading, QueryTypes
  <1>2. new \in FieldSet /\ Past(new, asked[q]) /\ old \in FieldSet
    BY <1>1, FieldsFacts DEF QueryTypes
  <1>3. \/ Respond(q, "aborted", NoFields)
        \/ \E first \in Racy(old.status, new.status), ended \in {old.ended, new.ended},
              error \in {FALSE, old.error, new.error} :
              Respond(q, "200", [status |-> first, ended |-> ended, error |-> error])
    BY DEF ReadUnlocked
  <1> HIDE DEF new, old
  <1>4. CASE Respond(q, "aborted", NoFields)
    BY <1>1, <1>4, EmptyAnswer, RespondQueryInv DEF QueryTypes
  <1>5. ASSUME NEW first \in Racy(old.status, new.status), NEW ended \in {old.ended, new.ended},
               NEW error \in {FALSE, old.error, new.error},
               Respond(q, "200", [status |-> first, ended |-> ended, error |-> error])
        PROVE  QueryInv'
    <2> DEFINE f == [status |-> first, ended |-> ended, error |-> error]
    <2>1. first \in {old.status, "torn", new.status}
      BY DEF Racy
    <2>2. f \in FieldSet
      BY <1>2, <2>1 DEF FieldSet
    <2>3. first \in Store!Finished => status[asked[q]] = first
      BY <1>2, <1>1, <2>1 DEF Past, Store!Finished
    <2>4. error => status[asked[q]] = "failed"
      BY <1>1, <1>2 DEF Past
    <2>5. ended => status[asked[q]] \in Store!Finished
      BY <1>1, <1>2 DEF Past
    <2>6. Past(f, asked[q])
      BY <2>3, <2>4, <2>5 DEF Past
    <2>7. "200" \in AnswerCodes
      BY DEF AnswerCodes
    <2> HIDE DEF f
    <2>8. Respond(q, "200", f)
      BY <1>5 DEF f
    <2>9. QED
      BY <1>1, <2>2, <2>6, <2>7, <2>8, RespondQueryInv DEF QueryTypes
  <1>6. QED
    BY <1>3, <1>4, <1>5

\* Queries only read, and what they have read stays true as jobs go on.
LEMMA NextQueryInv == JobInv /\ QueryInv /\ [Next]_vars => QueryInv'
  <1> SUFFICES ASSUME JobInv, QueryInv, [Next]_vars PROVE QueryInv'
    OBVIOUS
  <1>1. ASSUME NEW q \in Queries, ReceiveQuery(q) \/ QueryStep(q) PROVE QueryInv'
    BY <1>1, ReceiveQueryInv, FindCurrentInv, FindInv, ReadStatusInv, ReadEndTimeInv,
       ChooseCodeInv, ReadUnlockedInv DEF QueryStep
  <1>2. CASE UNCHANGED queryVars
    <2>1. QueryTypes'
      BY <1>2 DEF QueryInv, QueryTypes, queryVars
    <2>2. \A q \in Queries : Reading(q)' /\ Answered(q)' /\ Consistent(q)'
      BY <1>2, FrameQuery DEF QueryInv, queryVars
    <2>3. QED
      BY <2>1, <2>2 DEF QueryInv
  <1>3. ASSUME NEW r \in Requests,
               Receive(r) \/ Handler(r) \/ Action(r) \/ Mark(r) \/ Reboot(r)
        PROVE  UNCHANGED queryVars
    BY <1>3 DEF Receive, Handler, ReadCurrent, CheckRunning, TryStart, Accept, Action,
       CommandEnds, ScheduleReboot, ActionPanics, Mark, MarkComplete, MarkFailed, Reboot
  <1>4. Cleanup \/ Tick \/ UNCHANGED vars => UNCHANGED queryVars
    BY DEF Cleanup, Tick, vars
  <1>5. QED
    BY <1>1, <1>2, <1>3, <1>4 DEF Next

\* No query has arrived.
LEMMA InitQueryInv == Init => QueryInv
  <1> SUFFICES ASSUME Init PROVE QueryInv
    OBVIOUS
  <1>1. NoFields \in FieldSet /\ NoAnswer \in AnswerSet
    BY DEF NoFields, NoAnswer, FieldSet, AnswerSet, AnswerCodes, Store!JobStatus
  <1>2. QueryTypes
    BY <1>1 DEF Init, QueryTypes, QueryLabels
  <1>3. \A q \in Queries : query[q] = "absent" /\ asked[q] = None /\ answer[q].code = "none"
    BY DEF Init, NoAnswer
  <1>4. QED
    BY <1>2, <1>3 DEF QueryInv, Reading, Answered, Consistent

\* The invariant of the queries holds always.
LEMMA QueryInvariance == SafeSpec => [](JobInv /\ QueryInv)
  BY InitJobInv, InitQueryInv, NextJobInv, NextQueryInv, PTL DEF SafeSpec

\* The three reads of the status endpoint never contradict one another, with
\* any number of requests and queries interleaved with them.
THEOREM AnswerConsistentTheorem == SafeSpec => []AnswerConsistent
  <1>1. QueryInv => AnswerConsistent
    BY DEF QueryInv, Consistent, AnswerConsistent
  <1>2. QED
    BY QueryInvariance, <1>1, PTL

\* An outcome, an end time or an error that a client is told is how the job's
\* goroutine ended, for the reads without a lock too.
THEOREM ToldTruthTheorem == SafeSpec => []ToldTruth
  <1>1. ASSUME JobInv, QueryInv, NEW q \in Queries, query[q] = "done", answer[q].job # None
        PROVE  LET a == answer[q] IN
               /\ a.fields.status = "completed" => step[a.job] = "returned"
               /\ a.fields.status = "failed" \/ a.fields.error => step[a.job] = "panicked"
               /\ a.fields.ended => step[a.job] \in {"returned", "panicked"}
    <2>1. answer[q].job \in Requests /\ Past(answer[q].fields, answer[q].job)
      BY <1>1 DEF QueryInv, QueryTypes, AnswerSet, Answered
    <2>2. \A r \in Requests : /\ status[r] = "completed" => step[r] = "returned"
                              /\ status[r] = "failed" => step[r] = "panicked"
      BY <1>1 DEF JobInv, StatusInv, JobTypes, OwnJob, Outcomes, Steps, Active
    <2>3. QED
      BY <2>1, <2>2 DEF Past, Store!Finished
  <1>2. JobInv /\ QueryInv => ToldTruth
    BY <1>1 DEF ToldTruth
  <1>3. QED
    BY QueryInvariance, <1>2, PTL

\* A known identifier is answered "not found" only for a job that has finished
\* and was dropped for its age or displaced by MaxHistory jobs that finished
\* after it.
THEOREM NotFoundTheorem == SafeSpec => []NotFoundTruth
  <1>1. ASSUME QueryInv, NEW q \in Queries, answer[q].code = "404"
        PROVE  LET j == answer[q].job IN
               /\ status[j] \in Store!Finished
               /\ \/ startTime[j] + MaxAge <= now
                  \/ MaxHistory <= Cardinality(Store!Later(j))
    BY <1>1 DEF QueryInv, Answered, SP!Droppable, SP!Later, Store!Later, SP!NoTime, Store!NoTime,
       SP!Cardinality, Cardinality
  <1>2. QueryInv => NotFoundTruth
    BY <1>1 DEF NotFoundTruth
  <1>3. QED
    BY QueryInvariance, <1>2, PTL

-----------------------------------------------------------------------------
(* The service uses the store as its specification allows.                 *)

\* The two instances of the store are one.
LEMMA SameStore == [SP!Next]_(SP!vars) => [Store!Next]_(Store!vars)
  <1> SUFFICES ASSUME [SP!Next]_(SP!vars) PROVE [Store!Next]_(Store!vars)
    OBVIOUS
  <1> USE DEF SP!vars, Store!vars, Store!Next
  <1>1. ASSUME NEW r \in Requests, SP!NewJob(r) \/ (status[r] = "pending" /\ SP!TryStartJob(r))
        PROVE  Store!NewJob(r) \/ (status[r] = "pending" /\ Store!TryStartJob(r))
    BY <1>1 DEF Store!NewJob, SP!NewJob, Store!TryStartJob, SP!TryStartJob, Store!StartJob,
       SP!StartJob, Store!RefuseJob, SP!RefuseJob, Store!SlotFree, SP!SlotFree,
       Store!IsRunning, SP!IsRunning
  <1>2. ASSUME NEW o PROVE Store!FinishCurrentJob(o) = SP!FinishCurrentJob(o)
    BY DEF Store!FinishCurrentJob, SP!FinishCurrentJob, Store!AddToHistory, SP!AddToHistory
  <1>3. CASE SP!CompleteCurrentJob \/ SP!FailCurrentJob
    BY <1>2, <1>3 DEF Store!CompleteCurrentJob, SP!CompleteCurrentJob,
       Store!FailCurrentJob, SP!FailCurrentJob
  <1>4. CASE SP!CleanupOldJobs \/ SP!Tick
    BY <1>4 DEF Store!CleanupOldJobs, SP!CleanupOldJobs, Store!Fresh, SP!Fresh, Store!Keep,
       SP!Keep, Store!Tick, SP!Tick
  <1>5. QED
    BY <1>1, <1>3, <1>4 DEF SP!Next

\* Handlers, goroutines, queries and cleanup together call the store as module
\* JobStore allows, so the theorems of JobStoreProofs hold of it here too.
THEOREM StoreRefinement == SafeSpec => Store!Spec
  <1>1. Init => Store!Init
    BY DEF Init
  <1>2. JobInv /\ [Next]_vars => [Store!Next]_(Store!vars)
    BY StoreStep, SameStore
  <1>3. QED
    BY <1>1, <1>2, InitJobInv, NextJobInv, PTL DEF SafeSpec, Store!Spec

-----------------------------------------------------------------------------
(* What the clients see: this service implements JobService too.           *)

\* A handler that has not reached NewJob has no job, and it answers last.
ClientInv ==
    /\ JobInv
    /\ \A r \in Requests :
          /\ pc[r] \in {"absent", "admitting", "checking"} => status[r] = "absent"
          /\ reply[r] # "none" => pc[r] = "done"

\* The status of one job at most changes: of a new one by its handler, or of
\* the one in the slot, which is its own goroutine's.
LEMMA MarksOwn ==
    ASSUME JobInv, NEW r \in Requests, Mark(r)
    PROVE  /\ status[r] = "running"
           /\ \E outcome \in {"completed", "failed"} : status' = [status EXCEPT ![r] = outcome]
  <1>1. step[r] \in Active
    BY DEF Mark, MarkComplete, MarkFailed, Processing, Active
  <1>2. current = r /\ current # None /\ status[r] = "running"
    BY <1>1, StatusAssumption DEF JobInv, StatusInv, OwnJob
  <1>3. QED
    BY <1>2 DEF Mark, MarkComplete, MarkFailed, Store!CompleteCurrentJob, Store!FailCurrentJob,
       Store!FinishCurrentJob

\* Steps that neither answer a request nor touch a job.
LEMMA QuietSteps ==
    /\ \A r \in Requests :
          ReadCurrent(r) \/ Action(r) \/ Reboot(r) => UNCHANGED <<status, reply>>
    /\ \A q \in Queries : ReceiveQuery(q) \/ QueryStep(q) => UNCHANGED <<status, reply, pc>>
    /\ Cleanup \/ Tick \/ UNCHANGED vars => UNCHANGED <<status, reply, pc>>
    /\ \A r \in Requests : Action(r) \/ Reboot(r) \/ Mark(r) => UNCHANGED <<reply, pc>>
  <1>1. ASSUME NEW r \in Requests
        PROVE  /\ ReadCurrent(r) \/ Action(r) \/ Reboot(r) => UNCHANGED <<status, reply>>
               /\ Action(r) \/ Reboot(r) \/ Mark(r) => UNCHANGED <<reply, pc>>
    BY DEF ReadCurrent, Goto, Action, CommandEnds, ScheduleReboot, ActionPanics, Reboot, Mark,
       MarkComplete, MarkFailed, storeVars, handlerVars
  <1>2. ASSUME NEW q \in Queries, ReceiveQuery(q) \/ QueryStep(q)
        PROVE  UNCHANGED <<status, reply, pc>>
    <2>1. UNCHANGED <<storeVars, handlerVars, jobVars>>
      BY <1>2, ZenonT(30) DEF ReceiveQuery, QueryStep, FindCurrent, Find, ReadStatus, ReadEndTime,
         ChooseCode, ReadUnlocked
    <2>2. QED
      BY <2>1 DEF storeVars, handlerVars
  <1>3. Cleanup \/ Tick \/ UNCHANGED vars => UNCHANGED <<status, reply, pc>>
    BY DEF Cleanup, Tick, Store!CleanupOldJobs, Store!Tick, vars, storeVars, handlerVars
  <1>4. QED
    BY <1>1, <1>2, <1>3

\* The handlers' steps that answer or touch a job, by what they do to both.
LEMMA HandlerSteps ==
    ASSUME ClientInv, NEW r \in Requests, Receive(r) \/ CheckRunning(r) \/ TryStart(r) \/ Accept(r)
    PROVE  /\ pc[r] # "done" /\ reply[r] = "none"
           /\ \/ /\ Receive(r) /\ status[r] = "absent" /\ UNCHANGED status
                 /\ reply' = reply \/ reply' = [reply EXCEPT ![r] = "invalid"]
              \/ /\ status[r] \in {"absent", "pending"} /\ UNCHANGED status
                 /\ reply' = [reply EXCEPT ![r] = "409"]
                 /\ pc' = [pc EXCEPT ![r] = "done"]
                 /\ \E q \in Requests : status[q] = "running"
              \/ /\ status[r] = "absent" /\ UNCHANGED reply
                 /\ status' = [status EXCEPT ![r] = "pending"]
                 /\ pc' = [pc EXCEPT ![r] = "starting"]
              \/ /\ status[r] = "pending" /\ UNCHANGED reply
                 /\ status' = [status EXCEPT ![r] = "running"]
                 /\ pc' = [pc EXCEPT ![r] = "accepting"]
                 /\ \A q \in Requests : status[q] # "running"
              \/ /\ status[r] \in Started /\ UNCHANGED status
                 /\ reply' = [reply EXCEPT ![r] = "202"]
                 /\ pc' = [pc EXCEPT ![r] = "done"]
  <1> USE DEF At, Goto, Reply
  <1>1. /\ pc[r] \in {"absent", "checking", "starting", "accepting"} /\ reply[r] = "none"
        /\ pc[r] # "done"
    BY DEF ClientInv, Receive, CheckRunning, TryStart, Accept
  <1>2. /\ current \in Requests \cup {None} /\ seen[r] \in Requests \cup {None}
        /\ \A q \in Requests : status[q] = "running" => current = q
    BY DEF ClientInv, JobInv, Given, SP!StoreInv, SP!SlotInv, SP!StoreTypeOK, SP!OneRunning,
       SP!IsRunning
  <1>3. CASE Receive(r)
    BY <1>1, <1>3 DEF Receive, ClientInv, storeVars
  <1>4. CASE CheckRunning(r)
    <2>1. status[r] = "absent"
      BY <1>4 DEF CheckRunning, ClientInv
    <2>2. CASE seen[r] # None /\ Store!IsRunning(seen[r]) /\ Reply(r, "409") /\ UNCHANGED storeVars
      BY <1>1, <1>2, <2>1, <2>2 DEF Store!IsRunning, storeVars
    <2>3. CASE Goto(r, "starting") /\ Store!NewJob(r)
      BY <1>1, <2>1, <2>3 DEF Store!NewJob
    <2>4. QED
      BY <1>4, <2>2, <2>3 DEF CheckRunning
  <1>5. CASE TryStart(r)
    <2>1. status[r] = "pending"
      BY <1>5 DEF TryStart, ClientInv, JobInv, Given
    <2>2. CASE Store!StartJob(r) /\ Goto(r, "accepting")
      <3>1. ~(current # None /\ status[current] = "running")
            /\ status' = [status EXCEPT ![r] = "running"]
        BY <2>2 DEF Store!StartJob, Store!SlotFree, Store!IsRunning
      <3>2. \A q \in Requests : status[q] # "running"
        BY <1>2, <3>1, StatusAssumption
      <3>3. QED
        BY <1>1, <2>1, <2>2, <3>1, <3>2
    <2>3. CASE Store!RefuseJob(r) /\ Reply(r, "409")
      <3>1. current \in Requests /\ status[current] = "running" /\ UNCHANGED status
        BY <1>2, <2>3 DEF Store!RefuseJob, Store!vars, Store!SlotFree, Store!IsRunning
      <3>2. QED
        BY <1>1, <2>1, <2>3, <3>1
    <2>4. QED
      BY <1>5, <2>2, <2>3 DEF TryStart
  <1>6. CASE Accept(r)
    BY <1>1, <1>6 DEF Accept, ClientInv, JobInv, Given, storeVars
  <1>7. QED
    BY <1>3, <1>4, <1>5, <1>6

\* Handlers keep their stage, and goroutines finish jobs that have one.
LEMMA NextClientInv == ClientInv /\ [Next]_vars => ClientInv'
  <1> SUFFICES ASSUME ClientInv, [Next]_vars PROVE ClientInv'
    OBVIOUS
  <1>1. JobInv' /\ JobInv
    BY NextJobInv DEF ClientInv
  <1>2. /\ pc \in [Requests -> Labels] /\ reply \in [Requests -> Replies]
        /\ status \in [Requests -> Store!JobStatus]
        /\ \A r \in Requests :
              /\ pc[r] \in {"absent", "admitting", "checking"} => status[r] = "absent"
              /\ reply[r] # "none" => pc[r] = "done"
    BY DEF ClientInv, JobInv, Given, StatusInv, JobTypes
  <1>3. ASSUME UNCHANGED <<status, reply, pc>> PROVE ClientInv'
    BY <1>1, <1>2, <1>3 DEF ClientInv
  <1>4. ASSUME NEW r \in Requests, ReadCurrent(r) \/ Receive(r) PROVE ClientInv'
    <2>1. /\ UNCHANGED status /\ status[r] = "absent" /\ reply[r] = "none"
          /\ \/ pc' = [pc EXCEPT ![r] = "checking"] /\ reply' = reply
             \/ pc' = [pc EXCEPT ![r] = "admitting"] /\ reply' = reply
             \/ pc' = [pc EXCEPT ![r] = "done"] /\ reply' = [reply EXCEPT ![r] = "invalid"]
      BY <1>2, <1>4 DEF ReadCurrent, Receive, At, Goto, Reply, storeVars
    <2>2. QED
      BY <1>1, <1>2, <2>1 DEF ClientInv
  <1>5. ASSUME NEW r \in Requests, CheckRunning(r) \/ TryStart(r) \/ Accept(r) PROVE ClientInv'
    <2>1. ~Receive(r)
      BY <1>5 DEF CheckRunning, TryStart, Accept, Receive, At
    <2>2. \/ /\ UNCHANGED status /\ pc' = [pc EXCEPT ![r] = "done"]
             /\ \E code \in {"202", "409"} : reply' = [reply EXCEPT ![r] = code]
          \/ /\ UNCHANGED reply /\ reply[r] = "none"
             /\ \E s \in {"pending", "running"} : status' = [status EXCEPT ![r] = s]
             /\ \E l \in {"starting", "accepting"} : pc' = [pc EXCEPT ![r] = l]
      BY <1>5, <2>1, HandlerSteps
    <2>3. QED
      BY <1>1, <1>2, <2>2 DEF ClientInv
  <1>6. ASSUME NEW r \in Requests, Mark(r) PROVE ClientInv'
    <2>1. /\ UNCHANGED <<reply, pc>> /\ status[r] = "running"
          /\ \E outcome \in {"completed", "failed"} : status' = [status EXCEPT ![r] = outcome]
      BY <1>1, <1>6, QuietSteps, MarksOwn
    <2>2. QED
      BY <1>1, <1>2, <2>1 DEF ClientInv
  <1>7. ASSUME NEW r \in Requests, Action(r) \/ Reboot(r) PROVE ClientInv'
    BY <1>3, <1>7, QuietSteps
  <1>8. ASSUME NEW q \in Queries, ReceiveQuery(q) \/ QueryStep(q) PROVE ClientInv'
    BY <1>3, <1>8, QuietSteps
  <1>9. CASE Cleanup \/ Tick \/ UNCHANGED vars
    BY <1>3, <1>9, QuietSteps
  <1>10. QED
    BY <1>4, <1>5, <1>6, <1>7, <1>8, <1>9 DEF Next, Handler

\* A running job is executing; a new one has no state yet.
LEMMA JobStates ==
    ASSUME ClientInv
    PROVE  /\ DOMAIN jobStates = Requests
           /\ \A r \in Requests : /\ jobStates[r] = JobOf(r)
                                  /\ jobStates[r] \in Client!Live <=> status[r] = "running"
  <1>1. \A r \in Requests :
           status[r] \in {"absent", "pending", "running", "completed", "failed"}
    BY DEF ClientInv, JobInv, StatusInv, JobTypes, Store!JobStatus, Store!Finished
  <1>2. QED
    BY <1>1 DEF jobStates, JobOf, Client!Live

\* A step that gives one job a new status.
LEMMA OneJobMoves ==
    ASSUME ClientInv, NEW r \in Requests, NEW s, status' = [status EXCEPT ![r] = s]
    PROVE  jobStates' = [jobStates EXCEPT ![r] = IF s \in {"absent", "pending"} THEN "none"
                                                 ELSE IF s = "running" THEN "executing" ELSE s]
  <1>1. status \in [Requests -> Store!JobStatus]
    BY DEF ClientInv, JobInv, StatusInv, JobTypes
  <1>2. QED
    BY <1>1 DEF jobStates, JobOf

\* Every step of the service is one that the clients' specification allows.
LEMMA NextClient == ClientInv /\ [Next]_vars => [Client!Next]_(Client!vars)
  <1> SUFFICES ASSUME ClientInv, [Next]_vars PROVE [Client!Next]_(Client!vars)
    OBVIOUS
  <1> USE DEF Client!vars
  <1>1. reply \in [Requests -> Replies]
    BY DEF ClientInv, JobInv, Given
  <1>2. ASSUME UNCHANGED <<status, reply>> PROVE UNCHANGED Client!vars
    BY <1>2 DEF jobStates, JobOf
  <1>3. ASSUME NEW r \in Requests, Receive(r) \/ CheckRunning(r) \/ TryStart(r) \/ Accept(r)
        PROVE  [Client!Next]_(Client!vars)
    <2>1. reply[r] = "none" /\ (status[r] \in {"absent", "pending"} => jobStates[r] = "none")
      BY <1>3, HandlerSteps, JobStates DEF JobOf
    <2>2. UNCHANGED status => UNCHANGED jobStates
      BY DEF jobStates, JobOf
    <2>3. CASE /\ status[r] = "absent" /\ UNCHANGED status
               /\ reply' = [reply EXCEPT ![r] = "invalid"]
      <3>1. Client!Refuse(r)
        BY <2>1, <2>2, <2>3 DEF Client!Refuse, Client!Tells
      <3>2. QED
        BY <3>1 DEF Client!Next
    <2>4. CASE /\ status[r] \in {"absent", "pending"} /\ UNCHANGED status
               /\ reply' = [reply EXCEPT ![r] = "409"]
               /\ \E q \in Requests : status[q] = "running"
      <3>1. Client!Busy(r)
        BY <2>1, <2>2, <2>4, JobStates DEF Client!Busy, Client!Tells
      <3>2. QED
        BY <3>1 DEF Client!Next
    <2>5. CASE status[r] = "absent" /\ UNCHANGED reply /\ status' = [status EXCEPT ![r] = "pending"]
      <3>1. status \in [Requests -> Store!JobStatus]
        BY DEF ClientInv, JobInv, StatusInv, JobTypes
      <3>2. jobStates' = jobStates
        BY <2>5, <3>1 DEF jobStates, JobOf
      <3>3. QED
        BY <2>5, <3>2
    <2>6. CASE /\ status[r] = "pending" /\ UNCHANGED reply
               /\ status' = [status EXCEPT ![r] = "running"]
               /\ \A q \in Requests : status[q] # "running"
      <3>1. jobStates' = [jobStates EXCEPT ![r] = "executing"]
        BY <2>6, OneJobMoves
      <3>2. Client!Start(r)
        BY <2>1, <2>6, <3>1, JobStates DEF Client!Start, Client!CanTake, Client!Moves
      <3>3. QED
        BY <3>2 DEF Client!Next
    <2>7. CASE status[r] \in Started /\ UNCHANGED status /\ reply' = [reply EXCEPT ![r] = "202"]
      <3>1. jobStates[r] \in {"accepted", "executing"} \cup Client!Ended
        BY <2>7, JobStates DEF JobOf, Started, Store!Finished, Client!Ended
      <3>2. Client!Confirm(r)
        BY <2>1, <2>2, <2>7, <3>1 DEF Client!Confirm, Client!Tells
      <3>3. QED
        BY <3>2 DEF Client!Next
    <2>8. QED
      BY <1>2, <1>3, <2>3, <2>4, <2>5, <2>6, <2>7, HandlerSteps
  <1>4. ASSUME NEW r \in Requests, Mark(r) PROVE [Client!Next]_(Client!vars)
    <2>1. PICK outcome \in {"completed", "failed"} : status' = [status EXCEPT ![r] = outcome]
      BY <1>4, MarksOwn DEF ClientInv
    <2>2. UNCHANGED reply /\ status[r] = "running"
      BY <1>4, QuietSteps, MarksOwn DEF ClientInv
    <2>3. jobStates' = [jobStates EXCEPT ![r] = outcome] /\ jobStates[r] = "executing"
      BY <2>1, <2>2, OneJobMoves, JobStates DEF JobOf
    <2>4. Client!Finish(r)
      BY <2>2, <2>3 DEF Client!Finish, Client!Moves, Client!Ended
    <2>5. QED
      BY <2>4 DEF Client!Next
  <1>5. ASSUME NEW r \in Requests, ReadCurrent(r) \/ Action(r) \/ Reboot(r)
        PROVE  UNCHANGED Client!vars
    BY <1>2, <1>5, QuietSteps
  <1>6. ASSUME NEW q \in Queries, ReceiveQuery(q) \/ QueryStep(q) PROVE UNCHANGED Client!vars
    BY <1>2, <1>6, QuietSteps
  <1>7. CASE Cleanup \/ Tick \/ UNCHANGED vars
    BY <1>2, <1>7, QuietSteps
  <1>8. QED
    BY <1>3, <1>4, <1>5, <1>6, <1>7 DEF Next, Handler

\* The handler that answers status queries implements the same specification as
\* the handler with the pool, with an execution where that one has a queue: a
\* client cannot tell them apart by what happens to its job.
THEOREM ClientRefinementTheorem == SafeSpec => Client!SafeSpec
  <1>1. Init => Client!Init
    BY DEF Init, Client!Init, Store!Init, jobStates, JobOf
  <1>2. Init => ClientInv
    BY InitJobInv DEF Init, ClientInv, Store!Init
  <1>3. QED
    BY <1>1, <1>2, NextClientInv, NextClient, PTL DEF SafeSpec, Client!SafeSpec

=============================================================================
