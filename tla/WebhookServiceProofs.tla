------------------------ MODULE WebhookServiceProofs ------------------------
(***************************************************************************)
(* Proofs about WebhookService, for every set of requests and workers and  *)
(* every bound: the calls that finish "the current job" finish the job of  *)
(* their caller, system commands never overlap, the answers are true, and  *)
(* the service uses store and pool as their specifications allow.          *)
(*                                                                         *)
(* OwnJob is not inductive.  A worker that marks its job empties the slot; *)
(* OwnJob survives only because nobody else owns that same job, which is   *)
(* OneOwner; and OneOwner survives a send or a receive only because the    *)
(* result of the submission tells where the task is (Stages, InPool).      *)
(*                                                                         *)
(* The answers need the invariants of the parts (PartsInv, proved once for *)
(* each part) and what the submission's result says about the shutdown     *)
(* (AnswerOK).  The backlog is never full because of OwnJob and OneOwner.  *)
(***************************************************************************)
EXTENDS WebhookService, QueueLemmas, TLAPS

SP == INSTANCE JobStoreProofs WITH Jobs <- Requests, NoJob <- None
PP == INSTANCE WorkerPoolProofs WITH
    Tasks <- Requests, NoTask <- None, Stoppers <- {main}

Types ==
    /\ status \in [Requests -> Store!JobStatus]
    /\ current \in Requests \cup {None}
    /\ queue \in Seq(Requests)
    /\ worker \in [Workers -> {"idle", "busy", "exited"}]
    /\ task \in [Workers -> Requests \cup {None}]
    /\ submit \in [Requests -> Pool!SubmitState]
    /\ pc \in [Requests -> Labels]
    /\ step \in [Requests -> Steps]

\* How far the handler is tells how far the job and the submission are.
Stages ==
    \A r \in Requests :
        /\ pc[r] \in {"absent", "admitting", "checking"} =>
              status[r] = "absent" /\ submit[r] = "new"
        /\ pc[r] = "starting" => status[r] = "pending" /\ submit[r] = "new"
        /\ pc[r] = "submitting" => submit[r] = "new"
        /\ pc[r] = "sending" => submit[r] = "sending"
        /\ pc[r] = "failing" => submit[r] \in {"rejected", "full"}

\* Only a task whose submission succeeded is in the channel or at a worker.
InPool ==
    /\ \A r \in Requests : Queued(r) => submit[r] = "accepted"
    /\ \A w \in Workers : task[w] # None => submit[task[w]] = "accepted"
    /\ \A w \in Workers : worker[w] = "busy" => task[w] # None

ServiceInv == Types /\ Stages /\ InPool /\ OneOwner /\ OwnJob

-----------------------------------------------------------------------------

\* The service starts with nothing in flight.
LEMMA InitServiceInv == Init => ServiceInv
  <1> SUFFICES ASSUME Init PROVE ServiceInv
    OBVIOUS
  <1> USE ServiceAssumption
  <1>1. Types
    BY DEF Init, Types, Store!Init, Pool!Init, Store!JobStatus, Pool!SubmitState,
           Labels, Steps
  <1>2. Stages
    BY DEF Init, Stages, Store!Init, Pool!Init
  <1>3. InPool
    BY DEF Init, InPool, Queued, Store!Init, Pool!Init
  <1>4. OneOwner
    BY DEF Init, OneOwner, HandlerOwns, Queued, Pool!Init
  <1>5. OwnJob
    BY DEF Init, OwnJob, Owned, HandlerOwns, Queued, WorkerOwns, Pool!Init
  <1>6. QED
    BY <1>1, <1>2, <1>3, <1>4, <1>5 DEF ServiceInv

\* A step that leaves the slot, the statuses, the pool and the tasks alone and
\* moves no handler keeps the invariant.
Frame == UNCHANGED <<status, current, queue, worker, task, submit, pc, step>>

LEMMA FrameServiceInv == ServiceInv /\ Frame => ServiceInv'
  BY DEF Frame, ServiceInv, Types, Stages, InPool, OneOwner, OwnJob, Owned,
         HandlerOwns, Queued, WorkerOwns

\* Receive, ReadCurrent and AnswerAccepted move a handler that owns nothing,
\* to a label at which it owns nothing.
LEMMA PassiveServiceInv ==
    ASSUME ServiceInv, NEW r \in Requests, NEW label \in Labels,
           UNCHANGED <<status, current, queue, worker, task, submit, step>>,
           pc' = [pc EXCEPT ![r] = label],
           \/ pc[r] \in {"absent", "admitting"} /\ label \in {"admitting", "checking", "done"}
           \/ label = "done" /\ pc[r] # "failing"
    PROVE  ServiceInv'
  <1>1. Types'
    BY DEF ServiceInv, Types, Labels
  <1>2. Stages'
    BY DEF ServiceInv, Types, Stages
  <1>3. InPool'
    BY DEF ServiceInv, InPool, Queued
  <1>4. OneOwner'
    BY DEF ServiceInv, Types, OneOwner, HandlerOwns, Queued
  <1>5. OwnJob'
    BY DEF ServiceInv, Types, OwnJob, Owned, HandlerOwns, Queued, WorkerOwns
  <1>6. QED
    BY <1>1, <1>2, <1>3, <1>4, <1>5 DEF ServiceInv

\* CheckRunning answers or creates a job that was absent, hence not owned.
LEMMA CheckRunningServiceInv ==
    ASSUME ServiceInv, NEW r \in Requests, CheckRunning(r)
    PROVE  ServiceInv'
  <1>1. CASE Answer(r, "409") /\ UNCHANGED storeVars
    <2>1. /\ UNCHANGED <<status, current, queue, worker, task, submit, step>>
          /\ pc' = [pc EXCEPT ![r] = "done"] /\ pc[r] # "failing"
      BY <1>1 DEF CheckRunning, At, Answer, storeVars, poolVars, taskVars
    <2>2. QED
      BY <2>1, PassiveServiceInv DEF Labels
  <1>2. CASE Goto(r, "starting") /\ Store!NewJob(r)
    <2>1. /\ pc[r] = "checking" /\ pc' = [pc EXCEPT ![r] = "starting"]
          /\ status[r] = "absent" /\ status' = [status EXCEPT ![r] = "pending"]
          /\ UNCHANGED <<current, queue, worker, task, submit, step>>
      BY <1>2 DEF CheckRunning, At, Goto, Store!NewJob, poolVars, taskVars
    <2>2. Types'
      BY <2>1 DEF ServiceInv, Types, Labels, Store!JobStatus
    <2>3. Stages'
      BY <2>1 DEF ServiceInv, Types, Stages
    <2>4. InPool'
      BY <2>1 DEF ServiceInv, InPool, Queued
    <2>5. OneOwner'
      BY <2>1 DEF ServiceInv, Types, OneOwner, HandlerOwns, Queued
    <2>6. OwnJob'
      BY <2>1 DEF ServiceInv, Types, OwnJob, Owned, HandlerOwns, Queued, WorkerOwns
    <2>7. QED
      BY <2>2, <2>3, <2>4, <2>5, <2>6 DEF ServiceInv
  <1>3. QED
    BY <1>1, <1>2 DEF CheckRunning

\* TryStartJob succeeds only if the slot's job is not running: then nobody owns
\* a job, and the caller becomes the only owner.
LEMMA TryStartServiceInv ==
    ASSUME ServiceInv, NEW r \in Requests, TryStart(r)
    PROVE  ServiceInv'
  <1>1. CASE Store!RefuseJob(r) /\ Answer(r, "409")
    <2>1. /\ UNCHANGED <<status, current, queue, worker, task, submit, step>>
          /\ pc' = [pc EXCEPT ![r] = "done"] /\ pc[r] # "failing"
      BY <1>1 DEF TryStart, At, Answer, Store!RefuseJob, Store!vars, poolVars, taskVars
    <2>2. QED
      BY <2>1, PassiveServiceInv DEF Labels
  <1>2. CASE Store!StartJob(r) /\ Goto(r, "submitting")
    <2>1. /\ pc[r] = "starting" /\ pc' = [pc EXCEPT ![r] = "submitting"]
          /\ ~ (current # None /\ status[current] = "running")
          /\ status' = [status EXCEPT ![r] = "running"]
          /\ current' = r
          /\ UNCHANGED <<queue, worker, task, submit, step>>
      BY <1>2 DEF TryStart, At, Goto, Store!StartJob, Store!SlotFree, Store!IsRunning,
                  poolVars, taskVars
    <2>2. \A q \in Requests : ~Owned(q)
      BY <2>1, ServiceAssumption DEF ServiceInv, OwnJob
    <2>3. Types'
      BY <2>1 DEF ServiceInv, Types, Labels, Store!JobStatus
    <2>4. Stages'
      BY <2>1 DEF ServiceInv, Types, Stages
    <2>5. InPool'
      BY <2>1 DEF ServiceInv, InPool, Queued
    <2>6. ~Queued(r) /\ \A w \in Workers : task[w] # r
      BY <2>1, ServiceAssumption DEF ServiceInv, Stages, InPool
    <2>7. OneOwner'
      BY <2>1, <2>6 DEF ServiceInv, Types, OneOwner, HandlerOwns, Queued
    <2>8. OwnJob'
      BY <2>1, <2>2 DEF ServiceInv, Types, OwnJob, Owned, HandlerOwns, Queued, WorkerOwns
    <2>9. QED
      BY <2>3, <2>4, <2>5, <2>7, <2>8 DEF ServiceInv
  <1>3. QED
    BY <1>1, <1>2 DEF TryStart

\* The check of the shutdown flag leaves the job with its handler.
LEMMA SubmitCheckServiceInv ==
    ASSUME ServiceInv, NEW r \in Requests, SubmitCheck(r)
    PROVE  ServiceInv'
  <1>1. /\ pc[r] = "submitting" /\ submit[r] = "new"
        /\ \/ /\ submit' = [submit EXCEPT ![r] = "rejected"]
              /\ pc' = [pc EXCEPT ![r] = "failing"]
           \/ /\ submit' = [submit EXCEPT ![r] = "sending"]
              /\ pc' = [pc EXCEPT ![r] = "sending"]
        /\ UNCHANGED <<status, current, queue, worker, task, step>>
    BY DEF SubmitCheck, At, Goto, Pool!SubmitCheck, Pool!CheckOpen, storeVars, taskVars,
           ServiceInv, Types
  <1>2. Types'
    BY <1>1 DEF ServiceInv, Types, Labels, Pool!SubmitState
  <1>3. Stages'
    BY <1>1 DEF ServiceInv, Types, Stages
  <1>4. InPool'
    BY <1>1 DEF ServiceInv, Types, InPool, Queued
  <1>5. OneOwner'
    BY <1>1 DEF ServiceInv, Types, OneOwner, HandlerOwns, Queued
  <1>6. OwnJob'
    BY <1>1 DEF ServiceInv, Types, OwnJob, Owned, HandlerOwns, Queued, WorkerOwns
  <1>7. QED
    BY <1>2, <1>3, <1>4, <1>5, <1>6 DEF ServiceInv

\* A successful send hands the job from its handler to the channel, which did
\* not hold it; a full or closed channel leaves the pool as it was.
LEMMA SubmitSendServiceInv ==
    ASSUME ServiceInv, NEW r \in Requests, SubmitSend(r)
    PROVE  ServiceInv'
  <1>1. /\ pc[r] = "sending" /\ submit[r] = "sending"
        /\ UNCHANGED <<status, current, worker, task, step>>
    BY DEF SubmitSend, At, Pool!SubmitSend, Pool!Send, Pool!GiveUp, storeVars, taskVars
  <1>2. \/ /\ queue' = Append(queue, r)
           /\ submit' = [submit EXCEPT ![r] = "accepted"]
           /\ pc' = [pc EXCEPT ![r] = "accepting"]
        \/ /\ queue' = queue
           /\ submit' = [submit EXCEPT ![r] = "full"]
           /\ pc' = [pc EXCEPT ![r] = "failing"]
        \/ /\ queue' = queue
           /\ submit' = [submit EXCEPT ![r] = "panic"]
           /\ pc' = [pc EXCEPT ![r] = "done"]
    BY DEF SubmitSend, Goto, Answer, Pool!SubmitSend, Pool!Send, Pool!GiveUp,
           ServiceInv, Types
  <1>3. CASE queue' = Append(queue, r) /\ submit' = [submit EXCEPT ![r] = "accepted"]
             /\ pc' = [pc EXCEPT ![r] = "accepting"]
    <2>1. ~Queued(r) /\ \A w \in Workers : task[w] # r
      BY <1>1, ServiceAssumption DEF ServiceInv, InPool
    <2>2. /\ queue' \in Seq(Requests)
          /\ \A q : Queued(q)' <=> (q = r \/ Queued(q))
          /\ \A i, k \in DOMAIN queue' : queue'[i] = queue'[k] => i = k
      <3>1. queue \in Seq(Requests) /\ Distinct(queue) /\ ~Holds(queue, r)
        BY <2>1 DEF ServiceInv, Types, OneOwner, Distinct, Holds, Queued
      <3>2. /\ Append(queue, r) \in Seq(Requests)
            /\ \A x : Holds(Append(queue, r), x) <=> (x = r \/ Holds(queue, x))
            /\ Distinct(Append(queue, r))
        BY <3>1, AppendHolds, AppendDistinct
      <3>3. QED
        BY <1>3, <3>2 DEF Distinct, Holds, Queued
    <2> HIDE DEF Queued
    <2>3. current = r /\ status[r] = "running"
      BY <1>1 DEF ServiceInv, OwnJob, Owned, HandlerOwns
    <2>4. Types'
      BY <1>1, <1>3, <2>2 DEF ServiceInv, Types, Labels, Pool!SubmitState
    <2>5. Stages'
      BY <1>1, <1>3 DEF ServiceInv, Types, Stages
    <2>6. InPool'
      BY <1>1, <1>3, <2>1, <2>2 DEF ServiceInv, Types, InPool
    <2>7. OneOwner'
      BY <1>1, <1>3, <2>1, <2>2 DEF ServiceInv, Types, OneOwner, HandlerOwns
    <2>8. OwnJob'
      BY <1>1, <1>3, <2>2, <2>3 DEF ServiceInv, Types, OwnJob, Owned, HandlerOwns, WorkerOwns
    <2>9. QED
      BY <2>4, <2>5, <2>6, <2>7, <2>8 DEF ServiceInv
  <1>4. ASSUME queue' = queue,
               NEW label \in {"failing", "done"}, NEW outcome \in {"full", "panic"},
               label = "failing" => outcome = "full",
               submit' = [submit EXCEPT ![r] = outcome],
               pc' = [pc EXCEPT ![r] = label]
        PROVE  ServiceInv'
    <2>1. Types'
      BY <1>1, <1>4 DEF ServiceInv, Types, Labels, Pool!SubmitState
    <2>2. Stages'
      BY <1>1, <1>4 DEF ServiceInv, Types, Stages
    <2>3. InPool'
      BY <1>1, <1>4 DEF ServiceInv, Types, InPool, Queued
    <2>4. OneOwner'
      BY <1>1, <1>4 DEF ServiceInv, Types, OneOwner, HandlerOwns, Queued
    <2>5. OwnJob'
      BY <1>1, <1>4 DEF ServiceInv, Types, OwnJob, Owned, HandlerOwns, Queued, WorkerOwns
    <2>6. QED
      BY <2>1, <2>2, <2>3, <2>4, <2>5 DEF ServiceInv
  <1>5. QED
    BY <1>2, <1>3, <1>4

\* FailCurrentJob after a failed submission: the slot holds the caller's job,
\* which nobody else owns, so emptying it takes no job from anybody.
LEMMA SubmitFailedServiceInv ==
    ASSUME ServiceInv, NEW r \in Requests, SubmitFailed(r)
    PROVE  ServiceInv'
  <1>1. current = r
    BY DEF SubmitFailed, At, ServiceInv, OwnJob, Owned, HandlerOwns
  <1>2. ~Queued(r) /\ \A w \in Workers : task[w] # r
    BY DEF SubmitFailed, At, ServiceInv, OneOwner, HandlerOwns
  <1>3. /\ pc[r] = "failing" /\ pc' = [pc EXCEPT ![r] = "done"]
        /\ status' = [status EXCEPT ![r] = "failed"]
        /\ current' = None
        /\ UNCHANGED <<queue, worker, task, submit, step>>
    BY <1>1, ServiceAssumption
    DEF SubmitFailed, At, Answer, Store!FailCurrentJob, Store!FinishCurrentJob,
        poolVars, taskVars
  <1>4. Types'
    BY <1>3 DEF ServiceInv, Types, Labels, Store!JobStatus, Store!Finished
  <1>5. Stages'
    BY <1>3 DEF ServiceInv, Types, Stages
  <1>6. InPool'
    BY <1>3 DEF ServiceInv, InPool, Queued
  <1>7. OneOwner'
    BY <1>3 DEF ServiceInv, Types, OneOwner, HandlerOwns, Queued
  <1>8. OwnJob'
    BY <1>1, <1>2, <1>3
    DEF ServiceInv, Types, OwnJob, Owned, HandlerOwns, Queued, WorkerOwns
  <1>9. QED
    BY <1>4, <1>5, <1>6, <1>7, <1>8 DEF ServiceInv

-----------------------------------------------------------------------------
(* The workers.                                                            *)

\* A receive hands the job from the channel to one worker.
LEMMA TakeTaskServiceInv ==
    ASSUME ServiceInv, NEW w \in Workers, TakeTask(w)
    PROVE  ServiceInv'
  <1> DEFINE r == Head(queue)
  <1>1. /\ worker[w] = "idle" /\ queue # <<>>
        /\ queue' = Tail(queue)
        /\ task' = [task EXCEPT ![w] = r]
        /\ worker' = [worker EXCEPT ![w] = "busy"]
        /\ step' = [step EXCEPT ![r] = "begun"]
        /\ UNCHANGED <<status, current, submit, pc>>
    BY DEF TakeTask, Pool!WorkerTake, storeVars, handlerVars
  <1>2. /\ queue' \in Seq(Requests) /\ r \in Requests /\ Queued(r)
        /\ \A q : Queued(q)' <=> (q # r /\ Queued(q))
        /\ \A i, k \in DOMAIN queue' : queue'[i] = queue'[k] => i = k
    <2>1. queue \in Seq(Requests) /\ Distinct(queue)
      BY DEF ServiceInv, Types, OneOwner, Distinct
    <2>2. /\ Tail(queue) \in Seq(Requests) /\ r \in Requests /\ Holds(queue, r)
          /\ \A x : Holds(Tail(queue), x) <=> (x # r /\ Holds(queue, x))
          /\ Distinct(Tail(queue))
      BY <1>1, <2>1, TailHolds
    <2>3. QED
      BY <1>1, <2>2 DEF Distinct, Holds, Queued
  <1> HIDE DEF r, Queued
  <1>3. submit[r] = "accepted" /\ current = r /\ status[r] = "running"
        /\ \A v \in Workers : task[v] # r
    BY <1>2 DEF ServiceInv, InPool, OneOwner, OwnJob, Owned
  <1>4. Types'
    BY <1>1, <1>2 DEF ServiceInv, Types, Steps
  <1>5. Stages'
    BY <1>1 DEF ServiceInv, Stages
  <1>6. InPool'
    BY <1>1, <1>2, <1>3, ServiceAssumption DEF ServiceInv, Types, InPool
  <1>7. ~HandlerOwns(r)
    BY <1>2 DEF ServiceInv, OneOwner
  <1>8. OneOwner'
    BY <1>1, <1>2, <1>3, <1>7 DEF ServiceInv, Types, OneOwner, HandlerOwns
  <1>9. OwnJob'
    BY <1>1, <1>2, <1>3 DEF ServiceInv, Types, OwnJob, Owned, HandlerOwns, WorkerOwns
  <1>10. QED
    BY <1>4, <1>5, <1>6, <1>8, <1>9 DEF ServiceInv

\* A step of a task that does not mark its job changes nobody's ownership.
LEMMA TaskStepServiceInv ==
    ASSUME ServiceInv, NEW w \in Workers, NEW label \in Steps,
           worker[w] = "busy", step[task[w]] # "marked",
           step' = [step EXCEPT ![task[w]] = label],
           UNCHANGED <<status, current, queue, worker, task, submit, pc>>
    PROVE  ServiceInv'
  <1>1. task[w] \in Requests
    BY DEF ServiceInv, Types, InPool
  <1>2. Types'
    BY <1>1 DEF ServiceInv, Types
  <1>3. Stages' /\ InPool' /\ OneOwner'
    BY DEF ServiceInv, Stages, InPool, OneOwner, HandlerOwns, Queued
  <1>4. OwnJob'
    BY <1>1 DEF ServiceInv, Types, OwnJob, Owned, HandlerOwns, Queued, WorkerOwns
  <1>5. QED
    BY <1>2, <1>3, <1>4 DEF ServiceInv

\* Marking the current job, completed or failed, from a task: the slot holds
\* the worker's own job, and the worker is its only owner.
LEMMA MarkServiceInv ==
    ASSUME ServiceInv, NEW w \in Workers, NEW outcome \in {"completed", "failed"},
           worker[w] = "busy", step[task[w]] # "marked",
           Store!FinishCurrentJob(outcome),
           step' = [step EXCEPT ![task[w]] = "marked"],
           UNCHANGED <<queue, worker, task, submit, pc>>
    PROVE  ServiceInv'
  <1> DEFINE r == task[w]
  <1>1. r \in Requests
    BY DEF ServiceInv, Types, InPool
  <1>2. current = r /\ ~HandlerOwns(r) /\ ~Queued(r)
    BY <1>1 DEF ServiceInv, OneOwner, OwnJob, Owned, WorkerOwns
  <1>3. status' = [status EXCEPT ![r] = outcome] /\ current' = None
    BY <1>1, <1>2, ServiceAssumption DEF Store!FinishCurrentJob
  <1>4. pc[r] \notin {"absent", "admitting", "checking", "starting"}
    BY <1>1, ServiceAssumption DEF ServiceInv, InPool, Stages
  <1>5. Types'
    BY <1>1, <1>3 DEF ServiceInv, Types, Steps, Store!JobStatus, Store!Finished
  <1>6. Stages'
    BY <1>1, <1>3, <1>4 DEF ServiceInv, Types, Stages
  <1>7. InPool' /\ OneOwner'
    BY DEF ServiceInv, InPool, OneOwner, HandlerOwns, Queued
  <1>8. OwnJob'
    BY <1>1, <1>2, <1>3
    DEF ServiceInv, Types, OwnJob, Owned, HandlerOwns, Queued, WorkerOwns
  <1>9. QED
    BY <1>5, <1>6, <1>7, <1>8 DEF ServiceInv

\* A worker that puts its marked task down, or returns, owns nothing.
LEMMA ReleaseServiceInv ==
    ASSUME ServiceInv, NEW w \in Workers, TaskReturns(w) \/ WorkerLeaves(w)
    PROVE  ServiceInv'
  <1>1. CASE TaskReturns(w)
    <2>1. /\ worker[w] = "busy"
          /\ worker' = [worker EXCEPT ![w] = "idle"]
          /\ task' = [task EXCEPT ![w] = None]
          /\ UNCHANGED <<status, current, queue, submit, pc, step>>
      BY <1>1 DEF TaskReturns, Executing, Pool!TaskReturn, Pool!TaskEnd,
                  storeVars, handlerVars, taskVars
    <2>2. Types' /\ Stages' /\ InPool'
      BY <2>1 DEF ServiceInv, Types, Stages, InPool, Queued
    <2>3. OneOwner'
      BY <2>1, ServiceAssumption DEF ServiceInv, Types, OneOwner, HandlerOwns, Queued
    <2>4. OwnJob'
      BY <2>1 DEF ServiceInv, Types, OwnJob, Owned, HandlerOwns, Queued, WorkerOwns
    <2>5. QED
      BY <2>2, <2>3, <2>4 DEF ServiceInv
  <1>2. CASE WorkerLeaves(w)
    <2>1. /\ worker[w] = "idle"
          /\ worker' = [worker EXCEPT ![w] = "exited"]
          /\ UNCHANGED <<status, current, queue, task, submit, pc, step>>
      BY <1>2 DEF WorkerLeaves, Pool!WorkerExit, storeVars, handlerVars, taskVars
    <2>2. Types' /\ Stages' /\ InPool' /\ OneOwner'
      BY <2>1 DEF ServiceInv, Types, Stages, InPool, OneOwner, HandlerOwns, Queued
    <2>3. OwnJob'
      BY <2>1 DEF ServiceInv, Types, OwnJob, Owned, HandlerOwns, Queued, WorkerOwns
    <2>4. QED
      BY <2>2, <2>3 DEF ServiceInv
  <1>3. QED
    BY <1>1, <1>2

-----------------------------------------------------------------------------

\* Every step of the service preserves the invariant.
LEMMA NextServiceInv == ServiceInv /\ [Next]_vars => ServiceInv'
  <1> SUFFICES ASSUME ServiceInv, [Next]_vars PROVE ServiceInv'
    OBVIOUS
  <1>1. ASSUME NEW r \in Requests, Receive(r) PROVE ServiceInv'
    <2>1. /\ pc[r] = "absent"
          /\ UNCHANGED <<status, current, queue, worker, task, submit, step>>
          /\ \E label \in {"admitting", "done"} : pc' = [pc EXCEPT ![r] = label]
      BY <1>1 DEF Receive, Goto, Answer, storeVars, poolVars, taskVars
    <2>2. QED
      BY <2>1, PassiveServiceInv DEF Labels
  <1>2. ASSUME NEW r \in Requests, ReadCurrent(r) PROVE ServiceInv'
    <2>1. /\ pc[r] = "admitting"
          /\ UNCHANGED <<status, current, queue, worker, task, submit, step>>
          /\ pc' = [pc EXCEPT ![r] = "checking"]
      BY <1>2 DEF ReadCurrent, At, Goto, storeVars, poolVars, taskVars
    <2>2. QED
      BY <2>1, PassiveServiceInv DEF Labels
  <1>3. ASSUME NEW r \in Requests, AnswerAccepted(r) PROVE ServiceInv'
    <2>1. /\ pc[r] = "accepting"
          /\ UNCHANGED <<status, current, queue, worker, task, submit, step>>
          /\ pc' = [pc EXCEPT ![r] = "done"]
      BY <1>3 DEF AnswerAccepted, At, Answer, storeVars, poolVars, taskVars
    <2>2. QED
      BY <2>1, PassiveServiceInv DEF Labels
  <1>4. ASSUME NEW r \in Requests, Handler(r) PROVE ServiceInv'
    BY <1>2, <1>3, <1>4, CheckRunningServiceInv, TryStartServiceInv, SubmitCheckServiceInv,
       SubmitSendServiceInv, SubmitFailedServiceInv DEF Handler
  <1>5. ASSUME NEW w \in Workers, CheckContext(w) \/ Command(w) PROVE ServiceInv'
    <2>1. /\ worker[w] = "busy" /\ step[task[w]] # "marked"
          /\ \E label \in Steps : step' = [step EXCEPT ![task[w]] = label]
          /\ UNCHANGED <<status, current, queue, worker, task, submit, pc>>
      BY <1>5 DEF CheckContext, Command, CommandEnds, CommandPanics, Executing, Steps,
                  storeVars, poolVars, handlerVars
    <2>2. QED
      BY <2>1, TaskStepServiceInv
  <1>6. ASSUME NEW w \in Workers, MarkComplete(w) \/ MarkFailed(w) PROVE ServiceInv'
    <2>1. /\ worker[w] = "busy" /\ step[task[w]] # "marked"
          /\ \E outcome \in {"completed", "failed"} : Store!FinishCurrentJob(outcome)
          /\ step' = [step EXCEPT ![task[w]] = "marked"]
          /\ UNCHANGED <<queue, worker, task, submit, pc>>
      BY <1>6 DEF MarkComplete, MarkFailed, Executing, Store!CompleteCurrentJob,
                  Store!FailCurrentJob, poolVars, handlerVars
    <2>2. QED
      BY <2>1, MarkServiceInv
  <1>7. ASSUME NEW w \in Workers, WorkerStep(w) PROVE ServiceInv'
    BY <1>5, <1>6, <1>7, TakeTaskServiceInv, ReleaseServiceInv DEF WorkerStep
  <1>8. CASE Signal \/ StopPool \/ Exit \/ Cleanup \/ Tick \/ Terminated \/ UNCHANGED vars
    <2>1. Frame
      BY <1>8 DEF Frame, Signal, StopPool, Exit, Cleanup, Tick, Terminated, vars,
                  storeVars, poolVars, handlerVars, taskVars,
                  Store!CleanupOldJobs, Store!Tick, Pool!ShutdownMark,
                  Pool!ShutdownClose, Pool!ShutdownDrained, Pool!ShutdownTimeout
    <2>2. QED
      BY <2>1, FrameServiceInv
  <1>9. QED
    BY <1>1, <1>4, <1>5, <1>7, <1>8 DEF Next

\* Every call of CompleteCurrentJob and FailCurrentJob finds the caller's own
\* running job in the slot.
THEOREM OwnJobTheorem == SafeSpec => []OwnJob
  <1>1. ServiceInv => OwnJob
    BY DEF ServiceInv
  <1>2. QED
    BY InitServiceInv, NextServiceInv, <1>1, PTL DEF SafeSpec

\* A job has at most one owner at any time: it is handed from its handler to
\* the channel and from the channel to one worker.
THEOREM OneOwnerTheorem == SafeSpec => []OneOwner
  <1>1. ServiceInv => OneOwner
    BY DEF ServiceInv
  <1>2. QED
    BY InitServiceInv, NextServiceInv, <1>1, PTL DEF SafeSpec

\* System commands never overlap, with any number of workers and requests: two
\* workers that process own the job in the slot, and a job has one owner.
THEOREM SequentialExecutionTheorem == SafeSpec => []SequentialExecution
  <1>1. ServiceInv => SequentialExecution
    <2> SUFFICES ASSUME ServiceInv, NEW v \in Workers, NEW w \in Workers,
                        Executing(v, "processing"), Executing(w, "processing")
                 PROVE  v = w
      BY DEF SequentialExecution
    <2>1. task[v] \in Requests /\ task[w] \in Requests
      BY DEF ServiceInv, Types, InPool, Executing
    <2>2. Owned(task[v]) /\ Owned(task[w])
      BY <2>1 DEF Owned, WorkerOwns, Executing
    <2>3. task[v] = task[w]
      BY <2>1, <2>2 DEF ServiceInv, OwnJob
    <2>4. QED
      BY <2>1, <2>3, ServiceAssumption DEF ServiceInv, OneOwner
  <1>2. QED
    BY InitServiceInv, NextServiceInv, <1>1, PTL DEF SafeSpec

-----------------------------------------------------------------------------
(* NoOrphan, on top of ServiceInv: every step that takes a running job from *)
(* its owner hands it to another one or finishes it, except the panic.      *)

\* An answer is the last thing a handler does.
Replies ==
    /\ reply \in [Requests -> Codes]
    /\ \A r \in Requests : reply[r] # "none" => pc[r] = "done"

OrphanInv == Replies /\ NoOrphan

\* The service starts with no job and no answer.
LEMMA InitOrphanInv == Init => OrphanInv
  BY DEF Init, OrphanInv, Replies, NoOrphan, Codes, Store!Init

\* A step that hands over or finishes no job: nobody who owned one loses it.
LEMMA KeepOrphanInv ==
    ASSUME OrphanInv, Replies',
           \A r \in Requests : status'[r] = "running" => status[r] = "running",
           \A r \in Requests : status'[r] = "running" /\ Owned(r) => Owned(r)',
           \A r \in Requests : reply[r] = "aborted" => reply'[r] = "aborted"
    PROVE  OrphanInv'
  BY DEF OrphanInv, NoOrphan

\* Every step of a handler.
LEMMA HandlerOrphanInv ==
    ASSUME ServiceInv, OrphanInv, NEW r \in Requests, Receive(r) \/ Handler(r)
    PROVE  OrphanInv'
  <1> USE DEF At, ServiceInv
  <1>1. ASSUME NEW label \in Labels, NEW code \in Codes,
               pc[r] # "done", ~HandlerOwns(r), 
               pc' = [pc EXCEPT ![r] = label],
               \/ reply' = reply
               \/ label = "done" /\ reply' = [reply EXCEPT ![r] = code],
               \A q \in Requests : status'[q] = "running" => status[q] = "running",
               UNCHANGED <<queue, worker, task, step>>
        PROVE  OrphanInv'
    <2>1. Replies'
      BY <1>1 DEF Types, OrphanInv, Replies
    <2>2. \A q \in Requests : Owned(q) => Owned(q)'
      BY <1>1 DEF Types, Owned, HandlerOwns, Queued, WorkerOwns
    <2>3. \A q \in Requests : reply[q] = "aborted" => reply'[q] = "aborted"
      BY <1>1 DEF OrphanInv, Replies
    <2>4. QED
      BY <1>1, <2>1, <2>2, <2>3, KeepOrphanInv
  <1>2. CASE Receive(r)
    <2>1. PICK label \in Labels, code \in Codes :
             /\ pc' = [pc EXCEPT ![r] = label]
             /\ reply' = reply \/ (label = "done" /\ reply' = [reply EXCEPT ![r] = code])
      BY <1>2 DEF Receive, Goto, Answer, Labels, Codes
    <2>2. QED
      BY <1>1, <1>2, <2>1 DEF Receive, HandlerOwns, storeVars, poolVars, taskVars
  <1>3. CASE ReadCurrent(r) \/ AnswerAccepted(r)
    BY <1>1, <1>3 DEF ReadCurrent, AnswerAccepted, Goto, Answer, HandlerOwns, Labels, Codes,
                      storeVars, poolVars, taskVars
  <1>4. CASE CheckRunning(r)
    <2>1. \A q \in Requests : status'[q] = "running" => status[q] = "running"
      BY <1>4 DEF CheckRunning, Store!NewJob, storeVars, Types
    <2>2. QED
      BY <1>1, <1>4, <2>1 DEF CheckRunning, Goto, Answer, HandlerOwns, Labels, Codes,
                              poolVars, taskVars
  <1>5. CASE TryStart(r)
    <2>1. CASE Store!RefuseJob(r) /\ Answer(r, "409")
      BY <1>1, <1>5, <2>1 DEF TryStart, Answer, HandlerOwns, Labels, Codes,
         Store!RefuseJob, Store!vars, poolVars, taskVars
    <2>2. CASE Store!StartJob(r) /\ Goto(r, "submitting")
      <3>1. /\ pc[r] = "starting" /\ pc' = [pc EXCEPT ![r] = "submitting"]
            /\ status' = [status EXCEPT ![r] = "running"]
            /\ UNCHANGED <<reply, queue, worker, task, step>>
        BY <1>5, <2>2 DEF TryStart, Goto, Store!StartJob, poolVars, taskVars
      <3>2. Replies'
        BY <3>1 DEF Types, OrphanInv, Replies
      <3>3. NoOrphan'
        BY <3>1 DEF Types, OrphanInv, NoOrphan, Owned, HandlerOwns, Queued, WorkerOwns
      <3>4. QED
        BY <3>2, <3>3 DEF OrphanInv
    <2>3. QED
      BY <1>5, <2>1, <2>2 DEF TryStart
  <1>6. CASE SubmitCheck(r)
    <2>1. /\ pc[r] = "submitting"
          /\ \E label \in {"failing", "sending"} : pc' = [pc EXCEPT ![r] = label]
          /\ UNCHANGED <<status, reply, queue, worker, task, step>>
      BY <1>6 DEF SubmitCheck, Goto, Pool!SubmitCheck, Pool!CheckOpen, storeVars, taskVars
    <2>2. Replies'
      BY <2>1 DEF Types, OrphanInv, Replies
    <2>3. NoOrphan'
      BY <2>1 DEF Types, OrphanInv, NoOrphan, Owned, HandlerOwns, Queued, WorkerOwns
    <2>4. QED
      BY <2>2, <2>3 DEF OrphanInv
  <1>7. CASE SubmitSend(r)
    <2>1. /\ pc[r] = "sending"
          /\ UNCHANGED <<status, worker, task, step>>
          /\ \/ /\ queue' = Append(queue, r) /\ pc' = [pc EXCEPT ![r] = "accepting"]
                /\ reply' = reply
             \/ /\ queue' = queue /\ pc' = [pc EXCEPT ![r] = "failing"]
                /\ reply' = reply
             \/ /\ queue' = queue /\ pc' = [pc EXCEPT ![r] = "done"]
                /\ reply' = [reply EXCEPT ![r] = "aborted"]
      BY <1>7 DEF SubmitSend, Goto, Answer, Pool!SubmitSend, Pool!Send, Pool!GiveUp,
                  storeVars, taskVars, Types
    <2>2. \A q : Queued(q) => Queued(q)'
      <3>1. \A q : Holds(Append(queue, r), q) <=> (q = r \/ Holds(queue, q))
        BY AppendHolds DEF Types
      <3>2. queue' = queue \/ queue' = Append(queue, r)
        BY <2>1
      <3>3. QED
        BY <3>1, <3>2 DEF Holds, Queued
    <2>3. queue' = Append(queue, r) => Queued(r)'
      BY AppendHolds DEF Types, Holds, Queued
    <2>4. Replies'
      BY <2>1 DEF Types, OrphanInv, Replies, Codes
    <2> HIDE DEF Queued
    <2>5. NoOrphan'
      BY <2>1, <2>2, <2>3
      DEF Types, OrphanInv, Replies, NoOrphan, Owned, HandlerOwns, WorkerOwns
    <2>6. QED
      BY <2>4, <2>5 DEF OrphanInv
  <1>8. CASE SubmitFailed(r)
    <2>1. current = r
      BY <1>8 DEF SubmitFailed, OwnJob, Owned, HandlerOwns
    <2>2. /\ pc[r] = "failing" /\ pc' = [pc EXCEPT ![r] = "done"]
          /\ status' = [status EXCEPT ![r] = "failed"]
          /\ reply' = [reply EXCEPT ![r] = "503"]
          /\ UNCHANGED <<queue, worker, task, step>>
      BY <1>8, <2>1, ServiceAssumption
      DEF SubmitFailed, Answer, Store!FailCurrentJob, Store!FinishCurrentJob,
          poolVars, taskVars
    <2>3. Replies'
      BY <2>2 DEF Types, OrphanInv, Replies, Codes
    <2>4. NoOrphan'
      BY <2>2 DEF Types, OrphanInv, NoOrphan, Owned, HandlerOwns, Queued, WorkerOwns
    <2>5. QED
      BY <2>3, <2>4 DEF OrphanInv
  <1>9. QED
    BY <1>2, <1>3, <1>4, <1>5, <1>6, <1>7, <1>8 DEF Handler

\* Every step of a worker.
LEMMA WorkerOrphanInv ==
    ASSUME ServiceInv, OrphanInv, NEW w \in Workers, WorkerStep(w) \/ Command(w)
    PROVE  OrphanInv'
  <1> USE DEF ServiceInv
  <1>1. UNCHANGED <<pc, reply>>
    BY DEF WorkerStep, Command, TakeTask, CheckContext, MarkComplete, MarkFailed,
           TaskReturns, WorkerLeaves, CommandEnds, CommandPanics, handlerVars
  <1>2. Replies'
    BY <1>1 DEF OrphanInv, Replies
  <1>3. CASE TakeTask(w)
    <2>1. /\ queue # <<>> /\ queue' = Tail(queue)
          /\ worker[w] = "idle"
          /\ task' = [task EXCEPT ![w] = Head(queue)]
          /\ worker' = [worker EXCEPT ![w] = "busy"]
          /\ step' = [step EXCEPT ![Head(queue)] = "begun"]
          /\ UNCHANGED status
      BY <1>3 DEF TakeTask, Pool!WorkerTake, storeVars
    <2>2. /\ Head(queue) \in Requests
          /\ \A q : Queued(q) => q = Head(queue) \/ Queued(q)'
      <3>1. queue \in Seq(Requests) /\ Distinct(queue)
        BY DEF Types, OneOwner, Distinct
      <3>2. /\ Head(queue) \in Requests
            /\ \A q : Holds(Tail(queue), q) <=> (q # Head(queue) /\ Holds(queue, q))
        BY <2>1, <3>1, TailHolds
      <3>3. QED
        BY <2>1, <3>2 DEF Holds, Queued
    <2> HIDE DEF Queued
    <2>3. \A q \in Requests : Owned(q) => Owned(q)'
      BY <1>1, <2>1, <2>2 DEF Types, Owned, HandlerOwns, WorkerOwns
    <2>4. QED
      BY <1>1, <1>2, <2>1, <2>3, KeepOrphanInv
  <1>4. CASE CheckContext(w) \/ Command(w)
    <2>1. /\ worker[w] = "busy"
          /\ \E label \in Steps \ {"marked"} : step' = [step EXCEPT ![task[w]] = label]
          /\ UNCHANGED <<status, queue, worker, task>>
      BY <1>4 DEF CheckContext, Command, CommandEnds, CommandPanics, Executing, Steps,
                  storeVars, poolVars
    <2>2. \A q \in Requests : Owned(q) => Owned(q)'
      BY <1>1, <2>1 DEF Types, Owned, HandlerOwns, Queued, WorkerOwns
    <2>3. QED
      BY <1>1, <1>2, <2>1, <2>2, KeepOrphanInv
  <1>5. CASE MarkComplete(w) \/ MarkFailed(w)
    <2>1. /\ worker[w] = "busy" /\ step[task[w]] # "marked"
          /\ \E outcome \in {"completed", "failed"} : Store!FinishCurrentJob(outcome)
          /\ step' = [step EXCEPT ![task[w]] = "marked"]
          /\ UNCHANGED <<queue, worker, task>>
      BY <1>5 DEF MarkComplete, MarkFailed, Executing, Store!CompleteCurrentJob,
                  Store!FailCurrentJob, poolVars
    <2>2. task[w] \in Requests
      BY <2>1 DEF Types, InPool
    <2>3. current = task[w]
      BY <2>1, <2>2 DEF OwnJob, Owned, WorkerOwns
    <2>4. \E outcome \in {"completed", "failed"} :
             status' = [status EXCEPT ![task[w]] = outcome]
      BY <2>1, <2>2, <2>3, ServiceAssumption DEF Store!FinishCurrentJob
    <2>5. \A q \in Requests : status'[q] = "running" => q # task[w] /\ status[q] = "running"
      BY <2>2, <2>4 DEF Types
    <2>6. \A q \in Requests : q # task[w] /\ Owned(q) => Owned(q)'
      BY <1>1, <2>1, <2>2 DEF Types, Owned, HandlerOwns, Queued, WorkerOwns
    <2>7. QED
      BY <1>1, <1>2, <2>5, <2>6, KeepOrphanInv
  <1>6. CASE TaskReturns(w) \/ WorkerLeaves(w)
    <2>1. \/ /\ worker[w] = "busy" /\ step[task[w]] = "marked"
             /\ worker' = [worker EXCEPT ![w] = "idle"]
             /\ task' = [task EXCEPT ![w] = None]
          \/ /\ worker[w] = "idle"
             /\ worker' = [worker EXCEPT ![w] = "exited"]
             /\ task' = task
      BY <1>6 DEF TaskReturns, WorkerLeaves, Executing, Pool!TaskReturn, Pool!TaskEnd,
                  Pool!WorkerExit
    <2>2. UNCHANGED <<status, queue, step>>
      BY <1>6 DEF TaskReturns, WorkerLeaves, Pool!TaskReturn, Pool!TaskEnd,
                  Pool!WorkerExit, storeVars, taskVars
    <2>3. \A q \in Requests : Owned(q) => Owned(q)'
      BY <1>1, <2>1, <2>2 DEF Types, Owned, HandlerOwns, Queued, WorkerOwns
    <2>4. QED
      BY <1>1, <1>2, <2>2, <2>3, KeepOrphanInv
  <1>7. QED
    BY <1>3, <1>4, <1>5, <1>6 DEF WorkerStep

\* Every step keeps running jobs owned.
LEMMA NextOrphanInv == ServiceInv /\ OrphanInv /\ [Next]_vars => OrphanInv'
  <1> SUFFICES ASSUME ServiceInv, OrphanInv, [Next]_vars PROVE OrphanInv'
    OBVIOUS
  <1>1. CASE Signal \/ StopPool \/ Exit \/ Cleanup \/ Tick \/ Terminated \/ UNCHANGED vars
    <2>1. UNCHANGED <<status, queue, worker, task, step, pc, reply>>
      BY <1>1 DEF Signal, StopPool, Exit, Cleanup, Tick, Terminated, vars,
                  storeVars, poolVars, handlerVars, taskVars,
                  Store!CleanupOldJobs, Store!Tick, Pool!ShutdownMark,
                  Pool!ShutdownClose, Pool!ShutdownDrained, Pool!ShutdownTimeout
    <2>2. QED
      BY <2>1 DEF OrphanInv, Replies, NoOrphan, Owned, HandlerOwns, Queued, WorkerOwns
  <1>2. QED
    BY <1>1, HandlerOrphanInv, WorkerOrphanInv DEF Next

\* No running job is orphaned, with any number of requests and workers: if
\* nobody is left to finish it, its submission panicked.
THEOREM NoOrphanTheorem == SafeSpec => []NoOrphan
  <1>1. OrphanInv => NoOrphan
    BY DEF OrphanInv
  <1>2. QED
    BY InitServiceInv, NextServiceInv, InitOrphanInv, NextOrphanInv, <1>1, PTL DEF SafeSpec

-----------------------------------------------------------------------------
(* Both components keep their invariants inside the service.               *)

\* Whatever the service does is a step of the store or nothing.
LEMMA StoreStep == ServiceInv /\ [Next]_vars => [SP!Next]_(SP!vars)
  <1> SUFFICES ASSUME ServiceInv, [Next]_vars PROVE [SP!Next]_(SP!vars)
    OBVIOUS
  <1> USE DEF SP!vars, storeVars
  <1>1. ASSUME NEW r \in Requests,
               Receive(r) \/ ReadCurrent(r) \/ SubmitCheck(r) \/ SubmitSend(r) \/ AnswerAccepted(r)
        PROVE  UNCHANGED SP!vars
    BY <1>1 DEF Receive, ReadCurrent, SubmitCheck, SubmitSend, AnswerAccepted
  <1>2. ASSUME NEW r \in Requests, CheckRunning(r) PROVE [SP!Next]_(SP!vars)
    <2>1. UNCHANGED storeVars \/ Store!NewJob(r)
      BY <1>2 DEF CheckRunning
    <2>2. Store!NewJob(r) => SP!NewJob(r)
      BY DEF Store!NewJob, SP!NewJob
    <2>3. QED
      BY <2>1, <2>2 DEF SP!Next
  <1>3. ASSUME NEW r \in Requests, TryStart(r) PROVE [SP!Next]_(SP!vars)
    <2>1. status[r] = "pending" /\ (Store!StartJob(r) \/ Store!RefuseJob(r))
      BY <1>3 DEF TryStart, At, ServiceInv, Stages
    <2>2. Store!StartJob(r) => SP!TryStartJob(r)
      BY DEF Store!StartJob, SP!StartJob, SP!TryStartJob, Store!SlotFree, SP!SlotFree,
             Store!IsRunning, SP!IsRunning
    <2>3. Store!RefuseJob(r) => UNCHANGED SP!vars
      BY DEF Store!RefuseJob, Store!vars
    <2>4. QED
      BY <2>1, <2>2, <2>3 DEF SP!Next
  <1>4. Store!CompleteCurrentJob \/ Store!FailCurrentJob => SP!Next
    <2>1. ASSUME NEW o PROVE Store!FinishCurrentJob(o) = SP!FinishCurrentJob(o)
      BY DEF Store!FinishCurrentJob, SP!FinishCurrentJob, Store!vars,
             Store!AddToHistory, SP!AddToHistory
    <2>2. QED
      BY <2>1 DEF SP!Next, Store!CompleteCurrentJob, SP!CompleteCurrentJob,
             Store!FailCurrentJob, SP!FailCurrentJob
  <1>5. ASSUME NEW r \in Requests, SubmitFailed(r) PROVE SP!Next
    BY <1>4, <1>5 DEF SubmitFailed
  <1>6. ASSUME NEW w \in Workers, WorkerStep(w) \/ Command(w) PROVE [SP!Next]_(SP!vars)
    BY <1>4, <1>6 DEF WorkerStep, Command, TakeTask, CheckContext, MarkComplete, MarkFailed,
       TaskReturns, WorkerLeaves, CommandEnds, CommandPanics
  <1>7. CASE Cleanup
    BY <1>7 DEF Cleanup, Store!CleanupOldJobs, SP!CleanupOldJobs, Store!Fresh, SP!Fresh,
       Store!Keep, SP!Keep, SP!Next
  <1>8. CASE Tick
    BY <1>8 DEF Tick, Store!Tick, SP!Tick, SP!Next
  <1>9. CASE Signal \/ StopPool \/ Exit \/ Terminated \/ UNCHANGED vars
    BY <1>9 DEF Signal, StopPool, Exit, Terminated, vars
  <1>10. QED
    BY <1>1, <1>2, <1>3, <1>5, <1>6, <1>7, <1>8, <1>9 DEF Next, Handler

\* Whatever the service does is a step of the pool or nothing.
LEMMA PoolStep == [Next]_vars => [PP!Next]_(PP!poolVars)
  <1> SUFFICES ASSUME [Next]_vars PROVE [PP!Next]_(PP!poolVars)
    OBVIOUS
  <1> USE DEF PP!poolVars, poolVars
  <1>1. ASSUME NEW r \in Requests,
               \/ Receive(r) \/ ReadCurrent(r) \/ CheckRunning(r) \/ TryStart(r)
               \/ SubmitFailed(r) \/ AnswerAccepted(r)
        PROVE  UNCHANGED PP!poolVars
    BY <1>1 DEF Receive, ReadCurrent, CheckRunning, TryStart, SubmitFailed, AnswerAccepted
  <1>2. ASSUME NEW r \in Requests, SubmitCheck(r) PROVE PP!Next
    BY <1>2 DEF SubmitCheck, Pool!SubmitCheck, PP!SubmitCheck, Pool!CheckOpen, PP!CheckOpen,
       PP!Submission, PP!Next
  <1>3. ASSUME NEW r \in Requests, SubmitSend(r) PROVE PP!Next
    BY <1>3 DEF SubmitSend, Pool!SubmitSend, PP!SubmitSend, Pool!Send, PP!Send,
       Pool!GiveUp, PP!GiveUp, PP!Submission, PP!Next
  <1>4. ASSUME NEW w \in Workers, WorkerStep(w) \/ Command(w) PROVE [PP!Next]_(PP!poolVars)
    <2>1. CASE Pool!WorkerTake(w) \/ Pool!TaskReturn(w) \/ Pool!WorkerExit(w)
      BY <2>1 DEF Pool!WorkerTake, PP!WorkerTake, Pool!TaskReturn, PP!TaskReturn, Pool!TaskEnd,
         PP!TaskEnd, Pool!WorkerExit, PP!WorkerExit, PP!WorkerStep, PP!Next
    <2>2. QED
      BY <1>4, <2>1 DEF WorkerStep, Command, TakeTask, CheckContext, MarkComplete, MarkFailed,
         TaskReturns, WorkerLeaves, CommandEnds, CommandPanics
  <1>5. CASE StopPool
    BY <1>5 DEF StopPool, Pool!ShutdownMark, PP!ShutdownMark, Pool!ShutdownClose,
       PP!ShutdownClose, Pool!ShutdownDrained, PP!ShutdownDrained, Pool!ShutdownTimeout,
       PP!ShutdownTimeout, PP!Shutdown, PP!Next
  <1>6. CASE Signal \/ Exit \/ Cleanup \/ Tick \/ Terminated \/ UNCHANGED vars
    BY <1>6 DEF Signal, Exit, Cleanup, Tick, Terminated, vars
  <1>7. QED
    BY <1>1, <1>2, <1>3, <1>4, <1>5, <1>6 DEF Next, Handler

PartsInv == SP!StoreInv /\ PP!OrderInv

\* Store and pool keep the invariants proved for them alone.
LEMMA NextPartsInv == ServiceInv /\ PartsInv /\ [Next]_vars => PartsInv'
  <1> SUFFICES ASSUME ServiceInv, PartsInv, [Next]_vars PROVE PartsInv'
    OBVIOUS
  <1>0. PP!IsFiniteSet(Workers)
    BY ServiceAssumption DEF PP!IsFiniteSet, IsFiniteSet
  <1>1. SP!StoreInv'
    BY StoreStep, SP!NextStoreInv, ServiceAssumption DEF PartsInv
  <1>2. PP!OrderInv'
    BY <1>0, PoolStep, PP!NextOrderInv, ServiceAssumption DEF PartsInv
  <1>3. QED
    BY <1>1, <1>2 DEF PartsInv

\* Both start in their initial states.
LEMMA InitPartsInv == Init => PartsInv
  <1> SUFFICES ASSUME Init PROVE PartsInv
    OBVIOUS
  <1>1. SP!Init /\ PP!Init
    BY DEF Init, Store!Init, SP!Init, Store!NoTime, SP!NoTime, Pool!Init, PP!Init
  <1>2. PP!IsFiniteSet(Workers)
    BY ServiceAssumption DEF PP!IsFiniteSet, IsFiniteSet
  <1>3. QED
    BY <1>1, <1>2, SP!InitStoreInv, PP!InitOrderInv, ServiceAssumption DEF PartsInv

-----------------------------------------------------------------------------
(* The answers.                                                            *)

Begun == {"running", "completed", "failed"}

\* What the answer of r rests on: the result of its submission, which never
\* changes again, and a job that never runs or never runs again.
AnswerOK(r) ==
    /\ pc[r] = "accepting" \/ reply[r] = "202" => submit[r] = "accepted"
    /\ reply[r] = "409" => /\ status[r] \in {"absent", "pending"}
                           /\ \E q \in Requests \ {r} : status[q] \in Begun
    /\ submit[r] = "rejected" => shutdown
    /\ pc[r] = "failing" => submit[r] = "rejected"
    /\ reply[r] = "503" => submit[r] = "rejected" /\ status[r] = "failed"
    /\ reply[r] \in Verdicts => status[r] = "absent"

AnswerInv ==
    /\ seen \in [Requests -> Requests \cup {None}]
    /\ \A r \in Requests : AnswerOK(r)

\* The step of another goroutine: it may only finish r's job.
LEMMA OthersAnswer ==
    ASSUME NEW r \in Requests, AnswerOK(r),
           pc'[r] = pc[r], reply'[r] = reply[r], submit'[r] = submit[r],
           shutdown => shutdown',
           status[r] # "running" => status'[r] = status[r],
           \A q \in Requests : status[q] \in Begun => status'[q] \in Begun
    PROVE  AnswerOK(r)'
  BY DEF AnswerOK

\* The verdicts of the validation are no answer of the handler's second half.
LEMMA VerdictCodes == Verdicts \subseteq {"pass", "429", "405", "400", "401"}
  BY DEF Verdicts, Validate

\* A step that finishes the job in the slot, or changes no status.
LEMMA FinishAnswer ==
    ASSUME ServiceInv, PartsInv,
           \/ UNCHANGED storeVars
           \/ \E o \in {"completed", "failed"} : Store!FinishCurrentJob(o)
    PROVE  /\ \A q \in Requests : status[q] # "running" => status'[q] = status[q]
           /\ \A q \in Requests : status[q] \in Begun => status'[q] \in Begun
  <1>1. CASE UNCHANGED storeVars
    BY <1>1 DEF storeVars
  <1>2. CASE \E o \in {"completed", "failed"} : Store!FinishCurrentJob(o)
    <2>1. /\ status \in [Requests -> Store!JobStatus]
          /\ current \in Requests \cup {None} /\ (current # None => status[current] = "running")
      BY DEF ServiceInv, Types, PartsInv, SP!StoreInv, SP!SlotInv, SP!OneRunning, SP!IsRunning
    <2>2. \/ status' = status
          \/ \E o \in {"completed", "failed"} :
                current # None /\ status' = [status EXCEPT ![current] = o]
      BY <1>2 DEF Store!FinishCurrentJob, Store!vars
    <2>3. QED
      BY <2>1, <2>2 DEF Begun
  <1>3. QED
    BY <1>1, <1>2

\* The backlog is never full: who sends owns the job in the slot, and so does
\* whoever is in the channel.
LEMMA NeverFull ==
    ASSUME ServiceInv, NEW r \in Requests, SubmitSend(r)
    PROVE  queue = <<>> /\ Len(queue) < MaxBacklog
  <1>1. HandlerOwns(r) /\ current = r /\ queue \in Seq(Requests)
    BY DEF SubmitSend, At, HandlerOwns, ServiceInv, OwnJob, Owned, Types
  <1>2. queue # <<>> => 1 \in DOMAIN queue /\ queue[1] \in Requests
    BY <1>1
  <1>3. queue # <<>> => Queued(queue[1])
    BY <1>2 DEF Queued
  <1>4. queue # <<>> => queue[1] = r
    BY <1>1, <1>2, <1>3 DEF ServiceInv, OwnJob, Owned
  <1>5. queue = <<>>
    BY <1>1, <1>3, <1>4 DEF ServiceInv, OneOwner
  <1>6. QED
    BY <1>5, ServiceAssumption

\* Every step of a handler keeps its own answer true, and the others'.
LEMMA HandlerAnswerInv ==
    ASSUME ServiceInv, Replies, PartsInv, AnswerInv, NEW r \in Requests, Receive(r) \/ Handler(r)
    PROVE  AnswerInv'
  <1> USE DEF At, Goto, Answer
  <1>1. /\ Types /\ Stages /\ pc \in [Requests -> Labels] /\ reply \in [Requests -> Codes]
        /\ submit \in [Requests -> Pool!SubmitState] /\ status \in [Requests -> Store!JobStatus]
        /\ seen \in [Requests -> Requests \cup {None}]
        /\ pc[r] # "done" => reply[r] = "none"
    BY DEF ServiceInv, Types, Replies, AnswerInv
  <1>2. AnswerOK(r) /\ (\A q \in Requests : AnswerOK(q)) /\ "none" \notin Verdicts
    BY VerdictCodes DEF AnswerInv
  <1>3. ASSUME \A q \in Requests \ {r} : /\ pc'[q] = pc[q] /\ reply'[q] = reply[q]
                                         /\ submit'[q] = submit[q]
                                         /\ status[q] # "running" => status'[q] = status[q],
               \A q \in Requests : status[q] \in Begun => status'[q] \in Begun,
               shutdown' = shutdown, seen' \in [Requests -> Requests \cup {None}],
               AnswerOK(r)'
        PROVE  AnswerInv'
    <2>1. \A q \in Requests \ {r} : AnswerOK(q)'
      BY <1>2, <1>3, OthersAnswer
    <2>2. QED
      BY <1>3, <2>1 DEF AnswerInv
  <1>4. CASE Receive(r)
    <2>1. /\ pc[r] = "absent" /\ status[r] = "absent" /\ submit[r] = "new"
          /\ UNCHANGED <<status, submit, shutdown, seen>>
      BY <1>1, <1>4 DEF Receive, storeVars, poolVars, Stages
    <2>2. \/ pc' = [pc EXCEPT ![r] = "admitting"] /\ reply' = reply
          \/ \E v \in Verdicts : pc' = [pc EXCEPT ![r] = "done"] /\ reply' = [reply EXCEPT ![r] = v]
      BY <1>4 DEF Receive
    <2>3. AnswerOK(r)'
      BY <1>1, <1>2, <2>1, <2>2, VerdictCodes DEF AnswerOK
    <2>4. QED
      BY <1>1, <1>3, <2>1, <2>2, <2>3
  <1>5. CASE ReadCurrent(r)
    <2>1. /\ pc[r] = "admitting" /\ pc' = [pc EXCEPT ![r] = "checking"]
          /\ seen' = [seen EXCEPT ![r] = current]
          /\ UNCHANGED <<status, submit, shutdown, reply>>
      BY <1>5 DEF ReadCurrent, storeVars, poolVars
    <2>2. AnswerOK(r)'
      BY <1>1, <1>2, <2>1 DEF AnswerOK
    <2>3. QED
      BY <1>1, <1>3, <2>1, <2>2 DEF Types
  <1>6. CASE CheckRunning(r)
    <2>1. /\ pc[r] = "checking" /\ status[r] = "absent" /\ submit[r] = "new"
          /\ UNCHANGED <<submit, shutdown, seen>>
      BY <1>1, <1>6 DEF CheckRunning, poolVars, Stages
    <2>2. CASE /\ seen[r] # None /\ Store!IsRunning(seen[r])
               /\ Answer(r, "409") /\ UNCHANGED storeVars
      <3>1. /\ pc' = [pc EXCEPT ![r] = "done"] /\ reply' = [reply EXCEPT ![r] = "409"]
            /\ status' = status
            /\ seen[r] \in Requests \ {r} /\ status[seen[r]] = "running"
        BY <1>1, <2>1, <2>2 DEF storeVars, Store!IsRunning
      <3>2. AnswerOK(r)'
        BY <1>1, <1>2, <2>1, <3>1, VerdictCodes DEF AnswerOK, Begun
      <3>3. QED
        BY <1>1, <1>3, <2>1, <3>1, <3>2
    <2>3. CASE Goto(r, "starting") /\ Store!NewJob(r)
      <3>1. /\ pc' = [pc EXCEPT ![r] = "starting"] /\ reply' = reply
            /\ status' = [status EXCEPT ![r] = "pending"]
        BY <2>3 DEF Store!NewJob
      <3>2. AnswerOK(r)'
        BY <1>1, <1>2, <2>1, <3>1 DEF AnswerOK
      <3>3. QED
        BY <1>1, <1>3, <2>1, <3>1, <3>2 DEF Begun
    <2>4. QED
      BY <1>6, <2>2, <2>3 DEF CheckRunning
  <1>7. CASE TryStart(r)
    <2>1. /\ pc[r] = "starting" /\ status[r] = "pending" /\ submit[r] = "new"
          /\ UNCHANGED <<submit, shutdown, seen>>
      BY <1>1, <1>7 DEF TryStart, poolVars, Stages
    <2>2. CASE Store!RefuseJob(r) /\ Answer(r, "409")
      <3>1. /\ pc' = [pc EXCEPT ![r] = "done"] /\ reply' = [reply EXCEPT ![r] = "409"]
            /\ status' = status
            /\ current \in Requests \ {r} /\ status[current] = "running"
        BY <1>1, <2>1, <2>2 DEF Store!RefuseJob, Store!vars, Store!SlotFree, Store!IsRunning, Types
      <3>2. AnswerOK(r)'
        BY <1>1, <1>2, <2>1, <3>1, VerdictCodes DEF AnswerOK, Begun
      <3>3. QED
        BY <1>1, <1>3, <2>1, <3>1, <3>2
    <2>3. CASE Store!StartJob(r) /\ Goto(r, "submitting")
      <3>1. /\ pc' = [pc EXCEPT ![r] = "submitting"] /\ reply' = reply
            /\ status' = [status EXCEPT ![r] = "running"]
        BY <2>3 DEF Store!StartJob
      <3>2. AnswerOK(r)'
        BY <1>1, <1>2, <2>1, <3>1 DEF AnswerOK
      <3>3. QED
        BY <1>1, <1>3, <2>1, <3>1, <3>2 DEF Begun
    <2>4. QED
      BY <1>7, <2>2, <2>3 DEF TryStart
  <1>8. CASE SubmitCheck(r)
    <2>1. /\ pc[r] = "submitting" /\ submit[r] = "new"
          /\ submit' = [submit EXCEPT ![r] = IF shutdown THEN "rejected" ELSE "sending"]
          /\ UNCHANGED <<status, shutdown, seen, reply>>
          /\ pc' = [pc EXCEPT ![r] = IF submit'[r] = "rejected" THEN "failing" ELSE "sending"]
      BY <1>1, <1>8 DEF SubmitCheck, Pool!SubmitCheck, Pool!CheckOpen, storeVars, Stages
    <2>2. AnswerOK(r)'
      BY <1>1, <1>2, <2>1 DEF AnswerOK
    <2>3. QED
      BY <1>1, <1>3, <2>1, <2>2
  <1>9. CASE SubmitSend(r)
    <2>1. Len(queue) < MaxBacklog /\ queue = <<>>
      BY <1>9, NeverFull
    <2>2. ~(Len(queue) >= MaxBacklog)
      BY <2>1, ServiceAssumption
    <2>3. /\ pc[r] = "sending" /\ submit[r] = "sending"
          /\ UNCHANGED <<status, shutdown, seen>>
          /\ \/ /\ submit' = [submit EXCEPT ![r] = "accepted"]
                /\ pc' = [pc EXCEPT ![r] = "accepting"] /\ reply' = reply
             \/ /\ submit' = [submit EXCEPT ![r] = "panic"]
                /\ pc' = [pc EXCEPT ![r] = "done"] /\ reply' = [reply EXCEPT ![r] = "aborted"]
      BY <1>1, <1>9, <2>2
      DEF SubmitSend, Pool!SubmitSend, Pool!Send, Pool!GiveUp, storeVars, Stages
    <2>4. AnswerOK(r)'
      BY <1>1, <1>2, <2>3, VerdictCodes DEF AnswerOK
    <2>5. QED
      BY <1>1, <1>3, <2>3, <2>4
  <1>10. CASE SubmitFailed(r)
    <2>1. current = r
      BY <1>10 DEF SubmitFailed, ServiceInv, OwnJob, Owned, HandlerOwns
    <2>2. /\ pc[r] = "failing" /\ pc' = [pc EXCEPT ![r] = "done"]
          /\ status' = [status EXCEPT ![r] = "failed"]
          /\ reply' = [reply EXCEPT ![r] = "503"]
          /\ UNCHANGED <<submit, shutdown, seen>>
      BY <1>10, <2>1, ServiceAssumption
      DEF SubmitFailed, Store!FailCurrentJob, Store!FinishCurrentJob, poolVars
    <2>3. AnswerOK(r)'
      BY <1>1, <1>2, <2>2, VerdictCodes DEF AnswerOK
    <2>4. QED
      BY <1>1, <1>3, <2>2, <2>3 DEF Begun
  <1>11. CASE AnswerAccepted(r)
    <2>1. /\ pc[r] = "accepting" /\ pc' = [pc EXCEPT ![r] = "done"]
          /\ reply' = [reply EXCEPT ![r] = "202"]
          /\ UNCHANGED <<status, submit, shutdown, seen>>
      BY <1>11 DEF AnswerAccepted, storeVars, poolVars
    <2>2. AnswerOK(r)'
      BY <1>1, <1>2, <2>1, VerdictCodes DEF AnswerOK
    <2>3. QED
      BY <1>1, <1>3, <2>1, <2>2
  <1>12. QED
    BY <1>4, <1>5, <1>6, <1>7, <1>8, <1>9, <1>10, <1>11 DEF Handler

\* Workers, the shutdown, the cleanup and the clock touch no answer.
LEMMA NextAnswerInv ==
    ServiceInv /\ Replies /\ PartsInv /\ AnswerInv /\ [Next]_vars => AnswerInv'
  <1> SUFFICES ASSUME ServiceInv, Replies, PartsInv, AnswerInv, [Next]_vars PROVE AnswerInv'
    OBVIOUS
  <1>1. ASSUME UNCHANGED <<pc, reply, seen, submit>>, shutdown => shutdown',
               \/ UNCHANGED storeVars
               \/ UNCHANGED status
               \/ \E o \in {"completed", "failed"} : Store!FinishCurrentJob(o)
        PROVE  AnswerInv'
    <2>1. /\ \A q \in Requests : status[q] # "running" => status'[q] = status[q]
          /\ \A q \in Requests : status[q] \in Begun => status'[q] \in Begun
      BY <1>1, FinishAnswer DEF storeVars
    <2>2. \A r \in Requests : AnswerOK(r)'
      BY <1>1, <2>1, OthersAnswer DEF AnswerInv
    <2>3. QED
      BY <1>1, <2>2 DEF AnswerInv
  <1>2. ASSUME NEW w \in Workers, WorkerStep(w) \/ Command(w) PROVE AnswerInv'
    <2>1. UNCHANGED <<pc, reply, seen>>
      BY <1>2 DEF WorkerStep, Command, TakeTask, CheckContext, MarkComplete, MarkFailed,
         TaskReturns, WorkerLeaves, CommandEnds, CommandPanics, handlerVars
    <2>2. UNCHANGED <<submit, shutdown>>
      BY <1>2 DEF WorkerStep, Command, TakeTask, CheckContext, MarkComplete, MarkFailed,
         TaskReturns, WorkerLeaves, CommandEnds, CommandPanics, poolVars, Pool!WorkerTake,
         Pool!TaskReturn, Pool!TaskEnd, Pool!WorkerExit
    <2>3. \/ UNCHANGED storeVars
          \/ \E o \in {"completed", "failed"} : Store!FinishCurrentJob(o)
      BY <1>2 DEF WorkerStep, Command, TakeTask, CheckContext, MarkComplete, MarkFailed,
         TaskReturns, WorkerLeaves, CommandEnds, CommandPanics,
         Store!CompleteCurrentJob, Store!FailCurrentJob
    <2>4. QED
      BY <1>1, <2>1, <2>2, <2>3
  <1>3. CASE Signal \/ StopPool \/ Exit \/ Cleanup \/ Tick \/ Terminated \/ UNCHANGED vars
    <2>1. UNCHANGED <<pc, reply, seen, submit, status>> /\ (shutdown => shutdown')
      BY <1>3 DEF Signal, StopPool, Exit, Cleanup, Tick, Terminated, vars,
         storeVars, poolVars, handlerVars, Store!CleanupOldJobs, Store!Tick,
         Pool!ShutdownMark, Pool!ShutdownClose, Pool!ShutdownDrained, Pool!ShutdownTimeout
    <2>2. QED
      BY <1>1, <2>1
  <1>4. QED
    BY <1>2, <1>3, HandlerAnswerInv DEF Next

\* The remaining variables: how commands ended, and the life of the process.
RestTypes ==
    /\ result \in [Requests -> {"none", "ok", "error", "panic"}]
    /\ server \in {"serving", "stopping", "exited"}

\* Commands end in one of three ways; the process only goes forward.
LEMMA NextRestTypes == ServiceInv /\ RestTypes /\ [Next]_vars => RestTypes'
  <1> SUFFICES ASSUME ServiceInv, RestTypes, [Next]_vars PROVE RestTypes'
    OBVIOUS
  <1>1. ASSUME NEW r \in Requests, Receive(r) \/ Handler(r) PROVE UNCHANGED <<result, server>>
    BY <1>1 DEF Receive, Handler, ReadCurrent, CheckRunning, TryStart, SubmitCheck, SubmitSend,
       SubmitFailed, AnswerAccepted, taskVars
  <1>2. ASSUME NEW w \in Workers, WorkerStep(w) PROVE UNCHANGED <<result, server>>
    BY <1>2 DEF WorkerStep, TakeTask, CheckContext, MarkComplete, MarkFailed, TaskReturns,
       WorkerLeaves, taskVars
  <1>3. ASSUME NEW w \in Workers, Command(w) PROVE RestTypes'
    BY <1>3 DEF Command, CommandEnds, CommandPanics, RestTypes
  <1>4. CASE Signal \/ StopPool \/ Exit \/ Cleanup \/ Tick \/ Terminated \/ UNCHANGED vars
    BY <1>4 DEF Signal, StopPool, Exit, Cleanup, Tick, Terminated, vars, taskVars, RestTypes
  <1>5. QED
    BY <1>1, <1>2, <1>3, <1>4 DEF Next, RestTypes

\* All invariants of the service together.
WholeInv == ServiceInv /\ OrphanInv /\ PartsInv /\ AnswerInv /\ RestTypes

\* Together they are inductive.
LEMMA WholeInvariance == SafeSpec => []WholeInv
  <1>1. Init => WholeInv
    <2>1. Init => AnswerInv /\ RestTypes
      BY VerdictCodes DEF Init, AnswerInv, AnswerOK, RestTypes, Pool!Init, Store!Init
    <2>2. QED
      BY <2>1, InitServiceInv, InitOrphanInv, InitPartsInv DEF WholeInv
  <1>2. WholeInv /\ [Next]_vars => WholeInv'
    BY NextServiceInv, NextOrphanInv, NextPartsInv, NextAnswerInv, NextRestTypes
    DEF WholeInv, OrphanInv
  <1>3. QED
    BY <1>1, <1>2, PTL DEF SafeSpec

\* Every variable of the composition keeps its type, those of the store and of
\* the pool included.
THEOREM ServiceTypeTheorem == SafeSpec => []TypeOK
  <1>1. ASSUME WholeInv PROVE TypeOK
    <2>1. Store!TypeOK
      BY <1>1 DEF WholeInv, PartsInv, SP!StoreInv, SP!SlotInv, SP!HistoryInv, SP!StoreTypeOK,
         Store!TypeOK, Store!StoreTypeOK, SP!JobStatus, Store!JobStatus, SP!Finished,
         Store!Finished, SP!NoTime, Store!NoTime
    <2>2. Pool!TypeOK
      BY <1>1 DEF WholeInv, PartsInv, PP!OrderInv, PP!TypeOK, Pool!TypeOK, PP!SubmitState,
         Pool!SubmitState, PP!StopperState, Pool!StopperState
    <2>3. QED
      BY <1>1, <2>1, <2>2
      DEF WholeInv, ServiceInv, Types, OrphanInv, Replies, AnswerInv, RestTypes, TypeOK
  <1>2. QED
    BY WholeInvariance, <1>1, PTL

\* The answers tell the truth, with any number of requests and workers: 202
\* for a task that was accepted, 409 for a job that another one kept out, 503
\* only during the shutdown and for a job that is failed for good, a refusal of
\* the validation for a request that never had a job.
THEOREM AnswersTruthfulTheorem == SafeSpec => []AnswersTruthful
  <1>1. ASSUME WholeInv, NEW r \in Requests
        PROVE  /\ reply[r] = "202" => r \in ToSet(accepted)
               /\ reply[r] = "409" =>
                     /\ status[r] \in {"absent", "pending"}
                     /\ \E q \in Requests \ {r} :
                           status[q] \in {"running", "completed", "failed"}
               /\ reply[r] = "503" =>
                     shutdown /\ status[r] = "failed" /\ r \notin ToSet(accepted)
               /\ reply[r] \in Verdicts => status[r] = "absent"
    <2>1. r \in ToSet(accepted) <=> submit[r] = "accepted"
      <3>1. PP!Holds(accepted, r) <=> submit[r] = "accepted"
        BY <1>1 DEF WholeInv, PartsInv, PP!OrderInv, PP!AcceptedOnce
      <3>2. r \in ToSet(accepted) <=> PP!Holds(accepted, r)
        BY DEF ToSet, PP!Holds
      <3>3. QED
        BY <3>1, <3>2
    <2>2. AnswerOK(r)
      BY <1>1 DEF WholeInv, AnswerInv
    <2>3. QED
      BY <2>1, <2>2 DEF AnswerOK, Begun
  <1>2. WholeInv => AnswersTruthful
    BY <1>1 DEF AnswersTruthful
  <1>3. QED
    BY WholeInvariance, <1>2, PTL

-----------------------------------------------------------------------------
(* The service uses its parts as their specifications allow.               *)

\* The two instances of the store are one.
LEMMA SameStore == [SP!Next]_(SP!vars) => [Store!Next]_(Store!vars)
  <1> SUFFICES ASSUME [SP!Next]_(SP!vars) PROVE [Store!Next]_(Store!vars)
    OBVIOUS
  <1> USE DEF SP!vars, Store!vars, Store!Next
  <1>1. ASSUME NEW r \in Requests, SP!NewJob(r) \/ (status[r] = "pending" /\ SP!TryStartJob(r))
        PROVE  Store!NewJob(r) \/ (status[r] = "pending" /\ Store!TryStartJob(r))
    BY <1>1 DEF Store!NewJob, SP!NewJob, Store!TryStartJob, SP!TryStartJob, Store!StartJob,
       SP!StartJob, Store!RefuseJob, SP!RefuseJob, Store!SlotFree, SP!SlotFree,
       Store!IsRunning, SP!IsRunning
  <1>2. ASSUME NEW o PROVE Store!FinishCurrentJob(o) = SP!FinishCurrentJob(o)
    BY DEF Store!FinishCurrentJob, SP!FinishCurrentJob, Store!AddToHistory, SP!AddToHistory
  <1>3. CASE SP!CompleteCurrentJob \/ SP!FailCurrentJob
    BY <1>2, <1>3 DEF Store!CompleteCurrentJob, SP!CompleteCurrentJob,
       Store!FailCurrentJob, SP!FailCurrentJob
  <1>4. CASE SP!CleanupOldJobs \/ SP!Tick
    BY <1>4 DEF Store!CleanupOldJobs, SP!CleanupOldJobs, Store!Fresh, SP!Fresh, Store!Keep,
       SP!Keep, Store!Tick, SP!Tick
  <1>5. QED
    BY <1>1, <1>3, <1>4 DEF SP!Next

\* Handlers, workers, cleanup and shutdown together call the store as module
\* JobStore allows: TryStartJob only with a pending job, each method atomic.
\* So the theorems of JobStoreProofs hold of the store inside the service.
THEOREM StoreRefinement == SafeSpec => Store!Spec
  <1>1. Init => Store!Init
    BY DEF Init
  <1>2. ServiceInv /\ [Next]_vars => [Store!Next]_(Store!vars)
    BY StoreStep, SameStore
  <1>3. QED
    BY <1>1, <1>2, InitServiceInv, NextServiceInv, PTL DEF SafeSpec, Store!Spec

\* The two instances of the pool are one.
LEMMA SamePool == [PP!Next]_(PP!poolVars) => [Pool!Next]_(Pool!poolVars)
  <1> SUFFICES ASSUME [PP!Next]_(PP!poolVars) PROVE [Pool!Next]_(Pool!poolVars)
    OBVIOUS
  <1> USE DEF PP!poolVars, Pool!poolVars, Pool!Next
  <1>1. ASSUME NEW r \in Requests, PP!Submission(r) PROVE Pool!Submission(r)
    BY <1>1 DEF PP!Submission, Pool!Submission, PP!SubmitCheck, Pool!SubmitCheck,
       PP!SubmitWaitCheck, Pool!SubmitWaitCheck, PP!CheckOpen, Pool!CheckOpen,
       PP!SubmitSend, Pool!SubmitSend, PP!SubmitWaitSend, Pool!SubmitWaitSend,
       PP!Send, Pool!Send, PP!GiveUp, Pool!GiveUp
  <1>2. ASSUME NEW w \in Workers, PP!WorkerStep(w) PROVE Pool!WorkerStep(w)
    BY <1>2 DEF PP!WorkerStep, Pool!WorkerStep, PP!WorkerTake, Pool!WorkerTake,
       PP!WorkerExit, Pool!WorkerExit, PP!TaskReturn, Pool!TaskReturn, PP!TaskPanic,
       Pool!TaskPanic, PP!TaskEnd, Pool!TaskEnd
  <1>3. ASSUME NEW c \in {main}, PP!Shutdown(c) PROVE Pool!Shutdown(c)
    BY <1>3 DEF PP!Shutdown, Pool!Shutdown, PP!ShutdownMark, Pool!ShutdownMark,
       PP!ShutdownClose, Pool!ShutdownClose, PP!ShutdownDrained, Pool!ShutdownDrained,
       PP!ShutdownTimeout, Pool!ShutdownTimeout
  <1>4. PP!Terminated => UNCHANGED Pool!poolVars
    BY DEF PP!Terminated
  <1>5. QED
    BY <1>1, <1>2, <1>3, <1>4 DEF PP!Next

\* The same for the pool, which the handlers and main use as module WorkerPool
\* allows.
THEOREM PoolRefinement == SafeSpec => Pool!SafeSpec
  <1>1. Init => Pool!Init
    BY DEF Init
  <1>2. [Next]_vars => [Pool!Next]_(Pool!poolVars)
    BY PoolStep, SamePool
  <1>3. QED
    BY <1>1, <1>2, PTL DEF SafeSpec, Pool!SafeSpec

-----------------------------------------------------------------------------
(* What the clients see: the service implements JobService.                *)

\* How far the task of r is tells how far its submission and its command are.
TaskOK(r) ==
    /\ step[r] # "none" => submit[r] = "accepted"
    /\ submit[r] = "accepted" => status[r] \in Begun
    /\ Queued(r) => step[r] = "none"
    /\ result[r] # "none" => step[r] \in {"completing", "failing", "marked"}
    /\ step[r] = "completing" => result[r] # "none"
    /\ reply[r] = "aborted" => submit[r] = "panic"

TaskInv == \A r \in Requests : TaskOK(r)

\* Another goroutine's step, which may finish r's job and may empty its place
\* in the channel.
LEMMA OthersTask ==
    ASSUME NEW r \in Requests, TaskOK(r),
           step'[r] = step[r], submit'[r] = submit[r], result'[r] = result[r],
           reply'[r] = reply[r],
           status[r] \in Begun => status'[r] \in Begun,
           Queued(r)' => Queued(r)
    PROVE  TaskOK(r)'
  BY DEF TaskOK

\* The steps of a handler.
LEMMA HandlerTaskInv ==
    ASSUME WholeInv, TaskInv, NEW r \in Requests, Receive(r) \/ Handler(r)
    PROVE  TaskInv'
  <1> USE DEF At, Goto, Answer
  <1>1. /\ Types /\ Stages /\ pc \in [Requests -> Labels] /\ reply \in [Requests -> Codes]
        /\ submit \in [Requests -> Pool!SubmitState] /\ status \in [Requests -> Store!JobStatus]
        /\ queue \in Seq(Requests)
        /\ pc[r] # "done" => reply[r] = "none"
    BY DEF WholeInv, ServiceInv, Types, OrphanInv, Replies
  <1>2. TaskOK(r) /\ \A q \in Requests : TaskOK(q)
    BY DEF TaskInv
  <1>3. UNCHANGED <<step, result>>
    BY DEF Receive, Handler, ReadCurrent, CheckRunning, TryStart, SubmitCheck, SubmitSend,
       SubmitFailed, AnswerAccepted, taskVars
  <1>4. ASSUME \A q \in Requests \ {r} : /\ submit'[q] = submit[q] /\ reply'[q] = reply[q]
                                         /\ status[q] \in Begun => status'[q] \in Begun
                                         /\ Queued(q)' => Queued(q),
               TaskOK(r)'
        PROVE  TaskInv'
    <2>1. \A q \in Requests \ {r} : TaskOK(q)'
      BY <1>2, <1>3, <1>4, OthersTask
    <2>2. QED
      BY <1>4, <2>1 DEF TaskInv
  <1>5. CASE Receive(r) \/ ReadCurrent(r) \/ AnswerAccepted(r)
    <2>1. UNCHANGED <<status, submit, queue>>
      BY <1>5 DEF Receive, ReadCurrent, AnswerAccepted, storeVars, poolVars
    <2>2. \E code \in Codes \ {"aborted"} : reply' = reply \/ reply' = [reply EXCEPT ![r] = code]
      BY <1>5, VerdictCodes DEF Receive, ReadCurrent, AnswerAccepted, Codes
    <2>3. \A q \in Requests : Queued(q)' <=> Queued(q)
      BY <2>1 DEF Queued
    <2>4. TaskOK(r)'
      BY <1>1, <1>2, <1>3, <2>1, <2>2, <2>3 DEF TaskOK
    <2>5. QED
      BY <1>1, <1>4, <2>1, <2>2, <2>3, <2>4
  <1>6. CASE CheckRunning(r) \/ TryStart(r)
    <2>1. submit[r] = "new" /\ UNCHANGED <<submit, queue>>
      BY <1>1, <1>6 DEF CheckRunning, TryStart, poolVars, Stages
    <2>2. \A q \in Requests \ {r} : status'[q] = status[q]
      BY <1>1, <1>6 DEF CheckRunning, TryStart, storeVars, Store!NewJob, Store!StartJob,
         Store!RefuseJob, Store!vars
    <2>3. reply' = reply \/ reply' = [reply EXCEPT ![r] = "409"]
      BY <1>6 DEF CheckRunning, TryStart
    <2>4. \A q \in Requests : Queued(q)' <=> Queued(q)
      BY <2>1 DEF Queued
    <2>5. TaskOK(r)'
      BY <1>1, <1>2, <1>3, <2>1, <2>3, <2>4 DEF TaskOK
    <2>6. QED
      BY <1>1, <1>4, <2>1, <2>2, <2>3, <2>4, <2>5
  <1>7. CASE SubmitCheck(r)
    <2>1. /\ submit[r] = "new" /\ UNCHANGED <<status, queue, reply>>
          /\ \E s \in {"rejected", "sending"} : submit' = [submit EXCEPT ![r] = s]
      BY <1>1, <1>7 DEF SubmitCheck, Pool!SubmitCheck, Pool!CheckOpen, storeVars, Stages
    <2>2. \A q \in Requests : Queued(q)' <=> Queued(q)
      BY <2>1 DEF Queued
    <2>3. reply[r] # "aborted"
      BY <1>2, <2>1 DEF TaskOK
    <2>4. TaskOK(r)'
      BY <1>1, <1>2, <1>3, <2>1, <2>2, <2>3 DEF TaskOK
    <2>5. QED
      BY <1>1, <1>4, <2>1, <2>2, <2>4
  <1>8. CASE SubmitSend(r)
    <2>1. /\ pc[r] = "sending" /\ submit[r] = "sending" /\ UNCHANGED status
          /\ \/ /\ submit' = [submit EXCEPT ![r] = "accepted"]
                /\ queue' = Append(queue, r) /\ reply' = reply
             \/ /\ submit' = [submit EXCEPT ![r] = "full"]
                /\ queue' = queue /\ reply' = reply
             \/ /\ submit' = [submit EXCEPT ![r] = "panic"]
                /\ queue' = queue /\ reply' = [reply EXCEPT ![r] = "aborted"]
      BY <1>1, <1>8 DEF SubmitSend, Pool!SubmitSend, Pool!Send, Pool!GiveUp, storeVars, Stages
    <2>2. status[r] = "running"
      BY <2>1 DEF WholeInv, ServiceInv, OwnJob, Owned, HandlerOwns
    <2>3. step[r] = "none"
      BY <1>2, <2>1 DEF TaskOK
    <2>4. \A q \in Requests \ {r} : Queued(q)' => Queued(q)
      <3>1. \A q : Holds(Append(queue, r), q) <=> (q = r \/ Holds(queue, q))
        BY <1>1, AppendHolds
      <3>2. QED
        BY <2>1, <3>1 DEF Holds, Queued
    <2> HIDE DEF Queued
    <2>5. TaskOK(r)'
      BY <1>1, <1>2, <1>3, <2>1, <2>2, <2>3 DEF TaskOK, Begun
    <2>6. QED
      BY <1>1, <1>4, <2>1, <2>4, <2>5
  <1>9. CASE SubmitFailed(r)
    <2>1. submit[r] # "accepted" /\ UNCHANGED <<submit, queue>>
          /\ reply' = [reply EXCEPT ![r] = "503"]
      BY <1>1, <1>9 DEF SubmitFailed, poolVars, Stages
    <2>2. \A q \in Requests : status[q] \in Begun => status'[q] \in Begun
      BY <1>9, FinishAnswer DEF SubmitFailed, Store!FailCurrentJob, WholeInv
    <2>3. \A q \in Requests : Queued(q)' <=> Queued(q)
      BY <2>1 DEF Queued
    <2>4. TaskOK(r)'
      BY <1>1, <1>2, <1>3, <2>1, <2>3 DEF TaskOK
    <2>5. QED
      BY <1>1, <1>4, <2>1, <2>2, <2>3, <2>4
  <1>10. QED
    BY <1>5, <1>6, <1>7, <1>8, <1>9 DEF Handler

\* The steps of a worker: at most its own task's place changes.
LEMMA WorkerTaskInv ==
    ASSUME WholeInv, TaskInv, NEW w \in Workers, WorkerStep(w) \/ Command(w)
    PROVE  TaskInv'
  <1>1. /\ Types /\ InPool /\ OneOwner /\ RestTypes
        /\ queue \in Seq(Requests) /\ step \in [Requests -> Steps]
        /\ result \in [Requests -> {"none", "ok", "error", "panic"}]
    BY DEF WholeInv, ServiceInv, Types, RestTypes
  <1>2. \A q \in Requests : TaskOK(q)
    BY DEF TaskInv
  <1>3. UNCHANGED <<submit, reply>>
    BY DEF WorkerStep, Command, TakeTask, CheckContext, MarkComplete, MarkFailed, TaskReturns,
       WorkerLeaves, CommandEnds, CommandPanics, handlerVars, poolVars, Pool!WorkerTake,
       Pool!TaskReturn, Pool!TaskEnd, Pool!WorkerExit
  <1>4. \A q \in Requests : status[q] \in Begun => status'[q] \in Begun
    <2>1. \/ UNCHANGED storeVars
          \/ \E o \in {"completed", "failed"} : Store!FinishCurrentJob(o)
      BY DEF WorkerStep, Command, TakeTask, CheckContext, MarkComplete, MarkFailed,
         TaskReturns, WorkerLeaves, CommandEnds, CommandPanics,
         Store!CompleteCurrentJob, Store!FailCurrentJob
    <2>2. QED
      BY <2>1, FinishAnswer DEF WholeInv
  <1>5. CASE TakeTask(w)
    <2>1. /\ queue # <<>> /\ queue' = Tail(queue) /\ result' = result
          /\ step' = [step EXCEPT ![Head(queue)] = "begun"]
      BY <1>5 DEF TakeTask, Pool!WorkerTake
    <2>2. /\ Head(queue) \in Requests /\ Queued(Head(queue))
          /\ \A q : Queued(q)' <=> (q # Head(queue) /\ Queued(q))
      <3>1. Distinct(queue)
        BY <1>1 DEF OneOwner, Distinct
      <3>2. /\ Head(queue) \in Requests /\ Holds(queue, Head(queue))
            /\ \A q : Holds(Tail(queue), q) <=> (q # Head(queue) /\ Holds(queue, q))
        BY <1>1, <2>1, <3>1, TailHolds
      <3>3. QED
        BY <2>1, <3>2 DEF Holds, Queued
    <2> HIDE DEF Queued
    <2>. PICK r \in Requests : r = Head(queue)
      BY <2>2
    <2>3. submit[r] = "accepted" /\ TaskOK(r)
      BY <1>1, <1>2, <2>2 DEF InPool
    <2>4. TaskOK(r)'
      <3>1. step'[r] = "begun" /\ result[r] = "none" /\ ~Queued(r)'
        BY <1>1, <2>1, <2>2, <2>3 DEF TaskOK
      <3>2. submit'[r] = submit[r] /\ reply'[r] = reply[r] /\ result'[r] = result[r]
        BY <1>3, <2>1
      <3>3. status[r] \in Begun => status'[r] \in Begun
        BY <1>4, <2>2
      <3>4. QED
        BY <2>3, <3>1, <3>2, <3>3 DEF TaskOK
    <2>5. \A q \in Requests \ {r} : TaskOK(q)'
      BY <1>1, <1>2, <1>3, <1>4, <2>1, <2>2, OthersTask
    <2>6. QED
      BY <2>4, <2>5 DEF TaskInv
  <1>6. CASE TaskReturns(w) \/ WorkerLeaves(w)
    <2>1. UNCHANGED <<queue, step, result>>
      BY <1>6 DEF TaskReturns, WorkerLeaves, Pool!TaskReturn, Pool!TaskEnd, Pool!WorkerExit, taskVars
    <2>2. \A q \in Requests : Queued(q)' <=> Queued(q)
      BY <2>1 DEF Queued
    <2>3. QED
      BY <1>2, <1>3, <1>4, <2>1, <2>2, OthersTask DEF TaskInv
  <1>7. CASE CheckContext(w) \/ Command(w) \/ MarkComplete(w) \/ MarkFailed(w)
    <2>. PICK r : r = task[w]
      OBVIOUS
    <2>1. worker[w] = "busy" /\ step[r] \in {"begun", "processing", "completing", "failing"}
          /\ UNCHANGED queue
      BY <1>7 DEF CheckContext, Command, CommandEnds, CommandPanics, MarkComplete, MarkFailed,
         Executing, poolVars
    <2>2. r \in Requests /\ ~Queued(r)
      BY <1>1, <2>1 DEF Types, InPool, OneOwner
    <2>3. \A q \in Requests : Queued(q)' <=> Queued(q)
      BY <2>1 DEF Queued
    <2>4. \/ /\ step[r] = "begun" /\ result' = result
             /\ \E s \in {"failing", "processing"} : step' = [step EXCEPT ![r] = s]
          \/ /\ step[r] = "processing"
             /\ \E o \in {"ok", "error", "panic"} : result' = [result EXCEPT ![r] = o]
             /\ \E s \in {"completing", "failing"} : step' = [step EXCEPT ![r] = s]
          \/ /\ step' = [step EXCEPT ![r] = "marked"] /\ result' = result
      BY <1>7 DEF CheckContext, Command, CommandEnds, CommandPanics, MarkComplete, MarkFailed,
         Executing
    <2> HIDE DEF Queued
    <2>5. TaskOK(r)'
      <3>1. /\ submit'[r] = submit[r] /\ reply'[r] = reply[r] /\ ~Queued(r)'
            /\ status[r] \in Begun => status'[r] \in Begun
            /\ TaskOK(r) /\ submit[r] = "accepted"
        BY <1>2, <1>3, <1>4, <2>1, <2>2, <2>3 DEF TaskOK
      <3>2. /\ step'[r] \in {"failing", "processing", "completing", "marked"}
            /\ step'[r] = "completing" => result'[r] # "none"
            /\ result'[r] # "none" => step'[r] \in {"completing", "failing", "marked"}
        BY <1>1, <2>2, <2>4, <3>1 DEF TaskOK
      <3>3. QED
        BY <3>1, <3>2 DEF TaskOK
    <2>6. \A q \in Requests \ {r} : step'[q] = step[q] /\ result'[q] = result[q]
      BY <1>1, <2>2, <2>4
    <2>7. \A q \in Requests \ {r} : TaskOK(q)'
      BY <1>2, <1>3, <1>4, <2>3, <2>6, OthersTask
    <2>8. QED
      BY <2>5, <2>7 DEF TaskInv
  <1>8. QED
    BY <1>5, <1>6, <1>7 DEF WorkerStep

\* With what the shutdown keeps true (PP!StopInv) it is inductive.
ClientInv == WholeInv /\ TaskInv /\ PP!StopInv

LEMMA ClientInvariance == SafeSpec => []ClientInv
  <1>0. PP!IsFiniteSet(Workers)
    BY ServiceAssumption DEF PP!IsFiniteSet, IsFiniteSet
  <1>1. Init => TaskInv
    BY DEF Init, TaskInv, TaskOK, Queued, Pool!Init, Store!Init
  <1>2. Init => PP!StopInv
    <2>1. PP!Init => PP!StopInv
      BY <1>0, PP!InitStopInv, ServiceAssumption
    <2>2. Init => PP!Init
      BY DEF Init, Pool!Init, PP!Init
    <2>3. QED
      BY <2>1, <2>2
  <1>3. WholeInv /\ TaskInv /\ [Next]_vars => TaskInv'
    <2> SUFFICES ASSUME WholeInv, TaskInv, [Next]_vars PROVE TaskInv'
      OBVIOUS
    <2>1. CASE Signal \/ StopPool \/ Exit \/ Cleanup \/ Tick \/ Terminated \/ UNCHANGED vars
      BY <2>1 DEF Signal, StopPool, Exit, Cleanup, Tick, Terminated, vars,
         storeVars, poolVars, handlerVars, taskVars, Store!CleanupOldJobs, Store!Tick,
         Pool!ShutdownMark, Pool!ShutdownClose, Pool!ShutdownDrained, Pool!ShutdownTimeout,
         TaskInv, TaskOK, Queued
    <2>2. QED
      BY <2>1, HandlerTaskInv, WorkerTaskInv DEF Next
  <1>4. WholeInv /\ PP!StopInv /\ [Next]_vars => PP!StopInv'
    BY <1>0, PoolStep, PP!NextStopInv, ServiceAssumption DEF WholeInv, PartsInv, PP!OrderInv
  <1>5. QED
    BY WholeInvariance, <1>1, <1>2, <1>3, <1>4, PTL DEF SafeSpec, ClientInv

\* The state of a job is that of its request.
LEMMA JobStates ==
    /\ \A r \in Requests : jobStates[r] = JobOf(r) /\ jobStates'[r] = JobOf(r)'
    /\ jobStates' = [r \in Requests |-> JobOf(r)']
  BY DEF jobStates

\* A step that moves no job and answers nobody is a stutter.
LEMMA NoJobMoves ==
    ASSUME \A q \in Requests : JobOf(q)' = JobOf(q)
    PROVE  jobStates' = jobStates
  BY DEF jobStates

\* A step that moves one job.
LEMMA OneJobMoves ==
    ASSUME NEW r \in Requests, NEW state, JobOf(r)' = state,
           \A q \in Requests \ {r} : JobOf(q)' = JobOf(q)
    PROVE  jobStates' = [jobStates EXCEPT ![r] = state]
  BY DEF jobStates

\* Only a running job is live, and it is: no other can be taken.
LEMMA LiveJobs ==
    ASSUME WholeInv, NEW r \in Requests
    PROVE  /\ jobStates[r] \in Client!Live <=> status[r] = "running"
           /\ jobStates[r] = "none" <=> status[r] \in {"absent", "pending"}
           /\ status[r] \in {"completed", "failed"} => jobStates[r] = status[r]
  <1>1. status[r] \in {"absent", "pending", "running", "completed", "failed"}
    BY DEF WholeInv, ServiceInv, Types, Store!JobStatus, Store!Finished
  <1>2. QED
    BY <1>1, JobStates DEF JobOf, Client!Live

\* The handlers' steps are answers to their clients, or take, hold or hand over
\* their job.
LEMMA HandlerClient ==
    ASSUME ClientInv, NEW r \in Requests, Receive(r) \/ Handler(r)
    PROVE  [Client!Next]_(Client!vars)
  <1> USE DEF At, Goto, Answer, Client!vars
  <1>1. /\ WholeInv /\ Types /\ Stages /\ AnswerOK(r) /\ TaskOK(r)
        /\ pc \in [Requests -> Labels] /\ reply \in [Requests -> Codes]
        /\ submit \in [Requests -> Pool!SubmitState] /\ status \in [Requests -> Store!JobStatus]
        /\ current \in Requests \cup {None} /\ seen \in [Requests -> Requests \cup {None}]
        /\ pc[r] # "done" => reply[r] = "none"
    BY DEF ClientInv, WholeInv, ServiceInv, Types, OrphanInv, Replies, AnswerInv, TaskInv
  <1>2. UNCHANGED <<step, result, stopper>>
    BY DEF Receive, Handler, ReadCurrent, CheckRunning, TryStart, SubmitCheck, SubmitSend,
       SubmitFailed, AnswerAccepted, taskVars, poolVars, Pool!SubmitCheck, Pool!CheckOpen,
       Pool!SubmitSend, Pool!Send, Pool!GiveUp
  <1>3. CASE Receive(r)
    <2>1. pc[r] = "absent" /\ status[r] = "absent" /\ UNCHANGED <<status, submit>>
      BY <1>1, <1>3 DEF Receive, storeVars, poolVars, Stages
    <2>2. jobStates' = jobStates /\ jobStates[r] = "none"
      BY <1>1, <1>2, <2>1, NoJobMoves, LiveJobs DEF JobOf
    <2>3. \/ reply' = reply
          \/ \E v \in Verdicts \ {"pass"} : reply' = [reply EXCEPT ![r] = v]
      BY <1>3 DEF Receive
    <2>4. CASE \E v \in Verdicts \ {"pass"} : reply' = [reply EXCEPT ![r] = v]
      <3>1. Client!Refuse(r)
        BY <1>1, <1>2, <2>1, <2>2, <2>4 DEF Client!Refuse, Client!Tells
      <3>2. QED
        BY <3>1 DEF Client!Next
    <2>5. QED
      BY <1>2, <2>2, <2>3, <2>4
  <1>4. CASE ReadCurrent(r)
    BY <1>2, <1>4, NoJobMoves DEF ReadCurrent, storeVars, poolVars, JobOf
  <1>5. ASSUME NEW q \in Requests, status[q] = "running", pc[r] # "done", UNCHANGED storeVars,
               status[r] \in {"absent", "pending"}, submit' = submit,
               reply' = [reply EXCEPT ![r] = "409"]
        PROVE  Client!Next
    <2>1. jobStates' = jobStates /\ jobStates[r] = "none" /\ jobStates[q] \in Client!Live
      BY <1>1, <1>2, <1>5, NoJobMoves, LiveJobs DEF JobOf, storeVars
    <2>2. Client!Busy(r)
      BY <1>1, <1>2, <1>5, <2>1 DEF Client!Busy, Client!Tells
    <2>3. QED
      BY <2>2 DEF Client!Next
  <1>6. CASE CheckRunning(r)
    <2>1. pc[r] = "checking" /\ status[r] = "absent" /\ submit' = submit
      BY <1>1, <1>6 DEF CheckRunning, Stages, poolVars
    <2>2. CASE /\ seen[r] # None /\ Store!IsRunning(seen[r])
               /\ Answer(r, "409") /\ UNCHANGED storeVars
      BY <1>1, <1>5, <2>1, <2>2 DEF Store!IsRunning
    <2>3. CASE Goto(r, "starting") /\ Store!NewJob(r)
      <3>1. status' = [status EXCEPT ![r] = "pending"] /\ reply' = reply
        BY <2>3 DEF Store!NewJob
      <3>2. jobStates' = jobStates
        BY <1>1, <1>2, <2>1, <3>1, NoJobMoves DEF JobOf
      <3>3. QED
        BY <1>2, <3>1, <3>2
    <2>4. QED
      BY <1>6, <2>2, <2>3 DEF CheckRunning
  <1>7. CASE TryStart(r)
    <2>1. pc[r] = "starting" /\ status[r] = "pending" /\ submit[r] = "new" /\ submit' = submit
      BY <1>1, <1>7 DEF TryStart, Stages, poolVars
    <2>2. CASE Store!RefuseJob(r) /\ Answer(r, "409")
      <3>1. current \in Requests /\ status[current] = "running" /\ UNCHANGED storeVars
        BY <1>1, <2>2 DEF Store!RefuseJob, Store!vars, storeVars, Store!SlotFree, Store!IsRunning
      <3>2. QED
        BY <1>5, <2>1, <2>2, <3>1
    <2>3. CASE Store!StartJob(r) /\ Goto(r, "submitting")
      <3>1. status' = [status EXCEPT ![r] = "running"] /\ reply' = reply
            /\ ~(current # None /\ status[current] = "running")
        BY <2>3 DEF Store!StartJob, Store!SlotFree, Store!IsRunning
      <3>2. \A q \in Requests : status[q] # "running"
        BY <1>1, <3>1, ServiceAssumption
        DEF WholeInv, PartsInv, SP!StoreInv, SP!SlotInv, SP!OneRunning, SP!IsRunning
      <3>3. step[r] = "none" /\ result[r] = "none"
        BY <1>1, <2>1 DEF TaskOK
      <3>4. JobOf(r)' = "held" /\ \A q \in Requests \ {r} : JobOf(q)' = JobOf(q)
        BY <1>1, <1>2, <2>1, <3>1, <3>3 DEF JobOf
      <3>5. jobStates' = [jobStates EXCEPT ![r] = "held"]
        BY <3>4, OneJobMoves
      <3>6. /\ jobStates[r] = "none"
            /\ \A q \in Requests : jobStates[q] \notin Client!Live
        BY <1>1, <2>1, <3>2, LiveJobs
      <3>7. Client!Take(r)
        BY <1>1, <1>2, <2>1, <3>1, <3>5, <3>6 DEF Client!Take, Client!CanTake, Client!Moves
      <3>8. QED
        BY <3>7 DEF Client!Next
    <2>4. QED
      BY <1>7, <2>2, <2>3 DEF TryStart
  <1>8. CASE SubmitCheck(r)
    <2>1. /\ submit[r] = "new" /\ UNCHANGED <<status, reply>>
          /\ \E s \in {"rejected", "sending"} : submit' = [submit EXCEPT ![r] = s]
      BY <1>1, <1>8 DEF SubmitCheck, Pool!SubmitCheck, Pool!CheckOpen, storeVars, Stages
    <2>2. jobStates' = jobStates
      BY <1>1, <1>2, <2>1, NoJobMoves DEF JobOf
    <2>3. QED
      BY <1>2, <2>1, <2>2
  <1>9. CASE SubmitSend(r)
    <2>1. /\ pc[r] = "sending" /\ submit[r] = "sending" /\ UNCHANGED status
          /\ \/ /\ submit' = [submit EXCEPT ![r] = "accepted"] /\ reply' = reply /\ ~closed
             \/ /\ submit' = [submit EXCEPT ![r] = "full"] /\ reply' = reply
             \/ /\ submit' = [submit EXCEPT ![r] = "panic"]
                /\ reply' = [reply EXCEPT ![r] = "aborted"]
      BY <1>1, <1>9 DEF SubmitSend, Pool!SubmitSend, Pool!Send, Pool!GiveUp, storeVars, Stages
    <2>2. status[r] = "running" /\ step[r] = "none" /\ result[r] = "none"
      BY <1>1, <2>1 DEF WholeInv, ServiceInv, OwnJob, Owned, HandlerOwns, TaskOK
    <2>3. jobStates[r] = "held"
      BY <2>1, <2>2, JobStates DEF JobOf
    <2>4. CASE submit' = [submit EXCEPT ![r] = "accepted"] /\ reply' = reply /\ ~closed
      <3>1. JobOf(r)' = "accepted" /\ \A q \in Requests \ {r} : JobOf(q)' = JobOf(q)
        BY <1>1, <1>2, <2>1, <2>2, <2>4 DEF JobOf
      <3>2. jobStates' = [jobStates EXCEPT ![r] = "accepted"]
        BY <3>1, OneJobMoves
      <3>3. stopper[main] # "drained"
        BY <2>4 DEF ClientInv, PP!StopInv, PP!LeaveEmpty, PP!OneOwner, PP!Owner, PP!CloseInv
      <3>4. Client!Accept(r)
        BY <1>1, <1>2, <2>1, <2>3, <2>4, <3>2, <3>3 DEF Client!Accept, Client!Moves
      <3>5. QED
        BY <3>4 DEF Client!Next
    <2>5. CASE submit' = [submit EXCEPT ![r] = "full"] /\ reply' = reply
      BY <1>1, <1>2, <2>1, <2>2, <2>5, NoJobMoves DEF JobOf
    <2>6. CASE submit' = [submit EXCEPT ![r] = "panic"] /\ reply' = [reply EXCEPT ![r] = "aborted"]
      <3>1. jobStates' = jobStates
        BY <1>1, <1>2, <2>1, <2>2, <2>6, NoJobMoves DEF JobOf
      <3>2. Client!Abort(r)
        BY <1>1, <1>2, <2>1, <2>3, <2>6, <3>1 DEF Client!Abort, Client!Tells
      <3>3. QED
        BY <3>2 DEF Client!Next
    <2>7. QED
      BY <2>1, <2>4, <2>5, <2>6
  <1>10. CASE SubmitFailed(r)
    <2>1. pc[r] = "failing" /\ submit[r] # "accepted" /\ submit' = submit
      BY <1>1, <1>10 DEF SubmitFailed, Stages, poolVars
    <2>2. current = r /\ status[r] = "running" /\ step[r] = "none" /\ result[r] = "none"
      BY <1>1, <2>1 DEF WholeInv, ServiceInv, OwnJob, Owned, HandlerOwns, TaskOK
    <2>3. status' = [status EXCEPT ![r] = "failed"] /\ reply' = [reply EXCEPT ![r] = "503"]
      BY <1>10, <2>2, ServiceAssumption
      DEF SubmitFailed, Store!FailCurrentJob, Store!FinishCurrentJob
    <2>4. JobOf(r)' = "failed" /\ \A q \in Requests \ {r} : JobOf(q)' = JobOf(q)
      BY <1>1, <1>2, <2>1, <2>3 DEF JobOf
    <2>5. jobStates' = [jobStates EXCEPT ![r] = "failed"] /\ jobStates[r] = "held"
      BY <2>1, <2>2, <2>4, OneJobMoves, JobStates DEF JobOf
    <2>6. Client!Unavailable(r)
      BY <1>1, <1>2, <2>1, <2>3, <2>5 DEF Client!Unavailable, Client!Moves, Client!Tells
    <2>7. QED
      BY <2>6 DEF Client!Next
  <1>11. CASE AnswerAccepted(r)
    <2>1. /\ pc[r] = "accepting" /\ reply' = [reply EXCEPT ![r] = "202"]
          /\ UNCHANGED <<status, submit>>
      BY <1>11 DEF AnswerAccepted, storeVars, poolVars
    <2>2. submit[r] = "accepted" /\ status[r] \in Begun
      BY <1>1, <2>1 DEF AnswerOK, TaskOK
    <2>3. jobStates' = jobStates
      BY <1>2, <2>1, NoJobMoves DEF JobOf
    <2>4. jobStates[r] \in {"accepted", "executing"} \cup Client!Ended
      BY <2>2, JobStates DEF JobOf, Begun, Client!Ended
    <2>5. Client!Confirm(r)
      BY <1>1, <1>2, <2>1, <2>3, <2>4 DEF Client!Confirm, Client!Tells
    <2>6. QED
      BY <2>5 DEF Client!Next
  <1>12. QED
    BY <1>3, <1>4, <1>6, <1>7, <1>8, <1>9, <1>10, <1>11 DEF Handler

\* The workers' steps execute, finish or give up the job of their task.
LEMMA WorkerClient ==
    ASSUME ClientInv, NEW w \in Workers, WorkerStep(w) \/ Command(w)
    PROVE  [Client!Next]_(Client!vars)
  <1> USE DEF Client!vars
  <1>1. /\ WholeInv /\ Types /\ InPool /\ OwnJob
        /\ \A q \in Requests : TaskOK(q)
        /\ queue \in Seq(Requests) /\ step \in [Requests -> Steps]
        /\ status \in [Requests -> Store!JobStatus]
        /\ result \in [Requests -> {"none", "ok", "error", "panic"}]
    BY DEF ClientInv, WholeInv, ServiceInv, Types, RestTypes, TaskInv
  <1>2. UNCHANGED <<submit, reply, stopper>>
    BY DEF WorkerStep, Command, TakeTask, CheckContext, MarkComplete, MarkFailed, TaskReturns,
       WorkerLeaves, CommandEnds, CommandPanics, handlerVars, poolVars, Pool!WorkerTake,
       Pool!TaskReturn, Pool!TaskEnd, Pool!WorkerExit
  <1>3. CASE TakeTask(w)
    <2>1. /\ queue # <<>> /\ UNCHANGED <<result, status>>
          /\ step' = [step EXCEPT ![Head(queue)] = "begun"]
      BY <1>3 DEF TakeTask, Pool!WorkerTake, storeVars
    <2>2. Head(queue) \in Requests /\ Queued(Head(queue))
      BY <1>1, <2>1 DEF Queued
    <2>3. step[Head(queue)] = "none"
      BY <1>1, <2>2 DEF TaskOK
    <2>4. \A q \in Requests : (step'[q] = "processing") <=> (step[q] = "processing")
      BY <1>1, <2>1, <2>2, <2>3
    <2>5. QED
      BY <1>2, <2>1, <2>4, NoJobMoves DEF JobOf
  <1>4. CASE TaskReturns(w) \/ WorkerLeaves(w)
    BY <1>2, <1>4, NoJobMoves DEF TaskReturns, WorkerLeaves, storeVars, taskVars, JobOf
  <1>5. CASE CheckContext(w) \/ Command(w) \/ MarkComplete(w) \/ MarkFailed(w)
    <2>. PICK r : r = task[w]
      OBVIOUS
    <2>1. worker[w] = "busy" /\ step[r] \in {"begun", "processing", "completing", "failing"}
      BY <1>5 DEF CheckContext, Command, CommandEnds, CommandPanics, MarkComplete, MarkFailed,
         Executing
    <2>2. r \in Requests /\ submit[r] = "accepted" /\ TaskOK(r)
      BY <1>1, <2>1 DEF Types, InPool
    <2>3. current = r /\ status[r] = "running"
      BY <1>1, <2>1, <2>2 DEF OwnJob, Owned, WorkerOwns
    <2>4. jobStates[r] = IF step[r] = "processing" \/ result[r] # "none"
                         THEN "executing" ELSE "accepted"
      BY <2>2, <2>3, JobStates DEF JobOf
    <2>5. CASE CheckContext(w)
      <3>1. step[r] = "begun" /\ UNCHANGED <<status, result>> /\ result[r] = "none"
        BY <2>2, <2>5 DEF CheckContext, Executing, storeVars, TaskOK
      <3>2. CASE step' = [step EXCEPT ![r] = "failing"]
        <4>1. \A q \in Requests : (step'[q] = "processing") <=> (step[q] = "processing")
          BY <1>1, <3>1, <3>2
        <4>2. QED
          BY <1>2, <3>1, <4>1, NoJobMoves DEF JobOf
      <3>3. CASE step' = [step EXCEPT ![r] = "processing"]
        <4>1. JobOf(r)' = "executing" /\ \A q \in Requests \ {r} : JobOf(q)' = JobOf(q)
          BY <1>1, <1>2, <2>2, <2>3, <3>1, <3>3 DEF JobOf
        <4>2. jobStates' = [jobStates EXCEPT ![r] = "executing"] /\ jobStates[r] = "accepted"
          BY <2>2, <2>4, <3>1, <4>1, OneJobMoves
        <4>3. Client!Execute(r)
          BY <1>2, <4>2 DEF Client!Execute, Client!Moves
        <4>4. QED
          BY <2>2, <4>3 DEF Client!Next
      <3>4. QED
        BY <2>5, <3>2, <3>3 DEF CheckContext
    <2>6. CASE Command(w)
      <3>1. /\ step[r] = "processing" /\ status' = status
            /\ \E o \in {"ok", "error", "panic"} : result' = [result EXCEPT ![r] = o]
            /\ \E s \in {"completing", "failing"} : step' = [step EXCEPT ![r] = s]
        BY <2>6 DEF Command, CommandEnds, CommandPanics, Executing, storeVars
      <3>2. /\ result'[r] # "none"
            /\ \A q \in Requests \ {r} : step'[q] = step[q] /\ result'[q] = result[q]
        BY <1>1, <2>2, <3>1
      <3>3. \A q \in Requests : JobOf(q)' = JobOf(q)
        BY <1>2, <2>3, <3>1, <3>2 DEF JobOf
      <3>4. QED
        BY <1>2, <3>3, NoJobMoves
    <2>7. ASSUME NEW o \in {"completed", "failed"}, Store!FinishCurrentJob(o),
                 UNCHANGED result, step' = [step EXCEPT ![r] = "marked"],
                 step[r] # "processing", o = "completed" => result[r] # "none"
          PROVE  Client!Next
      <3>1. status' = [status EXCEPT ![r] = o]
        BY <2>2, <2>3, <2>7, ServiceAssumption DEF Store!FinishCurrentJob
      <3>2. JobOf(r)' = o /\ \A q \in Requests \ {r} : JobOf(q)' = JobOf(q)
        BY <1>1, <1>2, <2>2, <2>7, <3>1 DEF JobOf
      <3>3. jobStates' = [jobStates EXCEPT ![r] = o]
        BY <2>2, <3>2, OneJobMoves
      <3>4. CASE result[r] # "none"
        <4>1. Client!Finish(r)
          BY <1>2, <2>4, <2>7, <3>3, <3>4 DEF Client!Finish, Client!Moves, Client!Ended
        <4>2. QED
          BY <2>2, <4>1 DEF Client!Next
      <3>5. CASE result[r] = "none"
        <4>1. Client!Cancel(r)
          BY <1>2, <2>4, <2>7, <3>3, <3>5 DEF Client!Cancel, Client!Moves
        <4>2. QED
          BY <2>2, <4>1 DEF Client!Next
      <3>6. QED
        BY <3>4, <3>5
    <2>8. CASE MarkComplete(w)
      <3>1. step[r] = "completing" /\ result[r] # "none"
        BY <2>2, <2>8 DEF MarkComplete, Executing, TaskOK
      <3>2. QED
        BY <2>7, <2>8, <3>1 DEF MarkComplete, Store!CompleteCurrentJob
    <2>9. CASE MarkFailed(w)
      BY <2>7, <2>9 DEF MarkFailed, Executing, Store!FailCurrentJob
    <2>10. QED
      BY <1>5, <2>5, <2>6, <2>8, <2>9
  <1>6. QED
    BY <1>3, <1>4, <1>5 DEF WorkerStep

\* When the shutdown has waited for every worker, nothing accepted is
\* unfinished: the channel is empty, and a job that still runs is held by a
\* handler, or was lost to a panic before it was accepted.
LEMMA DrainedClient ==
    ASSUME ClientInv, Pool!ShutdownDrained(main)
    PROVE  \A r \in Requests : jobStates[r] \notin {"accepted", "executing"}
  <1> SUFFICES ASSUME NEW r \in Requests, jobStates[r] \in {"accepted", "executing"}
               PROVE  FALSE
    OBVIOUS
  <1>1. stopper[main] = "waiting" /\ \A w \in Workers : worker[w] = "exited"
    BY DEF Pool!ShutdownDrained
  <1>2. queue = <<>>
    BY <1>1, ServiceAssumption
    DEF ClientInv, PP!StopInv, PP!LeaveEmpty, PP!OneOwner, PP!Owner
  <1>3. /\ WholeInv /\ Stages /\ TaskOK(r) /\ NoOrphan /\ OwnJob
        /\ status[r] \in {"absent", "pending", "running", "completed", "failed"}
    BY DEF ClientInv, WholeInv, ServiceInv, Types, TaskInv, OrphanInv, Store!JobStatus,
       Store!Finished
  <1>4. status[r] = "running" /\ submit[r] = "accepted"
    BY <1>3, JobStates DEF JobOf, TaskOK
  <1>5. HandlerOwns(r) \/ reply[r] = "aborted"
    BY <1>1, <1>2, <1>3, <1>4 DEF NoOrphan, Owned, Queued, WorkerOwns
  <1>6. QED
    BY <1>3, <1>4, <1>5 DEF HandlerOwns, Stages, TaskOK

\* Every step of the service is one that the clients' specification allows.
LEMMA NextClient == ClientInv /\ [Next]_vars => [Client!Next]_(Client!vars)
  <1> SUFFICES ASSUME ClientInv, [Next]_vars PROVE [Client!Next]_(Client!vars)
    OBVIOUS
  <1>1. CASE Signal \/ Exit \/ Cleanup \/ Tick \/ Terminated \/ UNCHANGED vars
    <2>1. UNCHANGED <<status, step, result, submit, reply, stopper>>
      BY <1>1 DEF Signal, Exit, Cleanup, Tick, Terminated, vars, storeVars, poolVars,
         handlerVars, taskVars, Store!CleanupOldJobs, Store!Tick
    <2>2. QED
      BY <2>1, NoJobMoves DEF JobOf, Client!vars
  <1>2. CASE StopPool
    <2>1. UNCHANGED <<status, step, result, submit, reply>>
      BY <1>2 DEF StopPool, storeVars, handlerVars, taskVars, Pool!ShutdownMark,
         Pool!ShutdownClose, Pool!ShutdownDrained, Pool!ShutdownTimeout
    <2>2. jobStates' = jobStates
      BY <2>1, NoJobMoves DEF JobOf
    <2>3. /\ stopper \in [{main} -> Pool!StopperState]
          /\ stopper[main] = "drained" => stopper' = stopper
      BY <1>2 DEF ClientInv, WholeInv, PartsInv, PP!OrderInv, PP!TypeOK, PP!StopperState,
         Pool!StopperState, StopPool, Pool!ShutdownMark, Pool!ShutdownClose,
         Pool!ShutdownDrained, Pool!ShutdownTimeout
    <2>4. CASE Pool!ShutdownDrained(main)
      <3>1. (stopper[main] = "drained")' = TRUE
        BY <2>3, <2>4 DEF Pool!ShutdownDrained
      <3>2. Client!Drain
        BY <2>1, <2>2, <2>4, <3>1, DrainedClient DEF Client!Drain
      <3>3. QED
        BY <3>2 DEF Client!Next
    <2>5. CASE Pool!ShutdownMark(main) \/ Pool!ShutdownClose(main) \/ Pool!ShutdownTimeout(main)
      <3>1. stopper'[main] # "drained" /\ stopper[main] # "drained"
        BY <2>3, <2>5 DEF Pool!ShutdownMark, Pool!ShutdownClose, Pool!ShutdownTimeout
      <3>2. QED
        BY <2>1, <2>2, <3>1 DEF Client!vars
    <2>6. QED
      BY <1>2, <2>4, <2>5 DEF StopPool
  <1>3. QED
    BY <1>1, <1>2, HandlerClient, WorkerClient DEF Next

\* No answer and no job at the start, and the pool is not drained.
LEMMA InitClient == Init => Client!Init
  BY DEF Init, Client!Init, Store!Init, Pool!Init, jobStates, JobOf

\* The service implements JobService: handlers, channel, workers, the slot and
\* the shutdown together do to a job and tell its client only what the
\* specification without them allows.
THEOREM ClientRefinementTheorem == SafeSpec => ClientRefinement
  BY InitClient, NextClient, ClientInvariance, PTL DEF SafeSpec, ClientRefinement, Client!SafeSpec

\* What a client may conclude from an answer is kept by every step that
\* JobService allows: a refused job is never taken, an accepted one is never
\* dropped, a live one excludes all others.
LEMMA NextPromise ==
    ASSUME Client!Promise, [Client!Next]_(Client!vars), reply \in [Requests -> Codes]
    PROVE  Client!Promise'
  <1> USE DEF Client!Promise, Client!Live, Client!Ended
  <1>1. CASE UNCHANGED Client!vars
    BY <1>1 DEF Client!vars
  <1>2. /\ DOMAIN jobStates = Requests /\ DOMAIN reply = Requests
        /\ {"none", "202", "409", "503", "aborted"} \cap (Verdicts \ {"pass"}) = {}
    BY VerdictCodes DEF jobStates
  <1>3. ASSUME NEW r \in Requests,
               Client!Refuse(r) \/ Client!Busy(r) \/ Client!Abort(r) \/ Client!Confirm(r)
        PROVE  Client!Promise'
    <2>1. /\ UNCHANGED <<jobStates, stopper[main] = "drained">> /\ reply[r] = "none"
          /\ \A q \in Requests \ {r} : reply'[q] = reply[q]
          /\ \/ reply'[r] \in {"409"} \cup (Verdicts \ {"pass"}) /\ jobStates[r] = "none"
             \/ reply'[r] = "aborted"
             \/ reply'[r] = "202" /\ jobStates[r] \in {"accepted", "executing", "completed", "failed"}
      BY <1>2, <1>3 DEF Client!Refuse, Client!Busy, Client!Abort, Client!Confirm, Client!Tells
    <2>2. QED
      BY <1>2, <2>1
  <1>4. ASSUME NEW r \in Requests, Client!Take(r) \/ Client!Start(r) PROVE Client!Promise'
    <2>1. /\ UNCHANGED <<reply, stopper[main] = "drained">> /\ reply[r] = "none"
          /\ \A q \in Requests : jobStates[q] \notin Client!Live
          /\ \A q \in Requests \ {r} : jobStates'[q] = jobStates[q]
          /\ \/ jobStates'[r] = "held"
             \/ jobStates'[r] = "executing" /\ ~(stopper[main] = "drained")
      BY <1>2, <1>4 DEF Client!Take, Client!Start, Client!CanTake, Client!Moves
    <2>2. QED
      BY <1>2, <2>1
  <1>5. ASSUME NEW r \in Requests,
               \/ Client!Unavailable(r) \/ Client!Accept(r) \/ Client!Execute(r)
               \/ Client!Finish(r) \/ Client!Cancel(r)
        PROVE  Client!Promise'
    <2>1. /\ UNCHANGED (stopper[main] = "drained") /\ jobStates[r] \in Client!Live
          /\ \A q \in Requests \ {r} : jobStates'[q] = jobStates[q] /\ reply'[q] = reply[q]
          /\ \/ /\ reply[r] = "none" /\ reply'[r] = "503" /\ jobStates'[r] = "failed"
             \/ /\ reply' = reply /\ reply[r] = "none" /\ jobStates'[r] = "accepted"
                /\ ~(stopper[main] = "drained")
             \/ /\ reply' = reply /\ jobStates[r] # "held"
                /\ jobStates'[r] \in {"executing", "completed", "failed"}
      BY <1>2, <1>5 DEF Client!Unavailable, Client!Accept, Client!Execute, Client!Finish,
         Client!Cancel, Client!Moves, Client!Tells
    <2>2. QED
      BY <1>2, <2>1
  <1>6. CASE Client!Drain
    BY <1>6 DEF Client!Drain
  <1>7. QED
    BY <1>1, <1>3, <1>4, <1>5, <1>6 DEF Client!Next

\* So the clients of this service may conclude it: jobs never overlap; a job
\* answered 202 is in the service's hands or finished, one answered 503 failed;
\* a request that was refused or answered 409 has none; and when Pool.Shutdown
\* has returned nil, every job that was accepted is finished.
THEOREM PromiseTheorem == SafeSpec => []Client!Promise
  <1>1. Init => Client!Promise
    BY DEF Init, Client!Promise, Client!Live, Client!Ended, Store!Init, Pool!Init, jobStates,
       JobOf
  <1>2. ClientInv /\ Client!Promise /\ [Next]_vars => Client!Promise'
    BY NextClient, NextPromise DEF ClientInv, WholeInv, OrphanInv, Replies
  <1>3. QED
    BY <1>1, <1>2, ClientInvariance, PTL DEF SafeSpec

-----------------------------------------------------------------------------
(* What the parts promise, inside the service.                             *)

\* The promises of the store and the pool hold of those in the service, under
\* its concurrent handlers, workers, cleanup and shutdown: no job is forgotten
\* before its time, and a Shutdown that returned nil has lost no task.
THEOREM PartsTheorem ==
    SafeSpec => [](Store!HistoryOK /\ Store!Retained /\ Pool!InOrderOnce /\ Pool!GracefulShutdown)
  <1>1. ASSUME ClientInv PROVE Store!HistoryOK /\ Store!Retained
    <2>1. SP!HistoryOK /\ SP!Retained
      BY <1>1, SP!StoreImplies, ServiceAssumption DEF ClientInv, WholeInv, PartsInv
    <2>2. SP!HistoryOK => Store!HistoryOK
      BY DEF SP!HistoryOK, Store!HistoryOK, SP!Finished, Store!Finished, SP!ToSet, Store!ToSet,
         SP!Cardinality, Store!Cardinality
    <2>3. SP!Retained => Store!Retained
      BY DEF SP!Retained, Store!Retained, SP!Later, Store!Later, SP!NoTime, Store!NoTime,
         SP!IsRunning, Store!IsRunning, SP!Finished, Store!Finished, SP!GetJob, Store!GetJob, SP!ToSet, Store!ToSet,
         SP!Cardinality, Store!Cardinality
    <2>4. QED
      BY <2>1, <2>2, <2>3
  <1>2. ASSUME ClientInv PROVE Pool!InOrderOnce /\ Pool!GracefulShutdown
    <2>0. PP!IsFiniteSet(Workers)
      BY ServiceAssumption DEF PP!IsFiniteSet, IsFiniteSet
    <2>1. PP!InOrderOnce /\ PP!GracefulShutdown
      BY <1>1, <1>2, <2>0, PP!OrderImplies, PP!StopImplies, ServiceAssumption
      DEF ClientInv, WholeInv, PartsInv, PP!PoolInv
    <2>2. PP!InOrderOnce => Pool!InOrderOnce
      BY DEF PP!InOrderOnce, Pool!InOrderOnce, PP!ToSet, Pool!ToSet, PP!Cardinality, Pool!Cardinality
    <2>3. PP!GracefulShutdown => Pool!GracefulShutdown
      BY DEF PP!GracefulShutdown, Pool!GracefulShutdown, PP!ToSet, Pool!ToSet
    <2>4. QED
      BY <2>1, <2>2, <2>3
  <1>3. QED
    BY ClientInvariance, <1>1, <1>2, PTL

=============================================================================
