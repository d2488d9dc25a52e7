--------------------------- MODULE WebhookService ---------------------------
(***************************************************************************)
(* The running service: the webhook handler with its worker pool           *)
(* (application/handler/webhook_handler_pool.go), the action service       *)
(* (domain/service/action_service.go) and the life of the process          *)
(* (cmd/cloud-update/main.go), composed with JobStore and WorkerPool.      *)
(*                                                                         *)
(* net/http runs every request in a goroutine of its own; the pool's       *)
(* workers, the cleanup goroutine, and main with its deferred shutdown are *)
(* the other processes.  A request stands for itself, for the job it may   *)
(* create and for the task it may submit.                                  *)
(***************************************************************************)
EXTENDS Integers, Sequences, FiniteSets, SequencesExt

CONSTANTS
    Requests,    \* the webhook requests that may arrive
    None,        \* no request, job or task
    Workers,     \* the pool's workers (10 in main)
    MaxBacklog,  \* the pool's backlog (100 in main)
    MaxHistory, MaxAge, MaxTime  \* as in JobStore

main == "main"   \* the goroutine that calls Pool.Shutdown

ASSUME ServiceAssumption ==
    /\ None \notin Requests
    /\ IsFiniteSet(Workers) /\ Workers # {}
    /\ MaxBacklog \in Nat \ {0}
    /\ MaxHistory \in Nat \ {0}
    /\ MaxAge \in Nat
    /\ MaxTime \in Nat

VARIABLES
    status, startTime, endTime, current, history, now,      \* JobStore
    shutdown, closed, cancelled, queue, worker, task,       \* WorkerPool
    submit, stopper, accepted, started, done,
    pc,       \* per request: where its handler is
    seen,     \* per request: the result of GetCurrentJob
    reply,    \* per request: the answer the client got
    step,     \* per request: where processActionWithContext is
    result,   \* per request: how the system command ended
    server    \* "serving", "stopping" after a signal, "exited"

Store == INSTANCE JobStore WITH Jobs <- Requests, NoJob <- None
Pool == INSTANCE WorkerPool WITH
    Tasks <- Requests, NoTask <- None, Stoppers <- {main}

storeVars == <<status, startTime, endTime, current, history, now>>
poolVars == <<shutdown, closed, cancelled, queue, worker, task, submit,
              stopper, accepted, started, done>>
handlerVars == <<pc, seen, reply>>
taskVars == <<step, result>>
vars == <<storeVars, poolVars, handlerVars, taskVars, server>>

Init ==
    /\ Store!Init
    /\ Pool!Init
    /\ pc = [r \in Requests |-> "absent"]
    /\ seen = [r \in Requests |-> None]
    /\ reply = [r \in Requests |-> "none"]
    /\ step = [r \in Requests |-> "none"]
    /\ result = [r \in Requests |-> "none"]
    /\ server = "serving"

\* Nothing happens after the process has ended.
Alive == server # "exited"

-----------------------------------------------------------------------------
(* HandleWebhook.                                                          *)

\* What the middleware and the handler look at before they touch any state.
Input == [limited : BOOLEAN, method : {"POST", "GET"},
          body : {"ok", "unreadable", "malformed"}, expired : BOOLEAN,
          signed : BOOLEAN, action : {"update", "reboot", "reinit"}]

\* The checks in the order of the code, the rate limiter's middleware first;
\* the answer of the first that fails, or "pass".
Validate(in) ==
    IF in.limited THEN "429"
    ELSE IF in.method # "POST" THEN "405"
    ELSE IF in.body # "ok" \/ in.expired THEN "400"
    ELSE IF ~in.signed THEN "401"
    ELSE IF in.action # "update" THEN "400"
    ELSE "pass"

Verdicts == {Validate(in) : in \in Input}

\* The handler of r runs and is at a label.
At(r, label) == Alive /\ pc[r] = label

\* The client has its answer and the handler has returned.
Answer(r, code) ==
    /\ pc' = [pc EXCEPT ![r] = "done"]
    /\ reply' = [reply EXCEPT ![r] = code]

Goto(r, label) == pc' = [pc EXCEPT ![r] = label] /\ UNCHANGED reply

\* A request arrives and is validated: no shared state is read or written.
Receive(r) ==
    /\ server = "serving"
    /\ pc[r] = "absent"
    /\ \E verdict \in Verdicts :
          IF verdict = "pass" THEN Goto(r, "admitting") ELSE Answer(r, verdict)
    /\ UNCHANGED <<storeVars, poolVars, seen, taskVars, server>>

\* currentJob := h.jobStore.GetCurrentJob()
ReadCurrent(r) ==
    /\ At(r, "admitting")
    /\ seen' = [seen EXCEPT ![r] = current]
    /\ Goto(r, "checking")
    /\ UNCHANGED <<storeVars, poolVars, taskVars, server>>

\* IsRunning of the job that was read, which may have finished meanwhile: 409
\* with that job's identifier, or a new job (whose identifier never fails to
\* be generated).
CheckRunning(r) ==
    /\ At(r, "checking")
    /\ IF seen[r] # None /\ Store!IsRunning(seen[r])
       THEN Answer(r, "409") /\ UNCHANGED storeVars
       ELSE Goto(r, "starting") /\ Store!NewJob(r)
    /\ UNCHANGED <<poolVars, seen, taskVars, server>>

\* Bug: the result of TryStartJob is ignored.
TryStartUnchecked(r) ==
    /\ At(r, "starting")
    /\ Store!TryStartJob(r)
    /\ Goto(r, "submitting")
    /\ UNCHANGED <<poolVars, seen, taskVars, server>>

\* Bug: a refused request cleans up with FailCurrentJob.
TryStartCleaningUp(r) ==
    /\ At(r, "starting")
    /\ \/ Store!StartJob(r) /\ Goto(r, "submitting")
       \/ ~Store!SlotFree /\ Store!FailCurrentJob /\ Answer(r, "409")
    /\ UNCHANGED <<poolVars, seen, taskVars, server>>

\* TryStartJob: 409 without an identifier when another job won the slot.
TryStart(r) ==
    /\ At(r, "starting")
    /\ \/ Store!StartJob(r) /\ Goto(r, "submitting")
       \/ Store!RefuseJob(r) /\ Answer(r, "409")
    /\ UNCHANGED <<poolVars, seen, taskVars, server>>

\* The two steps of Pool.Submit.
SubmitCheck(r) ==
    /\ At(r, "submitting")
    /\ Pool!SubmitCheck(r)
    /\ Goto(r, IF submit'[r] = "rejected" THEN "failing" ELSE "sending")
    /\ UNCHANGED <<storeVars, seen, taskVars, server>>

\* Bug: the test of the submission's error is inverted.
SubmitSendInverted(r) ==
    /\ At(r, "sending")
    /\ Pool!SubmitSend(r)
    /\ CASE submit'[r] = "accepted" -> Goto(r, "failing")
         [] submit'[r] = "full" -> Goto(r, "accepting")
         [] submit'[r] = "panic" -> Answer(r, "aborted")
    /\ UNCHANGED <<storeVars, seen, taskVars, server>>

\* A panic of the send unwinds the handler; net/http recovers it and drops the
\* connection.
SubmitSend(r) ==
    /\ At(r, "sending")
    /\ Pool!SubmitSend(r)
    /\ CASE submit'[r] = "accepted" -> Goto(r, "accepting")
         [] submit'[r] = "full" -> Goto(r, "failing")
         [] submit'[r] = "panic" -> Answer(r, "aborted")
    /\ UNCHANGED <<storeVars, seen, taskVars, server>>

\* Bug: 503 without FailCurrentJob.
SubmitFailedUnmarked(r) ==
    /\ At(r, "failing")
    /\ Answer(r, "503")
    /\ UNCHANGED <<storeVars, poolVars, seen, taskVars, server>>

\* The submission failed: FailCurrentJob, then 503.
SubmitFailed(r) ==
    /\ At(r, "failing")
    /\ Store!FailCurrentJob
    /\ Answer(r, "503")
    /\ UNCHANGED <<poolVars, seen, taskVars, server>>

\* The submission succeeded: 202, possibly after the job has finished.
AnswerAccepted(r) ==
    /\ At(r, "accepting")
    /\ Answer(r, "202")
    /\ UNCHANGED <<storeVars, poolVars, seen, taskVars, server>>

Handler(r) ==
    \/ ReadCurrent(r) \/ CheckRunning(r) \/ TryStart(r)
    \/ SubmitCheck(r) \/ SubmitSend(r) \/ SubmitFailed(r) \/ AnswerAccepted(r)

-----------------------------------------------------------------------------
(* processActionWithContext, the task that a worker executes.              *)

\* Worker w executes a task that is at a label.
Executing(w, label) == Alive /\ worker[w] = "busy" /\ step[task[w]] = label

TakeTask(w) ==
    /\ Alive
    /\ Pool!WorkerTake(w)
    /\ step' = [step EXCEPT ![Head(queue)] = "begun"]
    /\ UNCHANGED <<storeVars, handlerVars, result, server>>

\* Bug: the cancelled branch falls through to the end of the function.
CheckContextFallsThrough(w) ==
    /\ Executing(w, "begun")
    /\ step' = [step EXCEPT ![task[w]] = IF cancelled THEN "completing" ELSE "processing"]
    /\ UNCHANGED <<storeVars, poolVars, handlerVars, result, server>>

\* The select on ctx.Done: the task's context is the pool's, with a deadline
\* of five minutes that has only just been set.
CheckContext(w) ==
    /\ Executing(w, "begun")
    /\ step' = [step EXCEPT ![task[w]] = IF cancelled THEN "failing" ELSE "processing"]
    /\ UNCHANGED <<storeVars, poolVars, handlerVars, result, server>>

\* ProcessAction returns: executeUpdate logs the error of a failed command and
\* returns like a successful one.
CommandEnds(w) ==
    /\ Executing(w, "processing")
    /\ \E outcome \in {"ok", "error"} : result' = [result EXCEPT ![task[w]] = outcome]
    /\ step' = [step EXCEPT ![task[w]] = "completing"]
    /\ UNCHANGED <<storeVars, poolVars, handlerVars, server>>

\* Bug: no deferred recovery marks the job.
CommandPanicsUnmarked(w) ==
    /\ Executing(w, "processing")
    /\ result' = [result EXCEPT ![task[w]] = "panic"]
    /\ step' = [step EXCEPT ![task[w]] = "marked"]
    /\ UNCHANGED <<storeVars, poolVars, handlerVars, server>>

\* ProcessAction panics: the deferred function recovers.
CommandPanics(w) ==
    /\ Executing(w, "processing")
    /\ result' = [result EXCEPT ![task[w]] = "panic"]
    /\ step' = [step EXCEPT ![task[w]] = "failing"]
    /\ UNCHANGED <<storeVars, poolVars, handlerVars, server>>

MarkComplete(w) ==
    /\ Executing(w, "completing")
    /\ Store!CompleteCurrentJob
    /\ step' = [step EXCEPT ![task[w]] = "marked"]
    /\ UNCHANGED <<poolVars, handlerVars, result, server>>

\* FailCurrentJob, in the cancelled branch or in the deferred recovery.
MarkFailed(w) ==
    /\ Executing(w, "failing")
    /\ Store!FailCurrentJob
    /\ step' = [step EXCEPT ![task[w]] = "marked"]
    /\ UNCHANGED <<poolVars, handlerVars, result, server>>

\* The task logs and returns to the worker's loop.
TaskReturns(w) ==
    /\ Executing(w, "marked")
    /\ Pool!TaskReturn(w)
    /\ UNCHANGED <<storeVars, handlerVars, taskVars, server>>

WorkerLeaves(w) ==
    /\ Alive
    /\ Pool!WorkerExit(w)
    /\ UNCHANGED <<storeVars, handlerVars, taskVars, server>>

Command(w) == CommandEnds(w) \/ CommandPanics(w)

WorkerStep(w) ==
    \/ TakeTask(w) \/ CheckContext(w) \/ MarkComplete(w) \/ MarkFailed(w)
    \/ TaskReturns(w) \/ WorkerLeaves(w)

-----------------------------------------------------------------------------
(* main, the cleanup goroutine and the clock.                              *)

\* SIGTERM: server.Shutdown closes the listener and ListenAndServe returns at
\* once, while handlers may still be running.
Signal ==
    /\ server = "serving"
    /\ server' = "stopping"
    /\ UNCHANGED <<storeVars, poolVars, handlerVars, taskVars>>

\* Bug: Shutdown waits for the workers without a timeout.
StopPoolUntimed ==
    /\ server = "stopping"
    /\ \/ Pool!ShutdownMark(main) \/ Pool!ShutdownClose(main)
       \/ Pool!ShutdownDrained(main)
    /\ UNCHANGED <<storeVars, handlerVars, taskVars, server>>

\* main returns from ListenAndServe into its deferred Pool.Shutdown.
StopPool ==
    /\ server = "stopping"
    /\ \/ Pool!ShutdownMark(main) \/ Pool!ShutdownClose(main)
       \/ Pool!ShutdownDrained(main) \/ Pool!ShutdownTimeout(main)
    /\ UNCHANGED <<storeVars, handlerVars, taskVars, server>>

\* main returns: the process ends with whatever is still in flight.
Exit ==
    /\ server = "stopping"
    /\ stopper[main] \in {"drained", "timedout"}
    /\ server' = "exited"
    /\ UNCHANGED <<storeVars, poolVars, handlerVars, taskVars>>

Cleanup ==
    /\ Alive
    /\ Store!CleanupOldJobs
    /\ UNCHANGED <<poolVars, handlerVars, taskVars, server>>

Tick ==
    /\ Alive
    /\ Store!Tick
    /\ UNCHANGED <<poolVars, handlerVars, taskVars, server>>

\* A stopped process stays stopped.
Terminated == server = "exited" /\ UNCHANGED vars

Next ==
    \/ \E r \in Requests : Receive(r) \/ Handler(r)
    \/ \E w \in Workers : WorkerStep(w) \/ Command(w)
    \/ Signal \/ StopPool \/ Exit
    \/ Cleanup \/ Tick
    \/ Terminated

SafeSpec == Init /\ [][Next]_vars

\* Goroutines that can run are scheduled and timers fire; nobody is obliged to
\* send a request or a signal, and the clock may stop.
Scheduling ==
    /\ \A r \in Requests : WF_vars(Handler(r))
    /\ \A w \in Workers : WF_vars(WorkerStep(w))
    /\ WF_vars(StopPool)
    /\ WF_vars(Exit)

\* A system command ends.  The executor that main wires runs commands without
\* a deadline, so this is an assumption about the commands, not about the code.
CommandsEnd == \A w \in Workers : WF_vars(Command(w))

Spec == SafeSpec /\ Scheduling

-----------------------------------------------------------------------------
(* Properties.                                                             *)

Labels == {"absent", "admitting", "checking", "starting", "submitting",
           "sending", "failing", "accepting", "done"}
Steps == {"none", "begun", "processing", "completing", "failing", "marked"}
Codes == {"none", "202", "409", "503", "aborted"} \cup (Verdicts \ {"pass"})

\* Type invariant of the composition: both components keep theirs.
TypeOK ==
    /\ Store!TypeOK
    /\ Pool!TypeOK
    /\ pc \in [Requests -> Labels]
    /\ seen \in [Requests -> Requests \cup {None}]
    /\ reply \in [Requests -> Codes]
    /\ step \in [Requests -> Steps]
    /\ result \in [Requests -> {"none", "ok", "error", "panic"}]
    /\ server \in {"serving", "stopping", "exited"}

\* The handler of r has started its job and has not yet handed it over.
HandlerOwns(r) == pc[r] \in {"submitting", "sending", "failing"}

\* The task of r is buffered in the channel.
Queued(r) == \E i \in DOMAIN queue : queue[i] = r

\* A worker executes the task of r and has not yet marked its job.
WorkerOwns(r, w) == worker[w] = "busy" /\ task[w] = r /\ step[r] # "marked"

\* Somebody will still finish r's job.
Owned(r) == HandlerOwns(r) \/ Queued(r) \/ \E w \in Workers : WorkerOwns(r, w)

\* CompleteCurrentJob and FailCurrentJob name no job: they finish the one in
\* the slot.  Every goroutine that is going to call one of them does so while
\* its own job is in the slot and running, so no call finishes another
\* request's job or finds the slot empty.
OwnJob == \A r \in Requests : Owned(r) => current = r /\ status[r] = "running"

\* "Sequential execution of the jobs": two workers never run system commands
\* at the same time, although the pool has several workers and a backlog.
SequentialExecution ==
    \A v, w \in Workers :
        Executing(v, "processing") /\ Executing(w, "processing") => v = w

\* A job is handed over, never shared: it belongs to its handler, or to one
\* place of the channel, or to one worker, so it is finished once and its
\* command runs once.
OneOwner ==
    /\ \A r \in Requests : HandlerOwns(r) => ~Queued(r) /\ \A w \in Workers : task[w] # r
    /\ \A r \in Requests : Queued(r) => \A w \in Workers : task[w] # r
    /\ \A i, k \in DOMAIN queue : queue[i] = queue[k] => i = k
    /\ \A v, w \in Workers : task[v] = task[w] /\ task[v] # None => v = w

\* A running job is somebody's: a handler, the channel or a worker will finish
\* it.  The one exception is a submission that panicked because the pool was
\* closed under it: its job keeps the slot until the process ends.
NoOrphan ==
    \A r \in Requests : status[r] = "running" => Owned(r) \/ reply[r] = "aborted"

\* The answers tell the truth: 202 only for a task that is in the channel or
\* was taken from it; 409 only when the job of another request was started;
\* 503 only while the service shuts down (the backlog is never full, one job
\* at a time), for a job that is failed and that no worker will ever run; a
\* request that got any other answer never occupied the slot.
AnswersTruthful ==
    \A r \in Requests :
        /\ reply[r] = "202" => r \in ToSet(accepted)
        /\ reply[r] = "409" =>
              /\ status[r] \in {"absent", "pending"}
              /\ \E q \in Requests \ {r} :
                    status[q] \in {"running", "completed", "failed"}
        /\ reply[r] = "503" =>
              shutdown /\ status[r] = "failed" /\ r \notin ToSet(accepted)
        /\ reply[r] \in Verdicts => status[r] = "absent"

\* Every job that occupies the slot finishes (or the process ends), so the
\* service never answers 409 for ever.  It needs commands that end.
JobsFinish ==
    CommandsEnd =>
        \A r \in Requests :
            status[r] = "running" ~> (status[r] \in {"completed", "failed"} \/ ~Alive)

\* After a signal the process ends, also when a command hangs or a handler is
\* still between its check and its send: the pool's shutdown is bounded.
ExitsOnSignal == server = "stopping" ~> server = "exited"

-----------------------------------------------------------------------------
(* What the clients see.                                                   *)

\* How far the job of r is: held by the handler that started it, accepted by
\* the pool, executing from the test of the context on, or finished.
JobOf(r) ==
    IF status[r] \in {"absent", "pending"} THEN "none"
    ELSE IF status[r] # "running" THEN status[r]
    ELSE IF step[r] = "processing" \/ result[r] # "none" THEN "executing"
    ELSE IF submit[r] = "accepted" THEN "accepted"
    ELSE "held"

jobStates == [r \in Requests |-> JobOf(r)]

Client == INSTANCE JobService WITH
    Refusals <- Verdicts \ {"pass"},
    answer <- reply,
    job <- jobStates,
    drained <- (stopper[main] = "drained")

\* The service keeps its promises to the clients: every answer and every step
\* of a job, of the handlers, the pool and the shutdown together, is one that
\* the specification without slot, queue and workers allows.  A job is executed
\* only after it was accepted, completed only after it was executed, and not
\* accepted any more when Pool.Shutdown has returned nil.
ClientRefinement == Client!SafeSpec

-----------------------------------------------------------------------------
(* What a log line of the code says of a completed job and the code does   *)
(* not keep: the subject of a run that violates it.                        *)

\* The log line "Webhook action completed successfully" of a completed job.
CompletedMeansSuccess ==
    \A r \in Requests : status[r] = "completed" => result[r] = "ok"

=============================================================================
