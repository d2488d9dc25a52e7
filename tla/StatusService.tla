--------------------------- MODULE StatusService ---------------------------
(***************************************************************************)
(* The webhook handler that tracks a job per goroutine                     *)
(* (application/handler/webhook_handler_with_status.go), every branch of   *)
(* the action service (domain/service/action_service.go), and the status   *)
(* endpoints of this handler and of the one with the pool                  *)
(* (webhook_handler_pool.go), composed with JobStore.                      *)
(*                                                                         *)
(* All that a status endpoint sees of its handler is the store, so the two *)
(* endpoints are two kinds of query over one store.  A query finds the job *)
(* under the store's lock and then reads its fields: GetStatus holds the   *)
(* job's lock, every other read holds none while SetCompleted or SetFailed *)
(* may be writing.  Such a read returns, field by field, what the query    *)
(* last synchronised with, what is there now, or a mixture of the two      *)
(* words of a string or an interface.                                      *)
(***************************************************************************)
EXTENDS Integers, Sequences, FiniteSets, SequencesExt

CONSTANTS
    Requests,    \* the webhook requests that may arrive, and their jobs
    Queries,     \* the status requests that may arrive
    None,        \* no request or job
    MaxHistory, MaxAge, MaxTime  \* as in JobStore

ASSUME StatusAssumption ==
    /\ None \notin Requests
    /\ MaxHistory \in Nat \ {0}
    /\ MaxAge \in Nat
    /\ MaxTime \in Nat

VARIABLES
    status, startTime, endTime, current, history, now,  \* JobStore
    pc,      \* per request: where its handler is
    seen,    \* per request: the result of GetCurrentJob
    reply,   \* per request: the answer the client got
    action,  \* per request: the action it asks for
    step,    \* per request: where processActionWithStatus is
    reboot,  \* per request: the goroutine of executeReboot
    host,    \* "up", or "down" once a reboot command has succeeded
    query,   \* per query: where its handler is
    kind,    \* per query: which handler serves it, "status" or "pool"
    asked,   \* per query: the job it asks for, None for the current one
    view,    \* per query: the job's fields when it last synchronised
    answer   \* per query: what the client is told

Store == INSTANCE JobStore WITH Jobs <- Requests, NoJob <- None

storeVars == <<status, startTime, endTime, current, history, now>>
handlerVars == <<pc, seen, reply, action>>
jobVars == <<step, reboot, host>>
queryVars == <<query, kind, asked, view, answer>>
vars == <<storeVars, handlerVars, jobVars, queryVars>>

NoFields == [status |-> "absent", ended |-> FALSE, error |-> FALSE]
NoAnswer == [code |-> "none", job |-> None, fields |-> NoFields]

Init ==
    /\ Store!Init
    /\ pc = [r \in Requests |-> "absent"]
    /\ seen = [r \in Requests |-> None]
    /\ reply = [r \in Requests |-> "none"]
    /\ action = [r \in Requests |-> "none"]
    /\ step = [r \in Requests |-> "none"]
    /\ reboot = [r \in Requests |-> "none"]
    /\ host = "up"
    /\ query = [q \in Queries |-> "absent"]
    /\ kind = [q \in Queries |-> "none"]
    /\ asked = [q \in Queries |-> None]
    /\ view = [q \in Queries |-> NoFields]
    /\ answer = [q \in Queries |-> NoAnswer]

-----------------------------------------------------------------------------
(* HandleWebhook.                                                          *)

\* ActionReinit and ActionUpdate both run a command to its end ("command").
Actions == {"command", "reboot"}

At(r, label) == host = "up" /\ pc[r] = label
Goto(r, label) == pc' = [pc EXCEPT ![r] = label] /\ UNCHANGED reply
Reply(r, code) ==
    /\ pc' = [pc EXCEPT ![r] = "done"]
    /\ reply' = [reply EXCEPT ![r] = code]

\* A request arrives: refused for its method, body, age, signature or action
\* (405, 400 or 401, "invalid" here), or a valid action.
Receive(r) ==
    /\ At(r, "absent")
    /\ \/ Reply(r, "invalid") /\ UNCHANGED action
       \/ /\ \E a \in Actions : action' = [action EXCEPT ![r] = a]
          /\ Goto(r, "admitting")
    /\ UNCHANGED <<storeVars, seen, jobVars, queryVars>>

ReadCurrent(r) ==
    /\ At(r, "admitting")
    /\ seen' = [seen EXCEPT ![r] = current]
    /\ Goto(r, "checking")
    /\ UNCHANGED <<storeVars, action, jobVars, queryVars>>

\* IsRunning of the job that was read: 409 with its identifier; or NewJob, and
\* the job that was read is not used again.
CheckRunning(r) ==
    /\ At(r, "checking")
    /\ IF seen[r] # None /\ Store!IsRunning(seen[r])
       THEN Reply(r, "409") /\ UNCHANGED <<storeVars, seen>>
       ELSE /\ Goto(r, "starting")
            /\ Store!NewJob(r)
            /\ seen' = [seen EXCEPT ![r] = None]
    /\ UNCHANGED <<action, jobVars, queryVars>>

\* Bug: the handler relies on its first check and ignores TryStartJob.
TryStartUnchecked(r) ==
    /\ At(r, "starting")
    /\ Store!TryStartJob(r)
    /\ Goto(r, "accepting")
    /\ step' = [step EXCEPT ![r] = "processing"]
    /\ UNCHANGED <<seen, action, reboot, host, queryVars>>

\* TryStartJob and the go statement after it, or 409 without an identifier.
TryStart(r) ==
    /\ At(r, "starting")
    /\ \/ /\ Store!StartJob(r)
          /\ Goto(r, "accepting")
          /\ step' = [step EXCEPT ![r] = "processing"]
       \/ Store!RefuseJob(r) /\ Reply(r, "409") /\ UNCHANGED step
    /\ UNCHANGED <<seen, action, reboot, host, queryVars>>

Accept(r) ==
    /\ At(r, "accepting")
    /\ Reply(r, "202")
    /\ UNCHANGED <<storeVars, seen, action, jobVars, queryVars>>

Handler(r) == ReadCurrent(r) \/ CheckRunning(r) \/ TryStart(r) \/ Accept(r)

-----------------------------------------------------------------------------
(* processActionWithStatus and the action service.                         *)

Processing(r, label) == host = "up" /\ step[r] = label
Move(r, label) == step' = [step EXCEPT ![r] = label]

\* executeCloudInit, executeUpdate: the command ends, well or badly; the error
\* is logged and dropped.
CommandEnds(r) ==
    /\ Processing(r, "processing")
    /\ action[r] = "command"
    /\ Move(r, "completing")
    /\ UNCHANGED <<storeVars, handlerVars, reboot, host, queryVars>>

\* executeReboot: a goroutine sleeps and then reboots; the action returns.
ScheduleReboot(r) ==
    /\ Processing(r, "processing")
    /\ action[r] = "reboot"
    /\ reboot' = [reboot EXCEPT ![r] = "sleeping"]
    /\ Move(r, "completing")
    /\ UNCHANGED <<storeVars, handlerVars, host, queryVars>>

\* Bug: the deferred function recovers and does not mark the job.
ActionPanicsUnmarked(r) ==
    /\ Processing(r, "processing")
    /\ Move(r, "panicked")
    /\ UNCHANGED <<storeVars, handlerVars, reboot, host, queryVars>>

\* ProcessAction panics: the deferred function recovers.
ActionPanics(r) ==
    /\ Processing(r, "processing")
    /\ Move(r, "failing")
    /\ UNCHANGED <<storeVars, handlerVars, reboot, host, queryVars>>

MarkComplete(r) ==
    /\ Processing(r, "completing")
    /\ Store!CompleteCurrentJob
    /\ Move(r, "returned")
    /\ UNCHANGED <<handlerVars, reboot, host, queryVars>>

MarkFailed(r) ==
    /\ Processing(r, "failing")
    /\ Store!FailCurrentJob
    /\ Move(r, "panicked")
    /\ UNCHANGED <<handlerVars, reboot, host, queryVars>>

\* The delay has passed: the host goes down, or the command fails.
Reboot(r) ==
    /\ host = "up" /\ reboot[r] = "sleeping"
    /\ reboot' = [reboot EXCEPT ![r] = "issued"]
    /\ host' \in {"up", "down"}
    /\ UNCHANGED <<storeVars, handlerVars, step, queryVars>>

Action(r) == CommandEnds(r) \/ ScheduleReboot(r) \/ ActionPanics(r)
Mark(r) == MarkComplete(r) \/ MarkFailed(r)

-----------------------------------------------------------------------------
(* HandleJobStatus, of either handler.                                     *)

QueryAt(q, label) == host = "up" /\ query[q] = label
QueryGoto(q, label) == query' = [query EXCEPT ![q] = label]

Respond(q, code, fields) ==
    /\ QueryGoto(q, "done")
    /\ answer' = [answer EXCEPT ![q] =
                    [code |-> code, job |-> asked[q], fields |-> fields]]
    /\ view' = [view EXCEPT ![q] = NoFields]

\* The fields of a job as its memory holds them.
Fields(j) == [status |-> status[j], ended |-> endTime[j] # Store!NoTime,
              error |-> status[j] = "failed"]

Synchronise(q) == view' = [view EXCEPT ![q] = Fields(asked[q])]

\* A query arrives: with the wrong method; without an identifier, which only
\* the status handler refuses; or with one that an answer 202 or 409 gave out
\* (an unknown one is answered 404, and is left out).
ReceiveQuery(q) ==
    /\ QueryAt(q, "absent")
    /\ \E k \in {"status", "pool"} :
          /\ kind' = [kind EXCEPT ![q] = k]
          /\ \/ Respond(q, "invalid", NoFields) /\ UNCHANGED asked
             \/ /\ k = "pool"
                /\ QueryGoto(q, "finding current")
                /\ UNCHANGED <<asked, view, answer>>
             \/ /\ \E r \in Requests : asked' = [asked EXCEPT ![q] =
                      CASE reply[r] = "202" -> r [] reply[r] = "409" -> seen[r] [] OTHER -> None]
                /\ asked'[q] # None
                /\ QueryGoto(q, "finding")
                /\ UNCHANGED <<view, answer>>
    /\ UNCHANGED <<storeVars, handlerVars, jobVars>>

\* Pool handler, no identifier: the current job's, or 404 "no_job".
FindCurrent(q) ==
    /\ QueryAt(q, "finding current")
    /\ IF current = None
       THEN Respond(q, "no job", NoFields) /\ UNCHANGED asked
       ELSE /\ asked' = [asked EXCEPT ![q] = current]
            /\ QueryGoto(q, "finding")
            /\ UNCHANGED <<view, answer>>
    /\ UNCHANGED <<storeVars, handlerVars, jobVars, kind>>

\* GetJob or GetJobByID: 404, or the job.
Find(q) ==
    /\ QueryAt(q, "finding")
    /\ IF Store!GetJob(asked[q]) = None
       THEN Respond(q, "404", NoFields)
       ELSE QueryGoto(q, "reading") /\ Synchronise(q) /\ UNCHANGED answer
    /\ UNCHANGED <<storeVars, handlerVars, jobVars, kind, asked>>

\* Status handler: GetStatus, under the job's lock, for the body.
ReadStatus(q) ==
    /\ QueryAt(q, "reading") /\ kind[q] = "status"
    /\ Synchronise(q)
    /\ answer' = [answer EXCEPT ![q].fields.status = status[asked[q]]]
    /\ QueryGoto(q, "reading end")
    /\ UNCHANGED <<storeVars, handlerVars, jobVars, kind, asked>>

\* Bug: the end time is tested before the status is read.
ReadEndTimeEarly(q) ==
    /\ QueryAt(q, "reading end")
    /\ \E ended \in {FALSE, Fields(asked[q]).ended} :
          answer' = [answer EXCEPT ![q].fields.ended = ended]
    /\ QueryGoto(q, "choosing code")
    /\ UNCHANGED <<storeVars, handlerVars, jobVars, kind, asked, view>>

\* The test of EndTime, without a lock: what was there at GetStatus, or now.
ReadEndTime(q) ==
    /\ QueryAt(q, "reading end")
    /\ \E ended \in {view[q].ended, Fields(asked[q]).ended} :
          answer' = [answer EXCEPT ![q].fields.ended = ended]
    /\ QueryGoto(q, "choosing code")
    /\ UNCHANGED <<storeVars, handlerVars, jobVars, kind, asked, view>>

CodeOf(s) == CASE s = "completed" -> "200" [] s = "failed" -> "500" [] OTHER -> "202"

\* GetStatus again, for the code; Error is then read after that lock.
ChooseCode(q) ==
    /\ QueryAt(q, "choosing code")
    /\ Respond(q, CodeOf(status[asked[q]]),
               [answer[q].fields EXCEPT !.error = Fields(asked[q]).error])
    /\ UNCHANGED <<storeVars, handlerVars, jobVars, kind, asked>>

\* Two words that are written while they are read.
Racy(old, new) == IF old = new THEN {old} ELSE {old, "torn", new}

\* Pool handler: the fields are read without a lock, the status twice; an
\* error with one word of two is dereferenced and panics, and net/http drops
\* the connection.
ReadUnlocked(q) ==
    LET new == Fields(asked[q])
        old == view[q]
    IN  /\ QueryAt(q, "reading") /\ kind[q] = "pool"
        /\ \E first, second \in Racy(old.status, new.status), ended \in {old.ended, new.ended} :
              /\ first = new.status => second = new.status
              /\ first = "torn" => second # old.status
              /\ IF second # "failed"
                 THEN Respond(q, "200", [status |-> first, ended |-> ended, error |-> FALSE])
                 ELSE \/ \E error \in {old.error, new.error} :
                            Respond(q, "200", [status |-> first, ended |-> ended, error |-> error])
                      \/ old.error # new.error /\ Respond(q, "aborted", NoFields)
        /\ UNCHANGED <<storeVars, handlerVars, jobVars, kind, asked>>

QueryStep(q) ==
    \/ FindCurrent(q) \/ Find(q) \/ ReadStatus(q) \/ ReadEndTime(q)
    \/ ChooseCode(q) \/ ReadUnlocked(q)

-----------------------------------------------------------------------------
(* The cleanup goroutine, the clock and the whole.                         *)

Cleanup ==
    /\ host = "up"
    /\ Store!CleanupOldJobs
    /\ UNCHANGED <<handlerVars, jobVars, queryVars>>

Tick ==
    /\ host = "up"
    /\ Store!Tick
    /\ UNCHANGED <<handlerVars, jobVars, queryVars>>

Next ==
    \/ \E r \in Requests :
          Receive(r) \/ Handler(r) \/ Action(r) \/ Mark(r) \/ Reboot(r)
    \/ \E q \in Queries : ReceiveQuery(q) \/ QueryStep(q)
    \/ Cleanup \/ Tick

SafeSpec == Init /\ [][Next]_vars

\* Goroutines that can run are scheduled; nobody has to send a request.
Scheduling ==
    /\ \A r \in Requests : WF_vars(Handler(r)) /\ WF_vars(Mark(r)) /\ WF_vars(Reboot(r))
    /\ \A q \in Queries : WF_vars(QueryStep(q))

\* System commands end: an assumption about the commands.
CommandsEnd == \A r \in Requests : WF_vars(Action(r))

Spec == SafeSpec /\ Scheduling /\ CommandsEnd

-----------------------------------------------------------------------------
(* Properties.                                                             *)

Steps == {"none", "processing", "completing", "failing", "returned", "panicked"}
Active == {"processing", "completing", "failing"}

\* The goroutine of processActionWithStatus that has not yet called Complete-
\* CurrentJob or FailCurrentJob works on the job that is in the slot, so the
\* call finishes its own job; no other goroutine is at work.
OwnJob ==
    \A r \in Requests : step[r] \in Active => current = r /\ status[r] = "running"

\* The three reads of the status handler agree as far as they can: a finished
\* status in the body comes with its end time and with its own code, a failure
\* with its error, and an end time never with the code of a running job.  (A
\* body that still says running may come with the code of the outcome.)
AnswerConsistent ==
    \A q \in Queries : LET a == answer[q] IN
        kind[q] = "status" /\ query[q] = "done" /\ a.job # None /\ a.code # "404" =>
            /\ a.fields.status \in Store!Finished =>
                  a.fields.ended /\ a.code = CodeOf(a.fields.status)
            /\ a.fields.error <=> a.code = "500"
            /\ a.fields.ended => a.code # "202"

\* What a client is told of a finished job is how the job's own goroutine
\* ended: completed if the action returned, failed if it panicked; an end
\* time or an error is never shown for a job that still runs.  This holds for
\* the reads without a lock too.
ToldTruth ==
    \A q \in Queries : LET a == answer[q] IN
        query[q] = "done" /\ a.job # None =>
            /\ a.fields.status = "completed" => step[a.job] = "returned"
            /\ a.fields.status = "failed" \/ a.fields.error => step[a.job] = "panicked"
            /\ a.fields.ended => step[a.job] \in {"returned", "panicked"}

\* A client that holds an identifier is told "not found" only for a job that has
\* finished, and that the cleanup dropped for its age or MaxHistory others that
\* finished after it displaced, also when its query races with the job's move
\* from the slot to the history: never for a job that still runs, however old.
NotFoundTruth ==
    \A q \in Queries : LET j == answer[q].job IN
        answer[q].code = "404" =>
            /\ status[j] \in Store!Finished
            /\ \/ startTime[j] + MaxAge <= now
               \/ MaxHistory <= Cardinality(Store!Later(j))

\* An accepted job does not stay running, so that a client that polls for it is
\* told an outcome at last, and the reboot that a completed reboot job promised
\* is issued; or the host goes down first, perhaps by another job's reboot.
AcceptedSettles ==
    \A r \in Requests :
        reply[r] = "202" ~>
            \/ host = "down"
            \/ /\ status[r] \in Store!Finished
               /\ action[r] = "reboot" /\ step[r] = "returned" => reboot[r] = "issued"

-----------------------------------------------------------------------------
(* What the clients see.                                                   *)

\* A job is executed as soon as it has the slot: nothing is queued.
JobOf(r) ==
    IF status[r] \in {"absent", "pending"} THEN "none"
    ELSE IF status[r] = "running" THEN "executing"
    ELSE status[r]

jobStates == [r \in Requests |-> JobOf(r)]

Client == INSTANCE JobService WITH
    Refusals <- {"invalid"},
    answer <- reply,
    job <- jobStates,
    drained <- FALSE

=============================================================================
