----------------------------- MODULE WorkerPool -----------------------------
(***************************************************************************)
(* The worker pool (infrastructure/worker/pool.go).                        *)
(*                                                                         *)
(* Workers take tasks from a buffered channel.  Submit and SubmitWait read *)
(* the shutdown flag under a read lock, release it, and only then send on  *)
(* the channel; Shutdown sets the flag under the lock, releases it, and    *)
(* only then closes the channel.  So a submission has two steps and a      *)
(* shutdown three, and the steps of different goroutines interleave.       *)
(*                                                                         *)
(* A send on a closed channel panics in Go: the outcome "panic" of a       *)
(* submission.  When several cases of a select are ready Go picks one at   *)
(* random: each is an action of its own.                                   *)
(***************************************************************************)
EXTENDS Integers, Sequences, FiniteSets, SequencesExt

CONSTANTS
    Tasks,      \* the tasks that callers may submit, each once
    NoTask,     \* no task
    Workers,    \* the worker goroutines started by NewPool
    MaxBacklog, \* the channel's buffer (100 unless the caller says otherwise)
    Stoppers    \* the goroutines that call Shutdown

ASSUME NoTaskAssumption == NoTask \notin Tasks
ASSUME PoolAssumption ==
    /\ IsFiniteSet(Workers) /\ Workers # {}
    /\ MaxBacklog \in Nat \ {0}

VARIABLES
    shutdown,   \* Pool.shutdown, guarded by Pool.mu
    closed,     \* whether the channel is closed
    cancelled,  \* whether Pool.ctx is cancelled
    queue,      \* the channel's buffer
    worker,     \* per worker: waiting in its select, executing, or returned
    task,       \* per worker: the task it executes
    submit,     \* per task: how far its submission is, or what it returned
    stopper,    \* per caller of Shutdown: how far the call is
    accepted,   \* history: the tasks sent on the channel, in order
    started,    \* history: the tasks taken from it, in order
    done        \* history: the tasks whose execution has ended

poolVars == <<shutdown, closed, cancelled, queue, worker, task, submit,
              stopper, accepted, started, done>>

Init ==
    /\ shutdown = FALSE /\ closed = FALSE /\ cancelled = FALSE
    /\ queue = <<>>
    /\ worker = [w \in Workers |-> "idle"]
    /\ task = [w \in Workers |-> NoTask]
    /\ submit = [t \in Tasks |-> "new"]
    /\ stopper = [c \in Stoppers |-> "ready"]
    /\ accepted = <<>> /\ started = <<>> /\ done = {}

-----------------------------------------------------------------------------
(* Submit and SubmitWait.                                                  *)

\* The check of the flag under the read lock, common to both.
CheckOpen(t, next) ==
    /\ submit[t] = "new"
    /\ submit' = [submit EXCEPT ![t] = IF shutdown THEN "rejected" ELSE next]
    /\ UNCHANGED <<shutdown, closed, cancelled, queue, worker, task, stopper,
                   accepted, started, done>>

SubmitCheck(t) == CheckOpen(t, "sending")
SubmitWaitCheck(t) == CheckOpen(t, "waiting")

\* The send case of either select: the channel is open and has room.
Send(t) ==
    /\ ~closed
    /\ Len(queue) < MaxBacklog
    /\ queue' = Append(queue, t)
    /\ accepted' = Append(accepted, t)
    /\ submit' = [submit EXCEPT ![t] = "accepted"]
    /\ UNCHANGED <<shutdown, closed, cancelled, worker, task, stopper,
                   started, done>>

\* A submission that ends without a task in the channel.
GiveUp(t, result) ==
    /\ submit' = [submit EXCEPT ![t] = result]
    /\ UNCHANGED <<shutdown, closed, cancelled, queue, worker, task, stopper,
                   accepted, started, done>>

SubmitSend(t) ==
    /\ submit[t] = "sending"
    /\ \/ Send(t)
       \/ ~closed /\ Len(queue) >= MaxBacklog /\ GiveUp(t, "full")
       \/ closed /\ GiveUp(t, "panic")

\* The context of SubmitWait expires after the caller's timeout, or is
\* cancelled with the pool's.
SubmitWaitSend(t) ==
    /\ submit[t] = "waiting"
    /\ \/ Send(t)
       \/ GiveUp(t, "timeout")
       \/ closed /\ GiveUp(t, "panic")

-----------------------------------------------------------------------------
(* worker.                                                                 *)

\* Bug: the newest task is taken.
WorkerTakeNewest(w) ==
    /\ worker[w] = "idle"
    /\ queue # <<>>
    /\ queue' = Front(queue)
    /\ task' = [task EXCEPT ![w] = Last(queue)]
    /\ worker' = [worker EXCEPT ![w] = "busy"]
    /\ started' = Append(started, Last(queue))
    /\ UNCHANGED <<shutdown, closed, cancelled, submit, stopper, accepted, done>>

\* A receive takes the oldest task, also from a closed channel.
WorkerTake(w) ==
    /\ worker[w] = "idle"
    /\ queue # <<>>
    /\ queue' = Tail(queue)
    /\ task' = [task EXCEPT ![w] = Head(queue)]
    /\ worker' = [worker EXCEPT ![w] = "busy"]
    /\ started' = Append(started, Head(queue))
    /\ UNCHANGED <<shutdown, closed, cancelled, submit, stopper, accepted, done>>

\* Bug: a worker leaves as soon as the channel is closed.
WorkerExitEarly(w) ==
    /\ worker[w] = "idle"
    /\ closed \/ cancelled
    /\ worker' = [worker EXCEPT ![w] = "exited"]
    /\ UNCHANGED <<shutdown, closed, cancelled, queue, task, submit, stopper,
                   accepted, started, done>>

\* Bug: a worker does not look at the second result of its receive.
WorkerExitOnCancelOnly(w) ==
    /\ worker[w] = "idle"
    /\ cancelled
    /\ worker' = [worker EXCEPT ![w] = "exited"]
    /\ UNCHANGED <<shutdown, closed, cancelled, queue, task, submit, stopper,
                   accepted, started, done>>

\* The goroutine returns: the channel is closed and drained, or the pool's
\* context is cancelled (whether or not tasks are left).
WorkerExit(w) ==
    /\ worker[w] = "idle"
    /\ (closed /\ queue = <<>>) \/ cancelled
    /\ worker' = [worker EXCEPT ![w] = "exited"]
    /\ UNCHANGED <<shutdown, closed, cancelled, queue, task, submit, stopper,
                   accepted, started, done>>

\* The task's function ends and the worker is in the state next.
TaskEnd(w, next) ==
    /\ worker[w] = "busy"
    /\ worker' = [worker EXCEPT ![w] = next]
    /\ task' = [task EXCEPT ![w] = NoTask]
    /\ done' = done \cup {task[w]}
    /\ UNCHANGED <<shutdown, closed, cancelled, queue, submit, stopper,
                   accepted, started>>

TaskReturn(w) == TaskEnd(w, "idle")

\* Bug: without recover the panic ends the worker.
TaskPanicUnrecovered(w) == TaskEnd(w, "exited")

\* The task panics; the deferred recover keeps the worker in its loop.
TaskPanic(w) == TaskEnd(w, "idle")

-----------------------------------------------------------------------------
(* Shutdown.                                                               *)

\* Bug: the flag is set without being tested.
ShutdownMarkUntested(c) ==
    /\ stopper[c] = "ready"
    /\ stopper' = [stopper EXCEPT ![c] = "marked"]
    /\ shutdown' = TRUE
    /\ UNCHANGED <<closed, cancelled, queue, worker, task, submit, accepted,
                   started, done>>

\* Under the lock: only the first caller goes on, the others return nil.
ShutdownMark(c) ==
    /\ stopper[c] = "ready"
    /\ stopper' = [stopper EXCEPT ![c] = IF shutdown THEN "already" ELSE "marked"]
    /\ shutdown' = TRUE
    /\ UNCHANGED <<closed, cancelled, queue, worker, task, submit, accepted,
                   started, done>>

\* After the unlock: close(p.tasks).
ShutdownClose(c) ==
    /\ stopper[c] = "marked"
    /\ stopper' = [stopper EXCEPT ![c] = "waiting"]
    /\ closed' = TRUE
    /\ UNCHANGED <<shutdown, cancelled, queue, worker, task, submit, accepted,
                   started, done>>

\* wg.Wait returned: every worker goroutine has returned.
ShutdownDrained(c) ==
    /\ stopper[c] = "waiting"
    /\ \A w \in Workers : worker[w] = "exited"
    /\ stopper' = [stopper EXCEPT ![c] = "drained"]
    /\ UNCHANGED <<shutdown, closed, cancelled, queue, worker, task, submit,
                   accepted, started, done>>

\* The timeout fires first: the context is cancelled, ErrShutdownTimeout.
ShutdownTimeout(c) ==
    /\ stopper[c] = "waiting"
    /\ stopper' = [stopper EXCEPT ![c] = "timedout"]
    /\ cancelled' = TRUE
    /\ UNCHANGED <<shutdown, closed, queue, worker, task, submit, accepted,
                   started, done>>

-----------------------------------------------------------------------------

Submission(t) ==
    SubmitCheck(t) \/ SubmitSend(t) \/ SubmitWaitCheck(t) \/ SubmitWaitSend(t)

WorkerStep(w) == WorkerTake(w) \/ WorkerExit(w) \/ TaskReturn(w) \/ TaskPanic(w)

Shutdown(c) ==
    ShutdownMark(c) \/ ShutdownClose(c) \/ ShutdownDrained(c) \/ ShutdownTimeout(c)

\* Everybody has returned.  A program may stop here; the step is a stutter.
AllReturned ==
    /\ \A t \in Tasks : submit[t] \notin {"new", "sending", "waiting"}
    /\ \A w \in Workers : worker[w] = "exited"
    /\ \A c \in Stoppers : stopper[c] \in {"already", "drained", "timedout"}

Terminated == AllReturned /\ UNCHANGED poolVars

Next ==
    \/ \E t \in Tasks : Submission(t)
    \/ \E w \in Workers : WorkerStep(w)
    \/ \E c \in Stoppers : Shutdown(c)
    \/ Terminated

SafeSpec == Init /\ [][Next]_poolVars

\* Goroutines that can run are scheduled and a task's function ends; nobody is
\* obliged to begin a submission or a shutdown, and no timer needs to fire.
Fairness ==
    /\ \A t \in Tasks : WF_poolVars(SubmitSend(t) \/ SubmitWaitSend(t))
    /\ \A w \in Workers : WF_poolVars(WorkerStep(w))
    /\ \A c \in Stoppers :
          WF_poolVars(ShutdownClose(c)) /\ WF_poolVars(ShutdownDrained(c))

Spec == SafeSpec /\ Fairness

-----------------------------------------------------------------------------
(* Properties.                                                             *)

SubmitState == {"new", "sending", "waiting", "accepted", "rejected", "full",
                "timeout", "panic"}
StopperState == {"ready", "marked", "waiting", "already", "drained", "timedout"}

\* Type invariant: a worker holds a task exactly while it executes one, and
\* the channel holds tasks.
TypeOK ==
    /\ {shutdown, closed, cancelled} \subseteq BOOLEAN
    /\ queue \in Seq(Tasks)
    /\ worker \in [Workers -> {"idle", "busy", "exited"}]
    /\ task \in [Workers -> Tasks \cup {NoTask}]
    /\ \A w \in Workers : worker[w] = "busy" <=> task[w] \in Tasks
    /\ submit \in [Tasks -> SubmitState]
    /\ stopper \in [Stoppers -> StopperState]
    /\ accepted \in Seq(Tasks)
    /\ started \in Seq(Tasks)
    /\ done \subseteq Tasks

Executing == {task[w] : w \in {v \in Workers : worker[v] = "busy"}}

\* No accepted task is lost, duplicated or overtaken: what was sent on the
\* channel is what the workers took, in that order, followed by what is still
\* buffered; a task is in it once, and it is in it exactly when its submission
\* returned nil.
InOrderOnce ==
    /\ accepted = started \o queue
    /\ Cardinality(ToSet(accepted)) = Len(accepted)
    /\ ToSet(accepted) = {t \in Tasks : submit[t] = "accepted"}

\* Shutdown that returns nil after waiting was graceful: every task whose
\* submission succeeded, also one that raced with the shutdown, has been
\* executed to its end, and none can be accepted any more.
GracefulShutdown ==
    (\E c \in Stoppers : stopper[c] = "drained") =>
        /\ closed
        /\ queue = <<>>
        /\ done = ToSet(accepted)

\* The channel is closed at most once, however many goroutines call Shutdown:
\* a second close would panic.
ClosedOnce ==
    /\ \A c \in Stoppers : stopper[c] = "marked" => ~closed
    /\ \A c, d \in Stoppers : stopper[c] = "marked" /\ stopper[d] = "marked" => c = d

\* After the channel is closed the workers leave, without the help of the
\* shutdown's timeout: no goroutine is leaked, neither one that was executing
\* nor one that was waiting.
WorkersLeave == closed ~> \A w \in Workers : worker[w] = "exited"

\* The pool implements the abstract queue, its liveness included: tasks start
\* in the order of acceptance, at most one per worker at a time and at most
\* MaxBacklog pending; panicking tasks cost no worker; an accepted task is
\* executed unless a shutdown timed out.
Queue == INSTANCE TaskQueue WITH
    Capacity <- MaxBacklog,
    Executors <- Cardinality(Workers),
    pending <- queue,
    running <- Executing,
    finished <- done,
    open <- ~closed,
    abandoned <- cancelled

Refinement == Queue!Spec

\* The pool's tests expect of a submission after Shutdown that it returns an
\* error; so a submission should never end in a panic of the caller.
SubmitReturns == \A t \in Tasks : submit[t] # "panic"

=============================================================================
