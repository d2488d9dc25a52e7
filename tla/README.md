# cloud-update: TLA+ models, checks and proofs

cloud-update is a service in Go that receives signed webhooks and runs system
commands (cloud-init, update, reboot), one job at a time, in the background.
This directory models it, checks the models with TLC on small instances and
proves the properties that matter most with TLAPS for instances of any size.
Paths below are relative to the repository's `src/internal` unless they say
otherwise.

## 1. Inventory

| Part | State | Operations | Interacts with | What is hard | What makes it correct |
|---|---|---|---|---|---|
| Job store and entity (`infrastructure/store`, `domain/entity`) | the slot of the running job, the bounded history, each job's status and times | `NewJob`, `TryStartJob`, `CompleteCurrentJob`, `FailCurrentJob`, `GetJob`, `CleanupOldJobs` | called by request goroutines, workers and the cleanup goroutine | the finishing calls name no job; limit and age of the history | one running job; outcomes final; nothing lost before its time |
| Worker pool (`infrastructure/worker`) | channel, shutdown flag, context, workers | `Submit`, `SubmitWait`, `worker`, `Shutdown` | runs the handler's tasks; stopped by `main` | flag checked under a lock, channel used after it; random `select`; panics; timeouts | a bounded FIFO queue; graceful shutdown |
| Webhook handler (`application/handler/webhook_handler_pool.go`) | none of its own | `HandleWebhook`, `processActionWithContext`, `HandleJobStatus`, `Cleanup` | store, pool, action service, limiter | check-then-act on the store, hand-over of a job to a worker, failed submissions, reads without a lock | every job finished once, by its owner; truthful answers |
| Handler with status (`webhook_handler_with_status.go`) | none of its own | the same four, with a goroutine per job | store, action service; not wired by `main` | three reads of a job that is being finished; a panic in the goroutine | as above; answers that agree with themselves |
| Action service (`domain/service`) | none | `ProcessAction` | executors | drops errors; the reboot outlives its job | a job's status tells how its command ended |
| Executors (`infrastructure/system`) | detected wrapper | `RunCloudInit`, `Reboot`, `UpdateSystem` of three executors | action service, the host's tools | deadlines that kill only the direct child, exit codes, order of detection | nil means done; nothing left running |
| Rate limiter (`infrastructure/ratelimit`) | map of buckets, map of last-seen times | `Allow`, `evictOldest`, `cleanup`, middleware | in front of every route | two critical sections per call; two maps that must agree; a limit | bounded memory, one bucket per client |
| Logger (`infrastructure/logger/logger.go`) | instance, file, stop channel, monitor goroutine | `Initialize`, logging, `rotateLog`, `Close` | everything logs; closed by `main` | rotation and close against writers, file operations that fail | no line lost but in a rotation's gap; newest backups kept; `Close` returns |
| Slog logger (`slog_logger.go`) | instance, file, time of the last check | the same, rotation by whoever logs | not wired by `main` | check-then-store, size read outside the lock | rotation keeps the lines |
| Process (`src/cmd/cloud-update/main.go`), configuration, TLS | server, signal goroutine, deferred calls; files read three times | start, serve, stop | everything | who waits for whom; signals and renewals at any moment | serves as configured; ends after a signal |
| Installer (`setup`) | files, enablement and configuration of the host | `Setup`, `Uninstall` | init system, file system, operator | failures and kills between steps, runs repeated on what an earlier one left | repeated runs converge, keep the secret and report the truth |
| Authentication, job ids, health, console, version | none that changes | pure or output | | | |

`PROJECT.json` lists the same parts with the modules that model them, and the
hazards, each at its line with the properties that would catch it.

## 2. Modules

| Module | Models | State and actions against the code |
|---|---|---|
| `JobStore` | `job_store.go`, `job.go` | One action per method, because each holds the mutex to its end. A job is both the pointer and the identifier. |
| `TaskQueue` | nothing: what the pool promises | A bounded FIFO queue served by a fixed number of executors, which may be closed and abandoned. |
| `JobService` | nothing: what clients are promised | Jobs that are taken, accepted, executed and finished, one at a time, and the answers that go with each; no slot, no queue, no workers. `Promise` is what a client may conclude from an answer. |
| `WorkerPool` | `pool.go` | `Submit` and `SubmitWait` are a check (under the lock) and a send; `Shutdown` is mark, close, then drained or timed out; a worker takes, ends (by return or panic) or leaves. `accepted`, `started` and `done` are history variables. |
| `WebhookService` | `webhook_handler_pool.go`, `action_service.go`, `main.go` | Instantiates `JobStore` and `WorkerPool`; the handler of a request and the task of a worker are sequences of labels, cut where another goroutine can come between. |
| `StatusService` | `webhook_handler_with_status.go`, the reboot of `action_service.go`, both `HandleJobStatus` | Instantiates `JobStore`. A query finds its job under the store's lock and then reads its fields; a read without the job's lock returns what the query last synchronised with, what is there now, or, for a string or an interface, a mixture of their two words. |
| `Executors` | `executor.go`, `executor_secure.go`, `executor_timeout.go` | A behaviour is one call on one host: a plan of commands, each a wrapper, a tool and perhaps helpers that hold the output pipe; `CombinedOutput` returns when all have closed it. |
| `RateLimiter` | `limiter.go` | `Allow` is a lookup, then touch and take (fast path) or reuse/create (slow path). `races` is a history variable that counts touches of a client that had just been removed. |
| `Logger` | `logger.go` | A rotation is close, rename and reopen, remove backups; `Close` is stop, redirect, close; a line can be logged between any two of these, because logging takes only logrus's lock. `lost` and `removed` are history variables. |
| `SlogLogger` | `slog_logger.go` | A logging call is load, store, stat, lock, rotate, get the instance, write; backups are named by the second. |
| `Startup` | `main.go`, `config.go`, `tls.go`, `NewHMACAuthenticator` | The steps of `main`, its signal goroutine and its deferred calls; files carry versions, and a renewal writes the certificate, then the key. Handlers and the pool's tasks are whether there are any; `Shutdown` of the pool is closing, then drained or timed out. `floor` is a history variable. |
| `Installer` | `setup/setup.go` | One action per step of `Setup` and `Uninstall`; every step may fail, writes may leave a truncated file, and a run may be interrupted between steps. `warned` is what an uninstall has warned of; the sysvinit script stops nothing when its binary is gone. |
| `SeqFilter` | the copying loops of `CleanupOldJobs` and `cleanOldBackups` | `Keep(s, S)`: the elements of `s` that are in `S`, as the loop builds them. |
| `*Proofs`, `QueueLemmas` | | Theorems about the modules they extend or instantiate; the lemmas about sequences and induction that they share. `HostProofs` has those of the parts that act on the host: `Installer`, `Executors`, `Startup`, `SlogLogger`. |
| `MC*` | | Instances for TLC: symmetry sets, init systems and hosts. |

`WebhookService` composes store, pool, handler, commands and process;
`StatusService` composes the same store with the other handler and with the
readers of both. Both implement `JobService`, the first with a queue between
acceptance and execution, the second without: each instantiates it as `Client`,
with the answers its handlers give and `jobStates`, which reads off the store, the
handlers and the workers how far each job is. The other parts meet the service through a narrow interface
and are modelled by themselves: to `WebhookService` a command ends well, badly
or never, which is what `Executors` refines; to `Startup` the pool takes
tasks, is closed by `Shutdown`, and is then drained or, when that times out,
given up with tasks unfinished, which is what `ShutdownClose`, `ShutdownDrained` and
`ShutdownTimeout` of `WorkerPool` are in detail.

Operators with a comment that begins with "Bug:" are mutated forms of the
definition that follows them. No action uses them; replacing the definition by
one of them must violate the property that `PROJECT.json` names, which shows
that the property depends on that part of the code.

What the models leave out: identifiers are distinct; signatures, timestamps and
bodies are verdicts; log lines are numbers, and their levels and formats are
left out. The token bucket of `golang.org/x/time/rate`, the clock, the file
system, the init systems, the package managers, sudo and its kin, and
net/http's recovery from panics are external and modelled from their use.

## 3. Runs

### Passing

| Run | Instance | Shows |
|---|---|---|
| `job_store` | 4 jobs, history 2, age 2, clock 0..3 | `OneRunning`, `HistoryOK`, `Retained`, `FinishedForever`. Four jobs overflow the history twice; the clock passes the age limit. |
| `worker_pool` | 3 tasks, 2 workers, backlog 2, 2 callers of `Shutdown` | `InOrderOnce`, `GracefulShutdown`, `ClosedOnce`, `WorkersLeave` and `Refinement` (the pool implements `TaskQueue`, liveness included). The backlog can be full, both workers busy, and submissions race with two shutdowns. |
| `webhook_service` | 2 requests, 2 workers, backlog 1, history 1, clock 0..1 | `ClientRefinement` (the service implements `JobService`), `OwnJob`, `OneOwner`, `SequentialExecution`, `NoOrphan`, `AnswersTruthful`; `JobsFinish`, if commands end, and `ExitsOnSignal`, also if they hang. One request runs while the other is refused, or starts when the first has finished and its owner has not returned yet. The theorems of section 4 cover the safety properties for any number of requests and workers. |
| `status_service` | 2 requests, 1 query of either kind, history 1, age 1, clock 0..1 | `OwnJob`, `AnswerConsistent`, `ToldTruth`, `NotFoundTruth`, `AcceptedSettles`. The second job displaces the first from the history while the query looks for it, and the first job's reboot can come while the second runs. Queries do not disturb each other, so one is enough. |
| `rate_limiter` | 3 clients, 2 calls at a time, limit 2, 4 buckets, clock 0..2 | `NoLeak`, `BoundedOverrun`, `NeverReplaced`. More clients than places, so evictions happen, and the clock passes the age limit. |
| `installer` | all init systems, 2 faults, 2 secrets | `SuccessInstalls`, `UninstallClean`, `SecretKept`, `SetupEventuallySucceeds`, with setup, start and uninstall in any order. |
| `logger` | files of 1 line, 1 backup, 7 lines, 4 files, 2 faults | `OutputLive`, `BackupsKept`, `LostOnlyInRotation`, `CloseReturns`. Three rotations: one fills the backups, one overflows them, one follows a failed rename, open or removal; `Close` and a new `Initialize` at any point. |
| `executors` | every method of 3 executors on 12 hosts | `NothingLeftBehind`, `NilMeansDone`, `ToolPresent`, `CallReturns`. The hosts are current and old members of each family, with and without a wrapper, one unsupported, one whose os-release cannot be read. |
| `startup` | 3 versions of the pair, 2 signals, every configuration | `ServedAsConfigured`, `OrderlyEnd`, `SignalEnds`. Requests come while it serves and tasks need not end, so that the pool's shutdown is drained in some behaviours and times out in others. Two renewals fall before, between and after the three reads; the second signal finds the channel's one place full. |

Symmetry is used in `job_store` and `rate_limiter`, whose properties are safety
properties.

Some properties state the exceptions the code makes, so that what remains is
checked. `AnswerConsistent` allows a body that says "running" with the code of
the outcome, because the status is read twice. `NilMeansDone` allows the failed
clean before cloud-init, which the code calls non-fatal, and the failed refresh
of apt-get described below. `ServedAsConfigured` allows plain HTTP where automatic
certificates were asked for, also described below. `OrderlyEnd` allows the logger
to be closed while workers are alive when `Pool.Shutdown` has timed out, which
`main` only logs (`main.go:88-92`, `pool.go:151-155`). `ToolPresent` leaves out the secure executor, which
runs `dnf` on hosts that have only `yum`. `CallReturns` allows a call that waits
for processes that no deadline reaches. `NothingLeftBehind` is about the
processes that hold a command's output pipe, and holds because `CombinedOutput`
waits for those; a daemon that has closed the pipe is not counted.
`SetupEventuallySucceeds` excepts a service that runs on, whose binary setup
cannot replace, and `UninstallClean` a failed stop of the service.

### Disagreements between the code and what the repository says

Each of these runs checks one statement of the repository and TLC finds a
behaviour of the code that breaks it; `PROJECT.json` quotes the statements.

| Run | Statement | What happens |
|---|---|---|
| `submit_panics` | a submission after `Shutdown` returns an error | flag read, then the channel is closed, then the send panics |
| `completed_means_success` | "Webhook action completed successfully" | `executeUpdate` drops the error, the job is completed |
| `slog_rotation` | one check per second; rotated lines are in a backup | two writers pass the check together and rotate twice in a second; the second rename puts an empty file in the place of the backup. `RotationTheorem` (section 4) shows that nothing else loses lines of a file. |

Others are visible in the models without a run of their own:

- "Graceful shutdown" (`main.go:154`): `main` does not wait for `server.Shutdown`,
  so `Exit` of `WebhookService` can come while a handler runs. Nor do the
  deferred calls run when a signal comes before `signal.Notify`, which its
  goroutine may reach after the server has begun to serve (`Signal` of `Startup`).
- "Execute task with timeout" (`pool.go:70`): the command does not get the
  context, and a hanging one keeps its worker and the slot.
- "Maximum number of limiters" (`limiter.go:25`): a touch that races with an
  eviction makes a later eviction free nothing; `BoundedOverrun` says by how much
  the map outgrows its limit.
- "Setup completed successfully!" (`setup.go:100`): a `config.env` that a failed
  run left truncated is kept (`SuccessInstalls` asks only that there is one).
- "Starting without TLS (HTTP only)" (`main.go:116`): after that line the
  process ends, because `GetTLSConfig` fails on the same files, unless they
  appear in between.
- "Use automatic certificate management (Let's Encrypt)" (`tls.go:16`) and
  "Enable automatic certificates with" (`tls.go:147`): with `CLOUD_UPDATE_TLS_AUTO`
  `main` logs that it starts with "(HTTPS)" (`main.go:121-126`), later that this is
  "not yet implemented" (`main.go:173`), and serves plain HTTP (`Serve` of
  `Startup`).
- "This shouldn't happen" (`webhook_handler_with_status.go:122`): it does, when
  two requests both find the slot empty (`TryStart` of `StatusService`).
- Exit code 100 "means updates available" (`executor_timeout.go:93`): for
  apt-get it means an error, and the upgrade goes on with old package lists.
- `RebootWithDelay` passes whole minutes, so a delay below a minute reboots at
  once (`executor_timeout.go:155`).
- "preserve current level" (`slog_logger.go:160`): a rotation sets the level to
  info; `MaxBackups` is not used; a call after `CloseSlog` dereferences nil
  (`GetInstance` of `SlogLogger`).
- A reboot job is completed before its reboot, which may cut off the next job
  (`AcceptedSettles` of `StatusService` allows it).
- `TestConcurrentWebhooks` (`src/test/e2e/e2e_test.go:294`) expects ten concurrent
  webhooks to succeed, of which `CheckRunning` and `TryStart` may refuse all but
  one with 409.
- The OpenRC script passes `CLOUD_UPDATE_CONFIG_PATH`, which no code reads, so
  that the service cannot start after a successful setup (`SecretReaches`); and
  `Uninstall`, unlike `Setup`, does not ask for root, and reports completion when
  every step was refused (`Warned`).

### Fairness

- `WorkerPool!Fairness`: a goroutine that can run is scheduled (Go's scheduler),
  and a task's function ends. Nobody has to submit or to shut down, and the
  shutdown's timer need not fire.
- `WebhookService!Scheduling`: the same for handlers, workers and `main`,
  whose 30-second timer fires. `CommandsEnd` is not part of it, because the wired
  executor runs commands without a deadline: it is a premise of `JobsFinish`, and
  `ExitsOnSignal` does without it.
- `StatusService!Scheduling` likewise, with the reboot's timer; `CommandsEnd` is
  an assumption about the commands, without which an accepted job need not settle.
- `Logger!Spec`: the monitor and `Close` are scheduled; `MonitorLeave` is strongly
  fair, because Go's `select` chooses at random and so does not for ever prefer
  the ticker to a closed channel. Nobody has to log or to call `Close`.
- `Executors!CallSpec`: the executor runs and its timers fire. No process is obliged
  to end.
- `Startup!ProcessSpec`: `main` and its goroutine run, and the timer of
  `Pool.Shutdown` fires. Nobody has to send a signal or a request or to renew
  anything, and a task need not end.
- `Installer!RetrySpec`: the operator runs setup as root again and again (strong
  fairness, because he may uninstall in between) and a step ends; faults are
  finitely many, by `MaxFaults`.

### Bounds

`MaxTime`, `MaxBuckets`, `MaxFaults`, `MaxSecrets`, `MaxLines`, `MaxFiles`,
`MaxVersion` and `MaxSignals` exist for the model only and are named in the
guards that use them. `MaxHistory`, `MaxAge`, `MaxBacklog`, `MaxSize`,
`MaxBackups`, `TTL`, `Burst`, `Limit` and the number of workers are parameters of
the code, given small values so that their limits are reached. Deadlock is not
checked where the bounds or the system let everything stop: the logger, the slog
logger and the status service, whose host may go down.

## 4. Proofs

Every safety property of the passing runs is proved, for every number of jobs,
tasks, requests, workers, callers, queries, clients, files, faults, renewals and
signals; `ToolPresent` under an assumption about the hosts. `SafeSpec` is the specification without its
fairness; where there is no `SafeSpec` the theorem is about `Spec`.

| Theorem | Property | Inductive invariant and argument |
|---|---|---|
| `JobStoreProofs!OneRunningTheorem`, `FinishedForeverTheorem` | `OneRunning`, `FinishedForever` | `SlotInv`: the types of the slot and the statuses. `TryStartJob` starts a job only when the slot's job is not running, which with the invariant means that the slot is empty. The job that is finished is running, so it has not finished before; the job that is started is pending. |
| `JobStoreProofs!StoreTypeTheorem`, `HistoryTheorem`, `RetainedTheorem` | `TypeOK`, `HistoryOK`, `Retained` | `StoreInv` adds: the history is a sequence of distinct finished jobs sorted by their end times (`HistoryInv`); what is known of the times of each job (`Times`); and that a finished job is in the history, too old, or displaced by jobs that have finished too (`FinishedKept`). A running job is found because it is the one in the slot. The trim drops the head, which ended before all that stay; the cleanup drops only jobs that are too old, which they remain. |
| `WorkerPoolProofs!ClosedOnceTheorem` | `ClosedOnce` | `CloseInv` adds `FlagFirst`: the flag is set before the channel is closed and by whoever is going to close it, so a second caller finds it set. |
| `WorkerPoolProofs!PoolTypeTheorem`, `InOrderOnceTheorem` | `TypeOK`, `InOrderOnce` | `OrderInv`: a send appends to what was accepted and to the buffer, a receive moves the boundary between what was started and what is buffered; a task is accepted when its submission says so, and once. |
| `WorkerPoolProofs!GracefulShutdownTheorem` | `GracefulShutdown` | `PoolInv` adds that one caller only goes past the flag (`OneOwner`), so that the one who saw the workers leave did not cancel them; that a worker leaves a pool that is not cancelled only when the channel is closed and empty (`LeaveEmpty`); and that what was taken is being executed or done (`Taken`). |
| `WorkerPoolProofs!RefinementTheorem` | `SafeSpec => Queue!SafeSpec` | The initial states are mapped to initial states of `TaskQueue`, and each action of the pool to one of its actions or to a stuttering step. |
| `WebhookServiceProofs!OwnJobTheorem`, `OneOwnerTheorem`, `SequentialExecutionTheorem` | of the same names | `ServiceInv`: the types; what the label of a request says about its status and its submission; that what is in the pool was accepted; `OneOwner`; `OwnJob`. `OwnJob` alone is not inductive: a worker that takes a task must know that no second worker and no handler has it (`OneOwner`), and a handler that starts a job must know that no running job is left in the slot. `SequentialExecution` follows, because two executing workers would own the same current job. |
| `WebhookServiceProofs!NoOrphanTheorem` | `NoOrphan` | `OrphanInv`, on top of `ServiceInv`: every step that takes a running job from one owner gives it to another or finishes it; the exception is a submission that panics on the closed channel. |
| `WebhookServiceProofs!ServiceTypeTheorem`, `AnswersTruthfulTheorem` | `TypeOK`, `AnswersTruthful` | `WholeInv` adds the invariants of the parts (`PartsInv`: the store's and the pool's), and what the result of a submission says about the shutdown and about the status of the job (`AnswerInv`). The lemma `NeverFull` shows that a handler that submits finds room: by `OneOwner` and `OwnJob` nothing of an earlier job is left in the channel. So 503 means shutdown. |
| `WebhookServiceProofs!StoreRefinement`, `PoolRefinement` | `SafeSpec => Store!Spec`, `SafeSpec => Pool!SafeSpec` | The composition uses its parts as their own specifications allow: what is proved about `JobStore` and, but for liveness, about `WorkerPool` and `TaskQueue` holds in the service. |
| `WebhookServiceProofs!ClientRefinementTheorem`, `PromiseTheorem` | `ClientRefinement`, `SafeSpec => []Client!Promise` | `ClientInv` adds `TaskInv`, the place of each task: one in the channel has not begun, one with a result is about to be marked, one that is completed was executed. Each action of the service is one step of `JobService` or leaves jobs and answers as they are: the start of a job finds no other live one because of `OwnJob` and `OneOwner`; the drain finds none accepted because of `GracefulShutdown` and what was taken being marked before its worker is free. `Promise` is kept by every step of `JobService` (`NextPromise`). |
| `WebhookServiceProofs!PartsTheorem` | `HistoryOK` and `Retained` of the store, `InOrderOnce` and `GracefulShutdown` of the pool | `PartsInv`, which the refinements of the parts carry through the service. |
| `StatusServiceProofs!OwnJobTheorem` | `OwnJob` | `StatusInv`: there is no pool between handler and goroutine, `TryStartJob` refuses while the slot's job runs, and the goroutine that marks its job was the only one at work. |
| `StatusServiceProofs!AnswerConsistentTheorem`, `ToldTruthTheorem`, `NotFoundTheorem` | `AnswerConsistent`, `ToldTruth`, `NotFoundTruth` | `JobInv` and `QueryInv`. Every step of the service is one of the store (`StoreStep`), so a job only moves forward and, once it may have been dropped, may have been for good (`JobMonotone`). A running job may not: it is in the slot, so a query that holds the store's lock finds it. What a query has read is a past state of its job; the answer is composed of such states in the order of the reads. |
| `StatusServiceProofs!StoreRefinement` | `SafeSpec => Store!Spec` | As for the other handler. |
| `StatusServiceProofs!ClientRefinementTheorem` | `SafeSpec => Client!SafeSpec` | `ClientInv`: a handler that has not reached `NewJob` has no job, and it answers last. Starting a job is taking and executing it in one step; only the goroutine of the job in the slot marks a job, which is its own. `TryStart` that loses the race finds a running job, so its 409 is `Busy`. |
| `LoggerProofs!OutputLiveTheorem`, `LostOnlyInRotationTheorem` | `OutputLive`, `LostOnlyInRotation` | `LoggerInv` adds `Control`: who holds the mutex and where the other side then is (`Close` touches the file only when the monitor has left, the monitor only while it holds the mutex), and that a reset `once` means no file and no monitor. A line is lost only if the output is not open, which by the invariant is the gap of a rotation. |
| `LoggerProofs!BackupsKeptTheorem` | `BackupsKept` | `DiskInv` adds the order of the files: the one at the path is the newest (`Current`), the backups are sorted by age and older than it (`Older`). So a cleanup removes from the oldest end, and the newest `MaxBackups` have outlived all that was ever removed (`Outlived`); a backup too many is a failed removal or the latest rotation (`Few`). |
| `RateLimiterProofs!NoLeakTheorem`, `NeverReplacedTheorem` | `NoLeak`, `NeverReplaced` | Every step that writes `limiters` writes `lastSeen` for the same client in the same critical section. |
| `RateLimiterProofs!BoundedOverrunTheorem` | `BoundedOverrun` | `LimiterInv` adds the times that have no bucket (`Orphans`): at most `races` of them, and `Cardinality(Tracked) <= MaxSize + races`. Only a racing touch makes an orphan. A creation at the limit evicts one tracked client, so the map of times does not grow; below the limit there is room for one more besides the orphans. With `NoLeak` the bound on times is one on buckets. |
| `HostProofs!SuccessTheorem`, `UninstallTheorem`, `SecretKeptTheorem` | `SuccessInstalls`, `UninstallClean`, `SecretKept` | `InstallerInv`: what each step of a run finds done, or has warned of, before it (`SetupSoFar`, `UninstallSoFar`); that setup does only what uninstall can undo on that host (`Undoable`); and that there is no secret without its file (`NoFileNoSecret`). |
| `HostProofs!ServedAsConfiguredTheorem`, `OrderlyEndTheorem` | `ServedAsConfigured`, `OrderlyEnd` | `StartupInv`: what has been decided at each place of `main` (`Passed`, `Mode`), that keys only get newer (`Serving`), and how `main` ends (`Ending`): a pool that has stopped has no unfinished task and gets no other, so a task that the logger's close finds unfinished belongs to a pool that was given up; and the files that made `main` fail are still missing or still do not match what it read. |
| `HostProofs!NothingLeftBehindTheorem`, `NilMeansDoneTheorem` | `NothingLeftBehind`, `NilMeansDone` | `ExecutorInv`: the commands before the current one are done (`Progress`), and an exit code tells what the tool did while its command runs (`ExitTruth`), and only then: the codes of a command are left over when the next one is about to start. |
| `HostProofs!ToolPresentTheorem` | `ToolPresent` | For hosts that have the tools of the family they name themselves after (`OwnTools`). The detection takes the first matching word, and words that stand later belong to parents: the argument is which earlier words are excluded when one is first (`FirstMatch`, `DetectedTools`), and that every plan of the two executors uses only the detected family's tool. |
| `HostProofs!RotationTheorem` | `SlogSpec /\ OneBackupPerSecond => []RotationKeepsLines` | `SlogInv`: what is open is both the file at the path and the one `slogFile` names, and while a rotation has it closed neither a first call nor `CloseSlog` comes between. So lines are only written to the file at the path, and a file leaves the path only for a backup's name. The hypothesis, that no rename finds a backup of its own second, is what the run `slog_rotation` breaks. |

Assumptions: `NoJob \notin Jobs`, `None \notin Requests`, finite sets of clients
and workers, and that the numeric parameters are natural numbers (positive where
the code would not work with zero). Jobs, requests, queries, callers and hosts
need not be finite. `ToolPresentTheorem` assumes `OwnTools` of every host, which
the hosts of the run satisfy, old members of the Red Hat family with `yum` only
included; for a host without the tools of its own family it does not hold.
`RotationTheorem` assumes that no writer is called `Free`.

How the proofs are put together:

- A composed module's proofs instantiate the proof modules of its parts (`SP`
  and `PP`) and use their lemmas, so that what a method does to the store is
  proved once.
- `QueueLemmas` has the facts about sequences: what `Append`, `Tail` and `\o` do
  to the members, the order and the distinctness of a sequence, and how many
  members a part of one without repetitions has.
- The library's induction theorems are about operators, which the provers cannot
  instantiate. `QueueLemmas` derives induction for membership in a set
  (`LeastNat`, `InductionUpTo`) from the fact that the subsets of a finite set
  are well-founded, and with it what the loop `Keep` of `SeqFilter` computes
  (`KeepLoop`, `KeepPlaces`, `KeepFacts`). `Keep` is used instead of `SelectSeq`,
  of which the provers know nothing.
- `HostProofs` extends `Installer`, `Executors`, `Startup` and `SlogLogger`, which
  share no state; their specifications are `Spec`, `CallSpec`, `ProcessSpec` and
  `SlogSpec`, so that each theorem names the one it is about.
- A refinement needs an invariant and a case for each action. The cases of
  `ClientRefinementTheorem` are lemmas per kind of step (`HandlerClient`,
  `WorkerClient`, `DrainedClient`), which say what the step does to `JobOf` of one
  request and that it leaves that of the others alone.

Left to TLC: the liveness properties (`WorkersLeave`, `JobsFinish`,
`ExitsOnSignal`, `AcceptedSettles`, `SetupEventuallySucceeds`, `CloseReturns`,
`CallReturns`, `SignalEnds`) and the fairness of the refinement of `TaskQueue`.
They need `ENABLED`, which the prover does not cover. `JobService` says nothing of
liveness for the same reason: that accepted jobs finish is `JobsFinish` and
`AcceptedSettles`. The refinement by `StatusService` is proved and has no run of
its own.

## 5. Not modelled

- The health endpoint, the console and the version: constant answers and output.
- The computation of signatures and identifiers: pure library calls.
- Flags that print and leave; `SetupCertificateDirectory` and
  `GenerateSelfSignedCert`, which nothing calls; `setup/interfaces.go` and
  `helpers.go`, seams for tests over the operations that `Installer` models.
- `Rotate` of the slog logger, which a comment reserves for tests, and levels and
  formats of both loggers.
- The lengths of timeouts: a deadline passes at some point, or not.

## 6. Plan

Done in this order: store, pool with its abstract specification, their
composition in the service, rate limiter, installer, the handler with status and
the status endpoints, the loggers, the executors, start-up and stop; then the
proofs of their safety properties, of the safety part of the refinement of
`TaskQueue`, and of the use the services make of store and pool; then
`JobService`, what the services promise their clients, implemented by both, with
what the parts promise inside the composition; then the conditions under which
`ToolPresent` holds of any host and the slog logger keeps its lines. What is left
lies outside the repository's own logic (the lengths of timeouts, the token
bucket) or outside the prover's reach (liveness).
