-------------------------- MODULE WorkerPoolProofs --------------------------
(***************************************************************************)
(* Proofs about WorkerPool, for every set of tasks, number of workers and  *)
(* number of callers of Shutdown: the channel is never closed twice, no    *)
(* accepted task is lost, repeated or overtaken, a shutdown that returns   *)
(* nil after waiting was graceful, and the pool implements TaskQueue.      *)
(*                                                                         *)
(* ClosedOnce is not inductive: a caller that finds the flag clear may go  *)
(* on only because nobody closes the channel, or is about to, before the   *)
(* flag is set (FlagFirst).  GracefulShutdown rests on three more facts:   *)
(* only one caller ever goes past the flag, so the caller that saw the     *)
(* workers leave is not one that timed out (OneOwner); a worker leaves a   *)
(* pool that is not cancelled only when the channel is closed and empty    *)
(* (LeaveEmpty); and what was taken is being executed or done (Taken).     *)
(***************************************************************************)
EXTENDS WorkerPool, QueueLemmas, TLAPS

\* The flag is set before the channel is closed.
FlagFirst ==
    /\ closed => shutdown
    /\ \A c \in Stoppers : stopper[c] = "marked" => shutdown

CloseInv == stopper \in [Stoppers -> StopperState] /\ FlagFirst /\ ClosedOnce

\* A step of a task or of a worker does not touch the shutdown.
LEMMA QuietStep ==
    ASSUME Terminated \/ UNCHANGED poolVars
           \/ (\E t \in Tasks : Submission(t)) \/ (\E w \in Workers : WorkerStep(w))
    PROVE  UNCHANGED <<shutdown, closed, stopper>>
  BY DEF Terminated, poolVars, Submission, SubmitCheck, SubmitWaitCheck, CheckOpen,
         SubmitSend, SubmitWaitSend, Send, GiveUp, WorkerStep, WorkerTake, WorkerExit,
         TaskReturn, TaskPanic, TaskEnd

\* Every step keeps the flag ahead of the close, and at most one closer.
LEMMA NextCloseInv == CloseInv /\ [Next]_poolVars => CloseInv'
  <1> SUFFICES ASSUME CloseInv, [Next]_poolVars PROVE CloseInv'
    OBVIOUS
  <1>1. CASE UNCHANGED <<shutdown, closed, stopper>>
    BY <1>1 DEF CloseInv, FlagFirst, ClosedOnce
  <1>2. ASSUME NEW c \in Stoppers, ShutdownMark(c) PROVE CloseInv'
    BY <1>2 DEF ShutdownMark, CloseInv, FlagFirst, ClosedOnce, StopperState
  <1>3. ASSUME NEW c \in Stoppers, ShutdownClose(c) PROVE CloseInv'
    BY <1>3 DEF ShutdownClose, CloseInv, FlagFirst, ClosedOnce, StopperState
  <1>4. ASSUME NEW c \in Stoppers, ShutdownDrained(c) \/ ShutdownTimeout(c) PROVE CloseInv'
    BY <1>4 DEF ShutdownDrained, ShutdownTimeout, CloseInv, FlagFirst, ClosedOnce, StopperState
  <1>5. QED
    BY <1>1, <1>2, <1>3, <1>4, QuietStep DEF Next, Shutdown

\* However many goroutines call Shutdown, close(p.tasks) is executed once.
THEOREM ClosedOnceTheorem == SafeSpec => []ClosedOnce
  <1>1. Init => CloseInv
    BY DEF Init, CloseInv, FlagFirst, ClosedOnce, StopperState
  <1>2. CloseInv => ClosedOnce
    BY DEF CloseInv
  <1>3. QED
    BY <1>1, <1>2, NextCloseInv, PTL DEF SafeSpec

-----------------------------------------------------------------------------
(* Types.                                                                  *)

\* The type invariant is inductive as it stands.
LEMMA InitTypeOK == Init => TypeOK
  <1> SUFFICES ASSUME Init PROVE TypeOK
    OBVIOUS
  <1>1. {shutdown, closed, cancelled} \subseteq BOOLEAN
    BY DEF Init
  <1>2. /\ worker \in [Workers -> {"idle", "busy", "exited"}]
        /\ task \in [Workers -> Tasks \cup {NoTask}]
        /\ \A w \in Workers : worker[w] = "busy" <=> task[w] \in Tasks
    BY NoTaskAssumption DEF Init
  <1>3. submit \in [Tasks -> SubmitState] /\ stopper \in [Stoppers -> StopperState]
    BY DEF Init, SubmitState, StopperState
  <1>4. queue \in Seq(Tasks) /\ accepted \in Seq(Tasks) /\ started \in Seq(Tasks) /\ done \subseteq Tasks
    BY DEF Init
  <1>5. QED
    BY <1>1, <1>2, <1>3, <1>4 DEF TypeOK

LEMMA NextTypeOK == TypeOK /\ [Next]_poolVars => TypeOK'
  <1> SUFFICES ASSUME TypeOK, [Next]_poolVars PROVE TypeOK'
    OBVIOUS
  <1> USE NoTaskAssumption DEF TypeOK, SubmitState, StopperState
  <1>1. CASE Terminated \/ UNCHANGED poolVars
    BY <1>1 DEF Terminated, poolVars
  <1>2. ASSUME NEW t \in Tasks, SubmitCheck(t) \/ SubmitWaitCheck(t) PROVE TypeOK'
    BY <1>2 DEF SubmitCheck, SubmitWaitCheck, CheckOpen
  <1>3. ASSUME NEW t \in Tasks, Send(t) PROVE TypeOK'
    BY <1>3 DEF Send
  <1>4. ASSUME NEW t \in Tasks,
               \E r \in {"full", "timeout", "panic"} : GiveUp(t, r)
        PROVE  TypeOK'
    BY <1>4 DEF GiveUp
  <1>5. ASSUME NEW w \in Workers, WorkerTake(w) PROVE TypeOK'
    <2>1. Head(queue) \in Tasks /\ Tail(queue) \in Seq(Tasks)
      BY <1>5, HeadTailProperties DEF WorkerTake
    <2>2. Append(started, Head(queue)) \in Seq(Tasks)
      BY <2>1
    <2>3. QED
      BY <1>5, <2>1, <2>2 DEF WorkerTake
  <1>6. ASSUME NEW w \in Workers, WorkerExit(w) PROVE TypeOK'
    BY <1>6 DEF WorkerExit
  <1>7. ASSUME NEW w \in Workers, TaskEnd(w, "idle") PROVE TypeOK'
    BY <1>7 DEF TaskEnd
  <1>8. ASSUME NEW c \in Stoppers, Shutdown(c) PROVE TypeOK'
    BY <1>8 DEF Shutdown, ShutdownMark, ShutdownClose, ShutdownDrained, ShutdownTimeout
  <1>9. QED
    BY <1>1, <1>2, <1>3, <1>4, <1>5, <1>6, <1>7, <1>8
    DEF Next, Submission, SubmitSend, SubmitWaitSend, WorkerStep, TaskReturn, TaskPanic

\* The pool's state keeps its types; in particular a worker holds a task
\* exactly while it executes one, also after a task that panicked.
THEOREM PoolTypeTheorem == SafeSpec => []TypeOK
  BY InitTypeOK, NextTypeOK, PTL DEF SafeSpec

-----------------------------------------------------------------------------
(* No accepted task is lost, repeated or overtaken.                        *)

\* A task is in the history of accepted tasks at most once, and exactly when
\* its submission returned nil.
AcceptedOnce ==
    /\ Distinct(accepted)
    /\ \A t \in Tasks : Holds(accepted, t) <=> submit[t] = "accepted"

\* What was taken from the channel is being executed, by one worker, or done.
Taken ==
    /\ \A t \in Tasks : Holds(started, t) <=> (t \in Executing \/ t \in done)
    /\ Executing \cap done = {}
    /\ \A v, w \in Workers :
          worker[v] = "busy" /\ worker[w] = "busy" /\ task[v] = task[w] => v = w

OrderInv == TypeOK /\ accepted = started \o queue /\ AcceptedOnce /\ Taken

\* A step that leaves the channel, the workers and the histories alone, and
\* accepts no task, keeps the order.
LEMMA IdleOrder ==
    ASSUME OrderInv, TypeOK',
           UNCHANGED <<queue, accepted, started, done>>,
           \A w \in Workers : worker[w] = "busy" <=> worker'[w] = "busy",
           \A w \in Workers : worker[w] = "busy" => task'[w] = task[w],
           \A t \in Tasks : submit[t] = "accepted" <=> submit'[t] = "accepted"
    PROVE  OrderInv' /\ Executing' = Executing
  <1>1. Executing' = Executing
    BY DEF Executing
  <1>2. QED
    BY <1>1 DEF OrderInv, AcceptedOnce, Taken

\* The elements accepted are the ones taken and the ones in the channel.
LEMMA AcceptedParts ==
    ASSUME OrderInv
    PROVE  \A t \in Tasks : submit[t] = "accepted" <=>
               (Holds(queue, t) \/ t \in Executing \/ t \in done)
  BY ConcatHolds DEF OrderInv, TypeOK, AcceptedOnce, Taken

\* A send puts a task in the channel that was never there.
LEMMA SendOrder ==
    ASSUME OrderInv, TypeOK', NEW t \in Tasks, Send(t), submit[t] # "accepted"
    PROVE  OrderInv' /\ Executing' = Executing
  <1>1. accepted \in Seq(Tasks) /\ started \in Seq(Tasks) /\ queue \in Seq(Tasks)
    BY DEF OrderInv, TypeOK
  <1>2. accepted' = started' \o queue'
    <2>1. started \o Append(queue, t) = Append(started \o queue, t)
      BY <1>1, ConcatAppend
    <2>2. QED
      BY <2>1 DEF Send, OrderInv
  <1>3. Distinct(accepted')
    BY <1>1, AppendDistinct DEF Send, OrderInv, AcceptedOnce
  <1>4. \A u \in Tasks : Holds(accepted', u) <=> submit'[u] = "accepted"
    <2>1. \A u : Holds(Append(accepted, t), u) <=> (u = t \/ Holds(accepted, u))
      BY <1>1, AppendHolds
    <2>2. QED
      BY <2>1 DEF Send, OrderInv, TypeOK, AcceptedOnce
  <1>5. Executing' = Executing
    BY DEF Send, Executing
  <1>6. QED
    BY <1>2, <1>3, <1>4, <1>5 DEF Send, OrderInv, AcceptedOnce, Taken

\* A receive hands the oldest task of the channel, which nobody has, to the
\* worker.
LEMMA TakeOrder ==
    ASSUME OrderInv, TypeOK', NEW w \in Workers, WorkerTake(w)
    PROVE  /\ OrderInv'
           /\ Executing' = Executing \cup {Head(queue)}
  <1> USE DEF OrderInv, TypeOK
  <1> DEFINE h == Head(queue)
  <1>1. h \in Tasks /\ Tail(queue) \in Seq(Tasks) /\ queue # <<>>
    BY HeadTailProperties DEF WorkerTake
  <1>2. accepted' = started' \o queue'
    BY <1>1, ConcatTake DEF WorkerTake
  <1>3. AcceptedOnce'
    BY DEF WorkerTake, AcceptedOnce
  <1>4. ~Holds(started, h)
    <2>1. Len(started) + 1 \in DOMAIN accepted /\ accepted[Len(started) + 1] = h
      BY <1>1, ConcatProperties DEF WorkerTake
    <2>2. ASSUME NEW i \in DOMAIN started, started[i] = h PROVE FALSE
      <3>1. i \in DOMAIN accepted /\ accepted[i] = h /\ i # Len(started) + 1
        BY <2>2, ConcatProperties
      <3>2. QED
        BY <2>1, <3>1 DEF AcceptedOnce, Distinct
    <2>3. QED
      BY <2>2 DEF Holds
  <1>5. h \notin Executing /\ h \notin done
    BY <1>1, <1>4 DEF Taken
  <1>6. Executing' = Executing \cup {h}
    BY <1>1 DEF WorkerTake, Executing
  <1>7. \A t \in Tasks : Holds(started', t) <=> (t = h \/ Holds(started, t))
    BY <1>1, AppendHolds DEF WorkerTake
  <1>8. \A t \in Tasks : Holds(started', t) <=> (t \in Executing' \/ t \in done')
    BY <1>6, <1>7 DEF WorkerTake, Taken
  <1>9. Executing' \cap done' = {}
    BY <1>5, <1>6 DEF WorkerTake, Taken
  <1>10. \A u, v \in Workers :
            worker'[u] = "busy" /\ worker'[v] = "busy" /\ task'[u] = task'[v] => u = v
    BY <1>5 DEF WorkerTake, Taken, Executing
  <1>11. QED
    BY <1>2, <1>3, <1>6, <1>8, <1>9, <1>10 DEF Taken

\* The end of a task moves it from the executing to the done ones.
LEMMA EndOrder ==
    ASSUME OrderInv, TypeOK', NEW w \in Workers, TaskEnd(w, "idle")
    PROVE  /\ OrderInv'
           /\ task[w] \in Executing
           /\ Executing' = Executing \ {task[w]}
  <1> USE DEF OrderInv, TypeOK
  <1>1. task[w] \in Executing
    BY DEF TaskEnd, Executing
  <1>2. Executing' = Executing \ {task[w]}
    BY DEF TaskEnd, Executing, Taken
  <1>3. AcceptedOnce' /\ accepted' = started' \o queue'
    BY DEF TaskEnd, AcceptedOnce
  <1>4. Taken'
    BY <1>1, <1>2 DEF TaskEnd, Taken
  <1>5. QED
    BY <1>1, <1>2, <1>3, <1>4

LEMMA NextOrderInv == OrderInv /\ [Next]_poolVars => OrderInv'
  <1> SUFFICES ASSUME OrderInv, [Next]_poolVars PROVE OrderInv'
    OBVIOUS
  <1>0. TypeOK /\ TypeOK'
    BY NextTypeOK DEF OrderInv
  <1>1. CASE Terminated \/ UNCHANGED poolVars
    BY <1>0, <1>1, IdleOrder DEF Terminated, poolVars
  <1>2. ASSUME NEW t \in Tasks, SubmitCheck(t) \/ SubmitWaitCheck(t) PROVE OrderInv'
    BY <1>0, <1>2, IdleOrder DEF SubmitCheck, SubmitWaitCheck, CheckOpen, TypeOK
  <1>3. ASSUME NEW t \in Tasks, SubmitSend(t) \/ SubmitWaitSend(t) PROVE OrderInv'
    <2>1. CASE Send(t)
      BY <1>0, <1>3, <2>1, SendOrder DEF SubmitSend, SubmitWaitSend
    <2>2. CASE \E r \in {"full", "timeout", "panic"} : GiveUp(t, r)
      BY <1>0, <1>3, <2>2, IdleOrder DEF SubmitSend, SubmitWaitSend, GiveUp, TypeOK
    <2>3. QED
      BY <1>3, <2>1, <2>2 DEF SubmitSend, SubmitWaitSend
  <1>4. ASSUME NEW w \in Workers, WorkerTake(w) PROVE OrderInv'
    BY <1>0, <1>4, TakeOrder
  <1>5. ASSUME NEW w \in Workers, WorkerExit(w) PROVE OrderInv'
    BY <1>0, <1>5, IdleOrder DEF WorkerExit, TypeOK
  <1>6. ASSUME NEW w \in Workers, TaskEnd(w, "idle") PROVE OrderInv'
    BY <1>0, <1>6, EndOrder
  <1>7. ASSUME NEW c \in Stoppers, Shutdown(c) PROVE OrderInv'
    BY <1>0, <1>7, IdleOrder
    DEF Shutdown, ShutdownMark, ShutdownClose, ShutdownDrained, ShutdownTimeout
  <1>8. QED
    BY <1>1, <1>2, <1>3, <1>4, <1>5, <1>6, <1>7
    DEF Next, Submission, WorkerStep, TaskReturn, TaskPanic

LEMMA InitOrderInv == Init => OrderInv
  <1> SUFFICES ASSUME Init PROVE OrderInv
    OBVIOUS
  <1>1. TypeOK
    BY InitTypeOK
  <1>2. Executing = {}
    BY DEF Init, Executing
  <1>3. \A t : ~Holds(<<>>, t)
    BY DEF Holds
  <1>4. accepted = started \o queue
    BY DEF Init
  <1>5. QED
    BY <1>1, <1>2, <1>3, <1>4 DEF Init, OrderInv, AcceptedOnce, Taken, Distinct

\* The invariant says what InOrderOnce says.
LEMMA OrderImplies == OrderInv => InOrderOnce
  <1> SUFFICES ASSUME OrderInv PROVE InOrderOnce
    OBVIOUS
  <1>1. accepted \in Seq(Tasks) /\ Distinct(accepted)
    BY DEF OrderInv, TypeOK, AcceptedOnce
  <1>2. Cardinality(ToSet(accepted)) = Len(accepted)
    BY <1>1, DistinctCardinality DEF ToSet
  <1>3. \A t : t \in ToSet(accepted) <=> Holds(accepted, t)
    BY DEF ToSet, Holds
  <1>4. \A t : Holds(accepted, t) => t \in Tasks
    BY <1>1 DEF Holds
  <1>5. ToSet(accepted) = {t \in Tasks : submit[t] = "accepted"}
    BY <1>3, <1>4 DEF OrderInv, AcceptedOnce
  <1>6. QED
    BY <1>2, <1>5 DEF OrderInv, InOrderOnce

\* What Submit and SubmitWait accepted is what the workers took, in that
\* order, followed by what the channel holds: nothing is lost, repeated or
\* overtaken, however submissions, workers and shutdowns interleave.
THEOREM InOrderOnceTheorem == SafeSpec => []InOrderOnce
  BY InitOrderInv, NextOrderInv, OrderImplies, PTL DEF SafeSpec

-----------------------------------------------------------------------------
(* A shutdown that returns nil after waiting was graceful.                 *)

\* One caller of Shutdown goes past the flag; the context is cancelled only by
\* that caller's timeout.
Owner == {"marked", "waiting", "drained", "timedout"}
OneOwner ==
    /\ \A c \in Stoppers : stopper[c] \in Owner => shutdown
    /\ \A c \in Stoppers : stopper[c] \in Owner \ {"marked"} => closed
    /\ \A c, d \in Stoppers : stopper[c] \in Owner /\ stopper[d] \in Owner => c = d
    /\ cancelled => \E c \in Stoppers : stopper[c] = "timedout"

\* A worker leaves an uncancelled pool only when the channel is closed and
\* empty, and the waiting caller goes on only when all have left.
LeaveEmpty ==
    /\ \A w \in Workers : worker[w] = "exited" /\ ~cancelled => closed /\ queue = <<>>
    /\ \A c \in Stoppers : stopper[c] = "drained" => \A w \in Workers : worker[w] = "exited"

StopInv == CloseInv /\ OneOwner /\ LeaveEmpty

LEMMA NextStopInv == TypeOK /\ StopInv /\ [Next]_poolVars => StopInv'
  <1> SUFFICES ASSUME TypeOK, StopInv, [Next]_poolVars PROVE StopInv'
    OBVIOUS
  <1>0. CloseInv /\ CloseInv'
    BY NextCloseInv DEF StopInv
  <1>1. ASSUME UNCHANGED <<shutdown, closed, cancelled, stopper, worker>>,
               queue' = queue \/ ~closed
        PROVE  StopInv'
    BY <1>0, <1>1 DEF StopInv, OneOwner, LeaveEmpty
  <1>2. ASSUME NEW w \in Workers, WorkerTake(w) PROVE StopInv'
    <2>1. OneOwner'
      BY <1>2 DEF WorkerTake, StopInv, OneOwner
    <2>2. \A v \in Workers : worker'[v] = "exited" => worker[v] = "exited"
      BY <1>2 DEF WorkerTake, TypeOK
    <2>3. \A c \in Stoppers : stopper[c] # "drained"
      BY <1>2 DEF WorkerTake, StopInv, LeaveEmpty
    <2>4. \A v \in Workers : worker[v] = "exited" => cancelled
      BY <1>2 DEF WorkerTake, StopInv, LeaveEmpty
    <2>5. LeaveEmpty'
      BY <1>2, <2>2, <2>3, <2>4 DEF WorkerTake, LeaveEmpty
    <2>6. QED
      BY <1>0, <2>1, <2>5 DEF StopInv
  <1>3. ASSUME NEW w \in Workers, WorkerExit(w) PROVE StopInv'
    BY <1>0, <1>3 DEF WorkerExit, StopInv, OneOwner, LeaveEmpty, TypeOK
  <1>4. ASSUME NEW w \in Workers, TaskEnd(w, "idle") PROVE StopInv'
    <2>1. OneOwner'
      BY <1>4 DEF TaskEnd, StopInv, OneOwner
    <2>2. \A c \in Stoppers : stopper[c] # "drained"
      BY <1>4 DEF TaskEnd, StopInv, LeaveEmpty
    <2>3. LeaveEmpty'
      BY <1>4, <2>2 DEF TaskEnd, StopInv, LeaveEmpty, TypeOK
    <2>4. QED
      BY <1>0, <2>1, <2>3 DEF StopInv
  <1>5. ASSUME NEW c \in Stoppers, ShutdownMark(c) PROVE StopInv'
    <2>1. OneOwner'
      BY <1>0, <1>5 DEF ShutdownMark, StopInv, CloseInv, OneOwner, Owner
    <2>2. LeaveEmpty'
      BY <1>5 DEF ShutdownMark, StopInv, LeaveEmpty, TypeOK
    <2>3. QED
      BY <1>0, <2>1, <2>2 DEF StopInv
  <1>6. ASSUME NEW c \in Stoppers, ShutdownClose(c) PROVE StopInv'
    <2>1. OneOwner'
      BY <1>0, <1>6 DEF ShutdownClose, StopInv, CloseInv, OneOwner, Owner
    <2>2. LeaveEmpty'
      BY <1>6 DEF ShutdownClose, StopInv, LeaveEmpty, TypeOK
    <2>3. QED
      BY <1>0, <2>1, <2>2 DEF StopInv
  <1>7. ASSUME NEW c \in Stoppers, ShutdownDrained(c) PROVE StopInv'
    <2>1. OneOwner'
      BY <1>0, <1>7 DEF ShutdownDrained, StopInv, CloseInv, OneOwner, Owner
    <2>2. LeaveEmpty'
      BY <1>7 DEF ShutdownDrained, StopInv, LeaveEmpty, TypeOK
    <2>3. QED
      BY <1>0, <2>1, <2>2 DEF StopInv
  <1>8. ASSUME NEW c \in Stoppers, ShutdownTimeout(c) PROVE StopInv'
    <2>1. OneOwner'
      BY <1>0, <1>8 DEF ShutdownTimeout, StopInv, CloseInv, OneOwner, Owner
    <2>2. LeaveEmpty'
      BY <1>8 DEF ShutdownTimeout, StopInv, LeaveEmpty, TypeOK
    <2>3. QED
      BY <1>0, <2>1, <2>2 DEF StopInv
  <1>9. ASSUME NEW t \in Tasks, Submission(t) PROVE StopInv'
    BY <1>1, <1>9
    DEF Submission, SubmitCheck, SubmitWaitCheck, CheckOpen, SubmitSend,
        SubmitWaitSend, Send, GiveUp
  <1>10. CASE Terminated \/ UNCHANGED poolVars
    BY <1>1, <1>10 DEF Terminated, poolVars
  <1>11. QED
    BY <1>2, <1>3, <1>4, <1>5, <1>6, <1>7, <1>8, <1>9, <1>10
    DEF Next, WorkerStep, TaskReturn, TaskPanic, Shutdown

LEMMA InitStopInv == Init => StopInv
  BY DEF Init, StopInv, CloseInv, FlagFirst, ClosedOnce, OneOwner, Owner, LeaveEmpty,
         StopperState

PoolInv == OrderInv /\ StopInv

LEMMA NextPoolInv == PoolInv /\ [Next]_poolVars => PoolInv'
  BY NextOrderInv, NextStopInv DEF PoolInv, OrderInv

\* The caller that saw every worker leave did not time out, so the workers
\* left an empty channel, and none holds a task any more.
LEMMA StopImplies == PoolInv => GracefulShutdown
  <1> SUFFICES ASSUME PoolInv, NEW c \in Stoppers, stopper[c] = "drained"
               PROVE  closed /\ queue = <<>> /\ done = ToSet(accepted)
    BY DEF GracefulShutdown
  <1>1. ~cancelled
    BY DEF PoolInv, StopInv, OneOwner, Owner
  <1>2. \A w \in Workers : worker[w] = "exited"
    BY DEF PoolInv, StopInv, LeaveEmpty
  <1>3. closed /\ queue = <<>>
    BY <1>1, <1>2, PoolAssumption DEF PoolInv, StopInv, LeaveEmpty
  <1>4. Executing = {}
    BY <1>2 DEF Executing
  <1>5. accepted = started
    BY <1>3, ConcatEmptySeq DEF PoolInv, OrderInv, TypeOK
  <1>6. \A t \in Tasks : t \in ToSet(accepted) <=> t \in done
    BY <1>4, <1>5 DEF PoolInv, OrderInv, Taken, ToSet, Holds
  <1>7. ToSet(accepted) \subseteq Tasks /\ done \subseteq Tasks
    BY DEF PoolInv, OrderInv, TypeOK, ToSet
  <1>8. QED
    BY <1>3, <1>6, <1>7

LEMMA PoolInvariance == SafeSpec => []PoolInv
  <1>1. Init => PoolInv
    BY InitOrderInv, InitStopInv DEF PoolInv
  <1>2. QED
    BY <1>1, NextPoolInv, PTL DEF SafeSpec

\* When Shutdown returns nil after waiting, every accepted task has been
\* executed to its end, also one whose submission raced with the shutdown.
THEOREM GracefulShutdownTheorem == SafeSpec => []GracefulShutdown
  BY PoolInvariance, StopImplies, PTL

-----------------------------------------------------------------------------
(* The pool implements the abstract queue, step by step.                   *)

\* An idle worker means that fewer tasks are in execution than there are
\* workers.
LEMMA RoomToStart ==
    ASSUME TypeOK, NEW w \in Workers, worker[w] = "idle"
    PROVE  Cardinality(Executing) < Cardinality(Workers)
  <1> DEFINE Busy == {v \in Workers : worker[v] = "busy"}
             f == [v \in Busy |-> task[v]]
  <1>1. IsFiniteSet(Workers) /\ Busy \in SUBSET Workers /\ Busy # Workers
    BY PoolAssumption
  <1>2. IsFiniteSet(Busy) /\ Cardinality(Busy) < Cardinality(Workers)
    <2>1. IsFiniteSet(Busy) /\ Cardinality(Busy) <= Cardinality(Workers)
          /\ Cardinality(Busy) # Cardinality(Workers)
      BY <1>1, FS_Subset
    <2>2. Cardinality(Busy) \in Nat /\ Cardinality(Workers) \in Nat
      BY <1>1, <2>1, FS_CardinalityType
    <2>3. QED
      BY <2>1, <2>2
  <1>3. f \in Surjection(Busy, Executing)
    BY DEF Executing, Surjection
  <1>4. IsFiniteSet(Executing) /\ Cardinality(Executing) <= Cardinality(Busy)
    BY <1>2, <1>3, FS_Surjection
  <1>5. QED
    <2>1. /\ Cardinality(Busy) \in Nat /\ Cardinality(Workers) \in Nat
          /\ Cardinality(Executing) \in Nat
      BY <1>1, <1>2, <1>4, FS_CardinalityType
    <2>2. QED
      BY <1>2, <1>4, <2>1

\* Every step of the pool is a step of the queue or none of its business.
LEMMA NextRefines == PoolInv /\ [Next]_poolVars => [Queue!Next]_(Queue!vars)
  <1> SUFFICES ASSUME PoolInv, [Next]_poolVars PROVE [Queue!Next]_(Queue!vars)
    OBVIOUS
  <1>0. TypeOK /\ TypeOK' /\ OrderInv /\ StopInv
    BY NextTypeOK DEF PoolInv, OrderInv
  <1>1. ASSUME UNCHANGED <<queue, closed, cancelled, done>>, Executing' = Executing
        PROVE  UNCHANGED Queue!vars
    BY <1>1 DEF Queue!vars
  <1>2. ASSUME NEW t \in Tasks, Send(t), submit[t] # "accepted" PROVE Queue!Accept(t)
    <2>1. Executing' = Executing
      BY <1>0, <1>2, SendOrder
    <2>2. t \notin Queue!Seen
      BY <1>0, <1>2, AcceptedParts DEF Queue!Seen, Holds
    <2>3. QED
      BY <1>2, <2>1, <2>2 DEF Queue!Accept, Send
  <1>3. ASSUME NEW w \in Workers, WorkerTake(w) PROVE Queue!Start
    <2>1. Executing' = Executing \cup {Head(queue)}
      BY <1>0, <1>3, TakeOrder
    <2>2. Cardinality(Executing) < Cardinality(Workers)
      BY <1>0, <1>3, RoomToStart DEF WorkerTake
    <2>3. queue # <<>> /\ queue' = Tail(queue) /\ UNCHANGED <<done, closed, cancelled>>
      BY <1>3 DEF WorkerTake
    <2>4. Queue!Cardinality(Executing) = Cardinality(Executing)
      BY DEF Queue!Cardinality, Cardinality
    <2>5. QED
      BY <2>1, <2>2, <2>3, <2>4 DEF Queue!Start
  <1>4. ASSUME NEW w \in Workers, TaskEnd(w, "idle") PROVE Queue!Finish(task[w])
    <2>1. task[w] \in Executing /\ Executing' = Executing \ {task[w]}
      BY <1>0, <1>4, EndOrder
    <2>2. QED
      BY <1>4, <2>1 DEF Queue!Finish, TaskEnd
  <1>5. ASSUME NEW c \in Stoppers, ShutdownClose(c) PROVE Queue!Close
    <2>1. Executing' = Executing
      BY <1>5 DEF ShutdownClose, Executing
    <2>2. ~closed
      BY <1>0, <1>5 DEF ShutdownClose, StopInv, CloseInv, ClosedOnce
    <2>3. QED
      BY <1>5, <2>1, <2>2 DEF Queue!Close, ShutdownClose
  <1>6. ASSUME NEW c \in Stoppers, ShutdownTimeout(c) PROVE Queue!Abandon
    <2>1. Executing' = Executing
      BY <1>6 DEF ShutdownTimeout, Executing
    <2>2. closed /\ ~cancelled
      BY <1>0, <1>6 DEF ShutdownTimeout, StopInv, OneOwner, Owner
    <2>3. QED
      BY <1>6, <2>1, <2>2 DEF Queue!Abandon, ShutdownTimeout
  <1>7. ASSUME NEW t \in Tasks, Submission(t), ~Send(t) PROVE UNCHANGED Queue!vars
    BY <1>1, <1>7
    DEF Submission, SubmitCheck, SubmitWaitCheck, CheckOpen, SubmitSend,
        SubmitWaitSend, GiveUp, Executing
  <1>8. ASSUME NEW t \in Tasks, Submission(t), Send(t) PROVE Queue!Accept(t)
    <2>1. submit[t] # "accepted"
      BY <1>8 DEF Submission, SubmitCheck, SubmitWaitCheck, CheckOpen, SubmitSend,
                  SubmitWaitSend
    <2>2. QED
      BY <1>2, <1>8, <2>1
  <1>9. ASSUME NEW w \in Workers, WorkerExit(w) PROVE UNCHANGED Queue!vars
    <2>1. Executing' = Executing
      BY <1>0, <1>9, IdleOrder DEF WorkerExit, TypeOK
    <2>2. QED
      BY <1>1, <1>9, <2>1 DEF WorkerExit
  <1>10. ASSUME NEW c \in Stoppers, ShutdownMark(c) \/ ShutdownDrained(c)
         PROVE  UNCHANGED Queue!vars
    BY <1>1, <1>10 DEF ShutdownMark, ShutdownDrained, Executing
  <1>11. CASE Terminated \/ UNCHANGED poolVars
    BY <1>1, <1>11 DEF Terminated, poolVars, Executing
  <1>12. ASSUME NEW w \in Workers, TaskEnd(w, "idle") PROVE Queue!Next
    <2>1. task[w] \in Tasks
      BY <1>0, <1>12 DEF TaskEnd, TypeOK
    <2>2. QED
      BY <1>4, <1>12, <2>1 DEF Queue!Next
  <1>13. QED
    BY <1>3, <1>5, <1>6, <1>7, <1>8, <1>9, <1>10, <1>11, <1>12
    DEF Next, WorkerStep, TaskReturn, TaskPanic, Shutdown, Queue!Next

\* The pool implements the abstract queue's safety: acceptance only while the
\* channel is open and has room, and of a task never seen; starts in order, at
\* most one per worker; one close, and abandonment only after it.
THEOREM RefinementTheorem == SafeSpec => Queue!SafeSpec
  <1>1. Init => Queue!Init
    BY DEF Init, Queue!Init, Executing
  <1>2. QED
    BY <1>1, PoolInvariance, NextRefines, PTL DEF SafeSpec, Queue!SafeSpec

=============================================================================
