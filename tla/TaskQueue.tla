----------------------------- MODULE TaskQueue ------------------------------
(***************************************************************************)
(* What the worker pool promises its callers: a bounded first-in first-out *)
(* queue served by a fixed number of executors.  A task that is accepted   *)
(* is started once, in the order of acceptance, and a task that is started *)
(* is finished; the owner may close the queue, after which nothing more is *)
(* accepted but what was accepted is still served, and may later abandon   *)
(* it, after which the pending tasks may never be started.                 *)
(*                                                                         *)
(* WorkerPool implements this specification.                               *)
(***************************************************************************)
EXTENDS Integers, Sequences, FiniteSets

CONSTANTS
    Tasks,      \* the tasks that may be submitted
    Capacity,   \* how many accepted tasks may be pending
    Executors   \* how many tasks may be in execution

VARIABLES
    pending,    \* accepted and not started, oldest first
    running,    \* started and not finished
    finished,   \* finished
    open,       \* whether tasks may be accepted
    abandoned   \* whether pending tasks may be given up

vars == <<pending, running, finished, open, abandoned>>

Seen == {pending[i] : i \in DOMAIN pending} \cup running \cup finished

Init ==
    /\ pending = <<>>
    /\ running = {}
    /\ finished = {}
    /\ open = TRUE
    /\ abandoned = FALSE

Accept(t) ==
    /\ open
    /\ t \notin Seen
    /\ Len(pending) < Capacity
    /\ pending' = Append(pending, t)
    /\ UNCHANGED <<running, finished, open, abandoned>>

Start ==
    /\ pending # <<>>
    /\ Cardinality(running) < Executors
    /\ pending' = Tail(pending)
    /\ running' = running \cup {Head(pending)}
    /\ UNCHANGED <<finished, open, abandoned>>

Finish(t) ==
    /\ t \in running
    /\ running' = running \ {t}
    /\ finished' = finished \cup {t}
    /\ UNCHANGED <<pending, open, abandoned>>

Close ==
    /\ open
    /\ open' = FALSE
    /\ UNCHANGED <<pending, running, finished, abandoned>>

Abandon ==
    /\ ~open
    /\ ~abandoned
    /\ abandoned' = TRUE
    /\ UNCHANGED <<pending, running, finished, open>>

Next ==
    \/ \E t \in Tasks : Accept(t) \/ Finish(t)
    \/ Start
    \/ Close
    \/ Abandon

\* Until it is abandoned the queue is served, and a started task is finished.
Served ==
    \A t \in Tasks :
        /\ (\E i \in DOMAIN pending : pending[i] = t) ~> (t \in running \/ abandoned)
        /\ (t \in running) ~> (t \in finished)

SafeSpec == Init /\ [][Next]_vars

Spec == SafeSpec /\ Served

=============================================================================
