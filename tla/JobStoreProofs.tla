--------------------------- MODULE JobStoreProofs ---------------------------
(***************************************************************************)
(* Proofs about JobStore, for every set of jobs, finite or not, and every  *)
(* bound.  First the slot: no method reads the history to decide anything  *)
(* about it.  Then the history: what the trim of addToHistory and the      *)
(* cleanup may drop.                                                       *)
(***************************************************************************)
EXTENDS JobStore, QueueLemmas, TLAPS

\* What the slot and the statuses need of each other to survive every call:
\* OneRunning, and by the types that the slot holds one of the jobs or none.
SlotInv == StoreTypeOK /\ OneRunning

\* The store starts empty.
LEMMA InitSlotInv == Init => SlotInv
  BY NoJobAssumption DEF Init, SlotInv, StoreTypeOK, OneRunning, IsRunning, JobStatus,
     NoTime, Finished

\* Creating an entity does not touch the slot, and the entity is not running.
LEMMA NewJobSlotInv ==
    ASSUME SlotInv, NEW j \in Jobs, NewJob(j)
    PROVE  SlotInv'
  BY NoJobAssumption DEF NewJob, SlotInv, StoreTypeOK, OneRunning, IsRunning, JobStatus

\* TryStartJob replaces the job in the slot only when that job is not running.
LEMMA TryStartJobSlotInv ==
    ASSUME SlotInv, NEW j \in Jobs, TryStartJob(j)
    PROVE  SlotInv'
  <1>1. CASE StartJob(j)
    BY <1>1, NoJobAssumption
    DEF StartJob, SlotFree, SlotInv, StoreTypeOK, OneRunning, IsRunning, JobStatus
  <1>2. CASE RefuseJob(j)
    BY <1>2 DEF RefuseJob, vars, SlotInv, StoreTypeOK, OneRunning, IsRunning
  <1>3. QED
    BY <1>1, <1>2 DEF TryStartJob

\* Finishing the current job empties the slot, whatever the outcome.
LEMMA FinishSlotInv ==
    ASSUME SlotInv, NEW outcome \in Finished, FinishCurrentJob(outcome)
    PROVE  SlotInv'
  <1>1. CASE current = NoJob /\ UNCHANGED vars
    BY <1>1 DEF vars, SlotInv, StoreTypeOK, OneRunning, IsRunning
  <1>2. CASE current # NoJob
    <2>1. outcome # "running"
      BY DEF Finished
    <2>2. StoreTypeOK'
      BY <1>2 DEF FinishCurrentJob, SlotInv, StoreTypeOK, JobStatus
    <2>3. OneRunning'
      BY <1>2, <2>1 DEF FinishCurrentJob, SlotInv, StoreTypeOK, OneRunning, IsRunning
    <2>4. QED
      BY <2>2, <2>3 DEF SlotInv
  <1>3. QED
    BY <1>1, <1>2 DEF FinishCurrentJob

\* Every step of the store preserves the invariant.
LEMMA NextSlotInv == SlotInv /\ [Next]_vars => SlotInv'
  <1> SUFFICES ASSUME SlotInv, [Next]_vars PROVE SlotInv'
    OBVIOUS
  <1>1. ASSUME NEW j \in Jobs, NewJob(j) PROVE SlotInv'
    BY <1>1, NewJobSlotInv
  <1>2. ASSUME NEW j \in Jobs, TryStartJob(j) PROVE SlotInv'
    BY <1>2, TryStartJobSlotInv
  <1>3. CASE CompleteCurrentJob
    BY <1>3, FinishSlotInv DEF CompleteCurrentJob, Finished
  <1>4. CASE FailCurrentJob
    BY <1>4, FinishSlotInv DEF FailCurrentJob, Finished
  <1>5. CASE CleanupOldJobs
    BY <1>5 DEF CleanupOldJobs, SlotInv, StoreTypeOK, OneRunning, IsRunning
  <1>6. CASE Tick
    BY <1>6 DEF Tick, SlotInv, StoreTypeOK, OneRunning, IsRunning
  <1>7. CASE UNCHANGED vars
    BY <1>7 DEF vars, SlotInv, StoreTypeOK, OneRunning, IsRunning
  <1>8. QED
    BY <1>1, <1>2, <1>3, <1>4, <1>5, <1>6, <1>7 DEF Next

\* At most one job is running, and it is the one in the slot, for any number
\* of jobs, any history size and any cleanup age.
THEOREM OneRunningTheorem == Spec => []OneRunning
  <1>1. SlotInv => OneRunning
    BY DEF SlotInv
  <1>2. QED
    BY InitSlotInv, NextSlotInv, <1>1, PTL DEF Spec

\* Only the job in the slot can be finished, and it is running.
LEMMA FinishedStep ==
    ASSUME SlotInv, [Next]_vars, NEW j \in Jobs, status[j] \in Finished
    PROVE  status'[j] = status[j] /\ endTime'[j] = endTime[j]
  <1>1. ASSUME NEW k \in Jobs, NewJob(k)
        PROVE  status'[j] = status[j] /\ endTime'[j] = endTime[j]
    BY <1>1 DEF NewJob, SlotInv, StoreTypeOK, Finished
  <1>2. ASSUME NEW k \in Jobs, status[k] = "pending", TryStartJob(k)
        PROVE  status'[j] = status[j] /\ endTime'[j] = endTime[j]
    BY <1>2 DEF TryStartJob, StartJob, RefuseJob, vars, SlotInv, StoreTypeOK, Finished
  <1>3. ASSUME NEW outcome, FinishCurrentJob(outcome)
        PROVE  status'[j] = status[j] /\ endTime'[j] = endTime[j]
    <2>1. current # j
      BY NoJobAssumption DEF SlotInv, OneRunning, IsRunning, Finished
    <2>2. QED
      BY <1>3, <2>1 DEF FinishCurrentJob, vars, SlotInv, StoreTypeOK
  <1>4. CASE CleanupOldJobs \/ Tick \/ UNCHANGED vars
    BY <1>4 DEF CleanupOldJobs, Tick, vars
  <1>5. QED
    BY <1>1, <1>2, <1>3, <1>4 DEF Next, CompleteCurrentJob, FailCurrentJob

\* The status and the end time of a finished job never change again.
THEOREM FinishedForeverTheorem == Spec => FinishedForever
  <1>1. SlotInv /\ [Next]_vars =>
          [\A j \in Jobs : status[j] \in Finished =>
             status'[j] = status[j] /\ endTime'[j] = endTime[j]]_vars
    BY FinishedStep
  <1>2. QED
    BY InitSlotInv, NextSlotInv, <1>1, PTL DEF Spec, FinishedForever

-----------------------------------------------------------------------------
(* The history.                                                            *)

\* Each finished job at most once, in the order of the end times.
HistoryInv ==
    /\ history \in Seq(Jobs) /\ Len(history) <= MaxHistory /\ Distinct(history)
    /\ \A j \in Jobs : Holds(history, j) => status[j] \in Finished
    /\ \A i, k \in DOMAIN history : i < k => endTime[history[i]] <= endTime[history[k]]

\* A job has an end time, not in the future, exactly when it has finished; so
\* a job that finishes now finishes after all others.
FinishedJobs == {j \in Jobs : status[j] \in Finished}
Times ==
    /\ \A j \in Jobs : endTime[j] <= now
    /\ \A j \in Jobs : status[j] \in Finished <=> endTime[j] # NoTime
    /\ IsFiniteSet(FinishedJobs)

\* Retained, for the jobs that are no longer in the slot.
FinishedKept ==
    \A j \in Jobs : status[j] \in Finished =>
        Holds(history, j) \/ startTime[j] + MaxAge <= now \/ MaxHistory <= Cardinality(Later(j))

StoreInv == SlotInv /\ HistoryInv /\ Times /\ FinishedKept

\* addToHistory on a full history drops the oldest entry and no other.
LEMMA AddToHistoryFacts ==
    ASSUME NEW h \in Seq(Jobs), Len(h) <= MaxHistory, Distinct(h),
           NEW c \in Jobs, ~Holds(h, c)
    PROVE  LET r == AddToHistory(h, c) IN
           /\ r \in Seq(Jobs) /\ Len(r) <= MaxHistory /\ Distinct(r)
           /\ \A x : Holds(r, x) => x = c \/ Holds(h, x)
           /\ Holds(r, c)
           /\ \A a, b \in DOMAIN r : a < b =>
                 \/ r[b] = c /\ Holds(h, r[a])
                 \/ \E i, k \in DOMAIN h : i < k /\ r[a] = h[i] /\ r[b] = h[k]
           /\ \A x : Holds(h, x) /\ ~Holds(r, x) =>
                 /\ Len(r) = MaxHistory
                 /\ \A y : Holds(r, y) =>
                       y = c \/ \E i, k \in DOMAIN h : i < k /\ x = h[i] /\ y = h[k]
  <1> DEFINE longer == Append(h, c)
             r == AddToHistory(h, c)
  <1>1. /\ longer \in Seq(Jobs) /\ Distinct(longer)
        /\ \A x : Holds(longer, x) <=> (x = c \/ Holds(h, x))
    BY AppendHolds, AppendDistinct
  <1>2. /\ Len(longer) = Len(h) + 1 /\ Len(h) \in Nat /\ MaxHistory \in Nat \ {0}
        /\ DOMAIN h = 1..Len(h) /\ DOMAIN longer = 1..(Len(h) + 1)
        /\ longer[Len(h) + 1] = c /\ \A i \in 1..Len(h) : longer[i] = h[i]
    BY BoundAssumption
  <1>3. CASE Len(h) < MaxHistory
    <2>1. r = longer
      BY <1>2, <1>3 DEF AddToHistory
    <2>2. ASSUME NEW a \in DOMAIN longer, NEW b \in DOMAIN longer, a < b
          PROVE  \/ longer[b] = c /\ Holds(h, longer[a])
                 \/ \E i, k \in DOMAIN h : i < k /\ longer[a] = h[i] /\ longer[b] = h[k]
      <3>1. a \in 1..Len(h) /\ longer[a] = h[a]
        BY <1>2, <2>2
      <3>2. CASE b = Len(h) + 1
        BY <1>2, <3>1, <3>2 DEF Holds
      <3>3. CASE b \in 1..Len(h)
        BY <1>2, <2>2, <3>1, <3>3
      <3>4. QED
        BY <1>2, <3>2, <3>3
    <2>3. Len(longer) <= MaxHistory
      BY <1>2, <1>3
    <2> HIDE DEF longer, r
    <2>4. QED
      BY <1>1, <2>1, <2>2, <2>3 DEF r
  <1>4. CASE Len(h) = MaxHistory
    <2>1. r = SubSeq(longer, 2, Len(longer)) /\ longer # <<>>
      BY <1>2, <1>4 DEF AddToHistory
    <2>2. r = Tail(longer)
      BY <1>1, <2>1, TailIsSubSeq
    <2>3. /\ r \in Seq(Jobs) /\ Distinct(r)
          /\ \A x : Holds(r, x) <=> (x # Head(longer) /\ Holds(longer, x))
      <3> HIDE DEF longer, r
      <3>1. longer \in Seq(Jobs) /\ longer # <<>> /\ Distinct(longer)
        BY <1>1, <2>1
      <3>2. /\ Tail(longer) \in Seq(Jobs) /\ Distinct(Tail(longer))
            /\ \A x : Holds(Tail(longer), x) <=> (x # Head(longer) /\ Holds(longer, x))
        BY <3>1, TailHolds
      <3>3. QED
        BY <2>2, <3>2
    <2>4. /\ Len(r) = Len(h) /\ DOMAIN r = 1..Len(h) /\ Head(longer) = h[1]
          /\ \A a \in 1..Len(h) : r[a] = longer[a + 1]
      BY <1>1, <1>2, <1>4, <2>1, <2>2
    <2> HIDE DEF longer, r
    <2>5. Holds(h, h[1]) /\ c # h[1] /\ 1 \in DOMAIN h
      BY <1>2, <1>4 DEF Holds
    <2>6. ASSUME NEW a \in DOMAIN r, NEW b \in DOMAIN r, a < b
          PROVE  \/ r[b] = c /\ Holds(h, r[a])
                 \/ \E i, k \in DOMAIN h : i < k /\ r[a] = h[i] /\ r[b] = h[k]
      <3>1. a + 1 \in 1..Len(h) /\ r[a] = h[a + 1]
        BY <1>2, <2>4, <2>6
      <3>2. CASE b = Len(h)
        <4>1. r[b] = c
          BY <1>2, <2>4, <3>2
        <4>2. QED
          BY <1>2, <3>1, <4>1 DEF Holds
      <3>3. CASE b # Len(h)
        <4>1. b + 1 \in 1..Len(h) /\ r[b] = h[b + 1] /\ a + 1 < b + 1
          BY <1>2, <2>4, <2>6, <3>3
        <4>2. QED
          BY <1>2, <3>1, <4>1
      <3>4. QED
        BY <3>2, <3>3
    <2>7. ASSUME NEW x, Holds(h, x), ~Holds(r, x) PROVE x = h[1]
      BY <1>1, <2>3, <2>4, <2>7
    <2>8. ASSUME NEW y, Holds(r, y)
          PROVE  y = c \/ \E i, k \in DOMAIN h : i < k /\ h[1] = h[i] /\ y = h[k]
      <3>1. y = c \/ (y # h[1] /\ Holds(h, y))
        BY <1>1, <2>3, <2>4, <2>8
      <3>2. ASSUME NEW k \in DOMAIN h, y = h[k], y # h[1] PROVE 1 < k
        BY <1>2, <3>2
      <3>3. QED
        BY <2>5, <3>1, <3>2 DEF Holds
    <2>9. QED
      BY <1>1, <1>4, <2>3, <2>4, <2>5, <2>6, <2>7, <2>8 DEF r
  <1>5. Len(h) < MaxHistory \/ Len(h) = MaxHistory
    BY BoundAssumption
  <1>6. QED
    BY <1>3, <1>4, <1>5, Zenon

\* A step that changes no job and no part of the store but the clock, or
\* creates a job, keeps the history.
LEMMA FrameStoreInv ==
    ASSUME StoreInv, SlotInv',
           UNCHANGED <<endTime, history>>, now' \in Nat, now <= now',
           \A j \in Jobs : status[j] \in Finished <=> status'[j] \in Finished,
           \A j \in Jobs : status[j] \in Finished => startTime'[j] = startTime[j]
    PROVE  StoreInv'
  <1>1. FinishedJobs' = FinishedJobs
    BY DEF FinishedJobs
  <1>2. \A j \in Jobs : endTime[j] \in Int /\ startTime[j] \in Nat
    BY DEF StoreInv, SlotInv, StoreTypeOK, NoTime
  <1>3. now \in Nat /\ MaxAge \in Nat
    BY BoundAssumption DEF StoreInv, SlotInv, StoreTypeOK
  <1>4. HistoryInv'
    BY DEF StoreInv, HistoryInv
  <1>5. Times'
    BY <1>1, <1>2, <1>3 DEF StoreInv, Times
  <1>6. FinishedKept'
    <2>1. \A j \in Jobs : Later(j)' = Later(j)
      BY DEF Later
    <2>2. QED
      BY <1>2, <1>3, <2>1 DEF StoreInv, FinishedKept
  <1>7. QED
    BY <1>4, <1>5, <1>6 DEF StoreInv

\* The cleanup drops only jobs that are too old, and keeps the order.
LEMMA CleanupStoreInv ==
    ASSUME StoreInv, SlotInv', CleanupOldJobs
    PROVE  StoreInv'
  <1> DEFINE F == {j \in Jobs : Fresh(j)}
  <1>1. /\ history \in Seq(Jobs) /\ Distinct(history) /\ history' = Keep(history, F)
        /\ UNCHANGED <<status, startTime, endTime, now>>
    BY DEF StoreInv, HistoryInv, CleanupOldJobs
  <1> HIDE DEF F
  <1>2. /\ history' \in Seq(Jobs)
        /\ \A x : Holds(history', x) <=> (Holds(history, x) /\ x \in F)
        /\ \A a, c \in DOMAIN history' : a < c =>
              \E i, k \in DOMAIN history :
                 i < k /\ history'[a] = history[i] /\ history'[c] = history[k]
        /\ Len(history') <= Len(history)
        /\ Distinct(history')
    BY <1>1, KeepFacts
  <1>3. Len(history') <= MaxHistory
    BY <1>1, <1>2, BoundAssumption DEF StoreInv, HistoryInv
  <1>4. HistoryInv'
    BY <1>1, <1>2, <1>3 DEF StoreInv, HistoryInv
  <1>5. Times'
    BY <1>1 DEF StoreInv, Times, FinishedJobs
  <1>6. FinishedKept'
    <2>1. \A j \in Jobs : j \in F \/ startTime[j] + MaxAge <= now
      BY BoundAssumption DEF F, Fresh, StoreInv, SlotInv, StoreTypeOK
    <2>2. QED
      BY <1>1, <1>2, <2>1 DEF StoreInv, FinishedKept, Later
  <1>7. QED
    BY <1>4, <1>5, <1>6 DEF StoreInv

\* The jobs that finished after a finished job stay so, and are finitely many.
LEMMA LaterGrows ==
    ASSUME SlotInv, SlotInv', Times, Times', NEW j \in Jobs, status[j] \in Finished,
           endTime'[j] = endTime[j], \A k \in Jobs : endTime[k] <= endTime'[k]
    PROVE  /\ IsFiniteSet(Later(j)')
           /\ MaxHistory <= Cardinality(Later(j)) => MaxHistory <= Cardinality(Later(j)')
  <1>1. endTime[j] # NoTime /\ \A k \in Jobs : endTime[k] \in Int /\ endTime'[k] \in Int
    BY DEF Times, SlotInv, StoreTypeOK, NoTime
  <1>2. endTime[j] >= 0
    BY <1>1 DEF SlotInv, StoreTypeOK, NoTime
  <1>3. Later(j)' \subseteq FinishedJobs'
    BY <1>1, <1>2 DEF Later, FinishedJobs, Times, NoTime
  <1>4. IsFiniteSet(Later(j)')
    BY <1>3, FS_Subset DEF Times
  <1>5. Later(j) \subseteq Later(j)'
    BY <1>1, <1>2 DEF Later, NoTime
  <1>6. IsFiniteSet(Later(j)) /\ Cardinality(Later(j)) <= Cardinality(Later(j)')
    BY <1>4, <1>5, FS_Subset
  <1>7. Cardinality(Later(j)) \in Nat /\ Cardinality(Later(j)') \in Nat
    BY <1>4, <1>6, FS_CardinalityType
  <1>8. QED
    BY <1>4, <1>6, <1>7, BoundAssumption

\* A job that finishes goes to the end of the history, and displaces at most
\* a job after which MaxHistory others have finished.
LEMMA FinishStoreInv ==
    ASSUME StoreInv, SlotInv', NEW outcome \in Finished, FinishCurrentJob(outcome)
    PROVE  StoreInv'
  <1>1. CASE UNCHANGED vars
    <2>1. now \in Nat
      BY DEF StoreInv, SlotInv, StoreTypeOK
    <2>2. QED
      BY <1>1, <2>1, FrameStoreInv DEF vars
  <1>2. CASE current # NoJob
    <2> DEFINE c == current
    <2>1. /\ c \in Jobs /\ status[c] = "running" /\ now \in Nat
          /\ status' = [status EXCEPT ![c] = outcome]
          /\ endTime' = [endTime EXCEPT ![c] = now]
          /\ history' = AddToHistory(history, c)
          /\ UNCHANGED <<startTime, now>>
      BY <1>2 DEF FinishCurrentJob, StoreInv, SlotInv, StoreTypeOK, OneRunning, IsRunning, vars
    <2> HIDE DEF c
    <2>2. status[c] \notin Finished /\ endTime[c] = NoTime /\ ~Holds(history, c)
      BY <2>1 DEF StoreInv, HistoryInv, Times, Finished
    <2>3. /\ \A j \in Jobs : endTime[j] \in Int /\ endTime'[j] \in Int
          /\ \A j \in Jobs \ {c} : endTime'[j] = endTime[j] /\ status'[j] = status[j]
          /\ endTime'[c] = now /\ status'[c] \in Finished /\ endTime'[c] # NoTime
          /\ \A j \in Jobs : endTime[j] <= now
      BY <2>1 DEF StoreInv, SlotInv, StoreTypeOK, Times, NoTime
    <2>4. Times'
      <3>1. FinishedJobs' = FinishedJobs \cup {c}
        BY <2>1, <2>3 DEF FinishedJobs
      <3>2. IsFiniteSet(FinishedJobs')
        BY <3>1, FS_AddElement DEF StoreInv, Times
      <3>3. QED
        BY <2>1, <2>3, <3>2 DEF StoreInv, Times
    <2>5. /\ history' \in Seq(Jobs) /\ Len(history') <= MaxHistory /\ Distinct(history')
          /\ \A x : Holds(history', x) => x = c \/ Holds(history, x)
          /\ Holds(history', c)
          /\ \A a, b \in DOMAIN history' : a < b =>
                \/ history'[b] = c /\ Holds(history, history'[a])
                \/ \E i, k \in DOMAIN history :
                      i < k /\ history'[a] = history[i] /\ history'[b] = history[k]
          /\ \A x : Holds(history, x) /\ ~Holds(history', x) =>
                /\ Len(history') = MaxHistory
                /\ \A y : Holds(history', y) =>
                      y = c \/ \E i, k \in DOMAIN history :
                                  i < k /\ x = history[i] /\ y = history[k]
      BY <2>1, <2>2, AddToHistoryFacts DEF StoreInv, HistoryInv
    <2>6. \A i \in DOMAIN history : history[i] \in Jobs \ {c}
      BY <2>2 DEF StoreInv, HistoryInv, Holds
    <2>7. HistoryInv'
      <3>1. \A j \in Jobs : Holds(history', j) => status'[j] \in Finished
        BY <2>3, <2>5 DEF StoreInv, HistoryInv
      <3>2. ASSUME NEW a \in DOMAIN history', NEW b \in DOMAIN history', a < b
            PROVE  endTime'[history'[a]] <= endTime'[history'[b]]
        <4>1. CASE history'[b] = c /\ Holds(history, history'[a])
          BY <2>3, <2>6, <4>1 DEF Holds
        <4>2. CASE \E i, k \in DOMAIN history :
                      i < k /\ history'[a] = history[i] /\ history'[b] = history[k]
          BY <2>3, <2>6, <4>2 DEF StoreInv, HistoryInv
        <4>3. QED
          BY <2>5, <3>2, <4>1, <4>2
      <3>3. QED
        BY <2>5, <3>1, <3>2 DEF HistoryInv
    <2>8. ASSUME NEW j \in Jobs, status[j] \in Finished
          PROVE  /\ IsFiniteSet(Later(j)')
                 /\ MaxHistory <= Cardinality(Later(j)) => MaxHistory <= Cardinality(Later(j)')
      <3>1. endTime'[j] = endTime[j] /\ \A k \in Jobs : endTime[k] <= endTime'[k]
        BY <2>2, <2>3, <2>8 DEF NoTime
      <3>2. QED
        BY <2>4, <2>8, <3>1, LaterGrows DEF StoreInv
    <2>9. ASSUME NEW j \in Jobs, status[j] \in Finished, Holds(history, j), ~Holds(history', j)
           PROVE  MaxHistory <= Cardinality(Later(j)')
      <3> DEFINE R == {history'[i] : i \in DOMAIN history'}
      <3>1. IsFiniteSet(R) /\ Cardinality(R) = MaxHistory
        BY <2>5, <2>9, DistinctCardinality
      <3>2. ASSUME NEW y \in R PROVE y \in Later(j)'
        <4>1. Holds(history', y) /\ y \in Jobs /\ y # j
          BY <2>5, <2>9 DEF Holds
        <4>2. CASE y = c
          BY <2>2, <2>3, <2>9, <4>1, <4>2 DEF Later
        <4>3. CASE \E i, k \in DOMAIN history : i < k /\ j = history[i] /\ y = history[k]
          <5>1. PICK i, k \in DOMAIN history : i < k /\ j = history[i] /\ y = history[k]
            BY <4>3
          <5>2. y # c /\ endTime[y] >= endTime[j] /\ endTime[y] # NoTime
            <6>1. endTime[j] <= endTime[y] /\ Holds(history, y)
              BY <5>1 DEF StoreInv, HistoryInv, Holds
            <6>2. endTime[y] # NoTime
              BY <4>1, <6>1 DEF StoreInv, HistoryInv, Times
            <6>3. endTime[j] \in Int /\ endTime[y] \in Int
              BY <4>1 DEF StoreInv, SlotInv, StoreTypeOK, NoTime
            <6>4. QED
              BY <2>6, <5>1, <6>1, <6>2, <6>3
          <5>3. endTime'[y] = endTime[y] /\ endTime'[j] = endTime[j]
            BY <2>2, <2>3, <2>9, <4>1, <5>2
          <5>4. QED
            BY <4>1, <5>2, <5>3 DEF Later
        <4>4. QED
          BY <2>5, <2>9, <4>1, <4>2, <4>3
      <3>3. Cardinality(R) <= Cardinality(Later(j)')
        BY <2>8, <2>9, <3>2, FS_Subset
      <3>4. QED
        BY <3>1, <3>3
    <2>10. FinishedKept'
      <3> SUFFICES ASSUME NEW j \in Jobs, status'[j] \in Finished
                   PROVE  \/ Holds(history', j)
                          \/ startTime'[j] + MaxAge <= now'
                          \/ MaxHistory <= Cardinality(Later(j)')
        BY DEF FinishedKept
      <3>1. CASE j = c
        BY <2>5, <3>1
      <3>2. CASE status[j] \in Finished
        BY <2>1, <2>8, <2>9, <3>2 DEF StoreInv, FinishedKept
      <3>3. QED
        BY <2>3, <3>1, <3>2
    <2>11. QED
      BY <2>4, <2>7, <2>10 DEF StoreInv
  <1>3. QED
    BY <1>1, <1>2 DEF FinishCurrentJob

\* Every step of the store keeps slot and history.
LEMMA NextStoreInv == StoreInv /\ [Next]_vars => StoreInv'
  <1> SUFFICES ASSUME StoreInv, [Next]_vars PROVE StoreInv'
    OBVIOUS
  <1>1. SlotInv /\ SlotInv' /\ now \in Nat
    BY NextSlotInv DEF StoreInv, SlotInv, StoreTypeOK
  <1>2. ASSUME NEW j \in Jobs, NewJob(j) PROVE StoreInv'
    BY <1>1, <1>2, FrameStoreInv DEF NewJob, Finished, SlotInv, StoreTypeOK
  <1>3. ASSUME NEW j \in Jobs, status[j] = "pending", TryStartJob(j) PROVE StoreInv'
    BY <1>1, <1>3, FrameStoreInv
    DEF TryStartJob, StartJob, RefuseJob, vars, Finished, SlotInv, StoreTypeOK
  <1>4. CASE CompleteCurrentJob \/ FailCurrentJob
    BY <1>1, <1>4, FinishStoreInv DEF CompleteCurrentJob, FailCurrentJob, Finished
  <1>5. CASE CleanupOldJobs
    BY <1>1, <1>5, CleanupStoreInv
  <1>6. CASE Tick
    <2>1. now' \in Nat /\ now <= now'
      BY <1>1, <1>6 DEF Tick
    <2>2. QED
      BY <1>1, <1>6, <2>1, FrameStoreInv DEF Tick
  <1>7. CASE UNCHANGED vars
    BY <1>1, <1>7, FrameStoreInv DEF vars
  <1>8. QED
    BY <1>2, <1>3, <1>4, <1>5, <1>6, <1>7 DEF Next

LEMMA InitStoreInv == Init => StoreInv
  <1> SUFFICES ASSUME Init PROVE StoreInv
    OBVIOUS
  <1>1. SlotInv
    BY InitSlotInv
  <1>2. HistoryInv
    BY BoundAssumption DEF Init, HistoryInv, Distinct, Holds
  <1>3. FinishedJobs = {}
    BY DEF Init, FinishedJobs, Finished
  <1>4. Times
    BY <1>3, FS_EmptySet DEF Init, Times, Finished, NoTime
  <1>5. FinishedKept
    BY DEF Init, FinishedKept, Finished
  <1>6. QED
    BY <1>1, <1>2, <1>4, <1>5 DEF StoreInv

\* A finished job that may have been dropped may have been dropped ever after,
\* and does not come back to life.
Droppable(j) == startTime[j] + MaxAge <= now \/ MaxHistory <= Cardinality(Later(j))
LEMMA DroppableForever ==
    ASSUME StoreInv, [Next]_vars, NEW j \in Jobs, status[j] \in Finished
    PROVE  /\ status'[j] \in Finished
           /\ Droppable(j) => Droppable(j)'
  <1>1. StoreInv'
    BY NextStoreInv
  <1>2. status'[j] = status[j] /\ endTime'[j] = endTime[j]
    BY FinishedStep DEF StoreInv, vars
  <1>3. startTime'[j] = startTime[j] /\ \A k \in Jobs : endTime[k] <= endTime'[k]
    <2>1. \A k \in Jobs : endTime[k] \in Int /\ endTime[k] <= now
      BY DEF StoreInv, Times, SlotInv, StoreTypeOK, NoTime
    <2>2. now \in Nat
      BY DEF StoreInv, SlotInv, StoreTypeOK
    <2>3. ASSUME NEW k \in Jobs, NewJob(k) PROVE startTime'[j] = startTime[j] /\ endTime' = endTime
      BY <2>3 DEF NewJob, Finished, StoreInv, SlotInv, StoreTypeOK
    <2>4. ASSUME NEW k \in Jobs, TryStartJob(k) PROVE UNCHANGED <<startTime, endTime>>
      BY <2>4 DEF TryStartJob, StartJob, RefuseJob, vars
    <2>5. ASSUME NEW outcome, FinishCurrentJob(outcome)
          PROVE  startTime' = startTime /\ \A k \in Jobs : endTime[k] <= endTime'[k]
      BY <2>1, <2>2, <2>5 DEF FinishCurrentJob, vars, StoreInv, SlotInv, StoreTypeOK
    <2>6. QED
      BY <2>1, <2>3, <2>4, <2>5
      DEF Next, CompleteCurrentJob, FailCurrentJob, CleanupOldJobs, Tick, vars
  <1>4. now \in Nat /\ now' \in Nat /\ now <= now'
    <2>1. now \in Nat /\ now' \in Nat
      BY <1>1 DEF StoreInv, SlotInv, StoreTypeOK
    <2>2. now' = now \/ now' = now + 1
      BY DEF Next, NewJob, TryStartJob, StartJob, RefuseJob, CompleteCurrentJob,
             FailCurrentJob, FinishCurrentJob, CleanupOldJobs, Tick, vars
    <2>3. QED
      BY <2>1, <2>2
  <1>5. startTime[j] \in Nat /\ MaxAge \in Nat
    BY BoundAssumption DEF StoreInv, SlotInv, StoreTypeOK
  <1>6. MaxHistory <= Cardinality(Later(j)) => MaxHistory <= Cardinality(Later(j)')
    BY <1>1, <1>2, <1>3, LaterGrows DEF StoreInv
  <1>7. QED
    BY <1>2, <1>3, <1>4, <1>5, <1>6 DEF Droppable

LEMMA StoreInvariance == Spec => []StoreInv
  BY InitStoreInv, NextStoreInv, PTL DEF Spec

\* The full type invariant: the history never holds the nil pointer.
THEOREM StoreTypeTheorem == Spec => []TypeOK
  <1>1. StoreInv => TypeOK
    BY DEF StoreInv, SlotInv, HistoryInv, TypeOK
  <1>2. QED
    BY StoreInvariance, <1>1, PTL

\* What the invariant says of the history.
LEMMA StoreImplies == StoreInv => HistoryOK /\ Retained
  <1>1. ASSUME StoreInv PROVE HistoryOK
    <2>1. history \in Seq(Jobs) /\ Distinct(history)
      BY <1>1 DEF StoreInv, HistoryInv
    <2>2. Cardinality(ToSet(history)) = Len(history)
      BY <2>1, DistinctCardinality DEF ToSet
    <2>3. ToSet(history) \subseteq {j \in Jobs : status[j] \in Finished}
      BY <1>1, <2>1 DEF StoreInv, HistoryInv, ToSet, Holds
    <2>4. QED
      BY <1>1, <2>2, <2>3 DEF StoreInv, HistoryInv, HistoryOK
  <1>2. ASSUME StoreInv, NEW j \in Jobs, IsRunning(j) PROVE GetJob(j) = j
    BY <1>2 DEF StoreInv, SlotInv, OneRunning, GetJob
  <1>3. ASSUME StoreInv, NEW j \in Jobs, status[j] \in Finished
        PROVE  \/ GetJob(j) = j
               \/ startTime[j] + MaxAge <= now
               \/ MaxHistory <= Cardinality(Later(j))
    <2>1. Holds(history, j) => GetJob(j) = j
      BY DEF GetJob, ToSet, Holds
    <2>2. QED
      BY <1>3, <2>1 DEF StoreInv, FinishedKept
  <1>4. QED
    BY <1>1, <1>2, <1>3 DEF Retained

\* The history holds finished jobs only, each once, in the order in which they
\* finished, and at most MaxHistory, through every trim and cleanup.
THEOREM HistoryTheorem == Spec => []HistoryOK
  BY StoreInvariance, StoreImplies, PTL

\* A running job can always be found, and a finished one until it is too old or
\* displaced by MaxHistory jobs that finished after it.
THEOREM RetainedTheorem == Spec => []Retained
  BY StoreInvariance, StoreImplies, PTL

=============================================================================
