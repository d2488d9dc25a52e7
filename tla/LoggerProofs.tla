---------------------------- MODULE LoggerProofs ----------------------------
(***************************************************************************)
(* Proofs about Logger, for every limit and every number of lines, files   *)
(* and failures: the output, the package's file and the open descriptors   *)
(* agree, so lines are lost only while a rotation has the file closed; and *)
(* rotations and cleanups keep the lines of the newest backups.            *)
(*                                                                         *)
(* OutputLive is not inductive: Initialize keeps it only because the reset *)
(* of once comes after the file is closed and the monitor has left, and    *)
(* Close keeps it only because a rotation holds the mutex throughout       *)
(* (Control).  BackupsKept needs the order of the files: the one at the    *)
(* path is the newest (Current), the backups are sorted by age (Older), so *)
(* the end that a cleanup removes is the oldest.                           *)
(***************************************************************************)
EXTENDS Logger, QueueLemmas, TLAPS

\* Who holds the mutex, and what a reset once means.
Control ==
    /\ monitor \in {"closed", "cleaning"} <=> mu = "monitor"
    /\ closer = "redirected" <=> mu = "close"
    /\ closer = "redirected" => monitor = "none"
    /\ ~once => logFile = NoFile /\ monitor = "none"
    /\ ~instance => ~once
    /\ once \in BOOLEAN /\ instance \in BOOLEAN

LoggerInv == Control /\ OutputLive

-----------------------------------------------------------------------------

\* No file, no monitor, and nobody in Close.
LEMMA InitLoggerInv == Init => LoggerInv
  BY DEF Init, LoggerInv, Control, OutputLive, NoFile

\* Initialize runs when no file is open, and opens one or none.
LEMMA InitializeLoggerInv == LoggerInv /\ Initialize => LoggerInv'
  <1> SUFFICES ASSUME LoggerInv, Initialize PROVE LoggerInv'
    OBVIOUS
  <1>1. /\ logFile = NoFile /\ monitor = "none" /\ closer = "idle" /\ mu \notin {"monitor", "close"}
        /\ handles = {} /\ output = NoFile
    BY DEF LoggerInv, Control, OutputLive, Initialize
  <1>2. UNCHANGED <<mu, closer>> /\ once' = TRUE /\ instance' = TRUE
    BY DEF Initialize
  <1>3. CASE UNCHANGED <<output, logFile, monitor, handles>>
    BY <1>1, <1>2, <1>3 DEF LoggerInv, Control, OutputLive
  <1>4. CASE \E f \in 1 .. MaxFiles : logFile' = f /\ output' = f /\ handles' = handles \cup {f}
    <2>1. monitor' \in {"none", "waiting"}
      BY <1>1, <1>4 DEF Initialize, NoFile
    <2>2. PICK f \in 1 .. MaxFiles : logFile' = f /\ output' = f /\ handles' = {f}
      BY <1>1, <1>4
    <2>3. f # NoFile
      BY LoggerAssumption DEF NoFile
    <2>4. Control'
      BY <1>1, <1>2, <2>1 DEF Control
    <2>5. OutputLive'
      BY <1>1, <1>2, <2>1, <2>2, <2>3 DEF OutputLive
    <2>6. QED
      BY <2>4, <2>5 DEF LoggerInv
  <1>5. QED
    BY <1>3, <1>4 DEF Initialize

\* A line moves nothing but the contents.
LEMMA LogLoggerInv == LoggerInv /\ Log => LoggerInv'
  BY DEF LoggerInv, Control, OutputLive, Log

\* The monitor closes the file only with the mutex, and replaces it before it
\* gives the mutex back.
LEMMA MonitorLoggerInv == LoggerInv /\ (Monitor \/ MonitorTick) => LoggerInv'
  <1> SUFFICES ASSUME LoggerInv, Monitor \/ MonitorTick PROVE LoggerInv'
    OBVIOUS
  <1>1. CASE MonitorLeave \/ MonitorTick
    BY <1>1 DEF MonitorLeave, MonitorTick, LoggerInv, Control, OutputLive, diskVars
  <1>2. CASE CheckSize
    <2>1. /\ monitor = "ticked" /\ mu = "free" /\ closer # "redirected" /\ once
          /\ UNCHANGED <<once, instance, output, logFile, closer>>
      BY <1>2 DEF CheckSize, LoggerInv, Control
    <2>2. \/ handles' = handles \ {logFile} /\ monitor' = "closed" /\ mu' = "monitor"
          \/ UNCHANGED <<handles, mu>> /\ monitor' = "waiting"
      BY <1>2 DEF CheckSize
    <2>3. QED
      BY <2>1, <2>2 DEF LoggerInv, Control, OutputLive
  <1>3. CASE Reopen
    <2>1. /\ monitor = "closed" /\ monitor' = "cleaning" /\ closer # "redirected" /\ once
          /\ handles = {} /\ UNCHANGED <<once, instance, mu, closer>>
      BY <1>3 DEF Reopen, LoggerInv, Control, OutputLive
    <2>2. \/ logFile' = NoFile /\ output' = NoFile /\ handles' = {}
          \/ \E f \in 1 .. MaxFiles : logFile' = f /\ output' = f /\ handles' = {f}
      BY <1>3, <2>1 DEF Reopen
    <2>3. \A f \in 1 .. MaxFiles : f # NoFile
      BY LoggerAssumption DEF NoFile
    <2>4. OutputLive'
      BY <2>1, <2>2, <2>3 DEF OutputLive
    <2>5. QED
      BY <2>1, <2>4 DEF LoggerInv, Control
  <1>4. CASE CleanOldBackups
    <2>1. /\ monitor = "cleaning" /\ monitor' = "waiting" /\ mu' = "free"
          /\ UNCHANGED <<once, instance, output, logFile, closer, handles>>
      BY <1>4 DEF CleanOldBackups
    <2>2. QED
      BY <2>1 DEF LoggerInv, Control, OutputLive
  <1>5. QED
    BY <1>1, <1>2, <1>3, <1>4 DEF Monitor

\* Close resets the output, then closes the file, then forgets it.
LEMMA CloseLoggerInv == LoggerInv /\ (CloseStop \/ CloseEnd) => LoggerInv'
  <1> SUFFICES ASSUME LoggerInv, CloseStop \/ CloseEnd PROVE LoggerInv'
    OBVIOUS
  <1>1. CASE CloseStop
    BY <1>1 DEF CloseStop, LoggerInv, Control, OutputLive, diskVars
  <1>2. CASE CloseRedirect
    BY <1>2 DEF CloseRedirect, LoggerInv, Control, OutputLive, diskVars
  <1>3. CASE CloseFile
    BY <1>3 DEF CloseFile, LoggerInv, Control, OutputLive
  <1>4. QED
    BY <1>1, <1>2, <1>3 DEF CloseEnd

\* Every step keeps the invariant.
LEMMA NextLoggerInv == LoggerInv /\ [Next]_vars => LoggerInv'
  <1>1. ASSUME LoggerInv, UNCHANGED vars PROVE LoggerInv'
    BY <1>1 DEF vars, loggerVars, diskVars, LoggerInv, Control, OutputLive
  <1>2. QED
    BY <1>1, InitializeLoggerInv, LogLoggerInv, MonitorLoggerInv, CloseLoggerInv DEF Next

\* Initialize, rotations with failing renames and opens, and Close leave no
\* descriptor behind and never leave the logger writing to a file that is not
\* the package's own.
THEOREM OutputLiveTheorem == Spec => []OutputLive
  <1>1. LoggerInv => OutputLive
    BY DEF LoggerInv
  <1>2. QED
    BY InitLoggerInv, NextLoggerInv, <1>1, PTL DEF Spec

\* A line is lost only between the close and the reopening of a rotation.
THEOREM LostOnlyInRotationTheorem == Spec => LostOnlyInRotation
  <1>1. LoggerInv /\ [Next]_vars => [lost' # lost => monitor = "closed"]_vars
    <2> SUFFICES ASSUME LoggerInv, Next, lost' # lost PROVE monitor = "closed"
      BY DEF vars
    <2>1. Log
      BY DEF Next, Initialize, MonitorTick, Monitor, MonitorLeave, CheckSize, Reopen,
             CleanOldBackups, CloseStop, CloseEnd, CloseRedirect, CloseFile
    <2>2. output # NoFile /\ output \notin handles
      BY <2>1 DEF Log
    <2>3. QED
      BY <2>2 DEF LoggerInv, OutputLive
  <1>2. QED
    BY InitLoggerInv, NextLoggerInv, <1>1, PTL DEF Spec, LostOnlyInRotation

-----------------------------------------------------------------------------
(* The files on disk.                                                      *)

\* The file at the path is the newest one, and it is the package's file if
\* there is one; a rotation starts with a file.
Current ==
    /\ files \in 0 .. MaxFiles
    /\ path \in {NoFile, files}
    /\ logFile # NoFile => path = logFile
    /\ monitor = "closed" => logFile # NoFile

\* The backups are in the order in which they were files, and older than the
\* file at the path, as are those that were removed.
Older ==
    /\ backups \in Seq(Files)
    /\ \A i, j \in DOMAIN backups : i < j => backups[i] < backups[j]
    /\ removed \subseteq Files
    /\ \A b \in Files : Holds(backups, b) \/ b \in removed => b <= files /\ b # path

\* The lines are in files whose fate is known.
Written ==
    /\ content \in [Files -> SUBSET Nat] /\ lines \in Nat
    /\ \A f \in Files : content[f] # {} => Holds(backups, f) \/ f \in removed \/ f = path

\* A removed backup was older than MaxBackups others that are on disk.
Outlived ==
    \A f \in removed : MaxBackups <= Cardinality({b \in ToSet(backups) : b > f})

\* A backup too many is one that could not be removed, or the latest.
Few ==
    /\ faults \in Nat
    /\ Len(backups) <= MaxBackups + faults + (IF monitor = "cleaning" THEN 1 ELSE 0)

DiskInv == Current /\ Older /\ Written /\ Outlived /\ Few

\* Nothing is on disk.
LEMMA InitDiskInv == Init => DiskInv
  <1> SUFFICES ASSUME Init PROVE DiskInv
    OBVIOUS
  <1> USE DEF Init
  <1>1. Current
    BY LoggerAssumption DEF Current, NoFile
  <1>2. Older
    BY DEF Older, Holds, Files
  <1>3. Written
    BY DEF Written, Files
  <1>4. Outlived /\ Few
    BY LoggerAssumption DEF Outlived, Few
  <1>5. QED
    BY <1>1, <1>2, <1>3, <1>4 DEF DiskInv

\* The file that Initialize or a rotation opens is the newest one.
LEMMA OpenNewest ==
    ASSUME NEW p \in {NoFile, files}, NEW f \in 1 .. MaxFiles, files \in 0 .. MaxFiles,
           Open(p, f)
    PROVE  /\ files' \in 0 .. MaxFiles /\ path' = f /\ files' = f /\ f # NoFile
           /\ p # NoFile => f = files
           /\ p = NoFile => f = files + 1
  BY LoggerAssumption DEF Open, NoFile

\* Initialize continues the file at the path, or starts one that is newer
\* than every backup.
LEMMA InitializeDiskInv == LoggerInv /\ DiskInv /\ Initialize => DiskInv'
  <1> SUFFICES ASSUME LoggerInv, DiskInv, Initialize PROVE DiskInv'
    OBVIOUS
  <1>1. /\ logFile = NoFile /\ monitor = "none"
        /\ UNCHANGED <<backups, content, removed, lines>>
    BY DEF LoggerInv, Control, Initialize
  <1>2. monitor' \in {"none", "waiting"}
    BY <1>1 DEF Initialize
  <1>3. Current /\ Older /\ Written /\ Outlived /\ Few
    BY DEF DiskInv
  <1>4. Current' /\ (path # NoFile => path' = path) /\ files <= files'
        /\ (path' # path => path' = files + 1)
    <2>1. CASE UNCHANGED <<logFile, path, files>>
      BY <1>1, <1>2, <1>3, <2>1 DEF Current
    <2>2. CASE \E f \in 1 .. MaxFiles : Open(path, f) /\ logFile' = f
      <3>1. PICK f \in 1 .. MaxFiles : Open(path, f) /\ logFile' = f
        BY <2>2
      <3>2. /\ files' \in 0 .. MaxFiles /\ path' = f /\ files' = f /\ f # NoFile
            /\ path # NoFile => f = files
            /\ path = NoFile => f = files + 1
        BY <1>3, <3>1, OpenNewest DEF Current
      <3>3. QED
        BY <1>2, <1>3, <3>1, <3>2 DEF Current
    <2>3. QED
      BY <2>1, <2>2 DEF Initialize
  <1>5. Older'
    <2>1. ASSUME NEW b \in Files, Holds(backups, b) \/ b \in removed
          PROVE  b <= files' /\ b # path'
      <3>1. b <= files /\ b # path
        BY <1>3, <2>1 DEF Older
      <3>2. QED
        BY <1>3, <1>4, <3>1 DEF Current, Files
    <2>2. QED
      BY <1>1, <1>3, <2>1 DEF Older
  <1>6. Written'
    <2>1. ASSUME NEW f \in Files, content[f] # {} PROVE Holds(backups, f) \/ f \in removed \/ f = path'
      <3>1. f # NoFile
        BY LoggerAssumption DEF Files, NoFile
      <3>2. QED
        BY <1>3, <1>4, <2>1, <3>1 DEF Written
    <2>2. QED
      BY <1>1, <1>3, <2>1 DEF Written
  <1>7. Outlived'
    BY <1>1, <1>3 DEF Outlived
  <1>8. Few'
    <2>1. faults' \in Nat /\ faults <= faults'
      BY <1>3 DEF Initialize, Fault, Few
    <2>2. Len(backups) \in Nat
      BY <1>3 DEF Older
    <2>3. QED
      BY <1>1, <1>2, <1>3, <2>1, <2>2, LoggerAssumption DEF Few
  <1>9. QED
    BY <1>4, <1>5, <1>6, <1>7, <1>8 DEF DiskInv

\* A line is written to the file at the path or to none.
LEMMA LogDiskInv == LoggerInv /\ DiskInv /\ Log => DiskInv'
  <1> SUFFICES ASSUME LoggerInv, DiskInv, Log PROVE DiskInv'
    OBVIOUS
  <1>1. UNCHANGED <<logFile, monitor, path, backups, removed, files, faults>>
    BY DEF Log
  <1>2. Current /\ Older /\ Written /\ Outlived /\ Few
    BY DEF DiskInv
  <1>3. Current' /\ Older' /\ Outlived' /\ Few'
    BY <1>1, <1>2 DEF Current, Older, Outlived, Few
  <1>4. lines' \in Nat
    BY <1>2 DEF Log, Written
  <1>5. CASE UNCHANGED content
    BY <1>1, <1>2, <1>3, <1>4, <1>5 DEF Written, DiskInv
  <1>6. CASE output \in handles /\ content' = [content EXCEPT ![output] = @ \cup {lines'}]
    <2>1. output = path
      BY <1>2, <1>6 DEF LoggerInv, OutputLive, Current
    <2>2. content' \in [Files -> SUBSET Nat]
      BY <1>2, <1>4, <1>6 DEF Written
    <2>3. \A f \in Files : f # path => content'[f] = content[f]
      BY <1>2, <1>6, <2>1 DEF Written
    <2>4. Written'
      BY <1>1, <1>2, <1>4, <2>2, <2>3 DEF Written
    <2>5. QED
      BY <1>3, <2>4 DEF DiskInv
  <1>7. QED
    BY <1>5, <1>6 DEF Log

\* Ticks, checks of the size and Close move no file.
LEMMA QuietDiskInv ==
    LoggerInv /\ DiskInv /\ (MonitorLeave \/ MonitorTick \/ CheckSize \/ CloseStop \/ CloseEnd)
      => DiskInv'
  <1> SUFFICES ASSUME LoggerInv, DiskInv,
                      MonitorLeave \/ MonitorTick \/ CheckSize \/ CloseStop \/ CloseEnd
               PROVE  DiskInv'
    OBVIOUS
  <1>1. /\ UNCHANGED <<path, backups, content, removed, files, lines>>
        /\ monitor' = monitor \/ monitor # "cleaning"
        /\ monitor' # "cleaning" \/ monitor = "cleaning"
    BY DEF MonitorLeave, MonitorTick, CheckSize, CloseStop, CloseEnd, CloseRedirect, CloseFile,
           diskVars
  <1>2. Current /\ Older /\ Written /\ Outlived /\ Few
    BY DEF DiskInv
  <1>3. Older' /\ Written' /\ Outlived'
    BY <1>1, <1>2 DEF Older, Written, Outlived
  <1>4. faults' \in Nat /\ faults <= faults'
    BY <1>2 DEF MonitorLeave, MonitorTick, CheckSize, CloseStop, CloseEnd, CloseRedirect,
                CloseFile, diskVars, Fault, Few
  <1>5. Few'
    <2>1. Len(backups) \in Nat
      BY <1>2 DEF Older
    <2>2. QED
      BY <1>1, <1>2, <1>4, <2>1, LoggerAssumption DEF Few
  <1>6. Current'
    <2>1. CASE UNCHANGED <<logFile, monitor>>
      BY <1>1, <1>2, <2>1 DEF Current
    <2>2. CASE UNCHANGED logFile /\ monitor' # "closed"
      BY <1>1, <1>2, <2>2 DEF Current
    <2>3. CASE UNCHANGED logFile /\ TooLarge
      BY <1>1, <1>2, <2>3 DEF Current, TooLarge
    <2>4. CASE CloseFile
      BY <1>1, <1>2, <2>4 DEF CloseFile, Current, LoggerInv, Control
    <2>5. QED
      BY <2>1, <2>2, <2>3, <2>4 DEF MonitorLeave, MonitorTick, CheckSize, CloseStop, CloseEnd,
                                    CloseRedirect
  <1>7. QED
    BY <1>3, <1>5, <1>6 DEF DiskInv

\* The backups are distinct files, finitely many.
LEMMA BackupFiles ==
    ASSUME Older
    PROVE  /\ Distinct(backups) /\ Len(backups) \in Nat /\ DOMAIN backups = 1 .. Len(backups)
           /\ IsFiniteSet(ToSet(backups)) /\ ToSet(backups) \subseteq Files
           /\ \A b : b \in ToSet(backups) <=> Holds(backups, b)
  <1>0. Files \subseteq Int
    BY LoggerAssumption DEF Files
  <1>1. /\ backups \in Seq(Files) /\ Len(backups) \in Nat /\ DOMAIN backups = 1 .. Len(backups)
        /\ \A i \in DOMAIN backups : backups[i] \in Files
    BY DEF Older
  <1>2. Distinct(backups)
    <2>1. ASSUME NEW i \in DOMAIN backups, NEW k \in DOMAIN backups, i < k
          PROVE  backups[i] # backups[k]
      <3>1. backups[i] \in Int /\ backups[k] \in Int /\ backups[i] < backups[k]
        BY <1>0, <1>1, <2>1 DEF Older
      <3>2. QED
        BY <3>1
    <2>2. ASSUME NEW i \in DOMAIN backups, NEW k \in DOMAIN backups, i # k
          PROVE  i < k \/ k < i
      BY <1>1, <2>2
    <2>3. QED
      BY <2>1, <2>2 DEF Distinct
  <1>3. IsFiniteSet(ToSet(backups))
    BY <1>1, <1>2, DistinctCardinality DEF ToSet
  <1>4. ToSet(backups) \subseteq Files
    BY <1>1 DEF ToSet
  <1>5. \A b : b \in ToSet(backups) <=> Holds(backups, b)
    BY DEF ToSet, Holds
  <1>6. QED
    BY <1>1, <1>2, <1>3, <1>4, <1>5

\* The rename makes the file at the path the newest backup; what is opened
\* then is newer still, or the same file if the rename failed.
LEMMA ReopenDiskInv == LoggerInv /\ DiskInv /\ Reopen => DiskInv'
  <1> SUFFICES ASSUME LoggerInv, DiskInv, Reopen PROVE DiskInv'
    OBVIOUS
  <1>1. Current /\ Older /\ Written /\ Outlived /\ Few
    BY DEF DiskInv
  <1>2. /\ monitor = "closed" /\ monitor' = "cleaning" /\ UNCHANGED <<content, removed, lines>>
        /\ path = files /\ path # NoFile /\ path \in Files /\ files \in Nat
    <2>1. monitor = "closed" /\ monitor' = "cleaning" /\ UNCHANGED <<content, removed, lines>>
      BY DEF Reopen
    <2>2. QED
      BY <1>1, <2>1, LoggerAssumption DEF Current, Files, NoFile
  <1>3. PICK renamed \in BOOLEAN, opened \in BOOLEAN :
          /\ backups' = IF renamed THEN Append(backups, path) ELSE backups
          /\ faults' = faults + (IF renamed THEN 0 ELSE 1) + (IF opened THEN 0 ELSE 1)
          /\ IF opened
             THEN \E f \in 1 .. MaxFiles :
                    Open(IF renamed THEN NoFile ELSE path, f) /\ logFile' = f
             ELSE /\ path' = IF renamed THEN NoFile ELSE path
                  /\ logFile' = NoFile
                  /\ UNCHANGED files
    BY DEF Reopen
  <1>4. faults' \in Nat /\ faults <= faults'
    BY <1>1, <1>3 DEF Few
  <1>5. /\ files' \in 0 .. MaxFiles /\ files <= files' /\ path' \in {NoFile, files'}
        /\ logFile' # NoFile => path' = logFile'
        /\ renamed => path' # path
        /\ ~renamed => path' = path
    <2>1. CASE ~opened
      BY <1>1, <1>2, <1>3, <2>1 DEF Current
    <2>2. CASE opened
      <3> DEFINE p == IF renamed THEN NoFile ELSE path
      <3>1. PICK f \in 1 .. MaxFiles : Open(p, f) /\ logFile' = f
        BY <1>3, <2>2
      <3>2. p \in {NoFile, files} /\ files \in 0 .. MaxFiles
        BY <1>1, <1>2 DEF Current
      <3>3. /\ files' \in 0 .. MaxFiles /\ path' = f /\ files' = f
            /\ p # NoFile => f = files
            /\ p = NoFile => f = files + 1
        BY <3>1, <3>2, OpenNewest
      <3>4. QED
        BY <1>2, <3>1, <3>3
    <2>3. QED
      BY <2>1, <2>2
  <1>6. Current'
    BY <1>2, <1>5 DEF Current
  <1>7. /\ backups \in Seq(Files) /\ Len(backups) \in Nat /\ DOMAIN backups = 1 .. Len(backups)
        /\ \A i \in DOMAIN backups : backups[i] \in Files /\ backups[i] < path
    <2>1. ASSUME NEW i \in DOMAIN backups PROVE backups[i] \in Files /\ backups[i] < path
      <3>1. backups[i] \in Files /\ Holds(backups, backups[i])
        BY <1>1, <2>1 DEF Older, Holds
      <3>2. backups[i] <= files /\ backups[i] # path
        BY <1>1, <3>1 DEF Older
      <3>3. QED
        BY <1>2, <3>1, <3>2 DEF Files
    <2>2. QED
      BY <1>1, <2>1 DEF Older
  <1>8. CASE ~renamed
    <2>1. UNCHANGED <<backups, path>>
      BY <1>3, <1>5, <1>8
    <2>2. Older'
      <3>1. ASSUME NEW b \in Files, Holds(backups, b) \/ b \in removed PROVE b <= files'
        BY <1>1, <1>2, <1>5, <3>1 DEF Older, Files
      <3>2. QED
        BY <1>1, <1>2, <2>1, <3>1 DEF Older
    <2>3. Written' /\ Outlived'
      BY <1>1, <1>2, <2>1 DEF Written, Outlived
    <2>4. Few'
      BY <1>1, <1>2, <1>4, <1>7, <2>1, LoggerAssumption DEF Few
    <2>5. QED
      BY <1>6, <2>2, <2>3, <2>4 DEF DiskInv
  <1>9. CASE renamed
    <2>1. backups' = Append(backups, path) /\ path' # path
      BY <1>3, <1>5, <1>9
    <2>2. /\ backups' \in Seq(Files) /\ Len(backups') = Len(backups) + 1
          /\ DOMAIN backups' = 1 .. Len(backups) + 1
          /\ \A i \in 1 .. Len(backups) : backups'[i] = backups[i]
          /\ backups'[Len(backups) + 1] = path
      BY <1>2, <1>7, <2>1
    <2>3. \A x : Holds(backups', x) <=> (x = path \/ Holds(backups, x))
      BY <1>2, <1>7, <2>1, AppendHolds
    <2>4. Older'
      <3>1. ASSUME NEW i \in DOMAIN backups', NEW j \in DOMAIN backups', i < j
            PROVE  backups'[i] < backups'[j]
        <4>1. i \in 1 .. Len(backups) /\ backups'[i] = backups[i]
          BY <1>7, <2>2, <3>1
        <4>2. CASE j = Len(backups) + 1
          BY <1>7, <2>2, <4>1, <4>2
        <4>3. CASE j \in 1 .. Len(backups)
          BY <1>1, <1>7, <2>2, <3>1, <4>1, <4>3 DEF Older
        <4>4. QED
          BY <1>7, <2>2, <4>2, <4>3
      <3>2. ASSUME NEW b \in Files, Holds(backups', b) \/ b \in removed
            PROVE  b <= files' /\ b # path'
        <4>1. b <= files
          BY <1>1, <1>2, <2>3, <3>2 DEF Older
        <4>2. b <= files' /\ (path' = NoFile \/ path' > files)
          BY <1>2, <1>5, <2>1, <4>1 DEF Files
        <4>3. QED
          BY <1>2, <4>1, <4>2, LoggerAssumption DEF Files, NoFile
      <3>3. QED
        BY <1>1, <1>2, <2>2, <3>1, <3>2 DEF Older
    <2>5. Written'
      BY <1>1, <1>2, <2>3 DEF Written
    <2>6. Outlived'
      <3>1. ASSUME NEW f \in removed
            PROVE  MaxBackups <= Cardinality({b \in ToSet(backups') : b > f})
        <4> DEFINE X == {b \in ToSet(backups) : b > f}
                   Y == {b \in ToSet(backups') : b > f}
        <4>1. IsFiniteSet(ToSet(backups'))
          <5>0. \A i \in DOMAIN backups' : backups'[i] \in Files
            BY <2>2
          <5>1. ToSet(backups') \subseteq 1 .. MaxFiles
            BY <5>0 DEF ToSet, Files
          <5>2. IsFiniteSet(1 .. MaxFiles)
            BY LoggerAssumption, FS_Interval
          <5>3. QED
            BY <5>1, <5>2, FS_Subset
        <4>2. IsFiniteSet(Y)
          BY <4>1, FS_Subset
        <4>3. X \subseteq Y
          BY <1>7, <2>2 DEF ToSet
        <4>4. Cardinality(X) <= Cardinality(Y) /\ Cardinality(X) \in Nat /\ Cardinality(Y) \in Nat
          BY <4>2, <4>3, FS_Subset, FS_CardinalityType
        <4>5. MaxBackups <= Cardinality(X)
          BY <1>1 DEF Outlived
        <4>6. QED
          BY <4>4, <4>5, LoggerAssumption
      <3>2. QED
        BY <1>2, <3>1 DEF Outlived
    <2>7. Few'
      BY <1>1, <1>2, <1>4, <1>7, <2>2, LoggerAssumption DEF Few
    <2>8. QED
      BY <1>6, <2>4, <2>5, <2>6, <2>7 DEF DiskInv
  <1>10. QED
    BY <1>8, <1>9

\* The cleanup removes from the oldest end, so that the newest MaxBackups stay
\* and have outlived everything that was ever removed.
LEMMA CleanDiskInv == LoggerInv /\ DiskInv /\ CleanOldBackups => DiskInv'
  <1> SUFFICES ASSUME LoggerInv, DiskInv, CleanOldBackups PROVE DiskInv'
    OBVIOUS
  <1> DEFINE n == Len(backups)
             L == {backups[i] : i \in n - MaxBackups + 1 .. n}
  <1>1. Current /\ Older /\ Written /\ Outlived /\ Few
    BY DEF DiskInv
  <1>2. /\ monitor = "cleaning" /\ monitor' = "waiting"
        /\ UNCHANGED <<logFile, path, content, files, lines>>
    BY DEF CleanOldBackups
  <1>3. PICK kept \in SUBSET Excess :
          /\ IF kept = {} THEN UNCHANGED faults ELSE Fault
          /\ backups' = Keep(backups, (1 .. MaxFiles) \ (Excess \ kept))
          /\ removed' = removed \cup (Excess \ kept)
    BY DEF CleanOldBackups
  <1> DEFINE gone == Excess \ kept
  <1>4. /\ Distinct(backups) /\ n \in Nat /\ DOMAIN backups = 1 .. n
        /\ backups \in Seq(Files) /\ Files \subseteq Int /\ MaxBackups \in Nat
        /\ IsFiniteSet(ToSet(backups)) /\ ToSet(backups) \subseteq Files
        /\ \A b : b \in ToSet(backups) <=> Holds(backups, b)
    BY <1>1, BackupFiles, LoggerAssumption DEF Older, Files
  <1>5. \A i \in 1 .. n : backups[i] \in Files /\ Holds(backups, backups[i])
    BY <1>4 DEF Holds
  <1>6. gone \subseteq Files /\ \A b \in gone : Holds(backups, b)
    <2>1. \A b \in Excess : b \in Files /\ Holds(backups, b)
      BY <1>4, <1>5 DEF Excess
    <2>2. QED
      BY <2>1
  <1>7. /\ backups' \in Seq(Files) /\ Len(backups') <= n /\ Distinct(backups')
        /\ \A x : Holds(backups', x) <=> (Holds(backups, x) /\ x \notin gone)
        /\ \A a, c \in DOMAIN backups' : a < c =>
              \E i, j \in DOMAIN backups : i < j /\ backups'[a] = backups[i] /\ backups'[c] = backups[j]
    <2> DEFINE S == (1 .. MaxFiles) \ gone
    <2>1. backups' = Keep(backups, S)
      BY <1>3
    <2>2. \A x : Holds(backups, x) => x \in 1 .. MaxFiles
      BY <1>4 DEF Files
    <2> HIDE DEF S, gone
    <2>3. /\ Keep(backups, S) \in Seq(Files)
          /\ \A x : Holds(Keep(backups, S), x) <=> (Holds(backups, x) /\ x \in S)
          /\ \A a, c \in DOMAIN Keep(backups, S) : a < c =>
                \E i, j \in DOMAIN backups :
                   i < j /\ Keep(backups, S)[a] = backups[i] /\ Keep(backups, S)[c] = backups[j]
          /\ Len(Keep(backups, S)) <= Len(backups)
          /\ Distinct(backups) => Distinct(Keep(backups, S))
      BY <1>4, KeepFacts
    <2>4. \A x : (Holds(backups, x) /\ x \in S) <=> (Holds(backups, x) /\ x \notin gone)
      BY <2>2 DEF S
    <2>5. QED
      BY <1>4, <2>1, <2>3, <2>4
  <1>8. removed' = removed \cup gone
    BY <1>3
  <1> HIDE DEF gone
  <1>9. Current'
    BY <1>1, <1>2 DEF Current
  <1>10. Older'
    <2>1. \A a, c \in DOMAIN backups' : a < c => backups'[a] < backups'[c]
      BY <1>1, <1>7 DEF Older
    <2>2. ASSUME NEW b \in Files, Holds(backups', b) \/ b \in removed'
          PROVE  b <= files /\ b # path
      BY <1>1, <1>6, <1>7, <1>8, <2>2 DEF Older
    <2>3. removed' \subseteq Files
      BY <1>1, <1>6, <1>8 DEF Older
    <2>4. QED
      BY <1>2, <1>7, <2>1, <2>2, <2>3 DEF Older
  <1>11. Written'
    BY <1>1, <1>2, <1>7, <1>8 DEF Written
  <1>12. ASSUME n <= MaxBackups PROVE Excess = {} /\ gone = {}
    <2>1. 1 .. n - MaxBackups = {}
      BY <1>4, <1>12
    <2>2. QED
      BY <2>1 DEF Excess, gone
  <1>13. ASSUME n > MaxBackups
         PROVE  /\ IsFiniteSet(L) /\ Cardinality(L) = MaxBackups
                /\ \A x \in L : Holds(backups, x) /\ x \in Files
                /\ \A f \in Excess, x \in L : f < x
                /\ \A x : Holds(backups, x) <=> x \in L \cup Excess
    <2>1. n - MaxBackups \in 0 .. n /\ n - (n - MaxBackups) = MaxBackups
      BY <1>4, <1>13
    <2>2. IsFiniteSet(L) /\ Cardinality(L) = MaxBackups
      <3>1. IsFiniteSet(L) /\ Cardinality(L) = n - (n - MaxBackups)
        BY <1>4, <2>1, LastCardinality
      <3>2. QED
        BY <2>1, <3>1
    <2>3. \A i \in n - MaxBackups + 1 .. n : i \in 1 .. n
      BY <1>4, <1>13
    <2>4. \A i \in 1 .. n - MaxBackups : i \in 1 .. n
      BY <1>4, <1>13
    <2>5. \A i \in 1 .. n : i \in n - MaxBackups + 1 .. n \/ i \in 1 .. n - MaxBackups
      BY <1>4, <1>13
    <2>6. \A x \in L : Holds(backups, x) /\ x \in Files
      BY <1>5, <2>3
    <2>7. ASSUME NEW i \in 1 .. n - MaxBackups, NEW j \in n - MaxBackups + 1 .. n
          PROVE  backups[i] < backups[j]
      <3>1. i < j /\ i \in DOMAIN backups /\ j \in DOMAIN backups
        BY <1>4, <2>3, <2>4
      <3>2. QED
        BY <1>1, <3>1 DEF Older
    <2>8. \A x : Holds(backups, x) <=> x \in L \cup Excess
      BY <1>4, <2>3, <2>4, <2>5 DEF Holds, Excess
    <2>9. QED
      BY <2>2, <2>6, <2>7, <2>8 DEF Excess
  <1> HIDE DEF L, n
  <1>14. \A b : b \in ToSet(backups') <=> Holds(backups', b)
    BY DEF ToSet, Holds
  <1>15. IsFiniteSet(ToSet(backups'))
    <2>1. ToSet(backups') \subseteq ToSet(backups)
      BY <1>4, <1>7, <1>14
    <2>2. QED
      BY <1>4, <2>1, FS_Subset
  <1>16. Outlived'
    <2> SUFFICES ASSUME NEW f \in removed'
                 PROVE  MaxBackups <= Cardinality({b \in ToSet(backups') : b > f})
      BY DEF Outlived
    <2> DEFINE X == {b \in ToSet(backups) : b > f}
               Y == {b \in ToSet(backups') : b > f}
    <2>1. IsFiniteSet(Y) /\ Cardinality(Y) \in Nat
      BY <1>15, FS_Subset, FS_CardinalityType
    <2>2. CASE n <= MaxBackups
      <3>1. f \in removed /\ X = Y
        BY <1>4, <1>7, <1>8, <1>12, <1>14, <2>2
      <3>2. QED
        BY <1>1, <3>1 DEF Outlived
    <2>3. CASE n > MaxBackups /\ \A x \in L : x > f
      <3>1. L \subseteq Y
        <4>1. \A x \in L : Holds(backups, x) /\ x \notin gone
          <5>1. ASSUME NEW x \in L, x \in gone PROVE FALSE
            <6>1. x \in Excess
              BY <5>1 DEF gone
            <6>2. x < x /\ x \in Int
              BY <1>4, <1>13, <2>3, <6>1
            <6>3. QED
              BY <6>2
          <5>2. QED
            BY <1>13, <2>3, <5>1
        <4>2. QED
          BY <1>7, <1>14, <2>3, <4>1
      <3>2. Cardinality(L) <= Cardinality(Y)
        BY <2>1, <3>1, FS_Subset
      <3>3. QED
        BY <1>13, <2>3, <3>2
    <2>4. CASE n > MaxBackups /\ ~ \A x \in L : x > f
      <3>1. PICK i \in n - MaxBackups + 1 .. n : ~(backups[i] > f)
        BY <2>4 DEF L
      <3>2. f \notin gone
        BY <1>13, <2>4 DEF gone
      <3>3. f \in removed /\ f \in Int
        BY <1>1, <1>4, <1>8, <3>2 DEF Older
      <3>4. i \in 1 .. n /\ i \in 0 .. n
        BY <1>4, <2>4
      <3>5. backups[i] \in Int /\ backups[i] <= f
        <4>1. backups[i] \in Int
          BY <1>4, <1>5, <3>4
        <4>2. QED
          BY <3>1, <3>3, <4>1
      <3> DEFINE R == {backups[j] : j \in i + 1 .. n}
      <3>6. IsFiniteSet(R) /\ Cardinality(R) = n - i
        BY <1>4, <3>4, LastCardinality DEF n
      <3>7. X \subseteq R
        <4>1. ASSUME NEW j \in 1 .. n, backups[j] > f PROVE j \in i + 1 .. n
          <5>1. backups[j] \in Int
            BY <1>4, <1>5
          <5>2. CASE j < i
            <6>1. backups[j] < backups[i]
              BY <1>1, <1>4, <3>4, <5>2 DEF Older
            <6>2. QED
              BY <3>3, <3>5, <4>1, <5>1, <6>1
          <5>3. CASE j = i
            BY <3>3, <3>5, <4>1, <5>3
          <5>4. QED
            BY <1>4, <3>4, <5>2, <5>3
        <4>2. QED
          BY <1>4, <4>1 DEF ToSet
      <3>8. Cardinality(X) <= n - i /\ Cardinality(X) \in Nat
        BY <3>6, <3>7, FS_Subset, FS_CardinalityType
      <3>9. MaxBackups <= Cardinality(X)
        BY <1>1, <3>3 DEF Outlived
      <3>10. QED
        BY <1>4, <3>1, <3>4, <3>8, <3>9
    <2>5. QED
      BY <1>4, <2>2, <2>3, <2>4
  <1>17. Few'
    <2>1. Len(backups') \in Nat /\ n <= MaxBackups + faults + 1 /\ faults \in Nat
      BY <1>1, <1>2, <1>7 DEF Few, n
    <2>2. CASE kept # {}
      <3>1. faults' = faults + 1
        BY <1>3, <2>2 DEF Fault
      <3>2. QED
        BY <1>2, <1>4, <1>7, <2>1, <3>1 DEF Few, n
    <2>3. CASE kept = {} /\ n <= MaxBackups
      <3>1. UNCHANGED faults
        BY <1>3, <2>3
      <3>2. Len(backups') <= MaxBackups
        BY <1>4, <1>7, <2>1, <2>3 DEF n
      <3>3. QED
        BY <1>2, <1>4, <2>1, <3>1, <3>2 DEF Few
    <2>4. CASE kept = {} /\ n > MaxBackups
      <3>1. UNCHANGED faults /\ gone = Excess
        BY <1>3, <2>4 DEF gone
      <3>2. ToSet(backups') \subseteq L
        BY <1>7, <1>13, <1>14, <2>4, <3>1
      <3>3. Cardinality(ToSet(backups')) <= MaxBackups
        BY <1>13, <2>4, <3>2, FS_Subset
      <3>4. Cardinality(ToSet(backups')) = Len(backups')
        BY <1>7, DistinctCardinality DEF ToSet
      <3>5. QED
        BY <1>2, <1>4, <2>1, <3>1, <3>3, <3>4 DEF Few
    <2>5. QED
      BY <1>4, <2>2, <2>3, <2>4
  <1>18. QED
    BY <1>9, <1>10, <1>11, <1>16, <1>17 DEF DiskInv

\* Every step keeps the invariant.
LEMMA NextDiskInv == LoggerInv /\ DiskInv /\ [Next]_vars => DiskInv'
  <1>1. ASSUME DiskInv, UNCHANGED vars PROVE DiskInv'
    BY <1>1 DEF vars, loggerVars, diskVars, DiskInv, Current, Older, Written, Outlived, Few
  <1>2. QED
    BY <1>1, InitializeDiskInv, LogDiskInv, QuietDiskInv, ReopenDiskInv, CleanDiskInv
       DEF Next, Monitor

\* Whatever is logged, rotated, closed and initialized again, and whichever
\* renames, removals and opens fail: a line that was written is in the file, in
\* a backup, or in a backup that at least MaxBackups newer ones have outlived;
\* and there are not more backups than MaxBackups, those that could not be
\* removed, and the one that a rotation has just made.
THEOREM BackupsKeptTheorem == Spec => []BackupsKept
  <1>1. LoggerInv /\ DiskInv => BackupsKept
    <2> SUFFICES ASSUME DiskInv PROVE BackupsKept
      OBVIOUS
    <2>1. Current /\ Older /\ Written /\ Outlived /\ Few
      BY DEF DiskInv
    <2>2. \A b : b \in ToSet(backups) <=> Holds(backups, b)
      BY <2>1, BackupFiles
    <2>3. \A f \in Files : content[f] # {} => f \in ToSet(backups) \cup removed \cup {path}
      BY <2>1, <2>2 DEF Written
    <2>4. path \notin ToSet(backups) \cup removed
      <3>1. ASSUME path \in ToSet(backups) \cup removed PROVE FALSE
        <4>1. path \in Files
          BY <2>1, <3>1, BackupFiles DEF Older
        <4>2. QED
          BY <2>1, <2>2, <3>1, <4>1 DEF Older
      <3>2. QED
        BY <3>1
    <2>5. QED
      BY <2>1, <2>3, <2>4 DEF BackupsKept, Outlived, Few
  <1>2. QED
    BY InitLoggerInv, NextLoggerInv, InitDiskInv, NextDiskInv, <1>1, PTL DEF Spec

=============================================================================
