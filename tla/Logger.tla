------------------------------- MODULE Logger -------------------------------
(***************************************************************************)
(* The service's logger (infrastructure/logger/logger.go): one global      *)
(* logrus instance that writes to stdout and to a file, a goroutine that   *)
(* rotates the file once a minute when it has grown too large, and Close,  *)
(* which main defers.                                                      *)
(*                                                                         *)
(* Whoever logs holds logrus's own lock and not the package's mutex, so a  *)
(* line can be logged between any two steps of a rotation or of Close.     *)
(* Lines and files are numbered in the order in which they appear.  A      *)
(* backup is named after the second of its rotation; rotations are a       *)
(* minute apart, so their names are distinct and sort by age.              *)
(***************************************************************************)
EXTENDS Integers, Sequences, FiniteSets, SequencesExt, SeqFilter

CONSTANTS
    MaxSize,     \* Config.MaxSize, in lines (10 MB in main)
    MaxBackups,  \* Config.MaxBackups (5 in main)
    MaxLines,    \* bound of the model: lines logged
    MaxFiles,    \* bound of the model: files created
    MaxFaults    \* bound of the model: calls of the file system that fail

ASSUME LoggerAssumption ==
    /\ MaxSize \in Nat \ {0} /\ MaxBackups \in Nat
    /\ MaxLines \in Nat /\ MaxFiles \in Nat /\ MaxFaults \in Nat

VARIABLES
    once,      \* whether once has fired
    instance,  \* whether instance is set; Close leaves it
    output,    \* the instance's output: NoFile is stdout alone
    logFile,   \* logFile; NoFile is nil
    stopChan,  \* stopChan: "nil", "open" or "closed"
    mu,        \* the package's mutex: "free" or its holder
    monitor,   \* the goroutine of monitorLogRotation; "none" before and after
    closer,    \* the goroutine that calls Close
    handles,   \* the files that are open
    path,      \* the file at Config.FilePath; NoFile if there is none
    backups,   \* the backups on disk, oldest first
    content,   \* the lines in each file, on disk or not
    removed,   \* the backups that were removed
    lost,      \* the lines that were sent to a closed file
    lines,     \* the number of lines logged
    files,     \* the number of files created
    faults     \* the number of calls that failed

loggerVars == <<once, instance, output, logFile, stopChan, mu, monitor, closer>>
diskVars == <<handles, path, backups, content, removed, files, faults>>
vars == <<loggerVars, diskVars, lost, lines>>

NoFile == 0

Init ==
    /\ once = FALSE /\ instance = FALSE
    /\ output = NoFile /\ logFile = NoFile
    /\ stopChan = "nil" /\ mu = "free"
    /\ monitor = "none" /\ closer = "idle"
    /\ handles = {} /\ path = NoFile /\ backups = <<>>
    /\ content = [f \in 1 .. MaxFiles |-> {}]
    /\ removed = {} /\ lost = {}
    /\ lines = 0 /\ files = 0 /\ faults = 0

-----------------------------------------------------------------------------
(* The file system.                                                        *)

\* A call of the file system fails.
Fault == faults < MaxFaults /\ faults' = faults + 1

\* openLogFile: the file at the path p, or a new one; f is the open file.
Open(p, f) ==
    /\ f = IF p # NoFile THEN p ELSE files + 1
    /\ f \in 1 .. MaxFiles
    /\ path' = f
    /\ files' = IF p # NoFile THEN files ELSE f

-----------------------------------------------------------------------------
(* Initialize and the logging functions.                                   *)

\* The first call opens the file and starts the monitor (except in a test, or
\* without a limit).  A later one does nothing and reports success.
Initialize ==
    /\ closer = "idle" /\ ~once
    /\ once' = TRUE /\ instance' = TRUE
    /\ \/ /\ Fault
          /\ UNCHANGED <<output, logFile, stopChan, monitor, handles, path, files>>
       \/ /\ \E f \in 1 .. MaxFiles :
                /\ Open(path, f)
                /\ logFile' = f /\ output' = f /\ handles' = handles \cup {f}
          /\ \/ stopChan' = "open" /\ monitor' = "waiting"
             \/ UNCHANGED <<stopChan, monitor>>
          /\ UNCHANGED faults
    /\ UNCHANGED <<mu, closer, backups, content, removed, lost, lines>>

\* A line goes to stdout and to the output's file; a closed file refuses it.
\* A call before Initialize falls back to stdout and uses up once.
Log ==
    /\ lines < MaxLines
    /\ lines' = lines + 1
    /\ once' = (once \/ ~instance) /\ instance' = TRUE
    /\ IF output \in handles
       THEN content' = [content EXCEPT ![output] = @ \cup {lines'}]
       ELSE UNCHANGED content
    /\ lost' = IF output # NoFile /\ output \notin handles THEN lost \cup {lines'} ELSE lost
    /\ UNCHANGED <<output, logFile, stopChan, mu, monitor, closer, handles, path,
                   backups, removed, files, faults>>

-----------------------------------------------------------------------------
(* monitorLogRotation.                                                     *)

\* The select: the channel is closed and the goroutine returns ...
MonitorLeave ==
    /\ monitor = "waiting" /\ stopChan = "closed"
    /\ monitor' = "none"
    /\ UNCHANGED <<once, instance, output, logFile, stopChan, mu, closer, diskVars,
                   lost, lines>>

\* ... or a minute has passed, and it waits for the mutex.
MonitorTick ==
    /\ monitor = "waiting"
    /\ monitor' = "ticked"
    /\ UNCHANGED <<once, instance, output, logFile, stopChan, mu, closer, diskVars,
                   lost, lines>>

TooLarge == IF logFile = NoFile THEN FALSE ELSE Cardinality(content[logFile]) > MaxSize

\* Under the mutex: a file that is too large is closed; otherwise, or if Stat
\* fails, the mutex is released at once.
CheckSize ==
    /\ monitor = "ticked" /\ mu = "free"
    /\ \/ /\ TooLarge
          /\ handles' = handles \ {logFile}
          /\ monitor' = "closed" /\ mu' = "monitor"
          /\ UNCHANGED faults
       \/ /\ ~TooLarge
          /\ monitor' = "waiting"
          /\ UNCHANGED <<handles, mu, faults>>
       \/ /\ logFile # NoFile /\ Fault
          /\ monitor' = "waiting"
          /\ UNCHANGED <<handles, mu>>
    /\ UNCHANGED <<once, instance, output, logFile, stopChan, closer, path, backups, content,
                   removed, files, lost, lines>>

\* Bug: the instance keeps its old writer.
ReopenWithoutSetOutput ==
    /\ monitor = "closed"
    /\ backups' = Append(backups, path)
    /\ \E f \in 1 .. MaxFiles :
          /\ Open(NoFile, f)
          /\ logFile' = f /\ handles' = handles \cup {f}
    /\ monitor' = "cleaning"
    /\ UNCHANGED <<once, instance, output, stopChan, mu, closer, content, removed,
                   faults, lost, lines>>

\* rotateLog: rename (the file stays in place if that fails), open, SetOutput;
\* if the file cannot be opened, stdout alone and no file.
Reopen ==
    /\ monitor = "closed"
    /\ \E renamed, opened \in BOOLEAN :
          /\ backups' = IF renamed THEN Append(backups, path) ELSE backups
          /\ faults' = faults + (IF renamed THEN 0 ELSE 1) + (IF opened THEN 0 ELSE 1)
          /\ faults' <= MaxFaults
          /\ IF opened
             THEN \E f \in 1 .. MaxFiles :
                    /\ Open(IF renamed THEN NoFile ELSE path, f)
                    /\ logFile' = f /\ output' = f /\ handles' = handles \cup {f}
             ELSE /\ path' = IF renamed THEN NoFile ELSE path
                  /\ logFile' = NoFile /\ output' = NoFile
                  /\ UNCHANGED <<handles, files>>
    /\ monitor' = "cleaning"
    /\ UNCHANGED <<once, instance, stopChan, mu, closer, content, removed, lost, lines>>

\* Bug: the list is taken to be sorted newest first.
NewestExcess == {backups[i] : i \in MaxBackups + 1 .. Len(backups)}

\* The backups that cleanOldBackups removes: all but the last MaxBackups of
\* the sorted directory listing.
Excess == {backups[i] : i \in 1 .. Len(backups) - MaxBackups}

\* cleanOldBackups, after which the mutex is released: one removal may fail,
\* or the directory cannot be read.
CleanOldBackups ==
    /\ monitor = "cleaning"
    /\ \E kept \in SUBSET Excess :
          /\ IF kept = {} THEN UNCHANGED faults ELSE Fault
          /\ LET gone == Excess \ kept IN
             /\ backups' = Keep(backups, (1 .. MaxFiles) \ gone)
             /\ removed' = removed \cup gone
    /\ monitor' = "waiting" /\ mu' = "free"
    /\ UNCHANGED <<once, instance, output, logFile, stopChan, closer, handles, path, content,
                   files, lost, lines>>

Monitor == MonitorLeave \/ CheckSize \/ Reopen \/ CleanOldBackups

-----------------------------------------------------------------------------
(* Close.                                                                  *)

\* Bug: Close keeps the mutex while it waits for the goroutine.
CloseStopHolding ==
    /\ closer = "idle" /\ mu = "free"
    /\ stopChan' = IF stopChan = "nil" THEN "nil" ELSE "closed"
    /\ closer' = "waiting" /\ mu' = "close"
    /\ UNCHANGED <<once, instance, output, logFile, monitor, diskVars, lost, lines>>

\* The first critical section: close the channel if there is one.
CloseStop ==
    /\ closer = "idle" /\ mu = "free"
    /\ stopChan' = IF stopChan = "nil" THEN "nil" ELSE "closed"
    /\ closer' = "waiting"
    /\ UNCHANGED <<once, instance, output, logFile, mu, monitor, diskVars, lost, lines>>

\* Bug: the file is closed before the output is reset.
CloseFileFirst ==
    /\ closer = "waiting" /\ monitor = "none"
    /\ handles' = handles \ {logFile}
    /\ mu' = "close" /\ closer' = "redirected"
    /\ UNCHANGED <<once, instance, output, logFile, stopChan, monitor, path, backups, content,
                   removed, files, faults, lost, lines>>

\* monitorWG.Wait, then the second critical section: stdout only ...
CloseRedirect ==
    /\ closer = "waiting" /\ monitor = "none" /\ mu = "free"
    /\ output' = NoFile
    /\ mu' = "close" /\ closer' = "redirected"
    /\ UNCHANGED <<once, instance, logFile, stopChan, monitor, diskVars, lost, lines>>

\* ... then the file is closed and the package is as before Initialize.
CloseFile ==
    /\ closer = "redirected"
    /\ handles' = handles \ {logFile}
    /\ logFile' = NoFile /\ output' = NoFile
    /\ stopChan' = "nil" /\ once' = FALSE
    /\ mu' = "free" /\ closer' = "idle"
    /\ UNCHANGED <<instance, monitor, path, backups, content, removed, files, faults,
                   lost, lines>>

CloseEnd == CloseRedirect \/ CloseFile

Next == Initialize \/ Log \/ MonitorTick \/ Monitor \/ CloseStop \/ CloseEnd

\* The goroutines that can run are scheduled, and a select does not for ever
\* prefer the ticker to a closed channel.  Nobody has to log or to call Close.
Spec ==
    /\ Init /\ [][Next]_vars
    /\ WF_vars(Monitor) /\ SF_vars(MonitorLeave) /\ WF_vars(CloseEnd)

-----------------------------------------------------------------------------
(* Properties.                                                             *)

Files == 1 .. MaxFiles

\* The package's file, the instance's output and the open descriptors agree,
\* through rotations, failures and closes: the output is the package's file or
\* stdout, that file is the only one open, and no descriptor is leaked.
OutputLive ==
    /\ output = IF closer = "redirected" THEN NoFile ELSE logFile
    /\ handles = IF monitor = "closed" THEN {} ELSE {logFile} \ {NoFile}

\* A line is missing from the file only if it was logged while a rotation had
\* the file closed; Close loses none, because it resets the output first.
LostOnlyInRotation == [][lost' # lost => monitor = "closed"]_vars

\* Every line that was written to the file is in it, in a backup, or in a
\* backup that was removed for its age: the lines of the file and of the newest
\* MaxBackups backups are on disk, whatever renames and removals failed; and
\* the backups are as many, but for removals that failed and for the one that
\* a rotation has just made (rotateLog, cleanOldBackups).
BackupsKept ==
    /\ \A f \in Files : content[f] # {} => f \in ToSet(backups) \cup removed \cup {path}
    /\ \A f \in removed :
          MaxBackups <= Cardinality({b \in ToSet(backups) : b > f})
    /\ Len(backups) <= MaxBackups + faults + (IF monitor = "cleaning" THEN 1 ELSE 0)
    /\ path \notin ToSet(backups) \cup removed

\* Close returns: it waits for a monitor that may be about to take the mutex
\* or in the middle of a rotation.
CloseReturns == closer = "waiting" ~> closer = "idle"

=============================================================================
