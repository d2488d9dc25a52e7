----------------------------- MODULE SlogLogger -----------------------------
(***************************************************************************)
(* The slog logger (infrastructure/logger/slog_logger.go): every logging   *)
(* call first checks, at most once a second as intended, whether the file  *)
(* has grown too large, and rotates it.                                    *)
(*                                                                         *)
(* The mutex protects rotation and CloseSlog only.  checkRotation reads    *)
(* the file and the time of the last check without it, and does not look   *)
(* again once it has it; the logging functions read the instance without   *)
(* it.  Pointers are one word, so such a read returns an old or a new one. *)
(* A backup is named after the second of its rotation, and a rename        *)
(* replaces what has that name.  Levels are left out, and Rotate, which    *)
(* forces a rotation in tests.                                             *)
(***************************************************************************)
EXTENDS Integers, FiniteSets, Functions

CONSTANTS
    Writers,   \* the goroutines that log
    MaxSize,   \* Config.MaxSize, in lines
    MaxLines,  \* bound of the model: lines logged
    MaxFiles,  \* bound of the model: files created
    MaxTime    \* bound of the model: the clock stops here

VARIABLES
    instance,   \* slogInstance: the file it writes to, NoFile for stdout, or Nil
    slogFile,   \* slogFile; NoFile is nil
    lastCheck,  \* lastCheck, in seconds
    slogMu,     \* slogMu: Free or its holder
    call,       \* per writer: where its logging call is
    time,       \* per writer: the second in which it checks
    held,       \* per writer: the instance it has read
    handles,    \* the files that are open
    path,       \* the file at Config.FilePath; NoFile if there is none
    backups,    \* the backups on disk: from the second in the name to the file
    content,    \* the lines in each file
    lines,      \* the number of lines logged
    files,      \* the number of files created
    now         \* time.Now().Unix()

writerVars == <<call, time, held>>
diskVars == <<handles, path, backups, content, files>>
slogVars == <<instance, slogFile, lastCheck, slogMu, writerVars, diskVars, lines, now>>

NoFile == 0
Nil == -1
Free == "free"

SlogInit ==
    /\ instance = Nil /\ slogFile = NoFile
    /\ lastCheck = 0 /\ slogMu = Free
    /\ call = [w \in Writers |-> "idle"]
    /\ time = [w \in Writers |-> 0]
    /\ held = [w \in Writers |-> Nil]
    /\ handles = {} /\ path = NoFile
    /\ backups = [s \in {} |-> NoFile]
    /\ content = [f \in 1 .. MaxFiles |-> {}]
    /\ lines = 0 /\ files = 0 /\ now = 1

GotoSlog(w, label) == call' = [call EXCEPT ![w] = label]

\* OpenFile with O_CREATE and O_APPEND: the file at the path p, or a new one.
Open(p, f) ==
    /\ f = IF p # NoFile THEN p ELSE files + 1
    /\ f \in 1 .. MaxFiles
    /\ path' = f
    /\ files' = IF p # NoFile THEN files ELSE f
    /\ handles' = handles \cup {f}

-----------------------------------------------------------------------------
(* InitializeSlog, GetSlog and CloseSlog.                                  *)

\* The first call opens the file, and logs to it and to stdout; CloseSlog makes
\* the next call a first one again.
InitializeSlog ==
    /\ instance = Nil
    /\ \E f \in 1 .. MaxFiles : Open(path, f) /\ slogFile' = f /\ instance' = f
    /\ UNCHANGED <<lastCheck, slogMu, writerVars, backups, content, lines, now>>

\* Without a file, or by GetSlog before any initialisation: stdout only.
GetSlog ==
    /\ instance = Nil
    /\ instance' = NoFile
    /\ UNCHANGED <<slogFile, lastCheck, slogMu, writerVars, diskVars, lines, now>>

CloseSlog ==
    /\ slogMu = Free
    /\ handles' = handles \ {slogFile}
    /\ slogFile' = NoFile /\ instance' = Nil
    /\ UNCHANGED <<lastCheck, slogMu, writerVars, path, backups, content, files, lines, now>>

-----------------------------------------------------------------------------
(* A logging call: checkRotation, then the line.                           *)

\* No file, no check; otherwise the time is taken.
BeginLog(w) ==
    /\ call[w] = "idle" /\ lines < MaxLines
    /\ GotoSlog(w, IF slogFile = NoFile THEN "getting" ELSE "checking")
    /\ time' = [time EXCEPT ![w] = now]
    /\ UNCHANGED <<instance, slogFile, lastCheck, slogMu, held, diskVars, lines, now>>

\* lastCheck.Load ...
LoadCheck(w) ==
    /\ call[w] = "checking"
    /\ GotoSlog(w, IF lastCheck >= time[w] THEN "getting" ELSE "storing")
    /\ UNCHANGED <<instance, slogFile, lastCheck, slogMu, time, held, diskVars, lines, now>>

\* ... and lastCheck.Store are two steps.
StoreCheck(w) ==
    /\ call[w] = "storing"
    /\ lastCheck' = time[w]
    /\ GotoSlog(w, "sizing")
    /\ UNCHANGED <<instance, slogFile, slogMu, time, held, diskVars, lines, now>>

\* Stat, which fails on a file that is closed or nil.
StatFile(w) ==
    /\ call[w] = "sizing"
    /\ GotoSlog(w, IF slogFile \in handles /\ Cardinality(content[slogFile]) > MaxSize
               THEN "locking" ELSE "getting")
    /\ UNCHANGED <<instance, slogFile, lastCheck, slogMu, time, held, diskVars, lines, now>>

\* rotateSlogFile: lock; nothing to do without a file; close it ...
CloseForRotation(w) ==
    /\ call[w] = "locking" /\ slogMu = Free
    /\ IF slogFile = NoFile
       THEN GotoSlog(w, "getting") /\ UNCHANGED <<slogMu, handles>>
       ELSE /\ handles' = handles \ {slogFile}
            /\ slogMu' = w
            /\ GotoSlog(w, "renaming")
    /\ UNCHANGED <<instance, slogFile, lastCheck, time, held, path, backups, content,
                   files, lines, now>>

\* ... rename it, which replaces a backup of the same second ...
Rename ==
    /\ path # NoFile
    /\ backups' = [s \in DOMAIN backups \cup {now} |-> IF s = now THEN path ELSE backups[s]]

\* ... open a new file, make an instance for it, unlock.  The error of a rename
\* is ignored; when the file cannot be opened the old one stays, closed.
ReopenAfterRotation(w) ==
    /\ call[w] = "renaming"
    /\ \E renamed, opened \in BOOLEAN :
          /\ IF renamed THEN Rename ELSE UNCHANGED backups
          /\ LET left == IF renamed THEN NoFile ELSE path IN
             IF opened
             THEN \E f \in 1 .. MaxFiles : Open(left, f) /\ slogFile' = f /\ instance' = f
             ELSE path' = left /\ UNCHANGED <<slogFile, instance, files, handles>>
    /\ slogMu' = Free
    /\ GotoSlog(w, "getting")
    /\ UNCHANGED <<lastCheck, time, held, content, lines, now>>

\* slogInstance is read; calling a method of nil panics.
GetInstance(w) ==
    /\ call[w] = "getting"
    /\ held' = [held EXCEPT ![w] = instance]
    /\ GotoSlog(w, IF instance = Nil THEN "panicked" ELSE "writing")
    /\ UNCHANGED <<instance, slogFile, lastCheck, slogMu, time, diskVars, lines, now>>

\* LogAttrs: the line goes to stdout, and to the file if that is still open.
WriteLine(w) ==
    /\ call[w] = "writing" /\ lines < MaxLines
    /\ lines' = lines + 1
    /\ content' = IF held[w] \in handles
                  THEN [content EXCEPT ![held[w]] = @ \cup {lines'}] ELSE content
    /\ GotoSlog(w, "idle")
    /\ UNCHANGED <<instance, slogFile, lastCheck, slogMu, time, held, handles, path,
                   backups, files, now>>

Tick ==
    /\ now < MaxTime
    /\ now' = now + 1
    /\ UNCHANGED <<instance, slogFile, lastCheck, slogMu, writerVars, diskVars, lines>>

SlogNext ==
    \/ InitializeSlog \/ GetSlog \/ CloseSlog \/ Tick
    \/ \E w \in Writers :
          \/ BeginLog(w) \/ LoadCheck(w) \/ StoreCheck(w) \/ StatFile(w)
          \/ CloseForRotation(w) \/ ReopenAfterRotation(w)
          \/ GetInstance(w) \/ WriteLine(w)

SlogSpec == SlogInit /\ [][SlogNext]_slogVars

-----------------------------------------------------------------------------
(* "Expected backup file after rotation": a test of rotation expects the   *)
(* old file in a backup, and nothing of the slog logger removes backups.   *)

\* Every file with lines in it is at the path or a backup.  The code does not
\* keep this: two writers can rotate in one second.
RotationKeepsLines ==
    \A f \in 1 .. MaxFiles :
        content[f] # {} => f = path \/ f \in Range(backups)

\* What it would take: a rename never finds a backup of its own second.
OneBackupPerSecond == [][backups' = backups \/ now \notin DOMAIN backups]_slogVars

=============================================================================
