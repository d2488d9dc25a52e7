---------------------------- MODULE HostProofs ------------------------------
(***************************************************************************)
(* Proofs about the parts that act on the host: the installer (Installer), *)
(* the executors (Executors), the server process (Startup) and the slog    *)
(* logger's files (SlogLogger).  They share no state and no step: each     *)
(* theorem is about one of the four specifications, Spec, CallSpec,        *)
(* ProcessSpec and SlogSpec.                                               *)
(*                                                                         *)
(* Installer, for every set of init systems and any number of faults.  The *)
(* reports follow from what each step of a run finds done before it        *)
(* (SetupSoFar, UninstallSoFar).  Uninstall skips what it does not know    *)
(* how to undo; that is nothing only because setup never did it on such a  *)
(* host (Undoable).  SecretKept rests on config.env: while the file is     *)
(* absent there is no secret to lose (NoFileNoSecret).                     *)
(*                                                                         *)
(* Executors, for every host.  An exit code says what the tool did only    *)
(* while its command runs (ExitTruth): codes are left over from command to *)
(* command.                                                                *)
(*                                                                         *)
(* Startup, for any number of renewals and signals.  The invariant says    *)
(* for every place of main what has been decided there (Passed, Mode).     *)
(*                                                                         *)
(* SlogLogger, for any number of writers, lines and files.  Lines are lost *)
(* only by a rename that replaces a backup, since nobody ever writes to a  *)
(* file that is not at the path: whatever is open is (SlogInv).            *)
(***************************************************************************)
EXTENDS Installer, Executors, Startup, SlogLogger, TLAPS

-----------------------------------------------------------------------------
(* The installer.                                                          *)

SetupSteps == {"root", "directories", "binary", "unit", "reload", "defaults", "config",
               "chown", "enable"}
UninstallSteps == {"u_stop", "u_disable", "u_unit", "u_binary", "u_config"}

Types ==
    /\ init \in {"systemd", "openrc", "sysvinit", "upstart", "unknown"}
    /\ hasRcD \in BOOLEAN /\ root \in BOOLEAN /\ enabled \in BOOLEAN
    /\ file \in [Files -> Contents]
    /\ service \in {"stopped", "running", "stale"}
    /\ pc \in {"idle"} \cup SetupSteps \cup UninstallSteps
    /\ report \in {"none", "failed", "success", "uninstalled"}
    /\ pc # "idle" => report = "none"
    /\ warned \subseteq UninstallSteps
    /\ faults \in Nat /\ generated \in Nat

NoFileNoSecret == file["config"] = "absent" => secret = 0

\* What setup has done when it is at a step.
SetupSoFar ==
    /\ pc \in {"unit", "reload", "defaults", "config", "chown", "enable"} =>
          file["binary"] = "complete"
    /\ pc \in {"reload", "defaults", "config", "chown", "enable"} =>
          init \in Supported /\ file["unit"] = "complete"
    /\ pc \in {"chown", "enable"} => file["config"] # "absent"

\* Only what uninstall can undo is ever done.
CanEnable == init \in {"systemd", "openrc"} \/ (init = "sysvinit" /\ hasRcD)
Undoable ==
    /\ enabled => CanEnable
    /\ file["unit"] # "absent" => init \in Supported
    /\ faults = 0 /\ service # "stopped" =>
          init \in Supported /\ file["unit"] = "complete" /\ file["binary"] # "absent"

\* What uninstall has done when it is at a step, or has warned of; and what it
\* has done as root and without a fault.
UninstallSoFar ==
    /\ pc \in {"u_unit", "u_binary", "u_config"} => ~enabled \/ "u_disable" \in warned
    /\ pc \in {"u_binary", "u_config"} => file["unit"] = "absent" \/ "u_unit" \in warned
    /\ pc = "u_config" => file["binary"] = "absent" \/ "u_binary" \in warned
    /\ root /\ faults = 0 /\ pc \in {"u_disable", "u_unit", "u_binary", "u_config"} =>
          service = "stopped"
    /\ root /\ faults = 0 => warned = {}

InstallerInv ==
    /\ Types /\ NoFileNoSecret /\ SetupSoFar /\ Undoable /\ UninstallSoFar
    /\ SuccessInstalls /\ UninstallClean

\* Nothing is installed at first.
LEMMA InitInstallerInv == Init => InstallerInv
  <1> SUFFICES ASSUME Init PROVE InstallerInv
    OBVIOUS
  <1>1. file \in [Files -> Contents] /\ file["unit"] = "absent" /\ secret = 0
    BY DEF Init, Files, Contents
  <1>2. Types
    BY <1>1, InstallerAssumption DEF Init, Types
  <1>3. NoFileNoSecret /\ SetupSoFar /\ UninstallSoFar
    BY <1>1 DEF Init, NoFileNoSecret, SetupSoFar, UninstallSoFar
  <1>4. Undoable /\ SuccessInstalls /\ UninstallClean
    BY <1>1 DEF Init, Undoable, SuccessInstalls, UninstallClean
  <1>5. QED
    BY <1>2, <1>3, <1>4 DEF InstallerInv

\* A run begins with a report of its own.
LEMMA BeginInv ==
    ASSUME InstallerInv, NEW first \in {"root", "u_stop"}, Begin(first)
    PROVE  InstallerInv'
  BY DEF Begin, configVars, InstallerInv, Types, NoFileNoSecret, SetupSoFar, Undoable,
         UninstallSoFar, SuccessInstalls, UninstallClean, SetupSteps, UninstallSteps, CanEnable

\* A run that stops early, or is interrupted, has reported no success; what it
\* has written is left on the host.
LEMMA StopEarly ==
    ASSUME InstallerInv, pc # "idle", pc' = "idle", report' \in {"none", "failed"},
           faults' \in Nat, faults' = faults \/ faults' # 0,
           UNCHANGED <<hostVars, generated, enabled, service, warned>>,
           file' \in [Files -> Contents],
           file["binary"] # "absent" => file'["binary"] # "absent",
           file' = file \/ faults' # 0,
           NoFileNoSecret',
           file'["unit"] # "absent" => init \in Supported
    PROVE  InstallerInv'
  BY DEF hostVars, InstallerInv, Types, SetupSoFar, Undoable,
         UninstallSoFar, SuccessInstalls, UninstallClean, SetupSteps, UninstallSteps, CanEnable

\* A failing write.
LEMMA FailWritingInv ==
    ASSUME InstallerInv, pc # "idle", NEW f \in Files, FailWriting(f),
           f = "unit" => init \in Supported
    PROVE  InstallerInv'
  <1>1. /\ faults \in Nat /\ faults' \in Nat /\ faults' # 0 /\ file' \in [Files -> Contents]
        /\ file'["unit"] # "absent" => init \in Supported
        /\ file["binary"] # "absent" => file'["binary"] # "absent"
    BY DEF FailWriting, Fault, InstallerInv, Types, Undoable, Files, Contents
  <1>2. NoFileNoSecret'
    BY DEF FailWriting, InstallerInv, Types, NoFileNoSecret, Files
  <1>3. QED
    BY <1>1, <1>2, StopEarly DEF FailWriting, Abort

\* A quiet failure, an interruption, or an error that is no fault of the host.
LEMMA QuietStopInv ==
    ASSUME InstallerInv, pc # "idle", Unmoved, pc' = "idle", report' \in {"none", "failed"},
           UNCHANGED warned, Fault \/ UNCHANGED faults
    PROVE  InstallerInv'
  <1>1. faults' \in Nat /\ (faults' = faults \/ faults' # 0)
    BY DEF Fault, InstallerInv, Types
  <1>2. /\ NoFileNoSecret' /\ file' \in [Files -> Contents]
        /\ file'["unit"] # "absent" => init \in Supported
    BY DEF Unmoved, configVars, InstallerInv, Types, Undoable, NoFileNoSecret
  <1>3. QED
    BY <1>1, <1>2, StopEarly DEF Unmoved, configVars
\* A step of setup that goes on.
LEMMA SetupGoesOn ==
    ASSUME InstallerInv, NEW next \in SetupSteps, pc \in SetupSteps, pc' = next,
           UNCHANGED <<hostVars, service, report, warned>>, faults' \in Nat, faults' = 0 => faults = 0,
           file' \in [Files -> Contents], generated' \in Nat, enabled' \in BOOLEAN,
           NoFileNoSecret', SetupSoFar',
           file'["unit"] # "absent" => init \in Supported,
           file["unit"] = "complete" => file'["unit"] = "complete",
           file["binary"] # "absent" => file'["binary"] # "absent",
           enabled' => CanEnable
    PROVE  InstallerInv'
  <1>1. Types'
    BY DEF InstallerInv, Types, hostVars, SetupSteps
  <1>2. Undoable'
    BY DEF InstallerInv, Undoable, hostVars, CanEnable
  <1>3. UninstallSoFar' /\ SuccessInstalls' /\ UninstallClean'
    BY DEF InstallerInv, Types, UninstallSoFar, SuccessInstalls, UninstallClean, SetupSteps,
       hostVars
  <1>4. QED
    BY <1>1, <1>2, <1>3 DEF InstallerInv

\* Each step of setup finds done what the steps before it did.
LEMMA SetupInv ==
    ASSUME InstallerInv, Setup
    PROVE  InstallerInv'
  <1>0. /\ faults \in Nat /\ generated \in Nat /\ enabled \in BOOLEAN
        /\ file \in [Files -> Contents] /\ NoFileNoSecret
        /\ file["unit"] # "absent" => init \in Supported
        /\ enabled => CanEnable
        /\ init \in {"systemd", "openrc", "sysvinit", "upstart", "unknown"}
    BY DEF InstallerInv, Types, Undoable
  <1>1. ASSUME pc \in {"root", "directories", "reload", "chown"}, Unmoved,
               NEW next \in SetupSteps, Proceed(next), SetupSoFar'
        PROVE  InstallerInv'
    <2>1. pc \in SetupSteps /\ NoFileNoSecret'
      BY <1>0, <1>1 DEF Unmoved, configVars, NoFileNoSecret, SetupSteps
    <2>2. QED
      BY <1>0, <1>1, <2>1, SetupGoesOn DEF Unmoved, configVars, Proceed
  <1>2. CASE CheckRoot
    <2>1. CASE Proceed("directories")
      <3>1. SetupSoFar' /\ "directories" \in SetupSteps
        BY <2>1 DEF Proceed, SetupSoFar, SetupSteps
      <3>2. QED
        BY <1>1, <1>2, <2>1, <3>1 DEF CheckRoot
    <2>2. CASE Abort /\ UNCHANGED faults
      BY <1>2, <2>2, QuietStopInv DEF CheckRoot, Abort
    <2>3. QED
      BY <1>2, <2>1, <2>2 DEF CheckRoot
  <1>3. CASE CreateDirectories
    <2>1. CASE Proceed("binary") /\ Unmoved
      <3>1. SetupSoFar' /\ "binary" \in SetupSteps
        BY <2>1 DEF Proceed, SetupSoFar, SetupSteps
      <3>2. QED
        BY <1>1, <1>3, <2>1, <3>1 DEF CreateDirectories
    <2>2. CASE FailQuietly
      BY <1>3, <2>2, QuietStopInv DEF CreateDirectories, FailQuietly, Abort
    <2>3. QED
      BY <1>3, <2>1, <2>2 DEF CreateDirectories
  <1>4. CASE InstallBinary
    <2>1. CASE file' = [file EXCEPT !["binary"] = "complete"] /\ Proceed("unit")
               /\ UNCHANGED <<hostVars, configVars, enabled, service>>
      <3>1. /\ file' \in [Files -> Contents] /\ file'["binary"] = "complete"
            /\ file'["unit"] = file["unit"] /\ file'["config"] = file["config"]
        BY <1>0, <2>1 DEF Files, Contents
      <3>2. /\ SetupSoFar' /\ "unit" \in SetupSteps /\ pc \in SetupSteps /\ NoFileNoSecret'
            /\ pc' = "unit" /\ UNCHANGED <<report, warned, faults>>
        BY <1>0, <1>4, <2>1, <3>1
        DEF Proceed, SetupSoFar, SetupSteps, InstallBinary, NoFileNoSecret, configVars
      <3>3. QED
        BY <1>0, <2>1, <3>1, <3>2, SetupGoesOn DEF configVars
    <2>2. CASE FailWriting("binary")
      BY <1>4, <2>2, FailWritingInv DEF InstallBinary, Files
    <2>3. CASE Abort /\ Unmoved /\ UNCHANGED faults
      BY <1>4, <2>3, QuietStopInv DEF InstallBinary, Abort
    <2>4. QED
      BY <1>4, <2>1, <2>2, <2>3 DEF InstallBinary
  <1>5. CASE InstallService
    <2>1. CASE /\ init \in Supported /\ file' = [file EXCEPT !["unit"] = "complete"]
               /\ Proceed(AfterUnit[init])
               /\ UNCHANGED <<hostVars, configVars, enabled, service>>
      <3>1. /\ file' \in [Files -> Contents] /\ file'["unit"] = "complete"
            /\ file'["binary"] = file["binary"] /\ file'["config"] = file["config"]
        BY <1>0, <2>1 DEF Files, Contents
      <3>2. AfterUnit[init] \in {"reload", "config", "defaults"}
        BY <2>1 DEF AfterUnit, Supported
      <3>3. pc' \in {"reload", "config", "defaults"} /\ UNCHANGED <<report, warned, faults>>
        BY <2>1, <3>2 DEF Proceed
      <3>4. /\ SetupSoFar' /\ pc' \in SetupSteps /\ pc \in SetupSteps /\ NoFileNoSecret'
        BY <1>0, <1>5, <2>1, <3>1, <3>3
        DEF SetupSoFar, SetupSteps, InstallService, NoFileNoSecret, configVars, hostVars,
            InstallerInv
      <3>5. QED
        BY <1>0, <2>1, <3>1, <3>3, <3>4, SetupGoesOn DEF configVars
    <2>2. CASE init \in Supported /\ FailWriting("unit")
      BY <1>5, <2>2, FailWritingInv DEF InstallService, Files
    <2>3. CASE Abort /\ Unmoved /\ UNCHANGED faults
      BY <1>5, <2>3, QuietStopInv DEF InstallService, Abort
    <2>4. QED
      BY <1>5, <2>1, <2>2, <2>3 DEF InstallService
  <1>6. CASE ReloadSystemd
    <2>1. CASE Proceed("config") /\ Unmoved
      <3>1. SetupSoFar' /\ "config" \in SetupSteps
        BY <1>6, <2>1 DEF ReloadSystemd, Proceed, SetupSoFar, SetupSteps, Unmoved, hostVars,
           InstallerInv
      <3>2. QED
        BY <1>1, <1>6, <2>1, <3>1 DEF ReloadSystemd
    <2>2. CASE FailQuietly
      BY <1>6, <2>2, QuietStopInv DEF ReloadSystemd, FailQuietly, Abort
    <2>3. QED
      BY <1>6, <2>1, <2>2 DEF ReloadSystemd
  <1>7. CASE RcDefaults
    <2>1. /\ pc = "defaults" /\ pc' = "config"
          /\ UNCHANGED <<hostVars, service, report, warned, file, configVars>>
          /\ enabled' = enabled \/ (hasRcD /\ enabled' = TRUE)
      BY <1>7 DEF RcDefaults
    <2>2. faults' \in Nat /\ (faults' = 0 => faults = 0)
      BY <1>0, <1>7 DEF RcDefaults, Fault
    <2>3. init \in Supported /\ pc \in SetupSteps /\ "config" \in SetupSteps
      BY <2>1 DEF InstallerInv, SetupSoFar, SetupSteps
    <2>4. SetupSoFar' /\ NoFileNoSecret'
      BY <1>0, <2>1 DEF SetupSoFar, InstallerInv, hostVars, configVars, NoFileNoSecret
    <2>5. enabled' \in BOOLEAN /\ (enabled' => CanEnable)
      <3>1. CASE enabled' = enabled
        BY <1>0, <3>1
      <3>2. CASE hasRcD /\ enabled' = TRUE
        BY <2>3, <3>2 DEF CanEnable, Supported
      <3>3. QED
        BY <2>1, <3>1, <3>2
    <2>6. QED
      BY <1>0, <2>1, <2>2, <2>3, <2>4, <2>5, SetupGoesOn DEF configVars
  <1>8. CASE CreateConfig
    <2>1. CASE FailWriting("config")
      BY <1>8, <2>1, FailWritingInv DEF CreateConfig, Files
    <2>2. CASE /\ file' = [file EXCEPT !["config"] = "complete"]
               /\ generated' = generated + 1
               /\ Proceed("chown")
               /\ UNCHANGED <<hostVars, enabled, service>>
      <3>1. /\ file' \in [Files -> Contents] /\ file'["config"] = "complete"
            /\ file'["binary"] = file["binary"] /\ file'["unit"] = file["unit"]
        BY <1>0, <2>2 DEF Files, Contents
      <3>2. /\ SetupSoFar' /\ "chown" \in SetupSteps /\ pc \in SetupSteps /\ NoFileNoSecret'
            /\ pc' = "chown" /\ UNCHANGED <<report, warned, faults>> /\ generated' \in Nat
        BY <1>0, <1>8, <2>2, <3>1
        DEF Proceed, SetupSoFar, SetupSteps, CreateConfig, NoFileNoSecret, hostVars, InstallerInv
      <3>3. QED
        BY <1>0, <2>2, <3>1, <3>2, SetupGoesOn
    <2>3. CASE file["config"] # "absent" /\ Proceed("enable") /\ Unmoved
      <3>1. /\ SetupSoFar' /\ "enable" \in SetupSteps /\ pc \in SetupSteps /\ NoFileNoSecret'
            /\ pc' = "enable" /\ UNCHANGED <<report, warned, faults>>
        BY <1>0, <1>8, <2>3
        DEF Proceed, SetupSoFar, SetupSteps, CreateConfig, NoFileNoSecret, hostVars, InstallerInv,
            Unmoved, configVars
      <3>2. QED
        BY <1>0, <2>3, <3>1, SetupGoesOn DEF Unmoved, configVars
    <2>4. QED
      BY <1>8, <2>1, <2>2, <2>3 DEF CreateConfig, WriteConfig
  <1>9. CASE ChownConfig
    <2>1. CASE Proceed("enable") /\ Unmoved
      <3>1. SetupSoFar' /\ "enable" \in SetupSteps
        BY <1>9, <2>1 DEF ChownConfig, Proceed, SetupSoFar, SetupSteps, Unmoved, hostVars,
           InstallerInv
      <3>2. QED
        BY <1>1, <1>9, <2>1, <3>1 DEF ChownConfig
    <2>2. CASE FailQuietly
      BY <1>9, <2>2, QuietStopInv DEF ChownConfig, FailQuietly, Abort
    <2>3. QED
      BY <1>9, <2>1, <2>2 DEF ChownConfig
  <1>10. CASE EnableService
    <2>1. CASE FailQuietly
      BY <1>10, <2>1, QuietStopInv DEF EnableService, FailQuietly, Abort
    <2>2. CASE /\ enabled' = IF init = "sysvinit" /\ ~hasRcD THEN enabled ELSE TRUE
               /\ pc' = "idle" /\ report' = "success"
               /\ UNCHANGED <<hostVars, file, configVars, service, warned, faults>>
      <3>1. /\ init \in Supported /\ file["binary"] = "complete" /\ file["unit"] = "complete"
            /\ file["config"] # "absent"
        BY <1>10 DEF EnableService, InstallerInv, SetupSoFar
      <3>2. /\ enabled' \in BOOLEAN /\ enabled' => CanEnable
            /\ enabled' \/ (init = "sysvinit" /\ ~hasRcD)
        BY <1>0, <2>2, <3>1 DEF CanEnable, Supported
      <3>3. Types' /\ NoFileNoSecret' /\ SetupSoFar'
        BY <2>2, <3>2 DEF InstallerInv, Types, hostVars, configVars, NoFileNoSecret, SetupSoFar
      <3>4. Undoable' /\ UninstallSoFar'
        BY <2>2, <3>1, <3>2 DEF InstallerInv, Undoable, UninstallSoFar, hostVars, CanEnable
      <3>5. SuccessInstalls' /\ UninstallClean'
        BY <2>2, <3>1, <3>2 DEF SuccessInstalls, UninstallClean, hostVars
      <3>6. QED
        BY <3>3, <3>4, <3>5 DEF InstallerInv
    <2>3. QED
      BY <1>10, <2>1, <2>2, Zenon DEF EnableService
  <1>11. QED
    BY <1>2, <1>3, <1>4, <1>5, <1>6, <1>7, <1>8, <1>9, <1>10 DEF Setup

\* A step of uninstall, given what it has undone.
LEMMA UninstallGoesOn ==
    ASSUME InstallerInv, pc \in UninstallSteps, Advance,
           faults' \in Nat, faults' = 0 => faults = 0,
           file' \in [Files -> Contents], enabled' \in BOOLEAN,
           service' \in {"stopped", "running", "stale"},
           warned \subseteq warned', warned' \subseteq UninstallSteps,
           NoFileNoSecret', Undoable',
           root /\ faults' = 0 => service' = "stopped" /\ warned' = {},
           pc \in {"u_disable", "u_unit", "u_binary", "u_config"} =>
              ~enabled' \/ "u_disable" \in warned',
           pc \in {"u_unit", "u_binary", "u_config"} =>
              file'["unit"] = "absent" \/ "u_unit" \in warned',
           pc \in {"u_binary", "u_config"} =>
              file'["binary"] = "absent" \/ "u_binary" \in warned'
    PROVE  InstallerInv'
  <1>1. /\ pc = "u_stop" => pc' = "u_disable"
        /\ pc = "u_disable" => pc' = "u_unit"
        /\ pc = "u_unit" => pc' = "u_binary"
        /\ pc = "u_binary" => pc' = "u_config"
        /\ pc = "u_config" => pc' = "idle"
    BY DEF Advance, AfterStep
  <1>2. /\ pc = "u_config" => report' = "uninstalled"
        /\ pc # "u_config" => report' = "none"
    BY <1>1 DEF Advance, InstallerInv, Types, UninstallSteps
  <1>3. UNCHANGED <<init, hasRcD, root, generated>>
    BY DEF Advance, hostVars
  <1>4. Types'
    BY <1>1, <1>2, <1>3 DEF InstallerInv, Types, UninstallSteps
  <1>5. SetupSoFar'
    BY <1>1 DEF SetupSoFar, UninstallSteps
  <1>6. UninstallSoFar' /\ SuccessInstalls' /\ UninstallClean'
    BY <1>1, <1>2, <1>3 DEF UninstallSoFar, SuccessInstalls, UninstallClean, UninstallSteps
  <1>7. QED
    BY <1>4, <1>5, <1>6 DEF InstallerInv

\* Each step of uninstall undoes its part, or warns.
LEMMA UninstallInv ==
    ASSUME InstallerInv, Uninstall
    PROVE  InstallerInv'
  <1>0. /\ faults \in Nat /\ enabled \in BOOLEAN /\ root \in BOOLEAN
        /\ service \in {"stopped", "running", "stale"}
        /\ file \in [Files -> Contents] /\ NoFileNoSecret /\ Undoable /\ UninstallSoFar
        /\ file["unit"] # "absent" => init \in Supported
        /\ enabled => CanEnable
        /\ warned \subseteq UninstallSteps
        /\ pc \in {"u_unit", "u_binary", "u_config"} => ~enabled \/ "u_disable" \in warned
        /\ pc \in {"u_binary", "u_config"} => file["unit"] = "absent" \/ "u_unit" \in warned
        /\ pc = "u_config" => file["binary"] = "absent" \/ "u_binary" \in warned
    BY DEF InstallerInv, Types, Undoable, UninstallSoFar
  <1>1. ASSUME Advance PROVE UNCHANGED <<init, hasRcD, root>>
    BY <1>1 DEF Advance, hostVars
  <1>2. ASSUME NEW s \in UninstallSteps, Warned(s) PROVE InstallerInv'
    <2>1. /\ pc = s /\ Advance /\ warned' = warned \cup {s}
          /\ UNCHANGED <<file, secret, enabled, service, init, hasRcD>>
      BY <1>1, <1>2 DEF Warned
    <2>2. faults' \in Nat /\ (faults' = 0 => faults = 0) /\ (root => faults' # 0)
      BY <1>0, <1>2 DEF Warned, Fault
    <2>3. NoFileNoSecret' /\ Undoable'
      BY <1>0, <2>1, <2>2 DEF NoFileNoSecret, Undoable, CanEnable
    <2>4. QED
      BY <1>0, <2>1, <2>2, <2>3, UninstallGoesOn
  <1>3. CASE StopService
    <2>1. CASE /\ pc = "u_stop"
               /\ service' = IF /\ init \in Supported /\ file["unit"] = "complete"
                                /\ init = "sysvinit" => file["binary"] # "absent"
                               THEN "stopped" ELSE service
               /\ Advance /\ UNCHANGED <<file, secret, enabled, warned, faults>>
      <3>1. NoFileNoSecret' /\ Undoable' /\ pc \in UninstallSteps
        BY <1>0, <1>1, <2>1 DEF NoFileNoSecret, Undoable, CanEnable, UninstallSteps
      <3>2. root /\ faults = 0 => service' = "stopped" /\ warned = {}
        BY <1>0, <2>1 DEF Undoable, UninstallSoFar
      <3>3. QED
        BY <1>0, <2>1, <3>1, <3>2, UninstallGoesOn
    <2>2. QED
      BY <1>2, <1>3, <2>1 DEF StopService, UninstallSteps
  <1>4. CASE DisableService
    <2>1. CASE /\ pc = "u_disable"
               /\ enabled' = IF init \in {"systemd", "openrc"} \/ (init = "sysvinit" /\ hasRcD)
                               THEN FALSE ELSE enabled
               /\ Advance /\ UNCHANGED <<file, secret, service, warned, faults>>
      <3>1. enabled' = FALSE
        BY <1>0, <2>1 DEF CanEnable
      <3>2. NoFileNoSecret' /\ Undoable' /\ pc \in UninstallSteps
        BY <1>0, <1>1, <2>1, <3>1 DEF NoFileNoSecret, Undoable, UninstallSteps
      <3>3. root /\ faults = 0 => service' = "stopped" /\ warned = {}
        BY <1>0, <2>1 DEF UninstallSoFar
      <3>4. QED
        BY <1>0, <2>1, <3>1, <3>2, <3>3, UninstallGoesOn
    <2>2. CASE Warned("u_disable")
      BY <1>2, <2>2 DEF UninstallSteps
    <2>3. QED
      BY <1>4, <2>1, <2>2, Zenon DEF DisableService
  <1>5. CASE RemoveServiceFiles
    <2>1. CASE /\ pc = "u_unit" /\ root
               /\ file' = IF init \in Supported
                            THEN [file EXCEPT !["unit"] = "absent"] ELSE file
               /\ Advance /\ UNCHANGED <<secret, enabled, service, warned, faults>>
      <3>1. /\ file' \in [Files -> Contents] /\ file'["unit"] = "absent"
            /\ file'["config"] = file["config"]
        BY <1>0, <2>1 DEF Files, Contents
      <3>2. root /\ faults = 0 => service = "stopped" /\ warned = {}
        BY <1>0, <2>1 DEF UninstallSoFar
      <3>3. NoFileNoSecret' /\ Undoable' /\ pc \in UninstallSteps
        BY <1>0, <1>1, <2>1, <3>1, <3>2 DEF NoFileNoSecret, Undoable, CanEnable, UninstallSteps
      <3>4. QED
        BY <1>0, <2>1, <3>1, <3>2, <3>3, UninstallGoesOn
    <2>2. QED
      BY <1>2, <1>5, <2>1 DEF RemoveServiceFiles, UninstallSteps
  <1>6. CASE RemoveBinary
    <2>1. CASE /\ pc = "u_binary" /\ root
               /\ file' = [file EXCEPT !["binary"] = "absent"]
               /\ service' = IF service = "running" THEN "stale" ELSE service
               /\ Advance /\ UNCHANGED <<secret, enabled, warned, faults>>
      <3>1. /\ file' \in [Files -> Contents] /\ file'["binary"] = "absent"
            /\ file'["config"] = file["config"] /\ file'["unit"] = file["unit"]
        BY <1>0, <2>1 DEF Files, Contents
      <3>2. faults = 0 => service = "stopped" /\ warned = {}
        BY <1>0, <2>1 DEF UninstallSoFar
      <3>3. NoFileNoSecret' /\ Undoable' /\ pc \in UninstallSteps
        BY <1>0, <1>1, <2>1, <3>1, <3>2 DEF NoFileNoSecret, Undoable, CanEnable, UninstallSteps
      <3>4. QED
        BY <1>0, <2>1, <3>1, <3>2, <3>3, UninstallGoesOn
    <2>2. QED
      BY <1>2, <1>6, <2>1 DEF RemoveBinary, UninstallSteps
  <1>7. CASE RemoveConfig
    <2>1. CASE /\ pc = "u_config" /\ Advance
               /\ \/ UNCHANGED <<file, secret>>
                  \/ file' = [file EXCEPT !["config"] = "absent"] /\ secret' = 0
               /\ UNCHANGED <<enabled, service, warned, faults>>
      <3>1. /\ file' \in [Files -> Contents] /\ file'["binary"] = file["binary"]
            /\ file'["unit"] = file["unit"] /\ NoFileNoSecret'
        BY <1>0, <2>1 DEF Files, Contents, NoFileNoSecret
      <3>2. root /\ faults = 0 => service = "stopped" /\ warned = {}
        BY <1>0, <2>1 DEF UninstallSoFar
      <3>3. Undoable' /\ pc \in UninstallSteps
        BY <1>0, <1>1, <2>1, <3>1 DEF Undoable, CanEnable, UninstallSteps
      <3>4. QED
        BY <1>0, <2>1, <3>1, <3>2, <3>3, UninstallGoesOn
    <2>2. QED
      BY <1>2, <1>7, <2>1 DEF RemoveConfig, UninstallSteps
  <1>8. QED
    BY <1>3, <1>4, <1>5, <1>6, <1>7 DEF Uninstall

\* The service can start only where it is installed, so not after a clean
\* uninstall.
LEMMA StartServiceInv ==
    ASSUME InstallerInv, StartService
    PROVE  InstallerInv'
  <1>1. /\ pc = "idle" /\ service' = "running"
        /\ file["binary"] = "complete" /\ file["unit"] = "complete"
        /\ UNCHANGED <<init, hasRcD, root, file, secret, generated, enabled, pc, report, warned, faults>>
    BY DEF StartService, CanStart, hostVars, configVars
  <1>2. Types' /\ NoFileNoSecret' /\ SetupSoFar' /\ SuccessInstalls'
    BY <1>1 DEF InstallerInv, Types, NoFileNoSecret, SetupSoFar, SuccessInstalls
  <1>3. Undoable' /\ UninstallSoFar' /\ UninstallClean'
    BY <1>1 DEF InstallerInv, Undoable, CanEnable, UninstallSoFar, UninstallClean
  <1>4. QED
    BY <1>2, <1>3 DEF InstallerInv

\* Every step of the installer and of its operator keeps the invariant.
LEMMA NextInstallerInv == InstallerInv /\ [Next]_vars => InstallerInv'
  <1> SUFFICES ASSUME InstallerInv, [Next]_vars PROVE InstallerInv'
    OBVIOUS
  <1>1. CASE BeginSetup \/ BeginUninstall
    BY <1>1, BeginInv DEF BeginSetup, BeginUninstall
  <1>2. CASE Interrupt
    BY <1>2, QuietStopInv DEF Interrupt
  <1>3. CASE UNCHANGED vars
    BY <1>3 DEF vars, InstallerInv, Types, NoFileNoSecret, SetupSoFar, Undoable, CanEnable,
       UninstallSoFar, SuccessInstalls, UninstallClean
  <1>4. QED
    BY <1>1, <1>2, <1>3, SetupInv, UninstallInv, StartServiceInv DEF Next

\* The three invariants together.
LEMMA InstallerInvariance == Spec => []InstallerInv
  BY InitInstallerInv, NextInstallerInv, PTL DEF Spec

\* "Setup completed successfully!" is true of the host, whatever earlier runs
\* left behind and however often they failed or were interrupted.
THEOREM SuccessTheorem == Spec => []SuccessInstalls
  <1>1. InstallerInv => SuccessInstalls
    BY DEF InstallerInv
  <1>2. QED
    BY InstallerInvariance, <1>1, PTL

\* On every init system and after any history of runs, an uninstall warns of
\* what it leaves on disk or enabled; as root on a host without faults it leaves
\* nothing running.
THEOREM UninstallTheorem == Spec => []UninstallClean
  <1>1. InstallerInv => UninstallClean
    BY DEF InstallerInv
  <1>2. QED
    BY InstallerInvariance, <1>1, PTL

\* The secret changes only where the operator confirms its removal: setup
\* generates one only while there is no file, and so none to lose.
THEOREM SecretKeptTheorem == Spec => SecretKept
  <1>1. InstallerInv /\ [Next]_vars => [secret # 0 => secret' = secret \/ pc = "u_config"]_vars
    <2> SUFFICES ASSUME InstallerInv, Next, secret # 0, pc # "u_config" PROVE secret' = secret
      OBVIOUS
    <2>1. file["config"] # "absent"
      BY DEF InstallerInv, NoFileNoSecret
    <2>2. CASE Setup
      BY <2>1, <2>2 DEF Setup, CheckRoot, CreateDirectories, InstallBinary, InstallService,
         ReloadSystemd, RcDefaults, CreateConfig, ChownConfig, EnableService, FailQuietly,
         FailWriting, Unmoved, configVars
    <2>3. CASE Uninstall
      BY <2>3 DEF Uninstall, StopService, DisableService, RemoveServiceFiles, RemoveBinary,
         RemoveConfig, Warned
    <2>4. QED
      BY <2>2, <2>3 DEF Next, BeginSetup, BeginUninstall, Begin, Interrupt, StartService,
         Unmoved, configVars
  <1>2. QED
    BY InstallerInvariance, <1>1, PTL DEF Spec, SecretKept

-----------------------------------------------------------------------------
(* The server process.                                                     *)

Labels == {"load", "logger", "authenticator", "pool", "validate", "configCert", "configKey",
           "spawn", "listen", "serveCert", "serveKey", "serve", "serving", "stop", "waiting",
           "close", "return"}
BeforeTLS == {"load", "logger", "authenticator", "pool", "validate"}

Versions ==
    /\ mainPc \in Labels
    /\ cert \in Nat /\ key \in Nat /\ floor \in Nat

\* What main has checked when it is at a place: the secret, from the pool on;
\* and the mode of TLS, from the configuration on.
Passed ==
    /\ mainPc \notin {"load", "logger", "authenticator"} => envSecret = "good"
    /\ mainPc \notin BeforeTLS => tls = LoadTLSConfig

Mode ==
    /\ mainPc \in {"configCert", "configKey", "serveCert", "serveKey"} => tls = "manual"
    /\ mainPc = "serve" => tls # "manual"

\* What is served, and since when.
Serving ==
    /\ served # "nothing" => mainPc = "serving"
    /\ served \in {"nothing", "http", "https"}
    /\ mainPc = "serving" => (served = "https" <=> tls = "manual")
    /\ floor <= key
    /\ served = "https" => pair \in Nat /\ floor <= pair

\* How main ends: when the pool has stopped, its last task is finished and no
\* other gets in; and why, before it serves, it may fail.
Ending ==
    /\ mainPc = "waiting" => pool = "closing"
    /\ mainPc \in {"close", "return"} => pool \in {"stopped", "abandoned"}
    /\ pool = "stopped" => ~tasks
    /\ logger = "closed" => mainPc = "return"
    /\ process = "exit1" =>
          /\ mainPc # "serving"
          /\ \/ envSecret # "good"
             \/ ~portFree
             \/ LoadTLSConfig = "manual" /\ (cert = 0 \/ key # read)

StartupInv == Versions /\ Passed /\ Mode /\ Serving /\ Ending

LEMMA InitStartupInv == ProcessInit => StartupInv
  BY DEF ProcessInit, StartupInv, Versions, Labels, BeforeTLS, Passed, Mode, Serving, Ending

\* main up to the goroutine: each check is passed or fatal.
LEMMA ConfigureStartupInv ==
    ASSUME StartupInv,
           \/ Load \/ InitializeLogger \/ Authenticate \/ StartPool \/ ConfigureTLS
           \/ ReadCert("configCert", "configKey") \/ GetTLSConfig \/ Spawn
    PROVE  StartupInv'
  <1> USE DEF StartupInv, Versions, Labels, BeforeTLS, Passed, Mode, Serving, Ending,
              At, Goto, Fatal, LoadTLSConfig, envVars, fileVars, serverVars,
              signalVars, deferVars, workVars
  <1>1. CASE Load
    BY <1>1 DEF Load
  <1>2. CASE InitializeLogger
    BY <1>2 DEF InitializeLogger
  <1>3. CASE Authenticate
    BY <1>3 DEF Authenticate
  <1>4. CASE StartPool
    BY <1>4 DEF StartPool
  <1>5. CASE ConfigureTLS
    BY <1>5 DEF ConfigureTLS
  <1>6. CASE ReadCert("configCert", "configKey")
    BY <1>6 DEF ReadCert
  <1>7. CASE GetTLSConfig
    BY <1>7 DEF GetTLSConfig
  <1>8. CASE Spawn
    BY <1>8 DEF Spawn
  <1>9. QED
    BY <1>1, <1>2, <1>3, <1>4, <1>5, <1>6, <1>7, <1>8

\* The server and the deferred calls.
LEMMA ServeStartupInv ==
    ASSUME StartupInv,
           \/ Listen \/ ReadCert("serveCert", "serveKey") \/ ServeTLS \/ Serve
           \/ ServeReturns \/ StopPool \/ PoolDrained \/ PoolTimedOut \/ CloseLogger \/ MainReturns
    PROVE  StartupInv'
  <1> USE DEF StartupInv, Versions, Labels, BeforeTLS, Passed, Mode, Serving, Ending,
              At, Goto, Fatal, LoadTLSConfig, envVars, fileVars, serverVars,
              signalVars, deferVars, workVars
  <1>1. CASE Listen
    BY <1>1 DEF Listen
  <1>2. CASE ReadCert("serveCert", "serveKey")
    BY <1>2 DEF ReadCert
  <1>3. CASE ServeTLS
    BY <1>3 DEF ServeTLS
  <1>4. CASE Serve
    BY <1>4 DEF Serve
  <1>5. CASE ServeReturns
    BY <1>5 DEF ServeReturns
  <1>6. CASE StopPool
    BY <1>6 DEF StopPool
  <1>7. CASE PoolDrained \/ PoolTimedOut
    BY <1>7 DEF PoolDrained, PoolTimedOut
  <1>8. CASE CloseLogger \/ MainReturns
    BY <1>8 DEF CloseLogger, MainReturns
  <1>9. QED
    BY <1>1, <1>2, <1>3, <1>4, <1>5, <1>6, <1>7, <1>8

\* Signals, renewals and webhooks: no key is replaced by an older one, and no
\* task gets into a pool that has stopped.
LEMMA NextStartupInv == StartupInv /\ [ProcessNext]_processVars => StartupInv'
  <1> SUFFICES ASSUME StartupInv, [ProcessNext]_processVars PROVE StartupInv'
    OBVIOUS
  <1> USE DEF StartupInv, Versions, Passed, Mode, Serving, Ending, LoadTLSConfig, envVars,
              fileVars, serverVars, signalVars, deferVars, workVars
  <1>1. CASE Main
    BY <1>1, ConfigureStartupInv, ServeStartupInv DEF Main
  <1>2. CASE Goroutine
    BY <1>2 DEF Goroutine, Notify, Shutdown
  <1>3. CASE Signal
    BY <1>3 DEF Signal
  <1>4. CASE Renew
    BY <1>4 DEF Renew
  <1>5. CASE Work
    <2>1. pool = "stopped" => ~tasks'
      BY <1>5 DEF Work, ReceiveRequest, HandleRequest, TasksEnd
    <2>2. QED
      BY <1>5, <2>1 DEF Work, ReceiveRequest, HandleRequest, TasksEnd
  <1>6. CASE Rest \/ UNCHANGED processVars
    BY <1>6 DEF Rest, processVars
  <1>7. QED
    BY <1>1, <1>2, <1>3, <1>4, <1>5, <1>6 DEF ProcessNext

\* Whatever was found by Validate, renewed meanwhile or signalled, the service
\* is reached only with a full secret; by HTTPS only if TLS is enabled with
\* files, and with a pair at least as new as the one on disk when the port was
\* bound; by plain HTTP only if TLS is off or its certificates are automatic.
THEOREM ServedAsConfiguredTheorem == ProcessSpec => []ServedAsConfigured
  <1>1. StartupInv => ServedAsConfigured
    BY DEF StartupInv, Versions, Labels, BeforeTLS, Passed, Serving, ServedAsConfigured,
           LoadTLSConfig
  <1>2. QED
    BY InitStartupInv, NextStartupInv, <1>1, PTL DEF ProcessSpec

\* The logger is closed only when every task is finished or the pool's shutdown
\* has timed out; and failure is reported only before the process serves, for a
\* bad secret, a port in use, or files that are missing or do not belong
\* together when they are read: a signal is never a cause.
THEOREM OrderlyEndTheorem == ProcessSpec => []OrderlyEnd
  <1>1. StartupInv => OrderlyEnd
    BY DEF StartupInv, Ending, OrderlyEnd, LoadTLSConfig
  <1>2. QED
    BY InitStartupInv, NextStartupInv, <1>1, PTL DEF ProcessSpec

-----------------------------------------------------------------------------
(* The executors.                                                          *)

Tools == {"apk", "apt-get", "dnf", "yum", "zypper", "pacman", "cloud-init", "reboot", "shutdown"}
Tasks == {"refresh", "upgrade", "clean", "init", "reboot"}
Command == [tool : Tools, task : Tasks]

\* What a call that goes on, or returns nil, may rely on for its command i.
Done(i) ==
    \/ plan[i].task \in effects
    \/ plan[i].task = "clean"
    \/ kind = "timeout" /\ plan[i].tool = "apt-get" /\ plan[i].task = "refresh"

\* The call is at one of its commands, and those before it are done.
Progress ==
    /\ plan \in Seq(Command)
    /\ pos \in Nat \ {0}
    /\ plan # Unsupported => pos <= Len(plan)
    /\ stage = "running" => plan # Unsupported
    /\ \A i \in 1 .. pos - 1 : Done(i)
    /\ result = "nil" => \A i \in DOMAIN plan : Done(i)

\* An exit code, while its command runs, tells what the tool has done.
Tells(code) ==
    /\ code = "0" => cmd.task \in effects
    /\ code = "100" => cmd.task \in effects \/ cmd.tool = "apt-get"
ExitTruth == stage = "running" => Tells(toolExit) /\ Tells(exit)

ExecutorInv == NothingLeftBehind /\ Progress /\ ExitTruth

\* Every method of every executor is a sequence of commands.
LEMMA PlanType ==
    ASSUME kind \in {"default", "secure", "timeout"}, op \in DOMAIN Plans(kind, host)
    PROVE  plan \in Seq(Command)
  <1>1. \A tool \in Tools, task \in Tasks : One(tool, task) \in Seq(Command)
    BY DEF One, Command
  <1>2. \A s, q \in Seq(Command) : s \o q \in Seq(Command)
    OBVIOUS
  <1>3. \A tool \in Tools :
           Upgrade(tool) \in Seq(Command) /\ RefreshAndUpgrade(tool) \in Seq(Command)
    <2>1. "refresh" \in Tasks /\ "upgrade" \in Tasks
      BY DEF Tasks
    <2>2. QED
      BY <1>1, <1>2, <2>1, Zenon DEF Upgrade, RefreshAndUpgrade
  <1>4. Unsupported \in Seq(Command)
    BY DEF Unsupported
  <1>5. DefaultUpdate(host) \in Seq(Command)
    BY <1>3, <1>4 DEF DefaultUpdate, Tools
  <1>6. SecureUpdate(host) \in Seq(Command)
    BY <1>3, <1>5 DEF SecureUpdate, Tools
  <1>7. TimeoutUpdate(host) \in Seq(Command)
    BY <1>3, <1>4 DEF TimeoutUpdate, Tools
  <1>8. CASE kind = "default"
    <2>1. Plans(kind, host) = DefaultPlans(host)
      BY <1>8 DEF Plans
    <2>2. /\ One("cloud-init", "init") \in Seq(Command)
          /\ One("reboot", "reboot") \in Seq(Command)
      BY <1>1 DEF Tools, Tasks
    <2>3. \A o \in DOMAIN DefaultPlans(host) : DefaultPlans(host)[o] \in Seq(Command)
      BY <1>5, <2>2 DEF DefaultPlans
    <2>4. QED
      BY <2>1, <2>3 DEF plan
  <1>9. CASE kind = "secure"
    <2> DEFINE cloudinit == One("cloud-init", "clean") \o One("cloud-init", "init")
               reboot == One("shutdown", "reboot")
    <2>1. Plans(kind, host)
            = [update |-> SecureUpdate(host), cloudinit |-> cloudinit, reboot |-> reboot]
      BY <1>9 DEF Plans, SecurePlans
    <2>2. cloudinit \in Seq(Command) /\ reboot \in Seq(Command)
      BY <1>1, <1>2 DEF Tools, Tasks
    <2> HIDE DEF cloudinit, reboot
    <2>3. \A o \in DOMAIN Plans(kind, host) : Plans(kind, host)[o] \in Seq(Command)
      BY <1>6, <2>1, <2>2
    <2>4. QED
      BY <2>3 DEF plan
  <1>10. CASE kind = "timeout"
    <2>1. Plans(kind, host) = TimeoutPlans(host)
      BY <1>10 DEF Plans
    <2>2. /\ One("shutdown", "reboot") \in Seq(Command)
          /\ One("reboot", "reboot") \in Seq(Command)
      BY <1>1 DEF Tools, Tasks
    <2>3. \A o \in DOMAIN TimeoutPlans(host) : TimeoutPlans(host)[o] \in Seq(Command)
      BY <1>7, <2>2 DEF TimeoutPlans
    <2>4. QED
      BY <2>1, <2>3 DEF plan
  <1>11. QED
    BY <1>8, <1>9, <1>10

\* A call starts with nothing running and nothing done.
LEMMA InitExecutorInv == CallInit => ExecutorInv
  <1> SUFFICES ASSUME CallInit PROVE ExecutorInv
    OBVIOUS
  <1>1. plan \in Seq(Command)
    BY PlanType DEF CallInit
  <1>2. NothingLeftBehind /\ ExitTruth
    BY DEF CallInit, NothingLeftBehind, ExitTruth
  <1>3. Progress
    BY <1>1 DEF CallInit, Unsupported, Progress
  <1>4. QED
    BY <1>2, <1>3 DEF ExecutorInv

\* What is done stays done.
LEMMA DoneStays ==
    ASSUME UNCHANGED callVars, effects \subseteq effects'
    PROVE  plan' = plan /\ \A i : Done(i) => Done(i)'
  <1>1. plan' = plan /\ kind' = kind
    BY DEF plan, callVars
  <1>2. QED
    BY <1>1 DEF Done

\* A command's call returns: the executor goes on, or returns, with that
\* command done, or reports an error.
LEMMA ConcludeProgress ==
    ASSUME ExecutorInv, NEW ok \in BOOLEAN, plan # Unsupported, alive = {},
           Conclude(ok), UNCHANGED <<callVars, effects, alive>>, ok => Done(pos)
    PROVE  ExecutorInv'
  <1>1. plan' = plan /\ \A i : Done(i) => Done(i)'
    BY DoneStays
  <1>2. /\ plan \in Seq(Command) /\ Len(plan) \in Nat /\ DOMAIN plan = 1 .. Len(plan)
        /\ pos \in Nat \ {0} /\ pos <= Len(plan)
    BY DEF ExecutorInv, Progress
  <1>3. CASE (ok \/ cmd.task = "clean") /\ pos < Len(plan)
    <2>1. pos' = pos + 1 /\ stage' = "ready" /\ UNCHANGED result
      BY <1>3 DEF Conclude
    <2>2. Done(pos)
      BY <1>3 DEF Done, cmd
    <2>3. \A i \in 1 .. pos' - 1 : Done(i)
      BY <1>2, <2>1, <2>2 DEF ExecutorInv, Progress
    <2>4. result' = "nil" => \A i \in DOMAIN plan : Done(i)
      BY <2>1 DEF ExecutorInv, Progress
    <2>5. Progress'
      BY <1>1, <1>2, <1>3, <2>1, <2>3, <2>4 DEF Progress, Unsupported
    <2>6. QED
      BY <2>1, <2>5 DEF ExecutorInv, ExitTruth, NothingLeftBehind
  <1>4. CASE ~((ok \/ cmd.task = "clean") /\ pos < Len(plan))
    <2>1. stage' = "returned" /\ result' = (IF ok THEN "nil" ELSE "error") /\ UNCHANGED pos
      BY <1>4 DEF Conclude
    <2>2. \A i \in 1 .. pos - 1 : Done(i)
      BY DEF ExecutorInv, Progress
    <2>3. ASSUME ok PROVE \A i \in DOMAIN plan : Done(i)
      <3>1. ~(pos < Len(plan))
        BY <1>4, <2>3
      <3>2. pos = Len(plan)
        <4>1. \A n \in Nat : pos <= n /\ ~(pos < n) => pos = n
          BY <1>2
        <4>2. QED
          BY <1>2, <3>1, <4>1
      <3>3. QED
        BY <1>2, <2>2, <2>3, <3>2
    <2>4. Progress'
      BY <1>1, <1>2, <2>1, <2>2, <2>3 DEF Progress, Unsupported
    <2>5. QED
      BY <2>1, <2>4 DEF ExecutorInv, ExitTruth, NothingLeftBehind
  <1>5. QED
    BY <1>3, <1>4

\* The executor's own steps.
LEMMA CallExecutorInv == ExecutorInv /\ (Refuse \/ Start \/ Return) => ExecutorInv'
  <1> SUFFICES ASSUME ExecutorInv, Refuse \/ Start \/ Return PROVE ExecutorInv'
    OBVIOUS
  <1>1. UNCHANGED <<callVars, effects>>
    BY DEF Refuse, Start, Return
  <1>2. plan' = plan /\ \A i : Done(i) => Done(i)'
    BY <1>1, DoneStays
  <1>3. CASE Refuse
    <2>1. /\ stage = "ready" /\ stage' = "returned" /\ result' = "error"
          /\ UNCHANGED <<pos, alive>>
      BY <1>3 DEF Refuse
    <2>2. Progress'
      BY <1>2, <2>1 DEF ExecutorInv, Progress, Unsupported
    <2>3. QED
      BY <2>1, <2>2 DEF ExecutorInv, ExitTruth, NothingLeftBehind
  <1>4. CASE Start
    <2>1. stage = "ready" /\ plan # Unsupported /\ alive = {}
      BY <1>4 DEF Start, ExecutorInv, NothingLeftBehind
    <2>2. CASE Conclude(FALSE) /\ UNCHANGED alive
      BY <1>1, <2>1, <2>2, ConcludeProgress
    <2>3. CASE /\ stage' = "running"
               /\ alive' = alive \cup {Direct} \cup (IF Present THEN {<<pos, "tool">>} ELSE {})
               /\ UNCHANGED <<pos, result>>
      <3>1. \A p \in alive' : p[1] = pos
        BY <2>1, <2>3 DEF Direct
      <3>2. exit' = "none" /\ toolExit' \in {"none", "failed"}
        BY <1>4 DEF Start
      <3>3. Progress'
        BY <1>2, <2>1, <2>3 DEF ExecutorInv, Progress, Unsupported
      <3>4. QED
        BY <2>3, <3>1, <3>2, <3>3 DEF ExecutorInv, ExitTruth, Tells, NothingLeftBehind
    <2>4. QED
      BY <1>4, <2>2, <2>3 DEF Start
  <1>5. CASE Return
    <2>1. stage = "running" /\ alive = {} /\ Conclude(Accepts) /\ UNCHANGED alive
      BY <1>5 DEF Return
    <2>2. plan # Unsupported /\ Tells(exit)
      BY <2>1 DEF ExecutorInv, Progress, ExitTruth
    <2>3. Accepts \in BOOLEAN
      BY DEF Accepts, AcceptsCommand, AcceptsRefresh
    <2>4. Accepts => Done(pos)
      BY <2>2 DEF Accepts, AcceptsCommand, AcceptsRefresh, Tells, Done, cmd
    <2>5. QED
      BY <1>1, <2>1, <2>2, <2>3, <2>4, ConcludeProgress
  <1>6. QED
    BY <1>3, <1>4, <1>5

\* The deadline and the processes: what they do while a command runs.
LEMMA ProcessExecutorInv ==
    ExecutorInv /\ (\/ Deadline \/ ToolEnds \/ WrapperEnds
                    \/ HelperStarts \/ HelperEnds) => ExecutorInv'
  <1> SUFFICES ASSUME ExecutorInv,
                      \/ Deadline \/ ToolEnds \/ WrapperEnds
                      \/ HelperStarts \/ HelperEnds
               PROVE  ExecutorInv'
    OBVIOUS
  <1>1. stage = "running" /\ Tells(toolExit) /\ Tells(exit)
    BY DEF Deadline, ToolEnds, WrapperEnds, HelperStarts, HelperEnds, ExecutorInv,
           NothingLeftBehind, ExitTruth
  <1>2. UNCHANGED <<callVars, pos, stage, result>>
    BY DEF Deadline, ToolEnds, WrapperEnds, HelperStarts, HelperEnds
  <1>3. effects \subseteq effects'
    BY DEF Deadline, ToolEnds, WrapperEnds, HelperStarts, HelperEnds
  <1>4. plan' = plan /\ \A i : Done(i) => Done(i)'
    BY <1>2, <1>3, DoneStays
  <1>5. cmd' = cmd
    BY <1>2, <1>4 DEF cmd
  <1>6. Progress'
    BY <1>2, <1>4 DEF ExecutorInv, Progress, Unsupported
  <1>7. NothingLeftBehind'
    <2>1. \A p \in alive' : p \in alive \/ p = <<pos, "helper">>
      BY DEF Deadline, ToolEnds, WrapperEnds, HelperStarts, HelperEnds
    <2>2. \A p \in alive' : p[1] = pos
      BY <2>1 DEF ExecutorInv, NothingLeftBehind
    <2>3. QED
      BY <1>1, <1>2, <2>2 DEF NothingLeftBehind
  <1>8. ASSUME NEW code, Tells(code)
        PROVE  /\ code = "0" => cmd.task \in effects'
               /\ code = "100" => cmd.task \in effects' \/ cmd.tool = "apt-get"
    BY <1>3, <1>8 DEF Tells
  <1>9. ASSUME ToolEnds
        PROVE  /\ toolExit' = "0" => cmd.task \in effects'
               /\ toolExit' = "100" => cmd.task \in effects' \/ cmd.tool = "apt-get"
               /\ exit' \in {exit, toolExit'}
    BY <1>9 DEF ToolEnds
  <1>10. \/ ToolEnds
         \/ toolExit' = toolExit /\ exit' \in {exit, toolExit, "killed"}
    BY DEF Deadline, WrapperEnds, HelperStarts, HelperEnds
  <1>11. ExitTruth'
    BY <1>1, <1>5, <1>8, <1>9, <1>10 DEF ExitTruth, Tells
  <1>12. QED
    BY <1>6, <1>7, <1>11 DEF ExecutorInv

\* Every step keeps the invariant.
LEMMA NextExecutorInv == ExecutorInv /\ [CallNext]_executorVars => ExecutorInv'
  <1>1. ASSUME ExecutorInv, UNCHANGED executorVars PROVE ExecutorInv'
    BY <1>1 DEF executorVars, callVars, ExecutorInv, NothingLeftBehind, Progress, ExitTruth, Tells,
                Done, plan, cmd, Unsupported
  <1>2. QED
    BY <1>1, CallExecutorInv, ProcessExecutorInv DEF CallNext, Terminated

\* No process of a command that holds its output pipe is left when the next
\* command starts or the call returns: a deadline kills the wrapper, but
\* CombinedOutput waits on.
THEOREM NothingLeftBehindTheorem == CallSpec => []NothingLeftBehind
  <1>1. ExecutorInv => NothingLeftBehind
    BY DEF ExecutorInv
  <1>2. QED
    BY InitExecutorInv, NextExecutorInv, <1>1, PTL DEF CallSpec

\* A nil error means that every command of the call has had its effect, but
\* for cloud-init clean and the package lists of apt-get under the executor
\* with timeouts.
THEOREM NilMeansDoneTheorem == CallSpec => []NilMeansDone
  <1>1. ExecutorInv => NilMeansDone
    BY DEF ExecutorInv, Progress, Done, NilMeansDone
  <1>2. QED
    BY InitExecutorInv, NextExecutorInv, <1>1, PTL DEF CallSpec

\* A host has the tools of the family that it names itself after.  A derived
\* Red Hat system names Fedora too and need not have dnf.
OwnTools(h) ==
    LET redHat == h.release \cap {"rhel", "red hat", "centos"} # {} IN
    /\ "alpine-release" \in h.files \/ "alpine" \in h.release => "apk" \in h.tools
    /\ "debian_version" \in h.files \/ h.release \cap Debians # {} => "apt-get" \in h.tools
    /\ "redhat-release" \in h.files \/ redHat => "yum" \in h.tools
    /\ "fedora" \in h.release /\ ~redHat => "dnf" \in h.tools
    /\ "suse" \in h.release => "zypper" \in h.tools
    /\ "arch" \in h.release => "pacman" \in h.tools

\* The switch, case by case.
LEMMA WordsFacts ==
    /\ DOMAIN Words = 1 .. 8
    /\ Words[1].distro = "alpine" /\ \A x : x \in Words[1].words <=> x = "alpine"
    /\ Words[2].distro = "ubuntu" /\ \A x : x \in Words[2].words <=> x = "ubuntu"
    /\ Words[3].distro = "debian" /\ \A x : x \in Words[3].words <=> x = "debian"
    /\ Words[4].distro = "rhel" /\ \A x : x \in Words[4].words <=> x = "rhel" \/ x = "red hat"
    /\ Words[5].distro = "centos" /\ \A x : x \in Words[5].words <=> x = "centos"
    /\ Words[6].distro = "fedora" /\ \A x : x \in Words[6].words <=> x = "fedora"
    /\ Words[7].distro = "suse" /\ \A x : x \in Words[7].words <=> x = "suse"
    /\ Words[8].distro = "arch" /\ \A x : x \in Words[8].words <=> x = "arch"
  <1>1. DOMAIN Words = 1 .. 8
    BY DEF Words
  <1>2. Words[1].distro = "alpine" /\ \A x : x \in Words[1].words <=> x = "alpine"
    <2>1. Words[1] = [words |-> {"alpine"}, distro |-> "alpine"]
      BY DEF Words
    <2>2. QED
      BY <2>1
  <1>3. Words[2].distro = "ubuntu" /\ \A x : x \in Words[2].words <=> x = "ubuntu"
    <2>1. Words[2] = [words |-> {"ubuntu"}, distro |-> "ubuntu"]
      BY DEF Words
    <2>2. QED
      BY <2>1
  <1>4. Words[3].distro = "debian" /\ \A x : x \in Words[3].words <=> x = "debian"
    <2>1. Words[3] = [words |-> {"debian"}, distro |-> "debian"]
      BY DEF Words
    <2>2. QED
      BY <2>1
  <1>5. Words[4].distro = "rhel" /\ \A x : x \in Words[4].words <=> x = "rhel" \/ x = "red hat"
    <2>1. Words[4] = [words |-> {"rhel", "red hat"}, distro |-> "rhel"]
      BY DEF Words
    <2>2. \A w, d : Words[4] = [words |-> w, distro |-> d] =>
                       Words[4].words = w /\ Words[4].distro = d
      OBVIOUS
    <2>3. Words[4].words = {"rhel", "red hat"} /\ Words[4].distro = "rhel"
      BY <2>1, <2>2, Zenon
    <2>4. QED
      BY <2>3, Zenon
  <1>6. Words[5].distro = "centos" /\ \A x : x \in Words[5].words <=> x = "centos"
    <2>1. Words[5] = [words |-> {"centos"}, distro |-> "centos"]
      BY DEF Words
    <2>2. QED
      BY <2>1
  <1>7. Words[6].distro = "fedora" /\ \A x : x \in Words[6].words <=> x = "fedora"
    <2>1. Words[6] = [words |-> {"fedora"}, distro |-> "fedora"]
      BY DEF Words
    <2>2. QED
      BY <2>1
  <1>8. Words[7].distro = "suse" /\ \A x : x \in Words[7].words <=> x = "suse"
    <2>1. Words[7] = [words |-> {"suse"}, distro |-> "suse"]
      BY DEF Words
    <2>2. QED
      BY <2>1
  <1>9. Words[8].distro = "arch" /\ \A x : x \in Words[8].words <=> x = "arch"
    <2>1. Words[8] = [words |-> {"arch"}, distro |-> "arch"]
      BY DEF Words
    <2>2. QED
      BY <2>1
  <1>10. QED
    BY <1>1, <1>2, <1>3, <1>4, <1>5, <1>6, <1>7, <1>8, <1>9, Zenon

\* The cases of the switch that match are those whose word os-release holds.
LEMMA NamedWords ==
    ASSUME NEW h
    PROVE  /\ 1 \in Matches(h) <=> "alpine" \in h.release
           /\ 2 \in Matches(h) <=> "ubuntu" \in h.release
           /\ 3 \in Matches(h) <=> "debian" \in h.release
           /\ 4 \in Matches(h) <=> "rhel" \in h.release \/ "red hat" \in h.release
           /\ 5 \in Matches(h) <=> "centos" \in h.release
           /\ 6 \in Matches(h) <=> "fedora" \in h.release
           /\ 7 \in Matches(h) <=> "suse" \in h.release
           /\ 8 \in Matches(h) <=> "arch" \in h.release
  <1>1. DOMAIN Words = 1 .. 8
    BY WordsFacts, Zenon
  <1>2. 1 \in Matches(h) <=> "alpine" \in h.release
    <2>1. 1 \in DOMAIN Words
      BY <1>1
    <2>2. \A x : x \in Words[1].words <=> x = "alpine"
      BY WordsFacts, Zenon
    <2>3. QED
      BY <2>1, <2>2 DEF Matches
  <1>3. 2 \in Matches(h) <=> "ubuntu" \in h.release
    <2>1. 2 \in DOMAIN Words
      BY <1>1
    <2>2. \A x : x \in Words[2].words <=> x = "ubuntu"
      BY WordsFacts, Zenon
    <2>3. QED
      BY <2>1, <2>2 DEF Matches
  <1>4. 3 \in Matches(h) <=> "debian" \in h.release
    <2>1. 3 \in DOMAIN Words
      BY <1>1
    <2>2. \A x : x \in Words[3].words <=> x = "debian"
      BY WordsFacts, Zenon
    <2>3. QED
      BY <2>1, <2>2 DEF Matches
  <1>5. 4 \in Matches(h) <=> "rhel" \in h.release \/ "red hat" \in h.release
    <2>1. 4 \in DOMAIN Words
      BY <1>1
    <2>2. \A x : x \in Words[4].words <=> x = "rhel" \/ x = "red hat"
      BY WordsFacts, Zenon
    <2>3. 4 \in Matches(h) <=> \E x : x \in Words[4].words /\ x \in h.release
      BY <2>1 DEF Matches
    <2>4. ASSUME "rhel" \in h.release \/ "red hat" \in h.release PROVE 4 \in Matches(h)
      <3>1. "rhel" \in Words[4].words /\ "red hat" \in Words[4].words
        BY <2>2
      <3>2. QED
        BY <2>3, <2>4, <3>1
    <2>5. ASSUME 4 \in Matches(h) PROVE "rhel" \in h.release \/ "red hat" \in h.release
      <3>1. PICK x : x \in Words[4].words /\ x \in h.release
        BY <2>3, <2>5
      <3>2. x = "rhel" \/ x = "red hat"
        BY <2>2, <3>1
      <3>3. QED
        BY <3>1, <3>2
    <2>6. QED
      BY <2>4, <2>5
  <1>6. 5 \in Matches(h) <=> "centos" \in h.release
    <2>1. 5 \in DOMAIN Words
      BY <1>1
    <2>2. \A x : x \in Words[5].words <=> x = "centos"
      BY WordsFacts, Zenon
    <2>3. QED
      BY <2>1, <2>2 DEF Matches
  <1>7. 6 \in Matches(h) <=> "fedora" \in h.release
    <2>1. 6 \in DOMAIN Words
      BY <1>1
    <2>2. \A x : x \in Words[6].words <=> x = "fedora"
      BY WordsFacts, Zenon
    <2>3. QED
      BY <2>1, <2>2 DEF Matches
  <1>8. 7 \in Matches(h) <=> "suse" \in h.release
    <2>1. 7 \in DOMAIN Words
      BY <1>1
    <2>2. \A x : x \in Words[7].words <=> x = "suse"
      BY WordsFacts, Zenon
    <2>3. QED
      BY <2>1, <2>2 DEF Matches
  <1>9. 8 \in Matches(h) <=> "arch" \in h.release
    <2>1. 8 \in DOMAIN Words
      BY <1>1
    <2>2. \A x : x \in Words[8].words <=> x = "arch"
      BY WordsFacts, Zenon
    <2>3. QED
      BY <2>1, <2>2 DEF Matches
  <1>10. QED
    BY <1>2, <1>3, <1>4, <1>5, <1>6, <1>7, <1>8, <1>9, Zenon

\* The first word of the switch that os-release holds exists and decides.
LEMMA FirstMatch ==
    ASSUME NEW h, Matches(h) # {}
    PROVE  /\ Min(Matches(h)) \in Matches(h)
           /\ \A i \in Matches(h) : Min(Matches(h)) <= i
  <1>1. Matches(h) \subseteq 1 .. 8
    BY WordsFacts DEF Matches
  <1> HIDE DEF Matches
  <1>2. \E i \in Matches(h) : \A k \in Matches(h) : i <= k
    BY <1>1
  <1>3. QED
    BY <1>2, Zenon DEF Min

\* The distribution detected is one whose package manager the host has.
LEMMA DetectedTools ==
    ASSUME NEW h, OwnTools(h)
    PROVE  LET distro == DetectDistribution(h) IN
           /\ distro = "alpine" => "apk" \in h.tools
           /\ distro \in Debians => "apt-get" \in h.tools
           /\ distro \in {"rhel", "centos"} => "yum" \in h.tools
           /\ distro = "fedora" => "dnf" \in h.tools
           /\ distro = "suse" => "zypper" \in h.tools
           /\ distro = "arch" => "pacman" \in h.tools
  <1>1. CASE "alpine-release" \in h.files \/ ~h.readable \/ Matches(h) = {}
    BY <1>1 DEF DetectDistribution, OwnTools, Debians
  <1>2. CASE "alpine-release" \notin h.files /\ h.readable /\ Matches(h) # {}
    <2> DEFINE first == Min(Matches(h))
    <2>1. DetectDistribution(h) = Words[first].distro
      BY <1>2 DEF DetectDistribution
    <2>2. first \in Matches(h) /\ \A i \in Matches(h) : first <= i
      BY <1>2, FirstMatch
    <2> HIDE DEF first
    <2>3. first \in 1 .. 8
      BY <2>2, WordsFacts DEF Matches
    <2>4. first = 6 => h.release \cap {"rhel", "red hat", "centos"} = {}
      <3>1. first = 6 => 4 \notin Matches(h) /\ 5 \notin Matches(h)
        BY <2>2
      <3>2. QED
        BY <3>1, NamedWords
    <2>5. CASE first = 1
      BY <2>1, <2>2, <2>5, NamedWords, WordsFacts DEF OwnTools, Debians
    <2>6. CASE first = 2
      BY <2>1, <2>2, <2>6, NamedWords, WordsFacts DEF OwnTools, Debians
    <2>7. CASE first = 3
      BY <2>1, <2>2, <2>7, NamedWords, WordsFacts DEF OwnTools, Debians
    <2>8. CASE first = 4
      BY <2>1, <2>2, <2>8, NamedWords, WordsFacts DEF OwnTools, Debians
    <2>9. CASE first = 5
      BY <2>1, <2>2, <2>9, NamedWords, WordsFacts DEF OwnTools, Debians
    <2>10. CASE first = 6
      BY <2>1, <2>2, <2>4, <2>10, NamedWords, WordsFacts DEF OwnTools, Debians
    <2>11. CASE first = 7
      BY <2>1, <2>2, <2>11, NamedWords, WordsFacts DEF OwnTools, Debians
    <2>12. CASE first = 8
      BY <2>1, <2>2, <2>12, NamedWords, WordsFacts DEF OwnTools, Debians
    <2>13. QED
      BY <2>3, <2>5, <2>6, <2>7, <2>8, <2>9, <2>10, <2>11, <2>12
  <1>3. QED
    BY <1>1, <1>2

\* Every command of an update is one of a tool that the host has.
LEMMA UpdateTools ==
    ASSUME NEW h, OwnTools(h)
    PROVE  /\ \A i \in DOMAIN DefaultUpdate(h) : DefaultUpdate(h)[i].tool \in h.tools
           /\ \A i \in DOMAIN TimeoutUpdate(h) : TimeoutUpdate(h)[i].tool \in h.tools
  <1> DEFINE Uses(s) == \A i \in DOMAIN s : s[i].tool \in h.tools
  <1>1. ASSUME NEW tool \in h.tools PROVE Uses(Upgrade(tool)) /\ Uses(RefreshAndUpgrade(tool))
    BY DEF Upgrade, RefreshAndUpgrade, One
  <1>2. Uses(Unsupported)
    BY DEF Unsupported
  <1> HIDE DEF Uses
  <1>3. Uses(DefaultUpdate(h))
    BY <1>1, <1>2, DetectedTools DEF DefaultUpdate, RedHats, Debians
  <1>4. Uses(TimeoutUpdate(h))
    BY <1>1, <1>2, DetectedTools DEF TimeoutUpdate, Debians
  <1>5. QED
    BY <1>3, <1>4 DEF Uses

\* The call does not change its executor, host or method.
CallKept ==
    kind \in {"default", "secure", "timeout"} /\ host \in Hosts /\ op \in DOMAIN Plans(kind, host)

LEMMA CallKeptInvariance == CallSpec => []CallKept
  <1>1. CallInit => CallKept
    BY DEF CallInit, CallKept
  <1>2. CallKept /\ [CallNext]_executorVars => CallKept'
    BY DEF CallKept, CallNext, executorVars, callVars, Refuse, Start, Deadline, Return, ToolEnds,
           WrapperEnds, HelperStarts, HelperEnds, Terminated
  <1>3. QED
    BY <1>1, <1>2, PTL DEF CallSpec

\* Where every host has the tools of the family that it names itself after, an
\* update by the default executor or the one with timeouts always runs a
\* package manager that is there.
THEOREM ToolPresentTheorem ==
    ASSUME \A h \in Hosts : OwnTools(h)
    PROVE  CallSpec => []ToolPresent
  <1>1. ExecutorInv /\ CallKept => ToolPresent
    <2> SUFFICES ASSUME ExecutorInv, CallKept, kind # "secure", op = "update", plan # Unsupported
                 PROVE  Present
      BY DEF ToolPresent
    <2>1. pos \in DOMAIN plan
      BY DEF ExecutorInv, Progress
    <2>2. plan \in {DefaultUpdate(host), TimeoutUpdate(host)}
      BY DEF CallKept, plan, Plans, DefaultPlans, TimeoutPlans
    <2>3. OwnTools(host)
      BY DEF CallKept
    <2>4. plan[pos].tool \in host.tools
      BY <2>1, <2>2, <2>3, UpdateTools, Zenon
    <2>5. QED
      BY <2>4 DEF Present, cmd
  <1>2. QED
    BY InitExecutorInv, NextExecutorInv, CallKeptInvariance, <1>1, PTL DEF CallSpec

-----------------------------------------------------------------------------
(* The slog logger.                                                        *)

\* What is open is the file at the path and the one that slogFile names; while
\* a rotation has it closed, neither a first call nor CloseSlog comes between.
SlogInv ==
    /\ RotationKeepsLines
    /\ NoFile \notin handles
    /\ handles \subseteq {slogFile} /\ handles \subseteq {path}
    /\ instance = Nil => slogFile = NoFile
    /\ DOMAIN call = Writers /\ DOMAIN content = 1 .. MaxFiles
    /\ \A w \in Writers :
          call[w] = "renaming" => slogMu = w /\ handles = {} /\ instance # Nil

\* Only CloseForRotation brings a writer to its rename.
LEMMA OthersRenaming ==
    ASSUME SlogInv, NEW w \in Writers, NEW label, label # "renaming", GotoSlog(w, label)
    PROVE  /\ DOMAIN call' = Writers
           /\ \A v \in Writers : call'[v] = "renaming" => call[v] = "renaming"
  BY DEF SlogInv, GotoSlog

\* The steps of a logging call that touch no file and no lock.
LEMMA QuietSlogInv ==
    ASSUME SlogInv, NEW w \in Writers,
           BeginLog(w) \/ LoadCheck(w) \/ StoreCheck(w) \/ StatFile(w) \/ GetInstance(w)
    PROVE  SlogInv'
  <1>1. UNCHANGED <<instance, slogFile, slogMu, handles, path, backups, content>>
    BY DEF BeginLog, LoadCheck, StoreCheck, StatFile, GetInstance, diskVars
  <1>2. \E label \in {"getting", "checking", "storing", "sizing", "locking", "panicked", "writing"} :
           GotoSlog(w, label)
    BY DEF BeginLog, LoadCheck, StoreCheck, StatFile, GetInstance
  <1>3. /\ DOMAIN call' = Writers
        /\ \A v \in Writers : call'[v] = "renaming" => call[v] = "renaming"
    BY <1>2, OthersRenaming
  <1>4. QED
    BY <1>1, <1>3 DEF SlogInv, RotationKeepsLines

\* A line goes to the file that is open, which is the one at the path.
LEMMA WriteLineSlogInv ==
    ASSUME SlogInv, NEW w \in Writers, WriteLine(w)
    PROVE  SlogInv'
  <1>1. UNCHANGED <<instance, slogFile, slogMu, handles, path, backups>>
    BY DEF WriteLine
  <1>2. /\ DOMAIN call' = Writers
        /\ \A v \in Writers : call'[v] = "renaming" => call[v] = "renaming"
    BY OthersRenaming DEF WriteLine
  <1>3. DOMAIN content' = 1 .. MaxFiles
        /\ \A f \in 1 .. MaxFiles : f # path => content'[f] = content[f]
    BY DEF WriteLine, SlogInv
  <1>4. RotationKeepsLines'
    BY <1>1, <1>3 DEF SlogInv, RotationKeepsLines
  <1>5. QED
    BY <1>1, <1>2, <1>3, <1>4 DEF SlogInv

\* The rotation takes the lock only when nobody else has it, and closes the
\* only file that is open.
LEMMA CloseForRotationSlogInv ==
    ASSUME Free \notin Writers, SlogInv, NEW w \in Writers, CloseForRotation(w)
    PROVE  SlogInv'
  <1>1. /\ slogMu = Free /\ UNCHANGED <<instance, slogFile, path, backups, content>>
        /\ \A v \in Writers : call[v] # "renaming"
    BY DEF CloseForRotation, SlogInv
  <1>2. RotationKeepsLines'
    BY <1>1 DEF SlogInv, RotationKeepsLines
  <1>3. CASE GotoSlog(w, "getting") /\ UNCHANGED <<slogMu, handles>>
    BY <1>1, <1>2, <1>3, OthersRenaming DEF SlogInv
  <1>4. CASE /\ slogFile # NoFile /\ handles' = handles \ {slogFile} /\ slogMu' = w
             /\ GotoSlog(w, "renaming")
    <2>1. handles' = {} /\ instance # Nil
      BY <1>4 DEF SlogInv
    <2>2. DOMAIN call' = Writers /\ \A v \in Writers : call'[v] = "renaming" => v = w
      BY <1>1, <1>4 DEF SlogInv, GotoSlog
    <2>3. QED
      BY <1>1, <1>2, <1>4, <2>1, <2>2 DEF SlogInv
  <1>5. QED
    BY <1>3, <1>4 DEF CloseForRotation

\* A rename that replaces nothing moves the path's file to a backup of its own.
LEMMA ReopenSlogInv ==
    ASSUME Free \notin Writers, SlogInv, NEW w \in Writers, ReopenAfterRotation(w),
           backups' = backups \/ now \notin DOMAIN backups
    PROVE  SlogInv'
  <1>1. /\ slogMu = w /\ handles = {} /\ instance # Nil /\ content' = content /\ slogMu' = Free
        /\ \A v \in Writers : call[v] = "renaming" => v = w
    BY DEF ReopenAfterRotation, SlogInv
  <1>2. DOMAIN call' = Writers /\ \A v \in Writers : call'[v] # "renaming"
    BY <1>1 DEF ReopenAfterRotation, SlogInv, GotoSlog
  <1>3. PICK left :
           /\ \/ backups' = backups /\ left = path
              \/ Rename /\ left = NoFile
           /\ \/ \E f \in 1 .. MaxFiles : Open(left, f) /\ slogFile' = f /\ instance' = f
              \/ path' = left /\ UNCHANGED <<slogFile, instance, files, handles>>
    BY DEF ReopenAfterRotation
  <1>4. /\ Range(backups) \subseteq Range(backups')
        /\ path # NoFile /\ left # path => path \in Range(backups')
    <2>1. CASE backups' = backups /\ left = path
      BY <2>1
    <2>2. CASE Rename /\ left = NoFile
      <3>1. CASE backups' = backups
        BY <2>2, <3>1 DEF Rename, Range
      <3>2. CASE now \notin DOMAIN backups
        BY <2>2, <3>2 DEF Rename, Range
      <3>3. QED
        BY <3>1, <3>2
    <2>3. QED
      BY <1>3, <2>1, <2>2
  <1>5. left # NoFile => path' = left
    BY <1>3 DEF Open
  <1>6. RotationKeepsLines'
    <2>1. SUFFICES ASSUME NEW f \in 1 .. MaxFiles, content[f] # {}
                   PROVE  f = path' \/ f \in Range(backups')
      BY <1>1 DEF RotationKeepsLines
    <2>2. f = path \/ f \in Range(backups)
      BY <2>1 DEF SlogInv, RotationKeepsLines
    <2>3. f # NoFile
      BY DEF NoFile
    <2>4. QED
      BY <1>4, <1>5, <2>2, <2>3
  <1>7. CASE \E f \in 1 .. MaxFiles : Open(left, f) /\ slogFile' = f /\ instance' = f
    <2>1. PICK f \in 1 .. MaxFiles : Open(left, f) /\ slogFile' = f /\ instance' = f
      BY <1>7
    <2>2. handles' = {f} /\ path' = f /\ f # NoFile /\ f # Nil
      BY <1>1, <2>1 DEF Open, NoFile, Nil
    <2>3. QED
      BY <1>1, <1>2, <1>6, <2>1, <2>2 DEF SlogInv
  <1>8. CASE path' = left /\ UNCHANGED <<slogFile, instance, files, handles>>
    BY <1>1, <1>2, <1>6, <1>8 DEF SlogInv
  <1>9. QED
    BY <1>3, <1>7, <1>8

\* A first call finds every file closed, and so does no rotation.
LEMMA InitializeSlogInv ==
    ASSUME SlogInv, InitializeSlog \/ GetSlog
    PROVE  SlogInv'
  <1>1. /\ instance = Nil /\ slogFile = NoFile /\ handles = {}
        /\ UNCHANGED <<slogMu, call, backups, content>>
        /\ \A v \in Writers : call[v] # "renaming"
    BY DEF InitializeSlog, GetSlog, SlogInv, writerVars, diskVars
  <1>2. CASE GetSlog
    BY <1>1, <1>2 DEF GetSlog, SlogInv, RotationKeepsLines, diskVars
  <1>3. CASE InitializeSlog
    <2>1. PICK f \in 1 .. MaxFiles : Open(path, f) /\ slogFile' = f /\ instance' = f
      BY <1>3 DEF InitializeSlog
    <2>2. /\ handles' = {f} /\ path' = f /\ f # NoFile /\ f # Nil
          /\ path # NoFile => path' = path
      BY <1>1, <2>1 DEF Open, NoFile, Nil
    <2>3. RotationKeepsLines'
      BY <1>1, <2>2 DEF SlogInv, RotationKeepsLines, NoFile
    <2>4. QED
      BY <1>1, <2>1, <2>2, <2>3 DEF SlogInv
  <1>4. QED
    BY <1>2, <1>3

\* A line that was written to the slog logger's file is lost only by the rename
\* of a second rotation in one second: as long as none finds a backup of its
\* second, every file with lines in it is at the path or a backup, whatever
\* writers, first calls and CloseSlog interleave with the rotations.
THEOREM RotationTheorem ==
    ASSUME Free \notin Writers
    PROVE  SlogSpec /\ OneBackupPerSecond => []RotationKeepsLines
  <1>1. SlogInit => SlogInv
    BY DEF SlogInit, SlogInv, RotationKeepsLines
  <1>2. SlogInv /\ [SlogNext]_slogVars /\ [backups' = backups \/ now \notin DOMAIN backups]_slogVars
           => SlogInv'
    <2> SUFFICES ASSUME SlogInv, [SlogNext]_slogVars,
                        [backups' = backups \/ now \notin DOMAIN backups]_slogVars
                 PROVE  SlogInv'
      OBVIOUS
    <2>1. CASE UNCHANGED slogVars \/ Tick
      BY <2>1 DEF Tick, slogVars, writerVars, diskVars, SlogInv, RotationKeepsLines
    <2>2. CASE CloseSlog
      <3>1. /\ handles' = {} /\ slogFile' = NoFile
            /\ UNCHANGED <<slogMu, call, path, backups, content>>
            /\ \A v \in Writers : call[v] # "renaming"
        BY <2>2 DEF CloseSlog, SlogInv, writerVars
      <3>2. QED
        BY <3>1 DEF SlogInv, RotationKeepsLines
    <2>3. ASSUME NEW w \in Writers, ReopenAfterRotation(w) PROVE SlogInv'
      <3>1. backups' = backups \/ now \notin DOMAIN backups
        BY DEF slogVars, diskVars
      <3>2. QED
        BY <2>3, <3>1, ReopenSlogInv
    <2>4. QED
      BY <2>1, <2>2, <2>3, QuietSlogInv, WriteLineSlogInv, CloseForRotationSlogInv,
         InitializeSlogInv DEF SlogNext
  <1>3. SlogInv => RotationKeepsLines
    BY DEF SlogInv
  <1>4. QED
    BY <1>1, <1>2, <1>3, PTL DEF SlogSpec, OneBackupPerSecond

=============================================================================
