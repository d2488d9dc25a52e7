----------------------------- MODULE Installer ------------------------------
(***************************************************************************)
(* The installer behind --setup and --uninstall (internal/setup/setup.go). *)
(*                                                                         *)
(* Setup is a sequence of steps on the host that stops at the first error  *)
(* and undoes nothing; the operator runs it again.  Uninstall goes on      *)
(* after every error.  WriteFile truncates before it writes, so a failed   *)
(* write leaves the old file, no file, or a part of the new one.           *)
(*                                                                         *)
(* The host (file system, init system) is external and modelled from how   *)
(* the installer uses it; a partial configuration has no usable secret.    *)
(***************************************************************************)
EXTENDS Integers

CONSTANTS
    InitSystems,  \* the results of detectInitSystem to consider
    MaxFaults,    \* bound of the model: failing steps in a behaviour
    MaxSecrets    \* bound of the model: secrets generated in a behaviour

ASSUME InstallerAssumption ==
    /\ InitSystems \subseteq {"systemd", "openrc", "sysvinit", "upstart", "unknown"}
    /\ MaxFaults \in Nat /\ MaxSecrets \in Nat

VARIABLES
    init,       \* ServiceInstaller.initSystem
    hasRcD,     \* whether update-rc.d is on the path
    file,       \* the binary, the service file and config.env
    secret,     \* which secret config.env holds; 0 when it has none
    generated,  \* how many secrets have been generated
    enabled,    \* whether the service is enabled at boot
    service,    \* whether the service runs; "stale": it runs a removed binary
    root,       \* whether the installer was started as root
    pc,         \* the step the installer is at; "idle" when it is not running
    report,     \* what the last run told the operator
    warned,     \* the steps it has warned of, if it is an uninstall
    faults      \* failing steps so far

vars == <<init, hasRcD, file, secret, generated, enabled, service, root, pc, report,
          warned, faults>>
hostVars == <<init, hasRcD, root>>
configVars == <<secret, generated>>

Files == {"binary", "unit", "config"}
Contents == {"absent", "partial", "complete"}
Supported == {"systemd", "openrc", "sysvinit"}

Init ==
    /\ init \in InitSystems
    /\ hasRcD \in BOOLEAN
    /\ file = [f \in Files |-> "absent"]
    /\ secret = 0 /\ generated = 0
    /\ enabled = FALSE
    /\ service = "stopped" /\ root = FALSE
    /\ pc = "idle" /\ report = "none" /\ warned = {}
    /\ faults = 0

-----------------------------------------------------------------------------
(* Steps and their failures.                                               *)

\* The step succeeded and the run goes on, or an error ends the run.
Proceed(next) == pc' = next /\ UNCHANGED <<report, warned, faults>>
Abort == pc' = "idle" /\ report' = "failed" /\ UNCHANGED warned

\* Something on the host fails.
Fault == faults < MaxFaults /\ faults' = faults + 1

Unmoved == UNCHANGED <<hostVars, file, configVars, enabled, service>>

\* A step that changes nothing we track fails and ends the run.
FailQuietly == Fault /\ Abort /\ Unmoved

\* WriteFile fails, before or after it has truncated the file.
FailWriting(f) ==
    /\ Fault /\ Abort
    /\ \E left \in {file[f], "partial"} : file' = [file EXCEPT ![f] = left]
    /\ secret' = IF f = "config" THEN 0 ELSE secret
    /\ UNCHANGED <<hostVars, generated, enabled, service>>

\* The installer is killed, or the host goes down, between two steps.
Interrupt ==
    /\ pc # "idle"
    /\ Fault
    /\ pc' = "idle" /\ report' = "none" /\ UNCHANGED warned
    /\ Unmoved

-----------------------------------------------------------------------------
(* Setup.                                                                  *)

\* The operator starts a run of the installer, as root or not.
Begin(first) ==
    /\ pc = "idle"
    /\ root' \in BOOLEAN
    /\ pc' = first /\ report' = "none" /\ warned' = {}
    /\ UNCHANGED <<init, hasRcD, file, configVars, enabled, service, faults>>

BeginSetup == Begin("root")

\* Setup is for root only.
CheckRoot ==
    /\ pc = "root"
    /\ \/ root /\ Proceed("directories")
       \/ ~root /\ Abort /\ UNCHANGED faults
    /\ Unmoved

\* createDirectories; MkdirAll succeeds when they exist.
CreateDirectories ==
    /\ pc = "directories"
    /\ \/ Proceed("binary") /\ Unmoved
       \/ FailQuietly

\* installBinary.  The file of a running program cannot be written to.
InstallBinary ==
    /\ pc = "binary"
    /\ \/ /\ service # "running"
          /\ file' = [file EXCEPT !["binary"] = "complete"]
          /\ Proceed("unit")
          /\ UNCHANGED <<hostVars, configVars, enabled, service>>
       \/ service # "running" /\ FailWriting("binary")
       \/ service = "running" /\ Abort /\ Unmoved /\ UNCHANGED faults

\* Bug: the error of the write is dropped.
InstallServiceUnchecked ==
    /\ pc = "unit"
    /\ \E left \in {file["unit"], "partial", "complete"} :
          file' = [file EXCEPT !["unit"] = left]
    /\ Proceed("config")
    /\ UNCHANGED <<hostVars, configVars, enabled, service>>

\* installService: the service file of the init system, and what follows it.
AfterUnit == [systemd |-> "reload", openrc |-> "config", sysvinit |-> "defaults"]

InstallService ==
    /\ pc = "unit"
    /\ \/ /\ init \in Supported
          /\ file' = [file EXCEPT !["unit"] = "complete"]
          /\ Proceed(AfterUnit[init])
          /\ UNCHANGED <<hostVars, configVars, enabled, service>>
       \/ init \in Supported /\ FailWriting("unit")
       \/ init \notin Supported /\ Abort /\ Unmoved /\ UNCHANGED faults

\* systemctl daemon-reload.
ReloadSystemd ==
    /\ pc = "reload"
    /\ \/ Proceed("config") /\ Unmoved
       \/ FailQuietly

\* update-rc.d defaults, where there is one; its failure is only a warning.
RcDefaults ==
    /\ pc = "defaults"
    /\ \/ hasRcD /\ enabled' = TRUE /\ UNCHANGED faults
       \/ hasRcD /\ Fault /\ UNCHANGED enabled
       \/ ~hasRcD /\ UNCHANGED <<enabled, faults>>
    /\ pc' = "config"
    /\ UNCHANGED <<hostVars, file, configVars, service, report, warned>>

\* A new secret is generated and the file is written.
WriteConfig ==
    \/ /\ generated < MaxSecrets
       /\ file' = [file EXCEPT !["config"] = "complete"]
       /\ secret' = generated + 1 /\ generated' = generated + 1
       /\ Proceed("chown")
       /\ UNCHANGED <<hostVars, enabled, service>>
    \/ FailWriting("config")

\* Bug: no test whether the file exists.
CreateConfigAlways == pc = "config" /\ WriteConfig

\* Bug: an existing file is an error.
CreateConfigOnce ==
    /\ pc = "config"
    /\ \/ file["config"] = "absent" /\ WriteConfig
       \/ /\ file["config"] # "absent" /\ Abort
          /\ Unmoved /\ UNCHANGED faults

\* createConfig: a file that exists is kept, whatever it holds.
CreateConfig ==
    /\ pc = "config"
    /\ \/ file["config"] = "absent" /\ WriteConfig
       \/ /\ file["config"] # "absent"
          /\ Proceed("enable")
          /\ Unmoved

\* The ownership of a new configuration.
ChownConfig ==
    /\ pc = "chown"
    /\ \/ Proceed("enable") /\ Unmoved
       \/ FailQuietly

\* enableService, then "Setup completed successfully!".
EnableService ==
    /\ pc = "enable"
    /\ \/ /\ enabled' = IF init = "sysvinit" /\ ~hasRcD THEN enabled ELSE TRUE
          /\ pc' = "idle" /\ report' = "success"
          /\ UNCHANGED <<hostVars, file, configVars, service, warned, faults>>
       \/ ~(init = "sysvinit" /\ ~hasRcD) /\ FailQuietly

Setup ==
    \/ CheckRoot \/ CreateDirectories \/ InstallBinary \/ InstallService
    \/ ReloadSystemd \/ RcDefaults \/ CreateConfig \/ ChownConfig
    \/ EnableService

-----------------------------------------------------------------------------
(* Uninstall.  It does not ask who runs it; an error, or a missing         *)
(* permission, is a warning and the next step follows.                     *)

\* The order of the steps.
AfterStep ==
    [u_stop |-> "u_disable", u_disable |-> "u_unit", u_unit |-> "u_binary",
     u_binary |-> "u_config", u_config |-> "idle"]

BeginUninstall == Begin("u_stop")

Advance ==
    /\ pc' = AfterStep[pc]
    /\ report' = IF pc' = "idle" THEN "uninstalled" ELSE report
    /\ UNCHANGED <<hostVars, generated>>

\* The step fails, with a warning.
Warned(step) ==
    /\ pc = step
    /\ Advance
    /\ warned' = warned \cup {step}
    /\ IF root THEN Fault ELSE UNCHANGED faults
    /\ UNCHANGED <<file, secret, enabled, service>>

\* Bug: only systemd is asked to stop the service.
StopServiceSystemdOnly ==
    /\ pc = "u_stop" /\ root
    /\ service' = IF init = "systemd" THEN "stopped" ELSE service
    /\ Advance
    /\ UNCHANGED <<file, secret, enabled, warned, faults>>

\* stopService, through the service file.  That of sysvinit does nothing when
\* the binary is not there.
StopService ==
    \/ /\ pc = "u_stop" /\ root
       /\ service' = IF /\ init \in Supported /\ file["unit"] = "complete"
                        /\ init = "sysvinit" => file["binary"] # "absent"
                       THEN "stopped" ELSE service
       /\ Advance
       /\ UNCHANGED <<file, secret, enabled, warned, faults>>
    \/ Warned("u_stop")

\* disableService; for sysvinit only where there is update-rc.d.
DisableService ==
    \/ /\ pc = "u_disable" /\ root
       /\ enabled' = IF init \in {"systemd", "openrc"} \/ (init = "sysvinit" /\ hasRcD)
                       THEN FALSE ELSE enabled
       /\ Advance
       /\ UNCHANGED <<file, secret, service, warned, faults>>
    \/ Warned("u_disable")

\* removeServiceFiles.
RemoveServiceFiles ==
    \/ /\ pc = "u_unit" /\ root
       /\ file' = IF init \in Supported
                    THEN [file EXCEPT !["unit"] = "absent"] ELSE file
       /\ Advance
       /\ UNCHANGED <<secret, enabled, service, warned, faults>>
    \/ Warned("u_unit")

\* RemoveAll(InstallDir); a process that runs the binary goes on.
RemoveBinary ==
    \/ /\ pc = "u_binary" /\ root
       /\ file' = [file EXCEPT !["binary"] = "absent"]
       /\ service' = IF service = "running" THEN "stale" ELSE service
       /\ Advance
       /\ UNCHANGED <<secret, enabled, warned, faults>>
    \/ Warned("u_binary")

\* RemoveAll(ConfigDir), if the operator answers y.
RemoveConfig ==
    \/ /\ pc = "u_config"
       /\ Advance
       /\ UNCHANGED <<file, secret, enabled, service, warned, faults>>
    \/ /\ pc = "u_config" /\ root
       /\ generated < MaxSecrets
       /\ file' = [file EXCEPT !["config"] = "absent"]
       /\ secret' = 0
       /\ Advance
       /\ UNCHANGED <<enabled, service, warned, faults>>
    \/ Warned("u_config")

Uninstall ==
    \/ StopService \/ DisableService \/ RemoveServiceFiles \/ RemoveBinary
    \/ RemoveConfig

-----------------------------------------------------------------------------
(* The service, started by the operator as printNextSteps says.            *)

\* The service files of systemd and sysvinit hand config.env to the program;
\* that of openrc names the file in a variable the program does not read.
\* config.Load ends the program when it has no secret.
SecretReaches == init \in {"systemd", "sysvinit"} /\ secret # 0

CanStart ==
    /\ file["binary"] = "complete"
    /\ file["unit"] = "complete"
    /\ SecretReaches

\* One operator, who does one thing at a time.
StartService ==
    /\ pc = "idle" /\ service = "stopped" /\ CanStart
    /\ service' = "running"
    /\ UNCHANGED <<hostVars, file, configVars, enabled, pc, report, warned, faults>>

Next ==
    \/ BeginSetup \/ Setup
    \/ BeginUninstall \/ Uninstall
    \/ Interrupt
    \/ StartService

Spec == Init /\ [][Next]_vars

\* The operator runs setup as root again and again, and each step of a run
\* that is not interrupted ends; the faults are finitely many.
RetrySpec ==
    /\ Spec
    /\ SF_vars(BeginSetup /\ root')
    /\ WF_vars(Setup) /\ WF_vars(Uninstall)

-----------------------------------------------------------------------------
(* Properties.                                                             *)

\* However often setup is run, fails or is interrupted, and whatever uninstall
\* does, the secret clients sign with changes only when the operator has
\* confirmed its removal (createConfig, Uninstall).
SecretKept == [][secret # 0 => secret' = secret \/ pc = "u_config"]_vars

\* When setup says it succeeded, the binary and the service file are the
\* complete ones, there is a configuration, and the service is enabled
\* wherever the init system lets the installer enable it (Setup).
SuccessInstalls ==
    report = "success" =>
        /\ init \in Supported
        /\ file["binary"] = "complete" /\ file["unit"] = "complete"
        /\ file["config"] # "absent"
        /\ enabled \/ (init = "sysvinit" /\ ~hasRcD)

\* What an uninstall leaves on disk or enabled it has warned of, whoever ran it
\* and whatever earlier runs left behind; and after one as root on a host where
\* nothing ever failed the service does not run (Uninstall).
UninstallClean ==
    report = "uninstalled" =>
        /\ file["binary"] = "absent" \/ "u_binary" \in warned
        /\ file["unit"] = "absent" \/ "u_unit" \in warned
        /\ ~enabled \/ "u_disable" \in warned
        /\ root /\ faults = 0 => service = "stopped"

\* On a supported init system, an operator who keeps running setup gets it to
\* succeed time and again, unless the service runs from some time on, whose
\* binary cannot be replaced: no sequence of failures, interruptions and
\* uninstalls leaves a host on which it cannot, and a service that is stopped
\* and started meanwhile does not keep it from succeeding.
SetupEventuallySucceeds ==
    init \in Supported => []<>(report = "success") \/ <>[](service = "running")

=============================================================================
