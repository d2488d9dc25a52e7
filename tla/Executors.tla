------------------------------ MODULE Executors ------------------------------
(***************************************************************************)
(* The system executors (infrastructure/system): the default one that main *)
(* wires, the secure one and the one with timeouts.  A behaviour is one    *)
(* call of one executor on one host.                                       *)
(*                                                                         *)
(* CombinedOutput starts a process and waits until that process has ended  *)
(* and every process that inherited its output pipe has closed it.  The    *)
(* deadline of CommandContext kills the process that was started, and no   *)
(* other: under doas or sudo that is the wrapper, not the package manager. *)
(***************************************************************************)
EXTENDS Integers, Sequences, FiniteSetsExt

CONSTANT Hosts  \* the hosts: see HostType

HostType(h) == DOMAIN h = {"release", "readable", "files", "tools"}

ASSUME HostAssumption == \A h \in Hosts : HostType(h) /\ h.readable \in BOOLEAN

VARIABLES
    kind,      \* which executor
    host,      \* the host it runs on
    op,        \* the method called
    pos,       \* the command of the plan that is next or runs
    stage,     \* "ready" to start it, "running", or "returned"
    alive,     \* the processes that hold an output pipe: <<command, name>>
    toolExit,  \* how the package manager or other tool ended
    exit,      \* how the process that the executor started ended
    expired,   \* the command's deadline has passed
    effects,   \* what the tools have done to the host
    result     \* the call's error: "nil", "error", or "none" so far

callVars == <<kind, host, op>>
executorVars == <<callVars, pos, stage, alive, toolExit, exit, expired, effects, result>>

-----------------------------------------------------------------------------
(* DetectDistribution and detectPrivilegeCommand.                          *)

\* The words looked for in /etc/os-release, in the order of the switch.  The
\* files of derived distributions hold the words of their parents too.
Words == <<[words |-> {"alpine"}, distro |-> "alpine"],
           [words |-> {"ubuntu"}, distro |-> "ubuntu"],
           [words |-> {"debian"}, distro |-> "debian"],
           [words |-> {"rhel", "red hat"}, distro |-> "rhel"],
           [words |-> {"centos"}, distro |-> "centos"],
           [words |-> {"fedora"}, distro |-> "fedora"],
           [words |-> {"suse"}, distro |-> "suse"],
           [words |-> {"arch"}, distro |-> "arch"]>>

Matches(h) == {i \in DOMAIN Words : Words[i].words \cap h.release # {}}

\* Bug: the last word of os-release that matches decides.
DetectLast(h) ==
    IF "alpine-release" \in h.files THEN "alpine"
    ELSE IF ~h.readable THEN "unknown"
    ELSE IF Matches(h) # {} THEN Words[Max(Matches(h))].distro
    ELSE IF "debian_version" \in h.files THEN "debian"
    ELSE IF "redhat-release" \in h.files THEN "rhel"
    ELSE "unknown"

DetectDistribution(h) ==
    IF "alpine-release" \in h.files THEN "alpine"
    ELSE IF ~h.readable THEN "unknown"
    ELSE IF Matches(h) # {} THEN Words[Min(Matches(h))].distro
    ELSE IF "debian_version" \in h.files THEN "debian"
    ELSE IF "redhat-release" \in h.files THEN "rhel"
    ELSE "unknown"

detectPrivilegeCommand(h) ==
    IF "doas" \in h.tools THEN "doas"
    ELSE IF "sudo" \in h.tools THEN "sudo"
    ELSE IF "su" \in h.tools THEN "su"
    ELSE "none"

-----------------------------------------------------------------------------
(* The commands each executor runs for each of its methods.                *)

One(tool, task) == <<[tool |-> tool, task |-> task]>>
Upgrade(tool) == One(tool, "upgrade")
RefreshAndUpgrade(tool) == One(tool, "refresh") \o Upgrade(tool)
Unsupported == <<>>

Debians == {"debian", "ubuntu"}
RedHats == {"rhel", "centos", "fedora"}

DefaultUpdate(h) ==
    LET distro == DetectDistribution(h) IN
    CASE distro = "alpine" -> RefreshAndUpgrade("apk")
      [] distro \in Debians -> RefreshAndUpgrade("apt-get")
      [] distro \in RedHats -> Upgrade(IF "dnf" \in h.tools THEN "dnf" ELSE "yum")
      [] distro = "suse" -> RefreshAndUpgrade("zypper")
      [] distro = "arch" -> Upgrade("pacman")
      [] OTHER -> Unsupported

\* As the default executor, but Red Hat systems are updated with dnf only.
SecureUpdate(h) ==
    IF DetectDistribution(h) \in RedHats THEN Upgrade("dnf") ELSE DefaultUpdate(h)

TimeoutUpdate(h) ==
    LET distro == DetectDistribution(h) IN
    CASE distro = "alpine" -> RefreshAndUpgrade("apk")
      [] distro \in Debians -> RefreshAndUpgrade("apt-get")
      [] distro \in {"rhel", "centos"} -> RefreshAndUpgrade("yum")
      [] distro = "fedora" -> RefreshAndUpgrade("dnf")
      [] distro = "arch" -> RefreshAndUpgrade("pacman")
      [] OTHER -> Unsupported

DefaultPlans(h) ==
    [update |-> DefaultUpdate(h),
     cloudinit |-> One("cloud-init", "init"),
     reboot |-> One("reboot", "reboot")]

SecurePlans(h) ==
    [update |-> SecureUpdate(h),
     cloudinit |-> One("cloud-init", "clean") \o One("cloud-init", "init"),
     reboot |-> One("shutdown", "reboot")]

\* RunCommandWithTimeout runs any command; a reboot stands for it.
TimeoutPlans(h) ==
    [update |-> TimeoutUpdate(h),
     reboot |-> One("shutdown", "reboot"),
     command |-> One("reboot", "reboot")]

Plans(k, h) ==
    CASE k = "default" -> DefaultPlans(h)
      [] k = "secure" -> SecurePlans(h)
      [] k = "timeout" -> TimeoutPlans(h)

plan == Plans(kind, host)[op]
cmd == plan[pos]

CallInit ==
    /\ kind \in {"default", "secure", "timeout"}
    /\ host \in Hosts
    /\ op \in DOMAIN Plans(kind, host)
    /\ pos = 1 /\ stage = "ready"
    /\ alive = {} /\ toolExit = "none" /\ exit = "none"
    /\ expired = FALSE /\ effects = {} /\ result = "none"

-----------------------------------------------------------------------------
(* The call.                                                               *)

\* The executor with timeouts does not use the command it detected.
privilegeCmd == IF kind = "timeout" THEN "none" ELSE detectPrivilegeCommand(host)
Wrapped == privilegeCmd # "none"
Direct == <<pos, IF Wrapped THEN "wrapper" ELSE "tool">>
Present == cmd.tool \in host.tools

\* A command's call has returned.  Only the failure of cloud-init clean is not
\* fatal.
Conclude(ok) ==
    IF (ok \/ cmd.task = "clean") /\ pos < Len(plan)
    THEN /\ pos' = pos + 1 /\ stage' = "ready"
         /\ UNCHANGED result
    ELSE /\ stage' = "returned" /\ result' = IF ok THEN "nil" ELSE "error"
         /\ UNCHANGED pos

\* "unsupported distribution"
Refuse ==
    /\ stage = "ready" /\ plan = Unsupported
    /\ stage' = "returned" /\ result' = "error"
    /\ UNCHANGED <<callVars, pos, alive, toolExit, exit, expired, effects>>

\* "unsupported privilege escalation method"
RefusesMethod == kind = "secure" /\ privilegeCmd = "su"

\* Without a wrapper a missing tool cannot be started; with one, the wrapper
\* runs and fails.
Start ==
    /\ stage = "ready" /\ plan # Unsupported
    /\ exit' = "none" /\ expired' = FALSE
    /\ toolExit' = IF Present THEN "none" ELSE "failed"
    /\ IF RefusesMethod \/ (~Wrapped /\ ~Present)
       THEN Conclude(FALSE) /\ UNCHANGED alive
       ELSE /\ stage' = "running"
            /\ alive' = alive \cup {Direct} \cup (IF Present THEN {<<pos, "tool">>} ELSE {})
            /\ UNCHANGED <<pos, result>>
    /\ UNCHANGED <<callVars, effects>>

\* Bug: the deadline is computed, but the process is not started with it.
DeadlineUnused ==
    /\ stage = "running" /\ kind # "default" /\ ~expired
    /\ expired' = TRUE
    /\ UNCHANGED <<callVars, pos, stage, alive, toolExit, exit, effects, result>>

\* The deadline of the command's context passes: the direct child is killed if
\* it still runs.  The default executor has no deadlines.
Deadline ==
    /\ stage = "running" /\ kind # "default" /\ ~expired
    /\ expired' = TRUE
    /\ alive' = alive \ {Direct}
    /\ exit' = IF Direct \in alive THEN "killed" ELSE exit
    /\ UNCHANGED <<callVars, pos, stage, toolExit, effects, result>>

\* Bug: exit code 100 is taken for success by every executor.
AcceptsAlways100 == exit \in {"0", "100"}

\* RunCommandWithTimeout looks at the deadline before the error.
AcceptsCommand == exit = "0" /\ ~expired

\* runUpdate takes exit code 100 for success, whatever the tool.
AcceptsRefresh == exit = "0" \/ (exit = "100" /\ ~expired)

\* How the error of CombinedOutput is read.
Accepts ==
    CASE op = "command" -> AcceptsCommand
      [] kind = "timeout" /\ cmd.task = "refresh" -> AcceptsRefresh
      [] OTHER -> exit = "0"

\* Bug: the call returns when the direct child has ended, as with a WaitDelay.
ReturnEarly ==
    /\ stage = "running" /\ Direct \notin alive
    /\ Conclude(Accepts)
    /\ UNCHANGED <<callVars, alive, toolExit, exit, expired, effects>>

\* CombinedOutput returns.
Return ==
    /\ stage = "running" /\ alive = {}
    /\ Conclude(Accepts)
    /\ UNCHANGED <<callVars, alive, toolExit, exit, expired, effects>>

-----------------------------------------------------------------------------
(* The processes.                                                          *)

\* apt-get exits with 100 on errors; yum and dnf check-update do so when there
\* are updates, having refreshed their metadata.
ToolCodes == {"0", "failed"} \cup
    IF cmd.tool = "apt-get" \/ (cmd.tool \in {"yum", "dnf"} /\ cmd.task = "refresh")
    THEN {"100"} ELSE {}

ToolEnds ==
    /\ <<pos, "tool">> \in alive
    /\ \E code \in ToolCodes :
          /\ toolExit' = code
          /\ exit' = IF Wrapped THEN exit ELSE code
          /\ effects' = IF code = "0" \/ (code = "100" /\ cmd.tool # "apt-get")
                        THEN effects \cup {cmd.task} ELSE effects
    /\ alive' = alive \ {<<pos, "tool">>}
    /\ UNCHANGED <<callVars, pos, stage, expired, result>>

\* doas, sudo and su exit with their command's code.
WrapperEnds ==
    /\ <<pos, "wrapper">> \in alive /\ <<pos, "tool">> \notin alive
    /\ alive' = alive \ {<<pos, "wrapper">>}
    /\ exit' = toolExit
    /\ UNCHANGED <<callVars, pos, stage, toolExit, expired, effects, result>>

\* A process that the tool starts (a maintainer script, a daemon) inherits the
\* pipe and may outlive the tool.
HelperStarts ==
    /\ <<pos, "tool">> \in alive
    /\ alive' = alive \cup {<<pos, "helper">>}
    /\ UNCHANGED <<callVars, pos, stage, toolExit, exit, expired, effects, result>>

HelperEnds ==
    /\ <<pos, "helper">> \in alive
    /\ alive' = alive \ {<<pos, "helper">>}
    /\ UNCHANGED <<callVars, pos, stage, toolExit, exit, expired, effects, result>>

Terminated == stage = "returned" /\ UNCHANGED executorVars

CallNext ==
    \/ Refuse \/ Start \/ Deadline \/ Return
    \/ ToolEnds \/ WrapperEnds \/ HelperStarts \/ HelperEnds
    \/ Terminated

\* The executor runs and its timers fire; no process is obliged to end.
CallSpec ==
    /\ CallInit /\ [][CallNext]_executorVars
    /\ WF_executorVars(Refuse) /\ WF_executorVars(Start)
    /\ WF_executorVars(Deadline) /\ WF_executorVars(Return)

-----------------------------------------------------------------------------
(* Properties.                                                             *)

\* Package managers lock their database, and the job slot promises one command
\* at a time: no process of a command that holds its output pipe, as the tool
\* under a wrapper and its helpers do, is left when the next one starts or the
\* call returns, also after a deadline that killed only the wrapper.  (A daemon
\* that has closed the pipe is nobody's to wait for.)
NothingLeftBehind == \A p \in alive : p[1] = pos /\ stage = "running"

\* A call that returns nil has done what it was called for, and each of its
\* commands did its part, with two exceptions: the clean before cloud-init, and
\* the package lists of apt-get under the executor with timeouts, which takes
\* apt-get's error code 100 for "updates available" and upgrades from old lists.
NilMeansDone ==
    result = "nil" =>
        \A i \in DOMAIN plan :
            \/ plan[i].task \in effects
            \/ plan[i].task = "clean"
            \/ kind = "timeout" /\ plan[i].tool = "apt-get" /\ plan[i].task = "refresh"

\* On a host whose distribution is recognised, the default executor and the one
\* with timeouts choose a package manager that the host has, on derived and on
\* old systems too.  (The secure executor runs dnf where there is only yum.)
ToolPresent ==
    kind # "secure" /\ op = "update" /\ plan # Unsupported => Present

\* With a deadline, a call returns or is waiting only for processes that the
\* deadline does not reach: a tool under a wrapper, or a helper.
CallReturns ==
    kind # "default" ~> stage = "returned" \/ (alive # {} /\ Direct \notin alive)

=============================================================================
