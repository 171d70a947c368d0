----------------------------- MODULE NodeUpdate -----------------------------
(***************************************************************************)
(* The node on a Linux host: the processes of PidFile, the systemd unit    *)
(* that keeps one of them alive (dist.linux/share/cellframe-node.service), *)
(* an operator who may also start the node by hand, controls the unit with *)
(* "cellframe-node-config -e service ..." (conftool/service) and removes   *)
(* the package, and the updater (dist.linux/share/update.sh), which stops  *)
(* the node, installs a newer package through the maintainer scripts of    *)
(* os/debian, and starts it.  The host may go down at any moment.          *)
(*                                                                         *)
(* systemd is external and modelled by what the units ask of it: stopping  *)
(* a unit ends every process of its control group (no unit sets KillMode)  *)
(* and cancels its restarts, and a stopped unit stays stopped until it is  *)
(* started again, by somebody or by the next boot if it is enabled.  dpkg  *)
(* runs one at a time: a second one fails at its lock.                     *)
(*                                                                         *)
(* Two update.sh may run at once: the operator's, and the one the timer    *)
(* started as cellframe-updater.service.  The operator does one thing at a *)
(* time: while their update or their removal runs, no other one of theirs. *)
(***************************************************************************)
EXTENDS PidFile

CONSTANTS
  NoProc,     \* the unit has no process
  Commands,   \* what the operator does besides starting nodes and updates
  MaxFaults   \* bound on crashes, reboots, failed opens and failed installs

ASSUME NoProcAssumption == NoProc \notin Proc
ASSUME MaxFaultsAssumption == MaxFaults \in Nat

VARIABLES
  svc,        \* main process of cellframe-node.service
  wanted,     \* the unit is started: Restart=always applies
  enabled,    \* the unit is started by a boot
  upd,        \* next step of each update.sh and of the dpkg run inside it
  installed,  \* the version on disk, or "none"
  dpkg,       \* next step of the operator's removal or installation
  fired,      \* the timer ran update.sh during that removal
  victims,    \* the nodes each script's "service stop" left, still running
  faults      \* faults so far

pkgVars == <<enabled, installed, dpkg, fired>>
sysVars == <<svc, wanted, upd, pkgVars, victims, faults>>
allVars == <<vars, sysVars>>

\* update.sh run by the operator, and as cellframe-updater.service.
Script == {"hand", "timer"}

\* The steps of a script after "kill -9".
AfterKill == {"install", "unpack", "postinst", "restart"}

\* No such update.sh runs: it ended, or it failed or went down with the host.
Ended(u) == upd[u] \in {"idle", "failed"}

\* The operator waits for no removal and for no update of their own.
OperatorFree == dpkg = "idle" /\ Ended("hand")

\* dpkg -i replaces the files or runs postinst for script u.
Installing(u) == upd[u] \in {"unpack", "postinst"}

-----------------------------------------------------------------------------
\* The package is installed: its postinst has enabled the unit.
SysInit ==
  /\ Init
  /\ svc = NoProc
  /\ wanted \in BOOLEAN
  /\ enabled = TRUE
  /\ upd = [u \in Script |-> "idle"]
  /\ installed = "old"
  /\ dpkg = "idle"
  /\ fired = FALSE
  /\ victims = [u \in Script |-> {}]
  /\ faults = 0

\* What the end of a process changes outside it.
Bury(p) ==
  /\ svc' = IF svc = p THEN NoProc ELSE svc
  /\ victims' = [u \in Script |-> victims[u] \ {p}]

\* A signal ends process p wherever it is.
Kill(p) == Exit(p) \/ KilledStarting(p)

\* Script u goes on to step to.
ScriptGoto(u, to) == upd' = [upd EXCEPT ![u] = to]

\* Stopping the updater's unit ends the script the timer started.
WithoutUpdater(steps) ==
  [steps EXCEPT !["timer"] = IF Ended("timer") THEN upd["timer"] ELSE "idle"]

\* Ends the unit's process, if it has one.
StopSvc ==
  \/ svc = NoProc /\ UNCHANGED <<vars, svc>>
  \/ svc # NoProc /\ Kill(svc) /\ svc' = NoProc

\* Stopping the unit takes its process from the victims.
StopAndKeep(want) ==
  /\ StopSvc
  /\ wanted' = want
  /\ victims' = [u \in Script |-> victims[u] \ {svc}]

\* The operator runs the binary from a shell.
HandStart(p) == installed # "none" /\ Start(p) /\ UNCHANGED sysVars

\* cellframe-node-config -e service start|stop|restart|enable|disable: one call
\* of systemctl each.  The result is printed and otherwise ignored.
ServiceStart ==
  /\ "start" \in Commands
  /\ installed # "none" /\ dpkg = "idle"
  /\ ~wanted
  /\ wanted' = TRUE
  /\ UNCHANGED <<vars, svc, upd, pkgVars, victims, faults>>

ServiceStop ==
  /\ "stop" \in Commands
  /\ installed # "none" /\ dpkg = "idle"
  /\ StopAndKeep(FALSE)
  /\ UNCHANGED <<upd, pkgVars, faults>>

ServiceRestart ==
  /\ "restart" \in Commands
  /\ installed # "none" /\ dpkg = "idle"
  /\ StopAndKeep(TRUE)
  /\ UNCHANGED <<upd, pkgVars, faults>>

ServiceEnable(on) ==
  /\ (IF on THEN "enable" ELSE "disable") \in Commands
  /\ installed # "none" /\ dpkg = "idle"
  /\ enabled' = on
  /\ UNCHANGED <<vars, svc, wanted, upd, installed, dpkg, fired, victims, faults>>

\* Mutant of SvcStart: Restart=no.
SvcStartOnce(p) ==
  /\ wanted
  /\ svc = NoProc /\ faults = 0
  /\ Start(p)
  /\ svc' = p
  /\ UNCHANGED <<wanted, upd, pkgVars, victims, faults>>

\* systemd starts the unit's process, at first or after RestartSec.
SvcStart(p) ==
  /\ wanted
  /\ svc = NoProc
  /\ installed # "none"
  /\ Start(p)
  /\ svc' = p
  /\ UNCHANGED <<wanted, upd, pkgVars, victims, faults>>

\* A step of the single-instance check; a refused start ends the process.
CheckStep(p) ==
  /\ OpenRead(p) \/ Scan(p) \/ Test(p) \/ OpenWrite(p) \/ WritePid(p) \/ TryLock(p)
  /\ IF pc'[p] = "idle" THEN Bury(p) ELSE UNCHANGED <<svc, victims>>
  /\ UNCHANGED <<wanted, upd, pkgVars, faults>>

\* A process ends by itself: a crash, a signal of the operator, or a pid file
\* that cannot be opened.
Dies(p) ==
  /\ faults < MaxFaults
  /\ faults' = faults + 1
  /\ Kill(p) \/ OpenWriteFails(p)
  /\ Bury(p)
  /\ UNCHANGED <<wanted, upd, pkgVars>>

\* The host goes down and boots: scripts and dpkg runs are gone, half done, and
\* an enabled unit is started.
Reboot ==
  /\ faults < MaxFaults
  /\ faults' = faults + 1
  /\ HostDown
  /\ svc' = NoProc
  /\ victims' = [u \in Script |-> {}]
  /\ wanted' = enabled
  /\ upd' = [u \in Script |-> IF Ended(u) THEN upd[u] ELSE "failed"]
  /\ dpkg' = "idle"
  /\ UNCHANGED <<enabled, installed, fired>>

-----------------------------------------------------------------------------
\* The timer, or the operator, runs update.sh.
UpdBegin(u) ==
  /\ Ended(u)
  /\ installed # "none"
  /\ u = "hand" => dpkg = "idle"
  /\ ScriptGoto(u, "check")
  /\ fired' = (fired \/ dpkg # "idle")
  /\ UNCHANGED <<vars, svc, wanted, enabled, installed, dpkg, victims, faults>>

\* The newest published rebuild is compared with the installed one; the script
\* ends when there is none, or when wget fails (set -e): nothing was stopped yet.
UpdCheck(u) ==
  /\ upd[u] = "check"
  /\ \/ installed = "old" /\ ScriptGoto(u, "stop")
     \/ ScriptGoto(u, "idle")
  /\ UNCHANGED <<vars, svc, wanted, pkgVars, victims, faults>>

\* service cellframe-node stop: fails, and ends the script, when the unit is gone.
UpdStop(u) ==
  /\ upd[u] = "stop"
  /\ installed # "none"
  /\ StopSvc
  /\ wanted' = FALSE
  /\ victims' = [v \in Script |->
                   IF v = u THEN {p \in Proc : pc'[p] = "run"} ELSE victims[v] \ {svc}]
  /\ ScriptGoto(u, "kill")
  /\ UNCHANGED <<pkgVars, faults>>

UpdStopFails(u) ==
  /\ upd[u] = "stop"
  /\ installed = "none"
  /\ ScriptGoto(u, "failed")
  /\ UNCHANGED <<vars, svc, wanted, pkgVars, victims, faults>>

\* Mutants of UpdKill: nothing is killed; the pid file is removed as well.
UpdKillSkipped(u) ==
  /\ upd[u] = "kill"
  /\ ScriptGoto(u, "install")
  /\ UNCHANGED <<vars, svc, victims, wanted, pkgVars, faults>>

UpdKillRemoves(u) ==
  /\ upd[u] = "kill"
  /\ present' = FALSE
  /\ file' = <<>>
  /\ ScriptGoto(u, "install")
  /\ UNCHANGED <<pc, off, svc, victims, wanted, pkgVars, faults>>

\* kill -9 `cat cellframe-node.pid` || true: the process the file names, if it
\* names one that exists.
UpdKill(u) ==
  /\ upd[u] = "kill"
  /\ \/ \E p \in Proc : Names(p) /\ Kill(p) /\ Bury(p)
     \/ /\ \A p \in Proc : Names(p) => At(p, "idle")
        /\ UNCHANGED <<vars, svc, victims>>
  /\ ScriptGoto(u, "install")
  /\ UNCHANGED <<wanted, pkgVars, faults>>

\* rm -r global_db, for one version only, fails: the script ends (set -e).  When
\* it succeeds, or is not called, the script goes on to dpkg -i.
UpdClearFails(u) ==
  /\ upd[u] = "install"
  /\ faults < MaxFaults
  /\ faults' = faults + 1
  /\ ScriptGoto(u, "failed")
  /\ UNCHANGED <<vars, svc, wanted, pkgVars, victims>>

\* Another dpkg holds the lock of dpkg -i.
DpkgBusy(u) == dpkg # "idle" \/ \E v \in Script \ {u} : Installing(v)

\* dpkg -i fails at once while another dpkg runs; the one of the other script
\* may also be about to run prerm.
DpkgLocked(u) ==
  /\ upd[u] = "install"
  /\ DpkgBusy(u) \/ \E v \in Script \ {u} : upd[v] = "install"
  /\ ScriptGoto(u, "failed")
  /\ UNCHANGED <<vars, svc, wanted, pkgVars, victims, faults>>

\* dpkg -i runs "prerm upgrade" of the old package: it stops the node's unit
\* and then the updater's, whose control group holds dpkg and this script when
\* the timer started them.
Prerm(u) ==
  /\ upd[u] = "install"
  /\ ~DpkgBusy(u)
  /\ installed # "none"
  /\ StopAndKeep(FALSE)
  /\ upd' = WithoutUpdater([upd EXCEPT ![u] = "unpack"])
  /\ UNCHANGED <<pkgVars, faults>>

\* The package was removed meanwhile: dpkg -i has no old one to stop.
InstallAnew(u) ==
  /\ upd[u] = "install"
  /\ ~DpkgBusy(u)
  /\ installed = "none"
  /\ ScriptGoto(u, "unpack")
  /\ UNCHANGED <<vars, svc, wanted, pkgVars, victims, faults>>

\* dpkg replaces the files.
Unpack(u) ==
  /\ upd[u] = "unpack"
  /\ installed' = "new"
  /\ ScriptGoto(u, "postinst")
  /\ UNCHANGED <<vars, svc, wanted, enabled, dpkg, fired, victims, faults>>

\* postinst configures, enables and starts the unit.
Postinst(u) ==
  /\ upd[u] = "postinst"
  /\ enabled' = TRUE
  /\ wanted' = TRUE
  /\ ScriptGoto(u, "restart")
  /\ UNCHANGED <<vars, svc, installed, dpkg, fired, victims, faults>>

\* dpkg or its postinst fails, and with it the script (set -e).  When the files
\* could not be replaced, dpkg calls the old postinst ("abort-upgrade"), which
\* ignores its arguments: it, too, enables and starts the unit, as far as it
\* gets.  A postinst that fails may have enabled the unit before.
DpkgFails(u) ==
  /\ Installing(u)
  /\ faults < MaxFaults
  /\ faults' = faults + 1
  /\ \/ UNCHANGED <<enabled, wanted>>
     \/ installed # "none" /\ enabled' = TRUE /\ wanted' \in {wanted, TRUE}
  /\ ScriptGoto(u, "failed")
  /\ UNCHANGED <<vars, svc, installed, dpkg, fired, victims>>

\* Mutant of UpdRestart: "stop" for "restart".
UpdStopsAgain(u) ==
  /\ upd[u] = "restart"
  /\ StopAndKeep(FALSE)
  /\ ScriptGoto(u, "idle")
  /\ UNCHANGED <<pkgVars, faults>>

\* service cellframe-node restart
UpdRestart(u) ==
  /\ upd[u] = "restart"
  /\ StopAndKeep(TRUE)
  /\ ScriptGoto(u, "idle")
  /\ UNCHANGED <<pkgVars, faults>>

-----------------------------------------------------------------------------
\* The operator removes the package.  "prerm remove" stops the node's unit,
RemoveStop ==
  /\ "remove" \in Commands
  /\ OperatorFree /\ ~Installing("timer")
  /\ installed # "none"
  /\ StopAndKeep(FALSE)
  /\ dpkg' = "updater"
  /\ fired' = ~Ended("timer")
  /\ UNCHANGED <<upd, enabled, installed, faults>>

\* then the updater's, with the script the timer started, but not the timer,
RemoveStopUpdater ==
  /\ dpkg = "updater"
  /\ upd' = WithoutUpdater(upd)
  /\ dpkg' = "disable"
  /\ UNCHANGED <<vars, svc, wanted, enabled, installed, fired, victims, faults>>

\* Mutant of RemoveDisable: "systemctl disable" is left out.
RemoveKeepsEnabled ==
  /\ dpkg = "disable"
  /\ dpkg' = "delete"
  /\ UNCHANGED <<vars, svc, wanted, upd, enabled, installed, fired, victims, faults>>

\* and disables them.
RemoveDisable ==
  /\ dpkg = "disable"
  /\ enabled' = FALSE
  /\ dpkg' = "delete"
  /\ UNCHANGED <<vars, svc, wanted, upd, installed, fired, victims, faults>>

\* dpkg deletes the files.
RemoveFiles ==
  /\ dpkg = "delete"
  /\ installed' = "none"
  /\ dpkg' = "idle"
  /\ UNCHANGED <<vars, svc, wanted, upd, enabled, fired, victims, faults>>

\* The operator installs the package again: its postinst as above.
Install ==
  /\ "install" \in Commands
  /\ OperatorFree /\ ~Installing("timer")
  /\ installed = "none"
  /\ installed' = "new"
  /\ enabled' = TRUE
  /\ wanted' = TRUE
  /\ UNCHANGED <<vars, svc, upd, dpkg, fired, victims, faults>>

UpdateScript(u) ==
  \/ UpdCheck(u) \/ UpdStop(u) \/ UpdStopFails(u) \/ UpdKill(u)
  \/ DpkgLocked(u) \/ Prerm(u) \/ InstallAnew(u) \/ Unpack(u) \/ Postinst(u)
  \/ UpdRestart(u)

ServiceCommand ==
  \/ ServiceStart \/ ServiceStop \/ ServiceRestart
  \/ \E on \in BOOLEAN : ServiceEnable(on)

Package ==
  \/ RemoveStop \/ RemoveStopUpdater \/ RemoveDisable \/ RemoveFiles \/ Install

SysNext ==
  \/ \E p \in Proc : HandStart(p) \/ SvcStart(p) \/ CheckStep(p) \/ Dies(p)
  \/ \E u \in Script : UpdBegin(u) \/ UpdateScript(u) \/ UpdClearFails(u) \/ DpkgFails(u)
  \/ ServiceCommand \/ Package \/ Reboot

SysSpec == SysInit /\ [][SysNext]_allVars

\* Started processes and the scripts run on; systemd restarts what is wanted.
SysFairSpec ==
  /\ SysSpec
  /\ \A p \in Proc : WF_allVars(CheckStep(p))
  /\ WF_allVars(\E p \in Proc : SvcStart(p))
  /\ \A u \in Script : WF_allVars(UpdateScript(u))

-----------------------------------------------------------------------------
SysTypeOK ==
  /\ svc \in Proc \cup {NoProc}
  /\ wanted \in BOOLEAN
  /\ enabled \in BOOLEAN
  /\ upd \in [Script -> {"idle", "failed", "check", "stop", "kill"} \cup AfterKill]
  /\ installed \in {"old", "new", "none"}
  /\ dpkg \in {"idle", "updater", "disable", "delete"}
  /\ fired \in BOOLEAN
  /\ victims \in [Script -> SUBSET Proc]
  /\ faults \in 0..MaxFaults

\* The types of the whole host.
HostTypeOK == TypeOK /\ SysTypeOK

\* Supervisor, operator and updater act on the node only as PidFile allows: they
\* start and end its processes, and leave the pid file to them.
ImplementsPidFile == Spec

\* "For sure": once an update.sh has done its "kill -9", no node that was past
\* its start when that script stopped the unit is alive.
KillIsSure == \A u \in Script : upd[u] \in AfterKill => victims[u] = {}

\* With serialised starts the kill is sure.
SerialKillIsSure == ~Overlap => KillIsSure

\* A removed package leaves nothing of its unit behind, whatever commands, nodes,
\* updates and reboots came before and during the removal: it has no process and
\* is neither started nor enabled.  The timer, which prerm does not stop, must
\* not have run the updater while the package was being removed.
RemovedIsDown ==
  installed = "none" /\ ~fired => svc = NoProc /\ ~wanted /\ ~enabled

\* A started unit gets the node to run, or somebody stops the unit.
ServiceComesUp == wanted ~> (~wanted \/ \E p \in Proc : Running(p))

\* An update by hand that got as far as stopping the node ends with the new
\* version installed and its unit started, which ServiceComesUp takes on from
\* there, also when the timer's update.sh runs beside it, unless rm or dpkg
\* failed (dpkg also at the lock of the other one) or the host went down.
Updated(u) == installed = "new" /\ upd[u] = "idle" /\ wanted
HandUpdateCompletes == upd["hand"] = "stop" ~> Updated("hand") \/ upd["hand"] = "failed"

\* An update that the timer started ends so too.
TimerUpdateCompletes == upd["timer"] = "stop" ~> Updated("timer") \/ upd["timer"] = "failed"
=============================================================================
