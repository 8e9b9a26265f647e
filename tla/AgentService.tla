---------------------------- MODULE AgentService ----------------------------
(***************************************************************************)
(* The agent under systemd, with the unit that `ebabf-agent unit` renders  *)
(* (ebabf/packaging.py): Restart=always, no start limit, one exit status   *)
(* that prevents the restart, SIGTERM and a time limit to stop.            *)
(***************************************************************************)
EXTENDS AgentRunner

VARIABLE unit  \* systemd's state of the unit

vars == <<runnerVars, unit>>

Unit == {"inactive", "active", "stopping", "auto_restart", "failed"}

\* The arguments of ExecStart (UnitSpec.exec_start): the subcommand, --interval
\* and, for a baseline, --db.
ExecStart == <<"command", "main_option">>
ExecStartBaseline == <<"command", "main_option", "command_option">>

\* systemctl start, or the boot.
StartUnit ==
    /\ unit \in {"inactive", "failed"}
    /\ unit' = "active"
    /\ Spawn

\* systemctl stop: KillSignal=SIGTERM to the process, if there is one.
StopUnit ==
    /\ \/ /\ unit = "active"
          /\ unit' = "stopping" /\ sigterm' = (phase # "gone")
       \/ /\ unit = "auto_restart"
          /\ unit' = "inactive" /\ UNCHANGED sigterm
    /\ UNCHANGED <<phase, exit, coverage, loop, stop, halted, low, faults>>

\* Mutant: no limit on the time to stop.
StopTimeout_Never == FALSE /\ UNCHANGED vars

\* TimeoutStopSec has passed: SIGKILL.
StopTimeout ==
    /\ unit = "stopping" /\ phase # "gone"
    /\ End("signal")
    /\ UNCHANGED <<low, faults, unit>>

\* Mutant: Restart=on-abnormal, which leaves a process that returned an error.
RestartsAfter_OnAbnormal(status) == status = "signal"

\* Restart=always, RestartPreventExitStatus=78.
RestartsAfter(status) == status # "halted"

\* systemd takes note of the end of the process.
Reap ==
    /\ phase = "gone"
    /\ \/ unit = "stopping" /\ unit' = "inactive"
       \/ unit = "active" /\ unit' = IF RestartsAfter(exit) THEN "auto_restart" ELSE "failed"
    /\ UNCHANGED runnerVars

\* RestartSec has passed; StartLimitIntervalSec=0 puts no limit on the restarts.
Restart ==
    /\ unit = "auto_restart"
    /\ unit' = "active"
    /\ Spawn

Process == (MainThread \/ Signal) /\ UNCHANGED unit

Init == RunnerInit /\ unit = "inactive"

Next ==
    \/ Process
    \/ (Crash \/ DiskChanges) /\ UNCHANGED unit
    \/ StartUnit \/ StopUnit \/ StopTimeout \/ Reap \/ Restart

Spec == Init /\ [][Next]_vars

\* The main thread runs on, CPython delivers a pending signal, systemd acts on
\* its timers.  Nobody has to start or stop the unit, and collectors return.
FairSpec ==
    /\ Spec
    /\ WF_vars(MainThread /\ UNCHANGED unit) /\ WF_vars(Signal /\ UNCHANGED unit)
    /\ WF_vars(StopTimeout) /\ WF_vars(Reap) /\ WF_vars(Restart)
-----------------------------------------------------------------------------
(***************************************************************************)
(* Properties                                                              *)
(***************************************************************************)

\* Type invariant of the process and the unit.
TypeOK ==
    /\ phase \in Phase
    /\ exit \in {"none", "ok", "error", "usage", "halted", "signal"}
    /\ collectors \subseteq Collectors /\ active \subseteq Collectors
    /\ unavailable \subseteq Collectors /\ open \subseteq Collectors
    /\ todo \subseteq Collectors /\ failed \subseteq Collectors /\ visited \subseteq Collectors
    /\ batch \in 0 .. MaxBatch
    /\ stop \in BOOLEAN /\ sigterm \in BOOLEAN /\ halted \in BOOLEAN /\ low \in BOOLEAN
    /\ faults \in 0 .. MaxFaults
    /\ unit \in Unit

Sweeping == {"sweep?", "collect", "handle", "armed", "asleep", "waking", "stuck"}

\* While the agent sweeps, the coverage report is true: active are exactly the
\* collectors that started and are swept, and every other one is declared
\* unavailable ("the gap to be declared, not merely logged").
CoverageHonest ==
    phase \in Sweeping =>
        /\ active = open /\ collectors = open
        /\ unavailable = Collectors \ active

\* A sweep ends only when each collector that runs has given its events or is
\* among the failures ("Losing the network surface must not cost us the process
\* surface too").
SweepComplete == phase = "armed" => visited \cup failed = open

\* When main() returns or ends with a traceback, every collector that was
\* started has been closed, whatever the others' close() did.
CleanExit == phase = "leave" => open = {}

\* systemctl stop ends: the agent stops after the sweep in hand, or is killed.
StopCompletes == unit = "stopping" ~> unit = "inactive"

\* A unit that is started and never stopped goes on sweeping, after crashes,
\* builds that fail and exceptions, as long as those do not go on for ever and
\* no process ends with the status of a halted store (RestartPreventExitStatus).
KeepsSweeping ==
    <>[](unit \notin {"inactive", "stopping"} /\ exit # "halted") => []<>(phase = "collect")

\* A process whose store halted ends with the status that keeps systemd from
\* restarting it ("Exit 78 means recording stopped deliberately"), unless it
\* is stopped or crashes first.
HaltEndsService == halted ~> exit \in {"halted", "error", "signal"} \/ unit # "active"

\* The unit that is started comes up, unless it is stopped or crashes first.
UnitComesUp == unit = "active" /\ faults = 0 ~> phase = "collect" \/ unit = "stopping" \/ faults > 0
=============================================================================
