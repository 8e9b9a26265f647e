--------------------------- MODULE CollectorSweep ---------------------------
(***************************************************************************)
(* The network, process and user activity collectors in the sweeps of one  *)
(* agent (AgentRunner.sweep_once, run_forever): one after the other, in    *)
(* the order of their names, one that raises costing only its own turn;    *)
(* then the interval.  Meanwhile the host goes on, and the agent may end   *)
(* anywhere and come back with all of its memory gone.                     *)
(***************************************************************************)
EXTENDS NetworkCollector, ProcessCollector, UserActivity, FiniteSetsExt

CONSTANTS
    Interval, \* ticks of the interval between two sweeps
    MaxLoad,  \* bound: changes of the host, and three for a second collector
    MaxFaults \* bound: failures, restarts, times the clock is set back

ASSUME SweepAssumption ==
    Interval \in Nat /\ MaxLoad \in Nat /\ MaxFaults \in Nat

VARIABLES
    built,      \* the collectors build_supported has made
    turn,       \* whose collect() is running, or "sleep"
    slept,      \* ticks since the last sweep ended
    happenings, \* counter of the bound
    faults      \* counter of the bound

bounds == <<happenings, faults>>
loop == <<built, turn, slept>>
vars == <<netVars, procVars, userVars, loop, bounds>>

\* The registry builds the collectors in the order of their names.
Order == <<"network", "process", "user_activity">>
Surfaces == {Order[i] : i \in DOMAIN Order}

\* _collectors: start() has left out the network collector if it did not start.
Collectors == IF capturing THEN built ELSE built \ {"network"}

\* The turn after that of the n-th collector.
TurnAfter(n) ==
    LET later == {i \in DOMAIN Order : i > n /\ Order[i] \in Collectors}
    IN  IF later = {} THEN "sleep" ELSE Order[Min(later)]

\* The interval begins when nobody's turn is left.
PassTurn(n) ==
    /\ turn' = TurnAfter(n)
    /\ slept' = IF turn' = "sleep" THEN 0 ELSE slept
    /\ UNCHANGED built

\* What is not built has no capture and no log, and one user for all sockets
\* and one zone stand for the many that nobody asks about.
OnlyBuilt ==
    /\ capturing => "network" \in built
    /\ source # "none" => "user_activity" \in built
    /\ "network" \in built \/ \A x, y \in SocketPids : userOf[x] = userOf[y]
    /\ "user_activity" \in built \/ zone = CHOOSE z \in Zones : TRUE

Load == happenings + 3 * (Cardinality(built) - 1)

\* What happens where no collector looks shows nowhere.
Happens(surface) ==
    /\ surface \in built
    /\ Load < MaxLoad /\ happenings' = happenings + 1
    /\ UNCHANGED faults

Fault == faults < MaxFaults /\ faults' = faults + 1 /\ UNCHANGED happenings
-----------------------------------------------------------------------------
(***************************************************************************)
(* The host                                                                *)
(***************************************************************************)

NetworkHappens ==
    /\ \/ \E p \in Protocols, e \in Endpoints : CloseSocket(p, e) \/ \E x \in SocketPids : OpenSocket(p, e, x)
       \/ \E x \in SocketPids, u \in Users : PidChanges(x, u)
       \/ \E k \in FlowKey : BeginObserve(k)
    /\ Happens("network")
    /\ UNCHANGED <<procVars, userVars, loop>>

\* The capture thread holds the lock for a moment only.
Capture ==
    /\ EndObserve
    /\ UNCHANGED <<procVars, userVars, loop, bounds>>

ProcessHappens ==
    /\ \E p \in Pids : Spawn(p) \/ Exit(p)
    /\ Happens("process")
    /\ UNCHANGED <<netVars, userVars, loop>>

LogHappens ==
    /\ Rotate \/ \E kind \in {"failed_auth", "sudo"}, user \in Accounts : WriteRecord(kind, user)
    /\ Happens("user_activity")
    /\ UNCHANGED <<netVars, procVars, loop>>

\* Only the user activity collector and the interval tell the time.
TimePasses ==
    /\ turn \in {"sleep", "user_activity"}
    /\ Tick
    /\ slept' = IF turn = "sleep" /\ slept < Interval THEN slept + 1 ELSE slept
    /\ UNCHANGED <<netVars, procVars, built, turn, bounds>>

ClockSetBack ==
    /\ turn \in {"sleep", "user_activity"}
    /\ SetClockBack /\ Fault
    /\ UNCHANGED <<netVars, procVars, loop>>
-----------------------------------------------------------------------------
(***************************************************************************)
(* The agent                                                               *)
(***************************************************************************)

BeginSweep ==
    /\ turn = "sleep" /\ slept = Interval
    /\ PassTurn(0)
    /\ UNCHANGED <<netVars, procVars, userVars, bounds>>

NetworkTurn ==
    /\ turn = "network"
    /\ \/ (RefreshDenied \/ ReadSocketTable \/ AdoptOwners \/ Drain \/ BuildFlows) /\ UNCHANGED loop
       \/ (\E r \in listing : LookUp(r)) /\ UNCHANGED loop
       \/ FlowsHandled /\ PassTurn(1)
    /\ UNCHANGED <<procVars, userVars, bounds>>

NetworkRaises ==
    /\ turn = "network"
    /\ RefreshRaises \/ FlowsRaise
    /\ PassTurn(1) /\ Fault
    /\ UNCHANGED <<procVars, userVars>>

ProcessTurn ==
    /\ turn = "process"
    /\ \/ (Snapshot \/ BuildProcesses) /\ UNCHANGED loop
       \/ ProcessesHandled /\ PassTurn(2)
    /\ UNCHANGED <<netVars, userVars, bounds>>

ProcessRaises ==
    /\ turn = "process"
    /\ ProcessesRaise
    /\ PassTurn(2) /\ Fault
    /\ UNCHANGED <<netVars, userVars>>

UserTurn ==
    /\ turn = "user_activity"
    /\ \/ (BeginCollect \/ ReadLog) /\ UNCHANGED loop
       \/ (\E sessions \in SUBSET Accounts : BuildActivity(sessions)) /\ UNCHANGED loop
       \/ ActivityHandled /\ PassTurn(3)
    /\ UNCHANGED <<netVars, procVars, bounds>>

UserReadFails ==
    /\ turn = "user_activity"
    /\ ReadFails /\ Fault
    /\ UNCHANGED <<netVars, procVars, loop>>

UserRaises ==
    /\ turn = "user_activity"
    /\ ActivityRaises
    /\ PassTurn(3) /\ Fault
    /\ UNCHANGED <<netVars, procVars>>

\* The process ends, by a signal between two sweeps or killed anywhere, and a
\* new one begins with a sweep.
Restart ==
    /\ NetRestart /\ ProcRestart /\ UserRestart
    /\ turn' = "sleep" /\ slept' = Interval /\ UNCHANGED built
    /\ OnlyBuilt'
    /\ Fault

Init ==
    /\ NetInit /\ ProcInit /\ UserInit
    /\ turn = "sleep" /\ slept = Interval /\ happenings = 0 /\ faults = 0
    /\ built \in SUBSET Surfaces /\ OnlyBuilt

Next ==
    \/ NetworkHappens \/ Capture \/ ProcessHappens \/ LogHappens \/ TimePasses \/ ClockSetBack
    \/ BeginSweep \/ NetworkTurn \/ NetworkRaises \/ ProcessTurn \/ ProcessRaises
    \/ UserTurn \/ UserReadFails \/ UserRaises
    \/ Restart

Spec == Init /\ [][Next]_vars
-----------------------------------------------------------------------------

LoopTypeOK ==
    /\ turn \in {"sleep"} \cup Surfaces /\ slept \in 0 .. Interval
    /\ built \subseteq Surfaces
    /\ netStage # "idle" => turn = "network"
    /\ procStage # "idle" => turn = "process"
    /\ reading # NotReading => turn = "user_activity"

\* The collectors keep their types, and only the one whose turn it is has a
\* sweep in hand.
TypeOK == NetTypeOK /\ ProcTypeOK /\ UserTypeOK /\ LoopTypeOK

\* With journald no failed login is counted by more than two sweeps of a
\* process, and one more for every interval that fits into a second and the
\* offset of local time, although the start of a window is truncated and
\* reading comes after _last_read is set (collect, read_since).  In UTC that is
\* at most two when sweeps are at least a second apart; east of it journalctl
\* goes back by the offset, and a login is counted again for hours.
CountsBounded ==
    source = "journald" /\ ~setBack =>
        \A i \in Written : \/ times[i] <= 2
                          \/ \E o \in zone : (times[i] - 2) * Interval < Second + o
=============================================================================
