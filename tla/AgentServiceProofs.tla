-------------------------- MODULE AgentServiceProofs --------------------------
(***************************************************************************)
(* Proofs about the agent's process and its unit, for any set of           *)
(* collectors, any batch size, any number of faults and any command line.  *)
(***************************************************************************)
EXTENDS AgentService, TLAPS

LEMMA ZeroIsBound == 0 \in 0 .. MaxBatch /\ 0 \in 0 .. MaxFaults
BY RunnerAssumption

LEMMA InitTyped == Init => TypeOK
BY ZeroIsBound, Zenon DEF Init, RunnerInit, TypeOK, Phase, Unit

LEMMA TypeInductive == TypeOK /\ [Next]_vars => TypeOK'
<1> SUFFICES ASSUME TypeOK, [Next]_vars PROVE TypeOK'
  OBVIOUS
<1> USE RunnerAssumption DEF TypeOK, Phase, Unprotected, Waiting, Unit, loop, coverage
<1>0. ASSUME NEW status \in {"ok", "error", "usage", "halted", "signal"}, End(status),
             unit' \in Unit, low' \in BOOLEAN, faults' \in 0 .. MaxFaults
      PROVE  TypeOK'
  BY <1>0, ZeroIsBound, Zenon DEF End
<1>1. CASE MainThread /\ UNCHANGED unit
  <2>1. CASE ParseArgs
    BY <1>0, <1>1, <2>1 DEF ParseArgs
  <2>2. CASE Build
    BY <1>0, <1>1, <2>2 DEF Build, BuildSupported, Fault
  <2>3. CASE Leave
    BY <1>0, <1>1, <2>3 DEF Leave, ExitStatus
  <2>4. CASE Started \/ TestStop
    BY <1>1, <2>4 DEF Started, TestStop
  <2>5. CASE HandleEvent
    <3>1. batch' \in 0 .. MaxBatch
      BY <2>5 DEF HandleEvent
    <3>2. halted' \in BOOLEAN
      BY <2>5 DEF HandleEvent
    <3> QED BY <1>1, <2>5, <3>1, <3>2 DEF HandleEvent
  <2>6. CASE HandleRaises
    BY <1>1, <2>6 DEF HandleRaises, Fault
  <2>7. CASE Handled \/ EndSweep \/ Wait \/ Wake \/ EndWait \/ Closed
    BY <1>1, <2>7 DEF Handled, EndSweep, Wait, Wake, EndWait, Closed
  <2>8. ASSUME NEW c \in Collectors,
               StartCollector(c) \/ Collect(c) \/ CollectRaises(c) \/ CloseCollector(c)
        PROVE  TypeOK'
    BY <1>1, <2>8 DEF StartCollector, Collect, CollectRaises, CloseCollector
  <2> QED BY <1>1, <2>1, <2>2, <2>3, <2>4, <2>5, <2>6, <2>7, <2>8 DEF MainThread
<1>2. CASE Signal /\ UNCHANGED unit
  <2>1. CASE End("signal") /\ UNCHANGED <<low, faults>>
    BY <1>0, <1>2, <2>1
  <2>2. CASE phase' = "stuck" /\ sigterm' = FALSE
             /\ UNCHANGED <<exit, coverage, loop, stop, halted, low, faults>>
    BY <1>2, <2>2
  <2>3. CASE stop' = TRUE /\ sigterm' = FALSE
             /\ UNCHANGED <<phase, exit, coverage, loop, halted, low, faults>>
    BY <1>2, <2>3
  <2> QED BY <1>2, <2>1, <2>2, <2>3 DEF Signal
<1>3. CASE (Crash \/ DiskChanges) /\ UNCHANGED unit
  <2>1. CASE Crash
    <3>1. faults' \in 0 .. MaxFaults
      BY <2>1 DEF Crash, Fault
    <3> QED BY <1>0, <1>3, <2>1, <3>1 DEF Crash
  <2>2. CASE DiskChanges
    BY <1>3, <2>2 DEF DiskChanges
  <2> QED BY <1>3, <2>1, <2>2
<1>4. CASE StartUnit \/ Restart
  BY <1>4 DEF StartUnit, Restart, Spawn
<1>5. CASE StopUnit
  BY <1>5 DEF StopUnit
<1>6. CASE StopTimeout
  BY <1>0, <1>6 DEF StopTimeout
<1>7. CASE Reap
  BY <1>7 DEF Reap, runnerVars
<1>8. CASE UNCHANGED vars
  BY <1>8 DEF vars, runnerVars
<1> QED
  BY <1>1, <1>2, <1>3, <1>4, <1>5, <1>6, <1>7, <1>8 DEF Next, Process

\* The state of the process and of the unit keeps its type.
THEOREM ServiceTypeCorrect == Spec => []TypeOK
BY InitTyped, TypeInductive, PTL DEF Spec
-----------------------------------------------------------------------------
(***************************************************************************)
(* What each loop over the collectors has done so far.                     *)
(***************************************************************************)

\* Before start() nothing is open and nothing has failed.
BeforeStart == phase \in {"gone", "parse", "build"} => open = {} /\ failed = {}

\* start(): each supported collector is still to come, open, or has failed.
Starting ==
    phase = "start" =>
        /\ collectors = active /\ unavailable = Collectors \ active
        /\ active = todo \cup failed \cup open
        /\ failed \cap open = {} /\ todo \cap (failed \cup open) = {}

\* sweep_once: each collector is still to come, has given its events, or has
\* failed.
InSweep ==
    /\ phase \in {"collect", "handle"} => todo \cup visited \cup failed = open

\* close(): what is open is still to come.
InClose == phase = "close" => open \subseteq todo

LoopInv ==
    /\ BeforeStart /\ Starting /\ InSweep /\ InClose
    /\ CoverageHonest /\ SweepComplete /\ CleanExit

LEMMA LoopInductive == TypeOK /\ LoopInv /\ [Next]_vars => LoopInv'
<1> SUFFICES ASSUME TypeOK, LoopInv, [Next]_vars PROVE LoopInv'
  OBVIOUS
<1> USE DEF LoopInv, BeforeStart, Starting, InSweep, InClose, CoverageHonest, SweepComplete,
            CleanExit, Sweeping, loop, coverage
<1>0. ASSUME NEW status, End(status) PROVE LoopInv'
  BY <1>0 DEF End
<1>1. CASE MainThread /\ UNCHANGED unit
  <2>1. CASE ParseArgs
    BY <1>0, <2>1 DEF ParseArgs
  <2>2. CASE Build
    <3>1. CASE phase' = "start" /\ UNCHANGED <<open, failed>>
               /\ \E supported \in SUBSET Collectors :
                     /\ collectors' = supported /\ active' = supported
                     /\ unavailable' = Collectors \ supported /\ todo' = supported
      <4>1. failed = {}
        BY <2>2 DEF Build, BuildSupported
      <4> QED BY <2>2, <3>1, <4>1 DEF Build, BuildSupported
    <3> QED BY <1>0, <2>2, <3>1 DEF Build, BuildSupported
  <2>3. CASE Leave
    BY <1>0, <2>3 DEF Leave
  <2>4. CASE Started
    BY <2>4 DEF Started, TypeOK
  <2>5. CASE TestStop
    BY <2>5 DEF TestStop
  <2>6. CASE HandleEvent \/ HandleRaises \/ Handled
    BY <2>6 DEF HandleEvent, HandleRaises, Handled
  <2>7. CASE EndSweep \/ Wait \/ Wake \/ EndWait \/ Closed
    BY <2>7 DEF EndSweep, Wait, Wake, EndWait, Closed
  <2>8. ASSUME NEW c \in Collectors, StartCollector(c) PROVE LoopInv'
    BY <2>8 DEF StartCollector
  <2>9. ASSUME NEW c \in Collectors, Collect(c) \/ CollectRaises(c) PROVE LoopInv'
    BY <2>9 DEF Collect, CollectRaises
  <2>10. ASSUME NEW c \in Collectors, CloseCollector(c) PROVE LoopInv'
    BY <2>10 DEF CloseCollector
  <2> QED BY <1>1, <2>1, <2>2, <2>3, <2>4, <2>5, <2>6, <2>7, <2>8, <2>9, <2>10 DEF MainThread
<1>2. CASE Signal /\ UNCHANGED unit
  BY <1>0, <1>2 DEF Signal, Waiting, Unprotected
<1>3. CASE (Crash \/ DiskChanges) /\ UNCHANGED unit
  BY <1>0, <1>3 DEF Crash, DiskChanges
<1>4. CASE StartUnit \/ Restart
  BY <1>4 DEF StartUnit, Restart, Spawn
<1>5. CASE StopUnit
  BY <1>5 DEF StopUnit
<1>6. CASE StopTimeout
  BY <1>0, <1>6 DEF StopTimeout
<1>7. CASE Reap
  BY <1>7 DEF Reap, runnerVars
<1>8. CASE UNCHANGED vars
  BY <1>8 DEF vars, runnerVars
<1> QED
  BY <1>1, <1>2, <1>3, <1>4, <1>5, <1>6, <1>7, <1>8 DEF Next, Process

LEMMA LoopInvariant == Spec => [](TypeOK /\ LoopInv)
<1>1. Init => LoopInv
  BY DEF Init, RunnerInit, LoopInv, BeforeStart, Starting, InSweep, InClose, CoverageHonest,
         SweepComplete, CleanExit, Sweeping
<1>2. TypeOK /\ LoopInv /\ [Next]_vars => (TypeOK /\ LoopInv)'
  BY TypeInductive, LoopInductive
<1> QED BY <1>1, <1>2, InitTyped, PTL DEF Spec

\* The coverage report of a sweeping agent is true, whichever collectors the
\* platform supports and whichever fail to start.
THEOREM CoverageCorrect == Spec => []CoverageHonest
BY LoopInvariant, PTL DEF LoopInv

\* No sweep leaves a collector out.
THEOREM SweepCorrect == Spec => []SweepComplete
BY LoopInvariant, PTL DEF LoopInv

\* main() leaves no collector open.
THEOREM ExitCorrect == Spec => []CleanExit
BY LoopInvariant, PTL DEF LoopInv
=============================================================================
