---------------------------- MODULE AgentRunner ----------------------------
(***************************************************************************)
(* One process of ebabf-agent: bootstrap.main parses the command line,     *)
(* builds the agent and runs AgentRunner.run_forever (ebabf/runner.py),    *)
(* which starts the collectors, sweeps them until it is told to stop, and  *)
(* closes them.                                                            *)
(*                                                                         *)
(* A collector does any of what its interface allows: start(), collect()   *)
(* and close() return or raise.  What becomes of an event in the engines   *)
(* and of a row in the store is in Enforcement and EventStore; here        *)
(* handling an event stores it, fails to, or raises.                       *)
(***************************************************************************)
EXTENDS Integers, Sequences, FiniteSets

CONSTANTS
    Collectors,  \* the collectors wanted: those of --only, or all in the registry
    CommandLine, \* the kinds of the arguments main() is given, in order
    MaxBatch,    \* bound: events a collector returns from one sweep
    MaxFaults    \* bound: kills, builds that fail and exceptions out of _handle

\* An option of the main parser, the subcommand, an option of the subcommand.
Argument == {"main_option", "command", "command_option"}

ASSUME RunnerAssumption ==
    /\ CommandLine \in Seq(Argument)
    /\ MaxBatch \in Nat
    /\ MaxFaults \in Nat

VARIABLES
    phase,       \* where the main thread is; "gone" when there is no process
    exit,        \* the status the latest process ended with, or the exception
                 \* that is on its way up to main()
    collectors,  \* _collectors: those the sweep goes through
    active,      \* CoverageReport.active
    unavailable, \* CoverageReport.unavailable
    open,        \* collectors that started and have not been closed
    todo,        \* collectors the loop in hand has still to visit
    failed,      \* collectors that raised in the loop in hand
    visited,     \* history: collectors whose events the sweep in hand took
    batch,       \* events of the collector in hand that are still to be handled
    stop,        \* the flag of the Event _stop
    sigterm,     \* a SIGTERM is pending
    halted,      \* the EventStore has halted
    low,         \* free space is below the floor
    faults       \* counter of the bound

runnerVars == <<phase, exit, collectors, active, unavailable, open, todo, failed, visited,
                batch, stop, sigterm, halted, low, faults>>
loop == <<todo, failed, visited, batch>>
coverage == <<collectors, active, unavailable, open>>

\* Before _install_signal_handlers, a SIGTERM ends the process.
Unprotected == {"parse", "build", "start"}
\* Inside `with self._cond` of Event.wait, but for the sleep itself.
Waiting == {"armed", "waking"}
Phase == Unprotected \cup Waiting \cup
         {"gone", "sweep?", "collect", "handle", "asleep", "stuck", "close", "leave"}

\* The process ends; all it held in memory is gone.
End(status) ==
    /\ phase' = "gone" /\ exit' = status
    /\ collectors' = {} /\ active' = {} /\ unavailable' = {} /\ open' = {}
    /\ todo' = {} /\ failed' = {} /\ visited' = {} /\ batch' = 0
    /\ stop' = FALSE /\ sigterm' = FALSE /\ halted' = FALSE

Fault == faults < MaxFaults /\ faults' = faults + 1

\* A new process of the agent.
Spawn ==
    /\ phase = "gone"
    /\ phase' = "parse" /\ exit' = "none"
    /\ UNCHANGED <<coverage, loop, stop, sigterm, halted, low, faults>>
-----------------------------------------------------------------------------
(***************************************************************************)
(* bootstrap.main, up to run_forever                                       *)
(***************************************************************************)

\* argparse: what follows the subcommand belongs to the subcommand's parser,
\* which has no --interval, --only or --max-events.
Accepts(line) ==
    \E i \in DOMAIN line :
        /\ line[i] = "command"
        /\ \A j \in 1 .. i - 1 : line[j] = "main_option"
        /\ \A j \in i + 1 .. Len(line) : line[j] = "command_option"

ParseArgs ==
    /\ phase = "parse"
    /\ \/ /\ Accepts(CommandLine)
          /\ phase' = "build"
          /\ UNCHANGED <<exit, coverage, loop, stop, sigterm, halted>>
       \/ ~Accepts(CommandLine) /\ End("usage")
    /\ UNCHANGED <<low, faults>>

\* build_supported: what the platform supports and what can be constructed is
\* active; the rest of what was wanted is declared.
BuildSupported(built) ==
    /\ collectors' = built /\ active' = built
    /\ unavailable' = Collectors \ built

\* build_agent; a bad key file, database or kill-switch directory raises.
Build ==
    /\ phase = "build"
    /\ \/ /\ \E built \in SUBSET Collectors : BuildSupported(built) /\ todo' = built
          /\ phase' = "start"
          /\ UNCHANGED <<exit, open, failed, visited, batch, stop, sigterm, halted, faults>>
       \/ Fault /\ End("error")
    /\ UNCHANGED low
-----------------------------------------------------------------------------
(***************************************************************************)
(* AgentRunner                                                             *)
(***************************************************************************)

\* start(): one collector starts, or raises.
StartCollector(c) ==
    /\ phase = "start" /\ c \in todo
    /\ todo' = todo \ {c}
    /\ \/ open' = open \cup {c} /\ UNCHANGED failed
       \/ failed' = failed \cup {c} /\ UNCHANGED open
    /\ UNCHANGED <<phase, exit, collectors, active, unavailable, visited, batch, stop,
                   sigterm, halted, low, faults>>

\* Mutant: a collector that did not start stays on the list of active ones.
Started_StillActive ==
    /\ phase = "start" /\ todo = {}
    /\ collectors' = collectors \ failed
    /\ unavailable' = unavailable \cup failed
    /\ failed' = {}
    /\ phase' = "sweep?"
    /\ UNCHANGED <<exit, active, open, todo, visited, batch, stop, sigterm, halted, low, faults>>

\* The rest of start(): what did not start leaves the sweep and is declared
\* (_with_failures); then the signal handlers are installed.
Started ==
    /\ phase = "start" /\ todo = {}
    /\ collectors' = collectors \ failed
    /\ active' = active \ failed
    /\ unavailable' = unavailable \cup failed
    /\ failed' = {}
    /\ phase' = "sweep?"
    /\ UNCHANGED <<exit, open, todo, visited, batch, stop, sigterm, halted, low, faults>>

\* while not self._stop.is_set()
TestStop ==
    /\ phase = "sweep?"
    /\ \/ stop /\ phase' = "close"
       \/ ~stop /\ phase' = "collect"
    /\ todo' = collectors /\ failed' = {} /\ visited' = {}
    /\ UNCHANGED <<exit, coverage, batch, stop, sigterm, halted, low, faults>>

\* sweep_once: collector.collect() yields its events,
Collect(c) ==
    /\ phase = "collect" /\ c \in todo
    /\ todo' = todo \ {c}
    /\ visited' = visited \cup {c}
    /\ batch' \in 0 .. MaxBatch
    /\ phase' = "handle"
    /\ UNCHANGED <<exit, coverage, failed, stop, sigterm, halted, low, faults>>

\* Mutant: one collector that raises ends the sweep.
CollectRaises_Break(c) ==
    /\ phase = "collect" /\ c \in todo
    /\ todo' = {}
    /\ failed' = failed \cup {c}
    /\ UNCHANGED <<phase, exit, coverage, visited, batch, stop, sigterm, halted, low, faults>>

\* or raises, and is noted.
CollectRaises(c) ==
    /\ phase = "collect" /\ c \in todo
    /\ todo' = todo \ {c}
    /\ failed' = failed \cup {c}
    /\ UNCHANGED <<phase, exit, coverage, visited, batch, stop, sigterm, halted, low, faults>>

\* Mutant: an event counts twice.
HandleEvent_Twice ==
    /\ phase = "handle" /\ batch > 0
    /\ batch' = batch - 2
    /\ \/ UNCHANGED halted
       \/ low /\ ~halted /\ halted' = TRUE
    /\ UNCHANGED <<phase, exit, coverage, todo, failed, visited, stop, sigterm, low, faults>>

\* _handle, one event: append() stores it or raises; StorageHalted is an
\* Exception like any other here.  With the floor passed append() may halt.
HandleEvent ==
    /\ phase = "handle" /\ batch > 0
    /\ batch' = batch - 1
    /\ \/ UNCHANGED halted
       \/ low /\ ~halted /\ halted' = TRUE
    /\ UNCHANGED <<phase, exit, coverage, todo, failed, visited, stop, sigterm, low, faults>>

\* _handle raises (the kill switch can), and with it sweep_once: run_forever
\* closes and main() ends with a traceback.
HandleRaises ==
    /\ phase = "handle" /\ batch > 0
    /\ Fault
    /\ phase' = "close" /\ exit' = "error"
    /\ todo' = collectors /\ batch' = 0
    /\ UNCHANGED <<coverage, failed, visited, stop, sigterm, halted, low>>

Handled ==
    /\ phase = "handle" /\ batch = 0
    /\ phase' = "collect"
    /\ UNCHANGED <<exit, coverage, loop, stop, sigterm, halted, low, faults>>

\* The sweep is over; Event.wait takes the lock of its condition.
EndSweep ==
    /\ phase = "collect" /\ todo = {}
    /\ phase' = "armed"
    /\ UNCHANGED <<exit, coverage, loop, stop, sigterm, halted, low, faults>>

\* Event.wait: sleep with the lock released unless the flag is set.
Wait ==
    /\ phase = "armed"
    /\ phase' = IF stop THEN "sweep?" ELSE "asleep"
    /\ UNCHANGED <<exit, coverage, loop, stop, sigterm, halted, low, faults>>

\* The interval is over or set() has notified: the lock is taken again,
Wake ==
    /\ phase = "asleep"
    /\ phase' = "waking"
    /\ UNCHANGED <<exit, coverage, loop, stop, sigterm, halted, low, faults>>

\* and given back.
EndWait ==
    /\ phase = "waking"
    /\ phase' = "sweep?"
    /\ UNCHANGED <<exit, coverage, loop, stop, sigterm, halted, low, faults>>

\* Mutant: close() ends with the first collector that raises.
CloseCollector_FirstError(c) ==
    /\ phase = "close" /\ c \in todo
    /\ open' = open \ {c}
    /\ todo' \in {todo \ {c}, {}}
    /\ UNCHANGED <<phase, exit, collectors, active, unavailable, failed, visited, batch, stop,
                   sigterm, halted, low, faults>>

\* close(): one collector closes, or raises, which is logged.
CloseCollector(c) ==
    /\ phase = "close" /\ c \in todo
    /\ open' = open \ {c}
    /\ todo' = todo \ {c}
    /\ UNCHANGED <<phase, exit, collectors, active, unavailable, failed, visited, batch, stop,
                   sigterm, halted, low, faults>>

Closed ==
    /\ phase = "close" /\ todo = {}
    /\ phase' = "leave"
    /\ UNCHANGED <<exit, coverage, loop, stop, sigterm, halted, low, faults>>

\* What main() makes of the exception that left run_forever.
ExitStatus(raised) ==
    CASE raised = "none" -> "ok" [] raised = "StorageHalted" -> "halted" [] OTHER -> "error"

\* The rest of main(): close both stores and return.
Leave ==
    /\ phase = "leave"
    /\ End(ExitStatus(exit))
    /\ UNCHANGED <<low, faults>>
-----------------------------------------------------------------------------

\* A pending SIGTERM is delivered to the main thread.  The handler calls
\* Event.set(), which takes the lock of the condition: a plain Lock, so that
\* the thread waits for itself if it is inside Event.wait.
Signal ==
    /\ sigterm /\ phase \notin {"gone", "stuck"}
    /\ \/ phase \in Unprotected /\ End("signal")
       \/ /\ phase \in Waiting
          /\ phase' = "stuck" /\ sigterm' = FALSE
          /\ UNCHANGED <<exit, coverage, loop, stop, halted>>
       \/ /\ phase \notin Unprotected \cup Waiting
          /\ stop' = TRUE /\ sigterm' = FALSE
          /\ UNCHANGED <<phase, exit, coverage, loop, halted>>
    /\ UNCHANGED <<low, faults>>

\* kill -9 by hand or by the kernel, or a crash of the interpreter.
Crash ==
    /\ phase # "gone"
    /\ Fault
    /\ End("signal")
    /\ UNCHANGED low

DiskChanges ==
    /\ low' = ~low
    /\ UNCHANGED <<phase, exit, coverage, loop, stop, sigterm, halted, faults>>

RunnerInit ==
    /\ phase = "gone" /\ exit = "none"
    /\ collectors = {} /\ active = {} /\ unavailable = {} /\ open = {}
    /\ todo = {} /\ failed = {} /\ visited = {} /\ batch = 0
    /\ stop = FALSE /\ sigterm = FALSE /\ halted = FALSE
    /\ low = FALSE /\ faults = 0

MainThread ==
    \/ ParseArgs \/ Build \/ Started \/ TestStop \/ HandleEvent \/ HandleRaises \/ Handled
    \/ EndSweep \/ Wait \/ Wake \/ EndWait \/ Closed \/ Leave
    \/ \E c \in Collectors :
          StartCollector(c) \/ Collect(c) \/ CollectRaises(c) \/ CloseCollector(c)
=============================================================================
