-------------------------- MODULE ProcessCollector --------------------------
(***************************************************************************)
(* The process collector (ebabf/collectors/process.py): a snapshot of the  *)
(* process table, and an event for every process in it that has an owner.  *)
(*                                                                         *)
(* A process is its pid and its create_time, which /proc shows to anybody. *)
(* psutil measures cpu_percent between two looks at the same process; at   *)
(* the first look it returns 0.0, a figure that stands for nothing.  Names,*)
(* paths, parents and privileges are read from the snapshot and passed on. *)
(***************************************************************************)
EXTENDS Naturals

CONSTANTS
    Pids,       \* process ids, which the kernel uses again
    MaxCreated  \* bound: the last create_time

ASSUME ProcessAssumption == MaxCreated \in Nat \ {0}

VARIABLES
    processes,  \* the live processes: create_time by pid, 0 for a free pid
    created,    \* the latest create_time
    looked,     \* processes psutil has looked at before in this agent
    sampled,    \* _sampled
    procStage,  \* how far collect() is
    snapshot,   \* snapshot of collect(): [key, owned, cpu]
    procEvents  \* what collect() has yielded

procWorld == <<processes, created>>
procVars == <<procWorld, looked, sampled, procStage, snapshot, procEvents>>

Key == Pids \X (1 .. MaxCreated)
Live == {<<p, processes[p]>> : p \in {q \in Pids : processes[q] # 0}}
-----------------------------------------------------------------------------
Spawn(p) ==
    /\ processes[p] = 0 /\ created < MaxCreated
    /\ created' = created + 1
    /\ processes' = [processes EXCEPT ![p] = created']
    /\ UNCHANGED <<looked, sampled, procStage, snapshot, procEvents>>

Exit(p) ==
    /\ processes[p] # 0
    /\ processes' = [processes EXCEPT ![p] = 0]
    /\ UNCHANGED <<created, looked, sampled, procStage, snapshot, procEvents>>

\* process_iter: psutil remembers the processes it finds and forgets the rest.
\* The owner of a process may not be readable.
Snapshot ==
    /\ procStage = "idle"
    /\ \E nameless \in SUBSET Live :
          snapshot' = {[key |-> x, owned |-> x \notin nameless,
                        cpu |-> IF x \in looked THEN "measured" ELSE "zero"] : x \in Live}
    /\ looked' = Live
    /\ procStage' = "snapshot"
    /\ UNCHANGED <<procWorld, sampled, procEvents>>

Owned == {entry \in snapshot : entry.owned}

\* Mutant: the sampled processes are known by pid alone.
FirstSighting_Pid(x) == \A y \in sampled : y[1] # x[1]

\* first_sighting
FirstSighting(x) == x \notin sampled

\* _to_event: no figure at the first sighting.
ToEvent(entry) ==
    [key |-> entry.key, cpu |-> IF FirstSighting(entry.key) THEN "unknown" ELSE entry.cpu]

BuildProcesses ==
    /\ procStage = "snapshot"
    /\ procEvents' = {ToEvent(entry) : entry \in Owned}
    /\ sampled' = sampled \cup {entry.key : entry \in Owned}
    /\ snapshot' = {}
    /\ procStage' = "built"
    /\ UNCHANGED <<procWorld, looked>>

ProcessesHandled ==
    /\ procStage = "built"
    /\ procEvents' = {} /\ procStage' = "idle"
    /\ UNCHANGED <<procWorld, looked, sampled, snapshot>>

\* An event cannot be built: those before it are lost, and _sampled keeps their
\* processes and the one in hand.
ProcessesRaise ==
    /\ procStage = "snapshot"
    /\ \E reached \in SUBSET Owned \ {{}} : sampled' = sampled \cup {entry.key : entry \in reached}
    /\ snapshot' = {} /\ procStage' = "idle"
    /\ UNCHANGED <<procWorld, looked, procEvents>>

\* A new agent process knows none of what the old one had looked at.
ProcRestart ==
    /\ looked' = {} /\ sampled' = {} /\ procStage' = "idle" /\ snapshot' = {} /\ procEvents' = {}
    /\ UNCHANGED procWorld

ProcInit ==
    /\ created = 1 /\ processes \in {[p \in Pids |-> IF p = q THEN 1 ELSE 0] : q \in Pids}
    /\ looked = {} /\ sampled = {} /\ procStage = "idle" /\ snapshot = {} /\ procEvents = {}
-----------------------------------------------------------------------------
(***************************************************************************)
(* Properties                                                              *)
(***************************************************************************)

ProcTypeOK ==
    /\ processes \in [Pids -> 0 .. MaxCreated] /\ created \in 1 .. MaxCreated
    /\ looked \subseteq Key /\ sampled \subseteq Key
    /\ procStage \in {"idle", "snapshot", "built"}
    /\ snapshot \subseteq [key : Key, owned : BOOLEAN, cpu : {"measured", "zero"}]
    /\ procEvents \subseteq [key : Key, cpu : {"unknown", "measured", "zero"}]

\* A cpu_percent in an event is a measurement: the 0.0 of psutil's first look
\* at a process is never passed on, not for a process that was given the pid of
\* one sampled before, nor after a sweep that raised half way (_to_event).
CpuNeverInvented == \A e \in procEvents : e.cpu # "zero"
=============================================================================
