----------------------------- MODULE FileMonitor -----------------------------
(***************************************************************************)
(* The file collector (ebabf/collectors/filesystem.py) in its two threads: *)
(* watchdog's dispatcher, which counts what happens under each watch root  *)
(* (_BufferingHandler.record), and the sweep of the runner, which takes    *)
(* the counts root by root and makes an event of each (collect).           *)
(*                                                                         *)
(* The two share one FileActivity object per root.  drain() puts a new one *)
(* in its place and keeps the old; an object is a slot here, and a root    *)
(* has two: the one the handler refers to and the one drained last.        *)
(*                                                                         *)
(* A notice is about a file: dispatch() passes over directories.  A root   *)
(* is its label, a path is what classify_sensitive can tell about it.      *)
(***************************************************************************)
EXTENDS Integers, Sequences, FiniteSets, SequencesExt, FiniteSetsExt

CONSTANTS
    Candidates, \* the directories default_watch_roots looks for, in its order
    Paths,      \* paths of files
    Markers,    \* for each path, the sensitive markers it is under
    Categories, \* SENSITIVE_CATEGORIES: pairs of a name and its markers, in order
    MaxNotices, \* bound: events watchdog delivers
    MaxClock,   \* bound: the clock
    MaxFaults   \* bound: sweeps that raise, and times the clock is set back

Labels == ToSet(Candidates)
Category == {Categories[i][1] : i \in DOMAIN Categories}

ASSUME MonitorAssumption ==
    /\ Candidates \in Seq(Labels) /\ IsInjective(Candidates) /\ "none" \notin Labels
    /\ DOMAIN Markers = Paths
    /\ Categories \in Seq(ToSet(Categories))
    /\ MaxNotices \in Nat /\ MaxClock \in Nat \ {0} /\ MaxFaults \in Nat

VARIABLES
    stage,       \* how far the life of the collector is
    roots,       \* _roots
    watched,     \* roots the observer has a watch on
    unwatchable, \* _unwatchable
    activity,    \* the FileActivity objects of each root
    current,     \* which of the two _activity refers to
    writer,      \* the record() that holds the lock of its handler
    next,        \* the place of collect() in _roots; 0 between sweeps
    drained,     \* the activity collect() has in hand
    events,      \* what collect() has yielded in this sweep
    lastSweep,   \* _last_sweep
    window,      \* window of the sweep in hand
    clock,       \* time.time() and CollectorContext.clock
    counted,     \* history: changes of each root that record() was told of
    reported,    \* history: those in events that the runner was given
    lost,        \* history: those in events of sweeps that raised
    since,       \* history: the sweep that drained each root last
    behind,      \* history: roots a sweep that raised has left for the next
    notices,     \* counter of the bound
    faults       \* counter of the bound

life == <<stage, roots, watched, unwatchable>>
buffers == <<activity, current, writer>>
sweep == <<next, drained, events, lastSweep, window>>
history == <<counted, reported, lost, since, behind>>
vars == <<life, buffers, sweep, clock, history, notices, faults>>

\* MUTATION_EVENTS, whose four counters are only ever added up, and what
\* watchdog delivers besides: reads, and types of a later version, which are
\* treated alike but for a warning.
MutationEvents == {"modified"}
EventTypes == MutationEvents \cup {"opened"}

FileActivity == [total : Nat, ignored : Nat, distinct : SUBSET Paths,
                 categories : SUBSET Category]
NoActivity == [total |-> 0, ignored |-> 0, distinct |-> {}, categories |-> {}]

NoWriter == [root |-> "none"]
NotDrained == [root |-> "none"]
Idle == next = 0

Fault == faults < MaxFaults /\ faults' = faults + 1
-----------------------------------------------------------------------------
(***************************************************************************)
(* Life cycle                                                              *)
(***************************************************************************)

\* default_watch_roots: what does not exist is not a root.
DefaultWatchRoots(existing) ==
    LET kept[n \in 0 .. Len(Candidates)] ==
            IF n = 0 THEN <<>>
            ELSE IF Candidates[n] \in existing THEN Append(kept[n - 1], Candidates[n])
                                               ELSE kept[n - 1]
    IN  kept[Len(Candidates)]

Construct ==
    /\ stage = "new"
    /\ \E existing \in SUBSET Labels : roots' = DefaultWatchRoots(existing)
    /\ stage' = "built"
    /\ UNCHANGED <<watched, unwatchable, buffers, sweep, clock, history, notices, faults>>

\* What _why_unwatchable may find at the path of a root: nothing, a file, a
\* directory without permission, one that cannot be listed, or one that can.
Found == {"missing", "file", "unreadable", "unlistable", "directory"}
Unwatchable(found) == found # "directory"

\* start(): some roots are ruled out, schedule() raises for some of the others;
\* then observer.start(), which may raise for them all.
Start ==
    /\ stage = "built"
    /\ \E found \in [ToSet(roots) -> Found], refused \in SUBSET ToSet(roots) :
          LET blind == {r \in ToSet(roots) : Unwatchable(found[r])}
          IN  /\ unwatchable' = blind \cup refused
              /\ watched' = ToSet(roots) \ (blind \cup refused)
    /\ stage' \in {"observing", "failed"}
    /\ UNCHANGED <<roots, buffers, sweep, clock, history, notices, faults>>

\* The last line of start(), when the dispatcher is already at work.
StartClock ==
    /\ stage = "observing"
    /\ stage' = "running"
    /\ lastSweep' = clock
    /\ since' = [r \in Labels |-> clock]
    /\ UNCHANGED <<roots, watched, unwatchable, buffers, next, drained, events, window, clock,
                   counted, reported, lost, behind, notices, faults>>

\* close(), which the runner calls when it has stopped to sweep.
Close ==
    /\ stage = "running" /\ Idle
    /\ stage' = "closed"
    /\ UNCHANGED <<roots, watched, unwatchable, buffers, sweep, clock, history, notices, faults>>
-----------------------------------------------------------------------------
(***************************************************************************)
(* The dispatcher: _BufferingHandler                                       *)
(***************************************************************************)

\* record() has the lock and refers to the activity of the moment.
BeginRecord(r, type, path) ==
    /\ stage \in {"observing", "running"} /\ r \in watched
    /\ writer = NoWriter
    /\ notices < MaxNotices /\ notices' = notices + 1
    /\ writer' = [root |-> r, slot |-> current[r], type |-> type, path |-> path]
    /\ UNCHANGED <<life, activity, current, sweep, clock, history, faults>>

\* Mutant: the result None is taken for a category.
ClassifySensitive_None(path) ==
    LET matching == {i \in DOMAIN Categories : Categories[i][2] \cap Markers[path] # {}}
    IN  IF matching = {} THEN {"None"} ELSE {Categories[Min(matching)][1]}

\* classify_sensitive: the first category that has a marker for the path.
ClassifySensitive(path) ==
    LET matching == {i \in DOMAIN Categories : Categories[i][2] \cap Markers[path] # {}}
    IN  IF matching = {} THEN {} ELSE {Categories[Min(matching)][1]}

\* Mutant: the path is classified before the type is looked at.
Counted_ReadsToo(a, type, path) ==
    LET b == [a EXCEPT !.categories = @ \cup ClassifySensitive(path)]
    IN  IF type \in MutationEvents
        THEN [b EXCEPT !.total = @ + 1, !.distinct = @ \cup {path}]
        ELSE [b EXCEPT !.ignored = @ + 1]

\* What one notice makes of an activity.
Counted(a, type, path) ==
    IF type \in MutationEvents
    THEN [a EXCEPT !.total = @ + 1, !.distinct = @ \cup {path},
                   !.categories = @ \cup ClassifySensitive(path)]
    ELSE [a EXCEPT !.ignored = @ + 1]

\* Mutant: the early return for what is not a change keeps the lock.
EndRecord_KeepsLock ==
    /\ writer # NoWriter
    /\ activity' = [activity EXCEPT ![writer.root][writer.slot] =
                                        Counted(@, writer.type, writer.path)]
    /\ counted' = [counted EXCEPT ![writer.root] =
                                        IF writer.type \in MutationEvents THEN @ + 1 ELSE @]
    /\ writer' = IF writer.type \in MutationEvents THEN NoWriter ELSE writer
    /\ writer.type \in MutationEvents \/ activity[writer.root][writer.slot].ignored < MaxNotices
    /\ UNCHANGED <<life, current, sweep, clock, reported, lost, since, behind, notices, faults>>

\* record() counts and gives the lock back.
EndRecord ==
    /\ writer # NoWriter
    /\ activity' = [activity EXCEPT ![writer.root][writer.slot] =
                                        Counted(@, writer.type, writer.path)]
    /\ counted' = [counted EXCEPT ![writer.root] =
                                        IF writer.type \in MutationEvents THEN @ + 1 ELSE @]
    /\ writer' = NoWriter
    /\ UNCHANGED <<life, current, sweep, clock, reported, lost, since, behind, notices, faults>>
-----------------------------------------------------------------------------
(***************************************************************************)
(* The sweep: collect(), run to its end by list() in AgentRunner.sweep_once*)
(***************************************************************************)

BeginSweep ==
    /\ stage = "running" /\ Idle
    /\ window' = clock - lastSweep
    /\ lastSweep' = clock
    /\ next' = 1
    /\ UNCHANGED <<life, buffers, drained, events, clock, history, notices, faults>>

\* The handler's new activity, and what collect() has in hand of the old.
Swap(r) ==
    /\ activity' = [activity EXCEPT ![r][1 - current[r]] = NoActivity]
    /\ current' = [current EXCEPT ![r] = 1 - @]
    /\ drained' = [root |-> r, slot |-> current[r],
                   span |-> lastSweep - since[r], late |-> r \in behind]
    /\ since' = [since EXCEPT ![r] = lastSweep]
    /\ behind' = behind \ {r}
    /\ UNCHANGED <<life, writer, next, events, lastSweep, window, clock, counted, reported, lost,
                   notices, faults>>

\* Mutant: drain() does without the lock.
Drain_NoLock ==
    /\ next \in DOMAIN roots /\ drained = NotDrained
    /\ Swap(roots[next])

\* drain() of the next root.
Drain ==
    /\ next \in DOMAIN roots /\ drained = NotDrained
    /\ writer.root # roots[next]
    /\ Swap(roots[next])

InHand == activity[drained.root][drained.slot]

\* collect() lets go of the activity, and nothing refers to it any more.
LetGo ==
    /\ drained' = NotDrained
    /\ activity' = [activity EXCEPT ![drained.root][drained.slot] = NoActivity]
    /\ UNCHANGED <<current, writer>>

\* Mutant: `return` for `continue`.
Skip_Return ==
    /\ drained # NotDrained /\ InHand.total = 0
    /\ LetGo
    /\ next' = Len(roots) + 1
    /\ UNCHANGED <<life, events, lastSweep, window, clock, history, notices, faults>>

\* Nothing has changed under the root: no event.
Skip ==
    /\ drained # NotDrained /\ InHand.total = 0
    /\ LetGo
    /\ next' = next + 1
    /\ UNCHANGED <<life, events, lastSweep, window, clock, history, notices, faults>>

\* _describe; with a window that is empty or negative there is no rate.
Describe(r, a) ==
    [root |-> r, total |-> a.total, ignored |-> a.ignored,
     distinct |-> Cardinality(a.distinct), categories |-> a.categories,
     rate |-> IF window > 0 THEN <<a.total, window>> ELSE <<>>]

Yield ==
    /\ drained # NotDrained /\ InHand.total > 0
    /\ events' = Append(events, Describe(drained.root, InHand))
    /\ LetGo
    /\ next' = next + 1
    /\ UNCHANGED <<life, lastSweep, window, clock, history, notices, faults>>

\* The changes of a root in a sequence of events.
TotalOf(r, evs) ==
    LET sum[n \in 0 .. Len(evs)] ==
            IF n = 0 THEN 0
            ELSE sum[n - 1] + (IF evs[n].root = r THEN evs[n].total ELSE 0)
    IN  sum[Len(evs)]

\* Between sweeps nothing of a sweep is left.
Over == next' = 0 /\ events' = <<>> /\ window' = 0

\* list() has all of the events.
EndSweep ==
    /\ ~Idle /\ next = Len(roots) + 1
    /\ reported' = [r \in Labels |-> reported[r] + TotalOf(r, events)]
    /\ Over
    /\ UNCHANGED <<life, buffers, drained, lastSweep, clock, counted, lost, since, behind, notices, faults>>

HandTotal(r) == IF drained.root = r THEN InHand.total ELSE 0

\* _build_event raises (a subject cannot be given a pseudonym): the runner
\* notes the failure and has none of the events, and the roots that come
\* after are not drained.
SweepRaises ==
    /\ drained # NotDrained /\ InHand.total > 0
    /\ Fault
    /\ lost' = [r \in Labels |-> lost[r] + TotalOf(r, events) + HandTotal(r)]
    /\ behind' = behind \cup {roots[i] : i \in next + 1 .. Len(roots)}
    /\ Over /\ LetGo
    /\ UNCHANGED <<life, lastSweep, clock, counted, reported, since, notices>>

\* Time before start() and after close() shows nowhere.
Tick ==
    /\ stage = "running"
    /\ clock < MaxClock /\ clock' = clock + 1
    /\ UNCHANGED <<life, buffers, sweep, history, notices, faults>>

SetClockBack ==
    /\ stage = "running" /\ clock > 1 /\ Fault
    /\ clock' = clock - 1
    /\ UNCHANGED <<life, buffers, sweep, history, notices>>
-----------------------------------------------------------------------------

Init ==
    /\ stage = "new" /\ roots = <<>> /\ watched = {} /\ unwatchable = {}
    /\ activity = [r \in Labels |-> [s \in 0 .. 1 |-> NoActivity]]
    /\ current = [r \in Labels |-> 0] /\ writer = NoWriter
    /\ next = 0 /\ drained = NotDrained /\ events = <<>> /\ lastSweep = 0 /\ window = 0
    /\ clock = 1
    /\ counted = [r \in Labels |-> 0] /\ reported = counted /\ lost = counted
    /\ since = counted /\ behind = {}
    /\ notices = 0 /\ faults = 0

Dispatcher ==
    \/ \E r \in Labels, type \in EventTypes, path \in Paths : BeginRecord(r, type, path)
    \/ EndRecord

\* What the main thread does once it has begun; close() is somebody's choice.
Collect == BeginSweep \/ Drain \/ Skip \/ Yield \/ EndSweep

Next ==
    \/ Construct \/ Start \/ StartClock \/ Close
    \/ Dispatcher \/ Collect \/ SweepRaises
    \/ Tick \/ SetClockBack

Spec == Init /\ [][Next]_vars

\* The runner sweeps for ever, and a thread that holds a lock runs.
FairSpec == Spec /\ WF_vars(StartClock) /\ WF_vars(Collect) /\ WF_vars(EndRecord)
-----------------------------------------------------------------------------
(***************************************************************************)
(* Properties                                                              *)
(***************************************************************************)

Event == [root : Labels, total : Nat \ {0}, ignored : Nat, distinct : Nat,
          categories : SUBSET Category, rate : {<<>>} \cup ((Nat \ {0}) \X (Nat \ {0}))]

\* The collector, its buffers and its events keep their types; a category is
\* one of SENSITIVE_CATEGORIES and never None.
TypeOK ==
    /\ stage \in {"new", "built", "observing", "running", "failed", "closed"}
    /\ roots \in Seq(Labels) /\ watched \subseteq Labels /\ unwatchable \subseteq Labels
    /\ activity \in [Labels -> [0 .. 1 -> FileActivity]]
    /\ current \in [Labels -> 0 .. 1]
    /\ \/ writer = NoWriter
       \/ writer \in [root : Labels, slot : 0 .. 1, type : EventTypes, path : Paths]
    /\ next \in 0 .. Len(roots) + 1
    /\ \/ drained = NotDrained
       \/ drained \in [root : Labels, slot : 0 .. 1, span : Int, late : BOOLEAN]
    /\ events \in Seq(Event)
    /\ lastSweep \in Nat /\ window \in Int /\ clock \in Nat

\* A change is in exactly one place: still being counted, drained, in an
\* event of the sweep in hand, in an event the runner was given, or lost with
\* a sweep that raised.  A notice that is not about a change, a read or a
\* type nobody has heard of, is in none (record, drain and collect).
NoChangeMiscounted ==
    \A r \in Labels :
        counted[r] = activity[r][current[r]].total + HandTotal(r) + TotalOf(r, events)
                     + reported[r] + lost[r]

\* The rate of an event is taken over the time in which its changes were
\* counted, from the sweep that drained the root before to this one, whatever
\* the clock did; save for a root that a sweep which raised has left behind,
\* whose rate comes out too high (collect sets _last_sweep before it drains).
RateOverOwnWindow ==
    drained # NotDrained => drained.late \/ window = drained.span

\* sensitive_path_write is set if and only if a file under one of the
\* markers was changed; reading one is not enough (record).
SensitiveMeansWritten ==
    \A r \in Labels, s \in 0 .. 1 :
        activity[r][s].categories # {} <=>
            \E path \in activity[r][s].distinct, i \in DOMAIN Categories :
                Markers[path] \cap Categories[i][2] # {}

\* What was counted does not stay in the buffer: every root is drained in the
\* end, unless the collector is closed, whatever the order of notices and
\* sweeps (drain, collect).
ChangesLeaveTheBuffer ==
    \A r \in Labels :
        activity[r][current[r]].total > 0 ~>
            (activity[r][current[r]].total = 0 \/ stage = "closed")
=============================================================================
