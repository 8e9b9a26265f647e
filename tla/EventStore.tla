----------------------------- MODULE EventStore -----------------------------
(***************************************************************************)
(* events.db and the process that writes it (ebabf/storage/event_store.py).*)
(*                                                                         *)
(* One EventStore object is shared by the threads of the agent.  Its lock  *)
(* serialises the statements, but every SQL statement is a transaction of  *)
(* its own (isolation_level=None): a crash or a failing statement may fall *)
(* between any two of them, so each statement of append() is a step here.  *)
(* The statements that a thread executes while it holds the lock are       *)
(*    INSERT event, space check, [INSERT gap | count, SELECT doomed,       *)
(*    DELETE doomed, INSERT drop].                                         *)
(* A row keeps what eviction and gap detection look at: its event_id, its  *)
(* level and its ingested_at stamp.                                        *)
(***************************************************************************)
EXTENDS Integers, Sequences, FiniteSets

CONSTANTS
    Threads,      \* threads that call append()
    NoThread,     \* the lock is free
    EventIds,     \* the uuids there are; their order breaks ties in ORDER BY
    Levels,       \* severity levels the scoring engine hands over
    MaxEvents,    \* max_events; 0 means unbounded
    FloorSet,     \* TRUE iff min_free_bytes is set
    CheckEvery,   \* _FREE_SPACE_CHECK_EVERY
    GapThreshold, \* DEFAULT_GAP_THRESHOLD_SECONDS, in clock units
    MaxClock,     \* bound: the wall clock reads 0..MaxClock
    MaxRestarts,  \* bound: clean stops plus crashes
    MaxFailures   \* bound: failing SQL statements and failing statvfs calls

\* _SEVERITY_RANK and _UNSCORED_RANK: an unjudged row ranks between an event
\* known to be boring and one known to be interesting.
SeverityRank == [normal |-> 0, low |-> 1, unscored |-> 2,
                 medium |-> 3, high |-> 4, critical |-> 5]

ASSUME ConstantsAssumption ==
    /\ NoThread \notin Threads
    /\ EventIds \subseteq Nat
    /\ Levels \subseteq DOMAIN SeverityRank
    /\ MaxEvents \in Nat
    /\ FloorSet \in BOOLEAN
    /\ CheckEvery \in Nat \ {0}
    /\ GapThreshold \in Nat
    /\ MaxClock \in Nat
    /\ MaxRestarts \in Nat
    /\ MaxFailures \in Nat

VARIABLES
    \* the database file: survives a crash
    events,          \* rows of table events
    coverage_gaps,   \* rows of table coverage_gaps, oldest first
    overflow_drops,  \* rows of table overflow_drops
    \* the process: lost in a crash
    proc,            \* "down", "opened" (start() still to run), "running"
    row_count,       \* _row_count, the cached COUNT(*)
    appends_since_space_check,
    halted,          \* _halted_reason is not None
    lock,            \* the thread that holds _lock, or NoThread
    pc,              \* the statement each thread is about to execute
    event,           \* the stamped event each thread is appending
    doomed,          \* rows the SELECT of _evict_locked returned
    outcome,         \* how the latest append() ended
    \* the host
    now,             \* the wall clock, which may be set back
    low,             \* free space is below min_free_bytes
    \* history, and the counters of the bounds
    inserted,        \* every row ever inserted
    lowWrites,       \* rows this process inserted since space fell below the floor
    restarts,
    crashes,
    failures

database == <<events, coverage_gaps, overflow_drops>>
memory == <<row_count, appends_since_space_check, halted>>
thread == <<lock, pc, event, doomed, outcome>>
host == <<now, low>>
history == <<inserted, lowWrites>>
counters == <<restarts, crashes, failures>>
vars == <<database, proc, memory, thread, host, history, counters>>

Clock == 0 .. MaxClock
Row == [event_id : EventIds, level : Levels, ingested_at : Clock]
NoRow == [event_id |-> -1]

\* A row of coverage_gaps: a downtime has both ends, a storage halt is open.
Gap == [kind : {"agent_downtime"}, gap_start : Clock, gap_end : Clock]
       \cup [kind : {"storage_halted"}, gap_start : Clock]

\* A row of overflow_drops: how many rows went, the window they spanned and
\* the levels they had; `rows` is the set they were, kept as history.
Drop == [event_count : Nat, oldest : Clock, newest : Clock,
         levels : SUBSET Levels, rows : SUBSET Row]

\* MIN(ingested_at) and MAX(ingested_at) of a set of rows.
IsOldest(t, R) == (\E r \in R : r.ingested_at = t) /\ \A r \in R : t <= r.ingested_at
IsNewest(t, R) == (\E r \in R : r.ingested_at = t) /\ \A r \in R : r.ingested_at <= t
-----------------------------------------------------------------------------
(***************************************************************************)
(* Eviction order and size                                                 *)
(***************************************************************************)

\* Mutant: newest rows first.
Before_NewestFirst(x, y) ==
    \/ SeverityRank[x.level] < SeverityRank[y.level]
    \/ /\ SeverityRank[x.level] = SeverityRank[y.level]
       /\ \/ x.ingested_at > y.ingested_at
          \/ x.ingested_at = y.ingested_at /\ x.event_id < y.event_id

\* ORDER BY severity ASC, ingested_at ASC, event_id ASC.
Before(x, y) ==
    \/ SeverityRank[x.level] < SeverityRank[y.level]
    \/ /\ SeverityRank[x.level] = SeverityRank[y.level]
       /\ \/ x.ingested_at < y.ingested_at
          \/ x.ingested_at = y.ingested_at /\ x.event_id < y.event_id

\* Mutant: the target is the cap itself plus the row just written.
EvictTarget_Slack == MaxEvents + 1

\* max(1, int(max_events * _EVICT_TO_RATIO)).
EvictTarget == LET share == (MaxEvents * 95) \div 100
               IN  IF share > 1 THEN share ELSE 1

\* What LIMIT n leaves of k rows, after the early return on surplus <= 0.
Limit(n, k) == IF n <= 0 THEN 0 ELSE IF n < k THEN n ELSE k

\* D is what "SELECT ... FROM R ORDER BY ... LIMIT n" returns.
FirstRows(D, R, n) ==
    /\ D \subseteq R
    /\ Cardinality(D) = Limit(n, Cardinality(R))
    /\ \A x \in D : \A y \in R \ D : Before(x, y)

\* Mutant: the window's ends are taken from the newest row.
IsDropEntry_OneEnd(d, D) ==
    /\ d.event_count = Cardinality(D)
    /\ IsNewest(d.oldest, D) /\ IsNewest(d.newest, D)
    /\ d.levels = {r.level : r \in D} /\ d.rows = D

\* d is the overflow_drops row for D: its size, its window, its levels.
IsDropEntry(d, D) ==
    /\ d.event_count = Cardinality(D)
    /\ IsOldest(d.oldest, D) /\ IsNewest(d.newest, D)
    /\ d.levels = {r.level : r \in D} /\ d.rows = D
-----------------------------------------------------------------------------
(***************************************************************************)
(* append(), statement by statement                                        *)
(***************************************************************************)

\* Mutant: an exception leaves the lock held.
Return_KeepLock(t, how) ==
    /\ pc' = [pc EXCEPT ![t] = "idle"]
    /\ lock' = IF how = "raised" THEN lock ELSE NoThread
    /\ doomed' = {}
    /\ outcome' = how
    /\ event' = [event EXCEPT ![t] = NoRow]

\* Leaving `with self._lock`, by falling off its end or by an exception.
Return(t, how) ==
    /\ pc' = [pc EXCEPT ![t] = "idle"]
    /\ lock' = NoThread
    /\ doomed' = {}
    /\ outcome' = how
    /\ event' = [event EXCEPT ![t] = NoRow]

Goto(t, label) ==
    /\ pc' = [pc EXCEPT ![t] = label]
    /\ UNCHANGED <<lock, event, doomed, outcome>>

UsedIds == {r.event_id : r \in inserted}
           \cup {event[t].event_id : t \in {u \in Threads : pc[u] # "idle"}}

\* event.enriched(ingested_at=self._clock()): before the lock is taken.
Stamp(t) ==
    /\ proc = "running" /\ pc[t] = "idle"
    /\ \E id \in EventIds \ UsedIds, l \in Levels :
          event' = [event EXCEPT ![t] =
                       [event_id |-> id, level |-> l, ingested_at |-> now]]
    /\ pc' = [pc EXCEPT ![t] = "insert"]
    /\ UNCHANGED <<database, proc, memory, lock, doomed, outcome, host, history, counters>>

\* Take the lock; INSERT INTO events.
Insert(t) ==
    /\ pc[t] = "insert" /\ lock = NoThread
    /\ lock' = t
    /\ events' = events \cup {event[t]}
    /\ inserted' = inserted \cup {event[t]}
    /\ lowWrites' = IF low THEN lowWrites + 1 ELSE lowWrites
    /\ pc' = [pc EXCEPT ![t] = "space"]
    /\ UNCHANGED <<coverage_gaps, overflow_drops, proc, memory, event, doomed,
                   outcome, host, counters>>

\* Mutant: a counter that has passed the interval never comes back to it.
CheckDue_Equal == appends_since_space_check + 1 = CheckEvery

CheckDue == appends_since_space_check + 1 >= CheckEvery

\* _check_free_space_locked up to the point where it writes.
CheckFreeSpace(t) ==
    /\ pc[t] = "space"
    /\ \/ /\ halted
          /\ Return(t, "raised")
          /\ UNCHANGED <<memory, failures>>
       \/ /\ ~halted /\ ~(FloorSet /\ CheckDue)
          /\ appends_since_space_check' =
               IF FloorSet THEN appends_since_space_check + 1 ELSE appends_since_space_check
          /\ Goto(t, "count")
          /\ UNCHANGED <<row_count, halted, failures>>
       \/ /\ ~halted /\ FloorSet /\ CheckDue /\ low
          /\ appends_since_space_check' = 0
          /\ halted' = TRUE
          /\ Goto(t, "gap")
          /\ UNCHANGED <<row_count, failures>>
       \/ /\ ~halted /\ FloorSet /\ CheckDue
          /\ \/ ~low /\ UNCHANGED failures
             \/ failures < MaxFailures /\ failures' = failures + 1 \* disk_usage raised
          /\ appends_since_space_check' = 0
          /\ Goto(t, "count")
          /\ UNCHANGED <<row_count, halted>>
    /\ UNCHANGED <<database, proc, host, history, restarts, crashes>>

\* Mutant: the halt is declared as a downtime.
RecordHalt_WrongKind(t) ==
    /\ pc[t] = "gap"
    /\ coverage_gaps' = Append(coverage_gaps, [kind |-> "agent_downtime", gap_start |-> now])
    /\ Return(t, "raised")
    /\ UNCHANGED <<events, overflow_drops, proc, memory, host, history, counters>>

\* _record_gap_locked("storage_halted"), then raise StorageHalted.
RecordHalt(t) ==
    /\ pc[t] = "gap"
    /\ coverage_gaps' = Append(coverage_gaps, [kind |-> "storage_halted", gap_start |-> now])
    /\ Return(t, "raised")
    /\ UNCHANGED <<events, overflow_drops, proc, memory, host, history, counters>>

\* _row_count += 1, and whether the cap is passed.
Count(t) ==
    /\ pc[t] = "count"
    /\ row_count' = row_count + 1
    /\ IF MaxEvents > 0 /\ row_count' > MaxEvents
          THEN Goto(t, "select")
          ELSE Return(t, "stored")
    /\ UNCHANGED <<database, proc, appends_since_space_check, halted, host, history, counters>>

Surplus == row_count - EvictTarget

\* _evict_locked: SELECT the doomed rows.
SelectDoomed(t) ==
    /\ pc[t] = "select"
    /\ \E D \in SUBSET events :
          /\ FirstRows(D, events, Surplus)
          /\ IF D = {}
                THEN Return(t, "stored")
                ELSE /\ doomed' = D
                     /\ pc' = [pc EXCEPT ![t] = "delete"]
                     /\ UNCHANGED <<lock, event, outcome>>
    /\ UNCHANGED <<database, proc, memory, host, history, counters>>

\* DELETE by a subquery of its own; the cache goes down by len(doomed).
DeleteDoomed(t) ==
    /\ pc[t] = "delete"
    /\ \E D \in SUBSET events : FirstRows(D, events, Surplus) /\ events' = events \ D
    /\ row_count' = row_count - Cardinality(doomed)
    /\ Goto(t, "record")
    /\ UNCHANGED <<coverage_gaps, overflow_drops, proc, appends_since_space_check, halted,
                   host, history, counters>>

\* Mutant: the drop is not put on record.
RecordDrop_Unrecorded(t) ==
    /\ pc[t] = "record"
    /\ Return(t, "stored")
    /\ UNCHANGED <<database, proc, memory, host, history, counters>>

\* INSERT INTO overflow_drops, and return.
RecordDrop(t) ==
    /\ pc[t] = "record"
    /\ \E oldest, newest \in Clock :
          LET d == [event_count |-> Cardinality(doomed), oldest |-> oldest, newest |-> newest,
                    levels |-> {r.level : r \in doomed}, rows |-> doomed]
          IN  IsDropEntry(d, doomed) /\ overflow_drops' = overflow_drops \cup {d}
    /\ Return(t, "stored")
    /\ UNCHANGED <<events, coverage_gaps, proc, memory, host, history, counters>>

\* The statement a thread is at raises sqlite3.Error (full or failing disk, a
\* busy database): it has no effect, and append() ends there.
StatementFails(t) ==
    /\ failures < MaxFailures
    /\ \/ pc[t] = "insert" /\ lock = NoThread
       \/ pc[t] \in {"gap", "select", "delete", "record"}
    /\ failures' = failures + 1
    /\ Return(t, "raised")
    /\ UNCHANGED <<database, proc, memory, host, history, restarts, crashes>>

AppendStep(t) ==
    \/ Insert(t) \/ CheckFreeSpace(t) \/ RecordHalt(t) \/ Count(t)
    \/ SelectDoomed(t) \/ DeleteDoomed(t) \/ RecordDrop(t) \/ StatementFails(t)
-----------------------------------------------------------------------------
(***************************************************************************)
(* Life of the process, and the host                                       *)
(***************************************************************************)

\* Mutant: the cache starts from zero instead of from COUNT( * ).
CountRows_Zero == 0

CountRows == Cardinality(events)

\* EventStore.__init__: the first append is to check the free space.
Open ==
    /\ proc = "down"
    /\ proc' = "opened"
    /\ row_count' = CountRows
    /\ appends_since_space_check' = CheckEvery
    /\ halted' = FALSE
    /\ UNCHANGED <<database, thread, host, history, counters>>

\* Mutant: the outage is measured from the oldest row.
LastRecorded_Oldest(t) == IsOldest(t, events)

\* SELECT MAX(ingested_at) FROM events.
LastRecorded(t) == IsNewest(t, events)

\* detect_downtime(), called once by AgentRunner.start(), which swallows a
\* failure of the statement and goes on without the mark.
DetectDowntime ==
    /\ proc = "opened"
    /\ proc' = "running"
    /\ \/ /\ events = {}
          /\ UNCHANGED <<coverage_gaps, failures>>
       \/ /\ \E last \in Clock :
                /\ LastRecorded(last)
                /\ coverage_gaps' =
                     IF now - last < GapThreshold THEN coverage_gaps
                     ELSE Append(coverage_gaps, [kind |-> "agent_downtime",
                                                 gap_start |-> last, gap_end |-> now])
          /\ UNCHANGED failures
       \/ /\ failures < MaxFailures /\ failures' = failures + 1
          /\ UNCHANGED coverage_gaps
    /\ UNCHANGED <<events, overflow_drops, memory, thread, host, history, restarts, crashes>>

Forget ==
    /\ proc' = "down"
    /\ row_count' = 0 /\ appends_since_space_check' = 0 /\ halted' = FALSE
    /\ lock' = NoThread /\ doomed' = {} /\ outcome' = "none"
    /\ pc' = [t \in Threads |-> "idle"]
    /\ event' = [t \in Threads |-> NoRow]
    /\ lowWrites' = 0

\* close(), once no append is under way.
Close ==
    /\ proc = "running" /\ \A t \in Threads : pc[t] = "idle"
    /\ restarts < MaxRestarts /\ restarts' = restarts + 1
    /\ Forget
    /\ UNCHANGED <<database, host, inserted, crashes, failures>>

\* kill -9 or a power cut: committed statements stay, everything else is gone.
Crash ==
    /\ proc # "down"
    /\ restarts < MaxRestarts /\ restarts' = restarts + 1
    /\ crashes' = crashes + 1
    /\ Forget
    /\ UNCHANGED <<database, host, inserted, failures>>

\* The wall clock advances or is set, forwards or back.
SetClock ==
    /\ now' \in Clock \ {now}
    /\ UNCHANGED <<database, proc, memory, thread, low, history, counters>>

\* Free space crosses the floor.
DiskChanges ==
    /\ low' = ~low
    /\ lowWrites' = 0
    /\ UNCHANGED <<database, proc, memory, thread, now, inserted, counters>>

Init ==
    /\ events = {} /\ coverage_gaps = <<>> /\ overflow_drops = {}
    /\ proc = "down"
    /\ row_count = 0 /\ appends_since_space_check = 0 /\ halted = FALSE
    /\ lock = NoThread /\ doomed = {} /\ outcome = "none"
    /\ pc = [t \in Threads |-> "idle"]
    /\ event = [t \in Threads |-> NoRow]
    /\ now = 0 /\ low = FALSE
    /\ inserted = {} /\ lowWrites = 0
    /\ restarts = 0 /\ crashes = 0 /\ failures = 0

Next ==
    \/ \E t \in Threads : Stamp(t) \/ AppendStep(t)
    \/ Open \/ DetectDowntime \/ Close \/ Crash \/ SetClock \/ DiskChanges

Spec == Init /\ [][Next]_vars
-----------------------------------------------------------------------------
(***************************************************************************)
(* Properties                                                              *)
(***************************************************************************)

Holding == {"space", "gap", "count", "select", "delete", "record"}

\* Type invariant of the database, the EventStore object and its threads.
TypeOK ==
    /\ events \in SUBSET Row /\ inserted \in SUBSET Row
    /\ coverage_gaps \in Seq(Gap)
    /\ overflow_drops \in SUBSET Drop
    /\ proc \in {"down", "opened", "running"}
    /\ row_count \in Int
    /\ appends_since_space_check \in 0 .. CheckEvery
    /\ halted \in BOOLEAN
    /\ lock \in Threads \cup {NoThread}
    /\ pc \in [Threads -> {"idle", "insert"} \cup Holding]
    /\ event \in [Threads -> Row \cup {NoRow}]
    /\ doomed \in SUBSET Row
    /\ outcome \in {"none", "stored", "raised"}
    /\ now \in Clock /\ low \in BOOLEAN
    /\ lowWrites \in Nat /\ restarts \in Nat /\ crashes \in Nat /\ failures \in Nat

\* The statements under the lock are one thread's at a time, and every return
\* and exception gives the lock back.
LockDiscipline == \A t \in Threads : lock = t <=> pc[t] \in Holding

\* The cached _row_count, which the cap is enforced with, equals COUNT( * )
\* whenever no append is under way, after crashes and failing statements too;
\* a halted store is the exception (append() writes rows and never counts them).
RowCountExact ==
    proc # "down" /\ lock = NoThread /\ ~halted => row_count = Cardinality(events)

\* When append() returned normally the table is within max_events, however
\* large it had grown while halted or under another cap.
CapRespected ==
    MaxEvents > 0 /\ lock = NoThread /\ outcome = "stored" => Cardinality(events) <= MaxEvents

\* _evict_locked deletes exactly the rows it read, leaves exactly the target,
\* and keeps no row that is less severe, or as severe and older, than one it
\* drops.  The drop is logged from the rows read, so both must be the same.
EvictionExact ==
    \A t \in Threads : pc[t] = "record" =>
        /\ Cardinality(events) = EvictTarget
        /\ events \cap doomed = {}
        /\ \A x \in doomed, y \in events :
              \/ SeverityRank[x.level] < SeverityRank[y.level]
              \/ /\ SeverityRank[x.level] = SeverityRank[y.level]
                 /\ x.ingested_at <= y.ingested_at

InFlight == IF \E t \in Threads : pc[t] = "record" THEN doomed ELSE {}

DeclaredIn(e, d) == d.oldest <= e.ingested_at /\ e.ingested_at <= d.newest /\ e.level \in d.levels

\* Every event ever stored is still in the table or lies, stamp and level, in
\* a window that overflow_drops declares ("every drop is recorded in
\* overflow_drops").
EveryDropRecorded ==
    \A e \in inserted \ (events \cup InFlight) : \E d \in overflow_drops : DeclaredIn(e, d)

\* EveryDropRecorded, as long as no statement failed and no process was killed.
LossesDeclared == failures = 0 /\ crashes = 0 => EveryDropRecorded

\* A halt is on the record: the latest declared gap is the halt of this very
\* process, unless the INSERT that declares it failed.
HaltOnRecord ==
    halted /\ lock = NoThread /\ failures = 0 =>
        /\ coverage_gaps # <<>>
        /\ coverage_gaps[Len(coverage_gaps)].kind = "storage_halted"

\* Before it halts, a process writes at most CheckEvery rows below the floor.
OvershootBounded == FloorSet /\ ~halted /\ failures = 0 => lowWrites <= CheckEvery

UniformLevels == \A x, y \in inserted : x.level = y.level

\* While every event has the same level (as today, when nothing is scored),
\* nothing was ever recorded after the start of a declared downtime ("Periods
\* where the agent recorded nothing"): eviction has not taken the latest row.
DowntimeIsReal ==
    [][proc = "opened" /\ Len(coverage_gaps') > Len(coverage_gaps) /\ UniformLevels =>
         \A e \in inserted : e.ingested_at <= coverage_gaps'[Len(coverage_gaps')].gap_start]_vars

\* A halted store writes no more events ("Nothing further is being captured").
NothingCapturedWhileHalted == [][halted => events' \subseteq events]_vars
-----------------------------------------------------------------------------
(***************************************************************************)
(* The store implements RecordedLog: a batch counts as dropped when it is  *)
(* declared, or when the process that was to declare it cannot any more.   *)
(***************************************************************************)

Declared == UNION {d.rows : d \in overflow_drops}

OverCap(R) == MaxEvents > 0 /\ Cardinality(R) > MaxEvents

Log == INSTANCE RecordedLog WITH
         table <- events \cup InFlight, declared <- Declared, faults <- failures + crashes

\* Every step of the store is a step of RecordedLog or invisible to it: rows
\* leave only in eviction order, over the cap, and declared, except that one
\* fault may lose the declaration of one batch.
ImplementsRecordedLog == Log!Spec
=============================================================================
