-------------------------- MODULE EventStoreProofs --------------------------
(***************************************************************************)
(* Proofs of the safety properties of EventStore, for every value of its   *)
(* constants: any number of threads, events, levels and failures, any cap, *)
(* any checking period.                                                    *)
(***************************************************************************)
EXTENDS EventStore, FiniteSetTheorems, TLAPS

(***************************************************************************)
(* Lemmas about the operators of the model                                 *)
(***************************************************************************)

\* Eviction leaves at least one row and never more than the cap.
LEMMA EvictTargetBounds ==
    /\ EvictTarget \in Nat /\ EvictTarget >= 1
    /\ MaxEvents > 0 => EvictTarget <= MaxEvents
BY ConstantsAssumption DEF EvictTarget

\* The ORDER BY of eviction is a strict order of the rows.
LEMMA BeforeAsymmetric ==
    ASSUME NEW x \in Row, NEW y \in Row, Before(x, y), Before(y, x)
    PROVE  FALSE
<1>1. SeverityRank[x.level] \in Nat /\ SeverityRank[y.level] \in Nat
  BY ConstantsAssumption DEF Row, SeverityRank
<1>2. x.ingested_at \in Nat /\ y.ingested_at \in Nat
  BY ConstantsAssumption DEF Row, Clock
<1>3. x.event_id \in Nat /\ y.event_id \in Nat
  BY ConstantsAssumption DEF Row
<1> QED BY <1>1, <1>2, <1>3 DEF Before

\* What remains of a finite set, counted.
LEMMA CardinalityRemainder ==
    ASSUME NEW R, IsFiniteSet(R), NEW D, D \subseteq R
    PROVE  /\ IsFiniteSet(D) /\ IsFiniteSet(R \ D)
           /\ Cardinality(R \ D) = Cardinality(R) - Cardinality(D)
           /\ Cardinality(D) \in Nat /\ Cardinality(R) \in Nat
           /\ Cardinality(D) <= Cardinality(R)
<1>1. IsFiniteSet(D) /\ Cardinality(D) <= Cardinality(R)
  BY FS_Subset
<1>2. IsFiniteSet(R \ D) /\ Cardinality(R \ D) = Cardinality(R) - Cardinality(R \cap D)
  BY FS_Difference, <1>1
<1>3. R \cap D = D
  OBVIOUS
<1> QED BY <1>1, <1>2, <1>3, FS_CardinalityType

\* Two queries for the first n rows of one table return the same rows: what
\* the comment in _evict_locked relies on between its SELECT and its DELETE.
LEMMA FirstRowsUnique ==
    ASSUME NEW R \in SUBSET Row, IsFiniteSet(R), NEW n \in Int,
           NEW D, NEW E, FirstRows(D, R, n), FirstRows(E, R, n)
    PROVE  D = E
<1>1. D \subseteq R /\ E \subseteq R /\ Cardinality(D) = Cardinality(E)
  BY DEF FirstRows
<1>2. D \subseteq E \/ E \subseteq D
  <2>1. SUFFICES ASSUME NEW x \in D \ E, NEW y \in E \ D PROVE FALSE
    OBVIOUS
  <2>2. Before(x, y) /\ Before(y, x)
    BY <2>1, <1>1 DEF FirstRows
  <2>3. x \in Row /\ y \in Row
    BY <1>1
  <2> QED BY <2>2, <2>3, BeforeAsymmetric
<1>3. IsFiniteSet(D) /\ IsFiniteSet(E)
  BY <1>1, FS_Subset
<1> QED BY <1>1, <1>2, <1>3, FS_Subset

-----------------------------------------------------------------------------
(***************************************************************************)
(* Layer 1: types and control.  A thread past Stamp has an event; only a   *)
(* running process has threads in append().                                *)
(***************************************************************************)

Control ==
    /\ TypeOK
    /\ LockDiscipline
    /\ IsFiniteSet(events) /\ IsFiniteSet(doomed)
    /\ \A t \in Threads : pc[t] # "idle" => proc = "running" /\ event[t] \in Row

LEMMA ControlInit == Init => Control
<1> SUFFICES ASSUME Init PROVE Control
  OBVIOUS
<1>1. TypeOK
  <2>1. now \in Clock /\ lowWrites \in Nat /\ restarts \in Nat /\ crashes \in Nat
        /\ failures \in Nat /\ row_count \in Int /\ appends_since_space_check \in 0 .. CheckEvery
    BY ConstantsAssumption DEF Init, Clock
  <2>2. halted \in BOOLEAN /\ low \in BOOLEAN
    BY Zenon DEF Init
  <2>3. coverage_gaps \in Seq(Gap)
    BY DEF Init
  <2>4. /\ pc \in [Threads -> {"idle", "insert"} \cup Holding]
        /\ event \in [Threads -> Row \cup {NoRow}]
        /\ lock \in Threads \cup {NoThread} /\ outcome \in {"none", "stored", "raised"}
        /\ proc \in {"down", "opened", "running"}
    BY DEF Init
  <2>5. /\ events \in SUBSET Row /\ inserted \in SUBSET Row /\ overflow_drops \in SUBSET Drop
        /\ doomed \in SUBSET Row
    BY DEF Init
  <2> QED BY <2>1, <2>2, <2>3, <2>4, <2>5, Zenon DEF TypeOK
<1>2. IsFiniteSet(events) /\ IsFiniteSet(doomed)
  BY FS_EmptySet DEF Init
<1> QED BY <1>1, <1>2, ConstantsAssumption DEF Init, Control, LockDiscipline, Holding

\* Return and Goto keep the control state well formed.
LEMMA ControlReturn ==
    ASSUME Control, NEW t \in Threads, NEW how \in {"stored", "raised"},
           pc[t] \in Holding \/ lock = NoThread, Return(t, how)
    PROVE  /\ pc' \in [Threads -> {"idle", "insert"} \cup Holding]
           /\ event' \in [Threads -> Row \cup {NoRow}]
           /\ lock' \in Threads \cup {NoThread}
           /\ doomed' \in SUBSET Row /\ IsFiniteSet(doomed')
           /\ outcome' \in {"none", "stored", "raised"}
           /\ LockDiscipline'
           /\ \A u \in Threads : pc'[u] # "idle" => proc = "running" /\ event'[u] \in Row
BY ConstantsAssumption, FS_EmptySet DEF Control, TypeOK, LockDiscipline, Return, Holding

LEMMA ControlGoto ==
    ASSUME Control, NEW t \in Threads, NEW label \in Holding, pc[t] \in Holding, Goto(t, label)
    PROVE  /\ pc' \in [Threads -> {"idle", "insert"} \cup Holding]
           /\ UNCHANGED <<lock, event, doomed, outcome>>
           /\ LockDiscipline'
           /\ \A u \in Threads : pc'[u] # "idle" => proc = "running" /\ event'[u] \in Row
BY DEF Control, TypeOK, LockDiscipline, Goto, Holding

LEMMA ControlForget ==
    ASSUME Control, Forget
    PROVE  /\ pc' \in [Threads -> {"idle", "insert"} \cup Holding]
           /\ event' \in [Threads -> Row \cup {NoRow}]
           /\ lock' \in Threads \cup {NoThread} /\ proc' \in {"down", "opened", "running"}
           /\ doomed' \in SUBSET Row /\ IsFiniteSet(doomed')
           /\ outcome' \in {"none", "stored", "raised"}
           /\ row_count' \in Int /\ appends_since_space_check' \in 0 .. CheckEvery
           /\ halted' \in BOOLEAN /\ lowWrites' \in Nat
           /\ LockDiscipline'
           /\ \A u \in Threads : pc'[u] = "idle"
<1>1. halted' \in BOOLEAN
  BY Zenon DEF Forget
<1>2. row_count' \in Int /\ appends_since_space_check' \in 0 .. CheckEvery /\ lowWrites' \in Nat
  BY ConstantsAssumption DEF Forget
<1> QED BY <1>1, <1>2, ConstantsAssumption, FS_EmptySet DEF Forget, LockDiscipline, Holding

LEMMA ControlStep == Control /\ [Next]_vars => Control'
<1> SUFFICES ASSUME Control, [Next]_vars PROVE Control'
  OBVIOUS
<1> USE DEF Control
<1>1. ASSUME NEW t \in Threads, Stamp(t) PROVE Control'
  <2>1. PICK id \in EventIds \ UsedIds, l \in Levels :
          event' = [event EXCEPT ![t] = [event_id |-> id, level |-> l, ingested_at |-> now]]
    BY <1>1 DEF Stamp
  <2>2. [event_id |-> id, level |-> l, ingested_at |-> now] \in Row
    BY <2>1 DEF TypeOK, Row
  <2>3. event' \in [Threads -> Row \cup {NoRow}] /\ event'[t] \in Row
    BY <2>1, <2>2 DEF TypeOK
  <2> QED BY <1>1, <2>1, <2>3 DEF Stamp, TypeOK, LockDiscipline, Holding, database, memory,
             host, history, counters
<1>2. ASSUME NEW t \in Threads, Insert(t) PROVE Control'
  <2>1. events' \in SUBSET Row /\ inserted' \in SUBSET Row
    BY <1>2 DEF Insert, TypeOK
  <2>2. IsFiniteSet(events')
    BY <1>2, FS_AddElement DEF Insert
  <2>3. lowWrites' \in Nat
    BY <1>2 DEF Insert, TypeOK
  <2>4. LockDiscipline' /\ lock' \in Threads \cup {NoThread}
        /\ pc' \in [Threads -> {"idle", "insert"} \cup Holding]
    BY <1>2, ConstantsAssumption DEF Insert, TypeOK, LockDiscipline, Holding
  <2>5. \A u \in Threads : pc'[u] # "idle" => proc' = "running" /\ event'[u] \in Row
    BY <1>2 DEF Insert, TypeOK
  <2> QED BY <1>2, <2>1, <2>2, <2>3, <2>4, <2>5 DEF Insert, TypeOK, memory, host, counters
<1>3. ASSUME NEW t \in Threads, CheckFreeSpace(t) PROVE Control'
  <2>0. pc[t] \in Holding
    BY <1>3 DEF CheckFreeSpace, Holding
  <2>1. CASE halted /\ Return(t, "raised") /\ UNCHANGED <<memory, failures>>
    BY <1>3, <2>0, <2>1, ControlReturn
       DEF CheckFreeSpace, TypeOK, memory, database, host, history
  <2>2. ASSUME NEW label \in {"count", "gap"}, Goto(t, label) PROVE Control'
    <3>0. halted' \in BOOLEAN
      BY <1>3, Zenon DEF CheckFreeSpace, TypeOK, memory
    <3>1. appends_since_space_check' \in 0 .. CheckEvery
          /\ failures' \in Nat /\ row_count' \in Int
      BY <1>3, ConstantsAssumption DEF CheckFreeSpace, CheckDue, TypeOK, memory
    <3>2. label \in Holding
      BY DEF Holding
    <3> HIDE DEF Control
    <3>3. /\ pc' \in [Threads -> {"idle", "insert"} \cup Holding]
          /\ UNCHANGED <<lock, event, doomed, outcome>>
          /\ LockDiscipline'
          /\ \A u \in Threads : pc'[u] # "idle" => proc = "running" /\ event'[u] \in Row
      BY <2>0, <2>2, <3>2, ControlGoto
    <3> QED BY <1>3, <3>0, <3>1, <3>3 DEF CheckFreeSpace, TypeOK, database, host, history, Control
  <2> QED BY <1>3, <2>1, <2>2 DEF CheckFreeSpace
<1>4. ASSUME NEW t \in Threads, RecordHalt(t) PROVE Control'
  <2>1. [kind |-> "storage_halted", gap_start |-> now] \in Gap
    BY DEF Gap, TypeOK
  <2>2. coverage_gaps' \in Seq(Gap)
    BY <1>4, <2>1 DEF RecordHalt, TypeOK
  <2> QED BY <1>4, <2>2, ControlReturn DEF RecordHalt, Holding, TypeOK, memory, host, history, counters
<1>5. ASSUME NEW t \in Threads, Count(t) PROVE Control'
  <2>1. row_count' \in Int
    BY <1>5 DEF Count, TypeOK
  <2>2. CASE Goto(t, "select")
    BY <1>5, <2>1, <2>2, ControlGoto DEF Count, Holding, TypeOK, database, host, history, counters
  <2>3. CASE Return(t, "stored")
    BY <1>5, <2>1, <2>3, ControlReturn DEF Count, Holding, TypeOK, database, host, history, counters
  <2> QED BY <1>5, <2>2, <2>3 DEF Count
<1>6. ASSUME NEW t \in Threads, SelectDoomed(t) PROVE Control'
  <2>1. CASE Return(t, "stored")
    BY <1>6, <2>1, ControlReturn
       DEF SelectDoomed, Holding, TypeOK, database, memory, host, history, counters
  <2>2. ASSUME NEW D \in SUBSET events, doomed' = D, pc' = [pc EXCEPT ![t] = "delete"],
               UNCHANGED <<lock, event, outcome>>
        PROVE  Control'
    <3>1. doomed' \in SUBSET Row /\ IsFiniteSet(doomed')
      BY <2>2, FS_Subset DEF TypeOK
    <3> QED BY <1>6, <2>2, <3>1 DEF SelectDoomed, LockDiscipline, Holding, TypeOK, database,
               memory, host, history, counters
  <2> QED BY <1>6, <2>1, <2>2 DEF SelectDoomed
<1>7. ASSUME NEW t \in Threads, DeleteDoomed(t) PROVE Control'
  <2>1. PICK D \in SUBSET events : events' = events \ D
    BY <1>7 DEF DeleteDoomed
  <2>2. events' \in SUBSET Row /\ IsFiniteSet(events')
    BY <2>1, FS_Subset DEF TypeOK
  <2>3. row_count' \in Int
    BY <1>7, FS_CardinalityType DEF DeleteDoomed, TypeOK
  <2> QED BY <1>7, <2>2, <2>3, ControlGoto DEF DeleteDoomed, Holding, TypeOK, host, history, counters
<1>8. ASSUME NEW t \in Threads, RecordDrop(t) PROVE Control'
  <2>1. overflow_drops' \in SUBSET Drop
    <3>1. PICK oldest \in Clock, newest \in Clock :
            overflow_drops' = overflow_drops \cup
               {[event_count |-> Cardinality(doomed), oldest |-> oldest, newest |-> newest,
                 levels |-> {r.level : r \in doomed}, rows |-> doomed]}
      BY <1>8 DEF RecordDrop
    <3>2. {r.level : r \in doomed} \in SUBSET Levels
      BY DEF TypeOK, Row
    <3>3. Cardinality(doomed) \in Nat /\ doomed \in SUBSET Row
      BY FS_CardinalityType DEF TypeOK
    <3> QED BY <3>1, <3>2, <3>3 DEF Drop, TypeOK
  <2> QED BY <1>8, <2>1, ControlReturn DEF RecordDrop, Holding, TypeOK, memory, host, history, counters
<1>9. ASSUME NEW t \in Threads, StatementFails(t) PROVE Control'
  BY <1>9, ControlReturn
     DEF StatementFails, Holding, TypeOK, database, memory, host, history
<1>10. CASE Open
  <2>1. halted' \in BOOLEAN
    BY <1>10, Zenon DEF Open
  <2>2. row_count' \in Int /\ appends_since_space_check' \in 0 .. CheckEvery
    BY <1>10, FS_CardinalityType, ConstantsAssumption DEF Open, CountRows
  <2> QED BY <1>10, <2>1, <2>2
          DEF Open, TypeOK, LockDiscipline, database, thread, host, history, counters
<1>11. CASE DetectDowntime
  <2>1. coverage_gaps' \in Seq(Gap)
    <3>1. ASSUME NEW last \in Clock
          PROVE  [kind |-> "agent_downtime", gap_start |-> last, gap_end |-> now] \in Gap
      BY DEF Gap, TypeOK
    <3>2. ASSUME NEW last \in Clock
          PROVE  Append(coverage_gaps, [kind |-> "agent_downtime", gap_start |-> last,
                                        gap_end |-> now]) \in Seq(Gap)
      BY <3>1 DEF TypeOK
    <3> QED BY <1>11, <3>2 DEF DetectDowntime, TypeOK
  <2>2. failures' \in Nat
    BY <1>11 DEF DetectDowntime, TypeOK
  <2> QED BY <1>11, <2>1, <2>2
          DEF DetectDowntime, TypeOK, LockDiscipline, memory, thread, host, history
<1>12. CASE Close
  BY <1>12, ControlForget DEF Close, TypeOK, database, host
<1>13. CASE Crash
  BY <1>13, ControlForget DEF Crash, TypeOK, database, host
<1>14. CASE SetClock
  BY <1>14 DEF SetClock, TypeOK, LockDiscipline, database, memory, thread, history, counters
<1>15. CASE DiskChanges
  BY <1>15 DEF DiskChanges, TypeOK, LockDiscipline, database, memory, thread, counters
<1>16. CASE UNCHANGED vars
  BY <1>16 DEF vars, TypeOK, LockDiscipline, database, memory, thread, host, history, counters
<1> QED
  BY <1>1, <1>2, <1>3, <1>4, <1>5, <1>6, <1>7, <1>8, <1>9, <1>10, <1>11, <1>12, <1>13,
     <1>14, <1>15, <1>16 DEF Next, AppendStep

LEMMA ControlInvariant == Spec => []Control
BY ControlInit, ControlStep, PTL DEF Spec

\* The database, the object and its threads keep their types (TypeOK).
THEOREM TypeCorrect == Spec => []TypeOK
BY ControlInvariant, PTL DEF Control

\* One thread at a time is inside the critical section of append(), and no
\* early return or exception keeps the lock (LockDiscipline).
THEOREM LockCorrect == Spec => []LockDiscipline
BY ControlInvariant, PTL DEF Control
-----------------------------------------------------------------------------
(***************************************************************************)
(* Layer 2: which threads may run next.  An event about to be inserted is  *)
(* new; a halted store has no thread beyond the space check.               *)
(***************************************************************************)

Fresh ==
    /\ events \subseteq inserted
    /\ \A t \in Threads : pc[t] = "insert" =>
          \A r \in inserted : r.event_id # event[t].event_id
    /\ \A t, u \in Threads : t # u /\ pc[t] = "insert" /\ pc[u] = "insert" =>
          event[t].event_id # event[u].event_id

\* Steps that insert nothing and stamp nothing keep Fresh.
LEMMA FreshFrame ==
    ASSUME Fresh, events' \subseteq events, inserted' = inserted,
           \A u \in Threads : pc'[u] = "insert" => pc[u] = "insert" /\ event'[u] = event[u]
    PROVE  Fresh'
BY DEF Fresh

LEMMA FreshStep == Control /\ Fresh /\ [Next]_vars => Fresh'
<1> SUFFICES ASSUME Control, Fresh, [Next]_vars PROVE Fresh'
  OBVIOUS
<1>0. pc \in [Threads -> {"idle", "insert"} \cup Holding]
      /\ event \in [Threads -> Row \cup {NoRow}]
  BY DEF Control, TypeOK
<1>1. ASSUME NEW t \in Threads, Stamp(t) PROVE Fresh'
  <2>1. PICK id \in EventIds \ UsedIds, l \in Levels :
          event' = [event EXCEPT ![t] = [event_id |-> id, level |-> l, ingested_at |-> now]]
    BY <1>1 DEF Stamp
  <2>2. event'[t].event_id = id /\ \A u \in Threads : u # t => event'[u] = event[u]
    BY <1>0, <2>1
  <2>3. \A r \in inserted : r.event_id # id
    BY <2>1 DEF UsedIds
  <2>4. \A u \in Threads : pc[u] = "insert" => event[u].event_id # id
    BY <2>1 DEF UsedIds
  <2> QED BY <1>0, <1>1, <2>2, <2>3, <2>4 DEF Stamp, Fresh, database, history
<1>2. ASSUME NEW t \in Threads, Insert(t) PROVE Fresh'
  <2>1. events' = events \cup {event[t]} /\ inserted' = inserted \cup {event[t]}
        /\ event' = event /\ pc[t] = "insert"
    BY <1>2 DEF Insert
  <2>2. \A u \in Threads : pc'[u] = "insert" => u # t /\ pc[u] = "insert"
    BY <1>0, <1>2 DEF Insert
  <2> QED BY <2>1, <2>2 DEF Fresh
<1>3. ASSUME NEW t \in Threads, NEW how, Return(t, how), events' = events, inserted' = inserted
      PROVE  Fresh'
  BY <1>0, <1>3, FreshFrame DEF Return
<1>4. ASSUME NEW t \in Threads, NEW label \in Holding, Goto(t, label), events' \subseteq events,
             inserted' = inserted
      PROVE  Fresh'
  BY <1>0, <1>4, FreshFrame DEF Goto, Holding
<1>5. ASSUME NEW t \in Threads, SelectDoomed(t) PROVE Fresh'
  BY <1>0, <1>5, <1>3, FreshFrame DEF SelectDoomed, database, history
<1>6. ASSUME NEW t \in Threads, AppendStep(t), ~Insert(t), ~SelectDoomed(t) PROVE Fresh'
  BY <1>6, <1>3, <1>4 DEF AppendStep, CheckFreeSpace, RecordHalt, Count, DeleteDoomed,
     RecordDrop, StatementFails, Holding, database, history
<1>7. CASE Close \/ Crash
  BY <1>7, FreshFrame DEF Close, Crash, Forget, database
<1>8. CASE Open \/ DetectDowntime \/ SetClock \/ DiskChanges \/ UNCHANGED vars
  BY <1>8, FreshFrame DEF Open, DetectDowntime, SetClock, DiskChanges, vars, database, thread,
     history
<1> QED BY <1>1, <1>2, <1>5, <1>6, <1>7, <1>8 DEF Next, AppendStep

HaltControl ==
    /\ proc # "running" => ~halted
    /\ \A t \in Threads : pc[t] = "gap" => halted
    /\ \A t \in Threads : pc[t] \in {"count", "select", "delete", "record"} => ~halted

LEMMA HaltControlStep == Control /\ HaltControl /\ [Next]_vars => HaltControl'
<1> SUFFICES ASSUME Control, HaltControl, [Next]_vars PROVE HaltControl'
  OBVIOUS
<1>0. pc \in [Threads -> {"idle", "insert"} \cup Holding]
      /\ \A t, u \in Threads : pc[t] \in Holding /\ pc[u] \in Holding => t = u
  BY DEF Control, TypeOK, LockDiscipline
<1>1. ASSUME NEW t \in Threads, NEW how, Return(t, how), halted' = halted, proc' = proc
      PROVE  HaltControl'
  BY <1>0, <1>1 DEF Return, HaltControl
<1>2. ASSUME NEW t \in Threads, NEW label \in {"count", "select", "record"}, Goto(t, label),
             ~halted, halted' = halted, proc' = proc
      PROVE  HaltControl'
  BY <1>0, <1>2 DEF Goto, HaltControl
<1>3. ASSUME NEW t \in Threads, Stamp(t) PROVE HaltControl'
  BY <1>0, <1>3 DEF Stamp, HaltControl, memory
<1>4. ASSUME NEW t \in Threads, Insert(t) PROVE HaltControl'
  BY <1>0, <1>4 DEF Insert, HaltControl, memory
<1>5. ASSUME NEW t \in Threads, CheckFreeSpace(t) PROVE HaltControl'
  <2>1. CASE halted' = TRUE /\ Goto(t, "gap")
    <3>1. \A u \in Threads : u # t => pc'[u] = pc[u] /\ pc[u] \notin Holding
      BY <1>0, <1>5, <2>1 DEF CheckFreeSpace, Goto, Holding
    <3>2. pc'[t] = "gap" /\ proc' = "running" /\ halted'
      BY <1>0, <1>5, <2>1 DEF CheckFreeSpace, Goto, Control, HaltControl
    <3> QED BY <3>1, <3>2 DEF HaltControl, Holding
  <2> QED BY <1>1, <1>2, <1>5, <2>1 DEF CheckFreeSpace, memory
<1>6. ASSUME NEW t \in Threads, SelectDoomed(t) PROVE HaltControl'
  BY <1>0, <1>1, <1>6 DEF SelectDoomed, HaltControl, memory
<1>7. ASSUME NEW t \in Threads,
             RecordHalt(t) \/ Count(t) \/ DeleteDoomed(t) \/ RecordDrop(t) \/ StatementFails(t)
      PROVE  HaltControl'
  BY <1>1, <1>2, <1>7 DEF RecordHalt, Count, DeleteDoomed, RecordDrop, StatementFails, HaltControl,
     memory
<1>8. CASE Close \/ Crash \/ Open
  <2>1. ~halted'
    BY <1>8 DEF Close, Crash, Open, Forget
  <2>2. \A t \in Threads : pc'[t] # "gap"
    BY <1>8 DEF Close, Crash, Open, Forget, thread, Control, LockDiscipline
  <2> QED BY <2>1, <2>2 DEF HaltControl
<1>9. CASE DetectDowntime \/ SetClock \/ DiskChanges \/ UNCHANGED vars
  BY <1>9 DEF DetectDowntime, SetClock, DiskChanges, vars, thread, memory, HaltControl
<1> QED BY <1>3, <1>4, <1>5, <1>6, <1>7, <1>8, <1>9 DEF Next, AppendStep
-----------------------------------------------------------------------------
(***************************************************************************)
(* Layer 3: the cached row count and eviction.  Between the INSERT and the *)
(* increment the cache is one behind; from the SELECT on it is exact, which*)
(* is what makes the surplus right.                                        *)
(***************************************************************************)

Counting ==
    /\ RowCountExact
    /\ \A t \in Threads : pc[t] \in {"space", "count"} /\ ~halted =>
          row_count = Cardinality(events) - 1
    /\ \A t \in Threads : pc[t] \in {"select", "delete", "record"} =>
          row_count = Cardinality(events)

Evicting ==
    /\ \A t \in Threads : pc[t] \in {"select", "delete"} => MaxEvents > 0 /\ row_count > MaxEvents
    /\ \A t \in Threads : pc[t] = "delete" =>
          doomed # {} /\ FirstRows(doomed, events, Surplus)
    /\ \A t \in Threads : pc[t] = "record" =>
          /\ MaxEvents > 0 /\ doomed # {} /\ doomed \subseteq inserted
          /\ Cardinality(events \cup doomed) > MaxEvents
          /\ Cardinality(events) = EvictTarget
          /\ events \cap doomed = {}
          /\ \A x \in doomed, y \in events : Before(x, y)

Base == Control /\ Fresh /\ HaltControl

\* Steps of the lock holder see all other threads outside the lock.
LEMMA OthersOutside ==
    ASSUME Control, NEW t \in Threads, NEW u \in Threads, u # t, pc[t] \in Holding
    PROVE  pc[u] \in {"idle", "insert"}
BY DEF Control, TypeOK, LockDiscipline

\* The rows _evict_locked selects are exactly the surplus, and one at least stays.
LEMMA SurplusRows ==
    ASSUME Control, NEW D, FirstRows(D, events, Surplus), MaxEvents > 0,
           row_count > MaxEvents, row_count = Cardinality(events)
    PROVE  /\ D # {} /\ D \subseteq events /\ IsFiniteSet(D)
           /\ Cardinality(D) = Surplus /\ Surplus \in Nat
           /\ Cardinality(events \ D) = EvictTarget
<1>1. IsFiniteSet(events) /\ D \subseteq events /\ row_count \in Int
  BY DEF Control, TypeOK, FirstRows
<1>2. /\ IsFiniteSet(D) /\ Cardinality(events) \in Nat
      /\ Cardinality(events \ D) = Cardinality(events) - Cardinality(D)
  BY <1>1, CardinalityRemainder
<1>3. Surplus > 0 /\ Surplus < Cardinality(events) /\ Surplus \in Nat
  BY <1>1, EvictTargetBounds, ConstantsAssumption DEF Surplus
<1>4. Cardinality(D) = Surplus
  BY <1>2, <1>3 DEF FirstRows, Limit
<1>5. D # {}
  BY <1>3, <1>4, FS_EmptySet
<1>6. Cardinality(events \ D) = EvictTarget
  BY <1>1, <1>2, <1>4, EvictTargetBounds DEF Surplus
<1> QED BY <1>1, <1>2, <1>3, <1>4, <1>5, <1>6

\* A new row makes the table one larger.
LEMMA InsertCounts ==
    ASSUME Base, NEW t \in Threads, Insert(t)
    PROVE  Cardinality(events') = Cardinality(events) + 1 /\ Cardinality(events) \in Nat
<1>1. event[t] \notin events
  BY DEF Base, Fresh, Insert
<1>2. IsFiniteSet(events) /\ events' = events \cup {event[t]}
  BY DEF Base, Control, Insert
<1> QED BY <1>1, <1>2, FS_AddElement, FS_CardinalityType

\* The DELETE removes the rows that were read.
LEMMA DeleteCounts ==
    ASSUME Base, Counting, Evicting, NEW t \in Threads, DeleteDoomed(t)
    PROVE  /\ events' = events \ doomed /\ doomed # {} /\ doomed \subseteq events
           /\ Cardinality(events') = EvictTarget /\ row_count' = EvictTarget
           /\ MaxEvents > 0 /\ Cardinality(events' \cup doomed) > MaxEvents
           /\ \A x \in doomed, y \in events' : Before(x, y)
<1>1. /\ FirstRows(doomed, events, Surplus) /\ MaxEvents > 0 /\ row_count > MaxEvents
      /\ row_count = Cardinality(events)
  BY DEF Counting, Evicting, DeleteDoomed
<1>2. PICK D \in SUBSET events : FirstRows(D, events, Surplus) /\ events' = events \ D
  BY DEF DeleteDoomed
<1>3. events \in SUBSET Row /\ IsFiniteSet(events) /\ Surplus \in Int /\ row_count \in Int
  BY EvictTargetBounds DEF Base, Control, TypeOK, Surplus
<1>4. D = doomed
  BY <1>1, <1>2, <1>3, FirstRowsUnique
<1>5. /\ doomed # {} /\ doomed \subseteq events /\ Cardinality(events \ doomed) = EvictTarget
      /\ Cardinality(doomed) = Surplus
  BY <1>1, SurplusRows DEF Base
<1>6. row_count' = EvictTarget
  BY <1>3, <1>5, EvictTargetBounds DEF DeleteDoomed, Surplus
<1>7. events' \cup doomed = events
  BY <1>2, <1>4, <1>5
<1> QED BY <1>1, <1>2, <1>4, <1>5, <1>6, <1>7 DEF FirstRows

LEMMA CountingStep == Base /\ Counting /\ Evicting /\ [Next]_vars => Counting'
<1> SUFFICES ASSUME Base, Counting, Evicting, [Next]_vars PROVE Counting'
  OBVIOUS
<1>0. /\ pc \in [Threads -> {"idle", "insert"} \cup Holding] /\ row_count \in Int
      /\ Cardinality(events) \in Nat
      /\ \A t \in Threads : pc[t] # "idle" => proc = "running"
      /\ NoThread \notin Threads
  BY FS_CardinalityType, ConstantsAssumption DEF Base, Control, TypeOK
<1>1. ASSUME NEW t \in Threads, Stamp(t) PROVE Counting'
  BY <1>0, <1>1 DEF Stamp, Counting, RowCountExact, database, memory
<1>2. ASSUME NEW t \in Threads, Insert(t) PROVE Counting'
  <2>1. \A u \in Threads : u # t => pc'[u] = pc[u] /\ pc[u] \notin Holding
    BY <1>0, <1>2 DEF Insert, Base, Control, LockDiscipline
  <2>2. ~halted' => row_count' = Cardinality(events') - 1
    <3>1. halted' = halted /\ row_count' = row_count /\ lock = NoThread /\ pc[t] = "insert"
      BY <1>2 DEF Insert, memory
    <3>2. ~halted => row_count = Cardinality(events)
      BY <1>0, <3>1 DEF Counting, RowCountExact
    <3>3. Cardinality(events') = Cardinality(events) + 1
      BY <1>2, InsertCounts
    <3> QED BY <1>0, <3>1, <3>2, <3>3
  <2>3. pc'[t] = "space" /\ lock' # NoThread
    BY <1>0, <1>2 DEF Insert
  <2> QED BY <2>1, <2>2, <2>3 DEF Counting, RowCountExact, Holding
<1>3. ASSUME NEW t \in Threads, CheckFreeSpace(t) PROVE Counting'
  <2>1. CASE halted /\ Return(t, "raised") /\ UNCHANGED <<memory, failures>>
    <3>1. \A u \in Threads : pc'[u] \notin Holding /\ halted'
      BY <1>0, <1>3, <2>1, OthersOutside DEF CheckFreeSpace, Return, memory, Holding, Base
    <3> QED BY <3>1, <2>1 DEF Counting, RowCountExact, Holding, memory
  <2>2. ASSUME NEW label \in {"count", "gap"}, Goto(t, label), UNCHANGED row_count, halted' => label = "gap",
               ~halted
        PROVE  Counting'
    <3>1. \A u \in Threads : u # t => pc'[u] \notin Holding
      BY <1>0, <1>3, <2>2, OthersOutside DEF CheckFreeSpace, Goto, Holding, Base
    <3>2. pc'[t] = label /\ lock' # NoThread
      BY <1>0, <1>3, <2>2 DEF CheckFreeSpace, Goto, Holding, Base, Control, LockDiscipline
    <3>3. row_count' = Cardinality(events') - 1
      BY <1>3, <2>2 DEF CheckFreeSpace, Counting, database
    <3> QED BY <3>1, <3>2, <3>3 DEF Counting, RowCountExact, Holding
  <2> QED BY <1>3, <2>1, <2>2 DEF CheckFreeSpace
<1>4. ASSUME NEW t \in Threads, NEW how, Return(t, how), pc[t] \in Holding \/ lock = NoThread,
             halted' \/ row_count' = Cardinality(events')
      PROVE  Counting'
  <2>1. \A u \in Threads : pc'[u] \notin Holding
    BY <1>0, <1>4, OthersOutside DEF Return, Holding, Base, Control, LockDiscipline
  <2> QED BY <1>4, <2>1 DEF Counting, RowCountExact, Holding
<1>5. ASSUME NEW t \in Threads, pc[t] \in Holding, lock' = lock, row_count' = Cardinality(events'),
             NEW label \in {"select", "delete", "record"}, pc' = [pc EXCEPT ![t] = label]
      PROVE  Counting'
  <2>1. \A u \in Threads : u # t => pc'[u] \notin Holding
    BY <1>0, <1>5, OthersOutside DEF Holding, Base
  <2>2. pc'[t] = label
    BY <1>0, <1>5
  <2> QED BY <1>5, <2>1, <2>2 DEF Counting, RowCountExact, Holding
<1>6. ASSUME NEW t \in Threads, RecordHalt(t) PROVE Counting'
  <2>1. halted'
    BY <1>6 DEF RecordHalt, Base, HaltControl, memory
  <2> QED BY <1>4, <1>6, <2>1 DEF RecordHalt, Holding
<1>7. ASSUME NEW t \in Threads, Count(t) PROVE Counting'
  <2>1. row_count' = Cardinality(events') /\ pc[t] \in Holding
    BY <1>0, <1>7 DEF Count, Counting, database, Base, HaltControl, Holding
  <2> QED BY <1>4, <1>5, <1>7, <2>1 DEF Count, Goto
<1>8. ASSUME NEW t \in Threads, SelectDoomed(t) PROVE Counting'
  <2>1. row_count' = Cardinality(events') /\ pc[t] \in Holding
    BY <1>8 DEF SelectDoomed, Counting, database, memory, Holding
  <2> QED BY <1>4, <1>5, <1>8, <2>1 DEF SelectDoomed
<1>9. ASSUME NEW t \in Threads, DeleteDoomed(t) PROVE Counting'
  <2>1. row_count' = Cardinality(events') /\ pc[t] \in Holding
    BY <1>9, DeleteCounts DEF DeleteDoomed, Holding
  <2> QED BY <1>5, <1>9, <2>1 DEF DeleteDoomed, Goto
<1>10. ASSUME NEW t \in Threads, RecordDrop(t) PROVE Counting'
  BY <1>4, <1>10 DEF RecordDrop, Counting, memory, Holding
<1>11. ASSUME NEW t \in Threads, StatementFails(t) PROVE Counting'
  <2>1. halted' \/ row_count' = Cardinality(events')
    BY <1>0, <1>11 DEF StatementFails, Counting, RowCountExact, memory, database, Base, HaltControl
  <2> QED BY <1>4, <1>11, <2>1 DEF StatementFails, Holding
<1>12. CASE Close \/ Crash
  BY <1>12 DEF Close, Crash, Forget, Counting, RowCountExact
<1>13. CASE Open
  BY <1>0, <1>13 DEF Open, CountRows, Counting, RowCountExact, database, thread
<1>14. CASE DetectDowntime \/ SetClock \/ DiskChanges \/ UNCHANGED vars
  BY <1>14 DEF DetectDowntime, SetClock, DiskChanges, vars, database, thread, memory, Counting,
     RowCountExact
<1> QED BY <1>1, <1>2, <1>3, <1>6, <1>7, <1>8, <1>9, <1>10, <1>11, <1>12, <1>13, <1>14
        DEF Next, AppendStep

LEMMA EvictingStep == Base /\ Counting /\ Evicting /\ [Next]_vars => Evicting'
<1> SUFFICES ASSUME Base, Counting, Evicting, [Next]_vars PROVE Evicting'
  OBVIOUS
<1>0. /\ pc \in [Threads -> {"idle", "insert"} \cup Holding]
      /\ events \subseteq inserted
  BY DEF Base, Control, TypeOK, Fresh
<1>1. ASSUME \A u \in Threads : pc'[u] \notin {"select", "delete", "record"} PROVE Evicting'
  BY <1>1 DEF Evicting
<1>2. ASSUME NEW t \in Threads, Stamp(t) PROVE Evicting'
  BY <1>0, <1>2 DEF Stamp, Evicting, Surplus, database, memory, history
<1>3. ASSUME NEW t \in Threads, Insert(t) PROVE Evicting'
  <2>1. \A u \in Threads : pc[u] \notin Holding
    BY <1>3, ConstantsAssumption DEF Insert, Base, Control, LockDiscipline
  <2>2. \A u \in Threads : pc'[u] \notin {"select", "delete", "record"}
    BY <1>0, <1>3, <2>1 DEF Insert, Holding
  <2> QED BY <1>1, <2>2
<1>4. ASSUME NEW t \in Threads, pc[t] \in Holding, NEW label \in {"idle", "count", "gap"},
             pc' = [pc EXCEPT ![t] = label]
      PROVE  Evicting'
  BY <1>0, <1>1, <1>4, OthersOutside DEF Base
<1>5. ASSUME NEW t \in Threads,
             CheckFreeSpace(t) \/ RecordHalt(t) \/ RecordDrop(t)
      PROVE  Evicting'
  BY <1>4, <1>5 DEF CheckFreeSpace, RecordHalt, RecordDrop, Return, Goto, Holding
<1>6. ASSUME NEW t \in Threads, StatementFails(t) PROVE Evicting'
  <2>1. CASE pc[t] \in Holding
    BY <1>4, <1>6, <2>1 DEF StatementFails, Return
  <2>2. CASE lock = NoThread
    <3>1. \A u \in Threads : pc[u] \notin Holding
      BY <2>2, ConstantsAssumption DEF Base, Control, LockDiscipline
    <3> QED BY <1>0, <1>1, <1>6, <3>1 DEF StatementFails, Return, Holding
  <2> QED BY <1>6, <2>1, <2>2 DEF StatementFails, Holding
<1>7. ASSUME NEW t \in Threads, Count(t) PROVE Evicting'
  <2>1. CASE Return(t, "stored")
    BY <1>4, <1>7, <2>1 DEF Count, Return, Holding
  <2>2. CASE MaxEvents > 0 /\ row_count' > MaxEvents /\ Goto(t, "select")
    <3>1. \A u \in Threads : u # t => pc'[u] \in {"idle", "insert"}
      BY <1>0, <1>7, <2>2, OthersOutside DEF Count, Goto, Holding, Base
    <3>2. pc'[t] = "select"
      BY <1>0, <2>2 DEF Goto
    <3> QED BY <2>2, <3>1, <3>2 DEF Evicting
  <2> QED BY <1>7, <2>1, <2>2 DEF Count
<1>8. ASSUME NEW t \in Threads, SelectDoomed(t) PROVE Evicting'
  <2>1. CASE Return(t, "stored")
    BY <1>4, <1>8, <2>1 DEF SelectDoomed, Return, Holding
  <2>2. ASSUME NEW D \in SUBSET events, FirstRows(D, events, Surplus), D # {}, doomed' = D,
               pc' = [pc EXCEPT ![t] = "delete"]
        PROVE  Evicting'
    <3>1. \A u \in Threads : u # t => pc'[u] \in {"idle", "insert"}
      BY <1>0, <1>8, <2>2, OthersOutside DEF SelectDoomed, Holding, Base
    <3>2. pc'[t] = "delete"
      BY <1>0, <2>2
    <3>3. events' = events /\ row_count' = row_count /\ Surplus' = Surplus
      BY <1>8 DEF SelectDoomed, database, memory, Surplus
    <3>4. MaxEvents > 0 /\ row_count > MaxEvents
      BY <1>8 DEF SelectDoomed, Evicting
    <3>5. FirstRows(doomed', events', Surplus') /\ doomed' # {}
      BY <2>2, <3>3
    <3> QED BY <3>1, <3>2, <3>3, <3>4, <3>5 DEF Evicting
  <2> QED BY <1>8, <2>1, <2>2 DEF SelectDoomed
<1>9. ASSUME NEW t \in Threads, DeleteDoomed(t) PROVE Evicting'
  <2>1. \A u \in Threads : u # t => pc'[u] \in {"idle", "insert"}
    BY <1>0, <1>9, OthersOutside DEF DeleteDoomed, Goto, Holding, Base
  <2>2. pc'[t] = "record" /\ doomed' = doomed /\ inserted' = inserted
    BY <1>0, <1>9 DEF DeleteDoomed, Goto, history
  <2> QED BY <1>0, <1>9, <2>1, <2>2, DeleteCounts DEF Evicting
<1>10. CASE Close \/ Crash
  BY <1>1, <1>10 DEF Close, Crash, Forget
<1>11. CASE Open
  <2>1. \A u \in Threads : pc[u] = "idle"
    BY <1>11 DEF Open, Base, Control
  <2> QED BY <1>1, <1>11, <2>1 DEF Open, thread
<1>12. CASE DetectDowntime \/ SetClock \/ DiskChanges \/ UNCHANGED vars
  BY <1>12 DEF DetectDowntime, SetClock, DiskChanges, vars, database, thread, memory, history,
     Evicting, Surplus
<1> QED BY <1>2, <1>3, <1>5, <1>6, <1>7, <1>8, <1>9, <1>10, <1>11, <1>12 DEF Next, AppendStep

LEMMA CapStep == Base /\ Counting /\ Evicting /\ CapRespected /\ [Next]_vars => CapRespected'
<1> SUFFICES ASSUME Base, Counting, Evicting, CapRespected, [Next]_vars PROVE CapRespected'
  OBVIOUS
<1>0. /\ row_count \in Int /\ Cardinality(events) \in Nat /\ NoThread \notin Threads
      /\ MaxEvents \in Nat
      /\ \A t \in Threads : pc[t] \in Holding => lock = t
  BY FS_CardinalityType, ConstantsAssumption DEF Base, Control, TypeOK, LockDiscipline
<1>1. ASSUME lock' # NoThread \/ outcome' # "stored" PROVE CapRespected'
  BY <1>1 DEF CapRespected
<1>2. ASSUME UNCHANGED <<events, lock, outcome>> PROVE CapRespected'
  BY <1>2 DEF CapRespected
<1>3. ASSUME NEW t \in Threads, Insert(t) \/ CheckFreeSpace(t) \/ RecordHalt(t) \/ DeleteDoomed(t)
                                 \/ StatementFails(t)
      PROVE  CapRespected'
  BY <1>0, <1>1, <1>3 DEF Insert, CheckFreeSpace, RecordHalt, DeleteDoomed, StatementFails, Return,
     Goto, Holding
<1>4. ASSUME NEW t \in Threads, Count(t) PROVE CapRespected'
  <2>1. row_count' = Cardinality(events')
    BY <1>0, <1>4 DEF Count, Counting, database, Base, HaltControl
  <2> QED BY <1>0, <1>1, <1>4, <2>1 DEF Count, Goto, Holding, CapRespected
<1>5. ASSUME NEW t \in Threads, SelectDoomed(t) PROVE CapRespected'
  <2>1. PICK D \in SUBSET events :
          /\ FirstRows(D, events, Surplus)
          /\ IF D = {} THEN Return(t, "stored") ELSE UNCHANGED <<lock, event, outcome>>
    BY <1>5 DEF SelectDoomed
  <2>2. D # {}
    BY <1>5, <2>1, SurplusRows DEF SelectDoomed, Base, Counting, Evicting
  <2> QED BY <1>2, <1>5, <2>1, <2>2 DEF SelectDoomed, database
<1>6. ASSUME NEW t \in Threads, RecordDrop(t) PROVE CapRespected'
  BY <1>0, <1>6, EvictTargetBounds DEF RecordDrop, Evicting, CapRespected
<1>7. CASE Close \/ Crash
  BY <1>1, <1>7 DEF Close, Crash, Forget
<1>8. CASE (\E t \in Threads : Stamp(t)) \/ Open \/ DetectDowntime \/ SetClock \/ DiskChanges
           \/ UNCHANGED vars
  BY <1>2, <1>8 DEF Stamp, Open, DetectDowntime, SetClock, DiskChanges, vars, database, thread
<1> QED BY <1>3, <1>4, <1>5, <1>6, <1>7, <1>8 DEF Next, AppendStep

StoreInv == Base /\ Counting /\ Evicting /\ CapRespected

LEMMA StoreInit == Init => StoreInv
<1> SUFFICES ASSUME Init PROVE StoreInv
  OBVIOUS
<1>1. Fresh /\ HaltControl
  BY DEF Init, Fresh, HaltControl
<1>2. Counting /\ Evicting /\ CapRespected
  BY DEF Init, Counting, RowCountExact, Evicting, CapRespected
<1> QED BY <1>1, <1>2, ControlInit DEF StoreInv, Base

LEMMA StoreInvariant == Spec => []StoreInv
<1>1. StoreInv /\ [Next]_vars => StoreInv'
  BY ControlStep, FreshStep, HaltControlStep, CountingStep, EvictingStep, CapStep DEF StoreInv, Base
<1> QED BY <1>1, StoreInit, PTL DEF Spec

\* The cached row count is exact whenever the lock is free (RowCountExact).
THEOREM RowCountCorrect == Spec => []RowCountExact
BY StoreInvariant, PTL DEF StoreInv, Counting

\* After a normal return of append() the table is within its cap (CapRespected).
THEOREM CapCorrect == Spec => []CapRespected
BY StoreInvariant, PTL DEF StoreInv

\* The rows deleted are the rows read, in eviction order, down to the target
\* (EvictionExact).
THEOREM EvictionCorrect == Spec => []EvictionExact
<1>1. StoreInv => EvictionExact
  <2> SUFFICES ASSUME StoreInv, NEW t \in Threads, pc[t] = "record",
                      NEW x \in doomed, NEW y \in events
               PROVE  \/ SeverityRank[x.level] < SeverityRank[y.level]
                      \/ /\ SeverityRank[x.level] = SeverityRank[y.level]
                         /\ x.ingested_at <= y.ingested_at
    BY DEF StoreInv, Evicting, EvictionExact
  <2>1. Before(x, y)
    BY DEF StoreInv, Evicting
  <2>2. x.ingested_at \in Nat /\ y.ingested_at \in Nat
    BY ConstantsAssumption DEF StoreInv, Base, Control, TypeOK, Row, Clock
  <2> QED BY <2>1, <2>2 DEF Before
<1> QED BY <1>1, StoreInvariant, PTL
-----------------------------------------------------------------------------
(***************************************************************************)
(* Layer 4: every loss is declared, if nothing fails or crashes.           *)
(***************************************************************************)

\* An overflow_drops row covers every row it was made from.
LEMMA DropEntryCovers ==
    ASSUME NEW d, NEW D, IsDropEntry(d, D), NEW e \in D
    PROVE  DeclaredIn(e, d)
BY DEF IsDropEntry, IsOldest, IsNewest, DeclaredIn

LEMMA LossesStep == StoreInv /\ LossesDeclared /\ [Next]_vars => LossesDeclared'
<1> SUFFICES ASSUME StoreInv, LossesDeclared, [Next]_vars, failures' = 0, crashes' = 0,
                    NEW e \in inserted', e \notin events', e \notin InFlight'
             PROVE  \E d \in overflow_drops' : DeclaredIn(e, d)
  BY DEF LossesDeclared, EveryDropRecorded
<1>0. /\ pc \in [Threads -> {"idle", "insert"} \cup Holding]
      /\ failures \in Nat /\ crashes \in Nat
  BY DEF StoreInv, Base, Control, TypeOK
<1>1. ASSUME failures = 0, crashes = 0, e \in inserted, e \notin events, e \notin InFlight,
             overflow_drops \subseteq overflow_drops'
      PROVE  \E d \in overflow_drops' : DeclaredIn(e, d)
  BY <1>1 DEF LossesDeclared, EveryDropRecorded
<1>2. ASSUME NEW t \in Threads, Insert(t) PROVE \E d \in overflow_drops' : DeclaredIn(e, d)
  <2>1. \A u \in Threads : pc[u] # "record"
    BY <1>2, ConstantsAssumption DEF Insert, StoreInv, Base, Control, LockDiscipline, Holding
  <2> QED BY <1>1, <1>2, <2>1 DEF Insert, InFlight, counters
<1>3. ASSUME NEW t \in Threads, DeleteDoomed(t) PROVE \E d \in overflow_drops' : DeclaredIn(e, d)
  <2>1. events' = events \ doomed
    BY <1>3, DeleteCounts DEF StoreInv
  <2>2. pc'[t] = "record" /\ doomed' = doomed /\ \A u \in Threads : pc[u] # "record"
    BY <1>0, <1>3, OthersOutside DEF DeleteDoomed, Goto, StoreInv, Base, Holding
  <2>3. e \notin doomed
    BY <2>2 DEF InFlight
  <2> QED BY <1>1, <1>3, <2>1, <2>2, <2>3 DEF DeleteDoomed, InFlight, counters, history
<1>4. ASSUME NEW t \in Threads, RecordDrop(t) PROVE \E d \in overflow_drops' : DeclaredIn(e, d)
  <2>1. PICK d : IsDropEntry(d, doomed) /\ overflow_drops' = overflow_drops \cup {d}
    BY <1>4 DEF RecordDrop
  <2>2. CASE e \in doomed
    BY <2>1, <2>2, DropEntryCovers
  <2>3. CASE e \notin doomed
    BY <1>1, <1>4, <2>1, <2>3 DEF RecordDrop, InFlight, counters, history
  <2> QED BY <2>2, <2>3
<1>5. ASSUME NEW t \in Threads, CheckFreeSpace(t) \/ RecordHalt(t) \/ Count(t) \/ SelectDoomed(t)
      PROVE  \E d \in overflow_drops' : DeclaredIn(e, d)
  <2>1. \A u \in Threads : pc[u] # "record"
    BY <1>5, OthersOutside DEF CheckFreeSpace, RecordHalt, Count, SelectDoomed, StoreInv, Base, Holding
  <2>2. failures = 0 /\ crashes = 0
    BY <1>0, <1>5 DEF CheckFreeSpace, RecordHalt, Count, SelectDoomed, counters
  <2> QED BY <1>1, <1>5, <2>1, <2>2 DEF CheckFreeSpace, RecordHalt, Count, SelectDoomed, InFlight,
     database, history
<1>6. ASSUME NEW t \in Threads, StatementFails(t) PROVE FALSE
  BY <1>0, <1>6 DEF StatementFails
<1>7. CASE Crash
  BY <1>0, <1>7 DEF Crash
<1>8. CASE Close
  BY <1>1, <1>8 DEF Close, Forget, InFlight, database
<1>9. ASSUME NEW t \in Threads, Stamp(t) PROVE \E d \in overflow_drops' : DeclaredIn(e, d)
  <2>1. InFlight' = InFlight
    BY <1>0, <1>9 DEF Stamp, InFlight
  <2> QED BY <1>1, <1>9, <2>1 DEF Stamp, database, history, counters
<1>10. CASE Open \/ DetectDowntime \/ SetClock \/ DiskChanges \/ UNCHANGED vars
  <2>1. InFlight' = InFlight
    BY <1>10 DEF Open, DetectDowntime, SetClock, DiskChanges, vars, thread, InFlight
  <2>2. failures = 0 /\ crashes = 0
    BY <1>0, <1>10 DEF Open, DetectDowntime, SetClock, DiskChanges, vars, counters
  <2> QED BY <1>1, <1>10, <2>1, <2>2 DEF Open, DetectDowntime, SetClock, DiskChanges, vars, database,
     history
<1> QED BY <1>2, <1>3, <1>4, <1>5, <1>6, <1>7, <1>8, <1>9, <1>10 DEF Next, AppendStep

\* Without crashes and failing statements every event ever stored is in the
\* table or inside a declared drop (LossesDeclared).
THEOREM LossesCorrect == Spec => []LossesDeclared
<1>1. Init => LossesDeclared
  BY DEF Init, LossesDeclared, EveryDropRecorded
<1> QED BY <1>1, LossesStep, StoreInvariant, PTL DEF Spec
-----------------------------------------------------------------------------
(***************************************************************************)
(* Layer 5: the disk floor.                                                *)
(***************************************************************************)

\* HaltOnRecord, and what it looks like while the thread that halted the
\* store still has the gap to record.
HaltRecorded ==
    halted /\ failures = 0 =>
        \/ \E t \in Threads : pc[t] = "gap"
        \/ /\ coverage_gaps # <<>>
           /\ coverage_gaps[Len(coverage_gaps)].kind = "storage_halted"

LEMMA HaltRecordedStep == StoreInv /\ HaltRecorded /\ [Next]_vars => HaltRecorded'
<1> SUFFICES ASSUME StoreInv, HaltRecorded, [Next]_vars, halted', failures' = 0 PROVE HaltRecorded'
  BY DEF HaltRecorded
<1>0. /\ pc \in [Threads -> {"idle", "insert"} \cup Holding]
      /\ failures \in Nat
      /\ coverage_gaps \in Seq(Gap)
  BY DEF StoreInv, Base, Control, TypeOK
<1>1. ASSUME halted, failures = 0, \A u \in Threads : pc[u] = "gap" => pc'[u] = "gap",
             coverage_gaps' = coverage_gaps
      PROVE  HaltRecorded'
  BY <1>1 DEF HaltRecorded
<1>2. ASSUME NEW t \in Threads, RecordHalt(t) PROVE HaltRecorded'
  <2>1. coverage_gaps' = Append(coverage_gaps, [kind |-> "storage_halted", gap_start |-> now])
    BY <1>2 DEF RecordHalt
  <2>2. /\ coverage_gaps' # <<>>
        /\ coverage_gaps'[Len(coverage_gaps')] = [kind |-> "storage_halted", gap_start |-> now]
    BY <1>0, <2>1
  <2> QED BY <2>2 DEF HaltRecorded
<1>3. ASSUME NEW t \in Threads, CheckFreeSpace(t) PROVE HaltRecorded'
  <2>1. CASE Goto(t, "gap")
    BY <1>0, <2>1 DEF Goto, HaltRecorded
  <2>2. CASE halted /\ UNCHANGED failures
    BY <1>0, <1>1, <1>3, <2>1, <2>2 DEF CheckFreeSpace, Goto, Return, database
  <2>3. CASE ~halted /\ ~Goto(t, "gap")
    BY <1>3, <2>3 DEF CheckFreeSpace
  <2> QED BY <1>3, <2>1, <2>2, <2>3 DEF CheckFreeSpace
<1>4. ASSUME NEW t \in Threads, Stamp(t) \/ Insert(t) PROVE HaltRecorded'
  BY <1>0, <1>1, <1>4 DEF Stamp, Insert, database, memory, counters
<1>5. ASSUME NEW t \in Threads, Count(t) \/ SelectDoomed(t) \/ DeleteDoomed(t) \/ RecordDrop(t)
      PROVE  HaltRecorded'
  BY <1>5 DEF Count, SelectDoomed, DeleteDoomed, RecordDrop, memory, StoreInv, Base, HaltControl
<1>6. ASSUME NEW t \in Threads, StatementFails(t) PROVE FALSE
  BY <1>0, <1>6 DEF StatementFails
<1>7. CASE Close \/ Crash \/ Open
  BY <1>7 DEF Close, Crash, Open, Forget
<1>8. CASE DetectDowntime
  BY <1>8 DEF DetectDowntime, memory, StoreInv, Base, HaltControl
<1>9. CASE SetClock \/ DiskChanges \/ UNCHANGED vars
  BY <1>1, <1>9 DEF SetClock, DiskChanges, vars, database, thread, memory, counters
<1> QED BY <1>2, <1>3, <1>4, <1>5, <1>6, <1>7, <1>8, <1>9 DEF Next, AppendStep

\* A halt is declared in coverage_gaps before anyone can see it, unless a
\* statement failed (HaltOnRecord).
THEOREM HaltCorrect == Spec => []HaltOnRecord
<1>1. Init => HaltRecorded
  BY DEF Init, HaltRecorded
<1>2. StoreInv /\ HaltRecorded => HaltOnRecord
  <2>1. StoreInv /\ lock = NoThread => \A t \in Threads : pc[t] # "gap"
    BY ConstantsAssumption DEF StoreInv, Base, Control, LockDiscipline, Holding
  <2> QED BY <2>1 DEF HaltRecorded, HaltOnRecord
<1> QED BY <1>1, <1>2, HaltRecordedStep, StoreInvariant, PTL DEF Spec

\* The rows written below the floor are counted by the checking period: each
\* append moves appends_since_space_check, and a check below the floor halts.
SpaceInv ==
    /\ ~low => lowWrites = 0
    /\ proc = "down" => lowWrites = 0
    /\ FloorSet /\ ~halted /\ failures = 0 /\ proc # "down" =>
         /\ (\A t \in Threads : pc[t] # "space") =>
               /\ lowWrites <= appends_since_space_check
               /\ appends_since_space_check = CheckEvery => lowWrites = 0
         /\ \A t \in Threads : pc[t] = "space" =>
               /\ lowWrites <= appends_since_space_check + 1
               /\ appends_since_space_check = CheckEvery => lowWrites <= 1

LEMMA SpaceStep == StoreInv /\ SpaceInv /\ [Next]_vars => SpaceInv'
<1> SUFFICES ASSUME StoreInv, SpaceInv, [Next]_vars PROVE SpaceInv'
  OBVIOUS
<1>0. /\ pc \in [Threads -> {"idle", "insert"} \cup Holding]
      /\ failures \in Nat /\ lowWrites \in Nat /\ appends_since_space_check \in 0 .. CheckEvery
      /\ CheckEvery \in Nat \ {0}
      /\ \A t \in Threads : pc[t] # "idle" => proc = "running"
  BY ConstantsAssumption DEF StoreInv, Base, Control, TypeOK
<1>1. ASSUME \A u \in Threads : pc'[u] = "space" <=> pc[u] = "space", halted' = halted,
             failures' = failures, proc # "down", proc' # "down",
             UNCHANGED <<low, lowWrites, appends_since_space_check>>
      PROVE  SpaceInv'
  BY <1>1 DEF SpaceInv
<1>2. ASSUME NEW t \in Threads, Insert(t) PROVE SpaceInv'
  <2>1. /\ \A u \in Threads : pc[u] # "space"
        /\ \A u \in Threads : pc'[u] = "space" <=> u = t
    BY <1>0, <1>2, ConstantsAssumption DEF Insert, StoreInv, Base, Control, LockDiscipline, Holding
  <2>2. /\ lowWrites' <= lowWrites + 1 /\ (~low => lowWrites' = lowWrites)
        /\ UNCHANGED <<low, appends_since_space_check, halted, failures, proc>>
        /\ proc = "running"
    BY <1>0, <1>2 DEF Insert, memory, host, counters
  <2>3. lowWrites' \in Nat
    BY <1>0, <1>2 DEF Insert
  <2> QED BY <1>0, <2>1, <2>2, <2>3 DEF SpaceInv
<1>3. ASSUME NEW t \in Threads, CheckFreeSpace(t) PROVE SpaceInv'
  <2>0. /\ pc[t] = "space" /\ proc = "running"
        /\ UNCHANGED <<low, lowWrites, proc>>
        /\ \A u \in Threads : pc'[u] # "space"
    <3>1. \A u \in Threads : u # t => pc[u] # "space" /\ pc'[u] = pc[u]
      BY <1>0, <1>3, OthersOutside DEF CheckFreeSpace, Return, Goto, StoreInv, Base, Holding
    <3>2. pc'[t] # "space"
      BY <1>0, <1>3 DEF CheckFreeSpace, Return, Goto
    <3> QED BY <1>0, <1>3, <3>1, <3>2 DEF CheckFreeSpace, host, history
  <2>1. CASE halted'
    BY <2>0, <2>1 DEF SpaceInv
  <2>2. CASE ~halted /\ ~(FloorSet /\ CheckDue) /\ UNCHANGED <<halted, failures>>
             /\ (FloorSet => appends_since_space_check' = appends_since_space_check + 1)
    BY <1>0, <2>0, <2>2 DEF SpaceInv, CheckDue
  <2>3. CASE ~halted /\ FloorSet /\ appends_since_space_check' = 0 /\ ~low /\ UNCHANGED failures
    BY <1>0, <2>0, <2>3 DEF SpaceInv
  <2>4. CASE failures' = failures + 1
    BY <1>0, <2>0, <2>4 DEF SpaceInv
  <2> QED BY <1>3, <2>1, <2>2, <2>3, <2>4 DEF CheckFreeSpace, memory
<1>4. ASSUME NEW t \in Threads, StatementFails(t) PROVE SpaceInv'
  BY <1>0, <1>4 DEF StatementFails, SpaceInv, host, history
<1>5. ASSUME NEW t \in Threads, RecordHalt(t) \/ RecordDrop(t) PROVE SpaceInv'
  BY <1>0, <1>1, <1>5 DEF RecordHalt, RecordDrop, Return, memory, host, history, counters
<1>6. ASSUME NEW t \in Threads, Count(t) \/ DeleteDoomed(t) PROVE SpaceInv'
  BY <1>0, <1>1, <1>6 DEF Count, DeleteDoomed, Return, Goto, host, history, counters
<1>7. ASSUME NEW t \in Threads, SelectDoomed(t) PROVE SpaceInv'
  BY <1>0, <1>1, <1>7 DEF SelectDoomed, Return, memory, host, history, counters
<1>8. ASSUME NEW t \in Threads, Stamp(t) PROVE SpaceInv'
  BY <1>0, <1>1, <1>8 DEF Stamp, memory, host, history, counters
<1>9. CASE Close \/ Crash
  BY <1>9 DEF Close, Crash, Forget, host, SpaceInv
<1>10. CASE Open
  <2>1. \A u \in Threads : pc'[u] # "space"
    BY <1>0, <1>10 DEF Open, thread
  <2>2. lowWrites' = 0 /\ appends_since_space_check' = CheckEvery
    BY <1>10 DEF Open, history, SpaceInv
  <2> QED BY <1>0, <2>1, <2>2 DEF SpaceInv
<1>11. CASE DetectDowntime
  BY <1>0, <1>11 DEF DetectDowntime, memory, thread, host, history, SpaceInv
<1>12. CASE DiskChanges
  BY <1>0, <1>12 DEF DiskChanges, memory, thread, counters, SpaceInv
<1>13. CASE SetClock \/ UNCHANGED vars
  BY <1>13 DEF SetClock, vars, memory, thread, host, history, counters, SpaceInv
<1> QED BY <1>2, <1>3, <1>4, <1>5, <1>6, <1>7, <1>8, <1>9, <1>10, <1>11, <1>12, <1>13
        DEF Next, AppendStep

\* A process that has not halted has written at most CheckEvery rows below
\* the floor, unless a check failed (OvershootBounded).
THEOREM OvershootCorrect == Spec => []OvershootBounded
<1>1. Init => SpaceInv
  BY DEF Init, SpaceInv
<1>2. StoreInv /\ SpaceInv => OvershootBounded
  <2>1. StoreInv => appends_since_space_check \in 0 .. CheckEvery /\ lowWrites \in Nat
                    /\ CheckEvery \in Nat \ {0}
    BY ConstantsAssumption DEF StoreInv, Base, Control, TypeOK
  <2> QED BY <2>1 DEF SpaceInv, OvershootBounded
<1> QED BY <1>1, <1>2, SpaceStep, StoreInvariant, PTL DEF Spec
-----------------------------------------------------------------------------
(***************************************************************************)
(* Layer 6: downtime.  While all levels are equal, eviction leaves a row   *)
(* at least as recent as any it takes.                                     *)
(***************************************************************************)

LatestKept ==
    UniformLevels => \A e \in inserted : \E y \in events : e.ingested_at <= y.ingested_at

LEMMA LatestKeptStep == StoreInv /\ LatestKept /\ [Next]_vars => LatestKept'
<1> SUFFICES ASSUME StoreInv, LatestKept, [Next]_vars PROVE LatestKept'
  OBVIOUS
<1>1. ASSUME UNCHANGED <<events, inserted>> PROVE LatestKept'
  BY <1>1 DEF LatestKept, UniformLevels
<1>2. ASSUME NEW t \in Threads, Insert(t) PROVE LatestKept'
  <2>1. event[t].ingested_at \in Int
    BY <1>2 DEF Insert, StoreInv, Base, Control, Row, Clock
  <2>2. UniformLevels' => UniformLevels
    BY <1>2 DEF Insert, UniformLevels
  <2> QED BY <1>2, <2>1, <2>2 DEF Insert, LatestKept
<1>3. ASSUME NEW t \in Threads, DeleteDoomed(t) PROVE LatestKept'
  <2>1. /\ events' = events \ doomed /\ doomed \subseteq events /\ inserted' = inserted
        /\ Cardinality(events') = EvictTarget
        /\ \A x \in doomed, y \in events' : Before(x, y)
    BY <1>3, DeleteCounts DEF StoreInv, DeleteDoomed, history
  <2>2. PICK z : z \in events'
    BY <2>1, EvictTargetBounds, FS_EmptySet
  <2>3. SUFFICES ASSUME UniformLevels, NEW e \in inserted
                 PROVE  \E y \in events' : e.ingested_at <= y.ingested_at
    BY <2>1 DEF LatestKept, UniformLevels
  <2>4. PICK y \in events : e.ingested_at <= y.ingested_at
    BY <2>3 DEF LatestKept
  <2>5. CASE y \in doomed
    <3>1. y.level = z.level /\ Before(y, z)
      BY <2>1, <2>2, <2>3, <2>5 DEF UniformLevels, StoreInv, Base, Fresh
    <3>2. /\ e.ingested_at \in Int /\ y.ingested_at \in Int /\ z.ingested_at \in Int
          /\ SeverityRank[y.level] \in Int
      BY <2>1, <2>2, ConstantsAssumption
         DEF StoreInv, Base, Control, TypeOK, Row, Clock, SeverityRank
    <3>3. y.ingested_at <= z.ingested_at
      BY <3>1, <3>2 DEF Before
    <3> QED BY <2>2, <2>4, <3>2, <3>3
  <2> QED BY <2>1, <2>4, <2>5
<1> QED
  BY <1>1, <1>2, <1>3 DEF Next, AppendStep, Stamp, CheckFreeSpace, RecordHalt, Count, SelectDoomed,
     RecordDrop, StatementFails, Open, DetectDowntime, Close, Crash, SetClock, DiskChanges, vars,
     database, history

\* While every event has the same level, no event was ever recorded after the
\* start of a downtime that is declared (DowntimeIsReal).
THEOREM DowntimeCorrect == Spec => DowntimeIsReal
<1> DEFINE Real == proc = "opened" /\ Len(coverage_gaps') > Len(coverage_gaps) /\ UniformLevels =>
         \A e \in inserted : e.ingested_at <= coverage_gaps'[Len(coverage_gaps')].gap_start
<1>1. Init => LatestKept
  BY DEF Init, LatestKept
<1>2. StoreInv /\ LatestKept /\ [Next]_vars => [Real]_vars
  <2> SUFFICES ASSUME StoreInv, LatestKept, Next, proc = "opened",
                      Len(coverage_gaps') > Len(coverage_gaps), UniformLevels,
                      NEW e \in inserted
               PROVE  e.ingested_at <= coverage_gaps'[Len(coverage_gaps')].gap_start
    OBVIOUS
  <2>0. coverage_gaps \in Seq(Gap) /\ \A t \in Threads : pc[t] = "idle"
    BY DEF StoreInv, Base, Control, TypeOK
  <2>1. coverage_gaps' # coverage_gaps
    BY <2>0
  <2>2. DetectDowntime
    BY <2>0, <2>1 DEF Next, AppendStep, Stamp, Insert, CheckFreeSpace, RecordHalt, Count, SelectDoomed,
       DeleteDoomed, RecordDrop, StatementFails, Open, Close, Crash, SetClock, DiskChanges, database
  <2>3. PICK last \in Clock :
          /\ LastRecorded(last)
          /\ coverage_gaps' = Append(coverage_gaps, [kind |-> "agent_downtime",
                                                     gap_start |-> last, gap_end |-> now])
    BY <2>1, <2>2 DEF DetectDowntime
  <2>4. coverage_gaps'[Len(coverage_gaps')].gap_start = last
    BY <2>0, <2>3
  <2>5. PICK y \in events : e.ingested_at <= y.ingested_at
    BY DEF LatestKept
  <2>6. y.ingested_at <= last
    BY <2>3 DEF LastRecorded, IsNewest
  <2>7. e.ingested_at \in Int /\ y.ingested_at \in Int /\ last \in Int
    BY DEF StoreInv, Base, Control, TypeOK, Row, Clock
  <2> QED BY <2>4, <2>5, <2>6, <2>7
<1>3. [][Real]_vars => DowntimeIsReal
  BY PTL DEF DowntimeIsReal
<1> QED BY <1>1, <1>2, <1>3, LatestKeptStep, StoreInvariant, PTL DEF Spec
=============================================================================
