------------------------- MODULE RecordedLogProofs --------------------------
(***************************************************************************)
(* EventStore implements RecordedLog, for every value of the constants.    *)
(***************************************************************************)
EXTENDS EventStoreProofs

DeclaredStored == Declared \subseteq inserted

LEMMA DeclaredStoredStep == StoreInv /\ DeclaredStored /\ [Next]_vars => DeclaredStored'
<1> SUFFICES ASSUME StoreInv, DeclaredStored, [Next]_vars PROVE DeclaredStored'
  OBVIOUS
<1>1. ASSUME overflow_drops' = overflow_drops, inserted \subseteq inserted' PROVE DeclaredStored'
  BY <1>1 DEF DeclaredStored, Declared
<1>2. ASSUME NEW t \in Threads, RecordDrop(t) PROVE DeclaredStored'
  <2>1. PICK d : IsDropEntry(d, doomed) /\ overflow_drops' = overflow_drops \cup {d}
    BY <1>2 DEF RecordDrop
  <2>2. d.rows \subseteq inserted /\ inserted' = inserted
    BY <1>2, <2>1 DEF IsDropEntry, RecordDrop, StoreInv, Evicting, history
  <2> QED BY <2>1, <2>2 DEF DeclaredStored, Declared
<1> QED
  BY <1>1, <1>2 DEF Next, AppendStep, Stamp, Insert, CheckFreeSpace, RecordHalt, Count,
     SelectDoomed, DeleteDoomed, StatementFails, Open, DetectDowntime, Close, Crash, SetClock,
     DiskChanges, vars, database, history

\* No batch is under way while no thread is about to declare one.
LEMMA NothingInFlight ==
    ASSUME \A t \in Threads : pc[t] # "record"
    PROVE  InFlight = {}
BY DEF InFlight

\* The batch a thread is about to declare may leave the log.
LEMMA BatchEvictable ==
    ASSUME StoreInv, NEW t \in Threads, pc[t] = "record"
    PROVE  /\ InFlight = doomed
           /\ Log!Evictable(doomed)
           /\ (events \cup InFlight) \ doomed = events
<1>1. InFlight = doomed
  BY DEF InFlight
<1>2. /\ doomed # {} /\ events \cap doomed = {} /\ MaxEvents > 0
      /\ Cardinality(events \cup doomed) > MaxEvents /\ Cardinality(events) = EvictTarget
      /\ \A x \in doomed, y \in events : Before(x, y)
  BY DEF StoreInv, Evicting
<1>3. events # {}
  BY <1>2, EvictTargetBounds, FS_EmptySet
<1>4. (events \cup doomed) \ doomed = events
  BY <1>2
<1> QED BY <1>1, <1>2, <1>3, <1>4 DEF Log!Evictable, OverCap

LEMMA LogStep == StoreInv /\ DeclaredStored /\ [Next]_vars => [Log!Next]_(Log!vars)
<1> SUFFICES ASSUME StoreInv, DeclaredStored, [Next]_vars PROVE [Log!Next]_(Log!vars)
  OBVIOUS
<1>0. /\ pc \in [Threads -> {"idle", "insert"} \cup Holding]
      /\ failures \in Nat /\ crashes \in Nat
  BY DEF StoreInv, Base, Control, TypeOK
<1>1. ASSUME UNCHANGED <<events, InFlight, overflow_drops, failures, crashes>>
      PROVE  UNCHANGED Log!vars
  BY <1>1 DEF Log!vars, Declared
<1>2. ASSUME UNCHANGED <<events, InFlight, overflow_drops>>,
             failures' + crashes' = failures + crashes + 1
      PROVE  Log!Fault
  BY <1>2 DEF Log!Fault, Declared
<1>3. ASSUME NEW t \in Threads, Insert(t) PROVE Log!Record
  <2>1. InFlight = {} /\ InFlight' = {}
    BY <1>0, <1>3, ConstantsAssumption
       DEF Insert, InFlight, StoreInv, Base, Control, LockDiscipline, Holding
  <2>2. event[t] \in Row /\ event[t] \notin inserted /\ events \subseteq inserted
    BY <1>3 DEF Insert, StoreInv, Base, Control, Fresh
  <2>3. event[t] \in Row \ ((events \cup InFlight) \cup Declared)
    BY <2>1, <2>2 DEF DeclaredStored
  <2>4. events' \cup InFlight' = (events \cup InFlight) \cup {event[t]}
    BY <1>3, <2>1 DEF Insert
  <2>5. Declared' = Declared /\ failures' + crashes' = failures + crashes
    BY <1>3 DEF Insert, Declared, counters
  <2> QED BY <2>3, <2>4, <2>5 DEF Log!Record
<1>4. ASSUME NEW t \in Threads, RecordDrop(t) PROVE Log!Drop
  <2>1. PICK d : IsDropEntry(d, doomed) /\ overflow_drops' = overflow_drops \cup {d}
    BY <1>4 DEF RecordDrop
  <2>2. Declared' = Declared \cup doomed
    BY <2>1 DEF Declared, IsDropEntry
  <2>3. \A u \in Threads : pc'[u] # "record"
    BY <1>0, <1>4, OthersOutside DEF RecordDrop, Return, Holding, StoreInv, Base
  <2>4. InFlight' = {} /\ events' = events /\ failures' + crashes' = failures + crashes
    BY <1>4, <2>3 DEF RecordDrop, InFlight, counters
  <2>5. InFlight = doomed /\ Log!Evictable(doomed) /\ (events \cup InFlight) \ doomed = events
    BY <1>4, BatchEvictable DEF RecordDrop
  <2>6. doomed \in SUBSET (events \cup InFlight)
    BY <2>5
  <2> QED BY <2>2, <2>4, <2>5, <2>6 DEF Log!Drop
<1>5. ASSUME NEW t \in Threads, pc[t] = "record", InFlight' = {}, events' = events,
             overflow_drops' = overflow_drops, failures' + crashes' = failures + crashes + 1
      PROVE  Log!Fault
  <2>1. InFlight = doomed /\ Log!Evictable(doomed) /\ (events \cup InFlight) \ doomed = events
    BY <1>5, BatchEvictable
  <2>2. events' \cup InFlight' = (events \cup InFlight) \ doomed
    BY <1>5, <2>1
  <2>3. doomed \in SUBSET (events \cup InFlight) /\ Declared' = Declared
    BY <1>5, <2>1 DEF Declared
  <2> QED BY <1>5, <2>1, <2>2, <2>3 DEF Log!Fault
<1>6. ASSUME NEW t \in Threads, StatementFails(t) PROVE Log!Fault
  <2>1. \A u \in Threads : pc'[u] # "record"
    BY <1>0, <1>6, OthersOutside, ConstantsAssumption
       DEF StatementFails, Return, Holding, StoreInv, Base, Control, LockDiscipline
  <2>2. InFlight' = {} /\ events' = events /\ overflow_drops' = overflow_drops
        /\ failures' + crashes' = failures + crashes + 1
    BY <1>0, <1>6, <2>1 DEF StatementFails, InFlight, database
  <2>3. CASE pc[t] = "record"
    BY <1>5, <2>2, <2>3
  <2>4. CASE pc[t] # "record"
    <3>1. \A u \in Threads : pc[u] # "record"
      BY <1>6, <2>4, OthersOutside, ConstantsAssumption
         DEF StatementFails, Holding, StoreInv, Base, Control, LockDiscipline
    <3> QED BY <1>2, <2>2, <3>1, NothingInFlight
  <2> QED BY <2>3, <2>4
<1>7. ASSUME Crash PROVE Log!Fault
  <2>1. InFlight' = {} /\ events' = events /\ overflow_drops' = overflow_drops
        /\ failures' + crashes' = failures + crashes + 1
    BY <1>0, <1>7 DEF Crash, Forget, InFlight, database
  <2>2. CASE \E t \in Threads : pc[t] = "record"
    BY <1>5, <2>1, <2>2
  <2>3. CASE \A t \in Threads : pc[t] # "record"
    BY <1>2, <2>1, <2>3, NothingInFlight
  <2> QED BY <2>2, <2>3
<1>8. ASSUME NEW t \in Threads, DeleteDoomed(t) PROVE UNCHANGED Log!vars
  <2>1. events' = events \ doomed /\ doomed \subseteq events
    BY <1>8, DeleteCounts DEF StoreInv
  <2>2. \A u \in Threads : pc[u] # "record"
    BY <1>8, OthersOutside DEF DeleteDoomed, Holding, StoreInv, Base
  <2>3. InFlight = {} /\ InFlight' = doomed
    BY <1>0, <1>8, <2>2 DEF DeleteDoomed, Goto, InFlight
  <2>4. events' \cup InFlight' = events \cup InFlight
    BY <2>1, <2>3
  <2> QED BY <1>8, <2>4 DEF DeleteDoomed, counters, Declared, Log!vars
<1>9. ASSUME NEW t \in Threads, CheckFreeSpace(t) \/ RecordHalt(t) \/ Count(t) \/ SelectDoomed(t)
      PROVE  Log!Fault \/ UNCHANGED Log!vars
  <2>1. (\A u \in Threads : pc[u] # "record") /\ (\A u \in Threads : pc'[u] # "record")
    BY <1>0, <1>9, OthersOutside DEF CheckFreeSpace, RecordHalt, Count, SelectDoomed, Return, Goto,
       Holding, StoreInv, Base
  <2>2. InFlight = {} /\ InFlight' = {}
    BY <2>1 DEF InFlight
  <2>3. UNCHANGED <<events, overflow_drops, crashes>> /\ failures' \in {failures, failures + 1}
    BY <1>9 DEF CheckFreeSpace, RecordHalt, Count, SelectDoomed, database, counters
  <2>4. CASE failures' = failures
    BY <1>1, <2>2, <2>3, <2>4
  <2>5. CASE failures' = failures + 1
    <3>1. failures' + crashes' = failures + crashes + 1
      BY <1>0, <2>3, <2>5
    <3> QED BY <1>2, <2>2, <2>3, <3>1
  <2> QED BY <2>3, <2>4, <2>5
<1>10. ASSUME NEW t \in Threads, Stamp(t) PROVE UNCHANGED Log!vars
  <2>1. InFlight' = InFlight
    BY <1>0, <1>10 DEF Stamp, InFlight
  <2> QED BY <1>1, <1>10, <2>1 DEF Stamp, database, counters
<1>11. ASSUME DetectDowntime PROVE Log!Fault \/ UNCHANGED Log!vars
  <2>1. InFlight' = InFlight /\ UNCHANGED <<events, overflow_drops, crashes>>
        /\ failures' \in {failures, failures + 1}
    BY <1>11 DEF DetectDowntime, InFlight, thread
  <2>2. CASE failures' = failures
    BY <1>1, <2>1, <2>2
  <2>3. CASE failures' = failures + 1
    <3>1. failures' + crashes' = failures + crashes + 1
      BY <1>0, <2>1, <2>3
    <3> QED BY <1>2, <2>1, <3>1
  <2> QED BY <2>1, <2>2, <2>3
<1>12. ASSUME Close PROVE UNCHANGED Log!vars
  <2>1. InFlight' = {} /\ InFlight = {}
    BY <1>12 DEF Close, Forget, InFlight
  <2> QED BY <1>1, <1>12, <2>1 DEF Close, database
<1>13. ASSUME Open \/ SetClock \/ DiskChanges \/ UNCHANGED vars PROVE UNCHANGED Log!vars
  <2>1. InFlight' = InFlight
    BY <1>13 DEF Open, SetClock, DiskChanges, vars, thread, InFlight
  <2> QED BY <1>1, <1>13, <2>1 DEF Open, SetClock, DiskChanges, vars, database, counters
<1> QED
  BY <1>3, <1>4, <1>6, <1>7, <1>8, <1>9, <1>10, <1>11, <1>12, <1>13
     DEF Next, AppendStep, Log!Next

\* The store, statement by statement and with its crashes and failures, is an
\* implementation of the log with declared losses (ImplementsRecordedLog).
THEOREM StoreImplementsRecordedLog == Spec => ImplementsRecordedLog
<1>1. Init => Log!Init /\ DeclaredStored
  BY DEF Init, Log!Init, DeclaredStored, Declared, InFlight
<1> QED
  BY <1>1, StoreInvariant, DeclaredStoredStep, LogStep, PTL
     DEF Spec, ImplementsRecordedLog, Log!Spec
=============================================================================
