------------------------- MODULE UserActivityProofs -------------------------
(***************************************************************************)
(* Proofs about the user activity collector in the sweeps of the agent, for*)
(* any number of records, users and sweeps, any interval, look-back and    *)
(* resolution of the clock.                                                *)
(***************************************************************************)
EXTENDS CollectorSweepProofs

(***************************************************************************)
(* No failed login is missed                                               *)
(***************************************************************************)

\* A failed login that is neither counted nor excepted.
Outstanding(i) == i \in Written /\ log[i].kind = "failed_auth" /\ i \notin settled

\* The next read will find the record: in a file that was not rotated away, or
\* stamped in the window that begins at `since`.
InReach(i, since) ==
    /\ source = "auth_log_file" => i \notin rotated
    /\ since # Never => log[i].at >= since

\* What is outstanding is in reach of the sweep to come, if it was written
\* after the sweep in hand began, and otherwise with that sweep: it will be
\* read, has been read, or is counted by one of the events.
MissInv ==
    /\ \A i \in 1 .. due : ~Outstanding(i)
    /\ reading = NotReading => \A i \in Written : Outstanding(i) => InReach(i, lastRead)
    /\ reading # NotReading =>
          /\ lastRead # Never
          /\ \A i \in Written : Outstanding(i) /\ i > asked => InReach(i, lastRead)
    /\ reading.stage = "reading" =>
          /\ reading.since # Never
          /\ \A i \in 1 .. asked : Outstanding(i) => InReach(i, reading.since)
    /\ reading.stage \in {"read", "built"} =>
          \A i \in 1 .. asked : Outstanding(i) => i \in reading.records
    /\ reading.stage = "built" =>
          \A i \in reading.records : log[i].kind = "failed_auth" =>
              \E e \in userEvents : e.user = log[i].user
    /\ reading.stage = "idle" => reading = NotReading

\* Truncating loses less than a second, and never goes forward.
LEMMA TruncateBounds ==
    ASSUME NEW t \in Int
    PROVE  Truncate(t) \in Int /\ Truncate(t) <= t /\ t < Truncate(t) + Second
<1>1. t % Second \in 0 .. Second - 1
  BY ActivityAssumption
<1> QED BY <1>1, ActivityAssumption DEF Truncate

\* A read that succeeds finds all that is in its reach.
LEMMA ReadFinds ==
    ASSUME UserTypeOK, NeverWest, reading.since # Never, source # "none",
           NEW i \in Written, InReach(i, reading.since), NEW o \in zone
    PROVE  i \in ReadSince(o)
<1>1. reading.since \in Int /\ log[i].at \in Int /\ o \in Int /\ o >= 0
  BY LogTyped, ActivityAssumption DEF UserTypeOK, NeverWest
<1>2. CASE source = "journald"
  <2>1. ReadSince(o) = Window(Truncate(reading.since) - o)
    BY <1>2, Zenon DEF ReadSince
  <2>2. log[i].at >= Truncate(reading.since) - o
    BY <1>1, TruncateBounds DEF InReach
  <2> QED BY <2>1, <2>2 DEF Window
<1>3. CASE source = "auth_log_file"
  <2>1. ReadSince(o) = Written \ rotated
    BY <1>3, Zenon DEF ReadSince
  <2> QED BY <1>3, <2>1 DEF InReach
<1> QED BY <1>2, <1>3 DEF UserTypeOK, Sources

\* No step of the collector or of the host lets a failed login out of sight.
LEMMA MissInductive == UserTypeOK /\ NeverWest /\ MissInv /\ UserStep => MissInv'
<1> SUFFICES ASSUME UserTypeOK, NeverWest, MissInv, UserStep PROVE MissInv'
  OBVIOUS
<1>t. UserTypeOK'
  BY UserTypeInductive
<1>n. /\ Len(log) \in Nat /\ asked \in Nat /\ due \in Nat /\ asked <= Len(log) /\ due <= Len(log)
      /\ Never \in Int /\ Never < 0
  BY ActivityAssumption DEF UserTypeOK, Never
<1>a. \A i \in Written : log[i].at \in Nat
  BY LogTyped, ActivityAssumption
<1>i. NotReading.stage = "idle"
  BY DEF NotReading
<1>1. CASE Tick \/ SetClockBack \/ UNCHANGED userVars
  <2>1. UNCHANGED <<log, rotated, source, userSweep, userHistory>>
    BY <1>1, Zenon DEF Tick, SetClockBack, userVars, userWorld
  <2> QED BY <2>1 DEF userSweep, userHistory, MissInv, Outstanding, InReach, Written
<1>2. CASE Rotate
  <2>1. /\ UNCHANGED <<log, source, lastRead, reading, userEvents, asked, due>>
        /\ rotated' = Written /\ settled \subseteq settled'
        /\ source = "auth_log_file" => Written \subseteq settled'
    BY <1>2 DEF Rotate, userSweep
  <2>2. Written' = Written
    BY <2>1 DEF Written
  <2>3. ASSUME NEW i, Outstanding(i)' PROVE Outstanding(i) /\ source # "auth_log_file"
    BY <2>1, <2>2, <2>3 DEF Outstanding
  <2>4. ASSUME NEW i, Outstanding(i)', NEW t, InReach(i, t) PROVE InReach(i, t)'
    BY <2>1, <2>3, <2>4 DEF InReach
  <2> QED BY <2>1, <2>2, <2>3, <2>4 DEF MissInv
<1>3. ASSUME NEW kind \in {"failed_auth", "sudo"}, NEW user \in Accounts, WriteRecord(kind, user)
      PROVE  MissInv'
  <2>0. PICK n \in Nat : n = Len(log) + 1
    BY <1>n
  <2>1. /\ UNCHANGED <<rotated, source, lastRead, reading, userEvents, asked, due>>
        /\ log' = Append(log, [kind |-> kind, user |-> user, at |-> clock])
    BY <1>3 DEF WriteRecord, userSweep
  <2>2. /\ Written' = Written \cup {n} /\ n \notin Written
        /\ \A i \in Written : log'[i] = log[i]
        /\ log'[n].at = clock
    BY <1>n, <2>0, <2>1 DEF Written, UserTypeOK
  <2>3. /\ \A i \in Written : i \in settled' <=> i \in settled
        /\ n \notin settled' => ~(clock < lastRead)
    BY <1>3, <2>0, <2>2 DEF WriteRecord
  <2>4. \A i \in Written : Outstanding(i)' <=> Outstanding(i)
    BY <2>2, <2>3 DEF Outstanding
  <2>5. \A i \in Written : \A t : InReach(i, t)' <=> InReach(i, t)
    BY <2>1, <2>2 DEF InReach
  <2>6. Outstanding(n)' => InReach(n, lastRead)'
    <3>1. n \notin rotated /\ clock \in Int /\ lastRead \in Int
      BY <1>n, <2>2, ActivityAssumption DEF UserTypeOK
    <3>2. Outstanding(n)' => clock >= lastRead
      BY <2>3, <3>1 DEF Outstanding
    <3> QED BY <2>1, <2>2, <3>1, <3>2, Zenon DEF InReach
  <2>7. 1 .. due \subseteq Written /\ 1 .. asked \subseteq Written /\ reading.records \subseteq Written
    BY <1>n DEF Written, UserTypeOK
  <2>8. \A i \in 1 .. due : ~Outstanding(i)'
    BY <2>4, <2>7, Zenon DEF MissInv
  <2>9. reading = NotReading => \A i \in Written' : Outstanding(i)' => InReach(i, lastRead)'
    BY <2>1, <2>2, <2>4, <2>5, <2>6, Zenon DEF MissInv
  <2>10. reading # NotReading =>
            \A i \in Written' : Outstanding(i)' /\ i > asked => InReach(i, lastRead)'
    BY <2>1, <2>2, <2>4, <2>5, <2>6, Zenon DEF MissInv
  <2>11. reading.stage = "reading" =>
            \A i \in 1 .. asked : Outstanding(i)' => InReach(i, reading.since)'
    BY <2>1, <2>4, <2>5, <2>7, Zenon DEF MissInv
  <2>12. reading.stage = "built" =>
            \A i \in reading.records : log'[i].kind = "failed_auth" =>
                \E e \in userEvents : e.user = log'[i].user
    BY <2>2, <2>7, Zenon DEF MissInv
  <2> QED BY <2>1, <2>4, <2>7, <2>8, <2>9, <2>10, <2>11, <2>12, Zenon DEF MissInv
<1>4. CASE BeginCollect
  <2>1. /\ UNCHANGED <<log, rotated, source, userEvents, due>>
        /\ reading = NotReading /\ asked' = Len(log) /\ lastRead' = clock
        /\ reading'.stage = "reading"
        /\ reading'.since = IF lastRead = Never THEN FirstSince ELSE lastRead
        /\ settled \subseteq settled'
        /\ lastRead = Never => {i \in Written : log[i].at < clock - LookBack} \subseteq settled'
    BY <1>4 DEF BeginCollect, userWorld
  <2>2. Written' = Written /\ clock \in Nat /\ LookBack \in Nat
    BY <2>1, ActivityAssumption DEF Written, UserTypeOK
  <2>3. reading'.since \in Int /\ reading'.since # Never /\ lastRead' # Never
    BY <1>n, <2>1, <2>2 DEF FirstSince, Never, UserTypeOK
  <2>4. \A i : Outstanding(i)' => Outstanding(i)
    BY <2>1, <2>2 DEF Outstanding
  <2>5. ASSUME NEW i, Outstanding(i)' PROVE InReach(i, reading.since)'
    <3>1. i \in Written /\ Outstanding(i) /\ i \notin settled' /\ InReach(i, lastRead)
      BY <2>1, <2>2, <2>4, <2>5 DEF Outstanding, MissInv
    <3>2. CASE lastRead = Never
      BY <1>n, <1>a, <2>1, <2>2, <2>3, <3>1, <3>2 DEF FirstSince, InReach
    <3>3. CASE lastRead # Never
      BY <2>1, <3>1, <3>3 DEF InReach
    <3> QED BY <3>2, <3>3
  <2>6. \A i \in Written : ~(i > Len(log))
    BY <1>n DEF Written
  <2> QED BY <1>i, <2>1, <2>2, <2>3, <2>4, <2>5, <2>6 DEF MissInv
<1>5. CASE ReadLog \/ ReadFails
  <2>1. /\ UNCHANGED <<log, rotated, source, lastRead, userEvents, asked, due>>
        /\ reading.stage = "reading" /\ settled \subseteq settled'
    BY <1>5 DEF ReadLog, ReadFails, userWorld
  <2>2. reading'.stage = "read"
    BY <1>5 DEF ReadLog, ReadFails, UserTypeOK
  <2>3. \/ source # "none" /\ \E o \in zone : reading'.records = ReadSince(o)
        \/ source # "none" /\ \E o \in zone : ReadSince(o) \subseteq settled'
        \/ source = "none" /\ Written \subseteq settled'
    BY <1>5, Zenon DEF ReadLog, ReadFails, UserTypeOK
  <2>4. \A i : Outstanding(i)' => Outstanding(i) /\ i \notin settled'
    BY <2>1 DEF Outstanding, Written
  <2>5. ASSUME NEW i \in 1 .. asked, Outstanding(i)' PROVE i \in reading'.records
    <3>1. i \in Written /\ InReach(i, reading.since) /\ reading.since # Never
      BY <2>1, <2>4, <2>5 DEF MissInv, Outstanding
    <3>2. source # "none" => \A o \in zone : i \in ReadSince(o)
      BY <3>1, ReadFinds
    <3> QED BY <2>3, <2>4, <2>5, <3>1, <3>2
  <2>6. \A i, t : InReach(i, t)' <=> InReach(i, t)
    BY <2>1 DEF InReach
  <2>7. Written' = Written /\ reading # NotReading /\ reading' # NotReading
    BY <1>i, <2>1, <2>2 DEF Written
  <2> QED BY <2>1, <2>2, <2>4, <2>5, <2>6, <2>7 DEF MissInv
<1>6. ASSUME NEW sessions \in SUBSET Accounts, BuildActivity(sessions) PROVE MissInv'
  <2>1. /\ UNCHANGED <<log, rotated, source, lastRead, asked, due, settled>>
        /\ reading.stage = "read"
        /\ userEvents' = {Activity(user) : user \in Reported(sessions)}
    BY <1>6 DEF BuildActivity, userWorld, userHistory
  <2>2. reading'.stage = "built" /\ reading'.records = reading.records
    BY <1>6 DEF BuildActivity, UserTypeOK
  <2>3. ASSUME NEW i \in reading.records, log[i].kind = "failed_auth"
        PROVE  \E e \in userEvents' : e.user = log[i].user
    <3>1. log[i].user \in Accounts
      BY LogTyped DEF UserTypeOK
    <3>2. i \in OfKind("failed_auth", log[i].user)
      BY <2>3 DEF OfKind
    <3>3. log[i].user \in Reported(sessions)
      BY <3>1, <3>2 DEF Reported
    <3>4. Activity(log[i].user) \in userEvents' /\ Activity(log[i].user).user = log[i].user
      BY <2>1, <3>3 DEF Activity
    <3> QED BY <3>4
  <2>4. \A i : Outstanding(i)' <=> Outstanding(i)
    BY <2>1 DEF Outstanding, Written
  <2>5. \A i, t : InReach(i, t)' <=> InReach(i, t)
    BY <2>1 DEF InReach
  <2>6. Written' = Written /\ reading # NotReading /\ reading' # NotReading
    BY <1>i, <2>1, <2>2 DEF Written
  <2> QED BY <2>1, <2>2, <2>3, <2>4, <2>5, <2>6 DEF MissInv
<1>7. CASE ActivityHandled \/ ActivityRaises
  <2>1. /\ UNCHANGED <<log, rotated, source, lastRead>>
        /\ due' = asked /\ asked' = 0 /\ reading' = NotReading /\ settled \subseteq settled'
        /\ reading.stage \in {"reading", "read", "built"}
    BY <1>7 DEF ActivityHandled, ActivityRaises, userWorld
  <2>2. \A i : Outstanding(i)' => Outstanding(i) /\ i \notin settled'
    BY <2>1 DEF Outstanding, Written
  <2>3. ASSUME NEW i \in 1 .. asked, Outstanding(i)' PROVE FALSE
    <3>1. i \in Written /\ Outstanding(i) /\ i \notin settled'
      BY <2>2, <2>3 DEF Outstanding
    <3>2. CASE reading.stage = "reading"
      <4>1. source # "none" /\ \E o \in zone : ReadSince(o) \subseteq settled'
        BY <1>7, <3>2 DEF ActivityHandled, ActivityRaises
      <4>2. InReach(i, reading.since) /\ reading.since # Never
        BY <3>1, <3>2 DEF MissInv
      <4> QED BY <3>1, <4>1, <4>2, ReadFinds
    <3>3. CASE reading.stage = "read"
      <4>1. reading.records \subseteq settled'
        BY <1>7, <3>3 DEF ActivityHandled, ActivityRaises
      <4> QED BY <3>1, <3>3, <4>1 DEF MissInv
    <3>4. CASE reading.stage = "built"
      <4>1. Counted("failed_auth") \subseteq settled'
        BY <1>7, <3>4 DEF ActivityHandled, ActivityRaises
      <4>2. i \in reading.records /\ log[i].kind = "failed_auth"
        BY <3>1, <3>4 DEF MissInv, Outstanding
      <4>3. PICK e \in userEvents : e.user = log[i].user
        BY <3>4, <4>2 DEF MissInv
      <4>4. i \in OfKind("failed_auth", e.user)
        BY <4>2, <4>3 DEF OfKind
      <4>5. i \in Counted("failed_auth")
        BY <4>4 DEF Counted
      <4> QED BY <3>1, <4>1, <4>5
    <3> QED BY <2>1, <3>2, <3>3, <3>4
  <2>4. ASSUME NEW i \in Written, Outstanding(i)' PROVE InReach(i, lastRead)'
    <3>1. i > asked
      BY <1>n, <2>3, <2>4 DEF Written
    <3>2. reading # NotReading
      BY <1>i, <2>1
    <3> QED BY <2>1, <2>2, <2>4, <3>1, <3>2 DEF MissInv, InReach
  <2>5. Written' = Written
    BY <2>1 DEF Written
  <2> QED BY <1>i, <2>1, <2>3, <2>4, <2>5 DEF MissInv
<1>8. CASE UserRestart
  <2>1. /\ UNCHANGED <<log, rotated, due>> /\ reading' = NotReading /\ lastRead' = Never
        /\ settled \subseteq settled'
        /\ source' = "auth_log_file" => rotated \subseteq settled'
    BY <1>8 DEF UserRestart, userWorld
  <2>2. \A i : Outstanding(i)' => Outstanding(i) /\ i \notin settled'
    BY <2>1 DEF Outstanding, Written
  <2> QED BY <1>i, <2>1, <2>2 DEF MissInv, InReach
<1> QED
  BY <1>1, <1>2, <1>3, <1>4, <1>5, <1>6, <1>7, <1>8 DEF UserStep

LEMMA MissInitially == Init => MissInv
BY DEF Init, UserInit, NotReading, MissInv, Outstanding, Written

LEMMA ZoneStays == UserStep => UNCHANGED zone
BY DEF UserStep, Tick, SetClockBack, Rotate, WriteRecord, BeginCollect, ReadLog, ReadFails,
       BuildActivity, ActivityHandled, ActivityRaises, UserRestart, userVars, userWorld

LEMMA MissStep == TypeOK /\ (NeverWest => MissInv) /\ [Next]_vars => (NeverWest => MissInv)'
<1> SUFFICES ASSUME TypeOK, NeverWest => MissInv, [Next]_vars, NeverWest' PROVE MissInv'
  OBVIOUS
<1>1. UserStep /\ UserTypeOK
  BY StepOfEach DEF TypeOK
<1>2. NeverWest
  BY <1>1, ZoneStays DEF NeverWest
<1> QED BY <1>1, <1>2, MissInductive

\* On a host that is never west of UTC every failed login is counted by the
\* first sweep that begins after it and ends, or was lost in one of the ways the
\* property names, for logs of any length, any look-back, any resolution of the
\* clock and any offset of local time (collect, read_since).
THEOREM NoFailedLoginMissedAlways == Spec => []NoFailedLoginMissed
<1>1. TypeOK /\ (NeverWest => MissInv) => NoFailedLoginMissed
  <2> SUFFICES ASSUME TypeOK, MissInv, NEW i \in 1 .. due, log[i].kind = "failed_auth"
               PROVE  i \in settled
    BY DEF NoFailedLoginMissed
  <2>1. i \in Written
    BY DEF TypeOK, UserTypeOK, Written
  <2> QED BY <2>1 DEF MissInv, Outstanding
<1>2. Spec => [](NeverWest => MissInv)
  BY MissInitially, MissStep, CollectorsTypeCorrect, PTL DEF Spec
<1> QED BY <1>1, <1>2, CollectorsTypeCorrect, PTL
-----------------------------------------------------------------------------
(***************************************************************************)
(* How often a failed login is counted                                     *)
(***************************************************************************)

\* The setting of CountsBounded.
Steady == source = "journald" /\ ~setBack

\* How long the collector has been at rest, at least.
Rested == IF turn = "sleep" THEN slept ELSE Interval

\* The length of n intervals; and that they fit into what journalctl may go
\* back before `since` in a zone with these offsets.
Span(n) == n * Interval
Fits(n, offsets) == \E o \in offsets : Span(n) < Second + o

\* A record that was counted n times is n - 1 intervals and the rest the
\* collector has had old, and n intervals when the next sweep begins.  The
\* window of that sweep begins at the last, n - 1 intervals after the record, so
\* that the record is in it only if n - 1 intervals fit into what journalctl goes
\* back.
Ageing(i) ==
    /\ times[i] > 0 =>
          /\ lastRead # Never
          /\ reading = NotReading => log[i].at + Span(times[i] - 1) + Rested <= clock
          /\ reading # NotReading => log[i].at + Span(times[i]) <= lastRead
    /\ times[i] >= 2 =>
          /\ reading = NotReading => log[i].at + Span(times[i] - 1) <= lastRead
          /\ reading.stage = "reading" => log[i].at + Span(times[i] - 1) <= reading.since
          /\ i \in reading.records => Fits(times[i] - 1, zone)
    /\ times[i] >= 3 => Fits(times[i] - 2, zone)

CountInv == Steady => \A i \in Written : Ageing(i)

\* The stages of a sweep: one in hand has set _last_read, and has no records
\* before it has read them.
StageOfSweep ==
    /\ reading # NotReading => lastRead # Never
    /\ reading.stage \in {"idle", "reading"} => reading.records = {}
    /\ reading.stage = "idle" => reading = NotReading

\* One interval more.
LEMMA SpanNext ==
    ASSUME NEW n \in Int
    PROVE  Span(n) \in Int /\ Span(n + 1) = Span(n) + Interval
<1>1. Interval \in Int
  BY SweepAssumption
<1>2. n * Interval \in Int
  BY <1>1
<1>3. (n + 1) * Interval = n * Interval + Interval
  BY <1>1
<1> QED BY <1>2, <1>3 DEF Span

\* Truncated and taken for local time, the window begins less than a second and
\* the offset before `since`.
LEMMA WindowReach ==
    ASSUME UserTypeOK, source = "journald", NEW o \in zone, NEW i \in ReadSince(o),
           NEW n \in Int, log[i].at + Span(n) <= reading.since
    PROVE  Fits(n, zone)
<1>1. ReadSince(o) = Window(Truncate(reading.since) - o)
  BY Zenon DEF ReadSince
<1>2. i \in Written /\ log[i].at >= Truncate(reading.since) - o
  BY <1>1 DEF Window
<1>3. reading.since \in Int /\ log[i].at \in Int /\ o \in Int
  BY <1>2, LogTyped, ActivityAssumption DEF UserTypeOK
<1>4. Truncate(reading.since) \in Int /\ reading.since < Truncate(reading.since) + Second
  BY <1>3, TruncateBounds
<1>5. Span(n) \in Int /\ Second \in Int
  BY SpanNext, ActivityAssumption
<1>6. Span(n) < Second + o
  BY <1>2, <1>3, <1>4, <1>5
<1> QED BY <1>6 DEF Fits

LEMMA StageInductive == UserTypeOK /\ StageOfSweep /\ UserStep => StageOfSweep'
<1> SUFFICES ASSUME UserTypeOK, StageOfSweep, UserStep PROVE StageOfSweep'
  OBVIOUS
<1> USE DEF StageOfSweep
<1>i. NotReading.stage = "idle" /\ NotReading.records = {}
  BY DEF NotReading
<1>1. CASE UNCHANGED <<lastRead, reading>>
  BY <1>1
<1>2. CASE BeginCollect
  <2>1. clock # Never
    BY ActivityAssumption DEF UserTypeOK, Never
  <2> QED BY <1>2, <1>i, <2>1 DEF BeginCollect
<1>3. CASE ReadLog \/ ReadFails
  <2>1. reading'.stage = "read" /\ lastRead' = lastRead /\ reading.stage = "reading"
    BY <1>3 DEF ReadLog, ReadFails, UserTypeOK
  <2> QED BY <1>i, <2>1
<1>4. ASSUME NEW sessions, BuildActivity(sessions) PROVE StageOfSweep'
  <2>1. reading'.stage = "built" /\ lastRead' = lastRead /\ reading.stage = "read"
    BY <1>4 DEF BuildActivity, UserTypeOK
  <2> QED BY <1>i, <2>1
<1>5. CASE ActivityHandled \/ ActivityRaises \/ UserRestart
  BY <1>5, <1>i DEF ActivityHandled, ActivityRaises, UserRestart
<1> QED
  BY <1>1, <1>2, <1>3, <1>4, <1>5
  DEF UserStep, Tick, SetClockBack, Rotate, WriteRecord, userVars, userSweep

\* Nothing is in the future of a clock that was not set back.
ForwardClock == ~setBack => lastRead <= clock /\ \A i \in Written : log[i].at <= clock

LEMMA ForwardClockInductive == UserTypeOK /\ ForwardClock /\ UserStep => ForwardClock'
<1> SUFFICES ASSUME UserTypeOK, ForwardClock, UserStep, ~setBack'
             PROVE  lastRead' <= clock' /\ \A i \in Written' : log'[i].at <= clock'
  BY DEF ForwardClock
<1>n. clock \in Nat /\ Len(log) \in Nat /\ lastRead \in Int /\ Never \in Int /\ Never < 0
  BY ActivityAssumption DEF UserTypeOK, Never
<1>a. \A i \in Written : log[i].at \in Nat
  BY LogTyped, ActivityAssumption
<1>1. CASE Tick
  BY <1>1, <1>n, <1>a DEF Tick, userSweep, userHistory, ForwardClock, Written
<1>2. CASE SetClockBack
  BY <1>2 DEF SetClockBack
<1>3. ASSUME NEW kind \in {"failed_auth", "sudo"}, NEW user \in Accounts, WriteRecord(kind, user)
      PROVE  lastRead' <= clock' /\ \A i \in Written' : log'[i].at <= clock'
  <2>1. /\ log' = Append(log, [kind |-> kind, user |-> user, at |-> clock])
        /\ UNCHANGED <<clock, lastRead, setBack>>
    BY <1>3 DEF WriteRecord, userSweep
  <2>2. /\ Written' = Written \cup {Len(log) + 1}
        /\ \A i \in Written : log'[i] = log[i]
        /\ log'[Len(log) + 1].at = clock
    BY <1>n, <2>1 DEF Written, UserTypeOK
  <2>3. ~setBack /\ lastRead <= clock /\ \A i \in Written : log[i].at <= clock
    BY <2>1 DEF ForwardClock
  <2>4. ASSUME NEW i \in Written' PROVE log'[i].at <= clock'
    <3>1. CASE i \in Written
      BY <2>1, <2>2, <2>3, <3>1
    <3>2. CASE i = Len(log) + 1
      <4>1. log'[i].at = clock
        BY <2>2, <3>2
      <4>2. clock' = clock /\ clock <= clock
        BY <1>n, <2>1
      <4> QED BY <4>1, <4>2, Zenon
    <3> QED BY <2>2, <3>1, <3>2
  <2> QED BY <2>1, <2>3, <2>4
<1>4. CASE BeginCollect
  BY <1>4, <1>n DEF BeginCollect, userWorld, ForwardClock, Written
<1>5. CASE UserRestart
  BY <1>5, <1>n DEF UserRestart, userWorld, ForwardClock, Written
<1>6. CASE UNCHANGED <<clock, log, lastRead, setBack>>
  BY <1>6 DEF ForwardClock, Written
<1> QED
  BY <1>1, <1>2, <1>3, <1>4, <1>5, <1>6
  DEF UserStep, Rotate, ReadLog, ReadFails, BuildActivity, ActivityHandled, ActivityRaises,
      userVars, userWorld, userSweep

\* Rest ends with the turn of the collector, which is the last of the sweep.
LEMMA RestedBounds ==
    ASSUME TypeOK, [Next]_vars
    PROVE  Rested \in 0 .. Interval /\ Rested' \in 0 .. Interval
<1>1. LoopTypeOK /\ LoopTypeOK'
  BY LoopTypeInductive DEF TypeOK
<1> QED BY <1>1, SweepAssumption DEF LoopTypeOK, Rested

\* What a record that is as it was asks of the rest of the state.
LEMMA AgeingKept ==
    ASSUME TypeOK, NEW i \in Written, Ageing(i), log'[i] = log[i], times'[i] = times[i],
           UNCHANGED <<zone, lastRead, reading>>,
           reading = NotReading => Rested' + clock <= Rested + clock',
           Rested \in Int, Rested' \in Int, clock \in Int, clock' \in Int
    PROVE  Ageing(i)'
<1>1. log[i].at \in Int /\ times[i] \in Int
  BY LogTyped, ActivityAssumption DEF TypeOK, UserTypeOK
<1>2. Span(times[i]) \in Int /\ Span(times[i] - 1) \in Int
  BY <1>1, SpanNext
<1>3. ASSUME times[i] > 0, reading = NotReading
      PROVE  log[i].at + Span(times[i] - 1) + Rested' <= clock'
  <2>1. PICK age \in Int : age = log[i].at + Span(times[i] - 1)
    BY <1>1, <1>2
  <2>2. PICK r \in Int, q \in Int, c \in Int, d \in Int :
            r = Rested /\ q = Rested' /\ c = clock /\ d = clock'
    BY Zenon
  <2>3. age + r <= c
    BY <1>3, <2>1, <2>2, Zenon DEF Ageing
  <2>4. q + c <= r + d
    BY <1>3, <2>2, Zenon
  <2>5. age + q <= d
    BY <2>3, <2>4
  <2> QED BY <2>1, <2>2, <2>5, Zenon
<1> QED BY <1>3, Zenon DEF Ageing

\* Steps that leave the collector at rest, and its rest no longer than it was.
LEMMA CountWhileResting ==
    ASSUME TypeOK, CountInv, [Next]_vars, UNCHANGED userVars,
           UNCHANGED <<turn, slept>> \/ (reading = NotReading /\ Rested = Interval)
    PROVE  CountInv'
<1>1. UNCHANGED <<clock, zone, log, source, setBack, lastRead, reading, times>>
  BY DEF userVars, userWorld, userSweep, userHistory
<1>2. Written' = Written /\ (Steady' => Steady)
  BY <1>1 DEF Written, Steady
<1>3. /\ Rested \in Int /\ Rested' \in Int /\ clock \in Int /\ clock' \in Int
      /\ Rested' + clock <= Rested + clock'
  <2>1. Rested \in Int /\ Rested' \in Int /\ clock \in Int /\ clock' = clock
    BY <1>1, RestedBounds, SweepAssumption, ActivityAssumption DEF TypeOK, UserTypeOK
  <2>2. Rested' <= Rested
    <3>1. CASE UNCHANGED <<turn, slept>>
      BY <2>1, <3>1 DEF Rested
    <3>2. CASE reading = NotReading /\ Rested = Interval
      BY <3>2, RestedBounds, SweepAssumption
    <3> QED BY <3>1, <3>2
  <2>3. \A r, q, c \in Int : q <= r => q + c <= r + c
    OBVIOUS
  <2> QED BY <2>1, <2>2, <2>3, Zenon
<1>4. ASSUME NEW i \in Written, Ageing(i) PROVE Ageing(i)'
  BY <1>1, <1>3, <1>4, AgeingKept
<1> QED BY <1>2, <1>4 DEF CountInv

LEMMA CountInductive == TypeOK /\ StageOfSweep /\ ForwardClock /\ CountInv /\ [Next]_vars => CountInv'
<1> SUFFICES ASSUME TypeOK, StageOfSweep, ForwardClock, CountInv, [Next]_vars PROVE CountInv'
  OBVIOUS
<1>t. TypeOK' /\ UserTypeOK /\ UserTypeOK' /\ LoopTypeOK /\ LoopTypeOK'
  BY TypeInductive DEF TypeOK
<1>n. /\ Len(log) \in Nat /\ Never \in Int /\ Never < 0 /\ clock \in Nat /\ clock' \in Nat
      /\ lastRead \in Int /\ reading.since \in Int
  BY <1>t, ActivityAssumption DEF UserTypeOK, Never
<1>a. \A i \in Written : log[i].at \in Nat /\ times[i] \in Nat
  BY <1>t, LogTyped, ActivityAssumption DEF UserTypeOK
<1>b. Rested \in Nat /\ Rested' \in Nat /\ Rested <= Interval /\ Interval \in Nat
  BY RestedBounds, SweepAssumption
<1>s. \A i \in Written : /\ Span(times[i]) \in Int /\ Span(times[i] - 1) \in Int
                         /\ Span(times[i]) = Span(times[i] - 1) + Interval
  <2>1. ASSUME NEW n \in Nat
        PROVE  Span(n) \in Int /\ Span(n - 1) \in Int /\ Span(n) = Span(n - 1) + Interval
    <3>1. n - 1 \in Int /\ (n - 1) + 1 = n /\ n \in Int
      OBVIOUS
    <3>2. Span(n - 1) \in Int /\ Span((n - 1) + 1) = Span(n - 1) + Interval
      BY <3>1, SpanNext, Zenon
    <3>3. Span(n) \in Int
      BY <3>1, SpanNext, Zenon
    <3> QED BY <3>1, <3>2, <3>3, Zenon
  <2> QED BY <1>a, <2>1, Zenon
<1>i. NotReading.stage = "idle" /\ NotReading.records = {}
  BY DEF NotReading
<1>1. CASE NetworkHappens \/ Capture \/ ProcessHappens \/ UNCHANGED vars
  <2>1. UNCHANGED userVars /\ UNCHANGED <<turn, slept>>
    BY <1>1, Zenon DEF NetworkHappens, Capture, ProcessHappens, vars, loop
  <2> QED BY <2>1, CountWhileResting
<1>2. CASE BeginSweep \/ NetworkTurn \/ NetworkRaises \/ ProcessTurn \/ ProcessRaises
  <2>1. UNCHANGED userVars
    BY <1>2, Zenon DEF BeginSweep, NetworkTurn, NetworkRaises, ProcessTurn, ProcessRaises
  <2>2. \/ turn = "sleep" /\ slept = Interval
        \/ turn \in {"network", "process"}
    BY <1>2, Zenon DEF BeginSweep, NetworkTurn, NetworkRaises, ProcessTurn, ProcessRaises
  <2>3. reading = NotReading /\ Rested = Interval
    BY <1>t, <2>2 DEF LoopTypeOK, Rested
  <2> QED BY <2>1, <2>3, CountWhileResting
<1>3. CASE LogHappens
  <2>1. UNCHANGED <<clock, zone, source, setBack, lastRead, reading, turn, slept>>
    BY <1>3 DEF LogHappens, Rotate, WriteRecord, userSweep, loop
  <2>2. \/ UNCHANGED <<log, times>>
        \/ \E rec \in LogRecord : log' = Append(log, rec) /\ times' = Append(times, 0)
    <3>1. ASSUME NEW kind \in {"failed_auth", "sudo"}, NEW user \in Accounts
          PROVE  [kind |-> kind, user |-> user, at |-> clock] \in LogRecord
      BY <1>t DEF UserTypeOK, LogRecord
    <3> QED BY <1>3, <3>1, Zenon DEF LogHappens, Rotate, WriteRecord
  <2>3. /\ \A i \in Written : log'[i] = log[i] /\ times'[i] = times[i]
        /\ \A i \in Written' : i \in Written \/ times'[i] = 0
    <3>1. CASE UNCHANGED <<log, times>>
      BY <3>1 DEF Written
    <3>2. ASSUME NEW rec \in LogRecord, log' = Append(log, rec), times' = Append(times, 0)
          PROVE  /\ \A i \in Written : log'[i] = log[i] /\ times'[i] = times[i]
                 /\ \A i \in Written' : i \in Written \/ times'[i] = 0
      <4>1. log \in Seq(LogRecord) /\ times \in [1 .. Len(log) -> Nat]
        BY <1>t DEF UserTypeOK, Written
      <4>2. /\ Len(log') = Len(log) + 1 /\ times'[Len(log) + 1] = 0
            /\ \A i \in 1 .. Len(log) : log'[i] = log[i] /\ times'[i] = times[i]
        BY <3>2, <4>1, OneRecordMore
      <4> QED BY <1>n, <4>2 DEF Written
    <3> QED BY <2>2, <3>1, <3>2
  <2>4. Rested' = Rested /\ Rested' + clock <= Rested + clock'
    <3>1. Rested' = Rested
      BY <2>1 DEF Rested
    <3> QED BY <1>b, <1>n, <2>1, <3>1
  <2>5. ASSUME Steady', NEW i \in Written' PROVE Ageing(i)'
    <3>1. CASE i \in Written
      <4>1. Ageing(i)
        BY <2>1, <2>5, <3>1 DEF CountInv, Steady
      <4>2. Rested \in Int /\ Rested' \in Int /\ clock \in Int /\ clock' \in Int
        BY <1>b, <1>n
      <4> QED BY <2>1, <2>3, <2>4, <3>1, <4>1, <4>2, AgeingKept
    <3>2. CASE times'[i] = 0
      BY <3>2 DEF Ageing
    <3> QED BY <2>3, <3>1, <3>2
  <2> QED BY <2>5 DEF CountInv
<1>4. CASE TimePasses
  <2>1. /\ UNCHANGED <<zone, log, source, setBack, lastRead, reading, times, turn>>
        /\ clock' = clock + 1
        /\ turn \in {"sleep", "user_activity"}
        /\ slept' = IF turn = "sleep" /\ slept < Interval THEN slept + 1 ELSE slept
    BY <1>4 DEF TimePasses, Tick, userSweep, userHistory
  <2>2. Rested' <= Rested + 1
    BY <1>b, <2>1, <1>t DEF Rested, LoopTypeOK
  <2>3. Written' = Written /\ (Steady' => Steady)
    BY <2>1 DEF Written, Steady
  <2>4. /\ Rested \in Int /\ Rested' \in Int /\ clock \in Int /\ clock' \in Int
        /\ Rested' + clock <= Rested + clock'
    <3>1. Rested \in Int /\ Rested' \in Int /\ clock \in Int /\ clock' \in Int
      BY <1>b, <1>n
    <3>2. \A r, q, c \in Int : q <= r + 1 => q + c <= r + (c + 1)
      OBVIOUS
    <3> QED BY <2>1, <2>2, <3>1, <3>2, Zenon
  <2>5. ASSUME NEW i \in Written, Ageing(i) PROVE Ageing(i)'
    BY <2>1, <2>4, <2>5, AgeingKept
  <2> QED BY <2>3, <2>5 DEF CountInv
<1>5. CASE ClockSetBack
  BY <1>5 DEF ClockSetBack, SetClockBack, CountInv, Steady
<1>6. ASSUME Steady', BeginCollect, turn = "user_activity", NEW i \in Written' PROVE Ageing(i)'
  <2>1. /\ UNCHANGED <<clock, zone, log, source, setBack, times>> /\ lastRead' = clock
        /\ reading = NotReading /\ reading'.stage = "reading" /\ reading'.records = {}
        /\ reading'.since = IF lastRead = Never THEN FirstSince ELSE lastRead
    BY <1>6 DEF BeginCollect, userWorld
  <2>2. i \in Written /\ Ageing(i) /\ Rested = Interval
    BY <1>6, <2>1 DEF Written, Steady, CountInv, Rested
  <2>3. lastRead' # Never /\ reading' # NotReading
    BY <1>n, <1>i, <2>1
  <2>4. times[i] > 0 => log[i].at + Span(times[i]) <= lastRead'
    <3>1. times[i] > 0 => log[i].at + Span(times[i] - 1) + Interval <= clock
      BY <2>1, <2>2, Zenon DEF Ageing
    <3> QED BY <1>a, <1>b, <1>n, <1>s, <2>1, <2>2, <3>1
  <2>5. times[i] >= 2 => log[i].at + Span(times[i] - 1) <= reading'.since
    <3>1. times[i] >= 2 => lastRead # Never
      BY <1>a, <2>2 DEF Ageing
    <3> QED BY <2>1, <2>2, <3>1, Zenon DEF Ageing
  <2>6. times[i] >= 3 => Fits(times[i] - 2, zone)
    BY <2>2, Zenon DEF Ageing
  <2> QED BY <2>1, <2>3, <2>4, <2>5, <2>6 DEF Ageing
<1>7. ASSUME Steady', ReadLog \/ ReadFails, NEW i \in Written' PROVE Ageing(i)'
  <2>1. /\ UNCHANGED <<clock, zone, log, source, setBack, times, lastRead>>
        /\ reading.stage = "reading"
    BY <1>7 DEF ReadLog, ReadFails, userWorld
  <2>2. /\ reading'.stage = "read"
        /\ (\E o \in zone : reading'.records = ReadSince(o)) \/ reading'.records = {}
    BY <1>7, <1>t, Zenon DEF ReadLog, ReadFails, UserTypeOK, StageOfSweep
  <2>3. i \in Written /\ Ageing(i) /\ source = "journald"
    BY <1>7, <2>1 DEF Written, Steady, CountInv
  <2>4. ASSUME times[i] >= 2, i \in reading'.records PROVE Fits(times[i] - 1, zone)
    <3>1. log[i].at + Span(times[i] - 1) <= reading.since /\ times[i] - 1 \in Int
      BY <1>a, <2>1, <2>3, <2>4 DEF Ageing
    <3>2. PICK o \in zone : i \in ReadSince(o)
      BY <2>2, <2>4
    <3> QED BY <1>t, <2>3, <3>1, <3>2, WindowReach
  <2>5. reading # NotReading /\ reading' # NotReading
    BY <1>i, <2>1, <2>2
  <2> QED BY <2>1, <2>2, <2>3, <2>4, <2>5 DEF Ageing
<1>8. ASSUME NEW sessions, BuildActivity(sessions), Steady', NEW i \in Written' PROVE Ageing(i)'
  <2>1. /\ UNCHANGED <<clock, zone, log, source, setBack, times, lastRead>>
        /\ reading.stage = "read"
    BY <1>8 DEF BuildActivity, userWorld, userHistory
  <2>2. reading'.stage = "built" /\ reading'.records = reading.records
    BY <1>8, <1>t DEF BuildActivity, UserTypeOK
  <2>3. i \in Written /\ Ageing(i)
    BY <1>8, <2>1 DEF Written, Steady, CountInv
  <2>4. reading # NotReading /\ reading' # NotReading
    BY <1>i, <2>1, <2>2
  <2> QED BY <2>1, <2>2, <2>3, <2>4 DEF Ageing
<1>9. ASSUME Steady', ActivityHandled \/ ActivityRaises, PassTurn(3), NEW i \in Written'
      PROVE  Ageing(i)'
  <2>1. /\ UNCHANGED <<clock, zone, log, source, setBack, lastRead>> /\ reading' = NotReading
        /\ reading.stage \in {"reading", "read", "built"}
    BY <1>9 DEF ActivityHandled, ActivityRaises, userWorld
  <2>2. Rested' = 0
    BY <1>9, TurnAfterTyped DEF PassTurn, Rested
  <2>3. /\ i \in Written /\ Ageing(i) /\ reading # NotReading /\ lastRead # Never
        /\ log[i].at <= clock /\ lastRead <= clock
    BY <1>9, <1>i, <2>1 DEF Written, Steady, CountInv, StageOfSweep, ForwardClock
  <2>4. times'[i] = times[i] \/ (times'[i] = times[i] + 1 /\ i \in reading.records)
    <3>1. Counted("failed_auth") \subseteq reading.records
      BY DEF Counted, OfKind
    <3> QED BY <1>9, <2>3, <3>1 DEF ActivityHandled, ActivityRaises
  <2>5. times[i] > 0 => log[i].at + Span(times[i]) <= lastRead
    BY <2>3, Zenon DEF Ageing
  <2>6. CASE times'[i] = times[i]
    <3>1. times[i] > 0 => /\ log[i].at + Span(times[i] - 1) + 0 <= clock
                         /\ log[i].at + Span(times[i] - 1) <= lastRead
      <4>1. log[i].at \in Int /\ Span(times[i] - 1) \in Int /\ Interval \in Nat
            /\ Span(times[i]) = Span(times[i] - 1) + Interval
        BY <1>a, <1>b, <1>s, <2>3
      <4>2. PICK r \in Int : r = Span(times[i] - 1)
        BY <4>1
      <4>3. times[i] > 0 => log[i].at + (r + Interval) <= lastRead
        BY <2>5, <4>1, <4>2, Zenon
      <4>4. PICK a \in Int : a = log[i].at
        BY <4>1
      <4>5. times[i] > 0 => a + (r + Interval) <= lastRead
        BY <4>3, <4>4, Zenon
      <4>6. times[i] > 0 => a + r + 0 <= clock /\ a + r <= lastRead
        BY <1>n, <2>3, <4>1, <4>5
      <4> QED BY <4>2, <4>4, <4>6, Zenon
    <3>2. times[i] >= 2 => times[i] > 0
      BY <1>a, <2>3
    <3>3. times[i] >= 3 => Fits(times[i] - 2, zone)
      BY <2>3, Zenon DEF Ageing
    <3> QED BY <1>i, <2>1, <2>2, <2>3, <2>6, <3>1, <3>2, <3>3 DEF Ageing
  <2>7. CASE times'[i] = times[i] + 1 /\ i \in reading.records
    <3>1. PICK n \in Nat : n = times[i] /\ times'[i] = n + 1
      BY <1>a, <2>3, <2>7
    <3>2. (n + 1) - 1 = n /\ (n + 1) - 2 = n - 1
      BY <3>1
    <3>3. log[i].at + Span(n) + 0 <= clock
      <4>1. CASE n = 0
        <5>1. Span(n) = 0
          BY <4>1, SweepAssumption DEF Span
        <5> QED BY <1>a, <1>n, <2>3, <5>1
      <4>2. CASE n > 0
        <5>1. log[i].at + Span(n) <= lastRead
          BY <2>5, <3>1, <4>2, Zenon
        <5>2. log[i].at \in Int /\ Span(n) \in Int
          BY <1>a, <1>s, <2>3, <3>1
        <5>3. PICK age \in Int : age = log[i].at + Span(n)
          BY <5>2
        <5>4. age + 0 <= clock
          BY <1>n, <2>3, <5>1, <5>3
        <5> QED BY <5>2, <5>3, <5>4
      <4> QED BY <4>1, <4>2
    <3>4. n + 1 >= 2 => log[i].at + Span(n) <= lastRead
      BY <2>5, <3>1
    <3>5. n + 1 >= 3 => Fits(n - 1, zone)
      <4>1. n + 1 >= 3 => n >= 2
        OBVIOUS
      <4>2. n >= 2 => Fits(n - 1, zone)
        BY <2>3, <2>7, <3>1, Zenon DEF Ageing
      <4> QED BY <4>1, <4>2
    <3> QED BY <1>i, <2>1, <2>2, <2>3, <3>1, <3>2, <3>3, <3>4, <3>5 DEF Ageing
  <2> QED BY <2>4, <2>6, <2>7
<1>10. CASE UserTurn \/ UserReadFails \/ UserRaises
  <2>1. ASSUME Steady', NEW i \in Written' PROVE Ageing(i)'
    BY <1>6, <1>7, <1>8, <1>9, <1>10, <2>1, Zenon DEF UserTurn, UserReadFails, UserRaises
  <2> QED BY <2>1 DEF CountInv
<1>11. CASE Restart
  <2>1. \A i \in Written' : times'[i] = 0
    BY <1>11 DEF Restart, UserRestart, userWorld, Written
  <2> QED BY <2>1 DEF CountInv, Ageing
<1> QED
  BY <1>1, <1>2, <1>3, <1>4, <1>5, <1>10, <1>11 DEF Next

LEMMA CountInitially == Init => ForwardClock /\ StageOfSweep /\ CountInv
<1> SUFFICES ASSUME Init PROVE ForwardClock /\ StageOfSweep /\ CountInv
  OBVIOUS
<1>1. Written = {} /\ lastRead = Never /\ clock = 0 /\ reading = NotReading
  BY DEF Init, UserInit, Written
<1>2. Never <= 0 /\ NotReading.records = {}
  BY ActivityAssumption DEF Never, NotReading
<1> QED BY <1>1, <1>2 DEF ForwardClock, StageOfSweep, CountInv

LEMMA CountStep ==
    TypeOK /\ StageOfSweep /\ ForwardClock /\ CountInv /\ [Next]_vars
        => StageOfSweep' /\ ForwardClock' /\ CountInv'
BY StepOfEach, StageInductive, ForwardClockInductive, CountInductive DEF TypeOK

\* With journald and a clock that only goes forward a failed login is counted by
\* two sweeps of the process at most, and one more for every interval that fits
\* into a second and the offset of local time, whatever the resolution of the
\* stamps and however long reading takes (collect, read_since).
THEOREM CountsBoundedAlways == Spec => []CountsBounded
<1>1. TypeOK /\ CountInv => CountsBounded
  <2> SUFFICES ASSUME TypeOK, CountInv, source = "journald", ~setBack, NEW i \in Written
               PROVE  times[i] <= 2 \/ \E o \in zone : (times[i] - 2) * Interval < Second + o
    BY DEF CountsBounded
  <2>1. times[i] \in Nat
    BY DEF TypeOK, UserTypeOK
  <2>2. times[i] >= 3 => Fits(times[i] - 2, zone)
    BY Zenon DEF CountInv, Steady, Ageing
  <2>3. times[i] <= 2 \/ Fits(times[i] - 2, zone)
    BY <2>1, <2>2
  <2> QED BY <2>3, Zenon DEF Fits, Span
<1>2. Spec => [](StageOfSweep /\ ForwardClock /\ CountInv)
  BY CountInitially, CountStep, CollectorsTypeCorrect, PTL DEF Spec
<1> QED BY <1>1, <1>2, CollectorsTypeCorrect, PTL
=============================================================================
