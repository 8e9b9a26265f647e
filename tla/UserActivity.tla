---------------------------- MODULE UserActivity ----------------------------
(***************************************************************************)
(* The user activity collector (ebabf/collectors/user_activity.py): every  *)
(* sweep reads the authentication log from the time of the last, counts    *)
(* failed logins and uses of sudo by user, and makes an event for every    *)
(* session and for every user with failed logins and no session.           *)
(*                                                                         *)
(* Time is in ticks, several to a second, for journalctl is asked with     *)
(* whole seconds.  A record is what parse_auth_line leaves of a line.      *)
(* Times are UTC; journalctl takes the stamp it is given, which is UTC too,*)
(* for the local time of the host.                                         *)
(***************************************************************************)
EXTENDS Integers, Sequences, FiniteSets

CONSTANTS
    Accounts,   \* user names in the log
    Second,     \* ticks of a second
    Zones,      \* time zones: of each, the offsets of local time from UTC, in
                \* ticks, several where there is summer time
    LookBack,   \* how far the first read of a process goes back: 3600 seconds
    MaxClock,   \* bound: the clock
    MaxRecords  \* bound: records of the log

ASSUME ActivityAssumption ==
    /\ Second \in Nat \ {0} /\ LookBack \in Nat /\ MaxClock \in Nat /\ MaxRecords \in Nat
    /\ \A z \in Zones : z \subseteq Int

VARIABLES
    clock,      \* CollectorContext.clock, and what journald stamps with
    zone,       \* the zone of the host
    log,        \* the records written, in order: [kind, user, at]
    rotated,    \* records that are no longer in /var/log/auth.log
    source,     \* _auth
    lastRead,   \* _last_read
    reading,    \* collect() in hand: its stage, `since`, and the records read
    userEvents, \* what collect() has yielded
    asked,      \* history: records written when the sweep in hand began
    due,        \* history: the same for the last sweep that ended
    settled,    \* history: records counted, or that NoFailedLoginMissed excepts
    times,      \* history: in how many sweeps of this process each was counted
    setBack     \* history: the clock has been set back

userWorld == <<clock, zone, log, rotated, setBack>>
userSweep == <<lastRead, reading, userEvents>>
userHistory == <<asked, due, settled, times>>
userVars == <<userWorld, source, userSweep, userHistory>>

Never == -1 - LookBack
Unknown == -1
Sources == {"journald", "auth_log_file", "none"}
NotReading == [stage |-> "idle", since |-> 0, records |-> {}]

Written == 1 .. Len(log)
OfKind(kind, user) == {i \in reading.records : log[i].kind = kind /\ log[i].user = user}
Window(since) == {i \in Written : log[i].at >= since}
-----------------------------------------------------------------------------
(***************************************************************************)
(* The host                                                                *)
(***************************************************************************)

Tick ==
    /\ clock < MaxClock /\ clock' = clock + 1
    /\ UNCHANGED <<zone, log, rotated, setBack, source, userSweep, userHistory>>

SetClockBack ==
    /\ clock > 0 /\ clock' = clock - 1
    /\ setBack' = TRUE
    /\ UNCHANGED <<zone, log, rotated, source, userSweep, userHistory>>

\* A record that is stamped before a sweep that has begun already (the clock
\* was set back) is in no later window.
WriteRecord(kind, user) ==
    /\ Len(log) < MaxRecords
    /\ log' = Append(log, [kind |-> kind, user |-> user, at |-> clock])
    /\ times' = Append(times, 0)
    /\ settled' = IF clock < lastRead THEN settled \cup {Len(log) + 1} ELSE settled
    /\ UNCHANGED <<clock, zone, rotated, setBack, source, userSweep, asked, due>>

\* logrotate takes the file away: for an agent that reads it, what was not yet
\* read is out of reach.
Rotate ==
    /\ rotated # Written
    /\ rotated' = Written
    /\ settled' = IF source = "auth_log_file" THEN settled \cup Written ELSE settled
    /\ UNCHANGED <<clock, zone, log, setBack, source, userSweep, asked, due, times>>
-----------------------------------------------------------------------------
(***************************************************************************)
(* collect(), run to its end by list() in AgentRunner.sweep_once           *)
(***************************************************************************)

\* Mutant: the first read of a process begins with the process.
FirstSince_Now == clock

\* `since` while _last_read is None.
FirstSince == clock - LookBack

\* _last_read is the time at which the sweep begins, before anything is read.
\* What is older than an hour at the first read is not asked for.
BeginCollect ==
    /\ reading = NotReading
    /\ reading' = [stage |-> "reading", records |-> {},
                   since |-> IF lastRead = Never THEN FirstSince ELSE lastRead]
    /\ lastRead' = clock
    /\ asked' = Len(log)
    /\ settled' = IF lastRead = Never
                  THEN settled \cup {i \in Written : log[i].at < clock - LookBack}
                  ELSE settled
    /\ UNCHANGED <<userWorld, source, userEvents, due, times>>

\* Mutant: whole minutes, of two seconds here.
Truncate_Minute(t) == t - (t % (2 * Second))

\* strftime("%Y-%m-%d %H:%M:%S")
Truncate(t) == t - (t % Second)

\* read_since, with local time at offset o: journalctl has what is stamped at or
\* after the second of `since` taken for local time, which is o earlier in UTC;
\* the file has all that is in it, whatever `since` is; None is not asked.
ReadSince(o) ==
    CASE source = "journald" -> Window(Truncate(reading.since) - o)
      [] source = "auth_log_file" -> Written \ rotated
      [] source = "none" -> {}

ReadLog ==
    /\ reading.stage = "reading"
    /\ \E o \in zone : reading' = [reading EXCEPT !.stage = "read", !.records = ReadSince(o)]
    /\ settled' = IF source = "none" THEN settled \cup Written ELSE settled
    /\ UNCHANGED <<userWorld, source, lastRead, userEvents, asked, due, times>>

\* journalctl fails or takes too long, or the file cannot be opened: read_since
\* returns an empty list, and the events say 0 and not that nothing is known.
ReadFails ==
    /\ reading.stage = "reading" /\ source # "none"
    /\ reading' = [reading EXCEPT !.stage = "read"]
    /\ \E o \in zone : settled' = settled \cup ReadSince(o)
    /\ UNCHANGED <<userWorld, source, lastRead, userEvents, asked, due, times>>

Known(n) == IF source = "none" THEN Unknown ELSE n
Activity(user) ==
    [user |-> user, failed |-> Known(Cardinality(OfKind("failed_auth", user))),
     sudo |-> Known(Cardinality(OfKind("sudo", user)))]

\* Users with a session, and users with failed logins and none.
Reported(sessions) == sessions \cup {user \in Accounts : OfKind("failed_auth", user) # {}}

\* The sessions are psutil's, and none if it fails.
BuildActivity(sessions) ==
    /\ reading.stage = "read"
    /\ userEvents' = {Activity(user) : user \in Reported(sessions)}
    /\ reading' = [reading EXCEPT !.stage = "built"]
    /\ UNCHANGED <<userWorld, source, lastRead, userHistory>>

\* The records of users that the events are about.
Counted(kind) == UNION {OfKind(kind, e.user) : e \in userEvents}

ActivityHandled ==
    /\ reading.stage = "built"
    /\ settled' = settled \cup Counted("failed_auth")
    /\ times' = [i \in Written |-> IF i \in Counted("failed_auth") THEN times[i] + 1 ELSE times[i]]
    /\ due' = asked /\ asked' = 0
    /\ reading' = NotReading /\ userEvents' = {}
    /\ UNCHANGED <<userWorld, source, lastRead>>

\* A message that is not text makes read_since raise, or an event cannot be
\* built: the sweep counts nothing, and _last_read stays.
ActivityRaises ==
    /\ \/ /\ reading.stage = "reading" /\ source # "none"
          /\ \E o \in zone : settled' = settled \cup ReadSince(o)
       \/ reading.stage = "read" /\ settled' = settled \cup reading.records
    /\ due' = asked /\ asked' = 0
    /\ reading' = NotReading
    /\ UNCHANGED <<userWorld, source, lastRead, userEvents, times>>

\* A new process: select_auth_source finds what can be read now.
UserRestart ==
    /\ source' \in Sources
    /\ lastRead' = Never /\ reading' = NotReading /\ userEvents' = {}
    /\ asked' = 0 /\ times' = [i \in Written |-> 0]
    /\ settled' = IF source' = "auth_log_file" THEN settled \cup rotated ELSE settled
    /\ UNCHANGED <<userWorld, due>>

UserInit ==
    /\ clock = 0 /\ zone \in Zones /\ log = <<>> /\ rotated = {} /\ setBack = FALSE
    /\ source \in Sources /\ lastRead = Never /\ reading = NotReading /\ userEvents = {}
    /\ asked = 0 /\ due = 0 /\ settled = {} /\ times = <<>>
-----------------------------------------------------------------------------
(***************************************************************************)
(* Properties                                                              *)
(***************************************************************************)

LogRecord == [kind : {"failed_auth", "sudo"}, user : Accounts, at : 0 .. MaxClock]
Figure == Nat \cup {Unknown}

UserTypeOK ==
    /\ clock \in 0 .. MaxClock /\ zone \in Zones
    /\ log \in Seq(LogRecord)
    /\ rotated \subseteq Written /\ setBack \in BOOLEAN
    /\ source \in Sources /\ lastRead \in {Never} \cup 0 .. MaxClock
    /\ reading \in [stage : {"idle", "reading", "read", "built"}, since : Int,
                    records : SUBSET Written]
    /\ userEvents \subseteq [user : Accounts, failed : Figure, sudo : Figure]
    /\ asked \in 0 .. Len(log) /\ due \in 0 .. Len(log) /\ settled \subseteq Written
    /\ times \in [Written -> Nat]

\* The host is never west of UTC.  Where it is, the window journalctl is asked
\* for begins later than meant, by the offset, and hides what came in between.
NeverWest == \A o \in zone : o >= 0

\* On a host that is never west of UTC every failed login is counted by the
\* first sweep that begins after it and ends, with a session of the user or
\* without, whatever is written while the sweep reads and wherever the process
\* was restarted; save what was older than the look-back at the first read,
\* what a failed read, a sweep that raised or a rotation of the file took away,
\* and what a clock set back has stamped before a sweep that had begun
\* (collect, read_since).
NoFailedLoginMissed ==
    NeverWest /\ reading = NotReading =>
        \A i \in 1 .. due : log[i].kind = "failed_auth" => i \in settled
=============================================================================
