# EB-ABF agent: TLA+ models, model checks and proofs

The repository is a host agent for Linux (`src/src/ebabf`): collectors observe
processes, the network, files and logins; each observation becomes an event
that is decided on, possibly enforced, and recorded in an SQLite file. An
operator can halt enforcement with a kill switch. systemd keeps the agent up.
What the agent promises is mostly about its own failures: nothing is lost
without a record, a surface that is not watched is declared, enforcement stops
when it is told to, and logging goes on. Those promises are what is checked
and proved here.

## Inventory

| Part | State | Operations | What is hard | Modelled in |
|---|---|---|---|---|
| Event store `storage/event_store.py` | tables `events`, `coverage_gaps`, `overflow_drops`; `_row_count`, `_appends_since_space_check`, `_halted_reason`, `_lock` | `append` (insert, space check, count, evict), `detect_downtime`, open, close, reports | every statement is its own transaction; cached count; threads; clock set back; disk floor | `EventStore`, `RecordedLog` |
| Kill switch `engine/killswitch.py` | the sentinel file and its directory | `engage`, `release`, `read_state`, the command | several processes and hands on the same file, one system call at a time | `KillSwitch` |
| Decision and enforcement `engine/decision.py`, `engine/enforcement.py` | `enabled`, the event in hand | `decide`, `enforce`, `apply_to` | check then act; hooks that raise; order of the checks | `Enforcement` |
| Runner `runner.py` | `_collectors`, `_coverage`, `_stop`, `_started` | `start`, `sweep_once`, `_handle`, `run_forever`, `close`, signal handler | partial failure in every loop; signals at any instruction; exceptions that are swallowed | `AgentRunner`, `Enforcement` |
| Composition root `bootstrap.py` | the objects above | `build_agent`, `main`, `status`, `unit` | exit codes, command line | `AgentRunner` (`main`, `build_agent`) |
| Service unit `packaging.py` | systemd's state of the unit | render, validate | restart for ever, the status that prevents it, stop with a limit | `AgentService` |
| Registry `collectors/registry.py` | names and types | `build_supported` | what is left out must be declared | `AgentRunner` (`Build`) |
| Identity `storage/identity_store.py`, `pseudonymizer.py`, `crypto.py`, `bridge.py` | subject/pseudonym rows, grants, audit rows, key file, in-memory map | `mint`, `pseudonymize`, `begin_break_glass_access`, `resolve_subject_with_grant`, `create_key` | two processes on one database, double-checked lock, audit before disclosure | `Identity` |
| File monitor `collectors/filesystem.py` | `_roots`, `_unwatchable`, `_last_sweep`; one `FileActivity` and lock per root | `start`, `record` in watchdog's thread, `drain` and `collect` in the sweep, `close` | counting while it is drained; a sweep that raises half way; roots nobody can watch | `FileMonitor` |
| Network collector `collectors/network.py` | flow table and its lock, socket owners, `_started` | `observe` in the capture thread; `refresh`, `drain` and `collect` in the sweep; `start`, `close` | counting while it is drained; owners looked up apart from the packets, and users apart from the pids; a sweep that raises after the drain | `NetworkCollector` |
| Process collector `collectors/process.py` | `_sampled`, psutil's own memory | `collect` | pids that are used again; a figure that means nothing at the first look | `ProcessCollector` |
| User activity `collectors/user_activity.py` | `_auth`, `_last_read` | `collect`, `read_since` of three sources | windows of a log that is written meanwhile, across failures, restarts, rotation, clock changes; whole seconds; UTC taken for local time | `UserActivity` |
| Event schema `schema/` | none (frozen records) | construct, convert | consistency of decision, enforced, blocked reason | rules used in `Enforcement` (`Consistent`) |
| Configuration `config.py` | none | none | none | constants |

How the parts interact: `main` builds everything and calls `run_forever`, the
only loop. It runs in one thread; the network and file collectors have threads
of their own that fill tables which `collect()` drains; the store is made for
several threads behind one lock. The kill-switch command and the agent meet in
the file system only, systemd and the agent in signals and exit codes only.

## Modules

| Module | What it is |
|---|---|
| `EventStore` | `append()` statement by statement for a set of threads, the life of the process, the host's clock and disk |
| `RecordedLog` | abstract: a table whose rows leave only in eviction order, over the cap, declared; one undeclared batch per fault |
| `KillSwitch` | sentinel, directory, the command's system calls, edits by hand |
| `Enforcement` | extends `KillSwitch` with the agent's pipeline for one event: decide, enforce (three system calls of the check, then the hook), record |
| `AgentRunner` | one process from the command line to its exit status |
| `AgentService` | extends `AgentRunner` with systemd and the rendered unit |
| `Identity` | key file, `identity.db`, the map in memory, Break-Glass, for a set of processes with threads |
| `PseudonymRegister` | abstract: a register of subjects and pseudonyms that only grows, each subject entered once under a tenant |
| `FileMonitor` | the file collector: the dispatcher's `record()` against the sweep's `drain()` and `collect()` |
| `NetworkCollector` | flow table, socket owners and the capture thread |
| `ProcessCollector` | the process table, sampled processes, psutil's first look |
| `UserActivity` | the authentication log, its sources, the read window |
| `CollectorSweep` | composes the three: `sweep_once` and the interval, restarts, the host |
| `MCEventStore`, `MCAgentService`, `MCIdentity`, `MCFileMonitor`, `MCCollectorSweep` | values and symmetry for TLC |
| `EventStoreProofs`, `RecordedLogProofs`, `EnforcementProofs`, `AgentServiceProofs`, `IdentityProofs`, `FileMonitorProofs`, `CollectorSweepProofs`, `UserActivityProofs` | the proofs |

### EventStore

`pc[t]` is the statement thread `t` is about to execute. `Stamp` is
`event.enriched(ingested_at=clock())`, before the lock; `Insert` takes the lock
and commits the row; `CheckFreeSpace` is `_check_free_space_locked` up to the
gap record, `RecordHalt` that record and the exception; `Count` is
`_row_count += 1` and the test against the cap; `SelectDoomed`, `DeleteDoomed`
and `RecordDrop` are the three statements of `_evict_locked`. `StatementFails`
is an `sqlite3.Error` at any of them, `Crash` a kill between any two. A row
keeps its id, level and stamp; the other columns play no part in any decision.
"ORDER BY ... LIMIT n" is the relation `FirstRows`, the share of 95 % is integer
division (equal to `int(max_events * 0.95)` for every cap up to three million).
`inserted` and `lowWrites` are history.

### KillSwitch and Enforcement

A file is its form, as lstat shows it (absent, link, other owner, open mode,
good), and its content, as `json.loads` shows it (payload, not JSON, JSON that is
not an object, empty). `seen` is history: what the switch was at the instants
since the check in hand began. It turns "the switch is honoured" into a statement
about this very call: an action may be carried out only if there was an instant
of the call at which the switch was off. `LstatFails` is the error path of both
`lstat` calls, of the directory and of the sentinel: the code then reports (an insecure
directory, an unreadable sentinel) and takes the switch for off whatever it is.
`seen` notes it as `"unread"`. The hooks `_decide` and `_enforce` are
abstract methods; the model lets them do whatever their contract allows, which
includes the two subclasses the repository has. An `_enforce` that acts and then
raises is left out: no such engine exists, and the record would then be wrong.
`Record` passes through `Event.__post_init__` (`Consistent`): `apply_to` is outside
every `try`, so an event that its schema refused would end the agent.

### AgentRunner and AgentService

`phase` is where the main thread is. The loops of `start`, `sweep_once` and
`close` visit the collectors one at a time, in any order, each returning or
raising. `armed` and `waking` are the parts of `threading.Event.wait` that hold
the condition's lock: a signal handler that runs there calls `Event.set()` and
waits for its own thread (`stuck`). Command lines are sequences of argument
kinds, because argparse decides by their order.

### Identity

`Agents` are the processes on one configuration. `LoadKey`, `CreateKey` and
`ReplaceKey` are the steps of `load_key`/`create_key` that another process can
come between; `LoadForward` is opening the store and decrypting the map. A
thread in `pseudonymize()` is at `lock` (it missed without the lock), `mint`
(it missed with it) or `keep` (the row is committed, the map does not have it
yet). A pseudonym is the number of its row: a uuid4 is taken to be fresh. A
ciphertext is its plaintext and its key, so "failed authentication" is a
comparison of keys. `BreakGlass`, `BeginAccess` and `Resolve` are
`resolve_subject_for_event`. `Die` is every way a process ends. Loading the map
decrypts every row of the tenant without an audit row; disclosure here means what
`resolve_subject_for_event` returns. `labels` and `disclosed` are history.

### FileMonitor

`BeginRecord` is `record()` up to the reference it takes to `_activity`, with the
lock of the root's handler; `EndRecord` counts in that object and gives the lock
back. `drain()` replaces the object, so an object is a slot and a root has two:
the one the handler refers to and the one `collect()` has in hand. `BeginSweep`
reads the clock and sets `_last_sweep`; `Drain`, then `Skip` or `Yield`, is one
turn of the loop over the roots; `EndSweep` is `list()` of the runner having all
events, `SweepRaises` an exception of `_build_event`, with which the events of the
earlier roots go too. The four kinds of change are one, since their counters are
only added up; a path is the set of markers it is under. `counted`, `reported`,
`lost`, `since` and `behind` are history.

### NetworkCollector, ProcessCollector, UserActivity, CollectorSweep

`CollectorSweep` extends the three. `turn` is whose `collect()` runs: the sweep
visits them in the order of their names (the registry sorts), one that raises costs
its own turn only, and then `slept` counts the interval. `built` is what the
registry has made, any subset, since a collector that is not supported or not asked
for is left out; `capturing` is FALSE when the network collector's `start()` has
raised and the runner has dropped it. `Restart` ends the process at any point and
resets every memory at once.

*Network.* `BeginObserve` is `observe()` up to the flow's state, with the lock;
`EndObserve` counts and gives the lock back. `drain()` replaces the dict, so a dict is
a slot, of which there are two. `refresh()` is in steps: `ReadSocketTable` is
`net_connections()`, the rows (protocol, endpoint, pid) of one instant; `LookUp` asks the
pid of one row for its user, which is the user of whatever process has the number by
then, or finds none; `AdoptOwners` puts the finished map in the place of the old.
Meanwhile sockets are opened and closed and `PidChanges` gives a pid to another
user. Rows of one endpoint, under two protocols, overwrite each other in any order.
`collect()` yields one event at a time, but the runner sees none before the last
(`list()`), so `BuildFlows` builds them in one step. `held`, `heldThen`,
`misled` and `owed` are history: who held an endpoint since the last drain and in the
window of the flows in hand, the look-ups of this sweep whose pid had changed hands
since the table was read, and the packets that still have to be reported.

*Process.* `looked` is psutil's memory of the processes it has measured, `sampled`
the collector's. A process is its pid and create_time.

*User activity.* Time is in ticks of UTC, two to a second in the run. `zone` is the set
of offsets that local time has from UTC at the host, two of them where there is summer
time. The code renders `since` in UTC and whole seconds (`Truncate`) and hands it to
`journalctl --since`, which takes it for local time (`--utc` is about its output), so
that `ReadSince(o)` begins at the truncated stamp less the offset. `BeginCollect` reads
the clock and sets `_last_read`; `ReadLog` is what journalctl, the file or nothing
returns; `BuildActivity` is any set of sessions. Records are written at any time, in
between too. `settled` is history: the records counted, and those the property
excepts, each added by the action that loses it.

## Runs

| Run | Expectation | Instance | Question |
|---|---|---|---|
| `event_store` | pass | 2 threads (symmetric), 3 events of 2 levels, cap 2, check every 2nd append, 1 restart, 1 failing statement | lock, exact eviction, declared losses, cached count, cap, halts, overshoot, downtime, refinement of `RecordedLog` |
| `event_store_halt` | violation | 1 thread | a halted store captures nothing further |
| `event_store_crash` | violation | 1 thread, a crash | every drop is recorded |
| `enforcement` | pass | 2 operators, unbounded edits, failures and restarts | the switch, the record, survival of events |
| `enforcement_raises` | violation | 1 operator | `enforce()` never raises |
| `agent_service` | pass | 3 collectors, batches up to 2, 2 faults | coverage, complete sweeps, clean exit, stop, recovery |
| `agent_service_halt` | violation | 1 collector, no faults | a halt ends the service |
| `agent_service_unit` | violation | the rendered command line | the unit comes up |
| `identity` | pass | 1 agent, 2 threads, 2 subjects, 2 tenants, 2 keys (threads and keys symmetric), 2 rows, 1 access | stable pseudonyms, readable rows, audited disclosure |
| `identity_key_race` | violation | 2 agents | a key is never replaced |
| `file_monitor` | pass | 2 roots, 2 paths, 2 notices, 3 clock readings, 2 faults | each change in one place, rates over the right time, sensitive writes, no change left behind |
| `collectors` | pass | any subset of 3 collectors; 4 changes of the host for one, 1 for two, none for three; 2 users and 2 pids with sockets (symmetric), 1 endpoint, 2 protocols, 1 pid that is sampled, 1 record, 5 clock readings, 1 fault; hosts in UTC, west and east of it | packets, attribution, CPU figures, failed logins |

Bounds. An eviction needs one row more than the cap and an order needs two
evicted or kept rows to be wrong: three events over a cap of two. Two threads are enough for an
interleaving, because all that threads share is behind one lock and the stamp
before it. A restart lets a state left by one process be read by the next; all ten
properties of this run are proved for any number of events, threads and restarts.
`Enforcement` has no bound at all: its state space is finite.
Two operators suffice for one to disturb the other. In `AgentService` the fault
counter is what makes "faults do not go on for ever" expressible. In `Identity`
two rows are one too many for a subject, or one each for two subjects or tenants;
deaths and restarts are not bounded. In `FileMonitor` two notices are one for each
of two roots, or two in one window or in two; two faults are a clock set back and a
sweep that raises; the number of sweeps is not bounded. In `CollectorSweep` the
collectors share nothing but the turn, so each has its cases alone (an owner that
comes, goes and leaves a packet behind; a pid that changes hands between the table and
the look-up; a pid used again; a record written, read by three sweeps two ticks
apart, rotated), and their composition needs fewer changes: `MaxLoad` bounds the changes
of the host and counts three for every collector after the first. The offsets are one
interval west and one east, with UTC in the same zone as the latter: enough to hide a
record from the sweep that is due and to count one a third time. The
properties of `UserActivity` are about each record by itself, so one record will do;
the clock allows three sweeps of a process.

Fairness. `Enforcement!FairSpec`: weak fairness of the agent's steps (one thread
that does not wait between system calls) and of its restart (Restart=always).
`AgentService!FairSpec`: weak fairness of the main thread (collectors return, the
interval ends), of the delivery of a pending signal, and of systemd's timers.
`FileMonitor!FairSpec`: weak fairness of the sweep, which the runner repeats until
it is told to stop, and of a `record()` that holds its lock. `CollectorSweep` states safety only. No fairness for
`close()`, new notices, operators, administrators, faults or the disk.

## What the checks show about the code

Six statements of the repository about itself do not hold (`findings` in
`PROJECT.json` has the quotations):

1. `append()` inserts before it checks the free space, so a halted store goes on
   writing (`event_store_halt`).
2. Deleting and declaring are two transactions; a kill in between loses rows
   without a record (`event_store_crash`).
3. A sentinel holding JSON that is not an object makes `enforce()` raise and ends
   the agent (`enforcement_raises`).
4. `StorageHalted` is swallowed by `_handle`, so the agent never exits with 78
   (`agent_service_halt`).
5. The rendered unit, and the README, put `--interval` after the subcommand, where
   argparse refuses it (`agent_service_unit`).
6. `create_key` tests and then replaces: two agents that start together leave one
   of them with a key that is no longer on disk (`identity_key_race`).

The rest holds, within these conditions: `LossesDeclared`, `HaltOnRecord` and
`OvershootBounded` assume that no statement failed (and, for the first, no kill): a
statement that fails between the DELETE and its record loses rows like finding 2, and one
that fails on the gap record (350) leaves a store halted whose halt is on no record;
`RowCountExact` excludes a halted store, whose rows are not counted;
`DowntimeIsReal` assumes events of one level, which is what is recorded today:
with mixed levels eviction may remove the newest row. `EventSurvives` excepts a
kill and finding 3. `StopCompletes` needs systemd's SIGKILL, because of `stuck`.
`ActionHonoursSwitch`
admits an action while the switch is on if an `lstat` of that very check failed, and then
only with a report: `killswitch.py:147-149` and `219-223` return `engaged=False`, unlike
the text that cannot be read, which counts as engaged.
`KeepsSweeping` excepts a process that ends with the status of a halt.
`StablePseudonym` and `MapReadable` are about one agent process, which is what v1
runs (`docs/sprint-1-debts.md`); with two, the first is a known debt and the
second falls with finding 6. An agent that creates its key in a directory others
may read starts once: `load_key` refuses that directory from then on.

`RateOverOwnWindow` excepts the roots after one whose event could not be built:
`collect()` has set `_last_sweep` already, so their next counts span two windows
and are divided by one. `ChangesLeaveTheBuffer` rests on sweeps raising only so
often: a root that makes `_build_event` raise in every sweep keeps all roots after
it from ever being drained. `default_watch_roots` leaves out what does not exist when the agent starts, so
that a `/home` which is hidden or mounted later is neither watched nor on the list of
unwatchable roots, and that list goes to the log and not into the coverage report.

The collectors keep their promises with these exceptions. `PacketsConserved` admits
that a sweep which raises after `drain()` loses its flows, and that `close()` does not
drain: what was seen since the last sweep is gone. `OwnerHeldEndpoint` says less than
"never guessed at" (`collectors/network.py:18-19`): the map has no protocol and one
instant, so a port that changed hands in the window, or has a holder under each
protocol, is put down to one of them; and a pid that ended and was used again between
`net_connections()` (395) and `psutil.Process(pid).username()` (406) puts the flows of
its port down to a user who may never have held it. That last case is `misled`; without it TLC
finds the property violated. The collector of processes has no such case: psutil's memory and
`_sampled` go by pid and creation time. (psutil 6 and later raises `NoSuchProcess` for the
first look at a pid used again, which passes the process over for one sweep.)
`NoFailedLoginMissed` lists its exceptions.

Two of them are faults of the code, which are stated here and excepted by name in the
properties. The first is the stamp of `collectors/user_activity.py:116-121`, in UTC and
taken for local time. West of UTC the window begins later than meant, by the
offset: while sweeps are closer together than that, no new login is ever read, and
`NoFailedLoginMissed` is about hosts that are `NeverWest` (without that condition TLC finds it
violated). East of UTC it begins earlier, and a login is counted by every sweep for as long as the
offset is: `CountsBounded` says how often, at most twice and once more for every
interval that fits into a second and the offset. In UTC, with sweeps a second or more
apart, that is "at most twice"; east of it TLC finds the latter violated. The second is a failed read:
`read_since` returns an empty list, and the events say that there were no
failed logins in a log marked readable, which `collectors/user_activity.py:10-13` ("it
does not report zero failed logins for a log it could not open") and
`tests/test_user_activity.py:106` ("an unreadable log yields None, never a reassuring
zero") rule out. A journal message that is not text makes the whole sweep raise. A restart
counts the last hour again, and `AuthLogFileSource` ignores `since`, so that it counts
the whole file in every sweep. Uses of sudo by a user without a session and
without failed logins are in no event.

One figure is not what its docstring says, without a run here: `_starts` gets an entry
for every flow of every sweep, so one long connection looks like a beacon with the
period of the sweep (`interval_variance`, `collectors/network.py:209-222`).

## Proofs

All for every value of the constants, from the named assumptions
`ConstantsAssumption`, `SwitchAssumption`, `RunnerAssumption`, `IdentityAssumption`,
`MonitorAssumption`, `NetworkAssumption`, `ProcessAssumption`, `ActivityAssumption`
and `SweepAssumption`. They give the types of the constants and say that `CheckEvery`
and `Second` are not zero, that the values for "no key", "no subject", "nobody", "the
host" and "no root" are none of the others, and that no two watch roots have the same label
(`default_watch_roots` makes them of an owner and a name). Every invariant that a
passing run checks has its theorem `Spec => []P`, from an inductive invariant that
contains P. What was not inductive by itself was first checked by TLC as an
invariant of the run's instance.

- **EventStore.** The invariant is built in layers, each using the ones before:
  `Control` (who is where, lock against `pc`); `Fresh` and `HaltControl` (ids are
  not reused, when `halted` may be set); `Counting` (what `_row_count` is short of
  the table by at each statement: the cached count is exact only between appends,
  so the invariant has to say how wrong it is in between), `Evicting` (what
  `doomed` is at `delete` and `record`) and `CapRespected`; then `LossesDeclared`,
  `HaltRecorded`, `SpaceInv` (rows below the floor against the counter of the space
  check) and `LatestKept` (the newest stamp is in the table, for one level). That
  SELECT and DELETE take the same rows rests on `FirstRowsUnique`: a total order
  has one initial segment of each size.
- **RecordedLog.** `StoreImplementsRecordedLog`: the table of the abstract
  specification is the rows in the table plus those deleted and not yet declared;
  a crash or failure in that window is the fault that excuses one batch.
- **Enforcement.** `SwitchInv` (a directory that is gone holds nothing; what is
  about to be renamed is whole) and `PipelineInv`, whose core is `SightKept`: a
  check in hand has seen the present state of the switch. Every stage's knowledge
  (at `act`, `"off" \in seen` or a failed `lstat` that was reported; at `metadata`,
`"trusted" \in seen`) follows.
  `EventNeverRefused` is an action property, the safety half of `EventSurvives`: what
  the engines leave on an event is always `Consistent`, so `_handle` ends with the
  event recorded, by a kill, or by finding 3.
- **AgentService.** `LoopInv`: what each loop over the collectors has still to
  visit, together with what it has done, is what it began with.
- **Identity.** For any number of agents: `LabelInv` (the map in memory and what a
  thread has minted are rows of the agent's tenant and the right subject; needed
  because a label is taken from them steps later) and `AuditInv` (what a request
  holds before and after its audit row). For one agent (`OneAgent`): `KeyOK` (a
  cipher in use is the one on disk, and whoever is about to write a key finds none)
  and `StableInv`: no subject has two rows, because the map in memory has every row
  of the tenant but the one a thread holds at `keep`, and one thread is at `mint`
  or `keep` at a time.
  `StoreImplementsRegister`: one agent implements `PseudonymRegister`, with the rows
  of `identity_map` as the entries and `labels` as what was given out. Only `Mint`
  enters, and `StableInv` says that it does so for a subject without a row.
- **FileMonitor.** `SlotsApart` is what the lock of a handler gives: the dispatcher
  writes to the slot the handler refers to and `collect()` holds the other one, so
  that `NoChangeMiscounted` never has one object in two places. `SweepInOrder` and
  `DrainedInTurn` say which roots the sweep in hand has passed: such a root has
  `since = lastSweep`, one ahead has `lastSweep - window`, unless it was left behind;
  that is what `Drain` needs for `RateOverOwnWindow`. `BuffersOK` ties the categories
  of each object to its paths.
- **CollectorSweep.** `StepOfEach` splits a step of the composition into one step,
  or none, of each collector, so that each invariant is about its own collector.
  *Network*: `NetControl` (which dict the observer writes to and which is in hand) and
  `NetWindow` (the rows not looked up yet are of holders; the map that `refresh()` fills,
and then the owner map, is a part of who held the endpoints in the window and of `misled`), with
  `PacketsConserved` and `OwnerHeldEndpoint`. *Process*: `ProcInv`, what the collector
  has sampled psutil has looked at.
- **UserActivity.** `NeverWest => MissInv`: a failed login that is still outstanding is in
  reach of the next read, of the read in hand, among the records read, or has its user in
  the events, whichever stage `collect()` is at. That a read finds what is in its reach
  (`ReadFinds`) is where the zone counts. `CountInv` (`Ageing` of every record) bounds the
  age of a record by how often it was counted: n counts make it n - 1 intervals old
  (`Span`) and as old as the time rested since, so that the next window, which begins less
  than a second and an offset before `since` (`WindowReach`), has it only if n - 1 intervals
  fit in there (`Fits`). It holds while the source is the journal and the clock was not
  set back; `ForwardClock` (nothing is in the future) holds for every source and has to be
  an invariant of its own, because a restart may change the source.

Induction over data. The library's induction theorems take an operator, which the
provers cannot instantiate; `FileMonitorProofs` goes around that with sets. `LeastMember`
(from the well-foundedness of the numbers) gives `InductionUpTo` for a set of numbers in the
place of a predicate, and `Recursion` with `RecursionUnique` give existence and
uniqueness of a function defined by recursion. With these `TotalOf` (the sum over a
sequence of events) and `DefaultWatchRoots` (the candidates that exist) are recursive
functions about which `TotalOfMore` and `WatchRootsTyped` are proved.

Only model-checked: the liveness properties `EventSurvives`, `StopCompletes`,
`KeepsSweeping` and `ChangesLeaveTheBuffer` (fairness and ENABLED are outside the
prover) and the violations. Only proved: `EventNeverRefused` and
`StoreImplementsRegister`, which say of every instance more than their runs ask.

## Not modelled

The texts (status report, unit file, log messages), `validate_unit`, SQL queries
that only read, the cipher, the parsing of packets and log lines, configuration.
For `AgentRunner` a collector is whatever its interface allows; `CollectorSweep` and
`FileMonitor` have the real ones. What an event of a collector says beyond what the
properties tell apart (sizes, times, entropies, parents, paths, privileges) is left
out. `find_gaps`, `span`, `recording_status` and the status command only read: what
they say is a function of the tables. One promise about them is broken without a step
in between: `event_store.py:58-60` and `tests/test_coverage_gaps.py:304-305` say that
`detect_downtime` and `find_gaps` cannot disagree on what a gap is, but the first records a
break of exactly the threshold and the second leaves it out, one rounds through
`julianday`, and an outage ends with the start of the process for one and with the next row for
the other. Watchdog's own queue
and the estimate of inotify watches, which only warns, are left out. Power failures (files that were not synced) are not modelled.

## Plan

1. The runner's pipeline as an implementation of an abstract "every observation is
   recorded or declared lost", across `AgentRunner`, `Enforcement` and `EventStore`.
2. Action properties of the collectors that follow from the invariants proved: what a
   restart may lose, and that what was reported is never reported again.
