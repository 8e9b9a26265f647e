-------------------------- MODULE NetworkCollector --------------------------
(***************************************************************************)
(* The network collector (ebabf/collectors/network.py): the capture thread *)
(* adds packets to the flow table (FlowTable.observe), and the sweep reads *)
(* the socket table, takes the flows and makes an event of each (collect). *)
(*                                                                         *)
(* drain() puts a new dict in the place of the old; a dict is a slot here, *)
(* and there are two, the one packets go to and the one taken last.  What  *)
(* a packet adds to its flow is one: sizes, directions, times and DNS      *)
(* entropies are figures of the event that nothing depends on.  A packet   *)
(* that is neither TCP nor UDP over IP leaves no trace (_observe).         *)
(***************************************************************************)
EXTENDS Integers, FiniteSets

CONSTANTS
    Endpoints,  \* local addresses with their ports
    Protocols,  \* "tcp" and "udp"
    Remotes,    \* remote addresses with their ports
    SocketPids, \* pids of processes that open sockets
    Users,      \* users of the host
    Nobody,     \* the value of an endpoint without a pid, of owner_of without a user
    Host        \* HOST_SUBJECT

ASSUME NetworkAssumption == Nobody \notin Users \cup SocketPids /\ Host \notin Users

VARIABLES
    sockets,   \* the kernel's table: which pid holds each endpoint, by protocol
    userOf,    \* the user whose process has each pid
    listing,   \* rows of `connections` that refresh() has not come to yet
    found,     \* `owners`, the dict refresh() fills
    owners,    \* SocketOwnerResolver._owners
    capturing, \* _started; FALSE when start() raised and the runner dropped us
    tables,    \* the dicts of flows: packets of each
    current,   \* which of the two _flows refers to
    observer,  \* the packet whose observe() holds _lock
    netStage,  \* how far collect() is
    netEvents, \* what collect() has yielded
    misled,    \* history: the look-ups that named a user who was not the holder's
               \* when the table was read
    held,      \* history: who has held which endpoint since the last drain()
    heldThen,  \* history: the same for the window of the flows in hand
    owed       \* history: packets seen, and neither reported nor lost by a failure

FlowKey == [protocol : Protocols, local : Endpoints, remote : Remotes]
NoFlows == [k \in FlowKey |-> 0]
NoEvents == <<>>
NoPacket == [slot |-> 2]

netWorld == <<sockets, userOf, held>>
netBuffer == <<tables, current, observer, owed>>
netLookup == <<listing, found, misled>>
netSweep == <<netLookup, owners, netStage, netEvents, heldThen>>
netVars == <<netWorld, netBuffer, netSweep, capturing>>

NoOwners == [e \in Endpoints |-> Nobody]

\* A row of the socket table, with the user the pid belonged to when it was read.
Row == [protocol : Protocols, local : Endpoints, pid : SocketPids, holder : Users]
Rows == {r \in Row : sockets[r.protocol][r.local] = r.pid /\ r.holder = userOf[r.pid]}
HeldNow == {<<r.local, r.holder>> : r \in Rows}

Drained == tables[1 - current]
InEvents(k) == IF k \in DOMAIN netEvents THEN netEvents[k].packets ELSE 0
-----------------------------------------------------------------------------
(***************************************************************************)
(* The host: sockets come and go, packets arrive                           *)
(***************************************************************************)

OpenSocket(p, e, x) ==
    /\ sockets[p][e] = Nobody
    /\ sockets' = [sockets EXCEPT ![p][e] = x]
    /\ UNCHANGED userOf /\ held' = held \cup HeldNow'
    /\ UNCHANGED <<netBuffer, netSweep, capturing>>

CloseSocket(p, e) ==
    /\ sockets[p][e] # Nobody
    /\ sockets' = [sockets EXCEPT ![p][e] = Nobody]
    /\ UNCHANGED <<userOf, held, netBuffer, netSweep, capturing>>

\* A pid comes to belong to another user: its process has ended, its sockets
\* with it, and the number is used again; or its process has changed its user.
PidChanges(x, u) ==
    /\ userOf[x] # u
    /\ userOf' = [userOf EXCEPT ![x] = u]
    /\ \/ sockets' = [p \in Protocols |->
                         [e \in Endpoints |-> IF sockets[p][e] = x THEN Nobody ELSE sockets[p][e]]]
       \/ UNCHANGED sockets
    /\ held' = held \cup HeldNow'
    /\ UNCHANGED <<netBuffer, netSweep, capturing>>

\* observe() has the lock and the state of the packet's flow, made if need be.
BeginObserve(k) ==
    /\ capturing /\ observer = NoPacket
    /\ observer' = [key |-> k, slot |-> current]
    /\ UNCHANGED <<netWorld, tables, current, owed, netSweep, capturing>>

\* observe() adds the packet and gives the lock back.
EndObserve ==
    /\ observer # NoPacket
    /\ tables' = [tables EXCEPT ![observer.slot][observer.key] = @ + 1]
    /\ owed' = [owed EXCEPT ![observer.key] = @ + 1]
    /\ observer' = NoPacket
    /\ UNCHANGED <<netWorld, current, netSweep, capturing>>
-----------------------------------------------------------------------------
(***************************************************************************)
(* collect(), run to its end by list() in AgentRunner.sweep_once           *)
(***************************************************************************)

\* Mutant: a table that may not be read leaves the map of the last sweep.
RefreshDenied_Stale ==
    /\ netStage = "idle"
    /\ netStage' = "refreshed"
    /\ UNCHANGED <<netWorld, netBuffer, netLookup, owners, netEvents, heldThen, capturing>>

\* The socket table may not be read.
RefreshDenied ==
    /\ netStage = "idle"
    /\ owners' = NoOwners
    /\ netStage' = "refreshed"
    /\ UNCHANGED <<netWorld, netBuffer, netLookup, netEvents, heldThen, capturing>>

\* net_connections(): the rows of the socket table at one instant.
ReadSocketTable ==
    /\ netStage = "idle"
    /\ listing' = Rows /\ found' = NoOwners
    /\ netStage' = "listed"
    /\ UNCHANGED <<netWorld, netBuffer, misled, owners, netEvents, heldThen, capturing>>

\* The next row: the user its pid has now, in the place of what an earlier row
\* of the same endpoint gave; one without a pid, or whose process is gone or
\* may not be looked at, is passed over.
LookUp(r) ==
    /\ netStage = "listed" /\ r \in listing
    /\ listing' = listing \ {r}
    /\ \/ /\ found' = [found EXCEPT ![r.local] = userOf[r.pid]]
          /\ misled' = IF userOf[r.pid] = r.holder
                       THEN misled ELSE misled \cup {<<r.local, userOf[r.pid]>>}
       \/ UNCHANGED <<found, misled>>
    /\ UNCHANGED <<netWorld, netBuffer, owners, netStage, netEvents, heldThen, capturing>>

\* The map is the sweep's from when it is whole.
AdoptOwners ==
    /\ netStage = "listed" /\ listing = {}
    /\ owners' = found /\ found' = NoOwners
    /\ netStage' = "refreshed"
    /\ UNCHANGED <<netWorld, netBuffer, listing, misled, netEvents, heldThen, capturing>>

TakeFlows ==
    /\ tables' = [tables EXCEPT ![1 - current] = NoFlows]
    /\ current' = 1 - current
    /\ heldThen' = held
    /\ held' = HeldNow
    /\ netStage' = "drained"
    /\ UNCHANGED <<sockets, userOf, observer, owed, netLookup, owners, netEvents, capturing>>

\* Mutant: drain() does without the lock.
Drain_NoLock == netStage = "refreshed" /\ TakeFlows

\* drain(), with the lock.
Drain == netStage = "refreshed" /\ observer = NoPacket /\ TakeFlows

OwnerOf(k) == owners[k.local]

\* Mutant: the fallback is forgotten.
Subject_Owner(k) == OwnerOf(k)

\* owner or HOST_SUBJECT
Subject(k) == IF OwnerOf(k) = Nobody THEN Host ELSE OwnerOf(k)

\* One event for every flow; the runner has them when there are no more.
BuildFlows ==
    /\ netStage = "drained"
    /\ netEvents' = [k \in {l \in FlowKey : Drained[l] > 0} |->
                        [packets |-> Drained[k], subject |-> Subject(k)]]
    /\ tables' = [tables EXCEPT ![1 - current] = NoFlows]
    /\ netStage' = "built"
    /\ UNCHANGED <<netWorld, current, observer, owed, netLookup, owners, heldThen, capturing>>

\* The runner has handled the events.
FlowsHandled ==
    /\ netStage = "built"
    /\ owed' = [k \in FlowKey |-> owed[k] - InEvents(k)]
    /\ netEvents' = NoEvents /\ heldThen' = {} /\ misled' = {}
    /\ netStage' = "idle"
    /\ UNCHANGED <<netWorld, tables, current, observer, listing, found, owners, capturing>>

\* psutil raises what refresh() does not expect: nothing has been taken yet.
RefreshRaises ==
    /\ netStage \in {"idle", "listed"}
    /\ listing' = {} /\ found' = NoOwners /\ misled' = {}
    /\ netStage' = "idle"
    /\ UNCHANGED <<netWorld, netBuffer, owners, netEvents, heldThen, capturing>>

\* An event cannot be built (no pseudonym for its subject): the flows in hand
\* are lost, the ones with an event already too.
FlowsRaise ==
    /\ netStage = "drained" /\ Drained # NoFlows
    /\ owed' = [k \in FlowKey |-> owed[k] - Drained[k]]
    /\ tables' = [tables EXCEPT ![1 - current] = NoFlows]
    /\ heldThen' = {} /\ misled' = {}
    /\ netStage' = "idle"
    /\ UNCHANGED <<netWorld, current, observer, listing, found, owners, netEvents, capturing>>

\* A new process: start() of the capture succeeds, or raises CaptureUnavailable.
NetRestart ==
    /\ listing' = {} /\ found' = NoOwners /\ misled' = {} /\ owners' = NoOwners
    /\ capturing' \in BOOLEAN
    /\ tables' = [s \in 0 .. 1 |-> NoFlows] /\ current' = 0 /\ observer' = NoPacket
    /\ netStage' = "idle" /\ netEvents' = NoEvents
    /\ held' = HeldNow /\ heldThen' = {} /\ owed' = NoFlows
    /\ UNCHANGED <<sockets, userOf>>

NetInit ==
    /\ sockets = [p \in Protocols |-> [e \in Endpoints |-> Nobody]]
    /\ userOf \in [SocketPids -> Users]
    /\ listing = {} /\ found = NoOwners /\ misled = {} /\ owners = NoOwners
    /\ capturing \in BOOLEAN
    /\ tables = [s \in 0 .. 1 |-> NoFlows] /\ current = 0 /\ observer = NoPacket
    /\ netStage = "idle" /\ netEvents = NoEvents
    /\ held = {} /\ heldThen = {} /\ owed = NoFlows
-----------------------------------------------------------------------------
(***************************************************************************)
(* Properties                                                              *)
(***************************************************************************)

FlowEvent == [packets : Nat \ {0}, subject : Users \cup {Host}]

NetTypeOK ==
    /\ sockets \in [Protocols -> [Endpoints -> SocketPids \cup {Nobody}]]
    /\ userOf \in [SocketPids -> Users]
    /\ listing \subseteq Row
    /\ found \in [Endpoints -> Users \cup {Nobody}]
    /\ owners \in [Endpoints -> Users \cup {Nobody}]
    /\ capturing \in BOOLEAN
    /\ tables \in [0 .. 1 -> [FlowKey -> Nat]] /\ current \in 0 .. 1
    /\ observer = NoPacket \/ observer \in [key : FlowKey, slot : 0 .. 1]
    /\ netStage \in {"idle", "listed", "refreshed", "drained", "built"}
    /\ DOMAIN netEvents \subseteq FlowKey
    /\ \A k \in DOMAIN netEvents : netEvents[k] \in FlowEvent
    /\ held \subseteq Endpoints \X Users /\ heldThen \subseteq Endpoints \X Users
    /\ misled \subseteq Endpoints \X Users
    /\ owed \in [FlowKey -> Int]

\* A packet that was seen is in exactly one place until it is reported: in the
\* table, among the flows drain() has taken, or in an event; only a sweep that
\* raises and the end of the process lose it (observe, drain, collect).
PacketsConserved ==
    \A k \in FlowKey : owed[k] = tables[current][k] + Drained[k] + InEvents(k)

\* An event is put down to the host, or to a user who held the local endpoint
\* in the window of the event, from the drain() before to this one: never to
\* one who had let go of it by then (refresh, owner_of, collect).  The one
\* exception: refresh() asks whose a pid is after it has read the table, so
\* that a pid which has changed hands in between names the wrong user.
OwnerHeldEndpoint ==
    \A k \in DOMAIN netEvents :
        netEvents[k].subject # Host => <<k.local, netEvents[k].subject>> \in heldThen \cup misled
=============================================================================
