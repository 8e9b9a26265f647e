------------------------ MODULE CollectorSweepProofs ------------------------
(***************************************************************************)
(* Proofs about the network and the process collector in the sweeps of the *)
(* agent, for every value of the constants: any number of endpoints, users,*)
(* pids and packets, any interval, any number of failures and restarts.    *)
(*                                                                         *)
(* A step of the composition is a step of each collector, or leaves it     *)
(* alone; what a collector promises is proved from its own steps.          *)
(***************************************************************************)
EXTENDS CollectorSweep, FiniteSetTheorems, SequenceTheorems, TLAPS

NetworkStep ==
    \/ \E p \in Protocols, e \in Endpoints : CloseSocket(p, e) \/ \E x \in SocketPids : OpenSocket(p, e, x)
    \/ \E x \in SocketPids, u \in Users : PidChanges(x, u)
    \/ \E k \in FlowKey : BeginObserve(k)
    \/ EndObserve \/ RefreshDenied \/ ReadSocketTable \/ AdoptOwners \/ RefreshRaises
    \/ \E r \in listing : LookUp(r)
    \/ Drain \/ BuildFlows \/ FlowsHandled \/ FlowsRaise
    \/ NetRestart \/ UNCHANGED netVars

ProcessStep ==
    \/ \E p \in Pids : Spawn(p) \/ Exit(p)
    \/ Snapshot \/ BuildProcesses \/ ProcessesHandled \/ ProcessesRaise
    \/ ProcRestart \/ UNCHANGED procVars

UserStep ==
    \/ Tick \/ SetClockBack \/ Rotate
    \/ \E kind \in {"failed_auth", "sudo"}, user \in Accounts : WriteRecord(kind, user)
    \/ BeginCollect \/ ReadLog \/ ReadFails
    \/ \E sessions \in SUBSET Accounts : BuildActivity(sessions)
    \/ ActivityHandled \/ ActivityRaises
    \/ UserRestart \/ UNCHANGED userVars

\* A step of the agent or of the host is a step of every collector.
LEMMA StepOfEach == [Next]_vars => NetworkStep /\ ProcessStep /\ UserStep
<1> SUFFICES ASSUME [Next]_vars PROVE NetworkStep /\ ProcessStep /\ UserStep
  OBVIOUS
<1> USE DEF NetworkStep, ProcessStep, UserStep
<1>1. CASE NetworkHappens
  BY <1>1, Zenon DEF NetworkHappens
<1>2. CASE Capture
  BY <1>2, Zenon DEF Capture
<1>3. CASE ProcessHappens
  BY <1>3, Zenon DEF ProcessHappens
<1>4. CASE LogHappens
  BY <1>4, Zenon DEF LogHappens
<1>5. CASE TimePasses \/ ClockSetBack \/ BeginSweep
  BY <1>5, Zenon DEF TimePasses, ClockSetBack, BeginSweep
<1>6. CASE NetworkTurn \/ NetworkRaises
  BY <1>6, Zenon DEF NetworkTurn, NetworkRaises
<1>7. CASE ProcessTurn \/ ProcessRaises
  BY <1>7, Zenon DEF ProcessTurn, ProcessRaises
<1>8. CASE UserTurn
  BY <1>8, Zenon DEF UserTurn
<1>9. CASE UserReadFails \/ UserRaises
  BY <1>9, Zenon DEF UserReadFails, UserRaises
<1>10. CASE Restart
  BY <1>10, Zenon DEF Restart
<1>11. CASE UNCHANGED vars
  BY <1>11, Zenon DEF vars
<1> QED
  BY <1>1, <1>2, <1>3, <1>4, <1>5, <1>6, <1>7, <1>8, <1>9, <1>10, <1>11 DEF Next
-----------------------------------------------------------------------------
(***************************************************************************)
(* The network collector                                                   *)
(***************************************************************************)

\* The tables, the owners and the events of the network collector keep their
\* types.
LEMMA NetTypeInductive == NetTypeOK /\ NetworkStep => NetTypeOK'
<1> SUFFICES ASSUME NetTypeOK, NetworkStep PROVE NetTypeOK'
  OBVIOUS
<1> USE NetworkAssumption DEF NetTypeOK
<1>f. NoFlows \in [FlowKey -> Nat]
  BY DEF NoFlows
<1>e. DOMAIN NoEvents = {}
  BY DEF NoEvents
<1>r. Rows \subseteq Row
  BY DEF Rows
<1>h. HeldNow \subseteq Endpoints \X Users /\ HeldNow' \subseteq Endpoints \X Users
  BY DEF HeldNow, Rows, Row
<1>o. NoOwners \in [Endpoints -> Users \cup {Nobody}]
  BY DEF NoOwners
<1>d. 1 - current \in 0 .. 1 /\ Drained \in [FlowKey -> Nat]
  BY DEF Drained
<1>1. ASSUME NEW p \in Protocols, NEW e \in Endpoints,
             CloseSocket(p, e) \/ \E x \in SocketPids : OpenSocket(p, e, x)
      PROVE  NetTypeOK'
  <2>1. PICK v \in SocketPids \cup {Nobody} : sockets' = [sockets EXCEPT ![p][e] = v]
    BY <1>1, Zenon DEF CloseSocket, OpenSocket
  <2>2. held' \subseteq Endpoints \X Users
    BY <1>1, <1>h DEF CloseSocket, OpenSocket
  <2>3. sockets' \in [Protocols -> [Endpoints -> SocketPids \cup {Nobody}]]
    BY <2>1
  <2> QED BY <1>1, <2>2, <2>3 DEF CloseSocket, OpenSocket, netBuffer, netSweep, netLookup
<1>11. ASSUME NEW x \in SocketPids, NEW u \in Users, PidChanges(x, u) PROVE NetTypeOK'
  <2>1. userOf' \in [SocketPids -> Users] /\ held' \subseteq Endpoints \X Users
    BY <1>11, <1>h DEF PidChanges
  <2>2. sockets' \in [Protocols -> [Endpoints -> SocketPids \cup {Nobody}]]
    BY <1>11 DEF PidChanges
  <2> QED BY <1>11, <2>1, <2>2 DEF PidChanges, netBuffer, netSweep, netLookup
<1>12. ASSUME NEW r \in listing, LookUp(r) PROVE NetTypeOK'
  <2>1. r.local \in Endpoints /\ userOf[r.pid] \in Users
    BY DEF Row
  <2>2. found' \in [Endpoints -> Users \cup {Nobody}] /\ misled' \subseteq Endpoints \X Users
    BY <1>12, <2>1 DEF LookUp
  <2> QED BY <1>12, <2>2 DEF LookUp, netWorld, netBuffer
<1>2. ASSUME NEW k \in FlowKey, BeginObserve(k) PROVE NetTypeOK'
  BY <1>2 DEF BeginObserve, netWorld, netSweep, netLookup
<1>3. CASE EndObserve
  <2>1. observer \in [key : FlowKey, slot : 0 .. 1]
    BY <1>3 DEF EndObserve
  <2>2. tables' \in [0 .. 1 -> [FlowKey -> Nat]]
    BY <1>3, <2>1 DEF EndObserve
  <2>3. owed' \in [FlowKey -> Int]
    BY <1>3, <2>1 DEF EndObserve
  <2> QED BY <1>3, <2>2, <2>3 DEF EndObserve, netWorld, netSweep, netLookup
<1>4. CASE RefreshDenied \/ ReadSocketTable \/ AdoptOwners \/ RefreshRaises
  BY <1>4, <1>o, <1>r
  DEF RefreshDenied, ReadSocketTable, AdoptOwners, RefreshRaises, netWorld, netBuffer, netLookup
<1>5. CASE Drain
  BY <1>5, <1>d, <1>f, <1>h DEF Drain, TakeFlows, netLookup
<1>6. CASE BuildFlows
  <2>1. /\ DOMAIN netEvents' \subseteq FlowKey
        /\ \A k \in DOMAIN netEvents' : netEvents'[k] = [packets |-> Drained[k], subject |-> Subject(k)]
        /\ \A k \in DOMAIN netEvents' : Drained[k] > 0
    BY <1>6 DEF BuildFlows
  <2>2. ASSUME NEW k \in FlowKey PROVE Subject(k) \in Users \cup {Host}
    BY DEF Subject, OwnerOf, FlowKey
  <2>3. \A k \in DOMAIN netEvents' : netEvents'[k] \in FlowEvent
    BY <2>1, <2>2, <1>d DEF FlowEvent
  <2>4. tables' \in [0 .. 1 -> [FlowKey -> Nat]]
    BY <1>6, <1>d, <1>f DEF BuildFlows
  <2> QED BY <1>6, <2>1, <2>3, <2>4 DEF BuildFlows, netWorld, netLookup
<1>7. CASE FlowsHandled
  <2>1. ASSUME NEW k \in FlowKey PROVE InEvents(k) \in Int
    BY DEF InEvents, FlowEvent
  <2>2. owed' \in [FlowKey -> Int]
    BY <1>7, <2>1 DEF FlowsHandled
  <2> QED BY <1>7, <1>e, <2>2 DEF FlowsHandled, netWorld
<1>8. CASE FlowsRaise
  <2>1. owed' \in [FlowKey -> Int]
    BY <1>8, <1>d DEF FlowsRaise
  <2> QED BY <1>8, <1>d, <1>f, <2>1 DEF FlowsRaise, netWorld
<1>9. CASE NetRestart
  <2>1. owed' \in [FlowKey -> Int]
    BY <1>9 DEF NetRestart, NoFlows
  <2> QED BY <1>9, <1>f, <1>e, <1>h, <1>o, <2>1 DEF NetRestart
<1>10. CASE UNCHANGED netVars
  BY <1>10 DEF netVars, netWorld, netBuffer, netSweep, netLookup
<1> QED
  BY <1>1, <1>2, <1>3, <1>4, <1>5, <1>6, <1>7, <1>8, <1>9, <1>10, <1>11, <1>12 DEF NetworkStep

\* What observe() holds is the table packets go to; the other table, and the
\* events, are empty outside the stages of collect() that use them; and the
\* rows the sweep has read name holders in the window of its flows, as do the
\* owners it has looked up, unless a pid misled it.
NetControl ==
    /\ observer # NoPacket => observer.slot = current
    /\ netStage # "drained" => Drained = NoFlows
    /\ netStage # "built" => netEvents = NoEvents

NamesHeld(map, window) == \A e \in Endpoints : map[e] # Nobody => <<e, map[e]>> \in window

NetWindow ==
    /\ HeldNow \subseteq held
    /\ netStage = "listed" => /\ \A r \in listing : <<r.local, r.holder>> \in held
                              /\ NamesHeld(found, held \cup misled)
    /\ netStage = "refreshed" => NamesHeld(owners, held \cup misled)
    /\ netStage = "drained" => NamesHeld(owners, heldThen \cup misled)

NetInv == NetControl /\ NetWindow /\ PacketsConserved /\ OwnerHeldEndpoint

\* The stages of collect() and the lock of the flow table.
LEMMA NetControlInductive == NetTypeOK /\ NetControl /\ NetworkStep => NetControl'
<1> SUFFICES ASSUME NetTypeOK, NetControl, NetworkStep PROVE NetControl'
  OBVIOUS
<1> USE DEF NetControl, NetTypeOK, Drained
<1>n. \A x : [key |-> x, slot |-> current] # NoPacket
  BY DEF NoPacket
<1>1. ASSUME NEW p \in Protocols, NEW e \in Endpoints,
             CloseSocket(p, e) \/ \E x \in SocketPids : OpenSocket(p, e, x)
      PROVE  NetControl'
  BY <1>1 DEF CloseSocket, OpenSocket, netBuffer, netSweep
<1>10. ASSUME NEW x \in SocketPids, NEW u \in Users, PidChanges(x, u) PROVE NetControl'
  BY <1>10 DEF PidChanges, netBuffer, netSweep
<1>11. ASSUME NEW r \in listing, LookUp(r) PROVE NetControl'
  BY <1>11 DEF LookUp, netBuffer
<1>2. ASSUME NEW k \in FlowKey, BeginObserve(k) PROVE NetControl'
  BY <1>2 DEF BeginObserve, netSweep
<1>3. CASE EndObserve
  <2>1. tables'[1 - current] = tables[1 - current]
    BY <1>3 DEF EndObserve
  <2> QED BY <1>3, <2>1 DEF EndObserve, netSweep
<1>4. CASE RefreshDenied \/ ReadSocketTable \/ AdoptOwners \/ RefreshRaises
  BY <1>4 DEF RefreshDenied, ReadSocketTable, AdoptOwners, RefreshRaises, netBuffer
<1>5. CASE Drain
  BY <1>5 DEF Drain, TakeFlows
<1>6. CASE BuildFlows
  BY <1>6 DEF BuildFlows
<1>7. CASE FlowsHandled \/ FlowsRaise
  BY <1>7 DEF FlowsHandled, FlowsRaise
<1>8. CASE NetRestart
  BY <1>8 DEF NetRestart
<1>9. CASE UNCHANGED netVars
  BY <1>9 DEF netVars, netBuffer, netSweep
<1> QED
  BY <1>1, <1>2, <1>3, <1>4, <1>5, <1>6, <1>7, <1>8, <1>9, <1>10, <1>11 DEF NetworkStep

\* No step counts a packet twice or drops it unnoticed.
LEMMA PacketsInductive == NetTypeOK /\ NetControl /\ PacketsConserved /\ NetworkStep => PacketsConserved'
<1> SUFFICES ASSUME NetTypeOK, NetControl, PacketsConserved, NetworkStep,
                    NEW l \in FlowKey
             PROVE  (owed[l] = tables[current][l] + Drained[l] + InEvents(l))'
  BY DEF PacketsConserved
<1> USE DEF NetTypeOK, NetControl, PacketsConserved, Drained
<1>i. InEvents(l) \in Nat
  BY DEF InEvents, FlowEvent
<1>z. NoFlows[l] = 0
  BY DEF NoFlows
<1>e. netEvents = NoEvents => InEvents(l) = 0
  BY DEF NoEvents, InEvents
<1>f. netEvents' = NoEvents => InEvents(l)' = 0
  BY DEF NoEvents, InEvents
<1>1. ASSUME NEW p \in Protocols, NEW e \in Endpoints,
             CloseSocket(p, e) \/ \E x \in SocketPids : OpenSocket(p, e, x)
      PROVE  (owed[l] = tables[current][l] + Drained[l] + InEvents(l))'
  BY <1>1 DEF CloseSocket, OpenSocket, netBuffer, netSweep, InEvents
<1>11. ASSUME NEW x \in SocketPids, NEW u \in Users, PidChanges(x, u)
       PROVE  (owed[l] = tables[current][l] + Drained[l] + InEvents(l))'
  BY <1>11 DEF PidChanges, netBuffer, netSweep, InEvents
<1>12. ASSUME NEW r \in listing, LookUp(r)
       PROVE  (owed[l] = tables[current][l] + Drained[l] + InEvents(l))'
  BY <1>12 DEF LookUp, netBuffer, InEvents
<1>2. ASSUME NEW k \in FlowKey, BeginObserve(k)
      PROVE  (owed[l] = tables[current][l] + Drained[l] + InEvents(l))'
  BY <1>2 DEF BeginObserve, netSweep, InEvents
<1>3. CASE EndObserve
  <2>1. observer \in [key : FlowKey, slot : 0 .. 1] /\ observer.slot = current
    BY <1>3 DEF EndObserve
  <2>2. /\ tables'[current][l] = tables[current][l] + (IF l = observer.key THEN 1 ELSE 0)
        /\ tables'[1 - current][l] = tables[1 - current][l]
    BY <1>3, <2>1 DEF EndObserve
  <2>3. owed'[l] = owed[l] + (IF l = observer.key THEN 1 ELSE 0)
    BY <1>3, <2>1 DEF EndObserve
  <2>4. current' = current /\ InEvents(l)' = InEvents(l)
    BY <1>3 DEF EndObserve, netSweep, InEvents
  <2> QED BY <1>i, <2>2, <2>3, <2>4
<1>4. CASE RefreshDenied \/ ReadSocketTable \/ AdoptOwners \/ RefreshRaises
  BY <1>4 DEF RefreshDenied, ReadSocketTable, AdoptOwners, RefreshRaises, netBuffer, InEvents
<1>5. CASE Drain
  <2>1. /\ tables'[1 - current] = NoFlows /\ tables'[current] = tables[current]
        /\ current' = 1 - current /\ owed' = owed /\ netEvents' = netEvents
    BY <1>5 DEF Drain, TakeFlows
  <2>2. Drained = NoFlows /\ netEvents = NoEvents
    BY <1>5 DEF Drain
  <2> QED BY <1>z, <1>e, <1>f, <2>1, <2>2
<1>6. CASE BuildFlows
  <2>1. /\ tables'[1 - current] = NoFlows /\ tables'[current] = tables[current]
        /\ current' = current /\ owed' = owed /\ netEvents = NoEvents
    BY <1>6 DEF BuildFlows
  <2>2. InEvents(l)' = tables[1 - current][l]
    <3>1. /\ l \in DOMAIN netEvents' <=> tables[1 - current][l] > 0
          /\ l \in DOMAIN netEvents' => netEvents'[l].packets = tables[1 - current][l]
      BY <1>6 DEF BuildFlows
    <3> QED BY <3>1 DEF InEvents
  <2> QED BY <1>z, <1>e, <2>1, <2>2
<1>7. CASE FlowsHandled
  <2>1. /\ owed'[l] = owed[l] - InEvents(l) /\ tables' = tables /\ current' = current
        /\ netEvents' = NoEvents
    BY <1>7 DEF FlowsHandled
  <2> QED BY <1>i, <1>f, <2>1
<1>8. CASE FlowsRaise
  <2>1. /\ owed'[l] = owed[l] - tables[1 - current][l] /\ current' = current
        /\ tables'[1 - current] = NoFlows /\ tables'[current] = tables[current]
        /\ netEvents' = netEvents /\ netEvents = NoEvents
    BY <1>8 DEF FlowsRaise
  <2> QED BY <1>z, <1>e, <1>f, <2>1
<1>9. CASE NetRestart
  BY <1>9, <1>z, <1>f DEF NetRestart
<1>10. CASE UNCHANGED netVars
  BY <1>10 DEF netVars, netBuffer, netSweep, InEvents
<1> QED
  BY <1>1, <1>2, <1>3, <1>4, <1>5, <1>6, <1>7, <1>8, <1>9, <1>10, <1>11, <1>12 DEF NetworkStep

\* Whom an event is put down to has held the endpoint in the event's window,
\* unless a pid misled the sweep.
LEMMA OwnersInductive ==
    NetTypeOK /\ NetControl /\ NetWindow /\ OwnerHeldEndpoint /\ NetworkStep
        => NetWindow' /\ OwnerHeldEndpoint'
<1> SUFFICES ASSUME NetTypeOK, NetControl, NetWindow, OwnerHeldEndpoint, NetworkStep
             PROVE  NetWindow' /\ OwnerHeldEndpoint'
  OBVIOUS
<1> USE NetworkAssumption DEF NetTypeOK, NetControl, NetWindow, NamesHeld, OwnerHeldEndpoint
<1>h. ASSUME UNCHANGED <<sockets, userOf>> PROVE HeldNow' = HeldNow
  BY <1>h DEF HeldNow, Rows
<1>r. \A r \in Rows : <<r.local, r.holder>> \in HeldNow
  BY DEF HeldNow
<1>e. DOMAIN NoEvents = {}
  BY DEF NoEvents
<1>1. ASSUME NEW p \in Protocols, NEW e \in Endpoints, CloseSocket(p, e)
      PROVE  NetWindow' /\ OwnerHeldEndpoint'
  <2>1. Rows' \subseteq Rows
    BY <1>1 DEF CloseSocket, Rows, Row
  <2>2. HeldNow' \subseteq HeldNow
    BY <2>1 DEF HeldNow
  <2> QED BY <1>1, <2>2 DEF CloseSocket, netBuffer, netSweep, netLookup
<1>2. ASSUME NEW p \in Protocols, NEW e \in Endpoints, NEW x \in SocketPids, OpenSocket(p, e, x)
      PROVE  NetWindow' /\ OwnerHeldEndpoint'
  BY <1>2 DEF OpenSocket, netBuffer, netSweep, netLookup
<1>11. ASSUME NEW x \in SocketPids, NEW u \in Users, PidChanges(x, u)
       PROVE  NetWindow' /\ OwnerHeldEndpoint'
  BY <1>11 DEF PidChanges, netBuffer, netSweep, netLookup
<1>3. ASSUME NEW k \in FlowKey, BeginObserve(k) PROVE NetWindow' /\ OwnerHeldEndpoint'
  BY <1>3, <1>h DEF BeginObserve, netWorld, netSweep, netLookup
<1>4. CASE EndObserve
  BY <1>4, <1>h DEF EndObserve, netWorld, netSweep, netLookup
<1>5. CASE RefreshDenied \/ RefreshRaises
  BY <1>5, <1>e, <1>h DEF RefreshDenied, RefreshRaises, NoOwners, netWorld, netLookup
<1>12. CASE ReadSocketTable
  BY <1>12, <1>h, <1>r DEF ReadSocketTable, NoOwners, netWorld
<1>13. ASSUME NEW r \in listing, LookUp(r) PROVE NetWindow' /\ OwnerHeldEndpoint'
  <2>1. r.local \in Endpoints /\ <<r.local, r.holder>> \in held /\ misled \subseteq misled'
    BY <1>13 DEF LookUp, Row
  <2>2. \/ found' = found
        \/ /\ found' = [found EXCEPT ![r.local] = userOf[r.pid]]
           /\ <<r.local, userOf[r.pid]>> \in held \cup misled'
    BY <1>13, <2>1 DEF LookUp
  <2>3. NamesHeld(found', held \cup misled')
    BY <1>13, <2>1, <2>2 DEF LookUp
  <2> QED BY <1>13, <1>h, <2>1, <2>3 DEF LookUp, netWorld, netBuffer
<1>14. CASE AdoptOwners
  BY <1>14, <1>h DEF AdoptOwners, netWorld
<1>6. CASE Drain
  BY <1>6, <1>e, <1>h DEF Drain, TakeFlows, netLookup
<1>7. CASE BuildFlows
  <2>1. ASSUME NEW k \in DOMAIN netEvents', netEvents'[k].subject # Host
        PROVE  <<k.local, netEvents'[k].subject>> \in heldThen \cup misled
    <3>1. k \in FlowKey /\ netEvents'[k].subject = Subject(k)
      BY <1>7 DEF BuildFlows
    <3>2. k.local \in Endpoints /\ NamesHeld(owners, heldThen \cup misled)
      BY <1>7, <3>1 DEF BuildFlows, FlowKey
    <3>3. owners[k.local] # Nobody /\ Subject(k) = owners[k.local]
      BY <2>1, <3>1 DEF Subject, OwnerOf
    <3> QED BY <3>1, <3>2, <3>3
  <2> QED BY <1>7, <1>h, <2>1 DEF BuildFlows, netWorld, netLookup
<1>8. CASE FlowsHandled \/ FlowsRaise
  BY <1>8, <1>e, <1>h DEF FlowsHandled, FlowsRaise, netWorld
<1>9. CASE NetRestart
  BY <1>9, <1>e, <1>h DEF NetRestart
<1>10. CASE UNCHANGED netVars
  BY <1>10, <1>h DEF netVars, netWorld, netBuffer, netSweep, netLookup
<1> QED
  BY <1>1, <1>2, <1>3, <1>4, <1>5, <1>6, <1>7, <1>8, <1>9, <1>10, <1>11, <1>12, <1>13, <1>14
  DEF NetworkStep
-----------------------------------------------------------------------------
(***************************************************************************)
(* The process collector                                                   *)
(***************************************************************************)

\* What is live has been created, and its pid and create_time are a key.
LEMMA LiveKeys ==
    ProcTypeOK => /\ Live \subseteq Key
                  /\ \A x : x \in Live <=> x \in Key /\ processes[x[1]] = x[2]
BY DEF ProcTypeOK, Live, Key

LEMMA ProcTypeInductive == ProcTypeOK /\ ProcessStep => ProcTypeOK'
<1> SUFFICES ASSUME ProcTypeOK, ProcessStep PROVE ProcTypeOK'
  OBVIOUS
<1> USE ProcessAssumption DEF ProcTypeOK
<1>1. ASSUME NEW p \in Pids, Spawn(p) \/ Exit(p) PROVE ProcTypeOK'
  BY <1>1 DEF Spawn, Exit
<1>2. CASE Snapshot
  <2>1. Live \subseteq Key
    BY LiveKeys
  <2>2. PICK nameless \in SUBSET Live :
           snapshot' = {[key |-> x, owned |-> x \notin nameless,
                         cpu |-> IF x \in looked THEN "measured" ELSE "zero"] : x \in Live}
    BY <1>2 DEF Snapshot
  <2>3. \A x \in Live : [key |-> x, owned |-> x \notin nameless,
                         cpu |-> IF x \in looked THEN "measured" ELSE "zero"]
                        \in [key : Key, owned : BOOLEAN, cpu : {"measured", "zero"}]
    BY <2>1
  <2>4. snapshot' \subseteq [key : Key, owned : BOOLEAN, cpu : {"measured", "zero"}]
    BY <2>2, <2>3, Zenon
  <2> QED BY <1>2, <2>1, <2>4 DEF Snapshot, procWorld
<1>3. CASE BuildProcesses
  <2>1. ASSUME NEW entry \in Owned
        PROVE  /\ entry.key \in Key
               /\ ToEvent(entry) \in [key : Key, cpu : {"unknown", "measured", "zero"}]
    BY DEF Owned, ToEvent
  <2> QED BY <1>3, <2>1 DEF BuildProcesses, procWorld
<1>4. CASE ProcessesHandled
  BY <1>4 DEF ProcessesHandled, procWorld
<1>5. CASE ProcessesRaise
  BY <1>5 DEF ProcessesRaise, Owned, procWorld
<1>6. CASE ProcRestart
  BY <1>6 DEF ProcRestart, procWorld
<1>7. CASE UNCHANGED procVars
  BY <1>7 DEF procVars, procWorld
<1> QED BY <1>1, <1>2, <1>3, <1>4, <1>5, <1>6, <1>7 DEF ProcessStep

\* No create_time is in the future, so that a process which is gone does not
\* come back; what the collector has sampled and is still alive, psutil has
\* looked at; and a snapshot has measured what was sampled before it.
ProcInv ==
    /\ \A x \in sampled \cup Live : x[2] <= created
    /\ sampled \cap Live \subseteq looked
    /\ \A entry \in snapshot :
          /\ entry.key \in looked /\ entry.key[2] <= created
          /\ entry.key \in sampled => entry.cpu = "measured"
    /\ CpuNeverInvented

LEMMA ProcInductive == ProcTypeOK /\ ProcInv /\ ProcessStep => ProcInv'
<1> SUFFICES ASSUME ProcTypeOK, ProcInv, ProcessStep PROVE ProcInv'
  OBVIOUS
<1> USE DEF ProcInv, CpuNeverInvented
<1>t. ProcTypeOK'
  BY ProcTypeInductive
<1>l. ASSUME UNCHANGED processes PROVE Live' = Live
  BY <1>l DEF Live
<1>k. Live \subseteq Key /\ \A x : x \in Live <=> x \in Key /\ processes[x[1]] = x[2]
  BY LiveKeys
<1>1. ASSUME NEW p \in Pids, Spawn(p) PROVE ProcInv'
  <2>1. Live' \subseteq Live \cup {<<p, created + 1>>}
    BY <1>1 DEF Spawn, Live, ProcTypeOK
  <2>2. <<p, created + 1>> \notin sampled
    BY DEF ProcTypeOK
  <2>3. created' = created + 1 /\ created \in Nat
    BY <1>1 DEF Spawn, ProcTypeOK
  <2>4. \A x \in sampled \cup Live : x[2] \in Nat
    BY <1>k DEF ProcTypeOK, Key
  <2>5. \A entry \in snapshot : entry.key[2] \in Nat
    BY DEF ProcTypeOK, Key
  <2> QED BY <1>1, <2>1, <2>2, <2>3, <2>4, <2>5 DEF Spawn
<1>2. ASSUME NEW p \in Pids, Exit(p) PROVE ProcInv'
  <2>1. Live' \subseteq Live
    BY <1>2 DEF Exit, Live, ProcTypeOK
  <2> QED BY <1>2, <2>1 DEF Exit
<1>3. CASE Snapshot
  <2>1. \A entry \in snapshot' :
           entry.key \in Live /\ (entry.key \in looked => entry.cpu = "measured")
    BY <1>3 DEF Snapshot
  <2> QED BY <1>3, <1>l, <2>1 DEF Snapshot, procWorld
<1>4. CASE BuildProcesses
  <2>1. ASSUME NEW entry \in Owned PROVE ToEvent(entry).cpu # "zero"
    BY DEF Owned, ToEvent, FirstSighting
  <2>2. {entry.key : entry \in Owned} \subseteq looked
    BY DEF Owned
  <2>3. \A entry \in Owned : entry.key[2] <= created
    BY DEF Owned
  <2> QED BY <1>4, <1>l, <2>1, <2>2, <2>3 DEF BuildProcesses, procWorld
<1>5. CASE ProcessesHandled
  BY <1>5, <1>l DEF ProcessesHandled, procWorld
<1>6. CASE ProcessesRaise
  BY <1>6, <1>l DEF ProcessesRaise, Owned, procWorld
<1>7. CASE ProcRestart
  BY <1>7, <1>l DEF ProcRestart, procWorld
<1>8. CASE UNCHANGED procVars
  BY <1>8, <1>l DEF procVars, procWorld
<1> QED BY <1>1, <1>2, <1>3, <1>4, <1>5, <1>6, <1>7, <1>8 DEF ProcessStep
-----------------------------------------------------------------------------
(***************************************************************************)
(* Types of the user activity collector and of the sweep                   *)
(***************************************************************************)

\* A record more in the log, and its count.
LEMMA OneRecordMore ==
    ASSUME NEW S, NEW s \in Seq(S), NEW x \in S,
           NEW f \in [1 .. Len(s) -> Nat]
    PROVE  /\ Append(s, x) \in Seq(S) /\ Len(Append(s, x)) = Len(s) + 1
           /\ \A i \in 1 .. Len(s) : Append(s, x)[i] = s[i]
           /\ Append(s, x)[Len(s) + 1] = x
           /\ Append(f, 0) \in [1 .. Len(s) + 1 -> Nat]
           /\ \A i \in 1 .. Len(s) : Append(f, 0)[i] = f[i]
           /\ Append(f, 0)[Len(s) + 1] = 0
<1>1. Len(s) \in Nat
  OBVIOUS
<1>2. f \in Seq(Nat) /\ Len(f) = Len(s)
  BY <1>1
<1>3. /\ Append(f, 0) \in Seq(Nat) /\ Len(Append(f, 0)) = Len(s) + 1
      /\ \A i \in 1 .. Len(s) : Append(f, 0)[i] = f[i]
      /\ Append(f, 0)[Len(s) + 1] = 0
  BY <1>2, AppendProperties
<1>4. Append(f, 0) \in [1 .. Len(s) + 1 -> Nat]
  BY <1>1, <1>3, LenProperties
<1> QED BY <1>3, <1>4, AppendProperties

LEMMA LogTyped ==
    ASSUME UserTypeOK, NEW i \in Written
    PROVE  log[i].user \in Accounts /\ log[i].at \in 0 .. MaxClock
<1>1. log[i] \in LogRecord
  BY ElementOfSeq DEF UserTypeOK, Written
<1> QED BY <1>1 DEF LogRecord

LEMMA UserTypeInductive == UserTypeOK /\ UserStep => UserTypeOK'
<1> SUFFICES ASSUME UserTypeOK, UserStep PROVE UserTypeOK'
  OBVIOUS
<1> USE ActivityAssumption DEF UserTypeOK, Written
<1>n. Len(log) \in Nat
  OBVIOUS
<1>r. NotReading \in [stage : {"idle", "reading", "read", "built"}, since : Int,
                      records : SUBSET Written]
  BY DEF NotReading
<1>v. Never \in Int /\ Never < 0
  BY DEF Never
<1>s. \A o : ReadSince(o) \subseteq Written
  BY DEF ReadSince, Window, Sources
<1>1. CASE Tick \/ SetClockBack
  <2>1. clock' \in 0 .. MaxClock
    BY <1>1 DEF Tick, SetClockBack
  <2>2. setBack' \in BOOLEAN
    BY <1>1, Zenon DEF Tick, SetClockBack
  <2>3. UNCHANGED <<zone, log, rotated, source, userSweep, userHistory>>
    BY <1>1, Zenon DEF Tick, SetClockBack
  <2> QED BY <2>1, <2>2, <2>3 DEF userSweep, userHistory
<1>2. CASE Rotate
  BY <1>2 DEF Rotate, userSweep
<1>3. ASSUME NEW kind \in {"failed_auth", "sudo"}, NEW user \in Accounts, WriteRecord(kind, user)
      PROVE  UserTypeOK'
  <2>1. [kind |-> kind, user |-> user, at |-> clock] \in LogRecord
    BY DEF LogRecord
  <2>2. /\ log' = Append(log, [kind |-> kind, user |-> user, at |-> clock])
        /\ times' = Append(times, 0)
    BY <1>3 DEF WriteRecord
  <2>3. /\ log' \in Seq(LogRecord) /\ Len(log') = Len(log) + 1
        /\ times' \in [1 .. Len(log) + 1 -> Nat]
    BY <2>1, <2>2, OneRecordMore
  <2>4. Written \subseteq Written' /\ Len(log) + 1 \in Written'
    BY <1>n, <2>3
  <2>5. settled' \subseteq Written'
    <3>1. settled' \subseteq settled \cup {Len(log) + 1}
      BY <1>3, Zenon DEF WriteRecord
    <3>2. settled \subseteq Written
      OBVIOUS
    <3> HIDE DEF Written, UserTypeOK
    <3> QED BY <2>4, <3>1, <3>2
  <2> QED BY <1>3, <1>n, <2>3, <2>4, <2>5 DEF WriteRecord, userSweep
<1>4. CASE BeginCollect
  <2>1. reading' \in [stage : {"idle", "reading", "read", "built"}, since : Int,
                      records : SUBSET Written]
    BY <1>4, <1>v DEF BeginCollect, FirstSince
  <2>2. settled' \subseteq Written
    BY <1>4 DEF BeginCollect
  <2> QED BY <1>4, <1>n, <2>1, <2>2 DEF BeginCollect, userWorld
<1>5. CASE ReadLog \/ ReadFails
  <2>1. PICK records \in SUBSET Written :
            reading' = [reading EXCEPT !.stage = "read", !.records = records]
    <3>1. CASE ReadLog
      BY <1>s, <3>1, Zenon DEF ReadLog
    <3>2. CASE ReadFails
      <4>1. reading' = [reading EXCEPT !.stage = "read", !.records = reading.records]
        BY <3>2 DEF ReadFails
      <4> QED BY <4>1
    <3> QED BY <1>5, <3>1, <3>2
  <2>2. reading' \in [stage : {"idle", "reading", "read", "built"}, since : Int,
                      records : SUBSET Written]
    BY <2>1
  <2>3. settled' \subseteq Written
    BY <1>5, <1>s DEF ReadLog, ReadFails
  <2> QED BY <1>5, <2>2, <2>3 DEF ReadLog, ReadFails, userWorld
<1>6. ASSUME NEW sessions \in SUBSET Accounts, BuildActivity(sessions) PROVE UserTypeOK'
  <2>1. ASSUME NEW kind, NEW user PROVE Cardinality(OfKind(kind, user)) \in Nat
    <3>1. OfKind(kind, user) \subseteq 1 .. Len(log)
      BY DEF OfKind
    <3>2. IsFiniteSet(1 .. Len(log))
      BY <1>n, FS_Interval
    <3> QED BY <3>1, <3>2, FS_Subset, FS_CardinalityType
  <2>2. ASSUME NEW user \in Accounts
        PROVE  Activity(user) \in [user : Accounts, failed : Figure, sudo : Figure]
    BY <2>1 DEF Activity, Known, Figure
  <2>3. userEvents' \subseteq [user : Accounts, failed : Figure, sudo : Figure]
    BY <1>6, <2>2 DEF BuildActivity, Reported
  <2> QED BY <1>6, <2>3 DEF BuildActivity, userWorld, userHistory
<1>7. CASE ActivityHandled
  <2>1. Counted("failed_auth") \subseteq Written
    BY DEF Counted, OfKind
  <2>2. settled' \subseteq Written
    BY <1>7, <2>1 DEF ActivityHandled
  <2>3. times' \in [Written -> Nat]
    <3>1. \A i \in Written : times[i] \in Nat /\ times[i] + 1 \in Nat
      OBVIOUS
    <3>2. times' = [i \in Written |->
                       IF i \in Counted("failed_auth") THEN times[i] + 1 ELSE times[i]]
      BY <1>7 DEF ActivityHandled
    <3> QED BY <3>1, <3>2
  <2> QED BY <1>7, <1>n, <1>r, <2>2, <2>3 DEF ActivityHandled, userWorld
<1>8. CASE ActivityRaises
  <2>1. settled' \subseteq Written
    BY <1>8, <1>s DEF ActivityRaises
  <2> QED BY <1>8, <1>n, <1>r, <2>1 DEF ActivityRaises, userWorld
<1>9. CASE UserRestart
  BY <1>9, <1>n, <1>r DEF UserRestart, userWorld
<1>10. CASE UNCHANGED userVars
  BY <1>10 DEF userVars, userWorld, userSweep, userHistory
<1> QED
  BY <1>1, <1>2, <1>3, <1>4, <1>5, <1>6, <1>7, <1>8, <1>9, <1>10 DEF UserStep

\* The sweep passes from one collector to one that comes after it, or sleeps.
LEMMA TurnAfterTyped ==
    ASSUME NEW n \in 0 .. 3
    PROVE  TurnAfter(n) \in {"sleep"} \cup Surfaces /\ TurnAfter(3) = "sleep"
<1> DEFINE later(m) == {i \in DOMAIN Order : i > m /\ Order[i] \in Collectors}
<1>1. DOMAIN Order = {1, 2, 3}
  BY DEF Order
<1>2. later(3) = {}
  BY <1>1
<1>3. ASSUME later(n) # {} PROVE Min(later(n)) \in DOMAIN Order
  <2>1. later(n) \subseteq {1, 2, 3}
    BY <1>1
  <2>2. \E x \in later(n) : \A y \in later(n) : x <= y
    <3> HIDE DEF later
    <3> QED BY <1>3, <2>1
  <2>3. Min(later(n)) \in later(n)
    <3> HIDE DEF later
    <3> QED BY <2>2 DEF Min
  <2> QED BY <2>3
<1>4. \A i \in DOMAIN Order : Order[i] \in Surfaces
  BY DEF Surfaces
<1>5. TurnAfter(n) = IF later(n) = {} THEN "sleep" ELSE Order[Min(later(n))]
  BY DEF TurnAfter
<1>6. TurnAfter(3) = IF later(3) = {} THEN "sleep" ELSE Order[Min(later(3))]
  BY DEF TurnAfter
<1> HIDE DEF later
<1> QED BY <1>2, <1>3, <1>4, <1>5, <1>6

LEMMA PassTurnTyped ==
    ASSUME slept \in 0 .. Interval, built \subseteq Surfaces, NEW n \in 0 .. 3, PassTurn(n)
    PROVE  /\ turn' \in {"sleep"} \cup Surfaces /\ slept' \in 0 .. Interval
           /\ built' \subseteq Surfaces
BY TurnAfterTyped, SweepAssumption DEF PassTurn

LEMMA LoopTypeInductive == LoopTypeOK /\ [Next]_vars => LoopTypeOK'
<1> SUFFICES ASSUME LoopTypeOK, [Next]_vars PROVE LoopTypeOK'
  OBVIOUS
<1> USE DEF LoopTypeOK
<1>1. CASE NetworkHappens \/ Capture
  <2>1. UNCHANGED <<netStage, procStage, reading, turn, slept, built>>
    BY <1>1 DEF NetworkHappens, Capture, CloseSocket, OpenSocket, PidChanges, BeginObserve,
                EndObserve, netSweep, procVars, userVars, userSweep, loop
  <2> QED BY <2>1
<1>2. CASE ProcessHappens
  <2>1. UNCHANGED <<netStage, procStage, reading, turn, slept, built>>
    BY <1>2 DEF ProcessHappens, Spawn, Exit, netVars, netSweep, userVars, userSweep, loop
  <2> QED BY <2>1
<1>3. CASE LogHappens
  <2>1. UNCHANGED <<netStage, procStage, reading, turn, slept, built>>
    BY <1>3 DEF LogHappens, Rotate, WriteRecord, netVars, netSweep, procVars, userSweep, loop
  <2> QED BY <2>1
<1>4. CASE TimePasses
  <2>1. UNCHANGED <<netStage, procStage, reading, turn, built>>
    BY <1>4 DEF TimePasses, Tick, netVars, netSweep, procVars, userSweep
  <2>2. slept' \in 0 .. Interval
    BY <1>4, SweepAssumption DEF TimePasses
  <2> QED BY <2>1, <2>2
<1>5. CASE ClockSetBack
  <2>1. UNCHANGED <<netStage, procStage, reading, turn, slept, built>>
    BY <1>5 DEF ClockSetBack, SetClockBack, netVars, netSweep, procVars, userSweep, loop
  <2> QED BY <2>1
<1>6. CASE BeginSweep
  <2>1. /\ netStage = "idle" /\ procStage = "idle" /\ reading = NotReading
        /\ UNCHANGED <<netStage, procStage, reading>>
    BY <1>6 DEF BeginSweep, netVars, netSweep, procVars, userVars, userSweep
  <2>2. PassTurn(0)
    BY <1>6 DEF BeginSweep
  <2> QED BY <2>1, <2>2, PassTurnTyped
<1>7. CASE NetworkTurn \/ NetworkRaises
  <2>1. /\ turn = "network" /\ procStage = "idle" /\ reading = NotReading
        /\ UNCHANGED <<procStage, reading>>
    BY <1>7 DEF NetworkTurn, NetworkRaises, procVars, userVars, userSweep
  <2>2. UNCHANGED loop \/ (PassTurn(1) /\ netStage' = "idle")
    BY <1>7 DEF NetworkTurn, NetworkRaises, FlowsHandled, RefreshRaises, FlowsRaise,
                netVars, netSweep
  <2>3. CASE UNCHANGED loop
    BY <2>1, <2>3 DEF loop
  <2>4. CASE PassTurn(1) /\ netStage' = "idle"
    BY <2>1, <2>4, PassTurnTyped
  <2> QED BY <2>2, <2>3, <2>4
<1>8. CASE ProcessTurn \/ ProcessRaises
  <2>1. /\ turn = "process" /\ netStage = "idle" /\ reading = NotReading
        /\ UNCHANGED <<netStage, reading>>
    BY <1>8 DEF ProcessTurn, ProcessRaises, netVars, netSweep, userVars, userSweep
  <2>2. UNCHANGED loop \/ (PassTurn(2) /\ procStage' = "idle")
    BY <1>8 DEF ProcessTurn, ProcessRaises, ProcessesHandled, ProcessesRaise
  <2>3. CASE UNCHANGED loop
    BY <2>1, <2>3 DEF loop
  <2>4. CASE PassTurn(2) /\ procStage' = "idle"
    BY <2>1, <2>4, PassTurnTyped
  <2> QED BY <2>2, <2>3, <2>4
<1>9. CASE UserTurn \/ UserReadFails \/ UserRaises
  <2>1. /\ turn = "user_activity" /\ netStage = "idle" /\ procStage = "idle"
        /\ UNCHANGED <<netStage, procStage>>
    BY <1>9 DEF UserTurn, UserReadFails, UserRaises, netVars, netSweep, procVars
  <2>2. UNCHANGED loop \/ (PassTurn(3) /\ reading' = NotReading)
    BY <1>9 DEF UserTurn, UserReadFails, UserRaises, ActivityHandled, ActivityRaises
  <2>3. CASE UNCHANGED loop
    BY <2>1, <2>3 DEF loop
  <2>4. CASE PassTurn(3) /\ reading' = NotReading
    BY <2>1, <2>4, PassTurnTyped
  <2> QED BY <2>2, <2>3, <2>4
<1>10. CASE Restart
  BY <1>10, SweepAssumption DEF Restart, NetRestart, ProcRestart, UserRestart
<1>11. CASE UNCHANGED vars
  <2>1. UNCHANGED <<netStage, procStage, reading, turn, slept, built>>
    BY <1>11 DEF vars, netVars, netSweep, procVars, userVars, userSweep, loop
  <2> QED BY <2>1
<1> QED
  BY <1>1, <1>2, <1>3, <1>4, <1>5, <1>6, <1>7, <1>8, <1>9, <1>10, <1>11 DEF Next
-----------------------------------------------------------------------------
(***************************************************************************)
(* The theorems                                                            *)
(***************************************************************************)

LEMMA InitTyped == Init => TypeOK
<1> SUFFICES ASSUME Init PROVE TypeOK
  OBVIOUS
<1>1. NetTypeOK
  BY DEF Init, NetInit, NetTypeOK, NoOwners, NoFlows, NoEvents
<1>2. ProcTypeOK
  BY ProcessAssumption DEF Init, ProcInit, ProcTypeOK
<1>3. UserTypeOK
  <2>1. log \in Seq(LogRecord) /\ Len(log) = 0 /\ times \in [1 .. 0 -> Nat]
    BY DEF Init, UserInit
  <2>2. reading \in [stage : {"idle", "reading", "read", "built"}, since : Int,
                     records : SUBSET Written]
    BY DEF Init, UserInit, NotReading
  <2>3. setBack \in BOOLEAN /\ rotated \subseteq Written /\ settled \subseteq Written
    BY Zenon DEF Init, UserInit
  <2> QED BY <2>1, <2>2, <2>3, ActivityAssumption DEF Init, UserInit, UserTypeOK, Written
<1>4. LoopTypeOK
  BY SweepAssumption DEF Init, NetInit, ProcInit, UserInit, LoopTypeOK
<1> QED BY <1>1, <1>2, <1>3, <1>4 DEF TypeOK

LEMMA TypeInductive == TypeOK /\ [Next]_vars => TypeOK'
BY StepOfEach, NetTypeInductive, ProcTypeInductive, UserTypeInductive, LoopTypeInductive
DEF TypeOK

\* The three collectors and the sweep keep their types, and only the collector
\* whose turn it is has a sweep in hand, wherever the agent fails or restarts
\* (AgentRunner.sweep_once).
THEOREM CollectorsTypeCorrect == Spec => []TypeOK
BY InitTyped, TypeInductive, PTL DEF Spec

LEMMA NetInitially == Init => NetInv
<1> SUFFICES ASSUME Init PROVE NetInv
  OBVIOUS
<1>1. NetControl /\ OwnerHeldEndpoint /\ PacketsConserved
  BY DEF Init, NetInit, NetControl, Drained, NoEvents, OwnerHeldEndpoint, PacketsConserved,
         InEvents, NoFlows
<1>2. HeldNow = {}
  BY NetworkAssumption DEF Init, NetInit, HeldNow, Rows, Row
<1> QED BY <1>1, <1>2 DEF Init, NetInit, NetInv, NetWindow

LEMMA NetInductive == TypeOK /\ NetInv /\ [Next]_vars => NetInv'
BY StepOfEach, NetControlInductive, PacketsInductive, OwnersInductive DEF TypeOK, NetInv

LEMMA NetAlways == Spec => []NetInv
BY NetInitially, NetInductive, CollectorsTypeCorrect, PTL DEF Spec

\* Every packet the capture thread has seen is in exactly one place until it
\* is reported or lost with a failure: the table, the flows in hand, or an
\* event, for any number of packets, flows and sweeps (observe, drain, collect).
THEOREM PacketsConservedAlways == Spec => []PacketsConserved
BY NetAlways, PTL DEF NetInv

\* An event is put down to a user only if the user held its local endpoint in
\* the event's window, however sockets and pids change hands while the sweep is
\* on, or if a pid changed hands between the reading of the socket table and
\* the look-up of its user (refresh, owner_of, collect).
THEOREM OwnerHeldEndpointAlways == Spec => []OwnerHeldEndpoint
BY NetAlways, PTL DEF NetInv

LEMMA ProcInitially == Init => ProcInv
<1> SUFFICES ASSUME Init PROVE ProcInv
  OBVIOUS
<1>1. \A x \in Live : x[2] <= 1
  BY DEF Init, ProcInit, Live
<1> QED BY <1>1 DEF Init, ProcInit, ProcInv, CpuNeverInvented

LEMMA ProcAlwaysStep == TypeOK /\ ProcInv /\ [Next]_vars => ProcInv'
BY StepOfEach, ProcInductive DEF TypeOK

\* No event has the 0.0 of psutil's first look at a process for its CPU time,
\* however often pids are used again and sweeps raise (_to_event).
THEOREM CpuNeverInventedAlways == Spec => []CpuNeverInvented
<1>1. Spec => []ProcInv
  BY ProcInitially, ProcAlwaysStep, CollectorsTypeCorrect, PTL DEF Spec
<1> QED BY <1>1, PTL DEF ProcInv
=============================================================================
