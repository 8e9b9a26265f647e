--------------------------- MODULE IdentityProofs ---------------------------
(***************************************************************************)
(* Proofs about Identity: for any number of agents a label has its row and *)
(* a disclosure its audit row; for one agent, which is what v1 runs, a     *)
(* pseudonym is stable and identity.db readable.                           *)
(***************************************************************************)
EXTENDS Identity, TLAPS

\* Row i of identity_map is that of subject s under tenant t.
IsRow(i, t, s) ==
    i \in DOMAIN identity_map /\ identity_map[i].tenant = t /\ identity_map[i].subject = s

\* A thread has work only in an agent that is up; what it holds is its own row.
ThreadsOK ==
    \A a \in Agents, t \in Threads :
        /\ at[a][t] # "idle" => phase[a] = "up" /\ arg[a][t] \in Subjects
        /\ at[a][t] = "keep" => IsRow(minted[a][t], tenant[a], arg[a][t])

\* The map in memory holds rows of the agent's tenant, and a key goes with it.
ForwardOK ==
    \A a \in Agents :
        /\ phase[a] \in {"replace", "open", "up"} => key[a] \in Keys
        /\ \A s \in Subjects :
             forward[a][s] # 0 => phase[a] = "up" /\ IsRow(forward[a][s], tenant[a], s)

LabelInv == TypeOK /\ ThreadsOK /\ ForwardOK /\ LabelHasItsRow
-----------------------------------------------------------------------------
\* A row that is there stays what it is when another one is minted.
LEMMA AppendKeeps ==
    ASSUME TypeOK, NEW r \in Row, identity_map' = Append(identity_map, r)
    PROVE  /\ Len(identity_map') = Len(identity_map) + 1
           /\ DOMAIN identity_map' = 1 .. Len(identity_map) + 1
           /\ DOMAIN identity_map = 1 .. Len(identity_map)
           /\ Len(identity_map) \in Nat
           /\ \A i \in DOMAIN identity_map : identity_map'[i] = identity_map[i]
           /\ identity_map'[Len(identity_map) + 1] = r
           /\ identity_map' \in Seq(Row)
  BY DEF TypeOK

\* What a row holds.
LEMMA RowType ==
    ASSUME TypeOK, NEW i \in DOMAIN identity_map
    PROVE  identity_map[i].subject \in Subjects /\ identity_map[i].key \in Keys
<1>1. identity_map[i] \in Row
  BY DEF TypeOK
<1> QED BY <1>1 DEF Row

\* Changing the entry of one thread, or of one subject, of one agent.
LEMMA ExceptOne ==
    ASSUME NEW S, NEW T, NEW V, NEW f \in [S -> [T -> V]], NEW a \in S, NEW t \in T, NEW v \in V,
           NEW g, g = [f EXCEPT ![a][t] = v]
    PROVE  /\ g \in [S -> [T -> V]]
           /\ \A b \in S, u \in T : g[b][u] = IF b = a /\ u = t THEN v ELSE f[b][u]
<1>1. g = [f EXCEPT ![a] = [f[a] EXCEPT ![t] = v]]
  OBVIOUS
<1>2. \A b \in S : g[b] = IF b = a THEN [f[a] EXCEPT ![t] = v] ELSE f[b]
  BY <1>1
<1>3. g \in [S -> [T -> V]]
  BY <1>1
<1>4. \A u \in T : [f[a] EXCEPT ![t] = v][u] = IF u = t THEN v ELSE f[a][u]
  OBVIOUS
<1> QED BY <1>2, <1>3, <1>4

\* The initial state.
LEMMA LabelInit == ASSUME Init PROVE LabelInv
  BY IdentityAssumption DEF Init, LabelInv, TypeOK, ThreadsOK, ForwardOK, LabelHasItsRow, IsRow

\* The end of a process.
LEMMA LabelGone ==
    ASSUME LabelInv, NEW a \in Agents, Gone(a), UNCHANGED <<files, labels>>
    PROVE  LabelInv'
<1>1. TypeOK'
  BY DEF LabelInv, TypeOK, Gone, files
<1>2. ThreadsOK'
  BY DEF LabelInv, TypeOK, ThreadsOK, Gone, files, IsRow
<1>3. ForwardOK'
  BY DEF LabelInv, TypeOK, ForwardOK, Gone, files, IsRow
<1>4. LabelHasItsRow'
  BY DEF LabelInv, LabelHasItsRow, files
<1> QED BY <1>1, <1>2, <1>3, <1>4 DEF LabelInv

\* The boot.
LEMMA LabelBoot ==
    ASSUME LabelInv, NEW a \in Agents, Boot(a)
    PROVE  LabelInv'
<1> USE DEF LabelInv
<1>1. CASE LoadKey(a)
  <2>0. PICK u \in Tenants : tenant' = [tenant EXCEPT ![a] = u]
    BY <1>1 DEF LoadKey
  <2>01. phase' \in [Agents -> {"down", "create", "replace", "open", "up"}]
    BY <1>1 DEF LoadKey, TypeOK
  <2>02. key' \in [Agents -> Keys \cup {NoKey}]
    BY <1>1 DEF LoadKey, TypeOK
  <2>1. TypeOK'
    BY <1>1, <2>0, <2>01, <2>02 DEF LoadKey, TypeOK, files, labelling
  <2>2. ThreadsOK'
    BY <1>1 DEF LoadKey, TypeOK, ThreadsOK, files, labelling, glass, IsRow
  <2>3. ForwardOK'
    BY <1>1 DEF LoadKey, TypeOK, ForwardOK, files, labelling, glass, IsRow
  <2>4. LabelHasItsRow'
    BY <1>1 DEF LoadKey, LabelHasItsRow, files
  <2> QED BY <2>1, <2>2, <2>3, <2>4
<1>2. CASE CreateKey(a)
  <2>0. CASE keyFile # NoKey
    BY <2>0, <1>2, LabelGone DEF CreateKey
  <2>00. CASE keyFile = NoKey
    <3>0. PICK k \in Keys : key' = [key EXCEPT ![a] = k]
      BY <1>2, <2>00 DEF CreateKey
    <3>1. TypeOK'
      BY <1>2, <2>00, <3>0 DEF CreateKey, TypeOK, files, labelling
    <3>2. ThreadsOK'
      BY <1>2, <2>00 DEF CreateKey, TypeOK, ThreadsOK, files, labelling, IsRow
    <3>3. ForwardOK'
      BY <1>2, <2>00, <3>0 DEF CreateKey, TypeOK, ForwardOK, files, labelling, IsRow
    <3>4. LabelHasItsRow'
      BY <1>2 DEF CreateKey, LabelHasItsRow, files
    <3> QED BY <3>1, <3>2, <3>3, <3>4
  <2> QED BY <2>0, <2>00
<1>3. CASE ReplaceKey(a)
  <2>1. TypeOK'
    BY <1>3 DEF ReplaceKey, TypeOK, labelling, glass
  <2>2. ThreadsOK'
    BY <1>3 DEF ReplaceKey, TypeOK, ThreadsOK, labelling, IsRow
  <2>3. ForwardOK'
    BY <1>3 DEF ReplaceKey, TypeOK, ForwardOK, labelling, IsRow
  <2>4. LabelHasItsRow'
    BY <1>3 DEF ReplaceKey, LabelHasItsRow
  <2> QED BY <2>1, <2>2, <2>3, <2>4
<1>4. CASE LoadForward(a)
  <2>0. CASE ~(\A i \in RowsOf(tenant[a]) : identity_map[i].key = key[a])
    BY <2>0, <1>4, LabelGone DEF LoadForward
  <2>00. CASE \A i \in RowsOf(tenant[a]) : identity_map[i].key = key[a]
    <3>0. PICK f \in ForwardMaps(tenant[a]) : forward' = [forward EXCEPT ![a] = f]
      BY <1>4, <2>00 DEF LoadForward
    <3>1. \A s \in Subjects : f[s] # 0 => IsRow(f[s], tenant[a], s)
      BY <3>0 DEF ForwardMaps, RowsOf, IsRow
    <3>2. f \in [Subjects -> Pseudonym \cup {0}]
      BY <3>0, IdentityAssumption DEF ForwardMaps, TypeOK, Pseudonym
    <3>3. TypeOK'
      BY <1>4, <2>00, <3>0, <3>2 DEF LoadForward, TypeOK, files
    <3>4. ThreadsOK'
      BY <1>4, <2>00 DEF LoadForward, TypeOK, ThreadsOK, files, IsRow
    <3>5. ForwardOK'
      BY <1>4, <2>00, <3>0, <3>1, <3>2 DEF LoadForward, TypeOK, ForwardOK, files, IsRow
    <3>6. LabelHasItsRow'
      BY <1>4 DEF LoadForward, LabelHasItsRow, files
    <3> QED BY <3>3, <3>4, <3>5, <3>6
  <2> QED BY <2>0, <2>00
<1> QED BY <1>1, <1>2, <1>3, <1>4 DEF Boot

\* pseudonymize() returns a pseudonym that is a row of its subject.
LEMMA LabelReturn ==
    ASSUME LabelInv, NEW a \in Agents, NEW t \in Threads, NEW s \in Subjects, NEW p,
           Label(a, t, s, p), IsRow(p, tenant[a], s),
           forward' = forward \/ forward' = [forward EXCEPT ![a][s] = p],
           phase[a] = "up", UNCHANGED <<files, boot>>
    PROVE  LabelInv'
<1> USE DEF LabelInv
<1>0. p \in Pseudonym
  BY IdentityAssumption DEF IsRow, TypeOK, Pseudonym
<1>01. /\ forward' \in [Agents -> [Subjects -> Pseudonym \cup {0}]]
       /\ \A b \in Agents, u \in Subjects :
            forward'[b][u] = forward[b][u] \/ (b = a /\ u = s /\ forward'[b][u] = p)
  <2>1. CASE forward' = forward
    BY <2>1 DEF TypeOK
  <2>2. CASE forward' = [forward EXCEPT ![a][s] = p]
    <3> DEFINE V == Pseudonym \cup {0}
    <3>1. forward \in [Agents -> [Subjects -> V]] /\ p \in V
      BY <1>0 DEF TypeOK
    <3> HIDE DEF V
    <3>2. /\ forward' \in [Agents -> [Subjects -> V]]
          /\ \A b \in Agents, u \in Subjects :
               forward'[b][u] = IF b = a /\ u = s THEN p ELSE forward[b][u]
      BY <2>2, <3>1, ExceptOne
    <3> QED BY <3>2 DEF V
  <2> QED BY <2>1, <2>2
<1>03. labels' \subseteq [tenant : Tenants, subject : Subjects, pseudonym : Pseudonym]
  BY <1>0 DEF Label, TypeOK
<1>1. TypeOK'
  BY <1>01, <1>03 DEF Label, Leave, TypeOK, files, boot
<1>2. ThreadsOK'
  BY DEF Label, Leave, TypeOK, ThreadsOK, files, boot, IsRow
<1>3. ForwardOK'
  BY <1>01 DEF ForwardOK, files, boot, IsRow
<1>4. LabelHasItsRow'
  BY DEF Label, LabelHasItsRow, files, IsRow
<1> QED BY <1>1, <1>2, <1>3, <1>4

\* A step of pseudonymize().
LEMMA LabelPseudonymize ==
    ASSUME LabelInv, NEW a \in Agents, NEW t \in Threads,
           Pseudonymize(a, t) \/ \E s \in Subjects : Lookup(a, t, s)
    PROVE  LabelInv'
<1> USE DEF LabelInv
<1>0. ASSUME NEW s \in Subjects, Lookup(a, t, s) PROVE LabelInv'
  <2>1. CASE forward[a][s] # 0
    BY <1>0, <2>1, LabelReturn DEF Lookup, ForwardOK
  <2>2. CASE forward[a][s] = 0
    <3>0. /\ at' = [at EXCEPT ![a][t] = "lock"] /\ arg' = [arg EXCEPT ![a][t] = s]
          /\ UNCHANGED <<minted, labels, files, boot, forward>> /\ phase[a] = "up"
      BY <1>0, <2>2 DEF Lookup
    <3>01. /\ at' \in [Agents -> [Threads -> {"idle", "lock", "mint", "keep"}]]
           /\ \A b \in Agents, u \in Threads :
                at'[b][u] = IF b = a /\ u = t THEN "lock" ELSE at[b][u]
      BY <3>0, ExceptOne DEF TypeOK
    <3>02. /\ arg' \in [Agents -> [Threads -> Subjects \cup {NoSubject}]]
           /\ \A b \in Agents, u \in Threads :
                arg'[b][u] = IF b = a /\ u = t THEN s ELSE arg[b][u]
      BY <3>0, ExceptOne DEF TypeOK
    <3>1. TypeOK'
      BY <3>0, <3>01, <3>02 DEF TypeOK, files, boot
    <3>2. ThreadsOK'
      BY <3>0, <3>01, <3>02 DEF ThreadsOK, files, boot, IsRow
    <3>3. ForwardOK'
      BY <1>0, <2>2 DEF Lookup, ForwardOK, files, boot, IsRow
    <3>4. LabelHasItsRow'
      BY <1>0, <2>2 DEF Lookup, LabelHasItsRow, files
    <3> QED BY <3>1, <3>2, <3>3, <3>4
  <2> QED BY <2>1, <2>2
<1>1. CASE Recheck(a, t)
  <2>0. arg[a][t] \in Subjects /\ phase[a] = "up"
    BY <1>1 DEF Recheck, ThreadsOK
  <2>1. CASE forward[a][arg[a][t]] # 0
    BY <1>1, <2>0, <2>1, LabelReturn DEF Recheck, ForwardOK
  <2>2. CASE forward[a][arg[a][t]] = 0
    <3>0. at' = [at EXCEPT ![a][t] = "mint"] /\ UNCHANGED <<arg, minted, labels, files, boot, forward>>
      BY <1>1, <2>2 DEF Recheck
    <3>01. /\ at' \in [Agents -> [Threads -> {"idle", "lock", "mint", "keep"}]]
           /\ \A b \in Agents, u \in Threads :
                at'[b][u] = IF b = a /\ u = t THEN "mint" ELSE at[b][u]
      BY <3>0, ExceptOne DEF TypeOK
    <3>1. TypeOK'
      BY <3>0, <3>01 DEF TypeOK, files, boot
    <3>2. ThreadsOK'
      BY <2>0, <3>0, <3>01 DEF ThreadsOK, files, boot, IsRow
    <3>3. ForwardOK'
      BY <1>1, <2>2 DEF Recheck, ForwardOK, files, boot, IsRow
    <3>4. LabelHasItsRow'
      BY <1>1, <2>2 DEF Recheck, LabelHasItsRow, files
    <3> QED BY <3>1, <3>2, <3>3, <3>4
  <2> QED BY <2>1, <2>2
<1>2. CASE Mint(a, t)
  <2> DEFINE r == [tenant |-> tenant[a], subject |-> arg[a][t], key |-> key[a]]
  <2>0. r \in Row
    BY <1>2 DEF Mint, TypeOK, ThreadsOK, ForwardOK, Row
  <2>01. identity_map' = Append(identity_map, r)
    BY <1>2 DEF Mint
  <2> HIDE DEF r
  <2>02. /\ Len(identity_map') = Len(identity_map) + 1
         /\ DOMAIN identity_map' = 1 .. Len(identity_map) + 1
         /\ DOMAIN identity_map = 1 .. Len(identity_map)
         /\ Len(identity_map) \in Nat
         /\ \A i \in DOMAIN identity_map : identity_map'[i] = identity_map[i]
         /\ identity_map'[Len(identity_map) + 1] = r
         /\ identity_map' \in Seq(Row)
    BY <2>0, <2>01, AppendKeeps
  <2>03. \A i, u, s : IsRow(i, u, s) => IsRow(i, u, s)'
    BY <2>02 DEF IsRow
  <2>04. Len(identity_map) + 1 \in Pseudonym /\ Len(identity_map') <= MaxRows
    BY <1>2, <2>02, IdentityAssumption DEF Mint, Pseudonym
  <2>05. /\ minted' \in [Agents -> [Threads -> Pseudonym \cup {0}]]
         /\ \A b \in Agents, u \in Threads :
              minted'[b][u] = IF b = a /\ u = t THEN Len(identity_map) + 1 ELSE minted[b][u]
    <3> DEFINE V == Pseudonym \cup {0}
    <3>1. minted \in [Agents -> [Threads -> V]] /\ Len(identity_map) + 1 \in V
      BY <2>04 DEF TypeOK
    <3>2. minted' = [minted EXCEPT ![a][t] = Len(identity_map) + 1]
      BY <1>2 DEF Mint
    <3> HIDE DEF V
    <3>3. /\ minted' \in [Agents -> [Threads -> V]]
          /\ \A b \in Agents, u \in Threads :
               minted'[b][u] = IF b = a /\ u = t THEN Len(identity_map) + 1 ELSE minted[b][u]
      BY <3>1, <3>2, ExceptOne
    <3> QED BY <3>3 DEF V
  <2>06. /\ at' \in [Agents -> [Threads -> {"idle", "lock", "mint", "keep"}]]
         /\ \A b \in Agents, u \in Threads :
              at'[b][u] = IF b = a /\ u = t THEN "keep" ELSE at[b][u]
    BY <1>2, ExceptOne DEF Mint, TypeOK
  <2>07. UNCHANGED <<keyFile, readers, boot, forward, arg, labels>> /\ at[a][t] = "mint"
    BY <1>2 DEF Mint
  <2>08. IsRow(minted[a][t], tenant[a], arg[a][t])'
    <3>1. r.tenant = tenant[a] /\ r.subject = arg[a][t]
      BY DEF r
    <3> QED BY <3>1, <2>02, <2>05, <2>07 DEF IsRow, boot
  <2>1. TypeOK'
    BY <2>02, <2>04, <2>05, <2>06, <2>07 DEF TypeOK, boot
  <2>2. ThreadsOK'
    BY <2>03, <2>05, <2>06, <2>07, <2>08 DEF ThreadsOK, boot
  <2>3. ForwardOK'
    BY <1>2, <2>03 DEF Mint, ForwardOK, boot
  <2>4. LabelHasItsRow'
    BY <1>2, <2>02 DEF Mint, LabelHasItsRow
  <2> QED BY <2>1, <2>2, <2>3, <2>4
<1>3. CASE MintFails(a, t)
  <2>1. TypeOK'
    BY <1>3 DEF MintFails, Leave, TypeOK, files, boot
  <2>2. ThreadsOK'
    BY <1>3 DEF MintFails, Leave, TypeOK, ThreadsOK, files, boot, IsRow
  <2>3. ForwardOK'
    BY <1>3 DEF MintFails, ForwardOK, files, boot, IsRow
  <2>4. LabelHasItsRow'
    BY <1>3 DEF MintFails, LabelHasItsRow, files
  <2> QED BY <2>1, <2>2, <2>3, <2>4
<1>4. CASE Remember(a, t)
  BY <1>4, LabelReturn DEF Remember, ThreadsOK
<1> QED BY <1>0, <1>1, <1>2, <1>3, <1>4 DEF Pseudonymize

\* A step that leaves key file, rows, processes and labels alone.
LEMMA LabelElsewhere ==
    ASSUME LabelInv, keyFile' = keyFile, identity_map' = identity_map,
           readers' \in {"owner", "others"}, UNCHANGED <<boot, labelling, labels>>
    PROVE  LabelInv'
  BY DEF LabelInv, TypeOK, ThreadsOK, ForwardOK, LabelHasItsRow, IsRow, boot, labelling

\* Every step.
LEMMA LabelNext == ASSUME LabelInv, [Next]_vars PROVE LabelInv'
<1>1. CASE Chmod
  BY <1>1, LabelElsewhere DEF Chmod
<1>2. CASE UNCHANGED vars
  BY <1>2, LabelElsewhere DEF vars, files, LabelInv, TypeOK
<1>3. ASSUME NEW a \in Agents, Die(a) PROVE LabelInv'
  BY <1>3, LabelGone DEF Die
<1>4. ASSUME NEW a \in Agents, Disclose(a) PROVE LabelInv'
  <2>1. UNCHANGED <<files, boot, labelling, labels>>
    BY <1>4 DEF Disclose, BeginAccess, Resolve
  <2> QED BY <2>1, LabelElsewhere DEF files, LabelInv, TypeOK
<1>5. ASSUME NEW a \in Agents, NEW e, NEW n, NEW m, NEW r, BreakGlass(a, e, n, m, r)
      PROVE  LabelInv'
  <2>1. UNCHANGED <<files, boot, labelling, labels>>
    BY <1>5 DEF BreakGlass
  <2> QED BY <2>1, LabelElsewhere DEF files, LabelInv, TypeOK
<1> QED BY <1>1, <1>2, <1>3, <1>4, <1>5, LabelBoot, LabelPseudonymize DEF Next

\* The types of the model, for any number of agents, threads and subjects.
THEOREM TypeCorrect == Spec => []TypeOK
<1>1. LabelInv => TypeOK
  BY DEF LabelInv
<1> QED BY <1>1, LabelInit, LabelNext, PTL DEF Spec

\* Whatever processes share identity.db, and wherever they die, the pseudonym
\* on an event is that of a row for its subject and tenant.
THEOREM LabelsHaveRows == Spec => []LabelHasItsRow
<1>1. LabelInv => LabelHasItsRow
  BY DEF LabelInv
<1> QED BY <1>1, LabelInit, LabelNext, PTL DEF Spec
-----------------------------------------------------------------------------
(***************************************************************************)
(* Disclosure                                                              *)
(***************************************************************************)

\* Rows of the log with a reason and two different people.
Entry ==
    {row \in [pseudonym : Pseudonym, actor : Names, second_approver : Names, reason : Reasons] :
        Strip[row.reason] # "" /\ Strip[row.actor] # Strip[row.second_approver]}

\* What a request holds before its audit row is written, and after.
RequestOK(r) ==
    /\ r.step \in {"begin", "resolve"} =>
         \E l \in labels : l.pseudonym = r.event.pseudonym
    /\ r.step = "begin" =>
         /\ r.actor \in Names /\ r.approver \in Names /\ r.reason \in Reasons
         /\ Strip[r.reason] # "" /\ Strip[r.actor] # Strip[r.approver]
    /\ r.step = "resolve" => r.pseudonym = r.event.pseudonym

RequestsOK == DOMAIN request = Agents /\ \A a \in Agents : RequestOK(request[a])

AuditInv == identity_access_log \in Seq(Entry) /\ RequestsOK /\ DisclosureAudited

\* A step that adds labels at most, and ends requests at most.
LEMMA AuditElsewhere ==
    ASSUME AuditInv, labels \subseteq labels', UNCHANGED <<identity_access_log, disclosed>>,
           \/ request' = request
           \/ \E a \in Agents : request' = [request EXCEPT ![a] = NoRequest]
    PROVE  AuditInv'
<1>1. RequestsOK'
  <2>0. DOMAIN request' = Agents
    BY DEF AuditInv, RequestsOK
  <2>1. ASSUME NEW b \in Agents PROVE RequestOK(request[b])'
    <3>1. CASE request'[b] = request[b]
      <4>1. RequestOK(request[b])
        BY DEF AuditInv, RequestsOK
      <4>2. (\E l \in labels : l.pseudonym = request[b].event.pseudonym) =>
              \E l \in labels' : l.pseudonym = request'[b].event.pseudonym
        BY <3>1
      <4> QED BY <3>1, <4>1, <4>2 DEF RequestOK
    <3>2. CASE request'[b] = NoRequest
      BY <3>2 DEF RequestOK, NoRequest
    <3>3. request'[b] = request[b] \/ request'[b] = NoRequest
      BY DEF AuditInv, RequestsOK
    <3> QED BY <3>1, <3>2, <3>3
  <2> QED BY <2>0, <2>1 DEF RequestsOK
<1>2. DisclosureAudited'
  BY DEF AuditInv, DisclosureAudited
<1> QED BY <1>1, <1>2 DEF AuditInv

\* A request that passes the conditions.
LEMMA AuditBreakGlass ==
    ASSUME AuditInv, NEW a \in Agents, NEW e \in StoredEvents, NEW n \in Names, NEW m \in Names,
           NEW r \in Reasons, BreakGlass(a, e, n, m, r)
    PROVE  AuditInv'
<1> DEFINE q == [step |-> "begin", event |-> e, actor |-> n, approver |-> m, reason |-> r]
<1>1. request' = [request EXCEPT ![a] = q] /\ UNCHANGED <<labels, identity_access_log, disclosed>>
  BY DEF BreakGlass
<1>2. RequestOK(q)
  BY DEF BreakGlass, Permitted, StoredEvents, RequestOK
<1>3. RequestsOK'
  BY <1>1, <1>2 DEF AuditInv, RequestsOK, RequestOK
<1>4. DisclosureAudited'
  BY <1>1 DEF AuditInv, DisclosureAudited
<1> QED BY <1>1, <1>3, <1>4 DEF AuditInv

\* The audit row.
LEMMA AuditBegin ==
    ASSUME LabelInv, AuditInv, NEW a \in Agents, BeginAccess(a)
    PROVE  AuditInv'
<1> DEFINE row == [pseudonym |-> request[a].event.pseudonym, actor |-> request[a].actor,
                   second_approver |-> request[a].approver, reason |-> request[a].reason]
           q == [step |-> "resolve", event |-> request[a].event,
                 access_id |-> Len(identity_access_log) + 1,
                 pseudonym |-> request[a].event.pseudonym]
<1>0. RequestOK(request[a]) /\ request[a].step = "begin"
  BY DEF BeginAccess, AuditInv, RequestsOK
<1>1. /\ identity_access_log' = Append(identity_access_log, row)
      /\ request' = [request EXCEPT ![a] = q] /\ UNCHANGED <<labels, disclosed>>
  BY DEF BeginAccess
<1>2. row \in Entry
  <2>1. request[a].event.pseudonym \in Pseudonym
    BY <1>0 DEF RequestOK, LabelInv, TypeOK
  <2> QED BY <1>0, <2>1 DEF RequestOK, Entry
<1>3. RequestOK(q)
  BY <1>0 DEF RequestOK
<1> HIDE DEF row, q
<1>4. /\ identity_access_log' \in Seq(Entry)
      /\ DOMAIN identity_access_log \subseteq DOMAIN identity_access_log'
      /\ \A i \in DOMAIN identity_access_log : identity_access_log'[i] = identity_access_log[i]
  BY <1>1, <1>2 DEF AuditInv
<1>5. RequestsOK'
  BY <1>1, <1>3 DEF AuditInv, RequestsOK, RequestOK
<1>6. DisclosureAudited'
  <2> SUFFICES ASSUME NEW x \in disclosed
               PROVE  /\ \E m \in labels : m.pseudonym = x.event.pseudonym /\ m.subject = x.subject
                      /\ \E i \in DOMAIN identity_access_log' :
                           LET e == identity_access_log'[i]
                           IN  /\ e.pseudonym = x.event.pseudonym /\ Strip[e.reason] # ""
                               /\ Strip[e.actor] # Strip[e.second_approver]
    BY <1>1 DEF DisclosureAudited
  <2>1. PICK i \in DOMAIN identity_access_log :
             LET e == identity_access_log[i]
             IN  /\ e.pseudonym = x.event.pseudonym /\ Strip[e.reason] # ""
                 /\ Strip[e.actor] # Strip[e.second_approver]
    BY DEF AuditInv, DisclosureAudited
  <2>2. identity_access_log'[i] = identity_access_log[i] /\ i \in DOMAIN identity_access_log'
    BY <1>4
  <2>3. \E m \in labels : m.pseudonym = x.event.pseudonym /\ m.subject = x.subject
    BY DEF AuditInv, DisclosureAudited
  <2> QED BY <2>1, <2>2, <2>3
<1> QED BY <1>4, <1>5, <1>6 DEF AuditInv

\* The disclosure.
LEMMA AuditResolve ==
    ASSUME LabelInv, AuditInv, NEW a \in Agents, Resolve(a)
    PROVE  AuditInv'
<1> DEFINE grant == request[a]
           p == grant.pseudonym
           d == [event |-> grant.event, subject |-> identity_map[p].subject]
<1>0. RequestOK(grant) /\ grant.step = "resolve"
  BY DEF Resolve, AuditInv, RequestsOK
<1>1. CASE disclosed' = disclosed
  BY <1>1, AuditElsewhere DEF Resolve
<1>2. CASE disclosed' # disclosed
  <2>1. /\ Audited(grant) /\ disclosed' = disclosed \cup {d}
        /\ request' = [request EXCEPT ![a] = NoRequest] /\ UNCHANGED <<labels, identity_access_log>>
    BY <1>2 DEF Resolve
  <2>2. PICK l \in labels : l.pseudonym = grant.event.pseudonym
    BY <1>0 DEF RequestOK
  <2>3. l.subject = d.subject /\ p = grant.event.pseudonym
    BY <1>0, <2>2 DEF RequestOK, LabelInv, LabelHasItsRow
  <2>4. identity_access_log[grant.access_id] \in Entry
        /\ identity_access_log[grant.access_id].pseudonym = p
        /\ grant.access_id \in DOMAIN identity_access_log
    BY <2>1 DEF Audited, AuditInv
  <2>5. DisclosureAudited'
    <3> HIDE DEF grant, p
    <3>0. d.event = grant.event
      OBVIOUS
    <3> SUFFICES ASSUME NEW x \in disclosed'
                 PROVE  /\ \E m \in labels' : m.pseudonym = x.event.pseudonym /\ m.subject = x.subject
                        /\ \E i \in DOMAIN identity_access_log' :
                             LET row == identity_access_log'[i]
                             IN  /\ row.pseudonym = x.event.pseudonym /\ Strip[row.reason] # ""
                                 /\ Strip[row.actor] # Strip[row.second_approver]
      BY DEF DisclosureAudited
    <3>1. CASE x \in disclosed
      BY <3>1, <2>1 DEF AuditInv, DisclosureAudited
    <3>2. CASE x = d
      <4> HIDE DEF d
      <4>1. l \in labels' /\ l.pseudonym = x.event.pseudonym /\ l.subject = x.subject
        BY <3>0, <3>2, <2>1, <2>2, <2>3
      <4>2. LET row == identity_access_log'[grant.access_id]
            IN  /\ row.pseudonym = x.event.pseudonym /\ Strip[row.reason] # ""
                /\ Strip[row.actor] # Strip[row.second_approver]
        BY <3>0, <3>2, <2>1, <2>3, <2>4 DEF Entry
      <4> QED BY <4>1, <4>2, <2>1, <2>4
    <3> QED BY <3>1, <3>2, <2>1
  <2>6. RequestsOK'
    BY <2>1 DEF AuditInv, RequestsOK, RequestOK, NoRequest
  <2> QED BY <2>1, <2>5, <2>6 DEF AuditInv
<1> QED BY <1>1, <1>2

\* Every step.
LEMMA AuditNext == ASSUME LabelInv, AuditInv, [Next]_vars PROVE AuditInv'
<1>1. CASE Chmod \/ UNCHANGED vars
  BY <1>1, AuditElsewhere DEF Chmod, vars, glass
<1>2. ASSUME NEW a \in Agents, Die(a) PROVE AuditInv'
  BY <1>2, AuditElsewhere DEF Die, Gone
<1>3. ASSUME NEW a \in Agents, Boot(a) PROVE AuditInv'
  <2>1. UNCHANGED <<labels, identity_access_log, disclosed>>
    BY <1>3 DEF Boot, LoadKey, CreateKey, ReplaceKey, LoadForward, glass
  <2>2. request' = request \/ request' = [request EXCEPT ![a] = NoRequest]
    BY <1>3 DEF Boot, LoadKey, CreateKey, ReplaceKey, LoadForward, Gone, glass
  <2> QED BY <2>1, <2>2, AuditElsewhere
<1>4. ASSUME NEW a \in Agents, NEW t \in Threads, Pseudonymize(a, t) PROVE AuditInv'
  <2>1. UNCHANGED glass /\ labels \subseteq labels'
    BY <1>4 DEF Pseudonymize, Recheck, Mint, MintFails, Remember, Label
  <2> QED BY <2>1, AuditElsewhere DEF glass
<1>5. ASSUME NEW a \in Agents, NEW t \in Threads, NEW s \in Subjects, Lookup(a, t, s)
      PROVE  AuditInv'
  <2>1. UNCHANGED glass /\ labels \subseteq labels'
    BY <1>5 DEF Lookup, Label
  <2> QED BY <2>1, AuditElsewhere DEF glass
<1>6. ASSUME NEW a \in Agents, Disclose(a) PROVE AuditInv'
  BY <1>6, AuditBegin, AuditResolve DEF Disclose
<1> QED BY <1>1, <1>2, <1>3, <1>4, <1>5, <1>6, AuditBreakGlass DEF Next

\* Whatever processes share identity.db, and wherever they die, what
\* resolve_subject_for_event returns is the subject of the event, and the access
\* log already has a row for it with a reason and two different people.
THEOREM DisclosuresAudited == Spec => []DisclosureAudited
<1>1. Init => AuditInv
  <2> SUFFICES ASSUME Init PROVE AuditInv
    OBVIOUS
  <2>1. identity_access_log \in Seq(Entry)
    BY DEF Init
  <2>2. RequestsOK
    BY DEF Init, RequestsOK, RequestOK, NoRequest
  <2>3. DisclosureAudited
    BY DEF Init, DisclosureAudited
  <2> QED BY <2>1, <2>2, <2>3 DEF AuditInv
<1>2. AuditInv => DisclosureAudited
  BY DEF AuditInv
<1> QED BY <1>1, <1>2, LabelInit, LabelNext, AuditNext, PTL DEF Spec
-----------------------------------------------------------------------------
(***************************************************************************)
(* One agent                                                               *)
(***************************************************************************)

OneAgent == \A a, b \in Agents : a = b

\* The cipher of an agent that has one is that of the key file, and nobody is
\* about to write a key file that is there.
KeyOK ==
    \A a \in Agents :
        /\ phase[a] \in {"open", "up"} => key[a] = keyFile
        /\ phase[a] \in {"create", "replace"} => keyFile = NoKey

\* The end of the process, for the key.
LEMMA KeyGone ==
    ASSUME OneAgent, KeyOK, MapReadable, LabelInv, NEW a \in Agents, Gone(a), UNCHANGED files
    PROVE  (KeyOK /\ MapReadable)'
  BY DEF OneAgent, KeyOK, MapReadable, LabelInv, TypeOK, Gone, files

\* Every step keeps the rows readable.
LEMMA KeyNext ==
    ASSUME OneAgent, LabelInv, KeyOK, MapReadable, [Next]_vars
    PROVE  (KeyOK /\ MapReadable)'
<1>0. ASSUME UNCHANGED <<keyFile, identity_map, boot>> PROVE (KeyOK /\ MapReadable)'
  BY <1>0 DEF KeyOK, MapReadable, boot
<1>1. CASE Chmod \/ UNCHANGED vars
  BY <1>0, <1>1 DEF Chmod, vars, files
<1>2. ASSUME NEW a \in Agents, Die(a) PROVE (KeyOK /\ MapReadable)'
  BY <1>2, KeyGone DEF Die
<1>3. ASSUME NEW a \in Agents, Boot(a) PROVE (KeyOK /\ MapReadable)'
  <2>0. phase \in [Agents -> {"down", "create", "replace", "open", "up"}]
        /\ key \in [Agents -> Keys \cup {NoKey}]
    BY DEF LabelInv, TypeOK
  <2>1. CASE LoadKey(a)
    BY <2>0, <2>1 DEF OneAgent, LoadKey, KeyOK, MapReadable, files
  <2>2. CASE CreateKey(a)
    <3>1. CASE keyFile # NoKey
      BY <2>2, <3>1, KeyGone DEF CreateKey
    <3>2. CASE keyFile = NoKey
      <4>1. phase' = [phase EXCEPT ![a] = "replace"] /\ UNCHANGED files
        BY <2>2, <3>2 DEF CreateKey
      <4>2. \A b \in Agents : phase'[b] = "replace"
        BY <2>0, <4>1 DEF OneAgent
      <4>3. KeyOK'
        BY <3>2, <4>1, <4>2 DEF KeyOK, files
      <4>4. MapReadable'
        BY <4>1 DEF MapReadable, files
      <4> QED BY <4>3, <4>4
    <3> QED BY <3>1, <3>2
  <2>3. CASE ReplaceKey(a)
    <3>1. keyFile = NoKey
      BY <2>3 DEF ReplaceKey, KeyOK
    <3>2. \A i \in DOMAIN identity_map : identity_map[i].key \in Keys
      BY RowType DEF LabelInv
    <3>3. DOMAIN identity_map = {}
      BY <3>1, <3>2, IdentityAssumption DEF MapReadable
    <3> QED BY <2>0, <2>3, <3>3 DEF OneAgent, ReplaceKey, KeyOK, MapReadable
  <2>4. CASE LoadForward(a)
    <3>1. CASE ~(\A i \in RowsOf(tenant[a]) : identity_map[i].key = key[a])
      BY <2>4, <3>1, KeyGone DEF LoadForward
    <3>2. CASE \A i \in RowsOf(tenant[a]) : identity_map[i].key = key[a]
      BY <2>0, <2>4, <3>2 DEF OneAgent, LoadForward, KeyOK, MapReadable, files
    <3> QED BY <3>1, <3>2
  <2> QED BY <1>3, <2>1, <2>2, <2>3, <2>4 DEF Boot
<1>4. ASSUME NEW a \in Agents, NEW t \in Threads, Mint(a, t) PROVE (KeyOK /\ MapReadable)'
  <2> DEFINE r == [tenant |-> tenant[a], subject |-> arg[a][t], key |-> key[a]]
  <2>1. r \in Row /\ identity_map' = Append(identity_map, r) /\ UNCHANGED <<keyFile, boot>>
    BY <1>4 DEF Mint, LabelInv, TypeOK, ThreadsOK, ForwardOK, Row
  <2>2. r.key = keyFile
    BY <1>4 DEF Mint, LabelInv, ThreadsOK, KeyOK
  <2> HIDE DEF r
  <2>3. \A i \in DOMAIN identity_map' : i \in DOMAIN identity_map \/ i = Len(identity_map) + 1
    BY <2>1, AppendKeeps DEF LabelInv
  <2>4. /\ \A i \in DOMAIN identity_map : identity_map'[i] = identity_map[i]
        /\ identity_map'[Len(identity_map) + 1] = r
    BY <2>1, AppendKeeps DEF LabelInv
  <2>5. MapReadable'
    BY <2>1, <2>2, <2>3, <2>4 DEF MapReadable
  <2> QED BY <2>1, <2>5 DEF KeyOK, boot
<1>5. ASSUME NEW a \in Agents, NEW t \in Threads, Pseudonymize(a, t) PROVE (KeyOK /\ MapReadable)'
  <2>1. CASE Mint(a, t)
    BY <1>4, <2>1
  <2>2. CASE ~Mint(a, t)
    BY <1>0, <1>5, <2>2 DEF Pseudonymize, Recheck, MintFails, Remember, files
  <2> QED BY <2>1, <2>2
<1>6. ASSUME NEW a \in Agents, NEW t \in Threads, NEW s \in Subjects, Lookup(a, t, s)
      PROVE  (KeyOK /\ MapReadable)'
  BY <1>0, <1>6 DEF Lookup, files
<1>7. ASSUME NEW a \in Agents, Disclose(a) PROVE (KeyOK /\ MapReadable)'
  BY <1>0, <1>7 DEF Disclose, BeginAccess, Resolve, files
<1>8. ASSUME NEW a \in Agents, NEW e, NEW n, NEW m, NEW r, BreakGlass(a, e, n, m, r)
      PROVE  (KeyOK /\ MapReadable)'
  BY <1>0, <1>8 DEF BreakGlass, files
<1> QED BY <1>1, <1>2, <1>3, <1>5, <1>6, <1>7, <1>8 DEF Next

\* With one agent every row stays readable with the key in the key file,
\* wherever the process dies: the key is saved before anything is encrypted
\* with it, and a key that is there is never replaced.
THEOREM RowsReadable == OneAgent => (Spec => []MapReadable)
<1> SUFFICES ASSUME OneAgent PROVE Spec => []MapReadable
  OBVIOUS
<1>1. Init => KeyOK /\ MapReadable
  BY DEF Init, KeyOK, MapReadable
<1>2. LabelInv /\ KeyOK /\ MapReadable /\ [Next]_vars => (KeyOK /\ MapReadable)'
  BY KeyNext
<1> QED BY <1>1, <1>2, LabelInit, LabelNext, PTL DEF Spec

\* No subject of a tenant has two rows.
UniqueRows ==
    \A i, j \in DOMAIN identity_map :
        /\ identity_map[i].tenant = identity_map[j].tenant
        /\ identity_map[i].subject = identity_map[j].subject
        => i = j

\* An agent that is up remembers every row of its tenant, but for the one that a
\* thread has just minted.
Remembered ==
    \A a \in Agents, i \in DOMAIN identity_map :
        phase[a] = "up" /\ identity_map[i].tenant = tenant[a] =>
            \/ forward[a][identity_map[i].subject] = i
            \/ \E t \in Threads : at[a][t] = "keep" /\ minted[a][t] = i

\* One thread at a time has the lock, and it mints for a subject nobody remembers.
OneMinter ==
    \A a \in Agents, t \in Threads :
        /\ at[a][t] = "mint" => forward[a][arg[a][t]] = 0
        /\ \A u \in Threads :
             at[a][t] \in {"mint", "keep"} /\ at[a][u] \in {"mint", "keep"} => t = u

StableInv == UniqueRows /\ Remembered /\ OneMinter

\* The end of the process.
LEMMA StableGone ==
    ASSUME OneAgent, LabelInv, StableInv, NEW a \in Agents, Gone(a), UNCHANGED files
    PROVE  StableInv'
<1>1. \A b \in Agents : phase'[b] = "down" /\ \A t \in Threads : at'[b][t] = "idle"
  BY DEF OneAgent, LabelInv, TypeOK, Gone
<1>2. UniqueRows'
  BY DEF StableInv, UniqueRows, files
<1>3. Remembered' /\ OneMinter'
  BY <1>1 DEF Remembered, OneMinter
<1> QED BY <1>2, <1>3 DEF StableInv

\* A step that leaves the rows and the map in memory alone, in which thread t
\* comes to a point where it has no lock.
LEMMA StableThread ==
    ASSUME LabelInv, StableInv, NEW a \in Agents, NEW t \in Threads,
           at[a][t] # "keep", UNCHANGED <<files, boot, forward>>,
           NEW v \in {"idle", "lock"}, at' = [at EXCEPT ![a][t] = v],
           \A b \in Agents, u \in Threads :
               (b # a \/ u # t) => arg'[b][u] = arg[b][u] /\ minted'[b][u] = minted[b][u]
    PROVE  StableInv'
<1>1. \A b \in Agents, u \in Threads : at'[b][u] = IF b = a /\ u = t THEN v ELSE at[b][u]
  BY ExceptOne DEF LabelInv, TypeOK
<1>2. UniqueRows'
  BY DEF StableInv, UniqueRows, files
<1>3. Remembered'
  BY <1>1 DEF StableInv, Remembered, files, boot
<1>4. OneMinter'
  BY <1>1 DEF StableInv, OneMinter
<1> QED BY <1>2, <1>3, <1>4 DEF StableInv

\* What Leave does to the other threads.
LEMMA LeaveOthers ==
    ASSUME LabelInv, NEW a \in Agents, NEW t \in Threads, Leave(a, t)
    PROVE  /\ at' = [at EXCEPT ![a][t] = "idle"]
           /\ \A b \in Agents, u \in Threads : at'[b][u] = IF b = a /\ u = t THEN "idle" ELSE at[b][u]
           /\ \A b \in Agents, u \in Threads :
                (b # a \/ u # t) => arg'[b][u] = arg[b][u] /\ minted'[b][u] = minted[b][u]
<1>1. \A b \in Agents, u \in Threads : at'[b][u] = IF b = a /\ u = t THEN "idle" ELSE at[b][u]
  BY ExceptOne DEF LabelInv, TypeOK, Leave
<1>2. \A b \in Agents, u \in Threads : arg'[b][u] = IF b = a /\ u = t THEN NoSubject ELSE arg[b][u]
  BY ExceptOne DEF LabelInv, TypeOK, Leave
<1>3. \A b \in Agents, u \in Threads : minted'[b][u] = IF b = a /\ u = t THEN 0 ELSE minted[b][u]
  <2> DEFINE V == Pseudonym \cup {0}
  <2>1. minted \in [Agents -> [Threads -> V]] /\ 0 \in V
    BY DEF LabelInv, TypeOK
  <2> HIDE DEF V
  <2> QED BY <2>1, ExceptOne DEF Leave
<1> QED BY <1>1, <1>2, <1>3 DEF Leave

\* The boot.
LEMMA StableBoot ==
    ASSUME OneAgent, LabelInv, StableInv, NEW a \in Agents, Boot(a)
    PROVE  StableInv'
<1>0. phase \in [Agents -> {"down", "create", "replace", "open", "up"}]
  BY DEF LabelInv, TypeOK
<1>1. ASSUME phase[a] # "up", phase'[a] # "up", UNCHANGED <<identity_map, labelling>>
      PROVE  StableInv'
  BY <1>1 DEF OneAgent, StableInv, UniqueRows, Remembered, OneMinter, labelling
<1>2. CASE LoadKey(a)
  BY <1>0, <1>1, <1>2 DEF LoadKey, files
<1>3. CASE CreateKey(a)
  BY <1>0, <1>1, <1>3, StableGone DEF CreateKey, files
<1>4. CASE ReplaceKey(a)
  BY <1>0, <1>1, <1>4 DEF ReplaceKey
<1>5. CASE LoadForward(a)
  <2>1. CASE ~(\A i \in RowsOf(tenant[a]) : identity_map[i].key = key[a])
    BY <1>5, <2>1, StableGone DEF LoadForward
  <2>2. CASE \A i \in RowsOf(tenant[a]) : identity_map[i].key = key[a]
    <3>1. PICK f \in ForwardMaps(tenant[a]) : forward' = [forward EXCEPT ![a] = f]
      BY <1>5, <2>2 DEF LoadForward
    <3>2. ASSUME NEW i \in DOMAIN identity_map, identity_map[i].tenant = tenant[a]
          PROVE  f[identity_map[i].subject] = i
      <4> DEFINE s == identity_map[i].subject
                 rows == {j \in RowsOf(tenant[a]) : identity_map[j].subject = s}
      <4>1. s \in Subjects
        BY RowType DEF LabelInv
      <4>2. i \in rows
        BY <3>2 DEF RowsOf
      <4>3. f[s] \in rows
        <5>1. \A u \in Subjects :
                 LET rs == {j \in RowsOf(tenant[a]) : identity_map[j].subject = u}
                 IN  IF rs = {} THEN f[u] = 0 ELSE f[u] \in rs
          BY <3>1 DEF ForwardMaps
        <5> HIDE DEF s
        <5> QED BY <4>1, <4>2, <5>1
      <4> QED BY <3>2, <4>3 DEF RowsOf, StableInv, UniqueRows
    <3>3. forward'[a] = f /\ UNCHANGED <<files, tenant, at, arg, minted>>
      BY <1>5, <2>2, <3>1 DEF LoadForward, LabelInv, TypeOK
    <3>4. \A t \in Threads : at[a][t] = "idle"
      BY <1>5 DEF LoadForward, LabelInv, ThreadsOK
    <3>5. UniqueRows'
      BY <3>3 DEF StableInv, UniqueRows, files
    <3>6. Remembered'
      BY <3>2, <3>3 DEF OneAgent, Remembered, files
    <3>7. OneMinter'
      BY <3>3, <3>4 DEF OneAgent, OneMinter
    <3> QED BY <3>5, <3>6, <3>7 DEF StableInv
  <2> QED BY <2>1, <2>2
<1> QED BY <1>2, <1>3, <1>4, <1>5 DEF Boot

\* A new row is the first of its subject.
LEMMA StableMint ==
    ASSUME OneAgent, LabelInv, StableInv, NEW a \in Agents, NEW t \in Threads, Mint(a, t)
    PROVE  StableInv'
<1> DEFINE r == [tenant |-> tenant[a], subject |-> arg[a][t], key |-> key[a]]
           k == Len(identity_map) + 1
<1>0. at[a][t] = "mint" /\ phase[a] = "up" /\ forward[a][arg[a][t]] = 0
  BY DEF Mint, LabelInv, ThreadsOK, StableInv, OneMinter
<1>1. r \in Row /\ identity_map' = Append(identity_map, r) /\ r.tenant = tenant[a] /\ r.subject = arg[a][t]
  BY DEF Mint, LabelInv, TypeOK, ThreadsOK, ForwardOK, Row
<1> HIDE DEF r
<1>2. /\ \A i \in DOMAIN identity_map' : i \in DOMAIN identity_map \/ i = k
      /\ \A i \in DOMAIN identity_map : identity_map'[i] = identity_map[i] /\ i # 0 /\ i # k
      /\ identity_map'[k] = r
  BY <1>1, AppendKeeps DEF LabelInv
<1>3. \A b \in Agents, u \in Threads : at'[b][u] = IF b = a /\ u = t THEN "keep" ELSE at[b][u]
  BY ExceptOne DEF Mint, LabelInv, TypeOK
<1>4. \A b \in Agents, u \in Threads : minted'[b][u] = IF b = a /\ u = t THEN k ELSE minted[b][u]
  <2> DEFINE V == Nat
  <2>1. minted \in [Agents -> [Threads -> V]] /\ k \in V
    BY IdentityAssumption DEF LabelInv, TypeOK, Pseudonym
  <2>2. minted' = [minted EXCEPT ![a][t] = k]
    BY DEF Mint
  <2> HIDE DEF V, k
  <2> QED BY <2>1, <2>2, ExceptOne
<1> HIDE DEF k
<1>5. UNCHANGED <<boot, forward, arg>>
  BY DEF Mint
<1>6. \A i \in DOMAIN identity_map :
         ~(identity_map[i].tenant = r.tenant /\ identity_map[i].subject = r.subject)
  BY <1>0, <1>1, <1>2 DEF StableInv, Remembered, OneMinter
<1>7. UniqueRows'
  BY <1>2, <1>6 DEF StableInv, UniqueRows
<1>8. Remembered'
  <2> SUFFICES ASSUME NEW b \in Agents, NEW i \in DOMAIN identity_map',
                      phase[b] = "up", identity_map'[i].tenant = tenant[b]
               PROVE  \/ forward[b][identity_map'[i].subject] = i
                      \/ \E u \in Threads : at'[b][u] = "keep" /\ minted'[b][u] = i
    BY <1>5 DEF Remembered, boot
  <2>1. CASE i \in DOMAIN identity_map
    BY <1>0, <1>2, <1>3, <1>4, <2>1 DEF StableInv, Remembered
  <2>2. CASE i = k
    BY <1>3, <1>4, <2>2 DEF OneAgent
  <2> QED BY <1>2, <2>1, <2>2
<1>9. OneMinter'
  BY <1>0, <1>3, <1>5 DEF StableInv, OneMinter
<1> QED BY <1>7, <1>8, <1>9 DEF StableInv

\* The minted pseudonym comes into the map in memory.
LEMMA StableRemember ==
    ASSUME LabelInv, StableInv, NEW a \in Agents, NEW t \in Threads, Remember(a, t)
    PROVE  StableInv'
<1> DEFINE s == arg[a][t]
           p == minted[a][t]
<1>0. at[a][t] = "keep" /\ s \in Subjects /\ IsRow(p, tenant[a], s) /\ UNCHANGED <<files, boot>>
  BY DEF Remember, LabelInv, ThreadsOK
<1>1. Leave(a, t) /\ forward' = [forward EXCEPT ![a][s] = p]
  BY DEF Remember, Label
<1>2. \A b \in Agents, u \in Subjects : forward'[b][u] = IF b = a /\ u = s THEN p ELSE forward[b][u]
  <2> DEFINE V == Pseudonym \cup {0}
  <2>1. forward \in [Agents -> [Subjects -> V]] /\ p \in V
    BY DEF LabelInv, TypeOK
  <2> HIDE DEF V, s, p
  <2> QED BY <1>0, <1>1, <2>1, ExceptOne
<1>3. /\ \A b \in Agents, u \in Threads : at'[b][u] = IF b = a /\ u = t THEN "idle" ELSE at[b][u]
      /\ \A b \in Agents, u \in Threads :
           (b # a \/ u # t) => arg'[b][u] = arg[b][u] /\ minted'[b][u] = minted[b][u]
  BY <1>1, LeaveOthers
<1>4. \A u \in Threads : u # t => at[a][u] \notin {"mint", "keep"}
  BY <1>0 DEF StableInv, OneMinter
<1>5. UniqueRows'
  BY <1>0 DEF StableInv, UniqueRows, files
<1>6. Remembered'
  <2> SUFFICES ASSUME NEW b \in Agents, NEW i \in DOMAIN identity_map,
                      phase[b] = "up", identity_map[i].tenant = tenant[b]
               PROVE  \/ forward'[b][identity_map[i].subject] = i
                      \/ \E u \in Threads : at'[b][u] = "keep" /\ minted'[b][u] = i
    BY <1>0 DEF Remembered, boot, files
  <2>0. identity_map[i].subject \in Subjects
    BY RowType DEF LabelInv
  <2>1. CASE b # a
    BY <1>2, <1>3, <2>0, <2>1 DEF StableInv, Remembered
  <2>2. CASE b = a /\ identity_map[i].subject = s
    <3>1. i = p
      BY <1>0, <2>2 DEF IsRow, StableInv, UniqueRows
    <3> QED BY <1>2, <2>0, <2>2, <3>1
  <2>3. CASE b = a /\ identity_map[i].subject # s
    <3>1. i # p
      BY <1>0, <2>3 DEF IsRow
    <3>2. forward[a][identity_map[i].subject] = i
      BY <1>4, <2>3, <3>1 DEF StableInv, Remembered
    <3> QED BY <1>2, <2>0, <2>3, <3>2
  <2> QED BY <2>1, <2>2, <2>3
<1>7. OneMinter'
  <2> SUFFICES ASSUME NEW b \in Agents, NEW u \in Threads, at'[b][u] \in {"mint", "keep"}
               PROVE  /\ at'[b][u] = "mint" => forward'[b][arg'[b][u]] = 0
                      /\ \A w \in Threads : at'[b][w] \in {"mint", "keep"} => u = w
    BY DEF OneMinter
  <2>1. b # a
    BY <1>3, <1>4
  <2>2. arg[b][u] \in Subjects /\ arg'[b][u] = arg[b][u] /\ at'[b][u] = at[b][u]
    BY <1>3, <2>1 DEF LabelInv, ThreadsOK
  <2> QED BY <1>2, <1>3, <2>1, <2>2 DEF StableInv, OneMinter
<1> QED BY <1>5, <1>6, <1>7 DEF StableInv

\* A step of pseudonymize().
LEMMA StablePseudonymize ==
    ASSUME OneAgent, LabelInv, StableInv, NEW a \in Agents, NEW t \in Threads,
           Pseudonymize(a, t) \/ \E s \in Subjects : Lookup(a, t, s)
    PROVE  StableInv'
<1>0. ASSUME NEW s \in Subjects, Lookup(a, t, s) PROVE StableInv'
  <2>1. CASE forward[a][s] # 0
    <3>1. Leave(a, t) /\ at[a][t] = "idle" /\ UNCHANGED <<files, boot, forward>>
      BY <1>0, <2>1 DEF Lookup, Label
    <3> QED BY <3>1, LeaveOthers, StableThread
  <2>2. CASE forward[a][s] = 0
    <3>1. /\ at' = [at EXCEPT ![a][t] = "lock"] /\ at[a][t] = "idle"
          /\ arg' = [arg EXCEPT ![a][t] = s] /\ UNCHANGED <<files, boot, forward, minted>>
      BY <1>0, <2>2 DEF Lookup
    <3>2. \A b \in Agents, u \in Threads : (b # a \/ u # t) => arg'[b][u] = arg[b][u]
      BY <3>1, ExceptOne DEF LabelInv, TypeOK
    <3> QED BY <3>1, <3>2, StableThread
  <2> QED BY <2>1, <2>2
<1>1. CASE Recheck(a, t)
  <2>1. CASE forward[a][arg[a][t]] # 0
    <3>1. Leave(a, t) /\ at[a][t] = "lock" /\ UNCHANGED <<files, boot, forward>>
      BY <1>1, <2>1 DEF Recheck, Label
    <3> QED BY <3>1, LeaveOthers, StableThread
  <2>2. CASE forward[a][arg[a][t]] = 0
    <3>1. /\ at' = [at EXCEPT ![a][t] = "mint"] /\ at[a][t] = "lock" /\ LockFree(a)
          /\ UNCHANGED <<arg, minted, files, boot, forward>>
      BY <1>1, <2>2 DEF Recheck
    <3>2. \A b \in Agents, u \in Threads : at'[b][u] = IF b = a /\ u = t THEN "mint" ELSE at[b][u]
      BY <3>1, ExceptOne DEF LabelInv, TypeOK
    <3>3. UniqueRows'
      BY <3>1 DEF StableInv, UniqueRows, files
    <3>4. Remembered'
      BY <3>1, <3>2 DEF StableInv, Remembered, files, boot
    <3>5. OneMinter'
      BY <2>2, <3>1, <3>2 DEF StableInv, OneMinter, LockFree
    <3> QED BY <3>3, <3>4, <3>5 DEF StableInv
  <2> QED BY <2>1, <2>2
<1>2. CASE MintFails(a, t)
  BY <1>2, LeaveOthers, StableThread DEF MintFails
<1> QED BY <1>0, <1>1, <1>2, StableMint, StableRemember DEF Pseudonymize

\* Every step.
LEMMA StableNext ==
    ASSUME OneAgent, LabelInv, StableInv, [Next]_vars
    PROVE  StableInv'
<1>0. ASSUME UNCHANGED <<identity_map, boot, labelling>> PROVE StableInv'
  BY <1>0 DEF StableInv, UniqueRows, Remembered, OneMinter, boot, labelling
<1>1. CASE Chmod \/ UNCHANGED vars
  BY <1>0, <1>1 DEF Chmod, vars, files
<1>2. ASSUME NEW a \in Agents, Die(a) PROVE StableInv'
  BY <1>2, StableGone DEF Die
<1>3. ASSUME NEW a \in Agents, Disclose(a) PROVE StableInv'
  BY <1>0, <1>3 DEF Disclose, BeginAccess, Resolve, files
<1>4. ASSUME NEW a \in Agents, NEW e, NEW n, NEW m, NEW r, BreakGlass(a, e, n, m, r)
      PROVE  StableInv'
  BY <1>0, <1>4 DEF BreakGlass, files
<1> QED BY <1>1, <1>2, <1>3, <1>4, StableBoot, StablePseudonymize DEF Next

\* With one agent, of any number of threads, a subject keeps its pseudonym under
\* a tenant for ever, wherever the process dies between minting and remembering.
THEOREM PseudonymsStable == OneAgent => (Spec => []StablePseudonym)
<1> SUFFICES ASSUME OneAgent PROVE Spec => []StablePseudonym
  OBVIOUS
<1>1. Init => StableInv
  BY DEF Init, StableInv, UniqueRows, Remembered, OneMinter
<1>2. LabelInv /\ StableInv /\ [Next]_vars => StableInv'
  BY StableNext
<1>3. LabelInv /\ StableInv => StablePseudonym
  BY DEF LabelInv, StableInv, LabelHasItsRow, UniqueRows, StablePseudonym
<1> QED BY <1>1, <1>2, <1>3, LabelInit, LabelNext, PTL DEF Spec
-----------------------------------------------------------------------------
(***************************************************************************)
(* The register that the identity store implements                         *)
(***************************************************************************)

\* A row of identity_map as an entry, and all of them.
EntryOf(i) ==
    [tenant |-> identity_map[i].tenant, subject |-> identity_map[i].subject, pseudonym |-> i]
Entries == {EntryOf(i) : i \in DOMAIN identity_map}

Register == INSTANCE PseudonymRegister WITH entries <- Entries, given <- labels

\* mint_pseudonym enters a subject that has no row under the tenant.
LEMMA MintEnters ==
    ASSUME LabelInv, StableInv, NEW a \in Agents, NEW t \in Threads, Mint(a, t)
    PROVE  Register!Next
<1> DEFINE r == [tenant |-> tenant[a], subject |-> arg[a][t], key |-> key[a]]
           k == Len(identity_map) + 1
<1>0. at[a][t] = "mint" /\ phase[a] = "up" /\ forward[a][arg[a][t]] = 0
  BY DEF Mint, LabelInv, ThreadsOK, StableInv, OneMinter
<1>1. /\ r \in Row /\ identity_map' = Append(identity_map, r) /\ labels' = labels
      /\ r.tenant = tenant[a] /\ r.subject = arg[a][t]
      /\ tenant[a] \in Tenants /\ arg[a][t] \in Subjects /\ k \in Nat
  BY DEF Mint, LabelInv, TypeOK, ThreadsOK, ForwardOK, Row
<1> HIDE DEF r
<1>2. /\ \A i \in DOMAIN identity_map : identity_map'[i] = identity_map[i] /\ i # 0 /\ i # k
      /\ identity_map'[k] = r
  BY <1>1, AppendKeeps DEF LabelInv
<1>3. DOMAIN identity_map' = DOMAIN identity_map \cup {k}
  <2>1. identity_map \in Seq(Row)
    BY DEF LabelInv, TypeOK
  <2> QED BY <1>1, <2>1
<1>4. \A i \in DOMAIN identity_map :
         ~(identity_map[i].tenant = tenant[a] /\ identity_map[i].subject = arg[a][t])
  BY <1>0, <1>1, <1>2 DEF StableInv, Remembered, OneMinter
<1> HIDE DEF k
<1>5. Entries' = Entries \cup {[tenant |-> tenant[a], subject |-> arg[a][t], pseudonym |-> k]}
  BY <1>1, <1>2, <1>3 DEF Entries, EntryOf
<1>6. \A e \in Entries : ~ (e.tenant = tenant[a] /\ e.subject = arg[a][t]) /\ e.pseudonym # k
  BY <1>2, <1>4 DEF Entries, EntryOf
<1>7. Register!Enter(tenant[a], arg[a][t], k)
  BY <1>1, <1>5, <1>6 DEF Register!Enter
<1> QED BY <1>1, <1>7 DEF Register!Next

\* pseudonymize() returns what is entered.
LEMMA LabelGives ==
    ASSUME LabelInv', UNCHANGED identity_map,
           NEW a, NEW t, NEW s, NEW p, Label(a, t, s, p)
    PROVE  Register!Next
<1> DEFINE l == [tenant |-> tenant[a], subject |-> s, pseudonym |-> p]
<1>1. labels' = labels \cup {l} /\ l \in labels'
  BY DEF Label
<1>2. /\ l.pseudonym \in DOMAIN identity_map
      /\ identity_map[l.pseudonym].tenant = l.tenant
      /\ identity_map[l.pseudonym].subject = l.subject
  BY <1>1 DEF LabelInv, LabelHasItsRow
<1>3. l = EntryOf(p) /\ p \in DOMAIN identity_map
  BY <1>2 DEF EntryOf
<1> HIDE DEF l
<1>4. l \in Entries /\ Entries' = Entries
  BY <1>3 DEF Entries, EntryOf
<1> QED BY <1>1, <1>4 DEF Register!Next, Register!Give

LEMMA RegisterStep ==
    ASSUME LabelInv, LabelInv', StableInv, [Next]_vars
    PROVE  [Register!Next]_(Register!vars)
<1>0. ASSUME UNCHANGED <<identity_map, labels>> PROVE UNCHANGED Register!vars
  BY <1>0 DEF Register!vars, Entries, EntryOf
<1>1. CASE Chmod \/ UNCHANGED vars
  BY <1>0, <1>1 DEF Chmod, vars, files
<1>2. ASSUME NEW a \in Agents, Boot(a) \/ Disclose(a) \/ Die(a) PROVE UNCHANGED Register!vars
  BY <1>0, <1>2 DEF Boot, LoadKey, CreateKey, ReplaceKey, LoadForward, Disclose, BeginAccess,
                    Resolve, Die, files
<1>3. ASSUME NEW a \in Agents, NEW e, NEW n, NEW m, NEW r, BreakGlass(a, e, n, m, r)
      PROVE  UNCHANGED Register!vars
  BY <1>0, <1>3 DEF BreakGlass, files
<1>4. ASSUME NEW a \in Agents, NEW t \in Threads,
             Pseudonymize(a, t) \/ \E s \in Subjects : Lookup(a, t, s)
      PROVE  [Register!Next]_(Register!vars)
  <2>1. CASE Mint(a, t)
    BY <2>1, MintEnters
  <2>2. CASE MintFails(a, t)
    BY <1>0, <2>2 DEF MintFails, files
  <2>3. CASE Recheck(a, t) \/ \E s \in Subjects : Lookup(a, t, s)
    BY <1>0, <2>3, LabelGives DEF Recheck, Lookup, files
  <2>4. CASE Remember(a, t)
    BY <2>4, LabelGives DEF Remember, files
  <2> QED BY <1>4, <2>1, <2>2, <2>3, <2>4 DEF Pseudonymize
<1> QED BY <1>1, <1>2, <1>3, <1>4 DEF Next

\* One agent, of any number of threads, implements the register: whatever the
\* threads, restarts and deaths between mint_pseudonym and the map in memory
\* do, a subject is entered once and every event has the pseudonym entered.
THEOREM StoreImplementsRegister == OneAgent => (Spec => Register!Spec)
<1> SUFFICES ASSUME OneAgent PROVE Spec => Register!Spec
  OBVIOUS
<1>1. Init => StableInv
  BY DEF Init, StableInv, UniqueRows, Remembered, OneMinter
<1>2. LabelInv /\ StableInv /\ [Next]_vars => StableInv'
  BY StableNext
<1>3. Init => Register!Init
  BY DEF Init, Register!Init, Entries
<1>4. LabelInv /\ LabelInv' /\ StableInv /\ [Next]_vars => [Register!Next]_(Register!vars)
  BY RegisterStep
<1> QED BY <1>1, <1>2, <1>3, <1>4, LabelInit, LabelNext, PTL DEF Spec, Register!Spec
=============================================================================
