------------------------------ MODULE Identity ------------------------------
(***************************************************************************)
(* Who is behind a pseudonym: the key file (ebabf/storage/crypto.py),      *)
(* identity.db (identity_store.py), the map in memory that labels events   *)
(* (pseudonymizer.py) and the one way back (bridge.py).                    *)
(*                                                                         *)
(* Agents are the processes built on one configuration: the service and a  *)
(* baseline recording share the key file and identity.db.  A pseudonym is  *)
(* a uuid4, fresh in every call: it is named by its row of identity_map.   *)
(* A ciphertext is the pair of its plaintext and the key that made it.     *)
(***************************************************************************)
EXTENDS Integers, Sequences

CONSTANTS
    Agents, Threads, Subjects, Tenants,
    Keys,       \* bound: the keys Fernet.generate_key returns
    MaxRows,    \* bound: rows of identity_map
    MaxAccess   \* bound: rows of identity_access_log

NoKey == "no_key"
NoSubject == "no_subject"

ASSUME IdentityAssumption ==
    /\ NoKey \notin Keys /\ NoSubject \notin Subjects
    /\ MaxRows \in Nat /\ MaxAccess \in Nat

VARIABLES
    keyFile,             \* the key at identity_key_path, or NoKey
    readers,             \* who may read the key file or its directory
    identity_map,        \* rows; the pseudonym is the index
    identity_access_log, \* rows; access_id is the index
    phase, key, tenant,  \* per agent: where it is, its cipher, its configuration
    forward,             \* per agent: TenantPseudonymizer._forward; 0 is no entry
    at, arg, minted,     \* per agent and thread: pseudonymize()
    request,             \* per agent: resolve_subject_for_event()
    labels,              \* history: what pseudonymize() returned
    disclosed            \* history: what resolve_subject_for_event() returned

files == <<keyFile, readers, identity_map>>
boot == <<phase, key, tenant>>
labelling == <<forward, at, arg, minted>>
glass == <<identity_access_log, request, disclosed>>
vars == <<files, boot, labelling, glass, labels>>

Row == [tenant : Tenants, subject : Subjects, key : Keys]

\* What may be written into a request, and str.strip().
Names == {"amal", " amal", "sami", " "}
Reasons == {"incident", " "}
Strip == [t \in Names \cup Reasons |->
             CASE t = " amal" -> "amal" [] t = " " -> "" [] OTHER -> t]

\* Event.level: nothing has scored the event, below Critical, or Critical.
Levels == {"none", "high", "critical"}

NoRequest == [step |-> "idle"]
-----------------------------------------------------------------------------
(***************************************************************************)
(* The key file                                                            *)
(***************************************************************************)

\* A key that no other call of Fernet.generate_key returned.
Fresh(k) ==
    /\ k # keyFile
    /\ \A a \in Agents : key[a] # k
    /\ \A i \in DOMAIN identity_map : identity_map[i].key # k

\* An exception, a kill or an ordinary end: what a held in memory is gone.
Gone(a) ==
    /\ phase' = [phase EXCEPT ![a] = "down"]
    /\ key' = [key EXCEPT ![a] = NoKey]
    /\ forward' = [forward EXCEPT ![a] = [s \in Subjects |-> 0]]
    /\ at' = [at EXCEPT ![a] = [t \in Threads |-> "idle"]]
    /\ arg' = [arg EXCEPT ![a] = [t \in Threads |-> NoSubject]]
    /\ minted' = [minted EXCEPT ![a] = [t \in Threads |-> 0]]
    /\ request' = [request EXCEPT ![a] = NoRequest]
    /\ UNCHANGED tenant

\* load_key: an existing key is read after _check_permissions, which raises
\* when others could read it; a missing one is created.
LoadKey(a) ==
    /\ phase[a] = "down"
    /\ \E t \in Tenants : tenant' = [tenant EXCEPT ![a] = t]
    /\ \/ /\ keyFile = NoKey
          /\ phase' = [phase EXCEPT ![a] = "create"]
          /\ UNCHANGED key
       \/ /\ keyFile # NoKey /\ readers = "owner"
          /\ phase' = [phase EXCEPT ![a] = "open"]
          /\ key' = [key EXCEPT ![a] = keyFile]
    /\ UNCHANGED <<files, labelling, glass, labels>>

\* create_key, to the temporary file: a key that has appeared meanwhile raises.
CreateKey(a) ==
    /\ phase[a] = "create"
    /\ IF keyFile # NoKey
       THEN Gone(a)
       ELSE /\ phase' = [phase EXCEPT ![a] = "replace"]
            /\ \E k \in Keys : Fresh(k) /\ key' = [key EXCEPT ![a] = k]
            /\ UNCHANGED <<tenant, labelling, request>>
    /\ UNCHANGED <<files, identity_access_log, disclosed, labels>>

\* Mutant: create_key returns the key and leaves the file to somebody else.
ReplaceKey_Unsaved(a) ==
    /\ phase[a] = "replace"
    /\ phase' = [phase EXCEPT ![a] = "open"]
    /\ UNCHANGED <<key, tenant, files, labelling, glass, labels>>

\* create_key: os.replace puts the temporary file, mode 0600, at the path.  The
\* directory, when it was there before, has the mode it had.
ReplaceKey(a) ==
    /\ phase[a] = "replace"
    /\ keyFile' = key[a]
    /\ phase' = [phase EXCEPT ![a] = "open"]
    /\ UNCHANGED <<key, tenant, readers, identity_map, labelling, glass, labels>>

\* An operator changes the mode of the key file or of its directory.
Chmod ==
    /\ readers' \in {"owner", "others"} \ {readers}
    /\ UNCHANGED <<keyFile, identity_map, boot, labelling, glass, labels>>
-----------------------------------------------------------------------------
(***************************************************************************)
(* TenantPseudonymizer                                                     *)
(***************************************************************************)

\* Mutant: SELECT without WHERE tenant_id = ?
RowsOf_AllTenants(t) == DOMAIN identity_map

RowsOf(t) == {i \in DOMAIN identity_map : identity_map[i].tenant = t}

\* load_forward_map_internal: {subject: pseudonym}.  Of several rows of one
\* subject the last stays, in an order that the SELECT leaves open.
ForwardMaps(t) ==
    {f \in [Subjects -> 0 .. Len(identity_map)] :
        \A s \in Subjects :
            LET rows == {i \in RowsOf(t) : identity_map[i].subject = s}
            IN  IF rows = {} THEN f[s] = 0 ELSE f[s] \in rows}

\* IdentityStore and TenantPseudonymizer open: a row that another key encrypted
\* raises ("identity ciphertext failed authentication").
LoadForward(a) ==
    /\ phase[a] = "open"
    /\ IF \A i \in RowsOf(tenant[a]) : identity_map[i].key = key[a]
       THEN /\ phase' = [phase EXCEPT ![a] = "up"]
            /\ \E f \in ForwardMaps(tenant[a]) : forward' = [forward EXCEPT ![a] = f]
            /\ UNCHANGED <<key, tenant, at, arg, minted, request>>
       ELSE Gone(a)
    /\ UNCHANGED <<files, identity_access_log, disclosed, labels>>

\* Thread t leaves pseudonymize(), and the lock if it has it.
Leave(a, t) ==
    /\ at' = [at EXCEPT ![a][t] = "idle"]
    /\ arg' = [arg EXCEPT ![a][t] = NoSubject]
    /\ minted' = [minted EXCEPT ![a][t] = 0]

\* pseudonymize() returns p for s: the label of the event.
Label(a, t, s, p) ==
    /\ Leave(a, t)
    /\ labels' = labels \cup {[tenant |-> tenant[a], subject |-> s, pseudonym |-> p]}

\* The first look, without the lock.
Lookup(a, t, s) ==
    /\ phase[a] = "up" /\ at[a][t] = "idle"
    /\ \/ /\ forward[a][s] # 0
          /\ Label(a, t, s, forward[a][s])
       \/ /\ forward[a][s] = 0
          /\ at' = [at EXCEPT ![a][t] = "lock"]
          /\ arg' = [arg EXCEPT ![a][t] = s]
          /\ UNCHANGED <<minted, labels>>
    /\ UNCHANGED <<files, boot, forward, glass>>

LockFree(a) == \A t \in Threads : at[a][t] \notin {"mint", "keep"}

\* Mutant: no second look.
Recheck_Dropped(a, t) ==
    /\ at[a][t] = "lock" /\ LockFree(a)
    /\ at' = [at EXCEPT ![a][t] = "mint"]
    /\ UNCHANGED <<labels, files, boot, forward, arg, minted, glass>>

\* The second look, with the lock.
Recheck(a, t) ==
    /\ at[a][t] = "lock" /\ LockFree(a)
    /\ \/ /\ forward[a][arg[a][t]] # 0
          /\ Label(a, t, arg[a][t], forward[a][arg[a][t]])
       \/ /\ forward[a][arg[a][t]] = 0
          /\ at' = [at EXCEPT ![a][t] = "mint"]
          /\ UNCHANGED <<arg, minted, labels>>
    /\ UNCHANGED <<files, boot, forward, glass>>

\* Mutant: the pseudonym that is returned is not that of the row.
Mint_NextRow(a, t) ==
    /\ at[a][t] = "mint" /\ Len(identity_map) < MaxRows
    /\ identity_map' = Append(identity_map,
                              [tenant |-> tenant[a], subject |-> arg[a][t], key |-> key[a]])
    /\ minted' = [minted EXCEPT ![a][t] = Len(identity_map) + 2]
    /\ at' = [at EXCEPT ![a][t] = "keep"]
    /\ UNCHANGED <<keyFile, readers, boot, forward, arg, glass, labels>>

\* mint_pseudonym: the row is committed.
Mint(a, t) ==
    /\ at[a][t] = "mint" /\ Len(identity_map) < MaxRows
    /\ identity_map' = Append(identity_map,
                              [tenant |-> tenant[a], subject |-> arg[a][t], key |-> key[a]])
    /\ minted' = [minted EXCEPT ![a][t] = Len(identity_map) + 1]
    /\ at' = [at EXCEPT ![a][t] = "keep"]
    /\ UNCHANGED <<keyFile, readers, boot, forward, arg, glass, labels>>

\* The database is locked, or the disk is full: the exception leaves both locks.
MintFails(a, t) ==
    /\ at[a][t] = "mint"
    /\ Leave(a, t)
    /\ UNCHANGED <<files, boot, forward, glass, labels>>

\* self._forward[subject] = pseudonym, and return.
Remember(a, t) ==
    /\ at[a][t] = "keep"
    /\ forward' = [forward EXCEPT ![a][arg[a][t]] = minted[a][t]]
    /\ Label(a, t, arg[a][t], minted[a][t])
    /\ UNCHANGED <<files, boot, glass>>
-----------------------------------------------------------------------------
(***************************************************************************)
(* resolve_subject_for_event                                               *)
(***************************************************************************)

\* Mutant: the names are compared as they were written.
Permitted_AsWritten(e, actor, approver, reason) ==
    /\ Strip[reason] # "" /\ Strip[actor] # "" /\ Strip[approver] # ""
    /\ actor # approver
    /\ e.level \in {"none", "critical"}

\* The conditions of Break-Glass.
Permitted(e, actor, approver, reason) ==
    /\ Strip[reason] # "" /\ Strip[actor] # "" /\ Strip[approver] # ""
    /\ Strip[actor] # Strip[approver]
    /\ e.level \in {"none", "critical"}

\* event_store.get(event_id): an event that some pseudonymize() labelled.  (Which
\* events are still there is the subject of EventStore.)
StoredEvents == [pseudonym : {l.pseudonym : l \in labels}, level : Levels]

\* The request passes; one that does not raises and leaves no trace.
BreakGlass(a, e, actor, approver, reason) ==
    /\ phase[a] = "up" /\ request[a] = NoRequest /\ e \in StoredEvents
    /\ Permitted(e, actor, approver, reason)
    /\ request' = [request EXCEPT ![a] =
                      [step |-> "begin", event |-> e, actor |-> actor, approver |-> approver,
                       reason |-> reason]]
    /\ UNCHANGED <<files, boot, labelling, identity_access_log, disclosed, labels>>

\* begin_break_glass_access: the audit row, then the grant with its id.
BeginAccess(a) ==
    /\ request[a].step = "begin" /\ Len(identity_access_log) < MaxAccess
    /\ identity_access_log' =
           Append(identity_access_log,
                  [pseudonym |-> request[a].event.pseudonym, actor |-> request[a].actor,
                   second_approver |-> request[a].approver, reason |-> request[a].reason])
    /\ request' = [request EXCEPT ![a] =
                      [step |-> "resolve", event |-> request[a].event,
                       access_id |-> Len(identity_access_log) + 1,
                       pseudonym |-> request[a].event.pseudonym]]
    /\ UNCHANGED <<files, boot, labelling, disclosed, labels>>

\* A grant with an audit row of its own for this pseudonym.
Audited(grant) ==
    /\ grant.access_id \in DOMAIN identity_access_log
    /\ identity_access_log[grant.access_id].pseudonym = grant.pseudonym

\* resolve_subject_with_grant: the plaintext, or an exception.
Resolve(a) ==
    /\ request[a].step = "resolve"
    /\ LET grant == request[a]
           p == grant.pseudonym
       IN  disclosed' =
             IF Audited(grant) /\ p \in DOMAIN identity_map /\ identity_map[p].key = key[a]
             THEN disclosed \cup {[event |-> grant.event, subject |-> identity_map[p].subject]}
             ELSE disclosed
    /\ request' = [request EXCEPT ![a] = NoRequest]
    /\ UNCHANGED <<files, boot, labelling, identity_access_log, labels>>
-----------------------------------------------------------------------------

\* The process ends, at any point.
Die(a) ==
    /\ phase[a] # "down"
    /\ Gone(a)
    /\ UNCHANGED <<files, identity_access_log, disclosed, labels>>

Init ==
    /\ keyFile = NoKey /\ readers \in {"owner", "others"}
    /\ identity_map = <<>> /\ identity_access_log = <<>>
    /\ phase = [a \in Agents |-> "down"]
    /\ key = [a \in Agents |-> NoKey]
    /\ tenant \in [Agents -> Tenants]
    /\ forward = [a \in Agents |-> [s \in Subjects |-> 0]]
    /\ at = [a \in Agents |-> [t \in Threads |-> "idle"]]
    /\ arg = [a \in Agents |-> [t \in Threads |-> NoSubject]]
    /\ minted = [a \in Agents |-> [t \in Threads |-> 0]]
    /\ request = [a \in Agents |-> NoRequest]
    /\ labels = {} /\ disclosed = {}

Boot(a) == LoadKey(a) \/ CreateKey(a) \/ ReplaceKey(a) \/ LoadForward(a)

\* pseudonymize(), once it has been called.
Pseudonymize(a, t) == Recheck(a, t) \/ Mint(a, t) \/ MintFails(a, t) \/ Remember(a, t)

Disclose(a) == BeginAccess(a) \/ Resolve(a)

Next ==
    \/ Chmod
    \/ \E a \in Agents :
         \/ Boot(a) \/ Disclose(a) \/ Die(a)
         \/ \E t \in Threads :
              Pseudonymize(a, t) \/ \E s \in Subjects : Lookup(a, t, s)
         \/ \E e \in StoredEvents, actor, approver \in Names, reason \in Reasons :
              BreakGlass(a, e, actor, approver, reason)

Spec == Init /\ [][Next]_vars
-----------------------------------------------------------------------------
(***************************************************************************)
(* Properties                                                              *)
(***************************************************************************)

Pseudonym == 1 .. MaxRows

\* Type invariant of the files and the processes.
TypeOK ==
    /\ keyFile \in Keys \cup {NoKey} /\ readers \in {"owner", "others"}
    /\ identity_map \in Seq(Row) /\ Len(identity_map) <= MaxRows
    /\ phase \in [Agents -> {"down", "create", "replace", "open", "up"}]
    /\ key \in [Agents -> Keys \cup {NoKey}]
    /\ tenant \in [Agents -> Tenants]
    /\ forward \in [Agents -> [Subjects -> Pseudonym \cup {0}]]
    /\ at \in [Agents -> [Threads -> {"idle", "lock", "mint", "keep"}]]
    /\ arg \in [Agents -> [Threads -> Subjects \cup {NoSubject}]]
    /\ minted \in [Agents -> [Threads -> Pseudonym \cup {0}]]
    /\ labels \subseteq [tenant : Tenants, subject : Subjects, pseudonym : Pseudonym]

\* Under one tenant a subject has one pseudonym for ever, whatever the threads
\* of the agent and its restarts do ("Never rotated; rotating would sever an
\* account's own history").
StablePseudonym ==
    \A l, m \in labels :
        l.tenant = m.tenant /\ l.subject = m.subject => l.pseudonym = m.pseudonym

\* A pseudonym on an event is that of a row for this subject and this tenant
\* ("the same person under two tenants gets two unrelated pseudonyms").
LabelHasItsRow ==
    \A l \in labels :
        /\ l.pseudonym \in DOMAIN identity_map
        /\ identity_map[l.pseudonym].tenant = l.tenant
        /\ identity_map[l.pseudonym].subject = l.subject

\* Every row can be decrypted with the key in the key file: the agent starts
\* again after any crash.
MapReadable == \A i \in DOMAIN identity_map : identity_map[i].key = keyFile

\* What was disclosed is the subject of the event, and identity_access_log has
\* a row for it with a reason and two different people ("the disclosure is
\* already recorded in identity_access_log before the plaintext exists").
DisclosureAudited ==
    \A d \in disclosed :
        /\ \E l \in labels : l.pseudonym = d.event.pseudonym /\ l.subject = d.subject
        /\ \E i \in DOMAIN identity_access_log :
             LET row == identity_access_log[i]
             IN  /\ row.pseudonym = d.event.pseudonym /\ Strip[row.reason] # ""
                 /\ Strip[row.actor] # Strip[row.second_approver]

\* Nothing replaces a key that is there ("Refuses to overwrite").
KeyNeverReplaced == [][keyFile # NoKey => keyFile' = keyFile]_vars
=============================================================================
