----------------------------- MODULE Enforcement -----------------------------
(***************************************************************************)
(* What the agent does with one event (AgentRunner._handle): decide,       *)
(* enforce, record (ebabf/engine/decision.py, ebabf/engine/enforcement.py),*)
(* while operators use the kill switch.                                    *)
(*                                                                         *)
(* _decide and _enforce are hooks of abstract classes; the repository has  *)
(* one subclass of each (PassThrough: LOG; NoOp: NOT_SUPPORTED).  Here a   *)
(* hook does any of what its contract allows: return, act, or raise.       *)
(***************************************************************************)
EXTENDS KillSwitch

VARIABLES
    up,       \* the agent process is running
    enabled,  \* AgentConfig.enforcement_enabled; FALSE while a baseline is recorded
    stage,    \* where the agent is with the event it has in hand
    decision, \* the decision written on that event
    result,   \* what EnforcementEngine.enforce returned for it
    reported, \* the check of this event reported tampering
    acted,    \* history: an action was carried out for this event
    fate      \* history: how the agent's latest event ended

agentVars == <<up, enabled, stage, decision, result, reported, acted, fate>>
vars == <<switchVars, agentVars>>

\* Two of the eleven decisions, one in _ENFORCEABLE_DECISIONS and one not.
Decision == {"log", "suspend"}
Enforceable == {"suspend"}

BlockedReason == {"kill_switch_active", "enforcement_disabled", "no_action_required",
                  "fail_open", "not_supported"}
NoReason == "none"
NoResult == [enforced |-> FALSE, blocked_reason |-> NoReason]
Result == [enforced : BOOLEAN, blocked_reason : BlockedReason \cup {NoReason}]

\* EnforcementResult.__post_init__ accepts these two shapes and no other.
Enforced == [enforced |-> TRUE, blocked_reason |-> NoReason]
Blocked(reason) == [enforced |-> FALSE, blocked_reason |-> reason]
-----------------------------------------------------------------------------

\* build_agent: the kill switch is constructed, or the agent does not start.
Start ==
    /\ ~up
    /\ EnsureDirectory
    /\ dir' = "secure"
    /\ up' = TRUE
    /\ UNCHANGED <<sentinel, tmp, cli, standing, seen,
                   enabled, stage, decision, result, reported, acted, fate>>

\* _handle is left: its locals are gone.
Leave(how) ==
    /\ stage' = "idle" /\ fate' = how
    /\ decision' = "none" /\ result' = NoResult
    /\ reported' = FALSE /\ acted' = FALSE /\ seen' = {}

\* kill -9, a power cut, or an orderly stop between two events.
Killed ==
    /\ up /\ up' = FALSE
    /\ Leave("killed")
    /\ UNCHANGED <<dir, sentinel, tmp, cli, standing, enabled>>

\* sweep_once hands the next event to _handle.
Handle ==
    /\ up /\ stage = "idle"
    /\ stage' = "decide"
    /\ UNCHANGED <<switchVars, up, enabled, decision, result, reported, acted, fate>>

\* decide(): what _decide chose, or LOG when it raised (_degrade).
Decide ==
    /\ stage = "decide"
    /\ decision' \in Decision
    /\ stage' = "enforce"
    /\ UNCHANGED <<switchVars, up, enabled, result, reported, acted, fate>>

\* Mutant: the switch is read once, for the first event after a start.
Enforce_Cached ==
    /\ stage = "enforce"
    /\ seen' = Sight
    /\ \/ /\ decision \notin Enforceable
          /\ stage' = "append" /\ result' = Blocked("no_action_required")
       \/ /\ decision \in Enforceable /\ ~enabled
          /\ stage' = "append" /\ result' = Blocked("enforcement_disabled")
       \/ /\ decision \in Enforceable /\ enabled
          /\ stage' = IF fate = "recorded" THEN "act" ELSE "directory"
          /\ UNCHANGED result
    /\ UNCHANGED <<dir, sentinel, tmp, cli, standing, up, enabled, decision, reported, acted, fate>>

\* enforce() up to its question to the kill switch.
Enforce ==
    /\ stage = "enforce"
    /\ seen' = Sight
    /\ \/ /\ decision \notin Enforceable
          /\ stage' = "append" /\ result' = Blocked("no_action_required")
       \/ /\ decision \in Enforceable /\ ~enabled
          /\ stage' = "append" /\ result' = Blocked("enforcement_disabled")
       \/ /\ decision \in Enforceable /\ enabled
          /\ stage' = "directory" /\ UNCHANGED result
    /\ UNCHANGED <<dir, sentinel, tmp, cli, standing, up, enabled, decision, reported, acted, fate>>

\* read_state(): lstat of the directory.
CheckDirectory ==
    /\ stage = "directory"
    /\ \/ dir = "secure" /\ stage' = "sentinel" /\ UNCHANGED reported
       \/ dir # "secure" /\ stage' = "act" /\ reported' = TRUE
    /\ UNCHANGED <<switchVars, up, enabled, decision, result, acted, fate>>

\* Mutant: stat instead of lstat, so that a link passes for its target.
Trusted_FollowLink(form) == form \in {"good", "symlink"}

\* Not a link, owned by the trusted uid, mode within 0600.
Trusted(form) == form = "good"

\* Which of the sentinels that do not count are reported as tampering.
Reported(form) == form # "absent"

\* read_state(): lstat of the sentinel.
CheckSentinel ==
    /\ stage = "sentinel"
    /\ IF Trusted(sentinel.form)
          THEN stage' = "metadata" /\ UNCHANGED reported
          ELSE stage' = "act" /\ reported' = Reported(sentinel.form)
    /\ UNCHANGED <<switchVars, up, enabled, decision, result, acted, fate>>

\* Mutant: an lstat that fails is taken for a file that is not there.
LstatFails_Silent ==
    /\ stage \in {"directory", "sentinel"}
    /\ seen' = seen \cup {"unread"}
    /\ stage' = "act"
    /\ UNCHANGED <<dir, sentinel, tmp, cli, standing, up, enabled, decision, result, reported,
                   acted, fate>>

\* read_state(): one of the two lstat calls fails although the file may be
\* there (an I/O error, a refused access).  The check says so, as an insecure
\* directory or an unreadable sentinel, and takes the switch for off.
LstatFails ==
    /\ stage \in {"directory", "sentinel"}
    /\ seen' = seen \cup {"unread"}
    /\ stage' = "act" /\ reported' = TRUE
    /\ UNCHANGED <<dir, sentinel, tmp, cli, standing, up, enabled, decision, result, acted, fate>>

\* _read_metadata(): a file that is gone or is not JSON still counts; JSON that
\* is not an object has no .get, and the AttributeError goes up through
\* enforce(), _handle(), sweep_once() and main().
ReadMetadata ==
    /\ stage = "metadata"
    /\ \/ /\ sentinel.content # "not_object"
          /\ result' = Blocked("kill_switch_active")
          /\ stage' = "append"
          /\ UNCHANGED <<seen, up, decision, reported, acted, fate>>
       \/ /\ sentinel.content = "not_object"
          /\ up' = FALSE
          /\ Leave("bad_metadata")
    /\ UNCHANGED <<dir, sentinel, tmp, cli, standing, enabled>>

\* _enforce() of the NoOp engine, and of one that cannot do what is asked.
NotSupported ==
    /\ stage = "act"
    /\ result' = Blocked("not_supported") /\ stage' = "append"
    /\ UNCHANGED <<switchVars, up, enabled, decision, reported, acted, fate>>

\* _enforce() of an engine that acts.
Act ==
    /\ stage = "act"
    /\ acted' = TRUE
    /\ result' = Enforced /\ stage' = "append"
    /\ UNCHANGED <<switchVars, up, enabled, decision, reported, fate>>

\* Mutant: a reason that EnforcementBlockedReason does not have.
FailOpen_UnknownReason ==
    /\ stage = "act"
    /\ result' = Blocked("internal_fault") /\ stage' = "append"
    /\ UNCHANGED <<switchVars, up, enabled, decision, reported, acted, fate>>

\* Mutant: the result is prepared before the hook and kept when it raises.
FailOpen_Optimistic ==
    /\ stage = "act"
    /\ result' = Enforced /\ stage' = "append"
    /\ UNCHANGED <<switchVars, up, enabled, decision, reported, acted, fate>>

\* _enforce() raises before it has acted: enforce() fails open.
FailOpen ==
    /\ stage = "act"
    /\ result' = Blocked("fail_open") /\ stage' = "append"
    /\ UNCHANGED <<switchVars, up, enabled, decision, reported, acted, fate>>

\* Mutant: an event whose enforcement was blocked is not handed to the store.
Record_OnlyEnforced ==
    /\ stage = "append" /\ result.enforced
    /\ Leave("recorded")
    /\ UNCHANGED <<dir, sentinel, tmp, cli, standing, up, enabled>>

\* Event.__post_init__, on what the engines have written on the event: an
\* enforced one has a decision that asks for it and no reason why not.
Consistent == result.enforced => decision \in Enforceable /\ result.blocked_reason = NoReason

\* apply_to(), then append(); a failure to store is logged and counted.  An
\* event that its own schema refuses raises where nobody catches it.
Record ==
    /\ stage = "append"
    /\ Leave(IF Consistent THEN "recorded" ELSE "refused")
    /\ up' = IF Consistent THEN up ELSE FALSE
    /\ UNCHANGED <<dir, sentinel, tmp, cli, standing, enabled>>

Agent ==
    \/ Handle \/ Decide \/ Enforce \/ CheckDirectory \/ CheckSentinel \/ LstatFails
    \/ ReadMetadata \/ NotSupported \/ Act \/ FailOpen \/ Record

Init ==
    /\ SwitchInit
    /\ up = FALSE /\ enabled \in BOOLEAN
    /\ stage = "idle" /\ decision = "none"
    /\ result = NoResult
    /\ reported = FALSE /\ acted = FALSE /\ fate = "none"

Next ==
    \/ SwitchNext /\ UNCHANGED agentVars
    \/ Start \/ Killed \/ Agent

Spec == Init /\ [][Next]_vars

\* The agent is one thread that never waits between two system calls, and
\* systemd starts it again (Restart=always).  Nobody has to use the switch.
FairSpec == Spec /\ WF_vars(Agent) /\ WF_vars(Start)
-----------------------------------------------------------------------------
(***************************************************************************)
(* Properties                                                              *)
(***************************************************************************)

\* Type invariant of the switch and of the agent's pipeline.
TypeOK ==
    /\ SwitchTypeOK
    /\ up \in BOOLEAN /\ enabled \in BOOLEAN
    /\ stage \in {"idle", "decide", "enforce", "directory", "sentinel", "metadata",
                  "act", "append"}
    /\ decision \in Decision \cup {"none"}
    /\ result \in Result
    /\ reported \in BOOLEAN /\ acted \in BOOLEAN
    /\ fate \in {"none", "recorded", "refused", "killed", "bad_metadata"}

\* engage() leaves a whole sentinel: at no time does the file hold anything
\* but a complete payload or what was written there by hand ("a reader never
\* sees a half-written sentinel").
NeverHalfWritten == sentinel.content # "empty"

\* Once engage() has returned the sentinel is there and trusted until it is
\* released or edited by hand: no other operator's failure undoes it.
EngageStands == standing => sentinel.form = "good"

\* An action is carried out only for a decision that asks for one, with
\* enforcement enabled, and only if the switch was off at some instant of this
\* very call of enforce() ("a switch thrown a millisecond ago is honoured").
\* The one exception: read_state() fails open, so that an action goes through
\* with the switch on when an lstat fails, and then a report was made.
ActionHonoursSwitch ==
    acted => /\ enabled /\ decision \in Enforceable
             /\ "off" \in seen \/ ("unread" \in seen /\ reported)

\* An event is recorded as blocked by the kill switch only if a trusted
\* sentinel was there during the call: a planted link or file gains nothing.
OnlyTrustedHalts ==
    stage = "append" /\ result.blocked_reason = "kill_switch_active" => "trusted" \in seen

\* When enforcement is let through without a report, there was an instant of
\* the call without any sentinel: one that is rejected, or could not be read,
\* is never ignored.
TamperingReported == stage = "act" /\ ~reported => "absent" \in seen

\* What append() is given agrees with what happened: `enforced` is set exactly
\* for the actions carried out, and an action that was asked for and not
\* carried out has its true reason ("silence hides outages").
RecordTruthful ==
    stage = "append" =>
        /\ result.enforced <=> acted
        /\ result.blocked_reason = NoReason <=> acted
        /\ result.blocked_reason = "no_action_required" <=> decision \notin Enforceable
        /\ result.blocked_reason = "enforcement_disabled" <=> decision \in Enforceable /\ ~enabled

\* Every event that is taken up reaches append() unless the process is killed
\* or the sentinel holds JSON that is not an object: nothing the engines make
\* of it is refused by the schema (apply_to is outside every try).
EventSurvives ==
    stage = "decide" ~> /\ stage = "idle"
                        /\ fate \in {"recorded", "killed", "bad_metadata"}

\* enforce() never raises ("Act on `outcome`. Never raises.").
EnforceNeverRaises == fate # "bad_metadata"
=============================================================================
