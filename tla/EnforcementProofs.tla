-------------------------- MODULE EnforcementProofs --------------------------
(***************************************************************************)
(* Proofs about the kill switch and the agent's pipeline, for any number of*)
(* operators.                                                              *)
(***************************************************************************)
EXTENDS Enforcement, TLAPS

\* Every type-correct state leads to type-correct states: the switch, then
\* the agent.
LEMMA SwitchTypeInductive == SwitchTypeOK /\ [Next]_vars => SwitchTypeOK'
<1> SUFFICES ASSUME SwitchTypeOK, [Next]_vars PROVE SwitchTypeOK'
  OBVIOUS
<1> USE SwitchAssumption DEF SwitchTypeOK
<1>s. NoSentinel \in Sentinel
  BY DEF NoSentinel, Sentinel
<1>w. Watch => seen' \subseteq {"off", "trusted", "absent", "unread"}
  BY DEF Watch, Sight
<1>1. ASSUME NEW o \in Operators, Operator(o) PROVE SwitchTypeOK'
  <2>1. CASE Construct(o)
    BY <2>1 DEF Construct, EnsureDirectory
  <2>2. CASE MakeTemp(o)
    BY <2>2 DEF MakeTemp, EnsureDirectory
  <2>3. CASE WriteTemp(o)
    BY <2>3 DEF WriteTemp
  <2>4. CASE Fail(o)
    BY <2>4 DEF Fail
  <2>5. CASE Replace(o)
    <3>1. tmp[o] \in {"empty", "payload"}
      BY <2>5 DEF Replace
    <3>2. sentinel' \in Sentinel
      BY <2>5, <3>1 DEF Replace, Sentinel, Content
    <3> QED BY <2>5, <3>2, <1>w DEF Replace
  <2>6. CASE Release(o)
    BY <2>6, <1>s, <1>w DEF Release
  <2> QED BY <1>1, <2>1, <2>2, <2>3, <2>4, <2>5, <2>6 DEF Operator
<1>2. CASE EditSentinel
  <2>1. [form : Untrusted \cup {"good"}, content : HandWritten] \subseteq Sentinel
    BY DEF Sentinel
  <2>2. sentinel' \in Sentinel
    BY <1>2, <1>s, <2>1 DEF EditSentinel
  <2> QED BY <1>2, <2>2, <1>w DEF EditSentinel
<1>3. CASE EditDirectory
  BY <1>3, <1>s, <1>w DEF EditDirectory
<1>4. CASE Start \/ Killed \/ Enforce \/ LstatFails
  BY <1>4 DEF Start, EnsureDirectory, Killed, Leave, Enforce, Sight, LstatFails
<1>5. CASE UNCHANGED switchVars
  BY <1>5 DEF switchVars
<1>6. CASE ReadMetadata \/ Record
  BY <1>6 DEF ReadMetadata, Record, Leave
<1>7. QED
  BY <1>1, <1>2, <1>3, <1>4, <1>5, <1>6
  DEF Next, SwitchNext, Agent, Handle, Decide, CheckDirectory, CheckSentinel,
      NotSupported, Act, FailOpen, vars

LEMMA TypeInductive == TypeOK /\ [Next]_vars => TypeOK'
<1> SUFFICES ASSUME TypeOK, [Next]_vars PROVE TypeOK'
  OBVIOUS
<1>s. SwitchTypeOK'
  BY SwitchTypeInductive DEF TypeOK
<1> USE <1>s DEF TypeOK
<1>r. /\ NoResult \in Result /\ Enforced \in Result
      /\ \A reason \in BlockedReason : Blocked(reason) \in Result
  BY DEF NoResult, Enforced, Blocked, Result, NoReason
<1>1. CASE UNCHANGED agentVars
  BY <1>1 DEF agentVars
<1>2. CASE Start \/ Handle
  BY <1>2 DEF Start, Handle
<1>3. CASE Killed \/ Record
  BY <1>3, <1>r DEF Killed, Record, Leave
<1>4. CASE Decide
  BY <1>4 DEF Decide
<1>5. CASE Enforce
  BY <1>5, <1>r DEF Enforce, BlockedReason
<1>6. CASE CheckDirectory \/ LstatFails
  BY <1>6 DEF CheckDirectory, LstatFails
<1>7. CASE CheckSentinel
  BY <1>7 DEF CheckSentinel, Reported
<1>8. CASE ReadMetadata
  BY <1>8, <1>r DEF ReadMetadata, Leave, BlockedReason
<1>9. CASE NotSupported \/ Act \/ FailOpen
  BY <1>9, <1>r DEF NotSupported, Act, FailOpen, BlockedReason
<1>10. CASE UNCHANGED vars
  BY <1>10, <1>1 DEF vars
<1> QED
  BY <1>1, <1>2, <1>3, <1>4, <1>5, <1>6, <1>7, <1>8, <1>9, <1>10 DEF Next, Agent

LEMMA InitTyped == Init => TypeOK
<1> SUFFICES ASSUME Init PROVE TypeOK
  OBVIOUS
<1>1. NoSentinel \in Sentinel /\ NoResult \in Result
  BY DEF NoSentinel, Sentinel, NoResult, Result, NoReason
<1>2. SwitchTypeOK
  BY <1>1 DEF Init, SwitchInit, SwitchTypeOK
<1> QED BY <1>1, <1>2 DEF Init, TypeOK

\* The variables of the switch and of the pipeline keep their types.
THEOREM EnforcementTypeCorrect == Spec => []TypeOK
BY InitTyped, TypeInductive, PTL DEF Spec
-----------------------------------------------------------------------------
(***************************************************************************)
(* The switch.  A directory that is gone holds nothing, and what is about  *)
(* to be renamed into place is whole.                                      *)
(***************************************************************************)

GoneIsEmpty ==
    dir = "absent" => sentinel.form = "absent" /\ \A o \in Operators : tmp[o] = "none"

WholeBeforeReplace == \A o \in Operators : cli[o] = "replace" => tmp[o] # "empty"

SwitchInv == GoneIsEmpty /\ WholeBeforeReplace /\ NeverHalfWritten /\ EngageStands

LEMMA SwitchInductive == TypeOK /\ SwitchInv /\ [Next]_vars => SwitchInv'
<1> SUFFICES ASSUME TypeOK, SwitchInv, [Next]_vars PROVE SwitchInv'
  OBVIOUS
<1> USE DEF SwitchInv, GoneIsEmpty, WholeBeforeReplace, NeverHalfWritten, EngageStands
<1>t. SwitchTypeOK
  BY DEF TypeOK
<1>n. NoSentinel.form = "absent" /\ NoSentinel.content = "none"
  BY DEF NoSentinel
<1>1. ASSUME NEW o \in Operators, Operator(o) PROVE SwitchInv'
  <2>1. CASE Construct(o)
    BY <1>t, <2>1 DEF Construct, EnsureDirectory, SwitchTypeOK
  <2>2. CASE MakeTemp(o)
    BY <1>t, <2>2 DEF MakeTemp, EnsureDirectory, SwitchTypeOK
  <2>3. CASE WriteTemp(o)
    BY <1>t, <2>3 DEF WriteTemp, SwitchTypeOK
  <2>4. CASE Fail(o)
    BY <1>t, <2>4 DEF Fail, SwitchTypeOK
  <2>5. CASE Replace(o)
    BY <1>t, <2>5 DEF Replace, SwitchTypeOK
  <2>6. CASE Release(o)
    BY <1>t, <1>n, <2>6 DEF Release, SwitchTypeOK
  <2> QED BY <1>1, <2>1, <2>2, <2>3, <2>4, <2>5, <2>6 DEF Operator
<1>2. CASE EditSentinel
  <2>1. sentinel'.content # "empty"
    BY <1>2, <1>n, SwitchAssumption DEF EditSentinel, Content
  <2> QED BY <1>2, <2>1 DEF EditSentinel
<1>3. CASE EditDirectory
  BY <1>3, <1>n DEF EditDirectory
<1>4. CASE Start
  BY <1>4 DEF Start, EnsureDirectory
<1>5. CASE UNCHANGED <<dir, sentinel, tmp, cli, standing>>
  BY <1>5
<1> QED
  BY <1>1, <1>2, <1>3, <1>4, <1>5
  DEF Next, SwitchNext, Agent, Killed, Handle, Decide, Enforce, CheckDirectory, CheckSentinel,
      LstatFails, ReadMetadata, NotSupported, Act, FailOpen, Record, switchVars, vars

LEMMA SwitchInitially == Init => SwitchInv
BY DEF Init, SwitchInit, NoSentinel, SwitchInv, GoneIsEmpty, WholeBeforeReplace,
       NeverHalfWritten, EngageStands
-----------------------------------------------------------------------------
(***************************************************************************)
(* The pipeline.  A check that is under way has seen the present state of  *)
(* the switch, and each stage of it knows what it has found out.           *)
(***************************************************************************)

Checking == {"directory", "sentinel", "metadata", "act"}

SightKept ==
    /\ stage \in {"idle", "decide", "enforce"} => seen = {} /\ ~acted /\ ~reported
    /\ stage \in Checking \cup {"append"} => seen # {} /\ Sight \subseteq seen

StageInv ==
    /\ stage \in Checking => enabled /\ decision \in Enforceable /\ ~acted
    /\ stage \in {"directory", "sentinel"} => ~reported
    /\ stage = "metadata" => "trusted" \in seen
    /\ stage = "act" => "off" \in seen \/ ("unread" \in seen /\ reported)

PipelineInv ==
    /\ SightKept /\ StageInv
    /\ ActionHonoursSwitch /\ OnlyTrustedHalts /\ TamperingReported /\ RecordTruthful

LEMMA SightFacts ==
    /\ Sight # {}
    /\ dir # "secure" => "off" \in Sight
    /\ sentinel.form # "good" => "off" \in Sight
    /\ sentinel.form = "good" => "trusted" \in Sight
    /\ sentinel.form = "absent" => "absent" \in Sight
BY DEF Sight, Engaged

\* What operators and hands do to the switch does not disturb the pipeline:
\* the check that is under way sees it.
LEMMA SightInductive ==
    TypeOK /\ SwitchInv /\ SightKept /\ SwitchNext /\ UNCHANGED agentVars
        => SightKept' /\ seen \subseteq seen'
<1> SUFFICES ASSUME TypeOK, SwitchInv, SightKept, SwitchNext, UNCHANGED agentVars
             PROVE  SightKept' /\ seen \subseteq seen'
  OBVIOUS
<1>w. Watch => SightKept' /\ seen \subseteq seen'
  BY DEF Watch, SightKept, agentVars
<1>k. UNCHANGED seen /\ Sight' = Sight => SightKept' /\ seen \subseteq seen'
  BY DEF SightKept, agentVars
<1>1. ASSUME NEW o \in Operators, Construct(o) \/ MakeTemp(o)
      PROVE  SightKept' /\ seen \subseteq seen'
  <2>1. dir' = dir \/ sentinel.form = "absent"
    BY <1>1 DEF Construct, MakeTemp, EnsureDirectory, SwitchInv, GoneIsEmpty
  <2>2. Sight' = Sight
    BY <1>1, <2>1 DEF Construct, MakeTemp, Sight, Engaged
  <2> QED BY <1>1, <1>k, <2>2 DEF Construct, MakeTemp
<1>2. ASSUME NEW o \in Operators, WriteTemp(o) \/ Fail(o)
      PROVE  SightKept' /\ seen \subseteq seen'
  BY <1>2, <1>k DEF WriteTemp, Fail, Sight, Engaged
<1>3. ASSUME NEW o \in Operators, Replace(o) \/ Release(o)
      PROVE  SightKept' /\ seen \subseteq seen'
  BY <1>3, <1>w DEF Replace, Release
<1>4. CASE EditSentinel \/ EditDirectory
  BY <1>4, <1>w DEF EditSentinel, EditDirectory
<1> QED BY <1>1, <1>2, <1>3, <1>4 DEF SwitchNext, Operator

LEMMA PipelineInductive ==
    TypeOK /\ SwitchInv /\ PipelineInv /\ [Next]_vars => PipelineInv'
<1> SUFFICES ASSUME TypeOK, SwitchInv, PipelineInv, [Next]_vars PROVE PipelineInv'
  OBVIOUS
<1> USE DEF PipelineInv, StageInv, ActionHonoursSwitch, OnlyTrustedHalts,
            TamperingReported, RecordTruthful
<1>1. CASE SwitchNext /\ UNCHANGED agentVars
  <2>1. SightKept' /\ seen \subseteq seen'
    BY <1>1, SightInductive
  <2> QED BY <1>1, <2>1 DEF agentVars
<1>2. CASE Start
  <2>1. dir' = dir \/ sentinel.form = "absent"
    BY <1>2 DEF Start, EnsureDirectory, SwitchInv, GoneIsEmpty
  <2>2. Sight' = Sight
    BY <1>2, <2>1 DEF Start, Sight, Engaged
  <2> QED BY <1>2, <2>2 DEF Start, SightKept
<1>3. CASE Killed \/ Record
  BY <1>3 DEF Killed, Record, Leave, SightKept, Checking
<1>4. CASE Handle
  BY <1>4 DEF Handle, switchVars, SightKept, Checking
<1>5. CASE Decide
  BY <1>5 DEF Decide, switchVars, SightKept, Checking
<1>6. CASE Enforce
  <2>1. Sight' = Sight /\ seen' = Sight /\ seen' # {} /\ ~acted' /\ ~reported'
    BY <1>6, SightFacts DEF Enforce, Sight, Engaged, SightKept
  <2>2. Blocked("no_action_required").enforced = FALSE
        /\ Blocked("no_action_required").blocked_reason = "no_action_required"
        /\ Blocked("enforcement_disabled").enforced = FALSE
        /\ Blocked("enforcement_disabled").blocked_reason = "enforcement_disabled"
    BY DEF Blocked
  <2> QED BY <1>6, <2>1, <2>2 DEF Enforce, SightKept, Checking, NoReason
<1>7. CASE CheckDirectory
  BY <1>7, SightFacts DEF CheckDirectory, switchVars, SightKept, Checking, Sight, Engaged
<1>8. CASE CheckSentinel
  BY <1>8, SightFacts
  DEF CheckSentinel, Trusted, Reported, switchVars, SightKept, Checking, Sight, Engaged
<1>9. CASE ReadMetadata
  <2>1. Blocked("kill_switch_active").enforced = FALSE
        /\ Blocked("kill_switch_active").blocked_reason = "kill_switch_active"
    BY DEF Blocked
  <2> QED
    BY <1>9, <2>1 DEF ReadMetadata, Leave, SightKept, Checking, Sight, Engaged, NoReason
<1>10. CASE NotSupported \/ Act \/ FailOpen
  <2>1. /\ Blocked("not_supported") = [enforced |-> FALSE, blocked_reason |-> "not_supported"]
        /\ Blocked("fail_open") = [enforced |-> FALSE, blocked_reason |-> "fail_open"]
        /\ Enforced = [enforced |-> TRUE, blocked_reason |-> "none"]
    BY DEF Blocked, Enforced, NoReason
  <2> QED
    BY <1>10, <2>1 DEF NotSupported, Act, FailOpen, switchVars, SightKept, Checking, Sight,
                       Engaged, NoReason
<1>11. CASE LstatFails
  BY <1>11 DEF LstatFails, SightKept, Checking, Sight, Engaged
<1>12. CASE UNCHANGED vars
  BY <1>12 DEF vars, switchVars, agentVars, SightKept, Sight, Engaged
<1> QED
  BY <1>1, <1>2, <1>3, <1>4, <1>5, <1>6, <1>7, <1>8, <1>9, <1>10, <1>11, <1>12 DEF Next, Agent

LEMMA PipelineInitially == Init => PipelineInv
BY DEF Init, SwitchInit, PipelineInv, SightKept, StageInv, Checking, ActionHonoursSwitch,
       OnlyTrustedHalts, TamperingReported, RecordTruthful

LEMMA AllInvariant == Spec => [](TypeOK /\ SwitchInv /\ PipelineInv)
<1>1. TypeOK /\ SwitchInv /\ PipelineInv /\ [Next]_vars => (TypeOK /\ SwitchInv /\ PipelineInv)'
  BY TypeInductive, SwitchInductive, PipelineInductive
<1> QED BY <1>1, InitTyped, SwitchInitially, PipelineInitially, PTL DEF Spec

\* No action is carried out unless the switch was off at some instant of the
\* very call of enforce() that carries it out, or an lstat of that call failed
\* and the failure was reported.
THEOREM SwitchHonoured == Spec => []ActionHonoursSwitch
BY AllInvariant, PTL DEF PipelineInv

\* Only a trusted sentinel makes an event be recorded as halted.
THEOREM HaltsAreTrusted == Spec => []OnlyTrustedHalts
BY AllInvariant, PTL DEF PipelineInv

\* A sentinel that does not count never passes without a report.
THEOREM TamperingIsReported == Spec => []TamperingReported
BY AllInvariant, PTL DEF PipelineInv

\* The record of an event says truthfully whether, and if not why not, an
\* action was carried out.
THEOREM RecordIsTruthful == Spec => []RecordTruthful
BY AllInvariant, PTL DEF PipelineInv

\* The sentinel never holds a half-written payload, however engage(),
\* release(), failures and edits by hand interleave.
THEOREM SentinelWhole == Spec => []NeverHalfWritten
BY AllInvariant, PTL DEF SwitchInv

\* A completed engage() stands until a release() or an edit by hand.
THEOREM EngageHolds == Spec => []EngageStands
BY AllInvariant, PTL DEF SwitchInv

\* How _handle is left: with the event recorded, by a kill, or by a sentinel
\* whose JSON is not an object.
LeavesRecorded ==
    stage # "idle" /\ stage' = "idle" =>
        \/ fate' = "recorded" /\ up' = up
        \/ fate' = "killed"
        \/ fate' = "bad_metadata" /\ sentinel.content = "not_object"

\* The safety half of EventSurvives: no event is refused by its own schema,
\* because whatever the engines leave on one at append() is Consistent, so
\* that _handle ends in no way but those three.
THEOREM EventNeverRefused == Spec => [][LeavesRecorded]_vars
<1>1. PipelineInv => (stage = "append" => Consistent)
  BY DEF PipelineInv, ActionHonoursSwitch, RecordTruthful, Consistent
<1>2. PipelineInv /\ [Next]_vars => [LeavesRecorded]_vars
  <2> SUFFICES ASSUME PipelineInv, Next, stage # "idle", stage' = "idle" PROVE LeavesRecorded
    BY DEF LeavesRecorded
  <2>1. CASE Record
    BY <1>1, <2>1 DEF Record, Leave, LeavesRecorded
  <2>2. CASE Killed
    BY <2>2 DEF Killed, Leave, LeavesRecorded
  <2>3. CASE ReadMetadata
    BY <2>3 DEF ReadMetadata, Leave, LeavesRecorded
  <2> QED BY <2>1, <2>2, <2>3
        DEF Next, Start, Agent, Handle, Decide, Enforce, CheckDirectory, CheckSentinel,
            LstatFails, NotSupported, Act, FailOpen, agentVars
<1> QED BY <1>2, AllInvariant, PTL DEF Spec
=============================================================================
