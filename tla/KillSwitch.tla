----------------------------- MODULE KillSwitch -----------------------------
(***************************************************************************)
(* The kill switch: a sentinel file in a directory only its owner may      *)
(* enter, and the ebabf-killswitch command that creates and removes it     *)
(* (ebabf/engine/killswitch.py).                                           *)
(*                                                                         *)
(* Each system call of engage() and of read_state() is a step, because     *)
(* operators, the agent and whoever edits the host by hand interleave with *)
(* them.  A file is what read_state() tells apart: what lstat says of it   *)
(* (its form) and what json.loads makes of its text (its content).         *)
(* Operators and agent run with the trusted uid.                           *)
(***************************************************************************)
EXTENDS Integers

CONSTANTS
    Operators,  \* invocations of ebabf-killswitch that may run at the same time
    HandWritten \* contents somebody may write into the sentinel by hand

VARIABLES
    dir,        \* "absent", "secure", or "insecure": not a directory, not
                \* owned by the trusted uid, or open to others
    sentinel,   \* the file at sentinel_path
    tmp,        \* the content of each operator's temporary file, or "none"
    cli,        \* the system call each operator is about to make
    standing,   \* history: the latest to touch the sentinel was an engage()
    seen        \* history: what a check that is under way could have seen since
                \* it began, and "unread" once the system refused to tell; {}
                \* when none is

switchVars == <<dir, sentinel, tmp, cli, standing, seen>>

Content == {"payload", "garbage", "not_object"}
Untrusted == {"symlink", "wrong_owner", "open_mode"}

ASSUME SwitchAssumption == HandWritten \subseteq Content

\* An empty temporary file is "empty" until the payload is in it.
Sentinel == [form : {"absent"}, content : {"none"}]
            \cup [form : Untrusted \cup {"good"}, content : Content \cup {"empty"}]
NoSentinel == [form |-> "absent", content |-> "none"]

\* What read_state() makes of the two lstat calls, were they simultaneous.
Engaged == dir = "secure" /\ sentinel.form = "good"

\* The states of the switch and of the sentinel that a check can run into.
Sight == (IF Engaged THEN {} ELSE {"off"})
         \cup (IF sentinel.form = "good" THEN {"trusted"} ELSE {})
         \cup (IF sentinel.form = "absent" THEN {"absent"} ELSE {})

\* Every step that changes the directory or the sentinel is seen by a check
\* that is under way.
Watch == seen' = IF seen = {} THEN {} ELSE seen \cup Sight'
-----------------------------------------------------------------------------
(***************************************************************************)
(* ebabf-killswitch                                                        *)
(***************************************************************************)

\* _ensure_directory: mkdir(parents=True, exist_ok=True, mode=0o700).
EnsureDirectory == dir' = IF dir = "absent" THEN "secure" ELSE dir

\* KillSwitch.__init__ of an operator: create the directory, refuse a bad one.
Construct(o) ==
    /\ cli[o] = "idle"
    /\ EnsureDirectory
    /\ dir' = "secure"
    /\ \E command \in {"engage", "release"} : cli' = [cli EXCEPT ![o] = command]
    /\ UNCHANGED <<sentinel, tmp, standing, seen>>

\* Mutant: the file is renamed into place before the payload is written.
MakeTemp_RenameFirst(o) ==
    /\ cli[o] = "engage"
    /\ EnsureDirectory
    /\ tmp' = [tmp EXCEPT ![o] = "empty"]
    /\ cli' = [cli EXCEPT ![o] = "replace"]
    /\ UNCHANGED <<sentinel, standing, seen>>

\* engage(): the directory once more, then mkstemp (which creates mode 0600).
MakeTemp(o) ==
    /\ cli[o] = "engage"
    /\ EnsureDirectory
    /\ tmp' = [tmp EXCEPT ![o] = "empty"]
    /\ cli' = [cli EXCEPT ![o] = "write"]
    /\ UNCHANGED <<sentinel, standing, seen>>

\* A file that was removed with its directory is written to without effect.
WriteTemp(o) ==
    /\ cli[o] = "write"
    /\ tmp' = [tmp EXCEPT ![o] = IF tmp[o] = "none" THEN "none" ELSE "payload"]
    /\ cli' = [cli EXCEPT ![o] = "replace"]
    /\ UNCHANGED <<dir, sentinel, standing, seen>>

\* chmod to the mode the file has, then os.replace over whatever is there;
\* both fail when the temporary file is gone.
Replace(o) ==
    /\ cli[o] = "replace" /\ tmp[o] # "none"
    /\ sentinel' = [form |-> "good", content |-> tmp[o]]
    /\ tmp' = [tmp EXCEPT ![o] = "none"]
    /\ cli' = [cli EXCEPT ![o] = "idle"]
    /\ standing' = TRUE
    /\ UNCHANGED dir
    /\ Watch

\* Mutant: the cleanup removes the sentinel instead of the temporary file.
Fail_RemoveSentinel(o) ==
    /\ cli[o] \in {"engage", "write", "replace", "release"}
    /\ tmp' = [tmp EXCEPT ![o] = "none"]
    /\ cli' = [cli EXCEPT ![o] = "idle"]
    /\ sentinel' = IF cli[o] \in {"write", "replace"} THEN NoSentinel ELSE sentinel
    /\ UNCHANGED <<dir, standing>>
    /\ Watch

\* A system call of the command fails (a full disk, a directory removed), or
\* the command is killed: its temporary file is unlinked, or stays behind
\* under a name nobody reads.
Fail(o) ==
    /\ cli[o] \in {"engage", "write", "replace", "release"}
    /\ tmp' = [tmp EXCEPT ![o] = "none"]
    /\ cli' = [cli EXCEPT ![o] = "idle"]
    /\ UNCHANGED <<dir, sentinel, standing, seen>>

\* release(): unlink(missing_ok=True).
Release(o) ==
    /\ cli[o] = "release"
    /\ sentinel' = NoSentinel
    /\ cli' = [cli EXCEPT ![o] = "idle"]
    /\ standing' = FALSE
    /\ UNCHANGED <<dir, tmp>>
    /\ Watch

Operator(o) ==
    \/ Construct(o) \/ MakeTemp(o) \/ WriteTemp(o) \/ Replace(o) \/ Fail(o) \/ Release(o)
-----------------------------------------------------------------------------
(***************************************************************************)
(* The host, by hand                                                       *)
(***************************************************************************)

\* Somebody plants, edits or removes the sentinel.
EditSentinel ==
    /\ dir # "absent"
    /\ sentinel' \in {NoSentinel} \cup [form : Untrusted \cup {"good"}, content : HandWritten]
    /\ sentinel' # sentinel
    /\ standing' = FALSE
    /\ UNCHANGED <<dir, tmp, cli>>
    /\ Watch

\* Somebody removes the directory with all in it, or changes who may enter it.
EditDirectory ==
    /\ \/ /\ dir' = "absent" /\ sentinel' = NoSentinel
          /\ tmp' = [o \in Operators |-> "none"]
          /\ standing' = FALSE
       \/ /\ dir # "absent" /\ dir' \in {"secure", "insecure"}
          /\ UNCHANGED <<sentinel, tmp, standing>>
    /\ dir' # dir
    /\ UNCHANGED cli
    /\ Watch

SwitchInit ==
    /\ dir \in {"absent", "secure", "insecure"}
    /\ sentinel = NoSentinel
    /\ tmp = [o \in Operators |-> "none"]
    /\ cli = [o \in Operators |-> "idle"]
    /\ standing = FALSE
    /\ seen = {}

SwitchTypeOK ==
    /\ dir \in {"absent", "secure", "insecure"}
    /\ sentinel \in Sentinel
    /\ tmp \in [Operators -> {"none", "empty", "payload"}]
    /\ cli \in [Operators -> {"idle", "engage", "write", "replace", "release"}]
    /\ standing \in BOOLEAN
    /\ seen \subseteq {"off", "trusted", "absent", "unread"}

SwitchNext == (\E o \in Operators : Operator(o)) \/ EditSentinel \/ EditDirectory
=============================================================================
