---------------------------- MODULE RecordedLog -----------------------------
(***************************************************************************)
(* What the event store promises its users: a log whose rows stay until    *)
(* the cap forces the least valuable ones out, and whose losses are        *)
(* declared.  The one exception is a fault (a killed process, a failing    *)
(* statement): it may cost the declaration of one batch, never more, and   *)
(* never a batch that the cap did not force out.                           *)
(***************************************************************************)
EXTENDS Integers

CONSTANTS
    Row,          \* rows there can be
    OverCap(_),   \* a table of these rows is past the cap
    Before(_, _)  \* x is less worth keeping than y

VARIABLES
    table,     \* rows a reader can still find, or that are on their way out
    declared,  \* rows whose loss is on the record
    faults     \* crashes and failing statements so far

vars == <<table, declared, faults>>

\* S may go: the table is over its cap, S is the less valuable part of it, and
\* something stays.
Evictable(S) ==
    /\ S # {} /\ S \subseteq table /\ table \ S # {}
    /\ OverCap(table)
    /\ \A x \in S, y \in table \ S : Before(x, y)

Init == table = {} /\ declared = {} /\ faults = 0

\* A new event is stored.
Record ==
    /\ \E e \in Row \ (table \cup declared) : table' = table \cup {e}
    /\ UNCHANGED <<declared, faults>>

\* A batch is dropped and declared.
Drop ==
    /\ \E S \in SUBSET table :
          /\ Evictable(S)
          /\ table' = table \ S
          /\ declared' = declared \cup S
    /\ UNCHANGED faults

\* A fault, which leaves the rows as they are or loses one batch undeclared.
Fault ==
    /\ faults' = faults + 1
    /\ \/ UNCHANGED table
       \/ \E S \in SUBSET table : Evictable(S) /\ table' = table \ S
    /\ UNCHANGED declared

Next == Record \/ Drop \/ Fault

Spec == Init /\ [][Next]_vars
=============================================================================
