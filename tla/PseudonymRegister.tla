------------------------- MODULE PseudonymRegister --------------------------
(***************************************************************************)
(* What the identity store and its pseudonymizer promise: a register that  *)
(* only grows.  A subject is entered once under a tenant, with a pseudonym *)
(* nobody else has, and what is put on an event is an entry.  There is no  *)
(* step that changes, forgets or repeats one.                              *)
(***************************************************************************)
EXTENDS Integers

CONSTANTS Tenants, Subjects

VARIABLES
    entries, \* the register
    given    \* the entries whose pseudonym was put on an event

vars == <<entries, given>>

\* A subject that is new under the tenant gets a pseudonym that is new.
Enter(t, s, p) ==
    /\ \A e \in entries : ~ (e.tenant = t /\ e.subject = s) /\ e.pseudonym # p
    /\ entries' = entries \cup {[tenant |-> t, subject |-> s, pseudonym |-> p]}
    /\ UNCHANGED given

\* An event is labelled.
Give(e) ==
    /\ given' = given \cup {e}
    /\ UNCHANGED entries

Init == entries = {} /\ given = {}

Next ==
    \/ \E t \in Tenants, s \in Subjects, p \in Nat : Enter(t, s, p)
    \/ \E e \in entries : Give(e)

Spec == Init /\ [][Next]_vars
=============================================================================
