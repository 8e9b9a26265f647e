----------------------------- MODULE MCIdentity -----------------------------
(* Identity for TLC: no action tells two threads or two keys apart. *)
EXTENDS Identity, TLC

Symmetry == Permutations(Threads) \cup Permutations(Keys)
=============================================================================
