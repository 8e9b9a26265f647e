---------------------------- MODULE MCEventStore ----------------------------
(* EventStore on small instances for TLC. *)
EXTENDS EventStore, TLC

MCThreeIds == 1 .. 3
MCFourIds == 1 .. 4
MCTwoLevels == {"low", "unscored"}
MCUnscored == {"unscored"}
MCSymmetry == Permutations(Threads)
=============================================================================
