------------------------- MODULE MCCollectorSweep -------------------------
(***************************************************************************)
(* Two users, two pids with sockets at one endpoint under two protocols,   *)
(* one pid whose CPU time is sampled, two ticks to a second.               *)
(***************************************************************************)
EXTENDS CollectorSweep, TLC

\* UTC, a zone west of it, and one east of it in the summer.
MCZones == {{0}, {-2}, {0, 2}}

MCSymmetry == Permutations(Users) \cup Permutations(SocketPids)
=============================================================================
