-------------------------- MODULE MCLeaderboardCache --------------------------
(* Small instances of LeaderboardCache for TLC. *)
EXTENDS LeaderboardCache, TLC

Threads == Permutations(Readers) \cup Permutations(Writers)
===============================================================================
