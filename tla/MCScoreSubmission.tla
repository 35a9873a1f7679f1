--------------------------- MODULE MCScoreSubmission ---------------------------
(* Small instances of ScoreSubmission for TLC. *)
EXTENDS ScoreSubmission, TLC

ThreadSymmetry == Permutations(Threads)
===============================================================================
