----------------------------- MODULE MCModeration -----------------------------
(* Model checking of Moderation: threads and scores are interchangeable.     *)
EXTENDS Moderation, TLC

Interchangeable == Permutations(Threads) \cup Permutations(Scores)
===============================================================================
