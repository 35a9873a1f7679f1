----------------------------- MODULE MCAdminLogin -----------------------------
(* Small instances of AdminLogin for TLC. *)
EXTENDS AdminLogin, TLC

ThreadSymmetry == Permutations(Threads)
===============================================================================
