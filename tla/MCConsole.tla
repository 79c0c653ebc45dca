----------------------------- MODULE MCConsole -----------------------------
(* Instances of Console for TLC. *)
EXTENDS Console, TLC

Threads == Permutations(Logins)
=============================================================================
