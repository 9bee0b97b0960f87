------------------------------- MODULE MCMigrate -------------------------------
(* Commands that run at the same time are alike.                         *)
EXTENDS Migrate, TLC

Symmetry == Permutations(Runners)
=============================================================================
