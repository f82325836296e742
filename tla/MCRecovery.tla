----------------------------- MODULE MCRecovery -----------------------------
(* Instance of Recovery for TLC: items and coordinators are interchangeable. *)
EXTENDS Recovery, TLC

MCSymmetry == Permutations(Items) \cup Permutations(Coordinators)
=============================================================================
