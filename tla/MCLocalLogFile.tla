---------------------------- MODULE MCLocalLogFile ----------------------------
(* Instances of LocalLogFile for TLC. *)
EXTENDS LocalLogFile, TLC

Symmetry == Permutations(Threads)
==============================================================================
