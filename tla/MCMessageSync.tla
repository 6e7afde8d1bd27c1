---------------------------- MODULE MCMessageSync ----------------------------
(* MessageSync on small instances. m1 is in the folder from the start, m2    *)
(* is delivered to the same thread later; the tasks differ in name only.     *)
EXTENDS MessageSync, TLC

TaskSymmetry == Permutations(Task)
=============================================================================
