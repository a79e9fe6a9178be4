---------------------------- MODULE MCJobExecution ----------------------------
(* Small instances of JobExecution for TLC.                                *)
EXTENDS JobProperties, TLC

TaskSymmetry == Permutations(Tasks)
=============================================================================
