--------------------------- MODULE MCRentalBackend ---------------------------
(* Small instances of RentalBackend for TLC.                               *)
EXTENDS RentalProperties, TLC

CONSTANTS v1, v2, provider, receiver, t1, t2

OneVm == v1 :> provider

TaskSymmetry == Permutations(Tasks)
=============================================================================
