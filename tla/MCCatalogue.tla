---------------------------- MODULE MCCatalogue ----------------------------
(* Small instances of the catalogue for TLC. *)
EXTENDS CatalogueProperties, TLC

\* No action or property tells machines or handlers apart.
CatalogueSymmetry == Permutations(Machines) \cup Permutations(Tasks)
=============================================================================
