------------------------------- MODULE MCHost -------------------------------
(* Small instances of a provider's machine for TLC. *)
EXTENDS HostProperties
=============================================================================
