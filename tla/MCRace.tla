------------------------------- MODULE MCRace -------------------------------
(* Instances of Race for TLC. *)
EXTENDS Race
=============================================================================
