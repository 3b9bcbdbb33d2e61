------------------------------ MODULE MCDedup ------------------------------
(* Instances of Dedup for TLC. *)
EXTENDS Dedup
=============================================================================
