----------------------------- MODULE BusUnitMC -----------------------------
(* Small instances of BusUnit for TLC. *)
EXTENDS BusUnit
=============================================================================
