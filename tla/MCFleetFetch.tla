---------------------------- MODULE MCFleetFetch ----------------------------
(* Small instances of FleetFetch. *)
EXTENDS FleetFetch
=============================================================================
