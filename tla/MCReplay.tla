------------------------------ MODULE MCReplay ------------------------------
(***************************************************************************)
(* An instance of ReplayFilter for TLC: a ring of three two-bit words that *)
(* the counters go around more than twice.                                 *)
(***************************************************************************)
EXTENDS ReplayFilter

=============================================================================
