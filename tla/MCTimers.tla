------------------------------ MODULE MCTimers ------------------------------
(***************************************************************************)
(* Instances of PeerTimers for TLC.                                        *)
(***************************************************************************)
EXTENDS PeerTimers

=============================================================================
