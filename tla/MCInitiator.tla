----------------------------- MODULE MCInitiator -----------------------------
(***************************************************************************)
(* Instances of Initiator for TLC.  Every variable ranges over a finite    *)
(* set, so there are no bounds to choose.                                  *)
(***************************************************************************)
EXTENDS Initiator

=============================================================================
