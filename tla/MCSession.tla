------------------------------ MODULE MCSession ------------------------------
(***************************************************************************)
(* Instances of Session for TLC.  The state space is bounded by the        *)
(* messages each side may send; nothing else grows.                        *)
(***************************************************************************)
EXTENDS Session

=============================================================================
