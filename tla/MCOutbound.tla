----------------------------- MODULE MCOutbound -----------------------------
(***************************************************************************)
(* Instances of OutboundPipeline for TLC.                                  *)
(***************************************************************************)
EXTENDS OutboundPipeline

=============================================================================
