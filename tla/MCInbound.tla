------------------------------ MODULE MCInbound ------------------------------
(***************************************************************************)
(* An instance of InboundPipeline for TLC.  The connections are            *)
(* interchangeable.                                                        *)
(***************************************************************************)
EXTENDS InboundPipeline, TLC

ConnSymmetry == Permutations(Conns)

=============================================================================
