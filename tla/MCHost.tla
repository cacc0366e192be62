------------------------------- MODULE MCHost -------------------------------
(***************************************************************************)
(* Instances of Host for TLC.  Name servers and sockets are                *)
(* interchangeable.                                                        *)
(***************************************************************************)
EXTENDS Host, TLC

AllRoutines == {Initiator, Sender, Handshake}

Symmetry == Permutations(Servers) \cup Permutations(Conns)

=============================================================================
