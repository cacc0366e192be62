------------------------------ MODULE LossyFifo ------------------------------
(***************************************************************************)
(* What the outbound pipeline promises (send.go:28, "The order of packets  *)
(* (per peer) is maintained."): packets come out in the order they went    *)
(* in, none twice; some are lost.  A packet is its number of arrival.      *)
(***************************************************************************)
EXTENDS Naturals, Sequences

CONSTANT Bound

VARIABLES offered,   \* how many packets went in
          delivered  \* the packets that came out

vars == <<offered, delivered>>

Init == offered = 0 /\ delivered = <<>>

Offer == offered < Bound /\ offered' = offered + 1 /\ UNCHANGED delivered

Deliver(p) ==
    /\ \A i \in DOMAIN delivered : delivered[i] < p
    /\ delivered' = Append(delivered, p)
    /\ UNCHANGED offered

Next == Offer \/ \E p \in 1..offered : Deliver(p)

Spec == Init /\ [][Next]_vars

=============================================================================
