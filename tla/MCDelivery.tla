----------------------------- MODULE MCDelivery -----------------------------
(* An instance of Delivery by itself; MCExclusive has a larger one. *)
EXTENDS Delivery
=============================================================================
