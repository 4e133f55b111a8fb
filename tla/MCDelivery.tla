----------------------------- MODULE MCDelivery -----------------------------
(* Values for TLC: a one-part and a two-part render.                       *)
EXTENDS DeliveryProps
CONSTANTS d1, d2
MCPartsOf == [d \in Render |-> IF d = d1 THEN 1 ELSE 2]
=============================================================================
