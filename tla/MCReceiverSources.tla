------------------------- MODULE MCReceiverSources --------------------------
(* Model-checking instance of ReceiverSources: three collar blocks in      *)
(* batches of two, the smallest ring the receiver accepts, and a driver    *)
(* that may report a ring too small.                                       *)
EXTENDS ReceiverSources
=============================================================================
