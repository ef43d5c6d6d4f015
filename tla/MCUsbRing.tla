------------------------------ MODULE MCUsbRing ------------------------------
(* Instances of UsbRing for TLC. *)
EXTENDS UsbRing, TLC
=============================================================================
