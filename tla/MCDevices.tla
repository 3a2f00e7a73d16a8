----------------------------- MODULE MCDevices -----------------------------
(* A display of two visible lines and two of blank, a timer of four values.   *)
EXTENDS Devices
MCInputBit(k) == k - 2
=============================================================================
