----------------------------- MODULE MCTpacketRing -----------------------------
(***************************************************************************)
(* Instances of TpacketRing for TLC: blocks of two packets, and enough     *)
(* packets for the kernel to go round the ring, to find it full and to     *)
(* drop.  An int has 16 values, so a block timeout of 8 or more is the     *)
(* counterpart of 2^31 milliseconds and more.                              *)
(***************************************************************************)
EXTENDS TpacketRing

=============================================================================
