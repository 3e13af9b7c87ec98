----------------------------- MODULE MCLiveCapture -----------------------------
(***************************************************************************)
(* Instances of LiveCapture for TLC: a socket buffer of two packets and a  *)
(* stream buffer of two, so that the queue overflows and the buffer is     *)
(* flushed in the middle of a capture.                                     *)
(***************************************************************************)
EXTENDS LiveCapture

=============================================================================
