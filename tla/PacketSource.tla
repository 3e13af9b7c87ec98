----------------------------- MODULE PacketSource -----------------------------
(***************************************************************************)
(* What the capture loop of main.cpp relies on, whichever backend it uses: *)
(* packets are numbered in the order in which they reach the socket, each  *)
(* call of ReceiveNext hands out a packet that has arrived and that is     *)
(* younger than all handed out before, and after Interrupted or Error      *)
(* nothing is handed out any more.  Packets may be skipped: the kernel     *)
(* drops, and damaged ring blocks are discarded.                           *)
(***************************************************************************)
EXTENDS Naturals, Sequences

VARIABLES
    arrived,    \* number of packets that have reached the socket
    delivered,  \* the packets handed out, in order
    stop,       \* g_stop_requested
    ended       \* ReceiveNext has returned Interrupted or Error

vars == <<arrived, delivered, stop, ended>>

Init ==
    /\ arrived = 0
    /\ delivered = <<>>
    /\ stop = FALSE
    /\ ended = FALSE

Arrive ==
    /\ arrived' = arrived + 1
    /\ UNCHANGED <<delivered, stop, ended>>

Deliver(id) ==
    /\ ~ended
    /\ \A i \in DOMAIN delivered : delivered[i] < id
    /\ delivered' = Append(delivered, id)
    /\ UNCHANGED <<arrived, stop, ended>>

(* A signal that interrupts a system call ends the capture at once.        *)
RequestStop ==
    /\ stop' = TRUE
    /\ ended' \in {ended, TRUE}
    /\ UNCHANGED <<arrived, delivered>>

(* Interrupted, which needs a stop request, or Error. *)
End ==
    /\ ended' = TRUE
    /\ UNCHANGED <<arrived, delivered, stop>>

Next ==
    \/ Arrive
    \/ \E id \in 1 .. arrived : Deliver(id)
    \/ RequestStop
    \/ End

Spec == Init /\ [][Next]_vars

=============================================================================
