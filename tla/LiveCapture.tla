------------------------------ MODULE LiveCapture ------------------------------
(***************************************************************************)
(* main.cpp RunLiveCapture with the recvmsg backend of AfPacketCapture:    *)
(* the loop that takes packets off the socket, writes them, and ends on a  *)
(* signal, on capture.max_packets, on capture.duration_sec or on an error. *)
(*                                                                         *)
(* A packet is its arrival number; 0 stands for the global header of the   *)
(* output file.  The output stream keeps what is written in a buffer and   *)
(* hands it to the file system when the buffer is full and when it is      *)
(* destroyed.  What the policy decides does not matter here.               *)
(***************************************************************************)
EXTENDS Integers, Sequences, FiniteSets

CONSTANTS
    MaxPackets,      \* capture.max_packets; 0: no limit
    QueueCapacity,   \* packets the socket buffer holds
    BufferCapacity,  \* packets the buffer of the output stream holds
    MaxArrived,      \* bound: packets that arrive
    MaxNoBuffers     \* bound: failures of recvfrom for want of memory

ASSUME CaptureAssumption ==
    /\ MaxPackets \in Nat
    /\ QueueCapacity \in Nat
    /\ BufferCapacity \in Nat
    /\ MaxArrived \in Nat
    /\ MaxNoBuffers \in Nat

VARIABLES
    \* Environment.
    arrived,
    queue,                     \* the socket buffer
    dropped,                   \* number of packets that found it full
    stop_requested,            \* g_stop_requested
    expired,                   \* duration_sec have passed since start_time
    disk_full,
    \* RunLiveCapture and AfPacketCapture.
    pc,
    packets_total,             \* stats.packets_total and stats.packets_written
    non_fatal_receive_errors,
    stop_reason,
    exit_code,
    buffered,                  \* the output stream's buffer
    disk,                      \* the output file
    \* History.
    delivered,                 \* packets handed out by ReceiveNext, in order
    taken_after_stop           \* how many of them after the first signal

envVars == <<arrived, queue, dropped, expired, disk_full>>
fileVars == <<buffered, disk>>
historyVars == <<delivered, taken_after_stop>>
vars == <<envVars, stop_requested, pc, packets_total, non_fatal_receive_errors,
          stop_reason, exit_code, fileVars, historyVars>>

mainVars == <<pc, packets_total, non_fatal_receive_errors, stop_reason, exit_code,
              fileVars, historyVars>>

-----------------------------------------------------------------------------
(* The environment (external). *)

Arrive ==
    /\ arrived < MaxArrived
    /\ arrived' = arrived + 1
    /\ \/ /\ Len(queue) < QueueCapacity
          /\ queue' = Append(queue, arrived + 1)
          /\ UNCHANGED dropped
       \/ /\ Len(queue) = QueueCapacity
          /\ dropped' = dropped + 1
          /\ UNCHANGED queue
    /\ UNCHANGED <<expired, disk_full, stop_requested, mainVars>>

(* Only with duration_sec > 0; the other captures are those in which this   *)
(* never happens.                                                           *)
DurationPasses ==
    /\ ~expired
    /\ expired' = TRUE
    /\ UNCHANGED <<arrived, queue, dropped, disk_full, stop_requested, mainVars>>

DiskFills ==
    /\ ~disk_full
    /\ disk_full' = TRUE
    /\ UNCHANGED <<arrived, queue, dropped, expired, stop_requested, mainVars>>

-----------------------------------------------------------------------------
(* The head of the loop. *)

Finish(reason) ==
    /\ pc' = "finish"
    /\ stop_reason' = reason

(* Mutant: the loop runs until ReceiveNext says that it was interrupted.    *)
StopIgnored == FALSE
StopSeen == stop_requested

(* Mutant: one packet too many. *)
LimitExceeded == MaxPackets # 0 /\ packets_total > MaxPackets
MaxPacketsReached == MaxPackets # 0 /\ packets_total >= MaxPackets

LoopStops ==
    /\ pc = "loop"
    /\ \/ StopSeen /\ Finish("signal")
       \/ ~StopSeen /\ MaxPacketsReached /\ Finish("max_packets_limit_reached")
       \/ ~StopSeen /\ ~MaxPacketsReached /\ expired /\ Finish("duration_sec_limit_reached")
    /\ UNCHANGED <<envVars, stop_requested, packets_total, non_fatal_receive_errors,
                   exit_code, fileVars, historyVars>>

CallReceiveNext ==
    /\ pc = "loop"
    /\ ~StopSeen
    /\ ~MaxPacketsReached
    /\ ~expired
    /\ pc' = "recv"
    /\ UNCHANGED <<envVars, stop_requested, packets_total, non_fatal_receive_errors,
                   stop_reason, exit_code, fileVars, historyVars>>

-----------------------------------------------------------------------------
(* AfPacketCapture::ReceiveNext and what the loop does with its result.     *)

(* ReceiveNext returns Interrupted only when it has seen the flag.          *)
Interrupted == Finish("signal_received")

(* Mutant: recvfrom leaves the packet in the socket buffer. *)
PeekPacket ==
    /\ pc = "recv"
    /\ queue # <<>>
    /\ delivered' = Append(delivered, Head(queue))
    /\ taken_after_stop' = taken_after_stop + (IF stop_requested THEN 1 ELSE 0)
    /\ pc' = "write"
    /\ UNCHANGED <<envVars, stop_requested, packets_total,
                   non_fatal_receive_errors, stop_reason, exit_code, fileVars>>

ReceivePacket ==
    /\ pc = "recv"
    /\ queue # <<>>
    /\ queue' = Tail(queue)
    /\ delivered' = Append(delivered, Head(queue))
    /\ taken_after_stop' = taken_after_stop + (IF stop_requested THEN 1 ELSE 0)
    /\ pc' = "write"
    /\ UNCHANGED <<arrived, dropped, expired, disk_full, stop_requested, packets_total,
                   non_fatal_receive_errors, stop_reason, exit_code, fileVars>>

(* Mutant: after a timeout the receive call is repeated. *)
TimeoutRetries ==
    /\ pc = "recv"
    /\ queue = <<>>
    /\ UNCHANGED <<envVars, stop_requested, pc, packets_total, stop_reason,
                   non_fatal_receive_errors, exit_code, fileVars, historyVars>>

(* Mutant: every turn of the loop is counted. *)
TimeoutCounted ==
    /\ pc = "recv"
    /\ queue = <<>>
    /\ packets_total' = packets_total + 1
    /\ IF stop_requested THEN Interrupted ELSE pc' = "loop" /\ UNCHANGED stop_reason
    /\ UNCHANGED <<envVars, stop_requested, non_fatal_receive_errors,
                   exit_code, fileVars, historyVars>>

(* SO_RCVTIMEO is one second. *)
ReceiveTimesOut ==
    /\ pc = "recv"
    /\ queue = <<>>
    /\ IF stop_requested THEN Interrupted ELSE pc' = "loop" /\ UNCHANGED stop_reason
    /\ UNCHANGED <<envVars, stop_requested, packets_total, non_fatal_receive_errors,
                   exit_code, fileVars, historyVars>>

(* ENOBUFS and ENOMEM are counted, and the call is repeated. *)
ReceiveNoBuffers ==
    /\ pc = "recv"
    /\ non_fatal_receive_errors < MaxNoBuffers
    /\ non_fatal_receive_errors' = non_fatal_receive_errors + 1
    /\ IF stop_requested THEN Interrupted ELSE UNCHANGED <<pc, stop_reason>>
    /\ UNCHANGED <<envVars, stop_requested, packets_total, exit_code, fileVars, historyVars>>

(* Any other error ends the program with partial stats. *)
ReceiveFails ==
    /\ pc = "recv"
    /\ non_fatal_receive_errors' = non_fatal_receive_errors + 1
    /\ pc' = "close"
    /\ exit_code' = 1
    /\ UNCHANGED <<envVars, stop_requested, packets_total, stop_reason, fileVars, historyVars>>

(* SIGINT or SIGTERM.  If recvfrom is asleep it fails with EINTR; a signal  *)
(* just before the call only sets the flag.                                 *)
Signal ==
    /\ pc # "exit"
    /\ stop_requested' = TRUE
    /\ \/ UNCHANGED <<pc, stop_reason>>
       \/ pc = "recv" /\ queue = <<>> /\ Interrupted
    /\ UNCHANGED <<envVars, packets_total, non_fatal_receive_errors, exit_code,
                   fileVars, historyVars>>

-----------------------------------------------------------------------------
(* PcapWriter::WritePacket and the stats. *)

Packet == delivered[Len(delivered)]

(* The packet is counted, and the limit is looked at again. *)
Count ==
    /\ packets_total' = packets_total + 1
    /\ IF MaxPacketsReached' THEN Finish("max_packets_limit_reached")
                             ELSE pc' = "loop" /\ UNCHANGED stop_reason

(* A part of s, the last thing that fits on the disk.                       *)
WriteSome(s) == \E n \in 0 .. Len(s) : disk' = disk \o SubSeq(s, 1, n)

WriteBuffered ==
    /\ pc = "write"
    /\ Len(buffered) < BufferCapacity
    /\ buffered' = Append(buffered, Packet)
    /\ Count
    /\ UNCHANGED <<envVars, stop_requested, non_fatal_receive_errors, exit_code,
                   disk, historyVars>>

WriteFlushed ==
    /\ pc = "write"
    /\ Len(buffered) >= BufferCapacity
    /\ ~disk_full
    /\ disk' = disk \o Append(buffered, Packet)
    /\ buffered' = <<>>
    /\ Count
    /\ UNCHANGED <<envVars, stop_requested, non_fatal_receive_errors, exit_code,
                   historyVars>>

(* Mutant: a failed write is logged and the capture goes on. *)
WriteErrorIgnored ==
    /\ pc = "write"
    /\ Len(buffered) >= BufferCapacity
    /\ disk_full
    /\ WriteSome(buffered)
    /\ buffered' = <<>>
    /\ Count
    /\ UNCHANGED <<envVars, stop_requested, non_fatal_receive_errors, exit_code,
                   historyVars>>

(* The writer throws; no stats are printed. *)
WriteThrows ==
    /\ pc = "write"
    /\ Len(buffered) >= BufferCapacity
    /\ disk_full
    /\ WriteSome(buffered)
    /\ buffered' = <<>>
    /\ pc' = "close"
    /\ exit_code' = 1
    /\ UNCHANGED <<envVars, stop_requested, packets_total, non_fatal_receive_errors,
                   stop_reason, historyVars>>

-----------------------------------------------------------------------------
(* The end. *)

(* Mutant: the flag is not asked again. *)
ReasonWithoutFlag == IF stop_reason = "signal" THEN "stopped" ELSE stop_reason

FinalReason ==
    IF stop_reason # "signal" THEN stop_reason
    ELSE IF stop_requested THEN "signal_received"
    ELSE IF expired THEN "duration_sec_limit_reached"
    ELSE IF MaxPacketsReached THEN "max_packets_limit_reached"
    ELSE "stopped"

(* The final stats are printed. *)
PrintFinalStats ==
    /\ pc = "finish"
    /\ stop_reason' = FinalReason
    /\ exit_code' = 0
    /\ pc' = "close"
    /\ UNCHANGED <<envVars, stop_requested, packets_total, non_fatal_receive_errors,
                   fileVars, historyVars>>

(* The destructor of the output stream; whether its write succeeds is not   *)
(* looked at.                                                               *)
CloseOutput ==
    /\ pc = "close"
    /\ pc' = "exit"
    /\ IF disk_full THEN WriteSome(buffered) ELSE disk' = disk \o buffered
    /\ buffered' = <<>>
    /\ UNCHANGED <<envVars, stop_requested, packets_total, non_fatal_receive_errors,
                   stop_reason, exit_code, historyVars>>

-----------------------------------------------------------------------------
(* The output file is open and its global header is in the buffer. *)
Init ==
    /\ arrived = 0
    /\ queue = <<>>
    /\ dropped = 0
    /\ stop_requested = FALSE
    /\ expired = FALSE
    /\ disk_full = FALSE
    /\ pc = "loop"
    /\ packets_total = 0
    /\ non_fatal_receive_errors = 0
    /\ stop_reason = "signal"
    /\ exit_code = -1
    /\ buffered = <<0>>
    /\ disk = <<>>
    /\ delivered = <<>>
    /\ taken_after_stop = 0

Environment == Arrive \/ DurationPasses \/ DiskFills \/ Signal

Main ==
    \/ LoopStops
    \/ CallReceiveNext
    \/ ReceivePacket
    \/ ReceiveTimesOut
    \/ WriteBuffered
    \/ WriteFlushed
    \/ WriteThrows
    \/ PrintFinalStats
    \/ CloseOutput

Next == Environment \/ ReceiveNoBuffers \/ ReceiveFails \/ Main

Spec == Init /\ [][Next]_vars

(* The program keeps running, and recvfrom returns after a second.  It need *)
(* never fail.                                                              *)
FairSpec == Spec /\ WF_vars(Main)

-----------------------------------------------------------------------------
(* Properties. *)

(* The types; packets_total counts packets that have been received.         *)
TypeOK ==
    /\ arrived \in Nat
    /\ queue \in Seq(1 .. arrived)
    /\ dropped \in Nat
    /\ stop_requested \in BOOLEAN
    /\ expired \in BOOLEAN
    /\ disk_full \in BOOLEAN
    /\ pc \in {"loop", "recv", "write", "finish", "close", "exit"}
    /\ packets_total \in 0 .. Len(delivered)
    /\ non_fatal_receive_errors \in Nat
    /\ stop_reason \in {"signal", "signal_received", "interrupted", "stopped",
                        "max_packets_limit_reached", "duration_sec_limit_reached"}
    /\ exit_code \in {-1, 0, 1}
    /\ buffered \in Seq(0 .. arrived)
    /\ disk \in Seq(0 .. arrived)
    /\ delivered \in Seq(1 .. arrived)
    /\ taken_after_stop \in Nat

(* What has been written, the global header first. *)
Written == <<0>> \o SubSeq(delivered, 1, packets_total)

IsPrefixOf(s, t) == Len(s) <= Len(t) /\ s = SubSeq(t, 1, Len(s))

(* The file never has a gap: what is on the disk and in the buffer is the   *)
(* header and the packets counted, in the order of their arrival, and when  *)
(* writing fails the file ends.                                             *)
FileHasNoGap ==
    /\ IsPrefixOf(disk \o buffered, Written)
    /\ pc \notin {"close", "exit"} => disk \o buffered = Written

(* Every packet taken off the socket is counted as written, but for the one *)
(* that is in hand or whose write has failed; together with what the kernel *)
(* dropped and what is left in the socket buffer this accounts for all      *)
(* packets.                                                                 *)
PacketsAccountedFor ==
    /\ pc \in {"loop", "recv", "finish"} \/ exit_code = 0 => packets_total = Len(delivered)
    /\ Len(delivered) - packets_total \in {0, 1}
    /\ arrived = Len(delivered) + Len(queue) + dropped

(* capture.max_packets is never exceeded, and a capture that says it ended  *)
(* at the limit has saved that many packets.                                *)
LimitIsExact ==
    /\ MaxPackets # 0 => packets_total <= MaxPackets
    /\ stop_reason = "max_packets_limit_reached" => packets_total = MaxPackets

(* The reason printed is true, and one of those README.md names: a signal   *)
(* or a bound.                                                              *)
ReasonIsTrue ==
    exit_code = 0 =>
        \/ stop_reason = "signal_received" /\ stop_requested
        \/ stop_reason = "duration_sec_limit_reached" /\ expired
        \/ stop_reason = "max_packets_limit_reached" /\ MaxPacketsReached

(* After a signal at most one more packet is saved, however many wait.      *)
StopIsPrompt == taken_after_stop <= 1

(* The recvmsg backend keeps the same promise as the ring. *)
Source ==
    INSTANCE PacketSource WITH
        stop <- stop_requested, ended <- (pc \in {"finish", "close", "exit"})

ImplementsSource == Source!Spec

(* A signal ends the capture, also one that arrives just before recvfrom    *)
(* goes to sleep, and so does the end of duration_sec without any traffic.  *)
CaptureEnds == (stop_requested \/ expired) ~> pc = "exit"

(* README.md "packets_written: packets emitted to the output PCAP": if the  *)
(* program reports success, the packets it counts are in the file.          *)
SuccessMeansSaved ==
    pc = "exit" /\ exit_code = 0 =>
        \A i \in 1 .. packets_total : \E j \in DOMAIN disk : disk[j] = delivered[i]

=============================================================================
