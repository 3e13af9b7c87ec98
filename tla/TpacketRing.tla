------------------------------ MODULE TpacketRing ------------------------------
(***************************************************************************)
(* capture/AfPacketTpacketV3Capture: the PACKET_MMAP receive ring, shared  *)
(* by the kernel, which fills blocks and hands them over, and by           *)
(* ReceiveNext, which walks the packets of one block, lends the caller a   *)
(* PacketView into it and gives the block back in a later call.            *)
(*                                                                         *)
(* A packet is its arrival number.  A block holds the packets stored in    *)
(* it, each with the defect ReceiveNext would find in its header, and may  *)
(* be damaged as a whole; the offsets behind these checks are not          *)
(* modelled.  Reads of block headers are ordered after the read of the     *)
(* status word, as on x86.                                                 *)
(*                                                                         *)
(* The steps of ReceiveNext are the program points at which another actor  *)
(* matters: the stop check at the top of its loop, the look at the block   *)
(* status, and poll.  A signal may arrive between any two steps.           *)
(***************************************************************************)
EXTENDS Integers, Sequences, FiniteSets

CONSTANTS
    BlockCount,      \* block_count_
    BlockCapacity,   \* packets that fit into a block
    BlockTimeoutMs,  \* capture.block_timeout_ms, an unsigned 32-bit number
    IntMod,          \* 2^32: the number of values of an int
    MaxArrived       \* bound: packets that arrive

ASSUME RingAssumption ==
    /\ BlockCount \in Nat \ {0}
    /\ BlockCapacity \in Nat \ {0}
    /\ IntMod \in Nat \ {0}
    /\ BlockTimeoutMs \in 0 .. (IntMod - 1)
    /\ MaxArrived \in Nat

Block == 0 .. (BlockCount - 1)

VARIABLES
    \* The ring, and the kernel's place in it.
    block_status,    \* block_status[b]: "kernel" or "user"
    content,         \* content[b]: the packets in block b
    damaged,         \* damaged[b]: the block header is out of range
    kernel_block,    \* the block the kernel fills or waits for
    kernel_open,     \* whether it has been opened for filling
    arrived,
    dropped,         \* packets that found the ring full
    \* AfPacketTpacketV3Capture.
    pc,
    current_block_index,
    current_block_packet_index,
    current_block_packet_count,
    current_block_active,
    non_fatal_receive_errors,
    view,            \* the packet the caller holds a PacketView of; id 0: none
    \* main.cpp and history.
    stop_requested,
    delivered        \* the packets handed out, in order

kernelVars == <<content, damaged, kernel_block, kernel_open, arrived, dropped>>
walkVars == <<current_block_packet_index, current_block_packet_count,
              current_block_active>>
vars == <<block_status, kernelVars, pc, current_block_index, walkVars,
          non_fatal_receive_errors, view, stop_requested, delivered>>

(* Mutant: the index runs past the last block. *)
NextWithoutWrap(b) == b + 1

NextBlock(b) == IF b + 1 = BlockCount THEN 0 ELSE b + 1

-----------------------------------------------------------------------------
(* The kernel (external): it fills blocks in ring order, hands a block over *)
(* when it is full or when its retire timer fires, and drops packets while  *)
(* the next block still belongs to the program.                             *)

Defect == {"none", "bad_data", "bad_next"}
Packet == [id : Nat, defect : Defect]

UserVars == <<pc, current_block_index, walkVars, non_fatal_receive_errors,
              view, stop_requested, delivered>>

KernelOpen ==
    /\ ~kernel_open
    /\ block_status[kernel_block] = "kernel"
    /\ kernel_open' = TRUE
    /\ content' = [content EXCEPT ![kernel_block] = <<>>]
    /\ damaged' = [damaged EXCEPT ![kernel_block] = FALSE]
    /\ UNCHANGED <<block_status, kernel_block, arrived, dropped, UserVars>>

KernelStore ==
    /\ arrived < MaxArrived
    /\ kernel_open
    /\ Len(content[kernel_block]) < BlockCapacity
    /\ arrived' = arrived + 1
    /\ \E d \in Defect :
          content' = [content EXCEPT
              ![kernel_block] = Append(@, [id |-> arrived + 1, defect |-> d])]
    /\ UNCHANGED <<block_status, damaged, kernel_block, kernel_open, dropped, UserVars>>

KernelDrop ==
    /\ arrived < MaxArrived
    /\ ~kernel_open
    /\ block_status[kernel_block] = "user"
    /\ arrived' = arrived + 1
    /\ dropped' = dropped \cup {arrived + 1}
    /\ UNCHANGED <<block_status, content, damaged, kernel_block, kernel_open, UserVars>>

KernelRetire ==
    /\ kernel_open
    /\ damaged' \in {damaged, [damaged EXCEPT ![kernel_block] = TRUE]}
    /\ block_status' = [block_status EXCEPT ![kernel_block] = "user"]
    /\ kernel_block' = NextBlock(kernel_block)
    /\ kernel_open' = FALSE
    /\ UNCHANGED <<content, arrived, dropped, UserVars>>

(* poll reports POLLIN while some retired block has not been released.      *)
PollReadable == \E b \in Block : block_status[b] = "user"

-----------------------------------------------------------------------------
(* Helpers of ReceiveNext. *)

NoView == [block |-> 0, id |-> 0]

(* Mutant: the reader stays at the block it has given back. *)
ReleaseKeepingIndex ==
    /\ block_status' = [block_status EXCEPT ![current_block_index] = "kernel"]
    /\ current_block_active' = FALSE
    /\ UNCHANGED current_block_index
    /\ current_block_packet_index' = 0
    /\ current_block_packet_count' = 0

(* Gives the current block back and moves to the next one. *)
ReleaseCurrentBlock ==
    /\ block_status' = [block_status EXCEPT ![current_block_index] = "kernel"]
    /\ current_block_active' = FALSE
    /\ current_block_packet_index' = 0
    /\ current_block_packet_count' = 0
    /\ current_block_index' = NextBlock(current_block_index)

(* Mutant: the error is not counted. *)
DiscardSilently ==
    /\ ReleaseCurrentBlock
    /\ UNCHANGED non_fatal_receive_errors

DiscardCurrentBlock ==
    /\ ReleaseCurrentBlock
    /\ non_fatal_receive_errors' = non_fatal_receive_errors + 1

(* poll_timeout_ms_, and the int that poll gets. *)
poll_timeout_ms == IF BlockTimeoutMs >= 1 THEN BlockTimeoutMs ELSE 1
PollTimeout ==
    IF 2 * poll_timeout_ms < IntMod THEN poll_timeout_ms ELSE poll_timeout_ms - IntMod

CurrentPacket == content[current_block_index][current_block_packet_index + 1]

-----------------------------------------------------------------------------
(* ReceiveNext.  The caller gives up its view by calling again. *)

ReceiveNext ==
    /\ pc = "caller"
    /\ pc' = "loop"
    /\ view' = NoView
    /\ UNCHANGED <<block_status, kernelVars, current_block_index, walkVars,
                   non_fatal_receive_errors, stop_requested, delivered>>

(* The stop check at the top of the loop: Interrupted. *)
LoopStops ==
    /\ pc = "loop"
    /\ stop_requested
    /\ pc' = "done"
    /\ UNCHANGED <<block_status, kernelVars, current_block_index, walkVars,
                   non_fatal_receive_errors, view, stop_requested, delivered>>

AtPacket ==
    /\ pc = "loop"
    /\ ~stop_requested
    /\ current_block_active

(* All packets of the block have been handed out. *)
BlockExhausted ==
    /\ AtPacket
    /\ current_block_packet_index >= current_block_packet_count
    /\ ReleaseCurrentBlock
    /\ UNCHANGED <<kernelVars, pc, non_fatal_receive_errors, view,
                   stop_requested, delivered>>

(* The header of the packet points out of the block, or claims more bytes   *)
(* than the packet had: the rest of the block is discarded.                 *)
PacketDamaged ==
    /\ AtPacket
    /\ current_block_packet_index < current_block_packet_count
    /\ CurrentPacket.defect = "bad_data"
    /\ DiscardCurrentBlock
    /\ UNCHANGED <<kernelVars, pc, view, stop_requested, delivered>>

(* The walk ends early when the offset of the next packet is unusable.      *)
NextUnusable ==
    /\ current_block_packet_index + 1 < current_block_packet_count
    /\ CurrentPacket.defect = "bad_next"

(* Mutant: the walk goes on only behind a good offset, and stays where it   *)
(* is behind a bad one.                                                     *)
DeliverAndStay ==
    /\ AtPacket
    /\ current_block_packet_index < current_block_packet_count
    /\ CurrentPacket.defect # "bad_data"
    /\ view' = [block |-> current_block_index, id |-> CurrentPacket.id]
    /\ delivered' = Append(delivered, CurrentPacket.id)
    /\ pc' = "caller"
    /\ IF NextUnusable
       THEN /\ non_fatal_receive_errors' = non_fatal_receive_errors + 1
            /\ UNCHANGED current_block_packet_index
       ELSE /\ current_block_packet_index' = current_block_packet_index + 1
            /\ UNCHANGED non_fatal_receive_errors
    /\ UNCHANGED <<block_status, kernelVars, current_block_index,
                   current_block_packet_count, current_block_active, stop_requested>>

(* Mutant: the block is given back together with its last packet. *)
DeliverAndRelease ==
    /\ AtPacket
    /\ current_block_packet_index < current_block_packet_count
    /\ CurrentPacket.defect # "bad_data"
    /\ view' = [block |-> current_block_index, id |-> CurrentPacket.id]
    /\ delivered' = Append(delivered, CurrentPacket.id)
    /\ pc' = "caller"
    /\ IF current_block_packet_index + 1 = current_block_packet_count
       THEN ReleaseCurrentBlock
       ELSE /\ current_block_packet_index' = current_block_packet_index + 1
            /\ UNCHANGED <<block_status, current_block_index,
                           current_block_packet_count, current_block_active>>
    /\ UNCHANGED <<kernelVars, non_fatal_receive_errors, stop_requested>>

PacketDelivered ==
    /\ AtPacket
    /\ current_block_packet_index < current_block_packet_count
    /\ CurrentPacket.defect # "bad_data"
    /\ view' = [block |-> current_block_index, id |-> CurrentPacket.id]
    /\ delivered' = Append(delivered, CurrentPacket.id)
    /\ pc' = "caller"
    /\ \/ /\ NextUnusable
          /\ non_fatal_receive_errors' = non_fatal_receive_errors + 1
          /\ current_block_packet_index' = current_block_packet_count
       \/ /\ ~NextUnusable
          /\ current_block_packet_index' = current_block_packet_index + 1
          /\ UNCHANGED non_fatal_receive_errors
    /\ UNCHANGED <<block_status, kernelVars, current_block_index,
                   current_block_packet_count, current_block_active, stop_requested>>

NeedBlock ==
    /\ pc = "loop"
    /\ ~stop_requested
    /\ ~current_block_active
    /\ pc' = "wait"
    /\ UNCHANGED <<block_status, kernelVars, current_block_index, walkVars,
                   non_fatal_receive_errors, view, stop_requested, delivered>>

BlockIsReady == block_status[current_block_index] = "user"

(* WaitForReadyBlock looks at the status of the current block. *)
WaitChecks ==
    /\ pc = "wait"
    /\ pc' = IF BlockIsReady THEN "activate" ELSE "poll"
    /\ UNCHANGED <<block_status, kernelVars, current_block_index, walkVars,
                   non_fatal_receive_errors, view, stop_requested, delivered>>

PollReturnsReady ==
    /\ pc = "poll"
    /\ PollReadable
    /\ pc' = "wait"
    /\ UNCHANGED <<block_status, kernelVars, current_block_index, walkVars,
                   non_fatal_receive_errors, view, stop_requested, delivered>>

(* Mutant: WaitForReadyBlock waits on. *)
PollAgain ==
    /\ pc = "poll"
    /\ ~PollReadable
    /\ PollTimeout >= 0
    /\ pc' = "wait"
    /\ UNCHANGED <<block_status, kernelVars, current_block_index, walkVars,
                   non_fatal_receive_errors, view, stop_requested, delivered>>

(* Interrupted if a stop is requested, else Timeout and the caller's loop. *)
PollTimesOut ==
    /\ pc = "poll"
    /\ ~PollReadable
    /\ PollTimeout >= 0
    /\ pc' = IF stop_requested THEN "done" ELSE "caller"
    /\ UNCHANGED <<block_status, kernelVars, current_block_index, walkVars,
                   non_fatal_receive_errors, view, stop_requested, delivered>>

(* poll fails, or reports POLLERR, POLLNVAL or POLLHUP: Error. *)
PollFails ==
    /\ pc = "poll"
    /\ non_fatal_receive_errors' = non_fatal_receive_errors + 1
    /\ pc' = "done"
    /\ UNCHANGED <<block_status, kernelVars, current_block_index, walkVars,
                   view, stop_requested, delivered>>

(* Mutant: an empty block is not given back. *)
SkipEmpty ==
    /\ pc = "activate"
    /\ content[current_block_index] = <<>>
    /\ pc' = "loop"
    /\ UNCHANGED <<block_status, kernelVars, current_block_index, walkVars,
                   non_fatal_receive_errors, view, stop_requested, delivered>>

(* ActivateCurrentBlock looks at the status again: a block that is not      *)
(* ready is left alone.  An empty block goes back, a damaged one is         *)
(* discarded, any other becomes active.                                     *)
ActivateEmpty ==
    /\ pc = "activate"
    /\ BlockIsReady => content[current_block_index] = <<>>
    /\ IF BlockIsReady THEN ReleaseCurrentBlock
                       ELSE UNCHANGED <<block_status, current_block_index, walkVars>>
    /\ pc' = "loop"
    /\ UNCHANGED <<kernelVars, non_fatal_receive_errors, view, stop_requested, delivered>>

ActivateDamaged ==
    /\ pc = "activate"
    /\ BlockIsReady
    /\ content[current_block_index] # <<>>
    /\ damaged[current_block_index]
    /\ DiscardCurrentBlock
    /\ pc' = "loop"
    /\ UNCHANGED <<kernelVars, view, stop_requested, delivered>>

ActivateBlock ==
    /\ pc = "activate"
    /\ BlockIsReady
    /\ content[current_block_index] # <<>>
    /\ ~damaged[current_block_index]
    /\ current_block_packet_index' = 0
    /\ current_block_packet_count' = Len(content[current_block_index])
    /\ current_block_active' = TRUE
    /\ pc' = "loop"
    /\ UNCHANGED <<block_status, kernelVars, current_block_index,
                   non_fatal_receive_errors, view, stop_requested, delivered>>

(* SIGINT or SIGTERM.  If poll is asleep it fails with EINTR; a signal just *)
(* before poll is entered, or when poll is about to return, only sets the   *)
(* flag.                                                                    *)
Signal ==
    /\ stop_requested' = TRUE
    /\ pc' \in IF pc = "poll" /\ ~PollReadable THEN {"poll", "done"} ELSE {pc}
    /\ UNCHANGED <<block_status, kernelVars, current_block_index, walkVars,
                   non_fatal_receive_errors, view, delivered>>

-----------------------------------------------------------------------------
Init ==
    /\ block_status = [b \in Block |-> "kernel"]
    /\ content = [b \in Block |-> <<>>]
    /\ damaged = [b \in Block |-> FALSE]
    /\ kernel_block = 0
    /\ kernel_open = FALSE
    /\ arrived = 0
    /\ dropped = {}
    /\ pc = "caller"
    /\ current_block_index = 0
    /\ current_block_packet_index = 0
    /\ current_block_packet_count = 0
    /\ current_block_active = FALSE
    /\ non_fatal_receive_errors = 0
    /\ view = NoView
    /\ stop_requested = FALSE
    /\ delivered = <<>>

Kernel == KernelOpen \/ KernelStore \/ KernelDrop \/ KernelRetire

Reader ==
    \/ ReceiveNext
    \/ LoopStops
    \/ BlockExhausted
    \/ PacketDamaged
    \/ PacketDelivered
    \/ NeedBlock
    \/ WaitChecks
    \/ PollReturnsReady
    \/ PollTimesOut
    \/ ActivateEmpty
    \/ ActivateDamaged
    \/ ActivateBlock

Next == Kernel \/ Reader \/ PollFails \/ Signal

Spec == Init /\ [][Next]_vars

(* The capture loop keeps calling and its thread keeps running; poll        *)
(* returns when it has something to report or its timeout is over.          *)
FairSpec == Spec /\ WF_vars(Reader)

-----------------------------------------------------------------------------
(* Properties. *)

TypeOK ==
    /\ block_status \in [Block -> {"kernel", "user"}]
    /\ content \in [Block -> Seq(Packet)]
    /\ damaged \in [Block -> BOOLEAN]
    /\ kernel_block \in Block
    /\ kernel_open \in BOOLEAN
    /\ arrived \in Nat
    /\ dropped \subseteq Nat
    /\ pc \in {"caller", "loop", "wait", "poll", "activate", "done"}
    /\ current_block_index \in Block
    /\ current_block_packet_index \in Nat
    /\ current_block_packet_count \in Nat
    /\ current_block_active \in BOOLEAN
    /\ non_fatal_receive_errors \in Nat
    /\ view \in [block : Block, id : Nat]
    /\ stop_requested \in BOOLEAN
    /\ delivered \in Seq(Nat)

(* The reader never waits for the wrong block: if the kernel has handed     *)
(* over any block, it has handed over the one at current_block_index.       *)
(* Otherwise poll would report readiness and WaitForReadyBlock would spin   *)
(* without ever looking at the stop flag.                                   *)
ReaderAtOldest ==
    (\E b \in Block : block_status[b] = "user") =>
        block_status[current_block_index] = "user"

(* While the caller holds a view, its block stays handed over, is not       *)
(* rewritten, and still holds the packet.                                   *)
ViewStable ==
    view.id # 0 =>
        /\ block_status[view.block] = "user"
        /\ \E i \in DOMAIN content[view.block] : content[view.block][i].id = view.id

(* Packets that are on their way: in blocks handed over but not walked yet, *)
(* in the rest of the active block, and in the block the kernel fills.      *)
InRing ==
    UNION {{content[b][i].id : i \in {j \in DOMAIN content[b] :
                /\ \/ block_status[b] = "user"
                   \/ b = kernel_block /\ kernel_open
                /\ b = current_block_index /\ current_block_active =>
                      current_block_packet_index < j}} : b \in Block}

Missing ==
    (1 .. arrived) \ (InRing \cup dropped \cup {delivered[i] : i \in DOMAIN delivered})

(* No packet vanishes unnoticed: what was neither delivered nor dropped by  *)
(* the kernel was in a damaged block, and each such block is counted.       *)
NoSilentLoss == Cardinality(Missing) <= non_fatal_receive_errors * BlockCapacity

(* In-order delivery, each packet once, and none after the capture ended.   *)
Source ==
    INSTANCE PacketSource WITH stop <- stop_requested, ended <- (pc = "done")

ImplementsSource == Source!Spec

(* Every block that is handed over is given back, unless the capture ends.  *)
BlocksAreReleased ==
    \A b \in Block :
        block_status[b] = "user" ~> (block_status[b] = "kernel" \/ pc = "done")

(* README.md "Final stats on normal stop, bounded stop, or signal stop": a  *)
(* stop request ends the capture.                                           *)
StopIsHonoured == stop_requested ~> pc = "done"

=============================================================================
