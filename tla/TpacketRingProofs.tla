--------------------------- MODULE TpacketRingProofs ---------------------------
(***************************************************************************)
(* Proofs about TpacketRing, for every number of blocks, every capacity    *)
(* and every number of packets.                                            *)
(*                                                                         *)
(* The invariant RingInv says what the reader and the kernel owe each      *)
(* other: the blocks that are handed over are those of the cyclic interval *)
(* from current_block_index up to kernel_block.  Both ends only move       *)
(* forward, the reader by giving back the first block of the interval and  *)
(* the kernel by handing over the first block behind it.                   *)
(***************************************************************************)
EXTENDS TpacketRing, TLAPS

(* b lies in the interval; if its ends meet it is empty or the whole ring.  *)
HandedOver(b) ==
    \/ /\ current_block_index < kernel_block
       /\ current_block_index <= b
       /\ b < kernel_block
    \/ /\ kernel_block < current_block_index
       /\ current_block_index <= b \/ b < kernel_block
    \/ /\ current_block_index = kernel_block
       /\ block_status[current_block_index] = "user"

IntervalInv == \A b \in Block : block_status[b] = "user" <=> HandedOver(b)

KernelInv == kernel_open => block_status[kernel_block] = "kernel"

ReaderInv ==
    /\ current_block_active \/ pc = "activate"
          => block_status[current_block_index] = "user"
    /\ current_block_active =>
          current_block_packet_count = Len(content[current_block_index])

ViewInv ==
    view.id # 0 =>
        /\ pc = "caller"
        /\ current_block_active
        /\ view.block = current_block_index
        /\ \E i \in DOMAIN content[view.block] : content[view.block][i].id = view.id

RingInv == TypeOK /\ IntervalInv /\ KernelInv /\ ReaderInv /\ ViewInv

-----------------------------------------------------------------------------
(* Moving on along the ring. *)
LEMMA NextBlockInRing ==
    ASSUME NEW b \in Block
    PROVE  /\ NextBlock(b) \in Block
           /\ NextBlock(b) = IF b = BlockCount - 1 THEN 0 ELSE b + 1
BY RingAssumption DEF Block, NextBlock

LEMMA InitTypeOK == Init => TypeOK
<1> SUFFICES ASSUME Init PROVE TypeOK
    OBVIOUS
<1>1. 0 \in Block
    BY RingAssumption DEF Block
<1> QED
    BY <1>1 DEF Init, TypeOK, NoView

(* A packet that can be delivered is one of the packets of the block.       *)
LEMMA CurrentPacketType ==
    ASSUME TypeOK, ReaderInv, current_block_active,
           current_block_packet_index < current_block_packet_count
    PROVE  /\ current_block_packet_index + 1 \in DOMAIN content[current_block_index]
           /\ CurrentPacket \in Packet
<1> DEFINE packets == content[current_block_index]
<1>1. packets \in Seq(Packet) /\ current_block_packet_count = Len(packets)
    BY DEF TypeOK, ReaderInv
<1> HIDE DEF packets
<1>2. current_block_packet_index + 1 \in 1 .. Len(packets)
    BY <1>1 DEF TypeOK
<1> QED
    BY <1>1, <1>2 DEF CurrentPacket, packets

LEMMA ReleaseType ==
    ASSUME TypeOK, ReleaseCurrentBlock
    PROVE  /\ block_status' \in [Block -> {"kernel", "user"}]
           /\ current_block_index' \in Block
           /\ current_block_packet_index' = 0
           /\ current_block_packet_count' = 0
           /\ current_block_active' = FALSE
BY NextBlockInRing DEF TypeOK, ReleaseCurrentBlock

(* All a step that releases the current block may change besides. *)
LEMMA ReleaseKeepsType ==
    ASSUME TypeOK, ReleaseCurrentBlock, UNCHANGED <<kernelVars, view, stop_requested, delivered>>,
           pc' \in {pc, "loop"}, non_fatal_receive_errors' \in Nat
    PROVE  TypeOK'
<1>1. /\ block_status' \in [Block -> {"kernel", "user"}]
      /\ current_block_index' \in Block
      /\ current_block_packet_index' = 0
      /\ current_block_packet_count' = 0
      /\ current_block_active' = FALSE
    BY ReleaseType
<1> QED
    BY <1>1 DEF TypeOK, kernelVars

(* The second look at the status word finds what the first has found: only  *)
(* the reader takes a block's readiness away (ActivateCurrentBlock).        *)
LEMMA ReadyToActivate == ReaderInv /\ pc = "activate" => BlockIsReady
BY DEF ReaderInv, BlockIsReady

LEMMA ActivateEmptyReleases ==
    ASSUME ReaderInv, ActivateEmpty
    PROVE  /\ content[current_block_index] = <<>>
           /\ ReleaseCurrentBlock
BY ReadyToActivate DEF ActivateEmpty

LEMMA StepTypeOK == TypeOK /\ ReaderInv /\ [Next]_vars => TypeOK'
<1> SUFFICES ASSUME TypeOK, ReaderInv, [Next]_vars PROVE TypeOK'
    OBVIOUS
<1>1. CASE UNCHANGED vars
    BY <1>1 DEF TypeOK, vars, kernelVars, walkVars
<1>2. CASE KernelOpen
  <2>1. content' \in [Block -> Seq(Packet)]
    <3>1. <<>> \in Seq(Packet)
        OBVIOUS
    <3> QED
        BY <1>2, <3>1 DEF TypeOK, KernelOpen
  <2>2. damaged' \in [Block -> BOOLEAN]
    BY <1>2 DEF TypeOK, KernelOpen
  <2> QED
    BY <1>2, <2>1, <2>2 DEF TypeOK, KernelOpen, UserVars, walkVars
<1>3. CASE KernelStore
  <2>1. PICK d \in Defect :
            content' = [content EXCEPT
                ![kernel_block] = Append(@, [id |-> arrived + 1, defect |-> d])]
    BY <1>3 DEF KernelStore
  <2>2. [id |-> arrived + 1, defect |-> d] \in Packet
    BY DEF TypeOK, Packet
  <2>3. content[kernel_block] \in Seq(Packet) /\ kernel_block \in Block
    BY DEF TypeOK
  <2>4. Append(content[kernel_block], [id |-> arrived + 1, defect |-> d]) \in Seq(Packet)
    BY <2>2, <2>3
  <2>5. content' \in [Block -> Seq(Packet)]
    BY <2>1, <2>3, <2>4 DEF TypeOK
  <2>6. arrived' \in Nat
    BY <1>3 DEF TypeOK, KernelStore
  <2> QED
    BY <1>3, <2>5, <2>6 DEF TypeOK, KernelStore, UserVars, walkVars
<1>4. CASE KernelDrop
  <2>1. arrived' \in Nat /\ dropped' \subseteq Nat
    BY <1>4 DEF TypeOK, KernelDrop
  <2> QED
    BY <1>4, <2>1 DEF TypeOK, KernelDrop, UserVars, walkVars
<1>5. CASE KernelRetire
    BY <1>5, NextBlockInRing DEF TypeOK, KernelRetire, UserVars, walkVars
<1>6. CASE ReceiveNext
  <2>1. view' \in [block : Block, id : Nat]
    BY <1>6, RingAssumption DEF ReceiveNext, NoView, Block
  <2> QED
    BY <1>6, <2>1 DEF TypeOK, ReceiveNext, kernelVars, walkVars
<1>7. CASE LoopStops
    BY <1>7 DEF TypeOK, LoopStops, kernelVars, walkVars
<1>8. CASE BlockExhausted
  <2>1. /\ ReleaseCurrentBlock
        /\ UNCHANGED <<kernelVars, view, stop_requested, delivered>>
        /\ pc' = pc
        /\ non_fatal_receive_errors' = non_fatal_receive_errors
    BY <1>8 DEF BlockExhausted
  <2>2. non_fatal_receive_errors' \in Nat
    BY <2>1 DEF TypeOK
  <2> QED
    BY <2>1, <2>2, ReleaseKeepsType
<1>9. CASE PacketDamaged
  <2>1. /\ ReleaseCurrentBlock
        /\ UNCHANGED <<kernelVars, view, stop_requested, delivered>>
        /\ pc' = pc
        /\ non_fatal_receive_errors' = non_fatal_receive_errors + 1
    BY <1>9 DEF PacketDamaged, DiscardCurrentBlock
  <2>2. non_fatal_receive_errors' \in Nat
    BY <2>1 DEF TypeOK
  <2> QED
    BY <2>1, <2>2, ReleaseKeepsType
<1>10. CASE PacketDelivered
  <2>1. CurrentPacket.id \in Nat
    BY <1>10, CurrentPacketType DEF PacketDelivered, AtPacket, Packet
  <2>2. view' \in [block : Block, id : Nat] /\ delivered' \in Seq(Nat)
    BY <1>10, <2>1 DEF TypeOK, PacketDelivered
  <2>3. current_block_packet_index' \in Nat /\ non_fatal_receive_errors' \in Nat
    BY <1>10 DEF TypeOK, PacketDelivered
  <2> QED
    BY <1>10, <2>2, <2>3 DEF TypeOK, PacketDelivered, kernelVars
<1>11. CASE NeedBlock
    BY <1>11 DEF TypeOK, NeedBlock, kernelVars, walkVars
<1>12. CASE WaitChecks
    BY <1>12 DEF TypeOK, WaitChecks, kernelVars, walkVars
<1>13. CASE PollReturnsReady
    BY <1>13 DEF TypeOK, PollReturnsReady, kernelVars, walkVars
<1>14. CASE PollTimesOut
    BY <1>14 DEF TypeOK, PollTimesOut, kernelVars, walkVars
<1>15. CASE PollFails
  <2>1. non_fatal_receive_errors' \in Nat
    BY <1>15 DEF TypeOK, PollFails
  <2> QED
    BY <1>15, <2>1 DEF TypeOK, PollFails, kernelVars, walkVars
<1>16. CASE ActivateEmpty
  <2>1. /\ ReleaseCurrentBlock
        /\ UNCHANGED <<kernelVars, view, stop_requested, delivered>>
        /\ pc' = "loop"
        /\ non_fatal_receive_errors' = non_fatal_receive_errors
    BY <1>16, ActivateEmptyReleases DEF ActivateEmpty
  <2>2. non_fatal_receive_errors' \in Nat
    BY <2>1 DEF TypeOK
  <2> QED
    BY <2>1, <2>2, ReleaseKeepsType
<1>17. CASE ActivateDamaged
  <2>1. /\ ReleaseCurrentBlock
        /\ UNCHANGED <<kernelVars, view, stop_requested, delivered>>
        /\ pc' = "loop"
        /\ non_fatal_receive_errors' = non_fatal_receive_errors + 1
    BY <1>17 DEF ActivateDamaged, DiscardCurrentBlock
  <2>2. non_fatal_receive_errors' \in Nat
    BY <2>1 DEF TypeOK
  <2> QED
    BY <2>1, <2>2, ReleaseKeepsType
<1>18. CASE ActivateBlock
  <2>1. Len(content[current_block_index]) \in Nat
    BY DEF TypeOK
  <2> QED
    BY <1>18, <2>1 DEF TypeOK, ActivateBlock, kernelVars
<1>19. CASE Signal
    BY <1>19 DEF TypeOK, Signal, kernelVars, walkVars
<1> QED
    BY <1>1, <1>2, <1>3, <1>4, <1>5, <1>6, <1>7, <1>8, <1>9, <1>10, <1>11, <1>12,
       <1>13, <1>14, <1>15, <1>16, <1>17, <1>18, <1>19 DEF Next, Kernel, Reader

-----------------------------------------------------------------------------
(* Giving back the current block shrinks the interval at its front; handing *)
(* over the kernel's block extends it at its back.                          *)
LEMMA ReleaseKeepsInterval ==
    ASSUME TypeOK, IntervalInv, ReleaseCurrentBlock, UNCHANGED kernel_block,
           block_status[current_block_index] = "user"
    PROVE  IntervalInv'
<1> SUFFICES ASSUME NEW b \in Block
             PROVE  block_status'[b] = "user" <=> HandedOver(b)'
    BY DEF IntervalInv
<1> DEFINE cur == current_block_index
           next == NextBlock(cur)
<1>1. /\ cur \in Block /\ kernel_block \in Block /\ next \in Block
      /\ next = IF cur = BlockCount - 1 THEN 0 ELSE cur + 1
    BY NextBlockInRing DEF TypeOK
<1>2. /\ current_block_index' = next
      /\ block_status' = [block_status EXCEPT ![cur] = "kernel"]
      /\ kernel_block' = kernel_block
    BY DEF ReleaseCurrentBlock
<1>3. /\ block_status'[cur] = "kernel"
      /\ \A c \in Block \ {cur} : block_status'[c] = block_status[c]
    BY <1>1, <1>2 DEF TypeOK
<1>4. \A c \in Block : block_status[c] = "user" <=>
          \/ cur < kernel_block /\ cur <= c /\ c < kernel_block
          \/ kernel_block < cur /\ (cur <= c \/ c < kernel_block)
          \/ cur = kernel_block
    BY DEF IntervalInv, HandedOver
<1>5. HandedOver(b)' <=>
          \/ next < kernel_block /\ next <= b /\ b < kernel_block
          \/ kernel_block < next /\ (next <= b \/ b < kernel_block)
          \/ next = kernel_block /\ block_status'[next] = "user"
    BY <1>2 DEF HandedOver
<1> HIDE DEF cur, next
<1>6. b = cur => ~HandedOver(b)'
    BY <1>1, <1>3, <1>4, <1>5, RingAssumption DEF Block
<1>7. b # cur => (block_status[b] = "user" <=> HandedOver(b)')
    BY <1>1, <1>3, <1>4, <1>5, RingAssumption DEF Block
<1> QED
    BY <1>3, <1>6, <1>7

LEMMA RetireKeepsInterval ==
    ASSUME TypeOK, IntervalInv, KernelInv, KernelRetire
    PROVE  IntervalInv'
<1> SUFFICES ASSUME NEW b \in Block
             PROVE  block_status'[b] = "user" <=> HandedOver(b)'
    BY DEF IntervalInv
<1> DEFINE cur == current_block_index
           next == NextBlock(kernel_block)
<1>1. /\ cur \in Block /\ kernel_block \in Block /\ next \in Block
      /\ next = IF kernel_block = BlockCount - 1 THEN 0 ELSE kernel_block + 1
    BY NextBlockInRing DEF TypeOK
<1>2. /\ kernel_block' = next
      /\ block_status' = [block_status EXCEPT ![kernel_block] = "user"]
      /\ current_block_index' = cur
      /\ block_status[kernel_block] = "kernel"
    BY DEF KernelRetire, KernelInv, UserVars
<1>3. /\ block_status'[kernel_block] = "user"
      /\ \A c \in Block \ {kernel_block} : block_status'[c] = block_status[c]
    BY <1>1, <1>2 DEF TypeOK
<1>4. \A c \in Block : block_status[c] = "user" <=>
          \/ cur < kernel_block /\ cur <= c /\ c < kernel_block
          \/ kernel_block < cur /\ (cur <= c \/ c < kernel_block)
    BY <1>2 DEF IntervalInv, HandedOver
<1>5. HandedOver(b)' <=>
          \/ cur < next /\ cur <= b /\ b < next
          \/ next < cur /\ (cur <= b \/ b < next)
          \/ cur = next /\ block_status'[cur] = "user"
    BY <1>2 DEF HandedOver
<1> HIDE DEF cur, next
<1>6. b = kernel_block => HandedOver(b)'
    BY <1>1, <1>3, <1>4, <1>5, RingAssumption DEF Block
<1>7. b # kernel_block => (block_status[b] = "user" <=> HandedOver(b)')
    BY <1>1, <1>3, <1>4, <1>5, RingAssumption DEF Block
<1> QED
    BY <1>3, <1>6, <1>7

(* Steps that leave the two ends and the status words alone. *)
LEMMA IntervalUnchanged ==
    ASSUME IntervalInv, UNCHANGED <<block_status, current_block_index, kernel_block>>
    PROVE  IntervalInv'
BY DEF IntervalInv, HandedOver

(* A step that gives back the current block keeps the ring consistent: the  *)
(* kernel's block, if it is open, is another one.                           *)
LEMMA ReleaseKeepsRing ==
    ASSUME RingInv, ReleaseCurrentBlock, UNCHANGED <<kernelVars, view>>,
           pc \in {"loop", "activate"}, pc' = "loop",
           block_status[current_block_index] = "user"
    PROVE  IntervalInv' /\ KernelInv' /\ ReaderInv' /\ ViewInv'
<1>1. IntervalInv'
    BY ReleaseKeepsInterval DEF RingInv, kernelVars
<1>2. KernelInv'
    BY DEF RingInv, TypeOK, KernelInv, ReleaseCurrentBlock, kernelVars
<1>3. ReaderInv'
    BY DEF ReaderInv, ReleaseCurrentBlock
<1>4. ViewInv'
    BY DEF RingInv, ViewInv
<1> QED
    BY <1>1, <1>2, <1>3, <1>4

(* Steps of ReceiveNext that touch neither the ring nor the walk, and leave *)
(* the view alone or give it up.                                            *)
LEMMA QuietStep ==
    ASSUME RingInv, UNCHANGED <<block_status, kernelVars, current_block_index, walkVars>>,
           pc' = "activate" => block_status[current_block_index] = "user",
           view' = NoView \/ (view' = view /\ (pc' = pc \/ pc # "caller"))
    PROVE  IntervalInv' /\ KernelInv' /\ ReaderInv' /\ ViewInv'
<1>1. IntervalInv'
    BY IntervalUnchanged DEF RingInv, kernelVars
<1>2. KernelInv' /\ ReaderInv'
    BY DEF RingInv, KernelInv, ReaderInv, kernelVars, walkVars
<1>3. ViewInv'
    BY DEF RingInv, ViewInv, NoView, kernelVars, walkVars
<1> QED
    BY <1>1, <1>2, <1>3

(* A step of the kernel rewrites no block that is handed over.              *)
LEMMA KernelStep ==
    ASSUME RingInv, UNCHANGED UserVars,
           \A b \in Block : block_status[b] = "user" =>
               block_status'[b] = "user" /\ content'[b] = content[b]
    PROVE  ReaderInv' /\ ViewInv'
<1>1. current_block_index \in Block
    BY DEF RingInv, TypeOK
<1>2. ReaderInv'
    BY <1>1 DEF RingInv, ReaderInv, UserVars, walkVars
<1>3. ViewInv'
    BY <1>1 DEF RingInv, ReaderInv, ViewInv, UserVars, walkVars
<1> QED
    BY <1>2, <1>3

LEMMA StepRingInv == RingInv /\ [Next]_vars => RingInv'
<1> SUFFICES ASSUME RingInv, [Next]_vars
             PROVE  IntervalInv' /\ KernelInv' /\ ReaderInv' /\ ViewInv'
    BY StepTypeOK DEF RingInv
<1> USE DEF RingInv
<1>1. CASE UNCHANGED vars
    BY <1>1, QuietStep DEF vars, ReaderInv
<1>2. CASE KernelOpen
  <2>1. KernelInv'
    BY <1>2 DEF KernelOpen, KernelInv
  <2>2. IntervalInv'
    BY <1>2, IntervalUnchanged DEF KernelOpen, UserVars
  <2>3. \A b \in Block : block_status[b] = "user" =>
            block_status'[b] = "user" /\ content'[b] = content[b]
    BY <1>2 DEF KernelOpen, TypeOK
  <2>4. UNCHANGED UserVars
    BY <1>2 DEF KernelOpen
  <2> QED
    BY <2>1, <2>2, <2>3, <2>4, KernelStep
<1>3. CASE KernelStore
  <2>1. KernelInv'
    BY <1>3 DEF KernelStore, KernelInv
  <2>2. IntervalInv'
    BY <1>3, IntervalUnchanged DEF KernelStore, UserVars
  <2>3. \A b \in Block : block_status[b] = "user" =>
            block_status'[b] = "user" /\ content'[b] = content[b]
    BY <1>3 DEF KernelStore, KernelInv, TypeOK
  <2>4. UNCHANGED UserVars
    BY <1>3 DEF KernelStore
  <2> QED
    BY <2>1, <2>2, <2>3, <2>4, KernelStep
<1>4. CASE KernelDrop
  <2>1. KernelInv'
    BY <1>4 DEF KernelDrop, KernelInv
  <2>2. IntervalInv'
    BY <1>4, IntervalUnchanged DEF KernelDrop, UserVars
  <2>3. UNCHANGED UserVars /\ UNCHANGED <<block_status, content>>
    BY <1>4 DEF KernelDrop
  <2> QED
    BY <2>1, <2>2, <2>3, KernelStep
<1>5. CASE KernelRetire
  <2>1. KernelInv'
    BY <1>5 DEF KernelRetire, KernelInv
  <2>2. IntervalInv'
    BY <1>5, RetireKeepsInterval
  <2>3. \A b \in Block : block_status[b] = "user" =>
            block_status'[b] = "user" /\ content'[b] = content[b]
    BY <1>5 DEF KernelRetire, TypeOK
  <2>4. UNCHANGED UserVars
    BY <1>5 DEF KernelRetire
  <2> QED
    BY <2>1, <2>2, <2>3, <2>4, KernelStep
<1>6. CASE ReceiveNext
    BY <1>6, QuietStep DEF ReceiveNext
<1>7. CASE LoopStops
    BY <1>7, QuietStep DEF LoopStops
<1>8. CASE BlockExhausted
    BY <1>8, ReleaseKeepsRing DEF BlockExhausted, AtPacket, ReaderInv
<1>9. CASE PacketDamaged
    BY <1>9, ReleaseKeepsRing DEF PacketDamaged, DiscardCurrentBlock, AtPacket, ReaderInv
<1>10. CASE PacketDelivered
  <2>1. IntervalInv'
    BY <1>10, IntervalUnchanged DEF PacketDelivered, kernelVars
  <2>2. KernelInv' /\ ReaderInv'
    BY <1>10 DEF PacketDelivered, AtPacket, KernelInv, ReaderInv, kernelVars
  <2>3. ViewInv'
    <3>1. /\ current_block_packet_index + 1 \in DOMAIN content[current_block_index]
          /\ content[current_block_index][current_block_packet_index + 1].id = view'.id
          /\ view'.block = current_block_index
        BY <1>10, CurrentPacketType DEF PacketDelivered, AtPacket, CurrentPacket
    <3>2. /\ content' = content
          /\ current_block_index' = current_block_index
          /\ current_block_active'
          /\ pc' = "caller"
        BY <1>10 DEF PacketDelivered, AtPacket, kernelVars
    <3> QED
        BY <3>1, <3>2 DEF ViewInv
  <2> QED
    BY <2>1, <2>2, <2>3
<1>11. CASE NeedBlock
    BY <1>11, QuietStep DEF NeedBlock
<1>12. CASE WaitChecks
    BY <1>12, QuietStep DEF WaitChecks, BlockIsReady
<1>13. CASE PollReturnsReady
    BY <1>13, QuietStep DEF PollReturnsReady
<1>14. CASE PollTimesOut
    BY <1>14, QuietStep DEF PollTimesOut
<1>15. CASE PollFails
    BY <1>15, QuietStep DEF PollFails
<1>16. CASE ActivateEmpty
    BY <1>16, ActivateEmptyReleases, ReleaseKeepsRing DEF ActivateEmpty, ReaderInv
<1>17. CASE ActivateDamaged
    BY <1>17, ReleaseKeepsRing DEF ActivateDamaged, DiscardCurrentBlock, ReaderInv
<1>18. CASE ActivateBlock
  <2>1. IntervalInv'
    BY <1>18, IntervalUnchanged DEF ActivateBlock, kernelVars
  <2>2. KernelInv' /\ ReaderInv'
    BY <1>18 DEF ActivateBlock, KernelInv, ReaderInv, kernelVars
  <2>3. ViewInv'
    BY <1>18 DEF ActivateBlock, ViewInv
  <2> QED
    BY <2>1, <2>2, <2>3
<1>19. CASE Signal
    BY <1>19, QuietStep DEF Signal, ReaderInv
<1> QED
    BY <1>1, <1>2, <1>3, <1>4, <1>5, <1>6, <1>7, <1>8, <1>9, <1>10, <1>11, <1>12,
       <1>13, <1>14, <1>15, <1>16, <1>17, <1>18, <1>19 DEF Next, Kernel, Reader

LEMMA InitRingInv == Init => RingInv
<1> SUFFICES ASSUME Init PROVE RingInv
    OBVIOUS
<1>1. IntervalInv
    BY RingAssumption DEF Init, IntervalInv, HandedOver, Block
<1>2. KernelInv /\ ReaderInv /\ ViewInv
    BY DEF Init, KernelInv, ReaderInv, ViewInv, NoView
<1> QED
    BY <1>1, <1>2, InitTypeOK DEF RingInv

THEOREM RingInvariant == Spec => []RingInv
<1> QED
    BY InitRingInv, StepRingInv, PTL DEF Spec

-----------------------------------------------------------------------------
(* The types of the ring, whatever its size: in particular the block index  *)
(* of ReleaseCurrentBlock never leaves the mapping.                         *)
THEOREM RingTypes == Spec => []TypeOK
<1>1. RingInv => TypeOK
    BY DEF RingInv
<1> QED
    BY <1>1, RingInvariant, PTL

LEMMA OldestHandedOver == RingInv => ReaderAtOldest
<1> SUFFICES ASSUME RingInv, NEW b \in Block, block_status[b] = "user"
             PROVE  block_status[current_block_index] = "user"
    BY DEF ReaderAtOldest
<1>1. HandedOver(b) /\ current_block_index \in Block /\ kernel_block \in Block
    BY DEF RingInv, IntervalInv, TypeOK
<1>2. HandedOver(current_block_index)
    BY <1>1 DEF HandedOver, Block
<1> QED
    BY <1>1, <1>2 DEF RingInv, IntervalInv

(* WaitForReadyBlock waits for the right block: the block at                *)
(* current_block_index is the first to be handed over, so poll cannot       *)
(* report readiness again and again for a block it does not look at.        *)
THEOREM WaitsForOldest == Spec => []ReaderAtOldest
<1> QED
    BY OldestHandedOver, RingInvariant, PTL

(* The PacketView that ReceiveNext lends stays valid until the next call:   *)
(* the kernel does not write to its block and the packet stays in it.       *)
THEOREM ViewsStayValid == Spec => []ViewStable
<1>1. RingInv => ViewStable
    BY DEF RingInv, ReaderInv, ViewInv, ViewStable
<1> QED
    BY <1>1, RingInvariant, PTL

-----------------------------------------------------------------------------
(* How many steps the reader may still take once a stop is requested.       *)
StopStepsLeft ==
    CASE pc = "done" -> 0
      [] pc = "loop" -> 1
      [] pc = "caller" -> 2
      [] pc = "activate" -> 2
      [] pc = "poll" -> 4
      [] OTHER -> IF block_status[current_block_index] = "user" THEN 3 ELSE 5

StopApproaches ==
    [][stop_requested =>
          /\ Reader => StopStepsLeft' < StopStepsLeft
          /\ StopStepsLeft' <= StopStepsLeft]_vars

(* What StopIsHonoured rests on besides fairness: once a stop is requested, *)
(* the reader takes at most five more steps, whatever the kernel does in    *)
(* between: it hands over no further packet, and a poll that reports        *)
(* readiness is followed by a look at the stop flag.                        *)
THEOREM StopIsApproached == Spec => StopApproaches
<1>1. RingInv /\ [Next]_vars =>
          [stop_requested =>
              /\ Reader => StopStepsLeft' < StopStepsLeft
              /\ StopStepsLeft' <= StopStepsLeft]_vars
  <2> SUFFICES ASSUME RingInv, Next, stop_requested
               PROVE  /\ Reader => StopStepsLeft' < StopStepsLeft
                      /\ StopStepsLeft' <= StopStepsLeft
    BY DEF vars
  <2>0. /\ pc \in {"caller", "loop", "wait", "poll", "activate", "done"}
        /\ current_block_index \in Block
        /\ block_status \in [Block -> {"kernel", "user"}]
    BY DEF RingInv, TypeOK
  <2>1. ASSUME Reader PROVE StopStepsLeft' < StopStepsLeft
    <3>1. CASE ReceiveNext
      BY <3>1 DEF ReceiveNext, StopStepsLeft
    <3>2. CASE LoopStops
      BY <3>2 DEF LoopStops, StopStepsLeft
    <3>3. CASE BlockExhausted \/ PacketDamaged \/ PacketDelivered \/ NeedBlock
      BY <3>3 DEF BlockExhausted, PacketDamaged, PacketDelivered, NeedBlock, AtPacket
    <3>4. CASE WaitChecks
      <4>1. /\ pc = "wait"
            /\ pc' = IF block_status[current_block_index] = "user" THEN "activate" ELSE "poll"
        BY <3>4 DEF WaitChecks, BlockIsReady
      <4> QED
        BY <4>1 DEF StopStepsLeft
    <3>5. CASE PollReturnsReady
      <4>1. pc = "poll" /\ pc' = "wait" /\ UNCHANGED <<block_status, current_block_index>>
        BY <3>5 DEF PollReturnsReady
      <4>2. block_status[current_block_index] = "user"
        BY <3>5, OldestHandedOver DEF PollReturnsReady, PollReadable, ReaderAtOldest
      <4> QED
        BY <4>1, <4>2 DEF StopStepsLeft
    <3>6. CASE PollTimesOut
      BY <3>6 DEF PollTimesOut, StopStepsLeft
    <3>7. CASE ActivateEmpty \/ ActivateDamaged \/ ActivateBlock
      <4>1. pc = "activate" /\ pc' = "loop"
        BY <3>7 DEF ActivateEmpty, ActivateDamaged, ActivateBlock
      <4> QED
        BY <4>1 DEF StopStepsLeft
    <3> QED
      BY <2>1, <3>1, <3>2, <3>3, <3>4, <3>5, <3>6, <3>7 DEF Reader
  <2>2. ASSUME Kernel PROVE StopStepsLeft' <= StopStepsLeft
    <3>1. /\ pc' = pc /\ current_block_index' = current_block_index
          /\ \/ block_status' = block_status
             \/ block_status' = [block_status EXCEPT ![kernel_block] = "user"]
      BY <2>2 DEF Kernel, KernelOpen, KernelStore, KernelDrop, KernelRetire, UserVars
    <3>2. block_status[current_block_index] = "user" =>
              block_status'[current_block_index] = "user"
      BY <2>0, <3>1
    <3> QED
      BY <2>0, <3>1, <3>2 DEF StopStepsLeft
  <2>3. ASSUME PollFails \/ Signal PROVE StopStepsLeft' <= StopStepsLeft
    <3>1. /\ pc' = pc \/ (pc = "poll" /\ pc' = "done")
          /\ UNCHANGED <<block_status, current_block_index>>
      BY <2>3 DEF PollFails, Signal
    <3> QED
      BY <2>0, <3>1 DEF StopStepsLeft
  <2>4. StopStepsLeft \in Nat /\ StopStepsLeft' \in Int
    BY DEF StopStepsLeft
  <2> QED
    BY <2>1, <2>2, <2>3, <2>4 DEF Next
<1> QED
    BY <1>1, RingInvariant, PTL DEF Spec, StopApproaches

=============================================================================
