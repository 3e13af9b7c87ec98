---------------------------- MODULE RingSourceProofs ----------------------------
(***************************************************************************)
(* Proofs that TpacketRing implements PacketSource and loses no packet     *)
(* unnoticed, for every number of blocks, capacity and number of packets.  *)
(*                                                                         *)
(* OrderInv says how the packets lie in the ring: those still to come are  *)
(* younger than all that have been handed out, and their order is that of  *)
(* the blocks as seen from the reader, and within a block that of the walk.*)
(* LossInv adds that a block holds no more than its capacity, so that one  *)
(* error makes up for all that is discarded with a block.                  *)
(***************************************************************************)
EXTENDS TpacketRingProofs, FiniteSetTheorems

(* How many blocks the reader is away from b. *)
Ahead(b) ==
    IF current_block_index <= b THEN b - current_block_index
                                ELSE b - current_block_index + BlockCount

(* The packet at i of block b is still to come. *)
Pending(b, i) ==
    /\ i \in DOMAIN content[b]
    /\ block_status[b] = "user" \/ (b = kernel_block /\ kernel_open)
    /\ b = current_block_index /\ current_block_active => current_block_packet_index < i

(* i of b comes before j of c. *)
Precedes(b, i, c, j) == Ahead(b) < Ahead(c) \/ (b = c /\ i < j)

PendingIsYounger ==
    \A b \in Block : \A i \in Nat :
        Pending(b, i) =>
            /\ content[b][i].id \in 1 .. arrived
            /\ \A k \in DOMAIN delivered : delivered[k] < content[b][i].id

PendingInOrder ==
    \A b, c \in Block : \A i, j \in Nat :
        Pending(b, i) /\ Pending(c, j) /\ Precedes(b, i, c, j) =>
            content[b][i].id < content[c][j].id

DeliveredArrived == \A k \in DOMAIN delivered : delivered[k] \in 1 .. arrived

OrderInv == PendingIsYounger /\ PendingInOrder /\ DeliveredArrived

(* While the reader waits for a block it walks none. *)
WalkInv == pc \in {"wait", "poll", "activate"} => ~current_block_active

SourceInv == RingInv /\ OrderInv /\ WalkInv

-----------------------------------------------------------------------------
(* A step after which fewer packets are to come keeps the order. *)
LEMMA FewerPending ==
    ASSUME SourceInv, UNCHANGED delivered, arrived' \in Nat, arrived <= arrived',
           \A b \in Block : \A i \in Nat :
               Pending(b, i)' => Pending(b, i) /\ content'[b][i] = content[b][i],
           \A b, c \in Block : \A i, j \in Nat :
               Pending(b, i)' /\ Pending(c, j)' /\ Precedes(b, i, c, j)' => Precedes(b, i, c, j)
    PROVE  OrderInv'
<1>1. PendingIsYounger /\ PendingInOrder /\ DeliveredArrived /\ arrived \in Nat
    BY DEF SourceInv, OrderInv, RingInv, TypeOK
<1>2. PendingIsYounger'
  <2> SUFFICES ASSUME NEW b \in Block, NEW i \in Nat, Pending(b, i)'
               PROVE  /\ content'[b][i].id \in 1 .. arrived'
                      /\ \A k \in DOMAIN delivered' : delivered'[k] < content'[b][i].id
    BY DEF PendingIsYounger
  <2>1. Pending(b, i) /\ content'[b][i] = content[b][i]
    OBVIOUS
  <2>2. /\ content[b][i].id \in 1 .. arrived
        /\ \A k \in DOMAIN delivered : delivered[k] < content[b][i].id
    BY <1>1, <2>1 DEF PendingIsYounger
  <2> QED
    BY <1>1, <2>1, <2>2
<1>3. PendingInOrder'
  <2> SUFFICES ASSUME NEW b \in Block, NEW c \in Block, NEW i \in Nat, NEW j \in Nat,
                      Pending(b, i)', Pending(c, j)', Precedes(b, i, c, j)'
               PROVE  content'[b][i].id < content'[c][j].id
    BY DEF PendingInOrder
  <2>1. /\ Pending(b, i) /\ content'[b][i] = content[b][i]
        /\ Pending(c, j) /\ content'[c][j] = content[c][j]
        /\ Precedes(b, i, c, j)
    OBVIOUS
  <2> QED
    BY <1>1, <2>1 DEF PendingInOrder
<1>4. DeliveredArrived'
    BY <1>1 DEF DeliveredArrived
<1> QED
    BY <1>2, <1>3, <1>4 DEF OrderInv

(* If the reader stays where it is, so do the blocks as it sees them.       *)
LEMMA ReaderStays ==
    ASSUME SourceInv, UNCHANGED <<delivered, current_block_index>>, arrived' \in Nat,
           arrived <= arrived',
           \A b \in Block : \A i \in Nat :
               Pending(b, i)' => Pending(b, i) /\ content'[b][i] = content[b][i]
    PROVE  OrderInv'
<1>1. \A b, c \in Block : \A i, j \in Nat : Precedes(b, i, c, j)' => Precedes(b, i, c, j)
    BY DEF Precedes, Ahead
<1> QED
    BY <1>1, FewerPending

LEMMA QuietKeepsOrder ==
    ASSUME SourceInv, UNCHANGED <<block_status, kernelVars, current_block_index, walkVars, delivered>>
    PROVE  OrderInv'
<1>1. \A b \in Block : \A i \in Nat :
          Pending(b, i)' => Pending(b, i) /\ content'[b][i] = content[b][i]
    BY DEF Pending, kernelVars, walkVars
<1>2. arrived' \in Nat /\ arrived <= arrived'
    BY DEF SourceInv, RingInv, TypeOK, kernelVars
<1> QED
    BY <1>1, <1>2, ReaderStays

(* The block that is given back was the first, and nothing in it is to come. *)
LEMMA ReleaseKeepsOrder ==
    ASSUME SourceInv, ReleaseCurrentBlock, UNCHANGED <<kernelVars, delivered>>,
           block_status[current_block_index] = "user"
    PROVE  OrderInv'
<1> DEFINE cur == current_block_index
<1>1. cur \in Block /\ current_block_index' = NextBlock(cur)
    BY DEF SourceInv, RingInv, TypeOK, ReleaseCurrentBlock
<1>2. kernel_open => kernel_block # cur
    BY DEF SourceInv, RingInv, KernelInv
<1>3. /\ block_status'[cur] = "kernel"
      /\ \A c \in Block \ {cur} : block_status'[c] = block_status[c]
    BY <1>1 DEF SourceInv, RingInv, TypeOK, ReleaseCurrentBlock
<1>4. \A b \in Block : \A i \in Nat :
          Pending(b, i)' => b # cur /\ Pending(b, i) /\ content'[b][i] = content[b][i]
    BY <1>2, <1>3 DEF Pending, kernelVars
<1>5. \A b \in Block \ {cur} : Ahead(b)' = Ahead(b) - 1
    BY <1>1, NextBlockInRing, RingAssumption DEF Ahead, Block
<1>6. \A b \in Block : Ahead(b) \in Int
    BY <1>1, RingAssumption DEF Ahead, Block
<1>7. \A b, c \in Block : \A i, j \in Nat :
          Pending(b, i)' /\ Pending(c, j)' /\ Precedes(b, i, c, j)' => Precedes(b, i, c, j)
    BY <1>4, <1>5, <1>6 DEF Precedes
<1>8. arrived' \in Nat /\ arrived <= arrived'
    BY DEF SourceInv, RingInv, TypeOK, kernelVars
<1> QED
    BY <1>4, <1>7, <1>8, FewerPending

(* All blocks that are handed over lie in front of the one being filled.    *)
LEMMA KernelIsLast ==
    ASSUME RingInv, kernel_open, NEW b \in Block, block_status[b] = "user"
    PROVE  Ahead(b) < Ahead(kernel_block)
<1>1. current_block_index \in Block /\ kernel_block \in Block
    BY DEF RingInv, TypeOK
<1>2. HandedOver(b) /\ block_status[kernel_block] = "kernel"
    BY DEF RingInv, IntervalInv, KernelInv
<1> QED
    BY <1>1, <1>2, RingAssumption DEF HandedOver, Ahead, Block

(* The packet that arrives is the youngest, and lies behind all others.     *)
LEMMA StoreKeepsOrder ==
    ASSUME SourceInv, KernelStore
    PROVE  OrderInv'
<1> DEFINE last == Len(content[kernel_block]) + 1
<1>1. PICK d \in Defect :
          content' = [content EXCEPT
              ![kernel_block] = Append(@, [id |-> arrived + 1, defect |-> d])]
    BY DEF KernelStore
<1>2. kernel_block \in Block /\ content \in [Block -> Seq(Packet)] /\ arrived \in Nat
    BY DEF SourceInv, RingInv, TypeOK
<1>3. content[kernel_block] \in Seq(Packet) /\ last \in Nat
    BY <1>2
<1>4. /\ DOMAIN content'[kernel_block] = DOMAIN content[kernel_block] \cup {last}
      /\ content'[kernel_block][last].id = arrived + 1
      /\ last \notin DOMAIN content[kernel_block]
      /\ \A i \in DOMAIN content[kernel_block] :
            content'[kernel_block][i] = content[kernel_block][i] /\ i < last
    BY <1>1, <1>2, <1>3
<1>5. \A b \in Block \ {kernel_block} : content'[b] = content[b]
    BY <1>1, <1>2
<1>6. /\ arrived' = arrived + 1 /\ delivered' = delivered /\ kernel_open
      /\ UNCHANGED <<block_status, kernel_block, kernel_open, current_block_index,
                     current_block_active, current_block_packet_index>>
    BY DEF KernelStore, UserVars, walkVars
<1> DEFINE New(b, i) == b = kernel_block /\ i = last
           Old(b, i) == Pending(b, i) /\ content'[b][i] = content[b][i]
<1>7. \A b \in Block : \A i \in Nat : Pending(b, i)' => New(b, i) \/ Old(b, i)
    BY <1>2, <1>4, <1>5, <1>6 DEF Pending
<1>8. \A b, c \in Block : \A i, j \in Nat : Precedes(b, i, c, j)' <=> Precedes(b, i, c, j)
    BY <1>6 DEF Precedes, Ahead
<1>9. ASSUME NEW b \in Block, NEW i \in Nat, New(b, i) \/ Old(b, i)
      PROVE  /\ content'[b][i].id \in 1 .. arrived'
             /\ \A k \in DOMAIN delivered' : delivered'[k] < content'[b][i].id
    BY <1>2, <1>4, <1>6, <1>9 DEF SourceInv, OrderInv, PendingIsYounger, DeliveredArrived
<1>10. ASSUME NEW b \in Block, NEW c \in Block, NEW i \in Nat, NEW j \in Nat,
              New(b, i) \/ Old(b, i), New(c, j) \/ Old(c, j), Precedes(b, i, c, j)
       PROVE  content'[b][i].id < content'[c][j].id
  <2>1. CASE Old(b, i) /\ Old(c, j)
    BY <2>1, <1>10 DEF SourceInv, OrderInv, PendingInOrder
  <2>2. CASE Old(b, i) /\ New(c, j)
    <3>1. content[b][i].id \in 1 .. arrived
        BY <2>2 DEF SourceInv, OrderInv, PendingIsYounger
    <3>2. content'[c][j].id = arrived + 1
        BY <2>2, <1>4
    <3> QED
        BY <2>2, <3>1, <3>2, <1>2
  <2>3. CASE New(b, i)
    <3>1. \A a \in Block : Ahead(a) \in Int
        BY RingAssumption DEF SourceInv, RingInv, TypeOK, Ahead, Block
    <3>2. CASE b = c
      <4>1. i < j
        BY <3>1, <3>2, <1>10 DEF Precedes
      <4>2. j \in DOMAIN content[c] \/ j = last
        BY <1>10 DEF Pending
      <4> QED
        BY <4>1, <4>2, <3>2, <2>3, <1>3, <1>4
    <3>3. CASE b # c
      <4>1. Pending(c, j) /\ c # kernel_block
        BY <3>3, <2>3, <1>10
      <4>2. block_status[c] = "user"
        BY <4>1 DEF Pending
      <4>3. Ahead(c) < Ahead(kernel_block)
        BY <4>2, <1>6, KernelIsLast DEF SourceInv
      <4>4. Ahead(kernel_block) < Ahead(c)
        BY <3>3, <2>3, <1>10 DEF Precedes
      <4> QED
        BY <4>3, <4>4, <3>1, <1>2
    <3> QED
        BY <3>2, <3>3
  <2> QED
    BY <2>1, <2>2, <2>3, <1>10
<1> HIDE DEF New, Old
<1>11. PendingIsYounger'
    BY <1>7, <1>9 DEF PendingIsYounger
<1>12. PendingInOrder'
    BY <1>7, <1>8, <1>10 DEF PendingInOrder
<1>13. DeliveredArrived'
    BY <1>2, <1>6 DEF SourceInv, OrderInv, DeliveredArrived
<1> QED
    BY <1>11, <1>12, <1>13 DEF OrderInv

(* What is handed out is the first of the packets to come. *)
LEMMA FirstIsDelivered ==
    ASSUME SourceInv, AtPacket, current_block_packet_index < current_block_packet_count
    PROVE  /\ Pending(current_block_index, current_block_packet_index + 1)
           /\ current_block_packet_index + 1 \in Nat
           /\ CurrentPacket.id \in 1 .. arrived
           /\ \A k \in DOMAIN delivered : delivered[k] < CurrentPacket.id
<1>1. /\ current_block_packet_index + 1 \in DOMAIN content[current_block_index]
      /\ current_block_packet_index + 1 \in Nat
      /\ current_block_packet_index < current_block_packet_index + 1
      /\ current_block_index \in Block
    BY CurrentPacketType DEF SourceInv, RingInv, AtPacket, TypeOK
<1>2. block_status[current_block_index] = "user"
    BY DEF SourceInv, RingInv, ReaderInv, AtPacket
<1>3. Pending(current_block_index, current_block_packet_index + 1)
    BY <1>1, <1>2 DEF Pending
<1> QED
    BY <1>1, <1>3 DEF SourceInv, OrderInv, PendingIsYounger, CurrentPacket

LEMMA DeliverKeepsOrder ==
    ASSUME SourceInv, PacketDelivered
    PROVE  OrderInv'
<1> DEFINE cur == current_block_index
           at == current_block_packet_index + 1
           id == CurrentPacket.id
<1>1. /\ Pending(cur, at) /\ at \in Nat /\ cur \in Block
      /\ id \in 1 .. arrived
      /\ \A k \in DOMAIN delivered : delivered[k] < id
      /\ id = content[cur][at].id
    BY FirstIsDelivered DEF PacketDelivered, SourceInv, RingInv, TypeOK, CurrentPacket
<1>2. /\ delivered \in Seq(Nat) /\ arrived \in Nat
      /\ current_block_packet_index \in Nat /\ current_block_packet_count \in Nat
    BY DEF SourceInv, RingInv, TypeOK
<1>3. /\ UNCHANGED <<block_status, content, kernel_block, kernel_open, arrived, current_block_index,
                     current_block_active>>
      /\ current_block_active
      /\ delivered' = Append(delivered, id)
    BY DEF PacketDelivered, AtPacket, kernelVars
<1>4. current_block_packet_index' >= at
    BY <1>2 DEF PacketDelivered
<1>5. current_block_packet_index' \in Nat
    BY <1>2 DEF PacketDelivered
<1>6. ASSUME NEW b \in Block, NEW i \in Nat, Pending(b, i)'
      PROVE  Pending(b, i) /\ Precedes(cur, at, b, i)
  <2>1. CASE b = cur
    <3>1. at < i
        BY <2>1, <1>2, <1>3, <1>4, <1>5, <1>6 DEF Pending
    <3>2. Pending(b, i)
        BY <3>1, <2>1, <1>2, <1>3, <1>6 DEF Pending
    <3> QED
        BY <3>1, <3>2, <2>1 DEF Precedes
  <2>2. CASE b # cur
    <3>1. Pending(b, i)
        BY <2>2, <1>3, <1>6 DEF Pending
    <3>2. Ahead(cur) < Ahead(b)
        BY <2>2, <1>1, RingAssumption DEF Ahead, Block
    <3> QED
        BY <3>1, <3>2 DEF Precedes
  <2> QED
    BY <2>1, <2>2
<1>7. /\ DOMAIN delivered' = DOMAIN delivered \cup {Len(delivered) + 1}
      /\ \A k \in DOMAIN delivered : delivered'[k] = delivered[k]
      /\ delivered'[Len(delivered) + 1] = id
    BY <1>1, <1>2, <1>3
<1> HIDE DEF id, at, cur
<1>8. PendingIsYounger'
  <2> SUFFICES ASSUME NEW b \in Block, NEW i \in Nat, Pending(b, i)'
               PROVE  /\ content'[b][i].id \in 1 .. arrived'
                      /\ \A k \in DOMAIN delivered' : delivered'[k] < content'[b][i].id
    BY DEF PendingIsYounger
  <2>1. Pending(b, i) /\ id < content[b][i].id
    BY <1>1, <1>6 DEF SourceInv, OrderInv, PendingInOrder
  <2>2. /\ content[b][i].id \in 1 .. arrived
        /\ \A k \in DOMAIN delivered : delivered[k] < content[b][i].id
    BY <2>1 DEF SourceInv, OrderInv, PendingIsYounger
  <2> QED
    BY <2>1, <2>2, <1>3, <1>7
<1>9. PendingInOrder'
  <2>1. \A b, c \in Block : \A i, j \in Nat : Precedes(b, i, c, j)' <=> Precedes(b, i, c, j)
    BY <1>3 DEF Precedes, Ahead
  <2> QED
    BY <2>1, <1>3, <1>6 DEF SourceInv, OrderInv, PendingInOrder
<1>10. DeliveredArrived'
    BY <1>1, <1>3, <1>7 DEF SourceInv, OrderInv, DeliveredArrived
<1> QED
    BY <1>8, <1>9, <1>10 DEF OrderInv

-----------------------------------------------------------------------------
LEMMA InitSourceInv == Init => SourceInv
<1> SUFFICES ASSUME Init PROVE OrderInv
    BY InitRingInv DEF SourceInv, Init, WalkInv
<1>1. \A b \in Block : \A i \in Nat : ~Pending(b, i)
    BY DEF Init, Pending
<1>2. DOMAIN delivered = {}
    BY DEF Init
<1> QED
    BY <1>1, <1>2 DEF OrderInv, PendingIsYounger, PendingInOrder, DeliveredArrived

LEMMA StepWalkInv == WalkInv /\ [Next]_vars => WalkInv'
<1> SUFFICES ASSUME WalkInv, [Next]_vars PROVE WalkInv'
    OBVIOUS
<1> USE DEF WalkInv
<1>1. CASE UNCHANGED vars
    BY <1>1 DEF vars, walkVars
<1>2. CASE Kernel
    BY <1>2 DEF Kernel, KernelOpen, KernelStore, KernelDrop, KernelRetire, UserVars, walkVars
<1>3. CASE Reader
    BY <1>3 DEF Reader, ReceiveNext, LoopStops, BlockExhausted, PacketDamaged,
                PacketDelivered, NeedBlock, WaitChecks, PollReturnsReady, PollTimesOut,
                ActivateEmpty, ActivateDamaged, ActivateBlock, AtPacket,
                DiscardCurrentBlock, ReleaseCurrentBlock, walkVars
<1>4. CASE PollFails \/ Signal
    BY <1>4 DEF PollFails, Signal, walkVars
<1> QED
    BY <1>1, <1>2, <1>3, <1>4 DEF Next

LEMMA StepSourceInv == SourceInv /\ [Next]_vars => SourceInv'
<1> SUFFICES ASSUME SourceInv, [Next]_vars PROVE OrderInv'
    BY StepRingInv, StepWalkInv DEF SourceInv
<1>1. CASE UNCHANGED vars
    BY <1>1, QuietKeepsOrder DEF vars
<1>2. CASE KernelOpen
  <2>1. \A b \in Block : \A i \in Nat :
            Pending(b, i)' => Pending(b, i) /\ content'[b][i] = content[b][i]
    BY <1>2 DEF KernelOpen, Pending, UserVars, walkVars, SourceInv, RingInv, TypeOK
  <2>2. arrived' \in Nat /\ arrived <= arrived'
    BY <1>2 DEF KernelOpen, SourceInv, RingInv, TypeOK
  <2> QED
    BY <1>2, <2>1, <2>2, ReaderStays DEF KernelOpen, UserVars
<1>3. CASE KernelStore
    BY <1>3, StoreKeepsOrder
<1>4. CASE KernelDrop
  <2>1. \A b \in Block : \A i \in Nat :
            Pending(b, i)' => Pending(b, i) /\ content'[b][i] = content[b][i]
    BY <1>4 DEF KernelDrop, Pending, UserVars, walkVars
  <2>2. arrived' \in Nat /\ arrived <= arrived'
    BY <1>4 DEF KernelDrop, SourceInv, RingInv, TypeOK
  <2> QED
    BY <1>4, <2>1, <2>2, ReaderStays DEF KernelDrop, UserVars
<1>5. CASE KernelRetire
  <2>1. \A b \in Block : \A i \in Nat :
            Pending(b, i)' => Pending(b, i) /\ content'[b][i] = content[b][i]
    BY <1>5 DEF KernelRetire, Pending, UserVars, walkVars, SourceInv, RingInv, TypeOK
  <2>2. arrived' \in Nat /\ arrived <= arrived'
    BY <1>5 DEF KernelRetire, SourceInv, RingInv, TypeOK
  <2> QED
    BY <1>5, <2>1, <2>2, ReaderStays DEF KernelRetire, UserVars
<1>6. CASE ReceiveNext
    BY <1>6, QuietKeepsOrder DEF ReceiveNext
<1>7. CASE LoopStops
    BY <1>7, QuietKeepsOrder DEF LoopStops
<1>8. CASE BlockExhausted
  <2>1. block_status[current_block_index] = "user"
    BY <1>8 DEF BlockExhausted, AtPacket, SourceInv, RingInv, ReaderInv
  <2> QED
    BY <1>8, <2>1, ReleaseKeepsOrder DEF BlockExhausted
<1>9. CASE PacketDamaged
  <2>1. block_status[current_block_index] = "user"
    BY <1>9 DEF PacketDamaged, AtPacket, SourceInv, RingInv, ReaderInv
  <2> QED
    BY <1>9, <2>1, ReleaseKeepsOrder DEF PacketDamaged, DiscardCurrentBlock
<1>10. CASE PacketDelivered
    BY <1>10, DeliverKeepsOrder
<1>11. CASE NeedBlock
    BY <1>11, QuietKeepsOrder DEF NeedBlock
<1>12. CASE WaitChecks
    BY <1>12, QuietKeepsOrder DEF WaitChecks
<1>13. CASE PollReturnsReady
    BY <1>13, QuietKeepsOrder DEF PollReturnsReady
<1>14. CASE PollTimesOut
    BY <1>14, QuietKeepsOrder DEF PollTimesOut
<1>15. CASE PollFails
    BY <1>15, QuietKeepsOrder DEF PollFails
<1>16. CASE ActivateEmpty
  <2>1. block_status[current_block_index] = "user"
    BY <1>16 DEF ActivateEmpty, SourceInv, RingInv, ReaderInv
  <2> QED
    BY <1>16, <2>1, ReleaseKeepsOrder DEF ActivateEmpty, BlockIsReady
<1>17. CASE ActivateDamaged
  <2>1. block_status[current_block_index] = "user"
    BY <1>17 DEF ActivateDamaged, SourceInv, RingInv, ReaderInv
  <2> QED
    BY <1>17, <2>1, ReleaseKeepsOrder DEF ActivateDamaged, DiscardCurrentBlock
<1>18. CASE ActivateBlock
  <2>1. \A b \in Block : \A i \in Nat :
            Pending(b, i)' => Pending(b, i) /\ content'[b][i] = content[b][i]
    BY <1>18 DEF ActivateBlock, Pending, kernelVars, SourceInv, WalkInv
  <2>2. arrived' \in Nat /\ arrived <= arrived'
    BY <1>18 DEF ActivateBlock, kernelVars, SourceInv, RingInv, TypeOK
  <2> QED
    BY <1>18, <2>1, <2>2, ReaderStays DEF ActivateBlock
<1>19. CASE Signal
    BY <1>19, QuietKeepsOrder DEF Signal
<1> QED
    BY <1>1, <1>2, <1>3, <1>4, <1>5, <1>6, <1>7, <1>8, <1>9, <1>10, <1>11, <1>12,
       <1>13, <1>14, <1>15, <1>16, <1>17, <1>18, <1>19 DEF Next, Kernel, Reader

THEOREM SourceInvariant == Spec => []SourceInv
<1> QED
    BY InitSourceInv, StepSourceInv, PTL DEF Spec

-----------------------------------------------------------------------------
(* Packets come out in the order of their arrival, each once, and none      *)
(* after the end: the ring is a packet source as the capture loop expects.  *)
THEOREM RingIsPacketSource == Spec => ImplementsSource
<1>1. Init => Source!Init
    BY DEF Init, Source!Init
<1>2. SourceInv /\ [Next]_vars => [Source!Next]_(Source!vars)
  <2> SUFFICES ASSUME SourceInv, [Next]_vars
               PROVE  Source!Next \/ UNCHANGED Source!vars
    OBVIOUS
  <2> USE DEF Source!vars
  <2>1. CASE UNCHANGED vars
    BY <2>1 DEF vars, kernelVars
  <2>2. CASE KernelOpen \/ KernelRetire
    BY <2>2 DEF KernelOpen, KernelRetire, UserVars
  <2>3. CASE KernelStore \/ KernelDrop
    BY <2>3 DEF KernelStore, KernelDrop, UserVars, Source!Next, Source!Arrive
  <2>4. CASE ReceiveNext \/ NeedBlock \/ WaitChecks \/ PollReturnsReady \/ ActivateBlock
    BY <2>4 DEF ReceiveNext, NeedBlock, WaitChecks, PollReturnsReady, ActivateBlock, kernelVars
  <2>5. CASE LoopStops \/ PollTimesOut \/ PollFails
    BY <2>5 DEF LoopStops, PollTimesOut, PollFails, kernelVars, Source!Next, Source!End
  <2>6. CASE BlockExhausted \/ PacketDamaged \/ ActivateEmpty \/ ActivateDamaged
    BY <2>6 DEF BlockExhausted, PacketDamaged, ActivateEmpty, ActivateDamaged,
                DiscardCurrentBlock, AtPacket, kernelVars
  <2>7. CASE PacketDelivered
    <3>1. /\ CurrentPacket.id \in 1 .. arrived
          /\ \A k \in DOMAIN delivered : delivered[k] < CurrentPacket.id
        BY <2>7, FirstIsDelivered DEF PacketDelivered
    <3>2. Source!Deliver(CurrentPacket.id)
        BY <2>7, <3>1 DEF PacketDelivered, AtPacket, kernelVars, Source!Deliver
    <3> QED
        BY <3>1, <3>2 DEF Source!Next
  <2>8. CASE Signal
    BY <2>8 DEF Signal, kernelVars, Source!Next, Source!RequestStop
  <2> QED
    BY <2>1, <2>2, <2>3, <2>4, <2>5, <2>6, <2>7, <2>8 DEF Next, Kernel, Reader
<1> QED
    BY <1>1, <1>2, SourceInvariant, PTL DEF Spec, ImplementsSource, Source!Spec

-----------------------------------------------------------------------------
(* Nothing is lost unnoticed. *)

(* Where a packet may be that is not missing. *)
Known(x) ==
    \/ x \in dropped
    \/ \E k \in DOMAIN delivered : delivered[k] = x
    \/ \E b \in Block : \E i \in Nat : Pending(b, i) /\ content[b][i].id = x

CapacityInv == \A b \in Block : Len(content[b]) <= BlockCapacity

LossInv == SourceInv /\ CapacityInv /\ NoSilentLoss

MissingAreFinite ==
    /\ Missing = {x \in 1 .. arrived : ~Known(x)}
    /\ IsFiniteSet(Missing)
    /\ Cardinality(Missing) \in Nat

LEMMA MissingIsUnknown == TypeOK => MissingAreFinite
<1> SUFFICES ASSUME TypeOK PROVE MissingAreFinite
    OBVIOUS
<1>1. \A x : x \in InRing <=> \E b \in Block : \E i \in Nat : Pending(b, i) /\ content[b][i].id = x
  <2>1. \A b \in Block : DOMAIN content[b] \subseteq Nat
    BY DEF TypeOK
  <2> QED
    BY <2>1 DEF InRing, Pending
<1>2. Missing = {x \in 1 .. arrived : ~Known(x)}
    BY <1>1 DEF Missing, Known
<1>3. IsFiniteSet(1 .. arrived)
    BY FS_Interval DEF TypeOK
<1>4. IsFiniteSet(Missing)
    BY <1>2, <1>3, FS_Subset
<1> QED
    BY <1>2, <1>4, FS_CardinalityType DEF MissingAreFinite

LEMMA MissingIsUnknownNext == TypeOK' => MissingAreFinite'
<1> QED
    BY MissingIsUnknown, PTL

(* A step after which all that was known is known still. *)
LEMMA NothingIsLost ==
    ASSUME LossInv, TypeOK', CapacityInv', non_fatal_receive_errors <= non_fatal_receive_errors',
           \A x \in 1 .. arrived' : x \in 1 .. arrived \/ Known(x)',
           \A x : Known(x) => Known(x)'
    PROVE  NoSilentLoss'
<1>1. /\ Missing = {x \in 1 .. arrived : ~Known(x)}
      /\ IsFiniteSet(Missing)
      /\ Cardinality(Missing) \in Nat
    BY MissingIsUnknown DEF LossInv, SourceInv, RingInv, MissingAreFinite
<1>2. (Missing = {x \in 1 .. arrived : ~Known(x)} /\ Cardinality(Missing) \in Nat)'
    BY MissingIsUnknownNext DEF MissingAreFinite
<1>3. Missing' \subseteq Missing
    BY <1>1, <1>2
<1>4. Cardinality(Missing') <= Cardinality(Missing)
    BY <1>1, <1>3, FS_Subset
<1>5. non_fatal_receive_errors * BlockCapacity <= non_fatal_receive_errors' * BlockCapacity
  <2>1. \A m, n, c \in Nat : m <= n => m * c <= n * c
    OBVIOUS
  <2> QED
    BY <2>1, RingAssumption DEF LossInv, SourceInv, RingInv, TypeOK
<1>6. /\ Cardinality(Missing) <= non_fatal_receive_errors * BlockCapacity
      /\ Cardinality(Missing)' = Cardinality(Missing')
    BY DEF LossInv, NoSilentLoss
<1>7. /\ non_fatal_receive_errors * BlockCapacity \in Nat
      /\ non_fatal_receive_errors' * BlockCapacity \in Nat
  <2>1. non_fatal_receive_errors \in Nat /\ non_fatal_receive_errors' \in Nat /\ BlockCapacity \in Nat
    BY RingAssumption DEF LossInv, SourceInv, RingInv, TypeOK
  <2>2. \A m, c \in Nat : m * c \in Nat
    OBVIOUS
  <2> QED
    BY <2>1, <2>2
<1> QED
    BY <1>1, <1>2, <1>4, <1>5, <1>6, <1>7 DEF NoSilentLoss

LEMMA IdsOfBlock ==
    ASSUME TypeOK, NEW b \in Block
    PROVE  LET ids == {content[b][i].id : i \in DOMAIN content[b]}
           IN IsFiniteSet(ids) /\ Cardinality(ids) \in Nat /\ Cardinality(ids) <= Len(content[b])
<1> DEFINE n == Len(content[b])
           id(i) == content[b][i].id
           ids == {id(i) : i \in 1 .. n}
           f == [i \in 1 .. n |-> id(i)]
<1>1. n \in Nat /\ DOMAIN content[b] = 1 .. n
    BY DEF TypeOK
<1>2. IsFiniteSet(1 .. n) /\ Cardinality(1 .. n) = n
  <2>1. 1 \in Int /\ n \in Int
    BY <1>1
  <2>2. IsFiniteSet(1 .. n) /\ Cardinality(1 .. n) = IF 1 > n THEN 0 ELSE n - 1 + 1
    BY <2>1, FS_Interval
  <2> HIDE DEF n
  <2> QED
    BY <1>1, <2>2
<1>3. f \in [1 .. n -> ids]
    OBVIOUS
<1>4. \A y \in ids : \E i \in 1 .. n : f[i] = y
    OBVIOUS
<1>5. f \in Surjection(1 .. n, ids)
    BY <1>3, <1>4 DEF Surjection
<1>6. IsFiniteSet(ids) /\ Cardinality(ids) <= n
    BY <1>2, <1>5, FS_Surjection
<1> QED
    BY <1>1, <1>6, FS_CardinalityType

(* A step that discards the current block and counts an error. *)
LEMMA LossIsCounted ==
    ASSUME LossInv, TypeOK', CapacityInv', non_fatal_receive_errors' = non_fatal_receive_errors + 1,
           arrived' = arrived,
           \A x : Known(x) => Known(x)' \/ \E i \in DOMAIN content[current_block_index] :
                                               content[current_block_index][i].id = x
    PROVE  NoSilentLoss'
<1> DEFINE ids == {content[current_block_index][i].id : i \in DOMAIN content[current_block_index]}
<1>1. /\ Missing = {x \in 1 .. arrived : ~Known(x)}
      /\ IsFiniteSet(Missing)
      /\ Cardinality(Missing) \in Nat
    BY MissingIsUnknown DEF LossInv, SourceInv, RingInv, MissingAreFinite
<1>2. (Missing = {x \in 1 .. arrived : ~Known(x)} /\ Cardinality(Missing) \in Nat)'
    BY MissingIsUnknownNext DEF MissingAreFinite
<1>3. Missing' \subseteq Missing \cup ids
    BY <1>1, <1>2
<1>4. /\ current_block_index \in Block /\ non_fatal_receive_errors \in Nat
      /\ Len(content[current_block_index]) \in Nat
    BY DEF LossInv, SourceInv, RingInv, TypeOK
<1>5. IsFiniteSet(ids) /\ Cardinality(ids) \in Nat /\ Cardinality(ids) <= BlockCapacity
  <2>1. IsFiniteSet(ids) /\ Cardinality(ids) \in Nat
        /\ Cardinality(ids) <= Len(content[current_block_index])
    BY <1>4, IdsOfBlock DEF LossInv, SourceInv, RingInv
  <2> HIDE DEF ids
  <2> QED
    BY <2>1, <1>4, RingAssumption DEF LossInv, CapacityInv
<1> HIDE DEF ids
<1>6. /\ IsFiniteSet(Missing \cup ids)
      /\ Cardinality(Missing \cup ids)
             = Cardinality(Missing) + Cardinality(ids) - Cardinality(Missing \cap ids)
    BY <1>1, <1>5, FS_Union
<1>7. Cardinality(Missing \cap ids) \in Nat
    BY <1>1, FS_Subset, FS_CardinalityType
<1>8. Cardinality(Missing') <= Cardinality(Missing \cup ids)
    BY <1>3, <1>6, FS_Subset
<1>9. Cardinality(Missing) <= non_fatal_receive_errors * BlockCapacity
    BY DEF LossInv, NoSilentLoss
<1>10. non_fatal_receive_errors' * BlockCapacity
           = non_fatal_receive_errors * BlockCapacity + BlockCapacity
  <2>1. \A m, c \in Nat : (m + 1) * c = m * c + c
    OBVIOUS
  <2> QED
    BY <2>1, <1>4, RingAssumption
<1>11. non_fatal_receive_errors * BlockCapacity \in Nat
    BY <1>4, RingAssumption
<1>12. Cardinality(Missing)' = Cardinality(Missing')
    OBVIOUS
<1>13. Cardinality(Missing') <= non_fatal_receive_errors' * BlockCapacity
    BY <1>1, <1>2, <1>5, <1>6, <1>7, <1>8, <1>9, <1>10, <1>11, RingAssumption
<1> QED
    BY <1>13 DEF NoSilentLoss

-----------------------------------------------------------------------------
LEMMA StepCapacityInv == TypeOK /\ CapacityInv /\ [Next]_vars => CapacityInv'
<1> SUFFICES ASSUME TypeOK, CapacityInv, [Next]_vars, NEW b \in Block
             PROVE  Len(content'[b]) <= BlockCapacity
    BY DEF CapacityInv
<1>1. CASE content' = content
    BY <1>1 DEF CapacityInv
<1>2. CASE KernelOpen
  <2>1. content'[b] = <<>> \/ content'[b] = content[b]
    BY <1>2 DEF KernelOpen, TypeOK
  <2> QED
    BY <2>1, RingAssumption DEF CapacityInv
<1>3. CASE KernelStore
  <2>1. PICK packet : content' = [content EXCEPT ![kernel_block] = Append(@, packet)]
    BY <1>3 DEF KernelStore
  <2>2. content[kernel_block] \in Seq(Packet) /\ Len(content[kernel_block]) < BlockCapacity
    BY <1>3 DEF KernelStore, TypeOK
  <2>3. Len(Append(content[kernel_block], packet)) <= BlockCapacity
    BY <2>2, RingAssumption
  <2>4. content'[b] = Append(content[kernel_block], packet) \/ content'[b] = content[b]
    BY <2>1 DEF TypeOK
  <2> QED
    BY <2>3, <2>4 DEF CapacityInv
<1>4. CASE KernelDrop \/ KernelRetire \/ Reader \/ PollFails \/ Signal \/ UNCHANGED vars
    BY <1>1, <1>4
    DEF KernelDrop, KernelRetire, Reader, ReceiveNext, LoopStops, BlockExhausted,
        PacketDamaged, PacketDelivered, NeedBlock, WaitChecks, PollReturnsReady,
        PollTimesOut, ActivateEmpty, ActivateDamaged, ActivateBlock, PollFails, Signal,
        vars, kernelVars
<1> QED
    BY <1>2, <1>3, <1>4 DEF Next, Kernel

(* What is still to come behind a step that keeps the rest of the ring.     *)
LEMMA KnownIfPendingStays ==
    ASSUME dropped \subseteq dropped', UNCHANGED delivered,
           \A b \in Block : \A i \in Nat :
               Pending(b, i) => Pending(b, i)' /\ content'[b][i] = content[b][i]
    PROVE  \A x : Known(x) => Known(x)'
BY DEF Known

LEMMA QuietLosesNothing ==
    ASSUME LossInv, TypeOK', CapacityInv', non_fatal_receive_errors <= non_fatal_receive_errors',
           UNCHANGED <<block_status, kernelVars, current_block_index, walkVars, delivered>>
    PROVE  NoSilentLoss'
<1>1. \A b \in Block : \A i \in Nat :
          Pending(b, i) => Pending(b, i)' /\ content'[b][i] = content[b][i]
    BY DEF Pending, kernelVars, walkVars
<1>2. \A x : Known(x) => Known(x)'
    BY <1>1, KnownIfPendingStays DEF kernelVars
<1> QED
    BY <1>2, NothingIsLost DEF kernelVars

(* Giving back the current block loses at most what it held. *)
LEMMA ReleaseKeepsOthers ==
    ASSUME LossInv, ReleaseCurrentBlock, UNCHANGED <<kernelVars, delivered>>,
           NEW b \in Block, NEW i \in Nat, Pending(b, i), b # current_block_index
    PROVE  Pending(b, i)' /\ content'[b][i] = content[b][i]
<1>1. block_status'[b] = block_status[b]
    BY DEF ReleaseCurrentBlock, LossInv, SourceInv, RingInv, TypeOK
<1> QED
    BY <1>1 DEF ReleaseCurrentBlock, Pending, kernelVars

LEMMA ReleaseLosesNothing ==
    ASSUME LossInv, TypeOK', CapacityInv', ReleaseCurrentBlock, UNCHANGED <<kernelVars, delivered>>,
           UNCHANGED non_fatal_receive_errors, \A i \in Nat : ~Pending(current_block_index, i)
    PROVE  NoSilentLoss'
<1>1. \A b \in Block : \A i \in Nat :
          Pending(b, i) => Pending(b, i)' /\ content'[b][i] = content[b][i]
    BY ReleaseKeepsOthers
<1>2. \A x : Known(x) => Known(x)'
    BY <1>1, KnownIfPendingStays DEF kernelVars
<1>3. non_fatal_receive_errors <= non_fatal_receive_errors'
    BY DEF LossInv, SourceInv, RingInv, TypeOK
<1> QED
    BY <1>2, <1>3, NothingIsLost DEF kernelVars

LEMMA DiscardIsCounted ==
    ASSUME LossInv, TypeOK', CapacityInv', DiscardCurrentBlock, UNCHANGED <<kernelVars, delivered>>
    PROVE  NoSilentLoss'
<1>1. ASSUME NEW x, Known(x)
      PROVE  Known(x)' \/ \E i \in DOMAIN content[current_block_index] :
                              content[current_block_index][i].id = x
    BY <1>1, ReleaseKeepsOthers DEF Known, Pending, DiscardCurrentBlock, kernelVars
<1> QED
    BY <1>1, LossIsCounted DEF DiscardCurrentBlock, kernelVars

LEMMA StoreLosesNothing ==
    ASSUME LossInv, TypeOK', CapacityInv', KernelStore
    PROVE  NoSilentLoss'
<1> DEFINE last == Len(content[kernel_block]) + 1
<1>1. PICK d \in Defect :
          content' = [content EXCEPT
              ![kernel_block] = Append(@, [id |-> arrived + 1, defect |-> d])]
    BY DEF KernelStore
<1>2. /\ kernel_block \in Block /\ content[kernel_block] \in Seq(Packet) /\ arrived \in Nat
      /\ content \in [Block -> Seq(Packet)]
    BY DEF LossInv, SourceInv, RingInv, TypeOK
<1>3. /\ last \in DOMAIN content'[kernel_block] /\ last \in Nat
      /\ content'[kernel_block][last].id = arrived + 1
      /\ \A i \in DOMAIN content[kernel_block] :
            i \in DOMAIN content'[kernel_block] /\ content'[kernel_block][i] = content[kernel_block][i]
    BY <1>1, <1>2
<1>4. \A b \in Block \ {kernel_block} : content'[b] = content[b]
    BY <1>1, <1>2
<1>5. /\ arrived' = arrived + 1 /\ kernel_open
      /\ UNCHANGED <<block_status, kernel_block, kernel_open, current_block_index, delivered,
                     current_block_active, current_block_packet_index, dropped,
                     non_fatal_receive_errors>>
    BY DEF KernelStore, UserVars, walkVars
<1> HIDE DEF last
<1>6. \A b \in Block : \A i \in Nat :
          Pending(b, i) => Pending(b, i)' /\ content'[b][i] = content[b][i]
    BY <1>3, <1>4, <1>5 DEF Pending
<1>7. ~(kernel_block = current_block_index /\ current_block_active)
    BY <1>5 DEF LossInv, SourceInv, RingInv, KernelInv, ReaderInv
<1>8. \A b \in Block : \A i \in Nat : b = kernel_block /\ i = last => Pending(b, i)'
    BY <1>3, <1>5, <1>7 DEF Pending
<1>9. \A x : x = arrived + 1 => Known(x)'
    BY <1>2, <1>3, <1>8 DEF Known
<1>10. \A x : Known(x) => Known(x)'
    BY <1>5, <1>6, KnownIfPendingStays
<1>11. \A x \in 1 .. arrived' : x \in 1 .. arrived \/ Known(x)'
    BY <1>2, <1>5, <1>9
<1>12. non_fatal_receive_errors <= non_fatal_receive_errors'
    BY <1>5 DEF LossInv, SourceInv, RingInv, TypeOK
<1> QED
    BY <1>10, <1>11, <1>12, NothingIsLost

(* If the walk ends early behind a packet, the rest of its block is lost    *)
(* and counted.                                                             *)
LEMMA DeliverLosesNothing ==
    ASSUME LossInv, TypeOK', CapacityInv', PacketDelivered
    PROVE  NoSilentLoss'
<1> DEFINE cur == current_block_index
           at == current_block_packet_index + 1
<1>1. /\ delivered \in Seq(Nat) /\ CurrentPacket.id \in Nat
      /\ CurrentPacket.id = content[cur][at].id
      /\ current_block_packet_index \in Nat /\ non_fatal_receive_errors \in Nat
    BY CurrentPacketType DEF LossInv, SourceInv, RingInv, TypeOK, PacketDelivered, AtPacket,
                             Packet, CurrentPacket
<1>2. /\ UNCHANGED <<block_status, content, kernel_block, kernel_open, arrived, dropped,
                     current_block_index, current_block_active>>
      /\ delivered' = Append(delivered, CurrentPacket.id)
    BY DEF PacketDelivered, kernelVars
<1>3. /\ \A k \in DOMAIN delivered : k \in DOMAIN delivered' /\ delivered'[k] = delivered[k]
      /\ Len(delivered) + 1 \in DOMAIN delivered'
      /\ delivered'[Len(delivered) + 1] = CurrentPacket.id
    BY <1>1, <1>2
<1>4. ASSUME NEW x, Known(x), ~Known(x)'
      PROVE  NextUnusable /\ \E i \in DOMAIN content[cur] : content[cur][i].id = x
  <2>1. PICK b \in Block, i \in Nat : Pending(b, i) /\ content[b][i].id = x
    BY <1>2, <1>3, <1>4 DEF Known
  <2>2. ~Pending(b, i)'
    BY <1>2, <1>4, <2>1 DEF Known
  <2>3. b = cur /\ i \in DOMAIN content[cur]
    BY <1>2, <2>1, <2>2 DEF Pending
  <2>4. i # at
    BY <1>1, <1>3, <1>4, <2>1, <2>3 DEF Known
  <2>5. current_block_packet_index < i /\ ~(current_block_packet_index' < i)
    BY <1>2, <2>1, <2>2, <2>3 DEF Pending, PacketDelivered, AtPacket
  <2>6. current_block_packet_index' # at
    BY <1>1, <2>4, <2>5
  <2> QED
    BY <2>1, <2>3, <2>6 DEF PacketDelivered
<1>5. CASE NextUnusable
  <2>1. non_fatal_receive_errors' = non_fatal_receive_errors + 1
    BY <1>5 DEF PacketDelivered
  <2> QED
    BY <1>2, <1>4, <2>1, LossIsCounted
<1>6. CASE ~NextUnusable
  <2>1. non_fatal_receive_errors <= non_fatal_receive_errors'
    BY <1>1, <1>6 DEF PacketDelivered
  <2> QED
    BY <1>2, <1>4, <1>6, <2>1, NothingIsLost
<1> QED
    BY <1>5, <1>6

LEMMA StepNoSilentLoss == LossInv /\ TypeOK' /\ CapacityInv' /\ [Next]_vars => NoSilentLoss'
<1> SUFFICES ASSUME LossInv, TypeOK', CapacityInv', [Next]_vars PROVE NoSilentLoss'
    OBVIOUS
<1>0. non_fatal_receive_errors \in Nat /\ arrived \in Nat
    BY DEF LossInv, SourceInv, RingInv, TypeOK
<1>1. CASE UNCHANGED vars
    BY <1>0, <1>1, QuietLosesNothing DEF vars
<1>2. CASE KernelOpen
  <2>1. \A b \in Block : \A i \in Nat :
            Pending(b, i) => Pending(b, i)' /\ content'[b][i] = content[b][i]
    BY <1>2 DEF KernelOpen, Pending, UserVars, walkVars, LossInv, SourceInv, RingInv, TypeOK
  <2>2. \A x : Known(x) => Known(x)'
    BY <1>2, <2>1, KnownIfPendingStays DEF KernelOpen, UserVars
  <2> QED
    BY <1>0, <1>2, <2>2, NothingIsLost DEF KernelOpen, UserVars
<1>3. CASE KernelStore
    BY <1>3, StoreLosesNothing
<1>4. CASE KernelDrop
  <2>1. \A b \in Block : \A i \in Nat :
            Pending(b, i) => Pending(b, i)' /\ content'[b][i] = content[b][i]
    BY <1>4 DEF KernelDrop, Pending, UserVars, walkVars
  <2>2. \A x : Known(x) => Known(x)'
    BY <1>4, <2>1, KnownIfPendingStays DEF KernelDrop, UserVars
  <2>3. \A x \in 1 .. arrived' : x \in 1 .. arrived \/ Known(x)'
    BY <1>0, <1>4 DEF KernelDrop, Known
  <2> QED
    BY <1>0, <1>4, <2>2, <2>3, NothingIsLost DEF KernelDrop, UserVars
<1>5. CASE KernelRetire
  <2>1. \A b \in Block : \A i \in Nat :
            Pending(b, i) => Pending(b, i)' /\ content'[b][i] = content[b][i]
    BY <1>5 DEF KernelRetire, Pending, UserVars, walkVars, LossInv, SourceInv, RingInv, TypeOK
  <2>2. \A x : Known(x) => Known(x)'
    BY <1>5, <2>1, KnownIfPendingStays DEF KernelRetire, UserVars
  <2> QED
    BY <1>0, <1>5, <2>2, NothingIsLost DEF KernelRetire, UserVars
<1>6. CASE ReceiveNext
    BY <1>0, <1>6, QuietLosesNothing DEF ReceiveNext
<1>7. CASE LoopStops
    BY <1>0, <1>7, QuietLosesNothing DEF LoopStops
<1>8. CASE BlockExhausted
  <2>1. \A i \in Nat : ~Pending(current_block_index, i)
    BY <1>8 DEF BlockExhausted, AtPacket, Pending, LossInv, SourceInv, RingInv, ReaderInv, TypeOK
  <2> QED
    BY <1>8, <2>1, ReleaseLosesNothing DEF BlockExhausted
<1>9. CASE PacketDamaged
    BY <1>9, DiscardIsCounted DEF PacketDamaged
<1>10. CASE PacketDelivered
    BY <1>10, DeliverLosesNothing
<1>11. CASE NeedBlock
    BY <1>0, <1>11, QuietLosesNothing DEF NeedBlock
<1>12. CASE WaitChecks
    BY <1>0, <1>12, QuietLosesNothing DEF WaitChecks
<1>13. CASE PollReturnsReady
    BY <1>0, <1>13, QuietLosesNothing DEF PollReturnsReady
<1>14. CASE PollTimesOut
    BY <1>0, <1>14, QuietLosesNothing DEF PollTimesOut
<1>15. CASE PollFails
    BY <1>0, <1>15, QuietLosesNothing DEF PollFails
<1>16. CASE ActivateEmpty
  <2>1. \A i \in Nat : ~Pending(current_block_index, i)
    BY <1>16, ActivateEmptyReleases DEF Pending, LossInv, SourceInv, RingInv
  <2> QED
    BY <1>16, <2>1, ActivateEmptyReleases, ReleaseLosesNothing
    DEF ActivateEmpty, LossInv, SourceInv, RingInv
<1>17. CASE ActivateDamaged
    BY <1>17, DiscardIsCounted DEF ActivateDamaged
<1>18. CASE ActivateBlock
  <2>1. ASSUME NEW b \in Block, NEW i \in DOMAIN content[b]
        PROVE  0 < i
    <3>1. content[b] \in Seq(Packet)
        BY DEF LossInv, SourceInv, RingInv, TypeOK
    <3> QED
        BY <3>1
  <2>2. \A b \in Block : \A i \in Nat :
            Pending(b, i) => Pending(b, i)' /\ content'[b][i] = content[b][i]
    BY <1>18, <2>1 DEF ActivateBlock, Pending, kernelVars
  <2>3. \A x : Known(x) => Known(x)'
    BY <1>18, <2>2, KnownIfPendingStays DEF ActivateBlock, kernelVars
  <2> QED
    BY <1>0, <1>18, <2>3, NothingIsLost DEF ActivateBlock, kernelVars
<1>19. CASE Signal
    BY <1>0, <1>19, QuietLosesNothing DEF Signal
<1> QED
    BY <1>1, <1>2, <1>3, <1>4, <1>5, <1>6, <1>7, <1>8, <1>9, <1>10, <1>11, <1>12,
       <1>13, <1>14, <1>15, <1>16, <1>17, <1>18, <1>19 DEF Next, Kernel, Reader

LEMMA StepLossInv == LossInv /\ [Next]_vars => LossInv'
<1> SUFFICES ASSUME LossInv, [Next]_vars PROVE LossInv'
    OBVIOUS
<1>1. SourceInv' /\ TypeOK'
    BY StepSourceInv DEF LossInv, SourceInv, RingInv
<1>2. CapacityInv'
    BY StepCapacityInv DEF LossInv, SourceInv, RingInv
<1> QED
    BY <1>1, <1>2, StepNoSilentLoss DEF LossInv

LEMMA InitLossInv == Init => LossInv
<1> SUFFICES ASSUME Init PROVE LossInv
    OBVIOUS
<1>1. SourceInv /\ TypeOK
    BY InitSourceInv DEF SourceInv, RingInv
<1>2. CapacityInv
    BY RingAssumption DEF Init, CapacityInv
<1>3. Missing = {}
    BY DEF Init, Missing
<1>4. NoSilentLoss
    BY <1>3, FS_EmptySet, RingAssumption DEF Init, NoSilentLoss
<1> QED
    BY <1>1, <1>2, <1>4 DEF LossInv

(* No packet vanishes unnoticed, whatever is damaged: what neither came out *)
(* nor was dropped by the kernel lay in a block whose defect was counted.   *)
THEOREM NothingVanishes == Spec => []NoSilentLoss
<1>1. LossInv => NoSilentLoss
    BY DEF LossInv
<1> QED
    BY <1>1, InitLossInv, StepLossInv, PTL DEF Spec

-----------------------------------------------------------------------------
(* How many blocks are in front of block b. *)
BlocksAhead(b) ==
    IF current_block_index <= b THEN b - current_block_index
                                ELSE b + BlockCount - current_block_index

(* How many steps the reader may still take with the current block, if it   *)
(* has been handed over.                                                    *)
StepsInBlock ==
    IF current_block_active
    THEN 2 * (current_block_packet_count - current_block_packet_index)
             + (IF pc = "caller" THEN 2 ELSE 1)
    ELSE 2 * BlockCapacity +
             CASE pc = "activate" -> 2
               [] pc = "wait" -> 3
               [] pc = "poll" -> 4
               [] pc = "loop" -> 5
               [] OTHER -> 6

CloserTo(b) ==
    \/ BlocksAhead(b)' < BlocksAhead(b)
    \/ BlocksAhead(b)' = BlocksAhead(b) /\ StepsInBlock' < StepsInBlock

(* As long as block b is handed over and the capture goes on, every step of *)
(* the reader takes it closer to the end of b, and no other step takes it   *)
(* farther away.                                                            *)
ReleaseApproaches ==
    [][\A b \in Block :
          block_status[b] = "user" /\ block_status'[b] = "user" /\ pc' # "done" =>
              /\ BlocksAhead(b) \in Nat /\ StepsInBlock \in Nat
              /\ Reader => CloserTo(b)
              /\ ~Reader => UNCHANGED <<BlocksAhead(b), StepsInBlock>>]_vars

IndexInv ==
    current_block_active => current_block_packet_index <= current_block_packet_count

WalkInvs == RingInv /\ WalkInv /\ CapacityInv /\ IndexInv

LEMMA StepIndexInv == TypeOK /\ IndexInv /\ [Next]_vars => IndexInv'
<1> SUFFICES ASSUME TypeOK, IndexInv, [Next]_vars PROVE IndexInv'
    OBVIOUS
<1>1. CASE BlockExhausted \/ PacketDamaged \/ ActivateEmpty \/ ActivateDamaged
    BY <1>1, ReleaseType
    DEF BlockExhausted, PacketDamaged, ActivateEmpty, ActivateDamaged, DiscardCurrentBlock,
        IndexInv, walkVars
<1>2. CASE PacketDelivered
    BY <1>2 DEF PacketDelivered, IndexInv, TypeOK
<1>3. CASE ActivateBlock
  <2>1. content[current_block_index] \in Seq(Packet)
    BY DEF TypeOK
  <2>2. Len(content[current_block_index]) \in Nat
    BY <2>1
  <2> QED
    BY <1>3, <2>2 DEF ActivateBlock, IndexInv
<1>4. CASE \/ Kernel \/ ReceiveNext \/ LoopStops \/ NeedBlock \/ WaitChecks
           \/ PollReturnsReady \/ PollTimesOut \/ PollFails \/ Signal \/ UNCHANGED vars
    BY <1>4
    DEF Kernel, KernelOpen, KernelStore, KernelDrop, KernelRetire, UserVars, ReceiveNext,
        LoopStops, NeedBlock, WaitChecks, PollReturnsReady, PollTimesOut, PollFails, Signal,
        vars, walkVars, IndexInv
<1> QED
    BY <1>1, <1>2, <1>3, <1>4 DEF Next, Reader

LEMMA MeasuresAreNatural ==
    ASSUME TypeOK, IndexInv, NEW b \in Block
    PROVE  BlocksAhead(b) \in Nat /\ StepsInBlock \in Nat
<1>1. b \in Nat /\ current_block_index \in Nat /\ BlockCount \in Nat /\ BlockCapacity \in Nat
      /\ current_block_index < BlockCount
    BY RingAssumption DEF TypeOK, Block
<1>2. BlocksAhead(b) \in Nat
    BY <1>1 DEF BlocksAhead
<1>3. CASE current_block_active
  <2>1. \A c, i \in Nat : i <= c => 2 * (c - i) + 1 \in Nat /\ 2 * (c - i) + 2 \in Nat
    OBVIOUS
  <2>2. /\ current_block_packet_count \in Nat /\ current_block_packet_index \in Nat
        /\ current_block_packet_index <= current_block_packet_count
    BY <1>3 DEF TypeOK, IndexInv
  <2> QED
    BY <1>2, <1>3, <2>1, <2>2 DEF StepsInBlock
<1>4. CASE ~current_block_active
  <2>1. \A m \in Nat : \A k \in {2, 3, 4, 5, 6} : 2 * m + k \in Nat
    OBVIOUS
  <2>2. \E k \in {2, 3, 4, 5, 6} : StepsInBlock = 2 * BlockCapacity + k
    BY <1>4 DEF StepsInBlock
  <2> QED
    BY <1>1, <1>2, <2>1, <2>2
<1> QED
    BY <1>2, <1>3, <1>4

(* Giving a block back brings every other one closer. *)
LEMMA ReleaseBringsCloser ==
    ASSUME TypeOK, ReleaseCurrentBlock, NEW b \in Block,
           block_status'[b] = "user"
    PROVE  BlocksAhead(b)' < BlocksAhead(b)
<1>1. b # current_block_index
    BY DEF TypeOK, ReleaseCurrentBlock
<1>2. current_block_index \in Block /\ current_block_index' = NextBlock(current_block_index)
    BY DEF TypeOK, ReleaseCurrentBlock
<1> QED
    BY <1>1, <1>2, RingAssumption DEF BlocksAhead, NextBlock, Block

LEMMA ReaderComesCloser ==
    ASSUME WalkInvs, Reader, NEW b \in Block,
           block_status[b] = "user", block_status'[b] = "user", pc' # "done"
    PROVE  CloserTo(b)
<1> USE DEF WalkInvs
<1>0. /\ TypeOK /\ ReaderInv
      /\ current_block_index \in Block
      /\ current_block_packet_index \in Nat /\ current_block_packet_count \in Nat
      /\ BlockCapacity \in Nat
    BY RingAssumption DEF RingInv, TypeOK
<1>1. block_status[current_block_index] = "user"
    BY OldestHandedOver DEF ReaderAtOldest
<1>2. CASE BlockExhausted \/ PacketDamaged \/ ActivateEmpty \/ ActivateDamaged
  <2>1. ReleaseCurrentBlock
    BY <1>0, <1>2, ActivateEmptyReleases
    DEF BlockExhausted, PacketDamaged, ActivateEmpty, ActivateDamaged, DiscardCurrentBlock
  <2> QED
    BY <1>0, <2>1, ReleaseBringsCloser DEF CloserTo
<1>3. CASE ReceiveNext \/ NeedBlock \/ WaitChecks \/ PollReturnsReady
  <2>1. UNCHANGED <<current_block_index, walkVars>>
    BY <1>3 DEF ReceiveNext, NeedBlock, WaitChecks, PollReturnsReady
  <2>2. \/ pc = "caller" /\ pc' = "loop"
        \/ pc = "loop" /\ pc' = "wait" /\ ~current_block_active
        \/ pc = "wait" /\ pc' = "activate" /\ ~current_block_active
        \/ pc = "poll" /\ pc' = "wait" /\ ~current_block_active
    BY <1>1, <1>3
    DEF ReceiveNext, NeedBlock, WaitChecks, PollReturnsReady, WalkInv, BlockIsReady
  <2>3. BlocksAhead(b)' = BlocksAhead(b)
    BY <2>1 DEF BlocksAhead
  <2>4. StepsInBlock' < StepsInBlock
    BY <1>0, <2>1, <2>2 DEF StepsInBlock, walkVars
  <2> QED
    BY <2>3, <2>4 DEF CloserTo
<1>4. CASE PacketDelivered
  <2>1. /\ current_block_active /\ current_block_active' = current_block_active
        /\ pc = "loop" /\ pc' = "caller"
        /\ current_block_packet_count' = current_block_packet_count
        /\ current_block_packet_index < current_block_packet_count
        /\ \/ current_block_packet_index' = current_block_packet_count
           \/ current_block_packet_index' = current_block_packet_index + 1
        /\ current_block_index' = current_block_index
    BY <1>4 DEF PacketDelivered, AtPacket
  <2>2. BlocksAhead(b)' = BlocksAhead(b)
    BY <2>1 DEF BlocksAhead
  <2>3. StepsInBlock' < StepsInBlock
    BY <1>0, <2>1 DEF StepsInBlock
  <2> QED
    BY <2>2, <2>3 DEF CloserTo
<1>5. CASE ActivateBlock
  <2>1. /\ pc = "activate" /\ pc' = "loop" /\ ~current_block_active
        /\ current_block_active' = TRUE /\ current_block_packet_index' = 0
        /\ current_block_packet_count' = Len(content[current_block_index])
        /\ current_block_index' = current_block_index
    BY <1>5 DEF ActivateBlock, WalkInv
  <2>2. Len(content[current_block_index]) \in Nat
        /\ Len(content[current_block_index]) <= BlockCapacity
    <3>1. content[current_block_index] \in Seq(Packet)
      BY <1>0 DEF TypeOK
    <3> QED
      BY <1>0, <3>1 DEF CapacityInv
  <2>3. BlocksAhead(b)' = BlocksAhead(b)
    BY <2>1 DEF BlocksAhead
  <2>4. StepsInBlock' < StepsInBlock
    BY <1>0, <2>1, <2>2 DEF StepsInBlock
  <2> QED
    BY <2>3, <2>4 DEF CloserTo
<1>6. CASE LoopStops \/ PollTimesOut
  <2>1. pc' = "done" \/ ~PollReadable
    BY <1>6 DEF LoopStops, PollTimesOut
  <2> QED
    BY <2>1 DEF PollReadable
<1> QED
    BY <1>2, <1>3, <1>4, <1>5, <1>6 DEF Reader

(* What BlocksAreReleased rests on besides fairness: a block that has been  *)
(* handed over is given back after a bounded number of steps of             *)
(* ReceiveNext, whatever the kernel adds and whatever is damaged.           *)
THEOREM ReleaseIsApproached == Spec => ReleaseApproaches
<1>1. Init => WalkInvs
  <2> SUFFICES ASSUME Init PROVE WalkInvs
    OBVIOUS
  <2>1. RingInv /\ WalkInv
    BY InitSourceInv DEF SourceInv
  <2>2. CapacityInv /\ IndexInv
    BY InitLossInv DEF LossInv, Init, IndexInv
  <2> QED
    BY <2>1, <2>2 DEF WalkInvs
<1>2. WalkInvs /\ [Next]_vars => WalkInvs'
    BY StepRingInv, StepWalkInv, StepCapacityInv, StepIndexInv DEF WalkInvs, RingInv
<1>3. WalkInvs /\ [Next]_vars =>
        [\A b \in Block :
            block_status[b] = "user" /\ block_status'[b] = "user" /\ pc' # "done" =>
                /\ BlocksAhead(b) \in Nat /\ StepsInBlock \in Nat
                /\ Reader => CloserTo(b)
                /\ ~Reader => UNCHANGED <<BlocksAhead(b), StepsInBlock>>]_vars
  <2> SUFFICES ASSUME WalkInvs, Next, NEW b \in Block,
                      block_status[b] = "user", block_status'[b] = "user", pc' # "done"
               PROVE  /\ BlocksAhead(b) \in Nat /\ StepsInBlock \in Nat
                      /\ Reader => CloserTo(b)
                      /\ ~Reader => UNCHANGED <<BlocksAhead(b), StepsInBlock>>
    BY DEF vars
  <2>1. BlocksAhead(b) \in Nat /\ StepsInBlock \in Nat
    BY MeasuresAreNatural DEF WalkInvs, RingInv
  <2>2. Reader => CloserTo(b)
    BY ReaderComesCloser
  <2>3. ASSUME ~Reader PROVE UNCHANGED <<BlocksAhead(b), StepsInBlock>>
    <3>1. UNCHANGED <<pc, current_block_index, walkVars>>
      BY <2>3
      DEF Next, Kernel, KernelOpen, KernelStore, KernelDrop, KernelRetire, UserVars,
          PollFails, Signal
    <3> QED
      BY <3>1 DEF BlocksAhead, StepsInBlock, walkVars
  <2> QED
    BY <2>1, <2>2, <2>3
<1> QED
    BY <1>1, <1>2, <1>3, PTL DEF Spec, ReleaseApproaches

=============================================================================
