--------------------------- MODULE LiveCaptureProofs ---------------------------
(***************************************************************************)
(* Proofs about LiveCapture, for every limit, every size of the buffers    *)
(* and every number of packets.                                            *)
(*                                                                         *)
(* CaptureInv is what the loop knows at each of its points: how far the    *)
(* count is behind the packets received, that the limit still leaves room  *)
(* for the packet in hand, that a loop which goes on has no reason to stop *)
(* yet, and that the stream and the file together hold what was counted.   *)
(***************************************************************************)
EXTENDS LiveCapture, TLAPS, SequenceTheorems

CountInv ==
    /\ pc \in {"loop", "recv", "finish"} => packets_total = Len(delivered)
    /\ pc = "write" => Len(delivered) = packets_total + 1
    /\ exit_code = 0 => packets_total = Len(delivered)
    /\ Len(delivered) - packets_total \in {0, 1}
    /\ pc \in {"loop", "recv", "write", "finish"} => exit_code = -1

RoomInv ==
    /\ MaxPackets # 0 => packets_total <= MaxPackets
    /\ MaxPackets # 0 /\ pc \in {"recv", "write"} => packets_total < MaxPackets
    /\ stop_reason = "max_packets_limit_reached" =>
           MaxPackets # 0 /\ packets_total = MaxPackets

ReasonInv ==
    /\ pc \in {"loop", "recv", "write"} => stop_reason = "signal"
    /\ stop_reason # "signal" =>
        \/ stop_reason = "signal_received" /\ stop_requested
        \/ stop_reason = "duration_sec_limit_reached" /\ expired
        \/ stop_reason = "max_packets_limit_reached" /\ MaxPacketsReached
    /\ pc = "finish" /\ stop_reason = "signal" => stop_requested
    /\ exit_code = 0 => stop_reason # "signal"

StopInv ==
    /\ taken_after_stop \in {0, 1}
    /\ pc = "recv" => taken_after_stop = 0
    /\ taken_after_stop = 1 => stop_requested

Kept == arrived = Len(delivered) + Len(queue) + dropped

CaptureInv == TypeOK /\ CountInv /\ RoomInv /\ ReasonInv /\ StopInv /\ Kept

-----------------------------------------------------------------------------
(* Sequences. *)

LEMMA NatSequences ==
    ASSUME NEW n \in Nat, NEW s \in Seq(0 .. n)
    PROVE  s \in Seq(Nat)
<1>1. 0 .. n \subseteq Nat
    OBVIOUS
<1> QED
    BY <1>1, SeqMonotonic

(* Sequences over the packets so far are sequences over one more. *)
LEMMA WiderRange ==
    ASSUME NEW n \in Nat
    PROVE  /\ Seq(1 .. n) \subseteq Seq(1 .. (n + 1))
           /\ Seq(0 .. n) \subseteq Seq(0 .. (n + 1))
           /\ Seq(1 .. n) \subseteq Seq(0 .. n)
<1>1. /\ 1 .. n \subseteq 1 .. (n + 1)
      /\ 0 .. n \subseteq 0 .. (n + 1)
      /\ 1 .. n \subseteq 0 .. n
    OBVIOUS
<1> QED
    BY <1>1, SeqMonotonic

(* One step of the queue. *)
LEMMA TakeFirst ==
    ASSUME NEW S, NEW q \in Seq(S), NEW d \in Seq(S), q # <<>>
    PROVE  /\ Tail(q) \in Seq(S)
           /\ Len(Tail(q)) = Len(q) - 1
           /\ Append(d, Head(q)) \in Seq(S)
           /\ Len(Append(d, Head(q))) = Len(d) + 1
           /\ Append(d, Head(q)) # <<>>
BY HeadTailProperties, AppendProperties

LEMMA Associative ==
    ASSUME NEW s \in Seq(Nat), NEW t \in Seq(Nat), NEW u \in Seq(Nat)
    PROVE  (s \o t) \o u = s \o (t \o u)
BY ConcatAssociative

LEMMA PartOf ==
    ASSUME NEW S, NEW s \in Seq(S), NEW n \in 0 .. Len(s)
    PROVE  /\ SubSeq(s, 1, n) \in Seq(S)
           /\ Len(SubSeq(s, 1, n)) = n
           /\ \A i \in 1 .. n : SubSeq(s, 1, n)[i] = s[i]
<1>1. \A i \in 1 .. n : s[i] \in S
    BY ElementOfSeq, LenProperties
<1>2. n \in Int /\ 1 \in Int
    BY LenProperties
<1>3. /\ SubSeq(s, 1, n) \in Seq(S)
      /\ Len(SubSeq(s, 1, n)) = IF 1 <= n THEN n - 1 + 1 ELSE 0
      /\ \A i \in 1 .. n - 1 + 1 : SubSeq(s, 1, n)[i] = s[1 + i - 1]
    BY <1>1, <1>2, SubSeqProperties
<1> QED
    BY <1>3, LenProperties

LEMMA PrefixElements ==
    ASSUME NEW s \in Seq(Nat), NEW t \in Seq(Nat)
    PROVE  IsPrefixOf(s, t) <=>
               Len(s) <= Len(t) /\ \A i \in 1 .. Len(s) : s[i] = t[i]
<1>1. CASE Len(s) <= Len(t)
    <2>1. Len(s) \in 0 .. Len(t)
        BY <1>1, LenProperties
    <2>2. /\ SubSeq(t, 1, Len(s)) \in Seq(Nat)
          /\ Len(SubSeq(t, 1, Len(s))) = Len(s)
          /\ \A i \in 1 .. Len(s) : SubSeq(t, 1, Len(s))[i] = t[i]
        BY <2>1, PartOf
    <2>3. ASSUME \A i \in 1 .. Len(s) : s[i] = t[i]
          PROVE  s = SubSeq(t, 1, Len(s))
        BY <2>2, <2>3, SeqEqual
    <2> QED
        BY <1>1, <2>2, <2>3 DEF IsPrefixOf
<1>2. CASE ~(Len(s) <= Len(t))
    BY <1>2 DEF IsPrefixOf
<1> QED
    BY <1>1, <1>2

LEMMA PrefixTransitive ==
    ASSUME NEW s \in Seq(Nat), NEW t \in Seq(Nat), NEW u \in Seq(Nat),
           IsPrefixOf(s, t), IsPrefixOf(t, u)
    PROVE  IsPrefixOf(s, u)
<1>1. Len(s) \in Nat /\ Len(t) \in Nat /\ Len(u) \in Nat
    BY LenProperties
<1>2. /\ Len(s) <= Len(t) /\ \A i \in 1 .. Len(s) : s[i] = t[i]
      /\ Len(t) <= Len(u) /\ \A i \in 1 .. Len(t) : t[i] = u[i]
    BY PrefixElements
<1>3. Len(s) <= Len(u) /\ \A i \in 1 .. Len(s) : s[i] = u[i]
    BY <1>1, <1>2
<1> QED
    BY <1>3, PrefixElements

LEMMA PrefixReflexive ==
    ASSUME NEW s \in Seq(Nat)
    PROVE  IsPrefixOf(s, s)
BY PrefixElements, LenProperties

(* Writing only part of the buffer leaves a prefix. *)
LEMMA PartIsPrefix ==
    ASSUME NEW d \in Seq(Nat), NEW b \in Seq(Nat), NEW n \in 0 .. Len(b)
    PROVE  /\ d \o SubSeq(b, 1, n) \in Seq(Nat)
           /\ d \o b \in Seq(Nat)
           /\ IsPrefixOf(d \o SubSeq(b, 1, n), d \o b)
<1> DEFINE p == SubSeq(b, 1, n)
<1>1. p \in Seq(Nat) /\ Len(p) = n /\ \A i \in 1 .. n : p[i] = b[i]
    BY PartOf
<1> HIDE DEF p
<1>2. /\ d \o p \in Seq(Nat)
      /\ Len(d \o p) = Len(d) + n
      /\ \A i \in 1 .. Len(d) + n :
             (d \o p)[i] = IF i <= Len(d) THEN d[i] ELSE p[i - Len(d)]
    BY <1>1, ConcatProperties
<1>3. /\ d \o b \in Seq(Nat)
      /\ Len(d \o b) = Len(d) + Len(b)
      /\ \A i \in 1 .. Len(d) + Len(b) :
             (d \o b)[i] = IF i <= Len(d) THEN d[i] ELSE b[i - Len(d)]
    BY ConcatProperties
<1>4. Len(d) \in Nat /\ Len(b) \in Nat /\ n \in Nat /\ n <= Len(b)
    BY LenProperties
<1>5. \A i \in 1 .. Len(d) + n : (d \o p)[i] = (d \o b)[i]
    <2> TAKE i \in 1 .. Len(d) + n
    <2>1. CASE i <= Len(d)
        BY <2>1, <1>2, <1>3, <1>4
    <2>2. CASE ~(i <= Len(d))
        <3>1. i - Len(d) \in 1 .. n /\ i \in 1 .. Len(d) + Len(b)
            BY <2>2, <1>4
        <3> QED
            BY <3>1, <2>2, <1>1, <1>2, <1>3
    <2> QED
        BY <2>1, <2>2
<1>6. /\ Len(d \o p) <= Len(d \o b)
      /\ \A i \in 1 .. Len(d \o p) : (d \o p)[i] = (d \o b)[i]
    BY <1>2, <1>3, <1>4, <1>5
<1>7. IsPrefixOf(d \o p, d \o b)
    <2> DEFINE x == d \o p
               y == d \o b
    <2>1. x \in Seq(Nat) /\ y \in Seq(Nat)
        BY <1>2, <1>3
    <2>2. Len(x) <= Len(y) /\ \A i \in 1 .. Len(x) : x[i] = y[i]
        BY <1>6
    <2> HIDE DEF x, y
    <2>3. IsPrefixOf(x, y)
        BY <2>1, <2>2, PrefixElements
    <2> QED
        BY <2>3 DEF x, y
<1> QED
    BY <1>2, <1>3, <1>7 DEF p

-----------------------------------------------------------------------------
(* The types of the sequences. *)

Sequences ==
    /\ queue \in Seq(1 .. arrived)
    /\ buffered \in Seq(0 .. arrived)
    /\ disk \in Seq(0 .. arrived)
    /\ delivered \in Seq(1 .. arrived)

Scalars ==
    /\ arrived \in Nat
    /\ dropped \in Nat
    /\ stop_requested \in BOOLEAN
    /\ expired \in BOOLEAN
    /\ disk_full \in BOOLEAN
    /\ pc \in {"loop", "recv", "write", "finish", "close", "exit"}
    /\ packets_total \in 0 .. Len(delivered)
    /\ non_fatal_receive_errors \in Nat
    /\ stop_reason \in {"signal", "signal_received", "interrupted", "stopped",
                        "max_packets_limit_reached", "duration_sec_limit_reached"}
    /\ exit_code \in {-1, 0, 1}
    /\ taken_after_stop \in Nat

LEMMA TypeParts == TypeOK <=> Sequences /\ Scalars
BY DEF TypeOK, Sequences, Scalars

LEMMA Lengths ==
    ASSUME Sequences
    PROVE  Len(delivered) \in Nat /\ Len(queue) \in Nat
BY LenProperties DEF Sequences

(* The packet in hand can be put into the stream. *)
LEMMA PacketType ==
    ASSUME Sequences, arrived \in Nat, Len(delivered) > 0
    PROVE  /\ Packet \in 0 .. arrived
           /\ Append(buffered, Packet) \in Seq(0 .. arrived)
<1>1. Len(delivered) \in 1 .. Len(delivered)
    BY Lengths
<1>2. Packet \in 1 .. arrived
    BY <1>1, ElementOfSeq DEF Sequences, Packet
<1>3. Packet \in 0 .. arrived
    BY <1>2
<1> QED
    BY <1>3, AppendProperties DEF Sequences

LEMMA WriteSomeType ==
    ASSUME Sequences, WriteSome(buffered)
    PROVE  disk' \in Seq(0 .. arrived)
<1>1. PICK n \in 0 .. Len(buffered) : disk' = disk \o SubSeq(buffered, 1, n)
    BY DEF WriteSome
<1>2. SubSeq(buffered, 1, n) \in Seq(0 .. arrived)
    BY PartOf DEF Sequences
<1> QED
    BY <1>1, <1>2, ConcatProperties DEF Sequences

(* What a step does to the sequences, as far as types and lengths go. *)
LEMMA SequencesStep ==
    ASSUME Sequences, arrived \in Nat, [Next]_vars,
           pc = "write" => Len(delivered) > 0
    PROVE  /\ Sequences'
           /\ Arrive /\ queue' # queue => Len(queue') = Len(queue) + 1
           /\ ReceivePacket =>
                  Len(queue') = Len(queue) - 1 /\ Len(delivered') = Len(delivered) + 1
<1> USE DEF envVars, fileVars, historyVars, mainVars
<1>1. Arrive => Sequences' /\ (queue' # queue => Len(queue') = Len(queue) + 1)
    <2> SUFFICES ASSUME Arrive
                 PROVE  Sequences' /\ (queue' # queue => Len(queue') = Len(queue) + 1)
        OBVIOUS
    <2>1. arrived' = arrived + 1
        BY DEF Arrive
    <2>2. /\ queue \in Seq(1 .. arrived') /\ delivered \in Seq(1 .. arrived')
          /\ buffered \in Seq(0 .. arrived') /\ disk \in Seq(0 .. arrived')
        BY <2>1, WiderRange DEF Sequences
    <2>3. arrived + 1 \in 1 .. arrived'
        BY <2>1
    <2>4. /\ Append(queue, arrived + 1) \in Seq(1 .. arrived')
          /\ Len(Append(queue, arrived + 1)) = Len(queue) + 1
        BY <2>2, <2>3, AppendProperties
    <2>5. /\ delivered' = delivered /\ buffered' = buffered /\ disk' = disk
          /\ queue' = queue \/ queue' = Append(queue, arrived + 1)
        BY DEF Arrive
    <2> QED
        BY <2>2, <2>4, <2>5 DEF Sequences
<1>2. ReceivePacket => /\ Sequences'
                       /\ Len(queue') = Len(queue) - 1
                       /\ Len(delivered') = Len(delivered) + 1
    BY TakeFirst DEF ReceivePacket, Sequences
<1>3. WriteBuffered => Sequences'
    BY PacketType DEF WriteBuffered, Sequences
<1>4. WriteFlushed => Sequences'
    BY PacketType, EmptySeq, ConcatProperties DEF WriteFlushed, Sequences
<1>5. WriteThrows => Sequences'
    BY WriteSomeType, EmptySeq DEF WriteThrows, Sequences
<1>6. CloseOutput => Sequences'
    <2> SUFFICES ASSUME CloseOutput PROVE Sequences'
        OBVIOUS
    <2>1. disk \o buffered \in Seq(0 .. arrived)
        BY ConcatProperties DEF Sequences
    <2>2. disk' \in Seq(0 .. arrived)
        BY <2>1, WriteSomeType DEF CloseOutput
    <2> QED
        BY <2>2, EmptySeq DEF CloseOutput, Sequences
<1>7. ASSUME UNCHANGED <<arrived, queue, buffered, disk, delivered>> PROVE Sequences'
    BY <1>7 DEF Sequences
<1>8. \/ Arrive \/ ReceivePacket \/ WriteBuffered \/ WriteFlushed \/ WriteThrows
      \/ CloseOutput \/ UNCHANGED <<arrived, queue, buffered, disk, delivered>>
    BY DEF Next, Environment, Main, DurationPasses, DiskFills, Signal, ReceiveNoBuffers,
           ReceiveFails, LoopStops, CallReceiveNext, ReceiveTimesOut, PrintFinalStats, vars
<1> QED
    BY <1>1, <1>2, <1>3, <1>4, <1>5, <1>6, <1>7, <1>8

-----------------------------------------------------------------------------
(* The loop: counts, limit, reason and stop. *)

LEMMA InitInv == Init => CaptureInv
<1> SUFFICES ASSUME Init PROVE CaptureInv
    OBVIOUS
<1>1. /\ \A S : <<>> \in Seq(S)
      /\ Len(<<>>) = 0
    BY EmptySeq
<1>2. <<0>> \in Seq(0 .. arrived)
    BY DEF Init
<1>3. Sequences
    BY <1>1, <1>2 DEF Init, Sequences
<1>4. Scalars
    <2>1. Len(delivered) = 0
        BY <1>1 DEF Init
    <2>2. packets_total \in 0 .. Len(delivered)
        BY <2>1 DEF Init
    <2> QED
        BY <2>2 DEF Init, Scalars
<1>5. CountInv /\ RoomInv /\ ReasonInv /\ StopInv /\ Kept
    BY <1>1, CaptureAssumption DEF Init, CountInv, RoomInv, ReasonInv, StopInv, Kept
<1> QED
    BY <1>3, <1>4, <1>5, TypeParts DEF CaptureInv

LEMMA StepInv == CaptureInv /\ [Next]_vars => CaptureInv'
<1> SUFFICES ASSUME Sequences, Scalars, CountInv, RoomInv, ReasonInv, StopInv, Kept, [Next]_vars
             PROVE  /\ Sequences' /\ Scalars' /\ CountInv' /\ RoomInv' /\ ReasonInv'
                    /\ StopInv' /\ Kept'
    BY TypeParts, PTL DEF CaptureInv
<1>0. /\ Len(delivered) \in Nat
      /\ Len(queue) \in Nat
      /\ MaxPackets \in Nat
    BY Lengths, CaptureAssumption
<1>1. /\ Sequences'
      /\ Arrive /\ queue' # queue => Len(queue') = Len(queue) + 1
      /\ ReceivePacket =>
             Len(queue') = Len(queue) - 1 /\ Len(delivered') = Len(delivered) + 1
    <2>1. arrived \in Nat
        BY DEF Scalars
    <2>2. pc = "write" => Len(delivered) > 0
        BY <1>0 DEF Scalars, CountInv
    <2> QED
        BY <2>1, <2>2, SequencesStep
<1> USE DEF Scalars, CountInv, RoomInv, ReasonInv, StopInv, Kept, MaxPacketsReached,
            envVars, fileVars, historyVars, mainVars
<1>2. CASE Arrive
    BY <1>0, <1>1, <1>2 DEF Arrive
<1>3. CASE DurationPasses
    BY <1>0, <1>1, <1>3 DEF DurationPasses
<1>4. CASE DiskFills
    BY <1>0, <1>1, <1>4 DEF DiskFills
<1>5. CASE Signal
    BY <1>0, <1>1, <1>5 DEF Signal, Interrupted, Finish
<1>6. CASE ReceiveNoBuffers
    BY <1>0, <1>1, <1>6 DEF ReceiveNoBuffers, Interrupted, Finish
<1>7. CASE ReceiveFails
    BY <1>0, <1>1, <1>7 DEF ReceiveFails
<1>8. CASE LoopStops
    BY <1>0, <1>1, <1>8 DEF LoopStops, StopSeen, Finish
<1>9. CASE CallReceiveNext
    BY <1>0, <1>1, <1>9 DEF CallReceiveNext, StopSeen
<1>10. CASE ReceivePacket
    BY <1>0, <1>1, <1>10 DEF ReceivePacket
<1>11. CASE ReceiveTimesOut
    BY <1>0, <1>1, <1>11 DEF ReceiveTimesOut, Interrupted, Finish
<1>12. CASE WriteBuffered
    BY <1>0, <1>1, <1>12 DEF WriteBuffered, Count, Finish
<1>13. CASE WriteFlushed
    BY <1>0, <1>1, <1>13 DEF WriteFlushed, Count, Finish
<1>14. CASE WriteThrows
    BY <1>0, <1>1, <1>14 DEF WriteThrows
<1>15. CASE PrintFinalStats
    BY <1>0, <1>1, <1>15 DEF PrintFinalStats, FinalReason
<1>16. CASE CloseOutput
    BY <1>0, <1>1, <1>16 DEF CloseOutput
<1>17. CASE UNCHANGED vars
    BY <1>0, <1>1, <1>17 DEF vars
<1> QED
    BY <1>1, <1>2, <1>3, <1>4, <1>5, <1>6, <1>7, <1>8, <1>9, <1>10, <1>11, <1>12, <1>13,
       <1>14, <1>15, <1>16, <1>17 DEF Next, Environment, Main

THEOREM CaptureInvariant == Spec => []CaptureInv
<1> QED
    BY InitInv, StepInv, PTL DEF Spec

(* For every configuration the state keeps its types. *)
THEOREM CaptureTypes == Spec => []TypeOK
<1>1. CaptureInv => TypeOK
    BY DEF CaptureInv
<1> QED
    BY <1>1, CaptureInvariant, PTL

(* Nothing taken off the socket is missing in the count, but for a packet   *)
(* whose write has failed, and every packet is received, waiting or counted *)
(* as dropped by the kernel.                                                *)
THEOREM AllAccountedFor == Spec => []PacketsAccountedFor
<1>1. CaptureInv => PacketsAccountedFor
    BY DEF CaptureInv, CountInv, Kept, PacketsAccountedFor
<1> QED
    BY <1>1, CaptureInvariant, PTL

(* capture.max_packets is kept to the packet, for every value of it. *)
THEOREM LimitExact == Spec => []LimitIsExact
<1>1. CaptureInv => LimitIsExact
    BY DEF CaptureInv, RoomInv, LimitIsExact
<1> QED
    BY <1>1, CaptureInvariant, PTL

(* The reason printed at the end is the true one. *)
THEOREM TrueReason == Spec => []ReasonIsTrue
<1>1. CaptureInv => ReasonIsTrue
    BY DEF CaptureInv, ReasonInv, ReasonIsTrue
<1> QED
    BY <1>1, CaptureInvariant, PTL

(* A signal is followed by at most one more packet. *)
THEOREM PromptStop == Spec => []StopIsPrompt
<1>1. CaptureInv => StopIsPrompt
    BY DEF CaptureInv, StopInv, StopIsPrompt
<1> QED
    BY <1>1, CaptureInvariant, PTL

-----------------------------------------------------------------------------
(* The file. *)

LEMMA WrittenType ==
    ASSUME CaptureInv
    PROVE  /\ delivered \in Seq(Nat) /\ buffered \in Seq(Nat) /\ disk \in Seq(Nat)
           /\ disk \o buffered \in Seq(Nat)
           /\ packets_total \in 0 .. Len(delivered)
           /\ SubSeq(delivered, 1, packets_total) \in Seq(Nat)
           /\ Written \in Seq(Nat)
<1>1. Sequences /\ Scalars
    BY TypeParts DEF CaptureInv
<1>2. delivered \in Seq(0 .. arrived)
    BY <1>1, WiderRange DEF Sequences, Scalars
<1>3. delivered \in Seq(Nat) /\ buffered \in Seq(Nat) /\ disk \in Seq(Nat)
    BY <1>1, <1>2, NatSequences DEF Sequences, Scalars
<1>4. packets_total \in 0 .. Len(delivered)
    BY <1>1 DEF Scalars
<1>5. SubSeq(delivered, 1, packets_total) \in Seq(Nat)
    BY <1>3, <1>4, PartOf
<1>6. <<0>> \in Seq(Nat)
    OBVIOUS
<1>7. Written \in Seq(Nat) /\ disk \o buffered \in Seq(Nat)
    BY <1>3, <1>5, <1>6, ConcatProperties DEF Written
<1> QED
    BY <1>3, <1>4, <1>5, <1>7

(* Counting the packet in hand adds it to what has been written. *)
LEMMA CountAppends ==
    ASSUME CaptureInv, pc = "write",
           delivered' = delivered, packets_total' = packets_total + 1
    PROVE  Packet \in Nat /\ Written' = Written \o <<Packet>>
<1>1. /\ delivered \in Seq(Nat)
      /\ SubSeq(delivered, 1, packets_total) \in Seq(Nat)
    BY WrittenType
<1>2. Len(delivered) \in Nat /\ packets_total \in Nat /\ Len(delivered) = packets_total + 1
    BY <1>1, WrittenType, LenProperties DEF CaptureInv, CountInv
<1>3. /\ 1 \in 1 .. Len(delivered)
      /\ Len(delivered) \in 1 .. Len(delivered)
    BY <1>2
<1>4. SubSeq(delivered, 1, Len(delivered)) =
          SubSeq(delivered, 1, Len(delivered) - 1) \o <<delivered[Len(delivered)]>>
    BY <1>1, <1>3, SubSeqRecursiveSecond
<1>5. SubSeq(delivered, 1, packets_total + 1) =
          SubSeq(delivered, 1, packets_total) \o <<Packet>>
    <2>1. Len(delivered) - 1 = packets_total
        BY <1>2
    <2> QED
        BY <1>2, <1>4, <2>1 DEF Packet
<1>6. Packet \in Nat
    BY <1>1, <1>3, ElementOfSeq DEF Packet
<1>7. <<0>> \in Seq(Nat) /\ <<Packet>> \in Seq(Nat)
    BY <1>6
<1>8. (<<0>> \o SubSeq(delivered, 1, packets_total)) \o <<Packet>> =
          <<0>> \o (SubSeq(delivered, 1, packets_total) \o <<Packet>>)
    <2> DEFINE z == <<0>>
               w == SubSeq(delivered, 1, packets_total)
               x == <<Packet>>
    <2>1. z \in Seq(Nat) /\ w \in Seq(Nat) /\ x \in Seq(Nat)
        BY <1>1, <1>7
    <2> HIDE DEF z, w, x
    <2>2. (z \o w) \o x = z \o (w \o x)
        BY <2>1, Associative
    <2> QED
        BY <2>2 DEF z, w, x
<1> QED
    BY <1>5, <1>6, <1>8 DEF Written

(* Receiving a packet changes nothing in what has been written. *)
LEMMA ReceiveKeepsWritten ==
    ASSUME CaptureInv, NEW x \in Nat,
           delivered' = Append(delivered, x), packets_total' = packets_total
    PROVE  Written' = Written
<1>1. delivered \in Seq(Nat) /\ packets_total \in 0 .. Len(delivered)
    BY WrittenType
<1>2. delivered' = delivered \o <<x>> /\ <<x>> \in Seq(Nat)
    BY <1>1, AppendIsConcat
<1>3. Len(delivered) \in Nat
    BY <1>1, LenProperties
<1>4. SubSeq(delivered', 1, packets_total) = SubSeq(delivered, 1, packets_total)
    <2>1. CASE packets_total = 0
        BY <2>1, SubSeqEmpty
    <2>2. CASE packets_total # 0
        <3>1. 1 \in 1 .. Len(delivered) /\ packets_total \in 1 .. Len(delivered)
            BY <1>1, <1>3, <2>2
        <3> QED
            BY <1>1, <1>2, <3>1, SubSeqOfConcat1
    <2> QED
        BY <2>1, <2>2
<1> QED
    BY <1>4 DEF Written

LEMMA FileStep == CaptureInv /\ FileHasNoGap /\ [Next]_vars => FileHasNoGap'
<1> SUFFICES ASSUME CaptureInv, FileHasNoGap, [Next]_vars PROVE FileHasNoGap'
    OBVIOUS
<1> USE DEF envVars, fileVars, historyVars, mainVars
<1>1. /\ delivered \in Seq(Nat) /\ buffered \in Seq(Nat) /\ disk \in Seq(Nat)
      /\ disk \o buffered \in Seq(Nat)
      /\ Written \in Seq(Nat)
    BY WrittenType
<1>2. ASSUME disk' \o buffered' = Written' , Written' \in Seq(Nat)
      PROVE  FileHasNoGap'
    BY <1>2, PrefixReflexive DEF FileHasNoGap
<1>3. CASE UNCHANGED <<disk, buffered, delivered, packets_total>>
               /\ (pc' \in {"close", "exit"} \/ pc \notin {"close", "exit"})
    BY <1>3 DEF FileHasNoGap, Written
<1>4. CASE ReceivePacket
    <2>1. Sequences /\ Scalars
        BY TypeParts DEF CaptureInv
    <2>2. Head(queue) \in 1 .. arrived
        BY <1>4, <2>1, HeadTailProperties DEF ReceivePacket, Sequences
    <2>3. Head(queue) \in Nat
        BY <2>1, <2>2 DEF Scalars
    <2>4. Written' = Written
        BY <1>4, <2>3, ReceiveKeepsWritten DEF ReceivePacket
    <2> QED
        BY <1>1, <1>2, <1>4, <2>4 DEF ReceivePacket, FileHasNoGap
<1>5. ASSUME pc = "write" PROVE disk \o buffered = Written
    BY <1>5 DEF FileHasNoGap
<1>6. ASSUME pc = "write", Count, delivered' = delivered
      PROVE  /\ Packet \in Nat /\ <<Packet>> \in Seq(Nat)
             /\ Written' = (disk \o buffered) \o <<Packet>>
             /\ Written' \in Seq(Nat)
             /\ Written' = disk \o Append(buffered, Packet)
    <2>1. Packet \in Nat /\ Written' = (disk \o buffered) \o <<Packet>>
        BY <1>5, <1>6, CountAppends DEF Count
    <2>2. <<Packet>> \in Seq(Nat)
        BY <2>1
    <2>3. (disk \o buffered) \o <<Packet>> = disk \o (buffered \o <<Packet>>)
        <3> DEFINE x == <<Packet>>
        <3>1. x \in Seq(Nat)
            BY <2>2
        <3> HIDE DEF x
        <3>2. (disk \o buffered) \o x = disk \o (buffered \o x)
            BY <1>1, <3>1, Associative
        <3> QED
            BY <3>2 DEF x
    <2>4. Append(buffered, Packet) = buffered \o <<Packet>>
        BY <1>1, <2>1, AppendIsConcat
    <2>5. (disk \o buffered) \o <<Packet>> \in Seq(Nat)
        BY <1>1, <2>2, ConcatProperties
    <2> QED
        BY <2>1, <2>2, <2>3, <2>4, <2>5
<1>7. CASE WriteBuffered
    <2>1. disk' \o buffered' = Written' /\ Written' \in Seq(Nat)
        BY <1>6, <1>7 DEF WriteBuffered
    <2> QED
        BY <1>2, <2>1
<1>8. CASE WriteFlushed
    <2>1. disk' = Written' /\ Written' \in Seq(Nat) /\ buffered' = <<>>
        BY <1>6, <1>8 DEF WriteFlushed
    <2>2. disk' \o buffered' = disk'
        BY <2>1, ConcatEmptySeq
    <2> QED
        BY <1>2, <2>1, <2>2
<1>9. ASSUME WriteSome(buffered), buffered' = <<>>,
             delivered' = delivered, packets_total' = packets_total,
             pc' \in {"close", "exit"}
      PROVE  FileHasNoGap'
    <2>1. PICK n \in 0 .. Len(buffered) : disk' = disk \o SubSeq(buffered, 1, n)
        BY <1>9 DEF WriteSome
    <2>2. /\ disk' \in Seq(Nat)
          /\ IsPrefixOf(disk', disk \o buffered)
        BY <1>1, <2>1, PartIsPrefix
    <2>3. IsPrefixOf(disk \o buffered, Written)
        BY DEF FileHasNoGap
    <2>4. IsPrefixOf(disk', Written)
        BY <1>1, <2>2, <2>3, PrefixTransitive
    <2>5. disk' \o buffered' = disk' /\ Written' = Written
        BY <1>9, <2>2, ConcatEmptySeq DEF Written
    <2> QED
        BY <1>9, <2>4, <2>5 DEF FileHasNoGap, IsPrefixOf
<1>10. CASE WriteThrows
    BY <1>9, <1>10 DEF WriteThrows
<1>11. CASE CloseOutput
    <2>1. CASE disk_full
        BY <1>9, <1>11, <2>1 DEF CloseOutput
    <2>2. CASE ~disk_full
        <3>1. disk' = disk \o buffered /\ buffered' = <<>> /\ Written' = Written /\ pc' = "exit"
            BY <1>11, <2>2 DEF CloseOutput, Written
        <3>2. disk' \o buffered' = disk \o buffered
            BY <1>1, <3>1, ConcatEmptySeq
        <3> QED
            BY <3>1, <3>2 DEF FileHasNoGap, IsPrefixOf
    <2> QED
        BY <2>1, <2>2
<1>12. \/ ReceivePacket \/ WriteBuffered \/ WriteFlushed \/ WriteThrows \/ CloseOutput
       \/ /\ UNCHANGED <<disk, buffered, delivered, packets_total>>
          /\ pc' \in {"close", "exit"} \/ pc \notin {"close", "exit"}
    BY DEF Next, Environment, Main, Arrive, DurationPasses, DiskFills, Signal, Interrupted,
           ReceiveNoBuffers, ReceiveFails, LoopStops, CallReceiveNext, ReceiveTimesOut,
           PrintFinalStats, Finish, vars
<1> QED
    BY <1>3, <1>4, <1>7, <1>8, <1>10, <1>11, <1>12

(* The file holds the packets counted, in order and without a gap, and if   *)
(* the disk fills up it only ends early.                                    *)
THEOREM NoGapInFile == Spec => []FileHasNoGap
<1>1. Init => FileHasNoGap
    <2> SUFFICES ASSUME Init PROVE FileHasNoGap
        OBVIOUS
    <2>1. CaptureInv
        BY InitInv
    <2>2. SubSeq(delivered, 1, packets_total) = <<>>
        BY SubSeqEmpty DEF Init
    <2>3. <<0>> \in Seq(Nat)
        OBVIOUS
    <2>4. Written = <<0>> /\ disk \o buffered = <<0>>
        BY <2>2, <2>3, ConcatEmptySeq DEF Written, Init
    <2> QED
        BY <2>3, <2>4, PrefixReflexive DEF FileHasNoGap
<1>2. CaptureInv /\ FileHasNoGap /\ [Next]_vars => FileHasNoGap'
    BY FileStep
<1> QED
    BY <1>1, <1>2, CaptureInvariant, PTL DEF Spec

-----------------------------------------------------------------------------
(* The socket buffer keeps the order of arrival, and what waits in it is    *)
(* younger than all that has been taken off it.                             *)
QueueInv ==
    /\ \A i, j \in DOMAIN queue : i < j => queue[i] < queue[j]
    /\ \A i \in DOMAIN queue : \A k \in DOMAIN delivered : delivered[k] < queue[i]

LEMMA HeadIsFirst ==
    ASSUME NEW S, NEW q \in Seq(S), q # <<>>
    PROVE  1 \in DOMAIN q /\ Head(q) = q[1] /\ q[1] \in S
<1>1. Len(q) \in Nat /\ Len(q) # 0 /\ DOMAIN q = 1 .. Len(q)
    BY EmptySeq, LenProperties
<1>2. 1 \in DOMAIN q /\ Head(q) = q[1]
    BY <1>1
<1> QED
    BY <1>2, ElementOfSeq, <1>1

LEMMA FirstInQueue ==
    ASSUME TypeOK, QueueInv, queue # <<>>
    PROVE  /\ Head(queue) \in 1 .. arrived
           /\ \A k \in DOMAIN delivered : delivered[k] < Head(queue)
<1>1. queue \in Seq(1 .. arrived)
    BY DEF TypeOK
<1>2. 1 \in DOMAIN queue /\ Head(queue) = queue[1] /\ queue[1] \in 1 .. arrived
    BY <1>1, HeadIsFirst
<1> QED
    BY <1>2 DEF QueueInv

LEMMA ArriveKeepsQueue ==
    ASSUME TypeOK, QueueInv, Arrive
    PROVE  QueueInv'
<1>1. CASE queue' = queue
    BY <1>1 DEF Arrive, mainVars, historyVars, QueueInv
<1>2. CASE queue' = Append(queue, arrived + 1)
    <2>1. queue \in Seq(1 .. arrived) /\ delivered \in Seq(1 .. arrived) /\ arrived \in Nat
        BY DEF TypeOK
    <2>2. /\ DOMAIN queue' = DOMAIN queue \cup {Len(queue) + 1}
          /\ queue'[Len(queue) + 1] = arrived + 1
          /\ \A i \in DOMAIN queue : queue'[i] = queue[i] /\ i \in 1 .. Len(queue)
          /\ Len(queue) \in Nat
        BY <1>2, <2>1
    <2>3. \A i \in DOMAIN queue : queue[i] \in 1 .. arrived
        BY <2>1
    <2>4. \A k \in DOMAIN delivered : delivered[k] \in 1 .. arrived
        BY <2>1
    <2>5. delivered' = delivered
        BY DEF Arrive, mainVars, historyVars
    <2> QED
        BY <2>1, <2>2, <2>3, <2>4, <2>5 DEF QueueInv
<1> QED
    BY <1>1, <1>2 DEF Arrive

LEMMA ReceiveKeepsQueue ==
    ASSUME TypeOK, QueueInv, ReceivePacket
    PROVE  QueueInv'
<1>1. /\ queue \in Seq(1 .. arrived) /\ delivered \in Seq(1 .. arrived) /\ arrived \in Nat
      /\ queue # <<>>
      /\ queue' = Tail(queue)
      /\ delivered' = Append(delivered, Head(queue))
    BY DEF TypeOK, ReceivePacket
<1>2. /\ 1 \in DOMAIN queue
      /\ \A i \in DOMAIN queue' : i \in Nat /\ i + 1 \in DOMAIN queue /\ 1 < i + 1
                                  /\ queue'[i] = queue[i + 1]
    BY <1>1
<1>3. \A k \in DOMAIN delivered' :
          \/ k \in DOMAIN delivered /\ delivered'[k] = delivered[k]
          \/ delivered'[k] = queue[1]
    BY <1>1
<1> QED
    BY <1>2, <1>3 DEF QueueInv

LEMMA StepQueueInv == TypeOK /\ QueueInv /\ [Next]_vars => QueueInv'
<1> SUFFICES ASSUME TypeOK, QueueInv, [Next]_vars PROVE QueueInv'
    OBVIOUS
<1>1. CASE UNCHANGED <<queue, delivered>>
    BY <1>1 DEF QueueInv
<1>2. Arrive \/ ReceivePacket \/ UNCHANGED <<queue, delivered>>
    BY DEF Next, Environment, Main, DurationPasses, DiskFills, Signal, ReceiveNoBuffers,
           ReceiveFails, LoopStops, CallReceiveNext, ReceiveTimesOut, WriteBuffered,
           WriteFlushed, WriteThrows, PrintFinalStats, CloseOutput, vars, envVars,
           mainVars, historyVars
<1> QED
    BY <1>1, <1>2, ArriveKeepsQueue, ReceiveKeepsQueue

(* Packets come off the socket in the order of their arrival, each once,    *)
(* and none after the loop has ended.                                       *)
THEOREM SocketIsPacketSource == Spec => ImplementsSource
<1>1. Init => QueueInv
    BY DEF Init, QueueInv
<1>2. Init => Source!Init
    BY DEF Init, Source!Init
<1>3. TypeOK /\ QueueInv /\ [Next]_vars => [Source!Next]_(Source!vars)
    <2> SUFFICES ASSUME TypeOK, QueueInv, [Next]_vars
                 PROVE  Source!Next \/ UNCHANGED Source!vars
        OBVIOUS
    <2> USE DEF Source!vars
    <2>1. CASE UNCHANGED vars
        BY <2>1 DEF vars, envVars, historyVars
    <2>2. CASE Arrive
        BY <2>2 DEF Arrive, mainVars, historyVars, Source!Next, Source!Arrive
    <2>3. CASE DurationPasses \/ DiskFills
        BY <2>3 DEF DurationPasses, DiskFills, mainVars, historyVars
    <2>4. CASE Signal
        BY <2>4 DEF Signal, Interrupted, Finish, envVars, historyVars,
                    Source!Next, Source!RequestStop
    <2>5. CASE ReceivePacket
        <3>1. /\ Head(queue) \in 1 .. arrived
              /\ \A k \in DOMAIN delivered : delivered[k] < Head(queue)
            BY <2>5, FirstInQueue DEF ReceivePacket
        <3>2. Source!Deliver(Head(queue))
            BY <2>5, <3>1 DEF ReceivePacket, Source!Deliver
        <3> QED
            BY <3>1, <3>2 DEF Source!Next
    <2>6. CASE LoopStops \/ CallReceiveNext \/ ReceiveTimesOut \/ ReceiveNoBuffers \/ ReceiveFails
        BY <2>6 DEF LoopStops, CallReceiveNext, ReceiveTimesOut, ReceiveNoBuffers, ReceiveFails,
                    Interrupted, Finish, envVars, historyVars, Source!Next, Source!End
    <2>7. CASE WriteBuffered \/ WriteFlushed \/ WriteThrows
        BY <2>7 DEF WriteBuffered, WriteFlushed, WriteThrows, Count, Finish, envVars,
                    historyVars, Source!Next, Source!End
    <2>8. CASE PrintFinalStats \/ CloseOutput
        BY <2>8 DEF PrintFinalStats, CloseOutput, envVars, historyVars
    <2> QED
        BY <2>1, <2>2, <2>3, <2>4, <2>5, <2>6, <2>7, <2>8 DEF Next, Environment, Main
<1> QED
    BY <1>1, <1>2, <1>3, StepQueueInv, CaptureTypes, PTL DEF Spec, ImplementsSource, Source!Spec

-----------------------------------------------------------------------------
(* How many steps of the program are left at most, once it has to end.      *)
StepsToExit ==
    CASE pc = "recv" -> 5
      [] pc = "write" -> 4
      [] pc = "loop" -> 3
      [] pc = "finish" -> 2
      [] pc = "close" -> 1
      [] OTHER -> 0

EndApproaches ==
    [][stop_requested \/ expired =>
          /\ Main => StepsToExit' < StepsToExit
          /\ StepsToExit' <= StepsToExit]_vars

(* What CaptureEnds rests on besides fairness: once a signal has arrived or *)
(* duration_sec is over, the loop of RunLiveCapture takes at most five more *)
(* steps to the exit, and neither traffic nor a full disk nor a failure of  *)
(* recvfrom ever takes it further away.                                     *)
THEOREM EndIsApproached == Spec => EndApproaches
<1>1. TypeOK /\ [Next]_vars =>
          [stop_requested \/ expired =>
              /\ Main => StepsToExit' < StepsToExit
              /\ StepsToExit' <= StepsToExit]_vars
  <2> SUFFICES ASSUME TypeOK, Next, stop_requested \/ expired
               PROVE  /\ Main => StepsToExit' < StepsToExit
                      /\ StepsToExit' <= StepsToExit
    OBVIOUS
  <2>1. pc \in {"loop", "recv", "write", "finish", "close", "exit"}
    BY DEF TypeOK
  <2>2. StepsToExit \in 0 .. 5
    BY DEF StepsToExit
  <2>3. ASSUME Main PROVE StepsToExit' < StepsToExit
    <3>1. CASE LoopStops
      <4>1. pc = "loop" /\ pc' = "finish"
        BY <3>1 DEF LoopStops, Finish
      <4> QED
        BY <4>1 DEF StepsToExit
    <3>2. CASE CallReceiveNext
      BY <3>2 DEF CallReceiveNext, StopSeen
    <3>3. CASE ReceivePacket
      <4>1. pc = "recv" /\ pc' = "write"
        BY <3>3 DEF ReceivePacket
      <4> QED
        BY <4>1 DEF StepsToExit
    <3>4. CASE ReceiveTimesOut
      <4>1. pc = "recv" /\ (pc' = "finish" \/ pc' = "loop")
        BY <3>4 DEF ReceiveTimesOut, Interrupted, Finish
      <4> QED
        BY <4>1 DEF StepsToExit
    <3>5. CASE WriteBuffered \/ WriteFlushed
      <4>1. pc = "write" /\ (pc' = "finish" \/ pc' = "loop")
        BY <3>5 DEF WriteBuffered, WriteFlushed, Count, Finish
      <4> QED
        BY <4>1 DEF StepsToExit
    <3>6. CASE WriteThrows
      <4>1. pc = "write" /\ pc' = "close"
        BY <3>6 DEF WriteThrows
      <4> QED
        BY <4>1 DEF StepsToExit
    <3>7. CASE PrintFinalStats
      <4>1. pc = "finish" /\ pc' = "close"
        BY <3>7 DEF PrintFinalStats
      <4> QED
        BY <4>1 DEF StepsToExit
    <3>8. CASE CloseOutput
      <4>1. pc = "close" /\ pc' = "exit"
        BY <3>8 DEF CloseOutput
      <4> QED
        BY <4>1 DEF StepsToExit
    <3> QED
      BY <2>3, <3>1, <3>2, <3>3, <3>4, <3>5, <3>6, <3>7, <3>8 DEF Main
  <2>4. ASSUME Main PROVE StepsToExit' <= StepsToExit
    <3>1. StepsToExit' \in 0 .. 5
      BY DEF StepsToExit
    <3> QED
      BY <2>2, <2>3, <2>4, <3>1
  <2>5. ASSUME Environment PROVE StepsToExit' <= StepsToExit
    <3>1. pc' = pc \/ (pc = "recv" /\ pc' = "finish")
      BY <2>5 DEF Environment, Arrive, DurationPasses, DiskFills, Signal, Interrupted,
                  Finish, mainVars
    <3> QED
      BY <2>1, <3>1 DEF StepsToExit
  <2>6. ASSUME ReceiveNoBuffers \/ ReceiveFails PROVE StepsToExit' <= StepsToExit
    <3>1. pc = "recv" /\ pc' \in {"recv", "finish", "close"}
      BY <2>6 DEF ReceiveNoBuffers, ReceiveFails, Interrupted, Finish
    <3> QED
      BY <3>1 DEF StepsToExit
  <2> QED
    BY <2>3, <2>4, <2>5, <2>6 DEF Next
<1> QED
  BY <1>1, CaptureTypes, PTL DEF Spec, EndApproaches

-----------------------------------------------------------------------------
(* How much SuccessMeansSaved can be wrong by. *)

(* Packets that the buffer of the output stream holds; the global header    *)
(* is put there when it is empty.                                           *)
StreamHolds == IF BufferCapacity = 0 THEN 1 ELSE BufferCapacity

BufferInv == buffered \in Seq(Nat) /\ Len(buffered) <= StreamHolds

SavedInv ==
    /\ pc = "close" /\ exit_code = 0 => disk \o buffered = Written
    /\ pc = "exit" /\ exit_code = 0 =>
          /\ disk = Written \/ disk_full
          /\ Len(Written) <= Len(disk) + StreamHolds

SuccessLosesABuffer ==
    pc = "exit" /\ exit_code = 0 =>
        /\ ~disk_full => disk = Written
        /\ Len(Written) <= Len(disk) + StreamHolds
        /\ IsPrefixOf(disk, Written)

LEMMA BufferStep == CaptureInv /\ BufferInv /\ [Next]_vars => BufferInv'
<1> SUFFICES ASSUME CaptureInv, BufferInv, [Next]_vars PROVE BufferInv'
    OBVIOUS
<1>1. BufferCapacity \in Nat /\ StreamHolds \in Nat /\ BufferCapacity <= StreamHolds
    BY CaptureAssumption DEF StreamHolds
<1>2. buffered \in Seq(Nat) /\ Len(buffered) \in Nat /\ Len(buffered) <= StreamHolds
    BY LenProperties DEF BufferInv
<1>3. CASE buffered' = <<>>
    <2>1. buffered' \in Seq(Nat) /\ Len(buffered') = 0
        BY <1>3
    <2> QED
        BY <1>1, <2>1 DEF BufferInv
<1>4. CASE buffered' = buffered
    BY <1>1, <1>2, <1>4 DEF BufferInv
<1>5. CASE WriteBuffered
    <2>1. pc = "write" /\ Len(buffered) < BufferCapacity
          /\ buffered' = Append(buffered, Packet)
        BY <1>5 DEF WriteBuffered
    <2>2. Packet \in Nat
        <3>1. delivered \in Seq(Nat) /\ packets_total \in 0 .. Len(delivered)
            BY WrittenType
        <3>2. Len(delivered) \in 1 .. Len(delivered)
            BY <2>1, <3>1, LenProperties DEF CaptureInv, CountInv
        <3> QED
            BY <3>1, <3>2, ElementOfSeq DEF Packet
    <2>3. buffered' \in Seq(Nat) /\ Len(buffered') = Len(buffered) + 1
        BY <1>2, <2>1, <2>2, AppendProperties
    <2> QED
        BY <1>1, <1>2, <2>1, <2>3 DEF BufferInv
<1>6. WriteBuffered \/ buffered' = <<>> \/ buffered' = buffered
    BY DEF Next, Environment, Main, Arrive, DurationPasses, DiskFills, Signal,
           ReceiveNoBuffers, ReceiveFails, LoopStops, CallReceiveNext, ReceivePacket,
           ReceiveTimesOut, WriteFlushed, WriteThrows, PrintFinalStats, CloseOutput,
           vars, mainVars, fileVars
<1> QED
    BY <1>3, <1>4, <1>5, <1>6

LEMMA SavedStep ==
    CaptureInv /\ FileHasNoGap /\ BufferInv /\ SavedInv /\ [Next]_vars => SavedInv'
<1> SUFFICES ASSUME CaptureInv, FileHasNoGap, BufferInv, SavedInv, [Next]_vars PROVE SavedInv'
    OBVIOUS
<1> USE DEF envVars, fileVars, historyVars, mainVars
<1>0. /\ pc \in {"loop", "recv", "write", "finish"} => exit_code = -1
      /\ pc \in {"loop", "recv", "write", "finish", "close", "exit"}
    BY DEF CaptureInv, CountInv, TypeOK
<1>1. /\ buffered \in Seq(Nat) /\ disk \in Seq(Nat) /\ disk \o buffered \in Seq(Nat)
      /\ Len(buffered) \in Nat /\ Len(disk) \in Nat
      /\ Len(disk \o buffered) = Len(disk) + Len(buffered)
      /\ Len(buffered) <= StreamHolds /\ StreamHolds \in Nat
    BY WrittenType, LenProperties, ConcatProperties, CaptureAssumption
       DEF BufferInv, StreamHolds
<1>2. CASE PrintFinalStats
    <2>1. pc = "finish" /\ pc' = "close" /\ UNCHANGED <<disk, buffered, delivered, packets_total>>
        BY <1>2 DEF PrintFinalStats
    <2>2. disk \o buffered = Written
        BY <2>1 DEF FileHasNoGap
    <2> QED
        BY <2>1, <2>2 DEF SavedInv, Written
<1>3. CASE CloseOutput
    <2>1. /\ pc = "close" /\ pc' = "exit" /\ exit_code' = exit_code
          /\ disk_full' = disk_full /\ Written' = Written
        BY <1>3 DEF CloseOutput, Written
    <2> SUFFICES ASSUME exit_code = 0
                 PROVE  /\ disk' = Written \/ disk_full
                        /\ Len(Written) <= Len(disk') + StreamHolds
        BY <2>1 DEF SavedInv
    <2>2. disk \o buffered = Written
        BY <2>1 DEF SavedInv
    <2>3. CASE disk_full
        <3>1. PICK n \in 0 .. Len(buffered) : disk' = disk \o SubSeq(buffered, 1, n)
            BY <1>3, <2>3 DEF CloseOutput, WriteSome
        <3>2. SubSeq(buffered, 1, n) \in Seq(Nat) /\ Len(SubSeq(buffered, 1, n)) = n
            BY <1>1, PartOf
        <3>3. Len(disk') = Len(disk) + n
            BY <1>1, <3>1, <3>2, ConcatProperties
        <3> QED
            BY <1>1, <2>2, <2>3, <3>3
    <2>4. CASE ~disk_full
        <3>1. disk' = Written
            BY <1>3, <2>2, <2>4 DEF CloseOutput
        <3>2. Len(Written) \in Nat
            BY <1>1, <2>2
        <3> QED
            BY <1>1, <3>1, <3>2
    <2> QED
        BY <2>3, <2>4
<1>4. CASE pc' = pc /\ exit_code' = exit_code /\ (disk_full => disk_full')
              /\ UNCHANGED <<disk, buffered, delivered, packets_total>>
    BY <1>4 DEF SavedInv, Written
<1>5. CASE pc' \in {"loop", "recv", "write", "finish"}
    BY <1>5 DEF SavedInv
<1>6. CASE exit_code' = 1
    BY <1>6 DEF SavedInv
<1>7. \/ PrintFinalStats \/ CloseOutput
      \/ /\ pc' = pc /\ exit_code' = exit_code /\ (disk_full => disk_full')
         /\ UNCHANGED <<disk, buffered, delivered, packets_total>>
      \/ pc' \in {"loop", "recv", "write", "finish"}
      \/ exit_code' = 1
    <2>1. CASE Environment
        BY <2>1 DEF Environment, Arrive, DurationPasses, DiskFills, Signal, Interrupted, Finish
    <2>2. CASE ReceiveNoBuffers
        BY <2>2 DEF ReceiveNoBuffers, Interrupted, Finish
    <2>3. CASE ReceiveFails \/ WriteThrows
        BY <2>3 DEF ReceiveFails, WriteThrows
    <2>4. CASE LoopStops \/ CallReceiveNext \/ ReceivePacket \/ ReceiveTimesOut
               \/ WriteBuffered \/ WriteFlushed
        BY <2>4 DEF LoopStops, CallReceiveNext, ReceivePacket, ReceiveTimesOut, Interrupted,
                    Finish, WriteBuffered, WriteFlushed, Count
    <2>5. CASE UNCHANGED vars
        BY <2>5 DEF vars
    <2> QED
        BY <2>1, <2>2, <2>3, <2>4, <2>5 DEF Next, Main
<1> QED
    BY <1>2, <1>3, <1>4, <1>5, <1>6, <1>7

(* What README.md says of packets_written is true of every capture that     *)
(* succeeds on a disk with room to the end; and where the finding about     *)
(* SuccessMeansSaved bites, what is missing are the last packets, and no    *)
(* more of them than the stream's buffer holds.                             *)
THEOREM SuccessLosesAtMostABuffer == Spec => []SuccessLosesABuffer
<1>1. Init => BufferInv /\ SavedInv
    <2> SUFFICES ASSUME Init PROVE BufferInv /\ SavedInv
        OBVIOUS
    <2>1. buffered \in Seq(Nat) /\ Len(buffered) = 1
        BY DEF Init
    <2>2. 1 <= StreamHolds
        BY CaptureAssumption DEF StreamHolds
    <2> QED
        BY <2>1, <2>2 DEF Init, BufferInv, SavedInv
<1>2. CaptureInv /\ BufferInv /\ [Next]_vars => BufferInv'
    BY BufferStep
<1>3. CaptureInv /\ FileHasNoGap /\ BufferInv /\ SavedInv /\ [Next]_vars => SavedInv'
    BY SavedStep
<1>4. CaptureInv /\ FileHasNoGap /\ SavedInv => SuccessLosesABuffer
    <2> SUFFICES ASSUME CaptureInv, FileHasNoGap, SavedInv, pc = "exit", exit_code = 0
                 PROVE  /\ ~disk_full => disk = Written
                        /\ Len(Written) <= Len(disk) + StreamHolds
                        /\ IsPrefixOf(disk, Written)
        BY DEF SuccessLosesABuffer
    <2>1. disk \in Seq(Nat) /\ buffered \in Seq(Nat) /\ Written \in Seq(Nat)
          /\ disk \o buffered \in Seq(Nat)
        BY WrittenType
    <2>2. IsPrefixOf(disk, disk \o buffered)
        <3>1. 0 \in 0 .. Len(buffered)
            BY <2>1, LenProperties
        <3>2. IsPrefixOf(disk \o SubSeq(buffered, 1, 0), disk \o buffered)
            BY <2>1, <3>1, PartIsPrefix
        <3>3. SubSeq(buffered, 1, 0) = <<>>
            BY SubSeqEmpty
        <3> QED
            BY <2>1, <3>2, <3>3, ConcatEmptySeq
    <2>3. IsPrefixOf(disk, Written)
        BY <2>1, <2>2, PrefixTransitive DEF FileHasNoGap
    <2> QED
        BY <2>3 DEF SavedInv
<1> QED
    BY <1>1, <1>2, <1>3, <1>4, CaptureInvariant, NoGapInFile, PTL DEF Spec

=============================================================================
