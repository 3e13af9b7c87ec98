------------------------ MODULE OfflinePacketFeedProofs ------------------------
(***************************************************************************)
(* Proofs about PacketDecode, LiveCapturePolicy and OfflinePacketFeed, for *)
(* every frame, every packet, all limits and all input files.              *)
(*                                                                         *)
(* The decoder's checks are proved to be enough for any frame, the policy  *)
(* to ask for no more than there is for any result of the constrictors,    *)
(* and both are carried through the feed by an invariant that ties the     *)
(* decision and the records written to the reader's position.              *)
(***************************************************************************)
EXTENDS OfflinePacketFeed, FiniteSetTheorems, TLAPS

-----------------------------------------------------------------------------
(* PacketDecode. *)

LEMMA TransportInside ==
    ASSUME NEW frame \in Frame, NEW offset \in Nat, NEW end \in Nat,
           NetworkOffset(frame) + 20 <= offset,
           end = NetworkEnd(frame), end <= frame.size
    PROVE  PayloadInside(frame, DecodeTransport(frame, offset, end))
<1>0. frame.size \in Nat /\ frame.data_offset \in Nat /\ frame.udp_length \in Nat
      /\ NetworkOffset(frame) \in Nat
    BY DEF Frame, NetworkOffset
<1>1. PayloadInside(frame, DecodeTcp(frame, offset, end))
    BY <1>0 DEF DecodeTcp, Transport, Failed, Undecoded, InPacket, PayloadInside
<1>2. PayloadInside(frame, DecodeUdp(frame, offset, end))
    BY <1>0 DEF DecodeUdp, Transport, Failed, Undecoded, InPacket, PayloadInside
<1>3. PayloadInside(frame, OnlyIp)
    BY DEF OnlyIp, Undecoded, PayloadInside
<1> QED
    BY <1>1, <1>2, <1>3 DEF DecodeTransport

(* A payload that is reported is in the IP packet and has been captured, so *)
(* that the bounds tests of the two constrictors never fail.                *)
THEOREM DecodedPayloadInside ==
    ASSUME NEW frame \in Frame
    PROVE  PayloadInside(frame, DecodePacket(frame))
<1> DEFINE n == NetworkOffset(frame)
<1>0. frame.size \in Nat /\ frame.ihl \in Nat /\ frame.length \in Nat /\ n \in Nat
    BY DEF Frame, NetworkOffset
<1>1. \A reason : PayloadInside(frame, Failed(reason))
    BY DEF Failed, Undecoded, PayloadInside
<1>2. PayloadInside(frame, OnlyIp) /\ PayloadInside(frame, Undecoded)
    BY DEF OnlyIp, Undecoded, PayloadInside
<1>3. ASSUME frame.ethertype = "ipv4"
      PROVE  PayloadInside(frame, DecodeIpv4(frame, n))
    <2>1. ASSUME HasBytes(frame, n, frame.length), ~(frame.ihl < 20)
          PROVE  PayloadInside(frame, DecodeTransport(frame, n + frame.ihl, n + frame.length))
        <3>1. n + frame.ihl \in Nat /\ n + frame.length \in Nat
            BY <1>0
        <3>2. n + 20 <= n + frame.ihl
            BY <1>0, <2>1
        <3>3. n + frame.length = NetworkEnd(frame) /\ n + frame.length <= frame.size
            BY <1>0, <1>3, <2>1 DEF NetworkEnd, HasBytes
        <3> QED
            BY <3>1, <3>2, <3>3, TransportInside
    <2> QED
        BY <1>1, <1>2, <2>1 DEF DecodeIpv4
<1>4. ASSUME frame.ethertype = "ipv6"
      PROVE  PayloadInside(frame, DecodeIpv6(frame, n))
    <2>1. ASSUME HasBytes(frame, n, 40 + frame.length)
          PROVE  PayloadInside(frame, DecodeTransport(frame, n + 40, n + 40 + frame.length))
        <3>1. n + 40 \in Nat /\ n + 40 + frame.length \in Nat /\ n + 20 <= n + 40
            BY <1>0
        <3>2. /\ n + 40 + frame.length = NetworkEnd(frame)
              /\ n + 40 + frame.length <= frame.size
            BY <1>0, <1>4, <2>1 DEF NetworkEnd, HasBytes
        <3> QED
            BY <3>1, <3>2, TransportInside
    <2> QED
        BY <1>1, <1>2, <2>1 DEF DecodeIpv6
<1> QED
    BY <1>1, <1>2, <1>3, <1>4 DEF DecodePacket

-----------------------------------------------------------------------------
(* LiveCapturePolicy. *)

LEMMA PacketNumbers ==
    ASSUME NEW packet \in CapturedPacket
    PROVE  /\ packet.frame \in Frame
           /\ packet.captured_len \in Nat
           /\ packet.original_len \in Nat
           /\ packet.frame.size \in Nat
           /\ safe_captured_len(packet) \in Nat
           /\ safe_captured_len(packet) <= packet.captured_len
           /\ BaselineOutputLen(packet) \in Nat
           /\ BaselineOutputLen(packet) <= safe_captured_len(packet)
BY PolicyAssumption
   DEF CapturedPacket, Frame, safe_captured_len, BaselineOutputLen, EffectiveInputLen, Least

LEMMA SafeFrameIsFrame ==
    ASSUME NEW packet \in CapturedPacket
    PROVE  SafeFrame(packet) \in Frame
BY PacketNumbers DEF SafeFrame, Frame

(* Every result of a constrictor has a length. *)
LEMMA ResultLength ==
    ASSUME NEW packet \in CapturedPacket,
           NEW result \in Results(packet, DecodePacket(SafeFrame(packet)))
    PROVE  result.output_len \in Nat
<1> DEFINE decoded == DecodePacket(SafeFrame(packet))
<1>1. PayloadInside(SafeFrame(packet), decoded)
    BY DecodedPayloadInside, SafeFrameIsFrame
<1>2. result \in Results(packet, decoded)
    OBVIOUS
<1> HIDE DEF decoded
<1>3. CASE AsksTls(packet, decoded)
    <2>1. decoded.payload_offset \in Nat /\ decoded.payload_length \in Nat
        BY <1>1, <1>3 DEF PayloadInside, AsksTls
    <2>2. result \in TlsResults(decoded)
        BY <1>2, <1>3 DEF Results
    <2> QED
        BY <2>1, <2>2 DEF TlsResults, Uncut
<1>4. CASE ~AsksTls(packet, decoded) /\ AsksQuic(packet, decoded)
    <2>1. decoded.payload_offset \in Nat /\ decoded.payload_length \in Nat
        BY <1>1, <1>4 DEF PayloadInside, AsksQuic
    <2>2. result \in QuicResults(decoded)
        BY <1>2, <1>4 DEF Results
    <2> QED
        BY <2>1, <2>2 DEF QuicResults, Uncut
<1>5. CASE ~AsksTls(packet, decoded) /\ ~AsksQuic(packet, decoded)
    BY <1>2, <1>5 DEF Results, Uncut
<1> QED
    BY <1>3, <1>4, <1>5

(* A cut saves enough or is not made; in no case more is asked for than     *)
(* there is.                                                                *)
LEMMA OutputFits ==
    ASSUME NEW packet \in CapturedPacket,
           NEW result \in Results(packet, DecodePacket(SafeFrame(packet)))
    PROVE  /\ OutputLen(packet, result) \in Nat
           /\ OutputLen(packet, result) <= BaselineOutputLen(packet)
           /\ OutputLen(packet, result) <= safe_captured_len(packet)
           /\ OutputLen(packet, result) # BaselineOutputLen(packet) =>
                 /\ IsCutResult(result)
                 /\ BaselineOutputLen(packet) - OutputLen(packet, result)
                        >= min_saved_bytes_per_packet
<1>1. result.output_len \in Nat
    BY ResultLength
<1>2. /\ safe_captured_len(packet) \in Nat
      /\ BaselineOutputLen(packet) \in Nat
      /\ BaselineOutputLen(packet) <= safe_captured_len(packet)
    BY PacketNumbers
<1> QED
    BY <1>1, <1>2, PolicyAssumption DEF OutputLen, ApplyMinimumSavingsThreshold, Least

CutReasons == {"tls_application_data_constricted", "quic_short_header_constricted"}

(* The reason names a cut exactly when one is made. *)
LEMMA ReasonOfCut ==
    ASSUME NEW packet \in CapturedPacket,
           NEW decoded,
           NEW result,
           OutputLen(packet, result) \in Nat,
           OutputLen(packet, result) <= BaselineOutputLen(packet)
    PROVE  OutputLen(packet, result) # BaselineOutputLen(packet)
              <=> Reason(packet, decoded, result) \in CutReasons
<1>1. BasicReason(packet, decoded) \notin CutReasons
    BY DEF BasicReason, CutReasons
<1>2. \A d \in DOMAIN ResultReason : ResultReason[d] \notin CutReasons
    BY DEF ResultReason, CutReasons
<1>3. BaselineOutputLen(packet) \in Nat
    BY PacketNumbers
<1>4. CASE OutputLen(packet, result) < BaselineOutputLen(packet)
    BY <1>3, <1>4 DEF Reason, CutReasons
<1>5. CASE ~(OutputLen(packet, result) < BaselineOutputLen(packet))
    <2>1. OutputLen(packet, result) = BaselineOutputLen(packet)
        BY <1>3, <1>5
    <2>2. Reason(packet, decoded, result) \notin CutReasons
        BY <1>1, <1>2, <1>5 DEF Reason
    <2> QED
        BY <2>1, <2>2
<1> QED
    BY <1>4, <1>5

-----------------------------------------------------------------------------
(* OfflinePacketFeed. *)

Decided(packet) ==
    LET decoded == DecodePacket(SafeFrame(packet))
    IN \E result \in Results(packet, decoded) :
           decision = Evaluate(packet, decoded, result)

(* The decision is about the current record, and the records written are    *)
(* those in front of the reader.                                            *)
FeedInv ==
    /\ records \in Seq(Packet)
    /\ next_packet_index \in 0 .. Len(records)
    /\ written \in Seq([incl_len : Nat, orig_len : Nat])
    /\ error # "incl_len"
    /\ pc = "write" =>
          /\ next_packet_index >= 1
          /\ Len(written) = next_packet_index - 1
          /\ Current.captured_len <= Current.original_len
          /\ Decided(Current)
    /\ pc \in {"open_input", "open_output", "read"} => Len(written) = next_packet_index
    /\ Len(written) <= Len(records)
    /\ \A i \in DOMAIN written :
          /\ written[i].orig_len = records[i].original_len
          /\ written[i].incl_len <= records[i].captured_len

(* What the decision about a record promises. *)
LEMMA DecisionFits ==
    ASSUME NEW packet \in CapturedPacket, Decided(packet)
    PROVE  /\ decision.output_len \in Nat
           /\ decision.output_len <= safe_captured_len(packet)
           /\ PayloadInside(SafeFrame(packet), decision.decoded)
           /\ BaselineOutputLen(packet) - decision.output_len # 0 =>
                 BaselineOutputLen(packet) - decision.output_len >= min_saved_bytes_per_packet
           /\ BaselineOutputLen(packet) - decision.output_len # 0
                 <=> decision.reason \in CutReasons
<1> DEFINE decoded == DecodePacket(SafeFrame(packet))
<1>1. PICK result \in Results(packet, decoded) : decision = Evaluate(packet, decoded, result)
    BY DEF Decided
<1>2. /\ decision.output_len = OutputLen(packet, result)
      /\ decision.reason = Reason(packet, decoded, result)
      /\ decision.decoded = decoded
    BY <1>1 DEF Evaluate
<1>3. PayloadInside(SafeFrame(packet), decoded)
    BY DecodedPayloadInside, SafeFrameIsFrame
<1>4. BaselineOutputLen(packet) \in Nat
    BY PacketNumbers
<1>5. /\ OutputLen(packet, result) \in Nat
      /\ OutputLen(packet, result) <= BaselineOutputLen(packet)
      /\ OutputLen(packet, result) <= safe_captured_len(packet)
      /\ OutputLen(packet, result) # BaselineOutputLen(packet) =>
            BaselineOutputLen(packet) - OutputLen(packet, result)
                >= min_saved_bytes_per_packet
    BY <1>1, OutputFits
<1>6. OutputLen(packet, result) # BaselineOutputLen(packet)
          <=> Reason(packet, decoded, result) \in CutReasons
    BY <1>5, ReasonOfCut
<1> HIDE DEF decoded
<1> QED
    BY <1>2, <1>3, <1>4, <1>5, <1>6

(* A decision never asks for more than is saved without a constrictor.      *)
LEMMA DecisionWithinBaseline ==
    ASSUME NEW packet \in CapturedPacket, Decided(packet)
    PROVE  decision.output_len <= BaselineOutputLen(packet)
<1>1. PICK result \in Results(packet, DecodePacket(SafeFrame(packet))) :
          decision = Evaluate(packet, DecodePacket(SafeFrame(packet)), result)
    BY DEF Decided
<1> QED
    BY <1>1, OutputFits DEF Evaluate

LEMMA FeedInit == Init => FeedInv
<1> SUFFICES ASSUME Init PROVE FeedInv
    OBVIOUS
<1>1. records \in Seq(Packet)
    <2>1. PICK n \in 0 .. MaxRecords : records \in [1 .. n -> Packet]
        BY DEF Init
    <2> QED
        BY <2>1, FeedAssumption
<1>2. /\ pc = "open_input" /\ error = "none" /\ next_packet_index = 0 /\ written = <<>>
    BY DEF Init
<1> QED
    BY <1>1, <1>2 DEF FeedInv

LEMMA FeedStep == FeedInv /\ [Next]_vars => FeedInv'
<1> SUFFICES ASSUME FeedInv, [Next]_vars PROVE FeedInv'
    OBVIOUS
<1>0. /\ records \in Seq(Packet)
      /\ next_packet_index \in 0 .. Len(records)
      /\ Len(records) \in Nat
    BY DEF FeedInv
<1>1. CASE \/ OpenInputFails \/ OpenInput \/ OpenOutputFails \/ OpenOutput
           \/ ReadEnd \/ HeaderIsCut \/ LengthsAreWrong \/ DataIsCut \/ ReadFails
    BY <1>1
       DEF FeedInv, OpenInputFails, OpenInput, OpenOutputFails, OpenOutput, ReadEnd,
           HeaderIsCut, LengthsAreWrong, DataIsCut, ReadFails, End, inputVars, readerVars,
           outputVars
<1>2. CASE ReadRecord
    <2>1. /\ pc' = "write" /\ records' = records /\ written' = written /\ error' = error
          /\ next_packet_index' = next_packet_index + 1
        BY <1>2 DEF ReadRecord, inputVars, outputVars
    <2>2. next_packet_index + 1 \in 1 .. Len(records)
        BY <1>0, <1>2 DEF ReadRecord, HasHeader
    <2>3. Current' = Upcoming
        BY <2>1 DEF Current, Upcoming
    <2>4. Decided(Current)'
        BY <1>2, <2>3 DEF ReadRecord, Decided
    <2>5. Current'.captured_len <= Current'.original_len
        BY <1>2, <2>3 DEF ReadRecord
    <2>6. Len(written) = next_packet_index
        BY <1>2 DEF ReadRecord, FeedInv
    <2> QED
        BY <1>0, <2>1, <2>2, <2>4, <2>5, <2>6 DEF FeedInv
<1>3. CASE WriteRecord
    <2>1. /\ next_packet_index \in 1 .. Len(records)
          /\ Len(written) = next_packet_index - 1
          /\ Current.captured_len <= Current.original_len
          /\ Decided(Current)
        BY <1>0, <1>3 DEF WriteRecord, FeedInv
    <2>2. Current \in CapturedPacket
        BY <1>0, <2>1, FeedAssumption DEF Current
    <2>3. /\ Current.captured_len \in Nat
          /\ Current.original_len \in Nat
          /\ decision.output_len \in Nat
          /\ decision.output_len <= Current.captured_len
        BY <2>1, <2>2, PacketNumbers, DecisionFits
    <2>4. OrigLen(Current, decision.output_len) = Current.original_len
        BY <2>1, <2>3 DEF OrigLen
    <2> DEFINE new == [incl_len |-> decision.output_len, orig_len |-> Current.original_len]
    <2>5. /\ pc' = "read" /\ records' = records /\ error' = error
          /\ next_packet_index' = next_packet_index
          /\ written' = Append(written, new)
        BY <1>3, <2>4 DEF WriteRecord, inputVars, readerVars
    <2>6. new \in [incl_len : Nat, orig_len : Nat]
        BY <2>3
    <2>7. written \in Seq([incl_len : Nat, orig_len : Nat])
        BY DEF FeedInv
    <2>8. /\ written' \in Seq([incl_len : Nat, orig_len : Nat])
          /\ Len(written') = next_packet_index
          /\ DOMAIN written' = 1 .. next_packet_index
          /\ \A i \in DOMAIN written : written'[i] = written[i]
          /\ DOMAIN written = 1 .. (next_packet_index - 1)
          /\ written'[next_packet_index] = new
        BY <2>1, <2>5, <2>6, <2>7
    <2>9. ASSUME NEW i \in DOMAIN written'
          PROVE  /\ written'[i].orig_len = records[i].original_len
                 /\ written'[i].incl_len <= records[i].captured_len
        <3>1. CASE i = next_packet_index
            BY <2>3, <2>8, <3>1 DEF Current
        <3>2. CASE i # next_packet_index
            <4>1. i \in DOMAIN written
                BY <1>0, <2>8, <3>2
            <4> QED
                BY <2>8, <4>1 DEF FeedInv
        <3> QED
            BY <3>1, <3>2
    <2> QED
        BY <1>0, <2>1, <2>5, <2>8, <2>9 DEF FeedInv
<1>4. CASE WriteThrows
    <2>1. next_packet_index \in 1 .. Len(records) /\ Decided(Current)
        BY <1>0, <1>4 DEF WriteThrows, FeedInv
    <2>2. Current \in CapturedPacket
        BY <1>0, <2>1, FeedAssumption DEF Current
    <2>3. ~(decision.output_len > safe_captured_len(Current))
        BY <2>1, <2>2, PacketNumbers, DecisionFits
    <2>4. error' = "output" /\ pc' = "done"
        BY <1>4, <2>3 DEF WriteThrows, End
    <2>5. /\ records' = records /\ written' = written
          /\ next_packet_index' = next_packet_index
        BY <1>4 DEF WriteThrows, inputVars, readerVars
    <2> QED
        BY <2>4, <2>5 DEF FeedInv
<1>5. CASE \E size \in Size : Shorten(size)
    BY <1>5 DEF FeedInv, Shorten, inputVars, readerVars, outputVars, Current, Decided
<1>6. CASE UNCHANGED vars
    BY <1>6 DEF FeedInv, vars, inputVars, readerVars, outputVars, Current, Decided
<1> QED
    BY <1>1, <1>2, <1>3, <1>4, <1>5, <1>6 DEF Next, Feed

THEOREM FeedInvariant == Spec => []FeedInv
<1> QED
    BY FeedInit, FeedStep, PTL DEF Spec

(* The current record is a packet about which the policy has decided.       *)
LEMMA CurrentDecided ==
    ASSUME FeedInv, pc = "write"
    PROVE  Current \in CapturedPacket /\ Decided(Current)
<1>1. next_packet_index \in 1 .. Len(records) /\ records \in Seq(Packet)
    BY DEF FeedInv
<1> QED
    BY <1>1, FeedAssumption DEF FeedInv, Current

(* The writer's check of incl_len (PcapWriter::WritePacket) never throws:   *)
(* for any packet, any limits and any result of the constrictors the policy *)
(* saves no more than has been captured.                                    *)
THEOREM NeverRefusedHolds == Spec => []NeverRefused
<1>1. FeedInv => NeverRefused
    BY DEF FeedInv, NeverRefused
<1> QED
    BY <1>1, FeedInvariant, PTL

(* No constrictor is given a payload that has not been captured completely, *)
(* however a frame is cut off, padded or damaged (DecodePacket).            *)
THEOREM DecodedPayloadAlwaysThere == Spec => []DecodedPayloadIsThere
<1>1. FeedInv => DecodedPayloadIsThere
    BY CurrentDecided, DecisionFits DEF DecodedPayloadIsThere
<1> QED
    BY <1>1, FeedInvariant, PTL

(* A packet is shortened by a constrictor only if that saves                *)
(* min_saved_bytes_per_packet, and is counted as shortened exactly then     *)
(* (LiveCapturePolicy::Evaluate).                                           *)
THEOREM CutsAreAlwaysWorthIt == Spec => []CutsAreWorthIt
<1>1. FeedInv => CutsAreWorthIt
    BY CurrentDecided, DecisionFits DEF CutsAreWorthIt, CutReasons
<1> QED
    BY <1>1, FeedInvariant, PTL

(* The output is the input with shorter packets (OfflinePacketFeed::Run and *)
(* PcapWriter::WritePacket): the same records in the same order, each with  *)
(* its original length.                                                     *)
THEOREM OutputAlwaysFollowsInput == Spec => []OutputFollowsInput
<1>1. FeedInv => OutputFollowsInput
    BY DEF FeedInv, OutputFollowsInput
<1> QED
    BY <1>1, FeedInvariant, PTL

-----------------------------------------------------------------------------
(* The stats. *)

(* A reason is counted at most once, and as a cut exactly if it is one.     *)
LEMMA CountedOnce ==
    ASSUME counts \in [Counters -> Nat], NEW reason
    PROVE  LET c == AccumulateDecisionStats(reason) IN
           /\ c \in [Counters -> Nat]
           /\ Constricted(counts) \in Nat /\ Others(counts) \in Nat
           /\ reason \in CutReasons =>
                 Constricted(c) = Constricted(counts) + 1 /\ Others(c) = Others(counts)
           /\ reason \notin CutReasons =>
                 /\ Constricted(c) = Constricted(counts)
                 /\ Others(c) \in {Others(counts), Others(counts) + 1}
<1> DEFINE c == AccumulateDecisionStats(reason)
           one(counter) == IF reason \in DOMAIN CounterOf /\ IsCountedIn(reason, counter)
                           THEN 1 ELSE 0
<1>1. DOMAIN counts = Counters /\ \A counter \in Counters : counts[counter] \in Nat
    OBVIOUS
<1>2. c = [counter \in Counters |-> counts[counter] + one(counter)]
    BY <1>1 DEF AccumulateDecisionStats
<1>3. \A counter : one(counter) \in Nat
    OBVIOUS
<1>4. c \in [Counters -> Nat] /\ \A counter \in Counters : c[counter] = counts[counter] + one(counter)
    BY <1>1, <1>2, <1>3
<1>5. /\ reason \in CutReasons =>
            /\ one("tls_appdata_constricted") + one("quic_short_constricted") = 1
            /\ one("tls_fallback") = 0 /\ one("quic_long_header") = 0
            /\ one("quic_short_matched") = 0 /\ one("quic_fallback") = 0
      /\ reason \notin CutReasons =>
            /\ one("tls_appdata_constricted") = 0 /\ one("quic_short_constricted") = 0
            /\ one("tls_fallback") + one("quic_long_header") +
                  one("quic_short_matched") + one("quic_fallback") \in {0, 1}
    BY DEF CutReasons, CounterOf, IsCountedIn
<1>6. Counters = {"tls_appdata_constricted", "tls_fallback", "quic_long_header",
                  "quic_short_matched", "quic_short_constricted", "quic_fallback"}
    BY DEF Counters
<1> HIDE DEF c, one
<1>7. /\ Constricted(c) = Constricted(counts)
             + (one("tls_appdata_constricted") + one("quic_short_constricted"))
      /\ Others(c) = Others(counts)
             + (one("tls_fallback") + one("quic_long_header") +
                one("quic_short_matched") + one("quic_fallback"))
      /\ Constricted(counts) \in Nat /\ Others(counts) \in Nat
    BY <1>1, <1>3, <1>4, <1>6 DEF Constricted, Others
<1> QED
    BY <1>4, <1>5, <1>7 DEF c

StatsInv ==
    /\ counts \in [Counters -> Nat]
    /\ IsFiniteSet(Shortened)
    /\ StatsTellTheOutput

LEMMA StatsInit == Init => StatsInv
<1> SUFFICES ASSUME Init PROVE StatsInv
    OBVIOUS
<1>1. counts = [counter \in Counters |-> 0] /\ written = <<>>
    BY DEF Init
<1>2. Shortened = {}
    BY <1>1 DEF Shortened
<1>3. IsFiniteSet(Shortened) /\ Cardinality(Shortened) = 0
    BY <1>2, FS_EmptySet
<1>4. Constricted(counts) = 0 /\ Others(counts) = 0
    BY <1>1 DEF Constricted, Others, Counters
<1> QED
    BY <1>1, <1>3, <1>4 DEF StatsInv, StatsTellTheOutput

LEMMA StatsStep == FeedInv /\ StatsInv /\ [Next]_vars => StatsInv'
<1> SUFFICES ASSUME FeedInv, StatsInv, [Next]_vars PROVE StatsInv'
    OBVIOUS
<1>1. ASSUME UNCHANGED <<records, written, counts>> PROVE StatsInv'
    BY <1>1 DEF StatsInv, StatsTellTheOutput, Shortened
<1>2. CASE WriteRecord
    <2> DEFINE n == next_packet_index
    <2>1. /\ pc = "write" /\ n \in 1 .. Len(records) /\ Len(written) = n - 1
          /\ Current \in CapturedPacket /\ Decided(Current)
          /\ written \in Seq([incl_len : Nat, orig_len : Nat])
        BY <1>2, CurrentDecided DEF WriteRecord, FeedInv
    <2>2. /\ decision.output_len \in Nat
          /\ BaselineOutputLen(Current) \in Nat
          /\ BaselineOutputLen(Current) - decision.output_len # 0
                <=> decision.reason \in CutReasons
          /\ decision.output_len <= BaselineOutputLen(Current)
        BY <2>1, PacketNumbers, DecisionFits, DecisionWithinBaseline
    <2>3. /\ records' = records
          /\ \E new : new.incl_len = decision.output_len /\ written' = Append(written, new)
          /\ counts' = AccumulateDecisionStats(decision.reason)
        BY <1>2 DEF WriteRecord, inputVars
    <2>4. /\ Len(written') = n
          /\ DOMAIN written = 1 .. (n - 1) /\ DOMAIN written' = 1 .. n
          /\ \A i \in DOMAIN written : written'[i] = written[i]
          /\ written'[n].incl_len = decision.output_len
        BY <2>1, <2>3
    <2>5. n \notin Shortened
        BY <2>1, <2>4 DEF Shortened
    <2>6. CASE decision.reason \in CutReasons
        <3>1. decision.output_len < BaselineOutputLen(records[n])
            BY <2>2, <2>6 DEF Current
        <3>2. Shortened' = Shortened \cup {n}
            BY <2>1, <2>3, <2>4, <3>1 DEF Shortened
        <3>3. /\ IsFiniteSet(Shortened')
              /\ Cardinality(Shortened') = Cardinality(Shortened) + 1
            BY <2>5, <3>2, FS_AddElement DEF StatsInv
        <3> QED
            BY <2>1, <2>3, <2>4, <2>6, <3>3, CountedOnce DEF StatsInv, StatsTellTheOutput
    <2>7. CASE decision.reason \notin CutReasons
        <3>1. ~(decision.output_len < BaselineOutputLen(records[n]))
            BY <2>2, <2>7 DEF Current
        <3>2. Shortened' = Shortened
            BY <2>1, <2>3, <2>4, <3>1 DEF Shortened
        <3>3. /\ counts' \in [Counters -> Nat]
              /\ Constricted(counts) \in Nat /\ Others(counts) \in Nat
              /\ Constricted(counts') = Constricted(counts)
              /\ Others(counts') \in {Others(counts), Others(counts) + 1}
            BY <2>3, <2>7, CountedOnce DEF StatsInv
        <3>4. /\ Constricted(counts) = Cardinality(Shortened)
              /\ Constricted(counts) + Others(counts) <= Len(written)
              /\ IsFiniteSet(Shortened)
            BY DEF StatsInv, StatsTellTheOutput
        <3>5. Constricted(counts') + Others(counts') <= Len(written')
            BY <2>1, <2>4, <3>3, <3>4
        <3>6. (Constricted(counts) = Constricted(counts'))
              /\ Cardinality(Shortened') = Cardinality(Shortened)
            BY <3>2, <3>3
        <3> QED
            BY <3>2, <3>3, <3>4, <3>5, <3>6 DEF StatsInv, StatsTellTheOutput
    <2> QED
        BY <2>6, <2>7
<1>3. CASE \/ OpenInputFails \/ OpenInput \/ OpenOutputFails \/ OpenOutput
           \/ ReadEnd \/ HeaderIsCut \/ LengthsAreWrong \/ DataIsCut \/ ReadFails
           \/ ReadRecord \/ WriteThrows \/ \E size \in Size : Shorten(size)
    BY <1>1, <1>3
       DEF OpenInputFails, OpenInput, OpenOutputFails, OpenOutput, ReadEnd, HeaderIsCut,
           LengthsAreWrong, DataIsCut, ReadFails, ReadRecord, WriteThrows, Shorten,
           inputVars, statsVars, outputVars
<1>4. CASE UNCHANGED vars
    BY <1>1, <1>4 DEF vars, inputVars, statsVars, outputVars
<1> QED
    BY <1>2, <1>3, <1>4 DEF Next, Feed

(* The counters of the stats (AccumulateDecisionStats) are true of the      *)
(* output file, for every input and every configuration.                    *)
THEOREM StatsAlwaysTellTheOutput == Spec => []StatsTellTheOutput
<1>1. StatsInv => StatsTellTheOutput
    BY DEF StatsInv
<1> QED
    BY <1>1, StatsInit, StatsStep, FeedInvariant, PTL DEF Spec

=============================================================================
