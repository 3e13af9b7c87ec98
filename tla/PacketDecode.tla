----------------------------- MODULE PacketDecode -----------------------------
(***************************************************************************)
(* decode/PacketDecode: from an Ethernet frame to the place of its TCP or  *)
(* UDP payload.                                                            *)
(*                                                                         *)
(* A frame is given by the number of bytes captured of it and by the       *)
(* fields the decoder reads; lengths are in bytes.                         *)
(*   vlan_tags    VLAN tags in front of the ethertype                      *)
(*   ihl          length of the IPv4 header, by its field                  *)
(*   length       total_length of IPv4, payload_length of IPv6             *)
(*   fragment     more fragments, or an offset (IPv4)                      *)
(*   data_offset  length of the TCP header, by its field                   *)
(***************************************************************************)
EXTENDS Integers

Frame ==
    [size : Nat, vlan_tags : Nat, ethertype : {"ipv4", "ipv6", "other"},
     version : 0 .. 15, ihl : 0 .. 60, length : Nat,
     protocol : {"tcp", "udp", "ipv6_extension", "other"}, fragment : BOOLEAN,
     data_offset : 0 .. 60, udp_length : Nat]

HasBytes(frame, offset, count) == offset <= frame.size /\ count <= frame.size - offset

Undecoded ==
    [failure_reason |-> "none", ip |-> FALSE, transport_protocol |-> "none",
     payload_offset |-> 0, payload_length |-> 0]

Failed(reason) == [Undecoded EXCEPT !.failure_reason = reason]
OnlyIp == [Undecoded EXCEPT !.ip = TRUE]

Transport(protocol, offset, length) ==
    [failure_reason |-> "none", ip |-> TRUE, transport_protocol |-> protocol,
     payload_offset |-> offset, payload_length |-> length]

-----------------------------------------------------------------------------
(* The transport header starts at offset; the IP packet ends at end.        *)

(* Mutant: a header may reach behind the IP packet, into the padding.       *)
InFrame(frame, offset, count, end) == HasBytes(frame, offset, count)

InPacket(frame, offset, count, end) ==
    /\ HasBytes(frame, offset, count)
    /\ offset + count <= end

DecodeTcp(frame, offset, end) ==
    IF ~InPacket(frame, offset, 20, end) THEN Failed("truncated_tcp_header")
    ELSE IF frame.data_offset < 20 THEN Failed("invalid_tcp_data_offset")
    ELSE IF ~InPacket(frame, offset, frame.data_offset, end)
         THEN Failed("truncated_tcp_header")
    ELSE Transport("tcp", offset + frame.data_offset, end - (offset + frame.data_offset))

DecodeUdp(frame, offset, end) ==
    IF ~InPacket(frame, offset, 8, end) THEN Failed("truncated_udp_header")
    ELSE IF frame.udp_length < 8 THEN Failed("invalid_udp_length")
    ELSE IF offset + frame.udp_length > end THEN Failed("truncated_udp_payload")
    ELSE Transport("udp", offset + 8, frame.udp_length - 8)

DecodeTransport(frame, offset, end) ==
    IF frame.protocol = "tcp" THEN DecodeTcp(frame, offset, end)
    ELSE IF frame.protocol = "udp" THEN DecodeUdp(frame, offset, end)
    ELSE OnlyIp

-----------------------------------------------------------------------------
(* The IP header starts at offset. *)

DecodeIpv4(frame, offset) ==
    IF ~HasBytes(frame, offset, 20) THEN Failed("truncated_ipv4_header")
    ELSE IF frame.version # 4 \/ frame.ihl < 20 THEN Failed("invalid_ipv4_ihl")
    ELSE IF ~HasBytes(frame, offset, frame.ihl) THEN Failed("truncated_ipv4_header")
    ELSE IF frame.length < frame.ihl THEN Failed("invalid_ipv4_total_length")
    ELSE IF ~HasBytes(frame, offset, frame.length) THEN Failed("truncated_ipv4_packet")
    ELSE IF frame.fragment THEN OnlyIp
    ELSE DecodeTransport(frame, offset + frame.ihl, offset + frame.length)

DecodeIpv6(frame, offset) ==
    IF ~HasBytes(frame, offset, 40) \/ frame.version # 6
    THEN Failed("truncated_ipv6_header")
    ELSE IF ~HasBytes(frame, offset, 40 + frame.length) THEN Failed("truncated_ipv6_packet")
    ELSE IF frame.protocol = "ipv6_extension"
         THEN Failed("unsupported_ipv6_extension_headers")
    ELSE DecodeTransport(frame, offset + 40, offset + 40 + frame.length)

NetworkOffset(frame) == 14 + 4 * frame.vlan_tags

DecodePacket(frame) ==
    IF ~HasBytes(frame, 0, 14) THEN Failed("truncated_ethernet_header")
    ELSE IF ~HasBytes(frame, 14, 4 * frame.vlan_tags) THEN Failed("truncated_vlan_tag")
    ELSE IF frame.ethertype = "ipv4" THEN DecodeIpv4(frame, NetworkOffset(frame))
    ELSE IF frame.ethertype = "ipv6" THEN DecodeIpv6(frame, NetworkOffset(frame))
    ELSE Undecoded

-----------------------------------------------------------------------------
(* What the callers rely on. *)

(* Where the IP packet in the frame ends; Ethernet padding may follow.      *)
NetworkEnd(frame) ==
    NetworkOffset(frame) + frame.length + (IF frame.ethertype = "ipv6" THEN 40 ELSE 0)

(* The payload lies in the captured bytes and in the IP packet, so that its *)
(* unsigned length is not the result of an underflow and neither constrictor *)
(* takes Ethernet padding for payload.                                      *)
PayloadInside(frame, decoded) ==
    decoded.transport_protocol # "none" =>
        /\ decoded.failure_reason = "none"
        /\ decoded.payload_offset \in Nat
        /\ decoded.payload_length \in Nat
        /\ NetworkOffset(frame) + 28 <= decoded.payload_offset
        /\ decoded.payload_offset + decoded.payload_length <= NetworkEnd(frame)
        /\ NetworkEnd(frame) <= frame.size

=============================================================================
