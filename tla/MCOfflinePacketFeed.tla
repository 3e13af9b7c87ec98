-------------------------- MODULE MCOfflinePacketFeed --------------------------
(***************************************************************************)
(* Instances of OfflinePacketFeed for TLC: every kind of packet the        *)
(* decoder and the policy tell apart, whole and cut off at the places      *)
(* where its checks change their answer.                                   *)
(***************************************************************************)
EXTENDS OfflinePacketFeed

(* An IPv4 TCP frame with ten bytes of payload. *)
TcpFrame ==
    [size |-> 64, vlan_tags |-> 0, ethertype |-> "ipv4", version |-> 4, ihl |-> 20,
     length |-> 50, protocol |-> "tcp", fragment |-> FALSE, data_offset |-> 20,
     udp_length |-> 0]

(* An IPv6 UDP frame with a VLAN tag and eight bytes of payload. *)
UdpFrame ==
    [TcpFrame EXCEPT !.size = 74, !.vlan_tags = 1, !.ethertype = "ipv6", !.version = 6,
                     !.protocol = "udp", !.length = 16, !.udp_length = 16]

Frames ==
    {TcpFrame, UdpFrame,
     [TcpFrame EXCEPT !.size = 63],                        \* cut off
     [TcpFrame EXCEPT !.size = 53],
     [TcpFrame EXCEPT !.size = 13],
     [TcpFrame EXCEPT !.length = 40],                      \* padded, no payload
     [TcpFrame EXCEPT !.length = 39],                      \* header reaches into padding
     [TcpFrame EXCEPT !.length = 40, !.data_offset = 24],  \* options reach into padding
     [TcpFrame EXCEPT !.data_offset = 16],
     [TcpFrame EXCEPT !.ihl = 16],
     [TcpFrame EXCEPT !.length = 19],
     [TcpFrame EXCEPT !.fragment = TRUE],
     [TcpFrame EXCEPT !.ethertype = "other"],
     [TcpFrame EXCEPT !.size = 0],
     [UdpFrame EXCEPT !.size = 73],
     [UdpFrame EXCEPT !.size = 17],                        \* cut off in the VLAN tag
     [UdpFrame EXCEPT !.udp_length = 7],
     [UdpFrame EXCEPT !.udp_length = 17],
     [UdpFrame EXCEPT !.udp_length = 8],                   \* no payload
     [UdpFrame EXCEPT !.protocol = "ipv6_extension"]}

PacketOf(frame, original, port, syn) ==
    [frame |-> frame, captured_len |-> frame.size, original_len |-> original,
     configured_port |-> port, syn_or_rst |-> syn]

MCPacket ==
    {PacketOf(f, 80, TRUE, FALSE) : f \in Frames} \cup
    {PacketOf(TcpFrame, 64, FALSE, FALSE),
     PacketOf([TcpFrame EXCEPT !.length = 40], 64, TRUE, TRUE),
     PacketOf(TcpFrame, 63, TRUE, FALSE)}                  \* longer than on the wire

(* Nothing left, a header cut off, a record header cut off, and data cut    *)
(* off, in the first or the second record.                                  *)
MCSize == {0, 23, 24, 39, 40, 103, 104, 119, 150}

=============================================================================
