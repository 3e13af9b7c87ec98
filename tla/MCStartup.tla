------------------------------- MODULE MCStartup -------------------------------
(***************************************************************************)
(* Instances of Startup for TLC: files of up to seven lines.  The lines set *)
(* what Open depends on, once rightly and once wrongly, and hold one       *)
(* example of every reason for which a line is refused.                    *)
(***************************************************************************)
EXTENDS Startup

Plain(kind, name) == [kind |-> kind, name |-> name, value |-> NoText]
Assignment(name, value) == [kind |-> "assignment", name |-> name, value |-> value]

MCLine ==
    {Plain("blank", ""), Plain("section", ""), Plain("section", "capture"),
     Plain("section", "quic"), Plain("section", "tls"), Plain("section", "general"),
     Plain("section", "captures"), Plain("no_equals", "backend"),
     Assignment("", Number(1)),
     Assignment("interface", NoText),
     Assignment("interface", Text("eth0")),
     Assignment("backend", Text("tpacket_v3")),
     Assignment("promiscuous", Text("true")),
     Assignment("promiscuous", Number(2)),
     Assignment("default_snaplen", Number(0)),
     Assignment("ring_block_size", Number(4096 + 2048)),
     Assignment("ring_block_size", Number(17 * 4096)),
     Assignment("ring_frame_size", Number(136)),
     Assignment("ring_frame_size", Number(64)),
     Assignment("ring_frame_size", Number(4096)),
     Assignment("ring_frame_size", Number(0)),
     Assignment("ring_block_count", Number(Max32)),
     Assignment("ports", Ports(<<443, 70000>>)),
     Assignment("ports", Ports(<<443, 8443>>)),
     Assignment("duration_sec", Number(Max64)),
     Assignment("app_data_continuation_policy", Text("stream")),
     Assignment("min_saved_bytes_per_packet", Number(0))}

=============================================================================
