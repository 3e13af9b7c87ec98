--------------------------- MODULE LiveCapturePolicy ---------------------------
(***************************************************************************)
(* policy/LiveCapturePolicy: how many bytes of a packet are saved, and why.*)
(*                                                                         *)
(* A packet is a frame with its two lengths, whether one of its ports is   *)
(* configured for an enabled protocol, and whether it has SYN or RST set.  *)
(* Evaluate is given the result of the constrictor it would call; what the *)
(* constrictors do is in their own modules, here any result they may give  *)
(* is considered.                                                          *)
(***************************************************************************)
EXTENDS PacketDecode

CONSTANTS
    default_snaplen,            \* capture.default_snaplen
    max_capture_len,            \* capture.max_capture_len
    min_saved_bytes_per_packet  \* general.min_saved_bytes_per_packet

ASSUME PolicyAssumption ==
    /\ default_snaplen \in Nat
    /\ max_capture_len \in Nat
    /\ min_saved_bytes_per_packet \in Nat

(* frame.size is the size of the data the packet view points to.            *)
CapturedPacket ==
    [frame : Frame, captured_len : Nat, original_len : Nat,
     configured_port : BOOLEAN, syn_or_rst : BOOLEAN]

Least(a, b) == IF a <= b THEN a ELSE b

safe_captured_len(packet) == Least(packet.captured_len, packet.frame.size)

(* The frame as far as it may be read. *)
SafeFrame(packet) == [packet.frame EXCEPT !.size = safe_captured_len(packet)]

Malformed(packet) ==
    \/ packet.captured_len > packet.frame.size
    \/ packet.original_len < safe_captured_len(packet)

(* Mutant: the length on the wire is taken for what is there. *)
OriginalLen(packet) == packet.original_len

EffectiveInputLen(packet) == Least(safe_captured_len(packet), packet.original_len)

(* What is saved if no constrictor cuts the packet. *)
BaselineOutputLen(packet) ==
    Least(EffectiveInputLen(packet), Least(default_snaplen, max_capture_len))

-----------------------------------------------------------------------------
(* Which constrictor is asked. *)

Usable(packet, decoded) == ~Malformed(packet) /\ decoded.failure_reason = "none"

AsksTls(packet, decoded) ==
    /\ Usable(packet, decoded)
    /\ decoded.transport_protocol = "tcp"
    /\ packet.configured_port
    /\ decoded.payload_length > 0 \/ packet.syn_or_rst

AsksQuic(packet, decoded) ==
    /\ Usable(packet, decoded)
    /\ decoded.transport_protocol = "udp"
    /\ packet.configured_port
    /\ decoded.payload_length > 0

Uncut(dispositions) == [disposition : dispositions, output_len : {0}]

(* The results the constrictors may give; a cut ends inside the payload.    *)
TlsResults(decoded) ==
    Uncut({"no_record", "no_application_data", "malformed", "uncertain_fallback"}) \cup
    [disposition : {"app_data_prefix"},
     output_len : decoded.payload_offset .. decoded.payload_offset + decoded.payload_length - 1]

QuicResults(decoded) ==
    Uncut({"not_applicable", "long_header", "unknown_cid_fallback",
           "dcid_mismatch_fallback", "malformed_fallback"}) \cup
    [disposition : {"short_header_matched"},
     output_len : decoded.payload_offset + 1 .. decoded.payload_offset + decoded.payload_length]

Results(packet, decoded) ==
    IF AsksTls(packet, decoded) THEN TlsResults(decoded)
    ELSE IF AsksQuic(packet, decoded) THEN QuicResults(decoded)
    ELSE Uncut({"not_asked"})

-----------------------------------------------------------------------------
(* The decision. *)

(* Mutant: every cut is taken. *)
AnySavings(baseline, candidate) == candidate

ApplyMinimumSavingsThreshold(baseline, candidate) ==
    IF candidate >= baseline \/ baseline - candidate < min_saved_bytes_per_packet
    THEN baseline
    ELSE candidate

IsCutResult(result) == result.disposition \in {"app_data_prefix", "short_header_matched"}

OutputLen(packet, result) ==
    IF IsCutResult(result)
    THEN ApplyMinimumSavingsThreshold(BaselineOutputLen(packet),
                                      Least(BaselineOutputLen(packet), result.output_len))
    ELSE BaselineOutputLen(packet)

BasicReason(packet, decoded) ==
    IF ~Usable(packet, decoded) THEN "parse_error"
    ELSE IF ~decoded.ip THEN "non_ip"
    ELSE IF decoded.transport_protocol = "tcp"
         THEN IF packet.configured_port THEN "tls_candidate" ELSE "tcp"
    ELSE IF decoded.transport_protocol = "udp"
         THEN IF packet.configured_port THEN "quic_candidate" ELSE "udp"
    ELSE "default"

(* The reason that a result leads to; other results leave the basic one.    *)
ResultReason ==
    [malformed |-> "tls_malformed_fallback",
     uncertain_fallback |-> "tls_malformed_fallback",
     no_record |-> "tls_no_record_fallback",
     long_header |-> "quic_long_header",
     short_header_matched |-> "quic_short_header_matched",
     unknown_cid_fallback |-> "quic_short_header_unknown_cid_fallback",
     dcid_mismatch_fallback |-> "quic_short_header_dcid_mismatch_fallback",
     malformed_fallback |-> "quic_malformed_fallback"]

Reason(packet, decoded, result) ==
    IF OutputLen(packet, result) < BaselineOutputLen(packet)
    THEN IF result.disposition = "app_data_prefix"
         THEN "tls_application_data_constricted"
         ELSE "quic_short_header_constricted"
    ELSE IF result.disposition \in DOMAIN ResultReason
         THEN ResultReason[result.disposition]
    ELSE BasicReason(packet, decoded)

Evaluate(packet, decoded, result) ==
    [output_len |-> OutputLen(packet, result),
     reason |-> Reason(packet, decoded, result),
     decoded |-> decoded]

=============================================================================
