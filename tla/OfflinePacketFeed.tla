--------------------------- MODULE OfflinePacketFeed ---------------------------
(***************************************************************************)
(* offline/OfflinePacketFeed and offline/PcapReader: a classic PCAP file   *)
(* is read record by record, each record is put before the policy, and     *)
(* what the policy keeps is written to another PCAP file.                  *)
(*                                                                         *)
(* The input is a global header, records, and a size that may cut it off   *)
(* at any byte.  The reader takes the size once, when it opens the file;   *)
(* somebody else may shorten the file later.  The output is modelled as    *)
(* what the writer hands to its stream.                                    *)
(***************************************************************************)
EXTENDS LiveCapturePolicy, Sequences, FiniteSets

CONSTANTS
    Packet,     \* the packets that may be in an input file
    MaxRecords, \* bound: how many of them
    Size        \* sizes the input file may be cut to, when written or later

ASSUME FeedAssumption ==
    /\ Packet \subseteq CapturedPacket
    /\ \A packet \in Packet : packet.captured_len = packet.frame.size
    /\ MaxRecords \in Nat
    /\ Size \subseteq Nat

GlobalHeaderSize == 24  \* kClassicPcapGlobalHeaderSize
PacketHeaderSize == 16  \* kClassicPcapPacketHeaderSize

VARIABLES
    \* The input.
    header,     \* "good", or what is wrong with it
    records,
    available,  \* bytes of the file that are still there
    \* PcapReader.
    file_size,
    next_input_offset,
    next_packet_index,
    incomplete_tail_info,
    \* OfflinePacketFeed.
    pc,
    error,
    decision,   \* of the policy, about the record read last
    bytes_input, bytes_output, bytes_saved,
    counts,     \* the counters of CaptureStats by decision
    \* The output file: the global header and the records written.
    output_exists, global_header_written, written

inputVars == <<header, records>>
readerVars == <<file_size, next_input_offset, next_packet_index, incomplete_tail_info>>
statsVars == <<bytes_input, bytes_output, bytes_saved, counts>>
outputVars == <<output_exists, global_header_written, written>>
vars == <<inputVars, available, readerVars, pc, error, decision, statsVars, outputVars>>

Headers == {"good", "pcapng", "bad_magic", "bad_version", "snaplen_0", "not_Ethernet"}

NoDecision == [output_len |-> 0, reason |-> "default", decoded |-> Undecoded]

End(why) ==
    /\ pc' = "done"
    /\ error' = why

-----------------------------------------------------------------------------
(* Opening the two files. *)

(* There is no such file or it may not be read, or its header is no good.   *)
OpenInputFails ==
    /\ pc = "open_input"
    /\ \/ End("unreadable")
       \/ (available < GlobalHeaderSize \/ header # "good") /\ End("input")
    /\ UNCHANGED <<inputVars, available, readerVars, decision, statsVars, outputVars>>

OpenInput ==
    /\ pc = "open_input"
    /\ available >= GlobalHeaderSize
    /\ header = "good"
    /\ next_input_offset' = GlobalHeaderSize
    /\ pc' = "open_output"
    /\ UNCHANGED <<inputVars, available, file_size, next_packet_index,
                   incomplete_tail_info, error, decision, statsVars, outputVars>>

OpenOutputFails ==
    /\ pc = "open_output"
    /\ End("output")
    /\ UNCHANGED <<inputVars, available, readerVars, decision, statsVars, outputVars>>

OpenOutput ==
    /\ pc = "open_output"
    /\ output_exists' = TRUE
    /\ pc' = "read"
    /\ UNCHANGED <<inputVars, available, readerVars, error, decision, statsVars,
                   global_header_written, written>>

-----------------------------------------------------------------------------
(* PcapReader::ReadNext. *)

Remaining == file_size - next_input_offset

(* Mutant: what is too short for a header is taken for the end.             *)
TailIsEnd == Remaining < PacketHeaderSize

AtEnd == Remaining = 0

(* The record read last, and the one that is read next if there is one.     *)
Current == records[next_packet_index]
Upcoming == records[next_packet_index + 1]

(* The second follows from the first: the file is no longer than its records. *)
HasHeader ==
    /\ Remaining >= PacketHeaderSize
    /\ next_packet_index < Len(records)

DataOffset == next_input_offset + PacketHeaderSize

(* Mutant: the length field is trusted. *)
LengthTrusted == TRUE
DataFits == Upcoming.captured_len <= file_size - DataOffset

NextRecordOffset == DataOffset + Upcoming.captured_len

(* The end of the file: the feed has succeeded. *)
ReadEnd ==
    /\ pc = "read"
    /\ AtEnd
    /\ bytes_saved' = bytes_input - bytes_output
    /\ End("none")
    /\ UNCHANGED <<inputVars, available, readerVars, decision, bytes_input,
                   bytes_output, counts, outputVars>>

(* Mutant: the reader waits for the rest of the header. *)
WaitsForHeader ==
    /\ pc = "read"
    /\ ~AtEnd
    /\ Remaining < PacketHeaderSize
    /\ UNCHANGED vars

HeaderIsCut ==
    /\ pc = "read"
    /\ ~AtEnd
    /\ Remaining < PacketHeaderSize
    /\ incomplete_tail_info' = "packet_header"
    /\ End("input")
    /\ UNCHANGED <<inputVars, available, file_size, next_input_offset, next_packet_index,
                   decision, statsVars, outputVars>>

LengthsAreWrong ==
    /\ pc = "read"
    /\ HasHeader
    /\ Upcoming.captured_len > Upcoming.original_len
    /\ End("input")
    /\ UNCHANGED <<inputVars, available, readerVars, decision, statsVars, outputVars>>

DataIsCut ==
    /\ pc = "read"
    /\ HasHeader
    /\ Upcoming.captured_len <= Upcoming.original_len
    /\ ~DataFits
    /\ incomplete_tail_info' = "packet_data"
    /\ End("input")
    /\ UNCHANGED <<inputVars, available, file_size, next_input_offset, next_packet_index,
                   decision, statsVars, outputVars>>

(* The file has been shortened since it was opened. *)
ReadFails ==
    /\ pc = "read"
    /\ HasHeader
    /\ \/ available < DataOffset
       \/ /\ Upcoming.captured_len <= Upcoming.original_len
          /\ DataFits
          /\ available < NextRecordOffset
    /\ End("input")
    /\ UNCHANGED <<inputVars, available, readerVars, decision, statsVars, outputVars>>

(* The record is read and the policy asked.  What the stream has buffered   *)
(* is read even if the file does not hold it any more.                      *)
ReadRecord ==
    /\ pc = "read"
    /\ HasHeader
    /\ Upcoming.captured_len <= Upcoming.original_len
    /\ DataFits
    /\ LET decoded == DecodePacket(SafeFrame(Upcoming))
       IN \E result \in Results(Upcoming, decoded) :
              decision' = Evaluate(Upcoming, decoded, result)
    /\ next_input_offset' = NextRecordOffset
    /\ next_packet_index' = next_packet_index + 1
    /\ pc' = "write"
    /\ UNCHANGED <<inputVars, available, file_size, incomplete_tail_info, error, statsVars,
                   outputVars>>

-----------------------------------------------------------------------------
(* PcapWriter::WritePacket and the stats. *)

(* Mutant: the original length is what is saved. *)
SavedLen(packet, incl_len) == incl_len

OrigLen(packet, incl_len) ==
    IF packet.original_len >= incl_len THEN packet.original_len ELSE incl_len

(* AccumulateDecisionStats: the counter of a reason, if it has one. *)
CounterOf ==
    [tls_application_data_constricted |-> "tls_appdata_constricted",
     tls_malformed_fallback |-> "tls_fallback",
     tls_no_record_fallback |-> "tls_fallback",
     quic_long_header |-> "quic_long_header",
     quic_short_header_matched |-> "quic_short_matched",
     quic_short_header_constricted |-> "quic_short_constricted",
     quic_short_header_unknown_cid_fallback |-> "quic_fallback",
     quic_short_header_dcid_mismatch_fallback |-> "quic_fallback",
     quic_malformed_fallback |-> "quic_fallback"]

(* Mutant: a break is missing between the cases of two counters.            *)
FallsThrough(reason, counter) ==
    \/ CounterOf[reason] = counter
    \/ CounterOf[reason] = "tls_appdata_constricted" /\ counter = "tls_fallback"

IsCountedIn(reason, counter) == CounterOf[reason] = counter

AccumulateDecisionStats(reason) ==
    [counter \in DOMAIN counts |->
        counts[counter] +
            (IF reason \in DOMAIN CounterOf /\ IsCountedIn(reason, counter) THEN 1 ELSE 0)]

WriteRecord ==
    /\ pc = "write"
    /\ decision.output_len <= safe_captured_len(Current)
    /\ global_header_written' = TRUE
    /\ written' = Append(written, [incl_len |-> decision.output_len,
                                   orig_len |-> OrigLen(Current, decision.output_len)])
    /\ bytes_input' = bytes_input + Current.captured_len
    /\ bytes_output' = bytes_output + decision.output_len
    /\ counts' = AccumulateDecisionStats(decision.reason)
    /\ pc' = "read"
    /\ UNCHANGED <<inputVars, available, readerVars, error, decision, bytes_saved,
                   output_exists>>

(* The writer throws, because more is asked for than there is or because    *)
(* the stream fails.                                                        *)
WriteThrows ==
    /\ pc = "write"
    /\ LET refused == decision.output_len > safe_captured_len(Current)
       IN /\ End(IF refused THEN "incl_len" ELSE "output")
          /\ global_header_written' \in {global_header_written, global_header_written \/ ~refused}
    /\ UNCHANGED <<inputVars, available, readerVars, decision, statsVars, output_exists, written>>

-----------------------------------------------------------------------------
(* Somebody else shortens the input (external). *)
Shorten(size) ==
    /\ pc # "done"
    /\ size < available
    /\ available' = size
    /\ UNCHANGED <<inputVars, readerVars, pc, error, decision, statsVars, outputVars>>

-----------------------------------------------------------------------------
Counters ==
    {"tls_appdata_constricted", "tls_fallback", "quic_long_header",
     "quic_short_matched", "quic_short_constricted", "quic_fallback"}

(* The size of a file whose records have these lengths. *)
FileSize(lengths) ==
    LET end[i \in 0 .. Len(lengths)] ==
            IF i = 0 THEN GlobalHeaderSize
                     ELSE end[i - 1] + PacketHeaderSize + lengths[i]
    IN end[Len(lengths)]

WholeSize(list) == FileSize([i \in DOMAIN list |-> list[i].captured_len])

Init ==
    /\ header \in Headers
    /\ \E n \in 0 .. MaxRecords : records \in [1 .. n -> Packet]
    /\ file_size \in {WholeSize(records)} \cup {s \in Size : s < WholeSize(records)}
    /\ available = file_size
    /\ next_input_offset = 0
    /\ next_packet_index = 0
    /\ incomplete_tail_info = "none"
    /\ pc = "open_input"
    /\ error = "none"
    /\ decision = NoDecision
    /\ bytes_input = 0
    /\ bytes_output = 0
    /\ bytes_saved = 0
    /\ counts = [counter \in Counters |-> 0]
    /\ output_exists = FALSE
    /\ global_header_written = FALSE
    /\ written = <<>>

Feed ==
    \/ OpenInputFails
    \/ OpenInput
    \/ OpenOutputFails
    \/ OpenOutput
    \/ ReadEnd
    \/ HeaderIsCut
    \/ LengthsAreWrong
    \/ DataIsCut
    \/ ReadFails
    \/ ReadRecord
    \/ WriteRecord
    \/ WriteThrows

Next == Feed \/ \E size \in Size : Shorten(size)

Spec == Init /\ [][Next]_vars

(* The feed runs alone until it is done. *)
FairSpec == Spec /\ WF_vars(Feed)

-----------------------------------------------------------------------------
(* Properties. *)

(* The reader never leaves the file: its offset counts the bytes consumed.  *)
TypeOK ==
    /\ header \in Headers
    /\ records \in Seq(Packet)
    /\ available \in Nat
    /\ file_size \in Nat
    /\ next_input_offset \in 0 .. (IF pc = "open_input" THEN 0 ELSE file_size)
    /\ next_packet_index \in 0 .. Len(records)
    /\ incomplete_tail_info \in {"none", "packet_header", "packet_data"}
    /\ pc \in {"open_input", "open_output", "read", "write", "done"}
    /\ error \in {"none", "unreadable", "input", "output", "incl_len"}
    /\ decision.output_len \in Nat
    /\ bytes_input \in Nat
    /\ bytes_output \in Nat
    /\ bytes_saved \in Nat
    /\ counts \in [Counters -> Nat]
    /\ output_exists \in BOOLEAN
    /\ global_header_written \in BOOLEAN
    /\ written \in Seq([incl_len : Nat, orig_len : Nat])

(* README.md "Malformed or ambiguous packets fall back conservatively": a   *)
(* constrictor is given a payload only if it has been captured completely.  *)
(* A segment whose end is missing would make the TLS tracker lose its place. *)
DecodedPayloadIsThere ==
    pc = "write" => PayloadInside(SafeFrame(Current), decision.decoded)

(* The writer never refuses a packet: the policy asks for no more than has  *)
(* been captured, whatever the limits are and whatever a constrictor says.  *)
NeverRefused == error # "incl_len"

(* The output is the input with shorter packets: the records written are    *)
(* the first ones of the input, in order, each with its original length and *)
(* at most its captured bytes.                                              *)
OutputFollowsInput ==
    /\ pc = "read" => Len(written) = next_packet_index
    /\ \A i \in DOMAIN written :
          /\ written[i].orig_len = records[i].original_len
          /\ written[i].incl_len <= records[i].captured_len

(* Success means that the whole input has been converted: damage anywhere,  *)
(* also in the last few bytes, is reported.  And bytes_saved is what the    *)
(* output is shorter than the input.                                        *)
SuccessIsComplete ==
    pc = "done" /\ error = "none" =>
        /\ WholeSize(SubSeq(records, 1, Len(written))) = file_size
        /\ FileSize([i \in DOMAIN written |-> written[i].incl_len]) + bytes_saved = file_size

(* A packet is shortened by a constrictor only if that saves enough, and    *)
(* the reason counted in the stats says so exactly then.                    *)
CutsAreWorthIt ==
    pc = "write" =>
        LET saved == BaselineOutputLen(Current) - decision.output_len IN
        /\ saved # 0 => saved >= min_saved_bytes_per_packet
        /\ saved # 0 <=> decision.reason \in {"tls_application_data_constricted",
                                               "quic_short_header_constricted"}

(* The records that are shorter than they would be without a constrictor.   *)
Shortened == {i \in DOMAIN written : written[i].incl_len < BaselineOutputLen(records[i])}

Constricted(c) == c["tls_appdata_constricted"] + c["quic_short_constricted"]
Others(c) ==
    c["tls_fallback"] + c["quic_long_header"] + c["quic_short_matched"] + c["quic_fallback"]

(* README.md "tls_appdata_constricted: TLS packets shortened by policy",    *)
(* "quic_short_constricted: packets actually shortened": at any time the    *)
(* two count the packets of the output that are shorter, and the others     *)
(* count each of the remaining packets at most once.                        *)
StatsTellTheOutput ==
    /\ Constricted(counts) = Cardinality(Shortened)
    /\ Constricted(counts) + Others(counts) <= Len(written)

(* The feed always ends, also on records without bytes and on files that    *)
(* become shorter while they are read.                                      *)
FeedEnds == <>(pc = "done")

(* README.md "Classic PCAP output": a run that succeeds leaves a PCAP file. *)
SuccessMeansPcap == pc = "done" /\ error = "none" => global_header_written

=============================================================================
