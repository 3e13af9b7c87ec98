------------------------------ MODULE ConfigLoader ------------------------------
(***************************************************************************)
(* config/ConfigLoader: an INI file is read line by line into a            *)
(* PolicyConfig that starts with the defaults.  The first bad line ends    *)
(* the reading; what no line can tell alone is looked at behind the last.  *)
(*                                                                         *)
(* A line is what is left when comment and blanks are stripped.  A value   *)
(* is what the parsers make of it: the numbers of its comma-separated      *)
(* list, a token that is no number being NaN, and its text otherwise; a    *)
(* number is written without leading zeros, and letters are lower case.    *)
(***************************************************************************)
EXTENDS Integers, Sequences

CONSTANTS
    Max32,    \* largest std::uint32_t
    Max64,    \* largest std::uint64_t
    Line,     \* the lines that may be in a file
    MaxLines  \* bound: lines of a file

MaxPort == 65535

DefaultBlockSize == 1048576

ASSUME WidthAssumption ==
    /\ Max32 \in Nat
    /\ Max64 \in Nat
    /\ DefaultBlockSize <= Max32
    /\ Max32 <= Max64
    /\ MaxLines \in Nat

VARIABLES
    load_pc,          \* "read", "loaded" or "failed"
    current_section,
    line_number,
    config,           \* result.config
    error_line        \* the line result.error names; 0: the whole file

loaderVars == <<load_pc, current_section, line_number, config, error_line>>

-----------------------------------------------------------------------------
(* Values. *)

NaN == -1

Number(n) == [text |-> "", list |-> <<n>>]
Text(t) == [text |-> t, list |-> <<NaN>>]
Ports(list) == [text |-> "", list |-> list]
NoText == [text |-> "", list |-> <<>>]

IsUnsigned(value, max) == Len(value.list) = 1 /\ value.list[1] \in 0 .. max

ArePorts(list) == \A i \in DOMAIN list : list[i] \in 0 .. MaxPort

(* Whether a value can be parsed as what an option takes.  stream and bulk  *)
(* are known continuation policies, but not supported ones.                 *)
Parses(value, type) ==
    CASE type = "bool" -> value.text \in {"true", "false"} \/ IsUnsigned(value, 1)
      [] type = "uint32" -> IsUnsigned(value, Max32)
      [] type = "uint64" -> IsUnsigned(value, Max64)
      [] type = "ports" -> ArePorts(value.list)
      [] type = "backend" -> value.text \in {"recvmsg", "tpacket_v3"}
      [] type = "policy" -> value.text = "final_only"
      [] type = "text" -> TRUE

Parsed(value, type) ==
    CASE type = "bool" -> value.text = "true" \/ value.list = <<1>>
      [] type \in {"uint32", "uint64"} -> value.list[1]
      [] type = "ports" -> value.list
      [] type \in {"backend", "policy"} -> value.text
      [] type = "text" -> value

-----------------------------------------------------------------------------
(* The keys of every section, and what they take. *)

CaptureOptions ==
    [backend |-> "backend", interface |-> "text", promiscuous |-> "bool",
     output |-> "text", ring_block_size |-> "uint32", ring_block_count |-> "uint32",
     ring_frame_size |-> "uint32", block_timeout_ms |-> "uint32",
     max_packets |-> "uint64", duration_sec |-> "uint64",
     default_snaplen |-> "uint32", max_capture_len |-> "uint32"]

GeneralOptions == [min_saved_bytes_per_packet |-> "uint32"]

TlsOptions ==
    [enabled |-> "bool", ports |-> "ports", app_data_continuation_policy |-> "policy",
     app_data_keep_record_bytes |-> "uint32",
     app_data_continuation_keep_bytes |-> "uint32"]

QuicOptions ==
    [enabled |-> "bool", require_dcid_match |-> "bool",
     allow_short_header_without_known_dcid |-> "bool", ports |-> "ports",
     short_header_keep_packet_bytes |-> "uint32"]

StatsOptions == [enabled |-> "bool"]

Options ==
    [capture |-> CaptureOptions, general |-> GeneralOptions, tls |-> TlsOptions,
     quic |-> QuicOptions, stats |-> StatsOptions]

DefaultOutput == Text("output.pcap")

DefaultCapture ==
    [backend |-> "recvmsg", interface |-> NoText, promiscuous |-> FALSE,
     default_snaplen |-> 65535, max_capture_len |-> 65535,
     max_packets |-> 0, duration_sec |-> 0,
     ring_block_size |-> DefaultBlockSize, ring_block_count |-> 64,
     ring_frame_size |-> 2048, block_timeout_ms |-> 64, output |-> DefaultOutput]

DefaultTls ==
    [enabled |-> TRUE, ports |-> <<443, 8443>>, app_data_keep_record_bytes |-> 256,
     app_data_continuation_keep_bytes |-> 64,
     app_data_continuation_policy |-> "final_only"]

DefaultQuic ==
    [enabled |-> TRUE, ports |-> <<443>>, short_header_keep_packet_bytes |-> 128,
     require_dcid_match |-> FALSE, allow_short_header_without_known_dcid |-> TRUE]

DefaultConfig ==
    [general |-> [min_saved_bytes_per_packet |-> 16], capture |-> DefaultCapture,
     tls |-> DefaultTls, quic |-> DefaultQuic, stats |-> [enabled |-> TRUE]]

(* AssignValue succeeds. *)
Assigns(line) ==
    /\ line.kind = "assignment"
    /\ current_section \in DOMAIN Options
    /\ line.name \in DOMAIN Options[current_section]
    /\ line.value # NoText
    /\ Parses(line.value, Options[current_section][line.name])

IsSection(line) == line.kind = "section" /\ line.name # ""

-----------------------------------------------------------------------------
(* LoadFromString. *)

(* The next line of the file. *)
NextLine ==
    /\ load_pc = "read"
    /\ line_number < MaxLines
    /\ line_number' = line_number + 1

SkipLine ==
    /\ NextLine
    /\ \E line \in Line : line.kind = "blank"
    /\ UNCHANGED <<load_pc, current_section, config, error_line>>

EnterSection ==
    /\ NextLine
    /\ \E line \in Line : IsSection(line) /\ current_section' = line.name
    /\ UNCHANGED <<load_pc, config, error_line>>

AssignValue ==
    /\ NextLine
    /\ \E line \in Line :
          /\ Assigns(line)
          /\ config' = [config EXCEPT ![current_section][line.name] =
                            Parsed(line.value, Options[current_section][line.name])]
    /\ UNCHANGED <<load_pc, current_section, error_line>>

(* Mutant: the lines are counted from one, and the number goes on first.    *)
NamesNextLine ==
    /\ NextLine
    /\ \E line \in Line : line.kind # "blank" /\ ~IsSection(line) /\ ~Assigns(line)
    /\ load_pc' = "failed"
    /\ error_line' = line_number + 2
    /\ UNCHANGED <<current_section, config>>

(* A header without its bracket or its name, no '=', nothing in front of or *)
(* behind it, no section yet, or a key or value that is not known.          *)
RejectLine ==
    /\ NextLine
    /\ \E line \in Line : line.kind # "blank" /\ ~IsSection(line) /\ ~Assigns(line)
    /\ load_pc' = "failed"
    /\ error_line' = line_number + 1
    /\ UNCHANGED <<current_section, config>>

(* AfPacketTpacketV3Capture::ValidateRingLayout asks the same again.        *)
RingLayoutIsValid(capture) ==
    /\ capture.ring_block_size # 0
    /\ capture.ring_block_count # 0
    /\ capture.ring_frame_size # 0
    /\ capture.ring_block_size % capture.ring_frame_size = 0

ConfigIsValid ==
    /\ config.capture.default_snaplen # 0
    /\ config.capture.max_capture_len # 0
    /\ RingLayoutIsValid(config.capture)

(* Behind the last line.  A file that cannot be read any further ends here, *)
(* too: the error is noted by the string stream and not by input, the       *)
(* stream that LoadFromFile asks.                                           *)
EndOfFile ==
    /\ load_pc = "read"
    /\ \/ ConfigIsValid /\ load_pc' = "loaded" /\ UNCHANGED error_line
       \/ ~ConfigIsValid /\ load_pc' = "failed" /\ error_line' = 0
    /\ UNCHANGED <<current_section, line_number, config>>

(* LoadFromFile: there is no such file. *)
CannotOpenConfig ==
    /\ load_pc = "read"
    /\ line_number = 0
    /\ load_pc' = "failed"
    /\ error_line' = 0
    /\ UNCHANGED <<current_section, line_number, config>>

LoaderInit ==
    /\ load_pc = "read"
    /\ current_section = ""
    /\ line_number = 0
    /\ config = DefaultConfig
    /\ error_line = 0

Load == SkipLine \/ EnterSection \/ AssignValue \/ RejectLine \/ EndOfFile \/ CannotOpenConfig

=============================================================================
