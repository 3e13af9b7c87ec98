---------------------------- MODULE TlsConstrictor ----------------------------
(***************************************************************************)
(* policy/TlsConstrictor: the per-direction tracker of TLS records that    *)
(* decides how much of a TCP segment is saved.                             *)
(*                                                                         *)
(* The environment owns, for every direction, the byte stream its sender   *)
(* produced: byte p of direction d has sequence number SeqOf(d, p), the    *)
(* TLS records of the stream start at RecordStart[d], and Header[d][p] is  *)
(* what the five bytes at p parse to.  A position in DOMAIN Header[d]      *)
(* outside RecordStart[d] is a lookalike: payload bytes that happen to     *)
(* parse as a record header.  The environment hands Evaluate any segment   *)
(* of any stream in any order: losses, duplicates, reordering, overlapping *)
(* retransmissions and mid-stream starts are all choices of the next       *)
(* segment.                                                                *)
(*                                                                         *)
(* The three parts of Evaluate are: entry and the continuation of an       *)
(* active record (Begin and Continue actions), one iteration of            *)
(* the record loop (the Parse actions), and the verdict (Conclude).        *)
(* Only one thread calls Evaluate, so the steps of one call never          *)
(* interleave with another call.                                           *)
(***************************************************************************)
EXTENDS Integers

CONSTANTS
    Direction,        \* keys of directions_ (source, destination, ports)
    Reverse,          \* Reverse[d]: the key with source and destination swapped
    HeaderSize,       \* kTlsRecordHeaderSize
    SeqMod,           \* number of TCP sequence numbers, 2^32 in the code
    Isn,              \* Isn[d]: initial sequence number of the stream
    StreamEnd,        \* StreamEnd[d]: bytes in the stream of d
    RecordStart,      \* RecordStart[d]: positions where TLS records start
    Header,           \* Header[d][p]: type and total size read at position p
    AppDataKeep,      \* tls.app_data_keep_record_bytes
    ContinuationKeep, \* tls.app_data_continuation_keep_bytes
    SynMayCarryData   \* whether SYN segments with payload (Fast Open) occur

(* IsTlsContentType: the four types the code accepts. *)
ContentType == {"change_cipher_spec", "alert", "handshake", "application_data"}

ASSUME DirectionAssumption ==
    /\ Reverse \in [Direction -> Direction]
    /\ \A d \in Direction : Reverse[Reverse[d]] = d

ASSUME SizeAssumption ==
    /\ HeaderSize \in Nat \ {0}
    /\ SeqMod \in Nat
    /\ AppDataKeep \in Nat
    /\ ContinuationKeep \in Nat
    /\ SynMayCarryData \in BOOLEAN

(* Records do not overlap; nothing else is asked of a stream: it may hold   *)
(* bytes outside any record, and its last record may be incomplete.         *)
ASSUME StreamAssumption ==
    \A d \in Direction :
        /\ StreamEnd[d] \in Nat
        /\ StreamEnd[d] + 1 < SeqMod
        /\ Isn[d] \in 0 .. (SeqMod - 1)
        /\ RecordStart[d] \subseteq DOMAIN Header[d]
        /\ DOMAIN Header[d] \subseteq Nat
        /\ \A p \in DOMAIN Header[d] :
              /\ Header[d][p] \in [type : ContentType, size : Nat]
              /\ Header[d][p].size >= HeaderSize
        /\ \A s, t \in RecordStart[d] : s < t => s + Header[d][s].size <= t

VARIABLES
    directions,             \* directions_, an absent key being NoState
    pc,                     \* "idle" between calls, "parse" inside Evaluate
    segment,                \* the packet Evaluate was last called with
    payload_offset,
    candidate_payload_size, \* the payload length while there is no candidate
    confirmed_tls,          \* the copy Evaluate takes on entry
    outcome,                \* "scan", or which of the three flags is set
    result,                 \* disposition, and payload bytes kept
    handshakeSeen           \* history: a handshake header was on the wire

locals == <<payload_offset, candidate_payload_size, confirmed_tls, outcome>>
vars == <<directions, pc, segment, locals, result, handshakeSeen>>

-----------------------------------------------------------------------------
(* Sequence numbers and segments. *)

(* Unsigned wrap-around addition of a number of bytes below SeqMod. *)
AdvanceTcpSeq(seq, n) ==
    IF seq + n < SeqMod THEN seq + n ELSE seq + n - SeqMod

(* The SYN occupies one sequence number, so byte p follows Isn by p + 1. *)
SeqOf(d, p) == AdvanceTcpSeq(Isn[d], p + 1)

TcpSeq(s) == IF s.syn THEN Isn[s.dir] ELSE SeqOf(s.dir, s.lo)

PayloadLength(s) == s.hi - s.lo

(* The packets LiveCapturePolicy passes on: payload, or a SYN or RST flag. *)
Segment ==
    {s \in UNION {[dir : {d}, lo : 0 .. StreamEnd[d], hi : 0 .. StreamEnd[d],
                   syn : BOOLEAN, rst : BOOLEAN] : d \in Direction} :
        /\ s.lo <= s.hi
        /\ s.lo < s.hi \/ s.syn \/ s.rst
        /\ s.syn => s.lo = 0
        /\ s.syn /\ ~SynMayCarryData => s.hi = 0}

RecordEnd(d, p) == p + Header[d][p].size

(* ReadTlsRecordHeader succeeds at byte p of s: a header is there, and all  *)
(* of it lies in the segment.                                               *)
ReadsHeader(s, p) == p \in DOMAIN Header[s.dir] /\ p + HeaderSize <= s.hi

-----------------------------------------------------------------------------
(* DirectionState.  has_seen_application_data and                           *)
(* active_record_content_type are written by the code and never read.       *)

DirectionState ==
    [confirmed_tls : BOOLEAN,
     synchronized : BOOLEAN,
     expected_tcp_seq : Nat,
     has_active_record : BOOLEAN,
     active_record_remaining_bytes : Nat,
     active_record_constrictible : BOOLEAN]

NoState ==
    [confirmed_tls |-> FALSE,
     synchronized |-> FALSE,
     expected_tcp_seq |-> 0,
     has_active_record |-> FALSE,
     active_record_remaining_bytes |-> 0,
     active_record_constrictible |-> FALSE]

ClearActiveRecord(state) ==
    [state EXCEPT !.has_active_record = FALSE,
                  !.active_record_remaining_bytes = 0,
                  !.active_record_constrictible = FALSE]

(* Mutant: only the direction of the packet is erased. *)
EraseOwnDirection(s) ==
    [d \in Direction |->
        IF (s.syn \/ s.rst) /\ d = s.dir THEN NoState ELSE directions[d]]

(* The entry erases both directions of a connection on SYN and RST. *)
EraseOnSynRst(s) ==
    [d \in Direction |->
        IF (s.syn \/ s.rst) /\ d \in {s.dir, Reverse[s.dir]}
        THEN NoState
        ELSE directions[d]]

(* Mutant: the sequence number is not looked at. *)
IgnoreSequence(state, seq) == state

(* A segment that is not the next one drops the active record and the       *)
(* synchronization.                                                         *)
CheckSequence(state, seq) ==
    IF state.synchronized /\ seq # state.expected_tcp_seq
    THEN [ClearActiveRecord(state) EXCEPT !.synchronized = FALSE,
                                          !.expected_tcp_seq = 0]
    ELSE state

EntryState(s) == CheckSequence(EraseOnSynRst(s)[s.dir], TcpSeq(s))

ClampedKeepSize(configured, available) ==
    IF configured <= available THEN configured ELSE available

-----------------------------------------------------------------------------
(* History: whether a segment since the last SYN or RST held a handshake    *)
(* header.                                                                  *)

CarriesHandshake(s) ==
    \E p \in DOMAIN Header[s.dir] :
        /\ Header[s.dir][p].type = "handshake"
        /\ s.lo <= p
        /\ ReadsHeader(s, p)

Observe(s) ==
    handshakeSeen' =
        [d \in Direction |->
            \/ d = s.dir /\ CarriesHandshake(s)
            \/ /\ handshakeSeen[d]
               /\ ~((s.syn \/ s.rst) /\ d \in {s.dir, Reverse[s.dir]})]

-----------------------------------------------------------------------------
(* Entry of Evaluate. *)

(* A SYN or RST without payload only forgets the connection. *)
EvaluateEmpty(s) ==
    /\ pc = "idle"
    /\ PayloadLength(s) = 0
    /\ segment' = s
    /\ directions' = EraseOnSynRst(s)
    /\ result' = [disposition |-> "no_application_data", keep |-> 0]
    /\ Observe(s)
    /\ UNCHANGED <<pc, locals>>

(* What every call with payload does on entry; state is what it leaves in   *)
(* directions_[key].                                                        *)
Enter(s, state) ==
    /\ pc = "idle"
    /\ PayloadLength(s) > 0
    /\ pc' = "parse"
    /\ segment' = s
    /\ confirmed_tls' = EntryState(s).confirmed_tls
    /\ directions' = [EraseOnSynRst(s) EXCEPT ![s.dir] = state]
    /\ Observe(s)
    /\ UNCHANGED result

(* No active record: parse from the first byte. *)
BeginAtRecord(s) ==
    /\ ~EntryState(s).has_active_record
    /\ Enter(s, EntryState(s))
    /\ payload_offset' = 0
    /\ candidate_payload_size' = PayloadLength(s)
    /\ outcome' = "scan"

(* Mutant: the remaining bytes are reduced without comparing them first. *)
ContinueUnguarded(s) ==
    LET state == EntryState(s) IN
    /\ state.has_active_record
    /\ Enter(s, [state EXCEPT !.active_record_remaining_bytes =
                                  @ - PayloadLength(s)])
    /\ payload_offset' = PayloadLength(s)
    /\ candidate_payload_size' = PayloadLength(s)
    /\ outcome' = "scan"

(* Mutant: the middle of a record is cut as its end is. *)
CutMiddle(s) ==
    LET state == EntryState(s) IN
    /\ state.has_active_record
    /\ state.active_record_remaining_bytes > PayloadLength(s)
    /\ Enter(s, [state EXCEPT !.active_record_remaining_bytes =
                                  @ - PayloadLength(s)])
    /\ payload_offset' = PayloadLength(s)
    /\ candidate_payload_size' =
           IF state.active_record_constrictible
           THEN ClampedKeepSize(ContinuationKeep, PayloadLength(s))
           ELSE PayloadLength(s)
    /\ outcome' = "scan"

(* The whole segment lies inside the active record. *)
ContinueMiddle(s) ==
    LET state == EntryState(s) IN
    /\ state.has_active_record
    /\ state.active_record_remaining_bytes > PayloadLength(s)
    /\ Enter(s, [state EXCEPT !.active_record_remaining_bytes =
                                  @ - PayloadLength(s)])
    /\ payload_offset' = PayloadLength(s)
    /\ candidate_payload_size' = PayloadLength(s)
    /\ outcome' = IF state.active_record_constrictible THEN "middle" ELSE "scan"

(* The segment is exactly the rest of the active record. *)
ContinueFinal(s) ==
    LET state == EntryState(s) IN
    /\ state.has_active_record
    /\ state.active_record_remaining_bytes = PayloadLength(s)
    /\ Enter(s, ClearActiveRecord(state))
    /\ payload_offset' = PayloadLength(s)
    /\ candidate_payload_size' =
           IF state.active_record_constrictible
           THEN ClampedKeepSize(ContinuationKeep, PayloadLength(s))
           ELSE PayloadLength(s)
    /\ outcome' = "scan"

(* The segment holds the rest of the active record and more: parsing goes   *)
(* on behind a record that is not application data; behind application      *)
(* data the direction is reset.                                             *)
ContinueAndMore(s) ==
    LET state == EntryState(s) IN
    /\ state.has_active_record
    /\ state.active_record_remaining_bytes < PayloadLength(s)
    /\ Enter(s, ClearActiveRecord(state))
    /\ payload_offset' = state.active_record_remaining_bytes
    /\ candidate_payload_size' = PayloadLength(s)
    /\ outcome' = IF state.active_record_constrictible THEN "reset" ELSE "scan"

-----------------------------------------------------------------------------
(* One iteration of the record loop. *)

Key == segment.dir
Position == segment.lo + payload_offset
RemainingPayload == PayloadLength(segment) - payload_offset
Scanning ==
    pc = "parse" /\ outcome = "scan" /\ payload_offset < PayloadLength(segment)

Return(disposition, keep) ==
    /\ pc' = "idle"
    /\ result' = [disposition |-> disposition, keep |-> keep]
    /\ UNCHANGED <<segment, locals, handshakeSeen>>

(* No header at the current byte and no synchronization: a direction that   *)
(* is not confirmed TLS is forgotten.                                       *)
ParseNoHeaderUnsynchronized ==
    /\ Scanning
    /\ ~ReadsHeader(segment, Position)
    /\ ~directions[Key].synchronized
    /\ directions' = IF confirmed_tls
                     THEN directions
                     ELSE [directions EXCEPT ![Key] = NoState]
    /\ Return("no_record", PayloadLength(segment))

(* No header at the current byte of a synchronized direction. *)
ParseNoHeaderSynchronized ==
    /\ Scanning
    /\ ~ReadsHeader(segment, Position)
    /\ directions[Key].synchronized
    /\ outcome' = "uncertain"
    /\ UNCHANGED <<directions, pc, segment, payload_offset,
                   candidate_payload_size, confirmed_tls, result, handshakeSeen>>

(* Tracking of an unconfirmed direction starts with a handshake record only. *)
Accepted(h) ==
    directions[Key].synchronized \/ h.type = "handshake" \/ confirmed_tls

ParseRejected ==
    /\ Scanning
    /\ ReadsHeader(segment, Position)
    /\ ~Accepted(Header[Key][Position])
    /\ directions' = [directions EXCEPT ![Key] = NoState]
    /\ Return("no_record", PayloadLength(segment))

(* An accepted header synchronizes the direction; a handshake confirms both *)
(* directions.                                                              *)
Accept(h) ==
    [d \in Direction |->
        [directions[d] EXCEPT
            !.synchronized = @ \/ d = Key,
            !.confirmed_tls =
                @ \/ (h.type = "handshake" /\ d \in {Key, Reverse[Key]})]]

(* Mutant: the bytes in front of the record are not counted. *)
CandidateWithoutOffset(h) ==
    ClampedKeepSize(AppDataKeep, ClampedKeepSize(h.size, RemainingPayload))

(* What is kept if the record at the current byte is the last one to cut. *)
RecordCandidate(h) ==
    payload_offset
      + ClampedKeepSize(AppDataKeep, ClampedKeepSize(h.size, RemainingPayload))

ParseAccepted(h) ==
    /\ Scanning
    /\ ReadsHeader(segment, Position)
    /\ Accepted(h)
    /\ candidate_payload_size' =
           IF h.type = "application_data"
           THEN RecordCandidate(h)
           ELSE candidate_payload_size
    /\ UNCHANGED <<pc, segment, confirmed_tls, outcome, result, handshakeSeen>>

(* The record ends behind the segment and becomes the active record. *)
ParseOpenRecord ==
    LET h == Header[Key][Position] IN
    /\ ParseAccepted(h)
    /\ h.size > RemainingPayload
    /\ directions' =
           [Accept(h) EXCEPT
               ![Key] = [@ EXCEPT
                   !.has_active_record = TRUE,
                   !.active_record_remaining_bytes = h.size - RemainingPayload,
                   !.active_record_constrictible = (h.type = "application_data")]]
    /\ payload_offset' = PayloadLength(segment)

(* Mutant: the loop advances by the length field, without the header. *)
SkipRecordBody ==
    LET h == Header[Key][Position] IN
    /\ ParseAccepted(h)
    /\ h.size <= RemainingPayload
    /\ directions' = Accept(h)
    /\ payload_offset' = payload_offset + h.size - HeaderSize

(* The record ends inside the segment. *)
ParseWholeRecord ==
    LET h == Header[Key][Position] IN
    /\ ParseAccepted(h)
    /\ h.size <= RemainingPayload
    /\ directions' = Accept(h)
    /\ payload_offset' = payload_offset + h.size

-----------------------------------------------------------------------------
(* The verdict. *)

Parsed ==
    /\ pc = "parse"
    /\ outcome # "scan" \/ payload_offset >= PayloadLength(segment)

(* Mutant: the next segment is expected behind the bytes that are kept. *)
ExpectAfterKept == AdvanceTcpSeq(TcpSeq(segment), candidate_payload_size)

NextExpectedSeq == AdvanceTcpSeq(TcpSeq(segment), PayloadLength(segment))

(* Behind application data that ended inside the segment only the           *)
(* confirmation survives.                                                   *)
ConcludeReset ==
    /\ Parsed
    /\ outcome = "reset"
    /\ directions' =
           [directions EXCEPT
               ![Key] = [NoState EXCEPT
                            !.confirmed_tls = directions[Key].confirmed_tls]]
    /\ Return("no_application_data", PayloadLength(segment))

IsCut ==
    /\ outcome = "scan"
    /\ directions[Key].synchronized
    /\ candidate_payload_size < PayloadLength(segment)

Conclude ==
    /\ Parsed
    /\ outcome # "reset"
    /\ directions' = [directions EXCEPT ![Key].expected_tcp_seq = NextExpectedSeq]
    /\ \/ /\ outcome = "uncertain"
          /\ Return("malformed", PayloadLength(segment))
       \/ /\ IsCut
          /\ Return("app_data_prefix", candidate_payload_size)
       \/ /\ outcome # "uncertain"
          /\ ~IsCut
          /\ Return(IF outcome = "middle" \/ directions[Key].synchronized
                    THEN "no_application_data"
                    ELSE "no_record",
                    PayloadLength(segment))

-----------------------------------------------------------------------------
Init ==
    /\ directions = [d \in Direction |-> NoState]
    /\ pc = "idle"
    /\ \E d \in Direction :
           segment = [dir |-> d, lo |-> 0, hi |-> 0, syn |-> FALSE, rst |-> FALSE]
    /\ payload_offset = 0
    /\ candidate_payload_size = 0
    /\ confirmed_tls = FALSE
    /\ outcome = "scan"
    /\ result = [disposition |-> "none", keep |-> 0]
    /\ handshakeSeen = [d \in Direction |-> FALSE]

Call ==
    \E s \in Segment :
        \/ EvaluateEmpty(s)
        \/ BeginAtRecord(s)
        \/ ContinueMiddle(s)
        \/ ContinueFinal(s)
        \/ ContinueAndMore(s)

Compute ==
    \/ ParseNoHeaderUnsynchronized
    \/ ParseNoHeaderSynchronized
    \/ ParseRejected
    \/ ParseOpenRecord
    \/ ParseWholeRecord
    \/ ConcludeReset
    \/ Conclude

Next == Call \/ Compute

Spec == Init /\ [][Next]_vars

(* A call that has started keeps executing; packets need never arrive. *)
FairSpec == Spec /\ WF_vars(Compute)

-----------------------------------------------------------------------------
(* Properties. *)

Cut == pc = "idle" /\ result.disposition = "app_data_prefix"

(* The types of the state, of which the one that matters is that no count   *)
(* goes below zero: active_record_remaining_bytes is unsigned in the code.  *)
(* And a call returns what LiveCapturePolicy counts on (TlsResults there):  *)
(* what is kept lies in the payload, and a cut drops at least a byte of it. *)
TypeOK ==
    /\ directions \in [Direction -> DirectionState]
    /\ pc \in {"idle", "parse"}
    /\ segment \in [dir : Direction, lo : Nat, hi : Nat, syn : BOOLEAN, rst : BOOLEAN]
    /\ segment.lo <= segment.hi
    /\ payload_offset \in Nat
    /\ candidate_payload_size \in Nat
    /\ confirmed_tls \in BOOLEAN
    /\ outcome \in {"scan", "middle", "reset", "uncertain"}
    /\ result \in [disposition : {"none", "no_record", "no_application_data",
                                  "malformed", "app_data_prefix"},
                   keep : Nat]
    /\ pc = "idle" => result.keep <= PayloadLength(segment)
    /\ Cut => result.keep < PayloadLength(segment)
    /\ handshakeSeen \in [Direction -> BOOLEAN]

(* The streams hold no lookalikes, and SYN segments hold no payload.        *)
CleanStreams ==
    /\ \A d \in Direction : DOMAIN Header[d] = RecordStart[d]
    /\ ~SynMayCarryData

IsAppData(d, p) == Header[d][p].type = "application_data"

(* Position p lies in the record that starts at s, behind its first byte.   *)
Inside(d, s, p) == s < p /\ p < RecordEnd(d, s)

(* Between calls, whatever was lost, repeated or reordered: the remaining   *)
(* bytes of an active record and expected_tcp_seq together point at the end *)
(* of a record that really is in the stream, of the kind remembered.        *)
ActiveRecordAligned ==
    pc = "idle" =>
        \A d \in Direction :
            directions[d].has_active_record =>
                \E s \in RecordStart[d] :
                    LET p == RecordEnd(d, s)
                               - directions[d].active_record_remaining_bytes IN
                    /\ Inside(d, s, p)
                    /\ directions[d].expected_tcp_seq = SeqOf(d, p)
                    /\ directions[d].active_record_constrictible = IsAppData(d, s)

(* A cut keeps, of every application data record that starts in the         *)
(* segment, the configured number of bytes, or all of the record that is    *)
(* there: several records in one segment do not lose their heads.           *)
CutKeepsHeads ==
    Cut =>
        \A s \in RecordStart[segment.dir] :
            /\ segment.lo <= s
            /\ s < segment.hi
            /\ IsAppData(segment.dir, s)
            => ClampedKeepSize(s + AppDataKeep,
                               ClampedKeepSize(RecordEnd(segment.dir, s), segment.hi))
                 <= segment.lo + result.keep

(* final_only: a segment that starts inside an application data record is   *)
(* cut only if it ends where the record ends, and then it keeps             *)
(* app_data_continuation_keep_bytes.                                        *)
ContinuationCutIsFinal ==
    Cut =>
        \A s \in RecordStart[segment.dir] :
            Inside(segment.dir, s, segment.lo) /\ IsAppData(segment.dir, s) =>
                /\ segment.hi = RecordEnd(segment.dir, s)
                /\ result.keep = ClampedKeepSize(ContinuationKeep,
                                                 PayloadLength(segment))

(* Nothing is cut on a connection that has shown no handshake header, in    *)
(* either direction, since its last SYN or RST.                             *)
CutNeedsHandshake ==
    Cut => handshakeSeen[segment.dir] \/ handshakeSeen[Reverse[segment.dir]]

(* Losses are not permanent: a confirmed direction that sees the header of  *)
(* a record at the start of a segment has found its place in the stream     *)
(* again when Evaluate returns.                                             *)
ResyncAtRecordStart ==
    /\ pc = "idle"
    /\ directions[segment.dir].confirmed_tls
    /\ segment.lo \in RecordStart[segment.dir]
    /\ segment.lo + HeaderSize <= segment.hi
    => /\ directions[segment.dir].synchronized
       /\ directions[segment.dir].expected_tcp_seq = SeqOf(segment.dir, segment.hi)

(* Every call returns: the record loop cannot spin on an empty record.      *)
EvaluateReturns == pc = "parse" ~> pc = "idle"

(* README.md "TLS Application Data constriction": what a cut removes is     *)
(* application data.                                                        *)
OnlyApplicationDataIsDropped ==
    Cut =>
        \A q \in (segment.lo + result.keep) .. (segment.hi - 1) :
            \E s \in RecordStart[segment.dir] :
                /\ IsAppData(segment.dir, s)
                /\ s <= q
                /\ q < RecordEnd(segment.dir, s)

=============================================================================
