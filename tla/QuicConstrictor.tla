---------------------------- MODULE QuicConstrictor ----------------------------
(***************************************************************************)
(* policy/QuicConstrictor: learns the source connection IDs that the two   *)
(* endpoints of a UDP flow announce in long headers, and cuts short header *)
(* packets that are addressed to them.                                     *)
(*                                                                         *)
(* An endpoint is an address and port, numbered in the order of            *)
(* CompareEndpoints.  A connection ID is a sequence of bytes.  A datagram  *)
(* is given by what the code reads at the positions it may reach:          *)
(* reading[p] is a long header with the position where it ends, a byte     *)
(* that can start a short header with the bytes behind it, or any other    *)
(* byte.  Datagrams come in any order and any number of times.             *)
(***************************************************************************)
EXTENDS Integers, Sequences

CONSTANTS
    Endpoint,      \* numbers of the endpoints
    Byte,          \* values of a byte of a connection ID or of payload
    Datagram,      \* the datagrams that may be seen
    KeepBytes,     \* quic.short_header_keep_packet_bytes
    RequireMatch,  \* quic.require_dcid_match
    AllowUnknown   \* quic.allow_short_header_without_known_dcid

ConnectionId == Seq(Byte)

(* wellformed: the version is not 0 and no connection ID is too long.       *)
(* cids_end: where the connection IDs end.  end: where the packet ends, by  *)
(* its length field.                                                        *)
Reading ==
    [form : {"long", "short", "other"}, wellformed : BOOLEAN, retry : BOOLEAN,
     scid : ConnectionId, cids_end : Nat, end : Nat, body : Seq(Byte)]

ASSUME QuicAssumption ==
    /\ Endpoint \subseteq Nat
    /\ KeepBytes \in Nat
    /\ RequireMatch \in BOOLEAN
    /\ AllowUnknown \in BOOLEAN

ASSUME DatagramAssumption ==
    \A d \in Datagram :
        /\ d.src \in Endpoint
        /\ d.dst \in Endpoint
        /\ d.length \in Nat \ {0}
        /\ 0 \in DOMAIN d.reading
        /\ \A p \in DOMAIN d.reading :
              /\ p \in 0 .. (d.length - 1)
              /\ d.reading[p] \in Reading
              /\ d.reading[p].form = "long" =>
                    /\ p < d.reading[p].end
                    /\ d.reading[p].end < d.length =>
                          d.reading[p].end \in DOMAIN d.reading
              /\ d.reading[p].form = "short" =>
                    Len(d.reading[p].body) = d.length - p - 1

VARIABLES
    flow_states,     \* flow_states_, an absent key being NoFlow
    pc,              \* "idle" between calls, "walk" inside Evaluate
    datagram,        \* the datagram Evaluate was last called with
    offset,
    saw_long_header,
    result,          \* disposition, and payload bytes kept
    latest           \* history: the last SCID announced by one endpoint to another

vars == <<flow_states, pc, datagram, offset, saw_long_header, result, latest>>

-----------------------------------------------------------------------------
(* Flows. *)

Unknown == [known |-> FALSE, bytes |-> <<>>]
Known(cid) == [known |-> TRUE, bytes |-> cid]
LearnedId == [known : BOOLEAN, bytes : ConnectionId]

NoFlow == [endpoint_a_scid |-> Unknown, endpoint_b_scid |-> Unknown]
FlowState == [endpoint_a_scid : LearnedId, endpoint_b_scid : LearnedId]

(* Mutant: the flow is keyed by source and destination. *)
DirectedFlow(src, dst) == [key |-> <<src, dst>>, direction |-> "AToB"]

(* The smaller endpoint is endpoint_a. *)
MakeCanonicalFlow(src, dst) ==
    IF src <= dst
    THEN [key |-> <<src, dst>>, direction |-> "AToB"]
    ELSE [key |-> <<dst, src>>, direction |-> "BToA"]

Flow == MakeCanonicalFlow(datagram.src, datagram.dst)

(* What flow_states_ holds for the sender after it announced cid. *)
Learn(cid) ==
    [flow_states EXCEPT ![Flow.key] =
        IF cid = <<>> THEN @
        ELSE IF Flow.direction = "AToB"
             THEN [@ EXCEPT !.endpoint_a_scid = Known(cid)]
             ELSE [@ EXCEPT !.endpoint_b_scid = Known(cid)]]

(* Mutant: the sender's own connection ID is expected. *)
OwnCid ==
    IF Flow.direction = "AToB"
    THEN flow_states[Flow.key].endpoint_a_scid
    ELSE flow_states[Flow.key].endpoint_b_scid

(* What the receiver has announced. *)
ExpectedDcid ==
    IF Flow.direction = "AToB"
    THEN flow_states[Flow.key].endpoint_b_scid
    ELSE flow_states[Flow.key].endpoint_a_scid

-----------------------------------------------------------------------------
(* Evaluate. *)

Here == datagram.reading[offset]

Walking(form) ==
    /\ pc = "walk"
    /\ offset < datagram.length
    /\ Here.form = form

Return(disposition, keep) ==
    /\ pc' = "idle"
    /\ result' = [disposition |-> disposition, keep |-> keep]
    /\ UNCHANGED <<flow_states, datagram, offset, saw_long_header, latest>>

Call(d) ==
    /\ pc = "idle"
    /\ pc' = "walk"
    /\ datagram' = d
    /\ offset' = 0
    /\ saw_long_header' = FALSE
    /\ result' = [disposition |-> "none", keep |-> 0]
    /\ UNCHANGED <<flow_states, latest>>

(* Mutant: the length field is trusted. *)
TrustLengthField == Here.wellformed

(* A Retry has no length field and takes the rest of the datagram; any      *)
(* other packet has to end inside the datagram.                             *)
ParseLongHeaderSucceeds ==
    /\ Here.wellformed
    /\ IF Here.retry THEN Here.cids_end <= datagram.length
                     ELSE Here.end <= datagram.length

LongHeaderFails ==
    /\ Walking("long")
    /\ ~ParseLongHeaderSucceeds
    /\ Return("malformed", datagram.length)

(* Empty source connection IDs are not learned. *)
LongHeaderParsed ==
    /\ Walking("long")
    /\ ParseLongHeaderSucceeds
    /\ flow_states' = Learn(Here.scid)
    /\ latest' = [latest EXCEPT ![<<datagram.src, datagram.dst>>] =
                     IF Here.scid = <<>> THEN @ ELSE Known(Here.scid)]
    /\ saw_long_header' = TRUE
    /\ offset' = IF Here.retry THEN datagram.length ELSE Here.end
    /\ UNCHANGED <<pc, datagram, result>>

OnlyLongHeaders ==
    /\ pc = "walk"
    /\ offset = datagram.length
    /\ Return(IF saw_long_header THEN "long_header" ELSE "not_applicable",
              datagram.length)

(* Neither a long nor a short header: padding, or not QUIC at all. *)
NotShort ==
    /\ Walking("other")
    /\ Return(IF saw_long_header THEN "malformed" ELSE "not_applicable",
              datagram.length)

(* Mutant: the long headers in front are not counted. *)
KeepOfShortAlone(n) == IF n <= datagram.length - offset THEN n ELSE datagram.length - offset

(* n bytes of the short header packet, or all of it, behind what precedes it. *)
KeepOfShort(n) ==
    offset + (IF n <= datagram.length - offset THEN n ELSE datagram.length - offset)

AtLeast(n, bound) == IF n >= bound THEN n ELSE bound

(* No connection ID is known for the receiver. *)
ShortUnknown ==
    /\ Walking("short")
    /\ ~ExpectedDcid.known
    /\ IF RequireMatch \/ ~AllowUnknown
       THEN Return("unknown_cid", datagram.length)
       ELSE Return("short_matched", KeepOfShort(AtLeast(KeepBytes, 1)))

StartsWith(body, cid) == Len(cid) <= Len(body) /\ SubSeq(body, 1, Len(cid)) = cid

ShortTruncated ==
    /\ Walking("short")
    /\ ExpectedDcid.known
    /\ Len(ExpectedDcid.bytes) > Len(Here.body)
    /\ Return("malformed", datagram.length)

ShortMismatch ==
    /\ Walking("short")
    /\ ExpectedDcid.known
    /\ Len(ExpectedDcid.bytes) <= Len(Here.body)
    /\ ~StartsWith(Here.body, ExpectedDcid.bytes)
    /\ Return("dcid_mismatch", datagram.length)

ShortMatched ==
    /\ Walking("short")
    /\ ExpectedDcid.known
    /\ StartsWith(Here.body, ExpectedDcid.bytes)
    /\ Return("short_matched",
              KeepOfShort(AtLeast(KeepBytes, 1 + Len(ExpectedDcid.bytes))))

-----------------------------------------------------------------------------
Init ==
    /\ flow_states = [k \in Endpoint \X Endpoint |-> NoFlow]
    /\ pc = "idle"
    /\ datagram \in Datagram
    /\ offset = 0
    /\ saw_long_header = FALSE
    /\ result = [disposition |-> "none", keep |-> 0]
    /\ latest = [k \in Endpoint \X Endpoint |-> Unknown]

Next ==
    \/ \E d \in Datagram : Call(d)
    \/ LongHeaderFails
    \/ LongHeaderParsed
    \/ OnlyLongHeaders
    \/ NotShort
    \/ ShortUnknown
    \/ ShortTruncated
    \/ ShortMismatch
    \/ ShortMatched

Spec == Init /\ [][Next]_vars

-----------------------------------------------------------------------------
(* Properties. *)

(* The types; the walk never leaves the datagram, whatever its length       *)
(* fields say.  A call returns what LiveCapturePolicy counts on             *)
(* (QuicResults there): what is kept lies in the datagram, and is not       *)
(* nothing.                                                                 *)
TypeOK ==
    /\ flow_states \in [Endpoint \X Endpoint -> FlowState]
    /\ pc \in {"idle", "walk"}
    /\ datagram \in Datagram
    /\ offset \in 0 .. datagram.length
    /\ saw_long_header \in BOOLEAN
    /\ result \in [disposition : {"none", "not_applicable", "long_header",
                                  "short_matched", "unknown_cid",
                                  "dcid_mismatch", "malformed"},
                   keep : Nat]
    /\ pc = "idle" => result.keep <= datagram.length
    /\ pc = "idle" /\ result.disposition = "short_matched" => result.keep >= 1
    /\ latest \in [Endpoint \X Endpoint -> LearnedId]

Returned(form) ==
    /\ pc = "idle"
    /\ result.disposition # "none"
    /\ offset < datagram.length
    /\ Here.form = form

(* What the receiver of the datagram has last announced to its sender.      *)
PeerCid == latest[<<datagram.dst, datagram.src>>]

IsMatched ==
    /\ PeerCid.known
    /\ StartsWith(Here.body, PeerCid.bytes)

(* README.md "constricts only matched Short Header packets": a packet is    *)
(* cut only if it starts with the connection ID that its receiver announced *)
(* last to its sender.                                                      *)
OnlyMatchedIsCut ==
    Returned("short") /\ result.keep < datagram.length => IsMatched

(* And every such packet is recognized, whatever other flows, the other     *)
(* direction of this flow, or malformed datagrams have taught in between.   *)
(* Two sockets are needed: a socket that talks to itself has one direction  *)
(* only, in which nothing is expected.                                      *)
MatchedIsFound ==
    /\ Returned("short")
    /\ IsMatched
    /\ datagram.src # datagram.dst
    => result.disposition = "short_matched"

(* A cut keeps all that is in front of the short header packet, and of that *)
(* packet the first byte, the connection ID and as much as configured.      *)
CutKeepsHead ==
    Returned("short") /\ result.keep < datagram.length =>
        /\ offset + KeepBytes <= result.keep
        /\ IsMatched /\ datagram.src # datagram.dst =>
              offset + 1 + Len(PeerCid.bytes) <= result.keep

=============================================================================
