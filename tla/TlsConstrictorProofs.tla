------------------------- MODULE TlsConstrictorProofs -------------------------
(***************************************************************************)
(* Theorems about TlsConstrictor, for every set of directions, every       *)
(* stream, every header size and every configuration.                      *)
(***************************************************************************)
EXTENDS TlsConstrictor, TLAPS

(* What the type proof carries besides TypeOK: the segment lies in its      *)
(* stream and the parse position in the segment.                            *)
TypeInv ==
    /\ TypeOK
    /\ segment.hi <= StreamEnd[segment.dir]
    /\ pc = "parse" => payload_offset <= PayloadLength(segment)

-----------------------------------------------------------------------------
(* Lemmas about the operators. *)

(* What membership in Segment says. *)
LEMMA SegmentFacts ==
    ASSUME NEW s \in Segment
    PROVE  /\ s \in [dir : Direction, lo : Nat, hi : Nat, syn : BOOLEAN, rst : BOOLEAN]
           /\ s.lo <= s.hi
           /\ s.hi <= StreamEnd[s.dir]
           /\ PayloadLength(s) \in Nat
           /\ s.syn /\ ~SynMayCarryData => s.hi = 0
<1>1. PICK d \in Direction :
          s \in [dir : {d}, lo : 0 .. StreamEnd[d], hi : 0 .. StreamEnd[d],
                 syn : BOOLEAN, rst : BOOLEAN]
  BY DEF Segment
<1>2. s.lo <= s.hi /\ (s.syn /\ ~SynMayCarryData => s.hi = 0)
  BY DEF Segment
<1>3. QED
  BY <1>1, <1>2, StreamAssumption DEF PayloadLength

(* Sequence numbers stay natural numbers below SeqMod. *)
LEMMA AdvanceType ==
    ASSUME NEW seq \in 0 .. (SeqMod - 1), NEW n \in Nat, n < SeqMod
    PROVE  AdvanceTcpSeq(seq, n) \in 0 .. (SeqMod - 1)
  BY SizeAssumption DEF AdvanceTcpSeq

LEMMA TcpSeqType ==
    ASSUME NEW s \in [dir : Direction, lo : Nat, hi : Nat, syn : BOOLEAN, rst : BOOLEAN],
           s.lo <= s.hi,
           s.hi <= StreamEnd[s.dir]
    PROVE  /\ TcpSeq(s) \in 0 .. (SeqMod - 1)
           /\ AdvanceTcpSeq(TcpSeq(s), PayloadLength(s)) \in Nat
<1>1. /\ Isn[s.dir] \in 0 .. (SeqMod - 1)
      /\ StreamEnd[s.dir] \in Nat /\ StreamEnd[s.dir] + 1 < SeqMod
      /\ SeqMod \in Nat
  BY StreamAssumption, SizeAssumption
<1>2. TcpSeq(s) \in 0 .. (SeqMod - 1)
  <2>1. ASSUME NEW isn \in 0 .. (SeqMod - 1), NEW n \in Nat, n < SeqMod
        PROVE  AdvanceTcpSeq(isn, n) \in 0 .. (SeqMod - 1)
    BY <2>1, AdvanceType
  <2> DEFINE n == s.lo + 1
  <2>3. n \in Nat /\ n < SeqMod
    BY <1>1
  <2> HIDE DEF n
  <2>4. AdvanceTcpSeq(Isn[s.dir], n) \in 0 .. (SeqMod - 1)
    BY <1>1, <2>1, <2>3
  <2>2. QED
    BY <1>1, <2>4 DEF TcpSeq, SeqOf, n
<1>3. PayloadLength(s) \in Nat /\ PayloadLength(s) < SeqMod
  BY <1>1 DEF PayloadLength
<1>4. AdvanceTcpSeq(TcpSeq(s), PayloadLength(s)) \in 0 .. (SeqMod - 1)
  BY <1>2, <1>3, AdvanceType
<1>5. QED
  BY <1>1, <1>2, <1>4

LEMMA NoStateType == NoState \in DirectionState
  BY DEF NoState, DirectionState

(* The entry of Evaluate leaves well-typed states. *)
LEMMA EntryType ==
    ASSUME NEW s \in Segment,
           directions \in [Direction -> DirectionState]
    PROVE  /\ EraseOnSynRst(s) \in [Direction -> DirectionState]
           /\ EntryState(s) \in DirectionState
<1>1. EraseOnSynRst(s) \in [Direction -> DirectionState]
  BY NoStateType DEF EraseOnSynRst
<1>2. ASSUME NEW state \in DirectionState, NEW seq
      PROVE  CheckSequence(state, seq) \in DirectionState
  BY DEF CheckSequence, ClearActiveRecord, DirectionState
<1>3. s.dir \in Direction
  BY SegmentFacts
<1>4. QED
  BY <1>1, <1>2, <1>3 DEF EntryState

LEMMA ClearType ==
    ASSUME NEW state \in DirectionState
    PROVE  ClearActiveRecord(state) \in DirectionState
  BY DEF ClearActiveRecord, DirectionState

LEMMA ClampType ==
    ASSUME NEW m \in Nat, NEW n \in Nat
    PROVE  /\ ClampedKeepSize(m, n) \in Nat
           /\ ClampedKeepSize(m, n) <= n
           /\ ClampedKeepSize(m, n) <= m
  BY DEF ClampedKeepSize

(* Accepting a header keeps the states well typed. *)
LEMMA AcceptType ==
    ASSUME directions \in [Direction -> DirectionState],
           Key \in Direction,
           NEW h
    PROVE  Accept(h) \in [Direction -> DirectionState]
<1>1. Reverse[Key] \in Direction
  BY DirectionAssumption
<1>2. QED
  BY <1>1 DEF Accept, DirectionState

(* What a header that was read looks like. *)
LEMMA HeaderFacts ==
    ASSUME NEW d \in Direction, NEW p \in DOMAIN Header[d]
    PROVE  /\ p \in Nat
           /\ Header[d][p].size \in Nat
           /\ Header[d][p].size >= HeaderSize
           /\ HeaderSize \in Nat /\ HeaderSize >= 1
  BY StreamAssumption, SizeAssumption

-----------------------------------------------------------------------------
(* Type correctness. *)

LEMMA TypeInit == Init => TypeInv
<1> SUFFICES ASSUME Init PROVE TypeInv
  OBVIOUS
<1>0. PICK d \in Direction :
          segment = [dir |-> d, lo |-> 0, hi |-> 0, syn |-> FALSE, rst |-> FALSE]
  BY DEF Init
<1>1. /\ segment \in [dir : Direction, lo : Nat, hi : Nat, syn : BOOLEAN, rst : BOOLEAN]
      /\ segment.lo = 0 /\ segment.hi = 0
  BY <1>0
<1>2. StreamEnd[segment.dir] \in Nat
  BY <1>1, StreamAssumption
<1>3. directions \in [Direction -> DirectionState]
  BY NoStateType DEF Init
<1>4. result \in [disposition : {"none", "no_record", "no_application_data",
                                 "malformed", "app_data_prefix"},
                  keep : Nat]
  BY DEF Init
<1>5. handshakeSeen \in [Direction -> BOOLEAN]
  BY DEF Init
<1>6. /\ pc = "idle" /\ payload_offset = 0 /\ candidate_payload_size = 0
      /\ confirmed_tls \in BOOLEAN /\ outcome = "scan"
  BY DEF Init
<1>7. result.keep <= PayloadLength(segment) /\ ~Cut
  BY <1>1 DEF Init, PayloadLength, Cut
<1>8. QED
  BY <1>1, <1>2, <1>3, <1>4, <1>5, <1>6, <1>7 DEF TypeInv, TypeOK

(* Every call with payload: the part of TypeInv that Enter decides. *)
LEMMA EnterType ==
    ASSUME TypeInv, NEW s \in Segment, NEW state \in DirectionState, Enter(s, state)
    PROVE  /\ directions' \in [Direction -> DirectionState]
           /\ pc' = "parse"
           /\ segment' = s
           /\ confirmed_tls' \in BOOLEAN
           /\ result' = result
           /\ handshakeSeen' \in [Direction -> BOOLEAN]
<1>1. /\ EraseOnSynRst(s) \in [Direction -> DirectionState]
      /\ EntryState(s) \in DirectionState
  BY EntryType DEF TypeInv, TypeOK, Cut
<1>2. s.dir \in Direction
  BY SegmentFacts
<1>3. directions' \in [Direction -> DirectionState]
  BY <1>1, <1>2 DEF Enter
<1>4. confirmed_tls' \in BOOLEAN
  BY <1>1 DEF Enter, DirectionState
<1>5. handshakeSeen' \in [Direction -> BOOLEAN]
  BY DEF Enter, Observe
<1>6. QED
  BY <1>3, <1>4, <1>5 DEF Enter

(* Every step that returns from the loop. *)
LEMMA ReturnType ==
    ASSUME TypeInv,
           directions' \in [Direction -> DirectionState],
           NEW disposition \in {"no_record", "no_application_data",
                                "malformed", "app_data_prefix"},
           NEW keep \in Nat, keep <= PayloadLength(segment),
           disposition = "app_data_prefix" => keep < PayloadLength(segment),
           Return(disposition, keep)
    PROVE  TypeInv'
  BY DEF TypeInv, TypeOK, Return, Cut, locals, PayloadLength

LEMMA TypeStep == TypeInv /\ [Next]_vars => TypeInv'
<1> SUFFICES ASSUME TypeInv, [Next]_vars PROVE TypeInv'
  OBVIOUS
<1>1. /\ directions \in [Direction -> DirectionState]
      /\ segment \in [dir : Direction, lo : Nat, hi : Nat, syn : BOOLEAN, rst : BOOLEAN]
      /\ segment.lo <= segment.hi
      /\ segment.hi <= StreamEnd[segment.dir]
      /\ PayloadLength(segment) \in Nat
      /\ payload_offset \in Nat
      /\ pc = "parse" => payload_offset <= PayloadLength(segment)
      /\ candidate_payload_size \in Nat
      /\ Key \in Direction
  BY DEF TypeInv, TypeOK, Cut, Key, PayloadLength
<1>2. ASSUME NEW s \in Segment, EvaluateEmpty(s) PROVE TypeInv'
  <2>1. directions' \in [Direction -> DirectionState]
    BY <1>1, <1>2, EntryType DEF EvaluateEmpty
  <2>2. handshakeSeen' \in [Direction -> BOOLEAN]
    BY <1>2 DEF EvaluateEmpty, Observe
  <2>3. payload_offset' = 0 \/ payload_offset' = payload_offset
    BY <1>2 DEF EvaluateEmpty, locals
  <2>4. QED
    BY <1>2, <2>1, <2>2, SegmentFacts DEF EvaluateEmpty, TypeInv, TypeOK, Cut, locals
<1>3. ASSUME NEW s \in Segment, BeginAtRecord(s) PROVE TypeInv'
  <2>1. EntryState(s) \in DirectionState
    BY <1>1, EntryType
  <2>2. Enter(s, EntryState(s))
    BY <1>3 DEF BeginAtRecord
  <2>3. QED
    BY <1>3, <2>1, <2>2, EnterType, SegmentFacts DEF BeginAtRecord, TypeInv, TypeOK, Cut
<1>4. ASSUME NEW s \in Segment, ContinueMiddle(s) PROVE TypeInv'
  <2> DEFINE state == EntryState(s)
             next == [state EXCEPT !.active_record_remaining_bytes =
                                       @ - PayloadLength(s)]
  <2>1. state \in DirectionState /\ PayloadLength(s) \in Nat
    BY <1>1, EntryType, SegmentFacts
  <2>2. Enter(s, next) /\ state.active_record_remaining_bytes > PayloadLength(s)
    BY <1>4 DEF ContinueMiddle
  <2>3. next \in DirectionState
    BY <2>1, <2>2 DEF DirectionState
  <2>4. payload_offset' = PayloadLength(s) /\ candidate_payload_size' = PayloadLength(s)
        /\ outcome' \in {"scan", "middle"}
    BY <1>4 DEF ContinueMiddle
  <2> HIDE DEF state, next
  <2>5. QED
    BY <2>1, <2>2, <2>3, <2>4, EnterType, SegmentFacts DEF TypeInv, TypeOK, Cut
<1>5. ASSUME NEW s \in Segment, ContinueFinal(s) PROVE TypeInv'
  <2>1. EntryState(s) \in DirectionState /\ PayloadLength(s) \in Nat
    BY <1>1, EntryType, SegmentFacts
  <2>2. ClearActiveRecord(EntryState(s)) \in DirectionState
    BY <2>1, ClearType
  <2>3. Enter(s, ClearActiveRecord(EntryState(s)))
    BY <1>5 DEF ContinueFinal
  <2>4. ClampedKeepSize(ContinuationKeep, PayloadLength(s)) \in Nat
    BY <2>1, ClampType, SizeAssumption
  <2>5. payload_offset' = PayloadLength(s) /\ candidate_payload_size' \in Nat
        /\ outcome' = "scan"
    BY <1>5, <2>1, <2>4 DEF ContinueFinal
  <2>6. QED
    BY <2>1, <2>2, <2>3, <2>5, EnterType, SegmentFacts DEF TypeInv, TypeOK, Cut
<1>6. ASSUME NEW s \in Segment, ContinueAndMore(s) PROVE TypeInv'
  <2>1. EntryState(s) \in DirectionState /\ PayloadLength(s) \in Nat
    BY <1>1, EntryType, SegmentFacts
  <2>2. ClearActiveRecord(EntryState(s)) \in DirectionState
    BY <2>1, ClearType
  <2>3. Enter(s, ClearActiveRecord(EntryState(s)))
    BY <1>6 DEF ContinueAndMore
  <2>4. EntryState(s).active_record_remaining_bytes \in Nat
    BY <2>1 DEF DirectionState
  <2>5. payload_offset' \in Nat /\ payload_offset' <= PayloadLength(s)
        /\ candidate_payload_size' = PayloadLength(s)
        /\ outcome' \in {"scan", "reset"}
    BY <1>6, <2>1, <2>4 DEF ContinueAndMore
  <2>6. QED
    BY <2>1, <2>2, <2>3, <2>5, EnterType, SegmentFacts DEF TypeInv, TypeOK, Cut
<1>7. CASE ParseNoHeaderUnsynchronized
  <2>1. directions' \in [Direction -> DirectionState]
    BY <1>1, <1>7, NoStateType DEF ParseNoHeaderUnsynchronized
  <2>2. Return("no_record", PayloadLength(segment))
    BY <1>7 DEF ParseNoHeaderUnsynchronized
  <2>3. QED
    BY <1>1, <2>1, <2>2, ReturnType
<1>8. CASE ParseNoHeaderSynchronized
  BY <1>8 DEF ParseNoHeaderSynchronized, TypeInv, TypeOK, Cut, PayloadLength
<1>9. CASE ParseRejected
  <2>1. directions' \in [Direction -> DirectionState]
    BY <1>1, <1>9, NoStateType DEF ParseRejected
  <2>2. Return("no_record", PayloadLength(segment))
    BY <1>9 DEF ParseRejected
  <2>3. QED
    BY <1>1, <2>1, <2>2, ReturnType
<1>10. ASSUME ParseOpenRecord \/ ParseWholeRecord PROVE TypeInv'
  <2> DEFINE h == Header[Key][Position]
  <2>1. ParseAccepted(h)
    BY <1>10 DEF ParseOpenRecord, ParseWholeRecord
  <2>2. Position \in DOMAIN Header[Key] /\ payload_offset < PayloadLength(segment)
    BY <2>1 DEF ParseAccepted, ReadsHeader, Key, Scanning
  <2>3. h.size \in Nat /\ h.size >= 1
    BY <1>1, <2>2, HeaderFacts
  <2>4. RemainingPayload \in Nat
    BY <1>1, <2>2 DEF RemainingPayload
  <2>5. Accept(h) \in [Direction -> DirectionState]
    BY <1>1, AcceptType
  <2>6. candidate_payload_size' \in Nat
    <3>1. RecordCandidate(h) \in Nat
      BY <1>1, <2>3, <2>4, ClampType, SizeAssumption DEF RecordCandidate
    <3>2. QED
      BY <1>1, <2>1, <3>1 DEF ParseAccepted
  <2>7. UNCHANGED <<pc, segment, confirmed_tls, outcome, result, handshakeSeen>>
    BY <2>1 DEF ParseAccepted
  <2>8. CASE ParseOpenRecord
    <3>1. h.size > RemainingPayload /\ payload_offset' = PayloadLength(segment)
      BY <2>8 DEF ParseOpenRecord
    <3> DEFINE state == [Accept(h)[Key] EXCEPT
                 !.has_active_record = TRUE,
                 !.active_record_remaining_bytes = h.size - RemainingPayload,
                 !.active_record_constrictible = (h.type = "application_data")]
    <3>2. directions' = [Accept(h) EXCEPT ![Key] = state]
      BY <2>8 DEF ParseOpenRecord
    <3>3. h.size - RemainingPayload \in Nat
      BY <2>3, <2>4, <3>1
    <3>4. state \in DirectionState
      BY <1>1, <2>5, <3>3 DEF DirectionState
    <3> HIDE DEF state
    <3>5. directions' \in [Direction -> DirectionState]
      BY <1>1, <2>5, <3>2, <3>4
    <3>6. QED
      BY <1>1, <2>6, <2>7, <3>1, <3>5 DEF TypeInv, TypeOK, Cut, PayloadLength
  <2>9. CASE ParseWholeRecord
    <3>1. h.size <= RemainingPayload /\ payload_offset' = payload_offset + h.size
          /\ directions' = Accept(h)
      BY <2>9 DEF ParseWholeRecord
    <3>2. payload_offset' \in Nat /\ payload_offset' <= PayloadLength(segment)
      BY <1>1, <2>3, <3>1 DEF RemainingPayload
    <3>3. QED
      BY <1>1, <2>5, <2>6, <2>7, <3>1, <3>2 DEF TypeInv, TypeOK, Cut, PayloadLength
  <2>10. QED
    BY <1>10, <2>8, <2>9
<1>11. CASE ConcludeReset
  <2>1. directions' \in [Direction -> DirectionState]
    BY <1>1, <1>11 DEF ConcludeReset, NoState, DirectionState
  <2>2. Return("no_application_data", PayloadLength(segment))
    BY <1>11 DEF ConcludeReset
  <2>3. QED
    BY <1>1, <2>1, <2>2, ReturnType
<1>12. CASE Conclude
  <2>1. NextExpectedSeq \in Nat
    BY <1>1, TcpSeqType DEF NextExpectedSeq
  <2>2. directions' \in [Direction -> DirectionState]
    BY <1>1, <1>12, <2>1 DEF Conclude, DirectionState
  <2>3. \E disposition \in {"no_record", "no_application_data",
                            "malformed", "app_data_prefix"}, keep \in Nat :
            /\ keep <= PayloadLength(segment)
            /\ disposition = "app_data_prefix" => keep < PayloadLength(segment)
            /\ Return(disposition, keep)
    BY <1>1, <1>12 DEF Conclude, IsCut
  <2>4. QED
    BY <2>2, <2>3, ReturnType
<1>13. CASE UNCHANGED vars
  BY <1>13 DEF vars, locals, TypeInv, TypeOK, Cut, PayloadLength
<1>14. QED
  BY <1>2, <1>3, <1>4, <1>5, <1>6, <1>7, <1>8, <1>9, <1>10, <1>11, <1>12, <1>13
     DEF Next, Call, Compute

(* The state is well typed: above all, the unsigned count of bytes that     *)
(* remain in an active record never wraps below zero.                       *)
THEOREM TypeCorrect == Spec => []TypeOK
<1>1. Init => TypeInv
  BY TypeInit
<1>2. TypeInv /\ [Next]_vars => TypeInv'
  BY TypeStep
<1>3. TypeInv => TypeOK
  BY DEF TypeInv
<1>4. QED
  BY <1>1, <1>2, <1>3, PTL DEF Spec
-----------------------------------------------------------------------------
(* Nothing is cut without a handshake.  The inductive invariant ties each   *)
(* confirmation to the history, and synchronization to confirmation.        *)

Seen(d) == handshakeSeen[d] \/ handshakeSeen[Reverse[d]]

HandshakeInv ==
    /\ \A d \in Direction : directions[d].synchronized => directions[d].confirmed_tls
    /\ \A d \in Direction : directions[d].confirmed_tls => Seen(d)
    /\ pc = "parse" => (confirmed_tls => directions[Key].confirmed_tls)
    /\ pc = "parse" => (CarriesHandshake(segment) => handshakeSeen[Key])
    /\ CutNeedsHandshake

(* A connection that is not erased keeps its history, in both directions.   *)
LEMMA EraseHandshake ==
    ASSUME TypeInv, HandshakeInv, NEW s \in Segment, Observe(s)
    PROVE  \A d \in Direction :
               /\ EraseOnSynRst(s)[d].synchronized => EraseOnSynRst(s)[d].confirmed_tls
               /\ EraseOnSynRst(s)[d].confirmed_tls => Seen(d)'
<1> TAKE d \in Direction
<1>1. s.dir \in Direction
  BY SegmentFacts
<1>2. /\ Reverse[d] \in Direction /\ Reverse[Reverse[d]] = d
      /\ Reverse[s.dir] \in Direction /\ Reverse[Reverse[s.dir]] = s.dir
  BY <1>1, DirectionAssumption
<1>3. CASE (s.syn \/ s.rst) /\ d \in {s.dir, Reverse[s.dir]}
  <2>1. EraseOnSynRst(s)[d] = NoState
    BY <1>3 DEF EraseOnSynRst
  <2>2. QED
    BY <2>1 DEF NoState
<1>4. CASE ~((s.syn \/ s.rst) /\ d \in {s.dir, Reverse[s.dir]})
  <2>1. EraseOnSynRst(s)[d] = directions[d]
    BY <1>4 DEF EraseOnSynRst
  <2>2. ~((s.syn \/ s.rst) /\ Reverse[d] \in {s.dir, Reverse[s.dir]})
    BY <1>2, <1>4
  <2>3. handshakeSeen[d] => handshakeSeen'[d]
    BY <1>4 DEF Observe
  <2>4. handshakeSeen[Reverse[d]] => handshakeSeen'[Reverse[d]]
    BY <1>2, <2>2 DEF Observe
  <2>5. QED
    BY <2>1, <2>3, <2>4 DEF HandshakeInv, Seen
<1>5. QED
  BY <1>3, <1>4

(* The entry of Evaluate neither confirms a direction nor synchronizes it.  *)
LEMMA EntryConfirms ==
    ASSUME TypeInv, NEW s \in Segment
    PROVE  /\ EntryState(s).confirmed_tls = EraseOnSynRst(s)[s.dir].confirmed_tls
           /\ EntryState(s).synchronized => EraseOnSynRst(s)[s.dir].synchronized
<1>1. EraseOnSynRst(s)[s.dir] \in DirectionState
  BY EntryType, SegmentFacts DEF TypeInv, TypeOK
<1>2. QED
  BY <1>1 DEF EntryState, CheckSequence, ClearActiveRecord, DirectionState

LEMMA EnterHandshake ==
    ASSUME TypeInv, HandshakeInv,
           NEW s \in Segment, NEW state \in DirectionState,
           Enter(s, state),
           state.confirmed_tls = EntryState(s).confirmed_tls,
           state.synchronized => EntryState(s).synchronized
    PROVE  HandshakeInv'
<1>1. /\ pc' = "parse" /\ segment' = s /\ Observe(s)
      /\ directions' = [EraseOnSynRst(s) EXCEPT ![s.dir] = state]
      /\ confirmed_tls' = EntryState(s).confirmed_tls
  BY DEF Enter
<1>2. s.dir \in Direction /\ EraseOnSynRst(s) \in [Direction -> DirectionState]
  BY SegmentFacts, EntryType DEF TypeInv, TypeOK
<1>3. \A d \in Direction :
          /\ EraseOnSynRst(s)[d].synchronized => EraseOnSynRst(s)[d].confirmed_tls
          /\ EraseOnSynRst(s)[d].confirmed_tls => Seen(d)'
  BY <1>1, EraseHandshake
<1>4. /\ state.synchronized => state.confirmed_tls
      /\ state.confirmed_tls => Seen(s.dir)'
  BY <1>2, <1>3, EntryConfirms
<1>5. \A d \in Direction :
          /\ directions'[d].synchronized => directions'[d].confirmed_tls
          /\ directions'[d].confirmed_tls => Seen(d)'
  BY <1>1, <1>2, <1>3, <1>4
<1>6. confirmed_tls' => directions'[s.dir].confirmed_tls
  BY <1>1, <1>2
<1>7. CarriesHandshake(s) => handshakeSeen'[s.dir]
  BY <1>1, <1>2 DEF Observe
<1>8. (CarriesHandshake(segment) => handshakeSeen[Key])'
  BY <1>1, <1>7 DEF Key, CarriesHandshake, ReadsHeader
<1>9. QED
  BY <1>1, <1>5, <1>6, <1>8 DEF HandshakeInv, CutNeedsHandshake, Cut, Key

(* A step that returns keeps the invariant if it confirms and synchronizes  *)
(* nothing, and cuts a confirmed direction only.                            *)
LEMMA ReturnHandshake ==
    ASSUME TypeInv, HandshakeInv,
           NEW disposition, NEW keep, Return(disposition, keep),
           \A d \in Direction :
               /\ directions'[d].synchronized => directions'[d].confirmed_tls
               /\ directions'[d].confirmed_tls => directions[d].confirmed_tls,
           disposition = "app_data_prefix" => directions[Key].confirmed_tls
    PROVE  HandshakeInv'
<1>1. /\ pc' = "idle" /\ segment' = segment /\ handshakeSeen' = handshakeSeen
      /\ result' = [disposition |-> disposition, keep |-> keep]
  BY DEF Return
<1>2. Key \in Direction
  BY DEF TypeInv, TypeOK, Key
<1>3. disposition = "app_data_prefix" => Seen(Key)
  BY <1>2 DEF HandshakeInv
<1>4. CutNeedsHandshake'
  BY <1>1, <1>3 DEF CutNeedsHandshake, Cut, Seen, Key
<1>5. \A d \in Direction : directions'[d].confirmed_tls => Seen(d)'
  BY <1>1 DEF HandshakeInv, Seen
<1>6. QED
  BY <1>1, <1>4, <1>5 DEF HandshakeInv

LEMMA HandshakeStep == TypeInv /\ HandshakeInv /\ [Next]_vars => HandshakeInv'
<1> SUFFICES ASSUME TypeInv, HandshakeInv, [Next]_vars PROVE HandshakeInv'
  OBVIOUS
<1>1. /\ directions \in [Direction -> DirectionState]
      /\ Key \in Direction
      /\ Reverse[Key] \in Direction /\ Reverse[Reverse[Key]] = Key
  BY DirectionAssumption DEF TypeInv, TypeOK, Key
<1>2. ASSUME NEW s \in Segment, EvaluateEmpty(s) PROVE HandshakeInv'
  <2>1. \A d \in Direction :
            /\ EraseOnSynRst(s)[d].synchronized => EraseOnSynRst(s)[d].confirmed_tls
            /\ EraseOnSynRst(s)[d].confirmed_tls => Seen(d)'
    BY <1>2, EraseHandshake DEF EvaluateEmpty
  <2>2. /\ directions' = EraseOnSynRst(s) /\ pc' = "idle"
        /\ result'.disposition = "no_application_data"
    BY <1>2 DEF EvaluateEmpty
  <2>3. QED
    BY <2>1, <2>2 DEF HandshakeInv, CutNeedsHandshake, Cut
<1>3. ASSUME NEW s \in Segment,
             \/ BeginAtRecord(s)
             \/ ContinueMiddle(s)
             \/ ContinueFinal(s)
             \/ ContinueAndMore(s)
      PROVE  HandshakeInv'
  <2> DEFINE entry == EntryState(s)
  <2>1. entry \in DirectionState /\ PayloadLength(s) \in Nat
    BY <1>1, EntryType, SegmentFacts
  <2>2. CASE BeginAtRecord(s)
    <3>1. Enter(s, entry)
      BY <2>2 DEF BeginAtRecord
    <3> HIDE DEF entry
    <3>2. QED
      BY <2>1, <3>1, EnterHandshake DEF entry
  <2>3. CASE ContinueMiddle(s)
    <3> DEFINE next == [entry EXCEPT !.active_record_remaining_bytes =
                                         @ - PayloadLength(s)]
    <3>1. Enter(s, next) /\ entry.active_record_remaining_bytes > PayloadLength(s)
      BY <2>3 DEF ContinueMiddle
    <3>2. /\ next \in DirectionState
          /\ next.confirmed_tls = entry.confirmed_tls
          /\ next.synchronized => entry.synchronized
      BY <2>1, <3>1 DEF DirectionState
    <3> HIDE DEF next
    <3>3. QED
      BY <3>1, <3>2, EnterHandshake
  <2>4. CASE ContinueFinal(s) \/ ContinueAndMore(s)
    <3> DEFINE next == ClearActiveRecord(entry)
    <3>1. Enter(s, next)
      BY <2>4 DEF ContinueFinal, ContinueAndMore
    <3>2. /\ next \in DirectionState
          /\ next.confirmed_tls = entry.confirmed_tls
          /\ next.synchronized => entry.synchronized
      BY <2>1 DEF DirectionState, ClearActiveRecord
    <3> HIDE DEF next
    <3>3. QED
      BY <3>1, <3>2, EnterHandshake
  <2>5. QED
    BY <1>3, <2>2, <2>3, <2>4
<1>4. CASE ParseNoHeaderUnsynchronized
  <2>1. directions' = directions \/ directions' = [directions EXCEPT ![Key] = NoState]
    BY <1>4 DEF ParseNoHeaderUnsynchronized
  <2>2. \A d \in Direction :
            /\ directions'[d].synchronized => directions'[d].confirmed_tls
            /\ directions'[d].confirmed_tls => directions[d].confirmed_tls
    BY <1>1, <2>1 DEF HandshakeInv, NoState
  <2>3. Return("no_record", PayloadLength(segment))
    BY <1>4 DEF ParseNoHeaderUnsynchronized
  <2>4. QED
    BY <2>2, <2>3, ReturnHandshake
<1>5. CASE ParseNoHeaderSynchronized
  BY <1>5 DEF ParseNoHeaderSynchronized, HandshakeInv, CutNeedsHandshake, Cut, Seen,
              Key, CarriesHandshake, ReadsHeader
<1>6. CASE ParseRejected
  <2>1. directions' = [directions EXCEPT ![Key] = NoState]
    BY <1>6 DEF ParseRejected
  <2>2. \A d \in Direction :
            /\ directions'[d].synchronized => directions'[d].confirmed_tls
            /\ directions'[d].confirmed_tls => directions[d].confirmed_tls
    BY <1>1, <2>1 DEF HandshakeInv, NoState
  <2>3. Return("no_record", PayloadLength(segment))
    BY <1>6 DEF ParseRejected
  <2>4. QED
    BY <2>2, <2>3, ReturnHandshake
<1>7. ASSUME ParseOpenRecord \/ ParseWholeRecord PROVE HandshakeInv'
  <2> DEFINE h == Header[Key][Position]
  <2>1. /\ ParseAccepted(h)
        /\ UNCHANGED <<pc, segment, confirmed_tls, handshakeSeen>>
        /\ pc = "parse"
    BY <1>7 DEF ParseOpenRecord, ParseWholeRecord, ParseAccepted, Scanning
  <2>2. \A d \in Direction :
            /\ directions'[d].synchronized = Accept(h)[d].synchronized
            /\ directions'[d].confirmed_tls = Accept(h)[d].confirmed_tls
    <3>1. Accept(h) \in [Direction -> DirectionState]
      BY <1>1, AcceptType
    <3>2. CASE ParseWholeRecord
      BY <3>2 DEF ParseWholeRecord
    <3>3. CASE ParseOpenRecord
      <4> DEFINE state == [Accept(h)[Key] EXCEPT
                   !.has_active_record = TRUE,
                   !.active_record_remaining_bytes = h.size - RemainingPayload,
                   !.active_record_constrictible = (h.type = "application_data")]
      <4>1. directions' = [Accept(h) EXCEPT ![Key] = state]
        BY <3>3 DEF ParseOpenRecord
      <4>2. /\ state.synchronized = Accept(h)[Key].synchronized
            /\ state.confirmed_tls = Accept(h)[Key].confirmed_tls
        BY <1>1, <3>1 DEF DirectionState
      <4> HIDE DEF state
      <4>3. QED
        BY <1>1, <3>1, <4>1, <4>2
    <3>4. QED
      BY <1>7, <3>2, <3>3
  <2>3. \A d \in Direction :
            /\ Accept(h)[d].synchronized = (directions[d].synchronized \/ d = Key)
            /\ Accept(h)[d].confirmed_tls =
                   (\/ directions[d].confirmed_tls
                    \/ h.type = "handshake" /\ d \in {Key, Reverse[Key]})
    BY <1>1 DEF Accept, DirectionState
  <2>4. h.type = "handshake" => handshakeSeen[Key]
    <3>1. ReadsHeader(segment, Position) /\ payload_offset \in Nat /\ segment.lo \in Nat
      BY <2>1 DEF ParseAccepted, TypeInv, TypeOK
    <3>2. segment.lo <= Position
      BY <3>1 DEF Position
    <3>3. h.type = "handshake" => CarriesHandshake(segment)
      BY <3>1, <3>2 DEF CarriesHandshake, ReadsHeader, Key
    <3>4. QED
      BY <2>1, <3>3 DEF HandshakeInv
  <2>5. Accepted(h) /\ (confirmed_tls => directions[Key].confirmed_tls)
    BY <2>1 DEF ParseAccepted, HandshakeInv
  <2>6. \A d \in Direction : directions'[d].synchronized => directions'[d].confirmed_tls
    BY <1>1, <2>2, <2>3, <2>5 DEF Accepted, HandshakeInv
  <2>7. \A d \in Direction : directions'[d].confirmed_tls => Seen(d)'
    BY <1>1, <2>1, <2>2, <2>3, <2>4 DEF HandshakeInv, Seen
  <2>8. confirmed_tls' => directions'[Key].confirmed_tls
    BY <1>1, <2>1, <2>2, <2>3, <2>5
  <2>9. QED
    BY <2>1, <2>6, <2>7, <2>8 DEF HandshakeInv, CutNeedsHandshake, Cut, Key,
                                  CarriesHandshake, ReadsHeader
<1>8. CASE ConcludeReset
  <2>1. directions' = [directions EXCEPT
            ![Key] = [NoState EXCEPT !.confirmed_tls = directions[Key].confirmed_tls]]
    BY <1>8 DEF ConcludeReset
  <2>2. \A d \in Direction :
            /\ directions'[d].synchronized => directions'[d].confirmed_tls
            /\ directions'[d].confirmed_tls => directions[d].confirmed_tls
    BY <1>1, <2>1 DEF HandshakeInv, NoState
  <2>3. Return("no_application_data", PayloadLength(segment))
    BY <1>8 DEF ConcludeReset
  <2>4. QED
    BY <2>2, <2>3, ReturnHandshake
<1>9. CASE Conclude
  <2>1. directions' = [directions EXCEPT ![Key].expected_tcp_seq = NextExpectedSeq]
    BY <1>9 DEF Conclude
  <2>2. \A d \in Direction :
            /\ directions'[d].synchronized => directions'[d].confirmed_tls
            /\ directions'[d].confirmed_tls => directions[d].confirmed_tls
    BY <1>1, <2>1 DEF HandshakeInv, DirectionState
  <2>3. PICK disposition, keep :
            /\ Return(disposition, keep)
            /\ disposition = "app_data_prefix" => IsCut
    BY <1>9 DEF Conclude
  <2>4. IsCut => directions[Key].confirmed_tls
    BY <1>1 DEF IsCut, HandshakeInv
  <2>5. QED
    BY <2>2, <2>3, <2>4, ReturnHandshake
<1>10. CASE UNCHANGED vars
  BY <1>10 DEF vars, locals, HandshakeInv, CutNeedsHandshake, Cut, Seen,
               Key, CarriesHandshake, ReadsHeader
<1>11. QED
  BY <1>2, <1>3, <1>4, <1>5, <1>6, <1>7, <1>8, <1>9, <1>10 DEF Next, Call, Compute

(* No packet is shortened on a connection that has shown no TLS handshake   *)
(* header since its last SYN or RST, whatever the streams contain.          *)
THEOREM CutsAreConfirmed == Spec => []CutNeedsHandshake
<1>1. ASSUME Init PROVE TypeInv /\ HandshakeInv
  <2>1. pc = "idle" /\ result.disposition = "none"
    BY <1>1 DEF Init
  <2>2. \A d \in Direction : directions[d] = NoState
    BY <1>1 DEF Init
  <2>3. ~NoState.synchronized /\ ~NoState.confirmed_tls
    BY DEF NoState
  <2>4. QED
    BY <1>1, <2>1, <2>2, <2>3, TypeInit DEF HandshakeInv, CutNeedsHandshake, Cut
<1>2. TypeInv /\ HandshakeInv /\ [Next]_vars => (TypeInv /\ HandshakeInv)'
  BY TypeStep, HandshakeStep
<1>3. HandshakeInv => CutNeedsHandshake
  BY DEF HandshakeInv
<1>4. QED
  BY <1>1, <1>2, <1>3, PTL DEF Spec
-----------------------------------------------------------------------------
(* Alignment with the stream, for clean streams.                            *)

(* The state remembers the record that spans position p: how much of it is  *)
(* left behind p, and its kind.                                             *)
ActiveAt(d, state, p) ==
    \E s \in RecordStart[d] :
        /\ Inside(d, s, p)
        /\ state.active_record_remaining_bytes = RecordEnd(d, s) - p
        /\ state.active_record_constrictible = IsAppData(d, s)

(* Outside the call in progress every active record is where the next       *)
(* expected byte is.                                                        *)
RestAligned ==
    \A d \in Direction :
        /\ pc = "idle" \/ d # Key
        /\ directions[d].has_active_record
        => /\ directions[d].synchronized
           /\ \E p \in Nat :
                 /\ p <= StreamEnd[d]
                 /\ directions[d].expected_tcp_seq = SeqOf(d, p)
                 /\ ActiveAt(d, directions[d], p)

(* Inside the call, an active record is one that the segment leaves open.   *)
OpenAligned ==
    pc = "parse" /\ directions[Key].has_active_record =>
        /\ directions[Key].synchronized
        /\ payload_offset = PayloadLength(segment)
        /\ ActiveAt(Key, directions[Key], segment.hi)

(* The candidate keeps the heads of the records already parsed.             *)
HeadsKept ==
    pc = "parse" /\ outcome = "scan" =>
        /\ candidate_payload_size <= PayloadLength(segment)
        /\ \A s \in RecordStart[Key] :
              segment.lo <= s /\ s < Position /\ IsAppData(Key, s) =>
                  ClampedKeepSize(s + AppDataKeep,
                                  ClampedKeepSize(RecordEnd(Key, s), segment.hi))
                    <= segment.lo + candidate_payload_size

(* A segment that starts inside application data has a candidate only if it *)
(* ends where the record ends.                                              *)
ContinuationKept ==
    pc = "parse" /\ outcome = "scan" =>
        \A s \in RecordStart[Key] :
            Inside(Key, s, segment.lo) /\ IsAppData(Key, s) =>
                \/ /\ candidate_payload_size = PayloadLength(segment)
                   /\ payload_offset \in {0, PayloadLength(segment)}
                \/ /\ payload_offset = PayloadLength(segment)
                   /\ segment.hi = RecordEnd(Key, s)
                   /\ candidate_payload_size =
                          ClampedKeepSize(ContinuationKeep, PayloadLength(segment))

(* A segment that starts with a record synchronizes its direction with the  *)
(* first iteration of the loop.                                             *)
Resyncs ==
    /\ pc = "parse"
    /\ segment.lo \in RecordStart[Key]
    /\ segment.lo + HeaderSize <= segment.hi
    => \/ outcome = "scan" /\ payload_offset = 0
       \/ outcome \in {"scan", "uncertain"} /\ directions[Key].synchronized

StreamInv ==
    /\ pc = "parse" => ~segment.syn /\ segment.lo < segment.hi
    /\ RestAligned
    /\ OpenAligned
    /\ HeadsKept
    /\ ContinuationKept
    /\ Resyncs
    /\ CutKeepsHeads
    /\ ContinuationCutIsFinal
    /\ ResyncAtRecordStart

-----------------------------------------------------------------------------
(* Facts about streams and sequence numbers. *)

(* Distinct positions of a stream have distinct sequence numbers.           *)
LEMMA SeqInjective ==
    ASSUME NEW d \in Direction,
           NEW p \in Nat, p <= StreamEnd[d],
           NEW q \in Nat, q <= StreamEnd[d],
           SeqOf(d, p) = SeqOf(d, q)
    PROVE  p = q
<1>1. /\ Isn[d] \in 0 .. (SeqMod - 1)
      /\ StreamEnd[d] \in Nat /\ StreamEnd[d] + 1 < SeqMod
      /\ SeqMod \in Nat
  BY StreamAssumption, SizeAssumption
<1> DEFINE isn == Isn[d]
           end == StreamEnd[d]
<1>2. /\ isn \in Nat /\ isn < SeqMod /\ end \in Nat /\ end + 1 < SeqMod
      /\ p <= end /\ q <= end
      /\ AdvanceTcpSeq(isn, p + 1) = AdvanceTcpSeq(isn, q + 1)
  BY <1>1 DEF SeqOf
<1> HIDE DEF isn, end
<1>3. QED
  BY <1>1, <1>2 DEF AdvanceTcpSeq

(* The byte behind a segment without SYN is the one expected next.          *)
LEMMA NextSeq ==
    ASSUME NEW s \in [dir : Direction, lo : Nat, hi : Nat, syn : BOOLEAN, rst : BOOLEAN],
           s.lo <= s.hi, s.hi <= StreamEnd[s.dir], ~s.syn
    PROVE  /\ TcpSeq(s) = SeqOf(s.dir, s.lo)
           /\ AdvanceTcpSeq(TcpSeq(s), PayloadLength(s)) = SeqOf(s.dir, s.hi)
<1>1. /\ Isn[s.dir] \in 0 .. (SeqMod - 1)
      /\ StreamEnd[s.dir] \in Nat /\ StreamEnd[s.dir] + 1 < SeqMod
      /\ SeqMod \in Nat
  BY StreamAssumption, SizeAssumption
<1>2. TcpSeq(s) = SeqOf(s.dir, s.lo)
  BY DEF TcpSeq
<1> DEFINE isn == Isn[s.dir]
           lo == s.lo
           hi == s.hi
<1>3. /\ isn \in Nat /\ isn < SeqMod
      /\ lo \in Nat /\ hi \in Nat /\ lo <= hi /\ hi + 1 < SeqMod
  BY <1>1
<1>4. AdvanceTcpSeq(AdvanceTcpSeq(isn, lo + 1), hi - lo) = AdvanceTcpSeq(isn, hi + 1)
  <2> HIDE DEF isn, lo, hi
  <2>1. QED
    BY <1>1, <1>3 DEF AdvanceTcpSeq
<1>5. QED
  BY <1>2, <1>4 DEF SeqOf, PayloadLength

(* Positions of records, as natural numbers. *)
LEMMA RecordFacts ==
    ASSUME NEW d \in Direction, NEW s \in RecordStart[d]
    PROVE  /\ s \in Nat
           /\ s \in DOMAIN Header[d]
           /\ Header[d][s].size \in Nat
           /\ RecordEnd(d, s) \in Nat
           /\ RecordEnd(d, s) = s + Header[d][s].size
           /\ s < RecordEnd(d, s)
<1>1. s \in DOMAIN Header[d]
  BY StreamAssumption
<1>2. s \in Nat /\ Header[d][s].size \in Nat /\ Header[d][s].size >= 1
  <2>1. /\ s \in Nat /\ Header[d][s].size \in Nat
        /\ Header[d][s].size >= HeaderSize /\ HeaderSize \in Nat /\ HeaderSize >= 1
    BY <1>1, HeaderFacts
  <2>2. QED
    BY <2>1
<1>3. QED
  BY <1>1, <1>2 DEF RecordEnd

(* Records do not overlap. *)
LEMMA Disjoint ==
    ASSUME NEW d \in Direction, NEW s \in RecordStart[d], NEW t \in RecordStart[d],
           s < t
    PROVE  RecordEnd(d, s) <= t
  BY StreamAssumption DEF RecordEnd

(* Only one record spans a position. *)
LEMMA InsideUnique ==
    ASSUME NEW d \in Direction, NEW s \in RecordStart[d], NEW t \in RecordStart[d],
           NEW p \in Nat, Inside(d, s, p), Inside(d, t, p)
    PROVE  s = t
<1>1. /\ s \in Nat /\ t \in Nat
      /\ RecordEnd(d, s) \in Nat /\ RecordEnd(d, t) \in Nat
  BY RecordFacts
<1>2. (s < t => RecordEnd(d, s) <= t) /\ (t < s => RecordEnd(d, t) <= s)
  BY Disjoint
<1>3. QED
  BY <1>1, <1>2 DEF Inside

(* No record starts inside another one. *)
LEMMA NoStartInside ==
    ASSUME NEW d \in Direction, NEW s \in RecordStart[d], NEW t \in RecordStart[d]
    PROVE  ~Inside(d, s, t)
<1>1. s \in Nat /\ t \in Nat /\ RecordEnd(d, s) \in Nat
  BY RecordFacts
<1>2. s < t => RecordEnd(d, s) <= t
  BY Disjoint
<1>3. QED
  BY <1>1, <1>2 DEF Inside
-----------------------------------------------------------------------------
(* The entry of Evaluate. *)

(* Streams without Fast Open: payload comes without SYN. *)
LEMMA PayloadWithoutSyn ==
    ASSUME CleanStreams, NEW s \in Segment, PayloadLength(s) > 0
    PROVE  ~s.syn /\ s.lo < s.hi
  BY SegmentFacts DEF CleanStreams, PayloadLength

(* The states of the other directions survive the entry or are erased.      *)
LEMMA EraseAligned ==
    ASSUME TypeInv, StreamInv, pc = "idle", NEW s \in Segment,
           NEW d \in Direction, EraseOnSynRst(s)[d].has_active_record
    PROVE  /\ EraseOnSynRst(s)[d] = directions[d]
           /\ EraseOnSynRst(s)[d].synchronized
           /\ \E p \in Nat :
                 /\ p <= StreamEnd[d]
                 /\ EraseOnSynRst(s)[d].expected_tcp_seq = SeqOf(d, p)
                 /\ ActiveAt(d, EraseOnSynRst(s)[d], p)
<1>1. EraseOnSynRst(s)[d] = NoState \/ EraseOnSynRst(s)[d] = directions[d]
  BY DEF EraseOnSynRst
<1>2. ~NoState.has_active_record
  BY DEF NoState
<1>3. EraseOnSynRst(s)[d] = directions[d] /\ directions[d].has_active_record
  BY <1>1, <1>2
<1>4. /\ directions[d].synchronized
      /\ \E p \in Nat :
            /\ p <= StreamEnd[d]
            /\ directions[d].expected_tcp_seq = SeqOf(d, p)
            /\ ActiveAt(d, directions[d], p)
  BY <1>3 DEF StreamInv, RestAligned
<1>5. QED
  BY <1>3, <1>4

(* An active record that survives the check of the sequence number spans    *)
(* the first byte of the segment.                                           *)
LEMMA EntryAligned ==
    ASSUME CleanStreams, TypeInv, StreamInv, pc = "idle",
           NEW s \in Segment, PayloadLength(s) > 0,
           EntryState(s).has_active_record
    PROVE  /\ EntryState(s).synchronized
           /\ ActiveAt(s.dir, EntryState(s), s.lo)
<1> DEFINE state == EraseOnSynRst(s)[s.dir]
<1>1. /\ s.dir \in Direction /\ s.lo \in Nat /\ s.hi \in Nat
      /\ s.lo <= s.hi /\ s.hi <= StreamEnd[s.dir] /\ ~s.syn
      /\ StreamEnd[s.dir] \in Nat
  BY SegmentFacts, PayloadWithoutSyn, StreamAssumption
<1>2. state \in DirectionState
  BY <1>1, EntryType DEF TypeInv, TypeOK
<1>3. /\ state.has_active_record
      /\ ~state.synchronized \/ TcpSeq(s) = state.expected_tcp_seq
      /\ EntryState(s) = state
  <2> HIDE DEF state
  <2>1. EntryState(s) = CheckSequence(state, TcpSeq(s))
    BY DEF EntryState, state
  <2>2. CASE state.synchronized /\ TcpSeq(s) # state.expected_tcp_seq
    <3>1. ~EntryState(s).has_active_record
      BY <1>2, <2>1, <2>2 DEF CheckSequence, ClearActiveRecord, DirectionState
    <3>2. QED
      BY <3>1
  <2>3. CASE ~(state.synchronized /\ TcpSeq(s) # state.expected_tcp_seq)
    <3>1. EntryState(s) = state
      BY <2>1, <2>3 DEF CheckSequence
    <3>2. QED
      BY <2>3, <3>1
  <2>4. QED
    BY <2>2, <2>3
<1>4. /\ state.synchronized
      /\ \E p \in Nat :
            /\ p <= StreamEnd[s.dir]
            /\ state.expected_tcp_seq = SeqOf(s.dir, p)
            /\ ActiveAt(s.dir, state, p)
  BY <1>1, <1>3, EraseAligned
<1>5. PICK p \in Nat :
            /\ p <= StreamEnd[s.dir]
            /\ state.expected_tcp_seq = SeqOf(s.dir, p)
            /\ ActiveAt(s.dir, state, p)
  BY <1>4
<1>6. TcpSeq(s) = SeqOf(s.dir, s.lo)
  BY <1>1, SegmentFacts, NextSeq
<1>7. p = s.lo
  <2>1. SeqOf(s.dir, p) = SeqOf(s.dir, s.lo) /\ s.lo <= StreamEnd[s.dir]
    BY <1>1, <1>3, <1>4, <1>5, <1>6
  <2>2. QED
    BY <1>1, <1>5, <2>1, SeqInjective
<1>8. QED
  BY <1>3, <1>4, <1>5, <1>7

(* The part of StreamInv that every call with payload keeps alike.          *)
LEMMA EnterStream ==
    ASSUME CleanStreams, TypeInv, StreamInv,
           NEW s \in Segment, NEW state \in DirectionState,
           Enter(s, state)
    PROVE  /\ pc' = "parse" /\ segment' = s
           /\ directions'[s.dir] = state
           /\ (pc = "parse" => ~segment.syn /\ segment.lo < segment.hi)'
           /\ RestAligned'
           /\ CutKeepsHeads' /\ ContinuationCutIsFinal' /\ ResyncAtRecordStart'
<1>1. /\ pc = "idle" /\ pc' = "parse" /\ segment' = s /\ PayloadLength(s) > 0
      /\ directions' = [EraseOnSynRst(s) EXCEPT ![s.dir] = state]
  BY DEF Enter
<1>2. s.dir \in Direction /\ EraseOnSynRst(s) \in [Direction -> DirectionState]
  BY SegmentFacts, EntryType DEF TypeInv, TypeOK
<1>3. directions'[s.dir] = state
  BY <1>1, <1>2
<1>4. ASSUME NEW d \in Direction, d # s.dir, directions'[d].has_active_record
      PROVE  /\ directions'[d].synchronized
             /\ \E p \in Nat :
                   /\ p <= StreamEnd[d]
                   /\ directions'[d].expected_tcp_seq = SeqOf(d, p)
                   /\ ActiveAt(d, directions'[d], p)
  <2>1. directions'[d] = EraseOnSynRst(s)[d]
    BY <1>1, <1>2, <1>4
  <2>2. QED
    BY <1>1, <1>4, <2>1, EraseAligned
<1>5. RestAligned'
  BY <1>1, <1>4 DEF RestAligned, Key
<1>6. ~s.syn /\ s.lo < s.hi
  BY <1>1, PayloadWithoutSyn
<1>7. QED
  BY <1>1, <1>3, <1>5, <1>6 DEF CutKeepsHeads, ContinuationCutIsFinal,
                                ResyncAtRecordStart, Cut

LEMMA EmptyStream ==
    ASSUME CleanStreams, TypeInv, StreamInv, NEW s \in Segment, EvaluateEmpty(s)
    PROVE  StreamInv'
<1>1. /\ pc = "idle" /\ pc' = "idle" /\ segment' = s
      /\ directions' = EraseOnSynRst(s)
      /\ result'.disposition = "no_application_data"
      /\ PayloadLength(s) = 0
  BY DEF EvaluateEmpty
<1>2. ASSUME NEW d \in Direction, directions'[d].has_active_record
      PROVE  /\ directions'[d].synchronized
             /\ \E p \in Nat :
                   /\ p <= StreamEnd[d]
                   /\ directions'[d].expected_tcp_seq = SeqOf(d, p)
                   /\ ActiveAt(d, directions'[d], p)
  BY <1>1, <1>2, EraseAligned
<1>3. RestAligned'
  BY <1>1, <1>2 DEF RestAligned
<1>4. ResyncAtRecordStart'
  <2>1. ~(s.lo + HeaderSize <= s.hi)
    BY <1>1, SegmentFacts, SizeAssumption DEF PayloadLength
  <2>2. QED
    BY <1>1, <2>1 DEF ResyncAtRecordStart
<1>5. CutKeepsHeads' /\ ContinuationCutIsFinal'
  BY <1>1 DEF CutKeepsHeads, ContinuationCutIsFinal, Cut
<1>6. QED
  BY <1>1, <1>3, <1>4, <1>5
     DEF StreamInv, OpenAligned, HeadsKept, ContinuationKept, Resyncs

LEMMA BeginStream ==
    ASSUME CleanStreams, TypeInv, StreamInv, NEW s \in Segment, BeginAtRecord(s)
    PROVE  StreamInv'
<1> DEFINE state == EntryState(s)
<1>1. state \in DirectionState
  BY EntryType DEF TypeInv, TypeOK
<1>2. /\ Enter(s, state) /\ ~state.has_active_record
      /\ payload_offset' = 0 /\ outcome' = "scan"
      /\ candidate_payload_size' = PayloadLength(s)
  BY DEF BeginAtRecord
<1>3. /\ s.dir \in Direction /\ s.lo \in Nat /\ s.hi \in Nat /\ s.lo <= s.hi
      /\ PayloadLength(s) \in Nat
  BY SegmentFacts
<1> HIDE DEF state
<1>4. /\ pc' = "parse" /\ segment' = s
      /\ directions'[s.dir] = state
      /\ (pc = "parse" => ~segment.syn /\ segment.lo < segment.hi)'
      /\ RestAligned'
      /\ CutKeepsHeads' /\ ContinuationCutIsFinal' /\ ResyncAtRecordStart'
  BY <1>1, <1>2, EnterStream
<1>5. OpenAligned'
  BY <1>2, <1>4 DEF OpenAligned, Key
<1>6. HeadsKept'
  <2>1. ASSUME NEW r \in RecordStart[s.dir] PROVE ~(s.lo <= r /\ r < s.lo + 0)
    BY <1>3, RecordFacts
  <2>2. QED
    BY <1>2, <1>3, <1>4, <2>1 DEF HeadsKept, Key, Position, PayloadLength
<1>7. ContinuationKept'
  BY <1>2, <1>4 DEF ContinuationKept, Key, PayloadLength
<1>8. Resyncs'
  BY <1>2, <1>4 DEF Resyncs, Key
<1>9. QED
  BY <1>4, <1>5, <1>6, <1>7, <1>8 DEF StreamInv
-----------------------------------------------------------------------------
(* The continuation of an active record. *)

(* What the three actions share: the record the segment starts inside.      *)
LEMMA ContinuedRecord ==
    ASSUME CleanStreams, TypeInv, StreamInv, pc = "idle",
           NEW s \in Segment, PayloadLength(s) > 0,
           EntryState(s).has_active_record
    PROVE  \E r \in RecordStart[s.dir] :
              /\ Inside(s.dir, r, s.lo)
              /\ RecordEnd(s.dir, r) =
                     s.lo + EntryState(s).active_record_remaining_bytes
              /\ EntryState(s).active_record_constrictible = IsAppData(s.dir, r)
              /\ \A t \in RecordStart[s.dir] :
                    Inside(s.dir, t, s.lo) => t = r
              /\ \A t \in RecordStart[s.dir] :
                    s.lo <= t => RecordEnd(s.dir, r) <= t
<1>1. s.dir \in Direction /\ s.lo \in Nat
  BY SegmentFacts
<1>2. PICK r \in RecordStart[s.dir] :
         /\ Inside(s.dir, r, s.lo)
         /\ EntryState(s).active_record_remaining_bytes = RecordEnd(s.dir, r) - s.lo
         /\ EntryState(s).active_record_constrictible = IsAppData(s.dir, r)
  BY EntryAligned DEF ActiveAt
<1>3. r \in Nat /\ RecordEnd(s.dir, r) \in Nat
  BY <1>1, RecordFacts
<1>4. RecordEnd(s.dir, r) = s.lo + EntryState(s).active_record_remaining_bytes
  BY <1>1, <1>2, <1>3
<1>5. ASSUME NEW t \in RecordStart[s.dir], Inside(s.dir, t, s.lo)
      PROVE  t = r
  BY <1>1, <1>2, <1>5, InsideUnique
<1>6. ASSUME NEW t \in RecordStart[s.dir], s.lo <= t
      PROVE  RecordEnd(s.dir, r) <= t
  <2>1. t \in Nat
    BY <1>1, RecordFacts
  <2>2. r < t
    BY <1>1, <1>2, <1>3, <1>6, <2>1 DEF Inside
  <2>3. QED
    BY <1>1, <2>2, Disjoint
<1>7. QED
  BY <1>2, <1>4, <1>5, <1>6

LEMMA MiddleStream ==
    ASSUME CleanStreams, TypeInv, StreamInv, NEW s \in Segment, ContinueMiddle(s)
    PROVE  StreamInv'
<1> DEFINE state == EntryState(s)
           len == PayloadLength(s)
           next == [state EXCEPT !.active_record_remaining_bytes = @ - len]
<1>1. state \in DirectionState
  BY EntryType DEF TypeInv, TypeOK
<1>2. /\ s.dir \in Direction /\ s.lo \in Nat /\ s.hi \in Nat /\ s.lo <= s.hi
      /\ len \in Nat /\ len = s.hi - s.lo
  BY SegmentFacts DEF PayloadLength
<1>3. /\ Enter(s, next) /\ state.has_active_record
      /\ state.active_record_remaining_bytes > len
      /\ payload_offset' = len /\ candidate_payload_size' = len
      /\ outcome' \in {"scan", "middle"}
      /\ pc = "idle" /\ len > 0
  BY DEF ContinueMiddle, Enter
<1>4. PICK r \in RecordStart[s.dir] :
         /\ Inside(s.dir, r, s.lo)
         /\ RecordEnd(s.dir, r) = s.lo + state.active_record_remaining_bytes
         /\ state.active_record_constrictible = IsAppData(s.dir, r)
         /\ \A t \in RecordStart[s.dir] : Inside(s.dir, t, s.lo) => t = r
         /\ \A t \in RecordStart[s.dir] : s.lo <= t => RecordEnd(s.dir, r) <= t
  BY <1>3, ContinuedRecord
<1>5. r \in Nat /\ RecordEnd(s.dir, r) \in Nat /\ RecordEnd(s.dir, r) > s.hi
  BY <1>1, <1>2, <1>3, <1>4, RecordFacts DEF DirectionState
<1>6. /\ next \in DirectionState
      /\ next.active_record_remaining_bytes = RecordEnd(s.dir, r) - s.hi
      /\ next.active_record_constrictible = IsAppData(s.dir, r)
      /\ next.synchronized = state.synchronized
  BY <1>1, <1>2, <1>3, <1>4 DEF DirectionState
<1>7. state.synchronized
  BY <1>3, EntryAligned
<1>8. ActiveAt(s.dir, next, s.hi)
  <2>1. Inside(s.dir, r, s.hi)
    BY <1>2, <1>4, <1>5 DEF Inside
  <2>2. QED
    BY <1>6, <2>1 DEF ActiveAt
<1> HIDE DEF state, next
<1>9. /\ pc' = "parse" /\ segment' = s
      /\ directions'[s.dir] = next
      /\ (pc = "parse" => ~segment.syn /\ segment.lo < segment.hi)'
      /\ RestAligned'
      /\ CutKeepsHeads' /\ ContinuationCutIsFinal' /\ ResyncAtRecordStart'
  BY <1>3, <1>6, EnterStream
<1>10. OpenAligned'
  BY <1>3, <1>6, <1>7, <1>8, <1>9 DEF OpenAligned, Key, PayloadLength
<1>11. HeadsKept'
  <2>1. ASSUME NEW t \in RecordStart[s.dir] PROVE ~(s.lo <= t /\ t < s.lo + len)
    BY <1>2, <1>4, <1>5, RecordFacts
  <2>2. QED
    BY <1>2, <1>3, <1>9, <2>1 DEF HeadsKept, Key, Position, PayloadLength
<1>12. ContinuationKept'
  BY <1>2, <1>3, <1>9 DEF ContinuationKept, Key, PayloadLength
<1>13. Resyncs'
  <2>1. s.lo \notin RecordStart[s.dir]
    BY <1>2, <1>4, NoStartInside
  <2>2. QED
    BY <1>9, <2>1 DEF Resyncs, Key
<1>14. QED
  BY <1>9, <1>10, <1>11, <1>12, <1>13 DEF StreamInv

LEMMA FinalStream ==
    ASSUME CleanStreams, TypeInv, StreamInv, NEW s \in Segment, ContinueFinal(s)
    PROVE  StreamInv'
<1> DEFINE state == EntryState(s)
           len == PayloadLength(s)
           next == ClearActiveRecord(state)
<1>1. state \in DirectionState
  BY EntryType DEF TypeInv, TypeOK
<1>2. /\ s.dir \in Direction /\ s.lo \in Nat /\ s.hi \in Nat /\ s.lo <= s.hi
      /\ len \in Nat /\ len = s.hi - s.lo
  BY SegmentFacts DEF PayloadLength
<1>3. /\ Enter(s, next) /\ state.has_active_record
      /\ state.active_record_remaining_bytes = len
      /\ payload_offset' = len
      /\ candidate_payload_size' =
             IF state.active_record_constrictible
             THEN ClampedKeepSize(ContinuationKeep, len)
             ELSE len
      /\ outcome' = "scan"
      /\ pc = "idle" /\ len > 0
  BY DEF ContinueFinal, Enter
<1>4. PICK r \in RecordStart[s.dir] :
         /\ Inside(s.dir, r, s.lo)
         /\ RecordEnd(s.dir, r) = s.lo + state.active_record_remaining_bytes
         /\ state.active_record_constrictible = IsAppData(s.dir, r)
         /\ \A t \in RecordStart[s.dir] : Inside(s.dir, t, s.lo) => t = r
         /\ \A t \in RecordStart[s.dir] : s.lo <= t => RecordEnd(s.dir, r) <= t
  BY <1>3, ContinuedRecord
<1>5. RecordEnd(s.dir, r) = s.hi
  BY <1>2, <1>3, <1>4
<1>6. next \in DirectionState /\ ~next.has_active_record
  BY <1>1 DEF ClearActiveRecord, DirectionState
<1> HIDE DEF state, next
<1>7. /\ pc' = "parse" /\ segment' = s
      /\ directions'[s.dir] = next
      /\ (pc = "parse" => ~segment.syn /\ segment.lo < segment.hi)'
      /\ RestAligned'
      /\ CutKeepsHeads' /\ ContinuationCutIsFinal' /\ ResyncAtRecordStart'
  BY <1>3, <1>6, EnterStream
<1>8. OpenAligned'
  BY <1>6, <1>7 DEF OpenAligned, Key
<1>9. HeadsKept'
  <2>1. ASSUME NEW t \in RecordStart[s.dir] PROVE ~(s.lo <= t /\ t < s.lo + len)
    BY <1>2, <1>4, <1>5, RecordFacts
  <2>2. candidate_payload_size' <= len
    BY <1>2, <1>3, ClampType, SizeAssumption
  <2>3. QED
    BY <1>2, <1>3, <1>7, <2>1, <2>2 DEF HeadsKept, Key, Position, PayloadLength
<1>10. ContinuationKept'
  <2>1. ASSUME NEW t \in RecordStart[s.dir], Inside(s.dir, t, s.lo), IsAppData(s.dir, t)
        PROVE  /\ payload_offset' = len
               /\ s.hi = RecordEnd(s.dir, t)
               /\ candidate_payload_size' = ClampedKeepSize(ContinuationKeep, len)
    BY <1>3, <1>4, <1>5, <2>1
  <2>2. QED
    BY <1>7, <2>1 DEF ContinuationKept, Key, PayloadLength
<1>11. Resyncs'
  <2>1. s.lo \notin RecordStart[s.dir]
    BY <1>2, <1>4, NoStartInside
  <2>2. QED
    BY <1>7, <2>1 DEF Resyncs, Key
<1>12. QED
  BY <1>7, <1>8, <1>9, <1>10, <1>11 DEF StreamInv

LEMMA MoreStream ==
    ASSUME CleanStreams, TypeInv, StreamInv, NEW s \in Segment, ContinueAndMore(s)
    PROVE  StreamInv'
<1> DEFINE state == EntryState(s)
           len == PayloadLength(s)
           next == ClearActiveRecord(state)
<1>1. state \in DirectionState
  BY EntryType DEF TypeInv, TypeOK
<1>2. /\ s.dir \in Direction /\ s.lo \in Nat /\ s.hi \in Nat /\ s.lo <= s.hi
      /\ len \in Nat /\ len = s.hi - s.lo
  BY SegmentFacts DEF PayloadLength
<1>3. /\ Enter(s, next) /\ state.has_active_record
      /\ payload_offset' = state.active_record_remaining_bytes
      /\ candidate_payload_size' = len
      /\ outcome' = IF state.active_record_constrictible THEN "reset" ELSE "scan"
      /\ pc = "idle" /\ len > 0
  BY DEF ContinueAndMore, Enter
<1>4. PICK r \in RecordStart[s.dir] :
         /\ Inside(s.dir, r, s.lo)
         /\ RecordEnd(s.dir, r) = s.lo + state.active_record_remaining_bytes
         /\ state.active_record_constrictible = IsAppData(s.dir, r)
         /\ \A t \in RecordStart[s.dir] : Inside(s.dir, t, s.lo) => t = r
         /\ \A t \in RecordStart[s.dir] : s.lo <= t => RecordEnd(s.dir, r) <= t
  BY <1>3, ContinuedRecord
<1>5. next \in DirectionState /\ ~next.has_active_record
  BY <1>1 DEF ClearActiveRecord, DirectionState
<1>6. state.active_record_remaining_bytes \in Nat
  BY <1>1 DEF DirectionState
<1> HIDE DEF state, next
<1>7. /\ pc' = "parse" /\ segment' = s
      /\ directions'[s.dir] = next
      /\ (pc = "parse" => ~segment.syn /\ segment.lo < segment.hi)'
      /\ RestAligned'
      /\ CutKeepsHeads' /\ ContinuationCutIsFinal' /\ ResyncAtRecordStart'
  BY <1>3, <1>5, EnterStream
<1>8. OpenAligned'
  BY <1>5, <1>7 DEF OpenAligned, Key
<1>9. HeadsKept'
  <2>1. ASSUME NEW t \in RecordStart[s.dir]
        PROVE  ~(s.lo <= t /\ t < s.lo + payload_offset')
    BY <1>2, <1>3, <1>4, <1>6, RecordFacts
  <2>2. QED
    BY <1>2, <1>3, <1>7, <2>1 DEF HeadsKept, Key, Position, PayloadLength
<1>10. ContinuationKept'
  <2>1. ASSUME NEW t \in RecordStart[s.dir], Inside(s.dir, t, s.lo), IsAppData(s.dir, t)
        PROVE  outcome' = "reset"
    BY <1>3, <1>4, <2>1
  <2>2. QED
    BY <1>7, <2>1 DEF ContinuationKept, Key
<1>11. Resyncs'
  <2>1. s.lo \notin RecordStart[s.dir]
    BY <1>2, <1>4, NoStartInside
  <2>2. QED
    BY <1>7, <2>1 DEF Resyncs, Key
<1>12. QED
  BY <1>7, <1>8, <1>9, <1>10, <1>11 DEF StreamInv
-----------------------------------------------------------------------------
(* The record loop and the verdict. *)

(* While there is something to parse, no record is active. *)
LEMMA ScanningFacts ==
    ASSUME TypeInv, StreamInv, Scanning
    PROVE  /\ Key \in Direction
           /\ segment.lo \in Nat /\ segment.hi \in Nat /\ segment.lo < segment.hi
           /\ segment.hi <= StreamEnd[Key]
           /\ payload_offset \in Nat /\ candidate_payload_size \in Nat
           /\ Position \in Nat /\ Position = segment.lo + payload_offset
           /\ Position < segment.hi
           /\ PayloadLength(segment) \in Nat
           /\ PayloadLength(segment) = segment.hi - segment.lo
           /\ RemainingPayload = segment.hi - Position
           /\ ~directions[Key].has_active_record
<1>1. /\ Key \in Direction
      /\ segment.lo \in Nat /\ segment.hi \in Nat /\ segment.lo < segment.hi
      /\ segment.hi <= StreamEnd[Key]
      /\ payload_offset \in Nat /\ candidate_payload_size \in Nat
      /\ payload_offset < PayloadLength(segment)
      /\ pc = "parse"
  BY DEF TypeInv, TypeOK, StreamInv, Scanning, Key
<1>2. ~directions[Key].has_active_record
  BY <1>1 DEF StreamInv, OpenAligned, PayloadLength
<1>3. QED
  BY <1>1, <1>2 DEF Position, PayloadLength, RemainingPayload

(* A return without a cut. *)
LEMMA ReturnStream ==
    ASSUME TypeInv, StreamInv, pc = "parse",
           NEW disposition, NEW keep, Return(disposition, keep),
           disposition # "app_data_prefix",
           \A d \in Direction :
               d # Key => directions'[d] = directions[d],
           ~directions'[Key].has_active_record,
           /\ directions'[Key].confirmed_tls
           /\ segment.lo \in RecordStart[Key]
           /\ segment.lo + HeaderSize <= segment.hi
           => FALSE
    PROVE  StreamInv'
<1>1. /\ pc' = "idle" /\ segment' = segment /\ result'.disposition = disposition
  BY DEF Return
<1>2. RestAligned'
  BY <1>1 DEF StreamInv, RestAligned
<1>3. ResyncAtRecordStart'
  BY <1>1 DEF ResyncAtRecordStart, Key
<1>4. QED
  BY <1>1, <1>2, <1>3
     DEF StreamInv, OpenAligned, HeadsKept, ContinuationKept, Resyncs,
         CutKeepsHeads, ContinuationCutIsFinal, Cut

LEMMA NoHeaderUnsynchronizedStream ==
    ASSUME CleanStreams, TypeInv, StreamInv, ParseNoHeaderUnsynchronized
    PROVE  StreamInv'
<1>1. /\ Scanning /\ ~ReadsHeader(segment, Position)
      /\ ~directions[Key].synchronized
      /\ directions' = IF confirmed_tls
                       THEN directions
                       ELSE [directions EXCEPT ![Key] = NoState]
      /\ Return("no_record", PayloadLength(segment))
  BY DEF ParseNoHeaderUnsynchronized
<1>2. directions \in [Direction -> DirectionState] /\ pc = "parse"
  BY <1>1 DEF TypeInv, TypeOK, Scanning
<1>3. \A d \in Direction : d # Key => directions'[d] = directions[d]
  BY <1>1, <1>2
<1>4. ~directions'[Key].has_active_record
  BY <1>1, <1>2, ScanningFacts DEF NoState
<1>5. ASSUME segment.lo \in RecordStart[Key], segment.lo + HeaderSize <= segment.hi
      PROVE  FALSE
  <2>1. payload_offset = 0
    BY <1>1, <1>2, <1>5 DEF StreamInv, Resyncs
  <2>2. Position = segment.lo
    BY <1>1, <2>1, ScanningFacts
  <2>3. segment.lo \in DOMAIN Header[segment.dir]
    BY <1>1, <1>5, ScanningFacts, RecordFacts DEF Key
  <2>4. QED
    BY <1>1, <1>5, <2>2, <2>3 DEF ReadsHeader
<1>6. QED
  BY <1>1, <1>2, <1>3, <1>4, <1>5, ReturnStream

LEMMA NoHeaderSynchronizedStream ==
    ASSUME CleanStreams, TypeInv, StreamInv, ParseNoHeaderSynchronized
    PROVE  StreamInv'
<1>1. /\ UNCHANGED <<directions, pc, segment, payload_offset>>
      /\ outcome' = "uncertain" /\ pc = "parse"
      /\ directions[Key].synchronized
  BY DEF ParseNoHeaderSynchronized, Scanning
<1>2. (pc = "parse" => ~segment.syn /\ segment.lo < segment.hi)'
  BY <1>1 DEF StreamInv
<1>3. RestAligned' /\ OpenAligned'
  BY <1>1 DEF StreamInv, RestAligned, OpenAligned, Key, PayloadLength
<1>4. Resyncs'
  BY <1>1 DEF Resyncs, Key
<1>5. QED
  BY <1>1, <1>2, <1>3, <1>4
     DEF StreamInv, HeadsKept, ContinuationKept,
         CutKeepsHeads, ContinuationCutIsFinal, ResyncAtRecordStart, Cut

LEMMA RejectedStream ==
    ASSUME CleanStreams, TypeInv, StreamInv, ParseRejected
    PROVE  StreamInv'
<1>1. /\ Scanning
      /\ directions' = [directions EXCEPT ![Key] = NoState]
      /\ Return("no_record", PayloadLength(segment))
  BY DEF ParseRejected
<1>2. directions \in [Direction -> DirectionState] /\ Key \in Direction /\ pc = "parse"
  BY <1>1 DEF TypeInv, TypeOK, Scanning, Key
<1>3. directions'[Key] = NoState
  BY <1>1, <1>2
<1>4. ~directions'[Key].has_active_record /\ ~directions'[Key].confirmed_tls
  BY <1>3 DEF NoState
<1>5. \A d \in Direction : d # Key => directions'[d] = directions[d]
  BY <1>1, <1>2
<1>6. QED
  BY <1>1, <1>2, <1>4, <1>5, ReturnStream

(* The heads of the records in front of the next parse position.            *)
LEMMA AcceptedHeads ==
    ASSUME CleanStreams, TypeInv, StreamInv,
           ParseAccepted(Header[Key][Position]),
           payload_offset' \in Nat,
           Position \in RecordStart[Key],
           \/ payload_offset' = PayloadLength(segment)
              /\ RecordEnd(Key, Position) > segment.hi
           \/ segment.lo + payload_offset' = RecordEnd(Key, Position)
              /\ RecordEnd(Key, Position) <= segment.hi
    PROVE  HeadsKept'
<1> DEFINE h == Header[Key][Position]
           end == RecordEnd(Key, Position)
           kept(s) == ClampedKeepSize(s + AppDataKeep,
                                      ClampedKeepSize(RecordEnd(Key, s), segment.hi))
<1>1. /\ Scanning /\ pc = "parse" /\ outcome = "scan"
      /\ UNCHANGED <<pc, segment, outcome>>
      /\ candidate_payload_size' = IF h.type = "application_data"
                                   THEN RecordCandidate(h)
                                   ELSE candidate_payload_size
  BY DEF ParseAccepted, Scanning
<1>2. /\ Key \in Direction
      /\ segment.lo \in Nat /\ segment.hi \in Nat
      /\ payload_offset \in Nat /\ candidate_payload_size \in Nat
      /\ Position \in Nat /\ Position = segment.lo + payload_offset
      /\ Position < segment.hi
      /\ PayloadLength(segment) = segment.hi - segment.lo
      /\ RemainingPayload = segment.hi - Position
  BY <1>1, ScanningFacts
<1>3. /\ h.size \in Nat /\ end \in Nat /\ end = Position + h.size /\ Position < end
      /\ AppDataKeep \in Nat
  BY <1>2, RecordFacts, SizeAssumption
<1>4. RecordCandidate(h) + segment.lo = kept(Position)
  <2> DEFINE size == h.size
  <2>1. RecordCandidate(h) = payload_offset
            + ClampedKeepSize(AppDataKeep, ClampedKeepSize(size, segment.hi - Position))
    BY <1>2 DEF RecordCandidate
  <2>2. size \in Nat /\ end = Position + size
    BY <1>3
  <2> HIDE DEF size, end, h
  <2>3. QED
    BY <1>2, <1>3, <2>1, <2>2 DEF ClampedKeepSize, end
<1>5. /\ RecordCandidate(h) \in Nat
      /\ RecordCandidate(h) <= PayloadLength(segment)
      /\ segment.lo + RecordCandidate(h) >= Position
  <2> DEFINE size == h.size
  <2>1. RecordCandidate(h) = payload_offset
            + ClampedKeepSize(AppDataKeep, ClampedKeepSize(size, segment.hi - Position))
    BY <1>2 DEF RecordCandidate
  <2>2. size \in Nat
    BY <1>3
  <2> HIDE DEF size, h
  <2>3. QED
    BY <1>2, <1>3, <2>1, <2>2 DEF ClampedKeepSize
<1>6. candidate_payload_size' <= PayloadLength(segment)
  BY <1>1, <1>5 DEF StreamInv, HeadsKept
<1>7. ASSUME NEW s \in RecordStart[Key],
             segment.lo <= s, s < segment.lo + payload_offset', IsAppData(Key, s)
      PROVE  kept(s) <= segment.lo + candidate_payload_size'
  <2>1. s \in Nat /\ RecordEnd(Key, s) \in Nat
    BY <1>2, RecordFacts
  <2>2. CASE s < Position
    <3>1. RecordEnd(Key, s) <= Position
      BY <1>2, <2>2, Disjoint
    <3>2. kept(s) <= Position
      BY <1>2, <1>3, <2>1, <3>1 DEF ClampedKeepSize
    <3>3. kept(s) <= segment.lo + candidate_payload_size
      BY <1>1, <1>7, <2>2 DEF StreamInv, HeadsKept
    <3>4. kept(s) \in Nat
      BY <1>2, <1>3, <2>1 DEF ClampedKeepSize
    <3> HIDE DEF kept, h
    <3>5. QED
      BY <1>1, <1>2, <1>5, <3>2, <3>3, <3>4
  <2>3. CASE s = Position
    <3>1. h.type = "application_data"
      BY <1>7, <2>3 DEF IsAppData
    <3>2. kept(s) = segment.lo + candidate_payload_size'
      BY <1>1, <1>2, <1>4, <1>5, <2>3, <3>1
    <3>3. kept(s) \in Nat
      BY <1>2, <1>3, <2>1 DEF ClampedKeepSize
    <3> HIDE DEF kept
    <3>4. QED
      BY <3>2, <3>3
  <2>4. CASE s > Position
    <3>1. end <= s
      BY <1>2, <2>4, Disjoint
    <3>2. QED
      BY <1>2, <1>3, <1>7, <2>1, <3>1
  <2>5. QED
    BY <1>2, <2>1, <2>2, <2>3, <2>4
<1>8. QED
  BY <1>1, <1>6, <1>7 DEF HeadsKept, Key, Position, PayloadLength
LEMMA AcceptedStream ==
    ASSUME CleanStreams, TypeInv, StreamInv, ParseOpenRecord \/ ParseWholeRecord
    PROVE  StreamInv'
<1> DEFINE h == Header[Key][Position]
<1>1. /\ ParseAccepted(h)
      /\ Scanning /\ ReadsHeader(segment, Position) /\ pc = "parse"
      /\ UNCHANGED <<pc, segment, outcome, result>>
  BY DEF ParseOpenRecord, ParseWholeRecord, ParseAccepted, Scanning
<1>2. /\ Key \in Direction
      /\ segment.lo \in Nat /\ segment.hi \in Nat
      /\ payload_offset \in Nat
      /\ Position \in Nat /\ Position = segment.lo + payload_offset
      /\ Position < segment.hi
      /\ PayloadLength(segment) \in Nat
      /\ PayloadLength(segment) = segment.hi - segment.lo
      /\ RemainingPayload = segment.hi - Position
      /\ ~directions[Key].has_active_record
  BY <1>1, ScanningFacts
<1>3. Position \in RecordStart[Key]
  BY <1>1, <1>2 DEF ReadsHeader, CleanStreams, Key
<1>4. /\ h.size \in Nat /\ RecordEnd(Key, Position) \in Nat
      /\ RecordEnd(Key, Position) = Position + h.size
      /\ Position < RecordEnd(Key, Position)
  BY <1>2, <1>3, RecordFacts
<1>5. directions \in [Direction -> DirectionState]
      /\ Accept(h) \in [Direction -> DirectionState]
  BY <1>2, AcceptType DEF TypeInv, TypeOK
<1>6. /\ Accept(h)[Key].synchronized
      /\ ~Accept(h)[Key].has_active_record
  BY <1>2, <1>5 DEF Accept, DirectionState
<1>7. \A d \in Direction : d # Key =>
          /\ Accept(h)[d].has_active_record = directions[d].has_active_record
          /\ Accept(h)[d].synchronized = directions[d].synchronized
          /\ Accept(h)[d].expected_tcp_seq = directions[d].expected_tcp_seq
          /\ Accept(h)[d].active_record_remaining_bytes =
                 directions[d].active_record_remaining_bytes
          /\ Accept(h)[d].active_record_constrictible =
                 directions[d].active_record_constrictible
  <2> SUFFICES ASSUME NEW d \in Direction, d # Key
               PROVE  /\ Accept(h)[d].has_active_record = directions[d].has_active_record
                      /\ Accept(h)[d].synchronized = directions[d].synchronized
                      /\ Accept(h)[d].expected_tcp_seq = directions[d].expected_tcp_seq
                      /\ Accept(h)[d].active_record_remaining_bytes =
                             directions[d].active_record_remaining_bytes
                      /\ Accept(h)[d].active_record_constrictible =
                             directions[d].active_record_constrictible
    OBVIOUS
  <2>1. directions[d] \in DirectionState
    BY <1>5
  <2>2. Accept(h)[d] = [directions[d] EXCEPT
            !.synchronized = @ \/ d = Key,
            !.confirmed_tls =
                @ \/ (h.type = "handshake" /\ d \in {Key, Reverse[Key]})]
    BY DEF Accept
  <2>3. (directions[d].synchronized \/ d = Key) = directions[d].synchronized
    BY <2>1 DEF DirectionState
  <2>4. QED
    BY <2>1, <2>2, <2>3 DEF DirectionState
<1>8. /\ \A d \in Direction : d # Key => directions'[d] = Accept(h)[d]
      /\ directions'[Key].synchronized
      /\ payload_offset' \in Nat /\ payload_offset' > 0
      /\ \/ /\ payload_offset' = PayloadLength(segment)
            /\ RecordEnd(Key, Position) > segment.hi
         \/ /\ segment.lo + payload_offset' = RecordEnd(Key, Position)
            /\ RecordEnd(Key, Position) <= segment.hi
      /\ directions'[Key].has_active_record =>
            /\ payload_offset' = PayloadLength(segment)
            /\ RecordEnd(Key, Position) > segment.hi
            /\ directions'[Key].active_record_remaining_bytes =
                   RecordEnd(Key, Position) - segment.hi
            /\ directions'[Key].active_record_constrictible = IsAppData(Key, Position)
  <2>1. CASE ParseWholeRecord
    <3>1. /\ directions' = Accept(h) /\ payload_offset' = payload_offset + h.size
          /\ h.size <= RemainingPayload
      BY <2>1 DEF ParseWholeRecord
    <3> HIDE DEF h
    <3>2. QED
      BY <1>2, <1>4, <1>6, <3>1
  <2>2. CASE ParseOpenRecord
    <3> DEFINE state == [Accept(h)[Key] EXCEPT
                 !.has_active_record = TRUE,
                 !.active_record_remaining_bytes = h.size - RemainingPayload,
                 !.active_record_constrictible = (h.type = "application_data")]
    <3>1. /\ directions' = [Accept(h) EXCEPT ![Key] = state]
          /\ payload_offset' = PayloadLength(segment)
          /\ h.size > RemainingPayload
      BY <2>2 DEF ParseOpenRecord
    <3>2. /\ state.synchronized = Accept(h)[Key].synchronized
          /\ state.active_record_remaining_bytes = h.size - RemainingPayload
          /\ state.active_record_constrictible = IsAppData(Key, Position)
      BY <1>2, <1>5 DEF DirectionState, IsAppData
    <3> HIDE DEF state, h
    <3>3. directions'[Key] = state
          /\ \A d \in Direction : d # Key => directions'[d] = Accept(h)[d]
      BY <1>2, <1>5, <3>1
    <3>4. directions'[Key].synchronized
      BY <1>6, <3>2, <3>3
    <3>5. RecordEnd(Key, Position) > segment.hi
          /\ h.size - RemainingPayload = RecordEnd(Key, Position) - segment.hi
      BY <1>2, <1>4, <3>1
    <3>6. payload_offset' \in Nat /\ payload_offset' > 0
      BY <1>2, <3>1
    <3>7. QED
      BY <3>1, <3>2, <3>3, <3>4, <3>5, <3>6
  <2>3. QED
    BY <2>1, <2>2
<1> HIDE DEF h
<1>9. (pc = "parse" => ~segment.syn /\ segment.lo < segment.hi)'
  BY <1>1 DEF StreamInv
<1>10. RestAligned'
  <2>1. ASSUME NEW d \in Direction, d # Key, directions'[d].has_active_record
        PROVE  /\ directions'[d].synchronized
               /\ \E p \in Nat :
                     /\ p <= StreamEnd[d]
                     /\ directions'[d].expected_tcp_seq = SeqOf(d, p)
                     /\ ActiveAt(d, directions'[d], p)
    <3>1. /\ directions[d].synchronized
          /\ \E p \in Nat :
                /\ p <= StreamEnd[d]
                /\ directions[d].expected_tcp_seq = SeqOf(d, p)
                /\ ActiveAt(d, directions[d], p)
      BY <1>7, <1>8, <2>1 DEF StreamInv, RestAligned
    <3>2. QED
      BY <1>7, <1>8, <2>1, <3>1 DEF ActiveAt
  <2>2. QED
    BY <1>1, <2>1 DEF RestAligned, Key
<1>11. OpenAligned'
  <2>1. ASSUME directions'[Key].has_active_record
        PROVE  ActiveAt(Key, directions'[Key], segment.hi)
    <3>1. Inside(Key, Position, segment.hi)
      BY <1>2, <1>4, <1>8, <2>1 DEF Inside
    <3>2. QED
      BY <1>3, <1>8, <2>1, <3>1 DEF ActiveAt
  <2>2. QED
    BY <1>1, <1>8, <2>1 DEF OpenAligned, Key, PayloadLength
<1>12. HeadsKept'
  BY <1>1, <1>3, <1>8, AcceptedHeads DEF h
<1>13. ContinuationKept'
  <2>1. ASSUME NEW s \in RecordStart[Key],
               Inside(Key, s, segment.lo), IsAppData(Key, s)
        PROVE  FALSE
    <3>1. \/ payload_offset = 0
          \/ payload_offset = PayloadLength(segment)
      BY <1>1, <2>1 DEF StreamInv, ContinuationKept, Scanning
    <3>2. segment.lo = Position
      BY <1>2, <3>1
    <3>3. QED
      BY <1>2, <1>3, <2>1, <3>2, NoStartInside
  <2>2. QED
    BY <1>1, <2>1 DEF ContinuationKept, Key
<1>14. Resyncs'
  BY <1>1, <1>8 DEF Resyncs, Key, Scanning
<1>15. QED
  BY <1>1, <1>9, <1>10, <1>11, <1>12, <1>13, <1>14
     DEF StreamInv, CutKeepsHeads, ContinuationCutIsFinal, ResyncAtRecordStart, Cut

LEMMA ResetStream ==
    ASSUME CleanStreams, TypeInv, StreamInv, ConcludeReset
    PROVE  StreamInv'
<1> DEFINE state == [NoState EXCEPT !.confirmed_tls = directions[Key].confirmed_tls]
<1>1. /\ pc = "parse" /\ outcome = "reset"
      /\ directions' = [directions EXCEPT ![Key] = state]
      /\ Return("no_application_data", PayloadLength(segment))
  BY DEF ConcludeReset, Parsed
<1>2. directions \in [Direction -> DirectionState] /\ Key \in Direction
  BY DEF TypeInv, TypeOK, Key
<1>3. ~state.has_active_record
  BY DEF NoState
<1> HIDE DEF state
<1>4. directions'[Key] = state /\ \A d \in Direction : d # Key => directions'[d] = directions[d]
  BY <1>1, <1>2
<1>5. ~(segment.lo \in RecordStart[Key] /\ segment.lo + HeaderSize <= segment.hi)
  BY <1>1 DEF StreamInv, Resyncs
<1>6. QED
  BY <1>1, <1>3, <1>4, <1>5, ReturnStream

LEMMA ConcludeStream ==
    ASSUME CleanStreams, TypeInv, StreamInv, Conclude
    PROVE  StreamInv'
<1>1. /\ Parsed /\ pc = "parse" /\ pc' = "idle" /\ segment' = segment
      /\ directions' = [directions EXCEPT ![Key].expected_tcp_seq = NextExpectedSeq]
  BY DEF Conclude, Parsed, Return
<1>2. /\ directions \in [Direction -> DirectionState]
      /\ Key \in Direction /\ Key = segment.dir
      /\ segment.lo \in Nat /\ segment.hi \in Nat /\ segment.lo < segment.hi
      /\ segment.hi <= StreamEnd[Key] /\ ~segment.syn
      /\ payload_offset \in Nat
      /\ payload_offset <= PayloadLength(segment)
      /\ PayloadLength(segment) = segment.hi - segment.lo
      /\ candidate_payload_size \in Nat
  BY <1>1 DEF TypeInv, TypeOK, StreamInv, Key, PayloadLength
<1>3. NextExpectedSeq = SeqOf(Key, segment.hi)
  <2>1. segment \in [dir : Direction, lo : Nat, hi : Nat, syn : BOOLEAN, rst : BOOLEAN]
    BY DEF TypeInv, TypeOK
  <2>2. QED
    BY <1>2, <2>1, NextSeq DEF NextExpectedSeq
<1>4. /\ \A d \in Direction : d # Key => directions'[d] = directions[d]
      /\ directions'[Key].expected_tcp_seq = SeqOf(Key, segment.hi)
      /\ directions'[Key].synchronized = directions[Key].synchronized
      /\ directions'[Key].has_active_record = directions[Key].has_active_record
      /\ directions'[Key].active_record_remaining_bytes =
             directions[Key].active_record_remaining_bytes
      /\ directions'[Key].active_record_constrictible =
             directions[Key].active_record_constrictible
  BY <1>1, <1>2, <1>3 DEF DirectionState
<1>5. RestAligned'
  <2>1. ASSUME NEW d \in Direction, directions'[d].has_active_record
        PROVE  /\ directions'[d].synchronized
               /\ \E p \in Nat :
                     /\ p <= StreamEnd[d]
                     /\ directions'[d].expected_tcp_seq = SeqOf(d, p)
                     /\ ActiveAt(d, directions'[d], p)
    <3>1. CASE d = Key
      <4>1. /\ directions[Key].synchronized
            /\ ActiveAt(Key, directions[Key], segment.hi)
        BY <1>1, <1>4, <2>1, <3>1 DEF StreamInv, OpenAligned
      <4>2. ActiveAt(Key, directions'[Key], segment.hi)
        BY <1>4, <4>1 DEF ActiveAt
      <4>3. QED
        BY <1>2, <1>4, <3>1, <4>1, <4>2
    <3>2. CASE d # Key
      BY <1>4, <2>1, <3>2 DEF StreamInv, RestAligned
    <3>3. QED
      BY <3>1, <3>2
  <2>2. QED
    BY <2>1 DEF RestAligned
<1>6. ResyncAtRecordStart'
  <2>1. ASSUME segment.lo \in RecordStart[Key], segment.lo + HeaderSize <= segment.hi
        PROVE  directions[Key].synchronized
    <3>1. outcome # "scan" \/ payload_offset # 0
      BY <1>1, <1>2 DEF Parsed
    <3>2. QED
      BY <1>1, <2>1, <3>1 DEF StreamInv, Resyncs
  <2>2. QED
    BY <1>1, <1>2, <1>4, <2>1 DEF ResyncAtRecordStart, Key
<1>7. ASSUME result'.disposition = "app_data_prefix"
      PROVE  /\ outcome = "scan"
             /\ payload_offset = PayloadLength(segment)
             /\ candidate_payload_size < PayloadLength(segment)
             /\ result'.keep = candidate_payload_size
  <2>1. IsCut /\ Return("app_data_prefix", candidate_payload_size)
    BY <1>7 DEF Conclude, Return
  <2>2. result'.keep = candidate_payload_size
    BY <2>1 DEF Return
  <2>3. QED
    BY <1>1, <1>2, <2>1, <2>2 DEF IsCut, Parsed
<1>8. CutKeepsHeads'
  <2>1. ASSUME result'.disposition = "app_data_prefix",
               NEW s \in RecordStart[Key],
               segment.lo <= s, s < segment.hi, IsAppData(Key, s)
        PROVE  ClampedKeepSize(s + AppDataKeep,
                               ClampedKeepSize(RecordEnd(Key, s), segment.hi))
                 <= segment.lo + result'.keep
    <3>1. s < Position
      BY <1>2, <1>7, <2>1 DEF Position
    <3>2. QED
      BY <1>1, <1>7, <2>1, <3>1 DEF StreamInv, HeadsKept
  <2>2. QED
    BY <1>1, <2>1 DEF CutKeepsHeads, Cut, Key
<1>9. ContinuationCutIsFinal'
  <2>1. ASSUME result'.disposition = "app_data_prefix",
               NEW s \in RecordStart[Key],
               Inside(Key, s, segment.lo), IsAppData(Key, s)
        PROVE  /\ segment.hi = RecordEnd(Key, s)
               /\ result'.keep = ClampedKeepSize(ContinuationKeep, PayloadLength(segment))
    <3>1. candidate_payload_size # PayloadLength(segment)
      BY <1>2, <1>7, <2>1
    <3>2. QED
      BY <1>1, <1>7, <2>1, <3>1 DEF StreamInv, ContinuationKept
  <2>2. QED
    BY <1>1, <2>1 DEF ContinuationCutIsFinal, Cut, Key, PayloadLength
<1>10. QED
  BY <1>1, <1>5, <1>6, <1>8, <1>9
     DEF StreamInv, OpenAligned, HeadsKept, ContinuationKept, Resyncs

-----------------------------------------------------------------------------
(* The theorems about clean streams. *)

LEMMA StreamInit == ASSUME Init PROVE StreamInv
<1>1. pc = "idle" /\ result.disposition = "none"
  BY DEF Init
<1>2. \A d \in Direction : directions[d] = NoState
  BY DEF Init
<1>3. ~NoState.has_active_record /\ ~NoState.confirmed_tls
  BY DEF NoState
<1>4. segment.dir \in Direction
  BY DEF Init
<1>5. QED
  BY <1>1, <1>2, <1>3, <1>4
     DEF StreamInv, RestAligned, OpenAligned, HeadsKept, ContinuationKept, Resyncs,
         CutKeepsHeads, ContinuationCutIsFinal, ResyncAtRecordStart, Cut

LEMMA StreamStep ==
    ASSUME CleanStreams, TypeInv, StreamInv, [Next]_vars
    PROVE  StreamInv'
<1>1. CASE UNCHANGED vars
  BY <1>1 DEF vars, locals, StreamInv, RestAligned, OpenAligned, HeadsKept,
              ContinuationKept, Resyncs, CutKeepsHeads, ContinuationCutIsFinal,
              ResyncAtRecordStart, Cut, Key, Position, PayloadLength
<1>2. CASE Call
  BY <1>2, EmptyStream, BeginStream, MiddleStream, FinalStream, MoreStream DEF Call
<1>3. CASE Compute
  BY <1>3, NoHeaderUnsynchronizedStream, NoHeaderSynchronizedStream, RejectedStream,
     AcceptedStream, ResetStream, ConcludeStream DEF Compute
<1>4. QED
  BY <1>1, <1>2, <1>3 DEF Next

LEMMA StreamInvariant == ASSUME CleanStreams PROVE Spec => [](TypeInv /\ StreamInv)
<1>1. Init => TypeInv /\ StreamInv
  BY TypeInit, StreamInit
<1>2. TypeInv /\ StreamInv /\ [Next]_vars => (TypeInv /\ StreamInv)'
  BY TypeStep, StreamStep
<1>3. QED
  BY <1>1, <1>2, PTL DEF Spec

(* After any history of losses, duplicates and reordering, an active record *)
(* is a record of the stream and its count points at that record's end.     *)
THEOREM Alignment == ASSUME CleanStreams PROVE Spec => []ActiveRecordAligned
<1>1. ASSUME TypeInv, StreamInv PROVE ActiveRecordAligned
  <2> SUFFICES ASSUME pc = "idle",
                      NEW d \in Direction, directions[d].has_active_record
               PROVE  \E s \in RecordStart[d] :
                         LET p == RecordEnd(d, s)
                                    - directions[d].active_record_remaining_bytes IN
                         /\ Inside(d, s, p)
                         /\ directions[d].expected_tcp_seq = SeqOf(d, p)
                         /\ directions[d].active_record_constrictible = IsAppData(d, s)
    BY DEF ActiveRecordAligned
  <2>1. PICK p \in Nat :
           /\ directions[d].expected_tcp_seq = SeqOf(d, p)
           /\ ActiveAt(d, directions[d], p)
    BY <1>1 DEF StreamInv, RestAligned
  <2>2. PICK s \in RecordStart[d] :
           /\ Inside(d, s, p)
           /\ directions[d].active_record_remaining_bytes = RecordEnd(d, s) - p
           /\ directions[d].active_record_constrictible = IsAppData(d, s)
    BY <2>1 DEF ActiveAt
  <2>3. RecordEnd(d, s) - directions[d].active_record_remaining_bytes = p
    BY <2>2, RecordFacts
  <2>4. QED
    BY <2>1, <2>2, <2>3
<1>2. QED
  BY <1>1, StreamInvariant, PTL

(* A cut never removes the configured head of an application data record.   *)
THEOREM HeadsAreKept == ASSUME CleanStreams PROVE Spec => []CutKeepsHeads
<1>1. TypeInv /\ StreamInv => CutKeepsHeads
  BY DEF StreamInv
<1>2. QED
  BY <1>1, StreamInvariant, PTL

(* final_only: the inside of a record is cut in its last segment only.      *)
THEOREM FinalOnly == ASSUME CleanStreams PROVE Spec => []ContinuationCutIsFinal
<1>1. TypeInv /\ StreamInv => ContinuationCutIsFinal
  BY DEF StreamInv
<1>2. QED
  BY <1>1, StreamInvariant, PTL

(* A confirmed direction finds its place again at the first record header   *)
(* that starts a segment.                                                   *)
THEOREM Resynchronizes == ASSUME CleanStreams PROVE Spec => []ResyncAtRecordStart
<1>1. TypeInv /\ StreamInv => ResyncAtRecordStart
  BY DEF StreamInv
<1>2. QED
  BY <1>1, StreamInvariant, PTL

-----------------------------------------------------------------------------
(* A bound on the steps a call still takes: one for every byte that is not  *)
(* parsed yet, and one for each of the two ways out of the loop.            *)
StepsToReturn ==
    IF pc = "idle" THEN 0
    ELSE IF outcome = "scan" THEN RemainingPayload + 2
    ELSE 1

CallProgresses ==
    [][Compute => StepsToReturn \in Nat /\ StepsToReturn' \in Nat
                    /\ StepsToReturn' < StepsToReturn]_vars

(* What EvaluateReturns rests on besides fairness: no step of Evaluate goes *)
(* back.  A record that is accepted takes at least its header away from     *)
(* what is left to parse, whatever the stream holds at that place.          *)
THEOREM EveryCallProgresses == Spec => CallProgresses
<1>1. TypeInv /\ [Next]_vars =>
          [Compute => StepsToReturn \in Nat /\ StepsToReturn' \in Nat
                        /\ StepsToReturn' < StepsToReturn]_vars
  <2> SUFFICES ASSUME TypeInv, Compute
               PROVE  StepsToReturn \in Nat /\ StepsToReturn' \in Nat
                        /\ StepsToReturn' < StepsToReturn
    OBVIOUS
  <2>1. /\ segment.lo \in Nat /\ segment.hi \in Nat /\ segment.lo <= segment.hi
        /\ payload_offset \in Nat
        /\ pc = "parse" => payload_offset <= PayloadLength(segment)
        /\ Key \in Direction
    BY DEF TypeInv, TypeOK, Key
  <2>2. pc = "parse"
    BY DEF Compute, ParseNoHeaderUnsynchronized, ParseNoHeaderSynchronized, ParseRejected,
           ParseOpenRecord, ParseWholeRecord, ParseAccepted, ConcludeReset, Conclude,
           Scanning, Parsed
  <2>3. /\ PayloadLength(segment) \in Nat
        /\ RemainingPayload = PayloadLength(segment) - payload_offset
        /\ RemainingPayload \in Nat
        /\ StepsToReturn \in Nat /\ StepsToReturn >= 1
        /\ outcome = "scan" => StepsToReturn = RemainingPayload + 2
    BY <2>1, <2>2 DEF PayloadLength, RemainingPayload, StepsToReturn
  <2>4. CASE \/ ParseNoHeaderUnsynchronized \/ ParseRejected
             \/ ConcludeReset \/ Conclude
    <3>1. pc' = "idle"
      BY <2>4 DEF ParseNoHeaderUnsynchronized, ParseRejected, ConcludeReset, Conclude, Return
    <3>2. StepsToReturn' = 0
      BY <3>1 DEF StepsToReturn
    <3> QED
      BY <2>3, <3>2
  <2>5. CASE ParseNoHeaderSynchronized
    <3>1. /\ pc' = "parse" /\ outcome' = "uncertain" /\ outcome = "scan"
      BY <2>2, <2>5 DEF ParseNoHeaderSynchronized, Scanning
    <3>2. StepsToReturn' = 1
      BY <3>1 DEF StepsToReturn
    <3> QED
      BY <2>3, <3>1, <3>2
  <2>6. CASE ParseOpenRecord \/ ParseWholeRecord
    <3> DEFINE h == Header[Key][Position]
    <3>1. /\ Scanning /\ ReadsHeader(segment, Position)
          /\ pc' = pc /\ segment' = segment /\ outcome' = outcome
      BY <2>6 DEF ParseOpenRecord, ParseWholeRecord, ParseAccepted
    <3>2. h.size \in Nat /\ h.size >= 1
      BY <2>1, <3>1, HeaderFacts DEF ReadsHeader, Key
    <3>3. \/ payload_offset' = PayloadLength(segment)
          \/ /\ payload_offset' = payload_offset + h.size
             /\ h.size <= RemainingPayload
      BY <2>6 DEF ParseOpenRecord, ParseWholeRecord
    <3>4. RemainingPayload' = PayloadLength(segment) - payload_offset'
      BY <3>1 DEF RemainingPayload, PayloadLength
    <3>5. outcome = "scan" /\ payload_offset < PayloadLength(segment)
      BY <3>1 DEF Scanning
    <3> HIDE DEF h
    <3>6. RemainingPayload' \in Nat /\ RemainingPayload' < RemainingPayload
      BY <2>1, <2>3, <3>2, <3>3, <3>4, <3>5
    <3>7. StepsToReturn' = RemainingPayload' + 2
      BY <2>2, <3>1, <3>5 DEF StepsToReturn
    <3>8. \A m, n \in Nat : m < n => m + 2 \in Nat /\ m + 2 < n + 2
      OBVIOUS
    <3>9. StepsToReturn = RemainingPayload + 2 /\ RemainingPayload \in Nat
      BY <2>3, <3>5
    <3> QED
      BY <2>3, <3>6, <3>7, <3>8, <3>9
  <2> QED
    BY <2>4, <2>5, <2>6 DEF Compute
<1>2. Init => TypeInv
  BY TypeInit
<1>3. TypeInv /\ [Next]_vars => TypeInv'
  BY TypeStep
<1> QED
  BY <1>1, <1>2, <1>3, PTL DEF Spec, CallProgresses

-----------------------------------------------------------------------------
(* What a cut removes. *)

(* Place x of the stream lies in an application data record, or directly    *)
(* behind it, and that record has bytes at or behind lo.                    *)
InApplicationData(d, lo, x) ==
    \E s \in RecordStart[d] :
        /\ IsAppData(d, s)
        /\ s <= x
        /\ x <= RecordEnd(d, s)
        /\ lo < RecordEnd(d, s)

(* A candidate is always a place in application data. *)
CandidateInv ==
    pc = "parse" /\ outcome = "scan" /\ candidate_payload_size < PayloadLength(segment) =>
        InApplicationData(Key, segment.lo, segment.lo + candidate_payload_size)

CutIsInApplicationData ==
    Cut => InApplicationData(segment.dir, segment.lo, segment.lo + result.keep)

(* The streams in which the sender has nothing but application data to say  *)
(* once it has begun with it: no alert that closes, no new session ticket,  *)
(* no bytes outside records.                                                *)
OnlyDataBehindData ==
    \A d \in Direction :
        \A s \in RecordStart[d] :
            IsAppData(d, s) =>
                \A q \in RecordEnd(d, s) .. (StreamEnd[d] - 1) :
                    \E t \in RecordStart[d] :
                        IsAppData(d, t) /\ t <= q /\ q < RecordEnd(d, t)

(* The last segment of an application data record has its candidate in it.  *)
LEMMA FinalCandidate ==
    ASSUME CleanStreams, TypeInv, StreamInv, NEW s \in Segment, ContinueFinal(s)
    PROVE  CandidateInv'
<1> DEFINE state == EntryState(s)
           len == PayloadLength(s)
<1>1. /\ s.dir \in Direction /\ s.lo \in Nat /\ s.hi \in Nat
      /\ len \in Nat /\ len = s.hi - s.lo
  BY SegmentFacts DEF PayloadLength
<1>2. /\ Enter(s, ClearActiveRecord(state)) /\ state.has_active_record
      /\ state.active_record_remaining_bytes = len
      /\ candidate_payload_size' =
             IF state.active_record_constrictible
             THEN ClampedKeepSize(ContinuationKeep, len)
             ELSE len
      /\ pc = "idle" /\ len > 0
      /\ segment' = s
  BY DEF ContinueFinal, Enter
<1>3. PICK r \in RecordStart[s.dir] :
         /\ Inside(s.dir, r, s.lo)
         /\ RecordEnd(s.dir, r) = s.lo + state.active_record_remaining_bytes
         /\ state.active_record_constrictible = IsAppData(s.dir, r)
  BY <1>2, ContinuedRecord
<1> HIDE DEF state, len
<1>4. SUFFICES ASSUME candidate_payload_size' < len
               PROVE  InApplicationData(s.dir, s.lo, s.lo + candidate_payload_size')
  BY <1>2 DEF CandidateInv, Key, InApplicationData, len
<1>5. /\ candidate_payload_size' = ClampedKeepSize(ContinuationKeep, len)
      /\ IsAppData(s.dir, r)
  BY <1>1, <1>2, <1>3, <1>4
<1>6. ClampedKeepSize(ContinuationKeep, len) \in Nat
  BY <1>1, ClampType, SizeAssumption
<1>7. /\ RecordEnd(s.dir, r) = s.lo + len /\ s.lo < RecordEnd(s.dir, r)
      /\ r < s.lo /\ r \in Nat
  BY <1>1, <1>2, <1>3, RecordFacts DEF Inside
<1>8. r <= s.lo + candidate_payload_size' /\ s.lo + candidate_payload_size' <= RecordEnd(s.dir, r)
  BY <1>1, <1>4, <1>5, <1>6, <1>7
<1> QED
  BY <1>5, <1>7, <1>8 DEF InApplicationData

(* So has a record that is accepted in the loop. *)
LEMMA AcceptedCandidate ==
    ASSUME CleanStreams, TypeInv, StreamInv, CandidateInv, ParseOpenRecord \/ ParseWholeRecord
    PROVE  CandidateInv'
<1> DEFINE h == Header[Key][Position]
<1>1. /\ ParseAccepted(h) /\ Scanning /\ ReadsHeader(segment, Position)
      /\ candidate_payload_size' =
             IF h.type = "application_data" THEN RecordCandidate(h) ELSE candidate_payload_size
      /\ pc' = pc /\ segment' = segment /\ outcome' = outcome
  BY DEF ParseOpenRecord, ParseWholeRecord, ParseAccepted
<1>2. /\ Key \in Direction
      /\ segment.lo \in Nat /\ segment.hi \in Nat
      /\ payload_offset \in Nat
      /\ Position = segment.lo + payload_offset
      /\ Position < segment.hi
      /\ RemainingPayload = segment.hi - Position
      /\ PayloadLength(segment) = segment.hi - segment.lo
  BY <1>1, ScanningFacts
<1>3. Position \in RecordStart[Key]
  BY <1>1, <1>2 DEF CleanStreams, ReadsHeader, Key
<1>4. h.size \in Nat /\ h.size >= 1 /\ RecordEnd(Key, Position) = Position + h.size
  BY <1>1, <1>2, HeaderFacts DEF ReadsHeader, Key, RecordEnd
<1>5. CASE h.type = "application_data"
  <2> DEFINE n == ClampedKeepSize(h.size, RemainingPayload)
             m == ClampedKeepSize(AppDataKeep, n)
  <2>1. RemainingPayload \in Nat
    BY <1>2
  <2>2. n \in Nat /\ n <= h.size
    BY <1>4, <2>1 DEF ClampedKeepSize
  <2>3. m \in Nat /\ m <= n
    BY <2>2, ClampType, SizeAssumption
  <2>4. candidate_payload_size' = payload_offset + m
    BY <1>1, <1>5 DEF RecordCandidate
  <2>5. IsAppData(Key, Position)
    BY <1>5 DEF IsAppData
  <2> HIDE DEF n, m
  <2> HIDE DEF h
  <2>6. /\ Position <= segment.lo + candidate_payload_size'
        /\ segment.lo + candidate_payload_size' <= RecordEnd(Key, Position)
        /\ segment.lo < RecordEnd(Key, Position)
    BY <1>2, <1>4, <2>2, <2>3, <2>4
  <2>7. InApplicationData(Key, segment.lo, segment.lo + candidate_payload_size')
    BY <1>3, <2>5, <2>6 DEF InApplicationData
  <2> QED
    BY <1>1, <2>7 DEF CandidateInv, Key, InApplicationData
<1>6. CASE h.type # "application_data"
  BY <1>1, <1>6 DEF CandidateInv, Key, InApplicationData
<1> QED
  BY <1>5, <1>6

LEMMA CandidateStep ==
    ASSUME CleanStreams, TypeInv, StreamInv, CandidateInv, CutIsInApplicationData,
           [Next]_vars
    PROVE  CandidateInv' /\ CutIsInApplicationData'
<1>1. ASSUME pc' = "parse" PROVE CutIsInApplicationData'
  BY <1>1 DEF CutIsInApplicationData, Cut
<1>2. ASSUME pc' = "idle", result'.disposition # "app_data_prefix"
      PROVE  CandidateInv' /\ CutIsInApplicationData'
  BY <1>2 DEF CandidateInv, CutIsInApplicationData, Cut
<1>3. CASE UNCHANGED vars
  BY <1>3 DEF vars, locals, CandidateInv, CutIsInApplicationData, Cut, Key, InApplicationData
<1>4. ASSUME NEW s \in Segment, EvaluateEmpty(s)
      PROVE  CandidateInv' /\ CutIsInApplicationData'
  BY <1>2, <1>4 DEF EvaluateEmpty
<1>5. ASSUME NEW s \in Segment,
             BeginAtRecord(s) \/ ContinueMiddle(s) \/ ContinueAndMore(s)
      PROVE  CandidateInv' /\ CutIsInApplicationData'
  <2>1. /\ pc' = "parse" /\ segment' = s
        /\ candidate_payload_size' = PayloadLength(s)
    BY <1>5 DEF BeginAtRecord, ContinueMiddle, ContinueAndMore, Enter
  <2>2. PayloadLength(s) \in Nat
    BY SegmentFacts
  <2>3. ~(candidate_payload_size' < PayloadLength(segment'))
    BY <2>1, <2>2
  <2> QED
    BY <1>1, <2>1, <2>3 DEF CandidateInv, PayloadLength
<1>6. ASSUME NEW s \in Segment, ContinueFinal(s)
      PROVE  CandidateInv' /\ CutIsInApplicationData'
  BY <1>1, <1>6, FinalCandidate DEF ContinueFinal, Enter
<1>7. CASE ParseNoHeaderUnsynchronized \/ ParseRejected \/ ConcludeReset
  BY <1>2, <1>7 DEF ParseNoHeaderUnsynchronized, ParseRejected, ConcludeReset, Return
<1>8. CASE ParseNoHeaderSynchronized
  BY <1>1, <1>8 DEF ParseNoHeaderSynchronized, Scanning, CandidateInv
<1>9. CASE ParseOpenRecord \/ ParseWholeRecord
  <2>1. pc' = "parse"
    BY <1>9 DEF ParseOpenRecord, ParseWholeRecord, ParseAccepted, Scanning
  <2> QED
    BY <1>1, <1>9, <2>1, AcceptedCandidate
<1>10. CASE Conclude
  <2>1. pc = "parse" /\ pc' = "idle" /\ segment' = segment
    BY <1>10 DEF Conclude, Parsed, Return
  <2>2. CASE IsCut /\ Return("app_data_prefix", candidate_payload_size)
    <3>1. result'.keep = candidate_payload_size
      BY <2>2 DEF Return
    <3>2. InApplicationData(Key, segment.lo, segment.lo + candidate_payload_size)
      BY <2>1, <2>2 DEF IsCut, CandidateInv
    <3> QED
      BY <2>1, <3>1, <3>2 DEF CandidateInv, CutIsInApplicationData, Key, InApplicationData
  <2>3. CASE ~(IsCut /\ Return("app_data_prefix", candidate_payload_size))
    <3>1. result'.disposition # "app_data_prefix"
      BY <1>10, <2>3 DEF Conclude, Return
    <3> QED
      BY <1>2, <2>1, <3>1
  <2> QED
    BY <2>2, <2>3
<1> QED
  BY <1>3, <1>4, <1>5, <1>6, <1>7, <1>8, <1>9, <1>10 DEF Next, Call, Compute

(* In streams without lookalikes the place of a cut is always in an         *)
(* application data record that the segment holds a part of, or at its end: *)
(* no handshake in front of the data is ever shortened.                     *)
THEOREM CutsAreInApplicationData ==
    ASSUME CleanStreams PROVE Spec => []CutIsInApplicationData
<1>1. Init => CandidateInv /\ CutIsInApplicationData
  BY DEF Init, CandidateInv, CutIsInApplicationData, Cut
<1>2. TypeInv /\ StreamInv /\ CandidateInv /\ CutIsInApplicationData /\ [Next]_vars
         => (CandidateInv /\ CutIsInApplicationData)'
  BY CandidateStep
<1>3. Spec => [](TypeInv /\ StreamInv)
  BY StreamInvariant
<1> QED
  BY <1>1, <1>2, <1>3, PTL DEF Spec

(* README.md's "TLS Application Data constriction" is true to the letter of *)
(* all streams in which nothing else follows application data: what the     *)
(* finding about OnlyApplicationDataIsDropped shows, another record behind  *)
(* the data in the same segment, is the only way to lose anything else.     *)
THEOREM DataStreamsLoseOnlyData ==
    ASSUME CleanStreams, OnlyDataBehindData
    PROVE  Spec => []OnlyApplicationDataIsDropped
<1>1. TypeInv /\ CutIsInApplicationData => OnlyApplicationDataIsDropped
  <2> SUFFICES ASSUME TypeInv, CutIsInApplicationData, Cut,
                      NEW q \in (segment.lo + result.keep) .. (segment.hi - 1)
               PROVE  \E s \in RecordStart[segment.dir] :
                         /\ IsAppData(segment.dir, s)
                         /\ s <= q
                         /\ q < RecordEnd(segment.dir, s)
    BY DEF OnlyApplicationDataIsDropped
  <2>1. /\ segment.dir \in Direction
        /\ segment.lo \in Nat /\ segment.hi \in Nat /\ result.keep \in Nat
        /\ segment.hi <= StreamEnd[segment.dir] /\ StreamEnd[segment.dir] \in Nat
    BY StreamAssumption DEF TypeInv, TypeOK
  <2>2. PICK s \in RecordStart[segment.dir] :
           /\ IsAppData(segment.dir, s)
           /\ s <= segment.lo + result.keep
    BY DEF CutIsInApplicationData, InApplicationData
  <2>3. s \in Nat /\ RecordEnd(segment.dir, s) \in Nat
    BY <2>1, RecordFacts
  <2>4. s <= q
    BY <2>1, <2>2, <2>3
  <2>5. CASE q < RecordEnd(segment.dir, s)
    BY <2>2, <2>4, <2>5
  <2>6. CASE ~(q < RecordEnd(segment.dir, s))
    <3>1. q \in RecordEnd(segment.dir, s) .. (StreamEnd[segment.dir] - 1)
      BY <2>1, <2>3, <2>6
    <3> QED
      BY <2>1, <2>2, <3>1 DEF OnlyDataBehindData
  <2> QED
    BY <2>5, <2>6
<1>2. Spec => [](TypeInv /\ StreamInv)
  BY StreamInvariant
<1>3. Spec => []CutIsInApplicationData
  BY CutsAreInApplicationData
<1> QED
  BY <1>1, <1>2, <1>3, PTL

=============================================================================
