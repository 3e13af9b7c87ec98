------------------------- MODULE QuicConstrictorProofs -------------------------
(***************************************************************************)
(* Proofs about QuicConstrictor, for every set of endpoints, connection    *)
(* IDs and datagrams.                                                      *)
(*                                                                         *)
(* The code keys flows by the ordered pair of their endpoints and keeps    *)
(* two connection IDs for each; the properties speak of what one endpoint  *)
(* announced to another.  The invariant Canonical relates the two.         *)
(***************************************************************************)
EXTENDS QuicConstrictor, TLAPS

(* What is kept for the packets that t sends to s is what s has announced   *)
(* to t, and nothing is kept for a socket that talks to itself.             *)
Canonical ==
    \A s, t \in Endpoint :
        /\ s < t => latest[<<s, t>>] = flow_states[<<s, t>>].endpoint_a_scid
        /\ t < s => latest[<<s, t>>] = flow_states[<<t, s>>].endpoint_b_scid
        /\ s = t => flow_states[<<s, t>>].endpoint_b_scid = Unknown

(* The walk stops only where something can be read. *)
OnReading == offset < datagram.length => offset \in DOMAIN datagram.reading

TrackerInv == TypeOK /\ Canonical /\ OnReading

-----------------------------------------------------------------------------
LEMMA DatagramFacts ==
    ASSUME TypeOK
    PROVE  /\ datagram.src \in Nat /\ datagram.src \in Endpoint
           /\ datagram.dst \in Nat /\ datagram.dst \in Endpoint
           /\ datagram.length \in Nat \ {0}
           /\ offset \in 0 .. datagram.length
BY DatagramAssumption, QuicAssumption DEF TypeOK

LEMMA HereFacts ==
    ASSUME TypeOK, OnReading, offset < datagram.length
    PROVE  /\ Here \in Reading
           /\ Here.form = "long" => offset < Here.end
           /\ Here.form = "long" /\ Here.end < datagram.length =>
                 Here.end \in DOMAIN datagram.reading
           /\ Here.form = "short" => Len(Here.body) = datagram.length - offset - 1
BY DatagramAssumption DEF TypeOK, OnReading, Here

LEMMA FlowFacts ==
    ASSUME TypeOK
    PROVE  /\ Flow.key \in Endpoint \X Endpoint
           /\ Flow.direction \in {"AToB", "BToA"}
           /\ datagram.src <= datagram.dst =>
                 Flow = [key |-> <<datagram.src, datagram.dst>>, direction |-> "AToB"]
           /\ datagram.dst < datagram.src =>
                 Flow = [key |-> <<datagram.dst, datagram.src>>, direction |-> "BToA"]
BY DatagramFacts DEF Flow, MakeCanonicalFlow

LEMMA KnownType == ASSUME NEW cid \in ConnectionId PROVE Known(cid) \in LearnedId
BY DEF Known, LearnedId

LEMMA UnknownType == Unknown \in LearnedId
<1>1. <<>> \in ConnectionId
    BY DEF ConnectionId
<1> QED
    BY <1>1 DEF Unknown, LearnedId

(* ExpectedDcid is what the receiver has announced to the sender. *)
LEMMA ExpectedIsPeerCid ==
    ASSUME TrackerInv
    PROVE  /\ ExpectedDcid \in LearnedId
           /\ PeerCid \in LearnedId
           /\ datagram.src # datagram.dst => ExpectedDcid = PeerCid
           /\ datagram.src = datagram.dst => ExpectedDcid = Unknown
<1>1. ExpectedDcid \in LearnedId /\ PeerCid \in LearnedId
    BY FlowFacts, DatagramFacts DEF TrackerInv, TypeOK, FlowState, ExpectedDcid, PeerCid
<1>2. /\ datagram.src \in Nat /\ datagram.dst \in Nat
      /\ datagram.src \in Endpoint /\ datagram.dst \in Endpoint
    BY DatagramFacts DEF TrackerInv
<1>3. CASE datagram.src < datagram.dst
  <2>1. Flow = [key |-> <<datagram.src, datagram.dst>>, direction |-> "AToB"]
    BY <1>2, <1>3, FlowFacts DEF TrackerInv
  <2>2. ExpectedDcid = flow_states[<<datagram.src, datagram.dst>>].endpoint_b_scid
    BY <2>1 DEF ExpectedDcid
  <2> QED
    BY <1>1, <1>2, <1>3, <2>2 DEF TrackerInv, Canonical, PeerCid
<1>4. CASE datagram.dst < datagram.src
  <2>1. Flow = [key |-> <<datagram.dst, datagram.src>>, direction |-> "BToA"]
    BY <1>2, <1>4, FlowFacts DEF TrackerInv
  <2>2. ExpectedDcid = flow_states[<<datagram.dst, datagram.src>>].endpoint_a_scid
    BY <2>1 DEF ExpectedDcid
  <2> QED
    BY <1>1, <1>2, <1>4, <2>2 DEF TrackerInv, Canonical, PeerCid
<1>5. CASE datagram.dst = datagram.src
  <2>1. Flow = [key |-> <<datagram.src, datagram.dst>>, direction |-> "AToB"]
    BY <1>2, <1>5, FlowFacts DEF TrackerInv
  <2>2. ExpectedDcid = flow_states[<<datagram.src, datagram.dst>>].endpoint_b_scid
    BY <2>1 DEF ExpectedDcid
  <2> QED
    BY <1>1, <1>2, <1>5, <2>2 DEF TrackerInv, Canonical, PeerCid
<1> QED
    BY <1>2, <1>3, <1>4, <1>5

(* KeepOfShort keeps at least n bytes if it cuts at all. *)
LEMMA KeepFacts ==
    ASSUME TypeOK, NEW n \in Nat
    PROVE  /\ KeepOfShort(n) \in Nat
           /\ KeepOfShort(n) <= datagram.length
           /\ Walking("short") /\ n >= 1 => KeepOfShort(n) >= 1
           /\ KeepOfShort(n) < datagram.length => KeepOfShort(n) = offset + n
BY DatagramFacts DEF KeepOfShort, Walking

(* Updating a function of two endpoints. *)
LEMMA PairExcept ==
    ASSUME NEW S, NEW f \in [Endpoint \X Endpoint -> S], NEW v,
           NEW i \in Endpoint, NEW j \in Endpoint,
           NEW s \in Endpoint, NEW t \in Endpoint
    PROVE  [f EXCEPT ![<<i, j>>] = v][<<s, t>>] =
               IF s = i /\ t = j THEN v ELSE f[<<s, t>>]
OBVIOUS

-----------------------------------------------------------------------------
LEMMA InitTracker == Init => TrackerInv
<1> SUFFICES ASSUME Init PROVE TrackerInv
    OBVIOUS
<1>1. /\ NoFlow \in FlowState
      /\ NoFlow.endpoint_a_scid = Unknown
      /\ NoFlow.endpoint_b_scid = Unknown
    BY UnknownType DEF NoFlow, FlowState
<1>2. flow_states \in [Endpoint \X Endpoint -> FlowState]
    BY <1>1 DEF Init
<1>3. latest \in [Endpoint \X Endpoint -> LearnedId]
    BY UnknownType DEF Init
<1>4. TypeOK
  <2>1. /\ datagram \in Datagram /\ offset \in 0 .. datagram.length
        /\ 0 <= datagram.length
    BY DatagramAssumption DEF Init
  <2> QED
    BY <1>2, <1>3, <2>1 DEF Init, TypeOK
<1>5. Canonical
    BY <1>1 DEF Init, Canonical
<1>6. OnReading
    BY DatagramAssumption DEF Init, OnReading
<1> QED
    BY <1>4, <1>5, <1>6 DEF TrackerInv

(* A call that returns leaves what has been learned alone. *)
LEMMA ReturnKeepsTracker ==
    ASSUME TrackerInv, NEW disposition, NEW keep \in 1 .. datagram.length,
           Return(disposition, keep),
           disposition \in {"not_applicable", "long_header", "short_matched",
                            "unknown_cid", "dcid_mismatch", "malformed"}
    PROVE  TrackerInv'
<1>1. TypeOK'
    BY DatagramFacts DEF TrackerInv, TypeOK, Return
<1>2. Canonical' /\ OnReading'
    BY DEF TrackerInv, Canonical, OnReading, Return
<1> QED
    BY <1>1, <1>2 DEF TrackerInv

(* Learning changes one side of one flow: the one of the sender. *)
LEMMA LearnKeepsTracker == TrackerInv /\ LongHeaderParsed => TrackerInv'
<1> SUFFICES ASSUME TrackerInv, LongHeaderParsed PROVE TrackerInv'
    OBVIOUS
<1> DEFINE src == datagram.src
           dst == datagram.dst
           cid == Here.scid
<1>1. /\ TypeOK /\ Canonical /\ OnReading
      /\ src \in Nat /\ dst \in Nat /\ src \in Endpoint /\ dst \in Endpoint
      /\ Endpoint \subseteq Nat
    BY DatagramFacts, QuicAssumption DEF TrackerInv
<1>2. /\ pc = "walk" /\ offset < datagram.length /\ Here.form = "long"
      /\ datagram' = datagram /\ pc' = pc /\ result' = result
    BY DEF LongHeaderParsed, Walking
<1>3. /\ Here \in Reading
      /\ cid \in ConnectionId
      /\ Here.end \in Nat
      /\ offset < Here.end
      /\ Here.end < datagram.length => Here.end \in DOMAIN datagram.reading
    BY <1>1, <1>2, HereFacts DEF Reading
<1>4. offset' \in 0 .. datagram.length
    BY <1>1, <1>3, DatagramFacts DEF LongHeaderParsed, ParseLongHeaderSucceeds
<1>5. OnReading'
    BY <1>1, <1>2, <1>3, DatagramFacts DEF LongHeaderParsed, OnReading
<1>6. Known(cid) \in LearnedId
    BY <1>3, KnownType
<1>7. CASE cid = <<>>
  <2>1. flow_states' = flow_states /\ latest' = latest
    BY <1>1, <1>7, FlowFacts DEF LongHeaderParsed, Learn, TypeOK
  <2>2. TypeOK'
    BY <1>1, <1>2, <1>4, <2>1 DEF TypeOK, LongHeaderParsed
  <2>3. Canonical'
    BY <1>1, <2>1 DEF Canonical
  <2> QED
    BY <1>5, <2>2, <2>3 DEF TrackerInv
<1>8. CASE cid # <<>>
  <2>1. latest' = [latest EXCEPT ![<<src, dst>>] = Known(cid)]
    BY <1>8 DEF LongHeaderParsed
  <2>2. latest' \in [Endpoint \X Endpoint -> LearnedId]
    BY <1>1, <1>6, <2>1 DEF TypeOK
  <2>3. CASE src <= dst
    <3>1. flow_states' = [flow_states EXCEPT ![<<src, dst>>] =
                              [@ EXCEPT !.endpoint_a_scid = Known(cid)]]
      <4>1. Flow = [key |-> <<src, dst>>, direction |-> "AToB"]
        BY <1>1, <2>3, FlowFacts
      <4>2. flow_states' = Learn(cid)
        BY DEF LongHeaderParsed
      <4> QED
        BY <1>8, <4>1, <4>2 DEF Learn
    <3>2. flow_states[<<src, dst>>] \in FlowState
        BY <1>1 DEF TypeOK
    <3>3. [flow_states[<<src, dst>>] EXCEPT !.endpoint_a_scid = Known(cid)] \in FlowState
        BY <1>6, <3>2 DEF FlowState
    <3>4. flow_states' \in [Endpoint \X Endpoint -> FlowState]
        BY <1>1, <3>1, <3>3 DEF TypeOK
    <3>5. TypeOK'
        BY <1>1, <1>2, <1>4, <2>2, <3>4 DEF TypeOK, LongHeaderParsed
    <3>6. \A s, t \in Endpoint :
             /\ latest'[<<s, t>>] =
                    IF s = src /\ t = dst THEN Known(cid) ELSE latest[<<s, t>>]
             /\ flow_states'[<<s, t>>] =
                    IF s = src /\ t = dst
                    THEN [flow_states[<<src, dst>>] EXCEPT !.endpoint_a_scid = Known(cid)]
                    ELSE flow_states[<<s, t>>]
        BY <1>1, <2>1, <3>1, PairExcept DEF TypeOK
    <3>7. /\ [flow_states[<<src, dst>>] EXCEPT !.endpoint_a_scid = Known(cid)].endpoint_a_scid
                = Known(cid)
          /\ [flow_states[<<src, dst>>] EXCEPT !.endpoint_a_scid = Known(cid)].endpoint_b_scid
                = flow_states[<<src, dst>>].endpoint_b_scid
        BY <3>2 DEF FlowState
    <3>8. Canonical'
      <4> SUFFICES ASSUME NEW s \in Endpoint, NEW t \in Endpoint
                   PROVE  /\ s < t => latest'[<<s, t>>] = flow_states'[<<s, t>>].endpoint_a_scid
                          /\ t < s => latest'[<<s, t>>] = flow_states'[<<t, s>>].endpoint_b_scid
                          /\ s = t => flow_states'[<<s, t>>].endpoint_b_scid = Unknown
        BY DEF Canonical
      <4>1. /\ s < t => latest[<<s, t>>] = flow_states[<<s, t>>].endpoint_a_scid
            /\ t < s => latest[<<s, t>>] = flow_states[<<t, s>>].endpoint_b_scid
            /\ s = t => flow_states[<<s, t>>].endpoint_b_scid = Unknown
            /\ s \in Nat /\ t \in Nat
        BY <1>1 DEF Canonical
      <4> HIDE DEF src, dst, cid
      <4>2. CASE s = src /\ t = dst
        <5>1. latest'[<<s, t>>] = Known(cid)
            BY <3>6, <4>2
        <5>2. flow_states'[<<src, dst>>].endpoint_a_scid = Known(cid)
            BY <1>1, <3>6, <3>7
        <5>3. src = dst => flow_states'[<<src, dst>>].endpoint_b_scid = Unknown
            BY <1>1, <2>3, <3>6, <3>7, <4>1, <4>2
        <5> QED
            BY <1>1, <2>3, <4>1, <4>2, <5>1, <5>2, <5>3
      <4>3. CASE ~(s = src /\ t = dst)
        <5>1. latest'[<<s, t>>] = latest[<<s, t>>]
            BY <3>6, <4>3
        <5>2. /\ flow_states'[<<s, t>>].endpoint_b_scid = flow_states[<<s, t>>].endpoint_b_scid
              /\ flow_states'[<<t, s>>].endpoint_b_scid = flow_states[<<t, s>>].endpoint_b_scid
            BY <3>6, <3>7
        <5>3. flow_states'[<<s, t>>] = flow_states[<<s, t>>]
            BY <3>6, <4>3
        <5> QED
            BY <1>1, <2>3, <4>1, <5>1, <5>2, <5>3
      <4> QED
        BY <4>2, <4>3
    <3> QED
        BY <1>5, <3>5, <3>8 DEF TrackerInv
  <2>4. CASE dst < src
    <3>1. flow_states' = [flow_states EXCEPT ![<<dst, src>>] =
                              [@ EXCEPT !.endpoint_b_scid = Known(cid)]]
      <4>1. Flow = [key |-> <<dst, src>>, direction |-> "BToA"]
        BY <1>1, <2>4, FlowFacts
      <4>2. flow_states' = Learn(cid)
        BY DEF LongHeaderParsed
      <4> QED
        BY <1>8, <4>1, <4>2 DEF Learn
    <3>2. flow_states[<<dst, src>>] \in FlowState
        BY <1>1 DEF TypeOK
    <3>3. [flow_states[<<dst, src>>] EXCEPT !.endpoint_b_scid = Known(cid)] \in FlowState
        BY <1>6, <3>2 DEF FlowState
    <3>4. flow_states' \in [Endpoint \X Endpoint -> FlowState]
        BY <1>1, <3>1, <3>3 DEF TypeOK
    <3>5. TypeOK'
        BY <1>1, <1>2, <1>4, <2>2, <3>4 DEF TypeOK, LongHeaderParsed
    <3>6. \A s, t \in Endpoint :
             /\ latest'[<<s, t>>] =
                    IF s = src /\ t = dst THEN Known(cid) ELSE latest[<<s, t>>]
             /\ flow_states'[<<s, t>>] =
                    IF s = dst /\ t = src
                    THEN [flow_states[<<dst, src>>] EXCEPT !.endpoint_b_scid = Known(cid)]
                    ELSE flow_states[<<s, t>>]
        BY <1>1, <2>1, <3>1, PairExcept DEF TypeOK
    <3>7. /\ [flow_states[<<dst, src>>] EXCEPT !.endpoint_b_scid = Known(cid)].endpoint_b_scid
                = Known(cid)
          /\ [flow_states[<<dst, src>>] EXCEPT !.endpoint_b_scid = Known(cid)].endpoint_a_scid
                = flow_states[<<dst, src>>].endpoint_a_scid
        BY <3>2 DEF FlowState
    <3>8. Canonical'
      <4> SUFFICES ASSUME NEW s \in Endpoint, NEW t \in Endpoint
                   PROVE  /\ s < t => latest'[<<s, t>>] = flow_states'[<<s, t>>].endpoint_a_scid
                          /\ t < s => latest'[<<s, t>>] = flow_states'[<<t, s>>].endpoint_b_scid
                          /\ s = t => flow_states'[<<s, t>>].endpoint_b_scid = Unknown
        BY DEF Canonical
      <4>1. /\ s < t => latest[<<s, t>>] = flow_states[<<s, t>>].endpoint_a_scid
            /\ t < s => latest[<<s, t>>] = flow_states[<<t, s>>].endpoint_b_scid
            /\ s = t => flow_states[<<s, t>>].endpoint_b_scid = Unknown
            /\ s \in Nat /\ t \in Nat
        BY <1>1 DEF Canonical
      <4> HIDE DEF src, dst, cid
      <4>2. CASE s = src /\ t = dst
        <5>1. latest'[<<s, t>>] = Known(cid)
            BY <3>6, <4>2
        <5>2. flow_states'[<<dst, src>>].endpoint_b_scid = Known(cid)
            BY <1>1, <3>6, <3>7
        <5> QED
            BY <1>1, <2>4, <4>1, <4>2, <5>1, <5>2
      <4>3. CASE ~(s = src /\ t = dst)
        <5>1. latest'[<<s, t>>] = latest[<<s, t>>]
            BY <3>6, <4>3
        <5>2. /\ flow_states'[<<s, t>>].endpoint_a_scid = flow_states[<<s, t>>].endpoint_a_scid
              /\ flow_states'[<<t, s>>].endpoint_a_scid = flow_states[<<t, s>>].endpoint_a_scid
            BY <3>6, <3>7
        <5>3. flow_states'[<<t, s>>] = flow_states[<<t, s>>]
            BY <3>6, <4>3
        <5>4. s = t => flow_states'[<<s, t>>] = flow_states[<<s, t>>]
            BY <1>1, <2>4, <3>6
        <5> QED
            BY <1>1, <2>4, <4>1, <5>1, <5>2, <5>3, <5>4
      <4> QED
        BY <4>2, <4>3
    <3> QED
        BY <1>5, <3>5, <3>8 DEF TrackerInv
  <2> QED
    BY <1>1, <2>3, <2>4
<1> QED
    BY <1>7, <1>8

(* Every call either learns or returns a verdict; the length of the datagram *)
(* and KeepOfShort are what it may return.                                   *)
LEMMA StepTracker == TrackerInv /\ [Next]_vars => TrackerInv'
<1> SUFFICES ASSUME TrackerInv, [Next]_vars PROVE TrackerInv'
    OBVIOUS
<1>1. datagram.length \in 1 .. datagram.length
    BY DatagramFacts DEF TrackerInv
<1>2. CASE UNCHANGED vars
    BY <1>2 DEF vars, TrackerInv, TypeOK, Canonical, OnReading
<1>3. ASSUME NEW d \in Datagram, Call(d) PROVE TrackerInv'
  <2>1. TypeOK'
    <3>1. datagram' \in Datagram /\ offset' \in 0 .. datagram'.length
        BY <1>3, DatagramAssumption DEF Call
    <3> QED
        BY <1>3, <3>1 DEF TrackerInv, TypeOK, Call
  <2>2. Canonical' /\ OnReading'
    BY <1>3, DatagramAssumption DEF TrackerInv, Canonical, OnReading, Call
  <2> QED
    BY <2>1, <2>2 DEF TrackerInv
<1>4. CASE LongHeaderFails
    BY <1>1, <1>4, ReturnKeepsTracker DEF LongHeaderFails
<1>5. CASE OnlyLongHeaders
    BY <1>1, <1>5, ReturnKeepsTracker DEF OnlyLongHeaders
<1>6. CASE NotShort
    BY <1>1, <1>6, ReturnKeepsTracker DEF NotShort
<1>7. CASE ShortUnknown
  <2>1. AtLeast(KeepBytes, 1) \in Nat /\ AtLeast(KeepBytes, 1) >= 1
    BY QuicAssumption DEF AtLeast
  <2>2. KeepOfShort(AtLeast(KeepBytes, 1)) \in 1 .. datagram.length
    BY <1>1, <1>7, <2>1, KeepFacts DEF TrackerInv, ShortUnknown
  <2> QED
    BY <1>1, <1>7, <2>2, ReturnKeepsTracker DEF ShortUnknown
<1>8. CASE ShortTruncated
    BY <1>1, <1>8, ReturnKeepsTracker DEF ShortTruncated
<1>9. CASE ShortMismatch
    BY <1>1, <1>9, ReturnKeepsTracker DEF ShortMismatch
<1>10. CASE ShortMatched
  <2>1. Len(ExpectedDcid.bytes) \in Nat
    BY ExpectedIsPeerCid DEF LearnedId, ConnectionId
  <2>2. /\ AtLeast(KeepBytes, 1 + Len(ExpectedDcid.bytes)) \in Nat
        /\ AtLeast(KeepBytes, 1 + Len(ExpectedDcid.bytes)) >= 1
    BY <2>1, QuicAssumption DEF AtLeast
  <2>3. KeepOfShort(AtLeast(KeepBytes, 1 + Len(ExpectedDcid.bytes))) \in 1 .. datagram.length
    BY <1>1, <1>10, <2>2, KeepFacts DEF TrackerInv, ShortMatched
  <2> QED
    BY <1>10, <2>3, ReturnKeepsTracker DEF ShortMatched
<1> QED
    BY <1>2, <1>3, <1>4, <1>5, <1>6, <1>7, <1>8, <1>9, <1>10, LearnKeepsTracker DEF Next

THEOREM QuicTracker == Spec => []TrackerInv
<1> QED
    BY InitTracker, StepTracker, PTL DEF Spec

-----------------------------------------------------------------------------
(* The configurations that ask for a connection ID that is known. *)
Strict == RequireMatch \/ ~AllowUnknown

Verdicts ==
    /\ MatchedIsFound
    /\ CutKeepsHead
    /\ Strict => OnlyMatchedIsCut

(* A verdict is about the datagram and the connection IDs it was made with. *)
LEMMA ReturnFacts ==
    ASSUME NEW disposition, NEW keep, Return(disposition, keep)
    PROVE  /\ datagram' = datagram /\ offset' = offset
           /\ Here' = Here /\ PeerCid' = PeerCid /\ IsMatched' = IsMatched
           /\ result' = [disposition |-> disposition, keep |-> keep]
<1>1. /\ datagram' = datagram /\ offset' = offset /\ latest' = latest
      /\ result' = [disposition |-> disposition, keep |-> keep]
    BY DEF Return
<1>2. Here' = Here /\ PeerCid' = PeerCid
    BY <1>1 DEF Here, PeerCid
<1> QED
    BY <1>1, <1>2 DEF IsMatched

(* A verdict on anything but a short header packet, or during a call. *)
LEMMA NoShortVerdict ==
    ASSUME ~Returned("short")'
    PROVE  Verdicts'
BY DEF Verdicts, MatchedIsFound, CutKeepsHead, OnlyMatchedIsCut

(* A datagram that is kept whole was not recognized. *)
LEMMA KeptWhole ==
    ASSUME TrackerInv, NEW disposition, Return(disposition, datagram.length),
           ~(IsMatched /\ datagram.src # datagram.dst)
    PROVE  Verdicts'
<1>1. /\ datagram' = datagram /\ (IsMatched' <=> IsMatched)
      /\ result'.keep = datagram.length
    BY ReturnFacts
<1>2. ~(result'.keep < datagram'.length)
    BY <1>1, DatagramFacts DEF TrackerInv
<1> QED
    BY <1>1, <1>2 DEF Verdicts, MatchedIsFound, CutKeepsHead, OnlyMatchedIsCut

LEMMA StepVerdicts == TrackerInv /\ Verdicts /\ [Next]_vars => Verdicts'
<1> SUFFICES ASSUME TrackerInv, Verdicts, [Next]_vars PROVE Verdicts'
    OBVIOUS
<1>1. /\ ExpectedDcid \in LearnedId
      /\ datagram.src # datagram.dst => ExpectedDcid = PeerCid
      /\ datagram.src = datagram.dst => ExpectedDcid = Unknown
    BY ExpectedIsPeerCid
<1>2. ExpectedDcid.known => datagram.src # datagram.dst
    BY <1>1 DEF Unknown
<1>3. Len(ExpectedDcid.bytes) \in Nat
    BY <1>1 DEF LearnedId, ConnectionId
<1>4. CASE UNCHANGED vars
    BY <1>4 DEF vars, Verdicts, MatchedIsFound, CutKeepsHead, OnlyMatchedIsCut,
                Returned, Here, PeerCid, IsMatched
<1>5. ASSUME NEW d \in Datagram, Call(d) PROVE Verdicts'
    BY <1>5, NoShortVerdict DEF Call, Returned
<1>6. CASE LongHeaderParsed
    BY <1>6, NoShortVerdict DEF LongHeaderParsed, Walking, Returned
<1>7. CASE LongHeaderFails
  <2>1. Here' = Here /\ Here.form = "long"
    BY <1>7, ReturnFacts DEF LongHeaderFails, Walking
  <2> QED
    BY <2>1, NoShortVerdict DEF Returned
<1>8. CASE OnlyLongHeaders
  <2>1. offset' = datagram'.length /\ datagram'.length \in Nat
    BY <1>8, ReturnFacts, DatagramFacts DEF OnlyLongHeaders, TrackerInv
  <2> QED
    BY <2>1, NoShortVerdict DEF Returned
<1>9. CASE NotShort
  <2>1. Here' = Here /\ Here.form = "other"
    BY <1>9, ReturnFacts DEF NotShort, Walking
  <2> QED
    BY <2>1, NoShortVerdict DEF Returned
<1>10. CASE ShortUnknown
  <2>1. ~(IsMatched /\ datagram.src # datagram.dst)
    BY <1>1, <1>10 DEF ShortUnknown, IsMatched
  <2>2. CASE Strict
    BY <1>10, <2>1, <2>2, KeptWhole DEF ShortUnknown, Strict
  <2>3. CASE ~Strict
    <3> DEFINE keep == KeepOfShort(AtLeast(KeepBytes, 1))
    <3>1. AtLeast(KeepBytes, 1) \in Nat /\ KeepBytes <= AtLeast(KeepBytes, 1)
        BY QuicAssumption DEF AtLeast
    <3>2. keep < datagram.length => offset + KeepBytes <= keep
        BY <3>1, KeepFacts, DatagramFacts, QuicAssumption DEF TrackerInv
    <3>3. Return("short_matched", keep)
        BY <1>10, <2>3 DEF ShortUnknown, Strict
    <3>4. /\ datagram' = datagram /\ offset' = offset
          /\ IsMatched' <=> IsMatched
          /\ result'.keep = keep
        BY <3>3, ReturnFacts
    <3> HIDE DEF keep
    <3> QED
        BY <2>1, <2>3, <3>2, <3>4 DEF Verdicts, MatchedIsFound, CutKeepsHead
  <2> QED
    BY <2>2, <2>3
<1>11. CASE ShortTruncated
  <2>1. ~(IsMatched /\ datagram.src # datagram.dst)
    <3>1. Len(ExpectedDcid.bytes) > Len(Here.body)
        BY <1>11 DEF ShortTruncated
    <3>2. Here.body \in Seq(Byte)
        BY <1>11, HereFacts DEF ShortTruncated, Walking, TrackerInv, Reading
    <3> QED
        BY <1>1, <1>3, <3>1, <3>2 DEF IsMatched, StartsWith
  <2> QED
    BY <1>11, <2>1, KeptWhole DEF ShortTruncated
<1>12. CASE ShortMismatch
  <2>1. ~(IsMatched /\ datagram.src # datagram.dst)
    BY <1>1, <1>12 DEF ShortMismatch, IsMatched
  <2> QED
    BY <1>12, <2>1, KeptWhole DEF ShortMismatch
<1>13. CASE ShortMatched
  <2> DEFINE id == Len(ExpectedDcid.bytes)
             n == AtLeast(KeepBytes, 1 + id)
  <2>1. n \in Nat /\ KeepBytes <= n /\ 1 + id <= n
    BY <1>3, QuicAssumption DEF AtLeast
  <2>2. KeepOfShort(n) < datagram.length =>
            /\ offset + KeepBytes <= KeepOfShort(n)
            /\ offset + 1 + id <= KeepOfShort(n)
    <3>1. offset \in Nat /\ KeepBytes \in Nat
        BY DatagramFacts, QuicAssumption DEF TrackerInv
    <3>2. KeepOfShort(n) < datagram.length => KeepOfShort(n) = offset + n
        BY <2>1, KeepFacts DEF TrackerInv
    <3>3. id \in Nat
        BY <1>3
    <3> HIDE DEF n, id
    <3> QED
        BY <2>1, <3>1, <3>2, <3>3
  <2>3. Return("short_matched", KeepOfShort(n))
    BY <1>13 DEF ShortMatched
  <2>4. ExpectedDcid = PeerCid /\ IsMatched
    BY <1>1, <1>2, <1>13 DEF ShortMatched, IsMatched
  <2>5. /\ datagram' = datagram /\ offset' = offset
        /\ IsMatched' /\ PeerCid' = PeerCid
        /\ result' = [disposition |-> "short_matched", keep |-> KeepOfShort(n)]
    BY <2>3, <2>4, ReturnFacts
  <2> HIDE DEF n
  <2> QED
    BY <2>2, <2>4, <2>5 DEF Verdicts, MatchedIsFound, CutKeepsHead, OnlyMatchedIsCut
<1> QED
    BY <1>4, <1>5, <1>6, <1>7, <1>8, <1>9, <1>10, <1>11, <1>12, <1>13 DEF Next

LEMMA InitVerdicts == Init => Verdicts
BY DEF Init, Verdicts, MatchedIsFound, CutKeepsHead, OnlyMatchedIsCut, Returned

LEMMA VerdictsHold == Spec => []Verdicts
<1> QED
    BY InitVerdicts, StepVerdicts, QuicTracker, PTL DEF Spec

-----------------------------------------------------------------------------
(* The types of the state; in particular the walk over coalesced packets    *)
(* never leaves the datagram, whatever its length fields say.               *)
THEOREM QuicTypes == Spec => []TypeOK
<1>1. TrackerInv => TypeOK
    BY DEF TrackerInv
<1> QED
    BY <1>1, QuicTracker, PTL

(* If the configuration asks for a match, only packets that start with the  *)
(* connection ID their receiver announced last are cut.                     *)
THEOREM OnlyMatchedPacketsAreCut ==
    ASSUME Strict
    PROVE  Spec => []OnlyMatchedIsCut
<1>1. Verdicts => OnlyMatchedIsCut
    BY DEF Verdicts
<1> QED
    BY <1>1, VerdictsHold, PTL

(* Every packet that starts with that connection ID is recognized, in both  *)
(* directions of every flow.                                                *)
THEOREM MatchesAreFound == Spec => []MatchedIsFound
<1>1. Verdicts => MatchedIsFound
    BY DEF Verdicts
<1> QED
    BY <1>1, VerdictsHold, PTL

(* A cut keeps what precedes the short header packet, its first byte, its   *)
(* connection ID and as much of it as configured.                           *)
THEOREM CutsKeepHeads == Spec => []CutKeepsHead
<1>1. Verdicts => CutKeepsHead
    BY DEF Verdicts
<1> QED
    BY <1>1, VerdictsHold, PTL

-----------------------------------------------------------------------------
(* A bound on the steps the walk over a datagram still takes. *)
StepsToReturn ==
    IF pc = "idle" THEN 0 ELSE datagram.length - offset + 1

WalkProgresses ==
    [][pc = "walk" => StepsToReturn \in Nat /\ StepsToReturn' \in Nat
                        /\ StepsToReturn' < StepsToReturn]_vars

(* The walk ends: a long header that is accepted ends behind the place      *)
(* where it starts, so that no length field makes Evaluate look at the same *)
(* byte twice.                                                              *)
THEOREM TheWalkProgresses == Spec => WalkProgresses
<1>1. TrackerInv /\ [Next]_vars =>
          [pc = "walk" => StepsToReturn \in Nat /\ StepsToReturn' \in Nat
                            /\ StepsToReturn' < StepsToReturn]_vars
  <2> SUFFICES ASSUME TrackerInv, Next, pc = "walk"
               PROVE  StepsToReturn \in Nat /\ StepsToReturn' \in Nat
                        /\ StepsToReturn' < StepsToReturn
    OBVIOUS
  <2>1. /\ TypeOK /\ OnReading
        /\ offset \in 0 .. datagram.length
        /\ datagram.length \in Nat
    BY DatagramFacts DEF TrackerInv, TypeOK
  <2>2. /\ StepsToReturn = datagram.length - offset + 1
        /\ StepsToReturn \in Nat /\ StepsToReturn >= 1
    BY <2>1 DEF StepsToReturn
  <2>3. CASE LongHeaderParsed
    <3>1. /\ pc' = "walk" /\ datagram' = datagram
          /\ offset < datagram.length
          /\ Here.form = "long"
          /\ ParseLongHeaderSucceeds
          /\ offset' = IF Here.retry THEN datagram.length ELSE Here.end
      BY <2>3 DEF LongHeaderParsed, Walking
    <3>2. Here \in Reading /\ offset < Here.end
      BY <2>1, <3>1, HereFacts
    <3>3. /\ offset' \in Nat /\ offset < offset' /\ offset' <= datagram.length
      BY <2>1, <3>1, <3>2 DEF ParseLongHeaderSucceeds, Reading
    <3>4. StepsToReturn' = datagram.length - offset' + 1
      BY <3>1 DEF StepsToReturn
    <3> QED
      BY <2>1, <2>2, <3>3, <3>4
  <2>4. CASE ~LongHeaderParsed
    <3>1. pc' = "idle"
      BY <2>4 DEF Next, Call, LongHeaderFails, OnlyLongHeaders, NotShort, ShortUnknown,
                  ShortTruncated, ShortMismatch, ShortMatched, Return
    <3>2. StepsToReturn' = 0
      BY <3>1 DEF StepsToReturn
    <3> QED
      BY <2>2, <3>2
  <2> QED
    BY <2>3, <2>4
<1> QED
  BY <1>1, QuicTracker, PTL DEF Spec, WalkProgresses

=============================================================================
