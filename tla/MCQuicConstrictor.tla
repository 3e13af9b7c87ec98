--------------------------- MODULE MCQuicConstrictor ---------------------------
(***************************************************************************)
(* Instances of QuicConstrictor for TLC: three endpoints, of which 1 talks *)
(* to 0, to 2 and to itself, so that 1 is endpoint_a of one flow and       *)
(* endpoint_b of another.  Connection IDs have one or two bytes or none;   *)
(* one of them is a prefix of another.                                     *)
(***************************************************************************)
EXTENDS QuicConstrictor

MCEndpoint == {0, 1, 2}
MCByte == {7, 8}
MCPair == {<<0, 1>>, <<1, 0>>, <<1, 2>>, <<2, 1>>, <<1, 1>>}
MCCid == {<<>>, <<7>>, <<7, 8>>}
MCBody == {<<>>, <<7>>, <<8, 7, 7>>, <<7, 8, 7, 7>>}

(* Sizes are those of a coarser scale than the code's: a long header packet *)
(* takes four bytes, a Retry at least three.                                *)
Long(cid, start, ok, isRetry) ==
    [form |-> "long", wellformed |-> ok, retry |-> isRetry, scid |-> cid,
     cids_end |-> start + 3, end |-> start + 4, body |-> <<>>]
Short(bytes) ==
    [form |-> "short", wellformed |-> FALSE, retry |-> FALSE, scid |-> <<>>,
     cids_end |-> 0, end |-> 0, body |-> bytes]
Other ==
    [form |-> "other", wellformed |-> FALSE, retry |-> FALSE, scid |-> <<>>,
     cids_end |-> 0, end |-> 0, body |-> <<>>]

(* One long header packet, whole or truncated; a long header packet that is *)
(* not well formed; a Retry; a short header packet alone or behind a long   *)
(* header; two long header packets, the second of them truncated; padding   *)
(* alone and behind a long header.                                          *)
Payload ==
    {[length |-> n, reading |-> [p \in {0} |-> Long(cid, 0, ok, isRetry)]] :
        n \in 3 .. 4, cid \in MCCid, ok \in BOOLEAN, isRetry \in BOOLEAN}
    \cup
    {[length |-> 1 + Len(body), reading |-> [p \in {0} |-> Short(body)]] :
        body \in MCBody}
    \cup
    {[length |-> 5 + Len(body),
      reading |-> [p \in {0, 4} |->
                      IF p = 0 THEN Long(cid, 0, TRUE, FALSE) ELSE Short(body)]] :
        cid \in MCCid, body \in MCBody}
    \cup
    {[length |-> n,
      reading |-> [p \in {0, 4} |-> Long(cid[p], p, TRUE, FALSE)]] :
        n \in 7 .. 8, cid \in [{0, 4} -> {<<7>>, <<7, 8>>}]}
    \cup
    {[length |-> 1, reading |-> [p \in {0} |-> Other]],
     [length |-> 5,
      reading |-> [p \in {0, 4} |-> IF p = 0 THEN Long(<<7>>, 0, TRUE, FALSE) ELSE Other]]}

MCDatagram ==
    {[src |-> pair[1], dst |-> pair[2], length |-> d.length, reading |-> d.reading] :
        pair \in MCPair, d \in Payload}

=============================================================================
