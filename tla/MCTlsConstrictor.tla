--------------------------- MODULE MCTlsConstrictor ---------------------------
(***************************************************************************)
(* Instances of TlsConstrictor for TLC: one connection, a client stream of *)
(* 9 bytes whose sequence numbers wrap, a server stream of 7 bytes, and   *)
(* record headers of 2 bytes.  Every segment of either stream may come     *)
(* next, any number of times.                                              *)
(***************************************************************************)
EXTENDS TlsConstrictor

MCDirection == {"client", "server"}
MCReverse == [d \in MCDirection |-> IF d = "client" THEN "server" ELSE "client"]
MCIsn == [d \in MCDirection |-> IF d = "client" THEN 9 ELSE 3]
MCStreamEnd == [d \in MCDirection |-> IF d = "client" THEN 9 ELSE 7]
MCRecordStart == [d \in MCDirection |-> IF d = "client" THEN {0, 3, 7} ELSE {0, 2}]

Record(t, n) == [type |-> t, size |-> n]

(* Client: handshake, application data, and an empty application data       *)
(* record.                                                                  *)
MCHeader ==
    [d \in MCDirection |->
        IF d = "client"
        THEN [p \in {0, 3, 7} |->
                 CASE p = 0 -> Record("handshake", 3)
                   [] p = 3 -> Record("application_data", 4)
                   [] p = 7 -> Record("application_data", 2)]
        ELSE [p \in {0, 2} |->
                 CASE p = 0 -> Record("handshake", 2)
                   [] p = 2 -> Record("application_data", 5)]]

(* A connection that closes politely: the alert follows the last            *)
(* application data record.                                                 *)
MCAlertHeader ==
    [d \in MCDirection |->
        IF d = "client"
        THEN [p \in {0, 3, 7} |->
                 CASE p = 0 -> Record("handshake", 3)
                   [] p = 3 -> Record("application_data", 4)
                   [] p = 7 -> Record("alert", 2)]
        ELSE MCHeader[d]]

=============================================================================
