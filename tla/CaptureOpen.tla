------------------------------ MODULE CaptureOpen ------------------------------
(***************************************************************************)
(* Open and Close of both backends: AfPacketCapture and                    *)
(* AfPacketTpacketV3Capture.  Open is a chain of system calls each of      *)
(* which may fail; what has been acquired by then must be given back.      *)
(*                                                                         *)
(* The kernel's socket lives as long as the descriptor or a mapping of its *)
(* ring refers to it, receives as long as it lives, and holds the          *)
(* membership that makes the interface promiscuous.                        *)
(***************************************************************************)
EXTENDS Integers

CONSTANTS
    MaxFrames,      \* largest number tp_frame_nr can hold, 2^32 - 1
    PageSize,       \* sysconf(_SC_PAGESIZE)
    FrameAlignment, \* TPACKET_ALIGNMENT
    MinFrameSize    \* the headers the kernel puts in front of a packet

ASSUME LayoutAssumption ==
    /\ MaxFrames \in Nat
    /\ PageSize \in Nat \ {0}
    /\ FrameAlignment \in Nat \ {0}
    /\ MinFrameSize \in Nat

VARIABLES
    socket,               \* the kernel's socket
    open_pc,              \* the next system call of Open; "idle" outside
    options,              \* the options Open has been called with
    error,                \* error_message is not empty
    \* The members of the capture object.
    socket_fd,            \* socket_fd_ >= 0
    ring_mapping,         \* ring_mapping_ # nullptr
    promiscuous_enabled

memberVars == <<socket_fd, ring_mapping, promiscuous_enabled>>
openVars == <<socket, open_pc, options, error, memberVars>>

-----------------------------------------------------------------------------
(* The kernel (external).  received: whose packets wait in the socket       *)
(* buffer or the ring.                                                      *)

NoSocket ==
    [fd |-> FALSE, ring |-> FALSE, mapped |-> FALSE, hook |-> "none",
     promiscuous |-> FALSE, received |-> {}]

NewSocket == [NoSocket EXCEPT !.fd = TRUE, !.hook = "every_interface"]

Referenced(s) == IF s.fd \/ s.mapped THEN s ELSE NoSocket

CloseFd(s) == Referenced([s EXCEPT !.fd = FALSE])
Unmap(s) == Referenced([s EXCEPT !.mapped = FALSE])

(* A ring that is mapped is busy. *)
ReleaseRing(s) == IF s.mapped THEN s ELSE [s EXCEPT !.ring = FALSE]

(* A packet of the interface that is captured, or of another one.           *)
PacketArrives(origin) ==
    /\ socket.hook = "every_interface" \/ (socket.hook = "interface" /\ origin = "interface")
    /\ socket' = [socket EXCEPT !.received = @ \cup {origin}]
    /\ UNCHANGED <<open_pc, options, error, memberVars>>

-----------------------------------------------------------------------------
(* Close. *)

DisablePromiscuousMembership(s) ==
    IF promiscuous_enabled THEN [s EXCEPT !.promiscuous = FALSE] ELSE s

CloseRecvmsg ==
    IF socket_fd THEN CloseFd(DisablePromiscuousMembership(socket)) ELSE socket

CloseTpacket ==
    LET released == IF socket_fd THEN ReleaseRing(DisablePromiscuousMembership(socket))
                                 ELSE socket
        unmapped == IF ring_mapping THEN Unmap(released) ELSE released
    IN IF socket_fd THEN CloseFd(unmapped) ELSE unmapped

IsRing(o) == o.backend = "tpacket_v3"

Closed == IF IsRing(options) THEN CloseTpacket ELSE CloseRecvmsg

Close ==
    /\ open_pc = "idle"
    /\ socket' = Closed
    /\ socket_fd' = FALSE
    /\ ring_mapping' = FALSE
    /\ promiscuous_enabled' = FALSE
    /\ UNCHANGED <<open_pc, options, error>>

-----------------------------------------------------------------------------
(* Open. *)

(* ValidateRingLayout and the rest of ValidateRingConfiguration. *)
ValidateRingLayout(o) ==
    /\ o.ring_block_size # 0
    /\ o.ring_block_count # 0
    /\ o.ring_frame_size # 0
    /\ o.ring_block_size % o.ring_frame_size = 0

ValidateRingConfiguration(o) ==
    /\ ValidateRingLayout(o)
    /\ o.ring_block_size % PageSize = 0
    /\ o.ring_frame_size % FrameAlignment = 0
    /\ o.ring_frame_size >= MinFrameSize

Acceptable(o) == o.interface_given /\ (IsRing(o) => ValidateRingConfiguration(o))

Proceed(step) ==
    /\ open_pc' = step
    /\ UNCHANGED <<options, error, memberVars>>

(* Open returns FALSE and leaves s of the socket. *)
Fail(s) ==
    /\ open_pc' = "idle"
    /\ error' = TRUE
    /\ socket' = s
    /\ UNCHANGED <<options, memberVars>>

(* The call: Close comes first. *)
Open(o) ==
    /\ open_pc = "idle"
    /\ options' = o
    /\ socket' = Closed
    /\ socket_fd' = FALSE
    /\ ring_mapping' = FALSE
    /\ promiscuous_enabled' = FALSE
    /\ IF Acceptable(o) THEN open_pc' = "if_nametoindex" /\ error' = FALSE
                        ELSE error' = TRUE /\ UNCHANGED open_pc

ResolveInterface ==
    /\ open_pc = "if_nametoindex"
    /\ \/ Proceed("socket") /\ UNCHANGED socket
       \/ Fail(socket)

CreateSocket ==
    /\ open_pc = "socket"
    /\ \/ socket' = NewSocket /\ Proceed(IF IsRing(options) THEN "version" ELSE "timeout")
       \/ Fail(socket)

(* Without a receive timeout nobody would look at the stop flag. *)
SetReceiveTimeout ==
    /\ open_pc = "timeout"
    /\ \/ Proceed("bind") /\ UNCHANGED socket
       \/ Fail(CloseFd(socket))

FramesPerBlock(o) == o.ring_block_size \div o.ring_frame_size

(* frame_count, 64 bits wide, and what is left of it in request.tp_frame_nr. *)
FrameCount(o) == FramesPerBlock(o) * o.ring_block_count
FrameNr(o) == FrameCount(o) % (MaxFrames + 1)

(* Mutant: the frames are counted in 32 bits. *)
FrameCountWraps == FrameNr(options) # 0

FrameCountFits == FrameCount(options) \in 1 .. MaxFrames

SetPacketVersion ==
    /\ open_pc = "version"
    /\ \/ FrameCountFits /\ Proceed("ring") /\ UNCHANGED socket
       \/ Fail(CloseFd(socket))

(* The kernel empties the socket buffer when the ring takes its place.      *)
ConfigureRing ==
    /\ open_pc = "ring"
    /\ \/ socket' = [socket EXCEPT !.ring = TRUE, !.received = {}] /\ Proceed("mmap")
       \/ Fail(CloseFd(socket))

MapRing ==
    /\ open_pc = "mmap"
    /\ \/ socket' = [socket EXCEPT !.mapped = TRUE] /\ Proceed("bind")
       \/ Fail(CloseFd(ReleaseRing(socket)))

(* Mutant: the mapping is forgotten, and with it the socket lives on. *)
AbandonMapped(s) == CloseFd(ReleaseRing(s))

(* What a failure behind mmap does. *)
AbandonRing(s) == CloseFd(Unmap(ReleaseRing(s)))

Abandon(s) == IF IsRing(options) THEN AbandonRing(s) ELSE CloseFd(s)

Bind ==
    /\ open_pc = "bind"
    /\ \/ /\ socket' = [socket EXCEPT !.hook = "interface"]
          /\ Proceed("membership")
       \/ Fail(Abandon(socket))

(* Mutant: promiscuous mode is done without if it cannot be had. *)
MembershipIsOptional ==
    /\ open_pc = "membership"
    /\ open_pc' = "idle"
    /\ \E enabled \in {FALSE, options.promiscuous} :
          /\ socket' = [socket EXCEPT !.promiscuous = enabled]
          /\ promiscuous_enabled' = enabled
    /\ socket_fd' = TRUE
    /\ ring_mapping' = IsRing(options)
    /\ UNCHANGED <<options, error>>

(* The membership, if it is asked for, and the members: Open returns TRUE.  *)
EnablePromiscuousMembership ==
    /\ open_pc = "membership"
    /\ \/ /\ open_pc' = "idle"
          /\ socket' = [socket EXCEPT !.promiscuous = options.promiscuous]
          /\ socket_fd' = TRUE
          /\ ring_mapping' = IsRing(options)
          /\ promiscuous_enabled' = options.promiscuous
          /\ UNCHANGED <<options, error>>
       \/ options.promiscuous /\ Fail(Abandon(socket))

-----------------------------------------------------------------------------
OpenInit ==
    /\ socket = NoSocket
    /\ open_pc = "idle"
    /\ options = [backend |-> "recvmsg", interface_given |-> FALSE, promiscuous |-> FALSE]
    /\ error = FALSE
    /\ socket_fd = FALSE
    /\ ring_mapping = FALSE
    /\ promiscuous_enabled = FALSE

OpenStep ==
    \/ ResolveInterface
    \/ CreateSocket
    \/ SetReceiveTimeout
    \/ SetPacketVersion
    \/ ConfigureRing
    \/ MapRing
    \/ Bind
    \/ EnablePromiscuousMembership

-----------------------------------------------------------------------------
(* Properties. *)

(* Whatever step of Open fails, and after every Close, nothing is left of   *)
(* the socket: no descriptor, no mapping that keeps it alive, no            *)
(* promiscuous interface.                                                   *)
NothingLeaks == open_pc = "idle" /\ ~socket_fd => socket = NoSocket

(* An open capture is what it was asked to be: bound, with a mapped ring    *)
(* exactly if that is the backend, and promiscuous exactly if asked to be.  *)
OpenIsComplete ==
    socket_fd =>
        /\ open_pc = "idle"
        /\ ~error
        /\ socket.fd
        /\ socket.hook = "interface"
        /\ socket.ring = IsRing(options)
        /\ socket.mapped = IsRing(options)
        /\ socket.promiscuous = options.promiscuous

(* README.md "interface = eth0": what a capture receives are the packets of *)
(* the interface it has been told to capture.                               *)
OnlyThisInterface == socket_fd => socket.received \subseteq {"interface"}

=============================================================================
