----------------------------- MODULE StartupProofs -----------------------------
(***************************************************************************)
(* Proofs about Startup, for every file of every set of lines, every width *)
(* of the integers and every limit of the kernel.                          *)
(*                                                                         *)
(* The invariant has one part for each of the modules put together.        *)
(* LoaderInv: every option holds what its parser gives.  OpenInv: what the *)
(* kernel's socket is at each step of Open.  MainInv: what main knows at   *)
(* each of its points, in particular that the capture of a loop is open    *)
(* and that nothing has been written before.                               *)
(***************************************************************************)
EXTENDS Startup, TLAPS

(* What an option of a type may hold. *)
Fits(v, type) ==
    /\ type = "bool" => v \in BOOLEAN
    /\ type = "uint32" => v \in 0 .. Max32
    /\ type = "ports" => \A i \in DOMAIN v : v[i] \in 0 .. MaxPort

ConfigInv ==
    /\ DOMAIN config = DOMAIN Options
    /\ \A section \in DOMAIN Options :
          /\ DOMAIN config[section] = DOMAIN Options[section]
          /\ \A name \in DOMAIN Options[section] :
                Fits(config[section][name], Options[section][name])

LoaderInv ==
    /\ load_pc \in {"read", "loaded", "failed"}
    /\ line_number \in Nat
    /\ error_line \in 0 .. line_number
    /\ ConfigInv
    /\ load_pc = "loaded" => ConfigIsValid

Sockets ==
    [fd : BOOLEAN, ring : BOOLEAN, mapped : BOOLEAN,
     hook : {"none", "every_interface", "interface"},
     promiscuous : BOOLEAN, received : SUBSET {"interface", "another"}]

(* The socket is open, and its parts are these. *)
SocketIs(ring, mapped, hook, promiscuous) ==
    /\ socket.fd
    /\ socket.ring <=> ring
    /\ socket.mapped <=> mapped
    /\ socket.hook = hook
    /\ socket.promiscuous <=> promiscuous

OpenInv ==
    /\ open_pc \in OpenSteps
    /\ error \in BOOLEAN
    /\ socket_fd \in BOOLEAN
    /\ socket \in Sockets
    /\ options.promiscuous \in BOOLEAN
    /\ ring_mapping \in BOOLEAN
    /\ promiscuous_enabled \in BOOLEAN
    /\ ring_mapping <=> socket_fd /\ IsRing(options)
    /\ promiscuous_enabled <=> socket_fd /\ options.promiscuous
    /\ open_pc # "idle" => ~error
    /\ socket_fd => /\ open_pc = "idle"
                    /\ ~error
                    /\ SocketIs(IsRing(options), IsRing(options), "interface", options.promiscuous)
    /\ ~socket_fd /\ open_pc \in {"idle", "if_nametoindex", "socket"} => socket = NoSocket
    /\ open_pc \in {"version", "ring", "mmap"} => IsRing(options)
    /\ open_pc = "timeout" => ~IsRing(options)
    /\ open_pc \in {"timeout", "version", "ring"} =>
           SocketIs(FALSE, FALSE, "every_interface", FALSE)
    /\ open_pc = "mmap" => SocketIs(TRUE, FALSE, "every_interface", FALSE)
    /\ open_pc = "bind" => SocketIs(IsRing(options), IsRing(options), "every_interface", FALSE)
    /\ open_pc = "membership" => SocketIs(IsRing(options), IsRing(options), "interface", FALSE)

Early == {"load", "install", "open"}

MainInv ==
    /\ main_pc \in Early \cup {"opening", "loop", "close", "exit"}
    /\ mode \in Modes
    /\ handlers_installed \in BOOLEAN
    /\ stop_requested \in BOOLEAN
    /\ signalled \in BOOLEAN
    /\ output \in {"untouched", "emptied", "header"}
    /\ exit_code \in {-1, 0, 1}
    /\ main_pc \in Early => open_pc = "idle" /\ ~socket_fd
    /\ main_pc \in {"install", "open", "opening", "loop", "close"} =>
           load_pc = "loaded" /\ mode = "live" /\ InterfaceGiven
    /\ main_pc \in Early \cup {"opening", "loop"} => exit_code = -1
    /\ main_pc \in {"loop", "close", "exit"} => open_pc = "idle"
    /\ main_pc \in {"loop", "close"} => CaptureWasOpened
    /\ main_pc = "loop" => output = "header"
    /\ main_pc = "close" /\ exit_code = 0 => output = "header"
    /\ mode = "live" /\ main_pc \in Early \cup {"opening"} => output = "untouched"
    /\ main_pc \in {"load", "install"} => ~handlers_installed /\ ~signalled
    /\ main_pc \in {"open", "opening", "loop", "close"} => handlers_installed

StartupInv == LoaderInv /\ OpenInv /\ MainInv /\ OutputOnlyIfCapturing /\ SignalIsKept

-----------------------------------------------------------------------------
(* The loader. *)

(* What can be parsed as what an option takes, fits it. *)
LEMMA ParsedFits ==
    ASSUME NEW v, NEW type, Parses(v, type)
    PROVE  Fits(Parsed(v, type), type)
<1>1. CASE type = "bool"
    BY <1>1 DEF Fits, Parsed
<1>2. CASE type = "uint32"
    BY <1>2 DEF Fits, Parsed, Parses, IsUnsigned
<1>3. CASE type = "ports"
    BY <1>3 DEF Fits, Parsed, Parses, ArePorts
<1> QED
    BY <1>1, <1>2, <1>3 DEF Fits

LEMMA DefaultsFit == LoaderInit => LoaderInv
<1> SUFFICES ASSUME LoaderInit PROVE LoaderInv
    OBVIOUS
<1>0. config = DefaultConfig
    BY DEF LoaderInit
<1>1. DOMAIN config = DOMAIN Options
    BY <1>0 DEF DefaultConfig, Options
<1>2. /\ \A n \in 0 .. DefaultBlockSize : Fits(n, "uint32")
      /\ \A v : \A type \in {"uint64", "backend", "policy", "text"} : Fits(v, type)
      /\ Fits(<<443>>, "ports")
      /\ Fits(<<443, 8443>>, "ports")
    <2>1. Max32 \in Nat /\ DefaultBlockSize <= Max32
        BY WidthAssumption
    <2>2. DefaultBlockSize \in Nat
        BY SMT DEF DefaultBlockSize
    <2>3. \A n \in 0 .. DefaultBlockSize : n \in 0 .. Max32
        BY <2>1, <2>2
    <2>4. \A n \in 0 .. DefaultBlockSize : Fits(n, "uint32")
        BY <2>3 DEF Fits
    <2>5. 443 \in 0 .. MaxPort /\ 8443 \in 0 .. MaxPort
        BY SMT DEF MaxPort
    <2>6. /\ \A i \in DOMAIN <<443>> : <<443>>[i] \in 0 .. MaxPort
          /\ \A i \in DOMAIN <<443, 8443>> : <<443, 8443>>[i] \in 0 .. MaxPort
        BY <2>5, SMT
    <2>7. Fits(<<443>>, "ports") /\ Fits(<<443, 8443>>, "ports")
        BY <2>6, SMT DEF Fits
    <2>8. \A v : \A type \in {"uint64", "backend", "policy", "text"} : Fits(v, type)
        BY DEF Fits
    <2> QED
        BY <2>4, <2>7, <2>8
<1>2b. /\ DefaultBlockSize \in 0 .. DefaultBlockSize
       /\ \A n \in {0, 16, 64, 128, 256, 2048, 65535} : n \in 0 .. DefaultBlockSize
    <2>1. DefaultBlockSize \in Nat /\ 65535 <= DefaultBlockSize
        BY SMT DEF DefaultBlockSize
    <2> QED
        BY <2>1, SMT
<1>2a. \A v \in BOOLEAN : Fits(v, "bool")
    BY Zenon DEF Fits
<1>3. /\ config["capture"] = DefaultCapture
      /\ config["general"] = [min_saved_bytes_per_packet |-> 16]
      /\ config["tls"] = DefaultTls
      /\ config["quic"] = DefaultQuic
      /\ config["stats"] = [enabled |-> TRUE]
    BY <1>0 DEF DefaultConfig
<1>4. /\ Options["capture"] = CaptureOptions
      /\ Options["general"] = GeneralOptions
      /\ Options["tls"] = TlsOptions
      /\ Options["quic"] = QuicOptions
      /\ Options["stats"] = StatsOptions
    BY DEF Options
<1> DEFINE IsTyped(section) ==
        /\ DOMAIN config[section] = DOMAIN Options[section]
        /\ \A name \in DOMAIN Options[section] :
              Fits(config[section][name], Options[section][name])
<1>5. IsTyped("capture")
    <2>1. DOMAIN DefaultCapture = DOMAIN CaptureOptions
        BY SMT DEF DefaultCapture, CaptureOptions
    <2>2. ASSUME NEW name \in DOMAIN CaptureOptions
          PROVE  Fits(DefaultCapture[name], CaptureOptions[name])
        <3>1. CASE CaptureOptions[name] = "uint32"
            BY <1>2, <1>2b, <2>2, <3>1, SMT DEF DefaultCapture, CaptureOptions
        <3>2. CASE CaptureOptions[name] = "bool"
            <4>1. name \in {"promiscuous"}
                BY <2>2, <3>2, SMT DEF CaptureOptions
            <4>2. DefaultCapture["promiscuous"] \in BOOLEAN
                BY SMT DEF DefaultCapture
            <4> QED
                BY <1>2a, <3>2, <4>1, <4>2, Zenon
        <3>3. CASE CaptureOptions[name] \in {"uint64", "backend", "text"}
            BY <1>2, <3>3
        <3> QED
            BY <2>2, <3>1, <3>2, <3>3, SMT DEF CaptureOptions
    <2> QED
        BY <1>3, <1>4, <2>1, <2>2
<1>6. IsTyped("general") /\ IsTyped("stats")
    <2>1. Fits(16, "uint32")
        BY <1>2, <1>2b
    <2>2. IsTyped("general")
        BY <1>3, <1>4, <2>1, SMT DEF GeneralOptions
    <2>3. config["stats"]["enabled"] \in BOOLEAN
        BY <1>3, SMT
    <2>4. Options["stats"]["enabled"] = "bool" /\ DOMAIN Options["stats"] = {"enabled"}
        BY <1>4, SMT DEF StatsOptions
    <2>5. DOMAIN config["stats"] = {"enabled"}
        BY <1>3, SMT
    <2>6. Fits(config["stats"]["enabled"], Options["stats"]["enabled"])
        BY <1>2a, <2>3, <2>4, Zenon
    <2> QED
        BY <2>2, <2>4, <2>5, <2>6
<1>7. IsTyped("tls")
    <2>1. DOMAIN DefaultTls = DOMAIN TlsOptions
        BY SMT DEF DefaultTls, TlsOptions
    <2>2. ASSUME NEW name \in DOMAIN TlsOptions
          PROVE  Fits(DefaultTls[name], TlsOptions[name])
        <3>1. CASE TlsOptions[name] = "uint32"
            BY <1>2, <1>2b, <2>2, <3>1, SMT DEF DefaultTls, TlsOptions
        <3>2. CASE TlsOptions[name] = "bool"
            <4>1. name \in {"enabled"}
                BY <2>2, <3>2, SMT DEF TlsOptions
            <4>2. DefaultTls["enabled"] \in BOOLEAN
                BY SMT DEF DefaultTls
            <4> QED
                BY <1>2a, <3>2, <4>1, <4>2, Zenon
        <3>3. CASE TlsOptions[name] = "ports"
            BY <1>2, <2>2, <3>3, SMT DEF DefaultTls, TlsOptions
        <3>4. CASE TlsOptions[name] \in {"policy"}
            BY <1>2, <3>4
        <3> QED
            BY <2>2, <3>1, <3>2, <3>3, <3>4, SMT DEF TlsOptions
    <2> QED
        BY <1>3, <1>4, <2>1, <2>2
<1>8. IsTyped("quic")
    <2>1. DOMAIN DefaultQuic = DOMAIN QuicOptions
        BY SMT DEF DefaultQuic, QuicOptions
    <2>2. ASSUME NEW name \in DOMAIN QuicOptions
          PROVE  Fits(DefaultQuic[name], QuicOptions[name])
        <3>1. CASE QuicOptions[name] = "uint32"
            BY <1>2, <1>2b, <2>2, <3>1, SMT DEF DefaultQuic, QuicOptions
        <3>2. CASE QuicOptions[name] = "bool"
            <4>1. name \in {"enabled", "require_dcid_match", "allow_short_header_without_known_dcid"}
                BY <2>2, <3>2, SMT DEF QuicOptions
            <4>2. /\ DefaultQuic["enabled"] \in BOOLEAN
                 /\ DefaultQuic["require_dcid_match"] \in BOOLEAN
                 /\ DefaultQuic["allow_short_header_without_known_dcid"] \in BOOLEAN
                BY SMT DEF DefaultQuic
            <4> QED
                BY <1>2a, <3>2, <4>1, <4>2, Zenon
        <3>3. CASE QuicOptions[name] = "ports"
            BY <1>2, <2>2, <3>3, SMT DEF DefaultQuic, QuicOptions
        <3> QED
            BY <2>2, <3>1, <3>2, <3>3, SMT DEF QuicOptions
    <2> QED
        BY <1>3, <1>4, <2>1, <2>2
<1>9. DOMAIN Options = {"capture", "general", "tls", "quic", "stats"}
    BY DEF Options
<1>10. ConfigInv
    BY <1>1, <1>5, <1>6, <1>7, <1>8, <1>9 DEF ConfigInv
<1> QED
    <2>1. load_pc = "read" /\ line_number = 0 /\ error_line = 0
        BY DEF LoaderInit
    <2> QED
        BY <1>10, <2>1 DEF LoaderInv

LEMMA AssignKeepsConfig == ConfigInv /\ AssignValue => ConfigInv'
<1> SUFFICES ASSUME ConfigInv, AssignValue PROVE ConfigInv'
    OBVIOUS
<1>1. PICK line \in Line :
          /\ Assigns(line)
          /\ config' = [config EXCEPT ![current_section][line.name] =
                            Parsed(line.value, Options[current_section][line.name])]
    BY DEF AssignValue
<1>2. /\ current_section \in DOMAIN Options
      /\ line.name \in DOMAIN Options[current_section]
      /\ Parses(line.value, Options[current_section][line.name])
    BY <1>1 DEF Assigns
<1>3. Fits(Parsed(line.value, Options[current_section][line.name]),
           Options[current_section][line.name])
    BY <1>2, ParsedFits
<1> HIDE DEF Options, Fits, Parsed, Parses
<1>4. DOMAIN config' = DOMAIN Options
    BY <1>1 DEF ConfigInv
<1>5. ASSUME NEW section \in DOMAIN Options
      PROVE  DOMAIN config'[section] = DOMAIN Options[section]
    BY <1>1, <1>5 DEF ConfigInv
<1>6. ASSUME NEW section \in DOMAIN Options, NEW name \in DOMAIN Options[section]
      PROVE  Fits(config'[section][name], Options[section][name])
    BY <1>1, <1>2, <1>3, <1>6 DEF ConfigInv
<1> QED
    BY <1>4, <1>5, <1>6 DEF ConfigInv

LEMMA LoadKeepsInv == LoaderInv /\ Load => LoaderInv'
<1> SUFFICES ASSUME LoaderInv, Load PROVE LoaderInv'
    OBVIOUS
<1>1. CASE SkipLine
    BY <1>1 DEF SkipLine, NextLine, LoaderInv, ConfigInv
<1>2. CASE EnterSection
    BY <1>2 DEF EnterSection, NextLine, LoaderInv, ConfigInv
<1>3. CASE AssignValue
    <2>1. ConfigInv'
        BY <1>3, AssignKeepsConfig DEF LoaderInv
    <2> QED
        BY <1>3, <2>1 DEF AssignValue, NextLine, LoaderInv
<1>4. CASE RejectLine
    BY <1>4 DEF RejectLine, NextLine, LoaderInv, ConfigInv
<1>5. CASE EndOfFile
    BY <1>5 DEF EndOfFile, LoaderInv, ConfigInv, ConfigIsValid
<1>6. CASE CannotOpenConfig
    BY <1>6 DEF CannotOpenConfig, LoaderInv, ConfigInv
<1> QED
    BY <1>1, <1>2, <1>3, <1>4, <1>5, <1>6 DEF Load

LEMMA LoaderStutters == LoaderInv /\ UNCHANGED loaderVars => LoaderInv'
BY DEF loaderVars, LoaderInv, ConfigInv, ConfigIsValid

-----------------------------------------------------------------------------
(* The capture. *)

LEMMA FreshSockets ==
    /\ NoSocket \in Sockets
    /\ NewSocket \in Sockets
    /\ NewSocket.fd /\ ~NewSocket.ring /\ ~NewSocket.mapped /\ ~NewSocket.promiscuous
    /\ NewSocket.hook = "every_interface"
BY DEF NoSocket, NewSocket, Sockets

(* Open calls Close first, of which nothing is left. *)
LEMMA NothingIsLeft == OpenInv /\ open_pc = "idle" => Closed = NoSocket
<1> SUFFICES ASSUME OpenInv, open_pc = "idle" PROVE Closed = NoSocket
    OBVIOUS
<1>1. CASE ~socket_fd
    BY <1>1 DEF OpenInv, Closed, CloseRecvmsg, CloseTpacket, NoSocket, Unmap
<1>2. CASE socket_fd
    <2>1. SocketIs(IsRing(options), IsRing(options), "interface", options.promiscuous)
        BY <1>2 DEF OpenInv
    <2> QED
        BY <1>2, <2>1
        DEF OpenInv, SocketIs, Closed, CloseRecvmsg, CloseTpacket, NoSocket, Unmap, CloseFd, Sockets,
            Referenced, ReleaseRing, DisablePromiscuousMembership
<1> QED
    BY <1>1, <1>2 DEF OpenInv

LEMMA CloseKeepsInv == OpenInv /\ Close => OpenInv'
BY NothingIsLeft, FreshSockets DEF Close, OpenInv, IsRing, OpenSteps

LEMMA OpenKeepsInv ==
    ASSUME OpenInv, NEW o, o.promiscuous \in BOOLEAN, Open(o)
    PROVE  OpenInv'
BY NothingIsLeft, FreshSockets DEF Open, OpenInv, IsRing, OpenSteps

(* A failure, of whatever step, closes all there is. *)
LEMMA FailKeepsInv ==
    ASSUME OpenInv, ~socket_fd, Fail(NoSocket)
    PROVE  OpenInv'
BY FreshSockets DEF Fail, OpenInv, memberVars, IsRing, OpenSteps

LEMMA OpenStepKeepsInv == OpenInv /\ OpenStep => OpenInv'
<1> SUFFICES ASSUME OpenInv, OpenStep PROVE OpenInv'
    OBVIOUS
<1>1. CASE ResolveInterface
    BY <1>1, FailKeepsInv DEF ResolveInterface, Proceed, OpenInv, memberVars, SocketIs, IsRing, OpenSteps, Sockets
<1>2. CASE CreateSocket
    <2>1. CASE socket' = NewSocket /\ Proceed(IF IsRing(options) THEN "version" ELSE "timeout")
        <3>1. SocketIs(FALSE, FALSE, "every_interface", FALSE)' /\ socket' \in Sockets
            BY <2>1, FreshSockets DEF SocketIs
        <3>2. CASE IsRing(options)
            BY <1>2, <2>1, <3>1, <3>2
            DEF CreateSocket, Proceed, OpenInv, memberVars, IsRing, OpenSteps
        <3>3. CASE ~IsRing(options)
            BY <1>2, <2>1, <3>1, <3>3
            DEF CreateSocket, Proceed, OpenInv, memberVars, IsRing, OpenSteps
        <3> QED
            BY <3>2, <3>3
    <2>2. CASE Fail(socket)
        BY <1>2, <2>2, FailKeepsInv DEF CreateSocket, OpenInv
    <2> QED
        BY <1>2, <2>1, <2>2 DEF CreateSocket
<1>3. CASE SetReceiveTimeout
    <2>1. CloseFd(socket) = NoSocket
        BY <1>3 DEF SetReceiveTimeout, OpenInv, SocketIs, CloseFd, Referenced, Sockets
    <2> QED
        BY <1>3, <2>1, FailKeepsInv
        DEF SetReceiveTimeout, Proceed, OpenInv, memberVars, SocketIs, IsRing, OpenSteps, Sockets
<1>4. CASE SetPacketVersion
    <2>1. CloseFd(socket) = NoSocket
        BY <1>4 DEF SetPacketVersion, OpenInv, SocketIs, CloseFd, Referenced, Sockets
    <2> QED
        BY <1>4, <2>1, FailKeepsInv
        DEF SetPacketVersion, Proceed, OpenInv, memberVars, SocketIs, IsRing, OpenSteps, Sockets
<1>5. CASE ConfigureRing
    <2>1. CloseFd(socket) = NoSocket
        BY <1>5 DEF ConfigureRing, OpenInv, SocketIs, CloseFd, Referenced, Sockets
    <2>2. CASE socket' = [socket EXCEPT !.ring = TRUE, !.received = {}] /\ Proceed("mmap")
        <3>1. /\ socket' \in Sockets /\ socket'.ring
              /\ socket'.fd = socket.fd /\ socket'.mapped = socket.mapped
              /\ socket'.hook = socket.hook /\ socket'.promiscuous = socket.promiscuous
            BY <2>2 DEF OpenInv, Sockets
        <3> QED
            BY <1>5, <2>2, <3>1
            DEF ConfigureRing, Proceed, OpenInv, memberVars, SocketIs, IsRing, OpenSteps
    <2> QED
        BY <1>5, <2>1, <2>2, FailKeepsInv DEF ConfigureRing, OpenInv
<1>6. CASE MapRing
    <2>1. CloseFd(ReleaseRing(socket)) = NoSocket
        BY <1>6 DEF MapRing, OpenInv, SocketIs, CloseFd, Referenced, ReleaseRing, Sockets
    <2>2. CASE socket' = [socket EXCEPT !.mapped = TRUE] /\ Proceed("bind")
        <3>1. /\ socket' \in Sockets /\ socket'.mapped
              /\ socket'.fd = socket.fd /\ socket'.ring = socket.ring
              /\ socket'.hook = socket.hook /\ socket'.promiscuous = socket.promiscuous
            BY <2>2 DEF OpenInv, Sockets
        <3> QED
            BY <1>6, <2>2, <3>1
            DEF MapRing, Proceed, OpenInv, memberVars, SocketIs, IsRing, OpenSteps
    <2> QED
        BY <1>6, <2>1, <2>2, FailKeepsInv DEF MapRing, OpenInv
<1>7. ASSUME open_pc \in {"bind", "membership"} PROVE Abandon(socket) = NoSocket
    BY <1>7 DEF OpenInv, SocketIs, Abandon, AbandonRing, CloseFd, Unmap, Referenced, ReleaseRing, Sockets
<1>8. CASE Bind
    BY <1>7, <1>8, FailKeepsInv
    DEF Bind, Proceed, OpenInv, memberVars, SocketIs, IsRing, OpenSteps, Sockets
<1>9. CASE EnablePromiscuousMembership
    <2>1. CASE socket' = [socket EXCEPT !.promiscuous = options.promiscuous] /\ socket_fd'
        <3>1. /\ socket' \in Sockets /\ socket'.promiscuous = options.promiscuous
              /\ socket'.fd = socket.fd /\ socket'.ring = socket.ring
              /\ socket'.hook = socket.hook /\ socket'.mapped = socket.mapped
            BY <2>1 DEF OpenInv, Sockets
        <3>2. /\ open_pc' = "idle" /\ UNCHANGED <<options, error>>
              /\ ring_mapping' = IsRing(options)
              /\ promiscuous_enabled' = options.promiscuous
            BY <1>9, <2>1 DEF EnablePromiscuousMembership, Fail, OpenInv, memberVars
        <3>3. ~error
            BY <1>9 DEF EnablePromiscuousMembership, OpenInv
        <3>4. SocketIs(IsRing(options), IsRing(options), "interface", options.promiscuous)'
            BY <1>9, <3>1, <3>2 DEF EnablePromiscuousMembership, OpenInv, SocketIs, IsRing
        <3> QED
            BY <2>1, <3>1, <3>2, <3>3, <3>4 DEF OpenInv, IsRing, OpenSteps
    <2> QED
        BY <1>7, <1>9, <2>1, FailKeepsInv DEF EnablePromiscuousMembership, OpenInv
<1> QED
    BY <1>1, <1>2, <1>3, <1>4, <1>5, <1>6, <1>8, <1>9 DEF OpenStep

LEMMA ArrivalKeepsInv ==
    ASSUME OpenInv, NEW origin \in {"interface", "another"}, PacketArrives(origin)
    PROVE  OpenInv'
BY DEF PacketArrives, OpenInv, memberVars, SocketIs, IsRing, OpenSteps, Sockets, NoSocket

LEMMA OpenStutters == OpenInv /\ UNCHANGED openVars => OpenInv'
BY DEF openVars, memberVars, OpenInv, SocketIs, IsRing, Sockets

-----------------------------------------------------------------------------
(* The invariant. *)

LEMMA InitInv == Init => StartupInv
<1> SUFFICES ASSUME Init PROVE StartupInv
    OBVIOUS
<1>1. LoaderInv
    BY DefaultsFit DEF Init
<1>2. OpenInv
    BY FreshSockets DEF Init, OpenInit, OpenInv, IsRing, OpenSteps
<1>3. MainInv /\ OutputOnlyIfCapturing /\ SignalIsKept
    <2>1. MainInv
        BY DEF Init, OpenInit, MainInv, Early, Modes
    <2>2. OutputOnlyIfCapturing
        BY DEF Init, OutputOnlyIfCapturing
    <2>3. SignalIsKept
        BY DEF Init, SignalIsKept
    <2> QED
        BY <2>1, <2>2, <2>3
<1> QED
    BY <1>1, <1>2, <1>3 DEF StartupInv

(* Every step is one of the loader, of the capture or of neither. *)
LEMMA LoaderStep == StartupInv /\ [Next]_vars => LoaderInv'
<1> SUFFICES ASSUME StartupInv, [Next]_vars PROVE LoaderInv'
    OBVIOUS
<1>1. LoaderInv
    BY DEF StartupInv
<1>2. CASE LoadConfig
    BY <1>1, <1>2, LoadKeepsInv DEF LoadConfig
<1>3. CASE UNCHANGED loaderVars
    BY <1>1, <1>3, LoaderStutters
<1> QED
    BY <1>2, <1>3
    DEF vars, Next, Program, PrintUsage, ConfigurationError, RunOffline, ClearStopRequest,
        InstallSignalHandlers, CallOpen, RunOpen, OpenFailed, OpenOutput, CloseCapture,
        LoopEnds, Signal, Traffic

LEMMA CaptureStep == StartupInv /\ [Next]_vars => OpenInv'
<1> SUFFICES ASSUME StartupInv, [Next]_vars PROVE OpenInv'
    OBVIOUS
<1>1. OpenInv /\ LoaderInv
    BY DEF StartupInv
<1>2. CASE CallOpen
    <2>1. config.capture.promiscuous \in BOOLEAN
        <3>1. /\ "capture" \in DOMAIN Options
              /\ "promiscuous" \in DOMAIN Options["capture"]
              /\ Options["capture"]["promiscuous"] = "bool"
            BY SMT DEF Options, CaptureOptions
        <3> QED
            BY <1>1, <3>1 DEF LoaderInv, ConfigInv, Fits
    <2>2. CaptureOptionsOf(config.capture).promiscuous = config.capture.promiscuous
        BY DEF CaptureOptionsOf
    <2> QED
        BY <1>1, <1>2, <2>1, <2>2, OpenKeepsInv DEF CallOpen
<1>3. CASE RunOpen
    BY <1>1, <1>3, OpenStepKeepsInv DEF RunOpen
<1>4. CASE Close
    BY <1>1, <1>4, CloseKeepsInv
<1>5. CASE Traffic
    BY <1>1, <1>5, ArrivalKeepsInv DEF Traffic
<1>6. CASE UNCHANGED openVars
    BY <1>1, <1>6, OpenStutters
<1> QED
    BY <1>2, <1>3, <1>4, <1>5, <1>6
    DEF vars, Next, Program, PrintUsage, LoadConfig, ConfigurationError, RunOffline,
        ClearStopRequest, InstallSignalHandlers, OpenFailed, OpenOutput, CloseCapture,
        LoopEnds, Signal

(* What main does, and what happens to it. *)
LEMMA MainStep ==
    StartupInv /\ [Next]_vars => MainInv' /\ OutputOnlyIfCapturing' /\ SignalIsKept'
<1> SUFFICES ASSUME StartupInv, [Next]_vars
             PROVE  MainInv' /\ OutputOnlyIfCapturing' /\ SignalIsKept'
    OBVIOUS
<1> DEFINE Goal == MainInv /\ OutputOnlyIfCapturing /\ SignalIsKept
<1>0. Goal
    BY DEF StartupInv
<1> USE DEF Goal, MainInv, OutputOnlyIfCapturing, SignalIsKept, Early, Modes, InterfaceGiven,
            CaptureWasOpened, loaderVars, openVars, memberVars, mainVars, Exit
<1>1. CASE PrintUsage
    BY <1>0, <1>1 DEF PrintUsage
<1>2. CASE LoadConfig
    BY <1>0, <1>2 DEF LoadConfig, Load, SkipLine, EnterSection, AssignValue, RejectLine,
                      EndOfFile, CannotOpenConfig, NextLine
<1>3. CASE ConfigurationError
    BY <1>0, <1>3 DEF ConfigurationError
<1>4. CASE RunOffline
    BY <1>0, <1>4 DEF RunOffline
<1>5. CASE ClearStopRequest
    <2>1. MainInv'
        BY <1>0, <1>5 DEF ClearStopRequest
    <2>2. OutputOnlyIfCapturing'
        BY <1>0, <1>5 DEF ClearStopRequest
    <2>3. SignalIsKept'
        BY <1>0, <1>5 DEF ClearStopRequest
    <2> QED
        BY <2>1, <2>2, <2>3
<1>6. CASE InstallSignalHandlers
    BY <1>0, <1>6 DEF InstallSignalHandlers
<1>7. CASE CallOpen
    BY <1>0, <1>7 DEF CallOpen, Open
<1>8. CASE RunOpen
    BY <1>0, <1>8 DEF RunOpen, OpenStep, ResolveInterface, CreateSocket, SetReceiveTimeout,
        SetPacketVersion, ConfigureRing, MapRing, Bind, EnablePromiscuousMembership,
        Proceed, Fail
<1>9. CASE OpenFailed
    BY <1>0, <1>9 DEF OpenFailed, Close
<1>10. CASE OpenOutput
    BY <1>0, <1>10 DEF OpenOutput, CaptureIsOpen
<1>11. CASE CloseCapture
    BY <1>0, <1>11 DEF CloseCapture, Close
<1>12. CASE LoopEnds
    BY <1>0, <1>12 DEF LoopEnds
<1>13. CASE Signal
    <2>1. MainInv'
        BY <1>0, <1>13 DEF Signal
    <2>2. OutputOnlyIfCapturing'
        BY <1>0, <1>13 DEF Signal
    <2>3. SignalIsKept'
        <3>1. stop_requested' = TRUE \/ main_pc' = "exit"
            BY <1>13 DEF Signal
        <3> QED
            BY <3>1, Zenon
    <2> QED
        BY <2>1, <2>2, <2>3
<1>14. CASE Traffic
    BY <1>0, <1>14 DEF Traffic, PacketArrives
<1>15. CASE UNCHANGED vars
    BY <1>0, <1>15 DEF vars
<1> QED
    BY <1>1, <1>2, <1>3, <1>4, <1>5, <1>6, <1>7, <1>8, <1>9, <1>10, <1>11, <1>12, <1>13,
       <1>14, <1>15
    DEF Next, Program

(* The invariant holds of every behaviour. *)
THEOREM StartupInvariant == Spec => []StartupInv
<1>1. StartupInv /\ [Next]_vars => StartupInv'
    BY LoaderStep, CaptureStep, MainStep DEF StartupInv
<1> QED
    BY <1>1, InitInv, PTL DEF Spec

-----------------------------------------------------------------------------
(* The theorems. *)

(* The state keeps its types, and Open runs only when main waits for it.    *)
THEOREM StartupTypes == Spec => []TypeOK
<1>1. StartupInv => TypeOK
    <2> SUFFICES ASSUME StartupInv PROVE TypeOK
        OBVIOUS
    <2>1. main_pc # "opening" => open_pc = "idle"
        BY DEF StartupInv, MainInv, Early
    <2> QED
        BY <2>1 DEF StartupInv, LoaderInv, OpenInv, Sockets, MainInv, Early, TypeOK, OpenSteps
<1> QED
    BY <1>1, StartupInvariant, PTL

(* What Open has been told and what it has found good, kept until Close:    *)
(* the configuration does not change behind the loader, what Open looks at  *)
(* first still holds behind its system calls, and so does the count of the  *)
(* frames, which it looks at between two of them.                           *)
LayoutInv ==
    /\ open_pc # "idle" \/ socket_fd => Acceptable(options)
    /\ open_pc \in {"ring", "mmap", "bind", "membership"} \/ socket_fd =>
           (IsRing(options) => FrameCountFits)
    /\ main_pc \in {"opening", "loop", "close"} => options = CaptureOptionsOf(config.capture)
    /\ socket_fd => main_pc \in {"opening", "loop", "close"}

LEMMA LayoutStep == StartupInv /\ LayoutInv /\ [Next]_vars => LayoutInv'
<1> SUFFICES ASSUME StartupInv, LayoutInv, [Next]_vars PROVE LayoutInv'
    OBVIOUS
<1> USE DEF IsRing
<1>0. /\ main_pc \in Early => open_pc = "idle" /\ ~socket_fd
      /\ main_pc \in {"loop", "close", "exit"} => open_pc = "idle"
      /\ main_pc \in Early \cup {"opening", "loop", "close", "exit"}
      /\ main_pc \in {"open", "opening", "loop", "close"} => handlers_installed
      /\ open_pc # "idle" => ~socket_fd
    BY DEF StartupInv, MainInv, OpenInv
<1>1. CASE UNCHANGED <<loaderVars, openVars, main_pc>>
    BY <1>1 DEF LayoutInv, loaderVars, openVars, memberVars, Acceptable, FrameCountFits,
       FrameCount, FramesPerBlock, CaptureOptionsOf, InterfaceGiven,
       ValidateRingConfiguration, ValidateRingLayout
<1>2. CASE PrintUsage \/ LoadConfig \/ ConfigurationError \/ RunOffline \/ ClearStopRequest
    <2>1. main_pc = "load"
        BY <1>2 DEF PrintUsage, LoadConfig, ConfigurationError, RunOffline, ClearStopRequest
    <2>2. UNCHANGED openVars /\ main_pc' \in {"load", "install", "exit"}
        BY <1>2, <2>1 DEF PrintUsage, LoadConfig, ConfigurationError, RunOffline,
           ClearStopRequest, Exit, mainVars
    <2> QED
        BY <1>0, <2>1, <2>2 DEF LayoutInv, openVars, memberVars, Early
<1>3. CASE InstallSignalHandlers
    BY <1>0, <1>3 DEF InstallSignalHandlers, LayoutInv, openVars, memberVars, Early
<1>4. CASE CallOpen
    <2>1. /\ options' = CaptureOptionsOf(config.capture)
          /\ UNCHANGED config
          /\ ~socket_fd'
          /\ main_pc' = "opening"
          /\ open_pc' \in {"idle", "if_nametoindex"}
          /\ open_pc' # "idle" => Acceptable(options')
        BY <1>4 DEF CallOpen, Open, loaderVars
    <2> QED
        BY <2>1 DEF LayoutInv, CaptureOptionsOf, InterfaceGiven, Acceptable,
           ValidateRingConfiguration, ValidateRingLayout
<1>5. CASE RunOpen
    <2>1. /\ UNCHANGED <<options, config, main_pc>>
          /\ open_pc # "idle"
        BY <1>5 DEF RunOpen, OpenStep, loaderVars, mainVars, ResolveInterface, CreateSocket,
           SetReceiveTimeout, SetPacketVersion, ConfigureRing, MapRing, Bind,
           EnablePromiscuousMembership, Proceed, Fail
    <2>2. main_pc = "opening"
        BY <1>0, <2>1
    <2>3. Acceptable(options)' /\ (options = CaptureOptionsOf(config.capture))'
        BY <2>1, <2>2 DEF LayoutInv, CaptureOptionsOf, InterfaceGiven, Acceptable,
           ValidateRingConfiguration, ValidateRingLayout
    <2>4. FrameCountFits' <=> FrameCountFits
        BY <2>1 DEF FrameCountFits, FrameCount, FramesPerBlock
    <2>5. \/ open_pc' \in {"ring", "mmap", "bind", "membership"}
          \/ socket_fd'
          => (IsRing(options) => FrameCountFits)
        BY <1>0, <1>5, <2>1 DEF LayoutInv, StartupInv, OpenInv, RunOpen, OpenStep,
           ResolveInterface, CreateSocket, SetReceiveTimeout, SetPacketVersion, ConfigureRing,
           MapRing, Bind, EnablePromiscuousMembership, Proceed, Fail, memberVars
    <2> QED
        BY <2>1, <2>2, <2>3, <2>4, <2>5 DEF LayoutInv
<1>6. CASE OpenFailed \/ CloseCapture
    BY <1>6 DEF OpenFailed, CloseCapture, Close, Exit, LayoutInv
<1>7. CASE OpenOutput \/ LoopEnds
    <2>1. /\ main_pc \in {"opening", "loop"}
          /\ main_pc' \in {"loop", "close"}
          /\ UNCHANGED <<loaderVars, openVars>>
        BY <1>7 DEF OpenOutput, CaptureIsOpen, LoopEnds
    <2> QED
        BY <2>1 DEF LayoutInv, loaderVars, openVars, memberVars, Acceptable, FrameCountFits,
           FrameCount, FramesPerBlock, CaptureOptionsOf, InterfaceGiven,
           ValidateRingConfiguration, ValidateRingLayout
<1>8. CASE Signal
    <2>1. CASE UNCHANGED main_pc
        BY <1>1, <1>8, <2>1 DEF Signal
    <2>2. CASE ~handlers_installed /\ main_pc' = "exit"
        <3>1. open_pc = "idle" /\ ~socket_fd
            BY <1>0, <1>8, <2>2 DEF Signal, Early
        <3> QED
            BY <1>8, <2>2, <3>1 DEF Signal, LayoutInv, openVars, memberVars
    <2> QED
        BY <1>8, <2>1, <2>2 DEF Signal
<1>9. CASE Traffic
    BY <1>9 DEF Traffic, PacketArrives, LayoutInv, loaderVars, mainVars, memberVars,
       Acceptable, FrameCountFits, FrameCount, FramesPerBlock, CaptureOptionsOf,
       InterfaceGiven, ValidateRingConfiguration, ValidateRingLayout
<1>10. CASE UNCHANGED vars
    BY <1>1, <1>10 DEF vars, mainVars
<1> QED
    BY <1>2, <1>3, <1>4, <1>5, <1>6, <1>7, <1>8, <1>9, <1>10 DEF Next, Program

(* A dividend without remainder is its quotient times the divisor. *)
LEMMA DividesWithoutRest ==
    ASSUME NEW a \in Nat, NEW b \in Nat \ {0}, a % b = 0
    PROVE  a \div b \in Nat /\ a = (a \div b) * b
OBVIOUS

(* What a mask as wide as the number leaves of it. *)
LEMMA FitsUnchanged ==
    ASSUME NEW m \in Nat, NEW n \in 0 .. m
    PROVE  n % (m + 1) = n
OBVIOUS

(* Whatever the file says, and whatever the width of the integers and the   *)
(* size of a page: the ring of an open capture is the one that has been     *)
(* asked for, its blocks are pages full of frames that have room for a      *)
(* header, and the 32 bits the kernel gets say how many.                    *)
THEOREM RingIsAlwaysWhole == Spec => []RingIsWhole
<1>1. Init => LayoutInv
    BY DEF Init, OpenInit, LayoutInv
<1>2. StartupInv /\ LayoutInv => RingIsWhole
    <2> SUFFICES ASSUME StartupInv, LayoutInv, ring_mapping PROVE RingIsWhole
        BY DEF RingIsWhole
    <2>1. socket_fd /\ IsRing(options)
        BY DEF StartupInv, OpenInv
    <2>2. /\ ValidateRingConfiguration(options)
          /\ FrameCountFits
          /\ options = CaptureOptionsOf(config.capture)
        BY <2>1 DEF LayoutInv, Acceptable
    <2>3. ASSUME NEW name \in {"ring_block_size", "ring_block_count", "ring_frame_size"}
          PROVE  config["capture"][name] \in Nat
        <3>1. /\ "capture" \in DOMAIN Options
              /\ name \in DOMAIN Options["capture"]
              /\ Options["capture"][name] = "uint32"
            BY <2>3, SMT DEF Options, CaptureOptions
        <3>2. config["capture"][name] \in 0 .. Max32
            BY <3>1 DEF StartupInv, LoaderInv, ConfigInv, Fits
        <3> QED
            BY <3>2
    <2>4. /\ options.ring_block_size \in Nat
          /\ options.ring_block_count \in Nat
          /\ options.ring_frame_size \in Nat
        BY <2>2, <2>3 DEF CaptureOptionsOf
    <2>5. /\ options.ring_block_count >= 1
          /\ options.ring_frame_size # 0
          /\ options.ring_block_size % options.ring_frame_size = 0
          /\ options.ring_block_size % PageSize = 0
          /\ options.ring_frame_size >= MinFrameSize
        BY <2>2, <2>4 DEF ValidateRingConfiguration, ValidateRingLayout
    <2>6. options.ring_block_size = FramesPerBlock(options) * options.ring_frame_size
        BY <2>4, <2>5, DividesWithoutRest DEF FramesPerBlock
    <2>7. FrameNr(options) = FrameCount(options)
        BY <2>2, FitsUnchanged, LayoutAssumption DEF FrameCountFits, FrameNr
    <2> QED
        BY <2>2, <2>5, <2>6, <2>7 DEF RingIsWhole, FrameCount
<1> QED
    BY <1>1, <1>2, LayoutStep, StartupInvariant, PTL DEF Spec

(* Whichever system call of Open fails, nothing stays behind. *)
THEOREM NothingEverLeaks == Spec => []NothingLeaks
<1>1. OpenInv => NothingLeaks
    BY DEF OpenInv, NothingLeaks
<1> QED
    BY <1>1, StartupInvariant, PTL DEF StartupInv

(* A capture that is open is what it was asked to be. *)
THEOREM OpenIsAlwaysComplete == Spec => []OpenIsComplete
<1>1. OpenInv => OpenIsComplete
    BY DEF OpenInv, SocketIs, Sockets, OpenIsComplete, IsRing
<1> QED
    BY <1>1, StartupInvariant, PTL DEF StartupInv

(* The last output is emptied only when capturing is certain. *)
THEOREM OutputIsSpared == Spec => []OutputOnlyIfCapturing
<1> QED
    BY StartupInvariant, PTL DEF StartupInv

(* No signal is lost, at whatever moment it comes. *)
THEOREM SignalsAreKept == Spec => []SignalIsKept
<1> QED
    BY StartupInvariant, PTL DEF StartupInv

-----------------------------------------------------------------------------
(* How many steps the program takes at most to its end; Open has nine       *)
(* points at which it may be, in the order of its system calls.             *)
StepsOfOpen ==
    CASE open_pc = "if_nametoindex" -> 10
      [] open_pc = "socket" -> 9
      [] open_pc = "version" -> 8
      [] open_pc = "ring" -> 7
      [] open_pc \in {"mmap", "timeout"} -> 6
      [] open_pc = "bind" -> 5
      [] open_pc = "membership" -> 4
      [] OTHER -> 3

StepsToExit ==
    CASE main_pc = "exit" -> 0
      [] main_pc = "close" -> 1
      [] main_pc = "loop" -> 2
      [] main_pc = "opening" -> StepsOfOpen
      [] OTHER -> 11

EndApproaches ==
    [][signalled =>
          /\ Program \/ LoopEnds => StepsToExit' < StepsToExit
          /\ StepsToExit' <= StepsToExit]_vars

(* What SignalEndsProgram rests on besides fairness: after a signal the     *)
(* program is at most eleven steps from its end, wherever in Open the       *)
(* signal has come, whichever backend it opens and whatever system call     *)
(* fails; neither traffic nor further signals take it away from there.      *)
THEOREM EndIsApproached == Spec => EndApproaches
<1>1. StartupInv /\ [Next]_vars =>
          [signalled =>
              /\ Program \/ LoopEnds => StepsToExit' < StepsToExit
              /\ StepsToExit' <= StepsToExit]_vars
  <2> SUFFICES ASSUME StartupInv, Next, signalled
               PROVE  /\ Program \/ LoopEnds => StepsToExit' < StepsToExit
                      /\ StepsToExit' <= StepsToExit
    OBVIOUS
  <2>1. /\ main_pc \in {"open", "opening", "loop", "close", "exit"}
        /\ open_pc \in OpenSteps
        /\ main_pc # "opening" => open_pc = "idle"
        /\ main_pc # "exit" => handlers_installed
    BY DEF StartupInv, MainInv, OpenInv, Early
  <2>2. /\ StepsOfOpen \in 3 .. 10 /\ StepsToExit \in 0 .. 11
        /\ StepsOfOpen' \in 3 .. 10 /\ StepsToExit' \in 0 .. 11
    BY DEF StepsOfOpen, StepsToExit
  <2>3. ASSUME Program \/ LoopEnds PROVE StepsToExit' < StepsToExit
    <3>1. CASE \/ PrintUsage \/ LoadConfig \/ ConfigurationError \/ RunOffline
               \/ ClearStopRequest \/ InstallSignalHandlers
      BY <2>1, <3>1 DEF PrintUsage, LoadConfig, ConfigurationError, RunOffline,
                        ClearStopRequest, InstallSignalHandlers
    <3>2. CASE CallOpen
      <4>1. main_pc = "open" /\ main_pc' = "opening"
        BY <3>2 DEF CallOpen
      <4>2. StepsToExit = 11 /\ StepsToExit' = StepsOfOpen'
        BY <4>1 DEF StepsToExit
      <4> QED
        BY <2>2, <4>2
    <3>3. CASE RunOpen
      <4>1. open_pc # "idle" /\ main_pc' = main_pc
        BY <3>3 DEF RunOpen, mainVars, OpenStep, ResolveInterface, CreateSocket,
                    SetReceiveTimeout, SetPacketVersion, ConfigureRing, MapRing, Bind,
                    EnablePromiscuousMembership
      <4>2. StepsToExit = StepsOfOpen /\ StepsToExit' = StepsOfOpen'
        BY <2>1, <4>1 DEF StepsToExit
      <4>3. StepsOfOpen' < StepsOfOpen
        BY <3>3 DEF RunOpen, OpenStep, ResolveInterface, CreateSocket, SetReceiveTimeout,
                    SetPacketVersion, ConfigureRing, MapRing, Bind,
                    EnablePromiscuousMembership, Proceed, Fail, StepsOfOpen
      <4> QED
        BY <4>2, <4>3
    <3>4. CASE OpenFailed \/ OpenOutput
      <4>1. main_pc = "opening" /\ main_pc' \in {"loop", "close", "exit"}
        BY <3>4 DEF OpenFailed, Exit, OpenOutput, CaptureIsOpen
      <4>2. StepsToExit = StepsOfOpen /\ StepsToExit' \in {0, 1, 2}
        BY <4>1 DEF StepsToExit
      <4> QED
        BY <2>2, <4>2
    <3>5. CASE CloseCapture
      <4>1. main_pc = "close" /\ main_pc' = "exit"
        BY <3>5 DEF CloseCapture
      <4> QED
        BY <4>1 DEF StepsToExit
    <3>6. CASE LoopEnds
      <4>1. main_pc = "loop" /\ main_pc' = "close"
        BY <3>6 DEF LoopEnds
      <4> QED
        BY <4>1 DEF StepsToExit
    <3> QED
      BY <2>3, <3>1, <3>2, <3>3, <3>4, <3>5, <3>6 DEF Program
  <2>4. ASSUME Signal \/ Traffic PROVE StepsToExit' <= StepsToExit
    <3>1. main_pc' = main_pc /\ open_pc' = open_pc
      BY <2>1, <2>4 DEF Signal, Traffic, PacketArrives, openVars, mainVars
    <3> QED
      BY <2>2, <3>1 DEF StepsToExit, StepsOfOpen
  <2>5. ASSUME Program \/ LoopEnds PROVE StepsToExit' <= StepsToExit
    BY <2>2, <2>3, <2>5
  <2> QED
    BY <2>3, <2>4, <2>5 DEF Next
<1> QED
  BY <1>1, StartupInvariant, PTL DEF Spec, EndApproaches

-----------------------------------------------------------------------------
(* How long OnlyThisInterface can be made wrong. *)

NothingForeignLater ==
    [][socket_fd => socket'.received \subseteq socket.received \cup {"interface"}]_vars

(* Once Open has returned, what reaches the capture is a packet of its      *)
(* interface: what the finding about OnlyThisInterface lets in has come     *)
(* between the calls of socket and bind.                                    *)
THEOREM NothingForeignArrivesLater == Spec => NothingForeignLater
<1>1. StartupInv /\ [Next]_vars =>
         [socket_fd => socket'.received \subseteq socket.received \cup {"interface"}]_vars
  <2> SUFFICES ASSUME StartupInv, Next, socket_fd
               PROVE  socket'.received \subseteq socket.received \cup {"interface"}
    OBVIOUS
  <2>1. /\ open_pc = "idle" /\ ~error
        /\ socket \in Sockets /\ socket.hook = "interface"
        /\ main_pc # "open"
    BY DEF StartupInv, OpenInv, SocketIs, MainInv, Early
  <2>2. CASE Traffic
    <3>1. PICK origin \in {"interface", "another"} :
             /\ origin = "interface"
             /\ socket' = [socket EXCEPT !.received = @ \cup {origin}]
      BY <2>1, <2>2 DEF Traffic, PacketArrives
    <3> QED
      BY <2>1, <3>1 DEF Sockets
  <2>3. CASE CloseCapture
    <3>1. socket' = NoSocket
      BY <2>1, <2>3, NothingIsLeft DEF CloseCapture, Close, StartupInv
    <3> QED
      BY <3>1 DEF NoSocket
  <2>4. CASE CallOpen \/ RunOpen \/ OpenFailed
    BY <2>1, <2>4 DEF CallOpen, RunOpen, OpenFailed, OpenStep, ResolveInterface, CreateSocket,
                      SetReceiveTimeout, SetPacketVersion, ConfigureRing, MapRing, Bind,
                      EnablePromiscuousMembership
  <2>5. CASE \/ PrintUsage \/ LoadConfig \/ ConfigurationError \/ RunOffline
             \/ ClearStopRequest \/ InstallSignalHandlers \/ OpenOutput \/ LoopEnds \/ Signal
    <3>1. socket' = socket
      BY <2>5 DEF PrintUsage, LoadConfig, ConfigurationError, RunOffline, ClearStopRequest,
                  InstallSignalHandlers, OpenOutput, LoopEnds, Signal, openVars
    <3> QED
      BY <3>1
  <2> QED
    BY <2>2, <2>3, <2>4, <2>5 DEF Next, Program
<1> QED
  BY <1>1, StartupInvariant, PTL DEF Spec, NothingForeignLater

=============================================================================
