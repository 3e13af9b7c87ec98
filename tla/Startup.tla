-------------------------------- MODULE Startup --------------------------------
(***************************************************************************)
(* main.cpp from the command line to the exit code: the configuration is   *)
(* loaded (ConfigLoader), the capture is opened (CaptureOpen), then the    *)
(* output file; the capture loop is one step here, LiveCapture and         *)
(* TpacketRing have its steps, and so is the offline feed, which           *)
(* OfflinePacketFeed has.  A signal may come at any moment.                *)
(***************************************************************************)
EXTENDS ConfigLoader, CaptureOpen

VARIABLES
    main_pc,
    mode,                \* what the command line asks for
    handlers_installed,
    stop_requested,      \* g_stop_requested
    output,              \* the output file: "untouched", "emptied" or "header"
    exit_code,           \* -1: not there yet, or killed by a signal
    signalled            \* history: there has been a signal

mainVars == <<main_pc, mode, handlers_installed, stop_requested, output, exit_code, signalled>>
vars == <<loaderVars, openVars, mainVars>>

Modes == {"help", "usage", "live", "offline"}

Exit(code) ==
    /\ main_pc' = "exit"
    /\ exit_code' = code

-----------------------------------------------------------------------------
(* main. *)

PrintUsage ==
    /\ main_pc = "load"
    /\ mode \in {"help", "usage"}
    /\ Exit(IF mode = "help" THEN 0 ELSE 1)
    /\ UNCHANGED <<loaderVars, openVars, mode, handlers_installed, stop_requested,
                   output, signalled>>

LoadConfig ==
    /\ main_pc = "load"
    /\ mode \in {"live", "offline"}
    /\ Load
    /\ UNCHANGED <<openVars, mainVars>>

ConfigurationError ==
    /\ main_pc = "load"
    /\ load_pc = "failed"
    /\ Exit(1)
    /\ UNCHANGED <<loaderVars, openVars, mode, handlers_installed, stop_requested,
                   output, signalled>>

(* OfflinePacketFeed::Run: the output is opened when the input has been     *)
(* found good.                                                              *)
RunOffline ==
    /\ main_pc = "load"
    /\ load_pc = "loaded"
    /\ mode = "offline"
    /\ \/ Exit(1) /\ output' \in {"untouched", "emptied", "header"}
       \/ Exit(0) /\ output' \in {"emptied", "header"}
    /\ UNCHANGED <<loaderVars, openVars, mode, handlers_installed, stop_requested, signalled>>

InterfaceGiven == config.capture.interface # NoText

(* RunLiveCapture: the flag is cleared before a handler can set it.         *)
ClearStopRequest ==
    /\ main_pc = "load"
    /\ load_pc = "loaded"
    /\ mode = "live"
    /\ \/ InterfaceGiven /\ main_pc' = "install" /\ UNCHANGED exit_code
       \/ ~InterfaceGiven /\ Exit(1)
    /\ stop_requested' = FALSE
    /\ UNCHANGED <<loaderVars, openVars, mode, handlers_installed, output, signalled>>

(* Mutant: the flag is cleared when the handlers are there. *)
InstallAndClear ==
    /\ main_pc = "install"
    /\ \/ ~handlers_installed /\ UNCHANGED <<main_pc, stop_requested>>
       \/ handlers_installed /\ main_pc' = "open" /\ stop_requested' = FALSE
    /\ handlers_installed' = TRUE
    /\ UNCHANGED <<loaderVars, openVars, mode, output, exit_code, signalled>>

InstallSignalHandlers ==
    /\ main_pc = "install"
    /\ handlers_installed' = TRUE
    /\ main_pc' = "open"
    /\ UNCHANGED <<loaderVars, openVars, mode, stop_requested, output, exit_code, signalled>>

(* What Open is told of the configuration. *)
CaptureOptionsOf(capture) ==
    [backend |-> capture.backend,
     interface_given |-> InterfaceGiven,
     promiscuous |-> capture.promiscuous,
     ring_block_size |-> capture.ring_block_size,
     ring_block_count |-> capture.ring_block_count,
     ring_frame_size |-> capture.ring_frame_size]

CallOpen ==
    /\ main_pc = "open"
    /\ Open(CaptureOptionsOf(config.capture))
    /\ main_pc' = "opening"
    /\ UNCHANGED <<loaderVars, mode, handlers_installed, stop_requested, output,
                   exit_code, signalled>>

RunOpen ==
    /\ OpenStep
    /\ UNCHANGED <<loaderVars, mainVars>>

(* The destructor of a capture that is not open closes nothing. *)
OpenFailed ==
    /\ main_pc = "opening"
    /\ open_pc = "idle"
    /\ error
    /\ Close
    /\ Exit(1)
    /\ UNCHANGED <<loaderVars, mode, handlers_installed, stop_requested, output, signalled>>

(* Open has been called and has returned TRUE. *)
CaptureWasOpened == options.interface_given /\ open_pc = "idle" /\ ~error

(* Mutant: the output file is opened first. *)
OutputOpenedFirst == main_pc = "opening"

CaptureIsOpen == main_pc = "opening" /\ CaptureWasOpened

(* The output file and its global header. *)
OpenOutput ==
    /\ CaptureIsOpen
    /\ \/ output' = "header" /\ main_pc' = "loop" /\ UNCHANGED exit_code
       \/ output' \in {"untouched", "emptied"} /\ main_pc' = "close" /\ exit_code' = 1
    /\ UNCHANGED <<loaderVars, openVars, mode, handlers_installed, stop_requested, signalled>>

(* The loop ends on a signal, at a bound or with an error; until then it    *)
(* may go on for ever.                                                      *)
LoopEnds ==
    /\ main_pc = "loop"
    /\ main_pc' = "close"
    /\ exit_code' \in {0, 1}
    /\ UNCHANGED <<loaderVars, openVars, mode, handlers_installed, stop_requested, output,
                   signalled>>

CloseCapture ==
    /\ main_pc = "close"
    /\ Close
    /\ main_pc' = "exit"
    /\ UNCHANGED <<loaderVars, mode, handlers_installed, stop_requested, output, exit_code,
                   signalled>>

-----------------------------------------------------------------------------
(* SIGINT or SIGTERM: HandleStopSignal, or the end of the program.          *)
Signal ==
    /\ main_pc # "exit"
    /\ signalled' = TRUE
    /\ \/ handlers_installed /\ stop_requested' = TRUE /\ UNCHANGED main_pc
       \/ ~handlers_installed /\ main_pc' = "exit" /\ UNCHANGED stop_requested
    /\ UNCHANGED <<loaderVars, openVars, mode, handlers_installed, output, exit_code>>

Traffic ==
    /\ main_pc # "exit"
    /\ \E origin \in {"interface", "another"} : PacketArrives(origin)
    /\ UNCHANGED <<loaderVars, mainVars>>

Init ==
    /\ LoaderInit
    /\ OpenInit
    /\ main_pc = "load"
    /\ mode \in Modes
    /\ handlers_installed = FALSE
    /\ stop_requested = FALSE
    /\ output = "untouched"
    /\ exit_code = -1
    /\ signalled = FALSE

Program ==
    \/ PrintUsage
    \/ LoadConfig
    \/ ConfigurationError
    \/ RunOffline
    \/ ClearStopRequest
    \/ InstallSignalHandlers
    \/ CallOpen
    \/ RunOpen
    \/ OpenFailed
    \/ OpenOutput
    \/ CloseCapture

Next == Program \/ LoopEnds \/ Signal \/ Traffic

Spec == Init /\ [][Next]_vars

(* The program runs; its loop need end only when it is asked to, which is   *)
(* what LiveCapture and TpacketRing show of it.                             *)
FairSpec == Spec /\ WF_vars(Program) /\ WF_vars(stop_requested /\ LoopEnds)

-----------------------------------------------------------------------------
(* Properties. *)

OpenSteps ==
    {"idle", "if_nametoindex", "socket", "timeout", "version", "ring", "mmap",
     "bind", "membership"}

(* The types; Open runs only when main waits for it. *)
TypeOK ==
    /\ load_pc \in {"read", "loaded", "failed"}
    /\ line_number \in Nat
    /\ error_line \in 0 .. line_number
    /\ socket \in [fd : BOOLEAN, ring : BOOLEAN, mapped : BOOLEAN,
                   hook : {"none", "every_interface", "interface"},
                   promiscuous : BOOLEAN, received : SUBSET {"interface", "another"}]
    /\ open_pc \in (IF main_pc = "opening" THEN OpenSteps ELSE {"idle"})
    /\ error \in BOOLEAN
    /\ socket_fd \in BOOLEAN
    /\ ring_mapping \in BOOLEAN
    /\ promiscuous_enabled \in BOOLEAN
    /\ main_pc \in {"load", "install", "open", "opening", "loop", "close", "exit"}
    /\ mode \in Modes
    /\ handlers_installed \in BOOLEAN
    /\ stop_requested \in BOOLEAN
    /\ output \in {"untouched", "emptied", "header"}
    /\ exit_code \in {-1, 0, 1}
    /\ signalled \in BOOLEAN

(* Whatever the file says and in whatever order, the ring of an open        *)
(* capture is the one it asks for, and one a reader can work with: there is *)
(* a block to go round, the blocks are pages and hold frames without a      *)
(* rest, a frame has room for what the kernel puts in front of a packet,    *)
(* and the kernel has been told of every frame.  The loader, Open before    *)
(* its first system call, and Open between two of them each look at a part. *)
RingIsWhole ==
    ring_mapping =>
        /\ options = CaptureOptionsOf(config.capture)
        /\ options.ring_block_count >= 1
        /\ options.ring_block_size % PageSize = 0
        /\ options.ring_block_size = FramesPerBlock(options) * options.ring_frame_size
        /\ options.ring_frame_size >= MinFrameSize
        /\ FrameNr(options) = FramesPerBlock(options) * options.ring_block_count

(* A live capture empties the output file of the last one only when it is   *)
(* certain to capture: not for a bad configuration, a missing interface or  *)
(* permission, or a ring that the kernel refuses.  And a success has handed *)
(* the output at least the global header.                                   *)
OutputOnlyIfCapturing ==
    mode = "live" =>
        /\ output # "untouched" => load_pc = "loaded" /\ CaptureWasOpened
        /\ exit_code = 0 => output = "header"

(* No signal is lost: the flag is cleared before the handlers are there,    *)
(* and before that a signal ends the program.                               *)
SignalIsKept == signalled => stop_requested \/ main_pc = "exit"

(* README.md "clean shutdown": a signal at any moment, also while the       *)
(* capture is being opened, ends the program.                               *)
SignalEndsProgram == signalled ~> main_pc = "exit"

=============================================================================
