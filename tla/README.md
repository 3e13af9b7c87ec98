# Verification of PcapConstrictorAFPacket

This directory holds TLA+ models of the program in `src/`, the TLC runs that
check them on small instances, and TLAPS proofs of the theorems that hold for
every value of the constants.  PcapConstrictorAFPacket records the traffic of a
Linux interface to a classic PCAP file and saves only a prefix of TLS
application data and of QUIC short header packets.

Run `tlc -workers 2 -config <cfg> <module>.tla` for a run of the table below,
and `tlapm <module>.tla` for a `...Proofs` module.  `PROJECT.json` lists runs,
mutants, theorems, findings and hazards, and says for every definition which
lines of the source it stands for.

## 1. The system

```
 interface -> kernel -> AfPacketCapture (recvmsg)          \
                        AfPacketTpacketV3Capture (ring)     > RunLiveCapture (main.cpp)
                                                           /        |
 PCAP file -> PcapReader -> OfflinePacketFeed::Run                  |
                                   |                                |
                                   +--------> LiveCapturePolicy <---+
                                               |- PacketDecode
                                               |- TlsConstrictor  (state per direction)
                                               '- QuicConstrictor (state per flow)
                                                     |
                                              PcapWriter -> std::ofstream
```

Before that, `main` reads a configuration file (`ConfigLoader`) and either opens
a capture (`Open` of a backend, with `AfPacketSocketOptions`) and then the
output file, or runs the offline feed.

The program has one thread.  What runs beside it is the kernel (the socket
buffer, the ring), a signal handler that sets one flag, the clock, the disk, and
whoever else writes to the input file.  A packet goes through the pipeline before the next one
is asked for; the policy and the constrictors are plain calls.

| component | state | operations | hard about it | correct means |
|---|---|---|---|---|
| `TlsConstrictor` | per direction: synchronized, confirmed, expected sequence number, the open record and its remaining bytes | `Evaluate` | loss, repetition and reordering of segments; records across segments; 32-bit sequence numbers; unsigned counts; port reuse; payload that looks like a header | an open record is one that is there; heads are kept; only final segments of a record are cut; a confirmed direction finds its place again |
| `QuicConstrictor` | per flow: the connection id announced by either endpoint | `Evaluate` | one entry for two directions; coalesced packets; length fields past the datagram; order of long and short headers | exactly the packets addressed to the announced id are matched; their heads are kept |
| `AfPacketTpacketV3Capture` | block index, walk in the active block, error count; shares the ring with the kernel | `Open`, `ReceiveNext`, `Close` | ring full, empty and damaged blocks, views into shared memory, signal before `poll` | in order, once, nothing lost unnoticed; a view stays valid; blocks go back; a stop request ends it |
| `AfPacketCapture` | socket, receive buffer, error count | `Open`, `ReceiveNext`, `Close` | signal before `recvfrom`, timeouts, `ENOBUFS` | as above |
| `main`, `RunLiveCapture` | stop flag, stats, stop reason | from the command line to the exit code; the capture loop | a signal at any moment; bounds and write errors in any order; the buffer of the output stream | the last output is spared until capturing is certain; no signal is lost; the file has no gap, the bounds are exact, the reason is true |
| `LiveCapturePolicy` | the two constrictors | `Evaluate` | five lengths and a threshold that have to agree | never more than there is; a cut saves enough; the reason says what was done |
| `PacketDecode` | none | `DecodePacket` | four length fields of the packet, truncation, padding | a payload that is reported is there |
| `PcapReader`, `OfflinePacketFeed` | offset, index, incomplete tail; stats | `Open`, `ReadNext`, `Run` | files cut anywhere, or while they are read | the output is the input with shorter packets; damage is reported |
| `PcapWriter` | whether the header is written | `WritePacket` | write errors, header only with the first packet | its check never throws; orig_len is kept |
| `ConfigLoader`, `PolicyConfig` | section, line, the configuration so far | `LoadFromFile` | options in any order, repeated, in the wrong section; files that end anywhere | no loaded ring ends up open that a reader cannot work with; an error names its line |
| `AfPacketSocketOptions` | none | the promiscuous membership, as a part of `Open` and `Close` | the last step of `Open` that may fail | an interface is promiscuous exactly while a capture wants it |
| `CaptureStats` | counters | `AccumulateDecisionStats`, twice: live and offline | a switch over reasons that has two copies | the counters are true of the output |
| `PacketView`, `CapturedPacket` | values | accessors | lengths clamped | part of the modules above |

## 2. Modules

| module | models | checked by | proved in |
|---|---|---|---|
| `TlsConstrictor` | policy/TlsConstrictor | `MCTlsConstrictor` | `TlsConstrictorProofs` |
| `QuicConstrictor` | policy/QuicConstrictor | `MCQuicConstrictor` | `QuicConstrictorProofs` |
| `PacketSource` | what a capture backend promises (abstract) | as a property of the next two | |
| `TpacketRing` | capture/AfPacketTpacketV3Capture and the kernel's side of the ring | `MCTpacketRing` | `TpacketRingProofs`, `RingSourceProofs` |
| `LiveCapture` | main.cpp `RunLiveCapture` with capture/AfPacketCapture, and the output stream | `MCLiveCapture` | `LiveCaptureProofs` |
| `PacketDecode` | decode/PacketDecode, as operators | through `OfflinePacketFeed` | `OfflinePacketFeedProofs` |
| `LiveCapturePolicy` | policy/LiveCapturePolicy, as operators over `PacketDecode` | through `OfflinePacketFeed` | `OfflinePacketFeedProofs` |
| `OfflinePacketFeed` | offline/OfflinePacketFeed, offline/PcapReader, writer/PcapWriter, stats/CaptureStats | `MCOfflinePacketFeed` | `OfflinePacketFeedProofs`, `FeedSizeProofs` |
| `ConfigLoader` | config/ConfigLoader, config/PolicyConfig | through `Startup` | `StartupProofs` |
| `CaptureOpen` | `Open` and `Close` of both backends, capture/AfPacketSocketOptions, and the kernel's socket | through `Startup` | `StartupProofs` |
| `Startup` | main.cpp `main` and `RunLiveCapture` around `ConfigLoader` and `CaptureOpen` | `MCStartup` | `StartupProofs` |

An operator whose comment starts with "Mutant:" is not part of the model.  It is
the form the next definition would have with a plausible bug, kept to show that
a property notices.

### TlsConstrictor

The environment owns the byte stream of every direction: where its TLS records
start, what the bytes at a position parse to, and the initial sequence number.
The next segment is any segment of any stream, so that loss, repetition,
reordering, overlap and a capture that starts in the middle are all choices of
the environment.  Bytes of payload that parse as a record header ("lookalikes")
are positions in `Header` outside `RecordStart`.

`Evaluate` is split where the code branches: entry, reset and the continuation of an open
record (`Begin...`, `Continue...`), one iteration of the record loop
(`Parse...`), the verdict (`Conclude...`).  An absent key of `directions_` is
`NoState`, which the code cannot tell from a fresh entry.
`has_seen_application_data` and `active_record_content_type` are written and
never read and are left out.  The checks at TlsConstrictor.cpp:105-108 and
129-132 never fail for the packets that the policy passes on; the theorem
`DecodedPayloadInside` is the reason.  The test of `synchronized` at line 273
is always true there.

### QuicConstrictor

An endpoint is a number in the order of `CompareEndpoints`; a connection id is a
sequence of bytes; a datagram is given by what the code reads at the offsets it
may reach, so that length fields, version 0, Retry, coalescing and truncation
are all kinds of readings.  `latest` remembers what each endpoint has really
announced to each other one, independently of the canonical keys of the code.

### PacketSource, TpacketRing, LiveCapture

`PacketSource` is the promise of a backend: packets come out in the order they
arrived, each once, some may be missing, and none after the end.

`TpacketRing` interleaves the kernel (open, store, drop, retire a block) with
`ReceiveNext`, whose steps are the points where another actor matters: the stop
check, the look at the block status, `poll`.  The offsets inside a block are
abstracted to the defect the code would find (`bad_data`, `bad_next`, a damaged
block).  `ActivateCurrentBlock` looks at the status word a second time
(AfPacketTpacketV3Capture.cpp:519); so do the three `Activate...` steps, and the lemma
`ReadyToActivate` shows that it never finds anything else than
`WaitForReadyBlock` did.  The block is read behind its status word in program
order.  The code has a barrier in front of the read of the status word (463) and
one in `ReleaseCurrentBlock`, but none between the status word and the contents
of the block; x86 keeps that order without one, and of weaker memory orders the
model says nothing.

`LiveCapture` composes the loop of `main.cpp`, the recvmsg backend with its
timeout of one second, the socket buffer, the signal flag, the duration, a disk
that may fill up at any time and the buffer of the output stream.  A packet is
its number of arrival, the global header is 0.  The reasons "interrupted" and
"stopped" exist in the code; `ReasonIsTrue` shows that neither is ever printed
with exit code 0.  A write error ends the program without stats, as in the code.

### PacketDecode, LiveCapturePolicy, OfflinePacketFeed

A frame is the number of bytes captured and the fields the decoder reads; the
decoder is a function of it, with every check and reason of the code.  The
policy gets any result the constrictors may give (`Results`): an
over-approximation, since the modules of the constrictors do not share the
frame.  That the constrictors give no other result is part of `TypeOK` of their
modules, and proved with it.  `OfflinePacketFeed` reads an input that is cut at any of the places in
`Size`, when it is opened or later, or that cannot be opened at all; the size is read once, as in
`PcapReader::Open`.  A read may succeed although the file has been shortened,
because the stream buffers.  That a file grows does not matter, because the
size is fixed.  What the writer hands to its stream counts as written; the loss of
the stream's buffer is in `LiveCapture` and is the same here.  The stats are
counted as `Run` counts them, by the reason of the decision; `StatsTellTheOutput`
compares them with the two files.

### ConfigLoader, CaptureOpen, Startup

`ConfigLoader` takes one step for each line of the file.  A line is what is left
without comment and blanks, a value what the parsers make of it.  `EndOfFile` is
possible behind every line: a read error ends the file as its end does, since
ConfigLoader.cpp:398 asks the wrong stream, and a directory loads as an empty
file.  No property holds the loader to more than that, since a part of a good
file is a good file.  A configuration that loads may still be refused by `Open`: the loader
knows nothing of page size, alignment, the kernel's headers or the count of the
frames.  What the three checks come to together is `RingIsWhole`, which speaks of a capture
that is open.

`CaptureOpen` takes one step for each system call of `Open`, each of which may
fail; the count of the frames is looked at between two of them, in 64 bits, and
handed to the kernel in 32 (`FrameNr`).  The kernel's socket lives as long as the descriptor or a mapping of its ring
refers to it, and receives from every interface until it is bound.  What is
acquired is local to `Open` until its last step, as in the code.

`Startup` is the rest of `main`.  The loop and the offline feed are one step
each, since `LiveCapture`, `TpacketRing` and `OfflinePacketFeed` have their
steps.  A signal may come between any two steps; before the handlers are
installed it ends the program.

## 3. Runs

| run | expect | what it shows |
|---|---|---|
| `tls_clean` | pass | streams without lookalikes: `ActiveRecordAligned`, `CutKeepsHeads`, `ContinuationCutIsFinal`, `ResyncAtRecordStart`, `CutNeedsHandshake`, types, and `EvaluateReturns` |
| `tls_alert` | violation | `OnlyApplicationDataIsDropped`: a complete alert record behind application data in one segment is dropped with it |
| `quic_strict` | pass | with `require_dcid_match`: exactly the announced id is matched, either direction, coalesced or not |
| `quic_default` | violation | `OnlyMatchedIsCut`: the default options cut packets of flows of which nothing is known |
| `ring_safety` | pass | `ReaderAtOldest`, `ViewStable`, `NoSilentLoss`, types, the refinement `ImplementsSource`, that every block goes back (`BlocksAreReleased`), and that a stop request ends the capture (`StopIsHonoured`) |
| `ring_infinite` | violation | `StopIsHonoured` with a `block_timeout_ms` of 2^31 or more, which becomes a negative timeout of `poll` |
| `live_capture` | pass | `FileHasNoGap`, `PacketsAccountedFor`, `LimitIsExact`, `ReasonIsTrue`, `StopIsPrompt`, types, the refinement `ImplementsSource`, and that a signal and the end of `duration_sec` end the capture (`CaptureEnds`) |
| `live_unflushed` | violation | `SuccessMeansSaved`: a packet that has been counted is lost in the stream's buffer when the disk is full, and the exit code is 0 |
| `offline_feed` | pass | `DecodedPayloadIsThere`, `NeverRefused`, `OutputFollowsInput`, `SuccessIsComplete`, `CutsAreWorthIt`, `StatsTellTheOutput`, types, `FeedEnds` |
| `offline_empty` | violation | `SuccessMeansPcap`: an input without packets leaves an empty file, which is no PCAP file |
| `startup` | pass | `RingIsWhole`, `NothingLeaks`, `OpenIsComplete`, `OutputOnlyIfCapturing`, types, and that a signal at any moment ends the program (`SignalEndsProgram`) |
| `startup_foreign` | violation | `OnlyThisInterface`: a packet of another interface arrives between `socket` and `bind` and waits in the socket of the open capture |

The six violations are the findings of `PROJECT.json`, each with the line of
the code and the sentence of the README that it disagrees with.

### Bounds

* TLS: a client stream of 9 bytes with sequence numbers that wrap inside a
  record (16 of them), a server stream of 7, headers of 2 bytes.  Records that are empty, that
  start and end in the middle of segments, and two application data records in
  one segment all occur; every segment of either stream may come next, without
  a limit on the length of the behaviour.
  There are no lookalikes and no data on SYN segments; the theorem
  `CutsAreConfirmed` is about any streams.
* QUIC: three endpoints, one of which is the lower of one flow, the higher of
  another and talks to itself; ids that are empty, one a prefix of the other;
  all datagrams in any order, without a limit.
* Ring: 2 blocks of 2 packets and up to 4 arrivals (`MaxArrived`): the kernel goes round, finds the ring full, drops and retires partly filled and
  empty blocks.  `IntMod = 16` stands for 2^32.
* Live capture: up to 6 arrivals (`MaxArrived`), a socket buffer and a stream
  buffer of 2, a limit of 4 packets: the socket buffer overflows and the stream
  buffer is flushed between limit and start.  `MaxNoBuffers` bounds the failures of `recvfrom`
  for want of memory.  Without a bound only a signal ends `ReceiveNext`, and
  `duration_sec` is not honoured: this is listed as a hazard.
* Offline: 23 packets, one or more for every check of the decoder and either
  side of it, up to 2 records (`MaxRecords`), 9 places to cut the file (`Size`).
  The snaplen, the capture limit and the threshold lie so that each decides some
  packet.
* Startup: files of up to 7 lines (`MaxLines`) out of 27, enough to choose the
  ring backend, an interface and a layout, with one line to spare for a mistake;
  every reason to refuse a line is among the 27, and one line for every check of
  the ring: blocks that are no pages, frames that are not aligned or too small, or too many to count.  `Max32`, `Max64` and `MaxFrames` stand for
  2^32-1, 2^64-1 and the frame count of the kernel; their order is what counts.

`CHECK_DEADLOCK FALSE` is set where the program ends: live capture, feed, startup.

### Fairness

* TLS: weak fairness of the steps of a call.  It is a loop of one thread.
* Ring: weak fairness of the reader, which contains the return of `poll` on
  readiness and, with a timeout that is not negative, on timeout.  Nothing is
  assumed of the kernel, of the traffic, or of the failure of `poll`.
* Live capture: weak fairness of the loop, which contains the return of
  `recvfrom` after the one second of `SO_RCVTIMEO`.  Failures of `recvfrom` are not fair.
* Offline: weak fairness of the feed.
* Startup: weak fairness of the steps of the program, whose system calls return,
  and of the end of the loop once a stop has been requested, which is what
  `CaptureEnds` and `StopIsHonoured` show of the loop.  Nothing is assumed of the
  loop otherwise.

## 4. Proofs

All are for every value of the constants under the named assumptions of the
modules, which TLC evaluates in each run.

* **`TlsConstrictorProofs`**: `TypeCorrect`, `CutsAreConfirmed`, `Alignment`,
  `HeadsAreKept`, `FinalOnly`, `Resynchronizes`.  `TypeInv` adds to the types that the
  segment lies in its stream and the offset in the segment.  `HandshakeInv`
  carries "confirmed implies that a handshake was on the wire" through the copy
  of the flag that `Evaluate` takes on entry.  `StreamInv` says of the state
  inside a call how the rest of the segment lies in the stream; it is needed
  because `ActiveRecordAligned` itself only speaks of the time between calls.
  The last four theorems assume `CleanStreams` (no lookalikes, no data on SYN
  segments): with a lookalike a direction may be synchronized at a wrong place,
  as in the code, which has no means to notice.  `CutsAreConfirmed` holds without it.
  `CutsAreInApplicationData` says where a cut may lie; its `CandidateInv` follows
  the candidate from the record it was taken in to the verdict.
* **`QuicConstrictorProofs`**: `QuicTypes`, `QuicTracker`,
  `OnlyMatchedPacketsAreCut` (under `Strict`, the options that ask for a known
  id), `MatchesAreFound`, `CutsKeepHeads`.  The invariant `Canonical` relates the two fields
  of an ordered pair to what each endpoint last announced.
* **`TpacketRingProofs`**: `RingInvariant`, `RingTypes`, `WaitsForOldest`,
  `ViewsStayValid`.  The blocks handed over are the cyclic interval from the
  reader's index to the kernel's; `ReaderAtOldest` alone is not inductive,
  because giving a block back makes the next one the oldest.
* **`RingSourceProofs`**: `RingIsPacketSource`, the refinement: every step of the
  ring is a step of `PacketSource` or a stutter.  `OrderInv` orders the packets
  that are still to come by the distance of their block from the reader and
  their place in it, and puts them behind all that were handed out; the cyclic
  interval is what makes a new packet the last.  `NothingVanishes` is
  `NoSilentLoss`: a step that discards packets increases the error count by one
  and loses at most one block of them.
* **`LiveCaptureProofs`**: `CaptureInvariant`, `CaptureTypes`, `NoGapInFile`,
  `AllAccountedFor`, `LimitExact`, `TrueReason`, `PromptStop`, and the refinement
  `SocketIsPacketSource` (`QueueInv`: the queue is in order).  `CaptureInv` is
  what the loop knows at each point: how far the count is behind, that the limit has room for
  the packet in hand, that no reason to stop has been passed over.
* **`OfflinePacketFeedProofs`**: `DecodedPayloadInside` (of every frame),
  `DecodedPayloadAlwaysThere`, `NeverRefusedHolds`, `CutsAreAlwaysWorthIt`,
  `OutputAlwaysFollowsInput`, `StatsAlwaysTellTheOutput`.  `FeedInv` ties the decision to the record the
  reader stands behind, and the records written to those in front of it.
  `StatsInv` says the same of the counters, record by record.
* **`FeedSizeProofs`**: `FeedTypes`, `SuccessIsAlwaysComplete`, `SizesAgree`,
  `ReadNextNeverStuck`, `GoodInputIsAlwaysConverted`.  They need what the
  recursive `FileSize` computes for files of any length (`FileSizeOfOneMore`).
  The induction theorems of the library take an operator, which the provers
  cannot instantiate; here the induction is over a set of natural numbers
  (`SetInduction`), which rests on the well-foundedness of `<` alone.  `SizeInv`
  then ties the reader's offset, `bytes_written`, `bytes_saved` and the size of the output to the
  sums over the records read so far.  `GoodInputIsAlwaysConverted` is the
  converse of `SuccessIsComplete`: a good input that nobody shortens is refused
  by no check of `PcapReader`.
* **`StartupProofs`**: `StartupTypes`, `RingIsAlwaysWhole`,
  `NothingEverLeaks`, `OpenIsAlwaysComplete`, `OutputIsSpared`, `SignalsAreKept`.  `LoaderInv`
  says what any prefix of a file can have set; `OpenInv` says for each step of
  `Open` what it holds of the kernel's socket, without which neither a failure
  nor a success could be told complete; `MainInv` is where `main` stands with
  respect to both.  `LayoutInv` carries what each check of the ring has found to the
  open capture; it needs that the configuration does not change once it is loaded.

**Progress.**  A liveness property has two halves: fairness takes the steps, and
the steps lead to the end.  The second half is safety, and proved for every
liveness property, as an action property about a bound on the steps that are
left: every step of the program lowers it, and no step of the environment
raises it.  (Where a signal ends the capture, from the signal on.)

| liveness property | theorem | bound |
|---|---|---|
| `EvaluateReturns` | `EveryCallProgresses` | bytes not parsed yet, and two |
| `BlocksAreReleased` | `ReleaseIsApproached` | blocks in front of it, then the steps left in the current one (lexicographic) |
| `StopIsHonoured` | `StopIsApproached` | 5 |
| `CaptureEnds` | `EndIsApproached` in `LiveCaptureProofs` | 5 |
| `FeedEnds` | `FeedAlwaysApproachesEnd` | two for each record not read yet, and three |
| `SignalEndsProgram` | `EndIsApproached` in `StartupProofs`, `SignalsAreKept` | 11 |

`TheWalkProgresses` is the same for the walk of the QUIC constrictor over a
datagram, which has no liveness property of its own.

**Scope of the findings.**  A run that finds a violation shows one way in which a
promise fails; these theorems say where it does hold.  The sixth finding,
`ring_infinite`, is about a step that is never taken, which no safety theorem
can bound.

| finding | theorem: the promise holds ... |
|---|---|
| `SuccessMeansSaved` | `SuccessLosesAtMostABuffer`: of every success on a disk with room to the end; on a full disk the file is still a prefix, and lacks at most the contents of the stream's buffer |
| `SuccessMeansPcap` | `SuccessLeavesPcap`: of every success on an input with at least one record, and of no other |
| `OnlyApplicationDataIsDropped` | `DataStreamsLoseOnlyData`: of all streams without lookalikes in which nothing else follows application data (`OnlyDataBehindData`, which the streams of `tls_clean` satisfy) |
| `OnlyMatchedIsCut` | `OnlyMatchedPacketsAreCut`: whenever a known id is asked for |
| `OnlyThisInterface` | `NothingForeignArrivesLater`: of everything that arrives once `Open` has returned |

### Only model-checked

Liveness itself: `EvaluateReturns`, `BlocksAreReleased`, `StopIsHonoured`,
`CaptureEnds`, `FeedEnds`, `SignalEndsProgram`.  That a step which is possible for
long enough is taken is fairness, which speaks of `ENABLED` and is out of the
prover's reach; TLC checks the whole properties under the fairness of section 3.
Every invariant and action property of a passing run is proved.

## 5. Not modelled

* The bytes of the PCAP headers, byte order, time stamps and their precision.
* The text of a line of the configuration: comments, blanks, letter case, the
  digits of a number.
* Usage text and all printing; the counters of the kernel, which are only passed
  on.  README.md calls `bytes_input` "total original input bytes"; main.cpp:255
  adds the captured lengths, and `WriteRecord` follows the code.
* That `recvfrom` cuts a packet longer than the buffer of 65535 bytes or more, and
  its original length is lost (AfPacketCapture.cpp:165).
* The overflow of a `duration_sec` above some 9 * 10^9 when it is compared with a
  clock of nanoseconds (main.cpp:111); the clock of the models is the event "the duration is over".
* Memory: the tables of the constrictors grow without bound, as in the code.
* Input and output being the same file, which the code does not check.
* Weak memory orders: the barrier of `WaitForReadyBlock`
  (AfPacketTpacketV3Capture.cpp:463) stands in front of the read of the block
  status, and none between that and the reads of the block, which is right on x86.
* Tests and build files.

## 6. Plan

The order of the work was: the TLS tracker, where most of the program's own
logic is; the ring, where a second actor shares memory; QUIC; the capture loop;
the offline pipeline with decoder, policy and stats; configuration, `Open` and
`main`.  What is left:

1. The policy composed with the two constrictors on one frame, in place of
   `Results`.
2. Byte order, time stamps and their precision between `PcapReader` and
   `PcapWriter`.
